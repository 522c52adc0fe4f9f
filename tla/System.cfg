SPECIFICATION FairSpec
CONSTANTS
  c1 = c1
  Me = c1
  Ops <- MCOps
  IdMod = 2
  MaxRetries = 0
  MaxPayload = 4
  Verbosity = 0
  Nesting = FALSE
  Reorders = {TRUE}
  Configs <- MCConfigs
  DefaultConfig <- MCConfig
  ConsoleMacs = {7}
  Temperatures = {20}
  Serials = {77}
  iostack_max_payload_size = 6
  MemoryWords = {0}
INVARIANTS
  IInv
  ResponsesExecuted
  NoResponseError
  VerdictFits
PROPERTY CallEnds
