SPECIFICATION Spec
CONSTANTS
  c1 = c1
  Me = c1
  Ops <- MCNested
  IdMod = 3
  MaxRetries = 1
  MaxPayload = 4
  Verbosity = 0
  Nesting = TRUE
  Reorders = {TRUE}
  Configs <- MCConfigs
  DefaultConfig <- MCConfig
  ConsoleMacs = {7}
  Temperatures = {20}
  Serials = {77}
  iostack_max_payload_size = 6
  MemoryWords = {0}
PROPERTY
  OwnRepliesYielded
