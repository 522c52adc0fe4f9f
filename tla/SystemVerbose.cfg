SPECIFICATION Spec
CONSTANTS
  c1 = c1
  Me = c1
  Ops <- MCFewOps
  IdMod = 2
  MaxRetries = 1
  MaxPayload = 4
  Verbosity = 1
  Nesting = FALSE
  Reorders = {TRUE}
  Configs <- MCConfigs
  DefaultConfig <- MCConfig
  ConsoleMacs = {7}
  Temperatures = {20}
  Serials = {77}
  iostack_max_payload_size = 6
  MemoryWords = {0}
INVARIANT
  SkippingGoesOn
