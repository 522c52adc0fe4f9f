SPECIFICATION ScriptSpec
CONSTANTS
  c1 = c1
  Me = c1
  Ops <- MCScriptOps
  ScriptsRun <- MCScripts
  ScriptsInOrder <- MCPulseScripts
  MaxCalls = 3
  MaxCallsInOrder = 6
  PingWords = {3, 4}
  IdMod = 2
  MaxRetries = 1
  MaxPayload = 2
  Verbosity = 0
  Nesting = FALSE
  Reorders = {TRUE, FALSE}
  Configs <- MCConfigs
  DefaultConfig <- MCConfig
  ConsoleMacs = {7}
  Temperatures = {20}
  Serials = {77}
  iostack_max_payload_size = 6
  MemoryWords = {0}
INVARIANTS
  ScriptInv
  PingsGoOn
  DoneIsSet
PROPERTIES
  CurrentSetWhileLow
  SettingStays
