SPECIFICATION FairSpec
CONSTANTS
  d1 = d1
  d2 = d2
  Devices <- MCDevices
  FactoryConfig <- MCFactoryConfig
  Interfaces <- MCInterfaces
  Reach <- MCReach
  Arguments <- MCArguments
  NoArg = NoArg
  MaxRuns = 2
INVARIANT
  IInv
PROPERTIES
  ChangesAreAskedFor
  ChangesAsAsked
  ToolEnds
CHECK_DEADLOCK FALSE
