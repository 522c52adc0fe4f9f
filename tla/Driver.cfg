SPECIFICATION FairSpec
CONSTANTS
  MaxHigh = 2
  MaxByte = 3
  RxRingSize = 7
  RxPtrMod = 14
  header_size = 2
  Size = 2
  Datagrams <- MCDatagrams
  TxRingSize = 4
  TxPtrMod = 8
  Parts <- MCParts
  MaxWrites = 3
INVARIANTS
  IInv
  NotTorn
  RingHoldsQueue
PROPERTIES
  CallReturns
  ImplementsPort
  FullRelieved
  SentAsWritten
  EndReportsOwn
