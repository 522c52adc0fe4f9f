SPECIFICATION Spec
CONSTANTS
  c1 = c1
  c2 = c2
  Clients <- MCClients
  Requests <- MCRequests
  Configs <- MCConfigs
  DefaultConfig <- MCDefaultConfig
  ConsoleMacs = {7}
  Temperatures = {20}
  Serials = {77}
  TxBufSize = 16
  RxCap = 1
  iostack_max_payload_size = 6
  MemoryWords = {0, 9}
  MaxInFlight = 2
INVARIANTS
  TypeOK
  ExactlyOneReply
  ConfigAgreement
  MacPinned
  IInv
PROPERTIES
  ReplyAnswersRequest
  PingEchoed
  RefusedWithoutEffect
  AckedConfigDurable
