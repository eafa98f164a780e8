\* A request that is longer than the bufio buffer.
CONSTANTS
  c1 = c1
  c2 = c2
  Callers = {c1}
  MaxCalls = 1
  Serial = TRUE
  Kinds = {"ok"}
  ReqSizes = {7}
  RespSizes = {2}
  ClientBuf = 3
  ServerBuf = 3
  BufioSize = 6
  QueueCap = 1
  EndMark = TRUE
  NoMsg = NoMsg
  Torn = Torn
SPECIFICATION Spec
INVARIANTS RequestsReachHandler
CHECK_DEADLOCK FALSE
