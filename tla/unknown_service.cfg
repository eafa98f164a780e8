\* The chain as it is shipped: the end server does not have the service that
\* the middle server calls.
CONSTANTS
  c1 = c1
  c2 = c2
  Clients = {c1, c2}
  MaxCalls = 1
  Serial = FALSE
  Kinds = {"noservice"}
  ReqSizes = {2}
  RespSizes = {2}
  ClientBuf = 3
  ServerBuf = 3
  BufioSize = 6
  QueueCap = 1
  EndMark = TRUE
  NoMsg = NoMsg
  Torn = Torn
SPECIFICATION Spec
INVARIANTS EndSurvives
CHECK_DEADLOCK FALSE
