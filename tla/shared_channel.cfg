\* Two goroutines inside Invoke at once: the locks do not pair responses with calls.
CONSTANTS
  c1 = c1
  c2 = c2
  Callers = {c1, c2}
  MaxCalls = 1
  Serial = FALSE
  Kinds = {"ok"}
  ReqSizes = {2}
  RespSizes = {2}
  ClientBuf = 3
  ServerBuf = 3
  BufioSize = 6
  QueueCap = 1
  EndMark = TRUE
  NoMsg = NoMsg
  Torn = Torn
SPECIFICATION Spec
INVARIANTS OwnReply
CHECK_DEADLOCK FALSE
