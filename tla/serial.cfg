\* Non-overlapping calls of every kind, sizes up to and over both buffers, at
\* exact multiples of them, and over bufio's buffer.
CONSTANTS
  c1 = c1
  c2 = c2
  Callers = {c1, c2}
  MaxCalls = 2
  Serial = TRUE
  Kinds = {"ok", "herr", "rejected", "noservice", "nomethod"}
  ReqSizes = {2, 3, 6, 7}
  RespSizes = {1, 4, 7}
  ClientBuf = 2
  ServerBuf = 3
  BufioSize = 6
  QueueCap = 1
  EndMark = TRUE
  NoMsg = NoMsg
  Torn = Torn
SPECIFICATION FairSpec
INVARIANTS TypeOK OwnReply ExactlyOnce
PROPERTIES AnsweredOrLost ImplementsUnaryCall
\* A dropped request or a server that is down leaves its caller waiting.
CHECK_DEADLOCK FALSE
