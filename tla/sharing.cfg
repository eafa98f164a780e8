\* Goroutines that share the channel, one message per queue, messages of one to
\* three reads, of which some fill their last buffer.
CONSTANTS
  c1 = c1
  c2 = c2
  Callers = {c1, c2}
  MaxCalls = 2
  Serial = FALSE
  Kinds = {"ok"}
  ReqSizes = {2, 3}
  RespSizes = {2, 5}
  ClientBuf = 2
  ServerBuf = 2
  BufioSize = 6
  QueueCap = 1
  EndMark = TRUE
  NoMsg = NoMsg
  Torn = Torn
SPECIFICATION FairSpec
INVARIANTS QuietChannel HandlesWholeRequests RanOnce OneTaker
PROPERTIES AnsweredOrLost
