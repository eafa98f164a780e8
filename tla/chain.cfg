\* Two clients and both servers, the end server with the service that the
\* middle server calls; goodbyes of one and of three reads, one over bufio's
\* buffer.
CONSTANTS
  c1 = c1
  c2 = c2
  Clients = {c1, c2}
  MaxCalls = 2
  Serial = FALSE
  Kinds = {"ok"}
  ReqSizes = {2, 4}
  RespSizes = {2, 7}
  ClientBuf = 3
  ServerBuf = 3
  BufioSize = 6
  QueueCap = 1
  EndMark = FALSE
  NoMsg = NoMsg
  Torn = Torn
SPECIFICATION FairSpec
INVARIANTS TypeOK ChannelLeftClean OneGoodbyeEach OwnGreeting OneGreeting
PROPERTIES EveryoneGreeted
\* Clients may die, or have made their last call.
CHECK_DEADLOCK FALSE
