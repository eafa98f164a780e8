\* One call with metadata of its context and its credentials; its method and a
\* goroutine that outlives it set three values between them.
CONSTANTS
  Bases = {"foo", "foo-bin", "content-type", "te"}
  BinBases = {"foo-bin"}
  ReservedBases = {"content-type", "te"}
  ContentType = "content-type"
  MaxPre = 2
  Late = {"late"}
  MaxSets = 3
  ReqNames <- MCReqNames
  RespNames <- MCRespNames
  HdrAddrs = {"h1", "h2"}
  TlrAddrs = {"t1"}
SPECIFICATION Spec
INVARIANTS TypeOK MethodSeesMetadata ResponseArrives SentHeadersAreFinal AddressesAgree
\* The call ends, or the server process does.
CHECK_DEADLOCK FALSE
