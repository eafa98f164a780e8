------------------------------ MODULE UnaryRpc ------------------------------
(***************************************************************************)
(* One notnets connection carrying unary RPCs: the goroutines that call    *)
(* NotnetsChannel.Invoke on the client side, the serveRequests goroutine   *)
(* of the server side, and the pair of shared memory queues between them.  *)
(*                                                                         *)
(* A message is a record; its bytes are abstracted to its size and to how  *)
(* many of them, counted from the first, a reader has put together.  What  *)
(* the loops of Invoke and serveRequests see of the queue is kept: a read  *)
(* fills at most the buffer it is given, never crosses a message boundary, *)
(* and a read that does not fill the buffer ends the message.              *)
(***************************************************************************)
EXTENDS Naturals, Sequences, FiniteSets

CONSTANTS
  Callers,     \* the goroutines that share one NotnetsChannel
  MaxCalls,    \* bound: how many calls each goroutine sends
  Serial,      \* TRUE: the application never has two Invokes in flight
  Kinds,       \* what becomes of a request in handleMethod, a subset of AllKinds
  ReqSizes,    \* sizes of serialized requests
  RespSizes,   \* sizes of serialized responses
  ClientBuf,   \* NotnetsChannel.message_size
  ServerBuf,   \* NotnetsServer.message_size
  BufioSize,   \* what bufio.NewReader takes from a bytes.Buffer at once
  QueueCap,    \* messages a shared memory queue holds
  EndMark,     \* TRUE: a message that fills the last buffer exactly is ended
               \*   by one more read, of no bytes (see AfterRead)
  NoMsg,       \* model value: no message
  Torn         \* model value: bytes that no message begins with

(***************************************************************************)
(* "ok": the service method returns a reply.  "herr": it returns an error  *)
(* beside a nil reply of the method's type.  "rejected": the interceptor   *)
(* or the decoder returns an error beside an untyped nil.  "noservice",    *)
(* "nomethod": the name is not registered with the server.                 *)
(***************************************************************************)
AllKinds == {"ok", "herr", "rejected", "noservice", "nomethod"}

Requests == [caller : Callers, n : Nat, body : Kinds, size : ReqSizes]
Replies  == [caller : Callers, n : Nat, body : {"value", "empty"}, size : RespSizes]

(* A buffer of no bytes makes &buf[0] panic, so both are positive.  *)
ASSUME ConstantsOK ==
  /\ Kinds \subseteq AllKinds
  /\ ReqSizes \subseteq Nat \ {0}
  /\ RespSizes \subseteq Nat \ {0}
  /\ {ClientBuf, ServerBuf, BufioSize, QueueCap} \subseteq Nat \ {0}
  /\ MaxCalls \in Nat
  /\ {Serial, EndMark} \subseteq BOOLEAN
ASSUME CallersFinite == IsFiniteSet(Callers)
ASSUME NoMsgOK == NoMsg # Torn /\ {NoMsg, Torn} \cap (Requests \cup Replies) = {}

VARIABLES
  up,        \* the server process is alive
  reqQ,      \* request queue, and
  reqOff,    \*   how many bytes of its head have been read
  respQ,     \* response queue, and
  respOff,   \*   how many bytes of its head have been read
  spc,       \* where serveRequests is: reading | handling | writing
  sbuf,      \* variable_request_buffer
  reply,     \* the response handleMethod is about to write
  cpc,       \* where each caller is: idle | waiting (for read_mu) | reading
  cbuf,      \* its variable_respnse_buffer
  calls,     \* how many calls it has sent
  ret,       \* what its last Invoke returned
  ctxDone,   \* the context of its call is cancelled or past its deadline
  executed,  \* history: how many of its calls a service method has run
  lost       \* history: calls handleMethod returned from without a response

reqVars  == <<reqQ, reqOff>>
respVars == <<respQ, respOff>>
srvVars  == <<up, spc, sbuf, reply>>
cliVars  == <<cpc, cbuf, calls, ret, ctxDone>>
history  == <<executed, lost>>
vars     == <<reqVars, respVars, srvVars, cliVars, history>>

-----------------------------------------------------------------------------
(* Reassembly: a reader's buffer is the message its bytes begin with and   *)
(* how many bytes of it, without a gap, are there.  Bytes that follow a    *)
(* whole message are dropped by the Reset after parsing.                   *)

EmptyBuf == [msg |-> NoMsg, got |-> 0]
TornBuf  == [msg |-> Torn,  got |-> 0]

Whole(b) == b.msg \notin {NoMsg, Torn} /\ b.got = b.msg.size

\* The buffer after `k' bytes of `m', read from offset `lo', are appended.
Absorb(b, m, lo, k) ==
  CASE b = EmptyBuf /\ lo = 0                        -> [msg |-> m, got |-> k]
    [] ~Whole(b) /\ b.msg = m /\ b.got = lo          -> [b EXCEPT !.got = lo + k]
    [] Whole(b)                                      -> b
    [] OTHER                                         -> TornBuf

\* Bytes a read with a buffer of `n' bytes takes from the head of `q'.
Fetch(q, off, n) ==
  LET left == Head(q).size - off IN IF left < n THEN left ELSE n

\* The read that takes the last byte removes the message; with EndMark one
\* that also fills the buffer leaves it there, for a read of no bytes.
Pops(q, off, n) ==
  LET k == Fetch(q, off, n) IN off + k = Head(q).size /\ (k < n \/ ~EndMark)

AfterRead(q, off, n)    == IF Pops(q, off, n) THEN Tail(q) ELSE q
AfterReadOff(q, off, n) == IF Pops(q, off, n) THEN 0 ELSE off + Fetch(q, off, n)

\* bufio has taken at most BufioSize bytes when the buffer is Reset under it,
\* so the body of a longer message ends early.  (Headers fit BufioSize.)
Readable(m) == m.size <= BufioSize

-----------------------------------------------------------------------------
(* Client: NotnetsChannel.Invoke                                           *)

Init ==
  /\ up = TRUE
  /\ reqQ = <<>> /\ reqOff = 0
  /\ respQ = <<>> /\ respOff = 0
  /\ spc = "reading" /\ sbuf = EmptyBuf /\ reply = NoMsg
  /\ cpc = [c \in Callers |-> "idle"]
  /\ cbuf = [c \in Callers |-> EmptyBuf]
  /\ calls = [c \in Callers |-> 0]
  /\ ret = [c \in Callers |-> [tag |-> "none", msg |-> NoMsg]]
  /\ ctxDone = [c \in Callers |-> FALSE]
  /\ executed = [c \in Callers |-> 0]
  /\ lost = {}

\* Write returns when there was room in the queue, and holds write_mu till then.
CanWrite(q) == Len(q) < QueueCap

MayInvoke(c) ==
  /\ cpc[c] = "idle"
  /\ calls[c] < MaxCalls
  /\ Serial => \A d \in Callers : cpc[d] = "idle"

\* Credentials, marshalling or NewRequest fail: Invoke returns before it sends.
InvokeRefused(c) ==
  /\ MayInvoke(c)
  /\ ret' = [ret EXCEPT ![c] = [tag |-> "refused", msg |-> NoMsg]]
  /\ UNCHANGED <<reqVars, respVars, srvVars, cpc, cbuf, calls, ctxDone, history>>

\* The request is serialized and written to the queue.  Invoke goes on to
\* read, with an empty buffer.
Invoke(c) ==
  /\ MayInvoke(c)
  /\ CanWrite(reqQ)
  /\ \E kind \in Kinds, size \in ReqSizes :
       reqQ' = Append(reqQ, [caller |-> c, n |-> calls[c] + 1, body |-> kind, size |-> size])
  /\ calls' = [calls EXCEPT ![c] = @ + 1]
  /\ cpc' = [cpc EXCEPT ![c] = "waiting"]
  /\ cbuf' = [cbuf EXCEPT ![c] = EmptyBuf]
  /\ ret' = [ret EXCEPT ![c] = [tag |-> "none", msg |-> NoMsg]]
  /\ ctxDone' = [ctxDone EXCEPT ![c] = FALSE]
  /\ UNCHANGED <<reqOff, respVars, srvVars, history>>

\* A read that leaves room in the buffer has brought the end of a response.
\* Mutant: a last read of no bytes is not taken for the end.
LastOfResponseSkipsEmpty(k) == 0 < k /\ k < ClientBuf
LastOfResponse(k)           == k < ClientBuf

\* What Invoke returns for the buffer it has put together.  "reply": the response
\* is read whole; setMetadata and Unmarshal, which may still refuse it, are told
\* apart in CallMetadata.  "corrupt": bytes of several responses, which give an
\* error or, if they happen to parse, a reply that nobody sent.
Parsed(b) ==
  CASE ~Whole(b)                      -> [tag |-> "corrupt", msg |-> NoMsg]
    [] Whole(b) /\ ~Readable(b.msg)   -> [tag |-> "eof",     msg |-> b.msg]
    [] Whole(b) /\ Readable(b.msg)    -> [tag |-> "reply",   msg |-> b.msg]

\* read_mu is taken for one read, not for the call, and kept while the queue
\* is empty: its holder gets the next bytes, whoever they are for.
LockRead(c) ==
  /\ cpc[c] = "waiting"
  /\ \A d \in Callers : cpc[d] # "reading"
  /\ cpc' = [cpc EXCEPT ![c] = "reading"]
  /\ UNCHANGED <<reqVars, respVars, srvVars, cbuf, calls, ret, ctxDone, history>>

\* One turn of the read loop: the read, the Unlock and the append.  A read
\* that does not fill the buffer ends the loop and the call.
ClientRead(c) ==
  /\ cpc[c] = "reading"
  /\ respQ # <<>>
  /\ LET k == Fetch(respQ, respOff, ClientBuf)
         b == Absorb(cbuf[c], Head(respQ), respOff, k)
     IN  IF LastOfResponse(k)
           THEN /\ cpc' = [cpc EXCEPT ![c] = "idle"]
                /\ cbuf' = [cbuf EXCEPT ![c] = EmptyBuf]
                /\ ret' = [ret EXCEPT ![c] = Parsed(b)]
           ELSE /\ cpc' = [cpc EXCEPT ![c] = "waiting"]
                /\ cbuf' = [cbuf EXCEPT ![c] = b]
                /\ UNCHANGED ret
  /\ respQ' = AfterRead(respQ, respOff, ClientBuf)
  /\ respOff' = AfterReadOff(respQ, respOff, ClientBuf)
  /\ UNCHANGED <<reqVars, srvVars, calls, ctxDone, history>>

\* Mutant: Invoke returns when its context ends.
CtxDoneAborts(c) ==
  /\ cpc[c] # "idle"
  /\ cpc' = [cpc EXCEPT ![c] = "idle"]
  /\ cbuf' = [cbuf EXCEPT ![c] = EmptyBuf]
  /\ UNCHANGED <<reqVars, respVars, srvVars, calls, ret, ctxDone, history>>

\* The context of a call in flight ends.  Nothing in Invoke looks at it.
CtxDone(c) ==
  /\ cpc[c] # "idle"
  /\ ~ctxDone[c]
  /\ ctxDone' = [ctxDone EXCEPT ![c] = TRUE]
  /\ UNCHANGED <<reqVars, respVars, srvVars, cpc, cbuf, calls, ret, history>>

-----------------------------------------------------------------------------
(* Server: serveRequests and handleMethod                                  *)

\* A read that leaves room in the buffer has brought the end of a request.
\* Mutant: off by one.
LastOfRequestOffByOne(k) == k <= ServerBuf
LastOfRequest(k)         == k < ServerBuf

\* One turn of the read loop of serveRequests.
ServerRead ==
  /\ up
  /\ spc = "reading"
  /\ reqQ # <<>>
  /\ LET k == Fetch(reqQ, reqOff, ServerBuf)
     IN  /\ sbuf' = Absorb(sbuf, Head(reqQ), reqOff, k)
         /\ spc' = IF LastOfRequest(k) THEN "handling" ELSE "reading"
  /\ reqQ' = AfterRead(reqQ, reqOff, ServerBuf)
  /\ reqOff' = AfterReadOff(reqQ, reqOff, ServerBuf)
  /\ UNCHANGED <<respVars, up, reply, cliVars, history>>

\* ReadRequest fails, or the body ends early: handleMethod returns, the
\* buffer is Reset, and no response is written.  (The return between the two,
\* when contextFromHeaders fails, is in MethodStarts of CallMetadata.)  A
\* service that is not registered panics before the body is read.
DropUnreadable ==
  /\ up
  /\ spc = "handling"
  /\ ~Whole(sbuf) \/ (~Readable(sbuf.msg) /\ sbuf.msg.body # "noservice")
  /\ lost' = IF Whole(sbuf) THEN lost \cup {<<sbuf.msg.caller, sbuf.msg.n>>} ELSE lost
  /\ sbuf' = EmptyBuf
  /\ spc' = "reading"
  /\ UNCHANGED <<reqVars, respVars, up, reply, cliVars, executed>>

\* sd.Methods of a nil sd, or md.Handler of a nil md: the goroutine panics,
\* and nothing recovers it, so the process ends.
PanicUnknown ==
  /\ up
  /\ spc = "handling"
  /\ Whole(sbuf)
  /\ \/ sbuf.msg.body = "noservice"
     \/ sbuf.msg.body = "nomethod" /\ Readable(sbuf.msg)
  /\ up' = FALSE
  /\ UNCHANGED <<reqVars, respVars, spc, sbuf, reply, cliVars, history>>

\* Mutant: the return after the failed Marshal is missing.
RejectFallsThrough ==
  /\ up
  /\ spc = "handling"
  /\ Whole(sbuf) /\ Readable(sbuf.msg) /\ sbuf.msg.body = "rejected"
  /\ reply' = NoMsg
  /\ sbuf' = EmptyBuf
  /\ spc' = "writing"
  /\ UNCHANGED <<reqVars, respVars, up, cliVars, history>>

\* The handler returns an untyped nil: Marshal fails, and handleMethod
\* returns after it filled in headers of a response that is never written.
RejectRequest ==
  /\ up
  /\ spc = "handling"
  /\ Whole(sbuf) /\ Readable(sbuf.msg) /\ sbuf.msg.body = "rejected"
  /\ lost' = lost \cup {<<sbuf.msg.caller, sbuf.msg.n>>}
  /\ sbuf' = EmptyBuf
  /\ spc' = "reading"
  /\ UNCHANGED <<reqVars, respVars, up, reply, cliVars, executed>>

\* The service method runs.  Its error is overwritten by Marshal's, and a nil
\* reply of the method's type marshals to no bytes: a 200 response either way.
CallHandler ==
  /\ up
  /\ spc = "handling"
  /\ Whole(sbuf) /\ Readable(sbuf.msg) /\ sbuf.msg.body \in {"ok", "herr"}
  /\ \E size \in RespSizes :
       reply' = [caller |-> sbuf.msg.caller, n |-> sbuf.msg.n,
                 body |-> IF sbuf.msg.body = "ok" THEN "value" ELSE "empty", size |-> size]
  /\ executed' = [executed EXCEPT ![sbuf.msg.caller] = @ + 1]
  /\ spc' = "writing"
  /\ UNCHANGED <<reqVars, respVars, up, cliVars, lost>>

\* Mutant: without the Reset the request stays ahead of the next one.
RunHandlerNoReset == CallHandler /\ UNCHANGED sbuf
RunHandler        == CallHandler /\ sbuf' = EmptyBuf

\* Mutants: Write gives up on a full queue; the response is written again.
ServerWriteGivesUp ==
  /\ up
  /\ spc = "writing"
  /\ respQ' = IF CanWrite(respQ) THEN Append(respQ, reply) ELSE respQ
  /\ reply' = NoMsg
  /\ spc' = "reading"
  /\ UNCHANGED <<reqVars, respOff, up, sbuf, cliVars, history>>

ServerWriteRetries ==
  /\ up
  /\ spc = "writing"
  /\ CanWrite(respQ)
  /\ respQ' = Append(respQ, reply)
  /\ spc' \in {"reading", "writing"}
  /\ UNCHANGED <<reqVars, respOff, up, sbuf, reply, cliVars, history>>

\* The response is written; Write waits while the queue is full.
ServerWrite ==
  /\ up
  /\ spc = "writing"
  /\ CanWrite(respQ)
  /\ respQ' = Append(respQ, reply)
  /\ reply' = NoMsg
  /\ spc' = "reading"
  /\ UNCHANGED <<reqVars, respOff, up, sbuf, cliVars, history>>

-----------------------------------------------------------------------------
\* Every caller has made its calls and has returned from the last.
Finished ==
  /\ \A c \in Callers : cpc[c] = "idle" /\ calls[c] = MaxCalls
  /\ UNCHANGED vars

ServerStep == ServerRead \/ DropUnreadable \/ PanicUnknown \/ RejectRequest
                \/ RunHandler \/ ServerWrite

Next ==
  \/ \E c \in Callers : InvokeRefused(c) \/ Invoke(c) \/ LockRead(c)
                          \/ ClientRead(c) \/ CtxDone(c)
  \/ ServerStep
  \/ Finished

Spec == Init /\ [][Next]_vars

(* The server goroutine and the holder of read_mu keep running; read_mu is *)
(* handed to a waiter that has waited long (Go's mutex starvation mode).   *)
(* No caller is obliged to call, and no context is obliged to end.         *)
Fairness ==
  /\ WF_vars(ServerStep)
  /\ \A c \in Callers : SF_vars(LockRead(c)) /\ WF_vars(ClientRead(c))

FairSpec == Spec /\ Fairness

-----------------------------------------------------------------------------
(* Properties                                                              *)

RequestBufs == [msg : Requests, got : Nat] \cup {EmptyBuf, TornBuf}
ReplyBufs   == [msg : Replies, got : Nat] \cup {EmptyBuf, TornBuf}
Returns == [tag : {"none", "refused", "corrupt"}, msg : {NoMsg}]
             \cup [tag : {"eof", "reply"}, msg : Replies]

\* Every variable holds what the Go fields and locals of its kind can hold.
TypeOK ==
  /\ up \in BOOLEAN
  /\ reqQ \in Seq(Requests) /\ reqOff \in Nat
  /\ respQ \in Seq(Replies) /\ respOff \in Nat
  /\ spc \in {"reading", "handling", "writing"}
  /\ sbuf \in RequestBufs
  /\ reply \in Replies \cup {NoMsg}
  /\ cpc \in [Callers -> {"idle", "waiting", "reading"}]
  /\ cbuf \in [Callers -> ReplyBufs]
  /\ calls \in [Callers -> Nat]
  /\ ret \in [Callers -> Returns]
  /\ ctxDone \in [Callers -> BOOLEAN]
  /\ executed \in [Callers -> Nat]
  /\ lost \in SUBSET (Callers \X Nat)

\* However many goroutines share the channel, once none is inside Invoke the
\* connection is empty: no request or reply is left in a queue or a buffer
\* for a later call to trip over.  (Invoke and handleMethod pair one message
\* each way with each call, and only a finished call stops reading.)
QuietChannel ==
  (\A c \in Callers : cpc[c] = "idle") =>
    /\ reqQ = <<>> /\ respQ = <<>>
    /\ spc = "reading" /\ sbuf = EmptyBuf

\* Whatever the sizes and however reads split the messages, serveRequests
\* hands handleMethod a buffer that begins with one whole request.
HandlesWholeRequests == spc = "handling" => Whole(sbuf) /\ sbuf.msg \in Requests

\* When Invokes do not overlap, what Invoke returns is about its own call,
\* and never bytes of several responses mixed.
OwnReply ==
  \A c \in Callers :
    /\ ret[c].tag # "corrupt"
    /\ ret[c].tag \in {"eof", "reply"} => ret[c].msg.caller = c /\ ret[c].msg.n = calls[c]

\* When Invokes do not overlap, a service method runs at most once for a
\* call, and exactly once for every call that has come back.
ExactlyOnce ==
  \A c \in Callers :
    /\ executed[c] \in {calls[c], calls[c] - 1}
    /\ cpc[c] = "idle" => executed[c] = calls[c]

\* However calls overlap, a method never runs more often than it was called
\* for, and when no goroutine is inside Invoke it has run for every call.
RanOnce ==
  /\ \A c \in Callers : executed[c] <= calls[c]
  /\ (\A c \in Callers : cpc[c] = "idle") => executed = calls

\* No two callers hold the reply to the same call, even when their reads of
\* the response queue interleave.
OneTaker ==
  \A c, d \in Callers :
    ret[c].tag = "reply" /\ ret[d].tag = "reply" /\ c # d =>
      <<ret[c].msg.caller, ret[c].msg.n>> # <<ret[d].msg.caller, ret[d].msg.n>>

\* A call comes back, unless the server is one that dropped it or went down:
\* handleMethod's silent returns and panics are the only ways to hang Invoke.
AnsweredOrLost ==
  \A c \in Callers :
    cpc[c] # "idle" ~> (cpc[c] = "idle" \/ <<c, calls[c]>> \in lost \/ ~up)

\* How the state maps to that of a unary call: a call is executed once its
\* service method has run, and its answer is the call its reply is for.
Phase == [c \in Callers |-> CASE cpc[c] = "idle"                              -> "idle"
                              [] cpc[c] # "idle" /\ executed[c] # calls[c] -> "called"
                              [] cpc[c] # "idle" /\ executed[c] = calls[c] -> "executed"]
Answer == [c \in Callers |-> IF ret[c].tag = "reply"
                                THEN <<ret[c].msg.caller, ret[c].msg.n>> ELSE <<>>]

Abs == INSTANCE UnaryCall WITH phase <- Phase, sent <- calls, answer <- Answer

\* Serial use of Invoke over the queues is an execute-at-most-once call that
\* answers its own caller (module UnaryCall).
ImplementsUnaryCall == Abs!Spec

(* What comments and tests of the code say, and the code does not do.      *)

\* server.go:442, "Error code must be sent back to client": a call whose
\* service method failed does not return a reply as if it had succeeded.
NoFalseSuccess == \A c \in Callers : ret[c].tag = "reply" => ret[c].msg.body = "value"

\* server.go:309, "append to dynamically allocated data until all data is
\* read": a request that was reassembled whole reaches its handler.
RequestsReachHandler == lost = {}

\* utils.go:87, "For outgoing client requests, the context controls
\* cancellation": a call whose context has ended comes back.
CancelEndsCall == \A c \in Callers : ctxDone[c] ~> (cpc[c] = "idle")

=============================================================================
