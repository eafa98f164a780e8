--------------------------- MODULE UnaryRpcProofs ---------------------------
(***************************************************************************)
(* What TLAPS proves about UnaryRpc, for any number of callers, calls,     *)
(* sizes and queue capacities, and whether or not the library ends a       *)
(* message that fills the last buffer with a read of no bytes (EndMark).   *)
(***************************************************************************)
EXTENDS UnaryRpc, FiniteSetTheorems, SequenceTheorems, TLAPS

(***************************************************************************)
(* The inductive invariant.  TypeOK alone is not inductive: the read       *)
(* offset has to stay within the message it counts bytes of.               *)
(***************************************************************************)
OffsetsOK ==
  /\ IF reqQ = <<>> THEN reqOff = 0 ELSE reqOff <= Head(reqQ).size
  /\ IF respQ = <<>> THEN respOff = 0 ELSE respOff <= Head(respQ).size

ReplyReady == spc = "writing" => reply \in Replies

TInv == TypeOK /\ OffsetsOK /\ ReplyReady

\* The server's buffer holds the part of the head of the queue that has been
\* read, or a whole request, and it is empty between two requests.
ServerBufOK ==
  /\ spc # "reading" => reqOff = 0
  /\ spc = "handling" => Whole(sbuf)
  /\ spc = "writing" => sbuf = EmptyBuf
  /\ spc = "reading" =>
       \/ sbuf = EmptyBuf /\ reqOff = 0
       \/ Whole(sbuf)
       \/ reqQ # <<>> /\ sbuf.msg = Head(reqQ) /\ sbuf.got = reqOff

\* Every message under way, in a queue or inside the server, has a caller
\* inside Invoke that will take one message off the response queue.
Pending == {c \in Callers : cpc[c] # "idle"}
Busy    == spc # "reading" \/ (sbuf # EmptyBuf /\ reqOff = 0)
Debt    == Len(reqQ) + Len(respQ) + (IF Busy THEN 1 ELSE 0)

CountOK == Debt <= Cardinality(Pending)

IInv == TInv /\ ServerBufOK /\ CountOK

-----------------------------------------------------------------------------
(* Lemmas about the operators of UnaryRpc.                                 *)

\* A read of the head of a queue takes at most what is left of the message,
\* and all that is left if it does not fill the buffer.
LEMMA FetchBounds ==
  ASSUME NEW q, NEW off \in Nat, NEW n \in Nat \ {0},
         Head(q).size \in Nat \ {0}, off <= Head(q).size
  PROVE  LET k == Fetch(q, off, n)
         IN  /\ k \in Nat
             /\ k <= n
             /\ off + k <= Head(q).size
             /\ k < n => off + k = Head(q).size
BY SMT DEF Fetch

\* What a read leaves of a queue of messages, and of the offset.
LEMMA ReadKeepsQueue ==
  ASSUME NEW S, \A m \in S : m.size \in Nat \ {0},
         NEW q \in Seq(S), q # <<>>,
         NEW off \in Nat, off <= Head(q).size, NEW n \in Nat \ {0}
  PROVE  LET r == AfterRead(q, off, n)
             o == AfterReadOff(q, off, n)
         IN  /\ r \in Seq(S)
             /\ o \in Nat
             /\ IF r = <<>> THEN o = 0 ELSE o <= Head(r).size
<1>1. Head(q) \in S /\ Head(q).size \in Nat \ {0}
  BY HeadTailProperties
<1>2. Tail(q) \in Seq(S)
  BY HeadTailProperties
<1>3. /\ Fetch(q, off, n) \in Nat
      /\ off + Fetch(q, off, n) <= Head(q).size
  BY <1>1, FetchBounds
<1>4. CASE Pops(q, off, n)
  <2>1. AfterRead(q, off, n) = Tail(q) /\ AfterReadOff(q, off, n) = 0
    BY <1>4 DEF AfterRead, AfterReadOff
  <2>2. Tail(q) # <<>> => Head(Tail(q)).size \in Nat
    BY <1>2, HeadTailProperties
  <2> QED BY <1>2, <2>1, <2>2
<1>5. CASE ~Pops(q, off, n)
  <2>1. /\ AfterRead(q, off, n) = q
        /\ AfterReadOff(q, off, n) = off + Fetch(q, off, n)
    BY <1>5 DEF AfterRead, AfterReadOff
  <2> QED BY <1>3, <2>1
<1> QED BY <1>4, <1>5

\* A read takes at most one message off a queue, and does so when it does not
\* fill the buffer; what is then left has not been read.
LEMMA ReadPopsAtMostOne ==
  ASSUME NEW S, \A m \in S : m.size \in Nat \ {0},
         NEW q \in Seq(S), q # <<>>,
         NEW off \in Nat, off <= Head(q).size, NEW n \in Nat \ {0}
  PROVE  LET k == Fetch(q, off, n)
             r == AfterRead(q, off, n)
             o == AfterReadOff(q, off, n)
         IN  /\ k < n => r = Tail(q) /\ o = 0 /\ off + k = Head(q).size
             /\ \/ r = Tail(q) /\ Len(r) = Len(q) - 1 /\ o = 0 /\ off + k = Head(q).size
                \/ r = q /\ o = off + k /\ k = n
<1>1. Head(q).size \in Nat \ {0} /\ Len(Tail(q)) = Len(q) - 1
  BY HeadTailProperties
<1> DEFINE k == Fetch(q, off, n)
<1>2. /\ k \in Nat /\ k <= n
      /\ k < n => off + k = Head(q).size
  BY <1>1, FetchBounds
<1>3. k < n => Pops(q, off, n)
  BY <1>2 DEF Pops
<1>4. CASE Pops(q, off, n)
  <2>1. AfterRead(q, off, n) = Tail(q) /\ AfterReadOff(q, off, n) = 0
    BY <1>4 DEF AfterRead, AfterReadOff
  <2>2. off + k = Head(q).size
    BY <1>4 DEF Pops
  <2> QED BY <1>1, <2>1, <2>2
<1>5. CASE ~Pops(q, off, n)
  <2>1. /\ AfterRead(q, off, n) = q
        /\ AfterReadOff(q, off, n) = off + k
    BY <1>5 DEF AfterRead, AfterReadOff
  <2>2. ~(k < n)
    BY <1>3, <1>5
  <2>3. k = n
    BY <1>2, <2>2
  <2> QED BY <2>1, <2>2, <2>3
<1> QED BY <1>4, <1>5

\* What a buffer of messages of S holds, and how Absorb keeps it.
Bufs(S) == [msg : S, got : Nat] \cup {EmptyBuf, TornBuf}

LEMMA AbsorbTyped ==
  ASSUME NEW S, NEW b \in Bufs(S), NEW m \in S, NEW lo \in Nat, NEW k \in Nat,
         NoMsg \notin S, Torn \notin S
  PROVE  Absorb(b, m, lo, k) \in Bufs(S)
<1>1. CASE b = EmptyBuf /\ lo = 0
  <2>1. Absorb(b, m, lo, k) = [msg |-> m, got |-> k]
    BY <1>1 DEF Absorb, Whole, EmptyBuf
  <2> QED BY <2>1 DEF Bufs
<1>2. CASE ~(b = EmptyBuf /\ lo = 0) /\ ~Whole(b) /\ b.msg = m /\ b.got = lo
  <2>1. Absorb(b, m, lo, k) = [b EXCEPT !.got = lo + k]
    BY <1>2 DEF Absorb
  <2>2. b \in [msg : S, got : Nat]
    BY <1>2, NoMsgOK DEF Bufs, EmptyBuf, TornBuf
  <2> QED BY <2>1, <2>2 DEF Bufs
<1>3. CASE ~(b = EmptyBuf /\ lo = 0) /\ Whole(b)
  BY <1>3 DEF Absorb, Bufs
<1>4. CASE /\ ~(b = EmptyBuf /\ lo = 0)
           /\ ~(~Whole(b) /\ b.msg = m /\ b.got = lo)
           /\ ~Whole(b)
  BY <1>4 DEF Absorb, Bufs
<1> QED BY <1>1, <1>2, <1>3, <1>4

\* A buffer that is empty, whole, or holds what was read of the head of the
\* queue stays so when a read is appended to it.
LEMMA AbsorbFollows ==
  ASSUME NEW S, NoMsg \notin S, Torn \notin S, NEW b \in Bufs(S), NEW m \in S,
         NEW off \in Nat, NEW k \in Nat,
         (b = EmptyBuf /\ off = 0) \/ Whole(b) \/ (b.msg = m /\ b.got = off)
  PROVE  \/ Whole(b) /\ Absorb(b, m, off, k) = b
         \/ Absorb(b, m, off, k) = [msg |-> m, got |-> off + k]
<1>1. CASE b = EmptyBuf /\ off = 0
  <2>1. Absorb(b, m, off, k) = [msg |-> m, got |-> k]
    BY <1>1 DEF Absorb, Whole, EmptyBuf
  <2> QED BY <1>1, <2>1
<1>2. CASE Whole(b)
  <2>1. Absorb(b, m, off, k) = b
    BY <1>2 DEF Absorb, Whole, EmptyBuf
  <2> QED BY <1>2, <2>1
<1>3. CASE ~Whole(b) /\ b.msg = m /\ b.got = off
  <2>1. b # EmptyBuf
    BY <1>3 DEF EmptyBuf
  <2>2. b \in [msg : S, got : Nat]
    BY <1>3 DEF Bufs, EmptyBuf, TornBuf
  <2>3. Absorb(b, m, off, k) = [b EXCEPT !.got = off + k]
    BY <1>3, <2>1 DEF Absorb
  <2> QED BY <1>3, <2>2, <2>3
<1> QED BY <1>1, <1>2, <1>3

\* A whole buffer holds a message.
LEMMA WholeHasMessage ==
  ASSUME NEW S, NEW b \in Bufs(S), Whole(b)
  PROVE  b.msg \in S
BY DEF Whole, Bufs, EmptyBuf, TornBuf

-----------------------------------------------------------------------------
(* Type correctness.                                                       *)

LEMMA SizesPositive ==
  /\ ClientBuf \in Nat \ {0} /\ ServerBuf \in Nat \ {0}
  /\ \A m \in Requests : m.size \in Nat \ {0}
  /\ \A m \in Replies : m.size \in Nat \ {0}
BY ConstantsOK DEF ConstantsOK, Requests, Replies

LEMMA BufsAreTyped ==
  /\ RequestBufs = Bufs(Requests)
  /\ ReplyBufs = Bufs(Replies)
  /\ NoMsg \notin Requests /\ Torn \notin Requests
  /\ NoMsg \notin Replies /\ Torn \notin Replies
BY NoMsgOK DEF RequestBufs, ReplyBufs, Bufs, NoMsgOK

LEMMA ParsedTyped ==
  ASSUME NEW b \in ReplyBufs
  PROVE  Parsed(b) \in Returns
<1>1. CASE ~Whole(b)
  BY <1>1 DEF Parsed, Returns
<1>2. CASE Whole(b)
  <2>1. b.msg \in Replies
    BY <1>2, BufsAreTyped, WholeHasMessage
  <2>2. CASE Readable(b.msg)
    BY <1>2, <2>1, <2>2 DEF Parsed, Returns
  <2>3. CASE ~Readable(b.msg)
    BY <1>2, <2>1, <2>3 DEF Parsed, Returns
  <2> QED BY <2>2, <2>3
<1> QED BY <1>1, <1>2

LEMMA TypeInit == Init => TInv
<1> SUFFICES ASSUME Init PROVE TInv
  OBVIOUS
<1>1. reqQ \in Seq(Requests) /\ respQ \in Seq(Replies)
  BY DEF Init
<1>2. [tag |-> "none", msg |-> NoMsg] \in Returns
  BY DEF Returns
<1>3. EmptyBuf \in RequestBufs /\ EmptyBuf \in ReplyBufs
  BY DEF RequestBufs, ReplyBufs
<1> QED BY <1>1, <1>2, <1>3 DEF Init, TInv, TypeOK, OffsetsOK, ReplyReady

LEMMA TypeStep == TInv /\ [Next]_vars => TInv'
<1> SUFFICES ASSUME TInv, [Next]_vars PROVE TInv'
  OBVIOUS
<1> USE DEF TInv
<1>1. ASSUME NEW c \in Callers, InvokeRefused(c) PROVE TInv'
  <2>1. [tag |-> "refused", msg |-> NoMsg] \in Returns
    BY DEF Returns
  <2>2. ret' \in [Callers -> Returns]
    BY <1>1, <2>1 DEF InvokeRefused, TypeOK
  <2> QED BY <1>1, <2>2 DEF InvokeRefused, TypeOK, OffsetsOK, ReplyReady, reqVars, respVars, srvVars, history
<1>2. ASSUME NEW c \in Callers, Invoke(c) PROVE TInv'
  <2>1. PICK kind \in Kinds, size \in ReqSizes :
          reqQ' = Append(reqQ, [caller |-> c, n |-> calls[c] + 1, body |-> kind, size |-> size])
    BY <1>2 DEF Invoke
  <2> DEFINE m == [caller |-> c, n |-> calls[c] + 1, body |-> kind, size |-> size]
  <2>2. m \in Requests /\ reqQ' = Append(reqQ, m)
    BY <2>1 DEF Requests, TypeOK
  <2> HIDE DEF m
  <2>3. reqQ' \in Seq(Requests) /\ reqQ' # <<>>
    BY <2>2, AppendProperties DEF TypeOK
  <2>4. reqOff' <= Head(reqQ').size
    <3>1. CASE reqQ = <<>>
      <4>1. Head(reqQ') = m /\ m.size \in Nat
        BY <2>2, <3>1, SizesPositive
      <4> QED BY <1>2, <3>1, <4>1 DEF Invoke, OffsetsOK
    <3>2. CASE reqQ # <<>>
      <4>1. Head(reqQ') = Head(reqQ)
        BY <2>2, <3>2, AppendProperties DEF TypeOK
      <4> QED BY <1>2, <3>2, <4>1 DEF Invoke, OffsetsOK
    <3> QED BY <3>1, <3>2
  <2>5. [tag |-> "none", msg |-> NoMsg] \in Returns /\ EmptyBuf \in ReplyBufs
    BY DEF Returns, ReplyBufs
  <2>6. /\ calls' \in [Callers -> Nat] /\ cpc' \in [Callers -> {"idle", "waiting", "reading"}]
        /\ cbuf' \in [Callers -> ReplyBufs] /\ ret' \in [Callers -> Returns]
        /\ ctxDone' \in [Callers -> BOOLEAN]
    BY <1>2, <2>5 DEF Invoke, TypeOK
  <2> QED BY <1>2, <2>3, <2>4, <2>6 DEF Invoke, TypeOK, OffsetsOK, ReplyReady, respVars, srvVars, history
<1>3. ASSUME NEW c \in Callers, LockRead(c) PROVE TInv'
  BY <1>3 DEF LockRead, TypeOK, OffsetsOK, ReplyReady, reqVars, respVars, srvVars, history
<1>4. ASSUME NEW c \in Callers, ClientRead(c) PROVE TInv'
  <2> DEFINE k == Fetch(respQ, respOff, ClientBuf)
             b == Absorb(cbuf[c], Head(respQ), respOff, k)
  <2>1. respQ # <<>> /\ respQ \in Seq(Replies) /\ respOff \in Nat /\ respOff <= Head(respQ).size
    BY <1>4 DEF ClientRead, TypeOK, OffsetsOK, ReplyReady
  <2>2. Head(respQ) \in Replies /\ k \in Nat
    <3>1. Head(respQ) \in Replies
      BY <2>1, HeadTailProperties
    <3> QED BY <2>1, <3>1, SizesPositive, FetchBounds
  <2>3. b \in ReplyBufs
    BY <2>1, <2>2, BufsAreTyped, AbsorbTyped DEF TypeOK
  <2>4. /\ respQ' \in Seq(Replies) /\ respOff' \in Nat
        /\ IF respQ' = <<>> THEN respOff' = 0 ELSE respOff' <= Head(respQ').size
    <3>1. respQ' = AfterRead(respQ, respOff, ClientBuf) /\ respOff' = AfterReadOff(respQ, respOff, ClientBuf)
      BY <1>4 DEF ClientRead
    <3> QED BY <2>1, <3>1, SizesPositive, ReadKeepsQueue
  <2>5. /\ cpc' \in [Callers -> {"idle", "waiting", "reading"}]
        /\ cbuf' \in [Callers -> ReplyBufs] /\ ret' \in [Callers -> Returns]
    <3>1. EmptyBuf \in ReplyBufs /\ Parsed(b) \in Returns
      BY <2>3, ParsedTyped DEF ReplyBufs
    <3>2. CASE LastOfResponse(k)
      BY <1>4, <3>1, <3>2 DEF ClientRead, TypeOK
    <3>3. CASE ~LastOfResponse(k)
      BY <1>4, <2>3, <3>3 DEF ClientRead, TypeOK
    <3> QED BY <3>2, <3>3
  <2> QED BY <1>4, <2>4, <2>5 DEF ClientRead, TypeOK, OffsetsOK, ReplyReady, reqVars, srvVars, history
<1>5. ASSUME NEW c \in Callers, CtxDone(c) PROVE TInv'
  BY <1>5 DEF CtxDone, TypeOK, OffsetsOK, ReplyReady, reqVars, respVars, srvVars, history
<1>6. CASE ServerRead
  <2> DEFINE k == Fetch(reqQ, reqOff, ServerBuf)
  <2>1. reqQ # <<>> /\ reqQ \in Seq(Requests) /\ reqOff \in Nat /\ reqOff <= Head(reqQ).size
    BY <1>6 DEF ServerRead, TypeOK, OffsetsOK, ReplyReady
  <2>2. Head(reqQ) \in Requests /\ k \in Nat
    <3>1. Head(reqQ) \in Requests
      BY <2>1, HeadTailProperties
    <3> QED BY <2>1, <3>1, SizesPositive, FetchBounds
  <2>3. sbuf' \in RequestBufs
    <3>1. sbuf' = Absorb(sbuf, Head(reqQ), reqOff, k)
      BY <1>6 DEF ServerRead
    <3> QED BY <2>1, <2>2, <3>1, BufsAreTyped, AbsorbTyped DEF TypeOK
  <2>4. /\ reqQ' \in Seq(Requests) /\ reqOff' \in Nat
        /\ IF reqQ' = <<>> THEN reqOff' = 0 ELSE reqOff' <= Head(reqQ').size
    <3>1. reqQ' = AfterRead(reqQ, reqOff, ServerBuf) /\ reqOff' = AfterReadOff(reqQ, reqOff, ServerBuf)
      BY <1>6 DEF ServerRead
    <3> QED BY <2>1, <3>1, SizesPositive, ReadKeepsQueue
  <2>5. spc' \in {"reading", "handling", "writing"}
    BY <1>6 DEF ServerRead
  <2> QED BY <1>6, <2>3, <2>4, <2>5 DEF ServerRead, TypeOK, OffsetsOK, ReplyReady, respVars, cliVars, history
<1>7. CASE DropUnreadable
  <2>1. EmptyBuf \in RequestBufs
    BY DEF RequestBufs
  <2>2. lost' \in SUBSET (Callers \X Nat)
    <3>1. CASE Whole(sbuf)
      <4>1. sbuf.msg \in Requests
        BY <3>1, BufsAreTyped, WholeHasMessage DEF TypeOK
      <4> QED BY <1>7, <3>1, <4>1 DEF DropUnreadable, TypeOK, Requests
    <3>2. CASE ~Whole(sbuf)
      BY <1>7, <3>2 DEF DropUnreadable, TypeOK
    <3> QED BY <3>1, <3>2
  <2> QED BY <1>7, <2>1, <2>2 DEF DropUnreadable, TypeOK, OffsetsOK, ReplyReady, reqVars, respVars, cliVars
<1>8. CASE PanicUnknown
  BY <1>8 DEF PanicUnknown, TypeOK, OffsetsOK, ReplyReady, reqVars, respVars, cliVars, history
<1>9. CASE RejectRequest
  <2>1. EmptyBuf \in RequestBufs
    BY DEF RequestBufs
  <2>2. sbuf.msg \in Requests
    BY <1>9, BufsAreTyped, WholeHasMessage DEF RejectRequest, TypeOK
  <2>3. lost' \in SUBSET (Callers \X Nat)
    BY <1>9, <2>2 DEF RejectRequest, TypeOK, Requests
  <2> QED BY <1>9, <2>1, <2>3 DEF RejectRequest, TypeOK, OffsetsOK, ReplyReady, reqVars, respVars, cliVars
<1>10. CASE RunHandler
  <2>1. EmptyBuf \in RequestBufs
    BY DEF RequestBufs
  <2>2. sbuf.msg \in Requests
    BY <1>10, BufsAreTyped, WholeHasMessage DEF RunHandler, CallHandler, TypeOK
  <2>3. reply' \in Replies
    <3>1. PICK size \in RespSizes :
            reply' = [caller |-> sbuf.msg.caller, n |-> sbuf.msg.n,
                      body |-> IF sbuf.msg.body = "ok" THEN "value" ELSE "empty", size |-> size]
      BY <1>10 DEF RunHandler, CallHandler
    <3>2. sbuf.msg.caller \in Callers /\ sbuf.msg.n \in Nat
      BY <2>2 DEF Requests
    <3> QED BY <3>1, <3>2 DEF Replies
  <2>4. executed' \in [Callers -> Nat]
    BY <1>10, <2>2 DEF RunHandler, CallHandler, TypeOK, Requests
  <2> QED BY <1>10, <2>1, <2>3, <2>4 DEF RunHandler, CallHandler, TypeOK, OffsetsOK, ReplyReady, reqVars, respVars, cliVars
<1>11. CASE ServerWrite
  <2>1. reply \in Replies
    BY <1>11 DEF ServerWrite, ReplyReady
  <2>2. respQ' = Append(respQ, reply) /\ respQ \in Seq(Replies) /\ respOff' = respOff
    BY <1>11 DEF ServerWrite, TypeOK
  <2>3. respQ' \in Seq(Replies) /\ respQ' # <<>>
    BY <2>1, <2>2, AppendProperties
  <2>4. respOff' <= Head(respQ').size
    <3>1. CASE respQ = <<>>
      <4>1. Head(respQ') = reply /\ reply.size \in Nat
        BY <2>1, <2>2, <3>1, SizesPositive
      <4> QED BY <2>2, <3>1, <4>1 DEF OffsetsOK
    <3>2. CASE respQ # <<>>
      <4>1. Head(respQ') = Head(respQ)
        BY <2>1, <2>2, <3>2, AppendProperties
      <4> QED BY <2>2, <3>2, <4>1 DEF OffsetsOK
    <3> QED BY <3>1, <3>2
  <2> QED BY <1>11, <2>2, <2>3, <2>4 DEF ServerWrite, TypeOK, OffsetsOK, ReplyReady, reqVars, cliVars, history
<1>12. CASE Finished \/ UNCHANGED vars
  BY <1>12 DEF Finished, vars, TypeOK, OffsetsOK, ReplyReady, reqVars, respVars, srvVars, cliVars, history
<1> QED BY <1>1, <1>2, <1>3, <1>4, <1>5, <1>6, <1>7, <1>8, <1>9, <1>10, <1>11, <1>12
      DEF Next, ServerStep

\* Whatever the callers and the server do, every variable keeps its type.
THEOREM TypeCorrect == Spec => []TypeOK
<1>1. Spec => []TInv
  BY TypeInit, TypeStep, PTL DEF Spec
<1>2. TInv => TypeOK
  BY DEF TInv
<1> QED BY <1>1, <1>2, PTL

-----------------------------------------------------------------------------
(* The server's buffer.                                                    *)

LEMMA ServerBufInit == Init => ServerBufOK
BY DEF Init, ServerBufOK

\* A read adds to the buffer what follows in the message it began with.
LEMMA ServerReadKeepsBuf ==
  ASSUME TInv, ServerBufOK, ServerRead
  PROVE  ServerBufOK'
<1> DEFINE k == Fetch(reqQ, reqOff, ServerBuf)
           m == Head(reqQ)
<1>1. /\ reqQ # <<>> /\ reqQ \in Seq(Requests) /\ reqOff \in Nat /\ reqOff <= m.size
      /\ spc = "reading"
      /\ sbuf' = Absorb(sbuf, m, reqOff, k)
      /\ spc' = IF LastOfRequest(k) THEN "handling" ELSE "reading"
      /\ reqQ' = AfterRead(reqQ, reqOff, ServerBuf)
      /\ reqOff' = AfterReadOff(reqQ, reqOff, ServerBuf)
  BY DEF ServerRead, TInv, TypeOK, OffsetsOK
<1>2. m \in Requests /\ m # NoMsg /\ m # Torn
  BY <1>1, HeadTailProperties, BufsAreTyped
<1>3. /\ k \in Nat /\ m.size \in Nat \ {0}
      /\ k < ServerBuf => reqOff' = 0 /\ reqOff + k = m.size
      /\ \/ reqOff' = 0 /\ reqOff + k = m.size
         \/ reqQ' = reqQ /\ reqOff' = reqOff + k
  <2>1. k \in Nat /\ m.size \in Nat \ {0}
    BY <1>1, <1>2, SizesPositive, FetchBounds
  <2>2. /\ k < ServerBuf => reqOff' = 0 /\ reqOff + k = m.size
        /\ \/ reqOff' = 0 /\ reqOff + k = m.size
           \/ reqQ' = reqQ /\ reqOff' = reqOff + k
    BY <1>1, SizesPositive, ReadPopsAtMostOne
  <2> QED BY <2>1, <2>2
<1>4. \/ Whole(sbuf) /\ sbuf' = sbuf
      \/ sbuf' = [msg |-> m, got |-> reqOff + k]
  BY <1>1, <1>2, <1>3, BufsAreTyped, AbsorbFollows DEF ServerBufOK, TInv, TypeOK
<1>5. reqOff + k = m.size => Whole(sbuf')
  BY <1>2, <1>4 DEF Whole
<1>6. CASE LastOfRequest(k)
  BY <1>1, <1>3, <1>5, <1>6 DEF ServerBufOK, LastOfRequest
<1>7. CASE ~LastOfRequest(k)
  <2>1. CASE reqOff + k = m.size
    BY <1>1, <1>5, <1>7, <2>1 DEF ServerBufOK
  <2>2. CASE reqQ' = reqQ /\ reqOff' = reqOff + k
    BY <1>1, <1>4, <1>7, <2>2 DEF ServerBufOK
  <2> QED BY <1>3, <2>1, <2>2
<1> QED BY <1>6, <1>7

LEMMA ServerBufStep == TInv /\ ServerBufOK /\ [Next]_vars => ServerBufOK'
<1> SUFFICES ASSUME TInv, ServerBufOK, [Next]_vars PROVE ServerBufOK'
  OBVIOUS
<1>1. ASSUME NEW c \in Callers, Invoke(c) PROVE ServerBufOK'
  <2>1. /\ reqQ # <<>> => reqQ' # <<>> /\ Head(reqQ') = Head(reqQ)
        /\ UNCHANGED <<reqOff, spc, sbuf>>
    <3>1. PICK kind \in Kinds, size \in ReqSizes :
            reqQ' = Append(reqQ, [caller |-> c, n |-> calls[c] + 1, body |-> kind, size |-> size])
      BY <1>1 DEF Invoke
    <3> DEFINE m == [caller |-> c, n |-> calls[c] + 1, body |-> kind, size |-> size]
    <3>2. m \in Requests /\ reqQ' = Append(reqQ, m) /\ reqQ \in Seq(Requests)
      BY <3>1 DEF Requests, TInv, TypeOK
    <3> HIDE DEF m
    <3>3. reqQ # <<>> => reqQ' # <<>> /\ Head(reqQ') = Head(reqQ)
      BY <3>2, AppendProperties
    <3> QED BY <1>1, <3>3 DEF Invoke, srvVars
  <2> QED BY <2>1 DEF ServerBufOK, Whole
<1>2. ASSUME NEW c \in Callers, InvokeRefused(c) \/ LockRead(c) \/ ClientRead(c) \/ CtxDone(c)
      PROVE  ServerBufOK'
  <2>1. UNCHANGED <<reqQ, reqOff, spc, sbuf>>
    BY <1>2 DEF InvokeRefused, LockRead, ClientRead, CtxDone, reqVars, srvVars
  <2> QED BY <2>1 DEF ServerBufOK, Whole
<1>3. CASE ServerRead
  BY <1>3, ServerReadKeepsBuf
<1>4. CASE DropUnreadable \/ RejectRequest
  BY <1>4 DEF DropUnreadable, RejectRequest, ServerBufOK, reqVars
<1>5. CASE RunHandler
  BY <1>5 DEF RunHandler, CallHandler, ServerBufOK, reqVars
<1>6. CASE ServerWrite
  BY <1>6 DEF ServerWrite, ServerBufOK, reqVars
<1>7. CASE PanicUnknown \/ Finished \/ UNCHANGED vars
  <2>1. UNCHANGED <<reqQ, reqOff, spc, sbuf>>
    BY <1>7 DEF PanicUnknown, Finished, vars, reqVars, srvVars
  <2> QED BY <2>1 DEF ServerBufOK, Whole
<1> QED BY <1>1, <1>2, <1>3, <1>4, <1>5, <1>6, <1>7 DEF Next, ServerStep

\* The read loop of serveRequests never hands handleMethod part of a request
\* or bytes that do not begin one, for any sizes, any interleaving of senders
\* and either behaviour of the library at the end of a message.
THEOREM WholeRequests == Spec => []HandlesWholeRequests
<1>1. Spec => [](TInv /\ ServerBufOK)
  BY TypeInit, TypeStep, ServerBufInit, ServerBufStep, PTL DEF Spec
<1>2. TInv /\ ServerBufOK => HandlesWholeRequests
  <2> SUFFICES ASSUME TInv, ServerBufOK, spc = "handling"
               PROVE  Whole(sbuf) /\ sbuf.msg \in Requests
    BY DEF HandlesWholeRequests
  <2>1. Whole(sbuf)
    BY DEF ServerBufOK
  <2> QED BY <2>1, WholeHasMessage, BufsAreTyped DEF TInv, TypeOK
<1> QED BY <1>1, <1>2, PTL

-----------------------------------------------------------------------------
(* Messages under way and callers inside Invoke.                           *)

LEMMA PendingFinite == IsFiniteSet(Pending) /\ Cardinality(Pending) \in Nat
BY CallersFinite, FS_Subset, FS_CardinalityType DEF Pending, CallersFinite

LEMMA PendingFiniteNext == IsFiniteSet(Pending') /\ Cardinality(Pending') \in Nat
BY CallersFinite, FS_Subset, FS_CardinalityType DEF Pending, CallersFinite

LEMMA CountInit == Init => CountOK
<1> SUFFICES ASSUME Init PROVE CountOK
  OBVIOUS
<1>1. Pending = {} /\ Debt = 0
  BY DEF Init, Pending, Debt, Busy
<1> QED BY <1>1, FS_EmptySet DEF CountOK

\* An action of the server that does not raise the debt.
LEMMA CountKept ==
  ASSUME CountOK, UNCHANGED cpc, Debt' <= Debt, Debt \in Nat, Debt' \in Nat
  PROVE  CountOK'
<1>1. Pending' = Pending
  BY DEF Pending
<1> QED BY <1>1, PendingFinite DEF CountOK

LEMMA DebtTyped == ASSUME TInv PROVE Debt \in Nat
<1>1. Len(reqQ) \in Nat /\ Len(respQ) \in Nat
  BY LenProperties DEF TInv, TypeOK
<1> QED BY <1>1 DEF Debt

LEMMA InvokeKeepsCount ==
  ASSUME TInv, TInv', ServerBufOK, CountOK, NEW c \in Callers, Invoke(c)
  PROVE  CountOK'
<1>1. Cardinality(Pending') = Cardinality(Pending) + 1
  <2>1. c \notin Pending /\ Pending' = Pending \cup {c}
    BY DEF Invoke, MayInvoke, Pending, TInv, TypeOK
  <2> QED BY <2>1, PendingFinite, FS_AddElement
<1>2. Debt' = Debt + 1
  <2>1. Len(reqQ') = Len(reqQ) + 1
    <3>1. PICK m : reqQ' = Append(reqQ, m)
      BY DEF Invoke
    <3> QED BY <3>1, AppendProperties DEF TInv, TypeOK
  <2>2. UNCHANGED <<respQ, reqOff, spc, sbuf>>
    BY DEF Invoke, respVars, srvVars
  <2>3. Len(reqQ) \in Nat /\ Len(respQ) \in Nat /\ Busy' = Busy
    BY <2>2, LenProperties DEF Busy, TInv, TypeOK
  <2> QED BY <2>1, <2>2, <2>3 DEF Debt
<1> QED BY <1>1, <1>2, PendingFinite, DebtTyped DEF CountOK

LEMMA ClientReadKeepsCount ==
  ASSUME TInv, TInv', CountOK, NEW c \in Callers, ClientRead(c)
  PROVE  CountOK'
<1> DEFINE k == Fetch(respQ, respOff, ClientBuf)
<1>1. /\ respQ # <<>> /\ respQ \in Seq(Replies)
      /\ respQ' = AfterRead(respQ, respOff, ClientBuf)
      /\ UNCHANGED <<reqQ, reqOff, spc, sbuf>>
  BY DEF ClientRead, TInv, TypeOK, reqVars, srvVars
<1>2. /\ k < ClientBuf => respQ' = Tail(respQ)
      /\ respQ' = Tail(respQ) \/ respQ' = respQ
  BY <1>1, SizesPositive, ReadPopsAtMostOne DEF TInv, TypeOK, OffsetsOK
<1>3. Len(Tail(respQ)) = Len(respQ) - 1 /\ Len(respQ) \in Nat /\ Len(reqQ) \in Nat
  BY <1>1, HeadTailProperties, LenProperties DEF TInv, TypeOK
<1>4. Busy' = Busy
  BY <1>1 DEF Busy
<1>5. CASE LastOfResponse(k)
  <2>1. Cardinality(Pending') = Cardinality(Pending) - 1
    <3>1. c \in Pending /\ Pending' = Pending \ {c}
      BY <1>5 DEF ClientRead, Pending, TInv, TypeOK
    <3> QED BY <3>1, PendingFinite, FS_RemoveElement
  <2>2. Debt' = Debt - 1
    BY <1>1, <1>2, <1>3, <1>4, <1>5 DEF Debt, LastOfResponse
  <2> QED BY <2>1, <2>2, PendingFinite, DebtTyped DEF CountOK
<1>6. CASE ~LastOfResponse(k)
  <2>1. Pending' = Pending
    BY <1>6 DEF ClientRead, Pending, TInv, TypeOK
  <2>2. Debt' <= Debt
    BY <1>1, <1>2, <1>3, <1>4 DEF Debt
  <2>3. Debt' \in Nat /\ Debt \in Nat
    BY <1>1, <1>2, <1>3, <1>4 DEF Debt
  <2> QED BY <2>1, <2>2, <2>3, PendingFinite DEF CountOK
<1> QED BY <1>5, <1>6

LEMMA ServerReadKeepsCount ==
  ASSUME TInv, TInv', ServerBufOK, CountOK, ServerRead
  PROVE  CountOK'
<1> DEFINE k == Fetch(reqQ, reqOff, ServerBuf)
<1>1. /\ reqQ # <<>> /\ reqQ \in Seq(Requests) /\ spc = "reading"
      /\ reqOff \in Nat /\ reqOff <= Head(reqQ).size
      /\ reqQ' = AfterRead(reqQ, reqOff, ServerBuf)
      /\ reqOff' = AfterReadOff(reqQ, reqOff, ServerBuf)
      /\ spc' = IF LastOfRequest(k) THEN "handling" ELSE "reading"
      /\ UNCHANGED <<respQ, cpc>>
  BY DEF ServerRead, TInv, TypeOK, OffsetsOK, respVars, cliVars
<1>2. Head(reqQ) \in Requests
  BY <1>1, HeadTailProperties
<1>3. /\ k \in Nat
      /\ k < ServerBuf => reqQ' = Tail(reqQ)
      /\ reqQ' = Tail(reqQ) \/ (reqQ' = reqQ /\ reqOff' = reqOff + k /\ k = ServerBuf)
  <2>1. ServerBuf \in Nat \ {0} /\ \A m \in Requests : m.size \in Nat \ {0}
    BY SizesPositive
  <2>2. k \in Nat
    BY <1>1, <1>2, <2>1, FetchBounds
  <2> QED BY <1>1, <2>1, <2>2, ReadPopsAtMostOne
<1>4. Len(Tail(reqQ)) = Len(reqQ) - 1 /\ Len(reqQ) \in Nat /\ Len(respQ) \in Nat
  BY <1>1, HeadTailProperties, LenProperties DEF TInv, TypeOK
<1>5. Debt' <= Debt
  <2>1. CASE reqQ' = Tail(reqQ)
    BY <1>1, <1>4, <2>1 DEF Debt
  <2>2. CASE reqQ' = reqQ /\ reqOff' = reqOff + k /\ k = ServerBuf
    <3>1. ~LastOfRequest(k) /\ reqOff' # 0
      BY <1>1, <2>2, SizesPositive DEF LastOfRequest
    <3>2. ~Busy'
      BY <1>1, <3>1 DEF Busy
    <3> QED BY <1>1, <1>4, <2>2, <3>2 DEF Debt
  <2> QED BY <1>3, <2>1, <2>2
<1>6. Debt \in Nat /\ Debt' \in Nat
  BY <1>1, <1>3, <1>4 DEF Debt
<1> QED BY <1>1, <1>5, <1>6, CountKept

LEMMA ServerWriteKeepsCount ==
  ASSUME TInv, TInv', ServerBufOK, CountOK, ServerWrite
  PROVE  CountOK'
<1>1. /\ spc = "writing" /\ spc' = "reading" /\ sbuf' = EmptyBuf
      /\ Busy /\ ~Busy'
      /\ respQ' = Append(respQ, reply) /\ UNCHANGED <<reqQ, cpc>>
  BY DEF ServerWrite, ServerBufOK, Busy, reqVars, cliVars
<1>2. Len(respQ') = Len(respQ) + 1 /\ Len(respQ) \in Nat /\ Len(reqQ) \in Nat
  BY <1>1, AppendProperties, LenProperties DEF TInv, TypeOK, ReplyReady
<1>3. Debt' = Debt /\ Debt \in Nat
  BY <1>1, <1>2 DEF Debt
<1> QED BY <1>1, <1>3, CountKept

LEMMA CountStep == TInv /\ TInv' /\ ServerBufOK /\ CountOK /\ [Next]_vars => CountOK'
<1> SUFFICES ASSUME TInv, TInv', ServerBufOK, CountOK, [Next]_vars PROVE CountOK'
  OBVIOUS
<1>0. Len(reqQ) \in Nat /\ Len(respQ) \in Nat
  BY LenProperties DEF TInv, TypeOK
<1>1. ASSUME NEW c \in Callers, Invoke(c) PROVE CountOK'
  BY <1>1, InvokeKeepsCount
<1>2. ASSUME NEW c \in Callers, ClientRead(c) PROVE CountOK'
  BY <1>2, ClientReadKeepsCount
<1>3. ASSUME NEW c \in Callers, InvokeRefused(c) \/ LockRead(c) \/ CtxDone(c) PROVE CountOK'
  <2>1. Pending' = Pending
    BY <1>3 DEF InvokeRefused, LockRead, CtxDone, Pending, TInv, TypeOK
  <2>2. Debt' = Debt
    BY <1>3 DEF InvokeRefused, LockRead, CtxDone, Debt, Busy, reqVars, respVars, srvVars
  <2> QED BY <2>1, <2>2 DEF CountOK
<1>4. CASE ServerRead
  BY <1>4, ServerReadKeepsCount
<1>5. CASE ServerWrite
  BY <1>5, ServerWriteKeepsCount
<1>6. CASE DropUnreadable \/ RejectRequest \/ PanicUnknown \/ RunHandler
  <2>1. Busy /\ UNCHANGED <<reqQ, respQ, cpc>>
    BY <1>6 DEF DropUnreadable, RejectRequest, PanicUnknown, RunHandler, CallHandler, Busy,
         reqVars, respVars, cliVars
  <2>2. Debt' <= Debt /\ Debt \in Nat /\ Debt' \in Nat
    BY <1>0, <2>1 DEF Debt
  <2> QED BY <2>1, <2>2, CountKept
<1>7. CASE Finished \/ UNCHANGED vars
  BY <1>7 DEF Finished, vars, CountOK, Debt, Busy, Pending, reqVars, respVars, srvVars, cliVars
<1> QED BY <1>1, <1>2, <1>3, <1>4, <1>5, <1>6, <1>7 DEF Next, ServerStep

THEOREM Inductive == Spec => []IInv
<1>1. Init => IInv
  BY TypeInit, ServerBufInit, CountInit DEF IInv
<1>2. IInv /\ [Next]_vars => IInv'
  BY TypeStep, ServerBufStep, CountStep DEF IInv
<1> QED BY <1>1, <1>2, PTL DEF Spec

LEMMA QuietFromInv == IInv => QuietChannel
<1> SUFFICES ASSUME IInv, \A c \in Callers : cpc[c] = "idle"
             PROVE  reqQ = <<>> /\ respQ = <<>> /\ spc = "reading" /\ sbuf = EmptyBuf
  BY DEF QuietChannel
<1>1. Cardinality(Pending) = 0
  <2>1. Pending = {}
    BY DEF Pending
  <2> QED BY <2>1, FS_EmptySet
<1>2. Len(reqQ) \in Nat /\ Len(respQ) \in Nat
  BY LenProperties DEF IInv, TInv, TypeOK
<1>3. Len(reqQ) = 0 /\ Len(respQ) = 0 /\ ~Busy
  BY <1>1, <1>2 DEF IInv, CountOK, Debt
<1>4. reqQ = <<>> /\ respQ = <<>>
  BY <1>3, EmptySeq DEF IInv, TInv, TypeOK
<1>5. reqOff = 0
  BY <1>4 DEF IInv, TInv, OffsetsOK
<1> QED BY <1>3, <1>4, <1>5 DEF Busy

\* However many goroutines share a channel, and whatever becomes of their
\* requests, no message is left anywhere once none of them is inside Invoke:
\* a message under way is always owed to a caller that still reads.
THEOREM QuietWhenIdle == Spec => []QuietChannel
BY Inductive, QuietFromInv, PTL

-----------------------------------------------------------------------------
(* Calls that do not overlap.  The one call under way is in one of two     *)
(* stages, and every message and every buffer belongs to it.               *)

Own(c, m) == m.caller = c /\ m.n = calls[c]

\* The service method has not run: there is at most the request.
RequestStage(c) ==
  /\ executed[c] = calls[c] - 1
  /\ respQ = <<>> /\ cbuf[c] = EmptyBuf /\ spc # "writing"
  /\ reqQ # <<>> => Own(c, Head(reqQ))
  /\ Whole(sbuf) => Own(c, sbuf.msg)

\* The service method has run: there is at most the response.
ResponseStage(c) ==
  /\ executed[c] = calls[c]
  /\ reqQ = <<>> /\ sbuf = EmptyBuf /\ spc # "handling"
  /\ spc = "writing" => Own(c, reply) /\ cbuf[c] = EmptyBuf
  /\ respQ # <<>> => Own(c, Head(respQ))
  /\ \/ cbuf[c] = EmptyBuf /\ respOff = 0
     \/ Whole(cbuf[c]) /\ Own(c, cbuf[c].msg)
     \/ respQ # <<>> /\ cbuf[c].msg = Head(respQ) /\ cbuf[c].got = respOff

\* What holds of a caller inside Invoke, and of one that is not.
Calling(c) ==
  /\ \A e \in Callers : e # c => cpc[e] = "idle"
  /\ ret[c].tag = "none"
  /\ RequestStage(c) \/ ResponseStage(c)
Returned(c) ==
  /\ executed[c] = calls[c]
  /\ ret[c].tag # "corrupt"
  /\ ret[c].tag \in {"eof", "reply"} => Own(c, ret[c].msg)

SerialInv == \A c \in Callers : IF cpc[c] = "idle" THEN Returned(c) ELSE Calling(c)

\* One caller inside Invoke owes one message at most.
LEMMA OneMessage ==
  ASSUME IInv, NEW c \in Callers, cpc[c] # "idle", Calling(c)
  PROVE  /\ reqQ # <<>> => Len(reqQ) = 1 /\ ~Busy
         /\ respQ # <<>> => Len(respQ) = 1 /\ ~Busy
         /\ Busy => reqQ = <<>> /\ respQ = <<>>
<1>1. Pending = {c}
  BY DEF Pending, Calling
<1>2. Cardinality(Pending) = 1
  BY <1>1, FS_Singleton
<1>3. Len(reqQ) \in Nat /\ Len(respQ) \in Nat
  BY LenProperties DEF IInv, TInv, TypeOK
<1>4. Len(reqQ) + Len(respQ) + (IF Busy THEN 1 ELSE 0) <= 1
  BY <1>2 DEF IInv, CountOK, Debt
<1>5. (reqQ = <<>> <=> Len(reqQ) = 0) /\ (respQ = <<>> <=> Len(respQ) = 0)
  BY EmptySeq DEF IInv, TInv, TypeOK
<1>6. CASE Busy
  <2>1. Len(reqQ) + Len(respQ) + 1 <= 1
    BY <1>4, <1>6
  <2>2. Len(reqQ) = 0 /\ Len(respQ) = 0
    BY <1>3, <2>1
  <2> QED BY <1>5, <2>2
<1>7. CASE ~Busy
  <2>1. Len(reqQ) + Len(respQ) + 0 <= 1
    BY <1>4, <1>7
  <2>2. \A x, y \in Nat : x + y + 0 <= 1 => (x # 0 => x = 1) /\ (y # 0 => y = 1)
    OBVIOUS
  <2>3. /\ Len(reqQ) # 0 => Len(reqQ) = 1
        /\ Len(respQ) # 0 => Len(respQ) = 1
    BY <1>3, <2>1, <2>2
  <2> QED BY <1>5, <1>7, <2>3
<1> QED BY <1>6, <1>7

\* The server does something only for a caller inside Invoke.
LEMMA ServerHasCaller ==
  ASSUME IInv, SerialInv, ServerStep
  PROVE  \E c \in Callers : cpc[c] # "idle" /\ Calling(c)
<1>1. reqQ # <<>> \/ spc # "reading"
  BY DEF ServerStep, ServerRead, DropUnreadable, PanicUnknown, RejectRequest, RunHandler,
         CallHandler, ServerWrite
<1>2. PICK c \in Callers : cpc[c] # "idle"
  BY <1>1, QuietFromInv DEF QuietChannel
<1> QED BY <1>2 DEF SerialInv

\* What a step of the server has to keep.
LEMMA ServerStepKeeps ==
  ASSUME SerialInv, NEW c \in Callers, cpc[c] # "idle", UNCHANGED cliVars,
         \A e \in Callers : e # c => executed'[e] = executed[e],
         RequestStage(c)' \/ ResponseStage(c)'
  PROVE  SerialInv'
<1> SUFFICES ASSUME NEW e \in Callers
             PROVE  (IF cpc[e] = "idle" THEN Returned(e) ELSE Calling(e))'
  BY DEF SerialInv
<1>1. Calling(c) /\ UNCHANGED <<cpc, ret, calls>>
  BY DEF SerialInv, cliVars
<1>2. CASE e = c
  BY <1>1, <1>2 DEF Calling
<1>3. CASE e # c
  <2>1. cpc[e] = "idle" /\ Returned(e)
    BY <1>1, <1>3 DEF Calling, SerialInv
  <2> QED BY <1>1, <1>3, <2>1 DEF Returned, Own
<1> QED BY <1>2, <1>3

LEMMA ServerReadSerial ==
  ASSUME IInv, IInv', SerialInv, ServerRead,
         NEW c \in Callers, cpc[c] # "idle", Calling(c)
  PROVE  SerialInv'
<1> DEFINE k == Fetch(reqQ, reqOff, ServerBuf)
           m == Head(reqQ)
<1>1. /\ reqQ # <<>> /\ reqQ \in Seq(Requests) /\ reqOff \in Nat /\ reqOff <= m.size
      /\ sbuf' = Absorb(sbuf, m, reqOff, k) /\ sbuf \in RequestBufs
      /\ spc = "reading" /\ spc' # "writing"
      /\ reqQ' = AfterRead(reqQ, reqOff, ServerBuf)
      /\ UNCHANGED <<respQ, executed>> /\ UNCHANGED cliVars
  BY DEF ServerRead, IInv, TInv, TypeOK, OffsetsOK, respVars, history
<1>2. RequestStage(c) /\ Own(c, m)
  BY <1>1 DEF Calling, RequestStage, ResponseStage
<1>3. UNCHANGED <<calls, cbuf>>
  BY <1>1 DEF cliVars
<1>4. reqQ' # <<>> => Own(c, Head(reqQ'))
  <2>1. Len(reqQ) = 1
    BY <1>1, OneMessage
  <2>2. (reqQ' = Tail(reqQ) /\ Len(reqQ') = Len(reqQ) - 1) \/ reqQ' = reqQ
    BY <1>1, SizesPositive, ReadPopsAtMostOne
  <2>3. reqQ' \in Seq(Requests)
    BY DEF IInv, TInv, TypeOK
  <2>4. reqQ' = <<>> \/ reqQ' = reqQ
    BY <2>1, <2>2, <2>3, EmptySeq
  <2> QED BY <1>2, <2>4
<1>5. Whole(sbuf') => Own(c, sbuf'.msg)
  <2>1. m \in Requests
    BY <1>1, HeadTailProperties
  <2>2. k \in Nat
    BY <1>1, <2>1, SizesPositive, FetchBounds
  <2>3. \/ Whole(sbuf) /\ sbuf' = sbuf
        \/ sbuf' = [msg |-> m, got |-> reqOff + k]
    BY <1>1, <2>1, <2>2, BufsAreTyped, AbsorbFollows DEF IInv, ServerBufOK
  <2> QED BY <1>2, <2>3 DEF RequestStage
<1>6. RequestStage(c)'
  BY <1>1, <1>2, <1>3, <1>4, <1>5 DEF RequestStage, Own
<1> QED BY <1>1, <1>6, ServerStepKeeps

LEMMA RunHandlerSerial ==
  ASSUME IInv, SerialInv, RunHandler,
         NEW c \in Callers, cpc[c] # "idle", Calling(c)
  PROVE  SerialInv'
<1>1. /\ spc = "handling" /\ Whole(sbuf) /\ spc' = "writing" /\ sbuf' = EmptyBuf
      /\ executed' = [executed EXCEPT ![sbuf.msg.caller] = @ + 1]
      /\ reply'.caller = sbuf.msg.caller /\ reply'.n = sbuf.msg.n
      /\ UNCHANGED <<reqQ, respQ, respOff>> /\ UNCHANGED cliVars
  BY DEF RunHandler, CallHandler, reqVars, respVars
<1>2. RequestStage(c) /\ Own(c, sbuf.msg)
  BY <1>1 DEF Calling, RequestStage, ResponseStage
<1>3. UNCHANGED <<calls, cbuf>>
  BY <1>1 DEF cliVars
<1>4. reqQ = <<>>
  <2>1. Busy
    BY <1>1 DEF Busy
  <2> QED BY <2>1, OneMessage
<1>5. /\ executed'[c] = calls[c]
      /\ \A e \in Callers : e # c => executed'[e] = executed[e]
  BY <1>1, <1>2 DEF RequestStage, Own, IInv, TInv, TypeOK
<1>6. respQ = <<>> /\ respOff = 0 /\ cbuf[c] = EmptyBuf
  BY <1>2 DEF RequestStage, IInv, TInv, OffsetsOK
<1>7. ResponseStage(c)'
  BY <1>1, <1>2, <1>3, <1>4, <1>5, <1>6 DEF ResponseStage, Own
<1> QED BY <1>1, <1>5, <1>7, ServerStepKeeps

LEMMA ServerWriteSerial ==
  ASSUME IInv, SerialInv, ServerWrite,
         NEW c \in Callers, cpc[c] # "idle", Calling(c)
  PROVE  SerialInv'
<1>1. /\ spc = "writing" /\ spc' = "reading" /\ respQ' = Append(respQ, reply)
      /\ UNCHANGED <<reqQ, respOff, sbuf, executed>> /\ UNCHANGED cliVars
  BY DEF ServerWrite, reqVars, history
<1>2. ResponseStage(c) /\ Own(c, reply)
  BY <1>1 DEF Calling, RequestStage, ResponseStage
<1>3. UNCHANGED <<calls, cbuf>>
  BY <1>1 DEF cliVars
<1>4. respQ = <<>>
  <2>1. Busy
    BY <1>1 DEF Busy
  <2> QED BY <2>1, OneMessage
<1>5. respQ' = <<reply>> /\ respOff = 0
  BY <1>1, <1>4 DEF IInv, TInv, OffsetsOK
<1>6. ResponseStage(c)'
  <2>1. respQ' # <<>> /\ Head(respQ') = reply
    BY <1>5
  <2> QED BY <1>1, <1>2, <1>3, <1>5, <2>1 DEF ResponseStage, Own
<1> QED BY <1>1, <1>6, ServerStepKeeps

LEMMA ClientReadSerial ==
  ASSUME IInv, IInv', SerialInv, NEW c \in Callers, ClientRead(c)
  PROVE  SerialInv'
<1> DEFINE k == Fetch(respQ, respOff, ClientBuf)
           m == Head(respQ)
           b == Absorb(cbuf[c], m, respOff, k)
<1>1. /\ cpc[c] # "idle" /\ respQ # <<>> /\ respQ \in Seq(Replies)
      /\ respOff \in Nat /\ respOff <= m.size /\ cbuf[c] \in ReplyBufs
      /\ respQ' = AfterRead(respQ, respOff, ClientBuf)
      /\ respOff' = AfterReadOff(respQ, respOff, ClientBuf)
      /\ UNCHANGED <<reqQ, spc, sbuf, reply, calls, executed>>
  BY DEF ClientRead, IInv, TInv, TypeOK, OffsetsOK, reqVars, srvVars, history
<1>2. Calling(c) /\ ResponseStage(c) /\ Own(c, m)
  BY <1>1 DEF SerialInv, Calling, RequestStage, ResponseStage
<1>3. m \in Replies
  BY <1>1, HeadTailProperties
<1>4. k \in Nat
  BY <1>1, <1>3, SizesPositive, FetchBounds
<1>5. \/ Whole(cbuf[c]) /\ b = cbuf[c]
      \/ b = [msg |-> m, got |-> respOff + k]
  <2>1. NoMsg \notin Replies /\ Torn \notin Replies /\ cbuf[c] \in Bufs(Replies)
    BY <1>1, BufsAreTyped
  <2>2. (cbuf[c] = EmptyBuf /\ respOff = 0) \/ Whole(cbuf[c]) \/ (cbuf[c].msg = m /\ cbuf[c].got = respOff)
    BY <1>2 DEF ResponseStage
  <2> HIDE DEF k, m
  <2> QED BY <1>1, <1>3, <1>4, <2>1, <2>2, AbsorbFollows
<1>6. /\ k < ClientBuf => respOff + k = m.size
      /\ \/ respQ' = Tail(respQ) /\ Len(respQ') = Len(respQ) - 1 /\ respOff + k = m.size
         \/ respQ' = respQ /\ respOff' = respOff + k
  <2>1. ClientBuf \in Nat \ {0} /\ \A r \in Replies : r.size \in Nat \ {0}
    BY SizesPositive
  <2>2. respOff <= Head(respQ).size
    BY <1>1
  <2> QED BY <1>1, <2>1, <2>2, ReadPopsAtMostOne
<1>7. Own(c, b.msg) /\ (respOff + k = m.size => Whole(b))
  <2>1. CASE Whole(cbuf[c]) /\ b = cbuf[c]
    <3>1. Own(c, cbuf[c].msg)
      BY <1>2, <2>1 DEF ResponseStage, Whole, EmptyBuf
    <3> QED BY <2>1, <3>1
  <2>2. CASE b = [msg |-> m, got |-> respOff + k]
    <3>1. m # NoMsg /\ m # Torn
      BY <1>3, BufsAreTyped
    <3> QED BY <1>2, <2>2, <3>1 DEF Whole
  <2> QED BY <1>5, <2>1, <2>2
<1>8. \A e \in Callers : e # c =>
        cpc[e] = "idle" /\ Returned(e) /\ cpc'[e] = cpc[e] /\ ret'[e] = ret[e]
  BY <1>2 DEF ClientRead, Calling, SerialInv, IInv, TInv, TypeOK
<1>9. \A e \in Callers : e # c => cpc'[e] = "idle" /\ Returned(e)'
  BY <1>1, <1>8 DEF Returned, Own
<1>10. CASE LastOfResponse(k)
  <2>1. cpc'[c] = "idle" /\ ret'[c] = Parsed(b)
    BY <1>10 DEF ClientRead, IInv, TInv, TypeOK
  <2>2. Whole(b)
    BY <1>6, <1>7, <1>10 DEF LastOfResponse
  <2>3. Parsed(b).tag \in {"eof", "reply"} /\ Parsed(b).msg = b.msg
    <3>1. CASE Readable(b.msg)
      BY <2>2, <3>1 DEF Parsed
    <3>2. CASE ~Readable(b.msg)
      BY <2>2, <3>2 DEF Parsed
    <3> QED BY <3>1, <3>2
  <2>4. Returned(c)'
    BY <1>1, <1>2, <1>7, <2>1, <2>3 DEF Returned, Own, ResponseStage
  <2> QED BY <1>9, <2>1, <2>4 DEF SerialInv
<1>11. CASE ~LastOfResponse(k)
  <2>1. cpc'[c] = "waiting" /\ cbuf'[c] = b /\ ret' = ret
    BY <1>11 DEF ClientRead, IInv, TInv, TypeOK
  <2>2. respQ' = <<>> \/ respQ' = respQ
    <3>1. Len(respQ) = 1
      BY <1>1, <1>2, OneMessage
    <3>2. respQ' \in Seq(Replies)
      BY DEF IInv, TInv, TypeOK
    <3> QED BY <1>6, <3>1, <3>2, EmptySeq
  <2>3. spc = "reading"
    <3>1. ~Busy
      BY <1>1, <1>2, OneMessage
    <3> QED BY <3>1 DEF Busy
  <2>4. \/ Whole(b)
        \/ respQ' # <<>> /\ b.msg = Head(respQ') /\ b.got = respOff'
    BY <1>1, <1>5, <1>6, <1>7
  <2>5. ResponseStage(c)'
    BY <1>1, <1>2, <1>7, <2>1, <2>2, <2>3, <2>4 DEF ResponseStage, Own, Whole
  <2>6. Calling(c)'
    BY <1>2, <1>9, <2>1, <2>5 DEF Calling
  <2> QED BY <1>9, <2>1, <2>6 DEF SerialInv
<1> QED BY <1>10, <1>11

LEMMA InvokeSerial ==
  ASSUME Serial, IInv, SerialInv, NEW c \in Callers, Invoke(c)
  PROVE  SerialInv'
<1>1. \A e \in Callers : cpc[e] = "idle" /\ Returned(e)
  BY DEF Invoke, MayInvoke, SerialInv
<1>2. reqQ = <<>> /\ respQ = <<>> /\ spc = "reading" /\ sbuf = EmptyBuf
  BY <1>1, QuietFromInv DEF QuietChannel
<1>3. PICK kind \in Kinds, size \in ReqSizes :
        reqQ' = Append(reqQ, [caller |-> c, n |-> calls[c] + 1, body |-> kind, size |-> size])
  BY DEF Invoke
<1>4. /\ calls' = [calls EXCEPT ![c] = @ + 1]
      /\ cpc' = [cpc EXCEPT ![c] = "waiting"] /\ cbuf' = [cbuf EXCEPT ![c] = EmptyBuf]
      /\ ret' = [ret EXCEPT ![c] = [tag |-> "none", msg |-> NoMsg]]
      /\ UNCHANGED <<respQ, spc, sbuf, executed>>
  BY DEF Invoke, respVars, srvVars, history
<1>5. /\ cpc'[c] = "waiting" /\ cbuf'[c] = EmptyBuf /\ calls'[c] = calls[c] + 1
      /\ ret'[c].tag = "none" /\ calls[c] \in Nat
  BY <1>4 DEF IInv, TInv, TypeOK
<1>6. \A e \in Callers : e # c => cpc'[e] = "idle" /\ ret'[e] = ret[e] /\ calls'[e] = calls[e]
  BY <1>1, <1>4 DEF IInv, TInv, TypeOK
<1>7. Head(reqQ').caller = c /\ Head(reqQ').n = calls'[c]
  BY <1>2, <1>3, <1>5
<1>8. executed'[c] = calls'[c] - 1
  BY <1>1, <1>4, <1>5 DEF Returned
<1>9. ~Whole(sbuf')
  BY <1>2, <1>4 DEF Whole, EmptyBuf
<1>10. RequestStage(c)'
  BY <1>2, <1>4, <1>5, <1>7, <1>8, <1>9 DEF RequestStage, Own
<1>11. Calling(c)'
  BY <1>5, <1>6, <1>10 DEF Calling
<1>12. \A e \in Callers : e # c => Returned(e)'
  BY <1>1, <1>4, <1>6 DEF Returned, Own
<1> QED BY <1>5, <1>6, <1>11, <1>12 DEF SerialInv

LEMMA SerialStep ==
  ASSUME Serial, IInv, IInv', SerialInv, [Next]_vars
  PROVE  SerialInv'
<1>1. ASSUME NEW c \in Callers, Invoke(c) PROVE SerialInv'
  BY <1>1, InvokeSerial
<1>2. ASSUME NEW c \in Callers, InvokeRefused(c) PROVE SerialInv'
  <2>1. /\ cpc[c] = "idle" /\ UNCHANGED <<calls, executed, cpc>>
        /\ UNCHANGED <<reqQ, respQ, respOff, spc, sbuf, reply, cbuf>>
        /\ ret'[c] = [tag |-> "refused", msg |-> NoMsg]
        /\ \A e \in Callers : e # c => ret'[e] = ret[e]
    BY <1>2 DEF InvokeRefused, MayInvoke, IInv, TInv, TypeOK, reqVars, respVars, srvVars, history
  <2>2. Returned(c)'
    BY <2>1 DEF Returned, SerialInv
  <2>3. \A e \in Callers : e # c => (IF cpc[e] = "idle" THEN Returned(e) ELSE Calling(e))'
    BY <2>1 DEF SerialInv, Returned, Calling, RequestStage, ResponseStage, Own, Whole
  <2> QED BY <2>1, <2>2, <2>3 DEF SerialInv
<1>3. ASSUME NEW c \in Callers, LockRead(c) \/ CtxDone(c) PROVE SerialInv'
  <2>1. /\ UNCHANGED <<calls, executed, ret>>
        /\ UNCHANGED <<reqQ, respQ, respOff, spc, sbuf, reply, cbuf>>
        /\ \A e \in Callers : cpc'[e] = "idle" <=> cpc[e] = "idle"
    BY <1>3 DEF LockRead, CtxDone, IInv, TInv, TypeOK, reqVars, respVars, srvVars, history
  <2> QED BY <2>1 DEF SerialInv, Returned, Calling, RequestStage, ResponseStage, Own, Whole
<1>4. ASSUME NEW c \in Callers, ClientRead(c) PROVE SerialInv'
  BY <1>4, ClientReadSerial
<1>5. CASE ServerStep
  <2>1. PICK c \in Callers : cpc[c] # "idle" /\ Calling(c)
    BY <1>5, ServerHasCaller
  <2>2. CASE ServerRead
    BY <2>1, <2>2, ServerReadSerial
  <2>3. CASE RunHandler
    BY <2>1, <2>3, RunHandlerSerial
  <2>4. CASE ServerWrite
    BY <2>1, <2>4, ServerWriteSerial
  <2>5. CASE DropUnreadable \/ RejectRequest
    <3>1. /\ spc = "handling" /\ spc' = "reading" /\ sbuf' = EmptyBuf
          /\ UNCHANGED <<reqQ, respQ, executed>> /\ UNCHANGED cliVars
      BY <2>5 DEF DropUnreadable, RejectRequest, reqVars, respVars
    <3>2. RequestStage(c)
      BY <2>1, <3>1 DEF Calling, ResponseStage
    <3>3. RequestStage(c)'
      BY <3>1, <3>2 DEF RequestStage, Own, Whole, EmptyBuf, cliVars
    <3> QED BY <2>1, <3>1, <3>3, ServerStepKeeps
  <2>6. CASE PanicUnknown
    BY <2>6 DEF PanicUnknown, SerialInv, Returned, Calling, RequestStage, ResponseStage, Own, Whole,
         reqVars, respVars, cliVars, history
  <2> QED BY <1>5, <2>2, <2>3, <2>4, <2>5, <2>6 DEF ServerStep
<1>6. CASE Finished \/ UNCHANGED vars
  BY <1>6 DEF Finished, vars, SerialInv, Returned, Calling, RequestStage, ResponseStage, Own, Whole,
       reqVars, respVars, srvVars, cliVars, history
<1> QED BY <1>1, <1>2, <1>3, <1>4, <1>5, <1>6 DEF Next

LEMMA SerialInit == Init => SerialInv
BY DEF Init, SerialInv, Returned

LEMMA SerialAlways == ASSUME Serial PROVE Spec => [](IInv /\ SerialInv)
<1>1. IInv /\ IInv' /\ SerialInv /\ [Next]_vars => SerialInv'
  BY SerialStep
<1> QED BY <1>1, SerialInit, Inductive, PTL DEF Spec

\* Without overlapping calls no caller ever gets the response to another
\* call, of its own or of another goroutine, or a mixture of responses: for
\* any sizes, and even if contexts end and the server drops requests.
THEOREM OwnReplies == ASSUME Serial PROVE Spec => []OwnReply
<1>1. SerialInv => OwnReply
  BY DEF SerialInv, Returned, Calling, Own, OwnReply
<1> QED BY <1>1, SerialAlways, PTL

\* Without overlapping calls a service method has run at most once for the
\* last call of each caller, and once if that call has come back.
THEOREM ExecutedOnce == ASSUME Serial PROVE Spec => []ExactlyOnce
<1>1. SerialInv => ExactlyOnce
  BY DEF SerialInv, Returned, Calling, RequestStage, ResponseStage, ExactlyOnce
<1> QED BY <1>1, SerialAlways, PTL

-----------------------------------------------------------------------------
(* Calls that do not overlap implement UnaryCall.                          *)

LEMMA PhaseValues ==
  ASSUME NEW c \in Callers
  PROVE  /\ cpc[c] = "idle" => Phase[c] = "idle"
         /\ cpc[c] # "idle" /\ executed[c] # calls[c] => Phase[c] = "called"
         /\ cpc[c] # "idle" /\ executed[c] = calls[c] => Phase[c] = "executed"
BY DEF Phase

LEMMA PhaseValuesNext ==
  ASSUME NEW c \in Callers
  PROVE  /\ cpc'[c] = "idle" => Phase'[c] = "idle"
         /\ cpc'[c] # "idle" /\ executed'[c] # calls'[c] => Phase'[c] = "called"
         /\ cpc'[c] # "idle" /\ executed'[c] = calls'[c] => Phase'[c] = "executed"
BY DEF Phase

\* A step that changes the phase of one caller at most.
LEMMA PhaseOfOne ==
  ASSUME NEW c \in Callers,
         \A e \in Callers : e # c => /\ (cpc'[e] = "idle") <=> (cpc[e] = "idle")
                                     /\ executed'[e] = executed[e] /\ calls'[e] = calls[e]
  PROVE  Phase' = [Phase EXCEPT ![c] = Phase'[c]]
<1>1. \A e \in Callers : e # c => Phase'[e] = Phase[e]
  BY PhaseValues, PhaseValuesNext
<1>2. /\ Phase = [e \in Callers |-> Phase[e]]
      /\ Phase' = [e \in Callers |-> Phase'[e]]
  BY DEF Phase
<1> QED BY <1>1, <1>2

LEMMA AnswerOfOne ==
  ASSUME NEW c \in Callers, \A e \in Callers : e # c => ret'[e] = ret[e]
  PROVE  Answer' = [Answer EXCEPT ![c] = Answer'[c]]
BY DEF Answer

LEMMA RefineInit == Init => Abs!Init
<1> SUFFICES ASSUME Init PROVE Abs!Init
  OBVIOUS
<1>1. Phase = [c \in Callers |-> "idle"]
  BY DEF Init, Phase
<1>2. Answer = [c \in Callers |-> <<>>]
  BY DEF Init, Answer
<1> QED BY <1>1, <1>2 DEF Init, Abs!Init, Abs!NoAnswer

LEMMA RefineInvoke ==
  ASSUME IInv, SerialInv, NEW c \in Callers, Invoke(c)
  PROVE  Abs!Call(c)
<1>1. /\ cpc[c] = "idle" /\ calls[c] < MaxCalls /\ executed[c] = calls[c] /\ calls[c] \in Nat
      /\ cpc'[c] # "idle" /\ calls' = [calls EXCEPT ![c] = @ + 1] /\ UNCHANGED executed
      /\ calls'[c] = calls[c] + 1
      /\ ret'[c].tag = "none"
      /\ \A e \in Callers : e # c => cpc'[e] = cpc[e] /\ calls'[e] = calls[e] /\ ret'[e] = ret[e]
  BY DEF Invoke, MayInvoke, SerialInv, Returned, history, IInv, TInv, TypeOK
<1>2. Phase[c] = "idle" /\ Phase'[c] = "called"
  BY <1>1, PhaseValues, PhaseValuesNext
<1>3. Answer'[c] = <<>>
  BY <1>1 DEF Answer
<1>4. Phase' = [Phase EXCEPT ![c] = "called"] /\ Answer' = [Answer EXCEPT ![c] = <<>>]
  BY <1>1, <1>2, <1>3, PhaseOfOne, AnswerOfOne
<1> QED BY <1>1, <1>2, <1>4 DEF Abs!Call, Abs!NoAnswer

LEMMA RefineRefused ==
  ASSUME IInv, NEW c \in Callers, InvokeRefused(c)
  PROVE  Abs!Refuse(c)
<1>1. /\ cpc[c] = "idle" /\ UNCHANGED <<cpc, calls, executed>> /\ ret'[c].tag = "refused"
      /\ \A e \in Callers : e # c => ret'[e] = ret[e]
  BY DEF InvokeRefused, MayInvoke, history, IInv, TInv, TypeOK
<1>2. Phase' = Phase /\ Phase[c] = "idle"
  BY <1>1, PhaseValues DEF Phase
<1>3. Answer'[c] = <<>>
  BY <1>1 DEF Answer
<1>4. Answer' = [Answer EXCEPT ![c] = <<>>]
  BY <1>1, <1>3, AnswerOfOne
<1> QED BY <1>1, <1>2, <1>4 DEF Abs!Refuse, Abs!NoAnswer

\* A read of the client is the return of the call, or leaves all as it was.
LEMMA RefineClientRead ==
  ASSUME IInv, SerialInv, SerialInv', NEW c \in Callers, ClientRead(c)
  PROVE  Abs!Return(c) \/ UNCHANGED Abs!vars
<1>1. /\ cpc[c] # "idle" /\ UNCHANGED <<calls, executed>>
      /\ \A e \in Callers : e # c => cpc'[e] = cpc[e] /\ ret'[e] = ret[e]
  BY DEF ClientRead, history, IInv, TInv, TypeOK
<1>2. CASE cpc'[c] = "idle"
  <2>1. executed[c] = calls[c] /\ calls'[c] = calls[c]
    BY <1>1, <1>2 DEF SerialInv, Returned
  <2>2. Phase[c] = "executed" /\ Phase'[c] = "idle"
    BY <1>1, <1>2, <2>1, PhaseValues, PhaseValuesNext
  <2>3. Answer'[c] \in {<<c, calls[c]>>, <<>>}
    <3>1. ret'[c].tag = "reply" => ret'[c].msg.caller = c /\ ret'[c].msg.n = calls[c]
      BY <1>2, <2>1 DEF SerialInv, Returned, Own
    <3> QED BY <3>1 DEF Answer
  <2>4. Phase' = [Phase EXCEPT ![c] = "idle"] /\ Answer' = [Answer EXCEPT ![c] = Answer'[c]]
    BY <1>1, <2>2, PhaseOfOne, AnswerOfOne
  <2> QED BY <1>1, <2>2, <2>3, <2>4 DEF Abs!Return, Abs!NoAnswer
<1>3. CASE cpc'[c] # "idle"
  <2>1. ret' = ret
    BY <1>3 DEF ClientRead, IInv, TInv, TypeOK
  <2>2. Answer' = Answer
    BY <2>1 DEF Answer
  <2>3. Phase'[c] = Phase[c]
    BY <1>1, <1>3, PhaseValues, PhaseValuesNext
  <2>4. Phase' = Phase
    BY <1>1, <2>3, PhaseOfOne DEF Phase
  <2> QED BY <1>1, <2>2, <2>4 DEF Abs!vars
<1> QED BY <1>2, <1>3

LEMMA RefineRunHandler ==
  ASSUME IInv, SerialInv, RunHandler
  PROVE  \E c \in Callers : Abs!Execute(c)
<1>1. PICK c \in Callers : cpc[c] # "idle" /\ Calling(c)
  BY ServerHasCaller DEF ServerStep
<1>2. /\ spc = "handling" /\ Whole(sbuf)
      /\ executed' = [executed EXCEPT ![sbuf.msg.caller] = @ + 1]
      /\ UNCHANGED <<cpc, calls, ret>>
  BY DEF RunHandler, CallHandler, cliVars
<1>3. executed[c] = calls[c] - 1 /\ sbuf.msg.caller = c
  BY <1>1, <1>2 DEF Calling, RequestStage, ResponseStage, Own
<1>4. /\ executed'[c] = calls[c] /\ executed[c] # calls[c]
      /\ \A e \in Callers : e # c => executed'[e] = executed[e]
  BY <1>2, <1>3 DEF IInv, TInv, TypeOK
<1>5. Phase[c] = "called" /\ Phase'[c] = "executed"
  BY <1>1, <1>2, <1>4, PhaseValues, PhaseValuesNext
<1>6. Phase' = [Phase EXCEPT ![c] = "executed"]
  BY <1>2, <1>4, <1>5, PhaseOfOne
<1>7. Answer' = Answer
  BY <1>2 DEF Answer
<1> QED BY <1>2, <1>5, <1>6, <1>7 DEF Abs!Execute

LEMMA RefineStep ==
  ASSUME IInv, SerialInv, SerialInv', [Next]_vars
  PROVE  [Abs!Next]_Abs!vars
<1>1. ASSUME NEW c \in Callers, Invoke(c) PROVE [Abs!Next]_Abs!vars
  BY <1>1, RefineInvoke DEF Abs!Next
<1>2. ASSUME NEW c \in Callers, InvokeRefused(c) PROVE [Abs!Next]_Abs!vars
  BY <1>2, RefineRefused DEF Abs!Next
<1>3. ASSUME NEW c \in Callers, ClientRead(c) PROVE [Abs!Next]_Abs!vars
  BY <1>3, RefineClientRead DEF Abs!Next
<1>4. ASSUME NEW c \in Callers, LockRead(c) \/ CtxDone(c) PROVE [Abs!Next]_Abs!vars
  <2>1. /\ UNCHANGED <<calls, executed, ret>>
        /\ \A e \in Callers : cpc'[e] = "idle" <=> cpc[e] = "idle"
    BY <1>4 DEF LockRead, CtxDone, history, IInv, TInv, TypeOK
  <2>2. Phase' = Phase /\ Answer' = Answer
    <3>1. \A e \in Callers : Phase'[e] = Phase[e]
      BY <2>1, PhaseValues, PhaseValuesNext
    <3> QED BY <2>1, <3>1 DEF Phase, Answer
  <2> QED BY <2>1, <2>2 DEF Abs!vars
<1>5. CASE RunHandler
  BY <1>5, RefineRunHandler DEF Abs!Next
<1>6. CASE ServerRead \/ DropUnreadable \/ PanicUnknown \/ RejectRequest \/ ServerWrite
           \/ Finished \/ UNCHANGED vars
  <2>1. UNCHANGED <<cpc, calls, executed, ret>>
    BY <1>6 DEF ServerRead, DropUnreadable, PanicUnknown, RejectRequest, ServerWrite, Finished,
         vars, cliVars, history
  <2> QED BY <2>1 DEF Abs!vars, Phase, Answer
<1> QED BY <1>1, <1>2, <1>3, <1>4, <1>5, <1>6 DEF Next, ServerStep

\* Invoke over the queues, used by one goroutine at a time, is a unary call:
\* executed at most once, and answered with its own reply or an error.
THEOREM Refinement == ASSUME Serial PROVE Spec => ImplementsUnaryCall
<1>1. Spec => [](IInv /\ SerialInv)
  BY SerialAlways
<1>2. IInv /\ SerialInv /\ SerialInv' /\ [Next]_vars => [Abs!Next]_Abs!vars
  BY RefineStep
<1> QED BY <1>1, <1>2, RefineInit, PTL DEF Spec, ImplementsUnaryCall, Abs!Spec
=============================================================================
