---------------------------- MODULE SharingProofs ----------------------------
(***************************************************************************)
(* What TLAPS proves about goroutines that share a channel, calls          *)
(* overlapping as they may.  Responses can go to the wrong caller then,    *)
(* and some to nobody; what is proved is that none goes to two, and that a *)
(* channel that has come to rest has run every call's method.              *)
(***************************************************************************)
EXTENDS UnaryRpcProofs

(***************************************************************************)
(* Calls by where they are.  A message stands for the call it is of, and a *)
(* message whose first bytes have been read is no longer in its queue, but *)
(* in the buffer of the reader.                                            *)
(***************************************************************************)
Key(m)       == <<m.caller, m.n>>
Keys(q)      == {Key(q[i]) : i \in DOMAIN q}
Distinct(q)  == \A i, j \in DOMAIN q : i # j => Key(q[i]) # Key(q[j])
Rest(q, off) == IF off = 0 THEN q ELSE Tail(q)
KeyOf(b)     == IF b.msg \in {NoMsg, Torn} THEN {} ELSE {Key(b.msg)}

ToServe  == Rest(reqQ, reqOff)
InServer == KeyOf(sbuf)
InReply  == IF spc = "writing" THEN {Key(reply)} ELSE {}
ToRead   == Rest(respQ, respOff)
Taken(c) == KeyOf(cbuf[c]) \cup KeyOf(ret[c])

Sent == {k \in Callers \X Nat : k[2] <= calls[k[1]]}

\* A call is in one place at a time, and has been sent.
OnePlace ==
  /\ Distinct(ToServe) /\ Distinct(ToRead)
  /\ Keys(ToServe) \cap (InServer \cup InReply \cup Keys(ToRead)) = {}
  /\ InServer \cap (InReply \cup Keys(ToRead)) = {}
  /\ InReply \cap Keys(ToRead) = {}
  /\ Keys(ToServe) \cup InServer \cup InReply \cup Keys(ToRead) \subseteq Sent
  /\ \A c \in Callers :
       /\ Taken(c) \cap (Keys(ToServe) \cup InServer \cup InReply \cup Keys(ToRead)) = {}
       /\ Taken(c) \subseteq Sent
       /\ \A d \in Callers : c # d => Taken(c) \cap Taken(d) = {}

(***************************************************************************)
(* The calls whose method has not run are a set U: those on their way to   *)
(* it, and those that were dropped.  Each of them, like each reply on its  *)
(* way back, has a caller that waits.                                      *)
(***************************************************************************)
Of(U, c) == {k \in U : k[1] = c}
Unrun(U) ==
  /\ U \subseteq Sent /\ IsFiniteSet(U)
  /\ Keys(ToServe) \cup InServer \subseteq U
  /\ \A c \in Callers : Cardinality(Of(U, c)) = calls[c] - executed[c]
  /\ Cardinality(U) + Cardinality(InReply) + Len(respQ) <= Cardinality(Pending)

SharingInv == OnePlace /\ \E U \in SUBSET (Callers \X Nat) : Unrun(U)

-----------------------------------------------------------------------------
(* Lemmas about keys.                                                      *)

\* What appending a message does to the keys of a queue.
LEMMA AppendKeys ==
  ASSUME NEW S, NEW q \in Seq(S), NEW m \in S
  PROVE  /\ Keys(Append(q, m)) = Keys(q) \cup {Key(m)}
         /\ Distinct(q) /\ Key(m) \notin Keys(q) => Distinct(Append(q, m))
<1> DEFINE r == Append(q, m)
<1>1. /\ r \in Seq(S) /\ Len(r) = Len(q) + 1
      /\ \A i \in 1 .. Len(q) : r[i] = q[i]
      /\ r[Len(q) + 1] = m
  BY AppendProperties
<1>2. DOMAIN q = 1 .. Len(q) /\ DOMAIN r = 1 .. Len(q) + 1 /\ Len(q) \in Nat
  BY <1>1, LenProperties
<1> HIDE DEF r
<1>3. Keys(r) = Keys(q) \cup {Key(m)}
  <2>1. ASSUME NEW i \in DOMAIN r PROVE Key(r[i]) \in Keys(q) \cup {Key(m)}
    <3>1. i \in 1 .. Len(q) \/ i = Len(q) + 1
      BY <1>2
    <3> QED BY <1>1, <1>2, <3>1 DEF Keys
  <2>2. Keys(q) \subseteq Keys(r)
    BY <1>1, <1>2 DEF Keys
  <2>3. Key(m) \in Keys(r)
    BY <1>1, <1>2 DEF Keys
  <2> QED BY <2>1, <2>2, <2>3 DEF Keys
<1>4. ASSUME Distinct(q), Key(m) \notin Keys(q) PROVE Distinct(r)
  <2> SUFFICES ASSUME NEW i \in DOMAIN r, NEW j \in DOMAIN r, i # j
               PROVE  Key(r[i]) # Key(r[j])
    BY DEF Distinct
  <2>1. \A k \in 1 .. Len(q) : k \in DOMAIN q /\ r[k] = q[k] /\ Key(q[k]) \in Keys(q)
    BY <1>1, <1>2 DEF Keys
  <2>2. CASE i \in 1 .. Len(q) /\ j \in 1 .. Len(q)
    BY <1>4, <2>1, <2>2 DEF Distinct
  <2>3. CASE i = Len(q) + 1 /\ j \in 1 .. Len(q)
    BY <1>1, <1>4, <2>1, <2>3
  <2>4. CASE i \in 1 .. Len(q) /\ j = Len(q) + 1
    BY <1>1, <1>4, <2>1, <2>4
  <2> QED BY <1>2, <2>2, <2>3, <2>4
<1> QED BY <1>3, <1>4 DEF r

\* What is left when the head is taken off.
LEMMA TailKeys ==
  ASSUME NEW S, NEW q \in Seq(S), q # <<>>
  PROVE  /\ Keys(q) = Keys(Tail(q)) \cup {Key(Head(q))}
         /\ Distinct(q) => Distinct(Tail(q)) /\ Key(Head(q)) \notin Keys(Tail(q))
<1> DEFINE t == Tail(q)
<1>1. /\ t \in Seq(S) /\ Len(t) = Len(q) - 1
      /\ \A i \in 1 .. Len(t) : t[i] = q[i + 1]
  BY HeadTailProperties
<1>2. /\ DOMAIN q = 1 .. Len(q) /\ DOMAIN t = 1 .. Len(q) - 1
      /\ Len(q) \in Nat \ {0} /\ Head(q) = q[1]
  BY <1>1, LenProperties, EmptySeq
<1> HIDE DEF t
<1>3. \A i \in DOMAIN t : i + 1 \in DOMAIN q /\ i + 1 # 1 /\ t[i] = q[i + 1]
  BY <1>1, <1>2
<1>4. \A i \in DOMAIN q : i # 1 => i - 1 \in DOMAIN t /\ t[i - 1] = q[i]
  BY <1>1, <1>2
<1>5. Keys(q) = Keys(t) \cup {Key(Head(q))}
  <2>1. ASSUME NEW i \in DOMAIN q PROVE Key(q[i]) \in Keys(t) \cup {Key(Head(q))}
    BY <1>2, <1>4 DEF Keys
  <2>2. Keys(t) \subseteq Keys(q)
    BY <1>3 DEF Keys
  <2>3. Key(Head(q)) \in Keys(q)
    BY <1>2 DEF Keys
  <2> QED BY <2>1, <2>2, <2>3 DEF Keys
<1>6. ASSUME Distinct(q) PROVE Distinct(t) /\ Key(Head(q)) \notin Keys(t)
  <2>1. ASSUME NEW i \in DOMAIN t PROVE Key(t[i]) # Key(Head(q))
    <3>1. 1 \in DOMAIN q
      BY <1>2
    <3> QED BY <1>2, <1>3, <1>6, <3>1 DEF Distinct
  <2>2. ASSUME NEW i \in DOMAIN t, NEW j \in DOMAIN t, i # j PROVE Key(t[i]) # Key(t[j])
    <3>1. i + 1 # j + 1
      BY <1>2, <2>2
    <3> QED BY <1>3, <1>6, <3>1 DEF Distinct
  <2> QED BY <2>1, <2>2 DEF Distinct, Keys
<1> QED BY <1>5, <1>6 DEF t

\* After a read the rest is the tail, whether the head is gone or only begun.
LEMMA ReadLeavesTail ==
  ASSUME NEW S, \A m \in S : m.size \in Nat \ {0},
         NEW q \in Seq(S), q # <<>>,
         NEW off \in Nat, off <= Head(q).size, NEW n \in Nat \ {0}
  PROVE  Rest(AfterRead(q, off, n), AfterReadOff(q, off, n)) = Tail(q)
<1> DEFINE r == AfterRead(q, off, n)
           o == AfterReadOff(q, off, n)
           k == Fetch(q, off, n)
<1>1. (r = Tail(q) /\ o = 0) \/ (r = q /\ o = off + k /\ k = n)
  BY ReadPopsAtMostOne
<1> HIDE DEF r, o, k
<1>2. CASE r = Tail(q) /\ o = 0
  BY <1>2 DEF Rest, r, o
<1>3. CASE r = q /\ o = off + k /\ k = n
  <2>1. o # 0
    BY <1>3
  <2> QED BY <1>3, <2>1 DEF Rest, r, o
<1> QED BY <1>1, <1>2, <1>3

\* A send appends to the rest.
LEMMA RestOfAppend ==
  ASSUME NEW S, NEW q \in Seq(S), NEW m \in S, NEW off, q = <<>> => off = 0
  PROVE  Rest(Append(q, m), off) = Append(Rest(q, off), m) /\ Rest(q, off) \in Seq(S)
<1>1. CASE off = 0
  BY <1>1 DEF Rest
<1>2. CASE off # 0
  <2>1. q # <<>>
    BY <1>2
  <2>2. Tail(Append(q, m)) = Append(Tail(q), m) /\ Tail(q) \in Seq(S)
    BY <2>1, HeadTailAppend, HeadTailProperties
  <2> QED BY <1>2, <2>2 DEF Rest
<1> QED BY <1>1, <1>2

\* A buffer takes the key of a message with its first bytes only.
LEMMA AbsorbKey ==
  ASSUME NEW S, NoMsg \notin S, NEW b \in Bufs(S), NEW m \in S, NEW lo, NEW k
  PROVE  KeyOf(Absorb(b, m, lo, k)) \subseteq KeyOf(b) \cup (IF lo = 0 THEN {Key(m)} ELSE {})
<1>1. CASE b = EmptyBuf /\ lo = 0
  <2>1. Absorb(b, m, lo, k) = [msg |-> m, got |-> k]
    BY <1>1 DEF Absorb, Whole, EmptyBuf
  <2> QED BY <1>1, <2>1 DEF KeyOf
<1>2. CASE ~(b = EmptyBuf /\ lo = 0) /\ ~Whole(b) /\ b.msg = m /\ b.got = lo
  <2>1. Absorb(b, m, lo, k) = [b EXCEPT !.got = lo + k]
    BY <1>2 DEF Absorb
  <2>2. [b EXCEPT !.got = lo + k].msg = b.msg
    BY DEF Bufs, EmptyBuf, TornBuf
  <2> QED BY <2>1, <2>2 DEF KeyOf
<1>3. CASE ~(b = EmptyBuf /\ lo = 0) /\ Whole(b)
  <2>1. Absorb(b, m, lo, k) = b
    BY <1>3 DEF Absorb
  <2> QED BY <2>1
<1>4. CASE /\ ~(b = EmptyBuf /\ lo = 0)
           /\ ~(~Whole(b) /\ b.msg = m /\ b.got = lo)
           /\ ~Whole(b)
  <2>1. Absorb(b, m, lo, k) = TornBuf
    BY <1>4 DEF Absorb
  <2> QED BY <2>1 DEF KeyOf, TornBuf
<1> QED BY <1>1, <1>2, <1>3, <1>4

LEMMA EmptyKey == KeyOf(EmptyBuf) = {}
BY DEF KeyOf, EmptyBuf

LEMMA ParsedKey == ASSUME NEW b PROVE KeyOf(Parsed(b)) \subseteq KeyOf(b)
<1>1. CASE ~Whole(b)
  BY <1>1 DEF Parsed, KeyOf
<1>2. CASE Whole(b)
  <2>1. Parsed(b).msg = b.msg
    BY <1>2 DEF Parsed
  <2> QED BY <2>1 DEF KeyOf
<1> QED BY <1>1, <1>2

-----------------------------------------------------------------------------
(* What each action does to the places of the calls.                       *)

LEMMA QueueFacts ==
  ASSUME TInv
  PROVE  /\ reqQ \in Seq(Requests) /\ reqOff \in Nat /\ (reqQ = <<>> => reqOff = 0)
         /\ respQ \in Seq(Replies) /\ respOff \in Nat /\ (respQ = <<>> => respOff = 0)
         /\ reqQ # <<>> => reqOff <= Head(reqQ).size
         /\ respQ # <<>> => respOff <= Head(respQ).size
BY DEF TInv, TypeOK, OffsetsOK

LEMMA SentGrows ==
  ASSUME \A c \in Callers : calls[c] \in Nat /\ calls'[c] \in Nat /\ calls[c] <= calls'[c]
  PROVE  Sent \subseteq Sent'
BY DEF Sent

\* A new call is on its way; what its caller had got before is gone.
LEMMA InvokeMoves ==
  ASSUME IInv, NEW c \in Callers, Invoke(c)
  PROVE  LET k == <<c, calls[c] + 1>>
         IN  /\ Keys(ToServe') = Keys(ToServe) \cup {k}
             /\ Distinct(ToServe) /\ k \notin Keys(ToServe) => Distinct(ToServe')
             /\ UNCHANGED <<InServer, InReply, ToRead, respQ, executed>>
             /\ Taken(c)' = {} /\ \A d \in Callers : d # c => Taken(d)' = Taken(d)
             /\ Sent \subseteq Sent' /\ k \in Sent' \ Sent
             /\ \A d \in Callers : calls'[d] = IF d = c THEN calls[d] + 1 ELSE calls[d]
             /\ c \notin Pending /\ Pending' = Pending \cup {c}
<1>0. TInv
  BY DEF IInv
<1>1. PICK kind \in Kinds, size \in ReqSizes :
        reqQ' = Append(reqQ, [caller |-> c, n |-> calls[c] + 1, body |-> kind, size |-> size])
  BY DEF Invoke
<1> DEFINE m == [caller |-> c, n |-> calls[c] + 1, body |-> kind, size |-> size]
           k == <<c, calls[c] + 1>>
<1>2. /\ calls \in [Callers -> Nat] /\ cpc \in [Callers -> {"idle", "waiting", "reading"}]
      /\ cbuf \in [Callers -> ReplyBufs] /\ ret \in [Callers -> Returns]
  BY <1>0 DEF TInv, TypeOK
<1>3. m \in Requests /\ Key(m) = k /\ reqQ' = Append(reqQ, m)
  BY <1>1, <1>2 DEF Requests, Key
<1> HIDE DEF m
<1>4. ToServe' = Append(ToServe, m) /\ ToServe \in Seq(Requests)
  <2>1. reqOff' = reqOff
    BY DEF Invoke
  <2>2. reqQ \in Seq(Requests) /\ (reqQ = <<>> => reqOff = 0)
    BY <1>0, QueueFacts
  <2>3. m \in Requests
    BY <1>3
  <2>4. /\ Rest(Append(reqQ, m), reqOff) = Append(Rest(reqQ, reqOff), m)
        /\ Rest(reqQ, reqOff) \in Seq(Requests)
    BY <2>2, <2>3, RestOfAppend
  <2> QED BY <1>3, <2>1, <2>4, Zenon DEF ToServe
<1>5. /\ Keys(ToServe') = Keys(ToServe) \cup {k}
      /\ Distinct(ToServe) /\ k \notin Keys(ToServe) => Distinct(ToServe')
  <2>1. /\ Keys(Append(ToServe, m)) = Keys(ToServe) \cup {Key(m)}
        /\ Distinct(ToServe) /\ Key(m) \notin Keys(ToServe) => Distinct(Append(ToServe, m))
    BY <1>3, <1>4, AppendKeys
  <2> QED BY <1>3, <1>4, <2>1, Zenon
<1>6. UNCHANGED <<InServer, InReply, ToRead, respQ, executed>>
  BY DEF Invoke, respVars, srvVars, history, InServer, InReply, ToRead
<1>7. Taken(c)' = {}
  <2>1. cbuf'[c] = EmptyBuf /\ ret'[c] = [tag |-> "none", msg |-> NoMsg]
    BY <1>2 DEF Invoke
  <2> QED BY <2>1, EmptyKey DEF Taken, KeyOf
<1>8. \A d \in Callers : d # c => Taken(d)' = Taken(d)
  BY <1>2 DEF Invoke, Taken
<1>9. \A d \in Callers : calls'[d] = IF d = c THEN calls[d] + 1 ELSE calls[d]
  BY <1>2 DEF Invoke
<1>10. Sent \subseteq Sent'
  BY <1>2, <1>9, SentGrows
<1>11. k \in Sent' \ Sent
  BY <1>2, <1>9 DEF Sent
<1>12. c \notin Pending /\ Pending' = Pending \cup {c}
  BY <1>2 DEF Invoke, MayInvoke, Pending
<1> QED BY <1>5, <1>6, <1>7, <1>8, <1>9, <1>10, <1>11, <1>12

\* With its first bytes a request goes to the server's buffer, or is lost.
LEMMA ServerReadMoves ==
  ASSUME IInv, ServerRead
  PROVE  /\ Keys(ToServe') \subseteq Keys(ToServe)
         /\ Distinct(ToServe) => Distinct(ToServe')
         /\ InServer' \subseteq InServer \cup Keys(ToServe)
         /\ Distinct(ToServe) => InServer' \cap Keys(ToServe') \subseteq InServer
         /\ InReply = {} /\ InReply' = {}
         /\ UNCHANGED <<ToRead, respQ, calls, executed, Sent, Pending>>
         /\ \A c \in Callers : Taken(c)' = Taken(c)
<1>0. TInv
  BY DEF IInv
<1> DEFINE m == Head(reqQ)
           k == Fetch(reqQ, reqOff, ServerBuf)
<1>1. /\ reqQ # <<>> /\ spc = "reading" /\ spc' \in {"handling", "reading"}
      /\ sbuf' = Absorb(sbuf, m, reqOff, k)
      /\ reqQ' = AfterRead(reqQ, reqOff, ServerBuf)
      /\ reqOff' = AfterReadOff(reqQ, reqOff, ServerBuf)
  BY DEF ServerRead
<1>2. m \in Requests
  BY <1>0, <1>1, QueueFacts, HeadTailProperties
<1>3. ToServe' = Tail(reqQ)
  BY <1>0, <1>1, QueueFacts, SizesPositive, ReadLeavesTail DEF ToServe
<1>4. InServer' \subseteq InServer \cup (IF reqOff = 0 THEN {Key(m)} ELSE {})
  BY <1>0, <1>1, <1>2, AbsorbKey, BufsAreTyped DEF InServer, TInv, TypeOK
<1>5. CASE reqOff = 0
  <2>1. ToServe = reqQ
    BY <1>5 DEF ToServe, Rest
  <2>2. /\ Keys(ToServe) = Keys(ToServe') \cup {Key(m)}
        /\ Distinct(ToServe) => Distinct(ToServe') /\ Key(m) \notin Keys(ToServe')
    BY <1>0, <1>1, <1>3, <2>1, QueueFacts, TailKeys
  <2> HIDE DEF m
  <2> QED BY <1>1, <1>4, <1>5, <2>2
          DEF ServerRead, InReply, ToRead, Sent, Pending, Taken, respVars, cliVars, history
<1>6. CASE reqOff # 0
  <2>1. ToServe' = ToServe
    BY <1>3, <1>6 DEF ToServe, Rest
  <2> HIDE DEF m
  <2> QED BY <1>1, <1>4, <1>6, <2>1
          DEF ServerRead, InReply, ToRead, Sent, Pending, Taken, respVars, cliVars, history
<1> QED BY <1>5, <1>6

\* The method runs, and its reply is to be written.
LEMMA RunHandlerMoves ==
  ASSUME IInv, RunHandler
  PROVE  LET k == Key(sbuf.msg)
         IN  /\ InServer = {k} /\ InServer' = {} /\ InReply = {} /\ InReply' = {k}
             /\ k[1] \in Callers /\ k[1] = sbuf.msg.caller
             /\ executed' = [executed EXCEPT ![k[1]] = @ + 1]
             /\ UNCHANGED <<ToServe, ToRead, respQ, calls, Sent, Pending>>
             /\ \A c \in Callers : Taken(c)' = Taken(c)
<1>1. /\ spc = "handling" /\ spc' = "writing" /\ Whole(sbuf) /\ sbuf' = EmptyBuf
      /\ executed' = [executed EXCEPT ![sbuf.msg.caller] = @ + 1]
      /\ UNCHANGED <<reqQ, reqOff, respQ, respOff, cpc, cbuf, calls, ret>>
  BY DEF RunHandler, CallHandler, reqVars, respVars, cliVars
<1>2. PICK size \in RespSizes :
        reply' = [caller |-> sbuf.msg.caller, n |-> sbuf.msg.n,
                  body |-> IF sbuf.msg.body = "ok" THEN "value" ELSE "empty", size |-> size]
  BY DEF RunHandler, CallHandler
<1>3. sbuf.msg \in Requests
  BY <1>1, WholeHasMessage, BufsAreTyped DEF IInv, TInv, TypeOK
<1>4. Key(reply') = Key(sbuf.msg)
  BY <1>2 DEF Key
<1>5. InServer = {Key(sbuf.msg)} /\ InServer' = {}
  BY <1>1, EmptyKey DEF InServer, KeyOf, Whole
<1>6. InReply = {} /\ InReply' = {Key(sbuf.msg)}
  BY <1>1, <1>4 DEF InReply
<1>7. Key(sbuf.msg)[1] = sbuf.msg.caller /\ sbuf.msg.caller \in Callers
  BY <1>3 DEF Requests, Key
<1> QED BY <1>1, <1>5, <1>6, <1>7 DEF ToServe, ToRead, Sent, Pending, Taken

\* The response is on its way.
LEMMA ServerWriteMoves ==
  ASSUME IInv, ServerWrite
  PROVE  /\ InServer = {} /\ InServer' = {} /\ InReply' = {}
         /\ Keys(ToRead') = Keys(ToRead) \cup InReply
         /\ InReply \cap Keys(ToRead) = {} /\ Distinct(ToRead) => Distinct(ToRead')
         /\ Cardinality(InReply) = 1 /\ Len(respQ') = Len(respQ) + 1
         /\ UNCHANGED <<ToServe, calls, executed, Sent, Pending>>
         /\ \A c \in Callers : Taken(c)' = Taken(c)
<1>0. TInv
  BY DEF IInv
<1>1. /\ spc = "writing" /\ spc' = "reading" /\ respQ' = Append(respQ, reply)
      /\ UNCHANGED <<reqQ, reqOff, respOff, sbuf, cpc, cbuf, calls, ret, executed>>
  BY DEF ServerWrite, reqVars, cliVars, history
<1>2. sbuf = EmptyBuf /\ reply \in Replies
  BY <1>1 DEF IInv, TInv, ServerBufOK, ReplyReady
<1>3. ToRead' = Append(ToRead, reply) /\ ToRead \in Seq(Replies)
  <2>1. respQ \in Seq(Replies) /\ (respQ = <<>> => respOff = 0)
    BY <1>0, QueueFacts
  <2>2. /\ Rest(Append(respQ, reply), respOff) = Append(Rest(respQ, respOff), reply)
        /\ Rest(respQ, respOff) \in Seq(Replies)
    BY <1>2, <2>1, RestOfAppend
  <2> QED BY <1>1, <2>2, Zenon DEF ToRead
<1>4. /\ Keys(ToRead') = Keys(ToRead) \cup {Key(reply)}
      /\ Distinct(ToRead) /\ Key(reply) \notin Keys(ToRead) => Distinct(ToRead')
  BY <1>2, <1>3, AppendKeys
<1>5. InReply = {Key(reply)} /\ InReply' = {}
  BY <1>1 DEF InReply
<1>6. Cardinality(InReply) = 1
  BY <1>5, FS_Singleton
<1>7. Len(respQ') = Len(respQ) + 1
  BY <1>0, <1>1, <1>2, QueueFacts, AppendProperties
<1>8. InServer = {} /\ InServer' = {}
  BY <1>1, <1>2, EmptyKey DEF InServer
<1> QED BY <1>1, <1>4, <1>5, <1>6, <1>7, <1>8 DEF ToServe, Sent, Pending, Taken

\* With its first bytes a response goes to its reader's buffer, or is lost;
\* with its last bytes a call comes back, with what the buffer holds.
LEMMA ClientReadMoves ==
  ASSUME IInv, NEW c \in Callers, ClientRead(c)
  PROVE  /\ Keys(ToRead') \subseteq Keys(ToRead)
         /\ Distinct(ToRead) => Distinct(ToRead')
         /\ Taken(c)' \subseteq Taken(c) \cup Keys(ToRead)
         /\ Distinct(ToRead) => Taken(c)' \cap Keys(ToRead') \subseteq Taken(c)
         /\ \A d \in Callers : d # c => Taken(d)' = Taken(d)
         /\ UNCHANGED <<ToServe, InServer, InReply, calls, executed, Sent>>
         /\ Len(respQ') \in Nat
         /\ \/ Len(respQ') <= Len(respQ) /\ Pending' = Pending
            \/ Len(respQ') = Len(respQ) - 1 /\ c \in Pending /\ Pending' = Pending \ {c}
<1>0. TInv
  BY DEF IInv
<1> DEFINE m == Head(respQ)
           k == Fetch(respQ, respOff, ClientBuf)
           b == Absorb(cbuf[c], m, respOff, k)
<1>1. /\ respQ # <<>> /\ cpc[c] = "reading"
      /\ respQ' = AfterRead(respQ, respOff, ClientBuf)
      /\ respOff' = AfterReadOff(respQ, respOff, ClientBuf)
      /\ UNCHANGED <<reqQ, reqOff, spc, sbuf, reply, calls, executed>>
  BY DEF ClientRead, reqVars, srvVars, history
<1>2. /\ cpc \in [Callers -> {"idle", "waiting", "reading"}]
      /\ cbuf \in [Callers -> ReplyBufs] /\ ret \in [Callers -> Returns]
  BY <1>0 DEF TInv, TypeOK
<1>3. m \in Replies
  BY <1>0, <1>1, QueueFacts, HeadTailProperties
<1>4. ToRead' = Tail(respQ)
  BY <1>0, <1>1, QueueFacts, SizesPositive, ReadLeavesTail DEF ToRead
<1>5. KeyOf(b) \subseteq KeyOf(cbuf[c]) \cup (IF respOff = 0 THEN {Key(m)} ELSE {})
  BY <1>2, <1>3, AbsorbKey, BufsAreTyped
<1>6. Taken(c)' \subseteq Taken(c) \cup (IF respOff = 0 THEN {Key(m)} ELSE {})
  <2>1. CASE LastOfResponse(k)
    <3>1. cbuf'[c] = EmptyBuf /\ ret'[c] = Parsed(b)
      BY <1>2, <2>1 DEF ClientRead
    <3> HIDE DEF b, m, k
    <3> QED BY <1>5, <3>1, EmptyKey, ParsedKey DEF Taken
  <2>2. CASE ~LastOfResponse(k)
    <3>1. cbuf'[c] = b /\ ret' = ret
      BY <1>2, <2>2 DEF ClientRead
    <3> HIDE DEF b, m, k
    <3> QED BY <1>5, <3>1 DEF Taken
  <2> QED BY <2>1, <2>2
<1>7. \A d \in Callers : d # c => Taken(d)' = Taken(d)
  BY <1>2 DEF ClientRead, Taken
<1>8. /\ Len(respQ') \in Nat
      /\ \/ Len(respQ') <= Len(respQ) /\ Pending' = Pending
         \/ Len(respQ') = Len(respQ) - 1 /\ c \in Pending /\ Pending' = Pending \ {c}
  <2>1. /\ k < ClientBuf => respQ' = Tail(respQ)
        /\ respQ' = Tail(respQ) \/ respQ' = respQ
    BY <1>0, <1>1, QueueFacts, SizesPositive, ReadPopsAtMostOne
  <2>2. Len(Tail(respQ)) = Len(respQ) - 1 /\ Len(respQ) \in Nat \ {0}
    BY <1>0, <1>1, QueueFacts, HeadTailProperties, EmptySeq
  <2>3. CASE LastOfResponse(k)
    <3>1. c \in Pending /\ Pending' = Pending \ {c}
      BY <1>1, <1>2, <2>3 DEF ClientRead, Pending
    <3>2. Len(respQ') = Len(respQ) - 1
      BY <2>1, <2>2, <2>3 DEF LastOfResponse
    <3> QED BY <2>2, <3>1, <3>2
  <2>4. CASE ~LastOfResponse(k)
    <3>1. Pending' = Pending
      BY <1>1, <1>2, <2>4 DEF ClientRead, Pending
    <3>2. Len(respQ') \in Nat /\ Len(respQ') <= Len(respQ)
      <4>1. CASE respQ' = respQ
        BY <2>2, <4>1
      <4>2. CASE respQ' = Tail(respQ)
        BY <2>2, <4>2
      <4> QED BY <2>1, <4>1, <4>2
    <3> QED BY <3>1, <3>2
  <2> QED BY <2>3, <2>4
<1>9. UNCHANGED <<ToServe, InServer, InReply, calls, executed, Sent>>
  BY <1>1 DEF ToServe, InServer, InReply, Sent
<1>10. /\ Keys(ToRead') \subseteq Keys(ToRead)
       /\ Distinct(ToRead) => Distinct(ToRead')
       /\ Taken(c)' \subseteq Taken(c) \cup Keys(ToRead)
       /\ Distinct(ToRead) => Taken(c)' \cap Keys(ToRead') \subseteq Taken(c)
  <2>1. CASE respOff = 0
    <3>1. ToRead = respQ
      BY <2>1 DEF ToRead, Rest
    <3>2. /\ Keys(ToRead) = Keys(ToRead') \cup {Key(m)}
          /\ Distinct(ToRead) => Distinct(ToRead') /\ Key(m) \notin Keys(ToRead')
      BY <1>0, <1>1, <1>4, <3>1, QueueFacts, TailKeys
    <3> HIDE DEF m
    <3> QED BY <1>6, <2>1, <3>2
  <2>2. CASE respOff # 0
    <3>1. ToRead' = ToRead
      BY <1>4, <2>2 DEF ToRead, Rest
    <3> HIDE DEF m
    <3> QED BY <1>6, <2>2, <3>1
  <2> QED BY <2>1, <2>2
<1> QED BY <1>7, <1>8, <1>9, <1>10

\* A dropped request goes nowhere; everything else leaves the calls in place.
LEMMA OthersMove ==
  ASSUME IInv,
         \/ DropUnreadable \/ RejectRequest \/ PanicUnknown \/ Finished \/ UNCHANGED vars
         \/ \E c \in Callers : InvokeRefused(c) \/ LockRead(c) \/ CtxDone(c)
  PROVE  /\ InServer' \subseteq InServer
         /\ UNCHANGED <<ToServe, InReply, ToRead, respQ, calls, executed, Sent, Pending>>
         /\ \A c \in Callers : Taken(c)' \subseteq Taken(c)
<1>1. CASE DropUnreadable \/ RejectRequest
  <2>1. /\ sbuf' = EmptyBuf /\ spc = "handling" /\ spc' = "reading"
        /\ UNCHANGED <<reqQ, reqOff, respQ, respOff, cpc, cbuf, calls, ret, executed>>
    BY <1>1 DEF DropUnreadable, RejectRequest, reqVars, respVars, cliVars
  <2> QED BY <2>1, EmptyKey DEF InServer, InReply, ToServe, ToRead, Sent, Pending, Taken
<1>2. CASE PanicUnknown \/ Finished \/ UNCHANGED vars
  <2>1. UNCHANGED <<reqQ, reqOff, respQ, respOff, spc, sbuf, reply, cpc, cbuf, calls, ret, executed>>
    BY <1>2 DEF PanicUnknown, Finished, vars, reqVars, respVars, srvVars, cliVars, history
  <2> QED BY <2>1 DEF InServer, InReply, ToServe, ToRead, Sent, Pending, Taken
<1>3. ASSUME NEW c \in Callers, InvokeRefused(c) \/ LockRead(c) \/ CtxDone(c)
      PROVE  /\ UNCHANGED <<InServer, ToServe, InReply, ToRead, respQ, calls, executed, Sent, Pending>>
             /\ \A d \in Callers : Taken(d)' \subseteq Taken(d)
  <2>0. ret \in [Callers -> Returns] /\ cpc \in [Callers -> {"idle", "waiting", "reading"}]
    BY DEF IInv, TInv, TypeOK
  <2>1. UNCHANGED <<reqQ, reqOff, respQ, respOff, spc, sbuf, reply, cbuf, calls, executed>>
    BY <1>3 DEF InvokeRefused, LockRead, CtxDone, reqVars, respVars, srvVars, history
  <2>2. \A d \in Callers : cpc'[d] = "idle" <=> cpc[d] = "idle"
    BY <1>3, <2>0 DEF InvokeRefused, LockRead, CtxDone
  <2>3. \A d \in Callers : ret'[d] = ret[d] \/ ret'[d] = [tag |-> "refused", msg |-> NoMsg]
    BY <1>3, <2>0 DEF InvokeRefused, LockRead, CtxDone
  <2>4. \A d \in Callers : KeyOf(ret'[d]) \subseteq KeyOf(ret[d])
    BY <2>3 DEF KeyOf
  <2> QED BY <2>1, <2>2, <2>4 DEF InServer, InReply, ToServe, ToRead, Sent, Pending, Taken
<1> QED BY <1>1, <1>2, <1>3

-----------------------------------------------------------------------------
(* No call is in two places.                                               *)

LEMMA OnePlaceInit == Init => OnePlace
<1> SUFFICES ASSUME Init PROVE OnePlace
  OBVIOUS
<1>1. ToServe = <<>> /\ ToRead = <<>>
  BY DEF Init, ToServe, ToRead, Rest
<1>2. Keys(<<>>) = {} /\ Distinct(<<>>)
  BY DEF Keys, Distinct
<1>3. InServer = {} /\ InReply = {}
  BY EmptyKey DEF Init, InServer, InReply
<1>4. \A c \in Callers : Taken(c) = {}
  BY EmptyKey DEF Init, Taken, KeyOf
<1> QED BY <1>1, <1>2, <1>3, <1>4 DEF OnePlace

LEMMA OnePlaceStep == IInv /\ OnePlace /\ [Next]_vars => OnePlace'
<1> SUFFICES ASSUME IInv, OnePlace, [Next]_vars PROVE OnePlace'
  OBVIOUS
<1> USE DEF OnePlace
<1>1. ASSUME NEW c \in Callers, Invoke(c) PROVE OnePlace'
  <2> DEFINE k == <<c, calls[c] + 1>>
  <2>1. k \notin Keys(ToServe) \cup InServer \cup InReply \cup Keys(ToRead)
    BY <1>1, InvokeMoves
  <2>2. \A d \in Callers : k \notin Taken(d)
    BY <1>1, InvokeMoves
  <2>3. /\ Keys(ToServe') = Keys(ToServe) \cup {k} /\ Distinct(ToServe')
        /\ UNCHANGED <<InServer, InReply, ToRead>>
        /\ Sent \subseteq Sent' /\ k \in Sent'
    BY <1>1, <2>1, InvokeMoves
  <2>4. \A d \in Callers : Taken(d)' \subseteq Taken(d)
    BY <1>1, InvokeMoves
  <2> HIDE DEF k
  <2> QED BY <2>1, <2>2, <2>3, <2>4
<1>2. CASE ServerRead
  <2>1. /\ Keys(ToServe') \subseteq Keys(ToServe) /\ Distinct(ToServe')
        /\ InServer' \subseteq InServer \cup Keys(ToServe)
        /\ InServer' \cap Keys(ToServe') \subseteq InServer
        /\ UNCHANGED <<ToRead, Sent>> /\ InReply = {} /\ InReply' = {}
    BY <1>2, ServerReadMoves
  <2>2. \A d \in Callers : Taken(d)' = Taken(d)
    BY <1>2, ServerReadMoves
  <2> QED BY <2>1, <2>2
<1>3. CASE RunHandler
  <2>1. InReply' = InServer /\ InServer' = {} /\ UNCHANGED <<ToServe, ToRead, Sent>>
    BY <1>3, RunHandlerMoves
  <2>2. \A d \in Callers : Taken(d)' = Taken(d)
    BY <1>3, RunHandlerMoves
  <2> QED BY <2>1, <2>2
<1>4. CASE ServerWrite
  <2>1. /\ InServer = {} /\ InServer' = {} /\ InReply' = {} /\ UNCHANGED <<ToServe, Sent>>
        /\ Keys(ToRead') = Keys(ToRead) \cup InReply /\ Distinct(ToRead')
    BY <1>4, ServerWriteMoves
  <2>2. \A d \in Callers : Taken(d)' = Taken(d)
    BY <1>4, ServerWriteMoves
  <2> QED BY <2>1, <2>2
<1>5. ASSUME NEW c \in Callers, ClientRead(c) PROVE OnePlace'
  <2>1. /\ Keys(ToRead') \subseteq Keys(ToRead) /\ Distinct(ToRead')
        /\ UNCHANGED <<ToServe, InServer, InReply, Sent>>
    BY <1>5, ClientReadMoves
  <2>2. /\ Taken(c)' \subseteq Taken(c) \cup Keys(ToRead)
        /\ Taken(c)' \cap Keys(ToRead') \subseteq Taken(c)
    BY <1>5, ClientReadMoves
  <2>3. \A d \in Callers : d # c => Taken(d)' = Taken(d)
    BY <1>5, ClientReadMoves
  <2>4. Taken(c)' \cap (Keys(ToServe) \cup InServer \cup InReply \cup Keys(ToRead')) = {}
    BY <2>1, <2>2
  <2>5. \A d \in Callers : d # c => Taken(c)' \cap Taken(d) = {}
    BY <2>2
  <2> QED BY <2>1, <2>2, <2>3, <2>4, <2>5
<1>6. CASE \/ DropUnreadable \/ RejectRequest \/ PanicUnknown \/ Finished \/ UNCHANGED vars
           \/ \E c \in Callers : InvokeRefused(c) \/ LockRead(c) \/ CtxDone(c)
  <2>1. InServer' \subseteq InServer /\ UNCHANGED <<ToServe, InReply, ToRead, Sent>>
    BY <1>6, OthersMove
  <2>2. \A d \in Callers : Taken(d)' \subseteq Taken(d)
    BY <1>6, OthersMove
  <2> QED BY <2>1, <2>2
<1> QED BY <1>1, <1>2, <1>3, <1>4, <1>5, <1>6 DEF Next, ServerStep

-----------------------------------------------------------------------------
(* Calls whose method has not run.                                         *)

LEMMA OfCardinality ==
  ASSUME NEW U, IsFiniteSet(U), NEW c
  PROVE  IsFiniteSet(Of(U, c)) /\ Cardinality(Of(U, c)) \in Nat
<1>1. Of(U, c) \in SUBSET U
  BY DEF Of
<1> QED BY <1>1, FS_Subset, FS_CardinalityType

\* One more call, or one less, changes the count of its caller by one.
LEMMA OneMore ==
  ASSUME NEW U, IsFiniteSet(U), NEW k, k \notin U, NEW c
  PROVE  Cardinality(Of(U \cup {k}, c)) = Cardinality(Of(U, c)) + (IF c = k[1] THEN 1 ELSE 0)
<1>1. k \notin Of(U, c) /\ IsFiniteSet(Of(U, c)) /\ Cardinality(Of(U, c)) \in Nat
  BY OfCardinality DEF Of
<1>2. CASE c = k[1]
  <2>1. Of(U \cup {k}, c) = Of(U, c) \cup {k}
    BY <1>2 DEF Of
  <2> QED BY <1>1, <1>2, <2>1, FS_AddElement
<1>3. CASE c # k[1]
  <2>1. Of(U \cup {k}, c) = Of(U, c)
    BY <1>3 DEF Of
  <2> QED BY <1>1, <1>3, <2>1
<1> QED BY <1>2, <1>3

LEMMA OneLess ==
  ASSUME NEW U, IsFiniteSet(U), NEW k \in U, NEW c
  PROVE  Cardinality(Of(U \ {k}, c)) = Cardinality(Of(U, c)) - (IF c = k[1] THEN 1 ELSE 0)
<1>1. IsFiniteSet(Of(U, c)) /\ Cardinality(Of(U, c)) \in Nat
  BY OfCardinality
<1>2. CASE c = k[1]
  <2>1. Of(U \ {k}, c) = Of(U, c) \ {k} /\ k \in Of(U, c)
    BY <1>2 DEF Of
  <2> QED BY <1>1, <1>2, <2>1, FS_RemoveElement
<1>3. CASE c # k[1]
  <2>1. Of(U \ {k}, c) = Of(U, c)
    BY <1>3 DEF Of
  <2> QED BY <1>1, <1>3, <2>1
<1> QED BY <1>2, <1>3

LEMMA UnrunInit == Init => Unrun({})
<1> SUFFICES ASSUME Init PROVE Unrun({})
  OBVIOUS
<1>1. Keys(ToServe) = {} /\ InServer = {} /\ InReply = {}
  BY EmptyKey DEF Init, ToServe, Rest, Keys, InServer, InReply
<1>2. Pending = {} /\ Len(respQ) = 0
  BY DEF Init, Pending
<1>3. \A c \in Callers : Of({}, c) = {} /\ calls[c] - executed[c] = 0
  BY DEF Init, Of
<1> QED BY <1>1, <1>2, <1>3, FS_EmptySet DEF Unrun

LEMMA InReplyCardinality ==
  Cardinality(InReply) \in Nat /\ (InReply = {} => Cardinality(InReply) = 0)
BY FS_EmptySet, FS_Singleton DEF InReply

\* A step in which no call is sent or run, and what comes to be written is
\* made up for by what is taken off the queue.
LEMMA UnrunKept ==
  ASSUME NEW U, Unrun(U), Keys(ToServe') \cup InServer' \subseteq U,
         UNCHANGED <<calls, executed, Sent>>,
         Cardinality(InReply') + Len(respQ') - Cardinality(Pending')
           <= Cardinality(InReply) + Len(respQ) - Cardinality(Pending),
         {Cardinality(InReply'), Len(respQ'), Cardinality(InReply), Len(respQ)} \subseteq Nat
  PROVE  Unrun(U)'
<1>1. Cardinality(U) \in Nat
  BY FS_CardinalityType DEF Unrun
<1>2. Cardinality(U) + Cardinality(InReply') + Len(respQ') <= Cardinality(Pending')
  BY <1>1, PendingFinite, PendingFiniteNext DEF Unrun
<1> QED BY <1>2 DEF Unrun

LEMMA UnrunStep ==
  ASSUME IInv, IInv', OnePlace, NEW U \in SUBSET (Callers \X Nat), Unrun(U), [Next]_vars
  PROVE  \E V \in SUBSET (Callers \X Nat) : Unrun(V)'
<1>0. /\ Len(respQ) \in Nat /\ Len(respQ') \in Nat /\ Cardinality(U) \in Nat
      /\ calls \in [Callers -> Nat] /\ executed \in [Callers -> Nat]
  BY LenProperties, FS_CardinalityType DEF Unrun, IInv, TInv, TypeOK
<1>1. ASSUME NEW c \in Callers, Invoke(c) PROVE \E V \in SUBSET (Callers \X Nat) : Unrun(V)'
  <2>1. PICK k \in Callers \X Nat : k = <<c, calls[c] + 1>>
    <3>1. calls[c] + 1 \in Nat
      BY <1>0
    <3> QED BY <3>1
  <2> DEFINE V == U \cup {k}
  <2>2. /\ Keys(ToServe') = Keys(ToServe) \cup {k}
        /\ UNCHANGED <<InServer, InReply, respQ, executed>>
        /\ Sent \subseteq Sent' /\ k \in Sent' \ Sent
        /\ c \notin Pending /\ Pending' = Pending \cup {c}
    BY <1>1, <2>1, InvokeMoves
  <2>3. \A d \in Callers : calls'[d] = IF d = c THEN calls[d] + 1 ELSE calls[d]
    BY <1>1, InvokeMoves
  <2>4. k \notin U /\ V \subseteq Sent'
    BY <2>2 DEF Unrun
  <2>5. k[1] = c
    BY <2>1
  <2>6. /\ IsFiniteSet(V) /\ Cardinality(V) = Cardinality(U) + 1
        /\ \A d : Cardinality(Of(V, d)) = Cardinality(Of(U, d)) + (IF d = c THEN 1 ELSE 0)
        /\ \A d : Cardinality(Of(U, d)) \in Nat
    <3>1. IsFiniteSet(U) /\ k \notin U
      BY <2>4 DEF Unrun
    <3>2. IsFiniteSet(V) /\ Cardinality(V) = Cardinality(U) + 1
      BY <3>1, FS_AddElement
    <3>3. ASSUME NEW d
          PROVE  /\ Cardinality(Of(V, d)) = Cardinality(Of(U, d)) + (IF d = k[1] THEN 1 ELSE 0)
                 /\ Cardinality(Of(U, d)) \in Nat
      BY <3>1, OneMore, OfCardinality
    <3> QED BY <2>5, <3>2, <3>3
  <2>7. Keys(ToServe') \cup InServer' \subseteq V
    BY <2>2 DEF Unrun
  <2>8. V \in SUBSET (Callers \X Nat)
    OBVIOUS
  <2> HIDE DEF V
  <2>9. ASSUME NEW d \in Callers PROVE Cardinality(Of(V, d)) = calls'[d] - executed'[d]
    <3>1. /\ Cardinality(Of(U, d)) = calls[d] - executed[d]
          /\ executed'[d] = executed[d] /\ calls[d] \in Nat /\ executed[d] \in Nat
      BY <1>0, <2>2 DEF Unrun
    <3> QED BY <2>3, <2>6, <3>1
  <2>10. Cardinality(V) + Cardinality(InReply') + Len(respQ') <= Cardinality(Pending')
    <3>1. Cardinality(Pending') = Cardinality(Pending) + 1 /\ Cardinality(Pending) \in Nat
      BY <2>2, PendingFinite, FS_AddElement
    <3>2. Cardinality(U) + Cardinality(InReply) + Len(respQ) <= Cardinality(Pending)
      BY DEF Unrun
    <3>3. InReply' = InReply /\ respQ' = respQ
      BY <2>2
    <3> QED BY <1>0, <2>6, <3>1, <3>2, <3>3, InReplyCardinality
  <2>11. Unrun(V)'
    BY <2>4, <2>6, <2>7, <2>9, <2>10 DEF Unrun, V
  <2> QED BY <2>8, <2>11
<1>2. ASSUME RunHandler PROVE \E V \in SUBSET (Callers \X Nat) : Unrun(V)'
  <2>1. /\ InServer = {Key(sbuf.msg)} /\ InServer' = {} /\ InReply = {}
        /\ InReply' = {Key(sbuf.msg)} /\ Key(sbuf.msg)[1] \in Callers
        /\ executed' = [executed EXCEPT ![Key(sbuf.msg)[1]] = @ + 1]
        /\ UNCHANGED <<ToServe, respQ, calls, Sent, Pending>>
    BY <1>2, RunHandlerMoves
  <2>2. PICK k \in U : k = Key(sbuf.msg)
    BY <2>1 DEF Unrun
  <2> DEFINE V == U \ {k}
  <2>3. k \notin Keys(ToServe)
    BY <2>1, <2>2 DEF OnePlace
  <2>4. /\ IsFiniteSet(V) /\ Cardinality(V) = Cardinality(U) - 1
        /\ \A d : Cardinality(Of(V, d)) = Cardinality(Of(U, d)) - (IF d = k[1] THEN 1 ELSE 0)
        /\ \A d : Cardinality(Of(U, d)) \in Nat
    BY OneLess, OfCardinality, FS_RemoveElement DEF Unrun
  <2>5. Keys(ToServe') \cup InServer' \subseteq V /\ V \subseteq Sent'
    BY <2>1, <2>3 DEF Unrun
  <2>6. V \in SUBSET (Callers \X Nat)
    OBVIOUS
  <2> HIDE DEF V
  <2>7. ASSUME NEW d \in Callers PROVE Cardinality(Of(V, d)) = calls'[d] - executed'[d]
    <3>1. /\ Cardinality(Of(U, d)) = calls[d] - executed[d]
          /\ calls'[d] = calls[d] /\ calls[d] \in Nat /\ executed[d] \in Nat
      BY <1>0, <2>1 DEF Unrun
    <3>2. executed'[d] = executed[d] + (IF d = k[1] THEN 1 ELSE 0)
      BY <1>0, <2>1, <2>2
    <3> QED BY <2>4, <3>1, <3>2
  <2>8. Cardinality(V) + Cardinality(InReply') + Len(respQ') <= Cardinality(Pending')
    <3>1. Cardinality(InReply) = 0 /\ Cardinality(InReply') = 1
      BY <2>1, FS_EmptySet, FS_Singleton
    <3>2. Cardinality(U) + Cardinality(InReply) + Len(respQ) <= Cardinality(Pending)
      BY DEF Unrun
    <3> QED BY <1>0, <2>1, <2>4, <3>1, <3>2, PendingFinite
  <2>9. Unrun(V)'
    BY <2>4, <2>5, <2>7, <2>8 DEF Unrun
  <2> QED BY <2>6, <2>9
<1>3. CASE ServerRead
  <2>1. /\ Keys(ToServe') \cup InServer' \subseteq U
        /\ InReply' = InReply /\ UNCHANGED <<respQ, calls, executed, Sent, Pending>>
    BY <1>3, ServerReadMoves DEF Unrun
  <2> QED BY <1>0, <2>1, InReplyCardinality, UnrunKept, PendingFinite
<1>4. CASE ServerWrite
  <2>1. /\ Keys(ToServe') \cup InServer' \subseteq U
        /\ InReply' = {} /\ Cardinality(InReply) = 1 /\ Len(respQ') = Len(respQ) + 1
        /\ UNCHANGED <<calls, executed, Sent, Pending>>
    BY <1>4, ServerWriteMoves DEF Unrun
  <2>2. Cardinality(InReply') = 0
    BY <2>1, FS_EmptySet
  <2> QED BY <1>0, <2>1, <2>2, UnrunKept, PendingFinite
<1>5. ASSUME NEW c \in Callers, ClientRead(c) PROVE Unrun(U)'
  <2>1. /\ UNCHANGED <<ToServe, InServer, InReply, calls, executed, Sent>>
        /\ \/ Len(respQ') <= Len(respQ) /\ Pending' = Pending
           \/ Len(respQ') = Len(respQ) - 1 /\ c \in Pending /\ Pending' = Pending \ {c}
    BY <1>5, ClientReadMoves
  <2>2. Keys(ToServe') \cup InServer' \subseteq U
    BY <2>1 DEF Unrun
  <2>3. Len(respQ') - Cardinality(Pending') <= Len(respQ) - Cardinality(Pending)
    <3>1. CASE c \in Pending /\ Pending' = Pending \ {c}
      <4>1. Cardinality(Pending') = Cardinality(Pending) - 1
        BY <3>1, PendingFinite, FS_RemoveElement
      <4> QED BY <1>0, <2>1, <4>1, PendingFinite, PendingFiniteNext
    <3>2. CASE Pending' = Pending
      BY <1>0, <2>1, <3>2, PendingFinite
    <3> QED BY <2>1, <3>1, <3>2
  <2> QED BY <1>0, <2>1, <2>2, <2>3, InReplyCardinality, UnrunKept, PendingFinite, PendingFiniteNext
<1>6. CASE \/ DropUnreadable \/ RejectRequest \/ PanicUnknown \/ Finished \/ UNCHANGED vars
           \/ \E c \in Callers : InvokeRefused(c) \/ LockRead(c) \/ CtxDone(c)
  <2>1. /\ InServer' \subseteq InServer
        /\ UNCHANGED <<ToServe, InReply, respQ, calls, executed, Sent, Pending>>
    BY <1>6, OthersMove
  <2>2. Keys(ToServe') \cup InServer' \subseteq U
    BY <2>1 DEF Unrun
  <2> QED BY <1>0, <2>1, <2>2, InReplyCardinality, UnrunKept, PendingFinite
<1> QED BY <1>1, <1>2, <1>3, <1>4, <1>5, <1>6 DEF Next, ServerStep

-----------------------------------------------------------------------------
(* A call spreads no further than where it is.                             *)

Places == Keys(ToServe) \cup InServer \cup InReply \cup Keys(ToRead)

LEMMA QuietPlaces ==
  ASSUME IInv, \A c \in Callers : cpc[c] = "idle" PROVE Places = {}
<1>1. reqQ = <<>> /\ respQ = <<>> /\ spc = "reading" /\ sbuf = EmptyBuf
  BY QuietFromInv DEF QuietChannel
<1>2. reqOff = 0 /\ respOff = 0
  BY <1>1, QueueFacts DEF IInv
<1>3. Keys(ToServe) = {} /\ Keys(ToRead) = {}
  BY <1>1, <1>2 DEF Keys, ToServe, ToRead, Rest
<1>4. InServer = {} /\ InReply = {}
  BY <1>1, EmptyKey DEF InServer, InReply
<1> QED BY <1>3, <1>4 DEF Places

\* But for a new call, steps bring no call into the channel, and give only to
\* callers inside Invoke, of what was there.
LEMMA NoCallSpreads ==
  ASSUME IInv, [Next]_vars, \A c \in Callers : ~Invoke(c)
  PROVE  /\ Places' \subseteq Places /\ calls' = calls
         /\ \A c \in Callers :
              Taken(c)' \subseteq Taken(c) \cup (IF cpc[c] = "idle" THEN {} ELSE Places)
<1> USE DEF Places
<1>1. CASE RunHandler
  BY <1>1, RunHandlerMoves
<1>2. CASE ServerRead
  BY <1>2, ServerReadMoves
<1>3. CASE ServerWrite
  BY <1>3, ServerWriteMoves
<1>4. ASSUME NEW c \in Callers, ClientRead(c)
      PROVE  /\ Places' \subseteq Places /\ calls' = calls
             /\ \A d \in Callers :
                  Taken(d)' \subseteq Taken(d) \cup (IF cpc[d] = "idle" THEN {} ELSE Places)
  <2>1. cpc[c] # "idle"
    BY <1>4 DEF ClientRead
  <2> QED BY <1>4, <2>1, ClientReadMoves
<1>5. CASE \/ DropUnreadable \/ RejectRequest \/ PanicUnknown \/ Finished \/ UNCHANGED vars
           \/ \E c \in Callers : InvokeRefused(c) \/ LockRead(c) \/ CtxDone(c)
  BY <1>5, OthersMove
<1> QED BY <1>1, <1>2, <1>3, <1>4, <1>5 DEF Next, ServerStep

-----------------------------------------------------------------------------
(* The theorems.                                                           *)

LEMMA SharingInit == Init => SharingInv
BY OnePlaceInit, UnrunInit DEF SharingInv

LEMMA SharingStep == IInv /\ IInv' /\ SharingInv /\ [Next]_vars => SharingInv'
<1> SUFFICES ASSUME IInv, IInv', SharingInv, [Next]_vars PROVE SharingInv'
  OBVIOUS
<1>1. OnePlace'
  BY OnePlaceStep DEF SharingInv
<1>2. PICK U \in SUBSET (Callers \X Nat) : Unrun(U)
  BY DEF SharingInv
<1>3. \E V \in SUBSET (Callers \X Nat) : Unrun(V)'
  BY <1>2, UnrunStep DEF SharingInv
<1> QED BY <1>1, <1>3 DEF SharingInv

LEMMA SharingAlways == Spec => []SharingInv
BY SharingInit, SharingStep, Inductive, PTL DEF Spec

LEMMA OneTakerFromInv == IInv /\ SharingInv => OneTaker
<1> SUFFICES ASSUME IInv, SharingInv, NEW c \in Callers, NEW d \in Callers,
                    ret[c].tag = "reply", ret[d].tag = "reply", c # d
             PROVE  Key(ret[c].msg) # Key(ret[d].msg)
  BY DEF OneTaker, Key
<1>1. \A e \in Callers : ret[e].tag = "reply" => KeyOf(ret[e]) = {Key(ret[e].msg)}
  <2> SUFFICES ASSUME NEW e \in Callers, ret[e].tag = "reply"
               PROVE  KeyOf(ret[e]) = {Key(ret[e].msg)}
    OBVIOUS
  <2>1. ret[e] \in Returns
    BY DEF IInv, TInv, TypeOK
  <2>2. ret[e].msg \in Replies
    BY <2>1 DEF Returns
  <2>3. ret[e].msg \notin {NoMsg, Torn}
    BY <2>2, NoMsgOK
  <2> QED BY <2>3 DEF KeyOf
<1>2. KeyOf(ret[c]) \cap KeyOf(ret[d]) = {}
  BY DEF SharingInv, OnePlace, Taken
<1> QED BY <1>1, <1>2

\* However the reads of goroutines that share a channel interleave, a response
\* is never returned to two of them, for any sizes and buffers.
THEOREM NoReplyTwice == Spec => []OneTaker
BY SharingAlways, Inductive, OneTakerFromInv, PTL

LEMMA RanOnceFromInv == IInv /\ SharingInv => RanOnce
<1> SUFFICES ASSUME IInv, SharingInv PROVE RanOnce
  OBVIOUS
<1>1. PICK U \in SUBSET (Callers \X Nat) : Unrun(U)
  BY DEF SharingInv
<1>2. /\ calls \in [Callers -> Nat] /\ executed \in [Callers -> Nat]
      /\ Len(respQ) \in Nat /\ Cardinality(U) \in Nat
  BY <1>1, LenProperties, FS_CardinalityType DEF Unrun, IInv, TInv, TypeOK
<1>3. ASSUME NEW c \in Callers PROVE executed[c] <= calls[c]
  <2>1. Cardinality(Of(U, c)) \in Nat /\ Cardinality(Of(U, c)) = calls[c] - executed[c]
    BY <1>1, OfCardinality DEF Unrun
  <2> QED BY <1>2, <2>1
<1>4. ASSUME \A c \in Callers : cpc[c] = "idle" PROVE executed = calls
  <2>1. Cardinality(Pending) = 0
    BY <1>4, FS_EmptySet DEF Pending
  <2>2. Cardinality(U) = 0
    BY <1>1, <1>2, <2>1, InReplyCardinality DEF Unrun
  <2>21. U = {}
    BY <1>1, <2>2, FS_EmptySet DEF Unrun
  <2>3. \A c \in Callers : calls[c] - executed[c] = 0
    <3>1. \A c : Of(U, c) = {}
      BY <2>21 DEF Of
    <3> QED BY <1>1, <3>1, FS_EmptySet DEF Unrun
  <2>4. \A c \in Callers : calls[c] = executed[c]
    BY <1>2, <2>3
  <2> QED BY <1>2, <2>4
<1> QED BY <1>3, <1>4 DEF RanOnce

\* However calls overlap, and whether the server drops requests or goes down,
\* methods run at most once for a call; and a channel at rest has lost none.
THEOREM MethodsRunOnce == Spec => []RanOnce
BY SharingAlways, Inductive, RanOnceFromInv, PTL
=============================================================================
