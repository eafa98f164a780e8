------------------------- MODULE CallMetadataProofs --------------------------
(***************************************************************************)
(* What TLAPS proves about CallMetadata, for any names, values, addresses  *)
(* and goroutines, and for any number of headers and trailers: what the    *)
(* caller gave is what the method sees, and what the method set is what    *)
(* the caller finds, however goroutines of the method go on setting.       *)
(***************************************************************************)
EXTENDS CallMetadata, MetadataProofs

\* Nothing but the addresses holds a value of an earlier call.
Current == Givers \ {"earlier"}
Md      == MetadataOf(Current)

Phases == {"idle", "sent", "dropped", "running", "returned", "headers",
           "between", "trailers", "replied", "done"}

TInv ==
  /\ up \in BOOLEAN /\ hdrsSent \in BOOLEAN
  /\ phase \in Phases
  /\ outMD \in Md /\ inMD \in Md /\ hdrs \in Md /\ tlrs \in Md /\ ranging \in Md
  /\ atReturn \in [hdrs : Md, tlrs : Md, sent : BOOLEAN]
  /\ wire \in HeadersOf(Current)
  /\ sets \in 0 .. MaxSets
  /\ raced \subseteq {"headers", "trailers"}
  /\ ret \in {"none", "ok", "err"}

\* Every name has in `b' the values it has in `a', and maybe more behind them.
Begins(a, b) ==
  \A n \in Names : Len(a[n]) <= Len(b[n]) /\ \A i \in 1 .. Len(a[n]) : b[n][i] = a[n][i]
Within(a, m, b) == Begins(a, m) /\ Begins(m, b)

\* The request carries the call's metadata, and is never dropped.
RequestInv ==
  /\ phase # "dropped"
  /\ phase \in {"sent", "running"} => wire = Request(outMD)
  /\ phase = "running" => inMD = AsMetadata(wire)

\* The stream only grows, and not at all in headers that have been sent; a map
\* is written to while it is ranged over only from handleMethod's first range on.
StreamInv ==
  /\ Begins(atReturn.hdrs, hdrs) /\ Begins(atReturn.tlrs, tlrs)
  /\ phase \in {"idle", "sent", "running", "returned"} => raced = {}
  /\ atReturn.sent => hdrsSent /\ hdrs = atReturn.hdrs /\ "headers" \notin raced
  /\ phase = "headers"  => Within(atReturn.hdrs, ranging, hdrs)
  /\ phase = "trailers" => Within(atReturn.tlrs, ranging, tlrs)

\* The response is made of the headers and trailers of some moments after the
\* method returned, if their maps were not written to while they were read.
WireInv ==
  /\ phase \in {"returned", "headers"} => wire = None
  /\ phase \in {"between", "trailers"} /\ "headers" \notin raced =>
       \E h \in Md : Within(atReturn.hdrs, h, hdrs) /\ wire = ToHeaders(h, None, 0)
  /\ (phase = "replied" \/ ret = "ok") /\ "headers" \notin raced =>
       \E h, t \in Md : /\ Within(atReturn.hdrs, h, hdrs)
                        /\ "trailers" \notin raced => Within(atReturn.tlrs, t, tlrs)
                        /\ wire = Response(h, t)

\* The addresses hold what they held, or all of them what the response brings.
Untouched == [a \in Addrs |-> Stale]
Filled    == [a \in Addrs |-> IF a \in HdrAddrs THEN HeaderPart(AsMetadata(wire))
                                                ELSE TrailerPart(AsMetadata(wire))]
AddrInv ==
  /\ phase # "done" => ret = "none" /\ addr = Untouched
  /\ ret = "ok" => addr = Filled
  /\ addr \in {Untouched, Filled}

IInv == TInv /\ RequestInv /\ StreamInv /\ WireInv /\ AddrInv

-----------------------------------------------------------------------------
(* Metadata that grows.                                                    *)

LEMMA MdSeq ==
  ASSUME NEW G, NEW a \in MetadataOf(G), NEW n \in Names
  PROVE  /\ a[n] \in Seq(PlainOf(G)) /\ Len(a[n]) \in Nat /\ DOMAIN a[n] = 1 .. Len(a[n])
         /\ \A i \in 1 .. Len(a[n]) : a[n][i] \in PlainOf(G)
<1>1. a[n] \in Seq(PlainOf(G))
  BY DEF MetadataOf
<1> QED BY <1>1, LenProperties, ElementOfSeq

LEMMA BeginsItself == ASSUME NEW G, NEW a \in MetadataOf(G) PROVE Begins(a, a)
BY MdSeq DEF Begins

LEMMA BeginsOn ==
  ASSUME NEW G, NEW a \in MetadataOf(G), NEW b \in MetadataOf(G), NEW c \in MetadataOf(G),
         Begins(a, b), Begins(b, c)
  PROVE  Begins(a, c)
<1> SUFFICES ASSUME NEW n \in Names
             PROVE  Len(a[n]) <= Len(c[n]) /\ \A i \in 1 .. Len(a[n]) : c[n][i] = a[n][i]
  BY DEF Begins
<1>1. Len(a[n]) \in Nat /\ Len(b[n]) \in Nat /\ Len(c[n]) \in Nat
  BY MdSeq
<1>2. Len(a[n]) <= Len(b[n]) /\ \A i \in 1 .. Len(a[n]) : b[n][i] = a[n][i]
  BY DEF Begins
<1>3. Len(b[n]) <= Len(c[n]) /\ \A i \in 1 .. Len(b[n]) : c[n][i] = b[n][i]
  BY DEF Begins
<1> QED BY <1>1, <1>2, <1>3

LEMMA JoinGrows ==
  ASSUME NEW G, NEW a \in MetadataOf(G), NEW b \in MetadataOf(G)
  PROVE  Join(a, b) \in MetadataOf(G) /\ Begins(a, Join(a, b))
<1>1. ASSUME NEW n \in Names
      PROVE  /\ a[n] \o b[n] \in Seq(PlainOf(G)) /\ Len(a[n]) <= Len(a[n] \o b[n])
             /\ \A i \in 1 .. Len(a[n]) : (a[n] \o b[n])[i] = a[n][i]
  <2> DEFINE s == a[n]
             t == b[n]
  <2>1. s \in Seq(PlainOf(G)) /\ t \in Seq(PlainOf(G)) /\ Len(s) \in Nat /\ Len(t) \in Nat
    BY MdSeq
  <2> HIDE DEF s, t
  <2>2. /\ s \o t \in Seq(PlainOf(G)) /\ Len(s \o t) = Len(s) + Len(t)
        /\ \A i \in 1 .. Len(s) + Len(t) : (s \o t)[i] = IF i <= Len(s) THEN s[i] ELSE t[i - Len(s)]
    BY <2>1, ConcatProperties
  <2>3. \A i \in 1 .. Len(s) : i \in 1 .. Len(s) + Len(t) /\ i <= Len(s)
    BY <2>1
  <2>4. Len(s) <= Len(s \o t) /\ \A i \in 1 .. Len(s) : (s \o t)[i] = s[i]
    BY <2>1, <2>2, <2>3
  <2> QED BY <2>2, <2>4 DEF s, t
<1>2. \A n \in Names : Join(a, b)[n] = a[n] \o b[n]
  BY DEF Join
<1> QED BY <1>1, <1>2 DEF Join, MetadataOf, Begins

LEMMA PairType ==
  ASSUME NEW G, NEW v \in PlainOf(G), NEW n PROVE Pair(n, v) \in MetadataOf(G)
<1>1. <<v>> \in Seq(PlainOf(G)) /\ None \in [Names -> Seq(PlainOf(G))]
  BY NoneType DEF MetadataOf
<1> QED BY <1>1 DEF Pair, MetadataOf

LEMMA NewValue ==
  ASSUME NEW g \in Current, NEW k \in Nat, NEW s \in BOOLEAN
  PROVE  Value(g, k, s) \in PlainOf(Current)
BY DEF Value, PlainOf, ValuesOf, Values, Current, Givers

LEMMA PartsType ==
  ASSUME NEW G, NEW md \in MetadataOf(G)
  PROVE  HeaderPart(md) \in MetadataOf(G) /\ TrailerPart(md) \in MetadataOf(G)
<1>1. \A n \in Names : md[n] \in Seq(PlainOf(G))
  BY DEF MetadataOf
<1>2. <<>> \in Seq(PlainOf(G))
  BY EmptySeq
<1>3. \A n \in Names : n.pre < MaxPre => [n EXCEPT !.pre = @ + 1] \in Names
  BY MetadataOK DEF Names, MetadataOK
<1> QED BY <1>1, <1>2, <1>3 DEF HeaderPart, TrailerPart, MetadataOf

\* Metadata of some moment in between has of each name a beginning.
LEMMA WithinBetween ==
  ASSUME NEW G, NEW a \in MetadataOf(G), NEW m \in MetadataOf(G), NEW b \in MetadataOf(G),
         Within(a, m, b), NEW n \in Names
  PROVE  m[n] \in Between(b[n], Len(a[n]), Len(b[n]))
<1> DEFINE s == m[n]
           t == b[n]
<1>1. /\ s \in Seq(PlainOf(G)) /\ t \in Seq(PlainOf(G))
      /\ Len(s) \in Nat /\ Len(t) \in Nat /\ Len(a[n]) \in Nat
      /\ \A i \in 1 .. Len(t) : t[i] \in PlainOf(G)
  BY MdSeq
<1>2. Len(a[n]) <= Len(s) /\ Len(s) <= Len(t) /\ \A i \in 1 .. Len(s) : t[i] = s[i]
  BY DEF Within, Begins
<1> HIDE DEF s, t
<1> DEFINE u == SubSeq(t, 1, Len(s))
<1>3. \A i \in 1 .. Len(s) : t[i] \in PlainOf(G)
  BY <1>1, <1>2
<1>4. /\ u \in Seq(PlainOf(G))
      /\ Len(u) = IF 1 <= Len(s) THEN Len(s) - 1 + 1 ELSE 0
      /\ \A i \in 1 .. Len(s) - 1 + 1 : u[i] = t[1 + i - 1]
  BY <1>1, <1>3, SubSeqProperties
<1> HIDE DEF u
<1>5. Len(u) = Len(s) /\ \A i \in 1 .. Len(s) : u[i] = t[i]
  BY <1>1, <1>4
<1>6. s = u
  BY <1>1, <1>2, <1>4, <1>5, SeqEqual
<1>7. Len(s) \in Len(a[n]) .. Len(t)
  BY <1>1, <1>2
<1> QED BY <1>6, <1>7 DEF Between, s, t, u

\* Ranging over a map finds metadata, that of one moment if nobody wrote to it.
LEMMA FoundType ==
  ASSUME NEW m, NEW now \in Md, ranging \in Md, NEW h \in Found(m, now)
  PROVE  h \in Md /\ (m \notin raced => h = ranging)
<1> DEFINE written == {n \in Names : m \in raced /\ now[n] # ranging[n]}
           Read(n) == Between(now[n], Len(ranging[n]), Len(now[n])) \cup {Torn(ranging[n])}
<1>1. PICK f \in [written -> UNION {Read(n) : n \in written}] :
        /\ \A n \in written : f[n] \in Read(n)
        /\ h = [n \in Names |-> IF n \in written THEN f[n] ELSE ranging[n]]
  BY DEF Found
<1>2. ASSUME NEW n \in Names PROVE Read(n) \subseteq Seq(PlainOf(Current))
  <2>1. /\ now[n] \in Seq(PlainOf(Current)) /\ Len(now[n]) \in Nat
        /\ ranging[n] \in Seq(PlainOf(Current)) /\ Len(ranging[n]) \in Nat
        /\ \A i \in 1 .. Len(now[n]) : now[n][i] \in PlainOf(Current)
    BY MdSeq DEF Md
  <2>2. ASSUME NEW k \in Len(ranging[n]) .. Len(now[n])
        PROVE  SubSeq(now[n], 1, k) \in Seq(PlainOf(Current))
    <3>1. k \in Int /\ \A i \in 1 .. k : now[n][i] \in PlainOf(Current)
      BY <2>1
    <3> QED BY <3>1, SubSeqProperties
  <2>3. Torn(ranging[n]) \in Seq(PlainOf(Current))
    <3>1. Value("torn", 0, FALSE) \in PlainOf(Current)
      BY NewValue DEF Current, Givers
    <3> QED BY <2>1, <3>1, AppendProperties DEF Torn
  <2> QED BY <2>2, <2>3 DEF Between
<1>3. \A n \in Names : ranging[n] \in Seq(PlainOf(Current))
  BY DEF Md, MetadataOf
<1>4. h \in Md
  <2>1. \A n \in written : f[n] \in Seq(PlainOf(Current))
    BY <1>1, <1>2
  <2> HIDE DEF written
  <2> QED BY <1>1, <1>3, <2>1 DEF Md, MetadataOf
<1>5. ASSUME m \notin raced PROVE h = ranging
  <2>1. written = {}
    BY <1>5
  <2> HIDE DEF written
  <2>2. h = [n \in Names |-> ranging[n]]
    BY <1>1, <2>1
  <2> QED BY <2>2 DEF Md, MetadataOf
<1> QED BY <1>4, <1>5

-----------------------------------------------------------------------------
(* What any setter of the stream does.                                     *)

SetterCalled == \E g \in Late \cup {"method"} :
                  SetHeaderCalled(g) \/ SendHeaderCalled(g) \/ SetTrailerCalled(g)

LEMMA SetterMoves ==
  ASSUME TInv, SetterCalled
  PROVE  /\ phase \in {"running", "returned", "headers", "between", "trailers", "replied"}
         /\ hdrs' \in Md /\ tlrs' \in Md /\ Begins(hdrs, hdrs') /\ Begins(tlrs, tlrs')
         /\ hdrsSent' \in BOOLEAN /\ sets' \in 0 .. MaxSets
         /\ hdrsSent => /\ hdrsSent' /\ hdrs' = hdrs
                        /\ "headers" \in raced' => "headers" \in raced
         /\ raced \subseteq raced' /\ raced' \subseteq raced \cup ({phase} \cap {"headers", "trailers"})
         /\ UNCHANGED <<up, phase, wire, ranging, atReturn, context, caller>>
<1>0. hdrs \in Md /\ tlrs \in Md /\ sets \in Nat /\ MaxSets \in Nat /\ hdrsSent \in BOOLEAN
  BY CallMetadataOK DEF TInv, CallMetadataOK
<1>1. ASSUME NEW n, NEW s \in BOOLEAN
      PROVE  Pair(n, Value("method", sets + 1, s)) \in Md
  BY <1>0, NewValue, PairType DEF Md, Current, Givers
<1>2. PICK g \in Late \cup {"method"} :
        SetHeaderCalled(g) \/ SendHeaderCalled(g) \/ SetTrailerCalled(g)
  BY DEF SetterCalled
<1>3. PICK n \in RespNames, s \in BOOLEAN :
        LET md == Pair(n, Value("method", sets + 1, s))
        IN  SetHeader(md) \/ SendHeader(md) \/ SetTrailer(md)
  BY <1>2 DEF SetHeaderCalled, SendHeaderCalled, SetTrailerCalled, Takes
<1>4. PICK md \in Md : SetHeader(md) \/ SendHeader(md) \/ SetTrailer(md)
  BY <1>1, <1>3
<1>5. /\ sets' = sets + 1 /\ sets < MaxSets
      /\ phase \in {"running", "returned", "headers", "between", "trailers", "replied"}
      /\ UNCHANGED <<up, phase, wire, ranging, atReturn, context, caller>>
  BY <1>2 DEF SetHeaderCalled, SendHeaderCalled, SetTrailerCalled, Takes, MayUse
<1>6. Join(hdrs, md) \in Md /\ Begins(hdrs, Join(hdrs, md)) /\ Begins(hdrs, hdrs)
  BY <1>0, JoinGrows, BeginsItself DEF Md
<1>7. Join(tlrs, md) \in Md /\ Begins(tlrs, Join(tlrs, md)) /\ Begins(tlrs, tlrs)
  BY <1>0, JoinGrows, BeginsItself DEF Md
<1>8. /\ hdrs' \in {hdrs, Join(hdrs, md)} /\ tlrs' \in {tlrs, Join(tlrs, md)}
      /\ hdrsSent => hdrs' = hdrs
  BY <1>4 DEF SetHeader, SendHeader, SetHeaderLocked, SetTrailer
<1>9. hdrsSent' \in BOOLEAN /\ (hdrsSent => hdrsSent')
  BY <1>0, <1>4 DEF SetHeader, SendHeader, SetHeaderLocked, SetTrailer
<1>10. /\ raced' \in {raced \cup Races("headers"), raced \cup Races("trailers")}
       /\ hdrsSent => raced' = raced \cup Races("trailers")
  BY <1>4 DEF SetHeader, SendHeader, SetHeaderLocked, SetTrailer
<1>11. /\ raced \subseteq raced' /\ raced' \subseteq raced \cup ({phase} \cap {"headers", "trailers"})
       /\ hdrsSent /\ "headers" \in raced' => "headers" \in raced
  BY <1>10 DEF Races
<1>12. sets' \in 0 .. MaxSets
  BY <1>0, <1>5
<1>13. hdrs' \in Md /\ tlrs' \in Md /\ Begins(hdrs, hdrs') /\ Begins(tlrs, tlrs')
  BY <1>0, <1>6, <1>7, <1>8
<1> QED BY <1>5, <1>8, <1>9, <1>11, <1>12, <1>13

-----------------------------------------------------------------------------
(* The invariant.                                                          *)

LEMMA MetadataInit == Init => IInv
<1> SUFFICES ASSUME Init PROVE IInv
  OBVIOUS
<1>1. None \in Md /\ None \in HeadersOf(Current) /\ Begins(None, None)
  BY NoneType, BeginsItself DEF Md
<1>2. 0 \in 0 .. MaxSets
  BY CallMetadataOK DEF CallMetadataOK
<1>3. TInv
  BY <1>1, <1>2 DEF Init, TInv, Phases
<1>4. RequestInv /\ AddrInv
  BY DEF Init, RequestInv, AddrInv, Untouched
<1>5. StreamInv /\ WireInv
  BY <1>1 DEF Init, StreamInv, WireInv
<1> QED BY <1>3, <1>4, <1>5 DEF IInv

LEMMA GivenType ==
  ASSUME NEW g \in Current, NEW md \in Given(g) PROVE md \in Md
<1>1. CASE md = None
  BY <1>1, NoneType DEF Md
<1>2. ASSUME NEW n \in ReqNames, NEW s \in BOOLEAN, md = Pair(n, Value(g, 0, s)) PROVE md \in Md
  BY <1>2, NewValue, PairType DEF Md
<1> QED BY <1>1, <1>2 DEF Given

\* What is sent, and read at the other side, is of this call.
LEMMA InvokeMoves ==
  ASSUME Invoke PROVE outMD' \in Md /\ wire' = Request(outMD') /\ wire' \in HeadersOf(Current)
<1>1. PICK ctx \in Given("context"), creds \in Given("creds") :
        outMD' = Join(ctx, creds) /\ wire' = OnWire(SetContentType(ToHeaders(outMD', None, 0)))
  BY DEF Invoke
<1>2. ctx \in Md /\ creds \in Md
  BY GivenType DEF Current, Givers
<1>3. outMD' \in Md
  BY <1>1, <1>2, JoinGrows DEF Md
<1>4. \A md \in Md : Request(md) \in HeadersOf(Current)
  BY RequestReceived DEF Md, Current, Givers
<1> QED BY <1>1, <1>3, <1>4 DEF Request

LEMMA TypeStep == ASSUME TInv, [Next]_vars PROVE TInv'
<1> USE DEF TInv, Phases
<1>0. None \in Md /\ None \in HeadersOf(Current) /\ "codec" \in Current
  BY NoneType DEF Md, Current, Givers
<1>1. CASE Invoke
  BY <1>1, InvokeMoves DEF Invoke, stream, caller
<1>2. CASE CredsFail \/ RaceDetected \/ ResponseUnreadable
  BY <1>2 DEF CredsFail, RaceDetected, ResponseUnreadable, stream, context, caller
<1>3. CASE MethodStarts
  <2>1. AsMetadata(wire) \in Md
    BY WireReceived DEF Md
  <2> QED BY <1>3, <2>1 DEF MethodStarts, stream, caller
<1>4. CASE SetterCalled
  BY <1>4, SetterMoves DEF context, caller
<1>5. CASE MethodReturns
  BY <1>0, <1>5 DEF MethodReturns, stream, caller
<1>6. CASE GetHeaders \/ GetTrailers
  BY <1>6 DEF GetHeaders, GetTrailers, stream, context, caller
<1>7. CASE HeadersConverted
  <2>1. PICK h \in Found("headers", hdrs) : wire' = ToHeaders(h, wire, 0)
    BY <1>7 DEF HeadersConverted
  <2>2. wire' \in HeadersOf(Current)
    BY <2>1, FoundType, ToHeadersAdds DEF Md
  <2> QED BY <1>7, <2>2 DEF HeadersConverted, stream, context, caller
<1>8. CASE TrailersConverted
  <2>1. PICK t \in Found("trailers", tlrs) :
          wire' = OnWire(SetContentType(ToHeaders(t, wire, 1)))
    BY <1>8 DEF TrailersConverted
  <2>2. ToHeaders(t, wire, 1) \in HeadersOf(Current)
    BY <2>1, FoundType, ToHeadersAdds DEF Md
  <2>3. wire' \in HeadersOf(Current)
    BY <1>0, <2>1, <2>2, ContentTypeSet, WireReceived
  <2> QED BY <1>8, <2>3 DEF TrailersConverted, stream, context, caller
<1>9. CASE ClientReturns
  BY <1>9 DEF ClientReturns, stream, context
<1>10. CASE UNCHANGED vars
  BY <1>10 DEF vars, stream, context, caller
<1> QED BY <1>1, <1>2, <1>3, <1>4, <1>5, <1>6, <1>7, <1>8, <1>9, <1>10 DEF Next, SetterCalled

\* No metadata that headers can hold makes the request unreadable.
LEMMA RequestStep == ASSUME TInv, RequestInv, [Next]_vars PROVE RequestInv'
<1> USE DEF RequestInv
<1>1. CASE Invoke
  BY <1>1, InvokeMoves DEF Invoke
<1>2. CASE CredsFail
  BY <1>2 DEF CredsFail
<1>3. CASE MethodStarts
  <2>1. Decodes(wire)
    BY <1>3, RequestReceived DEF MethodStarts, TInv, Md, Current, Givers
  <2> QED BY <1>3, <2>1 DEF MethodStarts
<1>4. CASE SetterCalled
  BY <1>4, SetterMoves DEF context, Request
<1>5. CASE \/ MethodReturns \/ GetHeaders \/ HeadersConverted \/ GetTrailers \/ TrailersConverted
           \/ ClientReturns \/ ResponseUnreadable
  BY <1>5 DEF MethodReturns, GetHeaders, HeadersConverted, GetTrailers, TrailersConverted,
              ClientReturns, ResponseUnreadable
<1>6. CASE RaceDetected \/ UNCHANGED vars
  BY <1>6 DEF RaceDetected, vars, context, Request
<1> QED BY <1>1, <1>2, <1>3, <1>4, <1>5, <1>6 DEF Next, SetterCalled

LEMMA StreamStep == ASSUME TInv, StreamInv, [Next]_vars PROVE StreamInv'
<1>0. /\ hdrs \in Md /\ tlrs \in Md /\ ranging \in Md /\ atReturn.hdrs \in Md /\ atReturn.tlrs \in Md
      /\ Begins(hdrs, hdrs) /\ Begins(tlrs, tlrs)
  BY BeginsItself DEF TInv, Md
<1>1. CASE SetterCalled
  <2>1. hdrs' \in Md /\ tlrs' \in Md /\ Begins(hdrs, hdrs') /\ Begins(tlrs, tlrs')
    BY <1>1, SetterMoves
  <2>2. Begins(atReturn.hdrs, hdrs') /\ Begins(atReturn.tlrs, tlrs')
    BY <1>0, <2>1, BeginsOn DEF StreamInv, Md
  <2>3. /\ phase = "headers" => Within(atReturn.hdrs, ranging, hdrs')
        /\ phase = "trailers" => Within(atReturn.tlrs, ranging, tlrs')
    BY <1>0, <2>1, BeginsOn DEF StreamInv, Within, Md
  <2>4. phase \in {"idle", "sent", "running", "returned"} => raced' = {}
    BY <1>1, SetterMoves DEF StreamInv
  <2>5. atReturn.sent => hdrsSent' /\ hdrs' = atReturn.hdrs /\ "headers" \notin raced'
    BY <1>1, SetterMoves DEF StreamInv
  <2>6. phase' = phase /\ atReturn' = atReturn /\ ranging' = ranging
    BY <1>1, SetterMoves
  <2> QED BY <2>2, <2>3, <2>4, <2>5, <2>6 DEF StreamInv, Within, Begins
<1>2. CASE MethodReturns
  BY <1>0, <1>2 DEF MethodReturns, stream, StreamInv, TInv
<1>3. CASE GetHeaders \/ GetTrailers
  BY <1>0, <1>3 DEF GetHeaders, GetTrailers, stream, StreamInv, Within
<1>4. CASE \/ Invoke \/ CredsFail \/ MethodStarts \/ HeadersConverted \/ TrailersConverted
           \/ ClientReturns \/ ResponseUnreadable
  BY <1>4 DEF Invoke, CredsFail, MethodStarts, HeadersConverted, TrailersConverted,
              ClientReturns, ResponseUnreadable, stream, StreamInv
<1>5. CASE RaceDetected \/ UNCHANGED vars
  BY <1>5 DEF RaceDetected, vars, stream, StreamInv, Within
<1> QED BY <1>1, <1>2, <1>3, <1>4, <1>5 DEF Next, SetterCalled

LEMMA WireStep == ASSUME TInv, StreamInv, WireInv, AddrInv, [Next]_vars PROVE WireInv'
<1>0. /\ hdrs \in Md /\ tlrs \in Md /\ ranging \in Md /\ atReturn.hdrs \in Md /\ atReturn.tlrs \in Md
      /\ phase # "done" => ret = "none"
  BY DEF TInv, AddrInv
<1>1. CASE SetterCalled
  <2>1. /\ hdrs' \in Md /\ tlrs' \in Md /\ Begins(hdrs, hdrs') /\ Begins(tlrs, tlrs')
        /\ raced \subseteq raced' /\ phase # "done"
        /\ UNCHANGED <<phase, wire, atReturn, ret>>
    BY <1>1, SetterMoves DEF caller
  <2>2. \A h \in Md : Within(atReturn.hdrs, h, hdrs) => Within(atReturn.hdrs, h, hdrs')
    BY <1>0, <2>1, BeginsOn DEF Within, Md
  <2>3. \A t \in Md : Within(atReturn.tlrs, t, tlrs) => Within(atReturn.tlrs, t, tlrs')
    BY <1>0, <2>1, BeginsOn DEF Within, Md
  <2>4. phase \in {"returned", "headers"} => wire = None
    BY DEF WireInv
  <2>5. phase \in {"between", "trailers"} /\ "headers" \notin raced' =>
          \E h \in Md : Within(atReturn.hdrs, h, hdrs') /\ wire = ToHeaders(h, None, 0)
    BY <2>1, <2>2 DEF WireInv
  <2>6. phase = "replied" /\ "headers" \notin raced' =>
          \E h, t \in Md : /\ Within(atReturn.hdrs, h, hdrs')
                           /\ "trailers" \notin raced' => Within(atReturn.tlrs, t, tlrs')
                           /\ wire = Response(h, t)
    <3> SUFFICES ASSUME phase = "replied", "headers" \notin raced'
                 PROVE  \E h, t \in Md : /\ Within(atReturn.hdrs, h, hdrs')
                                         /\ "trailers" \notin raced' => Within(atReturn.tlrs, t, tlrs')
                                         /\ wire = Response(h, t)
      OBVIOUS
    <3>1. PICK h \in Md, t \in Md :
            /\ Within(atReturn.hdrs, h, hdrs)
            /\ "trailers" \notin raced => Within(atReturn.tlrs, t, tlrs)
            /\ wire = Response(h, t)
      BY <2>1 DEF WireInv
    <3> QED BY <2>1, <2>2, <2>3, <3>1
  <2>7. ret' = "none"
    BY <1>0, <2>1
  <2> QED BY <2>1, <2>4, <2>5, <2>6, <2>7 DEF WireInv, Within
<1>2. CASE Invoke \/ CredsFail \/ MethodStarts
  BY <1>0, <1>2 DEF Invoke, CredsFail, MethodStarts, WireInv, caller
<1>3. CASE MethodReturns
  BY <1>0, <1>3 DEF MethodReturns, WireInv, caller
<1>4. CASE GetHeaders \/ GetTrailers
  BY <1>0, <1>4 DEF GetHeaders, GetTrailers, WireInv, caller, stream
<1>5. CASE HeadersConverted
  <2>1. PICK h \in Found("headers", hdrs) : wire' = ToHeaders(h, wire, 0)
    BY <1>5 DEF HeadersConverted
  <2>2. phase = "headers" /\ phase' = "between" /\ UNCHANGED <<hdrs, raced, atReturn, ret>>
    BY <1>5 DEF HeadersConverted, caller, stream
  <2>3. h \in Md /\ ("headers" \notin raced => h = ranging)
    BY <1>0, <2>1, FoundType
  <2>4. wire' = ToHeaders(h, None, 0)
    BY <2>1, <2>2 DEF WireInv
  <2>5. "headers" \notin raced => Within(atReturn.hdrs, h, hdrs)
    BY <2>2, <2>3 DEF StreamInv
  <2> QED BY <1>0, <2>2, <2>3, <2>4, <2>5 DEF WireInv
<1>6. CASE TrailersConverted
  <2>1. PICK t \in Found("trailers", tlrs) : wire' = OnWire(SetContentType(ToHeaders(t, wire, 1)))
    BY <1>6 DEF TrailersConverted
  <2>2. phase = "trailers" /\ phase' = "replied" /\ UNCHANGED <<hdrs, tlrs, raced, atReturn, ret>>
    BY <1>6 DEF TrailersConverted, caller, stream
  <2>3. t \in Md /\ ("trailers" \notin raced => Within(atReturn.tlrs, t, tlrs))
    BY <1>0, <2>1, <2>2, FoundType DEF StreamInv
  <2>4. ASSUME "headers" \notin raced
        PROVE  \E h \in Md : Within(atReturn.hdrs, h, hdrs) /\ wire' = Response(h, t)
    <3>1. PICK h \in Md : Within(atReturn.hdrs, h, hdrs) /\ wire = ToHeaders(h, None, 0)
      BY <2>2, <2>4 DEF WireInv
    <3> QED BY <2>1, <3>1 DEF Response
  <2> QED BY <1>0, <2>2, <2>3, <2>4 DEF WireInv
<1>7. CASE ClientReturns
  BY <1>7 DEF ClientReturns, WireInv, stream
<1>8. CASE ResponseUnreadable
  BY <1>8 DEF ResponseUnreadable, WireInv, stream
<1>9. CASE RaceDetected \/ UNCHANGED vars
  BY <1>9 DEF RaceDetected, vars, WireInv, stream, caller
<1> QED BY <1>1, <1>2, <1>3, <1>4, <1>5, <1>6, <1>7, <1>8, <1>9 DEF Next, SetterCalled

LEMMA AddrStep == ASSUME TInv, AddrInv, [Next]_vars PROVE AddrInv'
<1>1. ASSUME phase' # "done", addr' = addr, ret' = ret, phase # "done" PROVE AddrInv'
  BY <1>1 DEF AddrInv, Untouched
<1>2. CASE SetterCalled
  BY <1>1, <1>2, SetterMoves DEF caller
<1>3. CASE \/ Invoke \/ MethodStarts \/ MethodReturns \/ GetHeaders \/ HeadersConverted
           \/ GetTrailers \/ TrailersConverted
  BY <1>1, <1>3 DEF Invoke, MethodStarts, MethodReturns, GetHeaders, HeadersConverted,
                    GetTrailers, TrailersConverted, caller
<1>4. CASE CredsFail \/ ResponseUnreadable
  BY <1>4 DEF CredsFail, ResponseUnreadable, AddrInv, Untouched
<1>5. CASE ClientReturns
  <2>1. CASE Decodes(wire)
    <3>1. addr' = Filled' /\ phase' = "done"
      BY <1>5, <2>1 DEF ClientReturns, SetAll, Filled
    <3> QED BY <3>1 DEF AddrInv
  <2>2. CASE ~Decodes(wire)
    <3>1. addr' = addr /\ addr = Untouched /\ phase' = "done" /\ ret' = "err"
      BY <1>5, <2>2 DEF ClientReturns, AddrInv
    <3> QED BY <3>1 DEF AddrInv, Untouched
  <2> QED BY <2>1, <2>2
<1>6. CASE RaceDetected \/ UNCHANGED vars
  BY <1>6 DEF RaceDetected, vars, caller, AddrInv, Untouched, Filled
<1> QED BY <1>2, <1>3, <1>4, <1>5, <1>6 DEF Next, SetterCalled

LEMMA InvAlways == Spec => []IInv
<1>1. IInv /\ [Next]_vars => IInv'
  BY TypeStep, RequestStep, StreamStep, WireStep, AddrStep DEF IInv
<1> QED BY <1>1, MetadataInit, PTL DEF Spec

-----------------------------------------------------------------------------
(* What it means.                                                          *)

\* The values of `Current' are values, and their metadata is metadata.
LEMMA MdIsMetadata == ASSUME NEW G PROVE MetadataOf(G) \subseteq MetadataType
<1> SUFFICES ASSUME NEW md \in MetadataOf(G) PROVE md \in MetadataType
  OBVIOUS
<1>1. PlainOf(G) \subseteq {v \in Values : ~v.coded}
  BY DEF PlainOf, ValuesOf
<1>2. \A n \in Names : md[n] \in Seq({v \in Values : ~v.coded})
  BY <1>1, SeqMonotonic DEF MetadataOf
<1> QED BY <1>2 DEF MetadataOf, MetadataType

LEMMA HeadersAreValues == HeadersOf(Current) \subseteq [Names -> Seq(Values)]
<1> SUFFICES ASSUME NEW h \in HeadersOf(Current) PROVE h \in [Names -> Seq(Values)]
  OBVIOUS
<1>1. ValuesOf(Current) \subseteq Values
  BY DEF ValuesOf
<1>2. h \in [Names -> Seq(ValuesOf(Current))]
  BY DEF HeadersOf
<1>3. \A n \in Names : h[n] \in Seq(Values)
  BY <1>1, <1>2, SeqMonotonic
<1> QED BY <1>2, <1>3

LEMMA StaleType == Stale \in MetadataOf({"earlier"})
<1>1. Value("earlier", 0, FALSE) \in PlainOf({"earlier"})
  BY DEF Value, PlainOf, ValuesOf, Values, Givers
<1> QED BY <1>1, PairType DEF Stale

LEMMA FilledType ==
  ASSUME TInv
  PROVE  /\ HeaderPart(AsMetadata(wire)) \in Md /\ TrailerPart(AsMetadata(wire)) \in Md
         /\ \A a \in Addrs : Filled[a] \in Md
<1>1. AsMetadata(wire) \in Md
  BY WireReceived DEF TInv, Md
<1>2. HeaderPart(AsMetadata(wire)) \in Md /\ TrailerPart(AsMetadata(wire)) \in Md
  BY <1>1, PartsType DEF Md
<1> QED BY <1>2 DEF Filled

LEMMA InvTypeOK == IInv => TypeOK
<1> SUFFICES ASSUME IInv PROVE TypeOK
  OBVIOUS
<1>1. TInv /\ AddrInv
  BY DEF IInv
<1>2. Md \subseteq MetadataType
  BY MdIsMetadata DEF Md
<1>3. {outMD, inMD, hdrs, tlrs, ranging, atReturn.hdrs, atReturn.tlrs} \subseteq MetadataType
  BY <1>1, <1>2 DEF TInv
<1>4. wire \in [Names -> Seq(Values)]
  BY <1>1, HeadersAreValues DEF TInv
<1>5. Untouched \in [Addrs -> MetadataType]
  BY StaleType, MdIsMetadata DEF Untouched
<1>6. Filled \in [Addrs -> MetadataType]
  BY <1>1, <1>2, FilledType DEF Filled
<1>7. addr \in [Addrs -> MetadataType]
  BY <1>1, <1>5, <1>6 DEF AddrInv
<1> QED BY <1>1, <1>3, <1>4, <1>7 DEF TInv, TypeOK, Phases

\* Every variable keeps its type, whatever names and values there are and
\* however long the sequences grow; no program ever sees a value in base64.
THEOREM MetadataTypeCorrect == Spec => []TypeOK
BY InvAlways, InvTypeOK, PTL

LEMMA CarriedIsUnpadded == \A n, s : Carried(n, s) = AllUnpadded(n, s)
BY DEF Carried, AllUnpadded, Unpadded

LEMMA InvMethodSeesMetadata == IInv => MethodSeesMetadata
<1> SUFFICES ASSUME IInv, phase = "running", NEW n \in AppNames
             PROVE  inMD[n] = CASE n = Name(0, ContentType)             -> <<Protobuf>>
                                [] Reserved(n) /\ n.base # ContentType -> <<>>
                                [] ~Reserved(n)                         -> Carried(n, outMD[n])
  BY DEF IInv, RequestInv, MethodSeesMetadata
<1>1. outMD \in Md /\ "codec" \in Current /\ n \in Names
  BY DEF IInv, TInv, Current, Givers, AppNames
<1>2. inMD = AsMetadata(Request(outMD))
  BY DEF IInv, RequestInv
<1>3. inMD[n] = IF n = Name(0, ContentType) THEN <<Protobuf>>
                ELSE IF Reserved(n) THEN <<>> ELSE AllUnpadded(n, outMD[n])
  BY <1>1, <1>2, RequestReceived DEF Md
<1>4. Name(0, ContentType).base = ContentType /\ Reserved(Name(0, ContentType))
  BY MetadataOK DEF Name, Reserved, MetadataOK
<1>5. CASE n = Name(0, ContentType)
  BY <1>3, <1>4, <1>5
<1>6. CASE n # Name(0, ContentType) /\ Reserved(n)
  <2>1. n.base # ContentType
    BY <1>1, <1>6 DEF Names, Name, Reserved
  <2> QED BY <1>3, <1>6, <2>1
<1>7. CASE n # Name(0, ContentType) /\ ~Reserved(n)
  BY <1>3, <1>7, CarriedIsUnpadded
<1> QED BY <1>5, <1>6, <1>7

\* For any metadata of the call's context and of its credentials that headers can
\* hold (see Metadata): the method's context has it all, in this order, and the
\* server does not drop the request because of it.
THEOREM MetadataReachesMethod == Spec => []MethodSeesMetadata
BY InvAlways, InvMethodSeesMetadata, PTL

\* What the addresses hold of the name `n' after a response made of `h' and `t'.
HeaderOf(h, n) ==
  IF n.pre > 0 THEN <<>>
  ELSE IF n = Name(0, ContentType) THEN <<Protobuf>>
  ELSE IF Reserved(n) THEN <<>> ELSE Carried(n, h[n])
TrailerOf(h, t, n) ==
  Carried(n, h[[n EXCEPT !.pre = @ + 1]]) \o IF Reserved(n) THEN <<>> ELSE Carried(n, t[n])

LEMMA ResponseSplit ==
  ASSUME NEW h \in Md, NEW t \in Md, NEW n \in AppNames
  PROVE  /\ HeaderPart(AsMetadata(Response(h, t)))[n] = HeaderOf(h, n)
         /\ TrailerPart(AsMetadata(Response(h, t)))[n] = TrailerOf(h, t, n)
<1> DEFINE p == [n EXCEPT !.pre = @ + 1]
<1>1. "codec" \in Current /\ h \in MetadataOf(Current) /\ t \in MetadataOf(Current)
  BY DEF Current, Givers, Md
<1>2. n \in Names /\ p \in Names /\ p.pre = n.pre + 1 /\ p.base = n.base /\ n.pre \in Nat
  BY MetadataOK DEF AppNames, Names, MetadataOK
<1>3. HeaderPart(AsMetadata(Response(h, t)))[n] = HeaderOf(h, n)
  <2>1. CASE n.pre = 0
    <3>1. ~(n.pre > 0)
      BY <2>1
    <3> QED BY <1>1, <1>2, <2>1, <3>1, HeadersReceived, CarriedIsUnpadded DEF HeaderOf
  <2>2. CASE n.pre > 0
    <3>1. n.pre # 0
      BY <2>2
    <3> QED BY <1>2, <2>2, <3>1 DEF HeaderPart, HeaderOf
  <2> QED BY <1>2, <2>1, <2>2
<1>4. TrailerPart(AsMetadata(Response(h, t)))[n] = TrailerOf(h, t, n)
  <2> HIDE DEF p
  <2>1. TrailerPart(AsMetadata(Response(h, t)))[n] =
          AllUnpadded(n, h[p]) \o IF Reserved(n) THEN <<>> ELSE AllUnpadded(n, t[n])
    BY <1>1, <1>2, TrailersReceived
  <2>2. TrailerOf(h, t, n) = Carried(n, h[p]) \o IF Reserved(n) THEN <<>> ELSE Carried(n, t[n])
    BY DEF TrailerOf, p
  <2> QED BY <2>1, <2>2, CarriedIsUnpadded
<1> QED BY <1>3, <1>4

\* When Invoke succeeds its addresses have the headers and the trailers of two
\* moments between the method's return and now.
LEMMA AddressesFilled ==
  ASSUME IInv, ret = "ok", "headers" \notin raced
  PROVE  \E h, t \in Md :
           /\ Within(atReturn.hdrs, h, hdrs)
           /\ "trailers" \notin raced => Within(atReturn.tlrs, t, tlrs)
           /\ \A n \in AppNames : /\ \A a \in HdrAddrs : addr[a][n] = HeaderOf(h, n)
                                  /\ \A a \in TlrAddrs : addr[a][n] = TrailerOf(h, t, n)
<1>1. PICK h \in Md, t \in Md : /\ Within(atReturn.hdrs, h, hdrs)
                                /\ "trailers" \notin raced => Within(atReturn.tlrs, t, tlrs)
                                /\ wire = Response(h, t)
  BY DEF IInv, WireInv
<1>2. addr = Filled
  BY DEF IInv, AddrInv
<1>3. /\ \A a \in HdrAddrs : addr[a] = HeaderPart(AsMetadata(Response(h, t)))
      /\ \A a \in TlrAddrs : addr[a] = TrailerPart(AsMetadata(Response(h, t)))
  BY <1>1, <1>2, CallMetadataOK DEF Filled, Addrs, CallMetadataOK
<1>4. \A n \in AppNames : /\ \A a \in HdrAddrs : addr[a][n] = HeaderOf(h, n)
                          /\ \A a \in TlrAddrs : addr[a][n] = TrailerOf(h, t, n)
  BY <1>3, ResponseSplit
<1> QED BY <1>1, <1>4

LEMMA InvResponseArrives == IInv => ResponseArrives
<1> SUFFICES ASSUME IInv, ret = "ok", raced = {}, NEW n \in AppNames
             PROVE  LET p  == [n EXCEPT !.pre = @ + 1]
                        As == Between(hdrs[n], Len(atReturn.hdrs[n]), Len(hdrs[n]))
                        Ps == Between(hdrs[p], Len(atReturn.hdrs[p]), Len(hdrs[p]))
                        Ts == Between(tlrs[n], Len(atReturn.tlrs[n]), Len(tlrs[n]))
                    IN  /\ \A a \in HdrAddrs :
                             CASE n = Name(0, ContentType)             -> addr[a][n] = <<Protobuf>>
                               [] Reserved(n) /\ n.base # ContentType -> addr[a][n] = <<>>
                               [] ~Reserved(n) /\ n.pre = 0           -> \E s \in As : addr[a][n] = Carried(n, s)
                               [] n.pre > 0                           -> addr[a][n] = <<>>
                        /\ \A a \in TlrAddrs :
                             \E s \in Ps, t \in Ts :
                               addr[a][n] = Carried(n, s) \o IF Reserved(n) THEN <<>> ELSE Carried(n, t)
  BY DEF ResponseArrives
<1> DEFINE p  == [n EXCEPT !.pre = @ + 1]
           As == Between(hdrs[n], Len(atReturn.hdrs[n]), Len(hdrs[n]))
           Ps == Between(hdrs[p], Len(atReturn.hdrs[p]), Len(hdrs[p]))
           Ts == Between(tlrs[n], Len(atReturn.tlrs[n]), Len(tlrs[n]))
<1>1. PICK h \in Md, t \in Md :
        /\ Within(atReturn.hdrs, h, hdrs) /\ Within(atReturn.tlrs, t, tlrs)
        /\ \A a \in HdrAddrs : addr[a][n] = HeaderOf(h, n)
        /\ \A a \in TlrAddrs : addr[a][n] = TrailerOf(h, t, n)
  BY AddressesFilled
<1>2. n \in Names /\ p \in Names /\ n.pre \in Nat
  BY MetadataOK DEF AppNames, Names, MetadataOK
<1>3. hdrs \in Md /\ tlrs \in Md /\ atReturn.hdrs \in Md /\ atReturn.tlrs \in Md
  BY DEF IInv, TInv
<1>4. h[n] \in As /\ t[n] \in Ts /\ h[p] \in Ps
  <2> HIDE DEF p
  <2> QED BY <1>1, <1>2, <1>3, WithinBetween DEF Md
<1>5. /\ Name(0, ContentType).pre = 0 /\ Name(0, ContentType).base = ContentType
      /\ Reserved(Name(0, ContentType))
  BY MetadataOK DEF Name, Reserved, MetadataOK
<1>6. ASSUME NEW a \in HdrAddrs
      PROVE  CASE n = Name(0, ContentType)             -> addr[a][n] = <<Protobuf>>
               [] Reserved(n) /\ n.base # ContentType -> addr[a][n] = <<>>
               [] ~Reserved(n) /\ n.pre = 0           -> \E s \in As : addr[a][n] = Carried(n, s)
               [] n.pre > 0                           -> addr[a][n] = <<>>
  <2>1. addr[a][n] = HeaderOf(h, n)
    BY <1>1
  <2>2. CASE n = Name(0, ContentType)
    <3>1. ~(n.pre > 0) /\ n.pre = 0 /\ Reserved(n) /\ n.base = ContentType
      BY <1>5, <2>2
    <3>2. addr[a][n] = <<Protobuf>>
      BY <2>1, <2>2, <3>1 DEF HeaderOf
    <3> QED BY <2>2, <3>1, <3>2
  <2>3. CASE n # Name(0, ContentType) /\ Reserved(n)
    <3>1. ~(n.pre > 0) /\ n.base # ContentType
      BY <1>2, <2>3 DEF Reserved, Name, Names
    <3>2. addr[a][n] = <<>>
      BY <2>1, <2>3, <3>1 DEF HeaderOf
    <3> QED BY <2>3, <3>1, <3>2
  <2>4. CASE n # Name(0, ContentType) /\ ~Reserved(n) /\ n.pre = 0
    <3>1. ~(n.pre > 0)
      BY <2>4
    <3>2. addr[a][n] = Carried(n, h[n])
      BY <2>1, <2>4, <3>1 DEF HeaderOf
    <3>3. \E s \in As : addr[a][n] = Carried(n, s)
      BY <1>4, <3>2
    <3> HIDE DEF As
    <3> QED BY <2>4, <3>1, <3>3
  <2>5. CASE n # Name(0, ContentType) /\ n.pre > 0
    <3>1. ~(n.pre = 0) /\ ~Reserved(n)
      BY <2>5 DEF Reserved
    <3>2. addr[a][n] = <<>>
      BY <2>1, <2>5 DEF HeaderOf
    <3> QED BY <2>5, <3>1, <3>2
  <2>6. n.pre = 0 \/ n.pre > 0
    BY <1>2
  <2> QED BY <2>2, <2>3, <2>4, <2>5, <2>6
<1>7. ASSUME NEW a \in TlrAddrs
      PROVE  \E s \in Ps, u \in Ts :
               addr[a][n] = Carried(n, s) \o IF Reserved(n) THEN <<>> ELSE Carried(n, u)
  <2>1. addr[a][n] = Carried(n, h[p]) \o IF Reserved(n) THEN <<>> ELSE Carried(n, t[n])
    BY <1>1 DEF TrailerOf
  <2> QED BY <1>4, <2>1
<1> QED BY <1>6, <1>7

\* For any headers and trailers, set in any order by a method and by goroutines
\* that outlive it: unless a map was written to while handleMethod ranged over
\* it, a successful Invoke has put into its addresses all that the method set
\* and a beginning of what was added later, headers and trailers apart.
THEOREM ResponseReachesCaller == Spec => []ResponseArrives
BY InvAlways, InvResponseArrives, PTL

LEMMA InvSentHeadersAreFinal == IInv => SentHeadersAreFinal
<1> SUFFICES ASSUME IInv, atReturn.sent
             PROVE  /\ hdrs = atReturn.hdrs /\ "headers" \notin raced
                    /\ ret = "ok" => \A a \in HdrAddrs, n \in AppNames :
                                       n.pre = 0 /\ ~Reserved(n) => addr[a][n] = Carried(n, hdrs[n])
  BY DEF SentHeadersAreFinal
<1>1. hdrs = atReturn.hdrs /\ "headers" \notin raced /\ hdrs \in Md
  BY DEF IInv, StreamInv, TInv
<1>2. ASSUME ret = "ok", NEW a \in HdrAddrs, NEW n \in AppNames, n.pre = 0, ~Reserved(n)
      PROVE  addr[a][n] = Carried(n, hdrs[n])
  <2>1. PICK h \in Md : Within(hdrs, h, hdrs) /\ addr[a][n] = HeaderOf(h, n)
    BY <1>1, <1>2, AddressesFilled
  <2>2. n \in Names
    BY DEF AppNames
  <2>3. /\ h[n] \in Seq(PlainOf(Current)) /\ Len(h[n]) \in Nat
        /\ hdrs[n] \in Seq(PlainOf(Current)) /\ Len(hdrs[n]) \in Nat
    BY <1>1, <2>2, MdSeq DEF Md
  <2>4. /\ Len(hdrs[n]) <= Len(h[n]) /\ Len(h[n]) <= Len(hdrs[n])
        /\ \A i \in 1 .. Len(h[n]) : hdrs[n][i] = h[n][i]
    BY <2>1, <2>2 DEF Within, Begins
  <2>5. h[n] = hdrs[n]
    BY <2>3, <2>4, SeqEqual
  <2>6. ~(n.pre > 0) /\ n # Name(0, ContentType)
    BY <1>2, MetadataOK DEF Name, Reserved, MetadataOK
  <2>7. HeaderOf(h, n) = Carried(n, h[n])
    BY <1>2, <2>6 DEF HeaderOf
  <2> QED BY <2>1, <2>5, <2>7
<1> QED BY <1>1, <1>2

\* A method that has called SendHeader is safe from its late goroutines, however
\* many there are and whatever they do: its caller gets the headers it sent.
THEOREM SentHeadersStay == Spec => []SentHeadersAreFinal
BY InvAlways, InvSentHeadersAreFinal, PTL

\* What a response has filled in holds nothing of an earlier call.
LEMMA NothingEarlier ==
  ASSUME NEW md \in Md, NEW n \in Names, NEW i \in DOMAIN md[n] PROVE md[n][i].by # "earlier"
<1>1. md[n][i] \in PlainOf(Current)
  BY MdSeq DEF Md
<1> QED BY <1>1 DEF PlainOf, ValuesOf, Current

LEMMA InvAddressesAgree == IInv => AddressesAgree
<1> DEFINE Kept == {a \in Addrs : \E n \in Names : \E i \in DOMAIN addr[a][n] : addr[a][n][i].by = "earlier"}
<1> SUFFICES ASSUME IInv
             PROVE  /\ Kept = {} \/ \A a \in Addrs : addr[a] = Stale
                    /\ ret = "ok" => Kept = {}
                    /\ \A A \in {HdrAddrs, TlrAddrs} : \A a, b \in A : addr[a] = addr[b]
  BY DEF AddressesAgree
<1>1. TInv /\ (ret = "ok" => addr = Filled) /\ addr \in {Untouched, Filled}
  BY DEF IInv, AddrInv
<1>2. ASSUME addr = Filled PROVE Kept = {}
  <2>1. \A a \in Addrs : addr[a] \in Md
    BY <1>1, <1>2, FilledType
  <2> QED BY <2>1, NothingEarlier
<1>3. addr = Untouched => \A a \in Addrs : addr[a] = Stale
  BY DEF Untouched
<1>4. /\ \A a, b \in HdrAddrs : Filled[a] = Filled[b] /\ Untouched[a] = Untouched[b]
      /\ \A a, b \in TlrAddrs : Filled[a] = Filled[b] /\ Untouched[a] = Untouched[b]
  BY CallMetadataOK DEF Filled, Untouched, Addrs, CallMetadataOK
<1> HIDE DEF Kept
<1> QED BY <1>1, <1>2, <1>3, <1>4

\* However many addresses grpc.Header and grpc.Trailer name, and wherever
\* Invoke fails: setMetadata sets all of them or none, and never leaves one
\* call's values beside another's.
THEOREM AddressesSetTogether == Spec => []AddressesAgree
BY InvAlways, InvAddressesAgree, PTL
=============================================================================
