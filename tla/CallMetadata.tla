---------------------------- MODULE CallMetadata -----------------------------
(***************************************************************************)
(* What becomes of the metadata of one unary call: from the context and    *)
(* the credentials of the caller to the method, and from the method's      *)
(* UnaryServerTransportStream through handleMethod to the addresses that   *)
(* the caller's grpc.Header and grpc.Trailer options name.                 *)
(*                                                                         *)
(* The stream has a mutex because a method may use it from goroutines of   *)
(* its own, and these may outlive the method.  GetHeaders and GetTrailers  *)
(* return the maps themselves, so handleMethod ranges over them while such *)
(* a goroutine can still add to them; nothing calls Finish.                *)
(***************************************************************************)
EXTENDS Metadata

CONSTANTS
  Late,       \* goroutines that a method starts and does not wait for
  MaxSets,    \* bound: successful calls of the stream's setters
  ReqNames,   \* names in the caller's metadata
  RespNames,  \* names a method sets
  HdrAddrs, TlrAddrs   \* the addresses in CallOptions.Headers and .Trailers

ASSUME CallMetadataOK ==
  /\ ReqNames \cup RespNames \subseteq AppNames
  /\ MaxSets \in Nat
  /\ HdrAddrs \cap TlrAddrs = {} /\ HdrAddrs \cup TlrAddrs # {}

VARIABLES
  up,        \* the server process is alive
  phase,     \* idle | sent | dropped | running | returned | headers | between
             \*   | trailers | replied | done
  outMD,     \* history: the outgoing metadata of the call's context, and
  inMD,      \*   the incoming metadata of the method's, until it returns
  wire,      \* the headers of the message being built or under way
  hdrs, tlrs, hdrsSent,  \* the transport stream
  sets,      \* how many values it has taken
  ranging,   \* the map as it was when handleMethod began to range over it
  raced,     \* history: the maps written to while they were ranged over
  atReturn,  \* history: the stream when the method returned
  addr,      \* what the metadata addresses of the caller hold
  ret        \* what Invoke returned: none | ok | err

stream  == <<hdrs, tlrs, hdrsSent, sets, raced>>
context == <<outMD, inMD>>
caller  == <<addr, ret>>
vars    == <<up, phase, wire, ranging, atReturn, stream, context, caller>>

Addrs == HdrAddrs \cup TlrAddrs

\* What an earlier call through the same addresses has left there.
Stale == Pair(CHOOSE n \in RespNames : TRUE, Value("earlier", 0, FALSE))

Init ==
  /\ up = TRUE /\ phase = "idle"
  /\ outMD = None /\ inMD = None /\ wire = None
  /\ hdrs = None /\ tlrs = None /\ hdrsSent = FALSE /\ sets = 0
  /\ ranging = None /\ raced = {}
  /\ atReturn = [hdrs |-> None, tlrs |-> None, sent |-> FALSE]
  /\ addr = [a \in Addrs |-> Stale] /\ ret = "none"

-----------------------------------------------------------------------------
(* The request                                                             *)

\* Metadata of the context or of credentials: at most one value here.
Given(g) == {None} \cup {Pair(n, Value(g, 0, s)) : n \in ReqNames, s \in BOOLEAN}

\* The metadata of the credentials is joined to that of the context, and both
\* become headers of the request.
\* Mutant: the credentials' metadata takes the place of the context's.
InvokeOverwrites ==
  /\ phase = "idle"
  /\ \E ctx \in Given("context"), creds \in Given("creds") :
       /\ outMD' = Join(ctx, creds)
       /\ wire' = OnWire(SetContentType(ToHeaders(IF creds = None THEN ctx ELSE creds, None, 0)))
  /\ phase' = "sent"
  /\ UNCHANGED <<up, inMD, ranging, atReturn, stream, caller>>

Invoke ==
  /\ phase = "idle"
  /\ \E ctx \in Given("context"), creds \in Given("creds") :
       /\ outMD' = Join(ctx, creds)
       /\ wire' = OnWire(SetContentType(ToHeaders(outMD', None, 0)))
  /\ phase' = "sent"
  /\ UNCHANGED <<up, inMD, ranging, atReturn, stream, caller>>

\* GetRequestMetadata of the credentials fails: nothing is sent.
CredsFail ==
  /\ phase = "idle"
  /\ phase' = "done" /\ ret' = "err"
  /\ UNCHANGED <<up, wire, ranging, atReturn, stream, context, addr>>

\* contextFromHeaders; when it fails handleMethod returns without a response.
MethodStarts ==
  /\ up /\ phase = "sent"
  /\ IF Decodes(wire) THEN phase' = "running" /\ inMD' = AsMetadata(wire)
                      ELSE phase' = "dropped" /\ UNCHANGED inMD
  /\ UNCHANGED <<up, wire, ranging, atReturn, stream, outMD, caller>>

-----------------------------------------------------------------------------
(* The transport stream                                                    *)

\* The method's own goroutine is done when it returns; others go on.
MayUse(g) ==
  /\ up /\ sets < MaxSets
  /\ \/ phase = "running"
     \/ g \in Late /\ phase \in {"returned", "headers", "between", "trailers", "replied"}

\* A map that is not nil is ranged over without the stream's mutex.
Races(m) == IF phase = m /\ ranging # None THEN {m} ELSE {}

\* One of the stream's setters is called with one new value, and takes it.
Takes(Set(_)) ==
  /\ \E n \in RespNames, s \in BOOLEAN : Set(Pair(n, Value("method", sets + 1, s)))
  /\ sets' = sets + 1
  /\ UNCHANGED <<up, phase, wire, ranging, atReturn, context, caller>>

\* Mutant: the mark that headers are sent is not looked at.
SetHeaderLockedUnchecked(md) ==
  /\ hdrs' = Join(hdrs, md)
  /\ raced' = raced \cup Races("headers")
  /\ UNCHANGED tlrs

SetHeaderLocked(md) ==
  /\ ~hdrsSent
  /\ hdrs' = Join(hdrs, md)
  /\ raced' = raced \cup Races("headers")
  /\ UNCHANGED tlrs

SetHeader(md)  == SetHeaderLocked(md) /\ UNCHANGED hdrsSent
SendHeader(md) == SetHeaderLocked(md) /\ hdrsSent' = TRUE

SetTrailer(md) ==
  /\ tlrs' = Join(tlrs, md)
  /\ raced' = raced \cup Races("trailers")
  /\ UNCHANGED <<hdrs, hdrsSent>>

SetHeaderCalled(g)  == MayUse(g) /\ Takes(SetHeader)
SendHeaderCalled(g) == MayUse(g) /\ Takes(SendHeader)
SetTrailerCalled(g) == MayUse(g) /\ Takes(SetTrailer)

-----------------------------------------------------------------------------
(* The response                                                            *)

MethodReturns ==
  /\ up /\ phase = "running"
  /\ phase' = "returned"
  /\ wire' = None /\ outMD' = None /\ inMD' = None
  /\ atReturn' = [hdrs |-> hdrs, tlrs |-> tlrs, sent |-> hdrsSent]
  /\ UNCHANGED <<up, ranging, stream, caller>>

\* What ranging over a map finds in it.  The values of a name that is written
\* to meanwhile may be those of any moment, or run past the end of an array.
Between(s, i, j) == {SubSeq(s, 1, k) : k \in i .. j}
Torn(s)          == Append(s, Value("torn", 0, FALSE))

Found(m, now) ==
  LET written == {n \in Names : m \in raced /\ now[n] # ranging[n]}
      Read(n) == Between(now[n], Len(ranging[n]), Len(now[n])) \cup {Torn(ranging[n])}
  IN  {[n \in Names |-> IF n \in written THEN f[n] ELSE ranging[n]] :
         f \in {g \in [written -> UNION {Read(n) : n \in written}] :
                   \A n \in written : g[n] \in Read(n)}}

GetHeaders ==
  /\ up /\ phase = "returned"
  /\ phase' = "headers" /\ ranging' = hdrs
  /\ UNCHANGED <<up, wire, atReturn, stream, context, caller>>

HeadersConverted ==
  /\ up /\ phase = "headers"
  /\ phase' = "between"
  /\ \E h \in Found("headers", hdrs) : wire' = ToHeaders(h, wire, 0)
  /\ UNCHANGED <<up, ranging, atReturn, stream, context, caller>>

GetTrailers ==
  /\ up /\ phase = "between"
  /\ phase' = "trailers" /\ ranging' = tlrs
  /\ UNCHANGED <<up, wire, atReturn, stream, context, caller>>

\* ... and the response is written.
TrailersConverted ==
  /\ up /\ phase = "trailers"
  /\ phase' = "replied"
  /\ \E t \in Found("trailers", tlrs) : wire' = OnWire(SetContentType(ToHeaders(t, wire, 1)))
  /\ UNCHANGED <<up, ranging, atReturn, stream, context, caller>>

\* "concurrent map iteration and map write" ends the process.
RaceDetected ==
  /\ up /\ phase \in raced
  /\ up' = FALSE
  /\ UNCHANGED <<phase, wire, ranging, atReturn, stream, context, caller>>

\* Mutant: an address keeps the values of an earlier call.
SetAllMerges(h, t) == addr' = [a \in Addrs |-> Join(addr[a], IF a \in HdrAddrs THEN h ELSE t)]
SetAll(h, t)       == addr' = [a \in Addrs |-> IF a \in HdrAddrs THEN h ELSE t]

\* setMetadata; Invoke fails after it if the body does not unmarshal.
ClientReturns ==
  /\ phase = "replied"
  /\ phase' = "done"
  /\ IF Decodes(wire)
       THEN LET md == AsMetadata(wire) IN
            SetAll(HeaderPart(md), TrailerPart(md)) /\ ret' \in {"ok", "err"}
       ELSE ret' = "err" /\ UNCHANGED addr
  /\ UNCHANGED <<up, wire, ranging, atReturn, stream, context>>

\* The response or its body cannot be read: Invoke fails before setMetadata.
ResponseUnreadable ==
  /\ phase = "replied"
  /\ phase' = "done" /\ ret' = "err"
  /\ UNCHANGED <<up, wire, ranging, atReturn, stream, context, addr>>

-----------------------------------------------------------------------------
Next ==
  \/ Invoke \/ CredsFail \/ MethodStarts
  \/ \E g \in Late \cup {"method"} :
       SetHeaderCalled(g) \/ SendHeaderCalled(g) \/ SetTrailerCalled(g)
  \/ MethodReturns \/ GetHeaders \/ HeadersConverted \/ GetTrailers \/ TrailersConverted
  \/ RaceDetected \/ ClientReturns \/ ResponseUnreadable

Spec == Init /\ [][Next]_vars
-----------------------------------------------------------------------------
(* Properties                                                              *)

MetadataType == [Names -> Seq({v \in Values : ~v.coded})]

\* Every variable holds what the Go fields and locals of its kind can hold; in
\* particular no metadata on either side is left in base64.
TypeOK ==
  /\ up \in BOOLEAN /\ hdrsSent \in BOOLEAN
  /\ phase \in {"idle", "sent", "dropped", "running", "returned", "headers",
                "between", "trailers", "replied", "done"}
  /\ {outMD, inMD, hdrs, tlrs, ranging, atReturn.hdrs, atReturn.tlrs} \subseteq MetadataType
  /\ wire \in [Names -> Seq(Values)]
  /\ addr \in [Addrs -> MetadataType]
  /\ sets \in 0 .. MaxSets
  /\ raced \subseteq {"headers", "trailers"}
  /\ atReturn.sent \in BOOLEAN
  /\ ret \in {"none", "ok", "err"}

\* The values of a name after a journey: only a -bin value keeps its space.
Carried(n, s) == [i \in DOMAIN s |-> IF Bin(n) THEN s[i] ELSE [s[i] EXCEPT !.padded = FALSE]]

\* The method's context has all the metadata that the call's context and its
\* credentials gave, in this order, and the content type is not theirs to set.
\* No metadata that headers can hold (see Metadata) makes the server drop the
\* request; in particular toHeaders writes nothing that asMetadata refuses.
MethodSeesMetadata ==
  /\ phase # "dropped"
  /\ phase = "running" =>
       \A n \in AppNames :
         inMD[n] = CASE n = Name(0, ContentType)               -> <<Protobuf>>
                     [] Reserved(n) /\ n.base # ContentType   -> <<>>
                     [] ~Reserved(n)                           -> Carried(n, outMD[n])

\* When Invoke succeeds its addresses hold what the method had set when it
\* returned, in order, and of what late goroutines added at most a beginning.
\* Headers are found as headers and trailers as trailers, behind any headers
\* whose names are spelled like those of trailers.
ResponseArrives ==
  ret = "ok" /\ raced = {} =>
    \A n \in AppNames :
      LET p  == [n EXCEPT !.pre = @ + 1]
          As == Between(hdrs[n], Len(atReturn.hdrs[n]), Len(hdrs[n]))
          Ps == Between(hdrs[p], Len(atReturn.hdrs[p]), Len(hdrs[p]))
          Ts == Between(tlrs[n], Len(atReturn.tlrs[n]), Len(tlrs[n]))
      IN  /\ \A a \in HdrAddrs :
               CASE n = Name(0, ContentType)             -> addr[a][n] = <<Protobuf>>
                 [] Reserved(n) /\ n.base # ContentType -> addr[a][n] = <<>>
                 [] ~Reserved(n) /\ n.pre = 0           -> \E s \in As : addr[a][n] = Carried(n, s)
                 [] n.pre > 0                           -> addr[a][n] = <<>>
          /\ \A a \in TlrAddrs :
               \E s \in Ps, t \in Ts :
                 addr[a][n] = Carried(n, s) \o IF Reserved(n) THEN <<>> ELSE Carried(n, t)

\* A method that has called SendHeader is safe from its late goroutines: the
\* headers it sent are those the caller gets, and nobody writes to their map
\* while handleMethod ranges over it.
SentHeadersAreFinal ==
  atReturn.sent =>
    /\ hdrs = atReturn.hdrs /\ "headers" \notin raced
    /\ ret = "ok" => \A a \in HdrAddrs, n \in AppNames :
                       n.pre = 0 /\ ~Reserved(n) => addr[a][n] = Carried(n, hdrs[n])

\* Addresses are set together or not at all: none holds one call's headers next
\* to another's trailers, or values of two calls, even when Invoke fails.
AddressesAgree ==
  LET Kept == {a \in Addrs : \E n \in Names : \E i \in DOMAIN addr[a][n] : addr[a][n][i].by = "earlier"}
  IN  /\ Kept = {} \/ \A a \in Addrs : addr[a] = Stale
      /\ ret = "ok" => Kept = {}
      /\ \A A \in {HdrAddrs, TlrAddrs} : \A a, b \in A : addr[a] = addr[b]
=============================================================================
