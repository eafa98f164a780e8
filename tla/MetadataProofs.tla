--------------------------- MODULE MetadataProofs ----------------------------
(***************************************************************************)
(* What TLAPS proves about the conversions of Metadata: what a conversion  *)
(* on one side of a connection, the wire and one on the other side make of *)
(* metadata together, for any names and any values.                        *)
(***************************************************************************)
EXTENDS Metadata, SequenceTheorems, TLAPS

(***************************************************************************)
(* Values by who gave them, as they travel and as programs see them.       *)
(***************************************************************************)
ValuesOf(G)   == {v \in Values : v.by \in G}
PlainOf(G)    == {v \in ValuesOf(G) : ~v.coded}
HeadersOf(G)  == [Names -> Seq(ValuesOf(G))]
MetadataOf(G) == [Names -> Seq(PlainOf(G))]

\* A value, and the values of a name, after they were encoded and sent.
Unpadded(n, v) == IF Bin(n) THEN v ELSE [v EXCEPT !.padded = FALSE]
AllUnpadded(n, s) == [i \in DOMAIN s |-> Unpadded(n, s[i])]

\* What a receiver makes of the lines of a name.
Received(n, s) == [i \in DOMAIN s |-> Decode(n, Trim(n, s[i]))]

\* The headers of a request, and of a response.
Request(md)    == OnWire(SetContentType(ToHeaders(md, None, 0)))
Response(h, t) == OnWire(SetContentType(ToHeaders(t, ToHeaders(h, None, 0), 1)))

-----------------------------------------------------------------------------
(* Sequences and values.                                                   *)

LEMMA FunIsSeq ==
  ASSUME NEW S, NEW k \in Nat, NEW f \in [1 .. k -> S]
  PROVE  f \in Seq(S) /\ Len(f) = k
<1>1. f \in Seq(S)
  BY SeqDef
<1>2. Len(f) \in Nat /\ DOMAIN f = 1 .. Len(f)
  BY <1>1, LenProperties
<1> QED BY <1>1, <1>2

\* Two sequences are one when they are as long and agree everywhere.
LEMMA SameSeq ==
  ASSUME NEW S, NEW T, NEW s \in Seq(S), NEW t \in Seq(T), Len(s) = Len(t),
         \A i \in 1 .. Len(s) : s[i] = t[i]
  PROVE  s = t
<1>1. s \in Seq(S \cup T) /\ t \in Seq(S \cup T)
  BY SeqMonotonic
<1> QED BY <1>1, SeqEqual

LEMMA ValueSteps ==
  ASSUME NEW G, NEW v \in ValuesOf(G), NEW n
  PROVE  /\ Encode(n, v) \in ValuesOf(G) /\ Encode(n, v).coded = Bin(n)
         /\ Trim(n, v) \in ValuesOf(G) /\ Trim(n, v).coded = v.coded
         /\ Decode(n, v) \in PlainOf(G)
         /\ Unpadded(n, v) \in ValuesOf(G)
<1>1. v \in Values /\ v.by \in G
  BY DEF ValuesOf
<1>2. Bin(n) \in BOOLEAN
  BY DEF Bin
<1>3. Encode(n, v) \in Values /\ Encode(n, v).by = v.by /\ Encode(n, v).coded = Bin(n)
  BY <1>1, <1>2 DEF Values, Encode
<1>4. /\ [v EXCEPT !.padded = FALSE] \in Values /\ [v EXCEPT !.padded = FALSE].by = v.by
      /\ [v EXCEPT !.padded = FALSE].coded = v.coded
  BY <1>1 DEF Values
<1>5. Decode(n, v) \in Values /\ Decode(n, v).by = v.by /\ ~Decode(n, v).coded
  BY <1>1 DEF Values, Decode
<1> QED BY <1>1, <1>3, <1>4, <1>5 DEF ValuesOf, PlainOf, Trim, Unpadded

\* A value comes as it was given, without the white space around it unless
\* base64 kept it.
LEMMA ValueTravels ==
  ASSUME NEW G, NEW v \in PlainOf(G), NEW n, NEW m
  PROVE  Decode(n, Trim(n, Encode(m, v))) = Unpadded(m, v)
BY DEF ValuesOf, PlainOf, Values, Encode, Trim, Decode, Unpadded, Bin

LEMMA ReceivedType ==
  ASSUME NEW G, NEW n, NEW s \in Seq(ValuesOf(G))
  PROVE  /\ Received(n, s) \in Seq(PlainOf(G)) /\ Len(Received(n, s)) = Len(s)
         /\ \A i \in 1 .. Len(s) : Received(n, s)[i] = Decode(n, Trim(n, s[i]))
<1>1. Len(s) \in Nat /\ DOMAIN s = 1 .. Len(s) /\ \A i \in 1 .. Len(s) : s[i] \in ValuesOf(G)
  BY LenProperties, ElementOfSeq
<1>2. \A i \in 1 .. Len(s) : Decode(n, Trim(n, s[i])) \in PlainOf(G)
  BY <1>1, ValueSteps
<1>3. Received(n, s) \in [1 .. Len(s) -> PlainOf(G)]
  BY <1>1, <1>2 DEF Received
<1>4. \A i \in 1 .. Len(s) : Received(n, s)[i] = Decode(n, Trim(n, s[i]))
  BY <1>1 DEF Received
<1> QED BY <1>1, <1>3, <1>4, FunIsSeq

LEMMA ReceivedEmpty == ASSUME NEW n PROVE Received(n, <<>>) = <<>>
BY ReceivedType, EmptySeq DEF Received

LEMMA ReceivedConcat ==
  ASSUME NEW G, NEW n, NEW s \in Seq(ValuesOf(G)), NEW t \in Seq(ValuesOf(G))
  PROVE  Received(n, s \o t) = Received(n, s) \o Received(n, t)
<1> DEFINE a == Received(n, s)
           b == Received(n, t)
           u == s \o t
           c == Received(n, u)
<1>1. /\ u \in Seq(ValuesOf(G)) /\ Len(u) = Len(s) + Len(t)
      /\ \A i \in 1 .. Len(s) + Len(t) : u[i] = IF i <= Len(s) THEN s[i] ELSE t[i - Len(s)]
      /\ Len(s) \in Nat /\ Len(t) \in Nat
  BY ConcatProperties, LenProperties
<1>2. /\ a \in Seq(PlainOf(G)) /\ Len(a) = Len(s)
      /\ \A i \in 1 .. Len(s) : a[i] = Decode(n, Trim(n, s[i]))
  BY ReceivedType
<1>3. /\ b \in Seq(PlainOf(G)) /\ Len(b) = Len(t)
      /\ \A i \in 1 .. Len(t) : b[i] = Decode(n, Trim(n, t[i]))
  BY ReceivedType
<1> HIDE DEF u
<1>4. /\ c \in Seq(PlainOf(G)) /\ Len(c) = Len(u)
      /\ \A i \in 1 .. Len(u) : c[i] = Decode(n, Trim(n, u[i]))
  <2>1. u \in Seq(ValuesOf(G))
    BY <1>1
  <2> QED BY <2>1, ReceivedType
<1> HIDE DEF a, b, c
<1> DEFINE d == a \o b
<1>5. /\ d \in Seq(PlainOf(G)) /\ Len(d) = Len(a) + Len(b)
      /\ \A i \in 1 .. Len(a) + Len(b) : d[i] = IF i <= Len(a) THEN a[i] ELSE b[i - Len(a)]
  <2>1. a \in Seq(PlainOf(G)) /\ b \in Seq(PlainOf(G))
    BY <1>2, <1>3
  <2> QED BY <2>1, ConcatProperties
<1> HIDE DEF d
<1>6. ASSUME NEW i \in 1 .. Len(c) PROVE c[i] = d[i]
  <2>0. i \in 1 .. Len(s) + Len(t) /\ i \in 1 .. Len(u) /\ i \in 1 .. Len(a) + Len(b)
    BY <1>1, <1>2, <1>3, <1>4
  <2>1. CASE i <= Len(s)
    <3>1. i \in 1 .. Len(s)
      BY <1>1, <2>0, <2>1
    <3>2. u[i] = s[i] /\ d[i] = a[i]
      BY <1>1, <1>2, <1>5, <2>0, <2>1
    <3> QED BY <1>2, <1>4, <2>0, <3>1, <3>2
  <2>2. CASE ~(i <= Len(s))
    <3>1. i - Len(s) \in 1 .. Len(t)
      BY <1>1, <2>0, <2>2
    <3>2. u[i] = t[i - Len(s)] /\ d[i] = b[i - Len(s)]
      BY <1>1, <1>2, <1>5, <2>0, <2>2
    <3> QED BY <1>3, <1>4, <2>0, <3>1, <3>2
  <2> QED BY <2>1, <2>2
<1>7. c = d
  BY <1>1, <1>2, <1>3, <1>4, <1>5, <1>6, SeqEqual
<1> QED BY <1>7 DEF a, b, c, d, u

\* The lines of a name are received as its values were given, reserved names
\* excepted, and -bin values were base64 meanwhile.
LEMMA LinesReceived ==
  ASSUME NEW G, NEW md \in MetadataOf(G), NEW m \in Names, NEW n
  PROVE  /\ Lines(md, m) \in Seq(ValuesOf(G))
         /\ Bin(m) => \A i \in DOMAIN Lines(md, m) : Lines(md, m)[i].coded
         /\ Received(n, Lines(md, m)) = IF Reserved(m) THEN <<>> ELSE AllUnpadded(m, md[m])
<1>1. CASE Reserved(m)
  <2>1. Lines(md, m) = <<>>
    BY <1>1 DEF Lines
  <2> QED BY <1>1, <2>1, EmptySeq, ReceivedEmpty
<1>2. CASE ~Reserved(m)
  <2> DEFINE s == md[m]
             l == [i \in DOMAIN s |-> Encode(m, s[i])]
  <2>1. Lines(md, m) = l
    BY <1>2 DEF Lines, Each
  <2>2. s \in Seq(PlainOf(G))
    BY DEF MetadataOf
  <2> HIDE DEF s
  <2>3. Len(s) \in Nat /\ DOMAIN s = 1 .. Len(s) /\ \A i \in 1 .. Len(s) : s[i] \in PlainOf(G)
    BY <2>2, LenProperties, ElementOfSeq
  <2>4. \A i \in 1 .. Len(s) : Encode(m, s[i]) \in ValuesOf(G) /\ Encode(m, s[i]).coded = Bin(m)
    BY <2>3, ValueSteps DEF PlainOf
  <2>5. l \in [1 .. Len(s) -> ValuesOf(G)] /\ \A i \in 1 .. Len(s) : l[i] = Encode(m, s[i])
    BY <2>3, <2>4
  <2> HIDE DEF l
  <2>6. l \in Seq(ValuesOf(G)) /\ Len(l) = Len(s) /\ DOMAIN l = 1 .. Len(s)
    BY <2>3, <2>5, FunIsSeq
  <2>7. Received(n, l) = AllUnpadded(m, s)
    <3>1. \A i \in 1 .. Len(s) : Decode(n, Trim(n, l[i])) = Unpadded(m, s[i])
      BY <2>3, <2>5, ValueTravels
    <3> QED BY <2>3, <2>6, <3>1 DEF Received, AllUnpadded
  <2>8. Bin(m) => \A i \in DOMAIN l : l[i].coded
    BY <2>4, <2>5, <2>6
  <2> QED BY <1>2, <2>1, <2>6, <2>7, <2>8 DEF s
<1> QED BY <1>1, <1>2

-----------------------------------------------------------------------------
(* Headers.                                                                *)

\* The header a set of lines becomes, once on the other side.
LEMMA WireReceived ==
  ASSUME NEW G, NEW h \in HeadersOf(G)
  PROVE  /\ OnWire(h) \in HeadersOf(G) /\ AsMetadata(h) \in MetadataOf(G)
         /\ \A n \in Names : AsMetadata(OnWire(h))[n] = Received(n, h[n])
         /\ \A n \in Names : /\ DOMAIN OnWire(h)[n] = DOMAIN h[n]
                             /\ \A i \in DOMAIN h[n] : OnWire(h)[n][i].coded = h[n][i].coded
<1>1. ASSUME NEW n \in Names
      PROVE  /\ h[n] \in Seq(ValuesOf(G)) /\ Len(h[n]) \in Nat /\ DOMAIN h[n] = 1 .. Len(h[n])
             /\ \A i \in 1 .. Len(h[n]) : h[n][i] \in ValuesOf(G)
  <2>1. h[n] \in Seq(ValuesOf(G))
    BY DEF HeadersOf
  <2> QED BY <2>1, LenProperties, ElementOfSeq
<1>2. ASSUME NEW n \in Names
      PROVE  /\ [i \in DOMAIN h[n] |-> Trim(n, h[n][i])] \in Seq(ValuesOf(G))
             /\ [i \in DOMAIN h[n] |-> Decode(n, h[n][i])] \in Seq(PlainOf(G))
             /\ \A i \in DOMAIN h[n] : Trim(n, h[n][i]).coded = h[n][i].coded
  <2> DEFINE s == h[n]
             w == [i \in DOMAIN s |-> Trim(n, s[i])]
             r == [i \in DOMAIN s |-> Decode(n, s[i])]
  <2>1. /\ Len(s) \in Nat /\ DOMAIN s = 1 .. Len(s) /\ \A i \in 1 .. Len(s) : s[i] \in ValuesOf(G)
    BY <1>1
  <2> HIDE DEF s
  <2>2. \A i \in 1 .. Len(s) : /\ Trim(n, s[i]) \in ValuesOf(G) /\ Trim(n, s[i]).coded = s[i].coded
                               /\ Decode(n, s[i]) \in PlainOf(G)
    BY <2>1, ValueSteps
  <2>3. w \in [1 .. Len(s) -> ValuesOf(G)] /\ r \in [1 .. Len(s) -> PlainOf(G)]
    BY <2>1, <2>2
  <2> HIDE DEF w, r
  <2>4. w \in Seq(ValuesOf(G)) /\ r \in Seq(PlainOf(G))
    BY <2>1, <2>3, FunIsSeq
  <2> QED BY <2>1, <2>2, <2>4 DEF s, w, r
<1>3. OnWire(h) \in HeadersOf(G) /\ AsMetadata(h) \in MetadataOf(G)
  BY <1>2 DEF OnWire, AsMetadata, Each, HeadersOf, MetadataOf
<1>4. ASSUME NEW n \in Names
      PROVE  /\ OnWire(h)[n] = [i \in DOMAIN h[n] |-> Trim(n, h[n][i])]
             /\ AsMetadata(OnWire(h))[n] = Received(n, h[n])
  BY DEF OnWire, AsMetadata, Each, Received
<1>5. ASSUME NEW n \in Names
      PROVE  /\ DOMAIN OnWire(h)[n] = DOMAIN h[n]
             /\ \A i \in DOMAIN h[n] : OnWire(h)[n][i].coded = h[n][i].coded
  BY <1>2, <1>4
<1> QED BY <1>3, <1>4, <1>5

LEMMA NoneType == ASSUME NEW G PROVE None \in HeadersOf(G) /\ None \in MetadataOf(G)
BY EmptySeq DEF None, HeadersOf, MetadataOf

\* toHeaders appends the lines of metadata to the header it is given.
LEMMA ToHeadersAdds ==
  ASSUME NEW G, NEW md \in MetadataOf(G), NEW h \in HeadersOf(G), NEW p \in {0, 1}
  PROVE  /\ ToHeaders(md, h, p) \in HeadersOf(G)
         /\ \A n \in Names :
              ToHeaders(md, h, p)[n] =
                h[n] \o IF n.pre < p THEN <<>> ELSE Lines(md, [n EXCEPT !.pre = @ - p])
         /\ \A n \in Names : n.pre >= p => [n EXCEPT !.pre = @ - p] \in Names
<1>1. \A n \in Names : n.pre >= p => [n EXCEPT !.pre = @ - p] \in Names
  BY MetadataOK DEF Names, MetadataOK
<1>2. \A n \in Names : ToHeaders(md, h, p)[n] =
                h[n] \o IF n.pre < p THEN <<>> ELSE Lines(md, [n EXCEPT !.pre = @ - p])
  BY DEF ToHeaders
<1>3. ASSUME NEW n \in Names PROVE ToHeaders(md, h, p)[n] \in Seq(ValuesOf(G))
  <2>1. h[n] \in Seq(ValuesOf(G))
    BY DEF HeadersOf
  <2>2. (IF n.pre < p THEN <<>> ELSE Lines(md, [n EXCEPT !.pre = @ - p])) \in Seq(ValuesOf(G))
    <3>1. CASE n.pre < p
      BY <3>1, EmptySeq
    <3>2. CASE n.pre >= p
      <4>1. Lines(md, [n EXCEPT !.pre = @ - p]) \in Seq(ValuesOf(G))
        BY <1>1, <3>2, LinesReceived
      <4>2. ~(n.pre < p)
        BY <3>2 DEF Names
      <4> QED BY <4>1, <4>2
    <3> QED BY <3>1, <3>2 DEF Names
  <2> QED BY <1>2, <2>1, <2>2, ConcatProperties
<1>4. ToHeaders(md, h, p) \in HeadersOf(G)
  BY <1>3 DEF ToHeaders, HeadersOf
<1> QED BY <1>1, <1>2, <1>4

LEMMA ContentTypeSet ==
  ASSUME NEW G, "codec" \in G, NEW h \in HeadersOf(G)
  PROVE  /\ Name(0, ContentType) \in Names /\ ~Bin(Name(0, ContentType))
         /\ Reserved(Name(0, ContentType))
         /\ SetContentType(h) \in HeadersOf(G)
         /\ SetContentType(h)[Name(0, ContentType)] = <<Protobuf>>
         /\ \A n \in Names : n # Name(0, ContentType) => SetContentType(h)[n] = h[n]
<1>1. /\ Name(0, ContentType) \in Names /\ ~Bin(Name(0, ContentType))
      /\ Reserved(Name(0, ContentType))
  BY MetadataOK DEF MetadataOK, Name, Names, Bin, Reserved
<1>2. Protobuf \in ValuesOf(G)
  BY DEF Protobuf, Value, ValuesOf, Values, Givers
<1>3. <<Protobuf>> \in Seq(ValuesOf(G))
  BY <1>2
<1>4. h \in [Names -> Seq(ValuesOf(G))]
  BY DEF HeadersOf
<1> QED BY <1>1, <1>3, <1>4 DEF SetContentType, HeadersOf

LEMMA ProtobufReceived == ASSUME NEW n PROVE Received(n, <<Protobuf>>) = <<Protobuf>>
<1>1. Decode(n, Trim(n, Protobuf)) = Protobuf
  <2>1. Protobuf \in Values /\ ~Protobuf.coded /\ ~Protobuf.padded
    BY DEF Protobuf, Value, Values, Givers
  <2> HIDE DEF Protobuf
  <2>2. Trim(n, Protobuf) = Protobuf
    BY <2>1 DEF Trim, Values
  <2>3. Decode(n, Protobuf) = Protobuf
    BY <2>1 DEF Decode, Values
  <2> QED BY <2>2, <2>3
<1> QED BY <1>1 DEF Received

\* What the lines for the names without the prefix bring.
LEMMA PlainLines ==
  ASSUME NEW G, NEW md \in MetadataOf(G)
  PROVE  /\ ToHeaders(md, None, 0) \in HeadersOf(G)
         /\ \A n \in Names : ToHeaders(md, None, 0)[n] = Lines(md, n)
<1>1. None \in HeadersOf(G)
  BY NoneType
<1>2. ASSUME NEW n \in Names PROVE ToHeaders(md, None, 0)[n] = Lines(md, n)
  <2>1. ~(n.pre < 0) /\ [n EXCEPT !.pre = @ - 0] = n
    BY DEF Names
  <2>2. None[n] = <<>>
    BY DEF None
  <2>3. ToHeaders(md, None, 0)[n] =
          None[n] \o IF n.pre < 0 THEN <<>> ELSE Lines(md, [n EXCEPT !.pre = @ - 0])
    BY DEF ToHeaders
  <2>4. ToHeaders(md, None, 0)[n] = <<>> \o Lines(md, n)
    BY <2>1, <2>2, <2>3
  <2> QED BY <2>4, LinesReceived, ConcatEmptySeq
<1> QED BY <1>1, <1>2, ToHeadersAdds

\* A request that toHeaders wrote is one that asMetadata reads, whatever the
\* metadata, of the names and values that headers can hold (see Metadata); it
\* brings all of it but the reserved names, of which the content type is the
\* codec's.
THEOREM RequestReceived ==
  ASSUME NEW G, "codec" \in G, NEW md \in MetadataOf(G)
  PROVE  /\ Request(md) \in HeadersOf(G) /\ Decodes(Request(md))
         /\ \A n \in Names :
              AsMetadata(Request(md))[n] =
                IF n = Name(0, ContentType) THEN <<Protobuf>>
                ELSE IF Reserved(n) THEN <<>> ELSE AllUnpadded(n, md[n])
<1> DEFINE l == ToHeaders(md, None, 0)
           h == SetContentType(l)
<1>1. l \in HeadersOf(G) /\ \A n \in Names : l[n] = Lines(md, n)
  BY PlainLines
<1> HIDE DEF l
<1>2. /\ h \in HeadersOf(G) /\ h[Name(0, ContentType)] = <<Protobuf>>
      /\ \A n \in Names : n # Name(0, ContentType) => h[n] = l[n]
      /\ ~Bin(Name(0, ContentType))
  BY <1>1, ContentTypeSet
<1> HIDE DEF h
<1>3. /\ OnWire(h) \in HeadersOf(G)
      /\ \A n \in Names : AsMetadata(OnWire(h))[n] = Received(n, h[n])
      /\ \A n \in Names : /\ DOMAIN OnWire(h)[n] = DOMAIN h[n]
                          /\ \A i \in DOMAIN h[n] : OnWire(h)[n][i].coded = h[n][i].coded
  BY <1>2, WireReceived
<1>4. ASSUME NEW n \in Names, Bin(n), NEW i \in DOMAIN h[n] PROVE h[n][i].coded
  BY <1>1, <1>2, <1>4, LinesReceived
<1>5. Decodes(OnWire(h))
  BY <1>3, <1>4 DEF Decodes
<1>6. ASSUME NEW n \in Names
      PROVE  AsMetadata(OnWire(h))[n] =
                IF n = Name(0, ContentType) THEN <<Protobuf>>
                ELSE IF Reserved(n) THEN <<>> ELSE AllUnpadded(n, md[n])
  <2>1. CASE n = Name(0, ContentType)
    BY <1>2, <1>3, <2>1, ProtobufReceived
  <2>2. CASE n # Name(0, ContentType)
    <3>1. AsMetadata(OnWire(h))[n] = Received(n, Lines(md, n))
      BY <1>1, <1>2, <1>3, <2>2
    <3> QED BY <2>2, <3>1, LinesReceived
  <2> QED BY <2>1, <2>2
<1>7. Request(md) = OnWire(h)
  BY DEF Request, h, l
<1> QED BY <1>3, <1>5, <1>6, <1>7

\* The lines of a response are those of its headers, and behind them those of
\* its trailers.
LEMMA ResponseLines ==
  ASSUME NEW G, "codec" \in G, NEW h \in MetadataOf(G), NEW t \in MetadataOf(G)
  PROVE  /\ Response(h, t) \in HeadersOf(G)
         /\ AsMetadata(Response(h, t))[Name(0, ContentType)] = <<Protobuf>>
         /\ \A n \in Names : n.pre = 0 /\ n # Name(0, ContentType) =>
              AsMetadata(Response(h, t))[n] = Received(n, Lines(h, n))
         /\ \A n \in Names, m \in Names : n.pre = m.pre + 1 /\ n.base = m.base =>
              AsMetadata(Response(h, t))[n] = Received(n, Lines(h, n) \o Lines(t, m))
<1> DEFINE a == ToHeaders(h, None, 0)
           b == ToHeaders(t, a, 1)
           w == SetContentType(b)
<1>1. a \in HeadersOf(G) /\ \A n \in Names : a[n] = Lines(h, n)
  BY PlainLines
<1> HIDE DEF a
<1>2. /\ b \in HeadersOf(G)
      /\ \A n \in Names :
           b[n] = a[n] \o IF n.pre < 1 THEN <<>> ELSE Lines(t, [n EXCEPT !.pre = @ - 1])
      /\ \A n \in Names : n.pre >= 1 => [n EXCEPT !.pre = @ - 1] \in Names
  BY <1>1, ToHeadersAdds
<1> HIDE DEF b
<1>3. /\ w \in HeadersOf(G) /\ w[Name(0, ContentType)] = <<Protobuf>>
      /\ \A n \in Names : n # Name(0, ContentType) => w[n] = b[n]
      /\ Name(0, ContentType) \in Names
  BY <1>2, ContentTypeSet
<1> HIDE DEF w
<1>4. OnWire(w) \in HeadersOf(G) /\ \A n \in Names : AsMetadata(OnWire(w))[n] = Received(n, w[n])
  BY <1>3, WireReceived
<1>5. AsMetadata(OnWire(w))[Name(0, ContentType)] = <<Protobuf>>
  BY <1>3, <1>4, ProtobufReceived
<1>6. ASSUME NEW n \in Names, n.pre = 0, n # Name(0, ContentType)
      PROVE  AsMetadata(OnWire(w))[n] = Received(n, Lines(h, n))
  <2>1. n.pre < 1
    BY <1>6
  <2>2. b[n] = Lines(h, n) \o <<>>
    BY <1>1, <1>2, <2>1
  <2>3. b[n] = Lines(h, n)
    BY <2>2, LinesReceived, ConcatEmptySeq
  <2> QED BY <1>3, <1>4, <1>6, <2>3
<1>7. ASSUME NEW n \in Names, NEW m \in Names, n.pre = m.pre + 1, n.base = m.base
      PROVE  AsMetadata(OnWire(w))[n] = Received(n, Lines(h, n) \o Lines(t, m))
  <2>1. n # Name(0, ContentType) /\ ~(n.pre < 1)
    BY <1>7 DEF Name, Names
  <2>2. [n EXCEPT !.pre = @ - 1] = m
    BY <1>7 DEF Names
  <2>3. b[n] = Lines(h, n) \o Lines(t, m)
    BY <1>1, <1>2, <2>1, <2>2
  <2> QED BY <1>3, <1>4, <2>1, <2>3
<1>8. Response(h, t) = OnWire(w)
  BY DEF Response, w, b, a
<1> QED BY <1>4, <1>5, <1>6, <1>7, <1>8

\* A response brings the headers a method set, but for the reserved names: the
\* content type is the codec's, and the others are not sent.  This is toHeaders
\* and setContentType of server.go against asMetadata and setMetadata.
THEOREM HeadersReceived ==
  ASSUME NEW G, "codec" \in G, NEW h \in MetadataOf(G), NEW t \in MetadataOf(G),
         NEW n \in Names, n.pre = 0
  PROVE  HeaderPart(AsMetadata(Response(h, t)))[n] =
           IF n = Name(0, ContentType) THEN <<Protobuf>>
           ELSE IF Reserved(n) THEN <<>> ELSE AllUnpadded(n, h[n])
<1> DEFINE md == AsMetadata(Response(h, t))
<1>1. md[n] = IF n = Name(0, ContentType) THEN <<Protobuf>> ELSE Received(n, Lines(h, n))
  BY ResponseLines
<1>2. Received(n, Lines(h, n)) = IF Reserved(n) THEN <<>> ELSE AllUnpadded(n, h[n])
  BY LinesReceived
<1> HIDE DEF md
<1>3. HeaderPart(md)[n] = md[n]
  BY DEF HeaderPart
<1> QED BY <1>1, <1>2, <1>3 DEF md

\* A response brings the trailers a method set, reserved names excepted, and
\* ahead of them the headers that are spelled like one of them.
THEOREM TrailersReceived ==
  ASSUME NEW G, "codec" \in G, NEW h \in MetadataOf(G), NEW t \in MetadataOf(G),
         NEW n \in AppNames, NEW p \in Names, p.pre = n.pre + 1, p.base = n.base
  PROVE  TrailerPart(AsMetadata(Response(h, t)))[n] =
           AllUnpadded(n, h[p]) \o IF Reserved(n) THEN <<>> ELSE AllUnpadded(n, t[n])
<1> DEFINE md == AsMetadata(Response(h, t))
<1>1. n \in Names /\ n.pre < MaxPre /\ ~Reserved(p)
  BY MetadataOK DEF AppNames, Names, Reserved, MetadataOK
<1>2. md[p] = Received(p, Lines(h, p) \o Lines(t, n))
  BY <1>1, ResponseLines
<1>3. /\ Lines(h, p) \in Seq(ValuesOf(G)) /\ Lines(t, n) \in Seq(ValuesOf(G))
      /\ Received(p, Lines(h, p)) = AllUnpadded(p, h[p])
      /\ Received(p, Lines(t, n)) = IF Reserved(n) THEN <<>> ELSE AllUnpadded(n, t[n])
  BY <1>1, LinesReceived
<1>4. Received(p, Lines(h, p) \o Lines(t, n)) = Received(p, Lines(h, p)) \o Received(p, Lines(t, n))
  <2> DEFINE a == Lines(h, p)
             b == Lines(t, n)
  <2>1. a \in Seq(ValuesOf(G)) /\ b \in Seq(ValuesOf(G))
    BY <1>3
  <2> HIDE DEF a, b
  <2>2. Received(p, a \o b) = Received(p, a) \o Received(p, b)
    BY <2>1, ReceivedConcat
  <2> QED BY <2>2 DEF a, b
<1>5. AllUnpadded(p, h[p]) = AllUnpadded(n, h[p])
  BY <1>1 DEF AllUnpadded, Unpadded, Bin
<1>6. TrailerPart(md)[n] = md[p]
  <2>1. [n EXCEPT !.pre = @ + 1] = p
    BY <1>1 DEF Names
  <2> HIDE DEF md
  <2> QED BY <1>1, <2>1 DEF TrailerPart
<1> QED BY <1>2, <1>3, <1>4, <1>5, <1>6
=============================================================================
