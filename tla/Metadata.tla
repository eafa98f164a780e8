------------------------------ MODULE Metadata -------------------------------
(***************************************************************************)
(* gRPC metadata and the HTTP headers it travels in: the conversions that  *)
(* Invoke and handleMethod apply to it on either side of a connection.     *)
(*                                                                         *)
(* A name is how many times "x-grpc-trailer-" can be taken off its front   *)
(* with something left, and what is left then, its base; so a name that is *)
(* just this prefix is a base.  A base ends in "-bin" or is reserved or    *)
(* neither.  A value is who gave it and which of theirs it is, whether     *)
(* there is white space around it, and whether it is in base64.  Metadata  *)
(* and headers alike map each name to the sequence of its values; an       *)
(* absent name has none.  Names are in lower case.                         *)
(*                                                                         *)
(* Names and values are those that a header of net/http can hold and that  *)
(* it leaves to the program.  Outside of them are "host" and "user-agent", *)
(* which Request.Write replaces or cuts to one value, "content-length",    *)
(* which it writes itself, names that are no field names, which it leaves  *)
(* out, and values with control bytes: it makes spaces of newlines, and    *)
(* ReadRequest refuses the others, so that handleMethod drops the request. *)
(***************************************************************************)
EXTENDS Naturals, Sequences

CONSTANTS
  Bases,         \* names without the trailer prefix
  BinBases,      \* those that end in "-bin"
  ReservedBases, \* those of reservedHeaders
  ContentType,   \* "content-type", one of the latter
  MaxPre         \* bound: how many trailer prefixes a name begins with

ASSUME MetadataOK ==
  /\ BinBases \subseteq Bases
  /\ ContentType \in ReservedBases /\ ReservedBases \subseteq Bases \ BinBases
  /\ MaxPre \in Nat \ {0}

Names    == [pre : 0 .. MaxPre, base : Bases]
AppNames == {n \in Names : n.pre < MaxPre}   \* so that a trailer's has room for the prefix
Givers   == {"codec", "context", "creds", "method", "earlier", "torn"}
Values   == [by : Givers, nr : Nat, padded : BOOLEAN, coded : BOOLEAN]

Name(p, b)          == [pre |-> p, base |-> b]
Value(g, k, padded) == [by |-> g, nr |-> k, padded |-> padded, coded |-> FALSE]
Protobuf            == Value("codec", 0, FALSE)
None                == [n \in Names |-> <<>>]
Pair(n, v)          == [None EXCEPT ![n] = <<v>>]

\* The values of `b' are appended to those of `a'.
Join(a, b) == [n \in Names |-> a[n] \o b[n]]

Bin(n)      == n.base \in BinBases
Reserved(n) == n.pre = 0 /\ n.base \in ReservedBases

\* Does `F' to each value of each name.
Each(md, F(_, _)) == [n \in Names |-> [i \in DOMAIN md[n] |-> F(n, md[n][i])]]

\* What toHeaders adds for one name: no reserved names, and -bin in base64.
Encode(n, v) == [v EXCEPT !.coded = Bin(n)]
Lines(md, n) == IF Reserved(n) THEN <<>> ELSE Each(md, Encode)[n]

\* toHeaders(md, h, prefix), the prefix being the trailers' when p = 1.
ToHeaders(md, h, p) ==
  [n \in Names |-> h[n] \o IF n.pre < p THEN <<>> ELSE Lines(md, [n EXCEPT !.pre = @ - p])]

\* h.Set("Content-Type", ...): both ways the same value, the codec's.
SetContentType(h) == [h EXCEPT ![Name(0, ContentType)] = <<Protobuf>>]

\* net/http writes a header line without the white space around its value.  It
\* does no more to the names and values of this module.
Trim(n, v) == IF v.coded THEN v ELSE [v EXCEPT !.padded = FALSE]
OnWire(h)  == Each(h, Trim)

\* asMetadata fails when a -bin value is not base64, and decodes it otherwise.
\* Mutant: the value is kept as it came.
Decodes(h) == \A n \in Names : Bin(n) => \A i \in DOMAIN h[n] : h[n][i].coded
Keep(n, v)   == v
Decode(n, v) == [v EXCEPT !.coded = FALSE]
AsMetadata(h) == Each(h, Decode)

\* setMetadata: a name with the trailer prefix is a trailer's, without it, if
\* there is something left (trailerName # ""); that is what pre counts.
\* Mutant: the trailers are not deleted from the headers.
HeaderPartKeepsAll(md) == md
HeaderPart(md)  == [n \in Names |-> IF n.pre = 0 THEN md[n] ELSE <<>>]
TrailerPart(md) == [n \in Names |-> IF n.pre < MaxPre THEN md[[n EXCEPT !.pre = @ + 1]] ELSE <<>>]
=============================================================================
