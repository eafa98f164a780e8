------------------------------ MODULE Deadline -------------------------------
(***************************************************************************)
(* The deadline of a call as it is handed on: the context of the caller    *)
(* has one or not; headersFromContext writes what is left of it into the   *)
(* GRPC-Timeout header, contextFromHeaders gives the method's context a    *)
(* deadline of its own from that, and a method that Invokes another server *)
(* with its context hands it on again.  A caller without a deadline may    *)
(* set the header itself, with any number and unit.                        *)
(*                                                                         *)
(* Time is a number of ns, of which a millisecond has Ms; the lengths of   *)
(* the units and the range of Go's int64 are scaled down alike.            *)
(***************************************************************************)
EXTENDS Integers

CONSTANTS
  Ms,        \* time.Millisecond
  UnitLen,   \* the length of each unit that contextFromHeaders knows
  Half,      \* int64 is -Half .. Half - 1
  Deadlines, \* deadlines of a caller's context
  Texts,     \* [n, unit] of GRPC-Timeout headers that callers set themselves
  MaxHops,   \* bound: servers that hand the deadline on
  MaxTime    \* bound: the clock

ASSUME DeadlineOK ==
  /\ Ms \in Nat \ {0} /\ Half \in Nat /\ Ms < Half /\ MaxHops \in Nat /\ MaxTime \in Nat
  /\ UnitLen \in [{"H", "M", "S", "m", "u", "n"} -> Nat \ {0}] /\ UnitLen["m"] = Ms
  /\ Deadlines \subseteq -Half \div 2 .. Half \div 2
  /\ \A t \in Texts : t.n \in Int

VARIABLES
  now,      \* the clock
  at,       \* who has the call: new | caller | wire | method
  hops,     \* how many servers it has reached
  dl,       \* the deadline of the context that has it, if has
  has,
  header,   \* the GRPC-Timeout header, [n, unit]; unit "" if there is none
  given,    \* the header that the caller puts in its metadata itself
  own,      \* history: the caller's context had a deadline, and
  orig,     \*   this is it
  stamp,    \* history: when the header was written, or read
  transit   \* history: how long the call was on the wire

history == <<own, orig, stamp, transit>>
vars    == <<now, at, hops, dl, has, header, given, history>>

NoHeader == [n |-> 0, unit |-> ""]

Init ==
  /\ now = 0 /\ at = "new" /\ hops = 0
  /\ dl = 0 /\ has = FALSE
  /\ header = NoHeader /\ given = NoHeader
  /\ own = FALSE /\ orig = 0 /\ stamp = 0 /\ transit = 0

\* Two's complement, as Go multiplies int64.
Wrap(x) == ((x + Half) % (2 * Half)) - Half

\* Go divides towards zero.
Trunc(x) == IF x >= 0 THEN x \div Ms ELSE -((-x) \div Ms)

\* What is left, in milliseconds, and no less than one.
\* Mutants: no less than none; not divided by time.Millisecond.
MillisMayBeZero(left) == IF Trunc(left) < 0 THEN 0 ELSE Trunc(left)
MillisUndivided(left) == IF left <= 0 THEN 1 ELSE left
Millis(left)          == IF Trunc(left) <= 0 THEN 1 ELSE Trunc(left)

\* The caller makes its context, with a deadline or without, and may name a
\* timeout in its outgoing metadata.
Call ==
  /\ at = "new"
  /\ at' = "caller"
  /\ \/ has' = FALSE /\ UNCHANGED dl
     \/ has' = TRUE /\ dl' \in {now + d : d \in Deadlines}
  /\ own' = has' /\ orig' = dl'
  /\ given' \in Texts \cup {NoHeader}
  /\ UNCHANGED <<now, hops, header, stamp, transit>>

MayInvoke == at = "caller" \/ (at = "method" /\ hops < MaxHops)

\* Mutant: the header of the metadata stays.
HeadersKeepGiven ==
  /\ MayInvoke
  /\ at' = "wire"
  /\ header' = CASE at = "caller" /\ given # NoHeader -> given
                 [] OTHER -> IF has THEN [n |-> Millis(dl - now), unit |-> "m"] ELSE NoHeader
  /\ stamp' = now
  /\ UNCHANGED <<now, hops, dl, has, given, own, orig, transit>>

\* The metadata of the context is written first; h.Set replaces what it said.
\* A method has no outgoing metadata unless it makes some.
HeadersFromContext ==
  /\ MayInvoke
  /\ at' = "wire"
  /\ header' = CASE has                     -> [n |-> Millis(dl - now), unit |-> "m"]
                 [] ~has /\ at = "caller"   -> given
                 [] ~has /\ at = "method"   -> NoHeader
  /\ stamp' = now
  /\ UNCHANGED <<now, hops, dl, has, given, own, orig, transit>>

\* ParseInt refuses what int64 cannot hold; an unknown unit is ignored.
Understood(h) == h.unit \in DOMAIN UnitLen /\ h.n \in -Half .. Half - 1

\* timeoutVal * unit, and the deadline that WithTimeout makes of it.
\* Mutant: the unit is taken for seconds.
TimeoutInSeconds(h) == Wrap(h.n * UnitLen["S"])
Timeout(h)          == Wrap(h.n * UnitLen[h.unit])

ContextFromHeaders ==
  /\ at = "wire"
  /\ at' = "method"
  /\ hops' = hops + 1
  /\ has' = Understood(header)
  /\ dl' = IF Understood(header) THEN now + Timeout(header) ELSE 0
  /\ transit' = transit + (now - stamp)
  /\ stamp' = now
  /\ UNCHANGED <<now, header, given, own, orig>>

Tick ==
  /\ now < MaxTime
  /\ now' = now + 1
  /\ UNCHANGED <<at, hops, dl, has, header, given, history>>

Next == Call \/ HeadersFromContext \/ ContextFromHeaders \/ Tick

Spec == Init /\ [][Next]_vars

-----------------------------------------------------------------------------
(* Properties                                                              *)

Headers == [n : Int, unit : DOMAIN UnitLen \cup {""}]

\* Every variable holds what the Go values of its kind can hold; in particular
\* a header that headersFromContext writes from a deadline says milliseconds,
\* one or more, and no more than contextFromHeaders multiplies without overflow.
TypeOK ==
  /\ now \in 0 .. MaxTime
  /\ at \in {"new", "caller", "wire", "method"}
  /\ hops \in Nat /\ dl \in Int
  /\ has \in BOOLEAN /\ own \in BOOLEAN
  /\ header \in Headers \cup Texts /\ given \in Texts \cup {NoHeader}
  /\ orig \in Int /\ stamp \in 0 .. now /\ transit \in 0 .. now
  /\ (at = "wire" /\ has) =>
       /\ header.unit = "m" /\ header.n \in Nat \ {0}
       /\ header.n * UnitLen["m"] < Half

\* However many servers hand a deadline on, and whatever the caller's metadata
\* says, no method's context ends before the caller's does but for less than a
\* millisecond that each hop cuts off; and none is without a deadline.
NotEarly == own => has /\ orig - dl <= hops * (Ms - 1)

\* Nor does it end later than the caller's by more than the time the call was
\* on the wire, unless that was up: then the method has a millisecond.
NotLate == own => dl <= orig + transit \/ dl <= stamp + Ms

\* A method's context is past its deadline on arrival only if its caller wrote
\* the timeout itself, not positive or so long that the product overflows.
ExpiredByCallerOnly ==
  (at = "method" /\ has /\ dl <= stamp) =>
    /\ ~own /\ hops = 1
    /\ given.n <= 0 \/ given.n * UnitLen[given.unit] >= Half
=============================================================================
