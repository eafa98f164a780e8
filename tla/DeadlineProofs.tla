--------------------------- MODULE DeadlineProofs ---------------------------
(***************************************************************************)
(* What TLAPS proves about Deadline, for any length of a millisecond and   *)
(* of the other units, any width of the integers that holds one, any       *)
(* deadlines and timeouts, and any number of servers.                      *)
(***************************************************************************)
EXTENDS Deadline, TLAPS

Ranges ==
  /\ now \in Nat /\ now <= MaxTime /\ stamp \in Nat /\ transit \in Nat
  /\ stamp <= now /\ transit <= stamp
  /\ hops \in Nat /\ dl \in Int /\ orig \in Int
  /\ has \in BOOLEAN /\ own \in BOOLEAN
  /\ at \in {"new", "caller", "wire", "method"}
  /\ given \in Texts \cup {NoHeader}

\* Where a header comes from, and how far the deadline behind it is at most.
Written ==
  /\ at = "new" => ~own
  /\ at \in {"new", "caller"} => hops = 0 /\ transit = 0 /\ header = NoHeader
  /\ at = "caller" => has = own /\ (own => dl = orig /\ orig <= now + Half \div 2)
  /\ at = "wire" =>
       /\ hops = 0 => has = own
       /\ header = IF has THEN [n |-> Millis(dl - stamp), unit |-> "m"]
                          ELSE IF hops = 0 THEN given ELSE NoHeader
  /\ at = "method" => hops # 0 /\ header \in Headers \cup Texts
  /\ at \in {"wire", "method"} =>
       /\ has => dl - stamp < Half
       /\ own => orig + transit <= stamp + Half \div 2

IInv == Ranges /\ Written /\ NotEarly /\ NotLate /\ ExpiredByCallerOnly

-----------------------------------------------------------------------------
(* Lemmas about the arithmetic.                                            *)

\* Multiplication in Go's integers is exact while the product fits ...
LEMMA WrapFits == ASSUME NEW x \in Int, -Half <= x, x < Half PROVE Wrap(x) = x
<1>1. x + Half \in Nat /\ x + Half < 2 * Half /\ 2 * Half \in Nat \ {0}
  BY DeadlineOK
<1>2. (x + Half) % (2 * Half) = x + Half
  <2> DEFINE y == x + Half
             m == 2 * Half
  <2>1. y \in Nat /\ m \in Nat \ {0} /\ y < m
    BY <1>1
  <2> HIDE DEF y, m
  <2>2. y % m = y
    BY <2>1, SMT
  <2> QED BY <2>2 DEF y, m
<1> QED BY <1>2, DeadlineOK DEF Wrap

\* ... and in range when it does not.
LEMMA WrapRange == ASSUME NEW x \in Int PROVE Wrap(x) \in -Half .. Half - 1
<1> DEFINE y == x + Half
           m == 2 * Half
<1>1. y \in Int /\ m \in Nat \ {0}
  BY DeadlineOK
<1>2. y % m \in 0 .. m - 1
  <2> HIDE DEF y, m
  <2> QED BY <1>1, SMT
<1> QED BY <1>2, DeadlineOK DEF Wrap

\* What headersFromContext writes is at least a millisecond, is no longer than
\* what was left or a millisecond, and cuts off less than a millisecond.
LEMMA MillisBounds ==
  ASSUME NEW left \in Int
  PROVE  /\ Millis(left) \in Nat \ {0}
         /\ Millis(left) * Ms <= left \/ Millis(left) * Ms = Ms
         /\ left - (Ms - 1) <= Millis(left) * Ms
<1>0. Ms \in Nat \ {0}
  BY DeadlineOK
<1>1. CASE left < 0
  <2>1. Trunc(left) <= 0
    <3>1. \A x \in Nat, m \in Nat \ {0} : x \div m \in Nat
      BY SMT
    <3>2. (-left) \div Ms \in Nat
      BY <1>0, <1>1, <3>1
    <3> QED BY <1>1, <3>2 DEF Trunc
  <2>2. Millis(left) = 1
    BY <2>1 DEF Millis
  <2> QED BY <1>0, <1>1, <2>2
<1>2. CASE left >= 0
  <2> DEFINE d == left \div Ms
  <2>1. d \in Nat /\ d * Ms <= left /\ left < d * Ms + Ms
    <3>1. \A x \in Nat, m \in Nat \ {0} :
             x \div m \in Nat /\ (x \div m) * m <= x /\ x < (x \div m) * m + m
      BY SMT
    <3> QED BY <1>0, <1>2, <3>1
  <2>2. Millis(left) = IF d <= 0 THEN 1 ELSE d
    BY <1>2 DEF Millis, Trunc
  <2> HIDE DEF d
  <2>3. CASE d = 0
    BY <1>0, <2>1, <2>2, <2>3
  <2>4. CASE d # 0
    <3>1. Millis(left) = d
      BY <2>1, <2>2, <2>4
    <3> QED BY <1>0, <2>1, <2>4, <3>1
  <2> QED BY <2>3, <2>4
<1> QED BY <1>1, <1>2

\* A timeout that was written from a deadline in range is read back whole.
LEMMA ReadBack ==
  ASSUME NEW left \in Int, left < Half, NEW h, h = [n |-> Millis(left), unit |-> "m"]
  PROVE  /\ Understood(h)
         /\ Timeout(h) = Millis(left) * Ms
         /\ Timeout(h) \in 1 .. Half - 1
<1> DEFINE n == Millis(left)
<1>0. Ms \in Nat \ {0} /\ Half \in Nat /\ Ms < Half
  BY DeadlineOK
<1>1. n \in Nat \ {0} /\ (n * Ms <= left \/ n * Ms = Ms)
  BY MillisBounds
<1>2. h.n = n /\ h.unit = "m" /\ "m" \in DOMAIN UnitLen /\ UnitLen["m"] = Ms
  BY DeadlineOK
<1> HIDE DEF n
<1>3. n * Ms \in Nat /\ n <= n * Ms /\ Ms <= n * Ms
  BY <1>0, <1>1
<1>4. n * Ms < Half
  BY <1>0, <1>1, <1>3
<1>5. Understood(h)
  BY <1>0, <1>1, <1>2, <1>3, <1>4 DEF Understood
<1>6. Wrap(n * Ms) = n * Ms
  BY <1>0, <1>3, <1>4, WrapFits
<1>7. Timeout(h) = n * Ms
  BY <1>2, <1>6 DEF Timeout
<1> QED BY <1>0, <1>3, <1>4, <1>5, <1>7 DEF n

-----------------------------------------------------------------------------
(* The invariant.                                                          *)

\* What is between a number and half of it.
LEMMA HalfOfHalf == Half \in Nat /\ Half \div 2 \in Nat /\ Half \div 2 < Half
<1>1. Half \in Nat /\ 0 < Half
  BY DeadlineOK
<1>2. \A x \in Nat : 0 < x => x \div 2 \in Nat /\ x \div 2 < x
  BY SMT
<1> QED BY <1>1, <1>2

\* Headers are what they are typed to be.
LEMMA HeaderTyped ==
  ASSUME NEW n \in Int, NEW u \in DOMAIN UnitLen \cup {""}
  PROVE  [n |-> n, unit |-> u] \in Headers
BY DEF Headers

LEMMA NoHeaderTyped == NoHeader \in Headers
<1>1. 0 \in Int /\ "" \in DOMAIN UnitLen \cup {""}
  OBVIOUS
<1> QED BY <1>1, HeaderTyped DEF NoHeader

LEMMA InitInv == Init => IInv
<1> SUFFICES ASSUME Init PROVE IInv
  OBVIOUS
<1> USE DEF Init
<1>0. MaxTime \in Nat
  BY DeadlineOK
<1>1. Ranges
  <2>1. given \in Texts \cup {NoHeader} /\ has \in BOOLEAN /\ own \in BOOLEAN
    OBVIOUS
  <2>2. now <= MaxTime
    BY <1>0
  <2> QED BY <2>1, <2>2 DEF Ranges
<1>2. Written
  BY DEF Written
<1>3. NotEarly /\ NotLate /\ ExpiredByCallerOnly
  BY DEF NotEarly, NotLate, ExpiredByCallerOnly
<1> QED BY <1>1, <1>2, <1>3 DEF IInv

LEMMA CallKeeps == ASSUME IInv, Call PROVE IInv'
<1> USE DEF Call, history
<1>0. Ranges /\ Written
  BY DEF IInv
<1>1. Half \in Nat /\ Ms \in Nat \ {0}
  BY DeadlineOK
<1>2. has' => dl' \in Int /\ dl' <= now + Half \div 2
  BY <1>0, DeadlineOK DEF Ranges
<1>3. Ranges'
  BY <1>0, <1>2 DEF Ranges
<1>4. Written'
  BY <1>0, <1>2 DEF Ranges, Written
<1>5. ExpiredByCallerOnly'
  BY DEF ExpiredByCallerOnly
<1>6. (NotEarly /\ NotLate)'
  <2>1. has' = own' /\ dl' = orig' /\ hops' = 0 /\ transit' = 0
    BY <1>0 DEF Written
  <2>2. 0 * (Ms - 1) = 0
    BY <1>1
  <2>3. dl' \in Int
    BY <1>3 DEF Ranges
  <2>4. orig' - dl' <= hops' * (Ms - 1) /\ dl' <= orig' + transit'
    BY <2>1, <2>2, <2>3
  <2> QED BY <2>1, <2>4 DEF NotEarly, NotLate
<1> QED BY <1>3, <1>4, <1>5, <1>6 DEF IInv

LEMMA SendKeeps == ASSUME IInv, HeadersFromContext PROVE IInv'
<1> USE DEF HeadersFromContext, history
<1>0. Ranges /\ Written /\ NotEarly /\ NotLate
  BY DEF IInv
<1>1. Half \in Nat /\ Ms \in Nat \ {0} /\ Ms < Half
  BY DeadlineOK
<1>2. at = "caller" \/ at = "method"
  BY DEF MayInvoke
<1>3. Ranges'
  BY <1>0 DEF Ranges
<1>4. Written'
  <2>1. hops' = 0 => has' = own'
    BY <1>0, <1>2 DEF Written
  <2>2. header' = IF has' THEN [n |-> Millis(dl' - stamp'), unit |-> "m"]
                          ELSE IF hops' = 0 THEN given' ELSE NoHeader
    BY <1>0, <1>2 DEF Written
  <2>3. has' => dl' - stamp' < Half
    <3>1. CASE at = "caller"
      <4>1. has => dl <= now + Half \div 2
        BY <1>0, <3>1 DEF Written
      <4> QED BY <1>0, <4>1, HalfOfHalf DEF Ranges
    <3>2. CASE at = "method"
      <4>1. has => dl - stamp < Half
        BY <1>0, <3>2 DEF Written
      <4> QED BY <1>0, <4>1, HalfOfHalf DEF Ranges
    <3> QED BY <1>2, <3>1, <3>2
  <2>4. own' => orig' + transit' <= stamp' + Half \div 2
    <3>1. CASE at = "caller"
      <4>1. transit = 0 /\ (own => orig <= now + Half \div 2)
        BY <1>0, <3>1 DEF Written
      <4> QED BY <1>0, <4>1, HalfOfHalf DEF Ranges
    <3>2. CASE at = "method"
      <4>1. own => orig + transit <= stamp + Half \div 2
        BY <1>0, <3>2 DEF Written
      <4> QED BY <1>0, <4>1, HalfOfHalf DEF Ranges
    <3> QED BY <1>2, <3>1, <3>2
  <2> QED BY <2>1, <2>2, <2>3, <2>4 DEF Written
<1>5. ExpiredByCallerOnly'
  BY DEF ExpiredByCallerOnly
<1>6. (NotEarly /\ NotLate)'
  BY <1>0, <1>1 DEF Ranges, NotEarly, NotLate
<1> QED BY <1>3, <1>4, <1>5, <1>6 DEF IInv

\* A header the caller wrote itself gives a deadline in the future unless its
\* timeout is not positive or too long.
LEMMA OwnHeader ==
  ASSUME NEW h \in Texts \cup {NoHeader}, Understood(h)
  PROVE  /\ Timeout(h) \in -Half .. Half - 1
         /\ Timeout(h) <= 0 => h.n <= 0 \/ h.n * UnitLen[h.unit] >= Half
<1>0. Half \in Nat
  BY DeadlineOK
<1>1. h.n \in Int /\ UnitLen[h.unit] \in Nat \ {0}
  <2>1. CASE h \in Texts
    BY <2>1, DeadlineOK DEF Understood
  <2>2. CASE h = NoHeader
    BY <2>2, DeadlineOK DEF Understood, NoHeader
  <2> QED BY <2>1, <2>2
<1> DEFINE x == h.n * UnitLen[h.unit]
<1>2. x \in Int /\ (h.n > 0 => x > 0)
  BY <1>1
<1>3. Timeout(h) = Wrap(x)
  BY DEF Timeout
<1> HIDE DEF x
<1>4. Timeout(h) \in -Half .. Half - 1
  BY <1>2, <1>3, WrapRange
<1>5. CASE 0 < x /\ x < Half
  BY <1>0, <1>2, <1>3, <1>4, <1>5, WrapFits
<1>6. CASE ~(0 < x /\ x < Half)
  BY <1>0, <1>1, <1>2, <1>4, <1>6 DEF x
<1> QED BY <1>5, <1>6

LEMMA ReceiveKeeps == ASSUME IInv, ContextFromHeaders PROVE IInv'
<1> USE DEF ContextFromHeaders
<1>0. Ranges /\ Written /\ NotEarly /\ NotLate /\ at = "wire"
  BY DEF IInv
<1>1. Half \in Nat /\ Ms \in Nat \ {0} /\ Ms < Half
  BY DeadlineOK
<1> DEFINE left == dl - stamp
<1>2. left \in Int /\ (has => left < Half)
  BY <1>0 DEF Ranges, Written
<1>3. has => header = [n |-> Millis(left), unit |-> "m"]
  BY <1>0 DEF Written
<1>4. ~has => header = (IF hops = 0 THEN given ELSE NoHeader)
  BY <1>0 DEF Written
<1>5. has => /\ has' /\ dl' = now + Millis(left) * Ms
             /\ Millis(left) * Ms \in 1 .. Half - 1
  BY <1>2, <1>3, ReadBack
<1>6. ~Understood(NoHeader)
  BY DeadlineOK DEF Understood, NoHeader
<1>7. ~has /\ has' => /\ hops = 0 /\ header = given /\ Understood(given)
                      /\ dl' = now + Timeout(given)
  BY <1>4, <1>6
<1>8. ~has /\ has' => Timeout(given) \in -Half .. Half - 1
  BY <1>0, <1>7, OwnHeader DEF Ranges
<1>9. dl' \in Int /\ (has' => dl' - stamp' \in -Half .. Half - 1)
  BY <1>0, <1>1, <1>5, <1>7, <1>8 DEF Ranges
<1>10. own => has
  BY <1>0 DEF NotEarly
<1>11. Ranges'
  BY <1>0, <1>9 DEF Ranges, Understood
<1>12. Written'
  <2>1. header' \in Headers \cup Texts
    <3>1. CASE has
      <4>1. Millis(left) \in Int
        BY <1>2, MillisBounds
      <4>2. "m" \in DOMAIN UnitLen
        BY DeadlineOK
      <4> HIDE DEF left
      <4>3. header \in Headers
        BY <3>1, <1>3, <4>1, <4>2, HeaderTyped
      <4> QED BY <4>3 DEF Headers
    <3>2. CASE ~has
      BY <3>2, <1>0, <1>4, NoHeaderTyped DEF Ranges, Headers
    <3> QED BY <3>1, <3>2
  <2>2. has' => dl' - stamp' < Half
    BY <1>1, <1>9
  <2>3. own' => orig' + transit' <= stamp' + Half \div 2
    BY <1>0, <1>1 DEF Ranges, Written
  <2>4. hops' # 0
    BY <1>0 DEF Ranges
  <2> QED BY <2>1, <2>2, <2>3, <2>4 DEF Written
<1>13. NotEarly'
  <2> SUFFICES ASSUME own PROVE has' /\ orig - dl' <= (hops + 1) * (Ms - 1)
    BY DEF NotEarly
  <2>1. orig - dl <= hops * (Ms - 1)
    BY <1>0 DEF NotEarly
  <2>2. left - (Ms - 1) <= Millis(left) * Ms
    BY <1>2, MillisBounds
  <2>3. dl - (Ms - 1) <= dl'
    BY <1>0, <1>1, <1>5, <1>10, <2>2 DEF Ranges
  <2>4. (hops + 1) * (Ms - 1) = hops * (Ms - 1) + (Ms - 1)
    BY <1>0, <1>1 DEF Ranges
  <2>5. hops * (Ms - 1) \in Int
    BY <1>0, <1>1 DEF Ranges
  <2> HIDE DEF left
  <2> QED BY <1>0, <1>1, <1>5, <1>9, <1>10, <2>1, <2>3, <2>4, <2>5 DEF Ranges
<1>14. NotLate'
  <2> SUFFICES ASSUME own PROVE dl' <= orig + transit' \/ dl' <= stamp' + Ms
    BY DEF NotLate
  <2>1. CASE Millis(left) * Ms = Ms
    BY <1>0, <1>1, <1>5, <1>10, <2>1 DEF Ranges
  <2>2. CASE Millis(left) * Ms <= left /\ Millis(left) * Ms # Ms
    <3>1. Millis(left) \in Nat \ {0}
      BY <1>2, MillisBounds
    <3>2. Ms < Millis(left) * Ms
      BY <1>1, <2>2, <3>1
    <3>3. dl <= orig + transit
      BY <1>0, <1>1, <1>5, <1>10, <2>2, <3>2 DEF Ranges, NotLate
    <3> QED BY <1>0, <1>1, <1>5, <1>10, <2>2, <3>3 DEF Ranges
  <2> QED BY <1>2, <2>1, <2>2, MillisBounds
<1>15. ExpiredByCallerOnly'
  <2> SUFFICES ASSUME has', dl' <= stamp'
               PROVE  /\ ~own /\ hops + 1 = 1
                      /\ given.n <= 0 \/ given.n * UnitLen[given.unit] >= Half
    BY DEF ExpiredByCallerOnly
  <2>1. ~has
    BY <1>0, <1>1, <1>5 DEF Ranges
  <2>2. Timeout(given) <= 0
    BY <1>0, <1>1, <1>7, <1>8, <2>1 DEF Ranges
  <2> QED BY <1>0, <1>7, <1>10, <2>1, <2>2, OwnHeader DEF Ranges
<1> QED BY <1>11, <1>12, <1>13, <1>14, <1>15 DEF IInv

LEMMA TickKeeps == ASSUME IInv, Tick PROVE IInv'
<1> USE DEF Tick, history
<1>0. MaxTime \in Nat /\ Half \in Nat
  BY DeadlineOK
<1>1. Ranges'
  BY <1>0 DEF IInv, Ranges
<1>2. Written'
  BY <1>0 DEF IInv, Ranges, Written
<1>3. (NotEarly /\ NotLate /\ ExpiredByCallerOnly)'
  BY DEF IInv, NotEarly, NotLate, ExpiredByCallerOnly
<1> QED BY <1>1, <1>2, <1>3 DEF IInv

LEMMA StutterKeeps == ASSUME IInv, UNCHANGED vars PROVE IInv'
BY DEF vars, history, IInv, Ranges, Written, NotEarly, NotLate, ExpiredByCallerOnly

LEMMA Always == Spec => []IInv
<1>1. IInv /\ [Next]_vars => IInv'
  BY CallKeeps, SendKeeps, ReceiveKeeps, TickKeeps, StutterKeeps DEF Next
<1> QED BY <1>1, InitInv, PTL DEF Spec

-----------------------------------------------------------------------------
(* The theorems.                                                           *)

\* Every variable keeps its type; in particular a timeout that is written from
\* a deadline, at whatever hop, is positive and multiplies without overflow.
THEOREM DeadlineTypeCorrect == Spec => []TypeOK
<1>1. IInv => TypeOK
  <2> SUFFICES ASSUME IInv PROVE TypeOK
    OBVIOUS
  <2>1. Ranges /\ Written
    BY DEF IInv
  <2>2. header \in Headers \cup Texts
    <3>1. CASE at = "wire" /\ has
      <4>1. Millis(dl - stamp) \in Int /\ "m" \in DOMAIN UnitLen
        BY <2>1, MillisBounds, DeadlineOK DEF Ranges
      <4>2. header = [n |-> Millis(dl - stamp), unit |-> "m"]
        BY <2>1, <3>1 DEF Written
      <4> QED BY <4>1, <4>2, HeaderTyped
    <3>2. CASE at = "wire" /\ ~has
      BY <2>1, NoHeaderTyped, <3>2 DEF Ranges, Written
    <3>3. CASE at # "wire"
      BY <2>1, NoHeaderTyped, <3>3 DEF Ranges, Written
    <3> QED BY <3>1, <3>2, <3>3
  <2>3. now \in 0 .. MaxTime /\ stamp \in 0 .. now /\ transit \in 0 .. now
    BY <2>1, DeadlineOK DEF Ranges
  <2>4. ASSUME at = "wire", has
        PROVE  /\ header.unit = "m" /\ header.n \in Nat \ {0}
               /\ header.n * UnitLen["m"] < Half
    <3> DEFINE left == dl - stamp
    <3>1. left \in Int /\ left < Half /\ header = [n |-> Millis(left), unit |-> "m"]
      BY <2>1, <2>4 DEF Ranges, Written
    <3>2. /\ Millis(left) \in Nat \ {0}
          /\ Millis(left) * Ms <= left \/ Millis(left) * Ms = Ms
      BY <3>1, MillisBounds
    <3> HIDE DEF left
    <3>3. Millis(left) * Ms < Half
      BY <3>1, <3>2, DeadlineOK
    <3> QED BY <3>1, <3>2, <3>3, DeadlineOK
  <2> QED BY <2>1, <2>2, <2>3, <2>4 DEF TypeOK, Ranges
<1> QED BY <1>1, Always, PTL

\* However many servers a deadline passes, it is not shortened by a millisecond
\* for each of them, nor lost.
THEOREM NeverEarly == Spec => []NotEarly
<1>1. IInv => NotEarly
  BY DEF IInv
<1> QED BY <1>1, Always, PTL

\* Nor does it grow by more than the time on the wire, while there is any left.
THEOREM NeverLate == Spec => []NotLate
<1>1. IInv => NotLate
  BY DEF IInv
<1> QED BY <1>1, Always, PTL

\* No deadline that a program of notnets wrote is past on arrival.
THEOREM ExpiredOnlyByCaller == Spec => []ExpiredByCallerOnly
<1>1. IInv => ExpiredByCallerOnly
  BY DEF IInv
<1> QED BY <1>1, Always, PTL
=============================================================================
