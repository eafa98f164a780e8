--------------------------- MODULE ServingProofs ----------------------------
(***************************************************************************)
(* What TLAPS proves about Serving, for any set of clients.                *)
(***************************************************************************)
EXTENDS Serving, TLAPS

\* A goroutine runs for exactly the stored pairs, and a pair in Serve's hands
\* is one that the library has given to a client.
ServedInv ==
  /\ serving = [c \in Clients |-> IF c \in conns THEN 1 ELSE 0]
  /\ conns \subseteq {c \in Clients : dial[c] = "returned"}
  /\ loop = "got" => pair \in Clients /\ dial[pair] = "returned"

\* How many goroutines Serve can have started since Stop returned, by what it
\* may still do before it has to see the flag.
LateInv ==
  /\ stop # "returned" => late = 0 /\ ~seen
  /\ stop = "returned" /\ ~seen => late <= (IF loop = "got" THEN 0 ELSE 1)
  /\ seen => loop # "accepting" /\ late <= (IF loop = "got" THEN 1 ELSE 2)

Inv == TypeOK /\ ServedInv /\ LateInv

-----------------------------------------------------------------------------
LEMMA DelaysClosed == \A d \in Delays : NextDelay(d) \in Delays
BY DEF Delays, NextDelay

LEMMA InvInit == Init => Inv
<1>1. ASSUME Init PROVE TypeOK
  <2>1. /\ up \in BOOLEAN /\ listening \in BOOLEAN /\ lis \in BOOLEAN /\ seen \in BOOLEAN
    BY <1>1 DEF Init
  <2>2. 0 \in Delays
    BY DEF Delays
  <2>3. serving \in [Clients -> Nat] /\ cdelay \in [Clients -> Delays]
    BY <1>1, <2>2 DEF Init
  <2>4. dial \in [Clients -> {"off", "opening", "waiting", "returned"}]
    BY <1>1 DEF Init
  <2> QED BY <1>1, <2>1, <2>2, <2>3, <2>4 DEF Init, TypeOK
<1>2. Init => ServedInv
  BY DEF Init, ServedInv
<1>3. Init => LateInv
  BY DEF Init, LateInv
<1> QED BY <1>1, <1>2, <1>3 DEF Inv

LEMMA TypeStep == TypeOK /\ ServedInv /\ [Next]_vars => TypeOK'
<1> SUFFICES ASSUME TypeOK, ServedInv, [Next]_vars PROVE TypeOK'
  OBVIOUS
<1> USE DEF libVars, loopVars, stopVars, clientVars
<1>1. ASSUME NEW c \in Clients, DialCalled(c) \/ DialOpens(c) \/ DialRetries(c) PROVE TypeOK'
  BY <1>1 DEF DialCalled, DialOpens, DialRetries, TypeOK
<1>2. ASSUME NEW c \in Clients, DialFails(c) PROVE TypeOK'
  BY <1>2, DelaysClosed DEF DialFails, TypeOK
<1>3. CASE Listen \/ ServeCalled \/ StopSeen \/ StopNotSeen \/ Wakes
  BY <1>3 DEF Listen, ServeCalled, StopSeen, StopNotSeen, Wakes, TypeOK
<1>4. CASE AcceptsNone \/ AlreadyServed
  BY <1>4, DelaysClosed DEF AcceptsNone, AlreadyServed, AcceptLocks, TypeOK
<1>5. ASSUME NEW c \in Clients, Accepts(c) PROVE TypeOK'
  BY <1>5 DEF Accepts, AcceptLocks, TypeOK
<1>6. CASE StartServing
  <2>1. pair \in Clients
    BY <1>6 DEF StartServing, ServedInv
  <2> QED BY <1>6, <2>1 DEF StartServing, TypeOK
<1>7. CASE StopFlags \/ StopCloses \/ StopPanics
  BY <1>7 DEF StopFlags, StopCloses, StopPanics, TypeOK
<1>8. CASE UNCHANGED vars
  BY <1>8 DEF vars, TypeOK
<1> QED BY <1>1, <1>2, <1>3, <1>4, <1>5, <1>6, <1>7, <1>8 DEF Next, ServeStep

LEMMA ServedStep == TypeOK /\ ServedInv /\ [Next]_vars => ServedInv'
<1> SUFFICES ASSUME TypeOK, ServedInv, [Next]_vars PROVE ServedInv'
  OBVIOUS
<1> USE DEF libVars, loopVars, stopVars, clientVars
<1>1. ASSUME NEW c \in Clients, DialCalled(c) \/ DialOpens(c) \/ DialFails(c) \/ DialRetries(c)
      PROVE  ServedInv'
  <2>1. \A e \in Clients : dial[e] = "returned" => dial'[e] = "returned"
    BY <1>1 DEF DialCalled, DialOpens, DialFails, DialRetries, TypeOK
  <2>2. UNCHANGED <<serving, conns, loop, pair>>
    BY <1>1 DEF DialCalled, DialOpens, DialFails, DialRetries
  <2> QED BY <2>1, <2>2 DEF ServedInv
<1>2. ASSUME NEW c \in Clients, Accepts(c) PROVE ServedInv'
  BY <1>2 DEF Accepts, ServedInv
<1>3. CASE StartServing
  <2>1. pair \in Clients /\ dial[pair] = "returned" /\ pair \notin conns /\ UNCHANGED dial
    BY <1>3 DEF StartServing, ServedInv
  <2>2. serving' = [c \in Clients |-> IF c \in conns' THEN 1 ELSE 0]
    BY <1>3, <2>1 DEF StartServing, ServedInv
  <2>3. conns' \subseteq {c \in Clients : dial'[c] = "returned"}
    BY <1>3, <2>1 DEF StartServing, ServedInv
  <2>4. loop' # "got"
    BY <1>3 DEF StartServing
  <2> QED BY <2>2, <2>3, <2>4 DEF ServedInv
<1>4. CASE Listen \/ ServeCalled \/ StopSeen \/ StopNotSeen \/ AcceptsNone \/ AlreadyServed \/ Wakes
  BY <1>4 DEF Listen, ServeCalled, StopSeen, StopNotSeen, AcceptsNone, AlreadyServed, Wakes, ServedInv
<1>5. CASE StopFlags \/ StopCloses \/ StopPanics \/ UNCHANGED vars
  BY <1>5 DEF StopFlags, StopCloses, StopPanics, vars, ServedInv
<1> QED BY <1>1, <1>2, <1>3, <1>4, <1>5 DEF Next, ServeStep

LEMMA LateStep == TypeOK /\ LateInv /\ [Next]_vars => LateInv'
<1> SUFFICES ASSUME TypeOK, LateInv, [Next]_vars PROVE LateInv'
  OBVIOUS
<1> USE DEF libVars, loopVars, stopVars, clientVars
<1>1. ASSUME NEW c \in Clients, DialCalled(c) \/ DialOpens(c) \/ DialFails(c) \/ DialRetries(c)
      PROVE  LateInv'
  BY <1>1 DEF DialCalled, DialOpens, DialFails, DialRetries, LateInv
<1>2. CASE Listen \/ ServeCalled
  BY <1>2 DEF Listen, ServeCalled, LateInv
<1>3. CASE StopSeen \/ StopNotSeen \/ Wakes
  BY <1>3 DEF StopSeen, StopNotSeen, Wakes, TypeOK, LateInv
<1>4. ASSUME AcceptsNone \/ \E c \in Clients : Accepts(c) PROVE LateInv'
  BY <1>4 DEF AcceptsNone, Accepts, AcceptLocks, TypeOK, LateInv
<1>5. CASE AlreadyServed
  BY <1>5 DEF AlreadyServed, TypeOK, LateInv
<1>6. CASE StartServing
  BY <1>6 DEF StartServing, TypeOK, LateInv
<1>7. CASE StopFlags \/ StopCloses \/ StopPanics
  BY <1>7 DEF StopFlags, StopCloses, StopPanics, TypeOK, LateInv
<1>8. CASE UNCHANGED vars
  BY <1>8 DEF vars, LateInv
<1> QED BY <1>1, <1>2, <1>3, <1>4, <1>5, <1>6, <1>7, <1>8 DEF Next, ServeStep

LEMMA InvAlways == Spec => []Inv
BY InvInit, TypeStep, ServedStep, LateStep, PTL DEF Spec, Inv

\* Every variable of a server and its clients keeps its type, for any clients;
\* in particular the backoff delays stay within Go's doubling and its cap.
THEOREM ServingTypeCorrect == Spec => []TypeOK
<1>1. Inv => TypeOK
  BY DEF Inv
<1> QED BY <1>1, InvAlways, PTL

\* However many clients dial, and whatever pairs the library hands to Accept
\* however often, no queue pair has two goroutines that read its requests.
THEOREM NeverServedTwice == Spec => []ServedOnce
<1>1. Inv => ServedOnce
  BY DEF Inv, TypeOK, ServedInv, ServedOnce
<1> QED BY <1>1, InvAlways, PTL

\* However many clients wait to be accepted, at most two of them get a
\* goroutine after Stop has returned, although s.stop is read without a lock.
THEOREM StopIsPrompt == Spec => []FewLateStarts
<1>1. Inv => FewLateStarts
  BY DEF Inv, TypeOK, LateInv, FewLateStarts
<1> QED BY <1>1, InvAlways, PTL
=============================================================================
