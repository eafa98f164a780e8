------------------------------ MODULE Serving -------------------------------
(***************************************************************************)
(* The life of a server and of the connections to it: Listen, Dial with    *)
(* its retries, the accept loop of Serve with its backoff, the map of the  *)
(* connections it has accepted, the goroutine it starts for each, and      *)
(* Stop, which another goroutine calls.  What is said on a connection is   *)
(* in UnaryRpc.                                                            *)
(***************************************************************************)
EXTENDS Naturals, FiniteSets

CONSTANTS
  Clients,     \* the processes that Dial; also the ClientId of their queue pairs
  NoClient     \* model value: no queue pair

ASSUME NoClientOK == NoClient \notin Clients

VARIABLES
  up,         \* the server process is alive
  listening,  \* the address is registered with the library and not shut down
  lis,        \* s.lis is set
  loop,       \* Serve: off | top | accepting | got | sleeping | returned
  pair,       \* rawConn: the queue pair Accept returned
  delay,      \* tempDelay of Serve, in seconds
  conns,      \* s.conns: the ClientIds that were ever stored
  serving,    \* how many serveRequests goroutines run on each pair
  stop,       \* Stop: no | flagged (s.stop is set) | returned
  seen,       \* lis.mu has ordered the write of s.stop before Serve's next read
  late,       \* history: goroutines started after Stop returned
  dial,       \* Dial: off | opening | waiting | returned
  cdelay      \* tempDelay of Dial, in seconds

libVars    == <<up, listening>>
loopVars   == <<loop, pair, delay, conns, serving, late>>
stopVars   == <<stop, seen>>
clientVars == <<dial, cdelay>>
vars       == <<libVars, lis, loopVars, stopVars, clientVars>>

Init ==
  /\ up = TRUE /\ listening = FALSE /\ lis = FALSE
  /\ loop = "off" /\ pair = NoClient /\ delay = 0
  /\ conns = {} /\ serving = [c \in Clients |-> 0] /\ late = 0
  /\ stop = "no" /\ seen = FALSE
  /\ dial = [c \in Clients |-> "off"] /\ cdelay = [c \in Clients |-> 0]

\* 3 s, doubled, and no more than 25 s; never put back to zero.
\* Mutant: the cap is not applied.
NextDelayUncapped(d) == IF d = 0 THEN 3 ELSE IF d < 100 THEN 2 * d ELSE d
NextDelay(d) == LET t == IF d = 0 THEN 3 ELSE 2 * d
                IN  IF t > 25 THEN 25 ELSE t

-----------------------------------------------------------------------------
(* The client: Dial                                                        *)

DialCalled(c) ==
  /\ dial[c] = "off"
  /\ dial' = [dial EXCEPT ![c] = "opening"]
  /\ UNCHANGED <<libVars, lis, loopVars, stopVars, cdelay>>

\* ClientOpen gives a queue pair when the server's address is registered; what
\* it gives once the server has shut down is the library's business.
MayOpen == listening \/ stop = "returned"

DialOpens(c) ==
  /\ dial[c] = "opening"
  /\ MayOpen
  /\ dial' = [dial EXCEPT ![c] = "returned"]
  /\ UNCHANGED <<libVars, lis, loopVars, stopVars, cdelay>>

DialFails(c) ==
  /\ dial[c] = "opening"
  /\ ~listening
  /\ dial' = [dial EXCEPT ![c] = "waiting"]
  /\ cdelay' = [cdelay EXCEPT ![c] = NextDelay(@)]
  /\ UNCHANGED <<libVars, lis, loopVars, stopVars>>

\* Mutant: Dial gives up after the longest delay.
DialRetriesUntilCap(c) ==
  /\ dial[c] = "waiting"
  /\ cdelay[c] < 25
  /\ dial' = [dial EXCEPT ![c] = "opening"]
  /\ UNCHANGED <<libVars, lis, loopVars, stopVars, cdelay>>

\* The timer of the retry loop fires; there is no last attempt.
DialRetries(c) ==
  /\ dial[c] = "waiting"
  /\ dial' = [dial EXCEPT ![c] = "opening"]
  /\ UNCHANGED <<libVars, lis, loopVars, stopVars, cdelay>>

-----------------------------------------------------------------------------
(* The server: Listen and Serve                                            *)

Listen ==
  /\ up /\ ~listening /\ loop = "off"
  /\ listening' = TRUE
  /\ UNCHANGED <<up, lis, loopVars, stopVars, clientVars>>

ServeCalled ==
  /\ up /\ listening /\ loop = "off"
  /\ lis' = TRUE
  /\ loop' = "top"
  /\ UNCHANGED <<libVars, pair, delay, conns, serving, late, stopVars, clientVars>>

\* `if s.stop' reads the flag without a lock.  It must see the flag set only
\* when lis.mu has ordered the two; otherwise it may or may not.
StopSeen ==
  /\ up /\ loop = "top"
  /\ stop # "no"
  /\ loop' = "returned"
  /\ UNCHANGED <<libVars, lis, pair, delay, conns, serving, late, stopVars, clientVars>>

\* Mutant: the flag is not looked at.
StopIgnored ==
  /\ up /\ loop = "top"
  /\ loop' = "accepting"
  /\ UNCHANGED <<libVars, lis, pair, delay, conns, serving, late, stopVars, clientVars>>

StopNotSeen ==
  /\ up /\ loop = "top"
  /\ stop = "no" \/ ~seen
  /\ loop' = "accepting"
  /\ UNCHANGED <<libVars, lis, pair, delay, conns, serving, late, stopVars, clientVars>>

\* Accept locks lis.mu: the flag is seen from now on if Stop has been there.
\* Mutant: Accept does not lock it.
AcceptDoesNotLock == seen' = seen
AcceptLocks == seen' = (seen \/ stop = "returned")

\* The library has no pair to give: sleep and try again.
AcceptsNone ==
  /\ up /\ loop = "accepting"
  /\ AcceptLocks
  /\ loop' = "sleeping"
  /\ delay' = NextDelay(delay)
  /\ UNCHANGED <<libVars, lis, pair, conns, serving, late, stop, clientVars>>

\* The library gives the pair of a client that has one, new or given before.
Accepts(c) ==
  /\ up /\ loop = "accepting"
  /\ dial[c] = "returned"
  /\ AcceptLocks
  /\ pair' = c
  /\ loop' = "got"
  /\ UNCHANGED <<libVars, lis, delay, conns, serving, late, stop, clientVars>>

AlreadyServed ==
  /\ up /\ loop = "got"
  /\ pair \in conns
  /\ loop' = "sleeping"
  /\ delay' = NextDelay(delay)
  /\ pair' = NoClient
  /\ UNCHANGED <<libVars, lis, conns, serving, late, stopVars, clientVars>>

\* Mutant: the pair is served and not stored.
StartServingUnstored ==
  /\ up /\ loop = "got"
  /\ pair \notin conns
  /\ serving' = [serving EXCEPT ![pair] = IF @ < 2 THEN @ + 1 ELSE @]
  /\ loop' = "top"
  /\ pair' = NoClient
  /\ UNCHANGED <<libVars, lis, delay, conns, late, stopVars, clientVars>>

\* The new pair is stored and a goroutine of its own serves it from now on.
\* serveRequests has no way to return.
StartServing ==
  /\ up /\ loop = "got"
  /\ pair \notin conns
  /\ conns' = conns \cup {pair}
  /\ serving' = [serving EXCEPT ![pair] = @ + 1]
  /\ late' = IF stop = "returned" THEN late + 1 ELSE late
  /\ loop' = "top"
  /\ pair' = NoClient
  /\ UNCHANGED <<libVars, lis, delay, stopVars, clientVars>>

Wakes ==
  /\ up /\ loop = "sleeping"
  /\ loop' = "top"
  /\ UNCHANGED <<libVars, lis, pair, delay, conns, serving, late, stopVars, clientVars>>

-----------------------------------------------------------------------------
(* Stop, called by another goroutine than Serve                            *)

StopFlags ==
  /\ up /\ stop = "no"
  /\ stop' = "flagged"
  /\ UNCHANGED <<libVars, lis, loopVars, seen, clientVars>>

\* s.lis.Close takes lis.mu and shuts the library's server down.
StopCloses ==
  /\ up /\ stop = "flagged" /\ lis
  /\ stop' = "returned"
  /\ listening' = FALSE
  /\ UNCHANGED <<up, lis, loopVars, seen, clientVars>>

\* s.lis is a nil interface until Serve has set it, and Stop reads it without
\* s.mu: a data race, so Stop may miss, or see half of, what is set by then.
StopPanics ==
  /\ up /\ stop = "flagged"
  /\ up' = FALSE
  /\ UNCHANGED <<listening, lis, loopVars, stopVars, clientVars>>

-----------------------------------------------------------------------------
ServeStep == StopSeen \/ StopNotSeen \/ AcceptsNone \/ AlreadyServed \/ StartServing
               \/ Wakes \/ \E c \in Clients : Accepts(c)

Next ==
  \/ \E c \in Clients : DialCalled(c) \/ DialOpens(c) \/ DialFails(c) \/ DialRetries(c)
  \/ Listen \/ ServeCalled \/ ServeStep
  \/ StopFlags \/ StopCloses \/ StopPanics

Spec == Init /\ [][Next]_vars

(* Dial, Serve and Stop run on once called, and timers fire.  The library  *)
(* does not keep a client's new pair from an Accept for ever.              *)
AcceptsNew(c) == c \notin conns /\ Accepts(c)

Fairness ==
  /\ WF_vars(ServeStep)
  /\ WF_vars(StopCloses \/ StopPanics)
  /\ \A c \in Clients : /\ WF_vars(DialOpens(c) \/ DialFails(c) \/ DialRetries(c))
                        /\ SF_vars(AcceptsNew(c))

FairSpec == Spec /\ Fairness

-----------------------------------------------------------------------------
(* Properties                                                              *)

Delays == {0, 3, 6, 12, 24, 25}

\* Every variable holds what the Go fields and locals of its kind can hold;
\* in particular a wait is one of the five lengths the backoff can produce.
TypeOK ==
  /\ up \in BOOLEAN /\ listening \in BOOLEAN
  /\ lis \in BOOLEAN /\ seen \in BOOLEAN
  /\ loop \in {"off", "top", "accepting", "got", "sleeping", "returned"}
  /\ pair \in Clients \cup {NoClient}
  /\ delay \in Delays
  /\ conns \subseteq Clients
  /\ serving \in [Clients -> Nat]
  /\ stop \in {"no", "flagged", "returned"}
  /\ late \in Nat
  /\ dial \in [Clients -> {"off", "opening", "waiting", "returned"}]
  /\ cdelay \in [Clients -> Delays]

\* Two goroutines never read requests from one queue pair, however often the
\* library hands the pair to Accept, and only a client that dialled is served.
ServedOnce ==
  \A c \in Clients :
    /\ serving[c] <= 1
    /\ serving[c] = 1 => dial[c] = "returned"

\* Once Stop has returned Serve starts at most two more goroutines: for the
\* pair in its hands, and for one from the Accept that lets it see the flag.
FewLateStarts == late <= 2

\* A client that calls Dial at any time, before or after the server is there,
\* is served if Serve runs and nobody stops it.
EveryClientServed ==
  \A c \in Clients :
    (dial[c] # "off" /\ loop # "off") ~> (serving[c] = 1 \/ stop # "no")

\* Stop makes a running Serve return, whatever Serve was doing and although it
\* reads the flag without a lock, unless Stop did not see s.lis and panicked.
StopEndsServe == (stop # "no" /\ loop # "off") ~> (loop = "returned" \/ ~up)
=============================================================================
