----------------------------- MODULE UnaryCall -----------------------------
(***************************************************************************)
(* What a unary RPC promises to the code that calls Invoke, whatever the   *)
(* transport does underneath: a call is executed at most once, and what    *)
(* comes back to a caller, if anything does, comes back after its own call *)
(* was executed and is the answer to that call, or an error.               *)
(***************************************************************************)
EXTENDS Naturals

CONSTANTS Callers, MaxCalls

VARIABLES
  phase,   \* of each caller's current call: idle | called | executed
  sent,    \* how many calls each caller has made
  answer   \* the call that its last Invoke returned the reply to, or NoAnswer

vars == <<phase, sent, answer>>

NoAnswer == <<>>

Init ==
  /\ phase = [c \in Callers |-> "idle"]
  /\ sent = [c \in Callers |-> 0]
  /\ answer = [c \in Callers |-> NoAnswer]

Refuse(c) ==
  /\ phase[c] = "idle"
  /\ answer' = [answer EXCEPT ![c] = NoAnswer]
  /\ UNCHANGED <<phase, sent>>

Call(c) ==
  /\ phase[c] = "idle"
  /\ sent[c] < MaxCalls
  /\ phase' = [phase EXCEPT ![c] = "called"]
  /\ sent' = [sent EXCEPT ![c] = @ + 1]
  /\ answer' = [answer EXCEPT ![c] = NoAnswer]

Execute(c) ==
  /\ phase[c] = "called"
  /\ phase' = [phase EXCEPT ![c] = "executed"]
  /\ UNCHANGED <<sent, answer>>

\* The reply to this very call, or an error about it.
Return(c) ==
  /\ phase[c] = "executed"
  /\ phase' = [phase EXCEPT ![c] = "idle"]
  /\ answer' \in {[answer EXCEPT ![c] = a] : a \in {<<c, sent[c]>>, NoAnswer}}
  /\ UNCHANGED sent

Next == \E c \in Callers : Refuse(c) \/ Call(c) \/ Execute(c) \/ Return(c)

Spec == Init /\ [][Next]_vars
=============================================================================
