-------------------------------- MODULE Chain --------------------------------
(***************************************************************************)
(* The chained servers of chain_tests: clients say hello to the middle     *)
(* server, whose method says goodbye to the end server and answers with    *)
(* what it gets.  The middle server has one channel to the end server, and *)
(* a connection and a goroutine for each client: its methods run at the    *)
(* same time and share that channel.                                       *)
(*                                                                         *)
(* The channel is module UnaryRpc, with a caller for each of the middle    *)
(* server's connections.  A client's own connection carries one call at a  *)
(* time, for which the abstract call of module UnaryCall stands: here it   *)
(* is where the call is, in `client' and `hello'.                          *)
(***************************************************************************)
EXTENDS Naturals, Sequences, FiniteSets

CONSTANTS
  Clients,   \* programs that dial the middle server and say hello
  MaxCalls, Serial, Kinds, ReqSizes, RespSizes, ClientBuf, ServerBuf,
  BufioSize, QueueCap, EndMark, NoMsg, Torn   \* as in UnaryRpc

VARIABLES
  up, reqQ, reqOff, respQ, respOff, spc, sbuf, reply, cpc, cbuf,
  calls, ret, ctxDone, executed, lost,   \* the middle server's channel
  end,       \* the end server: off | serving
  middle,    \* the middle server: off | dialing | serving
  client,    \* each client: off | dialing | idle | called | dead
  hello,     \* its call in the middle server: none | requested | running | replied
  greeting,  \* the goodbye in the reply to its last call, or NoGoodbye
  shared     \* history: another method used the channel during that call

back  == INSTANCE UnaryRpc WITH Callers <- Clients
backVars == <<up, reqQ, reqOff, respQ, respOff, spc, sbuf, reply, cpc, cbuf,
              calls, ret, ctxDone, executed, lost>>
front == <<client, hello, greeting, shared>>
vars  == <<backVars, end, middle, front>>

NoGoodbye == <<>>

(* What UnaryRpc assumes of its constants.  *)
ASSUME ChannelOK ==
  /\ Kinds \subseteq back!AllKinds
  /\ ReqSizes \subseteq Nat \ {0} /\ RespSizes \subseteq Nat \ {0}
  /\ {ClientBuf, ServerBuf, BufioSize, QueueCap} \subseteq Nat \ {0}
  /\ MaxCalls \in Nat /\ {Serial, EndMark} \subseteq BOOLEAN
  /\ NoMsg # Torn /\ {NoMsg, Torn} \cap (back!Requests \cup back!Replies) = {}
ASSUME ClientsFinite == IsFiniteSet(Clients)

Init ==
  /\ back!Init
  /\ end = "off" /\ middle = "off"
  /\ client   = [c \in Clients |-> "off"]
  /\ hello    = [c \in Clients |-> "none"]
  /\ greeting = [c \in Clients |-> NoGoodbye]
  /\ shared   = [c \in Clients |-> FALSE]

-----------------------------------------------------------------------------
(* Start-up, in any order (module Serving shows that Dial gets through)    *)

StartEnd ==
  /\ end = "off"
  /\ end' = "serving"
  /\ UNCHANGED <<backVars, middle, front>>

\* Dial retries until the end server listens.
\* Mutant: it fails when nobody listens yet, and main ends with log.Fatalf.
StartMiddleNoRetry ==
  /\ middle = "off"
  /\ middle' = IF end = "serving" THEN "dialing" ELSE "ended"
  /\ UNCHANGED <<backVars, end, front>>

StartMiddle ==
  /\ middle = "off"
  /\ middle' = "dialing"
  /\ UNCHANGED <<backVars, end, front>>

\* Only then is there a service to register, and an address to listen at.
MiddleDialReturns ==
  /\ middle = "dialing" /\ end = "serving"
  /\ middle' = "serving"
  /\ UNCHANGED <<backVars, end, front>>

StartClient(c) ==
  /\ client[c] = "off"
  /\ client' = [client EXCEPT ![c] = "dialing"]
  /\ UNCHANGED <<backVars, end, middle, hello, greeting, shared>>

ClientDialReturns(c) ==
  /\ client[c] = "dialing" /\ middle = "serving"
  /\ client' = [client EXCEPT ![c] = "idle"]
  /\ UNCHANGED <<backVars, end, middle, hello, greeting, shared>>

-----------------------------------------------------------------------------
(* A call                                                                  *)

\* The client calls SayHello; handleMethod will call the method.
SayHello(c) ==
  /\ client[c] = "idle" /\ calls[c] < MaxCalls
  /\ client'   = [client EXCEPT ![c] = "called"]
  /\ hello'    = [hello EXCEPT ![c] = "requested"]
  /\ greeting' = [greeting EXCEPT ![c] = NoGoodbye]
  /\ shared'   = [shared EXCEPT ![c] = FALSE]
  /\ UNCHANGED <<backVars, end, middle>>

InBack == {c \in Clients : cpc[c] # "idle"}

\* The method calls SayGoodbye on the channel all its connections share.
SayGoodbye(c) ==
  /\ hello[c] = "requested"
  /\ back!Invoke(c)
  /\ hello'  = [hello EXCEPT ![c] = "running"]
  /\ shared' = [d \in Clients |-> IF d = c THEN InBack # {} ELSE shared[d] \/ d \in InBack]
  /\ UNCHANGED <<end, middle, client, greeting>>

BackReads(c) ==
  /\ back!LockRead(c) \/ back!ClientRead(c)
  /\ UNCHANGED <<end, middle, front>>

BackServes ==
  /\ back!ServerStep
  /\ UNCHANGED <<end, middle, front>>

\* Invoke is back, and so is the method: with "Hello" and the goodbye, or with
\* "Hello" and an error, which handleMethod drops.
\* Mutant: the reply's field is read where there is no reply.
FinishHelloOfNil(c) ==
  /\ hello[c] = "running" /\ cpc[c] = "idle"
  /\ hello' = [hello EXCEPT ![c] = "replied"]
  /\ middle' = IF ret[c].tag = "reply" THEN middle ELSE "ended"
  /\ UNCHANGED <<backVars, end, client, greeting, shared>>

FinishHello(c) ==
  /\ hello[c] = "running" /\ cpc[c] = "idle"
  /\ hello' = [hello EXCEPT ![c] = "replied"]
  /\ greeting' = [greeting EXCEPT ![c] = IF ret[c].tag = "reply"
                                           THEN <<ret[c].msg.caller, ret[c].msg.n>> ELSE NoGoodbye]
  /\ UNCHANGED <<backVars, end, middle, client, shared>>

ClientReturns(c) ==
  /\ client[c] = "called" /\ hello[c] = "replied"
  /\ client' = [client EXCEPT ![c] = "idle"]
  /\ hello'  = [hello EXCEPT ![c] = "none"]
  /\ UNCHANGED <<backVars, end, middle, greeting, shared>>

\* A client's process ends.  Nothing tells the middle server: the method goes
\* on, and its reply stays in the queue.
\* Mutant: the method's call ends with the client it is for.
MayDie(c) == client[c] \in {"dialing", "idle", "called"}

ClientDiesCancels(c) ==
  /\ MayDie(c)
  /\ client' = [client EXCEPT ![c] = "dead"]
  /\ hello'  = [hello EXCEPT ![c] = "none"]
  /\ cpc'    = [cpc EXCEPT ![c] = "idle"]
  /\ UNCHANGED <<up, reqQ, reqOff, respQ, respOff, spc, sbuf, reply, cbuf, calls, ret,
                 ctxDone, executed, lost, end, middle, greeting, shared>>

ClientDies(c) ==
  /\ MayDie(c)
  /\ client' = [client EXCEPT ![c] = "dead"]
  /\ UNCHANGED <<backVars, end, middle, hello, greeting, shared>>

-----------------------------------------------------------------------------
Next ==
  \/ StartEnd \/ StartMiddle \/ MiddleDialReturns \/ BackServes
  \/ \E c \in Clients :
       \/ StartClient(c) \/ ClientDialReturns(c) \/ ClientReturns(c) \/ ClientDies(c)
       \/ SayHello(c) \/ SayGoodbye(c) \/ BackReads(c) \/ FinishHello(c)

Spec == Init /\ [][Next]_vars

(* Goroutines run, Dial's timer fires, and mutexes are handed to those who *)
(* have waited long: read_mu in BackReads, write_mu in SayGoodbye, which   *)
(* waits for room with it.  Nobody has to start a program or to call.      *)
Fairness ==
  /\ WF_vars(MiddleDialReturns) /\ WF_vars(BackServes)
  /\ \A c \in Clients :
       /\ WF_vars(ClientDialReturns(c)) /\ WF_vars(ClientReturns(c)) /\ WF_vars(FinishHello(c))
       /\ SF_vars(SayGoodbye(c)) /\ SF_vars(BackReads(c))

FairSpec == Spec /\ Fairness

-----------------------------------------------------------------------------
(* Properties                                                              *)

\* Every variable holds what the programs' states can be; in particular no
\* error of a goodbye ends the middle server.
TypeOK ==
  /\ back!TypeOK
  /\ end \in {"off", "serving"}
  /\ middle \in {"off", "dialing", "serving"}
  /\ client \in [Clients -> {"off", "dialing", "idle", "called", "dead"}]
  /\ hello \in [Clients -> {"none", "requested", "running", "replied"}]
  /\ greeting \in [Clients -> {NoGoodbye} \cup (Clients \X Nat)]
  /\ shared \in [Clients -> BOOLEAN]

Quiet == \A c \in Clients : hello[c] # "running"

\* When no method is inside its goodbye, the shared channel is empty: clients
\* that die during a call leave nothing in it for the calls of the others.
ChannelLeftClean ==
  Quiet => reqQ = <<>> /\ respQ = <<>> /\ spc = "reading" /\ sbuf = back!EmptyBuf

\* ... and every hello that was answered, to the living or the dead, has run
\* one goodbye, neither two nor none, however the calls interleaved.
OneGoodbyeEach == Quiet => executed = calls

\* A greeting is made from its own call's goodbye if no other method used the
\* channel during the call, whatever was on the channel before it.
OwnGreeting ==
  \A c \in Clients :
    ~shared[c] /\ greeting[c] # NoGoodbye => greeting[c] = <<c, calls[c]>>

\* No two clients are ever greeted with the same goodbye, sharing or not.
OneGreeting ==
  \A c, d \in Clients :
    greeting[c] # NoGoodbye /\ c # d => greeting[c] # greeting[d]

\* Whatever the order of start-up, once both servers are started a client gets
\* through, and each of its calls comes back, other clients' deaths or not.
EveryoneGreeted ==
  \A c \in Clients :
    client[c] \in {"dialing", "called"}
      ~> (client[c] \in {"idle", "dead"} \/ end = "off" \/ middle = "off")

\* server.go:382, "service name not found" is an Unimplemented status of that
\* call; it does not end the server process that got it.
EndSurvives == up
=============================================================================
