---------------------------- MODULE ChainProofs -----------------------------
(***************************************************************************)
(* What TLAPS proves about Chain, for any clients, wiring, sizes and       *)
(* queues.  The middle server's channel is one of those UnaryRpcProofs and *)
(* SharingProofs are about: their theorems carry over, since no step of    *)
(* the chain changes the channel but by a step of UnaryRpc, a client's     *)
(* death included.                                                         *)
(***************************************************************************)
EXTENDS Chain, TLAPS

conn == INSTANCE SharingProofs WITH Callers <- Clients

\* Only a running method is inside the channel, and only a client that has
\* called, and may have died since, has a method.
CallsMatch ==
  \A c \in Clients :
    /\ hello[c] # "running" => cpc[c] = "idle"
    /\ client[c] \in {"off", "dialing", "idle"} => hello[c] = "none"

ChainTypes ==
  /\ end \in {"off", "serving"}
  /\ middle \in {"off", "dialing", "serving"}
  /\ client \in [Clients -> {"off", "dialing", "idle", "called", "dead"}]
  /\ hello \in [Clients -> {"none", "requested", "running", "replied"}]
  /\ greeting \in [Clients -> {NoGoodbye} \cup (Clients \X Nat)]
  /\ shared \in [Clients -> BOOLEAN]

ChainInv == conn!IInv /\ ChainTypes /\ CallsMatch

-----------------------------------------------------------------------------
(* The channel of Chain and that of the proofs are the same.               *)

LEMMA SameFinite == \A S : IsFiniteSet(S) <=> conn!IsFiniteSet(S)
BY DEF IsFiniteSet, conn!IsFiniteSet

LEMMA SameConstants ==
  /\ back!AllKinds = conn!AllKinds
  /\ back!Requests = conn!Requests /\ back!Replies = conn!Replies
  /\ back!EmptyBuf = conn!EmptyBuf /\ back!TornBuf = conn!TornBuf
BY DEF back!AllKinds, conn!AllKinds, back!Requests, conn!Requests, back!Replies, conn!Replies,
       back!EmptyBuf, conn!EmptyBuf, back!TornBuf, conn!TornBuf

LEMMA SameReads ==
  /\ \A b : back!Whole(b) <=> conn!Whole(b)
  /\ \A x : back!Readable(x) <=> conn!Readable(x)
  /\ \A b, x, lo, k : back!Absorb(b, x, lo, k) = conn!Absorb(b, x, lo, k)
  /\ \A q, off, n : back!Fetch(q, off, n) = conn!Fetch(q, off, n)
  /\ \A q, off, n : back!AfterRead(q, off, n) = conn!AfterRead(q, off, n)
  /\ \A q, off, n : back!AfterReadOff(q, off, n) = conn!AfterReadOff(q, off, n)
BY DEF back!Whole, conn!Whole, back!Readable, conn!Readable, back!Absorb, conn!Absorb,
       back!EmptyBuf, conn!EmptyBuf, back!TornBuf, conn!TornBuf, back!Fetch, conn!Fetch,
       back!Pops, conn!Pops, back!AfterRead, conn!AfterRead, back!AfterReadOff, conn!AfterReadOff

LEMMA SameInit == back!Init => conn!Init
BY DEF back!Init, conn!Init, back!EmptyBuf, conn!EmptyBuf

LEMMA SameInvoke == ASSUME NEW c \in Clients, back!Invoke(c) PROVE conn!Invoke(c)
BY DEF back!Invoke, conn!Invoke, back!MayInvoke, conn!MayInvoke, back!CanWrite, conn!CanWrite,
       back!EmptyBuf, conn!EmptyBuf, back!respVars, conn!respVars, back!srvVars, conn!srvVars,
       back!history, conn!history

LEMMA SameClientReads ==
  ASSUME NEW c \in Clients, back!LockRead(c) \/ back!ClientRead(c)
  PROVE  conn!LockRead(c) \/ conn!ClientRead(c)
<1>1. CASE back!LockRead(c)
  BY <1>1 DEF back!LockRead, conn!LockRead, back!reqVars, conn!reqVars, back!respVars,
              conn!respVars, back!srvVars, conn!srvVars, back!history, conn!history
<1>2. CASE back!ClientRead(c)
  <2>1. \A b : back!Parsed(b) = conn!Parsed(b)
    BY SameReads DEF back!Parsed, conn!Parsed
  <2>2. \A k : back!LastOfResponse(k) <=> conn!LastOfResponse(k)
    BY DEF back!LastOfResponse, conn!LastOfResponse
  <2> QED BY <1>2, <2>1, <2>2, SameConstants, SameReads
          DEF back!ClientRead, conn!ClientRead, back!reqVars, conn!reqVars,
              back!srvVars, conn!srvVars, back!history, conn!history
<1> QED BY <1>1, <1>2

LEMMA SameServerStep == back!ServerStep => conn!ServerStep
<1> USE SameConstants, SameReads
    DEF back!reqVars, conn!reqVars, back!respVars, conn!respVars, back!cliVars, conn!cliVars,
        back!history, conn!history
<1>1. back!ServerRead => conn!ServerRead
  BY DEF back!ServerRead, conn!ServerRead, back!LastOfRequest, conn!LastOfRequest
<1>2. back!DropUnreadable => conn!DropUnreadable
  BY DEF back!DropUnreadable, conn!DropUnreadable
<1>3. back!PanicUnknown => conn!PanicUnknown
  BY DEF back!PanicUnknown, conn!PanicUnknown
<1>4. back!RejectRequest => conn!RejectRequest
  BY DEF back!RejectRequest, conn!RejectRequest
<1>5. back!RunHandler => conn!RunHandler
  BY DEF back!RunHandler, conn!RunHandler, back!CallHandler, conn!CallHandler
<1>6. back!ServerWrite => conn!ServerWrite
  BY DEF back!ServerWrite, conn!ServerWrite, back!CanWrite, conn!CanWrite
<1> QED BY <1>1, <1>2, <1>3, <1>4, <1>5, <1>6 DEF back!ServerStep, conn!ServerStep

LEMMA SameVars == UNCHANGED backVars => UNCHANGED conn!vars
BY DEF backVars, conn!vars, conn!reqVars, conn!respVars, conn!srvVars, conn!cliVars, conn!history

\* Every step of the chain is a step of its shared channel, or leaves it alone.
LEMMA ChannelStep == [Next]_vars => [conn!Next]_(conn!vars)
<1>1. ASSUME NEW c \in Clients, SayGoodbye(c) PROVE conn!Next
  BY <1>1, SameInvoke DEF SayGoodbye, conn!Next
<1>2. ASSUME NEW c \in Clients, BackReads(c) PROVE conn!Next
  BY <1>2, SameClientReads DEF BackReads, conn!Next
<1>3. CASE BackServes
  BY <1>3, SameServerStep DEF BackServes, conn!Next
<1>4. ASSUME NEW c \in Clients,
             \/ StartClient(c) \/ ClientDialReturns(c) \/ ClientReturns(c)
             \/ ClientDies(c) \/ SayHello(c) \/ FinishHello(c)
      PROVE  UNCHANGED conn!vars
  BY <1>4, SameVars DEF StartClient, ClientDialReturns, ClientReturns, ClientDies,
                        SayHello, FinishHello
<1>5. CASE StartEnd \/ StartMiddle \/ MiddleDialReturns
  BY <1>5, SameVars DEF StartEnd, StartMiddle, MiddleDialReturns
<1>6. CASE UNCHANGED vars
  BY <1>6, SameVars DEF vars
<1> QED BY <1>1, <1>2, <1>3, <1>4, <1>5, <1>6 DEF Next

-----------------------------------------------------------------------------
(* What UnaryRpcProofs shows of the channel.                               *)

LEMMA ChannelInit == conn!Init => conn!IInv
<1> USE ChannelOK, ClientsFinite, SameFinite, SameConstants
<1>1. conn!Init => conn!TInv
  BY conn!TypeInit
<1>2. conn!Init => conn!ServerBufOK
  BY conn!ServerBufInit
<1>3. conn!Init => conn!CountOK
  BY conn!CountInit
<1> QED BY <1>1, <1>2, <1>3 DEF conn!IInv

LEMMA ChannelKeeps == conn!IInv /\ [conn!Next]_(conn!vars) => conn!IInv'
<1> USE ChannelOK, ClientsFinite, SameFinite, SameConstants
<1>1. conn!TInv /\ [conn!Next]_(conn!vars) => conn!TInv'
  BY conn!TypeStep
<1>2. conn!TInv /\ conn!ServerBufOK /\ [conn!Next]_(conn!vars) => conn!ServerBufOK'
  BY conn!ServerBufStep
<1>3. conn!TInv /\ conn!TInv' /\ conn!ServerBufOK /\ conn!CountOK /\ [conn!Next]_(conn!vars)
        => conn!CountOK'
  BY conn!CountStep
<1> QED BY <1>1, <1>2, <1>3 DEF conn!IInv

LEMMA ChannelQuiet == conn!IInv => conn!QuietChannel
BY conn!QuietFromInv, ChannelOK, ClientsFinite, SameFinite, SameConstants

-----------------------------------------------------------------------------
(* The chain.                                                              *)

LEMMA ChainInit == Init => ChainInv
<1> SUFFICES ASSUME Init PROVE ChainInv
  OBVIOUS
<1>1. conn!IInv
  BY SameInit, ChannelInit DEF Init
<1>2. ChainTypes
  BY DEF Init, ChainTypes
<1>3. CallsMatch
  BY DEF Init, back!Init, CallsMatch
<1> QED BY <1>1, <1>2, <1>3 DEF ChainInv

\* A goodbye that a method has got is one that some client's method asked for.
LEMMA GoodbyeTyped ==
  ASSUME conn!IInv, NEW c \in Clients, ret[c].tag = "reply"
  PROVE  <<ret[c].msg.caller, ret[c].msg.n>> \in Clients \X Nat
<1>1. ret \in [Clients -> conn!Returns]
  BY DEF conn!IInv, conn!TInv, conn!TypeOK
<1>2. ret[c] \in conn!Returns
  BY <1>1
<1>3. ret[c].msg \in conn!Replies
  BY <1>2 DEF conn!Returns
<1> QED BY <1>3 DEF conn!Replies

LEMMA ChainTypesStep == conn!IInv /\ ChainTypes /\ [Next]_vars => ChainTypes'
<1> SUFFICES ASSUME conn!IInv, ChainTypes, [Next]_vars PROVE ChainTypes'
  OBVIOUS
<1> USE DEF front
<1>1. CASE StartEnd \/ StartMiddle \/ MiddleDialReturns
  BY <1>1 DEF StartEnd, StartMiddle, MiddleDialReturns, ChainTypes
<1>2. ASSUME NEW c \in Clients,
             StartClient(c) \/ ClientDialReturns(c) \/ ClientReturns(c) \/ ClientDies(c)
      PROVE  ChainTypes'
  BY <1>2 DEF StartClient, ClientDialReturns, ClientReturns, ClientDies, ChainTypes
<1>3. ASSUME NEW c \in Clients, SayHello(c) PROVE ChainTypes'
  BY <1>3 DEF SayHello, ChainTypes
<1>4. ASSUME NEW c \in Clients, SayGoodbye(c) PROVE ChainTypes'
  BY <1>4 DEF SayGoodbye, ChainTypes
<1>5. ASSUME NEW c \in Clients, FinishHello(c) PROVE ChainTypes'
  <2>1. greeting' \in [Clients -> {NoGoodbye} \cup (Clients \X Nat)]
    BY <1>5, GoodbyeTyped DEF FinishHello, ChainTypes
  <2> QED BY <1>5, <2>1 DEF FinishHello, ChainTypes
<1>6. ASSUME BackServes \/ \E c \in Clients : BackReads(c) PROVE ChainTypes'
  BY <1>6 DEF BackServes, BackReads, ChainTypes
<1>7. CASE UNCHANGED vars
  BY <1>7 DEF vars, ChainTypes
<1> QED BY <1>1, <1>2, <1>3, <1>4, <1>5, <1>6, <1>7 DEF Next

\* The server's steps move no caller, and a caller that reads is not idle.
LEMMA CallersMove ==
  ASSUME conn!IInv, ChainTypes, CallsMatch, [Next]_vars PROVE CallsMatch'
<1> USE DEF front
<1>0. cpc \in [Clients -> {"idle", "waiting", "reading"}]
  BY DEF conn!IInv, conn!TInv, conn!TypeOK
<1>1. CASE StartEnd \/ StartMiddle \/ MiddleDialReturns
  BY <1>1 DEF StartEnd, StartMiddle, MiddleDialReturns, CallsMatch, backVars
<1>2. ASSUME NEW c \in Clients,
             \/ StartClient(c) \/ ClientDialReturns(c) \/ ClientReturns(c)
             \/ ClientDies(c) \/ SayHello(c) \/ FinishHello(c)
      PROVE  CallsMatch'
  BY <1>2 DEF StartClient, ClientDialReturns, ClientReturns, ClientDies, SayHello,
              FinishHello, ChainTypes, CallsMatch, backVars
<1>3. ASSUME NEW c \in Clients, SayGoodbye(c) PROVE CallsMatch'
  <2>1. \A d \in Clients \ {c} : hello'[d] = hello[d] /\ cpc'[d] = cpc[d]
    BY <1>0, <1>3 DEF SayGoodbye, back!Invoke, ChainTypes
  <2>2. hello[c] = "requested" /\ hello'[c] = "running" /\ UNCHANGED client
    BY <1>3 DEF SayGoodbye, ChainTypes
  <2> QED BY <2>1, <2>2 DEF CallsMatch
<1>4. ASSUME NEW c \in Clients, BackReads(c) PROVE CallsMatch'
  <2>1. cpc[c] # "idle" /\ UNCHANGED <<client, hello>>
    BY <1>4 DEF BackReads, back!LockRead, back!ClientRead
  <2>2. \A d \in Clients \ {c} : cpc'[d] = cpc[d]
    BY <1>0, <1>4 DEF BackReads, back!LockRead, back!ClientRead
  <2> QED BY <2>1, <2>2 DEF CallsMatch
<1>5. CASE BackServes
  <2>1. UNCHANGED <<cpc, client, hello>>
    BY <1>5 DEF BackServes, back!ServerStep, back!ServerRead, back!DropUnreadable,
                back!PanicUnknown, back!RejectRequest, back!RunHandler, back!CallHandler,
                back!ServerWrite, back!cliVars
  <2> QED BY <2>1 DEF CallsMatch
<1>6. CASE UNCHANGED vars
  BY <1>6 DEF vars, backVars, CallsMatch
<1> QED BY <1>1, <1>2, <1>3, <1>4, <1>5, <1>6 DEF Next

LEMMA ChainAlways == Spec => []ChainInv
<1>1. ChainInv /\ [Next]_vars => ChainInv'
  BY ChannelStep, ChannelKeeps, ChainTypesStep, CallersMove DEF ChainInv
<1> QED BY <1>1, ChainInit, PTL DEF Spec

\* Every variable of the chain keeps its type, those of the shared channel too,
\* for any clients, wiring, sizes and queues.
THEOREM ChainTypeCorrect == Spec => []TypeOK
<1>1. conn!TypeOK => back!TypeOK
  BY SameConstants DEF conn!TypeOK, back!TypeOK, conn!RequestBufs, back!RequestBufs,
                       conn!ReplyBufs, back!ReplyBufs, conn!Returns, back!Returns
<1>2. ChainInv => TypeOK
  BY <1>1 DEF ChainInv, ChainTypes, TypeOK, conn!IInv, conn!TInv
<1> QED BY <1>2, ChainAlways, PTL

\* However many clients there are and whenever they die, and even as the chain
\* is shipped, the shared channel is empty when no method is inside its goodbye.
THEOREM LeftClean == Spec => []ChannelLeftClean
<1>1. ChainInv => ChannelLeftClean
  <2> SUFFICES ASSUME ChainInv, Quiet
               PROVE  reqQ = <<>> /\ respQ = <<>> /\ spc = "reading" /\ sbuf = back!EmptyBuf
    BY DEF ChannelLeftClean
  <2>1. \A c \in Clients : cpc[c] = "idle"
    BY DEF ChainInv, CallsMatch, Quiet
  <2> QED BY <2>1, ChannelQuiet, SameConstants DEF ChainInv, conn!QuietChannel
<1> QED BY <1>1, ChainAlways, PTL

\* The middle server's channel is a UnaryRpc, whatever the clients do: what is
\* proved of UnaryRpc holds of it.
THEOREM ChannelImplements == Spec => conn!Spec
<1>1. Init => conn!Init
  BY SameInit DEF Init
<1> QED BY <1>1, ChannelStep, PTL DEF Spec, conn!Spec
=============================================================================
