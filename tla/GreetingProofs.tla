--------------------------- MODULE GreetingProofs ----------------------------
(***************************************************************************)
(* What TLAPS proves about the greetings of Chain: whose goodbyes they are *)
(* made of, when the methods of the middle server share a channel to the   *)
(* end server.                                                             *)
(***************************************************************************)
EXTENDS ChainProofs

\* A greeting is made of what the method's Invoke returned.
FromReply(c) ==
  greeting[c] # NoGoodbye =>
    /\ hello[c] \in {"replied", "none"}
    /\ ret[c].tag = "reply"
    /\ greeting[c] = conn!Key(ret[c].msg)

\* While a method has the channel to itself there is no call in it but its
\* own, nor can it be given another's.
OwnCall(c) == {<<c, calls[c]>>}
Alone(c) ==
  ~shared[c] /\ hello[c] # "requested" =>
    /\ conn!Taken(c) \subseteq OwnCall(c)
    /\ cpc[c] # "idle" => conn!Places \subseteq OwnCall(c)

GreetingInv ==
  /\ ChainInv /\ conn!SharingInv
  /\ \A c \in Clients : FromReply(c) /\ Alone(c)

-----------------------------------------------------------------------------
(* What SharingProofs shows of the channel.                                *)

LEMMA ChannelSharingInit == conn!Init => conn!SharingInv
BY conn!SharingInit, ChannelOK, ClientsFinite, SameFinite, SameConstants

LEMMA ChannelSharingStep ==
  conn!IInv /\ conn!IInv' /\ conn!SharingInv /\ [conn!Next]_(conn!vars) => conn!SharingInv'
BY conn!SharingStep, ChannelOK, ClientsFinite, SameFinite, SameConstants

LEMMA ChannelOneTaker == conn!IInv /\ conn!SharingInv => conn!OneTaker
BY conn!OneTakerFromInv, ChannelOK, ClientsFinite, SameFinite, SameConstants

LEMMA ChannelRanOnce == conn!IInv /\ conn!SharingInv => conn!RanOnce
BY conn!RanOnceFromInv, ChannelOK, ClientsFinite, SameFinite, SameConstants

LEMMA ChannelQuietPlaces ==
  conn!IInv /\ (\A c \in Clients : cpc[c] = "idle") => conn!Places = {}
BY conn!QuietPlaces, ChannelOK, ClientsFinite, SameFinite, SameConstants

LEMMA ChannelNoCallSpreads ==
  ASSUME conn!IInv, [conn!Next]_(conn!vars), \A c \in Clients : ~conn!Invoke(c)
  PROVE  /\ conn!Places' \subseteq conn!Places /\ calls' = calls
         /\ \A c \in Clients :
              conn!Taken(c)' \subseteq
                conn!Taken(c) \cup (IF cpc[c] = "idle" THEN {} ELSE conn!Places)
BY conn!NoCallSpreads, ChannelOK, ClientsFinite, SameFinite, SameConstants

\* What an Invoke adds to the channel, and takes from its caller.
LEMMA ChannelInvoke ==
  ASSUME conn!IInv, NEW c \in Clients, conn!Invoke(c)
  PROVE  /\ conn!Places' \subseteq conn!Places \cup {<<c, calls[c] + 1>>}
         /\ conn!Taken(c)' = {}
         /\ \A d \in Clients : d # c => conn!Taken(d)' = conn!Taken(d)
         /\ \A d \in Clients : calls'[d] = IF d = c THEN calls[d] + 1 ELSE calls[d]
BY conn!InvokeMoves, ChannelOK, ClientsFinite, SameFinite, SameConstants DEF conn!Places

-----------------------------------------------------------------------------
(* The greetings.                                                          *)

LEMMA GreetingInit == Init => GreetingInv
<1> SUFFICES ASSUME Init PROVE GreetingInv
  OBVIOUS
<1>1. ChainInv /\ conn!SharingInv
  BY ChainInit, SameInit, ChannelSharingInit DEF Init
<1>2. ASSUME NEW c \in Clients PROVE FromReply(c)
  BY DEF Init, FromReply
<1>3. ASSUME NEW c \in Clients PROVE Alone(c)
  <2>1. cpc[c] = "idle" /\ cbuf[c].msg = NoMsg /\ ret[c].msg = NoMsg
    BY DEF Init, back!Init, back!EmptyBuf
  <2> QED BY <2>1 DEF Alone, conn!Taken, conn!KeyOf
<1> QED BY <1>1, <1>2, <1>3 DEF GreetingInv

\* Steps outside the channel.
FrontStep ==
  \/ StartEnd \/ StartMiddle \/ MiddleDialReturns \/ UNCHANGED vars
  \/ \E c \in Clients : \/ StartClient(c) \/ ClientDialReturns(c) \/ ClientReturns(c)
                        \/ ClientDies(c) \/ SayHello(c) \/ FinishHello(c)

LEMMA FrontKeepsChannel == FrontStep => UNCHANGED backVars
BY DEF FrontStep, StartEnd, StartMiddle, MiddleDialReturns, StartClient, ClientDialReturns,
       ClientReturns, ClientDies, SayHello, FinishHello, vars

\* The goodbye of a running method, and nothing else, is in the channel: a
\* read moves its caller alone, and a step of the server no caller.
LEMMA ChannelMoves ==
  ASSUME ChainInv, BackServes \/ \E c \in Clients : BackReads(c)
  PROVE  /\ UNCHANGED <<calls, front>>
         /\ \A d \in Clients : cpc'[d] # "idle" => cpc[d] # "idle"
         /\ \A d \in Clients : cpc[d] = "idle" => ret'[d] = ret[d]
         /\ \A d \in Clients : ~conn!Invoke(d)
<1>0. /\ cpc \in [Clients -> {"idle", "waiting", "reading"}]
      /\ calls \in [Clients -> Nat] /\ ret \in [Clients -> conn!Returns]
  BY DEF ChainInv, conn!IInv, conn!TInv, conn!TypeOK
<1>1. CASE BackServes
  <2>1. UNCHANGED <<calls, cpc, ret, front>>
    BY <1>1 DEF BackServes, back!ServerStep, back!ServerRead, back!DropUnreadable,
                back!PanicUnknown, back!RejectRequest, back!RunHandler, back!CallHandler,
                back!ServerWrite, back!cliVars
  <2>2. \A d \in Clients : ~conn!Invoke(d)
    BY <1>0, <2>1 DEF conn!Invoke
  <2> QED BY <2>1, <2>2
<1>2. ASSUME NEW c \in Clients, BackReads(c)
      PROVE  /\ UNCHANGED <<calls, front>>
             /\ \A d \in Clients : cpc'[d] # "idle" => cpc[d] # "idle"
             /\ \A d \in Clients : cpc[d] = "idle" => ret'[d] = ret[d]
             /\ \A d \in Clients : ~conn!Invoke(d)
  <2>1. UNCHANGED <<calls, front>> /\ cpc[c] # "idle"
    BY <1>2 DEF BackReads, back!LockRead, back!ClientRead
  <2>2. \A d \in Clients \ {c} : cpc'[d] = cpc[d] /\ ret'[d] = ret[d]
    BY <1>0, <1>2 DEF BackReads, back!LockRead, back!ClientRead
  <2>3. \A d \in Clients : ~conn!Invoke(d)
    BY <1>0, <2>1 DEF conn!Invoke
  <2> QED BY <2>1, <2>2, <2>3
<1> QED BY <1>1, <1>2

LEMMA GoodbyeMoves ==
  ASSUME ChainInv, NEW c \in Clients, SayGoodbye(c)
  PROVE  /\ conn!Invoke(c) /\ hello[c] = "requested" /\ hello'[c] = "running"
         /\ greeting' = greeting /\ shared'[c] = (InBack # {})
         /\ \A d \in Clients : d # c =>
              /\ cpc'[d] = cpc[d] /\ ret'[d] = ret[d] /\ hello'[d] = hello[d]
              /\ shared'[d] = (shared[d] \/ d \in InBack)
<1>1. /\ cpc \in [Clients -> {"idle", "waiting", "reading"}]
      /\ hello \in [Clients -> {"none", "requested", "running", "replied"}]
      /\ ret \in [Clients -> conn!Returns]
  BY DEF ChainInv, ChainTypes, conn!IInv, conn!TInv, conn!TypeOK
<1>2. conn!Invoke(c)
  BY SameInvoke DEF SayGoodbye
<1>3. /\ cpc' = [cpc EXCEPT ![c] = "waiting"]
      /\ ret' = [ret EXCEPT ![c] = [tag |-> "none", msg |-> NoMsg]]
  BY DEF SayGoodbye, back!Invoke
<1>4. /\ hello[c] = "requested" /\ hello' = [hello EXCEPT ![c] = "running"]
      /\ shared' = [d \in Clients |-> IF d = c THEN InBack # {} ELSE shared[d] \/ d \in InBack]
      /\ greeting' = greeting
  BY DEF SayGoodbye
<1> QED BY <1>1, <1>2, <1>3, <1>4

LEMMA FromReplyStep ==
  ASSUME ChainInv, NEW d \in Clients, FromReply(d), [Next]_vars PROVE FromReply(d)'
<1>0. ChainTypes /\ CallsMatch
  BY DEF ChainInv
<1>1. CASE FrontStep
  <2>1. ret' = ret
    BY <1>1, FrontKeepsChannel DEF backVars
  <2>2. CASE \/ StartEnd \/ StartMiddle \/ MiddleDialReturns \/ UNCHANGED vars
    BY <2>1, <2>2 DEF StartEnd, StartMiddle, MiddleDialReturns, vars, front, FromReply
  <2>3. ASSUME NEW c \in Clients, StartClient(c) \/ ClientDialReturns(c) \/ ClientDies(c)
        PROVE  FromReply(d)'
    BY <2>1, <2>3 DEF StartClient, ClientDialReturns, ClientDies, FromReply
  <2>4. ASSUME NEW c \in Clients, ClientReturns(c) \/ SayHello(c) \/ FinishHello(c)
        PROVE  FromReply(d)'
    BY <1>0, <2>1, <2>4 DEF ClientReturns, SayHello, FinishHello, FromReply, ChainTypes, conn!Key
  <2> QED BY <1>1, <2>2, <2>3, <2>4 DEF FrontStep
<1>2. ASSUME NEW c \in Clients, SayGoodbye(c) PROVE FromReply(d)'
  BY <1>2, GoodbyeMoves DEF FromReply, conn!Key
<1>3. CASE BackServes \/ \E c \in Clients : BackReads(c)
  BY <1>0, <1>3, ChannelMoves DEF FromReply, CallsMatch, front, conn!Key
<1> QED BY <1>1, <1>2, <1>3 DEF Next, FrontStep

LEMMA AloneStep ==
  ASSUME ChainInv, NEW d \in Clients, Alone(d), [Next]_vars PROVE Alone(d)'
<1>0. ChainTypes /\ CallsMatch /\ conn!IInv
  BY DEF ChainInv
<1>1. CASE FrontStep
  <2>1. UNCHANGED <<conn!Taken(d), conn!Places, calls, cpc>>
    BY <1>1, FrontKeepsChannel
       DEF backVars, conn!Taken, conn!Places, conn!ToServe, conn!InServer, conn!InReply,
           conn!ToRead
  <2>2. ~shared'[d] /\ hello'[d] # "requested" => ~shared[d] /\ hello[d] # "requested"
    BY <1>0, <1>1 DEF FrontStep, StartEnd, StartMiddle, MiddleDialReturns, vars, front,
       StartClient, ClientDialReturns, ClientReturns, ClientDies, SayHello, FinishHello, ChainTypes
  <2> QED BY <2>1, <2>2 DEF Alone, OwnCall
<1>2. ASSUME NEW c \in Clients, SayGoodbye(c) PROVE Alone(d)'
  <2>1. CASE d = c
    <3>1. /\ conn!Places' \subseteq conn!Places \cup {<<d, calls[d] + 1>>}
          /\ conn!Taken(d)' = {} /\ calls'[d] = calls[d] + 1
      BY <1>0, <1>2, <2>1, GoodbyeMoves, ChannelInvoke
    <3>2. ~shared'[d] => conn!Places = {}
      BY <1>0, <1>2, <2>1, GoodbyeMoves, ChannelQuietPlaces DEF InBack
    <3> QED BY <3>1, <3>2 DEF Alone, OwnCall
  <2>2. CASE d # c
    <3>1. conn!Taken(d)' = conn!Taken(d) /\ calls'[d] = calls[d]
      BY <1>0, <1>2, <2>2, GoodbyeMoves, ChannelInvoke
    <3>2. cpc'[d] = cpc[d] /\ hello'[d] = hello[d]
      BY <1>2, <2>2, GoodbyeMoves
    <3>3. ~shared'[d] => ~shared[d] /\ cpc[d] = "idle"
      BY <1>2, <2>2, GoodbyeMoves DEF InBack
    <3> QED BY <3>1, <3>2, <3>3 DEF Alone, OwnCall
  <2> QED BY <2>1, <2>2
<1>3. CASE BackServes \/ \E c \in Clients : BackReads(c)
  <2>1. /\ conn!Places' \subseteq conn!Places /\ calls' = calls
        /\ conn!Taken(d)' \subseteq conn!Taken(d)
                           \cup (IF cpc[d] = "idle" THEN {} ELSE conn!Places)
    BY <1>0, <1>3, ChannelMoves, ChannelStep, ChannelNoCallSpreads
  <2>2. hello' = hello /\ shared' = shared /\ (cpc'[d] # "idle" => cpc[d] # "idle")
    BY <1>3, ChannelMoves DEF front
  <2> QED BY <2>1, <2>2 DEF Alone, OwnCall
<1> QED BY <1>1, <1>2, <1>3 DEF Next, FrontStep

LEMMA GreetingAlways == Spec => []GreetingInv
<1>1. GreetingInv /\ ChainInv' /\ [Next]_vars => GreetingInv'
  <2> SUFFICES ASSUME GreetingInv, ChainInv', [Next]_vars PROVE GreetingInv'
    OBVIOUS
  <2>1. conn!SharingInv'
    BY ChannelStep, ChannelSharingStep DEF GreetingInv, ChainInv
  <2> QED BY <2>1, FromReplyStep, AloneStep DEF GreetingInv
<1> QED BY <1>1, GreetingInit, ChainAlways, PTL DEF Spec

-----------------------------------------------------------------------------
(* The theorems.                                                           *)

\* Whatever the clients do, when no method of the middle server is inside its
\* goodbye, the end server has run one for each that was said.
THEOREM OneGoodbyeForEach == Spec => []OneGoodbyeEach
<1>1. GreetingInv => OneGoodbyeEach
  <2> SUFFICES ASSUME GreetingInv, Quiet PROVE executed = calls
    BY DEF OneGoodbyeEach
  <2>1. \A c \in Clients : cpc[c] = "idle"
    BY DEF GreetingInv, ChainInv, CallsMatch, Quiet
  <2> QED BY <2>1, ChannelRanOnce DEF GreetingInv, ChainInv, conn!RanOnce
<1> QED BY <1>1, GreetingAlways, PTL

\* No goodbye greets two clients, however the methods share the channel.
THEOREM GreetedApart == Spec => []OneGreeting
<1>1. GreetingInv => OneGreeting
  <2> SUFFICES ASSUME GreetingInv, NEW c \in Clients, NEW d \in Clients,
                      greeting[c] # NoGoodbye, c # d, greeting[c] = greeting[d]
               PROVE  FALSE
    BY DEF OneGreeting
  <2>1. /\ ret[c].tag = "reply" /\ greeting[c] = conn!Key(ret[c].msg)
        /\ ret[d].tag = "reply" /\ greeting[d] = conn!Key(ret[d].msg)
    BY DEF GreetingInv, FromReply
  <2>2. conn!OneTaker
    BY ChannelOneTaker DEF GreetingInv, ChainInv
  <2> QED BY <2>1, <2>2 DEF conn!OneTaker, conn!Key
<1> QED BY <1>1, GreetingAlways, PTL

\* A client whose method had the channel to itself is greeted with its own
\* goodbye, however many were sharing it before or have died meanwhile.
THEOREM GreetedWithOwn == Spec => []OwnGreeting
<1>1. GreetingInv => OwnGreeting
  <2> SUFFICES ASSUME GreetingInv, NEW c \in Clients, ~shared[c], greeting[c] # NoGoodbye
               PROVE  greeting[c] = <<c, calls[c]>>
    BY DEF OwnGreeting
  <2>1. /\ hello[c] # "requested" /\ ret[c].tag = "reply"
        /\ greeting[c] = conn!Key(ret[c].msg)
    BY DEF GreetingInv, FromReply
  <2>2. ret[c].msg \notin {NoMsg, Torn}
    <3>1. ret[c] \in conn!Returns
      BY DEF GreetingInv, ChainInv, conn!IInv, conn!TInv, conn!TypeOK
    <3>2. ret[c].msg \in conn!Replies
      BY <2>1, <3>1 DEF conn!Returns
    <3> QED BY <3>2, ChannelOK, SameConstants
  <2>3. conn!Key(ret[c].msg) \in conn!Taken(c)
    BY <2>2 DEF conn!Taken, conn!KeyOf
  <2>4. conn!Taken(c) \subseteq OwnCall(c)
    BY <2>1 DEF GreetingInv, Alone
  <2> QED BY <2>1, <2>3, <2>4 DEF OwnCall
<1> QED BY <1>1, GreetingAlways, PTL
=============================================================================
