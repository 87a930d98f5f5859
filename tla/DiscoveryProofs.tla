-------------------------- MODULE DiscoveryProofs --------------------------
(***************************************************************************)
(* Proofs about Discovery, for every set of requests, users and DFSPs and  *)
(* any number of lost connections, restarts and messages: its invariant is *)
(* inductive as it stands, and a request is answered once.                 *)
(***************************************************************************)
EXTENDS Discovery, TLAPS

USE PubSubAssumption

\* What the assumptions say, in the form the proofs use.
LEMMA Names ==
  /\ Owners = Requests
  /\ AccountRequests \subseteq Requests
  /\ \A r \in AccountRequests : r \notin ProviderRequests /\ UserOf[r] \in Channels \ {ServiceChannel}
  /\ ServiceChannel \in Channels
  /\ "none" \notin Fsps /\ "list" \notin Fsps /\ "error" \notin Fsps /\ "500" \notin Fsps
  BY DiscoveryAssumption DEF Requests, Fsps

USE Names

\* The channel of a request: one of those of the subscriber.
LEMMA ChannelType == ASSUME NEW r \in Requests PROVE ChannelOf(r) \in Channels
  BY DEF ChannelOf, Requests

\* A user's channel is not that of providers.
LEMMA AccountChannel ==
  ASSUME NEW r \in AccountRequests
  PROVE  r \in Requests /\ ChannelOf(r) = UserOf[r] /\ ChannelOf(r) # ServiceChannel
  BY DEF ChannelOf, Requests

\* What a message of a channel can say, if anything was asked there.
LEMMA SaidType ==
  ASSUME NEW c \in Channels, NEW said \in Said(c), sent \subseteq Requests
  PROVE  /\ said \in Fsps \union {"list", "error"}
         /\ said \in Fsps => \E q \in sent \cap AccountRequests :
                                c = UserOf[q] /\ FspOf[q] = said /\ q \in told
<1>1. CASE c = ServiceChannel
  BY <1>1 DEF Said, Fsps
<1>2. CASE c # ServiceChannel
  <2>1. ASSUME NEW q \in On(c) PROVE q \in sent \cap AccountRequests /\ c = UserOf[q]
    BY <1>2 DEF On, ChannelOf, Requests
  <2>2. QED
    BY <1>2, <2>1 DEF Said, Fsps
<1>3. QED
  BY <1>1, <1>2

(* The registrations, one by one.                                          *)

Registration(r) == [id |-> sid[r], owner |-> r]

WaitsOn(r, c) == pc[r] \in Waiting /\ ChannelOf(r) = c

Registered ==
  \A c \in Channels :
    /\ \A x \in callbacks[c] :
         x.owner \in Requests /\ WaitsOn(x.owner, c) /\ x = Registration(x.owner)
    /\ \A r \in Requests : WaitsOn(r, c) => Registration(r) \in callbacks[c]

LEMMA OneByOne == RegisteredAreWaiting <=> Registered
<1>1. ASSUME RegisteredAreWaiting PROVE Registered
  BY <1>1 DEF RegisteredAreWaiting, Registered, WaitsOn, Registration
<1>2. ASSUME Registered, NEW c \in Channels
      PROVE  callbacks[c] = {[id |-> sid[r], owner |-> r] :
                              r \in {q \in Requests : pc[q] \in Waiting /\ ChannelOf(q) = c}}
  BY <1>2 DEF Registered, WaitsOn, Registration
<1>3. QED
  BY <1>1, <1>2 DEF RegisteredAreWaiting

LEMMA OneByOneNext == RegisteredAreWaiting' <=> Registered'
  BY OneByOne, PTL

-----------------------------------------------------------------------------
LEMMA InitIInv == Init => IInv
<1> SUFFICES ASSUME Init PROVE IInv
  OBVIOUS
<1> USE DEF Init, PubSubInit
<1>1. <<>> \in Seq(Channels) /\ Len(<<>>) = 0
  OBVIOUS
<1>2. TypeOK
  BY <1>1 DEF TypeOK, PubSubTypeOK, Callback, Waiting, AtDfsp
<1>3. Registered
  BY DEF Registered, WaitsOn, Waiting
<1>4. AccountsOfTheUser
  BY DEF AccountsOfTheUser, Fsps, Requests
<1>5. InPlace
  BY DEF InPlace, Waiting
<1>6. IdsDistinct
  BY <1>1 DEF IdsDistinct
<1>7. QED
  BY <1>2, <1>3, <1>4, <1>5, <1>6, OneByOne DEF IInv

\* Subscribing adds a registration under an id nobody has.
LEMMA AskIInv == ASSUME IInv, NEW r \in Requests, Ask(r) PROVE IInv'
<1> USE DEF Ask, Subscribe, NextCallbackId, dfspVars
<1>1. TypeOK /\ Registered /\ ChannelOf(r) \in Channels
  BY ChannelType, OneByOne DEF IInv
<1> USE DEF TypeOK, PubSubTypeOK, Callback, Waiting
<1>2. TypeOK'
  BY <1>1 DEF IInv
<1>3. sid'[r] = callbackId + 1 /\ sid'[r] \in Nat \ {0} /\ (\A q \in Requests : q # r => sid'[q] = sid[q])
  BY <1>1
<1>4. Registered'
  BY <1>1, <1>3 DEF Registered, WaitsOn, Registration
<1>5. AccountsOfTheUser'
  BY <1>1 DEF IInv, AccountsOfTheUser
<1>6. InPlace'
  BY <1>1, <1>3 DEF IInv, InPlace
<1>7. IdsDistinct'
  <2>1. ASSUME NEW q \in Requests, q # r PROVE sid'[q] <= callbackId /\ sid'[q] # sid'[r]
    BY <1>1, <1>3, <2>1 DEF IInv, IdsDistinct
  <2>2. \A c \in Channels : On(c) \subseteq On(c)'
    BY DEF On
  <2>3. \A i \in 1..Len(wire) : On(wire[i])' # {}
    BY <1>1, <2>2 DEF IInv, IdsDistinct
  <2>4. \A q, s \in Requests : sid'[q] # 0 /\ sid'[s] = sid'[q] => s = q
    BY <1>1, <1>3, <2>1 DEF IInv, IdsDistinct
  <2>5. \A q \in Requests : sid'[q] <= callbackId'
    BY <1>1, <1>3, <2>1
  <2>6. QED
    BY <2>3, <2>4, <2>5 DEF IdsDistinct, redisVars
<1>8. QED
  BY <1>2, <1>4, <1>5, <1>6, <1>7, OneByOneNext DEF IInv

\* The end of the process leaves nobody waiting and no registration.
LEMMA DieIInv ==
  ASSUME IInv, NEW S \in SUBSET Requests, Die(S),
         \A q \in S : pc[q] = "idle"
  PROVE  IInv'
<1> USE DEF Die, TypeOK, PubSubTypeOK, Callback, dfspVars
<1>1. TypeOK /\ <<>> \in Seq(Channels) /\ Len(<<>>) = 0
  BY DEF IInv
<1>2. TypeOK'
  BY <1>1
<1>3. \A q \in Requests : pc'[q] \notin Waiting /\ sid'[q] = 0
  BY <1>1 DEF Waiting
<1>4. Registered'
  BY <1>3 DEF Registered, WaitsOn
<1>5. AccountsOfTheUser'
  <2>1. "500" \notin Fsps
    BY DEF Fsps
  <2>2. \A q \in AccountRequests : answer'[q] \in Fsps => answer'[q] = answer[q]
    BY <1>1, <2>1 DEF Requests
  <2>3. QED
    BY <2>2 DEF IInv, AccountsOfTheUser
<1>6. InPlace'
  BY <1>1, <1>3 DEF IInv, InPlace
<1>7. IdsDistinct'
  BY <1>1, <1>3 DEF IdsDistinct
<1>8. QED
  BY <1>2, <1>4, <1>5, <1>6, <1>7, OneByOneNext DEF IInv

\* A request that gives its registration back and fails takes away no other.
LEMMA EndIInv ==
  ASSUME IInv, NEW r \in Requests, pc[r] \in Waiting, GiveBack(r), Answered(r, "500"),
         UNCHANGED <<sent, dfspVars>>
  PROVE  IInv'
<1> USE DEF GiveBack, Answered, WithoutIds, redisVars, dfspVars
<1>1. TypeOK /\ Registered /\ ChannelOf(r) \in Channels /\ sid[r] # 0 /\ "answered" \notin Waiting
  BY ChannelType, OneByOne DEF IInv, InPlace, Waiting
<1> USE DEF TypeOK, PubSubTypeOK, Callback
<1>2. TypeOK'
  BY <1>1
<1>3. \A q \in Requests : q # r => sid'[q] = sid[q] /\ pc'[q] = pc[q] /\ sid[q] # sid[r]
  BY <1>1 DEF IInv, IdsDistinct
<1>4. sid'[r] = 0 /\ pc'[r] \notin Waiting
  BY <1>1
<1>5. Registered'
  BY <1>1, <1>3, <1>4 DEF Registered, WaitsOn, Registration
<1>6. AccountsOfTheUser'
  <2>1. "500" \notin Fsps
    BY DEF Fsps
  <2>2. \A q \in AccountRequests : answer'[q] \in Fsps => answer'[q] = answer[q]
    BY <1>1, <2>1 DEF Requests
  <2>3. QED
    BY <2>2 DEF IInv, AccountsOfTheUser
<1>7. InPlace'
  BY <1>1, <1>3, <1>4 DEF IInv, InPlace
<1>8. IdsDistinct'
  BY <1>1, <1>3, <1>4 DEF IInv, IdsDistinct, On
<1>9. QED
  BY <1>2, <1>5, <1>6, <1>7, <1>8, OneByOneNext DEF IInv

\* A message ends all requests that wait on its channel, and no other.
LEMMA HearIInv == ASSUME IInv, Hear PROVE IInv'
<1> USE DEF IInv, TypeOK, PubSubTypeOK, Callback
<1> DEFINE c == Head(wire)
<1>1. c \in Channels /\ wire = <<c>> \o Tail(wire) /\ wire' \in Seq(Channels)
  BY DEF Hear
<1>2. Registered
  BY OneByOne
<1>3. \A r \in Requests : r \in Called(c) <=> WaitsOn(r, c)
  <2> HIDE DEF c
  <2>1. ASSUME NEW r \in Called(c) PROVE WaitsOn(r, c)
    BY <1>1, <1>2, <2>1 DEF Called, Registered
  <2>2. ASSUME NEW r \in Requests, WaitsOn(r, c) PROVE r \in Called(c)
    <3>1. Registration(r) \in callbacks[c] /\ Registration(r).owner = r
      BY <1>1, <1>2, <2>2 DEF Registered, Registration
    <3>2. QED
      BY <3>1 DEF Called
  <2>3. QED
    BY <2>1, <2>2
<1>4. PICK said \in Said(c) :
        answer' = [r \in Requests |-> IF r \in Called(c) THEN said ELSE answer[r]]
  BY DEF Hear, Heard
<1>5. said \in Fsps \union {"list", "error"}
  BY <1>1, <1>4, SaidType
<1>6. /\ pc' = [r \in Requests |-> IF r \in Called(c) THEN "answered" ELSE pc[r]]
      /\ sid' = [r \in Requests |-> IF r \in Called(c) THEN 0 ELSE sid[r]]
      /\ callbacks' = WithoutIds(c, GivenBack(c))
      /\ UNCHANGED <<entries, callbackId, asked, connected, subscribing, resubscribe,
                     forwarding, drops, sent, told, place>>
  BY DEF Hear, dfspVars
<1>7. TypeOK'
  <2>1. callbacks' \in [Channels -> SUBSET Callback]
    BY <1>6 DEF WithoutIds
  <2>2. QED
    BY <1>1, <1>4, <1>5, <1>6, <2>1
<1>8. Registered'
  <2>1. ASSUME NEW d \in Channels, NEW x \in callbacks'[d]
        PROVE  x \in callbacks[d] /\ x.owner \notin Called(c)
    <3>1. x \in callbacks[d]
      BY <1>1, <1>6, <2>1 DEF WithoutIds
    <3>2. x.owner \in Requests /\ WaitsOn(x.owner, d) /\ x = Registration(x.owner)
      BY <1>2, <3>1 DEF Registered
    <3>3. x.id = sid[x.owner]
      BY <3>2 DEF Registration
    <3>4. d = c => x.id \notin GivenBack(c)
      BY <1>1, <1>6, <2>1 DEF WithoutIds
    <3>5. QED
      BY <1>3, <3>1, <3>2, <3>3, <3>4 DEF GivenBack, WaitsOn
  <2>2. ASSUME NEW d \in Channels, NEW r \in Requests, WaitsOn(r, d)'
        PROVE  Registration(r)' \in callbacks'[d]
    <3>1. r \notin Called(c) /\ WaitsOn(r, d) /\ Registration(r)' = Registration(r)
      BY <1>6, <2>2 DEF WaitsOn, Waiting, Registration
    <3>2. Registration(r) \in callbacks[d]
      BY <1>2, <3>1 DEF Registered
    <3>3. d # c
      BY <1>3, <3>1 DEF WaitsOn
    <3>4. QED
      BY <1>1, <1>6, <3>1, <3>2, <3>3 DEF WithoutIds
  <2>3. QED
    BY <1>2, <1>6, <2>1, <2>2 DEF Registered, WaitsOn, Registration
<1>9. AccountsOfTheUser'
  <2>1. ASSUME NEW r \in AccountRequests, answer'[r] \in Fsps
        PROVE  \E q \in sent \cap AccountRequests :
                 UserOf[q] = UserOf[r] /\ FspOf[q] = answer'[r] /\ q \in told
    <3>1. CASE r \in Called(c)
      <4>1. ChannelOf(r) = c /\ answer'[r] = said /\ c = UserOf[r]
        BY <1>3, <1>4, <3>1, AccountChannel DEF WaitsOn
      <4>2. QED
        BY <1>1, <2>1, <4>1, SaidType
    <3>2. CASE r \notin Called(c)
      BY <1>4, <2>1, <3>2, AccountChannel DEF AccountsOfTheUser
    <3>3. QED
      BY <3>1, <3>2
  <2>2. QED
    BY <1>6, <2>1 DEF AccountsOfTheUser
<1>10. InPlace'
  BY <1>3, <1>4, <1>6 DEF InPlace, WaitsOn, Waiting
<1>11. IdsDistinct'
  <2>1. /\ \A r \in Requests : sid'[r] <= callbackId'
        /\ \A q, r \in Requests : sid'[r] # 0 /\ sid'[q] = sid'[r] => q = r
    BY <1>6 DEF IdsDistinct
  <2>2. ASSUME NEW i \in 1..Len(wire') PROVE i + 1 \in 1..Len(wire) /\ wire'[i] = wire[i + 1]
    BY <1>1 DEF Hear
  <2>3. ASSUME NEW i \in 1..Len(wire') PROVE On(wire[i])' # {}
    <3>1. On(wire[i])' = On(wire[i + 1])
      BY <1>6, <2>2 DEF On
    <3>2. On(wire[i + 1]) # {}
      BY <2>2 DEF IdsDistinct
    <3>3. QED
      BY <3>1, <3>2
  <2>4. QED
    BY <2>1, <2>3 DEF IdsDistinct
<1>12. QED
  BY <1>7, <1>8, <1>9, <1>10, <1>11, OneByOneNext

\* Redis, its client and the inbound handlers change no request, and what reaches the
\* wire was asked for.
LEMMA RedisIInv ==
  ASSUME IInv, UNCHANGED <<requestVars, dfspVars>>,
         \/ \E c \in Channels : Said(c) # {} /\ Publish(c)
         \/ \E c \in Channels : SubscribeProcessed(c)
         \/ ConnectionLost
         \/ Reconnected
  PROVE  IInv'
<1> USE DEF IInv, TypeOK, PubSubTypeOK, Callback, requestVars, dfspVars
<1>1. /\ UNCHANGED <<callbacks, callbackId, pc, sid, answer, sent, place, told>>
      /\ PubSubTypeOK'
      /\ \A i \in 1..Len(wire') : On(wire[i])' # {}
  <2>1. ASSUME NEW c \in Channels, Said(c) # {}, Publish(c)
        PROVE  /\ UNCHANGED <<callbacks, callbackId>>
               /\ PubSubTypeOK'
               /\ \A i \in 1..Len(wire') : On(wire[i])' # {}
    <3>1. On(c) # {} /\ Append(wire, c) \in Seq(Channels)
      BY <2>1 DEF Said
    <3>2. ASSUME NEW i \in 1..Len(wire') PROVE On(wire[i])' # {}
      BY <2>1, <3>1, <3>2 DEF Publish, IdsDistinct, On
    <3>3. QED
      BY <2>1, <3>1, <3>2 DEF Publish
  <2>2. ASSUME NEW c \in Channels, SubscribeProcessed(c)
        PROVE  UNCHANGED <<callbacks, callbackId, wire>> /\ PubSubTypeOK'
    BY <2>2 DEF SubscribeProcessed
  <2>3. CASE ConnectionLost
    <3>1. <<>> \in Seq(Channels) /\ Len(<<>>) = 0 /\ drops + 1 \in Nat
      OBVIOUS
    <3>2. UNCHANGED <<callbacks, callbackId>> /\ PubSubTypeOK'
      BY <2>3, <3>1 DEF ConnectionLost
    <3>3. \A i \in 1..Len(wire') : On(wire[i])' # {}
      BY <2>3, <3>1 DEF ConnectionLost
    <3>4. QED
      BY <3>2, <3>3
  <2>4. CASE Reconnected
    BY <2>4 DEF Reconnected, IdsDistinct, On
  <2>5. QED
    BY <2>1, <2>2, <2>3, <2>4 DEF IdsDistinct, On
<1>2. TypeOK' /\ AccountsOfTheUser' /\ InPlace' /\ IdsDistinct'
  BY <1>1 DEF AccountsOfTheUser, InPlace, IdsDistinct
<1>3. RegisteredAreWaiting'
  BY <1>1 DEF RegisteredAreWaiting
<1>4. QED
  BY <1>2, <1>3

\* The DFSP takes nothing back that it has sent.
LEMMA ServeIInv == ASSUME IInv, Serve PROVE IInv'
<1> USE DEF IInv, TypeOK, pubSubVars, redisVars, requestVars
<1>1. /\ UNCHANGED <<pubSubVars, requestVars>>
      /\ place' \in [AccountRequests -> AtDfsp \union {"none", "done"}]
      /\ told \subseteq told' /\ told' \subseteq AccountRequests
  BY DEF Serve, Receive, BackendDone, PutDone, Report, DfspDies, Move, AtDfsp
<1>2. TypeOK' /\ InPlace' /\ IdsDistinct' /\ RegisteredAreWaiting'
  BY <1>1 DEF PubSubTypeOK, InPlace, IdsDistinct, On, RegisteredAreWaiting
<1>3. AccountsOfTheUser'
  BY <1>1 DEF AccountsOfTheUser
<1>4. QED
  BY <1>2, <1>3

\* A request that is refused or accepted keeps or has no registration.
LEMMA ReplyIInv ==
  ASSUME IInv, NEW r \in Requests, CallDone(r) \/ ProvidersRefused(r)
  PROVE  IInv'
<1> USE DEF TypeOK, PubSubTypeOK, Callback, SubscribeRefused, Answered, redisVars,
        pubSubVars, dfspVars
<1>1. TypeOK /\ Registered /\ ChannelOf(r) \in Channels
  BY ChannelType, OneByOne DEF IInv
<1>2. /\ UNCHANGED <<callbacks, callbackId, sid, sent, place, told, wire>>
      /\ \A q \in Requests : q # r => pc'[q] = pc[q] /\ answer'[q] = answer[q]
      /\ (pc'[r] \in Waiting) = (pc[r] \in Waiting)
      /\ answer'[r] \in {answer[r], "500"}
      /\ pc'[r] # "answered" => answer'[r] = answer[r] /\ pc[r] # "answered"
  BY <1>1 DEF CallDone, ProvidersRefused, Waiting
<1>3. TypeOK'
  BY <1>1, <1>2 DEF CallDone, ProvidersRefused, Waiting
<1>4. Registered'
  BY <1>1, <1>2 DEF Registered, WaitsOn, Registration
<1>5. AccountsOfTheUser'
  <2>1. "500" \notin Fsps
    BY DEF Fsps
  <2>2. \A q \in AccountRequests : answer'[q] \in Fsps => answer'[q] = answer[q]
    BY <1>1, <1>2, <2>1 DEF Requests
  <2>3. QED
    BY <1>2, <2>2 DEF IInv, AccountsOfTheUser
<1>6. InPlace'
  BY <1>1, <1>2 DEF IInv, InPlace
<1>7. IdsDistinct'
  BY <1>1, <1>2 DEF IInv, IdsDistinct, On
<1>8. QED
  BY <1>3, <1>4, <1>5, <1>6, <1>7, OneByOneNext DEF IInv

LEMMA StepIInv == IInv /\ [Next]_vars => IInv'
<1> SUFFICES ASSUME IInv, [Next]_vars PROVE IInv'
  OBVIOUS
<1>1. ASSUME NEW r \in Requests, Step(r) PROVE IInv'
  BY <1>1, AskIInv, ReplyIInv, EndIInv
  DEF Step, CallFails, Timeout, Waiting
<1>2. ASSUME NEW r \in ProviderRequests, ProvidersRefused(r) PROVE IInv'
  BY <1>2, ReplyIInv DEF Requests
<1>3. ASSUME NEW r \in AccountRequests, AccountsRefused(r) PROVE IInv'
  BY <1>3, DieIInv DEF AccountsRefused, Requests
<1>4. CASE Hear
  BY <1>4, HearIInv
<1>5. CASE Crash
  BY <1>5, DieIInv DEF Crash
<1>6. CASE Serve
  BY <1>6, ServeIInv
<1>7. ASSUME NEW c \in Channels, Put(c) PROVE IInv'
  BY <1>7, RedisIInv DEF Put
<1>8. CASE ((\E c \in Channels : SubscribeProcessed(c)) \/ ConnectionLost \/ Reconnected)
             /\ UNCHANGED <<requestVars, dfspVars>>
  BY <1>8, RedisIInv
<1>9. CASE UNCHANGED vars
  BY <1>9 DEF vars, IInv, TypeOK, PubSubTypeOK, AccountsOfTheUser, RegisteredAreWaiting,
     InPlace, IdsDistinct, On, pubSubVars, redisVars, requestVars, dfspVars
<1>10. QED
  BY <1>1, <1>2, <1>3, <1>4, <1>5, <1>6, <1>7, <1>8, <1>9 DEF Next

-----------------------------------------------------------------------------
\* The invariant holds, for any requests, users and DFSPs, however messages, failures
\* and restarts interleave.
THEOREM Invariance == Spec => []IInv
<1>1. Init => IInv
  BY InitIInv
<1>2. IInv /\ [Next]_vars => IInv'
  BY StepIInv
<1>3. QED
  BY <1>1, <1>2, PTL DEF Spec

\* A request is given no accounts but those of its user (pispDiscovery.model.ts:74).
THEOREM OfTheUser == Spec => []AccountsOfTheUser
<1>1. IInv => AccountsOfTheUser
  BY DEF IInv
<1>2. QED
  BY <1>1, Invariance, PTL

\* The subscriber holds exactly the requests that wait (pispDiscovery.model.ts:96 and
\* :118, deferred-job.ts:147).
THEOREM Kept == Spec => []RegisteredAreWaiting
<1>1. IInv => RegisteredAreWaiting
  BY DEF IInv
<1>2. QED
  BY <1>1, Invariance, PTL

\* No later message, failure or restart changes what a request was answered with: no
\* callback outlives its request.
THEOREM Once == Spec => AnswerStays
<1>1. ASSUME IInv, [Next]_vars, NEW r \in Requests, answer[r] # "none"
      PROVE  answer'[r] = answer[r]
  <2> USE <1>1 DEF IInv, TypeOK
  <2>1. pc[r] = "answered" /\ pc[r] \notin Waiting /\ pc[r] # "idle"
    BY DEF InPlace, Waiting
  <2>2. ASSUME NEW q \in Requests, Step(q) \/ ProvidersRefused(q) PROVE answer'[r] = answer[r]
    BY <2>1, <2>2 DEF Step, Ask, CallDone, CallFails, Timeout, ProvidersRefused, Answered, Waiting
  <2>3. ASSUME NEW S \in SUBSET Requests, r \notin S, Die(S) PROVE answer'[r] = answer[r]
    BY <2>1, <2>3 DEF Die
  <2>4. CASE Hear
    <3>1. Head(wire) \in Channels
      BY <2>4 DEF Hear, PubSubTypeOK
    <3>2. r \notin Called(Head(wire))
      BY <2>1, <3>1, OneByOne DEF Called, Registered, WaitsOn
    <3>3. QED
      BY <2>4, <3>2 DEF Hear
  <2>5. CASE UNCHANGED requestVars
    BY <2>5 DEF requestVars
  <2>6. QED
    BY <2>1, <2>2, <2>3, <2>4, <2>5
    DEF Next, vars, Serve, Put, AccountsRefused, Crash, Requests
<1>2. IInv /\ [Next]_vars
      => [\A r \in Requests : answer[r] # "none" => answer'[r] = answer[r]]_vars
  BY <1>1
<1>3. QED
  BY <1>2, Invariance, PTL DEF Spec, AnswerStays
=============================================================================
