------------------------- MODULE DeferredJobProofs -------------------------
(***************************************************************************)
(* Proofs about DeferredJob, for every set of jobs and channels: the       *)
(* inductive invariant IInv, the safety properties it gives, and that the  *)
(* job implements AwaitedMessage.                                          *)
(***************************************************************************)
EXTENDS DeferredJob, TLAPS

USE DeferredJobAssumption, PubSubAssumption

LEMMA InitTypeOK == Init => TypeOK
  BY DEF Init, PubSubInit, TypeOK, PubSubTypeOK, Run, Callback

\* Every step keeps the types of the Redis side.
LEMMA PubSubTypeStep == TypeOK /\ [Next]_vars => PubSubTypeOK'
<1> SUFFICES ASSUME TypeOK, [Next]_vars PROVE PubSubTypeOK'
  OBVIOUS
<1> USE DEF TypeOK, PubSubTypeOK, Callback, redisVars, NextCallbackId
<1>1. ASSUME NEW j \in Jobs, Wait(j) PROVE PubSubTypeOK'
  BY <1>1 DEF Wait, Subscribe
<1>2. ASSUME NEW j \in Jobs, WaitRefused(j) PROVE PubSubTypeOK'
  BY <1>2 DEF WaitRefused, SubscribeRefused
<1>3. ASSUME NEW j \in Jobs, Unsubscribe(j) PROVE PubSubTypeOK'
  BY <1>3 DEF Unsubscribe, WithoutIds
<1>4. ASSUME UNCHANGED pubSubVars PROVE PubSubTypeOK'
  BY <1>4 DEF pubSubVars
<1>5. CASE Broadcast
  <2>1. Head(wire) \in Channels /\ Tail(wire) \in Seq(Channels)
    BY <1>5 DEF Broadcast
  <2>2. QED
    BY <1>5, <2>1 DEF Broadcast, WithoutIds
<1>6. CASE RedisNext
  <2>1. ASSUME NEW c \in Channels, SubscribeProcessed(c) PROVE PubSubTypeOK'
    BY <2>1 DEF SubscribeProcessed
  <2>2. ASSUME NEW c \in Channels, Publish(c) PROVE PubSubTypeOK'
    <3>1. Append(wire, c) \in Seq(Channels)
      OBVIOUS
    <3>2. QED
      BY <2>2, <3>1 DEF Publish
  <2>3. CASE ConnectionLost
    <3>1. <<>> \in Seq(Channels) /\ drops + 1 \in Nat
      OBVIOUS
    <3>2. QED
      BY <2>3, <3>1 DEF ConnectionLost
  <2>4. CASE Reconnected
    BY <2>4 DEF Reconnected
  <2>5. QED
    BY <1>6, <2>1, <2>2, <2>3, <2>4 DEF RedisNext
<1>7. QED
  BY <1>1, <1>2, <1>3, <1>4, <1>5, <1>6
  DEF Next, JobNext, vars, WaitWithoutTime, InitiatorDone, InitiatorFails,
      ListenerDone, ListenerFails, Timeout

\* Every step keeps the types of the jobs.
LEMMA JobTypeStep == TypeOK /\ [Next]_vars => TypeOK'
<1> SUFFICES ASSUME TypeOK, [Next]_vars PROVE TypeOK'
  OBVIOUS
<1>1. PubSubTypeOK'
  BY PubSubTypeStep
<1> USE <1>1 DEF TypeOK, Run
<1>2. ASSUME NEW j \in Jobs, JobNext(j) PROVE TypeOK'
  <2> USE DEF Settled, Unsubscribe
  <2>1. CASE Wait(j)
    BY <2>1 DEF Wait, NextCallbackId, PubSubTypeOK
  <2>2. CASE WaitRefused(j) \/ WaitWithoutTime(j)
    BY <2>2 DEF WaitRefused, WaitWithoutTime
  <2>3. CASE InitiatorDone(j) \/ InitiatorFails(j)
    BY <2>3 DEF InitiatorDone, InitiatorFails
  <2>4. CASE ListenerDone(j) \/ ListenerFails(j)
    BY <2>4 DEF ListenerDone, ListenerFails
  <2>5. CASE Timeout(j)
    BY <2>5 DEF Timeout
  <2>6. QED
    BY <1>2, <2>1, <2>2, <2>3, <2>4, <2>5 DEF JobNext
<1>3. CASE Broadcast
  BY <1>3 DEF Broadcast
<1>4. CASE UNCHANGED jobVars
  BY <1>4 DEF jobVars
<1>5. QED
  BY <1>2, <1>3, <1>4 DEF Next, vars

-----------------------------------------------------------------------------
(* The inductive invariant.                                                *)

LEMMA InitIInv == Init => IInv
  BY InitTypeOK DEF Init, PubSubInit, IInv, AtMostOneCall, ResolvedByListener,
     StillRegistered, RegistrationsOwned, IdsDistinct, WaitingHasId, RunsAgree

\* Subscribing adds a registration under an id nobody has.
LEMMA WaitIInv == ASSUME IInv, TypeOK', NEW j \in Jobs, Wait(j) PROVE IInv'
<1> USE DEF IInv, TypeOK, PubSubTypeOK, Wait, Subscribe, NextCallbackId
<1>1. AtMostOneCall' /\ ResolvedByListener' /\ RunsAgree'
  BY DEF AtMostOneCall, ResolvedByListener, RunsAgree
<1>2. WaitingHasId' /\ IdsDistinct'
  BY DEF WaitingHasId, IdsDistinct
<1>3. StillRegistered'
  BY DEF StillRegistered
<1>4. RegistrationsOwned'
  BY DEF RegistrationsOwned, RunsAgree, Callback
<1>5. QED
  BY <1>1, <1>2, <1>3, <1>4

\* Giving a registration back takes away the job's own and no other.
LEMMA UnsubscribeOwn ==
  ASSUME IInv, TypeOK', NEW j \in Jobs, Unsubscribe(j)
  PROVE  /\ \A c \in Channels : callbacks'[c] \subseteq callbacks[c]
         /\ \A c \in Channels : \A r \in callbacks'[c] : r.owner # j
         /\ \A c \in Channels : \A r \in callbacks[c] :
              r.owner # j => r \in callbacks'[c]
         /\ sid' = [sid EXCEPT ![j] = 0]
         /\ callbackId' = callbackId
<1> USE DEF IInv, TypeOK, PubSubTypeOK, Unsubscribe, WithoutIds, Callback
<1>1. ASSUME NEW c \in Channels, NEW r \in callbacks[c]
      PROVE  r.owner = j => sid[j] # 0
  BY <1>1 DEF RegistrationsOwned, WaitingHasId
<1>2. ASSUME NEW c \in Channels, NEW r \in callbacks[c], r.owner # j
      PROVE  r.id # sid[j] \/ sid[j] = 0
  BY <1>2 DEF RegistrationsOwned, IdsDistinct
<1>3. QED
  BY <1>1, <1>2 DEF RegistrationsOwned

\* A job that ends gives its registration back and settles its promise; its
\* listener may have run.
LEMMA EndIInv ==
  ASSUME IInv, TypeOK', NEW j \in Jobs, Unsubscribe(j), UNCHANGED calls,
         promise' = [promise EXCEPT ![j] = "rejected"] \/
           (promise[j] # "pending" /\ UNCHANGED promise),
         \/ UNCHANGED listener
         \/ listener[j] = "running" /\ listener' = [listener EXCEPT ![j] = "failed"]
  PROVE  IInv'
<1>0. /\ \A c \in Channels : callbacks'[c] \subseteq callbacks[c]
      /\ \A c \in Channels : \A r \in callbacks'[c] : r.owner # j
      /\ \A c \in Channels : \A r \in callbacks[c] :
           r.owner # j => r \in callbacks'[c]
      /\ sid' = [sid EXCEPT ![j] = 0]
      /\ callbackId' = callbackId
  BY UnsubscribeOwn
<1> USE DEF IInv, TypeOK, PubSubTypeOK, Callback
<1>1. AtMostOneCall' /\ ResolvedByListener' /\ RunsAgree'
  BY DEF AtMostOneCall, ResolvedByListener, RunsAgree
<1>2. WaitingHasId' /\ IdsDistinct'
  BY <1>0 DEF WaitingHasId, IdsDistinct
<1>3. StillRegistered'
  BY <1>0 DEF StillRegistered
<1>4. RegistrationsOwned'
  BY <1>0 DEF RegistrationsOwned
<1>5. QED
  BY <1>1, <1>2, <1>3, <1>4

\* A message is handed to jobs that wait for their first one.
LEMMA CalledWaits ==
  ASSUME IInv, NEW c \in Channels, NEW j \in Called(c)
  PROVE  j \in Jobs /\ promise[j] = "pending" /\ calls[j] = 0 /\ ChannelOf[j] = c
BY DEF IInv, TypeOK, PubSubTypeOK, Callback, Called, RegistrationsOwned

LEMMA BroadcastIInv == ASSUME IInv, TypeOK', Broadcast PROVE IInv'
<1> DEFINE c == Head(wire)
<1>1. c \in Channels
  BY DEF IInv, TypeOK, PubSubTypeOK, Broadcast
<1>2. \A j \in Called(c) :
        j \in Jobs /\ promise[j] = "pending" /\ calls[j] = 0 /\ ChannelOf[j] = c
  BY <1>1, CalledWaits
<1>3. /\ sid' = [j \in Jobs |-> IF j \in Called(c) THEN 0 ELSE sid[j]]
      /\ listener' = [j \in Jobs |-> IF j \in Called(c) THEN "running" ELSE listener[j]]
      /\ calls' = [j \in Jobs |-> IF j \in Called(c) THEN calls[j] + 1 ELSE calls[j]]
      /\ UNCHANGED <<promise, callbackId>>
  BY DEF Broadcast
<1>4. callbacks' = [callbacks EXCEPT ![c] = {}]
  <2>1. ASSUME NEW r \in callbacks[c] PROVE r.id \in GivenBack(c)
    <3>1. r.owner \in Called(c) /\ r.owner \in Jobs
      BY <1>1, <2>1, <1>2 DEF Called
    <3>2. sid[r.owner] = r.id /\ sid[r.owner] # 0
      BY <1>1, <1>2, <2>1, <3>1 DEF IInv, RegistrationsOwned, WaitingHasId
    <3>3. QED
      BY <3>1, <3>2 DEF GivenBack
  <2>2. callbacks' = [callbacks EXCEPT ![c] = {r \in @ : r.id \notin GivenBack(c)}]
    BY DEF Broadcast, WithoutIds
  <2>3. {r \in callbacks[c] : r.id \notin GivenBack(c)} = {}
    BY <2>1
  <2>4. QED
    BY <2>2, <2>3
<1> HIDE DEF c
<1> USE <1>1, <1>2, <1>3, <1>4 DEF IInv, TypeOK, PubSubTypeOK, Callback
<1>5. AtMostOneCall' /\ ResolvedByListener' /\ RunsAgree'
  BY DEF AtMostOneCall, ResolvedByListener, RunsAgree
<1>6. WaitingHasId' /\ IdsDistinct'
  BY DEF WaitingHasId, IdsDistinct
<1>7. StillRegistered'
  <2> SUFFICES ASSUME NEW j \in Jobs, promise[j] = "pending", calls'[j] = 0
               PROVE  [id |-> sid'[j], owner |-> j] \in callbacks'[ChannelOf[j]]
    BY DEF StillRegistered
  <2>1. j \notin Called(c) /\ calls[j] = 0 /\ sid'[j] = sid[j]
    OBVIOUS
  <2>2. [id |-> sid[j], owner |-> j] \in callbacks[ChannelOf[j]]
    BY <2>1 DEF StillRegistered
  <2>3. ChannelOf[j] # c
    BY <2>1, <2>2 DEF Called
  <2>4. QED
    BY <2>1, <2>2, <2>3
<1>8. RegistrationsOwned'
  <2> SUFFICES ASSUME NEW d \in Channels, NEW r \in callbacks'[d]
               PROVE  /\ ChannelOf[r.owner] = d
                      /\ sid'[r.owner] = r.id
                      /\ promise'[r.owner] = "pending"
                      /\ calls'[r.owner] = 0
    BY DEF RegistrationsOwned
  <2>1. d # c /\ r \in callbacks[d] /\ r.owner \in Jobs
    OBVIOUS
  <2>2. /\ ChannelOf[r.owner] = d
        /\ sid[r.owner] = r.id
        /\ promise[r.owner] = "pending"
        /\ calls[r.owner] = 0
    BY <2>1 DEF RegistrationsOwned
  <2>3. r.owner \notin Called(c)
    BY <2>1, <2>2
  <2>4. QED
    BY <2>1, <2>2, <2>3
<1>9. QED
  BY <1>5, <1>6, <1>7, <1>8

\* Everything else leaves registrations alone; a finished listener resolves.
LEMMA QuietIInv ==
  ASSUME IInv, TypeOK', UNCHANGED <<callbacks, callbackId, sid, calls>>,
         \/ UNCHANGED <<promise, listener>>
         \/ \E j \in Jobs : /\ promise[j] = "unmade"
                            /\ promise' = [promise EXCEPT ![j] = "rejected"]
                            /\ UNCHANGED listener
         \/ \E j \in Jobs : ListenerDone(j)
  PROVE  IInv'
<1> USE DEF IInv, TypeOK, PubSubTypeOK, Callback, ListenerDone, Settled
<1>1. AtMostOneCall' /\ ResolvedByListener' /\ RunsAgree'
  <2>1. CASE UNCHANGED <<promise, listener>>
    BY <2>1 DEF AtMostOneCall, ResolvedByListener, RunsAgree
  <2>2. ASSUME NEW j \in Jobs, promise[j] = "unmade", UNCHANGED listener,
               promise' = [promise EXCEPT ![j] = "rejected"]
        PROVE  AtMostOneCall' /\ ResolvedByListener' /\ RunsAgree'
    BY <2>2 DEF AtMostOneCall, ResolvedByListener, RunsAgree
  <2>3. ASSUME NEW j \in Jobs, ListenerDone(j)
        PROVE  AtMostOneCall' /\ ResolvedByListener' /\ RunsAgree'
    <3>1. calls[j] = 1
      BY <2>3 DEF AtMostOneCall, RunsAgree
    <3>2. QED
      BY <2>3, <3>1 DEF AtMostOneCall, ResolvedByListener, RunsAgree
  <2>4. QED
    BY <2>1, <2>2, <2>3
<1>2. WaitingHasId' /\ IdsDistinct'
  BY DEF WaitingHasId, IdsDistinct
<1>3. StillRegistered'
  BY DEF StillRegistered
<1>4. RegistrationsOwned'
  <2> SUFFICES ASSUME NEW d \in Channels, NEW r \in callbacks[d]
               PROVE  promise'[r.owner] = promise[r.owner]
    BY DEF RegistrationsOwned
  <2>1. promise[r.owner] = "pending" /\ calls[r.owner] = 0 /\ r.owner \in Jobs
    BY DEF RegistrationsOwned
  <2>2. listener[r.owner] = "none"
    BY <2>1 DEF RunsAgree
  <2>3. QED
    BY <2>1, <2>2
<1>5. QED
  BY <1>1, <1>2, <1>3, <1>4

LEMMA NextIInv == IInv /\ [Next]_vars => IInv'
<1> SUFFICES ASSUME IInv, [Next]_vars PROVE IInv'
  OBVIOUS
<1>0. TypeOK /\ TypeOK'
  BY JobTypeStep DEF IInv
<1>1. ASSUME NEW j \in Jobs, Wait(j) PROVE IInv'
  BY <1>0, <1>1, WaitIInv
<1>2. ASSUME NEW j \in Jobs, WaitRefused(j) \/ WaitWithoutTime(j) PROVE IInv'
  BY <1>0, <1>2, QuietIInv DEF WaitRefused, SubscribeRefused, WaitWithoutTime, pubSubVars
<1>3. ASSUME NEW j \in Jobs, InitiatorDone(j) PROVE IInv'
  BY <1>0, <1>3, QuietIInv DEF InitiatorDone, pubSubVars
<1>4. ASSUME NEW j \in Jobs, InitiatorFails(j) \/ ListenerFails(j) \/ Timeout(j)
      PROVE  IInv'
  <2>1. /\ Unsubscribe(j)
        /\ UNCHANGED calls
        /\ \/ promise' = [promise EXCEPT ![j] = "rejected"]
           \/ promise[j] # "pending" /\ UNCHANGED promise
        /\ \/ UNCHANGED listener
           \/ listener[j] = "running" /\ listener' = [listener EXCEPT ![j] = "failed"]
    BY <1>0, <1>4
    DEF InitiatorFails, ListenerFails, Timeout, Settled, TypeOK
  <2>2. QED
    BY <1>0, <2>1, EndIInv
<1>5. ASSUME NEW j \in Jobs, ListenerDone(j) PROVE IInv'
  <2>1. UNCHANGED <<callbacks, callbackId, sid, calls>>
    BY <1>5 DEF ListenerDone, pubSubVars
  <2>2. QED
    BY <1>0, <1>5, <2>1, QuietIInv
<1>6. CASE Broadcast
  BY <1>0, <1>6, BroadcastIInv
<1>7. CASE RedisNext /\ UNCHANGED jobVars
  <2>1. UNCHANGED <<callbacks, callbackId>>
    BY <1>7
    DEF RedisNext, SubscribeProcessed, Publish, ConnectionLost, Reconnected
  <2>2. QED
    BY <1>0, <1>7, <2>1, QuietIInv DEF jobVars
<1>8. CASE UNCHANGED vars
  BY <1>0, <1>8, QuietIInv DEF vars, pubSubVars, jobVars
<1>9. QED
  BY <1>1, <1>2, <1>3, <1>4, <1>5, <1>6, <1>7, <1>8 DEF Next, JobNext

\* Whatever Redis, the peer and the timers do, and however many jobs share a
\* channel, the invariant holds.
THEOREM Invariance == Spec => []IInv
<1>1. Init => IInv
  BY InitIInv
<1>2. IInv /\ [Next]_vars => IInv'
  BY NextIInv
<1>3. QED
  BY <1>1, <1>2, PTL DEF Spec

\* The listener of a job is invoked at most once.
THEOREM CalledOnce == Spec => []AtMostOneCall
<1>1. IInv => AtMostOneCall
  BY DEF IInv
<1>2. QED
  BY <1>1, Invariance, PTL

\* A promise resolves only because its own listener has consumed a message.
THEOREM ResolvedConsumed == Spec => []ResolvedByListener
<1>1. IInv => ResolvedByListener
  BY DEF IInv
<1>2. QED
  BY <1>1, Invariance, PTL

\* A job that waits can still be reached.
LEMMA WaitingReachable == Spec => []StillRegistered
<1>1. IInv => StillRegistered
  BY DEF IInv
<1>2. QED
  BY <1>1, Invariance, PTL

\* A settled job leaves no callback behind.
LEMMA NothingLeft == Spec => []NoRegistrationLeft
<1>1. IInv => NoRegistrationLeft
  BY CalledWaits DEF IInv, NoRegistrationLeft, Over
<1>2. QED
  BY <1>1, Invariance, PTL

\* The callbacks map holds every job that waits and none that is over.
THEOREM RegisteredExactly == Spec => []RegisteredWhileWaiting
<1>1. StillRegistered /\ NoRegistrationLeft => RegisteredWhileWaiting
  BY DEF RegisteredWhileWaiting
<1>2. QED
  BY <1>1, WaitingReachable, NothingLeft, PTL

-----------------------------------------------------------------------------
(* Registered callbacks are heard.                                         *)

\* Before the first loss of the connection: it is up, every channel that has an
\* entry is one Redis forwards or was asked to, and callbacks are only registered
\* on channels that have an entry.
EntriesAreHeard ==
  /\ drops = 0 => connected /\ entries \subseteq subscribing \union forwarding
  /\ \A c \in Channels : callbacks[c] # {} => c \in entries

\* An entry is only made together with its SUBSCRIBE, unless the connection is
\* down, and nothing but a loss takes a channel back from Redis.
LEMMA EntriesStep ==
  TypeOK /\ EntriesAreHeard /\ [Next]_vars => EntriesAreHeard'
<1> SUFFICES ASSUME TypeOK, EntriesAreHeard, [Next]_vars PROVE EntriesAreHeard'
  OBVIOUS
<1> USE DEF TypeOK, PubSubTypeOK, EntriesAreHeard
<1>1. ASSUME NEW j \in Jobs, Wait(j) PROVE EntriesAreHeard'
  BY <1>1 DEF Wait, Subscribe, SubscribeThrows
<1>2. ASSUME NEW j \in Jobs, WaitRefused(j) PROVE EntriesAreHeard'
  BY <1>2 DEF WaitRefused, SubscribeRefused, SubscribeThrows, redisVars
<1>3. ASSUME NEW j \in Jobs, Unsubscribe(j) PROVE EntriesAreHeard'
  BY <1>3 DEF Unsubscribe, WithoutIds, redisVars
<1>4. CASE Broadcast
  <2>1. Head(wire) \in Channels
    BY <1>4 DEF Broadcast
  <2>2. QED
    BY <1>4, <2>1 DEF Broadcast, WithoutIds
<1>5. CASE RedisNext
  <2>1. ASSUME NEW c \in Channels, SubscribeProcessed(c) \/ Publish(c)
        PROVE  EntriesAreHeard'
    BY <2>1 DEF SubscribeProcessed, Publish
  <2>2. CASE ConnectionLost
    BY <2>2 DEF ConnectionLost
  <2>3. CASE Reconnected
    BY <2>3 DEF Reconnected
  <2>4. QED
    BY <1>5, <2>1, <2>2, <2>3 DEF RedisNext
<1>6. CASE UNCHANGED pubSubVars
  BY <1>6 DEF pubSubVars, redisVars
<1>7. QED
  BY <1>1, <1>2, <1>3, <1>4, <1>5, <1>6
  DEF Next, JobNext, vars, WaitWithoutTime, InitiatorDone, InitiatorFails,
      ListenerDone, ListenerFails, Timeout

\* Until the connection is lost for the first time, a channel that has callbacks
\* is forwarded or about to be: a published answer can be missed only before the
\* SUBSCRIBE is processed.
THEOREM HeardUntilLost == Spec => []RegisteredIsHeard
<1>1. Init => EntriesAreHeard
  BY DEF Init, PubSubInit, EntriesAreHeard
<1>2. IInv => TypeOK
  BY DEF IInv
<1>3. TypeOK /\ EntriesAreHeard /\ [Next]_vars => EntriesAreHeard'
  BY EntriesStep
<1>4. EntriesAreHeard => RegisteredIsHeard
  BY DEF EntriesAreHeard, RegisteredIsHeard
<1>5. QED
  BY <1>1, <1>2, <1>3, <1>4, Invariance, PTL DEF Spec

-----------------------------------------------------------------------------
(* Late answers.                                                           *)

\* Only a broadcast invokes listeners, and only those of waiting jobs.
LEMMA CallStep ==
  IInv /\ [Next]_vars => \/ UNCHANGED calls
                         \/ Broadcast /\ Head(wire) \in Channels
<1> SUFFICES ASSUME IInv, [Next]_vars
             PROVE  UNCHANGED calls \/ (Broadcast /\ Head(wire) \in Channels)
  OBVIOUS
<1>1. CASE Broadcast
  BY <1>1 DEF IInv, TypeOK, PubSubTypeOK, Broadcast
<1>2. CASE ~Broadcast
  BY <1>2
  DEF Next, vars, jobVars, JobNext, Wait, WaitRefused, WaitWithoutTime,
      InitiatorDone, InitiatorFails, ListenerDone, ListenerFails, Timeout
<1>3. QED
  BY <1>1, <1>2

\* An answer that arrives after the outcome is not consumed.
THEOREM LateAnswerIgnored == Spec => NoCallOnceOver
<1>1. IInv /\ [Next]_vars => [\A j \in Jobs : Over(j) => calls'[j] = calls[j]]_vars
  <2> SUFFICES ASSUME IInv, [Next]_vars, NEW j \in Jobs, Over(j)
               PROVE  calls'[j] = calls[j]
    OBVIOUS
  <2>1. CASE UNCHANGED calls
    BY <2>1
  <2>2. CASE Broadcast /\ Head(wire) \in Channels
    <3>1. j \notin Called(Head(wire))
      BY <2>2, CalledWaits DEF Over
    <3>2. QED
      BY <2>2, <3>1 DEF Broadcast
  <2>3. QED
    BY <2>1, <2>2, CallStep
<1>2. QED
  BY <1>1, Invariance, PTL DEF Spec, NoCallOnceOver

-----------------------------------------------------------------------------
(* The job implements the abstract promise.                                *)

LEMMA AbstractStep == IInv /\ IInv' /\ [Next]_vars => [Abstract!Next]_(Abstract!vars)
<1> SUFFICES ASSUME IInv, IInv', [Next]_vars
             PROVE  Abstract!Next \/ UNCHANGED <<promise, calls>>
  BY DEF Abstract!vars
<1>0. TypeOK
  BY DEF IInv
<1>1. ASSUME NEW j \in Jobs, Wait(j) \/ WaitRefused(j) \/ WaitWithoutTime(j)
      PROVE  Abstract!Next
  <2>1. Abstract!Ask(j)
    BY <1>1 DEF Wait, WaitRefused, WaitWithoutTime, Abstract!Ask
  <2>2. QED
    BY <2>1 DEF Abstract!Next
<1>2. ASSUME NEW j \in Jobs, InitiatorFails(j) \/ ListenerFails(j) \/ Timeout(j)
      PROVE  Abstract!Next \/ UNCHANGED <<promise, calls>>
  <2>1. Abstract!Reject(j) \/ UNCHANGED <<promise, calls>>
    BY <1>0, <1>2
    DEF InitiatorFails, ListenerFails, Timeout, Settled, Abstract!Reject, TypeOK
  <2>2. QED
    BY <2>1 DEF Abstract!Next
<1>3. ASSUME NEW j \in Jobs, ListenerDone(j)
      PROVE  Abstract!Next \/ UNCHANGED <<promise, calls>>
  <2>1. calls[j] = 1
    BY <1>0, <1>3 DEF IInv, AtMostOneCall, RunsAgree, ListenerDone, TypeOK
  <2>2. Abstract!Resolve(j) \/ UNCHANGED <<promise, calls>>
    BY <1>0, <1>3, <2>1 DEF ListenerDone, Settled, Abstract!Resolve, TypeOK
  <2>3. QED
    BY <2>2 DEF Abstract!Next
<1>4. ASSUME Broadcast PROVE Abstract!Next
  <2>1. Head(wire) \in Channels
    BY <1>0, <1>4 DEF Broadcast, TypeOK, PubSubTypeOK
  <2>2. \A j \in Called(Head(wire)) : j \in Jobs /\ promise[j] = "pending" /\ calls[j] = 0
    BY <2>1, CalledWaits
  <2>3. calls' = [j \in Jobs |-> IF j \in Called(Head(wire)) THEN 1 ELSE calls[j]]
    BY <1>4, <2>2 DEF Broadcast
  <2>4. Abstract!Take(Called(Head(wire)))
    BY <1>4, <2>2, <2>3 DEF Broadcast, Abstract!Take
  <2>5. Called(Head(wire)) \in SUBSET Jobs
    BY <2>2
  <2>6. QED
    BY <2>4, <2>5 DEF Abstract!Next
<1>5. ASSUME NEW j \in Jobs, InitiatorDone(j) PROVE UNCHANGED <<promise, calls>>
  BY <1>5 DEF InitiatorDone
<1>6. CASE UNCHANGED jobVars
  BY <1>6 DEF jobVars
<1>7. QED
  BY <1>1, <1>2, <1>3, <1>4, <1>5, <1>6 DEF Next, JobNext, vars

\* Every behaviour of the code is one AwaitedMessage allows.
THEOREM Implements == Spec => KeepsPromise
<1>1. Init => Abstract!Init
  BY DEF Init, Abstract!Init
<1>2. IInv /\ IInv' /\ [Next]_vars => [Abstract!Next]_(Abstract!vars)
  BY AbstractStep
<1>3. QED
  BY <1>1, <1>2, Invariance, PTL DEF Spec, KeepsPromise, Abstract!Spec
=============================================================================
