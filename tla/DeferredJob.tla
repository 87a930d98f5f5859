---------------------------- MODULE DeferredJob ----------------------------
(***************************************************************************)
(* shared/deferred-job.ts: a job subscribes to a channel, starts an        *)
(* asynchronous request (the initiator) whose answer another process will  *)
(* publish on that channel, hands the first message to a listener, and     *)
(* gives its caller a promise with a timeout.                              *)
(*                                                                         *)
(* Code between two awaits on I/O or a timer is one step of this model:    *)
(* continuations on already settled promises run before the event loop     *)
(* takes the next event.  A job is one call of wait(); the jobs that share *)
(* a channel are concurrent calls for the same resource.                   *)
(***************************************************************************)
EXTENDS PubSub

CONSTANTS
  Jobs,         \* calls of wait()
  ChannelOf     \* the channel each call is made for

ASSUME DeferredJobAssumption ==
  /\ ChannelOf \in [Jobs -> Channels]
  /\ Owners = Jobs

VARIABLES
  promise,      \* the promise wait() returns
  sid,          \* `sid`: the registration to give back, 0 when there is none
  initiator,    \* the run of jobInitiator
  listener,     \* the run of jobListener
  calls         \* history: how often jobListener was invoked

jobVars == <<promise, sid, initiator, listener, calls>>
vars == <<pubSubVars, jobVars>>

Run == {"none", "running", "done", "failed"}

TypeOK ==
  /\ PubSubTypeOK
  /\ promise \in [Jobs -> {"unmade", "pending", "resolved", "rejected"}]
  /\ sid \in [Jobs -> Nat]
  /\ initiator \in [Jobs -> Run]
  /\ listener \in [Jobs -> Run]
  /\ calls \in [Jobs -> Nat]

Init ==
  /\ PubSubInit
  /\ promise = [j \in Jobs |-> "unmade"]
  /\ sid = [j \in Jobs |-> 0]
  /\ initiator = [j \in Jobs |-> "none"]
  /\ listener = [j \in Jobs |-> "none"]
  /\ calls = [j \in Jobs |-> 0]

-----------------------------------------------------------------------------
\* The closure `unsubscribe`: gives the registration back once, if there is one.
Unsubscribe(j) ==
  /\ callbacks' = WithoutIds(ChannelOf[j], {sid[j]} \ {0})
  /\ sid' = [sid EXCEPT ![j] = 0]
  /\ UNCHANGED <<entries, callbackId, asked, redisVars>>

\* Variant: the last outcome wins.
Settled_Last(j, outcome) == [promise EXCEPT ![j] = outcome]

\* A promise settles once; later attempts are ignored.
Settled(j, outcome) ==
  [promise EXCEPT ![j] = IF @ = "pending" THEN outcome ELSE @]

\* wait(): the promise's executor subscribes and starts the initiator.
Wait(j) ==
  /\ promise[j] = "unmade"
  /\ Subscribe(ChannelOf[j], j)
  /\ sid' = [sid EXCEPT ![j] = NextCallbackId]
  /\ promise' = [promise EXCEPT ![j] = "pending"]
  /\ initiator' = [initiator EXCEPT ![j] = "running"]
  /\ UNCHANGED <<listener, calls>>

\* wait(): subscribe() throws, the executor catches and rejects.
WaitRefused(j) ==
  /\ promise[j] = "unmade"
  /\ SubscribeRefused(ChannelOf[j])
  /\ promise' = [promise EXCEPT ![j] = "rejected"]
  /\ UNCHANGED <<sid, initiator, listener, calls>>

\* wait(): a timeout that is not positive is refused before anything is done.
WaitWithoutTime(j) ==
  /\ promise[j] = "unmade"
  /\ promise' = [promise EXCEPT ![j] = "rejected"]
  /\ UNCHANGED <<pubSubVars, sid, initiator, listener, calls>>

\* The request of the initiator was accepted: nothing but the message settles
\* the promise now.
InitiatorDone(j) ==
  /\ initiator[j] = "running"
  /\ initiator' = [initiator EXCEPT ![j] = "done"]
  /\ UNCHANGED <<pubSubVars, promise, sid, listener, calls>>

\* The request failed: the executor's catch unsubscribes and rejects.
InitiatorFails(j) ==
  /\ initiator[j] = "running"
  /\ initiator' = [initiator EXCEPT ![j] = "failed"]
  /\ promise' = Settled(j, "rejected")
  /\ Unsubscribe(j)
  /\ UNCHANGED <<listener, calls>>

\* broadcastMessage() calls every callback of the channel; each callback gives
\* its own registration back before it invokes its listener.
Called(c) == {r.owner : r \in callbacks[c]}

GivenBack(c) == {sid[j] : j \in Called(c)} \ {0}

Broadcast ==
  /\ wire # <<>>
  /\ wire' = Tail(wire)
  /\ LET c == Head(wire) IN
       /\ callbacks' = WithoutIds(c, GivenBack(c))
       /\ sid' = [j \in Jobs |-> IF j \in Called(c) THEN 0 ELSE sid[j]]
       /\ listener' = [j \in Jobs |-> IF j \in Called(c) THEN "running" ELSE listener[j]]
       /\ calls' = [j \in Jobs |-> IF j \in Called(c) THEN calls[j] + 1 ELSE calls[j]]
  /\ UNCHANGED <<entries, callbackId, asked, connected, subscribing, resubscribe,
                 forwarding, drops, promise, initiator>>

ListenerDone(j) ==
  /\ listener[j] = "running"
  /\ listener' = [listener EXCEPT ![j] = "done"]
  /\ promise' = Settled(j, "resolved")
  /\ UNCHANGED <<pubSubVars, sid, initiator, calls>>

\* The callback rejects, and the catch behind the timeout unsubscribes.
ListenerFails(j) ==
  /\ listener[j] = "running"
  /\ listener' = [listener EXCEPT ![j] = "failed"]
  /\ promise' = Settled(j, "rejected")
  /\ Unsubscribe(j)
  /\ UNCHANGED <<initiator, calls>>

\* Variant: the timer is cleared when the message arrives.
Timeout_OnlyWhileWaiting(j) ==
  /\ promise[j] = "pending"
  /\ listener[j] = "none"
  /\ promise' = [promise EXCEPT ![j] = "rejected"]
  /\ Unsubscribe(j)
  /\ UNCHANGED <<initiator, listener, calls>>

\* promise-timeout rejects and its catch unsubscribes; neither the initiator
\* nor a listener that has begun is stopped.
Timeout(j) ==
  /\ promise[j] = "pending"
  /\ promise' = [promise EXCEPT ![j] = "rejected"]
  /\ Unsubscribe(j)
  /\ UNCHANGED <<initiator, listener, calls>>

JobNext(j) ==
  \/ Wait(j) \/ WaitRefused(j) \/ WaitWithoutTime(j)
  \/ InitiatorDone(j) \/ InitiatorFails(j)
  \/ ListenerDone(j) \/ ListenerFails(j)
  \/ Timeout(j)

Next ==
  \/ \E j \in Jobs : JobNext(j)
  \/ Broadcast
  \/ RedisNext /\ UNCHANGED jobVars

Spec == Init /\ [][Next]_vars

\* Timers fire: nothing else about the environment is fair.
FairSpec == Spec /\ \A j \in Jobs : WF_vars(Timeout(j))

-----------------------------------------------------------------------------
(* Properties.                                                             *)

\* A job is over once its caller has an outcome.
Over(j) == promise[j] \in {"resolved", "rejected"}

\* "be sure the jobListener will be executed only once" (deferred-job.ts:163):
\* however often the peer repeats its answer, and whatever times out meanwhile,
\* a listener is invoked at most once.
AtMostOneCall == \A j \in Jobs : calls[j] <= 1

\* An answer that comes after the caller was told the outcome is not consumed
\* any more: every path that settles the promise has given the callback back.
NoCallOnceOver == [][\A j \in Jobs : Over(j) => calls'[j] = calls[j]]_vars

\* A caller that is told its message was consumed is told so by the listener
\* that consumed it, not by the initiator or by another job's message.
ResolvedByListener ==
  \A j \in Jobs : promise[j] = "resolved" => calls[j] = 1 /\ listener[j] = "done"

\* No registration outlives its job: the callbacks map does not leak.
NoRegistrationLeft ==
  \A c \in Channels, j \in Jobs : Over(j) => j \notin Called(c)

\* A job that still waits for its message is still registered, on its own
\* channel and under the id it will give back: no other job of the channel,
\* finishing or failing earlier, has taken its registration away.
StillRegistered ==
  \A j \in Jobs : promise[j] = "pending" /\ calls[j] = 0 =>
    [id |-> sid[j], owner |-> j] \in callbacks[ChannelOf[j]]

\* Jobs that share a channel, and end in different ways at different times, give back
\* their own registrations and no other (pub-sub.ts:164): the callbacks map holds every
\* job that waits and none that is over.
RegisteredWhileWaiting == StillRegistered /\ NoRegistrationLeft

\* "delivers Message broadcast via Redis PUB/SUB mechanism to registered
\* NotificationHandlers" (pub-sub.ts:81): until the connection is lost for
\* the first time, Redis forwards, or is about to forward, each channel that has
\* callbacks.
RegisteredIsHeard ==
  drops = 0 => \A c \in Channels :
    callbacks[c] # {} => c \in subscribing \union forwarding

\* "only once time subscribe to Redis channel" (pub-sub.ts:130): a channel that
\* has callbacks is one for which SUBSCRIBE was sent, so that its callbacks can
\* be called at all.
RegisteredWasAsked == \A c \in Channels : callbacks[c] # {} => c \in asked

\* Every promise settles, whether or not the peer answers, the request returns
\* or the connection survives, even while a listener is stuck.
EverySettles == \A j \in Jobs : promise[j] = "pending" ~> Over(j)

\* The promise is the abstract one.
Abstract == INSTANCE AwaitedMessage
KeepsPromise == Abstract!Spec

(* The inductive invariant behind them.                                    *)

\* A registration belongs to a job that still waits, on that job's channel,
\* under the id the job remembers.
RegistrationsOwned ==
  \A c \in Channels : \A r \in callbacks[c] :
    /\ ChannelOf[r.owner] = c
    /\ sid[r.owner] = r.id
    /\ promise[r.owner] = "pending"
    /\ calls[r.owner] = 0

\* Ids are handed out once.
IdsDistinct ==
  /\ \A j \in Jobs : sid[j] <= callbackId
  /\ \A j, k \in Jobs : sid[j] # 0 /\ sid[j] = sid[k] => j = k

\* The id kept by a job that waits for its message is a real one.
WaitingHasId ==
  \A j \in Jobs : promise[j] = "pending" /\ calls[j] = 0 => sid[j] # 0

\* How far listener and promise have got together.
RunsAgree ==
  \A j \in Jobs :
    /\ promise[j] = "unmade" => calls[j] = 0
    /\ calls[j] = 0 <=> listener[j] = "none"

IInv ==
  /\ TypeOK
  /\ AtMostOneCall
  /\ ResolvedByListener
  /\ StillRegistered
  /\ RegistrationsOwned
  /\ IdsDistinct
  /\ WaitingHasId
  /\ RunsAgree
=============================================================================
