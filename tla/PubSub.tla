------------------------------- MODULE PubSub -------------------------------
(***************************************************************************)
(* The subscriber of the SDK: class PubSub (shared/pub-sub.ts) on top of   *)
(* one Redis connection (shared/redis-connection.ts).  Handlers of the     *)
(* inbound API publish on a second connection; what they publish reaches   *)
(* this process only while Redis knows that it listens to the channel.     *)
(*                                                                         *)
(* The class keeps, for each channel it has ever been asked for, a map     *)
(* from registration ids to callbacks, and sends SUBSCRIBE to Redis only   *)
(* when the channel gets its entry.  The Redis client (package "redis",    *)
(* 3.1.2) and the server are external: they are modelled by the commands   *)
(* under way, the channels the client re-subscribes after a reconnection,  *)
(* the channels the server forwards, and the forwarded messages that have  *)
(* not been read yet.                                                      *)
(***************************************************************************)
EXTENDS Naturals, Sequences, FiniteSets

CONSTANTS
  Channels,     \* names of notification channels
  Owners,       \* who registers callbacks
  MaxDrops,     \* bound: how often the Redis connection is lost
  MaxWire       \* bound: forwarded messages not read yet

ASSUME PubSubAssumption ==
  /\ MaxDrops \in Nat
  /\ MaxWire \in Nat

VARIABLES
  entries,      \* channels that have an entry in the callbacks map
  callbacks,    \* per channel, the registered callbacks
  callbackId,   \* the last registration id handed out
  connected,    \* RedisConnection.isConnected of the subscriber
  subscribing,  \* SUBSCRIBE commands sent and not answered
  resubscribe,  \* channels the client subscribes again by itself
  forwarding,   \* channels the server forwards to this connection
  wire,         \* channels of the messages forwarded and not yet read
  drops,        \* how often the connection was lost
  asked         \* history: channels for which SUBSCRIBE was ever sent

redisVars == <<connected, subscribing, resubscribe, forwarding, wire, drops>>
pubSubVars == <<entries, callbacks, callbackId, asked, redisVars>>

Callback == [id : Nat, owner : Owners]

PubSubTypeOK ==
  /\ entries \subseteq Channels
  /\ callbacks \in [Channels -> SUBSET Callback]
  /\ callbackId \in Nat
  /\ connected \in BOOLEAN
  /\ subscribing \subseteq Channels
  /\ resubscribe \subseteq Channels
  /\ forwarding \subseteq Channels
  /\ wire \in Seq(Channels)
  /\ drops \in Nat
  /\ asked \subseteq Channels

\* The server process starts to serve only once its connections are up
\* (server/plugins/state.ts awaits connect() and exits when it fails).
PubSubInit ==
  /\ entries = {}
  /\ callbacks = [c \in Channels |-> {}]
  /\ callbackId = 0
  /\ connected = TRUE
  /\ subscribing = {}
  /\ resubscribe = {}
  /\ forwarding = {}
  /\ wire = <<>>
  /\ drops = 0
  /\ asked = {}

-----------------------------------------------------------------------------
(* The operations of the class.                                            *)

\* Variant: the counter is not advanced.
NextCallbackId_Stuck == 1

\* ids start at 1: the counter is incremented first.
NextCallbackId == callbackId + 1

\* `this.client` throws RedisConnectionError when the connection is down, and
\* subscribe() touches it only for a channel that has no entry yet.
SubscribeThrows(c) == c \notin entries /\ ~connected

\* Variant: the test for an existing entry is inverted.
Subscribe_Inverted(c, o) ==
  /\ ~SubscribeThrows(c)
  /\ entries' = entries \union {c}
  /\ subscribing' = IF c \in entries THEN subscribing \union {c} ELSE subscribing
  /\ asked' = IF c \in entries THEN asked \union {c} ELSE asked
  /\ callbackId' = NextCallbackId
  /\ callbacks' = [callbacks EXCEPT ![c] = @ \union {[id |-> NextCallbackId, owner |-> o]}]
  /\ UNCHANGED <<connected, resubscribe, forwarding, wire, drops>>

\* subscribe() succeeds: the entry is made and SUBSCRIBE sent for a new
\* channel; the callback is registered under a fresh id.
Subscribe(c, o) ==
  /\ ~SubscribeThrows(c)
  /\ entries' = entries \union {c}
  /\ subscribing' = IF c \in entries THEN subscribing ELSE subscribing \union {c}
  /\ asked' = IF c \in entries THEN asked ELSE asked \union {c}
  /\ callbackId' = NextCallbackId
  /\ callbacks' = [callbacks EXCEPT ![c] = @ \union {[id |-> NextCallbackId, owner |-> o]}]
  /\ UNCHANGED <<connected, resubscribe, forwarding, wire, drops>>

\* subscribe() throws after it has made the entry: no SUBSCRIBE is sent, no id
\* is allocated, and the entry stays.
SubscribeRefused(c) ==
  /\ SubscribeThrows(c)
  /\ entries' = entries \union {c}
  /\ UNCHANGED <<callbacks, callbackId, asked, redisVars>>

\* Variant: the whole channel is dropped.
WithoutIds_Channel(c, ids) == [callbacks EXCEPT ![c] = IF ids = {} THEN @ ELSE {}]

\* unsubscribe() of the registrations named by id: callbacks only, neither the
\* entry nor the Redis subscription is given back.
WithoutIds(c, ids) == [callbacks EXCEPT ![c] = {r \in @ : r.id \notin ids}]

-----------------------------------------------------------------------------
(* Redis and its client.                                                   *)

\* The server processes a SUBSCRIBE; the client learns of it and will repeat it
\* after a reconnection.
SubscribeProcessed(c) ==
  /\ c \in subscribing
  /\ subscribing' = subscribing \ {c}
  /\ resubscribe' = resubscribe \union {c}
  /\ forwarding' = forwarding \union {c}
  /\ UNCHANGED <<entries, callbacks, callbackId, asked, connected, wire, drops>>

\* An inbound handler publishes on its own connection (PubSub.publish); the
\* server forwards the message if this connection listens, else it is gone.
Publish(c) ==
  /\ Len(wire) < MaxWire
  /\ wire' = IF c \in forwarding THEN Append(wire, c) ELSE wire
  /\ UNCHANGED <<entries, callbacks, callbackId, asked, connected, subscribing,
                 resubscribe, forwarding, drops>>

\* The connection breaks: unanswered commands are aborted and not retried,
\* forwarded messages are lost.
ConnectionLost ==
  /\ connected
  /\ drops < MaxDrops
  /\ drops' = drops + 1
  /\ connected' = FALSE
  /\ subscribing' = {}
  /\ forwarding' = {}
  /\ wire' = <<>>
  /\ UNCHANGED <<entries, callbacks, callbackId, asked, resubscribe>>

\* The client reconnects by itself and repeats the subscriptions it knows of.
Reconnected ==
  /\ ~connected
  /\ connected' = TRUE
  /\ subscribing' = resubscribe
  /\ UNCHANGED <<entries, callbacks, callbackId, asked, resubscribe, forwarding, wire, drops>>

RedisNext ==
  \/ \E c \in Channels : SubscribeProcessed(c) \/ Publish(c)
  \/ ConnectionLost
  \/ Reconnected
=============================================================================
