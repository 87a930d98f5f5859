----------------------------- MODULE Discovery -----------------------------
(***************************************************************************)
(* What precedes account linking: the PISP asks which DFSPs there are      *)
(* (models/outbound/pispPrelinking.model.ts, GET /linking/providers) and    *)
(* which accounts a user has at one of them                                 *)
(* (models/outbound/pispDiscovery.model.ts, GET /linking/accounts), and     *)
(* the DFSP answers the second question (models/inbound/accounts.model.ts). *)
(*                                                                         *)
(* Both wait on the server's one subscriber (PubSub).  The first is a       *)
(* deferred job with a timer (DeferredJob) on a channel that all requests   *)
(* share; the second registers its own callback, on a channel named after   *)
(* the user whatever the DFSP, and has no timer.  Nothing is stored.        *)
(*                                                                         *)
(* The switch may delay, repeat, reorder and lose messages: whether one is  *)
(* on its way is PubSub's wire, and what it says is chosen, when it is      *)
(* heard, among what was sent for its channel.                              *)
(***************************************************************************)
EXTENDS PubSub

CONSTANTS
  ProviderRequests,  \* GET /linking/providers
  AccountRequests,   \* GET /linking/accounts/{fspId}/{userId}
  ServiceChannel,    \* the channel of THIRD_PARTY_DFSP
  UserOf, FspOf      \* of each account request

Requests == ProviderRequests \union AccountRequests

ASSUME DiscoveryAssumption ==
  /\ Owners = Requests
  /\ ProviderRequests \cap AccountRequests = {}
  /\ ServiceChannel \in Channels
  /\ UserOf \in [AccountRequests -> Channels \ {ServiceChannel}]
  /\ {FspOf[r] : r \in AccountRequests} \cap {"none", "list", "error", "500"} = {}

Fsps == {FspOf[r] : r \in AccountRequests}

VARIABLES
  pc,      \* where each request is
  sid,     \* the registration to give back, 0 when there is none
  answer,  \* what the request was answered with: the DFSP whose accounts, ...
  sent,    \* requests that have sent their GET to the switch
  place,   \* where the DFSP is with each account request
  told     \* account requests whose accounts the DFSP has sent

requestVars == <<pc, sid, answer, sent>>
dfspVars == <<place, told>>
vars == <<pubSubVars, requestVars, dfspVars>>

Waiting == {"calling", "waiting"}
AtDfsp == {"backend", "putting"}

TypeOK ==
  /\ PubSubTypeOK
  /\ pc \in [Requests -> Waiting \union {"idle", "answered"}]
  /\ sid \in [Requests -> Nat]
  /\ answer \in [Requests -> Fsps \union {"none", "list", "error", "500"}]
  /\ sent \subseteq Requests
  /\ place \in [AccountRequests -> AtDfsp \union {"none", "done"}]
  /\ told \subseteq AccountRequests

Init ==
  /\ PubSubInit
  /\ pc = [r \in Requests |-> "idle"]
  /\ sid = [r \in Requests |-> 0]
  /\ answer = [r \in Requests |-> "none"]
  /\ sent = {}
  /\ place = [r \in AccountRequests |-> "none"]
  /\ told = {}

ChannelOf(r) == IF r \in ProviderRequests THEN ServiceChannel ELSE UserOf[r]

-----------------------------------------------------------------------------
(* The PISP's requests.                                                    *)

Answered(r, a) ==
  /\ pc' = [pc EXCEPT ![r] = "answered"]
  /\ answer' = [answer EXCEPT ![r] = a]

\* The request subscribes and sends GET /services or GET /accounts.
Ask(r) ==
  /\ pc[r] = "idle"
  /\ Subscribe(ChannelOf(r), r)
  /\ sid' = [sid EXCEPT ![r] = NextCallbackId]
  /\ pc' = [pc EXCEPT ![r] = "calling"]
  /\ sent' = sent \union {r}
  /\ UNCHANGED <<answer, dfspVars>>

\* The process ends and is started again: the requests that it was serving, and those
\* in S, fail, and the callbacks and the connection are gone.
Die(S) ==
  LET lost == {q \in Requests : pc[q] \in Waiting} \union S
  IN /\ pc' = [q \in Requests |-> IF q \in lost THEN "answered" ELSE pc[q]]
     /\ answer' = [q \in Requests |-> IF q \in lost THEN "500" ELSE answer[q]]
     /\ sid' = [q \in Requests |-> 0]
     /\ entries' = {}
     /\ callbacks' = [c \in Channels |-> {}]
     /\ callbackId' = 0
     /\ connected' = TRUE
     /\ subscribing' = {}
     /\ resubscribe' = {}
     /\ forwarding' = {}
     /\ wire' = <<>>
     /\ asked' = {}
     /\ UNCHANGED <<drops, sent, dfspVars>>

\* subscribe() throws, and the deferred job of a provider request rejects.
ProvidersRefused(r) ==
  /\ pc[r] = "idle"
  /\ SubscribeRefused(ChannelOf(r))
  /\ Answered(r, "500")
  /\ UNCHANGED <<sid, sent, dfspVars>>

\* subscribe() throws, and so does unsubscribe(channel, 0) in the catch block of an
\* account request, inside an async executor: the rejection is unhandled.
AccountsRefused(r) ==
  /\ pc[r] = "idle"
  /\ SubscribeThrows(ChannelOf(r))
  /\ Die({r})

\* Variant: the registration is left behind.
GiveBack_Nothing(r) ==
  /\ sid' = [sid EXCEPT ![r] = 0]
  /\ UNCHANGED pubSubVars

GiveBack(r) ==
  /\ callbacks' = WithoutIds(ChannelOf(r), {sid[r]})
  /\ sid' = [sid EXCEPT ![r] = 0]
  /\ UNCHANGED <<entries, callbackId, asked, redisVars>>

\* The switch has accepted the GET.
CallDone(r) ==
  /\ pc[r] = "calling"
  /\ pc' = [pc EXCEPT ![r] = "waiting"]
  /\ UNCHANGED <<pubSubVars, sid, answer, sent, dfspVars>>

\* It has not, or its reply was lost.  For a request that is answered by then this
\* changes nothing.
CallFails(r) ==
  /\ pc[r] = "calling"
  /\ GiveBack(r)
  /\ Answered(r, "500")
  /\ UNCHANGED <<sent, dfspVars>>

\* Variant: the timer is started when the switch has accepted the call.
Timeout_AfterCall(r) ==
  /\ r \in ProviderRequests
  /\ pc[r] = "waiting"
  /\ GiveBack(r)
  /\ Answered(r, "500")
  /\ UNCHANGED <<sent, dfspVars>>

Timeout(r) ==
  /\ r \in ProviderRequests
  /\ pc[r] \in Waiting
  /\ GiveBack(r)
  /\ Answered(r, "500")
  /\ UNCHANGED <<sent, dfspVars>>

-----------------------------------------------------------------------------
(* Messages.                                                               *)

On(c) == {r \in sent : ChannelOf(r) = c}

\* What PUT /services/{ServiceType} or PUT /accounts/{ID} may say, or their /error,
\* which may also come from the switch when it cannot deliver a GET.
Said(c) ==
  IF On(c) = {} THEN {}
  ELSE {"error"} \union (IF c = ServiceChannel THEN {"list"}
                         ELSE {FspOf[r] : r \in On(c) \intersect told})

Put(c) ==
  /\ Said(c) # {}
  /\ Publish(c)
  /\ UNCHANGED <<requestVars, dfspVars>>

\* Variant: the callback does not unsubscribe.
GivenBack_Nothing(c) == {}

\* Every callback of the channel gives its own registration back.
Called(c) == {r.owner : r \in callbacks[c]}
GivenBack(c) == {sid[r] : r \in Called(c)}

\* Variant: errorInformation of an answer is not looked at.
Heard_Unchecked(r, said) == IF r \in AccountRequests THEN FspOf[r] ELSE said

\* The response is the accounts that came, or the error.
Heard(r, said) == said

\* broadcastMessage(): every request that waits on the channel takes the message as
\* its own answer.
Hear ==
  /\ wire # <<>>
  /\ wire' = Tail(wire)
  /\ LET c == Head(wire) IN
       /\ callbacks' = WithoutIds(c, GivenBack(c))
       /\ sid' = [r \in Requests |-> IF r \in Called(c) THEN 0 ELSE sid[r]]
       /\ pc' = [r \in Requests |-> IF r \in Called(c) THEN "answered" ELSE pc[r]]
       /\ \E said \in Said(c) :
            answer' = [r \in Requests |-> IF r \in Called(c) THEN Heard(r, said) ELSE answer[r]]
  /\ UNCHANGED <<entries, callbackId, asked, connected, subscribing, resubscribe,
                 forwarding, drops, sent, dfspVars>>

Crash ==
  /\ \E r \in Requests : pc[r] \in Waiting
  /\ Die({})

-----------------------------------------------------------------------------
(* The DFSP: getUserAccounts().                                            *)

Move(r, next) == place' = [place EXCEPT ![r] = next]

\* GET /accounts/{ID}
Receive(r) ==
  /\ r \in sent
  /\ place[r] = "none"
  /\ Move(r, "backend")
  /\ UNCHANGED told

\* The backend knows the user: PUT /accounts/{ID}.
BackendDone(r) ==
  /\ place[r] = "backend"
  /\ Move(r, "putting")
  /\ told' = told \union {r}

PutDone(r) ==
  /\ place[r] = "putting"
  /\ Move(r, "done")
  /\ UNCHANGED told

\* The backend fails or knows no accounts, or the PUT fails, which it may also do
\* after it has arrived: PUT /accounts/{ID}/error.  Nothing but the process, which
\* ends if it fails, depends on how the report ends.
Report(r) ==
  /\ place[r] \in AtDfsp
  /\ Move(r, "done")
  /\ UNCHANGED told

\* A report has failed, which nothing catches, or the process ends for another reason.
DfspDies(f) ==
  LET serving == {r \in AccountRequests : FspOf[r] = f /\ place[r] \in AtDfsp}
  IN /\ serving # {}
     /\ place' = [r \in AccountRequests |-> IF r \in serving THEN "done" ELSE place[r]]
     /\ UNCHANGED told

Serve ==
  /\ \/ \E r \in AccountRequests :
          Receive(r) \/ BackendDone(r) \/ PutDone(r) \/ Report(r)
     \/ \E f \in Fsps : DfspDies(f)
  /\ UNCHANGED <<pubSubVars, requestVars>>

-----------------------------------------------------------------------------
Step(r) == Ask(r) \/ CallDone(r) \/ CallFails(r) \/ Timeout(r)

Next ==
  \/ \E r \in Requests : Step(r)
  \/ \E r \in ProviderRequests : ProvidersRefused(r)
  \/ \E r \in AccountRequests : AccountsRefused(r)
  \/ Hear
  \/ Crash
  \/ Serve
  \/ \E c \in Channels : Put(c)
  \/ ((\E c \in Channels : SubscribeProcessed(c)) \/ ConnectionLost \/ Reconnected)
       /\ UNCHANGED <<requestVars, dfspVars>>

Spec == Init /\ [][Next]_vars

\* The timers of provider requests fire: nothing else is fair.
FairSpec == Spec /\ \A r \in ProviderRequests : WF_vars(Timeout(r))

-----------------------------------------------------------------------------
(* Properties.                                                             *)

\* Accounts that a request is given are those of its user, at a DFSP that was asked
\* about this user and has answered: not always the DFSP this request asked, for
\* requests about one user share a channel (pispDiscovery.model.ts:74).
AccountsOfTheUser ==
  \A r \in AccountRequests : answer[r] \in Fsps =>
    \E q \in sent \cap AccountRequests :
      UserOf[q] = UserOf[r] /\ FspOf[q] = answer[r] /\ q \in told

\* A request is answered once: no later message replaces the response that its
\* handler is sending.
AnswerStays == [][\A r \in Requests : answer[r] # "none" => answer'[r] = answer[r]]_vars

\* Exactly the requests that wait are registered, each once, on its own channel and
\* under the id it will give back: however they end, the subscriber keeps nothing of
\* the others and has forgotten none of these.
RegisteredAreWaiting ==
  \A c \in Channels :
    callbacks[c] = {[id |-> sid[r], owner |-> r] :
                      r \in {q \in Requests : pc[q] \in Waiting /\ ChannelOf(q) = c}}

\* A request for providers is answered, whatever the switch and Redis do.
ProvidersAnswered == \A r \in ProviderRequests : pc[r] \in Waiting ~> pc[r] = "answered"

(* The inductive invariant behind them.                                    *)

\* What the place of a request says of its other parts.
InPlace ==
  \A r \in Requests :
    /\ pc[r] # "answered" => answer[r] = "none"
    /\ pc[r] \in Waiting <=> sid[r] # 0
    /\ pc[r] \in Waiting => r \in sent

\* Ids are handed out once, and a message is on its way only where a request went.
IdsDistinct ==
  /\ \A r \in Requests : sid[r] <= callbackId
  /\ \A q, r \in Requests : sid[r] # 0 /\ sid[q] = sid[r] => q = r
  /\ \A i \in 1..Len(wire) : On(wire[i]) # {}

IInv ==
  /\ TypeOK
  /\ AccountsOfTheUser
  /\ RegisteredAreWaiting
  /\ InPlace
  /\ IdsDistinct
=============================================================================
