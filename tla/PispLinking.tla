---------------------------- MODULE PispLinking ----------------------------
(***************************************************************************)
(* The PISP side of account linking (models/outbound/pispLinking.model.ts  *)
(* and its handlers): three endpoints of the outbound API that load,       *)
(* advance and save one record while they wait for the DFSP.               *)
(*                                                                         *)
(*   POST  /linking/request-consent                       RequestConsent   *)
(*   PATCH /linking/request-consent/{ID}/authenticate     Authenticate     *)
(*   POST  /linking/request-consent/{ID}/pass-credential  PassCredential   *)
(*                                                                         *)
(* Key and channels of the first two phases are derived from the           *)
(* consentRequestId, the channel of the last one from the consentId: the   *)
(* module follows one consent request and the consents granted for it, one *)
(* by every copy of the request that reaches the DFSP.                     *)
(*                                                                         *)
(* A step is what the server does between two events, and a read returns   *)
(* what was written before it although its caller goes on only later, as   *)
(* in PispTransaction.  Waiting is AwaitedMessage.  A request has one job   *)
(* at most, so that its place says whether it waits; in which order the    *)
(* requests that one message serves save their records is left open.       *)
(***************************************************************************)
CONSTANTS
  Requests,     \* requests of the PISP's backend
  AtRequestConsent, AtAuthenticate, AtPassCredential,  \* those for each endpoint
  Consents,     \* that the DFSP may grant: one per copy of a consent request
  Concurrent,   \* may a request be sent while another one is being served?
  RedisFaults   \* may Redis refuse, lose or fail to confirm a command?

VARIABLES
  kvs,          \* the record stored under the consentRequestId
  pc,           \* where each request is
  data,         \* `model.data` of each request that has not failed
  answer,       \* what the request was answered with
  posted,       \* was a POST /consentRequests sent to the DFSP?
  tokenSent,    \* was a PATCH /consentRequests/{ID} sent to the DFSP?
  credentials   \* PUT /consents/{ID} sent to the DFSP

vars == <<kvs, pc, data, answer, posted, tokenSent, credentials>>

States == {"none", "start", "channelResponseReceived",
           "OTPAuthenticationChannelResponseReceived",
           "WebAuthenticationChannelResponseReceived",
           "consentReceivedAwaitingCredential", "accountsLinked", "errored"}

AuthChannels == {"WEB", "OTP"}

\* checkModelDataChannelResponse(): the state the offered channel leads to.
StateFor(channel) == IF channel = "WEB" THEN "WebAuthenticationChannelResponseReceived"
                     ELSE "OTPAuthenticationChannelResponseReceived"

AwaitingToken == {StateFor(channel) : channel \in AuthChannels}

Data == [state   : States,                            \* currentState
         channel : AuthChannels \union {"none"},      \* ...InboundChannelResponse
         token   : BOOLEAN,                           \* ...AuthenticatePatchRequest
         consent : Consents \union {"none"},          \* ...InboundConsentResponse
         signed  : Consents \union {"none", "blind"}, \* ...PassCredentialPostRequest
         linked  : BOOLEAN,                           \* ...PassCredentialInboundConsentResponse
         error   : BOOLEAN]                           \* errorInformation

NoData == [state |-> "none", channel |-> "none", token |-> FALSE, consent |-> "none",
           signed |-> "none", linked |-> FALSE, error |-> FALSE]

\* PISPLinkingPhase: the places where a request waits for the DFSP.
Phases == {"requestConsent", "requestConsentAuthenticate", "registerCredential"}

Busy == {"starting", "loaded"} \union Phases

TypeOK ==
  /\ kvs \in Data
  /\ pc \in [Requests -> Busy \union {"idle", "answered"}]
  /\ data \in [Requests -> Data]
  /\ answer \in [Requests -> {"none", "channel", "consent", "linked", "error", "500"}]
  /\ posted \in BOOLEAN
  /\ tokenSent \in BOOLEAN
  /\ credentials \subseteq [consent : Consents, signed : Consents \union {"blind"}]

Init ==
  /\ kvs = NoData
  /\ pc = [r \in Requests |-> "idle"]
  /\ data = [r \in Requests |-> NoData]
  /\ answer = [r \in Requests |-> "none"]
  /\ posted = FALSE
  /\ tokenSent = FALSE
  /\ credentials = {}

-----------------------------------------------------------------------------
(* Saving, answering, failing.                                             *)

\* A SET is done, or refused, or done although its caller sees an error.
SaveOutcomes == IF RedisFaults THEN {"ok", "lost", "unsure"} ELSE {"ok"}

\* run() catches, moves the state machine to "errored" and rethrows: the client
\* gets a 500, nothing is saved, and what the model held is gone.
Fail(r) ==
  /\ pc' = [pc EXCEPT ![r] = "answered"]
  /\ answer' = [answer EXCEPT ![r] = "500"]
  /\ data' = [data EXCEPT ![r] = NoData]

\* getResponse(): no response, which is a 500, in any other state.
Response(d) ==
  CASE d.state \in AwaitingToken -> "channel"
    [] d.state = "consentReceivedAwaitingCredential" -> "consent"
    [] d.state = "accountsLinked" -> "linked"
    [] d.state = "errored" -> "error"
    [] OTHER -> "500"

\* Answered before there is anything to change: no record, an unreadable one, or
\* one that run() has no case for.
Refuse(r) == Fail(r) /\ UNCHANGED <<kvs, posted, tokenSent, credentials>>

MayArrive(r) ==
  /\ pc[r] = "idle"
  /\ Concurrent \/ \A q \in Requests : pc[q] \notin Busy

-----------------------------------------------------------------------------
(* The endpoints.                                                          *)

\* run() from "start" begins with a save, and goes on when it is confirmed.
Start(r, d) ==
  /\ \E outcome \in SaveOutcomes :
       /\ kvs' = IF outcome = "lost" THEN kvs ELSE d
       /\ IF outcome = "ok"
          THEN /\ pc' = [pc EXCEPT ![r] = "starting"]
               /\ data' = [data EXCEPT ![r] = d]
               /\ UNCHANGED answer
          ELSE Fail(r)
  /\ UNCHANGED <<posted, tokenSent, credentials>>

\* The handler does not ask whether there is a record already.
RequestConsent(r) ==
  r \in AtRequestConsent /\ MayArrive(r) /\ Start(r, [NoData EXCEPT !.state = "start"])

\* loadFromKVS(), and the payload is added to what was loaded.
Load(r, d) ==
  /\ MayArrive(r)
  /\ pc' = [pc EXCEPT ![r] = "loaded"]
  /\ data' = [data EXCEPT ![r] = IF kvs.state = "none" THEN kvs ELSE d]
  /\ UNCHANGED <<kvs, answer, posted, tokenSent, credentials>>

Authenticate(r) == r \in AtAuthenticate /\ Load(r, [kvs EXCEPT !.token = TRUE])

\* Consents the PISP's backend was given, and whose challenge it can sign.
Shown == {data[r].consent : r \in {q \in Requests : answer[q] = "consent"}}

PassCredential(r) ==
  /\ r \in AtPassCredential
  /\ \E s \in Shown \union {"blind"} : Load(r, [kvs EXCEPT !.signed = s])

ReadFails(r) ==
  /\ RedisFaults
  /\ pc[r] = "loaded"
  /\ Refuse(r)

RunAbsent(r) ==
  /\ pc[r] = "loaded"
  /\ data[r].state = "none"
  /\ Refuse(r)

\* run() has no case for the final states: no response, which is a 500.
RunOver(r) ==
  /\ pc[r] = "loaded"
  /\ data[r].state \in {"accountsLinked", "errored"}
  /\ Refuse(r)

RunStart(r) ==
  /\ pc[r] = "loaded"
  /\ data[r].state = "start"
  /\ Start(r, data[r])

\* onRequestConsent(): subscribe and POST /consentRequests.  The state machine is
\* in its target state while a transition's handler runs.
Post(r) ==
  /\ pc[r] = "starting"
  /\ pc' = [pc EXCEPT ![r] = "requestConsent"]
  /\ data' = [data EXCEPT ![r].state = "channelResponseReceived"]
  /\ posted' = TRUE
  /\ UNCHANGED <<kvs, answer, tokenSent, credentials>>

\* Variant: the endpoint's payload is taken to be there.
RunAuthenticate_NoToken(r) ==
  /\ pc[r] = "loaded"
  /\ data[r].state \in AwaitingToken
  /\ pc' = [pc EXCEPT ![r] = "requestConsentAuthenticate"]
  /\ data' = [data EXCEPT ![r].state = "consentReceivedAwaitingCredential"]
  /\ tokenSent' = TRUE
  /\ UNCHANGED <<kvs, answer, posted, credentials>>

\* onAuthenticate(): the initiator throws when the record has no token.
RunAuthenticate(r) ==
  /\ pc[r] = "loaded"
  /\ data[r].state \in AwaitingToken
  /\ IF data[r].token
     THEN /\ pc' = [pc EXCEPT ![r] = "requestConsentAuthenticate"]
          /\ data' = [data EXCEPT ![r].state = "consentReceivedAwaitingCredential"]
          /\ tokenSent' = TRUE
          /\ UNCHANGED answer
     ELSE Fail(r) /\ UNCHANGED tokenSent
  /\ UNCHANGED <<kvs, posted, credentials>>

\* onRegisterCredential(): PUT /consents/{ID} with the credential, or the
\* initiator throws when the record has none.
RunRegister(r) ==
  /\ pc[r] = "loaded"
  /\ data[r].state = "consentReceivedAwaitingCredential"
  /\ IF data[r].signed # "none"
     THEN /\ pc' = [pc EXCEPT ![r] = "registerCredential"]
          /\ data' = [data EXCEPT ![r].state = "accountsLinked"]
          /\ credentials' = credentials
                              \union {[consent |-> data[r].consent, signed |-> data[r].signed]}
          /\ UNCHANGED answer
     ELSE Fail(r) /\ UNCHANGED credentials
  /\ UNCHANGED <<kvs, posted, tokenSent>>

\* The subscriber's connection is down: wait() rejects before its initiator has
\* sent anything.
RunRefused(r) ==
  /\ RedisFaults
  /\ \/ pc[r] = "starting"
     \/ /\ pc[r] = "loaded"
        /\ data[r].state \in {"consentReceivedAwaitingCredential"} \union AwaitingToken
  /\ Fail(r)
  /\ UNCHANGED <<kvs, posted, tokenSent, credentials>>

-----------------------------------------------------------------------------
(* Messages and timers.                                                    *)

\* What may be stored once these were written, in whatever order.
AfterSaves(written) == IF written = {} THEN {kvs} ELSE written

\* The requests in S hear a message, which makes the data of each what heard says; the
\* transition ends, run() saves, each with an outcome of its own, and answers.
Deliver(S, heard) ==
  /\ S # {}
  /\ pc' = [r \in Requests |-> IF r \in S THEN "answered" ELSE pc[r]]
  /\ \E outcome \in [S -> SaveOutcomes] :
       /\ kvs' \in AfterSaves({heard[r] : r \in {q \in S : outcome[q] # "lost"}})
       /\ data' = [r \in Requests |->
                     IF r \notin S THEN data[r]
                     ELSE IF outcome[r] = "ok" THEN heard[r] ELSE NoData]
       /\ answer' = [r \in Requests |->
                       IF r \notin S THEN answer[r]
                       ELSE IF outcome[r] = "ok" THEN Response(heard[r]) ELSE "500"]
  /\ UNCHANGED <<posted, tokenSent, credentials>>

Waiting(phase) == {r \in Requests : pc[r] = phase}

\* The channel of the last phase is that of one consent.
WaitingOn(c) == {r \in Waiting("registerCredential") : data[r].consent = c}

\* PUT /consentRequests/{ID}
ConsentRequestsPut(channel) ==
  Deliver(Waiting("requestConsent"),
          [r \in Requests |-> [data[r] EXCEPT !.state = StateFor(channel), !.channel = channel]])

\* POST /consents
ConsentsPost(c) ==
  Deliver(Waiting("requestConsentAuthenticate"),
          [r \in Requests |-> [data[r] EXCEPT !.consent = c]])

Linked == [r \in Requests |-> [data[r] EXCEPT !.linked = TRUE]]

\* Variant: the request waits on its consent request, not on its consent.
ConsentsPatch_AnyConsent(c) == Deliver(Waiting("registerCredential"), Linked)

\* PATCH /consents/{ID}
ConsentsPatch(c) == Deliver(WaitingOn(c), Linked)

\* Variant: errorInformation is stored and not looked at.
Failed_Unchecked == [r \in Requests |-> [data[r] EXCEPT !.error = TRUE]]

\* checkModelDataForErrorInformation()
Failed == [r \in Requests |-> [data[r] EXCEPT !.state = "errored", !.error = TRUE]]

\* PUT /consentRequests/{ID}/error is published to both phases that wait on the
\* consent request, by two commands of which either message may be missed.
ConsentRequestsError ==
  \E phase \in {"requestConsent", "requestConsentAuthenticate"} :
    Deliver(Waiting(phase), Failed)

\* PUT /consents/{ID}/error
ConsentsError(c) == Deliver(WaitingOn(c), Failed)

\* The timer expires, or the request to the DFSP fails.
GiveUp(r) ==
  /\ pc[r] \in Phases
  /\ Fail(r)
  /\ UNCHANGED <<kvs, posted, tokenSent, credentials>>

\* The outbound server dies and is started again: the calls that it was serving fail,
\* and nothing is left of them but the record.
Crash ==
  /\ \E r \in Requests : pc[r] \in Busy
  /\ pc' = [r \in Requests |-> IF pc[r] \in Busy THEN "answered" ELSE pc[r]]
  /\ answer' = [r \in Requests |-> IF pc[r] \in Busy THEN "500" ELSE answer[r]]
  /\ data' = [r \in Requests |-> IF pc[r] \in Busy THEN NoData ELSE data[r]]
  /\ UNCHANGED <<kvs, posted, tokenSent, credentials>>

-----------------------------------------------------------------------------
Arrive(r) == RequestConsent(r) \/ Authenticate(r) \/ PassCredential(r)

Step(r) ==
  \/ ReadFails(r) \/ RunAbsent(r) \/ RunOver(r) \/ RunRefused(r)
  \/ RunStart(r) \/ Post(r) \/ RunAuthenticate(r) \/ RunRegister(r)
  \/ GiveUp(r)

\* The consents that the DFSP may have granted: one for each copy of a consent request.
Granted == IF posted THEN Consents ELSE {}

\* The DFSP, or the switch on its behalf, answers what it was sent, in any order, as
\* often as it likes; it grants a consent for a consent request and a token, and says
\* that a consent is verified when it has a credential that was made for it.
SentFor(c) == {k \in credentials : k.consent = c}

DfspAnswers ==
  \/ posted /\ (ConsentRequestsError \/ \E channel \in AuthChannels : ConsentRequestsPut(channel))
  \/ tokenSent /\ \E c \in Granted : ConsentsPost(c)
  \/ \E c \in Consents :
       \/ SentFor(c) # {} /\ ConsentsError(c)
       \/ (\E k \in SentFor(c) : k.signed = c) /\ ConsentsPatch(c)

Next == Crash \/ DfspAnswers \/ \E r \in Requests : Arrive(r) \/ Step(r)

Spec == Init /\ [][Next]_vars

-----------------------------------------------------------------------------
(* Properties.                                                             *)

\* What a record must carry for its state: what the endpoint that run() takes next
\* will dereference, and what was sent to bring it there.
Sound(d) ==
  /\ d.state # "channelResponseReceived"
  /\ d.state \in AwaitingToken => d.channel \in AuthChannels /\ d.state = StateFor(d.channel)
  /\ d.state \in {"consentReceivedAwaitingCredential", "accountsLinked"} =>
       d.token /\ tokenSent /\ d.consent \in Granted
  /\ d.state = "accountsLinked" =>
       d.linked /\ \E k \in credentials : k.consent = d.consent /\ k.signed = d.consent

\* Whatever requests interleave, time out or crash, the stored record is one that
\* its state allows (run() dispatches on the state alone, and onRegisterCredential
\* takes the consent without looking whether it is there).
RecordSound == Sound(kvs)

(* The inductive invariant behind RecordSound, and what the flow needs.    *)

\* What a request holds is sound, or will be once its message is in.
HeldSound ==
  \A r \in Requests :
    /\ pc[r] = "loaded" => Sound(data[r])
    /\ pc[r] = "starting" => data[r].state = "start"
    /\ pc[r] \in {"requestConsentAuthenticate", "registerCredential"} =>
         data[r].token /\ tokenSent
    /\ pc[r] = "requestConsentAuthenticate" => data[r].state = "consentReceivedAwaitingCredential"
    /\ pc[r] = "registerCredential" =>
         /\ data[r].state = "accountsLinked"
         /\ data[r].consent \in Granted
         /\ SentFor(data[r].consent) # {}

\* A request has no answer before it is answered.
Unanswered == \A r \in Requests : pc[r] # "answered" => answer[r] = "none"

\* A credential answers a challenge that the backend was shown.
SignedWasShown ==
  /\ {kvs.signed} \union {data[r].signed : r \in Requests} \subseteq {"none", "blind"} \union Shown
  /\ \A k \in credentials : k.signed \in {"blind"} \union Shown

IInv ==
  /\ TypeOK
  /\ HeldSound
  /\ Unanswered
  /\ SignedWasShown
  /\ RecordSound
=============================================================================
