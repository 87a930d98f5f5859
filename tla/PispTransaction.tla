-------------------------- MODULE PispTransaction --------------------------
(***************************************************************************)
(* The PISP side of a third-party transaction (models/pispTransaction.     *)
(* model.ts and its handlers): three endpoints of the outbound API, each   *)
(* of which loads, advances and saves one record of the key-value store    *)
(* while it waits for messages that the inbound API publishes.             *)
(*                                                                         *)
(*   POST /thirdpartyTransaction/partyLookup        "lookup"               *)
(*   POST /thirdpartyTransaction/{ID}/initiate      "initiate"             *)
(*   POST /thirdpartyTransaction/{ID}/approve       "approve"              *)
(*                                                                         *)
(* Key and channels are derived from the transactionRequestId, so that     *)
(* transactions do not meet: the module follows one of them.  Requests of  *)
(* the three kinds run concurrently in the outbound server; a step is what *)
(* the server does between two events (Redis reply, HTTP reply, message,   *)
(* timer).  Commands to the key-value store travel on one connection, so   *)
(* they take effect in the order they are issued: a read returns what was  *)
(* written before it, but its caller goes on only later, in the order of   *)
(* the replies where that order matters (InTurn).                          *)
(*                                                                         *)
(* Waiting is AwaitedMessage, which DeferredJob implements.  A job is known *)
(* by its registration id, as in DeferredJob: callbacks of a channel are   *)
(* called in the order of their ids, and timers of one duration expire in  *)
(* that order too.                                                         *)
(***************************************************************************)
EXTENDS Naturals

CONSTANTS
  Requests,     \* requests of the PISP's backend, of any kind
  Authorizations, \* that the DFSP may issue: one per copy of a transaction request
  Concurrent,   \* may a request be sent while another one is being served?
  RedisFaults,    \* may Redis refuse, lose or fail to confirm a command?
  MaxCrashes    \* bound: restarts of the outbound server

ASSUME PispTransactionAssumption ==
  /\ Concurrent \in BOOLEAN
  /\ RedisFaults \in BOOLEAN
  /\ MaxCrashes \in Nat
  /\ Authorizations \cap {"none", "blind"} = {}

VARIABLES
  kvs,          \* the record stored under the transactionRequestId
  pc,           \* where each request is
  data,         \* `model.data` of each request
  sid,          \* registration of the job that waits, per phase and request
  lastSid,      \* the last registration id handed out
  got,          \* phases whose message the request has consumed
  answer,       \* what the request was answered with
  posts,        \* POST /thirdpartyRequests/transactions sent to the DFSP
  approvals,    \* PUT /thirdpartyRequests/authorizations sent to the DFSP
  crashes       \* restarts so far

vars == <<kvs, pc, data, sid, lastSid, got, answer, posts, approvals, crashes>>

\* PISPTransactionPhase: one channel each.
Phases == {"put", "auth", "approval"}

States == {"none", "start", "partyLookupSuccess", "partyLookupFailure",
           "authorizationReceived", "transactionStatusReceived", "errored"}

Data == [state  : States,                           \* currentState
         lookup : {"none", "ok", "error"},          \* partyLookupResponse
         init   : BOOLEAN,                          \* initiateRequest
         put    : BOOLEAN,                          \* transactionStatusPut
         auth   : Authorizations \union {"none"},   \* authorizationRequest
         shown  : Authorizations \union {"none"},   \* initiateResponse
         signed : Authorizations \union {"none", "blind"},  \* approveRequest: the challenge it signs
         status : {"none", "ok", "error"}]          \* approveResponse

NoData == [state |-> "none", lookup |-> "none", init |-> FALSE, put |-> FALSE,
           auth |-> "none", shown |-> "none", signed |-> "none", status |-> "none"]

Answers == {"none", "422", "500", "party", "partyError", "authorization",
            "status", "statusError"}

Busy == {"absent", "present", "lookup", "loaded", "initiate", "approve"}

TypeOK ==
  /\ kvs \in Data
  /\ pc \in [Requests -> Busy \union {"idle", "answered", "dead"}]
  /\ data \in [Requests -> Data]
  /\ sid \in [Phases -> [Requests -> Nat]]
  /\ lastSid \in Nat
  /\ got \in [Requests -> SUBSET Phases]
  /\ answer \in [Requests -> Answers]
  /\ posts \subseteq Requests
  /\ approvals \subseteq [auth : Authorizations, signed : Authorizations \union {"blind"}]
  /\ crashes \in Nat

Init ==
  /\ kvs = NoData
  /\ pc = [r \in Requests |-> "idle"]
  /\ data = [r \in Requests |-> NoData]
  /\ sid = [p \in Phases |-> [r \in Requests |-> 0]]
  /\ lastSid = 0
  /\ got = [r \in Requests |-> {}]
  /\ answer = [r \in Requests |-> "none"]
  /\ posts = {}
  /\ approvals = {}
  /\ crashes = 0

-----------------------------------------------------------------------------
(* Saving, answering, failing.                                             *)

\* A SET is done, or refused, or done although its caller sees an error.
SaveOutcomes == IF RedisFaults THEN {"ok", "lost", "unsure"} ELSE {"ok"}

Saved(outcome, d) == IF outcome = "lost" THEN kvs ELSE d

\* run() catches, moves the state machine to "errored" and rethrows: the client
\* gets a 500 and nothing is saved.
Errored(d) == [d EXCEPT !.state = "errored"]

Fail(r) ==
  /\ pc' = [pc EXCEPT ![r] = "answered"]
  /\ answer' = [answer EXCEPT ![r] = "500"]
  /\ data' = [data EXCEPT ![r] = Errored(@)]

\* getResponse(): the stored response the current state stands for.  A handler
\* turns `undefined` into a 500.
Response(d) ==
  CASE d.state = "partyLookupSuccess" -> "party"
    [] d.state = "partyLookupFailure" -> "partyError"
    [] d.state = "authorizationReceived" -> "authorization"
    [] d.state = "transactionStatusReceived" ->
         IF d.status = "error" THEN "statusError" ELSE "status"
    [] OTHER -> "500"

\* saveToKVS() and return getResponse().
Finish(r, d) ==
  \E outcome \in SaveOutcomes :
    /\ kvs' = Saved(outcome, d)
    /\ pc' = [pc EXCEPT ![r] = "answered"]
    /\ data' = [data EXCEPT ![r] = IF outcome = "ok" THEN d ELSE Errored(d)]
    /\ answer' = [answer EXCEPT ![r] = IF outcome = "ok" THEN Response(d) ELSE "500"]

MayArrive(r) ==
  /\ pc[r] = "idle"
  /\ Concurrent \/ \A q \in Requests : pc[q] \notin Busy

-----------------------------------------------------------------------------
(* Party lookup.                                                           *)

\* Whoever has been told that there is no record goes on at once to the SET of
\* run(): it does so before anyone whose own command followed a SET, since the
\* replies come in the order of the commands.
InTurn(r) ==
  \/ pc[r] = "absent"
  \/ pc[r] = "loaded" /\ data[r].state = "none"
  \/ \A q \in Requests : pc[q] # "absent"

\* existsInKVS(): the answer is about the store as it is now.
Lookup(r) ==
  /\ MayArrive(r)
  /\ pc' = [pc EXCEPT ![r] = IF kvs.state = "none" THEN "absent" ELSE "present"]
  /\ UNCHANGED <<kvs, data, sid, lastSid, got, answer, posts, approvals, crashes>>

\* The reply to existsInKVS() or to loadFromKVS() is an error: there is no model
\* yet, the handler's promise rejects.
ReadFails(r) ==
  /\ RedisFaults
  /\ pc[r] \in {"absent", "present", "loaded"}
  /\ pc' = [pc EXCEPT ![r] = "answered"]
  /\ answer' = [answer EXCEPT ![r] = "500"]
  /\ UNCHANGED <<kvs, data, sid, lastSid, got, posts, approvals, crashes>>

\* existsInKVS() found a record.
LookupConflict(r) ==
  /\ pc[r] = "present"
  /\ pc' = [pc EXCEPT ![r] = "answered"]
  /\ answer' = [answer EXCEPT ![r] = "422"]
  /\ UNCHANGED <<kvs, data, sid, lastSid, got, posts, approvals, crashes>>

\* run() from "start": save first, then GET /parties of the scheme adapter.
Start(r, d) ==
  /\ \E outcome \in SaveOutcomes :
       /\ kvs' = Saved(outcome, d)
       /\ IF outcome = "ok"
          THEN /\ pc' = [pc EXCEPT ![r] = "lookup"]
               /\ data' = [data EXCEPT ![r] = d]
               /\ UNCHANGED answer
          ELSE Fail(r)
  /\ UNCHANGED <<sid, lastSid, got, posts, approvals, crashes>>

LookupCreate(r) ==
  /\ pc[r] = "absent"
  /\ Start(r, [NoData EXCEPT !.state = "start"])

\* Variant: failPartyLookup is forgotten.
LookupDone_NoFailure(r) ==
  /\ pc[r] = "lookup"
  /\ \E l \in {"ok", "error"} :
       Finish(r, [data[r] EXCEPT !.state = "partyLookupSuccess", !.lookup = l])
  /\ UNCHANGED <<sid, lastSid, got, posts, approvals, crashes>>

\* The party is known, or the reply carries errorInformation, which is kept as
\* the result (failPartyLookup; the fsm.error() before it has no effect while the
\* transition is pending).
LookupDone(r) ==
  /\ pc[r] = "lookup"
  /\ \/ Finish(r, [data[r] EXCEPT !.state = "partyLookupSuccess", !.lookup = "ok"])
     \/ Finish(r, [data[r] EXCEPT !.state = "partyLookupFailure", !.lookup = "error"])
  /\ UNCHANGED <<sid, lastSid, got, posts, approvals, crashes>>

\* Any other failure of the call is rethrown.
LookupFails(r) ==
  /\ pc[r] = "lookup"
  /\ Fail(r)
  /\ UNCHANGED <<kvs, sid, lastSid, got, posts, approvals, crashes>>

-----------------------------------------------------------------------------
(* Initiate and approve: load the record, add the payload, run.            *)

Load(r, d) ==
  /\ MayArrive(r)
  /\ pc' = [pc EXCEPT ![r] = "loaded"]
  /\ data' = [data EXCEPT ![r] = IF kvs.state = "none" THEN kvs ELSE d]
  /\ UNCHANGED <<kvs, sid, lastSid, got, answer, posts, approvals, crashes>>

Initiate(r) == Load(r, [kvs EXCEPT !.init = TRUE])

\* Authorizations the PISP's backend was given, and can sign.
Shown == {data[r].shown : r \in {q \in Requests : answer[q] = "authorization"}}

Approve(r) == \E s \in Shown \union {"blind"} : Load(r, [kvs EXCEPT !.signed = s])

\* loadFromKVS() throws when there is no record.
RunAbsent(r) ==
  /\ pc[r] = "loaded"
  /\ data[r].state = "none"
  /\ pc' = [pc EXCEPT ![r] = "answered"]
  /\ answer' = [answer EXCEPT ![r] = "500"]
  /\ UNCHANGED <<kvs, data, sid, lastSid, got, posts, approvals, crashes>>

\* Variant: a lookup that failed is looked up again.
RunStart_AfterFailure(r) ==
  /\ pc[r] = "loaded"
  /\ data[r].state \in {"start", "partyLookupFailure"}
  /\ Start(r, [data[r] EXCEPT !.state = "start"])

\* run() goes by the stored state, whichever endpoint was called.
RunStart(r) ==
  /\ pc[r] = "loaded"
  /\ data[r].state = "start"
  /\ Start(r, data[r])

\* Variant: initiate may be repeated as long as nothing was approved.
RunInitiate_Repeatable(r) ==
  /\ pc[r] = "loaded"
  /\ \/ data[r].state = "partyLookupSuccess"
     \/ data[r].state = "authorizationReceived" /\ data[r].signed = "none"
  /\ pc' = [pc EXCEPT ![r] = "initiate"]
  /\ data' = [data EXCEPT ![r].state = "authorizationReceived"]
  /\ sid' = [sid EXCEPT !["put"][r] = lastSid + 1, !["auth"][r] = lastSid + 2]
  /\ lastSid' = lastSid + 2
  /\ posts' = posts \union {r}
  /\ UNCHANGED <<kvs, got, answer, approvals, crashes>>

\* onInitiate(): both jobs subscribe, the first one's initiator posts the
\* transaction request.  The state machine is in its target state already.
RunInitiate(r) ==
  /\ pc[r] = "loaded"
  /\ data[r].state = "partyLookupSuccess"
  /\ IF data[r].init
     THEN /\ pc' = [pc EXCEPT ![r] = "initiate"]
          /\ data' = [data EXCEPT ![r].state = "authorizationReceived"]
          /\ sid' = [sid EXCEPT !["put"][r] = lastSid + 1, !["auth"][r] = lastSid + 2]
          /\ lastSid' = lastSid + 2
          /\ posts' = posts \union {r}
          /\ UNCHANGED answer
     ELSE Fail(r) /\ UNCHANGED <<sid, lastSid, posts>>
  /\ UNCHANGED <<kvs, got, approvals, crashes>>

\* Variant: the data the approval needs is not validated.
RunApprove_Unchecked(r) ==
  /\ pc[r] = "loaded"
  /\ data[r].state = "authorizationReceived"
  /\ pc' = [pc EXCEPT ![r] = "approve"]
  /\ data' = [data EXCEPT ![r].state = "transactionStatusReceived"]
  /\ sid' = [sid EXCEPT !["approval"][r] = lastSid + 1]
  /\ lastSid' = lastSid + 1
  /\ approvals' = approvals \union {[auth |-> data[r].auth, signed |-> data[r].signed]}
  /\ UNCHANGED <<kvs, got, answer, posts, crashes>>

\* Variant: a final transaction is approved again.
RunApprove_Again(r) ==
  /\ pc[r] = "loaded"
  /\ data[r].state \in {"authorizationReceived", "transactionStatusReceived"}
  /\ data[r].init /\ data[r].signed # "none" /\ data[r].auth # "none"
  /\ pc' = [pc EXCEPT ![r] = "approve"]
  /\ data' = [data EXCEPT ![r].state = "transactionStatusReceived"]
  /\ sid' = [sid EXCEPT !["approval"][r] = lastSid + 1]
  /\ lastSid' = lastSid + 1
  /\ approvals' = approvals \union {[auth |-> data[r].auth, signed |-> data[r].signed]}
  /\ UNCHANGED <<kvs, got, answer, posts, crashes>>

\* onApprove(): its initiator forwards the signed challenge under the id of the
\* stored authorization.
RunApprove(r) ==
  /\ pc[r] = "loaded"
  /\ data[r].state = "authorizationReceived"
  /\ IF data[r].init /\ data[r].signed # "none" /\ data[r].auth # "none"
     THEN /\ pc' = [pc EXCEPT ![r] = "approve"]
          /\ data' = [data EXCEPT ![r].state = "transactionStatusReceived"]
          /\ sid' = [sid EXCEPT !["approval"][r] = lastSid + 1]
          /\ lastSid' = lastSid + 1
          /\ approvals' = approvals \union {[auth |-> data[r].auth, signed |-> data[r].signed]}
          /\ UNCHANGED answer
     ELSE Fail(r) /\ UNCHANGED <<sid, lastSid, approvals>>
  /\ UNCHANGED <<kvs, got, posts, crashes>>

\* The subscriber's connection is down: wait() rejects before its initiator has
\* sent anything.
RunRefused(r) ==
  /\ RedisFaults
  /\ pc[r] = "loaded"
  /\ data[r].state \in {"partyLookupSuccess", "authorizationReceived"}
  /\ Fail(r)
  /\ UNCHANGED <<kvs, sid, lastSid, got, posts, approvals, crashes>>

\* No transition is left: save again and answer what is stored.
RunOver(r) ==
  /\ pc[r] = "loaded"
  /\ data[r].state \in {"partyLookupFailure", "transactionStatusReceived", "errored"}
  /\ Finish(r, data[r])
  /\ UNCHANGED <<sid, lastSid, got, posts, approvals, crashes>>

-----------------------------------------------------------------------------
(* Messages, failures and timers of the waiting jobs.                      *)

Waits(r, p) == sid[p][r] # 0

Takers(p) == {r \in Requests : Waits(r, p)}

\* Of some requests that wait in a phase, the one whose callback is called last.
LastOf(S, p) == CHOOSE r \in S : \A q \in S : sid[p][q] <= sid[p][r]

\* What the listener of a phase writes into the data of its request.
Heard(p, message, d) ==
  CASE p = "put" -> [d EXCEPT !.put = TRUE]
    [] p = "auth" -> [d EXCEPT !.auth = message]
    [] p = "approval" -> [d EXCEPT !.status = message]

\* Variant: the first of the two messages is enough.
Complete_First(r, phases) ==
  \/ pc[r] = "initiate" /\ {"put", "auth"} \cap phases # {}
  \/ pc[r] = "approve" /\ "approval" \in phases

\* Promise.all([waitOnAuthPost, waitOnTransPut]), and the approval alone.
Complete(r, phases) ==
  \/ pc[r] = "initiate" /\ {"put", "auth"} \subseteq phases
  \/ pc[r] = "approve" /\ "approval" \in phases

\* onInitiate() ends by building the response from what both listeners stored.
Completed(r, d) == IF pc[r] = "initiate" THEN [d EXCEPT !.shown = d.auth] ELSE d

\* A message is broadcast to all that wait for it.  The listeners of onInitiate
\* save as they go, before and independently of the barrier (the two calls of
\* saveToKVS() that nobody awaits); requests the message completes save last, each
\* with an outcome of its own.
Deliver(p, message) ==
  LET after == [r \in Requests |-> IF Waits(r, p) THEN Heard(p, message, data[r]) ELSE data[r]]
      phases == [r \in Requests |-> IF Waits(r, p) THEN got[r] \union {p} ELSE got[r]]
      done == {r \in Takers(p) : Complete(r, phases[r])}
      final == [r \in Requests |-> Completed(r, after[r])]
      listened == IF p = "approval" THEN kvs ELSE after[LastOf(Takers(p), p)]
  IN
  /\ Takers(p) # {}
  /\ sid' = [sid EXCEPT ![p] = [r \in Requests |-> 0]]
  /\ got' = phases
  /\ pc' = [r \in Requests |-> IF r \in done THEN "answered" ELSE pc[r]]
  /\ \E outcome \in [done -> SaveOutcomes] :
       LET written == {r \in done : outcome[r] # "lost"} IN
       /\ kvs' = IF written = {} THEN listened ELSE final[LastOf(written, p)]
       /\ data' = [r \in Requests |->
                     IF r \notin done THEN after[r]
                     ELSE IF outcome[r] = "ok" THEN final[r] ELSE Errored(final[r])]
       /\ answer' = [r \in Requests |->
                       IF r \notin done THEN answer[r]
                       ELSE IF outcome[r] = "ok" THEN Response(final[r]) ELSE "500"]
  /\ UNCHANGED <<lastSid, posts, approvals, crashes>>

\* The authorizations that the DFSP may have issued: one allocated for each copy of a
\* transaction request that reached it.
Issued == IF posts = {} THEN {} ELSE Authorizations

\* The DFSP answers what it was sent, in any order, as often as it likes:
\* PUT /thirdpartyRequests/transactions/{ID},
TransactionPut == posts # {} /\ Deliver("put", "ok")

\* POST /thirdpartyRequests/authorizations,
AuthorizationPost == \E a \in Issued : Deliver("auth", a)

\* PATCH /thirdpartyRequests/transactions/{ID}, for a payment whose approval carried a
\* signature that was made for it,
TransactionPatch == (\E a \in approvals : a.signed = a.auth) /\ Deliver("approval", "ok")

\* PUT /thirdpartyRequests/transactions/{ID}/error, which is published on the
\* approval channel whatever it is about.
TransactionError == posts # {} /\ Deliver("approval", "error")

\* Variant: the failure of an approval is swallowed.
GiveUp_Silent(r, p) ==
  /\ Waits(r, p)
  /\ sid' = [sid EXCEPT ![p][r] = 0]
  /\ IF pc[r] = "initiate" THEN Fail(r) ELSE UNCHANGED <<pc, answer, data>>
  /\ UNCHANGED <<kvs, lastSid, got, posts, approvals, crashes>>

\* A job gives up and its registration is given back.  The first job to give up
\* fails the request; the other job of onInitiate waits on, and its listener
\* still writes to the data of the failed request and saves it.
GiveUp(r, p) ==
  /\ Waits(r, p)
  /\ sid' = [sid EXCEPT ![p][r] = 0]
  /\ IF pc[r] \in {"initiate", "approve"} THEN Fail(r) ELSE UNCHANGED <<pc, answer, data>>
  /\ UNCHANGED <<kvs, lastSid, got, posts, approvals, crashes>>

\* The initiator's request fails (the job of the authorization has none).
SendFails(r, p) == p # "auth" /\ GiveUp(r, p)

\* Jobs whose timers have the same duration: they expire in order.
SameTimer(p) == IF p = "approval" THEN {"approval"} ELSE {"put", "auth"}

TimerExpires(r, p) ==
  /\ \A q \in Requests, o \in SameTimer(p) : Waits(q, o) => sid[p][r] <= sid[o][q]
  /\ GiveUp(r, p)

\* The outbound server dies and is started again.
Crash ==
  /\ crashes < MaxCrashes
  /\ crashes' = crashes + 1
  /\ pc' = [r \in Requests |-> IF pc[r] \in Busy THEN "dead" ELSE pc[r]]
  /\ data' = [r \in Requests |-> IF pc[r] \in Busy THEN NoData ELSE data[r]]
  /\ sid' = [p \in Phases |-> [r \in Requests |-> 0]]
  /\ lastSid' = 0
  /\ UNCHANGED <<kvs, got, answer, posts, approvals>>

-----------------------------------------------------------------------------
Step(r) ==
  /\ InTurn(r)
  /\ \/ ReadFails(r)
     \/ LookupConflict(r) \/ LookupCreate(r) \/ LookupDone(r) \/ LookupFails(r)
     \/ RunAbsent(r) \/ RunRefused(r)
     \/ RunStart(r) \/ RunInitiate(r) \/ RunApprove(r) \/ RunOver(r)

Arrive(r) == Lookup(r) \/ Initiate(r) \/ Approve(r)

DfspAnswers == TransactionPut \/ AuthorizationPost \/ TransactionPatch \/ TransactionError

Next ==
  \/ \E r \in Requests : Arrive(r) \/ Step(r) \/ \E p \in Phases : SendFails(r, p) \/ TimerExpires(r, p)
  \/ DfspAnswers
  \/ Crash

Spec == Init /\ [][Next]_vars

\* Timers fire.  Nothing is assumed of the DFSP, of the scheme adapter, or of the
\* requests' order.
FairSpec == Spec /\ \A r \in Requests, p \in Phases : WF_vars(TimerExpires(r, p))

-----------------------------------------------------------------------------
(* Properties.                                                             *)

\* "wait until we will receive and consume both messages" (pispTransaction.model
\* .ts:228-230): a client is given an authorization only by a request that has
\* itself consumed both callbacks of the DFSP, in whatever order they came, and
\* the authorization is one the DFSP could have issued: something was posted.
BarrierHolds ==
  \A r \in Requests : answer[r] = "authorization" =>
    {"put", "auth"} \subseteq got[r] /\ data[r].put /\ data[r].shown \in Issued

\* What a record must carry: the data that the endpoint its state admits next will
\* need, or the answer that a repeated call is given.
Sound(d) ==
  /\ d.state = "partyLookupSuccess" => d.lookup = "ok"
  /\ d.state = "partyLookupFailure" => d.lookup = "error"
  /\ d.state = "authorizationReceived" => d.init /\ (d.put \/ d.auth # "none")
  /\ d.state = "transactionStatusReceived" =>
       /\ d.status # "none" /\ d.signed # "none"
       /\ \E a \in approvals : a.auth = d.auth

\* Whatever requests interleave, time out or crash, the stored record is one that
\* its state allows (run() dispatches on the state alone).
RecordSound == Sound(kvs)

\* The DFSP is sent only challenges of authorizations it issued, and what it is
\* sent was signed for the authorization it is sent under: the stored record has
\* not been exchanged between the response the client saw and its approval.
SignedForWhatWasShown ==
  \A a \in approvals : a.signed # "blind" => a.signed = a.auth

\* One payment: of all the approvals that are sent, with timeouts and repetitions,
\* those the auth-service can confirm are for one and the same authorization.  The
\* DFSP would pay for each one, since it knows no duplicates.
OneConsent ==
  \A a, b \in approvals : a.signed = a.auth /\ b.signed = b.auth => a = b

\* The stored state moves only forward along the phases; once "errored" it may
\* be overwritten by a request that had loaded it before.
Rank(s) == CASE s = "none" -> 0
             [] s = "start" -> 1
             [] s = "partyLookupSuccess" -> 2
             [] s = "partyLookupFailure" -> 3
             [] s = "authorizationReceived" -> 4
             [] s = "transactionStatusReceived" -> 5
             [] s = "errored" -> 2
OnlyForward == [][Rank(kvs'.state) >= Rank(kvs.state)]_vars

\* A final status is final: after it is stored the DFSP is sent no further
\* approval and no further transaction request.
FinalIsFinal ==
  [][kvs.state = "transactionStatusReceived" =>
       UNCHANGED <<approvals, posts>> /\ kvs'.status = kvs.status]_vars

\* A request that waits for the DFSP is answered, or its server dies.
WaitingIsAnswered ==
  \A r \in Requests :
    pc[r] \in {"initiate", "approve"} ~> pc[r] \in {"answered", "dead"}

\* docs/sequence/PISPTransactionApi.puml:311-314: when the DFSP rejects the
\* authorization the PISP gets a 500.
RejectionIsAnError == \A r \in Requests : answer[r] # "statusError"

\* A signature is the answer to an authorization that the backend was shown.
Signatures == {kvs.signed} \union {data[r].signed : r \in Requests}

SignedWasShown ==
  /\ Signatures \subseteq {"none", "blind"} \union Shown
  /\ \A a \in approvals : a.signed \in {"blind"} \union Shown

(* The inductive invariant behind BarrierHolds and RecordSound.            *)

\* A registration carries an id that was handed out.
SidsBounded == \A p \in Phases, r \in Requests : sid[p][r] <= lastSid

\* A request has no answer before it is answered.
Unanswered == \A r \in Requests : pc[r] # "answered" => answer[r] = "none"

\* Before a request has sent anything it has consumed nothing.
NothingConsumed ==
  \A r \in Requests :
    pc[r] \notin {"initiate", "approve", "answered", "dead"} => got[r] = {}

\* Who may still wait: besides the request in its phase, the second job of an
\* initiation that has failed; and nobody for what he has consumed.
WaitersKnown ==
  \A r \in Requests :
    /\ \A p \in got[r] : ~Waits(r, p)
    /\ Waits(r, "approval") => pc[r] = "approve"
    /\ Waits(r, "put") \/ Waits(r, "auth") =>
         \/ pc[r] = "initiate"
         \/ pc[r] = "answered" /\ data[r].state = "errored" /\ answer[r] = "500"

\* What a request has consumed is in its data.
ConsumedKept ==
  \A r \in Requests : pc[r] # "dead" =>
    /\ "put" \in got[r] => data[r].put
    /\ "auth" \in got[r] => data[r].auth \in Issued

\* What a request holds is sound, or will be once its messages are in.
HeldSound ==
  \A r \in Requests :
    /\ pc[r] = "loaded" => Sound(data[r])
    /\ pc[r] = "initiate" => data[r].state = "authorizationReceived" /\ data[r].init
    /\ pc[r] = "approve" =>
         /\ data[r].state = "transactionStatusReceived" /\ data[r].signed # "none"
         /\ \E a \in approvals : a.auth = data[r].auth

IInv ==
  /\ TypeOK
  /\ SidsBounded
  /\ Unanswered
  /\ NothingConsumed
  /\ WaitersKnown
  /\ ConsumedKept
  /\ HeldSound
  /\ BarrierHolds
  /\ RecordSound

(* What is added for a client that sends one request at a time.            *)

\* At most one request is being served.
OneServed == \A q, r \in Requests : pc[q] \in Busy /\ pc[r] \in Busy => q = r

\* The states in which an initiation finds the record, or leaves it until the
\* first message comes: the party is known, or the late listener of a failed
\* initiation has stored its "errored" data.
Initiable == {"partyLookupSuccess", "errored"}

\* The record has not moved on since the request being served read it; while an
\* initiation waits, only its own listeners and those of failed ones write it.
StoreInStep ==
  \A r \in Requests :
    /\ pc[r] = "absent" => kvs.state = "none"
    /\ pc[r] = "lookup" => kvs.state = "start"
    /\ pc[r] = "loaded" =>
         \/ /\ data[r].state = kvs.state
            /\ data[r].auth = kvs.auth
            /\ data[r].status = kvs.status
         \/ data[r].state \in Initiable /\ kvs.state = "errored"
    /\ pc[r] = "initiate" =>
         /\ kvs.state \in Initiable \union {"authorizationReceived"}
         /\ Waits(r, "put") /\ Waits(r, "auth") =>
              kvs.state \in Initiable /\ sid["put"][r] < sid["auth"][r]
    /\ pc[r] = "approve" =>
         kvs.state = "authorizationReceived" /\ data[r].auth = kvs.auth

\* A failed initiation may leave the job of the authorization behind; it can still
\* write only while no later initiation has stored anything, and one that waits
\* beside it is registered, and so saves, after it.
LeftBehind ==
  \A q \in Requests : pc[q] = "answered" =>
    /\ ~Waits(q, "put")
    /\ Waits(q, "auth") =>
         /\ \/ kvs.state \in Initiable
            \/ \E r \in Requests : pc[r] = "initiate"
         /\ \A r \in Requests : pc[r] = "initiate" =>
              Waits(r, "auth") /\ sid["auth"][q] < sid["auth"][r]

\* An authorization that was shown is the stored one, for good.
ShownIsStored ==
  \A q \in Requests : answer[q] = "authorization" =>
    /\ kvs.state \in {"authorizationReceived", "transactionStatusReceived"}
    /\ kvs.auth = data[q].shown
    /\ \A r \in Requests : pc[r] # "initiate"

OneByOne ==
  /\ ~Concurrent
  /\ OneServed
  /\ StoreInStep
  /\ LeftBehind
  /\ ShownIsStored
  /\ SignedForWhatWasShown
=============================================================================
