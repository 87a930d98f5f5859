--------------------------- MODULE DfspTransaction ---------------------------
(***************************************************************************)
(* The DFSP side of a third-party transaction (models/dfspTransaction.     *)
(* model.ts): POST /thirdpartyRequests/transactions starts a workflow that *)
(* runs by itself through seven transitions,                               *)
(*                                                                         *)
(*   validate  the DFSP's backend judges the request                       *)
(*   notify    PUT  /thirdpartyRequests/transactions/{ID} to the PISP       *)
(*   quote     the scheme adapter gets a quote                             *)
(*   authorize POST /thirdpartyRequests/authorizations, wait for the PISP  *)
(*   verify    POST /thirdpartyRequests/verifications, wait for the        *)
(*             auth-service                                                *)
(*   transfer  the scheme adapter moves the money                          *)
(*   patch     PATCH /thirdpartyRequests/transactions/{ID} to the PISP      *)
(*                                                                         *)
(* and writes its record after each of them.  Nothing asks whether the      *)
(* transaction request is known already: every POST of one transaction id  *)
(* runs a workflow of its own on the same key.  The module follows one id.  *)
(*                                                                         *)
(* A step is what the server does between two events.  A request that was   *)
(* sent may reach its receiver or not, also when its sender sees an error   *)
(* or dies: receivers act later, by actions of their own, or never.         *)
(***************************************************************************)
EXTENDS Naturals

CONSTANTS
  Workflows,    \* POST /thirdpartyRequests/transactions, repeated ones included
  RedisFaults   \* may Redis refuse, lose or fail to confirm a command?

ASSUME DfspTransactionAssumption ==
  /\ RedisFaults \in BOOLEAN
  /\ "none" \notin Workflows

VARIABLES
  kvs,        \* the record under `dfspTransaction-<transactionRequestId>`
  pc,         \* where each workflow is
  asked,      \* workflows whose authorization request was sent to the PISP
  checked,    \* what the auth-service was asked to verify, per workflow
  ordered,    \* workflows that sent their transfer to the scheme adapter
  committed,  \* transfers that moved the money
  told,       \* what the PISP was told: PUT "accepted", PATCH "completed"
  errors      \* how many errors it was sent

vars == <<kvs, pc, asked, checked, ordered, committed, told, errors>>

States == {"none", "transactionRequestIsValid", "notifiedTransactionRequestIsValid",
           "quoteReceived", "authorizationReceived", "authorizationReceivedIsValid",
           "transferIsDone", "transactionRequestIsDone", "errored"}

\* Transitions under way, a handler that reports its failure, and the report of run().
Running == {"validate", "notify", "quote", "authorize", "verify", "transfer", "patch",
            "warning", "reporting"}

Ended == {"done", "failed", "dead"}

\* What the PISP may answer: a signature of the challenge that fits or not, the
\* user's refusal, or an error.
Replies == {"signed", "forged", "rejected", "error"}

TypeOK ==
  /\ kvs \in [state : States, of : Workflows \union {"none"}]
  /\ pc \in [Workflows -> {"none"} \union Running \union Ended]
  /\ asked \subseteq Workflows
  /\ checked \in [Workflows -> {"none", "signed", "forged"}]
  /\ ordered \subseteq Workflows
  /\ committed \subseteq Workflows
  /\ told \in [Workflows -> SUBSET {"accepted", "completed"}]
  /\ errors \in [Workflows -> 0..2]

Init ==
  /\ kvs = [state |-> "none", of |-> "none"]
  /\ pc = [w \in Workflows |-> "none"]
  /\ asked = {}
  /\ checked = [w \in Workflows |-> "none"]
  /\ ordered = {}
  /\ committed = {}
  /\ told = [w \in Workflows |-> {}]
  /\ errors = [w \in Workflows |-> 0]

-----------------------------------------------------------------------------
(* Saving and failing.                                                     *)

Record(w, state) == [state |-> state, of |-> w]

\* The process ends, and with it everything that runs in it.
Die == pc' = [w \in Workflows |-> IF pc[w] \in Running THEN "dead" ELSE pc[w]]

\* An error is sent to the PISP, and its reply awaited.
SendError(w, next) ==
  /\ pc' = [pc EXCEPT ![w] = next]
  /\ errors' = [errors EXCEPT ![w] = @ + 1]

\* Variant: the record keeps the state of the last transition.
Catch_KeepsState(w, stored) ==
  /\ \/ kvs' = stored /\ SendError(w, "reporting")
     \/ RedisFaults /\ kvs' = stored /\ Die /\ UNCHANGED errors
  /\ UNCHANGED <<asked, checked, ordered, committed, told>>

\* The catch block of run(): store "errored", then tell the PISP.  It has no catch
\* of its own and run() was called from setImmediate: when it throws in its turn,
\* the rejection is handled by nobody and ends the process.  `stored` is what the
\* store holds if the SET is lost.
Catch(w, stored) ==
  /\ \/ kvs' = Record(w, "errored") /\ SendError(w, "reporting")
     \/ RedisFaults /\ kvs' \in {stored, Record(w, "errored")} /\ Die /\ UNCHANGED errors
  /\ UNCHANGED <<asked, checked, ordered, committed, told>>

\* A transition ends and its state is saved, but the SET is refused, or done
\* although its caller sees an error.
SaveFails(w, state) ==
  /\ RedisFaults
  /\ \E stored \in {kvs, Record(w, state)} : Catch(w, stored)

\* A transition ends, its state is saved, and the next transition begins.
Enter(w, state, next) ==
  /\ kvs' = Record(w, state)
  /\ pc' = [pc EXCEPT ![w] = next]
  /\ UNCHANGED errors

\* The handlers of the two waits tell the PISP themselves before they throw.
Warn(w) ==
  /\ SendError(w, "warning")
  /\ UNCHANGED <<asked, checked, ordered, committed, told>>

\* Whether that report succeeds or not, run() reports again.
WarningDone(w) ==
  /\ pc[w] = "warning"
  /\ Catch(w, kvs)

-----------------------------------------------------------------------------
(* The workflow.                                                           *)

Receive(w) ==
  /\ pc[w] = "none"
  /\ pc' = [pc EXCEPT ![w] = "validate"]
  /\ UNCHANGED <<kvs, asked, checked, ordered, committed, told, errors>>

\* The request is valid; notifying the PISP also needs the payee's fspId, which
\* the API leaves optional.
ValidateDone(w) ==
  /\ pc[w] = "validate"
  /\ \/ /\ Enter(w, "transactionRequestIsValid", "notify")
        /\ told' = [told EXCEPT ![w] = @ \union {"accepted"}]
        /\ UNCHANGED <<asked, checked, ordered, committed>>
     \/ Catch(w, Record(w, "transactionRequestIsValid"))
     \/ SaveFails(w, "transactionRequestIsValid")

NotifyDone(w) ==
  /\ pc[w] = "notify"
  /\ \/ /\ Enter(w, "notifiedTransactionRequestIsValid", "quote")
        /\ UNCHANGED <<asked, checked, ordered, committed, told>>
     \/ SaveFails(w, "notifiedTransactionRequestIsValid")

\* onRequestAuthorization() computes the fees, opens a job on the channel of a new
\* authorization id and posts it; it may fail before it has posted anything.
QuoteDone(w) ==
  /\ pc[w] = "quote"
  /\ \/ /\ Enter(w, "quoteReceived", "authorize")
        /\ asked' = asked \union {w}
        /\ UNCHANGED <<checked, ordered, committed, told>>
     \/ kvs' = Record(w, "quoteReceived") /\ Warn(w)
     \/ SaveFails(w, "quoteReceived")

\* PUT /thirdpartyRequests/authorizations/{ID}, while the job waits.  A refusal is
\* an error to the handler of the next transition, before it sends anything; so is
\* a subscriber whose connection is down.
AuthorizationPut(w, reply) ==
  /\ pc[w] = "authorize"
  /\ \/ reply = "error" /\ UNCHANGED kvs /\ Warn(w)
     \/ /\ reply \in {"signed", "forged"}
        /\ Enter(w, "authorizationReceived", "verify")
        /\ checked' = [checked EXCEPT ![w] = reply]
        /\ UNCHANGED <<asked, ordered, committed, told>>
     \/ /\ reply = "rejected" \/ (reply # "error" /\ RedisFaults)
        /\ kvs' = Record(w, "authorizationReceived")
        /\ Warn(w)
     \/ reply # "error" /\ SaveFails(w, "authorizationReceived")

\* Variant: the listener does not look for errorInformation.
VerificationPut_Unchecked(w, verdict) ==
  /\ pc[w] = "verify"
  /\ verdict = "verified" => checked[w] = "signed"
  /\ \/ /\ Enter(w, "authorizationReceivedIsValid", "transfer")
        /\ ordered' = ordered \union {w}
        /\ UNCHANGED <<asked, checked, committed, told>>
     \/ SaveFails(w, "authorizationReceivedIsValid")

\* PUT /thirdpartyRequests/verifications/{ID} and its /error twin, while the job
\* waits.  The auth-service confirms only a signature that fits.
VerificationPut(w, verdict) ==
  /\ pc[w] = "verify"
  /\ verdict = "verified" => checked[w] = "signed"
  /\ \/ verdict = "error" /\ UNCHANGED kvs /\ Warn(w)
     \/ /\ verdict = "verified"
        /\ Enter(w, "authorizationReceivedIsValid", "transfer")
        /\ ordered' = ordered \union {w}
        /\ UNCHANGED <<asked, checked, committed, told>>
     \/ verdict = "verified" /\ SaveFails(w, "authorizationReceivedIsValid")

\* Variant: the wait for the auth-service has no timeout.
GiveUp_NotOnVerify(w) ==
  /\ pc[w] = "authorize"
  /\ Warn(w)
  /\ UNCHANGED kvs

\* The job's timer expires, or its request fails.
GiveUp(w) ==
  /\ pc[w] \in {"authorize", "verify"}
  /\ Warn(w)
  /\ UNCHANGED kvs

\* The scheme carries out a transfer it was sent, soon, late or never.
Commit(w) ==
  /\ w \in ordered \ committed
  /\ committed' = committed \union {w}
  /\ UNCHANGED <<kvs, pc, asked, checked, ordered, told, errors>>

\* Variant: the state of the transfer in the reply is not looked at.
TransferDone_Unchecked(w) ==
  /\ pc[w] = "transfer"
  /\ \/ /\ Enter(w, "transferIsDone", "patch")
        /\ told' = [told EXCEPT ![w] = @ \union {"completed"}]
        /\ UNCHANGED <<asked, checked, ordered, committed>>
     \/ SaveFails(w, "transferIsDone")

\* The adapter replies COMPLETED and COMMITTED.
TransferDone(w) ==
  /\ pc[w] = "transfer"
  /\ w \in committed
  /\ \/ /\ Enter(w, "transferIsDone", "patch")
        /\ told' = [told EXCEPT ![w] = @ \union {"completed"}]
        /\ UNCHANGED <<asked, checked, ordered, committed>>
     \/ SaveFails(w, "transferIsDone")

PatchDone(w) ==
  /\ pc[w] = "patch"
  /\ \/ /\ Enter(w, "transactionRequestIsDone", "done")
        /\ UNCHANGED <<asked, checked, ordered, committed, told>>
     \/ SaveFails(w, "transactionRequestIsDone")

\* The backend finds the request invalid, or one of the four calls that are not
\* waited for by a job fails, or its result is not the one that is needed.
CallFails(w) ==
  /\ pc[w] \in {"validate", "notify", "quote", "transfer", "patch"}
  /\ Catch(w, kvs)

\* The reply to the last report.
ReportDone(w) ==
  /\ pc[w] = "reporting"
  /\ pc' = [pc EXCEPT ![w] = "failed"]
  /\ UNCHANGED <<kvs, asked, checked, ordered, committed, told, errors>>

\* The last report fails, which nobody catches, or the process is killed.  Nothing
\* loads a record again: what ran is never resumed.
Crash ==
  /\ \E w \in Workflows : pc[w] \in Running
  /\ Die
  /\ UNCHANGED <<kvs, asked, checked, ordered, committed, told, errors>>

-----------------------------------------------------------------------------
Step(w) ==
  \/ Receive(w)
  \/ ValidateDone(w) \/ NotifyDone(w) \/ QuoteDone(w)
  \/ TransferDone(w) \/ PatchDone(w)
  \/ CallFails(w) \/ GiveUp(w) \/ WarningDone(w) \/ ReportDone(w)

Peers(w) ==
  \/ \E reply \in Replies : AuthorizationPut(w, reply)
  \/ \E verdict \in {"verified", "error"} : VerificationPut(w, verdict)
  \/ Commit(w)

Next == Crash \/ \E w \in Workflows : Step(w) \/ Peers(w)

Spec == Init /\ [][Next]_vars

\* The two waits have timers.  Nothing is assumed of any peer, and calls that are
\* not waits have no timeout.
FairSpec == Spec /\ \A w \in Workflows : WF_vars(GiveUp(w))

-----------------------------------------------------------------------------
(* Properties.                                                             *)

\* The workflow keeps the promise of Payment: in whatever order answers, timeouts,
\* faults and crashes come.
Stage(w) ==
  CASE w \in committed -> "paid"
    [] w \in ordered \ committed -> "ordered"
    [] w \notin ordered \union committed /\ checked[w] = "signed" -> "consented"
    [] w \notin ordered \union committed /\ checked[w] # "signed" /\ w \in asked -> "offered"
    [] OTHER -> "open"

News(w) == (told[w] \cap {"completed"}) \union (IF errors[w] > 0 THEN {"error"} ELSE {})

Promise == INSTANCE Payment WITH
  stage <- [w \in Workflows |-> Stage(w)],
  told <- [w \in Workflows |-> News(w)]

KeepsPromise == Promise!Spec

\* States that are reached only after the PISP was notified, asked, ...
Paid == {"transferIsDone", "transactionRequestIsDone"}
Verified == Paid \union {"authorizationReceivedIsValid"}
Authorized == Verified \union {"authorizationReceived"}
Notified == Authorized \union {"notifiedTransactionRequestIsValid", "quoteReceived"}

\* The record never runs ahead of what its workflow has done, and while it speaks
\* of a payment the PISP has not been told of a failure by the same workflow.
Truthful(record) ==
  LET w == record.of IN
  /\ record.state \in Notified => "accepted" \in told[w]
  /\ record.state \in Authorized => w \in asked
  /\ record.state \in Verified => checked[w] = "signed"
  /\ record.state \in Paid => w \in committed /\ errors[w] = 0
  /\ record.state = "transactionRequestIsDone" => "completed" \in told[w]

RecordTruthful == Truthful(kvs)

\* A workflow does not wait for the PISP or for the auth-service for ever.
WaitsEnd ==
  \A w \in Workflows :
    /\ pc[w] = "authorize" ~> pc[w] # "authorize"
    /\ pc[w] = "verify" ~> pc[w] # "verify"

(* The inductive invariant behind KeepsPromise and RecordTruthful.         *)

\* What has been done is what the place of the workflow says.
InPlace ==
  \A w \in Workflows :
    /\ pc[w] \in {"none", "validate", "notify", "quote"} => w \notin asked
    /\ pc[w] \in {"none", "validate", "notify", "quote", "authorize"} => checked[w] = "none"
    /\ pc[w] \in {"none", "validate", "notify", "quote", "authorize", "verify"} => w \notin ordered
    /\ pc[w] = "transfer" => w \in ordered /\ "completed" \notin told[w]
    /\ pc[w] = "patch" => "completed" \in told[w]
    /\ pc[w] \in {"notify", "quote", "authorize", "verify", "transfer", "patch"} => "accepted" \in told[w]
    /\ pc[w] = "authorize" => w \in asked

\* Payment has its prerequisites.
Causes ==
  \A w \in Workflows :
    /\ checked[w] # "none" => w \in asked
    /\ w \in ordered => checked[w] = "signed"
    /\ w \in committed => w \in ordered
    /\ "completed" \in told[w] => w \in committed

\* A workflow that has told the PISP of a failure does nothing but end.
FailedOnly ==
  \A w \in Workflows :
    /\ errors[w] > 0 => pc[w] \in {"warning", "reporting", "failed", "dead"}
    /\ pc[w] = "warning" => errors[w] = 1

\* A record that speaks of a payment is that of a workflow that has not failed.
PaidNotFailed ==
  kvs.state \in Paid => kvs.of \in Workflows /\ pc[kvs.of] \in {"patch", "done", "dead"}

IInv ==
  /\ TypeOK
  /\ InPlace
  /\ Causes
  /\ FailedOnly
  /\ PaidNotFailed
  /\ RecordTruthful
=============================================================================
