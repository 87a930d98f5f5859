-------------------------- MODULE TransactionFlow --------------------------
(***************************************************************************)
(* A third-party transaction from end to end: PispTransaction and          *)
(* DfspTransaction, each with its own server and store, joined by what the  *)
(* switch carries between them.                                            *)
(*                                                                         *)
(* Every copy of a transaction request that reaches the DFSP starts a       *)
(* workflow there, which goes by the name of the authorization it           *)
(* allocates.  The switch may delay, repeat, reorder and lose messages: a   *)
(* message is a fact of its sender's state, and its receiver may act on it  *)
(* at any later time.                                                      *)
(* The quote of a workflow is any quote: its terms are those of Fees.       *)
(***************************************************************************)
EXTENDS Fees

CONSTANTS
  Requests,     \* requests of the PISP's backend
  Workflows,    \* of the DFSP, and the authorizations they allocate
  Concurrent,   \* may they overlap?
  RedisFaults,  \* may the stores fail?
  MaxCrashes    \* bound: restarts of the PISP's server

ASSUME TransactionFlowAssumption ==
  /\ Concurrent \in BOOLEAN
  /\ RedisFaults \in BOOLEAN
  /\ MaxCrashes \in Nat
  /\ Workflows \cap {"none", "blind"} = {}

VARIABLES kvs, pc, data, sid, lastSid, got, answer, posts, approvals, crashes
VARIABLES record, place, asked, checked, ordered, committed, told, errors

Pisp == INSTANCE PispTransaction WITH Authorizations <- Workflows

Dfsp == INSTANCE DfspTransaction WITH kvs <- record, pc <- place

pispVars == <<kvs, pc, data, sid, lastSid, got, answer, posts, approvals, crashes>>
dfspVars == <<record, place, asked, checked, ordered, committed, told, errors>>
vars == <<pispVars, dfspVars>>

Init == Pisp!Init /\ Dfsp!Init

-----------------------------------------------------------------------------
(* Each side by itself.                                                    *)

PispSteps ==
  /\ \/ \E r \in Requests :
          \/ Pisp!Arrive(r) \/ Pisp!Step(r)
          \/ \E p \in Pisp!Phases : Pisp!SendFails(r, p) \/ Pisp!TimerExpires(r, p)
     \/ Pisp!Crash
  /\ UNCHANGED dfspVars

\* POST /thirdpartyRequests/transactions: every copy of a transaction request that
\* reaches the DFSP starts a workflow.
Received(w) == posts # {} /\ Dfsp!Receive(w)

\* The answers of the auth-service and the scheme are part of this side.
DfspSteps ==
  /\ \/ Dfsp!Crash
     \/ \E w \in Workflows :
          \/ Received(w)
          \/ Dfsp!ValidateDone(w) \/ Dfsp!NotifyDone(w) \/ Dfsp!QuoteDone(w)
          \/ Dfsp!TransferDone(w) \/ Dfsp!PatchDone(w)
          \/ Dfsp!CallFails(w) \/ Dfsp!GiveUp(w) \/ Dfsp!WarningDone(w) \/ Dfsp!ReportDone(w)
          \/ \E verdict \in {"verified", "error"} : Dfsp!VerificationPut(w, verdict)
          \/ Dfsp!Commit(w)
  /\ UNCHANGED pispVars

-----------------------------------------------------------------------------
(* Messages.                                                               *)

\* Variant: the reply reaches every workflow of the transaction, whose challenges are alike.
Reply_ToAll(w) ==
  \E a \in approvals : a.signed # "blind" /\ Dfsp!AuthorizationPut(w, "signed")

\* PUT /thirdpartyRequests/authorizations/{ID}: what the PISP sent under this id.  A
\* signature fits if it was given for the challenge of this authorization; one given
\* blindly, or the user's refusal, does not.
Reply(w) ==
  \E a \in approvals :
    /\ a.auth = w
    /\ \/ a.signed = w /\ Dfsp!AuthorizationPut(w, "signed")
       \/ a.signed # w /\ \E reply \in {"forged", "rejected"} : Dfsp!AuthorizationPut(w, reply)

\* The switch reports that it could not deliver the authorization request.
Undelivered(w) == w \in asked /\ Dfsp!AuthorizationPut(w, "error")

ToDfsp == (\E w \in Workflows : Reply(w) \/ Undelivered(w)) /\ UNCHANGED pispVars

\* Variant: PUT /thirdpartyRequests/transactions/{ID} is published as an approval.
ToPisp_WrongPhase ==
  /\ \E w \in Workflows :
       \/ "accepted" \in told[w] /\ (Pisp!Deliver("put", "ok") \/ Pisp!Deliver("approval", "ok"))
       \/ w \in asked /\ Pisp!Deliver("auth", w)
       \/ "completed" \in told[w] /\ Pisp!Deliver("approval", "ok")
  /\ UNCHANGED dfspVars

\* PUT /thirdpartyRequests/transactions/{ID}, POST /thirdpartyRequests/authorizations
\* and PATCH /thirdpartyRequests/transactions/{ID}, from any workflow.
ToPisp ==
  /\ \E w \in Workflows :
       \/ "accepted" \in told[w] /\ Pisp!Deliver("put", "ok")
       \/ w \in asked /\ Pisp!Deliver("auth", w)
       \/ "completed" \in told[w] /\ Pisp!Deliver("approval", "ok")
  /\ UNCHANGED dfspVars

\* PUT /thirdpartyRequests/transactions/{ID}/error, from a workflow that failed, or
\* from the switch when it could not deliver a transaction request.
ErrorToPisp == Pisp!TransactionError /\ UNCHANGED dfspVars

Next == PispSteps \/ DfspSteps \/ ToDfsp \/ ToPisp \/ ErrorToPisp

Spec == Init /\ [][Next]_vars

-----------------------------------------------------------------------------
(* Properties.                                                             *)

\* The PISP meets no more than its own module lets it expect of a DFSP, a success only
\* for an approval that could be verified: what is shown there of the PISP alone holds
\* with this DFSP.
PispExpects == Pisp!Spec

\* Money moves only for terms that the PISP's backend was shown, in an answer to one
\* of its requests, and that it approved with a signature given for these terms.
PaidForWhatWasShown ==
  \A w \in committed :
    /\ \E a \in approvals : a.auth = w /\ a.signed = w
    /\ \E r \in Requests : answer[r] = "authorization" /\ data[r].shown = w

\* Whatever the quotes of the workflows, the user is shown terms that belong together and
\* to the quote, or the transaction is refused for a reason
\* (dfspTransaction.model.ts:236-252, feeCalculator.ts).
ShownTermsAreRight ==
  \A w \in asked : TermsAddUp /\ FeeIsNet /\ ErrorsAreDeserved

\* A backend that waits for each answer and gets a transaction status without an
\* error has paid on the terms its record holds, not on those of another workflow.
StatusMeansPaid == \A r \in Requests : answer[r] = "status" => data[r].auth \in committed

\* One payment for such a backend, however often it initiates and approves again after a
\* timeout, and although the DFSP serves every transaction request it is sent
\* (transactions.ts:53) and pays for every authorization that is confirmed.
PaidOnce == \A v, w \in committed : v = w

(* The invariant that ties the two sides together.                         *)

\* The DFSP does nothing before a transaction request was posted, and asks for the
\* verification of nothing that was not sent in reply to this authorization.
Tied ==
  \A w \in Workflows :
    /\ w \in asked \/ place[w] # "none" \/ told[w] # {} => posts # {}
    /\ checked[w] # "none" =>
         \E a \in approvals : a.auth = w /\ (checked[w] = "signed" => a.signed = w)

\* A success that the PISP's record holds is one the DFSP has committed, for the
\* authorization the record holds.
RecordPaid ==
  kvs.state = "transactionStatusReceived" /\ kvs.status = "ok" => kvs.auth \in committed
=============================================================================
