---------------------------- MODULE LinkingFlow ----------------------------
(***************************************************************************)
(* Account linking from end to end: PispLinking and DfspLinking, joined by  *)
(* what the switch carries between them.                                   *)
(*                                                                         *)
(* Every copy of a consent request that reaches the DFSP starts a workflow  *)
(* there, which goes by the name of the consent it grants.  The switch may  *)
(* delay, repeat, reorder and lose messages: a message is a fact of its     *)
(* sender's state, and its receiver may act on it at any later time.        *)
(***************************************************************************)
CONSTANTS
  Requests,     \* requests of the PISP's backend
  AtRequestConsent, AtAuthenticate, AtPassCredential,  \* those for each endpoint
  Workflows,    \* of the DFSP, and the consents they grant
  Concurrent,   \* may the requests overlap?
  RedisFaults   \* may Redis fail, on both sides?

ASSUME LinkingFlowAssumption ==
  /\ Concurrent \in BOOLEAN
  /\ RedisFaults \in BOOLEAN
  /\ Workflows \cap {"none", "blind"} = {}

VARIABLES kvs, pc, data, answer, posted, tokenSent, credentials
VARIABLES place, authenticated, checked, ordered, active, told

Pisp == INSTANCE PispLinking WITH Consents <- Workflows

Dfsp == INSTANCE DfspLinking WITH pc <- place

pispVars == <<kvs, pc, data, answer, posted, tokenSent, credentials>>
dfspVars == <<place, authenticated, checked, ordered, active, told>>
vars == <<pispVars, dfspVars>>

Init == Pisp!Init /\ Dfsp!Init

-----------------------------------------------------------------------------
(* Each side by itself.                                                    *)

PispSteps ==
  /\ Pisp!Crash \/ \E r \in Requests : Pisp!Arrive(r) \/ Pisp!Step(r)
  /\ UNCHANGED dfspVars

\* POST /consentRequests: every copy that reaches the DFSP starts a workflow.
Received(w) == posted /\ Dfsp!Receive(w)

\* Calls of the backend, timers, and the answers of the auth-service are part of
\* this side.
DfspSteps ==
  /\ \/ Dfsp!Crash
     \/ \E w \in Workflows :
          \/ Received(w)
          \/ Dfsp!Step(w)
          \/ Dfsp!ConsentsPutVerified(w)
          \/ Dfsp!Activate(w)
  /\ UNCHANGED pispVars

-----------------------------------------------------------------------------
(* Messages.                                                               *)

\* Variant: a credential reaches the workflow of any consent, and is found to fit the
\* one it was sent for.
Signature_AnyConsent(w) ==
  \E k \in credentials :
    Dfsp!ConsentsPutPending(w, IF k.signed = k.consent THEN "signed" ELSE "forged")

\* PUT /consents/{ID}: what the PISP sent under this id.  A credential fits if it
\* was made for the challenge of this consent.
Signature(w) ==
  \E k \in credentials :
    /\ k.consent = w
    /\ Dfsp!ConsentsPutPending(w, IF k.signed = w THEN "signed" ELSE "forged")

\* PUT /consents/{ID}/error, from the switch when it could not deliver the consent,
\* or from the auth-service.
Failure(w) == "consent" \in told[w] /\ Dfsp!ConsentsError(w)

\* PATCH /consentRequests/{ID} and the two above.
ToDfsp ==
  /\ \/ tokenSent /\ Dfsp!ConsentRequestsPatch
     \/ \E w \in Workflows : Signature(w) \/ Failure(w)
  /\ UNCHANGED pispVars

\* PUT /consentRequests/{ID}, POST /consents and PATCH /consents/{ID}, from any
\* workflow.
ToPisp ==
  /\ \E w \in Workflows :
       \/ \E channel \in told[w] \cap Pisp!AuthChannels : Pisp!ConsentRequestsPut(channel)
       \/ "consent" \in told[w] /\ Pisp!ConsentsPost(w)
       \/ "verified" \in told[w] /\ Pisp!ConsentsPatch(w)
  /\ UNCHANGED dfspVars

\* PUT /consentRequests/{ID}/error and PUT /consents/{ID}/error, from a workflow
\* that failed, or from the switch when it could not deliver a request.
ErrorToPisp ==
  /\ \/ posted /\ Pisp!ConsentRequestsError
     \/ \E c \in Workflows : Pisp!SentFor(c) # {} /\ Pisp!ConsentsError(c)
  /\ UNCHANGED dfspVars

Next == PispSteps \/ DfspSteps \/ ToDfsp \/ ToPisp \/ ErrorToPisp

Spec == Init /\ [][Next]_vars

-----------------------------------------------------------------------------
(* Properties.                                                             *)

\* The PISP meets no more than its own module lets it expect of a DFSP.
PispExpects == Pisp!Spec

\* A consent is active only if its user was authenticated for it, the PISP's backend
\* was shown it and signed it.
ActiveWasSigned ==
  \A w \in active :
    /\ w \in authenticated
    /\ \E k \in credentials : k.consent = w /\ k.signed = w
    /\ \E r \in Requests : answer[r] = "consent" /\ data[r].consent = w

\* A backend that is told that its accounts are linked, and a record that says so,
\* speak of a consent the DFSP has stored, not of that of another workflow.
LinkedMeansActive ==
  /\ \A r \in Requests : answer[r] = "linked" => data[r].consent \in active
  /\ kvs.state = "accountsLinked" => kvs.consent \in active

(* Of the two sides, and the invariant that ties them together.            *)

RecordSound == Pisp!RecordSound
KeepsPromise == Dfsp!KeepsPromise
AuthenticatedIsTold == Dfsp!AuthenticatedIsTold

\* The DFSP does nothing for a consent request that was not posted, judges no token
\* that was not sent, and has nothing registered that was not sent for this consent.
Tied ==
  /\ \A w \in Workflows :
       /\ place[w] # "none" \/ told[w] # {} => posted
       /\ place[w] = "check" \/ w \in authenticated => tokenSent
       /\ checked[w] # "none" =>
            \E k \in credentials : k.consent = w /\ (checked[w] = "signed" => k.signed = w)

IInv == Pisp!IInv /\ Dfsp!IInv /\ Tied /\ LinkedMeansActive
=============================================================================
