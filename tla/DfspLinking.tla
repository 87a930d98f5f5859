---------------------------- MODULE DfspLinking ----------------------------
(***************************************************************************)
(* The DFSP side of account linking (models/inbound/dfspLinking.model.ts): *)
(* POST /consentRequests starts a workflow that runs by itself,            *)
(*                                                                         *)
(*   validate  the DFSP's backend judges the request and picks a channel,  *)
(*             then sends an OTP or keeps the request for the user's visit *)
(*   token     PUT /consentRequests/{ID}, wait for the user's token         *)
(*   check     the backend judges the token                                *)
(*   grant     POST /consents to the PISP, wait for a signed credential     *)
(*   auth      POST /consents to the auth-service, wait for its verdict     *)
(*   save      the backend stores the consent                              *)
(*   notify    PATCH /consents/{ID} to the PISP                             *)
(*                                                                         *)
(* and stores nothing: a workflow lives as long as the process.  Nothing    *)
(* asks whether the consent request is known already, and the channel of   *)
(* the token is named after the consent request, so that workflows of one  *)
(* consent request hear the same token; the other two are named after the  *)
(* consent, which is each workflow's own.                                  *)
(*                                                                         *)
(* A call that was sent may reach its receiver or not, also when its       *)
(* sender sees an error or dies: receivers act later, or never.            *)
(***************************************************************************)
CONSTANTS
  Workflows,    \* POST /consentRequests, repeated ones included
  RedisFaults   \* may the subscriber's connection be down?

VARIABLES
  pc,             \* where each workflow is
  authenticated,  \* workflows whose token the backend has found valid
  checked,        \* the credential the auth-service was asked to register
  ordered,        \* workflows that told the backend to store the consent
  active,         \* consents the backend has stored
  told            \* what the PISP was sent

vars == <<pc, authenticated, checked, ordered, active, told>>

\* Calls and waits under way, and the listener that reports a refusal of the
\* auth-service.
Running == {"validate", "token", "check", "grant", "auth", "refusing", "save", "notify"}

AuthChannels == {"WEB", "OTP"}

\* PUT and PUT .../error of the consent request; POST, PATCH and PUT .../error of
\* the consent.
News == AuthChannels \union {"requestError", "consent", "verified", "consentError"}

TypeOK ==
  /\ pc \in [Workflows -> {"none", "done", "failed", "dead"} \union Running]
  /\ authenticated \subseteq Workflows
  /\ checked \in [Workflows -> {"none", "signed", "forged"}]
  /\ ordered \subseteq Workflows
  /\ active \subseteq Workflows
  /\ told \in [Workflows -> SUBSET News]

Init ==
  /\ pc = [w \in Workflows |-> "none"]
  /\ authenticated = {}
  /\ checked = [w \in Workflows |-> "none"]
  /\ ordered = {}
  /\ active = {}
  /\ told = [w \in Workflows |-> {}]

-----------------------------------------------------------------------------
Move(w, next) == pc' = [pc EXCEPT ![w] = next]

Tell(w, news) == told' = [told EXCEPT ![w] = @ \union {news}]

\* The catch block of a transition's handler tells the PISP, of the consent request
\* or of the consent, and throws again: run() moves the state machine to "errored",
\* and the handler of the API ignores what run() throws.  Nothing depends on how
\* the report ends, so that the workflow is over when it is sent.
Report(w, news) == Move(w, "failed") /\ Tell(w, news)

\* What a failure of each step is reported as.
ErrorOf(place) ==
  IF place \in {"validate", "token", "check"} THEN "requestError" ELSE "consentError"

-----------------------------------------------------------------------------
(* The workflow.                                                           *)

Receive(w) ==
  /\ pc[w] = "none"
  /\ Move(w, "validate")
  /\ UNCHANGED <<authenticated, checked, ordered, active, told>>

\* The request is valid and the OTP sent, or the request kept: the job of the token
\* is opened and the PISP told which channel it is.
ValidateDone(w) ==
  /\ pc[w] = "validate"
  /\ \/ Move(w, "token") /\ \E channel \in AuthChannels : Tell(w, channel)
     \/ RedisFaults /\ Report(w, "requestError")
  /\ UNCHANGED <<authenticated, checked, ordered, active>>

AwaitingToken == {w \in Workflows : pc[w] = "token"}

\* PATCH /consentRequests/{ID} is heard by every workflow that waits for a token,
\* and each asks the backend about it.
ConsentRequestsPatch ==
  /\ AwaitingToken # {}
  /\ pc' = [w \in Workflows |-> IF w \in AwaitingToken THEN "check" ELSE pc[w]]
  /\ UNCHANGED <<authenticated, checked, ordered, active, told>>

\* The token is valid: a consent id is made, its job opened and the consent sent.
CheckDone(w) ==
  /\ pc[w] = "check"
  /\ authenticated' = authenticated \union {w}
  /\ \/ Move(w, "grant") /\ Tell(w, "consent")
     \/ RedisFaults /\ Report(w, "consentError")
  /\ UNCHANGED <<checked, ordered, active>>

\* PUT /consents/{ID} with a credential that is PENDING: it is passed on to the
\* auth-service.
ConsentsPutPending(w, credential) ==
  /\ pc[w] = "grant"
  /\ \/ /\ Move(w, "auth")
        /\ checked' = [checked EXCEPT ![w] = credential]
        /\ UNCHANGED told
     \/ RedisFaults /\ Report(w, "consentError") /\ UNCHANGED checked
  /\ UNCHANGED <<authenticated, ordered, active>>

\* Variant: a credential that is VERIFIED ends the wait for the PISP, too.
ConsentsPutVerified_AnyWait(w) ==
  /\ pc[w] \in {"grant", "auth"}
  /\ checked[w] # "forged"
  /\ Move(w, "save")
  /\ ordered' = ordered \union {w}
  /\ UNCHANGED <<authenticated, checked, active, told>>

\* PUT /consents/{ID} with a credential that is VERIFIED, which the auth-service
\* sends only for one that fits: the backend is told to store the consent.
ConsentsPutVerified(w) ==
  /\ pc[w] = "auth"
  /\ checked[w] = "signed"
  /\ Move(w, "save")
  /\ ordered' = ordered \union {w}
  /\ UNCHANGED <<authenticated, checked, active, told>>

\* Variant: errorInformation of the auth-service is not looked at after the report.
ConsentsError_GoesOn(w) ==
  /\ pc[w] = "auth"
  /\ Move(w, "save")
  /\ Tell(w, "consentError")
  /\ ordered' = ordered \union {w}
  /\ UNCHANGED <<authenticated, checked, active>>

\* PUT /consents/{ID}/error is published to both waits on the consent.  That of the
\* credential just ends; in that of the auth-service the listener tells the PISP.
ConsentsError(w) ==
  /\ \/ pc[w] = "grant" /\ Move(w, "failed") /\ UNCHANGED told
     \/ pc[w] = "auth" /\ Move(w, "refusing") /\ Tell(w, "consentError")
  /\ UNCHANGED <<authenticated, checked, ordered, active>>

\* The listener's report has ended; when it failed, the catch block reports again.
RefusalDone(w) ==
  /\ pc[w] = "refusing"
  /\ \/ Move(w, "failed") /\ UNCHANGED told
     \/ Report(w, "consentError")
  /\ UNCHANGED <<authenticated, checked, ordered, active>>

\* The backend stores a consent it was told to store, soon, late or never.
Activate(w) ==
  /\ w \in ordered \ active
  /\ active' = active \union {w}
  /\ UNCHANGED <<pc, authenticated, checked, ordered, told>>

\* The backend confirms; finalizing the link does nothing yet; the PISP is told.
SaveDone(w) ==
  /\ pc[w] = "save"
  /\ w \in active
  /\ Move(w, "notify")
  /\ Tell(w, "verified")
  /\ UNCHANGED <<authenticated, checked, ordered, active>>

NotifyDone(w) ==
  /\ pc[w] = "notify"
  /\ Move(w, "done")
  /\ UNCHANGED <<authenticated, checked, ordered, active, told>>

\* Variant: no failure of a call is reported.
CallFails_Silent(w) ==
  /\ pc[w] \in {"validate", "check", "save", "notify"}
  /\ Move(w, "failed")
  /\ UNCHANGED <<authenticated, checked, ordered, active, told>>

\* A call to the backend or the last one to the PISP fails, or the backend's answer
\* is a refusal.  What is sent of a refusal or of an error of the validation and of
\* the token's check is made out of it, which throws when the refusal has a code
\* that is not on the list, or the error's body has one: then nothing is sent.  The
\* other reports are of constant errors.
CallFails(w) ==
  /\ \/ /\ pc[w] \in {"validate", "check", "save", "notify"}
        /\ Report(w, ErrorOf(pc[w]))
     \/ /\ pc[w] \in {"validate", "check"}
        /\ Move(w, "failed")
        /\ UNCHANGED told
  /\ UNCHANGED <<authenticated, checked, ordered, active>>

\* A job's timer expires, also while its listener still reports, or its call fails.
GiveUp(w) ==
  /\ pc[w] \in {"token", "grant", "auth", "refusing"}
  /\ Report(w, ErrorOf(pc[w]))
  /\ UNCHANGED <<authenticated, checked, ordered, active>>

\* The process ends, and with it everything that runs in it.
Crash ==
  /\ \E w \in Workflows : pc[w] \in Running
  /\ pc' = [w \in Workflows |-> IF pc[w] \in Running THEN "dead" ELSE pc[w]]
  /\ UNCHANGED <<authenticated, checked, ordered, active, told>>

-----------------------------------------------------------------------------
Step(w) ==
  \/ ValidateDone(w) \/ CheckDone(w) \/ RefusalDone(w)
  \/ SaveDone(w) \/ NotifyDone(w)
  \/ CallFails(w) \/ GiveUp(w)

Peers(w) ==
  \/ \E credential \in {"signed", "forged"} : ConsentsPutPending(w, credential)
  \/ ConsentsPutVerified(w)
  \/ ConsentsError(w)
  \/ Activate(w)

Next ==
  \/ Crash
  \/ ConsentRequestsPatch
  \/ \E w \in Workflows : Receive(w) \/ Step(w) \/ Peers(w)

Spec == Init /\ [][Next]_vars

-----------------------------------------------------------------------------
(* Properties.                                                             *)

\* The workflow keeps the promise of Consent: in whatever order answers, timeouts,
\* failures and crashes come.
ToldOf(news) == {w \in Workflows : told[w] \cap news # {}}

Promise == INSTANCE Consent WITH
  signed <- {w \in Workflows : checked[w] = "signed"},
  refused <- ToldOf({"requestError", "consentError"}),
  confirmed <- ToldOf({"verified"})

KeepsPromise == Promise!Spec

\* What the PISP is told of the end of a workflow.
Ends == {"requestError", "consentError", "verified"}

\* The wait for the credential ended by an error about the consent, which is the
\* PISP's or the switch's own.
Declined(w) == "consent" \in told[w] /\ checked[w] = "none"

\* Once the token of a workflow's user was found valid, the workflow does not end,
\* unless with the process, before the PISP was told how, or had declined itself:
\* whatever call fails, timer expires or verdict comes, in whatever order.  Of failures
\* before that it may hear nothing: see CallFails.
AuthenticatedIsTold ==
  \A w \in authenticated :
    pc[w] \in {"failed", "done"} => told[w] \cap Ends # {} \/ Declined(w)

(* The inductive invariant behind KeepsPromise and AuthenticatedIsTold.    *)

\* What has been done is what the place of the workflow says.
InPlace ==
  \A w \in Workflows :
    /\ pc[w] \in {"none", "validate", "token", "check"} => w \notin authenticated
    /\ pc[w] \in {"grant", "auth", "refusing"} => w \in authenticated
    /\ pc[w] \in {"none", "validate", "token", "check", "grant"} => checked[w] = "none"
    /\ pc[w] = "save" => w \in ordered
    /\ pc[w] = "notify" => "verified" \in told[w]
    /\ pc[w] \in {"none", "validate", "token", "check", "grant", "auth", "save"} =>
         told[w] \cap Ends = {}
    /\ pc[w] = "grant" => "consent" \in told[w]
    /\ pc[w] = "refusing" => "consentError" \in told[w]

\* A consent has its prerequisites.
Causes ==
  \A w \in Workflows :
    /\ "consent" \in told[w] => w \in authenticated
    /\ checked[w] # "none" => w \in authenticated
    /\ w \in ordered => checked[w] = "signed"
    /\ w \in active => w \in ordered
    /\ "verified" \in told[w] => w \in active

IInv ==
  /\ TypeOK
  /\ InPlace
  /\ Causes
  /\ AuthenticatedIsTold
=============================================================================
