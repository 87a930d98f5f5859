------------------------- MODULE DfspLinkingProofs -------------------------
(***************************************************************************)
(* Proofs about DfspLinking, for any number of workflows on one consent    *)
(* request, with any faults: the inductive invariant, that the PISP is told *)
(* how an authenticated workflow ends, and the promise of Consent.         *)
(***************************************************************************)
EXTENDS DfspLinking, TLAPS

-----------------------------------------------------------------------------
(* The invariant, one workflow at a time.                                  *)

\* What IInv says of one workflow.
Sane(w) ==
  /\ pc[w] \in {"none", "validate", "token", "check"} => w \notin authenticated
  /\ pc[w] \in {"grant", "auth", "refusing"} => w \in authenticated
  /\ pc[w] \in {"none", "validate", "token", "check", "grant"} => checked[w] = "none"
  /\ pc[w] = "save" => w \in ordered
  /\ pc[w] = "notify" => "verified" \in told[w]
  /\ pc[w] \in {"none", "validate", "token", "check", "grant", "auth", "save"} =>
       told[w] \cap Ends = {}
  /\ pc[w] = "grant" => "consent" \in told[w]
  /\ pc[w] = "refusing" => "consentError" \in told[w]
  /\ "consent" \in told[w] => w \in authenticated
  /\ checked[w] # "none" => w \in authenticated
  /\ w \in ordered => checked[w] = "signed"
  /\ w \in active => w \in ordered
  /\ "verified" \in told[w] => w \in active
  /\ w \in authenticated /\ pc[w] \in {"failed", "done"} =>
       told[w] \cap Ends # {} \/ Declined(w)

LEMMA IInvIsSane == IInv <=> TypeOK /\ \A w \in Workflows : Sane(w)
BY DEF IInv, InPlace, Causes, AuthenticatedIsTold, TypeOK, Sane

LEMMA AllSane ==
  ASSUME TypeOK', \A w \in Workflows : Sane(w)'
  PROVE  IInv'
BY DEF IInv, InPlace, Causes, AuthenticatedIsTold, TypeOK, Sane

\* Nothing that Sane speaks of changes for this workflow.
Same(v) ==
  /\ pc'[v] = pc[v]
  /\ checked'[v] = checked[v]
  /\ told'[v] = told[v]
  /\ v \in authenticated' <=> v \in authenticated
  /\ v \in ordered' <=> v \in ordered
  /\ v \in active' <=> v \in active

LEMMA OneIInv ==
  ASSUME IInv, TypeOK', NEW w \in Workflows, Sane(w)',
         \A v \in Workflows \ {w} : Same(v)
  PROVE  IInv'
<1>1. ASSUME NEW v \in Workflows \ {w} PROVE Sane(v)'
  <2>1. Sane(v) /\ Same(v)
    BY IInvIsSane
  <2> QED
    BY <2>1 DEF Sane, Same, Declined
<1> QED
  BY <1>1, AllSane

-----------------------------------------------------------------------------
(* Each action.                                                            *)

LEMMA ReceiveIInv ==
  ASSUME IInv, NEW w \in Workflows, Receive(w)
  PROVE  IInv'
<1>1. TypeOK /\ Sane(w)
  BY IInvIsSane
<1>2. TypeOK'
  BY <1>1 DEF Receive, Move, TypeOK, Running
<1>3. Sane(w)' /\ \A v \in Workflows \ {w} : Same(v)
  BY <1>1 DEF Receive, Move, TypeOK, Sane, Same, Declined
<1> QED
  BY <1>2, <1>3, OneIInv

\* A report ends a workflow and changes nothing else.
LEMMA ReportIInv ==
  ASSUME IInv, NEW w \in Workflows, NEW news \in {"requestError", "consentError"},
         Report(w, news), UNCHANGED <<checked, ordered, active>>,
         authenticated' \in {authenticated, authenticated \union {w}}
  PROVE  IInv'
<1>1. TypeOK /\ Sane(w)
  BY IInvIsSane
<1>2. TypeOK'
  BY <1>1 DEF Report, Move, Tell, TypeOK, News
<1>3. pc'[w] = "failed" /\ told'[w] = told[w] \union {news}
  BY <1>1 DEF Report, Move, Tell, TypeOK
<1>4. Sane(w)'
  BY <1>1, <1>3 DEF Sane, Ends, Declined
<1>5. \A v \in Workflows \ {w} : Same(v)
  BY <1>1 DEF Report, Move, Tell, TypeOK, Same
<1> QED
  BY <1>2, <1>4, <1>5, OneIInv

LEMMA ValidateDoneIInv ==
  ASSUME IInv, NEW w \in Workflows, ValidateDone(w)
  PROVE  IInv'
<1>1. TypeOK /\ Sane(w)
  BY IInvIsSane
<1>2. ASSUME NEW channel \in AuthChannels, Move(w, "token"), Tell(w, channel)
      PROVE  IInv'
  <2>1. TypeOK'
    BY <1>1, <1>2 DEF ValidateDone, Move, Tell, TypeOK, Running, News
  <2>2. pc[w] = "validate" /\ pc'[w] = "token" /\ told'[w] = told[w] \union {channel}
    BY <1>1, <1>2 DEF ValidateDone, Move, Tell, TypeOK
  <2>3. Sane(w)'
    BY <1>1, <2>2 DEF ValidateDone, Sane, Ends, AuthChannels
  <2>4. \A v \in Workflows \ {w} : Same(v)
    BY <1>1, <1>2 DEF ValidateDone, Move, Tell, TypeOK, Same
  <2> QED
    BY <2>1, <2>3, <2>4, OneIInv
<1> QED
  BY <1>2, ReportIInv DEF ValidateDone

LEMMA ConsentRequestsPatchIInv ==
  ASSUME IInv, ConsentRequestsPatch
  PROVE  IInv'
<1>1. TypeOK'
  BY DEF ConsentRequestsPatch, IInv, TypeOK, Running
<1>2. ASSUME NEW w \in Workflows PROVE Sane(w)'
  <2>1. Sane(w)
    BY IInvIsSane
  <2>2. pc'[w] = IF pc[w] = "token" THEN "check" ELSE pc[w]
    BY DEF ConsentRequestsPatch, AwaitingToken
  <2> QED
    BY <2>1, <2>2 DEF ConsentRequestsPatch, Sane, Declined
<1> QED
  BY <1>1, <1>2, AllSane

LEMMA CheckDoneIInv ==
  ASSUME IInv, NEW w \in Workflows, CheckDone(w)
  PROVE  IInv'
<1>1. TypeOK /\ Sane(w)
  BY IInvIsSane
<1>2. CASE Move(w, "grant") /\ Tell(w, "consent")
  <2>1. TypeOK'
    BY <1>1, <1>2 DEF CheckDone, Move, Tell, TypeOK, Running, News
  <2>2. pc[w] = "check" /\ pc'[w] = "grant" /\ told'[w] = told[w] \union {"consent"}
    BY <1>1, <1>2 DEF CheckDone, Move, Tell, TypeOK
  <2>3. Sane(w)'
    BY <1>1, <2>2 DEF CheckDone, Sane, Ends
  <2>4. \A v \in Workflows \ {w} : Same(v)
    BY <1>1, <1>2 DEF CheckDone, Move, Tell, TypeOK, Same
  <2> QED
    BY <2>1, <2>3, <2>4, OneIInv
<1> QED
  BY <1>2, ReportIInv DEF CheckDone

LEMMA ConsentsPutPendingIInv ==
  ASSUME IInv, NEW w \in Workflows, NEW credential \in {"signed", "forged"},
         ConsentsPutPending(w, credential)
  PROVE  IInv'
<1>1. TypeOK /\ Sane(w)
  BY IInvIsSane
<1>2. CASE Move(w, "auth") /\ checked' = [checked EXCEPT ![w] = credential] /\ UNCHANGED told
  <2>1. TypeOK'
    BY <1>1, <1>2 DEF ConsentsPutPending, Move, TypeOK, Running
  <2>2. pc[w] = "grant" /\ pc'[w] = "auth" /\ checked'[w] = credential
    BY <1>1, <1>2 DEF ConsentsPutPending, Move, TypeOK
  <2>3. Sane(w)'
    BY <1>1, <1>2, <2>2 DEF ConsentsPutPending, Sane
  <2>4. \A v \in Workflows \ {w} : Same(v)
    BY <1>1, <1>2 DEF ConsentsPutPending, Move, TypeOK, Same
  <2> QED
    BY <2>1, <2>3, <2>4, OneIInv
<1> QED
  BY <1>2, ReportIInv DEF ConsentsPutPending

LEMMA ConsentsPutVerifiedIInv ==
  ASSUME IInv, NEW w \in Workflows, ConsentsPutVerified(w)
  PROVE  IInv'
<1>1. TypeOK /\ Sane(w)
  BY IInvIsSane
<1>2. TypeOK'
  BY <1>1 DEF ConsentsPutVerified, Move, TypeOK, Running
<1>3. Sane(w)' /\ \A v \in Workflows \ {w} : Same(v)
  BY <1>1 DEF ConsentsPutVerified, Move, TypeOK, Sane, Same, Declined
<1> QED
  BY <1>2, <1>3, OneIInv

LEMMA ConsentsErrorIInv ==
  ASSUME IInv, NEW w \in Workflows, ConsentsError(w)
  PROVE  IInv'
<1>1. TypeOK /\ Sane(w)
  BY IInvIsSane
<1>2. TypeOK'
  BY <1>1 DEF ConsentsError, Move, Tell, TypeOK, Running, News
<1>3. \A v \in Workflows \ {w} : Same(v)
  BY <1>1 DEF ConsentsError, Move, Tell, TypeOK, Same
<1>4. ASSUME pc[w] = "grant", Move(w, "failed"), UNCHANGED told
      PROVE  Sane(w)'
  BY <1>1, <1>4 DEF ConsentsError, Move, TypeOK, Sane, Ends, Declined
<1>5. ASSUME pc[w] = "auth", Move(w, "refusing"), Tell(w, "consentError")
      PROVE  Sane(w)'
  <2>1. pc'[w] = "refusing" /\ told'[w] = told[w] \union {"consentError"}
    BY <1>1, <1>5 DEF Move, Tell, TypeOK
  <2> QED
    BY <1>1, <1>5, <2>1 DEF ConsentsError, Sane
<1>6. Sane(w)'
  BY <1>1, <1>4, <1>5 DEF ConsentsError
<1> QED
  BY <1>2, <1>3, <1>6, OneIInv

LEMMA RefusalDoneIInv ==
  ASSUME IInv, NEW w \in Workflows, RefusalDone(w)
  PROVE  IInv'
<1>1. TypeOK /\ Sane(w)
  BY IInvIsSane
<1>2. CASE Move(w, "failed") /\ UNCHANGED told
  <2>1. TypeOK'
    BY <1>1, <1>2 DEF RefusalDone, Move, TypeOK
  <2>2. Sane(w)' /\ \A v \in Workflows \ {w} : Same(v)
    BY <1>1, <1>2 DEF RefusalDone, Move, TypeOK, Sane, Same, Declined, Ends
  <2> QED
    BY <2>1, <2>2, OneIInv
<1> QED
  BY <1>2, ReportIInv DEF RefusalDone

LEMMA ActivateIInv ==
  ASSUME IInv, NEW w \in Workflows, Activate(w)
  PROVE  IInv'
<1>1. TypeOK /\ Sane(w)
  BY IInvIsSane
<1>2. TypeOK'
  BY <1>1 DEF Activate, TypeOK
<1>3. Sane(w)' /\ \A v \in Workflows \ {w} : Same(v)
  BY <1>1 DEF Activate, Sane, Same, Declined
<1> QED
  BY <1>2, <1>3, OneIInv

LEMMA SaveDoneIInv ==
  ASSUME IInv, NEW w \in Workflows, SaveDone(w)
  PROVE  IInv'
<1>1. TypeOK /\ Sane(w)
  BY IInvIsSane
<1>2. TypeOK'
  BY <1>1 DEF SaveDone, Move, Tell, TypeOK, Running, News
<1>3. pc'[w] = "notify" /\ told'[w] = told[w] \union {"verified"}
  BY <1>1 DEF SaveDone, Move, Tell, TypeOK
<1>4. Sane(w)'
  BY <1>1, <1>3 DEF SaveDone, Sane
<1>5. \A v \in Workflows \ {w} : Same(v)
  BY <1>1 DEF SaveDone, Move, Tell, TypeOK, Same
<1> QED
  BY <1>2, <1>4, <1>5, OneIInv

LEMMA NotifyDoneIInv ==
  ASSUME IInv, NEW w \in Workflows, NotifyDone(w)
  PROVE  IInv'
<1>1. TypeOK /\ Sane(w)
  BY IInvIsSane
<1>2. TypeOK'
  BY <1>1 DEF NotifyDone, Move, TypeOK
<1>3. Sane(w)' /\ \A v \in Workflows \ {w} : Same(v)
  BY <1>1 DEF NotifyDone, Move, TypeOK, Sane, Same, Declined, Ends
<1> QED
  BY <1>2, <1>3, OneIInv

LEMMA FailsIInv ==
  ASSUME IInv, NEW w \in Workflows, CallFails(w) \/ GiveUp(w)
  PROVE  IInv'
<1>1. TypeOK /\ Sane(w)
  BY IInvIsSane
<1>2. CASE Report(w, ErrorOf(pc[w]))
  <2>1. ErrorOf(pc[w]) \in {"requestError", "consentError"}
    BY DEF ErrorOf
  <2> QED
    BY <1>2, <2>1, ReportIInv DEF CallFails, GiveUp
<1>3. CASE pc[w] \in {"validate", "check"} /\ Move(w, "failed") /\ UNCHANGED told
  <2>1. TypeOK'
    BY <1>1, <1>3 DEF CallFails, GiveUp, Move, TypeOK
  <2>2. pc'[w] = "failed" /\ w \notin authenticated'
    BY <1>1, <1>3 DEF CallFails, GiveUp, Move, TypeOK, Sane
  <2>3. Sane(w)'
    BY <1>1, <1>3, <2>2 DEF CallFails, GiveUp, Sane
  <2>4. \A v \in Workflows \ {w} : Same(v)
    BY <1>1, <1>3 DEF CallFails, GiveUp, Move, TypeOK, Same
  <2> QED
    BY <2>1, <2>3, <2>4, OneIInv
<1> QED
  BY <1>2, <1>3 DEF CallFails, GiveUp

LEMMA CrashIInv ==
  ASSUME IInv, Crash
  PROVE  IInv'
<1>1. TypeOK'
  BY DEF Crash, IInv, TypeOK
<1>2. ASSUME NEW w \in Workflows PROVE Sane(w)'
  <2>1. Sane(w)
    BY IInvIsSane
  <2>2. pc'[w] = IF pc[w] \in Running THEN "dead" ELSE pc[w]
    BY DEF Crash
  <2> QED
    BY <2>1, <2>2 DEF Crash, Sane, Declined, Running
<1> QED
  BY <1>1, <1>2, AllSane

-----------------------------------------------------------------------------
(* The invariant.                                                          *)

LEMMA InitIInv == Init => IInv
BY DEF Init, IInv, TypeOK, InPlace, Causes, AuthenticatedIsTold, Ends

LEMMA NextIInv == IInv /\ [Next]_vars => IInv'
<1> SUFFICES ASSUME IInv, [Next]_vars PROVE IInv'
  OBVIOUS
<1>1. CASE UNCHANGED vars
  BY <1>1 DEF vars, IInv, TypeOK, InPlace, Causes, AuthenticatedIsTold, Declined
<1>2. ASSUME NEW w \in Workflows, Step(w) PROVE IInv'
  BY <1>2, ValidateDoneIInv, CheckDoneIInv, RefusalDoneIInv, SaveDoneIInv, NotifyDoneIInv, FailsIInv DEF Step
<1>3. ASSUME NEW w \in Workflows, Peers(w) PROVE IInv'
  BY <1>3, ConsentsPutPendingIInv, ConsentsPutVerifiedIInv, ConsentsErrorIInv, ActivateIInv DEF Peers
<1> QED
  BY <1>1, <1>2, <1>3, ReceiveIInv, ConsentRequestsPatchIInv, CrashIInv DEF Next

\* For any number of workflows of a consent request, with any faults: what a workflow
\* has done and told is what its place says, and has its causes.
THEOREM Invariance == Spec => []IInv
BY InitIInv, NextIInv, PTL DEF Spec

\* Once the token of its user was found valid, no workflow ends before the PISP was
\* told how, or had declined itself, unless the process dies.
THEOREM Told == Spec => []AuthenticatedIsTold
<1>1. IInv => AuthenticatedIsTold
  BY DEF IInv
<1> QED
  BY <1>1, Invariance, PTL

-----------------------------------------------------------------------------
(* The promise.                                                            *)

PromiseStep == [Promise!Next]_Promise!vars

Signed == {w \in Workflows : checked[w] = "signed"}
Refused == ToldOf({"requestError", "consentError"})
Confirmed == ToldOf({"verified"})

LEMMA PromiseVars ==
  Promise!vars = <<authenticated, Signed, ordered, active, Refused, Confirmed>>
BY DEF Promise!vars, Signed, Refused, Confirmed

\* A workflow that has told no end is one for which something new may begin.
LEMMA LiveBefore ==
  ASSUME NEW w \in Workflows, told[w] \cap Ends = {}
  PROVE  Promise!Live(w)
BY DEF Promise!Live, ToldOf, Ends

LEMMA TellRefused ==
  ASSUME TypeOK, NEW w \in Workflows, NEW news \in {"requestError", "consentError"}, Tell(w, news)
  PROVE  Refused' = Refused \union {w} /\ Confirmed' = Confirmed
<1>1. /\ told'[w] = told[w] \union {news}
      /\ \A v \in Workflows \ {w} : told'[v] = told[v]
  BY DEF Tell, TypeOK
<1> QED
  BY <1>1 DEF Refused, Confirmed, ToldOf

\* A report, of a workflow whose user may just have been authenticated.
LEMMA ReportPromise ==
  ASSUME IInv, NEW w \in Workflows, NEW news \in {"requestError", "consentError"},
         Tell(w, news), UNCHANGED <<authenticated, checked, ordered, active>>
  PROVE  PromiseStep
<1>1. Refused' = Refused \union {w} /\ Confirmed' = Confirmed /\ Signed' = Signed
  BY TellRefused DEF IInv, Signed
<1>2. Promise!Refuse(w)
  BY <1>1 DEF Promise!Refuse, Signed, Refused, Confirmed
<1> QED
  BY <1>2 DEF PromiseStep, Promise!Next

\* Steps that tell nothing of an end and change nothing else that was promised.
LEMMA SilentPromise ==
  ASSUME UNCHANGED <<authenticated, checked, ordered, active>>,
         \A w \in Workflows : told'[w] \cap Ends = told[w] \cap Ends
  PROVE  PromiseStep
<1>1. Refused' = Refused /\ Confirmed' = Confirmed /\ Signed' = Signed
  BY DEF Refused, Confirmed, Signed, ToldOf, Ends
<1> QED
  BY <1>1, PromiseVars DEF PromiseStep, Promise!vars, Refused, Confirmed, Signed

LEMMA ValidatePromise ==
  ASSUME IInv, NEW w \in Workflows, ValidateDone(w)
  PROVE  PromiseStep
<1>1. ASSUME NEW channel \in AuthChannels, Tell(w, channel) PROVE PromiseStep
  <2>1. \A v \in Workflows : told'[v] \cap Ends = told[v] \cap Ends
    BY <1>1 DEF Tell, IInv, TypeOK, AuthChannels, Ends
  <2> QED
    BY <2>1, SilentPromise DEF ValidateDone
<1> QED
  BY <1>1, ReportPromise DEF ValidateDone, Report

LEMMA CheckPromise ==
  ASSUME IInv, NEW w \in Workflows, CheckDone(w)
  PROVE  PromiseStep
<1>1. Promise!Live(w)
  BY LiveBefore, IInvIsSane DEF CheckDone, Sane
<1>2. Signed' = Signed /\ Confirmed' = Confirmed /\ Refused' \in {Refused, Refused \union {w}}
  <2>1. CASE Tell(w, "consent")
    <3>1. \A v \in Workflows : told'[v] \cap Ends = told[v] \cap Ends
      BY <2>1 DEF Tell, IInv, TypeOK, Ends
    <3> QED
      BY <3>1 DEF CheckDone, Signed, Refused, Confirmed, ToldOf, Ends
  <2>2. CASE Tell(w, "consentError")
    BY <2>2, TellRefused DEF CheckDone, IInv, Signed
  <2> QED
    BY <2>1, <2>2 DEF CheckDone, Report
<1>3. Promise!Authenticate(w)
  BY <1>1, <1>2 DEF CheckDone, Promise!Authenticate, Signed, Refused, Confirmed
<1> QED
  BY <1>3 DEF PromiseStep, Promise!Next

LEMMA PendingPromise ==
  ASSUME IInv, NEW w \in Workflows, NEW credential \in {"signed", "forged"},
         ConsentsPutPending(w, credential)
  PROVE  PromiseStep
<1>1. CASE checked' = [checked EXCEPT ![w] = credential] /\ UNCHANGED told
  <2>1. Sane(w) /\ pc[w] = "grant"
    BY IInvIsSane DEF ConsentsPutPending
  <2>2. Promise!Live(w) /\ w \in authenticated /\ w \notin Signed
    BY <2>1, LiveBefore DEF Sane, Signed
  <2>3. Refused' = Refused /\ Confirmed' = Confirmed
    BY <1>1 DEF Refused, Confirmed, ToldOf
  <2>4. Signed' = IF credential = "signed" THEN Signed \union {w} ELSE Signed
    BY <1>1, <2>2 DEF IInv, TypeOK, Signed
  <2>5. CASE credential = "signed"
    <3>1. Promise!Sign(w)
      BY <2>2, <2>3, <2>4, <2>5 DEF ConsentsPutPending, Promise!Sign, Signed, Refused, Confirmed
    <3> QED
      BY <3>1 DEF PromiseStep, Promise!Next
  <2>6. CASE credential = "forged"
    BY <2>3, <2>4, <2>6 DEF ConsentsPutPending, PromiseStep, Promise!vars, Signed, Refused, Confirmed
  <2> QED
    BY <2>5, <2>6
<1> QED
  BY <1>1, ReportPromise DEF ConsentsPutPending, Report

LEMMA VerifiedPromise ==
  ASSUME IInv, NEW w \in Workflows, ConsentsPutVerified(w)
  PROVE  PromiseStep
<1>1. Promise!Live(w) /\ w \in Signed
  BY LiveBefore, IInvIsSane DEF ConsentsPutVerified, Sane, Signed
<1>2. Promise!Order(w)
  BY <1>1 DEF ConsentsPutVerified, Promise!Order, Signed, ToldOf
<1> QED
  BY <1>2 DEF PromiseStep, Promise!Next

LEMMA ActivatePromise ==
  ASSUME NEW w \in Workflows, Activate(w)
  PROVE  PromiseStep
<1>1. Promise!Activate(w)
  BY DEF Activate, Promise!Activate, ToldOf
<1> QED
  BY <1>1 DEF PromiseStep, Promise!Next

LEMMA SavePromise ==
  ASSUME IInv, NEW w \in Workflows, SaveDone(w)
  PROVE  PromiseStep
<1>1. Promise!Live(w)
  BY LiveBefore, IInvIsSane DEF SaveDone, Sane
<1>2. /\ told'[w] = told[w] \union {"verified"}
      /\ \A v \in Workflows \ {w} : told'[v] = told[v]
  BY DEF SaveDone, Tell, IInv, TypeOK
<1>3. Refused' = Refused /\ Confirmed' = Confirmed \union {w} /\ Signed' = Signed
  BY <1>2 DEF SaveDone, Refused, Confirmed, Signed, ToldOf
<1>4. Promise!Confirm(w)
  BY <1>1, <1>3 DEF SaveDone, Promise!Confirm, Signed, Refused, Confirmed
<1> QED
  BY <1>4 DEF PromiseStep, Promise!Next

LEMMA NextPromise ==
  ASSUME IInv, [Next]_vars
  PROVE  PromiseStep
<1>1. CASE Crash \/ ConsentRequestsPatch \/ UNCHANGED vars
  BY <1>1, SilentPromise DEF Crash, ConsentRequestsPatch, vars
<1>2. ASSUME NEW w \in Workflows, Receive(w) \/ NotifyDone(w) PROVE PromiseStep
  BY <1>2, SilentPromise DEF Receive, NotifyDone
<1>3. ASSUME NEW w \in Workflows, CallFails(w) \/ GiveUp(w) PROVE PromiseStep
  BY <1>3, ReportPromise, SilentPromise DEF CallFails, GiveUp, Report, ErrorOf
<1>4. ASSUME NEW w \in Workflows, ConsentsError(w) \/ RefusalDone(w) PROVE PromiseStep
  BY <1>4, ReportPromise, SilentPromise DEF ConsentsError, RefusalDone, Report
<1>5. ASSUME NEW w \in Workflows, Step(w) PROVE PromiseStep
  BY <1>2, <1>3, <1>4, <1>5, ValidatePromise, CheckPromise, SavePromise DEF Step
<1>6. ASSUME NEW w \in Workflows, Peers(w) PROVE PromiseStep
  BY <1>4, <1>6, PendingPromise, VerifiedPromise, ActivatePromise DEF Peers
<1> QED
  BY <1>1, <1>2, <1>5, <1>6 DEF Next

\* A consent becomes active only by an order, and is ordered only after its user was
\* authenticated, a credential signed for it and registered; once the PISP was told
\* of a failure nothing new begins, and it is told of a link only when the consent is
\* active: DfspLinking implements Consent.
THEOREM Implements == Spec => KeepsPromise
<1>1. Init => Promise!Init
  BY DEF Init, Promise!Init, ToldOf
<1>2. IInv /\ [Next]_vars => PromiseStep
  BY NextPromise
<1> QED
  BY <1>1, <1>2, Invariance, PTL DEF Spec, KeepsPromise, Promise!Spec, PromiseStep
=============================================================================
