----------------------- MODULE TransactionFlowProofs -----------------------
(***************************************************************************)
(* Proofs about TransactionFlow: each side is, step by step, the one its   *)
(* own module describes, so that what is proved there holds here; and what *)
(* ties the two sides together gives PaidForWhatWasShown.  For a client    *)
(* that waits for each answer it also gives what a status means, and that  *)
(* there is one payment.  The last part is about the terms that the user   *)
(* of the flow is shown (Fees).                                            *)
(***************************************************************************)
EXTENDS TransactionFlow, TLAPS

\* The modules' own proofs, for the two sides.
P == INSTANCE PispTransactionProofs WITH Authorizations <- Workflows
D == INSTANCE DfspTransactionProofs WITH kvs <- record, pc <- place

-----------------------------------------------------------------------------
(* The sides of the flow are those of the proofs.                          *)

LEMMA DfspSame ==
  /\ Dfsp!Init => D!Init
  /\ [Dfsp!Next]_Dfsp!vars => [D!Next]_D!vars
  /\ D!IInv => Dfsp!TypeOK /\ Dfsp!Causes
<1>1. Dfsp!Init => D!Init
  BY DEF Dfsp!Init, D!Init
<1>2. ASSUME NEW w \in Workflows, Dfsp!Step(w) PROVE D!Step(w)
  BY <1>2 DEF Dfsp!Step, Dfsp!Receive, Dfsp!ValidateDone, Dfsp!NotifyDone, Dfsp!QuoteDone,
       Dfsp!TransferDone, Dfsp!PatchDone, Dfsp!CallFails, Dfsp!GiveUp, Dfsp!WarningDone, Dfsp!ReportDone,
       Dfsp!Enter, Dfsp!Catch, Dfsp!SaveFails, Dfsp!Record, Dfsp!SendError, Dfsp!Warn, Dfsp!Die, Dfsp!Running,
       D!Step, D!Receive, D!ValidateDone, D!NotifyDone, D!QuoteDone,
       D!TransferDone, D!PatchDone, D!CallFails, D!GiveUp, D!WarningDone, D!ReportDone,
       D!Enter, D!Catch, D!SaveFails, D!Record, D!SendError, D!Warn, D!Die, D!Running
<1>3. ASSUME NEW w \in Workflows, Dfsp!Peers(w) PROVE D!Peers(w)
  BY <1>3 DEF Dfsp!Peers, Dfsp!Replies, Dfsp!AuthorizationPut, Dfsp!VerificationPut, Dfsp!Commit,
       Dfsp!Enter, Dfsp!Catch, Dfsp!SaveFails, Dfsp!Record, Dfsp!SendError, Dfsp!Warn, Dfsp!Die, Dfsp!Running,
       D!Peers, D!Replies, D!AuthorizationPut, D!VerificationPut, D!Commit,
       D!Enter, D!Catch, D!SaveFails, D!Record, D!SendError, D!Warn, D!Die, D!Running
<1>4. Dfsp!Crash => D!Crash
  BY DEF Dfsp!Crash, Dfsp!Die, Dfsp!Running, D!Crash, D!Die, D!Running
<1>5. UNCHANGED Dfsp!vars => UNCHANGED D!vars
  BY DEF Dfsp!vars, D!vars
<1>6. [Dfsp!Next]_Dfsp!vars => [D!Next]_D!vars
  BY <1>2, <1>3, <1>4, <1>5 DEF Dfsp!Next, D!Next
<1>7. D!IInv => Dfsp!TypeOK /\ Dfsp!Causes
  BY DEF D!IInv, D!TypeOK, D!Causes, D!States, D!Running, D!Ended,
         Dfsp!TypeOK, Dfsp!Causes, Dfsp!States, Dfsp!Running, Dfsp!Ended
<1> QED
  BY <1>1, <1>6, <1>7

\* The steps of one side, one by one.
LEMMA PispSameSteps ==
  /\ \A r \in Requests :
       /\ Pisp!Arrive(r) => P!Arrive(r)
       /\ Pisp!Step(r) => P!Step(r)
       /\ \A p \in Pisp!Phases :
            /\ p \in P!Phases
            /\ Pisp!SendFails(r, p) \/ Pisp!TimerExpires(r, p) =>
                 P!SendFails(r, p) \/ P!TimerExpires(r, p)
  /\ \A p, message : Pisp!Deliver(p, message) => P!Deliver(p, message)
  /\ Pisp!TransactionError => P!TransactionError
  /\ Pisp!Crash => P!Crash
  /\ UNCHANGED Pisp!vars => UNCHANGED P!vars
<1>2. ASSUME NEW r \in Requests, Pisp!Arrive(r) PROVE P!Arrive(r)
  BY <1>2 DEF Pisp!Arrive, Pisp!Lookup, Pisp!Initiate, Pisp!Approve, Pisp!Shown, Pisp!Load, Pisp!MayArrive, Pisp!Busy,
       P!Arrive, P!Lookup, P!Initiate, P!Approve, P!Shown, P!Load, P!MayArrive, P!Busy
<1>3. ASSUME NEW r \in Requests, Pisp!Step(r) PROVE P!Step(r)
  BY <1>3 DEF Pisp!Step, Pisp!InTurn, P!InTurn, Pisp!ReadFails, Pisp!LookupConflict, Pisp!LookupCreate, Pisp!LookupDone, Pisp!LookupFails,
       Pisp!RunAbsent, Pisp!RunRefused, Pisp!RunStart, Pisp!RunInitiate, Pisp!RunApprove, Pisp!RunOver,
       Pisp!Start, Pisp!Finish, Pisp!Fail, Pisp!Response, Pisp!Saved, Pisp!SaveOutcomes, Pisp!Errored, Pisp!NoData,
       P!Step, P!ReadFails, P!LookupConflict, P!LookupCreate, P!LookupDone, P!LookupFails,
       P!RunAbsent, P!RunRefused, P!RunStart, P!RunInitiate, P!RunApprove, P!RunOver,
       P!Start, P!Finish, P!Fail, P!Response, P!Saved, P!SaveOutcomes, P!Errored, P!NoData
<1>4. ASSUME NEW r \in Requests, NEW p \in Pisp!Phases, Pisp!SendFails(r, p) \/ Pisp!TimerExpires(r, p)
      PROVE  p \in P!Phases /\ (P!SendFails(r, p) \/ P!TimerExpires(r, p))
  BY <1>4 DEF Pisp!Phases, Pisp!SendFails, Pisp!TimerExpires, Pisp!SameTimer, Pisp!GiveUp, Pisp!Waits, Pisp!Fail, Pisp!Errored,
       P!Phases, P!SendFails, P!TimerExpires, P!SameTimer, P!GiveUp, P!Waits, P!Fail, P!Errored
<1>5. ASSUME NEW p, NEW message, Pisp!Deliver(p, message) PROVE P!Deliver(p, message)
  BY <1>5 DEF Pisp!Deliver, Pisp!Waits, Pisp!Takers, Pisp!LastOf, Pisp!Heard, Pisp!Complete, Pisp!Completed,
       Pisp!SaveOutcomes, Pisp!Response, Pisp!Errored,
       P!Deliver, P!Waits, P!Takers, P!LastOf, P!Heard, P!Complete, P!Completed,
       P!SaveOutcomes, P!Response, P!Errored
<1>6. Pisp!TransactionError => P!TransactionError
  BY <1>5 DEF Pisp!TransactionError, P!TransactionError
<1>7. Pisp!Crash => P!Crash
  BY DEF Pisp!Crash, Pisp!Busy, Pisp!NoData, Pisp!Phases, P!Crash, P!Busy, P!NoData, P!Phases
<1>8. UNCHANGED Pisp!vars => UNCHANGED P!vars
  BY DEF Pisp!vars, P!vars
<1>9. Pisp!Phases = P!Phases
  BY DEF Pisp!Phases, P!Phases
<1> QED
  BY <1>2, <1>3, <1>4, <1>5, <1>6, <1>7, <1>8, <1>9

LEMMA PispSame ==
  /\ Pisp!Init => P!Init
  /\ [Pisp!Next]_Pisp!vars => [P!Next]_P!vars
  /\ P!SignedWasShown => Pisp!SignedWasShown
<1>1. Pisp!Init => P!Init
  BY DEF Pisp!Init, Pisp!NoData, Pisp!Phases, P!Init, P!NoData, P!Phases
<1>2. Pisp!DfspAnswers => P!DfspAnswers
  BY PispSameSteps DEF Pisp!DfspAnswers, Pisp!TransactionPut, Pisp!AuthorizationPost, Pisp!TransactionPatch,
       P!DfspAnswers, P!TransactionPut, P!AuthorizationPost, P!TransactionPatch, Pisp!Issued, P!Issued
<1>3. [Pisp!Next]_Pisp!vars => [P!Next]_P!vars
  BY <1>2, PispSameSteps DEF Pisp!Next, P!Next
<1>4. P!SignedWasShown => Pisp!SignedWasShown
  BY DEF P!SignedWasShown, P!Signatures, P!Shown, Pisp!SignedWasShown, Pisp!Signatures, Pisp!Shown
<1> QED
  BY <1>1, <1>3, <1>4

-----------------------------------------------------------------------------
(* The DFSP's side of the tie.                                             *)

\* A step of one workflow that is under way: it starts no other, tells nothing for
\* one that was not started, and leaves what was sent for verification alone.
Quiet ==
  /\ checked' = checked
  /\ asked' \subseteq Workflows
  /\ \A v \in Workflows : place[v] = "none" =>
       place'[v] = "none" /\ told'[v] = told[v] /\ (v \in asked' => v \in asked)

LEMMA OneQuiet ==
  ASSUME Dfsp!TypeOK, NEW w \in Workflows, place[w] # "none", NEW next,
         \/ UNCHANGED place
         \/ Dfsp!Die
         \/ place' = [place EXCEPT ![w] = next],
         told' \in {told} \union {[told EXCEPT ![w] = @ \union {news}] : news \in {"accepted", "completed"}},
         asked' \subseteq asked \union {w},
         checked' = checked
  PROVE  Quiet
<1>1. \A v \in Workflows : place[v] = "none" => v # w /\ place'[v] = "none"
  BY DEF Dfsp!TypeOK, Dfsp!Die, Dfsp!Running
<1>2. \A v \in Workflows : v # w => told'[v] = told[v]
  BY DEF Dfsp!TypeOK
<1>3. asked' \subseteq Workflows
  BY DEF Dfsp!TypeOK
<1> QED
  BY <1>1, <1>2, <1>3 DEF Quiet

LEMMA FailQuiet ==
  ASSUME Dfsp!TypeOK, NEW w \in Workflows, place[w] # "none",
         \/ \E stored : Dfsp!Catch(w, stored)
         \/ \E state : Dfsp!SaveFails(w, state)
         \/ Dfsp!Warn(w)
  PROVE  Quiet
<1>1. \/ \E stored : Dfsp!Catch(w, stored)
      \/ Dfsp!Warn(w)
  BY DEF Dfsp!SaveFails
<1>2. /\ \E next : \/ Dfsp!Die
                   \/ place' = [place EXCEPT ![w] = next]
      /\ UNCHANGED <<asked, checked, told>>
  BY <1>1 DEF Dfsp!Catch, Dfsp!Warn, Dfsp!SendError
<1> QED
  BY <1>2, OneQuiet

\* What DfspSteps does besides receiving.
LEMMA DfspQuiet ==
  ASSUME Dfsp!TypeOK, DfspSteps, ~ \E w \in Workflows : Received(w)
  PROVE  Quiet
<1>1. CASE Dfsp!Crash
  BY <1>1 DEF Dfsp!Crash, Dfsp!Die, Dfsp!Running, Dfsp!TypeOK, Quiet
<1>2. ASSUME NEW w \in Workflows, Dfsp!ValidateDone(w) \/ Dfsp!NotifyDone(w) \/ Dfsp!QuoteDone(w)
      PROVE  Quiet
  BY <1>2, OneQuiet, FailQuiet DEF Dfsp!ValidateDone, Dfsp!NotifyDone, Dfsp!QuoteDone, Dfsp!Enter
<1>3. ASSUME NEW w \in Workflows, Dfsp!TransferDone(w) \/ Dfsp!PatchDone(w) PROVE Quiet
  BY <1>3, OneQuiet, FailQuiet DEF Dfsp!TransferDone, Dfsp!PatchDone, Dfsp!Enter
<1>4. ASSUME NEW w \in Workflows,
             Dfsp!CallFails(w) \/ Dfsp!GiveUp(w) \/ Dfsp!WarningDone(w) \/ Dfsp!ReportDone(w)
      PROVE  Quiet
  BY <1>4, OneQuiet, FailQuiet DEF Dfsp!CallFails, Dfsp!GiveUp, Dfsp!WarningDone, Dfsp!ReportDone
<1>5. ASSUME NEW w \in Workflows, NEW verdict, Dfsp!VerificationPut(w, verdict) PROVE Quiet
  BY <1>5, OneQuiet, FailQuiet DEF Dfsp!VerificationPut, Dfsp!Enter
<1>6. ASSUME NEW w \in Workflows, Dfsp!Commit(w) PROVE Quiet
  BY <1>6 DEF Dfsp!Commit, Dfsp!TypeOK, Quiet
<1> QED
  BY <1>1, <1>2, <1>3, <1>4, <1>5, <1>6 DEF DfspSteps

\* A reply may change what is checked, of its own workflow only.
LEMMA ReplyTied ==
  ASSUME Dfsp!TypeOK, Tied, NEW w \in Workflows, NEW reply, Dfsp!AuthorizationPut(w, reply),
         UNCHANGED pispVars,
         reply # "error" => \E a \in approvals : a.auth = w /\ (reply = "signed" => a.signed = w)
  PROVE  Tied'
<1>1. CASE Quiet
  BY <1>1 DEF Quiet, Tied, pispVars
<1>2. CASE /\ reply \in {"signed", "forged"}
           /\ Dfsp!Enter(w, "authorizationReceived", "verify")
           /\ checked' = [checked EXCEPT ![w] = reply]
           /\ UNCHANGED <<asked, ordered, committed, told>>
  <2>1. place[w] = "authorize"
    BY DEF Dfsp!AuthorizationPut
  <2>2. checked'[w] = reply /\ \A v \in Workflows \ {w} : checked'[v] = checked[v] /\ place'[v] = place[v]
    BY <1>2 DEF Dfsp!TypeOK, Dfsp!Enter
  <2>3. posts' = posts /\ approvals' = approvals /\ asked' = asked /\ told' = told
    BY <1>2 DEF pispVars
  <2> QED
    BY <1>2, <2>1, <2>2, <2>3 DEF Tied
<1> QED
  BY <1>1, <1>2, FailQuiet DEF Dfsp!AuthorizationPut

-----------------------------------------------------------------------------
(* The PISP's side of the tie: it takes nothing back that it sent.         *)

LEMMA PispSends ==
  ASSUME [Pisp!Next]_Pisp!vars
  PROVE  posts \subseteq posts' /\ approvals \subseteq approvals'
<1>1. CASE UNCHANGED Pisp!vars
  BY <1>1 DEF Pisp!vars
<1>2. ASSUME NEW r \in Requests, Pisp!Arrive(r) PROVE UNCHANGED <<posts, approvals>>
  BY <1>2 DEF Pisp!Arrive, Pisp!Lookup, Pisp!Initiate, Pisp!Approve, Pisp!Load
<1>3. ASSUME NEW r \in Requests, Pisp!Step(r) PROVE posts \subseteq posts' /\ approvals \subseteq approvals'
  BY <1>3 DEF Pisp!Step, Pisp!ReadFails, Pisp!LookupConflict, Pisp!LookupCreate, Pisp!LookupDone, Pisp!LookupFails,
       Pisp!RunAbsent, Pisp!RunRefused, Pisp!RunStart, Pisp!RunInitiate, Pisp!RunApprove, Pisp!RunOver, Pisp!Start
<1>4. ASSUME NEW r \in Requests, NEW p \in Pisp!Phases, Pisp!SendFails(r, p) \/ Pisp!TimerExpires(r, p)
      PROVE  UNCHANGED <<posts, approvals>>
  BY <1>4 DEF Pisp!SendFails, Pisp!TimerExpires, Pisp!GiveUp
<1>5. Pisp!DfspAnswers \/ Pisp!Crash => UNCHANGED <<posts, approvals>>
  BY DEF Pisp!DfspAnswers, Pisp!TransactionPut, Pisp!AuthorizationPost, Pisp!TransactionPatch, Pisp!TransactionError,
         Pisp!Deliver, Pisp!Crash
<1> QED
  BY <1>1, <1>2, <1>3, <1>4, <1>5 DEF Pisp!Next

-----------------------------------------------------------------------------
(* Each step of the flow is a step of both sides.                          *)

\* The DFSP's side needs no invariant: the flow only restricts when its steps occur.
LEMMA DfspStep == [Next]_vars => [Dfsp!Next]_Dfsp!vars
<1>1. UNCHANGED dfspVars => UNCHANGED Dfsp!vars
  BY DEF dfspVars, Dfsp!vars
<1>2. ASSUME DfspSteps PROVE Dfsp!Next
  BY <1>2 DEF DfspSteps, Received, Dfsp!Next, Dfsp!Step, Dfsp!Peers
<1>3. ASSUME ToDfsp PROVE Dfsp!Next
  <2>1. PICK w \in Workflows, reply \in {"signed", "forged", "rejected", "error"} : Dfsp!AuthorizationPut(w, reply)
    BY <1>3 DEF ToDfsp, Reply, Undelivered
  <2> QED
    BY <2>1 DEF Dfsp!Next, Dfsp!Peers, Dfsp!Replies
<1> QED
  BY <1>1, <1>2, <1>3 DEF Next, PispSteps, ToPisp, ErrorToPisp, vars

\* The PISP's side needs to know that the DFSP answers only what it was sent.
LEMMA PispStep ==
  ASSUME Dfsp!Causes, Tied, [Next]_vars
  PROVE  [Pisp!Next]_Pisp!vars
<1>1. UNCHANGED pispVars => UNCHANGED Pisp!vars
  BY DEF pispVars, Pisp!vars
<1>2. CASE PispSteps
  BY <1>2 DEF PispSteps, Pisp!Next
<1>3. CASE ToPisp
  <2>1. PICK w \in Workflows :
          \/ "accepted" \in told[w] /\ Pisp!Deliver("put", "ok")
          \/ w \in asked /\ Pisp!Deliver("auth", w)
          \/ "completed" \in told[w] /\ Pisp!Deliver("approval", "ok")
    BY <1>3 DEF ToPisp
  <2>2. told[w] # {} => posts # {}
    BY DEF Tied
  <2>3. w \in asked => w \in Pisp!Issued
    BY DEF Tied, Pisp!Issued
  <2>4. "completed" \in told[w] => \E a \in approvals : a.signed = a.auth
    <3>1. "completed" \in told[w] => checked[w] = "signed"
      BY DEF Dfsp!Causes
    <3> QED
      BY <3>1 DEF Tied
  <2> QED
    BY <2>1, <2>2, <2>3, <2>4 DEF Pisp!Next, Pisp!DfspAnswers, Pisp!TransactionPut, Pisp!AuthorizationPost,
         Pisp!TransactionPatch
<1>4. CASE ErrorToPisp
  BY <1>4 DEF ErrorToPisp, Pisp!Next, Pisp!DfspAnswers
<1> QED
  BY <1>1, <1>2, <1>3, <1>4 DEF Next, DfspSteps, ToDfsp, vars

LEMMA NextTied ==
  ASSUME Dfsp!TypeOK, Dfsp!Causes, Tied, [Next]_vars
  PROVE  Tied'
<1>1. CASE UNCHANGED dfspVars
  <2>1. posts \subseteq posts' /\ approvals \subseteq approvals'
    BY PispStep, PispSends
  <2> QED
    BY <1>1, <2>1 DEF Tied, dfspVars
<1>2. ASSUME NEW w \in Workflows, Received(w), UNCHANGED pispVars PROVE Tied'
  BY <1>2 DEF Received, Dfsp!Receive, Dfsp!TypeOK, Tied, pispVars
<1>3. CASE DfspSteps /\ ~ \E w \in Workflows : Received(w)
  <2>1. Quiet /\ UNCHANGED pispVars
    BY <1>3, DfspQuiet DEF DfspSteps
  <2> QED
    BY <2>1 DEF Quiet, Tied, pispVars
<1>4. CASE ToDfsp
  <2>1. PICK w \in Workflows, reply \in {"signed", "forged", "rejected", "error"} :
          /\ Dfsp!AuthorizationPut(w, reply)
          /\ reply # "error" => \E a \in approvals : a.auth = w /\ (reply = "signed" => a.signed = w)
    BY <1>4 DEF ToDfsp, Reply, Undelivered
  <2> QED
    BY <1>4, <2>1, ReplyTied DEF ToDfsp
<1> QED
  BY <1>1, <1>2, <1>3, <1>4 DEF Next, PispSteps, DfspSteps, ToPisp, ErrorToPisp, vars, dfspVars

-----------------------------------------------------------------------------
(* Theorems.                                                               *)

LEMMA Bound == Spec => [](D!IInv /\ Tied)
<1>1. D!DfspTransactionAssumption
  BY TransactionFlowAssumption DEF D!DfspTransactionAssumption
<1>2. Init => D!Init /\ Tied
  BY DfspSame DEF Init, Tied, Dfsp!Init
<1>3. [Next]_vars => [D!Next]_D!vars
  BY DfspStep, DfspSame
<1>4. D!Init => D!IInv
  BY <1>1, D!InitIInv
<1>5. D!IInv /\ [D!Next]_D!vars => D!IInv'
  BY <1>1, D!NextIInv
<1>6. D!IInv /\ Tied /\ [Next]_vars => D!IInv' /\ Tied'
  BY <1>3, <1>5, NextTied, DfspSame
<1> QED
  BY <1>2, <1>4, <1>6, PTL DEF Spec

\* The PISP's module describes all that the PISP meets here: what is proved and
\* checked of PispTransaction holds with this DFSP.
THEOREM PispIsMet == Spec => PispExpects
<1>1. Init => Pisp!Init
  BY DEF Init
<1>2. D!IInv /\ Tied /\ [Next]_vars => [Pisp!Next]_Pisp!vars
  BY PispStep, DfspSame
<1> QED
  BY <1>1, <1>2, Bound, PTL DEF Spec, PispExpects, Pisp!Spec

\* However requests overlap, retry and crash, and whatever messages are lost,
\* repeated or reordered: money moves only on terms that an answer has shown the
\* PISP's backend, and for which a signature made for these very terms was sent.
THEOREM Paid == Spec => []PaidForWhatWasShown
<1>1. P!PispTransactionAssumption
  BY TransactionFlowAssumption DEF P!PispTransactionAssumption
<1>2. Pisp!Init => P!Init
  BY PispSame
<1>3. [Pisp!Next]_Pisp!vars => [P!Next]_P!vars
  BY PispSame
<1>4. Spec => P!Spec
  BY <1>2, <1>3, PispIsMet, PTL DEF PispExpects, Pisp!Spec, P!Spec
<1>5. P!Spec => []P!SignedWasShown
  BY <1>1, P!Signed, PTL
<1>6. P!SignedWasShown /\ D!IInv /\ Tied => PaidForWhatWasShown
  <2> SUFFICES ASSUME P!SignedWasShown, D!IInv, Tied, NEW w \in committed
               PROVE  /\ \E a \in approvals : a.auth = w /\ a.signed = w
                      /\ \E r \in Requests : answer[r] = "authorization" /\ data[r].shown = w
    BY DEF PaidForWhatWasShown
  <2>1. Pisp!SignedWasShown /\ Dfsp!TypeOK /\ Dfsp!Causes
    BY DfspSame, PispSame
  <2>2. w \in Workflows /\ checked[w] = "signed"
    BY <2>1 DEF Dfsp!TypeOK, Dfsp!Causes
  <2>3. PICK a \in approvals : a.auth = w /\ a.signed = w
    BY <2>2 DEF Tied
  <2>4. w \in Pisp!Shown
    BY <2>1, <2>2, <2>3, TransactionFlowAssumption DEF Pisp!SignedWasShown
  <2> QED
    BY <2>3, <2>4 DEF Pisp!Shown
<1> QED
  BY <1>4, <1>5, <1>6, Bound, PTL

-----------------------------------------------------------------------------
(* A status without an error, for a client that waits for each answer.      *)

\* Money that has moved stays moved.
LEMMA CommittedStays == [Dfsp!Next]_Dfsp!vars => committed \subseteq committed'
<1>1. ASSUME NEW w \in Workflows, Dfsp!Step(w) PROVE UNCHANGED committed
  BY <1>1 DEF Dfsp!Step, Dfsp!Receive, Dfsp!ValidateDone, Dfsp!NotifyDone, Dfsp!QuoteDone,
       Dfsp!TransferDone, Dfsp!PatchDone, Dfsp!CallFails, Dfsp!GiveUp, Dfsp!WarningDone, Dfsp!ReportDone,
       Dfsp!Catch, Dfsp!SaveFails, Dfsp!Warn
<1>2. ASSUME NEW w \in Workflows, Dfsp!Peers(w) PROVE committed \subseteq committed'
  BY <1>2 DEF Dfsp!Peers, Dfsp!AuthorizationPut, Dfsp!VerificationPut, Dfsp!Commit,
       Dfsp!Catch, Dfsp!SaveFails, Dfsp!Warn
<1>3. Dfsp!Crash => UNCHANGED committed
  BY DEF Dfsp!Crash
<1>4. UNCHANGED Dfsp!vars => UNCHANGED committed
  BY DEF Dfsp!vars
<1> QED
  BY <1>1, <1>2, <1>3, <1>4 DEF Dfsp!Next

\* A step of the flow brings no status to the PISP, or it brings the success of a
\* workflow that has committed.
LEMMA StatusStep ==
  ASSUME P!PispTransactionAssumption, P!IInv, P!OneByOne, D!IInv, Tied,
         PaidForWhatWasShown, [Next]_vars
  PROVE  \/ P!StatusKept
         \/ /\ kvs.auth \in committed
            /\ kvs'.auth = kvs.auth
            /\ \A r \in Requests : answer'[r] = "status" =>
                 \/ answer[r] = "status" /\ data'[r].auth = data[r].auth
                 \/ data'[r].auth = kvs.auth
<1>0. Dfsp!Causes /\ Dfsp!TypeOK
  BY DfspSame
<1>1. CASE UNCHANGED pispVars
  <2>1. UNCHANGED P!vars
    BY <1>1 DEF pispVars, P!vars
  <2> QED
    BY <2>1, P!OtherStatusKept
<1>2. CASE PispSteps
  <2>1. \/ \E r \in Requests : \/ P!Arrive(r) \/ P!Step(r)
                               \/ \E p \in P!Phases : P!SendFails(r, p) \/ P!TimerExpires(r, p)
        \/ P!Crash
    BY <1>2, PispSameSteps DEF PispSteps
  <2> QED
    BY <2>1, P!OtherStatusKept
<1>3. ASSUME NEW w \in Workflows, w \in asked, Pisp!Deliver("auth", w)
      PROVE  P!StatusKept
  <2>1. P!AuthorizationPost
    BY <1>3, PispSameSteps DEF Tied, P!AuthorizationPost, P!Issued
  <2> QED
    BY <2>1, P!OtherStatusKept
<1>4. CASE Pisp!Deliver("put", "ok")
  BY <1>4, PispSameSteps, P!OtherStatusKept
<1>5. CASE ErrorToPisp
  <2>1. P!TransactionError
    BY <1>5, PispSameSteps DEF ErrorToPisp
  <2> QED
    BY <2>1, P!OtherStatusKept
\* What a committed workflow was paid for is what the client was shown, hence what
\* its record holds.
<1>6. ASSUME NEW w \in Workflows, "completed" \in told[w], Pisp!Deliver("approval", "ok")
      PROVE  \/ P!StatusKept
             \/ /\ kvs.auth \in committed
                /\ kvs'.auth = kvs.auth
                /\ \A r \in Requests : answer'[r] = "status" =>
                     \/ answer[r] = "status" /\ data'[r].auth = data[r].auth
                     \/ data'[r].auth = kvs.auth
  <2>1. w \in committed
    BY <1>0, <1>6 DEF Dfsp!Causes
  <2>2. kvs.auth = w
    <3>1. PICK r \in Requests : answer[r] = "authorization" /\ data[r].shown = w
      BY <2>1 DEF PaidForWhatWasShown
    <3> QED
      BY <3>1 DEF P!OneByOne, P!ShownIsStored
  <2>3. P!Deliver("approval", "ok") /\ "approval" \in P!Phases
    BY <1>6, PispSameSteps DEF P!Phases
  <2>4. \/ P!StatusKept
        \/ /\ kvs'.auth = kvs.auth
           /\ \A r \in Requests : answer'[r] = "status" =>
                \/ answer[r] = "status" /\ data'[r].auth = data[r].auth
                \/ data'[r].auth = kvs.auth
    BY <2>3, P!DeliverStatus
  <2> QED
    BY <2>1, <2>2, <2>4
<1> QED
  BY <1>1, <1>2, <1>3, <1>4, <1>5, <1>6 DEF Next, DfspSteps, ToDfsp, ToPisp, vars

LEMMA NextPaid ==
  ASSUME P!PispTransactionAssumption, P!IInv, P!OneByOne, D!IInv, Tied, PaidForWhatWasShown,
         RecordPaid, StatusMeansPaid, [Next]_vars
  PROVE  RecordPaid' /\ StatusMeansPaid'
<1>1. committed \subseteq committed'
  BY DfspStep, CommittedStays
<1>2. \/ P!StatusKept
      \/ /\ kvs.auth \in committed
         /\ kvs'.auth = kvs.auth
         /\ \A r \in Requests : answer'[r] = "status" =>
              \/ answer[r] = "status" /\ data'[r].auth = data[r].auth
              \/ data'[r].auth = kvs.auth
  BY StatusStep
<1>3. CASE P!StatusKept
  BY <1>1, <1>3 DEF P!StatusKept, P!PaidUp, RecordPaid, StatusMeansPaid
<1>4. CASE ~P!StatusKept
  BY <1>1, <1>2, <1>4 DEF RecordPaid, StatusMeansPaid
<1> QED
  BY <1>3, <1>4

\* What the PISP's own module proves of it.
LEMMA PispBound ==
  /\ Spec => [](P!IInv /\ P!SignedWasShown)
  /\ Spec /\ ~Concurrent => []P!OneByOne
<1>1. P!PispTransactionAssumption
  BY TransactionFlowAssumption DEF P!PispTransactionAssumption
<1>2. Pisp!Init => P!Init
  BY PispSame
<1>3. [Pisp!Next]_Pisp!vars => [P!Next]_P!vars
  BY PispSame
<1>4. Spec => P!Spec
  BY <1>2, <1>3, PispIsMet, PTL DEF PispExpects, Pisp!Spec, P!Spec
<1>5. P!Spec => []P!IInv
  BY <1>1, P!Invariance, PTL
<1>6. P!Spec => []P!SignedWasShown
  BY <1>1, P!Signed, PTL
<1>7. P!Spec /\ ~Concurrent => []P!OneByOne
  BY <1>1, P!OneByOneInvariance, PTL
<1> QED
  BY <1>4, <1>5, <1>6, <1>7, PTL

\* For a backend that waits for each answer: however messages are lost, repeated,
\* delayed or reordered, and whatever fails, a status without an error is given
\* only when the money has moved, on the terms that the answered record holds.
THEOREM StatusPaid == Spec /\ ~Concurrent => []StatusMeansPaid
<1>1. P!PispTransactionAssumption
  BY TransactionFlowAssumption DEF P!PispTransactionAssumption
<1>2. Init => RecordPaid /\ StatusMeansPaid
  BY DEF Init, Pisp!Init, Pisp!NoData, RecordPaid, StatusMeansPaid
<1>3. /\ P!IInv /\ P!OneByOne /\ D!IInv /\ Tied /\ PaidForWhatWasShown
      /\ RecordPaid /\ StatusMeansPaid /\ [Next]_vars
      => RecordPaid' /\ StatusMeansPaid'
  BY <1>1, NextPaid
<1> QED
  BY <1>2, <1>3, PispBound, Bound, Paid, PTL DEF Spec

\* For a backend that waits for each answer: all the money that moves for a transaction
\* moves for the one authorization its record holds, however often an initiation or an
\* approval is repeated and however messages are lost, repeated or reordered.
THEOREM PaidOnlyOnce == Spec /\ ~Concurrent => []PaidOnce
<1>1. P!OneByOne /\ PaidForWhatWasShown => PaidOnce
  <2> SUFFICES ASSUME P!OneByOne, PaidForWhatWasShown, NEW w \in committed
               PROVE  w = kvs.auth
    BY DEF PaidOnce
  <2>1. PICK r \in Requests : answer[r] = "authorization" /\ data[r].shown = w
    BY DEF PaidForWhatWasShown
  <2> QED
    BY <2>1 DEF P!OneByOne, P!ShownIsStored
<1> QED
  BY <1>1, PispBound, Paid, PTL

-----------------------------------------------------------------------------
(* The terms of an authorization request (Fees), for every quote.           *)

LEMMA MoneyType ==
  ASSUME NEW m \in Money \union {Absent}
  PROVE  m.amount \in Nat
<1>1. \A n \in Amounts : n \in Nat
  BY FeesAssumption
<1>2. CASE m \in Money
  BY <1>1, <1>2 DEF Money
<1>3. CASE m = Absent
  BY <1>3 DEF Absent
<1> QED
  BY <1>2, <1>3

\* toFixed(2) is off by half a cent at most, gives whole cents, and keeps them.
LEMMA ToFixedIsNear ==
  ASSUME NEW x \in Int, NEW c \in ToFixed(x)
  PROVE  /\ c \in Int
         /\ c % Cent = 0
         /\ -HalfCent <= x - c /\ x - c <= HalfCent
         /\ x % Cent = 0 => c = x
         /\ x >= 0 => c >= 0
<1>1. PICK k \in Int : k = x \div 100 /\ 100 * k <= x /\ x < 100 * k + 100
  OBVIOUS
<1>2. c \in {100 * k, 100 * k + 100} /\ x - c <= 50 /\ c - x <= 50
  BY <1>1 DEF ToFixed, Cent, HalfCent
<1>3. c % 100 = 0
  BY <1>2
<1>4. x % 100 = 0 => x = 100 * k
  BY <1>1
<1> QED
  BY <1>1, <1>2, <1>3, <1>4 DEF Cent, HalfCent

LEMMA SumIsNear ==
  ASSUME NEW a \in Nat, NEW b \in Nat, NEW c \in Nat, NEW r \in ToFixed(a - b + c)
  PROVE  /\ r \in Int
         /\ -HalfCent <= a - b + c - r /\ a - b + c - r <= HalfCent
         /\ a % Cent = 0 /\ b % Cent = 0 /\ c % Cent = 0 => r = a - b + c
<1>1. PICK x \in Int : x = a - b + c
  OBVIOUS
<1>2. a % 100 = 0 /\ b % 100 = 0 /\ c % 100 = 0 => x % 100 = 0
  BY <1>1
<1>3. /\ r \in Int
      /\ -HalfCent <= x - r /\ x - r <= HalfCent
      /\ x % Cent = 0 => r = x
  BY <1>1, ToFixedIsNear
<1> QED
  BY <1>1, <1>2, <1>3 DEF Cent

\* What an authorization request may contain.
LEMMA TermsAre ==
  ASSUME NEW q \in Quotes, NEW t \in Terms(q[1], q[2], q[3]), t # <<"error">>
  PROVE  \E r, f \in Int :
           /\ t = <<r, f>>
           /\ r \in PayeeReceives(q[1], q[2], q[3])
           /\ q[1].amount - r >= 0
           /\ f \in ToFixed(q[1].amount - r)
<1>1. /\ q[1].amount \in Nat
      /\ q[1].amount - q[2].amount + q[3].amount \in Int
  BY MoneyType DEF Quotes
<1>2. PICK r \in PayeeReceives(q[1], q[2], q[3]) :
        ~Refused(q[1], r) /\ \E f \in Fee(q[1], r) : t = <<r, f>>
  BY DEF Terms
<1>3. PICK f \in Fee(q[1], r) : t = <<r, f>>
  BY <1>2
<1>4. r \in Int
  BY <1>1, <1>2, ToFixedIsNear DEF PayeeReceives
<1>5. q[1].amount - r \in Int /\ q[1].amount - r >= 0 /\ f \in ToFixed(q[1].amount - r)
  BY <1>1, <1>2, <1>4 DEF Refused, Fee
<1>6. f \in Int
  BY <1>5, ToFixedIsNear
<1> QED
  BY <1>2, <1>3, <1>4, <1>5, <1>6

\* Whatever the amounts of a quote are, the terms that the user is shown add up
\* (feeCalculator.ts).
LEMMA FeesAddUp == TermsAddUp
<1> SUFFICES ASSUME NEW q \in Quotes, NEW t \in Terms(q[1], q[2], q[3]), t # <<"error">>
             PROVE  /\ t[2] >= 0
                    /\ -HalfCent <= q[1].amount - (t[1] + t[2])
                    /\ q[1].amount - (t[1] + t[2]) <= HalfCent
                    /\ WholeCents(q[1].amount) => q[1].amount - (t[1] + t[2]) = 0
  BY DEF TermsAddUp
<1> DEFINE ta == q[1].amount
           sum == ta - q[2].amount + q[3].amount
<1>1. ta \in Nat /\ sum \in Int
  BY MoneyType DEF Quotes
<1>2. PICK r, f \in Int : /\ t = <<r, f>> /\ r \in PayeeReceives(q[1], q[2], q[3])
                         /\ ta - r >= 0 /\ f \in ToFixed(ta - r)
  BY TermsAre
<1>3. r = ta \/ r % Cent = 0
  BY <1>1, <1>2, ToFixedIsNear DEF PayeeReceives
<1>4. /\ f >= 0
      /\ -HalfCent <= ta - r - f /\ ta - r - f <= HalfCent
      /\ (ta - r) % Cent = 0 => f = ta - r
  BY <1>1, <1>2, ToFixedIsNear
<1>5. ta % Cent = 0 => (ta - r) % Cent = 0
  BY <1>1, <1>2, <1>3 DEF Cent
<1> QED
  BY <1>1, <1>2, <1>4, <1>5 DEF WholeCents, HalfCent

\* Whatever the amounts, the fee that the user is shown is the net of fee and commission
\* (feeCalculator.ts).
LEMMA FeeShownIsNet == FeeIsNet
<1> SUFFICES ASSUME NEW q \in Quotes, NEW t \in Terms(q[1], q[2], q[3]), t # <<"error">>
             PROVE  LET net == q[2].amount - q[3].amount
                    IN /\ -Cent <= t[2] - net /\ t[2] - net <= Cent
                       /\ (\A i \in 1 .. 3 : WholeCents(q[i].amount)) => t[2] = net
  BY DEF FeeIsNet
<1> DEFINE ta == q[1].amount
           fee == q[2].amount
           com == q[3].amount
           whole == \A i \in 1 .. 3 : WholeCents(q[i].amount)
<1>1. ta \in Nat /\ fee \in Nat /\ com \in Nat
  BY MoneyType DEF Quotes
<1>2. PICK r, f \in Int : /\ t = <<r, f>> /\ r \in PayeeReceives(q[1], q[2], q[3])
                         /\ ta - r >= 0 /\ f \in ToFixed(ta - r)
  BY TermsAre
<1>3. whole => ta % 100 = 0 /\ fee % 100 = 0 /\ com % 100 = 0
  BY DEF WholeCents, Cent
<1>5. /\ -HalfCent <= ta - fee + com - r /\ ta - fee + com - r <= HalfCent
      /\ whole => r = ta - fee + com
  <2>1. CASE q[2] = Absent /\ q[3] = Absent
    BY <1>2, <1>1, <2>1 DEF PayeeReceives, Absent, HalfCent
  <2>2. CASE r \in ToFixed(ta - fee + com)
    BY <1>1, <1>3, <2>2, SumIsNear DEF Cent
  <2> QED
    BY <1>2, <2>1, <2>2 DEF PayeeReceives
<1>6. /\ -HalfCent <= ta - r - f /\ ta - r - f <= HalfCent
      /\ (ta - r) % Cent = 0 => f = ta - r
  BY <1>1, <1>2, ToFixedIsNear
<1>7. whole => (ta - r) % 100 = 0
  BY <1>1, <1>2, <1>3, <1>5
<1>8. -100 <= f - (fee - com) /\ f - (fee - com) <= 100
  BY <1>1, <1>2, <1>5, <1>6 DEF HalfCent
<1>9. whole => f = fee - com
  BY <1>1, <1>2, <1>5, <1>6, <1>7 DEF Cent
<1> QED
  BY <1>2, <1>8, <1>9 DEF Cent

\* Whatever the amounts, a quote is refused for its commission or its currencies only
\* (feeCalculator.ts).
LEMMA RefusedForCommission == ErrorsAreDeserved
<1> SUFFICES ASSUME NEW q \in Quotes
             PROVE  LET net == q[2].amount - q[3].amount
                        error == <<"error">> \in Terms(q[1], q[2], q[3])
                        mixed == \E i \in 2 .. 3 : Mismatch(q[i], q[1])
                    IN /\ mixed => Terms(q[1], q[2], q[3]) = {<<"error">>}
                       /\ error /\ ~mixed => net < HalfCent
                       /\ ~mixed /\ (\A i \in 1 .. 3 : WholeCents(q[i].amount)) =>
                            (error <=> net < 0)
  BY DEF ErrorsAreDeserved
<1> DEFINE ta == q[1].amount
           fee == q[2].amount
           com == q[3].amount
           error == <<"error">> \in Terms(q[1], q[2], q[3])
           mixed == \E i \in 2 .. 3 : Mismatch(q[i], q[1])
           whole == \A i \in 1 .. 3 : WholeCents(q[i].amount)
<1>1. ta \in Nat /\ fee \in Nat /\ com \in Nat /\ ta - fee + com \in Int
  BY MoneyType DEF Quotes
<1>2. mixed <=> Mismatch(q[2], q[1]) \/ Mismatch(q[3], q[1])
  OBVIOUS
<1>3. mixed => Terms(q[1], q[2], q[3]) = {<<"error">>}
  BY <1>2 DEF Terms
<1>4. ~mixed => (error <=> \E r \in PayeeReceives(q[1], q[2], q[3]) : Refused(q[1], r))
  <2>1. \A r, f : <<r, f>> # <<"error">>
    OBVIOUS
  <2> QED
    BY <1>2, <2>1 DEF Terms
<1>5. ASSUME NEW r \in PayeeReceives(q[1], q[2], q[3]), Refused(q[1], r)
      PROVE  fee - com < HalfCent /\ (whole => fee - com < 0)
  <2>1. r \in ToFixed(ta - fee + com)
    BY <1>1, <1>5 DEF PayeeReceives, Refused
  <2>2. /\ r \in Int /\ -HalfCent <= ta - fee + com - r
        /\ ta % Cent = 0 /\ fee % Cent = 0 /\ com % Cent = 0 => r = ta - fee + com
    BY <1>1, <2>1, SumIsNear
  <2>3. ta - r < 0
    BY <1>5 DEF Refused
  <2>4. fee - com < HalfCent
    BY <1>1, <2>2, <2>3 DEF HalfCent
  <2>5. whole => ta % Cent = 0 /\ fee % Cent = 0 /\ com % Cent = 0
    BY DEF WholeCents
  <2>6. whole => fee - com < 0
    BY <1>1, <2>2, <2>3, <2>5
  <2> QED
    BY <2>4, <2>6
<1>6. ASSUME whole, fee - com < 0
      PROVE  \E r \in PayeeReceives(q[1], q[2], q[3]) : Refused(q[1], r)
  <2>1. ta % 100 = 0 /\ fee % 100 = 0 /\ com % 100 = 0
    BY <1>6 DEF WholeCents, Cent
  <2>2. (ta - fee + com) % 100 = 0
    BY <1>1, <2>1
  <2>3. ((ta - fee + com) \div 100) * 100 = ta - fee + com
    BY <1>1, <2>2
  <2>4. ta - fee + com \in ToFixed(ta - fee + com)
    BY <1>1, <2>3 DEF ToFixed, Cent, HalfCent
  <2>5. q[3] # Absent
    BY <1>1, <1>6 DEF Absent
  <2> QED
    BY <1>1, <1>6, <2>4, <2>5 DEF PayeeReceives, Refused
<1> QED
  BY <1>1, <1>3, <1>4, <1>5, <1>6

\* For every quote, whatever its amounts, the terms that the user is shown are right.
THEOREM TermsShown == Spec => []ShownTermsAreRight
<1>1. ShownTermsAreRight
  BY FeesAddUp, FeeShownIsNet, RefusedForCommission DEF ShownTermsAreRight
<1> QED
  BY <1>1, PTL
=============================================================================
