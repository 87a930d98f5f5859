----------------------- MODULE DfspTransactionProofs -----------------------
(***************************************************************************)
(* Proofs about DfspTransaction, for any number of workflows on one         *)
(* transaction request, with any faults: the inductive invariant, the       *)
(* truth of the stored record, and that the workflows keep the promise of   *)
(* Payment.                                                                *)
(***************************************************************************)
EXTENDS DfspTransaction, TLAPS

USE DfspTransactionAssumption

-----------------------------------------------------------------------------
(* Steps that end in an error.                                             *)

LEMMA RecordType ==
  ASSUME NEW w \in Workflows, NEW state \in States
  PROVE  /\ Record(w, state) \in [state : States, of : Workflows \union {"none"}]
         /\ Record(w, state).state = state /\ Record(w, state).of = w
BY DEF Record

\* The catch block of run(), whatever the last transition has left in the store.
LEMMA CatchIInv ==
  ASSUME IInv, NEW w \in Workflows, pc[w] \in Running \ {"reporting"},
         NEW stored \in [state : States, of : Workflows \union {"none"}],
         Truthful(stored), stored = kvs \/ stored.of = w,
         Catch(w, stored)
  PROVE  IInv'
<1>1. UNCHANGED <<asked, checked, ordered, committed, told>>
  BY DEF Catch
<1>2. /\ Record(w, "errored") \in [state : States, of : Workflows \union {"none"}]
      /\ Truthful(Record(w, "errored"))
  BY RecordType DEF States, Truthful, Notified, Authorized, Verified, Paid, Record
<1>3. errors[w] \in 0..1
  BY DEF IInv, TypeOK, FailedOnly, Running
<1>4. CASE kvs' = Record(w, "errored") /\ SendError(w, "reporting")
  <2>1. TypeOK'
    BY <1>1, <1>2, <1>3, <1>4 DEF IInv, TypeOK, SendError, Running
  <2>2. /\ pc'[w] = "reporting" /\ errors'[w] > 0
        /\ \A v \in Workflows : v # w => pc'[v] = pc[v] /\ errors'[v] = errors[v]
    BY <1>3, <1>4 DEF IInv, TypeOK, SendError
  <2>3. InPlace' /\ Causes'
    BY <1>1, <2>2 DEF IInv, InPlace, Causes
  <2>4. FailedOnly'
    BY <2>2 DEF IInv, FailedOnly
  <2>5. PaidNotFailed' /\ RecordTruthful'
    BY <1>4 DEF PaidNotFailed, RecordTruthful, Truthful, Record, Notified, Authorized, Verified, Paid
  <2> QED
    BY <2>1, <2>3, <2>4, <2>5 DEF IInv
<1>5. CASE kvs' \in {stored, Record(w, "errored")} /\ Die /\ UNCHANGED errors
  <2>1. TypeOK'
    BY <1>1, <1>2, <1>5 DEF IInv, TypeOK, Die, Ended
  <2>2. \A v \in Workflows : IF pc[v] \in Running THEN pc'[v] = "dead" ELSE pc'[v] = pc[v]
    BY <1>5 DEF Die
  <2>3. InPlace' /\ Causes'
    BY <1>1, <2>2 DEF IInv, InPlace, Causes, Running
  <2>4. FailedOnly'
    BY <1>5, <2>2 DEF IInv, FailedOnly, Running
  <2>5. PaidNotFailed'
    <3>1. CASE kvs' = kvs
      BY <2>2, <3>1 DEF IInv, TypeOK, PaidNotFailed, RecordTruthful, Running, Paid
    <3>2. CASE kvs'.of = w
      BY <2>2, <3>2 DEF PaidNotFailed, Running
    <3> QED
      BY <1>5, <3>1, <3>2 DEF Record
  <2>6. RecordTruthful'
    BY <1>1, <1>2, <1>5 DEF RecordTruthful, Truthful
  <2> QED
    BY <2>1, <2>3, <2>4, <2>5, <2>6 DEF IInv
<1> QED
  BY <1>4, <1>5 DEF Catch

\* The same when it was the save after a transition that failed.
LEMMA SaveFailsIInv ==
  ASSUME IInv, NEW w \in Workflows, pc[w] \in Running \ {"reporting"},
         NEW state \in States, Truthful(Record(w, state)),
         SaveFails(w, state)
  PROVE  IInv'
<1>1. PICK stored \in {kvs, Record(w, state)} : Catch(w, stored)
  BY DEF SaveFails
<1>2. /\ stored \in [state : States, of : Workflows \union {"none"}]
      /\ Truthful(stored)
      /\ stored = kvs \/ stored.of = w
  BY RecordType DEF IInv, TypeOK, RecordTruthful
<1> QED
  BY <1>1, <1>2, CatchIInv

\* The report of a handler, after whatever it is that was saved before.
LEMMA WarnIInv ==
  ASSUME IInv, NEW w \in Workflows, pc[w] \in {"quote", "authorize", "verify"},
         UNCHANGED kvs \/ \E state \in States \ Paid :
                            kvs' = Record(w, state) /\ Truthful(Record(w, state)),
         Warn(w)
  PROVE  IInv'
<1>1. /\ UNCHANGED <<asked, checked, ordered, committed, told>>
      /\ pc' = [pc EXCEPT ![w] = "warning"]
      /\ errors' = [errors EXCEPT ![w] = @ + 1]
  BY DEF Warn, SendError
<1>2. errors[w] = 0
  BY DEF IInv, TypeOK, FailedOnly
<1>3. kvs' \in [state : States, of : Workflows \union {"none"}]
  BY RecordType DEF IInv, TypeOK
<1>4. TypeOK'
  BY <1>1, <1>2, <1>3 DEF IInv, TypeOK, Running
<1>5. /\ pc'[w] = "warning" /\ errors'[w] = 1
      /\ \A v \in Workflows : v # w => pc'[v] = pc[v] /\ errors'[v] = errors[v]
  BY <1>1, <1>2 DEF IInv, TypeOK
<1>6. InPlace' /\ Causes'
  BY <1>1, <1>5 DEF IInv, InPlace, Causes
<1>7. FailedOnly'
  BY <1>5 DEF IInv, FailedOnly
<1>8. PaidNotFailed' /\ RecordTruthful'
  <2>1. CASE UNCHANGED kvs
    <3>1. kvs.state \in Paid => kvs.of \in Workflows \ {w}
      BY DEF IInv, PaidNotFailed
    <3> QED
      BY <1>1, <1>5, <2>1, <3>1 DEF IInv, PaidNotFailed, RecordTruthful, Truthful
  <2>2. ASSUME NEW state \in States \ Paid, kvs' = Record(w, state), Truthful(Record(w, state))
        PROVE  PaidNotFailed' /\ RecordTruthful'
    BY <1>1, <2>2 DEF PaidNotFailed, RecordTruthful, Truthful, Record
  <2> QED
    BY <2>1, <2>2
<1> QED
  BY <1>4, <1>6, <1>7, <1>8 DEF IInv

-----------------------------------------------------------------------------
(* Steps that go on.                                                       *)

\* A transition is saved and the next one begins: what is left to show is what the
\* step has done for its own workflow.
LEMMA EnterIInv ==
  ASSUME IInv, TypeOK', NEW w \in Workflows, pc[w] \in Running \ {"warning", "reporting"},
         NEW state \in States, NEW next \in (Running \ {"warning", "reporting"}) \union {"done"},
         Enter(w, state, next),
         \A v \in Workflows \ {w} :
           /\ v \in asked' <=> v \in asked
           /\ checked'[v] = checked[v]
           /\ v \in ordered' <=> v \in ordered
           /\ told'[v] = told[v],
         UNCHANGED committed,
         Truthful(Record(w, state))',
         state \in Paid => next \in {"patch", "done"},
         next \in {"validate", "notify", "quote"} => w \notin asked',
         next \in {"validate", "notify", "quote", "authorize"} => checked'[w] = "none",
         next \in {"validate", "notify", "quote", "authorize", "verify"} => w \notin ordered',
         next = "transfer" => w \in ordered' /\ "completed" \notin told'[w],
         next = "patch" => "completed" \in told'[w],
         next \in {"notify", "quote", "authorize", "verify", "transfer", "patch"} => "accepted" \in told'[w],
         next = "authorize" => w \in asked',
         checked'[w] # "none" => w \in asked',
         w \in ordered' => checked'[w] = "signed",
         w \in committed => w \in ordered',
         "completed" \in told'[w] => w \in committed
  PROVE  IInv'
<1>1. /\ kvs' = Record(w, state) /\ pc' = [pc EXCEPT ![w] = next] /\ UNCHANGED errors
  BY DEF Enter
<1>2. pc'[w] = next /\ \A v \in Workflows : v # w => pc'[v] = pc[v]
  BY <1>1 DEF IInv, TypeOK
<1>3. InPlace'
  <2> SUFFICES ASSUME NEW v \in Workflows
      PROVE
        /\ pc'[v] \in {"none", "validate", "notify", "quote"} => v \notin asked'
        /\ pc'[v] \in {"none", "validate", "notify", "quote", "authorize"} => checked'[v] = "none"
        /\ pc'[v] \in {"none", "validate", "notify", "quote", "authorize", "verify"} => v \notin ordered'
        /\ pc'[v] = "transfer" => v \in ordered' /\ "completed" \notin told'[v]
        /\ pc'[v] = "patch" => "completed" \in told'[v]
        /\ pc'[v] \in {"notify", "quote", "authorize", "verify", "transfer", "patch"} => "accepted" \in told'[v]
        /\ pc'[v] = "authorize" => v \in asked'
    BY DEF InPlace
  <2>1. CASE v = w
    BY <1>2, <2>1 DEF Running
  <2>2. CASE v # w
    BY <1>2, <2>2 DEF IInv, InPlace
  <2> QED
    BY <2>1, <2>2
<1>4. Causes'
  BY DEF IInv, Causes
<1>5. FailedOnly'
  BY <1>1, <1>2 DEF IInv, TypeOK, FailedOnly, Running
<1>6. PaidNotFailed'
  BY <1>1, <1>2 DEF PaidNotFailed, Record
<1>7. RecordTruthful'
  BY <1>1 DEF RecordTruthful
<1> QED
  BY <1>3, <1>4, <1>5, <1>6, <1>7 DEF IInv

LEMMA ValidateDoneIInv ==
  ASSUME IInv, NEW w \in Workflows, ValidateDone(w)
  PROVE  IInv'
<1> DEFINE state == "transactionRequestIsValid"
<1>1. pc[w] = "validate" /\ state \in States /\ Truthful(Record(w, state))
  BY DEF ValidateDone, States, Truthful, Record, Notified, Authorized, Verified, Paid
<1>2. CASE Enter(w, state, "notify") /\ told' = [told EXCEPT ![w] = @ \union {"accepted"}]
           /\ UNCHANGED <<asked, checked, ordered, committed>>
  <2>1. TypeOK'
    BY <1>1, <1>2, RecordType DEF IInv, TypeOK, Enter, Running
  <2>2. told'[w] = told[w] \union {"accepted"} /\ \A v \in Workflows \ {w} : told'[v] = told[v]
    BY <1>2 DEF IInv, TypeOK
  <2>3. Truthful(Record(w, state))'
    BY DEF Truthful, Record, Notified, Authorized, Verified, Paid
  <2>4. w \notin asked /\ checked[w] = "none" /\ w \notin ordered
    BY <1>1 DEF IInv, InPlace
  <2> QED
    BY <1>1, <1>2, <2>1, <2>2, <2>3, <2>4, EnterIInv DEF IInv, Causes, Running, Paid
<1>3. CASE Catch(w, Record(w, state))
  BY <1>1, <1>3, RecordType, CatchIInv DEF Running
<1>4. CASE SaveFails(w, state)
  BY <1>1, <1>4, SaveFailsIInv DEF Running
<1> QED
  BY <1>2, <1>3, <1>4 DEF ValidateDone

LEMMA NotifyDoneIInv ==
  ASSUME IInv, NEW w \in Workflows, NotifyDone(w)
  PROVE  IInv'
<1> DEFINE state == "notifiedTransactionRequestIsValid"
<1>1. /\ pc[w] = "notify" /\ state \in States
      /\ "accepted" \in told[w] /\ w \notin asked /\ checked[w] = "none" /\ w \notin ordered
  BY DEF NotifyDone, States, IInv, InPlace
<1>2. Truthful(Record(w, state))
  BY <1>1 DEF Truthful, Record, Authorized, Verified, Paid
<1>3. CASE Enter(w, state, "quote") /\ UNCHANGED <<asked, checked, ordered, committed, told>>
  <2>1. TypeOK'
    BY <1>1, <1>3, RecordType DEF IInv, TypeOK, Enter, Running
  <2>2. Truthful(Record(w, state))'
    BY <1>1, <1>3 DEF Truthful, Record, Authorized, Verified, Paid
  <2> QED
    BY <1>1, <1>3, <2>1, <2>2, EnterIInv DEF IInv, Causes, Running, Paid
<1>4. CASE SaveFails(w, state)
  BY <1>1, <1>2, <1>4, SaveFailsIInv DEF Running
<1> QED
  BY <1>3, <1>4 DEF NotifyDone

LEMMA QuoteDoneIInv ==
  ASSUME IInv, NEW w \in Workflows, QuoteDone(w)
  PROVE  IInv'
<1> DEFINE state == "quoteReceived"
<1>1. /\ pc[w] = "quote" /\ state \in States \ Paid
      /\ "accepted" \in told[w] /\ w \notin asked /\ checked[w] = "none" /\ w \notin ordered
  BY DEF QuoteDone, States, Paid, IInv, InPlace
<1>2. Truthful(Record(w, state))
  BY <1>1 DEF Truthful, Record, Authorized, Verified, Paid
<1>3. CASE /\ Enter(w, state, "authorize")
           /\ asked' = asked \union {w}
           /\ UNCHANGED <<checked, ordered, committed, told>>
  <2>1. TypeOK'
    BY <1>1, <1>3, RecordType DEF IInv, TypeOK, Enter, Running
  <2>2. Truthful(Record(w, state))'
    BY <1>1, <1>3 DEF Truthful, Record, Authorized, Verified, Paid
  <2> QED
    BY <1>1, <1>3, <2>1, <2>2, EnterIInv DEF IInv, Causes, Running, Paid
<1>4. CASE kvs' = Record(w, state) /\ Warn(w)
  BY <1>1, <1>2, <1>4, WarnIInv
<1>5. CASE SaveFails(w, state)
  BY <1>1, <1>2, <1>5, SaveFailsIInv DEF Running
<1> QED
  BY <1>3, <1>4, <1>5 DEF QuoteDone

LEMMA AuthorizationPutIInv ==
  ASSUME IInv, NEW w \in Workflows, NEW reply \in Replies, AuthorizationPut(w, reply)
  PROVE  IInv'
<1> DEFINE state == "authorizationReceived"
<1>1. /\ pc[w] = "authorize" /\ state \in States \ Paid
      /\ "accepted" \in told[w] /\ w \in asked /\ checked[w] = "none" /\ w \notin ordered
  BY DEF AuthorizationPut, States, Paid, IInv, InPlace
<1>2. Truthful(Record(w, state))
  BY <1>1 DEF Truthful, Record, Verified, Paid
<1>3. CASE UNCHANGED kvs /\ Warn(w)
  BY <1>1, <1>3, WarnIInv
<1>4. CASE /\ reply \in {"signed", "forged"}
           /\ Enter(w, state, "verify")
           /\ checked' = [checked EXCEPT ![w] = reply]
           /\ UNCHANGED <<asked, ordered, committed, told>>
  <2>1. TypeOK'
    BY <1>1, <1>4, RecordType DEF IInv, TypeOK, Enter, Running
  <2>2. checked'[w] = reply /\ \A v \in Workflows \ {w} : checked'[v] = checked[v]
    BY <1>4 DEF IInv, TypeOK
  <2>3. Truthful(Record(w, state))'
    BY <1>1, <1>4 DEF Truthful, Record, Verified, Paid
  <2> QED
    BY <1>1, <1>4, <2>1, <2>2, <2>3, EnterIInv DEF IInv, Causes, Running, Paid
<1>5. CASE kvs' = Record(w, state) /\ Warn(w)
  BY <1>1, <1>2, <1>5, WarnIInv
<1>6. CASE SaveFails(w, state)
  BY <1>1, <1>2, <1>6, SaveFailsIInv DEF Running
<1> QED
  BY <1>3, <1>4, <1>5, <1>6 DEF AuthorizationPut

LEMMA VerificationPutIInv ==
  ASSUME IInv, NEW w \in Workflows, NEW verdict, VerificationPut(w, verdict)
  PROVE  IInv'
<1> DEFINE state == "authorizationReceivedIsValid"
<1>1. /\ pc[w] = "verify" /\ state \in States \ Paid
      /\ "accepted" \in told[w] /\ w \notin ordered
      /\ verdict = "verified" => checked[w] = "signed" /\ w \in asked
  BY DEF VerificationPut, States, Paid, IInv, InPlace, Causes
<1>2. CASE UNCHANGED kvs /\ Warn(w)
  BY <1>1, <1>2, WarnIInv
<1>3. ASSUME verdict = "verified" PROVE Truthful(Record(w, state))
  BY <1>1, <1>3 DEF Truthful, Record, Paid
<1>4. CASE /\ verdict = "verified"
           /\ Enter(w, state, "transfer")
           /\ ordered' = ordered \union {w}
           /\ UNCHANGED <<asked, checked, committed, told>>
  <2>1. TypeOK'
    BY <1>1, <1>4, RecordType DEF IInv, TypeOK, Enter, Running
  <2>2. Truthful(Record(w, state))'
    BY <1>1, <1>4 DEF Truthful, Record, Paid
  <2>3. "completed" \notin told[w] /\ w \notin committed
    BY <1>1 DEF IInv, Causes
  <2> QED
    BY <1>1, <1>4, <2>1, <2>2, <2>3, EnterIInv DEF IInv, Causes, Running, Paid
<1>5. CASE verdict = "verified" /\ SaveFails(w, state)
  BY <1>1, <1>3, <1>5, SaveFailsIInv DEF Running
<1> QED
  BY <1>2, <1>4, <1>5 DEF VerificationPut

LEMMA TransferDoneIInv ==
  ASSUME IInv, NEW w \in Workflows, TransferDone(w)
  PROVE  IInv'
<1> DEFINE state == "transferIsDone"
<1>1. /\ pc[w] = "transfer" /\ state \in States
      /\ w \in committed /\ w \in ordered /\ checked[w] = "signed" /\ w \in asked
      /\ "accepted" \in told[w] /\ errors[w] = 0
  BY DEF TransferDone, States, IInv, TypeOK, InPlace, Causes, FailedOnly
<1>2. Truthful(Record(w, state))
  BY <1>1 DEF Truthful, Record
<1>3. CASE /\ Enter(w, state, "patch")
           /\ told' = [told EXCEPT ![w] = @ \union {"completed"}]
           /\ UNCHANGED <<asked, checked, ordered, committed>>
  <2>1. TypeOK'
    BY <1>1, <1>3, RecordType DEF IInv, TypeOK, Enter, Running
  <2>2. told'[w] = told[w] \union {"completed"} /\ \A v \in Workflows \ {w} : told'[v] = told[v]
    BY <1>3 DEF IInv, TypeOK
  <2>3. Truthful(Record(w, state))'
    BY <1>1, <1>3, <2>2 DEF Truthful, Record, Enter
  <2> QED
    BY <1>1, <1>3, <2>1, <2>2, <2>3, EnterIInv DEF Running
<1>4. CASE SaveFails(w, state)
  BY <1>1, <1>2, <1>4, SaveFailsIInv DEF Running
<1> QED
  BY <1>3, <1>4 DEF TransferDone

LEMMA PatchDoneIInv ==
  ASSUME IInv, NEW w \in Workflows, PatchDone(w)
  PROVE  IInv'
<1> DEFINE state == "transactionRequestIsDone"
<1>1. /\ pc[w] = "patch" /\ state \in States
      /\ w \in committed /\ w \in ordered /\ checked[w] = "signed" /\ w \in asked
      /\ {"accepted", "completed"} \subseteq told[w] /\ errors[w] = 0
  BY DEF PatchDone, States, IInv, TypeOK, InPlace, Causes, FailedOnly
<1>2. Truthful(Record(w, state))
  BY <1>1 DEF Truthful, Record
<1>3. CASE Enter(w, state, "done") /\ UNCHANGED <<asked, checked, ordered, committed, told>>
  <2>1. TypeOK'
    BY <1>1, <1>3, RecordType DEF IInv, TypeOK, Enter, Ended
  <2>2. Truthful(Record(w, state))'
    BY <1>1, <1>3 DEF Truthful, Record, Enter
  <2> QED
    BY <1>1, <1>3, <2>1, <2>2, EnterIInv DEF Running
<1>4. CASE SaveFails(w, state)
  BY <1>1, <1>2, <1>4, SaveFailsIInv DEF Running
<1> QED
  BY <1>3, <1>4 DEF PatchDone

-----------------------------------------------------------------------------
(* The other steps, and the invariant.                                     *)

LEMMA QuietIInv ==
  ASSUME IInv, NEW w \in Workflows, Receive(w) \/ ReportDone(w) \/ Commit(w)
  PROVE  IInv'
<1>1. CASE Receive(w)
  <2>1. TypeOK'
    BY <1>1 DEF IInv, TypeOK, Receive, Running
  <2>2. InPlace' /\ Causes'
    BY <1>1 DEF IInv, TypeOK, InPlace, Causes, Receive
  <2>3. FailedOnly' /\ PaidNotFailed'
    BY <1>1 DEF IInv, TypeOK, FailedOnly, PaidNotFailed, Receive
  <2>4. RecordTruthful'
    BY <1>1 DEF IInv, RecordTruthful, Truthful, Receive
  <2> QED
    BY <2>1, <2>2, <2>3, <2>4 DEF IInv
<1>2. CASE ReportDone(w)
  <2>1. TypeOK'
    BY <1>2 DEF IInv, TypeOK, ReportDone, Ended
  <2>2. InPlace' /\ Causes'
    BY <1>2 DEF IInv, TypeOK, InPlace, Causes, ReportDone
  <2>3. FailedOnly' /\ PaidNotFailed'
    BY <1>2 DEF IInv, TypeOK, FailedOnly, PaidNotFailed, ReportDone
  <2>4. RecordTruthful'
    BY <1>2 DEF IInv, RecordTruthful, Truthful, ReportDone
  <2> QED
    BY <2>1, <2>2, <2>3, <2>4 DEF IInv
<1>3. CASE Commit(w)
  <2>1. TypeOK' /\ InPlace' /\ Causes' /\ FailedOnly' /\ PaidNotFailed'
    BY <1>3 DEF IInv, TypeOK, InPlace, Causes, FailedOnly, PaidNotFailed, Commit
  <2>2. RecordTruthful'
    BY <1>3 DEF IInv, RecordTruthful, Truthful, Commit
  <2> QED
    BY <2>1, <2>2 DEF IInv
<1> QED
  BY <1>1, <1>2, <1>3

LEMMA FailingIInv ==
  ASSUME IInv, NEW w \in Workflows, CallFails(w) \/ GiveUp(w) \/ WarningDone(w)
  PROVE  IInv'
<1>1. kvs \in [state : States, of : Workflows \union {"none"}] /\ Truthful(kvs)
  BY DEF IInv, TypeOK, RecordTruthful
<1>2. CASE CallFails(w) \/ WarningDone(w)
  BY <1>1, <1>2, CatchIInv DEF CallFails, WarningDone, Running
<1>3. CASE GiveUp(w)
  BY <1>3, WarnIInv DEF GiveUp
<1> QED
  BY <1>2, <1>3

LEMMA CrashIInv ==
  ASSUME IInv, Crash
  PROVE  IInv'
<1>1. UNCHANGED <<kvs, asked, checked, ordered, committed, told, errors>>
  BY DEF Crash
<1>2. \A v \in Workflows : IF pc[v] \in Running THEN pc'[v] = "dead" ELSE pc'[v] = pc[v]
  BY DEF Crash, Die
<1>3. TypeOK'
  BY <1>1 DEF IInv, TypeOK, Crash, Die, Ended
<1>4. InPlace' /\ Causes'
  BY <1>1, <1>2 DEF IInv, InPlace, Causes, Running
<1>5. FailedOnly' /\ PaidNotFailed'
  BY <1>1, <1>2 DEF IInv, FailedOnly, PaidNotFailed, Running
<1>6. RecordTruthful'
  BY <1>1 DEF IInv, RecordTruthful, Truthful
<1> QED
  BY <1>3, <1>4, <1>5, <1>6 DEF IInv

LEMMA InitIInv == Init => IInv
<1> SUFFICES ASSUME Init PROVE IInv
  OBVIOUS
<1>1. TypeOK
  BY DEF Init, TypeOK, States
<1>2. InPlace /\ Causes /\ FailedOnly
  BY DEF Init, InPlace, Causes, FailedOnly
<1>3. PaidNotFailed /\ RecordTruthful
  BY DEF Init, PaidNotFailed, RecordTruthful, Truthful, Notified, Authorized, Verified, Paid
<1> QED
  BY <1>1, <1>2, <1>3 DEF IInv

LEMMA NextIInv ==
  ASSUME IInv, [Next]_vars
  PROVE  IInv'
<1>1. CASE Crash
  BY <1>1, CrashIInv
<1>2. ASSUME NEW w \in Workflows, Step(w) PROVE IInv'
  BY <1>2, QuietIInv, FailingIInv, ValidateDoneIInv, NotifyDoneIInv, QuoteDoneIInv,
     TransferDoneIInv, PatchDoneIInv DEF Step
<1>3. ASSUME NEW w \in Workflows, Peers(w) PROVE IInv'
  BY <1>3, QuietIInv, AuthorizationPutIInv, VerificationPutIInv DEF Peers
<1>4. CASE UNCHANGED vars
  BY <1>4 DEF vars, IInv, TypeOK, InPlace, Causes, FailedOnly, PaidNotFailed, RecordTruthful, Truthful
<1> QED
  BY <1>1, <1>2, <1>3, <1>4 DEF Next

\* The inductive invariant holds in every reachable state.
THEOREM Invariance == Spec => []IInv
<1>1. Init => IInv
  BY InitIInv
<1>2. IInv /\ [Next]_vars => IInv'
  BY NextIInv
<1> QED
  BY <1>1, <1>2, PTL DEF Spec

\* The stored record never speaks of what its workflow has not done, although
\* repeated requests share the record, saves fail and the process dies.
THEOREM RecordIsTrue == Spec => []RecordTruthful
<1>1. IInv => RecordTruthful
  BY DEF IInv
<1> QED
  BY <1>1, Invariance, PTL

-----------------------------------------------------------------------------
(* The promise of Payment.                                                 *)

PromiseStep == [Promise!Next]_(Promise!vars)

\* A step that at most sends one error is a refusal, or nothing.
LEMMA ErrorPromise ==
  ASSUME IInv, NEW w \in Workflows,
         UNCHANGED <<asked, checked, ordered, committed, told>>,
         UNCHANGED errors \/ errors' = [errors EXCEPT ![w] = @ + 1]
  PROVE  PromiseStep
<1>1. \A v \in Workflows : Stage(v)' = Stage(v)
  BY DEF Stage
<1>2. CASE UNCHANGED errors
  <2>1. \A v \in Workflows : News(v)' = News(v)
    BY <1>2 DEF News
  <2> QED
    BY <1>1, <2>1 DEF PromiseStep, Promise!vars
<1>3. CASE errors' = [errors EXCEPT ![w] = @ + 1]
  <2>1. errors'[w] > 0 /\ \A v \in Workflows : v # w => errors'[v] = errors[v]
    BY <1>3 DEF IInv, TypeOK
  <2>2. News(w)' = News(w) \union {"error"} /\ \A v \in Workflows : v # w => News(v)' = News(v)
    BY <2>1 DEF News
  <2>3. Promise!Refuse(w)
    BY <1>1, <2>2 DEF Promise!Refuse, Promise!Tell
  <2> QED
    BY <2>3 DEF PromiseStep, Promise!Next
<1> QED
  BY <1>2, <1>3

LEMMA CatchPromise ==
  ASSUME IInv, NEW w \in Workflows, NEW stored, Catch(w, stored)
  PROVE  PromiseStep
BY ErrorPromise DEF Catch, SendError

LEMMA WarnPromise ==
  ASSUME IInv, NEW w \in Workflows, Warn(w)
  PROVE  PromiseStep
BY ErrorPromise DEF Warn, SendError

LEMMA SaveFailsPromise ==
  ASSUME IInv, NEW w \in Workflows, NEW state, SaveFails(w, state)
  PROVE  PromiseStep
BY CatchPromise DEF SaveFails

\* A step that moves one payment from one stage to the next.
LEMMA MovePromise ==
  ASSUME NEW w \in Workflows, NEW from, NEW to,
         Stage(w) = from, Stage(w)' = to,
         \A v \in Workflows \ {w} : Stage(v)' = Stage(v),
         \A v \in Workflows : News(v)' = News(v)
  PROVE  Promise!Move(w, from, to)
BY DEF Promise!Move

\* Steps that open, confirm, order, carry out or announce the payment.
LEMMA OfferPromise ==
  ASSUME IInv, NEW w \in Workflows, QuoteDone(w)
  PROVE  PromiseStep
<1>1. CASE /\ Enter(w, "quoteReceived", "authorize")
           /\ asked' = asked \union {w}
           /\ UNCHANGED <<checked, ordered, committed, told>>
  <2>1. w \notin asked /\ checked[w] = "none" /\ w \notin ordered /\ w \notin committed
        /\ errors[w] = 0 /\ "completed" \notin told[w]
    BY DEF QuoteDone, IInv, TypeOK, InPlace, Causes, FailedOnly
  <2>2. Stage(w) = "open" /\ Stage(w)' = "offered" /\ News(w) = {}
    BY <1>1, <2>1 DEF Stage, News
  <2>3. \A v \in Workflows \ {w} : Stage(v)' = Stage(v)
    BY <1>1 DEF Stage
  <2>4. \A v \in Workflows : News(v)' = News(v)
    BY <1>1 DEF News, Enter
  <2>5. Promise!Move(w, "open", "offered")
    BY <2>2, <2>3, <2>4, MovePromise
  <2> QED
    BY <2>2, <2>5 DEF PromiseStep, Promise!Next, Promise!Progress
<1> QED
  BY <1>1, WarnPromise, SaveFailsPromise DEF QuoteDone

LEMMA ConsentPromise ==
  ASSUME IInv, NEW w \in Workflows, NEW reply \in Replies, AuthorizationPut(w, reply)
  PROVE  PromiseStep
<1>1. CASE /\ reply \in {"signed", "forged"}
           /\ Enter(w, "authorizationReceived", "verify")
           /\ checked' = [checked EXCEPT ![w] = reply]
           /\ UNCHANGED <<asked, ordered, committed, told>>
  <2>1. w \in asked /\ checked[w] = "none" /\ w \notin ordered /\ w \notin committed
        /\ errors[w] = 0 /\ "completed" \notin told[w]
    BY DEF AuthorizationPut, IInv, TypeOK, InPlace, Causes, FailedOnly
  <2>2. checked'[w] = reply /\ \A v \in Workflows \ {w} : checked'[v] = checked[v]
    BY <1>1 DEF IInv, TypeOK
  <2>3. Stage(w) = "offered" /\ News(w) = {}
    BY <2>1 DEF Stage, News
  <2>4. Stage(w)' = IF reply = "signed" THEN "consented" ELSE "offered"
    BY <1>1, <2>1, <2>2 DEF Stage
  <2>5. \A v \in Workflows \ {w} : Stage(v)' = Stage(v)
    BY <1>1, <2>2 DEF Stage
  <2>6. \A v \in Workflows : News(v)' = News(v)
    BY <1>1 DEF News, Enter
  <2>7. CASE reply = "signed"
    <3>1. Promise!Move(w, "offered", "consented")
      BY <2>3, <2>4, <2>5, <2>6, <2>7, MovePromise
    <3> QED
      BY <2>3, <3>1 DEF PromiseStep, Promise!Next, Promise!Progress
  <2>8. CASE reply # "signed"
    BY <2>3, <2>4, <2>5, <2>6, <2>8 DEF PromiseStep, Promise!vars
  <2> QED
    BY <2>7, <2>8
<1> QED
  BY <1>1, WarnPromise, SaveFailsPromise DEF AuthorizationPut

LEMMA OrderPromise ==
  ASSUME IInv, NEW w \in Workflows, NEW verdict, VerificationPut(w, verdict)
  PROVE  PromiseStep
<1>1. CASE /\ verdict = "verified"
           /\ Enter(w, "authorizationReceivedIsValid", "transfer")
           /\ ordered' = ordered \union {w}
           /\ UNCHANGED <<asked, checked, committed, told>>
  <2>1. checked[w] = "signed" /\ w \notin ordered /\ w \notin committed
        /\ errors[w] = 0 /\ "completed" \notin told[w]
    BY <1>1 DEF VerificationPut, IInv, TypeOK, InPlace, Causes, FailedOnly
  <2>2. Stage(w) = "consented" /\ Stage(w)' = "ordered" /\ News(w) = {}
    BY <1>1, <2>1 DEF Stage, News
  <2>3. \A v \in Workflows \ {w} : Stage(v)' = Stage(v)
    BY <1>1 DEF Stage
  <2>4. \A v \in Workflows : News(v)' = News(v)
    BY <1>1 DEF News, Enter
  <2>5. Promise!Move(w, "consented", "ordered")
    BY <2>2, <2>3, <2>4, MovePromise
  <2> QED
    BY <2>2, <2>5 DEF PromiseStep, Promise!Next, Promise!Progress
<1> QED
  BY <1>1, WarnPromise, SaveFailsPromise DEF VerificationPut

LEMMA PayPromise ==
  ASSUME IInv, NEW w \in Workflows, Commit(w)
  PROVE  PromiseStep
<1>1. Stage(w) = "ordered" /\ Stage(w)' = "paid"
  BY DEF Commit, Stage
<1>2. \A v \in Workflows \ {w} : Stage(v)' = Stage(v)
  BY DEF Commit, Stage
<1>3. \A v \in Workflows : News(v)' = News(v)
  BY DEF Commit, News
<1>4. Promise!Move(w, "ordered", "paid")
  BY <1>1, <1>2, <1>3, MovePromise
<1> QED
  BY <1>4 DEF PromiseStep, Promise!Next, Promise!Pay

LEMMA SucceedPromise ==
  ASSUME IInv, NEW w \in Workflows, TransferDone(w)
  PROVE  PromiseStep
<1>1. CASE /\ Enter(w, "transferIsDone", "patch")
           /\ told' = [told EXCEPT ![w] = @ \union {"completed"}]
           /\ UNCHANGED <<asked, checked, ordered, committed>>
  <2>1. w \in committed /\ errors[w] = 0 /\ "completed" \notin told[w]
    BY DEF TransferDone, IInv, TypeOK, InPlace, FailedOnly
  <2>2. told'[w] = told[w] \union {"completed"} /\ \A v \in Workflows \ {w} : told'[v] = told[v]
    BY <1>1 DEF IInv, TypeOK
  <2>3. Stage(w) = "paid" /\ \A v \in Workflows : Stage(v)' = Stage(v)
    BY <1>1, <2>1 DEF Stage
  <2>4. News(w) = {} /\ News(w)' = {"completed"}
    BY <1>1, <2>1, <2>2 DEF News, Enter
  <2>5. \A v \in Workflows \ {w} : News(v)' = News(v)
    BY <1>1, <2>2 DEF News, Enter
  <2>6. Promise!Succeed(w)
    BY <2>3, <2>4, <2>5 DEF Promise!Succeed, Promise!Tell
  <2> QED
    BY <2>6 DEF PromiseStep, Promise!Next
<1> QED
  BY <1>1, SaveFailsPromise DEF TransferDone

LEMMA NextPromise ==
  ASSUME IInv, [Next]_vars
  PROVE  PromiseStep
<1>1. CASE Crash \/ UNCHANGED vars
  <2>1. \A v \in Workflows : Stage(v)' = Stage(v) /\ News(v)' = News(v)
    BY <1>1 DEF Crash, vars, Stage, News
  <2> QED
    BY <2>1 DEF PromiseStep, Promise!vars
<1>2. ASSUME NEW w \in Workflows, Receive(w) \/ ReportDone(w) PROVE PromiseStep
  BY <1>2, ErrorPromise DEF Receive, ReportDone
<1>3. ASSUME NEW w \in Workflows, CallFails(w) \/ GiveUp(w) \/ WarningDone(w) PROVE PromiseStep
  BY <1>3, CatchPromise, WarnPromise DEF CallFails, GiveUp, WarningDone
<1>4. ASSUME NEW w \in Workflows, ValidateDone(w) PROVE PromiseStep
  <2>1. CASE /\ Enter(w, "transactionRequestIsValid", "notify")
             /\ told' = [told EXCEPT ![w] = @ \union {"accepted"}]
             /\ UNCHANGED <<asked, checked, ordered, committed>>
    <3>1. \A v \in Workflows : told'[v] \cap {"completed"} = told[v] \cap {"completed"}
      BY <2>1 DEF IInv, TypeOK
    <3>2. \A v \in Workflows : Stage(v)' = Stage(v) /\ News(v)' = News(v)
      BY <2>1, <3>1 DEF Stage, News, Enter
    <3> QED
      BY <3>2 DEF PromiseStep, Promise!vars
  <2> QED
    BY <1>4, <2>1, CatchPromise, SaveFailsPromise DEF ValidateDone
<1>5. ASSUME NEW w \in Workflows, NotifyDone(w) \/ PatchDone(w) PROVE PromiseStep
  BY <1>5, ErrorPromise, SaveFailsPromise DEF NotifyDone, PatchDone, Enter
<1>6. ASSUME NEW w \in Workflows, Step(w) PROVE PromiseStep
  BY <1>2, <1>3, <1>4, <1>5, <1>6, OfferPromise, SucceedPromise DEF Step
<1>7. ASSUME NEW w \in Workflows, Peers(w) PROVE PromiseStep
  BY <1>7, ConsentPromise, OrderPromise, PayPromise DEF Peers
<1> QED
  BY <1>1, <1>6, <1>7 DEF Next

\* Money moves only when ordered, and is ordered only by a workflow whose terms the
\* PISP was offered and whose signature was confirmed; once the PISP was told of a
\* failure nothing new begins, and it is told of a success only when the money has
\* moved: DfspTransaction implements Payment.
THEOREM Implements == Spec => KeepsPromise
<1>1. Init => Promise!Init
  <2> SUFFICES ASSUME Init PROVE Promise!Init
    OBVIOUS
  <2>1. \A w \in Workflows : Stage(w) = "open" /\ News(w) = {}
    <3> TAKE w \in Workflows
    <3>1. w \notin asked /\ checked[w] = "none" /\ w \notin ordered /\ w \notin committed
          /\ told[w] = {} /\ errors[w] = 0
      BY DEF Init
    <3>2. Stage(w) = "open"
      BY <3>1 DEF Stage
    <3>3. News(w) = {}
      BY <3>1 DEF News
    <3> QED
      BY <3>2, <3>3
  <2> QED
    BY <2>1 DEF Promise!Init
<1>2. IInv /\ [Next]_vars => PromiseStep
  BY NextPromise
<1> QED
  BY <1>1, <1>2, Invariance, PTL DEF Spec, KeepsPromise, Promise!Spec, PromiseStep
=============================================================================
