----------------------- MODULE PispTransactionProofs -----------------------
(***************************************************************************)
(* Proofs about PispTransaction, for any set of requests and any faults:   *)
(* the inductive invariant IInv, and the safety invariants it gives for    *)
(* concurrent clients and others; then, for a client that waits for each   *)
(* answer, the invariant OneByOne, from which it follows what is signed,   *)
(* and that the record only moves forward.                                 *)
(***************************************************************************)
EXTENDS PispTransaction, WellFoundedInduction, TLAPS

USE PispTransactionAssumption

-----------------------------------------------------------------------------
(* Lemmas about the operators of the model.                                *)

\* A set of natural numbers that is not empty has a least element.
LEMMA LeastNumber ==
  ASSUME NEW T \in SUBSET Nat, T # {}
  PROVE  \E n \in T : \A k \in T : n <= k
<1>1. PICK n \in T : \A k \in T : ~ (<<k, n>> \in OpToRel(<, Nat))
  BY NatLessThanWellFounded, WFMin, T \subseteq Nat, Zenon
<1>2. \A k \in T : ~ (k < n)
  BY <1>1 DEF OpToRel
<1>3. QED
  BY <1>2

\* The last callback of a channel is one of its callbacks, and no other is later.
LEMMA LastOfType ==
  ASSUME TypeOK, SidsBounded, NEW p \in Phases, NEW S \in SUBSET Requests, S # {}
  PROVE  LastOf(S, p) \in S /\ \A q \in S : sid[p][q] <= sid[p][LastOf(S, p)]
<1> DEFINE T == {lastSid - sid[p][r] : r \in S}
<1>1. \A r \in S : sid[p][r] \in Nat /\ sid[p][r] <= lastSid /\ lastSid \in Nat
  BY DEF TypeOK, SidsBounded
<1>2. T \in SUBSET Nat /\ T # {}
  BY <1>1
<1>3. PICK n \in T : \A k \in T : n <= k
  BY <1>2, LeastNumber
<1>4. PICK r \in S : n = lastSid - sid[p][r]
  BY <1>3
<1>5. \A q \in S : sid[p][q] <= sid[p][r]
  <2> TAKE q \in S
  <2>1. lastSid - sid[p][q] \in T
    OBVIOUS
  <2>2. n <= lastSid - sid[p][q]
    BY <2>1, <1>3
  <2>3. QED
    BY <2>2, <1>4, <1>1
<1>6. QED
  BY <1>5 DEF LastOf

LEMMA DataTypes ==
  /\ NoData \in Data
  /\ \A d \in Data : Errored(d) \in Data /\ Response(d) \in Answers
BY DEF NoData, Data, States, Errored, Response, Answers

\* What the listeners write keeps the type, and nothing but their own field.
LEMMA HeardType ==
  ASSUME NEW d \in Data, NEW p \in Phases, NEW message,
         p = "auth" => message \in Authorizations,
         p = "approval" => message \in {"ok", "error"}
  PROVE  /\ Heard(p, message, d) \in Data
         /\ Heard(p, message, d).state = d.state
         /\ Heard(p, message, d).init = d.init
         /\ Heard(p, message, d).signed = d.signed
         /\ Heard(p, message, d).lookup = d.lookup
         /\ Heard(p, message, d).put = (d.put \/ p = "put")
         /\ Heard(p, message, d).auth = IF p = "auth" THEN message ELSE d.auth
         /\ Heard(p, message, d).status = IF p = "approval" THEN message ELSE d.status
         /\ Heard(p, message, d).shown = d.shown
<1>1. CASE p = "put"
  BY <1>1 DEF Heard, Data
<1>2. CASE p = "auth"
  BY <1>2 DEF Heard, Data
<1>3. CASE p = "approval"
  BY <1>3 DEF Heard, Data
<1> QED
  BY <1>1, <1>2, <1>3 DEF Phases

-----------------------------------------------------------------------------
(* Steps of one request that sends nothing.                                *)

Early == {"idle", "absent", "present", "lookup", "loaded"}

\* A step that moves one request which has sent nothing yet, and gives it no
\* authorization, keeps the invariant if what it holds and stores is sound.
LEMMA EarlyStep ==
  ASSUME IInv, TypeOK', NEW r \in Requests, pc[r] \in Early,
         UNCHANGED <<sid, lastSid, got, posts, approvals>>,
         \A q \in Requests \ {r} : /\ pc'[q] = pc[q]
                                  /\ data'[q] = data[q]
                                  /\ answer'[q] = answer[q],
         pc'[r] \in Early \union {"answered"},
         pc'[r] # "answered" => answer'[r] = "none",
         answer'[r] # "authorization",
         pc'[r] = "loaded" => Sound(data[r])',
         Sound(kvs)'
  PROVE  IInv'
<1>1. got[r] = {} /\ \A p \in Phases : ~Waits(r, p)
  BY DEF IInv, NothingConsumed, WaitersKnown, Early, Phases
<1>2. SidsBounded'
  BY DEF IInv, SidsBounded
<1>3. Unanswered'
  BY DEF IInv, Unanswered
<1>4. NothingConsumed'
  BY <1>1 DEF IInv, NothingConsumed
<1>5. WaitersKnown'
  BY <1>1 DEF IInv, WaitersKnown, Waits, Phases
<1>6. ConsumedKept'
  BY <1>1 DEF Issued, IInv, ConsumedKept
<1>7. HeldSound'
  <2> SUFFICES ASSUME NEW q \in Requests
               PROVE  /\ pc'[q] = "loaded" => Sound(data[q])'
                      /\ pc'[q] = "initiate" => data'[q].state = "authorizationReceived" /\ data'[q].init
                      /\ pc'[q] = "approve" =>
                           /\ data'[q].state = "transactionStatusReceived" /\ data'[q].signed # "none"
                           /\ \E a \in approvals' : a.auth = data'[q].auth
    BY DEF HeldSound
  <2>1. CASE q = r
    BY <2>1 DEF Early
  <2>2. CASE q # r
    BY <2>2 DEF IInv, HeldSound, Sound
  <2> QED
    BY <2>1, <2>2
<1>8. BarrierHolds'
  BY DEF Issued, IInv, BarrierHolds
<1>9. RecordSound'
  BY DEF RecordSound
<1> QED
  BY <1>2, <1>3, <1>4, <1>5, <1>6, <1>7, <1>8, <1>9 DEF IInv

LEMMA FailIInv ==
  ASSUME IInv, NEW r \in Requests, pc[r] \in Early, Fail(r),
         UNCHANGED <<kvs, sid, lastSid, got, posts, approvals, crashes>>
  PROVE  IInv'
<1>1. TypeOK'
  BY DataTypes DEF IInv, TypeOK, Fail, Answers
<1>2. /\ pc'[r] = "answered" /\ answer'[r] = "500"
      /\ \A q \in Requests \ {r} : pc'[q] = pc[q] /\ data'[q] = data[q] /\ answer'[q] = answer[q]
  BY DEF IInv, TypeOK, Fail
<1>3. Sound(kvs)'
  BY DEF IInv, RecordSound, Sound
<1> QED
  BY <1>1, <1>2, <1>3, EarlyStep

LEMMA FinishIInv ==
  ASSUME IInv, NEW r \in Requests, pc[r] \in Early,
         NEW d \in Data, d.state # "authorizationReceived", Sound(d), Finish(r, d),
         UNCHANGED <<sid, lastSid, got, posts, approvals, crashes>>
  PROVE  IInv'
<1>1. PICK outcome \in SaveOutcomes :
        /\ kvs' = Saved(outcome, d)
        /\ pc' = [pc EXCEPT ![r] = "answered"]
        /\ data' = [data EXCEPT ![r] = IF outcome = "ok" THEN d ELSE Errored(d)]
        /\ answer' = [answer EXCEPT ![r] = IF outcome = "ok" THEN Response(d) ELSE "500"]
  BY DEF Finish
<1>2. TypeOK'
  BY <1>1, DataTypes DEF IInv, TypeOK, Saved, Answers
<1>3. Response(d) # "authorization"
  BY DEF Response
<1>4. /\ pc'[r] = "answered" /\ answer'[r] # "authorization"
      /\ \A q \in Requests \ {r} : pc'[q] = pc[q] /\ data'[q] = data[q] /\ answer'[q] = answer[q]
  BY <1>1, <1>3 DEF IInv, TypeOK
<1>5. Sound(kvs)'
  BY <1>1 DEF IInv, RecordSound, Sound, Saved
<1> QED
  BY <1>2, <1>4, <1>5, EarlyStep

LEMMA StartIInv ==
  ASSUME IInv, NEW r \in Requests, pc[r] \in Early,
         NEW d \in Data, d.state = "start", Start(r, d)
  PROVE  IInv'
<1>1. PICK outcome \in SaveOutcomes :
        /\ kvs' = Saved(outcome, d)
        /\ IF outcome = "ok"
           THEN /\ pc' = [pc EXCEPT ![r] = "lookup"]
                /\ data' = [data EXCEPT ![r] = d]
                /\ UNCHANGED answer
           ELSE Fail(r)
  BY DEF Start
<1>2. UNCHANGED <<sid, lastSid, got, posts, approvals, crashes>>
  BY DEF Start
<1>3. Sound(kvs)'
  BY <1>1, <1>2 DEF IInv, RecordSound, Sound, Saved
<1>4. CASE outcome = "ok"
  <2>1. TypeOK'
    BY <1>1, <1>2, <1>4 DEF IInv, TypeOK, Saved, Busy
  <2>2. /\ pc'[r] = "lookup" /\ answer'[r] = "none"
        /\ \A q \in Requests \ {r} : pc'[q] = pc[q] /\ data'[q] = data[q] /\ answer'[q] = answer[q]
    BY <1>1, <1>4 DEF IInv, TypeOK, Unanswered, Early
  <2> QED
    BY <1>2, <1>3, <2>1, <2>2, EarlyStep DEF Early
<1>5. CASE outcome # "ok"
  <2>1. TypeOK'
    BY <1>1, <1>2, <1>5, DataTypes DEF IInv, TypeOK, Saved, Fail, Answers
  <2>2. /\ pc'[r] = "answered" /\ answer'[r] = "500"
        /\ \A q \in Requests \ {r} : pc'[q] = pc[q] /\ data'[q] = data[q] /\ answer'[q] = answer[q]
    BY <1>1, <1>5 DEF IInv, TypeOK, Fail
  <2> QED
    BY <1>2, <1>3, <2>1, <2>2, EarlyStep
<1> QED
  BY <1>4, <1>5

LEMMA LoadIInv ==
  ASSUME IInv, NEW r \in Requests, NEW d \in Data,
         kvs.state # "none" => Sound(d), Load(r, d)
  PROVE  IInv'
<1>1. TypeOK'
  BY DEF IInv, TypeOK, Load, Busy
<1>2. pc[r] \in Early /\ answer[r] = "none"
  BY DEF IInv, Unanswered, Load, MayArrive, Early
<1>3. /\ pc'[r] = "loaded"
      /\ data'[r] = IF kvs.state = "none" THEN kvs ELSE d
      /\ \A q \in Requests \ {r} : pc'[q] = pc[q] /\ data'[q] = data[q] /\ answer'[q] = answer[q]
  BY DEF IInv, TypeOK, Load
<1>4. Sound(kvs)' /\ Sound(data[r])'
  BY <1>3 DEF IInv, RecordSound, Sound, Load
<1>5. UNCHANGED <<sid, lastSid, got, posts, approvals, answer>>
  BY DEF Load
<1> QED
  BY <1>1, <1>2, <1>3, <1>4, <1>5, EarlyStep DEF Early

-----------------------------------------------------------------------------
(* Steps that send something to the DFSP.                                  *)

LEMMA SendInitiateIInv ==
  ASSUME IInv, NEW r \in Requests, RunInitiate(r), data[r].init
  PROVE  IInv'
<1>1. /\ pc[r] = "loaded"
      /\ data[r].state = "partyLookupSuccess"
      /\ pc' = [pc EXCEPT ![r] = "initiate"]
      /\ data' = [data EXCEPT ![r].state = "authorizationReceived"]
      /\ sid' = [sid EXCEPT !["put"][r] = lastSid + 1, !["auth"][r] = lastSid + 2]
      /\ lastSid' = lastSid + 2
      /\ posts' = posts \union {r}
      /\ UNCHANGED <<kvs, got, answer, approvals, crashes>>
  BY DEF RunInitiate
<1>2. /\ got[r] = {} /\ answer[r] = "none"
      /\ \A p \in Phases : ~Waits(r, p)
  BY <1>1 DEF IInv, NothingConsumed, Unanswered, WaitersKnown, Phases
<1>3. TypeOK'
  <2>1. [data[r] EXCEPT !.state = "authorizationReceived"] \in Data
    BY DEF IInv, TypeOK, Data, States
  <2>2. data' \in [Requests -> Data]
    BY <1>1, <2>1 DEF IInv, TypeOK
  <2> QED
    BY <1>1, <2>2 DEF IInv, TypeOK, Busy, Phases
<1>4. \A p \in Phases, q \in Requests :
        sid'[p][q] = IF q # r \/ p = "approval" THEN sid[p][q]
                     ELSE IF p = "put" THEN lastSid + 1 ELSE lastSid + 2
  BY <1>1 DEF IInv, TypeOK, Phases
<1>5. \A q \in Requests : q # r => pc'[q] = pc[q] /\ data'[q] = data[q]
  BY <1>1 DEF IInv, TypeOK
<1>6. /\ pc'[r] = "initiate"
      /\ data'[r].state = "authorizationReceived" /\ data'[r].init
  BY <1>1 DEF IInv, TypeOK, Data
<1>7. SidsBounded'
  BY <1>1, <1>4 DEF IInv, TypeOK, SidsBounded
<1>8. Unanswered'
  BY <1>1, <1>2, <1>5 DEF IInv, Unanswered
<1>9. NothingConsumed'
  BY <1>1, <1>5, <1>6 DEF IInv, NothingConsumed
<1>10. WaitersKnown'
  <2> SUFFICES ASSUME NEW q \in Requests
               PROVE  /\ \A p \in got'[q] : sid'[p][q] = 0
                      /\ sid'["approval"][q] # 0 => pc'[q] = "approve"
                      /\ sid'["put"][q] # 0 \/ sid'["auth"][q] # 0 =>
                           \/ pc'[q] = "initiate"
                           \/ pc'[q] = "answered" /\ data'[q].state = "errored" /\ answer'[q] = "500"
    BY DEF WaitersKnown, Waits
  <2>1. CASE q = r
    BY <2>1, <1>1, <1>2, <1>4, <1>6 DEF Waits, Phases
  <2>2. CASE q # r
    <3>1. got[q] \subseteq Phases
      BY DEF IInv, TypeOK
    <3>2. \A p \in Phases : sid'[p][q] = sid[p][q]
      BY <2>2, <1>4
    <3>3. pc'[q] = pc[q] /\ data'[q] = data[q] /\ answer'[q] = answer[q] /\ got'[q] = got[q]
      BY <2>2, <1>1, <1>5
    <3>4. /\ \A p \in got[q] : sid[p][q] = 0
          /\ sid["approval"][q] # 0 => pc[q] = "approve"
          /\ sid["put"][q] # 0 \/ sid["auth"][q] # 0 =>
               \/ pc[q] = "initiate"
               \/ pc[q] = "answered" /\ data[q].state = "errored" /\ answer[q] = "500"
      BY DEF IInv, WaitersKnown, Waits
    <3>5. \A p \in got'[q] : sid'[p][q] = 0
      BY <3>1, <3>2, <3>3, <3>4
    <3> QED
      BY <3>2, <3>3, <3>4, <3>5 DEF Phases
  <2> QED
    BY <2>1, <2>2
<1>11. ConsumedKept'
  BY <1>1, <1>2, <1>5 DEF Issued, IInv, ConsumedKept
<1>12. HeldSound'
  BY <1>1, <1>5, <1>6 DEF IInv, HeldSound, Sound
<1>13. BarrierHolds'
  BY <1>1, <1>2, <1>5 DEF Issued, IInv, BarrierHolds
<1>14. RecordSound'
  BY <1>1 DEF IInv, RecordSound, Sound
<1> QED
  BY <1>3, <1>7, <1>8, <1>9, <1>10, <1>11, <1>12, <1>13, <1>14 DEF IInv

LEMMA SendApproveIInv ==
  ASSUME IInv, NEW r \in Requests, RunApprove(r),
         data[r].init, data[r].signed # "none", data[r].auth # "none"
  PROVE  IInv'
<1>1. /\ pc[r] = "loaded"
      /\ data[r].state = "authorizationReceived"
      /\ pc' = [pc EXCEPT ![r] = "approve"]
      /\ data' = [data EXCEPT ![r].state = "transactionStatusReceived"]
      /\ sid' = [sid EXCEPT !["approval"][r] = lastSid + 1]
      /\ lastSid' = lastSid + 1
      /\ approvals' = approvals \union {[auth |-> data[r].auth, signed |-> data[r].signed]}
      /\ UNCHANGED <<kvs, got, answer, posts, crashes>>
  BY DEF RunApprove
<1>2. /\ got[r] = {} /\ answer[r] = "none"
      /\ \A p \in Phases : ~Waits(r, p)
  BY <1>1 DEF IInv, NothingConsumed, Unanswered, WaitersKnown, Phases
<1>3. data[r].auth \in Authorizations /\ data[r].signed \in Authorizations \union {"blind"}
  BY DEF IInv, TypeOK, Data
<1>4. TypeOK'
  <2> DEFINE d == [data[r] EXCEPT !.state = "transactionStatusReceived"]
  <2>0. d \in Data
    BY DEF IInv, TypeOK, Data, States
  <2>1. data' \in [Requests -> Data]
    BY <1>1, <2>0 DEF IInv, TypeOK
  <2>2. approvals' \subseteq [auth : Authorizations, signed : Authorizations \union {"blind"}]
    BY <1>1, <1>3 DEF IInv, TypeOK
  <2> QED
    BY <1>1, <2>1, <2>2 DEF IInv, TypeOK, Busy, Phases
<1>5. \A p \in Phases, q \in Requests :
        sid'[p][q] = IF q # r \/ p # "approval" THEN sid[p][q] ELSE lastSid + 1
  BY <1>1 DEF IInv, TypeOK, Phases
<1>6. \A q \in Requests : q # r => pc'[q] = pc[q] /\ data'[q] = data[q]
  BY <1>1 DEF IInv, TypeOK
<1>7. /\ pc'[r] = "approve"
      /\ data'[r].state = "transactionStatusReceived"
      /\ data'[r].signed = data[r].signed /\ data'[r].auth = data[r].auth
      /\ \E a \in approvals' : a.auth = data'[r].auth
  <2>1. data[r] \in Data
    BY DEF IInv, TypeOK
  <2>2. data'[r] = [data[r] EXCEPT !.state = "transactionStatusReceived"]
    BY <1>1 DEF IInv, TypeOK
  <2>3. /\ data'[r].state = "transactionStatusReceived"
        /\ data'[r].signed = data[r].signed /\ data'[r].auth = data[r].auth
    BY <2>1, <2>2 DEF Data
  <2>4. pc'[r] = "approve"
    BY <1>1 DEF IInv, TypeOK
  <2>5. [auth |-> data[r].auth, signed |-> data[r].signed] \in approvals'
    BY <1>1
  <2> QED
    BY <2>3, <2>4, <2>5
<1>8. SidsBounded'
  BY <1>1, <1>5 DEF IInv, TypeOK, SidsBounded
<1>9. Unanswered'
  BY <1>1, <1>2, <1>6 DEF IInv, Unanswered
<1>10. NothingConsumed'
  BY <1>1, <1>6, <1>7 DEF IInv, NothingConsumed
<1>11. WaitersKnown'
  <2> SUFFICES ASSUME NEW q \in Requests
               PROVE  /\ \A p \in got'[q] : sid'[p][q] = 0
                      /\ sid'["approval"][q] # 0 => pc'[q] = "approve"
                      /\ sid'["put"][q] # 0 \/ sid'["auth"][q] # 0 =>
                           \/ pc'[q] = "initiate"
                           \/ pc'[q] = "answered" /\ data'[q].state = "errored" /\ answer'[q] = "500"
    BY DEF WaitersKnown, Waits
  <2>1. CASE q = r
    BY <2>1, <1>1, <1>2, <1>5, <1>7 DEF Waits, Phases
  <2>2. CASE q # r
    <3>1. got[q] \subseteq Phases
      BY DEF IInv, TypeOK
    <3>2. \A p \in Phases : sid'[p][q] = sid[p][q]
      BY <2>2, <1>5
    <3>3. pc'[q] = pc[q] /\ data'[q] = data[q] /\ answer'[q] = answer[q] /\ got'[q] = got[q]
      BY <2>2, <1>1, <1>6
    <3>4. /\ \A p \in got[q] : sid[p][q] = 0
          /\ sid["approval"][q] # 0 => pc[q] = "approve"
          /\ sid["put"][q] # 0 \/ sid["auth"][q] # 0 =>
               \/ pc[q] = "initiate"
               \/ pc[q] = "answered" /\ data[q].state = "errored" /\ answer[q] = "500"
      BY DEF IInv, WaitersKnown, Waits
    <3>5. \A p \in got'[q] : sid'[p][q] = 0
      BY <3>1, <3>2, <3>3, <3>4
    <3> QED
      BY <3>2, <3>3, <3>4, <3>5 DEF Phases
  <2> QED
    BY <2>1, <2>2
<1>12. ConsumedKept'
  BY <1>1, <1>2, <1>6 DEF Issued, IInv, ConsumedKept
<1>13. HeldSound'
  <2> SUFFICES ASSUME NEW q \in Requests, q # r
               PROVE  /\ pc'[q] = "loaded" => Sound(data[q])'
                      /\ pc'[q] = "initiate" => data'[q].state = "authorizationReceived" /\ data'[q].init
                      /\ pc'[q] = "approve" =>
                           /\ data'[q].state = "transactionStatusReceived" /\ data'[q].signed # "none"
                           /\ \E a \in approvals' : a.auth = data'[q].auth
    BY <1>1, <1>7 DEF HeldSound
  <2>1. pc'[q] = pc[q] /\ data'[q] = data[q] /\ approvals \subseteq approvals'
    BY <1>1, <1>6
  <2> QED
    BY <2>1 DEF IInv, HeldSound, Sound
<1>14. BarrierHolds'
  BY <1>1, <1>2, <1>6 DEF Issued, IInv, BarrierHolds
<1>15. RecordSound'
  BY <1>1 DEF IInv, RecordSound, Sound
<1> QED
  BY <1>4, <1>8, <1>9, <1>10, <1>11, <1>12, <1>13, <1>14, <1>15 DEF IInv

-----------------------------------------------------------------------------
(* Jobs that give up, crashes.                                             *)

LEMMA GiveUpIInv ==
  ASSUME IInv, NEW r \in Requests, NEW p \in Phases, GiveUp(r, p)
  PROVE  IInv'
<1>1. /\ sid' = [sid EXCEPT ![p][r] = 0]
      /\ UNCHANGED <<kvs, lastSid, got, posts, approvals, crashes>>
  BY DEF GiveUp
<1>2. \A o \in Phases, q \in Requests :
        sid'[o][q] = IF o = p /\ q = r THEN 0 ELSE sid[o][q]
  BY <1>1 DEF IInv, TypeOK
<1>3. \A q \in Requests : q # r => pc'[q] = pc[q] /\ data'[q] = data[q] /\ answer'[q] = answer[q]
  BY DEF GiveUp, Fail, IInv, TypeOK
<1>4. \/ /\ pc[r] \in {"initiate", "approve"}
         /\ pc'[r] = "answered" /\ answer'[r] = "500" /\ data'[r] = Errored(data[r])
      \/ pc[r] = "answered" /\ UNCHANGED <<pc, answer, data>>
  <2>1. pc[r] \in {"initiate", "approve", "answered"}
    BY DEF GiveUp, IInv, WaitersKnown, Phases
  <2> QED
    BY <2>1 DEF GiveUp, Fail, IInv, TypeOK
<1>5. /\ Errored(data[r]).state = "errored"
      /\ Errored(data[r]).put = data[r].put /\ Errored(data[r]).auth = data[r].auth
  BY DEF IInv, TypeOK, Errored, Data
<1>6. TypeOK'
  <2>1. sid' \in [Phases -> [Requests -> Nat]]
    BY <1>1 DEF IInv, TypeOK
  <2>2. /\ pc' \in [Requests -> Busy \union {"idle", "answered", "dead"}]
        /\ data' \in [Requests -> Data]
        /\ answer' \in [Requests -> Answers]
    <3>1. CASE pc[r] \in {"initiate", "approve"}
      BY <3>1, DataTypes DEF GiveUp, Fail, IInv, TypeOK, Answers
    <3>2. CASE pc[r] \notin {"initiate", "approve"}
      BY <3>2 DEF GiveUp, IInv, TypeOK
    <3> QED
      BY <3>1, <3>2
  <2> QED
    BY <1>1, <2>1, <2>2 DEF IInv, TypeOK
<1>7. SidsBounded'
  BY <1>1, <1>2 DEF IInv, TypeOK, SidsBounded
<1>8. Unanswered'
  BY <1>3, <1>4 DEF IInv, Unanswered
<1>9. NothingConsumed'
  BY <1>1, <1>3, <1>4 DEF IInv, NothingConsumed
<1>10. WaitersKnown'
  <2> SUFFICES ASSUME NEW q \in Requests
               PROVE  /\ \A o \in got'[q] : sid'[o][q] = 0
                      /\ sid'["approval"][q] # 0 => pc'[q] = "approve"
                      /\ sid'["put"][q] # 0 \/ sid'["auth"][q] # 0 =>
                           \/ pc'[q] = "initiate"
                           \/ pc'[q] = "answered" /\ data'[q].state = "errored" /\ answer'[q] = "500"
    BY DEF WaitersKnown, Waits
  <2>1. /\ \A o \in got[q] : sid[o][q] = 0
        /\ sid["approval"][q] # 0 => pc[q] = "approve"
        /\ sid["put"][q] # 0 \/ sid["auth"][q] # 0 =>
             \/ pc[q] = "initiate"
             \/ pc[q] = "answered" /\ data[q].state = "errored" /\ answer[q] = "500"
    BY DEF IInv, WaitersKnown, Waits
  <2>2. got'[q] = got[q] /\ got[q] \subseteq Phases
    BY <1>1 DEF IInv, TypeOK
  <2>3. \A o \in Phases : sid'[o][q] # 0 => sid[o][q] # 0
    BY <1>2
  <2>4. q = r => (sid'["approval"][q] # 0 => pc[q] = "approve" /\ p # "approval")
    BY <1>2, <2>1 DEF Phases
  <2>5. sid[p][r] # 0
    BY DEF GiveUp, Waits
  <2>6. CASE q # r
    BY <1>3, <2>1, <2>2, <2>3, <2>6 DEF Phases
  <2>7. CASE q = r
    BY <1>4, <1>5, <2>1, <2>2, <2>3, <2>4, <2>5, <2>7 DEF Phases
  <2> QED
    BY <2>6, <2>7
<1>11. ConsumedKept'
  BY <1>1, <1>3, <1>4, <1>5 DEF Issued, IInv, ConsumedKept
<1>12. HeldSound'
  BY <1>1, <1>3, <1>4 DEF IInv, HeldSound, Sound
<1>13. BarrierHolds'
  BY <1>1, <1>3, <1>4 DEF Issued, IInv, BarrierHolds
<1>14. RecordSound'
  BY <1>1 DEF IInv, RecordSound, Sound
<1> QED
  BY <1>6, <1>7, <1>8, <1>9, <1>10, <1>11, <1>12, <1>13, <1>14 DEF IInv

LEMMA CrashIInv ==
  ASSUME IInv, Crash
  PROVE  IInv'
<1>1. TypeOK'
  BY DataTypes DEF IInv, TypeOK, Crash
<1>2. /\ lastSid' = 0 /\ \A p \in Phases, r \in Requests : sid'[p][r] = 0
      /\ UNCHANGED <<kvs, got, answer, posts, approvals>>
  BY DEF Crash
<1>3. \A r \in Requests :
        \/ pc[r] \in Busy /\ pc'[r] = "dead"
        \/ pc[r] \notin Busy /\ pc'[r] = pc[r] /\ data'[r] = data[r]
  BY DEF Crash, IInv, TypeOK
<1>4. SidsBounded'
  BY <1>2 DEF SidsBounded
<1>5. Unanswered'
  BY <1>2, <1>3 DEF IInv, Unanswered, Busy
<1>6. NothingConsumed'
  BY <1>2, <1>3 DEF IInv, NothingConsumed
<1>7. WaitersKnown'
  <2>1. \A r \in Requests : got'[r] \subseteq Phases
    BY <1>2 DEF IInv, TypeOK
  <2> QED
    BY <1>2, <2>1 DEF WaitersKnown, Waits, Phases
<1>8. ConsumedKept'
  BY <1>2, <1>3 DEF Issued, IInv, ConsumedKept
<1>9. HeldSound'
  BY <1>3 DEF HeldSound, Busy
<1>10. BarrierHolds'
  BY <1>2, <1>3 DEF Issued, IInv, BarrierHolds, Unanswered, Busy
<1>11. RecordSound'
  BY <1>2 DEF IInv, RecordSound, Sound
<1> QED
  BY <1>1, <1>4, <1>5, <1>6, <1>7, <1>8, <1>9, <1>10, <1>11 DEF IInv

-----------------------------------------------------------------------------
(* Messages.                                                               *)

LEMMA DeliverIInv ==
  ASSUME IInv, NEW p \in Phases, NEW message,
         p = "auth" => message \in Issued,
         p = "approval" => message \in {"ok", "error"},
         Deliver(p, message)
  PROVE  IInv'
<1> DEFINE after == [r \in Requests |-> IF Waits(r, p) THEN Heard(p, message, data[r]) ELSE data[r]]
           phases == [r \in Requests |-> IF Waits(r, p) THEN got[r] \union {p} ELSE got[r]]
           done == {r \in Takers(p) : Complete(r, phases[r])}
           final == [r \in Requests |-> Completed(r, after[r])]
           listened == IF p = "approval" THEN kvs ELSE after[LastOf(Takers(p), p)]
<1>1. PICK outcome \in [done -> SaveOutcomes] :
        /\ kvs' = IF {r \in done : outcome[r] # "lost"} = {} THEN listened
                  ELSE final[LastOf({r \in done : outcome[r] # "lost"}, p)]
        /\ data' = [r \in Requests |->
                     IF r \notin done THEN after[r]
                     ELSE IF outcome[r] = "ok" THEN final[r] ELSE Errored(final[r])]
        /\ answer' = [r \in Requests |->
                       IF r \notin done THEN answer[r]
                       ELSE IF outcome[r] = "ok" THEN Response(final[r]) ELSE "500"]
  BY DEF Deliver
<1>2. /\ Takers(p) # {}
      /\ sid' = [sid EXCEPT ![p] = [r \in Requests |-> 0]]
      /\ got' = phases
      /\ pc' = [r \in Requests |-> IF r \in done THEN "answered" ELSE pc[r]]
      /\ UNCHANGED <<lastSid, posts, approvals, crashes>>
  BY DEF Deliver
\* What each request holds once the message has been heard.
<1>3. \A r \in Requests :
        /\ after[r] \in Data
        /\ after[r].state = data[r].state /\ after[r].init = data[r].init
        /\ after[r].signed = data[r].signed /\ after[r].shown = data[r].shown
        /\ after[r].put = (data[r].put \/ (p = "put" /\ Waits(r, p)))
        /\ after[r].auth = IF p = "auth" /\ Waits(r, p) THEN message ELSE data[r].auth
        /\ after[r].status = IF p = "approval" /\ Waits(r, p) THEN message ELSE data[r].status
  <2> TAKE r \in Requests
  <2>1. data[r] \in Data /\ Issued \subseteq Authorizations
    BY DEF IInv, TypeOK, Issued
  <2>2. CASE Waits(r, p)
    <3>1. after[r] = Heard(p, message, data[r])
      BY <2>2
    <3>2. p = "auth" => message \in Authorizations
      BY <2>1
    <3> HIDE DEF after
    <3> QED
      BY <2>1, <2>2, <3>1, <3>2, HeardType
  <2>3. CASE ~Waits(r, p)
    <3>1. after[r] = data[r]
      BY <2>3
    <3> HIDE DEF after
    <3> QED
      BY <2>1, <2>3, <3>1 DEF Data
  <2> QED
    BY <2>2, <2>3
<1>4. \A r \in Requests :
        /\ final[r] = IF pc[r] = "initiate" THEN [after[r] EXCEPT !.shown = after[r].auth] ELSE after[r]
        /\ ~Waits(r, p) => after[r] = data[r]
        /\ phases[r] = IF Waits(r, p) THEN got[r] \union {p} ELSE got[r]
        /\ r \in done <=> Waits(r, p) /\ Complete(r, phases[r])
  BY DEF Completed, Takers
<1>5. done \subseteq Takers(p) /\ Takers(p) \subseteq Requests
  BY DEF Takers
<1> HIDE DEF after, phases, done, final
<1>6. \A r \in Requests :
        /\ final[r] \in Data
        /\ final[r].state = data[r].state /\ final[r].init = data[r].init
        /\ final[r].signed = data[r].signed /\ final[r].put = after[r].put
        /\ final[r].auth = after[r].auth /\ final[r].status = after[r].status
        /\ pc[r] = "initiate" => final[r].shown = after[r].auth
  <2> TAKE r \in Requests
  <2>1. after[r] \in Data
    BY <1>3
  <2>2. CASE pc[r] = "initiate"
    <3>1. final[r] = [after[r] EXCEPT !.shown = after[r].auth]
      BY <1>4, <2>2
    <3>2. /\ final[r] \in Data
          /\ final[r].state = after[r].state /\ final[r].init = after[r].init
          /\ final[r].signed = after[r].signed /\ final[r].put = after[r].put
          /\ final[r].auth = after[r].auth /\ final[r].status = after[r].status
          /\ final[r].shown = after[r].auth
      BY <2>1, <3>1 DEF Data
    <3> QED
      BY <1>3, <3>2
  <2>3. CASE pc[r] # "initiate"
    <3>1. final[r] = after[r]
      BY <1>4, <2>3
    <3> QED
      BY <1>3, <2>3, <3>1
  <2> QED
    BY <2>2, <2>3
\* Who hears it.
<1>7. \A r \in Requests : Waits(r, p) =>
        /\ p = "approval" => pc[r] = "approve"
        /\ p # "approval" =>
             \/ pc[r] = "initiate"
             \/ pc[r] = "answered" /\ data[r].state = "errored" /\ answer[r] = "500"
  BY DEF IInv, WaitersKnown, Phases
<1>8. \A r \in done :
        /\ r \in Requests /\ Waits(r, p)
        /\ p = "approval" => pc[r] = "approve"
        /\ p # "approval" => pc[r] = "initiate" /\ {"put", "auth"} \subseteq phases[r]
  BY <1>4, <1>5, <1>7 DEF Complete, Phases
\* Consumed messages are in the data.
<1>9. \A r \in Requests : pc[r] # "dead" =>
        /\ "put" \in phases[r] => after[r].put
        /\ "auth" \in phases[r] => after[r].auth \in Issued
  <2> SUFFICES ASSUME NEW r \in Requests, pc[r] # "dead"
               PROVE  /\ "put" \in phases[r] => after[r].put
                      /\ "auth" \in phases[r] => after[r].auth \in Issued
    OBVIOUS
  <2>1. /\ "put" \in got[r] => data[r].put
        /\ "auth" \in got[r] => data[r].auth \in Issued
    BY DEF IInv, ConsumedKept
  <2>2. CASE ~Waits(r, p)
    BY <1>4, <2>1, <2>2
  <2>3. CASE Waits(r, p)
    <3>1. phases[r] = got[r] \union {p}
      BY <1>4, <2>3
    <3>2. after[r].put = (data[r].put \/ p = "put")
      BY <1>3, <2>3
    <3>3. after[r].auth = IF p = "auth" THEN message ELSE data[r].auth
      BY <1>3, <2>3
    <3> QED
      BY <2>1, <3>1, <3>2, <3>3
  <2> QED
    BY <2>2, <2>3
\* What is stored is sound.
<1>10. \A r \in done : Sound(final[r])
  <2> TAKE r \in done
  <2>1. CASE p = "approval"
    <3>1. pc[r] = "approve" /\ Waits(r, p) /\ r \in Requests
      BY <1>8, <2>1
    <3>2. /\ final[r].state = "transactionStatusReceived" /\ final[r].signed # "none"
          /\ final[r].status # "none" /\ final[r].auth = data[r].auth
          /\ \E a \in approvals : a.auth = data[r].auth
      BY <1>3, <1>6, <2>1, <3>1 DEF IInv, HeldSound
    <3> QED
      BY <3>2 DEF Sound
  <2>2. CASE p # "approval"
    <3>1. pc[r] = "initiate" /\ {"put", "auth"} \subseteq phases[r] /\ r \in Requests
      BY <1>8, <2>2
    <3>2. final[r].state = "authorizationReceived" /\ final[r].init /\ final[r].put
      BY <1>6, <1>9, <3>1 DEF IInv, HeldSound
    <3> QED
      BY <3>2 DEF Sound
  <2> QED
    BY <2>1, <2>2
<1>11. listened \in Data /\ Sound(listened)
  <2>1. CASE p = "approval"
    BY <2>1 DEF IInv, TypeOK, RecordSound
  <2>2. CASE p # "approval"
    <3> DEFINE r == LastOf(Takers(p), p)
    <3>1. r \in Takers(p)
      BY <1>2, <1>5, LastOfType DEF IInv
    <3>2. listened = after[r]
      BY <2>2
    <3> HIDE DEF r, listened
    <3>3. r \in Requests /\ Waits(r, p)
      BY <3>1 DEF Takers
    <3>4. \/ after[r].state = "errored"
          \/ after[r].state = "authorizationReceived" /\ after[r].init
      BY <1>3, <1>7, <2>2, <3>3 DEF IInv, HeldSound
    <3>5. after[r].put \/ after[r].auth # "none"
      <4>1. CASE p = "put"
        BY <1>3, <3>3, <4>1
      <4>2. CASE p = "auth"
        <5>1. after[r].auth = message
          BY <1>3, <3>3, <4>2
        <5>2. message \in Authorizations
          BY <4>2 DEF Issued, IInv, TypeOK
        <5> QED
          BY <5>1, <5>2
      <4> QED
        BY <2>2, <4>1, <4>2 DEF Phases
    <3>6. Sound(after[r])
      BY <3>4, <3>5 DEF Sound
    <3> QED
      BY <1>3, <3>2, <3>3, <3>6
  <2> QED
    BY <2>1, <2>2
<1>12. kvs' \in Data /\ Sound(kvs')
  <2> DEFINE written == {r \in done : outcome[r] # "lost"}
  <2>1. CASE written = {}
    BY <1>1, <1>11, <2>1
  <2>2. CASE written # {}
    <3>1. LastOf(written, p) \in written
      BY <1>5, <2>2, LastOfType DEF IInv
    <3>2. kvs' = final[LastOf(written, p)]
      BY <1>1, <2>2
    <3>3. LastOf(written, p) \in done
      BY <3>1
    <3> QED
      BY <1>6, <1>8, <1>10, <3>2, <3>3
  <2> QED
    BY <2>1, <2>2
<1> HIDE DEF listened
\* What becomes of each request.
<1>13. \A r \in Requests :
         /\ got'[r] = phases[r]
         /\ r \notin done => pc'[r] = pc[r] /\ data'[r] = after[r] /\ answer'[r] = answer[r]
         /\ r \in done =>
              /\ pc'[r] = "answered"
              /\ \/ data'[r] = final[r] /\ answer'[r] = Response(final[r])
                 \/ data'[r] = Errored(final[r]) /\ answer'[r] = "500"
  BY <1>1, <1>2
<1>14. \A o \in Phases, r \in Requests : sid'[o][r] = IF o = p THEN 0 ELSE sid[o][r]
  BY <1>2 DEF IInv, TypeOK
<1>15. TypeOK'
  <2>1. sid' \in [Phases -> [Requests -> Nat]]
    BY <1>2 DEF IInv, TypeOK
  <2>2. got' \in [Requests -> SUBSET Phases]
    <3>1. \A r \in Requests : phases[r] \in SUBSET Phases
      <4> TAKE r \in Requests
      <4>1. got[r] \subseteq Phases
        BY DEF IInv, TypeOK
      <4>2. phases[r] = got[r] \/ phases[r] = got[r] \union {p}
        BY <1>4
      <4> QED
        BY <4>1, <4>2
    <3> QED
      BY <1>2, <3>1 DEF phases
  <2>3. pc' \in [Requests -> Busy \union {"idle", "answered", "dead"}]
    BY <1>2 DEF IInv, TypeOK
  <2>4. data' \in [Requests -> Data]
    BY <1>1, <1>3, <1>6, DataTypes
  <2>5. answer' \in [Requests -> Answers]
    BY <1>1, <1>6, DataTypes DEF IInv, TypeOK, Answers
  <2> QED
    BY <1>2, <1>12, <2>1, <2>2, <2>3, <2>4, <2>5 DEF IInv, TypeOK
<1>16. SidsBounded'
  BY <1>2, <1>14 DEF IInv, TypeOK, SidsBounded
<1>17. Unanswered'
  BY <1>13 DEF IInv, Unanswered
<1>18. NothingConsumed'
  BY <1>4, <1>7, <1>13 DEF IInv, NothingConsumed
<1>19. WaitersKnown'
  <2> SUFFICES ASSUME NEW r \in Requests
               PROVE  /\ \A o \in got'[r] : sid'[o][r] = 0
                      /\ sid'["approval"][r] # 0 => pc'[r] = "approve"
                      /\ sid'["put"][r] # 0 \/ sid'["auth"][r] # 0 =>
                           \/ pc'[r] = "initiate"
                           \/ pc'[r] = "answered" /\ data'[r].state = "errored" /\ answer'[r] = "500"
    BY DEF WaitersKnown, Waits
  <2>1. /\ \A o \in got[r] : sid[o][r] = 0
        /\ sid["approval"][r] # 0 => pc[r] = "approve"
        /\ sid["put"][r] # 0 \/ sid["auth"][r] # 0 =>
             \/ pc[r] = "initiate"
             \/ pc[r] = "answered" /\ data[r].state = "errored" /\ answer[r] = "500"
        /\ got[r] \subseteq Phases
    BY DEF IInv, TypeOK, WaitersKnown, Waits
  <2>2. \A o \in got'[r] : sid'[o][r] = 0
    <3>1. got'[r] = got[r] \/ got'[r] = got[r] \union {p}
      BY <1>4, <1>13
    <3>2. \A o \in Phases : sid'[o][r] = 0 \/ (o # p /\ sid'[o][r] = sid[o][r])
      BY <1>14
    <3> QED
      BY <2>1, <3>1, <3>2
  <2>3. CASE r \notin done
    BY <1>3, <1>13, <1>14, <2>1, <2>2, <2>3 DEF Phases
  <2>4. CASE r \in done
    <3>1. \A o \in Phases : sid'[o][r] = 0
      <4>1. CASE p = "approval"
        BY <1>8, <1>14, <2>1, <2>4, <4>1 DEF Phases
      <4>2. CASE p # "approval"
        BY <1>4, <1>8, <1>14, <2>1, <2>4, <4>2 DEF Phases
      <4> QED
        BY <4>1, <4>2
    <3> QED
      BY <2>2, <3>1 DEF Phases
  <2> QED
    BY <2>3, <2>4
<1>20. ConsumedKept'
  <2> SUFFICES ASSUME NEW r \in Requests, pc'[r] # "dead"
               PROVE  /\ "put" \in got'[r] => data'[r].put
                      /\ "auth" \in got'[r] => data'[r].auth \in Issued'
    BY <1>2 DEF ConsumedKept
  <2>1. CASE r \notin done
    BY <1>2, <1>9, <1>13, <2>1 DEF Issued
  <2>2. CASE r \in done
    <3>1. pc[r] # "dead"
      BY <1>8, <2>2
    <3>2. Errored(final[r]).put = final[r].put /\ Errored(final[r]).auth = final[r].auth
      BY <1>6 DEF Errored, Data
    <3>3. final[r].put = after[r].put /\ final[r].auth = after[r].auth
      BY <1>6
    <3>4. data'[r].put = after[r].put /\ data'[r].auth = after[r].auth
      BY <1>13, <2>2, <3>2, <3>3
    <3> QED
      BY <1>2, <1>9, <1>13, <3>1, <3>4 DEF Issued
  <2> QED
    BY <2>1, <2>2
<1>21. HeldSound'
  <2> SUFFICES ASSUME NEW r \in Requests, pc'[r] \in {"loaded", "initiate", "approve"}
               PROVE  /\ pc'[r] = "loaded" => Sound(data[r])'
                      /\ pc'[r] = "initiate" => data'[r].state = "authorizationReceived" /\ data'[r].init
                      /\ pc'[r] = "approve" =>
                           /\ data'[r].state = "transactionStatusReceived" /\ data'[r].signed # "none"
                           /\ \E a \in approvals' : a.auth = data'[r].auth
    BY DEF HeldSound
  <2>1. r \notin done /\ pc'[r] = pc[r] /\ data'[r] = after[r]
    BY <1>13
  <2>2. CASE pc[r] = "initiate"
    BY <1>3, <2>1, <2>2 DEF IInv, HeldSound
  <2>3. CASE pc[r] = "loaded"
    <3>1. data'[r] = data[r]
      BY <1>4, <1>7, <2>1, <2>3
    <3> QED
      BY <1>2, <2>1, <2>3, <3>1 DEF IInv, HeldSound, Sound
  <2>4. CASE pc[r] = "approve"
    <3>1. ~Waits(r, p)
      BY <1>4, <1>7, <2>1, <2>4 DEF Complete
    <3>2. data'[r] = data[r]
      BY <1>4, <2>1, <3>1
    <3> QED
      BY <1>2, <2>1, <2>4, <3>2 DEF IInv, HeldSound
  <2> QED
    BY <2>1, <2>2, <2>3, <2>4
<1>22. BarrierHolds'
  <2> SUFFICES ASSUME NEW r \in Requests, answer'[r] = "authorization"
               PROVE  {"put", "auth"} \subseteq got'[r] /\ data'[r].put /\ data'[r].shown \in Issued'
    BY <1>2 DEF BarrierHolds
  <2>1. CASE r \notin done
    <3>1. answer[r] = "authorization" /\ pc[r] = "answered"
      BY <1>13, <2>1 DEF IInv, Unanswered
    <3>2. ~Waits(r, p)
      BY <1>7, <3>1
    <3>3. data'[r] = data[r] /\ got'[r] = got[r]
      BY <1>4, <1>13, <2>1, <3>2
    <3> QED
      BY <1>2, <3>1, <3>3 DEF IInv, BarrierHolds, Issued
  <2>2. CASE r \in done
    <3>1. data'[r] = final[r] /\ Response(final[r]) = "authorization"
      BY <1>13, <2>2
    <3>2. final[r].state = "authorizationReceived"
      BY <3>1 DEF Response
    <3>3. p # "approval"
      BY <1>6, <1>8, <2>2, <3>2 DEF IInv, HeldSound
    <3>4. pc[r] = "initiate" /\ {"put", "auth"} \subseteq phases[r]
      BY <1>8, <2>2, <3>3
    <3> QED
      BY <1>2, <1>6, <1>9, <1>13, <3>1, <3>4 DEF Issued
  <2> QED
    BY <2>1, <2>2
<1>23. RecordSound'
  BY <1>2, <1>12 DEF RecordSound, Sound
<1> QED
  BY <1>15, <1>16, <1>17, <1>18, <1>19, <1>20, <1>21, <1>22, <1>23 DEF IInv

-----------------------------------------------------------------------------
(* The invariant.                                                          *)

LEMMA InitIInv == Init => IInv
<1> SUFFICES ASSUME Init PROVE IInv
  OBVIOUS
<1>1. TypeOK
  BY DataTypes DEF Init, TypeOK, Answers
<1>2. SidsBounded /\ Unanswered /\ NothingConsumed /\ ConsumedKept /\ HeldSound /\ BarrierHolds
  BY DEF Init, SidsBounded, Unanswered, NothingConsumed, ConsumedKept, HeldSound, BarrierHolds
<1>3. WaitersKnown
  BY DEF Init, WaitersKnown, Waits, Phases
<1>4. RecordSound
  BY DEF Init, RecordSound, Sound, NoData
<1> QED
  BY <1>1, <1>2, <1>3, <1>4 DEF IInv

\* Requests arriving: one that asks whether the record exists, two that load it.
LEMMA ArriveIInv ==
  ASSUME IInv, NEW r \in Requests, Arrive(r)
  PROVE  IInv'
<1>1. CASE Lookup(r)
  <2>1. TypeOK'
    BY <1>1 DEF IInv, TypeOK, Lookup, Busy
  <2>2. /\ pc[r] \in Early /\ pc'[r] \in Early \ {"loaded"} /\ answer'[r] = "none"
        /\ \A q \in Requests \ {r} : pc'[q] = pc[q]
    BY <1>1 DEF IInv, TypeOK, Unanswered, Lookup, MayArrive, Early
  <2>3. UNCHANGED <<kvs, data, answer, sid, lastSid, got, posts, approvals>>
    BY <1>1 DEF Lookup
  <2>4. Sound(kvs)'
    BY <2>3 DEF IInv, RecordSound, Sound
  <2> QED
    BY <2>1, <2>2, <2>3, <2>4, EarlyStep DEF Early
<1>2. CASE Initiate(r)
  <2>1. [kvs EXCEPT !.init = TRUE] \in Data
    BY DEF IInv, TypeOK, Data
  <2>2. Sound([kvs EXCEPT !.init = TRUE])
    BY DEF IInv, TypeOK, Data, RecordSound, Sound
  <2> QED
    BY <1>2, <2>1, <2>2, LoadIInv DEF Initiate
<1>3. CASE Approve(r)
  <2>1. PICK s \in Shown \union {"blind"} : Load(r, [kvs EXCEPT !.signed = s])
    BY <1>3 DEF Approve
  <2>2. s \in Authorizations \union {"blind"}
    BY DEF Issued, Shown, IInv, TypeOK, BarrierHolds
  <2>3. [kvs EXCEPT !.signed = s] \in Data
    BY <2>2 DEF IInv, TypeOK, Data
  <2>4. Sound([kvs EXCEPT !.signed = s])
    BY <2>2 DEF IInv, TypeOK, Data, RecordSound, Sound
  <2> QED
    BY <2>1, <2>3, <2>4, LoadIInv
<1> QED
  BY <1>1, <1>2, <1>3 DEF Arrive

LEMMA StepIInv ==
  ASSUME IInv, NEW r \in Requests, Step(r)
  PROVE  IInv'
<1>1. data[r] \in Data
  BY DEF IInv, TypeOK
<1>2. CASE ReadFails(r) \/ LookupConflict(r) \/ RunAbsent(r)
  <2>1. /\ pc[r] \in Early
        /\ pc' = [pc EXCEPT ![r] = "answered"]
        /\ answer' \in {[answer EXCEPT ![r] = "500"], [answer EXCEPT ![r] = "422"]}
        /\ UNCHANGED <<kvs, data, sid, lastSid, got, posts, approvals, crashes>>
    BY <1>2 DEF ReadFails, LookupConflict, RunAbsent, Early
  <2>2. TypeOK'
    BY <2>1 DEF IInv, TypeOK, Answers
  <2>3. /\ pc'[r] = "answered" /\ answer'[r] # "authorization"
        /\ \A q \in Requests \ {r} : pc'[q] = pc[q] /\ answer'[q] = answer[q]
    BY <2>1 DEF IInv, TypeOK
  <2>4. Sound(kvs)'
    BY <2>1 DEF IInv, RecordSound, Sound
  <2> QED
    BY <2>1, <2>2, <2>3, <2>4, EarlyStep
<1>3. CASE LookupCreate(r)
  <2>1. [NoData EXCEPT !.state = "start"] \in Data /\ [NoData EXCEPT !.state = "start"].state = "start"
    BY DEF NoData, Data, States
  <2> QED
    BY <1>3, <2>1, StartIInv DEF LookupCreate, Early
<1>4. CASE LookupDone(r)
  <2> DEFINE found == [data[r] EXCEPT !.state = "partyLookupSuccess", !.lookup = "ok"]
             unknown == [data[r] EXCEPT !.state = "partyLookupFailure", !.lookup = "error"]
  <2>1. \A d \in {found, unknown} : d \in Data /\ d.state # "authorizationReceived" /\ Sound(d)
    BY <1>1 DEF Data, States, Sound
  <2>2. PICK d \in {found, unknown} : Finish(r, d)
    BY <1>4 DEF LookupDone
  <2>3. pc[r] \in Early /\ UNCHANGED <<sid, lastSid, got, posts, approvals, crashes>>
    BY <1>4 DEF LookupDone, Early
  <2> QED
    BY <2>1, <2>2, <2>3, FinishIInv
<1>5. CASE LookupFails(r) \/ RunRefused(r)
  BY <1>5, FailIInv DEF LookupFails, RunRefused, Early
<1>6. CASE RunStart(r)
  BY <1>1, <1>6, StartIInv DEF RunStart, Early
<1>7. CASE RunInitiate(r)
  <2>1. CASE data[r].init
    BY <1>7, <2>1, SendInitiateIInv
  <2>2. CASE ~data[r].init
    BY <1>7, <2>2, FailIInv DEF RunInitiate, Early
  <2> QED
    BY <2>1, <2>2
<1>8. CASE RunApprove(r)
  <2>1. CASE data[r].init /\ data[r].signed # "none" /\ data[r].auth # "none"
    BY <1>8, <2>1, SendApproveIInv
  <2>2. CASE ~(data[r].init /\ data[r].signed # "none" /\ data[r].auth # "none")
    BY <1>8, <2>2, FailIInv DEF RunApprove, Early
  <2> QED
    BY <2>1, <2>2
<1>9. CASE RunOver(r)
  <2>1. pc[r] = "loaded" /\ Sound(data[r]) /\ data[r].state # "authorizationReceived"
    BY <1>9 DEF RunOver, IInv, HeldSound
  <2> QED
    BY <1>1, <1>9, <2>1, FinishIInv DEF RunOver, Early
<1> QED
  BY <1>2, <1>3, <1>4, <1>5, <1>6, <1>7, <1>8, <1>9 DEF Step

LEMMA DfspAnswersIInv ==
  ASSUME IInv, DfspAnswers
  PROVE  IInv'
<1>1. CASE TransactionPut
  BY <1>1, DeliverIInv DEF TransactionPut, Phases
<1>2. CASE AuthorizationPost
  <2>1. PICK a \in Issued : Deliver("auth", a)
    BY <1>2 DEF AuthorizationPost
  <2> QED
    BY <2>1, DeliverIInv DEF Phases
<1>3. CASE TransactionPatch
  BY <1>3, DeliverIInv DEF TransactionPatch, Phases
<1>4. CASE TransactionError
  BY <1>4, DeliverIInv DEF TransactionError, Phases
<1> QED
  BY <1>1, <1>2, <1>3, <1>4 DEF DfspAnswers

LEMMA NextIInv ==
  ASSUME IInv, [Next]_vars
  PROVE  IInv'
<1>1. ASSUME NEW r \in Requests, Arrive(r) PROVE IInv'
  BY <1>1, ArriveIInv
<1>2. ASSUME NEW r \in Requests, Step(r) PROVE IInv'
  BY <1>2, StepIInv
<1>3. ASSUME NEW r \in Requests, NEW p \in Phases, SendFails(r, p) \/ TimerExpires(r, p) PROVE IInv'
  BY <1>3, GiveUpIInv DEF SendFails, TimerExpires
<1>4. CASE DfspAnswers
  BY <1>4, DfspAnswersIInv
<1>5. CASE Crash
  BY <1>5, CrashIInv
<1>6. CASE UNCHANGED vars
  BY <1>6 DEF vars, IInv, TypeOK, SidsBounded, Unanswered, NothingConsumed, WaitersKnown, Waits,
              ConsumedKept, HeldSound, BarrierHolds, RecordSound, Sound, Issued
<1> QED
  BY <1>1, <1>2, <1>3, <1>4, <1>5, <1>6 DEF Next

\* The inductive invariant holds in every reachable state.
THEOREM Invariance == Spec => []IInv
<1>1. Init => IInv
  BY InitIInv
<1>2. IInv /\ [Next]_vars => IInv'
  BY NextIInv
<1> QED
  BY <1>1, <1>2, PTL DEF Spec

\* Whatever requests interleave, time out or crash, a client is given only an
\* authorization the DFSP issued for this transaction, and only by a request that
\* has consumed both callbacks of the DFSP itself (onInitiate's Promise.all).
THEOREM Barrier == Spec => []BarrierHolds
<1>1. IInv => BarrierHolds
  BY DEF IInv
<1> QED
  BY <1>1, Invariance, PTL

\* The stored record always carries what run() relies on when it dispatches on
\* the record's state alone: no party without a lookup, no status without the
\* approval that was sent for the stored authorization.
THEOREM Record == Spec => []RecordSound
<1>1. IInv => RecordSound
  BY DEF IInv
<1> QED
  BY <1>1, Invariance, PTL

-----------------------------------------------------------------------------
(* Signatures: what is stored, held and forwarded was signed by a backend  *)
(* that had been shown an authorization.                                   *)

\* What a step may do to signatures and to the answers they refer to.
SignedStep ==
  /\ \A q \in Requests : pc[q] = "answered" =>
       answer'[q] = answer[q] /\ data'[q].shown = data[q].shown
  /\ Signatures' \subseteq Signatures \union {"none", "blind"} \union Shown
  /\ \A a \in approvals' \ approvals : a.signed \in Signatures \ {"none"}

\* Steps that move one request which has no answer yet.
LEMMA OneSignedStep ==
  ASSUME IInv, NEW r \in Requests, pc[r] # "answered",
         \A q \in Requests \ {r} : data'[q] = data[q] /\ answer'[q] = answer[q],
         kvs'.signed \in Signatures \union {"none"},
         data'[r].signed \in Signatures \union {"none", "blind"} \union Shown,
         \A a \in approvals' \ approvals : a.signed \in Signatures \ {"none"}
  PROVE  SignedStep
<1>1. \A q \in Requests : data'[q].signed \in Signatures \union {"none", "blind"} \union Shown
  BY DEF Signatures
<1> QED
  BY <1>1 DEF SignedStep, Signatures

LEMMA FailSigned ==
  ASSUME IInv, NEW r \in Requests, pc[r] # "answered", Fail(r), UNCHANGED approvals,
         kvs'.signed \in Signatures \union {"none"}
  PROVE  SignedStep
<1>1. /\ data'[r].signed = data[r].signed
      /\ \A q \in Requests \ {r} : data'[q] = data[q] /\ answer'[q] = answer[q]
  BY DEF IInv, TypeOK, Data, Fail, Errored
<1> QED
  BY <1>1, OneSignedStep DEF Signatures

LEMMA FinishSigned ==
  ASSUME IInv, NEW r \in Requests, pc[r] # "answered", UNCHANGED approvals,
         NEW d \in Data, d.signed \in Signatures, Finish(r, d)
  PROVE  SignedStep
<1>1. PICK outcome \in SaveOutcomes :
        /\ kvs' = Saved(outcome, d)
        /\ data' = [data EXCEPT ![r] = IF outcome = "ok" THEN d ELSE Errored(d)]
        /\ answer' = [answer EXCEPT ![r] = IF outcome = "ok" THEN Response(d) ELSE "500"]
  BY DEF Finish
<1>2. kvs'.signed \in Signatures
  BY <1>1 DEF Saved, Signatures
<1>3. /\ data'[r].signed = d.signed
      /\ \A q \in Requests \ {r} : data'[q] = data[q] /\ answer'[q] = answer[q]
  BY <1>1 DEF IInv, TypeOK, Data, Errored
<1> QED
  BY <1>2, <1>3, OneSignedStep

LEMMA StartSigned ==
  ASSUME IInv, NEW r \in Requests, pc[r] # "answered",
         NEW d \in Data, d.signed \in Signatures \union {"none"}, Start(r, d)
  PROVE  SignedStep
<1>1. PICK outcome \in SaveOutcomes :
        /\ kvs' = Saved(outcome, d)
        /\ IF outcome = "ok"
           THEN /\ data' = [data EXCEPT ![r] = d]
                /\ UNCHANGED answer
           ELSE Fail(r)
  BY DEF Start
<1>2. UNCHANGED approvals
  BY DEF Start
<1>3. kvs'.signed \in Signatures \union {"none"}
  BY <1>1 DEF Saved, Signatures
<1>4. CASE outcome = "ok"
  <2>1. /\ data'[r].signed = d.signed
        /\ \A q \in Requests \ {r} : data'[q] = data[q] /\ answer'[q] = answer[q]
    BY <1>1, <1>4 DEF IInv, TypeOK
  <2> QED
    BY <1>2, <1>3, <2>1, OneSignedStep
<1>5. CASE outcome # "ok"
  BY <1>1, <1>2, <1>3, <1>5, FailSigned
<1> QED
  BY <1>4, <1>5

LEMMA ArriveSigned ==
  ASSUME IInv, NEW r \in Requests, Arrive(r)
  PROVE  SignedStep
<1>0. pc[r] # "answered" /\ UNCHANGED <<kvs, answer, approvals>>
  BY DEF Arrive, Lookup, Initiate, Approve, Load, MayArrive
<1>1. kvs'.signed \in Signatures
  BY <1>0 DEF Signatures
<1>2. /\ data'[r].signed \in Signatures \union {"none", "blind"} \union Shown
      /\ \A q \in Requests \ {r} : data'[q] = data[q]
  <2>1. CASE Lookup(r)
    BY <2>1 DEF Lookup, Signatures
  <2>2. ASSUME NEW d \in Data, Load(r, d), d.signed \in {kvs.signed, "blind"} \union Shown
        PROVE  <1>2
    BY <2>2 DEF Load, IInv, TypeOK, Signatures
  <2>3. CASE Initiate(r)
    <3>1. [kvs EXCEPT !.init = TRUE] \in Data /\ [kvs EXCEPT !.init = TRUE].signed = kvs.signed
      BY DEF IInv, TypeOK, Data
    <3> QED
      BY <2>2, <2>3, <3>1 DEF Initiate
  <2>4. CASE Approve(r)
    <3>1. PICK s \in Shown \union {"blind"} : Load(r, [kvs EXCEPT !.signed = s])
      BY <2>4 DEF Approve
    <3>2. s \in Authorizations \union {"blind"}
      BY DEF Issued, Shown, IInv, TypeOK, BarrierHolds
    <3>3. [kvs EXCEPT !.signed = s] \in Data /\ [kvs EXCEPT !.signed = s].signed = s
      BY <3>2 DEF IInv, TypeOK, Data
    <3> QED
      BY <2>2, <3>1, <3>3
  <2> QED
    BY <2>1, <2>3, <2>4 DEF Arrive
<1> QED
  BY <1>0, <1>1, <1>2, OneSignedStep

LEMMA StepSigned ==
  ASSUME IInv, NEW r \in Requests, Step(r)
  PROVE  SignedStep
<1>0. data[r] \in Data /\ data[r].signed \in Signatures /\ kvs.signed \in Signatures
  BY DEF IInv, TypeOK, Signatures
<1>1. pc[r] # "answered"
  BY DEF Step, ReadFails, LookupConflict, LookupCreate, LookupDone, LookupFails, RunAbsent,
         RunRefused, RunStart, RunInitiate, RunApprove, RunOver
<1>2. CASE ReadFails(r) \/ LookupConflict(r) \/ RunAbsent(r)
  <2>1. /\ UNCHANGED <<kvs, data, approvals>>
        /\ \A q \in Requests \ {r} : answer'[q] = answer[q]
    BY <1>2 DEF ReadFails, LookupConflict, RunAbsent, IInv, TypeOK
  <2> QED
    BY <1>0, <1>1, <2>1, OneSignedStep
<1>3. CASE LookupCreate(r)
  <2>1. [NoData EXCEPT !.state = "start"] \in Data /\ [NoData EXCEPT !.state = "start"].signed = "none"
    BY DEF NoData, Data, States
  <2> QED
    BY <1>1, <1>3, <2>1, StartSigned DEF LookupCreate
<1>4. CASE LookupDone(r)
  <2> DEFINE found == [data[r] EXCEPT !.state = "partyLookupSuccess", !.lookup = "ok"]
             unknown == [data[r] EXCEPT !.state = "partyLookupFailure", !.lookup = "error"]
  <2>1. \A d \in {found, unknown} : d \in Data /\ d.signed = data[r].signed
    BY <1>0 DEF Data, States
  <2>2. PICK d \in {found, unknown} : Finish(r, d)
    BY <1>4 DEF LookupDone
  <2>3. UNCHANGED approvals
    BY <1>4 DEF LookupDone
  <2> QED
    BY <1>0, <1>1, <2>1, <2>2, <2>3, FinishSigned
<1>5. CASE LookupFails(r) \/ RunRefused(r)
  BY <1>0, <1>1, <1>5, FailSigned DEF LookupFails, RunRefused
<1>6. CASE RunStart(r)
  BY <1>0, <1>1, <1>6, StartSigned DEF RunStart
<1>7. CASE RunInitiate(r)
  <2>1. CASE data[r].init
    <3>1. /\ UNCHANGED <<kvs, answer, approvals>>
          /\ data' = [data EXCEPT ![r].state = "authorizationReceived"]
      BY <1>7, <2>1 DEF RunInitiate
    <3>2. data'[r].signed = data[r].signed /\ \A q \in Requests \ {r} : data'[q] = data[q]
      BY <3>1 DEF IInv, TypeOK, Data
    <3> QED
      BY <1>0, <1>1, <3>1, <3>2, OneSignedStep
  <2>2. CASE ~data[r].init
    BY <1>0, <1>1, <1>7, <2>2, FailSigned DEF RunInitiate
  <2> QED
    BY <2>1, <2>2
<1>8. CASE RunApprove(r)
  <2>1. CASE data[r].init /\ data[r].signed # "none" /\ data[r].auth # "none"
    <3>1. /\ UNCHANGED <<kvs, answer>>
          /\ data' = [data EXCEPT ![r].state = "transactionStatusReceived"]
          /\ approvals' = approvals \union {[auth |-> data[r].auth, signed |-> data[r].signed]}
      BY <1>8, <2>1 DEF RunApprove
    <3>2. data'[r].signed = data[r].signed /\ \A q \in Requests \ {r} : data'[q] = data[q]
      BY <3>1 DEF IInv, TypeOK, Data
    <3>3. \A a \in approvals' \ approvals : a.signed \in Signatures \ {"none"}
      BY <1>0, <2>1, <3>1
    <3> QED
      BY <1>0, <1>1, <3>1, <3>2, <3>3, OneSignedStep
  <2>2. CASE ~(data[r].init /\ data[r].signed # "none" /\ data[r].auth # "none")
    BY <1>0, <1>1, <1>8, <2>2, FailSigned DEF RunApprove
  <2> QED
    BY <2>1, <2>2
<1>9. CASE RunOver(r)
  BY <1>0, <1>1, <1>9, FinishSigned DEF RunOver
<1> QED
  BY <1>2, <1>3, <1>4, <1>5, <1>6, <1>7, <1>8, <1>9 DEF Step

LEMMA GiveUpSigned ==
  ASSUME IInv, NEW r \in Requests, NEW p \in Phases, GiveUp(r, p)
  PROVE  SignedStep
<1>1. UNCHANGED <<kvs, approvals>>
  BY DEF GiveUp
<1>2. CASE pc[r] \in {"initiate", "approve"}
  BY <1>1, <1>2, FailSigned DEF GiveUp, Signatures
<1>3. CASE pc[r] \notin {"initiate", "approve"}
  BY <1>1, <1>3 DEF GiveUp, SignedStep, Signatures
<1> QED
  BY <1>2, <1>3

\* Listeners write beside the signature, and complete only requests that wait.
LEMMA DeliverSigned ==
  ASSUME IInv, NEW p \in Phases, NEW message,
         p = "auth" => message \in Issued,
         p = "approval" => message \in {"ok", "error"},
         Deliver(p, message)
  PROVE  SignedStep
<1> DEFINE after == [r \in Requests |-> IF Waits(r, p) THEN Heard(p, message, data[r]) ELSE data[r]]
           phases == [r \in Requests |-> IF Waits(r, p) THEN got[r] \union {p} ELSE got[r]]
           done == {r \in Takers(p) : Complete(r, phases[r])}
           final == [r \in Requests |-> Completed(r, after[r])]
           listened == IF p = "approval" THEN kvs ELSE after[LastOf(Takers(p), p)]
<1>1. PICK outcome \in [done -> SaveOutcomes] :
        /\ kvs' = IF {r \in done : outcome[r] # "lost"} = {} THEN listened
                  ELSE final[LastOf({r \in done : outcome[r] # "lost"}, p)]
        /\ data' = [r \in Requests |->
                      IF r \notin done THEN after[r]
                      ELSE IF outcome[r] = "ok" THEN final[r] ELSE Errored(final[r])]
        /\ answer' = [r \in Requests |->
                        IF r \notin done THEN answer[r]
                        ELSE IF outcome[r] = "ok" THEN Response(final[r]) ELSE "500"]
  BY DEF Deliver
<1>2. UNCHANGED approvals /\ Takers(p) # {}
  BY DEF Deliver
<1>3. \A r \in Requests : /\ after[r] \in Data
                          /\ after[r].signed = data[r].signed /\ after[r].shown = data[r].shown
  <2>1. p = "auth" => message \in Authorizations
    BY DEF Issued, IInv, TypeOK
  <2>2. \A r \in Requests : data[r] \in Data
    BY DEF IInv, TypeOK
  <2>3. \A d \in Data : /\ Heard(p, message, d) \in Data
                        /\ Heard(p, message, d).signed = d.signed
                        /\ Heard(p, message, d).shown = d.shown
    <3> HIDE DEF after, phases, done, final, listened
    <3> QED
      BY <2>1, HeardType
  <2> QED
    BY <2>2, <2>3
<1>4. \A r \in Requests : /\ final[r].signed = data[r].signed
                          /\ Errored(final[r]).signed = data[r].signed
  BY <1>3 DEF Completed, Errored, Data
<1>5. done \subseteq Requests /\ \A r \in done : pc[r] # "answered"
  BY DEF Takers, Complete
<1>6. \A r \in Requests : data'[r].signed \in Signatures
  <2> TAKE r \in Requests
  <2>1. data'[r].signed = data[r].signed
    BY <1>1, <1>3, <1>4
  <2> QED
    BY <2>1 DEF Signatures
<1>7. kvs'.signed \in Signatures
  <2>1. LastOf(Takers(p), p) \in Requests
    BY <1>2, LastOfType DEF IInv, Takers
  <2> DEFINE written == {r \in done : outcome[r] # "lost"}
  <2>2. written # {} => LastOf(written, p) \in Requests
    BY <1>5, LastOfType DEF IInv
  <2>3. listened.signed \in Signatures
    BY <1>3, <2>1 DEF Signatures
  <2>4. CASE written = {}
    BY <1>1, <2>3, <2>4
  <2>5. CASE written # {}
    BY <1>1, <1>4, <2>2, <2>5 DEF Signatures
  <2> QED
    BY <2>4, <2>5
<1>8. \A q \in Requests : pc[q] = "answered" =>
        answer'[q] = answer[q] /\ data'[q].shown = data[q].shown
  BY <1>1, <1>3, <1>5
<1> QED
  BY <1>2, <1>6, <1>7, <1>8 DEF SignedStep, Signatures

LEMMA CrashSigned ==
  ASSUME IInv, Crash
  PROVE  SignedStep
<1>1. /\ UNCHANGED <<kvs, answer, approvals>>
      /\ data' = [r \in Requests |-> IF pc[r] \in Busy THEN NoData ELSE data[r]]
  BY DEF Crash
<1>2. \A r \in Requests : data'[r].signed \in Signatures \union {"none"}
  BY <1>1 DEF Signatures, NoData
<1>3. \A q \in Requests : pc[q] = "answered" => data'[q].shown = data[q].shown
  BY <1>1 DEF Busy
<1> QED
  BY <1>1, <1>2, <1>3 DEF SignedStep, Signatures

LEMMA NextSigned ==
  ASSUME IInv, [Next]_vars
  PROVE  SignedStep
<1>1. CASE UNCHANGED vars
  BY <1>1 DEF vars, SignedStep, Signatures
<1>2. ASSUME NEW r \in Requests, NEW p \in Phases, SendFails(r, p) \/ TimerExpires(r, p)
      PROVE  SignedStep
  BY <1>2, GiveUpSigned DEF SendFails, TimerExpires
<1>3. CASE TransactionPut \/ TransactionPatch \/ TransactionError
  BY <1>3, DeliverSigned DEF TransactionPut, TransactionPatch, TransactionError, Phases
<1>4. CASE AuthorizationPost
  <2>1. PICK a \in Issued : Deliver("auth", a)
    BY <1>4 DEF AuthorizationPost
  <2> QED
    BY <2>1, DeliverSigned DEF Phases
<1> QED
  BY <1>1, <1>2, <1>3, <1>4, ArriveSigned, StepSigned, CrashSigned DEF Next, DfspAnswers

\* Whatever the DFSP is sent as a signature was made for an authorization that an
\* answered request has shown the backend, or blindly: no step of the SDK brings
\* a signature of its own, and what was shown is never taken back.
THEOREM Signed == Spec => []SignedWasShown
<1>1. Init => SignedWasShown
  BY DEF Init, SignedWasShown, Signatures, NoData
<1>2. IInv /\ SignedWasShown /\ [Next]_vars => SignedWasShown'
  <2> SUFFICES ASSUME IInv, SignedWasShown, [Next]_vars
               PROVE  SignedWasShown'
    OBVIOUS
  <2>1. SignedStep
    BY NextSigned
  <2>2. \A q \in Requests : answer[q] = "authorization" => pc[q] = "answered"
    BY DEF IInv, Unanswered
  <2>3. Shown \subseteq Shown'
    <3> SUFFICES ASSUME NEW q \in Requests, answer[q] = "authorization"
                 PROVE  data[q].shown \in Shown'
      BY DEF Shown
    <3>1. answer'[q] = "authorization" /\ data'[q].shown = data[q].shown
      BY <2>1, <2>2 DEF SignedStep
    <3> QED
      BY <3>1 DEF Shown
  <2>4. Signatures' \subseteq {"none", "blind"} \union Shown'
    BY <2>1, <2>3 DEF SignedStep, SignedWasShown
  <2>5. \A a \in approvals' : a.signed \in {"blind"} \union Shown'
    BY <2>1, <2>3 DEF SignedStep, SignedWasShown
  <2> QED
    BY <2>4, <2>5 DEF SignedWasShown
<1> QED
  BY <1>1, <1>2, Invariance, PTL DEF Spec
-----------------------------------------------------------------------------
(* A client that waits for each answer before it sends the next request.   *)

\* A step never takes the record back, and leaves a final one alone.
Forward ==
  /\ Rank(kvs'.state) >= Rank(kvs.state)
  /\ kvs.state = "transactionStatusReceived" =>
       UNCHANGED <<approvals, posts>> /\ kvs'.status = kvs.status

\* While nobody initiates, the record is as it was, or was "none" or "start",
\* which nobody who waits or was shown an authorization relies on.
Advances ==
  /\ \/ kvs'.state = kvs.state
     \/ kvs.state = "none"
     \/ kvs.state = "start" /\ kvs'.state # "none"
  /\ kvs.state \in {"authorizationReceived", "transactionStatusReceived"} =>
       kvs'.auth = kvs.auth /\ kvs'.status = kvs.status

LEMMA AdvancesForward ==
  ASSUME IInv, IInv', Advances, UNCHANGED <<approvals, posts>>
  PROVE  Forward
<1>1. kvs.state \in States /\ kvs'.state \in States
  BY DEF IInv, TypeOK, Data
<1> QED
  BY <1>1 DEF Advances, Forward, Rank, States

LEMMA ServedAlone ==
  ASSUME OneByOne, NEW r \in Requests, pc[r] \in Busy \/ MayArrive(r),
         NEW q \in Requests, q # r
  PROVE  pc[q] \notin Busy
<1>1. CASE pc[r] \in Busy
  BY <1>1 DEF OneByOne, OneServed
<1>2. CASE MayArrive(r)
  BY <1>2 DEF OneByOne, MayArrive
<1> QED
  BY <1>1, <1>2

\* One request moves that has sent nothing yet, and sends nothing now.
LEMMA QuietOneByOne ==
  ASSUME IInv, IInv', OneByOne, NEW r \in Requests,
         pc[r] \in {"absent", "present", "lookup", "loaded"} \/ MayArrive(r),
         UNCHANGED <<sid, approvals, posts>>,
         \A q \in Requests \ {r} : /\ pc'[q] = pc[q]
                                  /\ data'[q] = data[q]
                                  /\ answer'[q] = answer[q],
         pc'[r] \in {"absent", "present", "lookup", "loaded", "answered"},
         answer'[r] # "authorization",
         Advances,
         pc'[r] = "absent" => kvs'.state = "none",
         pc'[r] = "lookup" => kvs'.state = "start",
         pc'[r] = "loaded" => /\ data'[r].state = kvs'.state
                              /\ data'[r].auth = kvs'.auth
                              /\ data'[r].status = kvs'.status
  PROVE  OneByOne' /\ Forward
<1>1. pc[r] \in Early
  BY DEF MayArrive, Early
<1>2. \A q \in Requests \ {r} : pc[q] \notin Busy
  BY ServedAlone DEF Busy
<1>3. \A p \in Phases : ~Waits(r, p)
  BY <1>1 DEF IInv, WaitersKnown, Phases, Early
<1>4. OneServed'
  BY <1>2 DEF OneServed
<1>5. StoreInStep'
  BY <1>2 DEF StoreInStep, Busy
<1>6. LeftBehind'
  <2> SUFFICES ASSUME NEW q \in Requests, pc'[q] = "answered"
               PROVE  /\ sid["put"][q] = 0
                      /\ sid["auth"][q] # 0 => kvs'.state \in Initiable
    BY <1>2 DEF LeftBehind, Waits, Busy
  <2>1. CASE q = r
    BY <1>3, <2>1 DEF Waits, Phases
  <2>2. CASE q # r
    <3>1. /\ sid["put"][q] = 0
          /\ sid["auth"][q] # 0 => kvs.state \in Initiable
      BY <1>1, <1>2, <2>2 DEF OneByOne, LeftBehind, Waits, Busy, Early
    <3> QED
      BY <3>1 DEF Advances, Initiable
  <2> QED
    BY <2>1, <2>2
<1>7. ShownIsStored'
  <2> SUFFICES ASSUME NEW q \in Requests, answer'[q] = "authorization"
               PROVE  /\ kvs'.state \in {"authorizationReceived", "transactionStatusReceived"}
                      /\ kvs'.auth = data'[q].shown
                      /\ \A o \in Requests : pc'[o] # "initiate"
    BY DEF ShownIsStored
  <2>1. q # r /\ answer[q] = "authorization" /\ data'[q] = data[q]
    OBVIOUS
  <2> QED
    BY <1>2, <2>1 DEF OneByOne, ShownIsStored, Advances, Busy
<1>8. SignedForWhatWasShown'
  BY DEF OneByOne, SignedForWhatWasShown
<1> QED
  BY <1>4, <1>5, <1>6, <1>7, <1>8, AdvancesForward DEF OneByOne

\* A request fails before it has sent anything.
LEMMA FailOneByOne ==
  ASSUME IInv, IInv', OneByOne, NEW r \in Requests, pc[r] \in {"lookup", "loaded"}, Fail(r),
         UNCHANGED <<sid, approvals, posts>>, Advances
  PROVE  OneByOne' /\ Forward
<1>1. /\ pc'[r] = "answered" /\ answer'[r] = "500"
      /\ \A q \in Requests \ {r} : pc'[q] = pc[q] /\ data'[q] = data[q] /\ answer'[q] = answer[q]
  BY DEF IInv, TypeOK, Fail
<1> QED
  BY <1>1, QuietOneByOne

\* A request that ends its run without a message.
LEMMA FinishOneByOne ==
  ASSUME IInv, IInv', OneByOne, NEW r \in Requests, pc[r] \in {"lookup", "loaded"},
         NEW d \in Data, d.state # "authorizationReceived", Finish(r, d),
         d.state = kvs.state \/ (kvs.state = "start" /\ d.state # "none"),
         kvs.state = "transactionStatusReceived" => d.auth = kvs.auth /\ d.status = kvs.status,
         UNCHANGED <<sid, approvals, posts>>
  PROVE  OneByOne' /\ Forward
<1>1. PICK outcome \in SaveOutcomes :
        /\ kvs' = Saved(outcome, d)
        /\ pc' = [pc EXCEPT ![r] = "answered"]
        /\ data' = [data EXCEPT ![r] = IF outcome = "ok" THEN d ELSE Errored(d)]
        /\ answer' = [answer EXCEPT ![r] = IF outcome = "ok" THEN Response(d) ELSE "500"]
  BY DEF Finish
<1>2. Response(d) # "authorization"
  BY DEF Response
<1>3. /\ pc'[r] = "answered" /\ answer'[r] # "authorization"
      /\ \A q \in Requests \ {r} : pc'[q] = pc[q] /\ data'[q] = data[q] /\ answer'[q] = answer[q]
  BY <1>1, <1>2 DEF IInv, TypeOK
<1>4. Advances
  BY <1>1 DEF Saved, Advances
<1> QED
  BY <1>3, <1>4, QuietOneByOne

LEMMA StartOneByOne ==
  ASSUME IInv, IInv', OneByOne, NEW r \in Requests, pc[r] \in {"absent", "loaded"},
         NEW d \in Data, d.state = "start", kvs.state \in {"none", "start"}, Start(r, d)
  PROVE  OneByOne' /\ Forward
<1>1. PICK outcome \in SaveOutcomes :
        /\ kvs' = Saved(outcome, d)
        /\ IF outcome = "ok"
           THEN /\ pc' = [pc EXCEPT ![r] = "lookup"]
                /\ data' = [data EXCEPT ![r] = d]
                /\ UNCHANGED answer
           ELSE Fail(r)
  BY DEF Start
<1>2. UNCHANGED <<sid, posts, approvals>>
  BY DEF Start
<1>3. Advances
  BY <1>1 DEF Saved, Advances
<1>4. CASE outcome = "ok"
  <2>1. /\ pc'[r] = "lookup" /\ answer'[r] = answer[r] /\ answer[r] = "none" /\ kvs'.state = "start"
        /\ \A q \in Requests \ {r} : pc'[q] = pc[q] /\ data'[q] = data[q] /\ answer'[q] = answer[q]
    BY <1>1, <1>4 DEF IInv, TypeOK, Unanswered, Saved
  <2> QED
    BY <1>2, <1>3, <2>1, QuietOneByOne
<1>5. CASE outcome # "ok"
  <2>1. /\ pc'[r] = "answered" /\ answer'[r] = "500"
        /\ \A q \in Requests \ {r} : pc'[q] = pc[q] /\ data'[q] = data[q] /\ answer'[q] = answer[q]
    BY <1>1, <1>5 DEF IInv, TypeOK, Fail
  <2> QED
    BY <1>2, <1>3, <2>1, QuietOneByOne
<1> QED
  BY <1>4, <1>5

\* What arrives has read the record as it is.
LEMMA ArriveOneByOne ==
  ASSUME IInv, IInv', OneByOne, NEW r \in Requests, Arrive(r)
  PROVE  OneByOne' /\ Forward
<1>1. MayArrive(r) /\ UNCHANGED <<kvs, sid, answer, approvals, posts>>
  BY DEF Arrive, Lookup, Initiate, Approve, Load
<1>2. answer[r] = "none" /\ Advances
  BY <1>1 DEF MayArrive, IInv, Unanswered, Advances
<1>3. ASSUME NEW d \in Data, Load(r, d), d.state = kvs.state, d.auth = kvs.auth, d.status = kvs.status
      PROVE  OneByOne' /\ Forward
  <2>1. /\ pc'[r] = "loaded"
        /\ data'[r].state = kvs.state /\ data'[r].auth = kvs.auth /\ data'[r].status = kvs.status
        /\ \A q \in Requests \ {r} : pc'[q] = pc[q] /\ data'[q] = data[q]
    BY <1>3 DEF Load, IInv, TypeOK
  <2> QED
    BY <1>1, <1>2, <2>1, QuietOneByOne
<1>4. CASE Lookup(r)
  <2>1. /\ pc'[r] \in {"absent", "present"} /\ (pc'[r] = "absent" => kvs.state = "none")
        /\ \A q \in Requests \ {r} : pc'[q] = pc[q] /\ data'[q] = data[q]
    BY <1>4 DEF Lookup, IInv, TypeOK
  <2> QED
    BY <1>1, <1>2, <2>1, QuietOneByOne
<1>5. CASE Initiate(r)
  <2> DEFINE d == [kvs EXCEPT !.init = TRUE]
  <2>1. d \in Data /\ d.state = kvs.state /\ d.auth = kvs.auth /\ d.status = kvs.status
    BY DEF IInv, TypeOK, Data
  <2>2. Load(r, d)
    BY <1>5 DEF Initiate
  <2> QED
    BY <1>3, <2>1, <2>2
<1>6. CASE Approve(r)
  <2>1. PICK s \in Shown \union {"blind"} : Load(r, [kvs EXCEPT !.signed = s])
    BY <1>6 DEF Approve
  <2> DEFINE d == [kvs EXCEPT !.signed = s]
  <2>2. s \in Authorizations \union {"blind"}
    BY DEF Issued, Shown, IInv, TypeOK, BarrierHolds
  <2>3. d \in Data /\ d.state = kvs.state /\ d.auth = kvs.auth /\ d.status = kvs.status
    BY <2>2 DEF IInv, TypeOK, Data
  <2> QED
    BY <1>3, <2>1, <2>3
<1> QED
  BY <1>4, <1>5, <1>6 DEF Arrive

\* An initiation subscribes after everyone who was left behind, and finds a record
\* no authorization of which has been shown.
LEMMA SendInitiateOneByOne ==
  ASSUME IInv, IInv', OneByOne, NEW r \in Requests, RunInitiate(r), data[r].init
  PROVE  OneByOne' /\ Forward
<1>1. /\ pc[r] = "loaded"
      /\ data[r].state = "partyLookupSuccess"
      /\ pc' = [pc EXCEPT ![r] = "initiate"]
      /\ UNCHANGED <<kvs, got, answer, approvals>>
      /\ data' = [data EXCEPT ![r].state = "authorizationReceived"]
  BY DEF RunInitiate
<1>2. kvs.state \in Initiable
  BY <1>1 DEF OneByOne, StoreInStep, Initiable
<1>3. \A q \in Requests \ {r} : pc[q] \notin Busy /\ pc'[q] = pc[q] /\ data'[q] = data[q]
  <2> TAKE q \in Requests \ {r}
  <2>1. pc[q] \notin Busy
    BY <1>1, ServedAlone DEF Busy
  <2> QED
    BY <1>1, <2>1 DEF IInv, TypeOK
<1>4. \A p \in Phases, q \in Requests :
        sid'[p][q] = IF q # r \/ p = "approval" THEN sid[p][q]
                     ELSE IF p = "put" THEN lastSid + 1 ELSE lastSid + 2
  BY DEF RunInitiate, IInv, TypeOK, Phases
<1>5. pc'[r] = "initiate" /\ lastSid \in Nat
  BY <1>1 DEF IInv, TypeOK
<1>6. OneServed'
  BY <1>3 DEF OneServed
<1>7. StoreInStep'
  <2>1. sid'["put"][r] < sid'["auth"][r]
    BY <1>4, <1>5 DEF Phases
  <2>2. kvs'.state \in Initiable
    BY <1>1, <1>2
  <2>3. \A q \in Requests \ {r} : pc'[q] \notin Busy
    BY <1>3
  <2> QED
    BY <1>5, <2>1, <2>2, <2>3 DEF StoreInStep, Busy
<1>8. LeftBehind'
  <2> SUFFICES ASSUME NEW q \in Requests, pc'[q] = "answered"
               PROVE  /\ sid'["put"][q] = 0
                      /\ sid'["auth"][q] # 0 =>
                           /\ kvs'.state \in Initiable
                           /\ \A o \in Requests : pc'[o] = "initiate" =>
                                sid'["auth"][o] # 0 /\ sid'["auth"][q] < sid'["auth"][o]
    BY DEF LeftBehind, Waits
  <2>1. q # r /\ pc[q] = "answered"
    BY <1>3, <1>5
  <2>2. sid["put"][q] = 0 /\ sid'["put"][q] = 0 /\ sid'["auth"][q] = sid["auth"][q]
    BY <1>4, <2>1 DEF OneByOne, LeftBehind, Waits, Phases
  <2>3. sid["auth"][q] \in Nat /\ sid["auth"][q] <= lastSid
    BY DEF IInv, TypeOK, SidsBounded, Phases
  <2>4. \A o \in Requests : pc'[o] = "initiate" => o = r
    BY <1>3 DEF Busy
  <2>5. sid'["auth"][r] = lastSid + 2
    BY <1>4 DEF Phases
  <2>6. kvs'.state \in Initiable
    BY <1>1, <1>2
  <2> QED
    BY <1>5, <2>2, <2>3, <2>4, <2>5, <2>6
<1>9. ShownIsStored'
  BY <1>1, <1>2 DEF OneByOne, ShownIsStored, Initiable
<1>10. SignedForWhatWasShown'
  BY <1>1 DEF OneByOne, SignedForWhatWasShown
<1>11. Forward
  BY <1>1, <1>2 DEF Forward, Rank, Initiable
<1> QED
  BY <1>6, <1>7, <1>8, <1>9, <1>10, <1>11 DEF OneByOne

\* An approval forwards what its backend signed under the stored authorization,
\* which is the one the backend was shown.
LEMMA SendApproveOneByOne ==
  ASSUME IInv, IInv', OneByOne, SignedWasShown, NEW r \in Requests, RunApprove(r),
         data[r].init, data[r].signed # "none", data[r].auth # "none"
  PROVE  OneByOne' /\ Forward
<1>1. /\ pc[r] = "loaded"
      /\ data[r].state = "authorizationReceived"
      /\ pc' = [pc EXCEPT ![r] = "approve"]
      /\ data' = [data EXCEPT ![r].state = "transactionStatusReceived"]
      /\ sid' = [sid EXCEPT !["approval"][r] = lastSid + 1]
      /\ approvals' = approvals \union {[auth |-> data[r].auth, signed |-> data[r].signed]}
      /\ UNCHANGED <<kvs, got, answer>>
  BY DEF RunApprove
<1>2. kvs.state = "authorizationReceived" /\ data[r].auth = kvs.auth
  BY <1>1 DEF OneByOne, StoreInStep, Initiable
<1>3. \A q \in Requests \ {r} : pc[q] \notin Busy /\ pc'[q] = pc[q] /\ data'[q] = data[q]
  <2> TAKE q \in Requests \ {r}
  <2>1. pc[q] \notin Busy
    BY <1>1, ServedAlone DEF Busy
  <2> QED
    BY <1>1, <2>1 DEF IInv, TypeOK
<1>4. \A p \in Phases, q \in Requests :
        sid'[p][q] = IF q # r \/ p # "approval" THEN sid[p][q] ELSE lastSid + 1
  BY <1>1 DEF IInv, TypeOK, Phases
<1>5. pc'[r] = "approve" /\ data'[r].auth = data[r].auth
  BY <1>1 DEF IInv, TypeOK, Data
<1>6. OneServed'
  BY <1>3 DEF OneServed
<1>7. StoreInStep'
  BY <1>1, <1>2, <1>3, <1>5 DEF StoreInStep, Busy
<1>8. LeftBehind'
  <2> SUFFICES ASSUME NEW q \in Requests, pc'[q] = "answered"
               PROVE  sid'["put"][q] = 0 /\ sid'["auth"][q] = 0
    BY DEF LeftBehind, Waits
  <2>1. q # r /\ pc[q] = "answered"
    BY <1>3, <1>5
  <2>2. \A o \in Requests : pc[o] # "initiate"
    BY <1>1, <1>3 DEF Busy
  <2>3. sid["put"][q] = 0 /\ sid["auth"][q] = 0
    BY <1>2, <2>1, <2>2 DEF OneByOne, LeftBehind, Waits, Initiable
  <2> QED
    BY <1>4, <2>1, <2>3 DEF Phases
<1>9. ShownIsStored'
  <2> SUFFICES ASSUME NEW q \in Requests, answer'[q] = "authorization"
               PROVE  kvs.auth = data'[q].shown /\ \A o \in Requests : pc'[o] # "initiate"
    BY <1>1, <1>2 DEF ShownIsStored
  <2>1. answer[q] = "authorization" /\ q # r
    BY <1>1 DEF IInv, Unanswered
  <2> QED
    BY <1>3, <1>5, <2>1 DEF OneByOne, ShownIsStored
<1>10. SignedForWhatWasShown'
  <2>1. data[r].signed \in {"blind"} \union Shown
    BY DEF SignedWasShown, Signatures
  <2>2. data[r].signed \in Shown => data[r].signed = kvs.auth
    BY DEF Shown, OneByOne, ShownIsStored
  <2> QED
    BY <1>1, <1>2, <2>1, <2>2 DEF OneByOne, SignedForWhatWasShown
<1>11. Forward
  BY <1>1, <1>2 DEF Forward, Rank
<1> QED
  BY <1>6, <1>7, <1>8, <1>9, <1>10, <1>11 DEF OneByOne

LEMMA StepOneByOne ==
  ASSUME IInv, IInv', OneByOne, SignedWasShown, NEW r \in Requests, Step(r)
  PROVE  OneByOne' /\ Forward
<1>1. data[r] \in Data
  BY DEF IInv, TypeOK
<1>2. CASE ReadFails(r) \/ LookupConflict(r) \/ RunAbsent(r)
  <2>1. /\ pc[r] \in {"absent", "present", "loaded"} /\ pc'[r] = "answered"
        /\ answer'[r] # "authorization"
        /\ UNCHANGED <<kvs, data, sid, approvals, posts>>
        /\ \A q \in Requests \ {r} : pc'[q] = pc[q] /\ answer'[q] = answer[q]
    BY <1>2 DEF ReadFails, LookupConflict, RunAbsent, IInv, TypeOK
  <2>2. Advances
    BY <2>1 DEF Advances
  <2> QED
    BY <2>1, <2>2, QuietOneByOne
<1>3. CASE LookupCreate(r)
  <2>1. [NoData EXCEPT !.state = "start"] \in Data /\ [NoData EXCEPT !.state = "start"].state = "start"
    BY DEF NoData, Data, States
  <2>2. pc[r] = "absent" /\ kvs.state = "none"
    BY <1>3 DEF LookupCreate, OneByOne, StoreInStep
  <2> QED
    BY <1>3, <2>1, <2>2, StartOneByOne DEF LookupCreate
<1>4. CASE LookupDone(r)
  <2> DEFINE found == [data[r] EXCEPT !.state = "partyLookupSuccess", !.lookup = "ok"]
             unknown == [data[r] EXCEPT !.state = "partyLookupFailure", !.lookup = "error"]
  <2>1. \A d \in {found, unknown} :
          d \in Data /\ d.state \in {"partyLookupSuccess", "partyLookupFailure"}
    BY <1>1 DEF Data, States
  <2>2. PICK d \in {found, unknown} : Finish(r, d)
    BY <1>4 DEF LookupDone
  <2>3. pc[r] = "lookup" /\ UNCHANGED <<sid, posts, approvals>>
    BY <1>4 DEF LookupDone
  <2>4. kvs.state = "start"
    BY <2>3 DEF OneByOne, StoreInStep
  <2> QED
    BY <2>1, <2>2, <2>3, <2>4, FinishOneByOne
<1>5. CASE LookupFails(r) \/ RunRefused(r)
  <2>1. pc[r] \in {"lookup", "loaded"} /\ Fail(r) /\ UNCHANGED <<kvs, sid, posts, approvals>>
    BY <1>5 DEF LookupFails, RunRefused
  <2> QED
    BY <2>1, FailOneByOne DEF Advances
<1>6. CASE RunStart(r)
  <2>1. pc[r] = "loaded" /\ data[r].state = "start" /\ Start(r, data[r])
    BY <1>6 DEF RunStart
  <2>2. kvs.state = "start"
    BY <2>1 DEF OneByOne, StoreInStep, Initiable
  <2> QED
    BY <1>1, <2>1, <2>2, StartOneByOne
<1>7. CASE RunInitiate(r)
  <2>1. CASE data[r].init
    BY <1>7, <2>1, SendInitiateOneByOne
  <2>2. CASE ~data[r].init
    BY <1>7, <2>2, FailOneByOne DEF RunInitiate, Advances
  <2> QED
    BY <2>1, <2>2
<1>8. CASE RunApprove(r)
  <2>1. CASE data[r].init /\ data[r].signed # "none" /\ data[r].auth # "none"
    BY <1>8, <2>1, SendApproveOneByOne
  <2>2. CASE ~(data[r].init /\ data[r].signed # "none" /\ data[r].auth # "none")
    BY <1>8, <2>2, FailOneByOne DEF RunApprove, Advances
  <2> QED
    BY <2>1, <2>2
<1>9. CASE RunOver(r)
  <2>1. /\ pc[r] = "loaded" /\ Finish(r, data[r]) /\ UNCHANGED <<sid, posts, approvals>>
        /\ data[r].state \in {"partyLookupFailure", "transactionStatusReceived", "errored"}
    BY <1>9 DEF RunOver
  <2>2. /\ data[r].state = kvs.state
        /\ kvs.state = "transactionStatusReceived" =>
             data[r].auth = kvs.auth /\ data[r].status = kvs.status
    BY <2>1 DEF OneByOne, StoreInStep, Initiable
  <2> QED
    BY <1>1, <2>1, <2>2, FinishOneByOne
<1> QED
  BY <1>2, <1>3, <1>4, <1>5, <1>6, <1>7, <1>8, <1>9 DEF Step

\* A job gives up; the one of the authorization does so only when its timer is the
\* next to expire.
LEMMA GiveUpOneByOne ==
  ASSUME IInv, IInv', OneByOne, NEW r \in Requests, NEW p \in Phases, GiveUp(r, p),
         p = "auth" => \A q \in Requests, o \in {"put", "auth"} :
                         Waits(q, o) => sid["auth"][r] <= sid[o][q]
  PROVE  OneByOne' /\ Forward
<1>1. /\ Waits(r, p)
      /\ sid' = [sid EXCEPT ![p][r] = 0]
      /\ UNCHANGED <<kvs, approvals, posts>>
  BY DEF GiveUp
<1>2. \A o \in Phases, q \in Requests :
        sid'[o][q] = IF o = p /\ q = r THEN 0 ELSE sid[o][q]
  BY <1>1 DEF IInv, TypeOK
<1>3. \A q \in Requests : q # r => pc'[q] = pc[q] /\ data'[q] = data[q] /\ answer'[q] = answer[q]
  BY DEF GiveUp, Fail, IInv, TypeOK
<1>4. \A o \in Phases, q \in Requests : sid[o][q] \in Nat
  BY DEF IInv, TypeOK
<1>5. Forward
  <2>1. Advances
    BY <1>1 DEF Advances
  <2> QED
    BY <1>1, <2>1, AdvancesForward
<1>6. SignedForWhatWasShown'
  BY <1>1 DEF OneByOne, SignedForWhatWasShown
<1> SUFFICES OneServed' /\ StoreInStep' /\ LeftBehind' /\ ShownIsStored'
  BY <1>5, <1>6 DEF OneByOne
<1>7. CASE pc[r] = "answered"
  <2>1. UNCHANGED <<pc, data, answer>> /\ p = "auth"
    <3>1. p = "auth"
      BY <1>1, <1>7 DEF IInv, WaitersKnown, OneByOne, LeftBehind, Phases
    <3> QED
      BY <1>7, <3>1 DEF GiveUp
  <2>2. \A q \in Requests : q # r \/ pc[q] = "initiate" =>
          /\ sid'["put"][q] = sid["put"][q] /\ sid'["auth"][q] = sid["auth"][q]
    BY <1>2, <1>7 DEF Phases
  <2>3. sid'["put"][r] = sid["put"][r] /\ sid'["auth"][r] = 0
    BY <1>2, <2>1 DEF Phases
  <2>4. OneServed'
    BY <2>1 DEF OneByOne, OneServed
  <2>5. StoreInStep'
    BY <1>1, <2>1, <2>2 DEF OneByOne, StoreInStep, Waits
  <2>6. LeftBehind'
    BY <1>1, <2>1, <2>2, <2>3 DEF OneByOne, LeftBehind, Waits
  <2>7. ShownIsStored'
    BY <1>1, <2>1 DEF OneByOne, ShownIsStored
  <2> QED
    BY <2>4, <2>5, <2>6, <2>7
<1>8. CASE pc[r] \in {"initiate", "approve"}
  <2>1. pc'[r] = "answered" /\ answer'[r] = "500"
    BY <1>8 DEF GiveUp, Fail, IInv, TypeOK
  <2>2. \A q \in Requests : pc'[q] \notin Busy
    <3> TAKE q \in Requests
    <3>1. CASE q = r
      BY <2>1, <3>1 DEF Busy
    <3>2. CASE q # r
      BY <1>3, <1>8, <3>2, ServedAlone DEF Busy
    <3> QED
      BY <3>1, <3>2
  <2>3. OneServed'
    BY <2>2 DEF OneServed
  <2>4. StoreInStep'
    BY <2>2 DEF StoreInStep, Busy
  <2>5. LeftBehind'
    <3> SUFFICES ASSUME NEW q \in Requests, pc'[q] = "answered"
                 PROVE  /\ sid'["put"][q] = 0
                        /\ sid'["auth"][q] # 0 => kvs.state \in Initiable
      BY <1>1, <2>2 DEF LeftBehind, Waits, Busy
    <3>1. CASE pc[r] = "approve"
      <4>1. kvs.state = "authorizationReceived"
        BY <3>1 DEF OneByOne, StoreInStep
      <4>2. \A o \in Requests : pc[o] # "initiate"
        BY <3>1 DEF OneByOne, OneServed, Busy
      <4>3. sid["put"][q] = 0 /\ sid["auth"][q] = 0
        <5>1. CASE q = r
          BY <3>1, <5>1 DEF IInv, WaitersKnown, Waits
        <5>2. CASE q # r
          BY <1>3, <4>1, <4>2, <5>2 DEF OneByOne, LeftBehind, Waits, Initiable
        <5> QED
          BY <5>1, <5>2
      <4> QED
        BY <1>2, <4>3 DEF Phases
    <3>2. CASE pc[r] = "initiate" /\ p = "auth"
      <4>1. sid["put"][r] = 0
        BY <1>1, <1>4, <3>2 DEF OneByOne, StoreInStep, Waits, Phases
      <4>2. q # r => sid["put"][q] = 0 /\ sid["auth"][q] = 0
        BY <1>1, <1>3, <1>4, <3>2 DEF OneByOne, LeftBehind, Waits, Phases
      <4> QED
        BY <1>2, <3>2, <4>1, <4>2 DEF Phases
    <3>3. CASE pc[r] = "initiate" /\ p = "put"
      <4>1. sid["auth"][r] # 0 => kvs.state \in Initiable
        BY <1>1, <3>3 DEF OneByOne, StoreInStep, Waits
      <4>2. q # r => /\ sid["put"][q] = 0
                     /\ sid["auth"][q] # 0 => sid["auth"][r] # 0
        BY <1>3, <3>3 DEF OneByOne, LeftBehind, Waits
      <4> QED
        BY <1>2, <3>3, <4>1, <4>2 DEF Phases
    <3>4. p = "approval" => pc[r] = "approve"
      BY <1>1 DEF IInv, WaitersKnown
    <3> QED
      BY <1>8, <3>1, <3>2, <3>3, <3>4 DEF Phases
  <2>6. ShownIsStored'
    <3> SUFFICES ASSUME NEW q \in Requests, answer'[q] = "authorization"
                 PROVE  /\ kvs.state \in {"authorizationReceived", "transactionStatusReceived"}
                        /\ kvs.auth = data'[q].shown
      BY <1>1, <2>2 DEF ShownIsStored, Busy
    <3> QED
      BY <1>3, <2>1 DEF OneByOne, ShownIsStored
  <2> QED
    BY <2>3, <2>4, <2>5, <2>6
<1> QED
  BY <1>1, <1>7, <1>8 DEF IInv, WaitersKnown, Phases

LEMMA CrashOneByOne ==
  ASSUME IInv, IInv', OneByOne, Crash
  PROVE  OneByOne' /\ Forward
<1>1. /\ \A p \in Phases, r \in Requests : sid'[p][r] = 0
      /\ UNCHANGED <<kvs, answer, posts, approvals>>
  BY DEF Crash
<1>2. \A r \in Requests :
        /\ pc'[r] \notin Busy
        /\ pc[r] \notin Busy => data'[r] = data[r]
  BY DEF Crash, Busy
<1>3. OneServed' /\ StoreInStep'
  BY <1>2 DEF OneServed, StoreInStep, Busy
<1>4. LeftBehind'
  BY <1>1 DEF LeftBehind, Waits, Phases
<1>5. ShownIsStored'
  <2> SUFFICES ASSUME NEW q \in Requests, answer[q] = "authorization"
               PROVE  /\ kvs.state \in {"authorizationReceived", "transactionStatusReceived"}
                      /\ kvs.auth = data'[q].shown
    BY <1>1, <1>2 DEF ShownIsStored, Busy
  <2>1. data'[q] = data[q]
    BY <1>2 DEF IInv, Unanswered, Busy
  <2> QED
    BY <2>1 DEF OneByOne, ShownIsStored
<1>6. SignedForWhatWasShown'
  BY <1>1 DEF OneByOne, SignedForWhatWasShown
<1>7. Forward
  <2>1. Advances
    BY <1>1 DEF Advances
  <2> QED
    BY <1>1, <2>1, AdvancesForward
<1> QED
  BY <1>3, <1>4, <1>5, <1>6, <1>7 DEF OneByOne

\* A message that the request being served waits for: others may hear it too, but
\* that request stores last.  d is what it holds then, f what it ends with.
LEMMA DeliverServed ==
  ASSUME IInv, OneByOne, NEW p \in Phases, NEW message,
         p = "auth" => message \in Issued,
         p = "approval" => message \in {"ok", "error"},
         Deliver(p, message),
         NEW r \in Requests, Waits(r, p), pc[r] \in {"initiate", "approve"}
  PROVE  \E d, f \in Data :
           /\ d.state = data[r].state /\ f.state = data[r].state
           /\ d.auth = IF p = "auth" THEN message ELSE data[r].auth
           /\ f.auth = d.auth
           /\ d.status = IF p = "approval" THEN message ELSE data[r].status
           /\ f.status = d.status
           /\ pc[r] = "initiate" => f.shown = f.auth
           /\ IF Complete(r, got[r] \union {p})
              THEN /\ pc'[r] = "answered"
                   /\ \/ kvs' = f /\ data'[r] = f /\ answer'[r] = Response(f)
                      \/ /\ kvs' \in {f, IF p = "approval" THEN kvs ELSE d}
                         /\ answer'[r] = "500"
                         /\ data'[r] = Errored(f)
              ELSE /\ pc'[r] = pc[r] /\ answer'[r] = answer[r] /\ data'[r] = d
                   /\ kvs' = IF p = "approval" THEN kvs ELSE d
           /\ \A q \in Requests : q # r =>
                /\ pc[q] \notin Busy
                /\ pc'[q] = pc[q] /\ answer'[q] = answer[q] /\ data'[q].shown = data[q].shown
                /\ ~Waits(q, p) => data'[q] = data[q]
<1> DEFINE after == [q \in Requests |-> IF Waits(q, p) THEN Heard(p, message, data[q]) ELSE data[q]]
           phases == [q \in Requests |-> IF Waits(q, p) THEN got[q] \union {p} ELSE got[q]]
           done == {q \in Takers(p) : Complete(q, phases[q])}
           final == [q \in Requests |-> Completed(q, after[q])]
           listened == IF p = "approval" THEN kvs ELSE after[LastOf(Takers(p), p)]
<1>1. PICK outcome \in [done -> SaveOutcomes] :
        /\ kvs' = IF {q \in done : outcome[q] # "lost"} = {} THEN listened
                  ELSE final[LastOf({q \in done : outcome[q] # "lost"}, p)]
        /\ data' = [q \in Requests |->
                     IF q \notin done THEN after[q]
                     ELSE IF outcome[q] = "ok" THEN final[q] ELSE Errored(final[q])]
        /\ answer' = [q \in Requests |->
                       IF q \notin done THEN answer[q]
                       ELSE IF outcome[q] = "ok" THEN Response(final[q]) ELSE "500"]
  BY DEF Deliver
<1>2. pc' = [q \in Requests |-> IF q \in done THEN "answered" ELSE pc[q]]
  BY DEF Deliver
<1>3. \A q \in Requests :
        /\ after[q] \in Data /\ after[q].shown = data[q].shown /\ after[q].state = data[q].state
        /\ Waits(q, p) => /\ after[q].auth = IF p = "auth" THEN message ELSE data[q].auth
                          /\ after[q].status = IF p = "approval" THEN message ELSE data[q].status
        /\ ~Waits(q, p) => after[q] = data[q]
  <2>1. p = "auth" => message \in Authorizations
    BY DEF Issued, IInv, TypeOK
  <2>2. \A q \in Requests : data[q] \in Data
    BY DEF IInv, TypeOK
  <2>3. \A d \in Data : /\ Heard(p, message, d) \in Data
                        /\ Heard(p, message, d).shown = d.shown
                        /\ Heard(p, message, d).state = d.state
                        /\ Heard(p, message, d).auth = IF p = "auth" THEN message ELSE d.auth
                        /\ Heard(p, message, d).status = IF p = "approval" THEN message ELSE d.status
    <3> HIDE DEF after, phases, done, final, listened
    <3> QED
      BY <2>1, HeardType
  <2>4. \A q \in Requests :
          after[q] = IF Waits(q, p) THEN Heard(p, message, data[q]) ELSE data[q]
    OBVIOUS
  <2> HIDE DEF after
  <2> QED
    BY <2>2, <2>3, <2>4
<1>4. /\ phases[r] = got[r] \union {p}
      /\ final[r] = IF pc[r] = "initiate" THEN [after[r] EXCEPT !.shown = after[r].auth] ELSE after[r]
      /\ \A q \in Requests : q \in done <=> Waits(q, p) /\ Complete(q, phases[q])
      /\ done \subseteq Takers(p) /\ Takers(p) \subseteq Requests /\ r \in Takers(p)
  BY DEF Completed, Takers
<1>5. listened = IF p = "approval" THEN kvs ELSE after[LastOf(Takers(p), p)]
  OBVIOUS
<1> HIDE DEF after, phases, done, final, listened
<1>6. \A q \in Requests : q # r => pc[q] \notin Busy
  BY ServedAlone DEF Busy
<1>7. done \subseteq {r}
  BY <1>4, <1>6 DEF Complete, Busy
<1>8. LastOf(Takers(p), p) = r
  <2> DEFINE l == LastOf(Takers(p), p)
  <2>1. l \in Takers(p) /\ sid[p][r] <= sid[p][l]
    BY <1>4, LastOfType DEF IInv
  <2> HIDE DEF l
  <2>2. l \in Requests /\ Waits(l, p) /\ sid[p][l] \in Nat /\ sid[p][r] \in Nat
    BY <2>1 DEF Takers, IInv, TypeOK
  <2>3. ASSUME l # r PROVE FALSE
    <3>1. pc[l] \notin Busy
      BY <1>6, <2>2, <2>3
    <3>2. p # "approval" /\ pc[l] = "answered"
      BY <2>2, <3>1 DEF IInv, WaitersKnown, Phases, Busy
    <3>3. p = "auth" /\ pc[r] = "initiate"
      BY <2>2, <3>2 DEF OneByOne, LeftBehind, IInv, WaitersKnown, Phases
    <3>4. sid[p][l] < sid[p][r]
      BY <2>2, <3>2, <3>3 DEF OneByOne, LeftBehind
    <3> QED
      BY <2>1, <2>2, <3>4
  <2> QED
    BY <2>3 DEF l
<1>9. /\ final[r] \in Data
      /\ final[r].state = data[r].state
      /\ final[r].auth = after[r].auth /\ final[r].status = after[r].status
      /\ pc[r] = "initiate" => final[r].shown = final[r].auth
  BY <1>3, <1>4 DEF Data
<1>10. IF Complete(r, got[r] \union {p})
       THEN /\ pc'[r] = "answered"
            /\ \/ kvs' = final[r] /\ data'[r] = final[r] /\ answer'[r] = Response(final[r])
               \/ /\ kvs' \in {final[r], IF p = "approval" THEN kvs ELSE after[r]}
                  /\ answer'[r] = "500"
                  /\ data'[r] = Errored(final[r])
       ELSE /\ pc'[r] = pc[r] /\ answer'[r] = answer[r] /\ data'[r] = after[r]
            /\ kvs' = IF p = "approval" THEN kvs ELSE after[r]
  <2>1. listened = IF p = "approval" THEN kvs ELSE after[r]
    BY <1>5, <1>8
  <2>2. CASE Complete(r, got[r] \union {p})
    <3>1. done = {r}
      BY <1>4, <1>7, <2>2
    <3>2. LastOf({r}, p) = r
      BY LastOfType DEF IInv
    <3>3. {q \in done : outcome[q] # "lost"} = IF outcome[r] = "lost" THEN {} ELSE {r}
      BY <3>1
    <3>4. kvs' = IF outcome[r] = "lost" THEN listened ELSE final[r]
      BY <1>1, <3>2, <3>3
    <3>5. outcome[r] \in {"ok", "lost", "unsure"}
      BY <1>1, <3>1 DEF SaveOutcomes
    <3> QED
      BY <1>1, <1>2, <2>1, <2>2, <3>1, <3>4, <3>5
  <2>3. CASE ~Complete(r, got[r] \union {p})
    <3>1. done = {}
      BY <1>4, <1>7, <2>3
    <3> QED
      BY <1>1, <1>2, <2>1, <2>3, <3>1
  <2> QED
    BY <2>2, <2>3
<1>11. \A q \in Requests : q # r =>
         /\ pc[q] \notin Busy
         /\ pc'[q] = pc[q] /\ answer'[q] = answer[q] /\ data'[q].shown = data[q].shown
         /\ ~Waits(q, p) => data'[q] = data[q]
  BY <1>1, <1>2, <1>3, <1>6, <1>7
<1>12. /\ after[r] \in Data /\ after[r].state = data[r].state
       /\ after[r].auth = IF p = "auth" THEN message ELSE data[r].auth
       /\ after[r].status = IF p = "approval" THEN message ELSE data[r].status
  BY <1>3
<1>13. \E d, f \in Data : d = after[r] /\ f = final[r]
  BY <1>9, <1>12
<1> QED
  BY <1>9, <1>10, <1>11, <1>12, <1>13

\* A message that only a failed initiation waits for: the late authorization, which
\* its listener stores together with the state "errored".
LEMMA DeliverLeft ==
  ASSUME IInv, OneByOne, NEW p \in Phases, NEW message,
         p = "auth" => message \in Issued,
         p = "approval" => message \in {"ok", "error"},
         Deliver(p, message),
         \A r \in Takers(p) : pc[r] \notin {"initiate", "approve"}
  PROVE  /\ p = "auth"
         /\ kvs.state \in Initiable /\ kvs'.state = "errored"
         /\ \A r \in Requests : pc[r] # "initiate"
         /\ UNCHANGED <<pc, answer>>
         /\ \A q \in Requests :
              /\ data'[q].shown = data[q].shown
              /\ ~Waits(q, p) => data'[q] = data[q]
<1> DEFINE after == [q \in Requests |-> IF Waits(q, p) THEN Heard(p, message, data[q]) ELSE data[q]]
           phases == [q \in Requests |-> IF Waits(q, p) THEN got[q] \union {p} ELSE got[q]]
           done == {q \in Takers(p) : Complete(q, phases[q])}
           l == LastOf(Takers(p), p)
<1>1. done = {}
  BY DEF Complete
<1>2. /\ Takers(p) # {}
      /\ kvs' = IF p = "approval" THEN kvs ELSE after[l]
      /\ data' = after
      /\ answer' = [q \in Requests |-> answer[q]]
      /\ pc' = [q \in Requests |-> pc[q]]
  BY <1>1 DEF Deliver
<1>3. l \in Takers(p) /\ Takers(p) \subseteq Requests
  BY <1>2, LastOfType DEF IInv, Takers
<1>4. \A q \in Requests :
        /\ after[q].shown = data[q].shown /\ after[q].state = data[q].state
        /\ ~Waits(q, p) => after[q] = data[q]
  <2>1. p = "auth" => message \in Authorizations
    BY DEF Issued, IInv, TypeOK
  <2>2. \A q \in Requests : data[q] \in Data
    BY DEF IInv, TypeOK
  <2>3. \A d \in Data : /\ Heard(p, message, d) \in Data
                        /\ Heard(p, message, d).shown = d.shown
                        /\ Heard(p, message, d).state = d.state
                        /\ Heard(p, message, d).auth = IF p = "auth" THEN message ELSE d.auth
                        /\ Heard(p, message, d).status = IF p = "approval" THEN message ELSE d.status
    BY <2>1, HeardType
  <2>4. \A q \in Requests :
          after[q] = IF Waits(q, p) THEN Heard(p, message, data[q]) ELSE data[q]
    OBVIOUS
  <2> HIDE DEF after
  <2> QED
    BY <2>2, <2>3, <2>4
<1> HIDE DEF after, phases, done, l
<1>5. Waits(l, p) /\ l \in Requests /\ pc[l] \notin {"initiate", "approve"}
  BY <1>3 DEF Takers
<1>6. p # "approval" /\ pc[l] = "answered" /\ data[l].state = "errored"
  BY <1>5 DEF IInv, WaitersKnown, Phases
<1>7. p = "auth"
  BY <1>5, <1>6 DEF OneByOne, LeftBehind, Phases
<1>8. \A r \in Requests : pc[r] # "initiate"
  <2> SUFFICES ASSUME NEW r \in Requests, pc[r] = "initiate" PROVE FALSE
    OBVIOUS
  <2>1. Waits(r, "auth")
    BY <1>5, <1>6, <1>7 DEF OneByOne, LeftBehind
  <2> QED
    BY <1>7, <2>1 DEF Takers
<1>9. kvs.state \in Initiable
  BY <1>5, <1>6, <1>7, <1>8 DEF OneByOne, LeftBehind
<1>10. UNCHANGED <<pc, answer>>
  BY <1>2 DEF IInv, TypeOK
<1> QED
  BY <1>2, <1>4, <1>5, <1>6, <1>7, <1>8, <1>9, <1>10

LEMMA DeliverOneByOne ==
  ASSUME IInv, IInv', OneByOne, NEW p \in Phases, NEW message,
         p = "auth" => message \in Issued,
         p = "approval" => message \in {"ok", "error"},
         Deliver(p, message)
  PROVE  OneByOne' /\ Forward
<1>1. UNCHANGED <<approvals, posts>>
  BY DEF Deliver
<1>2. \A o \in Phases, r \in Requests : sid'[o][r] = IF o = p THEN 0 ELSE sid[o][r]
  BY DEF Deliver, IInv, TypeOK
<1>3. SignedForWhatWasShown'
  BY <1>1 DEF OneByOne, SignedForWhatWasShown
<1>4. kvs.state \in States
  BY DEF IInv, TypeOK, Data
<1>5. ASSUME NEW r \in Requests, Waits(r, p), pc[r] \in {"initiate", "approve"}
      PROVE  OneByOne' /\ Forward
  <2>1. PICK d, f \in Data :
           /\ d.state = data[r].state /\ f.state = data[r].state
           /\ d.auth = IF p = "auth" THEN message ELSE data[r].auth
           /\ f.auth = d.auth
           /\ d.status = IF p = "approval" THEN message ELSE data[r].status
           /\ f.status = d.status
           /\ pc[r] = "initiate" => f.shown = f.auth
           /\ IF Complete(r, got[r] \union {p})
              THEN /\ pc'[r] = "answered"
                   /\ \/ kvs' = f /\ data'[r] = f /\ answer'[r] = Response(f)
                      \/ /\ kvs' \in {f, IF p = "approval" THEN kvs ELSE d}
                         /\ answer'[r] = "500"
                         /\ data'[r] = Errored(f)
              ELSE /\ pc'[r] = pc[r] /\ answer'[r] = answer[r] /\ data'[r] = d
                   /\ kvs' = IF p = "approval" THEN kvs ELSE d
           /\ \A q \in Requests : q # r =>
                /\ pc[q] \notin Busy
                /\ pc'[q] = pc[q] /\ answer'[q] = answer[q] /\ data'[q].shown = data[q].shown
                /\ ~Waits(q, p) => data'[q] = data[q]
    BY <1>5, DeliverServed
  <2>2. got'[r] = got[r] \union {p}
    BY <1>5 DEF Deliver
  <2>3. \A q \in Requests : q # r => pc[q] \notin Busy /\ pc'[q] \notin Busy
    BY <2>1
  <2>4. OneServed'
    BY <2>3 DEF OneServed
  <2>5. CASE pc[r] = "initiate"
    <3>1. p \in {"put", "auth"}
      BY <1>5, <2>5 DEF IInv, WaitersKnown, Phases
    <3>2. /\ kvs'.state = "authorizationReceived"
          /\ kvs.state \in Initiable \union {"authorizationReceived"}
      <4>1. data[r].state = "authorizationReceived"
        BY <2>5 DEF IInv, HeldSound
      <4>2. kvs' \in {d, f}
        BY <2>1, <3>1
      <4> QED
        BY <2>1, <2>5, <4>1, <4>2 DEF OneByOne, StoreInStep
    <3>3. StoreInStep'
      <4>1. pc'[r] \in {"initiate", "answered"}
        BY <2>1, <2>5
      <4>2. ~(sid'["put"][r] # 0 /\ sid'["auth"][r] # 0)
        BY <1>2, <3>1 DEF Phases
      <4> QED
        BY <2>3, <3>2, <4>1, <4>2 DEF StoreInStep, Waits, Busy
    <3>4. LeftBehind'
      <4> SUFFICES ASSUME NEW q \in Requests, pc'[q] = "answered"
                   PROVE  /\ sid'["put"][q] = 0
                          /\ sid'["auth"][q] # 0 =>
                               /\ pc'[r] = "initiate"
                               /\ \A o \in Requests : pc'[o] = "initiate" =>
                                    sid'["auth"][o] # 0 /\ sid'["auth"][q] < sid'["auth"][o]
        BY DEF LeftBehind, Waits
      <4>1. CASE q = r
        <5>1. {"put", "auth"} \subseteq got'[r]
          BY <2>1, <2>2, <2>5, <4>1 DEF Complete
        <5> QED
          BY <4>1, <5>1 DEF IInv, WaitersKnown, Waits
      <4>2. CASE q # r
        <5>1. /\ sid["put"][q] = 0
              /\ sid["auth"][q] # 0 => sid["auth"][r] # 0 /\ sid["auth"][q] < sid["auth"][r]
          BY <2>1, <2>5, <4>2 DEF OneByOne, LeftBehind, Waits
        <5>2. sid'["put"][q] = 0
          BY <1>2, <5>1 DEF Phases
        <5>3. ASSUME sid'["auth"][q] # 0
              PROVE  /\ pc'[r] = "initiate"
                     /\ sid'["auth"][r] # 0 /\ sid'["auth"][q] < sid'["auth"][r]
          <6>1. /\ p = "put" /\ sid["auth"][q] # 0 /\ sid["auth"][r] # 0
                /\ sid["auth"][q] < sid["auth"][r]
                /\ sid'["auth"][q] = sid["auth"][q] /\ sid'["auth"][r] = sid["auth"][r]
            BY <1>2, <3>1, <5>1, <5>3 DEF Phases
          <6>2. "auth" \notin got[r]
            BY <6>1 DEF IInv, WaitersKnown, Waits
          <6>3. ~Complete(r, got[r] \union {p})
            BY <2>5, <6>1, <6>2 DEF Complete
          <6> QED
            BY <2>1, <2>5, <6>1, <6>3
        <5>4. \A o \in Requests : pc'[o] = "initiate" => o = r
          BY <2>3 DEF Busy
        <5> QED
          BY <5>2, <5>3, <5>4
      <4> QED
        BY <4>1, <4>2
    <3>5. ShownIsStored'
      <4> SUFFICES ASSUME NEW q \in Requests, answer'[q] = "authorization"
                   PROVE  kvs'.auth = data'[q].shown /\ pc'[r] # "initiate"
        BY <2>3, <3>2 DEF ShownIsStored, Busy
      <4>1. q = r
        <5>1. q # r => answer[q] = "authorization"
          BY <2>1
        <5> QED
          BY <2>5, <5>1 DEF OneByOne, ShownIsStored
      <4>2. answer[r] = "none"
        BY <2>5 DEF IInv, Unanswered
      <4> QED
        BY <2>1, <2>5, <4>1, <4>2
    <3>6. Forward
      BY <3>2 DEF Forward, Rank, Initiable
    <3> QED
      BY <1>3, <2>4, <3>3, <3>4, <3>5, <3>6 DEF OneByOne
  <2>6. CASE pc[r] = "approve"
    <3>1. p = "approval" /\ Complete(r, got[r] \union {p})
      BY <1>5, <2>6 DEF IInv, WaitersKnown, Phases, Complete
    <3>2. /\ kvs.state = "authorizationReceived" /\ data[r].auth = kvs.auth
          /\ data[r].state = "transactionStatusReceived"
      BY <2>6 DEF OneByOne, StoreInStep, IInv, HeldSound
    <3>3. /\ kvs' \in {kvs, f} /\ f.state = "transactionStatusReceived" /\ f.auth = kvs.auth
          /\ pc'[r] = "answered" /\ answer'[r] \in {"500", Response(f)}
      BY <2>1, <3>1, <3>2
    <3>4. StoreInStep'
      BY <2>3, <3>3 DEF StoreInStep, Busy
    <3>5. LeftBehind'
      <4> SUFFICES ASSUME NEW q \in Requests, pc'[q] = "answered"
                   PROVE  sid'["put"][q] = 0 /\ sid'["auth"][q] = 0
        BY DEF LeftBehind, Waits
      <4>1. \A o \in Requests : pc[o] # "initiate"
        BY <2>3, <2>6 DEF Busy
      <4>2. sid["put"][q] = 0 /\ sid["auth"][q] = 0
        <5>1. CASE q = r
          BY <2>6, <5>1 DEF IInv, WaitersKnown, Waits
        <5>2. CASE q # r
          BY <2>1, <3>2, <4>1, <5>2 DEF OneByOne, LeftBehind, Waits, Initiable
        <5> QED
          BY <5>1, <5>2
      <4> QED
        BY <1>2, <4>2 DEF Phases
    <3>6. ShownIsStored'
      <4> SUFFICES ASSUME NEW q \in Requests, answer'[q] = "authorization"
                   PROVE  kvs.auth = data'[q].shown
        BY <2>3, <3>2, <3>3 DEF ShownIsStored, Busy
      <4>1. q # r
        BY <3>3 DEF Response
      <4>2. answer[q] = "authorization" /\ data'[q].shown = data[q].shown
        BY <2>1, <4>1
      <4> QED
        BY <4>2 DEF OneByOne, ShownIsStored
    <3>7. Forward
      BY <1>1, <3>2, <3>3 DEF Forward, Rank
    <3> QED
      BY <1>3, <2>4, <3>4, <3>5, <3>6, <3>7 DEF OneByOne
  <2> QED
    BY <1>5, <2>5, <2>6
<1>6. ASSUME \A r \in Takers(p) : pc[r] \notin {"initiate", "approve"}
      PROVE  OneByOne' /\ Forward
  <2>1. /\ p = "auth"
        /\ kvs.state \in Initiable /\ kvs'.state = "errored"
        /\ \A r \in Requests : pc[r] # "initiate"
        /\ UNCHANGED <<pc, answer>>
        /\ \A q \in Requests :
             /\ data'[q].shown = data[q].shown
             /\ ~Waits(q, p) => data'[q] = data[q]
    BY <1>6, DeliverLeft
  <2>2. OneServed'
    BY <2>1 DEF OneByOne, OneServed
  <2>3. StoreInStep'
    <3> SUFFICES ASSUME NEW r \in Requests
                 PROVE  /\ pc[r] \notin {"absent", "lookup", "initiate", "approve"}
                        /\ pc[r] = "loaded" => data'[r].state \in Initiable
      BY <2>1 DEF StoreInStep
    <3>1. pc[r] \notin {"absent", "lookup", "initiate", "approve"}
      BY <2>1 DEF OneByOne, StoreInStep, Initiable
    <3>2. pc[r] = "loaded" => data'[r] = data[r]
      BY <2>1 DEF IInv, WaitersKnown
    <3> QED
      BY <2>1, <3>1, <3>2 DEF OneByOne, StoreInStep
  <2>4. LeftBehind'
    <3>1. \A q \in Requests : sid'["auth"][q] = 0 /\ sid'["put"][q] = sid["put"][q]
      BY <1>2, <2>1 DEF Phases
    <3> QED
      BY <2>1, <3>1 DEF OneByOne, LeftBehind, Waits
  <2>5. ShownIsStored'
    BY <2>1 DEF OneByOne, ShownIsStored, Initiable
  <2>6. Forward
    BY <2>1 DEF Forward, Rank, Initiable
  <2> QED
    BY <1>3, <2>2, <2>3, <2>4, <2>5, <2>6 DEF OneByOne
<1> QED
  BY <1>5, <1>6 DEF Takers

LEMMA NextOneByOne ==
  ASSUME IInv, IInv', OneByOne, SignedWasShown, [Next]_vars
  PROVE  OneByOne' /\ Forward
<1>1. ASSUME NEW r \in Requests, NEW p \in Phases, SendFails(r, p) \/ TimerExpires(r, p)
      PROVE  OneByOne' /\ Forward
  <2>1. CASE SendFails(r, p)
    BY <2>1, GiveUpOneByOne DEF SendFails
  <2>2. CASE TimerExpires(r, p)
    BY <2>2, GiveUpOneByOne DEF TimerExpires, SameTimer
  <2> QED
    BY <1>1, <2>1, <2>2
<1>2. CASE TransactionPut \/ TransactionPatch \/ TransactionError
  BY <1>2, DeliverOneByOne DEF TransactionPut, TransactionPatch, TransactionError, Phases
<1>3. CASE AuthorizationPost
  <2>1. PICK a \in Issued : Deliver("auth", a)
    BY <1>3 DEF AuthorizationPost
  <2> QED
    BY <2>1, DeliverOneByOne DEF Phases
<1>4. CASE UNCHANGED vars
  <2>1. OneByOne'
    BY <1>4 DEF vars, OneByOne, OneServed, StoreInStep, LeftBehind, ShownIsStored,
                SignedForWhatWasShown, Waits
  <2>2. Advances
    BY <1>4 DEF vars, Advances
  <2> QED
    BY <1>4, <2>1, <2>2, AdvancesForward DEF vars
<1> QED
  BY <1>1, <1>2, <1>3, <1>4, ArriveOneByOne, StepOneByOne, CrashOneByOne DEF Next, DfspAnswers

\* For a client that sends one request at a time, whatever faults, timeouts, late
\* messages and restarts there are, the invariant holds.
LEMMA OneByOneInvariance == Spec /\ ~Concurrent => []OneByOne
<1>1. Init /\ ~Concurrent => OneByOne
  BY DEF Init, OneByOne, OneServed, StoreInStep, LeftBehind, ShownIsStored,
         SignedForWhatWasShown, Busy
<1>2. IInv /\ IInv' /\ OneByOne /\ SignedWasShown /\ [Next]_vars => OneByOne'
  BY NextOneByOne
<1> QED
  BY <1>1, <1>2, Invariance, Signed, PTL DEF Spec

\* For such a client, every signature the DFSP is sent, unless it was made blindly,
\* is one of the authorization it is sent under.
THEOREM SignedFor == Spec /\ ~Concurrent => []SignedForWhatWasShown
<1>1. OneByOne => SignedForWhatWasShown
  BY DEF OneByOne
<1> QED
  BY <1>1, OneByOneInvariance, PTL

\* For such a client, all approvals the auth-service can confirm are for one
\* authorization: the one that is stored.
THEOREM OneOnly == Spec /\ ~Concurrent => []OneConsent
<1>1. IInv /\ OneByOne /\ SignedWasShown => OneConsent
  <2> SUFFICES ASSUME IInv, OneByOne, SignedWasShown,
                      NEW a \in approvals, NEW b \in approvals,
                      a.signed = a.auth, b.signed = b.auth
               PROVE  a = b
    BY DEF OneConsent
  <2>1. \A c \in approvals : /\ c \in [auth : Authorizations, signed : Authorizations \union {"blind"}]
                             /\ c.signed = c.auth => c.signed \in Shown
    BY DEF IInv, TypeOK, SignedWasShown
  <2>2. \A s \in Shown : s = kvs.auth
    BY DEF Shown, OneByOne, ShownIsStored
  <2> QED
    BY <2>1, <2>2
<1> QED
  BY <1>1, Invariance, Signed, OneByOneInvariance, PTL

LEMMA ForwardAlways == Spec /\ ~Concurrent => [][Forward]_vars
<1>1. IInv /\ IInv' /\ OneByOne /\ SignedWasShown /\ [Next]_vars => [Forward]_vars
  BY NextOneByOne
<1> QED
  BY <1>1, Invariance, Signed, OneByOneInvariance, PTL DEF Spec

\* For such a client the stored state never goes back to an earlier phase: no late
\* listener of a failed initiation, no crash and no lost or doubtful write undoes
\* what a later request has stored.
THEOREM NeverBack == Spec /\ ~Concurrent => OnlyForward
<1>1. [Forward]_vars => [Rank(kvs'.state) >= Rank(kvs.state)]_vars
  BY DEF Forward
<1> QED
  BY <1>1, ForwardAlways, PTL DEF OnlyForward

\* For such a client, once a final status is stored the DFSP is sent nothing more
\* and the status stays.
THEOREM FinalStays == Spec /\ ~Concurrent => FinalIsFinal
<1>1. [Forward]_vars =>
        [kvs.state = "transactionStatusReceived" =>
           UNCHANGED <<approvals, posts>> /\ kvs'.status = kvs.status]_vars
  BY DEF Forward
<1> QED
  BY <1>1, ForwardAlways, PTL DEF FinalIsFinal

-----------------------------------------------------------------------------
(* Where a status comes from, for such a client.                           *)

PaidUp == kvs.state = "transactionStatusReceived" /\ kvs.status = "ok"

\* A step that brings no status: whoever is told one was told before, or is told
\* what is stored.
StatusKept ==
  /\ PaidUp' => PaidUp /\ kvs'.auth = kvs.auth
  /\ \A r \in Requests : answer'[r] = "status" =>
       \/ answer[r] = "status" /\ data'[r].auth = data[r].auth
       \/ PaidUp /\ data'[r].auth = kvs.auth

\* One request moves, with an answer that is no status or is the stored one.
LEMMA OneStatusKept ==
  ASSUME NEW r \in Requests,
         \A q \in Requests \ {r} : data'[q] = data[q] /\ answer'[q] = answer[q],
         answer'[r] = "status" => PaidUp /\ data'[r].auth = kvs.auth,
         \/ UNCHANGED kvs
         \/ kvs'.state # "transactionStatusReceived"
         \/ PaidUp' => PaidUp /\ kvs'.auth = kvs.auth
  PROVE  StatusKept
BY DEF StatusKept, PaidUp

LEMMA FinishStatusKept ==
  ASSUME IInv, NEW r \in Requests, NEW d \in Data, Sound(d), Finish(r, d),
         d.state = "transactionStatusReceived" =>
           kvs.state = d.state /\ d.auth = kvs.auth /\ d.status = kvs.status
  PROVE  StatusKept
<1>1. PICK outcome \in SaveOutcomes :
        /\ kvs' = Saved(outcome, d)
        /\ data' = [data EXCEPT ![r] = IF outcome = "ok" THEN d ELSE Errored(d)]
        /\ answer' = [answer EXCEPT ![r] = IF outcome = "ok" THEN Response(d) ELSE "500"]
  BY DEF Finish
<1>2. Response(d) = "status" => d.state = "transactionStatusReceived" /\ d.status = "ok"
  <2>1. d.status \in {"none", "ok", "error"}
    BY DEF Data
  <2> QED
    BY <2>1 DEF Response, Sound
<1>3. /\ answer'[r] = "status" => PaidUp /\ data'[r].auth = kvs.auth
      /\ \A q \in Requests \ {r} : data'[q] = data[q] /\ answer'[q] = answer[q]
  BY <1>1, <1>2 DEF IInv, TypeOK, PaidUp
<1>4. PaidUp' => PaidUp /\ kvs'.auth = kvs.auth
  BY <1>1 DEF Saved, PaidUp
<1> QED
  BY <1>3, <1>4, OneStatusKept

LEMMA StartStatusKept ==
  ASSUME IInv, NEW r \in Requests, answer[r] = "none",
         NEW d \in Data, d.state = "start", Start(r, d)
  PROVE  StatusKept
<1>1. /\ \E outcome \in SaveOutcomes : kvs' = Saved(outcome, d)
      /\ answer'[r] # "status"
      /\ \A q \in Requests \ {r} : data'[q] = data[q] /\ answer'[q] = answer[q]
  BY DEF Start, Fail, IInv, TypeOK
<1> QED
  BY <1>1, OneStatusKept DEF Saved

LEMMA StepStatusKept ==
  ASSUME IInv, OneByOne, NEW r \in Requests, Step(r)
  PROVE  StatusKept
<1>0. data[r] \in Data
  BY DEF IInv, TypeOK
<1>1. answer[r] = "none"
  BY DEF Step, ReadFails, LookupConflict, LookupCreate, LookupDone, LookupFails, RunAbsent,
         RunRefused, RunStart, RunInitiate, RunApprove, RunOver, IInv, Unanswered
<1>2. ASSUME Fail(r), UNCHANGED kvs PROVE StatusKept
  <2>1. answer'[r] = "500" /\ \A q \in Requests \ {r} : data'[q] = data[q] /\ answer'[q] = answer[q]
    BY <1>2 DEF Fail, IInv, TypeOK
  <2> QED
    BY <1>2, <2>1, OneStatusKept
<1>3. ASSUME UNCHANGED kvs, answer'[r] # "status",
             \A q \in Requests \ {r} : data'[q] = data[q] /\ answer'[q] = answer[q]
      PROVE  StatusKept
  BY <1>3, OneStatusKept
<1>4. CASE ReadFails(r) \/ LookupConflict(r) \/ RunAbsent(r)
  BY <1>3, <1>4 DEF ReadFails, LookupConflict, RunAbsent, IInv, TypeOK
<1>5. CASE LookupCreate(r)
  <2>1. [NoData EXCEPT !.state = "start"] \in Data /\ [NoData EXCEPT !.state = "start"].state = "start"
    BY DEF NoData, Data, States
  <2> QED
    BY <1>1, <1>5, <2>1, StartStatusKept DEF LookupCreate
<1>6. CASE LookupDone(r)
  <2> DEFINE found == [data[r] EXCEPT !.state = "partyLookupSuccess", !.lookup = "ok"]
             unknown == [data[r] EXCEPT !.state = "partyLookupFailure", !.lookup = "error"]
  <2>1. \A d \in {found, unknown} : d \in Data /\ d.state # "transactionStatusReceived" /\ Sound(d)
    BY <1>0 DEF Data, States, Sound
  <2>2. PICK d \in {found, unknown} : Finish(r, d)
    BY <1>6 DEF LookupDone
  <2> QED
    BY <2>1, <2>2, FinishStatusKept
<1>7. CASE LookupFails(r) \/ RunRefused(r)
  BY <1>2, <1>7 DEF LookupFails, RunRefused
<1>8. CASE RunStart(r)
  BY <1>0, <1>1, <1>8, StartStatusKept DEF RunStart
<1>9. CASE RunInitiate(r)
  <2>1. CASE data[r].init
    BY <1>1, <1>3, <1>9, <2>1 DEF RunInitiate, IInv, TypeOK
  <2>2. CASE ~data[r].init
    BY <1>2, <1>9, <2>2 DEF RunInitiate
  <2> QED
    BY <2>1, <2>2
<1>10. CASE RunApprove(r)
  <2>1. CASE data[r].init /\ data[r].signed # "none" /\ data[r].auth # "none"
    BY <1>1, <1>3, <1>10, <2>1 DEF RunApprove, IInv, TypeOK
  <2>2. CASE ~(data[r].init /\ data[r].signed # "none" /\ data[r].auth # "none")
    BY <1>2, <1>10, <2>2 DEF RunApprove
  <2> QED
    BY <2>1, <2>2
<1>11. CASE RunOver(r)
  <2>1. Finish(r, data[r]) /\ Sound(data[r]) /\ pc[r] = "loaded"
    BY <1>11 DEF RunOver, IInv, HeldSound
  <2>2. data[r].state = "transactionStatusReceived" =>
          kvs.state = data[r].state /\ data[r].auth = kvs.auth /\ data[r].status = kvs.status
    BY <2>1 DEF OneByOne, StoreInStep, Initiable
  <2> QED
    BY <1>0, <2>1, <2>2, FinishStatusKept
<1> QED
  BY <1>4, <1>5, <1>6, <1>7, <1>8, <1>9, <1>10, <1>11 DEF Step

\* A message brings a status only to a request that approves; what it stores, and
\* answers, is about the authorization that was stored.
LEMMA DeliverStatus ==
  ASSUME IInv, OneByOne, NEW p \in Phases, NEW message,
         p = "auth" => message \in Issued,
         p = "approval" => message \in {"ok", "error"},
         Deliver(p, message)
  PROVE  \/ StatusKept
         \/ /\ p = "approval" /\ message = "ok"
            /\ kvs'.auth = kvs.auth
            /\ \A r \in Requests : answer'[r] = "status" =>
                 \/ answer[r] = "status" /\ data'[r].auth = data[r].auth
                 \/ data'[r].auth = kvs.auth
<1>1. \A q \in Requests : answer[q] = "status" => ~Waits(q, p)
  BY DEF IInv, WaitersKnown, Unanswered, Phases
<1>2. ASSUME NEW r \in Requests, Waits(r, p), pc[r] \in {"initiate", "approve"}
      PROVE  \/ StatusKept
             \/ /\ p = "approval" /\ message = "ok"
                /\ kvs'.auth = kvs.auth
                /\ \A q \in Requests : answer'[q] = "status" =>
                     \/ answer[q] = "status" /\ data'[q].auth = data[q].auth
                     \/ data'[q].auth = kvs.auth
  <2>1. PICK d, f \in Data :
           /\ d.state = data[r].state /\ f.state = data[r].state
           /\ d.auth = IF p = "auth" THEN message ELSE data[r].auth
           /\ f.auth = d.auth
           /\ d.status = IF p = "approval" THEN message ELSE data[r].status
           /\ f.status = d.status
           /\ pc[r] = "initiate" => f.shown = f.auth
           /\ IF Complete(r, got[r] \union {p})
              THEN /\ pc'[r] = "answered"
                   /\ \/ kvs' = f /\ data'[r] = f /\ answer'[r] = Response(f)
                      \/ /\ kvs' \in {f, IF p = "approval" THEN kvs ELSE d}
                         /\ answer'[r] = "500"
                         /\ data'[r] = Errored(f)
              ELSE /\ pc'[r] = pc[r] /\ answer'[r] = answer[r] /\ data'[r] = d
                   /\ kvs' = IF p = "approval" THEN kvs ELSE d
           /\ \A q \in Requests : q # r =>
                /\ pc[q] \notin Busy
                /\ pc'[q] = pc[q] /\ answer'[q] = answer[q] /\ data'[q].shown = data[q].shown
                /\ ~Waits(q, p) => data'[q] = data[q]
    BY <1>2, DeliverServed
  <2>2. \A q \in Requests \ {r} : answer'[q] = "status" =>
          answer[q] = "status" /\ data'[q].auth = data[q].auth
    BY <1>1, <2>1
  <2>3. answer[r] = "none"
    BY <1>2 DEF IInv, Unanswered
  <2>4. CASE pc[r] = "initiate"
    <3>1. p \in {"put", "auth"} /\ data[r].state = "authorizationReceived"
      BY <1>2, <2>4 DEF IInv, WaitersKnown, HeldSound, Phases
    <3>2. kvs' \in {d, f} /\ answer'[r] \in {"none", "500", Response(f)}
      BY <2>1, <2>3, <3>1
    <3>3. ~PaidUp' /\ answer'[r] # "status"
      BY <2>1, <3>1, <3>2 DEF PaidUp, Response
    <3> QED
      BY <2>2, <3>3 DEF StatusKept
  <2>5. CASE pc[r] = "approve"
    <3>1. p = "approval" /\ Complete(r, got[r] \union {p})
      BY <1>2, <2>5 DEF IInv, WaitersKnown, Phases, Complete
    <3>2. /\ kvs.state = "authorizationReceived" /\ data[r].auth = kvs.auth
          /\ data[r].state = "transactionStatusReceived"
      BY <2>5 DEF OneByOne, StoreInStep, IInv, HeldSound
    <3>3. /\ kvs' \in {kvs, f} /\ f.auth = kvs.auth /\ f.status = message
          /\ \/ data'[r] = f /\ answer'[r] = Response(f)
             \/ answer'[r] = "500"
      BY <2>1, <3>1, <3>2
    <3>4. CASE message = "ok"
      BY <2>2, <3>1, <3>3, <3>4
    <3>5. CASE message = "error"
      <4>1. ~PaidUp' /\ answer'[r] # "status"
        BY <2>1, <3>2, <3>3, <3>5 DEF PaidUp, Response
      <4> QED
        BY <2>2, <4>1 DEF StatusKept
    <3> QED
      BY <3>1, <3>4, <3>5
  <2> QED
    BY <1>2, <2>4, <2>5
<1>3. ASSUME \A r \in Takers(p) : pc[r] \notin {"initiate", "approve"} PROVE StatusKept
  <2>1. /\ kvs'.state = "errored"
        /\ UNCHANGED <<pc, answer>>
        /\ \A q \in Requests : ~Waits(q, p) => data'[q] = data[q]
    BY <1>3, DeliverLeft
  <2> QED
    BY <1>1, <2>1 DEF StatusKept, PaidUp
<1> QED
  BY <1>2, <1>3 DEF Takers

\* Every step but the DFSP's PATCH brings no status.
LEMMA OtherStatusKept ==
  ASSUME IInv, OneByOne,
         \/ \E r \in Requests : \/ Arrive(r) \/ Step(r)
                                \/ \E p \in Phases : SendFails(r, p) \/ TimerExpires(r, p)
         \/ Deliver("put", "ok")
         \/ AuthorizationPost
         \/ TransactionError
         \/ Crash
         \/ UNCHANGED vars
  PROVE  StatusKept
<1>1. ASSUME NEW r \in Requests, Arrive(r) PROVE StatusKept
  <2>1. /\ UNCHANGED <<kvs, answer>> /\ pc[r] # "answered"
        /\ \A q \in Requests \ {r} : data'[q] = data[q]
    BY <1>1 DEF Arrive, Lookup, Initiate, Approve, Load, MayArrive, IInv, TypeOK
  <2>2. answer'[r] # "status"
    BY <2>1 DEF IInv, Unanswered
  <2> QED
    BY <2>1, <2>2, OneStatusKept
<1>2. ASSUME NEW r \in Requests, NEW p \in Phases, GiveUp(r, p) PROVE StatusKept
  <2>1. UNCHANGED kvs
    BY <1>2 DEF GiveUp
  <2>2. CASE pc[r] \in {"initiate", "approve"}
    <3>1. answer'[r] = "500" /\ \A q \in Requests \ {r} : data'[q] = data[q] /\ answer'[q] = answer[q]
      BY <1>2, <2>2 DEF GiveUp, Fail, IInv, TypeOK
    <3> QED
      BY <2>1, <3>1, OneStatusKept
  <2>3. CASE pc[r] \notin {"initiate", "approve"}
    BY <1>2, <2>1, <2>3 DEF GiveUp, StatusKept, PaidUp
  <2> QED
    BY <2>2, <2>3
<1>3. CASE Crash
  <2>1. UNCHANGED <<kvs, answer>> /\ \A r \in Requests : pc[r] = "answered" => data'[r] = data[r]
    BY <1>3 DEF Crash, Busy
  <2> QED
    BY <2>1 DEF StatusKept, PaidUp, IInv, Unanswered
<1>4. CASE Deliver("put", "ok")
  BY <1>4, DeliverStatus DEF Phases
<1>5. CASE AuthorizationPost
  <2>1. PICK a \in Issued : Deliver("auth", a)
    BY <1>5 DEF AuthorizationPost
  <2> QED
    BY <2>1, DeliverStatus DEF Phases
<1>6. CASE TransactionError
  BY <1>6, DeliverStatus DEF TransactionError, Phases
<1>7. CASE UNCHANGED vars
  BY <1>7 DEF vars, StatusKept, PaidUp
<1> QED
  BY <1>1, <1>2, <1>3, <1>4, <1>5, <1>6, <1>7, StepStatusKept DEF SendFails, TimerExpires
=============================================================================
