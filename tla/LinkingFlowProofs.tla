------------------------- MODULE LinkingFlowProofs -------------------------
(***************************************************************************)
(* Proofs about account linking: about the PISP's side by itself (Pisp is  *)
(* PispLinking, for any set of requests, concurrent or not, with any       *)
(* faults); that each side is, step by step, the one its own module        *)
(* describes, so that what is proved of it holds here; and what ties the   *)
(* two sides together, which gives ActiveWasSigned and LinkedMeansActive.  *)
(***************************************************************************)
EXTENDS LinkingFlow, TLAPS

\* The DFSP's own proofs.
D == INSTANCE DfspLinkingProofs WITH pc <- place

-----------------------------------------------------------------------------
(* The DFSP of the flow is that of the proofs.                             *)

LEMMA DfspSame ==
  /\ Dfsp!Init => D!Init
  /\ [Dfsp!Next]_Dfsp!vars => [D!Next]_D!vars
  /\ D!IInv => Dfsp!IInv /\ Dfsp!TypeOK /\ Dfsp!Causes
<1>1. Dfsp!Init => D!Init
  BY DEF Dfsp!Init, D!Init
<1>2. ASSUME NEW w \in Workflows, Dfsp!Receive(w) \/ Dfsp!Step(w) PROVE D!Receive(w) \/ D!Step(w)
  BY <1>2 DEF Dfsp!Receive, Dfsp!Step, Dfsp!ValidateDone, Dfsp!CheckDone, Dfsp!RefusalDone, Dfsp!SaveDone,
       Dfsp!NotifyDone, Dfsp!CallFails, Dfsp!GiveUp, Dfsp!Move, Dfsp!Tell, Dfsp!Report, Dfsp!ErrorOf, Dfsp!AuthChannels,
       D!Receive, D!Step, D!ValidateDone, D!CheckDone, D!RefusalDone, D!SaveDone,
       D!NotifyDone, D!CallFails, D!GiveUp, D!Move, D!Tell, D!Report, D!ErrorOf, D!AuthChannels
<1>3. ASSUME NEW w \in Workflows, Dfsp!Peers(w) PROVE D!Peers(w)
  BY <1>3 DEF Dfsp!Peers, Dfsp!ConsentsPutPending, Dfsp!ConsentsPutVerified, Dfsp!ConsentsError, Dfsp!Activate,
       Dfsp!Move, Dfsp!Tell, Dfsp!Report,
       D!Peers, D!ConsentsPutPending, D!ConsentsPutVerified, D!ConsentsError, D!Activate,
       D!Move, D!Tell, D!Report
<1>4. Dfsp!Crash \/ Dfsp!ConsentRequestsPatch => D!Crash \/ D!ConsentRequestsPatch
  BY DEF Dfsp!Crash, Dfsp!Running, Dfsp!ConsentRequestsPatch, Dfsp!AwaitingToken,
         D!Crash, D!Running, D!ConsentRequestsPatch, D!AwaitingToken
<1>5. UNCHANGED Dfsp!vars => UNCHANGED D!vars
  BY DEF Dfsp!vars, D!vars
<1>6. [Dfsp!Next]_Dfsp!vars => [D!Next]_D!vars
  BY <1>2, <1>3, <1>4, <1>5 DEF Dfsp!Next, D!Next
<1>7. D!IInv => Dfsp!IInv /\ Dfsp!TypeOK /\ Dfsp!Causes
  BY DEF D!IInv, D!TypeOK, D!InPlace, D!Causes, D!AuthenticatedIsTold, D!Declined, D!Running, D!News, D!AuthChannels, D!Ends,
         Dfsp!IInv, Dfsp!TypeOK, Dfsp!InPlace, Dfsp!Causes, Dfsp!AuthenticatedIsTold, Dfsp!Declined, Dfsp!Running, Dfsp!News,
         Dfsp!AuthChannels, Dfsp!Ends
<1> QED
  BY <1>1, <1>6, <1>7

-----------------------------------------------------------------------------
(* The PISP: its invariant, one request at a time.                         *)

\* What HeldSound and Unanswered say of one request.
Held(r) ==
  /\ pc[r] = "loaded" => Pisp!Sound(data[r])
  /\ pc[r] = "starting" => data[r].state = "start"
  /\ pc[r] \in {"requestConsentAuthenticate", "registerCredential"} =>
       data[r].token /\ tokenSent
  /\ pc[r] = "requestConsentAuthenticate" => data[r].state = "consentReceivedAwaitingCredential"
  /\ pc[r] = "registerCredential" =>
       /\ data[r].state = "accountsLinked"
       /\ data[r].consent \in Pisp!Granted
       /\ Pisp!SentFor(data[r].consent) # {}
  /\ pc[r] # "answered" => answer[r] = "none"

\* Where the credential of a record may come from.
Origins == {"none", "blind"} \union Pisp!Shown

LEMMA IInvIsHeld ==
  Pisp!IInv =>
    /\ Pisp!TypeOK
    /\ \A r \in Requests : Held(r) /\ data[r].signed \in Origins
    /\ Pisp!Sound(kvs) /\ kvs.signed \in Origins
    /\ \A k \in credentials : k.signed \in {"blind"} \union Pisp!Shown
BY DEF Pisp!IInv, Pisp!HeldSound, Pisp!Unanswered, Held, Pisp!RecordSound, Pisp!SignedWasShown, Origins

LEMMA AllHeld ==
  ASSUME Pisp!TypeOK', \A r \in Requests : Held(r)' /\ (data[r].signed \in Origins)',
         Pisp!Sound(kvs)', (kvs.signed \in Origins)',
         (\A k \in credentials : k.signed \in {"blind"} \union Pisp!Shown)'
  PROVE  Pisp!IInv'
BY DEF Pisp!IInv, Pisp!HeldSound, Pisp!Unanswered, Held, Pisp!RecordSound, Pisp!SignedWasShown, Origins

\* Nothing that was sent is taken back.
Grows ==
  /\ (posted => posted')
  /\ (tokenSent => tokenSent')
  /\ credentials \subseteq credentials'

\* A request that is not part of a step.
Same(q) ==
  /\ pc'[q] = pc[q]
  /\ data'[q] = data[q]
  /\ answer'[q] = answer[q]

LEMMA SameHeld ==
  ASSUME Grows, NEW q \in Requests, Held(q), Same(q)
  PROVE  Held(q)'
BY DEF Grows, Held, Same, Pisp!Sound, Pisp!SentFor, Pisp!Granted

LEMMA RecordStays ==
  ASSUME Grows, Pisp!Sound(kvs), UNCHANGED kvs
  PROVE  Pisp!Sound(kvs)'
BY DEF Grows, Pisp!Sound, Pisp!Granted

\* What was shown stays shown, since requests are answered once.
LEMMA ShownStays ==
  ASSUME Pisp!IInv, \A q \in Requests : pc[q] = "answered" => Same(q)
  PROVE  Pisp!Shown \subseteq Pisp!Shown'
<1>1. \A q \in Requests : answer[q] = "consent" => answer'[q] = "consent" /\ data'[q] = data[q]
  BY IInvIsHeld DEF Held, Same
<1> QED
  BY <1>1 DEF Pisp!Shown

LEMMA OneIInv ==
  ASSUME Pisp!IInv, Pisp!TypeOK', Grows, NEW r \in Requests, pc[r] # "answered",
         \A q \in Requests \ {r} : Same(q),
         Held(r)', Pisp!Sound(kvs)',
         kvs'.signed \in Origins, data'[r].signed \in Origins,
         \A k \in credentials' \ credentials : k.signed \in {"blind"} \union Pisp!Shown
  PROVE  Pisp!IInv'
<1>1. Pisp!Shown \subseteq Pisp!Shown'
  BY ShownStays
<1>2. Origins \subseteq Origins'
  BY <1>1 DEF Origins
<1>3. ASSUME NEW q \in Requests PROVE Held(q)' /\ (data[q].signed \in Origins)'
  <2>1. CASE q = r
    BY <1>2, <2>1
  <2>2. CASE q # r
    BY <1>2, <2>2, SameHeld, IInvIsHeld DEF Same
  <2> QED
    BY <2>1, <2>2
<1>4. (\A k \in credentials : k.signed \in {"blind"} \union Pisp!Shown)'
  BY <1>1, IInvIsHeld
<1> QED
  BY <1>2, <1>3, <1>4, AllHeld

-----------------------------------------------------------------------------
(* The PISP: steps of one request.                                         *)

LEMMA NoDataIsFine == Pisp!NoData \in Pisp!Data /\ Pisp!NoData.signed \in Origins
BY DEF Pisp!NoData, Pisp!Data, Pisp!States, Origins

\* A request that is served and answered with an error, with nothing stored or sent.
LEMMA FailIInv ==
  ASSUME Pisp!IInv, NEW r \in Requests, pc[r] # "answered",
         pc' = [pc EXCEPT ![r] = "answered"], answer' = [answer EXCEPT ![r] = "500"],
         data' = [data EXCEPT ![r] = Pisp!NoData],
         UNCHANGED <<kvs, posted, tokenSent, credentials>>
  PROVE  Pisp!IInv'
<1>1. Pisp!TypeOK
  BY IInvIsHeld
<1>2. data'[r].signed \in Origins /\ data' \in [Requests -> Pisp!Data]
  BY <1>1, NoDataIsFine DEF Pisp!TypeOK
<1>3. Pisp!TypeOK'
  BY <1>1, <1>2 DEF Pisp!TypeOK
<1>4. Held(r)' /\ \A q \in Requests \ {r} : Same(q)
  BY <1>1 DEF Pisp!TypeOK, Held, Same
<1>5. Grows /\ Pisp!Sound(kvs)'
  BY IInvIsHeld, RecordStays DEF Grows
<1> QED
  BY <1>2, <1>3, <1>4, <1>5, OneIInv, IInvIsHeld

LEMMA RefuseIInv ==
  ASSUME Pisp!IInv, NEW r \in Requests, pc[r] # "answered", Pisp!Refuse(r)
  PROVE  Pisp!IInv'
BY FailIInv DEF Pisp!Refuse, Pisp!Fail

\* The first save of run(), in state "start".
LEMMA StartIInv ==
  ASSUME Pisp!IInv, NEW r \in Requests, pc[r] \in {"idle", "loaded"},
         NEW d \in Pisp!Data, d.state = "start", d.signed \in Origins,
         Pisp!Start(r, d)
  PROVE  Pisp!IInv'
<1>1. Pisp!TypeOK /\ Held(r) /\ Pisp!Sound(kvs)
  BY IInvIsHeld
<1>2. Grows /\ kvs' \in {kvs, d}
  BY DEF Pisp!Start, Grows
<1>3. Pisp!Sound(kvs)' /\ kvs'.signed \in Origins
  <2>1. CASE kvs' = kvs
    BY <1>1, <1>2, <2>1, RecordStays, IInvIsHeld
  <2>2. CASE kvs' = d
    BY <2>2 DEF Pisp!Sound, Pisp!AwaitingToken, Pisp!StateFor, Pisp!AuthChannels
  <2> QED
    BY <1>2, <2>1, <2>2
<1>4. CASE pc' = [pc EXCEPT ![r] = "starting"] /\ data' = [data EXCEPT ![r] = d] /\ UNCHANGED answer
  <2>1. Pisp!TypeOK'
    BY <1>1, <1>2, <1>4 DEF Pisp!Start, Pisp!TypeOK, Pisp!Busy
  <2>2. Held(r)' /\ data'[r] = d /\ \A q \in Requests \ {r} : Same(q)
    BY <1>1, <1>4 DEF Pisp!TypeOK, Held, Same
  <2> QED
    BY <1>2, <1>3, <2>1, <2>2, OneIInv DEF Pisp!Start
<1>5. CASE Pisp!Fail(r)
  <2>1. data'[r] \in Pisp!Data /\ data'[r].signed \in Origins
    BY <1>1, <1>5, NoDataIsFine DEF Pisp!TypeOK, Pisp!Fail
  <2>2. Pisp!TypeOK'
    BY <1>1, <1>2, <1>5, <2>1 DEF Pisp!Start, Pisp!TypeOK, Pisp!Fail
  <2>3. Held(r)' /\ \A q \in Requests \ {r} : Same(q)
    BY <1>1, <1>5 DEF Pisp!TypeOK, Pisp!Fail, Held, Same
  <2> QED
    BY <1>2, <1>3, <2>1, <2>2, <2>3, OneIInv, IInvIsHeld DEF Pisp!Start
<1> QED
  BY <1>4, <1>5 DEF Pisp!Start

\* A record is loaded, and the payload of the endpoint added to it.
LEMMA LoadIInv ==
  ASSUME Pisp!IInv, NEW r \in Requests, NEW d \in Pisp!Data, d.signed \in Origins,
         d = [kvs EXCEPT !.token = TRUE] \/ \E s : d = [kvs EXCEPT !.signed = s],
         Pisp!Load(r, d)
  PROVE  Pisp!IInv'
<1>1. Pisp!TypeOK /\ Held(r) /\ Pisp!Sound(kvs) /\ pc[r] = "idle"
  BY IInvIsHeld DEF Pisp!Load, Pisp!MayArrive
<1>2. data'[r] \in {kvs, d} /\ \A q \in Requests \ {r} : Same(q)
  BY <1>1 DEF Pisp!Load, Pisp!TypeOK, Same
<1>3. Pisp!TypeOK'
  BY <1>1 DEF Pisp!Load, Pisp!TypeOK, Pisp!Busy
<1>4. Pisp!Sound(d)
  BY <1>1 DEF Pisp!Sound, Pisp!TypeOK, Pisp!Data
<1>5. Grows /\ Pisp!Sound(kvs)'
  BY <1>1, RecordStays DEF Pisp!Load, Grows
<1>6. Held(r)'
  BY <1>1, <1>2, <1>4 DEF Pisp!Load, Pisp!TypeOK, Held, Pisp!Sound, Pisp!Granted
<1> QED
  BY <1>2, <1>3, <1>5, <1>6, OneIInv, IInvIsHeld DEF Pisp!Load, Pisp!MayArrive

LEMMA ArriveIInv ==
  ASSUME Pisp!IInv, NEW r \in Requests, Pisp!Arrive(r)
  PROVE  Pisp!IInv'
<1>1. Pisp!TypeOK /\ kvs.signed \in Origins
  BY IInvIsHeld
<1>2. CASE Pisp!RequestConsent(r)
  <2> DEFINE d == [Pisp!NoData EXCEPT !.state = "start"]
  <2>1. d \in Pisp!Data /\ d.state = "start" /\ d.signed \in Origins
    BY DEF Pisp!NoData, Pisp!Data, Pisp!States, Origins
  <2> QED
    BY <1>2, <2>1, StartIInv DEF Pisp!RequestConsent, Pisp!MayArrive
<1>3. CASE Pisp!Authenticate(r)
  <2> DEFINE d == [kvs EXCEPT !.token = TRUE]
  <2>1. d \in Pisp!Data /\ d.signed \in Origins
    BY <1>1 DEF Pisp!TypeOK, Pisp!Data
  <2> QED
    BY <1>3, <2>1, LoadIInv DEF Pisp!Authenticate
<1>4. CASE Pisp!PassCredential(r)
  <2>1. PICK s \in Pisp!Shown \union {"blind"} : Pisp!Load(r, [kvs EXCEPT !.signed = s])
    BY <1>4 DEF Pisp!PassCredential
  <2> DEFINE d == [kvs EXCEPT !.signed = s]
  <2>2. s \in Workflows \union {"none", "blind"}
    BY <1>1 DEF Pisp!Shown, Pisp!TypeOK, Pisp!Data
  <2>3. d \in Pisp!Data /\ d.signed \in Origins
    BY <1>1, <2>2 DEF Pisp!TypeOK, Pisp!Data, Origins
  <2> QED
    BY <2>1, <2>3, LoadIInv
<1> QED
  BY <1>2, <1>3, <1>4 DEF Pisp!Arrive

LEMMA PostIInv ==
  ASSUME Pisp!IInv, NEW r \in Requests, Pisp!Post(r)
  PROVE  Pisp!IInv'
<1>1. Pisp!TypeOK /\ Held(r) /\ pc[r] = "starting"
  BY IInvIsHeld DEF Pisp!Post
<1>2. Pisp!TypeOK'
  BY <1>1 DEF Pisp!Post, Pisp!TypeOK, Pisp!Data, Pisp!States, Pisp!Busy, Pisp!Phases
<1>3. data'[r].signed = data[r].signed /\ \A q \in Requests \ {r} : Same(q)
  BY <1>1 DEF Pisp!Post, Pisp!TypeOK, Pisp!Data, Same
<1>4. Grows /\ Pisp!Sound(kvs)'
  BY IInvIsHeld, RecordStays DEF Pisp!Post, Grows
<1>5. Held(r)'
  BY <1>1 DEF Pisp!Post, Pisp!TypeOK, Held
<1> QED
  BY <1>1, <1>2, <1>3, <1>4, <1>5, OneIInv, IInvIsHeld DEF Pisp!Post

LEMMA RunAuthenticateIInv ==
  ASSUME Pisp!IInv, NEW r \in Requests, Pisp!RunAuthenticate(r)
  PROVE  Pisp!IInv'
<1>1. Pisp!TypeOK /\ Held(r) /\ pc[r] = "loaded"
  BY IInvIsHeld DEF Pisp!RunAuthenticate
<1>2. CASE data[r].token
  <2>1. Pisp!TypeOK'
    BY <1>1, <1>2 DEF Pisp!RunAuthenticate, Pisp!TypeOK, Pisp!Data, Pisp!States, Pisp!Busy, Pisp!Phases
  <2>2. data'[r].signed = data[r].signed /\ \A q \in Requests \ {r} : Same(q)
    BY <1>1, <1>2 DEF Pisp!RunAuthenticate, Pisp!TypeOK, Pisp!Data, Same
  <2>3. Grows /\ Pisp!Sound(kvs)'
    BY <1>2, IInvIsHeld, RecordStays DEF Pisp!RunAuthenticate, Grows
  <2>4. Held(r)'
    BY <1>1, <1>2 DEF Pisp!RunAuthenticate, Pisp!TypeOK, Pisp!Data, Held
  <2> QED
    BY <1>1, <1>2, <2>1, <2>2, <2>3, <2>4, OneIInv, IInvIsHeld DEF Pisp!RunAuthenticate
<1>3. CASE ~ data[r].token
  BY <1>1, <1>3, FailIInv DEF Pisp!RunAuthenticate, Pisp!Fail
<1> QED
  BY <1>2, <1>3

LEMMA RunRegisterIInv ==
  ASSUME Pisp!IInv, NEW r \in Requests, Pisp!RunRegister(r)
  PROVE  Pisp!IInv'
<1>1. Pisp!TypeOK /\ Held(r) /\ pc[r] = "loaded" /\ data[r].signed \in Origins
  BY IInvIsHeld DEF Pisp!RunRegister
<1>2. CASE data[r].signed # "none"
  <2> DEFINE k == [consent |-> data[r].consent, signed |-> data[r].signed]
  <2>1. data[r].token /\ tokenSent /\ data[r].consent \in Pisp!Granted
    BY <1>1 DEF Pisp!RunRegister, Held, Pisp!Sound
  <2>2. credentials' = credentials \union {k} /\ k.signed \in {"blind"} \union Pisp!Shown
    BY <1>1, <1>2 DEF Pisp!RunRegister, Origins
  <2>3. k \in [consent : Workflows, signed : Workflows \union {"blind"}]
    BY <1>1, <1>2, <2>1 DEF Pisp!TypeOK, Pisp!Data, Pisp!Granted
  <2>4. Pisp!TypeOK'
    BY <1>1, <1>2, <2>2, <2>3 DEF Pisp!RunRegister, Pisp!TypeOK, Pisp!Data, Pisp!States, Pisp!Busy, Pisp!Phases
  <2>5. /\ data'[r] = [data[r] EXCEPT !.state = "accountsLinked"]
        /\ data'[r].signed = data[r].signed /\ data'[r].consent = data[r].consent
        /\ data'[r].token /\ data'[r].state = "accountsLinked"
        /\ \A q \in Requests \ {r} : Same(q)
    BY <1>1, <1>2, <2>1 DEF Pisp!RunRegister, Pisp!TypeOK, Pisp!Data, Same
  <2>6. Grows /\ Pisp!Sound(kvs)'
    BY <1>2, IInvIsHeld, RecordStays DEF Pisp!RunRegister, Grows
  <2>7. Held(r)'
    <3>1. /\ pc'[r] = "registerCredential" /\ answer'[r] = "none"
          /\ posted' = posted /\ tokenSent' = tokenSent
      BY <1>1, <1>2 DEF Pisp!RunRegister, Pisp!TypeOK, Held
    <3>2. k \in credentials' /\ k.consent = data'[r].consent
      BY <2>2, <2>5
    <3>3. Pisp!SentFor(data[r].consent)' # {}
      BY <3>2 DEF Pisp!SentFor
    <3> QED
      BY <2>1, <2>5, <3>1, <3>3 DEF Held, Pisp!Granted
  <2> QED
    BY <1>1, <1>2, <2>2, <2>4, <2>5, <2>6, <2>7, OneIInv, IInvIsHeld DEF Pisp!RunRegister
<1>3. CASE data[r].signed = "none"
  BY <1>1, <1>3, FailIInv DEF Pisp!RunRegister, Pisp!Fail
<1> QED
  BY <1>2, <1>3

LEMMA StepIInv ==
  ASSUME Pisp!IInv, NEW r \in Requests, Pisp!Step(r)
  PROVE  Pisp!IInv'
<1>1. Pisp!TypeOK /\ data[r].signed \in Origins
  BY IInvIsHeld
<1>2. CASE Pisp!ReadFails(r) \/ Pisp!RunAbsent(r) \/ Pisp!RunOver(r)
  BY <1>2, RefuseIInv DEF Pisp!ReadFails, Pisp!RunAbsent, Pisp!RunOver
<1>3. CASE Pisp!RunRefused(r) \/ Pisp!GiveUp(r)
  BY <1>3, FailIInv DEF Pisp!RunRefused, Pisp!GiveUp, Pisp!Fail, Pisp!Phases
<1>4. CASE Pisp!RunStart(r)
  BY <1>1, <1>4, StartIInv DEF Pisp!RunStart, Pisp!TypeOK
<1> QED
  BY <1>2, <1>3, <1>4, PostIInv, RunAuthenticateIInv, RunRegisterIInv DEF Pisp!Step

-----------------------------------------------------------------------------
(* The PISP: messages and restarts.                                        *)

LEMMA DeliveredIInv ==
  ASSUME Pisp!IInv, NEW S \in SUBSET Requests, \A r \in S : pc[r] \in Pisp!Phases,
         NEW heard \in [Requests -> Pisp!Data],
         \A r \in S : Pisp!Sound(heard[r]) /\ heard[r].signed = data[r].signed,
         Pisp!Deliver(S, heard)
  PROVE  Pisp!IInv'
<1>1. Pisp!TypeOK
  BY IInvIsHeld
<1>2. Grows /\ kvs' \in {kvs} \union {heard[r] : r \in S}
  BY DEF Pisp!Deliver, Pisp!AfterSaves, Grows
<1>3. PICK outcome \in [S -> Pisp!SaveOutcomes] :
        /\ data' = [r \in Requests |->
                      IF r \notin S THEN data[r]
                      ELSE IF outcome[r] = "ok" THEN heard[r] ELSE Pisp!NoData]
        /\ answer' = [r \in Requests |->
                        IF r \notin S THEN answer[r]
                        ELSE IF outcome[r] = "ok" THEN Pisp!Response(heard[r]) ELSE "500"]
  BY DEF Pisp!Deliver
<1>4. \A r \in S : data'[r] \in Pisp!Data /\ data'[r].signed \in Origins
  BY <1>3, NoDataIsFine, IInvIsHeld
<1>5. Pisp!TypeOK'
  <2>1. kvs' \in Pisp!Data /\ data' \in [Requests -> Pisp!Data]
    BY <1>1, <1>2, <1>3, <1>4 DEF Pisp!TypeOK
  <2>2. answer' \in [Requests -> {"none", "channel", "consent", "linked", "error", "500"}]
    BY <1>1, <1>3 DEF Pisp!TypeOK, Pisp!Response
  <2> QED
    BY <1>1, <2>1, <2>2 DEF Pisp!Deliver, Pisp!TypeOK
<1>6. \A q \in Requests \ S : Same(q)
  BY <1>1, <1>3 DEF Pisp!Deliver, Pisp!TypeOK, Same
<1>7. Pisp!Shown \subseteq Pisp!Shown'
  BY <1>6, ShownStays DEF Pisp!Phases
<1>8. Origins \subseteq Origins'
  BY <1>7 DEF Origins
<1>9. ASSUME NEW r \in Requests PROVE Held(r)' /\ (data[r].signed \in Origins)'
  <2>1. CASE r \in S
    <3>1. data'[r].signed \in Origins
      BY <1>4, <2>1
    <3>2. pc'[r] = "answered"
      BY <2>1 DEF Pisp!Deliver
    <3> QED
      BY <1>8, <3>1, <3>2, IInvIsHeld DEF Held
  <2>2. CASE r \notin S
    BY <1>2, <1>6, <1>8, <2>2, SameHeld, IInvIsHeld DEF Same
  <2> QED
    BY <2>1, <2>2
<1>10. Pisp!Sound(kvs)' /\ (kvs.signed \in Origins)'
  <2>1. CASE kvs' = kvs
    <3>1. Pisp!Sound(kvs)'
      BY <1>2, <2>1, RecordStays, IInvIsHeld
    <3>2. kvs'.signed \in Origins'
      BY <1>8, <2>1, IInvIsHeld
    <3> QED
      BY <3>1, <3>2
  <2>2. ASSUME NEW r \in S, kvs' = heard[r] PROVE Pisp!Sound(kvs)' /\ (kvs.signed \in Origins)'
    <3>1. Pisp!Sound(kvs)'
      BY <2>2 DEF Pisp!Deliver, Pisp!Sound, Pisp!Granted
    <3> QED
      BY <1>8, <2>2, <3>1, IInvIsHeld
  <2> QED
    BY <1>2, <2>1, <2>2
<1>11. (\A k \in credentials : k.signed \in {"blind"} \union Pisp!Shown)'
  <2>1. credentials' = credentials
    BY DEF Pisp!Deliver
  <2>2. \A k \in credentials : k.signed \in {"blind"} \union Pisp!Shown
    BY IInvIsHeld
  <2> QED
    BY <1>7, <2>1, <2>2
<1> QED
  BY <1>5, <1>9, <1>10, <1>11, AllHeld

LEMMA ConsentRequestsPutIInv ==
  ASSUME Pisp!IInv, NEW channel \in Pisp!AuthChannels, Pisp!ConsentRequestsPut(channel)
  PROVE  Pisp!IInv'
<1> DEFINE S == Pisp!Waiting("requestConsent")
           heard == [r \in Requests |-> [data[r] EXCEPT !.state = Pisp!StateFor(channel), !.channel = channel]]
<1>1. S \in SUBSET Requests /\ \A r \in S : pc[r] \in Pisp!Phases
  BY DEF Pisp!Waiting, Pisp!Phases
<1>2. heard \in [Requests -> Pisp!Data]
  BY IInvIsHeld DEF Pisp!TypeOK, Pisp!Data, Pisp!States, Pisp!StateFor, Pisp!AuthChannels
<1>3. \A r \in S : Pisp!Sound(heard[r]) /\ heard[r].signed = data[r].signed
  BY IInvIsHeld DEF Pisp!Waiting, Pisp!TypeOK, Pisp!Data, Pisp!Sound, Pisp!StateFor, Pisp!AuthChannels
<1>4. Pisp!Deliver(S, heard)
  BY DEF Pisp!ConsentRequestsPut
<1> QED
  BY <1>1, <1>2, <1>3, <1>4, DeliveredIInv

LEMMA ConsentsPostIInv ==
  ASSUME Pisp!IInv, NEW c \in Pisp!Granted, Pisp!ConsentsPost(c)
  PROVE  Pisp!IInv'
<1> DEFINE S == Pisp!Waiting("requestConsentAuthenticate")
           heard == [r \in Requests |-> [data[r] EXCEPT !.consent = c]]
<1>1. S \in SUBSET Requests /\ \A r \in S : pc[r] \in Pisp!Phases
  BY DEF Pisp!Waiting, Pisp!Phases
<1>2. heard \in [Requests -> Pisp!Data]
  BY IInvIsHeld DEF Pisp!TypeOK, Pisp!Data, Pisp!Granted
<1>3. \A r \in S : Pisp!Sound(heard[r]) /\ heard[r].signed = data[r].signed
  <2> TAKE r \in S
  <2>1. data[r] \in Pisp!Data /\ data[r].state = "consentReceivedAwaitingCredential" /\ data[r].token /\ tokenSent
    BY IInvIsHeld DEF Pisp!Waiting, Pisp!TypeOK, Held
  <2>2. /\ heard[r].state = data[r].state /\ heard[r].token
        /\ heard[r].consent = c /\ heard[r].signed = data[r].signed
    BY <2>1 DEF Pisp!Data, Pisp!Waiting
  <2> HIDE DEF heard
  <2> QED
    BY <2>1, <2>2 DEF Pisp!Sound, Pisp!AwaitingToken, Pisp!StateFor
<1>4. Pisp!Deliver(S, heard)
  BY DEF Pisp!ConsentsPost
<1> QED
  BY <1>1, <1>2, <1>3, <1>4, DeliveredIInv

LEMMA ConsentsPatchIInv ==
  ASSUME Pisp!IInv, NEW c \in Workflows, \E k \in Pisp!SentFor(c) : k.signed = c, Pisp!ConsentsPatch(c)
  PROVE  Pisp!IInv'
<1> DEFINE S == Pisp!WaitingOn(c)
           heard == [r \in Requests |-> [data[r] EXCEPT !.linked = TRUE]]
<1>1. S \in SUBSET Requests /\ \A r \in S : pc[r] \in Pisp!Phases
  BY DEF Pisp!WaitingOn, Pisp!Waiting, Pisp!Phases
<1>2. heard \in [Requests -> Pisp!Data]
  BY IInvIsHeld DEF Pisp!TypeOK, Pisp!Data
<1>3. \A r \in S : Pisp!Sound(heard[r]) /\ heard[r].signed = data[r].signed
  <2> TAKE r \in S
  <2>1. /\ data[r] \in Pisp!Data /\ data[r].state = "accountsLinked" /\ data[r].token /\ tokenSent
        /\ data[r].consent = c /\ c \in Pisp!Granted
    BY IInvIsHeld DEF Pisp!WaitingOn, Pisp!Waiting, Pisp!TypeOK, Held
  <2>2. /\ heard[r].state = data[r].state /\ heard[r].token
        /\ heard[r].consent = c /\ heard[r].signed = data[r].signed /\ heard[r].linked
    BY <2>1 DEF Pisp!Data, Pisp!WaitingOn, Pisp!Waiting
  <2>3. \E k \in credentials : k.consent = c /\ k.signed = c
    BY DEF Pisp!SentFor
  <2> HIDE DEF heard
  <2> QED
    BY <2>1, <2>2, <2>3 DEF Pisp!Sound, Pisp!AwaitingToken, Pisp!StateFor
<1>4. Pisp!Deliver(S, heard)
  BY DEF Pisp!ConsentsPatch, Pisp!Linked
<1> QED
  BY <1>1, <1>2, <1>3, <1>4, DeliveredIInv

\* Errors, whichever phase hears them.
LEMMA ErrorsIInv ==
  ASSUME Pisp!IInv, NEW S \in SUBSET Requests, \A r \in S : pc[r] \in Pisp!Phases, Pisp!Deliver(S, Pisp!Failed)
  PROVE  Pisp!IInv'
<1> DEFINE heard == [r \in Requests |-> [data[r] EXCEPT !.state = "errored", !.error = TRUE]]
<1>1. heard \in [Requests -> Pisp!Data]
  BY IInvIsHeld DEF Pisp!TypeOK, Pisp!Data, Pisp!States
<1>2. \A r \in S : Pisp!Sound(heard[r]) /\ heard[r].signed = data[r].signed
  BY IInvIsHeld DEF Pisp!TypeOK, Pisp!Data, Pisp!Sound, Pisp!AwaitingToken, Pisp!StateFor
<1>3. Pisp!Deliver(S, heard)
  BY DEF Pisp!Failed
<1> QED
  BY <1>1, <1>2, <1>3, DeliveredIInv

LEMMA DfspAnswersIInv ==
  ASSUME Pisp!IInv, Pisp!DfspAnswers
  PROVE  Pisp!IInv'
<1>1. CASE Pisp!ConsentRequestsError
  BY <1>1, ErrorsIInv DEF Pisp!ConsentRequestsError, Pisp!Waiting, Pisp!Phases
<1>2. ASSUME NEW c \in Workflows, Pisp!ConsentsError(c) PROVE Pisp!IInv'
  BY <1>2, ErrorsIInv DEF Pisp!ConsentsError, Pisp!WaitingOn, Pisp!Waiting, Pisp!Phases
<1> QED
  BY <1>1, <1>2, ConsentRequestsPutIInv, ConsentsPostIInv, ConsentsPatchIInv DEF Pisp!DfspAnswers

LEMMA CrashIInv ==
  ASSUME Pisp!IInv, Pisp!Crash
  PROVE  Pisp!IInv'
<1>1. Pisp!TypeOK
  BY IInvIsHeld
<1>2. \A r \in Requests : data'[r] \in Pisp!Data /\ data'[r].signed \in Origins
  BY <1>1, NoDataIsFine, IInvIsHeld DEF Pisp!Crash, Pisp!TypeOK
<1>3. Pisp!TypeOK'
  BY <1>1, NoDataIsFine DEF Pisp!Crash, Pisp!TypeOK
<1>4. Pisp!Shown \subseteq Pisp!Shown'
  BY ShownStays DEF Pisp!Crash, Pisp!Busy, Pisp!Phases, Same
<1>5. Grows /\ Pisp!Sound(kvs)' /\ Origins \subseteq Origins'
  BY <1>4, RecordStays, IInvIsHeld DEF Pisp!Crash, Grows, Origins
<1>6. ASSUME NEW r \in Requests PROVE Held(r)' /\ (data[r].signed \in Origins)'
  <2>1. CASE pc[r] \in Pisp!Busy
    <3>1. pc'[r] = "answered" /\ data'[r].signed \in Origins
      BY <1>2, <2>1 DEF Pisp!Crash
    <3> QED
      BY <1>5, <3>1, IInvIsHeld DEF Held
  <2>2. CASE pc[r] \notin Pisp!Busy
    <3>1. Same(r)
      BY <2>2 DEF Pisp!Crash, Same
    <3> QED
      BY <1>5, <3>1, SameHeld, IInvIsHeld DEF Same
  <2> QED
    BY <2>1, <2>2
<1>7. (kvs.signed \in Origins)' /\ (\A k \in credentials : k.signed \in {"blind"} \union Pisp!Shown)'
  BY <1>4, <1>5, IInvIsHeld DEF Pisp!Crash
<1> QED
  BY <1>3, <1>5, <1>6, <1>7, AllHeld

-----------------------------------------------------------------------------
(* The PISP: theorems.                                                     *)

LEMMA PispInitIInv == Pisp!Init => Pisp!IInv
<1> SUFFICES ASSUME Pisp!Init PROVE Pisp!IInv
  OBVIOUS
<1>1. Pisp!TypeOK
  BY DEF Pisp!Init, Pisp!TypeOK, Pisp!NoData, Pisp!Data, Pisp!States, Pisp!Busy
<1>2. Pisp!RecordSound
  BY DEF Pisp!Init, Pisp!RecordSound, Pisp!Sound, Pisp!NoData, Pisp!AwaitingToken, Pisp!StateFor
<1>3. Pisp!HeldSound /\ Pisp!Unanswered
  BY DEF Pisp!Init, Pisp!HeldSound, Pisp!Unanswered
<1>4. Pisp!SignedWasShown
  BY DEF Pisp!Init, Pisp!SignedWasShown, Pisp!NoData
<1> QED
  BY <1>1, <1>2, <1>3, <1>4 DEF Pisp!IInv

LEMMA PispNextIInv == Pisp!IInv /\ [Pisp!Next]_Pisp!vars => Pisp!IInv'
<1> SUFFICES ASSUME Pisp!IInv, [Pisp!Next]_Pisp!vars PROVE Pisp!IInv'
  OBVIOUS
<1>1. CASE UNCHANGED Pisp!vars
  <2>1. UNCHANGED <<kvs, pc, data, answer, posted, tokenSent, credentials>>
    BY <1>1 DEF Pisp!vars
  <2>2. Pisp!TypeOK' /\ Pisp!Unanswered'
    BY <2>1 DEF Pisp!IInv, Pisp!TypeOK, Pisp!Unanswered
  <2>3. Pisp!Shown' = Pisp!Shown
    BY <2>1 DEF Pisp!Shown
  <2>4. Pisp!SignedWasShown'
    BY <2>1, <2>3 DEF Pisp!IInv, Pisp!SignedWasShown
  <2>5. Pisp!RecordSound' /\ Pisp!HeldSound'
    BY <2>1 DEF Pisp!IInv, Pisp!HeldSound, Pisp!RecordSound, Pisp!Sound, Pisp!SentFor, Pisp!Granted
  <2> QED
    BY <2>2, <2>4, <2>5 DEF Pisp!IInv
<1>2. CASE Pisp!Crash \/ Pisp!DfspAnswers
  BY <1>2, CrashIInv, DfspAnswersIInv
<1>3. ASSUME NEW r \in Requests, Pisp!Arrive(r) \/ Pisp!Step(r) PROVE Pisp!IInv'
  BY <1>3, ArriveIInv, StepIInv
<1> QED
  BY <1>1, <1>2, <1>3 DEF Pisp!Next

\* For any requests, in any order and overlap, with store faults, timeouts, crashes
\* and broadcast errors.
THEOREM PispInvariance == Pisp!Spec => []Pisp!IInv
BY PispInitIInv, PispNextIInv, PTL DEF Pisp!Spec

\* The stored record carries what the endpoint that run() takes next dereferences,
\* and what was sent to bring it to its state.
THEOREM PispRecord == Pisp!Spec => []Pisp!RecordSound
<1>1. Pisp!IInv => Pisp!RecordSound
  BY DEF Pisp!IInv
<1> QED
  BY <1>1, PispInvariance, PTL

-----------------------------------------------------------------------------
(* The DFSP's side of the tie.                                             *)

\* A step of workflows that are under way: it starts no other, tells nothing for one
\* that was not started, authenticates only users whose token is being checked, and
\* leaves what was sent to the auth-service alone.
Quiet ==
  /\ checked' = checked
  /\ \A v \in Workflows :
       /\ place[v] = "none" => place'[v] = "none" /\ told'[v] = told[v]
       /\ place'[v] = "check" => place[v] = "check"
       /\ v \in authenticated' => v \in authenticated \/ place[v] = "check"

LEMMA OneQuiet ==
  ASSUME Dfsp!TypeOK, NEW w \in Workflows, place[w] # "none", NEW next, next # "check",
         place' \in {place, [place EXCEPT ![w] = next]},
         told' = told \/ \E news : told' = [told EXCEPT ![w] = @ \union {news}],
         \/ authenticated' = authenticated
         \/ authenticated' = authenticated \union {w} /\ place[w] = "check",
         checked' = checked
  PROVE  Quiet
<1>1. \A v \in Workflows : v # w => place'[v] = place[v] /\ told'[v] = told[v]
  BY DEF Dfsp!TypeOK
<1>2. place'[w] = "check" => place[w] = "check"
  BY DEF Dfsp!TypeOK
<1> QED
  BY <1>1, <1>2 DEF Quiet

LEMMA DfspQuiet ==
  ASSUME Dfsp!TypeOK, DfspSteps, ~ \E w \in Workflows : Received(w)
  PROVE  Quiet
<1>1. CASE Dfsp!Crash
  BY <1>1 DEF Dfsp!Crash, Dfsp!Running, Dfsp!TypeOK, Quiet
<1>2. ASSUME NEW w \in Workflows, Dfsp!ValidateDone(w) \/ Dfsp!CheckDone(w) PROVE Quiet
  BY <1>2, OneQuiet DEF Dfsp!ValidateDone, Dfsp!CheckDone, Dfsp!Report, Dfsp!Move, Dfsp!Tell
<1>3. ASSUME NEW w \in Workflows, Dfsp!RefusalDone(w) \/ Dfsp!SaveDone(w) \/ Dfsp!NotifyDone(w) PROVE Quiet
  BY <1>3, OneQuiet DEF Dfsp!RefusalDone, Dfsp!SaveDone, Dfsp!NotifyDone, Dfsp!Report, Dfsp!Move, Dfsp!Tell
<1>4. ASSUME NEW w \in Workflows, Dfsp!CallFails(w) \/ Dfsp!GiveUp(w) PROVE Quiet
  BY <1>4, OneQuiet DEF Dfsp!CallFails, Dfsp!GiveUp, Dfsp!Report, Dfsp!Move, Dfsp!Tell
<1>5. ASSUME NEW w \in Workflows, Dfsp!ConsentsPutVerified(w) PROVE Quiet
  BY <1>5, OneQuiet DEF Dfsp!ConsentsPutVerified, Dfsp!Move
<1>6. ASSUME NEW w \in Workflows, Dfsp!Activate(w) PROVE Quiet
  BY <1>6 DEF Dfsp!Activate, Quiet
<1> QED
  BY <1>1, <1>2, <1>3, <1>4, <1>5, <1>6 DEF DfspSteps, Dfsp!Step

LEMMA QuietTied ==
  ASSUME Tied, Quiet, UNCHANGED pispVars
  PROVE  Tied'
BY DEF Tied, Quiet, pispVars

\* A credential that arrives is checked for its own workflow only.
LEMMA SignatureTied ==
  ASSUME Dfsp!TypeOK, Tied, NEW w \in Workflows, Signature(w), UNCHANGED pispVars
  PROVE  Tied'
<1>1. PICK k \in credentials :
        k.consent = w /\ Dfsp!ConsentsPutPending(w, IF k.signed = w THEN "signed" ELSE "forged")
  BY DEF Signature
<1> DEFINE credential == IF k.signed = w THEN "signed" ELSE "forged"
<1>2. place[w] = "grant"
  BY <1>1 DEF Dfsp!ConsentsPutPending
<1>3. CASE Dfsp!Report(w, "consentError") /\ checked' = checked
  BY <1>1, <1>2, <1>3, OneQuiet, QuietTied DEF Dfsp!ConsentsPutPending, Dfsp!Report, Dfsp!Move, Dfsp!Tell
<1>4. CASE Dfsp!Move(w, "auth") /\ checked' = [checked EXCEPT ![w] = credential] /\ UNCHANGED told
  <2>1. /\ checked'[w] = credential /\ place'[w] = "auth"
        /\ \A v \in Workflows \ {w} : checked'[v] = checked[v] /\ place'[v] = place[v]
    BY <1>4 DEF Dfsp!TypeOK, Dfsp!Move
  <2>2. /\ posted' = posted /\ tokenSent' = tokenSent /\ credentials' = credentials
        /\ told' = told /\ authenticated' = authenticated
    BY <1>1, <1>4 DEF pispVars, Dfsp!ConsentsPutPending
  <2> QED
    BY <1>1, <1>2, <2>1, <2>2 DEF Tied
<1> QED
  BY <1>1, <1>3, <1>4 DEF Dfsp!ConsentsPutPending

LEMMA ToDfspTied ==
  ASSUME Dfsp!TypeOK, Tied, ToDfsp
  PROVE  Tied'
<1>1. UNCHANGED pispVars
  BY DEF ToDfsp
<1>2. CASE tokenSent /\ Dfsp!ConsentRequestsPatch
  <2>1. \A v \in Workflows : place[v] = "none" => place'[v] = "none"
    BY <1>2 DEF Dfsp!ConsentRequestsPatch, Dfsp!AwaitingToken
  <2> QED
    BY <1>1, <1>2, <2>1 DEF Dfsp!ConsentRequestsPatch, Tied, pispVars
<1>3. ASSUME NEW w \in Workflows, Failure(w) PROVE Tied'
  BY <1>1, <1>3, OneQuiet, QuietTied DEF Failure, Dfsp!ConsentsError, Dfsp!Move, Dfsp!Tell
<1> QED
  BY <1>1, <1>2, <1>3, SignatureTied DEF ToDfsp

-----------------------------------------------------------------------------
(* The PISP's side.                                                        *)

\* It takes nothing back that it sent.
LEMMA PispSends ==
  ASSUME [Pisp!Next]_Pisp!vars
  PROVE  (posted => posted') /\ (tokenSent => tokenSent') /\ credentials \subseteq credentials'
<1>1. CASE UNCHANGED Pisp!vars
  BY <1>1 DEF Pisp!vars
<1>2. ASSUME NEW r \in Requests, Pisp!Arrive(r) PROVE UNCHANGED <<posted, tokenSent, credentials>>
  BY <1>2 DEF Pisp!Arrive, Pisp!RequestConsent, Pisp!Start, Pisp!Authenticate, Pisp!PassCredential, Pisp!Load
<1>3. ASSUME NEW r \in Requests, Pisp!Step(r)
      PROVE  (posted => posted') /\ (tokenSent => tokenSent') /\ credentials \subseteq credentials'
  BY <1>3 DEF Pisp!Step, Pisp!ReadFails, Pisp!RunAbsent, Pisp!RunOver, Pisp!RunRefused, Pisp!RunStart, Pisp!Start,
       Pisp!Post, Pisp!RunAuthenticate, Pisp!RunRegister, Pisp!GiveUp, Pisp!Refuse
<1>4. Pisp!DfspAnswers \/ Pisp!Crash => UNCHANGED <<posted, tokenSent, credentials>>
  BY DEF Pisp!DfspAnswers, Pisp!ConsentRequestsError, Pisp!ConsentRequestsPut, Pisp!ConsentsPost, Pisp!ConsentsError,
         Pisp!ConsentsPatch, Pisp!Deliver, Pisp!Crash
<1> QED
  BY <1>1, <1>2, <1>3, <1>4 DEF Pisp!Next

\* What it does by itself links no account.
LEMMA PispLinksNothing ==
  ASSUME Pisp!TypeOK, Pisp!Unanswered, PispSteps
  PROVE  /\ kvs' = kvs \/ kvs'.state = "start"
         /\ \A r \in Requests : answer'[r] = "linked" => answer[r] = "linked" /\ data'[r] = data[r]
<1>1. ASSUME NEW r \in Requests, pc[r] # "answered",
             answer' \in {answer, [answer EXCEPT ![r] = "500"]},
             \A q \in Requests \ {r} : data'[q] = data[q]
      PROVE  \A q \in Requests : answer'[q] = "linked" => answer[q] = "linked" /\ data'[q] = data[q]
  BY <1>1 DEF Pisp!TypeOK, Pisp!Unanswered
<1>2. ASSUME NEW r \in Requests, NEW d, d.state = "start", pc[r] # "answered", Pisp!Start(r, d)
      PROVE  /\ kvs' = kvs \/ kvs'.state = "start"
             /\ answer' \in {answer, [answer EXCEPT ![r] = "500"]}
             /\ \A q \in Requests \ {r} : data'[q] = data[q]
  BY <1>2 DEF Pisp!Start, Pisp!Fail, Pisp!TypeOK
<1>3. ASSUME NEW r \in Requests, Pisp!Arrive(r)
      PROVE  /\ kvs' = kvs \/ kvs'.state = "start"
             /\ pc[r] # "answered"
             /\ answer' \in {answer, [answer EXCEPT ![r] = "500"]}
             /\ \A q \in Requests \ {r} : data'[q] = data[q]
  <2>1. [Pisp!NoData EXCEPT !.state = "start"].state = "start"
    BY DEF Pisp!NoData
  <2>2. CASE Pisp!RequestConsent(r)
    BY <1>2, <2>1, <2>2 DEF Pisp!RequestConsent, Pisp!MayArrive
  <2>3. CASE Pisp!Authenticate(r) \/ Pisp!PassCredential(r)
    BY <2>3 DEF Pisp!Authenticate, Pisp!PassCredential, Pisp!Load, Pisp!MayArrive, Pisp!TypeOK
  <2> QED
    BY <1>3, <2>2, <2>3 DEF Pisp!Arrive
<1>4. ASSUME NEW r \in Requests, Pisp!Step(r)
      PROVE  /\ kvs' = kvs \/ kvs'.state = "start"
             /\ pc[r] # "answered"
             /\ answer' \in {answer, [answer EXCEPT ![r] = "500"]}
             /\ \A q \in Requests \ {r} : data'[q] = data[q]
  <2>1. CASE Pisp!ReadFails(r) \/ Pisp!RunAbsent(r) \/ Pisp!RunOver(r)
    BY <2>1 DEF Pisp!ReadFails, Pisp!RunAbsent, Pisp!RunOver, Pisp!Refuse, Pisp!Fail, Pisp!TypeOK
  <2>2. CASE Pisp!RunRefused(r) \/ Pisp!GiveUp(r)
    BY <2>2 DEF Pisp!RunRefused, Pisp!GiveUp, Pisp!Fail, Pisp!Phases, Pisp!TypeOK
  <2>3. CASE Pisp!RunStart(r)
    BY <1>2, <2>3 DEF Pisp!RunStart
  <2>4. CASE Pisp!Post(r) \/ Pisp!RunAuthenticate(r) \/ Pisp!RunRegister(r)
    BY <2>4 DEF Pisp!Post, Pisp!RunAuthenticate, Pisp!RunRegister, Pisp!Fail, Pisp!TypeOK
  <2> QED
    BY <1>4, <2>1, <2>2, <2>3, <2>4 DEF Pisp!Step
<1>5. CASE Pisp!Crash
  BY <1>5 DEF Pisp!Crash, Pisp!TypeOK, Pisp!Unanswered, Pisp!Busy, Pisp!Phases
<1> QED
  BY <1>1, <1>3, <1>4, <1>5 DEF PispSteps

LEMMA DeliveredLinked ==
  ASSUME NEW S \in SUBSET Requests, NEW heard, Pisp!Deliver(S, heard), active' = active, LinkedMeansActive,
         \A r \in S : heard[r].state = "accountsLinked" => heard[r].consent \in active
  PROVE  LinkedMeansActive'
<1>1. PICK outcome \in [S -> Pisp!SaveOutcomes] :
        /\ kvs' \in Pisp!AfterSaves({heard[r] : r \in {q \in S : outcome[q] # "lost"}})
        /\ data' = [r \in Requests |->
                      IF r \notin S THEN data[r]
                      ELSE IF outcome[r] = "ok" THEN heard[r] ELSE Pisp!NoData]
        /\ answer' = [r \in Requests |->
                        IF r \notin S THEN answer[r]
                        ELSE IF outcome[r] = "ok" THEN Pisp!Response(heard[r]) ELSE "500"]
  BY DEF Pisp!Deliver
<1>2. kvs'.state = "accountsLinked" => kvs'.consent \in active
  <2>1. kvs' = kvs \/ \E r \in S : kvs' = heard[r]
    BY <1>1 DEF Pisp!AfterSaves
  <2> QED
    BY <2>1 DEF LinkedMeansActive
<1>3. ASSUME NEW r \in Requests, answer'[r] = "linked" PROVE data'[r].consent \in active
  <2>1. CASE r \in S
    <3>1. outcome[r] = "ok" /\ Pisp!Response(heard[r]) = "linked" /\ data'[r] = heard[r]
      BY <1>1, <1>3, <2>1
    <3>2. heard[r].state = "accountsLinked"
      BY <3>1 DEF Pisp!Response
    <3> QED
      BY <2>1, <3>1, <3>2
  <2>2. CASE r \notin S
    BY <1>1, <1>3, <2>2 DEF LinkedMeansActive
  <2> QED
    BY <2>1, <2>2
<1> QED
  BY <1>2, <1>3 DEF LinkedMeansActive

\* Of the messages only PATCH /consents/{ID} does, and only the consent it is about.
LEMMA MessagesLinkOne ==
  ASSUME Pisp!TypeOK, Pisp!HeldSound, Dfsp!Causes, ToPisp \/ ErrorToPisp, LinkedMeansActive
  PROVE  LinkedMeansActive'
<1>1. active' = active
  BY DEF ToPisp, ErrorToPisp, dfspVars
<1>2. ASSUME NEW w \in Workflows, NEW channel \in Pisp!AuthChannels, Pisp!ConsentRequestsPut(channel)
      PROVE  LinkedMeansActive'
  <2> DEFINE S == Pisp!Waiting("requestConsent")
             heard == [r \in Requests |-> [data[r] EXCEPT !.state = Pisp!StateFor(channel), !.channel = channel]]
  <2>1. S \in SUBSET Requests
    BY DEF Pisp!Waiting
  <2>2. \A r \in S : heard[r].state # "accountsLinked"
    BY <2>1 DEF Pisp!StateFor, Pisp!TypeOK, Pisp!Data
  <2>3. Pisp!Deliver(S, heard)
    BY <1>2 DEF Pisp!ConsentRequestsPut
  <2> HIDE DEF S, heard
  <2> QED
    BY <1>1, <2>1, <2>2, <2>3, DeliveredLinked
<1>3. ASSUME NEW c \in Workflows, Pisp!ConsentsPost(c) PROVE LinkedMeansActive'
  <2> DEFINE S == Pisp!Waiting("requestConsentAuthenticate")
             heard == [r \in Requests |-> [data[r] EXCEPT !.consent = c]]
  <2>1. S \in SUBSET Requests
    BY DEF Pisp!Waiting
  <2>2. \A r \in S : heard[r].state # "accountsLinked"
    BY DEF Pisp!Waiting, Pisp!HeldSound, Pisp!TypeOK, Pisp!Data
  <2>3. Pisp!Deliver(S, heard)
    BY <1>3 DEF Pisp!ConsentsPost
  <2> HIDE DEF S, heard
  <2> QED
    BY <1>1, <2>1, <2>2, <2>3, DeliveredLinked
<1>4. ASSUME NEW c \in Workflows, "verified" \in told[c], Pisp!ConsentsPatch(c) PROVE LinkedMeansActive'
  <2> DEFINE S == Pisp!WaitingOn(c)
             heard == [r \in Requests |-> [data[r] EXCEPT !.linked = TRUE]]
  <2>1. S \in SUBSET Requests
    BY DEF Pisp!WaitingOn, Pisp!Waiting
  <2>2. \A r \in S : heard[r].consent = c
    BY DEF Pisp!WaitingOn, Pisp!Waiting, Pisp!TypeOK, Pisp!Data
  <2>3. c \in active
    BY <1>4 DEF Dfsp!Causes
  <2>4. Pisp!Deliver(S, heard)
    BY <1>4 DEF Pisp!ConsentsPatch, Pisp!Linked
  <2> HIDE DEF S, heard
  <2> QED
    BY <1>1, <2>1, <2>2, <2>3, <2>4, DeliveredLinked
<1>5. ASSUME NEW S \in SUBSET Requests, Pisp!Deliver(S, Pisp!Failed) PROVE LinkedMeansActive'
  <2> DEFINE heard == [r \in Requests |-> [data[r] EXCEPT !.state = "errored", !.error = TRUE]]
  <2>1. \A r \in S : heard[r].state # "accountsLinked"
    BY DEF Pisp!TypeOK, Pisp!Data
  <2>2. Pisp!Deliver(S, heard)
    BY <1>5 DEF Pisp!Failed
  <2> HIDE DEF heard
  <2> QED
    BY <1>1, <2>1, <2>2, DeliveredLinked
<1>6. CASE ErrorToPisp
  BY <1>5, <1>6 DEF ErrorToPisp, Pisp!ConsentRequestsError, Pisp!ConsentsError, Pisp!WaitingOn, Pisp!Waiting
<1> QED
  BY <1>2, <1>3, <1>4, <1>6 DEF ToPisp

-----------------------------------------------------------------------------
(* Each step of the flow is a step of both sides.                          *)

\* The DFSP's side needs no invariant: the flow only restricts when its steps occur.
LEMMA DfspStep == [Next]_vars => [Dfsp!Next]_Dfsp!vars
<1>1. UNCHANGED dfspVars => UNCHANGED Dfsp!vars
  BY DEF dfspVars, Dfsp!vars
<1>2. ASSUME DfspSteps PROVE Dfsp!Next
  BY <1>2 DEF DfspSteps, Received, Dfsp!Next, Dfsp!Peers
<1>3. ASSUME NEW w \in Workflows, Signature(w) \/ Failure(w) PROVE Dfsp!Peers(w)
  BY <1>3 DEF Signature, Failure, Dfsp!Peers
<1>4. ASSUME ToDfsp PROVE Dfsp!Next
  BY <1>3, <1>4 DEF ToDfsp, Dfsp!Next
<1> QED
  BY <1>1, <1>2, <1>4 DEF Next, PispSteps, ToPisp, ErrorToPisp, vars

\* The PISP's side needs to know that the DFSP answers only what it was sent.
LEMMA PispStep ==
  ASSUME Dfsp!Causes, Tied, [Next]_vars
  PROVE  [Pisp!Next]_Pisp!vars
<1>1. UNCHANGED pispVars => UNCHANGED Pisp!vars
  BY DEF pispVars, Pisp!vars
<1>2. CASE PispSteps
  BY <1>2 DEF PispSteps, Pisp!Next
<1>3. ASSUME ToPisp PROVE Pisp!DfspAnswers
  <2>1. PICK w \in Workflows :
          \/ \E channel \in told[w] \cap Pisp!AuthChannels : Pisp!ConsentRequestsPut(channel)
          \/ "consent" \in told[w] /\ Pisp!ConsentsPost(w)
          \/ "verified" \in told[w] /\ Pisp!ConsentsPatch(w)
    BY <1>3 DEF ToPisp
  <2>2. told[w] # {} => posted
    BY DEF Tied
  <2>3. "consent" \in told[w] => tokenSent
    BY DEF Tied, Dfsp!Causes
  <2>4. "verified" \in told[w] => \E k \in Pisp!SentFor(w) : k.signed = w
    BY DEF Tied, Dfsp!Causes, Pisp!SentFor
  <2> QED
    BY <2>1, <2>2, <2>3, <2>4 DEF Pisp!DfspAnswers, Pisp!Granted
<1>4. ASSUME ErrorToPisp PROVE Pisp!DfspAnswers
  BY <1>4 DEF ErrorToPisp, Pisp!DfspAnswers
<1> QED
  BY <1>1, <1>2, <1>3, <1>4 DEF Next, DfspSteps, ToDfsp, vars, Pisp!Next

LEMMA NextTied ==
  ASSUME Dfsp!TypeOK, Dfsp!Causes, Tied, [Next]_vars
  PROVE  Tied'
<1>1. CASE UNCHANGED dfspVars
  <2>1. (posted => posted') /\ (tokenSent => tokenSent') /\ credentials \subseteq credentials'
    BY PispStep, PispSends
  <2> QED
    BY <1>1, <2>1 DEF Tied, dfspVars
<1>2. ASSUME NEW w \in Workflows, Received(w), UNCHANGED pispVars PROVE Tied'
  BY <1>2 DEF Received, Dfsp!Receive, Dfsp!Move, Dfsp!TypeOK, Tied, pispVars
<1>3. CASE DfspSteps /\ ~ \E w \in Workflows : Received(w)
  BY <1>3, DfspQuiet, QuietTied DEF DfspSteps
<1>4. CASE ToDfsp
  BY <1>4, ToDfspTied
<1> QED
  BY <1>1, <1>2, <1>3, <1>4 DEF Next, PispSteps, DfspSteps, ToPisp, ErrorToPisp, vars, dfspVars

\* The backend takes no consent back.
LEMMA NextLinked ==
  ASSUME Pisp!TypeOK, Pisp!HeldSound, Pisp!Unanswered, Dfsp!Causes, LinkedMeansActive, [Next]_vars
  PROVE  LinkedMeansActive'
<1>1. CASE PispSteps
  BY <1>1, PispLinksNothing DEF LinkedMeansActive, PispSteps, dfspVars
<1>2. CASE UNCHANGED pispVars
  <2>1. active \subseteq active'
    <3>1. [Dfsp!Next]_Dfsp!vars
      BY DfspStep
    <3> QED
      BY <3>1 DEF Dfsp!Next, Dfsp!vars, Dfsp!Crash, Dfsp!ConsentRequestsPatch, Dfsp!Receive, Dfsp!Step, Dfsp!Peers,
           Dfsp!ValidateDone, Dfsp!CheckDone, Dfsp!RefusalDone, Dfsp!SaveDone, Dfsp!NotifyDone, Dfsp!CallFails,
           Dfsp!GiveUp, Dfsp!ConsentsPutPending, Dfsp!ConsentsPutVerified, Dfsp!ConsentsError, Dfsp!Activate
  <2> QED
    BY <1>2, <2>1 DEF LinkedMeansActive, pispVars
<1>3. CASE ToPisp \/ ErrorToPisp
  BY <1>3, MessagesLinkOne
<1> QED
  BY <1>1, <1>2, <1>3 DEF Next, DfspSteps, ToDfsp, vars

-----------------------------------------------------------------------------
(* Theorems.                                                               *)

LEMMA Bound == Spec => [](D!IInv /\ Tied)
<1>1. Init => D!Init /\ Tied
  BY DfspSame DEF Init, Tied, Dfsp!Init
<1>2. [Next]_vars => [D!Next]_D!vars
  BY DfspStep, DfspSame
<1>3. D!IInv /\ Tied /\ [Next]_vars => D!IInv' /\ Tied'
  BY <1>2, D!NextIInv, NextTied, DfspSame
<1> QED
  BY <1>1, <1>3, D!InitIInv, PTL DEF Spec

\* The PISP's module describes all that the PISP meets here: what is proved of
\* PispLinking holds with this DFSP.
THEOREM PispIsMet == Spec => PispExpects
<1>1. Init => Pisp!Init
  BY DEF Init
<1>2. D!IInv /\ Tied /\ [Next]_vars => [Pisp!Next]_Pisp!vars
  BY PispStep, DfspSame
<1> QED
  BY <1>1, <1>2, Bound, PTL DEF Spec, PispExpects, Pisp!Spec

LEMMA PispBound == Spec => []Pisp!IInv
BY PispIsMet, PispInvariance, PTL DEF PispExpects

\* However requests overlap, retry and crash, and whatever messages are lost,
\* repeated or reordered: the DFSP's backend stores a consent only if it found the
\* user's token valid, and the consent was shown to the PISP's backend and signed.
THEOREM ActiveSigned == Spec => []ActiveWasSigned
<1>1. Pisp!IInv /\ D!IInv /\ Tied => ActiveWasSigned
  <2> SUFFICES ASSUME Pisp!IInv, D!IInv, Tied, NEW w \in active
               PROVE  /\ w \in authenticated
                      /\ \E k \in credentials : k.consent = w /\ k.signed = w
                      /\ \E r \in Requests : answer[r] = "consent" /\ data[r].consent = w
    BY DEF ActiveWasSigned
  <2>1. Pisp!SignedWasShown /\ Dfsp!TypeOK /\ Dfsp!Causes
    BY DfspSame DEF Pisp!IInv
  <2>2. w \in Workflows /\ w \in authenticated /\ checked[w] = "signed"
    BY <2>1 DEF Dfsp!TypeOK, Dfsp!Causes
  <2>3. PICK k \in credentials : k.consent = w /\ k.signed = w
    BY <2>2 DEF Tied
  <2>4. w \in Pisp!Shown
    BY <2>1, <2>2, <2>3, LinkingFlowAssumption DEF Pisp!SignedWasShown
  <2> QED
    BY <2>2, <2>3, <2>4 DEF Pisp!Shown
<1> QED
  BY <1>1, Bound, PispBound, PTL

\* The backend that is told that its accounts are linked is told so of a consent
\* that the DFSP has stored, and so is whoever reads the record.
THEOREM Linked == Spec => []LinkedMeansActive
<1>1. Init => LinkedMeansActive
  BY DEF Init, Pisp!Init, Pisp!NoData, LinkedMeansActive
<1>2. Pisp!IInv /\ D!IInv /\ LinkedMeansActive /\ [Next]_vars => LinkedMeansActive'
  BY NextLinked, DfspSame DEF Pisp!IInv
<1> QED
  BY <1>1, <1>2, Bound, PispBound, PTL DEF Spec

\* The inductive invariant of the flow: those of its sides, and what ties them.
THEOREM Invariance == Spec => []IInv
<1>1. Pisp!IInv /\ D!IInv /\ Tied /\ LinkedMeansActive => IInv
  BY DfspSame DEF IInv
<1> QED
  BY <1>1, Bound, PispBound, Linked, PTL

\* No record of the PISP says what it does not carry.
THEOREM Record == Spec => []RecordSound
<1>1. Pisp!IInv => RecordSound
  BY DEF Pisp!IInv, RecordSound
<1> QED
  BY <1>1, PispBound, PTL

\* A workflow whose user was authenticated does not end before the PISP was told how,
\* or had declined itself, unless the DFSP's server dies.
THEOREM Told == Spec => []AuthenticatedIsTold
<1>1. D!IInv => AuthenticatedIsTold
  BY DfspSame DEF Dfsp!IInv, AuthenticatedIsTold
<1> QED
  BY <1>1, Bound, PTL

\* The DFSP's workflows keep the promise of Consent to a PISP that answers as it does.
THEOREM Promised == Spec => KeepsPromise
<1>1. D!Init => Dfsp!Promise!Init
  BY DEF D!Init, Dfsp!Promise!Init, Dfsp!ToldOf
<1>2. D!IInv /\ [D!Next]_D!vars => [D!Promise!Next]_D!Promise!vars
  BY D!NextPromise DEF D!PromiseStep
<1>3. [D!Promise!Next]_D!Promise!vars => [Dfsp!Promise!Next]_Dfsp!Promise!vars
  BY DEF D!Promise!Next, D!Promise!vars, D!Promise!Live, D!Promise!Authenticate, D!Promise!Sign, D!Promise!Order,
         D!Promise!Activate, D!Promise!Confirm, D!Promise!Refuse, D!ToldOf,
         Dfsp!Promise!Next, Dfsp!Promise!vars, Dfsp!Promise!Live, Dfsp!Promise!Authenticate, Dfsp!Promise!Sign,
         Dfsp!Promise!Order, Dfsp!Promise!Activate, Dfsp!Promise!Confirm, Dfsp!Promise!Refuse, Dfsp!ToldOf
<1>4. [Next]_vars => [D!Next]_D!vars
  BY DfspStep, DfspSame
<1>5. Init => D!Init
  BY DfspSame DEF Init
<1> QED
  BY <1>1, <1>2, <1>3, <1>4, <1>5, Bound, PTL DEF Spec, KeepsPromise, Dfsp!KeepsPromise, Dfsp!Promise!Spec
=============================================================================
