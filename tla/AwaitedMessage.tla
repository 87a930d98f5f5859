--------------------------- MODULE AwaitedMessage ---------------------------
(***************************************************************************)
(* What `deferredJob(...).init(i).job(l).wait(t)` promises its caller,     *)
(* whatever Redis does (shared/deferred-job.ts, the comments of            *)
(* DeferredWait and DeferredJob): a promise that settles at most once, a   *)
(* listener that takes at most one message and only while the promise is   *)
(* pending, and a promise that resolves only because the listener has      *)
(* finished with the message it took.                                      *)
(***************************************************************************)
EXTENDS Naturals

CONSTANT Jobs

VARIABLES
  promise,  \* "unmade", "pending", "resolved" or "rejected", per job
  calls     \* how often the job's listener was invoked

vars == <<promise, calls>>

TypeOK ==
  /\ promise \in [Jobs -> {"unmade", "pending", "resolved", "rejected"}]
  /\ calls \in [Jobs -> {0, 1}]

Init ==
  /\ promise = [j \in Jobs |-> "unmade"]
  /\ calls = [j \in Jobs |-> 0]

\* The caller asks; asking may be refused on the spot.
Ask(j) ==
  /\ promise[j] = "unmade"
  /\ \E p \in {"pending", "rejected"} : promise' = [promise EXCEPT ![j] = p]
  /\ UNCHANGED calls

\* One message is handed to every job of a set, each of which still waits.
Take(S) ==
  /\ \A j \in S : promise[j] = "pending" /\ calls[j] = 0
  /\ calls' = [j \in Jobs |-> IF j \in S THEN 1 ELSE calls[j]]
  /\ UNCHANGED promise

\* The listener has consumed its message.
Resolve(j) ==
  /\ promise[j] = "pending"
  /\ calls[j] = 1
  /\ promise' = [promise EXCEPT ![j] = "resolved"]
  /\ UNCHANGED calls

\* Timeout, or a failing initiator or listener.
Reject(j) ==
  /\ promise[j] = "pending"
  /\ promise' = [promise EXCEPT ![j] = "rejected"]
  /\ UNCHANGED calls

Next ==
  \/ \E j \in Jobs : Ask(j) \/ Resolve(j) \/ Reject(j)
  \/ \E S \in SUBSET Jobs : Take(S)

Spec == Init /\ [][Next]_vars
=============================================================================
