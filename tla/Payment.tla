------------------------------ MODULE Payment ------------------------------
(***************************************************************************)
(* What the DFSP promises about a transaction request it works on, whatever *)
(* fails: money moves only when ordered, it is ordered only after the PISP *)
(* was offered the terms and the auth-service confirmed the signature given *)
(* for them, nothing new begins once the PISP was told of a failure, and    *)
(* the PISP is told of a success only when the money has moved.             *)
(***************************************************************************)
CONSTANT Workflows

VARIABLES
  stage,  \* how far each workflow has brought its payment
  told    \* what the PISP was told of its end

vars == <<stage, told>>

TypeOK ==
  /\ stage \in [Workflows -> {"open", "offered", "consented", "ordered", "paid"}]
  /\ told \in [Workflows -> SUBSET {"error", "completed"}]

Init ==
  /\ stage = [w \in Workflows |-> "open"]
  /\ told = [w \in Workflows |-> {}]

Move(w, from, to) ==
  /\ stage[w] = from
  /\ stage' = [stage EXCEPT ![w] = to]
  /\ UNCHANGED told

\* Offering, asking for confirmation and ordering belong to a live workflow.
Progress(w) ==
  /\ told[w] = {}
  /\ \/ Move(w, "open", "offered")
     \/ Move(w, "offered", "consented")
     \/ Move(w, "consented", "ordered")

\* An order may be carried out at any time.
Pay(w) == Move(w, "ordered", "paid")

Tell(w, news) ==
  /\ told' = [told EXCEPT ![w] = @ \union {news}]
  /\ UNCHANGED stage

Succeed(w) ==
  /\ stage[w] = "paid"
  /\ told[w] = {}
  /\ Tell(w, "completed")

Refuse(w) == Tell(w, "error")

Next == \E w \in Workflows : Progress(w) \/ Pay(w) \/ Succeed(w) \/ Refuse(w)

Spec == Init /\ [][Next]_vars
=============================================================================
