------------------------------ MODULE Consent ------------------------------
(***************************************************************************)
(* What the DFSP promises about a consent, whatever fails: it becomes      *)
(* active only by an order, and is ordered only after the user was         *)
(* authenticated for it, a credential was signed for it and the            *)
(* auth-service has registered that credential; nothing new begins once    *)
(* the PISP was told of a failure; and the PISP is told that the accounts  *)
(* are linked only when the consent is active.                             *)
(***************************************************************************)
CONSTANT Workflows

VARIABLES
  authenticated,  \* the user's token was found valid
  signed,         \* the PISP answered with a credential that fits
  ordered,        \* the backend was told to store the consent
  active,         \* the backend has stored it
  refused,        \* the PISP was told of a failure
  confirmed       \* the PISP was told that the accounts are linked

vars == <<authenticated, signed, ordered, active, refused, confirmed>>

Init ==
  /\ authenticated = {}
  /\ signed = {}
  /\ ordered = {}
  /\ active = {}
  /\ refused = {}
  /\ confirmed = {}

Live(w) == w \notin refused \union confirmed

\* The consent is granted next, which may fail before the PISP hears of it.
Authenticate(w) ==
  /\ Live(w)
  /\ authenticated' = authenticated \union {w}
  /\ refused' \in {refused, refused \union {w}}
  /\ UNCHANGED <<signed, ordered, active, confirmed>>

Sign(w) ==
  /\ Live(w)
  /\ w \in authenticated
  /\ signed' = signed \union {w}
  /\ UNCHANGED <<authenticated, ordered, active, refused, confirmed>>

Order(w) ==
  /\ Live(w)
  /\ w \in signed
  /\ ordered' = ordered \union {w}
  /\ UNCHANGED <<authenticated, signed, active, refused, confirmed>>

\* An order may be carried out at any time.
Activate(w) ==
  /\ w \in ordered
  /\ active' = active \union {w}
  /\ UNCHANGED <<authenticated, signed, ordered, refused, confirmed>>

Confirm(w) ==
  /\ Live(w)
  /\ w \in active
  /\ confirmed' = confirmed \union {w}
  /\ UNCHANGED <<authenticated, signed, ordered, active, refused>>

Refuse(w) ==
  /\ refused' = refused \union {w}
  /\ UNCHANGED <<authenticated, signed, ordered, active, confirmed>>

Next ==
  \E w \in Workflows :
    \/ Authenticate(w) \/ Sign(w) \/ Order(w) \/ Activate(w)
    \/ Confirm(w) \/ Refuse(w)

Spec == Init /\ [][Next]_vars
=============================================================================
