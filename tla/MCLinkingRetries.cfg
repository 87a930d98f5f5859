\* Two requests at each endpoint, one after the other: two consents that are both shown,
\* signed and registered; no store faults.
SPECIFICATION Spec
CONSTANTS
  r1 = r1
  r2 = r2
  r3 = r3
  r4 = r4
  r5 = r5
  r6 = r6
  w1 = w1
  w2 = w2
  Requests <- Six
  AtRequestConsent <- FirstTwo
  AtAuthenticate <- NextTwo
  AtPassCredential <- LastTwo
  Workflows <- TwoWorkflows
  Concurrent = FALSE
  RedisFaults = FALSE
SYMMETRY SymPairs
INVARIANTS
  ActiveWasSigned
  LinkedMeansActive
\* Requests are one-shot, workflows end.
CHECK_DEADLOCK FALSE
