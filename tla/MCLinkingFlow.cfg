\* Overlapping requests, store faults and restarts, from the consent request to the
\* verified link.
SPECIFICATION Spec
CONSTANTS
  r1 = r1
  r2 = r2
  r3 = r3
  r4 = r4
  r5 = r5
  r6 = r6
  w1 = w1
  w2 = w2
  Requests <- Three
  AtRequestConsent <- Three
  AtAuthenticate <- Three
  AtPassCredential <- Three
  Workflows <- TwoWorkflows
  Concurrent = TRUE
  RedisFaults = TRUE
SYMMETRY SymThree
INVARIANTS
  IInv
  RecordSound
  AuthenticatedIsTold
PROPERTIES
  KeepsPromise
  PispExpects
\* Requests are one-shot, workflows end.
CHECK_DEADLOCK FALSE
