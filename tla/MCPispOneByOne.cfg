\* A client that waits for each answer; store faults and a restart.
SPECIFICATION Spec
CONSTANTS
  r1 = r1
  r2 = r2
  r3 = r3
  r4 = r4
  r5 = r5
  a1 = a1
  a2 = a2
  Requests <- Five
  Authorizations <- TwoIds
  Concurrent = FALSE
  RedisFaults = TRUE
  MaxCrashes = 1
SYMMETRY SymFive
INVARIANTS
  SignedForWhatWasShown
  OneConsent
PROPERTIES
  OnlyForward
  FinalIsFinal
\* Requests are one-shot: once all are served nothing is left to do.
CHECK_DEADLOCK FALSE
