\* The DFSP rejects an approval.
SPECIFICATION Spec
CONSTANTS
  r1 = r1
  r2 = r2
  r3 = r3
  r4 = r4
  r5 = r5
  a1 = a1
  a2 = a2
  Requests <- Three
  Authorizations <- TwoIds
  Concurrent = FALSE
  RedisFaults = FALSE
  MaxCrashes = 0
INVARIANTS
  RejectionIsAnError
\* Requests are one-shot: once all are served nothing is left to do.
CHECK_DEADLOCK FALSE
