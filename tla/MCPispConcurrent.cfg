\* Requests of any kind at the same time, with timers that fire, store faults and a restart.
SPECIFICATION FairSpec
CONSTANTS
  r1 = r1
  r2 = r2
  r3 = r3
  r4 = r4
  r5 = r5
  a1 = a1
  a2 = a2
  Requests <- Three
  Authorizations <- TwoIds
  Concurrent = TRUE
  RedisFaults = TRUE
  MaxCrashes = 1
INVARIANTS
  IInv
  BarrierHolds
  RecordSound
PROPERTIES
  WaitingIsAnswered
\* Requests are one-shot: once all are served nothing is left to do.
CHECK_DEADLOCK FALSE
