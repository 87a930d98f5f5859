\* Repeated POSTs of one transaction request, with timers that fire, peers that need
\* not answer, store faults and crashes.
SPECIFICATION FairSpec
CONSTANTS
  w1 = w1
  w2 = w2
  w3 = w3
  Workflows <- Three
  RedisFaults = TRUE
INVARIANTS
  IInv
  RecordTruthful
PROPERTIES
  KeepsPromise
  WaitsEnd
\* Workflows end.
CHECK_DEADLOCK FALSE
