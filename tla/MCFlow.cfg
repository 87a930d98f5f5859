\* A backend that waits for each answer, from the lookup to the transfer.
SPECIFICATION Spec
CONSTANTS
  r1 = r1
  r2 = r2
  r3 = r3
  r4 = r4
  w1 = w1
  w2 = w2
  usd = usd
  eur = eur
  Amounts <- Around
  Currencies <- TwoCurrencies
  Requests <- Four
  Workflows <- TwoWorkflows
  Concurrent = FALSE
  RedisFaults = FALSE
  MaxCrashes = 1
SYMMETRY SymFour
INVARIANTS
  StatusMeansPaid
  PaidOnce
\* Requests are one-shot, workflows end.
CHECK_DEADLOCK FALSE
