\* Requests that overlap and store faults: what each side may expect.
SPECIFICATION Spec
CONSTANTS
  r1 = r1
  r2 = r2
  r3 = r3
  r4 = r4
  w1 = w1
  w2 = w2
  usd = usd
  eur = eur
  Amounts <- Around
  Currencies <- TwoCurrencies
  Requests <- Three
  Workflows <- TwoWorkflows
  Concurrent = TRUE
  RedisFaults = TRUE
  MaxCrashes = 0
SYMMETRY SymThree
INVARIANTS
  PaidForWhatWasShown
  ShownTermsAreRight
PROPERTIES
  PispExpects
\* Requests are one-shot, workflows end.
CHECK_DEADLOCK FALSE
