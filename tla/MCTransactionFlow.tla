------------------------- MODULE MCTransactionFlow -------------------------
EXTENDS TransactionFlow, TLC

CONSTANTS r1, r2, r3, r4, w1, w2, usd, eur

Three == {r1, r2, r3}
Four == {r1, r2, r3, r4}
TwoWorkflows == {w1, w2}

\* Quotes around whole cents and half cents.
Around == {0, 49, 50, 51, 100, 150, 1000, 1049, 1050, 1051, 1100}
TwoCurrencies == {usd, eur}

SymThree == Permutations(Three) \union Permutations(TwoWorkflows)
SymFour == Permutations(Four) \union Permutations(TwoWorkflows)
=============================================================================
