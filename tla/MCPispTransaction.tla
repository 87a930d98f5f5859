------------------------- MODULE MCPispTransaction -------------------------
EXTENDS PispTransaction, TLC

CONSTANTS r1, r2, r3, r4, r5, a1, a2

Three == {r1, r2, r3}
Four == {r1, r2, r3, r4}
Five == {r1, r2, r3, r4, r5}

TwoIds == {a1, a2}

SymThree == Permutations(Three)
SymFour == Permutations(Four)
SymFive == Permutations(Five) \union Permutations(TwoIds)
=============================================================================
