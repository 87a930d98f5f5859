--------------------------- MODULE MCLinkingFlow ---------------------------
EXTENDS LinkingFlow, TLC

CONSTANTS r1, r2, r3, r4, r5, r6, w1, w2

Three == {r1, r2, r3}

Six == {r1, r2, r3, r4, r5, r6}

FirstTwo == {r1, r2}
NextTwo == {r3, r4}
LastTwo == {r5, r6}

TwoWorkflows == {w1, w2}

SymThree == Permutations(Three) \union Permutations(TwoWorkflows)

SymPairs ==
  UNION {Permutations(S) : S \in {FirstTwo, NextTwo, LastTwo, TwoWorkflows}}
=============================================================================
