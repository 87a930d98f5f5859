------------------------- MODULE MCDfspTransaction -------------------------
EXTENDS DfspTransaction

CONSTANTS w1, w2, w3

Three == {w1, w2, w3}
=============================================================================
