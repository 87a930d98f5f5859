--------------------------- MODULE MCDeferredJob ---------------------------
(* Two calls that share a channel and one on a channel of its own.         *)
EXTENDS DeferredJob

CONSTANTS c1, c2, j1, j2, j3

MCChannels == {c1, c2}
MCJobs == {j1, j2, j3}
MCChannelOf == [j \in MCJobs |-> IF j = j3 THEN c2 ELSE c1]

MCPair == {j1, j2}
MCPairChannelOf == [j \in MCPair |-> c1]
MCPairChannels == {c1}
=============================================================================
