---------------------------- MODULE MCDiscovery ----------------------------
(* A request for providers, and a user who is looked for at two DFSPs.     *)
EXTENDS Discovery, TLC

CONSTANTS p1, a1, a2, u1, services, f1, f2

Providers == {p1}
Accounts == {a1, a2}
AllRequests == Providers \union Accounts
AllChannels == {u1, services}
Users == (a1 :> u1) @@ (a2 :> u1)
Dfsps == (a1 :> f1) @@ (a2 :> f2)
=============================================================================
