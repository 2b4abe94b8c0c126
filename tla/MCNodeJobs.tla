----------------------------- MODULE MCNodeJobs -----------------------------
(* Finite instances of NodeJobs.                                           *)
EXTENDS NodeJobs, TLC

CONSTANTS s1, s2, d1, d2, d3, c1, c2

\* One server that is deployed to more than once; no chains.
OneServerHome == (d1 :> s1) @@ (d2 :> s1)
NoPath == [c \in {} |-> <<>>]

\* Two servers, one of which is deployed to more than once.
ThreeHome == (d1 :> s1) @@ (d2 :> s2) @@ (d3 :> s1)

\* Two servers with a node each; one chain over both, or one in each direction.
TwoServerHome == (d1 :> s1) @@ (d2 :> s2)
ChainPath == (c1 :> <<d1, d2>>)
TwoChainPath == (c1 :> <<d1, d2>>) @@ (c2 :> <<d2, d1>>)

\* Job slots and request threads have no order.
Symmetric == Permutations(Jobs) \cup Permutations(Requests)
=============================================================================
