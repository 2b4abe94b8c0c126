----------------------------- MODULE MCCatalog -----------------------------
EXTENDS Catalog, TLC

CONSTANTS d1, d2, h1, h2, p1, p2, p3, u1

\* An address each; ChainEndpointsDisjoint is proved for any.
MCHost == [d \in Deps |-> IF d = d2 THEN h2 ELSE h1]
MCSshPort == [d \in Deps |-> p3]
MCNodeOf == [u \in Users |-> d1]
Symmetric == Permutations(Threads) \cup Permutations(Chains) \cup Permutations({p1, p2})
=============================================================================
