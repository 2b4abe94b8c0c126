--------------------------- MODULE ResourceMutex ---------------------------
(***************************************************************************)
(* What the operation locks promise: a job owns a set of resources from    *)
(* the moment it is accepted until it ends, and no two jobs own the same   *)
(* one.  A process that dies drops every ownership at once.                *)
(***************************************************************************)
CONSTANTS Jobs, Resources
VARIABLE owns

Owned == UNION {owns[j] : j \in Jobs}

Init == owns = [j \in Jobs |-> {}]

Acquire(j, R) == /\ owns[j] = {}
                 /\ R \cap Owned = {}
                 /\ owns' = [owns EXCEPT ![j] = R]

Release(j) == owns' = [owns EXCEPT ![j] = {}]

DropAll == owns' = [j \in Jobs |-> {}]

Next == \/ \E j \in Jobs, R \in SUBSET Resources : Acquire(j, R)
        \/ \E j \in Jobs : Release(j)
        \/ DropAll

Spec == Init /\ [][Next]_owns
=============================================================================
