----------------------------- MODULE MCRuntime -----------------------------
(***************************************************************************)
(* Runtime on small instances.                                             *)
(***************************************************************************)
EXTENDS RuntimeInv, RuntimeSlots

Symmetry == Permutations(Callers) \cup Permutations(Keys)

\* What an object held that nothing refers to any more tells no two states
\* apart: RunCreate, LoadSource and Register set every field before its use.
View ==
    LET used == UsedPools
        Alive(f, default) == [p \in PoolIds |-> IF p \in used THEN f[p] ELSE default]
    IN  <<callVars, mapVars, Alive(keyOf, None), Alive(phase, "new"), Alive(version, 0),
          Alive(idle, <<>>), Alive(checkedOut, 0), Alive(lastUsed, 0),
          Alive(dropped, FALSE), slotVars, waitVars, closed, envVars>>
=============================================================================
