---------------------------- MODULE MCHotReload ----------------------------
(***************************************************************************)
(* HotReload on small instances.                                           *)
(***************************************************************************)
EXTENDS HotReload

ReloadSymmetry == Permutations(Callers) \cup Permutations(Keys)

\* As in MCRuntime, with the history of a call that is over hidden as well.
ReloadView ==
    LET used == UsedPools
        Alive(f, default) == [p \in PoolIds |-> IF p \in used THEN f[p] ELSE default]
    IN  <<callVars, mapVars, Alive(keyOf, None), Alive(phase, "new"),
          Alive(version, 0), Alive(idle, <<>>), Alive(checkedOut, 0),
          Alive(lastUsed, 0), Alive(dropped, FALSE), slotVars, waitVars, closed,
          envVars, loaderVars, stage, heard,
          [c \in Callers |-> IF pc[c] = "out" THEN <<>> ELSE since[c]]>>
=============================================================================
