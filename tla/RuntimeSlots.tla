---------------------------- MODULE RuntimeSlots ----------------------------
(***************************************************************************)
(* The Runtime implements VMSlots: whatever a caller's request, a drop, an *)
(* eviction, a sweep (ApartSpec) or a close does to pools, queues and      *)
(* counters, its effect on the VMs is one step of VMSlots, or none.        *)
(***************************************************************************)
EXTENDS Runtime

VM == INSTANCE VMSlots WITH
    Users <- Callers, VMs <- StateIds, Cap <- MaxStates,
    use <- [c \in Callers |-> IF held[c] = None THEN None ELSE held[c].L],
    building <- Building, idle <- IdleStates(Mapped), lost <- 0, shut <- closed

\* Every step of the Runtime grants, builds, gives back or retires VMs as
\* VMSlots allows: capped, with one owner each, and never once it is closed.
ImplementsSlots == VM!SlotsSpec

=============================================================================
