------------------------------ MODULE VMSlots ------------------------------
(***************************************************************************)
(* What a Runtime promises of its Lua States (VMs), whatever pools, queues *)
(* and counters it keeps them with: at most Cap slots; a slot is reserved  *)
(* for one user, who builds a VM in it, or is granted with an idle VM; the *)
(* VM goes back to the idle ones or is discarded with its slot; a closed   *)
(* Runtime grants nothing, and keeps nothing idle.                         *)
(*                                                                         *)
(* Runtime implements this module (RuntimeSlots); Execution runs scripts   *)
(* on top of it.                                                           *)
(***************************************************************************)
EXTENDS Integers, FiniteSets

CONSTANTS
    Users,        \* those who run scripts, one VM at a time each
    VMs,          \* identities of VMs
    Cap,          \* Config.MaxStates
    None          \* the user owns no VM

ASSUME SlotsAssumption ==
    /\ IsFiniteSet(Users)
    /\ Cap \in Nat \ {0}
    /\ None \notin VMs

VARIABLES
    use,          \* the VM each user owns
    building,     \* the users whose VM is under construction
    idle,         \* the VMs nobody owns
    lost,         \* slots whose VM was never built and that nobody gave back
    shut          \* the Runtime is closed

slotVars == <<use, building, idle, lost, shut>>

Owned == {use[u] : u \in Users} \ {None}

HasSlot(u) == use[u] # None \/ u \in building

\* The slots that are taken.
Taken == Cardinality(idle) + Cardinality({u \in Users : HasSlot(u)}) + lost

SlotsInit ==
    /\ use = [u \in Users |-> None]
    /\ building = {}
    /\ idle = {}
    /\ lost = 0
    /\ shut = FALSE

\* Mutant: one slot too many.
ReserveOneMore(u) ==
    /\ ~shut /\ ~HasSlot(u)
    /\ Taken <= Cap
    /\ building' = building \cup {u}
    /\ UNCHANGED <<use, idle, lost, shut>>

\* A free slot is reserved.
Reserve(u) ==
    /\ ~shut /\ ~HasSlot(u)
    /\ Taken < Cap
    /\ building' = building \cup {u}
    /\ UNCHANGED <<use, idle, lost, shut>>

\* Mutant: the construction is not over when the VM is granted.
BuildUnmarked(u) ==
    /\ u \in building
    /\ \E v \in VMs \ (idle \cup Owned) : use' = [use EXCEPT ![u] = v]
    /\ UNCHANGED <<building, idle, lost, shut>>

\* Its VM is built.
Build(u) ==
    /\ u \in building
    /\ \E v \in VMs \ (idle \cup Owned) : use' = [use EXCEPT ![u] = v]
    /\ building' = building \ {u}
    /\ UNCHANGED <<idle, lost, shut>>

\* The build returns an error: the slot is free again.
BuildError(u) ==
    /\ u \in building
    /\ building' = building \ {u}
    /\ UNCHANGED <<use, idle, lost, shut>>

\* The build panics (a library opener does): nobody gives the slot back.
BuildPanic(u) ==
    /\ u \in building
    /\ building' = building \ {u}
    /\ lost' = lost + 1
    /\ UNCHANGED <<use, idle, shut>>

\* An idle VM is granted.
Take(u) ==
    /\ ~shut /\ ~HasSlot(u)
    /\ \E v \in idle :
         /\ use' = [use EXCEPT ![u] = v]
         /\ idle' = idle \ {v}
    /\ UNCHANGED <<building, lost, shut>>

GiveBack(u) ==
    /\ ~shut /\ use[u] # None
    /\ use' = [use EXCEPT ![u] = None]
    /\ idle' = idle \cup {use[u]}
    /\ UNCHANGED <<building, lost, shut>>

\* The VM is closed: its script changed, or the Runtime was closed.
Discard(u) ==
    /\ use[u] # None
    /\ use' = [use EXCEPT ![u] = None]
    /\ UNCHANGED <<building, idle, lost, shut>>

\* Idle VMs are closed: evicted, dropped or swept.
Retire ==
    /\ \E S \in SUBSET idle : S # {} /\ idle' = idle \ S
    /\ UNCHANGED <<use, building, lost, shut>>

Shut ==
    /\ ~shut
    /\ shut' = TRUE
    /\ idle' = {}
    /\ UNCHANGED <<use, building, lost>>

SlotsNext ==
    \/ \E u \in Users :
         Reserve(u) \/ Build(u) \/ BuildError(u) \/ BuildPanic(u) \/ Take(u)
         \/ GiveBack(u) \/ Discard(u)
    \/ Retire
    \/ Shut

SlotsSpec == SlotsInit /\ [][SlotsNext]_slotVars

-----------------------------------------------------------------------------
\* Properties

SlotsTypeOK ==
    /\ use \in [Users -> VMs \cup {None}]
    /\ building \in SUBSET {u \in Users : use[u] = None}
    /\ idle \in SUBSET VMs
    /\ lost \in Nat
    /\ shut \in BOOLEAN

\* A VM has one owner or is idle, the cap is hard, and a closed Runtime keeps
\* nothing idle (Config.MaxStates; the ownership window of RunWith; Close).
SlotsSafe ==
    /\ \A u, v \in Users : use[u] # None /\ use[u] = use[v] => u = v
    /\ Owned \cap idle = {}
    /\ Taken <= Cap
    /\ shut => idle = {}

=============================================================================
