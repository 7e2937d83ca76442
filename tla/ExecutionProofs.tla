-------------------------- MODULE ExecutionProofs --------------------------
(***************************************************************************)
(* VMSlots keeps its promise (one owner per VM, a hard cap, nothing idle   *)
(* in a closed Runtime), Execution uses VMSlots as it is meant to be used, *)
(* and a call leaves nothing of it on a State; for every set of users and  *)
(* every cap.                                                              *)
(***************************************************************************)
EXTENDS Execution, TLAPS, FiniteSetTheorems

(***************************************************************************)
(* VMSlots keeps its promise.                                              *)
(***************************************************************************)


\* The users that have a slot.
SlotUsers == {u \in Users : HasSlot(u)}

\* The inductive invariant: only finitely many VMs are idle, so that they can
\* be counted.
SlotsInv == SlotsTypeOK /\ SlotsSafe /\ IsFiniteSet(idle)

\* The users that have a slot are counted.
LEMMA SlotUsersFinite ==
    /\ IsFiniteSet(SlotUsers) /\ Cardinality(SlotUsers) \in Nat
    /\ IsFiniteSet(SlotUsers') /\ Cardinality(SlotUsers') \in Nat
<1>1. IsFiniteSet(SlotUsers) /\ IsFiniteSet(SlotUsers')
  BY SlotsAssumption, FS_Subset DEF SlotUsers
<1> QED
  BY <1>1, FS_CardinalityType

\* Reserve, Build, BuildError and BuildPanic: the slot is counted from the
\* reservation on, and is lost if nobody gives it back.
LEMMA BuildingStep ==
    ASSUME SlotsInv, NEW u \in Users,
           Reserve(u) \/ Build(u) \/ BuildError(u) \/ BuildPanic(u)
    PROVE  SlotsInv'
<1> USE DEF SlotsInv, SlotsTypeOK, SlotsSafe
<1>1. /\ IsFiniteSet(idle) /\ Cardinality(idle) \in Nat
      /\ Cardinality(SlotUsers) \in Nat /\ Cap \in Nat /\ lost \in Nat
      /\ Taken = Cardinality(idle) + Cardinality(SlotUsers) + lost
      /\ Taken' = Cardinality(idle') + Cardinality(SlotUsers') + lost'
  BY SlotsAssumption, SlotUsersFinite, FS_CardinalityType DEF Taken, SlotUsers
<1>2. CASE Reserve(u)
  <2>1. SlotUsers' = SlotUsers \cup {u} /\ u \notin SlotUsers
    BY <1>2 DEF Reserve, SlotUsers, HasSlot
  <2>2. Cardinality(SlotUsers') = Cardinality(SlotUsers) + 1
    BY <2>1, SlotUsersFinite, FS_AddElement
  <2>3. Taken' <= Cap
    BY <1>1, <1>2, <2>2 DEF Reserve
  <2>4. SlotsTypeOK' /\ Owned' = Owned
    BY <1>2 DEF Reserve, HasSlot, Owned
  <2> QED
    BY <1>2, <2>3, <2>4 DEF Reserve
<1>3. CASE Build(u)
  <2>1. PICK v \in VMs \ (idle \cup Owned) : use' = [use EXCEPT ![u] = v]
    BY <1>3 DEF Build
  <2>2. v # None /\ use[u] = None /\ u \in building
    BY <1>3, <2>1, SlotsAssumption DEF Build
  <2>3. SlotUsers' = SlotUsers
    BY <1>3, <2>1, <2>2 DEF Build, SlotUsers, HasSlot
  <2>4. Taken' <= Cap
    BY <1>1, <1>3, <2>3 DEF Build
  <2>5. SlotsTypeOK'
    BY <1>3, <2>1, <2>2 DEF Build
  <2>6. Owned' = Owned \cup {v}
    BY <2>1, <2>2 DEF Owned
  <2>7. \A w, x \in Users : use'[w] # None /\ use'[w] = use'[x] => w = x
    BY <2>1, <2>2 DEF Owned
  <2> QED
    BY <1>3, <2>1, <2>4, <2>5, <2>6, <2>7 DEF Build
<1>4. CASE BuildError(u) \/ BuildPanic(u)
  <2>1. SlotUsers' = SlotUsers \ {u} /\ u \in SlotUsers
    BY <1>4 DEF BuildError, BuildPanic, SlotUsers, HasSlot
  <2>2. Cardinality(SlotUsers') = Cardinality(SlotUsers) - 1
    BY <2>1, SlotUsersFinite, FS_RemoveElement
  <2>3. idle' = idle /\ use' = use /\ shut' = shut /\ lost' \in {lost, lost + 1}
    BY <1>4 DEF BuildError, BuildPanic
  <2>4. Taken' <= Cap
    BY <1>1, <2>2, <2>3
  <2>5. SlotsTypeOK' /\ Owned' = Owned
    BY <1>4, <2>3 DEF BuildError, BuildPanic, Owned
  <2> QED
    BY <2>3, <2>4, <2>5
<1> QED
  BY <1>2, <1>3, <1>4

\* Take, GiveBack and Discard: a VM is idle or has one owner.
LEMMA OwnerStep ==
    ASSUME SlotsInv, NEW u \in Users, Take(u) \/ GiveBack(u) \/ Discard(u)
    PROVE  SlotsInv'
<1> USE DEF SlotsInv, SlotsTypeOK, SlotsSafe
<1>1. /\ IsFiniteSet(idle) /\ Cardinality(idle) \in Nat
      /\ Cardinality(SlotUsers) \in Nat /\ Cap \in Nat /\ lost \in Nat
      /\ Taken = Cardinality(idle) + Cardinality(SlotUsers) + lost
      /\ Taken' = Cardinality(idle') + Cardinality(SlotUsers') + lost'
  BY SlotsAssumption, SlotUsersFinite, FS_CardinalityType DEF Taken, SlotUsers
<1>2. CASE Take(u)
  <2>1. PICK v \in idle : use' = [use EXCEPT ![u] = v] /\ idle' = idle \ {v}
    BY <1>2 DEF Take
  <2>2. v # None /\ v \in VMs /\ v \notin Owned /\ use[u] = None /\ u \notin building
    BY <1>2, <2>1, SlotsAssumption DEF Take, HasSlot
  <2>3. SlotUsers' = SlotUsers \cup {u} /\ u \notin SlotUsers
    BY <1>2, <2>1, <2>2 DEF Take, SlotUsers, HasSlot
  <2>4. Cardinality(SlotUsers') = Cardinality(SlotUsers) + 1
    BY <2>3, SlotUsersFinite, FS_AddElement
  <2>5. Cardinality(idle') = Cardinality(idle) - 1 /\ IsFiniteSet(idle')
    BY <2>1, FS_RemoveElement
  <2>6. Taken' <= Cap
    BY <1>1, <1>2, <2>4, <2>5 DEF Take
  <2>7. SlotsTypeOK'
    BY <1>2, <2>1, <2>2 DEF Take
  <2>8. Owned' = Owned \cup {v}
    BY <2>1, <2>2 DEF Owned
  <2>9. \A w, x \in Users : use'[w] # None /\ use'[w] = use'[x] => w = x
    BY <2>1, <2>2 DEF Owned
  <2> QED
    BY <1>2, <2>1, <2>5, <2>6, <2>7, <2>8, <2>9 DEF Take
<1>3. CASE GiveBack(u) \/ Discard(u)
  <2>1. /\ use[u] # None /\ use[u] \in VMs /\ u \notin building
        /\ use' = [use EXCEPT ![u] = None] /\ UNCHANGED <<building, lost, shut>>
    BY <1>3 DEF GiveBack, Discard
  <2>2. SlotUsers' = SlotUsers \ {u} /\ u \in SlotUsers
    BY <2>1 DEF SlotUsers, HasSlot
  <2>3. Cardinality(SlotUsers') = Cardinality(SlotUsers) - 1
    BY <2>2, SlotUsersFinite, FS_RemoveElement
  <2>4. Owned' = Owned \ {use[u]} /\ use[u] \in Owned
    BY <2>1 DEF Owned
  <2>5. \A w, x \in Users : use'[w] # None /\ use'[w] = use'[x] => w = x
    BY <2>1
  <2>6. CASE Discard(u)
    BY <1>1, <2>1, <2>3, <2>4, <2>5, <2>6 DEF Discard
  <2>7. CASE GiveBack(u)
    <3>1. ~shut /\ idle' = idle \cup {use[u]} /\ use[u] \notin idle
      BY <2>4, <2>7 DEF GiveBack
    <3>2. Cardinality(idle') = Cardinality(idle) + 1 /\ IsFiniteSet(idle')
      BY <3>1, FS_AddElement
    <3>3. Taken' <= Cap
      BY <1>1, <2>1, <2>3, <3>2
    <3> QED
      BY <2>1, <2>4, <2>5, <3>1, <3>2, <3>3
  <2> QED
    BY <1>3, <2>6, <2>7
<1> QED
  BY <1>2, <1>3

\* Retire and Shut: idle VMs only become fewer.
LEMMA RetiringStep ==
    ASSUME SlotsInv, Retire \/ Shut
    PROVE  SlotsInv'
<1> USE DEF SlotsInv, SlotsTypeOK, SlotsSafe
<1>1. idle' \subseteq idle /\ UNCHANGED <<use, building, lost>>
  BY DEF Retire, Shut
<1>2. SlotUsers' = SlotUsers /\ Owned' = Owned
  BY <1>1 DEF SlotUsers, HasSlot, Owned
<1>3. IsFiniteSet(idle') /\ Cardinality(idle') <= Cardinality(idle)
  BY <1>1, FS_Subset
<1>4. Cardinality(idle') \in Nat /\ Cardinality(idle) \in Nat /\ Cardinality(SlotUsers) \in Nat
  BY <1>3, SlotUsersFinite, FS_CardinalityType
<1>5. Taken' <= Cap
  BY <1>1, <1>2, <1>3, <1>4, SlotsAssumption DEF Taken, SlotUsers
<1>6. (shut => idle = {})' /\ shut' \in BOOLEAN
  <2>1. CASE Retire
    BY <1>1, <2>1, SMT DEF Retire
  <2>2. CASE Shut
    BY <2>2 DEF Shut
  <2> QED
    BY <2>1, <2>2
<1> QED
  BY <1>1, <1>2, <1>3, <1>5, <1>6

\* A new Runtime has no VM.
LEMMA SlotsInvInit ==
    ASSUME SlotsInit
    PROVE  SlotsInv
<1>1. SlotUsers = {} /\ idle = {} /\ lost = 0 /\ Owned = {}
  BY DEF SlotsInit, SlotUsers, HasSlot, Owned
<1>2. Taken <= Cap
  BY <1>1, FS_EmptySet, SlotsAssumption DEF Taken, SlotUsers
<1>3. SlotsTypeOK
  BY DEF SlotsInit, SlotsTypeOK
<1>4. \A u, v \in Users : use[u] # None /\ use[u] = use[v] => u = v
  BY DEF SlotsInit
<1>5. IsFiniteSet(idle)
  BY <1>1, FS_EmptySet
<1> QED
  BY <1>1, <1>2, <1>3, <1>4, <1>5 DEF SlotsInv, SlotsSafe

\* Every step of VMSlots keeps its invariant.
LEMMA SlotsInvStep ==
    ASSUME SlotsInv, [SlotsNext]_slotVars
    PROVE  SlotsInv'
<1>1. CASE UNCHANGED slotVars
  BY <1>1 DEF slotVars, SlotsInv, SlotsTypeOK, SlotsSafe, Taken, Owned, HasSlot
<1> QED
  BY <1>1, BuildingStep, OwnerStep, RetiringStep DEF SlotsNext

\* A VM has one owner or is idle, at most Cap slots are taken, lost ones
\* included, and a closed Runtime keeps nothing idle.
THEOREM SlotsAreSafe == SlotsSpec => []SlotsSafe
<1>1. SlotsInv => SlotsSafe
  BY DEF SlotsInv
<1> QED
  BY <1>1, SlotsInvInit, SlotsInvStep, PTL DEF SlotsSpec

(***************************************************************************)
(* Whatever calls do to each other, each of their steps is a step of       *)
(* VMSlots or leaves it alone.                                             *)
(***************************************************************************)


\* What a frame does on its own takes, builds or gives back at most its VM.
LEMMA FrameSlots ==
    ASSUME NEW u \in Users, FrameStep(u)
    PROVE  SlotsNext \/ UNCHANGED slotVars
<1>1. CASE AcquireIdle(u) \/ AcquireNew(u)
  BY <1>1 DEF AcquireIdle, AcquireNew, SlotsNext
<1>2. CASE BuildDone(u) \/ BuildFails(u) \/ OpenerPanics(u)
  BY <1>2 DEF BuildDone, BuildFails, OpenerPanics, SlotsNext
<1>3. CASE AcquireEnds(u) \/ ScriptEnds(u) \/ ScriptAborts(u) \/ HandleEnds(u) \/ Return(u)
  BY <1>3 DEF AcquireEnds, ScriptEnds, ScriptAborts, HandleEnds, Return, Stay
<1>4. CASE Bind(u)
  BY <1>4 DEF Bind
<1>5. CASE RunDeferred(u)
  <2>1. ReleaseVM(u) \/ UNCHANGED slotVars
    BY <1>5 DEF RunDeferred
  <2> QED
    BY <2>1 DEF ReleaseVM, SlotsNext
<1> QED
  BY <1>1, <1>2, <1>3, <1>4, <1>5 DEF FrameStep

\* So does every step.
LEMMA ExecSlots ==
    ASSUME [ExecNext]_execVars
    PROVE  [SlotsNext]_slotVars
<1>1. CASE UNCHANGED execVars
  BY <1>1 DEF execVars
<1>2. ASSUME NEW c \in Callers, Call(c) PROVE UNCHANGED slotVars
  BY <1>2 DEF Call, Begin, Stay
<1>3. ASSUME NEW u \in Users, NestedCall(u) \/ ScriptRuns(u) \/ TimerFires(u) \/ CallerCancels(u)
      PROVE  UNCHANGED slotVars
  BY <1>3 DEF NestedCall, ScriptRuns, TimerFires, CallerCancels, Stay, execVars
<1>4. CASE OthersRetire \/ Closes
  BY <1>4 DEF OthersRetire, Closes, SlotsNext
<1> QED
  BY <1>1, <1>2, <1>3, <1>4, FrameSlots DEF ExecNext

\* Execution implements VMSlots.
THEOREM ExecutionImplementsSlots == ExecSpec => SlotsSpec
<1>1. ExecInit => SlotsInit
  BY DEF ExecInit
<1> QED
  BY <1>1, ExecSlots, PTL DEF ExecSpec, SlotsSpec

\* However calls nest, fail, panic or are aborted: a State has one owner or is
\* idle, at most Cap slots are taken, those that a panic lost included, and a
\* closed Runtime keeps nothing idle.
THEOREM ExecutionSlotsSafe == ExecSpec => []SlotsSafe
BY ExecutionImplementsSlots, SlotsAreSafe, PTL

(***************************************************************************)
(* What a call has, by where it is and what it has deferred                *)
(***************************************************************************)

\* A call builds while its slot is under construction, and owns a State from
\* the bind on until its deferred calls, of which the release is the last, have
\* all run.
Place(u) ==
    /\ at[u] = "build" <=> u \in building
    /\ use[u] # None <=> at[u] = "bind" \/ defers[u] # <<>>
    /\ at[u] \in {"out", "acquire", "build", "bind"} => defers[u] = <<>>
    /\ at[u] \in {"script", "handle"} => defers[u] # <<>>
    /\ \A i \in 1..Len(defers[u]) : defers[u][i] = "release" <=> i = Len(defers[u])

\* It is so for every call.
Places == \A u \in Users : Place(u)

\* d is one of the calls that u has still deferred.
StillDeferred(u, d) == \E i \in 1..Len(defers[u]) : defers[u][i] = d

\* A binding belongs to the owner of the State, who has deferred its removal.
Bindings ==
    /\ \A v \in VMs : ctxOf[v] # None =>
         use[ctxOf[v]] = v /\ StillDeferred(ctxOf[v], "clearContext")
    /\ \A v \in VMs : limitOf[v] # None =>
         use[limitOf[v]] = v /\ StillDeferred(limitOf[v], "clearLimit")

\* A running script is bound to what Config asks for.
Capped ==
    \A u \in Users : at[u] \in {"script", "handle"} =>
        /\ cfg.timeout => ctxOf[use[u]] = u
        /\ cfg.limit => limitOf[use[u]] = u

\* The inductive invariant of ExecSpec.
ExecInv == ExecTypeOK /\ SlotsInv /\ Places /\ Bindings /\ Capped

\* What RunWith defers: at least the release, which runs last, and the removal
\* of each binding.
LEMMA DeferredCalls ==
    ASSUME NEW u
    PROVE  /\ Deferred(u) \in Seq({"release", "cancel", "clearContext", "clearLimit"})
           /\ Deferred(u) # <<>>
           /\ \A i \in 1..Len(Deferred(u)) :
                Deferred(u)[i] = "release" <=> i = Len(Deferred(u))
           /\ HasDone(u) => \E i \in 1..Len(Deferred(u)) : Deferred(u)[i] = "clearContext"
           /\ cfg.limit => \E i \in 1..Len(Deferred(u)) : Deferred(u)[i] = "clearLimit"
<1> DEFINE D == {"cancel", "clearContext", "clearLimit"}
           a == IF cfg.limit THEN <<"clearLimit">> ELSE <<>>
           b == IF HasDone(u) THEN <<"clearContext">> ELSE <<>>
           c == IF cfg.timeout THEN <<"cancel">> ELSE <<>>
           s == (a \o b) \o c
<1>1. a \in Seq(D) /\ b \in Seq(D) /\ c \in Seq(D)
  <2>1. /\ <<>> \in Seq(D) /\ <<"clearLimit">> \in Seq(D)
        /\ <<"clearContext">> \in Seq(D) /\ <<"cancel">> \in Seq(D)
    OBVIOUS
  <2> QED
    BY <2>1, Zenon
<1>2. Deferred(u) = s \o <<"release">>
  BY DEF Deferred
<1>3. /\ cfg.limit => Len(a) = 1 /\ a[1] = "clearLimit"
      /\ HasDone(u) => Len(b) = 1 /\ b[1] = "clearContext"
  OBVIOUS
<1> HIDE DEF a, b, c
<1>4. a \o b \in Seq(D) /\ s \in Seq(D)
  BY <1>1
<1>5. /\ cfg.limit => 1 \in 1..Len(s) /\ s[1] = "clearLimit"
      /\ HasDone(u) => Len(a) + 1 \in 1..Len(s) /\ s[Len(a) + 1] = "clearContext"
  BY <1>1, <1>3, <1>4
<1> HIDE DEF s
<1>6. /\ Len(Deferred(u)) = Len(s) + 1 /\ Deferred(u)[Len(s) + 1] = "release"
      /\ \A i \in 1..Len(s) : Deferred(u)[i] = s[i] /\ s[i] \in D
      /\ Deferred(u) \in Seq({"release", "cancel", "clearContext", "clearLimit"})
  BY <1>2, <1>4
<1>7. \A i \in 1..Len(Deferred(u)) : i \in 1..Len(s) \/ i = Len(s) + 1
  BY <1>4, <1>6
<1>8. \A i \in 1..Len(s) : i \in 1..Len(Deferred(u)) /\ i # Len(Deferred(u))
  BY <1>4, <1>6
<1>9. \A i \in 1..Len(Deferred(u)) : Deferred(u)[i] = "release" <=> i = Len(Deferred(u))
  BY <1>6, <1>7, <1>8
<1> QED
  BY <1>4, <1>5, <1>6, <1>8, <1>9

\* Every step keeps the types.
LEMMA ExecTypeStep ==
    ASSUME ExecTypeOK, SlotsTypeOK', [ExecNext]_execVars
    PROVE  ExecTypeOK'
<1> USE DEF ExecTypeOK, frameVars, boundVars, Goto, Stay
<1>1. CASE UNCHANGED execVars
  BY <1>1 DEF execVars
<1>2. ASSUME NEW c \in Callers, Call(c) PROVE ExecTypeOK'
  BY ZenonT(60), <1>2 DEF Call, Begin
<1>3. ASSUME NEW u \in Users, NestedCall(u) PROVE ExecTypeOK'
  BY ZenonT(60), <1>3 DEF NestedCall
<1>4. ASSUME NEW u \in Users,
             AcquireIdle(u) \/ AcquireNew(u) \/ BuildDone(u) \/ ScriptEnds(u) \/ ScriptAborts(u)
      PROVE  ExecTypeOK'
  BY ZenonT(60), <1>4 DEF AcquireIdle, AcquireNew, BuildDone, ScriptEnds, ScriptAborts
<1>5. ASSUME NEW u \in Users, NEW p \in BOOLEAN, Leave(u, p), UNCHANGED <<cfg, defers, boundVars>>
      PROVE  ExecTypeOK'
  BY <1>5 DEF Leave
<1>6. ASSUME NEW u \in Users, AcquireEnds(u) \/ BuildFails(u) \/ OpenerPanics(u) \/ Return(u)
      PROVE  ExecTypeOK'
  <2>1. UNCHANGED <<cfg, defers, boundVars>> /\ \E p \in BOOLEAN : Leave(u, p)
    BY <1>6 DEF AcquireEnds, BuildFails, OpenerPanics, Return
  <2> QED
    BY <1>5, <2>1
<1>7. ASSUME NEW u \in Users, Bind(u) PROVE ExecTypeOK'
  BY <1>7, DeferredCalls DEF Bind, slotVars
<1>8. ASSUME NEW u \in Users, HandleEnds(u) PROVE ExecTypeOK'
  BY <1>8 DEF HandleEnds
<1>9. ASSUME NEW u \in Users, RunDeferred(u) PROVE ExecTypeOK'
  <2>1. defers[u] \in Seq({"release", "cancel", "clearContext", "clearLimit"}) /\ defers[u] # <<>>
    BY <1>9 DEF RunDeferred
  <2>2. Tail(defers[u]) \in Seq({"release", "cancel", "clearContext", "clearLimit"})
    BY <2>1
  <2>3. defers' = [defers EXCEPT ![u] = Tail(defers[u])] /\ UNCHANGED <<cfg, at, loops, panics, nested>>
    BY <1>9 DEF RunDeferred
  <2>4. /\ ctx' = ctx \/ ctx' = [ctx EXCEPT ![u] = "done"]
        /\ ctxOf' = ctxOf \/ ctxOf' = [ctxOf EXCEPT ![use[u]] = None]
        /\ limitOf' = limitOf \/ limitOf' = [limitOf EXCEPT ![use[u]] = None]
    BY <1>9 DEF RunDeferred, ReleaseVM
  <2> QED
    BY <2>2, <2>3, <2>4
<1>10. ASSUME NEW u \in Users, TimerFires(u) \/ CallerCancels(u) PROVE ExecTypeOK'
  BY <1>10 DEF TimerFires, CallerCancels
<1>11. CASE OthersRetire \/ Closes
  BY <1>11 DEF OthersRetire, Closes
<1> QED
  BY <1>1, <1>2, <1>3, <1>4, <1>6, <1>7, <1>8, <1>9, <1>10, <1>11
     DEF ExecNext, FrameStep, ScriptRuns

\* A step that leaves u's place in RunWith, its VM and its deferred calls alone,
\* or has the panic of an inner call unwind it.
LEMMA PlaceKept ==
    ASSUME NEW u, Place(u), use'[u] = use[u], defers'[u] = defers[u],
           u \in building' <=> u \in building,
           at'[u] = at[u] \/ (at[u] = "handle" /\ at'[u] = "unwind")
    PROVE  Place(u)'
BY DEF Place

\* Of a call that steps on its own, whatever it does to its VM and its deferred
\* calls, the others keep their place.
LEMMA PlacesOfOthers ==
    ASSUME ExecTypeOK, Places, NEW w \in Users, FrameStep(w)
    PROVE  \A u \in Users \ {w} :
              /\ Place(u)'
              /\ use'[u] = use[u] /\ defers'[u] = defers[u]
              /\ at'[u] = at[u] \/ (at[u] = "handle" /\ at'[u] = "unwind")
<1> SUFFICES ASSUME NEW u \in Users, u # w
             PROVE  /\ use'[u] = use[u] /\ defers'[u] = defers[u]
                    /\ u \in building' <=> u \in building
                    /\ at'[u] = at[u] \/ (at[u] = "handle" /\ at'[u] = "unwind")
  BY PlaceKept DEF Places
<1> USE DEF ExecTypeOK, SlotsTypeOK, slotVars, Goto, Stay
<1>1. CASE AcquireIdle(w) \/ AcquireNew(w)
  BY <1>1 DEF AcquireIdle, AcquireNew, Take, Reserve
<1>2. CASE BuildDone(w)
  BY <1>2 DEF BuildDone, Build
<1>3. CASE AcquireEnds(w) \/ BuildFails(w) \/ OpenerPanics(w) \/ Return(w)
  <2>1. /\ use' = use /\ defers' = defers /\ (u \in building' <=> u \in building)
        /\ \E p : Leave(w, p)
    BY <1>3 DEF AcquireEnds, BuildFails, OpenerPanics, Return, BuildError, BuildPanic
  <2> QED
    BY <2>1 DEF Leave
<1>4. CASE Bind(w)
  BY <1>4 DEF Bind
<1>5. CASE ScriptEnds(w) \/ ScriptAborts(w) \/ HandleEnds(w)
  BY <1>5 DEF ScriptEnds, ScriptAborts, HandleEnds
<1>6. CASE RunDeferred(w)
  BY <1>6 DEF RunDeferred, ReleaseVM, GiveBack, Discard
<1> QED
  BY <1>1, <1>2, <1>3, <1>4, <1>5, <1>6 DEF FrameStep

\* Every step keeps every call in its place.
LEMMA PlacesStep ==
    ASSUME ExecTypeOK, SlotsInv, Places, [ExecNext]_execVars
    PROVE  Places'
<1> USE DEF ExecTypeOK, SlotsTypeOK, SlotsInv, slotVars, Goto, Stay
<1>1. ASSUME NEW w \in Users, FrameStep(w) PROVE Place(w)'
  <2>0. Place(w)
    BY DEF Places
  <2>1. CASE AcquireIdle(w) \/ AcquireNew(w) \/ BuildDone(w)
    BY <2>0, <2>1, SlotsAssumption
       DEF Place, AcquireIdle, AcquireNew, BuildDone, Take, Reserve, Build
  <2>2. CASE AcquireEnds(w) \/ BuildFails(w) \/ OpenerPanics(w) \/ Return(w)
    <3>1. /\ use' = use /\ defers' = defers /\ w \notin building' /\ defers[w] = <<>>
          /\ at[w] # "bind" /\ \E p : Leave(w, p)
      BY <2>0, <2>2
         DEF Place, AcquireEnds, BuildFails, OpenerPanics, Return, BuildError, BuildPanic
    <3> QED
      BY <2>0, <3>1 DEF Leave, Place
  <2>3. CASE Bind(w)
    <3>1. /\ defers'[w] = Deferred(w) /\ use' = use /\ building' = building
          /\ at[w] = "bind" /\ at'[w] = "script"
      BY <2>3 DEF Bind
    <3> QED
      BY <2>0, <3>1, DeferredCalls DEF Place
  <2>4. CASE ScriptEnds(w) \/ ScriptAborts(w) \/ HandleEnds(w)
    <3>1. /\ at[w] \in {"script", "handle"} /\ at'[w] \in {"handle", "unwind"}
          /\ UNCHANGED <<use, building, defers>>
      BY <2>4 DEF ScriptEnds, ScriptAborts, HandleEnds
    <3> QED
      BY <2>0, <3>1 DEF Place
  <2>5. CASE RunDeferred(w)
    <3>1. /\ at[w] = "unwind" /\ at' = at /\ defers[w] # <<>> /\ building' = building
          /\ defers'[w] = Tail(defers[w])
          /\ defers[w] \in Seq({"release", "cancel", "clearContext", "clearLimit"})
      BY <2>5 DEF RunDeferred, ReleaseVM, GiveBack, Discard
    <3>2. /\ Len(defers'[w]) = Len(defers[w]) - 1
          /\ \A i \in 1..Len(defers'[w]) : defers'[w][i] = defers[w][i+1] /\ i + 1 \in 1..Len(defers[w])
      BY <3>1
    <3>3. defers'[w] = <<>> <=> Len(defers'[w]) = 0
      <4>1. defers'[w] \in Seq({"release", "cancel", "clearContext", "clearLimit"})
        BY <3>1
      <4> HIDE DEF ExecTypeOK
      <4> QED
        BY <4>1
    <3>4. /\ Head(defers[w]) = defers[w][1]
          /\ Len(defers[w]) \in Nat /\ 1 \in 1..Len(defers[w])
      BY <3>1
    <3>5. \A i \in 1..Len(defers'[w]) : defers'[w][i] = "release" <=> i = Len(defers'[w])
      <4>1. \A i \in 1..Len(defers[w]) : defers[w][i] = "release" <=> i = Len(defers[w])
        BY <2>0 DEF Place
      <4>2. Len(defers[w]) \in Nat
        BY <3>1
      <4> HIDE DEF ExecTypeOK, SlotsTypeOK, SlotsInv
      <4> QED
        BY SMTT(30), <3>2, <4>1, <4>2
    <3>6. CASE Head(defers[w]) = "release"
      <4>1. use'[w] = None
        BY <2>5, <3>6 DEF RunDeferred, ReleaseVM, GiveBack, Discard
      <4>2. Len(defers[w]) = 1
        BY <2>0, <3>4, <3>6 DEF Place
      <4>3. defers'[w] = <<>>
        BY <3>2, <4>2, <3>3
      <4> QED
        BY <2>0, <3>1, <3>5, <4>1, <4>3 DEF Place
    <3>7. CASE Head(defers[w]) # "release"
      <4>1. use' = use
        BY <2>5, <3>7 DEF RunDeferred
      <4>2. Len(defers[w]) # 1
        BY <2>0, <3>4, <3>7 DEF Place
      <4>3. defers'[w] # <<>>
        BY <3>2, <3>4, <4>2, <3>3
      <4> QED
        BY <2>0, <3>1, <3>5, <4>1, <4>3 DEF Place
    <3> QED
      BY <3>6, <3>7
  <2> QED
    BY <1>1, <2>1, <2>2, <2>3, <2>4, <2>5 DEF FrameStep
<1>2. ASSUME NEW w \in Users, FrameStep(w) PROVE Places'
  BY <1>1, <1>2, PlacesOfOthers DEF Places
<1>3. ASSUME NEW w, at[w] = "out", at' = [at EXCEPT ![w] = "acquire"],
             UNCHANGED <<use, building, defers>>
      PROVE  Places'
  BY <1>3 DEF Places, Place
<1>4. ASSUME NEW c \in Callers, Call(c) PROVE Places'
  BY <1>3, <1>4 DEF Call, Begin
<1>5. ASSUME NEW u \in Users, NestedCall(u) PROVE Places'
  BY <1>3, <1>5 DEF NestedCall
<1>6. CASE UNCHANGED <<at, use, building, defers>>
  BY <1>6, PlaceKept DEF Places
<1> QED
  BY <1>2, <1>4, <1>5, <1>6
     DEF ExecNext, ScriptRuns, TimerFires, CallerCancels, OthersRetire, Closes, Retire, Shut,
         frameVars, execVars

\* A step of w keeps a binding's removal deferred, and the VM it is about with
\* its owner, unless it is the removal itself.
LEMMA StillDeferredStep ==
    ASSUME ExecTypeOK, SlotsInv, Places, NEW w \in Users, FrameStep(w), NEW u \in Users,
           NEW d \in {"clearContext", "clearLimit"}, StillDeferred(u, d),
           ~(u = w /\ RunDeferred(w) /\ Head(defers[w]) = d)
    PROVE  use'[u] = use[u] /\ StillDeferred(u, d)'
<1>1. CASE u # w
  BY <1>1, PlacesOfOthers DEF StillDeferred
<1>2. CASE u = w
  <2>1. defers[w] \in Seq({"release", "cancel", "clearContext", "clearLimit"}) /\ Place(w)
    BY DEF ExecTypeOK, Places
  <2>2. defers[w] # <<>>
    BY <1>2, <2>1 DEF StillDeferred
  <2>3. at[w] \notin {"out", "acquire", "build", "bind"}
    BY <2>1, <2>2 DEF Place
  <2>4. CASE ScriptEnds(w) \/ ScriptAborts(w) \/ HandleEnds(w)
    BY <1>2, <2>4 DEF ScriptEnds, ScriptAborts, HandleEnds, Stay, slotVars, StillDeferred
  <2>5. CASE RunDeferred(w)
    <3>1. PICK i \in 1..Len(defers[w]) : defers[w][i] = d
      BY <1>2 DEF StillDeferred
    <3>2. Head(defers[w]) = defers[w][1] /\ Len(defers[w]) \in Nat /\ 1 \in 1..Len(defers[w])
      BY <2>1, <2>2
    <3>3. i # 1 /\ Len(defers[w]) # 1
      BY <1>2, <2>5, <3>1, <3>2
    <3>4. Head(defers[w]) # "release"
      BY <2>1, <3>2, <3>3 DEF Place
    <3>5. use' = use
      BY <2>5, <3>4 DEF RunDeferred, slotVars
    <3>6. defers'[w] = Tail(defers[w])
      BY <2>5 DEF RunDeferred, ExecTypeOK
    <3>7. i - 1 \in 1..Len(defers'[w]) /\ defers'[w][i - 1] = d
      BY <2>1, <2>2, <3>1, <3>2, <3>3, <3>6
    <3> QED
      BY <1>2, <3>5, <3>7 DEF StillDeferred
  <2> QED
    BY <2>2, <2>3, <2>4, <2>5
       DEF FrameStep, AcquireIdle, AcquireNew, AcquireEnds, BuildDone, BuildFails,
           OpenerPanics, Bind, Return
<1> QED
  BY <1>1, <1>2

\* Of a step that binds nothing and removes no binding.
LEMMA BindingsKept ==
    ASSUME ExecTypeOK, SlotsInv, Places, Bindings, NEW w \in Users, FrameStep(w),
           UNCHANGED boundVars,
           RunDeferred(w) => Head(defers[w]) \notin {"clearContext", "clearLimit"}
    PROVE  Bindings'
<1>1. \A v \in VMs : /\ ctxOf[v] # None => ctxOf[v] \in Users
                     /\ limitOf[v] # None => limitOf[v] \in Users
  BY DEF ExecTypeOK
<1>2. \A u \in Users, d \in {"clearContext", "clearLimit"} :
         StillDeferred(u, d) => use'[u] = use[u] /\ StillDeferred(u, d)'
  BY StillDeferredStep
<1>3. ctxOf' = ctxOf /\ limitOf' = limitOf
  BY DEF boundVars
<1> QED
  BY <1>1, <1>2, <1>3 DEF Bindings, StillDeferred

\* Bind, and the deferred calls that undo it.
LEMMA BindingsMoved ==
    ASSUME ExecTypeOK, SlotsInv, Places, Bindings, NEW w \in Users, FrameStep(w),
           Bind(w) \/ (RunDeferred(w) /\ Head(defers[w]) \in {"clearContext", "clearLimit"})
    PROVE  Bindings'
<1>1. /\ use \in [Users -> VMs \cup {None}] /\ None \notin VMs /\ None \notin Users
      /\ ctxOf \in [VMs -> Users \cup {None}] /\ limitOf \in [VMs -> Users \cup {None}]
  BY SlotsAssumption, ExecutionAssumption DEF ExecTypeOK, SlotsInv, SlotsTypeOK
<1>2. use' = use /\ use[w] \in VMs
  BY <1>1 DEF Places, Place, Bind, RunDeferred, slotVars
<1>3. \A u \in Users \ {w}, d \in {"clearContext", "clearLimit"} :
         StillDeferred(u, d) => StillDeferred(u, d)'
  BY StillDeferredStep
<1>4. /\ \A v \in VMs \ {use[w]} : ctxOf[v] # None => ctxOf[v] \in Users \ {w}
      /\ \A v \in VMs \ {use[w]} : limitOf[v] # None => limitOf[v] \in Users \ {w}
  BY <1>1 DEF Bindings
<1>5. CASE Bind(w)
  <2>1. /\ ctxOf' = ctxOf \/ (HasDone(w) /\ ctxOf' = [ctxOf EXCEPT ![use[w]] = w])
        /\ limitOf' = limitOf \/ (cfg.limit /\ limitOf' = [limitOf EXCEPT ![use[w]] = w])
    BY <1>5 DEF Bind
  <2>2. defers'[w] = Deferred(w) /\ defers[w] = <<>>
    BY <1>5 DEF Bind, ExecTypeOK, Places, Place
  <2>3. ~StillDeferred(w, "clearContext") /\ ~StillDeferred(w, "clearLimit")
    BY <2>2 DEF StillDeferred
  <2>4. /\ HasDone(w) => StillDeferred(w, "clearContext")'
        /\ cfg.limit => StillDeferred(w, "clearLimit")'
    BY <2>2, DeferredCalls DEF StillDeferred
  <2>5. ASSUME NEW v \in VMs, ctxOf'[v] # None
        PROVE  (use[ctxOf[v]] = v /\ StillDeferred(ctxOf[v], "clearContext"))'
    <3>1. CASE v = use[w] /\ ctxOf' # ctxOf
      BY <1>1, <1>2, <2>1, <2>4, <3>1 DEF StillDeferred
    <3>2. CASE ctxOf'[v] = ctxOf[v]
      BY <1>1, <1>2, <1>3, <2>3, <2>5, <3>2 DEF Bindings, StillDeferred
    <3> QED
      BY <1>1, <2>1, <3>1, <3>2
  <2>6. ASSUME NEW v \in VMs, limitOf'[v] # None
        PROVE  (use[limitOf[v]] = v /\ StillDeferred(limitOf[v], "clearLimit"))'
    <3>1. CASE v = use[w] /\ limitOf' # limitOf
      BY <1>1, <1>2, <2>1, <2>4, <3>1 DEF StillDeferred
    <3>2. CASE limitOf'[v] = limitOf[v]
      BY <1>1, <1>2, <1>3, <2>3, <2>6, <3>2 DEF Bindings, StillDeferred
    <3> QED
      BY <1>1, <2>1, <3>1, <3>2
  <2> QED
    BY <2>5, <2>6 DEF Bindings, StillDeferred
<1>6. CASE RunDeferred(w) /\ Head(defers[w]) = "clearContext"
  <2>1. ctxOf' = [ctxOf EXCEPT ![use[w]] = None] /\ limitOf' = limitOf
    BY <1>6 DEF RunDeferred
  <2>2. \A u \in Users : StillDeferred(u, "clearLimit") => StillDeferred(u, "clearLimit")'
    BY <1>6, StillDeferredStep
  <2>3. ASSUME NEW v \in VMs, limitOf'[v] # None
        PROVE  (use[limitOf[v]] = v /\ StillDeferred(limitOf[v], "clearLimit"))'
    BY <1>1, <1>2, <2>1, <2>2, <2>3 DEF Bindings, StillDeferred
  <2>4. ASSUME NEW v \in VMs, ctxOf'[v] # None
        PROVE  (use[ctxOf[v]] = v /\ StillDeferred(ctxOf[v], "clearContext"))'
    <3>1. v # use[w] /\ ctxOf'[v] = ctxOf[v] /\ ctxOf[v] \in Users \ {w}
      BY <1>1, <1>2, <1>4, <2>1, <2>4
    <3> QED
      BY <1>1, <1>2, <1>3, <3>1 DEF Bindings, StillDeferred
  <2> QED
    BY <2>3, <2>4 DEF Bindings
<1>7. CASE RunDeferred(w) /\ Head(defers[w]) = "clearLimit"
  <2>1. limitOf' = [limitOf EXCEPT ![use[w]] = None] /\ ctxOf' = ctxOf
    BY <1>7 DEF RunDeferred
  <2>2. \A u \in Users : StillDeferred(u, "clearContext") => StillDeferred(u, "clearContext")'
    BY <1>7, StillDeferredStep
  <2>3. ASSUME NEW v \in VMs, ctxOf'[v] # None
        PROVE  (use[ctxOf[v]] = v /\ StillDeferred(ctxOf[v], "clearContext"))'
    BY <1>1, <1>2, <2>1, <2>2, <2>3 DEF Bindings, StillDeferred
  <2>4. ASSUME NEW v \in VMs, limitOf'[v] # None
        PROVE  (use[limitOf[v]] = v /\ StillDeferred(limitOf[v], "clearLimit"))'
    <3>1. v # use[w] /\ limitOf'[v] = limitOf[v] /\ limitOf[v] \in Users \ {w}
      BY <1>1, <1>2, <1>4, <2>1, <2>4
    <3> QED
      BY <1>1, <1>2, <1>3, <3>1 DEF Bindings, StillDeferred
  <2> QED
    BY <2>3, <2>4 DEF Bindings
<1> QED
  BY <1>5, <1>6, <1>7

\* Every step keeps each binding with the owner of its State.
LEMMA BindingsStep ==
    ASSUME ExecTypeOK, SlotsInv, Places, Bindings, [ExecNext]_execVars
    PROVE  Bindings'
<1>1. ASSUME NEW w \in Users, FrameStep(w) PROVE Bindings'
  <2>1. CASE Bind(w) \/ (RunDeferred(w) /\ Head(defers[w]) \in {"clearContext", "clearLimit"})
    BY <1>1, <2>1, BindingsMoved
  <2>2. CASE RunDeferred(w) /\ Head(defers[w]) \notin {"clearContext", "clearLimit"}
    <3>1. UNCHANGED boundVars
      BY <2>2 DEF RunDeferred, ReleaseVM, boundVars
    <3> QED
      BY <1>1, <2>2, <3>1, BindingsKept
  <2>3. CASE ~Bind(w) /\ ~RunDeferred(w)
    <3>1. UNCHANGED boundVars
      BY <1>1, <2>3 DEF FrameStep, AcquireIdle, AcquireNew, AcquireEnds, BuildDone, BuildFails,
         OpenerPanics, ScriptEnds, ScriptAborts, HandleEnds, Return, Stay
    <3> QED
      BY <1>1, <2>3, <3>1, BindingsKept
  <2> QED
    BY <2>1, <2>2, <2>3
<1>2. CASE UNCHANGED <<use, defers, ctxOf, limitOf>>
  BY <1>2 DEF Bindings, StillDeferred
<1> QED
  BY <1>1, <1>2
     DEF ExecNext, Call, Begin, NestedCall, ScriptRuns, TimerFires, CallerCancels,
         OthersRetire, Closes, Retire, Shut, Stay, slotVars, frameVars, boundVars, execVars

\* Every step keeps a running script bound to what Config asks for: nobody
\* else binds or clears anything on the State it owns.
LEMMA CappedStep ==
    ASSUME ExecTypeOK, SlotsInv, Places, Capped, [ExecNext]_execVars
    PROVE  Capped'
<1>1. ASSUME NEW w \in Users, FrameStep(w) PROVE Capped'
  <2> SUFFICES ASSUME NEW u \in Users, at'[u] \in {"script", "handle"}
               PROVE  /\ cfg'.timeout => ctxOf'[use'[u]] = u
                      /\ cfg'.limit => limitOf'[use'[u]] = u
    BY DEF Capped
  <2>1. cfg' = cfg
    BY <1>1 DEF FrameStep, AcquireIdle, AcquireNew, AcquireEnds, BuildDone, BuildFails,
       OpenerPanics, Bind, ScriptEnds, ScriptAborts, HandleEnds, RunDeferred, Return, Stay
  <2>2. CASE u # w
    <3>1. at[u] \in {"script", "handle"} /\ use'[u] = use[u]
      BY <1>1, <2>2, PlacesOfOthers
    <3>2. use[u] # None /\ use[u] # use[w] /\ use[u] \in VMs
      BY <2>2, <3>1 DEF Places, Place, SlotsInv, SlotsSafe, SlotsTypeOK
    <3>3. /\ \/ ctxOf' = ctxOf
             \/ \E x : ctxOf' = [ctxOf EXCEPT ![use[w]] = x]
          /\ \/ limitOf' = limitOf
             \/ \E x : limitOf' = [limitOf EXCEPT ![use[w]] = x]
      BY <1>1 DEF FrameStep, AcquireIdle, AcquireNew, AcquireEnds, BuildDone, BuildFails,
         OpenerPanics, Bind, ScriptEnds, ScriptAborts, HandleEnds, RunDeferred, ReleaseVM,
         Return, Stay, boundVars
    <3>4. ctxOf'[use[u]] = ctxOf[use[u]] /\ limitOf'[use[u]] = limitOf[use[u]]
      BY <3>2, <3>3 DEF ExecTypeOK
    <3> QED
      BY <2>1, <3>1, <3>4 DEF Capped
  <2>3. CASE u = w /\ Bind(w)
    <3>1. use' = use /\ use[w] \in VMs
      BY <2>3 DEF Bind, Places, Place, slotVars, SlotsInv, SlotsTypeOK
    <3>2. /\ cfg.timeout => ctxOf' = [ctxOf EXCEPT ![use[w]] = w]
          /\ cfg.limit => limitOf' = [limitOf EXCEPT ![use[w]] = w]
      BY <2>3 DEF Bind, HasDone
    <3> QED
      BY <2>1, <2>3, <3>1, <3>2 DEF ExecTypeOK
  <2>4. CASE u = w /\ ~Bind(w)
    <3>1. ScriptEnds(w)
      BY <1>1, <2>4 DEF ExecTypeOK, FrameStep, AcquireIdle, AcquireNew, AcquireEnds, BuildDone,
         BuildFails, OpenerPanics, ScriptAborts, HandleEnds, RunDeferred, Return, Goto, Leave
    <3> QED
      BY <2>4, <3>1 DEF Capped, ScriptEnds, Stay, boundVars, slotVars
  <2> QED
    BY <2>2, <2>3, <2>4
<1>2. ASSUME UNCHANGED <<use, cfg, ctxOf, limitOf>>,
             \A u \in Users : at'[u] \in {"script", "handle"} => at'[u] = at[u]
      PROVE  Capped'
  BY <1>2 DEF Capped
<1>3. CASE UNCHANGED <<use, cfg, ctxOf, limitOf, at>>
  BY <1>2, <1>3
<1>4. ASSUME NEW u, at' = [at EXCEPT ![u] = "acquire"], UNCHANGED <<use, cfg, ctxOf, limitOf>>
      PROVE  Capped'
  BY <1>2, <1>4 DEF ExecTypeOK
<1>5. ASSUME NEW c \in Callers, Call(c) PROVE Capped'
  BY <1>4, <1>5 DEF Call, Begin, Goto, Stay, slotVars, boundVars
<1>6. ASSUME NEW u \in Users, NestedCall(u) PROVE Capped'
  BY <1>4, <1>6 DEF NestedCall, Goto, Stay, slotVars, boundVars
<1> QED
  BY <1>1, <1>3, <1>5, <1>6
     DEF ExecNext, ScriptRuns, TimerFires, CallerCancels,
         OthersRetire, Closes, Retire, Shut, slotVars, frameVars, boundVars, execVars

\* Nobody runs at first.
LEMMA ExecInvInit ==
    ASSUME ExecInit
    PROVE  ExecInv
<1>1. SlotsInv
  BY SlotsInvInit DEF ExecInit
<1>2. ExecTypeOK
  <2>1. <<>> \in Seq({"release", "cancel", "clearContext", "clearLimit"})
    OBVIOUS
  <2> QED
    BY <1>1, <2>1 DEF ExecInit, ExecTypeOK, SlotsInv
<1>3. Places /\ Bindings /\ Capped
  BY DEF ExecInit, SlotsInit, Places, Place, Bindings, Capped
<1> QED
  BY <1>1, <1>2, <1>3 DEF ExecInv

\* ExecInv is an invariant.
THEOREM ExecInvariant == ExecSpec => []ExecInv
<1>1. ExecInv /\ [ExecNext]_execVars => ExecInv'
  <2> SUFFICES ASSUME ExecInv, [ExecNext]_execVars PROVE ExecInv'
    OBVIOUS
  <2>1. ExecTypeOK /\ SlotsInv /\ Places /\ Bindings /\ Capped
    BY DEF ExecInv
  <2>2. SlotsInv'
    BY <2>1, ExecSlots, SlotsInvStep
  <2>3. ExecTypeOK'
    BY <2>1, <2>2, ExecTypeStep DEF SlotsInv
  <2>4. Places' /\ Bindings' /\ Capped'
    BY <2>1, PlacesStep, BindingsStep, CappedStep
  <2> QED
    BY <2>2, <2>3, <2>4 DEF ExecInv
<1> QED
  BY <1>1, ExecInvInit, PTL DEF ExecSpec

\* Every variable of Execution keeps its type.
THEOREM ExecutionTyped == ExecSpec => []ExecTypeOK
<1>1. ExecInv => ExecTypeOK
  BY DEF ExecInv
<1> QED
  BY <1>1, ExecInvariant, PTL

\* Whichever way a call of RunWith ends, it leaves no State, no reserved slot
\* and no deferred call behind; nor does one have any that still waits.  When all
\* have ended after a Close, only what openers lost is still counted.
THEOREM EndedCallOwnsNothing == ExecSpec => []EndedOwnsNothing
<1>1. ASSUME ExecInv
      PROVE  \A u \in Users : at[u] \in {"out", "acquire"} => ~HasSlot(u) /\ defers[u] = <<>>
  BY <1>1 DEF ExecInv, Places, Place, HasSlot
<1>2. ASSUME ExecInv, SlotsSafe, shut, \A u \in Users : at[u] = "out" PROVE Taken = lost
  <2>1. idle = {} /\ {u \in Users : HasSlot(u)} = {}
    BY <1>1, <1>2 DEF SlotsSafe
  <2>2. lost \in Nat
    BY <1>2 DEF ExecInv, ExecTypeOK, SlotsTypeOK
  <2> QED
    BY <2>1, <2>2, FS_EmptySet DEF Taken
<1>3. ExecInv /\ SlotsSafe => EndedOwnsNothing
  BY <1>1, <1>2 DEF EndedOwnsNothing
<1> QED
  BY <1>3, ExecInvariant, ExecutionSlotsSafe, PTL

\* The context and the instruction limit bound to a State are those of the call
\* that owns it, as long as it runs, and are gone when it is given back.
THEOREM BindingsAreOwners == ExecSpec => []BoundToOwner
<1>1. ExecInv => BoundToOwner
  BY DEF ExecInv, Bindings, Capped, BoundToOwner
<1> QED
  BY <1>1, ExecInvariant, PTL

\* The calls that may make a call of their own.
MayCall == {u \in Users : <<u[1], u[2] + 1>> \in Users}

\* A call that cannot make another one is the innermost of its goroutine.
LEMMA LastIsInnermost ==
    ASSUME NEW u \in Users \ MayCall
    PROVE  Innermost(u)
<1> SUFFICES ASSUME NEW v \in Users, v[1] = u[1], v[2] > u[2] PROVE FALSE
  BY DEF Innermost
<1>1. u[2] \in Nat /\ v[2] \in Nat
  BY ExecutionAssumption
<1>2. u[2] + 1 \in 1..v[2]
  BY <1>1
<1>3. <<v[1], u[2] + 1>> \in Users
  BY <1>2, ExecutionAssumption
<1> QED
  BY <1>3 DEF MayCall

\* Calls that own a State while they wait in a call of their own for another
\* one never block the Runtime for good, if there are more slots than such
\* calls: with every slot taken, one of those who have one can go on.
THEOREM NotAllWait == ExecSpec => []SomebodyGoesOn
<1>1. ExecInv => SomebodyGoesOn
  <2> SUFFICES ASSUME ExecInv, Cap - lost > Cardinality(MayCall),
                      NEW w \in Users, Stuck(w)
               PROVE  \E u \in Users : at[u] \notin {"out", "acquire"} /\ Innermost(u)
    BY DEF SomebodyGoesOn, MayCall
  <2>1. idle = {} /\ Taken >= Cap
    BY DEF Stuck
  <2>2. /\ IsFiniteSet(MayCall) /\ Cardinality(MayCall) \in Nat
        /\ Cardinality(SlotUsers) \in Nat /\ Cap \in Nat /\ lost \in Nat
    BY SlotsAssumption, SlotUsersFinite, FS_Subset, FS_CardinalityType
       DEF MayCall, ExecInv, SlotsInv, SlotsTypeOK
  <2>3. Taken = 0 + Cardinality(SlotUsers) + lost
    BY <2>1, FS_EmptySet DEF Taken, SlotUsers
  <2>4. Cardinality(SlotUsers) > Cardinality(MayCall)
    BY <2>1, <2>2, <2>3
  <2>5. ~(SlotUsers \subseteq MayCall)
    BY <2>2, <2>4, FS_Subset
  <2>6. PICK u \in Users \ MayCall : HasSlot(u)
    BY <2>5 DEF SlotUsers
  <2>7. at[u] \notin {"out", "acquire"}
    BY <2>6 DEF ExecInv, Places, Place, HasSlot
  <2> QED
    BY <2>6, <2>7, LastIsInnermost
<1> QED
  BY <1>1, ExecInvariant, PTL
=============================================================================
