---------------------------- MODULE SlotsProofs ----------------------------
(***************************************************************************)
(* The Runtime implements VMSlots, for every configuration.  The idle      *)
(* States of the pools are the open ones that no caller owns; so each step *)
(* of Runtime maps to the step of VMSlots that makes the same change to    *)
(* open and held.                                                          *)
(***************************************************************************)
EXTENDS RuntimeSlots, RuntimeTheorems

\* The idle States of the map's pools, as acquire and release see them.
IdleSplit == IdleStates(Mapped) = open \ HeldStates

\* The States of the pools are open and nobody's, and no other State is.
LEMMA IdleAreUnowned ==
    ASSUME IInv
    PROVE  IdleSplit
<1>1. TypeOK /\ Owned
  BY DEF IInv, SafetyInv, Owned
<1>2. IdleStates(Mapped) \subseteq open
  BY <1>1, OwnedIdle, RetiredStates
<1>3. \A s \in Slots(Mapped) : s[1] \in Mapped /\ s[2] \in DOMAIN idle[s[1]]
  BY DEF Slots
<1>4. HeldStates \cap IdleStates(Mapped) = {}
  BY <1>1, <1>3 DEF Owned, OneOwner, HeldStates, IdleStates, StateAt
<1>5. ASSUME NEW p \in Mapped, NEW i \in DOMAIN idle[p]
      PROVE  idle[p][i].L \in IdleStates(Mapped)
  <2>1. <<p, i>> \in Slots(Mapped)
    BY <1>5 DEF Slots
  <2> QED
    BY <2>1 DEF IdleStates, StateAt
<1>6. open \ HeldStates \subseteq IdleStates(Mapped)
  BY <1>1, <1>5 DEF Owned, OpenIsOwned
<1> QED
  BY <1>2, <1>4, <1>6 DEF IdleSplit

\* What a caller owns, in terms of VMSlots.
Uses == [c \in Callers |-> IF held[c] = None THEN None ELSE held[c].L]

\* It is a State, or None if the caller owns none.
LEMMA UsesHeld ==
    ASSUME TypeOK
    PROVE  /\ \A c \in Callers : (Uses[c] # None) <=> c \in Holding
           /\ \A c \in Holding : Uses[c] = held[c].L /\ held[c].L \in StateIds
           /\ {Uses[c] : c \in Callers} \ {None} = HeldStates
<1>1. \A c \in Holding : Uses[c] = held[c].L /\ held[c].L \in StateIds /\ c \in Callers
  BY DEF TypeOK, Uses, Holding, PooledState
<1>2. \A c \in Callers \ Holding : Uses[c] = None
  BY DEF Uses, Holding
<1> QED
  BY <1>1, <1>2, NoneAssumption DEF HeldStates

\* VMSlots counts as this module does.
LEMMA SameCardinality ==
    ASSUME NEW S
    PROVE  VM!Cardinality(S) = Cardinality(S)
BY DEF VM!Cardinality, Cardinality

\* The slots that VMSlots counts as taken are those that live counts.
LEMMA TakenIsLive ==
    ASSUME IInv
    PROVE  VM!Taken = live
<1>1. TypeOK /\ Owned
  BY DEF IInv, SafetyInv, Owned
<1>2. {c \in Callers : VM!HasSlot(c)} = InUse
  BY <1>1, UsesHeld DEF VM!HasSlot, Uses, InUse, Building, Holding, TypeOK
<1>3. Cardinality(IdleStates(Mapped)) = Cardinality(Slots(Mapped))
  BY <1>1, OwnedIdle, RetiredStates
<1>4. live = Cardinality(Slots(Mapped)) + Cardinality(InUse)
  BY LiveSum DEF LiveIsIdlePlusInUse
<1>5. live \in Int
  BY <1>1 DEF TypeOK
<1>6. VM!Taken = Cardinality(IdleStates(Mapped)) + Cardinality(InUse) + 0
  BY <1>2, SameCardinality DEF VM!Taken
<1>7. Cardinality(InUse) \in Nat /\ Cardinality(Slots(Mapped)) \in Nat
  <2>1. Mapped \in SUBSET PoolIds /\ idle \in [PoolIds -> Seq(PooledState)]
    BY <1>1 DEF TypeOK, Mapped
  <2>2. IsFiniteSet(InUse)
    BY FinitenessAssumption, FS_Subset DEF InUse
  <2> QED
    BY <2>1, <2>2, SlotsFinite, FS_CardinalityType
<1> QED
  BY <1>3, <1>4, <1>6, <1>7

(***************************************************************************)
(* The steps                                                               *)
(***************************************************************************)

\* A call that owns nothing returns: VMSlots sees nothing of it.
LEMMA UnseenStep ==
    ASSUME IdleSplit, IdleSplit', UNCHANGED <<held, open, closed>>, Building' = Building
    PROVE  UNCHANGED VM!slotVars
<1>1. HeldStates' = HeldStates
  BY DEF HeldStates, Holding
<1>2. IdleStates(Mapped)' = IdleStates(Mapped)
  BY <1>1 DEF IdleSplit
<1> QED
  BY <1>2 DEF VM!slotVars

\* Idle States are closed while the callers keep what they have: an eviction,
\* a drop, a sweep.
LEMMA RetireStep ==
    ASSUME IdleSplit, IdleSplit', NEW S \in SUBSET IdleStates(Mapped),
           open' = open \ S, UNCHANGED <<held, closed>>, Building' = Building
    PROVE  VM!Retire \/ UNCHANGED VM!slotVars
<1>1. HeldStates' = HeldStates
  BY DEF HeldStates, Holding
<1>2. IdleStates(Mapped)' = IdleStates(Mapped) \ S
  BY <1>1 DEF IdleSplit
<1>3. CASE S = {}
  BY <1>2, <1>3 DEF VM!slotVars
<1>4. CASE S # {}
  BY <1>2, <1>4 DEF VM!Retire
<1> QED
  BY <1>3, <1>4

\* acquire takes the warmest idle State of the caller's pool: VMSlots grants it.
LEMMA ReuseStep ==
    ASSUME IInv, IdleSplit, IdleSplit', NEW c \in Callers, Reuse(c)
    PROVE  VM!Take(c)
<1> DEFINE p == ref[c]
           n == Len(idle[p])
           L == Warmest(p).L
<1>0. TypeOK /\ IdleOnlyInMap
  BY DEF IInv, SafetyInv
<1>1. /\ pc[c] = "acquire" /\ ~closed /\ idle[p] # <<>>
      /\ held' = [held EXCEPT ![c] = Warmest(p)] /\ open' = open /\ closed' = closed
      /\ pc' = [pc EXCEPT ![c] = "run"]
  BY DEF Reuse, MayClaim, Goto, slotVars
<1>2. p \in UsedPools /\ p \in PoolIds
  BY <1>0, <1>1 DEF TypeOK, UsedPools
<1>3. p \in Mapped /\ idle[p] \in Seq(PooledState)
  BY <1>0, <1>1, <1>2 DEF IdleOnlyInMap, TypeOK
<1>4. n \in DOMAIN idle[p] /\ Warmest(p) \in PooledState
  BY <1>1, <1>3 DEF Warmest
<1>5. L \in IdleStates(Mapped)
  <2>1. <<p, n>> \in Slots(Mapped)
    BY <1>3, <1>4 DEF Slots
  <2> QED
    BY <2>1 DEF IdleStates, StateAt, Warmest
<1> HIDE DEF p, n, L
<1>6. held[c] = None /\ c \notin Building /\ Building' = Building
  BY <1>0, <1>1 DEF TypeOK, Building
<1>7. /\ Warmest(p) # None /\ L = Warmest(p).L
      /\ Holding' = Holding \cup {c}
  BY <1>0, <1>1, <1>4, NoneAssumption DEF Holding, TypeOK, L
<1>8. HeldStates' = HeldStates \cup {L}
  BY <1>0, <1>1, <1>6, <1>7 DEF HeldStates, Holding, TypeOK
<1>9. IdleStates(Mapped)' = IdleStates(Mapped) \ {L}
  BY <1>1, <1>8 DEF IdleSplit
<1>10. Uses' = [Uses EXCEPT ![c] = L]
  BY <1>0, <1>1, <1>7 DEF Uses, TypeOK
<1> QED
  BY <1>1, <1>5, <1>6, <1>9, <1>10 DEF VM!Take, VM!HasSlot, Uses

\* It reserves a slot: live is what VMSlots counts.
LEMMA ReserveStep ==
    ASSUME IInv, IdleSplit, IdleSplit', NEW c \in Callers, Reserve(c)
    PROVE  VM!Reserve(c)
<1>0. TypeOK
  BY DEF IInv
<1>1. /\ pc[c] = "acquire" /\ ~closed /\ live < MaxStates
      /\ held' = held /\ open' = open /\ closed' = closed
      /\ pc' = [pc EXCEPT ![c] = "build"]
  BY DEF Reserve, MayClaim, Goto, Room
<1>2. HeldStates' = HeldStates
  BY <1>1 DEF HeldStates, Holding
<1>3. IdleStates(Mapped)' = IdleStates(Mapped)
  BY <1>1, <1>2 DEF IdleSplit
<1>4. held[c] = None /\ c \notin Building /\ Building' = Building \cup {c}
  BY <1>0, <1>1 DEF TypeOK, Building
<1>5. VM!Taken < MaxStates
  BY <1>1, TakenIsLive
<1> QED
  BY <1>1, <1>3, <1>4, <1>5 DEF VM!Reserve, VM!HasSlot

\* The build ends with a State that is nobody's.
LEMMA BuildStepSlots ==
    ASSUME IInv, IdleSplit, IdleSplit', NEW c \in Callers, BuildDone(c)
    PROVE  VM!Build(c)
<1> DEFINE L == CHOOSE l \in StateIds \ UsedStates : TRUE
           ps == [L |-> L, version |-> version[ref[c]], idleSince |-> 0]
<1>0. TypeOK
  BY DEF IInv
<1>1. /\ pc[c] = "build" /\ L \in StateIds \ UsedStates
      /\ held' = [held EXCEPT ![c] = ps] /\ open' = open \cup {L} /\ closed' = closed
      /\ pc' = [pc EXCEPT ![c] = "run"]
  BY DEF BuildDone, Goto
<1>2. ps \in PooledState /\ ps.L = L
  <2>1. version[ref[c]] \in Versions
    BY <1>0, <1>1 DEF TypeOK
  <2>2. 0 \in Times
    BY ConfigAssumption DEF Times
  <2> QED
    BY <1>1, <2>1, <2>2 DEF PooledState
<1> HIDE DEF L, ps
<1>3. L \notin open /\ L \notin HeldStates /\ L \notin IdleStates(Mapped)
  BY <1>1 DEF UsedStates, IdleSplit
<1>4. held[c] = None /\ c \in Building /\ Building' = Building \ {c}
  BY <1>0, <1>1 DEF TypeOK, Building
<1>5. ps # None
  BY <1>2, NoneAssumption
<1>6. HeldStates' = HeldStates \cup {L}
  BY <1>0, <1>1, <1>2, <1>4, <1>5 DEF HeldStates, Holding, TypeOK
<1>7. IdleStates(Mapped)' = IdleStates(Mapped)
  BY <1>1, <1>3, <1>6 DEF IdleSplit
<1>8. Uses' = [Uses EXCEPT ![c] = L]
  BY <1>0, <1>1, <1>2, <1>5 DEF Uses, TypeOK
<1>9. L \in StateIds \ (IdleStates(Mapped) \cup VM!Owned)
  BY <1>0, <1>1, <1>3, UsesHeld DEF VM!Owned, Uses
<1> QED
  BY <1>1, <1>4, <1>7, <1>8, <1>9 DEF VM!Build, Uses

\* The build fails.
LEMMA BuildErrorStep ==
    ASSUME IInv, IdleSplit, IdleSplit', NEW c \in Callers, BuildFails(c)
    PROVE  VM!BuildError(c)
<1>0. TypeOK
  BY DEF IInv
<1>1. /\ pc[c] = "build" /\ open' = open /\ closed' = closed
      /\ held' = [held EXCEPT ![c] = None] /\ pc' = [pc EXCEPT ![c] = "out"]
  BY DEF BuildFails, Return
<1>2. held' = held /\ c \in Building /\ Building' = Building \ {c}
  BY <1>0, <1>1 DEF TypeOK, Building
<1>3. HeldStates' = HeldStates
  BY <1>2 DEF HeldStates, Holding
<1>4. IdleStates(Mapped)' = IdleStates(Mapped)
  BY <1>1, <1>3 DEF IdleSplit
<1> QED
  BY <1>1, <1>2, <1>4 DEF VM!BuildError

\* release pools the State or closes it.
LEMMA ReleaseStep ==
    ASSUME IInv, IdleSplit, IdleSplit', NEW c \in Callers, Release(c)
    PROVE  VM!GiveBack(c) \/ VM!Discard(c)
<1> DEFINE L == held[c].L
<1>0. TypeOK /\ OneOwner /\ OpenIsOwned
  BY DEF IInv, SafetyInv
<1>1. /\ pc[c] = "run" /\ closed' = closed
      /\ held' = [held EXCEPT ![c] = None] /\ pc' = [pc EXCEPT ![c] = "out"]
      /\ \/ open' = open \ {L}
         \/ ~closed /\ open' = open
  BY DEF Release, Return, Discards, slotVars
<1>2. c \in Holding /\ L \in HeldStates /\ L \in open /\ Building' = Building
  BY <1>0, <1>1 DEF TypeOK, Building, Holding, HeldStates, OpenIsOwned
<1>3. HeldStates' = HeldStates \ {L}
  <2>1. Holding' = Holding \ {c} /\ \A d \in Holding' : held'[d] = held[d]
    BY <1>0, <1>1 DEF Holding, TypeOK
  <2>2. \A d \in Holding' : held[d].L # L
    BY <1>0, <1>2, <2>1 DEF OneOwner
  <2> QED
    BY <2>1, <2>2 DEF HeldStates
<1>4. Uses[c] = L /\ Uses[c] # None /\ Uses' = [Uses EXCEPT ![c] = None]
  <2>1. Uses' = [Uses EXCEPT ![c] = None]
    BY <1>0, <1>1 DEF Uses, TypeOK
  <2> QED
    BY <1>0, <1>2, <2>1, UsesHeld
<1>5. CASE open' = open \ {L}
  <2>1. IdleStates(Mapped)' = IdleStates(Mapped)
    BY <1>2, <1>3, <1>5 DEF IdleSplit
  <2> QED
    BY <1>1, <1>2, <1>4, <2>1 DEF VM!Discard, Uses
<1>6. CASE ~closed /\ open' = open
  <2>1. IdleStates(Mapped)' = IdleStates(Mapped) \cup {Uses[c]}
    BY <1>2, <1>3, <1>4, <1>6 DEF IdleSplit
  <2> QED
    BY <1>1, <1>2, <1>4, <1>6, <2>1 DEF VM!GiveBack, Uses
<1> QED
  BY <1>1, <1>5, <1>6

\* Close closes every idle State.
LEMMA CloseStep ==
    ASSUME IdleSplit, IdleSplit', Close
    PROVE  VM!Shut
<1>1. /\ ~closed /\ closed' = TRUE /\ open' = open \ IdleStates(Mapped)
      /\ held' = held /\ Building' = Building
  BY DEF Close, CloseIdle, callVars, Building
<1>2. HeldStates' = HeldStates
  BY <1>1 DEF HeldStates, Holding
<1>3. IdleStates(Mapped)' = {}
  BY <1>1, <1>2 DEF IdleSplit
<1> QED
  BY <1>1, <1>3 DEF VM!Shut

\* Every step of the Runtime is a step of VMSlots or invisible to it.
LEMMA SlotsStep ==
    ASSUME IInv, IdleSplit, IdleSplit', [Next]_vars
    PROVE  [VM!SlotsNext]_(VM!slotVars)
<1> USE DEF callVars, mapVars, entryVars, poolVars, slotVars, waitVars, envVars
<1>0. TypeOK
  BY DEF IInv
<1>1. ASSUME UNCHANGED <<held, open, closed>>, Building' = Building
      PROVE  UNCHANGED VM!slotVars
  BY <1>1, UnseenStep
<1>2. CASE UNCHANGED <<pc, held, open, closed>>
  BY <1>1, <1>2 DEF Building
<1>3. ASSUME NEW c \in Callers, NEW k \in Keys, Run(c, k) PROVE UNCHANGED VM!slotVars
  <2>1. /\ pc[c] = "out" /\ UNCHANGED <<held, open, closed>>
        /\ \E l \in {"acquire", "once"} : pc' = [pc EXCEPT ![c] = l]
    BY <1>3 DEF Run, RunHit, RunJoin, RunCreate, Goto
  <2> QED
    BY <1>0, <1>1, <2>1 DEF Building, TypeOK
<1>4. ASSUME NEW c \in Callers,
             \/ LoadSource(c) \/ Register(c) \/ OnceReturn(c) \/ Enqueue(c)
             \/ TakeGrant(c) \/ CtxDone(c)
      PROVE  UNCHANGED VM!slotVars
  <2>1. /\ pc[c] \notin {"build", "run"} /\ UNCHANGED <<held, open, closed>>
        /\ \E l \in {"load", "bail", "acquire", "wait"} : pc' = [pc EXCEPT ![c] = l]
    BY <1>0, <1>4 DEF LoadSource, LoadAnswer, Register, OnceReturn, Enqueue, TakeGrant,
                      CtxDone, Goto, TypeOK
  <2> QED
    BY <1>0, <1>1, <2>1 DEF Building, TypeOK
<1>5. ASSUME NEW c \in Callers,
             OnceFailed(c) \/ AcquireClosed(c) \/ Bail(c) \/ WaitClosed(c)
      PROVE  UNCHANGED VM!slotVars
  <2>1. /\ pc[c] \notin {"build", "run"} /\ Return(c) /\ UNCHANGED <<open, closed>>
    BY <1>0, <1>5 DEF OnceFailed, AcquireClosed, Bail, WaitClosed, TypeOK
  <2>2. held' = held
    BY <1>0, <2>1, ReturnUnmoved
  <2>3. pc' = [pc EXCEPT ![c] = "out"]
    BY <2>1 DEF Return
  <2> QED
    BY <1>0, <1>1, <2>1, <2>2, <2>3 DEF Building, TypeOK
<1>6. ASSUME NEW c \in Callers, Reuse(c) \/ Reserve(c) \/ BuildStep(c) \/ Release(c)
      PROVE  VM!SlotsNext
  BY <1>6, ReuseStep, ReserveStep, BuildStepSlots, BuildErrorStep, ReleaseStep
     DEF BuildStep, VM!SlotsNext
<1>7. ASSUME NEW c \in Callers, Evict(c) PROVE VM!Retire \/ UNCHANGED VM!slotVars
  <2>1. PICK p \in Mapped : \E i \in 1..Len(idle[p]) :
           /\ p \in PoolIds /\ open' = open \ {idle[p][i].L}
    BY <1>0, <1>7, EvictVictim
  <2>2. PICK i \in 1..Len(idle[p]) : open' = open \ {idle[p][i].L}
    BY <2>1
  <2>3. <<p, i>> \in Slots(Mapped)
    BY <1>0, <2>1, <2>2 DEF Slots, TypeOK
  <2>4. idle[p][i].L \in IdleStates(Mapped)
    BY <2>3 DEF IdleStates, StateAt
  <2>5. UNCHANGED <<held, closed>> /\ Building' = Building
    BY <1>7 DEF Evict, Building
  <2> QED
    BY <2>2, <2>4, <2>5, RetireStep
<1>8. ASSUME NEW P \in SUBSET Mapped, open' = open \ IdleStates(P), UNCHANGED <<pc, held, closed>>
      PROVE  VM!Retire \/ UNCHANGED VM!slotVars
  <2>1. IdleStates(P) \in SUBSET IdleStates(Mapped)
    BY DEF IdleStates, Slots
  <2> QED
    BY <1>8, <2>1, RetireStep DEF Building
<1>9. ASSUME NEW k \in Keys, NEW v \in Versions, Notify(k, v)
      PROVE  VM!Retire \/ UNCHANGED VM!slotVars
  <2>1. {pools[k]} \in SUBSET Mapped
    BY <1>9 DEF Notify, Mapped
  <2> QED
    BY <1>8, <1>9, <2>1 DEF Notify, CloseIdle
<1>10. CASE Sweep
  BY <1>8, <1>10 DEF Sweep, CloseIdle, Expired, VM!SlotsNext
<1>11. CASE Close
  BY <1>11, CloseStep DEF VM!SlotsNext
<1> QED
  BY <1>2, <1>3, <1>4, <1>5, <1>6, <1>7, <1>9, <1>10, <1>11
     DEF Next, vars, CallStep, GetPoolStep, AcquireStep, RunClosed, LoadFails,
         Publish, SweepStart, Tick, VM!SlotsNext

\* A new Runtime has no State.
LEMMA SlotsInitially ==
    ASSUME Init
    PROVE  VM!SlotsInit
<1>1. Mapped = {} /\ Building = {} /\ closed = FALSE
  BY DEF Init, Mapped, Building
<1>2. IdleStates(Mapped) = {}
  BY <1>1 DEF IdleStates, Slots
<1>3. Uses = [c \in Callers |-> None]
  BY DEF Init, Uses
<1> QED
  BY <1>1, <1>2, <1>3 DEF VM!SlotsInit, Uses

\* Whatever pools, queues and counters do, the Runtime grants, builds, gives
\* back and closes States as VMSlots promises: at most MaxStates slots, one
\* owner each, nothing granted once it is closed.
THEOREM RuntimeImplementsSlots == ApartSpec => ImplementsSlots
<1>1. Init => VM!SlotsInit
  BY SlotsInitially
<1>2. IInv => IdleSplit
  BY IdleAreUnowned
<1>3. IInv /\ IdleSplit /\ IdleSplit' /\ [Next /\ SweepApart]_vars
        => [VM!SlotsNext]_(VM!slotVars)
  BY SlotsStep, StutterIsApart DEF IInv
<1> QED
  BY <1>1, <1>2, <1>3, Safety, PTL DEF ApartSpec, ImplementsSlots, VM!SlotsSpec
=============================================================================
