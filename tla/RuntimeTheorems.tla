-------------------------- MODULE RuntimeTheorems --------------------------
(***************************************************************************)
(* The safety properties of Runtime, for every set of callers, keys, pools *)
(* and States, every cap and every TTL.                                    *)
(*                                                                         *)
(* What the janitor does not disturb is proved of Spec: the counts of      *)
(* States checked out, what it retires, the loading of entries, and that a *)
(* State has one owner.  The others are proved of ApartSpec, whose janitor *)
(* retires no pool that a call refers to: the run sweep_shutdown shows how *)
(* Spec breaks them otherwise.                                             *)
(***************************************************************************)
EXTENDS RuntimeProofs

(***************************************************************************)
(* checkedOut, the janitor on                                              *)
(***************************************************************************)

\* checkedOut is exact for every pool, referred to or not.
Counted == \A p \in PoolIds : checkedOut[p] = Cardinality(InUseOf(p))

\* The callers that use a pool are finitely many.
LEMMA InUseFinite ==
    ASSUME NEW p
    PROVE  /\ IsFiniteSet(InUseOf(p)) /\ Cardinality(InUseOf(p)) \in Nat
           /\ Cardinality(InUseOf(p)) = 0 <=> InUseOf(p) = {}
<1>1. IsFiniteSet(InUseOf(p))
  BY FinitenessAssumption, FS_Subset DEF InUseOf, InUse
<1> QED
  BY <1>1, FS_CardinalityType, FS_EmptySet

\* A caller that is accounted for by acquire uses its own pool once more, and
\* no other pool is used differently.
LEMMA CountedEnter ==
    ASSUME TypeOK, Counted, NEW c \in Callers, ref[c] \in PoolIds,
           checkedOut' = [checkedOut EXCEPT ![ref[c]] = checkedOut[ref[c]] + 1],
           c \notin InUse, InUse' = InUse \cup {c}, ref' = ref
    PROVE  Counted'
<1> SUFFICES ASSUME NEW p \in PoolIds PROVE checkedOut'[p] = Cardinality(InUseOf(p)')
  BY DEF Counted
<1>1. checkedOut[p] = Cardinality(InUseOf(p))
  BY DEF Counted
<1>2. checkedOut'[p] = IF p = ref[c] THEN checkedOut[p] + 1 ELSE checkedOut[p]
  BY DEF TypeOK
<1>3. CASE p # ref[c]
  <2>1. InUseOf(p)' = InUseOf(p)
    BY <1>3 DEF InUseOf
  <2> QED
    BY <1>1, <1>2, <1>3, <2>1
<1>4. CASE p = ref[c]
  <2>1. InUseOf(p)' = InUseOf(p) \cup {c} /\ c \notin InUseOf(p)
    BY <1>4 DEF InUseOf
  <2>2. Cardinality(InUseOf(p)') = Cardinality(InUseOf(p)) + 1
    BY <2>1, InUseFinite, FS_AddElement
  <2> QED
    BY <1>1, <1>2, <1>4, <2>2
<1> QED
  BY <1>3, <1>4

\* A caller that release or a failed build accounts for uses it once less.
LEMMA CountedLeave ==
    ASSUME TypeOK, Counted, NEW c \in Callers, ref[c] \in PoolIds,
           checkedOut' = [checkedOut EXCEPT ![ref[c]] = checkedOut[ref[c]] - 1],
           c \in InUse, InUse' = InUse \ {c}, ref' = [ref EXCEPT ![c] = None]
    PROVE  Counted'
<1> SUFFICES ASSUME NEW p \in PoolIds PROVE checkedOut'[p] = Cardinality(InUseOf(p)')
  BY DEF Counted
<1>1. checkedOut[p] = Cardinality(InUseOf(p))
  BY DEF Counted
<1>2. checkedOut'[p] = IF p = ref[c] THEN checkedOut[p] - 1 ELSE checkedOut[p]
  BY DEF TypeOK
<1>3. InUseOf(p)' = InUseOf(p) \ {c}
  <2>1. \A d \in InUse' : ref'[d] = ref[d]
    BY DEF TypeOK, InUse
  <2> QED
    BY <2>1 DEF InUseOf
<1>4. CASE p # ref[c]
  <2>1. InUseOf(p)' = InUseOf(p)
    BY <1>3, <1>4 DEF InUseOf
  <2> QED
    BY <1>1, <1>2, <1>4, <2>1
<1>5. CASE p = ref[c]
  <2>1. c \in InUseOf(p)
    BY <1>5 DEF InUseOf
  <2>2. Cardinality(InUseOf(p)') = Cardinality(InUseOf(p)) - 1
    BY <1>3, <2>1, InUseFinite, FS_RemoveElement
  <2> QED
    BY <1>1, <1>2, <1>5, <2>2
<1> QED
  BY <1>4, <1>5

\* Steps of a caller that is in no accounted stretch, before or after.
LEMMA CountedOutside ==
    ASSUME TypeOK, Counted, NEW c \in Callers, c \notin InUse, c \notin InUse',
           \A d \in Callers \ {c} : pc'[d] = pc[d] /\ ref'[d] = ref[d],
           checkedOut' = checkedOut
    PROVE  Counted'
<1> SUFFICES ASSUME NEW p \in PoolIds PROVE checkedOut'[p] = Cardinality(InUseOf(p)')
  BY DEF Counted
<1>1. InUseOf(p)' = InUseOf(p)
  BY DEF InUseOf, InUse
<1> QED
  BY <1>1 DEF Counted

\* Every step of Runtime keeps checkedOut exact.
LEMMA CountedStep ==
    ASSUME TypeOK, Counted, [Next]_vars
    PROVE  Counted'
<1> USE DEF callVars, mapVars, entryVars, poolVars, slotVars, waitVars, envVars
<1>1. CASE UNCHANGED <<pc, ref, checkedOut>>
  BY <1>1 DEF Counted, InUseOf, InUse
<1>2. ASSUME NEW c \in Callers,
             \/ CtxDone(c) \/ LoadSource(c) \/ Register(c) \/ OnceReturn(c)
             \/ OnceFailed(c) \/ AcquireClosed(c) \/ Enqueue(c)
             \/ TakeGrant(c) \/ Bail(c) \/ WaitClosed(c)
      PROVE  Counted'
  <2>1. /\ pc[c] \notin {"build", "run"} /\ checkedOut' = checkedOut
        /\ \E l \in {"load", "bail", "acquire", "wait", "out"} : pc' = [pc EXCEPT ![c] = l]
        /\ \E r : ref' = [ref EXCEPT ![c] = r]
    BY <1>2 DEF CtxDone, LoadSource, LoadAnswer, Register, OnceReturn, OnceFailed, AcquireClosed,
         Enqueue, TakeGrant, Bail, WaitClosed, Goto, Return, TypeOK
  <2> QED
    BY <2>1, CountedOutside DEF InUse, TypeOK
<1>3. ASSUME NEW c \in Callers, NEW k \in Keys, RunHit(c, k) \/ RunJoin(c, k)
      PROVE  Counted'
  <2>1. /\ pc[c] = "out" /\ checkedOut' = checkedOut
        /\ \E l \in {"acquire", "once"} : pc' = [pc EXCEPT ![c] = l]
        /\ \E r : ref' = [ref EXCEPT ![c] = r]
    BY <1>3 DEF RunHit, RunJoin, Goto
  <2> QED
    BY SMTT(30), <2>1, CountedOutside DEF InUse, TypeOK
<1>4. ASSUME NEW c \in Callers, NEW k \in Keys, RunCreate(c, k) PROVE Counted'
  <2> DEFINE p == CHOOSE q \in PoolIds \ UsedPools : TRUE
  <2>1. p \in PoolIds \ UsedPools
    BY <1>4 DEF RunCreate
  <2>2. /\ checkedOut' = [checkedOut EXCEPT ![p] = 0] /\ pc[c] = "out"
        /\ pc' = [pc EXCEPT ![c] = "once"] /\ ref' = [ref EXCEPT ![c] = p]
    BY <1>4 DEF RunCreate, Goto
  <2> HIDE DEF p
  <2>3. InUseOf(p) = {}
    BY <2>1, NoneAssumption DEF InUseOf, InUse, UsedPools
  <2>4. checkedOut[p] = 0
    BY <2>1, <2>3, InUseFinite DEF Counted
  <2>5. checkedOut' = checkedOut
    BY <2>1, <2>2, <2>4 DEF TypeOK
  <2> QED
    BY <2>2, <2>5, CountedOutside DEF InUse, TypeOK
<1>5. ASSUME NEW c \in Callers, Reuse(c) \/ Reserve(c) PROVE Counted'
  <2>1. ref[c] \in PoolIds
    BY <1>5 DEF Reuse, Reserve, MayClaim, TypeOK
  <2>2. /\ c \notin InUse /\ InUse' = InUse \cup {c} /\ ref' = ref
        /\ checkedOut' = [checkedOut EXCEPT ![ref[c]] = checkedOut[ref[c]] + 1]
    BY <1>5 DEF Reuse, Reserve, MayClaim, CheckOut, Goto, InUse, TypeOK
  <2> QED
    BY <2>1, <2>2, CountedEnter
<1>6. ASSUME NEW c \in Callers, BuildDone(c) PROVE Counted'
  <2>1. InUse' = InUse /\ UNCHANGED <<ref, checkedOut>>
    BY <1>6 DEF BuildDone, Goto, InUse, TypeOK
  <2> QED
    BY <2>1 DEF Counted, InUseOf
<1>7. ASSUME NEW c \in Callers, BuildFails(c) \/ Release(c) PROVE Counted'
  <2>1. ref[c] \in PoolIds
    BY <1>7 DEF BuildFails, Release, TypeOK
  <2>2. /\ c \in InUse /\ InUse' = InUse \ {c} /\ ref' = [ref EXCEPT ![c] = None]
        /\ checkedOut' = [checkedOut EXCEPT ![ref[c]] = checkedOut[ref[c]] - 1]
    BY <1>7 DEF BuildFails, Release, Return, InUse, TypeOK
  <2> QED
    BY <2>1, <2>2, CountedLeave
<1> QED
  BY <1>1, <1>2, <1>3, <1>4, <1>5, <1>6, <1>7
     DEF Next, vars, Run, CallStep, GetPoolStep, AcquireStep, BuildStep,
         RunClosed, LoadFails, Evict, Notify, ForgetEntry, Publish, SweepStart, Sweep, Close, Tick

\* checkedOut is, in every reachable state and for every pool that the maps or
\* a call refer to, the number of its States that are being built or run
\* scripts: acquire, release and a failed build account for it exactly.
THEOREM CheckedOutIsExact == Spec => []CheckedOutExact
<1>1. Init => Counted
  BY FS_EmptySet DEF Init, Counted, InUseOf, InUse
<1>2. TypeOK /\ Counted /\ [Next]_vars => Counted'
  BY CountedStep
<1>3. TypeOK /\ Counted => CheckedOutExact
  BY DEF TypeOK, Counted, CheckedOutExact, UsedPools, Mapped
<1> QED
  BY <1>1, <1>2, <1>3, TypeCorrect, PTL DEF Spec

\* sweep's clock is never ahead of the Runtime's.
SweepNowPast == sweepNow # None => sweepNow <= now

\* Every step keeps sweep's clock behind.
LEMMA SweepNowStep ==
    ASSUME TypeOK, SweepNowPast, [Next]_vars
    PROVE  SweepNowPast'
<1> USE DEF callVars, mapVars, entryVars, poolVars, slotVars, waitVars, envVars
<1>1. CASE UNCHANGED <<now, sweepNow>>
  BY <1>1 DEF SweepNowPast
<1>2. CASE SweepStart
  BY <1>2 DEF SweepStart, SweepNowPast, TypeOK, Times
<1>3. CASE Sweep
  BY <1>3 DEF Sweep, SweepNowPast
<1>4. CASE Tick
  BY <1>4, ConfigAssumption DEF Tick, SweepNowPast, TypeOK, Times
<1> QED
  BY ZenonT(60), <1>1, <1>2, <1>3, <1>4
     DEF Next, vars, Run, CallStep, GetPoolStep, AcquireStep, BuildStep,
         RunHit, RunJoin, RunCreate, RunClosed, LoadSource, LoadAnswer, LoadFails, Register,
         OnceReturn, OnceFailed, AcquireClosed, Reuse, Reserve, Evict, Enqueue,
         TakeGrant, CtxDone, Bail, WaitClosed, BuildDone, BuildFails, Release,
         Notify, ForgetEntry, Publish, Close

\* The janitor retires only pools without a State in use that were not used
\* for longer than the TTL, although it reads its clock before it locks and
\* pools are acquired and released between the two: a late clock only errs on
\* the side of keeping a pool.
THEOREM SweepIsSafe == Spec => SweepSparesUsed
<1> DEFINE Inv == TypeOK /\ Counted /\ SweepNowPast
<1>1. Init => Counted /\ SweepNowPast
  BY FS_EmptySet DEF Init, Counted, InUseOf, InUse, SweepNowPast
<1>2. Inv /\ [Next]_vars => Counted' /\ SweepNowPast'
  BY CountedStep, SweepNowStep
<1>3. Inv =>
        (Sweep => \A k \in Keys :
           pools[k] # None /\ pools'[k] = None =>
              InUseOf(pools[k]) = {} /\ now - lastUsed[pools[k]] > TTL)
  <2> SUFFICES ASSUME Inv, Sweep, NEW k \in Keys, pools[k] # None, pools'[k] = None
               PROVE  InUseOf(pools[k]) = {} /\ now - lastUsed[pools[k]] > TTL
    OBVIOUS
  <2>1. pools[k] \in Expired /\ pools[k] \in PoolIds
    BY DEF Sweep, TypeOK
  <2>2. checkedOut[pools[k]] = 0 /\ sweepNow - lastUsed[pools[k]] > TTL
    BY <2>1 DEF Expired
  <2>3. InUseOf(pools[k]) = {}
    BY <2>1, <2>2, InUseFinite DEF Counted
  <2>4. /\ sweepNow \in Int /\ now \in Int /\ lastUsed[pools[k]] \in Int /\ TTL \in Int
        /\ sweepNow <= now
    BY <2>1, ConfigAssumption DEF Sweep, SweepNowPast, TypeOK, Times
  <2> QED
    BY <2>2, <2>3, <2>4
<1>4. Inv /\ [Next]_vars =>
        [Sweep => \A k \in Keys :
           pools[k] # None /\ pools'[k] = None =>
              InUseOf(pools[k]) = {} /\ now - lastUsed[pools[k]] > TTL]_vars
  BY <1>3
<1> QED
  BY <1>1, <1>2, <1>4, TypeCorrect, PTL DEF Spec, SweepSparesUsed

(***************************************************************************)
(* The wait queue                                                          *)
(***************************************************************************)

\* The first m waiters leave the queue; the others stay, each once.
LEMMA CutQueue ==
    ASSUME TypeOK, QueueInv, ~closed, NEW m \in 0..Len(waiters),
           waiters' = SubSeq(waiters, m + 1, Len(waiters))
    PROVE  /\ \A i, j \in DOMAIN waiters' : waiters'[i] = waiters'[j] => i = j
           /\ \A c \in Callers : InQueue(c)' => InQueue(c) /\ c \notin {waiters[i] : i \in 1..m}
           /\ \A i \in 1..m : waiters[i] \in Callers /\ InQueue(waiters[i])
           /\ waiters = <<>> => waiters' = <<>>
<1>1. waiters \in Seq(Callers)
  BY DEF TypeOK
<1>2. /\ Len(waiters') = Len(waiters) - m /\ waiters' \in Seq(Callers)
      /\ \A i \in 1..Len(waiters') : waiters'[i] = waiters[i + m] /\ i + m \in DOMAIN waiters
  BY <1>1
<1>3. ASSUME NEW i \in DOMAIN waiters', NEW j \in DOMAIN waiters', waiters'[i] = waiters'[j]
      PROVE  i = j
  <2>1. i \in 1..Len(waiters') /\ j \in 1..Len(waiters')
    BY <1>2
  <2>2. i + m = j + m
    BY <1>2, <1>3, <2>1 DEF QueueInv
  <2> QED
    BY <2>1, <2>2
<1>4. ASSUME NEW c \in Callers, InQueue(c)'
      PROVE  InQueue(c) /\ c \notin {waiters[i] : i \in 1..m}
  <2>1. PICK i \in 1..Len(waiters') : waiters'[i] = c
    BY <1>2, <1>4 DEF InQueue
  <2>2. waiters[i + m] = c /\ i + m \in DOMAIN waiters /\ i + m > m
    BY <1>2, <2>1
  <2>3. \A j \in 1..m : waiters[j] # c
    BY <1>1, <2>2 DEF QueueInv
  <2> QED
    BY <2>2, <2>3 DEF InQueue
<1>5. \A i \in 1..m : waiters[i] \in Callers /\ InQueue(waiters[i])
  BY <1>1 DEF InQueue
<1>6. waiters = <<>> => waiters' = <<>>
  BY <1>1, <1>2
<1> QED
  BY <1>3, <1>4, <1>5, <1>6

\* What a hand-off does to the queue of an open Runtime: the first waiters
\* leave it with their hand-off.
LEMMA WakeQueue ==
    ASSUME TypeOK, QueueInv, ~closed, NEW n \in Nat, WakeWaiters(n)
    PROVE  /\ \A i, j \in DOMAIN waiters' : waiters'[i] = waiters'[j] => i = j
           /\ \A c \in Callers : InQueue(c)' => InQueue(c) /\ c \notin signalled'
           /\ \A c \in signalled' : c \in signalled \/ (c \in Callers /\ InQueue(c))
           /\ signalled \subseteq signalled'
           /\ waiters = <<>> => waiters' = <<>>
           /\ n >= 1 /\ waiters # <<>> => waiters[1] \in signalled'
<1> DEFINE m == IF n < Len(waiters) THEN n ELSE Len(waiters)
<1>1. waiters \in Seq(Callers)
  BY DEF TypeOK
<1>2. m \in 0..Len(waiters) /\ (n >= 1 /\ waiters # <<>> => 1 \in 1..m)
  BY <1>1
<1>3. /\ waiters' = SubSeq(waiters, m + 1, Len(waiters))
      /\ signalled' = signalled \cup {waiters[i] : i \in 1..m}
  BY DEF WakeWaiters
<1> HIDE DEF m
<1>4. \A c \in Callers : InQueue(c) => c \notin signalled
  BY DEF QueueInv
<1> QED
  BY <1>2, <1>3, <1>4, CutQueue

\* Every step keeps the queue of an open Runtime in order.
LEMMA QueueStep ==
    ASSUME TypeOK, QueueInv, [Next]_vars
    PROVE  QueueInv'
<1> SUFFICES ASSUME ~closed' PROVE QueueInv'
  BY DEF QueueInv
<1> USE DEF callVars, mapVars, entryVars, poolVars, slotVars, waitVars, envVars
<1>1. CASE UNCHANGED <<pc, waiters, signalled, closed>>
  BY <1>1 DEF QueueInv, InQueue
\* A call outside the wait, whose queue stays as it is.
<1>2. ASSUME NEW c \in Callers, pc[c] \notin {"wait", "bail"},
             \A d \in Callers \ {c} : pc'[d] = pc[d],
             UNCHANGED <<waiters, signalled, closed>>
      PROVE  QueueInv'
  BY <1>2 DEF QueueInv, InQueue, TypeOK
<1>3. ASSUME NEW c \in Callers,
             \/ LoadSource(c) \/ Register(c) \/ OnceReturn(c) \/ OnceFailed(c)
             \/ AcquireClosed(c) \/ Reuse(c) \/ Reserve(c) \/ BuildDone(c)
      PROVE  QueueInv'
  <2>1. /\ pc[c] \notin {"wait", "bail"} /\ UNCHANGED <<waiters, signalled, closed>>
        /\ \E l : pc' = [pc EXCEPT ![c] = l]
    BY <1>3 DEF LoadSource, LoadAnswer, Register, OnceReturn, OnceFailed, AcquireClosed,
       Reuse, Reserve, BuildDone, MayClaim, Goto, Return
  <2> QED
    BY <1>2, <2>1 DEF TypeOK
<1>4. ASSUME NEW c \in Callers, NEW k \in Keys, Run(c, k) PROVE QueueInv'
  <2>1. /\ pc[c] \notin {"wait", "bail"} /\ UNCHANGED <<waiters, signalled, closed>>
        /\ \E l : pc' = [pc EXCEPT ![c] = l]
    BY <1>4 DEF Run, RunHit, RunJoin, RunCreate, Goto
  <2> QED
    BY <1>2, <2>1 DEF TypeOK
<1>5. ASSUME NEW c \in Callers, CtxDone(c) PROVE QueueInv'
  BY <1>5 DEF CtxDone, Goto, QueueInv, InQueue, TypeOK
<1>6. ASSUME NEW c \in Callers, TakeGrant(c) PROVE QueueInv'
  BY <1>6 DEF TakeGrant, Goto, QueueInv, InQueue, TypeOK
<1>7. ASSUME NEW c \in Callers, Enqueue(c) PROVE QueueInv'
  <2>1. /\ pc[c] = "acquire" /\ ~closed /\ pc' = [pc EXCEPT ![c] = "wait"]
        /\ waiters' = Append(waiters, c) /\ signalled' = signalled
        /\ waiters \in Seq(Callers)
    BY <1>7 DEF Enqueue, Goto, TypeOK
  <2>2. /\ Len(waiters') = Len(waiters) + 1 /\ waiters'[Len(waiters) + 1] = c
        /\ \A i \in 1..Len(waiters) : waiters'[i] = waiters[i]
        /\ DOMAIN waiters' = 1..(Len(waiters) + 1) /\ Len(waiters) \in Nat
    BY <2>1
  <2>3. ~InQueue(c) /\ c \notin signalled
    BY <2>1 DEF QueueInv
  <2>4. \A i, j \in DOMAIN waiters' : waiters'[i] = waiters'[j] => i = j
    BY <2>1, <2>2, <2>3 DEF QueueInv, InQueue
  <2>5. \A d \in Callers : InQueue(d)' => InQueue(d) \/ d = c
    BY <2>1, <2>2 DEF InQueue
  <2> QED
    BY <2>1, <2>3, <2>4, <2>5 DEF QueueInv, TypeOK
\* A call that leaves without its hand-off, or passes one on.
<1>8. ASSUME NEW c \in Callers, NEW n \in Nat, ~closed, WakeWaiters(n),
             pc' = [pc EXCEPT ![c] = "out"] \/ pc' = pc,
             pc[c] \notin {"wait", "bail"} \/ pc' = pc
      PROVE  QueueInv'
  <2>1. \A d \in Callers : pc[d] \in {"wait", "bail"} => pc'[d] = pc[d]
    BY <1>8 DEF TypeOK
  <2>2. signalled \subseteq Callers
    BY DEF TypeOK
  <2>3. \A d \in Callers : InQueue(d) \/ d \in signalled => pc[d] \in {"wait", "bail"}
    BY <1>8 DEF QueueInv
  <2> QED
    BY <1>8, <2>1, <2>2, <2>3, WakeQueue DEF QueueInv
<1>9. ASSUME NEW c \in Callers, BuildFails(c) \/ Release(c) PROVE QueueInv'
  BY <1>8, <1>9 DEF BuildFails, Release, Return, WakeWaiter
<1>10. ASSUME NEW c \in Callers, Bail(c) PROVE QueueInv'
  <2>1. /\ pc' = [pc EXCEPT ![c] = "out"] /\ closed' = closed /\ waiters \in Seq(Callers)
        /\ signalled \subseteq Callers
    BY <1>10 DEF Bail, Return, TypeOK
  <2>2. ASSUME NEW i \in DOMAIN waiters, waiters[i] = c, waiters' = RemoveAt(waiters, i),
               signalled' = signalled
        PROVE  QueueInv'
    <3>1. i \in 1..Len(waiters)
      BY <2>1, <2>2
    <3>2. /\ waiters' \in Seq(Callers) /\ Len(waiters') = Len(waiters) - 1
          /\ \A j \in 1..Len(waiters') :
               waiters'[j] = waiters[IF j < i THEN j ELSE j + 1]
      BY <2>1, <2>2, <3>1, RemoveAtType, RemoveAtElements
    <3>3. \A j \in 1..Len(waiters') : /\ (IF j < i THEN j ELSE j + 1) \in DOMAIN waiters
                                       /\ (IF j < i THEN j ELSE j + 1) # i
      BY <2>1, <3>1, <3>2
    <3>4. DOMAIN waiters' = 1..Len(waiters') /\ Len(waiters') \in Nat
      BY <3>2
    <3>5. ASSUME NEW j \in DOMAIN waiters', NEW k \in DOMAIN waiters', waiters'[j] = waiters'[k]
          PROVE  j = k
      <4>1. (IF j < i THEN j ELSE j + 1) = (IF k < i THEN k ELSE k + 1)
        BY SMTT(30), <2>1, <3>2, <3>3, <3>4, <3>5 DEF QueueInv
      <4> QED
        BY <3>1, <3>4, <4>1
    <3>6. ASSUME NEW d \in Callers, InQueue(d)' PROVE InQueue(d) /\ d # c
      <4>1. PICK j \in 1..Len(waiters') : waiters'[j] = d
        BY <3>4, <3>6 DEF InQueue
      <4>2. PICK k \in DOMAIN waiters : k # i /\ waiters[k] = d
        BY <3>2, <3>3, <4>1
      <4> QED
        BY <2>1, <2>2, <4>2 DEF QueueInv, InQueue
    <3>7. c \notin signalled
      BY <2>1, <2>2 DEF QueueInv, InQueue
    <3> QED
      BY <2>1, <2>2, <3>5, <3>6, <3>7 DEF QueueInv, TypeOK
  <2>3. ASSUME ~InQueue(c),
               LET m == IF waiters = <<>> THEN 0 ELSE 1
               IN  /\ waiters' = SubSeq(waiters, m + 1, Len(waiters))
                   /\ signalled' = (signalled \ {c}) \cup {waiters[i] : i \in 1..m}
        PROVE  QueueInv'
    <3> DEFINE m == IF waiters = <<>> THEN 0 ELSE 1
    <3>1. /\ m \in 0..Len(waiters) /\ waiters' = SubSeq(waiters, m + 1, Len(waiters))
          /\ signalled' = (signalled \ {c}) \cup {waiters[i] : i \in 1..m}
      BY <2>1, <2>3
    <3> HIDE DEF m
    <3>2. /\ \A i, j \in DOMAIN waiters' : waiters'[i] = waiters'[j] => i = j
          /\ \A d \in Callers : InQueue(d)' => InQueue(d) /\ d \notin {waiters[i] : i \in 1..m}
          /\ \A i \in 1..m : waiters[i] \in Callers /\ InQueue(waiters[i])
      BY <2>1, <3>1, CutQueue
    <3>3. \A d \in Callers : InQueue(d)' => pc'[d] \in {"wait", "bail"} /\ d \notin signalled'
      BY <2>1, <2>3, <3>1, <3>2 DEF QueueInv, TypeOK
    <3>4. \A d \in signalled' : pc'[d] \in {"wait", "bail"}
      BY <2>1, <2>3, <3>1, <3>2 DEF QueueInv, TypeOK
    <3> QED
      BY <3>2, <3>3, <3>4 DEF QueueInv
  <2> QED
    BY <1>10, <2>2, <2>3 DEF Bail, InQueue
<1>11. ASSUME NEW c \in Callers, WaitClosed(c) PROVE QueueInv'
  BY <1>11 DEF WaitClosed
<1>12. ASSUME NEW n \in Nat, WakeWaiters(n), pc' = pc, closed' = closed PROVE QueueInv'
  BY <1>12, WakeQueue DEF QueueInv, TypeOK
<1>13. ASSUME NEW k \in Keys, NEW v \in Versions, Notify(k, v) PROVE QueueInv'
  <2>1. Cardinality(Slots({pools[k]})) \in Nat
    <3>1. {pools[k]} \in SUBSET PoolIds
      BY <1>13 DEF Notify, TypeOK
    <3> QED
      BY <3>1, SlotsFinite DEF TypeOK
  <2> QED
    BY <1>12, <1>13, <2>1 DEF Notify
<1>14. CASE Sweep
  <2>1. Cardinality(Slots(Expired)) \in Nat
    <3>1. Expired \in SUBSET PoolIds
      BY DEF TypeOK, Expired, Mapped
    <3> QED
      BY <3>1, SlotsFinite DEF TypeOK
  <2> QED
    BY <1>12, <1>14, <2>1 DEF Sweep
<1>15. CASE Close
  BY <1>15 DEF Close
<1> QED
  BY <1>1, <1>3, <1>4, <1>5, <1>6, <1>7, <1>9, <1>10, <1>11, <1>13, <1>14, <1>15
     DEF Next, vars, CallStep, GetPoolStep, AcquireStep, BuildStep,
         RunClosed, LoadFails, Evict, ForgetEntry, Publish, SweepStart, Tick

(***************************************************************************)
(* getPool, the janitor on                                                 *)
(***************************************************************************)

\* The entries agree with the maps, whatever the janitor retires.
THEOREM Entries == Spec => [](TypeOK /\ Keyed /\ EntryInv)
<1>1. Init => TypeOK /\ Keyed /\ EntryInv
  <2>1. Init => EntryInv
    BY DEF Init, EntryInv, OnceAgrees, LoadingCurrent, MapsAgree, PastGetPool
  <2> QED
    BY <2>1, TypeInit
<1>2. TypeOK /\ Keyed /\ EntryInv /\ [Next]_vars => (TypeOK /\ Keyed /\ EntryInv)'
  BY TypeStep, EntryInvStep
<1> QED
  BY <1>1, <1>2, PTL DEF Spec

\* At most one caller at a time loads the source of a key.
THEOREM LoadsOnce == Spec => []SingleFlight
<1>1. TypeOK /\ Keyed /\ EntryInv => SingleFlight
  <2> SUFFICES ASSUME TypeOK, Keyed, EntryInv, NEW c \in Callers, NEW d \in Callers,
                      pc[c] = "load", pc[d] = "load", keyOf[ref[c]] = keyOf[ref[d]]
               PROVE  c = d
    BY DEF SingleFlight
  <2>1. ref[c] # None /\ ref[d] # None
    BY DEF TypeOK
  <2>2. Loading(ref[c]) /\ Loading(ref[d])
    BY DEF EntryInv, OnceAgrees, Loading
  <2>3. ref[c] = ref[d]
    BY <2>1, <2>2 DEF EntryInv, LoadingCurrent
  <2> QED
    BY <2>3 DEF EntryInv, OnceAgrees
<1> QED
  BY <1>1, Entries, PTL

\* Registering a loaded pool never overwrites another pool of the map.
THEOREM PoolsNeverClobbered == Spec => NeverClobbered
<1>1. TypeOK /\ Keyed /\ EntryInv /\ [Next]_vars =>
        [\A k \in Keys : pools[k] # None => pools'[k] \in {pools[k], None}]_vars
  <2> SUFFICES ASSUME TypeOK, Keyed, EntryInv, [Next]_vars, NEW k \in Keys, pools[k] # None
               PROVE  pools'[k] \in {pools[k], None}
    OBVIOUS
  <2> USE DEF callVars, mapVars, entryVars, poolVars, slotVars, waitVars, envVars
  <2>1. CASE pools' = pools
    BY <2>1
  <2>2. ASSUME NEW c \in Callers, Register(c) PROVE pools'[k] = pools[k]
    <3>1. /\ ref[c] # None /\ Loading(ref[c]) /\ keyOf[ref[c]] \in Keys
          /\ pools' = [pools EXCEPT ![keyOf[ref[c]]] = ref[c]]
      BY <2>2 DEF Register, EntryInv, OnceAgrees, Loading, TypeOK, Keyed
    <3>2. pools[keyOf[ref[c]]] = None
      BY <3>1 DEF EntryInv, LoadingCurrent
    <3> QED
      BY <3>1, <3>2 DEF TypeOK
  <2>3. ASSUME NEW j \in Keys, NEW v \in Versions, Notify(j, v)
        PROVE  pools'[k] \in {pools[k], None}
    BY <2>3 DEF Notify, ForgetEntry, TypeOK
  <2>4. CASE Sweep
    BY <2>4 DEF Sweep
  <2> QED
    BY ZenonT(60), <2>1, <2>2, <2>3, <2>4
       DEF Next, vars, Run, CallStep, GetPoolStep, AcquireStep, BuildStep,
           RunHit, RunJoin, RunCreate, RunClosed, LoadSource, LoadAnswer, LoadFails,
           OnceReturn, OnceFailed, AcquireClosed, Reuse, Reserve, Evict, Enqueue,
           TakeGrant, CtxDone, Bail, WaitClosed, BuildDone, BuildFails, Release,
           Publish, SweepStart, Close, Tick
<1> QED
  BY <1>1, Entries, PTL DEF Spec, NeverClobbered

(***************************************************************************)
(* Ownership, the janitor on                                               *)
(***************************************************************************)

\* A pool that the janitor retires under a caller keeps its idle States, and
\* the caller may take them.  So the owners are counted over all the pools
\* something refers to.
OneOwnerUsed ==
    /\ \A c, d \in Holding : held[c].L = held[d].L => c = d
    /\ \A p, q \in UsedPools : \A i \in DOMAIN idle[p], j \in DOMAIN idle[q] :
          idle[p][i].L = idle[q][j].L => p = q /\ i = j
    /\ \A c \in Holding, p \in UsedPools : \A i \in DOMAIN idle[p] :
          held[c].L # idle[p][i].L

\* Steps that give no State away, but may forget some.
LEMMA OwnersQuiet ==
    ASSUME OneOwnerUsed, \A c \in Callers : held'[c] \in {held[c], None},
           \A p \in UsedPools' : idle'[p] = <<>> \/ (p \in UsedPools /\ idle'[p] = idle[p])
    PROVE  OneOwnerUsed'
<1>1. \A p \in UsedPools' : \A i \in DOMAIN idle'[p] :
         p \in UsedPools /\ i \in DOMAIN idle[p] /\ idle'[p][i] = idle[p][i]
  OBVIOUS
<1>2. \A c \in Holding' : c \in Holding /\ held'[c] = held[c]
  BY DEF Holding
<1> QED
  BY <1>1, <1>2 DEF OneOwnerUsed

\* Every step leaves a State with one owner.
LEMMA OneOwnerUsedStep ==
    ASSUME TypeOK, OneOwnerUsed, [Next]_vars
    PROVE  OneOwnerUsed'
<1> USE DEF callVars, mapVars, entryVars, poolVars, slotVars, waitVars, envVars
<1>0. UsedPools \subseteq PoolIds /\ Mapped \subseteq UsedPools
  BY DEF UsedPools, Mapped, TypeOK
<1>a. ASSUME \A c \in Callers : held'[c] \in {held[c], None},
             \A p \in PoolIds : idle'[p] \in {idle[p], <<>>},
             UsedPools' \subseteq UsedPools
      PROVE  OneOwnerUsed'
  BY <1>0, <1>a, OwnersQuiet
<1>1. CASE UNCHANGED vars
  BY <1>1, <1>a DEF vars, UsedPools, Mapped
<1>2. ASSUME NEW c \in Callers, RunClosed(c) \/ CtxDone(c) PROVE OneOwnerUsed'
  BY <1>2, <1>a DEF RunClosed, CtxDone, vars, UsedPools, Mapped
<1>3. ASSUME NEW c \in Callers,
             AcquireClosed(c) \/ Reserve(c) \/ Enqueue(c) \/ TakeGrant(c) \/ Bail(c) \/ WaitClosed(c)
             \/ BuildFails(c) \/ OnceReturn(c) \/ OnceFailed(c)
      PROVE  OneOwnerUsed'
  <2>1. /\ \A d \in Callers : ref'[d] \in {ref[d], None} /\ held'[d] \in {held[d], None}
        /\ \A k \in Keys : creating'[k] \in {creating[k], None}
        /\ UNCHANGED <<idle, pools>>
    BY <1>3 DEF AcquireClosed, Reserve, Enqueue, TakeGrant, Bail, WaitClosed, BuildFails,
                OnceReturn, OnceFailed, Return, TypeOK
  <2>2. UsedPools' \subseteq UsedPools
    BY <2>1 DEF UsedPools, Mapped
  <2> QED
    BY <1>a, <2>1, <2>2
<1>4. ASSUME NEW c \in Callers, LoadSource(c) \/ LoadFails(c) PROVE OneOwnerUsed'
  BY <1>4, <1>a DEF LoadSource, LoadAnswer, LoadFails, UsedPools, Mapped
<1>5. ASSUME NEW c \in Callers, Register(c) PROVE OneOwnerUsed'
  <2>1. /\ pools' = [pools EXCEPT ![keyOf[ref[c]]] = ref[c]]
        /\ UNCHANGED <<ref, held, creating, idle>>
    BY <1>5 DEF Register
  <2>2. \A k \in Keys : pools'[k] \in {pools[k], ref[c]}
    BY <2>1 DEF TypeOK
  <2>3. UsedPools' \subseteq UsedPools
    BY <2>1, <2>2 DEF UsedPools, Mapped
  <2> QED
    BY <1>a, <2>1, <2>3
<1>6. ASSUME NEW c \in Callers, NEW k \in Keys, RunHit(c, k) \/ RunJoin(c, k)
      PROVE  OneOwnerUsed'
  <2>1. /\ \A d \in Callers : ref'[d] \in {ref[d], pools[k], creating[k]}
        /\ UNCHANGED <<held, pools, creating, idle>>
    BY <1>6 DEF RunHit, RunJoin, TypeOK
  <2>2. UsedPools' \subseteq UsedPools
    BY <2>1 DEF UsedPools, Mapped
  <2> QED
    BY <1>a, <2>1, <2>2
<1>7. ASSUME NEW c \in Callers, NEW k \in Keys, RunCreate(c, k) PROVE OneOwnerUsed'
  <2> DEFINE p == CHOOSE q \in PoolIds \ UsedPools : TRUE
  <2>1. /\ creating' = [creating EXCEPT ![k] = p] /\ ref' = [ref EXCEPT ![c] = p]
        /\ idle' = [idle EXCEPT ![p] = <<>>] /\ UNCHANGED <<held, pools>>
    BY <1>7 DEF RunCreate
  <2> HIDE DEF p
  <2>2. /\ \A d \in Callers : ref'[d] \in {ref[d], p}
        /\ \A j \in Keys : creating'[j] \in {creating[j], p}
        /\ \A q \in PoolIds : idle'[q] \in {idle[q], <<>>} /\ (q = p => idle'[q] = <<>>)
    BY <2>1 DEF TypeOK
  <2>3. UsedPools' \subseteq UsedPools \cup {p}
    BY <2>1, <2>2 DEF UsedPools, Mapped
  <2>4. p \in PoolIds
    BY <1>7 DEF RunCreate, p
  <2> QED
    BY <1>0, <2>1, <2>2, <2>3, <2>4, OwnersQuiet
<1>8. ASSUME NEW c \in Callers, Reuse(c) PROVE OneOwnerUsed'
  <2> DEFINE p == ref[c]
             n == Len(idle[p])
  <2>1. /\ p \in PoolIds /\ p \in UsedPools /\ held[c] = None
        /\ idle[p] \in Seq(PooledState) /\ n \in Nat \ {0}
    BY <1>8 DEF Reuse, MayClaim, TypeOK, UsedPools
  <2>2. /\ held' = [held EXCEPT ![c] = idle[p][n]]
        /\ idle' = [idle EXCEPT ![p] = SubSeq(idle[p], 1, n-1)]
        /\ UsedPools' = UsedPools
    BY <1>8 DEF Reuse, Warmest, UsedPools, Mapped
  <2>3. /\ Len(SubSeq(idle[p], 1, n-1)) = n-1 /\ DOMAIN SubSeq(idle[p], 1, n-1) = 1..n-1
        /\ \A i \in 1..n-1 : SubSeq(idle[p], 1, n-1)[i] = idle[p][i]
        /\ DOMAIN idle[p] = 1..n
    BY <2>1
  <2>4. n \in DOMAIN idle[p] /\ \A i \in 1..n-1 : i \in DOMAIN idle[p] /\ i # n
    BY <2>1, <2>3
  <2> HIDE DEF n
  <2>5. \A q \in UsedPools : \A i \in DOMAIN idle'[q] :
           i \in DOMAIN idle[q] /\ idle'[q][i] = idle[q][i] /\ ~(q = p /\ i = n)
    <3> SUFFICES ASSUME NEW q \in UsedPools, NEW i \in DOMAIN idle'[q]
                 PROVE  i \in DOMAIN idle[q] /\ idle'[q][i] = idle[q][i] /\ ~(q = p /\ i = n)
      OBVIOUS
    <3>1. CASE q = p
      <4>1. idle'[q] = SubSeq(idle[p], 1, n-1)
        BY <2>1, <2>2, <3>1 DEF TypeOK
      <4> QED
        BY <2>3, <2>4, <3>1, <4>1
    <3>2. CASE q # p
      BY <1>0, <2>2, <3>2 DEF TypeOK
    <3> QED
      BY <3>1, <3>2
  <2>6. /\ held'[c] = idle[p][n] /\ c \notin Holding
        /\ \A d \in Callers : d # c => held'[d] = held[d]
    BY <2>1, <2>2 DEF TypeOK, Holding
  <2> HIDE DEF p
  <2>7. \A d \in Holding' : (d = c /\ held'[d] = idle[p][n]) \/ (d \in Holding /\ d # c /\ held'[d] = held[d])
    BY <2>6 DEF Holding
  <2>8. \A d, e \in Holding' : held'[d].L = held'[e].L => d = e
    BY <2>1, <2>4, <2>7 DEF OneOwnerUsed
  <2>9. \A q, r \in UsedPools : \A i \in DOMAIN idle'[q], j \in DOMAIN idle'[r] :
           idle'[q][i].L = idle'[r][j].L => q = r /\ i = j
    BY <2>5 DEF OneOwnerUsed
  <2>10. \A d \in Holding', q \in UsedPools : \A i \in DOMAIN idle'[q] :
           held'[d].L # idle'[q][i].L
    BY <2>1, <2>4, <2>5, <2>7 DEF OneOwnerUsed
  <2> QED
    BY <2>2, <2>8, <2>9, <2>10 DEF OneOwnerUsed
<1>9. ASSUME NEW c \in Callers, Evict(c) PROVE OneOwnerUsed'
  <2>0. PICK p \in Mapped : \E i \in 1..Len(idle[p]) :
           p \in PoolIds /\ idle' = [idle EXCEPT ![p] = RemoveAt(idle[p], i)]
    BY <1>9, EvictVictim
  <2>1. PICK i \in 1..Len(idle[p]) :
           p \in PoolIds /\ idle' = [idle EXCEPT ![p] = RemoveAt(idle[p], i)]
    BY <2>0
  <2>2. idle[p] \in Seq(PooledState)
    BY <2>1 DEF TypeOK
  <2>3. /\ held' = held /\ UsedPools' = UsedPools
    BY <1>9 DEF Evict, UsedPools, Mapped
  <2>4. /\ Len(RemoveAt(idle[p], i)) = Len(idle[p]) - 1
        /\ RemoveAt(idle[p], i) \in Seq(PooledState)
        /\ \A j \in 1..Len(idle[p])-1 :
              RemoveAt(idle[p], i)[j] = IF j < i THEN idle[p][j] ELSE idle[p][j+1]
    BY <2>2, RemoveAtElements, RemoveAtType
  <2> DEFINE was(q, j) == IF q = p /\ j >= i THEN j + 1 ELSE j
  <2>5. \A q \in UsedPools : \A j \in DOMAIN idle'[q] :
           j \in Nat /\ was(q, j) \in DOMAIN idle[q] /\ idle'[q][j] = idle[q][was(q, j)]
    <3> SUFFICES ASSUME NEW q \in UsedPools, NEW j \in DOMAIN idle'[q]
                 PROVE  j \in Nat /\ was(q, j) \in DOMAIN idle[q] /\ idle'[q][j] = idle[q][was(q, j)]
      OBVIOUS
    <3>1. CASE q = p
      <4>1. idle'[q] = RemoveAt(idle[p], i)
        BY <2>1, <3>1 DEF TypeOK
      <4>2. j \in 1..Len(idle[p])-1
        BY <2>4, <4>1
      <4> QED
        BY <2>2, <2>4, <3>1, <4>1, <4>2
    <3>2. CASE q # p
      <4>1. idle'[q] = idle[q] /\ idle[q] \in Seq(PooledState)
        BY <1>0, <2>1, <3>2 DEF TypeOK
      <4> QED
        BY <3>2, <4>1
    <3> QED
      BY <3>1, <3>2
  <2>6. \A q \in UsedPools : \A j, l \in Nat : was(q, j) = was(q, l) => j = l
    BY <2>1
  <2> HIDE DEF was
  <2>7. \A q, r \in UsedPools : \A j \in DOMAIN idle'[q], l \in DOMAIN idle'[r] :
           idle'[q][j].L = idle'[r][l].L => q = r /\ j = l
    BY <2>5, <2>6 DEF OneOwnerUsed
  <2>8. \A d \in Holding, q \in UsedPools : \A j \in DOMAIN idle'[q] : held[d].L # idle'[q][j].L
    BY <2>5 DEF OneOwnerUsed
  <2> QED
    BY <2>3, <2>7, <2>8 DEF OneOwnerUsed, Holding
<1>10. ASSUME NEW c \in Callers, BuildDone(c) PROVE OneOwnerUsed'
  <2> DEFINE L == CHOOSE l \in StateIds \ UsedStates : TRUE
             ps == [L |-> L, version |-> version[ref[c]], idleSince |-> 0]
  <2>1. L \in StateIds /\ L \notin UsedStates
    BY <1>10 DEF BuildDone
  <2>2. /\ held' = [held EXCEPT ![c] = ps] /\ idle' = idle /\ UsedPools' = UsedPools
    BY <1>10 DEF BuildDone, UsedPools, Mapped
  <2>3. ps.L = L
    OBVIOUS
  <2> HIDE DEF L, ps
  <2>4. /\ \A d \in Holding : held[d].L # L
        /\ \A q \in UsedPools : \A i \in DOMAIN idle[q] : idle[q][i].L # L
    <3>1. \A d \in Holding : held[d].L # L
      BY <2>1 DEF UsedStates, HeldStates
    <3>2. ASSUME NEW q \in UsedPools, NEW i \in DOMAIN idle[q] PROVE idle[q][i].L # L
      <4>1. <<q, i>> \in Slots(UsedPools)
        BY DEF Slots
      <4>2. idle[q][i].L \in IdleStates(UsedPools)
        BY <4>1 DEF IdleStates, StateAt
      <4> QED
        BY <2>1, <4>2 DEF UsedStates
    <3> QED
      BY <3>1, <3>2
  <2>5. \A d \in Holding' : (d = c /\ held'[d].L = L) \/ (d \in Holding /\ d # c /\ held'[d] = held[d])
    BY <2>2, <2>3 DEF Holding, TypeOK
  <2> QED
    BY <2>2, <2>4, <2>5 DEF OneOwnerUsed
<1>11. ASSUME NEW c \in Callers, Release(c) PROVE OneOwnerUsed'
  <2>1. /\ ref[c] \in PoolIds /\ ref[c] \in UsedPools /\ c \in Holding /\ held[c] \in PooledState
    BY <1>11 DEF Release, TypeOK, Holding, UsedPools
  <2>2. /\ held' = [held EXCEPT ![c] = None] /\ ref' = [ref EXCEPT ![c] = None]
        /\ UNCHANGED <<pools, creating>>
    BY <1>11 DEF Release, Return
  <2>3. \A d \in Callers : ref'[d] \in {ref[d], None}
    BY <2>2 DEF TypeOK
  <2>4. UsedPools' \subseteq UsedPools
    BY <2>2, <2>3 DEF UsedPools, Mapped
  <2>5. \A d \in Holding' : d \in Holding /\ d # c /\ held'[d] = held[d]
    BY <2>2 DEF Holding, TypeOK
  <2>6. CASE Discards(c)
    BY <1>11, <1>a, <2>2, <2>4, <2>6 DEF Release, TypeOK
  <2>7. CASE ~Discards(c)
    <3> DEFINE ps == [held[c] EXCEPT !.idleSince = now]
    <3>1. idle' = [idle EXCEPT ![ref[c]] = Append(idle[ref[c]], ps)]
      BY <1>11, <2>7 DEF Release
    <3>2. ps.L = held[c].L
      BY <2>1 DEF PooledState
    <3> HIDE DEF ps
    <3>3. idle[ref[c]] \in Seq(PooledState)
      BY <2>1 DEF TypeOK
    <3>4. /\ \A i \in DOMAIN Append(idle[ref[c]], ps) :
                \/ i = Len(idle[ref[c]]) + 1 /\ Append(idle[ref[c]], ps)[i] = ps
                \/ i \in DOMAIN idle[ref[c]] /\ Append(idle[ref[c]], ps)[i] = idle[ref[c]][i]
      BY <3>3
    <3>5. \A q \in UsedPools : \A i \in DOMAIN idle'[q] :
             \/ q = ref[c] /\ i = Len(idle[ref[c]]) + 1 /\ idle'[q][i].L = held[c].L
             \/ i \in DOMAIN idle[q] /\ idle'[q][i] = idle[q][i]
      BY <1>0, <2>1, <3>1, <3>2, <3>4 DEF TypeOK
    <3>6. \A q, r \in UsedPools : \A j \in DOMAIN idle'[q], l \in DOMAIN idle'[r] :
             idle'[q][j].L = idle'[r][l].L => q = r /\ j = l
      BY <2>1, <3>5 DEF OneOwnerUsed
    <3>7. \A d \in Holding', q \in UsedPools : \A j \in DOMAIN idle'[q] :
             held'[d].L # idle'[q][j].L
      BY <2>1, <2>5, <3>5 DEF OneOwnerUsed
    <3> QED
      BY <2>4, <2>5, <3>6, <3>7 DEF OneOwnerUsed
  <2> QED
    BY <2>6, <2>7
<1>12. ASSUME NEW k \in Keys, NEW v \in Versions, Notify(k, v) PROVE OneOwnerUsed'
  <2>1. /\ \A j \in Keys : pools'[j] \in {pools[j], None} /\ creating'[j] \in {creating[j], None}
        /\ UNCHANGED <<ref, held>> /\ \A p \in PoolIds : idle'[p] \in {idle[p], <<>>}
    BY <1>12 DEF Notify, ForgetEntry, ForgetIdle, TypeOK
  <2>2. UsedPools' \subseteq UsedPools
    BY <2>1 DEF UsedPools, Mapped
  <2> QED
    BY <1>a, <2>1, <2>2
<1>13. CASE Sweep
  <2>1. /\ \A j \in Keys : pools'[j] \in {pools[j], None} /\ creating'[j] \in {creating[j], None}
        /\ UNCHANGED <<ref, held, idle>>
    BY <1>13 DEF Sweep
  <2>2. UsedPools' \subseteq UsedPools
    BY <2>1 DEF UsedPools, Mapped
  <2> QED
    BY <1>a, <2>1, <2>2
<1>14. CASE Close
  <2>1. UNCHANGED <<ref, held, pools, creating>> /\ \A p \in PoolIds : idle'[p] \in {idle[p], <<>>}
    BY <1>14 DEF Close, ForgetIdle
  <2>2. UsedPools' = UsedPools
    BY <2>1 DEF UsedPools, Mapped
  <2> QED
    BY <1>a, <2>1, <2>2
<1>15. ASSUME (\E k \in Keys : Publish(k)) \/ SweepStart \/ Tick PROVE OneOwnerUsed'
  BY <1>15, <1>a DEF Publish, SweepStart, Tick, UsedPools, Mapped
<1> QED
  BY <1>1, <1>2, <1>3, <1>4, <1>5, <1>6, <1>7, <1>8, <1>9, <1>10, <1>11, <1>12, <1>13, <1>14, <1>15
     DEF Next, Run, CallStep, GetPoolStep, AcquireStep, BuildStep

\* Two calls never run a script on the same Lua State, nor is a State that
\* runs one on an idle list, nor on two idle lists: acquire, release, eviction
\* and retirement hand each State from one owner to the next.  So it is even
\* when the janitor retires a pool under the calls that have it.
THEOREM OneOwnerAlways == Spec => []SingleOwner
<1>1. Init => TypeOK /\ Keyed /\ OneOwnerUsed
  <2>1. Init => OneOwnerUsed
    BY DEF Init, OneOwnerUsed, Holding, UsedPools, Mapped
  <2> QED
    BY <2>1, TypeInit
<1>2. TypeOK /\ Keyed /\ OneOwnerUsed /\ [Next]_vars => (TypeOK /\ Keyed /\ OneOwnerUsed)'
  BY TypeStep, OneOwnerUsedStep
<1>3. OneOwnerUsed => SingleOwner
  <2> SUFFICES ASSUME OneOwnerUsed PROVE SingleOwner
    OBVIOUS
  <2>1. \A s \in Slots(UsedPools) :
           s[1] \in UsedPools /\ s[2] \in DOMAIN idle[s[1]] /\ s = <<s[1], s[2]>>
    BY DEF Slots
  <2>2. \A s, t \in Slots(UsedPools) : StateAt(s).L = StateAt(t).L => s = t
    BY <2>1 DEF StateAt, OneOwnerUsed
  <2>3. \A c \in Holding, s \in Slots(UsedPools) : held[c].L # StateAt(s).L
    BY <2>1 DEF StateAt, OneOwnerUsed
  <2> QED
    BY <2>2, <2>3 DEF SingleOwner, OneOwnerUsed, HeldStates, IdleStates
<1> QED
  BY <1>1, <1>2, <1>3, PTL DEF Spec

(***************************************************************************)
(* The open States, the janitor on                                         *)
(***************************************************************************)

\* What is left after an element is removed was there before.
LEMMA RemovedElements ==
    ASSUME TypeOK, NEW p \in PoolIds, NEW i \in 1..Len(idle[p]),
           idle' = [idle EXCEPT ![p] = RemoveAt(idle[p], i)]
    PROVE  \A q \in PoolIds : \A j \in DOMAIN idle'[q] :
              \E l \in DOMAIN idle[q] : idle'[q][j] = idle[q][l] /\ (q = p => l # i)
<1>1. idle[p] \in Seq(PooledState)
  BY DEF TypeOK
<1>2. /\ Len(RemoveAt(idle[p], i)) = Len(idle[p]) - 1
      /\ RemoveAt(idle[p], i) \in Seq(PooledState)
      /\ \A j \in 1..Len(idle[p])-1 :
            RemoveAt(idle[p], i)[j] = IF j < i THEN idle[p][j] ELSE idle[p][j+1]
  BY <1>1, RemoveAtElements, RemoveAtType
<1> SUFFICES ASSUME NEW q \in PoolIds, NEW j \in DOMAIN idle'[q]
             PROVE  \E l \in DOMAIN idle[q] : idle'[q][j] = idle[q][l] /\ (q = p => l # i)
  OBVIOUS
<1>3. CASE q = p
  <2>1. idle'[q] = RemoveAt(idle[p], i)
    BY <1>3 DEF TypeOK
  <2>2. j \in 1..Len(idle[p])-1
    BY <1>2, <2>1
  <2>3. CASE j < i
    <3>1. j \in DOMAIN idle[q] /\ idle'[q][j] = idle[q][j] /\ j # i
      BY <1>1, <1>2, <1>3, <2>1, <2>2, <2>3
    <3> QED
      BY <3>1
  <2>4. CASE ~(j < i)
    <3>1. j + 1 \in DOMAIN idle[q] /\ idle'[q][j] = idle[q][j + 1] /\ j + 1 # i
      BY <1>1, <1>2, <1>3, <2>1, <2>2, <2>4
    <3> QED
      BY <3>1
  <2> QED
    BY <2>3, <2>4
<1>4. CASE q # p
  BY <1>4 DEF TypeOK
<1> QED
  BY <1>3, <1>4

\* Steps that forget States, or keep them where they are.
LEMMA PoolStatesQuiet ==
    ASSUME PoolStates,
           \A p \in PoolIds :
              \/ idle'[p] = <<>>
              \/ /\ idle'[p] = idle[p] /\ version'[p] = version[p]
                 /\ phase[p] = "ready" => phase'[p] = "ready"
                 /\ dropped'[p] => dropped[p],
           \A c \in Holding' :
              c \in Holding /\ held'[c] = held[c] /\ ref'[c] = ref[c]
              /\ version'[ref[c]] = version[ref[c]]
    PROVE  PoolStates'
<1>1. \A p \in PoolIds : dropped'[p] \/ phase'[p] # "ready" => idle'[p] = <<>>
  BY DEF PoolStates
<1>2. \A p \in PoolIds : \A i \in DOMAIN idle'[p] : idle'[p][i].version = version'[p]
  BY DEF PoolStates
<1>3. \A c \in Holding' : held'[c].version = version'[ref'[c]]
  BY DEF PoolStates
<1> QED
  BY <1>1, <1>2, <1>3 DEF PoolStates

\* Every step keeps the idle States with the pools they are of.
LEMMA PoolStatesStep ==
    ASSUME TypeOK, EntryInv, PoolStates, [Next]_vars
    PROVE  PoolStates'
<1> USE DEF callVars, mapVars, entryVars, poolVars, slotVars, waitVars, envVars
<1>0. \A c \in Holding : /\ pc[c] = "run" /\ ref[c] \in PoolIds /\ phase[ref[c]] = "ready"
                         /\ held[c] \in PooledState
  BY DEF Holding, TypeOK, EntryInv, OnceAgrees, PastGetPool
<1>a. ASSUME UNCHANGED <<idle, version, phase, dropped>>,
             \A c \in Callers : held'[c] = None \/ (held'[c] = held[c] /\ (held[c] # None => ref'[c] = ref[c]))
      PROVE  PoolStates'
  <2>1. \A c \in Holding' : c \in Holding /\ held'[c] = held[c] /\ ref'[c] = ref[c]
    BY <1>a DEF Holding
  <2> QED
    BY <1>a, <2>1, PoolStatesQuiet
<1>1. CASE UNCHANGED vars
  BY <1>1, <1>a DEF vars
<1>2. ASSUME NEW c \in Callers,
             \/ RunClosed(c) \/ CtxDone(c) \/ OnceReturn(c) \/ OnceFailed(c) \/ AcquireClosed(c)
             \/ Reserve(c) \/ Enqueue(c) \/ TakeGrant(c) \/ Bail(c) \/ WaitClosed(c) \/ BuildFails(c)
      PROVE  PoolStates'
  <2>1. UNCHANGED <<idle, version, phase, dropped>>
    BY <1>2 DEF RunClosed, CtxDone, OnceReturn, OnceFailed, AcquireClosed, Reserve, Enqueue, TakeGrant,
                Bail, WaitClosed, BuildFails, CheckOut, vars
  <2>2. \/ UNCHANGED <<held, ref>>
        \/ held' = [held EXCEPT ![c] = None] /\ ref' = [ref EXCEPT ![c] = None]
    BY <1>2 DEF RunClosed, CtxDone, OnceReturn, OnceFailed, AcquireClosed, Reserve, Enqueue, TakeGrant,
                Bail, WaitClosed, BuildFails, Return, vars
  <2>3. \A d \in Callers : held'[d] = None \/ (held'[d] = held[d] /\ (held[d] # None => ref'[d] = ref[d]))
    BY <2>2 DEF TypeOK
  <2> QED
    BY <1>a, <2>1, <2>3
<1>3. ASSUME NEW c \in Callers, NEW k \in Keys, RunHit(c, k) \/ RunJoin(c, k) PROVE PoolStates'
  <2>1. /\ UNCHANGED <<idle, version, phase, dropped, held>>
        /\ held[c] = None /\ \A d \in Callers : d # c => ref'[d] = ref[d]
    BY <1>3 DEF RunHit, RunJoin, TypeOK
  <2> QED
    BY <1>a, <2>1
<1>4. ASSUME NEW c \in Callers, NEW k \in Keys, RunCreate(c, k) PROVE PoolStates'
  <2> DEFINE p == CHOOSE q \in PoolIds \ UsedPools : TRUE
  <2>1. /\ pc[c] = "out" /\ PoolIds \ UsedPools # {}
        /\ ref' = [ref EXCEPT ![c] = p] /\ phase' = [phase EXCEPT ![p] = "new"]
        /\ idle' = [idle EXCEPT ![p] = <<>>] /\ dropped' = [dropped EXCEPT ![p] = FALSE]
        /\ UNCHANGED <<held, version>>
    BY <1>4 DEF RunCreate
  <2>2. p \in PoolIds
    BY <2>1
  <2> HIDE DEF p
  <2>3. \A q \in PoolIds : \/ idle'[q] = <<>>
                           \/ /\ idle'[q] = idle[q] /\ version'[q] = version[q]
                              /\ phase[q] = "ready" => phase'[q] = "ready"
                              /\ dropped'[q] => dropped[q]
    BY <2>1, <2>2 DEF TypeOK
  <2>4. \A d \in Holding' : d \in Holding /\ held'[d] = held[d] /\ ref'[d] = ref[d]
                            /\ version'[ref[d]] = version[ref[d]]
    BY <1>0, <2>1 DEF Holding, TypeOK
  <2> QED
    BY <2>3, <2>4, PoolStatesQuiet
<1>5. ASSUME NEW c \in Callers, LoadSource(c) \/ LoadFails(c) PROVE PoolStates'
  <2> DEFINE p == ref[c]
  <2>1. /\ p \in PoolIds /\ phase[p] = "new"
        /\ UNCHANGED <<ref, held, idle, dropped>>
        /\ \A q \in PoolIds : q # p => version'[q] = version[q] /\ phase'[q] = phase[q]
    BY <1>5 DEF LoadSource, LoadAnswer, LoadFails, TypeOK
  <2>2. idle[p] = <<>>
    BY <2>1 DEF PoolStates
  <2>3. \A d \in Holding : ref[d] \in PoolIds /\ ref[d] # p
    BY <1>0, <2>1
  <2> HIDE DEF p
  <2>4. \A d \in Holding' : d \in Holding /\ held'[d] = held[d] /\ ref'[d] = ref[d]
                            /\ version'[ref[d]] = version[ref[d]]
    BY <2>1, <2>3 DEF Holding
  <2> QED
    BY <2>1, <2>2, <2>4, PoolStatesQuiet
<1>6. ASSUME NEW c \in Callers, Register(c) PROVE PoolStates'
  <2>1. /\ UNCHANGED <<ref, held, idle, dropped, version>>
        /\ \A q \in PoolIds : phase[q] = "ready" => phase'[q] = "ready"
    BY <1>6 DEF Register, TypeOK
  <2> QED
    BY <2>1, PoolStatesQuiet DEF Holding
<1>7. ASSUME NEW c \in Callers, Reuse(c) PROVE PoolStates'
  <2> DEFINE p == ref[c]
             n == Len(idle[p])
  <2>1. /\ p \in PoolIds /\ idle[p] \in Seq(PooledState) /\ n \in Nat \ {0} /\ idle[p] # <<>>
        /\ held' = [held EXCEPT ![c] = idle[p][n]]
        /\ idle' = [idle EXCEPT ![p] = SubSeq(idle[p], 1, n - 1)]
        /\ UNCHANGED <<ref, version, phase, dropped>>
    BY <1>7 DEF Reuse, MayClaim, Warmest, TypeOK
  <2>2. n \in DOMAIN idle[p] /\ idle[p][n].version = version[p]
    BY <2>1 DEF PoolStates
  <2>3. \A i \in DOMAIN SubSeq(idle[p], 1, n - 1) :
           i \in DOMAIN idle[p] /\ SubSeq(idle[p], 1, n - 1)[i] = idle[p][i]
    BY <2>1
  <2> HIDE DEF n
  <2>4. \A q \in PoolIds : \A i \in DOMAIN idle'[q] : i \in DOMAIN idle[q] /\ idle'[q][i] = idle[q][i]
    BY <2>1, <2>3 DEF TypeOK
  <2>5. ~dropped[p] /\ phase[p] = "ready" /\ \A q \in PoolIds : q # p => idle'[q] = idle[q]
    BY <2>1 DEF PoolStates, TypeOK
  <2>6. \A d \in Holding' : \/ d = c /\ held'[d].version = version[ref[d]]
                            \/ d \in Holding /\ held'[d] = held[d]
    BY <2>1, <2>2 DEF Holding, TypeOK
  <2> QED
    BY <2>1, <2>4, <2>5, <2>6 DEF PoolStates
<1>8. ASSUME NEW c \in Callers, Evict(c) PROVE PoolStates'
  <2>1. PICK p \in Mapped : \E i \in 1..Len(idle[p]) :
           p \in PoolIds /\ idle' = [idle EXCEPT ![p] = RemoveAt(idle[p], i)]
    BY <1>8, EvictVictim
  <2>2. PICK i \in 1..Len(idle[p]) :
           p \in PoolIds /\ idle' = [idle EXCEPT ![p] = RemoveAt(idle[p], i)]
    BY <2>1
  <2>3. UNCHANGED <<ref, held, version, phase, dropped>>
    BY <1>8 DEF Evict
  <2>4. \A q \in PoolIds : \A j \in DOMAIN idle'[q] :
           \E l \in DOMAIN idle[q] : idle'[q][j] = idle[q][l] /\ (q = p => l # i)
    BY <2>2, RemovedElements, Zenon
  <2>5. idle[p] # <<>> /\ \A q \in PoolIds : q # p => idle'[q] = idle[q]
    BY <2>2 DEF TypeOK
  <2> QED
    BY <2>2, <2>3, <2>4, <2>5 DEF PoolStates, Holding
<1>9. ASSUME NEW c \in Callers, BuildDone(c) PROVE PoolStates'
  <2>1. /\ \E l : held' = [held EXCEPT ![c] = [L |-> l, version |-> version[ref[c]], idleSince |-> 0]]
        /\ UNCHANGED <<ref, idle, version, phase, dropped>>
    BY <1>9 DEF BuildDone
  <2>2. \A d \in Holding' : \/ d = c /\ held'[d].version = version[ref[d]]
                            \/ d \in Holding /\ held'[d] = held[d]
    BY <2>1 DEF Holding, TypeOK
  <2> QED
    BY <2>1, <2>2 DEF PoolStates
<1>10. ASSUME NEW c \in Callers, Release(c) PROVE PoolStates'
  <2>1. /\ c \in Holding /\ held' = [held EXCEPT ![c] = None] /\ ref' = [ref EXCEPT ![c] = None]
        /\ UNCHANGED <<version, phase, dropped>>
    BY <1>10 DEF Release, Return, TypeOK, Holding
  <2>2. \A d \in Holding' : d \in Holding /\ held'[d] = held[d] /\ ref'[d] = ref[d]
    BY <2>1 DEF Holding, TypeOK
  <2>3. CASE Discards(c)
    BY <1>10, <2>1, <2>2, <2>3, PoolStatesQuiet DEF Release
  <2>4. CASE ~Discards(c)
    <3> DEFINE p == ref[c]
               ps == [held[c] EXCEPT !.idleSince = now]
    <3>1. idle' = [idle EXCEPT ![p] = Append(idle[p], ps)]
      BY <1>10, <2>4 DEF Release
    <3>2. ps.version = version[p] /\ p \in PoolIds /\ phase[p] = "ready" /\ ~dropped[p]
      BY <1>0, <2>1, <2>4 DEF PoolStates, PooledState, Discards
    <3>3. idle[p] \in Seq(PooledState)
      BY <3>2 DEF TypeOK
    <3> HIDE DEF ps, p
    <3>4. \A i \in DOMAIN Append(idle[p], ps) :
             \/ Append(idle[p], ps)[i] = ps
             \/ i \in DOMAIN idle[p] /\ Append(idle[p], ps)[i] = idle[p][i]
      BY <3>3
    <3>5. \A q \in PoolIds : \A i \in DOMAIN idle'[q] :
             \/ q = p /\ idle'[q][i] = ps
             \/ i \in DOMAIN idle[q] /\ idle'[q][i] = idle[q][i]
      BY <3>1, <3>2, <3>4 DEF TypeOK
    <3>6. \A q \in PoolIds : q # p => idle'[q] = idle[q]
      BY <3>1 DEF TypeOK
    <3> QED
      BY <2>1, <2>2, <3>2, <3>5, <3>6 DEF PoolStates
  <2> QED
    BY <2>3, <2>4
<1>11. ASSUME NEW k \in Keys, NEW v \in Versions, Notify(k, v) PROVE PoolStates'
  <2>1. /\ UNCHANGED <<ref, held, version, phase>>
        /\ \A q \in PoolIds : idle'[q] = <<>> \/ (idle'[q] = idle[q] /\ dropped'[q] = dropped[q])
    BY <1>11 DEF Notify, ForgetIdle, TypeOK
  <2> QED
    BY <2>1, PoolStatesQuiet DEF Holding
<1>12. CASE Close
  <2>1. /\ UNCHANGED <<ref, held, version, phase, dropped>>
        /\ \A q \in PoolIds : idle'[q] = <<>> \/ idle'[q] = idle[q]
    BY <1>12 DEF Close, ForgetIdle
  <2> QED
    BY <2>1, PoolStatesQuiet DEF Holding
<1>13. ASSUME (\E k \in Keys : Publish(k)) \/ SweepStart \/ Sweep \/ Tick PROVE PoolStates'
  BY <1>13, <1>a DEF Publish, SweepStart, Sweep, Tick
<1> QED
  BY <1>1, <1>2, <1>3, <1>4, <1>5, <1>6, <1>7, <1>8, <1>9, <1>10, <1>11, <1>12, <1>13
     DEF Next, Run, CallStep, GetPoolStep, AcquireStep, BuildStep

\* Steps that close the States X, none of which a pool that is not retired keeps.
LEMMA KeptClosing ==
    ASSUME KeptOpen, NEW X, open \ X \subseteq open',
           \A c \in Holding' : ref'[c] \in Mapped' \/ dropped'[ref'[c]] =>
              \/ held'[c].L \in open'
              \/ /\ c \in Holding /\ held'[c] = held[c] /\ held[c].L \notin X
                 /\ ref[c] \in Mapped \/ dropped[ref[c]],
           \A p \in Mapped' : \A i \in DOMAIN idle'[p] :
              \/ idle'[p][i].L \in open'
              \/ \E q \in Mapped : \E j \in DOMAIN idle[q] :
                    idle'[p][i] = idle[q][j] /\ idle[q][j].L \notin X
    PROVE  KeptOpen'
<1>1. \A c \in Holding' : ref'[c] \in Mapped' \/ dropped'[ref'[c]] => held'[c].L \in open'
  BY DEF KeptOpen
<1>2. \A p \in Mapped' : \A i \in DOMAIN idle'[p] : idle'[p][i].L \in open'
  BY DEF KeptOpen
<1> QED
  BY <1>1, <1>2 DEF KeptOpen

\* Steps that close nothing and put no State anywhere.
LEMMA KeptQuiet ==
    ASSUME TypeOK, KeptOpen, open' = open, idle' = idle,
           \A p \in Mapped' : p \in Mapped \/ idle[p] = <<>>,
           \A c \in Holding' : /\ c \in Holding /\ held'[c] = held[c] /\ ref'[c] = ref[c]
                               /\ ref[c] \in Mapped' => ref[c] \in Mapped
                               /\ dropped'[ref[c]] => dropped[ref[c]]
    PROVE  KeptOpen'
<1> DEFINE X == {}
<1>1. open \ X \subseteq open'
  OBVIOUS
<1>2. \A c \in Holding' : ref'[c] \in Mapped' \/ dropped'[ref'[c]] =>
         /\ c \in Holding /\ held'[c] = held[c] /\ held[c].L \notin X
         /\ ref[c] \in Mapped \/ dropped[ref[c]]
  OBVIOUS
<1>3. \A p \in Mapped' : \A i \in DOMAIN idle'[p] :
         \E q \in Mapped : \E j \in DOMAIN idle[q] : idle'[p][i] = idle[q][j] /\ idle[q][j].L \notin X
  OBVIOUS
<1> HIDE DEF X
<1> QED
  BY <1>1, <1>2, <1>3, KeptClosing

\* Retiring pools closes no State of the others.
LEMMA KeptRetire ==
    ASSUME TypeOK, OneOwnerUsed, KeptOpen, NEW P \in SUBSET Mapped, CloseIdle(P),
           UNCHANGED <<ref, held>>,
           \A p \in Mapped' : p \in Mapped /\ (idle'[p] = <<>> \/ (p \notin P /\ idle'[p] = idle[p])),
           \A c \in Holding : ref[c] \in Mapped' \/ dropped'[ref[c]] =>
              ref[c] \in Mapped \/ dropped[ref[c]]
    PROVE  KeptOpen'
<1> DEFINE X == IdleStates(P)
<1>0. P \subseteq UsedPools /\ Mapped \subseteq UsedPools
  BY DEF UsedPools, Mapped
<1>1. \A l \in X : \E p \in P : \E i \in DOMAIN idle[p] : l = idle[p][i].L
  BY DEF IdleStates, Slots, StateAt
<1>2. open' = open \ X
  BY DEF CloseIdle
<1> HIDE DEF X
<1>3. \A c \in Holding : held[c].L \notin X
  BY <1>0, <1>1 DEF OneOwnerUsed
<1>4. \A p \in Mapped : p \notin P => \A i \in DOMAIN idle[p] : idle[p][i].L \notin X
  BY <1>0, <1>1 DEF OneOwnerUsed
<1>5. \A c \in Holding' : ref'[c] \in Mapped' \/ dropped'[ref'[c]] =>
         /\ c \in Holding /\ held'[c] = held[c] /\ held[c].L \notin X
         /\ ref[c] \in Mapped \/ dropped[ref[c]]
  BY <1>3 DEF Holding
<1>6. \A p \in Mapped' : \A i \in DOMAIN idle'[p] :
         p \in Mapped /\ i \in DOMAIN idle[p] /\ idle'[p][i] = idle[p][i] /\ idle[p][i].L \notin X
  BY <1>4
<1> QED
  BY <1>2, <1>5, <1>6, KeptClosing

\* Every step keeps open what pools have that the janitor has not retired: it
\* closes a State only where it takes it from its owner, or its pool from the map.
LEMMA KeptOpenStep ==
    ASSUME TypeOK, Keyed, EntryInv, OneOwnerUsed, PoolStates, KeptOpen, [Next]_vars
    PROVE  KeptOpen'
<1> USE DEF callVars, mapVars, entryVars, poolVars, slotVars, waitVars, envVars
<1>0. /\ Mapped \subseteq UsedPools /\ Mapped \subseteq PoolIds
      /\ \A c \in Holding : /\ pc[c] = "run" /\ ref[c] \in PoolIds /\ phase[ref[c]] = "ready"
                            /\ held[c] \in PooledState /\ ref[c] \in UsedPools
  BY DEF Holding, TypeOK, EntryInv, OnceAgrees, PastGetPool, UsedPools, Mapped
<1>a. ASSUME UNCHANGED <<open, idle, dropped, pools>>,
             \A c \in Callers : held'[c] = None \/ (held'[c] = held[c] /\ (held[c] # None => ref'[c] = ref[c]))
      PROVE  KeptOpen'
  <2>1. \A c \in Holding' : c \in Holding /\ held'[c] = held[c] /\ ref'[c] = ref[c]
    BY <1>a DEF Holding
  <2>2. Mapped' = Mapped
    BY <1>a DEF Mapped
  <2> QED
    BY <1>a, <2>1, <2>2, KeptQuiet
<1>1. CASE UNCHANGED vars
  BY <1>1, <1>a DEF vars
<1>2. ASSUME NEW c \in Callers,
             \/ RunClosed(c) \/ CtxDone(c) \/ OnceReturn(c) \/ OnceFailed(c) \/ AcquireClosed(c)
             \/ Reserve(c) \/ Enqueue(c) \/ TakeGrant(c) \/ Bail(c) \/ WaitClosed(c) \/ BuildFails(c)
      PROVE  KeptOpen'
  <2>1. UNCHANGED <<open, idle, dropped, pools>>
    BY <1>2 DEF RunClosed, CtxDone, OnceReturn, OnceFailed, AcquireClosed, Reserve, Enqueue, TakeGrant,
                Bail, WaitClosed, BuildFails, CheckOut, vars
  <2>2. \/ UNCHANGED <<held, ref>>
        \/ held' = [held EXCEPT ![c] = None] /\ ref' = [ref EXCEPT ![c] = None]
    BY <1>2 DEF RunClosed, CtxDone, OnceReturn, OnceFailed, AcquireClosed, Reserve, Enqueue, TakeGrant,
                Bail, WaitClosed, BuildFails, Return, vars
  <2>3. \A d \in Callers : held'[d] = None \/ (held'[d] = held[d] /\ (held[d] # None => ref'[d] = ref[d]))
    BY <2>2 DEF TypeOK
  <2> QED
    BY <1>a, <2>1, <2>3
<1>3. ASSUME NEW c \in Callers, NEW k \in Keys, RunHit(c, k) \/ RunJoin(c, k) PROVE KeptOpen'
  <2>1. /\ UNCHANGED <<open, idle, dropped, pools, held>>
        /\ held[c] = None /\ \A d \in Callers : d # c => ref'[d] = ref[d]
    BY <1>3 DEF RunHit, RunJoin, TypeOK
  <2> QED
    BY <1>a, <2>1
<1>4. ASSUME NEW c \in Callers, NEW k \in Keys, RunCreate(c, k) PROVE KeptOpen'
  <2> DEFINE p == CHOOSE q \in PoolIds \ UsedPools : TRUE
  <2>1. /\ pc[c] = "out" /\ PoolIds \ UsedPools # {}
        /\ ref' = [ref EXCEPT ![c] = p]
        /\ idle' = [idle EXCEPT ![p] = <<>>] /\ dropped' = [dropped EXCEPT ![p] = FALSE]
        /\ UNCHANGED <<held, pools, open>>
    BY <1>4 DEF RunCreate
  <2>2. p \in PoolIds /\ p \notin UsedPools
    BY <2>1
  <2> HIDE DEF p
  <2>3. Mapped' = Mapped /\ p \notin Mapped
    BY <1>0, <2>1, <2>2 DEF Mapped
  <2>4. \A d \in Holding' : /\ d \in Holding /\ held'[d] = held[d] /\ ref'[d] = ref[d]
                            /\ dropped'[ref[d]] = dropped[ref[d]]
    <3>1. \A d \in Holding' : d \in Holding /\ held'[d] = held[d] /\ d # c
      BY <1>0, <2>1 DEF Holding
    <3>2. \A d \in Callers : d # c => ref'[d] = ref[d]
      BY <2>1 DEF TypeOK
    <3>3. \A q \in PoolIds : q # p => dropped'[q] = dropped[q]
      BY <2>1, <2>2 DEF TypeOK
    <3>4. \A d \in Holding : dropped'[ref[d]] = dropped[ref[d]]
      BY <1>0, <2>2, <3>3
    <3> QED
      BY <3>1, <3>2, <3>4 DEF Holding
  <2>5. \A q \in Mapped' : q \in Mapped /\ idle'[q] = idle[q]
    BY <1>0, <2>1, <2>3 DEF TypeOK
  <2>6. \A d \in Holding' : ref'[d] \in Mapped' \/ dropped'[ref'[d]] => held'[d].L \in open'
    <3> SUFFICES ASSUME NEW d \in Holding', ref'[d] \in Mapped' \/ dropped'[ref'[d]]
                 PROVE  held'[d].L \in open'
      OBVIOUS
    <3>1. d \in Holding /\ held'[d] = held[d] /\ (ref[d] \in Mapped \/ dropped[ref[d]])
      BY <2>3, <2>4
    <3>2. held[d].L \in open
      BY <3>1 DEF KeptOpen
    <3> QED
      BY <2>1, <3>1, <3>2
  <2>7. \A q \in Mapped' : \A i \in DOMAIN idle'[q] : idle'[q][i].L \in open'
    BY <2>1, <2>5 DEF KeptOpen
  <2> QED
    BY <2>6, <2>7 DEF KeptOpen
<1>5. ASSUME NEW c \in Callers, LoadSource(c) \/ LoadFails(c) PROVE KeptOpen'
  BY <1>5, <1>a DEF LoadSource, LoadAnswer, LoadFails
<1>6. ASSUME NEW c \in Callers, Register(c) PROVE KeptOpen'
  <2> DEFINE p == ref[c]
  <2>1. /\ pc[c] = "load" /\ p \in PoolIds
        /\ pools' = [pools EXCEPT ![keyOf[p]] = p]
        /\ UNCHANGED <<ref, held, open, idle, dropped>>
    BY <1>6 DEF Register, TypeOK
  <2>2. phase[p] = "loading"
    BY <1>6, <2>1 DEF EntryInv, OnceAgrees
  <2>3. idle[p] = <<>> /\ \A d \in Holding : ref[d] # p
    BY <1>0, <2>1, <2>2 DEF PoolStates
  <2> HIDE DEF p
  <2>4. \A k \in Keys : pools'[k] \in {pools[k], p}
    BY <2>1 DEF TypeOK
  <2>5. Mapped' \subseteq Mapped \cup {p}
    BY <2>4 DEF Mapped
  <2>6. \A d \in Holding' : /\ d \in Holding /\ held'[d] = held[d] /\ ref'[d] = ref[d]
                            /\ ref[d] \in Mapped' => ref[d] \in Mapped
                            /\ dropped'[ref[d]] => dropped[ref[d]]
    BY <2>1, <2>3, <2>5 DEF Holding
  <2> QED
    BY <2>1, <2>3, <2>5, <2>6, KeptQuiet
<1>7. ASSUME NEW c \in Callers, Reuse(c) PROVE KeptOpen'
  <2> DEFINE p == ref[c]
             n == Len(idle[p])
  <2>1. /\ p \in PoolIds /\ idle[p] \in Seq(PooledState) /\ n \in Nat \ {0} /\ idle[p] # <<>>
        /\ held' = [held EXCEPT ![c] = idle[p][n]]
        /\ idle' = [idle EXCEPT ![p] = SubSeq(idle[p], 1, n - 1)]
        /\ UNCHANGED <<ref, pools, open, dropped>>
    BY <1>7 DEF Reuse, MayClaim, Warmest, TypeOK
  <2>2. n \in DOMAIN idle[p] /\ ~dropped[p]
    BY <2>1 DEF PoolStates
  <2>3. \A i \in DOMAIN SubSeq(idle[p], 1, n - 1) :
           i \in DOMAIN idle[p] /\ SubSeq(idle[p], 1, n - 1)[i] = idle[p][i]
    BY <2>1
  <2> HIDE DEF n
  <2>4. \A q \in PoolIds : \A i \in DOMAIN idle'[q] : i \in DOMAIN idle[q] /\ idle'[q][i] = idle[q][i]
    BY <2>1, <2>3 DEF TypeOK
  <2>5. \A d \in Holding' : \/ d = c /\ held'[d] = idle[p][n]
                            \/ d \in Holding /\ held'[d] = held[d]
    BY <2>1 DEF Holding, TypeOK
  <2>6. Mapped' = Mapped
    BY <2>1 DEF Mapped
  <2>7. \A d \in Holding' : ref'[d] \in Mapped' \/ dropped'[ref'[d]] => held'[d].L \in open'
    BY <2>1, <2>2, <2>5, <2>6 DEF KeptOpen
  <2>8. \A q \in Mapped' : \A i \in DOMAIN idle'[q] : idle'[q][i].L \in open'
    BY <1>0, <2>1, <2>4, <2>6 DEF KeptOpen
  <2> QED
    BY <2>7, <2>8 DEF KeptOpen
<1>8. ASSUME NEW c \in Callers, Evict(c) PROVE KeptOpen'
  <2>1. PICK p \in Mapped : \E i \in 1..Len(idle[p]) :
           /\ p \in PoolIds /\ idle' = [idle EXCEPT ![p] = RemoveAt(idle[p], i)]
           /\ open' = open \ {idle[p][i].L}
    BY <1>8, EvictVictim
  <2>2. PICK i \in 1..Len(idle[p]) :
           /\ p \in PoolIds /\ idle' = [idle EXCEPT ![p] = RemoveAt(idle[p], i)]
           /\ open' = open \ {idle[p][i].L}
    BY <2>1
  <2>3. UNCHANGED <<ref, held, pools, dropped>> /\ Mapped' = Mapped
    BY <1>8 DEF Evict, Mapped
  <2>4. \A q \in PoolIds : \A j \in DOMAIN idle'[q] :
           \E l \in DOMAIN idle[q] : idle'[q][j] = idle[q][l] /\ (q = p => l # i)
    BY <2>2, RemovedElements, Zenon
  <2> DEFINE X == {idle[p][i].L}
  <2>5. i \in DOMAIN idle[p] /\ p \in UsedPools
    BY <1>0, <2>2 DEF TypeOK
  <2>6. \A d \in Holding : held[d].L \notin X
    BY <2>5 DEF OneOwnerUsed
  <2>7. ASSUME NEW q \in Mapped, NEW j \in DOMAIN idle'[q]
        PROVE  \E l \in DOMAIN idle[q] : idle'[q][j] = idle[q][l] /\ idle[q][l].L \notin X
    <3>1. PICK l \in DOMAIN idle[q] : idle'[q][j] = idle[q][l] /\ (q = p => l # i)
      BY <1>0, <2>4
    <3>2. idle[q][l].L # idle[p][i].L
      BY <1>0, <2>5, <3>1 DEF OneOwnerUsed
    <3> QED
      BY <3>1, <3>2
  <2>8. open \ X \subseteq open'
    BY <2>2
  <2> HIDE DEF X
  <2>9. \A d \in Holding' : ref'[d] \in Mapped' \/ dropped'[ref'[d]] =>
           /\ d \in Holding /\ held'[d] = held[d] /\ held[d].L \notin X
           /\ ref[d] \in Mapped \/ dropped[ref[d]]
    BY <2>3, <2>6 DEF Holding
  <2>10. \A q \in Mapped' : \A j \in DOMAIN idle'[q] :
            \E r \in Mapped : \E l \in DOMAIN idle[r] : idle'[q][j] = idle[r][l] /\ idle[r][l].L \notin X
    BY <2>3, <2>7
  <2> QED
    BY <2>8, <2>9, <2>10, KeptClosing
<1>9. ASSUME NEW c \in Callers, BuildDone(c) PROVE KeptOpen'
  <2>1. PICK l : /\ held' = [held EXCEPT ![c] = [L |-> l, version |-> version[ref[c]], idleSince |-> 0]]
                 /\ open' = open \cup {l}
                 /\ UNCHANGED <<ref, pools, idle, dropped>>
    BY <1>9 DEF BuildDone
  <2>2. \A d \in Holding' : \/ d = c /\ held'[d].L = l
                            \/ d \in Holding /\ held'[d] = held[d]
    BY <2>1 DEF Holding, TypeOK
  <2>3. Mapped' = Mapped
    BY <2>1 DEF Mapped
  <2> QED
    BY <2>1, <2>2, <2>3 DEF KeptOpen
<1>10. ASSUME NEW c \in Callers, Release(c) PROVE KeptOpen'
  <2>1. /\ c \in Holding /\ held' = [held EXCEPT ![c] = None] /\ ref' = [ref EXCEPT ![c] = None]
        /\ UNCHANGED <<pools, dropped>>
    BY <1>10 DEF Release, Return, TypeOK, Holding
  <2>2. Mapped' = Mapped
    BY <2>1 DEF Mapped
  <2>3. \A d \in Holding' : d \in Holding /\ d # c /\ held'[d] = held[d] /\ ref'[d] = ref[d]
    BY <2>1 DEF Holding, TypeOK
  <2>4. CASE Discards(c)
    <3> DEFINE X == {held[c].L}
    <3>1. open' = open \ X /\ idle' = idle
      BY <1>10, <2>4 DEF Release
    <3>2. \A d \in Holding' : held[d].L \notin X
      BY <2>1, <2>3 DEF OneOwnerUsed
    <3>3. \A q \in Mapped : \A i \in DOMAIN idle[q] : idle[q][i].L \notin X
      BY <1>0, <2>1 DEF OneOwnerUsed
    <3> HIDE DEF X
    <3>4. \A d \in Holding' : ref'[d] \in Mapped' \/ dropped'[ref'[d]] =>
             /\ d \in Holding /\ held'[d] = held[d] /\ held[d].L \notin X
             /\ ref[d] \in Mapped \/ dropped[ref[d]]
      BY <2>1, <2>2, <2>3, <3>2
    <3> QED
      BY <2>2, <3>1, <3>3, <3>4, KeptClosing
  <2>5. CASE ~Discards(c)
    <3> DEFINE p == ref[c]
               ps == [held[c] EXCEPT !.idleSince = now]
    <3>1. idle' = [idle EXCEPT ![p] = Append(idle[p], ps)] /\ open' = open
      BY <1>10, <2>5 DEF Release
    <3>2. ps.L = held[c].L /\ p \in PoolIds
      BY <1>0, <2>1 DEF PooledState
    <3>3. idle[p] \in Seq(PooledState) /\ (p \in Mapped => ps.L \in open)
      BY <2>1, <3>2 DEF TypeOK, KeptOpen
    <3> HIDE DEF ps, p
    <3>4. \A i \in DOMAIN Append(idle[p], ps) :
             \/ Append(idle[p], ps)[i] = ps
             \/ i \in DOMAIN idle[p] /\ Append(idle[p], ps)[i] = idle[p][i]
      BY <3>3
    <3>5. \A q \in PoolIds : \A i \in DOMAIN idle'[q] :
             \/ q = p /\ idle'[q][i] = ps
             \/ i \in DOMAIN idle[q] /\ idle'[q][i] = idle[q][i]
      BY <3>1, <3>2, <3>4 DEF TypeOK
    <3>6. \A q \in Mapped' : \A i \in DOMAIN idle'[q] : idle'[q][i].L \in open'
      BY <1>0, <2>2, <3>1, <3>3, <3>5 DEF KeptOpen
    <3>7. \A d \in Holding' : ref'[d] \in Mapped' \/ dropped'[ref'[d]] => held'[d].L \in open'
      BY <2>1, <2>2, <2>3, <3>1 DEF KeptOpen
    <3> QED
      BY <3>6, <3>7 DEF KeptOpen
  <2> QED
    BY <2>4, <2>5
<1>11. ASSUME NEW k \in Keys, NEW v \in Versions, Notify(k, v) PROVE KeptOpen'
  <2> DEFINE P == {pools[k]}
  <2>1. /\ P \in SUBSET Mapped /\ CloseIdle(P) /\ UNCHANGED <<ref, held>>
        /\ dropped' = [dropped EXCEPT ![pools[k]] = TRUE]
        /\ pools' = [pools EXCEPT ![k] = None]
        /\ idle' = [q \in PoolIds |-> IF q \in P THEN <<>> ELSE idle[q]]
    BY <1>11 DEF Notify, ForgetIdle, Mapped
  <2>2. Mapped' \subseteq Mapped
    BY <2>1 DEF Mapped, TypeOK
  <2>3. \A q \in Mapped' : q \in Mapped /\ (idle'[q] = <<>> \/ (q \notin P /\ idle'[q] = idle[q]))
    BY <1>0, <2>1, <2>2
  <2>4. \A d \in Holding : ref[d] \in Mapped' \/ dropped'[ref[d]] => ref[d] \in Mapped \/ dropped[ref[d]]
    BY <1>0, <2>1, <2>2 DEF TypeOK
  <2> HIDE DEF P
  <2> QED
    BY <2>1, <2>3, <2>4, KeptRetire
<1>12. CASE Sweep
  <2>1. /\ Expired \in SUBSET Mapped /\ CloseIdle(Expired) /\ UNCHANGED <<ref, held, dropped, idle>>
        /\ Mapped' = Mapped \ Expired
    BY <1>12, SweptMap DEF Sweep, Expired
  <2> QED
    BY <2>1, KeptRetire
<1>13. CASE Close
  <2>1. /\ Mapped \in SUBSET Mapped /\ CloseIdle(Mapped) /\ UNCHANGED <<ref, held, dropped>>
        /\ Mapped' = Mapped
        /\ \A q \in PoolIds : q \in Mapped => idle'[q] = <<>>
    BY <1>13 DEF Close, ForgetIdle, Mapped
  <2> QED
    BY <1>0, <2>1, KeptRetire
<1>14. ASSUME (\E k \in Keys : Publish(k)) \/ SweepStart \/ Tick PROVE KeptOpen'
  BY <1>14, <1>a DEF Publish, SweepStart, Tick
<1> QED
  BY <1>1, <1>2, <1>3, <1>4, <1>5, <1>6, <1>7, <1>8, <1>9, <1>10, <1>11, <1>12, <1>13, <1>14
     DEF Next, Run, CallStep, GetPoolStep, AcquireStep, BuildStep

\* Once a Runtime is closed it only loses States: nothing is reserved any more.
LEMMA ClosedShrinks ==
    ASSUME TypeOK, closed, [Next]_vars
    PROVE  /\ closed'
           /\ Cardinality(open') + Cardinality(Building')
                <= Cardinality(open) + Cardinality(Building)
<1> USE DEF callVars, mapVars, entryVars, poolVars, slotVars, waitVars, envVars
<1>a. ASSUME open' \subseteq open, Building' \subseteq Building
      PROVE  Cardinality(open') + Cardinality(Building') <= Cardinality(open) + Cardinality(Building)
  <2>1. /\ Cardinality(open') \in Nat /\ Cardinality(open') <= Cardinality(open)
        /\ Cardinality(Building') \in Nat /\ Cardinality(Building') <= Cardinality(Building)
    BY <1>a, Finite, FS_Subset, FS_CardinalityType
  <2> QED
    BY <2>1, Finite
<1>1. ASSUME NEW c \in Callers, BuildDone(c)
      PROVE  Cardinality(open') + Cardinality(Building') <= Cardinality(open) + Cardinality(Building)
  <2> DEFINE L == CHOOSE l \in StateIds \ UsedStates : TRUE
  <2>1. L \notin open /\ open' = open \cup {L}
    BY <1>1 DEF BuildDone, UsedStates
  <2>2. Building' = Building \ {c} /\ c \in Building
    BY <1>1 DEF BuildDone, Goto, Building, TypeOK
  <2> HIDE DEF L
  <2>3. Cardinality(open') = Cardinality(open) + 1
    BY <2>1, Finite, FS_AddElement
  <2>4. Cardinality(Building') = Cardinality(Building) - 1
    BY <2>2, Finite, FS_RemoveElement
  <2> QED
    BY <2>3, <2>4, Finite
<1>2. ASSUME NEW c \in Callers, \E l : l # "build" /\ pc' = [pc EXCEPT ![c] = l]
      PROVE  Building' \subseteq Building
  BY <1>2 DEF Building, TypeOK
<1>3. ASSUME pc' = pc PROVE Building' \subseteq Building
  BY <1>3 DEF Building
<1>4. ASSUME NEW c \in Callers, CtxDone(c) \/ CallStep(c), ~BuildDone(c)
      PROVE  open' \subseteq open /\ Building' \subseteq Building
  <2>1. open' \subseteq open
    BY <1>4 DEF CtxDone, CallStep, GetPoolStep, LoadSource, LoadAnswer, LoadFails, Register, OnceReturn,
         OnceFailed, AcquireStep, AcquireClosed, Reuse, Reserve, Evict, Enqueue, TakeGrant, Bail,
         WaitClosed, BuildStep, BuildFails, Release
  <2>2. pc' = pc \/ \E l : l # "build" /\ pc' = [pc EXCEPT ![c] = l]
    BY <1>4 DEF CtxDone, CallStep, GetPoolStep, LoadSource, LoadAnswer, LoadFails, Register, OnceReturn,
         OnceFailed, AcquireStep, AcquireClosed, Reuse, Reserve, MayClaim, Evict, Enqueue, TakeGrant,
         Bail, WaitClosed, BuildStep, BuildFails, Release, Goto, Return
  <2> QED
    BY <1>2, <1>3, <2>1, <2>2
<1>5. ASSUME NEW k \in Keys, NEW v \in Versions, Notify(k, v)
      PROVE  open' \subseteq open /\ Building' \subseteq Building
  BY <1>3, <1>5 DEF Notify, CloseIdle
<1>6. ASSUME UNCHANGED vars \/ (\E c \in Callers : RunClosed(c)) \/ (\E k \in Keys : Publish(k))
             \/ SweepStart \/ Sweep \/ Tick
      PROVE  open' \subseteq open /\ Building' \subseteq Building
  BY <1>3, <1>6 DEF RunClosed, Publish, SweepStart, Sweep, CloseIdle, Tick, vars
<1>7. ASSUME NEW c \in Callers, NEW k \in Keys, Run(c, k) PROVE FALSE
  BY <1>7 DEF Run, RunHit, RunJoin, RunCreate
<1>8. ~Close
  BY DEF Close
<1>9. closed'
  <2>1. ASSUME NEW c \in Callers, CtxDone(c) \/ CallStep(c) PROVE closed' = closed
    <3>1. ASSUME GetPoolStep(c) PROVE closed' = closed
      BY <3>1 DEF GetPoolStep, LoadSource, LoadAnswer, LoadFails, Register, OnceReturn, OnceFailed
    <3>2. ASSUME AcquireStep(c) PROVE closed' = closed
      BY <3>2 DEF AcquireStep, AcquireClosed, Reuse, Reserve, Evict, Enqueue, TakeGrant, Bail, WaitClosed
    <3>3. ASSUME CtxDone(c) \/ BuildStep(c) \/ Release(c) PROVE closed' = closed
      BY <3>3 DEF CtxDone, BuildStep, BuildDone, BuildFails, Release
    <3> QED
      BY <2>1, <3>1, <3>2, <3>3 DEF CallStep
  <2>2. ASSUME NEW k \in Keys, NEW v \in Versions, Notify(k, v) PROVE closed' = closed
    BY <2>2 DEF Notify
  <2>3. ASSUME UNCHANGED vars \/ (\E c \in Callers : RunClosed(c)) \/ (\E k \in Keys : Publish(k))
               \/ SweepStart \/ Sweep \/ Tick
        PROVE  closed' = closed
    BY <2>3 DEF RunClosed, Publish, SweepStart, Sweep, Tick, vars
  <2> QED
    BY <1>7, <1>8, <2>1, <2>2, <2>3 DEF Next
<1>10. CASE \E c \in Callers : BuildDone(c)
  BY <1>1, <1>9, <1>10
<1>11. CASE ~\E c \in Callers : BuildDone(c)
  <2> SUFFICES open' \subseteq open /\ Building' \subseteq Building
    BY <1>a, <1>9
  <2>1. CASE UNCHANGED vars
    BY <1>6, <2>1
  <2>2. ASSUME NEW c \in Callers, CtxDone(c) \/ CallStep(c)
        PROVE  open' \subseteq open /\ Building' \subseteq Building
    BY <1>4, <1>11, <2>2
  <2>3. CASE Next
    BY <1>5, <1>6, <1>7, <1>8, <2>2, <2>3 DEF Next
  <2> QED
    BY <2>1, <2>3
<1> QED
  BY <1>10, <1>11

\* Every step keeps the count until Close, and the cap before and after.
LEMMA OpenWithinCapStep ==
    ASSUME TypeOK, TypeOK', OneOwnerUsed, PoolStates, KeptOpen, OpenWithinCap, [Next]_vars
    PROVE  OpenWithinCap'
<1>0. /\ live \in Int /\ MaxStates \in Nat
      /\ Cardinality(open) \in Nat /\ Cardinality(Building) \in Nat
  BY ConfigAssumption, Finite DEF TypeOK
<1>1. CASE ~closed
  <2>1. IdleSound
    <3>1. Mapped \subseteq UsedPools
      BY DEF UsedPools, Mapped
    <3> QED
      BY <3>1 DEF IdleSound, OneOwnerUsed, KeptOpen
  <2>2. \A c \in Callers : pc[c] = "run" /\ Discards(c) => held[c].L \in open
    <3>1. \A c \in Callers : pc[c] = "run" => c \in Holding
      BY DEF TypeOK, Holding
    <3> QED
      BY <1>1, <3>1 DEF Discards, PoolStates, KeptOpen
  <2>3. Surplus' = Surplus
    BY <2>1, <2>2, CountMoves
  <2>4. Surplus = 0 /\ live <= MaxStates
    BY <1>0, <1>1 DEF Surplus, OpenWithinCap
  <2>5. live' - (Cardinality(open)' + Cardinality(Building)') = 0
    BY <2>3, <2>4 DEF Surplus
  <2>6. live' = Cardinality(open)' + Cardinality(Building)'
    BY <2>5, FiniteNext
  <2>7. live' <= MaxStates
    BY <1>0, <2>4, FiniteNext, LiveGrows
  <2> QED
    BY <2>6, <2>7 DEF OpenWithinCap
<1>2. CASE closed
  <2>1. closed' /\ Cardinality(open') + Cardinality(Building')
                     <= Cardinality(open) + Cardinality(Building)
    BY <1>2, ClosedShrinks
  <2>2. Cardinality(open') \in Nat /\ Cardinality(Building') \in Nat
    BY FiniteNext
  <2>3. Cardinality(open) + Cardinality(Building) <= MaxStates
    BY DEF OpenWithinCap
  <2>4. Cardinality(open') + Cardinality(Building') <= MaxStates
    BY <1>0, <2>1, <2>2, <2>3
  <2> QED
    BY <2>1, <2>4 DEF OpenWithinCap
<1> QED
  BY <1>1, <1>2

\* The Lua States that exist or are being built never exceed MaxStates, and live
\* counts them exactly until Close (acquire, release, sweep, dropPoolLocked): the
\* janitor's race makes scripts run on closed States, and Shutdown wait for ever,
\* but it cannot make the Runtime use more memory than its budget.
THEOREM OpenStatesCapped == Spec => []OpenWithinCap
<1> DEFINE Inv == /\ TypeOK /\ Keyed /\ EntryInv /\ OneOwnerUsed
                  /\ PoolStates /\ KeptOpen /\ OpenWithinCap
<1>1. Init => Inv
  <2> SUFFICES ASSUME Init PROVE Inv
    OBVIOUS
  <2>1. TypeOK /\ Keyed
    BY TypeInit
  <2>2. EntryInv /\ OneOwnerUsed
    BY DEF Init, EntryInv, OnceAgrees, LoadingCurrent, MapsAgree, PastGetPool, OneOwnerUsed, Holding,
           UsedPools, Mapped
  <2>3. PoolStates /\ KeptOpen
    BY DEF Init, PoolStates, KeptOpen, Holding, Mapped
  <2>4. OpenWithinCap
    <3>1. open = {} /\ Building = {} /\ live = 0
      BY DEF Init, Building
    <3> QED
      BY <3>1, FS_EmptySet, ConfigAssumption DEF OpenWithinCap
  <2> QED
    BY <2>1, <2>2, <2>3, <2>4
<1>2. Inv /\ [Next]_vars => Inv'
  <2> SUFFICES ASSUME Inv, [Next]_vars PROVE Inv'
    OBVIOUS
  <2>1. TypeOK' /\ Keyed'
    BY TypeStep
  <2>2. EntryInv'
    BY EntryInvStep
  <2>3. OneOwnerUsed'
    BY OneOwnerUsedStep
  <2>4. PoolStates'
    BY PoolStatesStep
  <2>5. KeptOpen'
    BY KeptOpenStep
  <2>6. OpenWithinCap'
    BY <2>1, OpenWithinCapStep
  <2> QED
    BY <2>1, <2>2, <2>3, <2>4, <2>5, <2>6
<1>3. Inv => OpenWithinCap
  OBVIOUS
<1> HIDE DEF Inv
<1> QED
  BY <1>1, <1>2, <1>3, PTL DEF Spec

(***************************************************************************)
(* Cap and life of the pools, apart from the janitor's race                *)
(***************************************************************************)

\* Nothing is mapped, idle, open or counted when a Runtime is new.
LEMMA SafetyInit ==
    ASSUME Init
    PROVE  SafetyInv
<1>0. Mapped = {} /\ UsedPools = {}
  BY DEF Init, UsedPools, Mapped
<1>1. Building = {} /\ Holding = {} /\ HeldStates = {} /\ open = {} /\ live = 0
  BY DEF Init, Building, Holding, HeldStates
<1>2. \A p \in PoolIds : idle[p] = <<>> /\ DOMAIN idle[p] = {}
  BY DEF Init
<1>3. LiveCounts
  BY <1>1, FS_EmptySet, ConfigAssumption DEF LiveCounts
<1>4. OneOwner /\ OpenIsOwned
  BY <1>0, <1>1, <1>2 DEF OneOwner, OpenIsOwned
<1>5. IdleOnlyInMap
  BY <1>0, <1>2 DEF IdleOnlyInMap
<1>6. EntryLife
  BY DEF Init, EntryLife, EntryInv, OnceAgrees, LoadingCurrent, ReadyCurrent, MapsAgree, PastGetPool
<1>7. Keyed
  BY TypeInit
<1>8. QueueInv
  BY DEF Init, QueueInv, InQueue
<1> QED
  BY <1>3, <1>4, <1>5, <1>6, <1>7, <1>8 DEF SafetyInv

\* A step that changes nothing is no sweep.
LEMMA StutterIsApart ==
    ASSUME TypeOK, [Next /\ SweepApart]_vars
    PROVE  [Next]_vars /\ SweepApart
BY NoneAssumption DEF SweepApart, Sweep, vars, envVars, TypeOK

\* IInv is an invariant: each part is kept by every step, given the others.
THEOREM Safety == ApartSpec => []IInv
<1>1. Init => IInv
  BY TypeInit, SafetyInit DEF IInv
<1>2. IInv /\ [Next /\ SweepApart]_vars => IInv'
  <2> SUFFICES ASSUME IInv, [Next /\ SweepApart]_vars PROVE IInv'
    OBVIOUS
  <2>0. [Next]_vars /\ SweepApart
    BY StutterIsApart DEF IInv
  <2>1. /\ TypeOK /\ Keyed /\ EntryLife /\ IdleOnlyInMap
        /\ Owned /\ LiveCounts /\ QueueInv
    BY DEF IInv, SafetyInv, Owned
  <2>2. TypeOK' /\ Keyed'
    BY <2>0, <2>1, TypeStep
  <2>3. EntryLife'
    BY <2>0, <2>1, EntryLifeStep
  <2>4. IdleOnlyInMap'
    BY <2>0, <2>1, IdleOnlyInMapStep
  <2>5. Owned'
    BY <2>0, <2>1, OwnedStep
  <2>6. LiveCounts'
    BY <2>0, <2>1, <2>2, LiveCountsStep
  <2>7. QueueInv'
    BY <2>0, <2>1, QueueStep
  <2> QED
    BY <2>2, <2>3, <2>4, <2>5, <2>6, <2>7 DEF IInv, SafetyInv, Owned
<1> QED
  BY <1>1, <1>2, PTL DEF ApartSpec

\* A script always runs on a State that has not been closed: neither an
\* eviction, a notification nor Close reaches a State that is checked out.
THEOREM NeverRunsOnClosed == ApartSpec => []HandedOutOpen
<1>1. IInv => HandedOutOpen
  BY DEF IInv, SafetyInv, OpenIsOwned, HandedOutOpen
<1> QED
  BY <1>1, Safety, PTL

\* MaxStates is a hard cap: the States that exist and those being built are
\* never more, whatever notifications, failures, timeouts and hand-offs do.
THEOREM CapHolds == ApartSpec => []CapRespected
<1>1. IInv => CapRespected
  <2> SUFFICES ASSUME IInv PROVE CapRespected
    OBVIOUS
  <2>1. open \cup HeldStates = open
    BY DEF IInv, SafetyInv, OpenIsOwned
  <2> QED
    BY <2>1 DEF IInv, SafetyInv, LiveCounts, CapRespected
<1> QED
  BY <1>1, Safety, PTL

\* A pool that has left the map while calls still refer to it keeps no idle
\* State: nothing would ever close one.
THEOREM RetiredEmpty == ApartSpec => []RetiredPoolsAreEmpty
<1>1. IInv => RetiredPoolsAreEmpty
  BY DEF IInv, SafetyInv, IdleOnlyInMap, RetiredPoolsAreEmpty, TypeOK, UsedPools, Mapped
<1> QED
  BY <1>1, Safety, PTL

\* Once a closed Runtime has no call in flight, every State has been closed and
\* every slot given back, so that Shutdown returns.
THEOREM ClosedIsClean == ApartSpec => []ClosedLeavesNoState
<1>1. IInv => ClosedLeavesNoState
  <2> SUFFICES ASSUME IInv, closed, \A c \in Callers : pc[c] = "out"
               PROVE  live = 0 /\ open = {}
    BY DEF ClosedLeavesNoState
  <2>1. Building = {} /\ Holding = {} /\ HeldStates = {}
    BY DEF IInv, TypeOK, Building, Holding, HeldStates
  <2>2. \A p \in Mapped : DOMAIN idle[p] = {}
    BY DEF IInv, SafetyInv, IdleOnlyInMap
  <2>3. open = {}
    BY <2>1, <2>2 DEF IInv, SafetyInv, OpenIsOwned
  <2> QED
    BY <2>1, <2>3, FS_EmptySet DEF IInv, SafetyInv, LiveCounts
<1> QED
  BY <1>1, Safety, PTL

\* live is the number of idle States and of callers that hold a slot.
LEMMA LiveSum ==
    ASSUME IInv
    PROVE  LiveIsIdlePlusInUse
<1>1. TypeOK /\ Owned /\ LiveCounts /\ IdleOnlyInMap
  BY DEF IInv, SafetyInv, Owned
<1>2. Mapped \in SUBSET PoolIds
  BY <1>1 DEF TypeOK, Mapped
<1>3. /\ IdleStates(Mapped) \subseteq open /\ IsFiniteSet(IdleStates(Mapped))
      /\ Cardinality(IdleStates(Mapped)) = Cardinality(Slots(Mapped))
  BY <1>1, OwnedIdle, RetiredStates
<1>4. \A s \in Slots(Mapped) :
         s[1] \in Mapped /\ s[2] \in DOMAIN idle[s[1]]
  BY DEF Slots
<1>5. open = HeldStates \cup IdleStates(Mapped)
  <2>1. ASSUME NEW p \in Mapped, NEW i \in DOMAIN idle[p]
        PROVE  idle[p][i].L \in IdleStates(Mapped)
    <3>1. <<p, i>> \in Slots(Mapped)
      BY <2>1 DEF Slots
    <3> QED
      BY <3>1 DEF IdleStates, StateAt
  <2> QED
    BY <1>1, <1>3, <2>1 DEF Owned, OpenIsOwned
<1>6. HeldStates \cap IdleStates(Mapped) = {}
  BY <1>1, <1>4 DEF Owned, OneOwner, HeldStates, IdleStates, StateAt
<1>7. /\ IsFiniteSet(Holding) /\ IsFiniteSet(HeldStates)
      /\ Cardinality(HeldStates) = Cardinality(Holding)
  <2> DEFINE f == [c \in Holding |-> held[c].L]
  <2>1. f \in Bijection(Holding, HeldStates)
    <3>1. f \in Surjection(Holding, HeldStates)
      BY DEF Surjection, HeldStates
    <3>2. f \in Injection(Holding, HeldStates)
      <4>1. \A c, d \in Holding : f[c] = f[d] => c = d
        BY <1>1 DEF Owned, OneOwner
      <4>2. f \in [Holding -> HeldStates]
        BY DEF HeldStates
      <4> HIDE DEF f
      <4> QED
        BY <4>1, <4>2 DEF Injection, IsInjective
    <3> QED
      BY <3>1, <3>2 DEF Bijection
  <2>2. ExistsBijection(Holding, HeldStates)
    BY <2>1 DEF ExistsBijection
  <2>3. IsFiniteSet(Holding)
    BY FinitenessAssumption, FS_Subset DEF Holding
  <2> QED
    BY <2>2, <2>3, FS_Bijection
<1>8. Cardinality(open) = Cardinality(Holding) + Cardinality(Slots(Mapped))
  <2>1. Cardinality(HeldStates \cup IdleStates(Mapped))
           = Cardinality(HeldStates) + Cardinality(IdleStates(Mapped))
             - Cardinality(HeldStates \cap IdleStates(Mapped))
    BY <1>3, <1>7, FS_Union
  <2>2. Cardinality(HeldStates \cap IdleStates(Mapped)) = 0
    BY <1>6, FS_EmptySet
  <2>3. Cardinality(HeldStates) \in Nat /\ Cardinality(IdleStates(Mapped)) \in Nat
    BY <1>3, <1>7, FS_CardinalityType
  <2> QED
    BY <1>3, <1>5, <1>7, <2>1, <2>2, <2>3
<1>9. Cardinality(InUse) = Cardinality(Holding) + Cardinality(Building)
  <2>1. InUse = Holding \cup Building /\ Holding \cap Building = {}
    BY <1>1 DEF InUse, Holding, Building, TypeOK
  <2>2. IsFiniteSet(Building)
    BY <1>1, Finite
  <2>3. Cardinality(Holding \cup Building)
           = Cardinality(Holding) + Cardinality(Building) - Cardinality(Holding \cap Building)
    BY <1>7, <2>2, FS_Union
  <2>4. Cardinality(Holding) \in Nat /\ Cardinality(Building) \in Nat
    BY <1>7, <2>2, FS_CardinalityType
  <2>5. Cardinality(Holding \cap Building) = 0
    BY <2>1, FS_EmptySet
  <2> QED
    BY <2>1, <2>3, <2>4, <2>5
<1>10. live = Cardinality(open) + Cardinality(Building)
  BY <1>1 DEF LiveCounts
<1>11. /\ Cardinality(Holding) \in Nat /\ Cardinality(Building) \in Nat
       /\ Cardinality(Slots(Mapped)) \in Nat
  <2>1. idle \in [PoolIds -> Seq(PooledState)]
    BY <1>1 DEF TypeOK
  <2> QED
    BY <1>1, <1>2, <1>7, <2>1, Finite, SlotsFinite, FS_CardinalityType
<1>12. live = Cardinality(Slots(Mapped)) + Cardinality(InUse)
  BY <1>8, <1>9, <1>10, <1>11
<1> QED
  BY <1>12 DEF LiveIsIdlePlusInUse

\* Runtime.live counts the existing States: the idle ones of the map's pools
\* and those in use (Stats' idle and inUse add up to it).
THEOREM LiveIsExact == ApartSpec => []LiveIsIdlePlusInUse
<1>1. IInv => LiveIsIdlePlusInUse
  BY LiveSum
<1> QED
  BY <1>1, Safety, PTL

(***************************************************************************)
(* No lost wakeup                                                          *)
(***************************************************************************)

\* Claimants stay as many when at most one leaves and another one joins.
LEMMA ClaimantsMove ==
    ASSUME MaxStates <= Cardinality(Claimants),
           \/ Claimants \subseteq Claimants'
           \/ \E c, w : w \notin Claimants /\ (Claimants \ {c}) \cup {w} \subseteq Claimants'
    PROVE  MaxStates <= Cardinality(Claimants')
<1>1. /\ IsFiniteSet(Claimants) /\ Cardinality(Claimants) \in Nat
      /\ IsFiniteSet(Claimants') /\ Cardinality(Claimants') \in Nat
  BY FinitenessAssumption, FS_Subset, FS_CardinalityType DEF Claimants, InUse, GrantsInFlight
<1>2. CASE Claimants \subseteq Claimants'
  BY <1>1, <1>2, FS_Subset, ConfigAssumption
<1>3. ASSUME NEW c, NEW w, w \notin Claimants, (Claimants \ {c}) \cup {w} \subseteq Claimants'
      PROVE  Cardinality(Claimants) <= Cardinality(Claimants')
  <2> DEFINE T == Claimants \ {c}
  <2>1. /\ IsFiniteSet(T) /\ Cardinality(T) \in Nat
        /\ Cardinality(Claimants) <= Cardinality(T) + 1
    BY <1>1, FS_RemoveElement, FS_CardinalityType
  <2>2. /\ Cardinality(T \cup {w}) = Cardinality(T) + 1
    BY <1>3, <2>1, FS_AddElement
  <2>3. Cardinality(T \cup {w}) <= Cardinality(Claimants')
    BY <1>1, <1>3, FS_Subset
  <2> QED
    BY <1>1, <2>1, <2>2, <2>3
<1> QED
  BY <1>1, <1>2, <1>3, ConfigAssumption

\* Every step keeps each slot claimed while others are queued.
LEMMA ClaimedStep ==
    ASSUME IInv, AllClaimed, [Next]_vars
    PROVE  AllClaimed'
<1> SUFFICES ASSUME waiters' # <<>>, ~closed' PROVE MaxStates <= Cardinality(Claimants')
  BY DEF AllClaimed
<1> USE DEF callVars, mapVars, entryVars, poolVars, slotVars, waitVars, envVars
<1> TypeOK /\ QueueInv
  BY DEF IInv, SafetyInv
<1> DEFINE Goal == MaxStates <= Cardinality(Claimants')
<1>0. ASSUME waiters # <<>>, ~closed,
             \/ Claimants \subseteq Claimants'
             \/ \E c, w : w \notin Claimants /\ (Claimants \ {c}) \cup {w} \subseteq Claimants'
      PROVE  Goal
  BY <1>0, ClaimantsMove DEF AllClaimed
\* Nobody moves, and hand-offs are only added.
<1>1. ASSUME UNCHANGED <<pc, granted>>, waiters # <<>>, ~closed, signalled \subseteq signalled'
      PROVE  Goal
  BY <1>0, <1>1 DEF Claimants, InUse, GrantsInFlight
\* One caller moves, whose claim, if it has one, goes with it.
<1>2. ASSUME NEW c \in Callers, waiters # <<>>, ~closed,
             \A d \in Callers \ {c} : pc'[d] = pc[d] /\ granted'[d] = granted[d],
             \A d \in signalled \ {c} : d \in signalled',
             c \in Claimants => c \in Claimants'
      PROVE  Goal
  BY <1>0, <1>2 DEF Claimants, InUse, GrantsInFlight
<1>3. ASSUME NEW c \in Callers,
             LoadSource(c) \/ Register(c) \/ OnceReturn(c) \/ OnceFailed(c)
      PROVE  Goal
  <2>1. /\ pc[c] \in {"once", "load"} /\ UNCHANGED <<waiters, signalled, closed>>
        /\ \E l : pc' = [pc EXCEPT ![c] = l]
        /\ granted' = granted \/ granted' = [granted EXCEPT ![c] = FALSE]
    BY <1>3 DEF LoadSource, LoadAnswer, Register, OnceReturn, OnceFailed, Goto, Return
  <2> QED
    BY <1>2, <2>1 DEF TypeOK, Claimants, InUse, GrantsInFlight
<1>4. ASSUME NEW c \in Callers, NEW k \in Keys, Run(c, k) PROVE Goal
  <2>1. /\ pc[c] = "out" /\ UNCHANGED <<granted, waiters, signalled, closed>>
        /\ \E l : pc' = [pc EXCEPT ![c] = l]
    BY <1>4 DEF Run, RunHit, RunJoin, RunCreate, Goto
  <2> QED
    BY <1>2, <2>1 DEF TypeOK, Claimants, InUse, GrantsInFlight
<1>5. ASSUME NEW c \in Callers, Reuse(c) \/ Reserve(c) PROVE Goal
  <2>1. /\ UNCHANGED <<waiters, signalled, closed>>
        /\ granted' = [granted EXCEPT ![c] = FALSE]
        /\ \E l \in {"run", "build"} : pc' = [pc EXCEPT ![c] = l]
    BY <1>5 DEF Reuse, Reserve, Goto
  <2> QED
    BY <1>2, <2>1 DEF TypeOK, Claimants, InUse
<1>6. ASSUME NEW c \in Callers, BuildDone(c) \/ CtxDone(c) \/ TakeGrant(c) PROVE Goal
  <2>1. CASE BuildDone(c)
    BY <1>2, <2>1 DEF BuildDone, Goto, TypeOK, Claimants, InUse
  <2>2. CASE CtxDone(c)
    BY <1>2, <2>2 DEF CtxDone, Goto, TypeOK, Claimants, InUse, GrantsInFlight
  <2>3. CASE TakeGrant(c)
    BY <1>2, <2>3 DEF TakeGrant, Goto, TypeOK, Claimants, GrantsInFlight
  <2> QED
    BY <1>6, <2>1, <2>2, <2>3
<1>7. ASSUME NEW c \in Callers, Enqueue(c) PROVE Goal
  <2>1. /\ pc[c] = "acquire" /\ ~closed /\ closed' = closed /\ signalled' = signalled
        /\ pc' = [pc EXCEPT ![c] = "wait"] /\ granted' = [granted EXCEPT ![c] = FALSE]
    BY <1>7 DEF Enqueue, Goto
  <2>2. CASE ~granted[c] /\ waiters # <<>>
    BY <1>2, <2>1, <2>2 DEF TypeOK, Claimants, InUse, GrantsInFlight
  <2>3. CASE ~Room /\ Slots(Mapped) = {}
    <3>1. live = 0 + Cardinality(InUse)
      BY <2>3, LiveSum, FS_EmptySet DEF LiveIsIdlePlusInUse
    <3>2. InUse \subseteq Claimants'
      BY <2>1 DEF TypeOK, Claimants, InUse
    <3>3. /\ IsFiniteSet(Claimants') /\ Cardinality(Claimants') \in Nat
          /\ Cardinality(InUse) <= Cardinality(Claimants') /\ Cardinality(InUse) \in Nat
      BY <3>2, FinitenessAssumption, FS_Subset, FS_CardinalityType
         DEF Claimants, InUse, GrantsInFlight
    <3> QED
      BY <2>3, <3>1, <3>3, ConfigAssumption DEF Room, TypeOK
  <2> QED
    BY <1>7, <2>2, <2>3 DEF Enqueue
\* A call gives its slot to the first waiter, or passes its hand-off on.
<1>8. ASSUME NEW c \in Callers, waiters # <<>>, ~closed, waiters[1] # c,
             waiters[1] \in signalled', \A d \in signalled \ {c} : d \in signalled',
             \A d \in Callers \ {c} : pc'[d] = pc[d] /\ granted'[d] = granted[d]
      PROVE  Goal
  <2>1. waiters[1] \in Callers /\ InQueue(waiters[1])
    BY <1>8 DEF InQueue, TypeOK
  <2>2. pc[waiters[1]] \in {"wait", "bail"} /\ waiters[1] \notin signalled
    BY <1>8, <2>1 DEF QueueInv
  <2>3. waiters[1] \notin Claimants
    BY <2>2 DEF Claimants, InUse, GrantsInFlight
  <2>4. waiters[1] \in Claimants'
    BY <1>8, <2>1, <2>2 DEF Claimants, GrantsInFlight
  <2>5. Claimants \ {c} \subseteq Claimants'
    BY <1>8 DEF Claimants, InUse, GrantsInFlight
  <2> QED
    BY <1>0, <1>8, <2>3, <2>4, <2>5
<1>9. ASSUME NEW c \in Callers, Release(c) \/ BuildFails(c) PROVE Goal
  <2>1. /\ pc[c] \in {"run", "build"} /\ closed' = closed /\ WakeWaiters(1)
        /\ pc' = [pc EXCEPT ![c] = "out"] /\ granted' = [granted EXCEPT ![c] = FALSE]
    BY <1>9 DEF Release, BuildFails, Return, WakeWaiter
  <2>2. waiters # <<>> /\ signalled \subseteq signalled' /\ waiters[1] \in signalled'
    BY <2>1, WakeQueue
  <2>3. waiters[1] # c
    <3>1. InQueue(waiters[1]) /\ waiters[1] \in Callers
      BY <2>2 DEF InQueue, TypeOK
    <3> QED
      BY <2>1, <3>1 DEF QueueInv
  <2> QED
    BY <1>8, <2>1, <2>2, <2>3 DEF TypeOK
<1>10. ASSUME NEW c \in Callers, Bail(c) PROVE Goal
  <2>1. /\ pc[c] = "bail" /\ pc' = [pc EXCEPT ![c] = "out"] /\ closed' = closed
        /\ granted' = [granted EXCEPT ![c] = FALSE]
    BY <1>10 DEF Bail, Return
  <2>2. CASE InQueue(c) /\ signalled' = signalled
    <3>1. c \notin Claimants /\ waiters # <<>>
      BY <2>1, <2>2 DEF Claimants, InUse, GrantsInFlight, QueueInv, InQueue
    <3> QED
      BY <1>2, <2>1, <2>2, <3>1 DEF TypeOK
  <2>3. ASSUME ~InQueue(c),
               LET m == IF waiters = <<>> THEN 0 ELSE 1
               IN  /\ waiters' = SubSeq(waiters, m + 1, Len(waiters))
                   /\ signalled' = (signalled \ {c}) \cup {waiters[i] : i \in 1..m}
        PROVE  Goal
    <3>1. waiters # <<>>
      BY <2>1, <2>3, CutQueue DEF TypeOK
    <3>2. signalled' = (signalled \ {c}) \cup {waiters[1]}
      BY <2>3, <3>1
    <3>3. waiters[1] # c
      BY <2>3, <3>1 DEF InQueue, TypeOK
    <3> QED
      BY <1>8, <2>1, <3>1, <3>2, <3>3 DEF TypeOK
  <2> QED
    BY <1>10, <2>2, <2>3 DEF Bail, InQueue
<1>11. ASSUME NEW k \in Keys, NEW v \in Versions, Notify(k, v) PROVE Goal
  <2>1. {pools[k]} \in SUBSET PoolIds
    BY <1>11 DEF Notify, TypeOK
  <2>2. Cardinality(Slots({pools[k]})) \in Nat
    BY <2>1, SlotsFinite DEF TypeOK
  <2>3. waiters # <<>> /\ signalled \subseteq signalled'
    BY <1>11, <2>2, WakeQueue DEF Notify
  <2> QED
    BY <1>1, <1>11, <2>3 DEF Notify
<1>12. CASE Sweep
  <2>1. Expired \in SUBSET PoolIds
    BY DEF TypeOK, Expired, Mapped
  <2>2. Cardinality(Slots(Expired)) \in Nat
    BY <2>1, SlotsFinite DEF TypeOK
  <2>3. waiters # <<>> /\ signalled \subseteq signalled'
    BY <1>12, <2>2, WakeQueue DEF Sweep
  <2> QED
    BY <1>1, <1>12, <2>3 DEF Sweep
<1>13. CASE Close
  BY <1>13 DEF Close
<1>14. ASSUME NEW c \in Callers, AcquireClosed(c) \/ WaitClosed(c) PROVE Goal
  BY <1>14 DEF AcquireClosed, WaitClosed
<1>15. CASE UNCHANGED <<pc, granted, waiters, signalled, closed>>
  BY <1>1, <1>15
<1> QED
  BY <1>3, <1>4, <1>5, <1>6, <1>7, <1>9, <1>10, <1>11, <1>12, <1>13, <1>14, <1>15
     DEF Next, vars, CallStep, GetPoolStep, AcquireStep, BuildStep,
         RunClosed, LoadFails, Evict, ForgetEntry, Publish, SweepStart, Tick

\* While callers are queued on an open Runtime, every slot that is free or idle
\* is being handed to somebody who will claim it or pass it on: releases, failed
\* builds, drops, sweeps, cancelled waits and late entrants lose no wakeup.  By
\* LiveSum, free and idle slots are those that no caller holds; that the
\* claimants are at least MaxStates says that each has its hand-off.
THEOREM NoLostWakeup == ApartSpec => []NoStrandedSlot
<1>1. Init => AllClaimed
  BY DEF Init, AllClaimed
<1>2. IInv /\ AllClaimed /\ [Next /\ SweepApart]_vars => AllClaimed'
  BY StutterIsApart, ClaimedStep DEF IInv
<1>3. IInv /\ AllClaimed => NoStrandedSlot
  <2> SUFFICES ASSUME IInv, AllClaimed, waiters # <<>>, ~closed
               PROVE  MaxStates - live + Cardinality(Slots(Mapped)) <= Cardinality(GrantsInFlight)
    BY DEF NoStrandedSlot
  <2>1. live = Cardinality(Slots(Mapped)) + Cardinality(InUse)
    BY LiveSum DEF LiveIsIdlePlusInUse
  <2>2. MaxStates <= Cardinality(Claimants)
    BY DEF AllClaimed
  <2>3. IsFiniteSet(InUse) /\ IsFiniteSet(GrantsInFlight)
    BY FinitenessAssumption, FS_Subset DEF InUse, GrantsInFlight
  <2>4. InUse \cap GrantsInFlight = {}
    BY DEF InUse, GrantsInFlight
  <2>5. Cardinality(Claimants) = Cardinality(InUse) + Cardinality(GrantsInFlight)
    <3>1. Cardinality(Claimants)
             = Cardinality(InUse) + Cardinality(GrantsInFlight)
               - Cardinality(InUse \cap GrantsInFlight)
      BY <2>3, FS_Union DEF Claimants
    <3>2. Cardinality(InUse \cap GrantsInFlight) = 0
      BY <2>4, FS_EmptySet
    <3> QED
      BY <2>3, <3>1, <3>2, FS_CardinalityType
  <2>6. /\ Cardinality(InUse) \in Nat /\ Cardinality(GrantsInFlight) \in Nat
        /\ Cardinality(Slots(Mapped)) \in Nat
    <3>1. Mapped \in SUBSET PoolIds
      BY DEF IInv, TypeOK, Mapped
    <3> QED
      BY <2>3, <3>1, SlotsFinite, FS_CardinalityType DEF IInv, TypeOK
  <2> QED
    BY <2>1, <2>2, <2>5, <2>6, ConfigAssumption
<1> QED
  BY <1>1, <1>2, <1>3, Safety, PTL DEF ApartSpec
=============================================================================
