--------------------------- MODULE RuntimeProofs ---------------------------

(***************************************************************************)
(* What TLAPS proves about Runtime, for every set of callers, keys, pools  *)
(* and States and every configuration.                                     *)
(***************************************************************************)
EXTENDS RuntimeInv, TLAPS, FiniteSetTheorems

(***************************************************************************)
(* Sequences: what acquire, release and the wait queue do to them.         *)
(***************************************************************************)

\* Cutting a piece out of a list keeps the type of its elements (the idle
\* list after a Reuse, the wait queue after a hand-off).
LEMMA SubSeqType ==
    ASSUME NEW S, NEW s \in Seq(S), NEW m \in 1..Len(s)+1, NEW n \in 0..Len(s)
    PROVE  SubSeq(s, m, n) \in Seq(S)
OBVIOUS

\* So does taking one element out (the victim of an eviction, a waiter that
\* bails).
LEMMA RemoveAtType ==
    ASSUME NEW S, NEW s \in Seq(S), NEW i \in 1..Len(s)
    PROVE  RemoveAt(s, i) \in Seq(S)
<1>1. SubSeq(s, 1, i-1) \in Seq(S)
  BY SubSeqType
<1>2. SubSeq(s, i+1, Len(s)) \in Seq(S)
  BY SubSeqType
<1> QED
  BY <1>1, <1>2 DEF RemoveAt

\* The hand-off keeps the wait queue a queue of callers.
LEMMA WakeType ==
    ASSUME NEW n \in Nat, waiters \in Seq(Callers), signalled \in SUBSET Callers,
           WakeWaiters(n)
    PROVE  waiters' \in Seq(Callers) /\ signalled' \in SUBSET Callers
<1> DEFINE m == IF n < Len(waiters) THEN n ELSE Len(waiters)
<1>1. m \in 0..Len(waiters)
  OBVIOUS
<1>2. waiters' = SubSeq(waiters, m+1, Len(waiters))
  BY DEF WakeWaiters
<1>3. waiters' \in Seq(Callers)
  BY <1>1, <1>2, SubSeqType
<1>4. \A i \in 1..m : waiters[i] \in Callers
  BY <1>1
<1> QED
  BY <1>1, <1>3, <1>4 DEF WakeWaiters

\* The idle places of finitely many pools are finitely many: their number is
\* what a retirement subtracts from live and hands to the waiters.
LEMMA SlotsFinite ==
    ASSUME NEW P \in SUBSET PoolIds, idle \in [PoolIds -> Seq(PooledState)]
    PROVE  IsFiniteSet(Slots(P)) /\ Cardinality(Slots(P)) \in Nat
<1> DEFINE Places(p) == {p} \X DOMAIN idle[p]
<1>1. IsFiniteSet(P)
  BY FinitenessAssumption, FS_Subset
<1>2. IsFiniteSet({Places(p) : p \in P})
  <2> DEFINE f == [p \in P |-> Places(p)]
  <2>1. f \in Surjection(P, {Places(p) : p \in P})
    BY DEF Surjection
  <2> QED
    BY <1>1, <2>1, FS_Surjection
<1>3. \A p \in P : IsFiniteSet(Places(p))
  <2> TAKE p \in P
  <2>1. DOMAIN idle[p] = 1..Len(idle[p]) /\ Len(idle[p]) \in Nat
    OBVIOUS
  <2>2. IsFiniteSet({p})
    BY FS_Singleton
  <2>3. IsFiniteSet(DOMAIN idle[p])
    BY <2>1, FS_Interval
  <2> QED
    BY <2>2, <2>3, FS_Product
<1>4. \A T \in {Places(p) : p \in P} : IsFiniteSet(T)
  BY <1>3
<1>5. IsFiniteSet(UNION {Places(p) : p \in P})
  BY <1>2, <1>4, FS_UNION
<1> QED
  BY <1>5, FS_CardinalityType DEF Slots

(***************************************************************************)
(* Type correctness                                                        *)
(***************************************************************************)

USE NoneAssumption, ConfigAssumption DEF Versions, Times

\* The initial states are typed, and their maps (empty) filed right.
LEMMA TypeInit ==
    ASSUME Init PROVE TypeOK /\ Keyed
<1>1. <<>> \in Seq(PooledState) /\ <<>> \in Seq(Callers)
  OBVIOUS
<1>2. Keyed
  BY DEF Init, Keyed
<1>3. idle \in [PoolIds -> Seq(PooledState)] /\ waiters \in Seq(Callers)
  BY <1>1 DEF Init
<1>4. 0 \in Versions /\ 0 \in Times
  OBVIOUS
<1>5. /\ version \in [PoolIds -> Versions] /\ src \in [Keys -> Versions]
      /\ lastUsed \in [PoolIds -> Times] /\ now \in Times
  BY <1>4 DEF Init
<1>6. /\ \A c \in Callers : (ref[c] = None) <=> (pc[c] = "out")
      /\ \A c \in Callers : (held[c] # None) <=> (pc[c] = "run")
  BY DEF Init
<1>7. /\ pc \in [Callers -> {"out", "once", "load", "acquire", "wait", "bail", "build", "run"}]
      /\ ref \in [Callers -> PoolIds \cup {None}]
      /\ held \in [Callers -> PooledState \cup {None}]
      /\ granted \in [Callers -> BOOLEAN]
  BY DEF Init
<1>8. /\ pools \in [Keys -> PoolIds \cup {None}]
      /\ creating \in [Keys -> PoolIds \cup {None}]
      /\ keyOf \in [PoolIds -> Keys \cup {None}]
      /\ phase \in [PoolIds -> {"new", "loading", "ready", "failed"}]
      /\ checkedOut \in [PoolIds -> Int]
      /\ dropped \in [PoolIds -> BOOLEAN]
  BY DEF Init
<1>9. /\ live \in Int /\ open \in SUBSET StateIds /\ signalled \in SUBSET Callers
      /\ sweepNow \in Times \cup {None}
  BY DEF Init
<1>10. closed \in BOOLEAN
  BY Zenon DEF Init
<1> QED
  BY <1>2, <1>3, <1>5, <1>6, <1>7, <1>8, <1>9, <1>10 DEF TypeOK

\* Every step of Runtime keeps the type of every variable, and every pool
\* filed under its own key.
LEMMA TypeStep ==
    ASSUME TypeOK, Keyed, [Next]_vars
    PROVE  TypeOK' /\ Keyed'
<1> USE DEF TypeOK, Keyed, callVars, mapVars, entryVars, poolVars, slotVars,
            waitVars, envVars
<1>1. CASE UNCHANGED vars
  BY <1>1 DEF vars
<1>2. ASSUME NEW c \in Callers, RunClosed(c) PROVE TypeOK' /\ Keyed'
  BY <1>2 DEF RunClosed, vars
<1>3. ASSUME NEW c \in Callers, CtxDone(c) PROVE TypeOK' /\ Keyed'
  BY <1>3 DEF CtxDone, Goto
<1>4. ASSUME NEW c \in Callers, LoadSource(c) PROVE TypeOK' /\ Keyed'
  BY SMTT(30), <1>4 DEF LoadSource, LoadAnswer, Goto
<1>5. ASSUME NEW c \in Callers, LoadFails(c) PROVE TypeOK' /\ Keyed'
  BY <1>5 DEF LoadFails
<1>6. ASSUME NEW c \in Callers, Register(c) PROVE TypeOK' /\ Keyed'
  BY SMTT(30), <1>6 DEF Register, Goto
<1>7. ASSUME NEW c \in Callers, OnceReturn(c) PROVE TypeOK' /\ Keyed'
  BY <1>7 DEF OnceReturn, Goto
<1>8. ASSUME NEW c \in Callers, OnceFailed(c) PROVE TypeOK' /\ Keyed'
  BY SMTT(30), <1>8 DEF OnceFailed, Return
<1>9. ASSUME NEW c \in Callers, AcquireClosed(c) PROVE TypeOK' /\ Keyed'
  BY <1>9 DEF AcquireClosed, Return
<1>10. ASSUME NEW c \in Callers, Reuse(c) PROVE TypeOK' /\ Keyed'
  <2> DEFINE p == ref[c]
             n == Len(idle[p])
  <2>1. p \in PoolIds /\ pc[c] = "acquire"
    BY <1>10 DEF Reuse, MayClaim
  <2>2. idle[p] \in Seq(PooledState) /\ n \in Nat \ {0}
    BY <1>10, <2>1 DEF Reuse
  <2>3. idle[p][n] \in PooledState /\ SubSeq(idle[p], 1, n-1) \in Seq(PooledState)
    BY <2>2, SubSeqType
  <2>4. held' \in [Callers -> PooledState \cup {None}]
    BY <1>10, <2>3 DEF Reuse, Warmest
  <2>5. idle' \in [PoolIds -> Seq(PooledState)]
    BY <1>10, <2>3 DEF Reuse
  <2>6. \A d \in Callers : (held'[d] # None) <=> (pc'[d] = "run")
    BY <1>10, <2>1, <2>3 DEF Reuse, Warmest, Goto
  <2>7. \A d \in Callers : (ref'[d] = None) <=> (pc'[d] = "out")
    BY <1>10, <2>1 DEF Reuse, Goto
  <2>8. checkedOut' \in [PoolIds -> Int] /\ lastUsed' \in [PoolIds -> Times]
    BY <1>10, <2>1 DEF Reuse, CheckOut
  <2>9. /\ pc' = [pc EXCEPT ![c] = "run"]
        /\ granted' = [granted EXCEPT ![c] = FALSE]
        /\ UNCHANGED <<ref, pools, creating, keyOf, phase, version, dropped, live,
                       open, waiters, signalled, closed, src, now, sweepNow>>
    BY <1>10 DEF Reuse, Goto
  <2> HIDE DEF p, n
  <2> QED
    BY <2>4, <2>5, <2>6, <2>7, <2>8, <2>9
<1>11. ASSUME NEW c \in Callers, Reserve(c) PROVE TypeOK' /\ Keyed'
  <2>1. ref[c] \in PoolIds /\ pc[c] = "acquire"
    BY <1>11 DEF Reserve, MayClaim
  <2>2. checkedOut' \in [PoolIds -> Int] /\ lastUsed' \in [PoolIds -> Times]
    BY <1>11, <2>1 DEF Reserve, CheckOut
  <2> QED
    BY <1>11, <2>1, <2>2 DEF Reserve, Goto
<1>12. ASSUME NEW c \in Callers, Evict(c) PROVE TypeOK' /\ Keyed'
  <2>1. PICK s \in OldestIdle :
           /\ idle' = [idle EXCEPT ![s[1]] = RemoveAt(idle[s[1]], s[2])]
           /\ open' = open \ {StateAt(s).L}
           /\ live' = live - 1
    BY <1>12 DEF Evict
  <2>2. s[1] \in PoolIds /\ s[2] \in 1..Len(idle[s[1]])
    BY SMTT(30), <2>1 DEF OldestIdle, Slots, Mapped
  <2>3. RemoveAt(idle[s[1]], s[2]) \in Seq(PooledState)
    BY <2>2, RemoveAtType
  <2>4. idle' \in [PoolIds -> Seq(PooledState)]
    BY <2>1, <2>3
  <2>5. UNCHANGED <<pc, ref, held, granted, pools, creating, keyOf, phase, version,
                    checkedOut, lastUsed, dropped, waiters, signalled, closed,
                    src, now, sweepNow>>
    BY <1>12 DEF Evict
  <2>6. open' \in SUBSET StateIds /\ live' \in Int
    BY <2>1
  <2> QED
    BY <2>4, <2>5, <2>6
<1>13. ASSUME NEW c \in Callers, Enqueue(c) PROVE TypeOK' /\ Keyed'
  BY SMTT(30), <1>13 DEF Enqueue, Goto
<1>14. ASSUME NEW c \in Callers, TakeGrant(c) PROVE TypeOK' /\ Keyed'
  BY <1>14 DEF TakeGrant, Goto
<1>15. ASSUME NEW c \in Callers, Bail(c) PROVE TypeOK' /\ Keyed'
  <2>1. waiters' \in Seq(Callers) /\ signalled' \in SUBSET Callers
    <3>1. CASE \E i \in DOMAIN waiters : /\ waiters[i] = c
                                         /\ waiters' = RemoveAt(waiters, i)
                                         /\ UNCHANGED signalled
      <4>1. PICK i \in 1..Len(waiters) : waiters' = RemoveAt(waiters, i)
        BY <3>1
      <4>2. RemoveAt(waiters, i) \in Seq(Callers)
        BY RemoveAtType
      <4> QED
        BY <3>1, <4>1, <4>2
    <3>2. CASE /\ waiters' = SubSeq(waiters, (IF waiters = <<>> THEN 0 ELSE 1) + 1, Len(waiters))
               /\ signalled' = (signalled \ {c}) \cup
                      {waiters[i] : i \in 1..(IF waiters = <<>> THEN 0 ELSE 1)}
      <4>1. CASE waiters = <<>>
        BY <3>2, <4>1, SubSeqType
      <4>2. CASE waiters # <<>>
        <5>1. Len(waiters) >= 1 /\ waiters[1] \in Callers
          BY <4>2
        <5> QED
          BY <3>2, <4>2, <5>1, SubSeqType
      <4> QED
        BY <4>1, <4>2
    <3> QED
      BY <1>15, <3>1, <3>2 DEF Bail
  <2> QED
    BY <1>15, <2>1 DEF Bail, Return
<1>16. ASSUME NEW c \in Callers, WaitClosed(c) PROVE TypeOK' /\ Keyed'
  BY <1>16 DEF WaitClosed, Return
<1>17. ASSUME NEW c \in Callers, BuildDone(c) PROVE TypeOK' /\ Keyed'
  <2> DEFINE L == CHOOSE l \in StateIds \ UsedStates : TRUE
             ps == [L |-> L, version |-> version[ref[c]], idleSince |-> 0]
  <2>1. pc[c] = "build" /\ ref[c] \in PoolIds /\ L \in StateIds
    BY <1>17 DEF BuildDone
  <2>2. ps \in PooledState
    BY <2>1 DEF PooledState
  <2>3. held' = [held EXCEPT ![c] = ps] /\ open' = open \cup {L}
    BY <1>17 DEF BuildDone
  <2>4. /\ pc' = [pc EXCEPT ![c] = "run"]
        /\ UNCHANGED <<ref, granted, pools, creating, keyOf, phase, version, idle,
                       checkedOut, lastUsed, dropped, live, waiters, signalled,
                       closed, src, now, sweepNow>>
    BY <1>17 DEF BuildDone, Goto
  <2> HIDE DEF ps, L
  <2>5. \A d \in Callers : (held'[d] # None) <=> (pc'[d] = "run")
    BY <2>1, <2>2, <2>3, <2>4
  <2> QED
    BY <2>1, <2>2, <2>3, <2>4, <2>5
<1>18. ASSUME NEW c \in Callers, BuildFails(c) PROVE TypeOK' /\ Keyed'
  <2>1. pc[c] = "build" /\ ref[c] \in PoolIds
    BY <1>18 DEF BuildFails
  <2>2. waiters' \in Seq(Callers) /\ signalled' \in SUBSET Callers
    BY <1>18, WakeType DEF BuildFails, WakeWaiter
  <2>3. live' \in Int /\ checkedOut' \in [PoolIds -> Int]
    BY <1>18, <2>1 DEF BuildFails
  <2>4. /\ pc' = [pc EXCEPT ![c] = "out"]
        /\ ref' = [ref EXCEPT ![c] = None]
        /\ held' = [held EXCEPT ![c] = None]
        /\ granted' = [granted EXCEPT ![c] = FALSE]
        /\ UNCHANGED <<pools, creating, keyOf, phase, version, idle, lastUsed,
                       dropped, open, closed, src, now, sweepNow>>
    BY <1>18 DEF BuildFails, Return
  <2> QED
    BY <2>2, <2>3, <2>4
<1>19. ASSUME NEW c \in Callers, Release(c) PROVE TypeOK' /\ Keyed'
  <2> DEFINE p == ref[c]
             ps == [held[c] EXCEPT !.idleSince = now]
  <2>1. pc[c] = "run" /\ p \in PoolIds /\ held[c] \in PooledState
    BY <1>19 DEF Release
  <2>2. ps \in PooledState
    BY <2>1 DEF PooledState
  <2>3. idle' \in [PoolIds -> Seq(PooledState)]
    <3>1. Append(idle[p], ps) \in Seq(PooledState)
      BY <2>1, <2>2
    <3>2. idle' = idle \/ idle' = [idle EXCEPT ![p] = Append(idle[p], ps)]
      BY <1>19 DEF Release
    <3> HIDE DEF p, ps
    <3> QED
      BY ZenonT(60), <3>1, <3>2
  <2>4. open' \in SUBSET StateIds /\ live' \in Int
    BY <1>19 DEF Release
  <2>5. waiters' \in Seq(Callers) /\ signalled' \in SUBSET Callers
    BY <1>19, WakeType DEF Release, WakeWaiter
  <2>6. checkedOut' \in [PoolIds -> Int] /\ lastUsed' \in [PoolIds -> Times]
    BY <1>19, <2>1 DEF Release
  <2> QED
    BY SMTT(30), <1>19, <2>3, <2>4, <2>5, <2>6 DEF Release, Return
<1>20. ASSUME NEW c \in Callers, NEW k \in Keys, RunHit(c, k) PROVE TypeOK' /\ Keyed'
  BY SMTT(30), <1>20 DEF RunHit, Goto
<1>21. ASSUME NEW c \in Callers, NEW k \in Keys, RunJoin(c, k) PROVE TypeOK' /\ Keyed'
  BY SMTT(30), <1>21 DEF RunJoin, InCreation, Goto
<1>22. ASSUME NEW c \in Callers, NEW k \in Keys, RunCreate(c, k) PROVE TypeOK' /\ Keyed'
  <2> DEFINE p == CHOOSE q \in PoolIds \ UsedPools : TRUE
  <2>1. p \in PoolIds \ UsedPools
    BY <1>22 DEF RunCreate
  <2>2. /\ pc' = [pc EXCEPT ![c] = "once"]
        /\ ref' = [ref EXCEPT ![c] = p]
        /\ creating' = [creating EXCEPT ![k] = p]
        /\ keyOf' = [keyOf EXCEPT ![p] = k]
        /\ phase' = [phase EXCEPT ![p] = "new"]
        /\ idle' = [idle EXCEPT ![p] = <<>>]
        /\ checkedOut' = [checkedOut EXCEPT ![p] = 0]
        /\ dropped' = [dropped EXCEPT ![p] = FALSE]
        /\ UNCHANGED <<held, granted, pools, version, lastUsed, live, open,
                       waiters, signalled, closed, src, now, sweepNow>>
    BY <1>22 DEF RunCreate, Goto
  <2>3. pc[c] = "out"
    BY <1>22 DEF RunCreate
  <2> HIDE DEF p
  <2>4. Keyed'
    BY SMTT(30), <2>1, <2>2 DEF UsedPools, Mapped
  <2>5. idle' \in [PoolIds -> Seq(PooledState)]
    BY <2>1, <2>2
  <2> QED
    BY <2>1, <2>2, <2>3, <2>4, <2>5
<1>23. ASSUME NEW k \in Keys, NEW v \in Versions, Notify(k, v) PROVE TypeOK' /\ Keyed'
  <2>1. pools[k] \in PoolIds
    BY <1>23 DEF Notify, ForgetEntry
  <2>2. Cardinality(Slots({pools[k]})) \in Nat
    BY <2>1, SlotsFinite
  <2>3. waiters' \in Seq(Callers) /\ signalled' \in SUBSET Callers
    BY <1>23, <2>2, WakeType DEF Notify, ForgetEntry
  <2>4. idle' \in [PoolIds -> Seq(PooledState)]
    BY <1>23 DEF Notify, ForgetEntry, ForgetIdle
  <2>5. /\ open' \in SUBSET StateIds /\ live' \in Int
        /\ dropped' \in [PoolIds -> BOOLEAN]
    BY <1>23, <2>2 DEF Notify, ForgetEntry, CloseIdle
  <2>6. /\ pools' = [pools EXCEPT ![k] = None]
        /\ creating' = [creating EXCEPT ![k] = None]
        /\ UNCHANGED <<pc, ref, held, granted, keyOf, phase, version, checkedOut,
                       lastUsed, closed, src, now, sweepNow>>
    BY <1>23 DEF Notify, ForgetEntry
  <2> QED
    BY <2>3, <2>4, <2>5, <2>6
<1>24. ASSUME NEW k \in Keys, Publish(k) PROVE TypeOK' /\ Keyed'
  BY <1>24 DEF Publish
<1>25. CASE SweepStart
  BY <1>25 DEF SweepStart
<1>26. CASE Sweep
  <2>1. Expired \in SUBSET PoolIds
    BY DEF Expired, Mapped
  <2>2. Cardinality(Slots(Expired)) \in Nat
    BY <2>1, SlotsFinite
  <2>3. waiters' \in Seq(Callers) /\ signalled' \in SUBSET Callers
    BY <1>26, <2>2, WakeType DEF Sweep
  <2> QED
    BY SMTT(30), <1>26, <2>2, <2>3 DEF Sweep, CloseIdle
<1>27. CASE Close
  <2>1. Cardinality(Slots(Mapped)) \in Nat
    <3>1. Mapped \in SUBSET PoolIds
      BY DEF Mapped
    <3> QED
      BY <3>1, SlotsFinite
  <2>2. idle' \in [PoolIds -> Seq(PooledState)]
    BY <1>27 DEF Close, ForgetIdle
  <2> QED
    BY SMTT(30), <1>27, <2>1, <2>2 DEF Close, CloseIdle
<1>28. CASE Tick
  BY <1>28 DEF Tick
<1> QED
  BY <1>1, <1>2, <1>3, <1>4, <1>5, <1>6, <1>7, <1>8, <1>9, <1>10, <1>11, <1>12, <1>13, <1>14, <1>15, <1>16, <1>17, <1>18, <1>19, <1>20, <1>21, <1>22, <1>23, <1>24, <1>25, <1>26, <1>27, <1>28
     DEF Next, Run, CallStep, GetPoolStep, AcquireStep, BuildStep

\* Type correctness: in every state of Runtime, with every event allowed, each
\* variable has its type, a caller refers to a pool exactly during a call of
\* Run, and owns a State exactly while its script runs.
THEOREM TypeCorrect == Spec => []TypeOK
<1>1. TypeOK /\ Keyed /\ [Next]_vars => TypeOK' /\ Keyed'
  BY TypeStep
<1> QED
  BY <1>1, TypeInit, PTL DEF Spec

(***************************************************************************)
(* The life of an entry.                                                   *)
(***************************************************************************)

\* A step of a caller that has its pool, which touches neither the maps nor
\* an entry.
LEMMA EntryMove ==
    ASSUME TypeOK, EntryInv, NEW c \in Callers, pc[c] \in PastGetPool,
           UNCHANGED <<pools, creating, keyOf, phase, dropped>>,
           \/ UNCHANGED <<pc, ref>>
           \/ \E l \in PastGetPool : pc' = [pc EXCEPT ![c] = l] /\ ref' = ref
           \/ pc' = [pc EXCEPT ![c] = "out"] /\ ref' = [ref EXCEPT ![c] = None]
    PROVE  EntryInv'
<1>1. CASE UNCHANGED <<pc, ref>>
  BY <1>1 DEF EntryInv, OnceAgrees, LoadingCurrent, MapsAgree, Loading
<1>2. CASE \E l \in PastGetPool : pc' = [pc EXCEPT ![c] = l] /\ ref' = ref
  BY <1>2 DEF TypeOK, EntryInv, OnceAgrees, LoadingCurrent, MapsAgree, PastGetPool, Loading
<1>3. CASE pc' = [pc EXCEPT ![c] = "out"] /\ ref' = [ref EXCEPT ![c] = None]
  <2>1. OnceAgrees'
    BY <1>3 DEF TypeOK, EntryInv, OnceAgrees, PastGetPool
  <2>2. LoadingCurrent'
    BY <1>3 DEF TypeOK, EntryInv, LoadingCurrent, Loading
  <2>3. MapsAgree'
    BY DEF EntryInv, MapsAgree, Loading
  <2> QED
    BY <2>1, <2>2, <2>3 DEF EntryInv
<1> QED
  BY <1>1, <1>2, <1>3

\* The loader is asked, whatever it will answer.
LEMMA EntryLoad ==
    ASSUME TypeOK, EntryInv, NEW c \in Callers, NEW v, LoadAnswer(c, v)
    PROVE  EntryInv'
BY DEF LoadAnswer, Goto, callVars, mapVars, entryVars, poolVars, TypeOK, EntryInv, OnceAgrees,
       LoadingCurrent, MapsAgree, PastGetPool, Loading

\* Every step keeps what getPool relies on.
LEMMA EntryInvStep ==
    ASSUME TypeOK, Keyed, EntryInv, [Next]_vars
    PROVE  EntryInv'
<1> USE DEF callVars, mapVars, entryVars, poolVars, slotVars, waitVars, envVars
<1>1. CASE UNCHANGED vars
  BY <1>1 DEF vars, EntryInv, OnceAgrees, LoadingCurrent, MapsAgree, Loading
<1>2. ASSUME NEW c \in Callers, RunClosed(c) PROVE EntryInv'
  BY <1>2 DEF RunClosed, vars, TypeOK, EntryInv, OnceAgrees, LoadingCurrent, MapsAgree, PastGetPool, Loading
<1>3. ASSUME NEW c \in Callers, CtxDone(c) PROVE EntryInv'
  BY <1>3, EntryMove DEF CtxDone, Goto, PastGetPool
<1>4. ASSUME NEW c \in Callers, AcquireClosed(c) PROVE EntryInv'
  BY <1>4, EntryMove DEF AcquireClosed, Return, PastGetPool
<1>5. ASSUME NEW c \in Callers, Reuse(c) PROVE EntryInv'
  BY <1>5, EntryMove DEF Reuse, MayClaim, Goto, PastGetPool
<1>6. ASSUME NEW c \in Callers, Reserve(c) PROVE EntryInv'
  BY <1>6, EntryMove DEF Reserve, MayClaim, Goto, PastGetPool
<1>7. ASSUME NEW c \in Callers, Evict(c) PROVE EntryInv'
  BY <1>7, EntryMove DEF Evict, MayClaim, PastGetPool
<1>8. ASSUME NEW c \in Callers, Enqueue(c) PROVE EntryInv'
  BY <1>8, EntryMove DEF Enqueue, Goto, PastGetPool
<1>9. ASSUME NEW c \in Callers, TakeGrant(c) PROVE EntryInv'
  BY <1>9, EntryMove DEF TakeGrant, Goto, PastGetPool
<1>10. ASSUME NEW c \in Callers, Bail(c) PROVE EntryInv'
  BY <1>10, EntryMove DEF Bail, Return, PastGetPool
<1>11. ASSUME NEW c \in Callers, WaitClosed(c) PROVE EntryInv'
  BY <1>11, EntryMove DEF WaitClosed, Return, PastGetPool
<1>12. ASSUME NEW c \in Callers, BuildDone(c) PROVE EntryInv'
  BY <1>12, EntryMove DEF BuildDone, Goto, PastGetPool
<1>13. ASSUME NEW c \in Callers, BuildFails(c) PROVE EntryInv'
  BY <1>13, EntryMove DEF BuildFails, Return, PastGetPool
<1>14. ASSUME NEW c \in Callers, Release(c) PROVE EntryInv'
  BY <1>14, EntryMove DEF Release, Return, PastGetPool
<1>15. ASSUME NEW c \in Callers, LoadSource(c) PROVE EntryInv'
  BY <1>15, EntryLoad DEF LoadSource
<1>16. ASSUME NEW c \in Callers, LoadFails(c) PROVE EntryInv'
  BY <1>16 DEF LoadFails, TypeOK, EntryInv, OnceAgrees, LoadingCurrent, MapsAgree, PastGetPool, Loading
<1>17. ASSUME NEW c \in Callers, Register(c) PROVE EntryInv'
  <2> DEFINE p == ref[c]
             k == keyOf[p]
  <2>1. /\ pc[c] = "load" /\ p \in PoolIds /\ k \in Keys /\ phase[p] = "loading"
        /\ pc' = [pc EXCEPT ![c] = "acquire"]
        /\ pools' = [pools EXCEPT ![k] = p]
        /\ phase' = [phase EXCEPT ![p] = "ready"]
        /\ UNCHANGED <<ref, creating, keyOf, dropped>>
    BY <1>17 DEF Register, Goto, Keyed, TypeOK, EntryInv, OnceAgrees
  <2>2. creating[k] = p /\ pools[k] = None /\ ~dropped[p]
    BY <2>1 DEF EntryInv, LoadingCurrent, Loading
  <2>3. OnceAgrees'
    BY <2>1 DEF EntryInv, OnceAgrees, PastGetPool, TypeOK
  <2>4. LoadingCurrent'
    BY SMTT(30), <2>1, <2>2 DEF EntryInv, LoadingCurrent, Loading, TypeOK
  <2>5. MapsAgree'
    BY SMTT(30), <2>1, <2>2 DEF EntryInv, MapsAgree, Keyed, Loading, TypeOK
  <2> QED
    BY <2>3, <2>4, <2>5 DEF EntryInv
<1>18. ASSUME NEW c \in Callers, OnceReturn(c) PROVE EntryInv'
  BY <1>18 DEF OnceReturn, Goto, TypeOK, EntryInv, OnceAgrees, LoadingCurrent, MapsAgree, PastGetPool, Loading
<1>19. ASSUME NEW c \in Callers, OnceFailed(c) PROVE EntryInv'
  BY SMTT(30), <1>19 DEF OnceFailed, Return, Keyed, TypeOK, EntryInv, OnceAgrees, LoadingCurrent, MapsAgree, PastGetPool, Loading
<1>20. ASSUME NEW c \in Callers, NEW k \in Keys, RunHit(c, k) PROVE EntryInv'
  BY <1>20 DEF RunHit, Goto, Keyed, TypeOK, EntryInv, OnceAgrees, LoadingCurrent, MapsAgree, PastGetPool, Loading
<1>21. ASSUME NEW c \in Callers, NEW k \in Keys, RunJoin(c, k) PROVE EntryInv'
  <2>1. /\ pc' = [pc EXCEPT ![c] = "once"]
        /\ ref' = [ref EXCEPT ![c] = creating[k]]
        /\ pc[c] = "out" /\ pools[k] = None /\ creating[k] \in PoolIds
        /\ keyOf[creating[k]] = k
        /\ UNCHANGED <<pools, creating, keyOf, phase, dropped>>
    BY <1>21 DEF RunJoin, InCreation, Goto, Keyed, TypeOK
  <2>2. OnceAgrees'
    BY <2>1 DEF EntryInv, OnceAgrees, PastGetPool, TypeOK
  <2>3. LoadingCurrent'
    <3> SUFFICES ASSUME NEW d \in Callers, ref'[d] # None, phase'[ref'[d]] \in {"new", "loading"}
                 PROVE  /\ creating'[keyOf'[ref'[d]]] = ref'[d]
                        /\ pools'[keyOf'[ref'[d]]] = None
                        /\ ~dropped'[ref'[d]]
      BY DEF LoadingCurrent, Loading
    <3>1. CASE d # c
      <4>1. ref'[d] = ref[d]
        BY <2>1, <3>1 DEF TypeOK
      <4> QED
        BY <2>1, <4>1 DEF EntryInv, LoadingCurrent, Loading
    <3>2. CASE d = c
      <4>1. ref'[d] = creating[k]
        BY <2>1, <3>2 DEF TypeOK
      <4>2. Loading(creating[k]) => ~dropped[creating[k]]
        BY <2>1 DEF EntryInv, MapsAgree
      <4> QED
        BY <2>1, <4>1, <4>2 DEF Loading
    <3> QED
      BY <3>1, <3>2
  <2>4. MapsAgree'
    BY <2>1 DEF EntryInv, MapsAgree, Loading
  <2> QED
    BY <2>2, <2>3, <2>4 DEF EntryInv
<1>22. ASSUME NEW c \in Callers, NEW k \in Keys, RunCreate(c, k) PROVE EntryInv'
  <2> DEFINE p == CHOOSE q \in PoolIds \ UsedPools : TRUE
  <2>1. p \in PoolIds \ UsedPools
    BY <1>22 DEF RunCreate
  <2>2. /\ pc' = [pc EXCEPT ![c] = "once"]
        /\ ref' = [ref EXCEPT ![c] = p]
        /\ pc[c] = "out" /\ pools[k] = None /\ creating[k] = None
        /\ creating' = [creating EXCEPT ![k] = p]
        /\ keyOf' = [keyOf EXCEPT ![p] = k]
        /\ phase' = [phase EXCEPT ![p] = "new"]
        /\ dropped' = [dropped EXCEPT ![p] = FALSE]
        /\ pools' = pools
    BY <1>22 DEF RunCreate, InCreation, Goto
  <2> HIDE DEF p
  <2>3. /\ \A d \in Callers : ref[d] # p
        /\ \A l \in Keys : pools[l] # p /\ creating[l] # p
    BY <2>1 DEF UsedPools, Mapped
  <2>4. OnceAgrees'
    BY <2>1, <2>2, <2>3 DEF EntryInv, OnceAgrees, PastGetPool, TypeOK
  <2>5. LoadingCurrent'
    <3> SUFFICES ASSUME NEW d \in Callers, ref'[d] # None, phase'[ref'[d]] \in {"new", "loading"}
                 PROVE  /\ creating'[keyOf'[ref'[d]]] = ref'[d]
                        /\ pools'[keyOf'[ref'[d]]] = None
                        /\ ~dropped'[ref'[d]]
      BY DEF LoadingCurrent, Loading
    <3>1. CASE d = c
      BY <2>1, <2>2, <3>1 DEF TypeOK, Loading
    <3>2. CASE d # c
      <4>1. ref'[d] = ref[d] /\ ref[d] \in PoolIds /\ ref[d] # p
        BY <2>2, <2>3, <3>2 DEF TypeOK
      <4>2. /\ keyOf'[ref[d]] = keyOf[ref[d]] /\ phase'[ref[d]] = phase[ref[d]]
            /\ dropped'[ref[d]] = dropped[ref[d]]
        BY <2>2, <4>1 DEF TypeOK
      <4>3. /\ Loading(ref[d]) => /\ creating[keyOf[ref[d]]] = ref[d]
                                  /\ pools[keyOf[ref[d]]] = None
                                  /\ ~dropped[ref[d]]
        BY <4>1 DEF EntryInv, LoadingCurrent
      <4>4. Loading(ref[d]) => keyOf[ref[d]] # k
        BY <2>2, <4>1, <4>3
      <4>5. Loading(ref[d]) => creating'[keyOf[ref[d]]] = ref[d]
        BY <2>2, <4>3, <4>4 DEF TypeOK
      <4> QED
        BY <2>2, <4>1, <4>2, <4>3, <4>5 DEF Loading
    <3> QED
      BY <3>1, <3>2
  <2>6. MapsAgree'
    BY SMTT(30), <2>1, <2>2, <2>3 DEF EntryInv, MapsAgree, TypeOK, Loading
  <2> QED
    BY <2>4, <2>5, <2>6 DEF EntryInv
<1>23. ASSUME NEW k \in Keys, NEW v \in Versions, Notify(k, v) PROVE EntryInv'
  BY <1>23 DEF Notify, ForgetEntry, Keyed, TypeOK, EntryInv, OnceAgrees, LoadingCurrent, MapsAgree, PastGetPool, Loading
<1>24. ASSUME NEW k \in Keys, Publish(k) PROVE EntryInv'
  BY <1>24 DEF Publish, EntryInv, OnceAgrees, LoadingCurrent, MapsAgree, PastGetPool, Loading
<1>25. CASE SweepStart
  BY <1>25 DEF SweepStart, EntryInv, OnceAgrees, LoadingCurrent, MapsAgree, PastGetPool, Loading
<1>26. CASE Sweep
  <2>2. /\ UNCHANGED <<pc, ref, keyOf, phase, dropped>>
        /\ pools' = [k \in Keys |-> IF pools[k] \in Expired THEN None ELSE pools[k]]
        /\ creating' = [k \in Keys |-> IF pools[k] \in Expired THEN None ELSE creating[k]]
    BY <1>26 DEF Sweep
  <2>3. None \notin Expired
    BY DEF Expired, Mapped
  <2>4. OnceAgrees'
    BY <2>2 DEF EntryInv, OnceAgrees
  <2>5. LoadingCurrent'
    BY <2>2, <2>3 DEF EntryInv, LoadingCurrent, Loading, Keyed
  <2>6. MapsAgree'
    BY <2>2, <2>3 DEF EntryInv, MapsAgree, Loading
  <2> QED
    BY <2>4, <2>5, <2>6 DEF EntryInv
<1>27. CASE Close
  BY <1>27 DEF Close, EntryInv, OnceAgrees, LoadingCurrent, MapsAgree, PastGetPool, Loading
<1>28. CASE Tick
  BY <1>28 DEF Tick, EntryInv, OnceAgrees, LoadingCurrent, MapsAgree, PastGetPool, Loading
<1> QED
  BY <1>1, <1>2, <1>3, <1>4, <1>5, <1>6, <1>7, <1>8, <1>9, <1>10, <1>11, <1>12, <1>13, <1>14, <1>15, <1>16, <1>17, <1>18, <1>19, <1>20, <1>21, <1>22, <1>23, <1>24, <1>25, <1>26, <1>27, <1>28
     DEF Next, Run, CallStep, GetPoolStep, AcquireStep, BuildStep

\* From here on a step is one of ApartSpec: the janitor retires no pool that a
\* caller refers to, so a caller's pool is its key's until it is dropped.
LEMMA ReadyCurrentStep ==
    ASSUME TypeOK, Keyed, EntryInv, ReadyCurrent, SweepApart, [Next]_vars
    PROVE  ReadyCurrent'
<1> USE DEF callVars, mapVars, entryVars, poolVars, slotVars, waitVars, envVars
\* Most steps leave the entries and the maps as they are.
<1>a. ASSUME UNCHANGED <<pools, keyOf, phase, dropped>>,
             \A c \in Callers : ref'[c] \in {ref[c], None}
      PROVE  ReadyCurrent'
  BY <1>a DEF ReadyCurrent
<1>1. CASE UNCHANGED vars
  BY <1>1, <1>a DEF vars
<1>2. ASSUME NEW c \in Callers, RunClosed(c) \/ CtxDone(c) PROVE ReadyCurrent'
  BY <1>2, <1>a DEF RunClosed, CtxDone, vars
<1>3. ASSUME NEW c \in Callers, AcquireStep(c) PROVE ReadyCurrent'
  BY <1>3, <1>a DEF AcquireStep, AcquireClosed, Reuse, Reserve, Evict, Enqueue, TakeGrant, Bail,
                    WaitClosed, Return, TypeOK
<1>4. ASSUME NEW c \in Callers, BuildStep(c) \/ Release(c) PROVE ReadyCurrent'
  BY <1>4, <1>a DEF BuildStep, BuildDone, BuildFails, Release, Return, TypeOK
<1>5. ASSUME NEW c \in Callers, LoadSource(c) PROVE ReadyCurrent'
  BY <1>5 DEF LoadSource, LoadAnswer, TypeOK, ReadyCurrent
<1>6. ASSUME NEW c \in Callers, LoadFails(c) PROVE ReadyCurrent'
  BY <1>6 DEF LoadFails, TypeOK, ReadyCurrent
<1>7. ASSUME NEW c \in Callers, Register(c) PROVE ReadyCurrent'
  <2>1. /\ ref[c] \in PoolIds /\ keyOf[ref[c]] \in Keys
        /\ pools' = [pools EXCEPT ![keyOf[ref[c]]] = ref[c]]
        /\ phase' = [phase EXCEPT ![ref[c]] = "ready"]
        /\ UNCHANGED <<ref, keyOf, dropped>>
    BY <1>7 DEF Register, Keyed, TypeOK
  <2>2. pools[keyOf[ref[c]]] = None
    BY <1>7, <2>1 DEF Register, EntryInv, OnceAgrees, LoadingCurrent, Loading
  <2> QED
    BY <2>1, <2>2 DEF ReadyCurrent, Keyed, TypeOK
<1>8. ASSUME NEW c \in Callers, OnceReturn(c) \/ OnceFailed(c) PROVE ReadyCurrent'
  BY <1>8, <1>a DEF OnceReturn, OnceFailed, Return, TypeOK
<1>9. ASSUME NEW c \in Callers, NEW k \in Keys, RunHit(c, k) \/ RunJoin(c, k)
      PROVE  ReadyCurrent'
  <2>1. PICK p \in PoolIds : /\ ref' = [ref EXCEPT ![c] = p]
                             /\ keyOf[p] = k
                             /\ phase[p] = "ready" => pools[k] = p
    BY <1>9 DEF RunHit, RunJoin, InCreation, Keyed, TypeOK, EntryInv, MapsAgree
  <2> QED
    BY SMTT(30), <1>9, <2>1 DEF RunHit, RunJoin, ReadyCurrent, TypeOK
<1>10. ASSUME NEW c \in Callers, NEW k \in Keys, RunCreate(c, k) PROVE ReadyCurrent'
  <2> DEFINE p == CHOOSE q \in PoolIds \ UsedPools : TRUE
  <2>1. p \in PoolIds \ UsedPools
    BY <1>10 DEF RunCreate
  <2>2. /\ ref' = [ref EXCEPT ![c] = p]
        /\ keyOf' = [keyOf EXCEPT ![p] = k]
        /\ phase' = [phase EXCEPT ![p] = "new"]
        /\ dropped' = [dropped EXCEPT ![p] = FALSE]
        /\ pools' = pools
    BY <1>10 DEF RunCreate
  <2> HIDE DEF p
  <2>3. \A d \in Callers : ref[d] # p
    BY <2>1 DEF UsedPools
  <2> QED
    BY SMTT(30), <2>1, <2>2, <2>3 DEF ReadyCurrent, TypeOK
<1>11. ASSUME NEW k \in Keys, NEW v \in Versions, Notify(k, v) PROVE ReadyCurrent'
  BY <1>11 DEF Notify, Keyed, TypeOK, ReadyCurrent
<1>12. CASE Sweep
  <2>1. /\ \A c \in Callers : ref[c] \notin Expired
        /\ UNCHANGED <<ref, keyOf, phase, dropped>>
        /\ pools' = [k \in Keys |-> IF pools[k] \in Expired THEN None ELSE pools[k]]
    BY <1>12 DEF SweepApart, Sweep
  <2> QED
    BY <2>1 DEF ReadyCurrent, Keyed
<1>13. ASSUME \/ \E k \in Keys : Publish(k)
              \/ SweepStart \/ Close \/ Tick
       PROVE  ReadyCurrent'
  BY <1>13, <1>a DEF Publish, SweepStart, Close, Tick
<1> QED
  BY <1>1, <1>2, <1>3, <1>4, <1>5, <1>6, <1>7, <1>8, <1>9, <1>10, <1>11, <1>12, <1>13
     DEF Next, Run, CallStep, GetPoolStep

\* So a step keeps the whole life of the entries.
LEMMA EntryLifeStep ==
    ASSUME TypeOK, Keyed, EntryLife, SweepApart, [Next]_vars
    PROVE  EntryLife'
BY EntryInvStep, ReadyCurrentStep DEF EntryLife

(***************************************************************************)
(* Idle States are in the pools of the map, and nowhere once it is closed. *)
(***************************************************************************)

\* What is left of a list when one element is taken out.
LEMMA RemoveAtElements ==
    ASSUME NEW S, NEW s \in Seq(S), NEW i \in 1..Len(s)
    PROVE  /\ Len(RemoveAt(s, i)) = Len(s) - 1
           /\ \A j \in 1..Len(s)-1 :
                 RemoveAt(s, i)[j] = IF j < i THEN s[j] ELSE s[j+1]
<1> DEFINE front == SubSeq(s, 1, i-1)
           back  == SubSeq(s, i+1, Len(s))
<1>1. /\ front \in Seq(S) /\ Len(front) = i-1
      /\ \A j \in 1..i-1 : front[j] = s[j]
  OBVIOUS
<1>2. /\ back \in Seq(S) /\ Len(back) = Len(s)-i
      /\ \A j \in 1..Len(s)-i : back[j] = s[i+j]
  OBVIOUS
<1>3. RemoveAt(s, i) = front \o back
  BY DEF RemoveAt
<1> HIDE DEF front, back
<1>4. /\ Len(front \o back) = Len(s) - 1
      /\ \A j \in 1..Len(s)-1 :
            (front \o back)[j] = IF j < i THEN front[j] ELSE back[j-(i-1)]
  <2>1. /\ Len(front \o back) = Len(front) + Len(back)
        /\ \A j \in 1..Len(front)+Len(back) : (front \o back)[j] =
              IF j <= Len(front) THEN front[j] ELSE back[j-Len(front)]
    <3>1. front \in Seq(S) /\ back \in Seq(S)
      BY <1>1, <1>2
    <3> QED
      BY <3>1
  <2>2. Len(front) = i-1 /\ Len(back) = Len(s)-i /\ i \in Nat /\ Len(s) \in Nat
    BY <1>1, <1>2
  <2> HIDE <1>1, <1>2
  <2> QED
    BY <2>1, <2>2
<1>5. \A j \in 1..Len(s)-1 : ~(j < i) => back[j-(i-1)] = s[j+1]
  BY <1>2
<1> QED
  BY <1>1, <1>3, <1>4, <1>5

\* The victim of an eviction is a place in a pool of the map.
LEMMA EvictVictim ==
    ASSUME TypeOK, NEW c \in Callers, Evict(c)
    PROVE  \E p \in Mapped : \E i \in 1..Len(idle[p]) :
              /\ p \in PoolIds
              /\ idle' = [idle EXCEPT ![p] = RemoveAt(idle[p], i)]
              /\ open' = open \ {idle[p][i].L}
              /\ live' = live - 1
<1>1. PICK s \in OldestIdle :
         /\ idle' = [idle EXCEPT ![s[1]] = RemoveAt(idle[s[1]], s[2])]
         /\ open' = open \ {StateAt(s).L}
         /\ live' = live - 1
  BY DEF Evict
<1>2. s[1] \in Mapped /\ s[1] \in PoolIds /\ s[2] \in 1..Len(idle[s[1]])
  BY SMTT(30), <1>1 DEF OldestIdle, Slots, Mapped, TypeOK
<1> QED
  BY <1>1, <1>2 DEF StateAt

\* A State that release puts on an idle list goes to a pool of the map.
LEMMA ReleasedPool ==
    ASSUME TypeOK, Keyed, EntryLife, NEW c \in Callers, Release(c), ~Discards(c)
    PROVE  ref[c] \in Mapped
<1>1. /\ ref[c] \in PoolIds /\ keyOf[ref[c]] \in Keys
      /\ phase[ref[c]] = "ready" /\ ~dropped[ref[c]]
  BY DEF Release, Discards, TypeOK, Keyed, EntryLife, EntryInv, OnceAgrees, PastGetPool
<1> QED
  BY <1>1 DEF EntryLife, ReadyCurrent, Mapped

\* The janitor takes exactly the expired pools out of the map.
LEMMA SweptMap ==
    ASSUME pools' = [k \in Keys |-> IF pools[k] \in Expired THEN None ELSE pools[k]]
    PROVE  Mapped' = Mapped \ Expired
BY DEF Mapped

\* Every step keeps the idle States in the map.
LEMMA IdleOnlyInMapStep ==
    ASSUME TypeOK, Keyed, EntryLife, IdleOnlyInMap, SweepApart, [Next]_vars
    PROVE  IdleOnlyInMap'
<1> USE DEF callVars, mapVars, entryVars, poolVars, slotVars, waitVars, envVars
\* Steps that bring no pool into use nor take one out of the map.
<1>a. ASSUME Mapped' = Mapped, UsedPools' \subseteq UsedPools, closed' = closed,
             \A p \in PoolIds : idle[p] = <<>> => idle'[p] = <<>>,
             closed => idle' = idle
      PROVE  IdleOnlyInMap'
  <2>1. UsedPools \subseteq PoolIds /\ Mapped \subseteq PoolIds
    BY DEF UsedPools, Mapped, TypeOK
  <2> QED
    BY <1>a, <2>1 DEF IdleOnlyInMap
<1>1. CASE UNCHANGED <<idle, pools, creating, ref, closed>>
  BY <1>1, <1>a DEF Mapped, UsedPools
<1>2. ASSUME NEW c \in Callers, Register(c) PROVE IdleOnlyInMap'
  <2>1. /\ ref[c] \in PoolIds /\ keyOf[ref[c]] \in Keys
        /\ pools' = [pools EXCEPT ![keyOf[ref[c]]] = ref[c]]
        /\ UNCHANGED <<idle, creating, ref, closed>>
    BY <1>2 DEF Register, TypeOK, Keyed
  <2>2. pools[keyOf[ref[c]]] = None
    BY <1>2, <2>1 DEF Register, EntryLife, EntryInv, OnceAgrees, LoadingCurrent, Loading
  <2>3. ref[c] \in UsedPools /\ idle[ref[c]] = <<>>
    <3>1. ref[c] \in UsedPools
      BY <2>1 DEF UsedPools
    <3>2. ref[c] \notin Mapped
      BY <2>1, <2>2 DEF Mapped, Keyed
    <3> QED
      BY <3>1, <3>2 DEF IdleOnlyInMap
  <2>4. Mapped' = Mapped \cup {ref[c]}
    BY <2>1, <2>2 DEF Mapped, TypeOK
  <2>5. UsedPools' = UsedPools
    BY <2>1, <2>3, <2>4 DEF UsedPools
  <2> QED
    BY <2>1, <2>3, <2>4, <2>5 DEF IdleOnlyInMap
<1>3. ASSUME NEW c \in Callers, Reuse(c) PROVE IdleOnlyInMap'
  <2>1. Mapped' = Mapped /\ UsedPools' = UsedPools /\ ~closed /\ closed' = closed
    BY <1>3 DEF Reuse, MayClaim, Mapped, UsedPools
  <2>2. \A p \in PoolIds : idle[p] = <<>> => idle'[p] = <<>>
    BY <1>3 DEF Reuse, TypeOK
  <2> QED
    BY <1>a, <2>1, <2>2
<1>4. ASSUME NEW c \in Callers, Evict(c) PROVE IdleOnlyInMap'
  <2>1. PICK p \in Mapped : \E i \in 1..Len(idle[p]) :
              idle' = [idle EXCEPT ![p] = RemoveAt(idle[p], i)]
    BY <1>4, EvictVictim
  <2>2. Mapped' = Mapped /\ UsedPools' = UsedPools /\ ~closed /\ closed' = closed
    BY <1>4 DEF Evict, MayClaim, Mapped, UsedPools
  <2>3. \A q \in PoolIds : idle[q] = <<>> => idle'[q] = <<>>
    <3>1. idle[p] # <<>>
      BY <2>1
    <3> QED
      BY <2>1, <3>1 DEF TypeOK
  <2> QED
    BY <1>a, <2>2, <2>3
<1>5. ASSUME NEW c \in Callers, Release(c) PROVE IdleOnlyInMap'
  <2>1. /\ Mapped' = Mapped /\ UsedPools' \subseteq UsedPools /\ closed' = closed
        /\ ref[c] \in PoolIds
    <3>1. ref' = [ref EXCEPT ![c] = None] /\ UNCHANGED <<pools, creating, closed>>
      BY <1>5 DEF Release, Return
    <3> QED
      BY <1>5, <3>1 DEF Release, Mapped, UsedPools, TypeOK
  <2>2. CASE Discards(c)
    BY <1>5, <1>a, <2>1, <2>2 DEF Release
  <2>3. CASE ~Discards(c)
    <3>1. ref[c] \in Mapped /\ ~closed
      BY <1>5, <2>3, ReleasedPool DEF Discards
    <3>2. \A q \in PoolIds : q # ref[c] => idle'[q] = idle[q]
      BY <1>5, <2>1, <2>3 DEF Release, TypeOK
    <3>3. UsedPools \subseteq PoolIds
      BY DEF UsedPools, Mapped, TypeOK
    <3> QED
      BY <2>1, <3>1, <3>2, <3>3 DEF IdleOnlyInMap
  <2> QED
    BY <2>2, <2>3
<1>6. ASSUME NEW c \in Callers, NEW k \in Keys, RunCreate(c, k) PROVE IdleOnlyInMap'
  <2> DEFINE p == CHOOSE q \in PoolIds \ UsedPools : TRUE
  <2>1. p \in PoolIds \ UsedPools
    BY <1>6 DEF RunCreate
  <2>2. /\ creating' = [creating EXCEPT ![k] = p] /\ ref' = [ref EXCEPT ![c] = p]
        /\ idle' = [idle EXCEPT ![p] = <<>>] /\ UNCHANGED <<pools, closed>>
    BY <1>6 DEF RunCreate
  <2> HIDE DEF p
  <2>3. Mapped' = Mapped /\ UsedPools' \subseteq UsedPools \cup {p}
    BY <2>1, <2>2 DEF Mapped, UsedPools, TypeOK
  <2>4. /\ Mapped \subseteq UsedPools /\ UsedPools \subseteq PoolIds
    BY DEF UsedPools, Mapped, TypeOK
  <2>5. \A q \in PoolIds : idle'[q] = IF q = p THEN <<>> ELSE idle[q]
    BY <2>1, <2>2 DEF TypeOK
  <2> QED
    BY <2>1, <2>2, <2>3, <2>4, <2>5 DEF IdleOnlyInMap
<1>7. ASSUME NEW c \in Callers, NEW k \in Keys, RunHit(c, k) \/ RunJoin(c, k)
      PROVE  IdleOnlyInMap'
  <2>1. /\ ref' = [ref EXCEPT ![c] = pools[k]] \/ ref' = [ref EXCEPT ![c] = creating[k]]
        /\ UNCHANGED <<pools, creating, idle, closed>>
    BY <1>7 DEF RunHit, RunJoin
  <2>2. Mapped' = Mapped /\ UsedPools' \subseteq UsedPools
    BY <2>1 DEF Mapped, UsedPools, TypeOK
  <2> QED
    BY <1>a, <2>1, <2>2
<1>8. ASSUME NEW c \in Callers,
             OnceFailed(c) \/ AcquireClosed(c) \/ BuildFails(c) \/ Bail(c) \/ WaitClosed(c)
      PROVE  IdleOnlyInMap'
  <2>1. /\ ref' = [ref EXCEPT ![c] = None] /\ UNCHANGED <<pools, idle, closed>>
        /\ \A k \in Keys : creating'[k] \in {creating[k], None}
    BY <1>8 DEF OnceFailed, AcquireClosed, BuildFails, Bail, WaitClosed, Return
  <2>2. Mapped' = Mapped /\ UsedPools' \subseteq UsedPools
    BY <2>1 DEF Mapped, UsedPools, TypeOK
  <2> QED
    BY <1>a, <2>1, <2>2
<1>9. ASSUME NEW k \in Keys, NEW v \in Versions, Notify(k, v) PROVE IdleOnlyInMap'
  <2>1. /\ pools[k] \in PoolIds /\ pools' = [pools EXCEPT ![k] = None]
        /\ creating' = [creating EXCEPT ![k] = None] /\ UNCHANGED <<ref, closed>>
        /\ \A p \in PoolIds : idle'[p] = IF p = pools[k] THEN <<>> ELSE idle[p]
    BY <1>9 DEF Notify, ForgetEntry, ForgetIdle, TypeOK
  <2>2. \A p \in Mapped : p \in Mapped' \/ p = pools[k]
    BY <2>1 DEF Mapped, TypeOK
  <2>3. Mapped' \subseteq Mapped /\ UsedPools' \subseteq UsedPools
    BY <2>1 DEF Mapped, UsedPools, TypeOK
  <2>4. UsedPools \subseteq PoolIds /\ Mapped \subseteq PoolIds
    BY DEF UsedPools, Mapped, TypeOK
  <2> QED
    BY <2>1, <2>2, <2>3, <2>4 DEF IdleOnlyInMap
<1>10. CASE Close
  <2>1. UNCHANGED <<pools, creating, ref>>
    BY <1>10 DEF Close
  <2>2. \A p \in PoolIds : idle'[p] = IF p \in Mapped THEN <<>> ELSE idle[p]
    BY <1>10 DEF Close, ForgetIdle
  <2>3. Mapped' = Mapped /\ UsedPools' = UsedPools
    BY <2>1 DEF Mapped, UsedPools
  <2>4. UsedPools \subseteq PoolIds /\ Mapped \subseteq PoolIds
    BY DEF UsedPools, Mapped, TypeOK
  <2> QED
    BY <2>2, <2>3, <2>4 DEF IdleOnlyInMap
<1>11. CASE Sweep
  <2>1. \A c \in Callers : ref[c] \notin Expired
    BY <1>11 DEF SweepApart
  <2>2. /\ UNCHANGED <<idle, ref, closed>>
        /\ pools' = [k \in Keys |-> IF pools[k] \in Expired THEN None ELSE pools[k]]
        /\ creating' = [k \in Keys |-> IF pools[k] \in Expired THEN None ELSE creating[k]]
    BY <1>11 DEF Sweep
  <2>3. Mapped' = Mapped \ Expired
    BY <2>2, SweptMap
  <2>4. \A p \in UsedPools' : p \in UsedPools /\ p \notin Expired
    <3> SUFFICES ASSUME NEW p \in UsedPools' PROVE p \in UsedPools /\ p \notin Expired
      OBVIOUS
    <3>1. CASE p \in Mapped'
      BY <2>3, <3>1 DEF UsedPools
    <3>2. CASE \E c \in Callers : p = ref[c]
      BY <2>1, <3>2 DEF UsedPools
    <3>3. ASSUME NEW k \in Keys, p = creating'[k], p # None
          PROVE  p \in UsedPools /\ p \notin Expired
      <4>1. p = creating[k] /\ pools[k] \notin Expired
        BY <2>2, <3>3
      <4>2. p \notin Expired
        <5> SUFFICES ASSUME p \in Expired PROVE FALSE
          OBVIOUS
        <5>1. PICK j \in Keys : p = pools[j]
          BY DEF Expired, Mapped
        <5>2. j = k
          BY ZenonT(30), <3>3, <4>1, <5>1 DEF Keyed
        <5> QED
          BY <4>1, <5>1, <5>2
      <4> QED
        BY <3>3, <4>1, <4>2 DEF UsedPools
    <3> QED
      BY <2>2, <3>1, <3>2, <3>3 DEF UsedPools
  <2> QED
    BY <2>2, <2>3, <2>4 DEF IdleOnlyInMap
<1> QED
  BY <1>1, <1>2, <1>3, <1>4, <1>5, <1>6, <1>7, <1>8, <1>9, <1>10, <1>11
     DEF Next, vars, Run, CallStep, GetPoolStep, AcquireStep, BuildStep,
         RunClosed, LoadSource, LoadAnswer, LoadFails, OnceReturn,
         Reserve, Enqueue, TakeGrant, CtxDone, BuildDone, Publish, SweepStart, Tick

(***************************************************************************)
(* Ownership: every open State has one owner.                              *)
(***************************************************************************)

Owned == OneOwner /\ OpenIsOwned

\* Steps that move no State.
LEMMA OwnedUnmoved ==
    ASSUME Owned, UNCHANGED <<held, idle, open>>, Mapped' = Mapped
    PROVE  Owned'
BY DEF Owned, OneOwner, OpenIsOwned, Holding, HeldStates

\* A caller that owns nothing and returns moves none.
LEMMA ReturnUnmoved ==
    ASSUME TypeOK, NEW c \in Callers, Return(c), pc[c] # "run"
    PROVE  held' = held
BY DEF TypeOK, Return

\* The warmest idle State goes from the pool to the caller.
LEMMA OwnedReuse ==
    ASSUME TypeOK, Owned, IdleOnlyInMap, NEW c \in Callers, Reuse(c)
    PROVE  Owned'
<1> DEFINE p == ref[c]
           n == Len(idle[p])
<1>0. Mapped \subseteq PoolIds /\ Mapped' = Mapped
  BY DEF Reuse, mapVars, Mapped, TypeOK
<1>1. /\ p \in PoolIds /\ p \in Mapped /\ held[c] = None
      /\ idle[p] \in Seq(PooledState) /\ n \in Nat \ {0}
  BY DEF Reuse, MayClaim, TypeOK, IdleOnlyInMap, UsedPools
<1>2. /\ held' = [held EXCEPT ![c] = idle[p][n]]
      /\ idle' = [idle EXCEPT ![p] = SubSeq(idle[p], 1, n-1)]
      /\ open' = open
  BY DEF Reuse, Warmest, slotVars
<1>3. idle[p][n] \in PooledState /\ idle[p][n] # None
  BY <1>1
<1>4. /\ Len(SubSeq(idle[p], 1, n-1)) = n-1
      /\ \A i \in 1..n-1 : SubSeq(idle[p], 1, n-1)[i] = idle[p][i]
  BY <1>1
<1>5. \A q \in Mapped : DOMAIN idle[q] = 1..Len(idle[q]) /\ DOMAIN idle'[q] = 1..Len(idle'[q])
  BY <1>0, <1>1, <1>2 DEF TypeOK
<1>6. \A q \in Mapped : \A i \in DOMAIN idle'[q] :
         i \in DOMAIN idle[q] /\ idle'[q][i] = idle[q][i] /\ ~(q = p /\ i = n)
  BY SMTT(30), <1>0, <1>1, <1>2, <1>4, <1>5 DEF TypeOK
<1>7. \A q \in Mapped : \A i \in DOMAIN idle[q] : i \in DOMAIN idle'[q] \/ (q = p /\ i = n)
  BY <1>0, <1>1, <1>2, <1>4, <1>5 DEF TypeOK
<1>8. Holding' = Holding \cup {c} /\ held'[c] = idle[p][n]
      /\ \A d \in Callers : d # c => held'[d] = held[d]
  BY <1>2, <1>3 DEF Holding, TypeOK
<1>9. c \notin Holding /\ n \in DOMAIN idle[p]
  BY <1>1, <1>5 DEF Holding
<1> HIDE DEF p, n
<1>10. OneOwner'
  <2>1. \A d, e \in Holding' : held'[d].L = held'[e].L => d = e
    BY <1>1, <1>8, <1>9 DEF Owned, OneOwner, Holding
  <2>2. \A q, r \in Mapped : \A i \in DOMAIN idle'[q], j \in DOMAIN idle'[r] :
          idle'[q][i].L = idle'[r][j].L => q = r /\ i = j
    BY <1>6 DEF Owned, OneOwner
  <2>3. \A d \in Holding', q \in Mapped : \A i \in DOMAIN idle'[q] :
          held'[d].L # idle'[q][i].L
    BY <1>1, <1>6, <1>8, <1>9 DEF Owned, OneOwner, Holding
  <2> QED
    BY <1>0, <2>1, <2>2, <2>3 DEF OneOwner
<1>11. OpenIsOwned'
  <2>0. /\ \A q \in Mapped : \A i \in DOMAIN idle[q] : idle[q][i].L \in open
        /\ \A L \in open : \/ L \in HeldStates
                          \/ \E q \in Mapped : \E i \in DOMAIN idle[q] : idle[q][i].L = L
    BY DEF Owned, OpenIsOwned
  <2>1. HeldStates' \subseteq open'
    BY <1>1, <1>2, <1>8, <1>9 DEF Owned, OpenIsOwned, HeldStates, Holding
  <2>2. \A q \in Mapped : \A i \in DOMAIN idle'[q] : idle'[q][i].L \in open'
    <3> TAKE q \in Mapped
    <3> TAKE i \in DOMAIN idle'[q]
    <3>1. i \in DOMAIN idle[q] /\ idle'[q][i] = idle[q][i]
      BY <1>6
    <3>2. idle[q][i].L \in open
      BY <2>0, <3>1
    <3>3. open' = open
      BY <1>2
    <3> QED
      BY <3>1, <3>2, <3>3
  <2>3. HeldStates' = HeldStates \cup {idle[p][n].L}
    BY <1>8, <1>9 DEF HeldStates, Holding
  <2>4. \A L \in open' : \/ L \in HeldStates'
                         \/ \E q \in Mapped : \E i \in DOMAIN idle'[q] : idle'[q][i].L = L
    <3> TAKE L \in open'
    <3>1. CASE L \in HeldStates
      BY <2>3, <3>1
    <3>2. CASE \E q \in Mapped : \E i \in DOMAIN idle[q] : idle[q][i].L = L
      <4>1. PICK q \in Mapped : \E i \in DOMAIN idle[q] : idle[q][i].L = L
        BY <3>2
      <4>2. PICK i \in DOMAIN idle[q] : idle[q][i].L = L
        BY <4>1
      <4> QED
        BY <1>6, <1>7, <2>3, <4>2
    <3> QED
      BY <1>2, <2>0, <3>1, <3>2
  <2> QED
    BY <1>0, <2>1, <2>2, <2>4 DEF OpenIsOwned
<1> QED
  BY <1>10, <1>11 DEF Owned

\* A new State goes to the caller that built it.
LEMMA OwnedBuildDone ==
    ASSUME TypeOK, Owned, NEW c \in Callers, BuildDone(c)
    PROVE  Owned'
<1> DEFINE L == CHOOSE l \in StateIds \ UsedStates : TRUE
           ps == [L |-> L, version |-> version[ref[c]], idleSince |-> 0]
<1>0. Mapped' = Mapped
  BY DEF BuildDone, mapVars, Mapped
<1>1. L \in StateIds /\ L \notin open
  BY DEF BuildDone, UsedStates
<1>2. /\ held' = [held EXCEPT ![c] = ps] /\ open' = open \cup {L} /\ idle' = idle
      /\ ref[c] \in PoolIds /\ held[c] = None
  BY DEF BuildDone, poolVars, TypeOK
<1>3. ps \in PooledState /\ ps.L = L /\ ps # None
  <2>1. version[ref[c]] \in Versions
    BY <1>2 DEF TypeOK
  <2>2. ps \in PooledState
    BY <1>1, <2>1 DEF PooledState
  <2> QED
    BY <2>2
<1> HIDE DEF L, ps
<1>4. Holding' = Holding \cup {c} /\ c \notin Holding /\ held'[c] = ps
      /\ \A d \in Callers : d # c => held'[d] = held[d]
  BY <1>2, <1>3 DEF Holding, TypeOK
<1>5. HeldStates' = HeldStates \cup {L}
  BY <1>3, <1>4 DEF HeldStates, Holding
<1>6. \A d \in Holding : held[d].L # L
  BY <1>1 DEF Owned, OpenIsOwned, HeldStates
<1>7. OneOwner'
  BY <1>0, <1>1, <1>2, <1>3, <1>4, <1>6 DEF Owned, OneOwner, OpenIsOwned, Holding
<1>8. OpenIsOwned'
  BY <1>0, <1>2, <1>5 DEF Owned, OpenIsOwned
<1> QED
  BY <1>7, <1>8 DEF Owned

\* The victim of an eviction leaves its pool and is closed.
LEMMA OwnedEvict ==
    ASSUME TypeOK, Owned, NEW c \in Callers, Evict(c)
    PROVE  Owned'
<1>0. Mapped \subseteq PoolIds /\ Mapped' = Mapped
  BY DEF Evict, mapVars, Mapped, TypeOK
<1>1. PICK p \in Mapped : \E i \in 1..Len(idle[p]) :
         /\ p \in PoolIds
         /\ idle' = [idle EXCEPT ![p] = RemoveAt(idle[p], i)]
         /\ open' = open \ {idle[p][i].L}
         /\ live' = live - 1
  BY EvictVictim
<1>2. PICK i \in 1..Len(idle[p]) :
         /\ p \in PoolIds
         /\ idle' = [idle EXCEPT ![p] = RemoveAt(idle[p], i)]
         /\ open' = open \ {idle[p][i].L}
  BY <1>1
<1>3. held' = held /\ idle[p] \in Seq(PooledState)
  BY <1>2 DEF Evict, callVars, TypeOK
<1> DEFINE n == Len(idle[p])
<1>4. /\ Len(RemoveAt(idle[p], i)) = n - 1
      /\ \A j \in 1..n-1 : RemoveAt(idle[p], i)[j] = IF j < i THEN idle[p][j] ELSE idle[p][j+1]
      /\ RemoveAt(idle[p], i) \in Seq(PooledState)
  BY <1>3, RemoveAtElements, RemoveAtType
\* Where a State of the shortened list was before.
<1> DEFINE was(q, j) == IF q = p /\ j >= i THEN j + 1 ELSE j
<1>5. \A q \in Mapped : \A j \in DOMAIN idle'[q] :
         /\ j \in Nat /\ was(q, j) \in DOMAIN idle[q]
         /\ idle'[q][j] = idle[q][was(q, j)] /\ ~(q = p /\ was(q, j) = i)
  <2> TAKE q \in Mapped
  <2>1. CASE q # p
    BY <1>0, <1>2, <2>1 DEF TypeOK
  <2>2. CASE q = p
    <3>1. idle'[q] = RemoveAt(idle[p], i) /\ DOMAIN idle'[q] = 1..n-1
      <4>1. idle'[q] = RemoveAt(idle[p], i)
        BY <1>2, <2>2 DEF TypeOK
      <4>2. DOMAIN idle'[q] = 1..n-1
        BY <1>4, <4>1
      <4> QED
        BY <4>1, <4>2
    <3>2. DOMAIN idle[q] = 1..n /\ n \in Nat /\ i \in 1..n
      BY <1>3, <2>2
    <3> QED
      BY <1>4, <2>2, <3>1, <3>2
  <2> QED
    BY <2>1, <2>2
<1>6. \A q \in Mapped : \A j \in DOMAIN idle[q] :
         ~(q = p /\ j = i) => \E m \in DOMAIN idle'[q] : idle'[q][m] = idle[q][j]
  <2> TAKE q \in Mapped
  <2> TAKE j \in DOMAIN idle[q]
  <2> HAVE ~(q = p /\ j = i)
  <2>1. CASE q # p
    BY <1>0, <1>2, <2>1 DEF TypeOK
  <2>2. CASE q = p
    <3> DEFINE m == IF j < i THEN j ELSE j - 1
    <3>1. j \in 1..n /\ j # i
      BY <1>3, <2>2
    <3>2. m \in 1..n-1 /\ RemoveAt(idle[p], i)[m] = idle[p][j]
      BY <1>2, <1>4, <3>1
    <3>3. idle'[q] = RemoveAt(idle[p], i)
      BY <1>2, <2>2 DEF TypeOK
    <3>4. DOMAIN idle'[q] = 1..n-1
      BY <1>4, <3>3
    <3> QED
      BY <2>2, <3>2, <3>3, <3>4
  <2> QED
    BY <2>1, <2>2
<1>7. i \in DOMAIN idle[p]
  BY <1>3
<1>8. OneOwner'
  <2>1. \A q, r \in Mapped : \A j \in DOMAIN idle'[q], m \in DOMAIN idle'[r] :
          idle'[q][j].L = idle'[r][m].L => q = r /\ j = m
    <3> SUFFICES ASSUME NEW q \in Mapped, NEW r \in Mapped,
                        NEW j \in DOMAIN idle'[q], NEW m \in DOMAIN idle'[r],
                        idle'[q][j].L = idle'[r][m].L
                 PROVE  q = r /\ j = m
      OBVIOUS
    <3>1. q = r /\ was(q, j) = was(r, m)
      BY SMTT(30), <1>5 DEF Owned, OneOwner
    <3>2. j \in Nat /\ m \in Nat
      BY <1>5
    <3> QED
      BY <3>1, <3>2
  <2>2. \A d \in Holding', q \in Mapped : \A j \in DOMAIN idle'[q] :
          held'[d].L # idle'[q][j].L
    BY <1>3, <1>5 DEF Owned, OneOwner, Holding
  <2> QED
    BY <1>0, <1>3, <2>1, <2>2 DEF Owned, OneOwner, Holding
<1>9. OpenIsOwned'
  <2>1. HeldStates' \subseteq open'
    BY <1>2, <1>3, <1>7 DEF Owned, OneOwner, OpenIsOwned, HeldStates, Holding
  <2>2. \A q \in Mapped : \A j \in DOMAIN idle'[q] : idle'[q][j].L \in open'
    <3> TAKE q \in Mapped
    <3> TAKE j \in DOMAIN idle'[q]
    <3>1. idle[q][was(q, j)].L \in open
      BY <1>5 DEF Owned, OpenIsOwned
    <3>2. idle[q][was(q, j)].L # idle[p][i].L
      BY <1>2, <1>5, <1>7 DEF Owned, OneOwner
    <3>3. idle'[q][j] = idle[q][was(q, j)]
      BY <1>5
    <3> HIDE DEF was
    <3> QED
      BY <1>2, <3>1, <3>2, <3>3
  <2>3. \A L \in open' : \/ L \in HeldStates'
                         \/ \E q \in Mapped : \E j \in DOMAIN idle'[q] : idle'[q][j].L = L
    BY <1>2, <1>3, <1>6 DEF Owned, OpenIsOwned, HeldStates, Holding
  <2> QED
    BY <1>0, <2>1, <2>2, <2>3 DEF OpenIsOwned
<1> QED
  BY <1>8, <1>9 DEF Owned

\* A released State goes back to its pool, or is closed.
LEMMA OwnedRelease ==
    ASSUME TypeOK, Owned, Keyed, EntryLife, NEW c \in Callers, Release(c)
    PROVE  Owned'
<1> DEFINE p == ref[c]
           L == held[c].L
           ps == [held[c] EXCEPT !.idleSince = now]
           n == Len(idle[p])
<1>0. Mapped \subseteq PoolIds /\ Mapped' = Mapped
  BY DEF Release, mapVars, Mapped, TypeOK
<1>1. /\ p \in PoolIds /\ c \in Holding /\ held[c] \in PooledState
      /\ held' = [held EXCEPT ![c] = None]
      /\ idle[p] \in Seq(PooledState) /\ n \in Nat
  BY DEF Release, Return, TypeOK, Holding
<1>2. ps \in PooledState /\ ps.L = L
  BY <1>1 DEF PooledState, TypeOK
<1>3. \/ open' = open \ {L} /\ idle' = idle
      \/ p \in Mapped /\ open' = open /\ idle' = [idle EXCEPT ![p] = Append(idle[p], ps)]
  <2>1. CASE Discards(c)
    BY <2>1 DEF Release
  <2>2. CASE ~Discards(c)
    <3>1. p \in Mapped
      BY <2>2, ReleasedPool
    <3> QED
      BY <2>2, <3>1 DEF Release, slotVars
  <2> QED
    BY <2>1, <2>2
<1> HIDE DEF ps
<1>4. Holding' = Holding \ {c} /\ \A d \in Holding' : held'[d] = held[d]
  BY <1>1 DEF Holding, TypeOK
<1>5. \A d \in Holding' : held[d].L # L
  BY <1>1, <1>4 DEF Owned, OneOwner
<1>6. HeldStates' = HeldStates \ {L} /\ L \in HeldStates
  BY <1>1, <1>4, <1>5 DEF HeldStates
<1>7. CASE open' = open \ {L} /\ idle' = idle
  <2>1. OneOwner'
    BY <1>0, <1>4, <1>7 DEF Owned, OneOwner
  <2>2. \A q \in Mapped : \A i \in DOMAIN idle[q] : idle[q][i].L # L
    BY <1>1 DEF Owned, OneOwner
  <2>3. OpenIsOwned'
    BY <1>0, <1>6, <1>7, <2>2 DEF Owned, OpenIsOwned
  <2> QED
    BY <2>1, <2>3 DEF Owned
<1>8. CASE p \in Mapped /\ open' = open /\ idle' = [idle EXCEPT ![p] = Append(idle[p], ps)]
  <2>1. /\ Len(Append(idle[p], ps)) = n + 1 /\ Append(idle[p], ps)[n+1] = ps
        /\ \A i \in 1..n : Append(idle[p], ps)[i] = idle[p][i]
        /\ DOMAIN idle[p] = 1..n /\ DOMAIN Append(idle[p], ps) = 1..n+1
    BY <1>1, <1>2
  <2>2. /\ \A q \in Mapped : q # p => idle'[q] = idle[q]
        /\ idle'[p] = Append(idle[p], ps)
    BY <1>0, <1>1, <1>8 DEF TypeOK
  <2>3. \A q \in Mapped : \A i \in DOMAIN idle'[q] :
           \/ i \in DOMAIN idle[q] /\ idle'[q][i] = idle[q][i] /\ ~(q = p /\ i = n+1)
           \/ q = p /\ i = n+1 /\ idle'[q][i] = ps
    <3> TAKE q \in Mapped
    <3> TAKE i \in DOMAIN idle'[q]
    <3>1. CASE q # p
      BY <2>2, <3>1
    <3>2. CASE q = p
      BY SMTT(30), <1>1, <2>1, <2>2, <3>2
    <3> QED
      BY <3>1, <3>2
  <2>4. \A q \in Mapped : \A i \in DOMAIN idle[q] :
           i \in DOMAIN idle'[q] /\ idle'[q][i] = idle[q][i]
    <3> TAKE q \in Mapped
    <3> TAKE i \in DOMAIN idle[q]
    <3>1. CASE q # p
      BY <2>2, <3>1
    <3>2. CASE q = p
      BY <1>1, <2>1, <2>2, <3>2
    <3> QED
      BY <3>1, <3>2
  <2>5. n+1 \in DOMAIN idle'[p] /\ idle'[p][n+1] = ps /\ p \in Mapped
    BY <1>8, <1>1, <2>1, <2>2
  <2>6. \A q \in Mapped : \A i \in DOMAIN idle[q] : idle[q][i].L # L
    BY <1>1 DEF Owned, OneOwner
  <2>7. OneOwner'
    <3>1. \A d, e \in Holding' : held'[d].L = held'[e].L => d = e
      BY <1>4 DEF Owned, OneOwner
    <3>2. \A q, r \in Mapped : \A i \in DOMAIN idle'[q], j \in DOMAIN idle'[r] :
            idle'[q][i].L = idle'[r][j].L => q = r /\ i = j
      <4> SUFFICES ASSUME NEW q \in Mapped, NEW r \in Mapped,
                          NEW i \in DOMAIN idle'[q], NEW j \in DOMAIN idle'[r],
                          idle'[q][i].L = idle'[r][j].L
                   PROVE  q = r /\ i = j
        OBVIOUS
      <4>1. CASE /\ i \in DOMAIN idle[q] /\ idle'[q][i] = idle[q][i]
                 /\ j \in DOMAIN idle[r] /\ idle'[r][j] = idle[r][j]
        BY <4>1 DEF Owned, OneOwner
      <4> QED
        BY <1>2, <2>3, <2>6, <4>1
    <3>3. \A d \in Holding', q \in Mapped : \A i \in DOMAIN idle'[q] :
            held'[d].L # idle'[q][i].L
      <4> SUFFICES ASSUME NEW d \in Holding', NEW q \in Mapped, NEW i \in DOMAIN idle'[q]
                   PROVE  held'[d].L # idle'[q][i].L
        OBVIOUS
      <4>1. d \in Holding /\ held'[d] = held[d]
        BY <1>4
      <4>2. CASE i \in DOMAIN idle[q] /\ idle'[q][i] = idle[q][i]
        BY <4>1, <4>2 DEF Owned, OneOwner
      <4> QED
        BY <1>2, <1>5, <2>3, <4>1, <4>2
    <3> QED
      BY <1>0, <3>1, <3>2, <3>3 DEF OneOwner
  <2>8. OpenIsOwned'
    <3>0. HeldStates \subseteq open
      BY DEF Owned, OpenIsOwned
    <3>1. HeldStates' \subseteq open'
      BY <1>6, <1>8, <3>0
    <3>2. \A q \in Mapped : \A i \in DOMAIN idle'[q] : idle'[q][i].L \in open'
      <4> TAKE q \in Mapped
      <4> TAKE i \in DOMAIN idle'[q]
      <4>1. CASE i \in DOMAIN idle[q] /\ idle'[q][i] = idle[q][i]
        BY <1>8, <4>1 DEF Owned, OpenIsOwned
      <4> QED
        BY <1>2, <1>6, <1>8, <2>3, <3>0, <4>1
    <3>3. \A M \in open' : \/ M \in HeldStates'
                           \/ \E q \in Mapped : \E i \in DOMAIN idle'[q] : idle'[q][i].L = M
      <4> TAKE M \in open'
      <4>1. CASE M = L
        BY <1>1, <1>2, <2>5, <4>1
      <4>2. CASE M \in HeldStates /\ M # L
        BY <1>6, <4>2
      <4>3. CASE \E q \in Mapped : \E i \in DOMAIN idle[q] : idle[q][i].L = M
        BY <2>4, <4>3
      <4> QED
        BY <1>8, <4>1, <4>2, <4>3 DEF Owned, OpenIsOwned
    <3> QED
      BY <1>0, <3>1, <3>2, <3>3 DEF OpenIsOwned
  <2> QED
    BY <2>7, <2>8 DEF Owned
<1> QED
  BY <1>3, <1>7, <1>8

\* The idle States of the map's pools are open, and in one place each.
IdleSound ==
    /\ \A p \in Mapped : \A i \in DOMAIN idle[p] : idle[p][i].L \in open
    /\ \A p, q \in Mapped : \A i \in DOMAIN idle[p], j \in DOMAIN idle[q] :
          idle[p][i].L = idle[q][j].L => p = q /\ i = j

LEMMA OwnedIdle == Owned => IdleSound
BY DEF Owned, OneOwner, OpenIsOwned, IdleSound

\* The idle States of retired pools are open, and as many as their places.
LEMMA RetiredStates ==
    ASSUME TypeOK, IdleSound, NEW P \in SUBSET Mapped
    PROVE  /\ IdleStates(P) \subseteq open
           /\ IsFiniteSet(IdleStates(P))
           /\ Cardinality(IdleStates(P)) = Cardinality(Slots(P))
<1>1. \A s \in Slots(P) : s[1] \in P /\ s[2] \in DOMAIN idle[s[1]] /\ s = <<s[1], s[2]>>
  BY DEF Slots
<1>2. IdleStates(P) \subseteq open
  BY <1>1 DEF IdleStates, StateAt, IdleSound
<1> DEFINE f == [s \in Slots(P) |-> StateAt(s).L]
<1>3. \A s, t \in Slots(P) : StateAt(s).L = StateAt(t).L => s = t
  BY <1>1 DEF StateAt, IdleSound
<1>4. f \in Bijection(Slots(P), IdleStates(P))
  <2>1. IdleStates(P) = {StateAt(s).L : s \in Slots(P)}
    BY DEF IdleStates
  <2>2. f \in Surjection(Slots(P), IdleStates(P))
    BY <2>1 DEF Surjection
  <2>3. f \in Injection(Slots(P), IdleStates(P))
    <3>1. \A s, t \in Slots(P) : f[s] = f[t] => s = t
      BY <1>3
    <3>2. f \in [Slots(P) -> IdleStates(P)]
      BY <2>1
    <3> HIDE DEF f
    <3> QED
      BY <3>1, <3>2 DEF Injection, IsInjective
  <2> QED
    BY <2>2, <2>3 DEF Bijection
<1>5. IsFiniteSet(Slots(P))
  <2>1. P \in SUBSET PoolIds
    BY DEF Mapped, TypeOK
  <2>2. idle \in [PoolIds -> Seq(PooledState)]
    BY DEF TypeOK
  <2> QED
    BY <2>1, <2>2, SlotsFinite
<1>6. ExistsBijection(Slots(P), IdleStates(P))
  BY <1>4 DEF ExistsBijection
<1> QED
  BY <1>2, <1>5, <1>6, FS_Bijection

\* Retiring pools closes their idle States and no other.
LEMMA OwnedRetire ==
    ASSUME TypeOK, Owned, NEW P \in SUBSET Mapped, CloseIdle(P), held' = held,
           \A q \in Mapped' : q \in Mapped /\ idle'[q] = IF q \in P THEN <<>> ELSE idle[q],
           \A q \in P : q \in Mapped' => idle'[q] = <<>>,
           Mapped \ P \subseteq Mapped'
    PROVE  Owned'
<1>2. \A q \in Mapped' : \A i \in DOMAIN idle'[q] :
         q \in Mapped /\ q \notin P /\ i \in DOMAIN idle[q] /\ idle'[q][i] = idle[q][i]
  OBVIOUS
<1>3. \A q \in Mapped \ P : q \in Mapped' /\ idle'[q] = idle[q]
  OBVIOUS
<1>4. \A M : M \in IdleStates(P) <=> \E q \in P : \E i \in DOMAIN idle[q] : idle[q][i].L = M
  <2> TAKE M
  <2>1. ASSUME M \in IdleStates(P)
        PROVE  \E q \in P : \E i \in DOMAIN idle[q] : idle[q][i].L = M
    <3>1. PICK s \in Slots(P) : StateAt(s).L = M
      BY <2>1 DEF IdleStates
    <3>2. s[1] \in P /\ s[2] \in DOMAIN idle[s[1]]
      BY DEF Slots
    <3> QED
      BY <3>1, <3>2 DEF StateAt
  <2>2. ASSUME NEW q \in P, NEW i \in DOMAIN idle[q], idle[q][i].L = M
        PROVE  M \in IdleStates(P)
    <3>1. <<q, i>> \in Slots(P)
      BY DEF Slots
    <3>2. StateAt(<<q, i>>).L = M
      BY <2>2 DEF StateAt
    <3> QED
      BY <3>1, <3>2 DEF IdleStates
  <2> QED
    BY <2>1, <2>2
<1>5. open' = open \ IdleStates(P) /\ HeldStates' = HeldStates /\ Holding' = Holding
  BY DEF CloseIdle, HeldStates, Holding
<1>6. OneOwner'
  <2>1. \A q, r \in Mapped' : \A i \in DOMAIN idle'[q], j \in DOMAIN idle'[r] :
          idle'[q][i].L = idle'[r][j].L => q = r /\ i = j
    BY <1>2 DEF Owned, OneOwner
  <2>2. \A d \in Holding', q \in Mapped' : \A i \in DOMAIN idle'[q] :
          held'[d].L # idle'[q][i].L
    BY <1>2, <1>5 DEF Owned, OneOwner
  <2>3. \A d, e \in Holding' : held'[d].L = held'[e].L => d = e
    BY <1>5 DEF Owned, OneOwner
  <2> QED
    BY <2>1, <2>2, <2>3 DEF OneOwner
<1>7. OpenIsOwned'
  <2>1. HeldStates' \subseteq open'
    <3>1. \A d \in Holding : held[d].L \notin IdleStates(P)
      BY <1>4 DEF Owned, OneOwner
    <3>2. HeldStates \subseteq open
      BY DEF Owned, OpenIsOwned
    <3> QED
      BY <1>5, <3>1, <3>2 DEF HeldStates
  <2>2. \A q \in Mapped' : \A i \in DOMAIN idle'[q] : idle'[q][i].L \in open'
    <3> TAKE q \in Mapped'
    <3> TAKE i \in DOMAIN idle'[q]
    <3>1. q \in Mapped /\ q \notin P /\ i \in DOMAIN idle[q] /\ idle'[q][i] = idle[q][i]
      BY <1>2
    <3>2. idle[q][i].L \in open
      BY <3>1 DEF Owned, OpenIsOwned
    <3>3. idle[q][i].L \notin IdleStates(P)
      BY <1>4, <3>1 DEF Owned, OneOwner
    <3> QED
      BY <1>5, <3>1, <3>2, <3>3
  <2>3. \A M \in open' : \/ M \in HeldStates'
                         \/ \E q \in Mapped' : \E i \in DOMAIN idle'[q] : idle'[q][i].L = M
    <3> TAKE M \in open'
    <3>1. CASE M \in HeldStates
      BY <1>5, <3>1
    <3>2. CASE \E q \in Mapped : \E i \in DOMAIN idle[q] : idle[q][i].L = M
      BY <1>3, <1>4, <1>5, <3>2
    <3> QED
      BY <1>5, <3>1, <3>2 DEF Owned, OpenIsOwned
  <2> QED
    BY <2>1, <2>2, <2>3 DEF OpenIsOwned
<1> QED
  BY <1>6, <1>7 DEF Owned

\* Every step keeps each open State with one owner.
LEMMA OwnedStep ==
    ASSUME TypeOK, Keyed, EntryLife, IdleOnlyInMap, Owned, SweepApart, [Next]_vars
    PROVE  Owned'
<1> USE DEF callVars, mapVars, entryVars, poolVars, slotVars, waitVars, envVars
<1>1. CASE UNCHANGED <<held, idle, open, pools>>
  BY <1>1, OwnedUnmoved DEF Mapped
<1>2. ASSUME NEW c \in Callers, \/ OnceFailed(c) \/ AcquireClosed(c) \/ Bail(c)
                                \/ WaitClosed(c) \/ BuildFails(c)
      PROVE  Owned'
  <2>1. Return(c) /\ pc[c] # "run" /\ UNCHANGED <<idle, open, pools>>
    BY <1>2 DEF OnceFailed, AcquireClosed, Bail, WaitClosed, BuildFails
  <2> QED
    BY <1>1, <2>1, ReturnUnmoved
<1>3. ASSUME NEW c \in Callers, NEW k \in Keys, RunCreate(c, k) PROVE Owned'
  <2> DEFINE p == CHOOSE q \in PoolIds \ UsedPools : TRUE
  <2>1. p \in PoolIds \ UsedPools
    BY <1>3 DEF RunCreate
  <2>2. idle' = [idle EXCEPT ![p] = <<>>] /\ UNCHANGED <<held, open, pools>>
    BY <1>3 DEF RunCreate
  <2> HIDE DEF p
  <2>3. Mapped' = Mapped /\ \A q \in Mapped : idle'[q] = idle[q]
    BY <2>1, <2>2 DEF Mapped, UsedPools, TypeOK
  <2> QED
    BY <2>2, <2>3 DEF Owned, OneOwner, OpenIsOwned, Holding, HeldStates
<1>4. ASSUME NEW c \in Callers, Register(c) PROVE Owned'
  <2>1. /\ ref[c] \in PoolIds /\ keyOf[ref[c]] \in Keys
        /\ pools' = [pools EXCEPT ![keyOf[ref[c]]] = ref[c]]
        /\ UNCHANGED <<held, idle, open>>
    BY <1>4 DEF Register, TypeOK, Keyed
  <2>2. pools[keyOf[ref[c]]] = None
    BY <1>4, <2>1 DEF Register, EntryLife, EntryInv, OnceAgrees, LoadingCurrent, Loading
  <2>3. Mapped' = Mapped \cup {ref[c]}
    BY <2>1, <2>2 DEF Mapped, TypeOK
  <2>4. idle[ref[c]] = <<>>
    BY <2>1, <2>2 DEF IdleOnlyInMap, UsedPools, Mapped, Keyed
  <2> QED
    BY <2>1, <2>3, <2>4 DEF Owned, OneOwner, OpenIsOwned, Holding, HeldStates
<1>5. ASSUME NEW k \in Keys, NEW v \in Versions, Notify(k, v) PROVE Owned'
  <2>1. /\ pools[k] \in PoolIds /\ {pools[k]} \in SUBSET Mapped
        /\ CloseIdle({pools[k]}) /\ held' = held
        /\ pools' = [pools EXCEPT ![k] = None]
        /\ \A p \in PoolIds : idle'[p] = IF p \in {pools[k]} THEN <<>> ELSE idle[p]
    BY <1>5 DEF Notify, ForgetEntry, ForgetIdle, Mapped, TypeOK
  <2>2. /\ Mapped' \subseteq Mapped /\ Mapped \subseteq PoolIds
        /\ Mapped \ {pools[k]} \subseteq Mapped'
    BY <2>1 DEF Mapped, TypeOK
  <2> QED
    BY <2>1, <2>2, OwnedRetire
<1>6. CASE Close
  <2>1. /\ Mapped \in SUBSET Mapped /\ CloseIdle(Mapped) /\ held' = held
        /\ Mapped' = Mapped /\ Mapped \subseteq PoolIds
        /\ \A p \in PoolIds : idle'[p] = IF p \in Mapped THEN <<>> ELSE idle[p]
    BY <1>6 DEF Close, ForgetIdle, Mapped, TypeOK
  <2> QED
    BY <2>1, OwnedRetire
<1>7. CASE Sweep
  <2>1. /\ Expired \in SUBSET Mapped /\ CloseIdle(Expired)
        /\ held' = held /\ idle' = idle
    BY <1>7 DEF Sweep, Expired
  <2>2. Mapped' = Mapped \ Expired
    BY <1>7, SweptMap DEF Sweep
  <2> QED
    BY <2>1, <2>2, OwnedRetire
<1> QED
  BY <1>1, <1>2, <1>3, <1>4, <1>5, <1>6, <1>7, OwnedReuse, OwnedBuildDone, OwnedEvict, OwnedRelease
     DEF Next, vars, Run, CallStep, GetPoolStep, AcquireStep, BuildStep,
         RunHit, RunJoin, RunClosed, LoadSource, LoadAnswer, LoadFails, OnceReturn,
         Reserve, Enqueue, TakeGrant, CtxDone, Publish, SweepStart, Tick

(***************************************************************************)
(* The counter: live is the number of open States and reserved slots.      *)
(***************************************************************************)

\* The open States and the reserved slots can be counted.
LEMMA Finite ==
    ASSUME TypeOK
    PROVE  /\ IsFiniteSet(open) /\ Cardinality(open) \in Nat
           /\ IsFiniteSet(Building) /\ Cardinality(Building) \in Nat
<1>1. IsFiniteSet(open) /\ IsFiniteSet(Building)
  BY FinitenessAssumption, FS_Subset DEF TypeOK, Building
<1> QED
  BY <1>1, FS_CardinalityType

\* live, less the open States and the reserved slots.
Surplus == live - (Cardinality(open) + Cardinality(Building))

\* While what is closed was open, every step counts what it opens, reserves and
\* closes.
LEMMA CountMoves ==
    ASSUME TypeOK, IdleSound, [Next]_vars,
           \A c \in Callers : pc[c] = "run" /\ Discards(c) => held[c].L \in open
    PROVE  Surplus' = Surplus
<1> USE DEF callVars, mapVars, entryVars, poolVars, slotVars, waitVars, envVars
<1>0. live \in Int /\ Cardinality(open) \in Nat /\ Cardinality(Building) \in Nat
  BY Finite DEF TypeOK
<1>a. ASSUME NEW n \in Nat, live' = live - n, Building' = Building,
             Cardinality(open') = Cardinality(open) - n
      PROVE  Surplus' = Surplus
  <2>1. Cardinality(Building') = Cardinality(Building)
    BY <1>a
  <2> QED
    BY <1>0, <1>a, <2>1 DEF Surplus
<1>1. ASSUME UNCHANGED <<live, open>>, Building' = Building PROVE Surplus' = Surplus
  BY <1>1 DEF Surplus
<1>2. CASE UNCHANGED <<pc, live, open>>
  BY <1>1, <1>2 DEF Building
<1>3. ASSUME NEW c \in Callers, pc[c] # "build", UNCHANGED <<live, open>>,
             \E l : l # "build" /\ pc' = [pc EXCEPT ![c] = l]
      PROVE  Surplus' = Surplus
  <2>1. Building' = Building
    BY <1>3 DEF Building, TypeOK
  <2> QED
    BY <1>1, <1>3, <2>1
<1>4. ASSUME NEW c \in Callers, Reserve(c) PROVE Surplus' = Surplus
  <2>1. /\ Building' = Building \cup {c} /\ c \notin Building
        /\ live' = live + 1 /\ open' = open
    BY <1>4 DEF Reserve, MayClaim, Goto, Building, TypeOK
  <2>2. Cardinality(Building') = Cardinality(Building) + 1
    BY <2>1, Finite, FS_AddElement
  <2> QED
    BY <1>0, <2>1, <2>2 DEF Surplus
<1>5. ASSUME NEW c \in Callers, BuildDone(c) PROVE Surplus' = Surplus
  <2> DEFINE L == CHOOSE l \in StateIds \ UsedStates : TRUE
  <2>1. L \notin open /\ open' = open \cup {L} /\ live' = live
    BY <1>5 DEF BuildDone, UsedStates
  <2>2. Building' = Building \ {c} /\ c \in Building
    BY <1>5 DEF BuildDone, Goto, Building, TypeOK
  <2> HIDE DEF L
  <2>3. Cardinality(open') = Cardinality(open) + 1
    BY <2>1, Finite, FS_AddElement
  <2>4. Cardinality(Building') = Cardinality(Building) - 1
    BY <2>2, Finite, FS_RemoveElement
  <2> QED
    BY <1>0, <2>1, <2>3, <2>4 DEF Surplus
<1>6. ASSUME NEW c \in Callers, BuildFails(c) PROVE Surplus' = Surplus
  <2>1. /\ Building' = Building \ {c} /\ c \in Building
        /\ open' = open /\ live' = live - 1
    BY <1>6 DEF BuildFails, Return, Building, TypeOK
  <2>2. Cardinality(Building') = Cardinality(Building) - 1
    BY <2>1, Finite, FS_RemoveElement
  <2> QED
    BY <1>0, <2>1, <2>2 DEF Surplus
<1>7. ASSUME NEW c \in Callers, Evict(c) PROVE Surplus' = Surplus
  <2>1. PICK p \in Mapped : \E i \in 1..Len(idle[p]) :
           /\ p \in PoolIds /\ open' = open \ {idle[p][i].L} /\ live' = live - 1
    BY <1>7, EvictVictim
  <2>2. PICK i \in 1..Len(idle[p]) :
           p \in PoolIds /\ open' = open \ {idle[p][i].L} /\ live' = live - 1
    BY <2>1
  <2>3. i \in DOMAIN idle[p]
    BY <2>2 DEF TypeOK
  <2>4. idle[p][i].L \in open
    BY <2>2, <2>3 DEF IdleSound
  <2>5. Cardinality(open') = Cardinality(open) - 1
    BY ZenonT(60), <2>2, <2>4, Finite, FS_RemoveElement
  <2>6. Building' = Building
    BY <1>7 DEF Evict, Building
  <2> QED
    BY <1>a, <2>2, <2>5, <2>6
<1>8. ASSUME NEW c \in Callers, Release(c) PROVE Surplus' = Surplus
  <2>1. Building' = Building
    BY <1>8 DEF Release, Return, Building, TypeOK
  <2>2. CASE Discards(c)
    <3>1. open' = open \ {held[c].L} /\ live' = live - 1
      BY <1>8, <2>2 DEF Release
    <3>2. held[c].L \in open
      BY <1>8, <2>2 DEF Release
    <3>3. Cardinality(open') = Cardinality(open) - 1
      BY <3>1, <3>2, Finite, FS_RemoveElement
    <3> QED
      BY <1>a, <2>1, <3>1, <3>3
  <2>3. CASE ~Discards(c)
    BY <1>1, <1>8, <2>1, <2>3 DEF Release
  <2> QED
    BY <2>2, <2>3
<1>9. ASSUME NEW P \in SUBSET Mapped, CloseIdle(P), pc' = pc PROVE Surplus' = Surplus
  <2>1. open' = open \ IdleStates(P) /\ live' = live - Cardinality(Slots(P))
    BY <1>9 DEF CloseIdle
  <2>2. /\ IdleStates(P) \subseteq open
        /\ Cardinality(IdleStates(P)) = Cardinality(Slots(P))
    BY RetiredStates
  <2>3. open \cap IdleStates(P) = IdleStates(P)
    BY <2>2
  <2>4. Cardinality(open') = Cardinality(open) - Cardinality(Slots(P))
    <3>1. Cardinality(open \ IdleStates(P))
            = Cardinality(open) - Cardinality(open \cap IdleStates(P))
      BY Finite, FS_Difference
    <3> QED
      BY <2>1, <2>2, <2>3, <3>1
  <2>5. Cardinality(Slots(P)) \in Nat
    BY <2>2, FS_CardinalityType, RetiredStates, Finite, FS_Subset
  <2>6. Building' = Building
    BY <1>9 DEF Building
  <2> QED
    BY <1>a, <2>1, <2>4, <2>5, <2>6
<1>10. ASSUME NEW k \in Keys, NEW v \in Versions, Notify(k, v) PROVE Surplus' = Surplus
  <2>1. {pools[k]} \in SUBSET Mapped /\ CloseIdle({pools[k]}) /\ pc' = pc
    BY <1>10 DEF Notify, ForgetEntry, Mapped
  <2> QED
    BY <1>9, <2>1
<1>11. CASE Close
  <2>1. Mapped \in SUBSET Mapped /\ CloseIdle(Mapped) /\ pc' = pc
    BY <1>11 DEF Close
  <2> QED
    BY <1>9, <2>1
<1>12. CASE Sweep
  <2>1. Expired \in SUBSET Mapped /\ CloseIdle(Expired) /\ pc' = pc
    BY <1>12 DEF Sweep, Expired
  <2> QED
    BY <1>9, <2>1
<1>13. ASSUME NEW c \in Callers,
              \/ CtxDone(c) \/ LoadSource(c) \/ Register(c) \/ OnceReturn(c)
              \/ OnceFailed(c) \/ AcquireClosed(c) \/ Reuse(c) \/ Enqueue(c)
              \/ TakeGrant(c) \/ Bail(c) \/ WaitClosed(c)
       PROVE  Surplus' = Surplus
  <2>1. pc[c] # "build" /\ UNCHANGED <<live, open>>
    BY <1>13 DEF CtxDone, LoadSource, LoadAnswer, Register, OnceReturn, OnceFailed, AcquireClosed,
         Reuse, MayClaim, Enqueue, TakeGrant, Bail, WaitClosed
  <2>2. \E l : l # "build" /\ pc' = [pc EXCEPT ![c] = l]
    BY <1>13 DEF CtxDone, LoadSource, LoadAnswer, Register, OnceReturn, OnceFailed, AcquireClosed,
         Reuse, Enqueue, TakeGrant, Bail, WaitClosed, Goto, Return
  <2> QED
    BY <1>3, <2>1, <2>2
<1>14. ASSUME NEW c \in Callers, NEW k \in Keys, Run(c, k) PROVE Surplus' = Surplus
  <2>1. pc[c] # "build" /\ UNCHANGED <<live, open>>
    BY <1>14 DEF Run, RunHit, RunJoin, RunCreate
  <2>2. \E l : l # "build" /\ pc' = [pc EXCEPT ![c] = l]
    BY <1>14 DEF Run, RunHit, RunJoin, RunCreate, Goto
  <2> QED
    BY <1>3, <2>1, <2>2
<1> QED
  BY <1>2, <1>4, <1>5, <1>6, <1>7, <1>8, <1>10, <1>11, <1>12, <1>13, <1>14
     DEF Next, vars, CallStep, GetPoolStep, AcquireStep, BuildStep,
         RunClosed, LoadFails, Publish, SweepStart, Tick

\* Only a reservation under the cap makes live grow.
LEMMA LiveGrows ==
    ASSUME TypeOK, [Next]_vars
    PROVE  live' <= live \/ (~closed /\ live < MaxStates /\ live' = live + 1)
<1> USE DEF callVars, mapVars, entryVars, poolVars, slotVars, waitVars, envVars
<1>0. live \in Int
  BY DEF TypeOK
<1>1. CASE live' \in {live, live - 1}
  BY <1>0, <1>1
<1>2. ASSUME NEW c \in Callers, Reserve(c) PROVE ~closed /\ live < MaxStates /\ live' = live + 1
  BY <1>2 DEF Reserve, MayClaim, Room
<1>3. ASSUME NEW P \in SUBSET Mapped, CloseIdle(P) PROVE live' <= live
  <2>1. P \in SUBSET PoolIds /\ idle \in [PoolIds -> Seq(PooledState)]
    BY DEF Mapped, TypeOK
  <2>2. Cardinality(Slots(P)) \in Nat
    BY <2>1, SlotsFinite, FS_CardinalityType
  <2>3. live' = live - Cardinality(Slots(P))
    BY <1>3 DEF CloseIdle
  <2> QED
    BY <1>0, <2>2, <2>3
<1>4. ASSUME NEW k \in Keys, NEW v \in Versions, Notify(k, v) PROVE live' <= live
  <2>1. {pools[k]} \in SUBSET Mapped /\ CloseIdle({pools[k]})
    BY <1>4 DEF Notify, Mapped
  <2> QED
    BY <1>3, <2>1
<1>5. ASSUME Sweep \/ Close PROVE live' <= live
  <2>1. CASE Sweep
    BY <1>3, <2>1 DEF Sweep, Expired
  <2>2. CASE Close
    BY <1>3, <2>2 DEF Close
  <2> QED
    BY <1>5, <2>1, <2>2
<1>6. ASSUME NEW c \in Callers, Evict(c) \/ Release(c) \/ BuildFails(c) PROVE live' \in {live, live - 1}
  BY <1>6 DEF Evict, Release, BuildFails
<1>7. ASSUME NEW c \in Callers,
             \/ RunClosed(c) \/ CtxDone(c) \/ GetPoolStep(c) \/ AcquireClosed(c) \/ Reuse(c)
             \/ Enqueue(c) \/ TakeGrant(c) \/ Bail(c) \/ WaitClosed(c) \/ BuildDone(c)
      PROVE  live' = live
  BY <1>7 DEF RunClosed, CtxDone, GetPoolStep, LoadSource, LoadAnswer, LoadFails, Register,
              OnceReturn, OnceFailed, AcquireClosed, Reuse, Enqueue, TakeGrant, Bail, WaitClosed,
              BuildDone, vars
<1>8. ASSUME NEW c \in Callers, NEW k \in Keys, Run(c, k) PROVE live' = live
  BY <1>8 DEF Run, RunHit, RunJoin, RunCreate
<1>9. ASSUME UNCHANGED vars \/ (\E k \in Keys : Publish(k)) \/ SweepStart \/ Tick
      PROVE  live' = live
  BY <1>9 DEF Publish, SweepStart, Tick, vars
<1> QED
  BY <1>1, <1>2, <1>4, <1>5, <1>6, <1>7, <1>8, <1>9 DEF Next, CallStep, AcquireStep, BuildStep

\* The counts are numbers after a step, too.
LEMMA FiniteNext ==
    ASSUME TypeOK'
    PROVE  live' \in Int /\ Cardinality(open)' \in Nat /\ Cardinality(Building)' \in Nat
<1>1. IsFiniteSet(open') /\ IsFiniteSet(Building')
  BY FinitenessAssumption, FS_Subset DEF TypeOK, Building
<1>2. live' \in Int
  BY DEF TypeOK
<1> QED
  BY <1>1, <1>2, FS_CardinalityType

\* Every step keeps the count, and keeps it within the cap.
LEMMA LiveCountsStep ==
    ASSUME TypeOK, TypeOK', Owned, LiveCounts, [Next]_vars
    PROVE  LiveCounts'
<1>1. Surplus' = Surplus
  <2>1. \A c \in Callers : pc[c] = "run" => held[c].L \in open
    BY DEF TypeOK, Owned, OpenIsOwned, HeldStates, Holding
  <2> QED
    BY <2>1, OwnedIdle, CountMoves
<1>2. /\ live \in Int /\ MaxStates \in Nat
      /\ Cardinality(open) \in Nat /\ Cardinality(Building) \in Nat
  BY ConfigAssumption, Finite DEF TypeOK
<1>3. live' = Cardinality(open)' + Cardinality(Building)'
  <2>1. Surplus = 0
    BY <1>2 DEF Surplus, LiveCounts
  <2>2. live' - (Cardinality(open)' + Cardinality(Building)') = 0
    BY <1>1, <2>1 DEF Surplus
  <2> QED
    BY <2>2, FiniteNext
<1>4. live' <= MaxStates
  BY <1>2, FiniteNext, LiveGrows DEF LiveCounts
<1> QED
  BY <1>3, <1>4 DEF LiveCounts
=============================================================================
