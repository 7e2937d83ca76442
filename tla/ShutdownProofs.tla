--------------------------- MODULE ShutdownProofs ---------------------------
(***************************************************************************)
(* Shutdown returns only when nothing is left, and is woken for it.        *)
(*                                                                         *)
(* The clock stands still in Shutdown, so that its sweeps find no expired  *)
(* pool: it implements ApartSpec, and Runtime's inductive invariant IInv   *)
(* holds in it.                                                            *)
(***************************************************************************)
EXTENDS Shutdown, RuntimeTheorems

\* Every step is one of Runtime or leaves Runtime alone; the clock stands still.
LEMMA ShutdownStep ==
    ASSUME [ShutdownNext]_shutdownVars
    PROVE  [Next]_vars /\ now' = now
<1> USE DEF callVars, mapVars, entryVars, poolVars, slotVars, waitVars, envVars
<1>1. CASE UNCHANGED vars
  BY <1>1 DEF vars
<1>2. ASSUME NEW c \in Callers, FreeingStep(c) PROVE Next /\ now' = now
  BY <1>2 DEF FreeingStep, Next, CallStep, BuildStep, Release, BuildFails
<1>3. ASSUME NEW c \in Callers, QuietStep(c) PROVE Next /\ now' = now
  <2>1. Next
    BY <1>3 DEF QuietStep, Next, CallStep, BuildStep
  <2>2. now' = now
    BY <1>3 DEF QuietStep, GetPoolStep, AcquireStep, LoadSource, LoadAnswer, LoadFails,
         Register, OnceReturn, OnceFailed, AcquireClosed, Reuse, Reserve, Evict, Enqueue,
         TakeGrant, Bail, WaitClosed, BuildDone
  <2> QED
    BY <2>1, <2>2
<1>4. ASSUME NEW c \in Callers, NewCallStep(c) PROVE Next /\ now' = now
  <2>1. Next
    BY <1>4 DEF NewCallStep, Next
  <2>2. now' = now
    BY <1>4 DEF NewCallStep, Run, RunHit, RunJoin, RunCreate, RunClosed, vars
  <2> QED
    BY <2>1, <2>2
<1>5. ASSUME NEW c \in Callers, CancelStep(c) PROVE Next /\ now' = now
  BY <1>5 DEF CancelStep, CtxDone, Next
<1>6. ASSUME NEW k \in Keys, NEW v \in Versions, DropStep(k, v) PROVE Next /\ now' = now
  <2>1. Next
    BY <1>6 DEF DropStep, Next
  <2> QED
    BY <1>6, <2>1 DEF DropStep, Notify
<1>7. CASE SweepStep
  BY <1>7 DEF SweepStep, SweepStart, Sweep, Next
<1>8. ASSUME NEW d \in Closers, CloseFirst(d) PROVE Next /\ now' = now
  BY <1>8 DEF CloseFirst, Close, Next
<1>9. ASSUME NEW x, Signal(x) PROVE UNCHANGED vars
  BY <1>9 DEF Signal
<1>10. ASSUME NEW d \in Closers, Check(d) \/ TakeToken(d) \/ Recheck(d) \/ GiveUp(d) \/ CloseAgain(d)
       PROVE  UNCHANGED vars
  BY <1>10 DEF Check, TakeToken, Recheck, GiveUp, CloseAgain
<1> QED
  BY <1>1, <1>2, <1>3, <1>4, <1>5, <1>6, <1>7, <1>8, <1>9, <1>10
     DEF ShutdownNext, CallerStep, CloserStep, shutdownVars

\* While the clock stands still no pool expires, so that no sweep retires one.
LEMMA NothingExpires ==
    ASSUME TypeOK, SweepNowPast, now = 0, Sweep
    PROVE  Expired = {}
<1> SUFFICES ASSUME NEW p \in Mapped, sweepNow - lastUsed[p] > TTL PROVE FALSE
  BY DEF Expired
<1>1. p \in PoolIds
  BY DEF TypeOK, Mapped
<1>2. sweepNow \in Nat /\ sweepNow <= 0 /\ lastUsed[p] \in Nat /\ TTL \in Nat
  BY <1>1, ConfigAssumption DEF TypeOK, Times, Sweep, SweepNowPast
<1> QED
  BY <1>2

\* Shutdown implements the Runtime whose sweeps retire no pool in use.
THEOREM ShutdownImplementsApart == ShutdownSpec => ApartSpec
<1>1. ShutdownInit => Init /\ now = 0 /\ SweepNowPast
  BY DEF ShutdownInit, Init, SweepNowPast
<1>2. TypeOK /\ SweepNowPast /\ now = 0 /\ [ShutdownNext]_shutdownVars
        => [Next /\ SweepApart]_vars /\ (now = 0)' /\ SweepNowPast'
  <2> SUFFICES ASSUME TypeOK, SweepNowPast, now = 0, [ShutdownNext]_shutdownVars
               PROVE  [Next /\ SweepApart]_vars /\ now' = 0 /\ SweepNowPast'
    OBVIOUS
  <2>1. [Next]_vars /\ now' = now
    BY ShutdownStep
  <2>2. SweepNowPast'
    BY <2>1, SweepNowStep
  <2>3. SweepApart
    BY NothingExpires DEF SweepApart
  <2> QED
    BY <2>1, <2>2, <2>3
<1>3. [ShutdownNext]_shutdownVars => [Next]_vars
  BY ShutdownStep
<1> QED
  BY <1>1, <1>2, <1>3, TypeCorrect, PTL DEF ShutdownSpec, ApartSpec, Spec

\* Every step keeps the types.
THEOREM ShutdownTyped == ShutdownSpec => []ShutdownTypeOK
<1> DEFINE Own == /\ shut \in [Closers -> {"out", "check", "select", "done", "gaveUp"}]
                  /\ token \in BOOLEAN
                  /\ owed \subseteq Callers \cup Closers \cup {Janitor}
<1>1. ShutdownInit => Own
  BY DEF ShutdownInit
<1>2. Own /\ [ShutdownNext]_shutdownVars => Own'
  BY DEF ShutdownNext, shutdownVars, shutVars, CallerStep, FreeingStep, QuietStep, Signal,
         NewCallStep, CancelStep, DropStep, CloserStep, Check, TakeToken, Recheck, GiveUp,
         CloseFirst, CloseAgain, SweepStep, Owe
<1>3. TypeOK /\ Own => ShutdownTypeOK
  BY DEF ShutdownTypeOK
<1>4. [ShutdownNext]_shutdownVars => [Next]_vars
  BY ShutdownStep
<1>5. ShutdownSpec => Spec
  BY <1>4, PTL DEF ShutdownSpec, Spec, ShutdownInit
<1> QED
  BY <1>1, <1>2, <1>3, <1>5, TypeCorrect, PTL DEF ShutdownSpec

(***************************************************************************)
(* What Shutdown waits for                                                 *)
(***************************************************************************)

\* A closed Runtime has no idle State, so that live counts the calls that hold
\* a slot.
LEMMA ClosedCounts ==
    ASSUME IInv, closed
    PROVE  live = Cardinality(InUse) /\ open = HeldStates
<1>1. \A p \in Mapped : DOMAIN idle[p] = {}
  BY DEF IInv, SafetyInv, IdleOnlyInMap
<1>2. Slots(Mapped) = {}
  BY <1>1 DEF Slots
<1>3. live = 0 + Cardinality(InUse)
  BY <1>2, LiveSum, FS_EmptySet DEF LiveIsIdlePlusInUse
<1>4. IsFiniteSet(InUse)
  BY FinitenessAssumption, FS_Subset DEF InUse
<1>5. Cardinality(InUse) \in Nat
  BY <1>4, FS_CardinalityType
<1>6. open = HeldStates
  BY <1>1 DEF IInv, SafetyInv, OpenIsOwned
<1> QED
  BY <1>3, <1>5, <1>6

\* Once the Runtime is closed, live is the number of calls in flight: what
\* Shutdown waits for to become 0.
THEOREM LiveIsInFlight == ShutdownSpec => []InFlightCount
<1>1. IInv => InFlightCount
  BY ClosedCounts DEF InFlightCount
<1> QED
  BY <1>1, ShutdownImplementsApart, Safety, PTL

\* A Shutdown that has begun has closed the Runtime.
BegunIsClosed == \A d \in Closers : shut[d] # "out" => closed

\* A Shutdown that returned nil left no call in flight.
DoneIsIdle == \A d \in Closers : shut[d] = "done" => InUse = {}

\* A closed Runtime stays closed, and no call gets a slot of it.
LEMMA ClosedForGood ==
    ASSUME TypeOK, closed, [Next]_vars
    PROVE  closed' /\ InUse' \subseteq InUse
<1> USE DEF callVars, mapVars, entryVars, poolVars, slotVars, waitVars, envVars
<1>1. CASE UNCHANGED <<closed, pc>>
  BY <1>1 DEF InUse
<1>2. ASSUME NEW c \in Callers,
             \/ CtxDone(c) \/ LoadSource(c) \/ Register(c) \/ OnceReturn(c) \/ OnceFailed(c)
             \/ AcquireClosed(c) \/ TakeGrant(c) \/ Bail(c) \/ WaitClosed(c)
             \/ BuildDone(c) \/ BuildFails(c) \/ Release(c)
      PROVE  closed' /\ InUse' \subseteq InUse
  <2>1. closed' = closed
    BY <1>2 DEF CtxDone, LoadSource, LoadAnswer, Register, OnceReturn, OnceFailed,
         AcquireClosed, TakeGrant, Bail, WaitClosed, BuildDone, BuildFails, Release
  <2>2. \/ /\ pc[c] = "build" /\ pc' = [pc EXCEPT ![c] = "run"]
        \/ \E l \in {"load", "bail", "acquire", "out"} : pc' = [pc EXCEPT ![c] = l]
    BY <1>2 DEF CtxDone, LoadSource, LoadAnswer, Register, OnceReturn, OnceFailed,
         AcquireClosed, TakeGrant, Bail, WaitClosed, BuildDone, BuildFails, Release,
         Goto, Return
  <2>3. InUse' \subseteq InUse
    BY <2>2 DEF InUse, TypeOK
  <2> QED
    BY <2>1, <2>3
<1>3. ASSUME NEW c \in Callers, Reuse(c) \/ Reserve(c) \/ Evict(c) \/ Enqueue(c)
      PROVE  FALSE
  BY <1>3 DEF Reuse, Reserve, Evict, Enqueue, MayClaim
<1>4. ASSUME NEW c \in Callers, NEW k \in Keys, Run(c, k) PROVE FALSE
  BY <1>4 DEF Run, RunHit, RunJoin, RunCreate
<1>5. CASE Close
  BY <1>5 DEF Close
<1> QED
  BY <1>1, <1>2, <1>3, <1>4, <1>5
     DEF Next, vars, CallStep, GetPoolStep, AcquireStep, BuildStep,
         RunClosed, LoadFails, Notify, ForgetEntry, Publish, SweepStart, Sweep, Tick

\* Every step of Shutdown keeps both.
LEMMA ClosersStep ==
    ASSUME TypeOK, InFlightCount, BegunIsClosed, DoneIsIdle, [ShutdownNext]_shutdownVars,
           shut \in [Closers -> {"out", "check", "select", "done", "gaveUp"}]
    PROVE  BegunIsClosed' /\ DoneIsIdle'
<1>1. [Next]_vars
  BY ShutdownStep
<1>2. closed => closed' /\ InUse' \subseteq InUse
  BY <1>1, ClosedForGood
<1>3. CASE shut' = shut
  BY <1>2, <1>3 DEF BegunIsClosed, DoneIsIdle
<1>4. ASSUME NEW d \in Closers, CloseFirst(d) \/ CloseAgain(d)
      PROVE  BegunIsClosed' /\ DoneIsIdle'
  <2>1. closed' /\ shut' = [shut EXCEPT ![d] = "check"]
    BY <1>4 DEF CloseFirst, Close, CloseAgain, vars
  <2> QED
    BY <1>2, <2>1 DEF BegunIsClosed, DoneIsIdle
<1>5. ASSUME NEW d \in Closers, TakeToken(d) \/ Recheck(d) \/ GiveUp(d)
      PROVE  BegunIsClosed' /\ DoneIsIdle'
  <2>1. /\ shut[d] = "select"
        /\ \E l \in {"check", "gaveUp"} : shut' = [shut EXCEPT ![d] = l]
    BY <1>5 DEF TakeToken, Recheck, GiveUp
  <2> QED
    BY <1>2, <2>1 DEF BegunIsClosed, DoneIsIdle
<1>6. ASSUME NEW d \in Closers, Check(d)
      PROVE  BegunIsClosed' /\ DoneIsIdle'
  <2>1. shut[d] = "check" /\ closed /\ live = Cardinality(InUse)
    BY <1>6 DEF Check, BegunIsClosed, InFlightCount
  <2>2. IsFiniteSet(InUse)
    BY FinitenessAssumption, FS_Subset DEF InUse
  <2>3. live = 0 => InUse = {}
    BY <2>1, <2>2, FS_EmptySet
  <2>4. shut' = [shut EXCEPT ![d] = IF live = 0 THEN "done" ELSE "select"]
    BY <1>6 DEF Check
  <2> QED
    BY <1>2, <2>1, <2>3, <2>4 DEF BegunIsClosed, DoneIsIdle
<1> QED
  BY <1>3, <1>4, <1>5, <1>6
     DEF ShutdownNext, shutdownVars, shutVars, CallerStep, FreeingStep, QuietStep, Signal,
         NewCallStep, CancelStep, DropStep, CloserStep, SweepStep

\* The invariant of a Shutdown's course.
ClosersInv == BegunIsClosed /\ DoneIsIdle

LEMMA ClosersSafe == ShutdownSpec => []ClosersInv
<1>1. ShutdownInit => ClosersInv
  BY DEF ShutdownInit, ClosersInv, BegunIsClosed, DoneIsIdle
<1>2. /\ ShutdownTypeOK /\ InFlightCount /\ ClosersInv /\ [ShutdownNext]_shutdownVars
      => ClosersInv'
  BY ClosersStep DEF ShutdownTypeOK, ClosersInv
<1> QED
  BY <1>1, <1>2, ShutdownTyped, LiveIsInFlight, PTL DEF ShutdownSpec

\* When Shutdown has returned nil, the Runtime is closed and keeps no State,
\* idle, in use or under construction, whatever calls, drops, sweeps and other
\* Shutdowns ran beside it or run after it.
THEOREM ShutdownIsClean == ShutdownSpec => []ReturnedClean
<1>1. IInv /\ ClosersInv => ReturnedClean
  <2> SUFFICES ASSUME IInv, ClosersInv, NEW d \in Closers, shut[d] = "done"
               PROVE  closed /\ live = 0 /\ open = {} /\ InUse = {}
    BY DEF ReturnedClean
  <2>1. closed /\ InUse = {}
    BY DEF ClosersInv, BegunIsClosed, DoneIsIdle
  <2>2. live = 0 /\ open = HeldStates
    BY <2>1, ClosedCounts, FS_EmptySet
  <2>3. HeldStates = {}
    BY <2>1 DEF HeldStates, Holding, InUse, IInv, TypeOK
  <2> QED
    BY <2>1, <2>2, <2>3
<1> QED
  BY <1>1, ClosersSafe, ShutdownImplementsApart, Safety, PTL

(***************************************************************************)
(* The signal                                                              *)
(***************************************************************************)

\* On a closed Runtime only a call that frees its State, a drop or a sweep
\* changes live.
LEMMA QuietKeepsLive ==
    ASSUME closed, NEW c \in Callers, QuietStep(c) \/ NewCallStep(c) \/ CancelStep(c)
    PROVE  live' = live
<1> USE DEF callVars, mapVars, entryVars, poolVars, slotVars, waitVars, envVars
<1>1. CASE QuietStep(c)
  BY <1>1 DEF QuietStep, GetPoolStep, AcquireStep, LoadSource, LoadAnswer, LoadFails,
     Register, OnceReturn, OnceFailed, AcquireClosed, Reuse, Reserve, Evict, Enqueue,
     TakeGrant, Bail, WaitClosed, BuildDone, MayClaim
<1>2. CASE NewCallStep(c)
  BY <1>2 DEF NewCallStep, Run, RunHit, RunJoin, RunCreate, RunClosed, vars
<1>3. CASE CancelStep(c)
  BY <1>3 DEF CancelStep, CtxDone
<1> QED
  BY <1>1, <1>2, <1>3

\* Every step keeps the signal of the last release on its way.
LEMMA LastSignalStep ==
    ASSUME BegunIsClosed, LastSignal, [ShutdownNext]_shutdownVars,
           shut \in [Closers -> {"out", "check", "select", "done", "gaveUp"}]
    PROVE  LastSignal'
<1>1. CASE token' \/ owed' # {}
  BY <1>1 DEF LastSignal
<1>2. CASE UNCHANGED <<live, shut, token, owed>>
  BY <1>2 DEF LastSignal
<1>3. ASSUME NEW c \in Callers, QuietStep(c) \/ NewCallStep(c) \/ CancelStep(c)
      PROVE  LastSignal'
  <2>1. UNCHANGED <<shut, token, owed>>
    BY <1>3 DEF QuietStep, NewCallStep, CancelStep, shutVars
  <2>2. closed => live' = live
    BY <1>3, QuietKeepsLive
  <2> QED
    BY <2>1, <2>2 DEF LastSignal, BegunIsClosed
<1>4. ASSUME NEW d \in Closers, Check(d) PROVE LastSignal'
  <2>1. /\ shut[d] = "check" /\ live' = live /\ UNCHANGED <<token, owed>>
        /\ shut' = [shut EXCEPT ![d] = IF live = 0 THEN "done" ELSE "select"]
    BY <1>4 DEF Check, vars, slotVars
  <2>2. live = 0 => shut'[d] = "done"
    BY <2>1
  <2> QED
    BY <2>1, <2>2 DEF LastSignal
<1>5. ASSUME NEW d \in Closers, TakeToken(d) \/ Recheck(d) \/ CloseAgain(d)
      PROVE  LastSignal'
  <2>1. shut'[d] = "check"
    BY <1>5 DEF TakeToken, Recheck, CloseAgain
  <2> QED
    BY <2>1 DEF LastSignal
<1>6. ASSUME NEW d \in Closers, GiveUp(d) PROVE LastSignal'
  <2>1. /\ shut[d] = "select" /\ live' = live /\ UNCHANGED <<token, owed>>
        /\ shut' = [shut EXCEPT ![d] = "gaveUp"]
    BY <1>6 DEF GiveUp, vars, slotVars
  <2> QED
    BY <2>1 DEF LastSignal
<1>7. ASSUME NEW c, FreeingStep(c) PROVE owed' # {}
  BY <1>7 DEF FreeingStep, Owe
<1>8. ASSUME NEW d, CloseFirst(d) PROVE owed' # {}
  BY <1>8 DEF CloseFirst, Owe
<1>9. ASSUME NEW x, Signal(x) PROVE token'
  BY <1>9 DEF Signal
<1>10. ASSUME NEW k \in Keys, NEW v \in Versions, DropStep(k, v) PROVE token'
  BY <1>10 DEF DropStep
<1>11. CASE SweepStep
  <2>1. CASE Owe(Janitor)
    BY <1>1, <2>1 DEF Owe
  <2>2. CASE SweepStart /\ UNCHANGED shutVars
    BY <1>2, <2>2 DEF SweepStart, slotVars, shutVars
  <2> QED
    BY <1>11, <2>1, <2>2 DEF SweepStep
<1>12. CASE UNCHANGED shutdownVars
  BY <1>2, <1>12 DEF shutdownVars, vars, slotVars, shutVars
<1> QED
  BY <1>1, <1>3, <1>4, <1>5, <1>6, <1>7, <1>8, <1>9, <1>10, <1>11, <1>12
     DEF ShutdownNext, CallerStep, CloserStep

\* No Shutdown sleeps on a Runtime that is empty with nobody but the re-check
\* timer to wake it: the token of the last release is in the channel
\* or on its way, or another Shutdown has taken it and returns.
THEOREM LastSignalArrives == ShutdownSpec => []LastSignal
<1>1. ShutdownInit => LastSignal
  BY DEF ShutdownInit, LastSignal
<1>2. /\ ShutdownTypeOK /\ ClosersInv /\ LastSignal /\ [ShutdownNext]_shutdownVars
      => LastSignal'
  BY LastSignalStep DEF ShutdownTypeOK, ClosersInv
<1> QED
  BY <1>1, <1>2, ShutdownTyped, ClosersSafe, PTL DEF ShutdownSpec
=============================================================================
