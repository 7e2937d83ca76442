------------------------------ MODULE Shutdown ------------------------------
(***************************************************************************)
(* Shutdown's wait for the States in flight: a loop that reads live under  *)
(* the lock and sleeps until the notify channel holds its one token, the   *)
(* re-check timer fires or the context ends.  Whoever frees a State puts   *)
(* the token there after it has unlocked (a drop does so before), so a     *)
(* signal may be late, and is lost while the channel is full.              *)
(***************************************************************************)
EXTENDS Runtime

CONSTANT Closers      \* goroutines that call Shutdown

\* The signaller that is neither a caller nor a closer.
Janitor == "janitor"

ASSUME ClosersAssumption ==
    /\ IsFiniteSet(Closers)
    /\ Closers \cap Callers = {}
    /\ Janitor \notin Closers \cup Callers

VARIABLES
    shut,         \* where each closer is in Shutdown
    token,        \* Runtime.notify holds its token
    owed          \* who has unlocked and not yet called signal

shutVars == <<shut, token, owed>>

\* x has unlocked and is about to call signal.
OweNothing(x) == UNCHANGED owed

Owe(x) == owed' = owed \cup {x}

\* signal(): a full channel keeps its one token.
Signal(x) ==
    /\ x \in owed
    /\ owed' = owed \ {x}
    /\ token' = TRUE
    /\ UNCHANGED <<vars, shut>>

-----------------------------------------------------------------------------
\* Shutdown

\* closeIdleAndStop, first come.
CloseFirst(d) ==
    /\ shut[d] = "out"
    /\ Close
    /\ shut' = [shut EXCEPT ![d] = "check"]
    /\ Owe(d)
    /\ UNCHANGED token

\* ... or on a Runtime that is closed already.
CloseAgain(d) ==
    /\ shut[d] = "out" /\ closed
    /\ shut' = [shut EXCEPT ![d] = "check"]
    /\ UNCHANGED <<vars, token, owed>>

\* The loop reads live.
Check(d) ==
    /\ shut[d] = "check" /\ d \notin owed
    /\ shut' = [shut EXCEPT ![d] = IF live = 0 THEN "done" ELSE "select"]
    /\ UNCHANGED <<vars, token, owed>>

\* The three cases of its select.
TakeToken(d) ==
    /\ shut[d] = "select" /\ token
    /\ token' = FALSE
    /\ shut' = [shut EXCEPT ![d] = "check"]
    /\ UNCHANGED <<vars, owed>>

NeverRecheck(d) == FALSE

Recheck(d) ==
    /\ "recheck" \in Events
    /\ shut[d] = "select"
    /\ shut' = [shut EXCEPT ![d] = "check"]
    /\ UNCHANGED <<vars, token, owed>>

\* Its context ends.  (A plain Close beside a Shutdown leaves the same state as
\* a Shutdown that gives up at once.)
GiveUp(d) ==
    /\ "giveUp" \in Events
    /\ shut[d] = "select"
    /\ shut' = [shut EXCEPT ![d] = "gaveUp"]
    /\ UNCHANGED <<vars, token, owed>>

-----------------------------------------------------------------------------
\* The rest of the Runtime, with the signals it owes

FreeingStep(c) ==
    /\ Release(c) \/ BuildFails(c)
    /\ Owe(c)
    /\ UNCHANGED <<shut, token>>

QuietStep(c) ==
    /\ GetPoolStep(c) \/ AcquireStep(c) \/ BuildDone(c)
    /\ UNCHANGED shutVars

\* What a goroutine in a call does: it signals before the call returns.
CallerStep(c) == FreeingStep(c) \/ QuietStep(c) \/ Signal(c)

NewCallStep(c) ==
    /\ c \notin owed
    /\ RunClosed(c) \/ \E k \in Keys : Run(c, k)
    /\ UNCHANGED shutVars

\* A dropped pool is signalled under the lock.
DropStep(k, v) ==
    /\ Notify(k, v)
    /\ token' = TRUE
    /\ UNCHANGED <<shut, owed>>

CancelStep(c) == CtxDone(c) /\ UNCHANGED shutVars

\* The clock stands still here, so that a sweep retires nothing: it signals all
\* the same.  (A sweep that retires a pool in use keeps Shutdown from returning:
\* that is Runtime's matter.)
SweepStep ==
    \/ /\ Janitor \notin owed
       /\ SweepStart
       /\ UNCHANGED shutVars
    \/ /\ Sweep
       /\ Owe(Janitor)
       /\ UNCHANGED <<shut, token>>

\* What a goroutine in Shutdown does on its own.
CloserStep(d) == Check(d) \/ TakeToken(d) \/ Recheck(d) \/ Signal(d)

ShutdownInit ==
    /\ Init
    /\ shut = [d \in Closers |-> "out"]
    /\ token = FALSE
    /\ owed = {}

ShutdownNext ==
    \/ \E c \in Callers : CallerStep(c) \/ NewCallStep(c) \/ CancelStep(c)
    \/ \E k \in Keys, v \in Versions : DropStep(k, v)
    \/ \E d \in Closers : CloserStep(d) \/ GiveUp(d) \/ CloseFirst(d) \/ CloseAgain(d)
    \/ SweepStep \/ Signal(Janitor)

shutdownVars == <<vars, shutVars>>

ShutdownSpec == ShutdownInit /\ [][ShutdownNext]_shutdownVars

\* Calls in flight go on, as in Runtime; a goroutine in Shutdown is scheduled,
\* and whoever owes a signal gives it.
ShutdownFairSpec ==
    /\ ShutdownSpec
    /\ \A c \in Callers : WF_shutdownVars(CallerStep(c))
    /\ \A d \in Closers : WF_shutdownVars(CloserStep(d))

-----------------------------------------------------------------------------
\* Properties

ShutdownTypeOK ==
    /\ TypeOK
    /\ shut \in [Closers -> {"out", "check", "select", "done", "gaveUp"}]
    /\ token \in BOOLEAN
    /\ owed \subseteq Callers \cup Closers \cup {Janitor}

\* Shutdown returned nil: the Runtime has no State, none in use and none under
\* construction, and never gets one again.
ReturnedClean ==
    \A d \in Closers :
        shut[d] = "done" => closed /\ live = 0 /\ open = {} /\ InUse = {}

\* Shutdown's comment: after idle is closed, live is the in-flight count.
InFlightCount == closed => live = Cardinality(InUse)

\* The signal of the last release reaches a Shutdown that waits: the token is
\* there or due, or another one took it and returns.
LastSignal ==
    live = 0 /\ (\E d \in Closers : shut[d] = "select") =>
        token \/ owed # {} \/ \E e \in Closers : shut[e] \in {"check", "done"}

\* Shutdown returns.  Two of them share one token: the re-check timer sees to
\* the one that did not get it.
ShutdownReturns ==
    \A d \in Closers : (shut[d] = "check") ~> (shut[d] \in {"done", "gaveUp"})

=============================================================================
