----------------------------- MODULE Execution -----------------------------
(***************************************************************************)
(* RunWith (manager.go): what a call does with the State it owns, on top   *)
(* of VMSlots, which the Runtime implements.                               *)
(*                                                                         *)
(* A call binds its context and its instruction limit to the State, runs   *)
(* the script, hands the results to the handle and undoes all of that in   *)
(* the deferred calls.  A script's callback or the handle may call the     *)
(* Runtime again, which needs another State; and it may panic.             *)
(*                                                                         *)
(* A user of a VM is a frame <<c, i>>, the i-th nested call of goroutine   *)
(* c; only the innermost one makes steps.  All calls are of one script,    *)
(* and calls nest as deep as Users has frames for.                         *)
(***************************************************************************)
EXTENDS VMSlots, Sequences

CONSTANTS
    Callers,      \* goroutines
    MaxLost,      \* bound: how many builds may panic
    Events        \* which of the environment's events a run allows

VARIABLES
    cfg,          \* Config: is there an ExecTimeout, a MaxInstructions
    at,           \* where each frame is in RunWith
    ctx,          \* its context: None if it cannot end, else "open" or "done"
    loops,        \* its script function does not end by itself
    defers,       \* its deferred calls, in the order in which they run
    panics,       \* it is being unwound by a panic
    nested,       \* it has made its one nested call (a bound)
    ctxOf,        \* LState: whose context is bound to it
    limitOf       \* LState: whose instruction limit is bound to it

frameVars == <<at, ctx, loops, defers, panics, nested>>
boundVars == <<ctxOf, limitOf>>
execVars == <<slotVars, cfg, frameVars, boundVars>>

\* The frame that called u.
Outer(u) == <<u[1], u[2] - 1>>

ASSUME ExecutionAssumption ==
    /\ Users \subseteq Callers \X (Nat \ {0})
    /\ None \notin Users
    /\ \A u \in Users : \A i \in 1..u[2] : <<u[1], i>> \in Users    \* calls nest
    /\ MaxLost \in Nat

-----------------------------------------------------------------------------
\* Users

\* It is the innermost frame of its goroutine.
Innermost(u) ==
    \A v \in Users : v[1] = u[1] /\ v[2] > u[2] => at[v] = "out"

Goto(u, l) == at' = [at EXCEPT ![u] = l]

\* What a frame may do without touching any State.
Stay == UNCHANGED <<slotVars, cfg, boundVars>>

\* A call begins.  Its script function ends or not; its context may be one
\* that can end (and has ended already, perhaps).
Begin(u) ==
    /\ Goto(u, "acquire")
    /\ \E x \in {None, "open"} : ctx' = [ctx EXCEPT ![u] = x]
    /\ \E l \in BOOLEAN : (l => "loops" \in Events) /\ loops' = [loops EXCEPT ![u] = l]
    /\ nested' = [nested EXCEPT ![u] = FALSE]
    /\ UNCHANGED <<defers, panics>>
    /\ Stay

Call(c) == at[<<c, 1>>] = "out" /\ Begin(<<c, 1>>)

\* A script's callback, or the handle, calls Run.
NestedCall(u) ==
    /\ u[2] > 1 /\ at[u] = "out"
    /\ LET o == Outer(u) IN
         /\ at[o] \in {"script", "handle"} /\ ~nested[o] /\ ~panics[o]
    /\ Goto(u, "acquire")
    /\ \E x \in {None, "open"} : ctx' = [ctx EXCEPT ![u] = x]
    /\ \E l \in BOOLEAN : (l => "loops" \in Events) /\ loops' = [loops EXCEPT ![u] = l]
    /\ nested' = [nested EXCEPT ![u] = FALSE, ![Outer(u)] = TRUE]
    /\ UNCHANGED <<defers, panics>>
    /\ Stay

\* The frame leaves with nothing deferred.  A panic goes on to its caller: a
\* handle passes it on, a script's callback has it turned into a Lua error,
\* which the script handles or not; whoever called the Runtime recovers it.
Leave(u, panic) ==
    LET up == panic /\ u[2] > 1 /\ at[Outer(u)] = "handle" IN
    /\ at' = [v \in Users |-> IF v = u THEN "out"
                               ELSE IF up /\ v = Outer(u) THEN "unwind" ELSE at[v]]
    /\ panics' = [v \in Users |-> IF v = u THEN FALSE
                                   ELSE IF up /\ v = Outer(u) THEN TRUE ELSE panics[v]]
    /\ ctx' = [ctx EXCEPT ![u] = None]
    /\ loops' = [loops EXCEPT ![u] = FALSE]
    /\ nested' = [nested EXCEPT ![u] = FALSE]

-----------------------------------------------------------------------------
\* acquire

AcquireIdle(u) ==
    /\ at[u] = "acquire" /\ Innermost(u)
    /\ Take(u)
    /\ Goto(u, "bind")
    /\ UNCHANGED <<cfg, ctx, loops, defers, panics, nested, boundVars>>

AcquireNew(u) ==
    /\ at[u] = "acquire" /\ Innermost(u)
    /\ idle = {}
    /\ Reserve(u)
    /\ Goto(u, "build")
    /\ UNCHANGED <<cfg, ctx, loops, defers, panics, nested, boundVars>>

\* The Runtime is closed, or the caller's context has ended while it waited.
AcquireEnds(u) ==
    /\ at[u] = "acquire" /\ Innermost(u)
    /\ shut \/ ctx[u] = "done"
    /\ Leave(u, FALSE)
    /\ UNCHANGED defers /\ Stay

\* buildState runs the chunk (without IsolateGlobals), before anything is bound
\* to the State; one that does not end is an event a run allows.
ChunkLoops == "chunkLoops" \in Events

BuildDone(u) ==
    /\ at[u] = "build" /\ ~ChunkLoops
    /\ Build(u)
    /\ Goto(u, "bind")
    /\ UNCHANGED <<cfg, ctx, loops, defers, panics, nested, boundVars>>

\* The chunk raises an error, or IsolateGlobals finds no setmetatable.
BuildFails(u) ==
    /\ at[u] = "build" /\ ~ChunkLoops
    /\ "buildFail" \in Events
    /\ BuildError(u)
    /\ Leave(u, FALSE)
    /\ UNCHANGED <<cfg, defers, boundVars>>

\* A library opener panics: newState has no protection of its own.
OpenerPanics(u) ==
    /\ at[u] = "build"
    /\ lost < MaxLost
    /\ BuildPanic(u)
    /\ Leave(u, TRUE)
    /\ UNCHANGED <<cfg, defers, boundVars>>

-----------------------------------------------------------------------------
\* Bind, run, handle

\* Mutant: the caller's ctx is looked at.
CallerHasDone(u) == ctx[u] # None

\* execCtx.Done() # nil: there is a context that may end.
HasDone(u) == cfg.timeout \/ ctx[u] # None

\* Mutant: release is the last one to be deferred, so that it runs first.
DeferredReleaseLast(u) ==
    <<"release">> \o (IF cfg.limit THEN <<"clearLimit">> ELSE <<>>)
                  \o (IF HasDone(u) THEN <<"clearContext">> ELSE <<>>)
                  \o (IF cfg.timeout THEN <<"cancel">> ELSE <<>>)

\* What RunWith defers: the release first, so that it runs last.
Deferred(u) ==
    (IF cfg.limit THEN <<"clearLimit">> ELSE <<>>)
        \o (IF HasDone(u) THEN <<"clearContext">> ELSE <<>>)
        \o (IF cfg.timeout THEN <<"cancel">> ELSE <<>>)
        \o <<"release">>

Bind(u) ==
    /\ at[u] = "bind"
    /\ defers' = [defers EXCEPT ![u] = Deferred(u)]
    /\ ctx' = [ctx EXCEPT ![u] = IF cfg.timeout /\ ctx[u] = None THEN "open" ELSE ctx[u]]
    /\ ctxOf' = IF HasDone(u) THEN [ctxOf EXCEPT ![use[u]] = u] ELSE ctxOf
    /\ limitOf' = IF cfg.limit THEN [limitOf EXCEPT ![use[u]] = u] ELSE limitOf
    /\ Goto(u, "script")
    /\ UNCHANGED <<slotVars, cfg, loops, panics, nested>>

\* The script function returns its results, or an error: its own, or that of a
\* callback's panic, which the State recovers.
ScriptEnds(u) ==
    /\ at[u] = "script" /\ Innermost(u) /\ ~loops[u]
    /\ \E l \in {"handle", "unwind"} : Goto(u, l)
    /\ UNCHANGED <<ctx, loops, defers, panics, nested>> /\ Stay

\* A script, or a chunk, that does not end by itself runs on.
RunsOn(u) ==
    \/ at[u] = "script" /\ Innermost(u) /\ loops[u]
    \/ at[u] = "build" /\ ChunkLoops

ScriptRuns(u) == RunsOn(u) /\ UNCHANGED execVars

\* The engine aborts it: the context bound to the State has ended, or the
\* instructions of the bound limit are used up.  (Both are seen at opcodes.)
Aborted(u) == ctxOf[use[u]] # None /\ ctx[ctxOf[use[u]]] = "done"

Exhausted(u) == limitOf[use[u]] # None

ScriptAborts(u) ==
    /\ at[u] = "script" /\ Innermost(u)
    /\ Aborted(u) \/ Exhausted(u)
    /\ Goto(u, "unwind")
    /\ UNCHANGED <<ctx, loops, defers, panics, nested>> /\ Stay

\* Mutant: release is called after the handle instead of being deferred.
HandleEndsUndeferred(u) ==
    /\ at[u] = "handle" /\ Innermost(u)
    /\ Goto(u, "unwind")
    /\ \E p \in BOOLEAN :
         /\ (p => "handlePanics" \in Events) /\ panics' = [panics EXCEPT ![u] = p]
         /\ defers' = IF p THEN [defers EXCEPT ![u] = SubSeq(@, 1, Len(@) - 1)] ELSE defers
    /\ UNCHANGED <<ctx, loops, nested>> /\ Stay

\* The handle reads the results on the State, and returns or panics.
HandleEnds(u) ==
    /\ at[u] = "handle" /\ Innermost(u)
    /\ Goto(u, "unwind")
    /\ \E p \in BOOLEAN :
         (p => "handlePanics" \in Events) /\ panics' = [panics EXCEPT ![u] = p]
    /\ UNCHANGED <<ctx, loops, defers, nested>> /\ Stay

\* release gives the State back, or closes it (a drop, a new version, a close).
ReleaseVM(u) ==
    /\ GiveBack(u) \/ Discard(u)
    /\ UNCHANGED <<ctx, boundVars>>

\* Deferred calls run last in, first out.
RunDeferred(u) ==
    /\ at[u] = "unwind" /\ defers[u] # <<>>
    /\ defers' = [defers EXCEPT ![u] = Tail(defers[u])]
    /\ \/ /\ Head(defers[u]) = "release"
          /\ ReleaseVM(u)
       \/ /\ Head(defers[u]) = "cancel"
          /\ ctx' = [ctx EXCEPT ![u] = "done"]
          /\ UNCHANGED <<slotVars, boundVars>>
       \/ /\ Head(defers[u]) = "clearContext"
          /\ ctxOf' = [ctxOf EXCEPT ![use[u]] = None]
          /\ UNCHANGED <<slotVars, ctx, limitOf>>
       \/ /\ Head(defers[u]) = "clearLimit"
          /\ limitOf' = [limitOf EXCEPT ![use[u]] = None]
          /\ UNCHANGED <<slotVars, ctx, ctxOf>>
    /\ UNCHANGED <<cfg, at, loops, panics, nested>>

Return(u) ==
    /\ at[u] = "unwind" /\ defers[u] = <<>>
    /\ Leave(u, panics[u])
    /\ UNCHANGED defers /\ Stay

-----------------------------------------------------------------------------
\* The environment

\* ExecTimeout's timer, which runs from the bind on.
TimerFires(u) ==
    /\ cfg.timeout /\ at[u] \in {"script", "handle"} /\ ctx[u] = "open"
    /\ ctx' = [ctx EXCEPT ![u] = "done"]
    /\ UNCHANGED <<slotVars, cfg, at, loops, defers, panics, nested, boundVars>>

\* The caller's own context ends.
CallerCancels(u) ==
    /\ "cancel" \in Events
    /\ ctx[u] = "open"
    /\ ctx' = [ctx EXCEPT ![u] = "done"]
    /\ UNCHANGED <<slotVars, cfg, at, loops, defers, panics, nested, boundVars>>

\* Drops, evictions and sweeps of idle States, and Close.
OthersRetire ==
    /\ Retire
    /\ UNCHANGED <<cfg, frameVars, boundVars>>

Closes ==
    /\ "close" \in Events
    /\ Shut
    /\ UNCHANGED <<cfg, frameVars, boundVars>>

ExecInit ==
    /\ SlotsInit
    /\ cfg \in [timeout : BOOLEAN, limit : BOOLEAN]
    /\ at = [u \in Users |-> "out"]
    /\ ctx = [u \in Users |-> None]
    /\ loops = [u \in Users |-> FALSE]
    /\ defers = [u \in Users |-> <<>>]
    /\ panics = [u \in Users |-> FALSE]
    /\ nested = [u \in Users |-> FALSE]
    /\ ctxOf = [v \in VMs |-> None]
    /\ limitOf = [v \in VMs |-> None]

\* What a call does on its own.
FrameStep(u) ==
    \/ AcquireIdle(u) \/ AcquireNew(u) \/ AcquireEnds(u)
    \/ BuildDone(u) \/ BuildFails(u) \/ OpenerPanics(u)
    \/ Bind(u) \/ ScriptEnds(u) \/ ScriptAborts(u) \/ HandleEnds(u)
    \/ RunDeferred(u) \/ Return(u)

ExecNext ==
    \/ \E c \in Callers : Call(c)
    \/ \E u \in Users :
         NestedCall(u) \/ FrameStep(u) \/ ScriptRuns(u) \/ TimerFires(u) \/ CallerCancels(u)
    \/ OthersRetire \/ Closes

ExecSpec == ExecInit /\ [][ExecNext]_execVars

\* A call that can go on does, and an ExecTimeout passes.  A script may run for
\* ever if nothing aborts it; that a waiting call gets a State before others do
\* is not assumed.
ExecFairSpec ==
    /\ ExecSpec
    /\ \A u \in Users : WF_execVars(FrameStep(u)) /\ WF_execVars(TimerFires(u))

-----------------------------------------------------------------------------
\* Properties

ExecTypeOK ==
    /\ SlotsTypeOK
    /\ cfg \in [timeout : BOOLEAN, limit : BOOLEAN]
    /\ at \in [Users -> {"out", "acquire", "build", "bind", "script", "handle", "unwind"}]
    /\ ctx \in [Users -> {None, "open", "done"}]
    /\ loops \in [Users -> BOOLEAN]
    /\ panics \in [Users -> BOOLEAN]
    /\ nested \in [Users -> BOOLEAN]
    /\ defers \in [Users -> Seq({"release", "cancel", "clearContext", "clearLimit"})]
    /\ ctxOf \in [VMs -> Users \cup {None}]
    /\ limitOf \in [VMs -> Users \cup {None}]

\* However a call ends (results, script error, abort, failed build, panic of the
\* handle or of an inner call), nothing of it stays behind: no State, no slot
\* under construction, no deferred call.  What is still counted once a Runtime
\* is closed and its calls have ended, so that Shutdown would wait for it, are
\* the slots of builds whose openers panicked, and no others.
EndedOwnsNothing ==
    /\ \A u \in Users :
         at[u] \in {"out", "acquire"} => ~HasSlot(u) /\ defers[u] = <<>>
    /\ shut /\ (\A u \in Users : at[u] = "out") => Taken = lost

\* The context and the instruction limit bound to a State are those of the call
\* that owns it, from its first instruction on; an idle State has none, so no
\* call is aborted by the deadline of an earlier one (SetContext and
\* ClearInstructionLimit are deferred after, and run before, the release).
BoundToOwner ==
    /\ \A v \in VMs :
         /\ ctxOf[v] # None => use[ctxOf[v]] = v
         /\ limitOf[v] # None => use[limitOf[v]] = v
    /\ \A u \in Users : at[u] \in {"script", "handle"} =>
         /\ cfg.timeout => ctxOf[use[u]] = u
         /\ cfg.limit => limitOf[use[u]] = u

\* A call waits and nothing it can do, or that happens to it, lets it go on.
Stuck(u) ==
    /\ at[u] = "acquire" /\ Innermost(u)
    /\ ~shut /\ ctx[u] # "done"
    /\ idle = {} /\ Taken >= Cap

\* Calls that own a State while a call they make waits for another one (a
\* handle or a callback that calls Run) never all wait for each other, provided
\* there are more slots than calls that may do so; slots are lost to openers
\* that panic, and to nothing else.
SomebodyGoesOn ==
    Cap - lost > Cardinality({u \in Users : <<u[1], u[2] + 1>> \in Users}) =>
        ((\E u \in Users : Stuck(u)) =>
            \E u \in Users : at[u] \notin {"out", "acquire"} /\ Innermost(u))

\* Config.ExecTimeout, Config.MaxInstructions: with either, a call that has got
\* its slot comes to its end, whatever its script does, unless an inner call of
\* its own waits for a slot.
CappedCallsEnd ==
    \A u \in Users :
        (at[u] \notin {"out", "acquire"} /\ (cfg.timeout \/ cfg.limit))
            ~> (at[u] = "out" \/ \E v \in Users : v[1] = u[1] /\ v[2] > u[2]
                                                 /\ at[v] = "acquire")

=============================================================================
