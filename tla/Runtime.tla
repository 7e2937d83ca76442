------------------------------ MODULE Runtime ------------------------------
(***************************************************************************)
(* The luart Runtime (manager.go): many goroutines call Run, which finds   *)
(* or lazily creates the pool of a script key, acquires one of at most     *)
(* MaxStates Lua States, executes the script and releases the State; other *)
(* goroutines notify script changes, sweep expired pools and close the     *)
(* Runtime.                                                                *)
(*                                                                         *)
(* A step is one critical section of Runtime.mu, or one stretch of code    *)
(* between two of them that another goroutine can observe (the load of a   *)
(* source, the build of a State, the run of a script, a wait).             *)
(*                                                                         *)
(* A poolEntry makes at most one managedPool, so both are one id of        *)
(* PoolIds.  An id is used again once neither a map nor a caller refers    *)
(* to it, as the garbage collector would; so is a State's id.              *)
(***************************************************************************)
EXTENDS Integers, Sequences, FiniteSets, SequencesExt

CONSTANTS
    Callers,      \* goroutines that call Run, one call at a time each
    Keys,         \* script keys
    PoolIds,      \* identities of poolEntry/managedPool objects
    StateIds,     \* identities of Lua States
    MaxStates,    \* Config.MaxStates after New
    TTL,          \* Config.IdleTTL, in clock units
    MaxTime,      \* bound: the clock stops here
    MaxVersion,   \* bound: the versions of a script are 0..MaxVersion
    Events,       \* which of the environment's events a run allows
    None          \* no pool, no State, no key, no time

Versions == 0..MaxVersion
Times == 0..MaxTime

\* A pooledState: the Lua State, the version it was built for, and when it
\* last became idle.
PooledState == [L : StateIds, version : Versions, idleSince : Times]

ASSUME ConfigAssumption ==
    /\ MaxStates \in Nat \ {0}     \* New never leaves it below 1
    /\ TTL \in Nat
    /\ MaxTime \in Nat
    /\ MaxVersion \in Nat

ASSUME NoneAssumption ==
    /\ None \notin PoolIds
    /\ None \notin StateIds
    /\ None \notin Keys
    /\ None \notin Times
    /\ None \notin PooledState

ASSUME FinitenessAssumption ==
    /\ IsFiniteSet(Callers)
    /\ IsFiniteSet(Keys)
    /\ IsFiniteSet(PoolIds)
    /\ IsFiniteSet(StateIds)

VARIABLES
    pc,           \* where each caller is in Run
    ref,          \* the pool (or the entry of the pool) each caller works on
    held,         \* the pooledState a caller owns, from acquire to release
    granted,      \* acquire's local: a freed slot was handed to this caller
    pools,        \* Runtime.pools
    creating,     \* Runtime.creating
    keyOf,        \* managedPool.key
    phase,        \* the entry's once: new, loading, ready or failed
    version,      \* managedPool.version
    idle,         \* managedPool.idle, the last one is the warmest
    checkedOut,   \* managedPool.checkedOut
    lastUsed,     \* managedPool.lastUsed
    dropped,      \* managedPool.dropped
    live,         \* Runtime.live
    open,         \* the Lua States built and not closed yet
    waiters,      \* Runtime.waiters, first come first
    signalled,    \* callers whose slotWaiter channel holds its hand-off
    closed,       \* Runtime.closed, with closedCh and stopJan
    src,          \* the version the source backend holds for each key
    now,          \* the clock
    sweepNow      \* sweep's local now, read before it locks; None: no sweep

callVars  == <<pc, ref, held, granted>>
mapVars   == <<pools, creating>>
entryVars == <<keyOf, phase, version>>
poolVars  == <<idle, checkedOut, lastUsed, dropped>>
slotVars  == <<live, open>>
waitVars  == <<waiters, signalled>>
envVars   == <<src, now, sweepNow>>
vars == <<callVars, mapVars, entryVars, poolVars, slotVars, waitVars, closed, envVars>>

-----------------------------------------------------------------------------
\* Pools, idle slots and identities

\* The pools of the map.
Mapped == {pools[k] : k \in Keys} \ {None}

\* The pools and entries something still refers to.
UsedPools == (Mapped \cup {creating[k] : k \in Keys}
                     \cup {ref[c] : c \in Callers}) \ {None}

\* The places of the idle States of the pools P.
Slots(P) == UNION {{p} \X DOMAIN idle[p] : p \in P}

StateAt(s) == idle[s[1]][s[2]]

IdleStates(P) == {StateAt(s).L : s \in Slots(P)}

Holding == {c \in Callers : held[c] # None}
HeldStates == {held[c].L : c \in Holding}

Building == {c \in Callers : pc[c] = "build"}

\* The States some variable still tells apart.
UsedStates == open \cup HeldStates \cup IdleStates(UsedPools)

\* The idle States of the pools P are closed; their slots are free again.
CloseIdleNoCount(P) ==
    /\ open' = open \ IdleStates(P)
    /\ live' = live

CloseIdle(P) ==
    /\ open' = open \ IdleStates(P)
    /\ live' = live - Cardinality(Slots(P))

\* ... and the pools forget them.
ForgetIdleNot(P) == UNCHANGED idle

ForgetIdle(P) == idle' = [p \in PoolIds |-> IF p \in P THEN <<>> ELSE idle[p]]

\* A State of pool p goes into use, or out of it.
CheckOutUncounted(p) ==
    /\ lastUsed' = [lastUsed EXCEPT ![p] = now]
    /\ UNCHANGED checkedOut

CheckOut(p) ==
    /\ lastUsed' = [lastUsed EXCEPT ![p] = now]
    /\ checkedOut' = [checkedOut EXCEPT ![p] = checkedOut[p] + 1]

-----------------------------------------------------------------------------
\* Hand-off of freed slots to the waiters

\* Dequeue and signal up to n waiters, the longest waiting first.
WakeWaiters(n) ==
    LET m == IF n < Len(waiters) THEN n ELSE Len(waiters)
    IN  /\ waiters' = SubSeq(waiters, m + 1, Len(waiters))
        /\ signalled' = signalled \cup {waiters[i] : i \in 1..m}

WakeNobody == UNCHANGED waitVars

WakeWaiter == WakeWaiters(1)

-----------------------------------------------------------------------------
\* getPool

\* The call is over: the caller keeps nothing.
ReturnKeepsState(c) ==
    /\ pc' = [pc EXCEPT ![c] = "out"]
    /\ ref' = [ref EXCEPT ![c] = None]
    /\ granted' = [granted EXCEPT ![c] = FALSE]
    /\ UNCHANGED held

Return(c) ==
    /\ pc' = [pc EXCEPT ![c] = "out"]
    /\ ref' = [ref EXCEPT ![c] = None]
    /\ held' = [held EXCEPT ![c] = None]
    /\ granted' = [granted EXCEPT ![c] = FALSE]

Goto(c, l) == pc' = [pc EXCEPT ![c] = l]

\* Some call is creating the key's pool, or has created it.
InCreationNever(k) == FALSE

InCreation(k) == creating[k] # None

\* A new call finds the key's pool in the map.
RunHit(c, k) ==
    /\ pc[c] = "out" /\ ~closed
    /\ pools[k] # None
    /\ Goto(c, "acquire")
    /\ ref' = [ref EXCEPT ![c] = pools[k]]
    /\ UNCHANGED <<held, granted, mapVars, entryVars, poolVars, slotVars,
                   waitVars, closed, envVars>>

\* It finds the entry another call already made for the key.
RunJoin(c, k) ==
    /\ pc[c] = "out" /\ ~closed
    /\ pools[k] = None /\ InCreation(k)
    /\ Goto(c, "once")
    /\ ref' = [ref EXCEPT ![c] = creating[k]]
    /\ UNCHANGED <<held, granted, mapVars, entryVars, poolVars, slotVars,
                   waitVars, closed, envVars>>

\* It finds neither and makes the entry.  The fields of the pool the entry
\* will make start out clear.
RunCreate(c, k) ==
    /\ pc[c] = "out" /\ ~closed
    /\ pools[k] = None /\ ~InCreation(k)
    /\ PoolIds \ UsedPools # {}
    /\ LET p == CHOOSE q \in PoolIds \ UsedPools : TRUE
       IN  /\ creating' = [creating EXCEPT ![k] = p]
           /\ ref' = [ref EXCEPT ![c] = p]
           /\ keyOf' = [keyOf EXCEPT ![p] = k]
           /\ phase' = [phase EXCEPT ![p] = "new"]
           /\ idle' = [idle EXCEPT ![p] = <<>>]
           /\ checkedOut' = [checkedOut EXCEPT ![p] = 0]
           /\ dropped' = [dropped EXCEPT ![p] = FALSE]
    /\ Goto(c, "once")
    /\ UNCHANGED <<held, granted, pools, version, lastUsed, slotVars,
                   waitVars, closed, envVars>>

Run(c, k) == RunHit(c, k) \/ RunJoin(c, k) \/ RunCreate(c, k)

\* A call on a closed Runtime returns ErrClosed at once.
RunClosed(c) ==
    /\ pc[c] = "out" /\ closed
    /\ UNCHANGED vars

\* The first caller into the once asks the loader, outside the lock; the
\* entry's version is the loader's answer until Register copies it.
LoadAnswer(c, v) ==
    /\ pc[c] = "once" /\ phase[ref[c]] = "new"
    /\ phase' = [phase EXCEPT ![ref[c]] = "loading"]
    /\ version' = [version EXCEPT ![ref[c]] = v]
    /\ Goto(c, "load")
    /\ UNCHANGED <<ref, held, granted, mapVars, keyOf, poolVars, slotVars,
                   waitVars, closed, envVars>>

LoadSource(c) == LoadAnswer(c, src[keyOf[ref[c]]])

\* Load or compile fails: the once is spent, the error stays in the entry.
LoadFails(c) ==
    /\ "loadFail" \in Events
    /\ pc[c] = "once" /\ phase[ref[c]] = "new"
    /\ phase' = [phase EXCEPT ![ref[c]] = "failed"]
    /\ UNCHANGED <<callVars, mapVars, keyOf, version, poolVars, slotVars,
                   waitVars, closed, envVars>>

\* The loaded and compiled pool is put in the map, whatever became of the
\* Runtime or of the source meanwhile.
Register(c) ==
    LET p == ref[c] IN
    /\ pc[c] = "load"
    /\ pools' = [pools EXCEPT ![keyOf[p]] = p]
    /\ phase' = [phase EXCEPT ![p] = "ready"]
    /\ lastUsed' = [lastUsed EXCEPT ![p] = now]
    /\ Goto(c, "acquire")
    /\ UNCHANGED <<ref, held, granted, creating, keyOf, version, idle, checkedOut,
                   dropped, slotVars, waitVars, closed, envVars>>

\* A caller that waited for the once takes the entry's pool...
OnceReturn(c) ==
    /\ pc[c] = "once" /\ phase[ref[c]] = "ready"
    /\ Goto(c, "acquire")
    /\ UNCHANGED <<ref, held, granted, mapVars, entryVars, poolVars, slotVars,
                   waitVars, closed, envVars>>

\* ... or its error, and lets a later call retry unless one already does.
OnceFailedForgetsAny(c) ==
    /\ pc[c] = "once" /\ phase[ref[c]] = "failed"
    /\ creating' = [creating EXCEPT ![keyOf[ref[c]]] = None]
    /\ Return(c)
    /\ UNCHANGED <<pools, entryVars, poolVars, slotVars, waitVars, closed, envVars>>

OnceFailed(c) ==
    /\ pc[c] = "once" /\ phase[ref[c]] = "failed"
    /\ creating' = [k \in Keys |->
                      IF k = keyOf[ref[c]] /\ creating[k] = ref[c]
                        THEN None ELSE creating[k]]
    /\ Return(c)
    /\ UNCHANGED <<pools, entryVars, poolVars, slotVars, waitVars, closed, envVars>>

-----------------------------------------------------------------------------
\* acquire

\* acquire's lock section, without its look at closed.
MayClaimClosed(c) ==
    /\ pc[c] = "acquire"
    /\ granted[c] \/ waiters = <<>>

\* acquire's lock section may claim a slot: a fresh entrant yields to the
\* queue, a granted waiter does not.
MayClaim(c) ==
    /\ pc[c] = "acquire" /\ ~closed
    /\ granted[c] \/ waiters = <<>>

AcquireClosed(c) ==
    /\ pc[c] = "acquire" /\ closed
    /\ Return(c)
    /\ UNCHANGED <<mapVars, entryVars, poolVars, slotVars, waitVars, closed, envVars>>

\* The idle State of pool p that was used last.
WarmestIsFirst(p) == idle[p][1]

Warmest(p) == idle[p][Len(idle[p])]

\* 1. Take the warmest idle State of the caller's own pool.
Reuse(c) ==
    LET p == ref[c] IN
    /\ MayClaim(c)
    /\ idle[p] # <<>>
    /\ held' = [held EXCEPT ![c] = Warmest(p)]
    /\ idle' = [idle EXCEPT ![p] = SubSeq(idle[p], 1, Len(idle[p]) - 1)]
    /\ CheckOut(p)
    /\ granted' = [granted EXCEPT ![c] = FALSE]
    /\ Goto(c, "run")
    /\ UNCHANGED <<ref, mapVars, entryVars, dropped, slotVars, waitVars,
                   closed, envVars>>

RoomOffByOne == live <= MaxStates

Room == live < MaxStates

\* 2. Room under the cap: reserve a slot and build outside the lock.
Reserve(c) ==
    LET p == ref[c] IN
    /\ MayClaim(c)
    /\ idle[p] = <<>>
    /\ Room
    /\ live' = live + 1
    /\ CheckOut(p)
    /\ granted' = [granted EXCEPT ![c] = FALSE]
    /\ Goto(c, "build")
    /\ UNCHANGED <<ref, held, mapVars, entryVars, idle, dropped, open,
                   waitVars, closed, envVars>>

BuildDone(c) ==
    /\ pc[c] = "build"
    /\ StateIds \ UsedStates # {}
    /\ LET L == CHOOSE l \in StateIds \ UsedStates : TRUE
       IN  /\ held' = [held EXCEPT ![c] = [L |-> L, version |-> version[ref[c]],
                                           idleSince |-> 0]]
           /\ open' = open \cup {L}
    /\ Goto(c, "run")
    /\ UNCHANGED <<ref, granted, mapVars, entryVars, poolVars, live, waitVars,
                   closed, envVars>>

\* The chunk raises an error while it is preloaded: the State is closed and
\* the reserved slot goes to the next waiter.
BuildFails(c) ==
    LET p == ref[c] IN
    /\ "buildFail" \in Events
    /\ pc[c] = "build"
    /\ live' = live - 1
    /\ checkedOut' = [checkedOut EXCEPT ![p] = checkedOut[p] - 1]
    /\ WakeWaiter
    /\ Return(c)
    /\ UNCHANGED <<mapVars, entryVars, idle, lastUsed, dropped, open, closed, envVars>>

\* The idle States of the map's pools that became idle first.  The scan keeps
\* the first of equals in a pool; the order of the map's pools is arbitrary.
OldestIdle ==
    {s \in Slots(Mapped) :
        \A t \in Slots(Mapped) :
            /\ StateAt(s).idleSince <= StateAt(t).idleSince
            /\ t[1] = s[1] /\ t[2] < s[2] => StateAt(s).idleSince < StateAt(t).idleSince}

\* 3. At the cap: close one of them and try again, still granted.
Evict(c) ==
    /\ MayClaim(c)
    /\ idle[ref[c]] = <<>>
    /\ ~Room
    /\ \E s \in OldestIdle :
         /\ idle' = [idle EXCEPT ![s[1]] = RemoveAt(idle[s[1]], s[2])]
         /\ open' = open \ {StateAt(s).L}
         /\ live' = live - 1
    /\ UNCHANGED <<callVars, mapVars, entryVars, checkedOut, lastUsed, dropped,
                   waitVars, closed, envVars>>

\* 4. Nothing to claim, or others are queued: join the queue.
Enqueue(c) ==
    /\ pc[c] = "acquire" /\ ~closed
    /\ \/ ~granted[c] /\ waiters # <<>>
       \/ idle[ref[c]] = <<>> /\ ~Room /\ Slots(Mapped) = {}
    /\ granted' = [granted EXCEPT ![c] = FALSE]
    /\ waiters' = Append(waiters, c)
    /\ Goto(c, "wait")
    /\ UNCHANGED <<ref, held, mapVars, entryVars, poolVars, slotVars, signalled,
                   closed, envVars>>

\* The select of a waiter: its hand-off, its context, or the Runtime's close;
\* whichever is ready, in any order.
TakeGrant(c) ==
    /\ pc[c] = "wait" /\ c \in signalled
    /\ granted' = [granted EXCEPT ![c] = TRUE]
    /\ signalled' = signalled \ {c}
    /\ Goto(c, "acquire")
    /\ UNCHANGED <<ref, held, mapVars, entryVars, poolVars, slotVars, waiters,
                   closed, envVars>>

CtxDone(c) ==
    /\ "cancel" \in Events
    /\ pc[c] = "wait"
    /\ Goto(c, "bail")
    /\ UNCHANGED <<ref, held, granted, mapVars, entryVars, poolVars, slotVars,
                   waitVars, closed, envVars>>

\* A waiter that left the select is still queued, or has a hand-off it passes on.
BailKeepsGrant(c) ==
    /\ pc[c] = "bail"
    /\ waiters' = SelectSeq(waiters, LAMBDA d : d # c)
    /\ signalled' = signalled \ {c}
    /\ Return(c)
    /\ UNCHANGED <<mapVars, entryVars, poolVars, slotVars, closed, envVars>>

Bail(c) ==
    /\ pc[c] = "bail"
    /\ \/ \E i \in DOMAIN waiters :
            /\ waiters[i] = c
            /\ waiters' = RemoveAt(waiters, i)
            /\ UNCHANGED signalled
       \/ /\ \A i \in DOMAIN waiters : waiters[i] # c
          /\ LET m == IF waiters = <<>> THEN 0 ELSE 1
             IN  /\ waiters' = SubSeq(waiters, m + 1, Len(waiters))
                 /\ signalled' = (signalled \ {c}) \cup {waiters[i] : i \in 1..m}
    /\ Return(c)
    /\ UNCHANGED <<mapVars, entryVars, poolVars, slotVars, closed, envVars>>

\* Its slotWaiter stays in the queue: nobody removes it.
WaitClosed(c) ==
    /\ pc[c] = "wait" /\ closed
    /\ Return(c)
    /\ signalled' = signalled \ {c}
    /\ UNCHANGED <<mapVars, entryVars, poolVars, slotVars, waiters, closed, envVars>>

-----------------------------------------------------------------------------
\* release: the script has returned, failed or been aborted.

\* Only a State of a current pool goes back to the idle list.
DiscardsOnCloseOnly(c) == closed

DiscardsUnlessClosed(c) == dropped[ref[c]] \/ held[c].version # version[ref[c]]

Discards(c) == closed \/ dropped[ref[c]] \/ held[c].version # version[ref[c]]

Release(c) ==
    LET p == ref[c]
        ps == held[c]
    IN
    /\ pc[c] = "run"
    /\ checkedOut' = [checkedOut EXCEPT ![p] = checkedOut[p] - 1]
    /\ lastUsed' = [lastUsed EXCEPT ![p] = now]
    /\ IF Discards(c)
         THEN /\ open' = open \ {ps.L}
              /\ live' = live - 1
              /\ UNCHANGED idle
         ELSE /\ idle' = [idle EXCEPT ![p] = Append(idle[p], [ps EXCEPT !.idleSince = now])]
              /\ UNCHANGED slotVars
    /\ WakeWaiter
    /\ Return(c)
    /\ UNCHANGED <<mapVars, entryVars, dropped, closed, envVars>>

-----------------------------------------------------------------------------
\* Notify, the janitor and Close

\* The key's entry goes with its pool: the next call loads anew.
KeepEntry(k) == UNCHANGED creating

ForgetEntry(k) == creating' = [creating EXCEPT ![k] = None]

\* A notification that names the pool's version, or comes before the pool
\* exists, changes nothing here (the display label is not modelled).
Notify(k, v) ==
    LET p == pools[k] IN
    /\ "notify" \in Events
    /\ p # None /\ version[p] # v
    /\ dropped' = [dropped EXCEPT ![p] = TRUE]
    /\ CloseIdle({p})
    /\ ForgetIdle({p})
    /\ pools' = [pools EXCEPT ![k] = None]
    /\ ForgetEntry(k)
    /\ WakeWaiters(Cardinality(Slots({p})))
    /\ UNCHANGED <<callVars, entryVars, checkedOut, lastUsed, closed, envVars>>

\* sweep reads the clock before it takes the lock.
SweepStart ==
    /\ "sweep" \in Events
    /\ sweepNow = None
    /\ sweepNow' = now
    /\ UNCHANGED <<callVars, mapVars, entryVars, poolVars, slotVars, waitVars,
                   closed, src, now>>

ExpiredInUse == {p \in Mapped : sweepNow - lastUsed[p] > TTL}

Expired == {p \in Mapped : checkedOut[p] = 0 /\ sweepNow - lastUsed[p] > TTL}

\* The idle States of the expired pools are closed and the pools leave the
\* map, but keep their idle list and are not marked dropped.
Sweep ==
    /\ sweepNow # None
    /\ CloseIdle(Expired)
    /\ pools' = [k \in Keys |-> IF pools[k] \in Expired THEN None ELSE pools[k]]
    /\ creating' = [k \in Keys |-> IF pools[k] \in Expired THEN None ELSE creating[k]]
    /\ WakeWaiters(Cardinality(Slots(Expired)))
    /\ sweepNow' = None
    /\ UNCHANGED <<callVars, entryVars, poolVars, closed, src, now>>

\* Close, and the first step of Shutdown.
Close ==
    /\ "close" \in Events
    /\ ~closed
    /\ closed' = TRUE
    /\ CloseIdle(Mapped)
    /\ ForgetIdle(Mapped)
    /\ UNCHANGED <<callVars, mapVars, entryVars, checkedOut, lastUsed, dropped,
                   waitVars, envVars>>

-----------------------------------------------------------------------------
\* The environment

\* The backend publishes a new version of a script (no notification yet).
Publish(k) ==
    /\ "publish" \in Events
    /\ src[k] < MaxVersion
    /\ src' = [src EXCEPT ![k] = src[k] + 1]
    /\ UNCHANGED <<callVars, mapVars, entryVars, poolVars, slotVars, waitVars,
                   closed, now, sweepNow>>

Tick ==
    /\ now < MaxTime
    /\ now' = now + 1
    /\ UNCHANGED <<callVars, mapVars, entryVars, poolVars, slotVars, waitVars,
                   closed, src, sweepNow>>

-----------------------------------------------------------------------------
Init ==
    /\ pc = [c \in Callers |-> "out"]
    /\ ref = [c \in Callers |-> None]
    /\ held = [c \in Callers |-> None]
    /\ granted = [c \in Callers |-> FALSE]
    /\ pools = [k \in Keys |-> None]
    /\ creating = [k \in Keys |-> None]
    /\ keyOf = [p \in PoolIds |-> None]
    /\ phase = [p \in PoolIds |-> "new"]
    /\ version = [p \in PoolIds |-> 0]
    /\ idle = [p \in PoolIds |-> <<>>]
    /\ checkedOut = [p \in PoolIds |-> 0]
    /\ lastUsed = [p \in PoolIds |-> 0]
    /\ dropped = [p \in PoolIds |-> FALSE]
    /\ live = 0
    /\ open = {}
    /\ waiters = <<>>
    /\ signalled = {}
    /\ closed = FALSE
    /\ src = [k \in Keys |-> 0]
    /\ now = 0
    /\ sweepNow = None

\* What a call does on its own, once it has begun.
GetPoolStep(c) ==
    LoadSource(c) \/ LoadFails(c) \/ Register(c) \/ OnceReturn(c) \/ OnceFailed(c)

AcquireStep(c) ==
    \/ AcquireClosed(c) \/ Reuse(c) \/ Reserve(c) \/ Evict(c) \/ Enqueue(c)
    \/ TakeGrant(c) \/ Bail(c) \/ WaitClosed(c)

BuildStep(c) == BuildDone(c) \/ BuildFails(c)

CallStep(c) == GetPoolStep(c) \/ AcquireStep(c) \/ BuildStep(c) \/ Release(c)

Next ==
    \/ \E c \in Callers : RunClosed(c) \/ CtxDone(c) \/ CallStep(c)
    \/ \E c \in Callers, k \in Keys : Run(c, k)
    \/ \E k \in Keys, v \in Versions : Notify(k, v)
    \/ \E k \in Keys : Publish(k)
    \/ SweepStart \/ Sweep \/ Close \/ Tick

Spec == Init /\ [][Next]_vars

\* The Runtime whose janitor retires no pool that a call has got from getPool.
\* Nothing in the code keeps it from doing so, which breaks several of the
\* properties below (run sweep_shutdown); apart from that race they hold.
SweepApart == Sweep => \A c \in Callers : ref[c] \notin Expired

ApartSpec == Init /\ [][Next /\ SweepApart]_vars

\* A call that has begun goes on: the loader and the libraries return, and a
\* script ends (ExecTimeout and MaxInstructions are there to enforce it).  No
\* fairness is assumed of new calls, of contexts, or of the environment.
Fairness == \A c \in Callers : WF_vars(CallStep(c))

FairSpec == Spec /\ Fairness

-----------------------------------------------------------------------------
\* Properties

TypeOK ==
    /\ pc \in [Callers -> {"out", "once", "load", "acquire", "wait", "bail", "build", "run"}]
    /\ ref \in [Callers -> PoolIds \cup {None}]
    /\ held \in [Callers -> PooledState \cup {None}]
    /\ granted \in [Callers -> BOOLEAN]
    /\ pools \in [Keys -> PoolIds \cup {None}]
    /\ creating \in [Keys -> PoolIds \cup {None}]
    /\ keyOf \in [PoolIds -> Keys \cup {None}]
    /\ phase \in [PoolIds -> {"new", "loading", "ready", "failed"}]
    /\ version \in [PoolIds -> Versions]
    /\ idle \in [PoolIds -> Seq(PooledState)]
    /\ checkedOut \in [PoolIds -> Int]
    /\ lastUsed \in [PoolIds -> Times]
    /\ dropped \in [PoolIds -> BOOLEAN]
    /\ live \in Int
    /\ open \in SUBSET StateIds
    /\ waiters \in Seq(Callers)
    /\ signalled \in SUBSET Callers
    /\ closed \in BOOLEAN
    /\ src \in [Keys -> Versions]
    /\ now \in Times
    /\ sweepNow \in Times \cup {None}
    \* A caller refers to a pool during a call, and owns a State in "run".
    /\ \A c \in Callers : (ref[c] = None) <=> (pc[c] = "out")
    /\ \A c \in Callers : (held[c] # None) <=> (pc[c] = "run")

\* The callers that hold a slot, and those that hold one in pool p.
InUse == {c \in Callers : pc[c] \in {"build", "run"}}
InUseOf(p) == {c \in InUse : ref[c] = p}

\* A State belongs to one caller, or to one place of one idle list: two calls
\* never run on the same Lua State (Run's and RunWith's ownership window).
SingleOwner ==
    /\ \A c, d \in Holding : c # d => held[c].L # held[d].L
    /\ \A s, t \in Slots(UsedPools) : s # t => StateAt(s).L # StateAt(t).L
    /\ HeldStates \cap IdleStates(UsedPools) = {}

\* The State a script runs on has not been closed.
HandedOutOpen == HeldStates \subseteq open

\* Runtime.live counts the existing States, idle and checked out.
LiveIsIdlePlusInUse ==
    live = Cardinality(Slots(Mapped)) + Cardinality(InUse)

\* MaxStates caps the Lua States that really exist or are being built, a
\* closed State that still runs a script included.
CapRespected ==
    Cardinality(open \cup HeldStates) + Cardinality(Building) <= MaxStates

\* The States that exist or are being built never exceed the cap, those that
\* the janitor lost with their pools included; until Close, live counts them all.
OpenWithinCap ==
    /\ Cardinality(open) + Cardinality(Building) <= MaxStates
    /\ ~closed => live = Cardinality(open) + Cardinality(Building)

\* managedPool.checkedOut is the number of the pool's States in use: sweep
\* takes it as the proof that it may retire the pool.
CheckedOutExact ==
    \A p \in UsedPools : checkedOut[p] = Cardinality(InUseOf(p))

\* A retired pool keeps no State: nothing would ever close one (release's
\* comment on pool.dropped).
RetiredPoolsAreEmpty ==
    \A p \in UsedPools \ Mapped : idle[p] = <<>>

\* No lost wakeup: while acquirers are queued, every slot that is free or
\* idle is being handed over to somebody who will claim it or pass it on.
GrantsInFlight ==
    {c \in Callers : \/ pc[c] \in {"wait", "bail"} /\ c \in signalled
                     \/ pc[c] = "acquire" /\ granted[c]}

NoStrandedSlot ==
    waiters # <<>> /\ ~closed =>
        MaxStates - live + Cardinality(Slots(Mapped)) <= Cardinality(GrantsInFlight)

\* One load at a time for a key: the creating entry is shared.
SingleFlight ==
    \A c, d \in Callers :
        pc[c] = "load" /\ pc[d] = "load" /\ keyOf[ref[c]] = keyOf[ref[d]] => c = d

\* A pool leaves the map only by being retired: registering a loaded pool
\* never overwrites another one, whose States would be lost.
NeverClobbered ==
    [][\A k \in Keys : pools[k] # None => pools'[k] \in {pools[k], None}]_vars

\* The janitor retires only pools without a State in use that nobody has
\* used for longer than the TTL, even though it read its clock before it got
\* the lock and pools were used in between.
SweepSparesUsed ==
    [][Sweep => \A k \in Keys :
         pools[k] # None /\ pools'[k] = None =>
            InUseOf(pools[k]) = {} /\ now - lastUsed[pools[k]] > TTL]_vars

\* When a closed Runtime has no call in flight, no State is left: Shutdown,
\* which waits for live = 0, returns.
ClosedLeavesNoState ==
    closed /\ (\A c \in Callers : pc[c] = "out") => live = 0 /\ open = {}

\* Back-pressure drains: unless new calls keep coming, every call returns.
NewCall == \E c \in Callers, k \in Keys : Run(c, k)
AllOut == \A c \in Callers : pc[c] = "out"
CallsDrain == []<><<NewCall>>_vars \/ <>[]AllOut

\* Shutdown's wait ends once the scripts in flight have.
CloseDrains == closed ~> (live = 0 /\ open = {})

=============================================================================
