# Verification of luart (go-lua-perf)

TLA+ modules that model the luart Runtime of this repository, the TLC
configurations that check them on small instances, and theorems about them that
TLAPS proves. `PROJECT.json` lists components, runs, mutants, findings, hazards
and theorems, and maps every definition to the source lines it stands for.

To check: `tlc -workers 2 -config <run>.cfg <module>.tla` for a run,
`tlapm <module>.tla` for the proofs of a module.

## 1. The system

luart runs many Lua scripts in one Go process. A `Runtime` (`manager.go`) keeps,
for every script key, a pool of Lua States built for the current version of the
script. Many goroutines call `Run`/`RunValues`/`RunWith` at once; `Notify` tells
the Runtime that a script changed; a janitor goroutine retires pools nobody has
used; `Close` and `Shutdown` end it.

| Component | State it keeps | Operations | What makes it correct |
|---|---|---|---|
| Pool creation, `getPool` (443-504) | `pools`, `creating`, a `poolEntry` with a `sync.Once`, pool and error | look up, make the entry, load and compile once outside the lock, register, forget a failed entry | one load per key at a time; a registered pool is never overwritten; a failed load can be retried |
| Acquisition, `acquire` (508-590), `wakeWaiters` (731-753), `pickLRUIdleLocked` (756-770), `buildState` (799-819) | `live`, `waiters`, `idle`, `checkedOut`, `lastUsed` | reuse the warmest idle State, build under the cap, evict the longest idle State of any pool, wait in a FIFO queue, pass on an unused hand-off | a State has one owner; `MaxStates` is a hard cap; the counters agree with the States; no freed slot is lost while somebody waits |
| Release (597-616) | as above | back to the idle list, or close when the pool is outdated or the Runtime closed | an outdated State never rejoins a pool; the slot goes to the next waiter |
| Notify (632-680) | `pools`, `creating`, `dropped` | drop the pool, close its idle States | States in flight finish on the old version and are closed afterwards |
| Janitor (684-717) | its own clock reading | retire pools idle for longer than `IdleTTL` | never a pool in use; nothing is lost |
| Close, Shutdown (386-439) | `closed`, `closedCh`, `stopJan`, `notify` | refuse new calls, close idle States, wait for the ones in flight | the Runtime ends with no State and `live = 0`; Shutdown returns |
| Execution, `RunWith` (281-359), `runIsolated` (826-835) | the context and limits bound to a State, the deferred calls, the handle | bind, run, abort, reset, release; nested calls | nothing bound to a State survives its release; nothing of a call survives its end; a capped call ends |
| `CompileCache`, `MapLoader` (`loader.go`) | protos by key and version, sources by key | get or compile; set, load | a key is compiled once, whoever asks |
| Custom loaders (`examples/custom-loaders`) | cached sources | route, cache, invalidate | an invalidated source is not served again |
| Configuration (`config.go`, `New`, `luartconfig`) | none | defaults, layering of file and environment, `MaxStates` from the memory budget | `MaxStates >= 1`, within the budget; a later layer wins, field by field; what prevails is valid |
| Value conversion (`convert.go`) | none | deep copy of results | terminates, keeps the shape of tables, refuses what cannot be copied and nothing else |
| `ScriptRuntime` (`cmd/multi-script`), a runtime of its own | sources, a pool per key: a `sync.Pool` or a channel of N States | register, run, close | one pool per key; N States for good; every call ends |
| Observability, other demos, benchmarks, config generator | none of the Runtime's | | not modelled |

Interaction. Everything in a Runtime that goroutines share is behind one mutex,
`Runtime.mu`, except three stretches of code that run outside it: the load and
compile of a source (in the entry's `once`), the build of a State, and the script.
Callers blocked in `acquire` wait on a channel of their own (`slotWaiter.ch`), on
their context, and on `closedCh`. The janitor reads the clock before it locks.

What is hard here. A caller gets its pool in one critical section (`getPool`) and
uses it in another (`acquire`), so the pool may be dropped, swept or closed
between the two. A slot is reserved before its State exists. A hand-off is on its
way to a waiter that is giving up. A load finishes after a notification or a
close. The `hazards` of `PROJECT.json` list these with their lines and the
properties that cover them.

## 2. The modules

| Module | What it is |
|---|---|
| `Runtime` | `manager.go`'s Runtime: callers, pools, States, waiters, notification, janitor, close; properties |
| `RuntimeInv` | the parts of the inductive invariant, `IInv` |
| `VMSlots` | the abstract promise of the Runtime about its States: slots reserved, built, granted, given back, discarded, under a cap |
| `RuntimeSlots` | the refinement mapping from `Runtime` to `VMSlots` |
| `MCRuntime` | symmetry and view for TLC |
| `HotReload` | EXTENDS `Runtime`: the publisher of changes, `MapLoader` or a `CachingLoader`, and what a notification promises |
| `MCHotReload` | symmetry and view for TLC |
| `Shutdown` | EXTENDS `Runtime`: Shutdown's wait loop and the signals of those who free States |
| `Execution` | EXTENDS `VMSlots`: what a call does with the State it owns, `RunWith` |
| `MCExecution` | instances of `Execution` for TLC |
| `CompileCache` | the cache of `loader.go`, which `cmd/multi-script` has a copy of |
| `MultiScript` | EXTENDS `CompileCache`: `ScriptRuntime` of `cmd/multi-script`, both kinds of pool |
| `MCMultiScript` | instances of `MultiScript` for TLC |
| `Startup` | configuration sources to a Runtime's cap: `luartconfig`, `Validate`, `New` |
| `Convert` | `RunValues`' copy, level by level, and what it should be, place by place |
| `MCPure` | `Startup` and `Convert` for TLC |
| `RuntimeProofs` | TLAPS: type correctness, and each part of `IInv` is kept by every step |
| `RuntimeTheorems` | TLAPS: the properties, as theorems of the specification |
| `SlotsProofs` | TLAPS: `Runtime` implements `VMSlots` |
| `ExecutionProofs` | TLAPS: `VMSlots` keeps its promise, `Execution` keeps to it, and a call leaves nothing behind |
| `ShutdownProofs` | TLAPS: `Shutdown` is a `Runtime` apart from the race, returns clean, and loses no last signal |
| `HotReloadProofs` | TLAPS: what a notification promises about later calls |
| `MultiScriptProofs` | TLAPS: one compile, one owner, N States |
| `PureProofs` | TLAPS: precedence, refusals and the cap of `Startup`; what `Convert` copies and refuses |

### Runtime

A step is one critical section of `Runtime.mu`, or one of the stretches outside
it. `pc[c]` says where a calling goroutine is:

    out -> once -> load -> acquire -> build -> run -> out
                              |  ^
                              v  |
                             wait -> bail -> out

| In the model | In the code |
|---|---|
| `RunHit`, `RunJoin`, `RunCreate` | the first critical section of `getPool`: pool found, entry found, entry made |
| `LoadSource`, `LoadFails`, `Register` | `entry.once.Do`: the load reads the source's version (outside the lock), fails, or puts the pool into `pools` |
| `OnceReturn`, `OnceFailed` | the callers that waited for the once; a failed entry is forgotten if it is still the key's |
| `Reuse`, `Reserve`, `Evict`, `Enqueue`, `AcquireClosed` | the branches of `acquire`'s loop, one locked section each |
| `BuildDone`, `BuildFails` | `buildState` outside the lock |
| `TakeGrant`, `CtxDone` then `Bail`, `WaitClosed` | the three cases of the waiter's `select`; `Bail` is the locked part of the context's case |
| `Release` | `release`, with the script that ends before it |
| `Notify`, `SweepStart` then `Sweep`, `Close` | the operations of the same names; `sweep`'s clock is read before the lock, hence two steps |
| `Publish`, `Tick` | the source backend and the clock |

Identities. A `poolEntry` makes at most one `managedPool`, so one id of `PoolIds`
stands for both; `phase` is the state of the entry's once. A Go object lives as
long as something refers to it: an id is used again once neither a map nor a
caller refers to it (`UsedPools`, `UsedStates`). `open` is the set of Lua States
that were built and not closed; the code has no such variable, it is what the
counters are about.

Abstractions. A version is a number; the display label, the metrics, logs and
traces are left out; a compile is part of its load because it depends on the key
and the version only. The clock only goes forward, whereas `nowNanos` reads the wall
clock: one that is set back lets the janitor spare a pool for longer, one that is set
forward is a large `Tick`, and one that is set back between sweep's reading and its lock
is not modelled. A script is one step: what happens between the acquisition
of a State and its release, calls of the Runtime from within a script included,
is the subject of `Execution`.

`MCRuntime`. `Symmetry` permutes callers and keys, which the specification never
orders. `View` hides what an object holds that nothing refers to any more:
`RunCreate`, `LoadSource` and `Register` set each of these fields before it is
read again, so two states with the same view have the same futures up to the
view, and no property reads the hidden part. The runs of liveness properties use
neither.

### VMSlots and the refinement

`VMSlots` says what a Runtime is for those who run scripts on it: `use` (the State
each user owns), `building`, `idle`, `lost` and `shut`. It knows no keys, pools,
queues or counters. `RuntimeSlots` maps the Runtime to it: a user is a caller, what
it owns is `held`, `idle` is the union of the idle lists of the mapped pools,
`shut` is `closed`; `lost` stays 0, because opener panics happen in `Execution`
only. `ImplementsSlots` says that every step of the Runtime is a step of `VMSlots`
or none: a reuse takes, a reservation reserves, a build builds, an eviction, a drop
or a sweep retires, a release gives back or discards, a Close shuts. The runs check
it where the janitor's race of section 5 does not occur; with that race it is false,
as the orphaned pool's States are neither owned nor idle.

### Execution

On top of `VMSlots`, so that it need not repeat how a State is found. A frame
`<<c, i>>` is the i-th nested call of goroutine c, and makes these steps:

    out -> acquire -> [build ->] bind -> script -> handle -> unwind -> out

| In the model | In the code |
|---|---|
| `AcquireIdle`, `AcquireNew`, `AcquireEnds` | `acquire`: a State, a reserved slot, `ErrClosed` or the context's error |
| `BuildDone`, `BuildFails`, `OpenerPanics` | `buildState` and `newState`, which run the chunk and the openers unprotected |
| `Bind` | lines 301-324: the timer's context, `SetContext`, `SetInstructionLimit`, and what each of them defers |
| `ScriptRuns`, `ScriptEnds`, `ScriptAborts` | `Call` or `runIsolated`: it goes on, ends, or the engine aborts it because of what is bound to the State |
| `NestedCall` | a Go callback of the script, or the handle, calls `Run` |
| `HandleEnds` | the handle returns, or panics |
| `RunDeferred` | one deferred call, the one deferred last first: clear the limit, clear the context, cancel, release |
| `TimerFires`, `CallerCancels`, `OthersRetire`, `Closes` | the environment |

`Deferred` is the sequence of a call's deferred calls in the order in which they will
run, the release at its end, because lines 299-324 defer it first. A panic of the handle, or of an inner call that
the handle makes, unwinds the call; one in a script's callback becomes a Lua error
(`WithRecoverGoPanics`). The engine (lua-pure) is external: it checks the bound
context and counts the bound instructions at opcodes, and nothing else ends a loop.
Which error a failed call returns, and what a script does to a State's globals, are
left out; so is the difference between running the chunk in `buildState` and per
call (`IsolateGlobals`), except that a chunk that loops in `buildState` is an event
a run allows ("chunkLoops").

### CompileCache and MultiScript

`FindEntry` is the section under the cache's lock, `BeginOnce`, `EndOnce` and
`PassOnce` the entry's `sync.Once`. `MultiScript` uses them between the two locked
sections of `getPool` (`Lookup`, `Insert`). A pool is named for the key and the call
that made it, so that a second pool of a key is another pool. `kind` is chosen at
the start: with a `sync.Pool` the collector takes idle States (`Collect`) and `Get`
may build one at any time; with a channel, `Get` waits, `Put` would wait on a full
channel, and `Close` goes from pool to pool: it closes the channel (`CloseChannel`),
then receives what is in it (`Drain`, `Drained`) while calls that have the pool go on: they may
still receive a State, or nil (`GetNil`), and their `Put` panics on the closed channel.
`closing` are the pools that the Close at work has closed. Close may be called again; it
panics at a pool that is closed already (`ClosePanics`), and leaves the rest as they are.

### Startup and Convert

`Startup` follows a configuration from its sources, `ReadBase` (file or string, may
be faulty), `ReadEnv` (the overlay), `ToConfig` (durations, `Validate`), to
`NewRuntime` (defaults, the measured State, the derived cap with the width of an
int). A program may also write its Config itself, which nobody validates. Each
loader of `luartconfig` is a path through these steps. The properties state the
result without the steps: which layer prevails for a field, what is refused, what a
Runtime starts with.

`Convert` has the copy of each value as a function of the levels of tables that are
left (`Copy`; the code counts `depth` up to `maxConvertDepth` instead). Each level is
one operator, `ConvertValue` over `CopyEntries`, given the copies one level down. The
script that ran is a heap of tables, which may be cyclic and share sub-tables, and
the list of results; `hook` are the functions and userdata that `Config.ConvertValue`
takes: for the others it returns an error, or it is not set. The properties do not mention the levels: `Places` are the values that the results lead
to, with the number of tables they are in, and `RunValues` fails iff one of them may
not be copied (`MayCopy`); `Pairs` are those values with what the copy has in their
place, and each is `Alike`: arrays where the keys are 1..n, maps elsewhere, the same
data. An error stands for any error: which of several a call returns is left out.

### HotReload

Composes the Runtime with its source loader and a publisher per key. The
publisher makes three steps (`PublishNew`, `Invalidate` if there is a cache,
`NotifyNew`), the order that docs/SourceLoader.md asks for; a notification may come
again later (`NotifyAgain`). The loader is a `RoutingLoader`: it sends the keys of
`routes`, which is any set of keys and stays as it is, to a `CachingLoader`, and the others to
a `MapLoader`, whose Load is atomic. The `CachingLoader` of
`examples/custom-loaders` looks up the cache (`LoadHit`, `LoadMiss`),
fetches from the backend (`Fetch`) and fills the cache (`Fill`) in steps of their
own. The other steps are those of `Runtime`.

Two history variables say what was promised. `heard` keeps for each key the newest
version notified, at three levels: by any notification, by one that met no load of
an older source in flight ("apart"), and by one whose invalidation met no fetch of
one either ("clean"). `since` is what a call could rely on when it began.
`Fresh(level)` says its script is not older than that. It fails for "any"
(`reload_lost`), holds for "apart" without a cache, fails for "apart" with one
(`reload_refill`), and holds for "clean".

### Shutdown

`Shutdown`'s loop is `Check` (it reads `live` under the lock), then one of
`TakeToken`, `Recheck`, `GiveUp`. `token` is the one place of the `notify` channel;
`owed` are the goroutines that have unlocked and not yet called `signal()`. A
State is freed by `FreeingStep` (release or a failing build), which signals later;
a drop signals under the lock; a sweep signals whether or not it retired anything.
A Shutdown that
gives up at once stands for a plain Close beside another one.

## 3. The runs

| Run | Instance | What it shows |
|---|---|---|
| `pool_core` | 3 callers, 2 keys, cap 2; drops, close, failing loads and builds, contexts that end | open States, counters, cap, retired pools, one load at a time, no pool overwritten; the inductive invariant of the proofs, which includes that a State has one owner; `VMSlots` is implemented |
| `pool_ttl` | 2 callers, 2 keys, cap 2, clock to 3, TTL 1; janitor, close | the janitor spares what is used; even when pools are orphaned, a State has one owner and the States that exist stay within the cap |
| `pool_drains` | 3 callers, 1 key, cap 1; contexts end, builds fail, drops; fairness | no freed slot is lost; every call returns unless new calls keep coming |
| `reload` | 2 callers, 1 key, one change; with and without a cache, failing loads, janitor, close | a notification that met no older load (no older fetch, with a cache) keeps later calls off the older source; no rollback; the cache never holds less than the last clean notification |
| `shutdown` | 2 callers, cap 1, 2 Shutdowns; drops, failing builds, sweeps, contexts; fairness | the last signal reaches a Shutdown, the timer the other; both return, and then the Runtime has no State, ever |
| `execution` | 2 goroutines, one of them nesting, cap 2, all four settings of timeout and limit; loops, failing builds, panics of handles and openers, contexts, close; fairness | calls leave nothing behind, aborts hit the call they are meant for, capped calls end, callers that wait for each other are never all of them |
| `scripts` | 2 goroutines, 1 key, 4 sources (two good, one bad, one that raises), both kinds of pool; collector, Close, also again; fairness | one compile per key, one pool per key with its N States, one owner per State, every call ends |
| `pure` | all pairs of layers over small sets of settings, faulty sources, ints of 5 bits; all heaps of three tables (2, 1 and 1 entries), a function and a userdata of which the hook takes any, nesting 2 | precedence, refusals, the cap; what `RunValues` copies and refuses |
| `sweep_shutdown`, `reload_lost`, `reload_refill`, `preload_runaway` | | the findings of section 5 |

Bounds and why they are enough. Two keys are needed for eviction across pools and
three callers for a hand-off with a bystander (one that hands over, one that
receives, one that interferes). A cap of 1 makes every acquisition contend, a cap
of 2 lets two States of one pool exist at once, so that the order of the idle
list matters. `PoolIds` has one id for every key and caller, the most that can be
referred to at once, and `StateIds` the cap (with the janitor's orphaned pools:
more), so these two bounds never block a step the code could take. `MaxTime` 3 with `TTL` 1 lets a
pool expire, be used again and expire again. `MaxVersion` 1 gives one reload;
`Notify` may come at any time, also more than once and without a change of the
source. Waiters are bounded by the callers. The only counters with a bound in a
guard are the clock (`Tick`), the source's version (`Publish`) and, in `Execution`,
`lost` (`MaxLost`) and one nested call per call (`nested`). With a cap of 2, two
goroutines of which one nests contend for every slot, and one lost slot is enough to
leave the nesting one waiting for itself: `SomebodyGoesOn` says how many slots
exclude that. With fewer, which includes slots lost to openers that panic, the wait is real, and
ends only with a context or a Close. In `scripts`, one State per fixed pool makes two goroutines contend
for it. In `pure`, 5 bits let a quotient wrap to a negative int, and to a smaller
positive one; three tables nest one level deeper than the bound of 2 allows.

Fairness. `FairSpec` assumes weak fairness of `CallStep(c)`: a call that has begun
goes on. The code justifies it as far as the loader and the Lua libraries return
and scripts end, for which `ExecTimeout` and `MaxInstructions` exist; goroutines
are scheduled and a mutex is not withheld for ever. Nothing is assumed of new
calls, of contexts, of notifications, of the janitor or of Close. Under this
assumption alone a waiter may be overtaken for ever by new calls: a granted waiter
is dequeued before it runs, a fresh entrant may take its State, and the waiter goes
to the end of the queue. This is why `CallsDrain` says: unless new calls keep coming.

`ShutdownFairSpec` assumes the same of the calls in flight, each of which gives the
signal it owes, and of a goroutine in Shutdown; not that its context ends. In
`Shutdown` the clock stands still, so the sweeps only signal: the race of section 5
would keep Shutdown waiting, which `sweep_shutdown` shows. For the same reason `pool_core` has no janitor: what it checks
holds apart from that race, and finding 1 is the race itself.

`ExecFairSpec` assumes that a call that can make a step on its own does, and that an
ExecTimeout passes (`TimerFires`). It does not assume that a script that loops ends,
nor that a waiting call ever gets a State: `CappedCallsEnd` is about calls that have
a slot, and exempts one whose inner call waits for one.

`ScriptsSpec` assumes that Close goes on when it can, and strong fairness of
`CallStep(u)`: a goroutine that waits at a channel, or for the mutex that one Close after
the other may take, is served in turn. Go's channels queue their receivers, and its
mutex hands over to a waiter that has waited too long.

`TypeOK`, `SlotsTypeOK` and `CacheTypeOK` are the type invariants; those of `HotReload`,
`Shutdown`, `MultiScript` and `Startup` document the variables these modules add and
hold in the runs too, which leave them out to spend the checks on the rest.

Every property has a mutant in `PROJECT.json`: a plausible bug of the code
(a forgotten counter, an off-by-one at the cap, a hand-off that is not passed on)
under which TLC finds that property violated.

## 4. The proofs

Proved for every set of callers, keys, pools and States, every cap, TTL and
horizon, and every choice of the environment's events. Every invariant and every
action property of a passing run is the subject of a theorem; the run `pool_core`
checks the largest inductive invariant, `IInv`, too.

### Runtime

Of `Spec`, the code as it is:

- `TypeCorrect`: `TypeOK`.
- `CheckedOutIsExact`: `checkedOut` is the number of the pool's States in use. The
  inductive invariant, `Counted`, says so of every pool id, referred to or not.
- `SweepIsSafe`: the janitor retires only pools with no State in use and unused for
  longer than the TTL. It rests on `Counted` and on sweep's clock never being ahead.
- `LoadsOnce`, `PoolsNeverClobbered`: one load of a key at a time, and registering
  never overwrites. Both follow from `Entries`: an entry being loaded is still its
  key's, and its key has no pool (`LoadingCurrent`). The janitor does not disturb this,
  because it retires loaded pools only.
- `OneOwnerAlways`: a State has one owner. The janitor's orphaned pools still have
  idle States that their calls may take, so the inductive invariant, `OneOwnerUsed`,
  counts the owners over all the pools that something refers to.
- `OpenStatesCapped`: the race loses States, but neither are more built than the cap
  allows, nor does `live` miscount those that exist before Close. What the race leaves of
  the invariants below is `PoolStates` (only loaded pools that are not dropped have
  idle States) and `KeptOpen` (the States of pools that are not orphaned are open). They and one owner per
  State give that whatever closes a State finds it open and counts it once,
  so `live` and the number of open and building States move together. After Close
  nothing is reserved any more, and that number only shrinks (`ClosedShrinks`).

Of `ApartSpec`, which differs from `Spec` in one respect: the janitor does not
retire a pool while a call refers to it (`SweepApart`). The code does not ensure
this, and without it the properties below fail (section 5); so the theorems say
that this race is the only way to lose them, and that a sweep that counted
references would keep them.

- `Safety`: `IInv`, an invariant of `ApartSpec`.
- From it `NeverRunsOnClosed`, `CapHolds`, `LiveIsExact`, `RetiredEmpty` and
  `ClosedIsClean`.
- `NoLostWakeup`: no slot is free or idle, and not on its way to somebody, while
  others wait for one.
- `RuntimeImplementsSlots`: the refinement of `VMSlots`.

The argument. None of the properties is inductive alone. That `live` counts the
States needs that an evicted, dropped or released State is open and in one place
only, else closing it would not change the number of open States by one
(`LiveCounts` needs `OneOwner` and `OpenIsOwned`). That a released State stays
reachable needs that the pool it goes back to is in the map (`IdleOnlyInMap`), which
follows from the pool not being dropped only because a loaded, undropped pool is its
key's pool (`ReadyCurrent`). That in turn needs that registering never overwrites
(`EntryInv`: `OnceAgrees`, `LoadingCurrent`, `MapsAgree`). `EntryInv` holds of `Spec`,
`ReadyCurrent` is what the janitor's race breaks. So `IInv` is `TypeOK`, `Keyed`,
`EntryInv`, `ReadyCurrent`, `IdleOnlyInMap`, `OneOwner`, `OpenIsOwned`, `LiveCounts` and
`QueueInv`, and `RuntimeProofs` and `RuntimeTheorems` have for each part a lemma that every
step keeps it. The cardinality facts (a bijection between idle places and idle
States) are in `RetiredStates` and `LiveSum`.

For `NoLostWakeup` the invariant is `AllClaimed`: while callers are queued on an open
Runtime, the callers that hold a slot and those with a hand-off in flight are at least
as many as there are slots. A step that frees a slot hands it to the first of the queue
or finds nobody there; `QueueInv` says that this waiter is queued once, is still in
`acquire`, and had no hand-off before, so one claimant comes for the one that leaves.
With `LiveSum` this is `NoStrandedSlot`.

For the refinement: by `IInv` the idle States of the mapped pools are the open States
that no caller holds (`IdleSplit`), so the step of `VMSlots` can be read off from what
a step of `Runtime` does to `open` and `held`; that a reservation has room rests on
`live` being exact (`TakenIsLive`).

### The modules above it

- `HotReload` (`ReloadSpec`, janitor included). The argument runs along the versions.
  `EntryInv` admits one load per key, and only while the key has no pool, so that
  what is registered next is the answer of that one load. Of a key, every loaded
  pool is no newer than the pool of the map, than the cache and than the answer under
  way (`InOrder`); the levels that are promises never exceed any of these
  (`HeardKept`), and a call relies on no more than was notified when it began
  (`SinceKept`). A notification that met no older load raises a level only when nothing
  older can still be registered; with a cache, `InvalidatedIsClean` carries "no older
  fetch" from the invalidation to the notification. `NotifiedCallsAreFresh`,
  `CleanCallsAreFresh`, `NoPoolGoesBack` and `CacheStaysFresh` are read off.
- `Shutdown`. Its clock stands still, so no pool expires and it implements
  `ApartSpec` (`ShutdownImplementsApart`): `IInv` and what follows from it hold in it.
  `LiveIsInFlight` then says what `live` counts once the idle lists are empty,
  `ShutdownIsClean` that a Shutdown that saw `live = 0` saw a Runtime that stays empty, and
  `LastSignalArrives` that whoever frees the last State still owes, or has left, a
  signal for those who wait.
- `VMSlots` and `Execution`. `SlotsAreSafe`, by the invariant that also says that finitely many
  VMs are idle. `ExecutionImplementsSlots`, hence `ExecutionSlotsSafe`, since every step of a
  call takes, builds or gives back its own VM or leaves them alone. `ExecInv` adds where
  a call stands to what it has: it owns a VM from the binding on until its deferred
  calls, of which the release is the last, have all run (`Places`), and whoever is bound
  to a VM owns it and has the removal still deferred (`Bindings`). So whatever panics
  or aborts, the bindings are gone before the release runs: `BindingsAreOwners`,
  `EndedCallOwnsNothing`. The slots that are
  still counted once a Runtime is closed and its calls have ended are those that openers
  lost, as a closed Runtime has nothing idle (`SlotsAreSafe`). `NotAllWait` is a count: calls that wait for an inner call hold one
  slot each, so that as many calls as there are slots would have to nest.
- `MultiScript`. The once of a key is run by one call, which is at it (`OnceInv`); the second
  look of `getPool` makes the first pool of a key its only one (`PoolsInv`); a State is
  used, or idle in one pool, or closed (`OwnersInv`); and a fixed pool that is open
  has N of them, counted by cardinality. `EachCompilesOnce`, `StatesHaveOneOwner`,
  `FixedStaysFixed`.
- `Startup`. `StartupInv` says for each stage what was read so far, so that
  `PrecedenceIsKept` and `FailuresHaveCauses` hold for every pair of layers, and
  `EveryStartIsSound` for every budget and width of int: the quotient that wraps is
  taken modulo `2 ^ IntBits`, of which the proof needs only that it is a positive
  integer (assumed by name, and evaluated by TLC).
- `Convert`. What `Copy`, `Places` and `Pairs` are for each level is proved, not assumed:
  that a recursive function exists, and that a fact of the levels holds for all of them,
  both go by the least level at which it would fail (`OverLevels`), as the induction
  theorems of the library are of no use here. `RefusalIsExact` takes an error down
  from a result to the place that causes it (`RefusedHasPlace`), and a place that may not be copied up to
  the result it is in (`PlacesCopied`). `CopiesAreFaithful` goes forward along the pairs
  (`PairsAreCopies`); that the code's test for a sequence, n entries with distinct keys within 1..n, is
  the same as the keys being 1..n, is a count. `CyclesAreRefused`: if each table
  of a set has an entry in the set, there is a place in it at every depth up to the
  bound, and the one at the bound refuses.

Assumptions: the named `ASSUME`s of `Runtime` (cap at least 1, which `New`
ensures; finite sets; `None` is no other value), `VMSlots`, `Execution`, `Shutdown`, `MultiScript`, `CompileCache`, `Startup` and `Convert`, which TLC evaluates in the runs.

Only model-checked. The liveness properties `CallsDrain`, `CloseDrains`, `ShutdownReturns`,
`CappedCallsEnd` and `CallsEnd`: liveness under fairness is out of the prover's reach.

## 5. Findings

1. `sweep` (manager.go:704) takes `checkedOut = 0` as proof that nobody uses a
   pool, but a caller that has returned from `getPool` and not yet been through
   `acquire`, or waits in it, has a pool that counts nothing. The swept pool is
   neither marked `dropped` nor emptied; the caller's State is released into it and
   lost: `live` counts it for ever, and after a Close it never reaches 0, so
   Shutdown waits until its context ends (`sweep_shutdown`). If the pool had idle
   States, they are closed but still in its list, and the caller runs its script on
   one of them: `HandedOutOpen` and `CapRespected` fail of `Spec`, too, as TLC shows
   in the same instance. Two promises outlast the race: the script on a closed State
   is still its only user (`OneOwnerAlways`), and what `CapRespected` loses is the closed
   States in use, as the open ones stay within the cap (`OpenStatesCapped`). After Close a closed
   State that is released is counted down a second time: `live` may then also fall below 0,
   where Shutdown does not return either, as it waits for `live = 0`.
2. `Notify` does nothing while the key's pool is absent (manager.go:634), also when
   the key's load is in flight with the source it read before the change: that load
   then registers the old version, and calls run it until another notification or a
   sweep (`reload_lost`).
3. `CachingLoader.Load` caches what it fetched although the key was invalidated
   meanwhile (caching_loader.go:51): Invalidate before Notify, as the documentation
   asks, is then not enough, and every reload gets the old source
   (`reload_refill`).
4. `buildState` runs the script's chunk (manager.go:814) before `RunWith` binds a
   context or an instruction limit: without `IsolateGlobals`, a chunk that loops keeps
   its call and its slot for ever, where docs/config.md:27 promises that each `Run`
   finishes within `ExecTimeout` (`preload_runaway`).

Seen while modelling, without a run of its own: a granted waiter may lose its State
to a fresh caller and goes to the end of the queue, although a comment
(manager.go:517-518) says it claims the slot; a library opener that panics in `newState` (manager.go:782-791) keeps its
slot and its count in `checkedOut` for ever if the caller recovers, as `acquire` gives them
back only where `buildState` returns an error (`lost`; `EndedOwnsNothing` says that nothing else stays
counted): there is one slot less, and Shutdown waits until its context ends; `ScriptRuntime.Close` does not
stop pools from being made afterwards, which nobody closes; a loader that panics
leaves its entry with neither a pool nor an error, and the next call of the key fails
in `acquire` on the nil pool while it holds `Runtime.mu`.

## 6. Plan

Done: every module of section 2 with its runs, and a theorem for every safety
property the runs check. Open:

1. what a sweep that counted references would need in the code, as `ApartSpec` says what
   it would gain: a model of that change, with `RuntimeTheorems` reused for it;
2. a loader that panics inside the once, and the nil pool that later calls then get.

## 7. Not modelled

The display label of a pool, which `Notify` refreshes (only `PoolStats` and log lines
show it); metrics, logs and traces (they keep no state of the Runtime); the database and
file loaders (I/O behind `SourceLoader`); a panic of a loader inside the once; the
globals of a State and what isolation does to them (the Lua engine's); which error a
failed call returns; the other demos, the benchmarks and the configuration generator
(straight-line programs that call the library).
