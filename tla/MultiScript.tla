---------------------------- MODULE MultiScript -----------------------------
(***************************************************************************)
(* ScriptRuntime (cmd/multi-script/main.go): scripts are registered and    *)
(* run by many goroutines; each key's pool is made once, by a double       *)
(* check around a compilation outside of the lock; a pool is a sync.Pool,  *)
(* which the garbage collector empties, or a channel of N States, whose    *)
(* Close drains it while calls may be going on.                            *)
(***************************************************************************)
EXTENDS CompileCache

CONSTANTS
    Raises,       \* sources whose chunk raises an error in the preload
    VMs,          \* identities of Lua States
    FixedN,       \* States per script of the fixed pools
    Closing,      \* a run may call Close
    None          \* no source, no pool, no State

\* A pool is named for its key and for the call that made it.
PoolIds == Keys \X Users

VARIABLES
    kind,         \* ScriptRuntime.kind
    sources,      \* ScriptRuntime.sources
    pools,        \* ScriptRuntime.pools
    idle,         \* the States each pool holds (sync.Pool, channel)
    over,         \* the pools whose channel is closed
    closing,      \* the pools that the Close at work, which has mu, has closed
    shut,         \* the States that were closed
    call,         \* each user's call: its operation and key, the source it read
    at,           \* where it is
    pool,         \* the pool it got
    use           \* its State

runtimeVars == <<kind, sources, pools, idle, over, closing, shut>>
callVars == <<call, at, pool, use>>
scriptVars == <<cacheVars, runtimeVars, callVars>>

ASSUME ScriptsAssumption ==
    /\ Bad \cup Raises \subseteq Sources
    /\ FixedN \in Nat \ {0}
    /\ IsFiniteSet(VMs)
    /\ None \notin VMs \cup Sources \cup PoolIds

-----------------------------------------------------------------------------

NoCall == [op |-> "none", key |-> None, src |-> None]

Key(u) == call[u].key

\* States somebody holds, and those a pool could get.
Owned == {use[u] : u \in Users} \ {None}

Pooled == UNION {idle[p] : p \in PoolIds}

Fresh == VMs \ (Owned \cup Pooled \cup shut)

\* r.mu is free (Close keeps it).
Unlocked == closing = None

Goto(u, l) == at' = [at EXCEPT ![u] = l]

\* The call returns, or panics: its results are the caller's business.
Leave(u) ==
    /\ Goto(u, "out")
    /\ call' = [call EXCEPT ![u] = NoCall]
    /\ pool' = [pool EXCEPT ![u] = None]
    /\ use' = [use EXCEPT ![u] = None]

-----------------------------------------------------------------------------
\* Register, Run, getPool

Register(u, k, s) ==
    /\ at[u] = "out" /\ Unlocked
    /\ sources' = [sources EXCEPT ![k] = s]
    /\ call' = [call EXCEPT ![u] = [op |-> "register", key |-> k, src |-> None]]
    /\ Goto(u, "lookup")
    /\ UNCHANGED <<cacheVars, kind, pools, idle, over, closing, shut, pool, use>>

Run(u, k) ==
    /\ at[u] = "out"
    /\ call' = [call EXCEPT ![u] = [op |-> "run", key |-> k, src |-> None]]
    /\ Goto(u, "lookup")
    /\ UNCHANGED <<cacheVars, runtimeVars, pool, use>>

\* getPool has the pool p: Register is done, Run goes on to take a State.
GotPool(u, p) ==
    IF call[u].op = "register" THEN Leave(u)
    ELSE /\ pool' = [pool EXCEPT ![u] = p]
         /\ Goto(u, "get")
         /\ UNCHANGED <<call, use>>

Lookup(u) ==
    /\ at[u] = "lookup" /\ Unlocked
    /\ CASE pools[Key(u)] # None -> GotPool(u, pools[Key(u)])
         [] pools[Key(u)] = None /\ sources[Key(u)] = None -> Leave(u)
         [] OTHER ->
              /\ call' = [call EXCEPT ![u].src = sources[Key(u)]]
              /\ Goto(u, "entry")
              /\ UNCHANGED <<pool, use>>
    /\ UNCHANGED <<cacheVars, runtimeVars>>

Entry(u) ==
    /\ at[u] = "entry"
    /\ FindEntry(Key(u))
    /\ Goto(u, "once")
    /\ UNCHANGED <<runtimeVars, call, pool, use>>

\* The entry's sync.Once, then its result: an error ends the call.
Compile(u) ==
    /\ at[u] = "once"
    /\ \/ BeginOnce(u, Key(u)) /\ UNCHANGED callVars
       \/ EndOnce(u, Key(u), call[u].src) /\ UNCHANGED callVars
       \/ /\ PassOnce(Key(u))
          /\ IF res[Key(u)] = Error THEN Leave(u)
             ELSE Goto(u, "insert") /\ UNCHANGED <<call, pool, use>>
    /\ UNCHANGED runtimeVars

\* newScriptPool: a fixed pool has its States built at once.
NewPool(u) ==
    LET p == <<Key(u), u>> IN
    /\ pools' = [pools EXCEPT ![Key(u)] = p]
    /\ \E S \in SUBSET Fresh :
         /\ Cardinality(S) = (IF kind = "fixed" THEN FixedN ELSE 0)
         /\ idle' = [idle EXCEPT ![p] = S]
    /\ GotPool(u, p)
    /\ UNCHANGED <<kind, sources, over, closing, shut>>

\* buildPreloadedState panics: so does the call, with mu unlocked by its defer.
NewPoolPanics(u) == Leave(u) /\ UNCHANGED runtimeVars

\* Mutant: no second look at pools.
InsertUnchecked(u) ==
    /\ at[u] = "insert" /\ Unlocked
    /\ IF kind = "fixed" /\ res[Key(u)] \in Raises THEN NewPoolPanics(u)
       ELSE NewPool(u)
    /\ UNCHANGED cacheVars

Insert(u) ==
    /\ at[u] = "insert" /\ Unlocked
    /\ CASE pools[Key(u)] # None -> GotPool(u, pools[Key(u)]) /\ UNCHANGED runtimeVars
         [] pools[Key(u)] = None /\ kind = "fixed" /\ res[Key(u)] \in Raises ->
              NewPoolPanics(u)
         [] OTHER -> NewPool(u)
    /\ UNCHANGED cacheVars

-----------------------------------------------------------------------------
\* scriptPool.run

Takes(u, v) ==
    /\ use' = [use EXCEPT ![u] = v]
    /\ Goto(u, "call")
    /\ UNCHANGED <<call, pool>>

\* A State of the pool.
GetIdle(u) ==
    /\ at[u] = "get"
    /\ \E v \in idle[pool[u]] :
         Takes(u, v) /\ idle' = [idle EXCEPT ![pool[u]] = @ \ {v}]
    /\ UNCHANGED <<cacheVars, kind, sources, pools, over, closing, shut>>

\* sync.Pool.New, which panics if the preload raises; a sync.Pool may call it
\* while other processors' States are idle.
GetNew(u) ==
    /\ at[u] = "get" /\ kind = "sync"
    /\ IF res[Key(u)] \in Raises THEN Leave(u) ELSE \E v \in Fresh : Takes(u, v)
    /\ UNCHANGED <<cacheVars, runtimeVars>>

\* A closed channel that is empty yields nil, and the call panics on it.
GetNil(u) ==
    /\ at[u] = "get" /\ kind = "fixed"
    /\ pool[u] \in over /\ idle[pool[u]] = {}
    /\ Leave(u)
    /\ UNCHANGED <<cacheVars, runtimeVars>>

\* The script returns or raises, and the deferred Put gives the State back: it
\* waits while the channel is full, and panics (the State is lost) if closed.
Put(u) ==
    /\ at[u] = "call"
    /\ LET p == pool[u] IN
         \/ /\ p \in over
            /\ UNCHANGED idle
         \/ /\ p \notin over
            /\ kind = "fixed" => Cardinality(idle[p]) < FixedN
            /\ idle' = [idle EXCEPT ![p] = @ \cup {use[u]}]
    /\ Leave(u)
    /\ UNCHANGED <<cacheVars, kind, sources, pools, over, closing, shut>>

\* The garbage collector drops States of a sync.Pool.
Collect ==
    /\ kind = "sync"
    /\ \E p \in PoolIds : \E v \in idle[p] : idle' = [idle EXCEPT ![p] = @ \ {v}]
    /\ UNCHANGED <<cacheVars, kind, sources, pools, over, closing, shut, callVars>>

-----------------------------------------------------------------------------
\* Close

FixedPools == IF kind = "fixed" THEN {pools[k] : k \in Keys} \ {None} ELSE {}

Close ==
    /\ Closing /\ Unlocked
    /\ closing' = {}
    /\ UNCHANGED <<cacheVars, kind, sources, pools, idle, over, shut, callVars>>

\* The pool closed last is drained before Close goes on.
Drained == \A p \in closing : idle[p] = {}

\* fixedStatePool.Close: the channel is closed, then drained; a call that has
\* the pool already may take States meanwhile.
CloseChannel(p) ==
    /\ ~Unlocked /\ Drained
    /\ p \in FixedPools \ over
    /\ over' = over \cup {p}
    /\ closing' = closing \cup {p}
    /\ UNCHANGED <<cacheVars, kind, sources, pools, idle, shut, callVars>>

\* Mutant: the States are closed without being received from the channel.
DrainInPlace(p) ==
    /\ ~Unlocked /\ p \in closing
    /\ \E v \in idle[p] \ shut : shut' = shut \cup {v} /\ UNCHANGED idle
    /\ UNCHANGED <<cacheVars, kind, sources, pools, over, closing, callVars>>

Drain(p) ==
    /\ ~Unlocked /\ p \in closing
    /\ \E v \in idle[p] : shut' = shut \cup {v} /\ idle' = [idle EXCEPT ![p] = @ \ {v}]
    /\ UNCHANGED <<cacheVars, kind, sources, pools, over, closing, callVars>>

CloseReturns ==
    /\ ~Unlocked /\ Drained
    /\ FixedPools \subseteq closing
    /\ closing' = None
    /\ UNCHANGED <<cacheVars, kind, sources, pools, idle, over, shut, callVars>>

\* A pool that an earlier Close has closed: closing its channel again panics, and
\* the pools Close has not come to stay as they are.
ClosePanics ==
    /\ ~Unlocked /\ Drained
    /\ (FixedPools \ closing) \cap over # {}
    /\ closing' = None
    /\ UNCHANGED <<cacheVars, kind, sources, pools, idle, over, shut, callVars>>

-----------------------------------------------------------------------------

ScriptsInit ==
    /\ CacheInit
    /\ kind \in {"sync", "fixed"}
    /\ sources = [k \in Keys |-> None]
    /\ pools = [k \in Keys |-> None]
    /\ idle = [p \in PoolIds |-> {}]
    /\ over = {} /\ closing = None /\ shut = {}
    /\ call = [u \in Users |-> NoCall]
    /\ at = [u \in Users |-> "out"]
    /\ pool = [u \in Users |-> None]
    /\ use = [u \in Users |-> None]

Get(u) == GetIdle(u) \/ GetNew(u) \/ GetNil(u)

CallStep(u) == Lookup(u) \/ Entry(u) \/ Compile(u) \/ Insert(u) \/ Get(u) \/ Put(u)

CloseStep == (\E p \in PoolIds : CloseChannel(p) \/ Drain(p)) \/ CloseReturns \/ ClosePanics

ScriptsNext ==
    \/ \E u \in Users, k \in Keys : Run(u, k) \/ \E s \in Sources : Register(u, k, s)
    \/ \E u \in Users : CallStep(u)
    \/ Collect \/ Close \/ CloseStep

\* Calls, and Close, go on when they can; those that wait for the mutex, which
\* one Close after the other may take, or at a channel are served in turn.
ScriptsSpec ==
    /\ ScriptsInit /\ [][ScriptsNext]_scriptVars
    /\ \A u \in Users : SF_scriptVars(CallStep(u))
    /\ WF_scriptVars(CloseStep)

-----------------------------------------------------------------------------
\* Properties

ScriptsTypeOK ==
    /\ CacheTypeOK
    /\ sources \in [Keys -> Sources \cup {None}]
    /\ pools \in [Keys -> PoolIds \cup {None}]
    /\ idle \in [PoolIds -> SUBSET VMs]
    /\ over \subseteq PoolIds /\ shut \subseteq VMs
    /\ closing # None => closing \subseteq over
    /\ use \in [Users -> VMs \cup {None}]
    /\ \A u \in Users :
         /\ use[u] # None <=> at[u] = "call"
         /\ pool[u] # None <=> at[u] \in {"get", "call"}

\* However many goroutines ask for a script for the first time at once, it is
\* compiled once, and what they go on with is its result (Concern 1).
CompilesOnce ==
    /\ \A k \in Keys : compiles[k] <= 1
    /\ \A u \in Users : at[u] \in {"insert", "get", "call"} =>
         res[Key(u)] \notin {Error, Pending}

\* A State is used by one call, and neither pooled nor closed meanwhile, be it
\* that Close drains its pool (statePool).
OneOwner ==
    /\ \A u, w \in Users : use[u] # None /\ use[u] = use[w] => u = w
    /\ Owned \cap (Pooled \cup shut) = {}
    /\ Pooled \cap shut = {}

\* A fixed pool has its N States for good: a script never has more, whoever
\* raced to make its pool (getPool's double check), so that memory is
\* predictable and Put never waits (Concern 2).
FixedIsFixed ==
    kind = "fixed" =>
        \A k \in Keys :
            LET ofKey == (UNION {idle[p] : p \in {k} \X Users})
                         \cup {use[u] : u \in {w \in Users : at[w] = "call" /\ Key(w) = k}}
            IN /\ Cardinality(ofKey) <= FixedN
               /\ pools[k] # None /\ pools[k] \notin over => Cardinality(ofKey) = FixedN

\* Every Register and Run comes to its end, even when Close runs meanwhile.
CallsEnd == \A u \in Users : at[u] # "out" ~> at[u] = "out"

=============================================================================
