------------------------- MODULE MultiScriptProofs --------------------------
(***************************************************************************)
(* Proofs about MultiScript: a script is compiled once, a State is in one  *)
(* place, and a fixed pool keeps its N States, for any number of           *)
(* goroutines, scripts and States.                                         *)
(***************************************************************************)
EXTENDS MultiScript, FiniteSetTheorems, TLAPS

Calls == [op : {"none", "register", "run"}, key : Keys \cup {None}, src : Sources \cup {None}]

Places == {"out", "lookup", "entry", "once", "insert", "get", "call"}

\* What a call knows at each place: its key, the source it read, its pool,
\* which is for good the pool of its key.
CallsInv ==
    /\ kind \in {"sync", "fixed"}
    /\ call \in [Users -> Calls] /\ at \in [Users -> Places]
    /\ pool \in [Users -> PoolIds \cup {None}]
    /\ \A u \in Users :
         /\ at[u] # "out" => Key(u) \in Keys
         /\ at[u] \in {"entry", "once"} => call[u].src \in Sources
         /\ pool[u] # None => pool[u] = pools[Key(u)]

\* Compiled(k): the once of key k is done, without an error.
Compiled(k) == once[k] = "done" /\ res[k] \notin {Error, Pending}

\* The once of a key is run by one call, which is at it, and counts.
OnceInv ==
    /\ \A k \in Keys :
         /\ compiles[k] = IF once[k] \in {"absent", "fresh"} THEN 0 ELSE 1
         /\ once[k] = "done" => res[k] # Pending
         /\ pools[k] # None => Compiled(k)
    /\ \A u \in Users :
         /\ at[u] \in {"insert", "get", "call"} => Compiled(Key(u))
         /\ \A k \in Keys : once[k] = u => at[u] = "once" /\ Key(u) = k

\* The pool of a key is the only one of them that has States or is closed.
PoolsInv ==
    /\ \A k \in Keys : pools[k] \in ({k} \X Users) \cup {None}
    /\ \A p \in PoolIds : idle[p] # {} \/ p \in over => pools[p[1]] = p

\* No State is in two pools.
Apart == \A p, q \in PoolIds : idle[p] \cap idle[q] # {} => p = q

\* The States of the key k.
InUse(k) == {use[u] : u \in {w \in Users : at[w] = "call" /\ Key(w) = k}}

OfKey(k) == (UNION {idle[p] : p \in {k} \X Users}) \cup InUse(k)

ScriptsInv ==
    /\ ScriptsTypeOK /\ CallsInv /\ PoolsInv /\ OnceInv
    /\ OneOwner /\ Apart /\ FixedIsFixed


-----------------------------------------------------------------------------
\* Types, and what a call knows

\* All that ScriptsInv says of the calls alone.
UsersInv ==
    /\ CallsInv
    /\ use \in [Users -> VMs \cup {None}]
    /\ \A u \in Users :
         /\ use[u] # None <=> at[u] = "call"
         /\ pool[u] # None <=> at[u] \in {"get", "call"}

\* The pool of a key, once made, stays.
PoolsGrow == kind' = kind /\ \A k \in Keys : pools[k] # None => pools'[k] = pools[k]

LEMMA UsersUnchanged ==
    ASSUME UsersInv, PoolsGrow, UNCHANGED callVars
    PROVE  UsersInv'
BY DEF UsersInv, CallsInv, PoolsGrow, callVars, Key

LEMMA UserLeaves ==
    ASSUME UsersInv, PoolsGrow, NEW u \in Users, Leave(u)
    PROVE  UsersInv'
<1> USE DEF UsersInv, CallsInv
<1>1. /\ call' = [call EXCEPT ![u] = NoCall] /\ at' = [at EXCEPT ![u] = "out"]
      /\ pool' = [pool EXCEPT ![u] = None] /\ use' = [use EXCEPT ![u] = None]
  BY DEF Leave, Goto
<1>2. NoCall \in Calls
  BY DEF NoCall, Calls
<1>3. call' \in [Users -> Calls]
  BY <1>1, <1>2
<1>4. at' \in [Users -> Places] /\ pool' \in [Users -> PoolIds \cup {None}]
      /\ use' \in [Users -> VMs \cup {None}]
  BY <1>1 DEF Places
<1>5. \A w \in Users : w # u =>
        call'[w] = call[w] /\ at'[w] = at[w] /\ pool'[w] = pool[w] /\ use'[w] = use[w]
  BY <1>1
<1>6. at'[u] = "out" /\ pool'[u] = None /\ use'[u] = None
  BY <1>1
<1> QED BY <1>3, <1>4, <1>5, <1>6 DEF PoolsGrow, Key

\* A call goes on, without a pool or a State, from a place before it gets one.
LEMMA UserGoesOn ==
    ASSUME UsersInv, PoolsGrow, NEW u \in Users,
           NEW c \in Calls, NEW l \in {"lookup", "entry", "once", "insert"},
           at[u] \notin {"get", "call"}, c.key \in Keys,
           l \in {"entry", "once"} => c.src \in Sources,
           call' = [call EXCEPT ![u] = c], Goto(u, l), UNCHANGED <<pool, use>>
    PROVE  UsersInv'
<1> USE DEF UsersInv, CallsInv
<1>1. call' \in [Users -> Calls] /\ at' \in [Users -> Places]
  BY DEF Goto, Places
<1>2. \A w \in Users : w # u => call'[w] = call[w] /\ at'[w] = at[w]
  BY DEF Goto
<1>3. at'[u] = l /\ call'[u] = c /\ l \notin {"out", "get", "call"}
  BY DEF Goto
<1> QED BY <1>1, <1>2, <1>3 DEF PoolsGrow, Key

LEMMA UserGetsPool ==
    ASSUME UsersInv, PoolsGrow, NEW u \in Users, at[u] \in {"lookup", "insert"},
           pools'[Key(u)] \in PoolIds, GotPool(u, pools'[Key(u)])
    PROVE  UsersInv'
<1> USE DEF UsersInv, CallsInv
<1>1. CASE Leave(u)
  BY <1>1, UserLeaves
<1>2. CASE ~Leave(u)
  <2>1. /\ pool' = [pool EXCEPT ![u] = pools'[Key(u)]]
        /\ Goto(u, "get") /\ UNCHANGED <<call, use>>
    BY <1>2 DEF GotPool
  <2>2. at' \in [Users -> Places] /\ pool' \in [Users -> PoolIds \cup {None}]
    BY <2>1 DEF Goto, Places
  <2>3. \A w \in Users : w # u => pool'[w] = pool[w] /\ at'[w] = at[w]
    BY <2>1 DEF Goto
  <2>4. at'[u] = "get" /\ pool'[u] = pools'[Key(u)] /\ pool'[u] # None
    BY <2>1, ScriptsAssumption DEF Goto
  <2> QED BY <2>1, <2>2, <2>3, <2>4 DEF PoolsGrow, Key
<1> QED BY <1>1, <1>2

LEMMA UserTakes ==
    ASSUME UsersInv, PoolsGrow, NEW u \in Users, at[u] = "get", NEW v \in VMs, Takes(u, v)
    PROVE  UsersInv'
<1> USE DEF UsersInv, CallsInv
<1>1. at' \in [Users -> Places] /\ use' \in [Users -> VMs \cup {None}]
  BY DEF Takes, Goto, Places
<1>2. \A w \in Users : w # u => use'[w] = use[w] /\ at'[w] = at[w]
  BY DEF Takes, Goto
<1>3. at'[u] = "call" /\ use'[u] # None
  BY ScriptsAssumption DEF Takes, Goto
<1> QED BY <1>1, <1>2, <1>3 DEF PoolsGrow, Key, Takes

\* What ScriptsInv says of the other variables' types.
RuntimeTyped ==
    /\ CacheTypeOK
    /\ sources \in [Keys -> Sources \cup {None}]
    /\ pools \in [Keys -> PoolIds \cup {None}]
    /\ idle \in [PoolIds -> SUBSET VMs]
    /\ over \subseteq PoolIds /\ shut \subseteq VMs
    /\ closing # None => closing \subseteq over

LEMMA TypeParts == ScriptsTypeOK /\ CallsInv <=> RuntimeTyped /\ UsersInv
BY DEF ScriptsTypeOK, RuntimeTyped, UsersInv

LEMMA PoolsGrowStep ==
    ASSUME ScriptsInv, ScriptsNext
    PROVE  PoolsGrow
<1> USE DEF runtimeVars, PoolsGrow, ScriptsInv, ScriptsTypeOK
<1>1. ASSUME NEW u \in Users, NEW k \in Keys, Run(u, k) \/ \E s \in Sources : Register(u, k, s)
      PROVE  PoolsGrow
  BY <1>1 DEF Run, Register
<1>2. ASSUME NEW u \in Users, Lookup(u)
      PROVE  PoolsGrow
  BY <1>2 DEF Lookup
<1>3. ASSUME NEW u \in Users, Entry(u)
      PROVE  PoolsGrow
  BY <1>3 DEF Entry, FindEntry
<1>4. ASSUME NEW u \in Users, Compile(u)
      PROVE  PoolsGrow
  BY <1>4 DEF Compile, BeginOnce, EndOnce, PassOnce
<1>5. ASSUME NEW u \in Users, Insert(u)
      PROVE  PoolsGrow
  BY <1>5 DEF Insert, NewPool, NewPoolPanics
<1>6. ASSUME NEW u \in Users, Get(u) \/ Put(u)
      PROVE  PoolsGrow
  BY <1>6 DEF Get, GetIdle, GetNew, GetNil, Put
<1>7. ASSUME Collect
      PROVE  PoolsGrow
  BY <1>7 DEF Collect
<1>8. ASSUME Close \/ CloseStep
      PROVE  PoolsGrow
  BY <1>8 DEF Close, CloseReturns, ClosePanics, CloseStep, CloseChannel, Drain
<1> QED
  BY <1>1, <1>2, <1>3, <1>4, <1>5, <1>6, <1>7, <1>8
  DEF ScriptsNext, CallStep

LEMMA RuntimeTypedStep ==
    ASSUME ScriptsInv, ScriptsNext
    PROVE  RuntimeTyped'
<1> USE ScriptsAssumption
    DEF cacheVars, runtimeVars, callVars, ScriptsInv, ScriptsTypeOK, RuntimeTyped, CallsInv, CacheTypeOK
<1>1. ASSUME NEW u \in Users, NEW k \in Keys, Run(u, k) \/ \E s \in Sources : Register(u, k, s)
      PROVE  RuntimeTyped'
  BY <1>1 DEF Run, Register
<1>2. ASSUME NEW u \in Users, Lookup(u)
      PROVE  RuntimeTyped'
  BY <1>2 DEF Lookup
<1>3. ASSUME NEW u \in Users, Entry(u)
      PROVE  RuntimeTyped'
  BY <1>3 DEF Entry, FindEntry
<1>4. ASSUME NEW u \in Users, Compile(u)
      PROVE  RuntimeTyped'
  BY <1>4 DEF Compile, BeginOnce, EndOnce, PassOnce
<1>5. ASSUME NEW u \in Users, Insert(u)
      PROVE  RuntimeTyped'
  <2>1. CASE UNCHANGED <<cacheVars, runtimeVars>>
    BY <2>1
  <2>2. CASE ~UNCHANGED <<cacheVars, runtimeVars>>
    <3>1. NewPool(u) /\ UNCHANGED cacheVars /\ Key(u) \in Keys
      BY <1>5, <2>2 DEF Insert, NewPoolPanics
    <3>2. PICK S \in SUBSET Fresh : idle' = [idle EXCEPT ![<<Key(u), u>>] = S]
      BY <3>1 DEF NewPool
    <3>3. <<Key(u), u>> \in PoolIds /\ S \subseteq VMs
      BY <3>1 DEF PoolIds, Fresh
    <3>4. idle' \in [PoolIds -> SUBSET VMs]
      BY <3>2, <3>3
    <3>5. pools' \in [Keys -> PoolIds \cup {None}]
      BY <3>1, <3>3 DEF NewPool
    <3> QED BY <3>1, <3>4, <3>5 DEF NewPool
  <2> QED BY <2>1, <2>2
<1>6. ASSUME NEW u \in Users, Get(u) \/ Put(u)
      PROVE  RuntimeTyped'
  BY <1>6 DEF Get, GetIdle, GetNew, GetNil, Put
<1>7. ASSUME Collect
      PROVE  RuntimeTyped'
  BY <1>7 DEF Collect
<1>8. ASSUME Close \/ CloseStep
      PROVE  RuntimeTyped'
  <2>1. CASE Close \/ CloseReturns \/ ClosePanics
    BY <2>1 DEF Close, CloseReturns, ClosePanics
  <2>2. ASSUME NEW p \in PoolIds, CloseChannel(p) PROVE RuntimeTyped'
    BY <2>2 DEF CloseChannel, Unlocked
  <2>3. ASSUME NEW p \in PoolIds, Drain(p) PROVE RuntimeTyped'
    BY <2>3 DEF Drain
  <2> QED BY <1>8, <2>1, <2>2, <2>3 DEF CloseStep
<1> QED
  BY <1>1, <1>2, <1>3, <1>4, <1>5, <1>6, <1>7, <1>8
  DEF ScriptsNext, CallStep

LEMMA UsersStep ==
    ASSUME ScriptsInv, ScriptsNext
    PROVE  UsersInv'
<1>1. UsersInv /\ PoolsGrow /\ RuntimeTyped' /\ RuntimeTyped
  BY TypeParts, PoolsGrowStep, RuntimeTypedStep DEF ScriptsInv
<1>2. CallsInv
  BY DEF ScriptsInv
<1>3. ASSUME NEW u \in Users, NEW k \in Keys, Run(u, k) \/ \E s \in Sources : Register(u, k, s)
      PROVE  UsersInv'
  <2>1. PICK o \in {"run", "register"} :
            /\ call' = [call EXCEPT ![u] = [op |-> o, key |-> k, src |-> None]]
            /\ Goto(u, "lookup") /\ UNCHANGED <<pool, use>> /\ at[u] = "out"
    BY <1>3 DEF Run, Register
  <2>2. [op |-> o, key |-> k, src |-> None] \in Calls
    BY DEF Calls
  <2> QED BY <1>1, <2>1, <2>2, UserGoesOn
<1>4. ASSUME NEW u \in Users, Lookup(u)
      PROVE  UsersInv'
  <2>1. /\ at[u] = "lookup" /\ Key(u) \in Keys /\ call[u] \in Calls
        /\ UNCHANGED pools
    BY <1>2, <1>4 DEF Lookup, CallsInv, runtimeVars
  <2>2. CASE pools[Key(u)] # None
    <3>1. GotPool(u, pools'[Key(u)]) /\ pools'[Key(u)] \in PoolIds
      BY <1>1, <1>4, <2>1, <2>2 DEF Lookup, RuntimeTyped
    <3> QED BY <1>1, <2>1, <3>1, UserGetsPool
  <2>3. CASE pools[Key(u)] = None /\ sources[Key(u)] = None
    BY <1>1, <1>4, <2>3, UserLeaves DEF Lookup
  <2>4. CASE pools[Key(u)] = None /\ sources[Key(u)] # None
    <3> DEFINE c == [call[u] EXCEPT !.src = sources[Key(u)]]
    <3>1. call' = [call EXCEPT ![u] = c] /\ Goto(u, "entry") /\ UNCHANGED <<pool, use>>
      BY <1>4, <2>4 DEF Lookup
    <3>2. sources[Key(u)] \in Sources
      BY <1>1, <2>1, <2>4 DEF RuntimeTyped
    <3>3. c \in Calls /\ c.key = Key(u) /\ c.src \in Sources
      BY <2>1, <3>2 DEF Calls, Key
    <3> HIDE DEF c
    <3> QED BY <1>1, <2>1, <3>1, <3>3, UserGoesOn
  <2> QED BY <2>2, <2>3, <2>4
<1>5. ASSUME NEW u \in Users, Entry(u)
      PROVE  UsersInv'
  <2>1. /\ at[u] = "entry" /\ Key(u) \in Keys /\ call[u] \in Calls /\ call[u].src \in Sources
        /\ Goto(u, "once") /\ UNCHANGED <<call, pool, use>>
    BY <1>2, <1>5 DEF Entry, CallsInv
  <2>2. call' = [call EXCEPT ![u] = call[u]]
    BY <1>2, <2>1 DEF CallsInv
  <2> QED BY <1>1, <2>1, <2>2, UserGoesOn DEF Key
<1>6. ASSUME NEW u \in Users, Compile(u)
      PROVE  UsersInv'
  <2>1. CASE UNCHANGED callVars
    BY <1>1, <2>1, UsersUnchanged
  <2>2. CASE Leave(u)
    BY <1>1, <2>2, UserLeaves
  <2>3. CASE Goto(u, "insert") /\ UNCHANGED <<call, pool, use>>
    <3>1. at[u] = "once" /\ Key(u) \in Keys /\ call[u] \in Calls
      BY <1>2, <1>6 DEF Compile, CallsInv
    <3>2. call' = [call EXCEPT ![u] = call[u]]
      BY <1>2, <2>3 DEF CallsInv
    <3> QED BY <1>1, <2>3, <3>1, <3>2, UserGoesOn DEF Key
  <2> QED BY <1>6, <2>1, <2>2, <2>3 DEF Compile
<1>7. ASSUME NEW u \in Users, Insert(u)
      PROVE  UsersInv'
  <2>1. at[u] = "insert" /\ Key(u) \in Keys
    BY <1>2, <1>7 DEF Insert, CallsInv
  <2>2. CASE pools[Key(u)] # None
    <3>1. GotPool(u, pools'[Key(u)]) /\ pools'[Key(u)] \in PoolIds
      BY <1>1, <1>7, <2>1, <2>2 DEF Insert, RuntimeTyped, runtimeVars
    <3> QED BY <1>1, <2>1, <3>1, UserGetsPool
  <2>3. CASE pools[Key(u)] = None /\ Leave(u)
    BY <1>1, <2>3, UserLeaves
  <2>4. CASE pools[Key(u)] = None /\ NewPool(u)
    <3>1. pools'[Key(u)] = <<Key(u), u>>
      BY <1>1, <2>1, <2>4 DEF NewPool, RuntimeTyped
    <3>2. <<Key(u), u>> \in PoolIds
      BY <2>1 DEF PoolIds
    <3>3. GotPool(u, pools'[Key(u)])
      BY <2>4, <3>1 DEF NewPool
    <3> QED BY <1>1, <2>1, <3>1, <3>2, <3>3, UserGetsPool
  <2> QED BY <1>7, <2>2, <2>3, <2>4 DEF Insert, NewPoolPanics
<1>8. ASSUME NEW u \in Users, Get(u) \/ Put(u)
      PROVE  UsersInv'
  <2>1. CASE Leave(u)
    BY <1>1, <2>1, UserLeaves
  <2>2. CASE ~Leave(u)
    <3>1. at[u] = "get" /\ pool[u] \in PoolIds
      BY <1>1, <1>8, <2>2 DEF Get, GetIdle, GetNew, GetNil, Put, UsersInv, CallsInv
    <3>2. PICK v \in VMs : Takes(u, v)
      BY <1>1, <1>8, <2>2, <3>1 DEF Get, GetIdle, GetNew, GetNil, Put, Fresh, RuntimeTyped
    <3> QED BY <1>1, <3>1, <3>2, UserTakes
  <2> QED BY <2>1, <2>2
<1>9. ASSUME Collect \/ Close \/ CloseStep
      PROVE  UsersInv'
  <2>1. UNCHANGED callVars
    BY <1>9 DEF Collect, Close, CloseStep, CloseChannel, Drain, CloseReturns, ClosePanics
  <2> QED BY <1>1, <2>1, UsersUnchanged
<1> QED
  BY <1>3, <1>4, <1>5, <1>6, <1>7, <1>8, <1>9 DEF ScriptsNext, CallStep

-----------------------------------------------------------------------------
\* The once of each key

LEMMA OnceKept ==
    ASSUME OnceInv, UNCHANGED cacheVars,
           \A k \in Keys : pools'[k] # None => Compiled(k),
           \A w \in Users :
              \/ at'[w] = at[w] /\ call'[w].key = call[w].key
              \/ /\ \A k \in Keys : once[k] # w
                 /\ at'[w] \in {"insert", "get", "call"} => Compiled(call'[w].key)
    PROVE  OnceInv'
BY DEF OnceInv, Compiled, Key, cacheVars

\* A call that is not at the once, or passes it, does not run it.
LEMMA NotRunning ==
    ASSUME OnceInv, NEW u \in Users, at[u] # "once" \/ once[Key(u)] = "done"
    PROVE  \A k \in Keys : once[k] # u
BY CacheAssumption DEF OnceInv

\* What a step that leaves the cache alone may do to its call.
LEMMA OnceMoves ==
    ASSUME ScriptsInv, UNCHANGED cacheVars, NEW u \in Users,
           \A k \in Keys : pools'[k] # None => Compiled(k),
           at[u] # "once" \/ once[Key(u)] = "done",
           \/ Leave(u)
           \/ /\ \A w \in Users : w # u => at'[w] = at[w] /\ call'[w] = call[w]
              /\ at'[u] \in {"insert", "get", "call"} => Compiled(call'[u].key)
    PROVE  OnceInv'
<1>1. OnceInv /\ at \in [Users -> Places]
  BY DEF ScriptsInv, CallsInv
<1>2. \A w \in Users : w # u => at'[w] = at[w] /\ call'[w] = call[w]
  BY DEF Leave, Goto, ScriptsInv, CallsInv
<1>3. at'[u] \in {"insert", "get", "call"} => Compiled(call'[u].key)
  BY <1>1 DEF Leave, Goto
<1>4. \A k \in Keys : once[k] # u
  BY <1>1, NotRunning
<1> QED BY <1>1, <1>2, <1>3, <1>4, OnceKept

LEMMA OnceStep ==
    ASSUME ScriptsInv, ScriptsNext
    PROVE  OnceInv'
<1>1. OnceInv /\ CallsInv /\ RuntimeTyped
  BY TypeParts DEF ScriptsInv
<1>2. \A k \in Keys : pools[k] # None => Compiled(k)
  BY <1>1 DEF OnceInv
<1>3. at \in [Users -> Places] /\ call \in [Users -> Calls]
  BY <1>1 DEF CallsInv
<1>4. ASSUME NEW u \in Users, NEW k \in Keys, Run(u, k) \/ \E s \in Sources : Register(u, k, s)
      PROVE  OnceInv'
  <2>1. /\ UNCHANGED <<cacheVars, pools>> /\ at[u] = "out" /\ Goto(u, "lookup")
        /\ \A w \in Users : w # u => call'[w] = call[w]
    BY <1>3, <1>4 DEF Run, Register, runtimeVars
  <2> QED BY <1>2, <1>3, <2>1, OnceMoves DEF Goto
<1>5. ASSUME NEW u \in Users, Lookup(u)
      PROVE  OnceInv'
  <2>1. UNCHANGED <<cacheVars, pools>> /\ at[u] = "lookup" /\ Key(u) \in Keys
    BY <1>1, <1>5 DEF Lookup, runtimeVars, CallsInv
  <2>2. CASE Leave(u)
    BY <1>2, <2>1, <2>2, OnceMoves
  <2>3. CASE pools[Key(u)] # None /\ ~Leave(u)
    <3>1. Goto(u, "get") /\ UNCHANGED call
      BY <1>5, <2>3 DEF Lookup, GotPool
    <3>2. Compiled(call'[u].key)
      BY <1>2, <2>1, <2>3, <3>1 DEF Key
    <3> QED BY <1>2, <1>3, <2>1, <3>1, <3>2, OnceMoves DEF Goto
  <2>4. CASE pools[Key(u)] = None /\ ~Leave(u)
    <3>1. /\ Goto(u, "entry")
          /\ call' = [call EXCEPT ![u].src = sources[Key(u)]]
      BY <1>5, <2>4 DEF Lookup
    <3> QED BY <1>2, <1>3, <2>1, <3>1, OnceMoves DEF Goto
  <2> QED BY <2>2, <2>3, <2>4
<1>6. ASSUME NEW u \in Users, Entry(u)
      PROVE  OnceInv'
  <2>1. /\ at[u] = "entry" /\ Key(u) \in Keys /\ FindEntry(Key(u)) /\ Goto(u, "once")
        /\ UNCHANGED <<pools, call>>
    BY <1>1, <1>6 DEF Entry, runtimeVars, CallsInv
  <2>2. \A k \in Keys : once'[k] = once[k] \/ (once[k] = "absent" /\ once'[k] = "fresh")
    BY <1>1, <2>1 DEF FindEntry, RuntimeTyped, CacheTypeOK
  <2>3. \A k \in Keys : once[k] # u
    BY <1>1, <2>1, NotRunning
  <2>4. /\ \A w \in Users : w # u => at'[w] = at[w]
        /\ at'[u] = "once"
    BY <1>3, <2>1 DEF Goto
  <2>5. UNCHANGED <<res, compiles>>
    BY <2>1 DEF FindEntry
  <2>6. \A k \in Keys : Compiled(k)' <=> Compiled(k)
    BY <2>2, <2>5 DEF Compiled
  <2>7. "fresh" \notin Users
    BY CacheAssumption
  <2>8. \A w \in Users : Key(w)' = Key(w)
    BY <2>1 DEF Key
  <2>9. \A w \in Users : at'[w] \in {"insert", "get", "call"} => Compiled(Key(w))'
    <3> SUFFICES ASSUME NEW w \in Users, at'[w] \in {"insert", "get", "call"}
                 PROVE  Compiled(Key(w))'
      OBVIOUS
    <3>1. at[w] \in {"insert", "get", "call"}
      BY <2>4
    <3>2. Compiled(Key(w)) /\ Key(w) \in Keys
      BY <1>1, <3>1 DEF OnceInv, CallsInv
    <3> QED BY <2>6, <2>8, <3>2
  <2>10. \A k \in Keys :
           /\ compiles'[k] = IF once'[k] \in {"absent", "fresh"} THEN 0 ELSE 1
           /\ once'[k] = "done" => res'[k] # Pending
           /\ pools'[k] # None => Compiled(k)'
    BY <1>1, <2>1, <2>2, <2>5, <2>6 DEF OnceInv
  <2>11. \A w \in Users, k \in Keys : once'[k] = w => at'[w] = "once" /\ Key(w)' = k
    BY <1>1, <2>2, <2>3, <2>4, <2>7, <2>8 DEF OnceInv
  <2> QED BY <2>9, <2>10, <2>11 DEF OnceInv
<1>7. ASSUME NEW u \in Users, Compile(u)
      PROVE  OnceInv'
  <2> DEFINE k == Key(u)
  <2>1. at[u] = "once" /\ k \in Keys /\ UNCHANGED pools /\ call[u].src \in Sources
    BY <1>1, <1>7 DEF Compile, runtimeVars, CallsInv
  <2>2. CASE BeginOnce(u, k) /\ UNCHANGED callVars
    <3>1. /\ once[k] = "fresh" /\ UNCHANGED res
          /\ once' = [once EXCEPT ![k] = u] /\ compiles' = [compiles EXCEPT ![k] = @ + 1]
      BY <2>2 DEF BeginOnce
    <3>2. /\ once'[k] = u /\ compiles'[k] = 1
          /\ \A j \in Keys : j # k => once'[j] = once[j] /\ compiles'[j] = compiles[j]
      BY <1>1, <2>1, <3>1 DEF RuntimeTyped, CacheTypeOK, OnceInv
    <3>3. u \notin {"absent", "fresh", "done"}
      BY CacheAssumption
    <3> HIDE DEF k
    <3>4. \A w \in Users : Key(w)' = Key(w) /\ at'[w] = at[w]
      BY <2>2 DEF callVars, Key
    <3>5. \A w \in Users : at[w] \in {"insert", "get", "call"} => Key(w) # k
      BY <1>1, <3>1 DEF OnceInv, Compiled
    <3>6. pools[k] = None
      BY <1>1, <2>1, <3>1 DEF OnceInv, Compiled
    <3>7. Key(u) = k
      BY DEF k
    <3> QED
      BY <1>1, <2>1, <3>1, <3>2, <3>3, <3>4, <3>5, <3>6, <3>7 DEF OnceInv, Compiled
  <2>3. CASE EndOnce(u, k, call[u].src) /\ UNCHANGED callVars
    <3>1. /\ once[k] = u /\ UNCHANGED compiles
          /\ once' = [once EXCEPT ![k] = "done"]
          /\ res' = [res EXCEPT ![k] = IF call[u].src \in Bad THEN Error ELSE call[u].src]
      BY <2>3 DEF EndOnce
    <3>2. u \notin {"absent", "fresh", "done"}
      BY CacheAssumption
    <3>3. /\ once'[k] = "done" /\ res'[k] # Pending
          /\ \A j \in Keys : j # k => once'[j] = once[j] /\ res'[j] = res[j]
      BY <1>1, <2>1, <3>1, CacheAssumption DEF RuntimeTyped, CacheTypeOK, Error, Pending
    <3> HIDE DEF k
    <3>4. \A w \in Users : Key(w)' = Key(w) /\ at'[w] = at[w]
      BY <2>3 DEF callVars, Key
    <3>5. \A w \in Users : at[w] \in {"insert", "get", "call"} => Key(w) # k
      BY <1>1, <3>1, <3>2 DEF OnceInv, Compiled
    <3>6. pools[k] = None /\ compiles[k] = 1
      BY <1>1, <2>1, <3>1, <3>2 DEF OnceInv, Compiled
    <3> QED
      BY <1>1, <2>1, <3>1, <3>2, <3>3, <3>4, <3>5, <3>6, CacheAssumption DEF OnceInv, Compiled
  <2>4. CASE PassOnce(k) /\ (Leave(u) \/ (res[k] # Error /\ Goto(u, "insert") /\ UNCHANGED call))
    <3>1. once[k] = "done" /\ UNCHANGED cacheVars
      BY <2>4 DEF PassOnce
    <3>2. res[k] # Pending
      BY <1>1, <2>1, <3>1 DEF OnceInv
    <3>3. Leave(u) \/ (Compiled(call'[u].key) /\ Goto(u, "insert") /\ UNCHANGED call)
      BY <2>4, <3>1, <3>2 DEF Compiled, Key
    <3> QED BY <1>2, <1>3, <2>1, <3>1, <3>3, OnceMoves DEF Goto
  <2> QED BY <1>7, <2>2, <2>3, <2>4 DEF Compile
<1>8. ASSUME NEW u \in Users, Insert(u)
      PROVE  OnceInv'
  <2>1. UNCHANGED cacheVars /\ at[u] = "insert" /\ Key(u) \in Keys /\ Compiled(Key(u))
    BY <1>1, <1>8 DEF Insert, CallsInv, OnceInv
  <2>2. \A k \in Keys : pools'[k] # None => Compiled(k)
    <3>1. UNCHANGED pools \/ pools' = [pools EXCEPT ![Key(u)] = <<Key(u), u>>]
      BY <1>8 DEF Insert, NewPool, NewPoolPanics, runtimeVars
    <3> QED BY <1>1, <1>2, <2>1, <3>1 DEF RuntimeTyped
  <2>3. Leave(u) \/ (Goto(u, "get") /\ UNCHANGED call)
    BY <1>8 DEF Insert, NewPool, NewPoolPanics, GotPool
  <2>4. \/ Leave(u)
        \/ /\ \A w \in Users : w # u => at'[w] = at[w] /\ call'[w] = call[w]
           /\ at'[u] \in {"insert", "get", "call"} => Compiled(call'[u].key)
    BY <1>3, <2>1, <2>3 DEF Goto, Key
  <2> QED BY <2>1, <2>2, <2>4, OnceMoves
<1>9. ASSUME NEW u \in Users, Get(u) \/ Put(u)
      PROVE  OnceInv'
  <2>1. UNCHANGED <<cacheVars, pools>> /\ at[u] \in {"get", "call"} /\ Compiled(Key(u))
    BY <1>1, <1>9 DEF Get, GetIdle, GetNew, GetNil, Put, OnceInv, runtimeVars
  <2>2. Leave(u) \/ (Goto(u, "call") /\ UNCHANGED call)
    BY <1>9 DEF Get, GetIdle, GetNew, GetNil, Put, Takes
  <2>3. \/ Leave(u)
        \/ /\ \A w \in Users : w # u => at'[w] = at[w] /\ call'[w] = call[w]
           /\ at'[u] \in {"insert", "get", "call"} => Compiled(call'[u].key)
    BY <1>3, <2>1, <2>2 DEF Goto, Key
  <2> QED BY <1>2, <2>1, <2>3, OnceMoves
<1>10. ASSUME Collect \/ Close \/ CloseStep
      PROVE  OnceInv'
  <2>1. UNCHANGED <<cacheVars, pools, callVars>>
    BY <1>10 DEF Collect, Close, CloseStep, CloseChannel, Drain, CloseReturns, ClosePanics
  <2> QED BY <1>1, <1>2, <2>1, OnceKept DEF callVars
<1> QED
  BY <1>4, <1>5, <1>6, <1>7, <1>8, <1>9, <1>10 DEF ScriptsNext, CallStep

-----------------------------------------------------------------------------
\* One pool for each key

LEMMA PoolsStep ==
    ASSUME ScriptsInv, ScriptsNext
    PROVE  PoolsInv'
<1>1. PoolsInv /\ CallsInv /\ RuntimeTyped
  BY TypeParts DEF ScriptsInv
<1>2. \A k \in Keys : pools[k] # None => pools[k] \in PoolIds /\ pools[k][1] = k
  BY <1>1 DEF PoolsInv, PoolIds
\* What the steps after the pool is made need.
<1>3. ASSUME UNCHANGED pools,
             \A p \in PoolIds : idle'[p] # {} \/ p \in over'
                               => idle[p] # {} \/ p \in over \/ \E k \in Keys : p = pools[k]
      PROVE  PoolsInv'
  <2> SUFFICES ASSUME NEW p \in PoolIds, idle'[p] # {} \/ p \in over'
               PROVE  pools[p[1]] = p
    BY <1>1, <1>3 DEF PoolsInv
  <2>1. CASE \E k \in Keys : p = pools[k]
    BY <1>2, <2>1, ScriptsAssumption
  <2> QED BY <1>1, <1>3, <2>1 DEF PoolsInv
<1>4. CASE UNCHANGED <<pools, idle, over>>
  BY <1>3, <1>4
<1>5. ASSUME NEW u \in Users, NEW k \in Keys, Run(u, k) \/ \E s \in Sources : Register(u, k, s)
      PROVE  PoolsInv'
  BY <1>4, <1>5 DEF Run, Register, runtimeVars
<1>6. ASSUME NEW u \in Users, Lookup(u) \/ Entry(u) \/ Compile(u)
      PROVE  PoolsInv'
  BY <1>4, <1>6 DEF Lookup, Entry, Compile, runtimeVars
<1>7. ASSUME NEW u \in Users, Insert(u)
      PROVE  PoolsInv'
  <2>1. CASE UNCHANGED runtimeVars
    BY <1>4, <2>1 DEF runtimeVars
  <2>2. CASE ~UNCHANGED runtimeVars
    <3> DEFINE k == Key(u)
               p == <<k, u>>
    <3>1. NewPool(u) /\ k \in Keys /\ pools[k] = None
      BY <1>1, <1>7, <2>2 DEF Insert, NewPoolPanics, CallsInv
    <3>2. PICK S : idle' = [idle EXCEPT ![p] = S]
      BY <3>1 DEF NewPool
    <3>3. pools' = [pools EXCEPT ![k] = p] /\ over' = over /\ p \in PoolIds
      BY <3>1 DEF NewPool, PoolIds
    <3>4. /\ pools'[k] = p /\ \A j \in Keys : j # k => pools'[j] = pools[j]
          /\ \A q \in PoolIds : q # p => idle'[q] = idle[q]
      BY <1>1, <3>1, <3>2, <3>3 DEF RuntimeTyped
    <3>5. \A q \in PoolIds : q[1] \in Keys
      BY DEF PoolIds
    <3>6. \A q \in PoolIds : idle[q] # {} \/ q \in over => q[1] # k
      BY <1>1, <3>1, ScriptsAssumption DEF PoolsInv
    <3>7. \A q \in PoolIds : idle'[q] # {} \/ q \in over' => pools'[q[1]] = q
      <4> SUFFICES ASSUME NEW q \in PoolIds, idle'[q] # {} \/ q \in over'
                   PROVE  pools'[q[1]] = q
        OBVIOUS
      <4>1. CASE q = p
        BY <3>4, <4>1
      <4>2. CASE q # p
        BY <1>1, <3>3, <3>4, <3>5, <3>6, <4>2 DEF PoolsInv
      <4> QED BY <4>1, <4>2
    <3>8. p \in {k} \X Users
      OBVIOUS
    <3> HIDE DEF k, p
    <3> QED BY <1>1, <3>1, <3>4, <3>7, <3>8 DEF PoolsInv
  <2> QED BY <2>1, <2>2
<1>8. ASSUME NEW u \in Users, Get(u) \/ Put(u)
      PROVE  PoolsInv'
  <2>1. at[u] \in {"get", "call"} /\ UNCHANGED <<pools, over>>
    BY <1>8 DEF Get, GetIdle, GetNew, GetNil, Put, runtimeVars
  <2>2. pool[u] = pools[Key(u)] /\ Key(u) \in Keys
    BY <2>1 DEF ScriptsInv, ScriptsTypeOK, CallsInv
  <2>3. UNCHANGED idle \/ \E S : idle' = [idle EXCEPT ![pool[u]] = S]
    BY <1>8 DEF Get, GetIdle, GetNew, GetNil, Put, runtimeVars
  <2>4. \A p \in PoolIds : p # pool[u] => idle'[p] = idle[p]
    BY <1>1, <2>3 DEF RuntimeTyped
  <2> QED BY <1>3, <2>1, <2>2, <2>4
<1>9. ASSUME Collect \/ Close \/ CloseStep
      PROVE  PoolsInv'
  <2>1. UNCHANGED pools
    BY <1>9 DEF Collect, Close, CloseStep, CloseChannel, Drain, CloseReturns, ClosePanics
  <2>2. \A p \in PoolIds : idle'[p] \subseteq idle[p]
    BY <1>1, <1>9
    DEF RuntimeTyped, Collect, Close, CloseStep, CloseChannel, Drain, CloseReturns, ClosePanics
  <2>3. \A p \in over' : p \in over \/ \E k \in Keys : p = pools[k]
    BY <1>9 DEF Collect, Close, CloseStep, CloseChannel, Drain, CloseReturns, ClosePanics, FixedPools
  <2> QED BY <1>3, <2>1, <2>2, <2>3
<1> QED
  BY <1>5, <1>6, <1>7, <1>8, <1>9 DEF ScriptsNext, CallStep

-----------------------------------------------------------------------------
\* A State in one place

OwnersInv ==
    /\ \A u, w \in Users : use[u] # None /\ use[u] = use[w] => u = w
    /\ \A u \in Users : use[u] # None =>
         use[u] \notin shut /\ \A p \in PoolIds : use[u] \notin idle[p]
    /\ \A p \in PoolIds : \A v \in idle[p] : v \notin shut
    /\ \A p, q \in PoolIds : \A v \in idle[p] : v \in idle[q] => p = q

LEMMA OwnersParts ==
    ASSUME RuntimeTyped, None \notin VMs
    PROVE  OneOwner /\ Apart <=> OwnersInv
<1>1. ASSUME OneOwner, Apart PROVE OwnersInv
  BY <1>1 DEF OneOwner, Apart, OwnersInv, Owned, Pooled
<1>2. ASSUME OwnersInv PROVE OneOwner /\ Apart
  <2>1. \A v \in Owned : v # None /\ \E u \in Users : use[u] = v
    BY DEF Owned
  <2>2. \A v \in Pooled : \E p \in PoolIds : v \in idle[p]
    BY DEF Pooled
  <2> QED BY <1>2, <2>1, <2>2 DEF OneOwner, Apart, OwnersInv
<1> QED BY <1>1, <1>2

\* A State nobody has, that is in no pool and is not closed.
LEMMA FreshIsFree ==
    ASSUME NEW v \in Fresh
    PROVE  /\ v \in VMs /\ v \notin shut
           /\ \A u \in Users : use[u] # v
           /\ \A p \in PoolIds : v \notin idle[p]
BY ScriptsAssumption DEF Fresh, Owned, Pooled

LEMMA OwnersShrink ==
    ASSUME OwnersInv, \A w \in Users : use'[w] \in {use[w], None},
           \A p \in PoolIds : idle'[p] \subseteq idle[p], UNCHANGED shut
    PROVE  OwnersInv'
BY DEF OwnersInv

LEMMA OwnersStep ==
    ASSUME ScriptsInv, ScriptsNext
    PROVE  OwnersInv'
<1>1. OwnersInv /\ RuntimeTyped /\ UsersInv
  BY TypeParts, OwnersParts, ScriptsAssumption DEF ScriptsInv
<1>2. CASE UNCHANGED <<idle, shut, use>>
  BY <1>1, <1>2, OwnersShrink
<1>3. ASSUME NEW u \in Users, UNCHANGED <<idle, shut>>, Leave(u)
      PROVE  OwnersInv'
  BY <1>1, <1>3, OwnersShrink DEF Leave, UsersInv
<1>4. ASSUME NEW u \in Users, NEW k \in Keys, Run(u, k) \/ \E s \in Sources : Register(u, k, s)
      PROVE  OwnersInv'
  BY <1>2, <1>4 DEF Run, Register, runtimeVars
<1>5. ASSUME NEW u \in Users, Lookup(u) \/ Entry(u) \/ Compile(u)
      PROVE  OwnersInv'
  BY <1>2, <1>3, <1>5 DEF Lookup, Entry, Compile, runtimeVars, callVars, GotPool
<1>6. ASSUME NEW u \in Users, Insert(u)
      PROVE  OwnersInv'
  <2>1. CASE UNCHANGED runtimeVars
    BY <1>2, <1>3, <1>6, <2>1 DEF Insert, NewPool, NewPoolPanics, runtimeVars, GotPool
  <2>2. CASE ~UNCHANGED runtimeVars
    <3> DEFINE p == <<Key(u), u>>
    <3>1. NewPool(u)
      BY <1>6, <2>2 DEF Insert, NewPoolPanics
    <3>2. PICK S \in SUBSET Fresh : idle' = [idle EXCEPT ![p] = S]
      BY <3>1 DEF NewPool
    <3> HIDE DEF p
    <3>3. \A q \in PoolIds : idle'[q] = IF q = p THEN S ELSE idle[q]
      BY <1>1, <3>2 DEF RuntimeTyped
    <3>4. \A v \in S : /\ v \notin shut
                       /\ \A w \in Users : use[w] # v
                       /\ \A q \in PoolIds : v \notin idle[q]
      BY FreshIsFree
    <3>5. UNCHANGED shut /\ \A w \in Users : use'[w] \in {use[w], None}
      BY <1>1, <3>1 DEF NewPool, GotPool, Leave, UsersInv
    <3> QED BY <1>1, <3>3, <3>4, <3>5 DEF OwnersInv
  <2> QED BY <2>1, <2>2
<1>7. ASSUME NEW u \in Users, GetIdle(u)
      PROVE  OwnersInv'
  <2>1. at[u] = "get" /\ pool[u] \in PoolIds /\ UNCHANGED shut
    BY <1>1, <1>7 DEF GetIdle, UsersInv, CallsInv
  <2>2. PICK v \in idle[pool[u]] :
          Takes(u, v) /\ idle' = [idle EXCEPT ![pool[u]] = @ \ {v}]
    BY <1>7 DEF GetIdle
  <2>3. \A w \in Users : use'[w] = IF w = u THEN v ELSE use[w]
    BY <1>1, <2>2 DEF Takes, UsersInv
  <2>4. \A q \in PoolIds : idle'[q] = IF q = pool[u] THEN idle[q] \ {v} ELSE idle[q]
    BY <1>1, <2>2 DEF RuntimeTyped
  <2>5. v \notin shut /\ \A w \in Users : use[w] # v
    <3>1. v # None
      BY <1>1, <2>1, ScriptsAssumption DEF RuntimeTyped
    <3> QED BY <1>1, <2>1, <3>1 DEF OwnersInv
  <2>6. \A q \in PoolIds : v \notin idle'[q]
    BY <1>1, <2>1, <2>4 DEF OwnersInv
  <2> QED
    <3>1. \A a, b \in Users : use'[a] # None /\ use'[a] = use'[b] => a = b
      BY <1>1, <2>1, <2>3, <2>4, <2>5, <2>6 DEF OwnersInv
    <3>2. \A a \in Users : use'[a] # None =>
           use'[a] \notin shut' /\ \A q \in PoolIds : use'[a] \notin idle'[q]
      BY ZenonT(60), <1>1, <2>1, <2>3, <2>4, <2>5, <2>6 DEF OwnersInv
    <3>3. \A q \in PoolIds : \A x \in idle'[q] : x \notin shut'
      BY ZenonT(60), <1>1, <2>1, <2>3, <2>4, <2>5, <2>6 DEF OwnersInv
    <3>4. \A q, r \in PoolIds : \A x \in idle'[q] : x \in idle'[r] => q = r
      BY ZenonT(60), <1>1, <2>1, <2>3, <2>4, <2>5, <2>6 DEF OwnersInv
    <3> QED BY <3>1, <3>2, <3>3, <3>4 DEF OwnersInv
<1>8. ASSUME NEW u \in Users, GetNew(u)
      PROVE  OwnersInv'
  <2>1. UNCHANGED <<idle, shut>>
    BY <1>8 DEF GetNew, runtimeVars
  <2>2. CASE Leave(u)
    BY <1>3, <2>1, <2>2
  <2>3. CASE ~Leave(u)
    <3>1. PICK v \in Fresh : Takes(u, v)
      BY <1>8, <2>3 DEF GetNew
    <3>2. \A w \in Users : use'[w] = IF w = u THEN v ELSE use[w]
      BY <1>1, <3>1 DEF Takes, UsersInv
    <3> QED BY <1>1, <2>1, <3>2, FreshIsFree DEF OwnersInv
  <2> QED BY <2>2, <2>3
<1>9. ASSUME NEW u \in Users, GetNil(u)
      PROVE  OwnersInv'
  BY <1>3, <1>9 DEF GetNil, runtimeVars
<1>10. ASSUME NEW u \in Users, Put(u)
      PROVE  OwnersInv'
  <2>1. /\ at[u] = "call" /\ pool[u] \in PoolIds /\ use[u] # None
        /\ UNCHANGED shut /\ Leave(u)
    BY <1>1, <1>10 DEF Put, UsersInv, CallsInv
  <2>2. CASE UNCHANGED idle
    BY <1>3, <2>1, <2>2
  <2>3. CASE idle' = [idle EXCEPT ![pool[u]] = @ \cup {use[u]}]
    <3>1. \A q \in PoolIds : idle'[q] = IF q = pool[u] THEN idle[q] \cup {use[u]} ELSE idle[q]
      BY <1>1, <2>3 DEF RuntimeTyped
    <3>2. \A w \in Users : use'[w] = IF w = u THEN None ELSE use[w]
      BY <1>1, <2>1 DEF Leave, UsersInv
    <3>3. \A w \in Users : use'[w] # None => use'[w] # use[u]
      BY <1>1, <2>1, <3>2 DEF OwnersInv
    <3>4. use[u] \notin shut /\ \A q \in PoolIds : use[u] \notin idle[q]
      BY <1>1, <2>1 DEF OwnersInv
    <3>5. UNCHANGED shut
      BY <2>1
    <3> DEFINE v == use[u]
    <3> HIDE DEF v
    <3>6. \A q \in PoolIds : idle'[q] \subseteq idle[q] \cup {v}
      BY <3>1 DEF v
    <3>7. \A q \in PoolIds : v \in idle'[q] => q = pool[u]
      BY <3>1, <3>4 DEF v
    <3>8. v \notin shut /\ \A w \in Users : use'[w] # None => use'[w] # v /\ use'[w] = use[w]
      BY <3>2, <3>3, <3>4 DEF v
    <3> QED
      <4>1. \A a, b \in Users : use'[a] # None /\ use'[a] = use'[b] => a = b
        BY <1>1, <3>5, <3>6, <3>7, <3>8 DEF OwnersInv
      <4>2. \A a \in Users : use'[a] # None =>
             use'[a] \notin shut' /\ \A q \in PoolIds : use'[a] \notin idle'[q]
        BY <1>1, <3>5, <3>6, <3>7, <3>8 DEF OwnersInv
      <4>3. \A q \in PoolIds : \A x \in idle'[q] : x \notin shut'
        BY <1>1, <3>5, <3>6, <3>7, <3>8 DEF OwnersInv
      <4>4. \A q, r \in PoolIds : \A x \in idle'[q] : x \in idle'[r] => q = r
        BY <1>1, <3>5, <3>6, <3>7, <3>8 DEF OwnersInv
      <4> QED BY <4>1, <4>2, <4>3, <4>4 DEF OwnersInv
  <2> QED BY <1>10, <2>2, <2>3 DEF Put
<1>11. ASSUME Collect
      PROVE  OwnersInv'
  BY <1>1, <1>11, OwnersShrink DEF Collect, callVars, RuntimeTyped
<1>12. ASSUME Close \/ CloseReturns \/ ClosePanics
      PROVE  OwnersInv'
  BY <1>2, <1>12 DEF Close, CloseReturns, ClosePanics, callVars
<1>13. ASSUME NEW p \in PoolIds, CloseChannel(p)
      PROVE  OwnersInv'
  BY <1>2, <1>13 DEF CloseChannel, callVars
<1>14. ASSUME NEW p \in PoolIds, Drain(p)
      PROVE  OwnersInv'
  <2>1. PICK v \in idle[p] : /\ shut' = shut \cup {v}
                            /\ idle' = [idle EXCEPT ![p] = @ \ {v}]
    BY <1>14 DEF Drain
  <2>2. UNCHANGED use
    BY <1>14 DEF Drain, callVars
  <2>3. \A q \in PoolIds : idle'[q] = IF q = p THEN idle[q] \ {v} ELSE idle[q]
    BY <1>1, <2>1 DEF RuntimeTyped
  <2> QED BY <1>1, <2>1, <2>2, <2>3 DEF OwnersInv
<1> QED
  BY <1>4, <1>5, <1>6, <1>7, <1>8, <1>9, <1>10, <1>11, <1>12, <1>13, <1>14
  DEF ScriptsNext, CallStep, Get, CloseStep

-----------------------------------------------------------------------------
\* The States of a fixed pool

LEMMA OfKeyIs ==
    ASSUME NEW k \in Keys
    PROVE  \A x : x \in OfKey(k) <=>
             \/ \E w \in Users : x \in idle[<<k, w>>]
             \/ \E w \in Users : at[w] = "call" /\ Key(w) = k /\ use[w] = x
<1> DEFINE U == UNION {idle[p] : p \in {k} \X Users}
<1>1. \A x : x \in U <=> \E w \in Users : x \in idle[<<k, w>>]
  <2>1. \A w \in Users : <<k, w>> \in {k} \X Users
    OBVIOUS
  <2>2. \A p \in {k} \X Users : \E w \in Users : p = <<k, w>>
    OBVIOUS
  <2>3. \A x : x \in U <=> \E p \in {k} \X Users : x \in idle[p]
    BY Zenon
  <2> HIDE DEF U
  <2> QED BY <2>1, <2>2, <2>3
<1>2. \A x : x \in InUse(k) <=> \E w \in Users : at[w] = "call" /\ Key(w) = k /\ use[w] = x
  BY DEF InUse
<1>3. OfKey(k) = U \cup InUse(k)
  BY DEF OfKey
<1> HIDE DEF U
<1> QED BY <1>1, <1>2, <1>3

\* The same of the next state.
LEMMA OfKeyIsNext ==
    ASSUME NEW k \in Keys
    PROVE  \A x : x \in OfKey(k)' <=>
             \/ \E w \in Users : x \in idle'[<<k, w>>]
             \/ \E w \in Users : at'[w] = "call" /\ call'[w].key = k /\ use'[w] = x
<1> DEFINE U == UNION {idle'[p] : p \in {k} \X Users}
<1>1. \A x : x \in U <=> \E w \in Users : x \in idle'[<<k, w>>]
  <2>1. \A w \in Users : <<k, w>> \in {k} \X Users
    OBVIOUS
  <2>2. \A p \in {k} \X Users : \E w \in Users : p = <<k, w>>
    OBVIOUS
  <2>3. \A x : x \in U <=> \E p \in {k} \X Users : x \in idle'[p]
    BY Zenon
  <2> HIDE DEF U
  <2> QED BY <2>1, <2>2, <2>3
<1>2. \A x : x \in InUse(k)' <=>
               \E w \in Users : at'[w] = "call" /\ call'[w].key = k /\ use'[w] = x
  BY DEF InUse, Key
<1>3. OfKey(k)' = U \cup InUse(k)'
  BY DEF OfKey
<1> HIDE DEF U
<1> QED BY <1>1, <1>2, <1>3

LEMMA OfKeyFinite ==
    ASSUME NEW k \in Keys, RuntimeTyped, UsersInv
    PROVE  IsFiniteSet(OfKey(k)) /\ Cardinality(OfKey(k)) \in Nat
<1>1. \A w \in Users : <<k, w>> \in PoolIds
  BY DEF PoolIds
<1>2. OfKey(k) \subseteq VMs
  <2>1. \A w \in Users : idle[<<k, w>>] \subseteq VMs
    BY <1>1 DEF RuntimeTyped
  <2>2. \A w \in Users : at[w] = "call" => use[w] \in VMs
    BY DEF UsersInv
  <2> QED BY <2>1, <2>2, OfKeyIs
<1> QED BY <1>2, ScriptsAssumption, FS_Subset, FS_CardinalityType

\* FixedIsFixed for one key.
FixedAt(k) ==
    /\ Cardinality(OfKey(k)) <= FixedN
    /\ pools[k] # None /\ pools[k] \notin over => Cardinality(OfKey(k)) = FixedN

LEMMA FixedAtEach == FixedIsFixed <=> (kind = "fixed" => \A k \in Keys : FixedAt(k))
BY DEF FixedIsFixed, FixedAt, OfKey, InUse

LEMMA FixedKept ==
    ASSUME NEW k \in Keys, FixedAt(k), OfKey(k)' = OfKey(k), pools'[k] = pools[k],
           over \subseteq over'
    PROVE  FixedAt(k)'
BY DEF FixedAt

\* The pool of a key that is closed may lose States.
LEMMA FixedShrinks ==
    ASSUME NEW k \in Keys, FixedAt(k), RuntimeTyped, UsersInv,
           OfKey(k)' \subseteq OfKey(k), pools'[k] \in over'
    PROVE  FixedAt(k)'
<1>1. /\ Cardinality(OfKey(k)') <= Cardinality(OfKey(k))
      /\ Cardinality(OfKey(k)') \in Nat /\ Cardinality(OfKey(k)) \in Nat
  BY OfKeyFinite, FS_Subset, FS_CardinalityType
<1> QED BY <1>1, ScriptsAssumption DEF FixedAt

\* No State moves, and no call comes to use one or ceases to.
LEMMA OfKeySame ==
    ASSUME NEW k \in Keys, UNCHANGED idle,
           \A w \in Users :
              \/ at[w] # "call" /\ at'[w] # "call"
              \/ at'[w] = at[w] /\ call'[w] = call[w] /\ use'[w] = use[w]
    PROVE  OfKey(k)' = OfKey(k)
<1>1. \A x : x \in OfKey(k)' <=> x \in OfKey(k)
  BY OfKeyIs, OfKeyIsNext DEF Key
<1> QED BY <1>1

LEMMA FixedStep ==
    ASSUME ScriptsInv, ScriptsNext
    PROVE  FixedIsFixed'
<1>1. RuntimeTyped /\ RuntimeTyped' /\ UsersInv /\ OnceInv /\ PoolsInv /\ OwnersInv
  BY TypeParts, OwnersParts, RuntimeTypedStep, ScriptsAssumption DEF ScriptsInv
<1>2. PoolsGrow
  BY PoolsGrowStep
<1> SUFFICES ASSUME kind = "fixed", NEW k \in Keys PROVE FixedAt(k)'
  <2>1. kind' = kind
    BY <1>2 DEF PoolsGrow
  <2>2. FixedIsFixed' <=> (kind' = "fixed" => \A k \in Keys : FixedAt(k)')
    BY DEF FixedIsFixed, FixedAt, OfKey, InUse, Key
  <2> QED BY <2>1, <2>2
<1>3. FixedAt(k)
  BY FixedAtEach DEF ScriptsInv
<1>4. /\ call \in [Users -> Calls] /\ at \in [Users -> Places]
      /\ use \in [Users -> VMs \cup {None}] /\ idle \in [PoolIds -> SUBSET VMs]
      /\ \A w \in Users : <<k, w>> \in PoolIds
  BY <1>1 DEF UsersInv, CallsInv, RuntimeTyped, PoolIds
\* Steps of a call that neither takes nor returns a State.
<1>5. ASSUME NEW u \in Users, at[u] # "call",
             UNCHANGED <<pools, idle, over>>,
             \/ Leave(u)
             \/ \E l \in {"lookup", "entry", "once", "insert", "get"} :
                   Goto(u, l) /\ (\A w \in Users : w # u => call'[w] = call[w]) /\ UNCHANGED use
      PROVE  FixedAt(k)'
  <2>1. at'[u] # "call" /\ \A w \in Users : w # u =>
           at'[w] = at[w] /\ call'[w] = call[w] /\ use'[w] = use[w]
    BY <1>4, <1>5 DEF Leave, Goto
  <2>2. OfKey(k)' = OfKey(k)
    BY <1>5, <2>1, OfKeySame
  <2> QED BY <1>3, <1>5, <2>2, FixedKept
<1>6. ASSUME UNCHANGED <<callVars, pools, idle>>, over \subseteq over'
      PROVE  FixedAt(k)'
  <2>1. OfKey(k)' = OfKey(k)
    BY <1>6, OfKeySame DEF callVars
  <2> QED BY <1>3, <1>6, <2>1, FixedKept
<1>7. ASSUME NEW u \in Users, NEW j \in Keys, Run(u, j) \/ \E s \in Sources : Register(u, j, s)
      PROVE  FixedAt(k)'
  BY <1>4, <1>5, <1>7 DEF Run, Register, runtimeVars
<1>8. ASSUME NEW u \in Users, Lookup(u)
      PROVE  FixedAt(k)'
  BY <1>4, <1>5, <1>8 DEF Lookup, GotPool, runtimeVars
<1>9. ASSUME NEW u \in Users, Entry(u) \/ Compile(u)
      PROVE  FixedAt(k)'
  BY <1>4, <1>5, <1>6, <1>9 DEF Entry, Compile, runtimeVars, callVars
<1>10. ASSUME NEW u \in Users, Insert(u)
       PROVE  FixedAt(k)'
  <2>1. CASE UNCHANGED runtimeVars
    BY <1>5, <1>10, <2>1 DEF Insert, NewPool, NewPoolPanics, GotPool, runtimeVars
  <2>2. CASE ~UNCHANGED runtimeVars
    <3> DEFINE j == Key(u)
               p == <<j, u>>
    <3>1. NewPool(u) /\ at[u] = "insert" /\ j \in Keys /\ pools[j] = None
      BY <1>1, <1>10, <2>2 DEF Insert, NewPoolPanics, UsersInv, CallsInv
    <3>2. PICK S \in SUBSET Fresh : Cardinality(S) = FixedN /\ idle' = [idle EXCEPT ![p] = S]
      BY <3>1 DEF NewPool
    <3>3. /\ pools'[j] = p /\ over' = over /\ p \in PoolIds
          /\ \A i \in Keys : i # j => pools'[i] = pools[i]
      BY <1>1, <3>1 DEF NewPool, RuntimeTyped, PoolIds
    <3>4. \A q \in PoolIds : idle'[q] = IF q = p THEN S ELSE idle[q]
      BY <1>4, <3>2
    <3>5. \A w \in Users : /\ at'[w] = "call" <=> at[w] = "call"
                           /\ at[w] = "call" => call'[w] = call[w] /\ use'[w] = use[w]
      BY <1>4, <3>1 DEF NewPool, GotPool, Leave, Goto
    <3>6. CASE k = j
      <4>1. \A w \in Users : <<k, w>> \in PoolIds /\ idle[<<k, w>>] = {}
        BY <1>1, <1>4, <3>1, <3>6, ScriptsAssumption DEF PoolsInv
      <4>2. \A w \in Users : at[w] = "call" => Key(w) # k
        BY <1>1, <3>1, <3>6 DEF UsersInv, CallsInv
      <4>3. \A x : x \in OfKey(k)' <=> x \in S
        <5>1. \A w \in Users : ~(at'[w] = "call" /\ call'[w].key = k)
          BY <3>5, <4>2 DEF Key
        <5>2. \A x : x \in OfKey(k)' <=> \E w \in Users : x \in idle'[<<k, w>>]
          BY <5>1, OfKeyIsNext
        <5>3. p = <<k, u>>
          BY <3>6
        <5> HIDE DEF p
        <5> QED BY <3>4, <4>1, <5>2, <5>3
      <4>4. Cardinality(OfKey(k)') = FixedN
        <5>1. OfKey(k)' = S
          BY <4>3
        <5> QED BY <3>2, <5>1
      <4> QED BY <4>4, ScriptsAssumption DEF FixedAt
    <3>7. CASE k # j
      <4>1. \A w \in Users : idle'[<<k, w>>] = idle[<<k, w>>]
        BY <1>4, <3>4, <3>7
      <4>2. \A x : x \in OfKey(k)' <=> x \in OfKey(k)
        <5> HIDE DEF p, j
        <5> QED BY <3>5, <4>1, OfKeyIs, OfKeyIsNext DEF Key
      <4>3. OfKey(k)' = OfKey(k)
        BY <4>2
      <4> QED BY <1>3, <3>3, <3>7, <4>3, FixedKept
    <3> QED BY <3>6, <3>7
  <2> QED BY <2>1, <2>2
<1>11. ASSUME NEW u \in Users, GetIdle(u)
       PROVE  FixedAt(k)'
  <2> DEFINE p == pool[u]
  <2>1. /\ at[u] = "get" /\ p \in PoolIds /\ UNCHANGED <<pools, over>>
        /\ Key(u) \in Keys /\ p = pools[Key(u)]
    BY <1>1, <1>11 DEF GetIdle, UsersInv, CallsInv
  <2>2. PICK v \in idle[p] : Takes(u, v) /\ idle' = [idle EXCEPT ![p] = @ \ {v}]
    BY <1>11 DEF GetIdle
  <2>3. PICK w0 \in Users : p = <<Key(u), w0>>
    BY <1>1, <2>1, ScriptsAssumption DEF PoolsInv
  <2> HIDE DEF p
  <2>4. \A q \in PoolIds : idle'[q] = IF q = p THEN idle[q] \ {v} ELSE idle[q]
    BY <1>4, <2>2
  <2>5. /\ at'[u] = "call" /\ use'[u] = v
        /\ \A w \in Users : call'[w] = call[w]
        /\ \A w \in Users : w # u => at'[w] = at[w] /\ use'[w] = use[w]
    BY <1>4, <2>2 DEF Takes, Goto
  <2>6. OfKey(k)' = OfKey(k)
    <3>1. CASE k # Key(u)
      <4>1. \A w \in Users : idle'[<<k, w>>] = idle[<<k, w>>]
        BY <1>4, <2>3, <2>4, <3>1
      <4>2. \A x : x \in OfKey(k)' <=> x \in OfKey(k)
        <5>1. \A w \in Users : \A x : x \in idle'[<<k, w>>] <=> x \in idle[<<k, w>>]
          BY <2>5, <3>1, <4>1
        <5>2. \A w \in Users : (at'[w] = "call" /\ call'[w].key = k) <=> (at[w] = "call" /\ Key(w) = k)
          BY <2>5, <3>1, <4>1, <2>1 DEF Key
        <5>3. \A w \in Users : at[w] = "call" /\ Key(w) = k => use'[w] = use[w]
          BY <2>5, <3>1, <4>1, <2>1 DEF Key
        <5> QED BY <5>1, <5>2, <5>3, OfKeyIs, OfKeyIsNext
      <4> QED BY <4>2
    <3>2. CASE k = Key(u)
      <4>1. v \in OfKey(k)
        BY <2>3, <3>2, OfKeyIs
      <4>2. v \in OfKey(k)'
        BY <2>5, <3>2, OfKeyIsNext DEF Key
      <4>3. \A w \in Users : \A x : x # v => (x \in idle'[<<k, w>>] <=> x \in idle[<<k, w>>])
        BY <1>4, <2>4
      <4>4. \A x : x # v => (x \in OfKey(k)' <=> x \in OfKey(k))
        BY <2>1, <2>5, <4>3, OfKeyIs, OfKeyIsNext DEF Key
      <4>5. \A x : x \in OfKey(k)' <=> x \in OfKey(k)
        BY <4>1, <4>2, <4>4
      <4> QED BY <4>5
    <3> QED BY <3>1, <3>2
  <2> QED BY <1>3, <2>1, <2>6, FixedKept
<1>12. ASSUME NEW u \in Users, GetNew(u) \/ GetNil(u)
       PROVE  FixedAt(k)'
  BY <1>5, <1>12 DEF GetNew, GetNil, runtimeVars
<1>13. ASSUME NEW u \in Users, Put(u)
       PROVE  FixedAt(k)'
  <2> DEFINE p == pool[u]
             v == use[u]
  <2>1. /\ at[u] = "call" /\ p \in PoolIds /\ UNCHANGED <<pools, over>>
        /\ Key(u) \in Keys /\ p = pools[Key(u)] /\ Leave(u)
    BY <1>1, <1>13 DEF Put, UsersInv, CallsInv
  <2>2. PICK w0 \in Users : p = <<Key(u), w0>>
    BY <1>1, <2>1, ScriptsAssumption DEF PoolsInv
  <2>3. \/ p \in over /\ UNCHANGED idle
        \/ p \notin over /\ idle' = [idle EXCEPT ![p] = @ \cup {v}]
    BY <1>13 DEF Put
  <2>4. /\ at'[u] = "out"
        /\ \A w \in Users : w # u => at'[w] = at[w] /\ call'[w] = call[w] /\ use'[w] = use[w]
    BY <1>4, <2>1 DEF Leave, Goto
  <2> HIDE DEF p
  <2>5. CASE p \in over
    <3>1. UNCHANGED idle
      BY <2>3, <2>5
    <3>2. CASE k = Key(u)
      <4>1. OfKey(k)' \subseteq OfKey(k)
        BY <2>4, <3>1, OfKeyIs, OfKeyIsNext DEF Key
      <4> QED BY <1>1, <1>3, <2>1, <2>5, <3>2, <4>1, FixedShrinks
    <3>3. CASE k # Key(u)
      <4>1. \A x : x \in OfKey(k)' <=> x \in OfKey(k)
        BY <2>4, <3>1, <3>3, OfKeyIs, OfKeyIsNext DEF Key
      <4>2. OfKey(k)' = OfKey(k)
        BY <4>1
      <4> QED BY <1>3, <2>1, <4>2, FixedKept
    <3> QED BY <3>2, <3>3
  <2>6. CASE p \notin over
    <3>1. \A q \in PoolIds : idle'[q] = IF q = p THEN idle[q] \cup {v} ELSE idle[q]
      BY <1>4, <2>3, <2>6
    <3>2. CASE k # Key(u)
      <4>1. \A w \in Users : idle'[<<k, w>>] = idle[<<k, w>>]
        BY <1>4, <2>2, <3>1, <3>2
      <4>2. \A x : x \in OfKey(k)' <=> x \in OfKey(k)
        <5>1. \A w \in Users : \A x : x \in idle'[<<k, w>>] <=> x \in idle[<<k, w>>]
          BY <2>4, <3>2, <4>1
        <5>2. \A w \in Users : (at'[w] = "call" /\ call'[w].key = k) <=> (at[w] = "call" /\ Key(w) = k)
          BY <2>4, <3>2, <4>1, <2>1 DEF Key
        <5>3. \A w \in Users : at[w] = "call" /\ Key(w) = k => use'[w] = use[w]
          BY <2>4, <3>2, <4>1, <2>1 DEF Key
        <5> QED BY <5>1, <5>2, <5>3, OfKeyIs, OfKeyIsNext
      <4>3. OfKey(k)' = OfKey(k)
        BY <4>2
      <4> QED BY <1>3, <2>1, <4>3, FixedKept
    <3>3. CASE k = Key(u)
      <4>1. v \in OfKey(k)
        BY <2>1, <3>3, OfKeyIs
      <4>2. v \in OfKey(k)'
        <5>1. v \in idle'[<<k, w0>>]
          BY <2>1, <2>2, <3>1, <3>3
        <5> QED BY <5>1, OfKeyIsNext
      <4>3. \A w \in Users : \A x : x # v => (x \in idle'[<<k, w>>] <=> x \in idle[<<k, w>>])
        BY <1>4, <3>1
      <4> HIDE DEF v
      <4>4. \A x : x # v => (x \in OfKey(k)' <=> x \in OfKey(k))
        BY SMTT(30), <2>4, <4>3, OfKeyIs, OfKeyIsNext DEF Key, v
      <4>5. \A x : x \in OfKey(k)' <=> x \in OfKey(k)
        BY <4>1, <4>2, <4>4
      <4>6. OfKey(k)' = OfKey(k)
        BY <4>5
      <4> QED BY <1>3, <2>1, <4>6, FixedKept
    <3> QED BY <3>2, <3>3
  <2> QED BY <2>5, <2>6
<1>14. ASSUME Collect
       PROVE  FixedAt(k)'
  BY <1>14 DEF Collect
<1>15. ASSUME Close \/ CloseReturns \/ ClosePanics
       PROVE  FixedAt(k)'
  BY <1>6, <1>15 DEF Close, CloseReturns, ClosePanics
<1>16. ASSUME NEW p \in PoolIds, CloseChannel(p)
       PROVE  FixedAt(k)'
  BY <1>6, <1>16 DEF CloseChannel
<1>17. ASSUME NEW p \in PoolIds, Drain(p)
       PROVE  FixedAt(k)'
  <2>1. /\ p \in over /\ UNCHANGED <<callVars, pools, over>>
        /\ \A q \in PoolIds : idle'[q] \subseteq idle[q] /\ (q # p => idle'[q] = idle[q])
    BY <1>1, <1>4, <1>17 DEF Drain, Unlocked, RuntimeTyped
  <2>2. pools[p[1]] = p
    BY <1>1, <2>1 DEF PoolsInv
  <2>3. CASE k = p[1]
    <3>1. OfKey(k)' \subseteq OfKey(k)
      <4>1. \A w \in Users : \A x : x \in idle'[<<k, w>>] => x \in idle[<<k, w>>]
        BY <1>4, <2>1
      <4>2. \A w \in Users : (at'[w] = "call" /\ call'[w].key = k) <=> (at[w] = "call" /\ Key(w) = k)
        BY <2>1 DEF Key, callVars
      <4>3. \A w \in Users : use'[w] = use[w]
        BY <2>1 DEF callVars
      <4> QED BY <4>1, <4>2, <4>3, OfKeyIs, OfKeyIsNext
    <3> QED BY <1>1, <1>3, <2>1, <2>2, <2>3, <3>1, FixedShrinks
  <2>4. CASE k # p[1]
    <3>1. \A w \in Users : idle'[<<k, w>>] = idle[<<k, w>>]
      BY <1>4, <2>1, <2>4
    <3>2. \A x : x \in OfKey(k)' <=> x \in OfKey(k)
      <4>1. \A w \in Users : \A x : x \in idle'[<<k, w>>] <=> x \in idle[<<k, w>>]
        BY <3>1
      <4>2. \A w \in Users : (at'[w] = "call" /\ call'[w].key = k) <=> (at[w] = "call" /\ Key(w) = k)
        BY <2>1 DEF Key, callVars
      <4>3. \A w \in Users : at[w] = "call" /\ Key(w) = k => use'[w] = use[w]
        BY <2>1 DEF Key, callVars
      <4> QED BY <4>1, <4>2, <4>3, OfKeyIs, OfKeyIsNext
    <3>3. OfKey(k)' = OfKey(k)
      BY <3>2
    <3> QED BY <1>3, <2>1, <3>3, FixedKept
  <2> QED BY <2>3, <2>4
<1> QED
  BY <1>7, <1>8, <1>9, <1>10, <1>11, <1>12, <1>13, <1>14, <1>15, <1>16, <1>17
  DEF ScriptsNext, CallStep, Get, CloseStep

-----------------------------------------------------------------------------
\* Theorems

LEMMA ScriptsInvInit == ScriptsInit => ScriptsInv
<1> SUFFICES ASSUME ScriptsInit PROVE ScriptsInv
  OBVIOUS
<1> USE ScriptsAssumption DEF ScriptsInit, CacheInit
<1>1. RuntimeTyped
  BY DEF RuntimeTyped, CacheTypeOK
<1>2. UsersInv
  <2>1. NoCall \in Calls
    BY DEF NoCall, Calls
  <2> QED BY <2>1 DEF UsersInv, CallsInv, Places
<1>3. PoolsInv
  BY DEF PoolsInv
<1>4. OnceInv
  BY CacheAssumption DEF OnceInv
<1>5. OwnersInv
  BY DEF OwnersInv
<1>6. FixedIsFixed
  <2> SUFFICES ASSUME NEW k \in Keys PROVE FixedAt(k)
    BY FixedAtEach
  <2>1. \A x : x \notin OfKey(k)
    <3>1. \A w \in Users : <<k, w>> \in PoolIds
      BY DEF PoolIds
    <3> QED BY <3>1, OfKeyIs
  <2>2. Cardinality(OfKey(k)) = 0
    BY <2>1, FS_EmptySet
  <2> QED BY <2>2 DEF FixedAt
<1> QED BY <1>1, <1>2, <1>3, <1>4, <1>5, <1>6, TypeParts, OwnersParts DEF ScriptsInv

LEMMA ScriptsInvNext ==
    ASSUME ScriptsInv, [ScriptsNext]_scriptVars
    PROVE  ScriptsInv'
<1>1. CASE ScriptsNext
  <2>1. /\ RuntimeTyped' /\ UsersInv' /\ PoolsInv' /\ OnceInv'
        /\ OwnersInv' /\ FixedIsFixed'
    BY <1>1, RuntimeTypedStep, UsersStep, PoolsStep, OnceStep, OwnersStep, FixedStep
  <2>2. ScriptsTypeOK' /\ CallsInv'
    BY <2>1 DEF ScriptsTypeOK, RuntimeTyped, UsersInv
  <2>3. OneOwner' /\ Apart'
    <3>1. \A v \in Owned' : v # None /\ \E u \in Users : use'[u] = v
      BY DEF Owned
    <3>2. \A v \in Pooled' : \E p \in PoolIds : v \in idle'[p]
      BY DEF Pooled
    <3> QED BY <2>1, <3>1, <3>2 DEF OneOwner, Apart, OwnersInv
  <2> QED BY <2>1, <2>2, <2>3 DEF ScriptsInv
<1>2. CASE UNCHANGED scriptVars
  <2> USE DEF scriptVars, cacheVars, runtimeVars, callVars
  <2>1. ScriptsTypeOK' /\ CallsInv' /\ PoolsInv'
    BY <1>2 DEF ScriptsInv, ScriptsTypeOK, CallsInv, PoolsInv, CacheTypeOK, Key
  <2>2. OnceInv'
    BY <1>2 DEF ScriptsInv, OnceInv, Compiled, Key
  <2>3. OneOwner' /\ Apart'
    BY <1>2 DEF ScriptsInv, OneOwner, Apart, Owned, Pooled
  <2>4. FixedIsFixed'
    BY <1>2 DEF ScriptsInv, FixedIsFixed, Key
  <2> QED BY <2>1, <2>2, <2>3, <2>4 DEF ScriptsInv
<1> QED BY <1>1, <1>2

\* What every step of the server keeps: the types, what a call knows, one pool
\* and one compilation for each key, one place for each State (ScriptRuntime).
THEOREM ScriptsInvariant == ScriptsSpec => []ScriptsInv
BY ScriptsInvInit, ScriptsInvNext, PTL DEF ScriptsSpec

\* Every variable has its type, and a call has a pool and a State just where
\* scriptPool.run has them.
THEOREM ScriptsTyped == ScriptsSpec => []ScriptsTypeOK
BY ScriptsInvariant, PTL DEF ScriptsInv

\* However many goroutines ask for a script at once, it is compiled at most
\* once, and who goes on has the result of that, not an error (CompileCache).
THEOREM EachCompilesOnce == ScriptsSpec => []CompilesOnce
<1>1. ScriptsInv => CompilesOnce
  <2> SUFFICES ASSUME ScriptsInv PROVE CompilesOnce
    OBVIOUS
  <2> USE DEF ScriptsInv, OnceInv
  <2>1. \A k \in Keys : compiles[k] <= 1
    OBVIOUS
  <2>2. \A u \in Users : at[u] \in {"insert", "get", "call"} =>
          res[Key(u)] \notin {Error, Pending}
    BY DEF Compiled
  <2> QED BY <2>1, <2>2 DEF CompilesOnce
<1> QED BY <1>1, ScriptsInvariant, PTL

\* A State is used by one call, and is neither pooled nor closed meanwhile,
\* also while Close drains its pool.
THEOREM StatesHaveOneOwner == ScriptsSpec => []OneOwner
BY ScriptsInvariant, PTL DEF ScriptsInv

\* A fixed pool has exactly its N States until it is closed, and never more:
\* the second look in getPool makes the first pool of a key its only one.
THEOREM FixedStaysFixed == ScriptsSpec => []FixedIsFixed
BY ScriptsInvariant, PTL DEF ScriptsInv
=============================================================================
