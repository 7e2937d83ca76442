----------------------------- MODULE HotReload -----------------------------
(***************************************************************************)
(* Hot reload: the Runtime, its source loader and the publisher of script  *)
(* changes, with what a notification promises to the calls after it.       *)
(*                                                                         *)
(* The publisher of a key updates the backend, invalidates the cache (if   *)
(* there is one) and then calls Notify, as docs/SourceLoader.md and        *)
(* examples/custom-loaders do; notifications may also come again.  A       *)
(* RoutingLoader sends each key to a loader: the backend itself (as        *)
(* MapLoader and MemoryLoader are, whose Load is atomic), or a             *)
(* CachingLoader in front of it, whose Load reads the cache, fetches from  *)
(* the backend and fills the cache in three steps.                         *)
(***************************************************************************)
EXTENDS Runtime

VARIABLES
    routes,       \* RoutingLoader.routes: the keys a CachingLoader serves
    cache,        \* CachingLoader.cache: the version cached for each key
    filling,      \* where each caller is in CachingLoader.Load
    stage,        \* how far the publisher of each key is with a change
    heard,        \* history: the newest version notified, for each level
    since         \* history: what had been notified when each call began

loaderVars == <<routes, cache, filling>>
reloadVars == <<loaderVars, stage, heard, since>>

\* A notification is "apart" if it met no load of an older source in flight,
\* and "clean" if the invalidation before it met no fetch of one either.
Levels == {"any", "apart", "clean"}

-----------------------------------------------------------------------------
\* The loader

KeyOfCall(c) == keyOf[ref[c]]

\* RoutingLoader.Load dispatches on the key's prefix.
IsCached(k) == k \in routes

\* MapLoader.Load: one read under its lock.
LoadDirect(c) ==
    /\ pc[c] = "once" /\ ~IsCached(KeyOfCall(c))
    /\ LoadSource(c)
    /\ UNCHANGED reloadVars

\* CachingLoader.Load finds the record in the cache.
LoadHit(c) ==
    /\ pc[c] = "once" /\ IsCached(KeyOfCall(c)) /\ cache[KeyOfCall(c)] # None
    /\ LoadAnswer(c, cache[KeyOfCall(c)])
    /\ UNCHANGED reloadVars

\* It does not: there is no answer yet.
LoadMiss(c) ==
    /\ pc[c] = "once" /\ IsCached(KeyOfCall(c)) /\ cache[KeyOfCall(c)] = None
    /\ LoadAnswer(c, version[ref[c]])
    /\ filling' = [filling EXCEPT ![c] = "miss"]
    /\ UNCHANGED <<routes, cache, stage, heard, since>>

\* The backend answers.
Fetch(c) ==
    /\ filling[c] = "miss"
    /\ version' = [version EXCEPT ![ref[c]] = src[KeyOfCall(c)]]
    /\ filling' = [filling EXCEPT ![c] = "fetched"]
    /\ UNCHANGED <<callVars, mapVars, keyOf, phase, poolVars, slotVars, waitVars,
                   closed, envVars, routes, cache, stage, heard, since>>

\* The answer is cached, whatever was invalidated meanwhile.
Fill(c) ==
    /\ filling[c] = "fetched"
    /\ cache' = [cache EXCEPT ![KeyOfCall(c)] = version[ref[c]]]
    /\ filling' = [filling EXCEPT ![c] = "no"]
    /\ UNCHANGED <<vars, routes, stage, heard, since>>

\* The fetch fails (and is not cached), or the compile after it.
LoadFailsLate(c) ==
    /\ "loadFail" \in Events
    /\ pc[c] = "load" /\ IsCached(KeyOfCall(c)) /\ filling[c] # "fetched"
    /\ phase' = [phase EXCEPT ![ref[c]] = "failed"]
    /\ Goto(c, "once")
    /\ filling' = [filling EXCEPT ![c] = "no"]
    /\ UNCHANGED <<ref, held, granted, mapVars, keyOf, version, poolVars, slotVars,
                   waitVars, closed, envVars, routes, cache, stage, heard, since>>

\* The loader has answered.
RegisterLoaded(c) ==
    /\ filling[c] = "no"
    /\ Register(c)
    /\ UNCHANGED reloadVars

InvalidateNothing(k) == UNCHANGED cache

ForgetCached(k) == cache' = [cache EXCEPT ![k] = None]

-----------------------------------------------------------------------------
\* The publisher of a key

\* The loads of key k that have an answer older than the source, and those of
\* them that will still put it in the cache.
OlderLoads(k) ==
    {c \in Callers : /\ pc[c] = "load" /\ filling[c] # "miss"
                     /\ KeyOfCall(c) = k /\ version[ref[c]] < src[k]}

OlderFetches(k) == {c \in OlderLoads(k) : filling[c] = "fetched"}

PublishNew(k) ==
    /\ stage[k] = "quiet"
    /\ Publish(k)
    /\ stage' = [stage EXCEPT ![k] = "published"]
    /\ UNCHANGED <<loaderVars, heard, since>>

Invalidate(k) ==
    /\ IsCached(k)
    /\ stage[k] = "published"
    /\ ForgetCached(k)
    /\ stage' = [stage EXCEPT ![k] = IF OlderFetches(k) = {} THEN "invalidated" ELSE "raced"]
    /\ UNCHANGED <<vars, routes, filling, heard, since>>

\* Notify as a whole: without a pool, or for the pool's version, it does nothing.
NotifyOf(k, v) ==
    \/ Notify(k, v)
    \/ /\ "notify" \in Events
       /\ pools[k] # None => version[pools[k]] = v
       /\ UNCHANGED vars

\* The levels a notification of key k reaches now.
LevelsReached(k) ==
    {"any"} \cup (IF OlderLoads(k) = {} THEN {"apart"} ELSE {})
            \cup (IF OlderLoads(k) = {} /\ stage[k] # "raced" THEN {"clean"} ELSE {})

NotifyNew(k) ==
    /\ stage[k] \in (IF IsCached(k) THEN {"invalidated", "raced"} ELSE {"published"})
    /\ NotifyOf(k, src[k])
    /\ stage' = [stage EXCEPT ![k] = "quiet"]
    /\ heard' = [heard EXCEPT ![k] =
                   [l \in Levels |-> IF l \in LevelsReached(k) THEN src[k] ELSE heard[k][l]]]
    /\ UNCHANGED <<loaderVars, since>>

\* A notification comes again, late: it promises nothing new.
NotifyAgain(k, v) ==
    /\ v <= heard[k]["any"]
    /\ NotifyOf(k, v)
    /\ UNCHANGED reloadVars

-----------------------------------------------------------------------------
\* The rest of the Runtime

RunNoting(c, k) ==
    /\ Run(c, k)
    /\ since' = [since EXCEPT ![c] = heard[k]]
    /\ UNCHANGED <<loaderVars, stage, heard>>

LoadStep(c) ==
    LoadDirect(c) \/ LoadHit(c) \/ LoadMiss(c) \/ Fetch(c) \/ Fill(c)
    \/ LoadFailsLate(c) \/ RegisterLoaded(c)

OtherStep ==
    /\ \/ \E c \in Callers : \/ LoadFails(c) \/ OnceReturn(c) \/ OnceFailed(c)
                             \/ AcquireStep(c) \/ BuildStep(c) \/ Release(c)
                             \/ RunClosed(c) \/ CtxDone(c)
       \/ SweepStart \/ Sweep \/ Close \/ Tick
    /\ UNCHANGED reloadVars

ReloadInit ==
    /\ Init
    /\ routes \in SUBSET Keys
    /\ cache = [k \in Keys |-> None]
    /\ filling = [c \in Callers |-> "no"]
    /\ stage = [k \in Keys |-> "quiet"]
    /\ heard = [k \in Keys |-> [l \in Levels |-> 0]]
    /\ since = [c \in Callers |-> [l \in Levels |-> 0]]

ReloadNext ==
    \/ \E c \in Callers : LoadStep(c)
    \/ \E c \in Callers, k \in Keys : RunNoting(c, k)
    \/ \E k \in Keys : PublishNew(k) \/ Invalidate(k) \/ NotifyNew(k)
    \/ \E k \in Keys, v \in Versions : NotifyAgain(k, v)
    \/ OtherStep

ReloadSpec == ReloadInit /\ [][ReloadNext]_<<vars, reloadVars>>

-----------------------------------------------------------------------------
\* Properties

ReloadTypeOK ==
    /\ TypeOK
    /\ routes \in SUBSET Keys
    /\ cache \in [Keys -> Versions \cup {None}]
    /\ filling \in [Callers -> {"no", "miss", "fetched"}]
    /\ stage \in [Keys -> {"quiet", "published", "invalidated", "raced"}]
    /\ heard \in [Keys -> [Levels -> Versions]]
    /\ since \in [Callers -> [Levels -> Versions]]

\* The script a call runs, of one of the keys K, is not older than what had been
\* notified, at the given level, before the call began.
Fresh(l, K) ==
    \A c \in Holding : KeyOfCall(c) \in K => held[c].version >= since[c][l]

\* docs/SourceLoader.md, section 7: update the backend, invalidate any cache,
\* then Notify, and the pool is dropped and reloaded on the next Run.
NotifiedIsFresh == Fresh("any", Keys)

\* A notification that meets no load of an older source in flight keeps every
\* later call off the older source (Notify's no-op for an absent pool is safe
\* then, and dropped States never come back), of a key no cache serves.
ApartIsFresh == Fresh("apart", Keys \ routes)

\* docs/SourceLoader.md, section 5: Invalidate before Notify, or the cache hands
\* back the stale source (so with it, it does not).
CachedApartIsFresh == Fresh("apart", routes)

\* With a cache in front of the backend, if the invalidation met no fetch of
\* an older source either.
CleanIsFresh == Fresh("clean", Keys)

\* A notification never lets an older pool become current again: no pool that
\* a call still refers to is newer than the key's pool in the map.
CurrentIsNewest ==
    \A k \in Keys : pools[k] # None =>
        \A p \in UsedPools :
            keyOf[p] = k /\ phase[p] = "ready" => version[p] <= version[pools[k]]

\* What the cache would serve is not older than the last clean notification.
CachedIsFresh ==
    \A k \in Keys : cache[k] # None => cache[k] >= heard[k]["clean"]

=============================================================================
