-------------------------- MODULE HotReloadProofs --------------------------
(***************************************************************************)
(* What a notification promises, for every set of callers, keys, pools and *)
(* versions, with any keys behind a cache, and whatever the janitor, Close *)
(* and failing loads do meanwhile.                                         *)
(***************************************************************************)
EXTENDS HotReload, RuntimeProofs

(***************************************************************************)
(* The invariant.                                                          *)
(***************************************************************************)

\* Between its look at the cache and its fill, CachingLoader.Load finds the
\* cache as it left it: empty.  No other load fills it, for the once admits one.
FillingAgrees ==
    /\ \A c \in Callers : filling[c] # "no" =>
          pc[c] = "load" /\ IsCached(KeyOfCall(c)) /\ cache[KeyOfCall(c)] = None
    /\ \A k \in Keys \ routes : cache[k] = None

\* A State is built for the version of its pool, which is the loader's answer
\* and never changes again.
VersionsAgree ==
    /\ \A p \in PoolIds : idle[p] # <<>> => phase[p] = "ready"
    /\ \A p \in PoolIds : \A i \in DOMAIN idle[p] : idle[p][i].version = version[p]
    /\ \A c \in Holding : held[c].version = version[ref[c]]

\* The loaded pools of a key, and the loads that have an answer to register.
ReadyOf(k) == {p \in PoolIds : phase[p] = "ready" /\ keyOf[p] = k}
AnswersOf(k) ==
    {c \in Callers : pc[c] = "load" /\ filling[c] # "miss" /\ KeyOfCall(c) = k}

\* Nothing is newer than the source.
NothingAhead ==
    \A k \in Keys :
        /\ \A l \in Levels : heard[k][l] <= src[k]
        /\ cache[k] # None => cache[k] <= src[k]
        /\ \A p \in ReadyOf(k) : version[p] <= src[k]
        /\ \A c \in AnswersOf(k) : version[ref[c]] <= src[k]

\* No loaded pool is newer than the key's current one, than what the cache
\* would answer, or than an answer under way; the latter is the cache's.
InOrder ==
    \A k \in Keys :
        /\ \A p \in ReadyOf(k) :
              /\ pools[k] # None => version[p] <= version[pools[k]]
              /\ cache[k] # None => version[p] <= cache[k]
              /\ \A c \in AnswersOf(k) : version[p] <= version[ref[c]]
        /\ \A c \in AnswersOf(k) :
              filling[c] = "no" /\ cache[k] # None => cache[k] = version[ref[c]]

\* The levels of a notification that are promises, of a key with a cache or
\* without.
Promised(k) == IF IsCached(k) THEN {"clean"} ELSE {"apart", "clean"}

\* What has been notified is not undone by a pool, an answer or the cache...
HeardKept ==
    \A k \in Keys : \A l \in Promised(k) :
        /\ pools[k] # None => heard[k][l] <= version[pools[k]]
        /\ cache[k] # None => heard[k][l] <= cache[k]
        /\ \A c \in AnswersOf(k) : heard[k][l] <= version[ref[c]]

\* ... and a call is given none of an older source than what it was to see.
SinceKept ==
    \A c \in Callers : pc[c] # "out" => \A l \in Promised(KeyOfCall(c)) :
        /\ since[c][l] <= heard[KeyOfCall(c)][l]
        /\ phase[ref[c]] = "ready" => since[c][l] <= version[ref[c]]

\* From an invalidation that met no fetch of an older source to the
\* notification after it, only the new source gets into the cache.
InvalidatedIsClean ==
    \A k \in Keys : stage[k] = "invalidated" =>
        /\ cache[k] # None => src[k] <= cache[k]
        /\ \A c \in Callers : filling[c] = "fetched" /\ KeyOfCall(c) = k =>
              src[k] <= version[ref[c]]

\* What the notifications rely on.
Order == NothingAhead /\ InOrder /\ HeardKept /\ SinceKept /\ InvalidatedIsClean

\* The inductive invariant of ReloadSpec; nothing of it rests on when pools
\* expire.
FreshInv ==
    /\ ReloadTypeOK /\ Keyed /\ EntryInv
    /\ FillingAgrees /\ VersionsAgree
    /\ Order

(***************************************************************************)
(* The steps that Runtime does not know, and what they keep of it.         *)
(***************************************************************************)

\* A call of CachingLoader.Load is a load of Runtime whose answer may be the
\* cache's, may come late, and may be an error then.
CacheStep(c) == LoadHit(c) \/ LoadMiss(c) \/ Fetch(c) \/ LoadFailsLate(c)

\* All the other steps are steps of Runtime, or none to it.
LEMMA ReloadIsRuntime ==
    ASSUME TypeOK, [ReloadNext]_<<vars, reloadVars>>, \A c \in Callers : ~CacheStep(c)
    PROVE  [Next]_vars
<1>1. ASSUME NEW c \in Callers, LoadStep(c) PROVE [Next]_vars
  BY <1>1 DEF LoadStep, CacheStep, LoadDirect, Fill, RegisterLoaded, Next, CallStep, GetPoolStep
<1>2. ASSUME NEW k \in Keys, NEW v \in Versions, NotifyOf(k, v) PROVE [Next]_vars
  BY <1>2 DEF NotifyOf, Next
<1>3. ASSUME NEW c \in Callers, NEW k \in Keys, RunNoting(c, k) PROVE [Next]_vars
  BY <1>3 DEF RunNoting, Next
<1>4. ASSUME NEW k \in Keys, PublishNew(k) \/ Invalidate(k) \/ NotifyNew(k) PROVE [Next]_vars
  <2>1. src[k] \in Versions
    BY DEF TypeOK
  <2> QED
    BY <1>2, <1>4, <2>1 DEF PublishNew, Invalidate, NotifyNew, Next
<1>5. ASSUME NEW k \in Keys, NEW v \in Versions, NotifyAgain(k, v) PROVE [Next]_vars
  BY <1>2, <1>5 DEF NotifyAgain
<1>6. CASE OtherStep
  BY <1>6 DEF OtherStep, Next, CallStep, GetPoolStep
<1> QED
  BY <1>1, <1>3, <1>4, <1>5, <1>6 DEF ReloadNext

\* The steps of the cache keep the types, the keys and the entries.
LEMMA CacheStepKeeps ==
    ASSUME ReloadTypeOK, Keyed, EntryInv, FillingAgrees, NEW c \in Callers, CacheStep(c)
    PROVE  TypeOK' /\ Keyed' /\ EntryInv'
<1> USE DEF callVars, mapVars, entryVars, poolVars, slotVars, waitVars, envVars
<1>1. ASSUME NEW v \in Versions, LoadAnswer(c, v) PROVE TypeOK' /\ Keyed' /\ EntryInv'
  <2>1. EntryInv'
    BY <1>1, EntryLoad DEF ReloadTypeOK
  <2>2. TypeOK' /\ Keyed'
    BY <1>1 DEF LoadAnswer, Goto, ReloadTypeOK, TypeOK, Keyed
  <2> QED
    BY <2>1, <2>2
<1>2. CASE LoadHit(c)
  <2>1. KeyOfCall(c) \in Keys
    BY <1>2 DEF LoadHit, ReloadTypeOK, TypeOK, Keyed, KeyOfCall
  <2>2. cache[KeyOfCall(c)] \in Versions
    BY <1>2, <2>1 DEF LoadHit, ReloadTypeOK
  <2> QED
    BY <1>1, <1>2, <2>2 DEF LoadHit
<1>3. CASE LoadMiss(c)
  <2>1. version[ref[c]] \in Versions
    BY <1>3 DEF LoadMiss, ReloadTypeOK, TypeOK
  <2> QED
    BY <1>1, <1>3, <2>1 DEF LoadMiss
<1>4. CASE Fetch(c)
  <2>1. src[KeyOfCall(c)] \in Versions
    BY <1>4 DEF Fetch, FillingAgrees, ReloadTypeOK, TypeOK, Keyed, KeyOfCall
  <2>2. TypeOK' /\ Keyed'
    BY <1>4, <2>1 DEF Fetch, ReloadTypeOK, TypeOK, Keyed
  <2>3. EntryInv'
    BY <1>4 DEF Fetch, EntryInv, OnceAgrees, LoadingCurrent, MapsAgree, Loading
  <2> QED
    BY <2>2, <2>3
<1>5. CASE LoadFailsLate(c)
  <2>1. TypeOK' /\ Keyed'
    BY <1>5 DEF LoadFailsLate, Goto, ReloadTypeOK, TypeOK, Keyed
  <2>2. EntryInv'
    BY <1>5 DEF LoadFailsLate, Goto, ReloadTypeOK, TypeOK, EntryInv, OnceAgrees, LoadingCurrent,
                MapsAgree, PastGetPool, Loading
  <2> QED
    BY <2>1, <2>2
<1> QED
  BY <1>2, <1>3, <1>4, <1>5 DEF CacheStep

\* So every step keeps them.
LEMMA EntriesKept ==
    ASSUME ReloadTypeOK, Keyed, EntryInv, FillingAgrees, [ReloadNext]_<<vars, reloadVars>>
    PROVE  TypeOK' /\ Keyed' /\ EntryInv'
<1>1. CASE \E c \in Callers : CacheStep(c)
  BY <1>1, CacheStepKeeps
<1>2. CASE \A c \in Callers : ~CacheStep(c)
  BY <1>2, ReloadIsRuntime, TypeStep, EntryInvStep DEF ReloadTypeOK
<1> QED
  BY <1>1, <1>2

\* A call that loads is the only one of its key, which has no pool meanwhile.
LEMMA OneLoader ==
    ASSUME TypeOK, Keyed, EntryInv, NEW c \in Callers, pc[c] = "load"
    PROVE  /\ ref[c] \in PoolIds /\ KeyOfCall(c) \in Keys
           /\ phase[ref[c]] = "loading" /\ pools[KeyOfCall(c)] = None
           /\ \A d \in Callers : pc[d] = "load" /\ KeyOfCall(d) = KeyOfCall(c) => d = c
<1>1. \A d \in Callers : pc[d] = "load" =>
         /\ ref[d] \in PoolIds /\ KeyOfCall(d) \in Keys
         /\ phase[ref[d]] = "loading" /\ pools[KeyOfCall(d)] = None
         /\ creating[KeyOfCall(d)] = ref[d]
  BY DEF TypeOK, Keyed, KeyOfCall, EntryInv, OnceAgrees, LoadingCurrent, Loading
<1> QED
  BY <1>1 DEF EntryInv, OnceAgrees

\* The pool of the map is one of the loaded pools of its key.
LEMMA MappedIsReady ==
    ASSUME TypeOK, Keyed, EntryInv, NEW k \in Keys, pools[k] # None
    PROVE  pools[k] \in ReadyOf(k)
BY DEF TypeOK, Keyed, EntryInv, MapsAgree, ReadyOf

(***************************************************************************)
(* A State has the version of its pool.                                    *)
(***************************************************************************)

\* Steps that leave the States where they are, or close idle ones.
LEMMA VersionsQuiet ==
    ASSUME TypeOK, VersionsAgree, version' = version,
           \A p \in PoolIds : idle'[p] \in {idle[p], <<>>},
           \A p \in PoolIds : phase[p] = "ready" => phase'[p] = "ready",
           \A c \in Callers : held'[c] # None => held'[c] = held[c] /\ ref'[c] = ref[c]
    PROVE  VersionsAgree'
BY DEF VersionsAgree, Holding

\* A load writes the version of a pool that has no State yet.
LEMMA VersionsLoad ==
    ASSUME TypeOK, EntryInv, VersionsAgree, NEW p \in PoolIds, phase[p] \in {"new", "loading"},
           NEW v, version' = [version EXCEPT ![p] = v],
           \A q \in PoolIds : phase[q] = "ready" => phase'[q] = "ready",
           UNCHANGED <<idle, held, ref>>
    PROVE  VersionsAgree'
<1>1. idle[p] = <<>>
  BY DEF VersionsAgree
<1>2. \A c \in Holding : ref[c] \in PoolIds /\ ref[c] # p
  BY DEF TypeOK, EntryInv, OnceAgrees, PastGetPool, Holding
<1> QED
  BY <1>1, <1>2 DEF VersionsAgree, Holding, TypeOK

\* Every step keeps the versions of the States.
LEMMA VersionsStep ==
    ASSUME TypeOK, Keyed, EntryInv, VersionsAgree, [Next]_vars
    PROVE  VersionsAgree'
<1> USE DEF callVars, mapVars, entryVars, poolVars, slotVars, waitVars, envVars
<1>1. CASE UNCHANGED vars
  BY <1>1, VersionsQuiet DEF vars
<1>2. ASSUME NEW c \in Callers, RunClosed(c) \/ CtxDone(c) PROVE VersionsAgree'
  BY <1>2, VersionsQuiet DEF RunClosed, CtxDone, vars
<1>3. ASSUME NEW c \in Callers,
             AcquireClosed(c) \/ Reserve(c) \/ Enqueue(c) \/ TakeGrant(c) \/ Bail(c) \/ WaitClosed(c)
             \/ BuildFails(c) \/ OnceReturn(c) \/ OnceFailed(c)
      PROVE  VersionsAgree'
  BY <1>3, VersionsQuiet DEF AcquireClosed, Reserve, Enqueue, TakeGrant, Bail, WaitClosed,
           BuildFails, OnceReturn, OnceFailed, Return, TypeOK
<1>4. ASSUME NEW c \in Callers, LoadSource(c) PROVE VersionsAgree'
  <2>1. ref[c] \in PoolIds /\ phase[ref[c]] = "new"
    BY <1>4 DEF LoadSource, LoadAnswer, TypeOK
  <2> QED
    BY <1>4, <2>1, VersionsLoad DEF LoadSource, LoadAnswer, TypeOK
<1>5. ASSUME NEW c \in Callers, LoadFails(c) PROVE VersionsAgree'
  BY <1>5, VersionsQuiet DEF LoadFails, TypeOK
<1>6. ASSUME NEW c \in Callers, Register(c) PROVE VersionsAgree'
  BY <1>6, VersionsQuiet DEF Register, TypeOK
<1>7. ASSUME NEW c \in Callers, NEW k \in Keys, RunHit(c, k) \/ RunJoin(c, k)
      PROVE  VersionsAgree'
  BY <1>7, VersionsQuiet DEF RunHit, RunJoin, TypeOK
<1>8. ASSUME NEW c \in Callers, NEW k \in Keys, RunCreate(c, k) PROVE VersionsAgree'
  <2> DEFINE p == CHOOSE q \in PoolIds \ UsedPools : TRUE
  <2>0. p \in PoolIds \ UsedPools
    BY <1>8 DEF RunCreate
  <2>1. p \in PoolIds /\ \A d \in Callers : ref[d] # p
    BY <2>0, NoneAssumption DEF UsedPools
  <2>2. /\ pc[c] = "out" /\ ref' = [ref EXCEPT ![c] = p]
        /\ phase' = [phase EXCEPT ![p] = "new"]
        /\ idle' = [idle EXCEPT ![p] = <<>>]
        /\ UNCHANGED <<held, version>>
    BY <1>8 DEF RunCreate
  <2> HIDE DEF p
  <2>3. held[c] = None
    BY <2>2 DEF TypeOK
  <2> QED
    BY <2>1, <2>2, <2>3 DEF VersionsAgree, Holding, TypeOK
<1>9. ASSUME NEW c \in Callers, Reuse(c) PROVE VersionsAgree'
  <2> DEFINE p == ref[c]
             n == Len(idle[p])
  <2>1. p \in PoolIds /\ phase[p] = "ready" /\ n \in Nat \ {0} /\ idle[p] \in Seq(PooledState)
    BY <1>9 DEF Reuse, MayClaim, TypeOK, EntryInv, OnceAgrees, PastGetPool
  <2>2. /\ held' = [held EXCEPT ![c] = idle[p][n]]
        /\ idle' = [idle EXCEPT ![p] = SubSeq(idle[p], 1, n-1)]
        /\ UNCHANGED <<ref, phase, version>>
    BY <1>9 DEF Reuse, Warmest
  <2>3. \A i \in DOMAIN SubSeq(idle[p], 1, n-1) :
           i \in DOMAIN idle[p] /\ SubSeq(idle[p], 1, n-1)[i] = idle[p][i]
    BY <2>1
  <2>4. n \in DOMAIN idle[p]
    BY <2>1
  <2> HIDE DEF n
  <2>5. \A q \in PoolIds : \A i \in DOMAIN idle'[q] : idle'[q][i].version = version[q]
    BY <2>1, <2>2, <2>3 DEF VersionsAgree, TypeOK
  <2>6. \A q \in PoolIds : idle'[q] # <<>> => phase[q] = "ready"
    BY <2>1, <2>2 DEF VersionsAgree, TypeOK
  <2>7. \A d \in Callers : held'[d] # None => held'[d].version = version[ref[d]]
    BY <2>1, <2>2, <2>4 DEF VersionsAgree, TypeOK, Holding
  <2> QED
    BY <2>2, <2>5, <2>6, <2>7 DEF VersionsAgree, Holding
<1>10. ASSUME NEW c \in Callers, Evict(c) PROVE VersionsAgree'
  <2>0. PICK p \in Mapped : \E i \in 1..Len(idle[p]) :
           p \in PoolIds /\ idle' = [idle EXCEPT ![p] = RemoveAt(idle[p], i)]
    BY <1>10, EvictVictim
  <2>1. PICK i \in 1..Len(idle[p]) :
           p \in PoolIds /\ idle' = [idle EXCEPT ![p] = RemoveAt(idle[p], i)]
    BY <2>0
  <2>2. idle[p] \in Seq(PooledState) /\ idle[p] # <<>>
    BY <2>1 DEF TypeOK
  <2>3. \A j \in DOMAIN RemoveAt(idle[p], i) :
           \E l \in DOMAIN idle[p] : RemoveAt(idle[p], i)[j] = idle[p][l]
    <3>1. /\ Len(RemoveAt(idle[p], i)) = Len(idle[p]) - 1
          /\ \A j \in 1..Len(idle[p])-1 :
                RemoveAt(idle[p], i)[j] = IF j < i THEN idle[p][j] ELSE idle[p][j+1]
      BY <2>2, RemoveAtElements
    <3>2. RemoveAt(idle[p], i) \in Seq(PooledState)
      BY <2>2, RemoveAtType
    <3>3. SUFFICES ASSUME NEW j \in DOMAIN RemoveAt(idle[p], i)
                   PROVE  \E l \in DOMAIN idle[p] : RemoveAt(idle[p], i)[j] = idle[p][l]
      OBVIOUS
    <3>4. j \in 1..Len(idle[p])-1 /\ j \in DOMAIN idle[p] /\ j+1 \in DOMAIN idle[p]
      BY <2>2, <3>1, <3>2, <3>3
    <3> QED
      BY <3>1, <3>4
  <2>4. UNCHANGED <<ref, held, phase, version>>
    BY <1>10 DEF Evict
  <2>5. \A q \in PoolIds : \A j \in DOMAIN idle'[q] : idle'[q][j].version = version[q]
    BY <2>1, <2>3 DEF VersionsAgree, TypeOK
  <2>6. \A q \in PoolIds : idle'[q] # <<>> => phase[q] = "ready"
    BY <2>1, <2>2 DEF VersionsAgree, TypeOK
  <2> QED
    BY <2>4, <2>5, <2>6 DEF VersionsAgree, Holding
<1>11. ASSUME NEW c \in Callers, BuildDone(c) PROVE VersionsAgree'
  <2>1. PICK L \in StateIds : held' = [held EXCEPT ![c] = [L |-> L, version |-> version[ref[c]],
                                                           idleSince |-> 0]]
    BY <1>11 DEF BuildDone
  <2> QED
    BY <1>11, <2>1 DEF BuildDone, VersionsAgree, Holding, TypeOK
<1>12. ASSUME NEW c \in Callers, Release(c) PROVE VersionsAgree'
  <2>1. /\ ref[c] \in PoolIds /\ phase[ref[c]] = "ready" /\ c \in Holding
        /\ held[c].version = version[ref[c]] /\ held[c] \in PooledState
    BY <1>12 DEF Release, TypeOK, EntryInv, OnceAgrees, PastGetPool, VersionsAgree, Holding
  <2>2. /\ held' = [held EXCEPT ![c] = None] /\ ref' = [ref EXCEPT ![c] = None]
        /\ UNCHANGED <<phase, version>>
    BY <1>12 DEF Release, Return
  <2>3. CASE Discards(c)
    BY <1>12, <2>2, <2>3, VersionsQuiet DEF Release, TypeOK
  <2>4. CASE ~Discards(c)
    <3> DEFINE ps == [held[c] EXCEPT !.idleSince = now]
    <3>1. idle' = [idle EXCEPT ![ref[c]] = Append(idle[ref[c]], ps)]
      BY <1>12, <2>4 DEF Release
    <3>2. ps.version = version[ref[c]] /\ idle[ref[c]] \in Seq(PooledState)
      BY <2>1 DEF TypeOK, PooledState
    <3> HIDE DEF ps
    <3>3. \A i \in DOMAIN Append(idle[ref[c]], ps) :
             \/ i \in DOMAIN idle[ref[c]] /\ Append(idle[ref[c]], ps)[i] = idle[ref[c]][i]
             \/ Append(idle[ref[c]], ps)[i] = ps
      BY <3>2
    <3>4. \A q \in PoolIds : \A i \in DOMAIN idle'[q] : idle'[q][i].version = version[q]
      BY <2>1, <3>1, <3>2, <3>3 DEF VersionsAgree, TypeOK
    <3>5. \A q \in PoolIds : idle'[q] # <<>> => phase[q] = "ready"
      BY <2>1, <3>1 DEF VersionsAgree, TypeOK
    <3>6. \A d \in Callers : held'[d] # None => d \in Holding /\ held'[d] = held[d] /\ ref'[d] = ref[d]
      BY <2>2 DEF TypeOK, Holding
    <3> QED
      BY <2>2, <3>4, <3>5, <3>6 DEF VersionsAgree, Holding
  <2> QED
    BY <2>3, <2>4
<1>13. ASSUME NEW k \in Keys, NEW v \in Versions, Notify(k, v) PROVE VersionsAgree'
  BY <1>13, VersionsQuiet DEF Notify, ForgetIdle
<1>14. CASE Close
  BY <1>14, VersionsQuiet DEF Close, ForgetIdle
<1>15. ASSUME (\E k \in Keys : Publish(k)) \/ SweepStart \/ Sweep \/ Tick PROVE VersionsAgree'
  BY <1>15, VersionsQuiet DEF Publish, SweepStart, Sweep, Tick
<1> QED
  BY <1>1, <1>2, <1>3, <1>4, <1>5, <1>6, <1>7, <1>8, <1>9, <1>10, <1>11, <1>12, <1>13, <1>14, <1>15
     DEF Next, Run, CallStep, GetPoolStep, AcquireStep, BuildStep

(***************************************************************************)
(* No older source comes back.                                             *)
(***************************************************************************)

\* Steps that bring no version anywhere: pools only leave the map, loads only
\* end.
LEMMA OrderQuiet ==
    ASSUME TypeOK, Keyed, EntryInv, FillingAgrees, Order,
           UNCHANGED <<keyOf, version, src, routes, cache, stage, heard, since>>,
           \A k \in Keys : pools'[k] \in {pools[k], None},
           \A p \in PoolIds : phase'[p] = "ready" => phase[p] = "ready",
           \A c \in Callers :
              /\ pc'[c] = "load" => pc[c] = "load" /\ filling'[c] = filling[c]
              /\ filling'[c] # "no" => filling'[c] = filling[c] /\ pc'[c] = "load"
              /\ pc'[c] # "out" => pc[c] # "out" /\ ref'[c] = ref[c]
    PROVE  FillingAgrees' /\ Order'
<1>1. \A k \in Keys : ReadyOf(k)' \subseteq ReadyOf(k)
  BY DEF ReadyOf
<1>2. \A k \in Keys : \A c \in AnswersOf(k)' :
         c \in AnswersOf(k) /\ ref'[c] = ref[c] /\ filling'[c] = filling[c]
  BY DEF AnswersOf, KeyOfCall
<1>3. FillingAgrees'
  BY DEF FillingAgrees, IsCached, KeyOfCall
<1>4. NothingAhead'
  BY <1>1, <1>2 DEF Order, NothingAhead
<1>5. InOrder'
  BY <1>1, <1>2 DEF Order, InOrder
<1>6. HeardKept'
  BY <1>2 DEF Order, HeardKept, Promised, IsCached
<1>7. SinceKept'
  <2> SUFFICES ASSUME NEW c \in Callers, pc'[c] # "out", NEW l \in Promised(KeyOfCall(c))'
               PROVE  /\ since[c][l] <= heard[KeyOfCall(c)'][l]
                      /\ phase'[ref'[c]] = "ready" => since[c][l] <= version[ref'[c]]
    BY DEF SinceKept
  <2>1. /\ pc[c] # "out" /\ ref'[c] = ref[c] /\ KeyOfCall(c)' = KeyOfCall(c)
        /\ ref[c] \in PoolIds /\ l \in Promised(KeyOfCall(c))
    BY DEF KeyOfCall, Promised, IsCached, TypeOK
  <2> QED
    BY <2>1 DEF Order, SinceKept
<1>8. InvalidatedIsClean'
  BY DEF Order, InvalidatedIsClean, KeyOfCall, FillingAgrees
<1> QED
  BY <1>3, <1>4, <1>5, <1>6, <1>7, <1>8 DEF Order

\* A load of pool p begins, or is answered v: an answer is the newest version,
\* or the cached one.
LEMMA OrderLoad ==
    ASSUME ReloadTypeOK, Keyed, EntryInv, FillingAgrees, Order, TypeOK', Keyed', EntryInv',
           NEW c \in Callers, NEW p \in PoolIds, NEW k \in Keys, NEW f, NEW v,
           ref[c] = p, keyOf[p] = k, pc[c] \in {"once", "load"}, phase[p] \in {"new", "loading"},
           \A d \in Callers : /\ pc'[d] = IF d = c THEN "load" ELSE pc[d]
                              /\ filling'[d] = IF d = c THEN f ELSE filling[d],
           \A q \in PoolIds : /\ phase'[q] = IF q = p THEN "loading" ELSE phase[q]
                              /\ version'[q] = IF q = p THEN v ELSE version[q],
           UNCHANGED <<ref, pools, keyOf, src, routes, cache, stage, heard, since>>,
           f # "no" => IsCached(k) /\ cache[k] = None,
           f # "miss" => \/ v = src[k] /\ cache[k] = None
                         \/ v = cache[k] /\ cache[k] # None
    PROVE  FillingAgrees' /\ Order'
<1>1. \A j \in Keys : \A q \in ReadyOf(j)' : q \in ReadyOf(j) /\ version'[q] = version[q]
  BY DEF ReadyOf
<1>2. \A j \in Keys : \A d \in AnswersOf(j)' :
         \/ d \in AnswersOf(j) /\ d # c /\ j # k /\ version'[ref'[d]] = version[ref[d]]
         \/ d = c /\ j = k /\ f # "miss" /\ version'[ref'[d]] = v
  <2> SUFFICES ASSUME NEW j \in Keys, NEW d \in AnswersOf(j)'
               PROVE \/ d \in AnswersOf(j) /\ d # c /\ j # k /\ version'[ref'[d]] = version[ref[d]]
                     \/ d = c /\ j = k /\ f # "miss" /\ version'[ref'[d]] = v
    OBVIOUS
  <2>1. d \in Callers /\ pc'[d] = "load" /\ ref[d] \in PoolIds /\ KeyOfCall(d) = j
    BY DEF AnswersOf, KeyOfCall, TypeOK
  <2>2. j = k => d = c
    <3>1. Loading(ref[d])' /\ Loading(ref[c])' /\ pc'[c] = "load"
      BY <2>1 DEF EntryInv, OnceAgrees, Loading
    <3>2. j = k => ref'[d] = ref'[c]
      BY <2>1, <3>1, NoneAssumption DEF KeyOfCall, EntryInv, LoadingCurrent
    <3> QED
      BY <2>1, <3>1, <3>2 DEF EntryInv, OnceAgrees
  <2>3. j = k \/ d # c
    BY <2>1 DEF KeyOfCall
  <2> QED
    BY <2>1, <2>2, <2>3 DEF AnswersOf, KeyOfCall
<1>3. FillingAgrees'
  BY DEF FillingAgrees, IsCached, KeyOfCall, ReloadTypeOK
<1>4. /\ src[k] \in Int /\ \A l \in Levels : heard[k][l] \in Int
      /\ cache[k] # None => cache[k] \in Int
      /\ \A q \in PoolIds : version[q] \in Int
  BY ConfigAssumption DEF ReloadTypeOK, TypeOK, Versions
<1>5. f # "miss" => /\ v \in Int /\ v <= src[k]
                    /\ \A q \in ReadyOf(k) : version[q] <= v
                    /\ \A l \in Promised(k) : heard[k][l] <= v
  <2>1. \A q \in ReadyOf(k) : q \in PoolIds
    BY DEF ReadyOf
  <2>2. Promised(k) \subseteq Levels
    BY DEF Promised, Levels
  <2> QED
    BY <1>4, <2>1, <2>2 DEF Order, NothingAhead, InOrder, HeardKept
<1>6. NothingAhead'
  BY <1>1, <1>2, <1>5 DEF Order, NothingAhead
<1>7. InOrder'
  <2>1. \A j \in Keys : pools[j] # None => pools[j] \in PoolIds /\ version'[pools[j]] = version[pools[j]]
    BY MappedIsReady DEF TypeOK, ReadyOf, ReloadTypeOK
  <2>2. \A j \in Keys : \A q \in ReadyOf(j)' :
           /\ pools[j] # None => version'[q] <= version'[pools[j]]
           /\ cache[j] # None => version'[q] <= cache[j]
    BY <1>1, <2>1 DEF Order, InOrder
  <2>3. \A j \in Keys : \A q \in ReadyOf(j)' : \A d \in AnswersOf(j)' :
           version'[q] <= version'[ref'[d]]
    BY <1>1, <1>2, <1>5 DEF Order, InOrder
  <2>4. \A j \in Keys : \A d \in AnswersOf(j)' :
           filling'[d] = "no" /\ cache[j] # None => cache[j] = version'[ref'[d]]
    BY <1>2 DEF Order, InOrder, AnswersOf
  <2> QED
    BY <2>2, <2>3, <2>4 DEF InOrder
<1>8. HeardKept'
  <2>1. \A j \in Keys : pools[j] # None => pools[j] \in PoolIds /\ version'[pools[j]] = version[pools[j]]
    BY MappedIsReady DEF TypeOK, ReadyOf, ReloadTypeOK
  <2> QED
    BY <1>2, <1>5, <2>1 DEF Order, HeardKept, Promised, IsCached
<1>9. SinceKept'
  <2> SUFFICES ASSUME NEW d \in Callers, pc'[d] # "out", NEW l \in Promised(KeyOfCall(d))'
               PROVE  /\ since[d][l] <= heard[KeyOfCall(d)][l]
                      /\ phase'[ref[d]] = "ready" => since[d][l] <= version'[ref[d]]
    BY DEF SinceKept, KeyOfCall
  <2>1. pc[d] # "out" /\ ref[d] \in PoolIds /\ l \in Promised(KeyOfCall(d))
    BY DEF KeyOfCall, Promised, IsCached, ReloadTypeOK, TypeOK
  <2> QED
    BY <2>1 DEF Order, SinceKept
<1>10. InvalidatedIsClean'
  <2> SUFFICES ASSUME NEW j \in Keys, stage[j] = "invalidated", NEW d \in Callers,
                      filling'[d] = "fetched", KeyOfCall(d) = j
               PROVE  src[j] <= version'[ref[d]]
    BY DEF Order, InvalidatedIsClean, KeyOfCall
  <2>1. d \in AnswersOf(j)'
    BY <1>3 DEF FillingAgrees, AnswersOf, KeyOfCall
  <2> QED
    BY <1>2, <1>4, <1>5, <2>1 DEF Order, InvalidatedIsClean, AnswersOf
<1> QED
  BY <1>3, <1>6, <1>7, <1>8, <1>9, <1>10 DEF Order

\* Versions and what has been notified are integers.
LEMMA Numbers ==
    ASSUME ReloadTypeOK
    PROVE  /\ \A k \in Keys : /\ src[k] \in Int
                              /\ cache[k] # None => cache[k] \in Int
                              /\ \A l \in Levels : heard[k][l] \in Int
           /\ \A p \in PoolIds : version[p] \in Int
           /\ \A c \in Callers, l \in Levels : since[c][l] \in Int
           /\ \A k : Promised(k) \subseteq Levels
<1>1. Versions \subseteq Int
  BY ConfigAssumption DEF Versions
<1>2. \A k \in Keys : src[k] \in Int /\ (cache[k] # None => cache[k] \in Int)
  BY <1>1 DEF ReloadTypeOK, TypeOK
<1>3. \A k \in Keys : \A l \in Levels : heard[k][l] \in Int
  <2>1. \A k \in Keys : heard[k] \in [Levels -> Versions]
    BY DEF ReloadTypeOK
  <2> QED
    BY <1>1, <2>1
<1>4. \A c \in Callers : \A l \in Levels : since[c][l] \in Int
  <2>1. \A c \in Callers : since[c] \in [Levels -> Versions]
    BY DEF ReloadTypeOK
  <2> QED
    BY <1>1, <2>1
<1>5. \A p \in PoolIds : version[p] \in Int
  BY <1>1 DEF ReloadTypeOK, TypeOK
<1>6. \A k : Promised(k) \subseteq Levels
  BY DEF Promised, Levels
<1> QED
  BY <1>2, <1>3, <1>4, <1>5, <1>6

\* The answer is cached: it is the newest version, and what the cache held
\* before has been invalidated.
LEMMA OrderFill ==
    ASSUME ReloadTypeOK, Keyed, EntryInv, FillingAgrees, Order, NEW c \in Callers, Fill(c)
    PROVE  FillingAgrees' /\ Order'
<1> DEFINE p == ref[c]
           k == KeyOfCall(c)
<1>1. pc[c] = "load" /\ IsCached(k) /\ cache[k] = None /\ filling[c] = "fetched"
  BY DEF Fill, FillingAgrees
<1>2. /\ p \in PoolIds /\ k \in Keys
      /\ \A d \in Callers : pc[d] = "load" /\ KeyOfCall(d) = k => d = c
  BY <1>1, OneLoader DEF ReloadTypeOK
<1>3. c \in AnswersOf(k)
  BY <1>1 DEF AnswersOf
<1>4. /\ UNCHANGED <<vars, routes, stage, heard, since>>
      /\ \A j \in Keys : cache'[j] = IF j = k THEN version[p] ELSE cache[j]
      /\ \A d \in Callers : filling'[d] = IF d = c THEN "no" ELSE filling[d]
  BY DEF Fill, ReloadTypeOK
<1>5. \A j : /\ ReadyOf(j)' = ReadyOf(j) /\ AnswersOf(j)' = AnswersOf(j)
             /\ KeyOfCall(j)' = KeyOfCall(j) /\ IsCached(j)' = IsCached(j)
             /\ Promised(j)' = Promised(j)
  <2>1. \A j : ReadyOf(j)' = ReadyOf(j) /\ KeyOfCall(j)' = KeyOfCall(j)
    BY <1>4 DEF ReadyOf, vars, entryVars, callVars, KeyOfCall
  <2>2. \A j : IsCached(j)' = IsCached(j) /\ Promised(j)' = Promised(j)
    BY <1>4 DEF IsCached, Promised
  <2>3. \A j : AnswersOf(j)' = AnswersOf(j)
    BY <1>1, <1>4 DEF AnswersOf, vars, entryVars, callVars, KeyOfCall
  <2> QED
    BY <2>1, <2>2, <2>3
<1> HIDE DEF k, p
<1>6. p = ref[c] /\ KeyOfCall(c) = k
  BY DEF k, p
<1> USE DEF vars, callVars, mapVars, entryVars, envVars
<1>7. FillingAgrees'
  <2>1. \A d \in Callers : filling'[d] # "no" => d # c /\ KeyOfCall(d) # k
    BY <1>2, <1>4 DEF FillingAgrees
  <2>2. \A d \in Callers : filling'[d] # "no" => KeyOfCall(d) \in Keys
    BY <1>4, <2>1, OneLoader DEF FillingAgrees, ReloadTypeOK
  <2>3. \A j \in Keys \ routes : j # k
    BY <1>1 DEF IsCached
  <2> QED
    BY <1>4, <1>5, <2>1, <2>2, <2>3 DEF FillingAgrees
<1>8. NothingAhead'
  BY <1>3, <1>4, <1>5, <1>6 DEF Order, NothingAhead
<1>9. InOrder'
  <2>1. \A j \in Keys : \A d \in AnswersOf(j) : j = k => d = c
    BY <1>2 DEF AnswersOf
  <2>2. \A d \in AnswersOf(k) : cache'[k] = version[ref[d]]
    BY <1>2, <1>4, <1>6, <2>1
  <2>3. \A j \in Keys \ {k} : \A d \in AnswersOf(j) : filling'[d] = filling[d]
    BY <1>4, <1>6 DEF AnswersOf
  <2>4. \A q \in ReadyOf(k) : version[q] <= cache'[k]
    BY <1>2, <1>3, <1>4, <1>6 DEF Order, InOrder
  <2> QED
    BY <1>2, <1>4, <1>5, <2>2, <2>3, <2>4 DEF Order, InOrder
<1>10. HeardKept'
  BY <1>2, <1>3, <1>4, <1>5, <1>6 DEF Order, HeardKept
<1>11. SinceKept'
  BY <1>4, <1>5 DEF Order, SinceKept
<1>12. InvalidatedIsClean'
  BY <1>1, <1>2, <1>4, <1>5, <1>6 DEF Order, InvalidatedIsClean
<1> QED
  BY <1>7, <1>8, <1>9, <1>10, <1>11, <1>12 DEF Order

\* The loaded pool becomes the key's.
LEMMA OrderRegister ==
    ASSUME ReloadTypeOK, Keyed, EntryInv, FillingAgrees, Order, NEW c \in Callers,
           RegisterLoaded(c)
    PROVE  FillingAgrees' /\ Order'
<1> DEFINE p == ref[c]
           k == KeyOfCall(c)
<1>1. /\ pc[c] = "load" /\ filling[c] = "no" /\ UNCHANGED <<ref, keyOf, version, src, reloadVars>>
      /\ pc' = [pc EXCEPT ![c] = "acquire"]
      /\ pools' = [pools EXCEPT ![k] = p] /\ phase' = [phase EXCEPT ![p] = "ready"]
  BY DEF RegisterLoaded, Register, Goto, KeyOfCall, entryVars, envVars
<1>2. /\ p \in PoolIds /\ k \in Keys
      /\ \A d \in Callers : pc[d] = "load" /\ KeyOfCall(d) = k => d = c
  BY <1>1, OneLoader DEF ReloadTypeOK
<1>3. c \in AnswersOf(k)
  BY <1>1 DEF AnswersOf
<1>4. /\ \A d \in Callers : pc'[d] = IF d = c THEN "acquire" ELSE pc[d]
      /\ \A j \in Keys : pools'[j] = IF j = k THEN p ELSE pools[j]
      /\ \A q \in PoolIds : phase'[q] = IF q = p THEN "ready" ELSE phase[q]
      /\ keyOf[p] = k
  BY <1>1, <1>2 DEF ReloadTypeOK, TypeOK, KeyOfCall
<1>5. \A j : KeyOfCall(j)' = KeyOfCall(j) /\ IsCached(j)' = IsCached(j) /\ Promised(j)' = Promised(j)
  BY <1>1 DEF KeyOfCall, IsCached, Promised, reloadVars, loaderVars
<1> HIDE DEF k, p
<1>6. p = ref[c] /\ KeyOfCall(c) = k
  BY DEF k, p
<1>7. /\ \A j \in Keys : \A q \in ReadyOf(j)' : q \in ReadyOf(j) \/ (j = k /\ q = p)
      /\ \A j \in Keys : \A d \in AnswersOf(j)' : d \in AnswersOf(j) /\ j # k
  BY <1>1, <1>2, <1>4, <1>5, <1>6 DEF ReadyOf, AnswersOf, reloadVars, loaderVars
<1> USE DEF reloadVars, loaderVars
<1>8. FillingAgrees'
  BY <1>1, <1>4, <1>5 DEF FillingAgrees
<1>9. NothingAhead'
  BY <1>1, <1>3, <1>6, <1>7 DEF Order, NothingAhead
<1>10. InOrder'
  <2>1. \A q \in ReadyOf(k) : version[q] <= version[p]
    BY <1>2, <1>3, <1>6 DEF Order, InOrder
  <2>2. cache[k] # None => version[p] <= cache[k]
    BY <1>1, <1>2, <1>3, <1>6, Numbers DEF Order, InOrder
  <2>3. version[p] <= version[p]
    BY <1>2, Numbers
  <2>4. \A j \in Keys : \A q \in ReadyOf(j)' :
           /\ pools'[j] # None => version[q] <= version[pools'[j]]
           /\ cache[j] # None => version[q] <= cache[j]
    BY <1>4, <1>7, <2>1, <2>2, <2>3 DEF Order, InOrder
  <2>5. \A j \in Keys : \A d \in AnswersOf(j)' :
           /\ \A q \in ReadyOf(j)' : version[q] <= version[ref[d]]
           /\ filling[d] = "no" /\ cache[j] # None => cache[j] = version[ref[d]]
    BY <1>7 DEF Order, InOrder
  <2> QED
    BY <1>1, <2>4, <2>5 DEF InOrder
<1>11. HeardKept'
  BY <1>1, <1>3, <1>4, <1>5, <1>6, <1>7 DEF Order, HeardKept
<1>12. SinceKept'
  <2> SUFFICES ASSUME NEW d \in Callers, pc'[d] # "out", NEW l \in Promised(KeyOfCall(d))
               PROVE  /\ since[d][l] <= heard[KeyOfCall(d)][l]
                      /\ phase'[ref[d]] = "ready" => since[d][l] <= version[ref[d]]
    BY <1>1, <1>5 DEF SinceKept
  <2>1. pc[d] # "out" /\ ref[d] \in PoolIds /\ KeyOfCall(d) \in Keys
    BY <1>1, <1>4 DEF ReloadTypeOK, TypeOK, Keyed, KeyOfCall
  <2>2. since[d][l] <= heard[KeyOfCall(d)][l]
    BY <2>1 DEF Order, SinceKept
  <2>3. ref[d] = p => KeyOfCall(d) = k /\ heard[k][l] <= version[p]
    BY <1>2, <1>3, <1>6 DEF Order, HeardKept, KeyOfCall
  <2>4. l \in Levels
    BY Numbers
  <2>5. ref[d] = p => since[d][l] <= version[p]
    BY <1>2, <2>1, <2>2, <2>3, <2>4, Numbers
  <2> QED
    BY <1>4, <2>1, <2>2, <2>5 DEF Order, SinceKept
<1>13. InvalidatedIsClean'
  BY <1>1, <1>5 DEF Order, InvalidatedIsClean
<1> QED
  BY <1>8, <1>9, <1>10, <1>11, <1>12, <1>13 DEF Order

\* A call that begins sees at least what had been notified: the key's pool does,
\* and the pool of an entry in creation will, when it is loaded.
LEMMA OrderRun ==
    ASSUME ReloadTypeOK, Keyed, EntryInv, FillingAgrees, Order,
           NEW c \in Callers, NEW k \in Keys, RunNoting(c, k)
    PROVE  FillingAgrees' /\ Order'
<1> USE DEF callVars, mapVars, entryVars, poolVars, slotVars, waitVars, envVars, loaderVars
<1>1. /\ pc[c] = "out" /\ UNCHANGED <<pools, version, src, loaderVars, stage, heard>>
      /\ since' = [since EXCEPT ![c] = heard[k]]
  BY DEF RunNoting, Run, RunHit, RunJoin, RunCreate
<1>2. PICK p \in PoolIds :
         /\ ref' = [ref EXCEPT ![c] = p]
         /\ pc' = [pc EXCEPT ![c] = "acquire"] \/ pc' = [pc EXCEPT ![c] = "once"]
         /\ \A q \in PoolIds : keyOf'[q] = IF q = p THEN k ELSE keyOf[q]
         /\ \/ phase' = phase /\ keyOf[p] = k /\ (phase[p] = "ready" => pools[k] = p)
            \/ /\ phase' = [phase EXCEPT ![p] = "new"]
               /\ \A d \in Callers : ref[d] # p
               /\ \A j \in Keys : pools[j] # p
  <2>1. CASE RunHit(c, k)
    <3>1. /\ pools[k] \in PoolIds /\ keyOf[pools[k]] = k
          /\ ref' = [ref EXCEPT ![c] = pools[k]] /\ pc' = [pc EXCEPT ![c] = "acquire"]
          /\ UNCHANGED <<keyOf, phase>>
      BY <2>1 DEF RunHit, Goto, ReloadTypeOK, TypeOK, Keyed
    <3> QED
      BY <3>1
  <2>2. CASE RunJoin(c, k)
    <3>1. /\ creating[k] \in PoolIds /\ keyOf[creating[k]] = k
          /\ ref' = [ref EXCEPT ![c] = creating[k]] /\ pc' = [pc EXCEPT ![c] = "once"]
          /\ UNCHANGED <<keyOf, phase>>
      BY <2>2 DEF RunJoin, InCreation, Goto, ReloadTypeOK, TypeOK, Keyed
    <3>2. phase[creating[k]] = "ready" => pools[k] = creating[k]
      BY <2>2 DEF RunJoin, InCreation, EntryInv, MapsAgree
    <3> QED
      BY <3>1, <3>2
  <2>3. CASE RunCreate(c, k)
    <3> DEFINE p == CHOOSE q \in PoolIds \ UsedPools : TRUE
    <3>1. p \in PoolIds \ UsedPools
      BY <2>3 DEF RunCreate
    <3>2. /\ ref' = [ref EXCEPT ![c] = p] /\ pc' = [pc EXCEPT ![c] = "once"]
          /\ keyOf' = [keyOf EXCEPT ![p] = k] /\ phase' = [phase EXCEPT ![p] = "new"]
      BY <2>3 DEF RunCreate, Goto
    <3> HIDE DEF p
    <3>3. /\ \A d \in Callers : ref[d] # p
          /\ \A j \in Keys : pools[j] # p
      BY <3>1, NoneAssumption DEF UsedPools, Mapped
    <3> QED
      BY <3>1, <3>2, <3>3 DEF ReloadTypeOK, TypeOK
  <2> QED
    BY <2>1, <2>2, <2>3 DEF RunNoting, Run
<1>3. /\ \A d \in Callers \ {c} : ref'[d] = ref[d] /\ pc'[d] = pc[d] /\ since'[d] = since[d]
      /\ pc'[c] \in {"acquire", "once"} /\ ref'[c] = p /\ since'[c] = heard[k]
  BY <1>1, <1>2 DEF ReloadTypeOK, TypeOK
<1>4. \A d \in Callers \ {c} : pc[d] # "out" =>
         /\ ref[d] \in PoolIds /\ KeyOfCall(d)' = KeyOfCall(d) /\ KeyOfCall(d) \in Keys
         /\ phase'[ref[d]] = "ready" => phase[ref[d]] = "ready"
  BY <1>2, <1>3 DEF KeyOfCall, ReloadTypeOK, TypeOK, Keyed
<1>5. \A j \in Keys : \A q \in ReadyOf(j)' : q \in ReadyOf(j)
  BY <1>2 DEF ReadyOf, ReloadTypeOK, TypeOK
<1>6. \A j \in Keys : \A d \in AnswersOf(j)' : d \in AnswersOf(j) /\ d # c /\ ref'[d] = ref[d]
  BY <1>1, <1>3, <1>4 DEF AnswersOf
<1>7. FillingAgrees'
  BY <1>1, <1>3, <1>4 DEF FillingAgrees, IsCached
<1>8. NothingAhead'
  BY <1>1, <1>5, <1>6 DEF Order, NothingAhead
<1>9. InOrder'
  BY <1>1, <1>5, <1>6 DEF Order, InOrder
<1>10. HeardKept'
  BY <1>1, <1>6 DEF Order, HeardKept, Promised, IsCached
<1>11. SinceKept'
  <2>1. ASSUME NEW d \in Callers \ {c}, pc'[d] # "out", NEW l \in Promised(KeyOfCall(d)')
        PROVE  /\ since'[d][l] <= heard'[KeyOfCall(d)'][l]
               /\ phase'[ref'[d]] = "ready" => since'[d][l] <= version'[ref'[d]]
    <3>1. pc[d] # "out" /\ l \in Promised(KeyOfCall(d)) /\ KeyOfCall(d)' = KeyOfCall(d)
      BY <1>3, <1>4, <2>1 DEF Promised, IsCached
    <3> QED
      BY <1>1, <1>3, <1>4, <3>1 DEF Order, SinceKept
  <2>2. ASSUME NEW l \in Promised(k)
        PROVE  /\ since'[c][l] <= heard'[k][l]
               /\ phase'[p] = "ready" => since'[c][l] <= version'[p]
    <3>1. heard[k][l] \in Int
      BY Numbers
    <3>2. phase'[p] = "ready" => pools[k] = p
      BY <1>2 DEF ReloadTypeOK, TypeOK
    <3>3. phase'[p] = "ready" => heard[k][l] <= version[p]
      BY <3>2, NoneAssumption DEF Order, HeardKept
    <3> QED
      BY <1>1, <1>3, <3>1, <3>3
  <2>3. KeyOfCall(c)' = k
    BY <1>2, <1>3 DEF KeyOfCall
  <2>4. \A j : Promised(j)' = Promised(j)
    BY <1>1 DEF Promised, IsCached
  <2> QED
    BY <1>3, <2>1, <2>2, <2>3, <2>4 DEF SinceKept
<1>12. InvalidatedIsClean'
  BY <1>1, <1>3, <1>4 DEF Order, InvalidatedIsClean, FillingAgrees
<1> QED
  BY <1>7, <1>8, <1>9, <1>10, <1>11, <1>12 DEF Order

\* The source becomes newer; nobody has been told yet.
LEMMA OrderPublish ==
    ASSUME ReloadTypeOK, FillingAgrees, Order, NEW k \in Keys, PublishNew(k)
    PROVE  FillingAgrees' /\ Order'
<1> USE DEF callVars, mapVars, entryVars, envVars, loaderVars
<1>1. /\ UNCHANGED <<pc, ref, pools, keyOf, phase, version, loaderVars, heard, since>>
      /\ stage[k] = "quiet"
      /\ \A j \in Keys : /\ src'[j] = IF j = k THEN src[k] + 1 ELSE src[j]
                         /\ stage'[j] = IF j = k THEN "published" ELSE stage[j]
  BY DEF PublishNew, Publish, ReloadTypeOK, TypeOK
<1>2. \A j : /\ ReadyOf(j)' = ReadyOf(j) /\ AnswersOf(j)' = AnswersOf(j)
             /\ KeyOfCall(j)' = KeyOfCall(j)
             /\ Promised(j)' = Promised(j) /\ IsCached(j)' = IsCached(j)
  BY <1>1 DEF ReadyOf, AnswersOf, KeyOfCall, Promised, IsCached
<1>3. FillingAgrees'
  BY <1>1, <1>2 DEF FillingAgrees
<1>4. NothingAhead'
  <2>1. \A j \in Keys : \A n \in Int : n <= src[j] => n <= src'[j]
    BY <1>1, Numbers
  <2>2. \A j \in Keys : \A q \in ReadyOf(j) : q \in PoolIds
    BY DEF ReadyOf
  <2>3. \A j \in Keys : \A c \in AnswersOf(j) : ref[c] \in PoolIds
    BY DEF AnswersOf, ReloadTypeOK, TypeOK
  <2> QED
    BY <1>1, <1>2, <2>1, <2>2, <2>3, Numbers DEF Order, NothingAhead
<1>5. InOrder' /\ HeardKept' /\ SinceKept'
  BY <1>1, <1>2 DEF Order, InOrder, HeardKept, SinceKept
<1>6. InvalidatedIsClean'
  BY <1>1, <1>2 DEF Order, InvalidatedIsClean
<1> QED
  BY <1>3, <1>4, <1>5, <1>6 DEF Order

\* The cache forgets the key.
LEMMA OrderInvalidate ==
    ASSUME ReloadTypeOK, Keyed, FillingAgrees, Order, NEW k \in Keys, Invalidate(k)
    PROVE  FillingAgrees' /\ Order'
<1>1. /\ UNCHANGED <<vars, routes, filling, heard, since>>
      /\ \A j \in Keys : /\ cache'[j] = IF j = k THEN None ELSE cache[j]
                         /\ j # k => stage'[j] = stage[j]
      /\ stage'[k] = "invalidated" => OlderFetches(k) = {}
  BY DEF Invalidate, ForgetCached, ReloadTypeOK
<1> USE DEF vars, callVars, mapVars, entryVars, envVars
<1>2. \A j : /\ ReadyOf(j)' = ReadyOf(j) /\ AnswersOf(j)' = AnswersOf(j)
             /\ KeyOfCall(j)' = KeyOfCall(j)
             /\ Promised(j)' = Promised(j) /\ IsCached(j)' = IsCached(j)
  BY <1>1 DEF ReadyOf, AnswersOf, KeyOfCall, Promised, IsCached
<1>3. FillingAgrees'
  <2>1. \A c \in Callers : pc[c] = "load" => KeyOfCall(c) \in Keys
    BY DEF KeyOfCall, ReloadTypeOK, TypeOK, Keyed
  <2> QED
    BY <1>1, <1>2, <2>1 DEF FillingAgrees
<1>4. NothingAhead' /\ InOrder' /\ HeardKept' /\ SinceKept'
  BY <1>1, <1>2 DEF Order, NothingAhead, InOrder, HeardKept, SinceKept
<1>5. InvalidatedIsClean'
  <2>1. ASSUME stage'[k] = "invalidated", NEW c \in Callers, filling[c] = "fetched",
               KeyOfCall(c) = k
        PROVE  src[k] <= version[ref[c]]
    <3>1. ~(version[ref[c]] < src[k])
      BY <1>1, <2>1 DEF OlderFetches, OlderLoads, FillingAgrees
    <3>2. version[ref[c]] \in Int /\ src[k] \in Int
      <4>1. pc[c] = "load"
        BY <2>1 DEF FillingAgrees
      <4>2. ref[c] \in PoolIds
        BY <4>1 DEF ReloadTypeOK, TypeOK
      <4> QED
        BY <4>2, Numbers
    <3> QED
      BY <3>1, <3>2
  <2> QED
    BY <1>1, <1>2, <2>1 DEF Order, InvalidatedIsClean
<1> QED
  BY <1>3, <1>4, <1>5 DEF Order

\* A notification leaves the key without a pool of another version.
LEMMA NotifiedPool ==
    ASSUME TypeOK, NEW k \in Keys, NEW v, NotifyOf(k, v)
    PROVE  /\ UNCHANGED <<pc, ref, keyOf, phase, version, src>>
           /\ \A j \in Keys \ {k} : pools'[j] = pools[j]
           /\ pools'[k] = None \/ (pools'[k] = pools[k] /\ version[pools[k]] = v)
<1>1. CASE Notify(k, v)
  BY <1>1 DEF Notify, callVars, entryVars, envVars, TypeOK
<1>2. CASE UNCHANGED vars /\ (pools[k] # None => version[pools[k]] = v)
  BY <1>2 DEF vars, callVars, mapVars, entryVars, envVars
<1> QED
  BY <1>1, <1>2 DEF NotifyOf

\* What it promises it may promise: the pool, the cache and the answers under
\* way are of no older source.
LEMMA OrderNotify ==
    ASSUME ReloadTypeOK, Keyed, EntryInv, FillingAgrees, Order, NEW k \in Keys, NotifyNew(k)
    PROVE  FillingAgrees' /\ Order'
<1>1. /\ UNCHANGED <<pc, ref, keyOf, phase, version, src, loaderVars, since>>
      /\ \A j \in Keys \ {k} : pools'[j] = pools[j]
      /\ pools'[k] = None \/ (pools'[k] = pools[k] /\ version[pools[k]] = src[k])
  BY NotifiedPool DEF NotifyNew, ReloadTypeOK
<1>2. /\ stage[k] \in (IF IsCached(k) THEN {"invalidated", "raced"} ELSE {"published"})
      /\ stage'[k] = "quiet"
      /\ \A j \in Keys \ {k} : stage'[j] = stage[j] /\ heard'[j] = heard[j]
      /\ \A l \in Levels : heard'[k][l] = IF l \in LevelsReached(k) THEN src[k] ELSE heard[k][l]
  BY DEF NotifyNew, ReloadTypeOK
<1> USE DEF loaderVars
<1>3. \A j : /\ ReadyOf(j)' = ReadyOf(j) /\ AnswersOf(j)' = AnswersOf(j)
             /\ KeyOfCall(j)' = KeyOfCall(j)
             /\ Promised(j)' = Promised(j) /\ IsCached(j)' = IsCached(j)
  BY <1>1 DEF ReadyOf, AnswersOf, KeyOfCall, Promised, IsCached
<1>4. \A j \in Keys : \A l \in Levels :
         heard[j][l] <= heard'[j][l] /\ heard'[j][l] <= src[j]
  <2>1. \A j \in Keys : \A l \in Levels :
           heard[j][l] <= src[j] /\ heard[j][l] \in Int /\ src[j] \in Int
    BY Numbers DEF Order, NothingAhead
  <2> QED
    BY <1>2, <2>1
<1>5. FillingAgrees'
  BY <1>1, <1>3 DEF FillingAgrees
<1>6. NothingAhead'
  BY <1>1, <1>3, <1>4 DEF Order, NothingAhead
<1>7. InOrder'
  <2>1. \A j \in Keys : pools'[j] # None => pools'[j] = pools[j]
    BY <1>1
  <2> QED
    BY <1>1, <1>3, <2>1 DEF Order, InOrder
<1>8. HeardKept'
  <2>1. ASSUME NEW l \in Promised(k), l \notin LevelsReached(k)
        PROVE  /\ heard'[k][l] = heard[k][l]
    BY <1>2, <2>1, Numbers
  <2>2. ASSUME NEW l \in Promised(k), l \in LevelsReached(k)
        PROVE  /\ heard'[k][l] = src[k]
               /\ pools'[k] # None => src[k] <= version[pools'[k]]
               /\ cache[k] # None => src[k] <= cache[k]
               /\ \A c \in AnswersOf(k) : src[k] <= version[ref[c]]
    <3>1. heard'[k][l] = src[k] /\ src[k] \in Int
      BY <1>2, <2>2, Numbers
    <3>2. l # "any" /\ OlderLoads(k) = {} /\ (l = "clean" => stage[k] # "raced")
      BY <2>2 DEF Promised, LevelsReached
    <3>3. cache[k] # None => src[k] <= cache[k]
      <4>1. CASE IsCached(k)
        BY <1>2, <2>2, <3>2, <4>1 DEF Promised, Order, InvalidatedIsClean
      <4>2. CASE ~IsCached(k)
        BY <4>2 DEF IsCached, FillingAgrees
      <4> QED
        BY <4>1, <4>2
    <3>4. ASSUME NEW c \in AnswersOf(k) PROVE src[k] <= version[ref[c]]
      <4>1. ~(version[ref[c]] < src[k])
        BY <3>2, <3>4 DEF OlderLoads, AnswersOf
      <4>2. version[ref[c]] \in Int
        <5>1. ref[c] \in PoolIds
          BY <3>4 DEF AnswersOf, ReloadTypeOK, TypeOK
        <5> QED
          BY <5>1, Numbers
      <4> QED
        BY <3>1, <4>1, <4>2
    <3> QED
      BY <1>1, <3>1, <3>3, <3>4
  <2>3. \A l \in Promised(k) :
           /\ pools'[k] # None => heard'[k][l] <= version[pools'[k]]
           /\ cache[k] # None => heard'[k][l] <= cache[k]
           /\ \A c \in AnswersOf(k) : heard'[k][l] <= version[ref[c]]
    BY <1>1, <2>1, <2>2 DEF Order, HeardKept
  <2> QED
    BY <1>1, <1>2, <1>3, <2>3 DEF Order, HeardKept
<1>9. SinceKept'
  <2> SUFFICES ASSUME NEW c \in Callers, pc[c] # "out", NEW l \in Promised(KeyOfCall(c))
               PROVE  since[c][l] <= heard'[KeyOfCall(c)][l]
    BY <1>1, <1>3 DEF Order, SinceKept
  <2>1. KeyOfCall(c) \in Keys /\ l \in Levels
    BY Numbers DEF KeyOfCall, ReloadTypeOK, TypeOK, Keyed
  <2>2. since[c][l] <= heard[KeyOfCall(c)][l]
    BY DEF Order, SinceKept
  <2>3. /\ since[c][l] \in Int /\ heard[KeyOfCall(c)][l] \in Int /\ src[KeyOfCall(c)] \in Int
        /\ heard'[KeyOfCall(c)][l] \in {heard[KeyOfCall(c)][l], src[KeyOfCall(c)]}
    BY <1>2, <2>1, Numbers
  <2> QED
    BY <1>4, <2>1, <2>2, <2>3
<1>10. InvalidatedIsClean'
  BY <1>1, <1>2, <1>3 DEF Order, InvalidatedIsClean
<1> QED
  BY <1>5, <1>6, <1>7, <1>8, <1>9, <1>10 DEF Order

\* The rest of the Runtime brings no version anywhere.
LEMMA OrderOther ==
    ASSUME ReloadTypeOK, Keyed, EntryInv, FillingAgrees, Order, OtherStep
    PROVE  FillingAgrees' /\ Order'
<1> USE DEF callVars, mapVars, entryVars, poolVars, slotVars, waitVars, envVars,
            reloadVars, loaderVars, ReloadTypeOK
<1>0. UNCHANGED reloadVars
  BY DEF OtherStep
<1>1. \A c \in Callers : filling[c] # "no" => pc[c] = "load"
  BY DEF FillingAgrees
<1>2. ASSUME NEW c \in Callers, RunClosed(c) \/ CtxDone(c) PROVE FillingAgrees' /\ Order'
  BY <1>0, <1>1, <1>2, OrderQuiet DEF RunClosed, CtxDone, Goto, vars, TypeOK
<1>3. ASSUME NEW c \in Callers, LoadFails(c) PROVE FillingAgrees' /\ Order'
  BY <1>0, <1>1, <1>3, OrderQuiet DEF LoadFails, TypeOK
<1>4. ASSUME NEW c \in Callers, OnceReturn(c) \/ OnceFailed(c) PROVE FillingAgrees' /\ Order'
  BY <1>0, <1>1, <1>4, OrderQuiet DEF OnceReturn, OnceFailed, Return, Goto, TypeOK
<1>5. ASSUME NEW c \in Callers, AcquireStep(c) PROVE FillingAgrees' /\ Order'
  <2>1. /\ UNCHANGED <<keyOf, version, src, pools, phase>> /\ pc[c] \in {"acquire", "wait", "bail"}
        /\ \/ UNCHANGED <<pc, ref>>
           \/ ref' = ref /\ \E l \in {"run", "build", "wait", "acquire"} : pc' = [pc EXCEPT ![c] = l]
           \/ pc' = [pc EXCEPT ![c] = "out"]
              /\ ref' = [ref EXCEPT ![c] = None]
    BY <1>5 DEF AcquireStep, AcquireClosed, Reuse, Reserve, Evict, MayClaim, Enqueue, TakeGrant,
                Bail, WaitClosed, Return, Goto
  <2> QED
    BY <1>0, <1>1, <2>1, OrderQuiet DEF TypeOK
<1>6. ASSUME NEW c \in Callers, BuildStep(c) \/ Release(c) PROVE FillingAgrees' /\ Order'
  BY <1>0, <1>1, <1>6, OrderQuiet DEF BuildStep, BuildDone, BuildFails, Release, Return, Goto, TypeOK
<1>7. CASE SweepStart \/ Close \/ Tick
  BY <1>0, <1>1, <1>7, OrderQuiet DEF SweepStart, Close, Tick
<1>8. CASE Sweep
  BY <1>0, <1>1, <1>8, OrderQuiet DEF Sweep
<1> QED
  BY <1>2, <1>3, <1>4, <1>5, <1>6, <1>7, <1>8 DEF OtherStep

\* The loads.
LEMMA OrderLoads ==
    ASSUME ReloadTypeOK, Keyed, EntryInv, FillingAgrees, Order, TypeOK', Keyed', EntryInv',
           NEW c \in Callers, LoadDirect(c) \/ LoadHit(c) \/ LoadMiss(c) \/ Fetch(c)
    PROVE  FillingAgrees' /\ Order'
<1> DEFINE p == ref[c]
           k == KeyOfCall(c)
<1> USE DEF callVars, mapVars, entryVars, envVars, reloadVars, loaderVars
<1>1. p \in PoolIds /\ k \in Keys /\ keyOf[p] = k /\ phase[p] \in {"new", "loading"}
  <2>1. CASE pc[c] = "load"
    BY <2>1, OneLoader DEF KeyOfCall, ReloadTypeOK
  <2>2. CASE pc[c] = "once" /\ phase[ref[c]] = "new"
    BY <2>2 DEF KeyOfCall, ReloadTypeOK, TypeOK, Keyed
  <2> QED
    BY <2>1, <2>2 DEF LoadDirect, LoadSource, LoadHit, LoadMiss, LoadAnswer, Fetch, FillingAgrees
<1> HIDE DEF k, p
<1>2. p = ref[c] /\ k = KeyOfCall(c) /\ k = keyOf[ref[c]]
  BY <1>1 DEF k, p
<1>3. ASSUME NEW v, LoadAnswer(c, v)
      PROVE  /\ pc[c] = "once" /\ UNCHANGED <<ref, pools, keyOf, src>>
             /\ \A d \in Callers : pc'[d] = IF d = c THEN "load" ELSE pc[d]
             /\ \A q \in PoolIds : /\ phase'[q] = IF q = p THEN "loading" ELSE phase[q]
                                   /\ version'[q] = IF q = p THEN v ELSE version[q]
  BY <1>2, <1>3 DEF LoadAnswer, Goto, ReloadTypeOK, TypeOK
<1>4. pc[c] = "once" => filling[c] = "no"
  BY DEF FillingAgrees
<1>5. CASE LoadDirect(c)
  <2>1. LoadAnswer(c, src[k]) /\ UNCHANGED reloadVars /\ cache[k] = None
    BY <1>1, <1>2, <1>5 DEF LoadDirect, LoadSource, IsCached, FillingAgrees
  <2>2. \A d \in Callers : filling'[d] = IF d = c THEN "no" ELSE filling[d]
    BY <1>3, <1>4, <2>1
  <2> QED
    BY <1>1, <1>2, <1>3, <2>1, <2>2, OrderLoad
<1>6. CASE LoadHit(c)
  <2>1. LoadAnswer(c, cache[k]) /\ UNCHANGED reloadVars /\ cache[k] # None
    BY <1>2, <1>6 DEF LoadHit
  <2>2. \A d \in Callers : filling'[d] = IF d = c THEN "no" ELSE filling[d]
    BY <1>3, <1>4, <2>1
  <2> QED
    BY <1>1, <1>2, <1>3, <2>1, <2>2, OrderLoad
<1>7. CASE LoadMiss(c)
  <2>1. /\ LoadAnswer(c, version[p]) /\ UNCHANGED <<routes, cache, stage, heard, since>>
        /\ IsCached(k) /\ cache[k] = None
    BY <1>2, <1>7 DEF LoadMiss
  <2>2. \A d \in Callers : filling'[d] = IF d = c THEN "miss" ELSE filling[d]
    BY <1>7 DEF LoadMiss, ReloadTypeOK
  <2> QED
    BY <1>1, <1>2, <1>3, <2>1, <2>2, OrderLoad
<1>8. CASE Fetch(c)
  <2>1. /\ pc[c] = "load" /\ IsCached(k) /\ cache[k] = None
        /\ UNCHANGED <<pc, phase, ref, pools, keyOf, src, routes, cache, stage, heard, since>>
        /\ \A q \in PoolIds : version'[q] = IF q = p THEN src[k] ELSE version[q]
        /\ \A d \in Callers : filling'[d] = IF d = c THEN "fetched" ELSE filling[d]
    <3>1. pc[c] = "load" /\ IsCached(k) /\ cache[k] = None
      BY <1>2, <1>8 DEF Fetch, FillingAgrees
    <3>2. UNCHANGED <<pc, phase, ref, pools, keyOf, src, routes, cache, stage, heard, since>>
      BY <1>8 DEF Fetch
    <3>3. \A q \in PoolIds : version'[q] = IF q = p THEN src[k] ELSE version[q]
      BY ZenonT(60), <1>2, <1>8 DEF Fetch, ReloadTypeOK, TypeOK
    <3>4. \A d \in Callers : filling'[d] = IF d = c THEN "fetched" ELSE filling[d]
      BY <1>8 DEF Fetch, ReloadTypeOK
    <3> QED
      BY <3>1, <3>2, <3>3, <3>4
  <2>2. phase[p] = "loading"
    BY <1>2, <2>1, OneLoader DEF ReloadTypeOK
  <2> QED
    BY <1>1, <1>2, <2>1, <2>2, OrderLoad
<1> QED
  BY <1>5, <1>6, <1>7, <1>8

\* Every step keeps the order.
LEMMA OrderStep ==
    ASSUME ReloadTypeOK, Keyed, EntryInv, FillingAgrees, Order,
           [ReloadNext]_<<vars, reloadVars>>, TypeOK', Keyed', EntryInv'
    PROVE  FillingAgrees' /\ Order'
<1>1. CASE UNCHANGED <<vars, reloadVars>>
  BY <1>1, OrderQuiet DEF vars, callVars, mapVars, entryVars, envVars, reloadVars, loaderVars,
                          FillingAgrees, ReloadTypeOK
<1>2. ASSUME NEW c \in Callers, LoadStep(c) PROVE FillingAgrees' /\ Order'
  <2>1. CASE LoadFailsLate(c)
    <3>1. /\ UNCHANGED <<ref, pools, keyOf, version, src, routes, cache, stage, heard, since>>
          /\ pc[c] = "load"
          /\ \A d \in Callers : /\ pc'[d] = IF d = c THEN "once" ELSE pc[d]
                                /\ filling'[d] = IF d = c THEN "no" ELSE filling[d]
          /\ \A q \in PoolIds : phase'[q] = "ready" => phase[q] = "ready"
      BY <2>1 DEF LoadFailsLate, Goto, mapVars, envVars, ReloadTypeOK, TypeOK
    <3>2. \A d \in Callers : filling[d] # "no" => pc[d] = "load"
      BY DEF FillingAgrees
    <3> QED
      BY <3>1, <3>2, OrderQuiet DEF ReloadTypeOK
  <2> QED
    BY <1>2, <2>1, OrderLoads, OrderFill, OrderRegister DEF LoadStep
<1>3. ASSUME NEW k \in Keys, NEW v \in Versions, NotifyAgain(k, v) PROVE FillingAgrees' /\ Order'
  <2>1. /\ UNCHANGED <<pc, ref, keyOf, phase, version, src, reloadVars>>
        /\ \A j \in Keys : pools'[j] \in {pools[j], None}
    BY <1>3, NotifiedPool DEF NotifyAgain, ReloadTypeOK
  <2>2. \A d \in Callers : filling[d] # "no" => pc[d] = "load"
    BY DEF FillingAgrees
  <2> QED
    BY <2>1, <2>2, OrderQuiet DEF reloadVars, loaderVars, ReloadTypeOK
<1> QED
  BY <1>1, <1>2, <1>3, OrderRun, OrderPublish, OrderInvalidate, OrderNotify, OrderOther
     DEF ReloadNext

\* And every step keeps the versions of the States.
LEMMA StatesKept ==
    ASSUME ReloadTypeOK, Keyed, EntryInv, FillingAgrees, VersionsAgree,
           [ReloadNext]_<<vars, reloadVars>>
    PROVE  VersionsAgree'
<1> USE DEF callVars, mapVars, poolVars, ReloadTypeOK
<1>1. ASSUME NEW c \in Callers, NEW v, LoadAnswer(c, v) PROVE VersionsAgree'
  <2>1. ref[c] \in PoolIds /\ phase[ref[c]] = "new"
    BY <1>1 DEF LoadAnswer, TypeOK
  <2> QED
    BY <1>1, <2>1, VersionsLoad DEF LoadAnswer, TypeOK
<1>2. ASSUME NEW c \in Callers, Fetch(c) PROVE VersionsAgree'
  <2>1. ref[c] \in PoolIds /\ phase[ref[c]] = "loading"
    BY <1>2, OneLoader DEF Fetch, FillingAgrees
  <2> QED
    BY <1>2, <2>1, VersionsLoad DEF Fetch
<1>3. ASSUME NEW c \in Callers, LoadFailsLate(c) PROVE VersionsAgree'
  <2>1. ref[c] \in PoolIds /\ phase[ref[c]] = "loading"
    BY <1>3, OneLoader DEF LoadFailsLate
  <2> QED
    BY <1>3, <2>1, VersionsQuiet DEF LoadFailsLate, TypeOK
<1>4. CASE \A c \in Callers : ~CacheStep(c)
  BY <1>4, ReloadIsRuntime, VersionsStep
<1> QED
  BY <1>1, <1>2, <1>3, <1>4 DEF CacheStep, LoadHit, LoadMiss

\* The types of the loader, the publisher and the histories.
LEMMA ReloadTypeStep ==
    ASSUME ReloadTypeOK, Keyed, EntryInv, FillingAgrees, TypeOK', [ReloadNext]_<<vars, reloadVars>>
    PROVE  ReloadTypeOK'
<1> USE DEF ReloadTypeOK, reloadVars, loaderVars
<1>1. CASE UNCHANGED reloadVars
  BY <1>1
<1>2. ASSUME NEW c \in Callers, LoadMiss(c) \/ Fetch(c) \/ LoadFailsLate(c) PROVE ReloadTypeOK'
  BY <1>2 DEF LoadMiss, Fetch, LoadFailsLate
<1>3. ASSUME NEW c \in Callers, Fill(c) PROVE ReloadTypeOK'
  <2>1. ref[c] \in PoolIds
    BY <1>3, OneLoader DEF Fill, FillingAgrees
  <2>2. version[ref[c]] \in Versions
    BY <2>1 DEF TypeOK
  <2> QED
    BY <1>3, <2>2 DEF Fill
<1>4. ASSUME NEW c \in Callers, NEW k \in Keys, RunNoting(c, k) PROVE ReloadTypeOK'
  BY <1>4 DEF RunNoting
<1>5. ASSUME NEW k \in Keys, PublishNew(k) PROVE ReloadTypeOK'
  BY <1>5 DEF PublishNew
<1>6. ASSUME NEW k \in Keys, Invalidate(k) PROVE ReloadTypeOK'
  BY <1>6 DEF Invalidate, ForgetCached
<1>7. ASSUME NEW k \in Keys, NotifyNew(k) PROVE ReloadTypeOK'
  <2>1. [l \in Levels |-> IF l \in LevelsReached(k) THEN src[k] ELSE heard[k][l]]
           \in [Levels -> Versions]
    BY DEF TypeOK
  <2> QED
    BY <1>7, <2>1 DEF NotifyNew
<1> QED
  BY <1>1, <1>2, <1>3, <1>4, <1>5, <1>6, <1>7
     DEF ReloadNext, LoadStep, LoadDirect, LoadHit, RegisterLoaded, NotifyAgain, OtherStep

(***************************************************************************)
(* The theorems.                                                           *)
(***************************************************************************)

\* The invariant holds of the Runtime, its loader and its publishers.
THEOREM FreshInvariant == ReloadSpec => []FreshInv
<1>1. ReloadInit => FreshInv
  <2> SUFFICES ASSUME ReloadInit PROVE FreshInv
    OBVIOUS
  <2>1. TypeOK /\ Keyed
    BY TypeInit DEF ReloadInit
  <2>2. EntryInv
    BY DEF ReloadInit, Init, EntryInv, OnceAgrees, LoadingCurrent, MapsAgree, PastGetPool
  <2>3. 0 \in Versions
    BY ConfigAssumption DEF Versions
  <2>4. ReloadTypeOK
    BY <2>1, <2>3 DEF ReloadInit, ReloadTypeOK
  <2>5. /\ \A k \in Keys : pools[k] = None /\ cache[k] = None /\ stage[k] = "quiet" /\ src[k] = 0
        /\ \A k \in Keys : \A l \in Levels : heard[k][l] = 0
        /\ \A c \in Callers : pc[c] = "out" /\ held[c] = None /\ filling[c] = "no"
        /\ \A p \in PoolIds : phase[p] = "new" /\ idle[p] = <<>>
    BY DEF ReloadInit, Init
  <2>6. \A k : ReadyOf(k) = {} /\ AnswersOf(k) = {}
    BY <2>5 DEF ReadyOf, AnswersOf
  <2>7. FillingAgrees /\ VersionsAgree
    BY <2>5 DEF FillingAgrees, VersionsAgree, Holding
  <2>8. Order
    BY <2>5, <2>6 DEF Order, NothingAhead, InOrder, HeardKept, SinceKept, InvalidatedIsClean
  <2> QED
    BY <2>1, <2>2, <2>4, <2>7, <2>8 DEF FreshInv
<1>2. FreshInv /\ [ReloadNext]_<<vars, reloadVars>> => FreshInv'
  <2> SUFFICES ASSUME FreshInv, [ReloadNext]_<<vars, reloadVars>> PROVE FreshInv'
    OBVIOUS
  <2>1. TypeOK' /\ Keyed' /\ EntryInv'
    BY EntriesKept DEF FreshInv
  <2>2. ReloadTypeOK'
    BY <2>1, ReloadTypeStep DEF FreshInv
  <2>3. VersionsAgree'
    BY StatesKept DEF FreshInv
  <2>4. FillingAgrees' /\ Order'
    BY <2>1, OrderStep DEF FreshInv
  <2> QED
    BY <2>1, <2>2, <2>3, <2>4 DEF FreshInv
<1> QED
  BY <1>1, <1>2, PTL DEF ReloadSpec

\* A script runs on the version of its call's pool, which is no older than the
\* promised notifications before the call.
LEMMA RunsFresh ==
    ASSUME FreshInv, NEW c \in Holding, NEW l \in Promised(KeyOfCall(c))
    PROVE  held[c].version >= since[c][l]
<1>1. /\ pc[c] = "run" /\ ref[c] \in PoolIds /\ phase[ref[c]] = "ready"
      /\ held[c].version = version[ref[c]]
  BY DEF Holding, FreshInv, ReloadTypeOK, TypeOK, EntryInv, OnceAgrees, PastGetPool, VersionsAgree
<1>2. since[c][l] <= version[ref[c]]
  BY <1>1 DEF Holding, FreshInv, Order, SinceKept
<1>3. since[c][l] \in Int /\ version[ref[c]] \in Int
  BY <1>1, Numbers DEF FreshInv, Holding
<1> QED
  BY <1>1, <1>2, <1>3

\* Of a key that no cache serves, a notification that meets no load of an older
\* source in flight keeps every later call off the older source.
THEOREM NotifiedCallsAreFresh == ReloadSpec => []ApartIsFresh
<1>1. FreshInv => ApartIsFresh
  BY RunsFresh DEF ApartIsFresh, Fresh, Promised, IsCached
<1> QED
  BY <1>1, FreshInvariant, PTL

\* Of any key, it does if the invalidation before it met no fetch of an older
\* source either.
THEOREM CleanCallsAreFresh == ReloadSpec => []CleanIsFresh
<1>1. FreshInv => CleanIsFresh
  BY RunsFresh DEF CleanIsFresh, Fresh, Promised
<1> QED
  BY <1>1, FreshInvariant, PTL

\* No notification, late or repeated, and no cached answer makes an older pool
\* the key's current one.
THEOREM NoPoolGoesBack == ReloadSpec => []CurrentIsNewest
<1>1. FreshInv => CurrentIsNewest
  <2>1. TypeOK => UsedPools \subseteq PoolIds
    BY DEF TypeOK, UsedPools, Mapped
  <2> QED
    BY <2>1 DEF FreshInv, ReloadTypeOK, Order, InOrder, ReadyOf, CurrentIsNewest
<1> QED
  BY <1>1, FreshInvariant, PTL

\* The cache serves nothing older than the last notification whose invalidation
\* met no fetch in flight.
THEOREM CacheStaysFresh == ReloadSpec => []CachedIsFresh
<1>1. FreshInv => CachedIsFresh
  <2> SUFFICES ASSUME FreshInv, NEW k \in Keys, cache[k] # None
               PROVE  cache[k] >= heard[k]["clean"]
    BY DEF CachedIsFresh
  <2>1. "clean" \in Promised(k) /\ "clean" \in Levels
    BY DEF Promised, Levels
  <2>2. heard[k]["clean"] <= cache[k]
    BY <2>1 DEF FreshInv, Order, HeardKept
  <2>3. cache[k] \in Int /\ heard[k]["clean"] \in Int
    BY <2>1, Numbers DEF FreshInv
  <2> QED
    BY <2>2, <2>3
<1> QED
  BY <1>1, FreshInvariant, PTL
=============================================================================
