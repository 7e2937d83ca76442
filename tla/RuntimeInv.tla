----------------------------- MODULE RuntimeInv -----------------------------
(***************************************************************************)
(* The parts of the inductive invariant of Runtime: what getPool, acquire, *)
(* release and the retirement of pools keep true of each other's state.    *)
(* RuntimeProofs proves them; TLC checks them on the runs' instances.      *)
(***************************************************************************)
EXTENDS Runtime

\* The two maps file a pool under its own key, and a caller's pool has one.
Keyed ==
    /\ \A k \in Keys : pools[k] # None => keyOf[pools[k]] = k
    /\ \A k \in Keys : creating[k] # None => keyOf[creating[k]] = k
    /\ \A c \in Callers : ref[c] # None => keyOf[ref[c]] \in Keys

\* A caller past getPool works on a pool that exists.
PastGetPool == {"acquire", "wait", "bail", "build", "run"}

\* A caller's place in getPool agrees with the entry's once; one caller loads it.
OnceAgrees ==
    /\ \A c \in Callers : pc[c] = "load" => phase[ref[c]] = "loading"
    /\ \A c, d \in Callers :
          pc[c] = "load" /\ pc[d] = "load" /\ ref[c] = ref[d] => c = d
    /\ \A c \in Callers : pc[c] \in PastGetPool => phase[ref[c]] = "ready"

\* While an entry is being loaded it is the key's entry and the key has no
\* pool.
Loading(p) == phase[p] \in {"new", "loading"}

LoadingCurrent ==
    \A c \in Callers : ref[c] # None /\ Loading(ref[c]) =>
        /\ creating[keyOf[ref[c]]] = ref[c]
        /\ pools[keyOf[ref[c]]] = None
        /\ ~dropped[ref[c]]

\* The pools of the map are loaded and not dropped, and creating agrees.
MapsAgree ==
    /\ \A k \in Keys : pools[k] # None => phase[pools[k]] = "ready" /\ ~dropped[pools[k]]
    /\ \A k \in Keys : creating[k] # None /\ phase[creating[k]] = "ready" =>
          pools[k] = creating[k]
    /\ \A k \in Keys : creating[k] # None /\ Loading(creating[k]) => ~dropped[creating[k]]

\* What getPool keeps true of the entries, whatever the janitor retires.
EntryInv == OnceAgrees /\ LoadingCurrent /\ MapsAgree

\* A pool that a caller refers to is its key's until it is dropped; not so if
\* the janitor retires it meanwhile.
ReadyCurrent ==
    \A c \in Callers : ref[c] # None /\ phase[ref[c]] = "ready" /\ ~dropped[ref[c]] =>
        pools[keyOf[ref[c]]] = ref[c]

\* The life of an entry.
EntryLife == EntryInv /\ ReadyCurrent

\* Of the pools something refers to, only those of the map have idle States;
\* a closed Runtime's have none.
IdleOnlyInMap ==
    /\ \A p \in UsedPools \ Mapped : idle[p] = <<>>
    /\ closed => \A p \in Mapped : idle[p] = <<>>

\* A State has one owner: a caller, or one place of one pool of the map.
OneOwner ==
    /\ \A c, d \in Holding : held[c].L = held[d].L => c = d
    /\ \A p, q \in Mapped : \A i \in DOMAIN idle[p], j \in DOMAIN idle[q] :
          idle[p][i].L = idle[q][j].L => p = q /\ i = j
    /\ \A c \in Holding, p \in Mapped : \A i \in DOMAIN idle[p] :
          held[c].L # idle[p][i].L

\* The open States are exactly those that have an owner.
OpenIsOwned ==
    /\ HeldStates \subseteq open
    /\ \A p \in Mapped : \A i \in DOMAIN idle[p] : idle[p][i].L \in open
    /\ \A L \in open : \/ L \in HeldStates
                       \/ \E p \in Mapped : \E i \in DOMAIN idle[p] : idle[p][i].L = L

\* live counts the open States and the reserved slots, and never exceeds the cap.
LiveCounts ==
    /\ live = Cardinality(open) + Cardinality(Building)
    /\ live <= MaxStates

\* The wait queue of an open Runtime: each waiter is queued once, or has its
\* hand-off, and is still in acquire.
InQueue(c) == \E i \in DOMAIN waiters : waiters[i] = c

QueueInv ==
    ~closed =>
        /\ \A i, j \in DOMAIN waiters : waiters[i] = waiters[j] => i = j
        /\ \A c \in Callers : InQueue(c) => pc[c] \in {"wait", "bail"} /\ c \notin signalled
        /\ \A c \in signalled : pc[c] \in {"wait", "bail"}

\* What getPool, acquire, release, Notify and Close maintain together.
SafetyInv ==
    /\ Keyed /\ EntryLife /\ IdleOnlyInMap
    /\ OneOwner /\ OpenIsOwned /\ LiveCounts
    /\ QueueInv

\* The inductive invariant of ApartSpec: the entries and the maps agree, each
\* State has one owner, live counts them, and the wait queue is in order.
IInv == TypeOK /\ SafetyInv

\* What the janitor's race leaves of this.  Only loaded pools that are not dropped
\* have idle States, and a State is of its pool's version...
PoolStates ==
    /\ \A p \in PoolIds : dropped[p] \/ phase[p] # "ready" => idle[p] = <<>>
    /\ \A p \in PoolIds : \A i \in DOMAIN idle[p] : idle[p][i].version = version[p]
    /\ \A c \in Holding : held[c].version = version[ref[c]]

\* ... and the States of pools that the janitor has not retired are open.
KeptOpen ==
    /\ \A c \in Holding : ref[c] \in Mapped \/ dropped[ref[c]] => held[c].L \in open
    /\ \A p \in Mapped : \A i \in DOMAIN idle[p] : idle[p][i].L \in open

\* The callers that hold a slot or are being handed one.
Claimants == InUse \cup GrantsInFlight

\* While others are queued they are at least as many as there are slots.
AllClaimed ==
    waiters # <<>> /\ ~closed => MaxStates <= Cardinality(Claimants)
=============================================================================
