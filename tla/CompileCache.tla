---------------------------- MODULE CompileCache ----------------------------
(***************************************************************************)
(* CompileCache (loader.go; cmd/multi-script has a copy of its own): an    *)
(* entry for each key is made under the lock, and the entry's sync.Once    *)
(* compiles outside of it.  Results, errors too, are kept for ever.        *)
(***************************************************************************)
EXTENDS Integers, FiniteSets

CONSTANTS
    Users,        \* goroutines
    Keys,         \* cache keys
    Sources,      \* script sources
    Bad           \* those that do not compile

\* Results: what a source compiles to stands for its Proto.
Error == "error"
Pending == "pending"

ASSUME CacheAssumption ==
    /\ Users \cap {"absent", "fresh", "done"} = {}
    /\ Sources \cap {Error, Pending} = {}

VARIABLES
    once,         \* cacheEntry.once: absent, fresh, the user who runs it, or done
    res,          \* cacheEntry.res
    compiles      \* how often each key was compiled

cacheVars == <<once, res, compiles>>

CacheInit ==
    /\ once = [k \in Keys |-> "absent"]
    /\ res = [k \in Keys |-> Pending]
    /\ compiles = [k \in Keys |-> 0]

\* Mutant: an entry is made whether there is one or not.
MakeEntry(k) ==
    /\ once' = [once EXCEPT ![k] = "fresh"]
    /\ UNCHANGED <<res, compiles>>

\* The section under mu.
FindEntry(k) ==
    /\ once' = IF once[k] = "absent" THEN [once EXCEPT ![k] = "fresh"] ELSE once
    /\ UNCHANGED <<res, compiles>>

\* once.Do: the first one compiles; the others wait until it is done.
BeginOnce(u, k) ==
    /\ once[k] = "fresh"
    /\ once' = [once EXCEPT ![k] = u]
    /\ compiles' = [compiles EXCEPT ![k] = @ + 1]
    /\ UNCHANGED res

\* Mutant: an error leaves the once open.
EndOnceIfGood(u, k, src) ==
    /\ once[k] = u
    /\ once' = IF src \in Bad THEN once ELSE [once EXCEPT ![k] = "done"]
    /\ res' = [res EXCEPT ![k] = IF src \in Bad THEN Error ELSE src]
    /\ UNCHANGED compiles

EndOnce(u, k, src) ==
    /\ once[k] = u
    /\ once' = [once EXCEPT ![k] = "done"]
    /\ res' = [res EXCEPT ![k] = IF src \in Bad THEN Error ELSE src]
    /\ UNCHANGED compiles

PassOnce(k) == once[k] = "done" /\ UNCHANGED cacheVars

CacheTypeOK ==
    /\ once \in [Keys -> {"absent", "fresh", "done"} \cup Users]
    /\ res \in [Keys -> (Sources \ Bad) \cup {Error, Pending}]
    /\ compiles \in [Keys -> Nat]

=============================================================================
