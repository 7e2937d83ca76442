------------------------------ MODULE Convert -------------------------------
(***************************************************************************)
(* RunValues (convert.go): results are copied out of a State, tables as    *)
(* arrays or maps, down to a bounded nesting.                              *)
(***************************************************************************)
EXTENDS Integers, Sequences, FiniteSets

CONSTANTS
    Tables,           \* tables of the State
    Scalar,           \* any nil, boolean, number or string value
    Funcs,            \* functions, userdata and threads
    TableKey,         \* a key that is a table, function, userdata or thread
    Names,            \* scalar keys that are not integers
    Ints,             \* integer keys
    MaxConvertDepth

ConvertKeys == Ints \cup Names \cup {TableKey}

ConvertValues == Tables \cup Funcs \cup {Scalar}

ASSUME ConvertAssumption ==
    /\ MaxConvertDepth \in Nat \ {0} /\ Ints \subseteq Int
    /\ TableKey \notin Names /\ \A k \in Names \cup {TableKey} : k \notin Int
    /\ Scalar \notin Tables \cup Funcs /\ Tables \cap Funcs = {}

VARIABLES
    heap,             \* the entries of each table: a function from keys to values
    hook,             \* what Config.ConvertValue takes: it returns an error for
                      \* the others, or is not set
    rets              \* what the script returned

\* The tables a State may have; they may be cyclic and share each other.
Heaps ==
    [Tables -> UNION {[K -> ConvertValues] : K \in {S \in SUBSET ConvertKeys : IsFiniteSet(S)}}]

ConvertTypeOK == heap \in Heaps /\ hook \subseteq Funcs /\ rets \in Seq(ConvertValues)

\* Copies.
Error == [kind |-> "error"]
Data(v) == [kind |-> "data", of |-> v]
Array(s) == [kind |-> "array", of |-> s]
Map(m) == [kind |-> "map", of |-> m]

\* Mutant: an empty table is an array, too.
IsSeqOrEmpty(K) == K \subseteq Ints /\ \A k \in K : 1 <= k /\ k <= Cardinality(K)

\* A clean sequence: the keys are 1..n.
IsSeq(K) == K # {} /\ K \subseteq Ints /\ \A k \in K : 1 <= k /\ k <= Cardinality(K)

\* convertKey
MayBeMapKey(k) == k # TableKey

\* The first entry that cannot be copied is the table's error.
RefusedEntries(K, copy) ==
    \/ \E k \in K : copy[k] = Error
    \/ ~IsSeq(K) /\ \E k \in K : ~MayBeMapKey(k)

\* convertTable, given the copies of its entries.
CopyEntries(K, copy) ==
    CASE RefusedEntries(K, copy) -> Error
      [] ~RefusedEntries(K, copy) /\ IsSeq(K) -> Array([i \in 1..Cardinality(K) |-> copy[i]])
      [] ~RefusedEntries(K, copy) /\ ~IsSeq(K) -> Map(copy)

\* Mutant: the last level is not used.
TooDeepEarly(levels) == levels <= 1

TooDeep(levels) == levels = 0

\* convertValue with that many levels of tables to go, given what it makes of
\* values one level down.
ConvertValue(v, levels, below) ==
    CASE v = Scalar -> Data(v)
      [] v \in Funcs -> IF v \in hook THEN Data(v) ELSE Error
      [] v \in Tables -> IF TooDeep(levels) THEN Error
                         ELSE CopyEntries(DOMAIN heap[v], [k \in DOMAIN heap[v] |-> below[heap[v][k]]])

CopyAll(levels, below) == [v \in ConvertValues |-> ConvertValue(v, levels, below)]

\* Copy[n][v] is the copy of v with n levels of tables to go.
Copy[n \in 0..MaxConvertDepth] == CopyAll(n, Copy[n - 1])

\* RunValues: all of the results, or an error.
RunValues ==
    LET vs == [i \in 1..Len(rets) |-> Copy[MaxConvertDepth][rets[i]]]
    IN IF \E i \in 1..Len(rets) : vs[i] = Error THEN Error ELSE [kind |-> "values", of |-> vs]

-----------------------------------------------------------------------------
\* Properties

\* The places that the results lead to: a value, and the tables it is in.
Deeper(i, places) ==
    places \cup
    UNION {{[depth |-> i, at |-> heap[p.at][k]] : k \in DOMAIN heap[p.at]} :
             p \in {q \in places : q.depth = i - 1 /\ q.at \in Tables}}

Results == {[depth |-> 0, at |-> rets[j]] : j \in 1..Len(rets)}

Places[i \in 0..MaxConvertDepth] == IF i = 0 THEN Results ELSE Deeper(i, Places[i - 1])

\* A table must not be nested too deeply (so it is in no cycle) and have no
\* reference as a key; a function needs a hook that takes it.
MayCopy(p) ==
    /\ p.at \in Tables => p.depth < MaxConvertDepth /\ TableKey \notin DOMAIN heap[p.at]
    /\ p.at \in Funcs => p.at \in hook

\* RunValues refuses what cannot be copied out of a State, and nothing else:
\* cyclic and too deeply nested tables, functions no hook takes, table keys.
ConvertRefusesExactly ==
    RunValues = Error <=> \E p \in Places[MaxConvertDepth] : ~MayCopy(p)

\* The values that the results lead to, with what their copies have there.
Within(pairs) ==
    pairs \cup
    UNION {{[at |-> heap[p.at][k], as |-> p.as.of[k]] : k \in DOMAIN heap[p.at]} :
             p \in {q \in pairs : q.at \in Tables}}

Returned == {[at |-> rets[j], as |-> RunValues.of[j]] : j \in 1..Len(rets)}

Pairs[i \in 0..MaxConvertDepth] == IF i = 0 THEN Returned ELSE Within(Pairs[i - 1])

\* Tables whose keys are 1..n become arrays of n elements, the others (the
\* empty one too) maps with the same keys.
Alike(p) ==
    IF p.at \in Tables
    THEN LET K == DOMAIN heap[p.at] IN
         /\ DOMAIN p.as.of = K
         /\ p.as.kind = IF \E n \in 1..Cardinality(K) : K = 1..n THEN "array" ELSE "map"
    ELSE p.as = Data(p.at)

\* What RunValues returns is a faithful copy of what the script returned: each
\* part has the shape and the data of the value it stands for.
ConvertCopiesAlike ==
    RunValues # Error =>
        /\ DOMAIN RunValues.of = 1..Len(rets)
        /\ \A p \in Pairs[MaxConvertDepth] : Alike(p)

=============================================================================
