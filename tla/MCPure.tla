------------------------------- MODULE MCPure -------------------------------
(***************************************************************************)
(* Startup and Convert for TLC: a behaviour loads a configuration, or      *)
(* converts the results of one call.                                       *)
(***************************************************************************)
EXTENDS Startup, Convert

CONSTANTS t1, t2, t3

VARIABLE part     \* which of the two

\* Tables with at most n entries.
Contents(n) ==
    UNION {[K -> ConvertValues] : K \in {S \in SUBSET ConvertKeys : Cardinality(S) <= n}}

SmallHeaps ==
    {[t \in Tables |-> CASE t = t1 -> c[1] [] t = t2 -> c[2] [] t = t3 -> c[3]] :
        c \in Contents(2) \X Contents(1) \X Contents(1)}

MCDefault == [d \in Durations |-> IF d = "idleTTL" THEN 7 ELSE 0]

MCMaxStates == {Unset, Malformed, -1, 0, 3}
MCBudgets == {Unset, 21, 36, 255}
MCGrowth == {-3, 5, 8, 39}
MCDurations == {Unset, Malformed, -1, 2}

MCCodeConfigs ==
    [maxStates : {-1, 0, 3}, memoryBudget : {0, 5, 21, 36, 255}, idleTTL : {-1, 0, 2},
     execTimeout : {-1, 4}]

pureVars == <<startupVars, part, heap, hook, rets>>

PureInit ==
    \/ /\ part = "startup"
       /\ StartupInit
       /\ heap = [t \in Tables |-> <<>>] /\ hook = {} /\ rets = <<>>
    \/ /\ part = "convert"
       /\ source = [from |-> "none", faulty |-> FALSE, env |-> FALSE]
       /\ base = Empty /\ environ = Empty /\ stage = "base"
       /\ spec = Empty /\ cfg = [f \in Fields |-> 0] /\ per = 0
       /\ heap \in SmallHeaps /\ hook \in SUBSET Funcs /\ rets \in {<<Scalar, t1>>}

PureNext == part = "startup" /\ StartupNext /\ UNCHANGED <<part, heap, hook, rets>>

PureSpec == PureInit /\ [][PureNext]_pureVars

=============================================================================
