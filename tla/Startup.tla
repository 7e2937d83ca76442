------------------------------ MODULE Startup -------------------------------
(***************************************************************************)
(* From configuration sources to a Runtime: package luartconfig reads a    *)
(* file or a JSON string, overlays it with environment variables, and      *)
(* makes a validated Config of it; New fills in the defaults and derives   *)
(* MaxStates from the memory budget.                                       *)
(*                                                                         *)
(* A source is a layer: a setting for each field, which is Unset,          *)
(* Malformed or an integer (durations in units of their own).              *)
(***************************************************************************)
EXTENDS Integers

CONSTANTS
    Unset, Malformed,
    Durations,    \* those of IdleTTL, JanitorInterval, ExecTimeout a run looks at
    Default,      \* New's default for a duration, 0 where it has none
    MaxStatesSet, BudgetSet, DurationSet,   \* the settings a run looks at
    GrowthSet,    \* by how much the heap may grow while New measures a State
    Samples,      \* how many States it builds for that
    DefaultPer,   \* what it takes for an outcome of 0
    IntBits,      \* width of int: a budget may be wider
    CodeConfigs   \* Configs a program writes itself, without luartconfig

Numbers == {"maxStates", "memoryBudget"}
Fields == Numbers \cup Durations

Layers == {l \in [Fields -> MaxStatesSet \cup BudgetSet \cup DurationSet] :
             /\ l["maxStates"] \in MaxStatesSet
             /\ l["memoryBudget"] \in BudgetSet
             /\ \A d \in Durations : l[d] \in DurationSet}

Empty == [f \in Fields |-> Unset]

ASSUME StartupAssumption ==
    /\ Numbers \cap Durations = {}
    /\ Unset # Malformed /\ {Unset, Malformed} \cap Int = {}
    /\ Unset \in MaxStatesSet \cap BudgetSet \cap DurationSet
    /\ MaxStatesSet \cup DurationSet \subseteq Int \cup {Unset, Malformed}
    /\ BudgetSet \subseteq Nat \cup {Unset, Malformed}  \* a budget is unsigned
    /\ CodeConfigs \subseteq {c \in [Fields -> Int] : c["memoryBudget"] >= 0}
    /\ Default \in [Durations -> Nat]
    /\ GrowthSet \subseteq Int
    /\ {Samples, DefaultPer, IntBits, 2 ^ IntBits} \subseteq Nat \ {0}

VARIABLES
    source,       \* where the base comes from, and what is wrong with it
    base,         \* its layer
    environ,      \* the layer of the environment variables, if it is read
    stage,        \* base, env, config, new, ready; or failed
    spec,         \* Spec
    cfg,          \* Config
    per           \* bytes per State, as New measured them

startupVars == <<source, base, environ, stage, spec, cfg, per>>

given == <<source, base, environ>>

-----------------------------------------------------------------------------

HasMalformedNumber(l) == \E f \in Numbers : l[f] = Malformed

Fail == stage' = "failed" /\ UNCHANGED <<given, spec, cfg, per>>

\* specFromFile, specFromJSON: no path and no string, no base; a field of the
\* wrong type is an error of the parser.
ReadBase ==
    /\ stage = "base"
    /\ CASE source.from = "none" -> spec' = Empty /\ stage' = "env" /\ UNCHANGED <<given, cfg, per>>
         [] source.from # "none" /\ (source.faulty \/ HasMalformedNumber(base)) -> Fail
         [] OTHER -> spec' = base /\ stage' = "env" /\ UNCHANGED <<given, cfg, per>>

\* Mutant: the base wins.
MergeBaseWins(s, o) == [f \in Fields |-> IF s[f] # Unset THEN s[f] ELSE o[f]]

\* Spec.merge: o wins, field by field.
Merge(s, o) == [f \in Fields |-> IF o[f] # Unset THEN o[f] ELSE s[f]]

\* envSpec and the merge; Load reads no environment.
ReadEnv ==
    /\ stage = "env"
    /\ IF source.env /\ HasMalformedNumber(environ) THEN Fail
       ELSE /\ spec' = IF source.env THEN Merge(spec, environ) ELSE spec
            /\ stage' = "config"
            /\ UNCHANGED <<given, cfg, per>>

\* Mutant: ExecTimeout is not looked at.
ValidateSome(c) ==
    \A f \in Fields \ {"memoryBudget", "execTimeout"} : c[f] >= 0

\* Config.Validate; a MemoryBudgetBytes is unsigned.
Validate(c) == \A f \in Fields \ {"memoryBudget"} : c[f] >= 0

\* Spec.Config
ToConfig ==
    /\ stage = "config"
    /\ LET c == [f \in Fields |-> IF spec[f] = Unset THEN 0 ELSE spec[f]] IN
         IF (\E d \in Durations : c[d] = Malformed) \/ ~Validate(c) THEN Fail
         ELSE /\ cfg' = c
              /\ stage' = "new"
              /\ UNCHANGED <<given, spec, per>>

\* measurePerStateBytes: the heap may shrink when the collector runs meanwhile.
Measure(growth) == IF growth > 0 THEN growth \div Samples ELSE 0

\* int(x) of an unsigned x.
ToInt(x) ==
    LET m == x % 2 ^ IntBits IN IF m < 2 ^ (IntBits - 1) THEN m ELSE m - 2 ^ IntBits

\* Mutant: the quotient as it is.
DeriveUnclamped(budget, p) == ToInt(budget \div p)

\* MaxStates from the budget, at least 1.
Derive(budget, p) ==
    LET n == ToInt(budget \div p) IN IF n < 1 THEN 1 ELSE n

WithDefaults(c) ==
    [f \in Fields |-> IF f \in Durations /\ Default[f] > 0 /\ c[f] <= 0
                      THEN Default[f] ELSE c[f]]

\* New.  It does not validate.
NewRuntime ==
    /\ stage = "new"
    /\ IF cfg["maxStates"] > 0 THEN cfg' = WithDefaults(cfg) /\ UNCHANGED per
       ELSE \E growth \in GrowthSet :
              LET p == IF Measure(growth) = 0 THEN DefaultPer ELSE Measure(growth) IN
              /\ per' = p
              /\ cfg' = [WithDefaults(cfg) EXCEPT
                           !["maxStates"] = Derive(cfg["memoryBudget"], p)]
    /\ stage' = "ready"
    /\ UNCHANGED <<given, spec>>

StartupInit ==
    /\ spec = Empty /\ per = 0
    /\ \/ /\ source \in [from : {"file", "text"}, faulty : BOOLEAN, env : BOOLEAN]
                         \cup [from : {"none"}, faulty : {FALSE}, env : {TRUE}]
          /\ base \in IF source.from = "none" THEN {Empty} ELSE Layers
          /\ environ \in IF source.env THEN Layers ELSE {Empty}
          /\ stage = "base"
          /\ cfg = [f \in Fields |-> 0]
       \/ /\ source = [from |-> "code", faulty |-> FALSE, env |-> FALSE]
          /\ base = Empty /\ environ = Empty
          /\ stage = "new"
          /\ cfg \in CodeConfigs

StartupNext == ReadBase \/ ReadEnv \/ ToConfig \/ NewRuntime

StartupSpec == StartupInit /\ [][StartupNext]_startupVars

-----------------------------------------------------------------------------
\* Properties

StartupTypeOK ==
    /\ stage \in {"base", "env", "config", "new", "ready", "failed"}
    /\ spec \in Layers
    /\ cfg \in [Fields -> Int]
    /\ per \in Nat
    /\ stage = "new" /\ source.from # "code" => cfg \in [Fields -> Nat]

\* The layer that prevails for a field (docs/config.md: env > file > defaults).
Prevailing(f) ==
    CASE environ[f] # Unset -> environ[f]
      [] environ[f] = Unset /\ base[f] # Unset -> base[f]
      [] OTHER -> 0

\* A value is refused if it prevails and is malformed or negative.
Refused(f) == Prevailing(f) = Malformed \/ (f # "memoryBudget" /\ Prevailing(f) < 0)

\* Each field of a Config comes from the source that prevails for it, and a
\* field that no source sets, or that is set to 0, gets New's default: the
\* sources never mix within a field, nor does one hide another's fields
\* (Resolve, ResolveJSONString, New).
PrecedenceHolds ==
    stage = "ready" /\ source.from # "code" => \A f \in Fields :
        \/ cfg[f] = Prevailing(f) /\ (f \in Durations => cfg[f] > 0 \/ Default[f] = 0)
        \/ Prevailing(f) = 0 /\ f \in Durations /\ cfg[f] = Default[f]
        \/ Prevailing(f) = 0 /\ f = "maxStates" /\ cfg[f] >= 1

\* Loading fails exactly if a source that is read is broken or a value that
\* prevails is: a bad duration that the environment overrides does no harm
\* (Spec.Config, Validate).
FailsForCause ==
    LET broken == source.faulty \/ HasMalformedNumber(base) \/ HasMalformedNumber(environ)
    IN /\ stage = "failed" => broken \/ \E f \in Fields : Refused(f)
       /\ stage = "ready" /\ source.from # "code" =>
            ~broken /\ \A f \in Fields : ~Refused(f)

\* A Runtime has at least one slot and two positive intervals, whatever its
\* Config says; and a derived cap keeps within the memory budget, even where
\* the quotient is 0 or does not fit an int, unless it is the one slot it needs
\* (New).
StartsSound ==
    stage = "ready" =>
        /\ cfg["maxStates"] >= 1
        /\ per # 0 /\ cfg["maxStates"] > 1 => cfg["maxStates"] * per <= cfg["memoryBudget"]
        /\ \A d \in Durations : Default[d] > 0 => cfg[d] > 0

=============================================================================
