----------------------------- MODULE PureProofs -----------------------------
(***************************************************************************)
(* Proofs about Startup and Convert, which run alone, once each: which     *)
(* setting prevails, which are refused, and that the cap that New derives  *)
(* stays within the budget, for every set of settings, every width of int  *)
(* and every growth of the heap; what RunValues refuses, and what it makes *)
(* of the rest, for every heap of tables and every maxConvertDepth.        *)
(***************************************************************************)
EXTENDS Startup, Convert, TLAPS, FiniteSetTheorems, WellFoundedInduction

(***************************************************************************)
(* Startup                                                                 *)
(***************************************************************************)

\* The stages a configuration reaches once its base is read.
BaseRead == {"env", "config", "new", "ready"}
BothRead == {"config", "new", "ready"}

Loaded == source.from # "code"

\* What StartupInit chooses, which no step changes.
GivenInv ==
    /\ source \in [from : {"none", "file", "text", "code"}, faulty : BOOLEAN, env : BOOLEAN]
    /\ base \in Layers /\ environ \in Layers
    /\ source.from \in {"none", "code"} => ~source.faulty /\ base = Empty
    /\ ~source.env => environ = Empty
    /\ ~Loaded => stage \in {"new", "ready"}

\* What was read so far is sound, and the Spec is its merge.
ReadInv ==
    Loaded =>
        /\ stage \in BaseRead => ~source.faulty /\ ~HasMalformedNumber(base)
        /\ stage \in BothRead => ~HasMalformedNumber(environ)
        /\ stage = "env" => spec = base
        /\ stage \in BothRead => spec = Merge(base, environ)

\* The Config that New gets.
ConfigInv ==
    /\ stage # "ready" => per = 0
    /\ stage = "new" => cfg["memoryBudget"] >= 0
    /\ stage = "new" /\ Loaded =>
         \A f \in Fields : cfg[f] = Prevailing(f) /\ ~Refused(f)

StartupInv ==
    /\ StartupTypeOK /\ GivenInv /\ ReadInv /\ ConfigInv
    /\ PrecedenceHolds /\ FailsForCause /\ StartsSound

-----------------------------------------------------------------------------
\* Layers

LEMMA LayerValues ==
    ASSUME NEW l \in Layers
    PROVE  /\ l["maxStates"] \in Int \cup {Unset, Malformed}
           /\ l["memoryBudget"] \in Nat \cup {Unset, Malformed}
           /\ \A d \in Durations : l[d] \in Int \cup {Unset, Malformed}
BY StartupAssumption DEF Layers

LEMMA EmptyIsLayer == Empty \in Layers
BY StartupAssumption DEF Empty, Layers, Fields, Numbers

LEMMA MergeIsLayer ==
    ASSUME NEW s \in Layers, NEW o \in Layers
    PROVE  Merge(s, o) \in Layers
BY DEF Merge, Layers, Fields, Numbers

LEMMA EmptyIsSound == ~HasMalformedNumber(Empty)
BY StartupAssumption DEF HasMalformedNumber, Empty, Fields, Numbers

\* What Spec.Config makes of a merged field is what prevails for it.
LEMMA MergePrevails ==
    ASSUME NEW f \in Fields
    PROVE  Prevailing(f) = LET v == Merge(base, environ)[f] IN IF v = Unset THEN 0 ELSE v
BY StartupAssumption DEF Prevailing, Merge

-----------------------------------------------------------------------------
\* New

LEMMA MeasureType ==
    ASSUME NEW growth \in GrowthSet
    PROVE  Measure(growth) \in Nat
BY StartupAssumption DEF Measure

\* int(x) is never more than x: it drops the high bits, or is negative.
LEMMA ToIntAtMost ==
    ASSUME NEW x \in Nat
    PROVE  ToInt(x) \in Int /\ ToInt(x) <= x
<1> DEFINE W == 2 ^ IntBits
           H == 2 ^ (IntBits - 1)
           m == x % W
<1>1. W \in Nat \ {0}
  BY StartupAssumption
<1>2. m \in Int /\ m <= x
  <2> HIDE DEF W
  <2> QED BY <1>1
<1>3. ToInt(x) = IF m < H THEN m ELSE m - W
  BY DEF ToInt
<1> HIDE DEF W, H, m
<1> QED BY <1>1, <1>2, <1>3

\* The derived cap is at least 1; States that many fit the budget, unless it
\* is that one.
LEMMA DeriveSound ==
    ASSUME NEW budget \in Nat, NEW p \in Nat \ {0}
    PROVE  /\ Derive(budget, p) \in Int
           /\ Derive(budget, p) >= 1
           /\ Derive(budget, p) > 1 => Derive(budget, p) * p <= budget
<1> DEFINE q == budget \div p
           n == ToInt(q)
<1>1. q \in Nat /\ q * p <= budget
  OBVIOUS
<1>2. n \in Int /\ n <= q
  <2> HIDE DEF q
  <2> QED BY <1>1, ToIntAtMost
<1>3. Derive(budget, p) = IF n < 1 THEN 1 ELSE n
  BY DEF Derive
<1> HIDE DEF q, n
<1>4. n * p <= q * p
  BY <1>1, <1>2
<1> QED BY <1>1, <1>2, <1>3, <1>4

LEMMA WithDefaultsType ==
    ASSUME NEW c \in [Fields -> Int]
    PROVE  /\ WithDefaults(c) \in [Fields -> Int]
           /\ \A f \in Numbers : WithDefaults(c)[f] = c[f]
           /\ \A d \in Durations : 
                \/ WithDefaults(c)[d] = c[d] /\ (c[d] > 0 \/ Default[d] = 0)
                \/ WithDefaults(c)[d] = Default[d] /\ Default[d] > 0 /\ c[d] <= 0
BY StartupAssumption DEF WithDefaults, Fields

-----------------------------------------------------------------------------
\* The invariant

LEMMA StartupInvInit == StartupInit => StartupInv
<1> SUFFICES ASSUME StartupInit PROVE StartupInv
  OBVIOUS
<1> USE EmptyIsLayer, EmptyIsSound
<1>1. per = 0 /\ spec = Empty
  BY DEF StartupInit
<1>2. CASE stage = "base"
  <2>1. /\ source \in [from : {"file", "text"}, faulty : BOOLEAN, env : BOOLEAN]
                       \cup [from : {"none"}, faulty : {FALSE}, env : {TRUE}]
        /\ base \in IF source.from = "none" THEN {Empty} ELSE Layers
        /\ environ \in IF source.env THEN Layers ELSE {Empty}
        /\ cfg = [f \in Fields |-> 0]
    BY <1>2 DEF StartupInit
  <2>2. Loaded /\ GivenInv
    BY <1>2, <2>1 DEF GivenInv, Loaded
  <2>3. StartupTypeOK
    BY <1>1, <1>2, <2>1 DEF StartupTypeOK
  <2> QED
    BY <1>1, <1>2, <2>2, <2>3
    DEF StartupInv, ReadInv, ConfigInv, BaseRead, BothRead, PrecedenceHolds, FailsForCause,
        StartsSound
<1>3. CASE stage # "base"
  <2>1. /\ source = [from |-> "code", faulty |-> FALSE, env |-> FALSE]
        /\ base = Empty /\ environ = Empty
        /\ stage = "new"
        /\ cfg \in CodeConfigs
    BY <1>3 DEF StartupInit
  <2>2. ~Loaded /\ GivenInv
    BY <2>1 DEF GivenInv, Loaded
  <2>3. cfg \in [Fields -> Int] /\ cfg["memoryBudget"] >= 0
    BY <2>1, StartupAssumption
  <2> QED
    BY <1>1, <2>1, <2>2, <2>3
    DEF StartupInv, StartupTypeOK, ReadInv, ConfigInv, BaseRead, BothRead, PrecedenceHolds,
        FailsForCause, StartsSound, Loaded
<1> QED BY <1>2, <1>3

\* A step that fails keeps the invariant, if it has a cause.
LEMMA FailKeeps ==
    ASSUME StartupInv, Fail, Loaded, stage # "ready",
           \/ source.faulty \/ HasMalformedNumber(base) \/ HasMalformedNumber(environ)
           \/ \E f \in Fields : Refused(f)
    PROVE  StartupInv'
<1> USE DEF StartupInv, Fail, given
<1>1. stage # "ready" => per = 0
  BY DEF ConfigInv
<1>2. /\ HasMalformedNumber(base)' = HasMalformedNumber(base)
      /\ HasMalformedNumber(environ)' = HasMalformedNumber(environ)
      /\ \A f \in Fields : Refused(f)' = Refused(f)
  BY DEF HasMalformedNumber, Refused, Prevailing
<1>3. StartupTypeOK' /\ GivenInv'
  BY DEF StartupTypeOK, GivenInv, Loaded
<1>4. ReadInv' /\ ConfigInv'
  BY <1>1 DEF ReadInv, ConfigInv, BaseRead, BothRead
<1>5. PrecedenceHolds' /\ StartsSound' /\ FailsForCause'
  BY <1>2 DEF PrecedenceHolds, StartsSound, FailsForCause
<1> QED BY <1>3, <1>4, <1>5

LEMMA ReadBaseStep == StartupInv /\ ReadBase => StartupInv'
<1> SUFFICES ASSUME StartupInv, ReadBase PROVE StartupInv'
  OBVIOUS
<1> USE DEF StartupInv
<1>1. stage = "base" /\ Loaded
  BY DEF ReadBase, GivenInv, Loaded
<1>2. CASE stage' = "env"
  <2>1. /\ UNCHANGED <<given, cfg, per>>
        /\ spec' = base
        /\ ~source.faulty /\ ~HasMalformedNumber(base)
    BY <1>1, <1>2, EmptyIsSound DEF ReadBase, Fail, GivenInv, Loaded
  <2> QED
    BY <1>1, <1>2, <2>1
    DEF StartupTypeOK, GivenInv, ReadInv, ConfigInv, BaseRead, BothRead, PrecedenceHolds,
        FailsForCause, StartsSound, Loaded, HasMalformedNumber, given
<1>3. CASE stage' # "env"
  <2>1. Fail /\ (source.faulty \/ HasMalformedNumber(base))
    BY <1>1, <1>3 DEF ReadBase
  <2> QED BY <1>1, <2>1, FailKeeps
<1> QED BY <1>2, <1>3

LEMMA ReadEnvStep == StartupInv /\ ReadEnv => StartupInv'
<1> SUFFICES ASSUME StartupInv, ReadEnv PROVE StartupInv'
  OBVIOUS
<1> USE DEF StartupInv
<1>1. stage = "env" /\ Loaded
  BY DEF ReadEnv, GivenInv, Loaded
<1>2. CASE source.env /\ HasMalformedNumber(environ)
  BY <1>1, <1>2, FailKeeps DEF ReadEnv
<1>3. CASE ~(source.env /\ HasMalformedNumber(environ))
  <2>1. /\ UNCHANGED <<given, cfg, per>>
        /\ stage' = "config"
        /\ spec' = IF source.env THEN Merge(spec, environ) ELSE spec
    BY <1>1, <1>3 DEF ReadEnv
  <2>2. spec = base /\ base \in Layers /\ environ \in Layers
    BY <1>1 DEF ReadInv, GivenInv
  <2>3. ~HasMalformedNumber(environ)
    BY <1>3, EmptyIsSound DEF GivenInv
  <2>4. spec' = Merge(base, environ)
    <3>1. Merge(base, Empty) = base
      BY <2>2 DEF Merge, Empty, Layers
    <3> QED BY <2>1, <2>2, <3>1 DEF GivenInv
  <2>5. spec' \in Layers
    BY <2>2, <2>4, MergeIsLayer
  <2> QED
    BY <1>1, <2>1, <2>3, <2>4, <2>5
    DEF StartupTypeOK, GivenInv, ReadInv, ConfigInv, BaseRead, BothRead, PrecedenceHolds,
        FailsForCause, StartsSound, Loaded, HasMalformedNumber, Merge, given
<1> QED BY <1>2, <1>3

LEMMA ToConfigStep == StartupInv /\ ToConfig => StartupInv'
<1> SUFFICES ASSUME StartupInv, ToConfig PROVE StartupInv'
  OBVIOUS
<1> USE DEF StartupInv
<1> DEFINE c == [f \in Fields |-> IF spec[f] = Unset THEN 0 ELSE spec[f]]
<1>1. stage = "config" /\ Loaded
  BY DEF ToConfig, GivenInv, Loaded
<1>2. /\ spec = Merge(base, environ) /\ spec \in Layers
      /\ ~source.faulty /\ ~HasMalformedNumber(base) /\ ~HasMalformedNumber(environ)
  BY <1>1 DEF ReadInv, BaseRead, BothRead, StartupTypeOK
<1>3. \A f \in Fields : c[f] = Prevailing(f)
  BY <1>2, MergePrevails
<1>4. \A f \in Numbers : c[f] # Malformed
  <2>1. \A f \in Numbers : f \in Fields /\ base[f] # Malformed /\ environ[f] # Malformed
    BY <1>2 DEF HasMalformedNumber, Fields
  <2>2. 0 # Malformed
    BY StartupAssumption
  <2> QED BY <1>2, <2>1, <2>2 DEF Merge
<1>5. c["maxStates"] \in Int /\ c["memoryBudget"] \in Nat
  BY <1>2, <1>4, LayerValues DEF Fields, Numbers
<1>6. \A d \in Durations : c[d] \in Int \cup {Malformed}
  BY <1>2, LayerValues DEF Fields
<1>7. CASE (\E d \in Durations : c[d] = Malformed) \/ ~Validate(c)
  <2>1. Fail
    BY <1>7 DEF ToConfig
  <2>2. \E f \in Fields : Refused(f)
    <3>1. CASE \E d \in Durations : c[d] = Malformed
      BY <1>3, <3>1 DEF Refused, Fields
    <3>2. CASE ~(\E d \in Durations : c[d] = Malformed) /\ ~Validate(c)
      <4>1. PICK f \in Fields \ {"memoryBudget"} : ~(c[f] >= 0)
        BY <3>2 DEF Validate
      <4>2. c[f] \in Int
        BY <1>5, <1>6, <3>2 DEF Fields, Numbers
      <4>3. c[f] < 0
        <5> HIDE DEF c
        <5> QED BY <4>1, <4>2
      <4> QED BY <1>3, <4>1, <4>3 DEF Refused
    <3> QED BY <1>7, <3>1, <3>2
  <2> QED BY <1>1, <2>1, <2>2, FailKeeps
<1>8. CASE ~((\E d \in Durations : c[d] = Malformed) \/ ~Validate(c))
  <2>1. /\ cfg' = c
        /\ stage' = "new"
        /\ UNCHANGED <<given, spec, per>>
    BY <1>8 DEF ToConfig
  <2>2. \A f \in Fields : c[f] \in Int
    BY <1>5, <1>6, <1>8 DEF Fields, Numbers
  <2>3. \A f \in Fields : c[f] >= 0
    <3>1. \A f \in Fields \ {"memoryBudget"} : c[f] >= 0
      BY <1>8 DEF Validate
    <3>2. c["memoryBudget"] >= 0
      BY <1>5
    <3> HIDE DEF c
    <3> QED BY <3>1, <3>2
  <2>4. c \in [Fields -> Nat]
    <3>1. c = [f \in Fields |-> c[f]]
      OBVIOUS
    <3> HIDE DEF c
    <3> QED BY <2>2, <2>3, <3>1
  <2>5. \A f \in Fields : c[f] # Malformed /\ ~Refused(f)
    <3> HIDE DEF c
    <3> QED BY <1>3, <2>2, <2>3, StartupAssumption DEF Refused
  <2> HIDE DEF c
  <2>6. \A f \in Fields : Prevailing(f)' = Prevailing(f) /\ (Refused(f)' <=> Refused(f))
    BY <2>1 DEF Prevailing, Refused, given
  <2>7. StartupTypeOK'
    BY <2>1, <2>4 DEF StartupTypeOK, given
  <2>8. ConfigInv'
    <3>1. c["memoryBudget"] >= 0
      BY <1>5
    <3>2. per' = 0
      BY <1>1, <2>1 DEF ConfigInv
    <3> QED BY <1>3, <2>1, <2>5, <2>6, <3>1, <3>2 DEF ConfigInv
  <2> QED
    BY <1>1, <1>2, <2>1, <2>7, <2>8
    DEF GivenInv, ReadInv, BaseRead, BothRead, PrecedenceHolds, FailsForCause, StartsSound, Loaded,
        HasMalformedNumber, given
<1> QED BY <1>7, <1>8

LEMMA NewRuntimeStep == StartupInv /\ NewRuntime => StartupInv'
<1> SUFFICES ASSUME StartupInv, NewRuntime PROVE StartupInv'
  OBVIOUS
<1> USE DEF StartupInv
<1> DEFINE b == cfg["memoryBudget"]
           d == WithDefaults(cfg)
<1>1. /\ stage = "new" /\ stage' = "ready"
      /\ UNCHANGED <<given, spec>>
      /\ per = 0 /\ b >= 0
  BY DEF NewRuntime, ConfigInv
<1>2. /\ cfg \in [Fields -> Int] /\ b \in Nat
      /\ "maxStates" \in Fields /\ "memoryBudget" \in Fields /\ Durations \subseteq Fields
      /\ Default \in [Durations -> Nat] /\ Numbers \cap Durations = {}
  BY <1>1, StartupAssumption DEF StartupTypeOK, Fields, Numbers
<1>3. /\ d \in [Fields -> Int]
      /\ \A f \in Numbers : d[f] = cfg[f]
      /\ \A f \in Durations :
           \/ d[f] = cfg[f] /\ (cfg[f] > 0 \/ Default[f] = 0)
           \/ d[f] = Default[f] /\ Default[f] > 0 /\ cfg[f] <= 0
  BY <1>2, WithDefaultsType
<1> HIDE DEF d
\* Whether MaxStates is given or derived, this is what New makes of it.
<1>4. /\ per' \in Nat
      /\ cfg' = [d EXCEPT !["maxStates"] = cfg'["maxStates"]]
      /\ cfg'["maxStates"] \in Int /\ cfg'["maxStates"] >= 1
      /\ cfg["maxStates"] > 0 => cfg'["maxStates"] = cfg["maxStates"]
      /\ per' # 0 /\ cfg'["maxStates"] > 1 => cfg'["maxStates"] * per' <= b
  <2>1. CASE cfg["maxStates"] > 0
    <3>1. cfg' = d /\ per' = 0
      BY <1>1, <2>1 DEF NewRuntime, d
    <3>2. d["maxStates"] = cfg["maxStates"]
      BY <1>3 DEF Numbers
    <3>3. d = [d EXCEPT !["maxStates"] = d["maxStates"]]
      BY <1>3
    <3> QED BY <1>2, <2>1, <3>1, <3>2, <3>3
  <2>2. CASE ~(cfg["maxStates"] > 0)
    <3>1. PICK growth \in GrowthSet :
            LET p == IF Measure(growth) = 0 THEN DefaultPer ELSE Measure(growth) IN
            /\ per' = p
            /\ cfg' = [d EXCEPT !["maxStates"] = Derive(b, p)]
      BY <2>2 DEF NewRuntime, d
    <3>2. /\ per' \in Nat \ {0}
          /\ cfg' = [d EXCEPT !["maxStates"] = Derive(b, per')]
      BY <3>1, MeasureType, StartupAssumption
    <3>3. cfg'["maxStates"] = Derive(b, per')
      BY <1>2, <1>3, <3>2
    <3> QED BY <1>2, <2>2, <3>2, <3>3, DeriveSound
  <2> QED BY <2>1, <2>2
<1>5. /\ cfg' \in [Fields -> Int]
      /\ cfg'["memoryBudget"] = b
      /\ \A f \in Durations : cfg'[f] = d[f]
      /\ \A f \in Fields : f # "maxStates" /\ f # "memoryBudget" => f \in Durations
  BY <1>2, <1>3, <1>4 DEF Numbers, Fields
<1>6. StartupTypeOK' /\ GivenInv' /\ ReadInv' /\ ConfigInv'
  BY <1>1, <1>4, <1>5
  DEF StartupTypeOK, GivenInv, ReadInv, ConfigInv, BaseRead, BothRead, Loaded, HasMalformedNumber,
      Merge, given
<1>7. StartsSound'
  <2>1. \A f \in Durations : Default[f] > 0 => d[f] > 0
    BY <1>2, <1>3
  <2> QED BY <1>4, <1>5, <2>1 DEF StartsSound
<1>8. ASSUME Loaded
      PROVE  \A f \in Fields : /\ cfg[f] = Prevailing(f) /\ ~Refused(f)
                               /\ Prevailing(f)' = Prevailing(f) /\ Refused(f)' = Refused(f)
  BY <1>1, <1>8 DEF ConfigInv, Prevailing, Refused, given
<1>9. PrecedenceHolds'
  <2> SUFFICES ASSUME Loaded, NEW f \in Fields
               PROVE  \/ /\ cfg'[f] = Prevailing(f)'
                         /\ f \in Durations => cfg'[f] > 0 \/ Default[f] = 0
                      \/ Prevailing(f)' = 0 /\ f \in Durations /\ cfg'[f] = Default[f]
                      \/ Prevailing(f)' = 0 /\ f = "maxStates" /\ cfg'[f] >= 1
    BY <1>1 DEF PrecedenceHolds, Loaded, given
  <2>1. cfg[f] = Prevailing(f) /\ Prevailing(f)' = Prevailing(f) /\ ~Refused(f)
    BY <1>8
  <2>2. f # "memoryBudget" => cfg[f] >= 0
    BY <1>2, <2>1 DEF Refused
  <2>3. CASE f = "memoryBudget"
    BY <1>2, <1>5, <2>1, <2>3 DEF Numbers
  <2>4. CASE f = "maxStates"
    <3>1. f \notin Durations
      BY <1>2, <2>4 DEF Numbers
    <3> QED BY <1>2, <1>4, <2>1, <2>2, <2>4, <3>1
  <2>5. CASE f \in Durations
    <3>1. f # "memoryBudget"
      BY <1>2, <2>5 DEF Numbers
    <3>2. cfg'[f] = d[f] /\ cfg[f] \in Int
      BY <1>2, <1>5, <2>5
    <3> QED BY <1>2, <1>3, <2>1, <2>2, <2>5, <3>1, <3>2
  <2> QED BY <1>5, <2>3, <2>4, <2>5
<1>10. FailsForCause'
  <2>1. stage' = "ready" /\ Loaded' = Loaded
    BY <1>1 DEF Loaded, given
  <2>2. Loaded => /\ ~source.faulty /\ ~HasMalformedNumber(base)
                  /\ ~HasMalformedNumber(environ)
    BY <1>1 DEF ReadInv, BaseRead, BothRead
  <2> QED
    BY <1>1, <1>8, <2>1, <2>2 DEF FailsForCause, Loaded, HasMalformedNumber, given
<1> QED BY <1>6, <1>7, <1>9, <1>10

-----------------------------------------------------------------------------
\* Theorems

\* The stages of loading and of New keep the types, and what each of them
\* leaves to the next (Resolve, Spec.Config, New).
THEOREM StartupInvariant == StartupSpec => []StartupInv
<1>1. StartupInv /\ [StartupNext]_startupVars => StartupInv'
  <2> SUFFICES ASSUME StartupInv, [StartupNext]_startupVars PROVE StartupInv'
    OBVIOUS
  <2>1. CASE StartupNext
    BY <2>1, ReadBaseStep, ReadEnvStep, ToConfigStep, NewRuntimeStep DEF StartupNext
  <2>2. CASE UNCHANGED startupVars
    BY <2>2
    DEF startupVars, StartupInv, StartupTypeOK, GivenInv, ReadInv, ConfigInv, BaseRead, BothRead,
        PrecedenceHolds, FailsForCause, StartsSound, Loaded, HasMalformedNumber, Merge,
        Prevailing, Refused
  <2> QED BY <2>1, <2>2
<1> QED BY StartupInvInit, <1>1, PTL DEF StartupSpec

\* The stages keep the types; a Config that was loaded has no negative value.
THEOREM StartupTyped == StartupSpec => []StartupTypeOK
BY StartupInvariant, PTL DEF StartupInv

\* Each field of a Config comes from the source that prevails for it, or is
\* New's default where no source sets it or sets it to 0.
THEOREM PrecedenceIsKept == StartupSpec => []PrecedenceHolds
BY StartupInvariant, PTL DEF StartupInv

\* Loading fails exactly if a source that is read is broken, or a value that
\* prevails is.
THEOREM FailuresHaveCauses == StartupSpec => []FailsForCause
BY StartupInvariant, PTL DEF StartupInv

\* A Runtime has a slot and positive intervals, and a cap that is derived keeps
\* within the budget, also where the quotient does not fit an int.
THEOREM EveryStartIsSound == StartupSpec => []StartsSound
BY StartupInvariant, PTL DEF StartupInv

(***************************************************************************)
(* Convert: the recursive functions over its levels                        *)
(***************************************************************************)

\* What holds of 0, and of n + 1 if of n, holds of every level.
LEMMA OverLevels ==
    ASSUME NEW S, 0 \in S, \A n \in Nat : n \in S => n + 1 \in S
    PROVE  Nat \subseteq S
<1> DEFINE R == {ss \in Nat \X Nat : ss[1] < ss[2]}
           T == Nat \ S
<1>1. IsWellFoundedOn(R, Nat)
  BY NatLessThanWellFounded, Zenon DEF OpToRel
<1>2. ASSUME T # {} PROVE FALSE
  <2>1. T \subseteq Nat
    OBVIOUS
  <2> HIDE DEF R, T
  <2>2. PICK x \in T : \A y \in T : ~(<<y, x>> \in R)
    BY <1>1, <1>2, <2>1, WFMin, Zenon
  <2> USE DEF R, T
  <2>3. x \in Nat /\ x # 0 /\ x - 1 \in Nat /\ x - 1 < x /\ (x - 1) + 1 = x
    BY <2>2
  <2>4. x - 1 \notin T
    BY <2>2, <2>3
  <2> QED
    BY <2>2, <2>3, <2>4
<1> QED
  BY <1>2

\* Copy is what its equation says.
LEMMA CopyEquation ==
    Copy = [n \in 0..MaxConvertDepth |-> CopyAll(n, Copy[n - 1])]
<1> SUFFICES \E g : g = [n \in 0..MaxConvertDepth |-> CopyAll(n, g[n - 1])]
  BY DEF Copy
<1>0. \A x, y : CopyAll(0, x) = CopyAll(0, y)
  BY DEF CopyAll, ConvertValue, TooDeep
<1> DEFINE Is(g, n) == g = [i \in 0..n |-> CopyAll(i, g[i - 1])]
           S == {n \in Nat : \E g : Is(g, n)}
<1>1. 0 \in S
  <2> DEFINE g == [i \in 0..0 |-> CopyAll(i, <<>>)]
  <2>1. \A i \in 0..0 : CopyAll(i, <<>>) = CopyAll(i, g[i - 1])
    BY <1>0
  <2>2. Is(g, 0)
    BY <2>1
  <2> QED
    BY <2>2
<1>2. ASSUME NEW n \in Nat, n \in S PROVE n + 1 \in S
  <2>1. PICK g : Is(g, n)
    BY <1>2
  <2> DEFINE f == [i \in 0..n+1 |-> CopyAll(i, g[i - 1])]
  <2>2. \A i \in 0..n : f[i] = g[i]
    BY <2>1
  <2>3. \A i \in 0..n+1 : CopyAll(i, g[i - 1]) = CopyAll(i, f[i - 1])
    <3> SUFFICES ASSUME NEW i \in 0..n+1 PROVE CopyAll(i, g[i - 1]) = CopyAll(i, f[i - 1])
      OBVIOUS
    <3>1. CASE i = 0
      BY <1>0, <3>1
    <3>2. CASE i # 0
      <4>1. i - 1 \in 0..n
        BY <3>2
      <4> QED
        BY <2>2, <4>1
    <3> QED
      BY <3>1, <3>2
  <2>4. Is(f, n + 1)
    <3> HIDE DEF f
    <3>1. f = [i \in 0..n+1 |-> CopyAll(i, g[i - 1])]
      BY DEF f
    <3> QED
      BY <2>3, <3>1
  <2> HIDE DEF f, Is
  <2> QED
    BY <2>4
<1>3. MaxConvertDepth \in S
  <2> HIDE DEF S
  <2> QED
    BY <1>1, <1>2, OverLevels, ConvertAssumption
<1> QED
  BY <1>3

\* Places is what its equation says, too.
LEMMA PlacesEquation ==
    Places = [i \in 0..MaxConvertDepth |-> IF i = 0 THEN Results ELSE Deeper(i, Places[i - 1])]
<1> SUFFICES \E g : g = [i \in 0..MaxConvertDepth |-> IF i = 0 THEN Results ELSE Deeper(i, g[i - 1])]
  BY DEF Places
<1> DEFINE Is(g, n) == g = [i \in 0..n |-> IF i = 0 THEN Results ELSE Deeper(i, g[i - 1])]
           S == {n \in Nat : \E g : Is(g, n)}
<1>1. 0 \in S
  <2> DEFINE g == [i \in 0..0 |-> Results]
  <2>1. Is(g, 0)
    OBVIOUS
  <2> QED
    BY <2>1
<1>2. ASSUME NEW n \in Nat, n \in S PROVE n + 1 \in S
  <2>1. PICK g : Is(g, n)
    BY <1>2
  <2> DEFINE f == [i \in 0..n+1 |-> IF i = 0 THEN Results ELSE Deeper(i, g[i - 1])]
  <2>2. \A i \in 0..n : f[i] = g[i]
    BY <2>1
  <2> HIDE DEF f
  <2>3. \A i \in 0..n+1 : i # 0 => f[i - 1] = g[i - 1]
    <3> SUFFICES ASSUME NEW i \in 0..n+1, i # 0 PROVE f[i - 1] = g[i - 1]
      OBVIOUS
    <3>1. i - 1 \in 0..n
      OBVIOUS
    <3> QED
      BY <2>2, <3>1
  <2>4. f = [i \in 0..n+1 |-> IF i = 0 THEN Results ELSE Deeper(i, g[i - 1])]
    BY DEF f
  <2>5. Is(f, n + 1)
    BY <2>3, <2>4
  <2> HIDE DEF Is
  <2> QED
    BY <2>5
<1>3. MaxConvertDepth \in S
  <2> HIDE DEF S
  <2> QED
    BY <1>1, <1>2, OverLevels, ConvertAssumption
<1> QED
  BY <1>3

\* So is Pairs.
LEMMA PairsEquation ==
    Pairs = [i \in 0..MaxConvertDepth |-> IF i = 0 THEN Returned ELSE Within(Pairs[i - 1])]
<1> SUFFICES \E g : g = [i \in 0..MaxConvertDepth |-> IF i = 0 THEN Returned ELSE Within(g[i - 1])]
  BY DEF Pairs
<1> DEFINE Is(g, n) == g = [i \in 0..n |-> IF i = 0 THEN Returned ELSE Within(g[i - 1])]
           S == {n \in Nat : \E g : Is(g, n)}
<1>1. 0 \in S
  <2> DEFINE g == [i \in 0..0 |-> Returned]
  <2>1. Is(g, 0)
    OBVIOUS
  <2> QED
    BY <2>1
<1>2. ASSUME NEW n \in Nat, n \in S PROVE n + 1 \in S
  <2>1. PICK g : Is(g, n)
    BY <1>2
  <2> DEFINE f == [i \in 0..n+1 |-> IF i = 0 THEN Returned ELSE Within(g[i - 1])]
  <2>2. \A i \in 0..n : f[i] = g[i]
    BY <2>1
  <2> HIDE DEF f
  <2>3. \A i \in 0..n+1 : i # 0 => f[i - 1] = g[i - 1]
    <3> SUFFICES ASSUME NEW i \in 0..n+1, i # 0 PROVE f[i - 1] = g[i - 1]
      OBVIOUS
    <3>1. i - 1 \in 0..n
      OBVIOUS
    <3> QED
      BY <2>2, <3>1
  <2>4. f = [i \in 0..n+1 |-> IF i = 0 THEN Returned ELSE Within(g[i - 1])]
    BY DEF f
  <2>5. Is(f, n + 1)
    BY <2>3, <2>4
  <2> HIDE DEF Is
  <2> QED
    BY <2>5
<1>3. MaxConvertDepth \in S
  <2> HIDE DEF S
  <2> QED
    BY <1>1, <1>2, OverLevels, ConvertAssumption
<1> QED
  BY <1>3

\* The three of them, level by level.
LEMMA Levels ==
    /\ MaxConvertDepth \in Nat \ {0}
    /\ \A n \in 0..MaxConvertDepth : Copy[n] = CopyAll(n, Copy[n - 1])
    /\ Places[0] = Results /\ Pairs[0] = Returned
    /\ \A i \in 0..MaxConvertDepth - 1 :
          Places[i + 1] = Deeper(i + 1, Places[i]) /\ Pairs[i + 1] = Within(Pairs[i])
<1>1. MaxConvertDepth \in Nat \ {0}
  BY ConvertAssumption
<1>2. \A n \in 0..MaxConvertDepth : Copy[n] = CopyAll(n, Copy[n - 1])
  BY CopyEquation
<1>3. Places[0] = Results /\ Pairs[0] = Returned
  BY <1>1, PlacesEquation, PairsEquation
<1>4. ASSUME NEW i \in 0..MaxConvertDepth - 1
      PROVE  Places[i + 1] = Deeper(i + 1, Places[i]) /\ Pairs[i + 1] = Within(Pairs[i])
  <2>1. i + 1 \in 0..MaxConvertDepth /\ i + 1 # 0 /\ (i + 1) - 1 = i
    BY <1>1, <1>4
  <2> QED
    BY <2>1, PlacesEquation, PairsEquation
<1> QED
  BY <1>1, <1>2, <1>3, <1>4

\* What holds at depth 0, and one level deeper if at a level, holds at every
\* level that is looked at.
LEMMA OverDepths ==
    ASSUME NEW S, 0 \in S, \A n \in 0..MaxConvertDepth - 1 : n \in S => n + 1 \in S
    PROVE  0..MaxConvertDepth \subseteq S
<1> DEFINE T == {n \in Nat : n \in 0..MaxConvertDepth => n \in S}
<1>1. 0 \in T
  OBVIOUS
<1>2. ASSUME NEW n \in Nat, n \in T PROVE n + 1 \in T
  BY <1>2, ConvertAssumption
<1> HIDE DEF T
<1>3. Nat \subseteq T
  BY <1>1, <1>2, OverLevels
<1> QED
  BY <1>3 DEF T

-----------------------------------------------------------------------------
\* Tables

\* The keys of a clean sequence are 1..n.
LEMMA SeqKeys ==
    ASSUME NEW K \in SUBSET ConvertKeys, IsFiniteSet(K)
    PROVE  /\ Cardinality(K) \in Nat
           /\ IsSeq(K) => K = 1..Cardinality(K) /\ TableKey \notin K
           /\ IsSeq(K) <=> \E n \in 1..Cardinality(K) : K = 1..n
<1> DEFINE c == Cardinality(K)
<1>1. c \in Nat
  BY FS_CardinalityType
<1>2. IsFiniteSet(1..c) /\ Cardinality(1..c) = c
  BY <1>1, FS_Interval
<1>3. ASSUME IsSeq(K) PROVE K = 1..c /\ TableKey \notin K /\ c # 0
  <2>1. K \subseteq 1..c
    BY <1>1, <1>3, ConvertAssumption DEF IsSeq
  <2>2. K = 1..c
    BY <1>2, <2>1, FS_Subset
  <2>3. c # 0
    BY <1>3, <2>2 DEF IsSeq
  <2> QED
    BY <1>3, <2>2, <2>3, ConvertAssumption DEF IsSeq
<1>4. ASSUME NEW n \in 1..c, K = 1..n PROVE IsSeq(K)
  <2>1. n \in Nat /\ n # 0 /\ Cardinality(1..n) = n
    BY <1>1, FS_Interval
  <2>2. c = n
    BY <1>4, <2>1
  <2>3. K # {} /\ \A k \in K : k \in Int /\ 1 <= k /\ k <= c
    BY <1>4, <2>1, <2>2
  <2>4. K \subseteq Ints
    BY <2>3, ConvertAssumption DEF ConvertKeys
  <2> QED
    BY <2>3, <2>4 DEF IsSeq
<1> QED
  BY <1>1, <1>3, <1>4

\* A table has finitely many entries, from keys to values.
LEMMA Entries ==
    ASSUME ConvertTypeOK, NEW t \in Tables
    PROVE  /\ DOMAIN heap[t] \in SUBSET ConvertKeys
           /\ IsFiniteSet(DOMAIN heap[t])
           /\ \A k \in DOMAIN heap[t] : heap[t][k] \in ConvertValues
<1>1. heap[t] \in UNION {[K -> ConvertValues] : K \in {S \in SUBSET ConvertKeys : IsFiniteSet(S)}}
  BY DEF ConvertTypeOK, Heaps
<1>2. PICK K \in {S \in SUBSET ConvertKeys : IsFiniteSet(S)} : heap[t] \in [K -> ConvertValues]
  BY <1>1
<1> QED
  BY <1>2

\* Copies of values that are no tables.
LEMMA PlainCopy ==
    ASSUME NEW n \in 0..MaxConvertDepth
    PROVE  /\ Copy[n][Scalar] = Data(Scalar)
           /\ \A f \in Funcs : Copy[n][f] = IF f \in hook THEN Data(f) ELSE Error
           /\ \A v : Data(v) # Error
<1>1. Copy[n] = CopyAll(n, Copy[n - 1])
  BY Levels
<1>2. \A v : Data(v) # Error
  BY DEF Data, Error
<1>3. /\ Scalar \in ConvertValues /\ Scalar \notin Tables \cup Funcs
      /\ \A f \in Funcs : f \in ConvertValues /\ f \notin Tables /\ f # Scalar
  BY ConvertAssumption DEF ConvertValues
<1> QED
  BY <1>1, <1>2, <1>3 DEF CopyAll, ConvertValue

\* Copies of tables, by the copies of their entries a level down.
LEMMA TableCopy ==
    ASSUME ConvertTypeOK, NEW n \in 0..MaxConvertDepth, NEW t \in Tables
    PROVE  LET K == DOMAIN heap[t]
               below == [k \in K |-> Copy[n - 1][heap[t][k]]]
           IN /\ Copy[n][t] = Error <=> n = 0 \/ RefusedEntries(K, below)
              /\ Copy[n][t] # Error =>
                   Copy[n][t] = IF IsSeq(K) THEN Array(below) ELSE Map(below)
<1> DEFINE K == DOMAIN heap[t]
           below == [k \in K |-> Copy[n - 1][heap[t][k]]]
<1>1. Copy[n] = CopyAll(n, Copy[n - 1])
  BY Levels
<1>2. t \in ConvertValues /\ t # Scalar /\ t \notin Funcs
  BY ConvertAssumption DEF ConvertValues
<1>3. Copy[n][t] = IF n = 0 THEN Error ELSE CopyEntries(K, below)
  BY <1>1, <1>2 DEF CopyAll, ConvertValue, TooDeep
<1>4. IsSeq(K) => [i \in 1..Cardinality(K) |-> below[i]] = below
  <2>1. IsSeq(K) => K = 1..Cardinality(K)
    BY Entries, SeqKeys
  <2> QED
    BY <2>1
<1> HIDE DEF K, below
<1>5. CopyEntries(K, below) = IF RefusedEntries(K, below) THEN Error
                              ELSE IF IsSeq(K) THEN Array(below) ELSE Map(below)
  BY <1>4 DEF CopyEntries
<1>6. Array(below) # Error /\ Map(below) # Error
  BY DEF Array, Map, Error
<1>7. /\ Copy[n][t] = Error <=> n = 0 \/ RefusedEntries(K, below)
      /\ Copy[n][t] # Error => Copy[n][t] = IF IsSeq(K) THEN Array(below) ELSE Map(below)
  BY <1>3, <1>5, <1>6
<1> QED
  BY <1>7 DEF K, below

\* A table is refused at the last level, for a key that is a reference, or for
\* one of its entries.
LEMMA TableRefused ==
    ASSUME ConvertTypeOK, NEW n \in 0..MaxConvertDepth, NEW t \in Tables
    PROVE  Copy[n][t] = Error <=> \/ n = 0
                                  \/ TableKey \in DOMAIN heap[t]
                                  \/ \E k \in DOMAIN heap[t] : Copy[n - 1][heap[t][k]] = Error
<1> DEFINE K == DOMAIN heap[t]
           below == [k \in K |-> Copy[n - 1][heap[t][k]]]
<1>1. Copy[n][t] = Error <=> n = 0 \/ RefusedEntries(K, below)
  BY TableCopy
<1>2. IsSeq(K) => TableKey \notin K
  BY Entries, SeqKeys
<1>3. RefusedEntries(K, below) <=> TableKey \in K \/ \E k \in K : Copy[n - 1][heap[t][k]] = Error
  BY <1>2 DEF RefusedEntries, MayBeMapKey
<1> QED
  BY <1>1, <1>3

-----------------------------------------------------------------------------
\* What is refused

LEMMA RunValuesFails ==
    ConvertTypeOK =>
      /\ RunValues = Error <=> \E j \in 1..Len(rets) : Copy[MaxConvertDepth][rets[j]] = Error
      /\ RunValues # Error =>
           RunValues.of = [j \in 1..Len(rets) |-> Copy[MaxConvertDepth][rets[j]]]
<1> DEFINE vs == [j \in 1..Len(rets) |-> Copy[MaxConvertDepth][rets[j]]]
<1>1. RunValues = IF \E j \in 1..Len(rets) : vs[j] = Error THEN Error
                  ELSE [kind |-> "values", of |-> vs]
  BY DEF RunValues
<1>2. (\E j \in 1..Len(rets) : vs[j] = Error)
        <=> \E j \in 1..Len(rets) : Copy[MaxConvertDepth][rets[j]] = Error
  OBVIOUS
<1> HIDE DEF vs
<1>3. [kind |-> "values", of |-> vs] # Error
  BY DEF Error
<1>4. [kind |-> "values", of |-> vs].of = vs
  OBVIOUS
<1>5. RunValues # Error => RunValues.of = vs
  BY <1>1, <1>4
<1>6. RunValues = Error <=> \E j \in 1..Len(rets) : vs[j] = Error
  BY <1>1, <1>3
<1> QED
  BY <1>2, <1>5, <1>6 DEF vs

\* Every place that is looked at is a value, at its depth, that is not refused
\* there.
LEMMA PlacesCopied ==
    ASSUME ConvertTypeOK, RunValues # Error
    PROVE  \A p \in Places[MaxConvertDepth] :
              p.depth \in 0..MaxConvertDepth /\ p.at \in ConvertValues
              /\ Copy[MaxConvertDepth - p.depth][p.at] # Error
<1> DEFINE Fine(p) == p.depth \in 0..MaxConvertDepth /\ p.at \in ConvertValues
                      /\ Copy[MaxConvertDepth - p.depth][p.at] # Error
           S == {i \in 0..MaxConvertDepth : \A p \in Places[i] : Fine(p)}
<1>0. MaxConvertDepth \in Nat \ {0}
  BY Levels
<1>1. 0 \in S
  <2>1. \A j \in 1..Len(rets) : Fine([depth |-> 0, at |-> rets[j]])
    <3> SUFFICES ASSUME NEW j \in 1..Len(rets) PROVE Fine([depth |-> 0, at |-> rets[j]])
      OBVIOUS
    <3>1. rets[j] \in ConvertValues
      BY DEF ConvertTypeOK
    <3>2. Copy[MaxConvertDepth][rets[j]] # Error
      BY RunValuesFails
    <3> QED
      BY <1>0, <3>1, <3>2
  <2> HIDE DEF Fine
  <2> QED
    BY <1>0, <2>1, Levels DEF Results
<1>2. ASSUME NEW i \in 0..MaxConvertDepth - 1, i \in S PROVE i + 1 \in S
  <2>1. ASSUME NEW q \in Places[i], q.depth = i, q.at \in Tables, NEW k \in DOMAIN heap[q.at]
        PROVE  Fine([depth |-> i + 1, at |-> heap[q.at][k]])
    <3>1. Copy[MaxConvertDepth - i][q.at] # Error
      BY <1>2, <2>1
    <3>2. MaxConvertDepth - i \in 0..MaxConvertDepth
          /\ (MaxConvertDepth - i) - 1 = MaxConvertDepth - (i + 1)
          /\ i + 1 \in 0..MaxConvertDepth
      BY <1>0
    <3>3. Copy[MaxConvertDepth - (i + 1)][heap[q.at][k]] # Error
      BY <2>1, <3>1, <3>2, TableRefused
    <3>4. heap[q.at][k] \in ConvertValues
      BY <2>1, Entries
    <3> QED
      BY <3>2, <3>3, <3>4
  <2>2. i + 1 \in 0..MaxConvertDepth /\ (i + 1) - 1 = i
    BY <1>0
  <2>3. Places[i + 1] = Deeper(i + 1, Places[i])
    BY Levels
  <2>4. \A p \in Places[i] : Fine(p)
    BY <1>2
  <2> HIDE DEF Fine
  <2>5. \A p \in Places[i + 1] : Fine(p)
    BY <2>1, <2>2, <2>3, <2>4 DEF Deeper
  <2> QED
    BY <2>2, <2>5
<1> HIDE DEF S
<1>3. MaxConvertDepth \in S
  BY <1>0, <1>1, <1>2, OverDepths
<1> QED
  BY <1>3 DEF S

\* The entries of a table that is looked at are looked at next.
LEMMA EntryIsPlace ==
    ASSUME NEW i \in 0..MaxConvertDepth - 1, NEW p \in Places[i], p.depth = i, p.at \in Tables,
           NEW k \in DOMAIN heap[p.at]
    PROVE  [depth |-> i + 1, at |-> heap[p.at][k]] \in Places[i + 1]
<1>1. Places[i + 1] = Deeper(i + 1, Places[i])
  BY Levels
<1>2. (i + 1) - 1 = i
  BY Levels
<1> QED
  BY <1>1, <1>2 DEF Deeper

\* A value that is refused leads to a place that must be.
LEMMA RefusedHasPlace ==
    ASSUME ConvertTypeOK, RunValues = Error
    PROVE  \E p \in Places[MaxConvertDepth] : ~MayCopy(p)
<1> DEFINE Suspect(i, p) == p.depth = i /\ p.at \in ConvertValues
                            /\ Copy[MaxConvertDepth - i][p.at] = Error
           S == {i \in 0..MaxConvertDepth : \/ \E p \in Places[i] : ~MayCopy(p)
                                            \/ \E p \in Places[i] : Suspect(i, p)}
<1>0. MaxConvertDepth \in Nat \ {0}
  BY Levels
<1>1. 0 \in S
  <2>1. PICK j \in 1..Len(rets) : Copy[MaxConvertDepth][rets[j]] = Error
    BY RunValuesFails
  <2>2. rets[j] \in ConvertValues
    BY DEF ConvertTypeOK
  <2>3. Suspect(0, [depth |-> 0, at |-> rets[j]])
    BY <1>0, <2>1, <2>2
  <2>4. [depth |-> 0, at |-> rets[j]] \in Places[0]
    BY Levels DEF Results
  <2> HIDE DEF Suspect
  <2> QED
    BY <1>0, <2>3, <2>4
\* At a place that may be copied, the cause is a table's entry.
<1>2. ASSUME NEW i \in 0..MaxConvertDepth, NEW p \in Places[i], Suspect(i, p), MayCopy(p)
      PROVE  /\ i < MaxConvertDepth /\ p.at \in Tables
             /\ \E k \in DOMAIN heap[p.at] : Copy[MaxConvertDepth - (i + 1)][heap[p.at][k]] = Error
  <2>1. MaxConvertDepth - i \in 0..MaxConvertDepth
        /\ (MaxConvertDepth - i) - 1 = MaxConvertDepth - (i + 1)
    BY <1>0
  <2>2. p.at \in Tables
    <3>1. p.at # Scalar
      BY <1>2, <2>1, PlainCopy
    <3>2. p.at \notin Funcs
      BY <1>2, <2>1, PlainCopy DEF MayCopy
    <3> QED
      BY <1>2, <3>1, <3>2 DEF ConvertValues
  <2>3. i < MaxConvertDepth /\ TableKey \notin DOMAIN heap[p.at]
    BY <1>2, <2>2 DEF MayCopy
  <2>4. MaxConvertDepth - i # 0
    BY <1>0, <2>3
  <2>5. \E k \in DOMAIN heap[p.at] : Copy[(MaxConvertDepth - i) - 1][heap[p.at][k]] = Error
    BY <1>2, <2>1, <2>2, <2>3, <2>4, TableRefused
  <2> QED
    BY <2>1, <2>2, <2>3, <2>5
<1>3. ASSUME NEW i \in 0..MaxConvertDepth - 1, i \in S PROVE i + 1 \in S
  <2>1. i + 1 \in 0..MaxConvertDepth /\ (i + 1) - 1 = i /\ i \in 0..MaxConvertDepth
    BY <1>0
  <2>2. Places[i + 1] = Deeper(i + 1, Places[i])
    BY Levels
  <2>3. CASE \E p \in Places[i] : ~MayCopy(p)
    <3>1. \E p \in Places[i + 1] : ~MayCopy(p)
      BY <2>2, <2>3 DEF Deeper
    <3> QED
      BY <2>1, <3>1
  <2>4. ASSUME NEW p \in Places[i], Suspect(i, p), MayCopy(p) PROVE i + 1 \in S
    <3>1. p.at \in Tables
      BY <1>2, <2>1, <2>4
    <3>2. PICK k \in DOMAIN heap[p.at] : Copy[MaxConvertDepth - (i + 1)][heap[p.at][k]] = Error
      BY <1>2, <2>1, <2>4
    <3> DEFINE q == [depth |-> i + 1, at |-> heap[p.at][k]]
    <3>3. q \in Places[i + 1]
      BY <2>4, <3>1, EntryIsPlace
    <3>4. Suspect(i + 1, q)
      BY <3>1, <3>2, Entries
    <3> HIDE DEF q, Suspect
    <3> QED
      BY <2>1, <3>3, <3>4
  <2> HIDE DEF Suspect
  <2> QED
    BY <1>3, <2>3, <2>4
<1> HIDE DEF S
<1>4. MaxConvertDepth \in S
  BY <1>0, <1>1, <1>3, OverDepths
<1>5. ASSUME NEW p \in Places[MaxConvertDepth], Suspect(MaxConvertDepth, p) PROVE ~MayCopy(p)
  BY <1>0, <1>2, <1>5
<1> HIDE DEF Suspect
<1> QED
  BY <1>4, <1>5 DEF S

\* RunValues refuses exactly what cannot be copied out of a State, for every
\* heap, cyclic or not, and every maxConvertDepth.
THEOREM RefusalIsExact == ConvertTypeOK => ConvertRefusesExactly
<1> SUFFICES ASSUME ConvertTypeOK PROVE ConvertRefusesExactly
  OBVIOUS
<1>0. MaxConvertDepth \in Nat \ {0}
  BY Levels
<1>1. ASSUME RunValues # Error, NEW p \in Places[MaxConvertDepth] PROVE MayCopy(p)
  <2> DEFINE n == MaxConvertDepth - p.depth
  <2>1. p.depth \in 0..MaxConvertDepth /\ Copy[n][p.at] # Error
    BY <1>1, PlacesCopied
  <2>2. n \in 0..MaxConvertDepth /\ (n # 0 => p.depth < MaxConvertDepth)
    BY <1>0, <2>1
  <2> HIDE DEF n
  <2>3. p.at \in Tables => p.depth < MaxConvertDepth /\ TableKey \notin DOMAIN heap[p.at]
    BY <2>1, <2>2, TableRefused
  <2>4. p.at \in Funcs => p.at \in hook
    BY <2>1, <2>2, PlainCopy
  <2> QED
    BY <2>3, <2>4 DEF MayCopy
<1> QED
  BY <1>1, RefusedHasPlace DEF ConvertRefusesExactly

-----------------------------------------------------------------------------
\* What copies are like

\* The copy of a table has the table's keys, and the copies of its entries; its
\* kind is by the keys.
LEMMA TableAlike ==
    ASSUME ConvertTypeOK, NEW n \in 0..MaxConvertDepth, NEW t \in Tables, Copy[n][t] # Error
    PROVE  LET K == DOMAIN heap[t]
               c == Copy[n][t]
           IN /\ n # 0
              /\ DOMAIN c.of = K
              /\ c.kind = IF \E m \in 1..Cardinality(K) : K = 1..m THEN "array" ELSE "map"
              /\ \A k \in K : c.of[k] = Copy[n - 1][heap[t][k]] /\ c.of[k] # Error
<1> DEFINE K == DOMAIN heap[t]
           below == [k \in K |-> Copy[n - 1][heap[t][k]]]
           c == Copy[n][t]
<1>1. n # 0 /\ \A k \in K : Copy[n - 1][heap[t][k]] # Error
  BY TableRefused
<1>2. c = IF IsSeq(K) THEN Array(below) ELSE Map(below)
  BY TableCopy
<1>3. IsSeq(K) <=> \E m \in 1..Cardinality(K) : K = 1..m
  BY Entries, SeqKeys
<1>4. DOMAIN below = K /\ \A k \in K : below[k] = Copy[n - 1][heap[t][k]]
  OBVIOUS
<1> HIDE DEF K, below, c
<1>5. c.of = below /\ c.kind = IF IsSeq(K) THEN "array" ELSE "map"
  BY <1>2 DEF Array, Map
<1>6. /\ n # 0
      /\ DOMAIN c.of = K
      /\ c.kind = IF \E m \in 1..Cardinality(K) : K = 1..m THEN "array" ELSE "map"
      /\ \A k \in K : c.of[k] = Copy[n - 1][heap[t][k]] /\ c.of[k] # Error
  BY <1>1, <1>3, <1>4, <1>5
<1> QED
  BY <1>6 DEF K, c

\* What stands for a value anywhere in the results is a copy of it, on some level.
LEMMA PairsAreCopies ==
    ASSUME ConvertTypeOK, RunValues # Error
    PROVE  \A p \in Pairs[MaxConvertDepth] :
              /\ p.at \in ConvertValues /\ p.as # Error
              /\ \E n \in 0..MaxConvertDepth : p.as = Copy[n][p.at]
<1> DEFINE Fine(p) == /\ p.at \in ConvertValues /\ p.as # Error
                      /\ \E n \in 0..MaxConvertDepth : p.as = Copy[n][p.at]
           S == {i \in 0..MaxConvertDepth : \A p \in Pairs[i] : Fine(p)}
<1>0. MaxConvertDepth \in Nat \ {0}
  BY Levels
<1>1. 0 \in S
  <2>1. ASSUME NEW j \in 1..Len(rets) PROVE Fine([at |-> rets[j], as |-> RunValues.of[j]])
    <3>1. rets[j] \in ConvertValues
      BY DEF ConvertTypeOK
    <3>2. RunValues.of[j] = Copy[MaxConvertDepth][rets[j]]
          /\ Copy[MaxConvertDepth][rets[j]] # Error
      BY RunValuesFails
    <3> QED
      BY <1>0, <3>1, <3>2
  <2> HIDE DEF Fine
  <2> QED
    BY <1>0, <2>1, Levels DEF Returned
<1>2. ASSUME NEW i \in 0..MaxConvertDepth - 1, i \in S PROVE i + 1 \in S
  <2>1. ASSUME NEW q \in Pairs[i], q.at \in Tables, NEW k \in DOMAIN heap[q.at]
        PROVE  Fine([at |-> heap[q.at][k], as |-> q.as.of[k]])
    <3>1. PICK n \in 0..MaxConvertDepth : q.as = Copy[n][q.at]
      BY <1>2
    <3>2. q.as # Error
      BY <1>2
    <3>3. n # 0 /\ q.as.of[k] = Copy[n - 1][heap[q.at][k]] /\ q.as.of[k] # Error
      BY <2>1, <3>1, <3>2, TableAlike
    <3>4. n - 1 \in 0..MaxConvertDepth
      BY <1>0, <3>3
    <3>5. heap[q.at][k] \in ConvertValues
      BY <2>1, Entries
    <3> QED
      BY <3>3, <3>4, <3>5
  <2>2. i + 1 \in 0..MaxConvertDepth
    BY <1>0
  <2>3. Pairs[i + 1] = Within(Pairs[i])
    BY Levels
  <2>4. \A p \in Pairs[i] : Fine(p)
    BY <1>2
  <2> HIDE DEF Fine
  <2>5. \A p \in Pairs[i + 1] : Fine(p)
    BY <2>1, <2>3, <2>4 DEF Within
  <2> QED
    BY <2>2, <2>5
<1> HIDE DEF S
<1>3. MaxConvertDepth \in S
  BY <1>0, <1>1, <1>2, OverDepths
<1> QED
  BY <1>3 DEF S

\* What RunValues returns is a faithful copy: every part of it has the shape and
\* the data of the value it stands for.
THEOREM CopiesAreFaithful == ConvertTypeOK => ConvertCopiesAlike
<1> SUFFICES ASSUME ConvertTypeOK, RunValues # Error
             PROVE  /\ DOMAIN RunValues.of = 1..Len(rets)
                    /\ \A p \in Pairs[MaxConvertDepth] : Alike(p)
  BY DEF ConvertCopiesAlike
<1>1. DOMAIN RunValues.of = 1..Len(rets)
  BY RunValuesFails
<1>2. ASSUME NEW p \in Pairs[MaxConvertDepth] PROVE Alike(p)
  <2>1. p.at \in ConvertValues /\ p.as # Error
    BY PairsAreCopies
  <2>2. PICK n \in 0..MaxConvertDepth : p.as = Copy[n][p.at]
    BY PairsAreCopies
  <2>3. CASE p.at \in Tables
    BY <2>1, <2>2, <2>3, TableAlike DEF Alike
  <2>4. CASE p.at \notin Tables
    <3>1. p.as = Data(p.at)
      BY <2>1, <2>2, <2>4, PlainCopy DEF ConvertValues
    <3> QED
      BY <2>4, <3>1 DEF Alike
  <2> QED
    BY <2>3, <2>4
<1> QED
  BY <1>1, <1>2

\* Tables that lead to each other are never copied, however deep conversion may
\* go: it ends with an error.
THEOREM CyclesAreRefused ==
    ASSUME ConvertTypeOK,
           NEW C \in SUBSET Tables, \A t \in C : \E k \in DOMAIN heap[t] : heap[t][k] \in C,
           NEW j \in 1..Len(rets), rets[j] \in C
    PROVE  RunValues = Error
<1> DEFINE S == {i \in 0..MaxConvertDepth : \E p \in Places[i] : p.depth = i /\ p.at \in C}
<1>0. MaxConvertDepth \in Nat \ {0}
  BY Levels
<1>1. 0 \in S
  <2>1. [depth |-> 0, at |-> rets[j]] \in Places[0]
    BY Levels DEF Results
  <2> QED
    BY <1>0, <2>1
<1>2. ASSUME NEW i \in 0..MaxConvertDepth - 1, i \in S PROVE i + 1 \in S
  <2>1. PICK p \in Places[i] : p.depth = i /\ p.at \in C
    BY <1>2
  <2>2. PICK k \in DOMAIN heap[p.at] : heap[p.at][k] \in C
    BY <2>1
  <2> DEFINE q == [depth |-> i + 1, at |-> heap[p.at][k]]
  <2>3. i + 1 \in 0..MaxConvertDepth /\ (i + 1) - 1 = i
    BY <1>0
  <2>4. q \in Places[i + 1]
    <3>1. p.depth = i /\ p.at \in Tables
      BY <2>1
    <3> QED
      BY <3>1, <2>2, EntryIsPlace
  <2>5. q.depth = i + 1 /\ q.at \in C
    BY <2>2
  <2> HIDE DEF q
  <2> QED
    BY <2>3, <2>4, <2>5
<1> HIDE DEF S
<1>3. MaxConvertDepth \in S
  BY <1>0, <1>1, <1>2, OverDepths
<1>4. PICK p \in Places[MaxConvertDepth] : p.depth = MaxConvertDepth /\ p.at \in C
  BY <1>3 DEF S
<1>5. ~MayCopy(p)
  BY <1>0, <1>4 DEF MayCopy
<1> QED
  BY <1>5, RefusalIsExact DEF ConvertRefusesExactly
=============================================================================
