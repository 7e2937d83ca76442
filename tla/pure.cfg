SPECIFICATION PureSpec
CONSTANTS
    Unset = Unset
    Malformed = Malformed
    Durations = {"idleTTL", "execTimeout"}
    Default <- MCDefault
    MaxStatesSet <- MCMaxStates
    BudgetSet <- MCBudgets
    DurationSet <- MCDurations
    GrowthSet <- MCGrowth
    Samples = 8
    DefaultPer = 10
    IntBits = 5
    CodeConfigs <- MCCodeConfigs
    t1 = t1
    t2 = t2
    t3 = t3
    Tables = {t1, t2, t3}
    Scalar = Scalar
    Funcs = {func, userdata}
    TableKey = TableKey
    Names = {name}
    Ints = {1, 2}
    MaxConvertDepth = 2
INVARIANTS
    PrecedenceHolds
    FailsForCause
    StartsSound
    ConvertRefusesExactly
    ConvertCopiesAlike
CHECK_DEADLOCK FALSE
