SPECIFICATION Spec
CONSTANTS
    Populations <- MCPopulations
    Limits <- MCLimits
INVARIANTS
    TypeOK
    LoopInv
    EverybodyInOneGroup
    BalancedAndBounded
    SizesAsGroupSplit
CHECK_DEADLOCK FALSE
