SPECIFICATION Spec
CONSTANTS
    a = a
    b = b
    Null = Null
    Members = {a, b}
    Given <- OneSeat
    AddedOptions = {}
    NullRepresentant = Null
    ApiMayFail = FALSE
    MaxVoteCount = 2
    MaxSelections = 4
INVARIANTS
    ShownIsCounted
CHECK_DEADLOCK FALSE
