SPECIFICATION FairSpec
CONSTANTS
    a = a
    b = b
    Null = Null
    Members = {a, b}
    Given <- AnySeats
    AddedOptions = {1}
    NullRepresentant = Null
    ApiMayFail = TRUE
    MaxVoteCount = 2
    MaxSelections = 2
INVARIANTS
    TypeOK
    CountedWithinVoters
    MajorityElected
    SeatsFilled
    RowsAreShown
PROPERTIES
    VoteEnds
    IsAnElection
CHECK_DEADLOCK FALSE
