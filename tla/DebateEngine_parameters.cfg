SPECIFICATION Spec
CONSTANTS
    d1 = d1
    d2 = d2
    u1 = u1
    u2 = u2
    u3 = u3
    u4 = u4
    u5 = u5
    Debates = {d1}
    Users = {u1, u2}
    DebateOrder <- OneDebate
    Title <- OwnTitles
    SkipPreRegistration = {}
    SubscriptionEnd <- EndAtZero
    InitialRow <- Rows_Null
    InitialParticipants <- Everybody
    NullRepresentant = NullRepresentant
    Submitted <- Params_1_1_1
    ApiMayFail = FALSE
    Horizon = 2
    MaxRequests = 1
    MaxThreads = 2
    MaxRound = 2
    MaxGroups = 6
    MaxRestarts = 0
INVARIANTS
    LinkedGroupsDisjoint
    OneThreadInARound
    OnlyCurrentRoundOpen
PROPERTIES
    IsATournament
SYMMETRY Symmetry
CHECK_DEADLOCK FALSE
