SPECIFICATION Spec
CONSTANTS
    d1 = d1
    d2 = d2
    u1 = u1
    u2 = u2
    u3 = u3
    u4 = u4
    u5 = u5
    Debates = {d1}
    Users = {u1, u2, u3}
    DebateOrder <- OneDebate
    Title <- OwnTitles
    SkipPreRegistration = {d1}
    SubscriptionEnd <- EndAtZero
    InitialRow <- Rows_1_1
    InitialParticipants <- AllButU3
    NullRepresentant = NullRepresentant
    Submitted <- NoParams
    ApiMayFail = TRUE
    Horizon = 1
    MaxRequests = 2
    MaxThreads = 2
    MaxRound = 2
    MaxGroups = 5
    MaxRestarts = 1
INVARIANTS
    TypeOK
    LinkedGroupsDisjoint
    ChannelsApart
PROPERTIES
    EliminatedStayOut
SYMMETRY SymmetryButU3
CHECK_DEADLOCK FALSE
