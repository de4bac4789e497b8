SPECIFICATION FairSpec
CONSTANTS
    d1 = d1
    d2 = d2
    u1 = u1
    u2 = u2
    u3 = u3
    u4 = u4
    u5 = u5
    Debates = {d1, d2}
    Users = {u1, u2, u3, u4}
    DebateOrder <- TwoDebates
    Title <- SameTitle
    SkipPreRegistration = {d1, d2}
    SubscriptionEnd <- EndAtZero
    InitialRow <- Rows_2_1
    InitialParticipants <- Everybody
    NullRepresentant = NullRepresentant
    Submitted <- NoParams
    ApiMayFail = FALSE
    Horizon = 1
    MaxRequests = 0
    MaxThreads = 1
    MaxRound = 3
    MaxGroups = 8
    MaxRestarts = 0
INVARIANTS
    GroupsInv
PROPERTIES
    IsATournament
    DebateEnds
CHECK_DEADLOCK FALSE
