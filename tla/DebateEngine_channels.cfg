SPECIFICATION Spec
CONSTANTS
    d1 = d1
    d2 = d2
    u1 = u1
    u2 = u2
    u3 = u3
    u4 = u4
    u5 = u5
    Debates = {d1}
    Users = {u1, u2}
    DebateOrder <- OneDebate
    Title <- OwnTitles
    SkipPreRegistration = {d1}
    SubscriptionEnd <- EndAtZero
    InitialRow <- Rows_1_1
    InitialParticipants <- Everybody
    NullRepresentant = NullRepresentant
    Submitted <- NoParams
    ApiMayFail = FALSE
    Horizon = 1
    MaxRequests = 0
    MaxThreads = 1
    MaxRound = 1
    MaxGroups = 6
    MaxRestarts = 1
INVARIANTS
    OnlyOwnChannel
CHECK_DEADLOCK FALSE
