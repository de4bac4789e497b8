\* The event queues of one user, with restarts, collections and lost answers
CONSTANTS
    b1 = b1
    b2 = b2
    Browsers = {b1, b2}
    Attentive = {b1}
    NoticeKinds = {"message", "flags"}
    VirtualKinds = {"flags"}
    Bounds <- BoundsAll
SPECIFICATION FairSpec
INVARIANTS TypeOK QueuesWellFormed NothingSkipped SleepsOnlyWhenEmpty PollsAttended NoMessageMissed
PROPERTIES DeliversInOrder PagesCatchUp
CHECK_DEADLOCK FALSE
