\* Two messages for one user: a restart and two failures, or a failure and a
\* change of the period
CONSTANTS
    Users = {u1}
    u1 = u1
    MessageIds = {m1, m2}
    m1 = m1
    m2 = m2
    Recipient <- Recipients
    Periods = {1, 2}
    Bounds <- BoundsAll
SPECIFICATION FairSpec
INVARIANTS TypeOK WakesUp OneBatch NoticesSurvive EmailedOnce
PROPERTIES RowsGoOut NoticesAreTaken
CHECK_DEADLOCK FALSE
