\* A row that is written between the select and the delete of a batch
CONSTANTS
    Users = {u1}
    u1 = u1
    MessageIds = {m1, m2}
    m1 = m1
    m2 = m2
    Recipient <- Recipients
    Periods = {1}
    Bounds <- BoundsOneStart
SPECIFICATION Spec
PROPERTY BatchOnlyIsDeleted
CHECK_DEADLOCK FALSE
