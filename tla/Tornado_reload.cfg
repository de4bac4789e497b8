\* An event that Tornado processes after the dump of its queues
CONSTANTS
    b1 = b1
    b2 = b2
    Browsers = {b1, b2}
    Attentive = {b1}
    NoticeKinds = {"message", "flags"}
    VirtualKinds = {"flags"}
    Bounds <- BoundsRestart
SPECIFICATION Spec
INVARIANT ReloadKeepsEvents
CHECK_DEADLOCK FALSE
