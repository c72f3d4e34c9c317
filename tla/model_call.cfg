CONSTANTS
    Attempts = 3
    BaseDelay = 1
    MaxDelay = 2
    MaxWait = 5
    Deadline = 9
    AttemptTimeout = 5
    MinTimeout = 1
    NoticeTimeout = 2
    Lag = 1
    Asks <- ShortAsks
    MaxDeltas = 2
SPECIFICATION FairSpec
CHECK_DEADLOCK FALSE
INVARIANT OneAttemptOnScreen
PROPERTY KeepsCallPromise
PROPERTY CallEnds
