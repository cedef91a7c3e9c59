SPECIFICATION ClientFairSpec
CONSTANTS
    Commands = {c1, c2, c3}
    Unsettled = Unsettled
    Error = Error
    MaxConns = 3
    MaxCloses = 1
INVARIANT
    OwnReplyUntilClosed
PROPERTY
    CommandsSettle
CHECK_DEADLOCK FALSE
