SPECIFICATION ClientSpec
CONSTANTS
    Commands = {c1, c2}
    Unsettled = Unsettled
    Error = Error
    MaxConns = 2
    MaxCloses = 1
INVARIANT OwnReply
CHECK_DEADLOCK FALSE
