SPECIFICATION FairSpec
CONSTANTS
    MaxEvents = 4
    MaxQueue = 2
    BatchSize = 2
    MaxRetries = 1
    ChannelOpen = TRUE
    SealThrows = {2, 3}
    ReceiptThrows = {2}
INVARIANTS
    Accounting
    NoStall
    SealedInOrder
    PromisesAgree
PROPERTIES
    ImplementsContract
    EventuallyAccounted
    CloseLetsDrainFinish
