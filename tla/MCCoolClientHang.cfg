SPECIFICATION CFairSpec
CONSTANTS
    MaxEvents = 1
    MaxQueue = 1
    BatchSize = 2
    MaxRetries = 1
    ChannelOpen = TRUE
    SealThrows = {}
    ReceiptThrows = {}
    Calls = {c1}
    RequireAttestation = TRUE
    MaxOpens = 1
PROPERTIES
    RecordSettles
