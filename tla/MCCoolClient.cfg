SPECIFICATION CFairSpec
CONSTANTS
    MaxEvents = 3
    MaxQueue = 1
    BatchSize = 2
    MaxRetries = 1
    ChannelOpen = FALSE
    SealThrows = {}
    ReceiptThrows = {}
    Calls = {c1, c2, c3}
    RequireAttestation = FALSE
    MaxOpens = 2
INVARIANTS
    CallsCarriedOn
PROPERTIES
    RecordSettlesWhileOpen
    UnattestedIsReported
