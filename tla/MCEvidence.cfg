SPECIFICATION Spec
CONSTANTS
    LogKey <- MCLogKey
    Witnesses <- MCWitnesses
    Service <- MCService
    Hosts = {h1, h2}
    Images = {"good", "zero"}
    Approved = "good"
    AwsRoot <- MCRoot
    NsmCert <- MCCert
    Events = {e1, e2, bad}
    BadEvents = {bad}
    Count = 1
    MaxAge = 1
    Chips = {c1, c2}
    Workloads = {"good", "other"}
    Pinned = "good"
    Floor = 1
    Gpus = {g1, g2}
    Digests = {d1, d2}
    Budgets <- MCBudgets
CONSTRAINT InOrder
INVARIANTS
    CheckpointExact
    HeadsConsistent
    ExposureBounded
    PublicationOutlives
    OneKeyPerInstance
    BundlesTellAll
    AdaptersTruthful
    StampsHold
CHECK_DEADLOCK FALSE
