SPECIFICATION Spec
CONSTANTS
    c1 = c1
    c2 = c2
    ui = ui
    Procs = {c1, c2, ui}
    Ui = ui
    First <- MCFirst
    Names = {"record"}
    Calendars = {1, 2}
    Events <- MCEvents
    Contents <- MCContents
    Path <- MCPath
    Environment = "prod"
    MaxRecords = 2
    Budgets <- MCBudgets
    MaxBlocks = 1
INVARIANTS
    ReceiptsStayValid
    AnchorsTruthful
    ProofsStable
    KeptUntilDisturbed
    HistoryJoinsUp
SYMMETRY Symmetric
CHECK_DEADLOCK FALSE
