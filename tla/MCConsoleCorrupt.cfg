SPECIFICATION Spec
CONSTANTS
    c1 = c1
    c2 = c2
    ui = ui
    Procs = {c1, ui}
    Ui = ui
    First <- MCFirst
    Names = {"record"}
    Calendars = {1}
    Events <- MCEvents
    Contents <- MCContents
    Path <- MCPath
    Environment = "prod"
    MaxRecords = 2
    Budgets <- MCBudgets
    MaxBlocks = 1
INVARIANT CorruptFilesReported
CHECK_DEADLOCK FALSE
