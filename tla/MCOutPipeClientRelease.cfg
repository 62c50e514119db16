CONSTANTS
    Threads = {t1, t2}
    NoThread = NoThread
    AssertsEnabled = FALSE
    MaxWrites = 3
    MaxOpens = 2
    MaxReports = 3
SPECIFICATION Spec
CHECK_DEADLOCK FALSE
INVARIANTS ReportsAreTrue
