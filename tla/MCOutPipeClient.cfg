CONSTANTS
    Threads = {t1, t2, t3}
    NoThread = NoThread
    AssertsEnabled = TRUE
    MaxWrites = 4
    MaxOpens = 2
    MaxReports = 4
SPECIFICATION FairSpec
CHECK_DEADLOCK FALSE
INVARIANTS TypeOK ReportsAreTrue
PROPERTIES LockIsLeft
