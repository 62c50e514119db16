CONSTANTS
    Pipes = {p1}
    Threads = {t1, t2}
    NoThread = NoThread
    NoPipe = NoPipe
    ForeignKeys = {"shutdown"}
    EarlyConnectPosts = {TRUE, FALSE}
    MaxMsgs = 2
    MaxSessions = 2
    MaxPort = 1
SPECIFICATION FairSpec
INVARIANTS TypeOK Inv OverlappedFree ServiceNeverInvalid
PROPERTIES ZombieExact ReadDrains
