CONSTANTS
    Workers = {w1, w2}
    Main = Main
    Threads = {w1, w2, Main}
    NoThread = NoThread
    MaxClients = 1
    Pipes = {0}
    NoPipe = NoPipe
    ForeignKeys = {"shutdown"}
    EarlyConnectPosts = {TRUE}
    AssertsEnabled = TRUE
    MaxWaitObjects = 2
    MaxMsgs = 1
    MaxSessions = 0
    MaxPort = 6
SPECIFICATION Task6Spec
INVARIANTS EveryPipeIsServed
