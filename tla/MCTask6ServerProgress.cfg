CONSTANTS
    Workers = {w1, w2, w3}
    Main = Main
    Threads = {w1, w2, w3, Main}
    NoThread = NoThread
    MaxClients = 1
    Pipes = {0}
    NoPipe = NoPipe
    ForeignKeys = {"shutdown"}
    EarlyConnectPosts = {FALSE}
    AssertsEnabled = FALSE
    MaxWaitObjects = 3
    MaxMsgs = 3
    MaxSessions = 0
    MaxPort = 6
SPECIFICATION Task6FairSpec
PROPERTIES MessageHandled ShutdownCompletes WorkersEnd
