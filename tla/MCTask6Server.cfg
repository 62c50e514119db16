CONSTANTS
    Workers = {w1, w2}
    Main = Main
    Threads = {w1, w2, Main}
    NoThread = NoThread
    MaxClients = 2
    Pipes = {0, 1}
    NoPipe = NoPipe
    ForeignKeys = {"shutdown"}
    EarlyConnectPosts = {FALSE}
    AssertsEnabled = FALSE
    MaxWaitObjects = 2
    MaxMsgs = 2
    MaxSessions = 0
    MaxPort = 6
SPECIFICATION Task6Spec
SYMMETRY MCSymmetry
INVARIANTS Task6TypeOK OneAttendant ConnectedIsServed JoinNeverStuck
PROPERTIES PipeServerSpec InstancesAreMailboxes
