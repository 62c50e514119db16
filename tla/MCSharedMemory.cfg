CONSTANTS
    Clients = {c1, c2}
    Workers = {w1, w2}
    NoWorker = NoWorker
    Texts <- MCTexts
    Nul <- MCNul
    BufferSize = 3
    MaxWrites = 4
    MaxFaults = 1
SPECIFICATION FairSpec
CHECK_DEADLOCK FALSE
INVARIANTS TypeOK OneToken MemoryExclusive EndsOnFullText
PROPERTIES MailboxSpec EveryWriteHandled MemoryFreedAgain
