CONSTANTS
    Clients = {c1, c2}
    Workers = {w1, w2}
    NoWorker = NoWorker
    Texts <- MCTextsOfAnyLength
    Nul <- MCNul
    BufferSize = 3
    MaxWrites = 4
    MaxFaults = 0
SPECIFICATION Spec
CHECK_DEADLOCK FALSE

INVARIANTS HandledAsWritten
