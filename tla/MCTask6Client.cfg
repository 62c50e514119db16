CONSTANTS
    Caller = Caller
    Threads = {Caller}
    NoThread = NoThread
    AssertsEnabled = FALSE
    MaxWrites = 1
    MaxOpens = 1
    MaxReports = 2
    MaxStops = 2
SPECIFICATION ClientFairSpec
INVARIANTS ClientTypeOK WaitTellsTheTruth SentOnce
PROPERTIES WriteReported GreetingSent
