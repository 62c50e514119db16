CONSTANTS
    Pushers = {w1, w2}
    Main = Main
    Poppers = {Main}
    NoThread = NoThread
    AssertsEnabled = TRUE
    MaxTraffic = 1
SPECIFICATION LifeFairSpec
INVARIANTS LifeTypeOK SemaphoreCounts PopNeverEmpty NoUseAfterDestroy
PROPERTIES MessageShown StopEnds
