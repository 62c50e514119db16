CONSTANTS
    p1 = p1
    p2 = p2
    p3 = p3
    exe = exe
    copy = copy
    Servers = {p1, p2, p3}
    Path <- MCPath
    NoValue = NoValue
    Nobody = Nobody
    Debug = {p1}
    MaxKills = 2
SPECIFICATION Spec
CHECK_DEADLOCK FALSE
INVARIANTS TypeOK SetterCleansUp HealedOnceRunning FailsOnlyDisturbed
