SPECIFICATION Spec
CONSTANTS
    n1 = n1
    n2 = n2
    n3 = n3
    None = None
    Node = {n1, n2, n3}
    Host = {n1}
    LeaveNode = {}
    KillNode = {n1}
    UnhealthyAfter = 1
    ClockSteps = TRUE
    LateClock = FALSE
    Aging = {}
    SyncNode = {n2}
    Bootstrap <- MCBootstrap
    LossyNet = TRUE
    MaxFlips = 1
    MaxBoots = 1
    MaxMsgs = 2
INVARIANTS OwnReportIsNewest
PROPERTIES HealthNeverGoesBack
