SPECIFICATION FairSpec
CONSTANTS
    n1 = n1
    n2 = n2
    n3 = n3
    None = None
    Node = {n1, n2, n3}
    Host = {n1}
    LeaveNode = {n1}
    KillNode = {n1}
    UnhealthyAfter = 1
    ClockSteps = FALSE
    LateClock = TRUE
    Aging = {n1}
    SyncNode = {n2}
    Bootstrap <- MCFoundByOne
    LossyNet = FALSE
    MaxFlips = 1
    MaxBoots = 1
    MaxMsgs = 2
CHECK_DEADLOCK FALSE
PROPERTIES HealthConverges StoppedGoStale
