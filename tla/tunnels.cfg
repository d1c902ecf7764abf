SPECIFICATION Spec
CONSTANTS
    Taker = {c1, c2}
    Stream = {s1, s2}
    Task = {s1, s2}
    Worker = {w1}
    Session = {k1, k2}
    Scenario <- MCScenario
    None = none
    Conn = conn
INVARIANTS
    NoLostWakeup
    BridgedToService
    DrainedIsIdle
CHECK_DEADLOCK FALSE
PROPERTIES
    HandsOver
    EveryTunnelDecided
    ZeroEndsDrain
