SPECIFICATION Spec
CONSTANTS
    c1 = c1
    c2 = c2
    N = 2
    Client = {c1, c2}
    NoLimit = NoLimit
    EjectAfter = 1
    MaxEjection = 2
    Weights = {1}
    Limits = {1, NoLimit}
    MaxAttempts = 3
    MaxChanges = 1
SYMMETRY Symmetry
INVARIANTS ActiveCountsSlots HardCap WeightsBalance
PROPERTIES KeepsLimits EjectionRunsItsTime PicksAvoidEjected
