SPECIFICATION HttpSpec
CONSTANTS
    r1 = r1
    r2 = r2
    N = 3
    Client = {r1, r2}
    NoLimit = NoLimit
    Weights = {1}
    Limits = {1}
    EjectAfter = 1
    MaxEjection = 1
    MaxAttempts = 3
    RetryCost = 3
    BudgetMax = 6
    MaxRequests = 2
SYMMETRY Symmetry
CHECK_DEADLOCK FALSE
INVARIANTS ActedOnOnce AnswerBeatsError TwoSlotsAtMost RetriesWithinBudget ActiveCountsSlots
PROPERTIES KeepsLimits
