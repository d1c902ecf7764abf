CONSTANTS
    N = 3
    Client = {c1}
    NoLimit = NoLimit
    Weights = {0, 1, 2, 4}
    Limits = {NoLimit}
    MaxAttempts = 3
    EjectAfter = 3
    MaxEjection = 12
    Unset = Unset
    Version = {"v1", "v2"}
    Service = web
    RouteTables <- MCRouteTables
    Requests <- MCRequests
    MaxTurns = 8

SPECIFICATION RoundRobinSpec
CHECK_DEADLOCK FALSE
INVARIANTS SmoothShare WeightsBounded PrefixOnSegments TicketsByWeight
