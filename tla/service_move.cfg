CONSTANTS
    Unset = Unset
    Cluster = {"A", "B"}
    Group = {"g1", "g2"}
    Name = {"web", "api"}
    Node = {"n1"}
    Specs <- MCSpecs
    RouteLists <- MCRouteLists
    Configs <- MCConfigs
    Sources <- MCSources
    Targets <- MCTargets
    MaxOps = 3

SPECIFICATION Spec
CHECK_DEADLOCK FALSE
INVARIANTS CatalogWellFormed MoveAllOrNothing ServiceKept
