SPECIFICATION FairSpec
CONSTANTS
    n1 = n1
    n2 = n2
    Node = {n1, n2}
    Handler = {h1}
    Groups = {g0, g1}
    Routes = {r0}
    InitGroups = g0
    InitRoutes = r0
    AdminNode = {n1}
    CliNode = {}
    EditNode = {}
    CrashNode = {n1}
    PersistFaults = FALSE
    LossyNet = FALSE
    MaxVersion = 2
    MaxMsgs = 5
    MaxBoots = 1
    None = None
INVARIANTS TypeOK VersionDeterminesConfig IndexTornOnlyInRebuild
PROPERTIES RestartKeepsConfig Convergence
