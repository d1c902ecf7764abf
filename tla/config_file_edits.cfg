SPECIFICATION Spec
CONSTANTS
    n1 = n1
    n2 = n2
    Node = {n1, n2}
    Handler = {h1}
    Groups = {g0, g1}
    Routes = {r0}
    InitGroups = g0
    InitRoutes = r0
    AdminNode = {}
    CliNode = {n1}
    EditNode = {n1}
    CrashNode = {n2}
    PersistFaults = TRUE
    LossyNet = TRUE
    MaxVersion = 1
    MaxMsgs = 1
    MaxBoots = 1
    None = None
INVARIANTS IndexCurrent
PROPERTIES NeverGoesBack
