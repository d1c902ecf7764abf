SPECIFICATION Spec
CONSTANTS
    n1 = n1
    n2 = n2
    Node = {n1, n2}
    Handler = {h1}
    Groups = {g0, g1}
    Routes = {r0}
    InitGroups = g0
    InitRoutes = r0
    AdminNode = {}
    CliNode = {n1}
    EditNode = {}
    CrashNode = {}
    PersistFaults = FALSE
    LossyNet = TRUE
    MaxVersion = 2
    MaxMsgs = 2
    MaxBoots = 0
    None = None
PROPERTIES FileInVersionOrder
