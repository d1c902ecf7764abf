SPECIFICATION Spec
CONSTANTS
    g = g
    h = h
    a = a
    b = b
    n1 = n1
    self = self
    filtered = filtered
    Group = {g, h, filtered}
    Name = {a, b}
    Node = {n1}
    Self = self
    FilterGroups = {g, h}
    FilterServices = {}
    Port = {1, 2}
    Ephemeral = {2}
    NoPort = NoPort
    Info = {1, 2}
    None = None
    MaxTasks = 3
    MaxChanges = 2
    Configs <- MCConfigs
INVARIANTS ListedIsServed NoOrphan OneBalancer
PROPERTIES Settles
CHECK_DEADLOCK FALSE
