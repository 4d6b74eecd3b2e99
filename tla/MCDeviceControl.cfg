CONSTANTS
    p1 = p1
    d1 = d1
    d2 = d2
    j1 = j1
    j2 = j2
    Sessions = {1, 2, 3}
    Ident <- Identities
    Bound <- BoundToFirst
    Passwords = {p1}
    Devices = {d1, d2}
    Epochs = {"e1", "e2"}
    Jobs = {j1, j2}
    MaxIps = 2
    PublicLimit = 2
    CommandCap = 3
    MaxTasks = 2
    MaxEvents = 1
SPECIFICATION Spec
INVARIANTS EpochSerial TunnelEpochCurrent TunnelAuthorized TunnelListed
PROPERTY DisconnectSparesNewer
SYMMETRY Alike
CHECK_DEADLOCK FALSE
