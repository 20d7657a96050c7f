SPECIFICATION NetSpec
CONSTANTS
    Players = {p1, p2}
    Forms = {f1}
    Mounts = {}
    Cells = {c1}
    NoOne = NoOne
    NoCell = NoCell
    PlayerForm = PlayerForm
    Founders = {p1, p2}
    MaxEntry = 1
    MaxId = 1
    MaxCookie = 1
    MaxInFlight = 2
SYMMETRY Symmetry
CHECK_DEADLOCK FALSE
INVARIANT WaitsUnmanaged
