SPECIFICATION NetSpec
CONSTANTS
    Players = {p1, p2}
    Forms = {f1}
    Mounts = {}
    Cells = {c1}
    NoOne = NoOne
    NoCell = NoCell
    PlayerForm = PlayerForm
    Founders = {}
    MaxEntry = 0
    MaxId = 2
    MaxCookie = 2
    MaxInFlight = 2
SYMMETRY Symmetry
CHECK_DEADLOCK FALSE
INVARIANT DroppedIsNotOwned
