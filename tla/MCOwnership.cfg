SPECIFICATION Spec
CONSTANTS
    Players = {p1, p2, p3}
    Forms = {f1, f2}
    Mounts = {f2}
    Cells = {c1, c2}
    NoOne = NoOne
    NoCell = NoCell
    PlayerForm = PlayerForm
    MaxId = 2
SYMMETRY Symmetry
CHECK_DEADLOCK FALSE
INVARIANTS
    OwnershipInv
    OwnersAreOnline
    OneCharacterPerForm
PROPERTY RefusalsStand
