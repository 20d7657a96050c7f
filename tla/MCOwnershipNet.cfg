SPECIFICATION FairNetSpec
CONSTANTS
    Players = {p1, p2}
    Forms = {f1}
    Mounts = {}
    Cells = {c1}
    NoOne = NoOne
    NoCell = NoCell
    PlayerForm = PlayerForm
    Founders = {}
    MaxEntry = 0
    MaxId = 4
    MaxCookie = 2
    MaxInFlight = 3
CHECK_DEADLOCK FALSE

    
    
PROPERTY OffersSettle
