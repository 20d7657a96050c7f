SPECIFICATION Spec
CONSTANTS
    Clients = {p1, p2}
    PlayerDates <- MCDates
    Scales = {0, 5000}
    ClockSettings <- MCClock
    DateSettings <- MCDateSet
    StartTick = 1
    LastTick = 2
    MaxLatency = 1
    Stalls = {7, 200, 2000}
    MaxResyncs = 1
    MaxJoins = 2
    Things = {f1}
    Rooms = {r1, r2}
    Home <- MCHome
    NoRoom = NoRoom
    Locks = {0, 1}
    NoLock = 0
    SavedLocks = {0, 1}
    SavedItems = {1}
    MaxItems = 1
    MaxObject = 2
    MaxRequests = 1
    MaxReplies = 1
    MaxQueries = 1
    MaxNews = 2
    Weathers = {w1, w2}
    MapWeather = wMap
    NoWeather = w0
    Places = {a, b}
    MaxTurns = 1
    Story = {q1}
    LastStage = 1
    MaxDeeds = 2
    Chambers = {h, k}
    MaxDeed = 1
    MaxVisits = 1
    MaxSaid = 1
    MaxSights = 2
    LastCell = 3
    Border = 1
    MaxStrides = 2
    MaxTold = 1
    MaxHeard = 1
    Full = 3
    Blows = {1, 2}
    MaxBlows = 3
    MaxCalls = 2
    MaxNotices = 2
    Files = {x1, x2}
    ServerFiles <- MCServerFiles
    LastSlot = 1
    IdLimit = 8
    MaxPlayers = 2
    MaxAdmissions = 3
INVARIANTS
    WorldTypeOK CarryIsExact  ObjectsAgree OneObjectPerThing 
    StoryAgrees ViewsAgree    FormsTranslate
PROPERTIES DateAdvances  LastVisitorForgets
SYMMETRY Symmetry
CHECK_DEADLOCK FALSE
