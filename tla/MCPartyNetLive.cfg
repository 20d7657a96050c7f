SPECIFICATION FairNetSpec
CONSTANTS
    Ptr = {a1, a2}
    InvitationLife = 1
    ExpirePeriod = 1
    MaxTick = 1
    MaxPlayerId = 3
    MaxPartyId = 1
    MaxInFlight = 2
CHECK_DEADLOCK FALSE
PROPERTY PartyNewsArrives
INVARIANTS
    ListedPlayersAreConnected
