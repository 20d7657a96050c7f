SPECIFICATION HistorySpec
CONSTANTS
    Ptr = {a1, a2}
    InvitationLife = 2
    ExpirePeriod = 1
    MaxTick = 4
    MaxPlayerId = 3
    MaxPartyId = 2
CHECK_DEADLOCK FALSE
PROPERTY JoinsOnInvitation
