SPECIFICATION Spec
CONSTANTS
    Ptr = {a1, a2, a3}
    InvitationLife = 1
    ExpirePeriod = 1
    MaxTick = 1
    MaxPlayerId = 4
    MaxPartyId = 2
SYMMETRY Symmetry
CHECK_DEADLOCK FALSE
INVARIANTS
    PartyInv
    MembershipAgrees
    
    LeaderIsMember
PROPERTIES
    Succession
    PartyIdsNotReused
    NoPartyHopping
    ImplementsRoster
