SPECIFICATION PartyOfThreeSpec
CONSTANTS
    Ptr = {a1, a2, a3}
    InvitationLife = 1
    ExpirePeriod = 1
    MaxTick = 0
    MaxPlayerId = 3
    MaxPartyId = 1
    MaxInFlight = 2
SYMMETRY Symmetry
CHECK_DEADLOCK FALSE
INVARIANTS
    MirrorsAgree
    MemberOfWhatIsShown
CONSTRAINT Bounded
