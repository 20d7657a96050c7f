------------------------------- MODULE Party -------------------------------
(***************************************************************************)
(* The server's PartyService together with the part of PlayerManager and   *)
(* GameServer that creates and destroys the Player objects it refers to.   *)
(*                                                                         *)
(* The server handles one message at a time, so every handler is a single  *)
(* action.  A handler that returns early changes nothing and is therefore  *)
(* no action here; PartyNet, which adds the messages, shows what each      *)
(* handler sends.                                                          *)
(*                                                                         *)
(* A party remembers its leader by player id but its members, and a        *)
(* player's invitations, by Player*.  Ptr is the set of addresses at which *)
(* the allocator may place a Player: an address is free again as soon as   *)
(* its player has left, an id is never given out twice.                    *)
(***************************************************************************)
EXTENDS Integers, SequencesExt

CONSTANTS
    Ptr,                \* addresses of Player objects
    InvitationLife,     \* 60000 ms in the code
    ExpirePeriod,       \* 10000 ms in the code
    MaxTick,            \* bound: last value of the server clock
    MaxPlayerId,        \* bound: how many players ever connect
    MaxPartyId          \* bound: how many parties are ever created

ASSUME PartyAssumption ==
    /\ InvitationLife \in Nat \ {0}
    /\ ExpirePeriod \in Nat \ {0}
    /\ {MaxTick, MaxPlayerId, MaxPartyId} \subseteq Nat

VARIABLES
    playerId,           \* PlayerManager::m_players: id of the Player at an address, 0 if none
    nextPlayerId,       \* s_counter of GenerateId
    joinedParty,        \* PartyComponent::JoinedPartyId of each Player
    invitations,        \* PartyComponent::Invitations: expiry tick per inviter, 0 if no entry
    parties,            \* PartyService::m_parties
    nextPartyId,        \* PartyService::m_nextId
    tick,               \* GameServer::GetTick
    nextExpire          \* PartyService::m_nextInvitationExpire

playerVars == <<playerId, nextPlayerId>>
clockVars  == <<tick, nextExpire>>
partyVars  == <<playerVars, joinedParty, invitations, parties, nextPartyId, clockVars>>

NoParty == -1           \* the empty optional
NoInvitations == [q \in Ptr |-> 0]
PartyIds == 0 .. nextPartyId - 1

Live == {p \in Ptr : playerId[p] # 0}
InParty(p) == joinedParty[p] # NoParty

(* The party a member belongs to, and whether he leads it. *)
PartyOf(p) == parties[joinedParty[p]]
IsLeader(p) == InParty(p) /\ PartyOf(p).leader = playerId[p]

---------------------------------------------------------------------------
Init ==
    /\ playerId = [p \in Ptr |-> 0]
    /\ nextPlayerId = 1
    /\ joinedParty = [p \in Ptr |-> NoParty]
    /\ invitations = [p \in Ptr |-> NoInvitations]
    /\ parties = <<>>
    /\ nextPartyId = 0
    /\ tick = 0
    /\ nextExpire = 0

---------------------------------------------------------------------------
(* Connections.                                                            *)

(* Variant: a party whose last member goes is not erased.                  *)
PartiesWithoutErase(p) ==
    IF ~InParty(p) THEN parties
    ELSE [parties EXCEPT ![joinedParty[p]].members = RemoveFirst(@, p)]

(* Variant: the member who joined last succeeds a leader who goes.         *)
PartiesWithoutToYoungest(p) ==
    LET g == joinedParty[p]
        rest == RemoveFirst(parties[g].members, p)
    IN  IF ~InParty(p) THEN parties
        ELSE IF rest = <<>>
             THEN [h \in DOMAIN parties \ {g} |-> parties[h]]
             ELSE [parties EXCEPT ![g] =
                     [leader  |-> IF @.leader = playerId[p]
                                  THEN playerId[rest[Len(rest)]] ELSE @.leader,
                      members |-> rest]]

(* The parties after p has been taken out of the one he is in: the last    *)
(* member takes the party with him, a leader is replaced by the member who *)
(* joined first.                                                           *)
PartiesWithout(p) ==
    LET g == joinedParty[p]
        rest == RemoveFirst(parties[g].members, p)
    IN  IF ~InParty(p) THEN parties
        ELSE IF rest = <<>>
             THEN [h \in DOMAIN parties \ {g} |-> parties[h]]
             ELSE [parties EXCEPT ![g] =
                     [leader  |-> IF @.leader = playerId[p] THEN playerId[rest[1]] ELSE @.leader,
                      members |-> rest]]

(* GameServer::HandleAuthenticationRequest accepts a connection.  The new  *)
(* Player may be placed at any address that is free.                       *)
PlayerJoin(p) ==
    /\ playerId[p] = 0
    /\ nextPlayerId <= MaxPlayerId
    /\ playerId' = [playerId EXCEPT ![p] = nextPlayerId]
    /\ nextPlayerId' = nextPlayerId + 1
    /\ joinedParty' = [joinedParty EXCEPT ![p] = NoParty]
    /\ invitations' = [invitations EXCEPT ![p] = NoInvitations]
    /\ UNCHANGED <<parties, nextPartyId, clockVars>>

(* A script refuses the player: he is removed again before any service has *)
(* heard of him, and only his id is spent.                                 *)
PlayerRefused ==
    /\ Live # Ptr
    /\ nextPlayerId <= MaxPlayerId
    /\ nextPlayerId' = nextPlayerId + 1
    /\ UNCHANGED <<playerId, joinedParty, invitations, parties, nextPartyId, clockVars>>

(* Variant: the player is freed without the services being told.           *)
PlayerLeaveUnannounced(p) ==
    /\ p \in Live
    /\ joinedParty' = joinedParty
    /\ invitations' = [invitations EXCEPT ![p] = NoInvitations]
    /\ playerId' = [playerId EXCEPT ![p] = 0]
    /\ UNCHANGED <<parties, nextPlayerId, nextPartyId, clockVars>>

(* GameServer::OnDisconnection: PartyService::OnPlayerLeave takes him out  *)
(* of his party, then PlayerManager::Remove frees the Player.  The entries *)
(* other players hold under his address stay.                              *)
PlayerLeave(p) ==
    /\ p \in Live
    /\ parties' = PartiesWithout(p)
    /\ joinedParty' = [joinedParty EXCEPT ![p] = NoParty]
    /\ invitations' = [invitations EXCEPT ![p] = NoInvitations]
    /\ playerId' = [playerId EXCEPT ![p] = 0]
    /\ UNCHANGED <<nextPlayerId, nextPartyId, clockVars>>

---------------------------------------------------------------------------
(* Requests of a connected player.                                         *)

(* Variant: the new party takes the lowest id that is free.                *)
OnPartyCreateReusing(p) ==
    LET g == CHOOSE g \in 0 .. nextPartyId :
                /\ g \notin DOMAIN parties
                /\ \A h \in 0 .. nextPartyId \ DOMAIN parties : g <= h
    IN  /\ p \in Live
        /\ ~InParty(p)
        /\ g < MaxPartyId
        /\ nextPartyId' = IF g = nextPartyId THEN g + 1 ELSE nextPartyId
        /\ parties' = (g :> [leader |-> playerId[p], members |-> <<p>>]) @@ parties
        /\ joinedParty' = [joinedParty EXCEPT ![p] = g]
        /\ UNCHANGED <<playerVars, invitations, clockVars>>

OnPartyCreate(p) ==
    /\ p \in Live
    /\ ~InParty(p)
    /\ nextPartyId < MaxPartyId
    /\ nextPartyId' = nextPartyId + 1
    /\ parties' = [g \in DOMAIN parties \cup {nextPartyId} |->
                     IF g = nextPartyId
                     THEN [leader |-> playerId[p], members |-> <<p>>]
                     ELSE parties[g]]
    /\ joinedParty' = [joinedParty EXCEPT ![p] = nextPartyId]
    /\ UNCHANGED <<playerVars, invitations, clockVars>>

(* Variant: the new leader need not be in the party.                       *)
CanChangeLeaderToAnyone(p, q) == {p, q} \subseteq Live /\ IsLeader(p)

CanChangeLeader(p, q) ==
    /\ {p, q} \subseteq Live
    /\ IsLeader(p)
    /\ q \in ToSet(PartyOf(p).members)

OnPartyChangeLeader(p, q) ==
    /\ CanChangeLeader(p, q)
    /\ parties' = [parties EXCEPT ![joinedParty[p]] =
                   [leader |-> playerId[q], members |-> @.members]]
    /\ UNCHANGED <<playerVars, joinedParty, invitations, nextPartyId, clockVars>>

(* The leader of any party may remove any connected player from whatever   *)
(* party that player is in.                                                *)
CanKick(p, q) == {p, q} \subseteq Live /\ IsLeader(p)

RemovePlayerFromParty(q) ==
    /\ parties' = PartiesWithout(q)
    /\ joinedParty' = [joinedParty EXCEPT ![q] = NoParty]
    /\ UNCHANGED <<playerVars, invitations, nextPartyId, clockVars>>

(* Variant: JoinedPartyId is not reset.                                    *)
OnPartyKickWithoutReset(p, q) ==
    /\ CanKick(p, q)
    /\ parties' = PartiesWithout(q)
    /\ UNCHANGED <<playerVars, joinedParty, invitations, nextPartyId, clockVars>>

OnPartyKick(p, q) == CanKick(p, q) /\ RemovePlayerFromParty(q)

OnPartyLeave(p) == p \in Live /\ RemovePlayerFromParty(p)

CanInvite(p, q) ==
    /\ {p, q} \subseteq Live
    /\ p # q
    /\ ~InParty(q)
    /\ IsLeader(p)

OnPartyInvite(p, q) ==
    /\ CanInvite(p, q)
    /\ invitations' = [invitations EXCEPT ![q][p] = tick + InvitationLife]
    /\ UNCHANGED <<playerVars, joinedParty, parties, nextPartyId, clockVars>>

(* Variant: a player already in a party may accept.                        *)
CanAcceptInParty(q, p) ==
    /\ {p, q} \subseteq Live
    /\ p # q
    /\ invitations[q][p] # 0
    /\ IsLeader(p)

(* Neither the expiry tick nor the party the inviter led when he sent the  *)
(* invitation matters, and the entry is kept.                              *)
CanAccept(q, p) ==
    /\ {p, q} \subseteq Live
    /\ p # q
    /\ invitations[q][p] # 0
    /\ IsLeader(p)
    /\ ~InParty(q)

OnPartyAcceptInvite(q, p) ==
    /\ CanAccept(q, p)
    /\ parties' = [parties EXCEPT ![joinedParty[p]] =
                   [leader |-> @.leader, members |-> Append(@.members, q)]]
    /\ joinedParty' = [joinedParty EXCEPT ![q] = joinedParty[p]]
    /\ UNCHANGED <<playerVars, invitations, nextPartyId, clockVars>>

---------------------------------------------------------------------------
(* The periodic scan for expired invitations.                              *)

(* The players whose PartyComponent the entity registry holds.  The        *)
(* component is a member of Player and is never emplaced in the registry,  *)
(* so the view the scan iterates over is empty.                            *)
RegisteredPlayers == {}

ScannedInvitations ==
    [p \in Ptr |->
        IF p \in RegisteredPlayers
        THEN [q \in Ptr |-> IF invitations[p][q] < tick' THEN 0 ELSE invitations[p][q]]
        ELSE invitations[p]]

(* GameServer::OnUpdate triggers PartyService::OnUpdate on every frame; a  *)
(* frame is a unit of the clock here.                                      *)
OnUpdate ==
    /\ tick < MaxTick
    /\ tick' = tick + 1
    /\ IF nextExpire > tick'
       THEN UNCHANGED <<nextExpire, invitations>>
       ELSE /\ nextExpire' = tick' + ExpirePeriod
            /\ invitations' = ScannedInvitations
    /\ UNCHANGED <<playerVars, joinedParty, parties, nextPartyId>>

---------------------------------------------------------------------------
Next ==
    \/ PlayerRefused
    \/ OnUpdate
    \/ \E p \in Ptr :
          \/ PlayerJoin(p)
          \/ PlayerLeave(p)
          \/ OnPartyCreate(p)
          \/ OnPartyLeave(p)
    \/ \E p, q \in Ptr :
          \/ OnPartyChangeLeader(p, q)
          \/ OnPartyKick(p, q)
          \/ OnPartyInvite(p, q)
          \/ OnPartyAcceptInvite(p, q)

Spec == Init /\ [][Next]_partyVars

---------------------------------------------------------------------------
(* Properties.                                                             *)

(* m_parties maps ids that were handed out to a leader and his members,    *)
(* and the other variables have the types of the fields they stand for.    *)
TypeOK ==
    /\ playerId \in [Ptr -> Nat]
    /\ nextPlayerId \in Nat \ {0}
    /\ nextPartyId \in Nat
    /\ joinedParty \in [Ptr -> PartyIds \cup {NoParty}]
    /\ invitations \in [Ptr -> [Ptr -> Nat]]
    /\ DOMAIN parties \subseteq PartyIds
    /\ parties \in [DOMAIN parties -> [leader : Nat, members : Seq(Ptr)]]
    /\ tick \in Nat
    /\ nextExpire \in Nat

(* An id identifies one live player for as long as the server runs, so     *)
(* PlayerManager::GetById has at most one answer.                          *)
PlayerIdsUnique ==
    /\ \A p \in Ptr : playerId[p] < nextPlayerId
    /\ \A p, q \in Live : playerId[p] = playerId[q] => p = q

(* The two records of membership agree: a player's JoinedPartyId names a   *)
(* party of m_parties that lists him, exactly once, and a party lists no   *)
(* one else.  m_parties[*JoinedPartyId] relies on it never to insert.      *)
MembershipAgrees ==
    /\ \A p \in Ptr : InParty(p) =>
          joinedParty[p] \in DOMAIN parties /\ p \in ToSet(PartyOf(p).members)
    /\ \A g \in DOMAIN parties : \A i, j \in DOMAIN parties[g].members :
          /\ joinedParty[parties[g].members[i]] = g
          /\ parties[g].members[i] = parties[g].members[j] => i = j

(* No party refers to a Player that has been freed.                        *)
MembersAreLive == \A p \in Ptr : InParty(p) => p \in Live

(* Every party has a leader, who is one of its members.                    *)
LeaderIsMember ==
    \A g \in DOMAIN parties : \E p \in ToSet(parties[g].members) :
        playerId[p] = parties[g].leader

(* The inductive strengthening of the invariants above.                    *)
PartyInv ==
    /\ TypeOK
    /\ PlayerIdsUnique
    /\ MembershipAgrees
    /\ MembersAreLive
    /\ LeaderIsMember

(* The address of the player whose id is recorded as a party's leader.     *)
Leaders ==
    [g \in DOMAIN parties |-> CHOOSE p \in Live : playerId[p] = parties[g].leader]

Roster == INSTANCE PartyRoster WITH
    Player  <- Ptr,
    None    <- NoParty,
    present <- Live,
    party   <- joinedParty,
    leader  <- Leaders,
    founded <- nextPartyId

(* The tables of the service, m_parties and every player's JoinedPartyId,  *)
(* behave as one roster in which players join, leave and lead parties.     *)
ImplementsRoster == Roster!Spec

(* Succession: a step that leaves a party in existence keeps its members   *)
(* in the order they joined and adds at most one at the end; a leader who  *)
(* is gone is succeeded by the member who joined first.                    *)
Stayed(old, new) == SelectSeq(old, LAMBDA q : q \in ToSet(new))
Succession ==
    [][\A g \in DOMAIN parties \cap DOMAIN parties' :
          LET old == parties[g].members
              new == parties'[g].members
              leads(p) == playerId[p] = parties[g].leader
          IN  /\ IsPrefix(Stayed(old, new), new)
              /\ Len(new) <= Len(Stayed(old, new)) + 1
              /\ (\A p \in ToSet(new) : ~leads(p))
                    => parties'[g].leader = playerId'[new[1]]
      ]_partyVars

(* The id of a party that has ceased to exist never names another party,   *)
(* so a JoinedPartyId or a message that still carries it is harmless.      *)
PartyIdsNotReused ==
    [][\A g \in PartyIds : g \in DOMAIN parties' => g \in DOMAIN parties]_partyVars

(* No player passes from one party straight into another: the invitation   *)
(* of a player who is in a party is refused, at every point of the two     *)
(* players' message orders.                                                *)
NoPartyHopping ==
    [][\A p \in Ptr : InParty(p) => joinedParty'[p] \in {joinedParty[p], NoParty}]_partyVars
=============================================================================
