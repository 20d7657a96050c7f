----------------------------- MODULE PartyNet ------------------------------
(***************************************************************************)
(* The party service with its messages: the server of Party and, for each  *)
(* connection, the client's PartyService, which mirrors the party of the   *)
(* local player from the notifications it receives.  The transport is      *)
(* reliable and ordered, so a connection is a FIFO queue; what is still in *)
(* it when the connection breaks is lost.                                  *)
(*                                                                         *)
(* Requests need no queue of their own.  The server checks a request       *)
(* against its state when it arrives, whatever the client knew when it     *)
(* sent it, so any request may arrive from any connected client at any     *)
(* time; one that is refused changes nothing.  The list of invitations a   *)
(* client shows is left out: no other part of the client depends on it.    *)
(* The client whose Player is at address p is named p as well.             *)
(***************************************************************************)
EXTENDS Party

CONSTANT MaxInFlight    \* bound: messages under way to one client

ASSUME NetAssumption == MaxInFlight \in Nat

VARIABLES
    online,             \* the clients that believe they are connected
    toClient,           \* per client, the notifications under way
    client              \* per client, the fields of its PartyService

netVars == <<online, toClient, client>>
vars == <<partyVars, netVars>>

---------------------------------------------------------------------------
(* The messages a handler sends, as functions from clients to sequences.   *)

Nobody == [p \in Ptr |-> <<>>]
To(p, m) == [Nobody EXCEPT ![p] = <<m>>]
Then(a, b) == [p \in Ptr |-> a[p] \o b[p]]

MemberIds(g) ==
    [i \in DOMAIN parties[g].members |-> playerId[parties[g].members[i]]]

PartyNews(kind, g, p) ==
    [type     |-> kind,
     leader   |-> parties[g].leader,
     isLeader |-> parties[g].leader = playerId[p],
     members  |-> MemberIds(g)]

(* Variant: a member who leads is not told.                                *)
BroadcastPartyInfoToFollowers(g) ==
    [p \in Ptr |->
        IF g \in DOMAIN parties /\ joinedParty[p] = g /\ ~IsLeader(p)
        THEN <<PartyNews("PartyInfo", g, p)>> ELSE <<>>]

BroadcastPartyInfo(g) ==
    [p \in Ptr |->
        IF g \in DOMAIN parties /\ p \in ToSet(parties[g].members)
        THEN <<PartyNews("PartyInfo", g, p)>> ELSE <<>>]

(* Variant: only the founder is told that he is in a party.                *)
SendPartyJoinedEventToFounder(p) ==
    IF IsLeader(p) THEN To(p, PartyNews("PartyJoined", joinedParty[p], p)) ELSE Nobody

SendPartyJoinedEvent(p) == To(p, PartyNews("PartyJoined", joinedParty[p], p))

NoOne == {}
BroadcastPlayerList(ignored) ==
    [p \in Ptr |->
        IF p \in Live \ ignored
        THEN <<[type |-> "PlayerList", players |-> {playerId[q] : q \in Live \ ({p} \cup ignored)}]>>
        ELSE <<>>]

(* What RemovePlayerFromParty(p) sends: g is the party p was in.           *)
RemovalNews(g, p) ==
    IF g = NoParty THEN Nobody
    ELSE Then(BroadcastPartyInfo(g), To(p, [type |-> "PartyLeft"]))

(* What is sent over a broken connection is lost.                          *)
Send(news) ==
    /\ toClient' = [p \in Ptr |->
                      IF p \in online' THEN toClient[p] \o news[p] ELSE <<>>]
    /\ \A p \in Ptr : Len(toClient'[p]) <= MaxInFlight

---------------------------------------------------------------------------
(* The client.                                                             *)

(* DestroyParty forgets the party; the player list stays.                  *)
DestroyParty(c) ==
    [c EXCEPT !.inParty = FALSE, !.isLeader = FALSE, !.leader = -1, !.members = <<>>]

NewClient ==
    [inParty |-> FALSE, isLeader |-> FALSE, leader |-> -1, members |-> <<>>,
     players |-> {}]

WithParty(c, m) ==
    [c EXCEPT !.inParty = TRUE, !.isLeader = m.isLeader, !.leader = m.leader,
              !.members = m.members]

(* Variant: party info does not update whether the local player leads.     *)
AfterMessageKeepingRole(c, m) ==
    CASE m.type = "PartyJoined" -> WithParty(c, m)
      [] m.type = "PartyInfo"   -> IF c.inParty
                                   THEN [WithParty(c, m) EXCEPT !.isLeader = c.isLeader]
                                   ELSE c
      [] m.type = "PartyLeft"   -> DestroyParty(c)
      [] m.type = "PlayerList"  -> [c EXCEPT !.players = m.players]

AfterMessage(c, m) ==
    CASE m.type = "PartyJoined" -> WithParty(c, m)
      [] m.type = "PartyInfo"   -> IF c.inParty THEN WithParty(c, m) ELSE c
      [] m.type = "PartyLeft"   -> DestroyParty(c)
      [] m.type = "PlayerList"  -> [c EXCEPT !.players = m.players]

Deliver(p) ==
    /\ p \in online
    /\ toClient[p] # <<>>
    /\ client' = [client EXCEPT ![p] = AfterMessage(@, Head(toClient[p]))]
    /\ toClient' = [toClient EXCEPT ![p] = Tail(@)]
    /\ UNCHANGED <<partyVars, online>>

(* The client learns that the connection is gone, before or after the      *)
(* server does.                                                            *)
OnDisconnected(p) ==
    /\ p \in online
    /\ online' = online \ {p}
    /\ toClient' = [toClient EXCEPT ![p] = <<>>]
    /\ client' = [client EXCEPT ![p] = DestroyParty(@)]
    /\ UNCHANGED partyVars

---------------------------------------------------------------------------
(* The server's handlers with what they send.                              *)

ServerJoin(p) ==
    /\ p \notin online
    /\ PlayerJoin(p)
    /\ online' = online \cup {p}
    /\ UNCHANGED client
    /\ Send(BroadcastPlayerList(NoOne)')

(* Variant: the others are not sent the list without the player who left.  *)
ServerLeaveSilently(p) ==
    /\ PlayerLeave(p)
    /\ UNCHANGED <<online, client>>
    /\ \E g \in {joinedParty[p]} : Send(RemovalNews(g, p)')

ServerLeave(p) ==
    /\ PlayerLeave(p)
    /\ UNCHANGED <<online, client>>
    /\ \E g \in {joinedParty[p]} :
          Send(Then(RemovalNews(g, p)', BroadcastPlayerList({p})'))

ServerCreate(p) ==
    /\ OnPartyCreate(p)
    /\ UNCHANGED <<online, client>>
    /\ Send(SendPartyJoinedEvent(p)')

ServerLeaveParty(p) ==
    /\ OnPartyLeave(p)
    /\ UNCHANGED <<online, client>>
    /\ \E g \in {joinedParty[p]} : Send(RemovalNews(g, p)')

ServerChangeLeader(p, q) ==
    /\ OnPartyChangeLeader(p, q)
    /\ UNCHANGED <<online, client>>
    /\ Send(BroadcastPartyInfo(joinedParty[p])')

(* The list sent after a kick leaves out the player who was kicked, though *)
(* he is still connected.                                                  *)
ServerKick(p, q) ==
    /\ OnPartyKick(p, q)
    /\ UNCHANGED <<online, client>>
    /\ \E g \in {joinedParty[q]} :
          Send(Then(RemovalNews(g, q)', BroadcastPlayerList({q})'))

ServerAccept(q, p) ==
    /\ OnPartyAcceptInvite(q, p)
    /\ UNCHANGED <<online, client>>
    /\ Send(Then(SendPartyJoinedEvent(q)', BroadcastPartyInfo(joinedParty[p])'))

(* Steps that send nothing to the mirrored part of a client.               *)
ServerQuiet ==
    /\ \/ PlayerRefused
       \/ OnUpdate
       \/ \E p, q \in Ptr : OnPartyInvite(p, q)
    /\ UNCHANGED netVars

---------------------------------------------------------------------------
NetInit ==
    /\ Init
    /\ online = {}
    /\ toClient = Nobody
    /\ client = [p \in Ptr |-> NewClient]

NetNext ==
    \/ ServerQuiet
    \/ \E p \in Ptr :
          \/ Deliver(p)
          \/ OnDisconnected(p)
          \/ ServerJoin(p)
          \/ ServerLeave(p)
          \/ ServerCreate(p)
          \/ ServerLeaveParty(p)
    \/ \E p, q \in Ptr :
          \/ ServerChangeLeader(p, q)
          \/ ServerKick(p, q)
          \/ ServerAccept(p, q)

NetSpec == NetInit /\ [][NetNext]_vars

(* The transport keeps delivering: the client's run loop polls it on every *)
(* frame.  Nothing else is fair; players may never do anything.            *)
NetFairness == \A p \in Ptr : WF_vars(Deliver(p))

FairNetSpec == NetSpec /\ NetFairness

---------------------------------------------------------------------------
(* A client that has processed everything sent to it shows its player the  *)
(* party he is in, with the same leader and the same members in the same   *)
(* order, and no party if he is in none.                                   *)
UpToDate(p) == p \in online /\ p \in Live /\ toClient[p] = <<>>

MirrorsAgree ==
    \A p \in Ptr : UpToDate(p) =>
        /\ client[p].inParty = InParty(p)
        /\ InParty(p) =>
              /\ client[p].leader = PartyOf(p).leader
              /\ client[p].isLeader = IsLeader(p)
              /\ client[p].members = MemberIds(joinedParty[p])

(* At no moment, however far behind a client is, does it show a party of   *)
(* which its own player is not a member.                                   *)
OwnIdIn(p, ids) == \E n \in ToSet(ids) : n = playerId[p]
MemberOfWhatIsShown ==
    \A p \in Ptr : p \in online /\ p \in Live /\ client[p].inParty
        => /\ OwnIdIn(p, client[p].members)
           /\ client[p].isLeader = (client[p].leader = playerId[p])

(* An up-to-date client lists no player who has left.                      *)
ListedPlayersAreConnected ==
    \A p \in Ptr : UpToDate(p) =>
        client[p].players \subseteq {playerId[q] : q \in Live \ {p}}

(* A player who is put into a party is shown it, unless he is taken out    *)
(* again or loses the connection.                                          *)
PartyNewsArrives ==
    \A p \in Ptr :
        (p \in online /\ InParty(p)) ~> (client[p].inParty \/ ~InParty(p) \/ p \notin online)
=============================================================================
