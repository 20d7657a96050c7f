----------------------------- MODULE Companions -----------------------------
(* One party, as far as the services that follow its leader see it: who is   *)
(* in it and leads it, and what of this each client has been told. The party *)
(* itself, with the invitations and all its rules, is in Party and PartyNet. *)
EXTENDS Peers

CONSTANTS
    MaxQueries,         \* bound on the messages from a client
    MaxNews             \* bound on the messages to a client

VARIABLES
    members,            \* the players in the party
    leader,             \* its leader, or "none"
    role,               \* per client: "none", "leader", or the client that leads it
    queries,            \* messages from each client
    news                \* messages to each client

companionVars == <<members, leader, role, queries, news>>

CompanionsInit ==
    /\ members = {}
    /\ leader = "none"
    /\ role = [c \in Clients |-> "none"]
    /\ queries = [c \in Clients |-> <<>>]
    /\ news = [c \in Clients |-> <<>>]

RoomForNews == \A c \in Clients : Len(news[c]) < MaxNews

PartyNews(type) == [type |-> type, leader |-> leader']

\* OnPartyCreate
Founds(c) ==
    /\ members = {} /\ RoomForNews
    /\ members' = {c} /\ leader' = c
    /\ news' = Posted(news, {c}, PartyNews("joined"))
    /\ UNCHANGED <<role, queries>>

\* OnPartyAcceptInvite
Accepts(c) ==
    /\ members # {} /\ c \notin members /\ RoomForNews
    /\ members' = members \cup {c} /\ leader' = leader
    /\ news' = Posted(Posted(news, {c}, PartyNews("joined")), members', PartyNews("info"))
    /\ UNCHANGED <<role, queries>>

\* OnPartyChangeLeader
Promotes(c) ==
    /\ c \in members \ {leader} /\ RoomForNews
    /\ leader' = c
    /\ news' = Posted(news, members, PartyNews("info"))
    /\ UNCHANGED <<members, role, queries>>

\* RemovePlayerFromParty, on a request or when the player leaves the server
Leaves(c) ==
    /\ c \in members /\ RoomForNews
    /\ members' = members \ {c}
    /\ leader' \in IF members' = {} THEN {"none"} ELSE IF leader # c THEN {leader} ELSE members'
    /\ news' = Posted(Posted(news, members', PartyNews("info")), {c}, PartyNews("left"))
    /\ UNCHANGED <<role, queries>>

PartyChanges(c) == Founds(c) \/ Accepts(c) \/ Promotes(c) \/ Leaves(c)

\* A client reads a message: PartyService of the client is told of its party
RoleAfter(c, m) ==
    LET told == IF m.leader = c THEN "leader" ELSE m.leader
    IN CASE m.type = "joined" -> told
         [] m.type = "info" /\ role[c] # "none" -> told
         [] m.type = "left" -> "none"
         [] OTHER -> role[c]

Reads(c) ==
    /\ news[c] # <<>>
    /\ news' = Read(news, c)
    /\ role' = [role EXCEPT ![c] = RoleAfter(c, Head(news[c]))]
    /\ UNCHANGED <<members, leader>>

Asks(c, messages) == queries' = [queries EXCEPT ![c] = @ \o messages]

Handles(c, type) ==
    /\ queries[c] # <<>>
    /\ Head(queries[c]).type = type
    /\ RoomForNews
    /\ queries' = Read(queries, c)
    /\ UNCHANGED <<members, leader, role>>

Followers == {c \in members : c # leader}

AllRead == \A c \in Clients : queries[c] = <<>> /\ news[c] = <<>>
=============================================================================
