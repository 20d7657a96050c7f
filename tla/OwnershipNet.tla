---------------------------- MODULE OwnershipNet ----------------------------
(***************************************************************************)
(* Character ownership with the clients and the messages: the server of    *)
(* Ownership and, per client, the ownership half of its CharacterService.  *)
(* A client simulates the actors that are local to it and shows the ones   *)
(* that are remote as their owner moves them.  Requests and notifications  *)
(* of a connection are delivered in order; what is under way when the      *)
(* connection ends is lost.                                                *)
(*                                                                         *)
(* The components of an actor's entity are independent fields here as they *)
(* are in the code: nothing but the handlers keeps an actor from being     *)
(* local and remote at once.  A client's own player and the actors of the  *)
(* other players, which are never taken over, are left to the server.      *)
(***************************************************************************)
EXTENDS Ownership, Sequences, SequencesExt

CONSTANTS
    Founders,       \* bound: the players who may begin a party
    MaxEntry,       \* bound: players enter the world while nextId is below it
    MaxCookie,      \* bound: assignment requests of one client for one form
    MaxInFlight     \* bound: messages under way in one direction

ASSUME NetAssumption ==
    /\ Founders \subseteq Players
    /\ IsFiniteSet(Forms)
    /\ {MaxEntry, MaxCookie, MaxInFlight} \subseteq Nat

VARIABLES
    toServer,       \* per client, its requests under way
    toClient,       \* per client, its notifications under way
    actor,          \* per client and form, the components of its entity
    isLeader,       \* per client, PartyService::IsLeader
    lost            \* history: forms a client may have lost track of

netVars == <<toServer, toClient, actor, isLeader, lost>>
vars == <<ownVars, netVars>>

None == -1

(* Variant: a local actor that goes keeps its LocalComponent.              *)
UnmanagedStillLocal(a, loaded) ==
    [loaded |-> loaded, waiting |-> None, remote |-> None, asked |-> a.asked,
     local |-> IF "local" \in DOMAIN a THEN a.local ELSE None]

(* An actor nobody has assigned.  loaded: it exists in the client's game   *)
(* (FormIdComponent); waiting: cookie of WaitingForAssignmentComponent;    *)
(* local, remote: server ids of LocalComponent and RemoteComponent; asked: *)
(* cookies used so far.                                                    *)
Unmanaged(a, loaded) ==
    [loaded |-> loaded, waiting |-> None, local |-> None, remote |-> None,
     asked |-> a.asked]

---------------------------------------------------------------------------
(* Messages, as functions from clients to sequences.                       *)

Nobody == [p \in Players |-> <<>>]
To(p, m) == [Nobody EXCEPT ![p] = <<m>>]
ToEach(P, m) == [p \in Players |-> IF p \in P THEN <<m>> ELSE <<>>]
Then(a, b) == [p \in Players |-> a[p] \o b[p]]

Assign(f, cookie, cell) == [type |-> "Assign", form |-> f, cookie |-> cookie, cell |-> cell]
Claim(e) == [type |-> "Claim", id |-> e]
GiveUp(e, cell) == [type |-> "GiveUp", id |-> e, cell |-> cell]
Enter(cell) == [type |-> "EnterCell", cell |-> cell]

Assigned(f, cookie, e, owner) ==
    [type |-> "Assigned", form |-> f, cookie |-> cookie, id |-> e, owner |-> owner]
Spawn(f, e) == [type |-> "Spawn", form |-> f, id |-> e]
Offer(e) == [type |-> "Offer", id |-> e]
Removal(e) == [type |-> "Remove", id |-> e]
Relinquish(e) == [type |-> "Relinquish", id |-> e]
PartyNews(type, leads) == [type |-> type, isLeader |-> leads]

(* The server sends to who is connected after the step.                    *)
Send(news) ==
    /\ toClient' = [p \in Players |-> IF p \in online' THEN toClient[p] \o news[p] ELSE <<>>]
    /\ \A p \in Players : Len(toClient'[p]) <= MaxInFlight

---------------------------------------------------------------------------
(* The server takes a request off a connection.                            *)

Receives(p, type) ==
    /\ p \in online
    /\ toServer[p] # <<>>
    /\ Head(toServer[p]).type = type
    /\ toServer' = [toServer EXCEPT ![p] = Tail(@)]
    /\ UNCHANGED <<actor, isLeader, lost>>

Request(p) == Head(toServer[p])

InRange(cell, p) == {q \in online \ {p} : cellOf[q] = cell}

RelinquishedTo(p, e) ==
    IF chars[e].owner = p THEN Nobody ELSE To(chars[e].owner, Relinquish(e))

ServerAssign(p) ==
    /\ Receives(p, "Assign")
    /\ LET r == Request(p)
       IN \/ /\ OnAssignNew(p, r.form, r.cell)
             /\ Send(Then(To(p, Assigned(r.form, r.cookie, nextId, TRUE)),
                          ToEach(InRange(r.cell, p), Spawn(r.form, nextId))))
          \/ \E e \in Managed(r.form) :
                /\ OnAssignManaged(p, e)
                /\ Send(Then(IF MayTakeOver(p, e) THEN RelinquishedTo(p, e) ELSE Nobody,
                             To(p, Assigned(r.form, r.cookie, e, MayTakeOver(p, e)))))

ServerClaim(p) ==
    /\ Receives(p, "Claim")
    /\ LET e == Request(p).id
       IN IF e \in DOMAIN chars
          THEN OnOwnershipClaim(p, e) /\ Send(RelinquishedTo(p, e))
          ELSE UNCHANGED <<ownVars, toClient>>

(* What the hand-over of the characters of E is announced with.            *)
HandOverNews(E) ==
    [q \in Players |->
        LET told == {e \in E : IF e \in DOMAIN chars' THEN chars'[e].owner = q
                                                      ELSE chars[e].owner # q}
        IN SetToSeq({IF e \in DOMAIN chars' THEN Offer(e) ELSE Removal(e) : e \in told})]

ServerGiveUp(p) ==
    /\ Receives(p, "GiveUp")
    /\ LET e == Request(p).id
       IN IF e \in DOMAIN chars
          THEN OnOwnershipTransfer(p, e, Request(p).cell) /\ Send(HandOverNews({e}))
          ELSE UNCHANGED <<ownVars, toClient>>

(* HandleInteriorCellEnter sends the characters that are in the cell.      *)
ServerEnterCell(p) ==
    /\ Receives(p, "EnterCell")
    /\ LET cell == Request(p).cell
           there == {e \in DOMAIN chars : /\ chars[e].cell = cell
                                          /\ chars[e].owner # p
                                          /\ chars[e].form \in Forms}
       IN /\ EnterCell(p, cell)
          /\ Send([Nobody EXCEPT ![p] = SetToSeq({Spawn(chars[e].form, e) : e \in there})])

---------------------------------------------------------------------------
(* The client: what becomes of an actor.                                   *)

(* TakeOwnership makes the actor local at once and claims it.              *)
Taken(a) == [a EXCEPT !.local = a.remote, !.remote = None]

WouldTake(f, a, leads) == a.remote # None /\ leads /\ f \notin Mounts

MustAsk(a) == a.remote = None /\ a.local = None /\ a.waiting = None

(* ProcessNewEntity for an actor whose components are a.                   *)
Processed(f, a, leads) ==
    IF WouldTake(f, a, leads) THEN Taken(a)
    ELSE IF MustAsk(a) THEN [a EXCEPT !.waiting = a.asked, !.asked = a.asked + 1]
    ELSE a

ProcessedRequests(f, a, leads, cell) ==
    IF WouldTake(f, a, leads) THEN <<Claim(a.remote)>>
    ELSE IF MustAsk(a) THEN <<Assign(f, a.asked, cell)>>
    ELSE <<>>

(* ProcessNewEntity for every loaded actor, with the components given.     *)
ProcessAll(p, a, leads, sent) ==
    /\ actor' = [actor EXCEPT ![p] = [f \in Forms |->
                    IF a[f].loaded THEN Processed(f, a[f], leads) ELSE a[f]]]
    /\ \A f \in Forms : actor'[p][f].asked <= MaxCookie
    /\ \E cell \in Cells :
          toServer' = [toServer EXCEPT ![p] = sent \o
              SetToSeq(UNION {ToSet(ProcessedRequests(f, a[f], leads, cell)) :
                                f \in {g \in Forms : a[g].loaded}})]
    /\ Len(toServer'[p]) <= MaxInFlight

(* One actor's components become a, and the client sends requests.         *)
Becomes(p, f, a, requests) ==
    /\ actor' = [actor EXCEPT ![p][f] = a]
    /\ a.asked <= MaxCookie
    /\ toServer' = [toServer EXCEPT ![p] =
                        IF p \in online THEN @ \o requests ELSE <<>>]
    /\ Len(toServer'[p]) <= MaxInFlight

(* The game loads an actor.  A remote component made for it beforehand is  *)
(* found through its CachedRefId.                                          *)
OnActorAdded(p, f) ==
    LET a == [actor[p][f] EXCEPT !.loaded = TRUE]
    IN /\ ~actor[p][f].loaded
       /\ IF p \in online
          THEN \E cell \in Cells :
                  Becomes(p, f, Processed(f, a, isLeader[p]),
                          ProcessedRequests(f, a, isLeader[p], cell))
          ELSE Becomes(p, f, a, <<>>)
       /\ UNCHANGED <<ownVars, toClient, isLeader, lost>>

(* The requests of CancelServerAssignment.  A remote component shadows the *)
(* others.  CancelAssignmentRequest is left out: no handler receives it.   *)
Cancelled(a, cell) ==
    IF a.remote = None /\ a.local # None THEN <<GiveUp(a.local, cell)>> ELSE <<>>

OnActorRemoved(p, f) ==
    LET a == actor[p][f]
    IN /\ a.loaded
       /\ \E cell \in Cells : Becomes(p, f, Unmanaged(a, FALSE), Cancelled(a, cell))
       /\ lost' = IF a.remote = None /\ a.waiting # None
                     THEN [lost EXCEPT ![p] = @ \cup {f}] ELSE lost
       /\ UNCHANGED <<ownVars, toClient, isLeader>>

(* The local player walks into another cell.                               *)
Travel(p, cell) ==
    /\ p \in online
    /\ cellOf[p] # cell
    /\ \A i \in DOMAIN toServer[p] : toServer[p][i].type # "EnterCell"
    /\ toServer' = [toServer EXCEPT ![p] = Append(@, Enter(cell))]
    /\ Len(toServer'[p]) <= MaxInFlight
    /\ UNCHANGED <<ownVars, toClient, actor, isLeader, lost>>

---------------------------------------------------------------------------
(* The client takes a notification off the connection.                     *)

News(p) == Head(toClient[p])

Hears(p, type) ==
    /\ p \in online
    /\ toClient[p] # <<>>
    /\ News(p).type = type
    /\ toClient' = [toClient EXCEPT ![p] = Tail(@)]
    /\ lost' = IF type = "Spawn" /\ actor[p][News(p).form].local # None
               THEN [lost EXCEPT ![p] = @ \cup {News(p).form}] ELSE lost
    /\ UNCHANGED ownVars

Ignore == UNCHANGED <<toServer, actor>>

(* A response to a request that was cancelled matches no cookie.           *)
OnAssignCharacter(p) ==
    /\ Hears(p, "Assigned")
    /\ LET m == News(p)
           a == actor[p][m.form]
       IN IF a.waiting # m.cookie THEN Ignore
          ELSE Becomes(p, m.form,
                  [a EXCEPT !.waiting = None,
                            !.local  = IF a.remote # None \/ a.local # None \/ ~m.owner
                                       THEN @ ELSE m.id,
                            !.remote = IF a.remote # None \/ a.local # None \/ m.owner
                                       THEN @ ELSE m.id],
                  <<>>)
    /\ UNCHANGED isLeader

RemoteAs(p, e) == {f \in Forms : actor[p][f].remote = e}

(* Variant: an actor that waits for its assignment is spawned all the same. *)
OnCharacterSpawnWhileWaiting(p) ==
    /\ Hears(p, "Spawn")
    /\ LET m == News(p)
       IN IF RemoteAs(p, m.id) # {} THEN Ignore
          ELSE Becomes(p, m.form, [actor[p][m.form] EXCEPT !.remote = m.id], <<>>)
    /\ UNCHANGED isLeader

(* An actor the game cannot find yet is not spawned.                       *)
OnCharacterSpawn(p) ==
    /\ Hears(p, "Spawn")
    /\ LET m == News(p)
           a == actor[p][m.form]
       IN IF RemoteAs(p, m.id) # {} \/ a.waiting # None THEN Ignore
          ELSE \/ Becomes(p, m.form, [a EXCEPT !.remote = m.id], <<>>)
               \/ ~a.loaded /\ Ignore
    /\ UNCHANGED isLeader

(* Variant: an offer that cannot be taken is dropped.                      *)
OnOwnershipTransferDropped(p) ==
    /\ Hears(p, "Offer")
    /\ LET e == News(p).id
       IN \/ \E f \in RemoteAs(p, e) :
                /\ actor[p][f].loaded
                /\ Becomes(p, f, Taken(actor[p][f]), <<Claim(e)>>)
          \/ /\ \A f \in RemoteAs(p, e) : ~actor[p][f].loaded
             /\ Ignore
    /\ UNCHANGED isLeader

OnOwnershipOffer(p) ==
    /\ Hears(p, "Offer")
    /\ LET e == News(p).id
       IN \/ \E f \in RemoteAs(p, e) :
                /\ actor[p][f].loaded
                /\ Becomes(p, f, Taken(actor[p][f]), <<Claim(e)>>)
          \/ /\ \A f \in RemoteAs(p, e) : ~actor[p][f].loaded
             /\ toServer' = [toServer EXCEPT ![p] = Append(@, GiveUp(e, NoCell))]
             /\ Len(toServer'[p]) <= MaxInFlight
             /\ UNCHANGED actor
    /\ UNCHANGED isLeader

OnRemoveCharacter(p) ==
    /\ Hears(p, "Remove")
    /\ actor' = [actor EXCEPT ![p] = [f \in Forms |->
                    IF actor[p][f].remote = News(p).id
                    THEN [actor[p][f] EXCEPT !.remote = None] ELSE actor[p][f]]]
    /\ UNCHANGED <<toServer, isLeader>>

(* The entity is found by the server id of its local component, or of its  *)
(* remote one if it has no local component.                                *)
ServerId(a) == IF a.local # None THEN a.local ELSE a.remote

OnRelinquishControl(p) ==
    /\ Hears(p, "Relinquish")
    /\ LET e == News(p).id
       IN \/ \E f \in Forms :
                /\ actor[p][f].loaded /\ ServerId(actor[p][f]) = e
                /\ Becomes(p, f, IF actor[p][f].local = None THEN actor[p][f]
                                 ELSE [actor[p][f] EXCEPT !.local = None, !.remote = e],
                           <<>>)
          \/ /\ \A f \in Forms : ~(actor[p][f].loaded /\ ServerId(actor[p][f]) = e)
             /\ Ignore
    /\ UNCHANGED isLeader

(* A leader takes over whatever he shows when his party begins.            *)
OnPartyJoined(p) ==
    /\ Hears(p, "PartyJoined")
    /\ isLeader' = [isLeader EXCEPT ![p] = News(p).isLeader]
    /\ IF News(p).isLeader THEN ProcessAll(p, actor[p], TRUE, toServer[p]) ELSE Ignore

OnPartyNews(p) ==
    /\ Hears(p, "PartyNews")
    /\ isLeader' = [isLeader EXCEPT ![p] = News(p).isLeader]
    /\ Ignore

---------------------------------------------------------------------------
(* Connections and the party.                                              *)

ServerConnect(p) ==
    /\ Connect(p)
    /\ ProcessAll(p, actor[p], FALSE, <<>>)
    /\ Send(Nobody)
    /\ UNCHANGED <<isLeader, lost>>

(* The client's OnDisconnected clears the components of all its actors.    *)
ServerDisconnect(p) ==
    /\ Disconnect(p)
    /\ Send(Then(HandOverNews({e \in DOMAIN chars :
                                e \notin DOMAIN chars' \/ chars'[e] # chars[e]}),
                 IF leader = p /\ leader' # NoOne
                 THEN To(leader', PartyNews("PartyNews", TRUE)) ELSE Nobody))
    /\ toServer' = [toServer EXCEPT ![p] = <<>>]
    /\ actor' = [actor EXCEPT ![p] = [f \in Forms |->
                    Unmanaged(actor[p][f], actor[p][f].loaded)]]
    /\ isLeader' = [isLeader EXCEPT ![p] = FALSE]
    /\ lost' = [lost EXCEPT ![p] = {}]

ServerPlayerActor(p, cell) ==
    /\ nextId < MaxEntry
    /\ character[p] = -1
    /\ OnAssignPlayer(p, cell)
    /\ UNCHANGED netVars

ServerParty(p) ==
    /\ \/ \E M \in SUBSET online :
             /\ p \in Founders
             /\ PartyForms(p, M)
             /\ Send(To(p, PartyNews("PartyJoined", TRUE)))
       \/ /\ PartyShrinks(p)
          /\ Send(Then(To(p, PartyNews("PartyNews", FALSE)),
                       IF leader = p /\ leader' # NoOne
                       THEN To(leader', PartyNews("PartyNews", TRUE)) ELSE Nobody))
    /\ UNCHANGED <<toServer, actor, isLeader, lost>>

---------------------------------------------------------------------------
NetInit ==
    /\ Init
    /\ toServer = Nobody
    /\ toClient = Nobody
    /\ actor = [p \in Players |-> [f \in Forms |-> Unmanaged([asked |-> 0], FALSE)]]
    /\ isLeader = [p \in Players |-> FALSE]
    /\ lost = [p \in Players |-> {}]

ServerReads(p) ==
    ServerAssign(p) \/ ServerClaim(p) \/ ServerGiveUp(p) \/ ServerEnterCell(p)

ClientReads(p) ==
    \/ OnAssignCharacter(p) \/ OnCharacterSpawn(p) \/ OnOwnershipOffer(p)
    \/ OnRemoveCharacter(p) \/ OnRelinquishControl(p)
    \/ OnPartyJoined(p) \/ OnPartyNews(p)

NetNext ==
    \E p \in Players :
        \/ ServerReads(p)
        \/ ClientReads(p)
        \/ ServerConnect(p)
        \/ ServerDisconnect(p)
        \/ ServerParty(p)
        \/ \E cell \in Cells : ServerPlayerActor(p, cell) \/ Travel(p, cell)
        \/ \E f \in Forms : OnActorAdded(p, f) \/ OnActorRemoved(p, f)

NetSpec == NetInit /\ [][NetNext]_vars

(* Both ends keep reading what arrives: the server's loop consumes every   *)
(* message of a frame, the client's update runs in the game's frame.       *)
FairNetSpec ==
    /\ NetSpec
    /\ \A p \in Players : WF_vars(ServerReads(p)) /\ WF_vars(ClientReads(p))

---------------------------------------------------------------------------
Awaits(p, e) ==
    \/ \E i \in DOMAIN toClient[p] :
          /\ toClient[p][i].type \in {"Assigned", "Offer"}
          /\ toClient[p][i].id = e
    \/ \E i \in DOMAIN toServer[p] :
          /\ toServer[p][i].type \in {"Claim", "GiveUp"}
          /\ toServer[p][i].id = e

(* Where there are no parties, the owner the server has on record          *)
(* simulates the character, or is about to be told that he does, or to say *)
(* that he does not: characters do not stand frozen because everyone takes *)
(* them for somebody else's.  There are two exceptions, which the code     *)
(* does not handle and `lost' records: a client that cancelled a request,  *)
(* and one that was told to spawn an actor while it simulated it, which    *)
(* leaves the actor local and remote.                                      *)
OwnerSimulates ==
    Founders = {} =>
        \A e \in DOMAIN chars :
            LET f == chars[e].form
                p == chars[e].owner
            IN f \in Forms => actor[p][f].local = e \/ Awaits(p, e) \/ f \in lost[p]

(* A client never waits for the assignment of an actor it already manages, *)
(* so the branch for it in OnAssignCharacter is dead, as its comment says. *)
WaitsUnmanaged ==
    \A p \in Players, f \in Forms :
        actor[p][f].waiting # None => actor[p][f].local = None /\ actor[p][f].remote = None

(* What a client drops while it waits for the assignment is dropped, as    *)
(* the comment in CancelServerAssignment has it: no server goes on taking  *)
(* that client for the owner once the connection is quiet.                 *)
DroppedIsNotOwned ==
    \A e \in DOMAIN chars :
        LET f == chars[e].form
            p == chars[e].owner
        IN f \in Forms /\ toServer[p] = <<>> /\ toClient[p] = <<>>
              => actor[p][f].local = e

Simulates(p, e) == \E f \in Forms : actor[p][f].local = e

(* Where there are no parties, no two clients simulate the same character, *)
(* not even for a moment: a client that gives an actor up has stopped, and *)
(* the server offers it to one other at a time, whatever offers, claims,   *)
(* refusals and disconnections have been under way.  In a party a leader   *)
(* takes over before the owner knows of it.                                *)
OneSimulates ==
    Founders = {} =>
        \A e \in Ids, p, q \in Players : Simulates(p, e) /\ Simulates(q, e) => p = q

Offered(e) ==
    \/ \E p \in Players : \E i \in DOMAIN toClient[p] :
          toClient[p][i].type = "Offer" /\ toClient[p][i].id = e
    \/ \E p \in Players : \E i \in DOMAIN toServer[p] :
          toServer[p][i].type = "GiveUp" /\ toServer[p][i].id = e

(* A character that is given up is taken or removed in the end: it is not  *)
(* offered round and round to players who cannot take it.  Players who     *)
(* come and go for ever may each leave with the offer unread.              *)
OffersSettle ==
    <>[][online' = online]_vars => \A e \in Ids : Offered(e) ~> ~Offered(e)

=============================================================================
