------------------------------- MODULE Objects -------------------------------
(* Containers and doors: ObjectService and the part of InventoryService that *)
(* is about containers, on the server and on the clients. The server keeps a *)
(* lock and an item list for each object that somebody has reported, under   *)
(* an entity number; a client changes its own game at once and tells.        *)
(*                                                                           *)
(* A lock is a value of Locks. An item list is reduced to the count of one   *)
(* item, and a missing entry to the count 0.                                 *)
EXTENDS Peers

CONSTANTS
    Things,             \* form ids of containers and doors
    Rooms,              \* interior cells
    Home,               \* the cell of each thing
    NoRoom,             \* no cell
    Locks,              \* lock data
    NoLock,             \* LockData{}
    SavedLocks,         \* the locks a thing may have in a saved game
    SavedItems,         \* the item counts it may have
    MaxItems,           \* bound on the count up to which a client puts items in
    MaxObject,          \* bound on entity numbers
    MaxRequests,        \* bound on the messages from a client
    MaxReplies          \* bound on the messages to a client

ASSUME ObjectsAssumption ==
    /\ NoRoom \notin Rooms /\ Home \in [Things -> Rooms] /\ IsFiniteSet(Things)
    /\ SavedLocks \subseteq Locks /\ SavedItems \subseteq Nat /\ {MaxItems, MaxObject} \subseteq Nat

VARIABLES
    object,             \* ObjectComponent and InventoryComponent by entity
    nextObject,         \* the next entity number
    roomOf,             \* CellIdComponent of each player, NoRoom if none
    online,             \* players with a connection
    requests,           \* messages from each client
    replies,            \* messages to each client
    visiting,           \* the cell each client's player is in
    shown,              \* lock and items of each thing in each client's game
    serverId,           \* the entity number each client has for a thing, or 0
    strayed,            \* history: clients whose picture of their cell the code gives up
    raced               \* history: things that two clients changed at once

objectsVars == <<object, nextObject, roomOf, online, requests, replies, visiting,
                 shown, serverId, strayed, raced>>

---------------------------------------------------------------------------
(* Item counts *)

\* Inventory::AddOrRemoveEntry: an entry that is not there is put in as it is,
\* also with a negative count
AddOrRemoveEntry(count, n) ==
    IF count # 0 /\ count + n <= 0 THEN 0 ELSE count + n

\* Variant: more may be taken out than is in
AddOrRemoveItemUnchecked(count, n) == count + n

\* TESObjectREFR::AddOrRemoveItem: the game has no negative counts
AddOrRemoveItem(count, n) == IF count + n > 0 THEN count + n ELSE 0

\* TESObjectREFR::SetInventory
SetInventory(count) == AddOrRemoveItem(0, count)

---------------------------------------------------------------------------
(* The server *)

EntitiesOf(f) == {e \in DOMAIN object : object[e].form = f}

Inside(room) == {c \in online : roomOf[c] = room}

\* Variant: who leaves still counts as there
KeptByLeaver(cells, room) ==
    IF Inside(room) # {} THEN object
    ELSE [e \in {d \in DOMAIN object : Home[object[d].form] # room} |-> object[e]]

\* OnPlayerLeaveCellEvent, with the cells of the players as they are after it
Kept(cells, room) ==
    IF \E c \in online' : cells[c] = room THEN object
    ELSE [e \in {d \in DOMAIN object : Home[object[d].form] # room} |-> object[e]]

\* The clients in the room, by their own account, that the server does not
\* have there yet although it has told them of its things
Unseen(room) ==
    {c \in Clients : /\ visiting[c] = room /\ roomOf[c] # room
                     /\ ~\E i \in DOMAIN requests[c] : requests[c][i].type = "assign"}

\* c has not got the answer yet to what it reported
Unanswered(c) ==
    \/ \E i \in DOMAIN requests[c] : requests[c][i].type = "assign"
    \/ \E i \in DOMAIN replies[c] : replies[c][i].type = "assigned"

\* The history after the things in a room have been forgotten, or not
Forgets(room) ==
    LET forgotten == {f \in Things : Home[f] = room}
    IN IF room = NoRoom \/ object' = object THEN UNCHANGED <<strayed, raced>>
       ELSE /\ strayed' = strayed \cup Unseen(room)
            /\ raced' = IF \E c \in Clients : Unanswered(c) THEN raced ELSE raced \ forgotten

ObjectsInit ==
    /\ object = <<>>
    /\ nextObject = 1
    /\ roomOf = [c \in Clients |-> NoRoom]
    /\ online = {}
    /\ requests = [c \in Clients |-> <<>>]
    /\ replies = [c \in Clients |-> <<>>]
    /\ visiting = [c \in Clients |-> NoRoom]
    /\ shown \in [Clients -> [Things -> [lock : SavedLocks, items : SavedItems]]]
    /\ serverId = [c \in Clients |-> [f \in Things |-> 0]]
    /\ strayed = {}
    /\ raced = {}

Receipt(c, type) ==
    /\ requests[c] # <<>>
    /\ Head(requests[c]).type = type
    /\ \A d \in Clients : Len(replies[d]) < MaxReplies
    /\ requests' = Read(requests, c)

\* Variant: every report is taken for the first
NewAlways(report) == DOMAIN report

New(report) == {f \in DOMAIN report : EntitiesOf(f) = {}}

\* Numbers for things that have none, in the order in which they are reported
FreshNumbers(new) ==
    {n \in [new -> nextObject .. nextObject + Cardinality(new) - 1] : IsInjective(n)}

\* The objects after those in number have been created as reported
Created(number, report) ==
    [e \in DOMAIN object \cup Range(number) |->
        IF e \in DOMAIN object THEN object[e]
        ELSE LET f == CHOOSE g \in DOMAIN number : number[g] = e
             IN [form |-> f, lock |-> report[f].lock, items |-> report[f].items]]

\* What is answered to a report: the number, whether the thing was new, and what
\* it is like
Answers(number, report) ==
    [f \in DOMAIN report |->
        IF f \in DOMAIN number THEN [id |-> number[f], first |-> TRUE, thing |-> report[f]]
        ELSE LET e == CHOOSE d \in EntitiesOf(f) : TRUE
             IN [id |-> e, first |-> FALSE,
                 thing |-> [lock |-> object[e].lock, items |-> object[e].items]]]

\* OnAssignObjectsRequest: the first to report a thing says what it is like,
\* the others are told
OnAssignObjectsRequest(c) ==
    /\ Receipt(c, "assign")
    /\ LET report == Head(requests[c]).things
           new == New(report)
       IN /\ nextObject + Cardinality(new) <= MaxObject + 1
          /\ nextObject' = nextObject + Cardinality(new)
          /\ \E number \in FreshNumbers(new) :
                /\ object' = Created(number, report)
                /\ replies' = Posted(replies, IF DOMAIN report = {} THEN {} ELSE {c},
                                     [type |-> "assigned", things |-> Answers(number, report)])
    /\ UNCHANGED <<roomOf, online, visiting, shown, serverId, strayed, raced>>

\* HandleInteriorCellEnter
OnEnterInteriorCell(c) ==
    /\ Receipt(c, "enter")
    /\ roomOf' = [roomOf EXCEPT ![c] = Head(requests[c]).room]
    /\ online' = online
    /\ object' = Kept(roomOf', roomOf[c])
    /\ Forgets(roomOf[c])
    /\ UNCHANGED <<nextObject, replies, visiting, shown, serverId>>

\* Variant: a lock change is passed on and not kept
OnLockChangeUnkept(c) ==
    /\ Receipt(c, "lock")
    /\ LET m == Head(requests[c]) IN
       replies' = Posted(replies, Inside(Home[m.thing]) \ {c}, m)
    /\ UNCHANGED <<object, nextObject, roomOf, online, visiting, shown, serverId, strayed, raced>>

OnLockChange(c) ==
    /\ Receipt(c, "lock")
    /\ LET m == Head(requests[c]) IN
       /\ object' = [e \in DOMAIN object |->
                       IF object[e].form = m.thing THEN [object[e] EXCEPT !.lock = m.lock]
                       ELSE object[e]]
       /\ replies' = Posted(replies, Inside(Home[m.thing]) \ {c}, m)
       /\ strayed' = strayed \cup Unseen(Home[m.thing])
    /\ UNCHANGED <<nextObject, roomOf, online, visiting, shown, serverId, raced>>

\* OnInventoryChanges, which names the object by its number
OnInventoryChanges(c) ==
    /\ Receipt(c, "items")
    /\ LET m == Head(requests[c]) IN
       IF m.id \in DOMAIN object
       THEN LET room == Home[object[m.id].form] IN
            /\ object' = [object EXCEPT ![m.id].items = AddOrRemoveEntry(@, m.count)]
            /\ replies' = Posted(replies, Inside(room) \ {c}, m)
            /\ strayed' = strayed \cup Unseen(room)
       ELSE UNCHANGED <<object, replies, strayed>>
    /\ UNCHANGED <<nextObject, roomOf, online, visiting, shown, serverId, raced>>

\* OnDisconnection: the cell of the player is reset before the others hear
OnPlayerQuits(c) ==
    /\ c \in online
    /\ online' = online \ {c}
    /\ roomOf' = [roomOf EXCEPT ![c] = NoRoom]
    /\ object' = IF roomOf[c] = NoRoom THEN object ELSE Kept(roomOf', roomOf[c])
    /\ Forgets(roomOf[c])
    /\ requests' = [requests EXCEPT ![c] = <<>>]
    /\ replies' = [replies EXCEPT ![c] = <<>>]
    /\ visiting' = [visiting EXCEPT ![c] = NoRoom]
    /\ UNCHANGED <<nextObject, shown, serverId>>

---------------------------------------------------------------------------
(* The clients *)

Sends(c, messages) == requests' = [requests EXCEPT ![c] = @ \o messages]

\* Of the thing, c has not read the changes by other clients or the answer to
\* what it reported
Behind(c, f) ==
    \/ Unanswered(c)
    \/ \E d \in Clients \ {c} : \E i \in DOMAIN requests[d] :
          requests[d][i].type \in {"lock", "items"} /\ requests[d][i].thing = f
    \/ \E i \in DOMAIN replies[c] :
          replies[c][i].type \in {"lock", "items"} /\ replies[c][i].thing = f

Changes(c, f) ==
    /\ visiting[c] = Home[f]
    /\ Len(requests[c]) < MaxRequests
    /\ raced' = IF Behind(c, f) \/ c \in strayed THEN raced \cup {f} ELSE raced
    /\ UNCHANGED <<object, nextObject, roomOf, online, replies, visiting, serverId, strayed>>

\* OnLockChange of the client, after HookLockChange
ChangesLock(c, f, lock) ==
    /\ Changes(c, f)
    /\ lock # shown[c][f].lock
    /\ shown' = [shown EXCEPT ![c][f].lock = lock]
    /\ Sends(c, <<[type |-> "lock", thing |-> f, lock |-> lock]>>)

\* OnInventoryChangeEvent: a thing without a number is not told of
ChangesItems(c, f, n) ==
    /\ Changes(c, f)
    /\ shown[c][f].items + n \in 0 .. MaxItems
    /\ shown' = [shown EXCEPT ![c][f].items = @ + n]
    /\ IF serverId[c][f] = 0 THEN UNCHANGED requests
       ELSE Sends(c, <<[type |-> "items", thing |-> f, id |-> serverId[c][f], count |-> n]>>)

\* A cell is entered; of the services that hear it ObjectService is the first
\* to send, PlayerService the second (order of World::World)
OnCellChange(c, room) ==
    /\ visiting[c] # room
    /\ Len(requests[c]) < MaxRequests
    /\ online' = online \cup {c}
    /\ visiting' = [visiting EXCEPT ![c] = room]
    /\ LET there == {f \in Things : Home[f] = room} IN
       /\ Sends(c, << [type |-> "assign", room |-> room, things |-> [f \in there |-> shown[c][f]]],
                      [type |-> "enter", room |-> room] >>)
       /\ raced' = raced \cup {f \in there : Behind(c, f)}
    /\ strayed' = strayed \ {c}
    /\ UNCHANGED <<object, nextObject, roomOf, replies, shown, serverId>>

\* OnAssignObjectsResponse does not apply lock data like LockData{}
Unapplied(c, thing, f) == thing.lock = NoLock /\ shown[c][f].lock # NoLock

AfterAnswer(c, things) ==
    [f \in Things |->
        IF f \notin DOMAIN things \/ things[f].first THEN shown[c][f]
        ELSE LET thing == things[f].thing IN
             [lock |-> IF Unapplied(c, thing, f) THEN shown[c][f].lock ELSE thing.lock,
              items |-> SetInventory(thing.items)]]

Receives(c, type) ==
    /\ replies[c] # <<>>
    /\ Head(replies[c]).type = type
    /\ replies' = Read(replies, c)
    /\ UNCHANGED <<object, nextObject, roomOf, online, requests, visiting>>

OnAssignObjectsResponse(c) ==
    /\ Receives(c, "assigned")
    /\ LET things == Head(replies[c]).things IN
       /\ shown' = [shown EXCEPT ![c] = AfterAnswer(c, things)]
       /\ serverId' = [serverId EXCEPT ![c] =
                         [f \in Things |-> IF f \in DOMAIN things THEN things[f].id ELSE @[f]]]
       /\ strayed' = IF \E f \in DOMAIN things : ~things[f].first /\ Unapplied(c, things[f].thing, f)
                     THEN strayed \cup {c} ELSE strayed
    /\ UNCHANGED raced

\* A thing has changed in the game of c, whose report of it may be under way, or
\* the answer to that
Outdates(c, f) == raced' = IF Unanswered(c) THEN raced \cup {f} ELSE raced

OnLockChangeNotify(c) ==
    /\ Receives(c, "lock")
    /\ LET m == Head(replies[c]) IN
       /\ shown' = [shown EXCEPT ![c][m.thing].lock = m.lock]
       /\ Outdates(c, m.thing)
    /\ UNCHANGED <<serverId, strayed>>

\* OnNotifyInventoryChanges finds the object by its number
OnNotifyInventoryChanges(c) ==
    /\ Receives(c, "items")
    /\ LET m == Head(replies[c]) IN
       /\ shown' = IF serverId[c][m.thing] # m.id THEN shown
                   ELSE [shown EXCEPT ![c][m.thing].items = AddOrRemoveItem(@, m.count)]
       /\ Outdates(c, m.thing)
    /\ UNCHANGED <<serverId, strayed>>

ObjectsNext ==
    \E c \in Clients :
       \/ OnAssignObjectsRequest(c) \/ OnEnterInteriorCell(c)
       \/ OnLockChange(c) \/ OnInventoryChanges(c) \/ OnPlayerQuits(c)
       \/ OnAssignObjectsResponse(c) \/ OnLockChangeNotify(c) \/ OnNotifyInventoryChanges(c)
       \/ \E room \in Rooms : OnCellChange(c, room)
       \/ \E f \in Things :
             \/ \E lock \in Locks : ChangesLock(c, f, lock)
             \/ \E n \in {-1, 1} : ChangesItems(c, f, n)

ObjectsSpec == ObjectsInit /\ [][ObjectsNext]_objectsVars

---------------------------------------------------------------------------
(* Properties *)

ObjectsTypeOK ==
    /\ DOMAIN object \subseteq 1 .. MaxObject
    /\ \A e \in DOMAIN object : object[e] \in [form : Things, lock : Locks, items : Int]
    /\ roomOf \in [Clients -> Rooms \cup {NoRoom}]
    /\ \A c \in Clients : c \notin online => roomOf[c] = NoRoom /\ requests[c] = <<>>
    /\ shown \in [Clients -> [Things -> [lock : Locks, items : Nat]]]

(* Once a client has nothing more to tell and nothing more to read, it shows *)
(* what the server has for each thing in its cell, and has its number:       *)
(* whoever came first, whoever changed it, and however often the cell was    *)
(* left and entered again. This is so for things that one client at a time   *)
(* changed, and not before it had the answer to what it reported, and for    *)
(* clients that were not between reporting a cell and entering it when one   *)
(* of its things changed or was destroyed; the code has nothing for these    *)
(* cases.                                                                    *)
ObjectsAgree ==
    \A c \in Clients, f \in Things :
        /\ visiting[c] = Home[f] /\ c \notin strayed /\ f \notin raced
        /\ requests[c] = <<>> /\ replies[c] = <<>>
        => /\ serverId[c][f] \in DOMAIN object
           /\ object[serverId[c][f]] =
                 [form |-> f, lock |-> shown[c][f].lock, items |-> shown[c][f].items]

(* A thing is known under one number (OnAssignObjectsRequest).               *)
OneObjectPerThing == \A f \in Things : Cardinality(EntitiesOf(f)) <= 1

(* When the last player leaves a cell, by travelling or by leaving the game, *)
(* the things in it are forgotten, and not before (OnPlayerLeaveCellEvent).  *)
LastVisitorForgets ==
    [][\A r \in Rooms :
          LET deserted == \A c \in online' : roomOf'[c] # r
              kept == \A e \in DOMAIN object : Home[object[e].form] = r => e \in DOMAIN object'
              gone == \A e \in DOMAIN object' : Home[object'[e].form] # r
          IN /\ ~deserted => kept
             /\ Inside(r) # {} /\ deserted => gone]_objectsVars
=============================================================================
