---------------------------- MODULE ObjectsProofs ----------------------------
(***************************************************************************)
(* Proofs about Objects, for any clients, things and cells: that a thing   *)
(* is known under one number and is forgotten with the last visitor of its *)
(* cell, which rest on the server alone, and that the clients come to show *)
(* what the server has, which rests on all that is under way between them. *)
(* The lemmas about queues are those of CompanionsProofs.                  *)
(***************************************************************************)
EXTENDS Objects, CalendarProofs, CompanionsProofs, FiniteSetTheorems, SequenceTheorems, TLAPS

ThingsShown == [lock : Locks, items : Nat]

RoomReports == UNION {[S -> ThingsShown] : S \in SUBSET Things}

AnswersToReports ==
    UNION {[S -> [id : Nat, first : BOOLEAN, thing : [lock : Locks, items : Int]]] :
              S \in SUBSET Things}

ChangeMessages ==
    [type : {"lock"}, thing : Things, lock : Locks]
       \cup [type : {"items"}, thing : Things, id : Nat, count : Int]

Requests ==
    [type : {"assign"}, room : Rooms, things : RoomReports]
       \cup [type : {"enter"}, room : Rooms] \cup ChangeMessages

Replies == [type : {"assigned"}, things : AnswersToReports] \cup ChangeMessages

(* What the server keeps. *)
Records ==
    /\ nextObject \in Nat \ {0}
    /\ DOMAIN object \subseteq 1 .. nextObject - 1
    /\ object \in [DOMAIN object -> [form : Things, lock : Locks, items : Int]]
    /\ \A d, e \in DOMAIN object : object[d].form = object[e].form => d = e

(* Where the server has the players. *)
Whereabouts ==
    /\ online \subseteq Clients
    /\ roomOf \in [Clients -> Rooms \cup {NoRoom}]
    /\ visiting \in [Clients -> Rooms \cup {NoRoom}]
    /\ \A c \in Clients \ online :
          roomOf[c] = NoRoom /\ visiting[c] = NoRoom /\ requests[c] = <<>>

Messages ==
    /\ requests \in [Clients -> Seq(Requests)]
    /\ replies \in [Clients -> Seq(Replies)]

Games ==
    /\ shown \in [Clients -> [Things -> ThingsShown]]
    /\ serverId \in [Clients -> [Things -> Nat]]

ObjectsInv == Records /\ Whereabouts /\ Messages /\ Games

---------------------------------------------------------------------------
(* Messages *)

LEMMA PostedTypes ==
    ASSUME NEW S, NEW queues \in [Clients -> Seq(S)], NEW recipients, NEW m \in S
    PROVE  Posted(queues, recipients, m) \in [Clients -> Seq(S)]
BY DEF Posted

LEMMA ReadTypes ==
    ASSUME NEW S, NEW queues \in [Clients -> Seq(S)], NEW c \in Clients, queues[c] # <<>>
    PROVE  /\ Head(queues[c]) \in S
           /\ Read(queues, c) \in [Clients -> Seq(S)]
<1>1. Head(queues[c]) \in S /\ Tail(queues[c]) \in Seq(S)
  BY HeadTailProperties
<1> QED BY <1>1 DEF Read

(* What a request of each kind carries.                                        *)
LEMMA RequestFields ==
    ASSUME NEW m \in Requests
    PROVE  /\ m.type = "assign" => m.things \in RoomReports
           /\ m.type = "enter" => m.room \in Rooms
           /\ m.type = "lock" => m \in Replies /\ m.thing \in Things /\ m.lock \in Locks
           /\ m.type = "items" => m \in Replies /\ m.id \in Nat /\ m.count \in Int
BY DEF Requests, Replies, ChangeMessages

LEMMA ReplyFields ==
    ASSUME NEW m \in Replies
    PROVE  /\ m.type = "assigned" => m.things \in AnswersToReports
           /\ m.type = "lock" => m.thing \in Things /\ m.lock \in Locks
           /\ m.type = "items" => m.thing \in Things /\ m.id \in Nat /\ m.count \in Int
BY DEF Replies, ChangeMessages

(* A client's messages are read by the server.                                 *)
LEMMA ReceiptTypes ==
    ASSUME ObjectsInv, NEW c \in Clients, NEW type, Receipt(c, type)
    PROVE  /\ Head(requests[c]) \in Requests /\ Head(requests[c]).type = type
           /\ requests' \in [Clients -> Seq(Requests)]
           /\ c \in online
           /\ \A d \in Clients : d # c => requests'[d] = requests[d]
<1>1. requests \in [Clients -> Seq(Requests)] /\ requests[c] # <<>>
  BY DEF ObjectsInv, Messages, Receipt
<1>2. Head(requests[c]) \in Requests /\ Read(requests, c) \in [Clients -> Seq(Requests)]
  BY <1>1, ReadTypes
<1>3. c \in online
  BY <1>1 DEF ObjectsInv, Whereabouts
<1>4. requests' = Read(requests, c)
  BY DEF Receipt
<1>5. \A d \in Clients : d # c => requests'[d] = requests[d]
  BY <1>1, <1>4 DEF Read
<1> QED BY <1>2, <1>3, <1>4, <1>5 DEF Receipt

---------------------------------------------------------------------------
(* Records *)

(* Forgetting leaves what it does not take.                                    *)
LEMMA KeptRecords ==
    ASSUME Records, NEW cells, NEW room, object' = Kept(cells, room), nextObject' = nextObject
    PROVE  /\ Records'
           /\ DOMAIN object' \subseteq DOMAIN object
           /\ \A e \in DOMAIN object' : object'[e] = object[e]
           /\ (\E c \in online' : cells[c] = room) => object' = object
           /\ \A e \in DOMAIN object : Home[object[e].form] # room => e \in DOMAIN object'
           /\ (\A c \in online' : cells[c] # room) =>
                 \A e \in DOMAIN object' : Home[object'[e].form] # room
<1>1. CASE \E c \in online' : cells[c] = room
  BY <1>1 DEF Kept, Records
<1>2. CASE ~\E c \in online' : cells[c] = room
  <2>1. object' = [e \in {d \in DOMAIN object : Home[object[d].form] # room} |-> object[e]]
    BY <1>2 DEF Kept
  <2> QED BY <1>2, <2>1 DEF Records
<1> QED BY <1>1, <1>2

(* A report makes records of the things that have none, under new numbers.     *)
LEMMA ReportMakesRecords ==
    ASSUME Records, NEW report \in RoomReports, NEW number \in FreshNumbers(New(report)),
           object' = Created(number, report),
           nextObject' = nextObject + Cardinality(New(report))
    PROVE  /\ Records'
           /\ DOMAIN object \subseteq DOMAIN object'
           /\ DOMAIN number = New(report)
           /\ \A f \in DOMAIN number : number[f] \in Nat
           /\ \A e \in DOMAIN object : object'[e] = object[e]
           /\ \A f \in DOMAIN number :
                 /\ number[f] \in DOMAIN object'
                 /\ object'[number[f]] =
                       [form |-> f, lock |-> report[f].lock, items |-> report[f].items]
           /\ \A e \in DOMAIN object' \ DOMAIN object :
                 e >= nextObject /\ \E f \in DOMAIN number : e = number[f]
<1> DEFINE new == New(report)
           later == Cardinality(new)
<1>1. PICK S \in SUBSET Things : report \in [S -> ThingsShown]
  BY DEF RoomReports
<1>2. new \subseteq S /\ \A f \in new : EntitiesOf(f) = {}
  BY <1>1 DEF New
<1>3. IsFiniteSet(new) /\ later \in Nat
  BY <1>1, <1>2, ObjectsAssumption, FS_Subset, FS_CardinalityType
<1>4. /\ number \in [new -> nextObject .. nextObject + later - 1]
      /\ \A f, g \in new : number[f] = number[g] => f = g
  BY DEF FreshNumbers, IsInjective
<1>5. nextObject \in Nat \ {0} /\ DOMAIN object \subseteq 1 .. nextObject - 1
  BY DEF Records
<1> DEFINE fresh == {number[f] : f \in new}
<1>6. Range(number) = fresh
  BY <1>4 DEF Range
<1>7. \A e \in fresh : e \in nextObject .. nextObject + later - 1 /\ e \notin DOMAIN object
  BY <1>3, <1>4, <1>5
<1>8. DOMAIN object' = DOMAIN object \cup fresh
  BY <1>6 DEF Created
<1>9. \A e \in DOMAIN object : object'[e] = object[e]
  BY <1>6 DEF Created
<1>10. \A f \in new :
          object'[number[f]] = [form |-> f, lock |-> report[f].lock, items |-> report[f].items]
  <2> TAKE f \in new
  <2>1. number[f] \in fresh
    OBVIOUS
  <2>2. (CHOOSE g \in DOMAIN number : number[g] = number[f]) = f
    BY <1>4
  <2> QED BY <1>4, <1>6, <1>7, <2>1, <2>2 DEF Created
<1>11. nextObject' \in Nat \ {0} /\ DOMAIN object' \subseteq 1 .. nextObject' - 1
  <2> HIDE DEF new, later, fresh
  <2>1. nextObject' = nextObject + later
    BY DEF later, new
  <2> QED BY <1>3, <1>5, <1>7, <1>8, <2>1
<1>12. \A e \in DOMAIN object' : object'[e] \in [form : Things, lock : Locks, items : Int]
  <2> TAKE e \in DOMAIN object'
  <2>1. CASE e \in DOMAIN object
    BY <1>9, <2>1 DEF Records
  <2>2. CASE e \in fresh
    <3>1. PICK f \in new : e = number[f]
      BY <2>2
    <3>2. report[f] \in ThingsShown /\ f \in Things
      BY <1>1, <1>2
    <3>3. [form |-> f, lock |-> report[f].lock, items |-> report[f].items]
             \in [form : Things, lock : Locks, items : Int]
      BY <3>2 DEF ThingsShown
    <3> HIDE DEF new
    <3>4. object'[e] = [form |-> f, lock |-> report[f].lock, items |-> report[f].items]
      BY <1>10, <3>1
    <3> QED BY <3>3, <3>4
  <2> QED BY <1>8, <2>1, <2>2
<1>13. \A d, e \in DOMAIN object' : object'[d].form = object'[e].form => d = e
  <2> SUFFICES ASSUME NEW d \in DOMAIN object', NEW e \in DOMAIN object',
                      object'[d].form = object'[e].form
               PROVE  d = e
    OBVIOUS
  <2>1. \A f \in new : \A b \in DOMAIN object : object[b].form # f
    BY <1>2 DEF EntitiesOf
  <2>6. \A f \in new : object'[number[f]].form = f
    <3> TAKE f \in new
    <3>1. object'[number[f]] = [form |-> f, lock |-> report[f].lock, items |-> report[f].items]
      BY <1>10
    <3> QED BY <3>1
  <2>2. CASE d \in DOMAIN object /\ e \in DOMAIN object
    BY <1>9, <2>2 DEF Records
  <2>3. CASE d \in DOMAIN object /\ e \in fresh
    <3>1. PICK f \in new : e = number[f]
      BY <2>3
    <3> QED BY <1>9, <2>1, <2>3, <2>6, <3>1
  <2>4. CASE d \in fresh /\ e \in DOMAIN object
    <3>1. PICK f \in new : d = number[f]
      BY <2>4
    <3> QED BY <1>9, <2>1, <2>4, <2>6, <3>1
  <2>5. CASE d \in fresh /\ e \in fresh
    <3>1. PICK f \in new, g \in new : d = number[f] /\ e = number[g]
      BY <2>5
    <3> QED BY <2>6, <3>1
  <2> QED BY <1>8, <2>2, <2>3, <2>4, <2>5
<1>14. object' \in [DOMAIN object' -> [form : Things, lock : Locks, items : Int]]
  <2>1. object' = [e \in DOMAIN object' |-> object'[e]]
    BY DEF Created
  <2> QED BY <1>12, <2>1
<1>15. \A e \in DOMAIN object' \ DOMAIN object :
          e >= nextObject /\ \E f \in DOMAIN number : e = number[f]
  BY <1>3, <1>4, <1>5, <1>7, <1>8
<1>16. \A f \in DOMAIN number : number[f] \in Nat /\ number[f] \in DOMAIN object'
  BY <1>3, <1>4, <1>5, <1>8
<1> QED BY <1>4, <1>5, <1>8, <1>9, <1>10, <1>11, <1>13, <1>14, <1>15, <1>16 DEF Records

(* What is answered to a report.                                               *)
LEMMA AnswersTypes ==
    ASSUME Records, NEW report \in RoomReports, NEW number,
           DOMAIN number = New(report), \A f \in DOMAIN number : number[f] \in Nat
    PROVE  Answers(number, report) \in AnswersToReports
<1> DEFINE Answer == [id : Nat, first : BOOLEAN, thing : [lock : Locks, items : Int]]
<1>1. PICK S \in SUBSET Things : report \in [S -> ThingsShown]
  BY DEF RoomReports
<1>2. \A f \in S \ DOMAIN number : EntitiesOf(f) # {}
  BY <1>1 DEF New
<1>3. \A f \in S : Answers(number, report)[f] \in Answer
  <2> TAKE f \in S
  <2>1. CASE f \in DOMAIN number
    <3>1. report[f] \in ThingsShown
      BY <1>1
    <3>2. report[f] \in [lock : Locks, items : Int]
      BY <3>1 DEF ThingsShown
    <3> QED BY <1>1, <2>1, <3>2 DEF Answers
  <2>2. CASE f \notin DOMAIN number
    <3> DEFINE e == CHOOSE d \in EntitiesOf(f) : TRUE
    <3>1. e \in EntitiesOf(f)
      BY <1>2, <2>2
    <3>2. e \in Nat /\ object[e] \in [form : Things, lock : Locks, items : Int]
      BY <3>1 DEF EntitiesOf, Records
    <3>3. Answers(number, report)[f] =
            [id |-> e, first |-> FALSE,
             thing |-> [lock |-> object[e].lock, items |-> object[e].items]]
      BY <1>1, <2>2 DEF Answers
    <3> HIDE DEF e
    <3> QED BY <3>2, <3>3
  <2> QED BY <2>1, <2>2
<1>4. Answers(number, report) \in [S -> Answer]
  <2>1. Answers(number, report) = [f \in S |-> Answers(number, report)[f]]
    BY <1>1 DEF Answers
  <2> HIDE DEF Answer
  <2> QED BY <1>3, <2>1
<1> QED BY <1>4 DEF AnswersToReports

---------------------------------------------------------------------------
(* Actions *)

(* A request that the server handles without moving anybody.                   *)
LEMMA WhereaboutsStay ==
    ASSUME ObjectsInv, NEW c \in Clients, NEW type, Receipt(c, type),
           online' = online, roomOf' = roomOf, visiting' = visiting
    PROVE  Whereabouts'
<1>1. /\ c \in online
      /\ \A d \in Clients : d # c => requests'[d] = requests[d]
  BY ReceiptTypes
<1> QED BY <1>1 DEF ObjectsInv, Whereabouts

LEMMA AssignKeepsInv ==
    ASSUME ObjectsInv, NEW c \in Clients, OnAssignObjectsRequest(c)
    PROVE  ObjectsInv' /\ DOMAIN object \subseteq DOMAIN object'
<1> DEFINE report == Head(requests[c]).things
<1>1. /\ Receipt(c, "assign")
      /\ online' = online /\ roomOf' = roomOf /\ visiting' = visiting
      /\ shown' = shown /\ serverId' = serverId
      /\ nextObject' = nextObject + Cardinality(New(report))
  BY DEF OnAssignObjectsRequest
<1>2. PICK number \in FreshNumbers(New(report)) :
         /\ object' = Created(number, report)
         /\ replies' = Posted(replies, IF DOMAIN report = {} THEN {} ELSE {c},
                              [type |-> "assigned", things |-> Answers(number, report)])
  BY DEF OnAssignObjectsRequest
<1>3. /\ Head(requests[c]) \in Requests /\ Head(requests[c]).type = "assign"
      /\ requests' \in [Clients -> Seq(Requests)]
  BY <1>1, ReceiptTypes
<1>4. report \in RoomReports
  BY <1>3, RequestFields
<1> HIDE DEF report
<1>5. /\ Records' /\ DOMAIN object \subseteq DOMAIN object'
      /\ DOMAIN number = New(report)
      /\ \A f \in DOMAIN number : number[f] \in Nat
  BY <1>1, <1>2, <1>4, ReportMakesRecords DEF ObjectsInv
<1>6. Answers(number, report) \in AnswersToReports
  BY <1>4, <1>5, AnswersTypes DEF ObjectsInv
<1>7. [type |-> "assigned", things |-> Answers(number, report)] \in Replies
  BY <1>6 DEF Replies
<1>8. replies' \in [Clients -> Seq(Replies)]
  BY <1>2, <1>7, PostedTypes DEF ObjectsInv, Messages
<1>9. Whereabouts'
  BY <1>1, WhereaboutsStay
<1> QED BY <1>1, <1>3, <1>5, <1>8, <1>9 DEF ObjectsInv, Messages, Games

LEMMA EnterKeepsInv ==
    ASSUME ObjectsInv, NEW c \in Clients, OnEnterInteriorCell(c)
    PROVE  ObjectsInv'
<1>1. /\ Receipt(c, "enter")
      /\ roomOf' = [roomOf EXCEPT ![c] = Head(requests[c]).room]
      /\ online' = online
      /\ object' = Kept(roomOf', roomOf[c])
      /\ nextObject' = nextObject /\ replies' = replies /\ shown' = shown
      /\ serverId' = serverId /\ visiting' = visiting
  BY DEF OnEnterInteriorCell
<1>2. /\ Head(requests[c]) \in Requests /\ Head(requests[c]).type = "enter"
      /\ requests' \in [Clients -> Seq(Requests)]
      /\ c \in online
      /\ \A d \in Clients : d # c => requests'[d] = requests[d]
  BY <1>1, ReceiptTypes
<1>3. Head(requests[c]).room \in Rooms
  BY <1>2, RequestFields
<1>4. Records'
  BY <1>1, KeptRecords DEF ObjectsInv
<1>5. Whereabouts'
  BY <1>1, <1>2, <1>3 DEF ObjectsInv, Whereabouts
<1> QED BY <1>1, <1>2, <1>4, <1>5 DEF ObjectsInv, Messages, Games

LEMMA LockKeepsInv ==
    ASSUME ObjectsInv, NEW c \in Clients, OnLockChange(c)
    PROVE  ObjectsInv' /\ DOMAIN object \subseteq DOMAIN object'
<1> DEFINE m == Head(requests[c])
           Thing == [form : Things, lock : Locks, items : Int]
<1>1. /\ Receipt(c, "lock")
      /\ object' = [e \in DOMAIN object |->
                       IF object[e].form = m.thing THEN [object[e] EXCEPT !.lock = m.lock]
                       ELSE object[e]]
      /\ replies' = Posted(replies, Inside(Home[m.thing]) \ {c}, m)
      /\ nextObject' = nextObject /\ online' = online /\ roomOf' = roomOf
      /\ visiting' = visiting /\ shown' = shown /\ serverId' = serverId
  BY DEF OnLockChange
<1>2. m \in Requests /\ m.type = "lock" /\ requests' \in [Clients -> Seq(Requests)]
  BY <1>1, ReceiptTypes
<1> HIDE DEF m
<1>3. m \in Replies /\ m.lock \in Locks
  BY <1>2, RequestFields
<1>4. \A e \in DOMAIN object : object'[e] \in Thing /\ object'[e].form = object[e].form
  <2> TAKE e \in DOMAIN object
  <2>1. object[e] \in Thing
    BY DEF ObjectsInv, Records
  <2>2. \/ object'[e] = [object[e] EXCEPT !.lock = m.lock]
        \/ object'[e] = object[e]
    BY <1>1
  <2> QED BY <1>3, <2>1, <2>2
<1>5. Records'
  <2>1. object' \in [DOMAIN object -> Thing]
    <3> HIDE DEF Thing
    <3> QED BY <1>1, <1>4
  <2> QED BY <1>1, <1>4, <2>1 DEF ObjectsInv, Records
<1>6. replies' \in [Clients -> Seq(Replies)]
  BY <1>1, <1>3, PostedTypes DEF ObjectsInv, Messages
<1>7. Whereabouts'
  BY <1>1, WhereaboutsStay
<1> QED BY <1>1, <1>2, <1>5, <1>6, <1>7 DEF ObjectsInv, Messages, Games

LEMMA ItemsKeepInv ==
    ASSUME ObjectsInv, NEW c \in Clients, OnInventoryChanges(c)
    PROVE  ObjectsInv' /\ DOMAIN object \subseteq DOMAIN object'
<1> DEFINE m == Head(requests[c])
           Thing == [form : Things, lock : Locks, items : Int]
<1>1. /\ Receipt(c, "items")
      /\ nextObject' = nextObject /\ online' = online /\ roomOf' = roomOf
      /\ visiting' = visiting /\ shown' = shown /\ serverId' = serverId
  BY DEF OnInventoryChanges
<1>2. m \in Requests /\ m.type = "items" /\ requests' \in [Clients -> Seq(Requests)]
  BY <1>1, ReceiptTypes
<1>3. m \in Replies /\ m.id \in Nat /\ m.count \in Int
  BY <1>2, RequestFields
<1>4. Whereabouts'
  BY <1>1, WhereaboutsStay
<1>5. CASE m.id \notin DOMAIN object
  <2>1. object' = object /\ replies' = replies
    BY <1>5 DEF OnInventoryChanges
  <2> QED BY <1>1, <1>2, <1>4, <2>1 DEF ObjectsInv, Records, Messages, Games
<1>6. CASE m.id \in DOMAIN object
  <2>1. /\ object' = [object EXCEPT ![m.id].items = AddOrRemoveEntry(@, m.count)]
        /\ replies' = Posted(replies, Inside(Home[object[m.id].form]) \ {c}, m)
    BY <1>6 DEF OnInventoryChanges
  <2> HIDE DEF m
  <2>2. object[m.id] \in Thing
    BY <1>6 DEF ObjectsInv, Records
  <2> DEFINE count == AddOrRemoveEntry(object[m.id].items, m.count)
             changed == [object[m.id] EXCEPT !.items = count]
  <2>3. count \in Int
    BY <1>3, <2>2 DEF AddOrRemoveEntry
  <2> HIDE DEF count
  <2>4. changed \in Thing /\ changed.form = object[m.id].form
    BY <2>2, <2>3
  <2>5. object' = [object EXCEPT ![m.id] = changed]
    BY <1>6, <2>1 DEF count
  <2> HIDE DEF changed
  <2>6. Records'
    <3>1. object' \in [DOMAIN object -> Thing] /\ DOMAIN object' = DOMAIN object
      <4> HIDE DEF Thing
      <4>1. object \in [DOMAIN object -> Thing]
        BY DEF ObjectsInv, Records, Thing
      <4> QED BY <2>4, <2>5, <4>1
    <3>2. \A e \in DOMAIN object : object'[e].form = object[e].form
      BY <1>6, <2>4, <2>5
    <3> QED BY <1>1, <3>1, <3>2 DEF ObjectsInv, Records
  <2>7. replies' \in [Clients -> Seq(Replies)]
    BY <1>3, <2>1, PostedTypes DEF ObjectsInv, Messages
  <2> QED BY <1>1, <1>2, <1>4, <2>5, <2>6, <2>7 DEF ObjectsInv, Messages, Games
<1> QED BY <1>5, <1>6

LEMMA QuittingKeepsInv ==
    ASSUME ObjectsInv, NEW c \in Clients, OnPlayerQuits(c)
    PROVE  ObjectsInv'
<1>1. /\ online' = online \ {c}
      /\ roomOf' = [roomOf EXCEPT ![c] = NoRoom]
      /\ visiting' = [visiting EXCEPT ![c] = NoRoom]
      /\ requests' = [requests EXCEPT ![c] = <<>>]
      /\ replies' = [replies EXCEPT ![c] = <<>>]
      /\ object' = object \/ object' = Kept(roomOf', roomOf[c])
      /\ nextObject' = nextObject /\ shown' = shown /\ serverId' = serverId
  BY DEF OnPlayerQuits
<1>2. Records'
  <2>1. CASE object' = object
    BY <1>1, <2>1 DEF ObjectsInv, Records
  <2>2. CASE object' = Kept(roomOf', roomOf[c])
    BY <1>1, <2>2, KeptRecords DEF ObjectsInv
  <2> QED BY <1>1, <2>1, <2>2
<1>3. Whereabouts'
  BY <1>1 DEF ObjectsInv, Whereabouts, Messages
<1>4. Messages'
  BY <1>1 DEF ObjectsInv, Messages
<1> QED BY <1>1, <1>2, <1>3, <1>4 DEF ObjectsInv, Games

(* What a client does that the server does not see yet.                        *)
LEMMA ServerUnchanged ==
    ASSUME ObjectsInv, UNCHANGED <<object, nextObject, roomOf, online, visiting>>,
           requests' \in [Clients -> Seq(Requests)],
           \A d \in Clients : d \notin online => requests'[d] = requests[d]
    PROVE  Records' /\ Whereabouts'
BY DEF ObjectsInv, Records, Whereabouts

(* A message is sent by a player who is online.                                *)
LEMMA SendingTypes ==
    ASSUME ObjectsInv, NEW c \in Clients, NEW s \in Seq(Requests), Sends(c, s)
    PROVE  /\ requests' \in [Clients -> Seq(Requests)]
           /\ \A d \in Clients : d # c => requests'[d] = requests[d]
<1>1. requests \in [Clients -> Seq(Requests)] /\ requests[c] \in Seq(Requests)
  BY DEF ObjectsInv, Messages
<1>2. requests[c] \o s \in Seq(Requests)
  BY <1>1, ConcatProperties
<1> QED BY <1>1, <1>2 DEF Sends

LEMMA ReceivesTypes ==
    ASSUME ObjectsInv, NEW c \in Clients, NEW type, Receives(c, type)
    PROVE  /\ Head(replies[c]) \in Replies /\ Head(replies[c]).type = type
           /\ Records' /\ Whereabouts' /\ Messages'
<1>1. /\ replies[c] # <<>> /\ Head(replies[c]).type = type
      /\ replies' = Read(replies, c)
      /\ UNCHANGED <<object, nextObject, roomOf, online, requests, visiting>>
  BY DEF Receives
<1>2. Head(replies[c]) \in Replies /\ replies' \in [Clients -> Seq(Replies)]
  BY <1>1, ReadTypes DEF ObjectsInv, Messages
<1>3. Records' /\ Whereabouts'
  BY <1>1, ServerUnchanged DEF ObjectsInv, Messages
<1> QED BY <1>1, <1>2, <1>3 DEF ObjectsInv, Messages

(* A thing in one game gets another lock or another count.                     *)
LEMMA ShownTypes ==
    ASSUME NEW games \in [Clients -> [Things -> ThingsShown]], NEW c \in Clients, NEW f \in Things
    PROVE  /\ \A lock \in Locks :
                [games EXCEPT ![c][f].lock = lock] \in [Clients -> [Things -> ThingsShown]]
           /\ \A n \in Nat :
                [games EXCEPT ![c][f].items = n] \in [Clients -> [Things -> ThingsShown]]
<1> DEFINE game == games[c]
           thing == game[f]
<1>1. game \in [Things -> ThingsShown] /\ thing \in ThingsShown
  OBVIOUS
<1>2. \A x \in ThingsShown : [games EXCEPT ![c] = [game EXCEPT ![f] = x]]
                            \in [Clients -> [Things -> ThingsShown]]
  <2> HIDE DEF game
  <2> QED BY <1>1
<1>3. ASSUME NEW lock \in Locks
      PROVE  [games EXCEPT ![c][f].lock = lock] \in [Clients -> [Things -> ThingsShown]]
  <2>1. [games EXCEPT ![c][f].lock = lock] =
           [games EXCEPT ![c] = [game EXCEPT ![f] = [thing EXCEPT !.lock = lock]]]
    OBVIOUS
  <2>2. [thing EXCEPT !.lock = lock] \in ThingsShown
    <3> HIDE DEF thing
    <3> QED BY <1>1 DEF ThingsShown
  <2> HIDE DEF thing, game
  <2> QED BY <1>2, <2>1, <2>2
<1>4. ASSUME NEW n \in Nat
      PROVE  [games EXCEPT ![c][f].items = n] \in [Clients -> [Things -> ThingsShown]]
  <2>1. [games EXCEPT ![c][f].items = n] =
           [games EXCEPT ![c] = [game EXCEPT ![f] = [thing EXCEPT !.items = n]]]
    OBVIOUS
  <2>2. [thing EXCEPT !.items = n] \in ThingsShown
    <3> HIDE DEF thing
    <3> QED BY <1>1 DEF ThingsShown
  <2> HIDE DEF thing, game
  <2> QED BY <1>2, <2>1, <2>2
<1> QED BY <1>3, <1>4

(* A player changes only what is in its own cell.                              *)
LEMMA ChangesTypes ==
    ASSUME ObjectsInv, NEW c \in Clients, NEW f \in Things, Changes(c, f)
    PROVE  /\ c \in online
           /\ UNCHANGED <<object, nextObject, roomOf, online, visiting, replies, serverId>>
<1>1. /\ visiting[c] = Home[f]
      /\ UNCHANGED <<object, nextObject, roomOf, online, visiting, replies, serverId>>
  BY DEF Changes
<1>2. visiting[c] # NoRoom
  BY <1>1, ObjectsAssumption
<1> QED BY <1>1, <1>2 DEF ObjectsInv, Whereabouts

LEMMA ChangesLockKeepsInv ==
    ASSUME ObjectsInv, NEW c \in Clients, NEW f \in Things, NEW lock \in Locks,
           ChangesLock(c, f, lock)
    PROVE  ObjectsInv' /\ DOMAIN object' = DOMAIN object
<1> DEFINE m == [type |-> "lock", thing |-> f, lock |-> lock]
<1>1. /\ Changes(c, f) /\ Sends(c, <<m>>)
      /\ shown' = [shown EXCEPT ![c][f].lock = lock]
  BY DEF ChangesLock
<1>2. /\ c \in online
      /\ UNCHANGED <<object, nextObject, roomOf, online, visiting, replies, serverId>>
  BY <1>1, ChangesTypes
<1>3. m \in Requests
  <2>1. m \in ChangeMessages
    BY DEF ChangeMessages
  <2> HIDE DEF m
  <2> QED BY <2>1 DEF Requests
<1> HIDE DEF m
<1>7. <<m>> \in Seq(Requests)
  BY <1>3
<1>4. /\ requests' \in [Clients -> Seq(Requests)]
      /\ \A d \in Clients : d # c => requests'[d] = requests[d]
  BY <1>1, <1>7, SendingTypes
<1>5. Records' /\ Whereabouts'
  BY <1>2, <1>4, ServerUnchanged
<1>6. shown' \in [Clients -> [Things -> ThingsShown]]
  BY <1>1, ShownTypes DEF ObjectsInv, Games
<1> QED BY <1>2, <1>4, <1>5, <1>6 DEF ObjectsInv, Messages, Games

LEMMA ChangesItemsKeepsInv ==
    ASSUME ObjectsInv, NEW c \in Clients, NEW f \in Things, NEW n \in {-1, 1},
           ChangesItems(c, f, n)
    PROVE  ObjectsInv' /\ DOMAIN object' = DOMAIN object
<1> DEFINE m == [type |-> "items", thing |-> f, id |-> serverId[c][f], count |-> n]
           count == shown[c][f].items + n
<1>1. /\ Changes(c, f)
      /\ requests' = requests \/ Sends(c, <<m>>)
      /\ count \in 0 .. MaxItems
      /\ shown' = [shown EXCEPT ![c][f].items = count]
  BY DEF ChangesItems
<1>2. /\ c \in online
      /\ UNCHANGED <<object, nextObject, roomOf, online, visiting, replies, serverId>>
  BY <1>1, ChangesTypes
<1>3. m \in Requests
  <2>1. serverId[c][f] \in Nat
    BY DEF ObjectsInv, Games
  <2> QED BY <2>1 DEF Requests, ChangeMessages
<1>4. shown' \in [Clients -> [Things -> ThingsShown]]
  <2>1. count \in Nat
    BY <1>1, ObjectsAssumption
  <2> HIDE DEF count
  <2> QED BY <1>1, <2>1, ShownTypes DEF ObjectsInv, Games
<1> HIDE DEF m
<1>5. /\ requests' \in [Clients -> Seq(Requests)]
      /\ \A d \in Clients : d # c => requests'[d] = requests[d]
  <2>1. CASE requests' = requests
    BY <2>1 DEF ObjectsInv, Messages
  <2>2. CASE Sends(c, <<m>>)
    <3>1. <<m>> \in Seq(Requests)
      BY <1>3
    <3> QED BY <2>2, <3>1, SendingTypes
  <2> QED BY <1>1, <2>1, <2>2
<1>6. Records' /\ Whereabouts'
  BY <1>2, <1>5, ServerUnchanged
<1> QED BY <1>2, <1>4, <1>5, <1>6 DEF ObjectsInv, Messages, Games

LEMMA CellChangeKeepsInv ==
    ASSUME ObjectsInv, NEW c \in Clients, NEW room \in Rooms, OnCellChange(c, room)
    PROVE  ObjectsInv'
<1> DEFINE there == {f \in Things : Home[f] = room}
           report == [f \in there |-> shown[c][f]]
           first == [type |-> "assign", room |-> room, things |-> report]
           second == [type |-> "enter", room |-> room]
<1>1. /\ online' = online \cup {c}
      /\ visiting' = [visiting EXCEPT ![c] = room]
      /\ Sends(c, <<first, second>>)
      /\ UNCHANGED <<object, nextObject, roomOf, replies, shown, serverId>>
  BY DEF OnCellChange
<1>2. report \in RoomReports
  <2>1. report \in [there -> ThingsShown]
    BY DEF ObjectsInv, Games
  <2> QED BY <2>1 DEF RoomReports
<1> HIDE DEF report
<1>3. first \in Requests /\ second \in Requests
  BY <1>2 DEF Requests
<1> HIDE DEF first, second
<1>4. <<first, second>> \in Seq(Requests)
  BY <1>3
<1>5. /\ requests' \in [Clients -> Seq(Requests)]
      /\ \A d \in Clients : d # c => requests'[d] = requests[d]
  BY <1>1, <1>4, SendingTypes
<1>6. Records' /\ Messages' /\ Games'
  BY <1>1, <1>5 DEF ObjectsInv, Records, Messages, Games
<1>7. Whereabouts'
  BY <1>1, <1>5 DEF ObjectsInv, Whereabouts
<1> QED BY <1>6, <1>7 DEF ObjectsInv

LEMMA ResponseKeepsInv ==
    ASSUME ObjectsInv, NEW c \in Clients, OnAssignObjectsResponse(c)
    PROVE  ObjectsInv'
<1> DEFINE things == Head(replies[c]).things
<1>1. /\ Receives(c, "assigned")
      /\ shown' = [shown EXCEPT ![c] = AfterAnswer(c, things)]
      /\ serverId' = [serverId EXCEPT ![c] =
                        [f \in Things |-> IF f \in DOMAIN things THEN things[f].id ELSE @[f]]]
  BY DEF OnAssignObjectsResponse
<1>2. /\ Head(replies[c]) \in Replies /\ Head(replies[c]).type = "assigned"
      /\ Records' /\ Whereabouts' /\ Messages'
  BY <1>1, ReceivesTypes
<1>3. things \in AnswersToReports
  BY <1>2, ReplyFields
<1> HIDE DEF things
<1>4. \A f \in DOMAIN things :
         /\ things[f].id \in Nat
         /\ things[f].thing.lock \in Locks
         /\ things[f].thing.items \in Int
  BY <1>3 DEF AnswersToReports
<1>5. shown[c] \in [Things -> ThingsShown] /\ serverId[c] \in [Things -> Nat]
  BY DEF ObjectsInv, Games
<1>6. \A n \in Int : SetInventory(n) \in Nat
  BY DEF SetInventory, AddOrRemoveItem
<1>7. AfterAnswer(c, things) \in [Things -> ThingsShown]
  <2> SUFFICES ASSUME NEW f \in Things
               PROVE  AfterAnswer(c, things)[f] \in ThingsShown
    BY DEF AfterAnswer
  <2>1. shown[c][f] \in ThingsShown
    BY <1>5
  <2>2. CASE f \notin DOMAIN things \/ things[f].first
    BY <2>1, <2>2 DEF AfterAnswer
  <2>3. CASE ~(f \notin DOMAIN things \/ things[f].first)
    <3> DEFINE lock == IF Unapplied(c, things[f].thing, f) THEN shown[c][f].lock
                       ELSE things[f].thing.lock
               items == SetInventory(things[f].thing.items)
    <3>1. lock \in Locks
      BY <1>4, <2>1, <2>3 DEF ThingsShown
    <3>2. items \in Nat
      BY <1>4, <1>6, <2>3
    <3>3. AfterAnswer(c, things)[f] = [lock |-> lock, items |-> items]
      BY <2>3 DEF AfterAnswer
    <3> HIDE DEF lock, items
    <3> QED BY <3>1, <3>2, <3>3 DEF ThingsShown
  <2> QED BY <2>2, <2>3
<1>8. [f \in Things |-> IF f \in DOMAIN things THEN things[f].id ELSE serverId[c][f]]
         \in [Things -> Nat]
  BY <1>4, <1>5
<1>9. Games'
  BY <1>1, <1>7, <1>8 DEF ObjectsInv, Games
<1> QED BY <1>2, <1>9 DEF ObjectsInv

LEMMA LockNotifyKeepsInv ==
    ASSUME ObjectsInv, NEW c \in Clients, OnLockChangeNotify(c)
    PROVE  ObjectsInv'
<1> DEFINE m == Head(replies[c])
<1>1. /\ Receives(c, "lock")
      /\ shown' = [shown EXCEPT ![c][m.thing].lock = m.lock]
      /\ serverId' = serverId
  BY DEF OnLockChangeNotify
<1>2. /\ m \in Replies /\ m.type = "lock"
      /\ Records' /\ Whereabouts' /\ Messages'
  BY <1>1, ReceivesTypes
<1>3. m.thing \in Things /\ m.lock \in Locks
  BY <1>2, ReplyFields
<1> HIDE DEF m
<1>4. Games'
  BY <1>1, <1>3, ShownTypes DEF ObjectsInv, Games
<1> QED BY <1>2, <1>4 DEF ObjectsInv

LEMMA ItemsNotifyKeepsInv ==
    ASSUME ObjectsInv, NEW c \in Clients, OnNotifyInventoryChanges(c)
    PROVE  ObjectsInv'
<1> DEFINE m == Head(replies[c])
           count == AddOrRemoveItem(shown[c][m.thing].items, m.count)
<1>1. /\ Receives(c, "items") /\ serverId' = serverId
      /\ \/ shown' = shown
         \/ shown' = [shown EXCEPT ![c][m.thing].items = count]
  BY DEF OnNotifyInventoryChanges
<1>2. /\ m \in Replies /\ m.type = "items"
      /\ Records' /\ Whereabouts' /\ Messages'
  BY <1>1, ReceivesTypes
<1>3. m.thing \in Things /\ m.count \in Int
  BY <1>2, ReplyFields
<1> HIDE DEF m
<1>4. shown[c][m.thing] \in ThingsShown
  BY <1>3 DEF ObjectsInv, Games
<1>5. count \in Nat
  <2>1. shown[c][m.thing].items \in Nat
    BY <1>4 DEF ThingsShown
  <2> QED BY <1>3, <2>1 DEF AddOrRemoveItem
<1> HIDE DEF count
<1>6. shown \in [Clients -> [Things -> ThingsShown]]
  BY DEF ObjectsInv, Games
<1>7. shown' \in [Clients -> [Things -> ThingsShown]]
  <2>1. CASE shown' = shown
    BY <1>6, <2>1
  <2>2. CASE shown' = [shown EXCEPT ![c][m.thing].items = count]
    BY <1>3, <1>5, <1>6, <2>2, ShownTypes
  <2> QED BY <1>1, <2>1, <2>2
<1>8. Games'
  BY <1>1, <1>7 DEF ObjectsInv, Games
<1> QED BY <1>2, <1>8 DEF ObjectsInv

---------------------------------------------------------------------------
(* Theorems *)

(* At the start nobody has reported anything.                                 *)
LEMMA ObjectsInitInv == ObjectsInit => ObjectsInv
<1> SUFFICES ASSUME ObjectsInit PROVE ObjectsInv
  OBVIOUS
<1>1. Records
  BY DEF ObjectsInit, Records
<1>2. Whereabouts /\ Messages
  BY DEF ObjectsInit, Whereabouts, Messages
<1>3. [lock : SavedLocks, items : SavedItems] \subseteq ThingsShown
  BY ObjectsAssumption DEF ThingsShown
<1>4. Games
  BY <1>3 DEF ObjectsInit, Games
<1> QED BY <1>1, <1>2, <1>4 DEF ObjectsInv

(* The server numbers each thing once, and clients and server exchange only    *)
(* what the handlers can read, whatever players enter, change and leave.       *)
THEOREM ObjectsInvariant == ObjectsSpec => []ObjectsInv
<1>1. ObjectsInv /\ [ObjectsNext]_objectsVars => ObjectsInv'
  <2> SUFFICES ASSUME ObjectsInv, [ObjectsNext]_objectsVars PROVE ObjectsInv'
    OBVIOUS
  <2>1. CASE UNCHANGED objectsVars
    BY <2>1 DEF objectsVars, ObjectsInv, Records, Whereabouts, Messages, Games
  <2>2. CASE ObjectsNext
    BY <2>2, AssignKeepsInv, EnterKeepsInv, LockKeepsInv, ItemsKeepInv, QuittingKeepsInv,
       ResponseKeepsInv, LockNotifyKeepsInv, ItemsNotifyKeepsInv, CellChangeKeepsInv,
       ChangesLockKeepsInv, ChangesItemsKeepsInv
       DEF ObjectsNext
  <2> QED BY <2>1, <2>2
<1> QED BY ObjectsInitInv, <1>1, PTL DEF ObjectsSpec

(* The state of the objects has its types, and numbers are within their bound. *)
THEOREM ObjectTypesHold == ObjectsSpec => []ObjectsTypeOK
<1> DEFINE Numbers == nextObject <= MaxObject + 1
<1>1. ObjectsInit => ObjectsInv /\ Numbers
  BY ObjectsAssumption, ObjectsInitInv DEF ObjectsInit
<1>2. ObjectsInv /\ Numbers /\ [ObjectsNext]_objectsVars => Numbers'
  <2> SUFFICES ASSUME ObjectsInv, Numbers, [ObjectsNext]_objectsVars PROVE Numbers'
    OBVIOUS
  <2>1. CASE nextObject' = nextObject
    BY <2>1
  <2>2. ASSUME NEW c \in Clients, OnAssignObjectsRequest(c) PROVE Numbers'
    BY <2>2 DEF OnAssignObjectsRequest
  <2> QED BY <2>1, <2>2 DEF objectsVars, ObjectsNext, OnEnterInteriorCell, OnLockChange,
             OnInventoryChanges, OnPlayerQuits, OnAssignObjectsResponse, OnLockChangeNotify,
             OnNotifyInventoryChanges, OnCellChange, ChangesLock, ChangesItems, Changes, Receives
<1>3. ObjectsInv /\ Numbers => ObjectsTypeOK
  <2> SUFFICES ASSUME ObjectsInv, Numbers PROVE ObjectsTypeOK
    OBVIOUS
  <2>1. DOMAIN object \subseteq 1 .. MaxObject
    <3>1. DOMAIN object \subseteq 1 .. nextObject - 1 /\ nextObject \in Nat /\ MaxObject \in Nat
      BY ObjectsAssumption DEF ObjectsInv, Records
    <3>2. 1 .. nextObject - 1 \subseteq 1 .. MaxObject
      BY <3>1
    <3> QED BY <3>1, <3>2
  <2> QED BY <2>1 DEF ObjectsInv, Records, Whereabouts, Games, ThingsShown, ObjectsTypeOK
<1>4. ObjectsSpec => [](ObjectsInv /\ Numbers)
  BY <1>1, <1>2, ObjectsInvariant, PTL DEF ObjectsSpec
<1> QED BY <1>3, <1>4, PTL

(* A thing is known under one number, however many clients reported it.        *)
THEOREM ThingsAreNumberedOnce == ObjectsSpec => []OneObjectPerThing
<1>1. ObjectsInv => OneObjectPerThing
  <2> SUFFICES ASSUME ObjectsInv, NEW f \in Things
               PROVE  Cardinality(EntitiesOf(f)) <= 1
    BY DEF OneObjectPerThing
  <2>1. \A d, e \in EntitiesOf(f) : d = e
    BY DEF EntitiesOf, ObjectsInv, Records
  <2>2. CASE EntitiesOf(f) = {}
    BY <2>2, FS_EmptySet
  <2>3. CASE EntitiesOf(f) # {}
    <3>1. PICK e : EntitiesOf(f) = {e}
      BY <2>1, <2>3
    <3> QED BY <3>1, FS_Singleton
  <2> QED BY <2>2, <2>3
<1> QED BY <1>1, ObjectsInvariant, PTL

(* The things of a cell are forgotten when its last visitor leaves, and only   *)
(* then.                                                                       *)
THEOREM LastVisitorAlwaysForgets == ObjectsSpec => LastVisitorForgets
<1> DEFINE Deserted(r) == \A c \in online' : roomOf'[c] # r
           KeptIn(r) == \A e \in DOMAIN object : Home[object[e].form] = r => e \in DOMAIN object'
           GoneFrom(r) == \A e \in DOMAIN object' : Home[object'[e].form] # r
           Goal == \A r \in Rooms : /\ ~Deserted(r) => KeptIn(r)
                                    /\ Inside(r) # {} /\ Deserted(r) => GoneFrom(r)
<1>1. ASSUME DOMAIN object \subseteq DOMAIN object', online \subseteq online',
             \A c \in online : roomOf'[c] = roomOf[c]
      PROVE  Goal
  BY <1>1 DEF Inside
<1>2. ASSUME ObjectsInv, NEW c \in Clients, nextObject' = nextObject,
             object' = Kept(roomOf', roomOf[c]),
             \A d \in online \ {c} : d \in online' /\ roomOf'[d] = roomOf[d]
      PROVE  Goal
  <2> SUFFICES ASSUME NEW r \in Rooms
               PROVE  /\ ~Deserted(r) => KeptIn(r)
                      /\ Inside(r) # {} /\ Deserted(r) => GoneFrom(r)
    OBVIOUS
  <2>1. /\ (\E d \in online' : roomOf'[d] = roomOf[c]) => object' = object
        /\ \A e \in DOMAIN object : Home[object[e].form] # roomOf[c] => e \in DOMAIN object'
        /\ (\A d \in online' : roomOf'[d] # roomOf[c]) =>
              \A e \in DOMAIN object' : Home[object'[e].form] # roomOf[c]
    BY <1>2, KeptRecords DEF ObjectsInv
  <2>2. CASE r = roomOf[c]
    BY <2>1, <2>2
  <2>3. CASE r # roomOf[c]
    <3>1. KeptIn(r)
      BY <2>1, <2>3
    <3>2. Inside(r) # {} => ~Deserted(r)
      BY <1>2, <2>3 DEF Inside
    <3> QED BY <3>1, <3>2
  <2> QED BY <2>2, <2>3
<1>3. ObjectsInv /\ [ObjectsNext]_objectsVars => Goal
  <2> SUFFICES ASSUME ObjectsInv, [ObjectsNext]_objectsVars PROVE Goal
    OBVIOUS
  <2> HIDE DEF Goal
  <2>1. CASE UNCHANGED objectsVars
    BY <1>1, <2>1 DEF objectsVars
  <2>2. ASSUME NEW c \in Clients, OnEnterInteriorCell(c) PROVE Goal
    <3>1. /\ nextObject' = nextObject /\ object' = Kept(roomOf', roomOf[c])
          /\ online' = online /\ roomOf' = [roomOf EXCEPT ![c] = Head(requests[c]).room]
      BY <2>2 DEF OnEnterInteriorCell
    <3>2. \A d \in online \ {c} : d \in online' /\ roomOf'[d] = roomOf[d]
      BY <3>1 DEF ObjectsInv, Whereabouts
    <3> QED BY <1>2, <3>1, <3>2
  <2>3. ASSUME NEW c \in Clients, OnPlayerQuits(c) PROVE Goal
    <3>1. /\ nextObject' = nextObject
          /\ object' = IF roomOf[c] = NoRoom THEN object ELSE Kept(roomOf', roomOf[c])
          /\ online' = online \ {c} /\ roomOf' = [roomOf EXCEPT ![c] = NoRoom]
      BY <2>3 DEF OnPlayerQuits
    <3>2. \A d \in online \ {c} : d \in online' /\ roomOf'[d] = roomOf[d]
      BY <3>1 DEF ObjectsInv, Whereabouts
    <3>3. CASE roomOf[c] # NoRoom
      BY <1>2, <3>1, <3>2, <3>3
    <3>4. CASE roomOf[c] = NoRoom
      <4>1. object' = object
        BY <3>1, <3>4
      <4>2. \A r \in Rooms : \A d \in Inside(r) : d \in online' /\ roomOf'[d] = r
        BY <3>2, <3>4, ObjectsAssumption DEF Inside
      <4> QED BY <4>1, <4>2 DEF Goal
    <3> QED BY <3>3, <3>4
  <2>4. ASSUME NEW c \in Clients,
               \/ OnAssignObjectsRequest(c) \/ OnLockChange(c) \/ OnInventoryChanges(c)
        PROVE  Goal
    <3>1. DOMAIN object \subseteq DOMAIN object'
      BY <2>4, AssignKeepsInv, LockKeepsInv, ItemsKeepInv
    <3>2. online' = online /\ roomOf' = roomOf
      BY <2>4 DEF OnAssignObjectsRequest, OnLockChange, OnInventoryChanges
    <3> QED BY <1>1, <3>1, <3>2
  <2>5. ASSUME NEW c \in Clients,
               \/ OnAssignObjectsResponse(c) \/ OnLockChangeNotify(c)
               \/ OnNotifyInventoryChanges(c)
        PROVE  Goal
    <3>1. UNCHANGED <<object, online, roomOf>>
      BY <2>5 DEF OnAssignObjectsResponse, OnLockChangeNotify, OnNotifyInventoryChanges, Receives
    <3> QED BY <1>1, <3>1
  <2>6. ASSUME NEW c \in Clients, NEW room \in Rooms, OnCellChange(c, room) PROVE Goal
    <3>1. object' = object /\ roomOf' = roomOf /\ online' = online \cup {c}
      BY <2>6 DEF OnCellChange
    <3> QED BY <1>1, <3>1
  <2>7. ASSUME NEW c \in Clients, NEW f \in Things, Changes(c, f) PROVE Goal
    <3>1. UNCHANGED <<object, online, roomOf>>
      BY <2>7 DEF Changes
    <3> QED BY <1>1, <3>1
  <2>8. CASE ObjectsNext
    BY <2>2, <2>3, <2>4, <2>5, <2>6, <2>7, <2>8 DEF ObjectsNext, ChangesLock, ChangesItems
  <2> QED BY <2>1, <2>8
<1>4. ObjectsInv /\ [ObjectsNext]_objectsVars => [Goal]_objectsVars
  BY <1>3
<1> QED BY <1>4, ObjectsInvariant, PTL DEF ObjectsSpec, LastVisitorForgets

---------------------------------------------------------------------------
(* What the clients show of containers and doors: Objects *)

\* There is one message of K, and it is in G
Single(s, K, G) ==
    \E i \in 1 .. Len(s) :
        s[i] \in K /\ s[i] \in G /\ \A j \in 1 .. Len(s) : j # i => s[j] \notin K

\* A message of K comes before one of G
Precedes(s, K, G) == \E i, j \in 1 .. Len(s) : i < j /\ s[i] \in K /\ s[j] \in G

\* From s to t no message has come or gone but one of K
Idles(s, t, K) ==
    \/ t = s
    \/ \E m \in K : t = Append(s, m)
    \/ s # <<>> /\ Head(s) \in K /\ t = Tail(s)

(* One message more.                                                           *)
LEMMA SingleMore ==
    ASSUME NEW S, NEW s \in Seq(S), NEW m \in S, NEW K, NEW G
    PROVE  /\ m \notin K /\ Single(s, K, G) => Single(Append(s, m), K, G)
           /\ m \in K /\ m \in G /\ ~Carries(s, K) => Single(Append(s, m), K, G)
<1> DEFINE t == Append(s, m)
           n == Len(s)
<1>1. n \in Nat /\ Len(t) = n + 1 /\ t[n + 1] = m /\ \A i \in 1 .. n : t[i] = s[i]
  BY AppendProperties, LenProperties
<1> HIDE DEF t
<1>2. 1 .. Len(t) = (1 .. n) \cup {n + 1} /\ \A i \in 1 .. n : n + 1 # i
  BY <1>1
<1>3. ASSUME m \notin K, Single(s, K, G) PROVE Single(t, K, G)
  BY <1>1, <1>2, <1>3 DEF Single
<1>4. ASSUME m \in K, m \in G, ~Carries(s, K) PROVE Single(t, K, G)
  BY <1>1, <1>2, <1>4 DEF Single, Carries
<1> QED BY <1>3, <1>4 DEF t

(* One message less.                                                           *)
LEMMA SingleLess ==
    ASSUME NEW S, NEW s \in Seq(S), s # <<>>, NEW K, NEW G, Single(s, K, G)
    PROVE  /\ Head(s) \notin K => Single(Tail(s), K, G)
           /\ Head(s) \in K => Head(s) \in G /\ ~Carries(Tail(s), K)
<1> DEFINE t == Tail(s)
           n == Len(s)
           m == Head(s)
<1>1. /\ n \in Nat \ {0} /\ Len(t) = n - 1 /\ m = s[1]
      /\ \A i \in 1 .. Len(t) : t[i] = s[i + 1]
  <2>1. Len(t) = n - 1 /\ \A i \in 1 .. Len(t) : t[i] = s[i + 1]
    BY HeadTailProperties
  <2>2. n \in Nat \ {0}
    BY EmptySeq
  <2> QED BY <2>1, <2>2
<1>2. PICK i \in 1 .. n :
         s[i] \in K /\ s[i] \in G /\ \A j \in 1 .. n : j # i => s[j] \notin K
  BY DEF Single
<1> HIDE DEF t, n, m
<1>3. /\ i = 1 \/ (i - 1 \in 1 .. Len(t) /\ t[i - 1] = s[i])
      /\ \A j \in 1 .. Len(t) : j + 1 \in 1 .. n /\ j + 1 # 1 /\ (j # i - 1 => j + 1 # i)
      /\ 1 \in 1 .. n
  BY <1>1, <1>2
<1>4. ASSUME m \notin K PROVE Single(t, K, G)
  <2>1. i - 1 \in 1 .. Len(t) /\ t[i - 1] = s[i]
    BY <1>1, <1>2, <1>3, <1>4
  <2>2. \A j \in 1 .. Len(t) : j # i - 1 => t[j] \notin K
    BY <1>1, <1>2, <1>3
  <2> QED BY <1>2, <2>1, <2>2 DEF Single
<1>5. ASSUME m \in K PROVE m \in G /\ ~Carries(t, K)
  <2>1. i = 1
    BY <1>1, <1>2, <1>3, <1>5
  <2>2. \A j \in 1 .. Len(t) : t[j] \notin K
    BY <1>1, <1>2, <1>3, <2>1
  <2> QED BY <1>1, <1>2, <2>1, <2>2 DEF Carries
<1> QED BY <1>4, <1>5 DEF t, m

LEMMA SingleIsCarried ==
    ASSUME NEW s, NEW K, NEW G, Single(s, K, G)
    PROVE  Carries(s, K) /\ Carries(s, G)
BY DEF Single, Carries

(* One message more.                                                           *)
LEMMA PrecedesMore ==
    ASSUME NEW S, NEW s \in Seq(S), NEW m \in S, NEW K, NEW G
    PROVE  /\ Precedes(s, K, G) => Precedes(Append(s, m), K, G)
           /\ Carries(s, K) /\ m \in G => Precedes(Append(s, m), K, G)
<1> DEFINE t == Append(s, m)
           n == Len(s)
<1>1. n \in Nat /\ Len(t) = n + 1 /\ t[n + 1] = m /\ \A i \in 1 .. n : t[i] = s[i]
  BY AppendProperties, LenProperties
<1> HIDE DEF t
<1>2. 1 .. Len(t) = (1 .. n) \cup {n + 1} /\ \A i \in 1 .. n : i < n + 1
  BY <1>1
<1>3. Precedes(s, K, G) => Precedes(t, K, G)
  BY <1>1, <1>2 DEF Precedes
<1>4. Carries(s, K) /\ m \in G => Precedes(t, K, G)
  BY <1>1, <1>2 DEF Precedes, Carries
<1> QED BY <1>3, <1>4 DEF t

(* One message less.                                                           *)
LEMMA PrecedesLess ==
    ASSUME NEW S, NEW s \in Seq(S), s # <<>>, NEW K, NEW G, Precedes(s, K, G)
    PROVE  /\ Head(s) \notin K => Precedes(Tail(s), K, G)
           /\ Carries(Tail(s), G)
<1> DEFINE t == Tail(s)
           n == Len(s)
           m == Head(s)
<1>1. /\ n \in Nat \ {0} /\ Len(t) = n - 1 /\ m = s[1]
      /\ \A i \in 1 .. Len(t) : t[i] = s[i + 1]
  <2>1. Len(t) = n - 1 /\ \A i \in 1 .. Len(t) : t[i] = s[i + 1]
    BY HeadTailProperties
  <2>2. n \in Nat \ {0}
    BY EmptySeq
  <2> QED BY <2>1, <2>2
<1>2. PICK i \in 1 .. n, j \in 1 .. n : i < j /\ s[i] \in K /\ s[j] \in G
  BY DEF Precedes
<1> HIDE DEF t, n, m
<1>3. /\ j - 1 \in 1 .. Len(t) /\ j - 1 + 1 = j
      /\ i = 1 \/ (i - 1 \in 1 .. Len(t) /\ i - 1 + 1 = i /\ i - 1 < j - 1)
  BY <1>1, <1>2
<1>4. t[j - 1] \in G
  BY <1>1, <1>2, <1>3
<1>5. ASSUME m \notin K PROVE Precedes(t, K, G)
  <2>1. i # 1
    BY <1>1, <1>2, <1>5
  <2>2. t[i - 1] \in K
    BY <1>1, <1>2, <1>3, <2>1
  <2> QED BY <1>3, <1>4, <2>1, <2>2 DEF Precedes
<1> QED BY <1>3, <1>4, <1>5 DEF Carries, t, m

(* What is known before and after is something to be known.                    *)
LEMMA LeadsWithin ==
    ASSUME NEW S, NEW s \in Seq(S), NEW V, NEW E, NEW x, NEW y, Leads(s, V, E, x, y)
    PROVE  x \in V /\ y \in V
<1>1. Len(s) \in Nat
  BY LenProperties
<1>2. 0 \in 0 .. Len(s) /\ Len(s) \in 0 .. Len(s)
  BY <1>1
<1> QED BY <1>2 DEF Leads

(* Reading messages that change nothing, one knows what one knew.              *)
LEMMA LeadsBack ==
    ASSUME NEW S, NEW s \in Seq(S), NEW V, NEW E, NEW x, NEW y, Leads(s, V, E, x, y),
           \A i \in 1 .. Len(s) : \A v, w \in V : <<v, s[i], w>> \in E => w = v
    PROVE  y = x
<1> DEFINE n == Len(s)
<1>1. n \in Nat
  BY LenProperties
<1>2. PICK v \in [0 .. n -> V] :
         v[0] = x /\ v[n] = y /\ \A i \in 1 .. n : <<v[i - 1], s[i], v[i]>> \in E
  BY DEF Leads
<1> DEFINE moved == {i \in 0 .. n : v[i] # x}
<1>3. SUFFICES ASSUME y # x PROVE FALSE
  OBVIOUS
<1>4. moved \subseteq Nat /\ moved # {}
  BY <1>1, <1>2, <1>3
<1>5. PICK k \in moved : \A i \in moved : k <= i
  BY <1>4, LeastNumber
<1>6. k \in 1 .. n /\ k \in 0 .. n /\ k - 1 \in 0 .. n /\ k - 1 \notin moved
  BY <1>1, <1>2, <1>5
<1>7. v[k - 1] = x /\ v[k] # x /\ <<v[k - 1], s[k], v[k]>> \in E
  BY <1>2, <1>5, <1>6
<1>8. v[k - 1] \in V /\ v[k] \in V
  BY <1>2, <1>6
<1> QED BY <1>6, <1>7, <1>8 DEF n

(* What does not matter to K changes nothing about K.                          *)
LEMMA IdleMessage ==
    ASSUME NEW S, NEW s \in Seq(S), NEW t, NEW I, I \subseteq S, Idles(s, t, I)
    PROVE  /\ t \in Seq(S)
           /\ \A K : K \cap I = {} =>
                 /\ Carries(t, K) <=> Carries(s, K)
                 /\ \A G : Single(s, K, G) => Single(t, K, G)
                 /\ \A G : Precedes(s, K, G) => Precedes(t, K, G)
<1>1. CASE t = s
  BY <1>1
<1>2. CASE \E m \in I : t = Append(s, m)
  <2>1. PICK m \in I : t = Append(s, m)
    BY <1>2
  <2>2. m \in S /\ t \in Seq(S)
    BY <2>1, AppendProperties
  <2>3. ASSUME NEW K, K \cap I = {}
        PROVE  /\ Carries(t, K) <=> Carries(s, K)
               /\ \A G : Single(s, K, G) => Single(t, K, G)
               /\ \A G : Precedes(s, K, G) => Precedes(t, K, G)
    <3>1. m \notin K
      BY <2>1, <2>3
    <3> QED BY <2>1, <2>2, <3>1, CarriesMore, SingleMore, PrecedesMore
  <2> QED BY <2>2, <2>3
<1>3. CASE s # <<>> /\ Head(s) \in I /\ t = Tail(s)
  <2>1. t \in Seq(S)
    BY <1>3, HeadTailProperties
  <2>2. ASSUME NEW K, K \cap I = {}
        PROVE  /\ Carries(t, K) <=> Carries(s, K)
               /\ \A G : Single(s, K, G) => Single(t, K, G)
               /\ \A G : Precedes(s, K, G) => Precedes(t, K, G)
    <3>1. Head(s) \notin K
      BY <1>3, <2>2
    <3> QED BY <1>3, <3>1, CarriesLess, SingleLess, PrecedesLess
  <2> QED BY <2>1, <2>2
<1> QED BY <1>1, <1>2, <1>3 DEF Idles

LEMMA IdleWay ==
    ASSUME NEW S, NEW s \in Seq(S), NEW t, NEW I, I \subseteq S, Idles(s, t, I),
           NEW V, NEW E, NEW x, NEW y, Leads(s, V, E, x, y),
           \A m \in I : \A v, w \in V : <<v, m, w>> \in E <=> w = v
    PROVE  Leads(t, V, E, x, y)
<1>0. x \in V /\ y \in V
  BY LeadsWithin
<1>1. CASE t = s
  BY <1>1
<1>2. ASSUME NEW m \in I, t = Append(s, m) PROVE Leads(t, V, E, x, y)
  <2>1. <<y, m, y>> \in E /\ m \in S
    BY <1>0
  <2> QED BY <1>0, <1>2, <2>1, LeadsOn
<1>3. CASE s # <<>> /\ Head(s) \in I /\ t = Tail(s)
  <2>1. PICK z \in V : <<x, Head(s), z>> \in E /\ Leads(Tail(s), V, E, z, y)
    BY <1>3, LeadsFrom
  <2>2. z = x
    BY <1>0, <1>3, <2>1
  <2> QED BY <1>3, <2>1, <2>2
<1> QED BY <1>1, <1>2, <1>3 DEF Idles

\* What the server has for the object e
Standing(e) == [lock |-> object[e].lock, items |-> object[e].items]

\* The messages about a change of f, the reports of a cell, and the answers to them
ChangesOf(f) == {m \in ChangeMessages : m.thing = f}
CellReports == {m \in Requests : m.type = "assign"}
Verdicts == {m \in Replies : m.type = "assigned"}

Recounting(f, x) == {m \in CellReports : f \in DOMAIN m.things /\ m.things[f] = x}
Judging(f) == {m \in Verdicts : f \in DOMAIN m.things}

\* Requests made in another cell than room
Away(room) ==
    {m \in Requests : \/ m.type = "enter" /\ m.room # room
                      \/ m \in ChangeMessages /\ Home[m.thing] # room}

(* After a request from another cell than the one it is in now, a client has   *)
(* reported a cell.                                                            *)
Departs(c) ==
    LET away == Away(visiting[c])
    IN Carries(requests[c], away) => Latest(requests[c], away \cup CellReports, CellReports)

\* id is or was the number of f
Denotes(id, f) == id < nextObject /\ (id \in DOMAIN object => object[id].form = f)

Misdirected == {m \in ChangeMessages : m.type = "items" /\ ~Denotes(m.id, m.thing)}
Misjudging == {m \in Verdicts : \E f \in DOMAIN m.things : ~Denotes(m.things[f].id, f)}

(* Numbers are of the things that they are used for.                           *)
Denoting(c) ==
    /\ \A f \in Things : Denotes(serverId[c][f], f)
    /\ ~Carries(requests[c], Misdirected)
    /\ ~Carries(replies[c], Misjudging)

\* The orders to put items in the object e or take them out, and what they make
\* of a count, if no more is taken out than is in
Orders(f, e) == {m \in ChangesOf(f) : m.type = "items" /\ m.id = e}
Tallies(f, e) ==
    {t \in Nat \X Requests \X Nat :
        t[3] = IF t[2] \in Orders(f, e) THEN t[1] + t[2].count ELSE t[1]}

(* The server has counted e right so far, and will: no two clients have orders *)
(* for it under way, and those of one do not take out more than is in.         *)
Tallied(f, e) ==
    /\ object[e].items \in Nat
    /\ \A d \in Clients : Carries(requests[d], Orders(f, e)) =>
          /\ \A b \in Clients \ {d} : ~Carries(requests[b], Orders(f, e))
          /\ \E n \in Nat : Leads(requests[d], Nat, Tallies(f, e), object[e].items, n)

\* What a request makes of the object e, and what a reply makes of the thing f
\* in the game of a client that knows it as e
Requested(f, e, m, x) ==
    IF m \notin ChangesOf(f) THEN x
    ELSE IF m.type = "lock" THEN [lock |-> m.lock, items |-> x.items]
    ELSE IF m.id = e THEN [lock |-> x.lock, items |-> x.items + m.count]
    ELSE x

Replied(f, e, m, x) ==
    IF m \in Judging(f) THEN IF m.things[f].first THEN x ELSE m.things[f].thing
    ELSE IF m \notin ChangesOf(f) THEN x
    ELSE IF m.type = "lock" THEN [lock |-> m.lock, items |-> x.items]
    ELSE IF m.id = e THEN [lock |-> x.lock, items |-> AddOrRemoveItem(x.items, m.count)]
    ELSE x

Obeying(f, e) ==
    {t \in ThingsShown \X Requests \X ThingsShown : t[3] = Requested(f, e, t[2], t[1])}
Hearing(f, e) ==
    {t \in ThingsShown \X Replies \X ThingsShown :
        /\ t[2] \in Judging(f) => t[2].things[f].id = e
        /\ t[3] = Replied(f, e, t[2], t[1])}

Reporting(c) == Carries(requests[c], CellReports)
Awaiting(c) == Carries(replies[c], Verdicts)
Altering(c, f) == Carries(requests[c], ChangesOf(f))

(* c shows f as it stands in the one report that the server is to read.        *)
InReport(c, f) ==
    /\ Single(requests[c], CellReports, Recounting(f, shown[c][f]))
    /\ ~Awaiting(c) /\ ~Altering(c, f)

(* c is to read the answer, but before that of a change: the code gives f up.  *)
Outrun(c, f) ==
    /\ ~Reporting(c) /\ Single(replies[c], Verdicts, Judging(f))
    /\ Precedes(replies[c], ChangesOf(f), Verdicts)

(* What c is to read, the answer among it, will show it what the server has.   *)
Answering(c, f, e) ==
    /\ ~Reporting(c) /\ Single(replies[c], Verdicts, Judging(f)) /\ ~Altering(c, f)
    /\ Leads(replies[c], ThingsShown, Hearing(f, e), shown[c][f], Standing(e))

(* c has its answer, and is told what others change ...                        *)
Hearkening(c, f, e) ==
    /\ ~Reporting(c) /\ ~Awaiting(c) /\ serverId[c][f] = e /\ ~Altering(c, f)
    /\ Leads(replies[c], ThingsShown, Hearing(f, e), shown[c][f], Standing(e))

(* ... or is the only one to change f, and the server is told.                 *)
Deciding(c, f, e) ==
    /\ ~Reporting(c) /\ ~Awaiting(c) /\ serverId[c][f] = e
    /\ Altering(c, f) /\ ~Carries(replies[c], ChangesOf(f))
    /\ \A d \in Clients \ {c} : ~Altering(d, f)
    /\ Leads(requests[c], ThingsShown, Obeying(f, e), Standing(e), shown[c][f])

InPicture(c, f) == visiting[c] = Home[f] /\ c \notin strayed /\ f \notin raced

Imaged(c, f) ==
    \/ InReport(c, f) \/ Outrun(c, f)
    \/ \E e \in EntitiesOf(f) : Answering(c, f, e) \/ Hearkening(c, f, e) \/ Deciding(c, f, e)

AgreementInv ==
    /\ \A c \in Clients : Departs(c) /\ Denoting(c)
    /\ \A f \in Things : f \notin raced => \A e \in EntitiesOf(f) : Tallied(f, e)
    /\ \A c \in Clients : \A f \in Things : InPicture(c, f) => Imaged(c, f)

(* The kinds of messages.                                                      *)
LEMMA KindsOfMessages ==
    /\ \A f : ChangesOf(f) \subseteq Requests /\ ChangesOf(f) \subseteq Replies
    /\ \A f : ChangesOf(f) \cap CellReports = {} /\ ChangesOf(f) \cap Verdicts = {}
    /\ \A f, e : Orders(f, e) \subseteq ChangesOf(f)
    /\ \A f, x : Recounting(f, x) \subseteq CellReports
    /\ \A f : Judging(f) \subseteq Verdicts
    /\ Verdicts \cap ChangeMessages = {} /\ CellReports \cap ChangeMessages = {}
    /\ ChangeMessages \subseteq Requests /\ ChangeMessages \subseteq Replies
    /\ \A room : Away(room) \cap CellReports = {}
BY DEF ChangesOf, ChangeMessages, Requests, Replies, CellReports, Verdicts, Orders, Recounting,
       Judging, Away

(* A client waits for an answer while its report or the answer is under way.   *)
LEMMA UnansweredClients ==
    ASSUME ObjectsInv, NEW c \in Clients
    PROVE  Unanswered(c) <=> Reporting(c) \/ Awaiting(c)
<1>1. requests[c] \in Seq(Requests) /\ replies[c] \in Seq(Replies)
  BY DEF ObjectsInv, Messages
<1>2. /\ DOMAIN requests[c] = 1 .. Len(requests[c])
      /\ \A i \in 1 .. Len(requests[c]) : requests[c][i] \in Requests
  BY <1>1
<1>3. /\ DOMAIN replies[c] = 1 .. Len(replies[c])
      /\ \A i \in 1 .. Len(replies[c]) : replies[c][i] \in Replies
  BY <1>1
<1> QED BY <1>2, <1>3 DEF Unanswered, Reporting, Awaiting, Carries, CellReports, Verdicts

(* A client is behind while a change by another is under way to it.            *)
LEMMA NotBehind ==
    ASSUME ObjectsInv, NEW c \in Clients, NEW f \in Things, ~Behind(c, f)
    PROVE  /\ ~Reporting(c) /\ ~Awaiting(c)
           /\ \A d \in Clients \ {c} : ~Altering(d, f)
           /\ ~Carries(replies[c], ChangesOf(f))
<1>1. ~Reporting(c) /\ ~Awaiting(c)
  BY UnansweredClients DEF Behind
<1>2. ASSUME NEW d \in Clients \ {c}, Altering(d, f) PROVE FALSE
  <2>1. requests[d] \in Seq(Requests)
    BY DEF ObjectsInv, Messages
  <2>2. PICK i \in 1 .. Len(requests[d]) : requests[d][i] \in ChangesOf(f)
    BY <1>2 DEF Altering, Carries
  <2>3. i \in DOMAIN requests[d]
    BY <2>1
  <2>4. requests[d][i].type \in {"lock", "items"} /\ requests[d][i].thing = f
    BY <2>2 DEF ChangesOf, ChangeMessages
  <2> QED BY <2>3, <2>4 DEF Behind
<1>3. ASSUME Carries(replies[c], ChangesOf(f)) PROVE FALSE
  <2>1. replies[c] \in Seq(Replies)
    BY DEF ObjectsInv, Messages
  <2>2. PICK i \in 1 .. Len(replies[c]) : replies[c][i] \in ChangesOf(f)
    BY <1>3 DEF Carries
  <2>3. i \in DOMAIN replies[c]
    BY <2>1
  <2>4. replies[c][i].type \in {"lock", "items"} /\ replies[c][i].thing = f
    BY <2>2 DEF ChangesOf, ChangeMessages
  <2> QED BY <2>3, <2>4 DEF Behind
<1> QED BY <1>1, <1>2, <1>3

(* The ways are those that messages have.                                      *)
LEMMA WaysOfMessages ==
    ASSUME NEW f, NEW e
    PROVE  /\ \A x, z \in ThingsShown, m \in Requests :
                 <<x, m, z>> \in Obeying(f, e) <=> z = Requested(f, e, m, x)
           /\ \A x, z \in ThingsShown, m \in Replies :
                 <<x, m, z>> \in Hearing(f, e) <=>
                    (m \in Judging(f) => m.things[f].id = e) /\ z = Replied(f, e, m, x)
           /\ \A x, z \in Nat, m \in Requests :
                 <<x, m, z>> \in Tallies(f, e) <=>
                    z = IF m \in Orders(f, e) THEN x + m.count ELSE x
           /\ \A m \in Requests : m \notin ChangesOf(f) =>
                 \A x, z \in ThingsShown : <<x, m, z>> \in Obeying(f, e) <=> z = x
           /\ \A m \in Replies : m \notin ChangesOf(f) /\ m \notin Verdicts =>
                 \A x, z \in ThingsShown : <<x, m, z>> \in Hearing(f, e) <=> z = x
           /\ \A m \in Requests : m \notin Orders(f, e) =>
                 \A x, z \in Nat : <<x, m, z>> \in Tallies(f, e) <=> z = x
<1>1. \A x, z \in ThingsShown, m \in Requests :
         <<x, m, z>> \in Obeying(f, e) <=> z = Requested(f, e, m, x)
  BY DEF Obeying
<1>2. \A x, z \in ThingsShown, m \in Replies :
         <<x, m, z>> \in Hearing(f, e) <=>
            (m \in Judging(f) => m.things[f].id = e) /\ z = Replied(f, e, m, x)
  BY DEF Hearing
<1>3. \A x, z \in Nat, m \in Requests :
         <<x, m, z>> \in Tallies(f, e) <=>
            z = IF m \in Orders(f, e) THEN x + m.count ELSE x
  BY DEF Tallies
<1>4. \A m, x : m \notin ChangesOf(f) => Requested(f, e, m, x) = x
  BY DEF Requested
<1>5. \A m, x : m \notin ChangesOf(f) /\ m \notin Verdicts =>
         m \notin Judging(f) /\ Replied(f, e, m, x) = x
  BY KindsOfMessages DEF Replied
<1> QED BY <1>1, <1>2, <1>3, <1>4, <1>5

(* What a message is does not change.                                          *)
LEMMA KindsStay ==
    /\ CellReports' = CellReports /\ Verdicts' = Verdicts
    /\ \A f : ChangesOf(f)' = ChangesOf(f) /\ Judging(f)' = Judging(f)
    /\ \A f, x : Recounting(f, x)' = Recounting(f, x)
    /\ \A f, e : /\ Orders(f, e)' = Orders(f, e) /\ Tallies(f, e)' = Tallies(f, e)
                 /\ Obeying(f, e)' = Obeying(f, e) /\ Hearing(f, e)' = Hearing(f, e)
    /\ \A room : Away(room)' = Away(room)
    /\ ThingsShown' = ThingsShown
<1>1. Requests' = Requests /\ Replies' = Replies /\ ThingsShown' = ThingsShown
      /\ ChangeMessages' = ChangeMessages
  BY DEF Requests, Replies, ThingsShown, RoomReports, AnswersToReports, ChangeMessages
<1>2. CellReports' = CellReports /\ Verdicts' = Verdicts
  BY <1>1 DEF CellReports, Verdicts
<1>3. ASSUME NEW f PROVE ChangesOf(f)' = ChangesOf(f) /\ Judging(f)' = Judging(f)
  BY <1>1, <1>2 DEF ChangesOf, Judging
<1>4. ASSUME NEW f, NEW x PROVE Recounting(f, x)' = Recounting(f, x)
  BY <1>2 DEF Recounting
<1>5. ASSUME NEW f, NEW e PROVE Orders(f, e)' = Orders(f, e)
  BY <1>3 DEF Orders
<1>6. ASSUME NEW f, NEW e PROVE Tallies(f, e)' = Tallies(f, e)
  BY <1>1, <1>5 DEF Tallies
<1>7. ASSUME NEW f, NEW e PROVE Obeying(f, e)' = Obeying(f, e)
  BY <1>1, <1>3 DEF Obeying, Requested
<1>8. ASSUME NEW f, NEW e PROVE Hearing(f, e)' = Hearing(f, e)
  BY <1>1, <1>3 DEF Hearing, Replied, AddOrRemoveItem
<1>9. ASSUME NEW room PROVE Away(room)' = Away(room)
  BY <1>1 DEF Away
<1> QED BY <1>1, <1>2, <1>3, <1>4, <1>5, <1>6, <1>7, <1>8, <1>9

(* A report waits until the server reads it or something of it changes.        *)
LEMMA ReportWaits ==
    ASSUME ObjectsInv, NEW c \in Clients, NEW f \in Things, InReport(c, f),
           Idles(requests[c], requests'[c], Requests \ (CellReports \cup ChangesOf(f))),
           Idles(replies[c], replies'[c], Replies \ Verdicts),
           shown'[c][f] = shown[c][f]
    PROVE  InReport(c, f)'
<1> DEFINE I == Requests \ (CellReports \cup ChangesOf(f))
           J == Replies \ Verdicts
<1>1. requests[c] \in Seq(Requests) /\ replies[c] \in Seq(Replies)
  BY DEF ObjectsInv, Messages
<1>2. I \subseteq Requests /\ J \subseteq Replies
      /\ CellReports \cap I = {} /\ ChangesOf(f) \cap I = {} /\ Verdicts \cap J = {}
  OBVIOUS
<1>3. Idles(requests[c], requests'[c], I) /\ Idles(replies[c], replies'[c], J)
  OBVIOUS
<1> HIDE DEF I, J
<1>4. Single(requests'[c], CellReports, Recounting(f, shown[c][f]))
  <2>1. Single(requests[c], CellReports, Recounting(f, shown[c][f]))
    BY DEF InReport
  <2>2. \A G : Single(requests[c], CellReports, G) => Single(requests'[c], CellReports, G)
    BY <1>1, <1>2, <1>3, IdleMessage
  <2> QED BY <2>1, <2>2
<1>5. ~Carries(requests'[c], ChangesOf(f)) /\ ~Carries(replies'[c], Verdicts)
  BY <1>1, <1>2, <1>3, IdleMessage DEF InReport, Awaiting, Altering
<1> QED BY <1>4, <1>5, KindsStay DEF InReport, Awaiting, Altering

(* A client's picture of a thing is what it was while nothing of it moves.      *)
LEMMA ImageStays ==
    ASSUME ObjectsInv, NEW c \in Clients, NEW f \in Things, Imaged(c, f),
           Idles(requests[c], requests'[c], Requests \ (CellReports \cup ChangesOf(f))),
           Idles(replies[c], replies'[c], Replies \ (Verdicts \cup ChangesOf(f))),
           shown'[c][f] = shown[c][f], serverId'[c][f] = serverId[c][f],
           Altering(c, f) =>
              \A d \in Clients \ {c} : Carries(requests'[d], ChangesOf(f)) => Altering(d, f),
           ~Reporting(c) =>
              \A e \in EntitiesOf(f) : e \in EntitiesOf(f)' /\ Standing(e)' = Standing(e)
    PROVE  Imaged(c, f)'
<1> DEFINE I == Requests \ (CellReports \cup ChangesOf(f))
           J == Replies \ (Verdicts \cup ChangesOf(f))
           s == requests[c]
           t == requests'[c]
           p == replies[c]
           q == replies'[c]
<1>1. s \in Seq(Requests) /\ p \in Seq(Replies)
  BY DEF ObjectsInv, Messages
<1>2. /\ I \subseteq Requests /\ J \subseteq Replies
      /\ CellReports \cap I = {} /\ ChangesOf(f) \cap I = {}
      /\ Verdicts \cap J = {} /\ ChangesOf(f) \cap J = {}
  OBVIOUS
<1>3. Idles(s, t, I) /\ Idles(p, q, J)
  OBVIOUS
<1>4. /\ \A m \in I : \A e : \A v, w \in ThingsShown : <<v, m, w>> \in Obeying(f, e) <=> w = v
      /\ \A m \in J : \A e : \A v, w \in ThingsShown : <<v, m, w>> \in Hearing(f, e) <=> w = v
  BY WaysOfMessages
<1>5. shown[c][f] \in ThingsShown
  BY DEF ObjectsInv, Games
<1> HIDE DEF I, J
<1> HIDE DEF s, t, p, q
<1>6. /\ \A K : K \cap I = {} => Carries(t, K) <=> Carries(s, K)
      /\ \A K : K \cap J = {} =>
            /\ Carries(q, K) <=> Carries(p, K)
            /\ \A G : Single(p, K, G) => Single(q, K, G)
            /\ \A G : Precedes(p, K, G) => Precedes(q, K, G)
  BY <1>1, <1>2, <1>3, IdleMessage
<1>7. /\ Reporting(c)' <=> Reporting(c)
      /\ Altering(c, f)' <=> Altering(c, f)
      /\ Awaiting(c)' <=> Awaiting(c)
      /\ Carries(q, ChangesOf(f)) <=> Carries(p, ChangesOf(f))
      /\ \A G : Single(p, Verdicts, G) => Single(q, Verdicts, G)
      /\ \A G : Precedes(p, ChangesOf(f), G) => Precedes(q, ChangesOf(f), G)
  BY <1>2, <1>6, KindsStay DEF Reporting, Altering, Awaiting, s, t, p, q
<1>8. CASE InReport(c, f)
  <2>1. J \subseteq Replies \ Verdicts
    BY DEF J
  <2>2. Idles(p, q, Replies \ Verdicts)
    BY <1>3, <2>1 DEF Idles
  <2> QED BY <1>3, <1>8, <2>2, ReportWaits DEF Imaged, I, s, t, p, q
<1>9. CASE Outrun(c, f)
  <2>1. Single(p, Verdicts, Judging(f)) /\ Precedes(p, ChangesOf(f), Verdicts)
    BY <1>9 DEF Outrun, p
  <2>2. Single(q, Verdicts, Judging(f)) /\ Precedes(q, ChangesOf(f), Verdicts)
    BY <1>7, <2>1
  <2> QED BY <1>7, <1>9, <2>2, KindsStay DEF Imaged, Outrun, q
<1>10. ASSUME NEW e \in EntitiesOf(f),
              Answering(c, f, e) \/ Hearkening(c, f, e) \/ Deciding(c, f, e)
       PROVE  Imaged(c, f)'
  <2>1. e \in EntitiesOf(f)' /\ Standing(e)' = Standing(e)
    BY <1>10 DEF Answering, Hearkening, Deciding
  <2>2. Leads(p, ThingsShown, Hearing(f, e), shown[c][f], Standing(e)) =>
        Leads(q, ThingsShown, Hearing(f, e), shown[c][f], Standing(e))
    BY <1>1, <1>2, <1>3, <1>4, <1>5, IdleWay
  <2>3. Leads(s, ThingsShown, Obeying(f, e), Standing(e), shown[c][f]) =>
        Leads(t, ThingsShown, Obeying(f, e), Standing(e), shown[c][f])
    BY <1>1, <1>2, <1>3, <1>4, <1>5, IdleWay
  <2>4. Answering(c, f, e) => Answering(c, f, e)'
    BY <1>7, <2>1, <2>2, KindsStay DEF Answering, p, q
  <2>5. Hearkening(c, f, e) => Hearkening(c, f, e)'
    BY <1>7, <2>1, <2>2, KindsStay DEF Hearkening, p, q
  <2>6. Deciding(c, f, e) => Deciding(c, f, e)'
    BY <1>7, <2>1, <2>3, KindsStay DEF Deciding, Altering, p, q, s, t
  <2> QED BY <1>10, <2>1, <2>4, <2>5, <2>6 DEF Imaged
<1> QED BY <1>8, <1>9, <1>10 DEF Imaged

(* A message more or less in a queue to or from c.                             *)
LEMMA QueueIdles ==
    ASSUME NEW s, NEW K
    PROVE  /\ Idles(s, s, K)
           /\ \A m \in K : Idles(s, Append(s, m), K)
           /\ s # <<>> /\ Head(s) \in K => Idles(s, Tail(s), K)
BY DEF Idles

(* Whoever leaves a cell reports another.                                      *)
LEMMA DepartsStays ==
    ASSUME ObjectsInv, NEW c \in Clients, Departs(c),
           \/ requests'[c] = <<>>
           \/ /\ visiting'[c] = visiting[c]
              /\ \/ requests'[c] = requests[c]
                 \/ requests[c] # <<>> /\ requests'[c] = Tail(requests[c])
                 \/ \E m \in ChangeMessages :
                       Home[m.thing] = visiting[c] /\ requests'[c] = Append(requests[c], m)
    PROVE  Departs(c)'
<1> DEFINE s == requests[c]
           t == requests'[c]
           away == Away(visiting[c])
           all == away \cup CellReports
           far == Away(visiting'[c])
<1>1. s \in Seq(Requests)
  BY DEF ObjectsInv, Messages
<1>2. Departs(c)' <=> (Carries(t, far) => Latest(t, far \cup CellReports, CellReports))
  BY KindsStay DEF Departs, Away
<1>3. Carries(s, away) => Latest(s, all, CellReports)
  BY DEF Departs
<1>4. CASE t = <<>>
  BY <1>2, <1>4, CarriesNothing
<1>5. CASE visiting'[c] = visiting[c] /\ t = s
  BY <1>2, <1>3, <1>5
<1>6. CASE visiting'[c] = visiting[c] /\ s # <<>> /\ t = Tail(s)
  <2> HIDE DEF s, t
  <2>1. ASSUME Carries(t, away) PROVE Latest(t, all, CellReports)
    <3>1. Carries(s, away) /\ Carries(t, all)
      BY <1>1, <1>6, <2>1, CarriesLess DEF Carries
    <3>2. Latest(s, all, CellReports)
      BY <1>3, <3>1
    <3> QED BY <1>1, <1>6, <3>1, <3>2, CarriesLess
  <2> QED BY <1>2, <1>6, <2>1 DEF t
<1>7. ASSUME visiting'[c] = visiting[c],
             NEW m \in ChangeMessages, Home[m.thing] = visiting[c], t = Append(s, m)
      PROVE  Departs(c)'
  <2>1. m \in Requests /\ m \notin CellReports /\ m \notin away
    <3>1. m.type # "enter"
      BY DEF ChangeMessages
    <3> QED BY <1>7, <3>1, KindsOfMessages DEF Away
  <2> HIDE DEF s, t, away
  <2>2. /\ Carries(t, away) <=> Carries(s, away)
        /\ Latest(t, all, CellReports) <=> Latest(s, all, CellReports)
    BY <1>1, <1>7, <2>1, CarriesMore
  <2> QED BY <1>2, <1>3, <1>7, <2>2 DEF t, away
<1> QED BY <1>4, <1>5, <1>6, <1>7

\* A step gives no number again and leaves things their numbers
NumbersKept ==
    /\ nextObject' >= nextObject
    /\ \A e \in DOMAIN object' :
          \/ e \in DOMAIN object /\ object'[e].form = object[e].form
          \/ e >= nextObject

LEMMA DenotesStays ==
    ASSUME ObjectsInv, ObjectsInv', NumbersKept
    PROVE  /\ \A id \in Nat : \A f : Denotes(id, f) => Denotes(id, f)'
           /\ Misdirected' \subseteq Misdirected
           /\ Misjudging' \subseteq Misjudging
<1>1. ASSUME NEW id \in Nat, NEW f, Denotes(id, f) PROVE Denotes(id, f)'
  <2>1. nextObject \in Nat /\ nextObject' \in Nat
    BY DEF ObjectsInv, Records
  <2>2. id < nextObject' /\ ~(id >= nextObject)
    BY <1>1, <2>1 DEF Denotes, NumbersKept
  <2> QED BY <1>1, <2>2 DEF Denotes, NumbersKept
<1>2. ASSUME NEW m \in Misdirected' PROVE m \in Misdirected
  <2>1. /\ m \in ChangeMessages /\ m.type = "items" /\ ~Denotes(m.id, m.thing)'
    BY DEF Misdirected, ChangeMessages
  <2>2. m.id \in Nat
    BY <2>1 DEF ChangeMessages
  <2> QED BY <1>1, <2>1, <2>2 DEF Misdirected
<1>3. ASSUME NEW m \in Misjudging' PROVE m \in Misjudging
  <2>1. m \in Verdicts'
    BY DEF Misjudging
  <2>2. PICK f \in DOMAIN m.things : ~Denotes(m.things[f].id, f)'
    BY DEF Misjudging
  <2>3. m \in Verdicts
    BY <2>1, KindsStay
  <2>4. m.things \in AnswersToReports
    BY <2>3, ReplyFields DEF Verdicts
  <2>5. m.things[f].id \in Nat
    BY <2>4 DEF AnswersToReports
  <2>6. ~Denotes(m.things[f].id, f)
    BY <1>1, <2>2, <2>5
  <2> QED BY <2>3, <2>6 DEF Misjudging
<1> QED BY <1>1, <1>2, <1>3

LEMMA DenotingStays ==
    ASSUME ObjectsInv, ObjectsInv', NumbersKept, NEW c \in Clients, Denoting(c),
           (\A f \in Things : Denotes(serverId[c][f], f))',
           \/ requests'[c] \in {<<>>, requests[c]}
           \/ requests[c] # <<>> /\ requests'[c] = Tail(requests[c])
           \/ ~Carries(requests'[c], Misdirected),
           \/ replies'[c] \in {<<>>, replies[c]}
           \/ replies[c] # <<>> /\ replies'[c] = Tail(replies[c])
           \/ \E m \in Replies \ Misjudging' : replies'[c] = Append(replies[c], m)
    PROVE  Denoting(c)'
<1>1. requests[c] \in Seq(Requests) /\ replies[c] \in Seq(Replies)
  BY DEF ObjectsInv, Messages
<1>2. Misdirected' \subseteq Misdirected /\ Misjudging' \subseteq Misjudging
  BY DenotesStays
<1>3. ~Carries(requests'[c], Misdirected)
  BY <1>1, CarriesLess, CarriesNothing DEF Denoting
<1>4. ~Carries(replies[c], Misjudging')
  BY <1>2 DEF Denoting, Carries
<1>5. ~Carries(replies'[c], Misjudging')
  <2>1. ASSUME NEW m \in Replies \ Misjudging', replies'[c] = Append(replies[c], m)
        PROVE  ~Carries(replies'[c], Misjudging')
    <3>1. \A K : Carries(Append(replies[c], m), K) <=> Carries(replies[c], K) \/ m \in K
      BY <1>1, CarriesMore
    <3>2. Carries(replies'[c], Misjudging') <=> Carries(replies[c], Misjudging') \/ m \in Misjudging'
      BY <2>1, <3>1
    <3> QED BY <1>4, <3>2
  <2>2. ASSUME replies[c] # <<>>, replies'[c] = Tail(replies[c])
        PROVE  ~Carries(replies'[c], Misjudging')
    <3>1. \A K : Carries(Tail(replies[c]), K) => Carries(replies[c], K)
      BY <1>1, <2>2, CarriesLess
    <3> QED BY <1>4, <2>2, <3>1
  <2> QED BY <1>4, <2>1, <2>2, CarriesNothing
<1>6. ~Carries(requests'[c], Misdirected')
  BY <1>2, <1>3 DEF Carries
<1> QED BY <1>5, <1>6 DEF Denoting

(* A count stands while nobody puts in or takes out.                           *)
LEMMA TalliedStays ==
    ASSUME ObjectsInv, NEW f \in Things, NEW e, Tallied(f, e), object'[e].items = object[e].items,
           \A d \in Clients : \/ requests'[d] = <<>>
                              \/ Idles(requests[d], requests'[d], Requests \ Orders(f, e))
    PROVE  Tallied(f, e)'
<1> DEFINE I == Requests \ Orders(f, e)
<1>1. I \subseteq Requests /\ Orders(f, e) \cap I = {}
  OBVIOUS
<1>2. \A m \in I : \A v, w \in Nat : <<v, m, w>> \in Tallies(f, e) <=> w = v
  <2>1. \A m \in Requests : m \notin Orders(f, e) =>
           \A v, w \in Nat : <<v, m, w>> \in Tallies(f, e) <=> w = v
    BY WaysOfMessages
  <2> QED BY <2>1, Zenon
<1>3. ASSUME NEW d \in Clients, Carries(requests'[d], Orders(f, e))
      PROVE  /\ Carries(requests[d], Orders(f, e))
             /\ \A n : Leads(requests[d], Nat, Tallies(f, e), object[e].items, n)
                          => Leads(requests'[d], Nat, Tallies(f, e), object[e].items, n)
  <2>1. requests[d] \in Seq(Requests)
    BY DEF ObjectsInv, Messages
  <2>2. Idles(requests[d], requests'[d], I)
    BY <1>3, CarriesNothing
  <2> HIDE DEF I
  <2>3. Carries(requests[d], Orders(f, e))
    BY <1>1, <1>3, <2>1, <2>2, IdleMessage
  <2> QED BY <1>1, <1>2, <2>1, <2>2, <2>3, IdleWay
<1> QED BY <1>3, KindsStay DEF Tallied

(* What the server answers to a report is what it has then.                    *)
LEMMA AnswersTell ==
    ASSUME Records, NEW report \in RoomReports, NEW number \in FreshNumbers(New(report)),
           object' = Created(number, report),
           nextObject' = nextObject + Cardinality(New(report)),
           NEW f \in DOMAIN report, NEW answer, answer = Answers(number, report)[f]
    PROVE  /\ answer.id \in EntitiesOf(f)'
           /\ Standing(answer.id)' = IF answer.first THEN report[f] ELSE answer.thing
<1>1. PICK S \in SUBSET Things : report \in [S -> ThingsShown]
  BY DEF RoomReports
<1>2. report[f] \in ThingsShown
  BY <1>1
<1>3. report[f] = [lock |-> report[f].lock, items |-> report[f].items]
  BY <1>2 DEF ThingsShown
<1>4. /\ DOMAIN number = New(report) /\ DOMAIN object \subseteq DOMAIN object'
      /\ \A d \in DOMAIN object : object'[d] = object[d]
      /\ \A g \in DOMAIN number :
            /\ number[g] \in DOMAIN object'
            /\ object'[number[g]] =
                  [form |-> g, lock |-> report[g].lock, items |-> report[g].items]
  BY ReportMakesRecords
<1>5. CASE f \in DOMAIN number
  <2>1. answer = [id |-> number[f], first |-> TRUE, thing |-> report[f]]
    BY <1>5 DEF Answers
  <2>2. answer.id = number[f] /\ answer.first
    BY <2>1
  <2>3. PICK e : e = answer.id
    OBVIOUS
  <2>4. e \in DOMAIN object'
        /\ object'[e] = [form |-> f, lock |-> report[f].lock, items |-> report[f].items]
    BY <1>4, <1>5, <2>2, <2>3
  <2>5. object'[e].form = f /\ object'[e].lock = report[f].lock /\ object'[e].items = report[f].items
    BY <2>4
  <2>6. e \in EntitiesOf(f)'
    BY <2>4, <2>5 DEF EntitiesOf
  <2>7. Standing(e)' = report[f]
    BY <1>3, <2>5 DEF Standing
  <2> QED BY <2>2, <2>3, <2>6, <2>7
<1>6. CASE f \notin DOMAIN number
  <2>2. EntitiesOf(f) # {}
    BY <1>4, <1>6 DEF New
  <2>1. PICK d : d = CHOOSE b \in EntitiesOf(f) : TRUE
    OBVIOUS
  <2>3. d \in EntitiesOf(f)
    BY <2>1, <2>2
  <2>4. answer = [id |-> d, first |-> FALSE,
                  thing |-> [lock |-> object[d].lock, items |-> object[d].items]]
    BY <1>6, <2>1 DEF Answers
  <2>5. answer.id = d /\ ~answer.first
        /\ answer.thing = [lock |-> object[d].lock, items |-> object[d].items]
    BY <2>4
  <2>6. d \in DOMAIN object /\ object[d].form = f /\ object'[d] = object[d]
    BY <1>4, <2>3 DEF EntitiesOf
  <2>7. answer.id \in EntitiesOf(f)'
    BY <1>4, <2>5, <2>6 DEF EntitiesOf
  <2>8. Standing(answer.id)' = [lock |-> object[d].lock, items |-> object[d].items]
    BY <2>5, <2>6 DEF Standing
  <2> QED BY <2>5, <2>7, <2>8
<1> QED BY <1>5, <1>6

LEMMA AssignKeepsAgreement ==
    ASSUME ObjectsInv, AgreementInv, NEW c \in Clients, OnAssignObjectsRequest(c)
    PROVE  AgreementInv'
<1>1. /\ Receipt(c, "assign")
      /\ UNCHANGED <<roomOf, online, visiting, shown, serverId, strayed, raced>>
  BY DEF OnAssignObjectsRequest
<1>2. PICK report : report = Head(requests[c]).things
  OBVIOUS
<1>3. nextObject' = nextObject + Cardinality(New(report))
  BY <1>2 DEF OnAssignObjectsRequest
<1>4. PICK number \in FreshNumbers(New(report)) :
         /\ object' = Created(number, report)
         /\ replies' = Posted(replies, IF DOMAIN report = {} THEN {} ELSE {c},
                              [type |-> "assigned", things |-> Answers(number, report)])
  BY <1>2 DEF OnAssignObjectsRequest
<1>5. PICK answers : answers = Answers(number, report)
  OBVIOUS
<1>6. PICK a : a = [type |-> "assigned", things |-> answers]
  OBVIOUS
<1>7. /\ requests[c] # <<>> /\ requests'[c] = Tail(requests[c])
      /\ \A d \in Clients : d # c => requests'[d] = requests[d]
      /\ Head(requests[c]) \in CellReports
  <2>1. requests \in [Clients -> Seq(Requests)]
    BY DEF ObjectsInv, Messages
  <2>2. Head(requests[c]) \in Requests /\ Head(requests[c]).type = "assign"
    BY <1>1, ReceiptTypes
  <2> QED BY <1>1, <2>1, <2>2, ReceiptTypes DEF Receipt, Read, CellReports
<1>8. report \in RoomReports
  BY <1>2, <1>7, RequestFields DEF CellReports
<1>9. /\ \A d \in DOMAIN object : d \in DOMAIN object' /\ object'[d] = object[d]
      /\ \A e \in DOMAIN object' \ DOMAIN object :
            e >= nextObject /\ \E f \in DOMAIN number : e = number[f]
      /\ DOMAIN number = New(report) /\ \A f \in DOMAIN number : number[f] \in Nat
      /\ \A f \in DOMAIN number :
            object'[number[f]] = [form |-> f, lock |-> report[f].lock, items |-> report[f].items]
  BY <1>3, <1>4, <1>8, ReportMakesRecords DEF ObjectsInv
<1>10. ObjectsInv'
  BY AssignKeepsInv
<1>11. answers \in AnswersToReports /\ DOMAIN answers = DOMAIN report
  BY <1>5, <1>8, <1>9, AnswersTypes DEF ObjectsInv, Answers
<1>12. a \in Verdicts /\ a.things = answers
  BY <1>6, <1>11 DEF Verdicts, Replies
<1>13. \A f \in DOMAIN report :
          /\ answers[f].id \in EntitiesOf(f)'
          /\ Standing(answers[f].id)' = IF answers[f].first THEN report[f] ELSE answers[f].thing
  BY <1>3, <1>4, <1>5, <1>8, AnswersTell DEF ObjectsInv
<1>14. /\ \A d \in Clients : d # c => replies'[d] = replies[d]
       /\ replies'[c] = IF DOMAIN report = {} THEN replies[c] ELSE Append(replies[c], a)
  BY <1>4, <1>5, <1>6 DEF Posted
<1>15. NumbersKept
  <2>1. nextObject' >= nextObject
    <3>1. New(report) \subseteq Things
      BY <1>8 DEF New, RoomReports
    <3>2. Cardinality(New(report)) \in Nat
      BY <3>1, ObjectsAssumption, FS_Subset, FS_CardinalityType
    <3> QED BY <1>3, <3>2 DEF ObjectsInv, Records
  <2> QED BY <1>9, <2>1 DEF NumbersKept
<1>16. \A f : \A e \in EntitiesOf(f) : e \in EntitiesOf(f)' /\ Standing(e)' = Standing(e)
  BY <1>9 DEF EntitiesOf, Standing
<1>17. ASSUME NEW d \in Clients PROVE Departs(d)' /\ Denoting(d)'
  <2>1. requests'[d] = requests[d] \/ (requests[d] # <<>> /\ requests'[d] = Tail(requests[d]))
    BY <1>7
  <2>2. Departs(d)'
    BY <1>1, <2>1, DepartsStays DEF AgreementInv
  <2>3. \A f \in Things : Denotes(serverId[d][f], f)
    BY DEF AgreementInv, Denoting
  <2>4. \A f \in Things : serverId[d][f] \in Nat
    BY DEF ObjectsInv, Games
  <2>5. (\A f \in Things : Denotes(serverId[d][f], f))'
    BY <1>1, <1>10, <1>15, <2>3, <2>4, DenotesStays
  <2>6. a \notin Misjudging'
    <3>1. ASSUME NEW f \in DOMAIN answers PROVE Denotes(answers[f].id, f)'
      <4>1. PICK e : e = answers[f].id
        OBVIOUS
      <4>2. e \in EntitiesOf(f)'
        BY <1>11, <1>13, <3>1, <4>1
      <4>3. e \in DOMAIN object' /\ object'[e].form = f
        BY <4>2 DEF EntitiesOf
      <4>4. e < nextObject'
        BY <1>10, <4>3 DEF ObjectsInv, Records
      <4> QED BY <4>1, <4>3, <4>4 DEF Denotes
    <3> QED BY <1>12, <3>1 DEF Misjudging
  <2>7. replies'[d] = replies[d] \/ replies'[d] = Append(replies[d], a)
    BY <1>14
  <2>8. a \in Replies \ Misjudging'
    BY <1>12, <2>6 DEF Verdicts
  <2>9. Denoting(d)'
    BY <1>10, <1>15, <2>1, <2>5, <2>7, <2>8, DenotingStays DEF AgreementInv
  <2> QED BY <2>2, <2>9
<1>18. ASSUME NEW f \in Things, f \notin raced', NEW e \in EntitiesOf(f)' PROVE Tallied(f, e)'
  <2>1. e \in DOMAIN object' /\ object'[e].form = f
    BY <1>18 DEF EntitiesOf
  <2>2. CASE e \in DOMAIN object
    <3>1. object'[e] = object[e]
      BY <1>9, <2>2
    <3>2. Tallied(f, e)
      BY <1>1, <1>18, <2>1, <2>2, <3>1 DEF AgreementInv, EntitiesOf
    <3>3. Head(requests[c]) \in Requests \ Orders(f, e)
      BY <1>7, KindsOfMessages DEF CellReports
    <3>4. \A d \in Clients : Idles(requests[d], requests'[d], Requests \ Orders(f, e))
      BY <1>7, <3>3, QueueIdles
    <3> QED BY <3>1, <3>2, <3>4, TalliedStays
  <2>3. CASE e \notin DOMAIN object
    <3>1. PICK g \in DOMAIN number : e = number[g]
      BY <1>9, <2>1, <2>3
    <3>2. object'[e] = [form |-> g, lock |-> report[g].lock, items |-> report[g].items]
      BY <1>9, <3>1
    <3>3. g \in DOMAIN report /\ e \in Nat /\ e >= nextObject
      BY <1>9, <2>1, <2>3, <3>1 DEF New
    <3>4. report[g] \in ThingsShown
      BY <1>8, <3>3 DEF RoomReports
    <3>5. object'[e].items \in Nat
      BY <3>2, <3>4 DEF ThingsShown
    <3>6. ASSUME NEW d \in Clients, Carries(requests'[d], Orders(f, e)) PROVE FALSE
      <4>1. requests[d] \in Seq(Requests)
        BY DEF ObjectsInv, Messages
      <4>2. Carries(requests[d], Orders(f, e))
        BY <1>7, <3>6, <4>1, CarriesLess
      <4>3. PICK i \in 1 .. Len(requests[d]) : requests[d][i] \in Orders(f, e)
        BY <4>2 DEF Carries
      <4>4. requests[d][i] \in Misdirected
        <5>1. nextObject \in Nat
          BY DEF ObjectsInv, Records
        <5>2. ~(e < nextObject)
          BY <3>3, <5>1
        <5> QED BY <4>3, <5>2 DEF Orders, ChangesOf, Misdirected, Denotes
      <4> QED BY <4>4 DEF AgreementInv, Denoting, Carries
    <3> QED BY <3>5, <3>6, KindsStay DEF Tallied
  <2> QED BY <2>2, <2>3
<1>19. ASSUME NEW d \in Clients, NEW f \in Things, InPicture(d, f)' PROVE Imaged(d, f)'
  <2>1. InPicture(d, f)
    BY <1>1, <1>19 DEF InPicture
  <2>2. Imaged(d, f)
    BY <2>1 DEF AgreementInv
  <2>3. CASE d # c
    <3>1. requests'[d] = requests[d] /\ replies'[d] = replies[d]
      BY <1>7, <1>14, <2>3
    <3>2. /\ Idles(requests[d], requests'[d], Requests \ (CellReports \cup ChangesOf(f)))
          /\ Idles(replies[d], replies'[d], Replies \ (Verdicts \cup ChangesOf(f)))
      BY <3>1, QueueIdles
    <3>3. \A b \in Clients : Carries(requests'[b], ChangesOf(f)) => Altering(b, f)
      <4> SUFFICES ASSUME NEW b \in Clients, Carries(requests'[b], ChangesOf(f)) PROVE Altering(b, f)
        OBVIOUS
      <4>1. requests[b] \in Seq(Requests)
        BY DEF ObjectsInv, Messages
      <4> QED BY <1>7, <4>1, CarriesLess DEF Altering
    <3> QED BY <1>1, <1>16, <2>2, <3>2, <3>3, ImageStays
  <2>4. CASE d = c
    <3> DEFINE s == requests[c]
               p == replies[c]
               q == replies'[c]
               x == shown[c][f]
    <3>1. s \in Seq(Requests) /\ p \in Seq(Replies) /\ x \in ThingsShown
      BY DEF ObjectsInv, Messages, Games
    <3>2. Reporting(c)
      BY <1>7, <3>1, CarriesLess DEF Reporting
    <3>3. InReport(c, f)
      BY <2>2, <2>4, <3>2 DEF Imaged, Outrun, Answering, Hearkening, Deciding
    <3>4. /\ Single(s, CellReports, Recounting(f, x))
          /\ ~Carries(p, Verdicts) /\ ~Carries(s, ChangesOf(f))
      BY <3>3 DEF InReport, Awaiting, Altering
    <3>5. Head(s) \in Recounting(f, x) /\ ~Carries(Tail(s), CellReports)
      BY <1>7, <3>1, <3>4, SingleLess
    <3>6. f \in DOMAIN report /\ report[f] = x
      BY <1>2, <3>5 DEF Recounting
    <3>7. q = Append(p, a) /\ a \in Replies /\ a \in Judging(f)
      BY <1>11, <1>12, <1>14, <3>6 DEF Judging, Verdicts
    <3>8. Single(q, Verdicts, Judging(f))
      <4> HIDE DEF p, q
      <4> QED BY <1>12, <3>1, <3>4, <3>7, SingleMore
    <3>9. ~Carries(Tail(s), ChangesOf(f))
      BY <1>7, <3>1, <3>4, CarriesLess
    <3>10. ~Reporting(c)' /\ ~Altering(c, f)'
      BY <1>7, <3>5, <3>9, KindsStay DEF Reporting, Altering
    <3>11. CASE Carries(p, ChangesOf(f))
      <4>1. Precedes(q, ChangesOf(f), Verdicts)
        <5> HIDE DEF p, q
        <5> QED BY <1>12, <3>1, <3>7, <3>11, PrecedesMore
      <4>2. Outrun(c, f)'
        BY <3>8, <3>10, <4>1, KindsStay DEF Outrun
      <4> QED BY <2>4, <4>2 DEF Imaged
    <3>12. CASE ~Carries(p, ChangesOf(f))
      <4>1. PICK e : e = answers[f].id
        OBVIOUS
      <4>2. /\ e \in EntitiesOf(f)'
            /\ Standing(e)' = IF answers[f].first THEN x ELSE answers[f].thing
        BY <1>13, <3>6, <4>1
      <4>3. PICK z : z = Standing(e)'
        OBVIOUS
      <4>4. z \in ThingsShown
        <5>1. e \in DOMAIN object' /\ object'[e].form = f
          BY <4>2 DEF EntitiesOf
        <5>2. f \notin raced'
          BY <1>19 DEF InPicture
        <5>3. Tallied(f, e)'
          BY <1>18, <4>2, <5>2
        <5>4. object'[e].items \in Nat
          BY <5>3 DEF Tallied
        <5>5. object'[e].lock \in Locks
          BY <1>10, <5>1 DEF ObjectsInv, Records
        <5> QED BY <4>3, <5>4, <5>5 DEF Standing, ThingsShown
      <4>5. Leads(p, ThingsShown, Hearing(f, e), x, x)
        <5>1. ASSUME NEW i \in 1 .. Len(p) PROVE <<x, p[i], x>> \in Hearing(f, e)
          <6>1. p[i] \in Replies
            BY <3>1
          <6>2. p[i] \notin ChangesOf(f) /\ p[i] \notin Verdicts
            BY <3>4, <3>12 DEF Carries
          <6> QED BY <3>1, <6>1, <6>2, WaysOfMessages
        <5> HIDE DEF p, x
        <5> QED BY <3>1, <5>1, LeadsNowhere
      <4>6. <<x, a, z>> \in Hearing(f, e)
        <5>1. z = Replied(f, e, a, x)
          BY <1>12, <3>7, <4>2, <4>3 DEF Replied
        <5>2. a.things[f].id = e
          BY <1>12, <4>1
        <5> HIDE DEF x
        <5> QED BY <3>1, <3>7, <4>4, <5>1, <5>2, WaysOfMessages
      <4>7. Leads(q, ThingsShown, Hearing(f, e), x, z)
        <5> HIDE DEF p, q, x
        <5> QED BY <3>1, <3>7, <4>4, <4>5, <4>6, LeadsOn
      <4>8. Answering(c, f, e)'
        BY <1>1, <3>8, <3>10, <4>3, <4>7, KindsStay DEF Answering
      <4> QED BY <2>4, <4>2, <4>8 DEF Imaged
    <3> QED BY <3>11, <3>12
  <2> QED BY <2>3, <2>4
<1> QED BY <1>17, <1>18, <1>19 DEF AgreementInv

(* A client is unseen in its cell that has reported it, but is not there yet.  *)
LEMMA UnseenClients ==
    ASSUME ObjectsInv, NEW d \in Clients, NEW room, visiting[d] = room, roomOf[d] # room,
           ~Reporting(d)
    PROVE  d \in Unseen(room)
<1>1. requests[d] \in Seq(Requests)
  BY DEF ObjectsInv, Messages
<1>2. \A i \in DOMAIN requests[d] : requests[d][i] \in Requests /\ i \in 1 .. Len(requests[d])
  BY <1>1
<1> QED BY <1>2 DEF Unseen, Reporting, Carries, CellReports

(* What is forgotten with a cell leaves no picture but that of a client who    *)
(* has reported it anew.                                                       *)
LEMMA ForgettingThings ==
    ASSUME ObjectsInv, NEW room, Forgets(room), nextObject' = nextObject,
           object' = object \/ object' = Kept(roomOf', room)
    PROVE  /\ \A e \in DOMAIN object' : e \in DOMAIN object /\ object'[e] = object[e]
           /\ \A f \in Things : f \notin raced' => f \notin raced \/ EntitiesOf(f)' = {}
           /\ \A d \in Clients, f \in Things :
                 /\ InPicture(d, f)' /\ visiting'[d] = visiting[d] /\ d \in online'
                 /\ Home[f] = room => roomOf'[d] = room \/ roomOf[d] # room \/ Reporting(d)
                 => /\ InPicture(d, f)
                    /\ ~Reporting(d) => \A e \in EntitiesOf(f) : e \in EntitiesOf(f)'
<1>1. CASE object' = object
  <2>1. strayed' = strayed /\ raced' = raced
    BY <1>1 DEF Forgets
  <2> QED BY <1>1, <2>1 DEF InPicture, EntitiesOf
<1>2. CASE object' # object
  <2>1. object' = Kept(roomOf', room)
    BY <1>2
  <2>2. /\ \A e \in DOMAIN object' : e \in DOMAIN object /\ object'[e] = object[e]
        /\ ~\E c \in online' : roomOf'[c] = room
        /\ \A e \in DOMAIN object : Home[object[e].form] # room => e \in DOMAIN object'
        /\ \A e \in DOMAIN object' : Home[object'[e].form] # room
    BY <1>2, <2>1, KeptRecords DEF ObjectsInv
  <2>3. CASE room = NoRoom
    <3>1. strayed' = strayed /\ raced' = raced
      BY <2>3 DEF Forgets
    <3>2. \A e \in DOMAIN object : Home[object[e].form] # room
      BY <2>3, ObjectsAssumption DEF ObjectsInv, Records
    <3> QED BY <2>2, <3>1, <3>2 DEF InPicture, EntitiesOf
  <2>4. CASE room # NoRoom
    <3>1. /\ strayed' = strayed \cup Unseen(room)
          /\ raced' = IF \E c \in Clients : Unanswered(c) THEN raced
                      ELSE raced \ {f \in Things : Home[f] = room}
      BY <1>2, <2>4 DEF Forgets
    <3>2. \A f \in Things : Home[f] = room => EntitiesOf(f)' = {}
      BY <2>2 DEF EntitiesOf
    <3>3. \A f \in Things : Home[f] # room => \A e \in EntitiesOf(f) : e \in EntitiesOf(f)'
      BY <2>2 DEF EntitiesOf
    <3>4. ASSUME NEW d \in Clients, NEW f \in Things, InPicture(d, f)', visiting'[d] = visiting[d],
                 d \in online',
                 Home[f] = room => roomOf'[d] = room \/ roomOf[d] # room \/ Reporting(d)
          PROVE  /\ InPicture(d, f)
                 /\ ~Reporting(d) => \A e \in EntitiesOf(f) : e \in EntitiesOf(f)'
      <4>1. visiting[d] = Home[f] /\ d \notin strayed' /\ f \notin raced'
        BY <3>4 DEF InPicture
      <4>2. CASE Home[f] # room
        BY <3>1, <3>3, <4>1, <4>2 DEF InPicture
      <4>3. CASE Home[f] = room
        <5>1. roomOf'[d] # room
          BY <2>2, <3>4
        <5>2. Reporting(d)
          BY <3>1, <3>4, <4>1, <4>3, <5>1, UnseenClients
        <5>3. raced' = raced
          BY <3>1, <5>2, UnansweredClients
        <5> QED BY <3>1, <4>1, <5>2, <5>3 DEF InPicture
      <4> QED BY <4>2, <4>3
    <3> QED BY <2>2, <3>1, <3>2, <3>4
  <2> QED BY <2>3, <2>4
<1> QED BY <1>1, <1>2

(* While numbers last, the clients' numbers are right as long as they stay.    *)
LEMMA NumbersStay ==
    ASSUME ObjectsInv, ObjectsInv', NumbersKept, NEW c \in Clients, Denoting(c),
           serverId'[c] = serverId[c]
    PROVE  (\A f \in Things : Denotes(serverId[c][f], f))'
<1>1. \A f \in Things : Denotes(serverId[c][f], f) /\ serverId[c][f] \in Nat
  BY DEF Denoting, ObjectsInv, Games
<1> QED BY <1>1, DenotesStays

(* The first message of c has been read by the server.                         *)
LEMMA ReadRequests ==
    ASSUME ObjectsInv, NEW c \in Clients, NEW type, Receipt(c, type)
    PROVE  /\ requests[c] \in Seq(Requests)
           /\ requests[c] # <<>> /\ requests'[c] = Tail(requests[c])
           /\ \A d \in Clients : d # c => requests'[d] = requests[d]
           /\ Head(requests[c]) \in Requests /\ Head(requests[c]).type = type
           /\ \A d \in Clients : \A K : Carries(requests'[d], K) => Carries(requests[d], K)
           /\ \A d \in Clients :
                 \/ requests'[d] = requests[d]
                 \/ requests[d] # <<>> /\ requests'[d] = Tail(requests[d])
           /\ \A K : Head(requests[c]) \in K =>
                 \A d \in Clients : Idles(requests[d], requests'[d], K)
<1>1. /\ requests \in [Clients -> Seq(Requests)] /\ requests[c] # <<>>
      /\ requests' = Read(requests, c)
  BY DEF ObjectsInv, Messages, Receipt
<1>2. requests'[c] = Tail(requests[c]) /\ \A d \in Clients : d # c => requests'[d] = requests[d]
  BY <1>1 DEF Read
<1>3. \A K : Carries(Tail(requests[c]), K) => Carries(requests[c], K)
  BY <1>1, CarriesLess
<1>4. \A d \in Clients : \A K : Carries(requests'[d], K) => Carries(requests[d], K)
  BY <1>2, <1>3
<1>5. \A K : Head(requests[c]) \in K =>
         \A d \in Clients : Idles(requests[d], requests'[d], K)
  BY <1>1, <1>2, QueueIdles
<1> QED BY <1>1, <1>2, <1>4, <1>5, ReceiptTypes

LEMMA EnterKeepsAgreement ==
    ASSUME ObjectsInv, AgreementInv, NEW c \in Clients, OnEnterInteriorCell(c)
    PROVE  AgreementInv'
<1> DEFINE m == Head(requests[c])
           room == roomOf[c]
<1>1. /\ Receipt(c, "enter") /\ Forgets(room)
      /\ roomOf' = [roomOf EXCEPT ![c] = m.room] /\ online' = online
      /\ object' = Kept(roomOf', room)
      /\ UNCHANGED <<nextObject, replies, visiting, shown, serverId>>
  BY DEF OnEnterInteriorCell
<1>2. /\ requests[c] \in Seq(Requests)
      /\ requests[c] # <<>> /\ requests'[c] = Tail(requests[c])
      /\ m \in Requests /\ m.type = "enter"
      /\ \A d \in Clients : \A K : Carries(requests'[d], K) => Carries(requests[d], K)
      /\ \A d \in Clients :
            \/ requests'[d] = requests[d]
            \/ requests[d] # <<>> /\ requests'[d] = Tail(requests[d])
      /\ \A K : m \in K => \A d \in Clients : Idles(requests[d], requests'[d], K)
  BY <1>1, ReadRequests
<1>3. m \notin CellReports /\ m \notin ChangeMessages
  BY <1>2 DEF CellReports, ChangeMessages
<1>4. \A f : m \notin ChangesOf(f) /\ \A e : m \notin Orders(f, e)
  BY <1>3, KindsOfMessages DEF ChangesOf
<1> HIDE DEF m
<1>5. ObjectsInv'
  BY EnterKeepsInv
<1>6. /\ \A e \in DOMAIN object' : e \in DOMAIN object /\ object'[e] = object[e]
      /\ \A f \in Things : f \notin raced' => f \notin raced \/ EntitiesOf(f)' = {}
      /\ \A d \in Clients, f \in Things :
            /\ InPicture(d, f)' /\ visiting'[d] = visiting[d] /\ d \in online'
            /\ Home[f] = room => roomOf'[d] = room \/ roomOf[d] # room \/ Reporting(d)
            => /\ InPicture(d, f)
               /\ ~Reporting(d) => \A e \in EntitiesOf(f) : e \in EntitiesOf(f)'
  BY <1>1, ForgettingThings
<1>7. NumbersKept
  <2>1. nextObject' = nextObject /\ nextObject \in Nat
    BY <1>1 DEF ObjectsInv, Records
  <2> QED BY <1>6, <2>1 DEF NumbersKept
<1>8. ASSUME NEW d \in Clients PROVE Departs(d)' /\ Denoting(d)'
  <2>1. Departs(d)'
    BY <1>1, <1>2, DepartsStays DEF AgreementInv
  <2>2. (\A f \in Things : Denotes(serverId[d][f], f))'
    BY <1>1, <1>5, <1>7, NumbersStay DEF AgreementInv
  <2>3. Denoting(d)'
    BY <1>1, <1>2, <1>5, <1>7, <2>2, DenotingStays DEF AgreementInv
  <2> QED BY <2>1, <2>3
<1>9. ASSUME NEW f \in Things, f \notin raced', NEW e \in EntitiesOf(f)' PROVE Tallied(f, e)'
  <2>1. f \notin raced /\ e \in EntitiesOf(f) /\ object'[e] = object[e]
    BY <1>6, <1>9 DEF EntitiesOf
  <2>2. Tallied(f, e)
    BY <2>1 DEF AgreementInv
  <2>3. \A d \in Clients : Idles(requests[d], requests'[d], Requests \ Orders(f, e))
    BY <1>2, <1>4
  <2> QED BY <2>1, <2>2, <2>3, TalliedStays
<1>10. ASSUME NEW d \in Clients, NEW f \in Things, InPicture(d, f)' PROVE Imaged(d, f)'
  <2>1. visiting[d] = Home[f] /\ visiting[d] # NoRoom
    BY <1>1, <1>10, ObjectsAssumption DEF InPicture
  <2>2. d \in online'
    BY <1>1, <2>1 DEF ObjectsInv, Whereabouts
  <2>3. ASSUME Home[f] = room PROVE roomOf'[d] = room \/ roomOf[d] # room \/ Reporting(d)
    <3>1. CASE d # c
      BY <1>1, <3>1 DEF ObjectsInv, Whereabouts
    <3>2. CASE d = c
      <4>1. roomOf'[c] = m.room
        BY <1>1 DEF ObjectsInv, Whereabouts
      <4>2. ASSUME m.room # room PROVE Reporting(c)
        <5>1. m \in Away(visiting[c])
          BY <1>2, <2>1, <2>3, <3>2, <4>2 DEF Away
        <5>2. Carries(requests[c], Away(visiting[c]))
          BY <1>2, <5>1, CarriesLess DEF m
        <5>3. Latest(requests[c], Away(visiting[c]) \cup CellReports, CellReports)
          BY <5>2 DEF AgreementInv, Departs
        <5> QED BY <5>3 DEF Latest, Reporting, Carries
      <4> QED BY <3>2, <4>1, <4>2
    <3> QED BY <3>1, <3>2
  <2>4. /\ InPicture(d, f)
        /\ ~Reporting(d) => \A e \in EntitiesOf(f) : e \in EntitiesOf(f)'
    BY <1>1, <1>6, <1>10, <2>2, <2>3
  <2>5. Imaged(d, f)
    BY <2>4 DEF AgreementInv
  <2>6. m \in Requests \ (CellReports \cup ChangesOf(f))
    BY <1>2, <1>3, <1>4
  <2>7. /\ Idles(requests[d], requests'[d], Requests \ (CellReports \cup ChangesOf(f)))
        /\ Idles(replies[d], replies'[d], Replies \ (Verdicts \cup ChangesOf(f)))
    BY <1>1, <1>2, <2>6, QueueIdles
  <2>8. \A b \in Clients : Carries(requests'[b], ChangesOf(f)) => Altering(b, f)
    BY <1>2 DEF Altering
  <2>9. ~Reporting(d) =>
           \A e \in EntitiesOf(f) : e \in EntitiesOf(f)' /\ Standing(e)' = Standing(e)
    BY <1>6, <2>4 DEF EntitiesOf, Standing
  <2> QED BY <1>1, <2>5, <2>7, <2>8, <2>9, ImageStays
<1> QED BY <1>8, <1>9, <1>10 DEF AgreementInv

LEMMA QuittingKeepsAgreement ==
    ASSUME ObjectsInv, AgreementInv, NEW c \in Clients, OnPlayerQuits(c)
    PROVE  AgreementInv'
<1> DEFINE room == roomOf[c]
<1>1. /\ online' = online \ {c} /\ Forgets(room)
      /\ roomOf' = [roomOf EXCEPT ![c] = NoRoom]
      /\ visiting' = [visiting EXCEPT ![c] = NoRoom]
      /\ requests' = [requests EXCEPT ![c] = <<>>]
      /\ replies' = [replies EXCEPT ![c] = <<>>]
      /\ object' = object \/ object' = Kept(roomOf', room)
      /\ nextObject' = nextObject /\ shown' = shown /\ serverId' = serverId
  BY DEF OnPlayerQuits
<1>2. /\ requests'[c] = <<>> /\ replies'[c] = <<>> /\ visiting'[c] = NoRoom
      /\ \A d \in Clients : d # c => /\ requests'[d] = requests[d] /\ replies'[d] = replies[d]
                                     /\ visiting'[d] = visiting[d] /\ roomOf'[d] = roomOf[d]
  BY <1>1 DEF ObjectsInv, Messages, Whereabouts
<1>5. ObjectsInv'
  BY QuittingKeepsInv
<1>6. /\ \A e \in DOMAIN object' : e \in DOMAIN object /\ object'[e] = object[e]
      /\ \A f \in Things : f \notin raced' => f \notin raced \/ EntitiesOf(f)' = {}
      /\ \A d \in Clients, f \in Things :
            /\ InPicture(d, f)' /\ visiting'[d] = visiting[d] /\ d \in online'
            /\ Home[f] = room => roomOf'[d] = room \/ roomOf[d] # room \/ Reporting(d)
            => /\ InPicture(d, f)
               /\ ~Reporting(d) => \A e \in EntitiesOf(f) : e \in EntitiesOf(f)'
  BY <1>1, ForgettingThings
<1>7. NumbersKept
  BY <1>1, <1>5, <1>6 DEF NumbersKept, ObjectsInv, Records
<1>8. ASSUME NEW d \in Clients PROVE Departs(d)' /\ Denoting(d)'
  <2>1. Departs(d)'
    BY <1>2, DepartsStays DEF AgreementInv
  <2>2. (\A f \in Things : Denotes(serverId[d][f], f))'
    BY <1>1, <1>5, <1>7, NumbersStay DEF AgreementInv
  <2>4. requests'[d] \in {<<>>, requests[d]} /\ replies'[d] \in {<<>>, replies[d]}
    BY <1>2
  <2>3. Denoting(d)'
    BY <1>5, <1>7, <2>2, <2>4, DenotingStays DEF AgreementInv
  <2> QED BY <2>1, <2>3
<1>9. ASSUME NEW f \in Things, f \notin raced', NEW e \in EntitiesOf(f)' PROVE Tallied(f, e)'
  <2>1. f \notin raced /\ e \in EntitiesOf(f) /\ object'[e] = object[e]
    BY <1>6, <1>9 DEF EntitiesOf
  <2>2. Tallied(f, e)
    BY <2>1 DEF AgreementInv
  <2>3. \A d \in Clients : \/ requests'[d] = <<>>
                           \/ Idles(requests[d], requests'[d], Requests \ Orders(f, e))
    BY <1>2, QueueIdles
  <2> QED BY <2>1, <2>2, <2>3, TalliedStays
<1>10. ASSUME NEW d \in Clients, NEW f \in Things, InPicture(d, f)' PROVE Imaged(d, f)'
  <2>1. visiting'[d] = Home[f] /\ visiting'[d] # NoRoom
    BY <1>10, ObjectsAssumption DEF InPicture
  <2>2. d # c /\ d \in online'
    BY <1>1, <1>2, <2>1 DEF ObjectsInv, Whereabouts
  <2>4. /\ InPicture(d, f)
        /\ ~Reporting(d) => \A e \in EntitiesOf(f) : e \in EntitiesOf(f)'
    BY <1>2, <1>6, <1>10, <2>2
  <2>5. Imaged(d, f)
    BY <2>4 DEF AgreementInv
  <2>7. /\ Idles(requests[d], requests'[d], Requests \ (CellReports \cup ChangesOf(f)))
        /\ Idles(replies[d], replies'[d], Replies \ (Verdicts \cup ChangesOf(f)))
    BY <1>2, <2>2, QueueIdles
  <2>8. \A b \in Clients : Carries(requests'[b], ChangesOf(f)) => Altering(b, f)
    BY <1>2, CarriesNothing DEF Altering
  <2>9. ~Reporting(d) =>
           \A e \in EntitiesOf(f) : e \in EntitiesOf(f)' /\ Standing(e)' = Standing(e)
    BY <1>6, <2>4 DEF EntitiesOf, Standing
  <2> QED BY <1>1, <2>5, <2>7, <2>8, <2>9, ImageStays
<1> QED BY <1>8, <1>9, <1>10 DEF AgreementInv

(* The server does as c, who changed f, has told it.                           *)
LEMMA DecisionTaken ==
    ASSUME ObjectsInv, NEW c \in Clients, NEW f \in Things, Imaged(c, f),
           requests[c] # <<>>, Head(requests[c]) \in ChangesOf(f),
           requests'[c] = Tail(requests[c]), \A d \in Clients \ {c} : requests'[d] = requests[d],
           replies'[c] = replies[c], shown'[c][f] = shown[c][f], serverId'[c][f] = serverId[c][f],
           \A e \in EntitiesOf(f) : /\ e \in EntitiesOf(f)'
                                    /\ \A z : <<Standing(e), Head(requests[c]), z>> \in Obeying(f, e)
                                                => z = Standing(e)'
    PROVE  Imaged(c, f)'
<1> DEFINE s == requests[c]
           p == replies[c]
           x == shown[c][f]
<1>1. s \in Seq(Requests) /\ p \in Seq(Replies) /\ x \in ThingsShown
  BY DEF ObjectsInv, Messages, Games
<1>2. Altering(c, f)
  BY <1>1, CarriesLess DEF Altering
<1>3. \A K : Carries(Tail(s), K) => Carries(s, K)
  BY <1>1, CarriesLess
<1>4. ~Reporting(c) => ~Reporting(c)'
  BY <1>3, KindsStay DEF Reporting
<1>5. CASE Outrun(c, f)
  BY <1>4, <1>5, KindsStay DEF Imaged, Outrun
<1>6. ASSUME NEW e \in EntitiesOf(f), Deciding(c, f, e) PROVE Imaged(c, f)'
  <2>1. /\ ~Reporting(c) /\ ~Awaiting(c) /\ serverId[c][f] = e
        /\ ~Carries(p, ChangesOf(f)) /\ \A d \in Clients \ {c} : ~Altering(d, f)
        /\ Leads(s, ThingsShown, Obeying(f, e), Standing(e), x)
    BY <1>6 DEF Deciding
  <2>2. PICK z \in ThingsShown :
           /\ <<Standing(e), Head(s), z>> \in Obeying(f, e)
           /\ Leads(Tail(s), ThingsShown, Obeying(f, e), z, x)
    BY <1>1, <2>1, LeadsFrom
  <2>3. z = Standing(e)' /\ e \in EntitiesOf(f)'
    BY <2>2
  <2>4. ~Awaiting(c)' /\ ~Reporting(c)'
    BY <1>4, <2>1, KindsStay DEF Awaiting
  <2>5. CASE Carries(Tail(s), ChangesOf(f))
    <3>1. Deciding(c, f, e)'
      BY <2>1, <2>2, <2>3, <2>4, <2>5, KindsStay DEF Deciding, Altering
    <3> QED BY <2>3, <3>1 DEF Imaged
  <2>6. CASE ~Carries(Tail(s), ChangesOf(f))
    <3>1. Tail(s) \in Seq(Requests)
      BY <1>1, HeadTailProperties
    <3> DEFINE t == Tail(s)
    <3>2. ASSUME NEW i \in 1 .. Len(t), NEW v \in ThingsShown, NEW w \in ThingsShown,
                 <<v, t[i], w>> \in Obeying(f, e)
          PROVE  w = v
      <4>1. t[i] \in Requests /\ t[i] \notin ChangesOf(f)
        BY <2>6, <3>1 DEF Carries
      <4> HIDE DEF t
      <4> QED BY <3>2, <4>1, WaysOfMessages
    <3>3. x = z
      <4> HIDE DEF t
      <4>1. t \in Seq(Requests) /\ Leads(t, ThingsShown, Obeying(f, e), z, x)
        BY <2>2, <3>1 DEF t
      <4> QED BY <3>2, <4>1, LeadsBack
    <3>4. ASSUME NEW i \in 1 .. Len(p) PROVE <<x, p[i], x>> \in Hearing(f, e)
      <4>1. p[i] \in Replies
        BY <1>1
      <4>2. p[i] \notin ChangesOf(f) /\ p[i] \notin Verdicts
        BY <2>1 DEF Carries, Awaiting
      <4> QED BY <1>1, <4>1, <4>2, WaysOfMessages
    <3>5. Leads(p, ThingsShown, Hearing(f, e), x, x)
      <4> HIDE DEF p, x
      <4> QED BY <1>1, <3>4, LeadsNowhere
    <3>6. Hearkening(c, f, e)'
      BY <2>1, <2>3, <2>4, <2>6, <3>3, <3>5, KindsStay DEF Hearkening, Altering
    <3> QED BY <2>3, <3>6 DEF Imaged
  <2> QED BY <2>5, <2>6
<1> QED BY <1>2, <1>5, <1>6 DEF Imaged, InReport, Answering, Hearkening

(* Who is in the cell is told of the change, unless it is its own.             *)
LEMMA ChangeTold ==
    ASSUME ObjectsInv, NEW d \in Clients, NEW f \in Things, Imaged(d, f),
           NEW m \in ChangesOf(f), NEW c \in Clients \ {d}, Altering(c, f),
           requests'[d] = requests[d], shown'[d][f] = shown[d][f], serverId'[d][f] = serverId[d][f],
           \/ replies'[d] = Append(replies[d], m)
           \/ Reporting(d) /\ replies'[d] = replies[d],
           \A e \in EntitiesOf(f) : /\ e \in EntitiesOf(f)'
                                    /\ Standing(e)' \in ThingsShown
                                    /\ <<Standing(e), m, Standing(e)'>> \in Hearing(f, e)
    PROVE  Imaged(d, f)'
<1> DEFINE p == replies[d]
           q == replies'[d]
           x == shown[d][f]
<1>1. p \in Seq(Replies) /\ m \in Replies /\ m \notin Verdicts
  BY KindsOfMessages DEF ObjectsInv, Messages
<1>2. /\ Carries(q, Verdicts) <=> Carries(p, Verdicts)
      /\ \A G : Single(p, Verdicts, G) => Single(q, Verdicts, G)
      /\ \A G : Precedes(p, ChangesOf(f), G) => Precedes(q, ChangesOf(f), G)
  <2> HIDE DEF p, q
  <2>1. CASE q = Append(p, m)
    BY <1>1, <2>1, CarriesMore, SingleMore, PrecedesMore
  <2>2. CASE q = p
    BY <2>2
  <2> QED BY <2>1, <2>2 DEF p, q
<1>3. Reporting(d)' <=> Reporting(d)
  BY KindsStay DEF Reporting
<1>4. Awaiting(d)' <=> Awaiting(d)
  BY <1>2, KindsStay DEF Awaiting
<1>5. Altering(d, f)' <=> Altering(d, f)
  BY KindsStay DEF Altering
<1>6. CASE InReport(d, f)
  BY <1>4, <1>5, <1>6, KindsStay DEF Imaged, InReport
<1>7. CASE Outrun(d, f)
  BY <1>2, <1>3, <1>7, KindsStay DEF Imaged, Outrun
<1>8. ASSUME NEW e \in EntitiesOf(f), Answering(d, f, e) \/ Hearkening(d, f, e)
      PROVE  Imaged(d, f)'
  <2>1. /\ ~Reporting(d) /\ e \in EntitiesOf(f)'
        /\ Leads(p, ThingsShown, Hearing(f, e), x, Standing(e))
    BY <1>8 DEF Answering, Hearkening
  <2>2. PICK z : z = Standing(e)'
    OBVIOUS
  <2>3. z \in ThingsShown /\ <<Standing(e), m, z>> \in Hearing(f, e)
    BY <2>2
  <2>4. Leads(q, ThingsShown, Hearing(f, e), x, z)
    <3>1. q = Append(p, m)
      BY <2>1
    <3> HIDE DEF p, q, x
    <3> QED BY <1>1, <2>1, <2>3, <3>1, LeadsOn
  <2>5. Answering(d, f, e) => Answering(d, f, e)'
    BY <1>2, <1>3, <1>5, <2>2, <2>4, KindsStay DEF Answering
  <2>6. Hearkening(d, f, e) => Hearkening(d, f, e)'
    BY <1>3, <1>4, <1>5, <2>2, <2>4, KindsStay DEF Hearkening
  <2> QED BY <1>8, <2>1, <2>5, <2>6 DEF Imaged
<1> QED BY <1>6, <1>7, <1>8 DEF Imaged, Deciding

(* A change reaches all who are in the cell of the thing.                      *)
LEMMA ChangeSpreads ==
    ASSUME ObjectsInv, AgreementInv, NEW c \in Clients, NEW f \in Things, NEW m \in ChangesOf(f),
           NEW type, Receipt(c, type), m = Head(requests[c]),
           replies' = Posted(replies, Inside(Home[f]) \ {c}, m),
           strayed' = strayed \cup Unseen(Home[f]),
           visiting' = visiting, shown' = shown, serverId' = serverId, raced' = raced,
           \A g \in Things : \A e \in EntitiesOf(g) :
              e \in EntitiesOf(g)' /\ (g # f => Standing(e)' = Standing(e)),
           f \notin raced => \A e \in EntitiesOf(f) :
              /\ Standing(e)' \in ThingsShown
              /\ <<Standing(e), m, Standing(e)'>> \in Hearing(f, e)
              /\ \A z : <<Standing(e), m, z>> \in Obeying(f, e) => z = Standing(e)',
           NEW d \in Clients, NEW g \in Things, InPicture(d, g)'
    PROVE  Imaged(d, g)'
<1>1. InPicture(d, g) /\ d \notin strayed'
  BY DEF InPicture
<1>2. Imaged(d, g)
  BY <1>1 DEF AgreementInv
<1>3. /\ requests[c] \in Seq(Requests)
      /\ requests[c] # <<>> /\ requests'[c] = Tail(requests[c])
      /\ \A b \in Clients : b # c => requests'[b] = requests[b]
      /\ \A b \in Clients : \A K : Carries(requests'[b], K) => Carries(requests[b], K)
      /\ \A K : m \in K => \A b \in Clients : Idles(requests[b], requests'[b], K)
  BY ReadRequests
<1>4. replies'[d] = IF d \in Inside(Home[f]) \ {c} THEN Append(replies[d], m) ELSE replies[d]
  BY DEF Posted
<1>5. m \in Requests /\ m \in Replies /\ m \notin CellReports /\ m \notin Verdicts
  BY KindsOfMessages
<1>6. CASE g # f
  <2>1. m \notin ChangesOf(g)
    BY <1>6 DEF ChangesOf
  <2>2. /\ m \in Requests \ (CellReports \cup ChangesOf(g))
        /\ m \in Replies \ (Verdicts \cup ChangesOf(g))
    BY <1>5, <2>1
  <2>3. /\ Idles(requests[d], requests'[d], Requests \ (CellReports \cup ChangesOf(g)))
        /\ Idles(replies[d], replies'[d], Replies \ (Verdicts \cup ChangesOf(g)))
    BY <1>3, <1>4, <2>2, QueueIdles
  <2>4. \A b \in Clients : Carries(requests'[b], ChangesOf(g)) => Altering(b, g)
    BY <1>3 DEF Altering
  <2>5. \A e \in EntitiesOf(g) : e \in EntitiesOf(g)' /\ Standing(e)' = Standing(e)
    BY <1>6
  <2> QED BY <1>2, <2>3, <2>4, <2>5, ImageStays
<1>7. CASE g = f /\ d = c
  <2>1. replies'[c] = replies[c]
    BY <1>4, <1>7
  <2>2. f \notin raced
    BY <1>1, <1>7 DEF InPicture
  <2> QED BY <1>2, <1>3, <1>7, <2>1, <2>2, DecisionTaken
<1>8. CASE g = f /\ d # c
  <2>1. Altering(c, f)
    BY <1>3, CarriesLess DEF Altering
  <2>2. visiting[d] = Home[f] /\ visiting[d] # NoRoom /\ f \notin raced
    BY <1>1, <1>8, ObjectsAssumption DEF InPicture
  <2>3. ~Reporting(d) => d \in Inside(Home[f])
    <3>1. d \in online
      BY <2>2 DEF ObjectsInv, Whereabouts
    <3>2. ~Reporting(d) => roomOf[d] = Home[f]
      BY <1>1, <2>2, UnseenClients
    <3> QED BY <3>1, <3>2 DEF Inside
  <2>4. \/ replies'[d] = Append(replies[d], m)
        \/ Reporting(d) /\ replies'[d] = replies[d]
    BY <1>4, <1>8, <2>3
  <2>5. requests'[d] = requests[d]
    BY <1>3, <1>8
  <2>6. \A e \in EntitiesOf(f) : /\ e \in EntitiesOf(f)'
                                 /\ Standing(e)' \in ThingsShown
                                 /\ <<Standing(e), m, Standing(e)'>> \in Hearing(f, e)
    BY <2>2
  <2> QED BY <1>2, <1>8, <2>1, <2>4, <2>5, <2>6, ChangeTold
<1> QED BY <1>6, <1>7, <1>8

(* What the server has for a thing, if no two clients changed it at once.      *)
LEMMA StandingTypes ==
    ASSUME ObjectsInv, AgreementInv, NEW f \in Things, f \notin raced, NEW e \in EntitiesOf(f)
    PROVE  /\ e \in DOMAIN object /\ object[e].form = f /\ Tallied(f, e)
           /\ object[e].lock \in Locks /\ object[e].items \in Nat
           /\ Standing(e) \in ThingsShown
<1>1. e \in DOMAIN object /\ object[e].form = f /\ Tallied(f, e)
  BY DEF EntitiesOf, AgreementInv
<1>2. object[e].lock \in Locks /\ object[e].items \in Nat
  BY <1>1 DEF Tallied, ObjectsInv, Records
<1> QED BY <1>1, <1>2 DEF Standing, ThingsShown

LEMMA LockKeepsAgreement ==
    ASSUME ObjectsInv, AgreementInv, NEW c \in Clients, OnLockChange(c)
    PROVE  AgreementInv'
<1>1. PICK m : m = Head(requests[c])
  OBVIOUS
<1>2. PICK f : f = m.thing
  OBVIOUS
<1>3. /\ Receipt(c, "lock")
      /\ object' = [e \in DOMAIN object |->
                       IF object[e].form = f THEN [object[e] EXCEPT !.lock = m.lock]
                       ELSE object[e]]
      /\ replies' = Posted(replies, Inside(Home[f]) \ {c}, m)
      /\ strayed' = strayed \cup Unseen(Home[f])
      /\ UNCHANGED <<nextObject, roomOf, online, visiting, shown, serverId, raced>>
  BY <1>1, <1>2 DEF OnLockChange
<1>4. /\ requests[c] \in Seq(Requests)
      /\ requests[c] # <<>> /\ requests'[c] = Tail(requests[c])
      /\ m \in Requests /\ m.type = "lock"
      /\ \A d \in Clients :
            \/ requests'[d] = requests[d]
            \/ requests[d] # <<>> /\ requests'[d] = Tail(requests[d])
      /\ \A K : m \in K => \A d \in Clients : Idles(requests[d], requests'[d], K)
  BY <1>1, <1>3, ReadRequests
<1>5. f \in Things /\ m.lock \in Locks /\ m \in Replies
  BY <1>2, <1>4, RequestFields
<1>6. m \in ChangesOf(f) /\ m \notin Verdicts
  <2>1. m \in ChangeMessages
    BY <1>4 DEF Requests, ChangeMessages
  <2> QED BY <1>2, <2>1, KindsOfMessages DEF ChangesOf
<1>7. ObjectsInv'
  BY LockKeepsInv
<1>8. /\ DOMAIN object' = DOMAIN object
      /\ \A e \in DOMAIN object :
            /\ object'[e].form = object[e].form /\ object'[e].items = object[e].items
            /\ object'[e].lock = IF object[e].form = f THEN m.lock ELSE object[e].lock
  <2>1. \A e \in DOMAIN object : object[e] \in [form : Things, lock : Locks, items : Int]
    BY DEF ObjectsInv, Records
  <2> QED BY <1>3, <2>1
<1>9. NumbersKept
  <2>1. nextObject' = nextObject /\ nextObject \in Nat
    BY <1>3 DEF ObjectsInv, Records
  <2> QED BY <1>8, <2>1 DEF NumbersKept
<1>10. \A g \in Things : \A e : e \in EntitiesOf(g)' <=> e \in EntitiesOf(g)
  BY <1>8 DEF EntitiesOf
<1>11. ASSUME NEW d \in Clients PROVE Departs(d)' /\ Denoting(d)'
  <2>1. Departs(d)'
    BY <1>3, <1>4, DepartsStays DEF AgreementInv
  <2>2. (\A g \in Things : Denotes(serverId[d][g], g))'
    BY <1>3, <1>7, <1>9, NumbersStay DEF AgreementInv
  <2>3. replies'[d] = replies[d] \/ replies'[d] = Append(replies[d], m)
    BY <1>3 DEF Posted
  <2>4. m \in Replies \ Misjudging'
    BY <1>5, <1>6, KindsStay DEF Misjudging
  <2>5. Denoting(d)'
    BY <1>4, <1>7, <1>9, <2>2, <2>3, <2>4, DenotingStays DEF AgreementInv
  <2> QED BY <2>1, <2>5
<1>12. ASSUME NEW g \in Things, g \notin raced', NEW e \in EntitiesOf(g)' PROVE Tallied(g, e)'
  <2>1. e \in EntitiesOf(g) /\ g \notin raced
    BY <1>3, <1>10, <1>12
  <2>2. Tallied(g, e) /\ object'[e].items = object[e].items
    BY <1>8, <2>1 DEF AgreementInv, EntitiesOf
  <2>3. m \notin Orders(g, e)
    BY <1>4 DEF Orders
  <2>4. \A d \in Clients : Idles(requests[d], requests'[d], Requests \ Orders(g, e))
    BY <1>4, <2>3
  <2> QED BY <2>2, <2>4, TalliedStays
<1>13. ASSUME NEW e \in EntitiesOf(f), f \notin raced
       PROVE  /\ Standing(e)' \in ThingsShown
              /\ <<Standing(e), m, Standing(e)'>> \in Hearing(f, e)
              /\ \A z : <<Standing(e), m, z>> \in Obeying(f, e) => z = Standing(e)'
  <2>1. PICK x : x = Standing(e)
    OBVIOUS
  <2>2. PICK y : y = Standing(e)'
    OBVIOUS
  <2>3. /\ e \in DOMAIN object /\ object[e].form = f
        /\ object[e].lock \in Locks /\ object[e].items \in Nat /\ x \in ThingsShown
    BY <1>5, <1>13, <2>1, StandingTypes
  <2>4. y = [lock |-> m.lock, items |-> object[e].items]
    BY <1>8, <2>2, <2>3 DEF Standing
  <2>5. x.items = object[e].items
    BY <2>1 DEF Standing
  <2>6. y \in ThingsShown
    BY <1>5, <2>3, <2>4 DEF ThingsShown
  <2>7. y = Requested(f, e, m, x) /\ y = Replied(f, e, m, x) /\ m \notin Judging(f)
    BY <1>4, <1>6, <2>4, <2>5, KindsOfMessages DEF Requested, Replied
  <2>8. <<x, m, y>> \in Hearing(f, e)
    BY <1>5, <2>3, <2>6, <2>7, WaysOfMessages
  <2>9. \A z : <<x, m, z>> \in Obeying(f, e) => z = y
    BY <2>7 DEF Obeying
  <2> QED BY <2>1, <2>2, <2>6, <2>8, <2>9
<1>14. \A g \in Things : \A e \in EntitiesOf(g) :
          e \in EntitiesOf(g)' /\ (g # f => Standing(e)' = Standing(e))
  BY <1>8, <1>10 DEF EntitiesOf, Standing
<1>15. ASSUME NEW d \in Clients, NEW g \in Things, InPicture(d, g)' PROVE Imaged(d, g)'
  BY <1>1, <1>3, <1>5, <1>6, <1>13, <1>14, <1>15, ChangeSpreads
<1> QED BY <1>11, <1>12, <1>15 DEF AgreementInv


(* An order to put in or take out can be carried out, and counts.              *)
LEMMA OrderCounted ==
    ASSUME ObjectsInv, NEW c \in Clients, NEW f \in Things, NEW e, Tallied(f, e),
           NEW type, Receipt(c, type), Head(requests[c]) \in Orders(f, e),
           NEW n, n = object[e].items + Head(requests[c]).count
    PROVE  /\ n \in Nat
           /\ object'[e].items = n => Tallied(f, e)'
<1> DEFINE s == requests[c]
           x == object[e].items
<1>1. /\ s \in Seq(Requests) /\ s # <<>> /\ requests'[c] = Tail(s) /\ Head(s) \in Requests
      /\ \A d \in Clients : \A K : Carries(requests'[d], K) => Carries(requests[d], K)
  BY ReadRequests
<1>2. Carries(s, Orders(f, e))
  <2> HIDE DEF s
  <2> QED BY <1>1, CarriesLess DEF s
<1>3. x \in Nat /\ \A b \in Clients \ {c} : ~Carries(requests[b], Orders(f, e))
  BY <1>2 DEF Tallied
<1>4. PICK k \in Nat : Leads(s, Nat, Tallies(f, e), x, k)
  BY <1>2 DEF Tallied
<1>5. PICK z \in Nat : <<x, Head(s), z>> \in Tallies(f, e)
                       /\ Leads(Tail(s), Nat, Tallies(f, e), z, k)
  <2> HIDE DEF s, x
  <2> QED BY <1>1, <1>4, LeadsFrom
<1>6. z = n
  BY <1>1, <1>3, <1>5, WaysOfMessages
<1>7. ASSUME object'[e].items = n PROVE Tallied(f, e)'
  <2>1. ASSUME NEW d \in Clients, Carries(requests'[d], Orders(f, e))
        PROVE  /\ \A b \in Clients \ {d} : ~Carries(requests'[b], Orders(f, e))
               /\ Leads(requests'[d], Nat, Tallies(f, e), n, k)
    <3>1. d = c
      BY <1>1, <1>3, <2>1
    <3> QED BY <1>1, <1>3, <1>5, <1>6, <3>1
  <2> QED BY <1>6, <1>7, <2>1, KindsStay DEF Tallied
<1> QED BY <1>6, <1>7

LEMMA ItemsKeepsAgreement ==
    ASSUME ObjectsInv, AgreementInv, NEW c \in Clients, OnInventoryChanges(c)
    PROVE  AgreementInv'
<1>1. PICK m : m = Head(requests[c])
  OBVIOUS
<1>2. PICK f : f = m.thing
  OBVIOUS
<1>3. /\ Receipt(c, "items")
      /\ UNCHANGED <<nextObject, roomOf, online, visiting, shown, serverId, raced>>
      /\ IF m.id \in DOMAIN object
         THEN /\ object' = [object EXCEPT ![m.id].items = AddOrRemoveEntry(@, m.count)]
              /\ replies' = Posted(replies, Inside(Home[object[m.id].form]) \ {c}, m)
              /\ strayed' = strayed \cup Unseen(Home[object[m.id].form])
         ELSE UNCHANGED <<object, replies, strayed>>
  BY <1>1 DEF OnInventoryChanges
<1>4. /\ requests[c] \in Seq(Requests)
      /\ requests[c] # <<>> /\ requests'[c] = Tail(requests[c])
      /\ m \in Requests /\ m.type = "items"
      /\ \A d \in Clients : d # c => requests'[d] = requests[d]
      /\ \A d \in Clients :
            \/ requests'[d] = requests[d]
            \/ requests[d] # <<>> /\ requests'[d] = Tail(requests[d])
      /\ \A d \in Clients : \A K : Carries(requests'[d], K) => Carries(requests[d], K)
      /\ \A K : m \in K => \A d \in Clients : Idles(requests[d], requests'[d], K)
  BY <1>1, <1>3, ReadRequests
<1>5. f \in Things /\ m.id \in Nat /\ m.count \in Int /\ m \in Replies
  BY <1>2, <1>4, RequestFields, ReplyFields
<1>6. m \in ChangeMessages /\ m \in ChangesOf(f) /\ m \notin Verdicts /\ m \notin CellReports
  <2>1. m \in ChangeMessages
    BY <1>4 DEF Requests, ChangeMessages
  <2> QED BY <1>2, <2>1, KindsOfMessages DEF ChangesOf
<1>7. ObjectsInv'
  BY ItemsKeepInv
<1>8. /\ DOMAIN object' = DOMAIN object
      /\ \A e \in DOMAIN object :
            /\ object'[e].form = object[e].form /\ object'[e].lock = object[e].lock
            /\ object'[e].items = IF e = m.id THEN AddOrRemoveEntry(object[e].items, m.count)
                                  ELSE object[e].items
  <2>1. \A e \in DOMAIN object : object[e] \in [form : Things, lock : Locks, items : Int]
    BY DEF ObjectsInv, Records
  <2> QED BY <1>3, <2>1
<1>9. NumbersKept
  <2>1. nextObject' = nextObject /\ nextObject \in Nat
    BY <1>3 DEF ObjectsInv, Records
  <2> QED BY <1>8, <2>1 DEF NumbersKept
<1>10. \A g \in Things : \A e : e \in EntitiesOf(g)' <=> e \in EntitiesOf(g)
  BY <1>8 DEF EntitiesOf
<1>11. ASSUME NEW d \in Clients PROVE Departs(d)' /\ Denoting(d)'
  <2>1. Departs(d)'
    BY <1>3, <1>4, DepartsStays DEF AgreementInv
  <2>2. (\A g \in Things : Denotes(serverId[d][g], g))'
    BY <1>3, <1>7, <1>9, NumbersStay DEF AgreementInv
  <2>3. replies'[d] = replies[d] \/ replies'[d] = Append(replies[d], m)
    BY <1>3 DEF Posted
  <2>4. m \in Replies \ Misjudging'
    BY <1>5, <1>6, KindsStay DEF Misjudging
  <2>5. Denoting(d)'
    BY <1>4, <1>7, <1>9, <2>2, <2>3, <2>4, DenotingStays DEF AgreementInv
  <2> QED BY <2>1, <2>5
<1>12. m.id \in DOMAIN object => object[m.id].form = f
  <2>1. Carries(requests[c], {m})
    BY <1>1, <1>4, CarriesLess
  <2>2. m \notin Misdirected
    BY <2>1 DEF AgreementInv, Denoting, Carries
  <2> QED BY <1>2, <1>4, <1>6, <2>2 DEF Misdirected, Denotes
<1>13. ASSUME NEW e \in EntitiesOf(f), f \notin raced, e = m.id
       PROVE  /\ object[e].items + m.count \in Nat
              /\ object'[e].items = object[e].items + m.count
              /\ AddOrRemoveItem(object[e].items, m.count) = object[e].items + m.count
              /\ Tallied(f, e)'
  <2>1. e \in DOMAIN object /\ Tallied(f, e) /\ object[e].items \in Nat
    BY <1>5, <1>13, StandingTypes
  <2>2. m \in Orders(f, e)
    BY <1>4, <1>6, <1>13 DEF Orders
  <2>3. PICK n : n = object[e].items + m.count
    OBVIOUS
  <2>4. n \in Nat /\ (object'[e].items = n => Tallied(f, e)')
    BY <1>1, <1>3, <1>5, <2>1, <2>2, <2>3, OrderCounted
  <2>5. /\ AddOrRemoveEntry(object[e].items, m.count) = n
        /\ AddOrRemoveItem(object[e].items, m.count) = n
    BY <1>5, <2>1, <2>3, <2>4 DEF AddOrRemoveEntry, AddOrRemoveItem
  <2>6. object'[e].items = n
    BY <1>8, <1>13, <2>1, <2>5
  <2> QED BY <2>3, <2>4, <2>5, <2>6
<1>14. ASSUME NEW g \in Things, g \notin raced', NEW e \in EntitiesOf(g)' PROVE Tallied(g, e)'
  <2>1. e \in EntitiesOf(g) /\ g \notin raced
    BY <1>3, <1>10, <1>14
  <2>2. Tallied(g, e) /\ e \in DOMAIN object /\ object[e].form = g
    BY <2>1 DEF AgreementInv, EntitiesOf
  <2>3. CASE e = m.id
    BY <1>12, <1>13, <2>1, <2>2, <2>3
  <2>4. CASE e # m.id
    <3>1. object'[e].items = object[e].items
      BY <1>8, <2>2, <2>4
    <3>2. m \notin Orders(g, e)
      BY <2>4 DEF Orders
    <3>3. \A d \in Clients : Idles(requests[d], requests'[d], Requests \ Orders(g, e))
      BY <1>4, <3>2
    <3> QED BY <2>2, <3>1, <3>3, TalliedStays
  <2> QED BY <2>3, <2>4
<1>15. \A g \in Things : \A e \in EntitiesOf(g) :
          /\ e \in EntitiesOf(g)' /\ e \in DOMAIN object /\ object[e].form = g
          /\ e # m.id => Standing(e)' = Standing(e)
  BY <1>8, <1>10 DEF EntitiesOf, Standing
<1>16. ASSUME m.id \in DOMAIN object, NEW d \in Clients, NEW g \in Things, InPicture(d, g)'
       PROVE  Imaged(d, g)'
  <2>1. /\ replies' = Posted(replies, Inside(Home[f]) \ {c}, m)
        /\ strayed' = strayed \cup Unseen(Home[f])
    BY <1>3, <1>12, <1>16
  <2>2. ASSUME NEW e \in EntitiesOf(f), f \notin raced
        PROVE  /\ Standing(e)' \in ThingsShown
               /\ <<Standing(e), m, Standing(e)'>> \in Hearing(f, e)
               /\ \A z : <<Standing(e), m, z>> \in Obeying(f, e) => z = Standing(e)'
    <3>1. PICK x : x = Standing(e)
      OBVIOUS
    <3>2. PICK y : y = Standing(e)'
      OBVIOUS
    <3>3. /\ e \in DOMAIN object /\ object[e].form = f
          /\ object[e].lock \in Locks /\ object[e].items \in Nat /\ x \in ThingsShown
      BY <1>5, <2>2, <3>1, StandingTypes
    <3>4. e = m.id
      BY <1>12, <1>16, <3>3 DEF ObjectsInv, Records
    <3>5. PICK n : n = object[e].items + m.count
      OBVIOUS
    <3>6. /\ n \in Nat /\ object'[e].items = n
          /\ AddOrRemoveItem(object[e].items, m.count) = n
      BY <1>13, <2>2, <3>4, <3>5
    <3>7. y = [lock |-> object[e].lock, items |-> n]
      BY <1>8, <3>2, <3>3, <3>6 DEF Standing
    <3>8. x.items = object[e].items /\ x.lock = object[e].lock
      BY <3>1 DEF Standing
    <3>9. y \in ThingsShown
      BY <3>3, <3>6, <3>7 DEF ThingsShown
    <3>10. y = Requested(f, e, m, x) /\ y = Replied(f, e, m, x) /\ m \notin Judging(f)
      BY <1>4, <1>6, <3>4, <3>5, <3>6, <3>7, <3>8, KindsOfMessages DEF Requested, Replied
    <3>11. <<x, m, y>> \in Hearing(f, e)
      BY <1>5, <3>3, <3>9, <3>10, WaysOfMessages
    <3>12. \A z : <<x, m, z>> \in Obeying(f, e) => z = y
      BY <3>10 DEF Obeying
    <3> QED BY <3>1, <3>2, <3>9, <3>11, <3>12
  <2>3. \A h \in Things : \A e \in EntitiesOf(h) :
           e \in EntitiesOf(h)' /\ (h # f => Standing(e)' = Standing(e))
    BY <1>12, <1>15
  <2>4. /\ visiting' = visiting /\ shown' = shown /\ serverId' = serverId /\ raced' = raced
    BY <1>3
  <2> QED BY <1>1, <1>3, <1>5, <1>6, <1>16, <2>1, <2>2, <2>3, <2>4, ChangeSpreads
<1>17. ASSUME m.id \notin DOMAIN object, NEW d \in Clients, NEW g \in Things, InPicture(d, g)'
       PROVE  Imaged(d, g)'
  <2>1. replies' = replies /\ strayed' = strayed /\ object' = object
    BY <1>3, <1>17
  <2>2. Imaged(d, g)
    BY <1>3, <1>17, <2>1 DEF InPicture, AgreementInv
  <2>3. \A e \in EntitiesOf(g) : e \in EntitiesOf(g)' /\ Standing(e)' = Standing(e) /\ e # m.id
    BY <1>15, <1>17
  <2>4. CASE d = c /\ g = f
    <3>1. ASSUME NEW e \in EntitiesOf(f), NEW z, <<Standing(e), m, z>> \in Obeying(f, e)
          PROVE  z = Standing(e)'
      <4>1. z = Requested(f, e, m, Standing(e))
        BY <3>1 DEF Obeying
      <4>2. e # m.id /\ Standing(e)' = Standing(e)
        BY <2>3, <2>4
      <4> QED BY <1>4, <4>1, <4>2 DEF Requested
    <3> QED BY <1>1, <1>3, <1>4, <1>6, <2>1, <2>2, <2>3, <2>4, <3>1, DecisionTaken
  <2>5. CASE ~(d = c /\ g = f)
    <3>1. d # c \/ m \in Requests \ (CellReports \cup ChangesOf(g))
      BY <1>4, <1>6, <2>5 DEF ChangesOf
    <3>2. /\ Idles(requests[d], requests'[d], Requests \ (CellReports \cup ChangesOf(g)))
          /\ Idles(replies[d], replies'[d], Replies \ (Verdicts \cup ChangesOf(g)))
      BY <1>4, <2>1, <3>1, QueueIdles
    <3>3. \A b \in Clients : Carries(requests'[b], ChangesOf(g)) => Altering(b, g)
      BY <1>4 DEF Altering
    <3> QED BY <1>3, <2>2, <2>3, <3>2, <3>3, ImageStays
  <2> QED BY <2>4, <2>5
<1> QED BY <1>11, <1>14, <1>16, <1>17 DEF AgreementInv

(* The first message to c has been read.                                       *)
LEMMA ReadReplies ==
    ASSUME ObjectsInv, NEW c \in Clients, NEW type, Receives(c, type)
    PROVE  /\ replies[c] \in Seq(Replies)
           /\ replies[c] # <<>> /\ replies'[c] = Tail(replies[c])
           /\ \A d \in Clients : d # c => replies'[d] = replies[d]
           /\ Head(replies[c]) \in Replies /\ Head(replies[c]).type = type
           /\ UNCHANGED <<object, nextObject, roomOf, online, requests, visiting>>
<1>1. /\ replies \in [Clients -> Seq(Replies)] /\ replies[c] # <<>>
      /\ replies' = Read(replies, c)
      /\ UNCHANGED <<object, nextObject, roomOf, online, requests, visiting>>
  BY DEF ObjectsInv, Messages, Receives
<1>2. replies'[c] = Tail(replies[c]) /\ \A d \in Clients : d # c => replies'[d] = replies[d]
  BY <1>1 DEF Read
<1>3. Head(replies[c]) \in Replies /\ Head(replies[c]).type = type
  BY ReceivesTypes
<1> QED BY <1>1, <1>2, <1>3

(* What a client reads does not bear on what the server knows.                 *)
LEMMA ReadingKeeps ==
    ASSUME ObjectsInv, ObjectsInv', AgreementInv, NEW c \in Clients, NEW type, Receives(c, type),
           raced \subseteq raced',
           \A d \in Clients : \/ serverId'[d] = serverId[d]
                              \/ \A f \in Things : Denotes(serverId'[d][f], f)
    PROVE  /\ \A d \in Clients : Departs(d)' /\ Denoting(d)'
           /\ \A f \in Things : f \notin raced' => \A e \in EntitiesOf(f)' : Tallied(f, e)'
<1>1. /\ replies[c] \in Seq(Replies)
      /\ replies[c] # <<>> /\ replies'[c] = Tail(replies[c])
      /\ \A d \in Clients : d # c => replies'[d] = replies[d]
      /\ UNCHANGED <<object, nextObject, requests, visiting>>
  BY ReadReplies
<1>2. nextObject \in Nat
  BY DEF ObjectsInv, Records
<1>3. NumbersKept
  BY <1>1, <1>2 DEF NumbersKept
<1>4. ASSUME NEW d \in Clients PROVE Departs(d)' /\ Denoting(d)'
  <2>1. Departs(d)'
    BY <1>1, DepartsStays DEF AgreementInv
  <2>2. \A f \in Things : Denotes(serverId'[d][f], f)
    BY DEF AgreementInv, Denoting
  <2>3. (\A f \in Things : Denotes(serverId[d][f], f))'
    BY <1>1, <2>2 DEF Denotes
  <2>4. /\ requests'[d] \in {<<>>, requests[d]}
        /\ \/ replies'[d] \in {<<>>, replies[d]}
           \/ replies[d] # <<>> /\ replies'[d] = Tail(replies[d])
    BY <1>1
  <2>5. Denoting(d)'
    BY <1>3, <2>3, <2>4, DenotingStays DEF AgreementInv
  <2> QED BY <2>1, <2>5
<1>5. ASSUME NEW f \in Things, f \notin raced', NEW e \in EntitiesOf(f)' PROVE Tallied(f, e)'
  <2>1. f \notin raced /\ e \in EntitiesOf(f) /\ object'[e].items = object[e].items
    BY <1>1, <1>5 DEF EntitiesOf
  <2>2. \A d \in Clients : Idles(requests[d], requests'[d], Requests \ Orders(f, e))
    BY <1>1, QueueIdles
  <2> QED BY <2>1, <2>2, TalliedStays DEF AgreementInv
<1> QED BY <1>4, <1>5

LEMMA ResponseKeepsAgreement ==
    ASSUME ObjectsInv, AgreementInv, NEW c \in Clients, OnAssignObjectsResponse(c)
    PROVE  AgreementInv'
<1>1. PICK a : a = Head(replies[c])
  OBVIOUS
<1>2. PICK things : things = a.things
  OBVIOUS
<1>3. /\ Receives(c, "assigned")
      /\ shown' = [shown EXCEPT ![c] = AfterAnswer(c, things)]
      /\ serverId' = [serverId EXCEPT ![c] =
                        [f \in Things |-> IF f \in DOMAIN things THEN things[f].id ELSE @[f]]]
      /\ strayed' = IF \E f \in DOMAIN things :
                          ~things[f].first /\ Unapplied(c, things[f].thing, f)
                    THEN strayed \cup {c} ELSE strayed
      /\ raced' = raced
  BY <1>1, <1>2 DEF OnAssignObjectsResponse
<1>4. /\ replies[c] \in Seq(Replies)
      /\ replies[c] # <<>> /\ replies'[c] = Tail(replies[c])
      /\ \A d \in Clients : d # c => replies'[d] = replies[d]
      /\ a \in Replies /\ a.type = "assigned"
      /\ UNCHANGED <<object, nextObject, roomOf, online, requests, visiting>>
  BY <1>1, <1>3, ReadReplies
<1>5. ObjectsInv'
  BY ResponseKeepsInv
<1>6. a \in Verdicts
  BY <1>4 DEF Verdicts
<1>7. /\ \A d \in Clients : d # c => shown'[d] = shown[d] /\ serverId'[d] = serverId[d]
      /\ \A f \in Things : /\ shown'[c][f] = AfterAnswer(c, things)[f]
                           /\ serverId'[c][f] = IF f \in DOMAIN things THEN things[f].id
                                                ELSE serverId[c][f]
  BY <1>3 DEF ObjectsInv, Games
<1>8. \A f \in Things : Denotes(serverId'[c][f], f)
  <2>1. Carries(replies[c], {a})
    BY <1>1, <1>4, CarriesLess
  <2>2. a \notin Misjudging /\ \A f \in Things : Denotes(serverId[c][f], f)
    BY <2>1 DEF AgreementInv, Denoting, Carries
  <2>3. \A f \in DOMAIN things : Denotes(things[f].id, f)
    BY <1>2, <1>6, <2>2 DEF Misjudging
  <2> QED BY <1>7, <2>2, <2>3
<1>9. /\ \A d \in Clients : Departs(d)' /\ Denoting(d)'
      /\ \A f \in Things : f \notin raced' => \A e \in EntitiesOf(f)' : Tallied(f, e)'
  BY <1>3, <1>5, <1>7, <1>8, ReadingKeeps
<1>10. \A e : Standing(e)' = Standing(e) /\ \A f : e \in EntitiesOf(f)' <=> e \in EntitiesOf(f)
  BY <1>4 DEF Standing, EntitiesOf
<1>11. ASSUME NEW d \in Clients, NEW f \in Things, InPicture(d, f)' PROVE Imaged(d, f)'
  <2>1. InPicture(d, f) /\ Imaged(d, f) /\ d \notin strayed'
    BY <1>3, <1>4, <1>11 DEF InPicture, AgreementInv
  <2>2. CASE d # c
    <3>1. requests'[d] = requests[d] /\ replies'[d] = replies[d]
      BY <1>4, <2>2
    <3>2. /\ Idles(requests[d], requests'[d], Requests \ (CellReports \cup ChangesOf(f)))
          /\ Idles(replies[d], replies'[d], Replies \ (Verdicts \cup ChangesOf(f)))
      BY <3>1, QueueIdles
    <3>3. \A b \in Clients : Carries(requests'[b], ChangesOf(f)) => Altering(b, f)
      BY <1>4 DEF Altering
    <3> QED BY <1>7, <1>10, <2>1, <2>2, <3>2, <3>3, ImageStays
  <2>3. CASE d = c
    <3> DEFINE p == replies[c]
               x == shown[c][f]
    <3>1. p \in Seq(Replies) /\ p # <<>> /\ Head(p) = a /\ x \in ThingsShown
      BY <1>1, <1>4 DEF ObjectsInv, Games
    <3>2. Awaiting(c)
      <4> HIDE DEF p
      <4> QED BY <1>6, <3>1, CarriesLess DEF Awaiting, p
    <3>3. ~Outrun(c, f)
      <4> SUFFICES ASSUME Outrun(c, f) PROVE FALSE
        OBVIOUS
      <4>1. Single(p, Verdicts, Judging(f)) /\ Precedes(p, ChangesOf(f), Verdicts)
        BY DEF Outrun
      <4> HIDE DEF p
      <4> QED BY <1>6, <3>1, <4>1, SingleLess, PrecedesLess
    <3>4. PICK e \in EntitiesOf(f) : Answering(c, f, e)
      BY <2>1, <2>3, <3>2, <3>3 DEF Imaged, InReport, Hearkening, Deciding
    <3>5. /\ ~Reporting(c) /\ ~Altering(c, f) /\ Single(p, Verdicts, Judging(f))
          /\ Leads(p, ThingsShown, Hearing(f, e), x, Standing(e))
      BY <3>4 DEF Answering
    <3>6. a \in Judging(f) /\ ~Carries(Tail(p), Verdicts)
      <4> HIDE DEF p
      <4> QED BY <1>6, <3>1, <3>5, SingleLess
    <3>7. PICK z \in ThingsShown :
             /\ <<x, a, z>> \in Hearing(f, e)
             /\ Leads(Tail(p), ThingsShown, Hearing(f, e), z, Standing(e))
      <4> HIDE DEF p, x
      <4> QED BY <3>1, <3>5, LeadsFrom
    <3>8. /\ f \in DOMAIN things /\ things[f].id = e
          /\ z = IF things[f].first THEN x ELSE things[f].thing
      <4> HIDE DEF x
      <4>1. a.things[f].id = e /\ z = Replied(f, e, a, x)
        BY <1>4, <3>1, <3>6, <3>7, WaysOfMessages
      <4> QED BY <1>2, <3>6, <4>1 DEF Judging, Replied
    <3>9. shown'[c][f] = z
      <4>1. CASE things[f].first
        BY <1>7, <3>8, <4>1 DEF AfterAnswer
      <4>2. CASE ~things[f].first
        <5>1. ~Unapplied(c, z, f)
          BY <1>3, <2>1, <2>3, <3>8, <4>2
        <5>2. z.items \in Nat /\ z = [lock |-> z.lock, items |-> z.items]
          BY <3>7 DEF ThingsShown
        <5>3. SetInventory(z.items) = z.items
          BY <5>2 DEF SetInventory, AddOrRemoveItem
        <5> QED BY <1>7, <3>8, <4>2, <5>1, <5>2, <5>3 DEF AfterAnswer
      <4> QED BY <4>1, <4>2
    <3>10. e \in EntitiesOf(f)' /\ Standing(e)' = Standing(e) /\ serverId'[c][f] = e
      BY <1>7, <1>10, <3>8
    <3>11. /\ ~Reporting(c)' /\ ~Altering(c, f)' /\ ~Awaiting(c)'
           /\ replies'[c] = Tail(p)
      BY <1>4, <3>5, <3>6, KindsStay DEF Reporting, Altering, Awaiting
    <3>12. Hearkening(c, f, e)'
      BY <3>7, <3>9, <3>10, <3>11, KindsStay DEF Hearkening
    <3> QED BY <2>3, <3>10, <3>12 DEF Imaged
  <2> QED BY <2>2, <2>3
<1> QED BY <1>9, <1>11 DEF AgreementInv

(* What a client is told of a change, it shows.                                *)
LEMMA NoticeKeepsAgreement ==
    ASSUME ObjectsInv, ObjectsInv', AgreementInv, NEW c \in Clients,
           NEW type \in {"lock", "items"}, Receives(c, type),
           NEW m, m = Head(replies[c]), NEW f, f = m.thing,
           Outdates(c, f), UNCHANGED <<serverId, strayed>>,
           \A d \in Clients, g \in Things : d # c \/ g # f => shown'[d][g] = shown[d][g],
           shown'[c][f] = Replied(f, serverId[c][f], m, shown[c][f])
    PROVE  AgreementInv'
<1>1. /\ replies[c] \in Seq(Replies)
      /\ replies[c] # <<>> /\ replies'[c] = Tail(replies[c])
      /\ \A d \in Clients : d # c => replies'[d] = replies[d]
      /\ m \in Replies /\ m.type = type
      /\ UNCHANGED <<object, nextObject, roomOf, online, requests, visiting>>
  BY ReadReplies
<1>2. f \in Things
  BY <1>1, ReplyFields
<1>3. m \in ChangesOf(f) /\ m \notin Verdicts
  <2>1. m \in ChangeMessages
    BY <1>1 DEF Replies, ChangeMessages
  <2> QED BY <2>1, KindsOfMessages DEF ChangesOf
<1>4. raced \subseteq raced' /\ (f \notin raced' => ~Unanswered(c))
  BY DEF Outdates
<1>5. /\ \A d \in Clients : Departs(d)' /\ Denoting(d)'
      /\ \A g \in Things : g \notin raced' => \A e \in EntitiesOf(g)' : Tallied(g, e)'
  BY <1>4, ReadingKeeps
<1>6. \A e : Standing(e)' = Standing(e) /\ \A g : e \in EntitiesOf(g)' <=> e \in EntitiesOf(g)
  BY <1>1 DEF Standing, EntitiesOf
<1>7. ASSUME NEW d \in Clients, NEW g \in Things, InPicture(d, g)' PROVE Imaged(d, g)'
  <2>1. Imaged(d, g)
    BY <1>1, <1>4, <1>7 DEF InPicture, AgreementInv
  <2>2. CASE ~(d = c /\ g = f)
    <3>1. d # c \/ m \in Replies \ (Verdicts \cup ChangesOf(g))
      BY <1>1, <1>3, <2>2 DEF ChangesOf
    <3>2. /\ Idles(requests[d], requests'[d], Requests \ (CellReports \cup ChangesOf(g)))
          /\ Idles(replies[d], replies'[d], Replies \ (Verdicts \cup ChangesOf(g)))
      BY <1>1, <3>1, QueueIdles
    <3>3. \A b \in Clients : Carries(requests'[b], ChangesOf(g)) => Altering(b, g)
      BY <1>1 DEF Altering
    <3>4. shown'[d][g] = shown[d][g]
      BY <2>2
    <3> QED BY <1>6, <2>1, <3>2, <3>3, <3>4, ImageStays
  <2>3. CASE d = c /\ g = f
    <3> DEFINE p == replies[c]
               x == shown[c][f]
    <3>1. p \in Seq(Replies) /\ p # <<>> /\ Head(p) = m /\ x \in ThingsShown
      BY <1>1, <1>2 DEF ObjectsInv, Games
    <3>2. ~Reporting(c) /\ ~Awaiting(c)
      BY <1>4, <1>7, <2>3, UnansweredClients DEF InPicture
    <3>3. Carries(p, ChangesOf(f))
      <4> HIDE DEF p
      <4> QED BY <1>3, <3>1, CarriesLess
    <3>4. ~InReport(c, f)
      BY <3>2, SingleIsCarried DEF InReport, Reporting
    <3>5. ~Single(p, Verdicts, Judging(f))
      BY <3>2, SingleIsCarried DEF Awaiting
    <3>6. PICK e \in EntitiesOf(f) : Hearkening(c, f, e)
      BY <2>1, <2>3, <3>3, <3>4, <3>5 DEF Imaged, Outrun, Answering, Deciding
    <3>7. /\ serverId[c][f] = e /\ ~Altering(c, f)
          /\ Leads(p, ThingsShown, Hearing(f, e), x, Standing(e))
      BY <3>6 DEF Hearkening
    <3>8. PICK z \in ThingsShown :
             /\ <<x, m, z>> \in Hearing(f, e)
             /\ Leads(Tail(p), ThingsShown, Hearing(f, e), z, Standing(e))
      <4> HIDE DEF p, x
      <4> QED BY <3>1, <3>7, LeadsFrom
    <3>9. z = shown'[c][f]
      <4> HIDE DEF x
      <4>1. z = Replied(f, e, m, x)
        BY <1>1, <3>1, <3>8, WaysOfMessages
      <4> QED BY <3>7, <4>1 DEF x
    <3>10. ~Carries(Tail(p), Verdicts)
      <4> HIDE DEF p
      <4>1. ~Carries(p, Verdicts)
        BY <3>2 DEF Awaiting, p
      <4> QED BY <3>1, <4>1, CarriesLess
    <3>11. ~Reporting(c)' /\ ~Altering(c, f)' /\ ~Awaiting(c)' /\ replies'[c] = Tail(p)
      BY <1>1, <3>2, <3>7, <3>10, KindsStay DEF Reporting, Altering, Awaiting
    <3>12. Hearkening(c, f, e)' /\ e \in EntitiesOf(f)'
      BY <1>6, <3>7, <3>8, <3>9, <3>11, KindsStay DEF Hearkening
    <3> QED BY <2>3, <3>12 DEF Imaged
  <2> QED BY <2>2, <2>3
<1> QED BY <1>5, <1>7 DEF AgreementInv

LEMMA LockNotifyKeepsAgreement ==
    ASSUME ObjectsInv, AgreementInv, NEW c \in Clients, OnLockChangeNotify(c)
    PROVE  AgreementInv'
<1>1. PICK m : m = Head(replies[c])
  OBVIOUS
<1>2. PICK f : f = m.thing
  OBVIOUS
<1>3. /\ Receives(c, "lock") /\ shown' = [shown EXCEPT ![c][f].lock = m.lock]
      /\ Outdates(c, f) /\ UNCHANGED <<serverId, strayed>>
  BY <1>1, <1>2 DEF OnLockChangeNotify
<1>4. m \in Replies /\ m.type = "lock"
  BY <1>1, <1>3, ReadReplies
<1>5. f \in Things /\ m.lock \in Locks
  BY <1>2, <1>4, ReplyFields
<1>6. m \in ChangesOf(f) /\ m \notin Judging(f)
  <2>1. m \in ChangeMessages
    BY <1>4 DEF Replies, ChangeMessages
  <2> QED BY <1>2, <2>1, KindsOfMessages DEF ChangesOf
<1>7. shown \in [Clients -> [Things -> ThingsShown]]
  BY DEF ObjectsInv, Games
<1>8. \A d \in Clients, g \in Things : d # c \/ g # f => shown'[d][g] = shown[d][g]
  BY <1>3, <1>5, <1>7
<1>9. shown'[c][f] = Replied(f, serverId[c][f], m, shown[c][f])
  <2>1. shown'[c][f] = [shown[c][f] EXCEPT !.lock = m.lock]
    BY <1>3, <1>5, <1>7
  <2>2. PICK x \in ThingsShown : x = shown[c][f]
    BY <1>5, <1>7
  <2>3. [x EXCEPT !.lock = m.lock] = [lock |-> m.lock, items |-> x.items]
    BY <2>2 DEF ThingsShown
  <2> QED BY <1>4, <1>6, <2>1, <2>2, <2>3 DEF Replied
<1> QED BY <1>1, <1>2, <1>3, <1>8, <1>9, LockNotifyKeepsInv, NoticeKeepsAgreement

LEMMA ItemsNotifyKeepsAgreement ==
    ASSUME ObjectsInv, AgreementInv, NEW c \in Clients, OnNotifyInventoryChanges(c)
    PROVE  AgreementInv'
<1>1. PICK m : m = Head(replies[c])
  OBVIOUS
<1>2. PICK f : f = m.thing
  OBVIOUS
<1>3. /\ Receives(c, "items")
      /\ shown' = IF serverId[c][f] # m.id THEN shown
                  ELSE [shown EXCEPT ![c][f].items = AddOrRemoveItem(@, m.count)]
      /\ Outdates(c, f) /\ UNCHANGED <<serverId, strayed>>
  BY <1>1, <1>2 DEF OnNotifyInventoryChanges
<1>4. m \in Replies /\ m.type = "items"
  BY <1>1, <1>3, ReadReplies
<1>5. f \in Things
  BY <1>2, <1>4, ReplyFields
<1>6. m \in ChangesOf(f) /\ m \notin Judging(f)
  <2>1. m \in ChangeMessages
    BY <1>4 DEF Replies, ChangeMessages
  <2> QED BY <1>2, <2>1, KindsOfMessages DEF ChangesOf
<1>7. shown \in [Clients -> [Things -> ThingsShown]]
  BY DEF ObjectsInv, Games
<1>8. \A d \in Clients, g \in Things : d # c \/ g # f => shown'[d][g] = shown[d][g]
  BY <1>3, <1>5, <1>7
<1>9. shown'[c][f] = Replied(f, serverId[c][f], m, shown[c][f])
  <2>1. PICK x \in ThingsShown : x = shown[c][f]
    BY <1>5, <1>7
  <2>2. CASE serverId[c][f] # m.id
    BY <1>3, <1>4, <1>6, <2>2 DEF Replied
  <2>3. CASE serverId[c][f] = m.id
    <3>1. PICK k : k = AddOrRemoveItem(x.items, m.count)
      OBVIOUS
    <3>2. shown' = [shown EXCEPT ![c][f].items = k]
      BY <1>3, <2>1, <2>3, <3>1
    <3>3. shown'[c][f] = [x EXCEPT !.items = k]
      BY <1>5, <1>7, <2>1, <3>2
    <3>4. [x EXCEPT !.items = k] = [lock |-> x.lock, items |-> k]
      BY <2>1 DEF ThingsShown
    <3> QED BY <1>4, <1>6, <2>1, <2>3, <3>1, <3>3, <3>4 DEF Replied
  <2> QED BY <2>2, <2>3
<1>10. ObjectsInv'
  BY ItemsNotifyKeepsInv
<1>11. Receives(c, "items") /\ Outdates(c, f) /\ UNCHANGED <<serverId, strayed>>
  BY <1>3
<1> QED BY <1>1, <1>2, <1>8, <1>9, <1>10, <1>11, NoticeKeepsAgreement

LEMMA SendTwo ==
    ASSUME NEW S, NEW s \in Seq(S), NEW a \in S, NEW b \in S
    PROVE  /\ s \o <<a, b>> = Append(Append(s, a), b)
           /\ Append(s, a) \in Seq(S)
<1>1. <<a, b>> = Append(<<a>>, b) /\ Append(s, a) = s \o <<a>>
  OBVIOUS
<1> QED BY <1>1, AppendProperties

(* Who goes to a cell reports its things as it shows them.                     *)
LEMMA CellChangeKeepsAgreement ==
    ASSUME ObjectsInv, AgreementInv, NEW c \in Clients, NEW room \in Rooms, OnCellChange(c, room)
    PROVE  AgreementInv'
<1> DEFINE there == {f \in Things : Home[f] = room}
<1>1. PICK a : a = [type |-> "assign", room |-> room, things |-> [f \in there |-> shown[c][f]]]
  OBVIOUS
<1>2. PICK b : b = [type |-> "enter", room |-> room]
  OBVIOUS
<1>3. /\ visiting[c] # room
      /\ visiting' = [visiting EXCEPT ![c] = room]
      /\ requests' = [requests EXCEPT ![c] = @ \o <<a, b>>]
      /\ raced' = raced \cup {f \in there : Behind(c, f)}
      /\ strayed' = strayed \ {c}
      /\ UNCHANGED <<object, nextObject, roomOf, replies, shown, serverId>>
  BY <1>1, <1>2 DEF OnCellChange, Sends
<1>4. [f \in there |-> shown[c][f]] \in RoomReports
  <2>1. [f \in there |-> shown[c][f]] \in [there -> ThingsShown]
    BY DEF ObjectsInv, Games
  <2> QED BY <2>1 DEF RoomReports
<1>5. /\ a \in Requests /\ a \in CellReports /\ b \in Requests /\ b \notin CellReports
      /\ a \notin ChangeMessages /\ b \notin ChangeMessages
      /\ \A f \in there : a \in Recounting(f, shown[c][f])
  <2>1. a \in Requests /\ b \in Requests
    BY <1>1, <1>2, <1>4 DEF Requests
  <2>2. a.type = "assign" /\ b.type = "enter"
    BY <1>1, <1>2
  <2>3. \A f \in there : f \in DOMAIN a.things /\ a.things[f] = shown[c][f]
    BY <1>1
  <2> QED BY <2>1, <2>2, <2>3 DEF CellReports, ChangeMessages, Recounting
<1>6. PICK s : s = requests[c]
  OBVIOUS
<1>7. s \in Seq(Requests)
  BY <1>6 DEF ObjectsInv, Messages
<1>8. PICK u : u = Append(s, a)
  OBVIOUS
<1>9. /\ u \in Seq(Requests) /\ requests'[c] = Append(u, b)
      /\ visiting'[c] = room
      /\ \A d \in Clients : d # c => requests'[d] = requests[d] /\ visiting'[d] = visiting[d]
  <2>1. s \o <<a, b>> = Append(Append(s, a), b) /\ Append(s, a) \in Seq(Requests)
    BY <1>5, <1>7, SendTwo
  <2> QED BY <1>3, <1>6, <1>8, <2>1 DEF ObjectsInv, Messages, Whereabouts
<1>10. \A K : Carries(requests'[c], K) <=> Carries(s, K) \/ a \in K \/ b \in K
  <2>1. \A K : Carries(u, K) <=> Carries(s, K) \/ a \in K
    BY <1>5, <1>7, <1>8, CarriesMore
  <2>2. \A K : Carries(Append(u, b), K) <=> Carries(u, K) \/ b \in K
    BY <1>5, <1>9, CarriesMore
  <2> QED BY <1>9, <2>1, <2>2
<1>11. ObjectsInv'
  BY CellChangeKeepsInv
<1>12. NumbersKept
  <2>1. nextObject \in Nat
    BY DEF ObjectsInv, Records
  <2> QED BY <1>3, <2>1 DEF NumbersKept
<1>13. Departs(c)'
  <2> DEFINE far == Away(room)
             all == far \cup CellReports
  <2>1. Departs(c)' <=>
           (Carries(requests'[c], far) => Latest(requests'[c], all, CellReports))
    BY <1>9, KindsStay DEF Departs, Away
  <2>2. b \notin all
    BY <1>2, <1>5 DEF Away
  <2> HIDE DEF far
  <2>3. Latest(u, all, CellReports)
    BY <1>5, <1>7, <1>8, CarriesMore
  <2>4. Latest(Append(u, b), all, CellReports)
    BY <1>5, <1>9, <2>2, <2>3, CarriesMore
  <2> QED BY <1>9, <2>1, <2>4
<1>14. ASSUME NEW d \in Clients PROVE Departs(d)' /\ Denoting(d)'
  <2>1. Departs(d)'
    BY <1>9, <1>13, DepartsStays DEF AgreementInv
  <2>2. (\A f \in Things : Denotes(serverId[d][f], f))'
    BY <1>3, <1>11, <1>12, NumbersStay DEF AgreementInv
  <2>3. requests'[d] = requests[d] \/ ~Carries(requests'[d], Misdirected)
    BY <1>5, <1>6, <1>9, <1>10 DEF Misdirected, AgreementInv, Denoting
  <2>4. Denoting(d)'
    BY <1>3, <1>11, <1>12, <2>2, <2>3, DenotingStays DEF AgreementInv
  <2> QED BY <2>1, <2>4
<1>15. ASSUME NEW f \in Things, f \notin raced', NEW e \in EntitiesOf(f)' PROVE Tallied(f, e)'
  <2> DEFINE I == Requests \ Orders(f, e)
             x == object[e].items
  <2>1. Tallied(f, e)
    BY <1>3, <1>15 DEF AgreementInv, EntitiesOf
  <2>2. a \in I /\ b \in I /\ I \subseteq Requests
    BY <1>5, KindsOfMessages DEF ChangesOf
  <2>3. \A m \in I : \A v, w \in Nat : <<v, m, w>> \in Tallies(f, e) <=> w = v
    <3>1. \A m \in Requests : m \notin Orders(f, e) =>
             \A v, w \in Nat : <<v, m, w>> \in Tallies(f, e) <=> w = v
      BY WaysOfMessages
    <3> QED BY <3>1, Zenon
  <2>4. \A d \in Clients : Carries(requests'[d], Orders(f, e)) => Carries(requests[d], Orders(f, e))
    BY <1>6, <1>9, <1>10, <2>2
  <2> HIDE DEF I
  <2>5. ASSUME NEW n, Leads(s, Nat, Tallies(f, e), x, n)
        PROVE  Leads(requests'[c], Nat, Tallies(f, e), x, n)
    <3> HIDE DEF x
    <3>1. Idles(s, u, I) /\ Idles(u, Append(u, b), I)
      BY <1>8, <2>2, QueueIdles
    <3>2. Leads(u, Nat, Tallies(f, e), x, n)
      BY <1>7, <2>2, <2>3, <2>5, <3>1, IdleWay
    <3>3. PICK t : t = Append(u, b)
      OBVIOUS
    <3>4. Idles(u, t, I) /\ u \in Seq(Requests) /\ I \subseteq Requests
      BY <1>9, <2>2, <3>1, <3>3
    <3>5. Leads(t, Nat, Tallies(f, e), x, n)
      BY <2>3, <3>2, <3>4, IdleWay
    <3> QED BY <1>9, <3>3, <3>5
  <2>6. object'[e].items = object[e].items
    BY <1>3
  <2> QED BY <1>6, <1>9, <2>1, <2>4, <2>5, <2>6, KindsStay DEF Tallied
<1>16. \A f : \A d \in Clients : Carries(requests'[d], ChangesOf(f)) => Altering(d, f)
  BY <1>5, <1>6, <1>9, <1>10 DEF Altering, ChangesOf
<1>17. ASSUME NEW d \in Clients, NEW f \in Things, InPicture(d, f)' PROVE Imaged(d, f)'
  <2>1. f \notin raced'
    BY <1>17 DEF InPicture
  <2>2. CASE d # c
    <3>1. InPicture(d, f)
      BY <1>3, <1>9, <1>17, <2>2 DEF InPicture
    <3>2. requests'[d] = requests[d] /\ replies'[d] = replies[d]
      BY <1>3, <1>9, <2>2
    <3>3. /\ Idles(requests[d], requests'[d], Requests \ (CellReports \cup ChangesOf(f)))
          /\ Idles(replies[d], replies'[d], Replies \ (Verdicts \cup ChangesOf(f)))
      BY <3>2, QueueIdles
    <3>4. \A e \in EntitiesOf(f) : e \in EntitiesOf(f)' /\ Standing(e)' = Standing(e)
      BY <1>3 DEF EntitiesOf, Standing
    <3> QED BY <1>3, <1>16, <3>1, <3>3, <3>4, ImageStays DEF AgreementInv
  <2>3. CASE d = c
    <3>1. Home[f] = room /\ f \in there
      BY <1>9, <1>17, <2>3 DEF InPicture
    <3>2. ~Behind(c, f)
      BY <1>3, <2>1, <3>1
    <3>3. ~Reporting(c) /\ ~Awaiting(c)
      BY <3>2, NotBehind
    <3>4. ~Altering(c, f)
      <4> SUFFICES ASSUME Altering(c, f) PROVE FALSE
        OBVIOUS
      <4>1. ChangesOf(f) \subseteq Away(visiting[c])
        BY <1>3, <3>1, KindsOfMessages DEF ChangesOf, Away
      <4>2. Carries(requests[c], Away(visiting[c]))
        BY <4>1 DEF Altering, Carries
      <4>3. Latest(requests[c], Away(visiting[c]) \cup CellReports, CellReports)
        BY <4>2 DEF AgreementInv, Departs
      <4> QED BY <3>3, <4>3 DEF Latest, Reporting, Carries
    <3>5. Single(requests'[c], CellReports, Recounting(f, shown[c][f]))
      <4>1. Single(u, CellReports, Recounting(f, shown[c][f]))
        BY <1>5, <1>6, <1>7, <1>8, <3>1, <3>3, SingleMore DEF Reporting
      <4>2. Single(Append(u, b), CellReports, Recounting(f, shown[c][f]))
        BY <1>5, <1>9, <4>1, SingleMore
      <4> QED BY <1>9, <4>2
    <3>6. ~Awaiting(c)' /\ ~Altering(c, f)'
      BY <1>3, <1>16, <3>3, <3>4, KindsStay DEF Awaiting, Altering
    <3>7. InReport(c, f)'
      BY <1>3, <3>5, <3>6, KindsStay DEF InReport
    <3> QED BY <2>3, <3>7 DEF Imaged
  <2> QED BY <2>2, <2>3
<1> QED BY <1>14, <1>15, <1>17 DEF AgreementInv

(* The counts that orders lead to are those of the things they lead to.        *)
LEMMA CountsFollow ==
    ASSUME NEW f, NEW e, NEW s \in Seq(Requests), NEW x, NEW y,
           Leads(s, ThingsShown, Obeying(f, e), x, y)
    PROVE  Leads(s, Nat, Tallies(f, e), x.items, y.items)
<1> DEFINE n == Len(s)
<1>1. n \in Nat /\ \A i \in 1 .. n : s[i] \in Requests
  BY LenProperties
<1>2. PICK v \in [0 .. n -> ThingsShown] :
         /\ v[0] = x /\ v[n] = y
         /\ \A i \in 1 .. n : <<v[i - 1], s[i], v[i]>> \in Obeying(f, e)
  BY DEF Leads
<1> DEFINE w == [i \in 0 .. n |-> v[i].items]
<1> HIDE DEF n
<1>3. \A i \in 0 .. n : v[i].items \in Nat
  BY <1>2 DEF ThingsShown
<1>4. w \in [0 .. n -> Nat]
  BY <1>3
<1>5. w[0] = x.items /\ w[n] = y.items
  BY <1>1, <1>2
<1>6. ASSUME NEW i \in 1 .. n PROVE <<w[i - 1], s[i], w[i]>> \in Tallies(f, e)
  <2>1. i \in 0 .. n /\ i - 1 \in 0 .. n
    BY <1>1
  <2>2. v[i] = Requested(f, e, s[i], v[i - 1]) /\ v[i - 1] \in ThingsShown /\ v[i] \in ThingsShown
    BY <1>2, <2>1 DEF Obeying
  <2>3. s[i] \in ChangesOf(f) => s[i].type \in {"lock", "items"}
    BY DEF ChangesOf, ChangeMessages
  <2>4. v[i].items = IF s[i] \in Orders(f, e) THEN v[i - 1].items + s[i].count ELSE v[i - 1].items
    BY <2>2, <2>3 DEF Requested, Orders
  <2>5. w[i - 1] = v[i - 1].items /\ w[i] = v[i].items
    BY <2>1
  <2> HIDE DEF w
  <2>6. w[i - 1] \in Nat /\ w[i] \in Nat /\ s[i] \in Requests
    BY <1>1, <1>4, <2>1
  <2> QED BY <2>4, <2>5, <2>6, WaysOfMessages
<1> HIDE DEF w
<1> QED BY <1>4, <1>5, <1>6 DEF Leads, n

(* A client that is not behind with a thing is the one whose messages tell the *)
(* server what it shows.                                                       *)
LEMMA LeadingClients ==
    ASSUME ObjectsInv, NEW c \in Clients, NEW f \in Things, Imaged(c, f), ~Behind(c, f)
    PROVE  /\ ~Reporting(c) /\ ~Awaiting(c) /\ ~Carries(replies[c], ChangesOf(f))
           /\ \A d \in Clients \ {c} : ~Altering(d, f)
           /\ \E e \in EntitiesOf(f) :
                 /\ serverId[c][f] = e
                 /\ Leads(requests[c], ThingsShown, Obeying(f, e), Standing(e), shown[c][f])
<1> DEFINE s == requests[c]
           p == replies[c]
           x == shown[c][f]
<1>1. s \in Seq(Requests) /\ p \in Seq(Replies) /\ x \in ThingsShown
  BY DEF ObjectsInv, Messages, Games
<1>2. /\ ~Reporting(c) /\ ~Awaiting(c) /\ ~Carries(p, ChangesOf(f))
      /\ \A d \in Clients \ {c} : ~Altering(d, f)
  BY NotBehind
<1>3. ~InReport(c, f) /\ ~Single(p, Verdicts, Judging(f))
  BY <1>2, SingleIsCarried DEF InReport, Reporting, Awaiting
<1>4. PICK e \in EntitiesOf(f) : Hearkening(c, f, e) \/ Deciding(c, f, e)
  BY <1>3 DEF Imaged, Outrun, Answering
<1>5. serverId[c][f] = e
  BY <1>4 DEF Hearkening, Deciding
<1>6. CASE Deciding(c, f, e)
  BY <1>2, <1>5, <1>6 DEF Deciding
<1>7. CASE Hearkening(c, f, e)
  <2>1. ~Altering(c, f) /\ Leads(p, ThingsShown, Hearing(f, e), x, Standing(e))
    BY <1>7 DEF Hearkening
  <2>2. ASSUME NEW i \in 1 .. Len(p), NEW v \in ThingsShown, NEW w \in ThingsShown,
               <<v, p[i], w>> \in Hearing(f, e)
        PROVE  w = v
    <3>1. p[i] \in Replies /\ p[i] \notin ChangesOf(f) /\ p[i] \notin Verdicts
      BY <1>1, <1>2 DEF Carries, Awaiting
    <3> HIDE DEF p
    <3> QED BY <2>2, <3>1, WaysOfMessages
  <2>3. Standing(e) = x
    <3> HIDE DEF p, x
    <3> QED BY <1>1, <2>1, <2>2, LeadsBack
  <2>4. ASSUME NEW i \in 1 .. Len(s) PROVE <<x, s[i], x>> \in Obeying(f, e)
    <3>1. s[i] \in Requests /\ s[i] \notin ChangesOf(f)
      BY <1>1, <2>1 DEF Carries, Altering
    <3> QED BY <1>1, <3>1, WaysOfMessages
  <2>5. Leads(s, ThingsShown, Obeying(f, e), x, x)
    <3> HIDE DEF s, x
    <3> QED BY <1>1, <2>4, LeadsNowhere
  <2> QED BY <1>2, <1>5, <2>3, <2>5
<1> QED BY <1>4, <1>6, <1>7

(* What a player changes, the others in the cell will be told.                 *)
LEMMA ChangeKeepsAgreement ==
    ASSUME ObjectsInv, ObjectsInv', AgreementInv, NEW c \in Clients, NEW f \in Things, Changes(c, f),
           NEW m \in ChangesOf(f), m.type = "items" => m.id = serverId[c][f],
           \/ requests' = [requests EXCEPT ![c] = Append(@, m)]
           \/ requests' = requests /\ serverId[c][f] = 0,
           \A d \in Clients, g \in Things : d # c \/ g # f => shown'[d][g] = shown[d][g],
           shown'[c][f] = Requested(f, serverId[c][f], m, shown[c][f])
    PROVE  AgreementInv'
<1>1. /\ visiting[c] = Home[f]
      /\ raced' = IF Behind(c, f) \/ c \in strayed THEN raced \cup {f} ELSE raced
      /\ UNCHANGED <<object, nextObject, roomOf, online, replies, visiting, serverId, strayed>>
  BY DEF Changes
<1>2. /\ m \in Requests /\ m \notin CellReports /\ m \in ChangeMessages /\ m.thing = f
      /\ m.type = "items" => m.count \in Int
  BY KindsOfMessages, RequestFields DEF ChangesOf
<1>3. PICK s : s = requests[c]
  OBVIOUS
<1>4. /\ s \in Seq(Requests)
      /\ requests'[c] = Append(s, m) \/ (requests'[c] = s /\ serverId[c][f] = 0)
      /\ \A d \in Clients : d # c => requests'[d] = requests[d]
  BY <1>3 DEF ObjectsInv, Messages
<1>5. \A K : /\ Carries(requests'[c], K) => Carries(s, K) \/ m \in K
             /\ m \in K => Idles(s, requests'[c], K)
  <2>1. \A K : Carries(Append(s, m), K) <=> Carries(s, K) \/ m \in K
    BY <1>2, <1>4, CarriesMore
  <2>2. \A K : m \in K => Idles(s, Append(s, m), K) /\ Idles(s, s, K)
    BY QueueIdles
  <2> QED BY <1>4, <2>1, <2>2
<1>6. NumbersKept
  <2>1. nextObject \in Nat
    BY DEF ObjectsInv, Records
  <2> QED BY <1>1, <2>1 DEF NumbersKept
<1>7. ASSUME NEW d \in Clients PROVE Departs(d)' /\ Denoting(d)'
  <2>1. Departs(d)'
    BY <1>1, <1>2, <1>3, <1>4, DepartsStays DEF AgreementInv
  <2>2. (\A g \in Things : Denotes(serverId[d][g], g))'
    BY <1>1, <1>6, NumbersStay DEF AgreementInv
  <2>3. m \notin Misdirected
    BY <1>2 DEF AgreementInv, Denoting, Misdirected
  <2>4. requests'[d] = requests[d] \/ ~Carries(requests'[d], Misdirected)
    BY <1>3, <1>4, <1>5, <2>3 DEF AgreementInv, Denoting
  <2>5. Denoting(d)'
    BY <1>1, <1>6, <2>2, <2>4, DenotingStays DEF AgreementInv
  <2> QED BY <2>1, <2>5
<1>8. ASSUME f \notin raced'
      PROVE  /\ ~Reporting(c) /\ ~Awaiting(c) /\ ~Carries(replies[c], ChangesOf(f))
             /\ \A d \in Clients \ {c} : ~Altering(d, f)
             /\ \E e \in EntitiesOf(f) :
                   /\ serverId[c][f] = e /\ requests'[c] = Append(s, m)
                   /\ Leads(s, ThingsShown, Obeying(f, e), Standing(e), shown[c][f])
                   /\ Leads(Append(s, m), ThingsShown, Obeying(f, e), Standing(e), shown'[c][f])
  <2>1. f \notin raced /\ c \notin strayed /\ ~Behind(c, f)
    BY <1>1, <1>8
  <2>2. Imaged(c, f)
    BY <1>1, <2>1 DEF InPicture, AgreementInv
  <2>3. /\ ~Reporting(c) /\ ~Awaiting(c) /\ ~Carries(replies[c], ChangesOf(f))
        /\ \A d \in Clients \ {c} : ~Altering(d, f)
        /\ \E e \in EntitiesOf(f) :
              /\ serverId[c][f] = e
              /\ Leads(requests[c], ThingsShown, Obeying(f, e), Standing(e), shown[c][f])
    BY <2>1, <2>2, LeadingClients
  <2>4. PICK e \in EntitiesOf(f) :
           /\ serverId[c][f] = e
           /\ Leads(s, ThingsShown, Obeying(f, e), Standing(e), shown[c][f])
    BY <1>3, <2>3
  <2>5. requests'[c] = Append(s, m)
    <3>1. e # 0
      BY DEF EntitiesOf, ObjectsInv, Records
    <3> QED BY <1>4, <2>4, <3>1
  <2>6. shown[c][f] \in ThingsShown /\ shown'[c][f] \in ThingsShown
    BY DEF ObjectsInv, Games
  <2>7. PICK z : z = shown'[c][f]
    OBVIOUS
  <2>8. <<shown[c][f], m, z>> \in Obeying(f, e)
    BY <1>2, <2>4, <2>6, <2>7, WaysOfMessages
  <2>9. Leads(Append(s, m), ThingsShown, Obeying(f, e), Standing(e), z)
    <3>1. z \in ThingsShown
      BY <2>6, <2>7
    <3> QED BY <1>2, <1>4, <2>4, <2>8, <3>1, LeadsOn
  <2> QED BY <2>3, <2>4, <2>5, <2>7, <2>9
<1>9. ASSUME NEW g \in Things, g \notin raced', NEW e \in EntitiesOf(g)' PROVE Tallied(g, e)'
  <2>1. Tallied(g, e) /\ object'[e].items = object[e].items
    BY <1>1, <1>9 DEF AgreementInv, EntitiesOf
  <2>2. CASE m \notin Orders(g, e)
    <3>1. \A d \in Clients : Idles(requests[d], requests'[d], Requests \ Orders(g, e))
      BY <1>2, <1>3, <1>4, <1>5, <2>2, QueueIdles
    <3> QED BY <2>1, <3>1, TalliedStays
  <2>3. CASE m \in Orders(g, e)
    <3>1. g = f /\ e = serverId[c][f]
      BY <1>2, <2>3 DEF Orders, ChangesOf
    <3>2. /\ \A d \in Clients \ {c} : ~Altering(d, f)
          /\ requests'[c] = Append(s, m)
          /\ Leads(Append(s, m), ThingsShown, Obeying(f, e), Standing(e), shown'[c][f])
      BY <1>8, <1>9, <3>1
    <3>3. PICK z : z = shown'[c][f]
      OBVIOUS
    <3>4. PICK t : t = Append(s, m)
      OBVIOUS
    <3>5. t \in Seq(Requests)
      BY <1>2, <1>4, <3>4, AppendProperties
    <3>6. Leads(t, ThingsShown, Obeying(f, e), Standing(e), z)
      BY <3>2, <3>3, <3>4
    <3>7. Leads(t, Nat, Tallies(f, e), Standing(e).items, z.items)
      BY <3>5, <3>6, CountsFollow
    <3>8. Standing(e).items = object[e].items
      BY DEF Standing
    <3>9. z.items \in Nat
      <4>1. z \in ThingsShown
        BY <3>3 DEF ObjectsInv, Games
      <4> QED BY <4>1 DEF ThingsShown
    <3>10. \A d \in Clients : d # c => ~Carries(requests'[d], Orders(f, e))
      BY <1>4, <3>2, KindsOfMessages DEF Altering, Carries
    <3>11. ASSUME NEW d \in Clients, Carries(requests'[d], Orders(f, e))
           PROVE  /\ \A b \in Clients \ {d} : ~Carries(requests'[b], Orders(f, e))
                  /\ Leads(requests'[d], Nat, Tallies(f, e), object'[e].items, z.items)
      BY <2>1, <3>2, <3>4, <3>7, <3>8, <3>10, <3>11
    <3>12. object'[e].items \in Nat
      BY <2>1 DEF Tallied
    <3> QED BY <3>1, <3>9, <3>11, <3>12, KindsStay DEF Tallied
  <2> QED BY <2>2, <2>3
<1>10. ASSUME NEW d \in Clients, NEW g \in Things, InPicture(d, g)' PROVE Imaged(d, g)'
  <2>1. Imaged(d, g) /\ g \notin raced'
    BY <1>1, <1>10 DEF InPicture, AgreementInv
  <2>2. CASE ~(d = c /\ g = f)
    <3>1. d # c \/ m \in Requests \ (CellReports \cup ChangesOf(g))
      BY <1>2, <2>2 DEF ChangesOf
    <3>2. /\ Idles(requests[d], requests'[d], Requests \ (CellReports \cup ChangesOf(g)))
          /\ Idles(replies[d], replies'[d], Replies \ (Verdicts \cup ChangesOf(g)))
      BY <1>1, <1>3, <1>4, <1>5, <3>1, QueueIdles
    <3>3. ASSUME Altering(d, g), NEW b \in Clients \ {d}, Carries(requests'[b], ChangesOf(g))
          PROVE  Altering(b, g)
      <4>1. b # c \/ m \notin ChangesOf(g)
        BY <1>8, <2>1, <3>3 DEF ChangesOf
      <4> QED BY <1>3, <1>4, <1>5, <3>3, <4>1 DEF Altering
    <3>4. shown'[d][g] = shown[d][g] /\ serverId'[d][g] = serverId[d][g]
      BY <1>1, <2>2
    <3>5. \A e \in EntitiesOf(g) : e \in EntitiesOf(g)' /\ Standing(e)' = Standing(e)
      BY <1>1 DEF EntitiesOf, Standing
    <3> QED BY <2>1, <3>2, <3>3, <3>4, <3>5, ImageStays
  <2>3. CASE d = c /\ g = f
    <3>1. /\ ~Reporting(c) /\ ~Awaiting(c) /\ ~Carries(replies[c], ChangesOf(f))
          /\ \A b \in Clients \ {c} : ~Altering(b, f)
      BY <1>8, <2>1, <2>3
    <3>2. PICK e \in EntitiesOf(f) :
             /\ serverId[c][f] = e /\ requests'[c] = Append(s, m)
             /\ Leads(Append(s, m), ThingsShown, Obeying(f, e), Standing(e), shown'[c][f])
      BY <1>8, <2>1, <2>3
    <3>3. ~Reporting(c)' /\ Altering(c, f)' /\ ~Awaiting(c)'
      <4>1. Carries(Append(s, m), ChangesOf(f))
        BY <1>2, <1>4, CarriesMore
      <4> QED BY <1>1, <1>2, <1>3, <1>5, <3>1, <3>2, <4>1, KindsStay
              DEF Reporting, Awaiting, Altering
    <3>4. \A b \in Clients \ {c} : ~Carries(requests'[b], ChangesOf(f))
      BY <1>4, <3>1 DEF Altering
    <3>5. e \in EntitiesOf(f)' /\ Standing(e)' = Standing(e)
      BY <1>1 DEF EntitiesOf, Standing
    <3>6. Deciding(c, f, e)'
      BY <1>1, <3>1, <3>2, <3>3, <3>4, <3>5, KindsStay DEF Deciding, Altering
    <3> QED BY <2>3, <3>5, <3>6 DEF Imaged
  <2> QED BY <2>2, <2>3
<1> QED BY <1>7, <1>9, <1>10 DEF AgreementInv

LEMMA ChangesLockKeepsAgreement ==
    ASSUME ObjectsInv, AgreementInv, NEW c \in Clients, NEW f \in Things, NEW lock \in Locks,
           ChangesLock(c, f, lock)
    PROVE  AgreementInv'
<1>1. PICK m : m = [type |-> "lock", thing |-> f, lock |-> lock]
  OBVIOUS
<1>2. /\ Changes(c, f)
      /\ shown' = [shown EXCEPT ![c][f].lock = lock]
      /\ requests' = [requests EXCEPT ![c] = @ \o <<m>>]
  BY <1>1 DEF ChangesLock, Sends
<1>3. m \in ChangesOf(f) /\ m.type = "lock" /\ m.lock = lock
  BY <1>1 DEF ChangesOf, ChangeMessages
<1>4. requests' = [requests EXCEPT ![c] = Append(@, m)]
  <2>1. requests[c] \in Seq(Requests) /\ m \in Requests
    BY <1>3, KindsOfMessages DEF ObjectsInv, Messages
  <2>2. requests[c] \o <<m>> = Append(requests[c], m)
    BY <2>1
  <2> QED BY <1>2, <2>2
<1>5. shown \in [Clients -> [Things -> ThingsShown]]
  BY DEF ObjectsInv, Games
<1>6. \A d \in Clients, g \in Things : d # c \/ g # f => shown'[d][g] = shown[d][g]
  BY <1>2, <1>5
<1>7. shown'[c][f] = Requested(f, serverId[c][f], m, shown[c][f])
  <2>1. PICK x \in ThingsShown : x = shown[c][f]
    BY <1>5
  <2>2. shown'[c][f] = [x EXCEPT !.lock = lock]
    BY <1>2, <1>5, <2>1
  <2>3. [x EXCEPT !.lock = lock] = [lock |-> lock, items |-> x.items]
    BY <2>1 DEF ThingsShown
  <2> QED BY <1>3, <2>1, <2>2, <2>3 DEF Requested
<1> QED BY <1>2, <1>3, <1>4, <1>6, <1>7, ChangesLockKeepsInv, ChangeKeepsAgreement

LEMMA ChangesItemsKeepsAgreement ==
    ASSUME ObjectsInv, AgreementInv, NEW c \in Clients, NEW f \in Things, NEW n \in {-1, 1},
           ChangesItems(c, f, n)
    PROVE  AgreementInv'
<1>1. PICK m : m = [type |-> "items", thing |-> f, id |-> serverId[c][f], count |-> n]
  OBVIOUS
<1>2. PICK k : k = shown[c][f].items + n
  OBVIOUS
<1>3. /\ Changes(c, f)
      /\ shown' = [shown EXCEPT ![c][f].items = k]
      /\ IF serverId[c][f] = 0 THEN requests' = requests
         ELSE requests' = [requests EXCEPT ![c] = @ \o <<m>>]
  BY <1>1, <1>2 DEF ChangesItems, Sends
<1>4. serverId[c][f] \in Nat /\ shown \in [Clients -> [Things -> ThingsShown]]
  BY DEF ObjectsInv, Games
<1>5. m \in ChangesOf(f) /\ m.type = "items" /\ m.id = serverId[c][f] /\ m.count = n
  BY <1>1, <1>4 DEF ChangesOf, ChangeMessages
<1>6. \/ requests' = [requests EXCEPT ![c] = Append(@, m)]
      \/ requests' = requests /\ serverId[c][f] = 0
  <2>1. requests[c] \in Seq(Requests) /\ m \in Requests
    BY <1>5, KindsOfMessages DEF ObjectsInv, Messages
  <2>2. requests[c] \o <<m>> = Append(requests[c], m)
    BY <2>1
  <2> QED BY <1>3, <2>2
<1>7. \A d \in Clients, g \in Things : d # c \/ g # f => shown'[d][g] = shown[d][g]
  BY <1>3, <1>4
<1>8. shown'[c][f] = Requested(f, serverId[c][f], m, shown[c][f])
  <2>1. PICK x \in ThingsShown : x = shown[c][f]
    BY <1>4
  <2>2. shown'[c][f] = [x EXCEPT !.items = k]
    BY <1>3, <1>4, <2>1
  <2>3. [x EXCEPT !.items = k] = [lock |-> x.lock, items |-> x.items + n]
    BY <1>2, <2>1 DEF ThingsShown
  <2> QED BY <1>5, <2>1, <2>2, <2>3 DEF Requested
<1>9. ObjectsInv'
  BY ChangesItemsKeepsInv
<1>10. Changes(c, f) /\ m \in ChangesOf(f) /\ m.id = serverId[c][f]
  BY <1>3, <1>5
<1> QED BY <1>6, <1>7, <1>8, <1>9, <1>10, ChangeKeepsAgreement

(* At the start nobody is in a cell, and nothing has been said.                *)
LEMMA AgreementInit == ObjectsInit => AgreementInv
<1> SUFFICES ASSUME ObjectsInit PROVE AgreementInv
  OBVIOUS
<1>1. /\ object = <<>> /\ nextObject = 1
      /\ \A c \in Clients : /\ requests[c] = <<>> /\ replies[c] = <<>> /\ visiting[c] = NoRoom
                            /\ \A f \in Things : serverId[c][f] = 0
  BY DEF ObjectsInit
<1>2. DOMAIN object = {}
  BY <1>1
<1>3. \A c \in Clients : Departs(c)
  BY <1>1, CarriesNothing DEF Departs
<1>4. \A c \in Clients : Denoting(c)
  BY <1>1, <1>2, CarriesNothing DEF Denoting, Denotes
<1>5. \A f \in Things : EntitiesOf(f) = {}
  BY <1>2 DEF EntitiesOf
<1>6. \A c \in Clients, f \in Things : ~InPicture(c, f)
  BY <1>1, ObjectsAssumption DEF InPicture
<1> QED BY <1>3, <1>4, <1>5, <1>6 DEF AgreementInv

LEMMA StandingStill ==
    ASSUME AgreementInv, UNCHANGED objectsVars
    PROVE  AgreementInv'
<1>1. UNCHANGED <<object, nextObject, requests, replies, visiting, shown, serverId, strayed, raced>>
  BY DEF objectsVars
<1>2. \A id, f : Denotes(id, f)' <=> Denotes(id, f)
  BY <1>1 DEF Denotes
<1>3. Misdirected' = Misdirected /\ Misjudging' = Misjudging
  BY <1>2, KindsStay DEF Misdirected, Misjudging, ChangeMessages
<1>4. \A c \in Clients : Departs(c)' /\ Denoting(c)'
  <2> TAKE c \in Clients
  <2>1. Departs(c)'
    BY <1>1, KindsStay DEF AgreementInv, Departs, Away
  <2>2. (\A f \in Things : Denotes(serverId[c][f], f))'
    BY <1>1 DEF AgreementInv, Denoting, Denotes
  <2>3. ~Carries(requests[c], Misdirected)' /\ ~Carries(replies[c], Misjudging)'
    BY <1>1, <1>3 DEF AgreementInv, Denoting
  <2> QED BY <2>1, <2>2, <2>3 DEF Denoting
<1>5. \A f, e : e \in EntitiesOf(f)' <=> e \in EntitiesOf(f)
  BY <1>1 DEF EntitiesOf
<1>6. \A e : Standing(e)' = Standing(e)
  BY <1>1 DEF Standing
<1>7. \A f, e : Tallied(f, e)' <=> Tallied(f, e)
  BY <1>1, KindsStay DEF Tallied
<1>8. ASSUME NEW c \in Clients, NEW f \in Things PROVE Imaged(c, f) => Imaged(c, f)'
  <2>1. Reporting(c)' = Reporting(c) /\ Awaiting(c)' = Awaiting(c)
        /\ \A d \in Clients : Altering(d, f)' = Altering(d, f)
    BY <1>1, KindsStay DEF Reporting, Awaiting, Altering
  <2>2. InReport(c, f) => InReport(c, f)'
    BY <1>1, <2>1, KindsStay DEF InReport
  <2>3. Outrun(c, f) => Outrun(c, f)'
    BY <1>1, <2>1, KindsStay DEF Outrun
  <2>4. ASSUME NEW e
        PROVE  /\ Answering(c, f, e) => Answering(c, f, e)'
               /\ Hearkening(c, f, e) => Hearkening(c, f, e)'
               /\ Deciding(c, f, e) => Deciding(c, f, e)'
    BY <1>1, <1>6, <2>1, KindsStay DEF Answering, Hearkening, Deciding
  <2> QED BY <1>5, <2>2, <2>3, <2>4 DEF Imaged
<1> QED BY <1>1, <1>4, <1>5, <1>7, <1>8 DEF AgreementInv, InPicture

(* What clients report, tell and are told leads to what the server has.        *)
LEMMA ObjectsNextAgreement ==
    ObjectsInv /\ AgreementInv /\ [ObjectsNext]_objectsVars => AgreementInv'
<1> SUFFICES ASSUME ObjectsInv, AgreementInv, [ObjectsNext]_objectsVars PROVE AgreementInv'
  OBVIOUS
<1>1. CASE UNCHANGED objectsVars
  BY <1>1, StandingStill
<1>2. CASE ObjectsNext
  BY <1>2, AssignKeepsAgreement, EnterKeepsAgreement, LockKeepsAgreement, ItemsKeepsAgreement,
     QuittingKeepsAgreement, ResponseKeepsAgreement, LockNotifyKeepsAgreement,
     ItemsNotifyKeepsAgreement, CellChangeKeepsAgreement, ChangesLockKeepsAgreement,
     ChangesItemsKeepsAgreement
     DEF ObjectsNext
<1> QED BY <1>1, <1>2

THEOREM AgreementInvariant == ObjectsSpec => []AgreementInv
BY AgreementInit, ObjectsNextAgreement, ObjectsInvariant, PTL DEF ObjectsSpec

(* A client with nothing to tell and nothing to read shows what the server has *)
(* for the containers and doors of its cell, for any number of clients, things *)
(* and cells, and however long the queues between them have been.              *)
THEOREM ObjectsAlwaysAgree == ObjectsSpec => []ObjectsAgree
<1>1. ObjectsInv /\ AgreementInv => ObjectsAgree
  <2> SUFFICES ASSUME ObjectsInv, AgreementInv, NEW c \in Clients, NEW f \in Things,
                      visiting[c] = Home[f], c \notin strayed, f \notin raced,
                      requests[c] = <<>>, replies[c] = <<>>
               PROVE  /\ serverId[c][f] \in DOMAIN object
                      /\ object[serverId[c][f]] =
                            [form |-> f, lock |-> shown[c][f].lock, items |-> shown[c][f].items]
    BY DEF ObjectsAgree
  <2>1. Imaged(c, f)
    BY DEF AgreementInv, InPicture
  <2>2. ~Reporting(c) /\ ~Awaiting(c) /\ ~Altering(c, f)
    BY CarriesNothing DEF Reporting, Awaiting, Altering
  <2>3. ~InReport(c, f) /\ ~Single(replies[c], Verdicts, Judging(f))
    BY <2>2, SingleIsCarried DEF InReport, Reporting, Awaiting
  <2>4. PICK e \in EntitiesOf(f) : Hearkening(c, f, e)
    BY <2>1, <2>2, <2>3 DEF Imaged, Outrun, Answering, Deciding
  <2>5. PICK x : x = shown[c][f]
    OBVIOUS
  <2>6. serverId[c][f] = e /\ Leads(<<>>, ThingsShown, Hearing(f, e), x, Standing(e))
    BY <2>4, <2>5 DEF Hearkening
  <2>7. x \in ThingsShown
    BY <2>5 DEF ObjectsInv, Games
  <2>8. x = Standing(e)
    BY <2>6, <2>7, LeadsOnTheSpot
  <2>9. /\ e \in DOMAIN object /\ object[e].form = f
        /\ object[e] \in [form : Things, lock : Locks, items : Int]
    BY DEF EntitiesOf, ObjectsInv, Records
  <2>10. object[e] = [form |-> f, lock |-> object[e].lock, items |-> object[e].items]
    BY <2>9
  <2> QED BY <2>5, <2>6, <2>8, <2>9, <2>10 DEF Standing
<1> QED BY <1>1, ObjectsInvariant, AgreementInvariant, PTL
=============================================================================
