------------------------- MODULE OwnershipNetProofs -------------------------
(***************************************************************************)
(* Proofs about the ownership of characters, for any number of players,    *)
(* forms, cells and characters and any bounds. First the server of         *)
(* Ownership. OwnershipInv is inductive as it stands. The table of         *)
(* characters changes in four ways, and a lemma says for each of them what *)
(* it keeps: a character is added or rewritten at one entity (With), one   *)
(* is taken out (Without), or a leaver's are handed on all at once         *)
(* (Bequeathed). Then OwnershipNet: the clients ask nothing of the server  *)
(* that Ownership does not allow for, so that what is proved of the server *)
(* holds with them too; a client does not wait for what it manages; and,   *)
(* where there are no parties, at most one client simulates a character,   *)
(* and its owner does so unless he has lost track of the actor.            *)
(***************************************************************************)
EXTENDS OwnershipNet, FiniteSetTheorems, FunctionTheorems, SequenceTheorems, TLAPS

---------------------------------------------------------------------------
(* The server *)

(* The three parts as they speak of a table of characters t with the       *)
(* players P connected.                                                    *)
Table(t, n, P) ==
    /\ DOMAIN t \subseteq 0 .. n - 1
    /\ \A e \in DOMAIN t : t[e] \in Character /\ t[e].owner \in P
    /\ \A d, e \in DOMAIN t : t[d].form = t[e].form /\ t[d].form \in Forms => d = e

Rest ==
    /\ online \subseteq Players
    /\ cellOf \in [Players -> Cells \cup {NoCell}]
    /\ character \in [Players -> Ids \cup {-1}]
    /\ nextId \in 0 .. MaxId
    /\ leader \in Players \cup {NoOne}
    /\ members \subseteq online

(* The invariant is the one about the table and the one about the rest.    *)
LEMMA InvIsTable == OwnershipInv <=> Rest /\ Table(chars, nextId, online)
  BY DEF OwnershipInv, TypeOK, OwnersAreOnline, OneCharacterPerForm, Rest, Table

(* Writing at entity e a character whose form is managed nowhere else      *)
(* keeps the table.                                                        *)
LEMMA WithKeepsTable ==
  ASSUME NEW n \in Nat, NEW P, NEW e \in 0 .. n - 1, NEW c \in Character,
         Table(chars, n, P), c.owner \in P,
         c.form \in Forms => \A d \in DOMAIN chars : chars[d].form = c.form => d = e
  PROVE  Table(With(e, c), n, P)
  BY DEF Table, With

(* Taking entities out keeps the table.                                    *)
LEMMA WithoutKeepsTable ==
  ASSUME NEW n, NEW P, NEW E, Table(chars, n, P)
  PROVE  Table(Without(E), n, P)
  BY DEF Table, Without

(* More entities and more players do no harm.                              *)
LEMMA TableGrows ==
  ASSUME NEW t, NEW n \in Nat, NEW m \in Nat, n <= m, NEW P, NEW Q, P \subseteq Q,
         Table(t, n, P)
  PROVE  Table(t, m, Q)
  BY DEF Table

(* What Heirs picks is connected, is not the owner and has not refused.    *)
LEMMA HeirsFacts ==
  ASSUME NEW c, NEW q \in Heirs(c)
  PROVE  q \in online /\ q # c.owner /\ q \notin c.refused
  BY DEF Heirs

(* A character given up is a character, of the same owner and form.        *)
LEMMA GivenUpIsCharacter ==
  ASSUME NEW p \in Players, NEW e, chars[e] \in Character,
         NEW cell \in Cells \cup {NoCell}
  PROVE  /\ GivenUp(p, e, cell) \in Character
         /\ GivenUp(p, e, cell).owner = chars[e].owner
         /\ GivenUp(p, e, cell).form = chars[e].form
  BY DEF GivenUp, Character

(* The characters handed on when player p goes: each had its heir among    *)
(* the others, so the table is kept without p.                             *)
LEMMA BequeathedKeepsTable ==
  ASSUME NEW p, NEW heir, Table(chars, nextId, online), online \subseteq Players,
         \A e \in Owned(p) : Heirs(chars[e]) # {} => heir[e] \in Heirs(chars[e])
  PROVE  Table(Bequeathed(p, heir), nextId, online \ {p})
<1> DEFINE t == Bequeathed(p, heir)
<1>1. \A e \in DOMAIN t : e \in DOMAIN chars /\ t[e].form = chars[e].form
  BY DEF Bequeathed
<1>2. ASSUME NEW e \in DOMAIN t
      PROVE  t[e] \in Character /\ t[e].owner \in online \ {p}
  <2>1. e \in DOMAIN chars /\ chars[e] \in Character /\ chars[e].owner \in online
    BY <1>1 DEF Table
  <2>2. CASE chars[e].owner = p
    <3>1. heir[e] \in Heirs(chars[e])
      BY <2>1, <2>2 DEF Bequeathed, Owned
    <3>2. heir[e] \in online \ {p}
      BY <3>1, <2>2, HeirsFacts
    <3>3. t[e] = [form |-> chars[e].form, cell |-> chars[e].cell,
                  owner |-> heir[e], refused |-> chars[e].refused]
      BY <2>2 DEF Bequeathed
    <3> QED
      BY <3>2, <3>3, <2>1 DEF Character
  <2>3. CASE chars[e].owner # p
    <3>1. t[e] = chars[e]
      BY <2>3 DEF Bequeathed
    <3> QED
      BY <3>1, <2>1, <2>3
  <2> QED
    BY <2>2, <2>3
<1>3. Table(t, nextId, online \ {p})
  <2> HIDE DEF t
  <2> QED BY <1>1, <1>2 DEF Table
<1> QED
  BY <1>3

---------------------------------------------------------------------------
(* Every step keeps the invariant.                                         *)
LEMMA NextOwnershipInv ==
  ASSUME OwnershipInv, Next
  PROVE  OwnershipInv'
<1> USE OwnershipAssumption
<1>1. Rest /\ Table(chars, nextId, online)
  BY InvIsTable
<1>2. nextId \in Nat /\ online \subseteq Players
  BY <1>1 DEF Rest
<1>3. SUFFICES Rest' /\ Table(chars', nextId', online')
  <2>1. (OwnershipInv <=> Rest /\ Table(chars, nextId, online))'
    BY InvIsTable, PTL
  <2> QED
    BY <1>3, <2>1 DEF Table
<1>4. ASSUME NEW p \in Players, NEW M \in SUBSET Players, PartyForms(p, M)
      PROVE  Rest' /\ Table(chars', nextId', online')
  BY <1>1, <1>4 DEF PartyForms, Rest
<1>5. ASSUME NEW p \in Players, PartyShrinks(p)
      PROVE  Rest' /\ Table(chars', nextId', online')
  BY <1>1, <1>5 DEF PartyShrinks, LeaveParty, Rest
<1>6. ASSUME NEW p \in Players, Connect(p)
      PROVE  Rest' /\ Table(chars', nextId', online')
  <2>1. Table(chars, nextId, online \cup {p})
    BY <1>1, <1>2, TableGrows
  <2> QED
    BY <1>1, <1>6, <2>1 DEF Connect, Rest
<1>7. ASSUME NEW p \in Players, NEW cell \in Cells, EnterCell(p, cell)
      PROVE  Rest' /\ Table(chars', nextId', online')
  BY <1>1, <1>7 DEF EnterCell, Rest
<1>8. ASSUME NEW p \in Players, NEW f \in Forms \cup {PlayerForm}, NEW cell \in Cells,
             p \in online, Create(p, f, cell), f \in Forms => Managed(f) = {}
      PROVE  nextId' \in 0 .. MaxId /\ Table(chars', nextId', online)
  <2> DEFINE c == [form |-> f, cell |-> cell, owner |-> p, refused |-> {}]
  <2>1. Table(chars, nextId + 1, online)
    BY <1>1, <1>2, TableGrows
  <2>2. c \in Character /\ c.owner \in online /\ nextId \in 0 .. (nextId + 1) - 1
    BY <1>8, <1>2 DEF Character
  <2>3. c.form \in Forms => \A d \in DOMAIN chars : chars[d].form = c.form => d = nextId
    BY <1>8 DEF Managed
  <2>4. Table(With(nextId, c), nextId + 1, online)
    <3> HIDE DEF c
    <3> QED BY <2>1, <2>2, <2>3, <1>2, WithKeepsTable
  <2>5. nextId + 1 \in 0 .. MaxId
    BY <1>1, <1>8 DEF Rest, Create
  <2> QED
    BY <1>8, <2>4, <2>5 DEF Create
<1>9. ASSUME NEW p \in Players, NEW cell \in Cells, OnAssignPlayer(p, cell)
      PROVE  Rest' /\ Table(chars', nextId', online')
  <2>1. nextId' \in 0 .. MaxId /\ Table(chars', nextId', online)
    BY <1>8, <1>9 DEF OnAssignPlayer
  <2>2. character' \in [Players -> Ids \cup {-1}]
    BY <1>1, <1>9 DEF OnAssignPlayer, Create, Rest, Ids
  <2> QED
    BY <1>1, <1>9, <2>1, <2>2 DEF OnAssignPlayer, Rest
<1>10. ASSUME NEW p \in Players, NEW f \in Forms, NEW cell \in Cells,
              OnAssignNew(p, f, cell)
       PROVE  Rest' /\ Table(chars', nextId', online')
  <2>1. nextId' \in 0 .. MaxId /\ Table(chars', nextId', online)
    BY <1>8, <1>10 DEF OnAssignNew
  <2> QED
    BY <1>1, <1>10, <2>1 DEF OnAssignNew, Rest
<1>11. ASSUME NEW p \in Players, p \in online, NEW e \in DOMAIN chars,
              TransferOwnership(p, e)
       PROVE  Table(chars', nextId, online)
  <2> DEFINE c == [form |-> chars[e].form, cell |-> chars[e].cell,
                   owner |-> p, refused |-> {}]
  <2>1. chars[e] \in Character /\ e \in 0 .. nextId - 1
    BY <1>1 DEF Table
  <2>2. c \in Character /\ c.owner \in online
    BY <2>1, <1>11 DEF Character
  <2>3. c.form \in Forms => \A d \in DOMAIN chars : chars[d].form = c.form => d = e
    BY <1>1, <1>11 DEF Table
  <2>4. Table(With(e, c), nextId, online)
    <3> HIDE DEF c
    <3> QED BY <2>1, <2>2, <2>3, <1>1, <1>2, WithKeepsTable
  <2> QED
    BY <1>11, <2>4 DEF TransferOwnership
<1>12. ASSUME NEW p \in Players, NEW e \in Ids, OnAssignManaged(p, e)
       PROVE  Rest' /\ Table(chars', nextId', online')
  BY <1>1, <1>11, <1>12 DEF OnAssignManaged, Rest
<1>13. ASSUME NEW p \in Players, NEW e \in Ids, OnOwnershipClaim(p, e)
       PROVE  Rest' /\ Table(chars', nextId', online')
  BY <1>1, <1>11, <1>13 DEF OnOwnershipClaim, Rest
<1>14. ASSUME NEW p \in Players, NEW e \in Ids, NEW cell \in Cells \cup {NoCell},
              OnOwnershipTransfer(p, e, cell)
       PROVE  Rest' /\ Table(chars', nextId', online')
  <2> DEFINE c == GivenUp(p, e, cell)
  <2>1. chars[e] \in Character /\ e \in DOMAIN chars /\ e \in 0 .. nextId - 1
    BY <1>1, <1>14 DEF Table, OnOwnershipTransfer
  <2>2. c \in Character /\ c.form = chars[e].form
    BY <2>1, GivenUpIsCharacter
  <2>3. c.form \in Forms => \A d \in DOMAIN chars : chars[d].form = c.form => d = e
    BY <1>1, <2>1, <2>2 DEF Table
  <2>4. \/ chars' = Without({e})
        \/ \E q \in online : HandOver(e, c, q)
    BY <1>14 DEF OnOwnershipTransfer
  <2> HIDE DEF c
  <2>5. CASE chars' = Without({e})
    <3>1. Table(Without({e}), nextId, online)
      BY <1>1, WithoutKeepsTable
    <3> QED
      BY <2>5, <3>1, <1>1, <1>14 DEF OnOwnershipTransfer, Rest
  <2>6. ASSUME NEW q \in online, HandOver(e, c, q)
        PROVE  Table(chars', nextId, online)
    <3> DEFINE h == [form |-> c.form, cell |-> c.cell, owner |-> q, refused |-> c.refused]
    <3>1. h \in Character /\ h.owner \in online /\ h.form = c.form
      BY <2>2, <1>2 DEF Character
    <3>2. Table(With(e, h), nextId, online)
      <4> HIDE DEF h
      <4> QED BY <3>1, <2>1, <2>3, <1>1, <1>2, WithKeepsTable
    <3> QED
      BY <2>6, <3>2 DEF HandOver
  <2> QED
    BY <2>4, <2>5, <2>6, <1>1, <1>14 DEF OnOwnershipTransfer, Rest
<1>15. ASSUME NEW p \in Players, Disconnect(p)
       PROVE  Rest' /\ Table(chars', nextId', online')
  <2>1. Table(chars', nextId, online \ {p})
    <3>1. PICK heir \in [Owned(p) -> online] :
            /\ \A e \in Owned(p) : Heirs(chars[e]) # {} => heir[e] \in Heirs(chars[e])
            /\ chars' = Bequeathed(p, heir)
      BY <1>15 DEF Disconnect
    <3> QED
      BY <3>1, <1>1, <1>2, BequeathedKeepsTable
  <2> QED
    BY <1>1, <1>15, <2>1 DEF Disconnect, LeaveParty, Rest
<1> QED
  BY <1>4, <1>5, <1>6, <1>7, <1>9, <1>10, <1>12, <1>13, <1>14, <1>15 DEF Next

(* The invariant holds at the start.                                       *)
LEMMA InitOwnershipInv == Init => OwnershipInv
  BY OwnershipAssumption
  DEF Init, OwnershipInv, TypeOK, OwnersAreOnline, OneCharacterPerForm, Ids

(* At any time every character is owned by a connected player, and no      *)
(* actor of the game world is managed as two characters.                   *)
THEOREM OwnershipSafety == Spec => []OwnershipInv
<1>1. OwnershipInv /\ UNCHANGED ownVars => OwnershipInv'
  BY DEF OwnershipInv, TypeOK, OwnersAreOnline, OneCharacterPerForm, ownVars
<1>2. OwnershipInv /\ [Next]_ownVars => OwnershipInv'
  BY <1>1, NextOwnershipInv
<1> QED
  BY <1>2, InitOwnershipInv, PTL DEF Spec

(* No character is left to a player who has gone, through any number of     *)
(* hand-overs and disconnections.                                           *)
COROLLARY OwnersStayOnline == Spec => []OwnersAreOnline
BY OwnershipSafety, PTL DEF OwnershipInv

(* However many clients discover an actor, and in whatever order, it is one *)
(* entity.                                                                  *)
COROLLARY FormsAreManagedOnce == Spec => []OneCharacterPerForm
BY OwnershipSafety, PTL DEF OwnershipInv

---------------------------------------------------------------------------
(* RefusalsStand for one step.                                             *)
RefusalsStandInStep ==
    \A e \in DOMAIN chars \cap DOMAIN chars' :
        chars'[e].owner # chars[e].owner =>
            /\ chars'[e].owner \in online'
            /\ chars'[e].owner \notin chars'[e].refused

(* A character never goes to a player who has refused it, nor to one who   *)
(* is leaving.                                                             *)
LEMMA StepRefusalsStand ==
  ASSUME OwnershipInv, Next
  PROVE  RefusalsStandInStep
<1>1. Rest /\ Table(chars, nextId, online)
  BY InvIsTable
<1>2. ASSUME UNCHANGED chars PROVE RefusalsStandInStep
  BY <1>2 DEF RefusalsStandInStep
<1>3. ASSUME NEW p \in online, online' = online, NEW e, TransferOwnership(p, e)
      PROVE  RefusalsStandInStep
  BY <1>3 DEF TransferOwnership, With, RefusalsStandInStep
<1>4. ASSUME NEW p, NEW f, NEW cell, Create(p, f, cell)
      PROVE  RefusalsStandInStep
  <2>1. nextId \notin DOMAIN chars
    BY <1>1 DEF Table, Rest
  <2> QED
    BY <2>1, <1>4 DEF Create, With, RefusalsStandInStep
<1>5. ASSUME NEW p, NEW e, NEW cell, OnOwnershipTransfer(p, e, cell)
      PROVE  RefusalsStandInStep
  <2> DEFINE c == GivenUp(p, e, cell)
  <2>1. \/ chars' = Without({e})
        \/ \E q \in online : HandOver(e, c, q)
    BY <1>5 DEF OnOwnershipTransfer
  <2>2. online' = online
    BY <1>5 DEF OnOwnershipTransfer
  <2> HIDE DEF c
  <2>3. CASE chars' = Without({e})
    BY <2>3 DEF Without, RefusalsStandInStep
  <2>4. ASSUME NEW q \in online, HandOver(e, c, q)
        PROVE  RefusalsStandInStep
    <3>1. q \notin c.refused
      BY <2>4, HeirsFacts DEF HandOver
    <3> QED
      BY <2>2, <2>4, <3>1 DEF HandOver, With, RefusalsStandInStep
  <2> QED
    BY <2>1, <2>3, <2>4
<1>6. ASSUME NEW p, Disconnect(p)
      PROVE  RefusalsStandInStep
  <2>1. PICK heir \in [Owned(p) -> online] :
          /\ \A e \in Owned(p) : Heirs(chars[e]) # {} => heir[e] \in Heirs(chars[e])
          /\ chars' = Bequeathed(p, heir)
    BY <1>6 DEF Disconnect
  <2>2. SUFFICES ASSUME NEW e \in DOMAIN chars, e \in DOMAIN chars',
                        chars'[e].owner # chars[e].owner
                 PROVE  /\ chars'[e].owner \in online'
                        /\ chars'[e].owner \notin chars'[e].refused
    BY DEF RefusalsStandInStep
  <2>3. chars[e].owner = p /\ Heirs(chars[e]) # {}
    BY <2>1, <2>2 DEF Bequeathed
  <2>4. heir[e] \in Heirs(chars[e])
    BY <2>1, <2>3 DEF Owned
  <2>5. chars'[e].owner = heir[e] /\ chars'[e].refused = chars[e].refused
    BY <2>1, <2>2, <2>3 DEF Bequeathed
  <2>6. heir[e] \in online \ {p} /\ heir[e] \notin chars[e].refused
    BY <2>4, <2>3, HeirsFacts
  <2> QED
    BY <2>5, <2>6, <1>6 DEF Disconnect
<1> QED
  BY <1>2, <1>3, <1>4, <1>5, <1>6
  DEF Next, PartyForms, PartyShrinks, Connect, EnterCell, OnAssignPlayer, OnAssignNew,
      OnAssignManaged, OnOwnershipClaim

(* The hand-over does not go round in circles.                             *)
THEOREM RefusalsAreRespected == Spec => RefusalsStand
<1>1. OwnershipInv /\ [Next]_ownVars => [RefusalsStandInStep]_ownVars
  BY StepRefusalsStand
<1>2. Spec => [][RefusalsStandInStep]_ownVars
  BY <1>1, OwnershipSafety, PTL DEF Spec
<1> QED
  BY <1>2 DEF RefusalsStand, RefusalsStandInStep

---------------------------------------------------------------------------
(* With the queues and the clients *)

Slot == Nat \cup {None}

ActorStates ==
    [loaded : BOOLEAN, waiting : Slot, local : Slot, remote : Slot, asked : Nat]

Requests ==
    [type : {"Assign"}, form : Forms, cookie : Nat, cell : Cells]
       \cup [type : {"Claim"}, id : Slot]
       \cup [type : {"GiveUp"}, id : Slot, cell : Cells \cup {NoCell}]
       \cup [type : {"EnterCell"}, cell : Cells]

Notes ==
    [type : {"Assigned"}, form : Forms, cookie : Nat, id : Nat, owner : BOOLEAN]
       \cup [type : {"Spawn"}, form : Forms, id : Nat]
       \cup [type : {"Offer", "Remove", "Relinquish"}, id : Nat]
       \cup [type : {"PartyJoined", "PartyNews"}, isLeader : BOOLEAN]

NetTypes ==
    /\ toServer \in [Players -> Seq(Requests)]
    /\ toClient \in [Players -> Seq(Notes)]
    /\ actor \in [Players -> [Forms -> ActorStates]]
    /\ isLeader \in [Players -> BOOLEAN]
    /\ lost \in [Players -> SUBSET Forms]

NetInv == OwnershipInv /\ NetTypes /\ WaitsUnmanaged

---------------------------------------------------------------------------
(* Messages.                                                               *)

LEMMA RequestKinds ==
    ASSUME NEW m \in Requests
    PROVE  /\ m.type \in {"Assign", "Claim", "GiveUp", "EnterCell"}
           /\ m.type = "Assign" => m.form \in Forms /\ m.cookie \in Nat /\ m.cell \in Cells
           /\ m.type = "Claim" => m.id \in Slot
           /\ m.type = "GiveUp" => m.id \in Slot /\ m.cell \in Cells \cup {NoCell}
           /\ m.type = "EnterCell" => m.cell \in Cells
BY DEF Requests

LEMMA RequestsMade ==
    /\ \A f \in Forms, c \in Nat, cell \in Cells : Assign(f, c, cell) \in Requests
    /\ \A e \in Slot : Claim(e) \in Requests
    /\ \A e \in Slot, cell \in Cells \cup {NoCell} : GiveUp(e, cell) \in Requests
    /\ \A cell \in Cells : Enter(cell) \in Requests
BY DEF Requests, Assign, Claim, GiveUp, Enter

LEMMA NoteKinds ==
    ASSUME NEW m \in Notes
    PROVE  /\ m.type \in {"Assigned", "Spawn", "Offer", "Remove", "Relinquish",
                          "PartyJoined", "PartyNews"}
           /\ m.type = "Assigned" =>
                 m.form \in Forms /\ m.cookie \in Nat /\ m.id \in Nat /\ m.owner \in BOOLEAN
           /\ m.type = "Spawn" => m.form \in Forms /\ m.id \in Nat
           /\ m.type \in {"Offer", "Remove", "Relinquish"} => m.id \in Nat
           /\ m.type \in {"PartyJoined", "PartyNews"} => m.isLeader \in BOOLEAN
BY DEF Notes

LEMMA NotesMade ==
    /\ \A f \in Forms, c \in Nat, e \in Nat, b \in BOOLEAN : Assigned(f, c, e, b) \in Notes
    /\ \A f \in Forms, e \in Nat : Spawn(f, e) \in Notes
    /\ \A e \in Nat : Offer(e) \in Notes /\ Removal(e) \in Notes /\ Relinquish(e) \in Notes
    /\ \A t \in {"PartyJoined", "PartyNews"}, b \in BOOLEAN : PartyNews(t, b) \in Notes
BY DEF Notes, Assigned, Spawn, Offer, Removal, Relinquish, PartyNews

(* A finite set as a sequence has each element once.                       *)
LEMMA SetAsSeq ==
    ASSUME NEW S, IsFiniteSet(S)
    PROVE  /\ SetToSeq(S) \in Seq(S)
           /\ \A i, j \in 1 .. Len(SetToSeq(S)) : SetToSeq(S)[i] = SetToSeq(S)[j] => i = j
<1> DEFINE n == Cardinality(S)
<1>1. n \in Nat /\ ExistsBijection(1 .. n, S)
  BY FS_CardinalityType
<1>2. PICK f \in [1 .. n -> S] : IsInjective(f)
  BY <1>1 DEF ExistsBijection, Bijection, Injection, IsInjective
<1>3. SetToSeq(S) \in [1 .. n -> S] /\ IsInjective(SetToSeq(S))
  BY <1>2 DEF SetToSeq
<1>4. SetToSeq(S) \in Seq(S) /\ Len(SetToSeq(S)) = n
  BY <1>1, <1>3, SeqDef, LenProperties
<1> QED BY <1>3, <1>4 DEF IsInjective

LEMMA SetAsSeqTypes ==
    ASSUME NEW S, NEW T, IsFiniteSet(S), S \subseteq T
    PROVE  SetToSeq(S) \in Seq(T)
<1>1. SetToSeq(S) \in Seq(S)
  BY SetAsSeq
<1> QED BY <1>1

---------------------------------------------------------------------------
(* Actors.                                                                 *)

LEMMA SlotFacts == None \in Slot /\ Nat \subseteq Slot
BY DEF Slot, None

LEMMA ActorFields ==
    ASSUME NEW a \in ActorStates
    PROVE  /\ a.loaded \in BOOLEAN /\ a.asked \in Nat
           /\ {a.waiting, a.local, a.remote} \subseteq Slot
           /\ [a EXCEPT !.loaded = TRUE] \in ActorStates
           /\ \A n \in Slot : /\ [a EXCEPT !.waiting = n] \in ActorStates
                              /\ [a EXCEPT !.local = n] \in ActorStates
                              /\ [a EXCEPT !.remote = n] \in ActorStates
           /\ \A n \in Nat : [a EXCEPT !.asked = n] \in ActorStates
BY DEF ActorStates

LEMMA UnmanagedState ==
    ASSUME NEW a, a.asked \in Nat, NEW b \in BOOLEAN
    PROVE  /\ Unmanaged(a, b) \in ActorStates
           /\ Unmanaged(a, b).waiting = None /\ Unmanaged(a, b).local = None
           /\ Unmanaged(a, b).remote = None /\ Unmanaged(a, b).asked = a.asked
           /\ Unmanaged(a, b).loaded = b
BY SlotFacts DEF Unmanaged, ActorStates

LEMMA TakenState ==
    ASSUME NEW a \in ActorStates
    PROVE  /\ Taken(a) \in ActorStates
           /\ Taken(a).waiting = a.waiting /\ Taken(a).local = a.remote
           /\ Taken(a).remote = None /\ Taken(a).asked = a.asked /\ Taken(a).loaded = a.loaded
BY SlotFacts DEF Taken, ActorStates

(* An actor waits only if it is not managed.                               *)
Waits(a) == a.waiting # None => a.local = None /\ a.remote = None

LEMMA ProcessedState ==
    ASSUME NEW a \in ActorStates, NEW f \in Forms, NEW leads \in BOOLEAN, NEW cell \in Cells
    PROVE  /\ Processed(f, a, leads) \in ActorStates
           /\ ProcessedRequests(f, a, leads, cell) \in Seq(Requests)
           /\ Waits(a) => Waits(Processed(f, a, leads))
<1>1. CASE WouldTake(f, a, leads)
  <2>1. Processed(f, a, leads) = Taken(a)
        /\ ProcessedRequests(f, a, leads, cell) = <<Claim(a.remote)>>
    BY <1>1 DEF Processed, ProcessedRequests
  <2>2. <<Claim(a.remote)>> \in Seq(Requests)
    <3>1. Claim(a.remote) \in Requests
      BY ActorFields, RequestsMade
    <3> QED BY <3>1
  <2>3. Waits(a) => Waits(Taken(a))
    BY <1>1, TakenState DEF Waits, WouldTake
  <2> QED BY <2>1, <2>2, <2>3, TakenState
<1>2. CASE ~WouldTake(f, a, leads) /\ MustAsk(a)
  <2> DEFINE b == [a EXCEPT !.waiting = a.asked]
             c == [b EXCEPT !.asked = a.asked + 1]
  <2>1. Processed(f, a, leads) = c
        /\ ProcessedRequests(f, a, leads, cell) = <<Assign(f, a.asked, cell)>>
    BY <1>2 DEF Processed, ProcessedRequests
  <2>2. <<Assign(f, a.asked, cell)>> \in Seq(Requests)
    <3>1. Assign(f, a.asked, cell) \in Requests
      BY ActorFields, RequestsMade
    <3> QED BY <3>1
  <2>3. b \in ActorStates
    BY ActorFields, SlotFacts
  <2>4. c \in ActorStates
    <3>1. a.asked + 1 \in Nat
      BY DEF ActorStates
    <3> HIDE DEF b
    <3> QED BY <2>3, <3>1, ActorFields
  <2>5. c.local = None /\ c.remote = None
    BY <1>2 DEF MustAsk, ActorStates
  <2> QED BY <2>1, <2>2, <2>4, <2>5 DEF Waits
<1>3. CASE ~WouldTake(f, a, leads) /\ ~MustAsk(a)
  <2>1. Processed(f, a, leads) = a /\ ProcessedRequests(f, a, leads, cell) = <<>>
    BY <1>3 DEF Processed, ProcessedRequests
  <2> QED BY <2>1
<1> QED BY <1>1, <1>2, <1>3

---------------------------------------------------------------------------
(* The server.                                                             *)

LEMMA RequestTypes ==
    ASSUME NetTypes, NEW p \in Players, NEW type, Receives(p, type)
    PROVE  /\ Request(p) \in Requests /\ Request(p).type = type
           /\ toServer[p] \in Seq(Requests) /\ toServer[p] # <<>>
           /\ toServer' \in [Players -> Seq(Requests)]
           /\ p \in online /\ UNCHANGED <<actor, isLeader, lost>>
<1>1. /\ toServer[p] \in Seq(Requests) /\ toServer[p] # <<>> /\ p \in online
      /\ Head(toServer[p]).type = type /\ UNCHANGED <<actor, isLeader, lost>>
      /\ toServer' = [toServer EXCEPT ![p] = Tail(toServer[p])]
  BY DEF NetTypes, Receives
<1>2. Head(toServer[p]) \in Requests /\ Tail(toServer[p]) \in Seq(Requests)
  BY <1>1, HeadTailProperties
<1>3. toServer' \in [Players -> Seq(Requests)]
  BY <1>1, <1>2 DEF NetTypes
<1> QED BY <1>1, <1>2, <1>3 DEF Request

LEMMA SendTypes ==
    ASSUME NetTypes, NEW news, Send(news), \A p \in Players : news[p] \in Seq(Notes)
    PROVE  toClient' \in [Players -> Seq(Notes)]
<1>1. \A p \in Players : toClient[p] \o news[p] \in Seq(Notes)
  BY ConcatProperties DEF NetTypes
<1>2. <<>> \in Seq(Notes)
  BY EmptySeq
<1> QED BY <1>1, <1>2 DEF Send

LEMMA NewsTypes ==
    /\ \A p \in Players : Nobody[p] \in Seq(Notes)
    /\ \A p, q \in Players, m \in Notes : To(p, m)[q] \in Seq(Notes)
    /\ \A P : \A q \in Players, m \in Notes : ToEach(P, m)[q] \in Seq(Notes)
    /\ \A a, b : \A q \in Players :
          a[q] \in Seq(Notes) /\ b[q] \in Seq(Notes) => Then(a, b)[q] \in Seq(Notes)
<1>1. <<>> \in Seq(Notes) /\ \A m \in Notes : <<m>> \in Seq(Notes)
  BY EmptySeq
<1>2. \A p \in Players : Nobody[p] \in Seq(Notes)
  BY <1>1 DEF Nobody
<1>3. \A p, q \in Players, m \in Notes : To(p, m)[q] \in Seq(Notes)
  BY <1>1 DEF To, Nobody
<1>4. \A P : \A q \in Players, m \in Notes : ToEach(P, m)[q] \in Seq(Notes)
  BY <1>1 DEF ToEach
<1>5. \A a, b : \A q \in Players :
         a[q] \in Seq(Notes) /\ b[q] \in Seq(Notes) => Then(a, b)[q] \in Seq(Notes)
  BY ConcatProperties DEF Then
<1> QED BY <1>2, <1>3, <1>4, <1>5

(* Characters are numbered, and there are finitely many.                   *)
LEMMA CharactersNumbered ==
    ASSUME OwnershipInv
    PROVE  /\ DOMAIN chars \subseteq Ids /\ DOMAIN chars \subseteq Nat
           /\ IsFiniteSet(DOMAIN chars)
           /\ nextId \in Nat /\ nextId \notin DOMAIN chars
           /\ \A e \in DOMAIN chars : /\ e < nextId
                                      /\ chars[e].form \in Forms \cup {PlayerForm}
                                      /\ chars[e].owner \in online
                                      /\ chars[e].owner \in Players
<1>1. nextId \in Nat /\ nextId \in 0 .. MaxId /\ DOMAIN chars \subseteq 0 .. nextId - 1
  BY OwnershipAssumption DEF OwnershipInv, TypeOK
<1>2. IsFiniteSet(0 .. nextId - 1)
  BY <1>1, FS_Interval
<1>3. IsFiniteSet(DOMAIN chars)
  BY <1>1, <1>2, FS_Subset
<1> QED
  BY <1>1, <1>3, OwnershipAssumption
  DEF OwnershipInv, TypeOK, OwnersAreOnline, Character, Ids

(* What a hand-over is announced with.                                     *)
Announced(E, q) == {e \in E : IF e \in DOMAIN chars' THEN chars'[e].owner = q
                                                    ELSE chars[e].owner # q}

Announcement(e) == IF e \in DOMAIN chars' THEN Offer(e) ELSE Removal(e)

LEMMA HandOverTypes ==
    ASSUME OwnershipInv, NEW E \in SUBSET DOMAIN chars, NEW q \in Players
    PROVE  /\ HandOverNews(E)[q] = SetToSeq({Announcement(e) : e \in Announced(E, q)})
           /\ IsFiniteSet({Announcement(e) : e \in Announced(E, q)})
           /\ {Announcement(e) : e \in Announced(E, q)} \subseteq Notes
           /\ HandOverNews(E)[q] \in Seq(Notes)
<1> DEFINE told == Announced(E, q)
           news == {Announcement(e) : e \in told}
           f == [e \in told |-> Announcement(e)]
<1>1. HandOverNews(E)[q] = SetToSeq(news)
  BY DEF HandOverNews, Announced, Announcement
<1>2. IsFiniteSet(told)
  BY CharactersNumbered, FS_Subset DEF Announced
<1>3. f \in Surjection(told, news)
  BY DEF Surjection
<1>4. IsFiniteSet(news)
  <2> HIDE DEF told, news, f
  <2> QED BY <1>2, <1>3, FS_Surjection
<1>5. news \subseteq Notes
  BY CharactersNumbered, NotesMade, SlotFacts DEF Announced, Announcement
<1>6. SetToSeq(news) \in Seq(Notes)
  <2> HIDE DEF news
  <2> QED BY <1>4, <1>5, SetAsSeqTypes
<1> QED BY <1>1, <1>4, <1>5, <1>6

---------------------------------------------------------------------------
(* What the steps keep.                                                    *)

(* Where clients and messages are left alone, or messages are only read.   *)
LEMMA ServerKeeps ==
    ASSUME NetTypes, WaitsUnmanaged, UNCHANGED <<actor, isLeader, lost>>,
           toServer' \in [Players -> Seq(Requests)], toClient' \in [Players -> Seq(Notes)]
    PROVE  NetTypes' /\ WaitsUnmanaged'
BY DEF NetTypes, WaitsUnmanaged

LEMMA AssignStep ==
    ASSUME NetInv, NEW p \in Players, ServerAssign(p)
    PROVE  Next /\ NetTypes' /\ WaitsUnmanaged'
<1> DEFINE r == Request(p)
<1>1. /\ r \in Requests /\ r.type = "Assign" /\ UNCHANGED <<actor, isLeader, lost>>
      /\ toServer' \in [Players -> Seq(Requests)]
  BY RequestTypes DEF NetInv, ServerAssign
<1>2. r.form \in Forms /\ r.cookie \in Nat /\ r.cell \in Cells
  BY <1>1, RequestKinds
<1>3. nextId \in Nat
  BY CharactersNumbered DEF NetInv
<1>4. CASE OnAssignNew(p, r.form, r.cell)
           /\ Send(Then(To(p, Assigned(r.form, r.cookie, nextId, TRUE)),
                        ToEach(InRange(r.cell, p), Spawn(r.form, nextId))))
  <2>1. Assigned(r.form, r.cookie, nextId, TRUE) \in Notes /\ Spawn(r.form, nextId) \in Notes
    BY <1>2, <1>3, NotesMade
  <2>2. toClient' \in [Players -> Seq(Notes)]
    BY <1>4, <2>1, NewsTypes, SendTypes DEF NetInv
  <2>3. Next
    BY <1>2, <1>4 DEF Next
  <2> QED BY <1>1, <2>2, <2>3, ServerKeeps DEF NetInv
<1>5. ASSUME NEW e \in Managed(r.form), OnAssignManaged(p, e),
             Send(Then(IF MayTakeOver(p, e) THEN RelinquishedTo(p, e) ELSE Nobody,
                       To(p, Assigned(r.form, r.cookie, e, MayTakeOver(p, e)))))
      PROVE  Next /\ NetTypes' /\ WaitsUnmanaged'
  <2>1. e \in DOMAIN chars /\ e \in Ids /\ e \in Nat /\ chars[e].owner \in Players
    BY CharactersNumbered DEF Managed, NetInv
  <2>2. MayTakeOver(p, e) \in BOOLEAN
    BY DEF MayTakeOver
  <2>3. Assigned(r.form, r.cookie, e, MayTakeOver(p, e)) \in Notes /\ Relinquish(e) \in Notes
    BY <1>2, <2>1, <2>2, NotesMade, SlotFacts
  <2>4. \A q \in Players : RelinquishedTo(p, e)[q] \in Seq(Notes)
    BY <2>1, <2>3, NewsTypes DEF RelinquishedTo
  <2>5. \A q \in Players :
           (IF MayTakeOver(p, e) THEN RelinquishedTo(p, e) ELSE Nobody)[q] \in Seq(Notes)
    BY <2>4, NewsTypes
  <2>6. toClient' \in [Players -> Seq(Notes)]
    BY <1>5, <2>3, <2>5, NewsTypes, SendTypes DEF NetInv
  <2>7. Next
    BY <1>5, <2>1 DEF Next
  <2> QED BY <1>1, <2>6, <2>7, ServerKeeps DEF NetInv
<1> QED BY <1>4, <1>5 DEF ServerAssign

LEMMA ClaimStep ==
    ASSUME NetInv, NEW p \in Players, ServerClaim(p)
    PROVE  [Next]_ownVars /\ NetTypes' /\ WaitsUnmanaged'
<1> DEFINE e == Request(p).id
<1>1. /\ UNCHANGED <<actor, isLeader, lost>>
      /\ toServer' \in [Players -> Seq(Requests)]
  BY RequestTypes DEF NetInv, ServerClaim
<1>2. CASE e \in DOMAIN chars
  <2>1. e \in Ids /\ e \in Nat /\ chars[e].owner \in Players
    BY <1>2, CharactersNumbered DEF NetInv
  <2>2. OnOwnershipClaim(p, e) /\ Send(RelinquishedTo(p, e))
    BY <1>2 DEF ServerClaim
  <2>3. Relinquish(e) \in Notes
    BY <2>1, NotesMade, SlotFacts
  <2>4. \A q \in Players : RelinquishedTo(p, e)[q] \in Seq(Notes)
    BY <2>1, <2>3, NewsTypes DEF RelinquishedTo
  <2>5. toClient' \in [Players -> Seq(Notes)]
    BY <2>2, <2>4, SendTypes DEF NetInv
  <2>6. Next
    BY <2>1, <2>2 DEF Next
  <2> QED BY <1>1, <2>5, <2>6, ServerKeeps DEF NetInv
<1>3. CASE e \notin DOMAIN chars
  <2>1. UNCHANGED <<ownVars, toClient>>
    BY <1>3 DEF ServerClaim
  <2>2. toClient' \in [Players -> Seq(Notes)]
    BY <2>1 DEF NetInv, NetTypes
  <2> QED BY <1>1, <2>1, <2>2, ServerKeeps DEF NetInv
<1> QED BY <1>2, <1>3

LEMMA GiveUpStep ==
    ASSUME NetInv, NEW p \in Players, ServerGiveUp(p)
    PROVE  [Next]_ownVars /\ NetTypes' /\ WaitsUnmanaged'
<1> DEFINE r == Request(p)
           e == r.id
<1>1. /\ r \in Requests /\ r.type = "GiveUp" /\ UNCHANGED <<actor, isLeader, lost>>
      /\ toServer' \in [Players -> Seq(Requests)]
  BY RequestTypes DEF NetInv, ServerGiveUp
<1>2. r.cell \in Cells \cup {NoCell}
  BY <1>1, RequestKinds
<1>3. CASE e \in DOMAIN chars
  <2>1. e \in Ids
    BY <1>3, CharactersNumbered DEF NetInv
  <2>2. OnOwnershipTransfer(p, e, r.cell) /\ Send(HandOverNews({e}))
    BY <1>3 DEF ServerGiveUp
  <2>3. \A q \in Players : HandOverNews({e})[q] \in Seq(Notes)
    BY <1>3, HandOverTypes DEF NetInv
  <2>4. toClient' \in [Players -> Seq(Notes)]
    BY <2>2, <2>3, SendTypes DEF NetInv
  <2>5. Next
    BY <1>2, <2>1, <2>2 DEF Next
  <2> QED BY <1>1, <2>4, <2>5, ServerKeeps DEF NetInv
<1>4. CASE e \notin DOMAIN chars
  <2>1. UNCHANGED <<ownVars, toClient>>
    BY <1>4 DEF ServerGiveUp
  <2>2. toClient' \in [Players -> Seq(Notes)]
    BY <2>1 DEF NetInv, NetTypes
  <2> QED BY <1>1, <2>1, <2>2, ServerKeeps DEF NetInv
<1> QED BY <1>3, <1>4

LEMMA EnterCellStep ==
    ASSUME NetInv, NEW p \in Players, ServerEnterCell(p)
    PROVE  Next /\ NetTypes' /\ WaitsUnmanaged'
<1> DEFINE r == Request(p)
           there == {e \in DOMAIN chars : /\ chars[e].cell = r.cell
                                          /\ chars[e].owner # p
                                          /\ chars[e].form \in Forms}
           spawns == {Spawn(chars[e].form, e) : e \in there}
           f == [e \in there |-> Spawn(chars[e].form, e)]
           news == [Nobody EXCEPT ![p] = SetToSeq(spawns)]
<1>1. /\ r \in Requests /\ r.type = "EnterCell" /\ UNCHANGED <<actor, isLeader, lost>>
      /\ toServer' \in [Players -> Seq(Requests)]
  BY RequestTypes DEF NetInv, ServerEnterCell
<1>2. r.cell \in Cells
  BY <1>1, RequestKinds
<1>3. EnterCell(p, r.cell) /\ Send(news)
  BY DEF ServerEnterCell
<1>4. IsFiniteSet(there)
  BY CharactersNumbered, FS_Subset DEF NetInv
<1>5. spawns \subseteq Notes
  BY CharactersNumbered, NotesMade DEF NetInv
<1>6. IsFiniteSet(spawns)
  <2>1. f \in Surjection(there, spawns)
    BY DEF Surjection
  <2> HIDE DEF there, spawns, f
  <2> QED BY <1>4, <2>1, FS_Surjection
<1>7. SetToSeq(spawns) \in Seq(Notes)
  <2> HIDE DEF spawns
  <2> QED BY <1>5, <1>6, SetAsSeqTypes
<1>8. \A q \in Players : news[q] \in Seq(Notes)
  <2> HIDE DEF spawns
  <2> QED BY <1>7, NewsTypes DEF Nobody
<1>9. toClient' \in [Players -> Seq(Notes)]
  <2> HIDE DEF news
  <2> QED BY <1>3, <1>8, SendTypes DEF NetInv
<1>10. Next
  BY <1>2, <1>3 DEF Next
<1> QED BY <1>1, <1>9, <1>10, ServerKeeps DEF NetInv

(* One actor changes and requests are sent.                                *)
LEMMA BecomingTypes ==
    ASSUME NetTypes, WaitsUnmanaged, NEW p \in Players, NEW f \in Forms,
           NEW a \in ActorStates, Waits(a), NEW requests \in Seq(Requests),
           Becomes(p, f, a, requests)
    PROVE  /\ actor' \in [Players -> [Forms -> ActorStates]]
           /\ toServer' \in [Players -> Seq(Requests)]
           /\ WaitsUnmanaged'
           /\ actor' = [actor EXCEPT ![p][f] = a]
           /\ toServer' = [toServer EXCEPT ![p] =
                              IF p \in online THEN toServer[p] \o requests ELSE <<>>]
<1>1. /\ actor' = [actor EXCEPT ![p][f] = a]
      /\ toServer' = [toServer EXCEPT ![p] =
                         IF p \in online THEN toServer[p] \o requests ELSE <<>>]
  BY DEF Becomes
<1>2. toServer[p] \o requests \in Seq(Requests) /\ <<>> \in Seq(Requests)
  BY ConcatProperties, EmptySeq DEF NetTypes
<1>3. toServer' \in [Players -> Seq(Requests)]
  BY <1>1, <1>2 DEF NetTypes
<1>4. actor' \in [Players -> [Forms -> ActorStates]]
  BY <1>1 DEF NetTypes
<1>5. \A q \in Players, g \in Forms :
         actor'[q][g] = IF q = p /\ g = f THEN a ELSE actor[q][g]
  BY <1>1 DEF NetTypes
<1>6. WaitsUnmanaged'
  BY <1>5 DEF WaitsUnmanaged, Waits
<1> QED BY <1>1, <1>3, <1>4, <1>6

LEMMA NoteTypes ==
    ASSUME NetTypes, NEW p \in Players, NEW type, Hears(p, type)
    PROVE  /\ News(p) \in Notes /\ News(p).type = type
           /\ toClient[p] \in Seq(Notes) /\ toClient[p] # <<>> /\ p \in online
           /\ toClient' = [toClient EXCEPT ![p] = Tail(toClient[p])]
           /\ toClient' \in [Players -> Seq(Notes)]
           /\ lost' \in [Players -> SUBSET Forms]
           /\ UNCHANGED ownVars
<1>1. /\ toClient[p] \in Seq(Notes) /\ toClient[p] # <<>> /\ p \in online
      /\ News(p).type = type
      /\ toClient' = [toClient EXCEPT ![p] = Tail(toClient[p])]
      /\ UNCHANGED ownVars
  BY DEF NetTypes, Hears
<1>2. News(p) \in Notes /\ Tail(toClient[p]) \in Seq(Notes)
  BY <1>1, HeadTailProperties DEF News
<1>3. toClient' \in [Players -> Seq(Notes)]
  BY <1>1, <1>2 DEF NetTypes
<1>4. lost' \in [Players -> SUBSET Forms]
  <2>1. type = "Spawn" => News(p).form \in Forms
    BY <1>1, <1>2, NoteKinds
  <2> QED BY <2>1 DEF Hears, NetTypes
<1> QED BY <1>1, <1>2, <1>3, <1>4

(* Which actor a state is the one of.                                      *)
LEMMA ActorFacts ==
    ASSUME NetInv, NEW p \in Players, NEW f \in Forms
    PROVE  actor[p][f] \in ActorStates /\ Waits(actor[p][f])
BY DEF NetInv, NetTypes, WaitsUnmanaged, Waits

(* How a client learns who owns what it asked for.                         *)
Answered(a, m) ==
    [a EXCEPT !.waiting = None,
              !.local  = IF a.remote # None \/ a.local # None \/ ~m.owner THEN @ ELSE m.id,
              !.remote = IF a.remote # None \/ a.local # None \/ m.owner THEN @ ELSE m.id]

LEMMA AnsweredState ==
    ASSUME NEW a \in ActorStates, NEW m \in Notes, m.type = "Assigned"
    PROVE  /\ Answered(a, m) \in ActorStates
           /\ Answered(a, m).waiting = None
           /\ Answered(a, m).local =
                 IF a.remote # None \/ a.local # None \/ ~m.owner THEN a.local ELSE m.id
           /\ Answered(a, m).remote =
                 IF a.remote # None \/ a.local # None \/ m.owner THEN a.remote ELSE m.id
           /\ Answered(a, m).asked = a.asked
<1>1. m.id \in Slot
  BY NoteKinds, SlotFacts
<1> DEFINE x == IF a.remote # None \/ a.local # None \/ ~m.owner THEN a.local ELSE m.id
           y == IF a.remote # None \/ a.local # None \/ m.owner THEN a.remote ELSE m.id
<1>2. x \in Slot /\ y \in Slot
  BY <1>1, ActorFields
<1>3. Answered(a, m) = [a EXCEPT !.waiting = None, !.local = x, !.remote = y]
  BY DEF Answered
<1> HIDE DEF x, y
<1>4. /\ Answered(a, m) \in ActorStates
      /\ Answered(a, m).waiting = None
      /\ Answered(a, m).local = x
      /\ Answered(a, m).remote = y
      /\ Answered(a, m).asked = a.asked
  BY <1>2, <1>3, SlotFacts DEF ActorStates
<1> QED BY <1>4 DEF x, y

LEMMA AnswerStep ==
    ASSUME NetInv, NEW p \in Players, OnAssignCharacter(p)
    PROVE  UNCHANGED ownVars /\ NetTypes' /\ WaitsUnmanaged'
<1> DEFINE m == News(p)
           a == actor[p][m.form]
<1>1. /\ m \in Notes /\ m.type = "Assigned" /\ UNCHANGED ownVars
      /\ toClient' \in [Players -> Seq(Notes)] /\ lost' \in [Players -> SUBSET Forms]
  BY NoteTypes DEF NetInv, OnAssignCharacter
<1>2. m.form \in Forms
  BY <1>1, NoteKinds
<1>3. a \in ActorStates
  BY <1>2, ActorFacts
<1>4. CASE a.waiting # m.cookie
  <2>1. UNCHANGED <<toServer, actor, isLeader>>
    BY <1>4 DEF OnAssignCharacter, Ignore
  <2> QED BY <1>1, <2>1 DEF NetInv, NetTypes, WaitsUnmanaged
<1>5. CASE a.waiting = m.cookie
  <2>1. Becomes(p, m.form, Answered(a, m), <<>>) /\ isLeader' = isLeader
    BY <1>5 DEF OnAssignCharacter, Answered
  <2>2. Answered(a, m) \in ActorStates /\ Waits(Answered(a, m))
    BY <1>1, <1>3, AnsweredState DEF Waits
  <2>3. <<>> \in Seq(Requests)
    BY EmptySeq
  <2> HIDE DEF a, m
  <2> QED BY <1>1, <1>2, <2>1, <2>2, <2>3, BecomingTypes DEF NetInv, NetTypes
<1> QED BY <1>4, <1>5

LEMMA SpawnStep ==
    ASSUME NetInv, NEW p \in Players, OnCharacterSpawn(p)
    PROVE  UNCHANGED ownVars /\ NetTypes' /\ WaitsUnmanaged'
<1> DEFINE m == News(p)
           a == actor[p][m.form]
           b == [a EXCEPT !.remote = m.id]
<1>1. /\ m \in Notes /\ m.type = "Spawn" /\ UNCHANGED ownVars
      /\ toClient' \in [Players -> Seq(Notes)] /\ lost' \in [Players -> SUBSET Forms]
  BY NoteTypes DEF NetInv, OnCharacterSpawn
<1>2. m.form \in Forms /\ m.id \in Slot
  BY <1>1, NoteKinds, SlotFacts
<1>3. a \in ActorStates
  BY <1>2, ActorFacts
<1>4. isLeader' = isLeader
  BY DEF OnCharacterSpawn
<1>5. CASE Ignore
  <2>1. UNCHANGED <<toServer, actor>>
    BY <1>5 DEF Ignore
  <2> QED BY <1>1, <1>4, <2>1 DEF NetInv, NetTypes, WaitsUnmanaged
<1>6. CASE Becomes(p, m.form, b, <<>>) /\ a.waiting = None
  <2>1. b \in ActorStates
    BY <1>2, <1>3, ActorFields
  <2>2. Waits(b)
    BY <1>3, <1>6 DEF Waits, ActorStates
  <2>3. <<>> \in Seq(Requests)
    BY EmptySeq
  <2> HIDE DEF b, m
  <2> QED BY <1>1, <1>2, <1>4, <1>6, <2>1, <2>2, <2>3, BecomingTypes DEF NetInv, NetTypes
<1> QED BY <1>5, <1>6 DEF OnCharacterSpawn

LEMMA OfferStep ==
    ASSUME NetInv, NEW p \in Players, OnOwnershipOffer(p)
    PROVE  UNCHANGED ownVars /\ NetTypes' /\ WaitsUnmanaged'
<1> DEFINE e == News(p).id
<1>1. /\ News(p) \in Notes /\ News(p).type = "Offer" /\ UNCHANGED ownVars
      /\ toClient' \in [Players -> Seq(Notes)] /\ lost' \in [Players -> SUBSET Forms]
  BY NoteTypes DEF NetInv, OnOwnershipOffer
<1>2. e \in Slot
  BY <1>1, NoteKinds, SlotFacts
<1>3. isLeader' = isLeader
  BY DEF OnOwnershipOffer
<1>4. ASSUME NEW f \in RemoteAs(p, e), Becomes(p, f, Taken(actor[p][f]), <<Claim(e)>>)
      PROVE  UNCHANGED ownVars /\ NetTypes' /\ WaitsUnmanaged'
  <2> DEFINE b == Taken(actor[p][f])
  <2>1. f \in Forms /\ actor[p][f].remote = e
    BY DEF RemoteAs
  <2>2. b \in ActorStates
    BY <2>1, ActorFacts, TakenState
  <2>3. Waits(b)
    BY <2>1, ActorFacts, TakenState DEF Waits
  <2>4. <<Claim(e)>> \in Seq(Requests)
    <3>1. Claim(e) \in Requests
      BY <1>2, RequestsMade
    <3> QED BY <3>1
  <2> HIDE DEF b, e
  <2> QED BY <1>1, <1>3, <1>4, <2>1, <2>2, <2>3, <2>4, BecomingTypes DEF NetInv, NetTypes, b
<1>5. CASE toServer' = [toServer EXCEPT ![p] = Append(toServer[p], GiveUp(e, NoCell))]
           /\ actor' = actor
  <2>1. GiveUp(e, NoCell) \in Requests
    BY <1>2, RequestsMade
  <2>2. Append(toServer[p], GiveUp(e, NoCell)) \in Seq(Requests)
    BY <2>1, AppendProperties DEF NetInv, NetTypes
  <2>3. toServer' \in [Players -> Seq(Requests)]
    BY <1>5, <2>2 DEF NetInv, NetTypes
  <2> QED BY <1>1, <1>3, <1>5, <2>3 DEF NetInv, NetTypes, WaitsUnmanaged
<1> QED BY <1>4, <1>5 DEF OnOwnershipOffer

LEMMA RemoveStep ==
    ASSUME NetInv, NEW p \in Players, OnRemoveCharacter(p)
    PROVE  UNCHANGED ownVars /\ NetTypes' /\ WaitsUnmanaged'
<1>1. /\ UNCHANGED ownVars
      /\ toClient' \in [Players -> Seq(Notes)] /\ lost' \in [Players -> SUBSET Forms]
  BY NoteTypes DEF NetInv, OnRemoveCharacter
<1>2. UNCHANGED <<toServer, isLeader>>
  BY DEF OnRemoveCharacter
<1> DEFINE After(f) == IF actor[p][f].remote = News(p).id
                       THEN [actor[p][f] EXCEPT !.remote = None] ELSE actor[p][f]
<1>3. actor' = [actor EXCEPT ![p] = [f \in Forms |-> After(f)]]
  BY DEF OnRemoveCharacter
<1>4. \A f \in Forms : After(f) \in ActorStates /\ Waits(After(f))
  <2> TAKE f \in Forms
  <2>1. actor[p][f] \in ActorStates /\ Waits(actor[p][f])
    BY ActorFacts
  <2> QED BY <2>1, SlotFacts DEF Waits, ActorStates
<1> HIDE DEF After
<1>5. actor' \in [Players -> [Forms -> ActorStates]]
  BY <1>3, <1>4 DEF NetInv, NetTypes
<1>6. WaitsUnmanaged'
  BY <1>3, <1>4, ActorFacts DEF WaitsUnmanaged, Waits, NetInv, NetTypes
<1> QED BY <1>1, <1>2, <1>5, <1>6 DEF NetInv, NetTypes

LEMMA RelinquishStep ==
    ASSUME NetInv, NEW p \in Players, OnRelinquishControl(p)
    PROVE  UNCHANGED ownVars /\ NetTypes' /\ WaitsUnmanaged'
<1> DEFINE e == News(p).id
<1>1. /\ News(p) \in Notes /\ News(p).type = "Relinquish" /\ UNCHANGED ownVars
      /\ toClient' \in [Players -> Seq(Notes)] /\ lost' \in [Players -> SUBSET Forms]
  BY NoteTypes DEF NetInv, OnRelinquishControl
<1>2. e \in Slot
  BY <1>1, NoteKinds, SlotFacts
<1>3. isLeader' = isLeader
  BY DEF OnRelinquishControl
<1>4. CASE Ignore
  BY <1>1, <1>3, <1>4 DEF Ignore, NetInv, NetTypes, WaitsUnmanaged
<1>5. ASSUME NEW f \in Forms, NEW b,
             b = IF actor[p][f].local = None THEN actor[p][f]
                 ELSE [actor[p][f] EXCEPT !.local = None, !.remote = e],
             Becomes(p, f, b, <<>>)
      PROVE  UNCHANGED ownVars /\ NetTypes' /\ WaitsUnmanaged'
  <2>1. actor[p][f] \in ActorStates /\ Waits(actor[p][f])
    BY ActorFacts
  <2>2. b \in ActorStates /\ Waits(b)
    BY <1>2, <1>5, <2>1, SlotFacts DEF Waits, ActorStates
  <2>3. <<>> \in Seq(Requests)
    BY EmptySeq
  <2> QED BY <1>1, <1>3, <1>5, <2>2, <2>3, BecomingTypes DEF NetInv, NetTypes
<1> QED BY <1>4, <1>5 DEF OnRelinquishControl

(* What a client that processes all its actors asks for.                   *)
LEMMA AskedFinite ==
    ASSUME NEW a \in [Forms -> ActorStates], NEW leads \in BOOLEAN, NEW cell \in Cells
    PROVE  /\ IsFiniteSet(UNION {ToSet(ProcessedRequests(f, a[f], leads, cell)) :
                                    f \in {g \in Forms : a[g].loaded}})
           /\ UNION {ToSet(ProcessedRequests(f, a[f], leads, cell)) :
                       f \in {g \in Forms : a[g].loaded}} \subseteq Requests
<1> DEFINE F == {g \in Forms : a[g].loaded}
           R(f) == ToSet(ProcessedRequests(f, a[f], leads, cell))
           h == [f \in F |-> R(f)]
           all == UNION {R(f) : f \in F}
<1>6. \A f \in F : R(f) \subseteq Requests /\ IsFiniteSet(R(f))
  <2> TAKE f \in F
  <2>1. ProcessedRequests(f, a[f], leads, cell) \in Seq(Requests)
    BY ProcessedState
  <2> DEFINE q == ProcessedRequests(f, a[f], leads, cell)
  <2>2. Len(q) \in Nat /\ DOMAIN q = 1 .. Len(q) /\ R(f) = {q[i] : i \in DOMAIN q}
    BY <2>1, LenProperties DEF ToSet
  <2>3. q \in Surjection(1 .. Len(q), R(f))
    <3> HIDE DEF q
    <3>1. q \in [1 .. Len(q) -> R(f)]
      BY <2>1, <2>2 DEF q
    <3> QED BY <2>2, <3>1 DEF Surjection
  <2>4. IsFiniteSet(1 .. Len(q))
    <3>1. 1 \in Int /\ Len(q) \in Int
      BY <2>2
    <3> HIDE DEF q
    <3> QED BY <3>1, FS_Interval
  <2>5. IsFiniteSet(R(f))
    <3> HIDE DEF q, R
    <3> QED BY <2>3, <2>4, FS_Surjection
  <2>6. R(f) \subseteq Requests
    BY <2>1, <2>2
  <2> QED BY <2>5, <2>6
<1>7. IsFiniteSet(F)
  BY NetAssumption, FS_Subset
<1>8. IsFiniteSet({R(f) : f \in F})
  <2>1. h \in Surjection(F, {R(f) : f \in F})
    BY DEF Surjection
  <2> HIDE DEF R, F, h
  <2> QED BY <1>7, <2>1, FS_Surjection
<1>9. IsFiniteSet(all) /\ all \subseteq Requests
  <2> HIDE DEF R, F
  <2> QED BY <1>6, <1>8, FS_UNION
<1> QED BY <1>9

(* Every loaded actor is processed.                                        *)
LEMMA ProcessingTypes ==
    ASSUME NetTypes, NEW p \in Players, NEW a \in [Forms -> ActorStates],
           \A f \in Forms : Waits(a[f]), WaitsUnmanaged,
           NEW leads \in BOOLEAN, NEW sent \in Seq(Requests), ProcessAll(p, a, leads, sent)
    PROVE  /\ actor' \in [Players -> [Forms -> ActorStates]]
           /\ toServer' \in [Players -> Seq(Requests)]
           /\ WaitsUnmanaged'
<1> DEFINE After(f) == IF a[f].loaded THEN Processed(f, a[f], leads) ELSE a[f]
<1>1. actor' = [actor EXCEPT ![p] = [f \in Forms |-> After(f)]]
  BY DEF ProcessAll
<1>2. PICK cell \in Cells : toServer' = [toServer EXCEPT ![p] = sent \o
          SetToSeq(UNION {ToSet(ProcessedRequests(f, a[f], leads, cell)) :
                            f \in {g \in Forms : a[g].loaded}})]
  BY DEF ProcessAll
<1>3. \A f \in Forms : After(f) \in ActorStates /\ Waits(After(f))
  BY <1>2, ProcessedState
<1> HIDE DEF After
<1>4. actor' \in [Players -> [Forms -> ActorStates]]
  BY <1>1, <1>3 DEF NetTypes
<1>5. WaitsUnmanaged'
  BY <1>1, <1>3 DEF WaitsUnmanaged, Waits, NetTypes
<1> DEFINE all == UNION {ToSet(ProcessedRequests(f, a[f], leads, cell)) :
                            f \in {g \in Forms : a[g].loaded}}
<1>9. IsFiniteSet(all) /\ all \subseteq Requests
  BY AskedFinite
<1>10. sent \o SetToSeq(all) \in Seq(Requests)
  <2> HIDE DEF all
  <2> QED BY <1>9, SetAsSeqTypes, ConcatProperties
<1>11. toServer' \in [Players -> Seq(Requests)]
  BY <1>2, <1>10 DEF NetTypes
<1> QED BY <1>4, <1>5, <1>11

LEMMA PartyNewsStep ==
    ASSUME NetInv, NEW p \in Players, OnPartyJoined(p) \/ OnPartyNews(p)
    PROVE  UNCHANGED ownVars /\ NetTypes' /\ WaitsUnmanaged'
<1>1. /\ News(p) \in Notes /\ News(p).type \in {"PartyJoined", "PartyNews"}
      /\ UNCHANGED ownVars
      /\ toClient' \in [Players -> Seq(Notes)] /\ lost' \in [Players -> SUBSET Forms]
  BY NoteTypes DEF NetInv, OnPartyJoined, OnPartyNews
<1>2. News(p).isLeader \in BOOLEAN
  BY <1>1, NoteKinds
<1>3. isLeader' \in [Players -> BOOLEAN]
  BY <1>2 DEF OnPartyJoined, OnPartyNews, NetInv, NetTypes
<1>4. CASE Ignore
  BY <1>1, <1>3, <1>4 DEF Ignore, NetInv, NetTypes, WaitsUnmanaged
<1>5. CASE ProcessAll(p, actor[p], TRUE, toServer[p])
  <2>1. /\ actor[p] \in [Forms -> ActorStates] /\ toServer[p] \in Seq(Requests)
        /\ \A f \in Forms : Waits(actor[p][f])
    BY ActorFacts DEF NetInv, NetTypes
  <2> QED BY <1>1, <1>3, <1>5, <2>1, ProcessingTypes DEF NetInv, NetTypes
<1> QED BY <1>4, <1>5 DEF OnPartyJoined, OnPartyNews

LEMMA LoadStep ==
    ASSUME NetInv, NEW p \in Players, NEW f \in Forms, OnActorAdded(p, f)
    PROVE  UNCHANGED ownVars /\ NetTypes' /\ WaitsUnmanaged'
<1> DEFINE a == [actor[p][f] EXCEPT !.loaded = TRUE]
<1>1. a \in ActorStates /\ Waits(a)
  <2>1. actor[p][f] \in ActorStates /\ Waits(actor[p][f])
    BY ActorFacts
  <2> QED BY <2>1 DEF ActorStates, Waits
<1>2. UNCHANGED <<ownVars, toClient, isLeader, lost>>
  BY DEF OnActorAdded
<1>3. isLeader[p] \in BOOLEAN
  BY DEF NetInv, NetTypes
<1>4. \/ \E cell \in Cells : Becomes(p, f, Processed(f, a, isLeader[p]),
                                     ProcessedRequests(f, a, isLeader[p], cell))
      \/ Becomes(p, f, a, <<>>)
  BY DEF OnActorAdded
<1> HIDE DEF a
<1>5. ASSUME NEW cell \in Cells,
             Becomes(p, f, Processed(f, a, isLeader[p]),
                     ProcessedRequests(f, a, isLeader[p], cell))
      PROVE  UNCHANGED ownVars /\ NetTypes' /\ WaitsUnmanaged'
  <2>1. /\ Processed(f, a, isLeader[p]) \in ActorStates
        /\ ProcessedRequests(f, a, isLeader[p], cell) \in Seq(Requests)
        /\ Waits(Processed(f, a, isLeader[p]))
    BY <1>1, <1>3, ProcessedState
  <2> QED BY <1>2, <1>5, <2>1, BecomingTypes DEF NetInv, NetTypes
<1>6. CASE Becomes(p, f, a, <<>>)
  <2>1. <<>> \in Seq(Requests)
    BY EmptySeq
  <2> QED BY <1>1, <1>2, <1>6, <2>1, BecomingTypes DEF NetInv, NetTypes
<1> QED BY <1>4, <1>5, <1>6

LEMMA UnloadStep ==
    ASSUME NetInv, NEW p \in Players, NEW f \in Forms, OnActorRemoved(p, f)
    PROVE  UNCHANGED ownVars /\ NetTypes' /\ WaitsUnmanaged'
<1> DEFINE a == actor[p][f]
<1>1. a \in ActorStates /\ a.asked \in Nat /\ a.local \in Slot
  BY ActorFacts, ActorFields
<1>2. UNCHANGED <<ownVars, toClient, isLeader>>
  BY DEF OnActorRemoved
<1>3. lost' \in [Players -> SUBSET Forms]
  BY DEF OnActorRemoved, NetInv, NetTypes
<1>4. PICK cell \in Cells : Becomes(p, f, Unmanaged(a, FALSE), Cancelled(a, cell))
  BY DEF OnActorRemoved
<1>5. Unmanaged(a, FALSE) \in ActorStates /\ Waits(Unmanaged(a, FALSE))
  BY <1>1, UnmanagedState DEF Waits
<1>6. Cancelled(a, cell) \in Seq(Requests)
  <2>1. GiveUp(a.local, cell) \in Requests
    BY <1>1, RequestsMade
  <2>2. <<GiveUp(a.local, cell)>> \in Seq(Requests) /\ <<>> \in Seq(Requests)
    BY <2>1, EmptySeq
  <2> QED BY <2>2 DEF Cancelled
<1> HIDE DEF a
<1> QED BY <1>2, <1>3, <1>4, <1>5, <1>6, BecomingTypes DEF NetInv, NetTypes

LEMMA TravelStep ==
    ASSUME NetInv, NEW p \in Players, NEW cell \in Cells, Travel(p, cell)
    PROVE  UNCHANGED ownVars /\ NetTypes' /\ WaitsUnmanaged'
<1>1. /\ UNCHANGED <<ownVars, toClient, actor, isLeader, lost>>
      /\ toServer' = [toServer EXCEPT ![p] = Append(toServer[p], Enter(cell))]
  BY DEF Travel
<1>2. Append(toServer[p], Enter(cell)) \in Seq(Requests)
  BY RequestsMade, AppendProperties DEF NetInv, NetTypes
<1>3. toServer' \in [Players -> Seq(Requests)]
  BY <1>1, <1>2 DEF NetInv, NetTypes
<1> QED BY <1>1, <1>3 DEF NetInv, NetTypes, WaitsUnmanaged

LEMMA ConnectStep ==
    ASSUME NetInv, NEW p \in Players, ServerConnect(p)
    PROVE  Next /\ NetTypes' /\ WaitsUnmanaged'
<1>1. /\ Connect(p) /\ ProcessAll(p, actor[p], FALSE, <<>>) /\ Send(Nobody)
      /\ UNCHANGED <<isLeader, lost>>
  BY DEF ServerConnect
<1>2. /\ actor[p] \in [Forms -> ActorStates] /\ <<>> \in Seq(Requests)
      /\ \A f \in Forms : Waits(actor[p][f])
  BY ActorFacts, EmptySeq DEF NetInv, NetTypes
<1>3. /\ actor' \in [Players -> [Forms -> ActorStates]]
      /\ toServer' \in [Players -> Seq(Requests)]
      /\ WaitsUnmanaged'
  BY <1>1, <1>2, ProcessingTypes DEF NetInv
<1>4. toClient' \in [Players -> Seq(Notes)]
  BY <1>1, NewsTypes, SendTypes DEF NetInv
<1>5. Next
  BY <1>1 DEF Next
<1> QED BY <1>1, <1>3, <1>4, <1>5 DEF NetInv, NetTypes

LEMMA DisconnectStep ==
    ASSUME NetInv, NEW p \in Players, ServerDisconnect(p)
    PROVE  Next /\ NetTypes' /\ WaitsUnmanaged'
<1> DEFINE E == {e \in DOMAIN chars : e \notin DOMAIN chars' \/ chars'[e] # chars[e]}
           news == IF leader = p /\ leader' # NoOne
                   THEN To(leader', PartyNews("PartyNews", TRUE)) ELSE Nobody
<1>1. /\ Disconnect(p)
      /\ Send(Then(HandOverNews(E), news))
      /\ toServer' = [toServer EXCEPT ![p] = <<>>]
      /\ actor' = [actor EXCEPT ![p] = [f \in Forms |->
                      Unmanaged(actor[p][f], actor[p][f].loaded)]]
      /\ isLeader' = [isLeader EXCEPT ![p] = FALSE]
      /\ lost' = [lost EXCEPT ![p] = {}]
  BY DEF ServerDisconnect
<1>2. Next
  BY <1>1 DEF Next
<1>3. leader' \in Players \cup {NoOne}
  BY <1>2, NextOwnershipInv DEF NetInv, OwnershipInv, TypeOK
<1>4. \A q \in Players : news[q] \in Seq(Notes)
  BY <1>3, NewsTypes, NotesMade
<1>5. \A q \in Players : HandOverNews(E)[q] \in Seq(Notes)
  <2>1. E \in SUBSET DOMAIN chars
    OBVIOUS
  <2> HIDE DEF E
  <2> QED BY <2>1, HandOverTypes DEF NetInv
<1> HIDE DEF E, news
<1>6. toClient' \in [Players -> Seq(Notes)]
  BY <1>1, <1>4, <1>5, NewsTypes, SendTypes DEF NetInv
<1>7. \A f \in Forms : /\ Unmanaged(actor[p][f], actor[p][f].loaded) \in ActorStates
                       /\ Waits(Unmanaged(actor[p][f], actor[p][f].loaded))
  <2> TAKE f \in Forms
  <2>1. actor[p][f].asked \in Nat /\ actor[p][f].loaded \in BOOLEAN
    BY ActorFacts, ActorFields
  <2> QED BY <2>1, UnmanagedState DEF Waits
<1>8. actor' \in [Players -> [Forms -> ActorStates]]
  BY <1>1, <1>7 DEF NetInv, NetTypes
<1>9. WaitsUnmanaged'
  BY <1>1, <1>7 DEF NetInv, NetTypes, WaitsUnmanaged, Waits
<1>10. toServer' \in [Players -> Seq(Requests)]
  BY <1>1, EmptySeq DEF NetInv, NetTypes
<1> QED BY <1>1, <1>2, <1>6, <1>8, <1>9, <1>10 DEF NetInv, NetTypes

LEMMA PlayerActorStep ==
    ASSUME NetInv, NEW p \in Players, NEW cell \in Cells, ServerPlayerActor(p, cell)
    PROVE  Next /\ NetTypes' /\ WaitsUnmanaged'
BY DEF ServerPlayerActor, Next, netVars, NetInv, NetTypes, WaitsUnmanaged

LEMMA PartyStep ==
    ASSUME NetInv, NEW p \in Players, ServerParty(p)
    PROVE  Next /\ NetTypes' /\ WaitsUnmanaged'
<1> DEFINE news == IF leader = p /\ leader' # NoOne
                   THEN To(leader', PartyNews("PartyNews", TRUE)) ELSE Nobody
<1>1. UNCHANGED <<toServer, actor, isLeader, lost>>
  BY DEF ServerParty
<1>2. \A t \in {"PartyJoined", "PartyNews"}, b \in BOOLEAN : PartyNews(t, b) \in Notes
  BY NotesMade
<1>3. ASSUME NEW M \in SUBSET online, PartyForms(p, M),
             Send(To(p, PartyNews("PartyJoined", TRUE)))
      PROVE  Next /\ toClient' \in [Players -> Seq(Notes)]
  <2>1. M \in SUBSET Players
    BY DEF NetInv, OwnershipInv, TypeOK
  <2>2. Next
    BY <1>3, <2>1 DEF Next
  <2> QED BY <1>2, <1>3, <2>2, NewsTypes, SendTypes DEF NetInv
<1>4. ASSUME PartyShrinks(p), Send(Then(To(p, PartyNews("PartyNews", FALSE)), news))
      PROVE  Next /\ toClient' \in [Players -> Seq(Notes)]
  <2>1. Next
    BY <1>4 DEF Next
  <2>2. leader' \in Players \cup {NoOne}
    BY <2>1, NextOwnershipInv DEF NetInv, OwnershipInv, TypeOK
  <2>3. \A q \in Players : news[q] \in Seq(Notes)
    BY <1>2, <2>2, NewsTypes
  <2> HIDE DEF news
  <2> QED BY <1>2, <1>4, <2>1, <2>3, NewsTypes, SendTypes DEF NetInv
<1>5. Next /\ toClient' \in [Players -> Seq(Notes)]
  BY <1>3, <1>4 DEF ServerParty
<1>6. toServer' \in [Players -> Seq(Requests)]
  BY <1>1 DEF NetInv, NetTypes
<1> QED BY <1>1, <1>5, <1>6, ServerKeeps DEF NetInv

---------------------------------------------------------------------------
(* The server of the composition is the server of Ownership.               *)

LEMMA NetStep ==
    ASSUME NetInv, [NetNext]_vars
    PROVE  [Next]_ownVars /\ NetInv'
<1>1. [Next]_ownVars /\ NetTypes' /\ WaitsUnmanaged'
  <2>1. ASSUME NEW p \in Players, ServerReads(p)
        PROVE  [Next]_ownVars /\ NetTypes' /\ WaitsUnmanaged'
    BY <2>1, AssignStep, ClaimStep, GiveUpStep, EnterCellStep DEF ServerReads
  <2>2. ASSUME NEW p \in Players, ClientReads(p)
        PROVE  [Next]_ownVars /\ NetTypes' /\ WaitsUnmanaged'
    BY <2>2, AnswerStep, SpawnStep, OfferStep, RemoveStep, RelinquishStep, PartyNewsStep
    DEF ClientReads
  <2>3. ASSUME NEW p \in Players,
               ServerConnect(p) \/ ServerDisconnect(p) \/ ServerParty(p)
        PROVE  [Next]_ownVars /\ NetTypes' /\ WaitsUnmanaged'
    BY <2>3, ConnectStep, DisconnectStep, PartyStep
  <2>4. ASSUME NEW p \in Players, NEW cell \in Cells,
               ServerPlayerActor(p, cell) \/ Travel(p, cell)
        PROVE  [Next]_ownVars /\ NetTypes' /\ WaitsUnmanaged'
    BY <2>4, PlayerActorStep, TravelStep
  <2>5. ASSUME NEW p \in Players, NEW f \in Forms,
               OnActorAdded(p, f) \/ OnActorRemoved(p, f)
        PROVE  [Next]_ownVars /\ NetTypes' /\ WaitsUnmanaged'
    BY <2>5, LoadStep, UnloadStep
  <2>6. CASE UNCHANGED vars
    BY <2>6 DEF vars, netVars, NetInv, NetTypes, WaitsUnmanaged
  <2> QED BY <2>1, <2>2, <2>3, <2>4, <2>5, <2>6 DEF NetNext
<1>2. OwnershipInv'
  <2>1. CASE Next
    BY <2>1, NextOwnershipInv DEF NetInv
  <2>2. CASE UNCHANGED ownVars
    BY <2>2 DEF NetInv, OwnershipInv, TypeOK, OwnersAreOnline, OneCharacterPerForm, ownVars
  <2> QED BY <1>1, <2>1, <2>2
<1> QED BY <1>1, <1>2 DEF NetInv

LEMMA NetInitInv == NetInit => Init /\ NetInv
<1> SUFFICES ASSUME NetInit PROVE Init /\ NetInv
  OBVIOUS
<1>1. Init /\ OwnershipInv
  BY InitOwnershipInv DEF NetInit
<1> DEFINE a == Unmanaged([asked |-> 0], FALSE)
<1>2. a \in ActorStates /\ a.waiting = None
  BY UnmanagedState
<1> HIDE DEF a
<1>3. actor = [p \in Players |-> [f \in Forms |-> a]]
  BY DEF NetInit, a
<1>4. WaitsUnmanaged
  BY <1>2, <1>3 DEF WaitsUnmanaged
<1>5. actor \in [Players -> [Forms -> ActorStates]]
  BY <1>2, <1>3
<1>6. NetTypes
  BY <1>5, EmptySeq DEF NetInit, NetTypes, Nobody
<1> QED BY <1>1, <1>4, <1>6 DEF NetInv

(* What the clients really send is among what the server of Ownership may  *)
(* be sent: each run of the composition is a run of the server alone, so   *)
(* that what holds there of the owners, the entities and the hand-overs    *)
(* holds with the clients and the messages too.                            *)
THEOREM NetImplementsOwnership == NetSpec => Spec
<1>1. NetInit => Init /\ NetInv
  BY NetInitInv
<1>2. NetInv /\ [NetNext]_vars => [Next]_ownVars /\ NetInv'
  BY NetStep
<1> QED BY <1>1, <1>2, PTL DEF NetSpec, Spec

(* With the clients and the messages: the table of characters is sound and *)
(* no character is handed to one who has refused it.                       *)
COROLLARY NetServerSafety == NetSpec => []OwnershipInv /\ RefusalsStand
<1>1. NetSpec => Spec
  BY NetImplementsOwnership
<1> QED BY <1>1, OwnershipSafety, RefusalsAreRespected, PTL

(* A client never waits for the assignment of an actor it manages already: *)
(* the branch of OnAssignCharacter for that is dead.                       *)
THEOREM WaitsAlwaysUnmanaged == NetSpec => []WaitsUnmanaged
<1>1. NetInit => NetInv
  BY NetInitInv
<1>2. NetInv /\ [NetNext]_vars => NetInv'
  BY NetStep
<1>3. NetInv => WaitsUnmanaged
  BY DEF NetInv
<1> QED BY <1>1, <1>2, <1>3, PTL DEF NetSpec

---------------------------------------------------------------------------
(* Queues: whether a message of S is in queue q, whether at most one is,   *)
(* and whether those of T come before those of S.                          *)
Has(q, S) == \E i \in DOMAIN q : q[i] \in S
Once(q, S) == \A i, j \in DOMAIN q : q[i] \in S /\ q[j] \in S => i = j
Behind(q, S, T) == \A i, j \in DOMAIN q : q[i] \in S /\ q[j] \in T => j < i

(* Queue r has no more of S than q had.                                    *)
Fewer(r, q, S) == (Has(r, S) => Has(q, S)) /\ (Once(q, S) => Once(r, S))

LEMMA NothingIn ==
    ASSUME NEW S, NEW T
    PROVE  ~Has(<<>>, S) /\ Once(<<>>, S) /\ Behind(<<>>, S, T)
BY DEF Has, Once, Behind

LEMMA OneIn ==
    ASSUME NEW S, NEW T, NEW m
    PROVE  /\ Has(<<m>>, S) <=> m \in S
           /\ Once(<<m>>, S)
BY DEF Has, Once

LEMMA AtMostOneIn ==
    ASSUME NEW S, NEW m, NEW r, r \in {<<m>>, <<>>}
    PROVE  Has(r, S) => m \in S
BY DEF Has

(* The first message is taken off.                                         *)
LEMMA OneOff ==
    ASSUME NEW M, NEW q \in Seq(M), q # <<>>, NEW S, NEW T
    PROVE  /\ Fewer(Tail(q), q, S)
           /\ Behind(q, S, T) => Behind(Tail(q), S, T)
           /\ Head(q) \in S /\ Once(q, S) => ~Has(Tail(q), S)
           /\ Head(q) \in S => Has(q, S)
           /\ Head(q) \in S /\ Behind(q, S, T) => ~Has(Tail(q), T)
<1>1. /\ Len(q) \in Nat /\ Len(q) >= 1 /\ DOMAIN q = 1 .. Len(q) /\ Head(q) = q[1]
      /\ DOMAIN Tail(q) = 1 .. Len(q) - 1
      /\ \A i \in 1 .. Len(q) - 1 : Tail(q)[i] = q[i + 1]
  BY HeadTailProperties, LenProperties, EmptySeq
<1>2. \A i \in DOMAIN Tail(q) : i \in Int /\ i + 1 \in DOMAIN q /\ Tail(q)[i] = q[i + 1]
                                /\ i + 1 # 1
  BY <1>1
<1>3. 1 \in DOMAIN q
  BY <1>1
<1>4. Has(Tail(q), S) => Has(q, S)
  BY <1>2 DEF Has
<1>5. Once(q, S) => Once(Tail(q), S)
  <2> SUFFICES ASSUME Once(q, S), NEW i \in DOMAIN Tail(q), NEW j \in DOMAIN Tail(q),
                      Tail(q)[i] \in S, Tail(q)[j] \in S
               PROVE  i = j
    BY DEF Once
  <2>1. i + 1 = j + 1
    BY <1>2 DEF Once
  <2> QED BY <1>2, <2>1
<1>6. Behind(q, S, T) => Behind(Tail(q), S, T)
  <2> SUFFICES ASSUME Behind(q, S, T), NEW i \in DOMAIN Tail(q), NEW j \in DOMAIN Tail(q),
                      Tail(q)[i] \in S, Tail(q)[j] \in T
               PROVE  j < i
    BY DEF Behind
  <2>1. j + 1 < i + 1
    BY <1>2 DEF Behind
  <2> QED BY <1>2, <2>1
<1>7. Head(q) \in S /\ Once(q, S) => ~Has(Tail(q), S)
  BY <1>1, <1>2, <1>3 DEF Has, Once
<1>8. Head(q) \in S => Has(q, S)
  BY <1>1, <1>3 DEF Has
<1>9. Head(q) \in S /\ Behind(q, S, T) => ~Has(Tail(q), T)
  <2> SUFFICES ASSUME Head(q) \in S, Behind(q, S, T), NEW i \in DOMAIN Tail(q),
                      Tail(q)[i] \in T
               PROVE  FALSE
    BY DEF Has
  <2>1. i + 1 < 1
    BY <1>1, <1>2, <1>3 DEF Behind
  <2>2. i >= 1
    BY <1>1
  <2> QED BY <1>2, <2>1, <2>2
<1> QED BY <1>4, <1>5, <1>6, <1>7, <1>8, <1>9 DEF Fewer

(* Messages are put on.                                                    *)
LEMMA PutOn ==
    ASSUME NEW M, NEW q \in Seq(M), NEW r \in Seq(M), NEW S, NEW T
    PROVE  /\ Has(q \o r, S) <=> Has(q, S) \/ Has(r, S)
           /\ Once(q, S) /\ ~Has(r, S) => Once(q \o r, S)
           /\ ~Has(q, S) /\ Once(r, S) => Once(q \o r, S)
           /\ Behind(q, S, T) /\ ~Has(r, T) => Behind(q \o r, S, T)
           /\ Behind(q, S, T) /\ ~Has(q, S) /\ ~Has(r, S) => Behind(q \o r, S, T)
<1> DEFINE m == Len(q)
           n == Len(r)
           c == q \o r
<1>1. /\ m \in Nat /\ n \in Nat /\ DOMAIN q = 1 .. m /\ DOMAIN r = 1 .. n
      /\ DOMAIN c = 1 .. m + n
      /\ \A i \in 1 .. m + n : c[i] = IF i <= m THEN q[i] ELSE r[i - m]
  BY ConcatProperties, LenProperties
<1>2. \A i \in DOMAIN c : /\ i \in Int
                          /\ \/ i <= m /\ i \in DOMAIN q /\ c[i] = q[i]
                             \/ i > m /\ i - m \in DOMAIN r /\ c[i] = r[i - m]
  BY <1>1
<1>3. \A i \in DOMAIN q : i \in DOMAIN c /\ c[i] = q[i]
  BY <1>1
<1>4. \A i \in DOMAIN r : i + m \in DOMAIN c /\ c[i + m] = r[i]
  <2> TAKE i \in DOMAIN r
  <2>1. i \in Int /\ i + m \in 1 .. m + n /\ ~(i + m <= m) /\ i + m - m = i
    BY <1>1
  <2> HIDE DEF m, n, c
  <2> QED BY <1>1, <2>1
<1> HIDE DEF m, n, c
<1>5. Has(c, S) <=> Has(q, S) \/ Has(r, S)
  BY <1>2, <1>3, <1>4 DEF Has
<1>6. Once(q, S) /\ ~Has(r, S) => Once(c, S)
  BY <1>2 DEF Has, Once
<1>7. ~Has(q, S) /\ Once(r, S) => Once(c, S)
  <2> SUFFICES ASSUME ~Has(q, S), Once(r, S), NEW i \in DOMAIN c, NEW j \in DOMAIN c,
                      c[i] \in S, c[j] \in S
               PROVE  i = j
    BY DEF Once
  <2>1. /\ i \in Int /\ i - m \in DOMAIN r /\ c[i] = r[i - m]
        /\ j \in Int /\ j - m \in DOMAIN r /\ c[j] = r[j - m]
    BY <1>2 DEF Has
  <2>2. i - m = j - m
    BY <2>1 DEF Once
  <2> QED BY <1>1, <2>1, <2>2
<1>8. Behind(q, S, T) /\ ~Has(r, T) => Behind(c, S, T)
  <2> SUFFICES ASSUME Behind(q, S, T), ~Has(r, T), NEW i \in DOMAIN c, NEW j \in DOMAIN c,
                      c[i] \in S, c[j] \in T
               PROVE  j < i
    BY DEF Behind
  <2>1. j \in Int /\ j <= m /\ j \in DOMAIN q /\ c[j] = q[j]
    BY <1>2 DEF Has
  <2>2. CASE i \in DOMAIN q /\ c[i] = q[i]
    BY <2>1, <2>2 DEF Behind
  <2>3. CASE i > m
    BY <1>1, <1>2, <2>1, <2>3
  <2> QED BY <1>2, <2>2, <2>3
<1>9. Behind(q, S, T) /\ ~Has(q, S) /\ ~Has(r, S) => Behind(c, S, T)
  BY <1>2 DEF Has, Behind
<1> QED BY <1>5, <1>6, <1>7, <1>8, <1>9 DEF c

---------------------------------------------------------------------------
(* What makes a client the one that simulates character e, now or later:   *)
(* it does, it is about to be told to, or the server has yet to learn that *)
(* it has stopped.                                                         *)
Grants(e) ==
    {m \in Notes : \/ m.type = "Offer" /\ m.id = e
                   \/ m.type = "Assigned" /\ m.id = e /\ m.owner}
GiveUps(e) == {m \in Requests : m.type = "GiveUp" /\ m.id = e}
Claims(e) == {m \in Requests : m.type = "Claim" /\ m.id = e}
PartyNotes == {m \in Notes : m.type \in {"PartyJoined", "PartyNews", "Relinquish"}}

Holds(p, e) ==
    Simulates(p, e) \/ Has(toClient[p], Grants(e)) \/ Has(toServer[p], GiveUps(e))

Stakes(p, e) == Holds(p, e) \/ Has(toServer[p], Claims(e))

(* It is one of these, and once; a claim is not made after giving up.      *)
OneToken(p, e) ==
    /\ Once(toClient[p], Grants(e))
    /\ Once(toServer[p], GiveUps(e))
    /\ \A f, g \in Forms : actor[p][f].local = e /\ actor[p][g].local = e => f = g
    /\ Simulates(p, e) => ~Has(toClient[p], Grants(e))
    /\ Simulates(p, e) => ~Has(toServer[p], GiveUps(e))
    /\ Has(toClient[p], Grants(e)) => ~Has(toServer[p], GiveUps(e))
    /\ Behind(toServer[p], GiveUps(e), Claims(e))

(* Nobody but the owner, if it exists, and nobody before it does.          *)
Entitled(p, e) == e < nextId /\ (e \in DOMAIN chars => chars[e].owner = p)

TokenInv(e) ==
    /\ \A p \in Players : OneToken(p, e)
    /\ \A p \in Players : Stakes(p, e) => Entitled(p, e)
    /\ \A p, q \in Players : Holds(p, e) /\ Holds(q, e) => p = q

NoParties ==
    /\ Founders = {} /\ leader = NoOne /\ members = {}
    /\ \A p \in Players : ~isLeader[p]
    /\ \A p \in Players : ~Has(toClient[p], PartyNotes)

(* What one step may do to p's part in character e without further ado.    *)
NotesQuiet(p, e) == Fewer(toClient'[p], toClient[p], Grants(e))
RequestsQuiet(p, e) ==
    /\ Fewer(toServer'[p], toServer[p], GiveUps(e))
    /\ Has(toServer'[p], Claims(e)) => Has(toServer[p], Claims(e))
    /\ Behind(toServer[p], GiveUps(e), Claims(e)) =>
          Behind(toServer'[p], GiveUps(e), Claims(e))
ActorsQuiet(p, e) == \A f \in Forms : actor'[p][f].local = e => actor[p][f].local = e

Settled(p, e) ==
    /\ OneToken(p, e) => OneToken(p, e)'
    /\ OneToken(p, e) /\ Holds(p, e)' => Holds(p, e)
    /\ OneToken(p, e) /\ Stakes(p, e)' => Stakes(p, e)

LEMMA QuietSettles ==
    ASSUME NEW p \in Players, NEW e,
           NotesQuiet(p, e), RequestsQuiet(p, e), ActorsQuiet(p, e)
    PROVE  Settled(p, e)
<1>1. Simulates(p, e)' => Simulates(p, e)
  BY DEF ActorsQuiet, Simulates
<1>2. /\ Has(toClient'[p], Grants(e)) => Has(toClient[p], Grants(e))
      /\ Has(toServer'[p], GiveUps(e)) => Has(toServer[p], GiveUps(e))
      /\ Has(toServer'[p], Claims(e)) => Has(toServer[p], Claims(e))
  BY DEF NotesQuiet, RequestsQuiet, Fewer
<1>3. Has(toClient[p], Grants(e))' <=> Has(toClient'[p], Grants(e))
  BY DEF Has
<1>4. Has(toServer[p], GiveUps(e))' <=> Has(toServer'[p], GiveUps(e))
  BY DEF Has
<1>5. Has(toServer[p], Claims(e))' <=> Has(toServer'[p], Claims(e))
  BY DEF Has
<1>6. Holds(p, e)' => Holds(p, e)
  BY <1>1, <1>2, <1>3, <1>4 DEF Holds
<1>7. Stakes(p, e)' => Stakes(p, e)
  BY <1>2, <1>5, <1>6 DEF Stakes
<1>8. OneToken(p, e) => OneToken(p, e)'
  <2> SUFFICES ASSUME OneToken(p, e) PROVE OneToken(p, e)'
    OBVIOUS
  <2>1. Once(toClient'[p], Grants(e)) /\ Once(toServer'[p], GiveUps(e))
    BY DEF OneToken, NotesQuiet, RequestsQuiet, Fewer
  <2>2. Behind(toServer'[p], GiveUps(e), Claims(e))
    BY DEF OneToken, RequestsQuiet
  <2>3. \A f, g \in Forms : actor'[p][f].local = e /\ actor'[p][g].local = e => f = g
    BY DEF OneToken, ActorsQuiet
  <2> QED BY <1>1, <1>2, <2>1, <2>2, <2>3 DEF OneToken
<1> QED BY <1>6, <1>7, <1>8 DEF Settled

(* The table may grow, and lose characters, as long as owners stay.        *)
LEMMA SettledKeeps ==
    ASSUME NetInv, NEW e \in Nat, TokenInv(e), \A p \in Players : Settled(p, e),
           nextId' \in Nat, nextId' >= nextId,
           e \in DOMAIN chars' /\ e < nextId =>
              e \in DOMAIN chars /\ chars'[e].owner = chars[e].owner
    PROVE  TokenInv(e)'
<1>1. nextId \in Nat /\ e \in Int
  BY CharactersNumbered DEF NetInv
<1>2. \A p \in Players : OneToken(p, e)'
  BY DEF TokenInv, Settled
<1>3. \A p \in Players : Stakes(p, e)' => Entitled(p, e)'
  <2> SUFFICES ASSUME NEW p \in Players, Stakes(p, e)' PROVE Entitled(p, e)'
    OBVIOUS
  <2>1. Entitled(p, e)
    BY DEF TokenInv, Settled
  <2> QED BY <1>1, <2>1 DEF Entitled
<1>4. \A p, q \in Players : Holds(p, e)' /\ Holds(q, e)' => p = q
  BY DEF TokenInv, Settled
<1> QED BY <1>2, <1>3, <1>4 DEF TokenInv

(* Afterwards only player p has any part in character e.                   *)
LEMMA OnePasses ==
    ASSUME NEW e, NEW p \in Players,
           \A q \in Players : OneToken(q, e)',
           \A q \in Players \ {p} : ~Stakes(q, e)',
           Stakes(p, e)' => Entitled(p, e)'
    PROVE  TokenInv(e)'
<1>1. \A q \in Players : Holds(q, e)' => q = p
  BY DEF Stakes
<1> QED BY <1>1 DEF TokenInv

---------------------------------------------------------------------------
(* What the parts of a step do to the queues.                              *)

LEMMA SendQueues ==
    ASSUME NetTypes, NEW news, Send(news), NEW p \in Players, news[p] \in Seq(Notes), NEW S
    PROVE  /\ toClient'[p] = toClient[p] \o news[p] \/ toClient'[p] = <<>>
           /\ ~Has(news[p], S) => Fewer(toClient'[p], toClient[p], S)
<1>1. toClient'[p] = toClient[p] \o news[p] \/ toClient'[p] = <<>>
  BY DEF Send
<1>2. toClient[p] \in Seq(Notes)
  BY DEF NetTypes
<1>3. /\ Has(toClient[p] \o news[p], S) <=> Has(toClient[p], S) \/ Has(news[p], S)
      /\ Once(toClient[p], S) /\ ~Has(news[p], S) => Once(toClient[p] \o news[p], S)
  BY <1>2, PutOn
<1> QED BY <1>1, <1>3, NothingIn DEF Fewer

LEMMA ReceiveQueues ==
    ASSUME NetTypes, NEW p \in Players, NEW type, Receives(p, type), NEW e
    PROVE  /\ \A q \in Players : RequestsQuiet(q, e) /\ ActorsQuiet(q, e)
           /\ \A q \in Players \ {p} : toServer'[q] = toServer[q]
           /\ Request(p) \in GiveUps(e) =>
                 /\ Has(toServer[p], GiveUps(e))
                 /\ Once(toServer[p], GiveUps(e)) => ~Has(toServer'[p], GiveUps(e))
                 /\ Behind(toServer[p], GiveUps(e), Claims(e)) =>
                       ~Has(toServer'[p], Claims(e))
           /\ Request(p) \in Claims(e) => Has(toServer[p], Claims(e))
<1>1. /\ toServer[p] \in Seq(Requests) /\ toServer[p] # <<>> /\ actor' = actor
  BY RequestTypes
<1>2. toServer' = [toServer EXCEPT ![p] = Tail(toServer[p])] /\ Request(p) = Head(toServer[p])
  BY DEF Receives, Request
<1>3. toServer'[p] = Tail(toServer[p]) /\ \A q \in Players \ {p} : toServer'[q] = toServer[q]
  BY <1>2 DEF NetTypes
<1> DEFINE s == toServer[p]
           G == GiveUps(e)
           C == Claims(e)
<1>9. /\ Fewer(Tail(s), s, G) /\ Fewer(Tail(s), s, C)
      /\ Behind(s, G, C) => Behind(Tail(s), G, C)
      /\ Head(s) \in G => Has(s, G)
      /\ Head(s) \in C => Has(s, C)
      /\ Head(s) \in G /\ Once(s, G) => ~Has(Tail(s), G)
      /\ Head(s) \in G /\ Behind(s, G, C) => ~Has(Tail(s), C)
  <2> s \in Seq(Requests) /\ s # <<>>
    BY <1>1
  <2> HIDE DEF s, G, C
  <2> QED BY OneOff
<1>4. RequestsQuiet(p, e)
  BY <1>3, <1>9 DEF RequestsQuiet, Fewer
<1>5. \A q \in Players : RequestsQuiet(q, e) /\ ActorsQuiet(q, e)
  BY <1>1, <1>3, <1>4 DEF RequestsQuiet, ActorsQuiet, Fewer
<1>6. Request(p) \in Claims(e) => Has(toServer[p], Claims(e))
  BY <1>2, <1>9
<1>7. Request(p) \in GiveUps(e) =>
         /\ Has(toServer[p], GiveUps(e))
         /\ Once(toServer[p], GiveUps(e)) => ~Has(toServer'[p], GiveUps(e))
         /\ Behind(toServer[p], GiveUps(e), Claims(e)) => ~Has(toServer'[p], Claims(e))
  BY <1>2, <1>3, <1>9
<1> QED BY <1>3, <1>5, <1>6, <1>7

LEMMA HearQueues ==
    ASSUME NetTypes, NEW p \in Players, NEW type, Hears(p, type), NEW S
    PROVE  /\ \A q \in Players : Fewer(toClient'[q], toClient[q], S)
           /\ News(p) \in S => /\ Has(toClient[p], S)
                               /\ Once(toClient[p], S) => ~Has(toClient'[p], S)
<1>1. /\ toClient[p] \in Seq(Notes) /\ toClient[p] # <<>>
      /\ toClient' = [toClient EXCEPT ![p] = Tail(toClient[p])]
  BY NoteTypes
<1>2. toClient'[p] = Tail(toClient[p]) /\ \A q \in Players \ {p} : toClient'[q] = toClient[q]
  BY <1>1 DEF NetTypes
<1> DEFINE s == toClient[p]
<1>3. /\ Fewer(Tail(s), s, S)
      /\ Head(s) \in S => Has(s, S)
      /\ Head(s) \in S /\ Once(s, S) => ~Has(Tail(s), S)
  <2> s \in Seq(Notes) /\ s # <<>>
    BY <1>1
  <2> HIDE DEF s
  <2> QED BY OneOff
<1>4. \A q \in Players : Fewer(toClient'[q], toClient[q], S)
  BY <1>2, <1>3 DEF Fewer
<1> QED BY <1>2, <1>3, <1>4 DEF News

(* Requests of no moment are sent.                                         *)
LEMMA RequestsSent ==
    ASSUME NEW p \in Players, NEW e, toServer[p] \in Seq(Requests), NEW r \in Seq(Requests),
           ~Has(r, GiveUps(e)), ~Has(r, Claims(e)),
           toServer'[p] = toServer[p] \o r \/ toServer'[p] = <<>> \/ toServer'[p] = r
    PROVE  RequestsQuiet(p, e)
<1> DEFINE s == toServer[p]
           G == GiveUps(e)
           C == Claims(e)
<1>4. /\ Has(s \o r, G) <=> Has(s, G) \/ Has(r, G)
      /\ Has(s \o r, C) <=> Has(s, C) \/ Has(r, C)
      /\ Once(s, G) /\ ~Has(r, G) => Once(s \o r, G)
      /\ Behind(s, G, C) /\ ~Has(r, C) => Behind(s \o r, G, C)
  <2> s \in Seq(Requests)
    OBVIOUS
  <2> HIDE DEF s, G, C
  <2> QED BY PutOn
<1>1. CASE toServer'[p] = toServer[p] \o r
  BY <1>1, <1>4 DEF RequestsQuiet, Fewer
<1>2. CASE toServer'[p] = <<>>
  BY <1>2, NothingIn DEF RequestsQuiet, Fewer
<1>3. CASE toServer'[p] = r
  BY <1>3 DEF RequestsQuiet, Fewer, Has, Once, Behind
<1> QED BY <1>1, <1>2, <1>3

(* Which messages count.                                                   *)
LEMMA NotesThatCount ==
    ASSUME NEW e \in Nat
    PROVE  /\ \A f \in Forms, c \in Nat, d \in Nat :
                 /\ Assigned(f, c, d, TRUE) \in Grants(e) => d = e
                 /\ Assigned(f, c, d, FALSE) \notin Grants(e)
                 /\ Assigned(f, c, d, TRUE) \notin PartyNotes
                 /\ Assigned(f, c, d, FALSE) \notin PartyNotes
           /\ \A f \in Forms, d \in Nat : /\ Spawn(f, d) \notin Grants(e)
                                          /\ Spawn(f, d) \notin PartyNotes
           /\ \A d \in Slot : /\ Offer(d) \in Grants(e) => d = e
                              /\ Offer(d) \notin PartyNotes
                              /\ Removal(d) \notin Grants(e) /\ Removal(d) \notin PartyNotes
BY DEF Grants, PartyNotes, Assigned, Spawn, Offer, Removal

LEMMA RequestsThatCount ==
    ASSUME NEW e \in Nat
    PROVE  /\ \A f, c, cell : /\ Assign(f, c, cell) \notin GiveUps(e)
                              /\ Assign(f, c, cell) \notin Claims(e)
           /\ \A cell : Enter(cell) \notin GiveUps(e) /\ Enter(cell) \notin Claims(e)
           /\ \A d : /\ Claim(d) \notin GiveUps(e)
                     /\ Claim(d) \in Claims(e) => d = e
           /\ \A d, cell : /\ GiveUp(d, cell) \notin Claims(e)
                           /\ GiveUp(d, cell) \in GiveUps(e) => d = e
BY DEF GiveUps, Claims, Assign, Claim, GiveUp, Enter

LEMMA NewsThatCounts ==
    ASSUME NEW S, NEW q \in Players
    PROVE  /\ ~Has(Nobody[q], S)
           /\ \A p \in Players : \A m : /\ Has(To(p, m)[q], S) => q = p /\ m \in S
                                        /\ Once(To(p, m)[q], S)
           /\ \A P, m : Has(ToEach(P, m)[q], S) => q \in P /\ m \in S
           /\ \A a, b : a[q] \in Seq(Notes) /\ b[q] \in Seq(Notes) =>
                 /\ Has(Then(a, b)[q], S) => Has(a[q], S) \/ Has(b[q], S)
                 /\ Once(a[q], S) /\ ~Has(b[q], S) => Once(Then(a, b)[q], S)
<1>1. ~Has(Nobody[q], S)
  BY NothingIn DEF Nobody
<1>2. \A p \in Players : \A m : /\ Has(To(p, m)[q], S) => q = p /\ m \in S
                                /\ Once(To(p, m)[q], S)
  <2> TAKE p \in Players
  <2> TAKE m
  <2>1. To(p, m)[q] = IF q = p THEN <<m>> ELSE <<>>
    BY DEF To, Nobody
  <2> QED BY <2>1, NothingIn, OneIn
<1>3. \A P, m : Has(ToEach(P, m)[q], S) => q \in P /\ m \in S
  <2> TAKE P, m
  <2>1. ToEach(P, m)[q] = IF q \in P THEN <<m>> ELSE <<>>
    BY DEF ToEach
  <2> QED BY <2>1, NothingIn, OneIn
<1>4. \A a, b : a[q] \in Seq(Notes) /\ b[q] \in Seq(Notes) =>
         /\ Has(Then(a, b)[q], S) => Has(a[q], S) \/ Has(b[q], S)
         /\ Once(a[q], S) /\ ~Has(b[q], S) => Once(Then(a, b)[q], S)
  <2> TAKE a, b
  <2> HAVE a[q] \in Seq(Notes) /\ b[q] \in Seq(Notes)
  <2>1. Then(a, b)[q] = a[q] \o b[q]
    BY DEF Then
  <2> DEFINE s == a[q]
             t == b[q]
  <2>2. s \in Seq(Notes) /\ t \in Seq(Notes)
    OBVIOUS
  <2>3. /\ Has(s \o t, S) <=> Has(s, S) \/ Has(t, S)
        /\ Once(s, S) /\ ~Has(t, S) => Once(s \o t, S)
    <3> HIDE DEF s, t
    <3> QED BY <2>2, PutOn
  <2> QED BY <2>1, <2>3
<1> QED BY <1>1, <1>2, <1>3, <1>4

(* Client p is told, once, that character e is its own.                    *)
LEMMA GrantPasses ==
    ASSUME NetInv, NEW e \in Nat, TokenInv(e), NEW p \in Players, NEW news,
           Send(news), news[p] \in Seq(Notes), Once(news[p], Grants(e)),
           \A q \in Players : RequestsQuiet(q, e) /\ ActorsQuiet(q, e),
           \A q \in Players \ {p} : OneToken(q, e)' /\ ~Stakes(q, e)',
           ~Holds(p, e), Entitled(p, e)'
    PROVE  TokenInv(e)'
<1> DEFINE s == toClient[p]
           t == news[p]
           G == Grants(e)
<1>1. OneToken(p, e)
  BY DEF TokenInv
<1>2. ~Has(s, G) /\ ~Has(toServer[p], GiveUps(e)) /\ ~Simulates(p, e)
  BY DEF Holds
<1>3. toClient'[p] = s \o t \/ toClient'[p] = <<>>
  BY SendQueues DEF NetInv
<1>4. s \in Seq(Notes) /\ t \in Seq(Notes)
  BY DEF NetInv, NetTypes
<1>5. Once(s \o t, G)
  <2>1. Once(t, G)
    OBVIOUS
  <2> HIDE DEF s, t, G
  <2> QED BY <1>2, <1>4, <2>1, PutOn
<1>6. Once(toClient'[p], G)
  BY <1>3, <1>5, NothingIn
<1>7. /\ Once(toServer'[p], GiveUps(e)) /\ ~Has(toServer'[p], GiveUps(e))
      /\ Behind(toServer'[p], GiveUps(e), Claims(e))
  BY <1>1, <1>2 DEF RequestsQuiet, Fewer, OneToken
<1>8. ~Simulates(p, e)'
  BY <1>2 DEF ActorsQuiet, Simulates
<1>9. \A f \in Forms : actor'[p][f].local # e
  BY <1>8 DEF Simulates
<1>10. OneToken(p, e)'
  BY <1>6, <1>7, <1>8, <1>9 DEF OneToken
<1> QED BY <1>10, OnePasses

LEMMA NoPartyYet ==
    ASSUME NoParties, UNCHANGED <<leader, members>>,
           \A p \in Players : ~isLeader'[p],
           \A p \in Players : Fewer(toClient'[p], toClient[p], PartyNotes)
    PROVE  NoParties'
BY DEF NoParties, Fewer, Has

---------------------------------------------------------------------------
(* The steps of the server.                                                *)

LEMMA AssignTokens ==
    ASSUME NetInv, NoParties, NEW e \in Nat, TokenInv(e),
           NEW p \in Players, ServerAssign(p)
    PROVE  TokenInv(e)' /\ NoParties'
<1> DEFINE r == Request(p)
<1>1. /\ Receives(p, "Assign") /\ r \in Requests /\ r.type = "Assign"
      /\ UNCHANGED <<actor, isLeader, lost>>
  BY RequestTypes DEF NetInv, ServerAssign
<1>2. r.form \in Forms /\ r.cookie \in Nat /\ r.cell \in Cells
  BY <1>1, RequestKinds
<1>3. nextId \in Nat /\ e \in Nat
  BY CharactersNumbered DEF NetInv
<1>4. \A q \in Players : RequestsQuiet(q, e) /\ ActorsQuiet(q, e)
  BY <1>1, ReceiveQueues DEF NetInv
<1> HIDE DEF r
<1>5. ASSUME OnAssignNew(p, r.form, r.cell),
             Send(Then(To(p, Assigned(r.form, r.cookie, nextId, TRUE)),
                       ToEach(InRange(r.cell, p), Spawn(r.form, nextId))))
      PROVE  TokenInv(e)' /\ NoParties'
  <2> DEFINE m == Assigned(r.form, r.cookie, nextId, TRUE)
             one == To(p, m)
             rest == ToEach(InRange(r.cell, p), Spawn(r.form, nextId))
             news == Then(one, rest)
  <2>1. /\ Managed(r.form) = {} /\ UNCHANGED <<leader, members>>
        /\ chars' = With(nextId, [form |-> r.form, cell |-> r.cell, owner |-> p,
                                  refused |-> {}])
        /\ nextId' = nextId + 1
    BY <1>5 DEF OnAssignNew, Create
  <2>2. m \in Notes /\ Spawn(r.form, nextId) \in Notes
    BY <1>2, <1>3, NotesMade
  <2>3. \A q \in Players : /\ one[q] \in Seq(Notes) /\ rest[q] \in Seq(Notes)
                           /\ news[q] \in Seq(Notes)
    BY <2>2, NewsTypes
  <2>4. /\ Spawn(r.form, nextId) \notin Grants(e) /\ Spawn(r.form, nextId) \notin PartyNotes
        /\ m \notin PartyNotes
        /\ m \in Grants(e) => nextId = e
    BY <1>2, <1>3, NotesThatCount
  <2> HIDE DEF m, one, rest, news
  <2>5. \A q \in Players : /\ ~Has(rest[q], Grants(e)) /\ Once(one[q], Grants(e))
                           /\ Has(one[q], Grants(e)) => q = p /\ nextId = e
                           /\ ~Has(rest[q], PartyNotes) /\ ~Has(one[q], PartyNotes)
    <3> TAKE q \in Players
    <3> DEFINE w == Spawn(r.form, nextId)
    <3>6. w \notin Grants(e) /\ w \notin PartyNotes /\ rest = ToEach(InRange(r.cell, p), w)
      BY <2>4 DEF rest
    <3> HIDE DEF w
    <3>1. ~Has(rest[q], Grants(e))
      BY <3>6, NewsThatCounts
    <3>2. ~Has(rest[q], PartyNotes)
      BY <3>6, NewsThatCounts
    <3>3. Has(one[q], Grants(e)) => q = p /\ m \in Grants(e)
      BY NewsThatCounts DEF one
    <3>4. Has(one[q], PartyNotes) => m \in PartyNotes
      BY NewsThatCounts DEF one
    <3>5. Once(one[q], Grants(e))
      BY NewsThatCounts DEF one
    <3> QED BY <2>4, <3>1, <3>2, <3>3, <3>4, <3>5
  <2>6. \A q \in Players : /\ Has(news[q], Grants(e)) => q = p /\ nextId = e
                           /\ Once(news[q], Grants(e))
                           /\ ~Has(news[q], PartyNotes)
    BY <2>3, <2>5, NewsThatCounts DEF news
  <2>7. Send(news)
    BY <1>5 DEF news, one, rest, m
  <2>8. \A q \in Players : Fewer(toClient'[q], toClient[q], PartyNotes)
    BY <2>3, <2>6, <2>7, SendQueues DEF NetInv
  <2>9. NoParties'
    BY <1>1, <2>1, <2>8, NoPartyYet DEF NoParties
  <2>10. \A q \in Players : (q # p \/ nextId # e) => Settled(q, e)
    <3> TAKE q \in Players
    <3> HAVE q # p \/ nextId # e
    <3>1. NotesQuiet(q, e)
      BY <2>3, <2>6, <2>7, SendQueues DEF NetInv, NotesQuiet
    <3> QED BY <1>4, <3>1, QuietSettles
  <2>11. CASE nextId # e
    <3>1. e \in DOMAIN chars' => e \in DOMAIN chars /\ chars'[e] = chars[e]
      BY <2>1, <2>11 DEF With
    <3>2. \A q \in Players : Settled(q, e)
      BY <2>10, <2>11
    <3>3. nextId' \in Nat /\ nextId' >= nextId
      BY <1>3, <2>1
    <3> QED BY <2>9, <3>1, <3>2, <3>3, SettledKeeps
  <2>12. CASE nextId = e
    <3>1. \A q \in Players : ~Stakes(q, e)
      BY <1>3, <2>12 DEF TokenInv, Entitled
    <3>2. \A q \in Players \ {p} : OneToken(q, e)' /\ ~Stakes(q, e)'
      BY <2>10, <3>1 DEF Settled, TokenInv
    <3>3. ~Holds(p, e)
      BY <3>1 DEF Stakes
    <3>4. Entitled(p, e)'
      BY <1>3, <2>1, <2>12 DEF Entitled, With
    <3> QED BY <1>4, <2>3, <2>6, <2>7, <2>9, <3>2, <3>3, <3>4, GrantPasses
  <2> QED BY <2>11, <2>12
<1>6. ASSUME NEW d \in Managed(r.form), OnAssignManaged(p, d),
             Send(Then(IF MayTakeOver(p, d) THEN RelinquishedTo(p, d) ELSE Nobody,
                       To(p, Assigned(r.form, r.cookie, d, MayTakeOver(p, d)))))
      PROVE  TokenInv(e)' /\ NoParties'
  <2>1. ~MayTakeOver(p, d)
    BY DEF MayTakeOver, NoParties
  <2> DEFINE m == Assigned(r.form, r.cookie, d, FALSE)
             one == To(p, m)
             news == Then(Nobody, one)
  <2>2. Send(news)
    <3>1. MayTakeOver(p, d) = FALSE
      BY <2>1 DEF MayTakeOver
    <3> QED BY <1>6, <3>1
  <2>3. UNCHANGED <<chars, nextId, leader, members>>
    BY <1>6, <2>1 DEF OnAssignManaged
  <2>4. d \in Nat
    BY CharactersNumbered DEF NetInv, Managed
  <2>5. m \in Notes /\ m \notin Grants(e) /\ m \notin PartyNotes
    BY <1>2, <2>4, NotesMade, NotesThatCount
  <2>6. \A q \in Players : Nobody[q] \in Seq(Notes) /\ one[q] \in Seq(Notes)
    BY <2>5, NewsTypes
  <2> HIDE DEF m, one
  <2>7. \A q \in Players : ~Has(one[q], Grants(e)) /\ ~Has(one[q], PartyNotes)
    BY <2>5, NewsThatCounts DEF one
  <2>8. \A q \in Players : /\ news[q] \in Seq(Notes)
                           /\ ~Has(news[q], Grants(e)) /\ ~Has(news[q], PartyNotes)
    BY <2>6, <2>7, NewsThatCounts, NewsTypes
  <2> HIDE DEF news
  <2>9. \A q \in Players : /\ Fewer(toClient'[q], toClient[q], Grants(e))
                           /\ Fewer(toClient'[q], toClient[q], PartyNotes)
    BY <2>2, <2>8, SendQueues DEF NetInv
  <2>10. NoParties'
    BY <1>1, <2>3, <2>9, NoPartyYet DEF NoParties
  <2>11. \A q \in Players : Settled(q, e)
    BY <1>4, <2>9, QuietSettles DEF NotesQuiet
  <2> QED BY <1>3, <2>3, <2>10, <2>11, SettledKeeps
<1> QED BY <1>5, <1>6 DEF ServerAssign, r

LEMMA ClaimTokens ==
    ASSUME NetInv, NoParties, \A d \in Nat : TokenInv(d), NEW e \in Nat,
           NEW p \in Players, ServerClaim(p)
    PROVE  TokenInv(e)' /\ NoParties'
<1> DEFINE d == Request(p).id
<1>1. /\ Receives(p, "Claim") /\ Request(p) \in Requests /\ Request(p).type = "Claim"
      /\ UNCHANGED <<actor, isLeader, lost>>
  BY RequestTypes DEF NetInv, ServerClaim
<1>2. nextId \in Nat /\ e \in Nat
  BY CharactersNumbered DEF NetInv
<1>3. \A q \in Players : RequestsQuiet(q, e) /\ ActorsQuiet(q, e)
  BY <1>1, ReceiveQueues DEF NetInv
<1>4. CASE d \in DOMAIN chars
  <2>1. OnOwnershipClaim(p, d) /\ Send(RelinquishedTo(p, d))
    BY <1>4 DEF ServerClaim
  <2>2. d \in Nat /\ d \in Slot /\ chars[d].owner \in Players
    BY <1>4, CharactersNumbered, SlotFacts DEF NetInv
  <2>3. chars[d].owner = p
    <3>1. Request(p) \in Claims(d)
      BY <1>1 DEF Claims
    <3>2. Stakes(p, d)
      BY <1>1, <3>1, ReceiveQueues DEF NetInv, Stakes
    <3> QED BY <1>4, <2>2, <3>2 DEF TokenInv, Entitled
  <2>4. Send(Nobody)
    BY <2>1, <2>3 DEF RelinquishedTo
  <2>5. \A q \in Players : /\ Nobody[q] \in Seq(Notes)
                           /\ ~Has(Nobody[q], Grants(e)) /\ ~Has(Nobody[q], PartyNotes)
    BY NewsTypes, NothingIn DEF Nobody
  <2>7. \A q \in Players : /\ Fewer(toClient'[q], toClient[q], Grants(e))
                           /\ Fewer(toClient'[q], toClient[q], PartyNotes)
    BY <2>4, <2>5, SendQueues DEF NetInv
  <2>8. UNCHANGED <<nextId, leader, members>> /\ TransferOwnership(p, d)
    BY <2>1 DEF OnOwnershipClaim
  <2>9. NoParties'
    BY <1>1, <2>7, <2>8, NoPartyYet DEF NoParties
  <2>10. \A q \in Players : Settled(q, e)
    BY <1>3, <2>7, QuietSettles DEF NotesQuiet
  <2>12. e \in DOMAIN chars' =>
            e \in DOMAIN chars /\ chars'[e].owner = chars[e].owner
    BY <1>4, <2>3, <2>8 DEF TransferOwnership, With
  <2>13. nextId' \in Nat /\ nextId' >= nextId
    BY <1>2, <2>8
  <2> QED BY <2>9, <2>10, <2>12, <2>13, SettledKeeps
<1>5. CASE d \notin DOMAIN chars
  <2>1. UNCHANGED <<ownVars, toClient>>
    BY <1>5 DEF ServerClaim
  <2>2. \A q \in Players : /\ Fewer(toClient'[q], toClient[q], Grants(e))
                           /\ Fewer(toClient'[q], toClient[q], PartyNotes)
    BY <2>1 DEF Fewer
  <2>3. UNCHANGED <<chars, nextId, leader, members>>
    BY <2>1 DEF ownVars
  <2>4. NoParties'
    BY <1>1, <2>2, <2>3, NoPartyYet DEF NoParties
  <2>5. \A q \in Players : Settled(q, e)
    BY <1>3, <2>2, QuietSettles DEF NotesQuiet
  <2>6. nextId' \in Nat /\ nextId' >= nextId
    BY <1>2, <2>3
  <2> QED BY <2>3, <2>4, <2>5, <2>6, SettledKeeps
<1> QED BY <1>4, <1>5

(* A hand-over offers a character once, and to nobody but its new owner.   *)
LEMMA HandOverOffers ==
    ASSUME OwnershipInv, NEW E \in SUBSET DOMAIN chars, NEW q \in Players, NEW e \in Nat
    PROVE  /\ Has(HandOverNews(E)[q], Grants(e)) =>
                 e \in E /\ e \in DOMAIN chars' /\ chars'[e].owner = q
           /\ Once(HandOverNews(E)[q], Grants(e))
           /\ ~Has(HandOverNews(E)[q], PartyNotes)
<1> DEFINE S == {Announcement(d) : d \in Announced(E, q)}
           s == HandOverNews(E)[q]
<1>1. s = SetToSeq(S) /\ IsFiniteSet(S)
  BY HandOverTypes
<1>2. /\ s \in Seq(S)
      /\ \A i, j \in 1 .. Len(s) : s[i] = s[j] => i = j
  <2> HIDE DEF S, s
  <2> QED BY <1>1, SetAsSeq
<1>3. DOMAIN s = 1 .. Len(s) /\ \A i \in DOMAIN s : s[i] \in S
  <2> HIDE DEF S, s
  <2> QED BY <1>2, LenProperties, ElementOfSeq
<1>4. \A m \in S : /\ m \notin PartyNotes
                   /\ m \in Grants(e) => m = Offer(e) /\ e \in Announced(E, q)
                                         /\ e \in DOMAIN chars'
  <2> TAKE m \in S
  <2>1. PICK d \in Announced(E, q) : m = Announcement(d)
    OBVIOUS
  <2>2. d \in E /\ d \in Slot
    BY CharactersNumbered, SlotFacts DEF Announced
  <2>3. /\ Offer(d) \in Grants(e) => d = e
        /\ Offer(d) \notin PartyNotes
        /\ Removal(d) \notin Grants(e) /\ Removal(d) \notin PartyNotes
    BY <2>2, NotesThatCount
  <2> QED BY <2>1, <2>3 DEF Announcement
<1>5. e \in Announced(E, q) /\ e \in DOMAIN chars' => e \in E /\ chars'[e].owner = q
  BY DEF Announced
<1> HIDE DEF S, s
<1>6. Has(s, Grants(e)) => e \in E /\ e \in DOMAIN chars' /\ chars'[e].owner = q
  BY <1>3, <1>4, <1>5 DEF Has
<1>7. ~Has(s, PartyNotes)
  BY <1>3, <1>4 DEF Has
<1>8. Once(s, Grants(e))
  BY <1>2, <1>3, <1>4 DEF Once
<1> QED BY <1>6, <1>7, <1>8 DEF s

LEMMA GiveUpTokens ==
    ASSUME NetInv, NoParties, NEW e \in Nat, TokenInv(e),
           NEW p \in Players, ServerGiveUp(p)
    PROVE  TokenInv(e)' /\ NoParties'
<1> DEFINE d == Request(p).id
           c == GivenUp(p, d, Request(p).cell)
           news == HandOverNews({d})
<1>1. /\ Receives(p, "GiveUp") /\ Request(p) \in Requests /\ Request(p).type = "GiveUp"
      /\ UNCHANGED <<actor, isLeader, lost>>
  BY RequestTypes DEF NetInv, ServerGiveUp
<1>2. nextId \in Nat /\ e \in Nat
  BY CharactersNumbered DEF NetInv
<1>3. \A q \in Players : RequestsQuiet(q, e) /\ ActorsQuiet(q, e)
  BY <1>1, ReceiveQueues DEF NetInv
<1>4. ASSUME d \in DOMAIN chars
      PROVE  TokenInv(e)' /\ NoParties'
  <2>1. OnOwnershipTransfer(p, d, Request(p).cell) /\ Send(news)
    BY <1>4 DEF ServerGiveUp
  <2>2. \A q \in Players :
           /\ news[q] \in Seq(Notes)
           /\ Has(news[q], Grants(e)) => d = e /\ e \in DOMAIN chars' /\ chars'[e].owner = q
           /\ Once(news[q], Grants(e))
           /\ ~Has(news[q], PartyNotes)
    <3> TAKE q \in Players
    <3>1. {d} \in SUBSET DOMAIN chars
      BY <1>4
    <3>2. news[q] \in Seq(Notes)
      BY <3>1, HandOverTypes DEF NetInv
    <3>3. /\ Has(news[q], Grants(e)) => e \in {d} /\ e \in DOMAIN chars' /\ chars'[e].owner = q
          /\ Once(news[q], Grants(e)) /\ ~Has(news[q], PartyNotes)
      BY <3>1, HandOverOffers DEF NetInv
    <3> QED BY <3>2, <3>3
  <2> HIDE DEF news
  <2>3. UNCHANGED <<nextId, leader, members>>
    BY <2>1 DEF OnOwnershipTransfer
  <2>4. \/ chars' = Without({d})
        \/ \E q \in online : HandOver(d, c, q)
    BY <2>1 DEF OnOwnershipTransfer
  <2>5. \A q \in Players : Fewer(toClient'[q], toClient[q], PartyNotes)
    BY <2>1, <2>2, SendQueues DEF NetInv
  <2>6. NoParties'
    BY <1>1, <2>3, <2>5, NoPartyYet DEF NoParties
  <2>7. \A q \in Players : ~Has(news[q], Grants(e)) => Settled(q, e)
    <3> TAKE q \in Players
    <3> HAVE ~Has(news[q], Grants(e))
    <3>1. NotesQuiet(q, e)
      BY <2>1, <2>2, SendQueues DEF NetInv, NotesQuiet
    <3> QED BY <1>3, <3>1, QuietSettles
  <2>8. nextId' \in Nat /\ nextId' >= nextId
    BY <1>2, <2>3
  <2>9. CASE d # e
    <3>1. \A q \in Players : Settled(q, e)
      BY <2>2, <2>7, <2>9
    <3>2. e \in DOMAIN chars' => e \in DOMAIN chars /\ chars'[e].owner = chars[e].owner
      BY <2>4, <2>9 DEF Without, HandOver, With
    <3> QED BY <2>6, <2>8, <3>1, <3>2, SettledKeeps
  <2>10. CASE d = e /\ chars' = Without({d})
    <3>1. e \notin DOMAIN chars'
      BY <2>10 DEF Without
    <3>2. \A q \in Players : Settled(q, e)
      BY <2>2, <2>7, <3>1
    <3> QED BY <2>6, <2>8, <3>1, <3>2, SettledKeeps
  <2>11. ASSUME d = e, NEW h \in online, HandOver(d, c, h)
         PROVE  TokenInv(e)' /\ NoParties'
    <3>1. Request(p) \in GiveUps(e)
      BY <1>1, <2>11 DEF GiveUps
    <3>2. Has(toServer[p], GiveUps(e))
      BY <1>1, <3>1, ReceiveQueues DEF NetInv
    <3>3. Holds(p, e) /\ Stakes(p, e)
      BY <3>2 DEF Holds, Stakes
    <3>4. chars[e].owner = p /\ e < nextId /\ OneToken(p, e)
      BY <1>4, <2>11, <3>3 DEF TokenInv, Entitled
    <3>5. \A q \in Players \ {p} : ~Stakes(q, e)
      BY <1>4, <2>11, <3>4 DEF TokenInv, Entitled
    <3>6. h # p /\ h \in Players
      <4>1. c.owner = p
        BY <2>11, <3>4 DEF GivenUp
      <4>2. h \in Heirs(c)
        BY <2>11 DEF HandOver
      <4>3. h \in Players
        BY DEF NetInv, OwnershipInv, TypeOK
      <4> HIDE DEF c
      <4> QED BY <4>1, <4>2, <4>3 DEF Heirs
    <3>7. e \in DOMAIN chars' /\ chars'[e].owner = h
      BY <2>11 DEF HandOver, With
    <3>8. \A q \in Players \ {h} : Settled(q, e)
      BY <2>2, <2>7, <3>7
    <3>9. ~Stakes(p, e)'
      <4>1. /\ ~Has(toServer'[p], GiveUps(e)) /\ ~Has(toServer'[p], Claims(e))
        BY <1>1, <3>1, <3>4, ReceiveQueues DEF NetInv, OneToken
      <4>2. ~Has(toClient[p], Grants(e)) /\ ~Simulates(p, e)
        BY <3>2, <3>4 DEF OneToken
      <4>3. ~Has(toClient'[p], Grants(e))
        BY <2>1, <2>2, <3>6, <3>7, <4>2, SendQueues DEF NetInv, Fewer
      <4>4. ~Simulates(p, e)'
        BY <1>3, <4>2 DEF ActorsQuiet, Simulates
      <4> QED BY <4>1, <4>3, <4>4 DEF Stakes, Holds
    <3>10. \A q \in Players \ {h} : OneToken(q, e)' /\ ~Stakes(q, e)'
      BY <3>5, <3>8, <3>9 DEF Settled, TokenInv
    <3>11. ~Holds(h, e)
      BY <3>5, <3>6 DEF Stakes
    <3>12. Entitled(h, e)'
      BY <2>3, <3>4, <3>7 DEF Entitled
    <3> QED
      BY <1>3, <2>1, <2>2, <2>6, <3>6, <3>10, <3>11, <3>12, GrantPasses
  <2> QED BY <2>4, <2>9, <2>10, <2>11
<1>5. CASE d \notin DOMAIN chars
  <2>1. UNCHANGED <<ownVars, toClient>>
    BY <1>5 DEF ServerGiveUp
  <2>2. \A q \in Players : /\ Fewer(toClient'[q], toClient[q], Grants(e))
                           /\ Fewer(toClient'[q], toClient[q], PartyNotes)
    BY <2>1 DEF Fewer
  <2>3. UNCHANGED <<chars, nextId, leader, members>>
    BY <2>1 DEF ownVars
  <2>4. NoParties'
    BY <1>1, <2>2, <2>3, NoPartyYet DEF NoParties
  <2>5. \A q \in Players : Settled(q, e)
    BY <1>3, <2>2, QuietSettles DEF NotesQuiet
  <2>6. nextId' \in Nat /\ nextId' >= nextId
    BY <1>2, <2>3
  <2> QED BY <2>3, <2>4, <2>5, <2>6, SettledKeeps
<1> QED BY <1>4, <1>5

LEMMA EnterCellTokens ==
    ASSUME NetInv, NoParties, NEW e \in Nat, TokenInv(e),
           NEW p \in Players, ServerEnterCell(p)
    PROVE  TokenInv(e)' /\ NoParties'
<1> DEFINE r == Request(p)
           there == {d \in DOMAIN chars : /\ chars[d].cell = r.cell
                                          /\ chars[d].owner # p
                                          /\ chars[d].form \in Forms}
           spawns == {Spawn(chars[d].form, d) : d \in there}
           f == [d \in there |-> Spawn(chars[d].form, d)]
           news == [Nobody EXCEPT ![p] = SetToSeq(spawns)]
<1>1. Receives(p, "EnterCell") /\ UNCHANGED <<actor, isLeader, lost>>
  BY RequestTypes DEF NetInv, ServerEnterCell
<1>2. nextId \in Nat
  BY CharactersNumbered DEF NetInv
<1>3. \A q \in Players : RequestsQuiet(q, e) /\ ActorsQuiet(q, e)
  BY <1>1, ReceiveQueues DEF NetInv
<1>4. EnterCell(p, r.cell) /\ Send(news)
  BY DEF ServerEnterCell
<1>5. UNCHANGED <<chars, nextId, leader, members>>
  BY <1>4 DEF EnterCell
<1>6. IsFiniteSet(there)
  BY CharactersNumbered, FS_Subset DEF NetInv
<1>7. \A m \in spawns : m \in Notes /\ m \notin Grants(e) /\ m \notin PartyNotes
  BY CharactersNumbered, NotesMade, NotesThatCount DEF NetInv
<1>8. IsFiniteSet(spawns)
  <2>1. f \in Surjection(there, spawns)
    BY DEF Surjection
  <2> HIDE DEF there, spawns, f
  <2> QED BY <1>6, <2>1, FS_Surjection
<1> DEFINE s == SetToSeq(spawns)
<1>9. /\ s \in Seq(Notes)
      /\ ~Has(s, Grants(e)) /\ ~Has(s, PartyNotes)
  <2>1. s \in Seq(spawns)
    <3> HIDE DEF spawns
    <3> QED BY <1>8, SetAsSeq
  <2> HIDE DEF spawns, s
  <2>2. \A i \in DOMAIN s : s[i] \in spawns
    BY <2>1, ElementOfSeq, LenProperties
  <2>3. s \in Seq(Notes)
    BY <1>7, <2>1
  <2> QED BY <1>7, <2>2, <2>3 DEF Has
<1>10. \A q \in Players : news[q] = IF q = p THEN s ELSE <<>>
  <2> HIDE DEF spawns
  <2> QED BY DEF Nobody
<1> HIDE DEF s, news
<1>11. \A q \in Players : /\ news[q] \in Seq(Notes)
                          /\ ~Has(news[q], Grants(e)) /\ ~Has(news[q], PartyNotes)
  BY <1>9, <1>10, NothingIn, EmptySeq
<1>12. \A q \in Players : /\ Fewer(toClient'[q], toClient[q], Grants(e))
                          /\ Fewer(toClient'[q], toClient[q], PartyNotes)
  BY <1>4, <1>11, SendQueues DEF NetInv
<1>13. NoParties'
  BY <1>1, <1>5, <1>12, NoPartyYet DEF NoParties
<1>14. \A q \in Players : Settled(q, e)
  BY <1>3, <1>12, QuietSettles DEF NotesQuiet
<1>15. nextId' \in Nat /\ nextId' >= nextId
  BY <1>2, <1>5
<1> QED BY <1>5, <1>13, <1>14, <1>15, SettledKeeps

---------------------------------------------------------------------------
(* The steps of the clients.                                               *)

(* The client that is granted a character has it, or may.                  *)
LEMMA TakingUp ==
    ASSUME NEW p \in Players, NEW e, OneToken(p, e), Has(toClient[p], Grants(e)),
           ~Has(toClient'[p], Grants(e)), toServer[p] \in Seq(Requests),
           NEW r \in Seq(Requests), ~Has(r, GiveUps(e)),
           toServer'[p] = toServer[p] \o r \/ toServer'[p] = <<>>,
           \A f, g \in Forms : actor'[p][f].local = e /\ actor'[p][g].local = e => f = g
    PROVE  Settled(p, e)
<1> DEFINE s == toServer[p]
           G == GiveUps(e)
           C == Claims(e)
<1>1. ~Has(s, G) /\ Holds(p, e) /\ Stakes(p, e)
  BY DEF OneToken, Holds, Stakes
<1>2. ~Has(s \o r, G)
  <2> s \in Seq(Requests) /\ ~Has(r, G)
    OBVIOUS
  <2> HIDE DEF s, G
  <2> QED BY <1>1, PutOn
<1>3. ~Has(toServer'[p], G)
  BY <1>2, NothingIn
<1>4. Once(toServer'[p], G) /\ Behind(toServer'[p], G, C)
  BY <1>3 DEF Has, Once, Behind
<1>5. Once(toClient'[p], Grants(e))
  BY DEF Has, Once
<1>6. OneToken(p, e)'
  BY <1>3, <1>4, <1>5 DEF OneToken
<1> QED BY <1>1, <1>6 DEF Settled

(* The client that holds a character says that it does not any more.       *)
LEMMA GivingUp ==
    ASSUME NEW p \in Players, NEW e, OneToken(p, e), Holds(p, e),
           ~Has(toServer[p], GiveUps(e)), toServer[p] \in Seq(Requests),
           ~Has(toClient'[p], Grants(e)), ~Simulates(p, e)',
           NEW r \in Seq(Requests), Once(r, GiveUps(e)), ~Has(r, Claims(e)),
           toServer'[p] = toServer[p] \o r \/ toServer'[p] = <<>>
    PROVE  Settled(p, e)
<1> DEFINE s == toServer[p]
           G == GiveUps(e)
           C == Claims(e)
<1>1. Stakes(p, e) /\ Behind(s, G, C)
  BY DEF OneToken, Stakes
<1>2. Once(s \o r, G) /\ Behind(s \o r, G, C)
  <2> s \in Seq(Requests) /\ ~Has(s, G) /\ Once(r, G) /\ ~Has(r, C)
    OBVIOUS
  <2> HIDE DEF s, G, C
  <2> QED BY <1>1, PutOn
<1>3. Once(toServer'[p], G) /\ Behind(toServer'[p], G, C)
  BY <1>2, NothingIn
<1>4. Once(toClient'[p], Grants(e))
  BY DEF Has, Once
<1>5. \A f \in Forms : actor'[p][f].local # e
  BY DEF Simulates
<1>6. OneToken(p, e)'
  BY <1>3, <1>4, <1>5 DEF OneToken
<1> QED BY <1>1, <1>6 DEF Settled

LEMMA BecomingQuiet ==
    ASSUME NetTypes, NEW p \in Players, NEW f \in Forms, NEW a, NEW r \in Seq(Requests),
           Becomes(p, f, a, r), NEW e
    PROVE  /\ \A q \in Players \ {p} : RequestsQuiet(q, e) /\ ActorsQuiet(q, e)
           /\ \A g \in Forms : actor'[p][g] = IF g = f THEN a ELSE actor[p][g]
           /\ toServer'[p] = toServer[p] \o r \/ toServer'[p] = <<>>
           /\ toServer[p] \in Seq(Requests)
           /\ ~Has(r, GiveUps(e)) /\ ~Has(r, Claims(e)) => RequestsQuiet(p, e)
           /\ (a.local = e => actor[p][f].local = e) => ActorsQuiet(p, e)
<1>1. /\ actor' = [actor EXCEPT ![p][f] = a]
      /\ toServer' = [toServer EXCEPT ![p] =
                         IF p \in online THEN toServer[p] \o r ELSE <<>>]
  BY DEF Becomes
<1>2. \A q \in Players, g \in Forms :
         actor'[q][g] = IF q = p /\ g = f THEN a ELSE actor[q][g]
  BY <1>1 DEF NetTypes
<1>3. /\ toServer'[p] = toServer[p] \o r \/ toServer'[p] = <<>>
      /\ \A q \in Players \ {p} : toServer'[q] = toServer[q]
      /\ toServer[p] \in Seq(Requests)
  BY <1>1 DEF NetTypes
<1>4. ~Has(r, GiveUps(e)) /\ ~Has(r, Claims(e)) => RequestsQuiet(p, e)
  BY <1>3, RequestsSent
<1>5. \A q \in Players \ {p} : RequestsQuiet(q, e) /\ ActorsQuiet(q, e)
  BY <1>2, <1>3 DEF RequestsQuiet, ActorsQuiet, Fewer
<1>6. (a.local = e => actor[p][f].local = e) => ActorsQuiet(p, e)
  BY <1>2 DEF ActorsQuiet
<1> QED BY <1>2, <1>3, <1>4, <1>5, <1>6

(* The server takes no part, and no party news is about.                   *)
LEMMA ClientKeeps ==
    ASSUME NetInv, NoParties, NEW e \in Nat, TokenInv(e), UNCHANGED ownVars,
           \A q \in Players : Settled(q, e),
           \A q \in Players : ~isLeader'[q],
           \A q \in Players : Fewer(toClient'[q], toClient[q], PartyNotes)
    PROVE  TokenInv(e)' /\ NoParties'
<1>1. UNCHANGED <<chars, nextId, leader, members>>
  BY DEF ownVars
<1>2. nextId' \in Nat /\ nextId' >= nextId
  BY <1>1, CharactersNumbered DEF NetInv
<1> QED BY <1>1, <1>2, NoPartyYet, SettledKeeps

LEMMA HearsQuietly ==
    ASSUME NetInv, NEW p \in Players, NEW type, Hears(p, type), NEW e
    PROVE  /\ \A q \in Players : NotesQuiet(q, e)
           /\ \A q \in Players : Fewer(toClient'[q], toClient[q], PartyNotes)
           /\ News(p) \in Grants(e) => Has(toClient[p], Grants(e))
           /\ News(p) \in Grants(e) /\ OneToken(p, e) => ~Has(toClient'[p], Grants(e))
           /\ News(p) \in PartyNotes => Has(toClient[p], PartyNotes)
<1>1. /\ \A q \in Players : Fewer(toClient'[q], toClient[q], Grants(e))
      /\ News(p) \in Grants(e) => /\ Has(toClient[p], Grants(e))
                                  /\ Once(toClient[p], Grants(e)) =>
                                        ~Has(toClient'[p], Grants(e))
  BY HearQueues DEF NetInv
<1>2. /\ \A q \in Players : Fewer(toClient'[q], toClient[q], PartyNotes)
      /\ News(p) \in PartyNotes => Has(toClient[p], PartyNotes)
  BY HearQueues DEF NetInv
<1> QED BY <1>1, <1>2 DEF NotesQuiet, OneToken

LEMMA AnswerTokens ==
    ASSUME NetInv, NoParties, NEW e \in Nat, TokenInv(e),
           NEW p \in Players, OnAssignCharacter(p)
    PROVE  TokenInv(e)' /\ NoParties'
<1> DEFINE m == News(p)
           a == actor[p][m.form]
           b == Answered(a, m)
<1>1. /\ m \in Notes /\ m.type = "Assigned" /\ UNCHANGED ownVars
  BY NoteTypes DEF NetInv, OnAssignCharacter
<1>2. Hears(p, "Assigned") /\ isLeader' = isLeader
  BY DEF OnAssignCharacter
<1>3. m.form \in Forms
  BY <1>1, NoteKinds
<1>4. a \in ActorStates
  BY <1>3, ActorFacts
<1>5. /\ \A q \in Players : NotesQuiet(q, e)
      /\ \A q \in Players : Fewer(toClient'[q], toClient[q], PartyNotes)
      /\ m \in Grants(e) => Has(toClient[p], Grants(e))
      /\ m \in Grants(e) => ~Has(toClient'[p], Grants(e))
  BY <1>2, HearsQuietly DEF TokenInv
<1>6. CASE a.waiting # m.cookie
  <2>1. toServer' = toServer /\ actor' = actor
    BY <1>6 DEF OnAssignCharacter, Ignore
  <2>2. \A q \in Players : Settled(q, e)
    BY <1>5, <2>1, QuietSettles DEF RequestsQuiet, ActorsQuiet, Fewer
  <2> QED BY <1>1, <1>2, <1>5, <2>2, ClientKeeps DEF NoParties
<1>7. CASE a.waiting = m.cookie
  <2> DEFINE r == <<>>
  <2>1. Becomes(p, m.form, b, r)
    BY <1>7 DEF OnAssignCharacter, Answered
  <2>2. r \in Seq(Requests) /\ ~Has(r, GiveUps(e)) /\ ~Has(r, Claims(e))
    BY EmptySeq, NothingIn
  <2>3. b.local = e => a.local = e \/ m \in Grants(e)
    BY <1>1, <1>4, AnsweredState DEF Grants
  <2> HIDE DEF a, b, m, r
  <2>4. /\ \A q \in Players \ {p} : RequestsQuiet(q, e) /\ ActorsQuiet(q, e)
        /\ \A g \in Forms : actor'[p][g] = IF g = m.form THEN b ELSE actor[p][g]
        /\ toServer'[p] = toServer[p] \o r \/ toServer'[p] = <<>>
        /\ toServer[p] \in Seq(Requests)
        /\ RequestsQuiet(p, e)
        /\ (b.local = e => actor[p][m.form].local = e) => ActorsQuiet(p, e)
    BY <1>3, <2>1, <2>2, BecomingQuiet DEF NetInv
  <2>5. \A q \in Players \ {p} : Settled(q, e)
    BY <1>5, <2>4, QuietSettles
  <2>6. CASE m \in Grants(e)
    <3>1. Has(toClient[p], Grants(e)) /\ ~Has(toClient'[p], Grants(e)) /\ OneToken(p, e)
      BY <1>5, <2>6 DEF TokenInv
    <3>2. ~Simulates(p, e)
      BY <3>1 DEF OneToken
    <3>3. \A f \in Forms : actor'[p][f].local = e => f = m.form
      BY <2>4, <3>2 DEF Simulates
    <3>4. Settled(p, e)
      BY <2>2, <2>4, <3>1, <3>3, TakingUp
    <3>5. \A q \in Players : Settled(q, e)
      BY <2>5, <3>4
    <3> QED BY <1>1, <1>2, <1>5, <3>5, ClientKeeps DEF NoParties
  <2>7. CASE m \notin Grants(e)
    <3>1. Settled(p, e)
      BY <1>5, <2>3, <2>4, <2>7, QuietSettles DEF a
    <3>2. \A q \in Players : Settled(q, e)
      BY <2>5, <3>1
    <3> QED BY <1>1, <1>2, <1>5, <3>2, ClientKeeps DEF NoParties
  <2> QED BY <2>6, <2>7
<1> QED BY <1>6, <1>7

LEMMA SpawnTokens ==
    ASSUME NetInv, NoParties, NEW e \in Nat, TokenInv(e),
           NEW p \in Players, OnCharacterSpawn(p)
    PROVE  TokenInv(e)' /\ NoParties'
<1> DEFINE m == News(p)
           a == actor[p][m.form]
           b == [a EXCEPT !.remote = m.id]
<1>1. /\ m \in Notes /\ m.type = "Spawn" /\ UNCHANGED ownVars
  BY NoteTypes DEF NetInv, OnCharacterSpawn
<1>2. Hears(p, "Spawn") /\ isLeader' = isLeader
  BY DEF OnCharacterSpawn
<1>3. m.form \in Forms
  BY <1>1, NoteKinds
<1>4. a \in ActorStates
  BY <1>3, ActorFacts
<1>5. /\ \A q \in Players : NotesQuiet(q, e)
      /\ \A q \in Players : Fewer(toClient'[q], toClient[q], PartyNotes)
  BY <1>2, HearsQuietly
<1>6. CASE Ignore
  <2>1. toServer' = toServer /\ actor' = actor
    BY <1>6 DEF Ignore
  <2>2. \A q \in Players : Settled(q, e)
    BY <1>5, <2>1, QuietSettles DEF RequestsQuiet, ActorsQuiet, Fewer
  <2> QED BY <1>1, <1>2, <1>5, <2>2, ClientKeeps DEF NoParties
<1>7. CASE Becomes(p, m.form, b, <<>>)
  <2>2. <<>> \in Seq(Requests) /\ ~Has(<<>>, GiveUps(e)) /\ ~Has(<<>>, Claims(e))
    BY EmptySeq, NothingIn
  <2>3. b.local = a.local
    BY <1>4 DEF ActorStates
  <2> HIDE DEF b, m
  <2>4. /\ \A q \in Players \ {p} : RequestsQuiet(q, e) /\ ActorsQuiet(q, e)
        /\ RequestsQuiet(p, e)
        /\ (b.local = e => actor[p][m.form].local = e) => ActorsQuiet(p, e)
    BY <1>3, <1>7, <2>2, BecomingQuiet DEF NetInv
  <2>5. \A q \in Players : Settled(q, e)
    BY <1>5, <2>3, <2>4, QuietSettles
  <2> QED BY <1>1, <1>2, <1>5, <2>5, ClientKeeps DEF NoParties
<1> QED BY <1>6, <1>7 DEF OnCharacterSpawn

LEMMA OfferTokens ==
    ASSUME NetInv, NoParties, NEW e \in Nat, TokenInv(e),
           NEW p \in Players, OnOwnershipOffer(p)
    PROVE  TokenInv(e)' /\ NoParties'
<1> DEFINE d == News(p).id
<1>1. /\ News(p) \in Notes /\ News(p).type = "Offer" /\ UNCHANGED ownVars
  BY NoteTypes DEF NetInv, OnOwnershipOffer
<1>2. Hears(p, "Offer") /\ isLeader' = isLeader
  BY DEF OnOwnershipOffer
<1>3. d \in Slot /\ (d = e => News(p) \in Grants(e))
  BY <1>1, NoteKinds, SlotFacts DEF Grants
<1>4. /\ \A q \in Players : NotesQuiet(q, e)
      /\ \A q \in Players : Fewer(toClient'[q], toClient[q], PartyNotes)
      /\ d = e => Has(toClient[p], Grants(e)) /\ ~Has(toClient'[p], Grants(e))
  BY <1>2, <1>3, HearsQuietly DEF TokenInv
<1> HIDE DEF d
<1>5. OneToken(p, e)
  BY DEF TokenInv
<1>6. ASSUME NEW f \in RemoteAs(p, d), Becomes(p, f, Taken(actor[p][f]), <<Claim(d)>>)
      PROVE  TokenInv(e)' /\ NoParties'
  <2> DEFINE b == Taken(actor[p][f])
             r == <<Claim(d)>>
  <2>1. f \in Forms /\ actor[p][f].remote = d
    BY DEF RemoteAs
  <2>2. b.local = d
    BY <2>1, ActorFacts, TakenState
  <2>3. /\ r \in Seq(Requests) /\ ~Has(r, GiveUps(e))
        /\ d # e => ~Has(r, Claims(e))
    <3>1. Claim(d) \in Requests /\ Claim(d) \notin GiveUps(e)
          /\ (d # e => Claim(d) \notin Claims(e))
      BY <1>3, RequestsMade, RequestsThatCount
    <3> QED BY <3>1, OneIn
  <2>4. Becomes(p, f, b, r)
    BY <1>6
  <2> HIDE DEF b, r
  <2>5. /\ \A q \in Players \ {p} : RequestsQuiet(q, e) /\ ActorsQuiet(q, e)
        /\ \A g \in Forms : actor'[p][g] = IF g = f THEN b ELSE actor[p][g]
        /\ toServer'[p] = toServer[p] \o r \/ toServer'[p] = <<>>
        /\ toServer[p] \in Seq(Requests)
        /\ ~Has(r, GiveUps(e)) /\ ~Has(r, Claims(e)) => RequestsQuiet(p, e)
        /\ (b.local = e => actor[p][f].local = e) => ActorsQuiet(p, e)
    BY <2>1, <2>3, <2>4, BecomingQuiet DEF NetInv
  <2>6. \A q \in Players \ {p} : Settled(q, e)
    BY <1>4, <2>5, QuietSettles
  <2>7. CASE d = e
    <3>1. ~Simulates(p, e)
      BY <1>4, <1>5, <2>7 DEF OneToken
    <3>2. \A g \in Forms : actor'[p][g].local = e => g = f
      BY <2>5, <3>1 DEF Simulates
    <3>3. Settled(p, e)
      BY <1>4, <1>5, <2>3, <2>5, <2>7, <3>2, TakingUp
    <3>4. \A q \in Players : Settled(q, e)
      BY <2>6, <3>3
    <3> QED BY <1>1, <1>2, <1>4, <3>4, ClientKeeps DEF NoParties
  <2>8. CASE d # e
    <3>1. Settled(p, e)
      BY <1>4, <2>2, <2>3, <2>5, <2>8, QuietSettles
    <3>2. \A q \in Players : Settled(q, e)
      BY <2>6, <3>1
    <3> QED BY <1>1, <1>2, <1>4, <3>2, ClientKeeps DEF NoParties
  <2> QED BY <2>7, <2>8
<1>7. CASE toServer' = [toServer EXCEPT ![p] = Append(toServer[p], GiveUp(d, NoCell))]
           /\ actor' = actor
  <2> DEFINE r == <<GiveUp(d, NoCell)>>
  <2>1. /\ r \in Seq(Requests) /\ ~Has(r, Claims(e)) /\ Once(r, GiveUps(e))
        /\ d # e => ~Has(r, GiveUps(e))
    <3>1. GiveUp(d, NoCell) \in Requests /\ GiveUp(d, NoCell) \notin Claims(e)
          /\ (d # e => GiveUp(d, NoCell) \notin GiveUps(e))
      BY <1>3, RequestsMade, RequestsThatCount
    <3> QED BY <3>1, OneIn
  <2>2. /\ toServer[p] \in Seq(Requests) /\ toServer'[p] = toServer[p] \o r
        /\ \A q \in Players \ {p} : toServer'[q] = toServer[q]
    <3>1. GiveUp(d, NoCell) \in Requests
      BY <1>3, RequestsMade
    <3> QED BY <1>7, <3>1, AppendIsConcat DEF NetInv, NetTypes
  <2> HIDE DEF r
  <2>3. \A q \in Players : ActorsQuiet(q, e)
    BY <1>7 DEF ActorsQuiet
  <2>4. \A q \in Players \ {p} : Settled(q, e)
    BY <1>4, <2>2, <2>3, QuietSettles DEF RequestsQuiet, Fewer
  <2>5. CASE d = e
    <3>1. ~Simulates(p, e) /\ Holds(p, e) /\ ~Has(toServer[p], GiveUps(e))
      BY <1>4, <1>5, <2>5 DEF OneToken, Holds
    <3>2. ~Simulates(p, e)'
      BY <2>3, <3>1 DEF Simulates, ActorsQuiet
    <3>3. Settled(p, e)
      BY <1>4, <1>5, <2>1, <2>2, <2>5, <3>1, <3>2, GivingUp
    <3>4. \A q \in Players : Settled(q, e)
      BY <2>4, <3>3
    <3> QED BY <1>1, <1>2, <1>4, <3>4, ClientKeeps DEF NoParties
  <2>6. CASE d # e
    <3>1. RequestsQuiet(p, e)
      BY <2>1, <2>2, <2>6, RequestsSent
    <3>2. \A q \in Players : Settled(q, e)
      BY <1>4, <2>3, <2>4, <3>1, QuietSettles
    <3> QED BY <1>1, <1>2, <1>4, <3>2, ClientKeeps DEF NoParties
  <2> QED BY <2>5, <2>6
<1> QED BY <1>6, <1>7 DEF OnOwnershipOffer, d

LEMMA RemoveTokens ==
    ASSUME NetInv, NoParties, NEW e \in Nat, TokenInv(e),
           NEW p \in Players, OnRemoveCharacter(p)
    PROVE  TokenInv(e)' /\ NoParties'
<1>1. /\ Hears(p, "Remove") /\ isLeader' = isLeader /\ toServer' = toServer
      /\ actor' = [actor EXCEPT ![p] = [f \in Forms |->
                      IF actor[p][f].remote = News(p).id
                      THEN [actor[p][f] EXCEPT !.remote = None] ELSE actor[p][f]]]
  BY DEF OnRemoveCharacter
<1>2. /\ \A q \in Players : NotesQuiet(q, e)
      /\ \A q \in Players : Fewer(toClient'[q], toClient[q], PartyNotes)
      /\ UNCHANGED ownVars
  BY <1>1, HearsQuietly, NoteTypes DEF NetInv
<1>3. \A q \in Players, f \in Forms : actor'[q][f].local = actor[q][f].local
  <2> TAKE q \in Players, f \in Forms
  <2>1. /\ actor[q][f] \in ActorStates
        /\ actor'[q][f] \in {actor[q][f], [actor[q][f] EXCEPT !.remote = None]}
    BY <1>1, ActorFacts DEF NetInv, NetTypes
  <2> QED BY <2>1 DEF ActorStates
<1>4. \A q \in Players : Settled(q, e)
  BY <1>1, <1>2, <1>3, QuietSettles DEF RequestsQuiet, ActorsQuiet, Fewer
<1> QED BY <1>1, <1>2, <1>4, ClientKeeps DEF NoParties

(* No news of a party arrives, nor of a takeover.                          *)
LEMMA NoPartyNews ==
    ASSUME NetInv, NoParties, NEW p \in Players,
           OnPartyJoined(p) \/ OnPartyNews(p) \/ OnRelinquishControl(p)
    PROVE  FALSE
<1>1. PICK type \in {"PartyJoined", "PartyNews", "Relinquish"} : Hears(p, type)
  BY DEF OnPartyJoined, OnPartyNews, OnRelinquishControl
<1>2. News(p) \in Notes /\ News(p).type = type
  BY <1>1, NoteTypes DEF NetInv
<1>3. News(p) \in PartyNotes
  BY <1>1, <1>2 DEF PartyNotes
<1>4. Has(toClient[p], PartyNotes)
  BY <1>1, <1>3, HearsQuietly
<1> QED BY <1>4 DEF NoParties

(* Without a party nothing is taken over: at most an assignment is asked   *)
(* for.                                                                    *)
LEMMA ProcessedQuietly ==
    ASSUME NEW f \in Forms, NEW a \in ActorStates, NEW cell \in Cells, NEW e \in Nat
    PROVE  /\ Processed(f, a, FALSE).local = a.local
           /\ ~Has(ProcessedRequests(f, a, FALSE, cell), GiveUps(e))
           /\ ~Has(ProcessedRequests(f, a, FALSE, cell), Claims(e))
<1>1. ~WouldTake(f, a, FALSE)
  BY DEF WouldTake
<1>2. Processed(f, a, FALSE).local = a.local
  BY <1>1 DEF Processed, ActorStates
<1> DEFINE m == Assign(f, a.asked, cell)
<1>3. m \notin GiveUps(e) /\ m \notin Claims(e)
  BY RequestsThatCount
<1>4. ProcessedRequests(f, a, FALSE, cell) \in {<<m>>, <<>>}
  BY <1>1 DEF ProcessedRequests
<1> DEFINE r == ProcessedRequests(f, a, FALSE, cell)
<1> HIDE DEF m, r
<1>5. ~Has(r, GiveUps(e))
  BY <1>3, <1>4, AtMostOneIn DEF r
<1>6. ~Has(r, Claims(e))
  BY <1>3, <1>4, AtMostOneIn DEF r
<1> QED BY <1>2, <1>5, <1>6 DEF r

LEMMA LoadTokens ==
    ASSUME NetInv, NoParties, NEW e \in Nat, TokenInv(e),
           NEW p \in Players, NEW f \in Forms, OnActorAdded(p, f)
    PROVE  TokenInv(e)' /\ NoParties'
<1> DEFINE a == [actor[p][f] EXCEPT !.loaded = TRUE]
<1>1. a \in ActorStates /\ a.local = actor[p][f].local
  <2>1. actor[p][f] \in ActorStates
    BY ActorFacts
  <2> QED BY <2>1 DEF ActorStates
<1>2. UNCHANGED <<ownVars, toClient, isLeader, lost>>
  BY DEF OnActorAdded
<1>3. isLeader[p] = FALSE
  BY DEF NoParties, NetInv, NetTypes
<1>4. ASSUME NEW b, NEW r \in Seq(Requests), Becomes(p, f, b, r),
             b.local = a.local, ~Has(r, GiveUps(e)), ~Has(r, Claims(e))
      PROVE  TokenInv(e)' /\ NoParties'
  <2>1. /\ \A q \in Players \ {p} : RequestsQuiet(q, e) /\ ActorsQuiet(q, e)
        /\ RequestsQuiet(p, e)
        /\ (b.local = e => actor[p][f].local = e) => ActorsQuiet(p, e)
    BY <1>4, BecomingQuiet DEF NetInv
  <2>2. \A q \in Players : /\ NotesQuiet(q, e)
                           /\ Fewer(toClient'[q], toClient[q], PartyNotes)
    BY <1>2 DEF NotesQuiet, Fewer
  <2>3. \A q \in Players : Settled(q, e)
    BY <1>1, <1>4, <2>1, <2>2, QuietSettles
  <2> QED BY <1>2, <2>2, <2>3, ClientKeeps DEF NoParties
<1> HIDE DEF a
<1>5. \/ \E cell \in Cells : Becomes(p, f, Processed(f, a, isLeader[p]),
                                     ProcessedRequests(f, a, isLeader[p], cell))
      \/ Becomes(p, f, a, <<>>)
  BY DEF OnActorAdded, a
<1>6. ASSUME NEW cell \in Cells, Becomes(p, f, Processed(f, a, FALSE),
                                         ProcessedRequests(f, a, FALSE, cell))
      PROVE  TokenInv(e)' /\ NoParties'
  <2>1. ProcessedRequests(f, a, FALSE, cell) \in Seq(Requests)
    BY <1>1, ProcessedState
  <2> QED BY <1>1, <1>4, <1>6, <2>1, ProcessedQuietly
<1>7. CASE Becomes(p, f, a, <<>>)
  <2>1. <<>> \in Seq(Requests) /\ ~Has(<<>>, GiveUps(e)) /\ ~Has(<<>>, Claims(e))
    BY EmptySeq, NothingIn
  <2> QED BY <1>4, <1>7, <2>1
<1> QED BY <1>3, <1>5, <1>6, <1>7

LEMMA UnloadTokens ==
    ASSUME NetInv, NoParties, NEW e \in Nat, TokenInv(e),
           NEW p \in Players, NEW f \in Forms, OnActorRemoved(p, f)
    PROVE  TokenInv(e)' /\ NoParties'
<1> DEFINE a == actor[p][f]
           b == Unmanaged(a, FALSE)
<1>1. a \in ActorStates /\ a.asked \in Nat /\ a.local \in Slot
  BY ActorFacts, ActorFields
<1>2. UNCHANGED <<ownVars, toClient, isLeader>>
  BY DEF OnActorRemoved
<1>3. PICK cell \in Cells : Becomes(p, f, b, Cancelled(a, cell))
  BY DEF OnActorRemoved
<1> DEFINE m == GiveUp(a.local, cell)
           r == Cancelled(a, cell)
<1>4. b.local = None /\ e # None
  <2>1. e # None
    BY DEF None
  <2>2. Unmanaged(a, FALSE).local = None
    <3> HIDE DEF a
    <3> QED BY <1>1, UnmanagedState
  <2> QED BY <2>1, <2>2
<1>5. /\ m \in Requests /\ m \notin Claims(e)
      /\ a.local # e => m \notin GiveUps(e)
  BY <1>1, RequestsMade, RequestsThatCount
<1>6. r \in {<<m>>, <<>>}
  BY DEF Cancelled
<1> HIDE DEF m, r, a, b
<1>7. /\ r \in Seq(Requests) /\ ~Has(r, Claims(e)) /\ Once(r, GiveUps(e))
      /\ a.local # e => ~Has(r, GiveUps(e))
  <2>1. r \in Seq(Requests)
    <3>1. <<m>> \in Seq(Requests) /\ <<>> \in Seq(Requests)
      BY <1>5, EmptySeq
    <3> QED BY <1>6, <3>1
  <2>2. ~Has(r, Claims(e))
    BY <1>5, <1>6, AtMostOneIn
  <2>3. a.local # e => ~Has(r, GiveUps(e))
    BY <1>5, <1>6, AtMostOneIn
  <2>4. Once(r, GiveUps(e))
    BY <1>6, NothingIn, OneIn
  <2> QED BY <2>1, <2>2, <2>3, <2>4
<1>8. /\ \A q \in Players \ {p} : RequestsQuiet(q, e) /\ ActorsQuiet(q, e)
      /\ \A g \in Forms : actor'[p][g] = IF g = f THEN b ELSE actor[p][g]
      /\ toServer'[p] = toServer[p] \o r \/ toServer'[p] = <<>>
      /\ toServer[p] \in Seq(Requests)
      /\ ~Has(r, GiveUps(e)) /\ ~Has(r, Claims(e)) => RequestsQuiet(p, e)
      /\ (b.local = e => actor[p][f].local = e) => ActorsQuiet(p, e)
  <2>1. Becomes(p, f, b, r)
    BY <1>3 DEF r
  <2> QED BY <1>7, <2>1, BecomingQuiet DEF NetInv
<1>9. \A q \in Players : /\ NotesQuiet(q, e)
                         /\ Fewer(toClient'[q], toClient[q], PartyNotes)
                         /\ toClient'[q] = toClient[q]
  BY <1>2 DEF NotesQuiet, Fewer
<1>10. \A q \in Players \ {p} : Settled(q, e)
  BY <1>8, <1>9, QuietSettles
<1>11. Settled(p, e)
  <2>1. CASE a.local # e
    BY <1>4, <1>7, <1>8, <1>9, <2>1, QuietSettles
  <2>2. CASE a.local = e
    <3>1. OneToken(p, e) /\ Simulates(p, e)
      BY <2>2 DEF TokenInv, Simulates, a
    <3>2. /\ Holds(p, e) /\ ~Has(toServer[p], GiveUps(e))
          /\ ~Has(toClient'[p], Grants(e))
      BY <1>9, <3>1 DEF OneToken, Holds
    <3>3. \A g \in Forms : actor[p][g].local = e => g = f
      BY <2>2, <3>1 DEF OneToken, a
    <3>4. ~Simulates(p, e)'
      BY <1>4, <1>8, <3>3 DEF Simulates
    <3> QED BY <1>7, <1>8, <3>1, <3>2, <3>4, GivingUp
  <2> QED BY <2>1, <2>2
<1>12. \A q \in Players : Settled(q, e)
  BY <1>10, <1>11
<1> QED BY <1>2, <1>9, <1>12, ClientKeeps DEF NoParties

LEMMA TravelTokens ==
    ASSUME NetInv, NoParties, NEW e \in Nat, TokenInv(e),
           NEW p \in Players, NEW cell \in Cells, Travel(p, cell)
    PROVE  TokenInv(e)' /\ NoParties'
<1> DEFINE r == <<Enter(cell)>>
<1>1. /\ UNCHANGED <<ownVars, toClient, actor, isLeader, lost>>
      /\ toServer' = [toServer EXCEPT ![p] = Append(toServer[p], Enter(cell))]
  BY DEF Travel
<1>2. r \in Seq(Requests) /\ ~Has(r, GiveUps(e)) /\ ~Has(r, Claims(e))
  <2>1. Enter(cell) \in Requests /\ Enter(cell) \notin GiveUps(e)
        /\ Enter(cell) \notin Claims(e)
    BY RequestsMade, RequestsThatCount
  <2> QED BY <2>1, OneIn
<1>3. /\ toServer[p] \in Seq(Requests) /\ toServer'[p] = toServer[p] \o r
      /\ \A q \in Players \ {p} : toServer'[q] = toServer[q]
  BY <1>1, RequestsMade, AppendIsConcat DEF NetInv, NetTypes
<1> HIDE DEF r
<1>4. RequestsQuiet(p, e)
  BY <1>2, <1>3, RequestsSent
<1>5. \A q \in Players : /\ NotesQuiet(q, e) /\ ActorsQuiet(q, e) /\ RequestsQuiet(q, e)
                         /\ Fewer(toClient'[q], toClient[q], PartyNotes)
  BY <1>1, <1>3, <1>4 DEF NotesQuiet, ActorsQuiet, RequestsQuiet, Fewer
<1>6. \A q \in Players : Settled(q, e)
  BY <1>5, QuietSettles
<1> QED BY <1>1, <1>5, <1>6, ClientKeeps DEF NoParties

(* What a client asks for when it connects.                                *)
LEMMA ConnectTokens ==
    ASSUME NetInv, NoParties, NEW e \in Nat, TokenInv(e),
           NEW p \in Players, ServerConnect(p)
    PROVE  TokenInv(e)' /\ NoParties'
<1> DEFINE a == actor[p]
           F == {g \in Forms : a[g].loaded}
           After(f) == IF a[f].loaded THEN Processed(f, a[f], FALSE) ELSE a[f]
<1>1. /\ Connect(p) /\ Send(Nobody) /\ UNCHANGED <<isLeader, lost>>
      /\ actor' = [actor EXCEPT ![p] = [f \in Forms |-> After(f)]]
  BY DEF ServerConnect, ProcessAll
<1>2. PICK cell \in Cells : toServer' = [toServer EXCEPT ![p] = <<>> \o
          SetToSeq(UNION {ToSet(ProcessedRequests(f, a[f], FALSE, cell)) : f \in F})]
  BY DEF ServerConnect, ProcessAll
<1> DEFINE R(f) == ToSet(ProcessedRequests(f, a[f], FALSE, cell))
           all == UNION {R(f) : f \in F}
           r == SetToSeq(all)
<1>3. \A f \in Forms : a[f] \in ActorStates
  BY ActorFacts
<1>4. \A f \in Forms : After(f).local = a[f].local
  BY <1>3, ProcessedQuietly
<1>5. \A q \in Players : ActorsQuiet(q, e)
  <2> HIDE DEF After
  <2>1. \A q \in Players, f \in Forms :
           actor'[q][f] = IF q = p THEN After(f) ELSE actor[q][f]
    BY <1>1 DEF NetInv, NetTypes
  <2> QED BY <1>4, <2>1 DEF ActorsQuiet
<1>6. IsFiniteSet(all) /\ all \subseteq Requests
  <2>1. a \in [Forms -> ActorStates]
    BY DEF NetInv, NetTypes
  <2> HIDE DEF a
  <2> QED BY <2>1, AskedFinite
<1>7. \A m \in all : m \notin GiveUps(e) /\ m \notin Claims(e)
  <2> TAKE m \in all
  <2>1. PICK f \in F : m \in R(f)
    OBVIOUS
  <2> DEFINE q == ProcessedRequests(f, a[f], FALSE, cell)
  <2>2. ~Has(q, GiveUps(e)) /\ ~Has(q, Claims(e))
    BY <1>3, ProcessedQuietly
  <2>3. \E i \in DOMAIN q : m = q[i]
    BY <2>1 DEF ToSet
  <2> QED BY <2>2, <2>3 DEF Has
<1>8. r \in Seq(all)
  <2> HIDE DEF all
  <2> QED BY <1>6, SetAsSeq
<1>9. /\ r \in Seq(Requests) /\ ~Has(r, GiveUps(e)) /\ ~Has(r, Claims(e))
  <2> HIDE DEF all, r
  <2>1. \A i \in DOMAIN r : r[i] \in all
    BY <1>8, ElementOfSeq, LenProperties
  <2>2. r \in Seq(Requests)
    BY <1>6, <1>8
  <2> QED BY <1>7, <2>1, <2>2 DEF Has
<1>10. /\ toServer'[p] = <<>> \o r
       /\ \A q \in Players \ {p} : toServer'[q] = toServer[q]
       /\ toServer[p] \in Seq(Requests)
  BY <1>2 DEF NetInv, NetTypes
<1>11. toServer'[p] = r
  <2> HIDE DEF r
  <2> QED BY <1>9, <1>10, ConcatEmptySeq
<1> HIDE DEF r
<1>12. \A q \in Players : RequestsQuiet(q, e)
  <2>1. RequestsQuiet(p, e)
    BY <1>9, <1>10, <1>11, RequestsSent
  <2> QED BY <1>10, <2>1 DEF RequestsQuiet, Fewer
<1>13. \A q \in Players : Nobody[q] \in Seq(Notes) /\ ~Has(Nobody[q], Grants(e))
                          /\ ~Has(Nobody[q], PartyNotes)
  BY NewsTypes, NothingIn DEF Nobody
<1>14. \A q \in Players : /\ Fewer(toClient'[q], toClient[q], Grants(e))
                          /\ Fewer(toClient'[q], toClient[q], PartyNotes)
  BY <1>1, <1>13, SendQueues DEF NetInv
<1>15. UNCHANGED <<chars, nextId, leader, members>>
  BY <1>1 DEF Connect
<1>16. NoParties'
  BY <1>1, <1>14, <1>15, NoPartyYet DEF NoParties
<1>17. \A q \in Players : Settled(q, e)
  BY <1>5, <1>12, <1>14, QuietSettles DEF NotesQuiet
<1>18. nextId' \in Nat /\ nextId' >= nextId
  BY <1>15, CharactersNumbered DEF NetInv
<1> QED BY <1>15, <1>16, <1>17, <1>18, SettledKeeps

LEMMA NotLocal == ASSUME NEW a, NEW b PROVE Unmanaged(a, b).local = None
BY DEF Unmanaged

LEMMA DisconnectTokens ==
    ASSUME NetInv, NoParties, NEW e \in Nat, TokenInv(e),
           NEW p \in Players, ServerDisconnect(p)
    PROVE  TokenInv(e)' /\ NoParties'
<1> DEFINE E == {d \in DOMAIN chars : d \notin DOMAIN chars' \/ chars'[d] # chars[d]}
           hand == HandOverNews(E)
           news == Then(hand, Nobody)
<1>1. /\ Disconnect(p)
      /\ toServer' = [toServer EXCEPT ![p] = <<>>]
      /\ actor' = [actor EXCEPT ![p] = [f \in Forms |->
                      Unmanaged(actor[p][f], actor[p][f].loaded)]]
      /\ isLeader' = [isLeader EXCEPT ![p] = FALSE]
  BY DEF ServerDisconnect
<1>2. leader = NoOne /\ p # NoOne
  BY OwnershipAssumption DEF NoParties
<1>3. Send(news)
  BY <1>2 DEF ServerDisconnect
<1>4. /\ members' = members /\ leader' = leader /\ nextId' = nextId
      /\ online' = online \ {p}
  BY <1>1, <1>2 DEF Disconnect, LeaveParty, NoParties
<1>5. \A q \in Players :
         /\ Has(hand[q], Grants(e)) => e \in E /\ e \in DOMAIN chars' /\ chars'[e].owner = q
         /\ Once(hand[q], Grants(e))
         /\ ~Has(hand[q], PartyNotes)
         /\ hand[q] \in Seq(Notes)
  <2>1. E \in SUBSET DOMAIN chars
    OBVIOUS
  <2> HIDE DEF E
  <2> QED BY <2>1, HandOverOffers, HandOverTypes DEF NetInv
<1> HIDE DEF hand
<1>6. \A q \in Players :
         /\ Has(news[q], Grants(e)) => e \in E /\ e \in DOMAIN chars' /\ chars'[e].owner = q
         /\ Once(news[q], Grants(e))
         /\ ~Has(news[q], PartyNotes)
         /\ news[q] \in Seq(Notes)
  <2> TAKE q \in Players
  <2>1. Nobody[q] \in Seq(Notes)
    BY NewsTypes
  <2>2. ~Has(Nobody[q], Grants(e)) /\ ~Has(Nobody[q], PartyNotes)
    BY NewsThatCounts
  <2>3. /\ Has(news[q], Grants(e)) => Has(hand[q], Grants(e)) \/ Has(Nobody[q], Grants(e))
        /\ Once(hand[q], Grants(e)) /\ ~Has(Nobody[q], Grants(e)) => Once(news[q], Grants(e))
    BY <1>5, <2>1, NewsThatCounts
  <2>4. Has(news[q], PartyNotes) => Has(hand[q], PartyNotes) \/ Has(Nobody[q], PartyNotes)
    BY <1>5, <2>1, NewsThatCounts
  <2>5. news[q] \in Seq(Notes)
    BY <1>5, <2>1, NewsTypes
  <2> HIDE DEF news
  <2> QED BY <1>5, <2>2, <2>3, <2>4, <2>5
<1> HIDE DEF news
<1>7. \A q \in Players : Fewer(toClient'[q], toClient[q], PartyNotes)
  BY <1>3, <1>6, SendQueues DEF NetInv
<1>8. NoParties'
  <2>1. \A q \in Players : ~isLeader'[q]
    BY <1>1 DEF NoParties, NetInv, NetTypes
  <2> QED BY <1>4, <1>7, <2>1, NoPartyYet
<1>9. /\ toServer'[p] = <<>>
      /\ \A q \in Players \ {p} : toServer'[q] = toServer[q]
      /\ \A f \in Forms : actor'[p][f] = Unmanaged(actor[p][f], actor[p][f].loaded)
      /\ \A q \in Players \ {p}, f \in Forms : actor'[q][f] = actor[q][f]
      /\ toClient'[p] = <<>>
  BY <1>1, <1>3, <1>4 DEF NetInv, NetTypes, Send
<1>10. \A f \in Forms : actor'[p][f].local # e
  <2> TAKE f \in Forms
  <2>1. actor'[p][f].local = None
    BY <1>9, NotLocal
  <2> QED BY <2>1 DEF None
<1>11. \A q \in Players : RequestsQuiet(q, e) /\ ActorsQuiet(q, e)
  BY <1>9, <1>10, NothingIn DEF RequestsQuiet, ActorsQuiet, Fewer
<1>12. ~Stakes(p, e)' /\ OneToken(p, e)'
  BY <1>9, <1>10, NothingIn DEF Stakes, Holds, Simulates, OneToken
<1>13. \A q \in Players : ~Has(news[q], Grants(e)) => Settled(q, e)
  <2> TAKE q \in Players
  <2> HAVE ~Has(news[q], Grants(e))
  <2>1. NotesQuiet(q, e)
    BY <1>3, <1>6, SendQueues DEF NetInv, NotesQuiet
  <2> QED BY <1>11, <2>1, QuietSettles
<1>14. PICK heir \in [Owned(p) -> online] :
          /\ \A d \in Owned(p) : Heirs(chars[d]) # {} => heir[d] \in Heirs(chars[d])
          /\ chars' = Bequeathed(p, heir)
  BY <1>1 DEF Disconnect
<1>15. nextId \in Nat
  BY CharactersNumbered DEF NetInv
<1>16. CASE e \in DOMAIN chars => e \notin DOMAIN chars' \/ chars'[e] = chars[e]
  <2>1. \A q \in Players : Settled(q, e)
    BY <1>6, <1>13, <1>16
  <2>2. e \in DOMAIN chars' => e \in DOMAIN chars /\ chars'[e].owner = chars[e].owner
    BY <1>14, <1>16 DEF Bequeathed
  <2> QED BY <1>4, <1>8, <1>15, <2>1, <2>2, SettledKeeps
<1>17. CASE e \in DOMAIN chars /\ e \in DOMAIN chars' /\ chars'[e] # chars[e]
  <2>1. chars[e].owner = p /\ Heirs(chars[e]) # {} /\ chars'[e].owner = heir[e]
    BY <1>14, <1>17 DEF Bequeathed
  <2>2. heir[e] \in Heirs(chars[e])
    BY <1>14, <1>17, <2>1 DEF Owned
  <2> DEFINE h == heir[e]
  <2>3. h # p /\ h \in Players
    BY <2>1, <2>2 DEF Heirs, NetInv, OwnershipInv, TypeOK
  <2>4. chars'[e].owner = h
    BY <2>1
  <2> HIDE DEF h
  <2>5. \A q \in Players \ {p} : ~Stakes(q, e)
    BY <1>17, <2>1 DEF TokenInv, Entitled
  <2>6. \A q \in Players \ {h} : OneToken(q, e)' /\ ~Stakes(q, e)'
    <3> TAKE q \in Players \ {h}
    <3>1. q # p => Settled(q, e)
      BY <1>6, <1>13, <2>4
    <3> QED BY <1>12, <2>5, <3>1 DEF Settled, TokenInv
  <2>7. ~Holds(h, e)
    BY <2>3, <2>5 DEF Stakes
  <2>8. e < nextId
    BY <1>17, CharactersNumbered DEF NetInv
  <2>9. Entitled(h, e)'
    BY <1>4, <2>4, <2>8 DEF Entitled
  <2> QED BY <1>3, <1>6, <1>8, <1>11, <2>3, <2>6, <2>7, <2>9, GrantPasses
<1> QED BY <1>16, <1>17

LEMMA PlayerActorTokens ==
    ASSUME NetInv, NoParties, NEW e \in Nat, TokenInv(e),
           NEW p \in Players, NEW cell \in Cells, ServerPlayerActor(p, cell)
    PROVE  TokenInv(e)' /\ NoParties'
<1>1. /\ UNCHANGED <<toServer, toClient, actor, isLeader, leader, members>>
      /\ nextId' = nextId + 1
      /\ \E c : chars' = With(nextId, c)
  BY DEF ServerPlayerActor, netVars, OnAssignPlayer, Create
<1>2. nextId \in Nat /\ e \in Nat
  BY CharactersNumbered DEF NetInv
<1>3. \A q \in Players : /\ NotesQuiet(q, e) /\ RequestsQuiet(q, e) /\ ActorsQuiet(q, e)
                         /\ Fewer(toClient'[q], toClient[q], PartyNotes)
  BY <1>1 DEF NotesQuiet, RequestsQuiet, ActorsQuiet, Fewer
<1>4. NoParties'
  BY <1>1, <1>3, NoPartyYet DEF NoParties
<1>5. \A q \in Players : Settled(q, e)
  BY <1>3, QuietSettles
<1>6. e \in DOMAIN chars' /\ e < nextId =>
         e \in DOMAIN chars /\ chars'[e].owner = chars[e].owner
  BY <1>1, <1>2 DEF With
<1>7. nextId' \in Nat /\ nextId' >= nextId
  BY <1>1, <1>2
<1> QED BY <1>4, <1>5, <1>6, <1>7, SettledKeeps

---------------------------------------------------------------------------
LEMMA TokenStep ==
    ASSUME NetInv, NoParties, \A d \in Nat : TokenInv(d), NEW e \in Nat, [NetNext]_vars
    PROVE  TokenInv(e)' /\ NoParties'
<1>1. ASSUME NEW p \in Players, ServerReads(p)
      PROVE  TokenInv(e)' /\ NoParties'
  BY <1>1, AssignTokens, ClaimTokens, GiveUpTokens, EnterCellTokens DEF ServerReads
<1>2. ASSUME NEW p \in Players, ClientReads(p)
      PROVE  TokenInv(e)' /\ NoParties'
  BY <1>2, AnswerTokens, SpawnTokens, OfferTokens, RemoveTokens, NoPartyNews
  DEF ClientReads
<1>3. ASSUME NEW p \in Players, ServerConnect(p) \/ ServerDisconnect(p)
      PROVE  TokenInv(e)' /\ NoParties'
  BY <1>3, ConnectTokens, DisconnectTokens
<1>4. ASSUME NEW p \in Players, ServerParty(p)
      PROVE  FALSE
  BY <1>4 DEF ServerParty, PartyShrinks, NoParties
<1>5. ASSUME NEW p \in Players, NEW cell \in Cells,
             ServerPlayerActor(p, cell) \/ Travel(p, cell)
      PROVE  TokenInv(e)' /\ NoParties'
  BY <1>5, PlayerActorTokens, TravelTokens
<1>6. ASSUME NEW p \in Players, NEW f \in Forms,
             OnActorAdded(p, f) \/ OnActorRemoved(p, f)
      PROVE  TokenInv(e)' /\ NoParties'
  BY <1>6, LoadTokens, UnloadTokens
<1>7. CASE UNCHANGED vars
  <2>1. UNCHANGED <<ownVars, toServer, toClient, actor, isLeader>>
    BY <1>7 DEF vars, netVars
  <2>2. \A q \in Players : /\ NotesQuiet(q, e) /\ RequestsQuiet(q, e) /\ ActorsQuiet(q, e)
                           /\ Fewer(toClient'[q], toClient[q], PartyNotes)
    BY <2>1 DEF NotesQuiet, RequestsQuiet, ActorsQuiet, Fewer
  <2>3. \A q \in Players : Settled(q, e)
    BY <2>2, QuietSettles
  <2> QED BY <2>1, <2>2, <2>3, ClientKeeps DEF NoParties
<1> QED BY <1>1, <1>2, <1>3, <1>4, <1>5, <1>6, <1>7 DEF NetNext

LEMMA InitTokens ==
    ASSUME NetInit, Founders = {}, NEW e \in Nat
    PROVE  TokenInv(e) /\ NoParties
<1>1. \A p \in Players : /\ toClient[p] = <<>> /\ toServer[p] = <<>> /\ ~isLeader[p]
                         /\ \A f \in Forms : actor[p][f].local # e
  <2> TAKE p \in Players
  <2>1. \A f \in Forms : actor[p][f] = Unmanaged([asked |-> 0], FALSE)
    BY DEF NetInit
  <2>2. \A f \in Forms : actor[p][f].local = None
    BY <2>1, NotLocal
  <2>3. toClient[p] = <<>> /\ toServer[p] = <<>> /\ ~isLeader[p]
    BY DEF NetInit, Nobody
  <2>4. e # None
    BY DEF None
  <2> QED BY <2>2, <2>3, <2>4
<1>2. \A p \in Players : OneToken(p, e) /\ ~Stakes(p, e) /\ ~Holds(p, e)
                         /\ ~Has(toClient[p], PartyNotes)
  BY <1>1, NothingIn DEF OneToken, Stakes, Holds, Simulates
<1> QED BY <1>1, <1>2 DEF TokenInv, NoParties, NetInit, Init

(* Where there are no parties, at most one client at a time simulates a    *)
(* character: its part passes from one to the next as a token does, by the *)
(* server's grant, the client's having it, and its giving up.              *)
THEOREM OnlyOneSimulates == NetSpec => []OneSimulates
<1>1. CASE Founders # {}
  <2>1. OneSimulates
    BY <1>1 DEF OneSimulates
  <2> QED BY <2>1, PTL
<1>2. CASE Founders = {}
  <2> DEFINE Tokens == (\A e \in Nat : TokenInv(e)) /\ NoParties
  <2>1. NetInit => NetInv
    BY NetInitInv
  <2>2. NetInit => Tokens
    <3> SUFFICES ASSUME NetInit PROVE Tokens
      OBVIOUS
    <3> QED BY <1>2, InitTokens
  <2>3. NetInv /\ [NetNext]_vars => NetInv'
    BY NetStep
  <2>4. NetInv /\ Tokens /\ [NetNext]_vars => Tokens'
    <3> SUFFICES ASSUME NetInv, Tokens, [NetNext]_vars PROVE Tokens'
      OBVIOUS
    <3> QED BY TokenStep
  <2>5. Tokens => OneSimulates
    BY DEF OneSimulates, TokenInv, Holds, Ids
  <2> QED BY <2>1, <2>2, <2>3, <2>4, <2>5, PTL DEF NetSpec
<1> QED BY <1>1, <1>2

---------------------------------------------------------------------------
(* What a client asked, and what it is told, about the actor of form f;    *)
(* which answers are none to its question c; what names e as that actor.   *)
Asks(f) == {m \in Requests : m.type = "Assign" /\ m.form = f}
Answers(f) == {m \in Notes : m.type = "Assigned" /\ m.form = f}
OtherAsks(f, c) == {m \in Asks(f) : m.cookie # c}
OtherAnswers(f, c) == {m \in Answers(f) : m.cookie # c}
Named(e, f) == {m \in Notes : m.type \in {"Assigned", "Spawn"} /\ m.id = e /\ m.form = f}

(* Client p takes e for the actor of form f, or is told to.                *)
Refers(p, f, e) ==
    \/ actor[p][f].local = e
    \/ actor[p][f].remote = e
    \/ Has(toClient[p], Named(e, f))

(* That is the actor it is, as long as it exists.                          *)
Fits(e, f) == e < nextId /\ (e \in DOMAIN chars => chars[e].form = f)

(* At most one question about f is open, and it is the one p waits for.    *)
OneQuestion(p, f) ==
    /\ Once(toServer[p], Asks(f))
    /\ Once(toClient[p], Answers(f))
    /\ Has(toServer[p], Asks(f)) => ~Has(toClient[p], Answers(f))
    /\ ~Has(toServer[p], OtherAsks(f, actor[p][f].waiting))
    /\ ~Has(toClient[p], OtherAnswers(f, actor[p][f].waiting))

(* Unless p has lost track of f: that, and f is not both local and remote. *)
Aware(p, f) ==
    \/ f \in lost[p]
    \/ /\ OneQuestion(p, f)
       /\ actor[p][f].local = None \/ actor[p][f].remote = None

(* Character e, the actor of form f, is with its owner p.                  *)
Owns(p, f, e) == e \in DOMAIN chars /\ chars[e].form = f /\ chars[e].owner = p

Keeps(p, f, e) ==
    \/ actor[p][f].local = e
    \/ Has(toClient[p], Grants(e))
    \/ Has(toServer[p], GiveUps(e))
    \/ f \in lost[p]

InHand(p, f, e) ==
    /\ Refers(p, f, e) => Fits(e, f)
    /\ Aware(p, f)
    /\ Owns(p, f, e) => Keeps(p, f, e)

KeepInv == \A p \in Players, f \in Forms, e \in Nat : InHand(p, f, e)

(* What one step may do to them without further ado.                       *)
NotesNoMore(p, f, e) ==
    /\ Fewer(toClient'[p], toClient[p], Answers(f))
    /\ \A c : Has(toClient'[p], OtherAnswers(f, c)) => Has(toClient[p], OtherAnswers(f, c))
    /\ Has(toClient'[p], Named(e, f)) => Has(toClient[p], Named(e, f)) \/ Fits(e, f)'
RequestsNoMore(p, f) ==
    /\ Fewer(toServer'[p], toServer[p], Asks(f))
    /\ \A c : Has(toServer'[p], OtherAsks(f, c)) => Has(toServer[p], OtherAsks(f, c))
ActorSteady(p, f) ==
    /\ actor'[p][f].waiting = actor[p][f].waiting
    /\ actor'[p][f].local = actor[p][f].local
    /\ actor'[p][f].remote = actor[p][f].remote \/ actor'[p][f].remote = None
    /\ lost[p] \subseteq lost'[p]
GrantsStay(p, e) == Has(toClient[p], Grants(e)) => Has(toClient'[p], Grants(e))
GiveUpsStay(p, e) == Has(toServer[p], GiveUps(e)) => Has(toServer'[p], GiveUps(e))

LEMMA StillOneQuestion ==
    ASSUME NEW p \in Players, NEW f \in Forms, NEW e,
           NotesNoMore(p, f, e), RequestsNoMore(p, f),
           actor'[p][f].waiting = actor[p][f].waiting, OneQuestion(p, f)
    PROVE  OneQuestion(p, f)'
<1> DEFINE w == actor[p][f].waiting
<1>1. /\ Once(toServer'[p], Asks(f)) /\ Once(toClient'[p], Answers(f))
      /\ Has(toServer'[p], Asks(f)) => ~Has(toClient'[p], Answers(f))
  BY DEF OneQuestion, NotesNoMore, RequestsNoMore, Fewer
<1>2. ~Has(toServer'[p], OtherAsks(f, w)) /\ ~Has(toClient'[p], OtherAnswers(f, w))
  BY DEF OneQuestion, NotesNoMore, RequestsNoMore
<1>3. actor'[p][f].waiting = w
  OBVIOUS
<1> HIDE DEF w
<1> QED BY <1>1, <1>2, <1>3 DEF OneQuestion

LEMMA StaysAware ==
    ASSUME NEW p \in Players, NEW f \in Forms, NEW e,
           NotesNoMore(p, f, e), RequestsNoMore(p, f), ActorSteady(p, f), Aware(p, f)
    PROVE  Aware(p, f)'
<1>1. OneQuestion(p, f) => OneQuestion(p, f)'
  BY StillOneQuestion DEF ActorSteady
<1> QED BY <1>1 DEF Aware, ActorSteady

(* A character keeps its form.                                             *)
LEMMA FormsStay ==
    ASSUME OwnershipInv, [Next]_ownVars
    PROVE  /\ nextId \in Nat /\ nextId' \in Nat /\ nextId' >= nextId
           /\ \A e \in DOMAIN chars' :
                 e < nextId => e \in DOMAIN chars /\ chars'[e].form = chars[e].form
<1>1. nextId \in Nat /\ DOMAIN chars \subseteq Nat
  BY CharactersNumbered
<1>2. CASE UNCHANGED <<chars, nextId>>
  BY <1>1, <1>2
<1>3. ASSUME NEW p \in Players, NEW f, NEW cell, Create(p, f, cell)
      PROVE  /\ nextId' \in Nat /\ nextId' >= nextId
             /\ \A e \in DOMAIN chars' :
                   e < nextId => e \in DOMAIN chars /\ chars'[e].form = chars[e].form
  BY <1>1, <1>3 DEF Create, With
<1>4. ASSUME nextId' = nextId,
             \A e \in DOMAIN chars' : e \in DOMAIN chars /\ chars'[e].form = chars[e].form
      PROVE  /\ nextId' \in Nat /\ nextId' >= nextId
             /\ \A e \in DOMAIN chars' :
                   e < nextId => e \in DOMAIN chars /\ chars'[e].form = chars[e].form
  BY <1>1, <1>4
<1>5. ASSUME NEW p \in Players, NEW e \in DOMAIN chars, TransferOwnership(p, e)
      PROVE  \A d \in DOMAIN chars' : d \in DOMAIN chars /\ chars'[d].form = chars[d].form
  BY <1>5 DEF TransferOwnership, With
<1>6. ASSUME NEW p \in Players, NEW e \in DOMAIN chars, NEW cell,
             OnOwnershipTransfer(p, e, cell)
      PROVE  \A d \in DOMAIN chars' : d \in DOMAIN chars /\ chars'[d].form = chars[d].form
  <2> DEFINE c == GivenUp(p, e, cell)
  <2>1. c.form = chars[e].form
    BY DEF GivenUp
  <2> HIDE DEF c
  <2>2. chars' = Without({e}) \/ \E q \in online : HandOver(e, c, q)
    BY <1>6 DEF OnOwnershipTransfer, c
  <2> QED BY <2>1, <2>2 DEF Without, HandOver, With
<1>7. ASSUME NEW p \in Players, Disconnect(p)
      PROVE  \A d \in DOMAIN chars' : d \in DOMAIN chars /\ chars'[d].form = chars[d].form
  BY <1>7 DEF Disconnect, Bequeathed
<1>8. CASE Next
  <2>1. ASSUME NEW p \in Players, Connect(p) \/ PartyShrinks(p)
        PROVE  UNCHANGED <<chars, nextId>>
    BY <2>1 DEF Connect, PartyShrinks
  <2>2. ASSUME NEW p \in Players, NEW M, PartyForms(p, M)
        PROVE  UNCHANGED <<chars, nextId>>
    BY <2>2 DEF PartyForms
  <2>3. ASSUME NEW p \in Players, NEW cell, EnterCell(p, cell)
        PROVE  UNCHANGED <<chars, nextId>>
    BY <2>3 DEF EnterCell
  <2>4. ASSUME NEW p \in Players, NEW f, NEW cell,
               OnAssignPlayer(p, cell) \/ OnAssignNew(p, f, cell)
        PROVE  Create(p, f, cell) \/ Create(p, PlayerForm, cell)
    BY <2>4 DEF OnAssignPlayer, OnAssignNew
  <2>5. ASSUME NEW p \in Players, NEW e,
               OnAssignManaged(p, e) \/ OnOwnershipClaim(p, e)
        PROVE  /\ e \in DOMAIN chars /\ nextId' = nextId
               /\ TransferOwnership(p, e) \/ UNCHANGED chars
    BY <2>5 DEF OnAssignManaged, OnOwnershipClaim
  <2>6. ASSUME NEW p \in Players, NEW e, NEW cell, OnOwnershipTransfer(p, e, cell)
        PROVE  e \in DOMAIN chars /\ nextId' = nextId
    BY <2>6 DEF OnOwnershipTransfer
  <2>7. ASSUME NEW p \in Players, Disconnect(p)
        PROVE  nextId' = nextId
    BY <2>7 DEF Disconnect
  <2>8. PICK p \in Players :
           \/ Connect(p) \/ Disconnect(p) \/ PartyShrinks(p)
           \/ \E M \in SUBSET Players : PartyForms(p, M)
           \/ \E cell \in Cells : EnterCell(p, cell) \/ OnAssignPlayer(p, cell)
           \/ \E f \in Forms, cell \in Cells : OnAssignNew(p, f, cell)
           \/ \E e \in Ids : OnAssignManaged(p, e) \/ OnOwnershipClaim(p, e)
           \/ \E e \in Ids, cell \in Cells \cup {NoCell} : OnOwnershipTransfer(p, e, cell)
    BY <1>8 DEF Next
  <2>9. CASE UNCHANGED <<chars, nextId>>
    BY <1>2, <2>9
  <2>10. CASE \E f, cell : Create(p, f, cell)
    BY <1>1, <1>3, <2>10
  <2>11. CASE \E e \in DOMAIN chars : TransferOwnership(p, e) /\ nextId' = nextId
    BY <1>1, <1>4, <1>5, <2>11
  <2>12. CASE \E e, cell : OnOwnershipTransfer(p, e, cell)
    BY <1>1, <1>4, <1>6, <2>6, <2>12
  <2>13. CASE Disconnect(p)
    BY <1>1, <1>4, <1>7, <2>7, <2>13
  <2>14. \/ UNCHANGED <<chars, nextId>>
         \/ \E f, cell : Create(p, f, cell)
         \/ \E e \in DOMAIN chars : TransferOwnership(p, e) /\ nextId' = nextId
         \/ \E e, cell : OnOwnershipTransfer(p, e, cell)
         \/ Disconnect(p)
    BY <2>1, <2>2, <2>3, <2>4, <2>5, <2>8
  <2> QED BY <2>9, <2>10, <2>11, <2>12, <2>13, <2>14
<1> QED BY <1>2, <1>8 DEF ownVars

LEMMA StillFits ==
    ASSUME OwnershipInv, [Next]_ownVars, NEW e \in Nat, NEW f, Fits(e, f)
    PROVE  Fits(e, f)'
<1>1. /\ nextId \in Nat /\ nextId' \in Nat /\ nextId' >= nextId
      /\ e \in DOMAIN chars' => e \in DOMAIN chars /\ chars'[e].form = chars[e].form
  BY FormsStay DEF Fits
<1> QED BY <1>1 DEF Fits

(* A character that its owner keeps where it was, or that is with a new    *)
(* owner; nothing new is said or asked about the actor.                    *)
LEMMA StaysInHand ==
    ASSUME OwnershipInv, [Next]_ownVars, OwnershipInv',
           NEW p \in Players, NEW f \in Forms, NEW e \in Nat, InHand(p, f, e),
           NotesNoMore(p, f, e), RequestsNoMore(p, f), ActorSteady(p, f),
           Owns(p, f, e)' => \/ Owns(p, f, e) /\ GrantsStay(p, e) /\ GiveUpsStay(p, e)
                             \/ Keeps(p, f, e)'
    PROVE  InHand(p, f, e)'
<1>1. e # None
  BY DEF None
<1>2. Refers(p, f, e)' => Refers(p, f, e) \/ Fits(e, f)'
  BY <1>1 DEF Refers, NotesNoMore, ActorSteady
<1>3. Refers(p, f, e)' => Fits(e, f)'
  BY <1>2, StillFits DEF InHand
<1>4. Aware(p, f)'
  BY StaysAware DEF InHand
<1>5. ASSUME Owns(p, f, e)', Owns(p, f, e), GrantsStay(p, e), GiveUpsStay(p, e)
      PROVE  Keeps(p, f, e)'
  BY <1>5 DEF InHand, Keeps, GrantsStay, GiveUpsStay, ActorSteady
<1> QED BY <1>3, <1>4, <1>5 DEF InHand

(* What the parts of a step do to them.                                    *)
LEMMA OneOffKeeps ==
    ASSUME NEW M, NEW q \in Seq(M), q # <<>>, NEW S, Head(q) \notin S, Has(q, S)
    PROVE  Has(Tail(q), S)
<1>1. /\ Len(q) \in Nat /\ DOMAIN q = 1 .. Len(q) /\ Head(q) = q[1]
      /\ DOMAIN Tail(q) = 1 .. Len(q) - 1
      /\ \A i \in 1 .. Len(q) - 1 : Tail(q)[i] = q[i + 1]
  BY HeadTailProperties, LenProperties, EmptySeq
<1>2. PICK i \in DOMAIN q : q[i] \in S
  BY DEF Has
<1>3. i \in 1 .. Len(q) /\ i # 1
  BY <1>1, <1>2
<1>4. i - 1 \in 1 .. Len(q) - 1 /\ (i - 1) + 1 = i
  BY <1>1, <1>3
<1>5. i - 1 \in DOMAIN Tail(q) /\ Tail(q)[i - 1] = q[i]
  BY <1>1, <1>4
<1> QED BY <1>2, <1>5 DEF Has

LEMMA ReceiveSteady ==
    ASSUME NetTypes, NEW p \in Players, NEW type, Receives(p, type),
           NEW q \in Players, NEW f \in Forms, NEW e
    PROVE  /\ RequestsNoMore(q, f) /\ ActorSteady(q, f)
           /\ q # p \/ Request(p) \notin GiveUps(e) => GiveUpsStay(q, e)
           /\ Request(p) \in Asks(f) =>
                 /\ Has(toServer[p], Asks(f))
                 /\ Once(toServer[p], Asks(f)) => ~Has(toServer'[p], Asks(f))
                 /\ \A c : Request(p).cookie # c => Has(toServer[p], OtherAsks(f, c))
<1>1. /\ toServer[p] \in Seq(Requests) /\ toServer[p] # <<>>
      /\ UNCHANGED <<actor, lost>>
  BY RequestTypes
<1>2. toServer' = [toServer EXCEPT ![p] = Tail(toServer[p])] /\ Request(p) = Head(toServer[p])
  BY DEF Receives, Request
<1>3. toServer'[p] = Tail(toServer[p]) /\ \A r \in Players \ {p} : toServer'[r] = toServer[r]
  BY <1>2 DEF NetTypes
<1> DEFINE s == toServer[p]
<1>4. ASSUME NEW S
      PROVE  /\ Fewer(Tail(s), s, S)
             /\ Head(s) \notin S /\ Has(s, S) => Has(Tail(s), S)
             /\ Head(s) \in S => Has(s, S)
             /\ Head(s) \in S /\ Once(s, S) => ~Has(Tail(s), S)
  <2> s \in Seq(Requests) /\ s # <<>>
    BY <1>1
  <2> HIDE DEF s
  <2> QED BY OneOff, OneOffKeeps
<1>5. /\ Fewer(Tail(s), s, Asks(f))
      /\ \A c : Has(Tail(s), OtherAsks(f, c)) => Has(s, OtherAsks(f, c))
  BY <1>4 DEF Fewer
<1>6. RequestsNoMore(q, f)
  BY <1>3, <1>5 DEF RequestsNoMore, Fewer
<1>7. ActorSteady(q, f)
  BY <1>1 DEF ActorSteady
<1>8. q # p \/ Request(p) \notin GiveUps(e) => GiveUpsStay(q, e)
  BY <1>2, <1>3, <1>4 DEF GiveUpsStay
<1>9. ASSUME Request(p) \in Asks(f)
      PROVE  /\ Has(toServer[p], Asks(f))
             /\ Once(toServer[p], Asks(f)) => ~Has(toServer'[p], Asks(f))
             /\ \A c : Request(p).cookie # c => Has(toServer[p], OtherAsks(f, c))
  <2>1. \A c : Request(p).cookie # c => Request(p) \in OtherAsks(f, c)
    BY <1>9 DEF OtherAsks
  <2> QED BY <1>2, <1>3, <1>4, <1>9, <2>1
<1> QED BY <1>6, <1>7, <1>8, <1>9

LEMMA SendSteady ==
    ASSUME NetTypes, NEW news, Send(news), NEW p \in Players, news[p] \in Seq(Notes),
           NEW f \in Forms, NEW e
    PROVE  /\ /\ ~Has(news[p], Answers(f))
              /\ Has(news[p], Named(e, f)) => Fits(e, f)'
              => NotesNoMore(p, f, e)
           /\ p \in online' => toClient'[p] = toClient[p] \o news[p]
           /\ p \in online' => GrantsStay(p, e)
           /\ p \in online' /\ Has(news[p], Grants(e)) => Has(toClient'[p], Grants(e))
<1>1. toClient'[p] = IF p \in online' THEN toClient[p] \o news[p] ELSE <<>>
  BY DEF Send
<1> DEFINE s == toClient[p]
           t == news[p]
<1>2. s \in Seq(Notes) /\ t \in Seq(Notes)
  BY DEF NetTypes
<1>3. ASSUME NEW S
      PROVE  /\ Has(s \o t, S) <=> Has(s, S) \/ Has(t, S)
             /\ Once(s, S) /\ ~Has(t, S) => Once(s \o t, S)
  <2> HIDE DEF s, t
  <2> QED BY <1>2, PutOn
<1>4. p \in online' => GrantsStay(p, e)
  BY <1>1, <1>3 DEF GrantsStay
<1>5. p \in online' /\ Has(news[p], Grants(e)) => Has(toClient'[p], Grants(e))
  BY <1>1, <1>3
<1>6. ASSUME ~Has(t, Answers(f)), Has(t, Named(e, f)) => Fits(e, f)'
      PROVE  NotesNoMore(p, f, e)
  <2>1. \A c : ~Has(t, OtherAnswers(f, c))
    BY <1>6 DEF Has, OtherAnswers
  <2>2. CASE toClient'[p] = <<>>
    BY <2>2, NothingIn DEF NotesNoMore, Fewer
  <2>3. CASE toClient'[p] = s \o t
    <3>1. Fewer(s \o t, s, Answers(f))
      BY <1>3, <1>6 DEF Fewer
    <3>2. \A c : Has(s \o t, OtherAnswers(f, c)) => Has(s, OtherAnswers(f, c))
      BY <1>3, <2>1
    <3>3. Has(s \o t, Named(e, f)) => Has(s, Named(e, f)) \/ Fits(e, f)'
      BY <1>3, <1>6
    <3> QED BY <2>3, <3>1, <3>2, <3>3 DEF NotesNoMore
  <2> QED BY <1>1, <2>2, <2>3
<1> QED BY <1>1, <1>4, <1>5, <1>6

LEMMA HearSteady ==
    ASSUME NetTypes, NEW p \in Players, NEW type, Hears(p, type),
           NEW q \in Players, NEW f \in Forms, NEW e
    PROVE  /\ NotesNoMore(q, f, e) /\ lost[q] \subseteq lost'[q]
           /\ q # p \/ News(p) \notin Grants(e) => GrantsStay(q, e)
           /\ News(p) \in Named(e, f) => Has(toClient[p], Named(e, f))
           /\ News(p) \in Answers(f) =>
                 /\ Has(toClient[p], Answers(f))
                 /\ Once(toClient[p], Answers(f)) => ~Has(toClient'[p], Answers(f))
                 /\ \A c : News(p).cookie # c => Has(toClient[p], OtherAnswers(f, c))
<1>1. /\ toClient[p] \in Seq(Notes) /\ toClient[p] # <<>>
      /\ toClient' = [toClient EXCEPT ![p] = Tail(toClient[p])]
      /\ News(p) = Head(toClient[p])
  BY NoteTypes DEF News
<1>2. toClient'[p] = Tail(toClient[p]) /\ \A r \in Players \ {p} : toClient'[r] = toClient[r]
  BY <1>1 DEF NetTypes
<1> DEFINE s == toClient[p]
<1>3. ASSUME NEW S
      PROVE  /\ Fewer(Tail(s), s, S)
             /\ Head(s) \notin S /\ Has(s, S) => Has(Tail(s), S)
             /\ Head(s) \in S => Has(s, S)
             /\ Head(s) \in S /\ Once(s, S) => ~Has(Tail(s), S)
  <2> s \in Seq(Notes) /\ s # <<>>
    BY <1>1
  <2> HIDE DEF s
  <2> QED BY OneOff, OneOffKeeps
<1>4. lost[q] \subseteq lost'[q]
  BY DEF Hears, NetTypes
<1>5. /\ Fewer(Tail(s), s, Answers(f))
      /\ \A c : Has(Tail(s), OtherAnswers(f, c)) => Has(s, OtherAnswers(f, c))
      /\ Has(Tail(s), Named(e, f)) => Has(s, Named(e, f))
  BY <1>3 DEF Fewer
<1>6. NotesNoMore(q, f, e)
  BY <1>2, <1>5 DEF NotesNoMore, Fewer
<1>7. q # p \/ News(p) \notin Grants(e) => GrantsStay(q, e)
  BY <1>1, <1>2, <1>3 DEF GrantsStay
<1>8. News(p) \in Named(e, f) => Has(toClient[p], Named(e, f))
  BY <1>1, <1>3
<1>9. ASSUME News(p) \in Answers(f)
      PROVE  /\ Has(toClient[p], Answers(f))
             /\ Once(toClient[p], Answers(f)) => ~Has(toClient'[p], Answers(f))
             /\ \A c : News(p).cookie # c => Has(toClient[p], OtherAnswers(f, c))
  <2>1. \A c : News(p).cookie # c => News(p) \in OtherAnswers(f, c)
    BY <1>9 DEF OtherAnswers
  <2> QED BY <1>1, <1>2, <1>3, <1>9, <2>1
<1> QED BY <1>4, <1>6, <1>7, <1>8, <1>9

LEMMA BecomingSteady ==
    ASSUME NetTypes, NEW p \in Players, NEW f \in Forms, NEW a, NEW r \in Seq(Requests),
           Becomes(p, f, a, r), NEW q \in Players, NEW g \in Forms, NEW e
    PROVE  /\ actor'[q][g] = IF q = p /\ g = f THEN a ELSE actor[q][g]
           /\ q # p => RequestsNoMore(q, g) /\ GiveUpsStay(q, e)
           /\ toServer'[p] = toServer[p] \o r \/ toServer'[p] = <<>>
           /\ p \in online => GiveUpsStay(p, e)
           /\ p \in online /\ Has(r, GiveUps(e)) => Has(toServer'[p], GiveUps(e))
           /\ ~Has(r, Asks(g)) => RequestsNoMore(q, g)
<1>1. /\ actor' = [actor EXCEPT ![p][f] = a]
      /\ toServer' = [toServer EXCEPT ![p] =
                         IF p \in online THEN toServer[p] \o r ELSE <<>>]
  BY DEF Becomes
<1>2. actor'[q][g] = IF q = p /\ g = f THEN a ELSE actor[q][g]
  BY <1>1 DEF NetTypes
<1> DEFINE s == toServer[p]
<1>3. /\ toServer'[p] = IF p \in online THEN s \o r ELSE <<>>
      /\ \A h \in Players \ {p} : toServer'[h] = toServer[h]
      /\ s \in Seq(Requests)
  BY <1>1 DEF NetTypes
<1>4. ASSUME NEW S
      PROVE  /\ Has(s \o r, S) <=> Has(s, S) \/ Has(r, S)
             /\ Once(s, S) /\ ~Has(r, S) => Once(s \o r, S)
  <2> HIDE DEF s
  <2> QED BY <1>3, PutOn
<1>5. q # p => RequestsNoMore(q, g) /\ GiveUpsStay(q, e)
  BY <1>3 DEF RequestsNoMore, GiveUpsStay, Fewer
<1>6. p \in online => GiveUpsStay(p, e)
  BY <1>3, <1>4 DEF GiveUpsStay
<1>7. p \in online /\ Has(r, GiveUps(e)) => Has(toServer'[p], GiveUps(e))
  BY <1>3, <1>4
<1>8. ASSUME ~Has(r, Asks(g)) PROVE RequestsNoMore(p, g)
  <2>1. \A c : ~Has(r, OtherAsks(g, c))
    BY <1>8 DEF Has, OtherAsks
  <2>2. CASE toServer'[p] = <<>>
    BY <2>2, NothingIn DEF RequestsNoMore, Fewer
  <2>3. CASE toServer'[p] = s \o r
    <3>1. Fewer(s \o r, s, Asks(g))
      BY <1>4, <1>8 DEF Fewer
    <3>2. \A c : Has(s \o r, OtherAsks(g, c)) => Has(s, OtherAsks(g, c))
      BY <1>4, <2>1
    <3> QED BY <2>3, <3>1, <3>2 DEF RequestsNoMore
  <2> QED BY <1>3, <2>2, <2>3
<1> QED BY <1>2, <1>3, <1>5, <1>6, <1>7, <1>8

(* What the messages say of the actor of form f.                           *)
LEMMA NotesAbout ==
    ASSUME NEW f, NEW e
    PROVE  /\ \A g, c, d, b : /\ Assigned(g, c, d, b) \in Answers(f) => g = f
                              /\ \A k : Assigned(g, c, d, b) \in OtherAnswers(f, k) =>
                                           g = f /\ c # k
                              /\ Assigned(g, c, d, b) \in Named(e, f) => d = e /\ g = f
           /\ \A g, d : /\ Spawn(g, d) \notin Answers(f)
                        /\ \A k : Spawn(g, d) \notin OtherAnswers(f, k)
                        /\ Spawn(g, d) \in Named(e, f) => d = e /\ g = f
           /\ \A d : /\ Offer(d) \notin Answers(f) /\ Offer(d) \notin Named(e, f)
                     /\ Removal(d) \notin Answers(f) /\ Removal(d) \notin Named(e, f)
BY DEF Answers, OtherAnswers, Named, Assigned, Spawn, Offer, Removal

LEMMA RequestsAbout ==
    ASSUME NEW f
    PROVE  /\ \A g, c, cell : /\ Assign(g, c, cell) \in Asks(f) => g = f
                              /\ \A k : Assign(g, c, cell) \in OtherAsks(f, k) =>
                                           g = f /\ c # k
           /\ \A cell : Enter(cell) \notin Asks(f)
           /\ \A d : Claim(d) \notin Asks(f)
           /\ \A d, cell : GiveUp(d, cell) \notin Asks(f)
BY DEF Asks, OtherAsks, Assign, Claim, GiveUp, Enter

---------------------------------------------------------------------------
(* The steps of the server.                                                *)

(* The question that is open is answered.                                  *)
LEMMA AnswerSent ==
    ASSUME NetTypes, NEW p \in Players, Receives(p, "Assign"),
           NEW f \in Forms, Request(p).form = f, Aware(p, f),
           NEW news, Send(news), news[p] \in Seq(Notes), Once(news[p], Answers(f)),
           ~Has(news[p], OtherAnswers(f, Request(p).cookie))
    PROVE  Aware(p, f)'
<1>1. UNCHANGED <<actor, lost>>
  BY DEF Receives
<1>2. CASE f \in lost[p]
  BY <1>1, <1>2 DEF Aware
<1>3. CASE OneQuestion(p, f) /\ (actor[p][f].local = None \/ actor[p][f].remote = None)
  <2> DEFINE w == actor[p][f].waiting
             s == toClient[p]
             t == news[p]
  <2>1. Request(p) \in Requests /\ Request(p).type = "Assign"
    BY RequestTypes
  <2>2. Request(p) \in Asks(f)
    BY <2>1 DEF Asks
  <2>3. /\ RequestsNoMore(p, f)
        /\ Has(toServer[p], Asks(f))
        /\ Once(toServer[p], Asks(f)) => ~Has(toServer'[p], Asks(f))
        /\ Request(p).cookie # w => Has(toServer[p], OtherAsks(f, w))
    BY <2>2, ReceiveSteady
  <2>4. Request(p).cookie = w
    BY <1>3, <2>3 DEF OneQuestion
  <2>5. /\ ~Has(toServer'[p], Asks(f)) /\ Once(toServer'[p], Asks(f))
        /\ ~Has(toServer'[p], OtherAsks(f, w))
    BY <1>3, <2>3 DEF OneQuestion, RequestsNoMore, Fewer
  <2>6. ~Has(s, Answers(f)) /\ ~Has(s, OtherAnswers(f, w))
    BY <1>3, <2>3 DEF OneQuestion
  <2>7. toClient'[p] = s \o t \/ toClient'[p] = <<>>
    BY DEF Send
  <2>8. s \in Seq(Notes) /\ t \in Seq(Notes)
    BY DEF NetTypes
  <2>9. Once(s \o t, Answers(f)) /\ ~Has(s \o t, OtherAnswers(f, w))
    <3>1. Once(t, Answers(f)) /\ ~Has(t, OtherAnswers(f, w))
      BY <2>4
    <3> HIDE DEF s, t, w
    <3> QED BY <2>6, <2>8, <3>1, PutOn
  <2>10. Once(toClient'[p], Answers(f)) /\ ~Has(toClient'[p], OtherAnswers(f, w))
    BY <2>7, <2>9, NothingIn
  <2>11. w = actor'[p][f].waiting /\ actor'[p][f] = actor[p][f]
    BY <1>1
  <2> HIDE DEF w
  <2>12. OneQuestion(p, f)'
    BY <2>5, <2>10, <2>11 DEF OneQuestion
  <2> QED BY <1>3, <2>11, <2>12 DEF Aware
<1> QED BY <1>2, <1>3 DEF Aware

LEMMA AssignKeeps ==
    ASSUME NetInv, NoParties, KeepInv, [Next]_ownVars, OwnershipInv',
           NEW p \in Players, ServerAssign(p),
           NEW q \in Players, NEW f \in Forms, NEW e \in Nat
    PROVE  InHand(q, f, e)'
<1> DEFINE r == Request(p)
<1>1. /\ Receives(p, "Assign") /\ r \in Requests /\ r.type = "Assign"
      /\ UNCHANGED <<actor, isLeader, lost>> /\ p \in online
  BY RequestTypes DEF NetInv, ServerAssign
<1>2. r.form \in Forms /\ r.cookie \in Nat /\ r.cell \in Cells
  BY <1>1, RequestKinds
<1>3. nextId \in Nat
  BY CharactersNumbered DEF NetInv
<1>4. RequestsNoMore(q, f) /\ ActorSteady(q, f) /\ GiveUpsStay(q, e)
  <2>1. r \notin GiveUps(e)
    BY <1>1 DEF GiveUps
  <2> QED BY <1>1, <2>1, ReceiveSteady DEF NetInv
<1>5. InHand(q, f, e)
  BY DEF KeepInv
<1> HIDE DEF r
<1> PICK g \in Forms : g = r.form
  BY <1>2
<1>6. ASSUME NEW d \in Nat, NEW owner \in BOOLEAN, NEW news, Send(news),
             news[q] \in Seq(Notes), Fits(d, g)',
             \A S : Has(news[q], S) => \/ q = p /\ Assigned(g, r.cookie, d, owner) \in S
                                       \/ Spawn(g, d) \in S,
             q = p => Once(news[q], Answers(f)),
             Owns(q, f, e)' => Owns(q, f, e) \/ Keeps(q, f, e)'
      PROVE  InHand(q, f, e)'
  <2>1. Has(news[q], Named(e, f)) => Fits(e, f)'
    BY <1>6, NotesAbout
  <2>2. Owns(q, f, e)' => q \in online'
    BY DEF Owns, OwnershipInv, OwnersAreOnline
  <2>3. q \in online' => GrantsStay(q, e)
    BY <1>6, SendSteady DEF NetInv
  <2>4. CASE q # p \/ f # g
    <3>1. ~Has(news[q], Answers(f))
      BY <1>6, <2>4, NotesAbout
    <3>2. NotesNoMore(q, f, e)
      BY <1>6, <2>1, <3>1, SendSteady DEF NetInv
    <3> QED BY <1>4, <1>5, <1>6, <2>2, <2>3, <3>2, StaysInHand DEF NetInv
  <2>5. CASE q = p /\ f = g
    <3>1. ~Has(news[p], OtherAnswers(f, r.cookie))
      <4> DEFINE S == OtherAnswers(f, r.cookie)
      <4>1. Assigned(g, r.cookie, d, owner) \notin S /\ Spawn(g, d) \notin S
        BY NotesAbout
      <4>2. Has(news[q], S) => Assigned(g, r.cookie, d, owner) \in S \/ Spawn(g, d) \in S
        <5> HIDE DEF S
        <5> QED BY <1>6
      <4> QED BY <2>5, <4>1, <4>2
    <3>2. Aware(p, f)'
      BY <1>1, <1>5, <1>6, <2>5, <3>1, AnswerSent DEF NetInv, InHand, r
    <3>3. toClient'[q] = toClient[q] \o news[q] \/ toClient'[q] = <<>>
      BY <1>6 DEF Send
    <3>4. Has(toClient'[q], Named(e, f)) => Has(toClient[q], Named(e, f)) \/ Fits(e, f)'
      <4> DEFINE s == toClient[q]
                 t == news[q]
      <4>1. s \in Seq(Notes) /\ t \in Seq(Notes)
        BY <1>6 DEF NetInv, NetTypes
      <4>2. Has(s \o t, Named(e, f)) => Has(s, Named(e, f)) \/ Has(t, Named(e, f))
        <5> HIDE DEF s, t
        <5> QED BY <4>1, PutOn
      <4> QED BY <2>1, <3>3, <4>2, NothingIn
    <3>5. Refers(q, f, e)' => Refers(q, f, e) \/ Fits(e, f)'
      BY <1>1, <3>4 DEF Refers
    <3>6. Refers(q, f, e)' => Fits(e, f)'
      BY <1>5, <3>5, StillFits DEF InHand, NetInv
    <3>7. Owns(q, f, e)' => Keeps(q, f, e)'
      BY <1>4, <1>5, <1>6, <2>2, <2>3 DEF InHand, Keeps, GrantsStay, GiveUpsStay, ActorSteady
    <3> QED BY <2>5, <3>2, <3>6, <3>7 DEF InHand
  <2> QED BY <2>4, <2>5
<1>7. ASSUME OnAssignNew(p, r.form, r.cell),
             Send(Then(To(p, Assigned(r.form, r.cookie, nextId, TRUE)),
                       ToEach(InRange(r.cell, p), Spawn(r.form, nextId))))
      PROVE  InHand(q, f, e)'
  <2> PICK n \in Nat : n = nextId
    BY <1>3
  <2> DEFINE m == Assigned(g, r.cookie, n, TRUE)
             w == Spawn(g, n)
             one == To(p, m)
             rest == ToEach(InRange(r.cell, p), w)
             news == Then(one, rest)
  <2>1. /\ online' = online
        /\ chars' = With(nextId, [form |-> r.form, cell |-> r.cell, owner |-> p,
                                  refused |-> {}])
        /\ nextId' = nextId + 1
    BY <1>7 DEF OnAssignNew, Create
  <2>2. m \in Notes /\ w \in Notes
    BY <1>2, <1>3, NotesMade
  <2>3. one[q] \in Seq(Notes) /\ rest[q] \in Seq(Notes) /\ news[q] \in Seq(Notes)
    BY <2>2, NewsTypes
  <2>4. m \in Grants(n)
    BY <2>2 DEF Grants, Assigned
  <2>5. Fits(n, g)'
    BY <1>3, <2>1 DEF Fits, With
  <2>6. w \notin Answers(f)
    BY NotesAbout
  <2> HIDE DEF m, w, one, rest, news
  <2>7. ASSUME NEW S
        PROVE  /\ Has(news[q], S) => Has(one[q], S) \/ Has(rest[q], S)
               /\ Once(one[q], S) /\ ~Has(rest[q], S) => Once(news[q], S)
    BY <2>3, NewsThatCounts DEF news
  <2>8. ASSUME NEW S
        PROVE  /\ Has(one[q], S) => q = p /\ m \in S
               /\ Once(one[q], S)
    BY NewsThatCounts DEF one
  <2>9. ASSUME NEW S PROVE Has(rest[q], S) => w \in S
    BY NewsThatCounts DEF rest
  <2>10. \A S : Has(news[q], S) => (q = p /\ m \in S) \/ w \in S
    BY <2>7, <2>8, <2>9
  <2>11. Once(news[q], Answers(f))
    BY <2>6, <2>7, <2>8, <2>9
  <2>12. Send(news)
    BY <1>7 DEF news, one, rest, m, w
  <2>13. Owns(q, f, e)' => Owns(q, f, e) \/ Keeps(q, f, e)'
    <3>1. CASE e # n
      BY <2>1, <3>1 DEF Owns, With
    <3>2. CASE e = n
      <4> SUFFICES ASSUME Owns(q, f, e)' PROVE Keeps(q, f, e)'
        OBVIOUS
      <4>1. q = p
        BY <2>1, <3>2 DEF Owns, With
      <4>2. Has(news[p], Grants(n))
        <5>1. one[p] = <<m>>
          BY DEF one, To, Nobody
        <5>2. Has(one[p], Grants(n))
          BY <2>4, <5>1, OneIn
        <5>3. news[p] = one[p] \o rest[p]
          BY DEF news, Then
        <5> DEFINE s == one[p]
                   t == rest[p]
        <5>4. s \in Seq(Notes) /\ t \in Seq(Notes)
          BY <2>3, <4>1
        <5>5. Has(s, Grants(n)) => Has(s \o t, Grants(n))
          <6> HIDE DEF s, t
          <6> QED BY <5>4, PutOn
        <5> QED BY <5>2, <5>3, <5>5
      <4>3. Has(toClient'[p], Grants(n))
        BY <1>1, <2>1, <2>3, <2>12, <4>1, <4>2, SendSteady DEF NetInv
      <4> QED BY <3>2, <4>1, <4>3 DEF Keeps
    <3> QED BY <3>1, <3>2
  <2> QED BY <1>3, <1>6, <2>3, <2>5, <2>10, <2>11, <2>12, <2>13 DEF m, w
<1>8. ASSUME NEW d \in Managed(r.form), OnAssignManaged(p, d),
             Send(Then(IF MayTakeOver(p, d) THEN RelinquishedTo(p, d) ELSE Nobody,
                       To(p, Assigned(r.form, r.cookie, d, MayTakeOver(p, d)))))
      PROVE  InHand(q, f, e)'
  <2>1. ~MayTakeOver(p, d)
    BY DEF MayTakeOver, NoParties
  <2> DEFINE m == Assigned(g, r.cookie, d, FALSE)
             one == To(p, m)
             news == Then(Nobody, one)
  <2>2. Send(news)
    <3>1. MayTakeOver(p, d) = FALSE
      BY <2>1 DEF MayTakeOver
    <3> QED BY <1>8, <3>1
  <2>3. UNCHANGED <<chars, nextId>>
    BY <1>8, <2>1 DEF OnAssignManaged
  <2>4. d \in Nat /\ d < nextId /\ d \in DOMAIN chars /\ chars[d].form = r.form
    BY CharactersNumbered DEF NetInv, Managed
  <2>5. m \in Notes
    BY <1>2, <2>4, NotesMade
  <2>6. Nobody[q] \in Seq(Notes) /\ one[q] \in Seq(Notes) /\ news[q] \in Seq(Notes)
    BY <2>5, NewsTypes
  <2>7. Fits(d, g)'
    BY <2>3, <2>4 DEF Fits
  <2> HIDE DEF m, one, news
  <2>8. ASSUME NEW S
        PROVE  /\ Has(one[q], S) => q = p /\ m \in S
               /\ Once(one[q], S) /\ ~Has(Nobody[q], S)
    BY NewsThatCounts DEF one
  <2>9. ASSUME NEW S
        PROVE  Has(news[q], S) => Has(Nobody[q], S) \/ Has(one[q], S)
    BY <2>6, NewsThatCounts DEF news
  <2>10. \A S : Has(news[q], S) => (q = p /\ m \in S) \/ Spawn(g, d) \in S
    BY <2>8, <2>9
  <2>11. Once(news[q], Answers(f))
    <3> DEFINE s == Nobody[q]
               t == one[q]
    <3>1. s \in Seq(Notes) /\ t \in Seq(Notes) /\ news[q] = s \o t
      BY <2>6 DEF news, Then
    <3>2. ~Has(s, Answers(f)) /\ Once(t, Answers(f))
      BY <2>8
    <3> HIDE DEF s, t
    <3> QED BY <3>1, <3>2, PutOn
  <2>12. Owns(q, f, e)' => Owns(q, f, e)
    BY <2>3 DEF Owns
  <2> QED BY <1>6, <2>2, <2>4, <2>6, <2>7, <2>10, <2>11, <2>12 DEF m
<1> QED BY <1>7, <1>8 DEF ServerAssign, r

(* A step that only sends, and reads a request other than the giving up of *)
(* what the client is responsible for.                                     *)
LEMMA ServerSteady ==
    ASSUME NetInv, KeepInv, [Next]_ownVars, OwnershipInv',
           NEW p \in Players, NEW type, Receives(p, type), NEW news, Send(news),
           NEW q \in Players, NEW f \in Forms, NEW e \in Nat,
           news[q] \in Seq(Notes), ~Has(news[q], Answers(f)),
           Has(news[q], Named(e, f)) => Fits(e, f)',
           Owns(q, f, e)' => \/ Owns(q, f, e) /\ (q # p \/ Request(p) \notin GiveUps(e))
                             \/ Has(news[q], Grants(e))
    PROVE  InHand(q, f, e)'
<1>1. /\ RequestsNoMore(q, f) /\ ActorSteady(q, f)
      /\ q # p \/ Request(p) \notin GiveUps(e) => GiveUpsStay(q, e)
  BY ReceiveSteady DEF NetInv
<1>2. /\ NotesNoMore(q, f, e)
      /\ q \in online' => GrantsStay(q, e)
      /\ q \in online' /\ Has(news[q], Grants(e)) => Has(toClient'[q], Grants(e))
  BY SendSteady DEF NetInv
<1>3. Owns(q, f, e)' => q \in online'
  BY DEF Owns, OwnershipInv, OwnersAreOnline
<1>4. ASSUME Owns(q, f, e)', Has(news[q], Grants(e))
      PROVE  Keeps(q, f, e)'
  <2>1. Has(toClient'[q], Grants(e))
    BY <1>2, <1>3, <1>4
  <2> QED BY <2>1 DEF Keeps
<1>5. Owns(q, f, e)' => \/ Owns(q, f, e) /\ GrantsStay(q, e) /\ GiveUpsStay(q, e)
                        \/ Keeps(q, f, e)'
  BY <1>1, <1>2, <1>3, <1>4
<1>6. InHand(q, f, e)
  BY DEF KeepInv
<1> QED BY <1>1, <1>2, <1>5, <1>6, StaysInHand DEF NetInv

(* A request about a character that does not exist any more.               *)
LEMMA RequestIgnored ==
    ASSUME NetInv, KeepInv, [Next]_ownVars, OwnershipInv',
           NEW p \in Players, NEW type, Receives(p, type), UNCHANGED <<ownVars, toClient>>,
           NEW q \in Players, NEW f \in Forms, NEW e \in Nat,
           Request(p) \in GiveUps(e) => e \notin DOMAIN chars
    PROVE  InHand(q, f, e)'
<1>1. /\ RequestsNoMore(q, f) /\ ActorSteady(q, f)
      /\ q # p \/ Request(p) \notin GiveUps(e) => GiveUpsStay(q, e)
  BY ReceiveSteady DEF NetInv
<1>2. NotesNoMore(q, f, e) /\ GrantsStay(q, e)
  BY DEF NotesNoMore, GrantsStay, Fewer
<1>3. Owns(q, f, e)' => Owns(q, f, e)
  BY DEF Owns, ownVars
<1>4. Owns(q, f, e)' => Owns(q, f, e) /\ GrantsStay(q, e) /\ GiveUpsStay(q, e)
  BY <1>1, <1>2, <1>3 DEF Owns
<1>5. InHand(q, f, e)
  BY DEF KeepInv
<1> QED BY <1>1, <1>2, <1>4, <1>5, StaysInHand DEF NetInv

LEMMA ClaimKeeps ==
    ASSUME NetInv, NoParties, KeepInv, [Next]_ownVars, OwnershipInv',
           \A d \in Nat : TokenInv(d), NEW p \in Players, ServerClaim(p),
           NEW q \in Players, NEW f \in Forms, NEW e \in Nat
    PROVE  InHand(q, f, e)'
<1> DEFINE d == Request(p).id
<1>1. Receives(p, "Claim") /\ Request(p) \in Requests /\ Request(p).type = "Claim"
  BY RequestTypes DEF NetInv, ServerClaim
<1>2. Request(p) \notin GiveUps(e)
  BY <1>1 DEF GiveUps
<1>3. CASE d \in DOMAIN chars
  <2>1. OnOwnershipClaim(p, d) /\ Send(RelinquishedTo(p, d))
    BY <1>3 DEF ServerClaim
  <2>2. d \in Nat /\ d \in Slot /\ chars[d].owner \in Players
    BY <1>3, CharactersNumbered, SlotFacts DEF NetInv
  <2>3. chars[d].owner = p
    <3>1. Request(p) \in Claims(d)
      BY <1>1 DEF Claims
    <3>2. Stakes(p, d)
      BY <1>1, <3>1, ReceiveQueues DEF NetInv, Stakes
    <3> QED BY <1>3, <2>2, <3>2 DEF TokenInv, Entitled
  <2>4. Send(Nobody)
    BY <2>1, <2>3 DEF RelinquishedTo
  <2>5. \A S : Nobody[q] \in Seq(Notes) /\ ~Has(Nobody[q], S)
    BY NewsTypes, NothingIn DEF Nobody
  <2>6. Owns(q, f, e)' => Owns(q, f, e)
    <3>1. TransferOwnership(p, d)
      BY <2>1 DEF OnOwnershipClaim
    <3> QED BY <1>3, <2>3, <3>1 DEF TransferOwnership, With, Owns
  <2> QED BY <1>1, <1>2, <2>4, <2>5, <2>6, ServerSteady
<1>4. CASE d \notin DOMAIN chars
  <2>1. UNCHANGED <<ownVars, toClient>>
    BY <1>4 DEF ServerClaim
  <2> QED BY <1>1, <1>2, <2>1, RequestIgnored
<1> QED BY <1>3, <1>4

LEMMA SetAsSeqAll ==
    ASSUME NEW S, IsFiniteSet(S), NEW x \in S
    PROVE  \E i \in DOMAIN SetToSeq(S) : SetToSeq(S)[i] = x
<1> DEFINE n == Cardinality(S)
           s == SetToSeq(S)
<1>1. n \in Nat /\ ExistsBijection(1 .. n, S)
  BY FS_CardinalityType
<1>2. PICK f \in [1 .. n -> S] : IsInjective(f)
  BY <1>1 DEF ExistsBijection, Bijection, Injection, IsInjective
<1>3. s \in [1 .. n -> S] /\ IsInjective(s)
  BY <1>2 DEF SetToSeq
<1> HIDE DEF s
<1>4. s \in Injection(1 .. n, S)
  BY <1>3 DEF Injection, IsInjective
<1>5. Cardinality(1 .. n) = n
  BY <1>1, FS_Interval
<1>6. s \in Surjection(1 .. n, S)
  <2> HIDE DEF n
  <2> QED BY <1>4, <1>5, FS_Injection DEF n
<1>7. \E i \in 1 .. n : s[i] = x
  BY <1>6 DEF Surjection
<1>8. \E i \in DOMAIN s : s[i] = x
  BY <1>3, <1>7
<1> QED BY <1>8 DEF s

(* A hand-over says nothing of forms, and the heir is told.                *)
LEMMA HandOverSteady ==
    ASSUME OwnershipInv, NEW E \in SUBSET DOMAIN chars,
           NEW q \in Players, NEW f, NEW e \in Nat
    PROVE  /\ HandOverNews(E)[q] \in Seq(Notes)
           /\ ~Has(HandOverNews(E)[q], Answers(f)) /\ ~Has(HandOverNews(E)[q], Named(e, f))
           /\ e \in E /\ e \in DOMAIN chars' /\ chars'[e].owner = q =>
                 Has(HandOverNews(E)[q], Grants(e))
<1> DEFINE S == {Announcement(d) : d \in Announced(E, q)}
           s == HandOverNews(E)[q]
<1>1. s = SetToSeq(S) /\ IsFiniteSet(S) /\ s \in Seq(Notes)
  BY HandOverTypes
<1>2. \A m \in S : m \notin Answers(f) /\ m \notin Named(e, f)
  BY NotesAbout DEF Announcement
<1>3. \A i \in DOMAIN s : s[i] \in S
  <2> HIDE DEF S, s
  <2>1. s \in Seq(S)
    BY <1>1, SetAsSeq
  <2> QED BY <2>1, LenProperties, ElementOfSeq
<1>4. ASSUME e \in E, e \in DOMAIN chars', chars'[e].owner = q
      PROVE  Has(s, Grants(e))
  <2>1. Offer(e) \in S
    BY <1>4 DEF Announced, Announcement
  <2>2. Offer(e) \in Grants(e)
    <3>1. Offer(e) \in Notes
      BY SlotFacts, NotesMade
    <3> QED BY <3>1 DEF Grants, Offer
  <2> HIDE DEF S, s
  <2>3. \E i \in DOMAIN s : s[i] = Offer(e)
    BY <1>1, <2>1, SetAsSeqAll
  <2> QED BY <2>2, <2>3 DEF Has
<1> HIDE DEF S, s
<1>5. ~Has(s, Answers(f)) /\ ~Has(s, Named(e, f))
  BY <1>2, <1>3 DEF Has
<1> QED BY <1>1, <1>4, <1>5 DEF s

LEMMA GiveUpKeeps ==
    ASSUME NetInv, KeepInv, [Next]_ownVars, OwnershipInv',
           NEW p \in Players, ServerGiveUp(p),
           NEW q \in Players, NEW f \in Forms, NEW e \in Nat
    PROVE  InHand(q, f, e)'
<1> DEFINE d == Request(p).id
           c == GivenUp(p, d, Request(p).cell)
           news == HandOverNews({d})
<1>1. Receives(p, "GiveUp")
  BY DEF ServerGiveUp
<1>2. Request(p) \in GiveUps(e) => d = e
  BY DEF GiveUps
<1>3. CASE d \in DOMAIN chars
  <2>1. OnOwnershipTransfer(p, d, Request(p).cell) /\ Send(news)
    BY <1>3 DEF ServerGiveUp
  <2>2. chars' = Without({d}) \/ \E h \in online : HandOver(d, c, h)
    BY <2>1 DEF OnOwnershipTransfer
  <2> HIDE DEF c
  <2>3. e # d => (Owns(q, f, e)' => Owns(q, f, e))
    BY <2>2 DEF Without, HandOver, With, Owns
  <2>4. {d} \in SUBSET DOMAIN chars
    BY <1>3
  <2>5. /\ news[q] \in Seq(Notes)
        /\ ~Has(news[q], Answers(f)) /\ ~Has(news[q], Named(e, f))
        /\ e = d /\ e \in DOMAIN chars' /\ chars'[e].owner = q => Has(news[q], Grants(e))
    <3> HIDE DEF d
    <3> QED BY <2>4, HandOverSteady DEF NetInv
  <2>6. e = d => (Owns(q, f, e)' => Has(news[q], Grants(e)))
    BY <2>5 DEF Owns
  <2> HIDE DEF news, d
  <2> QED BY <1>1, <1>2, <2>1, <2>3, <2>5, <2>6, ServerSteady
<1>4. CASE d \notin DOMAIN chars
  <2>1. UNCHANGED <<ownVars, toClient>>
    BY <1>4 DEF ServerGiveUp
  <2> QED BY <1>1, <1>2, <1>4, <2>1, RequestIgnored
<1> QED BY <1>3, <1>4

LEMMA EnterCellKeeps ==
    ASSUME NetInv, KeepInv, [Next]_ownVars, OwnershipInv',
           NEW p \in Players, ServerEnterCell(p),
           NEW q \in Players, NEW f \in Forms, NEW e \in Nat
    PROVE  InHand(q, f, e)'
<1> DEFINE r == Request(p)
           there == {d \in DOMAIN chars : /\ chars[d].cell = r.cell
                                          /\ chars[d].owner # p
                                          /\ chars[d].form \in Forms}
           spawns == {Spawn(chars[d].form, d) : d \in there}
           g == [d \in there |-> Spawn(chars[d].form, d)]
           news == [Nobody EXCEPT ![p] = SetToSeq(spawns)]
<1>1. Receives(p, "EnterCell") /\ r \in Requests /\ r.type = "EnterCell"
  BY RequestTypes DEF NetInv, ServerEnterCell
<1>2. r \notin GiveUps(e)
  BY <1>1 DEF GiveUps
<1>3. EnterCell(p, r.cell) /\ Send(news)
  BY DEF ServerEnterCell
<1>4. UNCHANGED <<chars, nextId>>
  BY <1>3 DEF EnterCell
<1>5. IsFiniteSet(there)
  BY CharactersNumbered, FS_Subset DEF NetInv
<1>6. \A m \in spawns : /\ m \in Notes /\ m \notin Answers(f)
                        /\ m \in Named(e, f) => Fits(e, f)
  <2> TAKE m \in spawns
  <2>1. PICK d \in there : m = Spawn(chars[d].form, d)
    OBVIOUS
  <2>2. d \in Nat /\ d < nextId /\ chars[d].form \in Forms
    BY CharactersNumbered DEF NetInv
  <2>3. m \in Named(e, f) => d = e /\ chars[d].form = f
    BY <2>1, NotesAbout
  <2>4. m \in Notes /\ m \notin Answers(f)
    BY <2>1, <2>2, NotesMade, NotesAbout
  <2> QED BY <2>2, <2>3, <2>4 DEF Fits
<1>7. IsFiniteSet(spawns)
  <2>1. g \in Surjection(there, spawns)
    BY DEF Surjection
  <2> HIDE DEF there, spawns, g
  <2> QED BY <1>5, <2>1, FS_Surjection
<1> DEFINE s == SetToSeq(spawns)
<1>8. /\ s \in Seq(Notes) /\ ~Has(s, Answers(f))
      /\ Has(s, Named(e, f)) => Fits(e, f)
  <2>1. s \in Seq(spawns)
    <3> HIDE DEF spawns
    <3> QED BY <1>7, SetAsSeq
  <2> HIDE DEF spawns, s
  <2>2. \A i \in DOMAIN s : s[i] \in spawns
    BY <2>1, ElementOfSeq, LenProperties
  <2>3. s \in Seq(Notes)
    BY <1>6, <2>1
  <2> QED BY <1>6, <2>2, <2>3 DEF Has
<1>9. news[q] = IF q = p THEN s ELSE <<>>
  <2> HIDE DEF spawns
  <2> QED BY DEF Nobody
<1> HIDE DEF s, news
<1>10. /\ news[q] \in Seq(Notes) /\ ~Has(news[q], Answers(f))
       /\ Has(news[q], Named(e, f)) => Fits(e, f)
  BY <1>8, <1>9, NothingIn, EmptySeq
<1>11. Fits(e, f) => Fits(e, f)'
  BY <1>4 DEF Fits
<1>12. Owns(q, f, e)' => Owns(q, f, e)
  BY <1>4 DEF Owns
<1> HIDE DEF r
<1> QED BY <1>1, <1>2, <1>3, <1>10, <1>11, <1>12, ServerSteady DEF r

---------------------------------------------------------------------------
(* Connections.                                                            *)

(* Somebody else comes, leaves or plays.                                   *)
LEMMA OthersSteady ==
    ASSUME NEW q \in Players, NEW f \in Forms, NEW e,
           toServer'[q] = toServer[q], actor'[q][f] = actor[q][f], lost'[q] = lost[q]
    PROVE  RequestsNoMore(q, f) /\ ActorSteady(q, f) /\ GiveUpsStay(q, e)
BY DEF RequestsNoMore, ActorSteady, GiveUpsStay, Fewer

LEMMA UnmanagedFields ==
    ASSUME NEW a, NEW b
    PROVE  /\ Unmanaged(a, b).local = None /\ Unmanaged(a, b).remote = None
           /\ Unmanaged(a, b).waiting = None
BY DEF Unmanaged

LEMMA DisconnectKeeps ==
    ASSUME NetInv, NoParties, KeepInv, [Next]_ownVars, OwnershipInv',
           NEW p \in Players, ServerDisconnect(p),
           NEW q \in Players, NEW f \in Forms, NEW e \in Nat
    PROVE  InHand(q, f, e)'
<1> DEFINE E == {d \in DOMAIN chars : d \notin DOMAIN chars' \/ chars'[d] # chars[d]}
           hand == HandOverNews(E)
           news == Then(hand, Nobody)
<1>1. /\ Disconnect(p)
      /\ toServer' = [toServer EXCEPT ![p] = <<>>]
      /\ actor' = [actor EXCEPT ![p] = [g \in Forms |->
                      Unmanaged(actor[p][g], actor[p][g].loaded)]]
      /\ lost' = [lost EXCEPT ![p] = {}]
  BY DEF ServerDisconnect
<1>2. Send(news)
  <2>1. leader = NoOne /\ p # NoOne
    BY OwnershipAssumption DEF NoParties
  <2> QED BY <2>1 DEF ServerDisconnect
<1>3. online' = online \ {p}
  BY <1>1 DEF Disconnect
<1>4. /\ hand[q] \in Seq(Notes)
      /\ ~Has(hand[q], Answers(f)) /\ ~Has(hand[q], Named(e, f))
      /\ e \in E /\ e \in DOMAIN chars' /\ chars'[e].owner = q => Has(hand[q], Grants(e))
  <2>1. E \in SUBSET DOMAIN chars
    OBVIOUS
  <2> HIDE DEF E
  <2> QED BY <2>1, HandOverSteady DEF NetInv
<1>5. CASE q = p
  <2>1. toServer'[p] = <<>> /\ toClient'[p] = <<>>
    BY <1>1, <1>2, <1>3 DEF NetInv, NetTypes, Send
  <2>2. actor'[p][f].local = None /\ actor'[p][f].remote = None
    <3>1. actor'[p][f] = Unmanaged(actor[p][f], actor[p][f].loaded)
      BY <1>1 DEF NetInv, NetTypes
    <3> QED BY <3>1, UnmanagedFields
  <2>3. OneQuestion(p, f)'
    BY <2>1, NothingIn DEF OneQuestion
  <2>4. ~Refers(p, f, e)'
    BY <2>1, <2>2, NothingIn DEF Refers, None
  <2>5. ~Owns(p, f, e)'
    BY <1>3 DEF Owns, OwnershipInv, OwnersAreOnline
  <2> QED BY <1>5, <2>2, <2>3, <2>4, <2>5 DEF InHand, Aware
<1>6. CASE q # p
  <2>1. toServer'[q] = toServer[q] /\ actor'[q][f] = actor[q][f] /\ lost'[q] = lost[q]
    BY <1>1, <1>6 DEF NetInv, NetTypes
  <2>2. RequestsNoMore(q, f) /\ ActorSteady(q, f) /\ GiveUpsStay(q, e)
    BY <2>1, OthersSteady
  <2>3. Nobody[q] = <<>> /\ Nobody[q] \in Seq(Notes)
    BY NewsTypes DEF Nobody
  <2>4. news[q] = hand[q]
    <3>1. news[q] = hand[q] \o Nobody[q]
      BY DEF Then
    <3> HIDE DEF hand, news
    <3> QED BY <1>4, <2>3, <3>1, ConcatEmptySeq
  <2> HIDE DEF hand, news
  <2>5. /\ NotesNoMore(q, f, e)
        /\ q \in online' => GrantsStay(q, e)
        /\ q \in online' /\ Has(news[q], Grants(e)) => Has(toClient'[q], Grants(e))
    BY <1>2, <1>4, <2>4, SendSteady DEF NetInv
  <2>6. Owns(q, f, e)' => q \in online'
    BY DEF Owns, OwnershipInv, OwnersAreOnline
  <2>7. Owns(q, f, e)' => e \in DOMAIN chars
    BY <1>1 DEF Owns, Disconnect, Bequeathed
  <2>8. Owns(q, f, e)' => Owns(q, f, e) \/ Has(news[q], Grants(e))
    BY <1>4, <2>4, <2>7 DEF Owns
  <2>9. Owns(q, f, e)' => \/ Owns(q, f, e) /\ GrantsStay(q, e) /\ GiveUpsStay(q, e)
                          \/ Keeps(q, f, e)'
    <3> SUFFICES ASSUME Owns(q, f, e)', Has(news[q], Grants(e)) PROVE Keeps(q, f, e)'
      BY <2>2, <2>5, <2>6, <2>8
    <3>1. Has(toClient'[q], Grants(e))
      BY <2>5, <2>6
    <3> QED BY <3>1 DEF Keeps
  <2>10. InHand(q, f, e)
    BY DEF KeepInv
  <2> QED BY <2>2, <2>5, <2>9, <2>10, StaysInHand DEF NetInv
<1> QED BY <1>5, <1>6

(* What is asked of an actor that nobody has.                              *)
LEMMA ProcessedAsks ==
    ASSUME NEW f \in Forms, NEW a \in ActorStates, NEW cell \in Cells
    PROVE  /\ Processed(f, a, FALSE).local = a.local
           /\ Processed(f, a, FALSE).remote = a.remote
           /\ \/ /\ a.waiting = None /\ a.local = None /\ a.remote = None
                 /\ Processed(f, a, FALSE).waiting = a.asked
                 /\ ProcessedRequests(f, a, FALSE, cell) = <<Assign(f, a.asked, cell)>>
              \/ /\ Processed(f, a, FALSE).waiting = a.waiting
                 /\ ProcessedRequests(f, a, FALSE, cell) = <<>>
<1>1. ~WouldTake(f, a, FALSE)
  BY DEF WouldTake
<1>2. CASE MustAsk(a)
  BY <1>1, <1>2 DEF Processed, ProcessedRequests, MustAsk, ActorStates
<1>3. CASE ~MustAsk(a)
  BY <1>1, <1>3 DEF Processed, ProcessedRequests
<1> QED BY <1>2, <1>3

LEMMA CookieFacts == ASSUME NEW m \in Requests \cup Notes, m.type \in {"Assign", "Assigned"}
                     PROVE  m.cookie \in Nat /\ m.cookie # None
<1>1. m.cookie \in Nat
  BY DEF Requests, Notes
<1> QED BY <1>1 DEF None

(* Who waits for nothing has asked nothing.                                *)
LEMMA NothingAsked ==
    ASSUME NEW p \in Players, NEW f \in Forms, OneQuestion(p, f),
           actor[p][f].waiting = None
    PROVE  ~Has(toServer[p], Asks(f)) /\ ~Has(toClient[p], Answers(f))
<1>1. /\ \A m \in Asks(f) : m \in OtherAsks(f, None)
      /\ \A m \in Answers(f) : m \in OtherAnswers(f, None)
  BY CookieFacts DEF Asks, Answers, OtherAsks, OtherAnswers
<1>2. /\ ~Has(toServer[p], OtherAsks(f, None))
      /\ ~Has(toClient[p], OtherAnswers(f, None))
  BY DEF OneQuestion
<1> QED BY <1>1, <1>2 DEF Has

LEMMA ConnectKeeps ==
    ASSUME NetInv, KeepInv, [Next]_ownVars, OwnershipInv',
           NEW p \in Players, ServerConnect(p),
           NEW q \in Players, NEW f \in Forms, NEW e \in Nat
    PROVE  InHand(q, f, e)'
<1> DEFINE a == actor[p]
           F == {g \in Forms : a[g].loaded}
           After(g) == IF a[g].loaded THEN Processed(g, a[g], FALSE) ELSE a[g]
<1>1. /\ Connect(p) /\ Send(Nobody) /\ lost' = lost
      /\ actor' = [actor EXCEPT ![p] = [g \in Forms |-> After(g)]]
  BY DEF ServerConnect, ProcessAll
<1>2. PICK cell \in Cells : toServer' = [toServer EXCEPT ![p] = <<>> \o
          SetToSeq(UNION {ToSet(ProcessedRequests(g, a[g], FALSE, cell)) : g \in F})]
  BY DEF ServerConnect, ProcessAll
<1> DEFINE R(g) == ToSet(ProcessedRequests(g, a[g], FALSE, cell))
           all == UNION {R(g) : g \in F}
           r == SetToSeq(all)
<1>3. /\ NotesNoMore(q, f, e)
      /\ q \in online' => GrantsStay(q, e)
  <2>1. Nobody[q] \in Seq(Notes) /\ \A S : ~Has(Nobody[q], S)
    BY NewsTypes, NothingIn DEF Nobody
  <2> QED BY <1>1, <2>1, SendSteady DEF NetInv
<1>4. Owns(q, f, e)' => Owns(q, f, e) /\ q \in online /\ q \in online'
  BY <1>1 DEF Owns, NetInv, OwnershipInv, OwnersAreOnline, Connect
<1>5. InHand(q, f, e)
  BY DEF KeepInv
<1>6. CASE q # p
  <2>1. toServer'[q] = toServer[q] /\ actor'[q][f] = actor[q][f] /\ lost'[q] = lost[q]
    BY <1>1, <1>2, <1>6 DEF NetInv, NetTypes
  <2>2. RequestsNoMore(q, f) /\ ActorSteady(q, f) /\ GiveUpsStay(q, e)
    BY <2>1, OthersSteady
  <2> QED BY <1>3, <1>4, <1>5, <2>2, StaysInHand DEF NetInv
<1>7. CASE q = p
  <2>1. \A g \in Forms : a[g] \in ActorStates
    BY ActorFacts
  <2>2. actor'[p][f] = After(f)
    BY <1>1 DEF NetInv, NetTypes
  <2>3. \A m \in all : m \in Asks(f) =>
           /\ a[f].waiting = None /\ a[f].local = None /\ a[f].remote = None
           /\ After(f).waiting = a[f].asked
           /\ m = Assign(f, a[f].asked, cell)
    <3> SUFFICES ASSUME NEW m \in all, m \in Asks(f)
                 PROVE  /\ a[f].waiting = None /\ a[f].local = None /\ a[f].remote = None
                        /\ After(f).waiting = a[f].asked
                        /\ m = Assign(f, a[f].asked, cell)
      OBVIOUS
    <3>1. PICK g \in F : m \in R(g)
      OBVIOUS
    <3>2. \/ /\ a[g].waiting = None /\ a[g].local = None /\ a[g].remote = None
             /\ Processed(g, a[g], FALSE).waiting = a[g].asked
             /\ ProcessedRequests(g, a[g], FALSE, cell) = <<Assign(g, a[g].asked, cell)>>
          \/ ProcessedRequests(g, a[g], FALSE, cell) = <<>>
      BY <2>1, ProcessedAsks
    <3>3. /\ a[g].waiting = None /\ a[g].local = None /\ a[g].remote = None
          /\ Processed(g, a[g], FALSE).waiting = a[g].asked
          /\ m = Assign(g, a[g].asked, cell)
      <4> DEFINE s == ProcessedRequests(g, a[g], FALSE, cell)
      <4>1. PICK i \in DOMAIN s : m = s[i]
        BY <3>1 DEF ToSet
      <4> HIDE DEF s
      <4>2. s # <<>>
        BY <4>1
      <4>3. s = <<Assign(g, a[g].asked, cell)>> => m = Assign(g, a[g].asked, cell)
        BY <4>1
      <4> QED BY <3>2, <4>2, <4>3 DEF s
    <3>4. g = f
      BY <3>3, RequestsAbout
    <3> QED BY <3>1, <3>3, <3>4
  <2>4. IsFiniteSet(all) /\ all \subseteq Requests
    <3>1. a \in [Forms -> ActorStates]
      BY DEF NetInv, NetTypes
    <3> HIDE DEF a
    <3> QED BY <3>1, AskedFinite
  <2>5. /\ r \in Seq(all)
        /\ \A i, j \in 1 .. Len(r) : r[i] = r[j] => i = j
    <3> HIDE DEF all
    <3> QED BY <2>4, SetAsSeq
  <2>6. toServer'[p] = r
    <3>1. toServer'[p] = <<>> \o r
      BY <1>2 DEF NetInv, NetTypes
    <3> HIDE DEF r, all
    <3> QED BY <2>5, <3>1, ConcatEmptySeq
  <2>7. \A i \in DOMAIN r : r[i] \in all
    <3> HIDE DEF r, all
    <3> QED BY <2>5, ElementOfSeq, LenProperties
  <2>8. DOMAIN r = 1 .. Len(r)
    <3> HIDE DEF r, all
    <3> QED BY <2>5, LenProperties
  <2>9. After(f).local = a[f].local /\ After(f).remote = a[f].remote
    BY <2>1, ProcessedAsks
  <2>10. After(f).waiting = a[f].waiting \/ a[f].waiting = None
    BY <2>1, ProcessedAsks
  <2> HIDE DEF After, all, r
  <2>11. Refers(p, f, e)' => Refers(p, f, e) \/ Fits(e, f)'
    BY <1>3, <1>7, <2>2, <2>9 DEF Refers, NotesNoMore
  <2>12. Refers(p, f, e)' => Fits(e, f)'
    BY <1>5, <1>7, <2>11, StillFits DEF InHand, NetInv
  <2>13. ASSUME OneQuestion(p, f)
         PROVE  OneQuestion(p, f)'
    <3> DEFINE w == After(f).waiting
    <3>1. Once(r, Asks(f))
      BY <2>3, <2>5, <2>7, <2>8 DEF Once
    <3>2. ~Has(r, OtherAsks(f, w))
      <4> SUFFICES ASSUME NEW i \in DOMAIN r, r[i] \in OtherAsks(f, w) PROVE FALSE
        BY DEF Has
      <4>1. r[i] \in Asks(f) /\ r[i].cookie # w
        BY DEF OtherAsks
      <4>2. w = a[f].asked /\ r[i] = Assign(f, a[f].asked, cell)
        BY <2>3, <2>7, <4>1
      <4> QED BY <4>1, <4>2 DEF Assign
    <3>3. /\ Once(toClient'[p], Answers(f))
          /\ \A c : Has(toClient'[p], OtherAnswers(f, c)) => Has(toClient[p], OtherAnswers(f, c))
          /\ Has(toClient'[p], Answers(f)) => Has(toClient[p], Answers(f))
      BY <1>3, <1>7, <2>13 DEF OneQuestion, NotesNoMore, Fewer
    <3>4. a[f].waiting = None => ~Has(toClient[p], Answers(f))
      BY <2>13, NothingAsked
    <3>5. Has(r, Asks(f)) => ~Has(toClient'[p], Answers(f))
      BY <2>3, <2>7, <3>3, <3>4 DEF Has
    <3>6. ~Has(toClient'[p], OtherAnswers(f, w))
      <4>1. CASE w = a[f].waiting
        BY <2>13, <3>3, <4>1 DEF OneQuestion
      <4>2. CASE a[f].waiting = None
        BY <3>3, <3>4, <4>2 DEF Has, OtherAnswers
      <4> QED BY <2>10, <4>1, <4>2
    <3>7. actor'[p][f].waiting = w
      BY <2>2
    <3> HIDE DEF w
    <3> QED BY <2>6, <3>1, <3>2, <3>3, <3>5, <3>6, <3>7 DEF OneQuestion
  <2>14. Aware(p, f)'
    BY <1>1, <1>5, <1>7, <2>2, <2>9, <2>13 DEF InHand, Aware
  <2>15. ~Owns(p, f, e)'
    BY <1>1, <1>4, <1>7 DEF Connect
  <2> QED BY <1>7, <2>12, <2>14, <2>15 DEF InHand
<1> QED BY <1>6, <1>7

LEMMA PlayerActorKeeps ==
    ASSUME NetInv, KeepInv, [Next]_ownVars, OwnershipInv',
           NEW p \in Players, NEW cell \in Cells, ServerPlayerActor(p, cell),
           NEW q \in Players, NEW f \in Forms, NEW e \in Nat
    PROVE  InHand(q, f, e)'
<1>1. /\ UNCHANGED <<toServer, toClient, actor, lost>>
      /\ chars' = With(nextId, [form |-> PlayerForm, cell |-> cell, owner |-> p,
                                refused |-> {}])
  BY DEF ServerPlayerActor, netVars, OnAssignPlayer, Create
<1>2. RequestsNoMore(q, f) /\ ActorSteady(q, f) /\ GiveUpsStay(q, e)
  BY <1>1, OthersSteady
<1>3. NotesNoMore(q, f, e) /\ GrantsStay(q, e)
  BY <1>1 DEF NotesNoMore, GrantsStay, Fewer
<1>4. Owns(q, f, e)' => Owns(q, f, e)
  BY <1>1, OwnershipAssumption DEF Owns, With
<1>5. InHand(q, f, e)
  BY DEF KeepInv
<1> QED BY <1>2, <1>3, <1>4, <1>5, StaysInHand DEF NetInv

---------------------------------------------------------------------------
(* The steps of a client.  None changes the table of the server.           *)

(* More is asked, nothing of it about f.                                   *)
LEMMA AskedNoMore ==
    ASSUME NEW q \in Players, NEW f, NEW e, toServer[q] \in Seq(Requests),
           NEW r \in Seq(Requests), ~Has(r, Asks(f)),
           toServer'[q] \in {toServer[q] \o r, toServer[q]}
    PROVE  RequestsNoMore(q, f) /\ GiveUpsStay(q, e)
<1> DEFINE s == toServer[q]
<1>1. ASSUME NEW S
      PROVE  /\ Has(s \o r, S) <=> Has(s, S) \/ Has(r, S)
             /\ Once(s, S) /\ ~Has(r, S) => Once(s \o r, S)
  <2> s \in Seq(Requests)
    OBVIOUS
  <2> HIDE DEF s
  <2> QED BY PutOn
<1>2. \A c : ~Has(r, OtherAsks(f, c))
  BY DEF Has, OtherAsks
<1>3. CASE toServer'[q] = s
  BY <1>3 DEF RequestsNoMore, GiveUpsStay, Fewer
<1>4. CASE toServer'[q] = s \o r
  <2>1. Fewer(s \o r, s, Asks(f))
    BY <1>1 DEF Fewer
  <2>2. \A c : Has(s \o r, OtherAsks(f, c)) => Has(s, OtherAsks(f, c))
    BY <1>1, <1>2
  <2>3. Has(s, GiveUps(e)) => Has(s \o r, GiveUps(e))
    BY <1>1
  <2> QED BY <1>4, <2>1, <2>2, <2>3 DEF RequestsNoMore, GiveUpsStay
<1> QED BY <1>3, <1>4

LEMMA OwnsSame ==
    ASSUME UNCHANGED ownVars, NEW q, NEW f, NEW e
    PROVE  /\ Owns(q, f, e)' <=> Owns(q, f, e)
           /\ Fits(e, f)' <=> Fits(e, f)
BY DEF Owns, Fits, ownVars

(* What a client hears of one actor, or holds to be it, is that actor.     *)
LEMMA NewsIsAbout ==
    ASSUME KeepInv, NEW p \in Players, NEW f \in Forms, NEW g \in Forms, NEW e \in Nat,
           Refers(p, g, e), Owns(p, f, e)
    PROVE  f = g
<1>1. Fits(e, g)
  BY DEF KeepInv, InHand
<1> QED BY <1>1 DEF Fits, Owns

LEMMA NamedRefers ==
    ASSUME NetTypes, NEW p \in Players, NEW type, Hears(p, type),
           NEW f \in Forms, NEW e, News(p) \in Named(e, f)
    PROVE  Refers(p, f, e)
<1>1. Has(toClient[p], Named(e, f))
  BY HearSteady
<1> QED BY <1>1 DEF Refers

(* News that concern another actor, or another player.                     *)
LEMMA ElsewhereSteady ==
    ASSUME NetInv, KeepInv, [Next]_ownVars, OwnershipInv',
           NEW p \in Players, NEW type, Hears(p, type),
           NEW g \in Forms, NEW a, NEW r \in Seq(Requests), Becomes(p, g, a, r),
           NEW q \in Players, NEW f \in Forms, NEW e \in Nat,
           q # p \/ f # g, ~Has(r, Asks(f)),
           q = p /\ Owns(p, f, e) => News(p) \notin Grants(e)
    PROVE  InHand(q, f, e)'
<1>1. /\ NotesNoMore(q, f, e) /\ lost[q] \subseteq lost'[q]
      /\ q # p \/ News(p) \notin Grants(e) => GrantsStay(q, e)
  BY HearSteady DEF NetInv
<1>2. /\ actor'[q][f] = actor[q][f] /\ RequestsNoMore(q, f) /\ GiveUpsStay(q, e)
  <2>1. p \in online
    BY DEF Hears
  <2> QED BY <2>1, BecomingSteady DEF NetInv
<1>3. ActorSteady(q, f)
  BY <1>1, <1>2 DEF ActorSteady
<1>4. Owns(q, f, e)' => Owns(q, f, e) /\ GrantsStay(q, e) /\ GiveUpsStay(q, e)
  <2>1. UNCHANGED ownVars
    BY DEF Hears
  <2> QED BY <1>1, <1>2, <2>1, OwnsSame
<1>5. InHand(q, f, e)
  BY DEF KeepInv
<1> QED BY <1>1, <1>2, <1>3, <1>4, <1>5, StaysInHand DEF NetInv

(* News that change nothing.                                               *)
LEMMA IgnoredSteady ==
    ASSUME NetInv, KeepInv, [Next]_ownVars, OwnershipInv',
           NEW p \in Players, NEW type, Hears(p, type), Ignore,
           NEW q \in Players, NEW f \in Forms, NEW e \in Nat,
           q = p /\ Owns(p, f, e) => News(p) \notin Grants(e) \/ f \in lost[p]
    PROVE  InHand(q, f, e)'
<1>1. /\ NotesNoMore(q, f, e) /\ lost[q] \subseteq lost'[q]
      /\ q # p \/ News(p) \notin Grants(e) => GrantsStay(q, e)
  BY HearSteady DEF NetInv
<1>2. toServer' = toServer /\ actor' = actor /\ UNCHANGED ownVars
  BY DEF Ignore, Hears
<1>3. RequestsNoMore(q, f) /\ GiveUpsStay(q, e) /\ ActorSteady(q, f)
  BY <1>1, <1>2 DEF RequestsNoMore, GiveUpsStay, ActorSteady, Fewer
<1>4. Owns(q, f, e)' => Owns(q, f, e)
  BY <1>2, OwnsSame
<1>5. f \in lost[q] => Keeps(q, f, e)'
  BY <1>1 DEF Keeps
<1>6. Owns(q, f, e)' => \/ Owns(q, f, e) /\ GrantsStay(q, e) /\ GiveUpsStay(q, e)
                        \/ Keeps(q, f, e)'
  BY <1>1, <1>3, <1>4, <1>5
<1>7. InHand(q, f, e)
  BY DEF KeepInv
<1> QED BY <1>1, <1>3, <1>6, <1>7, StaysInHand DEF NetInv

LEMMA AnswerKeeps ==
    ASSUME NetInv, KeepInv, [Next]_ownVars, OwnershipInv',
           NEW p \in Players, OnAssignCharacter(p),
           NEW q \in Players, NEW f \in Forms, NEW e \in Nat
    PROVE  InHand(q, f, e)'
<1> DEFINE m == News(p)
           a == actor[p][m.form]
           b == Answered(a, m)
<1>1. /\ Hears(p, "Assigned") /\ m \in Notes /\ m.type = "Assigned"
      /\ UNCHANGED ownVars /\ p \in online
  BY NoteTypes DEF NetInv, OnAssignCharacter
<1>2. m.form \in Forms /\ m.cookie \in Nat /\ m.id \in Nat /\ m.cookie # None
  BY <1>1, NoteKinds, CookieFacts
<1>3. a \in ActorStates /\ Waits(a)
  BY <1>2, ActorFacts
<1>4. m \in Answers(m.form) /\ m \in Named(m.id, m.form)
  BY <1>1 DEF Answers, Named
<1>5. Refers(p, m.form, m.id)
  BY <1>1, <1>2, <1>4, NamedRefers DEF NetInv
<1>6. m \in Grants(e) => m.id = e /\ m.owner
  BY <1>1 DEF Grants
<1>7. m \in Grants(e) /\ Owns(p, f, e) => f = m.form
  BY <1>2, <1>5, <1>6, NewsIsAbout
<1>8. CASE a.waiting # m.cookie
  <2>1. Ignore
    BY <1>8 DEF OnAssignCharacter
  <2>2. m.form \in lost[p]
    <3>1. Has(toClient[p], OtherAnswers(m.form, a.waiting))
      BY <1>1, <1>2, <1>4, <1>8, HearSteady DEF NetInv
    <3>2. InHand(p, m.form, m.id)
      BY <1>2 DEF KeepInv
    <3> QED BY <3>1, <3>2 DEF InHand, Aware, OneQuestion
  <2> HIDE DEF m, a
  <2> QED BY <1>1, <1>7, <2>1, <2>2, IgnoredSteady DEF m
<1>9. CASE a.waiting = m.cookie
  <2>1. Becomes(p, m.form, b, <<>>)
    BY <1>9 DEF OnAssignCharacter, Answered
  <2>2. a.local = None /\ a.remote = None
    BY <1>2, <1>3, <1>9 DEF Waits
  <2>3. /\ b.waiting = None
        /\ b.local = IF m.owner THEN m.id ELSE None
        /\ b.remote = IF m.owner THEN None ELSE m.id
    <3> HIDE DEF a, m
    <3> QED BY <1>1, <1>3, <2>2, AnsweredState
  <2>4. <<>> \in Seq(Requests) /\ ~Has(<<>>, Asks(f))
    BY EmptySeq, NothingIn
  <2> HIDE DEF m, b
  <2>5. CASE q # p \/ f # m.form
    BY <1>1, <1>2, <1>7, <2>1, <2>4, <2>5, ElsewhereSteady DEF m
  <2>6. CASE q = p /\ f = m.form
    <3>1. /\ actor'[p][f] = b /\ RequestsNoMore(p, f) /\ GiveUpsStay(p, e)
      <4>1. Becomes(p, f, b, <<>>)
        BY <2>1, <2>6
      <4>2. p \in online /\ NetTypes
        BY <1>1 DEF NetInv
      <4>3. actor'[p][f] = b
        BY <4>1, <4>2 DEF Becomes, NetTypes
      <4>4. RequestsNoMore(p, f) /\ GiveUpsStay(p, e)
        BY <2>4, <4>1, <4>2, BecomingSteady
      <4> QED BY <4>3, <4>4
    <3>2. /\ NotesNoMore(p, f, e) /\ lost[p] \subseteq lost'[p]
          /\ m \notin Grants(e) => GrantsStay(p, e)
          /\ Has(toClient[p], Answers(f))
          /\ Once(toClient[p], Answers(f)) => ~Has(toClient'[p], Answers(f))
      BY <1>1, <1>4, <2>6, HearSteady DEF NetInv, m
    <3>3. InHand(p, f, e)
      BY DEF KeepInv
    <3>4. Refers(p, f, e)' => Fits(e, f)'
      <4>1. e # None
        BY DEF None
      <4>2. Refers(p, f, e)' => m.id = e \/ Has(toClient'[p], Named(e, f))
        BY <2>3, <3>1, <4>1 DEF Refers
      <4>3. Refers(p, f, e)' => Refers(p, f, e) \/ Fits(e, f)'
        BY <1>5, <2>6, <3>2, <4>2 DEF Refers, NotesNoMore
      <4> QED BY <3>3, <4>3, StillFits DEF InHand, NetInv
    <3>5. Aware(p, f)'
      <4> SUFFICES ASSUME f \notin lost[p] PROVE Aware(p, f)'
        BY <3>2 DEF Aware
      <4>1. OneQuestion(p, f)
        BY <3>3 DEF InHand, Aware
      <4>2. ~Has(toServer'[p], Asks(f)) /\ ~Has(toClient'[p], Answers(f))
        BY <3>1, <3>2, <4>1 DEF OneQuestion, RequestsNoMore, Fewer
      <4>3. /\ Once(toServer'[p], Asks(f)) /\ Once(toClient'[p], Answers(f))
            /\ \A c : ~Has(toServer'[p], OtherAsks(f, c)) /\ ~Has(toClient'[p], OtherAnswers(f, c))
        BY <4>2 DEF Has, Once, OtherAsks, OtherAnswers
      <4>4. OneQuestion(p, f)'
        BY <4>2, <4>3 DEF OneQuestion
      <4>5. b.local = None \/ b.remote = None
        BY <2>3
      <4> QED BY <3>1, <4>4, <4>5 DEF Aware
    <3>6. ASSUME Owns(p, f, e)' PROVE Keeps(p, f, e)'
      <4>1. Keeps(p, f, e)
        BY <1>1, <3>3, <3>6, OwnsSame DEF InHand
      <4>2. CASE m \in Grants(e)
        BY <1>6, <2>3, <3>1, <4>2 DEF Keeps
      <4>3. CASE m \notin Grants(e)
        <5>1. actor[p][f].local # e
          BY <2>2, <2>6 DEF m, None
        <5> QED BY <3>1, <3>2, <4>1, <4>3, <5>1 DEF Keeps, GrantsStay, GiveUpsStay
      <4> QED BY <4>2, <4>3
    <3> QED BY <2>6, <3>4, <3>5, <3>6 DEF InHand
  <2> QED BY <2>5, <2>6
<1> QED BY <1>8, <1>9

LEMMA SpawnKeeps ==
    ASSUME NetInv, KeepInv, [Next]_ownVars, OwnershipInv',
           NEW p \in Players, OnCharacterSpawn(p),
           NEW q \in Players, NEW f \in Forms, NEW e \in Nat
    PROVE  InHand(q, f, e)'
<1> DEFINE m == News(p)
           a == actor[p][m.form]
           b == [a EXCEPT !.remote = m.id]
<1>1. /\ Hears(p, "Spawn") /\ m \in Notes /\ m.type = "Spawn"
      /\ UNCHANGED ownVars /\ p \in online
  BY NoteTypes DEF NetInv, OnCharacterSpawn
<1>2. m.form \in Forms /\ m.id \in Nat
  BY <1>1, NoteKinds
<1>3. m \notin Grants(e)
  BY <1>1 DEF Grants
<1>4. CASE Ignore
  <2> HIDE DEF m
  <2> QED BY <1>1, <1>3, <1>4, IgnoredSteady DEF m
<1>5. CASE Becomes(p, m.form, b, <<>>)
  <2>1. a \in ActorStates
    BY <1>2, ActorFacts
  <2>2. b.waiting = a.waiting /\ b.local = a.local /\ b.remote = m.id
    <3> HIDE DEF a, m
    <3> QED BY <2>1 DEF ActorStates
  <2>3. <<>> \in Seq(Requests) /\ ~Has(<<>>, Asks(f))
    BY EmptySeq, NothingIn
  <2>4. Refers(p, m.form, m.id)
    <3>1. m \in Named(m.id, m.form)
      BY <1>1 DEF Named
    <3> QED BY <1>1, <1>2, <3>1, NamedRefers DEF NetInv
  <2>5. lost'[p] = IF a.local # None THEN lost[p] \cup {m.form} ELSE lost[p]
    BY <1>1 DEF Hears, NetInv, NetTypes
  <2> HIDE DEF m, b
  <2>6. CASE q # p \/ f # m.form
    BY <1>1, <1>2, <1>3, <1>5, <2>3, <2>6, ElsewhereSteady DEF m
  <2>7. CASE q = p /\ f = m.form
    <3>1. /\ actor'[p][f] = b /\ RequestsNoMore(p, f) /\ GiveUpsStay(p, e)
      <4>1. Becomes(p, f, b, <<>>)
        BY <1>5, <2>7
      <4>2. p \in online /\ NetTypes
        BY <1>1 DEF NetInv
      <4>3. actor'[p][f] = b
        BY <4>1, <4>2 DEF Becomes, NetTypes
      <4>4. RequestsNoMore(p, f) /\ GiveUpsStay(p, e)
        BY <2>3, <4>1, <4>2, BecomingSteady
      <4> QED BY <4>3, <4>4
    <3>2. /\ NotesNoMore(p, f, e) /\ lost[p] \subseteq lost'[p] /\ GrantsStay(p, e)
      BY <1>1, <1>3, HearSteady DEF NetInv, m
    <3>3. InHand(p, f, e)
      BY DEF KeepInv
    <3>4. Refers(p, f, e)' => Fits(e, f)'
      <4>1. Refers(p, f, e)' => Refers(p, f, e) \/ Fits(e, f)'
        BY <2>2, <2>4, <2>7, <3>1, <3>2 DEF Refers, NotesNoMore
      <4> QED BY <3>3, <4>1, StillFits DEF InHand, NetInv
    <3>5. Aware(p, f)'
      <4> SUFFICES ASSUME f \notin lost'[p] PROVE Aware(p, f)'
        BY DEF Aware
      <4>1. f \notin lost[p] /\ b.local = None
        BY <2>2, <2>5, <2>7
      <4>2. OneQuestion(p, f)
        BY <3>3, <4>1 DEF InHand, Aware
      <4>3. actor'[p][f].waiting = actor[p][f].waiting
        BY <2>2, <2>7, <3>1
      <4>4. OneQuestion(p, f)'
        BY <3>1, <3>2, <4>2, <4>3, StillOneQuestion
      <4> QED BY <3>1, <4>1, <4>4 DEF Aware
    <3>6. ASSUME Owns(p, f, e)' PROVE Keeps(p, f, e)'
      <4>1. Keeps(p, f, e)
        BY <1>1, <3>3, <3>6, OwnsSame DEF InHand
      <4> QED BY <2>2, <2>7, <3>1, <3>2, <4>1 DEF Keeps, GrantsStay, GiveUpsStay
    <3> QED BY <2>7, <3>4, <3>5, <3>6 DEF InHand
  <2> QED BY <2>6, <2>7
<1> QED BY <1>4, <1>5 DEF OnCharacterSpawn

LEMMA OfferKeeps ==
    ASSUME NetInv, KeepInv, [Next]_ownVars, OwnershipInv',
           NEW p \in Players, OnOwnershipOffer(p),
           NEW q \in Players, NEW f \in Forms, NEW e \in Nat
    PROVE  InHand(q, f, e)'
<1> DEFINE d == News(p).id
<1>1. /\ News(p) \in Notes /\ News(p).type = "Offer" /\ UNCHANGED ownVars
      /\ Hears(p, "Offer") /\ p \in online
  BY NoteTypes DEF NetInv, OnOwnershipOffer
<1>2. d \in Nat /\ d # None /\ (News(p) \in Grants(e) => d = e)
  BY <1>1, NoteKinds DEF Grants, None
<1> HIDE DEF d
<1>3. ASSUME NEW g \in RemoteAs(p, d), Becomes(p, g, Taken(actor[p][g]), <<Claim(d)>>)
      PROVE  InHand(q, f, e)'
  <2> DEFINE b == Taken(actor[p][g])
             r == <<Claim(d)>>
  <2>1. g \in Forms /\ actor[p][g].remote = d
    BY DEF RemoteAs
  <2>2. b.waiting = actor[p][g].waiting /\ b.local = d /\ b.remote = None
    BY <2>1, ActorFacts, TakenState
  <2>3. r \in Seq(Requests) /\ ~Has(r, Asks(f))
    <3>1. Claim(d) \in Requests /\ Claim(d) \notin Asks(f)
      BY <1>2, SlotFacts, RequestsMade, RequestsAbout
    <3> QED BY <3>1, OneIn
  <2>4. Refers(p, g, d)
    BY <2>1 DEF Refers
  <2>5. News(p) \in Grants(e) /\ Owns(p, f, e) => f = g
    BY <1>2, <2>1, <2>4, NewsIsAbout
  <2>6. Becomes(p, g, b, r)
    BY <1>3
  <2> HIDE DEF b, r
  <2>7. CASE q # p \/ f # g
    BY <1>1, <2>1, <2>3, <2>5, <2>6, <2>7, ElsewhereSteady
  <2>8. CASE q = p /\ f = g
    <3>1. /\ actor'[p][f] = b /\ RequestsNoMore(p, f) /\ GiveUpsStay(p, e)
      <4>1. Becomes(p, f, b, r)
        BY <2>6, <2>8
      <4>2. p \in online /\ NetTypes
        BY <1>1 DEF NetInv
      <4>3. actor'[p][f] = b
        BY <4>1, <4>2 DEF Becomes, NetTypes
      <4>4. RequestsNoMore(p, f) /\ GiveUpsStay(p, e)
        BY <2>3, <4>1, <4>2, BecomingSteady
      <4> QED BY <4>3, <4>4
    <3>2. /\ NotesNoMore(p, f, e) /\ lost[p] \subseteq lost'[p]
          /\ News(p) \notin Grants(e) => GrantsStay(p, e)
      BY <1>1, HearSteady DEF NetInv
    <3>3. InHand(p, f, e)
      BY DEF KeepInv
    <3>4. Refers(p, f, e)' => Fits(e, f)'
      <4>1. e # None
        BY DEF None
      <4>2. Refers(p, f, e)' => Refers(p, f, e) \/ Fits(e, f)'
        BY <2>2, <2>4, <2>8, <3>1, <3>2, <4>1 DEF Refers, NotesNoMore
      <4> QED BY <3>3, <4>2, StillFits DEF InHand, NetInv
    <3>5. Aware(p, f)'
      <4> SUFFICES ASSUME f \notin lost'[p] PROVE Aware(p, f)'
        BY DEF Aware
      <4>1. OneQuestion(p, f)
        BY <3>2, <3>3 DEF InHand, Aware
      <4>2. actor'[p][f].waiting = actor[p][f].waiting
        BY <2>2, <2>8, <3>1
      <4>3. OneQuestion(p, f)'
        BY <3>1, <3>2, <4>1, <4>2, StillOneQuestion
      <4> QED BY <2>2, <3>1, <4>3 DEF Aware
    <3>6. ASSUME Owns(p, f, e)' PROVE Keeps(p, f, e)'
      <4>1. Keeps(p, f, e)
        BY <1>1, <3>3, <3>6, OwnsSame DEF InHand
      <4>2. CASE News(p) \in Grants(e)
        BY <1>2, <2>2, <3>1, <4>2 DEF Keeps
      <4>3. CASE News(p) \notin Grants(e) /\ actor[p][f].local # e
        BY <3>1, <3>2, <4>1, <4>3 DEF Keeps, GrantsStay, GiveUpsStay
      <4>4. CASE actor[p][f].local = e
        <5>1. f \in lost[p]
          <6>1. e # None
            BY DEF None
          <6> QED BY <1>2, <2>1, <2>8, <3>3, <4>4, <6>1 DEF InHand, Aware
        <5> QED BY <3>2, <5>1 DEF Keeps
      <4> QED BY <4>2, <4>3, <4>4
    <3> QED BY <2>8, <3>4, <3>5, <3>6 DEF InHand
  <2> QED BY <2>7, <2>8
<1>4. CASE /\ toServer' = [toServer EXCEPT ![p] = Append(@, GiveUp(d, NoCell))]
           /\ UNCHANGED actor
  <2> DEFINE s == toServer[p]
             r == <<GiveUp(d, NoCell)>>
  <2>1. /\ GiveUp(d, NoCell) \in Requests /\ GiveUp(d, NoCell) \notin Asks(f)
        /\ GiveUp(e, NoCell) \in GiveUps(e)
    <3>1. GiveUp(d, NoCell) \in Requests /\ GiveUp(e, NoCell) \in Requests
      BY <1>2, SlotFacts, RequestsMade
    <3> QED BY <3>1, RequestsAbout DEF GiveUps, GiveUp
  <2>2. /\ s \in Seq(Requests) /\ r \in Seq(Requests) /\ toServer'[p] = s \o r
        /\ \A h \in Players \ {p} : toServer'[h] = toServer[h]
    BY <1>4, <2>1, AppendIsConcat DEF NetInv, NetTypes
  <2>3. ~Has(r, Asks(f)) /\ (d = e => Has(r, GiveUps(e)))
    BY <2>1, OneIn
  <2> HIDE DEF r
  <2>4. RequestsNoMore(q, f) /\ GiveUpsStay(q, e)
    <3>1. toServer[q] \in Seq(Requests) /\ toServer'[q] \in {toServer[q] \o r, toServer[q]}
      BY <2>2 DEF NetInv, NetTypes
    <3> QED BY <2>2, <2>3, <3>1, AskedNoMore
  <2>5. d = e => Has(toServer'[p], GiveUps(e))
    <3> HIDE DEF s
    <3> QED BY <2>2, <2>3, PutOn
  <2>6. /\ NotesNoMore(q, f, e) /\ lost[q] \subseteq lost'[q]
        /\ q # p \/ News(p) \notin Grants(e) => GrantsStay(q, e)
    BY <1>1, HearSteady DEF NetInv
  <2>7. ActorSteady(q, f)
    BY <1>4, <2>6 DEF ActorSteady
  <2>8. Owns(q, f, e)' => \/ Owns(q, f, e) /\ GrantsStay(q, e) /\ GiveUpsStay(q, e)
                          \/ Keeps(q, f, e)'
    <3>1. CASE q # p \/ News(p) \notin Grants(e)
      BY <1>1, <2>4, <2>6, <3>1, OwnsSame
    <3>2. CASE q = p /\ News(p) \in Grants(e)
      BY <1>2, <2>5, <3>2 DEF Keeps
    <3> QED BY <3>1, <3>2
  <2>9. InHand(q, f, e)
    BY DEF KeepInv
  <2> QED BY <2>4, <2>6, <2>7, <2>8, <2>9, StaysInHand DEF NetInv
<1> QED BY <1>3, <1>4 DEF OnOwnershipOffer, d

LEMMA RemoveKeeps ==
    ASSUME NetInv, KeepInv, [Next]_ownVars, OwnershipInv',
           NEW p \in Players, OnRemoveCharacter(p),
           NEW q \in Players, NEW f \in Forms, NEW e \in Nat
    PROVE  InHand(q, f, e)'
<1>1. /\ Hears(p, "Remove") /\ toServer' = toServer
      /\ actor' = [actor EXCEPT ![p] = [g \in Forms |->
                      IF actor[p][g].remote = News(p).id
                      THEN [actor[p][g] EXCEPT !.remote = None] ELSE actor[p][g]]]
  BY DEF OnRemoveCharacter
<1>2. News(p).type = "Remove" /\ UNCHANGED ownVars
  BY <1>1, NoteTypes DEF NetInv
<1>3. News(p) \notin Grants(e)
  BY <1>2 DEF Grants
<1>4. /\ NotesNoMore(q, f, e) /\ lost[q] \subseteq lost'[q] /\ GrantsStay(q, e)
  BY <1>1, <1>3, HearSteady DEF NetInv
<1>5. ActorSteady(q, f)
  <2>1. /\ actor[q][f] \in ActorStates
        /\ actor'[q][f] \in {actor[q][f], [actor[q][f] EXCEPT !.remote = None]}
    BY <1>1, ActorFacts DEF NetInv, NetTypes
  <2> QED BY <1>4, <2>1 DEF ActorStates, ActorSteady
<1>6. RequestsNoMore(q, f) /\ GiveUpsStay(q, e)
  BY <1>1 DEF RequestsNoMore, GiveUpsStay, Fewer
<1>7. InHand(q, f, e) /\ (Owns(q, f, e)' => Owns(q, f, e))
  BY <1>2, OwnsSame DEF KeepInv
<1> QED BY <1>4, <1>5, <1>6, <1>7, StaysInHand DEF NetInv

LEMMA TravelKeeps ==
    ASSUME NetInv, KeepInv, [Next]_ownVars, OwnershipInv',
           NEW p \in Players, NEW cell \in Cells, Travel(p, cell),
           NEW q \in Players, NEW f \in Forms, NEW e \in Nat
    PROVE  InHand(q, f, e)'
<1> DEFINE r == <<Enter(cell)>>
<1>1. /\ UNCHANGED <<ownVars, toClient, actor, isLeader, lost>>
      /\ toServer' = [toServer EXCEPT ![p] = Append(toServer[p], Enter(cell))]
  BY DEF Travel
<1>2. Enter(cell) \in Requests /\ Enter(cell) \notin Asks(f)
  BY RequestsMade, RequestsAbout
<1>3. r \in Seq(Requests) /\ ~Has(r, Asks(f))
  BY <1>2, OneIn
<1>4. toServer[q] \in Seq(Requests) /\ toServer'[q] \in {toServer[q] \o r, toServer[q]}
  BY <1>1, <1>2, AppendIsConcat DEF NetInv, NetTypes
<1> HIDE DEF r
<1>5. RequestsNoMore(q, f) /\ GiveUpsStay(q, e)
  BY <1>3, <1>4, AskedNoMore
<1>6. NotesNoMore(q, f, e) /\ GrantsStay(q, e) /\ ActorSteady(q, f)
  BY <1>1 DEF NotesNoMore, GrantsStay, ActorSteady, Fewer
<1>7. InHand(q, f, e) /\ (Owns(q, f, e)' => Owns(q, f, e))
  BY <1>1, OwnsSame DEF KeepInv
<1> QED BY <1>5, <1>6, <1>7, StaysInHand DEF NetInv

(* The game loads or unloads an actor, and the client asks what it asks.   *)
LEMMA OtherActorsSteady ==
    ASSUME NetInv, KeepInv, [Next]_ownVars, OwnershipInv', UNCHANGED <<ownVars, toClient>>,
           NEW p \in Players, NEW g \in Forms, NEW a, NEW r \in Seq(Requests),
           Becomes(p, g, a, r), NEW q \in Players, NEW f \in Forms, NEW e \in Nat,
           q # p \/ f # g, ~Has(r, Asks(f)), lost[q] \subseteq lost'[q]
    PROVE  InHand(q, f, e)'
<1>1. NotesNoMore(q, f, e) /\ GrantsStay(q, e)
  BY DEF NotesNoMore, GrantsStay, Fewer
<1>2. /\ actor'[q][f] = actor[q][f] /\ RequestsNoMore(q, f)
      /\ q \in online => GiveUpsStay(q, e)
  BY BecomingSteady DEF NetInv
<1>3. ActorSteady(q, f)
  BY <1>2 DEF ActorSteady
<1>4. Owns(q, f, e)' => Owns(q, f, e) /\ q \in online
  <2>1. Owns(q, f, e)' => Owns(q, f, e)
    BY OwnsSame
  <2> QED BY <2>1 DEF Owns, NetInv, OwnershipInv, OwnersAreOnline
<1>5. InHand(q, f, e)
  BY DEF KeepInv
<1> QED BY <1>1, <1>2, <1>3, <1>4, <1>5, StaysInHand DEF NetInv

LEMMA LoadKeeps ==
    ASSUME NetInv, NoParties, KeepInv, [Next]_ownVars, OwnershipInv',
           NEW p \in Players, NEW g \in Forms, OnActorAdded(p, g),
           NEW q \in Players, NEW f \in Forms, NEW e \in Nat
    PROVE  InHand(q, f, e)'
<1> DEFINE a == [actor[p][g] EXCEPT !.loaded = TRUE]
<1>1. /\ a \in ActorStates /\ a.local = actor[p][g].local
      /\ a.remote = actor[p][g].remote /\ a.waiting = actor[p][g].waiting
  <2>1. actor[p][g] \in ActorStates
    BY ActorFacts
  <2> QED BY <2>1 DEF ActorStates
<1>2. UNCHANGED <<ownVars, toClient, isLeader, lost>>
  BY DEF OnActorAdded
<1>3. isLeader[p] = FALSE
  BY DEF NoParties, NetInv, NetTypes
<1> HIDE DEF a
<1>4. PICK b, r : /\ Becomes(p, g, b, r)
                  /\ \/ b = a /\ r = <<>>
                     \/ \E cell \in Cells : /\ b = Processed(g, a, FALSE)
                                            /\ r = ProcessedRequests(g, a, FALSE, cell)
  BY <1>3 DEF OnActorAdded, a
<1>5. /\ b.local = a.local /\ b.remote = a.remote /\ r \in Seq(Requests)
      /\ \/ b.waiting = a.waiting /\ r = <<>>
         \/ /\ a.waiting = None /\ a.local = None /\ a.remote = None
            /\ \E cell : r = <<Assign(g, b.waiting, cell)>>
  <2>1. <<>> \in Seq(Requests)
    BY EmptySeq
  <2>2. CASE b = a /\ r = <<>>
    BY <2>1, <2>2
  <2>3. CASE \E cell \in Cells : /\ b = Processed(g, a, FALSE)
                                 /\ r = ProcessedRequests(g, a, FALSE, cell)
    <3>1. PICK cell \in Cells : /\ b = Processed(g, a, FALSE)
                                /\ r = ProcessedRequests(g, a, FALSE, cell)
      BY <2>3
    <3>2. r \in Seq(Requests)
      BY <1>1, <3>1, ProcessedState
    <3>3. /\ Processed(g, a, FALSE).local = a.local
          /\ Processed(g, a, FALSE).remote = a.remote
          /\ \/ /\ a.waiting = None /\ a.local = None /\ a.remote = None
                /\ Processed(g, a, FALSE).waiting = a.asked
                /\ ProcessedRequests(g, a, FALSE, cell) = <<Assign(g, a.asked, cell)>>
             \/ /\ Processed(g, a, FALSE).waiting = a.waiting
                /\ ProcessedRequests(g, a, FALSE, cell) = <<>>
      BY <1>1, ProcessedAsks
    <3> QED BY <3>1, <3>2, <3>3
  <2> QED BY <1>4, <2>2, <2>3
<1>6. f # g => ~Has(r, Asks(f))
  <2>1. CASE r = <<>>
    BY <2>1, NothingIn
  <2>2. CASE \E cell : r = <<Assign(g, b.waiting, cell)>>
    BY <2>2, OneIn, RequestsAbout
  <2> QED BY <1>5, <2>1, <2>2
<1>7. CASE f # g
  BY <1>2, <1>4, <1>5, <1>6, <1>7, OtherActorsSteady
<1>8. CASE q # p /\ f = g
  <2>1. RequestsNoMore(q, f) /\ GiveUpsStay(q, e)
    BY <1>4, <1>5, <1>8, BecomingSteady DEF NetInv
  <2>2. actor'[q][f] = actor[q][f]
    BY <1>4, <1>8 DEF Becomes, NetInv, NetTypes
  <2>3. NotesNoMore(q, f, e) /\ GrantsStay(q, e) /\ ActorSteady(q, f)
    BY <1>2, <2>2 DEF NotesNoMore, GrantsStay, ActorSteady, Fewer
  <2>4. InHand(q, f, e) /\ (Owns(q, f, e)' => Owns(q, f, e))
    BY <1>2, OwnsSame DEF KeepInv
  <2> QED BY <2>1, <2>3, <2>4, StaysInHand DEF NetInv
<1>9. CASE q = p /\ f = g
  <2>1. actor'[p][f] = b
    BY <1>4, <1>9 DEF Becomes, NetInv, NetTypes
  <2>2. InHand(p, f, e)
    BY DEF KeepInv
  <2>3. CASE b.waiting = a.waiting /\ r = <<>>
    <3>1. ~Has(r, Asks(f))
      BY <2>3, NothingIn
    <3>2. RequestsNoMore(p, f) /\ (p \in online => GiveUpsStay(p, e))
      BY <1>4, <1>5, <3>1, BecomingSteady DEF NetInv
    <3>3. NotesNoMore(p, f, e) /\ GrantsStay(p, e) /\ ActorSteady(p, f)
      BY <1>1, <1>2, <1>5, <1>9, <2>1, <2>3 DEF NotesNoMore, GrantsStay, ActorSteady, Fewer
    <3>4. Owns(p, f, e)' => Owns(p, f, e) /\ p \in online
      BY <1>2, OwnsSame DEF Owns, NetInv, OwnershipInv, OwnersAreOnline
    <3> QED BY <1>9, <2>2, <3>2, <3>3, <3>4, StaysInHand DEF NetInv
  <2>4. ASSUME a.waiting = None, a.local = None, a.remote = None,
               NEW cell, r = <<Assign(g, b.waiting, cell)>>
        PROVE  InHand(p, f, e)'
    <3> DEFINE s == toServer[p]
               w == b.waiting
               A == Asks(f)
               O == OtherAsks(f, w)
    <3>1. toServer'[p] = s \o r \/ toServer'[p] = <<>>
      BY <1>4 DEF Becomes, NetInv, NetTypes
    <3>2. s \in Seq(Requests)
      BY DEF NetInv, NetTypes
    <3>3. /\ Refers(p, f, e)' => Fits(e, f)'
      <4>1. Refers(p, f, e)' => Refers(p, f, e)
        BY <1>1, <1>2, <1>5, <1>9, <2>1 DEF Refers
      <4> QED BY <2>2, <4>1, StillFits DEF InHand, NetInv
    <3>4. Aware(p, f)'
      <4> SUFFICES ASSUME f \notin lost[p] PROVE Aware(p, f)'
        BY <1>2 DEF Aware
      <4>1. OneQuestion(p, f)
        BY <2>2 DEF InHand, Aware
      <4>2. ~Has(s, A) /\ ~Has(toClient[p], Answers(f))
        BY <1>1, <1>9, <2>4, <4>1, NothingAsked
      <4>3. ~Has(s, O)
        BY <4>2 DEF Has, OtherAsks
      <4>4. Once(r, A) /\ ~Has(r, O)
        BY <2>4, OneIn, RequestsAbout
      <4>5. Once(s \o r, A) /\ ~Has(s \o r, O)
        <5> HIDE DEF s, A, O
        <5> QED BY <1>5, <3>2, <4>2, <4>3, <4>4, PutOn
      <4>6. Once(toServer'[p], A) /\ ~Has(toServer'[p], O)
        BY <3>1, <4>5, NothingIn
      <4>7. /\ ~Has(toClient'[p], Answers(f)) /\ Once(toClient'[p], Answers(f))
            /\ ~Has(toClient'[p], OtherAnswers(f, w))
        BY <1>2, <4>2 DEF Has, Once, OtherAnswers
      <4>8. actor'[p][f].waiting = w
        BY <2>1
      <4> HIDE DEF w
      <4>9. OneQuestion(p, f)'
        BY <4>6, <4>7, <4>8 DEF OneQuestion
      <4>10. actor'[p][f].local = None
        BY <1>5, <2>1, <2>4
      <4> QED BY <4>9, <4>10 DEF Aware
    <3>5. Owns(p, f, e)' => Keeps(p, f, e)'
      <4> SUFFICES ASSUME Owns(p, f, e)' PROVE Keeps(p, f, e)'
        OBVIOUS
      <4>1. Owns(p, f, e) /\ p \in online
        BY <1>2, OwnsSame DEF Owns, NetInv, OwnershipInv, OwnersAreOnline
      <4>2. Keeps(p, f, e)
        BY <2>2, <4>1 DEF InHand
      <4>3. GiveUpsStay(p, e)
        BY <1>4, <1>5, <4>1, BecomingSteady DEF NetInv
      <4>4. actor'[p][f].local = actor[p][f].local
        BY <1>1, <1>5, <1>9, <2>1
      <4> QED BY <1>2, <4>2, <4>3, <4>4 DEF Keeps, GiveUpsStay
    <3> QED BY <3>3, <3>4, <3>5 DEF InHand
  <2> QED BY <1>5, <1>9, <2>3, <2>4
<1> QED BY <1>7, <1>8, <1>9

LEMMA UnloadKeeps ==
    ASSUME NetInv, KeepInv, [Next]_ownVars, OwnershipInv',
           NEW p \in Players, NEW g \in Forms, OnActorRemoved(p, g),
           NEW q \in Players, NEW f \in Forms, NEW e \in Nat
    PROVE  InHand(q, f, e)'
<1> DEFINE a == actor[p][g]
           b == Unmanaged(a, FALSE)
<1>1. a \in ActorStates /\ a.local \in Slot /\ Waits(a)
  BY ActorFacts, ActorFields
<1>2. UNCHANGED <<ownVars, toClient, isLeader>>
  BY DEF OnActorRemoved
<1>3. PICK cell \in Cells : Becomes(p, g, b, Cancelled(a, cell))
  BY DEF OnActorRemoved
<1> DEFINE m == GiveUp(a.local, cell)
           r == Cancelled(a, cell)
<1>4. b.local = None /\ b.remote = None /\ b.waiting = None
  BY UnmanagedFields
<1>5. /\ lost[q] \subseteq lost'[q]
      /\ a.remote = None /\ a.waiting # None => g \in lost'[p]
  BY DEF OnActorRemoved, NetInv, NetTypes
<1>6. /\ m \in Requests /\ m \notin Asks(f)
      /\ a.local = e => m \in GiveUps(e)
  <2>1. m \in Requests
    BY <1>1, RequestsMade
  <2> QED BY <2>1, RequestsAbout DEF GiveUps, GiveUp
<1>7. r = IF a.remote = None /\ a.local # None THEN <<m>> ELSE <<>>
  BY DEF Cancelled
<1>8. Becomes(p, g, b, r)
  BY <1>3
<1> HIDE DEF a, b, m, r
<1>9. /\ r \in Seq(Requests) /\ ~Has(r, Asks(f))
      /\ a.local = e /\ a.remote = None => Has(r, GiveUps(e))
  <2>1. <<m>> \in Seq(Requests) /\ <<>> \in Seq(Requests) /\ e # None
    BY <1>6, EmptySeq DEF None
  <2>2. r \in Seq(Requests)
    BY <1>7, <2>1
  <2>3. ~Has(r, Asks(f))
    BY <1>6, <1>7, AtMostOneIn
  <2>4. a.local = e /\ a.remote = None => Has(r, GiveUps(e))
    BY <1>6, <1>7, <2>1, OneIn
  <2> QED BY <2>2, <2>3, <2>4
<1>10. CASE q # p \/ f # g
  BY <1>2, <1>5, <1>8, <1>9, <1>10, OtherActorsSteady
<1>11. CASE q = p /\ f = g
  <2>1. Becomes(p, f, b, r)
    BY <1>8, <1>11
  <2>2. actor'[p][f] = b
    BY <2>1 DEF Becomes, NetInv, NetTypes
  <2>3. /\ RequestsNoMore(p, f)
        /\ p \in online => GiveUpsStay(p, e)
        /\ p \in online /\ Has(r, GiveUps(e)) => Has(toServer'[p], GiveUps(e))
    BY <1>9, <2>1, BecomingSteady DEF NetInv
  <2>4. NotesNoMore(p, f, e) /\ GrantsStay(p, e)
    BY <1>2 DEF NotesNoMore, GrantsStay, Fewer
  <2>5. InHand(p, f, e) /\ e # None
    BY DEF KeepInv, None
  <2>6. Refers(p, f, e)' => Fits(e, f)'
    <3>1. Refers(p, f, e)' => Refers(p, f, e) \/ Fits(e, f)'
      BY <1>4, <2>2, <2>4, <2>5 DEF Refers, NotesNoMore
    <3> QED BY <2>5, <3>1, StillFits DEF InHand, NetInv
  <2>7. Aware(p, f)'
    <3> SUFFICES ASSUME f \notin lost'[p] PROVE Aware(p, f)'
      BY DEF Aware
    <3>1. a.waiting = None
      BY <1>1, <1>5, <1>11 DEF Waits
    <3>2. actor'[p][f].waiting = actor[p][f].waiting
      BY <1>4, <1>11, <2>2, <3>1 DEF a
    <3>3. OneQuestion(p, f)
      BY <1>5, <1>11, <2>5 DEF InHand, Aware
    <3>4. OneQuestion(p, f)'
      BY <2>3, <2>4, <3>2, <3>3, StillOneQuestion
    <3> QED BY <1>4, <2>2, <3>4 DEF Aware
  <2>8. ASSUME Owns(p, f, e)' PROVE Keeps(p, f, e)'
    <3>1. Owns(p, f, e)
      BY <1>2, <2>8, OwnsSame
    <3>2. p \in online
      BY <3>1 DEF Owns, NetInv, OwnershipInv, OwnersAreOnline
    <3>3. Keeps(p, f, e)
      BY <2>5, <3>1 DEF InHand
    <3>4. CASE actor[p][f].local # e
      BY <1>5, <1>11, <2>3, <2>4, <3>2, <3>3, <3>4 DEF Keeps, GrantsStay, GiveUpsStay
    <3>5. CASE a.local = e /\ a.remote = None
      BY <1>9, <2>3, <3>2, <3>5 DEF Keeps
    <3>6. CASE a.local = e /\ a.remote # None
      <4>1. f \in lost[p]
        BY <1>11, <2>5, <3>6 DEF InHand, Aware, a
      <4> QED BY <1>5, <1>11, <4>1 DEF Keeps
    <3> QED BY <1>11, <3>4, <3>5, <3>6 DEF a
  <2> QED BY <1>11, <2>6, <2>7, <2>8 DEF InHand
<1> QED BY <1>10, <1>11

---------------------------------------------------------------------------
LEMMA KeepStep ==
    ASSUME NetInv, NoParties, \A d \in Nat : TokenInv(d), KeepInv, [NetNext]_vars
    PROVE  KeepInv'
<1>1. [Next]_ownVars /\ OwnershipInv'
  BY NetStep DEF NetInv
<1> SUFFICES ASSUME NEW q \in Players, NEW f \in Forms, NEW e \in Nat
             PROVE  InHand(q, f, e)'
  BY DEF KeepInv
<1>2. ASSUME NEW p \in Players, ServerReads(p)
      PROVE  InHand(q, f, e)'
  BY <1>1, <1>2, AssignKeeps, ClaimKeeps, GiveUpKeeps, EnterCellKeeps DEF ServerReads
<1>3. ASSUME NEW p \in Players, ClientReads(p)
      PROVE  InHand(q, f, e)'
  BY <1>1, <1>3, AnswerKeeps, SpawnKeeps, OfferKeeps, RemoveKeeps, NoPartyNews
  DEF ClientReads
<1>4. ASSUME NEW p \in Players, ServerConnect(p) \/ ServerDisconnect(p)
      PROVE  InHand(q, f, e)'
  BY <1>1, <1>4, ConnectKeeps, DisconnectKeeps
<1>5. ASSUME NEW p \in Players, ServerParty(p)
      PROVE  FALSE
  BY <1>5 DEF ServerParty, PartyShrinks, NoParties
<1>6. ASSUME NEW p \in Players, NEW cell \in Cells,
             ServerPlayerActor(p, cell) \/ Travel(p, cell)
      PROVE  InHand(q, f, e)'
  BY <1>1, <1>6, PlayerActorKeeps, TravelKeeps
<1>7. ASSUME NEW p \in Players, NEW g \in Forms,
             OnActorAdded(p, g) \/ OnActorRemoved(p, g)
      PROVE  InHand(q, f, e)'
  BY <1>1, <1>7, LoadKeeps, UnloadKeeps
<1>8. CASE UNCHANGED vars
  <2>1. UNCHANGED <<ownVars, toServer, toClient, actor, lost>>
    BY <1>8 DEF vars, netVars
  <2>2. RequestsNoMore(q, f) /\ ActorSteady(q, f) /\ GiveUpsStay(q, e)
    BY <2>1, OthersSteady
  <2>3. NotesNoMore(q, f, e) /\ GrantsStay(q, e)
    BY <2>1 DEF NotesNoMore, GrantsStay, Fewer
  <2>4. InHand(q, f, e) /\ (Owns(q, f, e)' => Owns(q, f, e))
    BY <2>1, OwnsSame DEF KeepInv
  <2> QED BY <1>1, <2>2, <2>3, <2>4, StaysInHand DEF NetInv
<1> QED BY <1>2, <1>3, <1>4, <1>5, <1>6, <1>7, <1>8 DEF NetNext

LEMMA InitKeeps ==
    ASSUME NetInit
    PROVE  KeepInv
<1> SUFFICES ASSUME NEW p \in Players, NEW f \in Forms, NEW e \in Nat
             PROVE  InHand(p, f, e)
  BY DEF KeepInv
<1>1. toClient[p] = <<>> /\ toServer[p] = <<>> /\ e \notin DOMAIN chars
  BY DEF NetInit, Init, Nobody
<1>2. actor[p][f].local = None /\ actor[p][f].remote = None /\ e # None
  <2>1. actor[p][f] = Unmanaged([asked |-> 0], FALSE)
    BY DEF NetInit
  <2> QED BY <2>1 DEF Unmanaged, None
<1>3. ~Refers(p, f, e) /\ Aware(p, f) /\ ~Owns(p, f, e)
  BY <1>1, <1>2, NothingIn DEF Refers, Aware, OneQuestion, Owns
<1> QED BY <1>3 DEF InHand

(* Where there are no parties, the owner that the server has on record     *)
(* simulates the character, or a message between the two settles it; but   *)
(* for what a client has lost track of.                                    *)
THEOREM OwnersSimulate == NetSpec => []OwnerSimulates
<1>1. CASE Founders # {}
  <2>1. OwnerSimulates
    BY <1>1 DEF OwnerSimulates
  <2> QED BY <2>1, PTL
<1>2. CASE Founders = {}
  <2> DEFINE Tokens == (\A e \in Nat : TokenInv(e)) /\ NoParties
  <2>1. NetInit => NetInv
    BY NetInitInv
  <2>2. NetInit => Tokens /\ KeepInv
    <3> SUFFICES ASSUME NetInit PROVE Tokens /\ KeepInv
      OBVIOUS
    <3> QED BY <1>2, InitTokens, InitKeeps
  <2>3. NetInv /\ [NetNext]_vars => NetInv'
    BY NetStep
  <2>4. NetInv /\ Tokens /\ KeepInv /\ [NetNext]_vars => Tokens' /\ KeepInv'
    <3> SUFFICES ASSUME NetInv, Tokens, KeepInv, [NetNext]_vars PROVE Tokens' /\ KeepInv'
      OBVIOUS
    <3> QED BY TokenStep, KeepStep
  <2>5. NetInv /\ KeepInv => OwnerSimulates
    <3> SUFFICES ASSUME NetInv, KeepInv, NEW e \in DOMAIN chars, chars[e].form \in Forms
                 PROVE  LET f == chars[e].form
                            p == chars[e].owner
                        IN actor[p][f].local = e \/ Awaits(p, e) \/ f \in lost[p]
      BY DEF OwnerSimulates
    <3>1. e \in Nat /\ chars[e].owner \in Players
      BY CharactersNumbered DEF NetInv
    <3>2. PICK f \in Forms, p \in Players : f = chars[e].form /\ p = chars[e].owner
      BY <3>1
    <3>3. Owns(p, f, e)
      BY <3>2 DEF Owns
    <3>4. Keeps(p, f, e)
      BY <3>1, <3>3 DEF KeepInv, InHand
    <3>5. Has(toClient[p], Grants(e)) \/ Has(toServer[p], GiveUps(e)) => Awaits(p, e)
      BY DEF Has, Grants, GiveUps, Awaits
    <3> QED BY <3>2, <3>4, <3>5 DEF Keeps
  <2> QED BY <2>1, <2>2, <2>3, <2>4, <2>5, PTL DEF NetSpec
<1> QED BY <1>1, <1>2
=============================================================================
