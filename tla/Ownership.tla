----------------------------- MODULE Ownership -----------------------------
(***************************************************************************)
(* The server's side of character ownership: CharacterService with the     *)
(* parts of GameServer and PlayerService that drive it.  Every character   *)
(* of the world is simulated by one client, its owner.  The server hands a *)
(* character on when its owner gives it up or disconnects, and removes it  *)
(* when nobody near can take it.                                           *)
(*                                                                         *)
(* A handler is one action: the server runs on one thread and every event  *)
(* a handler triggers, or enqueues and flushes, is over when it returns.   *)
(* A request may arrive from any connected client at any time, with any    *)
(* argument: what the clients really send is in OwnershipNet.              *)
(*                                                                         *)
(* A character stands in one cell and IsInRange compares cells, as it does *)
(* indoors.  Appearance, inventory, animation and movement are left out,   *)
(* and so are temporary actors, which have no form id, among them the      *)
(* summons of a player.                                                    *)
(***************************************************************************)
EXTENDS Integers, FiniteSets

CONSTANTS
    Players,        \* addresses at which a Player can be
    Forms,          \* form ids of the actors of the game world
    Mounts,         \* the forms that are mounts
    Cells,          \* cells
    NoOne,          \* not a player
    NoCell,         \* the empty cell id
    PlayerForm,     \* the reference 0:0x14, every client's own player
    MaxId           \* bound: characters created in a run

ASSUME OwnershipAssumption ==
    /\ Mounts \subseteq Forms
    /\ NoOne \notin Players
    /\ NoCell \notin Cells
    /\ PlayerForm \notin Forms
    /\ MaxId \in Nat

VARIABLES
    online,         \* the players of PlayerManager
    cellOf,         \* Player::GetCellComponent
    character,      \* Player::GetCharacter, -1 if there is none
    chars,          \* entity -> its form, cell, owner and refusals
    nextId,         \* the next fresh entity
    leader,         \* leader of the one party considered here, or NoOne
    members         \* its members

ownVars == <<online, cellOf, character, chars, nextId, leader, members>>

Ids == 0 .. MaxId - 1
Character == [form : Forms \cup {PlayerForm}, cell : Cells,
              owner : Players, refused : SUBSET Players]

(* The player actors and the actors of the game world.                     *)
Managed(f) == {e \in DOMAIN chars : chars[e].form = f}

(* Entities of the world with c at e, or without those of E.               *)
With(e, c) == [d \in DOMAIN chars \cup {e} |-> IF d = e THEN c ELSE chars[d]]
Without(E) == [d \in DOMAIN chars \ E |-> chars[d]]

---------------------------------------------------------------------------
(* The party: PartyService in full is module Party; here it decides only   *)
(* who may take characters over.                                           *)

PartyForms(p, M) ==
    /\ leader = NoOne
    /\ {p} \cup M \subseteq online
    /\ leader' = p
    /\ members' = {p} \cup M
    /\ UNCHANGED <<online, cellOf, character, chars, nextId>>

(* The party after the players of P have left it.                          *)
LeaveParty(P) ==
    /\ members' = members \ P
    /\ leader' \in IF leader \notin P THEN {leader}
                   ELSE IF members \ P = {} THEN {NoOne} ELSE members \ P

PartyShrinks(p) ==
    /\ p \in members
    /\ LeaveParty({p})
    /\ UNCHANGED <<online, cellOf, character, chars, nextId>>

---------------------------------------------------------------------------
(* Players.                                                                *)

Connect(p) ==
    /\ p \notin online
    /\ online' = online \cup {p}
    /\ cellOf' = [cellOf EXCEPT ![p] = NoCell]
    /\ character' = [character EXCEPT ![p] = -1]
    /\ UNCHANGED <<chars, nextId, leader, members>>

EnterCell(p, cell) ==
    /\ p \in online
    /\ cellOf' = [cellOf EXCEPT ![p] = cell]
    /\ UNCHANGED <<online, character, chars, nextId, leader, members>>

---------------------------------------------------------------------------
(* Characters.                                                             *)

(* Variant: whoever is near will do, even who has refused.                 *)
HeirsAmongRefusers(c) ==
    {q \in online \ {c.owner} : cellOf[q] = c.cell}

(* Who may be handed character c.                                          *)
Heirs(c) ==
    {q \in online \ ({c.owner} \cup c.refused) : cellOf[q] = c.cell}

Create(p, f, cell) ==
    /\ nextId < MaxId
    /\ chars' = With(nextId, [form |-> f, cell |-> cell, owner |-> p, refused |-> {}])
    /\ nextId' = nextId + 1

OnAssignPlayer(p, cell) ==
    /\ p \in online
    /\ Create(p, PlayerForm, cell)
    /\ character' = [character EXCEPT ![p] = nextId]
    /\ UNCHANGED <<online, cellOf, leader, members>>

(* Variant: the actor is created without looking for it.                   *)
OnAssignNewAgain(p, f, cell) ==
    /\ p \in online
    /\ Create(p, f, cell)
    /\ UNCHANGED <<online, cellOf, character, leader, members>>

(* An actor of the game world that no client has reported yet, ...         *)
OnAssignNew(p, f, cell) ==
    /\ p \in online
    /\ Managed(f) = {}
    /\ Create(p, f, cell)
    /\ UNCHANGED <<online, cellOf, character, leader, members>>

(* ... or one that is already managed.                                     *)
MayTakeOver(p, e) ==
    /\ p \in members
    /\ leader = p
    /\ chars[e].form \notin Mounts
    /\ chars[e].owner \in members

TransferOwnership(p, e) ==
    chars' = With(e, [form |-> chars[e].form, cell |-> chars[e].cell,
                      owner |-> p, refused |-> {}])

OnAssignManaged(p, e) ==
    /\ p \in online
    /\ e \in DOMAIN chars
    /\ chars[e].form \in Forms
    /\ IF MayTakeOver(p, e) THEN TransferOwnership(p, e) ELSE UNCHANGED chars
    /\ UNCHANGED <<online, cellOf, character, nextId, leader, members>>

OnOwnershipClaim(p, e) ==
    /\ p \in online
    /\ e \in DOMAIN chars
    /\ TransferOwnership(p, e)
    /\ UNCHANGED <<online, cellOf, character, nextId, leader, members>>

(* Variant: the player who gives the character up is not remembered.       *)
GivenUpForgotten(p, e, cell) ==
    [form    |-> chars[e].form,
     cell    |-> IF cell = NoCell THEN chars[e].cell ELSE cell,
     owner   |-> chars[e].owner,
     refused |-> chars[e].refused]

(* Character e as player p gives it up, in the cell he last saw it.        *)
GivenUp(p, e, cell) ==
    [form    |-> chars[e].form,
     cell    |-> IF cell = NoCell THEN chars[e].cell ELSE cell,
     owner   |-> chars[e].owner,
     refused |-> chars[e].refused \cup {p}]

(* OnOwnershipTransferEvent for a character in state c.                    *)
HandOver(e, c, heir) ==
    /\ heir \in Heirs(c)
    /\ chars' = With(e, [form |-> c.form, cell |-> c.cell, owner |-> heir,
                         refused |-> c.refused])

OnOwnershipTransfer(p, e, cell) ==
    /\ p \in online
    /\ e \in DOMAIN chars
    /\ LET c == GivenUp(p, e, cell)
       IN IF Heirs(c) = {}
          THEN chars' = Without({e})
          ELSE \E q \in online : HandOver(e, c, q)
    /\ UNCHANGED <<online, cellOf, character, nextId, leader, members>>

(* OnDisconnection.  A player who never entered the world leaves with the  *)
(* character of entity 0, which value_or makes of a missing one.           *)
LeaverCharacter(p) == IF character[p] = -1 THEN 0 ELSE character[p]

Owned(p) == {e \in DOMAIN chars : chars[e].owner = p}

(* Variant: the leaver's characters stay with him.                         *)
BequeathedKept(p, heir) ==
    [e \in DOMAIN chars \ {LeaverCharacter(p)} |-> chars[e]]

(* The characters once each of those player p owned is with its heir, or   *)
(* removed for want of one, and his own character is removed.              *)
Bequeathed(p, heir) ==
    [e \in {d \in DOMAIN chars \ {LeaverCharacter(p)} :
                chars[d].owner = p => Heirs(chars[d]) # {}} |->
        IF chars[e].owner = p
        THEN [form |-> chars[e].form, cell |-> chars[e].cell,
              owner |-> heir[e], refused |-> chars[e].refused]
        ELSE chars[e]]

Disconnect(p) ==
    /\ p \in online
    /\ \E heir \in [Owned(p) -> online] :
          /\ \A e \in Owned(p) : Heirs(chars[e]) # {} => heir[e] \in Heirs(chars[e])
          /\ chars' = Bequeathed(p, heir)
    /\ online' = online \ {p}
    /\ cellOf' = [cellOf EXCEPT ![p] = NoCell]
    /\ LeaveParty({p})
    /\ UNCHANGED <<character, nextId>>

---------------------------------------------------------------------------
Init ==
    /\ online = {}
    /\ cellOf = [p \in Players |-> NoCell]
    /\ character = [p \in Players |-> -1]
    /\ chars = [e \in {} |-> [form |-> PlayerForm]]
    /\ nextId = 0
    /\ leader = NoOne
    /\ members = {}

Next ==
    \/ \E p \in Players :
          \/ Connect(p)
          \/ Disconnect(p)
          \/ PartyShrinks(p)
          \/ \E M \in SUBSET Players : PartyForms(p, M)
          \/ \E cell \in Cells : EnterCell(p, cell) \/ OnAssignPlayer(p, cell)
          \/ \E f \in Forms, cell \in Cells : OnAssignNew(p, f, cell)
          \/ \E e \in Ids : OnAssignManaged(p, e) \/ OnOwnershipClaim(p, e)
          \/ \E e \in Ids, cell \in Cells \cup {NoCell} : OnOwnershipTransfer(p, e, cell)

Spec == Init /\ [][Next]_ownVars

---------------------------------------------------------------------------
TypeOK ==
    /\ online \subseteq Players
    /\ cellOf \in [Players -> Cells \cup {NoCell}]
    /\ character \in [Players -> Ids \cup {-1}]
    /\ DOMAIN chars \subseteq 0 .. nextId - 1
    /\ \A e \in DOMAIN chars : chars[e] \in Character
    /\ nextId \in 0 .. MaxId
    /\ leader \in Players \cup {NoOne}
    /\ members \subseteq online

(* Every character is owned by a connected player, through any order of    *)
(* hand-overs, refusals and disconnections: OnCharacterRemoveEvent and     *)
(* TransferOwnership send to the owner's connection without a check.       *)
OwnersAreOnline == \A e \in DOMAIN chars : chars[e].owner \in online

(* Two clients never simulate two copies of one actor of the game world:   *)
(* it is managed as one entity, whatever order it is reported, removed and *)
(* reported again in.                                                      *)
OneCharacterPerForm ==
    \A d, e \in DOMAIN chars :
        chars[d].form = chars[e].form /\ chars[d].form \in Forms => d = e

OwnershipInv == TypeOK /\ OwnersAreOnline /\ OneCharacterPerForm

(* A character is never handed to a player who has given it up or refused  *)
(* it since it was last claimed, nor to one who is leaving: the hand-over  *)
(* does not go round in circles.                                           *)
RefusalsStand ==
    [][\A e \in DOMAIN chars \cap DOMAIN chars' :
          chars'[e].owner # chars[e].owner =>
              /\ chars'[e].owner \in online'
              /\ chars'[e].owner \notin chars'[e].refused]_ownVars

(* What the comment in OnDisconnection says: a leaving player's clean-up   *)
(* touches the entities he owned.  The code removes entity 0 as well.      *)
LeaverTouchesOwnOnly ==
    [][\A p \in online \ online' :
          \A e \in DOMAIN chars : chars[e].owner # p => e \in DOMAIN chars']_ownVars

=============================================================================
