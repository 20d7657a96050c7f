------------------------------ MODULE Snapshots ------------------------------
(* What the players see of each other: a client reports where its character   *)
(* is and what it does, the server passes it on to the clients whose player is *)
(* in the same cell, and tells clients to spawn and to remove characters when  *)
(* a player enters a cell. Two records say where a player is: the cell of the  *)
(* Player, set when it enters, and the cell of its character, set by the next  *)
(* report. Characters here are those of the players, cells are interior, and   *)
(* no script cancels an action.                                                *)
EXTENDS Peers

CONSTANTS
    Chambers,           \* the cells
    MaxDeed,            \* bound on the moves and on the actions of a player
    MaxVisits,          \* bound on the cells a player enters
    MaxSaid,            \* bound on the messages from a client
    MaxSights           \* bound on the messages to a client

ASSUME SnapshotsAssumption == IsFiniteSet(Clients) /\ MaxDeed \in Nat

VARIABLES
    stands,             \* the cell each player is in, in its own game
    pos,                \* its position: the number of its moves
    act,                \* its last action, by number
    untold,             \* LocalAnimationComponent::Actions: the last one, or 0
    view,               \* per client and player: what it shows, or Hidden
    said,               \* messages from each client
    sights,             \* messages to each client
    playerCell,         \* Player::m_cell
    charCell,           \* CellIdComponent of the character
    at,                 \* MovementComponent::Position
    current,            \* AnimationComponent::CurrentAction
    actions,            \* AnimationComponent::Actions: the last one, or 0
    sent,               \* MovementComponent::Sent
    visits,             \* cells entered so far
    missed              \* history: <<d, c>> such that d entered a cell while the two
                        \* records of c differed, or read what was meant for a
                        \* cell it had left, about c

gameVars == <<stands, pos, act, untold>>
recordVars == <<playerCell, charCell, at, current, actions, sent>>
snapshotVars == <<gameVars, view, said, sights, recordVars, visits, missed>>

Hidden == [pos |-> -1, act |-> -1]
Others(c) == Clients \ {c}

SnapshotInit ==
    /\ stands \in [Clients -> Chambers]
    /\ pos = [c \in Clients |-> 0]
    /\ act = [c \in Clients |-> 0]
    /\ untold = [c \in Clients |-> 0]
    /\ view = [d \in Clients |-> [c \in Clients |->
                 IF c # d /\ stands[c] = stands[d] THEN [pos |-> 0, act |-> 0] ELSE Hidden]]
    /\ said = [c \in Clients |-> <<>>]
    /\ sights = [c \in Clients |-> <<>>]
    /\ playerCell = stands
    /\ charCell = stands
    /\ at = pos
    /\ current = act
    /\ actions = untold
    /\ sent = [c \in Clients |-> FALSE]
    /\ visits = [c \in Clients |-> 0]
    /\ missed = {}

---------------------------------------------------------------------------
(* The client *)

\* The game moves the character, or plays an action of it (OnActionEvent)
Acts(c) ==
    /\ pos[c] + act[c] < MaxDeed
    /\ \/ pos' = [pos EXCEPT ![c] = @ + 1] /\ UNCHANGED <<act, untold>>
       \/ /\ act' = [act EXCEPT ![c] = @ + 1]
          /\ untold' = [untold EXCEPT ![c] = act'[c]]
          /\ UNCHANGED pos
    /\ UNCHANGED <<stands, view, said, sights, recordVars, visits, missed>>

\* RunLocalUpdates, every 100 ms, whether anything has changed or not
RunLocalUpdates(c) ==
    /\ Len(said[c]) < MaxSaid
    /\ said' = [said EXCEPT ![c] = Append(@,
          [type |-> "move", cell |-> stands[c], pos |-> pos[c], act |-> untold[c]])]
    /\ untold' = [untold EXCEPT ![c] = 0]
    /\ UNCHANGED <<stands, pos, act, view, sights, recordVars, visits, missed>>

\* The player goes through a door: the discovery tells the server the cell and
\* drops the characters of the old one before anything else happens in the frame
Walks(c, r) ==
    /\ stands[c] # r /\ visits[c] < MaxVisits /\ Len(said[c]) < MaxSaid
    /\ stands' = [stands EXCEPT ![c] = r]
    /\ visits' = [visits EXCEPT ![c] = @ + 1]
    /\ view' = [view EXCEPT ![c] = [d \in Clients |-> Hidden]]
    /\ said' = [said EXCEPT ![c] = Append(@, [type |-> "enter", cell |-> r])]
    /\ UNCHANGED <<pos, act, untold, sights, recordVars, missed>>

\* OnCharacterSpawn, OnRemoveCharacter and OnReferencesMoveRequest of the client
Shown(c, m) ==
    LET seen(d) == view[c][d] # Hidden IN
    CASE m.type = "spawn" ->
           [view[c] EXCEPT ![m.who] = IF seen(m.who) THEN @ ELSE [pos |-> m.pos, act |-> m.act]]
      [] m.type = "remove" -> [view[c] EXCEPT ![m.who] = Hidden]
      [] m.type = "move" ->
           [d \in Clients |->
              IF d \notin DOMAIN m.updates \/ ~seen(d) THEN view[c][d]
              ELSE [pos |-> m.updates[d].pos,
                    act |-> IF m.updates[d].act = 0 THEN view[c][d].act ELSE m.updates[d].act]]

Beholds(c) ==
    /\ sights[c] # <<>>
    /\ sights' = Read(sights, c)
    /\ LET m == Head(sights[c]) IN
       /\ view' = [view EXCEPT ![c] = Shown(c, m)]
       /\ missed' = missed \cup
             {<<c, d>> : d \in IF m.stay = visits[c] THEN {}
                               ELSE IF m.type = "move" THEN DOMAIN m.updates ELSE {m.who}}
    /\ UNCHANGED <<gameVars, said, recordVars, visits>>

---------------------------------------------------------------------------
(* The server *)

Obeys(c, type) ==
    /\ said[c] # <<>>
    /\ Head(said[c]).type = type
    /\ \A d \in Clients : Len(sights[d]) < MaxSights
    /\ said' = Read(said, c)

\* Variant: what is reported after a snapshot is not sent with the next one
OnReferencesMoveRequestUnsent(c) ==
    /\ Obeys(c, "move")
    /\ LET m == Head(said[c]) IN
       /\ at' = [at EXCEPT ![c] = m.pos]
       /\ charCell' = [charCell EXCEPT ![c] = m.cell]
       /\ current' = [current EXCEPT ![c] = IF m.act = 0 THEN @ ELSE m.act]
       /\ actions' = [actions EXCEPT ![c] = IF m.act = 0 THEN @ ELSE m.act]
    /\ UNCHANGED <<gameVars, view, sights, playerCell, sent, visits, missed>>

OnReferencesMoveRequest(c) ==
    /\ Obeys(c, "move")
    /\ LET m == Head(said[c]) IN
       /\ at' = [at EXCEPT ![c] = m.pos]
       /\ charCell' = [charCell EXCEPT ![c] = m.cell]
       /\ current' = [current EXCEPT ![c] = IF m.act = 0 THEN @ ELSE m.act]
       /\ actions' = [actions EXCEPT ![c] = IF m.act = 0 THEN @ ELSE m.act]
    /\ sent' = [sent EXCEPT ![c] = FALSE]
    /\ UNCHANGED <<gameVars, view, sights, playerCell, visits, missed>>

\* How often d has entered a cell as far as the server knows
StayOf(d) == visits[d] - Cardinality({i \in DOMAIN said[d] : said[d][i].type = "enter"})

SpawnOf(c, d) == [type |-> "spawn", who |-> c, pos |-> at[c], act |-> current[c], stay |-> StayOf(d)]
RemoveOf(c, d) == [type |-> "remove", who |-> c, stay |-> StayOf(d)]

\* HandleInteriorCellEnter with OnCharacterInteriorCellChange
HandleInteriorCellEnter(c) ==
    /\ Obeys(c, "enter")
    /\ LET cell == Head(said[c]).cell
           here == {d \in Others(c) : charCell[d] = cell}
           stay == StayOf(c) + 1
       IN /\ playerCell' = [playerCell EXCEPT ![c] = cell]
          /\ sights' = [d \in Clients |->
                IF d = c
                THEN sights[c] \o SetToSeq({[SpawnOf(e, c) EXCEPT !.stay = stay] : e \in here})
                ELSE Append(sights[d], IF playerCell[d] = cell THEN SpawnOf(c, d)
                                                               ELSE RemoveOf(c, d))]
          /\ missed' = missed \cup {<<c, d>> : d \in {e \in Others(c) : charCell[e] # playerCell[e]}}
    /\ UNCHANGED <<gameVars, view, charCell, at, current, actions, sent, visits>>

\* ProcessMovementChanges, every 20 ms
ProcessMovementChanges ==
    /\ \E c \in Clients : ~sent[c]
    /\ \A d \in Clients : Len(sights[d]) < MaxSights
    /\ LET inRange(d) == {c \in Others(d) : ~sent[c] /\ charCell[c] = playerCell[d]}
           move(d) == [type |-> "move", stay |-> StayOf(d),
                       updates |-> [c \in inRange(d) |-> [pos |-> at[c], act |-> actions[c]]]]
       IN sights' = [d \in Clients |->
             IF inRange(d) = {} THEN sights[d] ELSE Append(sights[d], move(d))]
    /\ actions' = [c \in Clients |-> 0]
    /\ sent' = [c \in Clients |-> TRUE]
    /\ UNCHANGED <<gameVars, view, said, playerCell, charCell, at, current, visits, missed>>

SnapshotNext ==
    \/ ProcessMovementChanges
    \/ \E c \in Clients :
          \/ Acts(c) \/ RunLocalUpdates(c) \/ Beholds(c)
          \/ OnReferencesMoveRequest(c) \/ HandleInteriorCellEnter(c)
          \/ \E r \in Chambers : Walks(c, r)

SnapshotSpec == SnapshotInit /\ [][SnapshotNext]_snapshotVars

---------------------------------------------------------------------------
(* Properties *)

SnapshotTypeOK ==
    /\ stands \in [Clients -> Chambers]
    /\ playerCell \in [Clients -> Chambers]
    /\ charCell \in [Clients -> Chambers]
    /\ view \in [Clients -> [Clients -> [pos : -1..MaxDeed, act : -1..MaxDeed]]]
    /\ missed \subseteq Clients \X Clients

\* Everything has been reported, passed on and read
Reported ==
    \A c \in Clients :
        /\ said[c] = <<>> /\ sights[c] = <<>> /\ sent[c]
        /\ at[c] = pos[c] /\ untold[c] = 0 /\ charCell[c] = stands[c]

(* When all is reported and read, players show each other if and only if they *)
(* are in the same cell, at the place where they are and in the state of      *)
(* their last action, however entering, reporting and snapshots have crossed; *)
(* but for players who missed each other at the door.                         *)
ViewsAgree ==
    \A d \in Clients : \A c \in Others(d) :
        Reported /\ <<d, c>> \notin missed
        => view[d][c] = IF stands[c] = stands[d] THEN [pos |-> pos[c], act |-> act[c]]
                                                 ELSE Hidden
=============================================================================
