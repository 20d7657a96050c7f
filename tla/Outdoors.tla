------------------------------- MODULE Outdoors -------------------------------
(* What the players see of each other in a world space, where cells form a    *)
(* grid and a game has those around its centre loaded: DiscoveryService and    *)
(* PlayerService of the client, the handlers of PlayerService and              *)
(* CharacterService of the server. The centre of the grid that a game has      *)
(* loaded follows the cell its player stands in, and may be one cell behind.   *)
(* A client tells of both; the server keeps one centre per player, which the   *)
(* two messages overwrite in turn.                                             *)
(*                                                                             *)
(* The grid is reduced to one axis; positions are those of cells. Characters   *)
(* here are those of the players, and none is a dragon.                        *)
EXTENDS Peers

CONSTANTS
    LastCell,           \* the cells are 0 to LastCell
    Border,             \* m_gridsToLoad / 2
    MaxStrides,         \* bound on the cells that the players enter
    MaxTold,            \* bound on the messages from a client
    MaxHeard            \* bound on the messages to a client

ASSUME OutdoorsAssumption ==
    /\ IsFiniteSet(Clients)
    /\ LastCell \in Nat
    /\ Border \in Nat \ {0}

VARIABLES
    currentGrid,        \* per client: the cell its player stands in
    centerGrid,         \* per client: the centre of the cells its game has loaded
    picture,            \* per client and player: RemoteComponent and actor, or Absent
    tells,              \* messages from each client
    hears,              \* messages to each client
    cellOf,             \* CellIdComponent::Cell of each Player
    centerOf,           \* CellIdComponent::CenterCoords of each Player
    charCoords,         \* CellIdComponent of each character
    relayed,            \* MovementComponent::Sent
    strides,            \* cells entered so far
    misjudged           \* history: <<d, c>> such that d missed or may have missed c
                        \* for one of the reasons given at NeighboursSeen

gridVars == <<currentGrid, centerGrid>>
gridRecords == <<cellOf, centerOf, charCoords, relayed>>
outdoorsVars == <<gridVars, picture, tells, hears, gridRecords, strides, misjudged>>

GridCells == 0..LastCell
Absent == [cell |-> -1, seen |-> FALSE]

\* IsCellInGridCell
InGrid(cell, center) == cell - center \in -Border .. Border
Around(center) == {x \in GridCells : InGrid(x, center)}

OutdoorsInit ==
    /\ currentGrid \in [Clients -> GridCells]
    /\ centerGrid = currentGrid
    /\ picture = [c \in Clients |-> [d \in Clients |->
          IF c # d /\ InGrid(currentGrid[d], centerGrid[c])
          THEN [cell |-> currentGrid[d], seen |-> TRUE] ELSE Absent]]
    /\ tells = [c \in Clients |-> <<>>]
    /\ hears = [c \in Clients |-> <<>>]
    /\ cellOf = currentGrid
    /\ centerOf = centerGrid
    /\ charCoords = currentGrid
    /\ relayed = [c \in Clients |-> TRUE]
    /\ strides = 0
    /\ misjudged = {}

---------------------------------------------------------------------------
(* The client *)

\* Variant: what is new is taken from the cell the player stood in
ShiftFromCurrent(c, x, center) ==
    IF center = centerGrid[c] THEN <<>>
    ELSE <<[type |-> "shift", cell |-> x, center |-> center,
            cells |-> Around(center) \ Around(currentGrid[c])]>>

\* DetectGridCellChange, which asks for the characters in the cells that are new
Shift(c, x, center) ==
    IF center = centerGrid[c] THEN <<>>
    ELSE <<[type |-> "shift", cell |-> x, center |-> center,
            cells |-> Around(center) \ Around(centerGrid[c])]>>

\* The player goes to another cell, and the game moves its grid or not
\* (VisitExteriorCell)
Strides(c, x, center) ==
    /\ x # currentGrid[c] /\ strides < MaxStrides /\ Len(tells[c]) < MaxTold
    /\ center \in {x} \cup {g \in {centerGrid[c]} : x - g \in -1..1}
    /\ currentGrid' = [currentGrid EXCEPT ![c] = x]
    /\ centerGrid' = [centerGrid EXCEPT ![c] = center]
    /\ strides' = strides + 1
    /\ tells' = [tells EXCEPT ![c] = @ \o Shift(c, x, center)
                                       \o <<[type |-> "enter", cell |-> x]>>]
    /\ UNCHANGED <<picture, hears, gridRecords, misjudged>>

\* RunLocalUpdates
Reports(c) ==
    /\ Len(tells[c]) < MaxTold
    /\ tells' = [tells EXCEPT ![c] = Append(@, [type |-> "move", cell |-> currentGrid[c]])]
    /\ UNCHANGED <<gridVars, picture, hears, gridRecords, strides, misjudged>>

\* The game loads and unloads an actor with the cell it is in: RunSpawnUpdates
\* puts it there, and OnActorRemoved drops what has been loaded
LoadedAs(c, d) ==
    LET p == picture[c][d]
    IN IF p = Absent \/ InGrid(p.cell, centerGrid[c]) = p.seen THEN p
       ELSE IF p.seen THEN Absent ELSE [p EXCEPT !.seen = TRUE]

Loads(c, d) ==
    /\ LoadedAs(c, d) # picture[c][d]
    /\ picture' = [picture EXCEPT ![c][d] = LoadedAs(c, d)]
    /\ misjudged' = IF LoadedAs(c, d) = Absent /\ InGrid(currentGrid[d], centerGrid[c])
                    THEN misjudged \cup {<<c, d>>} ELSE misjudged
    /\ UNCHANGED <<gridVars, tells, hears, gridRecords, strides>>

\* OnCharacterSpawn, OnRemoveCharacter and OnReferencesMoveRequest of the client
HearsOf(c) ==
    /\ hears[c] # <<>>
    /\ hears' = Read(hears, c)
    /\ LET m == Head(hears[c])
           p == picture[c][m.who]
       IN picture' = [picture EXCEPT ![c][m.who] =
             CASE m.type = "spawn" /\ p = Absent -> [cell |-> m.cell, seen |-> FALSE]
               [] m.type = "remove" -> Absent
               [] m.type = "move" /\ p # Absent -> [p EXCEPT !.cell = m.cell]
               [] OTHER -> p]
    /\ UNCHANGED <<gridVars, tells, gridRecords, strides, misjudged>>

---------------------------------------------------------------------------
(* The server *)

Takes(c, type) ==
    /\ tells[c] # <<>>
    /\ Head(tells[c]).type = type
    /\ \A d \in Clients : Len(hears[d]) < MaxHeard
    /\ tells' = Read(tells, c)
    /\ UNCHANGED <<gridVars, picture, strides>>

About(type, c) == [type |-> type, who |-> c, cell |-> charCoords[c]]

\* What the server knows of c is what c has told, and has been passed on
UpToDate(c) == charCoords[c] = cellOf[c] /\ relayed[c]

\* HandleGridCellShift
HandleGridCellShift(c) ==
    /\ Takes(c, "shift")
    /\ LET m == Head(tells[c]) IN
       /\ cellOf' = [cellOf EXCEPT ![c] = m.cell]
       /\ centerOf' = [centerOf EXCEPT ![c] = m.center]
       /\ hears' = [hears EXCEPT ![c] = @ \o
             SetToSeq({About("spawn", d) : d \in {e \in Clients \ {c} : charCoords[e] \in m.cells}})]
    /\ misjudged' = misjudged \cup {<<c, d>> : d \in {e \in Clients \ {c} : ~UpToDate(e)}}
    /\ UNCHANGED <<charCoords, relayed>>

\* The game of e has x loaded, e has not just told so, and the server takes the
\* cell that e stood in for the centre of its grid
Overlooks(e, x) ==
    /\ InGrid(x, centerGrid[e]) /\ ~InGrid(x, centerOf[e])
    /\ \A i \in DOMAIN tells[e] : tells[e][i].type = "shift" => x \notin tells[e][i].cells

\* HandleExteriorCellEnter with OnCharacterExteriorCellChange
HandleExteriorCellEnter(c) ==
    /\ Takes(c, "enter")
    /\ LET x == Head(tells[c]).cell IN
       /\ cellOf' = [cellOf EXCEPT ![c] = x]
       /\ centerOf' = [centerOf EXCEPT ![c] = x]
       /\ hears' = [d \in Clients |->
             IF d = c THEN hears[d]
             ELSE Append(hears[d], About(IF InGrid(x, centerOf[d]) THEN "spawn" ELSE "remove", c))]
       /\ misjudged' = misjudged \cup
             {<<d, c>> : d \in {e \in Clients \ {c} : Overlooks(e, x)}} \cup
             {<<c, d>> : d \in {e \in Clients \ {c} : ~UpToDate(e)}}
    /\ UNCHANGED <<charCoords, relayed>>

OnMoveRequest(c) ==
    /\ Takes(c, "move")
    /\ charCoords' = [charCoords EXCEPT ![c] = Head(tells[c]).cell]
    /\ relayed' = [relayed EXCEPT ![c] = FALSE]
    /\ UNCHANGED <<hears, cellOf, centerOf, misjudged>>

\* ProcessMovementChanges, for the characters that have moved
RelayMovement ==
    /\ \E c \in Clients : ~relayed[c]
    /\ \A d \in Clients : Len(hears[d]) < MaxHeard
    /\ hears' = [d \in Clients |-> hears[d] \o
          SetToSeq({About("move", c) : c \in {e \in Clients \ {d} :
                       ~relayed[e] /\ InGrid(charCoords[e], centerOf[d])}})]
    /\ relayed' = [c \in Clients |-> TRUE]
    /\ UNCHANGED <<gridVars, picture, tells, cellOf, centerOf, charCoords, strides, misjudged>>

OutdoorsNext ==
    \/ RelayMovement
    \/ \E c \in Clients :
          \/ Reports(c) \/ HearsOf(c)
          \/ HandleGridCellShift(c) \/ HandleExteriorCellEnter(c) \/ OnMoveRequest(c)
          \/ \E d \in Clients : Loads(c, d)
          \/ \E x, center \in GridCells : Strides(c, x, center)

OutdoorsSpec == OutdoorsInit /\ [][OutdoorsNext]_outdoorsVars

---------------------------------------------------------------------------
(* Properties *)

OutdoorsTypeOK ==
    /\ {currentGrid, centerGrid, cellOf, centerOf, charCoords} \subseteq [Clients -> GridCells]
    /\ \A c \in Clients : InGrid(currentGrid[c], centerGrid[c])
    /\ picture \in [Clients -> [Clients -> {Absent} \cup [cell : GridCells, seen : BOOLEAN]]]

\* Everybody has reported, and all of it has arrived
AtRest ==
    /\ \A c \in Clients : tells[c] = <<>> /\ hears[c] = <<>> /\ UpToDate(c)
    /\ \A c, d \in Clients : LoadedAs(c, d) = picture[c][d]

(* When everything is told and read, a game shows every player who stands in  *)
(* one of the cells it has loaded, at the right place, and nobody else there,  *)
(* however the grids moved and whoever walked towards whom. Excepted is who    *)
(* came in sight while the server had not passed on where they were, who came  *)
(* into a loaded cell that the server did not count as one, and who was         *)
(* unloaded with a cell they had left: nothing repeats what they missed.       *)
NeighboursSeen ==
    AtRest => \A c \in Clients : \A d \in Clients \ {c} :
        <<c, d>> \notin misjudged =>
           IF InGrid(currentGrid[d], centerGrid[c])
           THEN picture[c][d] = [cell |-> currentGrid[d], seen |-> TRUE]
           ELSE ~picture[c][d].seen
=============================================================================
