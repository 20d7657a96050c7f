-------------------------------- MODULE Peers --------------------------------
(* The clients, and the queues to them, for the modules on what clients and  *)
(* server share besides parties and characters. A connection is reliable and *)
(* ordered in each direction, so it is a sequence that is read at its head.  *)
EXTENDS Integers, Sequences, FiniteSets, SequencesExt

CONSTANT
    Clients             \* the machines that run the game

\* The queues after one message to each of the recipients
\* (GameServer::SendToPlayers and its variants, which differ in whom they pick)
Posted(queues, recipients, message) ==
    [c \in Clients |->
        IF c \in recipients THEN Append(queues[c], message) ELSE queues[c]]

\* The queues after c has read its first message
Read(queues, c) == [queues EXCEPT ![c] = Tail(@)]
=============================================================================
