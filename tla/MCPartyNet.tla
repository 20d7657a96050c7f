----------------------------- MODULE MCPartyNet -----------------------------
(* PartyNet on a small instance.                                           *)
EXTENDS PartyNet

Symmetry == Permutations(Ptr)

(* Instance that starts with a party of three: a leader who goes is         *)
(* succeeded by one of two followers, and a kick leaves two behind.  His   *)
(* invitations of the two are still there, as the server keeps them.       *)
PartyOfThree(f) ==
    /\ playerId = f
    /\ nextPlayerId = 4
    /\ joinedParty = [p \in Ptr |-> 0]
    /\ invitations = [p \in Ptr |-> [q \in Ptr |->
                        IF f[q] = 1 /\ f[p] # 1 THEN InvitationLife ELSE 0]]
    /\ parties = [g \in {0} |-> [leader |-> 1, members |-> AntiFunction(f)]]
    /\ nextPartyId = 1
    /\ tick = 0
    /\ nextExpire = 0
    /\ online = Ptr
    /\ toClient = Nobody
    /\ client = [p \in Ptr |-> [inParty |-> TRUE, isLeader |-> f[p] = 1, leader |-> 1,
                                members |-> <<1, 2, 3>>, players |-> {1, 2, 3} \ {f[p]}]]

PartyOfThreeSpec ==
    /\ \E f \in Bijection(Ptr, 1 .. 3) : PartyOfThree(f)
    /\ [][NetNext]_vars

(* Bounds: nobody is invited but by player 1, and at most one of the three *)
(* connections breaks.                                                     *)
Bounded ==
    /\ \A p, q \in Ptr : invitations[p][q] # 0 => playerId[q] = 1
    /\ Cardinality(online) >= 2
    /\ Cardinality(Live) >= 2
====================================================================
