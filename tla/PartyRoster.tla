---------------------------- MODULE PartyRoster ----------------------------
(***************************************************************************)
(* What the party service promises, without the tables it keeps: a player  *)
(* is in at most one party, a party exists exactly as long as it has       *)
(* members, one of them leads it, and it takes a leader to bring a player  *)
(* in.                                                                     *)
(***************************************************************************)
EXTENDS Integers

CONSTANTS Player, None

VARIABLES
    present,            \* the players connected
    party,              \* the party of each player, or None
    leader,             \* the leader of each party that exists
    founded             \* how many parties were founded so far; names the next

rosterVars == <<present, party, leader, founded>>

Members(g) == {p \in Player : party[p] = g}

Init ==
    /\ present = {}
    /\ party = [p \in Player |-> None]
    /\ leader = <<>>
    /\ founded = 0

Arrive(p) ==
    /\ p \notin present
    /\ present' = present \cup {p}
    /\ UNCHANGED <<party, leader, founded>>

Found(p) ==
    /\ p \in present
    /\ party[p] = None
    /\ party' = [party EXCEPT ![p] = founded]
    /\ leader' = [g \in DOMAIN leader \cup {founded} |-> IF g = founded THEN p ELSE leader[g]]
    /\ founded' = founded + 1
    /\ UNCHANGED present

(* A leader brings in a player who is in no party.                         *)
Admit(p, q) ==
    /\ q \in present
    /\ party[q] = None
    /\ party[p] # None
    /\ leader[party[p]] = p
    /\ party' = [party EXCEPT ![q] = party[p]]
    /\ UNCHANGED <<present, leader, founded>>

HandOver(p, q) ==
    /\ party[p] # None
    /\ party[q] = party[p]
    /\ leader[party[p]] = p
    /\ leader' = [leader EXCEPT ![party[p]] = q]
    /\ UNCHANGED <<present, party, founded>>

(* p goes out of his party: the party ends with its last member, another   *)
(* member takes over from a leader, and otherwise nobody's role changes.   *)
Resign(p) ==
    LET g == party[p]
        rest == Members(g) \ {p}
    IN  /\ party' = [party EXCEPT ![p] = None]
        /\ founded' = founded
        /\ \/ g = None /\ leader' = leader
           \/ /\ g # None
              /\ rest = {}
              /\ leader' = [h \in DOMAIN leader \ {g} |-> leader[h]]
           \/ /\ g # None
              /\ leader[g] # p
              /\ leader' = leader
           \/ /\ g # None
              /\ leader[g] = p
              /\ \E q \in rest : leader' = [leader EXCEPT ![g] = q]

Leave(p) == Resign(p) /\ UNCHANGED present

Depart(p) == p \in present /\ Resign(p) /\ present' = present \ {p}

Next ==
    \E p \in Player :
        \/ Arrive(p)
        \/ Depart(p)
        \/ Found(p)
        \/ Leave(p)
        \/ \E q \in Player : Admit(p, q) \/ HandOver(p, q)

Spec == Init /\ [][Next]_rosterVars
=============================================================================
