------------------------ MODULE MCPartyInvitations ------------------------
(* Party with the history of who was invited by whom, for the two          *)
(* statements PartyService.cpp makes about invitations.                    *)
EXTENDS Party

VARIABLE invited        \* pairs <<id of the inviter, id of the invited player>>

historyVars == <<partyVars, invited>>

Invites(p, q) ==
    /\ OnPartyInvite(p, q)
    /\ invited' = invited \cup {<<playerId[p], playerId[q]>>}

HistoryInit == Init /\ invited = {}

HistoryNext ==
    \/ \E p, q \in Ptr : Invites(p, q)
    \/ /\ Next
       /\ \A p, q \in Ptr : ~OnPartyInvite(p, q)
       /\ UNCHANGED invited

HistorySpec == HistoryInit /\ [][HistoryNext]_historyVars

---------------------------------------------------------------------------
(* An invitation is gone once it is older than its life and one period of  *)
(* the scan: "Expire in 60 seconds", "Only expire once every 10 seconds".  *)
InvitationsExpire ==
    \A p, q \in Ptr :
        invitations[p][q] # 0 => tick <= invitations[p][q] + ExpirePeriod

(* A player becomes a member of someone else's party only on an invitation *)
(* that this party's leader sent to him: "Check if we have this            *)
(* invitation".                                                            *)
JoinsOnInvitation ==
    [][\A p, q \in Ptr :
          (OnPartyAcceptInvite(q, p) /\ joinedParty'[q] # joinedParty[q])
             => <<playerId[p], playerId[q]>> \in invited]_historyVars
=============================================================================
