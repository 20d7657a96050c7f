---------------------------- MODULE PartyProofs ----------------------------
(***************************************************************************)
(* Proofs about Party and PartyNet, for any set of addresses and any       *)
(* bounds. First the service: its two records agree, and are a roster.     *)
(* Then the network: what a client shows agrees with the server as soon as *)
(* it has read its messages, for reading what is under way always leads a  *)
(* client from what it shows to what is so. A message that is sent comes   *)
(* last and leads on to what is so then; a message that is read is the     *)
(* first step of the way.                                                  *)
(***************************************************************************)
EXTENDS PartyNet, SequenceTheorems, TLAPS

---------------------------------------------------------------------------
(* std::find followed by erase, on a sequence without duplicates: exactly  *)
(* the element named goes, and the others keep their order.                *)
LEMMA RemoveFirstElements ==
    ASSUME NEW S, NEW s \in Seq(S), NEW i \in 1 .. Len(s),
           \A j, k \in 1 .. Len(s) : s[j] = s[k] => j = k
    PROVE  /\ RemoveFirst(s, s[i]) \in Seq(S)
           /\ Len(RemoveFirst(s, s[i])) = Len(s) - 1
           /\ \A j \in 1 .. Len(s) - 1 :
                 RemoveFirst(s, s[i])[j] = IF j < i THEN s[j] ELSE s[j + 1]
<1>1. RemoveFirst(s, s[i]) = RemoveAt(s, i)
  <2> DEFINE I == {j \in 1 .. Len(s) : s[j] = s[i]}
  <2>1. I = {i}
    OBVIOUS
  <2>2. Min({i}) = i
    BY DEF Min
  <2>3. SelectInSeq(s, LAMBDA v : v = s[i]) = i
    BY <2>1, <2>2, Zenon DEF SelectInSeq
  <2> QED
    BY <2>3, Zenon DEF RemoveFirst
<1>2. /\ SubSeq(s, 1, i - 1) \in Seq(S)
      /\ Len(SubSeq(s, 1, i - 1)) = i - 1
      /\ \A j \in 1 .. i - 1 : SubSeq(s, 1, i - 1)[j] = s[j]
  OBVIOUS
<1>3. /\ SubSeq(s, i + 1, Len(s)) \in Seq(S)
      /\ Len(SubSeq(s, i + 1, Len(s))) = Len(s) - i
      /\ \A j \in 1 .. Len(s) - i : SubSeq(s, i + 1, Len(s))[j] = s[i + j]
  OBVIOUS
<1> DEFINE front == SubSeq(s, 1, i - 1)
           back  == SubSeq(s, i + 1, Len(s))
<1> HIDE DEF front, back
<1>4. /\ front \o back \in Seq(S)
      /\ Len(front \o back) = Len(s) - 1
      /\ \A j \in 1 .. Len(s) - 1 :
            (front \o back)[j] = IF j < i THEN s[j] ELSE s[j + 1]
  <2>1. /\ front \in Seq(S) /\ Len(front) = i - 1
        /\ back \in Seq(S) /\ Len(back) = Len(s) - i
    BY <1>2, <1>3 DEF front, back
  <2>2. /\ front \o back \in Seq(S)
        /\ Len(front \o back) = Len(s) - 1
    BY <2>1
  <2>3. ASSUME NEW j \in 1 .. Len(s) - 1
        PROVE  (front \o back)[j] = IF j < i THEN s[j] ELSE s[j + 1]
    <3>1. CASE j < i
      BY <2>1, <3>1, <1>2 DEF front
    <3>2. CASE ~(j < i)
      <4>1. (front \o back)[j] = back[j - (i - 1)]
        BY <2>1, <3>2
      <4>2. back[j - (i - 1)] = s[i + (j - (i - 1))]
        BY <3>2, <1>3 DEF back
      <4> QED
        BY <3>2, <4>1, <4>2
    <3> QED
      BY <3>1, <3>2
  <2> QED
    BY <2>2, <2>3
<1> QED
  BY <1>1, <1>4 DEF RemoveAt, front, back

(* The same in terms of the set of elements.                               *)
LEMMA RemoveFirstMember ==
    ASSUME NEW S, NEW s \in Seq(S), NEW e \in ToSet(s),
           \A j, k \in 1 .. Len(s) : s[j] = s[k] => j = k
    PROVE  /\ RemoveFirst(s, e) \in Seq(S)
           /\ ToSet(RemoveFirst(s, e)) = ToSet(s) \ {e}
           /\ RemoveFirst(s, e) = <<>> => ToSet(s) = {e}
           /\ \A j, k \in DOMAIN RemoveFirst(s, e) :
                 RemoveFirst(s, e)[j] = RemoveFirst(s, e)[k] => j = k
<1>1. PICK i \in 1 .. Len(s) : e = s[i]
  BY DEF ToSet
<1> DEFINE r == RemoveFirst(s, s[i])
<1>2. /\ r \in Seq(S)
      /\ Len(r) = Len(s) - 1
      /\ \A j \in 1 .. Len(s) - 1 : r[j] = IF j < i THEN s[j] ELSE s[j + 1]
  BY RemoveFirstElements
<1> HIDE DEF r
<1>3. DOMAIN r = 1 .. Len(s) - 1 /\ DOMAIN s = 1 .. Len(s)
  BY <1>2
<1>4. ToSet(r) = ToSet(s) \ {s[i]}
  <2>1. ASSUME NEW j \in DOMAIN r PROVE r[j] \in ToSet(s) \ {s[i]}
    BY <1>2, <1>3 DEF ToSet
  <2>2. ASSUME NEW j \in DOMAIN s, s[j] # s[i] PROVE s[j] \in ToSet(r)
    <3>1. CASE j < i
      <4>1. j \in 1 .. Len(s) - 1 /\ r[j] = s[j]
        BY <1>2, <1>3, <3>1
      <4> QED
        BY <4>1, <1>3 DEF ToSet
    <3>2. CASE j > i
      <4>1. j - 1 \in 1 .. Len(s) - 1 /\ r[j - 1] = s[j]
        BY <1>2, <1>3, <3>2
      <4> QED
        BY <4>1, <1>3 DEF ToSet
    <3> QED
      BY <2>2, <1>3, <3>1, <3>2
  <2> QED
    BY <2>1, <2>2 DEF ToSet
<1>5. ASSUME NEW j \in DOMAIN r, NEW k \in DOMAIN r, r[j] = r[k] PROVE j = k
  BY <1>5, <1>2, <1>3
<1>6. r = <<>> => ToSet(s) = {s[i]}
  BY <1>2, <1>3 DEF ToSet
<1> QED
  BY <1>1, <1>2, <1>4, <1>5, <1>6 DEF r

---------------------------------------------------------------------------
(* A server that has just started satisfies the invariant.                 *)
THEOREM InitPartyInv == Init => PartyInv
BY PartyAssumption DEF Init, PartyInv, TypeOK, PlayerIdsUnique, MembershipAgrees,
   MembersAreLive, LeaderIsMember, NoInvitations, NoParty, PartyIds, InParty, Live

(* The members of a party, and what taking one of them out leaves.         *)
LEMMA PartyMembers ==
    ASSUME PartyInv, NEW g \in DOMAIN parties
    PROVE  /\ parties[g] \in [leader : Nat, members : Seq(Ptr)]
           /\ parties[g].members \in Seq(Ptr)
           /\ DOMAIN parties[g].members = 1 .. Len(parties[g].members)
           /\ ToSet(parties[g].members) = {p \in Ptr : joinedParty[p] = g}
           /\ ToSet(parties[g].members) \subseteq Live
           /\ g \in Nat
           /\ g # NoParty
<1>1. /\ parties[g] \in [leader : Nat, members : Seq(Ptr)]
      /\ g \in Nat
      /\ g # NoParty
  BY DEF PartyInv, TypeOK, PartyIds, NoParty
<1>2. /\ parties[g].members \in Seq(Ptr)
      /\ DOMAIN parties[g].members = 1 .. Len(parties[g].members)
  BY <1>1
<1>3. ToSet(parties[g].members) = {p \in Ptr : joinedParty[p] = g}
  BY <1>1, <1>2 DEF PartyInv, MembershipAgrees, ToSet, InParty, PartyOf
<1>4. ToSet(parties[g].members) \subseteq Live
  BY <1>1, <1>3 DEF PartyInv, MembersAreLive, InParty
<1> QED
  BY <1>1, <1>2, <1>3, <1>4

(* The member list once player p is erased from it.                        *)
LEMMA MembersWithout ==
    ASSUME PartyInv, NEW p \in Ptr, InParty(p),
           NEW rest, rest = RemoveFirst(PartyOf(p).members, p)
    PROVE  /\ joinedParty[p] \in DOMAIN parties
           /\ rest \in Seq(Ptr)
           /\ ToSet(rest) = ToSet(PartyOf(p).members) \ {p}
           /\ rest = <<>> => ToSet(PartyOf(p).members) = {p}
           /\ rest # <<>> => rest[1] \in ToSet(rest)
           /\ \A j, k \in DOMAIN rest : rest[j] = rest[k] => j = k
<1> DEFINE g == joinedParty[p]
           s == parties[g].members
<1>1. /\ g \in DOMAIN parties
      /\ p \in ToSet(s)
      /\ \A j, k \in DOMAIN s : s[j] = s[k] => j = k
  BY DEF PartyInv, MembershipAgrees, PartyOf
<1>2. s \in Seq(Ptr) /\ DOMAIN s = 1 .. Len(s)
  BY <1>1, PartyMembers
<1> HIDE DEF g, s
<1>3. /\ RemoveFirst(s, p) \in Seq(Ptr)
      /\ ToSet(RemoveFirst(s, p)) = ToSet(s) \ {p}
      /\ RemoveFirst(s, p) = <<>> => ToSet(s) = {p}
      /\ \A j, k \in DOMAIN RemoveFirst(s, p) :
            RemoveFirst(s, p)[j] = RemoveFirst(s, p)[k] => j = k
  BY <1>1, <1>2, RemoveFirstMember
<1>4. rest = RemoveFirst(s, p)
  BY DEF PartyOf, g, s
<1>5. rest # <<>> => rest[1] \in ToSet(rest)
  BY <1>3, <1>4 DEF ToSet
<1> QED
  BY <1>1, <1>3, <1>4, <1>5 DEF PartyOf, g, s

(* Taking a player out of his party, whether he leaves, is kicked or is    *)
(* disconnected, keeps the tables consistent.                              *)
LEMMA RemovalKeepsTables ==
    ASSUME PartyInv, NEW p \in Ptr,
           parties' = PartiesWithout(p),
           joinedParty' = [joinedParty EXCEPT ![p] = NoParty],
           nextPartyId' = nextPartyId,
           playerId' \in [Ptr -> Nat],
           \A q \in Ptr : q # p => playerId'[q] = playerId[q]
    PROVE  /\ joinedParty' \in [Ptr -> PartyIds' \cup {NoParty}]
           /\ DOMAIN parties' \subseteq PartyIds'
           /\ parties' \in [DOMAIN parties' -> [leader : Nat, members : Seq(Ptr)]]
           /\ MembershipAgrees'
           /\ MembersAreLive'
           /\ LeaderIsMember'
<1>t. /\ joinedParty \in [Ptr -> PartyIds \cup {NoParty}]
      /\ DOMAIN parties \subseteq PartyIds
      /\ parties \in [DOMAIN parties -> [leader : Nat, members : Seq(Ptr)]]
      /\ playerId \in [Ptr -> Nat]
      /\ PartyIds' = PartyIds
      /\ NoParty \notin DOMAIN parties
  BY DEF PartyInv, TypeOK, PartyIds, NoParty
<1>j. /\ joinedParty' \in [Ptr -> PartyIds' \cup {NoParty}]
      /\ joinedParty'[p] = NoParty
      /\ \A q \in Ptr : q # p => joinedParty'[q] = joinedParty[q]
  BY <1>t
<1>l. MembersAreLive'
  BY <1>j DEF PartyInv, MembersAreLive, InParty, Live
<1>a. \A g \in DOMAIN parties :
         /\ parties[g].members \in Seq(Ptr)
         /\ DOMAIN parties[g].members = 1 .. Len(parties[g].members)
         /\ ToSet(parties[g].members) = {q \in Ptr : joinedParty[q] = g}
         /\ \A j, k \in DOMAIN parties[g].members :
               parties[g].members[j] = parties[g].members[k] => j = k
         /\ \E q \in ToSet(parties[g].members) : playerId[q] = parties[g].leader
         /\ parties[g].leader \in Nat
  BY PartyMembers DEF PartyInv, MembershipAgrees, LeaderIsMember
<1>u. \A q \in Ptr : InParty(q) => joinedParty[q] \in DOMAIN parties
  BY DEF PartyInv, MembershipAgrees
<1> DEFINE Good(g) ==
        /\ parties'[g] \in [leader : Nat, members : Seq(Ptr)]
        /\ ToSet(parties'[g].members) = {q \in Ptr : joinedParty'[q] = g}
        /\ \A j, k \in DOMAIN parties'[g].members :
              parties'[g].members[j] = parties'[g].members[k] => j = k
        /\ \E q \in ToSet(parties'[g].members) : playerId'[q] = parties'[g].leader
<1>g. ASSUME /\ DOMAIN parties' \subseteq DOMAIN parties
             /\ parties' = [g \in DOMAIN parties' |-> parties'[g]]
             /\ \A g \in DOMAIN parties' : Good(g)
             /\ \A q \in Ptr : joinedParty'[q] # NoParty => joinedParty'[q] \in DOMAIN parties'
      PROVE  /\ DOMAIN parties' \subseteq PartyIds'
             /\ parties' \in [DOMAIN parties' -> [leader : Nat, members : Seq(Ptr)]]
             /\ MembershipAgrees'
             /\ LeaderIsMember'
  <2>1. \A g \in DOMAIN parties' : parties'[g] \in [leader : Nat, members : Seq(Ptr)]
    BY <1>g
  <2>2. parties' \in [DOMAIN parties' -> [leader : Nat, members : Seq(Ptr)]]
    BY <1>g, <2>1
  <2>3. MembershipAgrees'
    BY <1>g DEF MembershipAgrees, ToSet, InParty, PartyOf
  <2>4. LeaderIsMember'
    BY <1>g DEF LeaderIsMember
  <2> QED
    BY <1>g, <1>t, <2>2, <2>3, <2>4
<1>o. ASSUME NEW h \in DOMAIN parties, h # joinedParty[p], parties'[h] = parties[h]
      PROVE  Good(h)
  <2>1. p \notin ToSet(parties[h].members)
    BY <1>a, <1>o
  <2>2. {q \in Ptr : joinedParty'[q] = h} = {q \in Ptr : joinedParty[q] = h}
    BY <1>j, <1>o, <1>t
  <2>3. ToSet(parties'[h].members) = {q \in Ptr : joinedParty'[q] = h}
    BY <1>a, <1>o, <2>2
  <2>4. \E q \in ToSet(parties'[h].members) : playerId'[q] = parties'[h].leader
    BY <1>a, <1>o, <2>1
  <2> QED
    BY <1>a, <1>o, <1>t, <2>3, <2>4
<1> HIDE DEF Good
<1>1. CASE ~InParty(p)
  <2>1. parties' = parties /\ joinedParty[p] = NoParty
    BY <1>1 DEF PartiesWithout, InParty
  <2>2. \A g \in DOMAIN parties' : Good(g)
    BY <2>1, <1>o, <1>t
  <2>3. \A q \in Ptr : joinedParty'[q] # NoParty => joinedParty'[q] \in DOMAIN parties'
    BY <2>1, <1>j, <1>u DEF InParty
  <2> QED
    BY <2>1, <2>2, <2>3, <1>g, <1>j, <1>l, <1>t
<1>2. CASE InParty(p)
  <2> DEFINE g    == joinedParty[p]
             rest == RemoveFirst(PartyOf(p).members, p)
  <2>1. /\ g \in DOMAIN parties
        /\ rest \in Seq(Ptr)
        /\ ToSet(rest) = ToSet(parties[g].members) \ {p}
        /\ rest = <<>> => ToSet(parties[g].members) = {p}
        /\ rest # <<>> => rest[1] \in ToSet(rest)
        /\ \A j, k \in DOMAIN rest : rest[j] = rest[k] => j = k
    BY <1>2, MembersWithout DEF PartyOf
  <2>2. CASE rest = <<>>
    <3>1. parties' = [h \in DOMAIN parties \ {g} |-> parties[h]]
      BY <1>2, <2>2 DEF PartiesWithout, PartyOf
    <3>2. \A h \in DOMAIN parties' : Good(h)
      BY <3>1, <1>o
    <3>3. \A q \in Ptr : joinedParty[q] = g => q = p
      BY <1>a, <2>1, <2>2
    <3>4. \A q \in Ptr : joinedParty'[q] # NoParty => joinedParty'[q] \in DOMAIN parties'
      BY <3>1, <3>3, <1>j, <1>u DEF InParty
    <3> QED
      BY <3>1, <3>2, <3>4, <1>g, <1>j, <1>l
  <2>3. CASE rest # <<>>
    <3> DEFINE led == IF parties[g].leader = playerId[p]
                      THEN playerId[rest[1]] ELSE parties[g].leader
    <3>1. parties' = [parties EXCEPT ![g] = [leader |-> led, members |-> rest]]
      BY <1>2, <2>3 DEF PartiesWithout, PartyOf
    <3> HIDE DEF rest
    <3>2. /\ DOMAIN parties' = DOMAIN parties
          /\ parties' = [h \in DOMAIN parties' |-> parties'[h]]
          /\ parties'[g] = [leader |-> led, members |-> rest]
      BY <3>1, <2>1, <1>t
    <3>3. led \in Nat
      BY <2>1, <2>3, <1>a, <1>t
    <3>4. \E q \in ToSet(rest) : playerId'[q] = led
      <4>1. CASE parties[g].leader = playerId[p]
        <5>1. rest[1] \in ToSet(rest) /\ rest[1] # p /\ rest[1] \in Ptr
          BY <2>1, <2>3, <1>a
        <5> QED
          BY <4>1, <5>1
      <4>2. CASE parties[g].leader # playerId[p]
        <5>1. PICK q \in ToSet(parties[g].members) : playerId[q] = parties[g].leader
          BY <1>a, <2>1
        <5>2. q \in ToSet(rest) /\ q \in Ptr /\ q # p
          BY <5>1, <4>2, <2>1, <1>a
        <5> QED
          BY <4>2, <5>1, <5>2
      <4> QED
        BY <4>1, <4>2
    <3>5. ToSet(rest) = {q \in Ptr : joinedParty'[q] = g}
      BY <1>2, <1>a, <1>j, <2>1 DEF InParty
    <3>6. Good(g)
      BY <2>1, <3>2, <3>3, <3>4, <3>5 DEF Good
    <3>7. \A h \in DOMAIN parties' : Good(h)
      BY <3>1, <3>2, <3>6, <1>o
    <3>8. \A q \in Ptr : joinedParty'[q] # NoParty => joinedParty'[q] \in DOMAIN parties'
      BY <3>2, <1>j, <1>u DEF InParty
    <3> QED
      BY <3>2, <3>7, <3>8, <1>g, <1>j, <1>l
  <2> QED
    BY <2>2, <2>3
<1> QED
  BY <1>1, <1>2

---------------------------------------------------------------------------
(* Every step of the service keeps the invariant, action by action.        *)
THEOREM NextPartyInv == PartyInv /\ [Next]_partyVars => PartyInv'
<1> SUFFICES ASSUME PartyInv, [Next]_partyVars
             PROVE  PartyInv'
  OBVIOUS
<1> USE PartyAssumption DEF PartyIds, NoParty, playerVars, clockVars
<1>t. TypeOK /\ PlayerIdsUnique /\ MembershipAgrees /\ MembersAreLive /\ LeaderIsMember
  BY DEF PartyInv
<1>i. NoInvitations \in [Ptr -> Nat]
  BY DEF NoInvitations
<1>m. \A g \in DOMAIN parties :
         /\ parties[g] \in [leader : Nat, members : Seq(Ptr)]
         /\ parties[g].members \in Seq(Ptr)
         /\ DOMAIN parties[g].members = 1 .. Len(parties[g].members)
         /\ ToSet(parties[g].members) = {q \in Ptr : joinedParty[q] = g}
         /\ ToSet(parties[g].members) \subseteq Live
  BY PartyMembers
<1>1. CASE UNCHANGED partyVars
  BY <1>t, <1>1 DEF PartyInv, TypeOK, PlayerIdsUnique, MembershipAgrees, MembersAreLive,
     LeaderIsMember, partyVars, InParty, PartyOf, Live
<1>2. CASE PlayerRefused
  <2>1. /\ nextPlayerId' = nextPlayerId + 1
        /\ UNCHANGED <<playerId, joinedParty, invitations, parties, nextPartyId, clockVars>>
    BY <1>2 DEF PlayerRefused
  <2>2. TypeOK'
    BY <1>t, <2>1 DEF TypeOK
  <2>3. PlayerIdsUnique'
    BY <1>t, <2>1 DEF PlayerIdsUnique, TypeOK, Live
  <2>4. MembershipAgrees' /\ MembersAreLive' /\ LeaderIsMember'
    BY <1>t, <2>1 DEF MembershipAgrees, MembersAreLive, LeaderIsMember, InParty, PartyOf, Live
  <2> QED
    BY <2>2, <2>3, <2>4 DEF PartyInv
<1>3. CASE OnUpdate
  <2>1. invitations' \in [Ptr -> [Ptr -> Nat]] /\ tick' \in Nat /\ nextExpire' \in Nat
    BY <1>3, <1>t DEF OnUpdate, TypeOK, ScannedInvitations, RegisteredPlayers
  <2>2. UNCHANGED <<playerVars, joinedParty, parties, nextPartyId>>
    BY <1>3 DEF OnUpdate
  <2>3. TypeOK' /\ PlayerIdsUnique'
    BY <1>t, <2>1, <2>2 DEF TypeOK, PlayerIdsUnique, Live
  <2>4. MembershipAgrees' /\ MembersAreLive' /\ LeaderIsMember'
    BY <1>t, <2>2 DEF MembershipAgrees, MembersAreLive, LeaderIsMember, InParty, PartyOf, Live
  <2> QED
    BY <2>3, <2>4 DEF PartyInv
<1>4. ASSUME NEW p \in Ptr, PlayerJoin(p)
      PROVE  PartyInv'
  <2>1. joinedParty[p] = NoParty /\ p \notin Live
    BY <1>4, <1>t DEF PlayerJoin, MembersAreLive, InParty, Live
  <2>2. joinedParty' = joinedParty
    BY <1>4, <1>t, <2>1 DEF PlayerJoin, TypeOK
  <2>3. UNCHANGED <<parties, nextPartyId, clockVars>>
    BY <1>4 DEF PlayerJoin
  <2>4. TypeOK'
    BY <1>4, <1>t, <1>i, <2>2, <2>3 DEF PlayerJoin, TypeOK
  <2>5. PlayerIdsUnique'
    <3>1. /\ nextPlayerId' = nextPlayerId + 1
          /\ playerId'[p] = nextPlayerId
          /\ \A q \in Ptr : q # p => playerId'[q] = playerId[q]
          /\ nextPlayerId \in Nat /\ playerId \in [Ptr -> Nat]
          /\ \A q \in Ptr : playerId[q] < nextPlayerId
      BY <1>4, <1>t DEF PlayerJoin, TypeOK, PlayerIdsUnique
    <3>2. \A q \in Ptr : playerId'[q] < nextPlayerId'
      BY <3>1
    <3>3. ASSUME NEW q \in Ptr, NEW r \in Ptr, q # r, playerId'[q] # 0
          PROVE  playerId'[q] # playerId'[r]
      <4>1. CASE p \in {q, r}
        BY <3>1, <3>3, <4>1
      <4>2. CASE p \notin {q, r}
        BY <3>1, <3>3, <4>2, <1>t DEF PlayerIdsUnique, Live
      <4> QED
        BY <4>1, <4>2
    <3> QED
      BY <3>2, <3>3 DEF PlayerIdsUnique, Live
  <2>6. MembershipAgrees'
    BY <1>t, <2>2, <2>3 DEF MembershipAgrees, InParty, PartyOf
  <2>7. MembersAreLive'
    BY <1>4, <1>t, <2>2 DEF PlayerJoin, MembersAreLive, InParty, Live, TypeOK
  <2>8. LeaderIsMember'
    BY <1>4, <1>t, <1>m, <2>1, <2>3 DEF PlayerJoin, LeaderIsMember, TypeOK
  <2> QED
    BY <2>4, <2>5, <2>6, <2>7, <2>8 DEF PartyInv
<1>5. ASSUME NEW p \in Ptr, PlayerLeave(p)
      PROVE  PartyInv'
  <2>1. /\ playerId' \in [Ptr -> Nat]
        /\ \A q \in Ptr : q # p => playerId'[q] = playerId[q]
        /\ playerId'[p] = 0
    BY <1>5, <1>t DEF PlayerLeave, TypeOK
  <2>2. /\ joinedParty' \in [Ptr -> PartyIds' \cup {NoParty}]
        /\ DOMAIN parties' \subseteq PartyIds'
        /\ parties' \in [DOMAIN parties' -> [leader : Nat, members : Seq(Ptr)]]
        /\ MembershipAgrees' /\ MembersAreLive' /\ LeaderIsMember'
    BY <1>5, <2>1, RemovalKeepsTables DEF PlayerLeave
  <2>3. TypeOK'
    BY <1>5, <1>t, <1>i, <2>1, <2>2 DEF PlayerLeave, TypeOK
  <2>4. PlayerIdsUnique'
    <3>1. nextPlayerId' = nextPlayerId /\ nextPlayerId \in Nat \ {0}
      BY <1>5, <1>t DEF PlayerLeave, TypeOK
    <3>2. \A q \in Ptr : playerId'[q] < nextPlayerId'
      BY <1>t, <2>1, <3>1 DEF PlayerIdsUnique
    <3>3. \A q \in Live' : q \in Live /\ playerId'[q] = playerId[q]
      BY <2>1 DEF Live
    <3> QED
      BY <1>t, <3>2, <3>3 DEF PlayerIdsUnique
  <2> QED
    BY <2>2, <2>3, <2>4 DEF PartyInv
<1>6. ASSUME NEW p \in Ptr, RemovePlayerFromParty(p)
      PROVE  PartyInv'
  <2>1. UNCHANGED <<playerVars, invitations, nextPartyId, clockVars>>
    BY <1>6 DEF RemovePlayerFromParty
  <2>2. /\ joinedParty' \in [Ptr -> PartyIds' \cup {NoParty}]
        /\ DOMAIN parties' \subseteq PartyIds'
        /\ parties' \in [DOMAIN parties' -> [leader : Nat, members : Seq(Ptr)]]
        /\ MembershipAgrees' /\ MembersAreLive' /\ LeaderIsMember'
    BY <1>6, <1>t, <2>1, RemovalKeepsTables DEF RemovePlayerFromParty, TypeOK
  <2>3. TypeOK' /\ PlayerIdsUnique'
    BY <1>t, <2>1, <2>2 DEF TypeOK, PlayerIdsUnique, Live
  <2> QED
    BY <2>2, <2>3 DEF PartyInv
<1>7. ASSUME NEW p \in Ptr, OnPartyCreate(p)
      PROVE  PartyInv'
  <2> DEFINE new == [leader |-> playerId[p], members |-> <<p>>]
  <2>1. /\ DOMAIN parties' = DOMAIN parties \cup {nextPartyId}
        /\ parties' = [g \in DOMAIN parties' |-> parties'[g]]
        /\ parties'[nextPartyId] = new
        /\ \A g \in DOMAIN parties : parties'[g] = parties[g]
        /\ nextPartyId \notin DOMAIN parties
    BY <1>7, <1>t DEF OnPartyCreate, TypeOK
  <2>2. /\ joinedParty' = [joinedParty EXCEPT ![p] = nextPartyId]
        /\ joinedParty[p] = NoParty
        /\ nextPartyId' = nextPartyId + 1
        /\ p \in Live
        /\ UNCHANGED <<playerVars, invitations, clockVars>>
    BY <1>7 DEF OnPartyCreate, InParty
  <2>3. TypeOK'
    <3>1. new \in [leader : Nat, members : Seq(Ptr)]
      BY <1>t DEF TypeOK
    <3>2. parties' \in [DOMAIN parties' -> [leader : Nat, members : Seq(Ptr)]]
      BY <3>1, <2>1, <1>m
    <3>3. joinedParty' \in [Ptr -> PartyIds' \cup {NoParty}]
      BY <1>t, <2>2 DEF TypeOK
    <3>4. DOMAIN parties' \subseteq PartyIds'
      BY <1>t, <2>1, <2>2 DEF TypeOK
    <3> QED
      BY <1>t, <2>2, <3>2, <3>3, <3>4 DEF TypeOK
  <2>4. PlayerIdsUnique'
    BY <1>t, <2>2 DEF PlayerIdsUnique, Live
  <2>5. MembershipAgrees'
    <3>1. /\ new.members = <<p>> /\ ToSet(new.members) = {p}
          /\ DOMAIN new.members = {1} /\ new.members[1] = p
      BY DEF ToSet
    <3>2. joinedParty'[p] = nextPartyId /\ \A q \in Ptr : q # p => joinedParty'[q] = joinedParty[q]
      BY <1>t, <2>2 DEF TypeOK
    <3>3. \A g \in DOMAIN parties : ToSet(parties[g].members) = {q \in Ptr : joinedParty'[q] = g}
      BY <1>m, <1>t, <2>1, <2>2, <3>2 DEF TypeOK
    <3> HIDE DEF new
    <3>4. ASSUME NEW q \in Ptr, joinedParty'[q] # NoParty
          PROVE  /\ joinedParty'[q] \in DOMAIN parties'
                 /\ q \in ToSet(parties'[joinedParty'[q]].members)
      <4>1. CASE q = p
        BY <4>1, <2>1, <3>1, <3>2
      <4>2. CASE q # p
        BY <4>2, <1>t, <2>1, <3>2, <3>4 DEF MembershipAgrees, InParty, PartyOf
      <4> QED
        BY <4>1, <4>2
    <3>5. ASSUME NEW g \in DOMAIN parties', NEW i \in DOMAIN parties'[g].members,
                 NEW j \in DOMAIN parties'[g].members
          PROVE  /\ joinedParty'[parties'[g].members[i]] = g
                 /\ parties'[g].members[i] = parties'[g].members[j] => i = j
      <4>1. CASE g = nextPartyId
        BY <4>1, <2>1, <3>1, <3>2
      <4>2. CASE g # nextPartyId
        <5>1. g \in DOMAIN parties /\ parties'[g] = parties[g]
          BY <4>2, <2>1
        <5>2. parties[g].members[i] \in ToSet(parties[g].members)
          BY <5>1 DEF ToSet
        <5> QED
          BY <5>1, <5>2, <3>3, <1>t DEF MembershipAgrees
      <4> QED
        BY <4>1, <4>2
    <3> QED
      BY <3>4, <3>5 DEF MembershipAgrees, InParty, PartyOf
  <2>6. MembersAreLive'
    BY <1>t, <2>2 DEF MembersAreLive, InParty, Live, TypeOK
  <2>7. LeaderIsMember'
    <3>1. p \in ToSet(new.members) /\ playerId[p] = new.leader
      BY DEF ToSet
    <3> HIDE DEF new
    <3> QED
      BY <1>t, <2>1, <2>2, <3>1 DEF LeaderIsMember
  <2> QED
    BY <2>3, <2>4, <2>5, <2>6, <2>7 DEF PartyInv
<1>8. ASSUME NEW p \in Ptr, NEW q \in Ptr, OnPartyChangeLeader(p, q)
      PROVE  PartyInv'
  <2> DEFINE g == joinedParty[p]
  <2>1. /\ g \in DOMAIN parties
        /\ q \in ToSet(parties[g].members)
        /\ parties' = [parties EXCEPT ![g] = [leader |-> playerId[q], members |-> parties[g].members]]
        /\ UNCHANGED <<playerVars, joinedParty, invitations, nextPartyId, clockVars>>
    BY <1>8, <1>t DEF OnPartyChangeLeader, CanChangeLeader, IsLeader, PartyOf, MembershipAgrees
  <2>2. /\ DOMAIN parties' = DOMAIN parties
        /\ parties' = [h \in DOMAIN parties' |-> parties'[h]]
        /\ parties'[g].leader = playerId[q]
        /\ \A h \in DOMAIN parties : parties'[h].members = parties[h].members
        /\ \A h \in DOMAIN parties : h # g => parties'[h] = parties[h]
    BY <2>1, <1>t, <1>m DEF TypeOK
  <2>3. parties' \in [DOMAIN parties' -> [leader : Nat, members : Seq(Ptr)]]
    BY <2>1, <1>t, <1>m DEF TypeOK
  <2>4. TypeOK' /\ PlayerIdsUnique'
    BY <1>t, <2>1, <2>2, <2>3 DEF TypeOK, PlayerIdsUnique, Live
  <2>5. MembershipAgrees' /\ MembersAreLive'
    BY <1>t, <2>1, <2>2 DEF MembershipAgrees, MembersAreLive, InParty, PartyOf, Live
  <2>6. LeaderIsMember'
    BY <1>t, <2>1, <2>2 DEF LeaderIsMember
  <2> QED
    BY <2>4, <2>5, <2>6 DEF PartyInv
<1>9. ASSUME NEW p \in Ptr, NEW q \in Ptr, OnPartyInvite(p, q)
      PROVE  PartyInv'
  <2>1. invitations' \in [Ptr -> [Ptr -> Nat]]
    BY <1>9, <1>t DEF OnPartyInvite, TypeOK
  <2>2. UNCHANGED <<playerVars, joinedParty, parties, nextPartyId, clockVars>>
    BY <1>9 DEF OnPartyInvite
  <2>3. TypeOK' /\ PlayerIdsUnique'
    BY <1>t, <2>1, <2>2 DEF TypeOK, PlayerIdsUnique, Live
  <2>4. MembershipAgrees' /\ MembersAreLive' /\ LeaderIsMember'
    BY <1>t, <2>2 DEF MembershipAgrees, MembersAreLive, LeaderIsMember, InParty, PartyOf, Live
  <2> QED
    BY <2>3, <2>4 DEF PartyInv
<1>10. ASSUME NEW p \in Ptr, NEW q \in Ptr, OnPartyAcceptInvite(q, p)
       PROVE  PartyInv'
  <2> DEFINE g == joinedParty[p]
             s == parties[g].members
  <2>1. /\ g \in DOMAIN parties
        /\ q \in Live
        /\ joinedParty[q] = NoParty
        /\ parties' = [parties EXCEPT ![g] = [leader |-> parties[g].leader, members |-> Append(s, q)]]
        /\ joinedParty' = [joinedParty EXCEPT ![q] = g]
        /\ UNCHANGED <<playerVars, invitations, nextPartyId, clockVars>>
    BY <1>10, <1>t DEF OnPartyAcceptInvite, CanAccept, IsLeader, InParty, MembershipAgrees
  <2>2. /\ Append(s, q) \in Seq(Ptr)
        /\ DOMAIN Append(s, q) = 1 .. Len(s) + 1
        /\ DOMAIN s = 1 .. Len(s) /\ Len(s) \in Nat
        /\ Append(s, q)[Len(s) + 1] = q
        /\ \A i \in 1 .. Len(s) : Append(s, q)[i] = s[i]
    BY <2>1, <1>m
  <2>3. /\ DOMAIN parties' = DOMAIN parties
        /\ parties' = [h \in DOMAIN parties' |-> parties'[h]]
        /\ parties'[g].members = Append(s, q)
        /\ \A h \in DOMAIN parties : parties'[h].leader = parties[h].leader
        /\ \A h \in DOMAIN parties : h # g => parties'[h] = parties[h]
    BY <2>1, <1>t, <1>m DEF TypeOK
  <2>4. parties' \in [DOMAIN parties' -> [leader : Nat, members : Seq(Ptr)]]
    BY <2>1, <2>2, <1>t, <1>m DEF TypeOK
  <2>5. /\ joinedParty'[q] = g
        /\ \A r \in Ptr : r # q => joinedParty'[r] = joinedParty[r]
    BY <2>1, <1>t DEF TypeOK
  <2>6. TypeOK'
    BY <1>t, <2>1, <2>3, <2>4 DEF TypeOK
  <2>7. PlayerIdsUnique'
    BY <1>t, <2>1 DEF PlayerIdsUnique, Live
  <2> HIDE DEF g, s
  <2>8. MembershipAgrees'
    <3>1. ASSUME NEW r \in Ptr, joinedParty'[r] # NoParty
          PROVE  /\ joinedParty'[r] \in DOMAIN parties'
                 /\ r \in ToSet(parties'[joinedParty'[r]].members)
      <4>1. CASE r = q
        <5>1. q \in ToSet(Append(s, q))
          BY <2>2 DEF ToSet
        <5> QED
          BY <4>1, <5>1, <2>1, <2>3, <2>5
      <4>2. CASE r # q
        <5>1. /\ joinedParty[r] \in DOMAIN parties
              /\ r \in ToSet(parties[joinedParty[r]].members)
          BY <4>2, <3>1, <2>5, <1>t DEF MembershipAgrees, InParty, PartyOf
        <5>2. ToSet(s) \subseteq ToSet(Append(s, q))
          BY <2>2 DEF ToSet
        <5> QED
          BY <4>2, <5>1, <5>2, <2>3, <2>5 DEF s
      <4> QED
        BY <4>1, <4>2
    <3>2. ASSUME NEW h \in DOMAIN parties', NEW i \in DOMAIN parties'[h].members,
                 NEW j \in DOMAIN parties'[h].members
          PROVE  /\ joinedParty'[parties'[h].members[i]] = h
                 /\ parties'[h].members[i] = parties'[h].members[j] => i = j
      <4>0. h \in DOMAIN parties
        BY <2>3
      <4>1. \A k \in DOMAIN parties[h].members :
               /\ parties[h].members[k] \in Ptr
               /\ joinedParty[parties[h].members[k]] = h
               /\ parties[h].members[k] # q
               /\ joinedParty'[parties[h].members[k]] = h
        <5>1. ASSUME NEW k \in DOMAIN parties[h].members
              PROVE  /\ parties[h].members[k] \in Ptr
                     /\ joinedParty[parties[h].members[k]] = h
          <6>1. parties[h].members[k] \in ToSet(parties[h].members)
            BY DEF ToSet
          <6> QED
            BY <4>0, <6>1, <1>m
        <5>2. h # NoParty
          BY <4>0, PartyMembers
        <5> QED
          BY <5>1, <5>2, <2>1, <2>5
      <4>2. CASE h = g
        <5>1. i \in 1 .. Len(s) + 1 /\ j \in 1 .. Len(s) + 1
          BY <4>2, <2>2, <2>3
        <5>2. \A k, l \in 1 .. Len(s) : s[k] = s[l] => k = l
          BY <4>0, <4>2, <1>t, <2>2 DEF MembershipAgrees, s
        <5>3. \A k \in 1 .. Len(s) : s[k] # q /\ joinedParty'[s[k]] = g
          BY <4>1, <4>2, <2>2 DEF s
        <5> QED
          BY <4>2, <5>1, <5>2, <5>3, <2>2, <2>3, <2>5
      <4>3. CASE h # g
        BY <4>0, <4>1, <4>3, <1>t, <2>3 DEF MembershipAgrees
      <4> QED
        BY <4>2, <4>3
    <3> QED
      BY <3>1, <3>2 DEF MembershipAgrees, InParty, PartyOf
  <2>9. MembersAreLive'
    BY <1>t, <2>1, <2>5 DEF MembersAreLive, InParty, Live
  <2>10. LeaderIsMember'
    <3>1. ToSet(s) \subseteq ToSet(Append(s, q))
      BY <2>2 DEF ToSet
    <3> QED
      BY <1>t, <2>1, <2>3, <3>1 DEF LeaderIsMember, s
  <2> QED
    BY <2>6, <2>7, <2>8, <2>9, <2>10 DEF PartyInv
<1> QED
  BY <1>1, <1>2, <1>3, <1>4, <1>5, <1>6, <1>7, <1>8, <1>9, <1>10
     DEF Next, OnPartyKick, OnPartyLeave

(* Theorem: whatever the players do and in whatever order, the player ids  *)
(* stay unique, JoinedPartyId and m_parties agree, no party holds a freed  *)
(* Player, and every party is led by one of its members.                   *)
THEOREM PartySafety == Spec => []PartyInv
<1>1. Init => PartyInv
  BY InitPartyInv
<1>2. PartyInv /\ [Next]_partyVars => PartyInv'
  BY NextPartyInv
<1> QED
  BY <1>1, <1>2, PTL DEF Spec

---------------------------------------------------------------------------
(* Action properties.                                                      *)

(* The two records of membership agree after every step of the service, for *)
(* any number of players and parties.                                       *)
COROLLARY MembershipAlwaysAgrees == Spec => []MembershipAgrees
BY PartySafety, PTL DEF PartyInv

(* No member record belongs to a Player that has been removed, so the raw   *)
(* pointers in the lists of members can be followed.                        *)
COROLLARY MembersStayLive == Spec => []MembersAreLive
BY PartySafety, PTL DEF PartyInv

(* Every party has one of its members as its leader, however many left.     *)
COROLLARY LeadersAreMembers == Spec => []LeaderIsMember
BY PartySafety, PTL DEF PartyInv

(* A removal takes no one into a party and founds none.                    *)
LEMMA RemovalShrinks ==
    ASSUME PartyInv, NEW p \in Ptr,
           parties' = PartiesWithout(p),
           joinedParty' = [joinedParty EXCEPT ![p] = NoParty]
    PROVE  /\ DOMAIN parties' \subseteq DOMAIN parties
           /\ \A q \in Ptr : joinedParty'[q] \in {joinedParty[q], NoParty}
BY DEF PartyInv, TypeOK, PartiesWithout

(* What a step may do to the set of parties and to a player who is in one. *)
LEMMA StepKeepsParties ==
    ASSUME PartyInv, [Next]_partyVars
    PROVE  /\ DOMAIN parties' \subseteq DOMAIN parties \cup {nextPartyId}
           /\ \A q \in Ptr : InParty(q) => joinedParty'[q] \in {joinedParty[q], NoParty}
<1> DEFINE Goal ==
        /\ DOMAIN parties' \subseteq DOMAIN parties \cup {nextPartyId}
        /\ \A q \in Ptr : InParty(q) => joinedParty'[q] \in {joinedParty[q], NoParty}
<1> SUFFICES Goal
  OBVIOUS
<1>t. joinedParty \in [Ptr -> PartyIds \cup {NoParty}]
  BY DEF PartyInv, TypeOK
<1>1. CASE UNCHANGED <<joinedParty, parties>>
  BY <1>1
<1>2. ASSUME NEW p \in Ptr, PlayerJoin(p)
      PROVE  Goal
  BY <1>2, <1>t DEF PlayerJoin
<1>3. ASSUME NEW p \in Ptr, PlayerLeave(p) \/ RemovePlayerFromParty(p)
      PROVE  Goal
  BY <1>3, RemovalShrinks DEF PlayerLeave, RemovePlayerFromParty
<1>4. ASSUME NEW p \in Ptr, OnPartyCreate(p)
      PROVE  Goal
  BY <1>4, <1>t DEF OnPartyCreate, InParty
<1>5. ASSUME NEW p \in Ptr, NEW q \in Ptr, OnPartyAcceptInvite(p, q)
      PROVE  Goal
  BY <1>5, <1>t DEF OnPartyAcceptInvite, CanAccept, InParty
<1>6. ASSUME NEW p \in Ptr, NEW q \in Ptr, OnPartyChangeLeader(p, q)
      PROVE  Goal
  BY <1>6 DEF OnPartyChangeLeader
<1> QED
  BY <1>1, <1>2, <1>3, <1>4, <1>5, <1>6
     DEF Next, PlayerRefused, OnUpdate, OnPartyInvite, OnPartyKick, OnPartyLeave, partyVars

(* Theorem: the id of a party that has ended is never given to another.    *)
THEOREM PartyIdsAreNotReused == Spec => PartyIdsNotReused
<1>1. PartyInv /\ [Next]_partyVars
         => [\A g \in PartyIds : g \in DOMAIN parties' => g \in DOMAIN parties]_partyVars
  <2> SUFFICES ASSUME PartyInv, [Next]_partyVars
               PROVE  \A g \in PartyIds : g \in DOMAIN parties' => g \in DOMAIN parties
    OBVIOUS
  <2>1. nextPartyId \notin PartyIds
    BY DEF PartyInv, TypeOK, PartyIds
  <2> QED
    BY <2>1, StepKeepsParties
<1> QED
  BY <1>1, PartySafety, PTL DEF Spec, PartyIdsNotReused

(* Theorem: no player passes from one party straight into another.         *)
THEOREM PlayersDoNotHop == Spec => NoPartyHopping
<1>1. PartyInv /\ [Next]_partyVars
         => [\A p \in Ptr : InParty(p) => joinedParty'[p] \in {joinedParty[p], NoParty}]_partyVars
  BY StepKeepsParties
<1> QED
  BY <1>1, PartySafety, PTL DEF Spec, NoPartyHopping

---------------------------------------------------------------------------
(* Refinement of the roster.                                               *)

(* Leaders names the one live player a party records as its leader, and he *)
(* is a member.                                                            *)
LeadersLead ==
    /\ Leaders = [g \in DOMAIN parties |-> Leaders[g]]
    /\ \A g \in DOMAIN parties :
          /\ Leaders[g] \in Live
          /\ joinedParty[Leaders[g]] = g
          /\ \A p \in Live : playerId[p] = parties[g].leader <=> p = Leaders[g]

(* A party's leader, known by id, is one connected player and a member.    *)
LEMMA LeadersFacts == PartyInv => LeadersLead
<1> SUFFICES ASSUME PartyInv
             PROVE  \A g \in DOMAIN parties :
                       /\ Leaders[g] \in Live
                       /\ joinedParty[Leaders[g]] = g
                       /\ \A p \in Live : playerId[p] = parties[g].leader <=> p = Leaders[g]
  BY DEF LeadersLead, Leaders
<1> TAKE g \in DOMAIN parties
<1>1. PICK p \in Live : playerId[p] = parties[g].leader /\ joinedParty[p] = g
  BY PartyMembers DEF PartyInv, LeaderIsMember
<1>2. Leaders[g] \in Live /\ playerId[Leaders[g]] = parties[g].leader
  BY <1>1 DEF Leaders
<1> QED
  BY <1>1, <1>2 DEF PartyInv, PlayerIdsUnique

(* And after a step.                                                       *)
LEMMA LeadersFactsNext == PartyInv' => LeadersLead'
BY LeadersFacts, PTL

(* RemovePlayerFromParty is the resignation of the roster.                 *)
LEMMA RemovalIsResign ==
    ASSUME PartyInv, PartyInv', NEW p \in Live,
           parties' = PartiesWithout(p),
           joinedParty' = [joinedParty EXCEPT ![p] = NoParty],
           nextPartyId' = nextPartyId,
           Live \ {p} \subseteq Live',
           \A q \in Ptr : q # p => playerId'[q] = playerId[q]
    PROVE  Roster!Resign(p)
<1> DEFINE g == joinedParty[p]
<1>t. /\ p \in Ptr
      /\ joinedParty \in [Ptr -> PartyIds \cup {NoParty}]
      /\ parties \in [DOMAIN parties -> [leader : Nat, members : Seq(Ptr)]]
      /\ NoParty \notin DOMAIN parties
  BY DEF PartyInv, TypeOK, Live, PartyIds, NoParty
<1>f. LeadersLead /\ LeadersLead'
  BY LeadersFacts, LeadersFactsNext
<1>s. ASSUME NEW h \in DOMAIN parties, h \in DOMAIN parties',
             parties'[h].leader = parties[h].leader, Leaders[h] # p
      PROVE  Leaders'[h] = Leaders[h]
  <2>1. Leaders[h] \in Live' /\ Leaders[h] \in Ptr
    BY <1>f, <1>s DEF Live, LeadersLead
  <2>2. playerId'[Leaders[h]] = parties'[h].leader
    BY <1>f, <1>s, <2>1 DEF LeadersLead
  <2> QED
    BY <1>f, <1>s, <2>1, <2>2 DEF LeadersLead
<1>1. CASE ~InParty(p)
  <2>1. parties' = parties /\ g = NoParty
    BY <1>1 DEF PartiesWithout, InParty
  <2>2. \A h \in DOMAIN parties : Leaders[h] # p
    BY <2>1, <1>f, <1>t DEF LeadersLead
  <2>3. Leaders' = Leaders
    BY <2>1, <2>2, <1>s, <1>f DEF LeadersLead
  <2> QED
    BY <2>1, <2>3 DEF Roster!Resign
<1>2. CASE InParty(p)
  <2> DEFINE rest == RemoveFirst(PartyOf(p).members, p)
             left == {q \in Ptr : joinedParty[q] = g} \ {p}
  <2>0. /\ joinedParty[p] \in DOMAIN parties
        /\ rest \in Seq(Ptr)
        /\ ToSet(rest) = ToSet(PartyOf(p).members) \ {p}
        /\ rest = <<>> => ToSet(PartyOf(p).members) = {p}
        /\ rest # <<>> => rest[1] \in ToSet(rest)
        /\ \A j, k \in DOMAIN rest : rest[j] = rest[k] => j = k
    <3>1. p \in Ptr
      BY <1>t
    <3> QED
      BY <1>2, <3>1, MembersWithout
  <2>1. /\ g \in DOMAIN parties /\ g # NoParty
        /\ rest \in Seq(Ptr)
        /\ ToSet(rest) = ToSet(parties[g].members) \ {p}
        /\ rest = <<>> => ToSet(parties[g].members) = {p}
        /\ rest # <<>> => rest[1] \in ToSet(rest)
    <3> HIDE DEF rest
    <3> QED
      BY <1>2, <2>0 DEF PartyOf, InParty
  <2>2. ToSet(rest) = left
    BY <2>1, PartyMembers
  <2>m. left = Roster!Members(g) \ {p}
    BY DEF Roster!Members
  <2>3. \A h \in DOMAIN parties \ {g} : Leaders[h] # p
    BY <1>f DEF LeadersLead
  <2>4. CASE rest = <<>>
    <3>1. parties' = [h \in DOMAIN parties \ {g} |-> parties[h]]
      BY <1>2, <2>4 DEF PartiesWithout, PartyOf
    <3>2. left = {}
      BY <2>1, <2>2, <2>4
    <3>3. \A h \in DOMAIN parties \ {g} : Leaders'[h] = Leaders[h]
      BY <3>1, <2>3, <1>s
    <3>4. DOMAIN Leaders' = DOMAIN Leaders \ {g}
      BY <3>1 DEF Leaders
    <3>5. Leaders' = [h \in DOMAIN Leaders \ {g} |-> Leaders[h]]
      BY <3>1, <3>3, <3>4, <1>f DEF LeadersLead
    <3> QED
      BY <2>1, <2>m, <3>2, <3>5 DEF Roster!Resign
  <2>5. CASE rest # <<>>
    <3>1. parties' = [parties EXCEPT ![g] =
                        [leader  |-> IF @.leader = playerId[p]
                                     THEN playerId[rest[1]] ELSE @.leader,
                         members |-> rest]]
      BY <1>2, <2>5 DEF PartiesWithout, PartyOf
    <3> HIDE DEF rest
    <3>2. /\ DOMAIN parties' = DOMAIN parties
          /\ \A h \in DOMAIN parties \ {g} : parties'[h] = parties[h]
          /\ parties'[g].leader = IF parties[g].leader = playerId[p]
                                  THEN playerId[rest[1]] ELSE parties[g].leader
      BY <3>1, <2>1, <1>t
    <3>3. \A h \in DOMAIN parties \ {g} : Leaders'[h] = Leaders[h]
      BY <3>2, <2>3, <1>s
    <3>4. CASE Leaders[g] # p
      <4>1. parties[g].leader # playerId[p]
        BY <3>4, <1>f, <2>1 DEF LeadersLead
      <4>2. Leaders'[g] = Leaders[g]
        BY <3>2, <3>4, <4>1, <2>1, <1>s
      <4>3. Leaders' = Leaders
        BY <3>2, <3>3, <4>2, <1>f DEF LeadersLead
      <4> QED
        BY <2>1, <3>4, <4>3 DEF Roster!Resign
    <3>5. CASE Leaders[g] = p
      <4>1. parties'[g].leader = playerId[rest[1]]
        BY <3>2, <3>5, <1>f, <2>1 DEF LeadersLead
      <4>2. rest[1] \in left /\ rest[1] \in Live
        BY <2>1, <2>2, <2>5, PartyMembers
      <4>3. rest[1] \in Live' /\ playerId'[rest[1]] = parties'[g].leader
        BY <4>1, <4>2 DEF Live
      <4>4. Leaders'[g] = rest[1]
        BY <4>3, <1>f, <3>2, <2>1 DEF LeadersLead
      <4>5. Leaders' = [Leaders EXCEPT ![g] = rest[1]]
        BY <3>2, <3>3, <4>4, <1>f, <2>1 DEF LeadersLead
      <4> QED
        BY <2>1, <2>m, <3>5, <4>2, <4>5 DEF Roster!Resign
    <3> QED
      BY <3>4, <3>5
  <2> QED
    BY <2>4, <2>5
<1> QED
  BY <1>1, <1>2

(* Theorem: the service implements the roster.  Every step that changes    *)
(* m_parties or a JoinedPartyId is a step of the roster, and the others    *)
(* leave it alone.                                                         *)
THEOREM PartyImplementsRoster == Spec => ImplementsRoster
<1>1. Init => Roster!Init
  <2> SUFFICES ASSUME Init PROVE Roster!Init
    OBVIOUS
  <2>1. Live = {} /\ joinedParty = [p \in Ptr |-> NoParty] /\ nextPartyId = 0
    BY DEF Init, Live
  <2>2. Leaders = <<>>
    BY DEF Init, Leaders
  <2> QED
    BY <2>1, <2>2 DEF Roster!Init
<1>2. PartyInv /\ PartyInv' /\ [Next]_partyVars => [Roster!Next]_Roster!rosterVars
  <2> SUFFICES ASSUME PartyInv, PartyInv', [Next]_partyVars
               PROVE  [Roster!Next]_Roster!rosterVars
    OBVIOUS
  <2>t. /\ joinedParty \in [Ptr -> PartyIds \cup {NoParty}]
        /\ DOMAIN parties \subseteq PartyIds
        /\ nextPartyId \in Nat /\ nextPartyId \notin DOMAIN parties
        /\ parties \in [DOMAIN parties -> [leader : Nat, members : Seq(Ptr)]]
        /\ playerId \in [Ptr -> Nat]
        /\ nextPlayerId \in Nat \ {0}
    BY DEF PartyInv, TypeOK, PartyIds
  <2>f. LeadersLead /\ LeadersLead'
    BY LeadersFacts, LeadersFactsNext
  <2>s. ASSUME DOMAIN parties' = DOMAIN parties, Live \subseteq Live',
               \A g \in DOMAIN parties : parties'[g].leader = parties[g].leader,
               \A p \in Live : playerId'[p] = playerId[p]
        PROVE  Leaders' = Leaders
    <3>1. ASSUME NEW g \in DOMAIN parties
          PROVE  Leaders'[g] = Leaders[g]
      <4>1. /\ Leaders[g] \in Live'
            /\ playerId'[Leaders[g]] = parties'[g].leader
        BY <2>f, <2>s DEF LeadersLead
      <4> QED
        BY <2>f, <2>s, <4>1 DEF LeadersLead
    <3> QED
      BY <2>f, <2>s, <3>1 DEF LeadersLead
  <2>1. CASE UNCHANGED <<playerId, joinedParty, parties, nextPartyId>>
    <3>1. Live' = Live
      BY <2>1 DEF Live
    <3>2. Leaders' = Leaders
      BY <2>1, <2>s, <3>1
    <3> QED
      BY <2>1, <3>1, <3>2 DEF Roster!rosterVars
  <2>2. ASSUME NEW p \in Ptr, PlayerJoin(p)
        PROVE  Roster!Next
    <3>1. /\ joinedParty[p] = NoParty /\ p \notin Live
          /\ UNCHANGED <<parties, nextPartyId>>
      BY <2>2 DEF PlayerJoin, PartyInv, MembersAreLive, InParty, Live
    <3>2. joinedParty' = joinedParty
      BY <2>2, <2>t, <3>1 DEF PlayerJoin
    <3>3. /\ Live' = Live \cup {p}
          /\ \A q \in Live : playerId'[q] = playerId[q]
      BY <2>2, <2>t, <3>1 DEF PlayerJoin, Live
    <3>4. Leaders' = Leaders
      BY <2>s, <3>1, <3>3
    <3> QED
      BY <3>1, <3>2, <3>3, <3>4 DEF Roster!Next, Roster!Arrive
  <2>3. ASSUME NEW p \in Ptr, PlayerLeave(p)
        PROVE  Roster!Next
    <3>1. /\ p \in Live
          /\ Live' = Live \ {p}
          /\ \A q \in Ptr : q # p => playerId'[q] = playerId[q]
      BY <2>3, <2>t DEF PlayerLeave, Live
    <3>2. Roster!Resign(p)
      BY <2>3, <3>1, RemovalIsResign DEF PlayerLeave
    <3> QED
      BY <3>1, <3>2 DEF Roster!Next, Roster!Depart, Live
  <2>4. ASSUME NEW p \in Live, RemovePlayerFromParty(p)
        PROVE  Roster!Next
    <3>1. /\ Live' = Live
          /\ \A q \in Ptr : playerId'[q] = playerId[q]
      BY <2>4 DEF RemovePlayerFromParty, playerVars, Live
    <3>2. Roster!Resign(p)
      BY <2>4, <3>1, RemovalIsResign DEF RemovePlayerFromParty
    <3> QED
      BY <3>1, <3>2 DEF Roster!Next, Roster!Leave, Live
  <2>5. ASSUME NEW p \in Ptr, OnPartyCreate(p)
        PROVE  Roster!Next
    <3>1. /\ p \in Live
          /\ joinedParty[p] = NoParty
          /\ nextPartyId' = nextPartyId + 1
          /\ joinedParty' = [joinedParty EXCEPT ![p] = nextPartyId]
          /\ UNCHANGED playerId
          /\ DOMAIN parties' = DOMAIN parties \cup {nextPartyId}
          /\ parties'[nextPartyId].leader = playerId[p]
          /\ \A g \in DOMAIN parties : parties'[g] = parties[g]
      BY <2>5, <2>t DEF OnPartyCreate, InParty, playerVars
    <3>2. Live' = Live
      BY <3>1 DEF Live
    <3>3. Leaders'[nextPartyId] = p
      BY <2>f, <3>1, <3>2 DEF LeadersLead
    <3>4. \A g \in DOMAIN parties : Leaders'[g] = Leaders[g]
      BY <2>f, <3>1, <3>2 DEF LeadersLead
    <3>5. Leaders' = [g \in DOMAIN Leaders \cup {nextPartyId} |->
                        IF g = nextPartyId THEN p ELSE Leaders[g]]
      BY <2>f, <2>t, <3>1, <3>3, <3>4 DEF LeadersLead
    <3> QED
      BY <3>1, <3>2, <3>5 DEF Roster!Next, Roster!Found, Live
  <2>6. ASSUME NEW p \in Ptr, NEW q \in Ptr, OnPartyChangeLeader(p, q)
        PROVE  Roster!Next
    <3> DEFINE g == joinedParty[p]
    <3>1. /\ p \in Live /\ q \in Live
          /\ g \in DOMAIN parties /\ g # NoParty
          /\ parties[g].leader = playerId[p]
          /\ joinedParty[q] = g
          /\ UNCHANGED <<playerId, joinedParty, nextPartyId>>
          /\ parties' = [parties EXCEPT ![g] =
                           [leader |-> playerId[q], members |-> parties[g].members]]
      BY <2>6, PartyMembers DEF OnPartyChangeLeader, CanChangeLeader, IsLeader, PartyOf,
         InParty, PartyInv, MembershipAgrees, playerVars
    <3>2. Live' = Live
      BY <3>1 DEF Live
    <3>3. Leaders[g] = p
      BY <2>f, <3>1 DEF LeadersLead
    <3>4. Leaders'[g] = q
      BY <2>f, <2>t, <3>1, <3>2 DEF LeadersLead
    <3>5. \A h \in DOMAIN parties \ {g} : Leaders'[h] = Leaders[h]
      BY <2>f, <2>t, <3>1, <3>2 DEF LeadersLead
    <3>6. Leaders' = [Leaders EXCEPT ![g] = q]
      BY <2>f, <2>t, <3>1, <3>4, <3>5 DEF LeadersLead
    <3> QED
      BY <3>1, <3>2, <3>3, <3>6 DEF Roster!Next, Roster!HandOver, Live
  <2>7. ASSUME NEW p \in Ptr, NEW q \in Ptr, OnPartyAcceptInvite(q, p)
        PROVE  Roster!Next
    <3> DEFINE g == joinedParty[p]
    <3>1. /\ p \in Live /\ q \in Live
          /\ g \in DOMAIN parties /\ g # NoParty
          /\ parties[g].leader = playerId[p]
          /\ joinedParty[q] = NoParty
          /\ joinedParty' = [joinedParty EXCEPT ![q] = g]
          /\ UNCHANGED <<playerId, nextPartyId>>
          /\ parties' = [parties EXCEPT ![g] =
                           [leader  |-> parties[g].leader,
                            members |-> Append(parties[g].members, q)]]
      BY <2>7 DEF OnPartyAcceptInvite, CanAccept, IsLeader, PartyOf,
         InParty, PartyInv, MembershipAgrees, playerVars
    <3>2. Live' = Live
      BY <3>1 DEF Live
    <3>3. Leaders[g] = p
      BY <2>f, <3>1 DEF LeadersLead
    <3>4. /\ DOMAIN parties' = DOMAIN parties
          /\ \A h \in DOMAIN parties : parties'[h].leader = parties[h].leader
      BY <2>t, <3>1
    <3>5. Leaders' = Leaders
      BY <2>s, <3>1, <3>2, <3>4
    <3> QED
      BY <3>1, <3>2, <3>3, <3>5 DEF Roster!Next, Roster!Admit, Live
  <2> QED
    BY <2>1, <2>2, <2>3, <2>4, <2>5, <2>6, <2>7
       DEF Next, PlayerRefused, OnUpdate, OnPartyInvite, OnPartyKick, CanKick, OnPartyLeave,
           playerVars, partyVars
<1> QED
  BY <1>1, <1>2, PartySafety, PTL DEF Spec, ImplementsRoster, Roster!Spec

---------------------------------------------------------------------------
(* What the clients show: PartyNet *)

Mirror ==
    [inParty : BOOLEAN, isLeader : BOOLEAN, leader : Int, members : Seq(Nat),
     players : SUBSET Nat]

PartyNote ==
    [type : {"PartyJoined", "PartyInfo"}, leader : Nat, isLeader : BOOLEAN, members : Seq(Nat)]

ListNote == [type : {"PlayerList"}, players : SUBSET Nat]

Note == PartyNote \cup ListNote \cup [type : {"PartyLeft"}]

(* A client that shows c shows d once it has read q.                       *)
Way(c, q, d, st) ==
    /\ st \in [1 .. Len(q) + 1 -> Mirror]
    /\ st[1] = c
    /\ st[Len(q) + 1] = d
    /\ \A i \in 1 .. Len(q) : st[i + 1] = AfterMessage(st[i], q[i])

LeadsTo(c, q, d) == \E st : Way(c, q, d, st)

(* What d shows of the party of p, and of the players, is so.              *)
PartyShown(p, d) ==
    /\ d.inParty = InParty(p)
    /\ InParty(p) => /\ d.leader = PartyOf(p).leader
                     /\ d.isLeader = IsLeader(p)
                     /\ d.members = MemberIds(joinedParty[p])

ListShown(p, d) == d.players \subseteq {playerId[q] : q \in Live \ {p}}

(* Every party that p is told of lists p.                                  *)
Own(p, m) ==
    m.type \in {"PartyJoined", "PartyInfo"} =>
        /\ OwnIdIn(p, m.members)
        /\ m.isLeader = (m.leader = playerId[p])

OwnNotes(p) == {m \in Note : Own(p, m)}

OwnShown(p) ==
    client[p].inParty => /\ OwnIdIn(p, client[p].members)
                         /\ client[p].isLeader = (client[p].leader = playerId[p])

NetTypes ==
    /\ online \subseteq Ptr
    /\ toClient \in [Ptr -> Seq(Note)]
    /\ client \in [Ptr -> Mirror]
    /\ \A p \in Ptr \ online : toClient[p] = <<>> /\ ~client[p].inParty

WillAgree ==
    \A p \in online \cap Live :
        \E d : LeadsTo(client[p], toClient[p], d) /\ PartyShown(p, d) /\ ListShown(p, d)

OwnNews ==
    \A p \in online \cap Live : OwnShown(p) /\ toClient[p] \in Seq(OwnNotes(p))

NetInv == PartyInv /\ NetTypes /\ WillAgree /\ OwnNews

---------------------------------------------------------------------------
(* Messages.                                                               *)

LEMMA NoteKinds ==
    ASSUME NEW m \in Note
    PROVE  /\ m.type \in {"PartyJoined", "PartyInfo", "PartyLeft", "PlayerList"}
           /\ m.type \in {"PartyJoined", "PartyInfo"} => m \in PartyNote
           /\ m.type = "PlayerList" => m \in ListNote
BY DEF Note, PartyNote, ListNote

(* A mirror keeps its type, field by field.                                *)
LEMMA MirrorFields ==
    ASSUME NEW c \in Mirror
    PROVE  /\ \A b \in BOOLEAN : [c EXCEPT !.inParty = b] \in Mirror
           /\ \A b \in BOOLEAN : [c EXCEPT !.isLeader = b] \in Mirror
           /\ \A n \in Int : [c EXCEPT !.leader = n] \in Mirror
           /\ \A s \in Seq(Nat) : [c EXCEPT !.members = s] \in Mirror
           /\ \A S \in SUBSET Nat : [c EXCEPT !.players = S] \in Mirror
<1>1. \A b \in BOOLEAN : [c EXCEPT !.inParty = b] \in Mirror
  BY DEF Mirror
<1>2. \A b \in BOOLEAN : [c EXCEPT !.isLeader = b] \in Mirror
  BY DEF Mirror
<1>3. \A n \in Int : [c EXCEPT !.leader = n] \in Mirror
  BY DEF Mirror
<1>4. \A s \in Seq(Nat) : [c EXCEPT !.members = s] \in Mirror
  BY DEF Mirror
<1>5. \A S \in SUBSET Nat : [c EXCEPT !.players = S] \in Mirror
  BY DEF Mirror
<1> QED BY <1>1, <1>2, <1>3, <1>4, <1>5

LEMMA Reading ==
    ASSUME NEW c \in Mirror, NEW m \in Note
    PROVE  /\ AfterMessage(c, m) \in Mirror
           /\ m.type = "PartyJoined" => AfterMessage(c, m) = WithParty(c, m)
           /\ m.type = "PartyInfo" => AfterMessage(c, m) = IF c.inParty THEN WithParty(c, m) ELSE c
           /\ m.type = "PartyLeft" => AfterMessage(c, m) = DestroyParty(c)
           /\ m.type = "PlayerList" => AfterMessage(c, m) = [c EXCEPT !.players = m.players]
<1>1. /\ m.type \in {"PartyJoined", "PartyInfo", "PartyLeft", "PlayerList"}
      /\ m.type \in {"PartyJoined", "PartyInfo"} => m \in PartyNote
      /\ m.type = "PlayerList" => m \in ListNote
  BY NoteKinds
<1>2. ASSUME m \in PartyNote
      PROVE  WithParty(c, m) \in Mirror
  <2> DEFINE c1 == [c EXCEPT !.inParty = TRUE]
             c2 == [c1 EXCEPT !.isLeader = m.isLeader]
             c3 == [c2 EXCEPT !.leader = m.leader]
             c4 == [c3 EXCEPT !.members = m.members]
  <2>1. m.isLeader \in BOOLEAN /\ m.leader \in Int /\ m.members \in Seq(Nat)
    BY <1>2 DEF PartyNote
  <2>2. WithParty(c, m) = c4
    BY DEF WithParty
  <2> HIDE DEF c4
  <2>3. c3 \in Mirror => c4 \in Mirror
    BY <2>1, MirrorFields DEF c4
  <2> HIDE DEF c3
  <2>4. c2 \in Mirror => c3 \in Mirror
    BY <2>1, MirrorFields DEF c3
  <2> HIDE DEF c2
  <2>5. c1 \in Mirror => c2 \in Mirror
    BY <2>1, MirrorFields DEF c2
  <2>6. c1 \in Mirror
    BY MirrorFields
  <2> QED BY <2>2, <2>3, <2>4, <2>5, <2>6
<1>3. DestroyParty(c) \in Mirror
  <2> DEFINE c1 == [c EXCEPT !.inParty = FALSE]
             c2 == [c1 EXCEPT !.isLeader = FALSE]
             c3 == [c2 EXCEPT !.leader = -1]
             c4 == [c3 EXCEPT !.members = <<>>]
  <2>2. DestroyParty(c) = c4
    BY DEF DestroyParty
  <2> HIDE DEF c4
  <2>3. c3 \in Mirror => c4 \in Mirror
    BY MirrorFields, EmptySeq DEF c4
  <2> HIDE DEF c3
  <2>1. -1 \in Int
    OBVIOUS
  <2>4. c2 \in Mirror => c3 \in Mirror
    BY <2>1, MirrorFields DEF c3
  <2> HIDE DEF c2
  <2>5. c1 \in Mirror => c2 \in Mirror
    BY MirrorFields DEF c2
  <2>6. c1 \in Mirror
    BY MirrorFields
  <2> QED BY <2>2, <2>3, <2>4, <2>5, <2>6
<1>4. m \in ListNote => [c EXCEPT !.players = m.players] \in Mirror
  BY DEF ListNote, Mirror
<1>5. /\ m.type = "PartyJoined" => AfterMessage(c, m) = WithParty(c, m)
      /\ m.type = "PartyInfo" => AfterMessage(c, m) = IF c.inParty THEN WithParty(c, m) ELSE c
      /\ m.type = "PartyLeft" => AfterMessage(c, m) = DestroyParty(c)
      /\ m.type = "PlayerList" => AfterMessage(c, m) = [c EXCEPT !.players = m.players]
  BY DEF AfterMessage
<1> QED BY <1>1, <1>2, <1>3, <1>4, <1>5

(* What the three ways to change a mirror change.                          *)
LEMMA Changing ==
    ASSUME NEW c \in Mirror
    PROVE  /\ \A m \in PartyNote :
                 LET d == WithParty(c, m)
                 IN  /\ d.inParty = TRUE /\ d.isLeader = m.isLeader /\ d.leader = m.leader
                     /\ d.members = m.members /\ d.players = c.players
           /\ DestroyParty(c).inParty = FALSE /\ DestroyParty(c).players = c.players
           /\ \A S : LET d == [c EXCEPT !.players = S]
                     IN  /\ d.inParty = c.inParty /\ d.isLeader = c.isLeader
                         /\ d.leader = c.leader /\ d.members = c.members /\ d.players = S
BY DEF Mirror, WithParty, DestroyParty, PartyNote

---------------------------------------------------------------------------
(* Ways.                                                                   *)

LEMMA NoWay ==
    ASSUME NEW c \in Mirror
    PROVE  LeadsTo(c, <<>>, c) /\ \A d : LeadsTo(c, <<>>, d) => d = c
<1>1. Way(c, <<>>, c, [i \in 1 .. 1 |-> c])
  BY DEF Way
<1>2. \A d, st : Way(c, <<>>, d, st) => d = c
  BY DEF Way
<1> QED BY <1>1, <1>2 DEF LeadsTo

LEMMA OneStep ==
    ASSUME NEW c \in Mirror, NEW m \in Note
    PROVE  LeadsTo(c, <<m>>, AfterMessage(c, m))
<1> DEFINE d == AfterMessage(c, m)
           st == [i \in 1 .. 2 |-> IF i = 1 THEN c ELSE d]
<1>1. d \in Mirror
  BY Reading
<1>2. st \in [1 .. 2 -> Mirror] /\ st[1] = c /\ st[2] = AfterMessage(st[1], m)
  BY <1>1
<1>3. Len(<<m>>) = 1 /\ <<m>>[1] = m
  OBVIOUS
<1>4. Way(c, <<m>>, d, st)
  <2> HIDE DEF d, st
  <2>1. st[2] = d
    BY <1>2 DEF d
  <2>2. \A i \in 1 .. 1 : st[i + 1] = AfterMessage(st[i], <<m>>[i])
    <3> TAKE i \in 1 .. 1
    <3>1. i = 1 /\ i + 1 = 2
      OBVIOUS
    <3> QED BY <1>2, <1>3, <3>1
  <2>3. 1 + 1 = 2
    OBVIOUS
  <2> QED BY <1>2, <1>3, <2>1, <2>2, <2>3, Zenon DEF Way
<1> QED BY <1>4 DEF LeadsTo

LEMMA WayOn ==
    ASSUME NEW c, NEW d, NEW e, NEW q \in Seq(Note), NEW r \in Seq(Note),
           LeadsTo(c, q, d), LeadsTo(d, r, e)
    PROVE  LeadsTo(c, q \o r, e)
<1> DEFINE m == Len(q)
           n == Len(r)
<1>1. PICK s : Way(c, q, d, s)
  BY DEF LeadsTo
<1>2. PICK t : Way(d, r, e, t)
  BY DEF LeadsTo
<1>3. /\ m \in Nat /\ n \in Nat /\ q \o r \in Seq(Note) /\ Len(q \o r) = m + n
      /\ \A i \in 1 .. m + n : (q \o r)[i] = IF i <= m THEN q[i] ELSE r[i - m]
  BY ConcatProperties
<1>4. /\ s \in [1 .. m + 1 -> Mirror] /\ s[1] = c /\ s[m + 1] = d
      /\ \A i \in 1 .. m : s[i + 1] = AfterMessage(s[i], q[i])
      /\ t \in [1 .. n + 1 -> Mirror] /\ t[1] = d /\ t[n + 1] = e
      /\ \A i \in 1 .. n : t[i + 1] = AfterMessage(t[i], r[i])
  BY <1>1, <1>2 DEF Way
<1> HIDE DEF m, n
<1> DEFINE st == [i \in 1 .. m + n + 1 |-> IF i <= m + 1 THEN s[i] ELSE t[i - m]]
<1>5. st \in [1 .. m + n + 1 -> Mirror]
  <2>1. \A i \in 1 .. m + n + 1 : IF i <= m + 1 THEN i \in 1 .. m + 1 ELSE i - m \in 1 .. n + 1
    BY <1>3
  <2> QED BY <1>4, <2>1
<1>9. /\ \A i \in 1 .. m + n + 1 : i <= m + 1 => st[i] = s[i]
      /\ \A i \in 1 .. m + n + 1 : ~(i <= m + 1) => st[i] = t[i - m]
  OBVIOUS
<1>6. st[1] = c /\ st[m + n + 1] = e
  <2>1. 1 \in 1 .. m + n + 1 /\ 1 <= m + 1 /\ m + n + 1 \in 1 .. m + n + 1
    BY <1>3
  <2>2. st[1] = c
    BY <1>4, <2>1
  <2>3. CASE n = 0
    BY <1>3, <1>4, <2>1, <2>3
  <2>4. CASE n # 0
    <3>1. ~(m + n + 1 <= m + 1) /\ m + n + 1 - m = n + 1
      BY <1>3, <2>4
    <3> DEFINE k == m + n + 1
    <3> HIDE DEF st
    <3>2. k \in 1 .. m + n + 1 /\ ~(k <= m + 1) /\ k - m = n + 1
      BY <1>3, <2>1, <3>1
    <3>3. st[k] = e
      <4> HIDE DEF k
      <4>1. st[k] = t[k - m]
        BY <1>9, <3>2
      <4> QED BY <1>4, <3>2, <4>1
    <3> QED BY <2>2, <3>3
  <2> QED BY <2>2, <2>3, <2>4
<1>7. \A i \in 1 .. m + n : st[i + 1] = AfterMessage(st[i], (q \o r)[i])
  <2> TAKE i \in 1 .. m + n
  <2>1. i \in 1 .. m + n + 1 /\ i + 1 \in 1 .. m + n + 1
    BY <1>3
  <2>2. CASE i <= m
    <3>1. i \in 1 .. m /\ i <= m + 1 /\ i + 1 <= m + 1
      BY <1>3, <2>2
    <3>2. st[i] = s[i] /\ st[i + 1] = s[i + 1]
      BY <2>1, <3>1
    <3>3. (q \o r)[i] = q[i]
      BY <1>3, <2>2
    <3> QED BY <1>4, <3>1, <3>2, <3>3
  <2>3. CASE i > m
    <3>1. i - m \in 1 .. n /\ ~(i + 1 <= m + 1) /\ i + 1 - m = (i - m) + 1
      BY <1>3, <2>3
    <3> DEFINE k == i + 1
    <3> HIDE DEF st
    <3>6. k \in 1 .. m + n + 1 /\ ~(k <= m + 1) /\ k - m = (i - m) + 1
      BY <1>3, <2>1, <3>1
    <3>5. st[k] = t[(i - m) + 1]
      <4> HIDE DEF k
      <4>1. st[k] = t[k - m]
        BY <1>9, <3>6
      <4> QED BY <3>6, <4>1
    <3>2. st[i + 1] = t[(i - m) + 1]
      BY <3>5
    <3> USE DEF st
    <3>3. st[i] = t[i - m]
      <4>1. CASE i = m + 1
        <5>1. st[i] = s[m + 1] /\ i - m = 1
          BY <1>3, <2>1, <4>1
        <5> QED BY <1>4, <5>1
      <4>2. CASE i # m + 1
        <5>1. ~(i <= m + 1)
          BY <1>3, <2>3, <4>2
        <5> QED BY <2>1, <5>1
      <4> QED BY <4>1, <4>2
    <3>4. (q \o r)[i] = r[i - m]
      BY <1>3, <2>3
    <3> QED BY <1>4, <3>1, <3>2, <3>3, <3>4
  <2> QED BY <1>3, <2>2, <2>3
<1>8. Way(c, q \o r, e, st)
  <2> HIDE DEF st
  <2> QED BY <1>3, <1>5, <1>6, <1>7 DEF Way
<1> QED BY <1>8 DEF LeadsTo

LEMMA WayLeft ==
    ASSUME NEW c, NEW d, NEW q \in Seq(Note), q # <<>>, LeadsTo(c, q, d)
    PROVE  /\ LeadsTo(AfterMessage(c, Head(q)), Tail(q), d)
           /\ Head(q) \in Note /\ Tail(q) \in Seq(Note)
<1> DEFINE n == Len(q)
           r == Tail(q)
<1>1. PICK s : Way(c, q, d, s)
  BY DEF LeadsTo
<1>2. /\ Head(q) \in Note /\ r \in Seq(Note) /\ Head(q) = q[1]
      /\ n \in Nat \ {0} /\ Len(r) = n - 1
      /\ \A i \in 1 .. n - 1 : r[i] = q[i + 1]
  BY HeadTailProperties, EmptySeq
<1>3. /\ s \in [1 .. n + 1 -> Mirror] /\ s[1] = c /\ s[n + 1] = d
      /\ \A i \in 1 .. n : s[i + 1] = AfterMessage(s[i], q[i])
  BY <1>1 DEF Way
<1> HIDE DEF n, r
<1> DEFINE st == [i \in 1 .. n |-> s[i + 1]]
<1>4. st \in [1 .. n -> Mirror]
  BY <1>2, <1>3
<1>5. st[1] = AfterMessage(c, Head(q)) /\ st[n] = d
  BY <1>2, <1>3
<1>6. \A i \in 1 .. n - 1 : st[i + 1] = AfterMessage(st[i], r[i])
  <2> TAKE i \in 1 .. n - 1
  <2>1. i \in 1 .. n /\ i + 1 \in 1 .. n
    BY <1>2
  <2>2. st[i] = s[i + 1] /\ st[i + 1] = s[(i + 1) + 1]
    BY <2>1
  <2>3. r[i] = q[i + 1]
    BY <1>2
  <2> QED BY <1>3, <2>1, <2>2, <2>3
<1>7. n = Len(r) + 1
  BY <1>2
<1>8. Way(AfterMessage(c, Head(q)), r, d, st)
  <2> HIDE DEF st
  <2>1. Len(r) = n - 1 /\ Len(r) + 1 = n
    BY <1>2
  <2> QED BY <1>4, <1>5, <1>6, <2>1 DEF Way
<1> QED BY <1>2, <1>8 DEF LeadsTo, r

LEMMA WayType ==
    ASSUME NEW c, NEW d, NEW q \in Seq(Note), LeadsTo(c, q, d)
    PROVE  d \in Mirror
<1>1. PICK st : Way(c, q, d, st)
  BY DEF LeadsTo
<1>2. Len(q) + 1 \in 1 .. Len(q) + 1
  BY LenProperties
<1> QED BY <1>1, <1>2 DEF Way

---------------------------------------------------------------------------
(* What is sent is so.                                                     *)

NewsRight ==
    \A p \in Ptr, kind \in {"PartyJoined", "PartyInfo"} :
        InParty(p) =>
            /\ PartyNews(kind, joinedParty[p], p) \in PartyNote
            /\ PartyNews(kind, joinedParty[p], p).type = kind
            /\ Own(p, PartyNews(kind, joinedParty[p], p))
            /\ \A d \in Mirror : PartyShown(p, WithParty(d, PartyNews(kind, joinedParty[p], p)))

(* Message m tells p the party it is in.                                   *)
Tells(p, m) ==
    m \in PartyNote /\ Own(p, m) /\ \A d \in Mirror : PartyShown(p, WithParty(d, m))

InfoRight ==
    \A g, p : p \in Ptr =>
        IF InParty(p) /\ joinedParty[p] = g
        THEN \E m : /\ BroadcastPartyInfo(g)[p] = <<m>>
                    /\ m.type = "PartyInfo"
                    /\ Tells(p, m)
        ELSE BroadcastPartyInfo(g)[p] = <<>>

MembersInfoRight ==
    \A x, p \in Ptr :
        IF InParty(p) /\ joinedParty[p] = joinedParty[x]
        THEN \E m : /\ BroadcastPartyInfo(joinedParty[x])[p] = <<m>>
                    /\ m.type = "PartyInfo"
                    /\ Tells(p, m)
        ELSE BroadcastPartyInfo(joinedParty[x])[p] = <<>>

JoinedRight ==
    \A p \in Ptr : InParty(p) =>
        \E m : /\ SendPartyJoinedEvent(p)[p] = <<m>>
               /\ \A q \in Ptr \ {p} : SendPartyJoinedEvent(p)[q] = <<>>
               /\ m.type = "PartyJoined"
               /\ Tells(p, m)

ListRight ==
    \A ignored, p : p \in Ptr =>
        IF p \in Live \ ignored
        THEN \E m \in ListNote : /\ BroadcastPlayerList(ignored)[p] = <<m>>
                                 /\ m.players \subseteq {playerId[q] : q \in Live \ {p}}
        ELSE BroadcastPlayerList(ignored)[p] = <<>>

NewsFacts == InfoRight /\ MembersInfoRight /\ JoinedRight /\ ListRight

LEMMA NewsFactsHold == PartyInv => NewsFacts
<1> SUFFICES ASSUME PartyInv PROVE NewsFacts
  OBVIOUS
<1>0. /\ playerId \in [Ptr -> Nat]
      /\ \A p \in Ptr : InParty(p) => joinedParty[p] \in DOMAIN parties
  BY DEF PartyInv, TypeOK, MembershipAgrees
<1>1. NewsRight
  <2> SUFFICES ASSUME NEW p \in Ptr, NEW kind \in {"PartyJoined", "PartyInfo"}, InParty(p)
               PROVE  /\ PartyNews(kind, joinedParty[p], p) \in PartyNote
                      /\ PartyNews(kind, joinedParty[p], p).type = kind
                      /\ Own(p, PartyNews(kind, joinedParty[p], p))
                      /\ \A d \in Mirror :
                            PartyShown(p, WithParty(d, PartyNews(kind, joinedParty[p], p)))
    BY DEF NewsRight
  <2> DEFINE g == joinedParty[p]
             s == parties[g].members
             ids == MemberIds(g)
             m == PartyNews(kind, g, p)
  <2>1. /\ parties[g].leader \in Nat /\ s \in Seq(Ptr) /\ DOMAIN s = 1 .. Len(s)
        /\ ToSet(s) = {q \in Ptr : joinedParty[q] = g}
    BY <1>0, PartyMembers
  <2>2. ids = [i \in 1 .. Len(s) |-> playerId[s[i]]] /\ Len(s) \in Nat
    BY <2>1 DEF MemberIds
  <2>3. ids \in Seq(Nat) /\ DOMAIN ids = 1 .. Len(s)
    BY <1>0, <2>1, <2>2
  <2>4. PICK i \in 1 .. Len(s) : s[i] = p
    BY <2>1 DEF ToSet
  <2>5. OwnIdIn(p, ids)
    BY <2>2, <2>3, <2>4 DEF OwnIdIn, ToSet
  <2>6. m = [type |-> kind, leader |-> parties[g].leader,
             isLeader |-> parties[g].leader = playerId[p], members |-> ids]
    BY DEF PartyNews
  <2> HIDE DEF ids, m, s
  <2>7. /\ m.type = kind /\ m.leader = parties[g].leader /\ m.members = ids
        /\ m.isLeader = (parties[g].leader = playerId[p])
    BY <2>6
  <2>8. m \in PartyNote
    BY <2>1, <2>3, <2>6 DEF PartyNote
  <2>9. Own(p, m)
    BY <2>5, <2>7 DEF Own
  <2>10. ASSUME NEW d \in Mirror
         PROVE  PartyShown(p, WithParty(d, m))
    <3>1. LET e == WithParty(d, m)
          IN  e.inParty = TRUE /\ e.isLeader = m.isLeader /\ e.leader = m.leader
              /\ e.members = m.members
      BY <2>8, Changing
    <3> QED BY <2>7, <3>1 DEF PartyShown, PartyOf, IsLeader, ids
  <2> QED BY <2>7, <2>8, <2>9, <2>10 DEF m
<1>2. InfoRight
  <2> SUFFICES ASSUME NEW g, NEW p \in Ptr
               PROVE  IF InParty(p) /\ joinedParty[p] = g
                      THEN \E m : /\ BroadcastPartyInfo(g)[p] = <<m>>
                                  /\ m.type = "PartyInfo"
                                  /\ Tells(p, m)
                      ELSE BroadcastPartyInfo(g)[p] = <<>>
    BY DEF InfoRight
  <2>1. g \in DOMAIN parties =>
           /\ g # NoParty
           /\ ToSet(parties[g].members) = {q \in Ptr : joinedParty[q] = g}
    BY PartyMembers
  <2>2. (g \in DOMAIN parties /\ p \in ToSet(parties[g].members))
           <=> (InParty(p) /\ joinedParty[p] = g)
    BY <1>0, <2>1 DEF InParty
  <2> DEFINE m == PartyNews("PartyInfo", g, p)
  <2>3. BroadcastPartyInfo(g)[p] =
           IF InParty(p) /\ joinedParty[p] = g THEN <<m>> ELSE <<>>
    BY <2>2 DEF BroadcastPartyInfo
  <2>4. InParty(p) /\ joinedParty[p] = g => m.type = "PartyInfo" /\ Tells(p, m)
    BY <1>1 DEF NewsRight, Tells
  <2> HIDE DEF m
  <2> QED BY <2>3, <2>4
<1>4. JoinedRight
  <2> SUFFICES ASSUME NEW p \in Ptr, InParty(p)
               PROVE  \E m : /\ SendPartyJoinedEvent(p)[p] = <<m>>
                             /\ \A q \in Ptr \ {p} : SendPartyJoinedEvent(p)[q] = <<>>
                             /\ m.type = "PartyJoined"
                             /\ Tells(p, m)
    BY DEF JoinedRight
  <2> DEFINE m == PartyNews("PartyJoined", joinedParty[p], p)
  <2>1. m.type = "PartyJoined" /\ Tells(p, m)
    BY <1>1 DEF NewsRight, Tells
  <2>2. SendPartyJoinedEvent(p) = To(p, m)
    BY DEF SendPartyJoinedEvent
  <2> HIDE DEF m
  <2>3. To(p, m)[p] = <<m>> /\ \A q \in Ptr \ {p} : To(p, m)[q] = <<>>
    BY DEF To, Nobody
  <2> QED BY <2>1, <2>2, <2>3
<1>3. ListRight
  <2> SUFFICES ASSUME NEW ignored, NEW p \in Ptr
               PROVE  IF p \in Live \ ignored
                      THEN \E m \in ListNote :
                              /\ BroadcastPlayerList(ignored)[p] = <<m>>
                              /\ m.players \subseteq {playerId[q] : q \in Live \ {p}}
                      ELSE BroadcastPlayerList(ignored)[p] = <<>>
    BY DEF ListRight
  <2> DEFINE S == {playerId[q] : q \in Live \ ({p} \cup ignored)}
             m == [type |-> "PlayerList", players |-> S]
  <2>1. S \subseteq Nat /\ S \subseteq {playerId[q] : q \in Live \ {p}}
    BY <1>0 DEF Live
  <2>2. BroadcastPlayerList(ignored)[p] = IF p \in Live \ ignored THEN <<m>> ELSE <<>>
    BY DEF BroadcastPlayerList
  <2> HIDE DEF S
  <2>3. m \in ListNote /\ m.players = S
    BY <2>1 DEF ListNote
  <2> QED BY <2>1, <2>2, <2>3
<1>5. MembersInfoRight
  BY <1>2 DEF InfoRight, MembersInfoRight
<1> QED BY <1>2, <1>3, <1>4, <1>5 DEF NewsFacts

LEMMA NewsFactsNext == PartyInv' => NewsFacts'
BY NewsFactsHold, PTL

(* A party that nothing happens to is shown as before.                     *)
LEMMA PartyUntouched ==
    ASSUME PartyInv, NEW p \in Ptr, joinedParty'[p] = joinedParty[p],
           InParty(p) =>
              /\ parties'[joinedParty[p]] = parties[joinedParty[p]]
              /\ \A q \in Ptr : joinedParty[q] = joinedParty[p] => playerId'[q] = playerId[q]
    PROVE  \A d : PartyShown(p, d) => PartyShown(p, d)'
<1> DEFINE g == joinedParty[p]
<1>1. InParty(p)' = InParty(p)
  BY DEF InParty
<1>2. ASSUME InParty(p)
      PROVE  /\ PartyOf(p)' = PartyOf(p) /\ IsLeader(p)' = IsLeader(p)
             /\ MemberIds(joinedParty[p])' = MemberIds(joinedParty[p])
  <2>1. /\ g \in DOMAIN parties /\ parties[g].members \in Seq(Ptr)
        /\ DOMAIN parties[g].members = 1 .. Len(parties[g].members)
        /\ ToSet(parties[g].members) = {q \in Ptr : joinedParty[q] = g}
    BY <1>2, PartyMembers DEF PartyInv, MembershipAgrees
  <2>2. \A i \in DOMAIN parties[g].members :
           playerId'[parties[g].members[i]] = playerId[parties[g].members[i]]
    BY <1>2, <2>1 DEF ToSet
  <2>3. PartyOf(p)' = PartyOf(p)
    BY <1>2 DEF PartyOf
  <2>4. IsLeader(p)' = IsLeader(p)
    BY <1>1, <2>3 DEF IsLeader
  <2>5. MemberIds(joinedParty[p])' = MemberIds(joinedParty[p])
    BY <1>2, <2>2 DEF MemberIds
  <2> QED BY <2>3, <2>4, <2>5
<1> QED BY <1>1, <1>2 DEF PartyShown

(* Messages s bring p from what was so to what is so, and tell it of no    *)
(* party without it.                                                       *)
Brings(p, s) ==
    /\ s \in Seq(OwnNotes(p)')
    /\ \A d \in Mirror : PartyShown(p, d) /\ ListShown(p, d) =>
          \E e : LeadsTo(d, s, e) /\ PartyShown(p, e)' /\ ListShown(p, e)'

(* One message, or none.                                                   *)
LEMMA OneNote ==
    ASSUME NEW S, NEW m \in S
    PROVE  <<m>> \in Seq(S) /\ <<>> \in Seq(S) /\ <<m>> \o <<>> = <<m>> /\ <<>> \o <<m>> = <<m>>
           /\ <<>> \o <<>> = <<>>
OBVIOUS

(* A step that takes q out of his party and sends the news of it.          *)
Removal(q, g, news) ==
    /\ g = joinedParty[q]
    /\ parties' = PartiesWithout(q)
    /\ joinedParty' = [joinedParty EXCEPT ![q] = NoParty]
    /\ \A p \in Ptr : p # q => playerId'[p] = playerId[p]
    /\ news = RemovalNews(g, q)'

(* RemovalNews brings a client to the party without the player who goes.   *)
LEMMA RemovalShown ==
    ASSUME PartyInv, PartyInv', NEW q \in Ptr, NEW g, NEW news, Removal(q, g, news),
           NEW p \in Ptr
    PROVE  /\ news[p] \in Seq(OwnNotes(p)')
           /\ news[p] \in Seq(Note)
           /\ \A d \in Mirror : PartyShown(p, d) =>
                 \E e \in Mirror : /\ LeadsTo(d, news[p], e)
                                   /\ PartyShown(p, e)'
                                   /\ e.players = d.players
<1>5. /\ g = joinedParty[q]
      /\ parties' = PartiesWithout(q)
      /\ joinedParty' = [joinedParty EXCEPT ![q] = NoParty]
      /\ \A r \in Ptr : r # q => playerId'[r] = playerId[r]
      /\ news = RemovalNews(g, q)'
  BY DEF Removal
<1>1. NewsFacts'
  BY NewsFactsNext
<1>2. joinedParty \in [Ptr -> PartyIds \cup {NoParty}]
  BY DEF PartyInv, TypeOK
<1>3. CASE g = NoParty
  <2>1. news[p] = <<>>
    BY <1>5, <1>3 DEF RemovalNews, Nobody
  <2>2. parties' = parties /\ joinedParty' = joinedParty
    BY <1>5, <1>2, <1>3 DEF PartiesWithout, InParty
  <2>3. InParty(p) => \A r \in Ptr : joinedParty[r] = joinedParty[p] => playerId'[r] = playerId[r]
    BY <1>5, <1>3 DEF InParty
  <2>4. \A d : PartyShown(p, d) => PartyShown(p, d)'
    BY <2>2, <2>3, PartyUntouched
  <2> QED BY <2>1, <2>4, NoWay
<1>4. CASE g # NoParty
  <2> DEFINE a == (BroadcastPartyInfo(g)')[p]
             left == [type |-> "PartyLeft"]
             b == To(q, left)[p]
  <2>1. news[p] = a \o b
    BY <1>5, <1>4 DEF RemovalNews, Then
  <2>2. left \in OwnNotes(p)' /\ left \in Note /\ left.type = "PartyLeft"
    BY DEF OwnNotes, Own, Note
  <2>3. b = IF p = q THEN <<left>> ELSE <<>>
    BY DEF To, Nobody
  <2>4. IF InParty(p)' /\ joinedParty'[p] = g
        THEN \E m : a = <<m>> /\ m.type = "PartyInfo" /\ Tells(p, m)'
        ELSE a = <<>>
    BY <1>1 DEF NewsFacts, InfoRight
  <2> HIDE DEF a, b, left
  <2>5. CASE p = q
    <3>1. ~InParty(p)'
      BY <1>5, <1>2, <2>5 DEF InParty
    <3>2. a = <<>> /\ b = <<left>>
      BY <2>3, <2>4, <2>5, <3>1
    <3>3. /\ news[p] = <<left>>
          /\ news[p] \in Seq(OwnNotes(p)') /\ news[p] \in Seq(Note)
      BY <2>1, <2>2, <3>2, OneNote
    <3>4. ASSUME NEW d \in Mirror
          PROVE  \E e \in Mirror : LeadsTo(d, news[p], e) /\ PartyShown(p, e)'
                                   /\ e.players = d.players
      <4> DEFINE e == AfterMessage(d, left)
      <4>1. LeadsTo(d, news[p], e)
        BY <2>2, <3>3, OneStep
      <4>2. e \in Mirror /\ e = DestroyParty(d)
        BY <2>2, Reading
      <4>3. e.inParty = FALSE /\ e.players = d.players
        BY <4>2, Changing
      <4> HIDE DEF e
      <4>4. PartyShown(p, e)'
        <5>1. InParty(p)' = FALSE
          BY <3>1 DEF InParty
        <5> QED BY <3>1, <4>3, <5>1, Zenon DEF PartyShown
      <4> QED BY <4>1, <4>2, <4>3, <4>4
    <3> QED BY <3>3, <3>4
  <2>6. CASE p # q /\ joinedParty[p] = g
    <3>1. InParty(p) /\ InParty(p)' /\ joinedParty'[p] = g
      BY <1>5, <1>2, <1>4, <2>6 DEF InParty
    <3>7. PICK m : a = <<m>> /\ m.type = "PartyInfo" /\ Tells(p, m)'
      BY <2>4, <3>1
    <3>2. /\ m \in PartyNote /\ m.type = "PartyInfo" /\ Own(p, m)'
          /\ \A d \in Mirror : PartyShown(p, WithParty(d, m))'
      BY <3>7 DEF Tells
    <3>3. m \in Note /\ m \in OwnNotes(p)'
      BY <3>2 DEF OwnNotes, Note
    <3>4. a = <<m>> /\ b = <<>>
      BY <2>3, <2>6, <3>7
    <3>5. /\ news[p] = <<m>>
          /\ news[p] \in Seq(OwnNotes(p)') /\ news[p] \in Seq(Note)
      BY <2>1, <3>3, <3>4, OneNote
    <3>6. ASSUME NEW d \in Mirror, PartyShown(p, d)
          PROVE  \E e \in Mirror : LeadsTo(d, news[p], e) /\ PartyShown(p, e)'
                                   /\ e.players = d.players
      <4>0. d.inParty
        BY <3>1, <3>6 DEF PartyShown
      <4>1. LeadsTo(d, news[p], AfterMessage(d, m))
        BY <3>3, <3>5, OneStep
      <4>2. AfterMessage(d, m) \in Mirror /\ AfterMessage(d, m) = WithParty(d, m)
        BY <3>2, <3>3, <4>0, Reading
      <4>3. WithParty(d, m).players = d.players
        BY <3>2, Changing
      <4> QED BY <3>2, <4>1, <4>2, <4>3
    <3> QED BY <3>5, <3>6
  <2>7. CASE p # q /\ joinedParty[p] # g
    <3>1. joinedParty'[p] = joinedParty[p]
      BY <1>5, <1>2, <2>7
    <3>2. a = <<>> /\ b = <<>>
      BY <2>3, <2>4, <2>7, <3>1
    <3>3. news[p] = <<>>
      BY <2>1, <2>2, <3>2, OneNote
    <3>4. InParty(p) => /\ parties'[joinedParty[p]] = parties[joinedParty[p]]
                        /\ \A r \in Ptr : joinedParty[r] = joinedParty[p] =>
                              playerId'[r] = playerId[r]
      <4> SUFFICES ASSUME InParty(p)
                   PROVE  parties'[joinedParty[p]] = parties[joinedParty[p]]
        BY <1>5, <2>7
      <4>1. joinedParty[p] \in DOMAIN parties
        BY DEF PartyInv, MembershipAgrees
      <4> QED BY <1>4, <1>5, <2>7, <4>1 DEF PartiesWithout, PartyOf, InParty
    <3>5. \A d : PartyShown(p, d) => PartyShown(p, d)'
      BY <3>1, <3>4, PartyUntouched
    <3> QED BY <3>3, <3>5, NoWay
  <2> QED BY <2>5, <2>6, <2>7
<1> QED BY <1>3, <1>4

(* BroadcastPlayerList brings those it is sent to to the list.             *)
LEMMA ListBrings ==
    ASSUME PartyInv', NEW ignored, NEW s, NEW p \in Ptr,
           s = (BroadcastPlayerList(ignored)')[p]
    PROVE  /\ s \in Seq(OwnNotes(p)')
           /\ s \in Seq(Note)
           /\ \A d \in Mirror : PartyShown(p, d)' =>
                 \E e \in Mirror : /\ LeadsTo(d, s, e)
                                   /\ PartyShown(p, e)'
                                   /\ IF p \in Live' \ ignored THEN ListShown(p, e)' ELSE e = d
<1>1. NewsFacts'
  BY NewsFactsNext
<1>2. CASE p \in Live' \ ignored
  <2>1. PICK m \in ListNote : s = <<m>> /\ m.players \subseteq {playerId[q] : q \in Live \ {p}}'
    BY <1>1, <1>2 DEF NewsFacts, ListRight
  <2>2. m.type = "PlayerList" /\ m \in Note
    BY DEF ListNote, Note
  <2>3. m \in OwnNotes(p)'
    BY <2>2 DEF OwnNotes, Own
  <2>4. s \in Seq(OwnNotes(p)') /\ s \in Seq(Note)
    BY <2>1, <2>2, <2>3, OneNote
  <2>5. ASSUME NEW d \in Mirror, PartyShown(p, d)'
        PROVE  \E e \in Mirror : LeadsTo(d, s, e) /\ PartyShown(p, e)' /\ ListShown(p, e)'
    <3> DEFINE e == AfterMessage(d, m)
    <3>1. LeadsTo(d, s, e)
      BY <2>1, <2>2, OneStep
    <3>2. e \in Mirror /\ e = [d EXCEPT !.players = m.players]
      BY <2>2, Reading
    <3>3. /\ e.inParty = d.inParty /\ e.isLeader = d.isLeader
          /\ e.leader = d.leader /\ e.members = d.members /\ e.players = m.players
      BY <3>2, Changing
    <3> HIDE DEF e
    <3>4. PartyShown(p, e)'
      BY <2>5, <3>3 DEF PartyShown
    <3>5. ListShown(p, e)'
      BY <2>1, <3>3 DEF ListShown
    <3> QED BY <3>1, <3>2, <3>4, <3>5
  <2> QED BY <1>2, <2>4, <2>5
<1>3. CASE p \notin Live' \ ignored
  <2>1. s = <<>>
    BY <1>1, <1>3 DEF NewsFacts, ListRight
  <2> QED BY <1>3, <2>1, NoWay
<1> QED BY <1>2, <1>3

(* BroadcastPartyInfo brings the members of a party to the party.          *)
LEMMA InfoBrings ==
    ASSUME PartyInv', NEW x \in Ptr, NEW s, NEW p \in Ptr,
           s = (BroadcastPartyInfo(joinedParty[x])')[p]
    PROVE  /\ s \in Seq(OwnNotes(p)')
           /\ s \in Seq(Note)
           /\ \A d \in Mirror :
                 (IF InParty(p)' /\ joinedParty'[p] = joinedParty'[x]
                  THEN d.inParty ELSE PartyShown(p, d)')
                 => \E e \in Mirror : /\ LeadsTo(d, s, e)
                                      /\ PartyShown(p, e)'
                                      /\ e.players = d.players
<1>1. NewsFacts'
  BY NewsFactsNext
<1>2. IF InParty(p)' /\ joinedParty'[p] = joinedParty'[x]
      THEN \E m : s = <<m>> /\ m.type = "PartyInfo" /\ Tells(p, m)'
      ELSE s = <<>>
  BY <1>1 DEF NewsFacts, MembersInfoRight
<1>3. CASE InParty(p)' /\ joinedParty'[p] = joinedParty'[x]
  <2>1. PICK m : s = <<m>> /\ m.type = "PartyInfo" /\ Tells(p, m)'
    BY <1>2, <1>3
  <2>2. /\ m \in PartyNote /\ m.type = "PartyInfo" /\ Own(p, m)'
        /\ \A d \in Mirror : PartyShown(p, WithParty(d, m))'
    BY <2>1 DEF Tells
  <2>3. m \in Note /\ m \in OwnNotes(p)'
    BY <2>2 DEF OwnNotes, Note
  <2>4. s \in Seq(OwnNotes(p)') /\ s \in Seq(Note)
    BY <2>1, <2>3, OneNote
  <2>5. ASSUME NEW d \in Mirror, d.inParty
        PROVE  \E e \in Mirror : LeadsTo(d, s, e) /\ PartyShown(p, e)' /\ e.players = d.players
    <3>1. LeadsTo(d, s, AfterMessage(d, m))
      BY <2>1, <2>3, OneStep
    <3>2. AfterMessage(d, m) \in Mirror /\ AfterMessage(d, m) = WithParty(d, m)
      BY <2>2, <2>3, <2>5, Reading
    <3>3. WithParty(d, m).players = d.players
      BY <2>2, Changing
    <3> QED BY <2>2, <3>1, <3>2, <3>3
  <2> QED BY <1>3, <2>4, <2>5
<1>4. CASE ~(InParty(p)' /\ joinedParty'[p] = joinedParty'[x])
  <2>1. s = <<>>
    BY <1>2, <1>4
  <2> QED BY <1>4, <2>1, NoWay
<1> QED BY <1>3, <1>4

(* SendPartyJoinedEvent brings the player to his party.                    *)
LEMMA JoinedBrings ==
    ASSUME PartyInv', NEW q \in Ptr, InParty(q)', NEW s, NEW p \in Ptr,
           s = (SendPartyJoinedEvent(q)')[p]
    PROVE  /\ s \in Seq(OwnNotes(p)')
           /\ s \in Seq(Note)
           /\ p # q => s = <<>>
           /\ p = q => \A d \in Mirror :
                 \E e \in Mirror : /\ LeadsTo(d, s, e)
                                   /\ PartyShown(p, e)'
                                   /\ e.players = d.players
<1>1. NewsFacts'
  BY NewsFactsNext
<1>2. \E m : /\ IF p = q THEN s = <<m>> ELSE s = <<>>
             /\ m.type = "PartyJoined" /\ Tells(q, m)'
  BY <1>1 DEF NewsFacts, JoinedRight
<1>3. CASE p = q
  <2>1. PICK m : s = <<m>> /\ m.type = "PartyJoined" /\ Tells(p, m)'
    BY <1>2, <1>3
  <2>2. /\ m \in PartyNote /\ m.type = "PartyJoined" /\ Own(p, m)'
        /\ \A d \in Mirror : PartyShown(p, WithParty(d, m))'
    BY <2>1 DEF Tells
  <2>3. m \in Note /\ m \in OwnNotes(p)'
    BY <2>2 DEF OwnNotes, Note
  <2>4. s \in Seq(OwnNotes(p)') /\ s \in Seq(Note)
    BY <2>1, <2>3, OneNote
  <2>5. ASSUME NEW d \in Mirror
        PROVE  \E e \in Mirror : LeadsTo(d, s, e) /\ PartyShown(p, e)' /\ e.players = d.players
    <3>1. LeadsTo(d, s, AfterMessage(d, m))
      BY <2>1, <2>3, OneStep
    <3>2. AfterMessage(d, m) \in Mirror /\ AfterMessage(d, m) = WithParty(d, m)
      BY <2>2, <2>3, Reading
    <3>3. WithParty(d, m).players = d.players
      BY <2>2, Changing
    <3> QED BY <2>2, <3>1, <3>2, <3>3
  <2> QED BY <1>3, <2>4, <2>5
<1>4. CASE p # q
  <2>1. s = <<>>
    BY <1>2, <1>4
  <2> QED BY <1>4, <2>1
<1> QED BY <1>3, <1>4

---------------------------------------------------------------------------
(* Steps of the server.                                                    *)

LEMMA PartyStep == NetInv /\ [NetNext]_vars => [Next]_partyVars /\ PartyInv'
<1> SUFFICES ASSUME NetInv, [NetNext]_vars PROVE [Next]_partyVars
  BY NextPartyInv DEF NetInv
<1>1. CASE UNCHANGED vars
  BY <1>1 DEF vars
<1>2. CASE NetNext
  BY <1>2 DEF NetNext, ServerQuiet, Deliver, OnDisconnected, ServerJoin, ServerLeave,
     ServerCreate, ServerLeaveParty, ServerChangeLeader, ServerKick, ServerAccept, Next
<1> QED BY <1>1, <1>2

(* A step of the server keeps the invariant if what it sends to a client   *)
(* brings the client to what is then so.                                   *)
LEMMA ServerSends ==
    ASSUME NetInv, PartyInv', NEW news,
           online \subseteq online', online' \subseteq Ptr, client' = client,
           toClient' = [p \in Ptr |-> IF p \in online' THEN toClient[p] \o news[p] ELSE <<>>],
           \A p \in Ptr : news[p] \in Seq(Note),
           \A p \in online \cap Live' :
              p \in Live /\ playerId'[p] = playerId[p] /\ Brings(p, news[p]),
           \A p \in (online' \ online) \cap Live' :
              /\ news[p] \in Seq(OwnNotes(p)')
              /\ \E e : LeadsTo(client[p], news[p], e) /\ PartyShown(p, e)' /\ ListShown(p, e)'
    PROVE  NetInv'
<1>1. /\ toClient \in [Ptr -> Seq(Note)] /\ client \in [Ptr -> Mirror]
      /\ \A p \in Ptr \ online : toClient[p] = <<>> /\ ~client[p].inParty
      /\ online \subseteq Ptr
  BY DEF NetInv, NetTypes
<1>2. \A p \in Ptr : toClient'[p] = IF p \in online' THEN toClient[p] \o news[p] ELSE <<>>
  OBVIOUS
<1>3. NetTypes'
  <2>1. \A p \in Ptr : toClient'[p] \in Seq(Note)
    <3> TAKE p \in Ptr
    <3>1. toClient[p] \o news[p] \in Seq(Note)
      BY <1>1, ConcatProperties
    <3>2. <<>> \in Seq(Note)
      BY EmptySeq
    <3> QED BY <1>2, <3>1, <3>2
  <2>2. toClient' \in [Ptr -> Seq(Note)]
    BY <2>1
  <2> QED BY <1>1, <1>2, <2>2 DEF NetTypes
<1>4. \A p \in online' \ online : toClient[p] \o news[p] = news[p]
  BY <1>1, ConcatEmptySeq
<1>5. WillAgree'
  <2> SUFFICES ASSUME NEW p \in Ptr, p \in online', p \in Live'
               PROVE  \E e : /\ LeadsTo(client[p], toClient'[p], e)
                             /\ PartyShown(p, e)' /\ ListShown(p, e)'
    BY DEF WillAgree
  <2>1. CASE p \in online
    <3>1. p \in Live /\ Brings(p, news[p])
      BY <2>1
    <3>2. PICK d : LeadsTo(client[p], toClient[p], d) /\ PartyShown(p, d) /\ ListShown(p, d)
      BY <2>1, <3>1 DEF NetInv, WillAgree
    <3>3. d \in Mirror
      BY <1>1, <3>2, WayType
    <3>4. PICK e : LeadsTo(d, news[p], e) /\ PartyShown(p, e)' /\ ListShown(p, e)'
      BY <3>1, <3>2, <3>3 DEF Brings
    <3>5. LeadsTo(client[p], toClient[p] \o news[p], e)
      BY <1>1, <3>2, <3>4, WayOn
    <3> QED BY <1>2, <3>4, <3>5
  <2>2. CASE p \notin online
    BY <1>2, <1>4, <2>2
  <2> QED BY <2>1, <2>2
<1>6. OwnNews'
  <2> SUFFICES ASSUME NEW p \in Ptr, p \in online', p \in Live'
               PROVE  OwnShown(p)' /\ toClient'[p] \in Seq(OwnNotes(p)')
    BY DEF OwnNews
  <2>1. CASE p \in online
    <3>1. p \in Live /\ playerId'[p] = playerId[p] /\ news[p] \in Seq(OwnNotes(p)')
      BY <2>1 DEF Brings
    <3>2. OwnShown(p) /\ toClient[p] \in Seq(OwnNotes(p))
      BY <2>1, <3>1 DEF NetInv, OwnNews
    <3>3. OwnNotes(p)' = OwnNotes(p)
      BY <3>1 DEF OwnNotes, Own, OwnIdIn
    <3>4. OwnShown(p)'
      BY <3>1, <3>2 DEF OwnShown, OwnIdIn
    <3>5. toClient[p] \o news[p] \in Seq(OwnNotes(p)')
      BY <3>1, <3>2, <3>3, ConcatProperties
    <3> QED BY <1>2, <3>4, <3>5
  <2>2. CASE p \notin online
    <3>1. ~client'[p].inParty
      BY <1>1, <2>2
    <3> QED BY <1>2, <1>4, <2>2, <3>1 DEF OwnShown
  <2> QED BY <2>1, <2>2
<1> QED BY <1>3, <1>5, <1>6 DEF NetInv

LEMMA ThenConcatenates ==
    ASSUME NEW a, NEW b
    PROVE  \A p \in Ptr : Then(a, b)[p] = a[p] \o b[p]
BY DEF Then

(* A list that still names only connected players need not be sent again.  *)
LEMMA ListUntouched ==
    ASSUME NEW p, NEW d, NEW e, ListShown(p, d), e.players = d.players,
           {playerId[q] : q \in Live \ {p}} \subseteq {playerId[q] : q \in Live \ {p}}'
    PROVE  ListShown(p, e)'
BY DEF ListShown

(* What a removal sends, and then the list.                                *)
LEMMA BringsBoth ==
    ASSUME NEW p \in Ptr, NEW a, NEW b, NEW ignored,
           a \in Seq(OwnNotes(p)'), b \in Seq(OwnNotes(p)'), a \in Seq(Note), b \in Seq(Note),
           \A d \in Mirror : PartyShown(p, d) =>
              \E e \in Mirror : LeadsTo(d, a, e) /\ PartyShown(p, e)' /\ e.players = d.players,
           \A d \in Mirror : PartyShown(p, d)' =>
              \E e \in Mirror : /\ LeadsTo(d, b, e)
                                /\ PartyShown(p, e)'
                                /\ IF p \in Live' \ ignored THEN ListShown(p, e)' ELSE e = d,
           p \notin Live' \ ignored =>
              {playerId[q] : q \in Live \ {p}} \subseteq {playerId[q] : q \in Live \ {p}}'
    PROVE  Brings(p, a \o b)
<1>1. a \o b \in Seq(OwnNotes(p)')
  BY ConcatProperties
<1>2. ASSUME NEW d \in Mirror, PartyShown(p, d), ListShown(p, d)
      PROVE  \E e : LeadsTo(d, a \o b, e) /\ PartyShown(p, e)' /\ ListShown(p, e)'
  <2>1. PICK c \in Mirror : LeadsTo(d, a, c) /\ PartyShown(p, c)' /\ c.players = d.players
    BY <1>2
  <2>2. PICK e \in Mirror :
           /\ LeadsTo(c, b, e)
           /\ PartyShown(p, e)'
           /\ IF p \in Live' \ ignored THEN ListShown(p, e)' ELSE e = c
    BY <2>1
  <2>3. LeadsTo(d, a \o b, e)
    BY <2>1, <2>2, WayOn
  <2>4. ListShown(p, e)'
    BY <1>2, <2>1, <2>2, ListUntouched
  <2> QED BY <2>2, <2>3, <2>4
<1> QED BY <1>1, <1>2 DEF Brings

LEMMA JoinKeeps == ASSUME NetInv, NEW p \in Ptr, ServerJoin(p), PartyInv' PROVE NetInv'
<1>1. /\ p \notin online /\ online' = online \cup {p} /\ client' = client
      /\ playerId[p] = 0 /\ playerId' = [playerId EXCEPT ![p] = nextPlayerId]
      /\ joinedParty' = [joinedParty EXCEPT ![p] = NoParty]
      /\ parties' = parties
  BY DEF ServerJoin, PlayerJoin
<1>2. /\ playerId \in [Ptr -> Nat] /\ nextPlayerId \in Nat \ {0}
      /\ joinedParty \in [Ptr -> PartyIds \cup {NoParty}]
      /\ \A r \in Ptr : InParty(r) => r \in Live
      /\ online \subseteq Ptr /\ client \in [Ptr -> Mirror]
      /\ ~client[p].inParty
      /\ PartyInv
  BY <1>1 DEF NetInv, NetTypes, PartyInv, TypeOK, MembersAreLive
<1>3. PICK news : /\ news = BroadcastPlayerList(NoOne)'
                  /\ toClient' = [r \in Ptr |->
                                    IF r \in online' THEN toClient[r] \o news[r] ELSE <<>>]
  BY DEF ServerJoin, Send
<1>4. p \notin Live /\ Live' = Live \cup {p}
  BY <1>1, <1>2 DEF Live
<1>5. \A r \in Ptr :
         /\ news[r] \in Seq(OwnNotes(r)')
         /\ news[r] \in Seq(Note)
         /\ \A d \in Mirror : PartyShown(r, d)' =>
               \E e \in Mirror : /\ LeadsTo(d, news[r], e)
                                 /\ PartyShown(r, e)'
                                 /\ IF r \in Live' \ NoOne THEN ListShown(r, e)' ELSE e = d
  <2> TAKE r \in Ptr
  <2>1. news[r] = (BroadcastPlayerList(NoOne)')[r]
    BY <1>3
  <2> QED BY <2>1, ListBrings
<1>6. ASSUME NEW r \in online \cap Live'
      PROVE  r \in Live /\ playerId'[r] = playerId[r] /\ Brings(r, news[r])
  <2>1. r \in Ptr /\ r # p /\ r \in Live /\ playerId'[r] = playerId[r]
        /\ joinedParty'[r] = joinedParty[r]
    BY <1>1, <1>2, <1>4, <1>6
  <2>2. InParty(r) => \A q \in Ptr : joinedParty[q] = joinedParty[r] => playerId'[q] = playerId[q]
    BY <1>1, <1>2, <1>4 DEF InParty
  <2>3. \A d : PartyShown(r, d) => PartyShown(r, d)'
    BY <1>1, <1>2, <2>1, <2>2, PartyUntouched
  <2>4. \A d \in Mirror : PartyShown(r, d) =>
           \E e : LeadsTo(d, news[r], e) /\ PartyShown(r, e)' /\ ListShown(r, e)'
    BY <1>5, <1>6, <2>1, <2>3 DEF NoOne
  <2> QED BY <1>5, <2>1, <2>4 DEF Brings
<1>7. ASSUME NEW r \in (online' \ online) \cap Live'
      PROVE  /\ news[r] \in Seq(OwnNotes(r)')
             /\ \E e : LeadsTo(client[r], news[r], e) /\ PartyShown(r, e)' /\ ListShown(r, e)'
  <2>1. r = p
    BY <1>1, <1>7
  <2>2. InParty(p)' = FALSE
    BY <1>1, <1>2 DEF InParty
  <2>3. PICK c \in Mirror : c = client[p]
    BY <1>2
  <2>4. c.inParty = FALSE
    BY <1>2, <2>3 DEF Mirror
  <2>5. PartyShown(p, c)'
    <3>1. ~InParty(p)'
      BY <2>2
    <3> QED BY <2>2, <2>4, <3>1, Zenon DEF PartyShown
  <2>6. \E e \in Mirror : /\ LeadsTo(c, news[p], e)
                          /\ PartyShown(p, e)'
                          /\ IF p \in Live' \ NoOne THEN ListShown(p, e)' ELSE e = c
    BY <1>5, <2>5
  <2> QED BY <1>5, <1>7, <2>1, <2>3, <2>6 DEF NoOne
<1>8. online \subseteq online' /\ online' \subseteq Ptr
  BY <1>1, <1>2
<1> QED BY <1>1, <1>3, <1>5, <1>6, <1>7, <1>8, ServerSends

(* What the steps that keep the connections have in common.                *)
LEMMA SendsOnline ==
    ASSUME NetInv, PartyInv', NEW news, UNCHANGED <<online, client>>, Send(news),
           \A p \in Ptr : news[p] \in Seq(Note),
           \A p \in Ptr \cap Live' :
              p \in Live /\ playerId'[p] = playerId[p] /\ Brings(p, news[p])
    PROVE  NetInv'
<1>1. online \subseteq Ptr
  BY DEF NetInv, NetTypes
<1>2. toClient' = [p \in Ptr |-> IF p \in online' THEN toClient[p] \o news[p] ELSE <<>>]
  BY DEF Send
<1> QED BY <1>1, <1>2, ServerSends

LEMMA LeaveKeeps == ASSUME NetInv, NEW p \in Ptr, ServerLeave(p), PartyInv' PROVE NetInv'
<1>1. PICK g, a, b, news :
         /\ g = joinedParty[p] /\ a = RemovalNews(g, p)' /\ b = BroadcastPlayerList({p})'
         /\ news = Then(a, b) /\ Send(news)
  BY DEF ServerLeave
<1>2. /\ parties' = PartiesWithout(p)
      /\ joinedParty' = [joinedParty EXCEPT ![p] = NoParty]
      /\ playerId' = [playerId EXCEPT ![p] = 0]
      /\ UNCHANGED <<online, client>>
  BY DEF ServerLeave, PlayerLeave
<1>3. playerId \in [Ptr -> Nat] /\ PartyInv
  BY DEF NetInv, PartyInv, TypeOK
<1>4. \A r \in Ptr : r # p => playerId'[r] = playerId[r]
  BY <1>2, <1>3
<1>5. \A r \in Ptr :
         /\ a[r] \in Seq(OwnNotes(r)') /\ a[r] \in Seq(Note)
         /\ \A d \in Mirror : PartyShown(r, d) =>
               \E e \in Mirror : LeadsTo(d, a[r], e) /\ PartyShown(r, e)' /\ e.players = d.players
  <2> TAKE r \in Ptr
  <2>1. Removal(p, g, a)
    BY <1>1, <1>2, <1>4 DEF Removal
  <2> QED BY <1>3, <2>1, RemovalShown
<1>6. \A r \in Ptr :
         /\ b[r] \in Seq(OwnNotes(r)') /\ b[r] \in Seq(Note)
         /\ \A d \in Mirror : PartyShown(r, d)' =>
               \E e \in Mirror : /\ LeadsTo(d, b[r], e)
                                 /\ PartyShown(r, e)'
                                 /\ IF r \in Live' \ {p} THEN ListShown(r, e)' ELSE e = d
  <2> TAKE r \in Ptr
  <2>1. b[r] = (BroadcastPlayerList({p})')[r]
    BY <1>1
  <2> QED BY <2>1, ListBrings
<1>7. \A r \in Ptr : news[r] = a[r] \o b[r]
  BY <1>1, ThenConcatenates
<1>8. \A r \in Ptr : news[r] \in Seq(Note)
  <2> TAKE r \in Ptr
  <2>1. a[r] \o b[r] \in Seq(Note)
    BY <1>5, <1>6, ConcatProperties
  <2> QED BY <1>7, <2>1
<1>9. ASSUME NEW r \in Ptr \cap Live'
      PROVE  r \in Live /\ playerId'[r] = playerId[r] /\ Brings(r, news[r])
  <2>1. r # p
    BY <1>2, <1>3, <1>9 DEF Live
  <2>2. playerId'[r] = playerId[r] /\ r \in Live
    BY <1>4, <1>9, <2>1 DEF Live
  <2>3. r \in Live' \ {p}
    BY <1>9, <2>1
  <2>4. Brings(r, a[r] \o b[r])
    BY <1>5, <1>6, <2>3, BringsBoth
  <2> QED BY <1>7, <2>2, <2>4
<1> QED BY <1>1, <1>2, <1>8, <1>9, SendsOnline

LEMMA KickKeeps ==
    ASSUME NetInv, NEW p \in Ptr, NEW q \in Ptr, ServerKick(p, q), PartyInv'
    PROVE  NetInv'
<1>1. PICK g, a, b, news :
         /\ g = joinedParty[q] /\ a = RemovalNews(g, q)' /\ b = BroadcastPlayerList({q})'
         /\ news = Then(a, b) /\ Send(news)
  BY DEF ServerKick
<1>2. /\ parties' = PartiesWithout(q)
      /\ joinedParty' = [joinedParty EXCEPT ![q] = NoParty]
      /\ playerId' = playerId
      /\ UNCHANGED <<online, client>>
  BY DEF ServerKick, OnPartyKick, RemovePlayerFromParty, playerVars
<1>3. PartyInv
  BY DEF NetInv
<1>4. \A r \in Ptr : playerId'[r] = playerId[r]
  BY <1>2
<1>5. \A r \in Ptr :
         /\ a[r] \in Seq(OwnNotes(r)') /\ a[r] \in Seq(Note)
         /\ \A d \in Mirror : PartyShown(r, d) =>
               \E e \in Mirror : LeadsTo(d, a[r], e) /\ PartyShown(r, e)' /\ e.players = d.players
  <2> TAKE r \in Ptr
  <2>1. Removal(q, g, a)
    BY <1>1, <1>2, <1>4 DEF Removal
  <2> QED BY <1>3, <2>1, RemovalShown
<1>6. \A r \in Ptr :
         /\ b[r] \in Seq(OwnNotes(r)') /\ b[r] \in Seq(Note)
         /\ \A d \in Mirror : PartyShown(r, d)' =>
               \E e \in Mirror : /\ LeadsTo(d, b[r], e)
                                 /\ PartyShown(r, e)'
                                 /\ IF r \in Live' \ {q} THEN ListShown(r, e)' ELSE e = d
  <2> TAKE r \in Ptr
  <2>1. b[r] = (BroadcastPlayerList({q})')[r]
    BY <1>1
  <2> QED BY <2>1, ListBrings
<1>7. \A r \in Ptr : news[r] = a[r] \o b[r]
  BY <1>1, ThenConcatenates
<1>8. \A r \in Ptr : news[r] \in Seq(Note)
  <2> TAKE r \in Ptr
  <2>1. a[r] \o b[r] \in Seq(Note)
    BY <1>5, <1>6, ConcatProperties
  <2> QED BY <1>7, <2>1
<1>9. ASSUME NEW r \in Ptr \cap Live'
      PROVE  r \in Live /\ playerId'[r] = playerId[r] /\ Brings(r, news[r])
  <2>1. r \in Live /\ playerId'[r] = playerId[r]
    BY <1>2, <1>9 DEF Live
  <2>2. {playerId[x] : x \in Live \ {r}} \subseteq {playerId[x] : x \in Live \ {r}}'
    BY <1>2 DEF Live
  <2>3. Brings(r, a[r] \o b[r])
    BY <1>5, <1>6, <2>2, BringsBoth
  <2> QED BY <1>7, <2>1, <2>3
<1> QED BY <1>1, <1>2, <1>8, <1>9, SendsOnline

(* A step that leaves the players alone leaves the lists alone.            *)
LEMMA BringsParty ==
    ASSUME NEW p \in Ptr, NEW a, playerId' = playerId, a \in Seq(OwnNotes(p)'),
           \A d \in Mirror : PartyShown(p, d) =>
              \E e \in Mirror : LeadsTo(d, a, e) /\ PartyShown(p, e)' /\ e.players = d.players
    PROVE  Brings(p, a)
<1>1. {playerId[x] : x \in Live \ {p}} \subseteq {playerId[x] : x \in Live \ {p}}'
  BY DEF Live
<1>2. ASSUME NEW d \in Mirror, PartyShown(p, d), ListShown(p, d)
      PROVE  \E e : LeadsTo(d, a, e) /\ PartyShown(p, e)' /\ ListShown(p, e)'
  <2>1. PICK e \in Mirror : LeadsTo(d, a, e) /\ PartyShown(p, e)' /\ e.players = d.players
    BY <1>2
  <2>2. ListShown(p, e)'
    BY <1>1, <1>2, <2>1, ListUntouched
  <2> QED BY <2>1, <2>2
<1> QED BY <1>2 DEF Brings

LEMMA LeavePartyKeeps == ASSUME NetInv, NEW p \in Ptr, ServerLeaveParty(p), PartyInv' PROVE NetInv'
<1>1. PICK g, news : g = joinedParty[p] /\ news = RemovalNews(g, p)' /\ Send(news)
  BY DEF ServerLeaveParty
<1>2. /\ parties' = PartiesWithout(p)
      /\ joinedParty' = [joinedParty EXCEPT ![p] = NoParty]
      /\ playerId' = playerId
      /\ UNCHANGED <<online, client>>
  BY DEF ServerLeaveParty, OnPartyLeave, RemovePlayerFromParty, playerVars
<1>3. PartyInv
  BY DEF NetInv
<1>4. \A r \in Ptr : playerId'[r] = playerId[r]
  BY <1>2
<1>5. \A r \in Ptr :
         /\ news[r] \in Seq(OwnNotes(r)') /\ news[r] \in Seq(Note)
         /\ \A d \in Mirror : PartyShown(r, d) =>
               \E e \in Mirror : LeadsTo(d, news[r], e) /\ PartyShown(r, e)' /\ e.players = d.players
  <2> TAKE r \in Ptr
  <2>1. Removal(p, g, news)
    BY <1>1, <1>2, <1>4 DEF Removal
  <2> QED BY <1>3, <2>1, RemovalShown
<1>6. \A r \in Ptr : Brings(r, news[r])
  BY <1>2, <1>5, BringsParty
<1>7. Live' = Live
  BY <1>2 DEF Live
<1> QED BY <1>1, <1>2, <1>4, <1>5, <1>6, <1>7, SendsOnline

LEMMA CreateKeeps == ASSUME NetInv, NEW p \in Ptr, ServerCreate(p), PartyInv' PROVE NetInv'
<1>1. PICK news : news = SendPartyJoinedEvent(p)' /\ Send(news)
  BY DEF ServerCreate
<1>2. /\ parties' = [g \in DOMAIN parties \cup {nextPartyId} |->
                       IF g = nextPartyId
                       THEN [leader |-> playerId[p], members |-> <<p>>]
                       ELSE parties[g]]
      /\ joinedParty' = [joinedParty EXCEPT ![p] = nextPartyId]
      /\ playerId' = playerId
      /\ UNCHANGED <<online, client>>
  BY DEF ServerCreate, OnPartyCreate, playerVars
<1>3. /\ PartyInv /\ joinedParty \in [Ptr -> PartyIds \cup {NoParty}]
      /\ nextPartyId \in Nat /\ DOMAIN parties \subseteq PartyIds
      /\ \A r \in Ptr : InParty(r) => joinedParty[r] \in DOMAIN parties
  BY DEF NetInv, PartyInv, TypeOK, MembershipAgrees
<1>4. InParty(p)'
  BY <1>2, <1>3 DEF InParty, NoParty
<1>5. \A r \in Ptr :
         /\ news[r] \in Seq(OwnNotes(r)') /\ news[r] \in Seq(Note)
         /\ r # p => news[r] = <<>>
         /\ r = p => \A d \in Mirror :
               \E e \in Mirror : LeadsTo(d, news[r], e) /\ PartyShown(r, e)' /\ e.players = d.players
  <2> TAKE r \in Ptr
  <2>1. news[r] = (SendPartyJoinedEvent(p)')[r]
    BY <1>1
  <2> QED BY <1>4, <2>1, JoinedBrings
<1>6. ASSUME NEW r \in Ptr PROVE Brings(r, news[r])
  <2>1. CASE r = p
    BY <1>2, <1>5, <2>1, BringsParty
  <2>2. CASE r # p
    <3>1. joinedParty'[r] = joinedParty[r]
      BY <1>2, <1>3, <2>2
    <3>2. InParty(r) => parties'[joinedParty[r]] = parties[joinedParty[r]]
      BY <1>2, <1>3 DEF PartyIds
    <3>3. \A x \in Ptr : playerId'[x] = playerId[x]
      BY <1>2
    <3>4. \A d : PartyShown(r, d) => PartyShown(r, d)'
      BY <1>3, <3>1, <3>2, <3>3, PartyUntouched
    <3>5. \A d \in Mirror : PartyShown(r, d) =>
             \E e \in Mirror : LeadsTo(d, news[r], e) /\ PartyShown(r, e)' /\ e.players = d.players
      BY <1>5, <2>2, <3>4, NoWay
    <3> QED BY <1>2, <1>5, <3>5, BringsParty
  <2> QED BY <2>1, <2>2
<1>7. Live' = Live
  BY <1>2 DEF Live
<1> QED BY <1>1, <1>2, <1>5, <1>6, <1>7, SendsOnline

LEMMA ChangeLeaderKeeps ==
    ASSUME NetInv, NEW p \in Ptr, NEW q \in Ptr, ServerChangeLeader(p, q), PartyInv'
    PROVE  NetInv'
<1>1. PICK news : news = BroadcastPartyInfo(joinedParty[p])' /\ Send(news)
  BY DEF ServerChangeLeader
<1>2. /\ parties' = [parties EXCEPT ![joinedParty[p]] =
                       [leader |-> playerId[q], members |-> @.members]]
      /\ joinedParty' = joinedParty
      /\ playerId' = playerId
      /\ UNCHANGED <<online, client>>
  BY DEF ServerChangeLeader, OnPartyChangeLeader, playerVars
<1>3. /\ PartyInv
      /\ \A r \in Ptr : InParty(r) => joinedParty[r] \in DOMAIN parties
  BY DEF NetInv, PartyInv, MembershipAgrees
<1>5. \A r \in Ptr :
         /\ news[r] \in Seq(OwnNotes(r)') /\ news[r] \in Seq(Note)
         /\ \A d \in Mirror :
               (IF InParty(r)' /\ joinedParty'[r] = joinedParty'[p]
                THEN d.inParty ELSE PartyShown(r, d)')
               => \E e \in Mirror : /\ LeadsTo(d, news[r], e)
                                    /\ PartyShown(r, e)'
                                    /\ e.players = d.players
  <2> TAKE r \in Ptr
  <2>1. news[r] = (BroadcastPartyInfo(joinedParty[p])')[r]
    BY <1>1
  <2> QED BY <2>1, InfoBrings
<1>6. ASSUME NEW r \in Ptr PROVE Brings(r, news[r])
  <2>1. InParty(r)' = InParty(r)
    BY <1>2 DEF InParty
  <2>2. ASSUME NEW d \in Mirror, PartyShown(r, d)
        PROVE  IF InParty(r)' /\ joinedParty'[r] = joinedParty'[p]
               THEN d.inParty ELSE PartyShown(r, d)'
    <3>1. CASE InParty(r)' /\ joinedParty'[r] = joinedParty'[p]
      BY <2>1, <2>2, <3>1 DEF PartyShown
    <3>2. CASE ~(InParty(r)' /\ joinedParty'[r] = joinedParty'[p])
      <4>1. InParty(r) => parties'[joinedParty[r]] = parties[joinedParty[r]]
        BY <1>2, <1>3, <2>1, <3>2
      <4>2. PartyShown(r, d)'
        BY <1>2, <1>3, <2>2, <4>1, PartyUntouched
      <4> QED BY <3>2, <4>2
    <3> QED BY <3>1, <3>2
  <2>3. \A d \in Mirror : PartyShown(r, d) =>
           \E e \in Mirror : LeadsTo(d, news[r], e) /\ PartyShown(r, e)' /\ e.players = d.players
    BY <1>5, <2>2
  <2> QED BY <1>2, <1>5, <2>3, BringsParty
<1>7. Live' = Live
  BY <1>2 DEF Live
<1> QED BY <1>1, <1>2, <1>5, <1>6, <1>7, SendsOnline

LEMMA AcceptKeeps ==
    ASSUME NetInv, NEW q \in Ptr, NEW p \in Ptr, ServerAccept(q, p), PartyInv'
    PROVE  NetInv'
<1>1. PICK a, b, news :
         /\ a = SendPartyJoinedEvent(q)' /\ b = BroadcastPartyInfo(joinedParty[p])'
         /\ news = Then(a, b) /\ Send(news)
  BY DEF ServerAccept
<1>2. /\ parties' = [parties EXCEPT ![joinedParty[p]] =
                       [leader |-> @.leader, members |-> Append(@.members, q)]]
      /\ joinedParty' = [joinedParty EXCEPT ![q] = joinedParty[p]]
      /\ playerId' = playerId
      /\ UNCHANGED <<online, client>>
      /\ p # q /\ InParty(p)
  BY DEF ServerAccept, OnPartyAcceptInvite, CanAccept, IsLeader, playerVars
<1>3. /\ PartyInv /\ joinedParty \in [Ptr -> PartyIds \cup {NoParty}]
      /\ \A r \in Ptr : InParty(r) => joinedParty[r] \in DOMAIN parties
  BY DEF NetInv, PartyInv, TypeOK, MembershipAgrees
<1>4. joinedParty'[q] = joinedParty[p] /\ joinedParty'[p] = joinedParty[p] /\ InParty(q)'
  BY <1>2, <1>3 DEF InParty
<1>5. \A r \in Ptr :
         /\ b[r] \in Seq(OwnNotes(r)') /\ b[r] \in Seq(Note)
         /\ \A d \in Mirror :
               (IF InParty(r)' /\ joinedParty'[r] = joinedParty'[p]
                THEN d.inParty ELSE PartyShown(r, d)')
               => \E e \in Mirror : /\ LeadsTo(d, b[r], e)
                                    /\ PartyShown(r, e)'
                                    /\ e.players = d.players
  <2> TAKE r \in Ptr
  <2>1. b[r] = (BroadcastPartyInfo(joinedParty[p])')[r]
    BY <1>1
  <2> QED BY <2>1, InfoBrings
<1>6. \A r \in Ptr :
         /\ a[r] \in Seq(OwnNotes(r)') /\ a[r] \in Seq(Note)
         /\ r # q => a[r] = <<>>
         /\ r = q => \A d \in Mirror :
               \E e \in Mirror : LeadsTo(d, a[r], e) /\ PartyShown(r, e)' /\ e.players = d.players
  <2> TAKE r \in Ptr
  <2>1. a[r] = (SendPartyJoinedEvent(q)')[r]
    BY <1>1
  <2> QED BY <1>4, <2>1, JoinedBrings
<1>7. \A r \in Ptr : news[r] = a[r] \o b[r]
  BY <1>1, ThenConcatenates
<1>8. \A r \in Ptr : news[r] \in Seq(Note) /\ news[r] \in Seq(OwnNotes(r)')
  <2> TAKE r \in Ptr
  <2>1. a[r] \o b[r] \in Seq(Note)
    BY <1>5, <1>6, ConcatProperties
  <2>2. a[r] \o b[r] \in Seq(OwnNotes(r)')
    BY <1>5, <1>6, ConcatProperties
  <2> QED BY <1>7, <2>1, <2>2
<1>9. ASSUME NEW r \in Ptr PROVE Brings(r, news[r])
  <2>1. CASE r = q
    <3>1. ASSUME NEW d \in Mirror
          PROVE  \E e \in Mirror : /\ LeadsTo(d, news[r], e)
                                   /\ PartyShown(r, e)'
                                   /\ e.players = d.players
      <4>1. PICK c \in Mirror :
               LeadsTo(d, a[r], c) /\ PartyShown(r, c)' /\ c.players = d.players
        BY <1>6, <2>1
      <4>2. c.inParty
        BY <1>4, <2>1, <4>1 DEF PartyShown
      <4>3. PICK e \in Mirror :
               LeadsTo(c, b[r], e) /\ PartyShown(r, e)' /\ e.players = c.players
        BY <1>5, <4>1, <4>2
      <4>4. LeadsTo(d, a[r] \o b[r], e)
        BY <1>5, <1>6, <4>1, <4>3, WayOn
      <4> QED BY <1>7, <4>1, <4>3, <4>4
    <3> QED BY <1>2, <1>8, <3>1, BringsParty
  <2>2. CASE r # q
    <3>1. joinedParty'[r] = joinedParty[r]
      BY <1>2, <1>3, <2>2
    <3>2. InParty(r)' = InParty(r)
      BY <3>1 DEF InParty
    <3>3. ASSUME NEW d \in Mirror, PartyShown(r, d)
          PROVE  IF InParty(r)' /\ joinedParty'[r] = joinedParty'[p]
                 THEN d.inParty ELSE PartyShown(r, d)'
      <4>1. CASE InParty(r)' /\ joinedParty'[r] = joinedParty'[p]
        BY <3>2, <3>3, <4>1 DEF PartyShown
      <4>2. CASE ~(InParty(r)' /\ joinedParty'[r] = joinedParty'[p])
        <5>1. InParty(r) => parties'[joinedParty[r]] = parties[joinedParty[r]]
          BY <1>2, <1>3, <1>4, <3>1, <3>2, <4>2
        <5>2. PartyShown(r, d)'
          BY <1>2, <1>3, <3>1, <3>3, <5>1, PartyUntouched
        <5> QED BY <4>2, <5>2
      <4> QED BY <4>1, <4>2
    <3>4. news[r] = b[r]
      BY <1>5, <1>6, <1>7, <2>2, ConcatEmptySeq
    <3>5. \A d \in Mirror : PartyShown(r, d) =>
             \E e \in Mirror : LeadsTo(d, news[r], e) /\ PartyShown(r, e)' /\ e.players = d.players
      BY <1>5, <3>3, <3>4
    <3> QED BY <1>2, <1>8, <3>5, BringsParty
  <2> QED BY <2>1, <2>2
<1>10. Live' = Live
  BY <1>2 DEF Live
<1> QED BY <1>1, <1>2, <1>8, <1>9, <1>10, SendsOnline

---------------------------------------------------------------------------
(* Steps of a client.                                                      *)

LEMMA NothingMoves ==
    ASSUME UNCHANGED partyVars
    PROVE  /\ Live' = Live /\ playerId' = playerId
           /\ \A p : OwnNotes(p)' = OwnNotes(p)
           /\ \A p, d : PartyShown(p, d) => PartyShown(p, d)'
           /\ \A p, d : ListShown(p, d) => ListShown(p, d)'
<1>1. playerId' = playerId /\ joinedParty' = joinedParty /\ parties' = parties
  BY DEF partyVars, playerVars
<1>2. Live' = Live
  BY <1>1 DEF Live
<1>3. \A p : OwnNotes(p)' = OwnNotes(p)
  BY <1>1 DEF OwnNotes, Own, OwnIdIn
<1>4. \A p, d : PartyShown(p, d) => PartyShown(p, d)'
  BY <1>1 DEF PartyShown, InParty, PartyOf, IsLeader, MemberIds
<1>5. \A p, d : ListShown(p, d) => ListShown(p, d)'
  BY <1>1, <1>2 DEF ListShown
<1> QED BY <1>1, <1>2, <1>3, <1>4, <1>5

(* A client that reads of a party it is in shows one it is in.             *)
LEMMA ReadingShowsOwn ==
    ASSUME NEW p, NEW c \in Mirror, NEW m \in Note, Own(p, m),
           c.inParty => OwnIdIn(p, c.members) /\ c.isLeader = (c.leader = playerId[p])
    PROVE  LET e == AfterMessage(c, m)
           IN  e.inParty => OwnIdIn(p, e.members) /\ e.isLeader = (e.leader = playerId[p])
<1> DEFINE e == AfterMessage(c, m)
<1>1. /\ m.type \in {"PartyJoined", "PartyInfo", "PartyLeft", "PlayerList"}
      /\ m.type \in {"PartyJoined", "PartyInfo"} => m \in PartyNote
  BY NoteKinds
<1>2. /\ m.type = "PartyJoined" => e = WithParty(c, m)
      /\ m.type = "PartyInfo" => e = IF c.inParty THEN WithParty(c, m) ELSE c
      /\ m.type = "PartyLeft" => e = DestroyParty(c)
      /\ m.type = "PlayerList" => e = [c EXCEPT !.players = m.players]
  BY Reading
<1> HIDE DEF e
<1>3. ASSUME m.type \in {"PartyJoined", "PartyInfo"}, e = WithParty(c, m)
      PROVE  OwnIdIn(p, e.members) /\ e.isLeader = (e.leader = playerId[p])
  <2>1. e.isLeader = m.isLeader /\ e.leader = m.leader /\ e.members = m.members
    BY <1>1, <1>3, Changing
  <2>2. OwnIdIn(p, m.members) /\ m.isLeader = (m.leader = playerId[p])
    BY <1>3 DEF Own
  <2> QED BY <2>1, <2>2
<1>4. m.type = "PartyLeft" => e.inParty = FALSE
  BY <1>2, Changing
<1>5. m.type = "PlayerList" =>
         /\ e.inParty = c.inParty /\ e.isLeader = c.isLeader
         /\ e.leader = c.leader /\ e.members = c.members
  <2> SUFFICES ASSUME m.type = "PlayerList"
               PROVE  /\ e.inParty = c.inParty /\ e.isLeader = c.isLeader
                      /\ e.leader = c.leader /\ e.members = c.members
    OBVIOUS
  <2>1. e = [c EXCEPT !.players = m.players]
    BY <1>2
  <2> QED BY <2>1, Changing
<1>6. e.inParty => OwnIdIn(p, e.members) /\ e.isLeader = (e.leader = playerId[p])
  <2>1. CASE m.type = "PartyJoined"
    BY <1>2, <1>3, <2>1
  <2>2. CASE m.type = "PartyInfo"
    <3>1. CASE c.inParty
      BY <1>2, <1>3, <2>2, <3>1
    <3>2. CASE ~c.inParty
      BY <1>2, <2>2, <3>2
    <3> QED BY <3>1, <3>2
  <2>3. CASE m.type = "PartyLeft"
    BY <1>4, <2>3
  <2>4. CASE m.type = "PlayerList"
    BY <1>5, <2>4
  <2> QED BY <1>1, <2>1, <2>2, <2>3, <2>4
<1> QED BY <1>6 DEF e

LEMMA DeliverKeeps == ASSUME NetInv, NEW p \in Ptr, Deliver(p), PartyInv' PROVE NetInv'
<1>1. /\ toClient \in [Ptr -> Seq(Note)] /\ client \in [Ptr -> Mirror]
      /\ \A r \in Ptr \ online : toClient[r] = <<>> /\ ~client[r].inParty
      /\ online \subseteq Ptr
  BY DEF NetInv, NetTypes
<1>2. PICK c, q : c = client[p] /\ q = toClient[p]
  OBVIOUS
<1>3. /\ p \in online /\ q # <<>>
      /\ client' = [client EXCEPT ![p] = AfterMessage(c, Head(q))]
      /\ toClient' = [toClient EXCEPT ![p] = Tail(q)]
      /\ online' = online /\ UNCHANGED partyVars
  BY <1>2 DEF Deliver
<1>4. /\ Live' = Live /\ playerId' = playerId
      /\ \A r : OwnNotes(r)' = OwnNotes(r)
      /\ \A r, d : PartyShown(r, d) => PartyShown(r, d)'
      /\ \A r, d : ListShown(r, d) => ListShown(r, d)'
  BY <1>3, NothingMoves
<1>5. /\ c \in Mirror /\ q \in Seq(Note) /\ Head(q) \in Note /\ Tail(q) \in Seq(Note)
  BY <1>1, <1>2, <1>3, HeadTailProperties
<1>6. AfterMessage(c, Head(q)) \in Mirror
  BY <1>5, Reading
<1>7. NetTypes'
  <2>1. client' \in [Ptr -> Mirror] /\ toClient' \in [Ptr -> Seq(Note)]
    BY <1>1, <1>3, <1>5, <1>6
  <2>2. \A r \in Ptr \ online' : toClient'[r] = <<>> /\ ~client'[r].inParty
    BY <1>1, <1>3
  <2> QED BY <1>1, <1>3, <2>1, <2>2 DEF NetTypes
<1>8. WillAgree'
  <2> SUFFICES ASSUME NEW r \in Ptr, r \in online, r \in Live
               PROVE  \E d : /\ LeadsTo(client'[r], toClient'[r], d)
                             /\ PartyShown(r, d)' /\ ListShown(r, d)'
    BY <1>1, <1>3, <1>4 DEF WillAgree
  <2>1. PICK d : LeadsTo(client[r], toClient[r], d) /\ PartyShown(r, d) /\ ListShown(r, d)
    BY DEF NetInv, WillAgree
  <2>2. LeadsTo(client'[r], toClient'[r], d)
    <3>1. CASE r = p
      <4>1. client'[p] = AfterMessage(c, Head(q)) /\ toClient'[p] = Tail(q)
        BY <1>1, <1>3
      <4>2. LeadsTo(c, q, d)
        BY <1>2, <2>1, <3>1
      <4>3. LeadsTo(AfterMessage(c, Head(q)), Tail(q), d)
        BY <1>3, <1>5, <4>2, WayLeft
      <4> QED BY <3>1, <4>1, <4>3
    <3>2. CASE r # p
      BY <1>1, <1>3, <2>1, <3>2
    <3> QED BY <3>1, <3>2
  <2> QED BY <1>4, <2>1, <2>2
<1>9. OwnNews'
  <2> SUFFICES ASSUME NEW r \in Ptr, r \in online, r \in Live
               PROVE  OwnShown(r)' /\ toClient'[r] \in Seq(OwnNotes(r))
    BY <1>1, <1>3, <1>4 DEF OwnNews
  <2>1. OwnShown(r) /\ toClient[r] \in Seq(OwnNotes(r))
    BY DEF NetInv, OwnNews
  <2>2. CASE r = p
    <3>1. q \in Seq(OwnNotes(p))
      BY <1>2, <2>1, <2>2
    <3>2. Head(q) \in OwnNotes(p) /\ Tail(q) \in Seq(OwnNotes(p))
      BY <1>3, <3>1, HeadTailProperties
    <3>3. client'[p] = AfterMessage(c, Head(q)) /\ toClient'[p] = Tail(q)
      BY <1>1, <1>3
    <3>4. c.inParty => OwnIdIn(p, c.members) /\ c.isLeader = (c.leader = playerId[p])
      BY <1>2, <2>1, <2>2 DEF OwnShown
    <3>5. Own(p, Head(q))
      BY <3>2 DEF OwnNotes
    <3>6. PICK e : e = AfterMessage(c, Head(q))
      OBVIOUS
    <3>7. e.inParty => OwnIdIn(p, e.members) /\ e.isLeader = (e.leader = playerId[p])
      BY <1>5, <3>4, <3>5, <3>6, ReadingShowsOwn
    <3>8. client'[p] = e
      BY <3>3, <3>6
    <3>9. OwnShown(p)'
      BY <1>4, <3>7, <3>8 DEF OwnShown, OwnIdIn
    <3> QED BY <2>2, <3>2, <3>3, <3>9
  <2>3. CASE r # p
    <3>1. client'[r] = client[r] /\ toClient'[r] = toClient[r]
      BY <1>1, <1>3, <2>3
    <3> QED BY <1>4, <2>1, <3>1 DEF OwnShown, OwnIdIn
  <2> QED BY <2>2, <2>3
<1> QED BY <1>7, <1>8, <1>9 DEF NetInv

(* A step that changes no party, and for the clients that stay connected   *)
(* neither what they show nor what is under way to them.                   *)
LEMMA ApartKeeps ==
    ASSUME NetInv, PartyInv', NetTypes', online' \subseteq online,
           Live' = Live, playerId' = playerId, joinedParty' = joinedParty, parties' = parties,
           \A r \in online' : client'[r] = client[r] /\ toClient'[r] = toClient[r]
    PROVE  NetInv'
<1>1. online \subseteq Ptr
  BY DEF NetInv, NetTypes
<1>3. \A r : OwnNotes(r)' = OwnNotes(r)
  BY DEF OwnNotes, Own, OwnIdIn
<1>4. \A r, d : PartyShown(r, d) => PartyShown(r, d)'
  BY DEF PartyShown, InParty, PartyOf, IsLeader, MemberIds
<1>5. \A r, d : ListShown(r, d) => ListShown(r, d)'
  BY DEF ListShown
<1>6. WillAgree'
  <2> SUFFICES ASSUME NEW r \in online', r \in Live
               PROVE  \E d : /\ LeadsTo(client'[r], toClient'[r], d)
                             /\ PartyShown(r, d)' /\ ListShown(r, d)'
    BY DEF WillAgree
  <2>1. PICK d : LeadsTo(client[r], toClient[r], d) /\ PartyShown(r, d) /\ ListShown(r, d)
    BY DEF NetInv, WillAgree
  <2> QED BY <1>4, <1>5, <2>1
<1>7. OwnNews'
  <2> SUFFICES ASSUME NEW r \in online', r \in Live
               PROVE  OwnShown(r)' /\ toClient'[r] \in Seq(OwnNotes(r)')
    BY DEF OwnNews
  <2>1. OwnShown(r) /\ toClient[r] \in Seq(OwnNotes(r))
    BY DEF NetInv, OwnNews
  <2>2. OwnShown(r)'
    BY <2>1 DEF OwnShown, OwnIdIn
  <2> QED BY <1>3, <2>1, <2>2
<1> QED BY <1>6, <1>7 DEF NetInv

LEMMA DisconnectedKeeps == ASSUME NetInv, NEW p \in Ptr, OnDisconnected(p), PartyInv' PROVE NetInv'
<1>1. /\ toClient \in [Ptr -> Seq(Note)] /\ client \in [Ptr -> Mirror]
      /\ \A r \in Ptr \ online : toClient[r] = <<>> /\ ~client[r].inParty
      /\ online \subseteq Ptr
  BY DEF NetInv, NetTypes
<1>2. PICK c \in Mirror : c = client[p]
  BY <1>1
<1>3. /\ client' = [client EXCEPT ![p] = DestroyParty(c)]
      /\ toClient' = [toClient EXCEPT ![p] = <<>>]
      /\ online' = online \ {p} /\ UNCHANGED partyVars
  BY <1>2 DEF OnDisconnected
<1>4. PICK m \in Note : m.type = "PartyLeft"
  <2>1. [type |-> "PartyLeft"] \in Note /\ [type |-> "PartyLeft"].type = "PartyLeft"
    BY DEF Note
  <2> QED BY <2>1
<1>5. DestroyParty(c) \in Mirror /\ DestroyParty(c).inParty = FALSE
  <2>1. AfterMessage(c, m) \in Mirror /\ AfterMessage(c, m) = DestroyParty(c)
    BY <1>4, Reading
  <2> QED BY <2>1, Changing
<1>6. <<>> \in Seq(Note)
  BY EmptySeq
<1>7. NetTypes'
  <2>1. client' \in [Ptr -> Mirror] /\ toClient' \in [Ptr -> Seq(Note)]
    BY <1>1, <1>3, <1>5, <1>6
  <2>2. \A r \in Ptr \ online' : toClient'[r] = <<>> /\ ~client'[r].inParty
    BY <1>1, <1>3, <1>5
  <2> QED BY <1>1, <1>3, <2>1, <2>2 DEF NetTypes
<1>8. Live' = Live /\ playerId' = playerId /\ joinedParty' = joinedParty /\ parties' = parties
  BY <1>3 DEF partyVars, playerVars, Live
<1>9. \A r \in online' : client'[r] = client[r] /\ toClient'[r] = toClient[r]
  BY <1>1, <1>3
<1> QED BY <1>3, <1>7, <1>8, <1>9, ApartKeeps

LEMMA QuietKeeps == ASSUME NetInv, ServerQuiet \/ UNCHANGED vars, PartyInv' PROVE NetInv'
<1>1. /\ playerId' = playerId /\ joinedParty' = joinedParty /\ parties' = parties
      /\ online' = online /\ toClient' = toClient /\ client' = client
  BY DEF ServerQuiet, PlayerRefused, OnUpdate, OnPartyInvite, vars, partyVars, playerVars, netVars
<1>2. Live' = Live
  BY <1>1 DEF Live
<1>3. NetTypes'
  BY <1>1 DEF NetInv, NetTypes
<1> QED BY <1>1, <1>2, <1>3, ApartKeeps

---------------------------------------------------------------------------
(* The theorems.                                                           *)

(* No client is connected before the server starts.                        *)
THEOREM InitNetInv == NetInit => NetInv
<1> SUFFICES ASSUME NetInit PROVE NetInv
  OBVIOUS
<1>1. PartyInv
  BY InitPartyInv DEF NetInit
<1>2. online = {} /\ toClient = Nobody /\ client = [p \in Ptr |-> NewClient]
  BY DEF NetInit
<1>3. NewClient \in Mirror /\ NewClient.inParty = FALSE
  <2>1. <<>> \in Seq(Nat) /\ -1 \in Int /\ {} \in SUBSET Nat
    BY EmptySeq
  <2>2. NewClient = [inParty |-> FALSE, isLeader |-> FALSE, leader |-> -1, members |-> <<>>,
                     players |-> {}]
    BY DEF NewClient
  <2>3. NewClient \in Mirror
    BY <2>1, <2>2, Zenon DEF Mirror
  <2> QED BY <2>2, <2>3
<1>4. Nobody \in [Ptr -> Seq(Note)] /\ \A p \in Ptr : Nobody[p] = <<>>
  <2>1. <<>> \in Seq(Note)
    BY EmptySeq
  <2> QED BY <2>1 DEF Nobody
<1>5. NetTypes
  BY <1>2, <1>3, <1>4 DEF NetTypes
<1> QED BY <1>1, <1>2, <1>5 DEF NetInv, WillAgree, OwnNews

(* Every step of the server and of a client keeps the invariant.           *)
THEOREM NextNetInv == NetInv /\ [NetNext]_vars => NetInv'
<1> SUFFICES ASSUME NetInv, [NetNext]_vars PROVE NetInv'
  OBVIOUS
<1>0. PartyInv'
  BY PartyStep
<1>1. CASE ServerQuiet \/ UNCHANGED vars
  BY <1>0, <1>1, QuietKeeps
<1>2. ASSUME NEW p \in Ptr, Deliver(p) PROVE NetInv'
  BY <1>0, <1>2, DeliverKeeps
<1>3. ASSUME NEW p \in Ptr, OnDisconnected(p) PROVE NetInv'
  BY <1>0, <1>3, DisconnectedKeeps
<1>4. ASSUME NEW p \in Ptr, ServerJoin(p) PROVE NetInv'
  BY <1>0, <1>4, JoinKeeps
<1>5. ASSUME NEW p \in Ptr, ServerLeave(p) PROVE NetInv'
  BY <1>0, <1>5, LeaveKeeps
<1>6. ASSUME NEW p \in Ptr, ServerCreate(p) PROVE NetInv'
  BY <1>0, <1>6, CreateKeeps
<1>7. ASSUME NEW p \in Ptr, ServerLeaveParty(p) PROVE NetInv'
  BY <1>0, <1>7, LeavePartyKeeps
<1>8. ASSUME NEW p \in Ptr, NEW q \in Ptr, ServerChangeLeader(p, q) PROVE NetInv'
  BY <1>0, <1>8, ChangeLeaderKeeps
<1>9. ASSUME NEW p \in Ptr, NEW q \in Ptr, ServerKick(p, q) PROVE NetInv'
  BY <1>0, <1>9, KickKeeps
<1>10. ASSUME NEW p \in Ptr, NEW q \in Ptr, ServerAccept(p, q) PROVE NetInv'
  BY <1>0, <1>10, AcceptKeeps
<1> QED BY <1>1, <1>2, <1>3, <1>4, <1>5, <1>6, <1>7, <1>8, <1>9, <1>10 DEF NetNext

(* The tables of the service, what is under way and what the clients show  *)
(* always fit together: a client that reads on comes to what is so.        *)
THEOREM NetInvariant == NetSpec => []NetInv
<1>1. NetInit => NetInv
  BY InitNetInv
<1>2. NetInv /\ [NetNext]_vars => NetInv'
  BY NextNetInv
<1> QED BY <1>1, <1>2, PTL DEF NetSpec

(* A client that has nothing more to read agrees with the server.          *)
LEMMA UpToDateShows ==
    ASSUME NetInv, NEW p \in Ptr, UpToDate(p)
    PROVE  PartyShown(p, client[p]) /\ ListShown(p, client[p])
<1>1. p \in online /\ p \in Live /\ toClient[p] = <<>> /\ client[p] \in Mirror
  BY DEF UpToDate, NetInv, NetTypes
<1>2. PICK d : LeadsTo(client[p], <<>>, d) /\ PartyShown(p, d) /\ ListShown(p, d)
  BY <1>1 DEF NetInv, WillAgree
<1>3. d = client[p]
  BY <1>1, <1>2, NoWay
<1> QED BY <1>2, <1>3

(* A client that has read everything shows the party its player is in.     *)
THEOREM MirrorsAlwaysAgree == NetSpec => []MirrorsAgree
<1>1. NetInv => MirrorsAgree
  BY UpToDateShows DEF MirrorsAgree, PartyShown
<1> QED BY <1>1, NetInvariant, PTL

(* However far behind a client is, it shows no party without its player.   *)
THEOREM MembersSeeThemselves == NetSpec => []MemberOfWhatIsShown
<1>1. NetInv => MemberOfWhatIsShown
  BY DEF NetInv, OwnNews, OwnShown, MemberOfWhatIsShown
<1> QED BY <1>1, NetInvariant, PTL

(* A client that has read everything lists no player who has left.         *)
THEOREM NoGhostsListed == NetSpec => []ListedPlayersAreConnected
<1>1. NetInv => ListedPlayersAreConnected
  BY UpToDateShows DEF ListedPlayersAreConnected, ListShown
<1> QED BY <1>1, NetInvariant, PTL
=============================================================================
