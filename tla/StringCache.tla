---------------------------- MODULE StringCache ----------------------------
(***************************************************************************)
(* The string cache: strings that are sent often are numbered by the       *)
(* server, which tells every client the numbers, and then travel as        *)
(* numbers.  StringCache and CachedString of the encoding library, the     *)
(* server's StringCacheService and the hand-out of GameServer, the         *)
(* client's StringCacheService.                                            *)
(*                                                                         *)
(* A connection delivers in order; what is under way is lost with it.  A   *)
(* cached string is encoded when its message is sent and decoded when it   *)
(* is read, by either side with the cache it has then.  A message with a   *)
(* cached string carries here, besides what is on the wire, the string     *)
(* that is meant.                                                          *)
(***************************************************************************)
EXTENDS Integers, FiniteSets, Sequences

CONSTANTS
    Clients,        \* connections
    Strings,        \* strings that are sent
    WireLimit,      \* 2^16: StartId and the count of an update are read & 0xFFFF
    MaxInFlight,    \* bound: messages under way to one client
    MaxRequests     \* bound: messages under way from one client

ASSUME StringCacheAssumption ==
    /\ IsFiniteSet(Strings)
    /\ WireLimit \in Nat \ {0}
    /\ MaxInFlight \in Nat /\ MaxRequests \in Nat

VARIABLES
    idToString,     \* m_idToString of the server
    wanted,         \* m_wantedStrings of the server
    online,         \* the connections of PlayerManager
    stringCacheId,  \* per player, Player::GetStringCacheId
    toClient,       \* per connection, what is under way to the client
    toServer,       \* per connection, what is under way to the server
    known           \* per client, its m_idToString

vars == <<idToString, wanted, online, stringCacheId, toClient, toServer, known>>

Elements(s) == {s[i] : i \in DOMAIN s}

(* CachedString::Serialize with the cache c.  Ids count from 1 here.       *)
IdsOf(c, s) == {i \in DOMAIN c : c[i] = s}

Text(c, s) ==
    [type |-> "Text", meant |-> s,
     id   |-> IF IdsOf(c, s) = {} THEN 0 ELSE CHOOSE i \in IdsOf(c, s) : TRUE]

(* CachedString::Deserialize with the cache c yields what is meant.        *)
Decodes(c, m) == m.id = 0 \/ (m.id \in DOMAIN c /\ c[m.id] = m.meant)

Accepted == [type |-> "Accepted"]

(* Variant: the update starts after the first new string.                  *)
UpdateAfterStart(c, start) ==
    [type   |-> "Update",
     start  |-> start % WireLimit,
     values |-> IF start < Len(c) THEN SubSeq(c, start + 2, Len(c)) ELSE <<>>]

(* StringCache::Serialize of the cache c from start, as it is read.        *)
Update(c, start) ==
    LET values == IF start < Len(c) THEN SubSeq(c, start + 1, Len(c)) ELSE <<>>
    IN [type   |-> "Update",
        start  |-> start % WireLimit,
        values |-> SubSeq(values, 1, Len(values) % WireLimit)]

(* StringCache::Deserialize into the cache c: Add skips what is there.     *)
Extended(c, values) ==
    IF Elements(values) \cap Elements(c) = {} THEN c \o values
    ELSE c \o SelectSeq(values, LAMBDA s : s \notin Elements(c))

Queue(ch, P, m) == [p \in Clients |-> IF p \in P THEN Append(ch[p], m) ELSE ch[p]]
Room == \A p \in Clients : /\ Len(toClient'[p]) <= MaxInFlight
                           /\ Len(toServer'[p]) <= MaxRequests

---------------------------------------------------------------------------
(* Variant: what the player has been sent is not recorded.                 *)
ConnectUncounted(p) ==
    /\ p \notin online
    /\ online' = online \cup {p}
    /\ toClient' = [toClient EXCEPT ![p] = <<Accepted, Update(idToString, 0)>>]
    /\ stringCacheId' = [stringCacheId EXCEPT ![p] = 0]
    /\ UNCHANGED <<idToString, wanted, toServer, known>>

(* HandleAuthenticationRequest, as far as the cache goes.                  *)
Connect(p) ==
    /\ p \notin online
    /\ online' = online \cup {p}
    /\ toClient' = [toClient EXCEPT ![p] = <<Accepted, Update(idToString, 0)>>]
    /\ stringCacheId' = [stringCacheId EXCEPT ![p] = Len(idToString)]
    /\ UNCHANGED <<idToString, wanted, toServer, known>>

(* Both ends lose the connection; the client clears its cache.             *)
Disconnect(p) ==
    /\ p \in online
    /\ online' = online \ {p}
    /\ toClient' = [toClient EXCEPT ![p] = <<>>]
    /\ toServer' = [toServer EXCEPT ![p] = <<>>]
    /\ known' = [known EXCEPT ![p] = <<>>]
    /\ UNCHANGED <<idToString, wanted, stringCacheId>>

(* The server sends a message with string s to the players of P.           *)
ServerSends(P, s) ==
    /\ P \subseteq online
    /\ toClient' = Queue(toClient, P, Text(idToString, s))
    /\ wanted' = IF P # {} /\ IdsOf(idToString, s) = {} THEN wanted \cup {s} ELSE wanted
    /\ UNCHANGED <<idToString, online, stringCacheId, toServer, known>>
    /\ Room

(* Variant: the new strings are numbered, but only one player is told.     *)
HandleUpdateToOne ==
    LET new == wanted \ Elements(idToString)
    IN /\ wanted # {}
       /\ \E o \in [1 .. Cardinality(new) -> new] :
             /\ \A i, j \in DOMAIN o : o[i] = o[j] => i = j
             /\ idToString' = idToString \o o
       /\ \E p \in online :
             /\ toClient' = [toClient EXCEPT ![p] =
                                Append(@, Update(idToString', stringCacheId[p]))]
             /\ stringCacheId' = [stringCacheId EXCEPT ![p] = Len(idToString')]
       /\ wanted' = {}
       /\ UNCHANGED <<online, toServer, known>>
       /\ Room

(* HandleUpdate, when two seconds have passed: ProcessDirty numbers the    *)
(* wanted strings in the order of the set, and every player gets what is   *)
(* new to him.                                                             *)
HandleUpdate ==
    LET new == wanted \ Elements(idToString)
    IN /\ wanted # {}
       /\ \E o \in [1 .. Cardinality(new) -> new] :
             /\ \A i, j \in DOMAIN o : o[i] = o[j] => i = j
             /\ idToString' = idToString \o o
       /\ toClient' = [p \in Clients |->
                         IF p \in online
                         THEN Append(toClient[p], Update(idToString', stringCacheId[p]))
                         ELSE toClient[p]]
       /\ stringCacheId' = [p \in Clients |->
                              IF p \in online THEN Len(idToString') ELSE stringCacheId[p]]
       /\ wanted' = {}
       /\ UNCHANGED <<online, toServer, known>>
       /\ Room

(* A string that arrives in full is wanted, whatever is in the cache.      *)
ServerReads(p) ==
    /\ toServer[p] # <<>>
    /\ toServer' = [toServer EXCEPT ![p] = Tail(@)]
    /\ wanted' = IF Head(toServer[p]).id = 0 THEN wanted \cup {Head(toServer[p]).meant}
                 ELSE wanted
    /\ UNCHANGED <<idToString, online, stringCacheId, toClient, known>>

---------------------------------------------------------------------------
(* The client.  The strings it wants are never asked for and left out.  It *)
(* sends once it has been accepted.                                        *)
ClientSends(p, s) ==
    /\ p \in online
    /\ \A i \in DOMAIN toClient[p] : toClient[p][i] # Accepted
    /\ toServer' = Queue(toServer, {p}, Text(known[p], s))
    /\ UNCHANGED <<idToString, wanted, online, stringCacheId, toClient, known>>
    /\ Room

ClientReads(p) ==
    /\ toClient[p] # <<>>
    /\ toClient' = [toClient EXCEPT ![p] = Tail(@)]
    /\ known' = [known EXCEPT ![p] =
                    CASE Head(toClient[p]).type = "Accepted" -> <<>>
                      [] Head(toClient[p]).type = "Update" ->
                            Extended(@, Head(toClient[p]).values)
                      [] OTHER -> @]
    /\ UNCHANGED <<idToString, wanted, online, stringCacheId, toServer>>

---------------------------------------------------------------------------
Init ==
    /\ idToString = <<>>
    /\ wanted = {}
    /\ online = {}
    /\ stringCacheId = [p \in Clients |-> 0]
    /\ toClient = [p \in Clients |-> <<>>]
    /\ toServer = [p \in Clients |-> <<>>]
    /\ known = [p \in Clients |-> <<>>]

Next ==
    \/ HandleUpdate
    \/ \E s \in Strings, P \in SUBSET Clients : ServerSends(P, s)
    \/ \E p \in Clients :
          \/ Connect(p) \/ Disconnect(p)
          \/ ServerReads(p) \/ ClientReads(p)
          \/ \E s \in Strings : ClientSends(p, s)

Spec == Init /\ [][Next]_vars

---------------------------------------------------------------------------
TextMessage == [type : {"Text"}, meant : Strings, id : Nat]
UpdateMessage == [type : {"Update"}, start : Nat, values : Seq(Strings)]

TypeOK ==
    /\ idToString \in Seq(Strings)
    /\ wanted \subseteq Strings
    /\ online \subseteq Clients
    /\ stringCacheId \in [Clients -> Nat]
    /\ toClient \in [Clients -> Seq(TextMessage \cup UpdateMessage \cup {Accepted})]
    /\ toServer \in [Clients -> Seq(TextMessage)]
    /\ known \in [Clients -> Seq(Strings)]

(* "We should only receive contiguous updates": the assertion of           *)
(* StringCache::Deserialize holds for whatever update a client reads next, *)
(* whenever it connected and however far it is behind.                     *)
ContiguousUpdates ==
    \A p \in Clients :
        toClient[p] # <<>> /\ Head(toClient[p]).type = "Update" =>
            Head(toClient[p]).start = Len(known[p])

(* A number always means to the reader what it meant to the sender, though *)
(* the reader's cache may have grown, shrunk to nothing on a reconnection, *)
(* or lag behind: the assertion of CachedString::Deserialize, both ways.   *)
ReadersUnderstand ==
    \A p \in Clients :
        /\ toClient[p] # <<>> /\ Head(toClient[p]).type = "Text" =>
               Decodes(known[p], Head(toClient[p]))
        /\ toServer[p] # <<>> => Decodes(idToString, Head(toServer[p]))

(* A client's cache is the beginning of the server's.                      *)
KnownIsPrefix ==
    \A p \in Clients :
        /\ Len(known[p]) <= Len(idToString)
        /\ known[p] = SubSeq(idToString, 1, Len(known[p]))

(* The numbers fit the wire: fewer strings are ever sent than the limit.    *)
FewStrings == Cardinality(Strings) < WireLimit

CacheInv == TypeOK /\ KnownIsPrefix /\ ContiguousUpdates /\ ReadersUnderstand

=============================================================================
