----------------------------- MODULE WorldProofs -----------------------------
(***************************************************************************)
(* Proofs about the parts of the shared world that have no module of their *)
(* own for it, each for any clients and bounds: the numbers of plugins,    *)
(* and what the players see of each other indoors and outdoors; last, that *)
(* the world is made of its parts.                                         *)
(***************************************************************************)
EXTENDS MCWorld, CalendarProofs, ObjectsProofs, CompanionsProofs, VitalsProofs

---------------------------------------------------------------------------
(* The plugins and the numbers of their forms: LoadOrder *)

(* The numbers given are 0 to seed - 1, each to one plugin.                    *)
Numbered ==
    /\ IsFiniteSet(DOMAIN ids)
    /\ seed = Cardinality(DOMAIN ids)
    /\ \A p, q \in DOMAIN ids : ids[p] = ids[q] => p = q

(* The tables of c agree with the numbers of the server.                       *)
Agrees(c) ==
    /\ DOMAIN tables[c].toServer = DOMAIN plugins[c]
    /\ \A s \in DOMAIN plugins[c] :
          /\ tables[c].toServer[s] = ids[PluginAt(plugins[c], s)] % IdLimit
          /\ tables[c].toServer[s] \in DOMAIN tables[c].toGame
    /\ \A n \in DOMAIN tables[c].toGame :
          /\ tables[c].toGame[n] \in DOMAIN plugins[c]
          /\ tables[c].toServer[tables[c].toGame[n]] = n

Answer(c) == [p \in PluginsOf(plugins[c]) |-> ids[p] % IdLimit]

(* A player has all its plugins numbered, and has the numbers or is sent them. *)
Served(c) ==
    /\ PluginsOf(plugins[c]) \subseteq DOMAIN ids
    /\ answers[c] = <<Answer(c)>> \/ (answers[c] = <<>> /\ Agrees(c))

Clean ==
    /\ DOMAIN answers = Clients
    /\ DOMAIN tables = Clients
    /\ \A c \in Clients \ players : answers[c] = <<>>

LoadOrderInv ==
    /\ LoadOrderTypeOK
    /\ Numbered
    /\ Clean
    /\ \A c \in players : Served(c)

---------------------------------------------------------------------------
(* There are finitely many plugins.                                            *)
LEMMA PluginsFinite == IsFiniteSet(Plugins)
<1> DEFINE f == [t \in BOOLEAN \X Files |-> [lite |-> t[1], file |-> t[2]]]
<1>1. IsFiniteSet({TRUE}) /\ IsFiniteSet({FALSE})
  BY FS_Singleton
<1>2. IsFiniteSet({TRUE} \cup {FALSE})
  BY <1>1, FS_Union
<1>3. BOOLEAN = {TRUE} \cup {FALSE}
  OBVIOUS
<1>4. IsFiniteSet(BOOLEAN \X Files)
  BY <1>2, <1>3, FS_Product, LoadOrderAssumption
<1>5. f \in Surjection(BOOLEAN \X Files, Plugins)
  <2>1. f \in [BOOLEAN \X Files -> Plugins]
    BY DEF Plugins
  <2>2. \A p \in Plugins : \E t \in BOOLEAN \X Files : f[t] = p
    <3> TAKE p \in Plugins
    <3>1. f[<<p.lite, p.file>>] = p /\ <<p.lite, p.file>> \in BOOLEAN \X Files
      BY DEF Plugins
    <3> QED BY <3>1
  <2> QED BY <2>1, <2>2 DEF Surjection
<1> QED BY <1>4, <1>5, FS_Surjection

(* The slots of a load order hold plugins, no two of them the same one.        *)
LEMMA OrderFacts ==
  ASSUME NEW order \in LoadOrders
  PROVE  /\ PluginsOf(order) \subseteq Plugins
         /\ DOMAIN order \subseteq Slots
         /\ \A s \in DOMAIN order : PluginAt(order, s) \in PluginsOf(order)
         /\ \A s, t \in DOMAIN order : PluginAt(order, s) = PluginAt(order, t) => s = t
<1>1. PICK S \in SUBSET Slots : order \in [S -> Files]
  BY DEF LoadOrders
<1>2. \A s, t \in DOMAIN order : order[s] = order[t] => s = t
  BY DEF LoadOrders, IsInjective
<1>3. \A s \in DOMAIN order : PluginAt(order, s) \in Plugins
  BY <1>1 DEF PluginAt, Plugins, Slots
<1>4. \A s, t \in DOMAIN order : PluginAt(order, s) = PluginAt(order, t) => s = t
  BY <1>2 DEF PluginAt
<1> QED BY <1>1, <1>3, <1>4 DEF PluginsOf

(* Registering: the new plugins get the next numbers, the old ones keep theirs. *)
LEMMA RegistrationKeepsNumbers ==
  ASSUME LoadOrderTypeOK, Numbered, NEW new, new \subseteq Plugins,
         new \cap DOMAIN ids = {}, NEW f \in Registrations(new),
         ids' = Numbering(f), seed' = seed + Cardinality(new)
  PROVE  /\ Numbered'
         /\ DOMAIN ids' = DOMAIN ids \cup new
         /\ seed' \in Nat
         /\ \A p \in DOMAIN ids' : ids'[p] \in 0 .. seed' - 1
         /\ \A p \in DOMAIN ids : ids'[p] = ids[p]
<1>1. IsFiniteSet(new) /\ Cardinality(new) \in Nat
  BY PluginsFinite, FS_Subset, FS_CardinalityType
<1>2. /\ f \in [new -> seed .. seed + Cardinality(new) - 1]
      /\ \A p, q \in new : f[p] = f[q] => p = q
  BY DEF Registrations, IsInjective
<1>3. /\ DOMAIN ids' = DOMAIN ids \cup new
      /\ \A p \in DOMAIN ids : ids'[p] = ids[p]
      /\ \A p \in new : ids'[p] = f[p]
  BY <1>2 DEF Numbering
<1>4. IsFiniteSet(DOMAIN ids') /\ seed' = Cardinality(DOMAIN ids')
  <2>1. Cardinality(DOMAIN ids \cap new) = 0
    BY FS_EmptySet
  <2>2. IsFiniteSet(DOMAIN ids) /\ Cardinality(DOMAIN ids) \in Nat
    BY FS_CardinalityType DEF Numbered
  <2>3. /\ IsFiniteSet(DOMAIN ids \cup new)
        /\ Cardinality(DOMAIN ids \cup new) =
              Cardinality(DOMAIN ids) + Cardinality(new) - Cardinality(DOMAIN ids \cap new)
    BY <1>1, <2>2, FS_Union
  <2>4. Cardinality(DOMAIN ids \cup new) = seed + Cardinality(new)
    BY <1>1, <2>1, <2>2, <2>3 DEF Numbered
  <2> QED BY <1>3, <2>3, <2>4
<1>5. seed \in Nat /\ \A p \in DOMAIN ids : ids[p] \in 0 .. seed - 1
  BY DEF LoadOrderTypeOK
<1>6. \A p \in DOMAIN ids' : ids'[p] \in 0 .. seed' - 1
  BY <1>1, <1>2, <1>3, <1>5
<1>7. \A p, q \in DOMAIN ids' : ids'[p] = ids'[q] => p = q
  <2> SUFFICES ASSUME NEW p \in DOMAIN ids', NEW q \in DOMAIN ids', ids'[p] = ids'[q]
               PROVE  p = q
    OBVIOUS
  <2>1. CASE p \in DOMAIN ids /\ q \in DOMAIN ids
    BY <1>3, <2>1 DEF Numbered
  <2>2. CASE p \in new /\ q \in new
    BY <1>2, <1>3, <2>2
  <2>3. CASE p \in DOMAIN ids /\ q \in new
    BY <1>1, <1>2, <1>3, <1>5, <2>3
  <2>4. CASE p \in new /\ q \in DOMAIN ids
    BY <1>1, <1>2, <1>3, <1>5, <2>4
  <2> QED BY <1>3, <2>1, <2>2, <2>3, <2>4
<1> QED BY <1>1, <1>3, <1>4, <1>5, <1>6, <1>7 DEF Numbered

(* As long as the numbers of a player's plugins stay, it remains served.       *)
LEMMA StaysServed ==
  ASSUME NEW c \in Clients, Served(c), plugins' = plugins,
         tables'[c] = tables[c], answers'[c] = answers[c],
         DOMAIN ids \subseteq DOMAIN ids', \A p \in DOMAIN ids : ids'[p] = ids[p],
         plugins \in [Clients -> LoadOrders]
  PROVE  Served(c)'
<1>1. \A s \in DOMAIN plugins[c] : PluginAt(plugins[c], s) \in DOMAIN ids
  BY OrderFacts DEF Served
<1>2. Answer(c)' = Answer(c)
  BY DEF Served, Answer
<1>3. Agrees(c) => Agrees(c)'
  BY <1>1 DEF Agrees
<1> QED BY <1>2, <1>3 DEF Served

---------------------------------------------------------------------------
(* HandleAuthenticationRequest: one more player, or only more numbers, or       *)
(* nothing.                                                                    *)
LEMMA AuthenticationKeepsInv ==
  ASSUME LoadOrderInv, NEW c \in Clients, HandleAuthenticationRequest(c)
  PROVE  LoadOrderInv'
<1> USE DEF LoadOrderInv
<1>1. plugins \in [Clients -> LoadOrders] /\ plugins' = plugins /\ tables' = tables /\ mopo' = mopo
  BY DEF LoadOrderTypeOK, HandleAuthenticationRequest
<1>2. hello' \subseteq Clients /\ c \in hello /\ c \notin hello' /\ hello' \subseteq hello
      /\ c \notin players
  BY DEF LoadOrderTypeOK, HandleAuthenticationRequest
<1>3. CASE UNCHANGED <<ids, seed, players, answers>>
  <2>1. \A d \in players : Served(d)'
    BY <1>1, <1>3, StaysServed DEF LoadOrderTypeOK
  <2> QED BY <1>1, <1>2, <1>3, <2>1 DEF LoadOrderTypeOK, Numbered, Clean
<1>4. ASSUME NEW f \in Registrations(PluginsOf(plugins[c]) \ DOMAIN ids), ids' = Numbering(f),
             seed' = seed + Cardinality(PluginsOf(plugins[c]) \ DOMAIN ids)
      PROVE  /\ Numbered'
             /\ PluginsOf(plugins[c]) \subseteq DOMAIN ids'
             /\ DOMAIN ids \subseteq DOMAIN ids'
             /\ DOMAIN ids' \subseteq Plugins
             /\ seed' \in Nat
             /\ \A p \in DOMAIN ids' : ids'[p] \in 0 .. seed' - 1
             /\ \A p \in DOMAIN ids : ids'[p] = ids[p]
  <2> DEFINE new == PluginsOf(plugins[c]) \ DOMAIN ids
  <2>1. new \subseteq Plugins /\ new \cap DOMAIN ids = {}
    BY <1>1, OrderFacts
  <2> HIDE DEF new
  <2>2. f \in Registrations(new) /\ seed' = seed + Cardinality(new)
    BY <1>4 DEF new
  <2>3. /\ Numbered' /\ DOMAIN ids' = DOMAIN ids \cup new /\ seed' \in Nat
        /\ \A p \in DOMAIN ids' : ids'[p] \in 0 .. seed' - 1
        /\ \A p \in DOMAIN ids : ids'[p] = ids[p]
    BY <1>4, <2>1, <2>2, RegistrationKeepsNumbers
  <2> QED BY <2>1, <2>3 DEF new, LoadOrderTypeOK
<1>5. CASE /\ \E f \in Registrations(PluginsOf(plugins[c]) \ DOMAIN ids) : ids' = Numbering(f)
           /\ seed' = seed + Cardinality(PluginsOf(plugins[c]) \ DOMAIN ids)
           /\ players' = players \cup {c}
           /\ answers' = [answers EXCEPT ![c] =
                 <<[p \in PluginsOf(plugins[c]) |-> ids'[p] % IdLimit]>>]
  <2>1. Served(c)'
    BY <1>1, <1>4, <1>5 DEF Served, Answer, Clean
  <2>2. \A d \in players : Served(d)'
    <3> TAKE d \in players
    <3>1. d # c /\ answers'[d] = answers[d] /\ d \in Clients
      BY <1>2, <1>5 DEF LoadOrderTypeOK, Clean
    <3> QED BY <1>1, <1>4, <1>5, <3>1, StaysServed
  <2>3. Clean'
    BY <1>1, <1>5 DEF Clean
  <2>4. LoadOrderTypeOK'
    BY <1>1, <1>2, <1>4, <1>5 DEF LoadOrderTypeOK
  <2> QED BY <1>4, <1>5, <2>1, <2>2, <2>3, <2>4
<1>6. CASE /\ \E f \in Registrations(PluginsOf(plugins[c]) \ DOMAIN ids) : ids' = Numbering(f)
           /\ seed' = seed + Cardinality(PluginsOf(plugins[c]) \ DOMAIN ids)
           /\ UNCHANGED <<players, answers>>
  <2>1. \A d \in players : Served(d)'
    BY <1>1, <1>4, <1>6, StaysServed DEF LoadOrderTypeOK
  <2>2. LoadOrderTypeOK'
    BY <1>1, <1>2, <1>4, <1>6 DEF LoadOrderTypeOK
  <2> QED BY <1>1, <1>4, <1>6, <2>1, <2>2 DEF Clean
<1> QED BY <1>3, <1>5, <1>6 DEF HandleAuthenticationRequest

(* HandleMods: the tables are those of the answer.                             *)
LEMMA ModsKeepInv ==
  ASSUME LoadOrderInv, NEW c \in Clients, HandleMods(c)
  PROVE  LoadOrderInv'
<1> USE DEF LoadOrderInv
<1> DEFINE number == [s \in DOMAIN plugins[c] |-> Head(answers[c])[PluginAt(plugins[c], s)]]
<1>1. /\ UNCHANGED <<plugins, ids, seed, mopo, hello, players>>
      /\ answers' = [answers EXCEPT ![c] = <<>>] /\ answers[c] # <<>>
      /\ plugins \in [Clients -> LoadOrders]
  BY DEF HandleMods, LoadOrderTypeOK
<1>2. PICK first \in [Range(number) -> DOMAIN plugins[c]] :
         /\ \A n \in Range(number) : number[first[n]] = n
         /\ tables' = [tables EXCEPT ![c] = [toServer |-> number, toGame |-> first]]
  BY DEF HandleMods
<1>3. c \in players /\ answers[c] = <<Answer(c)>> /\ PluginsOf(plugins[c]) \subseteq DOMAIN ids
  BY <1>1 DEF Clean, Served
<1>4. \A s \in DOMAIN plugins[c] : number[s] = ids[PluginAt(plugins[c], s)] % IdLimit
  <2>1. Head(answers[c]) = Answer(c)
    BY <1>3
  <2> QED BY <1>1, <2>1, OrderFacts DEF Answer
<1>5. tables'[c] = [toServer |-> number, toGame |-> first]
  BY <1>2 DEF Clean
<1>6. DOMAIN number = DOMAIN plugins[c] /\ DOMAIN first = Range(number)
  OBVIOUS
<1>7. \A s \in DOMAIN plugins[c] : number[s] \in Range(number)
  BY DEF Range
<1> HIDE DEF number
<1>8. Agrees(c)'
  BY <1>1, <1>2, <1>4, <1>5, <1>6, <1>7 DEF Agrees
<1>9. Served(c)'
  BY <1>1, <1>3, <1>8 DEF Served, Clean
<1>10. \A d \in players : Served(d)'
  <2> SUFFICES ASSUME NEW d \in players, d # c
               PROVE  Served(d)'
    BY <1>9
  <2>1. d \in Clients /\ answers'[d] = answers[d] /\ tables'[d] = tables[d]
    BY <1>1, <1>2 DEF LoadOrderTypeOK, Clean
  <2> QED BY <1>1, <2>1, StaysServed
<1>11. Clean'
  BY <1>1, <1>2 DEF Clean
<1> QED BY <1>1, <1>10, <1>11 DEF LoadOrderTypeOK, Numbered

(* The other steps: a client that goes, one that asks, one that is installed    *)
(* anew, and a server that starts anew.                                        *)
LEMMA OthersKeepInv ==
  ASSUME LoadOrderInv,
         \/ Restart
         \/ \E c \in Clients : OnPlayerGone(c) \/ OnConnected(c)
         \/ \E c \in Clients : \E order \in LoadOrders : Reinstall(c, order)
         \/ UNCHANGED loadOrderVars
  PROVE  LoadOrderInv'
<1> USE DEF LoadOrderInv
<1>1. CASE Restart
  <2>1. DOMAIN ids' = {}
    BY <1>1 DEF Restart
  <2>2. Numbered'
    BY <1>1, <2>1, FS_EmptySet DEF Restart, Numbered
  <2> QED BY <1>1, <2>1, <2>2 DEF Restart, LoadOrderTypeOK, Clean
<1>2. ASSUME NEW c \in Clients, OnPlayerGone(c)
      PROVE  LoadOrderInv'
  <2>1. \A d \in players' : Served(d)'
    <3> TAKE d \in players'
    <3>1. d \in Clients /\ d # c /\ d \in players
      BY <1>2 DEF OnPlayerGone, LoadOrderTypeOK
    <3> QED BY <1>2, <3>1, StaysServed DEF OnPlayerGone, LoadOrderTypeOK, Clean
  <2> QED BY <1>2, <2>1 DEF OnPlayerGone, LoadOrderTypeOK, Numbered, Clean
<1>3. ASSUME NEW c \in Clients, OnConnected(c)
      PROVE  LoadOrderInv'
  <2>1. \A d \in players : Served(d)'
    BY <1>3, StaysServed DEF OnConnected, LoadOrderTypeOK
  <2> QED BY <1>3, <2>1 DEF OnConnected, LoadOrderTypeOK, Numbered, Clean
<1>4. ASSUME NEW c \in Clients, NEW order \in LoadOrders, Reinstall(c, order)
      PROVE  LoadOrderInv'
  <2>1. plugins \in [Clients -> LoadOrders] /\ DOMAIN tables = Clients
    BY DEF LoadOrderTypeOK, Clean
  <2>2. \A d \in players : /\ d \in Clients /\ Served(d)
                           /\ plugins'[d] = plugins[d] /\ tables'[d] = tables[d]
    BY <1>4, <2>1 DEF Reinstall, LoadOrderTypeOK
  <2>3. \A d \in players : Served(d)'
    <3> TAKE d \in players
    <3>1. /\ Served(d) /\ plugins'[d] = plugins[d] /\ tables'[d] = tables[d]
          /\ ids' = ids /\ answers' = answers
      BY <1>4, <2>2 DEF Reinstall
    <3>2. Answer(d)' = Answer(d) /\ (Agrees(d)' <=> Agrees(d))
      BY <3>1 DEF Answer, Agrees
    <3> QED BY <3>1, <3>2 DEF Served
  <2> QED BY <1>4, <2>1, <2>3 DEF Reinstall, LoadOrderTypeOK, Numbered, Clean
<1>5. CASE UNCHANGED loadOrderVars
  <2>1. \A d \in players : Served(d)'
    BY <1>5, StaysServed DEF loadOrderVars, LoadOrderTypeOK
  <2> QED BY <1>5, <2>1 DEF loadOrderVars, LoadOrderTypeOK, Numbered, Clean
<1> QED BY <1>1, <1>2, <1>3, <1>4, <1>5

(* LoadOrderInv is inductive: the numbers are distinct and stay, and every      *)
(* player's tables or the answer on its way agree with them                    *)
(* (HandleAuthenticationRequest, HandleMods).                                  *)
THEOREM LoadOrderInvariant == LoadOrderSpec => []LoadOrderInv
<1>1. LoadOrderInit => LoadOrderInv
  <2> SUFFICES ASSUME LoadOrderInit PROVE LoadOrderInv
    OBVIOUS
  <2>1. DOMAIN ids = {}
    BY DEF LoadOrderInit
  <2> QED BY <2>1, FS_EmptySet
          DEF LoadOrderInit, LoadOrderInv, LoadOrderTypeOK, Numbered, Clean
<1>2. LoadOrderInv /\ [LoadOrderNext]_loadOrderVars => LoadOrderInv'
  BY AuthenticationKeepsInv, ModsKeepInv, OthersKeepInv DEF LoadOrderNext
<1> QED BY <1>1, <1>2, PTL DEF LoadOrderSpec

(* The numbers are of their types, and no client asks that is a player already. *)
THEOREM LoadOrderTypes == LoadOrderSpec => []LoadOrderTypeOK
<1>1. LoadOrderInv => LoadOrderTypeOK
  BY DEF LoadOrderInv
<1> QED BY <1>1, LoadOrderInvariant, PTL

---------------------------------------------------------------------------
(* Numbers smaller than the limit are sent as they are.                        *)
LEMMA SmallRemainder ==
  ASSUME NEW i \in Nat, NEW n \in Nat, i < n
  PROVE  i % n = i
  OBVIOUS

(* With few plugins, two that have the same number on the wire are the same.   *)
LEMMA NumbersTell ==
  ASSUME LoadOrderInv, FewPlugins, NEW p \in DOMAIN ids, NEW q \in DOMAIN ids,
         ids[p] % IdLimit = ids[q] % IdLimit
  PROVE  p = q
<1>1. DOMAIN ids \in SUBSET Plugins /\ seed \in Nat
      /\ ids[p] \in 0 .. seed - 1 /\ ids[q] \in 0 .. seed - 1
  BY DEF LoadOrderInv, LoadOrderTypeOK
<1>2. Cardinality(DOMAIN ids) <= Cardinality(Plugins) /\ Cardinality(Plugins) \in Nat
  BY <1>1, PluginsFinite, FS_Subset, FS_CardinalityType
<1>3. seed <= IdLimit /\ IdLimit \in Nat
  BY <1>1, <1>2, LoadOrderAssumption DEF FewPlugins, LoadOrderInv, Numbered
<1>4. ids[p] % IdLimit = ids[p]
  BY <1>1, <1>3, SmallRemainder
<1>5. ids[q] % IdLimit = ids[q]
  BY <1>1, <1>3, SmallRemainder
<1> QED BY <1>4, <1>5 DEF LoadOrderInv, Numbered

(* Whatever the load orders, and whoever was admitted before, the games of two  *)
(* players name a form of the same plugin to each other (GetServerModId,       *)
(* GetGameId).                                                                 *)
THEOREM FormsAlwaysTranslate == LoadOrderSpec => []FormsTranslate
<1>1. LoadOrderInv => FormsTranslate
  <2> SUFFICES ASSUME LoadOrderInv, FewPlugins, NEW c \in Clients, NEW d \in Clients,
                      Ready(c), Ready(d)
               PROVE  /\ \A s \in DOMAIN plugins[c] :
                            GetGameId(d, GetServerModId(c, s)) = Counterpart(c, s, d)
                      /\ GetGameId(d, GetServerModId(c, Temporary)) = NoSlot
    BY DEF FormsTranslate
  <2>1. \A e \in {c, d} : /\ Agrees(e) /\ PluginsOf(plugins[e]) \subseteq DOMAIN ids
                          /\ plugins[e] \in LoadOrders
    <3>1. \A e \in {c, d} : answers[e] # <<Answer(e)>>
      BY DEF Ready
    <3> QED BY <3>1 DEF LoadOrderInv, LoadOrderTypeOK, Ready, Served
  <2>2. ASSUME NEW s \in DOMAIN plugins[c]
        PROVE  GetGameId(d, GetServerModId(c, s)) = Counterpart(c, s, d)
    <3> DEFINE p == PluginAt(plugins[c], s)
               n == ids[p] % IdLimit
    <3>1. p \in DOMAIN ids
      BY <2>1, OrderFacts
    <3>2. GetServerModId(c, s) = n
      <4>1. s \in Slots
        BY <2>1, OrderFacts
      <4>2. s # Temporary
        BY <4>1 DEF Slots, Temporary
      <4> QED BY <2>1, <4>2 DEF GetServerModId, Agrees
    <3>3. \A t \in DOMAIN plugins[d] :
             /\ PluginAt(plugins[d], t) \in DOMAIN ids
             /\ \A u \in DOMAIN plugins[d] :
                   PluginAt(plugins[d], t) = PluginAt(plugins[d], u) => t = u
      BY <2>1, OrderFacts
    <3>4. CASE n \in DOMAIN tables[d].toGame
      <4> DEFINE t == tables[d].toGame[n]
      <4>1. t \in DOMAIN plugins[d] /\ ids[PluginAt(plugins[d], t)] % IdLimit = n
        BY <2>1, <3>4 DEF Agrees
      <4>2. PluginAt(plugins[d], t) = p
        BY <3>1, <3>3, <4>1, NumbersTell
      <4>3. Counterpart(c, s, d) = t
        BY <3>3, <4>1, <4>2 DEF Counterpart
      <4> QED BY <3>2, <3>4, <4>3 DEF GetGameId
    <3>5. CASE n \notin DOMAIN tables[d].toGame
      <4>1. \A t \in DOMAIN plugins[d] : PluginAt(plugins[d], t) # p
        BY <2>1, <3>5 DEF Agrees
      <4>2. Counterpart(c, s, d) = NoSlot
        BY <4>1 DEF Counterpart
      <4> QED BY <3>2, <3>5, <4>2 DEF GetGameId
    <3> QED BY <3>4, <3>5
  <2>3. GetGameId(d, GetServerModId(c, Temporary)) = NoSlot
    <3>1. GetServerModId(c, Temporary) = -1
      BY DEF GetServerModId, TemporaryId
    <3>2. -1 \notin DOMAIN tables[d].toGame
      <4> SUFFICES ASSUME -1 \in DOMAIN tables[d].toGame PROVE FALSE
        OBVIOUS
      <4>1. PICK t \in DOMAIN plugins[d] : ids[PluginAt(plugins[d], t)] % IdLimit = -1
        BY <2>1 DEF Agrees
      <4>2. ids[PluginAt(plugins[d], t)] \in Nat
        BY <2>1, OrderFacts DEF LoadOrderInv, LoadOrderTypeOK
      <4>3. ids[PluginAt(plugins[d], t)] % IdLimit \in 0 .. IdLimit - 1
        BY <4>2, LoadOrderAssumption
      <4> QED BY <4>1, <4>3
    <3> QED BY <3>1, <3>2 DEF GetGameId
  <2> QED BY <2>2, <2>3
<1> QED BY <1>1, LoadOrderInvariant, PTL

---------------------------------------------------------------------------
(* What the players see of each other: Snapshots *)

Deeds == 0 .. MaxDeed

States == [pos : Deeds, act : Deeds]
Looks == States \cup {Hidden}

Sayings == [type : {"move"}, cell : Chambers, pos : Deeds, act : Deeds] \cup
           [type : {"enter"}, cell : Chambers]

Spawns == [type : {"spawn"}, who : Clients, pos : Deeds, act : Deeds, stay : Int]
Removals == [type : {"remove"}, who : Clients, stay : Int]
MoveSights == [type : {"move"}, stay : Int, updates : UNION {[S -> States] : S \in SUBSET Clients}]
Sights == Spawns \cup Removals \cup MoveSights

SnapshotTypes ==
    /\ {stands, playerCell, charCell} \subseteq [Clients -> Chambers]
    /\ {pos, act, untold, at, current, actions} \subseteq [Clients -> Deeds]
    /\ \A c \in Clients : pos[c] + act[c] <= MaxDeed
    /\ sent \in [Clients -> BOOLEAN]
    /\ view \in [Clients -> [Clients -> Looks]]
    /\ said \in [Clients -> Seq(Sayings)]
    /\ sights \in [Clients -> Seq(Sights)]
    /\ visits \in [Clients -> Nat]
    /\ missed \subseteq Clients \X Clients

\* The cell that c is in after the first i of its messages
CellAfter(c, i) == IF i = 0 THEN playerCell[c] ELSE said[c][i].cell

(* A client says it enters a cell where it is in another, and reports from the *)
(* cell that it entered last.                                                  *)
Trodden(c) ==
    /\ \A i \in 1 .. Len(said[c]) :
          said[c][i].type = "move" <=> said[c][i].cell = CellAfter(c, i - 1)
    /\ stands[c] = CellAfter(c, Len(said[c]))

\* Reports of an action, and those of the last one
Enacted == {m \in Sayings : m.type = "move" /\ m.act # 0}
Enacting(a) == {m \in Enacted : m.act = a}

(* The last action is yet to be told, on its way or recorded, and a recorded   *)
(* one waits for the next snapshot or has been in one.                         *)
ActTold(c) ==
    /\ actions[c] \in {0, current[c]}
    /\ \/ untold[c] # 0 /\ untold[c] = act[c]
       \/ /\ untold[c] = 0
          /\ \/ Latest(said[c], Enacted, Enacting(act[c]))
             \/ ~Carries(said[c], Enacted) /\ current[c] = act[c]

Entrances == {m \in Sayings : m.type = "enter"}
Entering(d) == Carries(said[d], Entrances)

\* Messages about c, and those of them that are meant for another stay than n
Mentions(c) ==
    {m \in Sights : IF m.type = "move" THEN c \in DOMAIN m.updates ELSE m.who = c}
Stale(c, n) == {m \in Mentions(c) : m.stay # n}

\* Nothing is meant for a stay that is yet to come
Late(n) == {m \in Sights : m.stay > n}
InTime(d) == ~Carries(sights[d], Late(visits[d]))

\* What a message makes of the sight of c
Effect(c, m, v) ==
    IF m \notin Mentions(c) THEN v
    ELSE IF m.type = "spawn" THEN IF v = Hidden THEN [pos |-> m.pos, act |-> m.act] ELSE v
    ELSE IF m.type = "remove" THEN Hidden
    ELSE IF v = Hidden THEN v
    ELSE [pos |-> m.updates[c].pos,
          act |-> IF m.updates[c].act = 0 THEN v.act ELSE m.updates[c].act]

Effects(c) == {e \in Looks \X Sights \X Looks : e[3] = Effect(c, e[2], e[1])}

(* What d has to see of c when it has read everything: c if they are in the    *)
(* same cell, where it was when the last snapshot with it was made, and in the *)
(* state of its last action unless that waits for the next snapshot.           *)
DueSight(d, c, v) ==
    /\ v # Hidden <=> playerCell[c] = playerCell[d]
    /\ playerCell[c] = playerCell[d] =>
          /\ sent[c] /\ charCell[c] = playerCell[c] => v.pos = at[c]
          /\ \/ v.act = current[c]
             \/ ~sent[c] /\ charCell[c] = playerCell[c] /\ actions[c] # 0

StillUnseen(d, c) == view[d][c] = Hidden /\ ~Carries(sights[d], Mentions(c))

Pictured(d, c) ==
    \E v \in Looks : Leads(sights[d], Looks, Effects(c), view[d][c], v) /\ DueSight(d, c, v)

(* d and c have missed each other or will, d is at the door and sees nobody,   *)
(* or what d sees and will read makes what it has to see.                      *)
Regarded(d, c) ==
    \/ <<d, c>> \in missed
    \/ Carries(sights[d], Stale(c, visits[d]))
    \/ Entering(d) /\ StillUnseen(d, c)
    \/ ~Entering(d) /\ Pictured(d, c)

SnapshotInv ==
    /\ SnapshotTypes
    /\ \A c \in Clients : Trodden(c) /\ ActTold(c) /\ InTime(c)
    /\ \A d \in Clients : \A c \in Others(d) : Regarded(d, c)

(* What is shown, and what is not.                                             *)
LEMMA HiddenIsNoState ==
    /\ Hidden \notin States /\ Hidden \in Looks /\ 0 \in Deeds /\ Deeds \subseteq Nat
    /\ \A p, a \in Deeds : [pos |-> p, act |-> a] \in States
BY SnapshotsAssumption DEF Hidden, States, Looks, Deeds

(* What a message makes of the sight of c is one thing only.                   *)
LEMMA EffectsAre ==
    ASSUME NEW c, NEW m \in Sights, NEW v \in Looks
    PROVE  /\ Effect(c, m, v) \in Looks
           /\ \A w : <<v, m, w>> \in Effects(c) <=> w = Effect(c, m, v)
<1>1. ASSUME m \in MoveSights, c \in DOMAIN m.updates PROVE m.updates[c] \in States
  BY <1>1 DEF MoveSights
<1>2. m.type = "move" => m \in MoveSights
  BY DEF Sights, Spawns, Removals
<1>3. m.type = "spawn" => m \in Spawns
  BY DEF Sights, MoveSights, Removals
<1>4. Effect(c, m, v) \in Looks
  <2>1. CASE m \notin Mentions(c)
    BY <2>1 DEF Effect
  <2>2. CASE m \in Mentions(c) /\ m.type = "spawn"
    BY <1>3, <2>2, HiddenIsNoState DEF Effect, Spawns, Looks
  <2>3. CASE m \in Mentions(c) /\ m.type = "remove"
    BY <2>3, HiddenIsNoState DEF Effect
  <2>4. CASE m \in Mentions(c) /\ m.type = "move"
    <3>1. m.updates[c] \in States
      BY <1>1, <1>2, <2>4 DEF Mentions
    <3>2. v = Hidden \/ v \in States
      BY DEF Looks
    <3>3. v \in States => [pos |-> m.updates[c].pos,
                           act |-> IF m.updates[c].act = 0 THEN v.act ELSE m.updates[c].act] \in States
      BY <3>1 DEF States
    <3> QED BY <2>4, <3>2, <3>3 DEF Effect, Looks
  <2>5. m.type \in {"spawn", "remove", "move"}
    BY DEF Sights, Spawns, Removals, MoveSights
  <2> QED BY <2>1, <2>2, <2>3, <2>4, <2>5
<1>5. ASSUME NEW w PROVE <<v, m, w>> \in Effects(c) <=> w = Effect(c, m, v)
  BY <1>4 DEF Effects
<1> QED BY <1>4, <1>5

(* At the start nobody has anything to hear.                                   *)
LEMMA InitSnapshots == SnapshotInit => SnapshotInv
<1> SUFFICES ASSUME SnapshotInit PROVE SnapshotInv
  OBVIOUS
<1>1. /\ said = [c \in Clients |-> <<>>] /\ sights = [c \in Clients |-> <<>>]
      /\ playerCell = stands /\ charCell = stands /\ stands \in [Clients -> Chambers]
      /\ pos = [c \in Clients |-> 0] /\ act = [c \in Clients |-> 0] /\ untold = [c \in Clients |-> 0]
      /\ at = pos /\ current = act /\ actions = untold
      /\ sent = [c \in Clients |-> FALSE] /\ visits = [c \in Clients |-> 0] /\ missed = {}
      /\ view = [d \in Clients |-> [c \in Clients |->
                   IF c # d /\ stands[c] = stands[d] THEN [pos |-> 0, act |-> 0] ELSE Hidden]]
  BY DEF SnapshotInit
<1>2. SnapshotTypes
  <2>1. view \in [Clients -> [Clients -> Looks]]
    BY <1>1, HiddenIsNoState DEF Looks
  <2>2. {pos, act, untold, at, current, actions} \subseteq [Clients -> Deeds]
    BY <1>1, HiddenIsNoState
  <2>3. \A c \in Clients : pos[c] + act[c] <= MaxDeed
    BY <1>1, SnapshotsAssumption
  <2>4. said \in [Clients -> Seq(Sayings)] /\ sights \in [Clients -> Seq(Sights)]
    <3>1. <<>> \in Seq(Sayings) /\ <<>> \in Seq(Sights)
      BY EmptySeq
    <3> QED BY <1>1, <3>1
  <2> QED BY <1>1, <2>1, <2>2, <2>3, <2>4 DEF SnapshotTypes
<1>3. ASSUME NEW c \in Clients PROVE Trodden(c) /\ ActTold(c) /\ InTime(c)
  BY <1>1, CarriesNothing DEF Trodden, CellAfter, ActTold, InTime
<1>4. ASSUME NEW d \in Clients, NEW c \in Others(d) PROVE Regarded(d, c)
  <2>1. ~Entering(d)
    BY <1>1, CarriesNothing DEF Entering
  <2>2. c \in Clients /\ c # d
    BY DEF Others
  <2> DEFINE v == view[d][c]
  <2>3. v = (IF stands[c] = stands[d] THEN [pos |-> 0, act |-> 0] ELSE Hidden) /\ v \in Looks
    BY <1>1, <2>2, HiddenIsNoState DEF Looks
  <2>4. DueSight(d, c, v)
    BY <1>1, <2>2, <2>3, HiddenIsNoState DEF DueSight
  <2> HIDE DEF v
  <2>5. Leads(sights[d], Looks, Effects(c), v, v)
    BY <1>1, <2>3, LeadsOnTheSpot
  <2> QED BY <2>1, <2>3, <2>4, <2>5 DEF Regarded, Pictured, v
<1> QED BY <1>2, <1>3, <1>4 DEF SnapshotInv

(* What a character does not take part in leaves its walk.                     *)
LEMMA TroddenStays ==
    ASSUME NEW d \in Clients, Trodden(d), said'[d] = said[d], stands'[d] = stands[d],
           playerCell'[d] = playerCell[d]
    PROVE  Trodden(d)'
<1>1. \A i : CellAfter(d, i)' = CellAfter(d, i)
  BY DEF CellAfter
<1>2. (Trodden(d))' <=> /\ \A i \in 1 .. Len(said'[d]) :
                             said'[d][i].type = "move" <=> said'[d][i].cell = CellAfter(d, i - 1)
                       /\ stands'[d] = CellAfter(d, Len(said'[d]))
  BY <1>1 DEF Trodden, CellAfter
<1> QED BY <1>2 DEF Trodden

(* What a client says more.                                                    *)
LEMMA TroddenFurther ==
    ASSUME SnapshotTypes, NEW c \in Clients, Trodden(c), NEW m \in Sayings,
           said'[c] = Append(said[c], m), playerCell'[c] = playerCell[c],
           m.type = "move" <=> m.cell = stands[c], stands'[c] = m.cell
    PROVE  Trodden(c)'
<1>0. said[c] \in Seq(Sayings) /\ Len(said[c]) \in Nat
  BY LenProperties DEF SnapshotTypes
<1>1. PICK n \in Nat : n = Len(said[c])
  BY <1>0
<1>2. /\ Len(said'[c]) = n + 1 /\ said'[c][n + 1] = m
      /\ \A i \in 1 .. n : said'[c][i] = said[c][i]
  BY <1>0, <1>1, AppendProperties
<1>3. /\ \A i \in 1 .. n : said[c][i].type = "move" <=> said[c][i].cell = CellAfter(c, i - 1)
      /\ stands[c] = CellAfter(c, n)
  BY <1>1 DEF Trodden
<1>4. \A i \in 0 .. n : CellAfter(c, i)' = CellAfter(c, i)
  BY <1>1, <1>2 DEF CellAfter
<1>5. CellAfter(c, n + 1)' = m.cell
  <2>1. n + 1 # 0
    BY <1>1
  <2> QED BY <1>2, <2>1 DEF CellAfter
<1>6. ASSUME NEW i \in 1 .. n + 1
      PROVE  said'[c][i].type = "move" <=> said'[c][i].cell = CellAfter(c, i - 1)'
  <2>1. CASE i = n + 1
    <3>1. i - 1 = n /\ n \in 0 .. n
      BY <1>1, <2>1
    <3> QED BY <1>2, <1>3, <1>4, <2>1, <3>1
  <2>2. CASE i # n + 1
    <3>1. i \in 1 .. n /\ i - 1 \in 0 .. n
      BY <1>1, <2>2
    <3> QED BY <1>2, <1>3, <1>4, <3>1
  <2> QED BY <2>1, <2>2
<1>7. stands'[c] = CellAfter(c, n + 1)'
  BY <1>5
<1> QED BY <1>2, <1>6, <1>7 DEF Trodden

(* What the server hears of it.                                                *)
LEMMA TroddenHeard ==
    ASSUME SnapshotTypes, NEW c \in Clients, Trodden(c), said[c] # <<>>,
           said'[c] = Tail(said[c]), playerCell'[c] = Head(said[c]).cell, stands'[c] = stands[c]
    PROVE  /\ Trodden(c)'
           /\ Head(said[c]).type = "move" <=> Head(said[c]).cell = playerCell[c]
<1>0. /\ Len(said[c]) \in Nat \ {0} /\ Len(said'[c]) = Len(said[c]) - 1
      /\ Head(said[c]) = said[c][1]
      /\ \A i \in 1 .. Len(said[c]) - 1 : said'[c][i] = said[c][i + 1]
  <2>1. said[c] \in Seq(Sayings)
    BY DEF SnapshotTypes
  <2> QED BY <2>1, EmptySeq, HeadTailProperties
<1>n. PICK n \in Nat \ {0} : n = Len(said[c])
  BY <1>0
<1>1. /\ n \in Nat \ {0} /\ n = Len(said[c]) /\ Len(said'[c]) = n - 1 /\ Head(said[c]) = said[c][1]
      /\ \A i \in 1 .. n - 1 : said'[c][i] = said[c][i + 1]
  BY <1>0, <1>n
<1>2. /\ \A i \in 1 .. n : said[c][i].type = "move" <=> said[c][i].cell = CellAfter(c, i - 1)
      /\ stands[c] = CellAfter(c, n)
  BY <1>1 DEF Trodden
<1>3. \A i \in 0 .. n - 1 : CellAfter(c, i)' = CellAfter(c, i + 1)
  <2> TAKE i \in 0 .. n - 1
  <2>1. CASE i = 0
    BY <1>1, <2>1 DEF CellAfter
  <2>2. CASE i # 0
    <3>1. i \in 1 .. n - 1 /\ i + 1 # 0
      BY <1>1, <2>2
    <3> QED BY <1>1, <2>2, <3>1 DEF CellAfter
  <2> QED BY <2>1, <2>2
<1>4. ASSUME NEW i \in 1 .. n - 1
      PROVE  said'[c][i].type = "move" <=> said'[c][i].cell = CellAfter(c, i - 1)'
  <2>1. i + 1 \in 1 .. n /\ i - 1 \in 0 .. n - 1 /\ i + 1 - 1 = i /\ i - 1 + 1 = i
    BY <1>1
  <2>2. said[c][i + 1].type = "move" <=> said[c][i + 1].cell = CellAfter(c, i)
    BY <1>2, <2>1
  <2>3. CellAfter(c, i - 1)' = CellAfter(c, i)
    BY <1>3, <2>1
  <2> QED BY <1>1, <2>2, <2>3
<1>5. stands'[c] = CellAfter(c, n - 1)'
  <2>1. n - 1 \in 0 .. n - 1 /\ n - 1 + 1 = n
    BY <1>1
  <2> QED BY <1>2, <1>3, <2>1
<1>6. Head(said[c]).type = "move" <=> Head(said[c]).cell = playerCell[c]
  <2>1. 1 \in 1 .. n /\ 1 - 1 = 0
    BY <1>1
  <2> QED BY <1>1, <1>2, <2>1 DEF CellAfter
<1> QED BY <1>1, <1>4, <1>5, <1>6 DEF Trodden

(* How often a player has entered a cell, by what it has yet to be heard of.   *)
LEMMA StaysCounted ==
    ASSUME SnapshotTypes, NEW d \in Clients
    PROVE  /\ StayOf(d) \in Int /\ StayOf(d) <= visits[d]
           /\ Entering(d) => StayOf(d) < visits[d]
           /\ ~Entering(d) => StayOf(d) = visits[d]
           /\ said[d] # <<>> /\ Head(said[d]).type = "enter" =>
                 /\ Carries(Tail(said[d]), Entrances) => StayOf(d) + 1 < visits[d]
                 /\ ~Carries(Tail(said[d]), Entrances) => StayOf(d) + 1 = visits[d]
<1> DEFINE s == said[d]
           n == Len(s)
           I == {i \in 1 .. n : s[i].type = "enter"}
<1>1. s \in Seq(Sayings) /\ n \in Nat /\ visits[d] \in Nat /\ \A i \in 1 .. n : s[i] \in Sayings
  BY LenProperties, ElementOfSeq DEF SnapshotTypes
<1>2. IsFiniteSet(I)
  <2>1. IsFiniteSet(1 .. n)
    BY <1>1, FS_Interval
  <2> QED BY <2>1, FS_Subset
<1>3. StayOf(d) = visits[d] - Cardinality(I)
  <2>1. DOMAIN s = 1 .. n
    BY <1>1
  <2> QED BY <2>1 DEF StayOf
<1>4. Entering(d) <=> I # {}
  BY <1>1 DEF Entering, Carries, Entrances
<1>5. Cardinality(I) \in Nat /\ (Cardinality(I) = 0 <=> I = {})
  BY <1>2, FS_CardinalityType, FS_EmptySet
<1>6. ASSUME s # <<>>, Head(s).type = "enter"
      PROVE  /\ Carries(Tail(s), Entrances) => StayOf(d) + 1 < visits[d]
             /\ ~Carries(Tail(s), Entrances) => StayOf(d) + 1 = visits[d]
  <2> DEFINE t == Tail(s)
  <2>1. n # 0 /\ Len(t) = n - 1 /\ Head(s) = s[1] /\ \A i \in 1 .. n - 1 : t[i] = s[i + 1]
    BY <1>1, <1>6, EmptySeq, HeadTailProperties
  <2>2. 1 \in I
    BY <1>1, <1>6, <2>1
  <2>3. /\ IsFiniteSet(I \ {1}) /\ Cardinality(I \ {1}) = Cardinality(I) - 1
        /\ (Cardinality(I \ {1}) = 0 <=> I \ {1} = {}) /\ Cardinality(I \ {1}) \in Nat
    <3> DEFINE J == I \ {1}
    <3> HIDE DEF I
    <3>1. IsFiniteSet(J) /\ Cardinality(J) = Cardinality(I) - 1
      BY <1>2, <2>2, FS_RemoveElement
    <3> HIDE DEF J
    <3>2. (Cardinality(J) = 0 <=> J = {}) /\ Cardinality(J) \in Nat
      BY <3>1, FS_CardinalityType, FS_EmptySet
    <3> QED BY <3>1, <3>2 DEF J
  <2> HIDE DEF t
  <2>4. Carries(t, Entrances) <=> I \ {1} # {}
    <3>1. ASSUME Carries(t, Entrances) PROVE I \ {1} # {}
      <4>1. PICK i \in 1 .. n - 1 : t[i].type = "enter"
        BY <2>1, <3>1 DEF Carries, Entrances
      <4>2. i + 1 \in I \ {1}
        BY <1>1, <2>1, <4>1
      <4> QED BY <4>2
    <3>2. ASSUME NEW i \in I \ {1} PROVE Carries(t, Entrances)
      <4>1. i - 1 \in 1 .. Len(t) /\ t[i - 1] = s[i]
        BY <1>1, <2>1
      <4> QED BY <1>1, <4>1 DEF Carries, Entrances
    <3> QED BY <3>1, <3>2
  <2> QED BY <1>1, <1>3, <1>5, <2>3, <2>4 DEF t
<1> QED BY <1>1, <1>3, <1>4, <1>5, <1>6

(* Ways to be regarded after a step.                                           *)
LEMMA RegardedThen ==
    ASSUME NEW d, NEW c,
           \/ <<d, c>> \in missed'
           \/ Carries(sights'[d], Stale(c, visits'[d]))
           \/ Entering(d)' /\ view'[d][c] = Hidden /\ ~Carries(sights'[d], Mentions(c))
           \/ /\ ~Entering(d)'
              /\ \E v \in Looks : /\ Leads(sights'[d], Looks, Effects(c), view'[d][c], v)
                                  /\ DueSight(d, c, v)'
    PROVE  Regarded(d, c)'
BY DEF Regarded, StillUnseen, Pictured, Stale, Mentions, Effects, Looks, Sights, Hidden,
       Effect, States, Deeds, Spawns, Removals, MoveSights

(* What d has seen and hears stays the same.                                   *)
LEMMA RegardStays ==
    ASSUME NEW d \in Clients, NEW c \in Clients, Regarded(d, c),
           sights'[d] = sights[d], view'[d][c] = view[d][c], visits'[d] = visits[d],
           Entering(d)' <=> Entering(d), missed \subseteq missed',
           \A v \in Looks : DueSight(d, c, v) => DueSight(d, c, v)'
    PROVE  Regarded(d, c)'
<1>1. CASE <<d, c>> \in missed
  BY <1>1, RegardedThen
<1>2. CASE Carries(sights[d], Stale(c, visits[d]))
  BY <1>2, RegardedThen
<1>3. CASE Entering(d) /\ StillUnseen(d, c)
  BY <1>3, RegardedThen DEF StillUnseen
<1>4. CASE ~Entering(d) /\ Pictured(d, c)
  BY <1>4, RegardedThen DEF Pictured
<1> QED BY <1>1, <1>2, <1>3, <1>4 DEF Regarded

(* The server tells d something.                                               *)
LEMMA PostedSight ==
    ASSUME SnapshotTypes, NEW d \in Clients, NEW c \in Clients, Regarded(d, c), NEW m \in Sights,
           sights'[d] = Append(sights[d], m), m.stay = StayOf(d),
           view'[d][c] = view[d][c], visits'[d] = visits[d], said'[d] = said[d],
           missed \subseteq missed',
           \A v, w \in Looks : DueSight(d, c, v) /\ w = Effect(c, m, v) => DueSight(d, c, w)'
    PROVE  Regarded(d, c)'
<1>1. sights[d] \in Seq(Sights)
  BY DEF SnapshotTypes
<1>2. \A K : Carries(sights'[d], K) <=> Carries(sights[d], K) \/ m \in K
  BY <1>1, CarriesMore
<1>3. Entering(d)' <=> Entering(d)
  BY DEF Entering, Entrances, Sayings, Deeds
<1>4. CASE <<d, c>> \in missed
  BY <1>4, RegardedThen
<1>5. CASE Carries(sights[d], Stale(c, visits[d]))
  BY <1>2, <1>5, RegardedThen
<1>6. CASE Entering(d) /\ StillUnseen(d, c) /\ m \in Mentions(c)
  <2>1. StayOf(d) < visits[d] /\ visits[d] \in Nat /\ StayOf(d) \in Int
    BY <1>6, StaysCounted DEF SnapshotTypes
  <2>2. m \in Stale(c, visits'[d])
    BY <1>6, <2>1 DEF Stale
  <2> QED BY <1>2, <2>2, RegardedThen
<1>7. CASE Entering(d) /\ StillUnseen(d, c) /\ m \notin Mentions(c)
  BY <1>2, <1>3, <1>7, RegardedThen DEF StillUnseen
<1>8. CASE ~Entering(d) /\ Pictured(d, c)
  <2>1. PICK v \in Looks : Leads(sights[d], Looks, Effects(c), view[d][c], v) /\ DueSight(d, c, v)
    BY <1>8 DEF Pictured
  <2> DEFINE w == Effect(c, m, v)
  <2>2. w \in Looks /\ <<v, m, w>> \in Effects(c)
    BY EffectsAre
  <2>3. \A x \in Looks : x = Effect(c, m, v) => DueSight(d, c, x)'
    BY <2>1
  <2> HIDE DEF w
  <2>4. Leads(sights'[d], Looks, Effects(c), view'[d][c], w)
    BY <1>1, <2>1, <2>2, LeadsOn
  <2>5. \E x \in Looks : Leads(sights'[d], Looks, Effects(c), view'[d][c], x) /\ DueSight(d, c, x)'
    <3>1. PICK x \in Looks : x = w
      BY <2>2
    <3>2. DueSight(d, c, x)'
      BY <2>3, <3>1 DEF w
    <3> QED BY <2>4, <3>1, <3>2
  <2> QED BY <1>3, <1>8, <2>5, RegardedThen
<1> QED BY <1>4, <1>5, <1>6, <1>7, <1>8 DEF Regarded

(* The game of c moves its character, or it acts.                              *)
LEMMA ActsKeepsInv ==
    ASSUME SnapshotInv, NEW c \in Clients, Acts(c)
    PROVE  SnapshotInv'
<1>1. SnapshotTypes
  BY DEF SnapshotInv
<1>2. /\ pos[c] + act[c] < MaxDeed
      /\ \/ pos' = [pos EXCEPT ![c] = @ + 1] /\ UNCHANGED <<act, untold>>
         \/ /\ act' = [act EXCEPT ![c] = @ + 1]
            /\ untold' = [untold EXCEPT ![c] = act'[c]]
            /\ UNCHANGED pos
      /\ UNCHANGED <<stands, view, said, sights, playerCell, charCell, at, current, actions, sent,
                     visits, missed>>
  BY DEF Acts, recordVars
<1>3. /\ {pos', act', untold'} \subseteq [Clients -> Deeds]
      /\ \A d \in Clients : pos'[d] + act'[d] <= MaxDeed
  <2>1. /\ pos \in [Clients -> Deeds] /\ act \in [Clients -> Deeds] /\ untold \in [Clients -> Deeds]
        /\ \A d \in Clients : pos[d] + act[d] <= MaxDeed
    BY <1>1 DEF SnapshotTypes
  <2>2. \A d \in Clients : pos[d] \in Deeds /\ act[d] \in Deeds
    BY <2>1
  <2>3. CASE pos' = [pos EXCEPT ![c] = @ + 1] /\ UNCHANGED <<act, untold>>
    <3>1. pos[c] + 1 \in Deeds /\ pos[c] + 1 + act[c] <= MaxDeed
      BY <1>2, <2>2, SnapshotsAssumption DEF Deeds
    <3> QED BY <2>1, <2>3, <3>1
  <2>4. CASE act' = [act EXCEPT ![c] = @ + 1] /\ untold' = [untold EXCEPT ![c] = act'[c]]
             /\ UNCHANGED pos
    <3>1. act[c] + 1 \in Deeds /\ pos[c] + (act[c] + 1) <= MaxDeed
      BY <1>2, <2>2, SnapshotsAssumption DEF Deeds
    <3> QED BY <2>1, <2>4, <3>1
  <2> QED BY <1>2, <2>3, <2>4
<1>4. SnapshotTypes'
  BY <1>1, <1>2, <1>3 DEF SnapshotTypes, Looks, States, Deeds, Hidden, Sayings, Sights, Spawns,
                          Removals, MoveSights
<1>5. ASSUME NEW d \in Clients PROVE Trodden(d)' /\ ActTold(d)' /\ InTime(d)'
  <2>1. Trodden(d) /\ ActTold(d) /\ InTime(d)
    BY DEF SnapshotInv
  <2>2. Trodden(d)'
    <3>1. said'[d] = said[d] /\ stands'[d] = stands[d] /\ playerCell'[d] = playerCell[d]
      BY <1>2, <2>1
    <3> QED BY <2>1, <3>1, TroddenStays
  <2>3. InTime(d)'
    BY <1>2, <2>1 DEF InTime, Late, Sights, Spawns, Removals, MoveSights, States, Deeds
  <2>4. act'[d] = act[d] /\ untold'[d] = untold[d] => ActTold(d)'
    BY <1>2, <2>1 DEF ActTold, Enacted, Enacting, Sayings, Deeds
  <2>5. ASSUME d = c, act' = [act EXCEPT ![c] = @ + 1], untold' = [untold EXCEPT ![c] = act'[c]]
        PROVE  ActTold(d)'
    <3>1. act[c] \in Deeds /\ act'[c] = act[c] + 1 /\ untold'[c] = act'[c]
      BY <1>1, <2>5 DEF SnapshotTypes
    <3>2. untold'[c] # 0
      BY <3>1, SnapshotsAssumption DEF Deeds
    <3> QED BY <1>2, <2>1, <2>5, <3>1, <3>2 DEF ActTold
  <2>6. act \in [Clients -> Deeds] /\ untold \in [Clients -> Deeds]
    BY <1>1 DEF SnapshotTypes
  <2> QED BY <1>2, <2>2, <2>3, <2>4, <2>5, <2>6
<1>6. ASSUME NEW d \in Clients, NEW e \in Others(d) PROVE Regarded(d, e)'
  <2>1. Regarded(d, e) /\ e \in Clients
    BY DEF SnapshotInv, Others
  <2>2. Entering(d)' <=> Entering(d)
    BY <1>2 DEF Entering, Entrances, Sayings, Deeds
  <2>3. \A v \in Looks : DueSight(d, e, v) => DueSight(d, e, v)'
    BY <1>2 DEF DueSight, Hidden
  <2> QED BY <1>2, <2>1, <2>2, <2>3, RegardStays
<1> QED BY <1>4, <1>5, <1>6 DEF SnapshotInv, Others

(* c reports where it is and what it did.                                      *)
LEMMA ReportKeepsInv ==
    ASSUME SnapshotInv, NEW c \in Clients, RunLocalUpdates(c)
    PROVE  SnapshotInv'
<1> DEFINE m == [type |-> "move", cell |-> stands[c], pos |-> pos[c], act |-> untold[c]]
<1>1. SnapshotTypes
  BY DEF SnapshotInv
<1>2. /\ said' = [said EXCEPT ![c] = Append(@, m)] /\ untold' = [untold EXCEPT ![c] = 0]
      /\ UNCHANGED <<stands, pos, act, view, sights, playerCell, charCell, at, current, actions,
                     sent, visits, missed>>
  BY DEF RunLocalUpdates, recordVars
<1>3. m \in Sayings /\ m.type = "move" /\ m.cell = stands[c] /\ m.act = untold[c]
  BY <1>1 DEF SnapshotTypes, Sayings
<1> HIDE DEF m
<1>4. /\ said[c] \in Seq(Sayings) /\ said'[c] = Append(said[c], m)
      /\ \A d \in Clients : d # c => said'[d] = said[d] /\ untold'[d] = untold[d]
      /\ untold'[c] = 0
  BY <1>1, <1>2 DEF SnapshotTypes
<1>5. SnapshotTypes'
  <2>1. said' \in [Clients -> Seq(Sayings)]
    BY <1>1, <1>2, <1>3, <1>4, AppendProperties DEF SnapshotTypes
  <2>2. untold' \in [Clients -> Deeds]
    BY <1>1, <1>2, HiddenIsNoState DEF SnapshotTypes
  <2> QED
    BY <1>1, <1>2, <2>1, <2>2 DEF SnapshotTypes, Looks, States, Deeds, Hidden, Sayings, Sights, Spawns,
                          Removals, MoveSights
<1>6. /\ \A K : Carries(said'[c], K) <=> Carries(said[c], K) \/ m \in K
      /\ \A K, G : Latest(said'[c], K, G) <=> IF m \in K THEN m \in G ELSE Latest(said[c], K, G)
  BY <1>3, <1>4, CarriesMore
<1>7. ASSUME NEW d \in Clients PROVE Trodden(d)' /\ ActTold(d)' /\ InTime(d)'
  <2>1. Trodden(d) /\ ActTold(d) /\ InTime(d)
    BY DEF SnapshotInv
  <2>2. InTime(d)'
    BY <1>2, <2>1 DEF InTime, Late, Sights, Spawns, Removals, MoveSights, States, Deeds
  <2>3. CASE d # c
    <3>1. Trodden(d)'
      <4>1. said'[d] = said[d] /\ stands'[d] = stands[d] /\ playerCell'[d] = playerCell[d]
        BY <1>2, <1>4, <2>1, <2>3
      <4> QED BY <2>1, <4>1, TroddenStays
    <3>2. ActTold(d)'
      BY <1>2, <1>4, <2>1, <2>3 DEF ActTold, Enacted, Enacting, Sayings, Deeds
    <3> QED BY <2>2, <3>1, <3>2
  <2>4. CASE d = c
    <3>1. Trodden(c)'
      BY <1>1, <1>2, <1>3, <1>4, <2>1, <2>4, TroddenFurther
    <3>2. ActTold(c) /\ act[c] \in Nat /\ untold[c] \in Nat
      BY <1>1, <2>1, <2>4, HiddenIsNoState DEF SnapshotTypes
    <3>3. CASE untold[c] # 0
      <4>1. m \in Enacted /\ m \in Enacting(act[c])
        BY <1>3, <3>2, <3>3 DEF ActTold, Enacted, Enacting
      <4>2. Latest(said'[c], Enacted, Enacting(act[c]))
        BY <1>6, <4>1
      <4> QED BY <1>2, <1>4, <3>2, <4>2, <2>2, <2>4, <3>1 DEF ActTold, Enacted, Enacting, Sayings, Deeds
    <3>4. CASE untold[c] = 0
      <4>1. m \notin Enacted
        BY <1>3, <3>4 DEF Enacted
      <4>2. \/ Latest(said'[c], Enacted, Enacting(act[c]))
            \/ ~Carries(said'[c], Enacted) /\ current[c] = act[c]
        BY <1>6, <3>2, <3>4, <4>1 DEF ActTold
      <4> QED BY <1>2, <1>4, <3>2, <4>2, <2>2, <2>4, <3>1 DEF ActTold, Enacted, Enacting, Sayings, Deeds
    <3> QED BY <3>3, <3>4
  <2> QED BY <2>3, <2>4
<1>8. ASSUME NEW d \in Clients, NEW e \in Others(d) PROVE Regarded(d, e)'
  <2>1. Regarded(d, e) /\ e \in Clients
    BY DEF SnapshotInv, Others
  <2>2. m \notin Entrances
    BY <1>3 DEF Entrances
  <2>3. Entering(d)' <=> Entering(d)
    BY <1>4, <1>6, <2>2 DEF Entering, Entrances, Sayings, Deeds
  <2>4. \A v \in Looks : DueSight(d, e, v) => DueSight(d, e, v)'
    BY <1>2 DEF DueSight, Hidden
  <2> QED BY <1>2, <2>1, <2>3, <2>4, RegardStays
<1> QED BY <1>5, <1>7, <1>8 DEF SnapshotInv, Others

(* Types after a step.                                                         *)
LEMMA TypesThen ==
    ASSUME {stands', playerCell', charCell'} \subseteq [Clients -> Chambers],
           {pos', act', untold', at', current', actions'} \subseteq [Clients -> Deeds],
           \A c \in Clients : pos'[c] + act'[c] <= MaxDeed,
           sent' \in [Clients -> BOOLEAN],
           view' \in [Clients -> [Clients -> Looks]],
           said' \in [Clients -> Seq(Sayings)],
           sights' \in [Clients -> Seq(Sights)],
           visits' \in [Clients -> Nat],
           missed' \subseteq Clients \X Clients
    PROVE  SnapshotTypes'
BY DEF SnapshotTypes, Looks, States, Deeds, Hidden, Sayings, Sights, Spawns, Removals, MoveSights

(* c goes through a door.                                                      *)
LEMMA WalkKeepsInv ==
    ASSUME SnapshotInv, NEW c \in Clients, NEW r \in Chambers, Walks(c, r)
    PROVE  SnapshotInv'
<1> DEFINE m == [type |-> "enter", cell |-> r]
<1>1. SnapshotTypes
  BY DEF SnapshotInv
<1>2. /\ stands[c] # r /\ stands' = [stands EXCEPT ![c] = r]
      /\ visits' = [visits EXCEPT ![c] = @ + 1]
      /\ view' = [view EXCEPT ![c] = [d \in Clients |-> Hidden]]
      /\ said' = [said EXCEPT ![c] = Append(@, m)]
      /\ UNCHANGED <<pos, act, untold, sights, playerCell, charCell, at, current, actions,
                     sent, missed>>
  BY DEF Walks, recordVars
<1>3. m \in Sayings /\ m.type = "enter" /\ m.cell = r
  BY DEF Sayings
<1> HIDE DEF m
<1>4. /\ said[c] \in Seq(Sayings) /\ said'[c] = Append(said[c], m) /\ stands'[c] = r
      /\ visits[c] \in Nat /\ visits'[c] = visits[c] + 1
      /\ \A d \in Clients : view'[c][d] = Hidden
      /\ \A d \in Clients : d # c => /\ said'[d] = said[d] /\ stands'[d] = stands[d]
                                     /\ visits'[d] = visits[d] /\ view'[d] = view[d]
  BY <1>1, <1>2 DEF SnapshotTypes
<1>5. SnapshotTypes'
  <2>1. said' \in [Clients -> Seq(Sayings)]
    BY <1>1, <1>2, <1>3, <1>4, AppendProperties DEF SnapshotTypes
  <2>2. view' \in [Clients -> [Clients -> Looks]]
    BY <1>1, <1>2, HiddenIsNoState DEF SnapshotTypes
  <2>3. stands' \in [Clients -> Chambers] /\ visits' \in [Clients -> Nat]
    BY <1>1, <1>2 DEF SnapshotTypes
  <2>4. /\ {stands', playerCell', charCell'} \subseteq [Clients -> Chambers]
        /\ {pos', act', untold', at', current', actions'} \subseteq [Clients -> Deeds]
        /\ \A d \in Clients : pos'[d] + act'[d] <= MaxDeed
        /\ sent' \in [Clients -> BOOLEAN] /\ sights' \in [Clients -> Seq(Sights)]
        /\ missed' \subseteq Clients \X Clients
    BY <1>1, <1>2, <2>3 DEF SnapshotTypes
  <2> QED BY <2>1, <2>2, <2>3, <2>4, TypesThen
<1>6. /\ \A K : Carries(said'[c], K) <=> Carries(said[c], K) \/ m \in K
      /\ \A K, G : Latest(said'[c], K, G) <=> IF m \in K THEN m \in G ELSE Latest(said[c], K, G)
  BY <1>3, <1>4, CarriesMore
<1>7. ASSUME NEW d \in Clients PROVE Trodden(d)' /\ ActTold(d)' /\ InTime(d)'
  <2>1. Trodden(d) /\ ActTold(d) /\ InTime(d)
    BY DEF SnapshotInv
  <2>2. CASE d # c
    <3>1. Trodden(d)'
      <4>1. said'[d] = said[d] /\ stands'[d] = stands[d] /\ playerCell'[d] = playerCell[d]
        BY <1>2, <1>4, <2>1, <2>2
      <4> QED BY <2>1, <4>1, TroddenStays
    <3>2. ActTold(d)'
      BY <1>2, <1>4, <2>1, <2>2 DEF ActTold, Enacted, Enacting, Sayings, Deeds
    <3>3. InTime(d)'
      BY <1>2, <1>4, <2>1, <2>2 DEF InTime, Late, Sights, Spawns, Removals, MoveSights, States, Deeds
    <3> QED BY <3>1, <3>2, <3>3
  <2>3. CASE d = c
    <3>1. Trodden(c)'
      BY <1>1, <1>2, <1>3, <1>4, <2>1, <2>3, TroddenFurther
    <3>2. m \notin Enacted
      BY <1>3 DEF Enacted
    <3>3. ActTold(c)'
      BY <1>2, <1>6, <2>1, <2>3, <3>2 DEF ActTold, Enacted, Enacting, Sayings, Deeds
    <3>4. InTime(c)'
      <4>1. ~Carries(sights[c], Late(visits[c]))
        BY <2>1, <2>3 DEF InTime
      <4>2. \A o \in Sights : o.stay \in Int
        BY DEF Sights, Spawns, Removals, MoveSights
      <4>3. Late(visits'[c]) \subseteq Late(visits[c])
        BY <1>4, <4>2 DEF Late
      <4>4. ~Carries(sights'[c], Late(visits'[c]))
        BY <1>2, <4>1, <4>3 DEF Carries
      <4> QED BY <4>4 DEF InTime, Late, Sights, Spawns, Removals, MoveSights, States, Deeds
    <3> QED BY <2>3, <3>1, <3>3, <3>4
  <2> QED BY <2>2, <2>3
<1>8. ASSUME NEW d \in Clients, NEW e \in Others(d) PROVE Regarded(d, e)'
  <2>1. Regarded(d, e) /\ e \in Clients
    BY DEF SnapshotInv, Others
  <2>2. CASE d # c
    <3>1. Entering(d)' <=> Entering(d)
      BY <1>4, <2>2 DEF Entering, Entrances, Sayings, Deeds
    <3>2. \A v \in Looks : DueSight(d, e, v) => DueSight(d, e, v)'
      BY <1>2 DEF DueSight, Hidden
    <3> QED BY <1>2, <1>4, <2>1, <2>2, <3>1, <3>2, RegardStays
  <2>3. CASE d = c
    <3>1. Entering(c)'
      <4>1. m \in Entrances
        BY <1>3 DEF Entrances
      <4> QED BY <1>6, <4>1 DEF Entering, Entrances, Sayings, Deeds
    <3>2. CASE ~Carries(sights[c], Mentions(e))
      BY <1>2, <1>4, <2>1, <2>3, <3>1, <3>2, RegardedThen
    <3>3. CASE Carries(sights[c], Mentions(e))
      <4>1. PICK i \in 1 .. Len(sights[c]) : sights[c][i] \in Mentions(e)
        BY <3>3 DEF Carries
      <4>2. sights[c][i] \in Sights /\ sights[c][i].stay \in Int
        BY <4>1 DEF Mentions, Sights, Spawns, Removals, MoveSights
      <4>3. ~(sights[c][i].stay > visits[c])
        BY <4>2 DEF SnapshotInv, InTime, Late, Carries
      <4>4. sights[c][i] \in Stale(e, visits'[c])
        BY <1>4, <4>1, <4>2, <4>3 DEF Stale
      <4>5. Carries(sights'[c], Stale(e, visits'[c]))
        BY <1>2, <4>4 DEF Carries
      <4> QED BY <2>3, <4>5, RegardedThen
    <3> QED BY <3>2, <3>3
  <2> QED BY <2>2, <2>3
<1> QED BY <1>5, <1>7, <1>8 DEF SnapshotInv, Others

(* What the handlers of the client make of what they show.                     *)
LEMMA ShownIsEffect ==
    ASSUME SnapshotTypes, NEW c \in Clients, NEW m \in Sights
    PROVE  /\ Shown(c, m) \in [Clients -> Looks]
           /\ \A e \in Clients : Shown(c, m)[e] = Effect(e, m, view[c][e])
<1>1. view[c] \in [Clients -> Looks]
  BY DEF SnapshotTypes
<1>2. m.type = "spawn" => m \in Spawns
  BY DEF Sights, MoveSights, Removals
<1>3. m.type = "remove" => m \in Removals
  BY DEF Sights, MoveSights, Spawns
<1>4. m.type = "move" => m \in MoveSights
  BY DEF Sights, Spawns, Removals
<1>5. CASE m.type = "spawn"
  <2>1. Shown(c, m) = [view[c] EXCEPT ![m.who] = IF view[c][m.who] # Hidden THEN @
                                                 ELSE [pos |-> m.pos, act |-> m.act]]
    BY <1>5 DEF Shown
  <2>2. m.who \in Clients /\ [pos |-> m.pos, act |-> m.act] \in Looks
    BY <1>2, <1>5, HiddenIsNoState DEF Spawns, Looks
  <2>3. Shown(c, m) \in [Clients -> Looks]
    BY <1>1, <2>1, <2>2
  <2>4. ASSUME NEW e \in Clients PROVE Shown(c, m)[e] = Effect(e, m, view[c][e])
    BY <1>1, <1>5, <2>1, <2>2 DEF Effect, Mentions
  <2> QED BY <2>3, <2>4
<1>6. CASE m.type = "remove"
  <2>1. Shown(c, m) = [view[c] EXCEPT ![m.who] = Hidden]
    BY <1>6 DEF Shown
  <2>2. m.who \in Clients
    BY <1>3, <1>6 DEF Removals
  <2> QED BY <1>1, <1>6, <2>1, <2>2, HiddenIsNoState DEF Effect, Mentions
<1>7. CASE m.type = "move"
  <2>1. Shown(c, m) = [d \in Clients |->
              IF d \notin DOMAIN m.updates \/ view[c][d] = Hidden THEN view[c][d]
              ELSE [pos |-> m.updates[d].pos,
                    act |-> IF m.updates[d].act = 0 THEN view[c][d].act ELSE m.updates[d].act]]
    BY <1>7 DEF Shown
  <2>2. ASSUME NEW e \in Clients
        PROVE  Shown(c, m)[e] = Effect(e, m, view[c][e])
    BY <1>7, <2>1 DEF Effect, Mentions
  <2>3. \A e \in Clients : Effect(e, m, view[c][e]) \in Looks
    BY <1>1, EffectsAre
  <2>4. Shown(c, m) \in [Clients -> Looks]
    <3> DEFINE f == Shown(c, m)
    <3>1. \A e \in Clients : f[e] \in Looks
      BY <2>2, <2>3
    <3>2. f = [d \in Clients |-> f[d]]
      BY <2>1
    <3> HIDE DEF f
    <3>3. f \in [Clients -> Looks]
      BY <3>1, <3>2
    <3> QED BY <3>3 DEF f
  <2> QED BY <2>2, <2>4
<1>8. m.type \in {"spawn", "remove", "move"}
  BY DEF Sights, Spawns, Removals, MoveSights
<1> QED BY <1>5, <1>6, <1>7, <1>8

(* c reads a message.                                                          *)
LEMMA BeholdsKeepsInv ==
    ASSUME SnapshotInv, NEW c \in Clients, Beholds(c)
    PROVE  SnapshotInv'
<1> DEFINE m == Head(sights[c])
           s == sights[c]
           mentioned == IF m.stay = visits[c] THEN {}
                        ELSE IF m.type = "move" THEN DOMAIN m.updates ELSE {m.who}
<1>1. SnapshotTypes
  BY DEF SnapshotInv
<1>2. /\ sights[c] # <<>> /\ sights' = Read(sights, c)
      /\ view' = [view EXCEPT ![c] = Shown(c, m)]
      /\ missed' = missed \cup {<<c, d>> : d \in mentioned}
      /\ UNCHANGED <<stands, pos, act, untold, said, playerCell, charCell, at, current, actions,
                     sent, visits>>
  BY DEF Beholds, recordVars, gameVars
<1>3. /\ s \in Seq(Sights) /\ m \in Sights /\ sights' \in [Clients -> Seq(Sights)]
      /\ sights'[c] = Tail(s) /\ \A d \in Clients : d # c => sights'[d] = sights[d]
  BY <1>1, <1>2, ReadQueues DEF SnapshotTypes
<1>4. /\ view' \in [Clients -> [Clients -> Looks]]
      /\ \A e \in Clients : view'[c][e] = Effect(e, m, view[c][e])
      /\ \A d \in Clients : d # c => view'[d] = view[d]
  <2> HIDE DEF m
  <2>1. Shown(c, m) \in [Clients -> Looks]
    BY <1>1, <1>3, ShownIsEffect
  <2>2. \A e \in Clients : Shown(c, m)[e] = Effect(e, m, view[c][e])
    BY <1>1, <1>3, ShownIsEffect
  <2>3. view \in [Clients -> [Clients -> Looks]]
    BY <1>1 DEF SnapshotTypes
  <2> QED BY <1>2, <2>1, <2>2, <2>3
<1>5. mentioned \subseteq Clients /\ \A e \in Clients : m \in Stale(e, visits[c]) => e \in mentioned
  BY <1>3 DEF Stale, Mentions, Sights, Spawns, Removals, MoveSights
<1>6. \A K : Carries(s, K) <=> Carries(Tail(s), K) \/ m \in K
  BY <1>2, <1>3, CarriesLess
<1> HIDE DEF mentioned
<1>7. SnapshotTypes'
  <2>1. /\ {stands', playerCell', charCell'} \subseteq [Clients -> Chambers]
        /\ {pos', act', untold', at', current', actions'} \subseteq [Clients -> Deeds]
        /\ \A d \in Clients : pos'[d] + act'[d] <= MaxDeed
        /\ sent' \in [Clients -> BOOLEAN] /\ said' \in [Clients -> Seq(Sayings)]
        /\ visits' \in [Clients -> Nat]
    BY <1>1, <1>2 DEF SnapshotTypes
  <2>2. missed' \subseteq Clients \X Clients
    BY <1>1, <1>2, <1>5 DEF SnapshotTypes
  <2> QED BY <1>3, <1>4, <2>1, <2>2, TypesThen
<1>8. ASSUME NEW d \in Clients PROVE Trodden(d)' /\ ActTold(d)' /\ InTime(d)'
  <2>1. Trodden(d) /\ ActTold(d) /\ InTime(d)
    BY DEF SnapshotInv
  <2>2. Trodden(d)'
    <3>1. said'[d] = said[d] /\ stands'[d] = stands[d] /\ playerCell'[d] = playerCell[d]
      BY <1>2, <2>1
    <3> QED BY <2>1, <3>1, TroddenStays
  <2>3. ActTold(d)'
    BY <1>2, <2>1 DEF ActTold, Enacted, Enacting, Sayings, Deeds
  <2>4. ~Carries(sights'[d], Late(visits'[d]))
    BY <1>2, <1>3, <1>6, <2>1 DEF InTime
  <2>5. InTime(d)'
    BY <2>4 DEF InTime, Late, Sights, Spawns, Removals, MoveSights, States, Deeds
  <2> QED BY <2>2, <2>3, <2>5
<1>9. ASSUME NEW d \in Clients, NEW e \in Others(d) PROVE Regarded(d, e)'
  <2>1. Regarded(d, e) /\ e \in Clients
    BY DEF SnapshotInv, Others
  <2>2. Entering(d)' <=> Entering(d)
    BY <1>2 DEF Entering, Entrances, Sayings, Deeds
  <2>3. \A v \in Looks : DueSight(d, e, v) => DueSight(d, e, v)'
    BY <1>2 DEF DueSight, Hidden
  <2>4. CASE d # c
    BY <1>2, <1>3, <1>4, <2>1, <2>2, <2>3, <2>4, RegardStays
  <2>5. CASE d = c /\ m \in Stale(e, visits[c])
    BY <1>2, <1>5, <2>1, <2>5, RegardedThen
  <2>6. CASE d = c /\ m \notin Stale(e, visits[c])
    <3>1. CASE <<d, e>> \in missed
      BY <1>2, <3>1, RegardedThen
    <3>2. CASE Carries(s, Stale(e, visits[c]))
      <4>1. Carries(sights'[c], Stale(e, visits'[c]))
        BY <1>2, <1>3, <1>6, <2>6, <3>2
      <4> QED BY <2>6, <4>1, RegardedThen
    <3>3. CASE Entering(c) /\ StillUnseen(c, e)
      <4>1. m \notin Mentions(e) /\ ~Carries(sights'[c], Mentions(e))
        BY <1>3, <1>6, <3>3 DEF StillUnseen
      <4>2. view'[c][e] = Hidden
        BY <1>4, <2>1, <3>3, <4>1 DEF Effect, StillUnseen
      <4> QED BY <2>2, <2>6, <3>3, <4>1, <4>2, RegardedThen
    <3>4. CASE ~Entering(c) /\ Pictured(c, e)
      <4>1. PICK v \in Looks : Leads(s, Looks, Effects(e), view[c][e], v) /\ DueSight(c, e, v)
        BY <3>4 DEF Pictured
      <4>2. PICK z \in Looks : <<view[c][e], m, z>> \in Effects(e)
                               /\ Leads(Tail(s), Looks, Effects(e), z, v)
        BY <1>2, <1>3, <4>1, LeadsFrom
      <4>3. view[c][e] \in Looks
        BY <1>1, <2>1 DEF SnapshotTypes
      <4> HIDE DEF m, s
      <4>4. z = view'[c][e]
        BY <1>3, <1>4, <2>1, <4>2, <4>3, EffectsAre
      <4>5. Leads(sights'[c], Looks, Effects(e), view'[c][e], v)
        BY <1>3, <4>2, <4>4
      <4>6. DueSight(c, e, v)'
        BY <2>3, <2>6, <4>1
      <4> QED BY <2>2, <2>6, <3>4, <4>5, <4>6, RegardedThen
    <3> QED BY <2>1, <2>6, <3>1, <3>2, <3>3, <3>4 DEF Regarded
  <2> QED BY <2>4, <2>5, <2>6
<1> QED BY <1>7, <1>8, <1>9 DEF SnapshotInv, Others

(* The server hears where c is and what it does.                               *)
LEMMA MoveKeepsInv ==
    ASSUME SnapshotInv, NEW c \in Clients, OnReferencesMoveRequest(c)
    PROVE  SnapshotInv'
<1> DEFINE m == Head(said[c])
           s == said[c]
<1>1. SnapshotTypes
  BY DEF SnapshotInv
<1>2. /\ said[c] # <<>> /\ m.type = "move" /\ said' = Read(said, c)
      /\ at' = [at EXCEPT ![c] = m.pos] /\ charCell' = [charCell EXCEPT ![c] = m.cell]
      /\ current' = [current EXCEPT ![c] = IF m.act = 0 THEN @ ELSE m.act]
      /\ actions' = [actions EXCEPT ![c] = IF m.act = 0 THEN @ ELSE m.act]
      /\ sent' = [sent EXCEPT ![c] = FALSE]
      /\ UNCHANGED <<stands, pos, act, untold, view, sights, playerCell, visits, missed>>
  BY DEF OnReferencesMoveRequest, Obeys, gameVars
<1>3. /\ s \in Seq(Sayings) /\ m \in Sayings /\ said' \in [Clients -> Seq(Sayings)]
      /\ said'[c] = Tail(s) /\ \A d \in Clients : d # c => said'[d] = said[d]
  <2>1. said \in [Clients -> Seq(Sayings)] /\ said[c] # <<>> /\ said' = Read(said, c)
    BY <1>1, <1>2 DEF SnapshotTypes
  <2> QED BY <2>1, ReadQueues
<1>4. m.pos \in Deeds /\ m.act \in Deeds /\ m.cell \in Chambers
  BY <1>2, <1>3 DEF Sayings
<1>5. /\ \A K : Carries(s, K) <=> Carries(Tail(s), K) \/ m \in K
      /\ \A K, G : Latest(s, K, G) <=> IF Carries(Tail(s), K) THEN Latest(Tail(s), K, G)
                                       ELSE m \in K /\ m \in G
  BY <1>2, <1>3, CarriesLess
<1>6. Trodden(c)' /\ m.cell = playerCell[c]
  <2>1. Trodden(c)
    BY DEF SnapshotInv
  <2>2. playerCell'[c] = playerCell[c] /\ stands'[c] = stands[c]
    BY <1>2
  <2>3. m.cell = playerCell[c]
    <3>1. Trodden(c) /\ said[c] # <<>>
      BY <1>2, <2>1
    <3>2. 1 \in 1 .. Len(s) /\ m = s[1] /\ 1 - 1 = 0
      BY <1>2, <1>3, EmptySeq, HeadTailProperties
    <3>3. s[1].type = "move" <=> s[1].cell = CellAfter(c, 0)
      BY <3>1, <3>2 DEF Trodden
    <3> QED BY <1>2, <3>2, <3>3 DEF CellAfter
  <2>4. playerCell'[c] = Head(said[c]).cell
    BY <2>2, <2>3
  <2> QED BY <1>1, <1>2, <1>3, <2>1, <2>2, <2>3, <2>4, TroddenHeard
<1>7. /\ current' \in [Clients -> Deeds] /\ actions' \in [Clients -> Deeds] /\ at' \in [Clients -> Deeds]
      /\ current'[c] = (IF m.act = 0 THEN current[c] ELSE m.act)
      /\ actions'[c] = (IF m.act = 0 THEN actions[c] ELSE m.act)
      /\ charCell'[c] = m.cell /\ charCell' \in [Clients -> Chambers]
      /\ sent' \in [Clients -> BOOLEAN] /\ sent'[c] = FALSE
      /\ \A d \in Clients : d # c => /\ current'[d] = current[d] /\ actions'[d] = actions[d]
                                     /\ charCell'[d] = charCell[d] /\ sent'[d] = sent[d]
                                     /\ at'[d] = at[d]
  <2> HIDE DEF m
  <2>1. /\ current \in [Clients -> Deeds] /\ actions \in [Clients -> Deeds] /\ at \in [Clients -> Deeds]
        /\ charCell \in [Clients -> Chambers] /\ sent \in [Clients -> BOOLEAN]
    BY <1>1 DEF SnapshotTypes
  <2>2. (IF m.act = 0 THEN current[c] ELSE m.act) \in Deeds /\ (IF m.act = 0 THEN actions[c] ELSE m.act) \in Deeds
    BY <1>4, <2>1
  <2> QED BY <1>2, <1>4, <2>1, <2>2
<1>8. SnapshotTypes'
  <2>1. /\ {stands', playerCell'} \subseteq [Clients -> Chambers]
        /\ {pos', act', untold'} \subseteq [Clients -> Deeds]
        /\ \A d \in Clients : pos'[d] + act'[d] <= MaxDeed
        /\ view' \in [Clients -> [Clients -> Looks]] /\ sights' \in [Clients -> Seq(Sights)]
        /\ visits' \in [Clients -> Nat] /\ missed' \subseteq Clients \X Clients
    BY <1>1, <1>2 DEF SnapshotTypes
  <2> HIDE DEF m, s
  <2>2. {stands', playerCell', charCell'} \subseteq [Clients -> Chambers]
    BY <1>7, <2>1
  <2>3. {pos', act', untold', at', current', actions'} \subseteq [Clients -> Deeds]
    BY <1>7, <2>1
  <2> QED BY <1>3, <1>7, <2>1, <2>2, <2>3, TypesThen
<1> HIDE DEF m, s
<1>9. ASSUME NEW d \in Clients PROVE Trodden(d)' /\ ActTold(d)' /\ InTime(d)'
  <2>1. Trodden(d) /\ ActTold(d) /\ InTime(d)
    BY DEF SnapshotInv
  <2>2. InTime(d)'
    BY <1>2, <2>1 DEF InTime, Late, Sights, Spawns, Removals, MoveSights, States, Deeds
  <2>3. CASE d # c
    <3>1. Trodden(d)'
      <4>1. said'[d] = said[d] /\ stands'[d] = stands[d] /\ playerCell'[d] = playerCell[d]
        BY <1>2, <1>3, <2>1, <2>3
      <4> QED BY <2>1, <4>1, TroddenStays
    <3>2. ActTold(d)'
      BY <1>2, <1>3, <1>7, <2>1, <2>3 DEF ActTold, Enacted, Enacting, Sayings, Deeds
    <3> QED BY <2>2, <3>1, <3>2
  <2>4. CASE d = c
    <3>1. ActTold(c)
      BY <2>1, <2>4
    <3>2. actions'[c] \in {0, current'[c]}
      BY <1>7, <3>1 DEF ActTold
    <3>3. CASE untold[c] # 0 /\ untold[c] = act[c]
      <4>1. ActTold(c)'
        BY <1>2, <3>2, <3>3 DEF ActTold
      <4> QED BY <1>6, <2>2, <2>4, <4>1
    <3>4. CASE untold[c] = 0 /\ (\/ Latest(s, Enacted, Enacting(act[c]))
                                 \/ ~Carries(s, Enacted) /\ current[c] = act[c])
      <4>1. \/ Latest(Tail(s), Enacted, Enacting(act[c]))
            \/ ~Carries(Tail(s), Enacted) /\ current'[c] = act[c]
        <5>1. CASE Carries(Tail(s), Enacted)
          BY <1>5, <3>4, <5>1
        <5>2. CASE ~Carries(Tail(s), Enacted) /\ m \in Enacted
          <6>1. m \in Enacting(act[c])
            BY <1>5, <3>4, <5>2
          <6> QED BY <1>7, <5>2, <6>1 DEF Enacting, Enacted
        <5>3. CASE ~Carries(Tail(s), Enacted) /\ m \notin Enacted
          <6>1. m.act = 0
            BY <1>2, <1>3, <5>3 DEF Enacted
          <6>2. ~Latest(s, Enacted, Enacting(act[c]))
            BY <1>5, <5>3
          <6> QED BY <1>7, <3>4, <5>3, <6>1, <6>2
        <5> QED BY <5>1, <5>2, <5>3
      <4>2. \/ Latest(said'[c], Enacted, Enacting(act'[c]))
            \/ ~Carries(said'[c], Enacted) /\ current'[c] = act'[c]
        BY <1>2, <1>3, <4>1
      <4>3. ActTold(c)'
        BY <1>2, <3>2, <3>4, <4>2 DEF ActTold, Enacted, Enacting, Sayings, Deeds
      <4> QED BY <1>6, <2>2, <2>4, <4>3
    <3> QED BY <3>1, <3>3, <3>4 DEF ActTold, s
  <2> QED BY <2>3, <2>4
<1>10. ASSUME NEW d \in Clients, NEW e \in Others(d) PROVE Regarded(d, e)'
  <2>1. Regarded(d, e) /\ e \in Clients
    BY DEF SnapshotInv, Others
  <2>2. m \notin Entrances
    BY <1>2 DEF Entrances
  <2>3. Entering(d)' <=> Entering(d)
    <3>1. Carries(said'[d], Entrances) <=> Carries(said[d], Entrances)
      BY <1>3, <1>5, <2>2 DEF s
    <3> QED BY <3>1 DEF Entering, Entrances, Sayings, Deeds
  <2>4. ASSUME NEW v \in Looks, DueSight(d, e, v) PROVE DueSight(d, e, v)'
    <3>1. CASE e # c
      BY <1>2, <1>7, <2>1, <2>4, <3>1 DEF DueSight, Hidden
    <3>2. CASE e = c /\ playerCell[c] # playerCell[d]
      BY <1>2, <2>4, <3>2 DEF DueSight, Hidden
    <3>3. CASE e = c /\ playerCell[c] = playerCell[d]
      <4>1. v # Hidden /\ (\/ v.act = current[c]
                           \/ ~sent[c] /\ charCell[c] = playerCell[c] /\ actions[c] # 0)
        BY <2>4, <3>3 DEF DueSight
      <4>2. v.act = current'[c] \/ actions'[c] # 0
        BY <1>7, <4>1
      <4> QED BY <1>2, <1>6, <1>7, <3>3, <4>1, <4>2 DEF DueSight, Hidden
    <3> QED BY <3>1, <3>2, <3>3
  <2> QED BY <1>2, <2>1, <2>3, <2>4, RegardStays
<1> QED BY <1>8, <1>9, <1>10 DEF SnapshotInv, Others

(* What is sent about c to d.                                                  *)
LEMMA NoticesAreSights ==
    ASSUME SnapshotTypes, NEW c \in Clients, NEW d \in Clients
    PROVE  /\ SpawnOf(c, d) \in Sights /\ SpawnOf(c, d).stay = StayOf(d)
           /\ RemoveOf(c, d) \in Sights /\ RemoveOf(c, d).stay = StayOf(d)
           /\ \A n \in Int : [SpawnOf(c, d) EXCEPT !.stay = n] =
                 [type |-> "spawn", who |-> c, pos |-> at[c], act |-> current[c], stay |-> n]
           /\ \A n \in Int : [SpawnOf(c, d) EXCEPT !.stay = n] \in Sights
           /\ [pos |-> at[c], act |-> current[c]] \in States
<1>1. StayOf(d) \in Int /\ at[c] \in Deeds /\ current[c] \in Deeds
  BY StaysCounted DEF SnapshotTypes
<1> QED BY <1>1 DEF SpawnOf, RemoveOf, Sights, Spawns, Removals, States

(* The snapshots.                                                              *)
LEMMA SnapshotsKeepInv ==
    ASSUME SnapshotInv, ProcessMovementChanges
    PROVE  SnapshotInv'
<1> DEFINE R(d) == {c \in Others(d) : ~sent[c] /\ charCell[c] = playerCell[d]}
           U(d) == [c \in R(d) |-> [pos |-> at[c], act |-> actions[c]]]
           m(d) == [type |-> "move", stay |-> StayOf(d), updates |-> U(d)]
<1>1. SnapshotTypes
  BY DEF SnapshotInv
<1>2. /\ sights' = [d \in Clients |-> IF R(d) = {} THEN sights[d] ELSE Append(sights[d], m(d))]
      /\ actions' = [c \in Clients |-> 0] /\ sent' = [c \in Clients |-> TRUE]
      /\ UNCHANGED <<stands, pos, act, untold, view, said, playerCell, charCell, at, current,
                     visits, missed>>
  BY DEF ProcessMovementChanges, gameVars
<1>3. ASSUME NEW d \in Clients
      PROVE  /\ m(d) \in Sights /\ m(d).stay = StayOf(d) /\ m(d).type = "move"
             /\ DOMAIN m(d).updates = R(d) /\ R(d) \subseteq Clients
             /\ \A c \in R(d) : m(d).updates[c] = [pos |-> at[c], act |-> actions[c]]
  <2>1. R(d) \subseteq Clients
    BY DEF Others
  <2>2. U(d) \in [R(d) -> States]
    BY <1>1, <2>1 DEF SnapshotTypes, States
  <2>3. U(d) \in UNION {[S -> States] : S \in SUBSET Clients}
    BY <2>1, <2>2
  <2>4. StayOf(d) \in Int
    BY <1>1, StaysCounted
  <2>5. DOMAIN U(d) = R(d) /\ \A c \in R(d) : U(d)[c] = [pos |-> at[c], act |-> actions[c]]
    OBVIOUS
  <2> HIDE DEF R, U
  <2>6. m(d) \in MoveSights
    BY <2>3, <2>4 DEF MoveSights
  <2> QED BY <2>1, <2>5, <2>6 DEF Sights
<1>4. sights' \in [Clients -> Seq(Sights)]
  <2> HIDE DEF m, R
  <2>1. ASSUME NEW d \in Clients
        PROVE  (IF R(d) = {} THEN sights[d] ELSE Append(sights[d], m(d))) \in Seq(Sights)
    <3>1. sights[d] \in Seq(Sights) /\ m(d) \in Sights
      BY <1>1, <1>3 DEF SnapshotTypes
    <3> QED BY <3>1, AppendProperties
  <2> QED BY <1>2, <2>1
<1>5. SnapshotTypes'
  <2>1. /\ {stands', playerCell', charCell'} \subseteq [Clients -> Chambers]
        /\ {pos', act', untold', at', current'} \subseteq [Clients -> Deeds]
        /\ \A d \in Clients : pos'[d] + act'[d] <= MaxDeed
        /\ view' \in [Clients -> [Clients -> Looks]] /\ said' \in [Clients -> Seq(Sayings)]
        /\ visits' \in [Clients -> Nat] /\ missed' \subseteq Clients \X Clients
    BY <1>1, <1>2 DEF SnapshotTypes
  <2>2. actions' \in [Clients -> Deeds] /\ sent' \in [Clients -> BOOLEAN]
    BY <1>2, HiddenIsNoState
  <2>3. {pos', act', untold', at', current', actions'} \subseteq [Clients -> Deeds]
    BY <2>1, <2>2
  <2> QED BY <1>4, <2>1, <2>2, <2>3, TypesThen
<1>6. ASSUME NEW d \in Clients
      PROVE  \/ R(d) = {} /\ sights'[d] = sights[d]
             \/ R(d) # {} /\ sights'[d] = Append(sights[d], m(d))
  BY <1>2
<1> HIDE DEF m
<1>7. ASSUME NEW d \in Clients PROVE Trodden(d)' /\ ActTold(d)' /\ InTime(d)'
  <2>1. Trodden(d) /\ ActTold(d) /\ InTime(d)
    BY DEF SnapshotInv
  <2>2. Trodden(d)'
    <3>1. said'[d] = said[d] /\ stands'[d] = stands[d] /\ playerCell'[d] = playerCell[d]
      BY <1>2, <2>1
    <3> QED BY <2>1, <3>1, TroddenStays
  <2>3. ActTold(d)'
    BY <1>2, <2>1 DEF ActTold, Enacted, Enacting, Sayings, Deeds
  <2>4. ~Carries(sights'[d], Late(visits'[d]))
    <3>1. sights[d] \in Seq(Sights)
      BY <1>1 DEF SnapshotTypes
    <3>2. m(d) \notin Late(visits[d])
      <4>1. StayOf(d) \in Int /\ StayOf(d) <= visits[d] /\ visits[d] \in Nat
        BY <1>1, StaysCounted DEF SnapshotTypes
      <4> QED BY <1>3, <4>1 DEF Late
    <3>3. ~Carries(Append(sights[d], m(d)), Late(visits[d]))
      BY <1>3, <2>1, <3>1, <3>2, CarriesMore DEF InTime
    <3> QED BY <1>2, <1>6, <2>1, <3>3 DEF InTime
  <2>5. InTime(d)'
    BY <2>4 DEF InTime, Late, Sights, Spawns, Removals, MoveSights, States, Deeds
  <2> QED BY <2>2, <2>3, <2>5
<1>8. ASSUME NEW d \in Clients, NEW e \in Others(d) PROVE Regarded(d, e)'
  <2>1. Regarded(d, e) /\ e \in Clients /\ ActTold(e)
    BY DEF SnapshotInv, Others
  <2>2. Entering(d)' <=> Entering(d)
    BY <1>2 DEF Entering, Entrances, Sayings, Deeds
  <2>3. sent'[e] = TRUE
    BY <1>2, <2>1
  <2>4. ASSUME e \notin R(d), NEW v \in Looks, DueSight(d, e, v) PROVE DueSight(d, e, v)'
    <3>1. sent[e] \/ charCell[e] # playerCell[d]
      BY <2>4
    <3>2. CASE playerCell[e] # playerCell[d]
      BY <1>2, <2>4, <3>2 DEF DueSight, Hidden
    <3>3. CASE playerCell[e] = playerCell[d]
      BY <1>2, <2>3, <2>4, <3>1, <3>3 DEF DueSight, Hidden
    <3> QED BY <3>2, <3>3
  <2>5. CASE R(d) = {}
    <3>1. \A v \in Looks : DueSight(d, e, v) => DueSight(d, e, v)'
      BY <2>4, <2>5
    <3> QED BY <1>2, <1>6, <2>1, <2>2, <2>5, <3>1, RegardStays
  <2>6. CASE R(d) # {}
    <3>1. ASSUME NEW v \in Looks, NEW w \in Looks, DueSight(d, e, v), w = Effect(e, m(d), v)
          PROVE  DueSight(d, e, w)'
      <4>1. CASE e \notin R(d)
        <5>1. m(d) \notin Mentions(e)
          BY <1>3, <4>1 DEF Mentions
        <5>2. w = v
          BY <3>1, <5>1 DEF Effect
        <5> QED BY <2>4, <3>1, <4>1, <5>2
      <4>2. CASE e \in R(d) /\ v = Hidden
        <5>1. m(d) \in Mentions(e)
          BY <1>3, <4>2 DEF Mentions
        <5>2. w = v
          BY <1>3, <3>1, <4>2, <5>1 DEF Effect
        <5>3. playerCell[e] # playerCell[d]
          BY <3>1, <4>2 DEF DueSight
        <5> QED BY <1>2, <4>2, <5>2, <5>3 DEF DueSight, Hidden
      <4>3. CASE e \in R(d) /\ v # Hidden
        <5>1. m(d) \in Mentions(e)
          BY <1>3, <4>3 DEF Mentions
        <5>2. w = [pos |-> at[e], act |-> IF actions[e] = 0 THEN v.act ELSE actions[e]]
          <6>1. m(d).updates[e].pos = at[e] /\ m(d).updates[e].act = actions[e] /\ m(d).type = "move"
            <7> HIDE DEF R
            <7>1. m(d).updates[e] = [pos |-> at[e], act |-> actions[e]] /\ m(d).type = "move"
              BY <1>3, <4>3
            <7> QED BY <7>1
          <6> QED BY <3>1, <4>3, <5>1, <6>1 DEF Effect
        <5>3. playerCell[e] = playerCell[d]
          BY <3>1, <4>3 DEF DueSight
        <5>4. v.act = current[e] \/ actions[e] # 0
          BY <3>1, <5>3 DEF DueSight
        <5>5. w.pos = at[e] /\ w.act = current[e]
          BY <2>1, <5>2, <5>4 DEF ActTold
        <5>6. w # Hidden
          <6>1. at[e] \in Nat
            BY <1>1, <2>1, HiddenIsNoState DEF SnapshotTypes
          <6> QED BY <5>5, <6>1 DEF Hidden
        <5> QED BY <1>2, <5>3, <5>5, <5>6 DEF DueSight, Hidden
      <4> QED BY <4>1, <4>2, <4>3
    <3>2. /\ m(d) \in Sights /\ sights'[d] = Append(sights[d], m(d)) /\ m(d).stay = StayOf(d)
          /\ view'[d][e] = view[d][e] /\ visits'[d] = visits[d] /\ said'[d] = said[d]
          /\ missed \subseteq missed'
      BY <1>2, <1>3, <1>6, <2>6
    <3> QED BY <1>1, <2>1, <3>1, <3>2, PostedSight
  <2> QED BY <2>5, <2>6
<1> QED BY <1>5, <1>7, <1>8 DEF SnapshotInv, Others

(* The server hears that c has entered a cell.                                 *)
LEMMA CellEnterKeepsInv ==
    ASSUME SnapshotInv, NEW c \in Clients, HandleInteriorCellEnter(c)
    PROVE  SnapshotInv'
<1> DEFINE s == said[c]
           m == Head(said[c])
           cell == m.cell
           stay == StayOf(c) + 1
           here == {d \in Others(c) : charCell[d] = cell}
           note(e) == [SpawnOf(e, c) EXCEPT !.stay = stay]
           T == {note(e) : e \in here}
           word(d) == IF playerCell[d] = cell THEN SpawnOf(c, d) ELSE RemoveOf(c, d)
<1>1. SnapshotTypes
  BY DEF SnapshotInv
<1>2. /\ said[c] # <<>> /\ m.type = "enter" /\ said' = Read(said, c)
      /\ playerCell' = [playerCell EXCEPT ![c] = cell]
      /\ sights' = [d \in Clients |-> IF d = c THEN sights[c] \o SetToSeq(T)
                                               ELSE Append(sights[d], word(d))]
      /\ missed' = missed \cup {<<c, d>> : d \in {e \in Others(c) : charCell[e] # playerCell[e]}}
      /\ UNCHANGED <<stands, pos, act, untold, view, charCell, at, current, actions, sent, visits>>
  BY DEF HandleInteriorCellEnter, Obeys, gameVars
<1>3. /\ s \in Seq(Sayings) /\ m \in Sayings /\ said' \in [Clients -> Seq(Sayings)]
      /\ said'[c] = Tail(s) /\ \A d \in Clients : d # c => said'[d] = said[d]
  <2>1. said \in [Clients -> Seq(Sayings)] /\ said[c] # <<>> /\ said' = Read(said, c)
    BY <1>1, <1>2 DEF SnapshotTypes
  <2> QED BY <2>1, ReadQueues
<1>4. cell \in Chambers /\ m \notin Enacted /\ m \in Entrances
  BY <1>2, <1>3 DEF Sayings, Enacted, Entrances
<1>5. /\ \A K : Carries(s, K) <=> Carries(Tail(s), K) \/ m \in K
      /\ \A K : m \notin K => \A G : Latest(Tail(s), K, G) <=> Latest(s, K, G)
  BY <1>2, <1>3, CarriesLess DEF SameOn
<1>6. Trodden(c)' /\ cell # playerCell[c]
  <2>1. Trodden(c)
    BY DEF SnapshotInv
  <2>2. playerCell'[c] = Head(said[c]).cell /\ stands'[c] = stands[c]
    BY <1>1, <1>2 DEF SnapshotTypes
  <2>3. Head(said[c]).type = "move" <=> Head(said[c]).cell = playerCell[c]
    BY <1>1, <1>2, <1>3, <2>1, <2>2, TroddenHeard
  <2>4. Trodden(c)'
    BY <1>1, <1>2, <1>3, <2>1, <2>2, TroddenHeard
  <2> QED BY <1>2, <2>3, <2>4
<1>7. /\ playerCell' \in [Clients -> Chambers] /\ playerCell'[c] = cell
      /\ \A d \in Clients : d # c => playerCell'[d] = playerCell[d]
  BY <1>1, <1>2, <1>4 DEF SnapshotTypes
<1>8. /\ stay \in Int /\ visits[c] \in Nat /\ stay <= visits[c]
      /\ Entering(c)' => stay < visits[c]
      /\ ~Entering(c)' => stay = visits[c]
      /\ Entering(c)
  <2>1. Entering(c)' <=> Carries(Tail(s), Entrances)
    BY <1>3 DEF Entering, Entrances, Sayings, Deeds
  <2>2. StayOf(c) \in Int /\ visits[c] \in Nat
    BY <1>1, StaysCounted DEF SnapshotTypes
  <2>3. /\ Carries(Tail(s), Entrances) => StayOf(c) + 1 < visits[c]
        /\ ~Carries(Tail(s), Entrances) => StayOf(c) + 1 = visits[c]
    BY <1>1, <1>2, StaysCounted
  <2>4. Entering(c)
    BY <1>4, <1>5 DEF Entering
  <2> QED BY <2>1, <2>2, <2>3, <2>4
<1>9. ASSUME NEW e \in Clients
      PROVE  /\ note(e) = [type |-> "spawn", who |-> e, pos |-> at[e], act |-> current[e], stay |-> stay]
             /\ note(e) \in Sights
             /\ [pos |-> at[e], act |-> current[e]] \in States
             /\ note(e).type = "spawn" /\ note(e).who = e /\ note(e).stay = stay
             /\ note(e).pos = at[e] /\ note(e).act = current[e]
             /\ note(e) \in Mentions(e)
  <2>1. /\ note(e) = [type |-> "spawn", who |-> e, pos |-> at[e], act |-> current[e], stay |-> stay]
        /\ note(e) \in Sights
        /\ [pos |-> at[e], act |-> current[e]] \in States
    BY <1>1, <1>8, NoticesAreSights
  <2> HIDE DEF note, stay
  <2>2. /\ note(e).type = "spawn" /\ note(e).who = e /\ note(e).stay = stay
        /\ note(e).pos = at[e] /\ note(e).act = current[e]
    BY <2>1
  <2>3. note(e) \in Mentions(e)
    BY <2>1, <2>2 DEF Mentions
  <2> QED BY <2>1, <2>2, <2>3
<1>10. ASSUME NEW d \in Clients PROVE word(d) \in Sights /\ word(d).stay = StayOf(d)
  BY <1>1, NoticesAreSights
<1>11. here \subseteq Clients /\ T \subseteq Sights /\ IsFiniteSet(T)
  <2>1. here \subseteq Clients /\ IsFiniteSet(here)
    BY SnapshotsAssumption, FS_Subset DEF Others
  <2>2. IsFiniteSet(T)
    <3> DEFINE f == [e \in here |-> note(e)]
    <3>1. f \in Surjection(here, T)
      <4> HIDE DEF note, here
      <4> QED BY DEF Surjection
    <3> HIDE DEF f, here, T
    <3> QED BY <2>1, <3>1, FS_Surjection
  <2> QED BY <1>9, <2>1, <2>2
<1> HIDE DEF note, word, stay
<1>12. SetToSeq(T) \in Seq(Sights) /\ sights[c] \in Seq(Sights)
       /\ \A K : Carries(SetToSeq(T), K) <=> T \cap K # {}
  <2>1. SetToSeq(T) \in Seq(T)
    BY <1>11, CarriesSet
  <2>2. SetToSeq(T) \in Seq(Sights)
    <3> HIDE DEF T
    <3> QED BY <1>11, <2>1, SeqMonotonic DEF T
  <2> QED BY <1>1, <1>11, <2>2, CarriesSet DEF SnapshotTypes
<1>13. /\ sights' \in [Clients -> Seq(Sights)] /\ sights'[c] = sights[c] \o SetToSeq(T)
       /\ \A d \in Clients : d # c => sights'[d] = Append(sights[d], word(d))
  <2> HIDE DEF T
  <2>1. ASSUME NEW d \in Clients
        PROVE  (IF d = c THEN sights[c] \o SetToSeq(T) ELSE Append(sights[d], word(d))) \in Seq(Sights)
    <3>1. sights[d] \in Seq(Sights) /\ word(d) \in Sights
      BY <1>1, <1>10 DEF SnapshotTypes
    <3> QED BY <1>12, <3>1, AppendProperties, ConcatProperties
  <2> QED BY <1>2, <2>1
<1>14. SnapshotTypes'
  <2>1. /\ {stands', charCell'} \subseteq [Clients -> Chambers]
        /\ {pos', act', untold', at', current', actions'} \subseteq [Clients -> Deeds]
        /\ \A d \in Clients : pos'[d] + act'[d] <= MaxDeed
        /\ sent' \in [Clients -> BOOLEAN]
        /\ view' \in [Clients -> [Clients -> Looks]]
        /\ visits' \in [Clients -> Nat] /\ missed' \subseteq Clients \X Clients
    BY <1>1, <1>2 DEF SnapshotTypes, Others
  <2> HIDE DEF T, s, m
  <2>2. {stands', playerCell', charCell'} \subseteq [Clients -> Chambers]
    BY <1>7, <2>1
  <2> QED BY <1>3, <1>13, <2>1, <2>2, TypesThen
<1>15. ASSUME NEW K
       PROVE  /\ Carries(sights'[c], K) <=> Carries(sights[c], K) \/ T \cap K # {}
              /\ \A d \in Clients : d # c =>
                    (Carries(sights'[d], K) <=> Carries(sights[d], K) \/ word(d) \in K)
  <2> HIDE DEF T
  <2>1. ASSUME NEW d \in Clients, d # c
        PROVE  Carries(sights'[d], K) <=> Carries(sights[d], K) \/ word(d) \in K
    <3>1. sights[d] \in Seq(Sights)
      BY <1>1 DEF SnapshotTypes
    <3>2. word(d) \in Sights /\ sights'[d] = Append(sights[d], word(d))
      BY <1>10, <1>13, <2>1
    <3>3. Carries(Append(sights[d], word(d)), K) <=> Carries(sights[d], K) \/ word(d) \in K
      BY <3>1, <3>2, CarriesMore
    <3> QED BY <3>2, <3>3
  <2>2. Carries(sights'[c], K) <=> Carries(sights[c], K) \/ Carries(SetToSeq(T), K)
    BY <1>12, <1>13, CarriesBoth
  <2> QED BY <1>12, <2>1, <2>2
<1>16. ASSUME NEW d \in Clients PROVE Trodden(d)' /\ ActTold(d)' /\ InTime(d)'
  <2>1. Trodden(d) /\ ActTold(d) /\ InTime(d)
    BY DEF SnapshotInv
  <2>2. Trodden(d)'
    <3>1. CASE d = c
      BY <1>6, <3>1
    <3>2. CASE d # c
      <4>1. said'[d] = said[d] /\ stands'[d] = stands[d] /\ playerCell'[d] = playerCell[d]
        BY <1>2, <1>3, <1>7, <2>1, <3>2
      <4> QED BY <2>1, <4>1, TroddenStays
    <3> QED BY <3>1, <3>2
  <2>3. ActTold(d)'
    <3>1. /\ Carries(said'[d], Enacted) <=> Carries(said[d], Enacted)
          /\ Latest(said'[d], Enacted, Enacting(act[d])) <=> Latest(said[d], Enacted, Enacting(act[d]))
      <4>1. CASE d = c
        BY <1>3, <1>4, <1>5, <4>1
      <4>2. CASE d # c
        BY <1>3, <4>2
      <4> QED BY <4>1, <4>2
    <3> HIDE DEF m, s
    <3> QED BY <1>2, <2>1, <3>1 DEF ActTold, Enacted, Enacting, Sayings, Deeds
  <2>4. ~Carries(sights'[d], Late(visits'[d]))
    <3>1. CASE d = c
      <4>1. \A o \in T : o.stay = stay
        <5> TAKE o \in T
        <5>1. PICK e \in here : o = note(e)
          OBVIOUS
        <5> QED BY <1>9, <1>11, <5>1
      <4>2. T \cap Late(visits[c]) = {}
        BY <1>8, <4>1 DEF Late
      <4> QED BY <1>2, <1>15, <2>1, <3>1, <4>2 DEF InTime
    <3>2. CASE d # c
      <4>1. StayOf(d) \in Int /\ StayOf(d) <= visits[d] /\ visits[d] \in Nat
        BY <1>1, StaysCounted DEF SnapshotTypes
      <4>2. word(d) \notin Late(visits[d])
        BY <1>10, <4>1 DEF Late
      <4> QED BY <1>2, <1>15, <2>1, <3>2, <4>2 DEF InTime
    <3> QED BY <3>1, <3>2
  <2>5. InTime(d)'
    BY <2>4 DEF InTime, Late, Sights, Spawns, Removals, MoveSights, States, Deeds
  <2> QED BY <2>2, <2>3, <2>5
<1>17. ASSUME NEW d \in Clients, NEW e \in Others(d), d # c PROVE Regarded(d, e)'
  <2>1. Regarded(d, e) /\ e \in Clients /\ e # d
    BY DEF SnapshotInv, Others
  <2>2. word(d).who = c /\ word(d).type # "move"
    BY DEF word, SpawnOf, RemoveOf
  <2>3. ASSUME NEW v \in Looks, NEW w \in Looks, DueSight(d, e, v), w = Effect(e, word(d), v)
        PROVE  DueSight(d, e, w)'
    <3>1. CASE e # c
      <4>1. w = v
        BY <2>2, <2>3, <3>1 DEF Effect, Mentions
      <4> QED BY <1>2, <1>7, <1>17, <2>1, <2>3, <3>1, <4>1 DEF DueSight, Hidden
    <3>2. CASE e = c /\ playerCell[d] # cell
      <4>1. w = Hidden
        BY <1>10, <2>3, <3>2 DEF Effect, Mentions, word, RemoveOf
      <4> QED BY <1>7, <1>17, <3>2, <4>1 DEF DueSight, Hidden
    <3>3. CASE e = c /\ playerCell[d] = cell
      <4>1. v = Hidden
        BY <1>6, <2>3, <3>3 DEF DueSight
      <4>2. w = [pos |-> at[c], act |-> current[c]]
        BY <1>10, <2>3, <3>3, <4>1 DEF Effect, Mentions, word, SpawnOf
      <4>3. w # Hidden
        <5>1. at[c] \in Nat
          BY <1>1, HiddenIsNoState DEF SnapshotTypes
        <5> QED BY <4>2, <5>1 DEF Hidden
      <4> QED BY <1>2, <1>7, <1>17, <3>3, <4>2, <4>3 DEF DueSight, Hidden
    <3> QED BY <3>1, <3>2, <3>3
  <2>4. /\ word(d) \in Sights /\ sights'[d] = Append(sights[d], word(d)) /\ word(d).stay = StayOf(d)
        /\ view'[d][e] = view[d][e] /\ visits'[d] = visits[d] /\ said'[d] = said[d]
        /\ missed \subseteq missed'
    BY <1>2, <1>3, <1>10, <1>13, <1>17
  <2> QED BY <1>1, <2>1, <2>3, <2>4, PostedSight
<1>18. ASSUME NEW e \in Others(c) PROVE Regarded(c, e)'
  <2>1. Regarded(c, e) /\ e \in Clients /\ e # c
    BY DEF SnapshotInv, Others
  <2>2. CASE <<c, e>> \in missed
    BY <1>2, <2>2, RegardedThen
  <2>3. CASE Carries(sights[c], Stale(e, visits[c]))
    BY <1>2, <1>15, <2>3, RegardedThen
  <2>4. CASE charCell[e] # playerCell[e]
    <3>1. <<c, e>> \in missed'
      BY <1>2, <2>4
    <3> QED BY <3>1, RegardedThen
  <2>5. CASE StillUnseen(c, e) /\ charCell[e] = playerCell[e]
    <3>1. view'[c][e] = Hidden /\ visits'[c] = visits[c]
      BY <1>2, <2>5 DEF StillUnseen
    <3>2. \A o \in T : o \in Mentions(e) => e \in here /\ o = note(e)
      <4> TAKE o \in T
      <4>1. HAVE o \in Mentions(e)
      <4>2. PICK g \in here : o = note(g)
        OBVIOUS
      <4>3. o.who = g /\ o.type = "spawn"
        BY <1>9, <1>11, <4>2
      <4>4. g = e
        BY <4>1, <4>3 DEF Mentions
      <4> QED BY <4>2, <4>4
    <3>3. e \in here => note(e) \in T /\ note(e) \in Mentions(e) /\ note(e).stay = stay
      BY <1>9, <2>1
    <3> DEFINE z == IF e \in here THEN [pos |-> at[e], act |-> current[e]] ELSE Hidden
    <3>4. CASE Entering(c)' /\ e \in here
      <4>1. note(e) \in Stale(e, visits'[c])
        BY <1>8, <3>1, <3>3, <3>4 DEF Stale
      <4>2. Carries(sights'[c], Stale(e, visits'[c]))
        BY <1>15, <3>3, <3>4, <4>1
      <4> QED BY <4>2, RegardedThen
    <3>5. CASE Entering(c)' /\ e \notin here
      <4>1. ~Carries(sights'[c], Mentions(e))
        BY <1>15, <2>5, <3>2, <3>5 DEF StillUnseen
      <4> QED BY <3>1, <3>5, <4>1, RegardedThen
    <3>6. CASE ~Entering(c)'
      <4>1. z \in Looks /\ Hidden \in Looks
        BY <1>9, <2>1, HiddenIsNoState DEF Looks
      <4>2. Leads(sights[c], Looks, Effects(e), Hidden, Hidden)
        <5>1. ASSUME NEW i \in 1 .. Len(sights[c])
              PROVE  <<Hidden, sights[c][i], Hidden>> \in Effects(e)
          <6>1. sights[c][i] \in Sights /\ sights[c][i] \notin Mentions(e)
            BY <1>12, <2>5, ElementOfSeq DEF StillUnseen, Carries
          <6>2. Hidden = Effect(e, sights[c][i], Hidden)
            BY <6>1 DEF Effect
          <6> QED BY <4>1, <6>1, <6>2, EffectsAre
        <5> QED BY <1>12, <4>1, <5>1, LeadsNowhere
      <4>3. ASSUME NEW o \in T, NEW v \in Looks, o \notin Mentions(e)
            PROVE  <<v, o, v>> \in Effects(e)
        <5>1. o \in Sights /\ v = Effect(e, o, v)
          BY <1>11, <4>3 DEF Effect
        <5> QED BY <5>1, EffectsAre
      <4>4. Leads(SetToSeq(T), Looks, Effects(e), Hidden, z)
        <5>1. CASE e \notin here
          <6>1. z = Hidden /\ \A o \in T : <<Hidden, o, Hidden>> \in Effects(e)
            BY <3>2, <4>1, <4>3, <5>1
          <6> HIDE DEF T, z
          <6> QED BY <1>11, <4>1, <6>1, LeadsSet
        <5>2. CASE e \in here
          <6>1. /\ z = [pos |-> at[e], act |-> current[e]]
                /\ note(e) \in Sights /\ note(e) \in Mentions(e) /\ note(e).type = "spawn"
                /\ note(e).pos = at[e] /\ note(e).act = current[e]
            <7>1. z = [pos |-> at[e], act |-> current[e]]
              BY <5>2
            <7> QED BY <1>9, <2>1, <7>1
          <6>2. z = Effect(e, note(e), Hidden)
            <7> HIDE DEF z
            <7> QED BY <6>1 DEF Effect
          <6>3. <<Hidden, note(e), z>> \in Effects(e)
            BY <4>1, <6>1, <6>2, EffectsAre
          <6>4. note(e) \in T
            BY <3>3, <5>2
          <6> HIDE DEF T, z
          <6>5. \A o \in T : o # note(e) => <<Hidden, o, Hidden>> \in Effects(e)
                                            /\ <<z, o, z>> \in Effects(e)
            BY <3>2, <4>1, <4>3
          <6> QED BY <1>11, <4>1, <6>3, <6>4, <6>5, LeadsSet
        <5> QED BY <5>1, <5>2
      <4> HIDE DEF z, T
      <4>5. Leads(sights'[c], Looks, Effects(e), view'[c][e], z)
        <5>1. Leads(sights[c] \o SetToSeq(T), Looks, Effects(e), Hidden, z)
          BY <1>12, <4>2, <4>4, LeadsThrough
        <5> QED BY <1>13, <3>1, <5>1
      <4>6. \A v \in Looks : v = z => DueSight(c, e, v)'
        <5> TAKE v \in Looks
        <5>1. HAVE v = z
        <5>2. CASE e \in here
          <6>1. v = [pos |-> at[e], act |-> current[e]] /\ charCell[e] = cell
            BY <5>1, <5>2 DEF z
          <6>2. v # Hidden
            <7>1. at[e] \in Nat
              BY <1>1, <2>1, HiddenIsNoState DEF SnapshotTypes
            <7> QED BY <6>1, <7>1 DEF Hidden
          <6> QED BY <1>2, <1>7, <2>1, <2>5, <6>1, <6>2 DEF DueSight, Hidden
        <5>3. CASE e \notin here
          <6>1. v = Hidden /\ charCell[e] # cell
            BY <5>1, <5>3 DEF z
          <6> QED BY <1>7, <2>1, <2>5, <6>1 DEF DueSight, Hidden
        <5> QED BY <5>2, <5>3
      <4>7. \E v \in Looks : Leads(sights'[c], Looks, Effects(e), view'[c][e], v) /\ DueSight(c, e, v)'
        <5>1. PICK v \in Looks : v = z
          BY <4>1
        <5>2. DueSight(c, e, v)'
          BY <4>6, <5>1
        <5> QED BY <4>5, <5>1, <5>2
      <4> QED BY <3>6, <4>7, RegardedThen
    <3> QED BY <3>4, <3>5, <3>6
  <2> QED BY <1>8, <2>1, <2>2, <2>3, <2>4, <2>5 DEF Regarded
<1> QED
  <2>1. ASSUME NEW d \in Clients, NEW e \in Others(d) PROVE Regarded(d, e)'
    BY <1>17, <1>18
  <2> QED BY <1>14, <1>16, <2>1 DEF SnapshotInv, Others

(* Every step keeps the invariant.                                             *)
LEMMA NextSnapshots ==
    ASSUME SnapshotInv, [SnapshotNext]_snapshotVars
    PROVE  SnapshotInv'
<1>1. CASE SnapshotNext
  <2>1. CASE ProcessMovementChanges
    BY <2>1, SnapshotsKeepInv
  <2>2. ASSUME NEW c \in Clients, Acts(c) PROVE SnapshotInv'
    BY <2>2, ActsKeepsInv
  <2>3. ASSUME NEW c \in Clients, RunLocalUpdates(c) PROVE SnapshotInv'
    BY <2>3, ReportKeepsInv
  <2>4. ASSUME NEW c \in Clients, Beholds(c) PROVE SnapshotInv'
    BY <2>4, BeholdsKeepsInv
  <2>5. ASSUME NEW c \in Clients, OnReferencesMoveRequest(c) PROVE SnapshotInv'
    BY <2>5, MoveKeepsInv
  <2>6. ASSUME NEW c \in Clients, HandleInteriorCellEnter(c) PROVE SnapshotInv'
    BY <2>6, CellEnterKeepsInv
  <2>7. ASSUME NEW c \in Clients, NEW r \in Chambers, Walks(c, r) PROVE SnapshotInv'
    BY <2>7, WalkKeepsInv
  <2> QED BY <1>1, <2>1, <2>2, <2>3, <2>4, <2>5, <2>6, <2>7 DEF SnapshotNext
<1>2. CASE UNCHANGED snapshotVars
  <2>1. UNCHANGED <<stands, pos, act, untold, view, said, sights, playerCell, charCell, at, current,
                    actions, sent, visits, missed>>
    BY <1>2 DEF snapshotVars, gameVars, recordVars
  <2>2. SnapshotTypes'
    BY <2>1, TypesThen DEF SnapshotInv, SnapshotTypes
  <2>3. ASSUME NEW d \in Clients PROVE Trodden(d)' /\ ActTold(d)' /\ InTime(d)'
    <3>1. Trodden(d) /\ ActTold(d) /\ InTime(d)
      BY DEF SnapshotInv
    <3>2. Trodden(d)'
      <4>1. said'[d] = said[d] /\ stands'[d] = stands[d] /\ playerCell'[d] = playerCell[d]
        BY <2>1, <3>1
      <4> QED BY <3>1, <4>1, TroddenStays
    <3>3. ActTold(d)'
      BY <2>1, <3>1 DEF ActTold, Enacted, Enacting, Sayings, Deeds
    <3>4. InTime(d)'
      BY <2>1, <3>1 DEF InTime, Late, Sights, Spawns, Removals, MoveSights, States, Deeds
    <3> QED BY <3>2, <3>3, <3>4
  <2>4. ASSUME NEW d \in Clients, NEW e \in Others(d) PROVE Regarded(d, e)'
    <3>1. Regarded(d, e) /\ e \in Clients
      BY DEF SnapshotInv, Others
    <3>2. Entering(d)' <=> Entering(d)
      BY <2>1 DEF Entering, Entrances, Sayings, Deeds
    <3>3. \A v \in Looks : DueSight(d, e, v) => DueSight(d, e, v)'
      BY <2>1 DEF DueSight, Hidden
    <3> QED BY <2>1, <3>1, <3>2, <3>3, RegardStays
  <2> QED BY <2>2, <2>3, <2>4 DEF SnapshotInv, Others
<1> QED BY <1>1, <1>2

(* However players walk, act, enter and report, and whenever the server takes its*)
(* snapshots: what is under way between two players makes of one's view of the *)
(* other what it has to be.                                                    *)
THEOREM SnapshotInvariant == SnapshotSpec => []SnapshotInv
<1> QED BY InitSnapshots, NextSnapshots, PTL DEF SnapshotSpec

(* The cells and the views have their types.                                   *)
THEOREM SnapshotTypesHold == SnapshotSpec => []SnapshotTypeOK
<1>1. SnapshotInv => SnapshotTypeOK
  <2> SUFFICES ASSUME SnapshotInv PROVE SnapshotTypeOK
    OBVIOUS
  <2>1. SnapshotTypes
    BY DEF SnapshotInv
  <2>2. Looks \subseteq [pos : -1 .. MaxDeed, act : -1 .. MaxDeed]
    <3>1. -1 \in -1 .. MaxDeed /\ Deeds \subseteq -1 .. MaxDeed
      BY SnapshotsAssumption DEF Deeds
    <3> DEFINE V == [pos : -1 .. MaxDeed, act : -1 .. MaxDeed]
    <3>2. Hidden \in V
      BY <3>1 DEF Hidden
    <3>3. States \subseteq V
      BY <3>1 DEF States
    <3> QED BY <3>2, <3>3 DEF Looks
  <2>3. view \in [Clients -> [Clients -> [pos : -1 .. MaxDeed, act : -1 .. MaxDeed]]]
    <3> DEFINE V == [pos : -1 .. MaxDeed, act : -1 .. MaxDeed]
    <3>1. view \in [Clients -> [Clients -> Looks]] /\ Looks \subseteq V
      BY <2>1, <2>2 DEF SnapshotTypes
    <3> HIDE DEF V
    <3> QED BY <3>1 DEF V
  <2> QED BY <2>1, <2>3 DEF SnapshotTypes, SnapshotTypeOK
<1> QED BY <1>1, SnapshotInvariant, PTL

(* For any players, cells and bounds: when all is reported, passed on and read,*)
(* players show each other as they are, but for those who missed each other.   *)
THEOREM ViewsAlwaysAgree == SnapshotSpec => []ViewsAgree
<1>1. SnapshotInv => ViewsAgree
  <2> SUFFICES ASSUME SnapshotInv, NEW d \in Clients, NEW c \in Others(d), Reported,
                      <<d, c>> \notin missed
               PROVE  view[d][c] = IF stands[c] = stands[d] THEN [pos |-> pos[c], act |-> act[c]]
                                                            ELSE Hidden
    BY DEF ViewsAgree
  <2>1. SnapshotTypes /\ c \in Clients /\ Regarded(d, c)
    BY DEF SnapshotInv, Others
  <2>2. ASSUME NEW e \in Clients
        PROVE  /\ said[e] = <<>> /\ sights[e] = <<>> /\ sent[e] /\ at[e] = pos[e] /\ untold[e] = 0
               /\ charCell[e] = stands[e] /\ stands[e] = playerCell[e] /\ current[e] = act[e]
    <3>1. /\ said[e] = <<>> /\ sights[e] = <<>> /\ sent[e] /\ at[e] = pos[e] /\ untold[e] = 0
          /\ charCell[e] = stands[e]
      BY DEF Reported
    <3>2. stands[e] = playerCell[e]
      BY <3>1 DEF SnapshotInv, Trodden, CellAfter
    <3>3. current[e] = act[e]
      BY <3>1, CarriesNothing DEF SnapshotInv, ActTold
    <3> QED BY <3>1, <3>2, <3>3
  <2>3. ~Entering(d) /\ ~Carries(sights[d], Stale(c, visits[d]))
    BY <2>2, CarriesNothing DEF Entering
  <2>4. PICK v \in Looks : Leads(sights[d], Looks, Effects(c), view[d][c], v) /\ DueSight(d, c, v)
    BY <2>1, <2>3 DEF Regarded, Pictured
  <2>5. v = view[d][c]
    <3>1. view[d][c] \in Looks /\ sights[d] = <<>>
      BY <2>1, <2>2 DEF SnapshotTypes
    <3>2. Leads(<<>>, Looks, Effects(c), view[d][c], v)
      BY <2>4, <3>1
    <3> DEFINE x == view[d][c]
    <3>3. x \in Looks /\ Leads(<<>>, Looks, Effects(c), x, v)
      BY <3>1, <3>2
    <3> HIDE DEF x
    <3>4. v = x
      BY <3>3, LeadsOnTheSpot
    <3> QED BY <3>4 DEF x
  <2>6. CASE stands[c] = stands[d]
    <3>1. v # Hidden /\ v.pos = pos[c] /\ v.act = act[c]
      BY <2>1, <2>2, <2>4, <2>6 DEF DueSight
    <3>2. v \in States
      BY <3>1 DEF Looks
    <3> QED BY <2>5, <2>6, <3>1, <3>2 DEF States
  <2>7. CASE stands[c] # stands[d]
    <3>1. v = Hidden
      BY <2>1, <2>2, <2>4, <2>7 DEF DueSight
    <3> QED BY <2>5, <2>7, <3>1
  <2> QED BY <2>6, <2>7
<1> QED BY <1>1, SnapshotInvariant, PTL

---------------------------------------------------------------------------
(* What a queue leaves a reader with *)

\* Who reads s with something of X in mind ends with something of G: a message
\* of s takes what is in mind to something of V in one of the ways of E, the
\* triples of the one, the message and the other
Ends(s, V, E, X, G) ==
    \E w \in [0 .. Len(s) -> SUBSET V] :
        /\ X \subseteq w[0] /\ w[Len(s)] \subseteq G
        /\ \A i \in 1 .. Len(s) : \A y \in w[i - 1], z \in V : <<y, s[i], z>> \in E => z \in w[i]

\* m leaves a reader in G who is there, and brings anyone into G
Keeps(m, V, E, G) == \A y \in G, z \in V : <<y, m, z>> \in E => z \in G
Settles(m, V, E, G) == \A y, z \in V : <<y, m, z>> \in E => z \in G

(* Who has nothing to read ends where he is.                                   *)
LEMMA EndsThere ==
    ASSUME NEW V, NEW E, NEW X \in SUBSET V, NEW G
    PROVE  Ends(<<>>, V, E, X, G) <=> X \subseteq G
<1>1. Len(<<>>) = 0 /\ 1 .. 0 = {}
  OBVIOUS
<1>2. ASSUME X \subseteq G PROVE Ends(<<>>, V, E, X, G)
  <2> DEFINE w == [i \in 0 .. 0 |-> X]
  <2>1. w \in [0 .. 0 -> SUBSET V] /\ w[0] = X
    OBVIOUS
  <2> HIDE DEF w
  <2> QED BY <1>1, <1>2, <2>1 DEF Ends
<1>3. ASSUME Ends(<<>>, V, E, X, G) PROVE X \subseteq G
  BY <1>1, <1>3 DEF Ends
<1> QED BY <1>2, <1>3

(* A message is read.                                                          *)
LEMMA EndsSoon ==
    ASSUME NEW S, NEW s \in Seq(S), s # <<>>, NEW V, NEW E, NEW X, NEW G, Ends(s, V, E, X, G),
           NEW x \in X, NEW y \in V, <<x, Head(s), y>> \in E
    PROVE  Ends(Tail(s), V, E, {y}, G)
<1> DEFINE t == Tail(s)
           n == Len(t)
<1>1. /\ n \in Nat /\ Len(s) = n + 1 /\ Head(s) = s[1]
      /\ \A i \in 1 .. n : t[i] = s[i + 1]
  BY HeadTailProperties, LenProperties
<1>2. PICK w \in [0 .. n + 1 -> SUBSET V] :
         /\ X \subseteq w[0] /\ w[n + 1] \subseteq G
         /\ \A i \in 1 .. n + 1 : \A p \in w[i - 1], z \in V : <<p, s[i], z>> \in E => z \in w[i]
  BY <1>1 DEF Ends
<1> HIDE DEF t, n
<1> DEFINE u == [i \in 0 .. n |-> w[i + 1]]
<1>3. /\ u \in [0 .. n -> SUBSET V]
      /\ \A i \in 0 .. n : u[i] = w[i + 1]
  BY <1>1, <1>2
<1>4. y \in u[0]
  <2>1. 1 \in 1 .. n + 1 /\ 1 - 1 = 0 /\ 0 \in 0 .. n /\ 0 + 1 = 1
    BY <1>1
  <2>2. x \in w[0] /\ <<x, s[1], y>> \in E
    BY <1>1, <1>2
  <2>3. y \in w[1]
    BY <1>2, <2>1, <2>2
  <2> QED BY <1>3, <2>1, <2>3
<1>5. u[n] \subseteq G
  BY <1>1, <1>2, <1>3
<1>6. ASSUME NEW i \in 1 .. n, NEW p \in u[i - 1], NEW z \in V, <<p, t[i], z>> \in E
      PROVE  z \in u[i]
  <2>1. i + 1 \in 1 .. n + 1 /\ i - 1 \in 0 .. n /\ i \in 0 .. n /\ (i - 1) + 1 = i /\ (i + 1) - 1 = i
    BY <1>1
  <2>2. u[i - 1] = w[i] /\ u[i] = w[i + 1] /\ t[i] = s[i + 1]
    BY <1>1, <1>3, <2>1
  <2>3. \A q \in w[(i + 1) - 1] : <<q, s[i + 1], z>> \in E => z \in w[i + 1]
    BY <1>2, <2>1
  <2> QED BY <1>6, <2>1, <2>2, <2>3
<1> HIDE DEF u
<1> QED BY <1>3, <1>4, <1>5, <1>6 DEF Ends, n, t

(* One message more, which keeps a reader where he ends.                       *)
LEMMA EndsStill ==
    ASSUME NEW S, NEW s \in Seq(S), NEW m \in S, NEW V, NEW E, NEW X, NEW G \in SUBSET V,
           Ends(s, V, E, X, G), Keeps(m, V, E, G)
    PROVE  Ends(Append(s, m), V, E, X, G)
<1> DEFINE t == Append(s, m)
           n == Len(s)
<1>1. n \in Nat /\ Len(t) = n + 1 /\ t[n + 1] = m /\ \A i \in 1 .. n : t[i] = s[i]
  BY AppendProperties, LenProperties
<1>2. PICK w \in [0 .. n -> SUBSET V] :
         /\ X \subseteq w[0] /\ w[n] \subseteq G
         /\ \A i \in 1 .. n : \A y \in w[i - 1], z \in V : <<y, s[i], z>> \in E => z \in w[i]
  BY DEF Ends
<1> HIDE DEF t, n
<1> DEFINE u == [i \in 0 .. n + 1 |-> IF i = n + 1 THEN G ELSE w[i]]
<1>3. /\ u \in [0 .. n + 1 -> SUBSET V] /\ u[n + 1] = G
      /\ \A i \in 0 .. n : u[i] = w[i]
  BY <1>1, <1>2
<1>4. 0 \in 0 .. n
  BY <1>1
<1>5. ASSUME NEW i \in 1 .. n + 1, NEW y \in u[i - 1], NEW z \in V, <<y, t[i], z>> \in E
      PROVE  z \in u[i]
  <2>1. CASE i = n + 1
    <3>1. i - 1 = n /\ n \in 0 .. n
      BY <1>1, <2>1
    <3>2. y \in G
      BY <1>2, <1>3, <3>1
    <3>3. t[i] = m /\ u[i] = G
      BY <1>1, <1>3, <2>1
    <3> QED BY <1>5, <3>2, <3>3 DEF Keeps
  <2>2. CASE i # n + 1
    <3>1. i \in 1 .. n /\ i - 1 \in 0 .. n /\ i \in 0 .. n
      BY <1>1, <2>2
    <3>2. y \in w[i - 1] /\ u[i] = w[i] /\ t[i] = s[i]
      BY <1>1, <1>3, <3>1
    <3> QED BY <1>2, <1>5, <3>1, <3>2
  <2> QED BY <2>1, <2>2
<1> HIDE DEF u
<1> QED BY <1>1, <1>2, <1>3, <1>4, <1>5 DEF Ends, t

(* One message more, which settles where a reader ends.                        *)
LEMMA EndsNow ==
    ASSUME NEW S, NEW s \in Seq(S), NEW m \in S, NEW V, NEW E, NEW X \in SUBSET V,
           NEW G \in SUBSET V, Settles(m, V, E, G)
    PROVE  Ends(Append(s, m), V, E, X, G)
<1> DEFINE t == Append(s, m)
           n == Len(s)
<1>1. n \in Nat /\ Len(t) = n + 1 /\ t[n + 1] = m
  BY AppendProperties, LenProperties
<1> HIDE DEF t, n
<1> DEFINE u == [i \in 0 .. n + 1 |-> IF i = n + 1 THEN G ELSE V]
<1>2. /\ u \in [0 .. n + 1 -> SUBSET V] /\ u[n + 1] = G
      /\ \A i \in 0 .. n : u[i] = V
  BY <1>1
<1>3. X \subseteq u[0]
  BY <1>1, <1>2
<1>4. ASSUME NEW i \in 1 .. n + 1, NEW y \in u[i - 1], NEW z \in V, <<y, t[i], z>> \in E
      PROVE  z \in u[i]
  <2>1. CASE i = n + 1
    <3>1. i - 1 = n /\ n \in 0 .. n
      BY <1>1, <2>1
    <3>2. y \in V
      BY <1>2, <3>1
    <3>3. t[i] = m /\ u[i] = G
      BY <1>1, <1>2, <2>1
    <3> QED BY <1>4, <3>2, <3>3 DEF Settles
  <2>2. CASE i # n + 1
    <3>1. i \in 0 .. n
      BY <1>1, <2>2
    <3> QED BY <1>2, <3>1
  <2> QED BY <2>1, <2>2
<1> HIDE DEF u
<1> QED BY <1>1, <1>2, <1>3, <1>4 DEF Ends, t

(* Two queues, one after the other.                                            *)
LEMMA TwoQueues ==
    ASSUME NEW S, NEW s \in Seq(S), NEW t \in Seq(S)
    PROVE  /\ Len(s) \in Nat /\ Len(t) \in Nat /\ Len(s \o t) = Len(s) + Len(t)
           /\ \A i \in 1 .. Len(s) : (s \o t)[i] = s[i]
           /\ \A i \in 1 .. Len(t) : (s \o t)[Len(s) + i] = t[i]
<1> DEFINE u == s \o t
           n == Len(s)
           k == Len(t)
<1>1. n \in Nat /\ k \in Nat
  BY LenProperties
<1>2. Len(u) = n + k /\ \A i \in 1 .. n + k : u[i] = IF i <= n THEN s[i] ELSE t[i - n]
  BY ConcatProperties
<1>3. \A i \in 1 .. n : i \in 1 .. n + k /\ i <= n
  BY <1>1
<1> HIDE DEF u, n, k
<1>4. \A i \in 1 .. n : u[i] = s[i]
  BY <1>2, <1>3
<1>5. \A i \in 1 .. k : u[n + i] = t[i]
  <2> TAKE i \in 1 .. k
  <2> DEFINE j == n + i
  <2>1. j \in 1 .. n + k /\ ~(j <= n) /\ j - n = i
    BY <1>1
  <2> HIDE DEF j
  <2>2. u[j] = IF j <= n THEN s[j] ELSE t[j - n]
    BY <1>2, <2>1
  <2> QED BY <2>1, <2>2 DEF j
<1> QED BY <1>1, <1>2, <1>4, <1>5 DEF u, n, k

(* Many messages more, each of which keeps a reader where he ends.             *)
LEMMA EndsStillAll ==
    ASSUME NEW S, NEW s \in Seq(S), NEW T \in SUBSET S, IsFiniteSet(T), NEW V, NEW E, NEW X,
           NEW G \in SUBSET V, Ends(s, V, E, X, G), \A m \in T : Keeps(m, V, E, G)
    PROVE  Ends(s \o SetToSeq(T), V, E, X, G)
<1> DEFINE t == SetToSeq(T)
           u == s \o t
           n == Len(s)
           k == Len(t)
<1>1. t \in Seq(S) /\ \A i \in 1 .. k : t[i] \in T
  <2>1. t \in Seq(T)
    BY SetInOrder
  <2> QED BY <2>1, SeqMonotonic, ElementOfSeq
<1>2. /\ n \in Nat /\ k \in Nat /\ Len(u) = n + k
      /\ \A i \in 1 .. n : u[i] = s[i]
      /\ \A i \in 1 .. k : u[n + i] = t[i]
  BY <1>1, TwoQueues
<1>3. PICK w \in [0 .. n -> SUBSET V] :
         /\ X \subseteq w[0] /\ w[n] \subseteq G
         /\ \A i \in 1 .. n : \A y \in w[i - 1], z \in V : <<y, s[i], z>> \in E => z \in w[i]
  BY DEF Ends
<1> HIDE DEF u, n, k, t
<1> DEFINE f == [i \in 0 .. n + k |-> IF i <= n THEN w[i] ELSE G]
<1>4. /\ f \in [0 .. n + k -> SUBSET V]
      /\ \A i \in 0 .. n : f[i] = w[i]
      /\ \A i \in n + 1 .. n + k : f[i] = G
  <2>1. ASSUME NEW i \in 0 .. n + k PROVE (IF i <= n THEN w[i] ELSE G) \in SUBSET V
    <3>1. i <= n => i \in 0 .. n
      BY <1>2
    <3> QED BY <1>3, <3>1
  <2>2. \A i \in 0 .. n : i \in 0 .. n + k /\ i <= n
    BY <1>2
  <2>3. \A i \in n + 1 .. n + k : i \in 0 .. n + k /\ ~(i <= n)
    BY <1>2
  <2> QED BY <2>1, <2>2, <2>3
<1> HIDE DEF f
<1>5. 0 \in 0 .. n /\ n \in 0 .. n
  BY <1>2
<1>6. f[n + k] \subseteq G
  <2>1. CASE k = 0
    <3>1. n + k = n
      BY <1>2, <2>1
    <3> QED BY <1>3, <1>4, <1>5, <3>1
  <2>2. CASE k # 0
    <3>1. n + k \in n + 1 .. n + k
      BY <1>2, <2>2
    <3> QED BY <1>4, <3>1
  <2> QED BY <2>1, <2>2
<1>7. ASSUME NEW i \in 1 .. n + k, NEW y \in f[i - 1], NEW z \in V, <<y, u[i], z>> \in E
      PROVE  z \in f[i]
  <2>1. CASE i <= n
    <3>1. i \in 1 .. n /\ i \in 0 .. n /\ i - 1 \in 0 .. n
      BY <1>2, <2>1
    <3>2. y \in w[i - 1] /\ f[i] = w[i] /\ u[i] = s[i]
      BY <1>2, <1>4, <3>1
    <3> QED BY <1>3, <1>7, <3>1, <3>2
  <2>2. CASE ~(i <= n)
    <3> DEFINE j == i - n
    <3>1. j \in 1 .. k /\ n + j = i /\ i \in n + 1 .. n + k
      BY <1>2, <2>2
    <3> HIDE DEF j
    <3>2. u[i] = t[j] /\ t[j] \in T /\ f[i] = G
      BY <1>1, <1>2, <1>4, <3>1
    <3>3. y \in G
      <4>1. CASE i = n + 1
        <5>1. i - 1 = n
          BY <1>2, <4>1
        <5> QED BY <1>3, <1>4, <1>5, <5>1
      <4>2. CASE i # n + 1
        <5>1. i - 1 \in n + 1 .. n + k
          BY <1>2, <2>2, <4>2
        <5> QED BY <1>4, <5>1
      <4> QED BY <4>1, <4>2
    <3> QED BY <1>7, <3>2, <3>3 DEF Keeps
  <2> QED BY <2>1, <2>2
<1>8. X \subseteq f[0]
  BY <1>3, <1>4, <1>5
<1> QED BY <1>2, <1>4, <1>6, <1>7, <1>8 DEF Ends, u, t

(* Many messages more, one of which settles where a reader ends.               *)
LEMMA EndsNowAmong ==
    ASSUME NEW S, NEW s \in Seq(S), NEW T \in SUBSET S, IsFiniteSet(T), NEW V, NEW E,
           NEW X \in SUBSET V, NEW G \in SUBSET V, \A m \in T : Keeps(m, V, E, G),
           NEW a \in T, Settles(a, V, E, G)
    PROVE  Ends(s \o SetToSeq(T), V, E, X, G)
<1> DEFINE t == SetToSeq(T)
           u == s \o t
           n == Len(s)
           k == Len(t)
<1>1. /\ t \in Seq(S) /\ \A i \in 1 .. k : t[i] \in T
      /\ \E i \in 1 .. k : t[i] = a
  <2>1. t \in Seq(T) /\ \E i \in 1 .. k : t[i] = a
    BY SetInOrder
  <2> QED BY <2>1, SeqMonotonic, ElementOfSeq
<1>2. /\ n \in Nat /\ k \in Nat /\ Len(u) = n + k
      /\ \A i \in 1 .. k : u[n + i] = t[i]
  BY <1>1, TwoQueues
<1>3. PICK l \in 1 .. k : t[l] = a
  BY <1>1
<1> HIDE DEF u, n, k, t
<1> DEFINE f == [i \in 0 .. n + k |-> IF i < n + l THEN V ELSE G]
<1>4. /\ f \in [0 .. n + k -> SUBSET V]
      /\ \A i \in 0 .. n + k : f[i] = IF i < n + l THEN V ELSE G
  OBVIOUS
<1> HIDE DEF f
<1>5. X \subseteq f[0]
  <2>1. 0 \in 0 .. n + k /\ 0 < n + l
    BY <1>2
  <2> QED BY <1>4, <2>1
<1>6. f[n + k] \subseteq G
  <2>1. n + k \in 0 .. n + k /\ ~(n + k < n + l)
    BY <1>2
  <2> QED BY <1>4, <2>1
<1>7. ASSUME NEW i \in 1 .. n + k, NEW y \in f[i - 1], NEW z \in V, <<y, u[i], z>> \in E
      PROVE  z \in f[i]
  <2>0. i \in 0 .. n + k /\ i - 1 \in 0 .. n + k
    BY <1>2
  <2>1. CASE i < n + l
    BY <1>4, <2>0, <2>1
  <2>2. CASE i = n + l
    <3>1. u[i] = a /\ ~(i < n + l) /\ i - 1 < n + l
      BY <1>2, <1>3, <2>2
    <3>2. y \in V /\ f[i] = G
      BY <1>4, <2>0, <3>1
    <3> QED BY <1>7, <3>1, <3>2 DEF Settles
  <2>3. CASE i > n + l
    <3> DEFINE j == i - n
    <3>1. j \in 1 .. k /\ n + j = i /\ ~(i < n + l) /\ ~(i - 1 < n + l)
      BY <1>2, <2>3
    <3> HIDE DEF j
    <3>2. u[i] = t[j] /\ t[j] \in T
      BY <1>1, <1>2, <3>1
    <3>3. y \in G /\ f[i] = G
      BY <1>4, <2>0, <3>1
    <3> QED BY <1>7, <3>2, <3>3 DEF Keeps
  <2> QED BY <1>2, <2>1, <2>2, <2>3
<1> QED BY <1>2, <1>4, <1>5, <1>6, <1>7 DEF Ends, u, t

(* Who has lost what was in mind ends where he is, or where he would have      *)
(* ended if a message could have found him so.                                 *)
LEMMA EndsLost ==
    ASSUME NEW S, NEW s \in Seq(S), NEW V, NEW E, NEW X \in SUBSET V, NEW G,
           Ends(s, V, E, X, G), NEW x \in X, NEW y \in V, y \in G,
           \A m \in S, z \in V : <<y, m, z>> \in E => <<x, m, z>> \in E
    PROVE  Ends(s, V, E, {y}, G)
<1> DEFINE n == Len(s)
<1>1. n \in Nat /\ \A i \in 1 .. n : s[i] \in S
  BY LenProperties, ElementOfSeq
<1>2. PICK w \in [0 .. n -> SUBSET V] :
         /\ X \subseteq w[0] /\ w[n] \subseteq G
         /\ \A i \in 1 .. n : \A p \in w[i - 1], z \in V : <<p, s[i], z>> \in E => z \in w[i]
  BY DEF Ends
<1> HIDE DEF n
<1> DEFINE f == [i \in 0 .. n |-> IF i = 0 THEN {y} ELSE w[i]]
<1>3. /\ f \in [0 .. n -> SUBSET V] /\ f[0] = {y}
      /\ \A i \in 1 .. n : f[i] = w[i]
  BY <1>1, <1>2
<1>4. f[n] \subseteq G
  <2>1. CASE n = 0
    BY <1>3, <2>1
  <2>2. CASE n # 0
    <3>1. n \in 1 .. n
      BY <1>1, <2>2
    <3> QED BY <1>2, <1>3, <3>1
  <2> QED BY <2>1, <2>2
<1> HIDE DEF f
<1>5. ASSUME NEW i \in 1 .. n, NEW p \in f[i - 1], NEW z \in V, <<p, s[i], z>> \in E
      PROVE  z \in f[i]
  <2>1. CASE i = 1
    <3>1. i - 1 = 0
      BY <2>1
    <3>2. p = y /\ s[i] \in S
      BY <1>1, <1>3, <3>1
    <3>3. <<x, s[i], z>> \in E /\ x \in w[i - 1]
      BY <1>2, <1>5, <3>1, <3>2
    <3> QED BY <1>2, <1>3, <3>3
  <2>2. CASE i # 1
    <3>1. i - 1 \in 1 .. n
      BY <1>1, <2>2
    <3>2. p \in w[i - 1]
      BY <1>3, <3>1
    <3> QED BY <1>2, <1>3, <1>5, <3>2
  <2> QED BY <2>1, <2>2
<1> QED BY <1>3, <1>4, <1>5 DEF Ends, n

---------------------------------------------------------------------------
(* What a client has told of its walk *)

\* The messages of a client
Arrival(x) == [type |-> "enter", cell |-> x]
CellEntries == {Arrival(x) : x \in GridCells}
Shifts == [type : {"shift"}, cell : GridCells, center : GridCells, cells : SUBSET GridCells]
Steps == [type : {"move"}, cell : GridCells]
Tidings == CellEntries \cup Shifts \cup Steps

\* The cell where a walk that starts in x is after i messages of s
CellAt(s, x, i) == IF i = 0 THEN x ELSE s[i].cell

(* The messages of s tell of a walk from x to y: a report names the cell that  *)
(* was entered last, a shift of the grid is followed by the cell that caused   *)
(* it, and the last cell entered is the one where the player is.               *)
Trail(s, x, y) ==
    /\ \A i \in 1 .. Len(s) : s[i].type = "move" => s[i].cell = CellAt(s, x, i - 1)
    /\ \A i \in 1 .. Len(s) : s[i].type = "shift" =>
          i + 1 \in 1 .. Len(s) /\ s[i + 1] = Arrival(s[i].cell)
    /\ y = CellAt(s, x, Len(s))
    /\ IF Carries(s, CellEntries) THEN Latest(s, CellEntries, {Arrival(y)}) ELSE x = y

(* Of the messages, only a shift has the type of one, and so on.               *)
LEMMA TidingsAre ==
    ASSUME NEW m \in Tidings
    PROVE  /\ m.type \in {"enter", "shift", "move"} /\ m.cell \in GridCells
           /\ m.type = "enter" <=> m \in CellEntries
           /\ m.type = "enter" => m = Arrival(m.cell)
           /\ m.type = "shift" => m \in Shifts
<1>1. CASE m \in CellEntries
  BY <1>1 DEF CellEntries, Arrival
<1>2. CASE m \in Shifts
  BY <1>2 DEF CellEntries, Arrival, Shifts
<1>3. CASE m \in Steps
  BY <1>3 DEF CellEntries, Arrival, Steps
<1> QED BY <1>1, <1>2, <1>3 DEF Tidings

(* Nothing told, nowhere gone.                                                 *)
LEMMA TrailNowhere == \A x : Trail(<<>>, x, x)
<1>1. Len(<<>>) = 0 /\ 1 .. 0 = {}
  OBVIOUS
<1> QED BY <1>1, CarriesNothing DEF Trail, CellAt

(* A report.                                                                   *)
LEMMA TrailStep ==
    ASSUME NEW s \in Seq(Tidings), NEW x \in GridCells, NEW y \in GridCells, Trail(s, x, y),
           NEW m \in Tidings, m.type = "move", m.cell = y
    PROVE  Trail(Append(s, m), x, y)
<1> DEFINE t == Append(s, m)
           n == Len(s)
<1>1. n \in Nat /\ Len(t) = n + 1 /\ t[n + 1] = m /\ \A i \in 1 .. n : t[i] = s[i]
  BY AppendProperties, LenProperties
<1>2. \A K : (m \notin K => (Carries(t, K) <=> Carries(s, K)) /\
                            \A G : Latest(t, K, G) <=> Latest(s, K, G))
  BY CarriesMore DEF SameOn
<1>3. m \notin CellEntries
  BY TidingsAre
<1>4. /\ \A i \in 1 .. n : s[i].type = "move" => s[i].cell = CellAt(s, x, i - 1)
      /\ \A i \in 1 .. n : s[i].type = "shift" => i + 1 \in 1 .. n /\ s[i + 1] = Arrival(s[i].cell)
      /\ y = CellAt(s, x, n)
      /\ IF Carries(s, CellEntries) THEN Latest(s, CellEntries, {Arrival(y)}) ELSE x = y
  BY DEF Trail
<1> HIDE DEF t, n
<1>5. \A i \in 0 .. n : CellAt(t, x, i) = CellAt(s, x, i)
  <2> TAKE i \in 0 .. n
  <2>1. i = 0 \/ i \in 1 .. n
    BY <1>1
  <2> QED BY <1>1, <2>1 DEF CellAt
<1>6. ASSUME NEW i \in 1 .. n + 1, t[i].type = "move" PROVE t[i].cell = CellAt(t, x, i - 1)
  <2>1. i - 1 \in 0 .. n
    BY <1>1
  <2>2. CASE i = n + 1
    <3>1. i - 1 = n
      BY <1>1, <2>2
    <3> QED BY <1>1, <1>4, <1>5, <2>1, <2>2, <3>1
  <2>3. CASE i # n + 1
    <3>1. i \in 1 .. n
      BY <1>1, <2>3
    <3> QED BY <1>1, <1>4, <1>5, <1>6, <2>1, <3>1
  <2> QED BY <2>2, <2>3
<1>7. ASSUME NEW i \in 1 .. n + 1, t[i].type = "shift"
      PROVE  i + 1 \in 1 .. n + 1 /\ t[i + 1] = Arrival(t[i].cell)
  <2>1. i # n + 1
    BY <1>1, <1>7
  <2>2. i \in 1 .. n
    BY <1>1, <2>1
  <2>3. i + 1 \in 1 .. n /\ s[i + 1] = Arrival(s[i].cell)
    BY <1>1, <1>4, <1>7, <2>2
  <2> QED BY <1>1, <2>2, <2>3
<1>8. y = CellAt(t, x, n + 1)
  BY <1>1 DEF CellAt
<1> QED BY <1>1, <1>2, <1>3, <1>4, <1>6, <1>7, <1>8 DEF Trail, t

(* Another cell.                                                               *)
LEMMA TrailArrival ==
    ASSUME NEW s \in Seq(Tidings), NEW x \in GridCells, NEW y \in GridCells, Trail(s, x, y),
           NEW z \in GridCells
    PROVE  Trail(Append(s, Arrival(z)), x, z)
<1> DEFINE m == Arrival(z)
           t == Append(s, m)
           n == Len(s)
<1>0. m \in Tidings /\ m \in CellEntries /\ m.type = "enter" /\ m.cell = z /\ m \in {Arrival(z)}
  BY DEF Tidings, CellEntries, Arrival
<1> HIDE DEF m
<1>1. n \in Nat /\ Len(t) = n + 1 /\ t[n + 1] = m /\ \A i \in 1 .. n : t[i] = s[i]
  BY <1>0, AppendProperties, LenProperties
<1>2. Carries(t, CellEntries) /\ Latest(t, CellEntries, {Arrival(z)})
  BY <1>0, CarriesMore
<1>4. /\ \A i \in 1 .. n : s[i].type = "move" => s[i].cell = CellAt(s, x, i - 1)
      /\ \A i \in 1 .. n : s[i].type = "shift" => i + 1 \in 1 .. n /\ s[i + 1] = Arrival(s[i].cell)
  BY DEF Trail
<1> HIDE DEF t, n
<1>5. \A i \in 0 .. n : CellAt(t, x, i) = CellAt(s, x, i)
  <2> TAKE i \in 0 .. n
  <2>1. i = 0 \/ i \in 1 .. n
    BY <1>1
  <2> QED BY <1>1, <2>1 DEF CellAt
<1>6. ASSUME NEW i \in 1 .. n + 1, t[i].type = "move" PROVE t[i].cell = CellAt(t, x, i - 1)
  <2>1. i # n + 1
    BY <1>0, <1>1, <1>6
  <2>2. i \in 1 .. n /\ i - 1 \in 0 .. n
    BY <1>1, <2>1
  <2> QED BY <1>1, <1>4, <1>5, <1>6, <2>2
<1>7. ASSUME NEW i \in 1 .. n + 1, t[i].type = "shift"
      PROVE  i + 1 \in 1 .. n + 1 /\ t[i + 1] = Arrival(t[i].cell)
  <2>1. i # n + 1
    BY <1>0, <1>1, <1>7
  <2>2. i \in 1 .. n
    BY <1>1, <2>1
  <2>3. i + 1 \in 1 .. n /\ s[i + 1] = Arrival(s[i].cell)
    BY <1>1, <1>4, <1>7, <2>2
  <2> QED BY <1>1, <2>2, <2>3
<1>8. z = CellAt(t, x, n + 1)
  BY <1>0, <1>1 DEF CellAt
<1> QED BY <1>1, <1>2, <1>6, <1>7, <1>8 DEF Trail, t, m

(* Another cell, and the shift of the grid that it causes.                     *)
LEMMA TrailShift ==
    ASSUME NEW s \in Seq(Tidings), NEW x \in GridCells, NEW y \in GridCells, Trail(s, x, y),
           NEW m \in Shifts
    PROVE  Trail(Append(Append(s, m), Arrival(m.cell)), x, m.cell)
<1> DEFINE a == Arrival(m.cell)
           u == Append(s, m)
           t == Append(u, a)
           n == Len(s)
<1>0. /\ m \in Tidings /\ m.type = "shift" /\ m.cell \in GridCells
      /\ a \in Tidings /\ a \in CellEntries /\ a.type = "enter" /\ a.cell = m.cell
      /\ a \in {Arrival(m.cell)}
  BY DEF Tidings, CellEntries, Arrival, Shifts
<1>1. /\ n \in Nat /\ Len(t) = n + 2 /\ t[n + 2] = a /\ t[n + 1] = m
      /\ \A i \in 1 .. n : t[i] = s[i]
  <2> HIDE DEF a
  <2>1. u \in Seq(Tidings) /\ n \in Nat /\ Len(u) = n + 1 /\ u[n + 1] = m
        /\ \A i \in 1 .. n : u[i] = s[i]
    BY <1>0, AppendProperties, LenProperties
  <2> HIDE DEF u
  <2>2. Len(t) = Len(u) + 1 /\ t[Len(u) + 1] = a /\ \A i \in 1 .. Len(u) : t[i] = u[i]
    BY <1>0, <2>1, AppendProperties
  <2> HIDE DEF t, n
  <2>3. n + 1 \in 1 .. Len(u) /\ Len(u) + 1 = n + 2 /\ \A i \in 1 .. n : i \in 1 .. Len(u)
    BY <2>1
  <2> QED BY <2>1, <2>2, <2>3
<1>2. Carries(t, CellEntries) /\ Latest(t, CellEntries, {Arrival(m.cell)})
  <2> HIDE DEF a
  <2>1. u \in Seq(Tidings)
    BY <1>0, AppendProperties
  <2> HIDE DEF u
  <2> QED BY <1>0, <2>1, CarriesMore
<1>4. /\ \A i \in 1 .. n : s[i].type = "move" => s[i].cell = CellAt(s, x, i - 1)
      /\ \A i \in 1 .. n : s[i].type = "shift" => i + 1 \in 1 .. n /\ s[i + 1] = Arrival(s[i].cell)
  BY DEF Trail
<1> HIDE DEF t, u, n
<1>5. \A i \in 0 .. n : CellAt(t, x, i) = CellAt(s, x, i)
  <2> TAKE i \in 0 .. n
  <2>1. i = 0 \/ i \in 1 .. n
    BY <1>1
  <2> QED BY <1>1, <2>1 DEF CellAt
<1> HIDE DEF a
<1>6. ASSUME NEW i \in 1 .. n + 2, t[i].type = "move" PROVE t[i].cell = CellAt(t, x, i - 1)
  <2>1. i # n + 1 /\ i # n + 2
    BY <1>0, <1>1, <1>6
  <2>2. i \in 1 .. n /\ i - 1 \in 0 .. n
    BY <1>1, <2>1
  <2> QED BY <1>1, <1>4, <1>5, <1>6, <2>2
<1>7. ASSUME NEW i \in 1 .. n + 2, t[i].type = "shift"
      PROVE  i + 1 \in 1 .. n + 2 /\ t[i + 1] = Arrival(t[i].cell)
  <2>1. i # n + 2
    BY <1>0, <1>1, <1>7
  <2>2. CASE i = n + 1
    <3>1. i + 1 = n + 2 /\ i + 1 \in 1 .. n + 2
      BY <1>1, <2>2
    <3> QED BY <1>1, <2>2, <3>1 DEF a
  <2>3. CASE i # n + 1
    <3>2. i \in 1 .. n
      BY <1>1, <2>1, <2>3
    <3>3. i + 1 \in 1 .. n /\ s[i + 1] = Arrival(s[i].cell)
      BY <1>1, <1>4, <1>7, <3>2
    <3> QED BY <1>1, <3>2, <3>3
  <2> QED BY <2>2, <2>3
<1>8. m.cell = CellAt(t, x, n + 2)
  <2>1. n + 2 # 0
    BY <1>1
  <2> QED BY <1>0, <1>1, <2>1 DEF CellAt
<1> QED BY <1>1, <1>2, <1>6, <1>7, <1>8 DEF Trail, t, u, a

(* The first message is taken.                                                 *)
LEMMA TrailTaken ==
    ASSUME NEW s \in Seq(Tidings), NEW x \in GridCells, NEW y \in GridCells, Trail(s, x, y),
           s # <<>>
    PROVE  /\ Trail(Tail(s), Head(s).cell, y)
           /\ Head(s).type = "move" => Head(s).cell = x
           /\ Head(s).type = "shift" => Tail(s) # <<>> /\ Head(Tail(s)) = Arrival(Head(s).cell)
           /\ Tail(s) # <<>> /\ Head(Tail(s)).type = "move" => Head(Tail(s)).cell = Head(s).cell
<1> DEFINE t == Tail(s)
           n == Len(t)
           m == Head(s)
<1>1. /\ n \in Nat /\ Len(s) = n + 1 /\ m = s[1] /\ m \in Tidings /\ t \in Seq(Tidings)
      /\ \A i \in 1 .. n : t[i] = s[i + 1]
      /\ t # <<>> => n # 0 /\ Head(t) = t[1]
  <2>1. m \in Tidings /\ t \in Seq(Tidings) /\ m = s[1] /\ Len(s) # 0 /\ n = Len(s) - 1
    BY HeadTailProperties, EmptySeq
  <2>2. \A i \in 1 .. n : t[i] = s[i + 1]
    BY HeadTailProperties
  <2>3. Len(s) \in Nat
    BY LenProperties
  <2> HIDE DEF t
  <2>4. n \in Nat /\ Len(s) = n + 1
    BY <2>1, <2>3, LenProperties
  <2>5. t # <<>> => n # 0 /\ Head(t) = t[1]
    BY <2>1, EmptySeq, HeadTailProperties
  <2> QED BY <2>1, <2>2, <2>4, <2>5
<1>3. \A K : /\ Carries(s, K) <=> Carries(t, K) \/ m \in K
             /\ \A G : Latest(s, K, G) <=>
                          IF Carries(t, K) THEN Latest(t, K, G) ELSE m \in K /\ m \in G
  BY CarriesLess
<1>4. /\ \A i \in 1 .. n + 1 : s[i].type = "move" => s[i].cell = CellAt(s, x, i - 1)
      /\ \A i \in 1 .. n + 1 : s[i].type = "shift" =>
            i + 1 \in 1 .. n + 1 /\ s[i + 1] = Arrival(s[i].cell)
      /\ y = CellAt(s, x, n + 1)
      /\ IF Carries(s, CellEntries) THEN Latest(s, CellEntries, {Arrival(y)}) ELSE x = y
  BY <1>1 DEF Trail
<1> HIDE DEF t, n, m
<1>2. m.type \in {"enter", "shift", "move"} /\ m.cell \in GridCells
      /\ (m.type = "enter" <=> m \in CellEntries) /\ (m.type = "enter" => m = Arrival(m.cell))
  BY <1>1, TidingsAre
<1>5. \A i \in 0 .. n : CellAt(t, m.cell, i) = CellAt(s, x, i + 1)
  <2> TAKE i \in 0 .. n
  <2>1. (i = 0 /\ i + 1 = 1) \/ (i # 0 /\ i \in 1 .. n /\ i + 1 # 0)
    BY <1>1
  <2> QED BY <1>1, <2>1 DEF CellAt
<1>6. ASSUME NEW i \in 1 .. n
      PROVE  /\ t[i].type = "move" => t[i].cell = CellAt(t, m.cell, i - 1)
             /\ t[i].type = "shift" => i + 1 \in 1 .. n /\ t[i + 1] = Arrival(t[i].cell)
  <2>1. i + 1 \in 1 .. n + 1 /\ i - 1 \in 0 .. n /\ (i + 1) - 1 = i /\ (i - 1) + 1 = i
    BY <1>1
  <2>2. t[i] = s[i + 1] /\ CellAt(t, m.cell, i - 1) = CellAt(s, x, i)
    BY <1>1, <1>5, <2>1
  <2>3. t[i].type = "move" => t[i].cell = CellAt(t, m.cell, i - 1)
    BY <1>4, <2>1, <2>2
  <2>4. ASSUME t[i].type = "shift" PROVE i + 1 \in 1 .. n /\ t[i + 1] = Arrival(t[i].cell)
    <3>1. (i + 1) + 1 \in 1 .. n + 1 /\ s[(i + 1) + 1] = Arrival(s[i + 1].cell)
      BY <1>4, <2>1, <2>2, <2>4
    <3>2. i + 1 \in 1 .. n
      BY <1>1, <3>1
    <3> QED BY <1>1, <2>2, <3>1, <3>2
  <2> QED BY <2>3, <2>4
<1>7. y = CellAt(t, m.cell, n)
  <2>1. n \in 0 .. n
    BY <1>1
  <2> QED BY <1>4, <1>5, <2>1
<1>8. 1 \in 1 .. n + 1 /\ 1 - 1 = 0 /\ 1 + 1 \in Int
  BY <1>1
<1>9. m.type = "move" => m.cell = x
  <2>1. s[1].type = "move" => s[1].cell = CellAt(s, x, 0)
    BY <1>4, <1>8
  <2> QED BY <1>1, <2>1 DEF CellAt
<1>10. m.type = "shift" => t # <<>> /\ Head(t) = Arrival(m.cell)
  <2> SUFFICES ASSUME m.type = "shift" PROVE t # <<>> /\ Head(t) = Arrival(m.cell)
    OBVIOUS
  <2>1. 1 + 1 \in 1 .. n + 1 /\ s[1 + 1] = Arrival(m.cell)
    BY <1>1, <1>4, <1>8
  <2>2. 1 \in 1 .. n
    BY <1>1, <2>1
  <2>3. t # <<>>
    BY <1>1, <2>2 DEF n
  <2> QED BY <1>1, <2>1, <2>2, <2>3
<1>11. t # <<>> /\ Head(t).type = "move" => Head(t).cell = m.cell
  <2> SUFFICES ASSUME t # <<>>, Head(t).type = "move" PROVE Head(t).cell = m.cell
    OBVIOUS
  <2>1. 1 \in 1 .. n
    BY <1>1
  <2> QED BY <1>1, <1>6, <1>8, <2>1 DEF CellAt
<1>12. IF Carries(t, CellEntries) THEN Latest(t, CellEntries, {Arrival(y)}) ELSE m.cell = y
  <2>1. CASE Carries(t, CellEntries)
    BY <1>3, <1>4, <2>1
  <2>2. CASE ~Carries(t, CellEntries) /\ m \in CellEntries
    <3>1. m = Arrival(y)
      BY <1>3, <1>4, <2>2
    <3> QED BY <2>2, <3>1 DEF Arrival
  <2>3. CASE ~Carries(t, CellEntries) /\ m \notin CellEntries
    <3>1. m.type # "shift"
      <4> SUFFICES ASSUME m.type = "shift" PROVE FALSE
        OBVIOUS
      <4>1. t # <<>> /\ Head(t) = Arrival(m.cell) /\ 1 \in 1 .. n
        BY <1>1, <1>10
      <4>2. t[1] \in CellEntries
        BY <1>1, <1>2, <4>1 DEF CellEntries
      <4> QED BY <2>3, <4>1, <4>2 DEF Carries, n
    <3>2. m.cell = x
      BY <1>2, <1>9, <2>3, <3>1
    <3> QED BY <1>3, <1>4, <2>3, <3>2
  <2> QED BY <2>1, <2>2, <2>3
<1> QED BY <1>6, <1>7, <1>9, <1>10, <1>11, <1>12 DEF Trail, t, m, n

---------------------------------------------------------------------------
(* Who shows whom where *)

\* Where the actor of a player can be shown, the messages that say so
Spots == GridCells \cup {-1}
Notes == [type : {"spawn", "remove", "move"}, who : Clients, cell : GridCells]

\* What m makes of an actor of d that is shown at v
Made(d, m, v) ==
    IF m.who # d THEN v
    ELSE CASE m.type = "spawn" -> IF v = -1 THEN m.cell ELSE v
           [] m.type = "remove" -> -1
           [] OTHER -> IF v = -1 THEN -1 ELSE m.cell

\* What messages make of an actor of d, and what they make of it if the game
\* may have dropped it before each of them
Making(d) == {r \in Spots \X Notes \X Spots : r[3] = Made(d, r[2], r[1])}
Losing(d) == {r \in Spots \X Notes \X Spots : r[3] \in {Made(d, r[2], r[1]), Made(d, r[2], -1)}}

OutdoorTypes ==
    /\ {currentGrid, centerGrid, cellOf, centerOf, charCoords} \subseteq [Clients -> GridCells]
    /\ \A c \in Clients : InGrid(currentGrid[c], centerGrid[c])
    /\ relayed \in [Clients -> BOOLEAN]
    /\ picture \in [Clients -> [Clients -> {Absent} \cup [cell : GridCells, seen : BOOLEAN]]]
    /\ hears \in [Clients -> Seq(Notes)]
    /\ tells \in [Clients -> Seq(Tidings)]

\* The server has the shift of the grid of d, and not yet the cell that caused it
Shifting(d) == tells[d] # <<>> /\ Head(tells[d]) = Arrival(cellOf[d])

\* c has told that it has x loaded
Asking(x) == {m \in Shifts : x \in m.cells}
Promised(c, x) == Carries(tells[c], Asking(x))

\* A game that shows d shows it where the server has its character, if that has
\* been passed on or is out of sight for it
Placed(c, d) ==
    relayed[d] \/ ~InGrid(charCoords[d], centerOf[c]) =>
       Ends(hears[c], Spots, Losing(d), {picture[c][d].cell}, {-1, charCoords[d]})

\* A game does not show d when it has entered a cell that is out of sight
Vacant(c, d) ==
    charCoords[d] # cellOf[d] /\ ~InGrid(cellOf[d], centerOf[c]) /\ ~Shifting(d) =>
       Ends(hears[c], Spots, Losing(d), {picture[c][d].cell}, {-1})

\* A game shows d if it has the cell loaded, or has asked for who is there
Spotted(c, d) ==
    ~Carries(tells[d], CellEntries) =>
       \/ Ends(hears[c], Spots, Making(d), {picture[c][d].cell}, GridCells)
       \/ ~InGrid(currentGrid[d], centerGrid[c])
       \/ Promised(c, currentGrid[d])

Followed(c) == Trail(tells[c], cellOf[c], currentGrid[c])
Watched(c, d) == <<c, d>> \in misjudged \/ (Placed(c, d) /\ Vacant(c, d) /\ Spotted(c, d))

OutdoorsInv ==
    /\ OutdoorTypes
    /\ \A c \in Clients : Followed(c)
    /\ \A c \in Clients : \A d \in Clients \ {c} : Watched(c, d)

(* Being nowhere is being in no cell.                                          *)
LEMMA NowhereIsNoCell == -1 \notin GridCells /\ GridCells \subseteq Int /\ GridCells \subseteq Spots
BY OutdoorsAssumption DEF GridCells, Spots

(* What a message does to what is shown.                                       *)
LEMMA MadeIsSpot ==
    ASSUME NEW d \in Clients, NEW v \in Spots, NEW m \in Notes
    PROVE  /\ Made(d, m, v) \in Spots
           /\ \A w \in Spots : <<v, m, w>> \in Making(d) <=> w = Made(d, m, v)
           /\ \A w \in Spots : <<v, m, w>> \in Losing(d) <=> w \in {Made(d, m, v), Made(d, m, -1)}
<1>1. m.cell \in GridCells
  BY DEF Notes
<1>2. Made(d, m, v) \in Spots
  BY <1>1 DEF Made, Spots
<1> QED BY <1>2 DEF Making, Losing

(* A message that does not misplace the actor of d keeps it where it is shown  *)
(* or lost; a report and a removal settle it.                                  *)
LEMMA PlacingKeeps ==
    ASSUME NEW d \in Clients, NEW m \in Notes, NEW x \in GridCells
    PROVE  /\ m.who # d \/ m.type = "remove" \/ m.cell = x => Keeps(m, Spots, Losing(d), {-1, x})
           /\ m.who = d /\ m.type = "move" /\ m.cell = x => Settles(m, Spots, Losing(d), {-1, x})
<1>1. x \in Spots /\ -1 \in Spots
  BY DEF Spots
<1>2. ASSUME m.who # d \/ m.type = "remove" \/ m.cell = x PROVE Keeps(m, Spots, Losing(d), {-1, x})
  <2> SUFFICES ASSUME NEW y \in {-1, x}, NEW z \in Spots, <<y, m, z>> \in Losing(d)
               PROVE  z \in {-1, x}
    BY DEF Keeps
  <2>1. z \in {Made(d, m, y), Made(d, m, -1)}
    BY <1>1, MadeIsSpot
  <2> QED BY <1>2, <2>1 DEF Made
<1>3. ASSUME m.who = d, m.type = "move", m.cell = x PROVE Settles(m, Spots, Losing(d), {-1, x})
  <2> SUFFICES ASSUME NEW y \in Spots, NEW z \in Spots, <<y, m, z>> \in Losing(d)
               PROVE  z \in {-1, x}
    BY DEF Settles
  <2>1. z \in {Made(d, m, y), Made(d, m, -1)}
    BY MadeIsSpot
  <2> QED BY <1>3, <2>1 DEF Made
<1> QED BY <1>2, <1>3

(* Only a spawn shows an actor that is not shown; a removal hides it.          *)
LEMMA VacatingKeeps ==
    ASSUME NEW d \in Clients, NEW m \in Notes
    PROVE  /\ m.who # d \/ m.type # "spawn" => Keeps(m, Spots, Losing(d), {-1})
           /\ m.who = d /\ m.type = "remove" => Settles(m, Spots, Losing(d), {-1})
<1>1. -1 \in Spots
  BY DEF Spots
<1>2. ASSUME m.who # d \/ m.type # "spawn" PROVE Keeps(m, Spots, Losing(d), {-1})
  <2> SUFFICES ASSUME NEW z \in Spots, <<-1, m, z>> \in Losing(d) PROVE z = -1
    BY DEF Keeps
  <2>1. z = Made(d, m, -1)
    BY <1>1, MadeIsSpot
  <2> QED BY <1>2, <2>1 DEF Made
<1>3. ASSUME m.who = d, m.type = "remove" PROVE Settles(m, Spots, Losing(d), {-1})
  <2> SUFFICES ASSUME NEW y \in Spots, NEW z \in Spots, <<y, m, z>> \in Losing(d) PROVE z = -1
    BY DEF Settles
  <2>1. z \in {Made(d, m, y), Made(d, m, -1)}
    BY MadeIsSpot
  <2> QED BY <1>3, <2>1 DEF Made
<1> QED BY <1>2, <1>3

(* Only a removal hides an actor; a spawn shows it.                            *)
LEMMA SpottingKeeps ==
    ASSUME NEW d \in Clients, NEW m \in Notes
    PROVE  /\ m.who # d \/ m.type # "remove" => Keeps(m, Spots, Making(d), GridCells)
           /\ m.who = d /\ m.type = "spawn" => Settles(m, Spots, Making(d), GridCells)
<1>1. m.cell \in GridCells /\ GridCells \subseteq Spots
  BY DEF Notes, Spots
<1>2. ASSUME m.who # d \/ m.type # "remove" PROVE Keeps(m, Spots, Making(d), GridCells)
  <2> SUFFICES ASSUME NEW y \in GridCells, NEW z \in Spots, <<y, m, z>> \in Making(d)
               PROVE  z \in GridCells
    BY DEF Keeps
  <2>1. z = Made(d, m, y) /\ y # -1
    BY <1>1, MadeIsSpot, NowhereIsNoCell
  <2> QED BY <1>1, <1>2, <2>1 DEF Made
<1>3. ASSUME m.who = d, m.type = "spawn" PROVE Settles(m, Spots, Making(d), GridCells)
  <2> SUFFICES ASSUME NEW y \in Spots, NEW z \in Spots, <<y, m, z>> \in Making(d)
               PROVE  z \in GridCells
    BY DEF Settles
  <2>1. z = Made(d, m, y)
    BY MadeIsSpot
  <2> QED BY <1>1, <1>3, <2>1 DEF Made, Spots
<1> QED BY <1>2, <1>3

(* What is shown is at a spot, and nowhere exactly when it is not shown.       *)
LEMMA PictureIsSpot ==
    ASSUME OutdoorTypes, NEW c \in Clients, NEW d \in Clients
    PROVE  /\ picture[c][d].cell \in Spots
           /\ picture[c][d] = Absent <=> picture[c][d].cell = -1
           /\ picture[c][d] # Absent => picture[c][d] \in [cell : GridCells, seen : BOOLEAN]
<1>1. picture[c][d] \in {Absent} \cup [cell : GridCells, seen : BOOLEAN]
  BY DEF OutdoorTypes
<1> DEFINE p == picture[c][d]
<1> HIDE DEF p
<1>2. CASE p = Absent
  BY <1>2 DEF Absent, Spots, p
<1>3. CASE p \in [cell : GridCells, seen : BOOLEAN]
  <2>1. p.cell \in GridCells /\ p.cell # -1
    BY <1>3, NowhereIsNoCell
  <2>2. p # Absent
    BY <2>1 DEF Absent
  <2> QED BY <1>3, <2>1, <2>2 DEF Spots, p
<1> QED BY <1>1, <1>2, <1>3 DEF p

(* The parts of the invariant, in the next state.                              *)
LEMMA WatchedThen ==
    ASSUME NEW c \in Clients, NEW d \in Clients
    PROVE  /\ Placed(c, d)' <=>
                 (relayed'[d] \/ ~InGrid(charCoords'[d], centerOf'[c]) =>
                    Ends(hears'[c], Spots, Losing(d), {picture'[c][d].cell}, {-1, charCoords'[d]}))
           /\ Shifting(d)' <=> tells'[d] # <<>> /\ Head(tells'[d]) = Arrival(cellOf'[d])
           /\ Vacant(c, d)' <=>
                 (charCoords'[d] # cellOf'[d] /\ ~InGrid(cellOf'[d], centerOf'[c]) /\ ~Shifting(d)' =>
                    Ends(hears'[c], Spots, Losing(d), {picture'[c][d].cell}, {-1}))
           /\ Spotted(c, d)' <=>
                 (~Carries(tells'[d], CellEntries) =>
                    \/ Ends(hears'[c], Spots, Making(d), {picture'[c][d].cell}, GridCells)
                    \/ ~InGrid(currentGrid'[d], centerGrid'[c])
                    \/ Carries(tells'[c], Asking(currentGrid'[d])))
           /\ Followed(c)' <=> Trail(tells'[c], cellOf'[c], currentGrid'[c])
           /\ Watched(c, d)' <=>
                 <<c, d>> \in misjudged' \/ (Placed(c, d)' /\ Vacant(c, d)' /\ Spotted(c, d)')
BY DEF Placed, Vacant, Spotted, Followed, Watched, Shifting, Promised, Asking, Shifts, Ends, InGrid, Losing, Making,
       Made, Spots, GridCells, Notes, Arrival, CellEntries, Carries, Latest, Trail, CellAt

(* The types, in the next state.                                               *)
LEMMA OutdoorTypesThen ==
    ASSUME {currentGrid', centerGrid', cellOf', centerOf', charCoords'} \subseteq [Clients -> GridCells],
           \A c \in Clients : InGrid(currentGrid'[c], centerGrid'[c]),
           relayed' \in [Clients -> BOOLEAN],
           picture' \in [Clients -> [Clients -> {Absent} \cup [cell : GridCells, seen : BOOLEAN]]],
           hears' \in [Clients -> Seq(Notes)],
           tells' \in [Clients -> Seq(Tidings)]
    PROVE  OutdoorTypes'
BY DEF OutdoorTypes, GridCells, Notes, Tidings, Absent, CellEntries, Arrival, Shifts, Steps, InGrid

(* What is not touched stays as it is.                                         *)
LEMMA PlacedStays ==
    ASSUME NEW c \in Clients, NEW d \in Clients, Placed(c, d), hears'[c] = hears[c],
           picture'[c][d].cell = picture[c][d].cell, charCoords'[d] = charCoords[d],
           relayed'[d] = relayed[d], centerOf'[c] = centerOf[c]
    PROVE  Placed(c, d)'
BY WatchedThen DEF Placed

(* So does who is out of sight.                                                *)
LEMMA VacantStays ==
    ASSUME NEW c \in Clients, NEW d \in Clients, Vacant(c, d), hears'[c] = hears[c],
           picture'[c][d].cell = picture[c][d].cell, charCoords'[d] = charCoords[d],
           cellOf'[d] = cellOf[d], centerOf'[c] = centerOf[c], Shifting(d) => Shifting(d)'
    PROVE  Vacant(c, d)'
BY WatchedThen DEF Vacant

(* And who is in sight, of a game whose grid stays.                            *)
LEMMA SpottedStays ==
    ASSUME NEW c \in Clients, NEW d \in Clients, Spotted(c, d), hears'[c] = hears[c],
           picture'[c][d].cell = picture[c][d].cell, currentGrid'[d] = currentGrid[d],
           centerGrid'[c] = centerGrid[c],
           Carries(tells[d], CellEntries) => Carries(tells'[d], CellEntries),
           Promised(c, currentGrid[d]) => Carries(tells'[c], Asking(currentGrid[d]))
    PROVE  Spotted(c, d)'
BY WatchedThen DEF Spotted

(* And who is on the way.                                                      *)
LEMMA ShiftingStays ==
    ASSUME NEW d \in Clients, tells'[d] = tells[d], cellOf'[d] = cellOf[d]
    PROVE  Shifting(d)' <=> Shifting(d)
BY WatchedThen DEF Shifting

(* A cell is in the grid around it.                                            *)
LEMMA InOwnGrid == \A x \in GridCells : InGrid(x, x)
BY OutdoorsAssumption DEF InGrid, GridCells

(* Where everyone starts.                                                      *)
LEMMA InitOutdoors == OutdoorsInit => OutdoorsInv
<1> SUFFICES ASSUME OutdoorsInit PROVE OutdoorsInv
  OBVIOUS
<1>1. /\ currentGrid \in [Clients -> GridCells] /\ centerGrid = currentGrid
      /\ cellOf = currentGrid /\ centerOf = currentGrid /\ charCoords = currentGrid
      /\ relayed = [c \in Clients |-> TRUE]
      /\ \A c \in Clients : tells[c] = <<>> /\ hears[c] = <<>>
  BY DEF OutdoorsInit
<1>2. \A c, d \in Clients : picture[c][d] =
         IF c # d /\ InGrid(currentGrid[d], centerGrid[c])
         THEN [cell |-> currentGrid[d], seen |-> TRUE] ELSE Absent
  BY DEF OutdoorsInit
<1>3. OutdoorTypes
  <2>1. picture \in [Clients -> [Clients -> {Absent} \cup [cell : GridCells, seen : BOOLEAN]]]
    BY <1>1 DEF OutdoorsInit
  <2>2. hears \in [Clients -> Seq(Notes)] /\ tells \in [Clients -> Seq(Tidings)]
    BY DEF OutdoorsInit
  <2>3. \A c \in Clients : InGrid(currentGrid[c], centerGrid[c])
    BY <1>1, InOwnGrid
  <2> QED BY <1>1, <2>1, <2>2, <2>3 DEF OutdoorTypes
<1>4. ASSUME NEW c \in Clients PROVE Followed(c)
  BY <1>1, TrailNowhere DEF Followed
<1>5. ASSUME NEW c \in Clients, NEW d \in Clients \ {c} PROVE Watched(c, d)
  <2>0. picture[c][d].cell \in Spots /\ picture[c][d].cell \in {-1, charCoords[d]}
        /\ (InGrid(currentGrid[d], centerGrid[c]) => picture[c][d].cell \in GridCells)
    <3>1. CASE InGrid(currentGrid[d], centerGrid[c])
      <4>1. picture[c][d] = [cell |-> currentGrid[d], seen |-> TRUE]
        BY <1>2, <3>1
      <4> QED BY <1>1, <4>1 DEF Spots
    <3>2. CASE ~InGrid(currentGrid[d], centerGrid[c])
      <4>1. picture[c][d] = Absent
        BY <1>2, <3>2
      <4> QED BY <3>2, <4>1 DEF Absent, Spots
    <3> QED BY <3>1, <3>2
  <2>1. Placed(c, d)
    BY <1>1, <2>0, EndsThere DEF Placed
  <2>2. Vacant(c, d)
    BY <1>1 DEF Vacant
  <2>3. Spotted(c, d)
    BY <1>1, <2>0, EndsThere DEF Spotted
  <2> QED BY <2>1, <2>2, <2>3 DEF Watched
<1> QED BY <1>3, <1>4, <1>5 DEF OutdoorsInv

(* RunLocalUpdates.                                                            *)
LEMMA ReportsKeepInv ==
    ASSUME OutdoorsInv, NEW c \in Clients, Reports(c)
    PROVE  OutdoorsInv'
<1> DEFINE m == [type |-> "move", cell |-> currentGrid[c]]
<1>1. /\ tells' = [tells EXCEPT ![c] = Append(@, m)]
      /\ UNCHANGED <<currentGrid, centerGrid, picture, hears, cellOf, centerOf, charCoords, relayed,
                     misjudged>>
  BY DEF Reports, gridVars, gridRecords
<1>2. OutdoorTypes /\ tells[c] \in Seq(Tidings) /\ cellOf[c] \in GridCells
      /\ currentGrid[c] \in GridCells
  BY DEF OutdoorsInv, OutdoorTypes
<1>3. m \in Tidings /\ m.type = "move" /\ m.cell = currentGrid[c] /\ m # Arrival(cellOf[c])
  BY <1>2 DEF Tidings, Steps, Arrival
<1> HIDE DEF m
<1>4. /\ tells'[c] = Append(tells[c], m) /\ tells'[c] \in Seq(Tidings)
      /\ \A d \in Clients : d # c => tells'[d] = tells[d]
      /\ tells' \in [Clients -> Seq(Tidings)]
  <2>1. Append(tells[c], m) \in Seq(Tidings)
    BY <1>2, <1>3, AppendProperties
  <2> QED BY <1>1, <1>2, <2>1 DEF OutdoorTypes
<1>5. OutdoorTypes'
  BY <1>1, <1>2, <1>4, OutdoorTypesThen DEF OutdoorTypes
<1>6. ASSUME NEW d \in Clients PROVE Followed(d)'
  <2>1. Trail(tells[d], cellOf[d], currentGrid[d])
    BY DEF OutdoorsInv, Followed
  <2>2. CASE d # c
    BY <1>1, <1>4, <2>1, <2>2, WatchedThen
  <2>3. CASE d = c
    <3>1. Trail(Append(tells[c], m), cellOf[c], currentGrid[c])
      BY <1>2, <1>3, <2>1, <2>3, TrailStep
    <3> QED BY <1>1, <1>4, <2>3, <3>1, WatchedThen
  <2> QED BY <2>2, <2>3
<1>7. ASSUME NEW d \in Clients
      PROVE  /\ Shifting(d) => Shifting(d)'
             /\ \A K : Carries(tells[d], K) => Carries(tells'[d], K)
  <2>1. CASE d # c
    BY <1>1, <1>4, <2>1, ShiftingStays
  <2>2. CASE d = c
    <3>1. \A K : Carries(tells[c], K) => Carries(tells'[c], K)
      BY <1>2, <1>3, <1>4, CarriesMore
    <3>2. Shifting(c) => Shifting(c)'
      <4>1. tells'[c] # <<>> /\ (tells[c] # <<>> => Head(tells'[c]) = Head(tells[c]))
        BY <1>2, <1>3, <1>4, AppendProperties, HeadTailAppend
      <4> QED BY <1>1, <4>1, WatchedThen DEF Shifting
    <3> QED BY <2>2, <3>1, <3>2
  <2> QED BY <2>1, <2>2
<1>8. ASSUME NEW a \in Clients, NEW b \in Clients \ {a} PROVE Watched(a, b)'
  <2>1. Watched(a, b)
    BY DEF OutdoorsInv
  <2>2. CASE <<a, b>> \in misjudged
    BY <1>1, <2>2, WatchedThen
  <2>3. CASE Placed(a, b) /\ Vacant(a, b) /\ Spotted(a, b)
    <3>1. Placed(a, b)'
      BY <1>1, <2>3, PlacedStays
    <3>2. Vacant(a, b)'
      BY <1>1, <1>7, <2>3, VacantStays
    <3>3. Spotted(a, b)'
      BY <1>1, <1>7, <2>3, SpottedStays DEF Promised
    <3> QED BY <3>1, <3>2, <3>3, WatchedThen
  <2> QED BY <2>1, <2>2, <2>3 DEF Watched
<1> QED BY <1>5, <1>6, <1>8 DEF OutdoorsInv

(* The player enters a cell; the grid of the game follows, or not.             *)
LEMMA StridesKeepInv ==
    ASSUME OutdoorsInv, NEW c \in Clients, NEW x \in GridCells, NEW center \in GridCells,
           Strides(c, x, center)
    PROVE  OutdoorsInv'
<1> DEFINE a == Arrival(x)
           sh == [type |-> "shift", cell |-> x, center |-> center,
                  cells |-> Around(center) \ Around(centerGrid[c])]
           s == tells[c]
<1>1. /\ currentGrid' = [currentGrid EXCEPT ![c] = x]
      /\ centerGrid' = [centerGrid EXCEPT ![c] = center]
      /\ tells' = [tells EXCEPT ![c] = @ \o Shift(c, x, center) \o <<a>>]
      /\ UNCHANGED <<picture, hears, cellOf, centerOf, charCoords, relayed, misjudged>>
      /\ center = x \/ x - center \in -1 .. 1
  BY DEF Strides, gridRecords, Arrival
<1>2. /\ OutdoorTypes /\ s \in Seq(Tidings) /\ cellOf[c] \in GridCells
      /\ currentGrid[c] \in GridCells /\ centerGrid[c] \in GridCells
      /\ Trail(s, cellOf[c], currentGrid[c])
  BY DEF OutdoorsInv, OutdoorTypes, Followed
<1>3. /\ a \in Tidings /\ a \in CellEntries
      /\ sh \in Shifts /\ sh \in Tidings /\ sh.cell = x
      /\ \A y \in GridCells : InGrid(y, center) /\ ~InGrid(y, centerGrid[c]) => sh \in Asking(y)
  <2>1. sh.cells \in SUBSET GridCells
    BY DEF Around
  <2>2. sh \in Shifts
    BY <2>1 DEF Shifts
  <2> QED BY <2>2 DEF Tidings, CellEntries, Asking, Around
<1> DEFINE t == IF center = centerGrid[c] THEN s ELSE Append(s, sh)
<1>4. s \o Shift(c, x, center) = t /\ t \in Seq(Tidings) /\ (s # <<>> => t # <<>> /\ Head(t) = Head(s))
      /\ \A K : Carries(s, K) => Carries(t, K)
  <2>1. CASE center = centerGrid[c]
    <3>1. Shift(c, x, center) = <<>>
      BY <2>1 DEF Shift
    <3> QED BY <1>2, <2>1, <3>1, ConcatEmptySeq
  <2>2. CASE center # centerGrid[c]
    <3>1. Shift(c, x, center) = <<sh>>
      BY <2>2 DEF Shift
    <3> HIDE DEF sh
    <3>2. t = Append(s, sh)
      BY <2>2
    <3> HIDE DEF t
    <3>3. s \o <<sh>> = t /\ t \in Seq(Tidings) /\ t # <<>>
      BY <1>2, <1>3, <3>2, AppendIsConcat, AppendProperties
    <3>4. s # <<>> => Head(t) = Head(s)
      BY <1>2, <3>2, HeadTailAppend
    <3>5. \A K : Carries(s, K) => Carries(t, K)
      BY <1>2, <1>3, <3>2, CarriesMore
    <3> QED BY <3>1, <3>3, <3>4, <3>5
  <2> QED BY <2>1, <2>2
<1>5. t = s \/ t = Append(s, sh)
  OBVIOUS
<1>6. center # centerGrid[c] => Carries(t, {sh})
  <2> SUFFICES ASSUME center # centerGrid[c] PROVE Carries(t, {sh})
    OBVIOUS
  <2> HIDE DEF sh
  <2>1. t = Append(s, sh)
    OBVIOUS
  <2> HIDE DEF t
  <2> QED BY <1>2, <1>3, <2>1, CarriesMore
<1> HIDE DEF a, sh, t
<1>7. /\ tells'[c] = Append(t, a) /\ tells'[c] \in Seq(Tidings)
      /\ \A d \in Clients : d # c => tells'[d] = tells[d]
      /\ tells' \in [Clients -> Seq(Tidings)]
  <2>1. t \o <<a>> = Append(t, a) /\ Append(t, a) \in Seq(Tidings)
    BY <1>3, <1>4, AppendIsConcat, AppendProperties
  <2>2. tells' = [tells EXCEPT ![c] = Append(t, a)] /\ tells \in [Clients -> Seq(Tidings)]
    BY <1>1, <1>2, <1>4, <2>1 DEF OutdoorTypes
  <2> QED BY <2>1, <2>2
<1>8. /\ currentGrid'[c] = x /\ centerGrid'[c] = center
      /\ \A d \in Clients : d # c => currentGrid'[d] = currentGrid[d] /\ centerGrid'[d] = centerGrid[d]
      /\ {currentGrid', centerGrid'} \subseteq [Clients -> GridCells]
  BY <1>1, <1>2 DEF OutdoorTypes
<1>9. InGrid(x, center)
  <2>1. CASE center = x
    BY <2>1, InOwnGrid
  <2>2. CASE x - center \in -1 .. 1
    <3>1. Border \in Nat \ {0} /\ x \in Int /\ center \in Int
      BY OutdoorsAssumption, NowhereIsNoCell
    <3> QED BY <2>2, <3>1 DEF InGrid
  <2> QED BY <1>1, <2>1, <2>2
<1>10. OutdoorTypes'
  <2>1. \A d \in Clients : InGrid(currentGrid'[d], centerGrid'[d])
    BY <1>2, <1>8, <1>9 DEF OutdoorTypes
  <2> QED BY <1>1, <1>2, <1>7, <1>8, <2>1, OutdoorTypesThen DEF OutdoorTypes
<1>11. ASSUME NEW d \in Clients PROVE Followed(d)'
  <2>1. CASE d # c
    <3>1. Trail(tells[d], cellOf[d], currentGrid[d])
      BY DEF OutdoorsInv, Followed
    <3> QED BY <1>1, <1>7, <1>8, <2>1, <3>1, WatchedThen
  <2>2. CASE d = c
    <3>1. CASE t = s
      <4>1. Trail(Append(s, a), cellOf[c], x)
        BY <1>2, TrailArrival DEF a
      <4> QED BY <1>1, <1>7, <1>8, <2>2, <3>1, <4>1, WatchedThen
    <3>2. CASE t = Append(s, sh)
      <4>1. Trail(Append(Append(s, sh), a), cellOf[c], x)
        BY <1>2, <1>3, TrailShift DEF a
      <4> QED BY <1>1, <1>7, <1>8, <2>2, <3>2, <4>1, WatchedThen
    <3> QED BY <1>5, <3>1, <3>2
  <2> QED BY <2>1, <2>2
<1>12. /\ \A K : Carries(t, K) => Carries(tells'[c], K)
       /\ Carries(tells'[c], CellEntries)
  BY <1>3, <1>4, <1>7, CarriesMore
<1>13. ASSUME NEW d \in Clients PROVE Shifting(d) => Shifting(d)'
  <2>1. CASE d # c
    BY <1>1, <1>7, <2>1, ShiftingStays
  <2>2. CASE d = c
    <3>1. s # <<>> => tells'[c] # <<>> /\ Head(tells'[c]) = Head(s)
      BY <1>3, <1>4, <1>7, AppendProperties, HeadTailAppend
    <3> QED BY <1>1, <2>2, <3>1, WatchedThen DEF Shifting
  <2> QED BY <2>1, <2>2
<1>14. ASSUME NEW e \in Clients, NEW b \in Clients \ {e} PROVE Watched(e, b)'
  <2>1. Watched(e, b)
    BY DEF OutdoorsInv
  <2>2. CASE <<e, b>> \in misjudged
    BY <1>1, <2>2, WatchedThen
  <2>3. CASE Placed(e, b) /\ Vacant(e, b) /\ Spotted(e, b)
    <3>1. Placed(e, b)'
      BY <1>1, <2>3, PlacedStays
    <3>2. Vacant(e, b)'
      BY <1>1, <1>13, <2>3, VacantStays
    <3>3. Spotted(e, b)'
      <4>1. CASE b = c
        BY <1>12, <4>1, WatchedThen
      <4>2. CASE b # c /\ e # c
        BY <1>1, <1>7, <1>8, <2>3, <4>2, SpottedStays DEF Promised
      <4>3. CASE e = c
        <5> SUFFICES ASSUME ~Carries(tells[b], CellEntries), InGrid(currentGrid[b], center)
                     PROVE  \/ Ends(hears[c], Spots, Making(b), {picture[c][b].cell}, GridCells)
                            \/ Carries(tells'[c], Asking(currentGrid[b]))
          BY <1>1, <1>7, <1>8, <4>3, WatchedThen
        <5>1. \/ Ends(hears[c], Spots, Making(b), {picture[c][b].cell}, GridCells)
              \/ ~InGrid(currentGrid[b], centerGrid[c])
              \/ Carries(s, Asking(currentGrid[b]))
          BY <2>3, <4>3 DEF Spotted, Promised
        <5>2. CASE Carries(s, Asking(currentGrid[b]))
          BY <1>4, <1>12, <5>2
        <5>3. CASE ~InGrid(currentGrid[b], centerGrid[c])
          <6>1. center # centerGrid[c] /\ currentGrid[b] \in GridCells
            BY <1>2, <5>3 DEF OutdoorTypes
          <6>2. sh \in Asking(currentGrid[b])
            BY <1>3, <5>3, <6>1
          <6>3. Carries(t, Asking(currentGrid[b]))
            BY <1>6, <6>1, <6>2 DEF Carries
          <6> QED BY <1>12, <6>3
        <5> QED BY <5>1, <5>2, <5>3
      <4> QED BY <4>1, <4>2, <4>3
    <3> QED BY <3>1, <3>2, <3>3, WatchedThen
  <2> QED BY <2>1, <2>2, <2>3 DEF Watched
<1> QED BY <1>10, <1>11, <1>14 DEF OutdoorsInv

(* The game loads or drops an actor.                                           *)
LEMMA LoadsKeepInv ==
    ASSUME OutdoorsInv, NEW c \in Clients, NEW d \in Clients, Loads(c, d)
    PROVE  OutdoorsInv'
<1> DEFINE p == picture[c][d]
           q == LoadedAs(c, d)
           P == {Absent} \cup [cell : GridCells, seen : BOOLEAN]
<1>1. /\ q # p /\ picture' = [picture EXCEPT ![c][d] = q]
      /\ misjudged' = IF q = Absent /\ InGrid(currentGrid[d], centerGrid[c])
                      THEN misjudged \cup {<<c, d>>} ELSE misjudged
      /\ UNCHANGED <<currentGrid, centerGrid, tells, hears, cellOf, centerOf, charCoords, relayed>>
  BY DEF Loads, gridVars, gridRecords
<1>2. OutdoorTypes
  BY DEF OutdoorsInv
<1>3. p \in P /\ p.cell \in Spots
  BY <1>2, PictureIsSpot DEF OutdoorTypes
<1>4. (q = Absent \/ q.cell = p.cell) /\ q \in P
  <2>1. p # Absent /\ (q = Absent \/ q = [p EXCEPT !.seen = TRUE])
    BY <1>1 DEF LoadedAs
  <2> HIDE DEF p, q
  <2>2. p \in [cell : GridCells, seen : BOOLEAN]
    BY <1>3, <2>1
  <2> QED BY <2>1, <2>2
<1> HIDE DEF q, p, P
<1>5. /\ picture'[c][d] = q
      /\ \A a, b \in Clients : <<a, b>> # <<c, d>> => picture'[a][b] = picture[a][b]
      /\ picture' \in [Clients -> [Clients -> P]]
  <2>1. picture \in [Clients -> [Clients -> P]]
    BY <1>2 DEF OutdoorTypes, P
  <2> QED BY <1>1, <1>4, <2>1
<1>6. OutdoorTypes'
  BY <1>1, <1>2, <1>5, OutdoorTypesThen DEF OutdoorTypes, P
<1>7. ASSUME NEW e \in Clients PROVE Followed(e)'
  <2>1. Trail(tells[e], cellOf[e], currentGrid[e])
    BY DEF OutdoorsInv, Followed
  <2> QED BY <1>1, <2>1, WatchedThen
<1>8. ASSUME NEW a \in Clients, NEW b \in Clients \ {a} PROVE Watched(a, b)'
  <2>1. Watched(a, b)
    BY DEF OutdoorsInv
  <2>2. CASE <<a, b>> \in misjudged
    BY <1>1, <2>2, WatchedThen
  <2>3. CASE Placed(a, b) /\ Vacant(a, b) /\ Spotted(a, b)
    <3>1. CASE picture'[a][b].cell = picture[a][b].cell
      <4>1. Placed(a, b)'
        BY <1>1, <2>3, <3>1, PlacedStays
      <4>2. Vacant(a, b)'
        BY <1>1, <2>3, <3>1, VacantStays, ShiftingStays
      <4>3. Spotted(a, b)'
        BY <1>1, <2>3, <3>1, SpottedStays DEF Promised
      <4> QED BY <4>1, <4>2, <4>3, WatchedThen
    <3>2. CASE picture'[a][b].cell # picture[a][b].cell
      <4>1. a = c /\ b = d
        BY <1>5, <3>2
      <4>2. q = Absent /\ picture'[c][d].cell = -1
        BY <1>4, <1>5, <3>2, <4>1 DEF p, Absent
      <4>3. ASSUME NEW G, -1 \in G, Ends(hears[c], Spots, Losing(d), {p.cell}, G)
            PROVE  Ends(hears[c], Spots, Losing(d), {-1}, G)
        <5>1. hears[c] \in Seq(Notes) /\ -1 \in Spots /\ {p.cell} \in SUBSET Spots
          BY <1>2, <1>3 DEF OutdoorTypes, Spots
        <5>2. \A m \in Notes, z \in Spots : <<-1, m, z>> \in Losing(d) => <<p.cell, m, z>> \in Losing(d)
          BY <1>3, <5>1, MadeIsSpot
        <5> QED BY <4>3, <5>1, <5>2, EndsLost
      <4>4. Placed(c, d)'
        <5> SUFFICES ASSUME relayed[d] \/ ~InGrid(charCoords[d], centerOf[c])
                     PROVE  Ends(hears[c], Spots, Losing(d), {-1}, {-1, charCoords[d]})
          BY <1>1, <4>2, WatchedThen
        <5>1. Ends(hears[c], Spots, Losing(d), {p.cell}, {-1, charCoords[d]})
          BY <2>3, <4>1 DEF Placed, p
        <5> QED BY <4>3, <5>1
      <4>5. Vacant(c, d)'
        <5> SUFFICES ASSUME charCoords[d] # cellOf[d], ~InGrid(cellOf[d], centerOf[c]), ~Shifting(d)
                     PROVE  Ends(hears[c], Spots, Losing(d), {-1}, {-1})
          BY <1>1, <4>2, WatchedThen, ShiftingStays
        <5>1. Ends(hears[c], Spots, Losing(d), {p.cell}, {-1})
          BY <2>3, <4>1 DEF Vacant, p
        <5> QED BY <4>3, <5>1
      <4>6. CASE InGrid(currentGrid[d], centerGrid[c])
        BY <1>1, <4>1, <4>2, <4>6, WatchedThen
      <4>7. CASE ~InGrid(currentGrid[d], centerGrid[c])
        <5>1. Spotted(c, d)'
          BY <1>1, <4>7, WatchedThen
        <5> QED BY <4>1, <4>4, <4>5, <5>1, WatchedThen
      <4> QED BY <4>6, <4>7
    <3> QED BY <3>1, <3>2
  <2> QED BY <2>1, <2>2, <2>3 DEF Watched
<1> QED BY <1>6, <1>7, <1>8 DEF OutdoorsInv

(* A message of the server is read.                                            *)
LEMMA HearsOfKeepsInv ==
    ASSUME OutdoorsInv, NEW c \in Clients, HearsOf(c)
    PROVE  OutdoorsInv'
<1> DEFINE m == Head(hears[c])
           w == m.who
           p == picture[c][w]
           q == CASE m.type = "spawn" /\ p = Absent -> [cell |-> m.cell, seen |-> FALSE]
                  [] m.type = "remove" -> Absent
                  [] m.type = "move" /\ p # Absent -> [p EXCEPT !.cell = m.cell]
                  [] OTHER -> p
           P == {Absent} \cup [cell : GridCells, seen : BOOLEAN]
<1>1. /\ hears[c] # <<>> /\ hears' = Read(hears, c)
      /\ picture' = [picture EXCEPT ![c][w] = q]
      /\ UNCHANGED <<currentGrid, centerGrid, tells, cellOf, centerOf, charCoords, relayed, misjudged>>
  BY DEF HearsOf, gridVars, gridRecords
<1>2. OutdoorTypes /\ hears \in [Clients -> Seq(Notes)] /\ hears[c] \in Seq(Notes)
  BY DEF OutdoorsInv, OutdoorTypes
<1>3. /\ m \in Notes /\ hears' \in [Clients -> Seq(Notes)] /\ hears'[c] = Tail(hears[c])
      /\ \A d \in Clients : d # c => hears'[d] = hears[d]
  BY <1>1, <1>2, ReadQueues
<1>4. w \in Clients /\ m.cell \in GridCells /\ m.type \in {"spawn", "remove", "move"}
  BY <1>3 DEF Notes
<1> HIDE DEF m
<1>5. /\ p \in P /\ (p = Absent <=> p.cell = -1)
      /\ p # Absent => p \in [cell : GridCells, seen : BOOLEAN]
  BY <1>2, <1>4, PictureIsSpot DEF OutdoorTypes
<1> HIDE DEF w, p
<1>6. q \in P /\ q.cell = Made(w, m, p.cell)
  <2>1. CASE m.type = "spawn" /\ p = Absent
    BY <1>4, <1>5, <2>1 DEF Made, w
  <2>2. CASE m.type = "spawn" /\ p # Absent
    BY <1>4, <1>5, <2>2 DEF Made, w
  <2>3. CASE m.type = "remove"
    BY <1>4, <1>5, <2>3 DEF Made, w, Absent
  <2>4. CASE m.type = "move" /\ p = Absent
    BY <1>4, <1>5, <2>4 DEF Made, w
  <2>5. CASE m.type = "move" /\ p # Absent
    BY <1>4, <1>5, <2>5 DEF Made, w
  <2> QED BY <1>4, <2>1, <2>2, <2>3, <2>4, <2>5
<1> HIDE DEF q, P
<1>7. /\ picture'[c][w] = q
      /\ \A a, b \in Clients : <<a, b>> # <<c, w>> => picture'[a][b] = picture[a][b]
      /\ picture' \in [Clients -> [Clients -> P]]
  <2>1. picture \in [Clients -> [Clients -> P]]
    BY <1>2 DEF OutdoorTypes, P
  <2> QED BY <1>1, <1>4, <1>6, <2>1
<1>8. ASSUME NEW d \in Clients
      PROVE  /\ picture[c][d].cell \in Spots /\ picture'[c][d].cell \in Spots
             /\ picture'[c][d].cell = Made(d, m, picture[c][d].cell)
  <2>1. picture[c][d].cell \in Spots
    BY <1>2, PictureIsSpot
  <2>2. picture'[c][d].cell = Made(d, m, picture[c][d].cell)
    <3>1. CASE d = w
      BY <1>6, <1>7, <3>1 DEF p
    <3>2. CASE d # w
      BY <1>7, <1>4, <3>2 DEF Made, w
    <3> QED BY <3>1, <3>2
  <2> QED BY <1>3, <2>1, <2>2, MadeIsSpot
<1>9. ASSUME NEW d \in Clients, NEW G
      PROVE  /\ Ends(hears[c], Spots, Losing(d), {picture[c][d].cell}, G)
                   => Ends(hears'[c], Spots, Losing(d), {picture'[c][d].cell}, G)
             /\ Ends(hears[c], Spots, Making(d), {picture[c][d].cell}, G)
                   => Ends(hears'[c], Spots, Making(d), {picture'[c][d].cell}, G)
  <2> DEFINE u == picture[c][d].cell
             v == picture'[c][d].cell
  <2>1. u \in Spots /\ v \in Spots /\ v = Made(d, m, u)
    BY <1>8
  <2> HIDE DEF u, v
  <2>2. <<u, m, v>> \in Losing(d) /\ <<u, m, v>> \in Making(d)
    BY <1>3, <2>1, MadeIsSpot
  <2>3. Head(hears[c]) = m /\ u \in {u}
    BY DEF m
  <2>4. Ends(hears[c], Spots, Losing(d), {u}, G) => Ends(Tail(hears[c]), Spots, Losing(d), {v}, G)
    BY <1>1, <1>2, <2>1, <2>2, <2>3, EndsSoon
  <2>5. Ends(hears[c], Spots, Making(d), {u}, G) => Ends(Tail(hears[c]), Spots, Making(d), {v}, G)
    BY <1>1, <1>2, <2>1, <2>2, <2>3, EndsSoon
  <2> QED BY <1>3, <2>4, <2>5 DEF u, v
<1>10. OutdoorTypes'
  BY <1>1, <1>2, <1>3, <1>7, OutdoorTypesThen DEF OutdoorTypes, P
<1>11. ASSUME NEW e \in Clients PROVE Followed(e)'
  <2>1. Trail(tells[e], cellOf[e], currentGrid[e])
    BY DEF OutdoorsInv, Followed
  <2> QED BY <1>1, <2>1, WatchedThen
<1>12. ASSUME NEW a \in Clients, NEW b \in Clients \ {a} PROVE Watched(a, b)'
  <2>1. Watched(a, b)
    BY DEF OutdoorsInv
  <2>2. CASE <<a, b>> \in misjudged
    BY <1>1, <2>2, WatchedThen
  <2>3. CASE Placed(a, b) /\ Vacant(a, b) /\ Spotted(a, b)
    <3>1. CASE a # c
      <4>0. hears'[a] = hears[a] /\ picture'[a][b] = picture[a][b]
        BY <1>3, <1>7, <3>1
      <4>1. Placed(a, b)'
        BY <1>1, <2>3, <4>0, PlacedStays
      <4>2. Vacant(a, b)'
        BY <1>1, <2>3, <4>0, VacantStays, ShiftingStays
      <4>3. Spotted(a, b)'
        BY <1>1, <2>3, <4>0, SpottedStays DEF Promised
      <4> QED BY <4>1, <4>2, <4>3, WatchedThen
    <3>2. CASE a = c
      <4>1. Placed(c, b)'
        <5> SUFFICES ASSUME relayed[b] \/ ~InGrid(charCoords[b], centerOf[c])
                     PROVE  Ends(hears'[c], Spots, Losing(b), {picture'[c][b].cell}, {-1, charCoords[b]})
          BY <1>1, WatchedThen
        <5>1. Ends(hears[c], Spots, Losing(b), {picture[c][b].cell}, {-1, charCoords[b]})
          BY <2>3, <3>2 DEF Placed
        <5> QED BY <1>9, <5>1
      <4>2. Vacant(c, b)'
        <5> SUFFICES ASSUME charCoords[b] # cellOf[b], ~InGrid(cellOf[b], centerOf[c]), ~Shifting(b)
                     PROVE  Ends(hears'[c], Spots, Losing(b), {picture'[c][b].cell}, {-1})
          BY <1>1, WatchedThen, ShiftingStays
        <5>1. Ends(hears[c], Spots, Losing(b), {picture[c][b].cell}, {-1})
          BY <2>3, <3>2 DEF Vacant
        <5> QED BY <1>9, <5>1
      <4>3. Spotted(c, b)'
        <5> SUFFICES ASSUME ~Carries(tells[b], CellEntries), InGrid(currentGrid[b], centerGrid[c]),
                            ~Carries(tells[c], Asking(currentGrid[b]))
                     PROVE  Ends(hears'[c], Spots, Making(b), {picture'[c][b].cell}, GridCells)
          BY <1>1, WatchedThen
        <5>1. Ends(hears[c], Spots, Making(b), {picture[c][b].cell}, GridCells)
          BY <2>3, <3>2 DEF Spotted, Promised
        <5> QED BY <1>9, <5>1
      <4> QED BY <3>2, <4>1, <4>2, <4>3, WatchedThen
    <3> QED BY <3>1, <3>2
  <2> QED BY <2>1, <2>2, <2>3 DEF Watched
<1> QED BY <1>10, <1>11, <1>12 DEF OutdoorsInv

(* Where a reader may end can be told more loosely.                            *)
LEMMA EndsLoosely ==
    ASSUME NEW s, NEW V, NEW E, NEW X, NEW G, NEW H, Ends(s, V, E, X, G), G \subseteq H
    PROVE  Ends(s, V, E, X, H)
BY DEF Ends

(* A walk on which no cell was entered has led nowhere.                        *)
LEMMA TrailEnds ==
    ASSUME NEW s, NEW x, NEW y, Trail(s, x, y), ~Carries(s, CellEntries)
    PROVE  x = y
BY DEF Trail

(* What the server tells of a character is a message to a client.              *)
LEMMA AboutIsNote ==
    ASSUME OutdoorTypes, NEW type \in {"spawn", "remove", "move"}, NEW d \in Clients
    PROVE  /\ About(type, d) \in Notes /\ About(type, d).type = type /\ About(type, d).who = d
           /\ About(type, d).cell = charCoords[d] /\ charCoords[d] \in GridCells
BY DEF About, Notes, OutdoorTypes

(* So is what it tells of many.                                                *)
LEMMA AboutMany ==
    ASSUME OutdoorTypes, NEW type \in {"spawn", "remove", "move"}, NEW D \in SUBSET Clients
    PROVE  /\ {About(type, d) : d \in D} \in SUBSET Notes
           /\ IsFiniteSet({About(type, d) : d \in D})
           /\ \A m \in {About(type, d) : d \in D} :
                 m.type = type /\ \A b \in Clients : m.who = b => m.cell = charCoords[b]
<1> DEFINE T == {About(type, d) : d \in D}
<1>1. \A d \in D : About(type, d) \in Notes /\ About(type, d).type = type
                   /\ About(type, d).who = d /\ About(type, d).cell = charCoords[d]
  BY AboutIsNote
<1>2. IsFiniteSet(D)
  BY OutdoorsAssumption, FS_Subset
<1>3. IsFiniteSet(T)
  <2> DEFINE f == [d \in D |-> About(type, d)]
  <2>1. f \in Surjection(D, T)
    BY DEF Surjection
  <2> HIDE DEF f, T
  <2> QED BY <1>2, <2>1, FS_Surjection
<1> QED BY <1>1, <1>3

(* The server takes a message: it is the first of its queue, and the rest of   *)
(* the queue promises and tells as much, but for that message.                 *)
LEMMA TakenMessage ==
    ASSUME OutdoorsInv, NEW c \in Clients, NEW type, Takes(c, type)
    PROVE  /\ Head(tells[c]) \in Tidings /\ Head(tells[c]).type = type
           /\ Head(tells[c]).cell \in GridCells
           /\ tells' \in [Clients -> Seq(Tidings)] /\ tells'[c] = Tail(tells[c])
           /\ \A d \in Clients : d # c => tells'[d] = tells[d]
           /\ \A K : Carries(tells[c], K) <=> Carries(tells'[c], K) \/ Head(tells[c]) \in K
           /\ Trail(tells'[c], Head(tells[c]).cell, currentGrid[c])
           /\ type = "move" => Head(tells[c]).cell = cellOf[c]
           /\ type = "shift" => tells'[c] # <<>> /\ Head(tells'[c]) = Arrival(Head(tells[c]).cell)
           /\ UNCHANGED <<currentGrid, centerGrid, picture, strides>>
<1>1. /\ tells \in [Clients -> Seq(Tidings)] /\ tells[c] # <<>> /\ tells' = Read(tells, c)
      /\ Head(tells[c]).type = type /\ tells[c] \in Seq(Tidings)
      /\ UNCHANGED <<currentGrid, centerGrid, picture, strides>>
      /\ cellOf[c] \in GridCells /\ currentGrid[c] \in GridCells
      /\ Trail(tells[c], cellOf[c], currentGrid[c])
  BY DEF Takes, OutdoorsInv, OutdoorTypes, Followed, gridVars
<1>2. /\ Head(tells[c]) \in Tidings /\ tells' \in [Clients -> Seq(Tidings)]
      /\ tells'[c] = Tail(tells[c]) /\ \A d \in Clients : d # c => tells'[d] = tells[d]
  BY <1>1, ReadQueues
<1>3. Head(tells[c]).cell \in GridCells
  BY <1>2, TidingsAre
<1>4. \A K : Carries(tells[c], K) <=> Carries(Tail(tells[c]), K) \/ Head(tells[c]) \in K
  BY <1>1, CarriesLess
<1>5. /\ Trail(Tail(tells[c]), Head(tells[c]).cell, currentGrid[c])
      /\ type = "move" => Head(tells[c]).cell = cellOf[c]
      /\ type = "shift" => Tail(tells[c]) # <<>> /\ Head(Tail(tells[c])) = Arrival(Head(tells[c]).cell)
  BY <1>1, TrailTaken
<1> QED BY <1>1, <1>2, <1>3, <1>4, <1>5

(* What is said of others does not touch what is said of b.                    *)
LEMMA MoreOfOthers ==
    ASSUME OutdoorsInv, NEW a \in Clients, NEW b \in Clients \ {a}, NEW m \in Notes, m.who # b,
           hears'[a] = Append(hears[a], m), picture'[a][b] = picture[a][b],
           charCoords'[b] = charCoords[b], relayed'[b] = relayed[b], centerOf'[a] = centerOf[a],
           cellOf'[b] = cellOf[b], tells'[b] = tells[b], currentGrid'[b] = currentGrid[b],
           centerGrid'[a] = centerGrid[a],
           Carries(tells[a], Asking(currentGrid[b])) => Carries(tells'[a], Asking(currentGrid[b])),
           Placed(a, b), Vacant(a, b), Spotted(a, b)
    PROVE  Placed(a, b)' /\ Vacant(a, b)' /\ Spotted(a, b)'
<1>1. /\ hears[a] \in Seq(Notes) /\ charCoords[b] \in GridCells
      /\ {-1} \in SUBSET Spots /\ {-1, charCoords[b]} \in SUBSET Spots /\ GridCells \in SUBSET Spots
  BY DEF OutdoorsInv, OutdoorTypes, Spots
<1>2. /\ Keeps(m, Spots, Losing(b), {-1, charCoords[b]})
      /\ Keeps(m, Spots, Losing(b), {-1})
      /\ Keeps(m, Spots, Making(b), GridCells)
  BY <1>1, PlacingKeeps, VacatingKeeps, SpottingKeeps
<1> DEFINE X == {picture[a][b].cell}
           G == {-1, charCoords[b]}
<1> HIDE DEF X, G
<1>3. Ends(hears[a], Spots, Losing(b), X, G) => Ends(hears'[a], Spots, Losing(b), X, G)
  BY <1>1, <1>2, EndsStill DEF G
<1>4. Ends(hears[a], Spots, Losing(b), X, {-1}) => Ends(hears'[a], Spots, Losing(b), X, {-1})
  BY <1>1, <1>2, EndsStill
<1>5. Ends(hears[a], Spots, Making(b), X, GridCells) => Ends(hears'[a], Spots, Making(b), X, GridCells)
  BY <1>1, <1>2, EndsStill
<1>6. Placed(a, b)'
  BY <1>3, WatchedThen DEF Placed, X, G
<1>7. Vacant(a, b)'
  BY <1>4, WatchedThen, ShiftingStays DEF Vacant, X
<1>8. Spotted(a, b)'
  BY <1>5, WatchedThen DEF Spotted, Promised, X
<1> QED BY <1>6, <1>7, <1>8

(* A report is taken.                                                          *)
LEMMA OnMoveRequestKeepsInv ==
    ASSUME OutdoorsInv, NEW c \in Clients, OnMoveRequest(c)
    PROVE  OutdoorsInv'
<1> DEFINE m == Head(tells[c])
<1>1. /\ Takes(c, "move") /\ charCoords' = [charCoords EXCEPT ![c] = m.cell]
      /\ relayed' = [relayed EXCEPT ![c] = FALSE]
      /\ UNCHANGED <<hears, cellOf, centerOf, misjudged>>
  BY DEF OnMoveRequest
<1>2. /\ m \in Tidings /\ m.type = "move" /\ m.cell \in GridCells /\ m.cell = cellOf[c]
      /\ tells' \in [Clients -> Seq(Tidings)]
      /\ \A d \in Clients : d # c => tells'[d] = tells[d]
      /\ \A K : Carries(tells[c], K) <=> Carries(tells'[c], K) \/ m \in K
      /\ Trail(tells'[c], m.cell, currentGrid[c])
      /\ UNCHANGED <<currentGrid, centerGrid, picture>>
  BY <1>1, TakenMessage
<1>3. m \notin CellEntries /\ (\A y : m \notin Asking(y)) /\ m # Arrival(cellOf[c])
  BY <1>2, TidingsAre DEF Asking, Shifts, Arrival
<1>4. ~Shifting(c)
  BY <1>3 DEF Shifting
<1> HIDE DEF m
<1>5. OutdoorTypes
  BY DEF OutdoorsInv
<1>6. /\ charCoords'[c] = cellOf[c] /\ ~relayed'[c]
      /\ \A d \in Clients : d # c => charCoords'[d] = charCoords[d] /\ relayed'[d] = relayed[d]
      /\ charCoords' \in [Clients -> GridCells] /\ relayed' \in [Clients -> BOOLEAN]
  BY <1>1, <1>2, <1>5 DEF OutdoorTypes
<1>7. OutdoorTypes'
  BY <1>1, <1>2, <1>5, <1>6, OutdoorTypesThen DEF OutdoorTypes
<1>8. ASSUME NEW d \in Clients PROVE Followed(d)'
  <2>1. Trail(tells[d], cellOf[d], currentGrid[d])
    BY DEF OutdoorsInv, Followed
  <2> QED BY <1>1, <1>2, <2>1, WatchedThen
<1>9. \A d \in Clients : \A y : /\ Carries(tells'[d], CellEntries) <=> Carries(tells[d], CellEntries)
                                /\ Carries(tells'[d], Asking(y)) <=> Carries(tells[d], Asking(y))
  BY <1>2, <1>3
<1>10. ASSUME NEW a \in Clients, NEW b \in Clients \ {a} PROVE Watched(a, b)'
  <2>1. Watched(a, b)
    BY DEF OutdoorsInv
  <2>2. CASE <<a, b>> \in misjudged
    BY <1>1, <2>2, WatchedThen
  <2>3. CASE Placed(a, b) /\ Vacant(a, b) /\ Spotted(a, b)
    <3>1. Spotted(a, b)'
      BY <1>1, <1>2, <1>9, <2>3, SpottedStays DEF Promised
    <3>2. CASE b # c
      <4>1. Placed(a, b)'
        BY <1>1, <1>2, <1>6, <2>3, <3>2, PlacedStays
      <4>2. Vacant(a, b)'
        BY <1>1, <1>2, <1>6, <2>3, <3>2, VacantStays, ShiftingStays
      <4> QED BY <3>1, <4>1, <4>2, WatchedThen
    <3>3. CASE b = c
      <4>1. Vacant(a, c)'
        BY <1>1, <1>6, WatchedThen
      <4> DEFINE X == {picture[a][c].cell}
      <4>2. ASSUME ~InGrid(cellOf[c], centerOf[a])
            PROVE  Ends(hears[a], Spots, Losing(c), X, {-1, cellOf[c]})
        <5>1. CASE charCoords[c] = cellOf[c]
          BY <2>3, <3>3, <4>2, <5>1 DEF Placed
        <5>2. CASE charCoords[c] # cellOf[c]
          <6>1. Ends(hears[a], Spots, Losing(c), X, {-1})
            BY <1>4, <2>3, <3>3, <4>2, <5>2 DEF Vacant
          <6> QED BY <6>1, EndsLoosely
        <5> QED BY <5>1, <5>2
      <4>3. Placed(a, c)'
        BY <1>1, <1>2, <1>6, <4>2, WatchedThen
      <4> QED BY <3>1, <3>3, <4>1, <4>3, WatchedThen
    <3> QED BY <3>2, <3>3
  <2> QED BY <2>1, <2>2, <2>3 DEF Watched
<1> QED BY <1>7, <1>8, <1>10 DEF OutdoorsInv

(* A cell is taken.                                                            *)
LEMMA HandleExteriorCellEnterKeepsInv ==
    ASSUME OutdoorsInv, NEW c \in Clients, HandleExteriorCellEnter(c)
    PROVE  OutdoorsInv'
<1> DEFINE m == Head(tells[c])
           x == m.cell
           note(d) == About(IF InGrid(x, centerOf[d]) THEN "spawn" ELSE "remove", c)
<1>1. /\ Takes(c, "enter") /\ cellOf' = [cellOf EXCEPT ![c] = x]
      /\ centerOf' = [centerOf EXCEPT ![c] = x]
      /\ hears' = [d \in Clients |-> IF d = c THEN hears[d] ELSE Append(hears[d], note(d))]
      /\ misjudged' = misjudged \cup {<<d, c>> : d \in {e \in Clients \ {c} : Overlooks(e, x)}}
                                \cup {<<c, d>> : d \in {e \in Clients \ {c} : ~UpToDate(e)}}
      /\ UNCHANGED <<charCoords, relayed>>
  BY DEF HandleExteriorCellEnter
<1>2. /\ m \in Tidings /\ m.type = "enter" /\ x \in GridCells
      /\ tells' \in [Clients -> Seq(Tidings)] /\ tells'[c] = Tail(tells[c])
      /\ \A d \in Clients : d # c => tells'[d] = tells[d]
      /\ \A K : Carries(tells[c], K) <=> Carries(tells'[c], K) \/ m \in K
      /\ Trail(tells'[c], x, currentGrid[c])
      /\ UNCHANGED <<currentGrid, centerGrid, picture>>
  BY <1>1, TakenMessage
<1>3. \A y : m \notin Asking(y)
  BY <1>2 DEF Asking, Shifts
<1>5. OutdoorTypes
  BY DEF OutdoorsInv
<1>4. ASSUME NEW d \in Clients
      PROVE  /\ note(d) \in Notes /\ note(d).who = c /\ note(d).cell = charCoords[c]
             /\ note(d).type = IF InGrid(x, centerOf[d]) THEN "spawn" ELSE "remove"
  BY <1>5, AboutIsNote
<1> HIDE DEF m, x, note
<1>6. /\ cellOf'[c] = x /\ centerOf'[c] = x
      /\ \A d \in Clients : d # c => cellOf'[d] = cellOf[d] /\ centerOf'[d] = centerOf[d]
                                     /\ hears'[d] = Append(hears[d], note(d))
      /\ hears'[c] = hears[c]
      /\ {cellOf', centerOf'} \subseteq [Clients -> GridCells]
      /\ hears' \in [Clients -> Seq(Notes)]
  <2>1. \A d \in Clients : hears[d] \in Seq(Notes) /\ Append(hears[d], note(d)) \in Seq(Notes)
    BY <1>4, <1>5, AppendProperties DEF OutdoorTypes
  <2> QED BY <1>1, <1>2, <1>5, <2>1 DEF OutdoorTypes
<1>7. OutdoorTypes'
  BY <1>1, <1>2, <1>5, <1>6, OutdoorTypesThen DEF OutdoorTypes
<1>8. ASSUME NEW d \in Clients PROVE Followed(d)'
  <2>1. Trail(tells[d], cellOf[d], currentGrid[d])
    BY DEF OutdoorsInv, Followed
  <2>2. CASE d = c
    BY <1>2, <1>6, <2>2, WatchedThen
  <2>3. CASE d # c
    BY <1>2, <1>6, <2>1, <2>3, WatchedThen
  <2> QED BY <2>2, <2>3
<1>9. ASSUME NEW a \in Clients, NEW b \in Clients \ {a} PROVE Watched(a, b)'
  <2>1. Watched(a, b)
    BY DEF OutdoorsInv
  <2>2. CASE <<a, b>> \in misjudged'
    BY <2>2, WatchedThen
  <2>3. CASE <<a, b>> \notin misjudged'
    <3>0. Placed(a, b) /\ Vacant(a, b) /\ Spotted(a, b)
      BY <1>1, <2>1, <2>3 DEF Watched
    <3>1. CASE a = c
      <4>1. charCoords[b] = cellOf[b] /\ relayed[b]
        BY <1>1, <2>3, <3>1 DEF UpToDate
      <4>2. Placed(c, b)'
        <5>1. Ends(hears[c], Spots, Losing(b), {picture[c][b].cell}, {-1, charCoords[b]})
          BY <3>0, <3>1, <4>1 DEF Placed
        <5> QED BY <1>1, <1>2, <1>6, <5>1, WatchedThen
      <4>3. Vacant(c, b)'
        BY <1>1, <1>6, <3>1, <4>1, WatchedThen
      <4>4. Spotted(c, b)'
        <5>1. Carries(tells[c], Asking(currentGrid[b])) => Carries(tells'[c], Asking(currentGrid[b]))
          BY <1>2, <1>3
        <5>2. tells'[b] = tells[b]
          BY <1>2, <3>1
        <5> QED BY <1>2, <1>6, <3>0, <3>1, <5>1, <5>2, SpottedStays DEF Promised
      <4> QED BY <3>1, <4>2, <4>3, <4>4, WatchedThen
    <3>2. CASE a # c /\ b # c
      <4>1. note(a) \in Notes /\ note(a).who # b
        BY <1>4, <3>2
      <4>2. /\ hears'[a] = Append(hears[a], note(a)) /\ centerOf'[a] = centerOf[a]
            /\ cellOf'[b] = cellOf[b] /\ tells'[b] = tells[b] /\ tells'[a] = tells[a]
        BY <1>2, <1>6, <3>2
      <4>3. /\ picture'[a][b] = picture[a][b] /\ currentGrid'[b] = currentGrid[b]
            /\ centerGrid'[a] = centerGrid[a] /\ charCoords'[b] = charCoords[b]
            /\ relayed'[b] = relayed[b]
        BY <1>1, <1>2
      <4>4. Placed(a, b)' /\ Vacant(a, b)' /\ Spotted(a, b)'
        BY <3>0, <4>1, <4>2, <4>3, MoreOfOthers
      <4> QED BY <4>4, WatchedThen
    <3>3. CASE b = c
      <4>1. /\ a # c /\ hears'[a] = Append(hears[a], note(a)) /\ hears[a] \in Seq(Notes)
            /\ note(a) \in Notes /\ note(a).who = c /\ note(a).cell = charCoords[c]
            /\ centerOf'[a] = centerOf[a] /\ charCoords[c] \in GridCells /\ tells'[a] = tells[a]
        BY <1>2, <1>4, <1>5, <1>6, <3>3 DEF OutdoorTypes
      <4>2. /\ {picture[a][c].cell} \in SUBSET Spots
            /\ {-1} \in SUBSET Spots /\ {-1, charCoords[c]} \in SUBSET Spots
            /\ GridCells \in SUBSET Spots
        BY <1>5, <4>1, PictureIsSpot DEF Spots
      <4> DEFINE X == {picture[a][c].cell}
                 G == {-1, charCoords[c]}
                 n == note(a)
      <4>3. X \in SUBSET Spots /\ G \in SUBSET Spots /\ n \in Notes
        BY <4>1, <4>2
      <4>4. Keeps(n, Spots, Losing(c), G)
        BY <4>1, PlacingKeeps
      <4>5. ~InGrid(x, centerOf[a]) => Settles(n, Spots, Losing(c), {-1})
        BY <1>4, <4>1, VacatingKeeps
      <4>6. InGrid(x, centerOf[a]) => Settles(n, Spots, Making(c), GridCells)
        BY <1>4, <4>1, SpottingKeeps
      <4> HIDE DEF X, G, n
      <4>7. Placed(a, c)'
        <5>1. Ends(hears[a], Spots, Losing(c), X, G)
                 => Ends(Append(hears[a], n), Spots, Losing(c), X, G)
          BY <4>1, <4>3, <4>4, EndsStill
        <5>2. relayed[c] \/ ~InGrid(charCoords[c], centerOf[a])
                 => Ends(hears[a], Spots, Losing(c), X, G)
          BY <3>0, <3>3 DEF Placed, X, G
        <5> QED BY <1>1, <1>2, <4>1, <5>1, <5>2, WatchedThen DEF X, G, n
      <4>8. Vacant(a, c)'
        <5>1. ~InGrid(x, centerOf[a]) => Ends(Append(hears[a], n), Spots, Losing(c), X, {-1})
          BY <4>1, <4>2, <4>3, <4>5, EndsNow
        <5> QED BY <1>2, <1>6, <4>1, <5>1, WatchedThen DEF X, n
      <4>9. Spotted(a, c)'
        <5>1. CASE InGrid(x, centerOf[a])
          <6>1. Ends(Append(hears[a], n), Spots, Making(c), X, GridCells)
            BY <4>1, <4>2, <4>3, <4>6, <5>1, EndsNow
          <6> QED BY <1>2, <4>1, <6>1, WatchedThen DEF X, n
        <5>2. CASE ~InGrid(x, centerOf[a])
          <6> SUFFICES ASSUME ~Carries(tells'[c], CellEntries), InGrid(currentGrid[c], centerGrid[a])
                       PROVE  Carries(tells[a], Asking(currentGrid[c]))
            BY <1>2, <4>1, WatchedThen
          <6>1. x = currentGrid[c]
            BY <1>2, TrailEnds
          <6>2. ~Overlooks(a, x)
            BY <1>1, <2>3, <3>3, <4>1
          <6>3. PICK i \in DOMAIN tells[a] : tells[a][i].type = "shift" /\ x \in tells[a][i].cells
            BY <5>2, <6>1, <6>2 DEF Overlooks
          <6>4. tells[a] \in Seq(Tidings) /\ i \in 1 .. Len(tells[a])
            BY <1>5, <6>3, LenProperties DEF OutdoorTypes
          <6>5. tells[a][i] \in Tidings
            BY <6>4, ElementOfSeq
          <6>6. tells[a][i] \in Asking(x)
            BY <6>3, <6>5, TidingsAre DEF Asking
          <6> QED BY <6>1, <6>4, <6>6 DEF Carries
        <5> QED BY <5>1, <5>2
      <4> QED BY <3>3, <4>7, <4>8, <4>9, WatchedThen
    <3> QED BY <3>1, <3>2, <3>3
  <2> QED BY <2>2, <2>3
<1> QED BY <1>7, <1>8, <1>9 DEF OutdoorsInv

(* A shift of the grid is taken.                                               *)
LEMMA HandleGridCellShiftKeepsInv ==
    ASSUME OutdoorsInv, NEW c \in Clients, HandleGridCellShift(c)
    PROVE  OutdoorsInv'
<1> DEFINE m == Head(tells[c])
           D == {e \in Clients \ {c} : charCoords[e] \in m.cells}
           T == {About("spawn", d) : d \in D}
<1>1. /\ Takes(c, "shift") /\ cellOf' = [cellOf EXCEPT ![c] = m.cell]
      /\ centerOf' = [centerOf EXCEPT ![c] = m.center]
      /\ hears' = [hears EXCEPT ![c] = @ \o SetToSeq(T)]
      /\ misjudged' = misjudged \cup {<<c, d>> : d \in {e \in Clients \ {c} : ~UpToDate(e)}}
      /\ UNCHANGED <<charCoords, relayed>>
  BY DEF HandleGridCellShift
<1>2. /\ m \in Tidings /\ m.type = "shift" /\ m.cell \in GridCells
      /\ tells' \in [Clients -> Seq(Tidings)]
      /\ \A d \in Clients : d # c => tells'[d] = tells[d]
      /\ \A K : Carries(tells[c], K) <=> Carries(tells'[c], K) \/ m \in K
      /\ Trail(tells'[c], m.cell, currentGrid[c])
      /\ tells'[c] # <<>> /\ Head(tells'[c]) = Arrival(m.cell)
      /\ UNCHANGED <<currentGrid, centerGrid, picture>>
  BY <1>1, TakenMessage
<1>3. m.center \in GridCells
  BY <1>2, TidingsAre DEF Shifts
<1>4. OutdoorTypes
  BY DEF OutdoorsInv
<1>5. /\ T \in SUBSET Notes /\ IsFiniteSet(T)
      /\ \A n \in T : n.type = "spawn" /\ \A b \in Clients : n.who = b => n.cell = charCoords[b]
  BY <1>4, AboutMany
<1>6. \A b \in Clients \ {c} : charCoords[b] \in m.cells =>
         About("spawn", b) \in T /\ About("spawn", b).who = b /\ About("spawn", b).type = "spawn"
  BY <1>4, AboutIsNote
<1> HIDE DEF T, D, m
<1>7. /\ cellOf'[c] = m.cell
      /\ \A d \in Clients : d # c => cellOf'[d] = cellOf[d] /\ centerOf'[d] = centerOf[d]
                                     /\ hears'[d] = hears[d]
      /\ hears'[c] = hears[c] \o SetToSeq(T) /\ hears[c] \in Seq(Notes)
      /\ {cellOf', centerOf'} \subseteq [Clients -> GridCells]
      /\ hears' \in [Clients -> Seq(Notes)]
  <2>1. SetToSeq(T) \in Seq(Notes)
    <3>1. SetToSeq(T) \in Seq(T)
      BY <1>5, SetInOrder
    <3> QED BY <1>5, <3>1, SeqMonotonic
  <2>2. hears[c] \in Seq(Notes) /\ hears[c] \o SetToSeq(T) \in Seq(Notes)
    BY <1>4, <2>1, ConcatProperties DEF OutdoorTypes
  <2> QED BY <1>1, <1>2, <1>3, <1>4, <2>2 DEF OutdoorTypes
<1>8. OutdoorTypes'
  BY <1>1, <1>2, <1>4, <1>7, OutdoorTypesThen DEF OutdoorTypes
<1>9. ASSUME NEW d \in Clients PROVE Followed(d)'
  <2>1. Trail(tells[d], cellOf[d], currentGrid[d])
    BY DEF OutdoorsInv, Followed
  <2>2. CASE d = c
    BY <1>2, <1>7, <2>2, WatchedThen
  <2>3. CASE d # c
    BY <1>2, <1>7, <2>1, <2>3, WatchedThen
  <2> QED BY <2>2, <2>3
<1>10. Carries(tells'[c], CellEntries)
  <2>1. tells'[c] \in Seq(Tidings)
    BY <1>2
  <2>2. 1 \in 1 .. Len(tells'[c]) /\ tells'[c][1] = Arrival(m.cell)
    BY <1>2, <2>1, EmptySeq
  <2> QED BY <1>2, <2>2 DEF Carries, CellEntries
<1>11. ASSUME NEW a \in Clients, NEW b \in Clients \ {a} PROVE Watched(a, b)'
  <2>1. Watched(a, b)
    BY DEF OutdoorsInv
  <2>2. CASE <<a, b>> \in misjudged'
    BY <2>2, WatchedThen
  <2>3. CASE <<a, b>> \notin misjudged'
    <3>0. Placed(a, b) /\ Vacant(a, b) /\ Spotted(a, b)
      BY <1>1, <2>1, <2>3 DEF Watched
    <3>1. CASE a # c
      <4>0. hears'[a] = hears[a] /\ centerOf'[a] = centerOf[a] /\ tells'[a] = tells[a]
        BY <1>2, <1>7, <3>1
      <4>1. Placed(a, b)'
        BY <1>1, <1>2, <3>0, <4>0, PlacedStays
      <4>2. Vacant(a, b)'
        <5>1. CASE b = c
          <6>1. Shifting(c)'
            BY <1>2, <1>7, WatchedThen
          <6> QED BY <5>1, <6>1, WatchedThen
        <5>2. CASE b # c
          <6>1. cellOf'[b] = cellOf[b] /\ tells'[b] = tells[b]
            BY <1>2, <1>7, <5>2
          <6> QED BY <1>1, <1>2, <3>0, <4>0, <6>1, VacantStays, ShiftingStays
        <5> QED BY <5>1, <5>2
      <4>3. Spotted(a, b)'
        <5>1. Carries(tells[b], CellEntries) => Carries(tells'[b], CellEntries)
          BY <1>2, <1>10
        <5> QED BY <1>2, <3>0, <4>0, <5>1, SpottedStays DEF Promised
      <4> QED BY <4>1, <4>2, <4>3, WatchedThen
    <3>2. CASE a = c
      <4>0. /\ charCoords[b] = cellOf[b] /\ relayed[b] /\ b # c
            /\ cellOf'[b] = cellOf[b] /\ tells'[b] = tells[b]
            /\ charCoords[b] \in GridCells
        BY <1>1, <1>2, <1>4, <1>7, <2>3, <3>2 DEF UpToDate, OutdoorTypes
      <4> DEFINE X == {picture[c][b].cell}
                 G == {-1, charCoords[b]}
      <4>1. X \in SUBSET Spots /\ G \in SUBSET Spots /\ GridCells \in SUBSET Spots
        BY <1>4, <4>0, PictureIsSpot DEF Spots
      <4>2. \A n \in T : Keeps(n, Spots, Losing(b), G) /\ Keeps(n, Spots, Making(b), GridCells)
        <5> TAKE n \in T
        <5>1. n \in Notes /\ n.type = "spawn" /\ (n.who # b \/ n.cell = charCoords[b])
          BY <1>5
        <5> QED BY <4>0, <5>1, PlacingKeeps, SpottingKeeps
      <4> HIDE DEF X, G
      <4> DEFINE s == hears[c]
                 L == Losing(b)
                 M == Making(b)
      <4>6. /\ s \in Seq(Notes) /\ hears'[c] = s \o SetToSeq(T)
            /\ \A n \in T : Keeps(n, Spots, L, G)
            /\ \A n \in T : Keeps(n, Spots, M, GridCells)
        BY <1>7, <4>2
      <4> HIDE DEF s, L, M
      <4>7. Ends(s, Spots, L, X, G) => Ends(s \o SetToSeq(T), Spots, L, X, G)
        BY <1>5, <4>1, <4>6, EndsStillAll
      <4>8. Ends(s, Spots, M, X, GridCells) => Ends(s \o SetToSeq(T), Spots, M, X, GridCells)
        BY <1>5, <4>1, <4>6, EndsStillAll
      <4>9. (\E n \in T : Settles(n, Spots, M, GridCells))
               => Ends(s \o SetToSeq(T), Spots, M, X, GridCells)
        BY <1>5, <4>1, <4>6, EndsNowAmong
      <4>3. Placed(c, b)'
        <5>1. Ends(hears[c], Spots, Losing(b), X, G)
          BY <3>0, <3>2, <4>0 DEF Placed, X, G
        <5>2. Ends(hears'[c], Spots, Losing(b), X, G)
          BY <4>6, <4>7, <5>1 DEF s, L
        <5> QED BY <1>1, <1>2, <5>2, WatchedThen DEF X, G
      <4>4. Vacant(c, b)'
        BY <1>1, <4>0, WatchedThen
      <4>5. Spotted(c, b)'
        <5> SUFFICES ASSUME ~Carries(tells[b], CellEntries), InGrid(currentGrid[b], centerGrid[c]),
                            ~Carries(tells'[c], Asking(currentGrid[b]))
                     PROVE  Ends(hears'[c], Spots, Making(b), X, GridCells)
          BY <1>2, <4>0, WatchedThen DEF X
        <5>1. \/ Ends(hears[c], Spots, Making(b), X, GridCells)
              \/ Carries(tells[c], Asking(currentGrid[b]))
          BY <3>0, <3>2 DEF Spotted, Promised, X
        <5>2. CASE Ends(hears[c], Spots, Making(b), X, GridCells)
          BY <4>6, <4>8, <5>2 DEF s, M
        <5>3. CASE Carries(tells[c], Asking(currentGrid[b]))
          <6>1. m \in Asking(currentGrid[b])
            BY <1>2, <5>3
          <6>2. cellOf[b] = currentGrid[b]
            BY TrailEnds DEF OutdoorsInv, Followed
          <6>3. About("spawn", b) \in T /\ About("spawn", b).who = b
                /\ About("spawn", b).type = "spawn"
            BY <1>6, <4>0, <6>1, <6>2 DEF Asking
          <6>4. Settles(About("spawn", b), Spots, Making(b), GridCells)
            BY <1>5, <6>3, SpottingKeeps
          <6> QED BY <4>6, <4>9, <6>3, <6>4 DEF M
        <5> QED BY <5>1, <5>2, <5>3
      <4> QED BY <3>2, <4>3, <4>4, <4>5, WatchedThen
    <3> QED BY <3>1, <3>2
  <2> QED BY <2>2, <2>3
<1> QED BY <1>8, <1>9, <1>11 DEF OutdoorsInv

(* ProcessMovementChanges.                                                     *)
LEMMA RelayMovementKeepsInv ==
    ASSUME OutdoorsInv, RelayMovement
    PROVE  OutdoorsInv'
<1> DEFINE D(a) == {e \in Clients \ {a} : ~relayed[e] /\ InGrid(charCoords[e], centerOf[a])}
           T(a) == {About("move", e) : e \in D(a)}
<1>1. /\ hears' = [a \in Clients |-> hears[a] \o SetToSeq(T(a))]
      /\ relayed' = [a \in Clients |-> TRUE]
      /\ UNCHANGED <<currentGrid, centerGrid, picture, tells, cellOf, centerOf, charCoords, misjudged>>
  BY DEF RelayMovement, gridVars
<1>2. OutdoorTypes
  BY DEF OutdoorsInv
<1>3. ASSUME NEW a \in Clients
      PROVE  /\ T(a) \in SUBSET Notes /\ IsFiniteSet(T(a))
             /\ \A n \in T(a) : n.type = "move" /\ \A b \in Clients : n.who = b => n.cell = charCoords[b]
  BY <1>2, AboutMany
<1>4. ASSUME NEW a \in Clients, NEW b \in Clients \ {a}, ~relayed[b], InGrid(charCoords[b], centerOf[a])
      PROVE  About("move", b) \in T(a)
  BY <1>4
<1> HIDE DEF T, D
<1>5. ASSUME NEW a \in Clients
      PROVE  hears[a] \in Seq(Notes) /\ hears[a] \o SetToSeq(T(a)) \in Seq(Notes)
  <2>1. SetToSeq(T(a)) \in Seq(Notes)
    <3>1. SetToSeq(T(a)) \in Seq(T(a))
      BY <1>3, SetInOrder
    <3> QED BY <1>3, <3>1, SeqMonotonic
  <2> QED BY <1>2, <2>1, ConcatProperties DEF OutdoorTypes
<1>6. OutdoorTypes'
  BY <1>1, <1>2, <1>5, OutdoorTypesThen DEF OutdoorTypes
<1>7. ASSUME NEW d \in Clients PROVE Followed(d)'
  <2>1. Trail(tells[d], cellOf[d], currentGrid[d])
    BY DEF OutdoorsInv, Followed
  <2> QED BY <1>1, <2>1, WatchedThen
<1>8. ASSUME NEW a \in Clients, NEW b \in Clients \ {a} PROVE Watched(a, b)'
  <2>1. Watched(a, b)
    BY DEF OutdoorsInv
  <2>2. CASE <<a, b>> \in misjudged
    BY <1>1, <2>2, WatchedThen
  <2>3. CASE Placed(a, b) /\ Vacant(a, b) /\ Spotted(a, b)
    <3> DEFINE X == {picture[a][b].cell}
               G == {-1, charCoords[b]}
               s == hears[a]
               t == T(a)
               L == Losing(b)
               M == Making(b)
    <3>1. /\ X \in SUBSET Spots /\ G \in SUBSET Spots /\ GridCells \in SUBSET Spots
          /\ {-1} \in SUBSET Spots /\ charCoords[b] \in GridCells
      BY <1>2, PictureIsSpot DEF Spots, OutdoorTypes
    <3>2. /\ t \in SUBSET Notes /\ IsFiniteSet(t) /\ s \in Seq(Notes)
          /\ hears'[a] = s \o SetToSeq(t)
      BY <1>1, <1>3, <1>5
    <3>3. ASSUME NEW n \in t
          PROVE  /\ Keeps(n, Spots, L, G) /\ Keeps(n, Spots, L, {-1})
                 /\ Keeps(n, Spots, M, GridCells)
      <4>1. n \in Notes /\ n.type = "move" /\ (n.who # b \/ n.cell = charCoords[b])
        BY <1>3
      <4> QED BY <3>1, <4>1, PlacingKeeps, VacatingKeeps, SpottingKeeps
    <3>4. ~relayed[b] /\ InGrid(charCoords[b], centerOf[a]) => \E n \in t : Settles(n, Spots, L, G)
      <4> SUFFICES ASSUME ~relayed[b], InGrid(charCoords[b], centerOf[a])
                   PROVE  \E n \in t : Settles(n, Spots, L, G)
        OBVIOUS
      <4>1. About("move", b) \in t
        BY <1>4
      <4>2. Settles(About("move", b), Spots, L, G)
        BY <1>2, AboutIsNote, PlacingKeeps
      <4> QED BY <4>1, <4>2
    <3> HIDE DEF X, G, s, t, L, M
    <3>5. Ends(s, Spots, L, X, G) => Ends(s \o SetToSeq(t), Spots, L, X, G)
      BY <3>1, <3>2, <3>3, EndsStillAll
    <3>6. Ends(s, Spots, L, X, {-1}) => Ends(s \o SetToSeq(t), Spots, L, X, {-1})
      BY <3>1, <3>2, <3>3, EndsStillAll
    <3>7. Ends(s, Spots, M, X, GridCells) => Ends(s \o SetToSeq(t), Spots, M, X, GridCells)
      BY <3>1, <3>2, <3>3, EndsStillAll
    <3>8. (\E n \in t : Settles(n, Spots, L, G)) => Ends(s \o SetToSeq(t), Spots, L, X, G)
      BY <3>1, <3>2, <3>3, EndsNowAmong
    <3>9. Placed(a, b)'
      <4>1. relayed[b] \/ ~InGrid(charCoords[b], centerOf[a]) => Ends(s, Spots, L, X, G)
        BY <2>3 DEF Placed, s, L, X, G
      <4>2. Ends(hears'[a], Spots, L, X, G)
        BY <3>2, <3>4, <3>5, <3>8, <4>1
      <4> QED BY <1>1, <4>2, WatchedThen DEF L, X, G
    <3>10. Vacant(a, b)'
      <4> SUFFICES ASSUME charCoords[b] # cellOf[b], ~InGrid(cellOf[b], centerOf[a]), ~Shifting(b)
                   PROVE  Ends(hears'[a], Spots, L, X, {-1})
        BY <1>1, WatchedThen, ShiftingStays DEF L, X
      <4>1. Ends(s, Spots, L, X, {-1})
        BY <2>3 DEF Vacant, s, L, X
      <4> QED BY <3>2, <3>6, <4>1
    <3>11. Spotted(a, b)'
      <4> SUFFICES ASSUME ~Carries(tells[b], CellEntries), InGrid(currentGrid[b], centerGrid[a]),
                          ~Carries(tells[a], Asking(currentGrid[b]))
                   PROVE  Ends(hears'[a], Spots, M, X, GridCells)
        BY <1>1, WatchedThen DEF M, X
      <4>1. Ends(s, Spots, M, X, GridCells)
        BY <2>3 DEF Spotted, Promised, s, M, X
      <4> QED BY <3>2, <3>7, <4>1
    <3> QED BY <3>9, <3>10, <3>11, WatchedThen
  <2> QED BY <2>1, <2>2, <2>3 DEF Watched
<1> QED BY <1>6, <1>7, <1>8 DEF OutdoorsInv

(* Whatever is done next.                                                      *)
LEMMA NextOutdoors == OutdoorsInv /\ [OutdoorsNext]_outdoorsVars => OutdoorsInv'
<1> SUFFICES ASSUME OutdoorsInv, [OutdoorsNext]_outdoorsVars PROVE OutdoorsInv'
  OBVIOUS
<1>1. CASE RelayMovement
  BY <1>1, RelayMovementKeepsInv
<1>2. ASSUME NEW c \in Clients, Reports(c) PROVE OutdoorsInv'
  BY <1>2, ReportsKeepInv
<1>3. ASSUME NEW c \in Clients, HearsOf(c) PROVE OutdoorsInv'
  BY <1>3, HearsOfKeepsInv
<1>4. ASSUME NEW c \in Clients, HandleGridCellShift(c) PROVE OutdoorsInv'
  BY <1>4, HandleGridCellShiftKeepsInv
<1>5. ASSUME NEW c \in Clients, HandleExteriorCellEnter(c) PROVE OutdoorsInv'
  BY <1>5, HandleExteriorCellEnterKeepsInv
<1>6. ASSUME NEW c \in Clients, OnMoveRequest(c) PROVE OutdoorsInv'
  BY <1>6, OnMoveRequestKeepsInv
<1>7. ASSUME NEW c \in Clients, NEW d \in Clients, Loads(c, d) PROVE OutdoorsInv'
  BY <1>7, LoadsKeepInv
<1>8. ASSUME NEW c \in Clients, NEW x \in GridCells, NEW center \in GridCells, Strides(c, x, center)
      PROVE  OutdoorsInv'
  BY <1>8, StridesKeepInv
<1>9. CASE UNCHANGED outdoorsVars
  <2>1. UNCHANGED <<currentGrid, centerGrid, picture, tells, hears, cellOf, centerOf, charCoords,
                    relayed, misjudged>>
    BY <1>9 DEF outdoorsVars, gridVars, gridRecords
  <2>2. OutdoorTypes'
    BY <2>1, OutdoorTypesThen DEF OutdoorsInv, OutdoorTypes
  <2>3. ASSUME NEW e \in Clients PROVE Followed(e)'
    <3>1. Trail(tells[e], cellOf[e], currentGrid[e])
      BY DEF OutdoorsInv, Followed
    <3> QED BY <2>1, <3>1, WatchedThen
  <2>4. ASSUME NEW a \in Clients, NEW b \in Clients \ {a} PROVE Watched(a, b)'
    <3>1. CASE <<a, b>> \in misjudged
      BY <2>1, <3>1, WatchedThen
    <3>2. CASE Placed(a, b) /\ Vacant(a, b) /\ Spotted(a, b)
      <4>1. Placed(a, b)' /\ Vacant(a, b)' /\ Spotted(a, b)'
        BY <2>1, <3>2, PlacedStays, VacantStays, SpottedStays, ShiftingStays DEF Promised
      <4> QED BY <4>1, WatchedThen
    <3> QED BY <3>1, <3>2 DEF OutdoorsInv, Watched
  <2> QED BY <2>2, <2>3, <2>4 DEF OutdoorsInv
<1> QED BY <1>1, <1>2, <1>3, <1>4, <1>5, <1>6, <1>7, <1>8, <1>9 DEF OutdoorsNext

---------------------------------------------------------------------------

(* What every queue still holds makes the picture right, in every behaviour.   *)
THEOREM OutdoorsInvariant == OutdoorsSpec => []OutdoorsInv
BY InitOutdoors, NextOutdoors, PTL DEF OutdoorsSpec

(* Every variable keeps its type, and a game has the cell of its player        *)
(* loaded, for any players, size of the world and of the grids.                *)
THEOREM OutdoorTypesHold == OutdoorsSpec => []OutdoorsTypeOK
<1>1. OutdoorsInv => OutdoorsTypeOK
  BY DEF OutdoorsInv, OutdoorTypes, OutdoorsTypeOK
<1> QED BY <1>1, OutdoorsInvariant, PTL

(* For any players, size of the world and of the grids: when all is reported,  *)
(* passed on and read, a game shows who stands in one of the cells it has      *)
(* loaded, there, and nobody else, but for those that were misjudged.          *)
THEOREM NeighboursAlwaysSeen == OutdoorsSpec => []NeighboursSeen
<1>1. OutdoorsInv => NeighboursSeen
  <2> SUFFICES ASSUME OutdoorsInv, AtRest, NEW c \in Clients, NEW d \in Clients \ {c},
                      <<c, d>> \notin misjudged
               PROVE  IF InGrid(currentGrid[d], centerGrid[c])
                      THEN picture[c][d] = [cell |-> currentGrid[d], seen |-> TRUE]
                      ELSE ~picture[c][d].seen
    BY DEF NeighboursSeen
  <2> DEFINE x == currentGrid[d]
             p == picture[c][d]
  <2>1. /\ tells[c] = <<>> /\ tells[d] = <<>> /\ hears[c] = <<>>
        /\ charCoords[d] = cellOf[d] /\ relayed[d] /\ LoadedAs(c, d) = p
    BY DEF AtRest, UpToDate
  <2>2. cellOf[d] = x
    <3>1. Trail(<<>>, cellOf[d], currentGrid[d])
      BY <2>1 DEF OutdoorsInv, Followed
    <3>2. ~Carries(<<>>, CellEntries)
      BY CarriesNothing
    <3> QED BY <3>1, <3>2, TrailEnds
  <2>3. /\ p.cell \in Spots /\ (p = Absent <=> p.cell = -1)
        /\ p # Absent => p \in [cell : GridCells, seen : BOOLEAN]
        /\ {p.cell} \in SUBSET Spots
    BY PictureIsSpot DEF OutdoorsInv
  <2>4. Placed(c, d) /\ Spotted(c, d)
    BY DEF OutdoorsInv, Watched
  <2>5. p.cell \in {-1, x}
    <3>1. Ends(<<>>, Spots, Losing(d), {p.cell}, {-1, x})
      BY <2>1, <2>2, <2>4 DEF Placed
    <3> DEFINE X == {p.cell}
               G == {-1, x}
    <3>2. X \in SUBSET Spots /\ Ends(<<>>, Spots, Losing(d), X, G)
      BY <2>3, <3>1
    <3> HIDE DEF X, G
    <3>3. X \subseteq G
      BY <3>2, EndsThere
    <3> QED BY <3>3 DEF X, G
  <2>6. InGrid(x, centerGrid[c]) => p.cell # -1
    <3> SUFFICES ASSUME InGrid(x, centerGrid[c]) PROVE p.cell # -1
      OBVIOUS
    <3>1. Ends(<<>>, Spots, Making(d), {p.cell}, GridCells)
      BY <2>1, <2>4, CarriesNothing DEF Spotted, Promised
    <3> DEFINE u == p.cell
    <3> HIDE DEF u
    <3>2. {u} \in SUBSET Spots /\ Ends(<<>>, Spots, Making(d), {u}, GridCells)
      BY <2>3, <3>1 DEF u
    <3>3. {u} \subseteq GridCells
      BY <3>2, EndsThere
    <3> QED BY <3>3, NowhereIsNoCell DEF u
  <2>7. p = Absent \/ InGrid(p.cell, centerGrid[c]) = p.seen
    <3>1. CASE p = Absent
      BY <3>1
    <3>2. CASE p # Absent
      <4>1. p \in [cell : GridCells, seen : BOOLEAN]
        BY <2>3, <3>2
      <4> HIDE DEF p
      <4>2. CASE InGrid(p.cell, centerGrid[c]) # p.seen /\ p.seen
        <5>1. LoadedAs(c, d) = Absent
          BY <3>2, <4>2 DEF LoadedAs, p
        <5> QED BY <2>1, <5>1 
      <4>3. CASE InGrid(p.cell, centerGrid[c]) # p.seen /\ ~p.seen
        <5>1. LoadedAs(c, d) = [p EXCEPT !.seen = TRUE]
          BY <3>2, <4>3 DEF LoadedAs, p
        <5>2. LoadedAs(c, d).seen
          BY <4>1, <5>1
        <5> QED BY <2>1, <4>3, <5>2
      <4> QED BY <4>2, <4>3
    <3> QED BY <3>1, <3>2
  <2> HIDE DEF p, x
  <2>8. CASE p = Absent
    <3>1. p.cell = -1 /\ ~p.seen
      BY <2>8 DEF Absent
    <3> QED BY <2>6, <3>1 DEF p, x
  <2>9. CASE p # Absent
    <3>1. p.cell = x /\ InGrid(x, centerGrid[c]) = p.seen /\ p \in [cell : GridCells, seen : BOOLEAN]
      BY <2>3, <2>5, <2>7, <2>9
    <3>2. CASE InGrid(x, centerGrid[c])
      <4>1. p = [cell |-> x, seen |-> TRUE]
        BY <3>1, <3>2
      <4> QED BY <3>2, <4>1 DEF p, x
    <3>3. CASE ~InGrid(x, centerGrid[c])
      BY <3>1, <3>3 DEF p, x
    <3> QED BY <3>2, <3>3
  <2> QED BY <2>8, <2>9
<1> QED BY <1>1, OutdoorsInvariant, PTL

---------------------------------------------------------------------------
(* The world: MCWorld *)

Parts == {"calendar", "objects", "weather", "quests", "snapshots", "outdoors", "vitals", "plugins"}

(* A behaviour of the world is one of each of its parts, but for weather and   *)
(* quests, which share a party: it is one of that of the two that is alive.    *)
THEOREM WorldIsItsParts ==
    Spec => /\ CalendarSpec /\ ObjectsSpec /\ SnapshotSpec /\ OutdoorsSpec
            /\ VitalsSpec /\ LoadOrderSpec
            /\ part = "weather" => WeatherSpec
            /\ part = "quests" => QuestSpec
<1>1. Init => /\ CalendarInit /\ ObjectsInit /\ SnapshotInit /\ OutdoorsInit
              /\ VitalsInit /\ LoadOrderInit /\ WeatherInit /\ QuestInit
  BY DEF Init
<1>2. [Next]_vars => [CalendarNext]_calendarVars
  BY DEF Next, vars
<1>3. [Next]_vars => [ObjectsNext]_objectsVars
  BY DEF Next, vars
<1>4. [Next]_vars => [SnapshotNext]_snapshotVars
  BY DEF Next, vars
<1>5. [Next]_vars => [OutdoorsNext]_outdoorsVars
  BY DEF Next, vars
<1>6. [Next]_vars => [VitalsNext]_vitalsVars
  BY DEF Next, vars
<1>7. [Next]_vars => [LoadOrderNext]_loadOrderVars
  BY DEF Next, vars
<1>8. [Next]_vars => part' = part
  BY DEF Next, vars
<1>9. part = "weather" /\ [Next]_vars => [WeatherNext]_weatherVars
  BY DEF Next, vars
<1>10. part = "quests" /\ [Next]_vars => [QuestNext]_questVars
  BY DEF Next, vars
<1> DEFINE InWeather == part = "weather"
           InQuests == part = "quests"
<1>11. InWeather /\ [Next]_vars => InWeather'
  BY <1>8
<1>12. InQuests /\ [Next]_vars => InQuests'
  BY <1>8
<1>13. /\ InWeather /\ [Next]_vars => [WeatherNext]_weatherVars
       /\ InQuests /\ [Next]_vars => [QuestNext]_questVars
  BY <1>9, <1>10
<1>14. Spec => /\ InWeather => WeatherSpec
               /\ InQuests => QuestSpec
  <2> HIDE DEF InWeather, InQuests
  <2> QED BY <1>1, <1>11, <1>12, <1>13, PTL DEF Spec, WeatherSpec, QuestSpec
<1>15. Spec => /\ CalendarSpec /\ ObjectsSpec /\ SnapshotSpec /\ OutdoorsSpec
               /\ VitalsSpec /\ LoadOrderSpec
  BY <1>1, <1>2, <1>3, <1>4, <1>5, <1>6, <1>7, PTL
     DEF Spec, CalendarSpec, ObjectsSpec, SnapshotSpec, OutdoorsSpec, VitalsSpec, LoadOrderSpec
<1> QED BY <1>14, <1>15

(* Whichever part is alive has only values of its types.                       *)
THEOREM WorldTypesHold == Spec => []WorldTypeOK
<1> DEFINE Alive == part \in Parts
           InWeather == part = "weather"
           InQuests == part = "quests"
<1>1. Init => Alive
  BY DEF Init, Parts
<1>2. /\ Alive /\ [Next]_vars => Alive'
      /\ InWeather /\ [Next]_vars => InWeather'
      /\ ~InWeather /\ [Next]_vars => ~InWeather'
      /\ InQuests /\ [Next]_vars => InQuests'
      /\ ~InQuests /\ [Next]_vars => ~InQuests'
  <2>1. [Next]_vars => part' = part
    BY DEF Next, vars
  <2>2. Parts' = Parts
    BY DEF Parts
  <2> QED BY <2>1, <2>2
<1>3. Spec => /\ []CalendarTypeOK /\ []ObjectsTypeOK /\ []SnapshotTypeOK /\ []OutdoorsTypeOK
              /\ []VitalsTypeOK /\ []LoadOrderTypeOK
  BY WorldIsItsParts, CalendarTypes, ObjectTypesHold, SnapshotTypesHold, OutdoorTypesHold,
     VitalsTypesHold, LoadOrderTypes
<1>4. Spec => /\ InWeather => []WeatherTypeOK
              /\ InQuests => []QuestTypeOK
  BY WorldIsItsParts, WeatherTypesHold, QuestTypesHold
<1>5. ASSUME Alive, CalendarTypeOK, ObjectsTypeOK, SnapshotTypeOK, OutdoorsTypeOK,
             VitalsTypeOK, LoadOrderTypeOK, InWeather => WeatherTypeOK, InQuests => QuestTypeOK
      PROVE  WorldTypeOK
  BY <1>5 DEF Parts, WorldTypeOK
<1> HIDE DEF Alive, InWeather, InQuests
<1>6. Spec => []Alive
  BY <1>1, <1>2, PTL DEF Spec
<1>7. Spec => [](InWeather => WeatherTypeOK) /\ [](InQuests => QuestTypeOK)
  BY <1>2, <1>4, PTL DEF Spec
<1> QED BY <1>3, <1>5, <1>6, <1>7, PTL
=============================================================================
