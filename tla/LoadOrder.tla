------------------------------ MODULE LoadOrder ------------------------------
(* How a form is named across machines: each game numbers its plugins by its   *)
(* own load order, the server gives each plugin it hears of a number of its    *)
(* own when a client is admitted (HandleAuthenticationRequest, ModsComponent), *)
(* and ModSystem of the client translates. Light plugins (ESL) have numbers of *)
(* a kind of their own, in the game and on the server. The part of a form id   *)
(* below the plugin is passed on as it is and left out.                        *)
EXTENDS Peers

CONSTANTS
    Files,              \* names of plugins
    ServerFiles,        \* the plugins the server has itself
    LastSlot,           \* the last index of a plugin in a load order
    IdLimit,            \* a plugin's number is sent modulo this (2^16)
    MaxPlayers,         \* uMaxPlayerCount
    MaxAdmissions       \* bound on the connections

ASSUME LoadOrderAssumption ==
    IsFiniteSet(Files) /\ IdLimit \in Nat \ {0} /\ MaxPlayers \in Nat

VARIABLES
    plugins,            \* per client: its load order, a function from slots
    ids,                \* m_standardMods and m_liteMods: the number per plugin
    seed,               \* m_seed
    mopo,               \* the setting bEnableModCheck
    hello,              \* clients whose request is under way
    answers,            \* per client: the answer under way, or <<>>
    players,            \* clients that are players on the server
    tables,             \* per client: m_standardToServer and m_liteToServer, and
                        \* m_serverToGame
    admissions          \* connections so far

loadOrderVars == <<plugins, ids, seed, mopo, hello, answers, players, tables, admissions>>

(* A slot is the place of a plugin in a game: the high byte of its form ids,   *)
(* or the twelve bits after 0xFE for a light one; a plugin as the server sees  *)
(* it is its name and whether it is light.                                     *)
Slots == [lite : BOOLEAN, index : 0..LastSlot]
Plugins == [lite : BOOLEAN, file : Files]

NoSlot == [lite |-> FALSE, index |-> -1]        \* form id 0
Temporary == [lite |-> FALSE, index |-> -2]     \* high byte 0xFF
TemporaryId == -1                               \* the largest uint32_t
Nowhere == -2                                   \* GetServerModId fails

\* What is loaded once, as what it is flagged in that game
LoadOrders ==
    {order \in UNION {[s -> Files] : s \in SUBSET Slots} : IsInjective(order)}

PluginAt(order, s) == [lite |-> s.lite, file |-> order[s]]
PluginsOf(order) == {PluginAt(order, s) : s \in DOMAIN order}

LoadOrderInit ==
    /\ plugins \in [Clients -> LoadOrders]
    /\ ids = <<>>
    /\ seed = 0
    /\ mopo \in BOOLEAN
    /\ hello = {}
    /\ answers = [c \in Clients |-> <<>>]
    /\ players = {}
    /\ tables = [c \in Clients |-> [toServer |-> <<>>, toGame |-> <<>>]]
    /\ admissions = 0

---------------------------------------------------------------------------
(* The server *)

\* AddStandard and AddLite over the list of the client, whose order is open:
\* what is new gets the next numbers
Registrations(new) ==
    {f \in [new -> seed .. seed + Cardinality(new) - 1] : IsInjective(f)}

Numbering(f) == [p \in DOMAIN ids \cup DOMAIN f |-> IF p \in DOMAIN ids THEN ids[p] ELSE f[p]]

\* The policy compares names, in both directions
Mismatch(order) == Range(order) # ServerFiles

\* HandleAuthenticationRequest. The version, the extenders and the password
\* may be wrong; a script may cancel what has been admitted, and the numbers
\* stay
HandleAuthenticationRequest(c) ==
    /\ c \in hello
    /\ hello' = hello \ {c}
    /\ \/ /\ Cardinality(players) < MaxPlayers
          /\ mopo => ~Mismatch(plugins[c])
          /\ LET new == PluginsOf(plugins[c]) \ DOMAIN ids IN
             /\ \E f \in Registrations(new) : ids' = Numbering(f)
             /\ seed' = seed + Cardinality(new)
          /\ \/ /\ players' = players \cup {c}
                /\ answers' = [answers EXCEPT ![c] =
                      <<[p \in PluginsOf(plugins[c]) |-> ids'[p] % IdLimit]>>]
             \/ UNCHANGED <<players, answers>>
       \/ UNCHANGED <<ids, seed, players, answers>>
    /\ UNCHANGED <<plugins, mopo, tables, admissions>>

OnPlayerGone(c) ==
    /\ c \in players \cup hello
    /\ players' = players \ {c}
    /\ hello' = hello \ {c}
    /\ answers' = [answers EXCEPT ![c] = <<>>]
    /\ UNCHANGED <<plugins, ids, seed, mopo, tables, admissions>>

\* The server process is started anew
Restart ==
    /\ ids' = <<>>
    /\ seed' = 0
    /\ mopo' \in BOOLEAN
    /\ hello' = {}
    /\ players' = {}
    /\ answers' = [c \in Clients |-> <<>>]
    /\ UNCHANGED <<plugins, tables, admissions>>

---------------------------------------------------------------------------
(* The client *)

OnConnected(c) ==
    /\ c \notin players \cup hello
    /\ admissions < MaxAdmissions
    /\ admissions' = admissions + 1
    /\ hello' = hello \cup {c}
    /\ UNCHANGED <<plugins, ids, seed, mopo, answers, players, tables>>

\* Variant: m_serverToGame is not cleared, and emplace keeps what is in it
HandleModsKeeping(c) ==
    /\ answers[c] # <<>>
    /\ answers' = [answers EXCEPT ![c] = <<>>]
    /\ LET order == plugins[c]
           told == Head(answers[c])
           number == [s \in DOMAIN order |-> told[PluginAt(order, s)]]
       IN \E first \in {g \in [Range(number) -> DOMAIN order] :
                          \A n \in Range(number) : number[g[n]] = n} :
             tables' = [tables EXCEPT ![c] = [toServer |-> number, toGame |-> @.toGame @@ first]]
    /\ UNCHANGED <<plugins, ids, seed, mopo, hello, players, admissions>>

\* HandleMods: the tables of an earlier connection go, and of several plugins
\* with one number the first in the list is kept
HandleMods(c) ==
    /\ answers[c] # <<>>
    /\ answers' = [answers EXCEPT ![c] = <<>>]
    /\ LET order == plugins[c]
           told == Head(answers[c])
           number == [s \in DOMAIN order |-> told[PluginAt(order, s)]]
       IN \E first \in {g \in [Range(number) -> DOMAIN order] :
                          \A n \in Range(number) : number[g[n]] = n} :
             tables' = [tables EXCEPT ![c] = [toServer |-> number, toGame |-> first]]
    /\ UNCHANGED <<plugins, ids, seed, mopo, hello, players, admissions>>

\* Another load order, in a game that is not connected and starts anew; one that
\* has no tables yet may have had it from the start
Reinstall(c, order) ==
    /\ c \notin players \cup hello
    /\ tables[c].toGame # <<>>
    /\ admissions < MaxAdmissions
    /\ plugins' = [plugins EXCEPT ![c] = order]
    /\ tables' = [tables EXCEPT ![c] = [toServer |-> <<>>, toGame |-> <<>>]]
    /\ admissions' = admissions + 1
    /\ UNCHANGED <<ids, seed, mopo, hello, answers, players>>

LoadOrderNext ==
    \/ Restart
    \/ \E c \in Clients :
          \/ HandleAuthenticationRequest(c) \/ OnPlayerGone(c)
          \/ OnConnected(c) \/ HandleMods(c)
          \/ \E order \in LoadOrders : Reinstall(c, order)

LoadOrderSpec == LoadOrderInit /\ [][LoadOrderNext]_loadOrderVars

---------------------------------------------------------------------------
(* Translation *)

\* An index of the array of standard plugins that was never set holds 0
GetServerModId(c, s) ==
    IF s = Temporary THEN TemporaryId
    ELSE IF s \in DOMAIN tables[c].toServer THEN tables[c].toServer[s]
    ELSE IF s.lite THEN Nowhere ELSE 0

GetGameId(c, id) ==
    IF id \in DOMAIN tables[c].toGame THEN tables[c].toGame[id] ELSE NoSlot

---------------------------------------------------------------------------
(* Properties *)

LoadOrderTypeOK ==
    /\ plugins \in [Clients -> LoadOrders]
    /\ DOMAIN ids \subseteq Plugins
    /\ \A p \in DOMAIN ids : ids[p] \in 0 .. seed - 1
    /\ seed \in Nat /\ mopo \in BOOLEAN
    /\ hello \subseteq Clients /\ players \subseteq Clients \ hello

\* A player whose game has read the answer
Ready(c) == c \in players /\ answers[c] = <<>>

\* As many plugins as there can be have numbers that are sent whole
FewPlugins == Cardinality(Plugins) <= IdLimit

\* Where the game of d has the plugin that is at s in the game of c
Counterpart(c, s, d) ==
    IF \E t \in DOMAIN plugins[d] : PluginAt(plugins[d], t) = PluginAt(plugins[c], s)
    THEN CHOOSE t \in DOMAIN plugins[d] : PluginAt(plugins[d], t) = PluginAt(plugins[c], s)
    ELSE NoSlot

(* What the game of one player calls a form is translated to what the game of *)
(* another calls it, or to form id 0 if that game lacks the plugin, whatever   *)
(* the two load orders are, whoever was admitted, turned away or cancelled     *)
(* before, and with whatever tables of earlier connections; a temporary form   *)
(* of one game never names a form in another.                                  *)
FormsTranslate ==
    FewPlugins =>
       \A c, d \in Clients :
          Ready(c) /\ Ready(d) =>
             /\ \A s \in DOMAIN plugins[c] :
                   GetGameId(d, GetServerModId(c, s)) = Counterpart(c, s, d)
             /\ GetGameId(d, GetServerModId(c, Temporary)) = NoSlot
=============================================================================
