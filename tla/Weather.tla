------------------------------- MODULE Weather -------------------------------
(* The weather of a party: WeatherService of the server, which keeps what a  *)
(* leader last reported, and of the client, which imposes it on the game of  *)
(* the followers. The game engine changes the sky of a client whenever it    *)
(* likes; the services only look at it once in a frame.                      *)
EXTENDS Companions

CONSTANTS
    Weathers,           \* weathers of the game
    MapWeather,         \* the weather that an open map shows
    NoWeather,          \* form id 0, and a sky without weather
    Places,             \* where the players are
    MaxTurns            \* bound on the changes of a sky by the engine

ASSUME WeatherAssumption ==
    /\ IsFiniteSet(Clients) /\ {"none", "leader"} \cap Clients = {}
    /\ {MapWeather, NoWeather} \cap Weathers = {}

VARIABLES
    cachedWeather,      \* Party::CachedWeather
    place,              \* where each player is
    sky,                \* the weather each game shows
    cachedWeatherId,    \* m_cachedWeatherId of each client
    inView,             \* the players whose characters each game has
    turns,              \* changes of a sky so far
    unasked,            \* history: clients that were told of a change of the leader
                        \* and neither asked nor told of the weather since
    overruled           \* history: a player who did not lead any more set the
                        \* weather of the party, or a leader had one imposed

weatherVars == <<companionVars, cachedWeather, place, sky, cachedWeatherId,
                 inView, turns, unasked, overruled>>

WeatherInit ==
    /\ CompanionsInit
    /\ cachedWeather = NoWeather
    /\ place \in [Clients -> Places]
    /\ sky \in [Clients -> Weathers]
    /\ cachedWeatherId = [c \in Clients |-> NoWeather]
    /\ inView = [c \in Clients |-> {d \in Clients \ {c} : place[d] = place[c]}]
    /\ turns = 0
    /\ unasked = {}
    /\ overruled = FALSE

---------------------------------------------------------------------------
(* The server *)

\* Variant: the weather is passed on and not cached
OnWeatherChangeUncached(c) ==
    /\ Handles(c, "change")
    /\ LET change == [type |-> "weather", id |-> Head(queries[c]).id] IN
       news' = IF c \notin members THEN news
               ELSE Posted(news, {d \in members \ {c} : place[d] = place[c]}, change)
    /\ UNCHANGED <<cachedWeather, place, sky, cachedWeatherId, inView, turns, unasked, overruled>>

\* OnWeatherChange, from whoever is in the party
OnWeatherChange(c) ==
    /\ Handles(c, "change")
    /\ LET change == [type |-> "weather", id |-> Head(queries[c]).id] IN
       IF c \notin members THEN UNCHANGED <<cachedWeather, news>>
       ELSE /\ cachedWeather' = change.id
            /\ news' = Posted(news, {d \in members \ {c} : place[d] = place[c]}, change)
    /\ overruled' = (overruled \/ c \in Followers)
    /\ UNCHANGED <<place, sky, cachedWeatherId, inView, turns, unasked>>

OnRequestCurrentWeather(c) ==
    /\ Handles(c, "ask")
    /\ news' = IF c \in members
               THEN Posted(news, {c}, [type |-> "weather", id |-> cachedWeather])
               ELSE news
    /\ UNCHANGED <<cachedWeather, place, sky, cachedWeatherId, inView, turns, unasked, overruled>>

PartyStep(c) ==
    /\ PartyChanges(c)
    /\ cachedWeather' = IF members' = {} THEN NoWeather ELSE cachedWeather
    /\ UNCHANGED <<place, sky, cachedWeatherId, inView, turns, unasked, overruled>>

\* A player goes to another place, where others get to see its character and
\* it theirs (OnCharacterInteriorCellChange)
Travels(c, p) ==
    /\ place[c] # p /\ RoomForNews
    /\ place' = [place EXCEPT ![c] = p]
    /\ LET left == {d \in Clients \ {c} : place[d] = place[c]}
           met == {d \in Clients \ {c} : place[d] = p}
           about(type, d) == [type |-> type, who |-> d]
       IN news' = [d \in Clients |->
             IF d = c
             THEN news[c] \o SetToSeq({about("vanish", e) : e \in left})
                          \o SetToSeq({about("appear", e) : e \in met})
             ELSE news[d] \o (IF d \in met THEN <<about("appear", c)>>
                              ELSE IF d \in left THEN <<about("vanish", c)>> ELSE <<>>)]
    /\ UNCHANGED <<members, leader, role, queries, cachedWeather, sky,
                   cachedWeatherId, inView, turns, unasked, overruled>>

---------------------------------------------------------------------------
(* The client *)

\* The engine changes the sky
SkyTurns(c, w) ==
    /\ turns < MaxTurns /\ sky[c] # w
    /\ sky' = [sky EXCEPT ![c] = w]
    /\ turns' = turns + 1
    /\ UNCHANGED <<companionVars, cachedWeather, place, cachedWeatherId, inView, unasked, overruled>>

SetCachedWeather(c) ==
    sky' = IF cachedWeatherId[c] = NoWeather THEN sky
           ELSE [sky EXCEPT ![c] = cachedWeatherId[c]]

\* RunWeatherUpdates, when there is something to do
RunWeatherUpdates(c) ==
    /\ sky[c] \notin {cachedWeatherId[c], MapWeather}
    /\ Len(queries[c]) < MaxQueries
    /\ IF role[c] = "leader"
       THEN /\ cachedWeatherId' = [cachedWeatherId EXCEPT ![c] = sky[c]]
            /\ Asks(c, IF sky[c] = NoWeather THEN <<>> ELSE <<[type |-> "change", id |-> sky[c]]>>)
            /\ unasked' = unasked \ {c}
            /\ UNCHANGED sky
       ELSE SetCachedWeather(c) /\ UNCHANGED <<cachedWeatherId, queries, unasked>>
    /\ UNCHANGED <<members, leader, role, news, cachedWeather, place, inView, turns, overruled>>

\* ToggleGameWeatherSystem(false) and (true)
Follow(c) ==
    /\ Asks(c, <<[type |-> "ask"]>>)
    /\ cachedWeatherId' = [cachedWeatherId EXCEPT ![c] = NoWeather]
    /\ UNCHANGED sky

Release(c) ==
    /\ cachedWeatherId' = [cachedWeatherId EXCEPT ![c] = NoWeather]
    /\ UNCHANGED <<queries, sky>>

Stay == UNCHANGED <<queries, cachedWeatherId, sky>>

\* OnPartyJoinedEvent
Joined(c) ==
    IF role'[c] = "leader"
    THEN /\ cachedWeatherId' = [cachedWeatherId EXCEPT ![c] = sky[c]]
         /\ Asks(c, IF sky[c] \in {NoWeather, MapWeather} THEN <<>>
                    ELSE <<[type |-> "change", id |-> sky[c]]>>)
         /\ UNCHANGED sky
    ELSE IF role'[c] \in inView[c] THEN Follow(c) ELSE Stay

\* OnWeatherChange of the client
Imposed(c, w) ==
    IF w = NoWeather THEN Stay
    ELSE /\ sky' = [sky EXCEPT ![c] = w]
         /\ cachedWeatherId' = [cachedWeatherId EXCEPT ![c] = w]
         /\ UNCHANGED queries

Hears(c) ==
    /\ Reads(c)
    /\ Len(queries[c]) < MaxQueries
    /\ LET m == Head(news[c]) IN
       /\ CASE m.type = "joined" -> Joined(c)
            [] m.type = "left" -> Release(c)
            [] m.type = "weather" -> Imposed(c, m.id)
            [] m.type = "appear" /\ m.who = role[c] -> Follow(c)
            [] m.type = "vanish" /\ m.who = role[c] -> Release(c)
            [] OTHER -> Stay
       /\ inView' = [inView EXCEPT ![c] =
             CASE m.type = "appear" -> @ \cup {m.who}
               [] m.type = "vanish" -> @ \ {m.who}
               [] OTHER -> @]
       /\ unasked' = IF m.type = "info" /\ role'[c] # role[c] THEN unasked \cup {c}
                     ELSE IF m.type = "joined" \/ (m.type = "appear" /\ m.who = role[c])
                     THEN unasked \ {c} ELSE unasked
       /\ overruled' = (overruled \/ (m.type = "weather" /\ role[c] = "leader"))
    /\ UNCHANGED <<cachedWeather, place, turns>>

WeatherNext ==
    \E c \in Clients :
       \/ PartyStep(c) \/ OnWeatherChange(c) \/ OnRequestCurrentWeather(c)
       \/ RunWeatherUpdates(c) \/ Hears(c)
       \/ \E p \in Places : Travels(c, p)
       \/ \E w \in Weathers \cup {MapWeather, NoWeather} : SkyTurns(c, w)

WeatherSpec == WeatherInit /\ [][WeatherNext]_weatherVars

---------------------------------------------------------------------------
(* Properties *)

WeatherTypeOK ==
    /\ members \subseteq Clients
    /\ role \in [Clients -> Clients \cup {"none", "leader"}]
    /\ cachedWeather \in Weathers \cup {MapWeather, NoWeather}
    /\ sky \in [Clients -> Weathers \cup {MapWeather, NoWeather}]
    /\ cachedWeatherId \in [Clients -> Weathers \cup {MapWeather, NoWeather}]
    /\ \A c \in Clients : inView[c] \subseteq Clients \ {c}

(* Everything is read, and every client has had a frame *)
Settled ==
    /\ AllRead
    /\ \A c \in Clients : sky[c] = cachedWeatherId[c]
          \/ (role[c] # "leader" /\ cachedWeatherId[c] = NoWeather)

(* A follower next to the leader ends up with the weather of the leader,     *)
(* whatever the engine does to the skies and however joining, travelling and *)
(* changes of the weather cross.                                             *)
WeatherAgrees ==
    \A f \in Followers :
        /\ Settled /\ place[f] = place[leader] /\ ~overruled
        /\ {f, leader} \cap unasked = {}
        /\ {sky[f], sky[leader]} \subseteq Weathers
        => sky[f] = sky[leader]
=============================================================================
