------------------------------- MODULE Vitals -------------------------------
(* The health and the death of one actor that is not a player: ActorValue-    *)
(* Service of the server and of the clients. Its owner simulates it, but a    *)
(* player's own game applies the blows of that player at once. Health goes    *)
(* about as differences, from whom it changed for to everybody else in range; *)
(* besides, the owner reports the value it has to the record of the server,   *)
(* which a client that comes into range is given. The engine kills the actor  *)
(* in the game where a blow takes its last health.                            *)
EXTENDS Peers

CONSTANTS
    Full,               \* its health when it is spawned or resurrected
    Blows,              \* how much a blow takes
    MaxBlows,           \* bound on the blows, cures and resurrections
    MaxCalls,           \* bound on the messages from a client
    MaxNotices          \* bound on the messages to a client

ASSUME VitalsAssumption == Full \in Nat \ {0} /\ Blows \subseteq Nat \ {0}

VARIABLES
    owner,              \* the client that owns the actor, or "none" so far
    health, dead,       \* per client: of the actor in its game
    small,              \* m_smallHealthChanges of each client
    told,               \* what the owner reported last: health and death
    record,             \* ActorValuesComponent and CharacterComponent: the same
    near,               \* the clients in range of the actor
    calls,              \* messages from each client
    notices,            \* messages to each client
    blows,              \* blows, cures and resurrections so far
    tally,              \* history: health by the changes the server handled
    amiss,              \* history: clients that were given a record behind the tally
                        \* or were in range when changes crossed a cure or a death
    overtaken           \* history: the owner reported a value ahead of a change that
                        \* is in it, or is back at the value it reported by others

vitalsVars == <<owner, health, dead, small, told, record, near, calls, notices, blows,
                tally, amiss, overtaken>>

VitalsInit ==
    /\ owner = "none"
    /\ health = [c \in Clients |-> Full]
    /\ dead = [c \in Clients |-> FALSE]
    /\ small = [c \in Clients |-> 0]
    /\ told = [health |-> Full, dead |-> FALSE]
    /\ record = told
    /\ near = {}
    /\ calls = [c \in Clients |-> <<>>]
    /\ notices = [c \in Clients |-> <<>>]
    /\ blows = 0
    /\ tally = Full
    /\ amiss = {}
    /\ overtaken = FALSE

Change(d) == [type |-> "delta", health |-> d]
Loss(d) == d < 0

\* Changes of health on their way from somebody to others
Travelling ==
    {small[c] : c \in {d \in Clients : small[d] # 0}} \cup
    UNION {{m.health : m \in {n \in ToSet(calls[c]) \cup ToSet(notices[c]) : n.type = "delta"}}
             : c \in Clients}

DeathUntold ==
    \/ near # {} /\ dead[owner] # told.dead
    \/ \E c \in Clients : \E m \in ToSet(calls[c]) \cup ToSet(notices[c]) : m.type = "dead"

---------------------------------------------------------------------------
(* The client *)

\* OnHealthChange: a change of less than one waits for RunSmallHealthUpdates
Send(c, d) ==
    IF d = -1
    THEN small' = [small EXCEPT ![c] = @ + d] /\ UNCHANGED calls
    ELSE calls' = [calls EXCEPT ![c] = Append(@, Change(d))] /\ UNCHANGED small

Alter(c, d) ==
    /\ health' = [health EXCEPT ![c] = @ + d]
    /\ dead' = [dead EXCEPT ![c] = @ \/ health[c] + d <= 0]

\* The actor is back at the health its owner reported last, without a report
Returns ==
    overtaken' = (overtaken \/ (health[owner] # told.health /\ health'[owner] = told.health))

\* What happens to the actor in the game of c: a blow by the player of c, or,
\* for its owner, any blow, a cure or a resurrection
Befalls(c) ==
    /\ c \in near /\ \A m \in ToSet(notices[c]) : m.type # "spawn"
    /\ blows < MaxBlows /\ Len(calls[c]) < MaxCalls
    /\ blows' = blows + 1

Blow(c, n) ==
    /\ Befalls(c)
    /\ Alter(c, -n) /\ Send(c, -n)
    /\ amiss' = IF DeathUntold \/ (\E d \in Travelling : ~Loss(d)) THEN Clients ELSE amiss
    /\ UNCHANGED <<owner, told, record, near, notices, tally>>
    /\ Returns

Cure(n) ==
    /\ Befalls(owner) /\ ~dead[owner] /\ health[owner] + n <= Full
    /\ Alter(owner, n)
    /\ calls' = [calls EXCEPT ![owner] = Append(@, Change(n))]
    /\ amiss' = IF DeathUntold \/ (\E d \in Travelling : Loss(d)) THEN Clients ELSE amiss
    /\ UNCHANGED <<owner, small, told, record, near, notices, tally>>
    /\ Returns

Resurrect ==
    /\ Befalls(owner) /\ dead[owner]
    /\ health' = [health EXCEPT ![owner] = Full]
    /\ dead' = [dead EXCEPT ![owner] = FALSE]
    /\ amiss' = IF Travelling # {} \/ DeathUntold THEN Clients ELSE amiss
    /\ Returns
    /\ UNCHANGED <<owner, small, told, record, near, calls, notices, tally>>

RunSmallHealthUpdates(c) ==
    /\ small[c] # 0 /\ Len(calls[c]) < MaxCalls
    /\ calls' = [calls EXCEPT ![c] = Append(@, Change(small[c]))]
    /\ small' = [small EXCEPT ![c] = 0]
    /\ UNCHANGED <<owner, health, dead, told, record, near, notices, blows, tally, amiss, overtaken>>

Report(m) == calls' = [calls EXCEPT ![owner] = Append(@, m)]

\* RunDeathStateUpdates
TellDeath ==
    /\ near # {} /\ dead[owner] # told.dead /\ Len(calls[owner]) < MaxCalls
    /\ told' = [told EXCEPT !.dead = dead[owner]]
    /\ Report([type |-> "dead", dead |-> dead[owner]])
    /\ UNCHANGED <<owner, health, dead, small, record, near, notices, blows, tally, amiss,
                   overtaken>>

\* BroadcastActorValues
TellHealth ==
    /\ near # {} /\ health[owner] # told.health /\ Len(calls[owner]) < MaxCalls
    /\ told' = [told EXCEPT !.health = health[owner]]
    /\ Report([type |-> "value", health |-> health[owner]])
    /\ overtaken' = (overtaken \/ small[owner] # 0)
    /\ UNCHANGED <<owner, health, dead, small, record, near, notices, blows, tally, amiss>>

\* OnHealthChangeBroadcast, OnDeathStateChange and OnCharacterSpawn of the
\* client; OnActorValueChanges passes over health
Notices(c) ==
    /\ notices[c] # <<>>
    /\ notices' = Read(notices, c)
    /\ LET m == Head(notices[c]) IN
       CASE m.type = "delta" -> Alter(c, m.health)
         [] m.type = "spawn" -> /\ health' = [health EXCEPT ![c] = m.health]
                                /\ dead' = [dead EXCEPT ![c] = m.dead]
         [] m.type = "dead" ->
              /\ dead' = [dead EXCEPT ![c] = m.dead]
              /\ health' = [health EXCEPT ![c] = IF dead[c] /\ ~m.dead THEN Full ELSE @]
         [] OTHER -> UNCHANGED <<health, dead>>
    /\ UNCHANGED <<owner, small, told, record, near, calls, blows, tally, amiss>>
    /\ Returns

---------------------------------------------------------------------------
(* The server *)

\* Variant: a change goes back to the client it is from
ServesAll(c, type) ==
    /\ calls[c] # <<>>
    /\ Head(calls[c]).type = type
    /\ \A d \in Clients : Len(notices[d]) < MaxNotices
    /\ calls' = Read(calls, c)
    /\ notices' = Posted(notices, near, Head(calls[c]))
    /\ UNCHANGED <<owner, health, dead, small, told, near, blows, amiss, overtaken>>

Serves(c, type) ==
    /\ calls[c] # <<>>
    /\ Head(calls[c]).type = type
    /\ \A d \in Clients : Len(notices[d]) < MaxNotices
    /\ calls' = Read(calls, c)
    /\ notices' = Posted(notices, near \ {c}, Head(calls[c]))
    /\ UNCHANGED <<owner, health, dead, small, told, near, blows, amiss, overtaken>>

\* The first client to report the actor owns it (OnAssignCharacterRequest)
Assigned(c) ==
    /\ near = {}
    /\ owner' = c
    /\ near' = {c}
    /\ UNCHANGED <<health, dead, small, told, record, calls, notices, blows, tally, amiss,
                   overtaken>>

\* The difference is taken from the record, although a loss is a negative one
OnHealthChangeBroadcast(c) ==
    /\ Serves(c, "delta")
    /\ record' = [record EXCEPT !.health = @ - Head(calls[c]).health]
    /\ tally' = tally + Head(calls[c]).health

\* Variant: the server, too, passes over health
OnActorValueChangesButHealth(c) == Serves(c, "value") /\ UNCHANGED <<record, tally>>

OnActorValueChanges(c) ==
    /\ Serves(c, "value")
    /\ record' = [record EXCEPT !.health = Head(calls[c]).health]
    /\ UNCHANGED tally

OnDeathStateChange(c) ==
    /\ Serves(c, "dead")
    /\ record' = [record EXCEPT !.dead = Head(calls[c]).dead]
    /\ tally' = IF Head(calls[c]).dead THEN tally ELSE Full

\* A client comes into range and is told to spawn the actor
Approaches(c) ==
    /\ near # {} /\ c \notin near
    /\ \A d \in Clients : Len(notices[d]) < MaxNotices
    /\ near' = near \cup {c}
    /\ notices' = Posted(notices, {c},
                         [type |-> "spawn", health |-> record.health, dead |-> record.dead])
    /\ amiss' = IF record.health # tally \/ record.dead # (tally <= 0) \/ DeathUntold
                THEN amiss \cup {c} ELSE amiss
    /\ UNCHANGED <<owner, health, dead, small, told, record, calls, blows, tally, overtaken>>

VitalsNext ==
    \/ Resurrect \/ TellDeath \/ TellHealth
    \/ \E n \in Blows : Cure(n)
    \/ \E c \in Clients :
          \/ \E n \in Blows : Blow(c, n)
          \/ RunSmallHealthUpdates(c) \/ Notices(c) \/ Assigned(c) \/ Approaches(c)
          \/ OnHealthChangeBroadcast(c) \/ OnActorValueChanges(c) \/ OnDeathStateChange(c)

VitalsSpec == VitalsInit /\ [][VitalsNext]_vitalsVars

---------------------------------------------------------------------------
(* Properties *)

VitalsTypeOK ==
    /\ health \in [Clients -> Int] /\ dead \in [Clients -> BOOLEAN]
    /\ near \subseteq Clients /\ (near = {} \/ owner \in near)
    /\ {told, record} \subseteq [health : Int, dead : BOOLEAN]

\* All is reported and read
Told ==
    /\ near # {}
    /\ \A c \in Clients : calls[c] = <<>> /\ notices[c] = <<>> /\ small[c] = 0
    /\ told = [health |-> health[owner], dead |-> dead[owner]]

(* When all is reported and read, the actor is alive in the games of all      *)
(* clients in range or dead in all of them, and has the same health in all    *)
(* while it is alive, in whatever order the blows reached them. Clients that  *)
(* were given a record the owner had not set right yet, and all if a blow was *)
(* under way while the actor was cured, resurrected or found dead, are         *)
(* excepted: a copy that the engine has killed stays dead.                    *)
CopiesAgree ==
    \A c \in near \ amiss :
        Told => /\ dead[c] = dead[owner]
                /\ ~dead[c] => health[c] = health[owner]

(* When all is reported and read, the server's record is what the owner has,  *)
(* however wrong the differences made it in between; unless the owner's       *)
(* report overtook a small change that was waiting, or the actor came back to *)
(* the health reported last between two reports.                              *)
RecordRecovers ==
    Told /\ ~overtaken => record = [health |-> health[owner], dead |-> dead[owner]]
=============================================================================
