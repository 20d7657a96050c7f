------------------------------- MODULE Quests -------------------------------
(* The quests of a party: QuestService of the server, which keeps a log per   *)
(* player and relays what a client tells, and of the client, which tells what *)
(* the game of a leader does and repeats on the own game what it is told. The *)
(* engine moves quests on in any game. The stage a log keeps is never read by *)
(* the server, so a log is how many entries it has for a quest.               *)
EXTENDS Companions

CONSTANTS
    Story,              \* the quests
    LastStage,          \* stages are 0 (just started) to LastStage
    MaxDeeds            \* bound on what the engine does to quests

ASSUME QuestsAssumption == LastStage \in Nat

VARIABLES
    entries,            \* per player and quest: entries in QuestLogComponent
    done,               \* per client and quest: the stages its game has done
    running,            \* per client and quest: it runs in the game
    deeds,              \* what the engine has done so far
    apart,              \* history: <<c, q>> such that the game of c went its own
                        \* way in q, or c was not told of a step of q
    tellers             \* history: per quest, the players that told of it

questVars == <<companionVars, entries, done, running, deeds, apart, tellers>>

Stages == 0..LastStage

\* Every game is at the same point; a log may lack a quest that is running, and
\* may have it twice: std::unique only drops neighbours (ProcessNewEntity)
QuestInit ==
    /\ CompanionsInit
    /\ \E on \in [Story -> BOOLEAN] :
          /\ running = [c \in Clients |-> on]
          /\ done = [c \in Clients |-> [q \in Story |-> IF on[q] THEN {0} ELSE {}]]
          /\ entries \in {log \in [Clients -> [Story -> 0..2]] :
                            \A c \in Clients, q \in Story : on[q] \/ log[c][q] = 0}
    /\ deeds = 0
    /\ apart = {}
    /\ tellers = [q \in Story |-> {}]

---------------------------------------------------------------------------
(* The server *)

\* The status of the notice: nothing sets it for a stage of a quest that the
\* log lacks, and what is sent then is whatever the memory holds
StatusSent(c, m) ==
    IF m.status = "stopped" THEN {"stopped"}
    ELSE IF entries[c][m.quest] > 0 THEN {"stage"}
    ELSE IF m.status = "started" THEN {"started"}
    ELSE {"stage", "started", "stopped", "other"}

OnQuestChanges(c) ==
    /\ Handles(c, "quest")
    /\ LET m == Head(queries[c])
           count == entries[c][m.quest]
           told == IF c \in members THEN members \ {c} ELSE {}
       IN /\ entries' = [entries EXCEPT ![c][m.quest] =
                IF m.status = "stopped" THEN IF count = 0 THEN 0 ELSE count - 1
                ELSE IF count = 0 THEN 1 ELSE count]
          /\ \E status \in StatusSent(c, m) :
                /\ news' = Posted(news, told, [m EXCEPT !.status = status])
                /\ apart' = apart \cup {<<d, m.quest>> : d \in
                      IF status \in {m.status, "stage", "started"}
                      THEN Clients \ (told \cup {c}) ELSE Clients \ {c}}
          /\ tellers' = [tellers EXCEPT ![m.quest] = @ \cup {c}]
    /\ UNCHANGED <<done, running, deeds>>

JoinsOrLeaves(c) == PartyChanges(c) /\ UNCHANGED <<entries, done, running, deeds, apart, tellers>>

---------------------------------------------------------------------------
(* The client *)

Tell(q, status, stage) == [type |-> "quest", quest |-> q, status |-> status, stage |-> stage]

\* What happens to a quest in the game of c, and the sink of the game's event:
\* only a leader tells
Happens(c, q, ds, r) ==
    /\ done' = [done EXCEPT ![c][q] = ds]
    /\ running' = [running EXCEPT ![c][q] = r]

TellIfLeader(c, messages) ==
    Asks(c, IF role[c] = "leader" THEN messages ELSE <<>>)

\* The engine sets a stage, starts or stops a quest
Progress(c, q) ==
    /\ deeds < MaxDeeds /\ Len(queries[c]) < MaxQueries
    /\ \/ \E s \in Stages \ done[c][q] :
             /\ running[c][q]
             /\ Happens(c, q, done[c][q] \cup {s}, TRUE)
             /\ TellIfLeader(c, <<Tell(q, "stage", s)>>)
       \/ /\ ~running[c][q] /\ done[c][q] = {}
          /\ Happens(c, q, {0}, TRUE)
          /\ TellIfLeader(c, <<Tell(q, "started", 0)>>)
       \/ /\ running[c][q]
          /\ Happens(c, q, done[c][q], FALSE)
          /\ TellIfLeader(c, <<Tell(q, "stopped", 0)>>)
    /\ deeds' = deeds + 1
    /\ apart' = IF role[c] = "leader" THEN apart ELSE apart \cup {<<c, q>>}
    /\ UNCHANGED <<members, leader, role, news, entries, tellers>>

\* Variant: a notice that a quest stopped is passed over
OnQuestUpdateUnstopped(c, m) ==
    LET q == m.quest IN
    IF m.status \in {"started", "stage"} /\ m.stage \notin done[c][q]
    THEN /\ Happens(c, q, done[c][q] \cup {m.stage}, TRUE)
         /\ TellIfLeader(c, <<Tell(q, "stage", m.stage)>>)
    ELSE UNCHANGED <<queries, done, running>>

\* OnQuestUpdate of the client. ScriptSetStage does nothing for a stage that is
\* done; otherwise the engine starts the quest if it has to, and a client that
\* leads by now tells of the stage again
OnQuestUpdate(c, m) ==
    LET q == m.quest IN
    IF m.status \in {"started", "stage"} /\ m.stage \notin done[c][q]
    THEN /\ Happens(c, q, done[c][q] \cup {m.stage}, TRUE)
         /\ TellIfLeader(c, <<Tell(q, "stage", m.stage)>>)
    ELSE /\ Happens(c, q, done[c][q], running[c][q] /\ m.status # "stopped")
         /\ UNCHANGED queries

Learns(c) ==
    /\ Reads(c)
    /\ Len(queries[c]) < MaxQueries
    /\ IF Head(news[c]).type = "quest"
       THEN OnQuestUpdate(c, Head(news[c]))
       ELSE UNCHANGED <<queries, done, running>>
    /\ UNCHANGED <<entries, deeds, apart, tellers>>

QuestNext ==
    \E c \in Clients :
       JoinsOrLeaves(c) \/ OnQuestChanges(c) \/ Learns(c) \/ \E q \in Story : Progress(c, q)

QuestSpec == QuestInit /\ [][QuestNext]_questVars

---------------------------------------------------------------------------
(* Properties *)

QuestTypeOK ==
    /\ entries \in [Clients -> [Story -> 0..2]]
    /\ done \in [Clients -> [Story -> SUBSET Stages]]
    /\ running \in [Clients -> [Story -> BOOLEAN]]

(* When everything is read, a player of the party who was told of all steps   *)
(* of a quest, and whose own game did not move it, has done the stages that   *)
(* the leader has done, whoever led when they were told; and it runs in both  *)
(* games or in neither, unless several players told of it, whose messages     *)
(* pass each other.                                                           *)
StoryAgrees ==
    \A f \in Followers, q \in Story :
        AllRead /\ {<<f, q>>, <<leader, q>>} \cap apart = {}
        => /\ done[f][q] = done[leader][q]
           /\ Cardinality(tellers[q]) < 2 => running[f][q] = running[leader][q]
=============================================================================
