---------------------------- MODULE VitalsProofs ----------------------------
(***************************************************************************)
(* Proofs about Vitals, for any clients, blows and cures: what the server  *)
(* has on record of an actor comes to be what its owner has, and the       *)
(* copies of it in the games around come to be alike.                      *)
(***************************************************************************)
EXTENDS Vitals, CompanionsProofs

---------------------------------------------------------------------------
(* The health of an actor: Vitals *)

\* No message in s is of the type
Without(s, type) == \A i \in 1 .. Len(s) : s[i].type # type

\* The message m is the last of its type in s
Final(s, m) ==
    \E i \in 1 .. Len(s) : s[i] = m /\ \A j \in (i + 1) .. Len(s) : s[j].type # m.type

\* After the last message of the type after in s there is one of the type
Trails(s, type, after) ==
    \E i \in 1 .. Len(s) : s[i].type = type /\ \A j \in (i + 1) .. Len(s) : s[j].type # after

(* What a message more changes about the last messages of a queue.             *)
LEMMA AfterAppend ==
    ASSUME NEW S, NEW s \in Seq(S), NEW m \in S
    PROVE  /\ \A type : Without(Append(s, m), type) <=> Without(s, type) /\ m.type # type
           /\ \A x : Final(Append(s, m), x) => x = m \/ (Final(s, x) /\ x.type # m.type)
           /\ \A type, after : Trails(Append(s, m), type, after) =>
                 m.type = type \/ (Trails(s, type, after) /\ m.type # after)
<1> DEFINE t == Append(s, m)
           n == Len(s)
<1>1. n \in Nat /\ Len(t) = n + 1 /\ t[n + 1] = m /\ \A i \in 1 .. n : t[i] = s[i]
  BY AppendProperties, LenProperties
<1> HIDE DEF t
<1>2. \A i \in 1 .. Len(t) : i = n + 1 \/ i \in 1 .. n
  BY <1>1
<1>3. \A type : Without(t, type) <=> Without(s, type) /\ m.type # type
  BY <1>1, <1>2 DEF Without
<1>4. ASSUME NEW x, Final(t, x)
      PROVE  x = m \/ (Final(s, x) /\ x.type # m.type)
  <2>1. PICK i \in 1 .. Len(t) : t[i] = x /\ \A j \in (i + 1) .. Len(t) : t[j].type # x.type
    BY <1>4 DEF Final
  <2>2. CASE i = n + 1
    BY <1>1, <2>1, <2>2
  <2>3. CASE i \in 1 .. n
    <3>1. x.type # m.type
      BY <1>1, <2>1, <2>3
    <3>2. \A j \in (i + 1) .. n : s[j].type # x.type
      BY <1>1, <2>1, <2>3
    <3> QED BY <1>1, <2>1, <2>3, <3>1, <3>2 DEF Final
  <2> QED BY <1>2, <2>2, <2>3
<1>5. ASSUME NEW type, NEW after, Trails(t, type, after)
      PROVE  m.type = type \/ (Trails(s, type, after) /\ m.type # after)
  <2>1. PICK i \in 1 .. Len(t) : t[i].type = type /\ \A j \in (i + 1) .. Len(t) : t[j].type # after
    BY <1>5 DEF Trails
  <2>2. CASE i = n + 1
    BY <1>1, <2>1, <2>2
  <2>3. CASE i \in 1 .. n
    <3>1. m.type # after
      BY <1>1, <2>1, <2>3
    <3>2. \A j \in (i + 1) .. n : s[j].type # after
      BY <1>1, <2>1, <2>3
    <3> QED BY <1>1, <2>1, <2>3, <3>1, <3>2 DEF Trails
  <2> QED BY <1>2, <2>2, <2>3
<1> QED BY <1>3, <1>4, <1>5 DEF t

(* What a message less changes about them.                                     *)
LEMMA AfterTail ==
    ASSUME NEW S, NEW s \in Seq(S), s # <<>>
    PROVE  /\ \A type : Without(s, type) => Without(Tail(s), type) /\ Head(s).type # type
           /\ \A type : Without(Tail(s), type) =>
                 Without(s, type) \/ (Head(s).type = type /\ Final(s, Head(s)))
           /\ \A x : Final(Tail(s), x) => Final(s, x)
           /\ \A type, after : Trails(Tail(s), type, after) => Trails(s, type, after)
           /\ \A type, after : Head(s).type = type /\ Without(Tail(s), after) =>
                 Trails(s, type, after)
<1> DEFINE t == Tail(s)
           n == Len(s)
<1>1. /\ n \in Nat \ {0} /\ Len(t) = n - 1 /\ Head(s) = s[1]
      /\ \A i \in 1 .. Len(t) : t[i] = s[i + 1]
  <2>1. Len(t) = n - 1 /\ \A i \in 1 .. Len(t) : t[i] = s[i + 1]
    BY HeadTailProperties
  <2>2. n \in Nat \ {0}
    BY EmptySeq
  <2> QED BY <2>1, <2>2
<1> HIDE DEF t
<1>2. \A i \in 2 .. n : i - 1 \in 1 .. Len(t) /\ t[i - 1] = s[i]
  BY <1>1
<1>3. \A type : Without(s, type) => Without(t, type) /\ Head(s).type # type
  BY <1>1 DEF Without
<1>4. ASSUME NEW type, Without(t, type)
      PROVE  Without(s, type) \/ (Head(s).type = type /\ Final(s, Head(s)))
  <2>1. \A j \in 2 .. n : s[j].type # type
    BY <1>2, <1>4 DEF Without
  <2> QED BY <1>1, <2>1 DEF Without, Final
<1>5. ASSUME NEW x, Final(t, x) PROVE Final(s, x)
  <2>1. PICK i \in 1 .. Len(t) : t[i] = x /\ \A j \in (i + 1) .. Len(t) : t[j].type # x.type
    BY <1>5 DEF Final
  <2>2. i + 1 \in 1 .. n /\ s[i + 1] = x
    BY <1>1, <2>1
  <2>3. \A j \in (i + 2) .. n : s[j].type # x.type
    <3> TAKE j \in (i + 2) .. n
    <3>1. j - 1 \in (i + 1) .. Len(t) /\ t[j - 1] = s[j]
      BY <1>1, <1>2, <2>1
    <3> QED BY <2>1, <3>1
  <2> QED BY <2>2, <2>3 DEF Final
<1>6. ASSUME NEW type, NEW after, Trails(t, type, after) PROVE Trails(s, type, after)
  <2>1. PICK i \in 1 .. Len(t) : t[i].type = type /\ \A j \in (i + 1) .. Len(t) : t[j].type # after
    BY <1>6 DEF Trails
  <2>2. i + 1 \in 1 .. n /\ s[i + 1].type = type
    BY <1>1, <2>1
  <2>3. \A j \in (i + 2) .. n : s[j].type # after
    <3> TAKE j \in (i + 2) .. n
    <3>1. j - 1 \in (i + 1) .. Len(t) /\ t[j - 1] = s[j]
      BY <1>1, <1>2, <2>1
    <3> QED BY <2>1, <3>1
  <2> QED BY <2>2, <2>3 DEF Trails
<1>7. ASSUME NEW type, NEW after, Head(s).type = type, Without(t, after)
      PROVE  Trails(s, type, after)
  <2>1. \A j \in 2 .. n : s[j].type # after
    BY <1>2, <1>7 DEF Without
  <2> QED BY <1>1, <1>7, <2>1 DEF Trails
<1> QED BY <1>3, <1>4, <1>5, <1>6, <1>7 DEF t

(* About an empty queue there is nothing to say.                               *)
LEMMA OfNothing ==
    /\ \A type : Without(<<>>, type)
    /\ \A x : ~Final(<<>>, x)
    /\ \A type, after : ~Trails(<<>>, type, after)
BY DEF Without, Final, Trails

Deltas == [type : {"delta"}, health : Int \ {0}]

Calls ==
    Deltas \cup [type : {"dead"}, dead : BOOLEAN] \cup [type : {"value"}, health : Int]

Conditions == [health : Int, dead : BOOLEAN]

VitalsNotices == Calls \cup [type : {"spawn"}, health : Int, dead : BOOLEAN]

VitalsTypes ==
    /\ health \in [Clients -> Int] /\ dead \in [Clients -> BOOLEAN]
    /\ small \in [Clients -> Int]
    /\ told \in Conditions /\ record \in Conditions
    /\ near \subseteq Clients
    /\ calls \in [Clients -> Seq(Calls)]
    /\ notices \in [Clients -> Seq(VitalsNotices)]

(* Before somebody owns the actor nothing has happened to it. *)
Unowned ==
    near = {} =>
       /\ \A c \in Clients :
             calls[c] = <<>> /\ notices[c] = <<>> /\ small[c] = 0 /\ health[c] = Full /\ ~dead[c]
       /\ told = [health |-> Full, dead |-> FALSE] /\ record = told

(* Only the owner reports, and it hears of nothing but changes by others. *)
OwnerReports ==
    near # {} =>
       /\ owner \in near
       /\ \A c \in Clients \ {owner} : calls[c] \in Seq(Deltas)
       /\ notices[owner] \in Seq(Deltas)

(* What the owner reported last of the actor's death is on its way or kept. *)
DeathsTold ==
    near # {} =>
       /\ \A m \in Calls : Final(calls[owner], m) /\ m.type = "dead" => m.dead = told.dead
       /\ Without(calls[owner], "dead") => record.dead = told.dead

(* The owner has a report of the health to make. *)
Due == health[owner] # told.health

(* What it reported last of the health is on its way or kept, or a change has *)
(* come in between, and then there is or will be another report.              *)
HealthTold ==
    near # {} /\ ~overtaken =>
       /\ small[owner] # 0 \/ Trails(calls[owner], "delta", "value") => Due
       /\ \A m \in Calls : Final(calls[owner], m) /\ m.type = "value" => m.health = told.health
       /\ Without(calls[owner], "value") =>
             record.health = told.health \/ Due \/ notices[owner] # <<>>

VitalsInv == VitalsTypes /\ Unowned /\ OwnerReports /\ DeathsTold /\ HealthTold

(* What clients tell of health and death, by kind.                           *)
LEMMA CallKinds ==
    /\ Deltas \subseteq Calls /\ Calls \subseteq VitalsNotices
    /\ \A m \in Calls : /\ m.type = "delta" => m \in Deltas /\ m.health \in Int \ {0}
                        /\ m.type = "dead" => m.dead \in BOOLEAN
                        /\ m.type = "value" => m.health \in Int
    /\ \A m \in VitalsNotices : /\ m.type # "spawn" => m \in Calls
                                /\ m.type = "spawn" => m.health \in Int /\ m.dead \in BOOLEAN
    /\ \A m \in Deltas : m.type = "delta" /\ m.health \in Int \ {0}
    /\ \A d \in Int \ {0} : Change(d) \in Deltas
BY DEF Deltas, Calls, VitalsNotices, Change

(* At the start nobody owns the actor and nothing is on its way.             *)
LEMMA InitVitals == VitalsInit => VitalsInv
<1> SUFFICES ASSUME VitalsInit PROVE VitalsInv
  OBVIOUS
<1>1. Full \in Int
  BY VitalsAssumption
<1>2. <<>> \in Seq(Calls) /\ <<>> \in Seq(VitalsNotices)
  BY EmptySeq
<1>3. VitalsTypes
  BY <1>1, <1>2 DEF VitalsInit, VitalsTypes, Conditions
<1>4. Unowned
  BY DEF VitalsInit, Unowned
<1> QED BY <1>3, <1>4 DEF VitalsInit, VitalsInv, OwnerReports, DeathsTold, HealthTold

(* A report that was due still is, whatever happens to the actor, unless its   *)
(* health has come back to what was reported; and a change makes one due.      *)
LEMMA DueStays ==
    ASSUME VitalsInv, Returns, owner' = owner, told' = told
    PROVE  /\ ~overtaken' => ~overtaken
           /\ ~overtaken' /\ Due => Due'
           /\ \A d \in Int \ {0} : owner \in Clients /\ health'[owner] = health[owner] + d =>
                 overtaken' \/ Due'
<1>1. ~overtaken' => ~overtaken /\ ~(health[owner] # told.health /\ health'[owner] = told.health)
  BY DEF Returns
<1>2. ~overtaken' /\ Due => Due'
  BY <1>1 DEF Due
<1>3. ASSUME NEW d \in Int \ {0}, owner \in Clients, health'[owner] = health[owner] + d, ~overtaken'
      PROVE  Due'
  <2>1. health[owner] \in Int
    BY <1>3 DEF VitalsInv, VitalsTypes
  <2> QED BY <1>1, <1>3, <2>1 DEF Due
<1> QED BY <1>1, <1>2, <1>3

(* What happens in the game of one client that does not own the actor, or is   *)
(* told to it, concerns neither reports nor record.                            *)
LEMMA OthersKeepReports ==
    ASSUME VitalsInv, VitalsTypes', near' = near, near # {}, owner' = owner, told' = told,
           record' = record, overtaken' = overtaken, health'[owner] = health[owner],
           small'[owner] = small[owner], calls'[owner] = calls[owner],
           notices'[owner] = notices[owner],
           \A c \in Clients \ {owner} : calls'[c] \in Seq(Deltas)
    PROVE  VitalsInv'
<1>1. OwnerReports'
  BY DEF VitalsInv, OwnerReports
<1>2. DeathsTold'
  BY DEF VitalsInv, DeathsTold
<1>3. Due' <=> Due
  BY DEF Due
<1>4. HealthTold'
  BY <1>3 DEF VitalsInv, HealthTold
<1> QED BY <1>1, <1>2, <1>4 DEF VitalsInv, Unowned

(* A change of health that c makes in its own game and tells of.               *)
LEMMA ChangeKeepsInv ==
    ASSUME VitalsInv, near' = near, near # {}, owner' = owner, told' = told, record' = record,
           notices' = notices, Returns,
           NEW c \in near, NEW d \in Int \ {0}, Alter(c, d),
           \/ /\ small' = [small EXCEPT ![c] = @ + d] /\ calls' = calls
           \/ /\ calls' = [calls EXCEPT ![c] = Append(@, Change(d))] /\ small' = small
    PROVE  VitalsInv'
<1>1. /\ c \in Clients /\ owner \in Clients
      /\ health \in [Clients -> Int] /\ small \in [Clients -> Int]
      /\ dead \in [Clients -> BOOLEAN]
      /\ calls \in [Clients -> Seq(Calls)] /\ calls[c] \in Seq(Calls) /\ calls[owner] \in Seq(Calls)
  BY DEF VitalsInv, VitalsTypes, OwnerReports
<1>2. Change(d) \in Deltas /\ Change(d) \in Calls /\ Change(d).type = "delta"
  BY CallKinds DEF Change
<1>3. /\ health' = [health EXCEPT ![c] = @ + d]
      /\ dead' = [dead EXCEPT ![c] = @ \/ health[c] + d <= 0]
  BY DEF Alter
<1>4. VitalsTypes'
  <2>1. health' \in [Clients -> Int] /\ dead' \in [Clients -> BOOLEAN]
    BY <1>1, <1>3
  <2>2. small' \in [Clients -> Int]
    BY <1>1
  <2>3. Append(calls[c], Change(d)) \in Seq(Calls)
    BY <1>1, <1>2, AppendProperties
  <2>4. calls' \in [Clients -> Seq(Calls)]
    BY <1>1, <2>3
  <2> QED BY <2>1, <2>2, <2>4 DEF VitalsInv, VitalsTypes
<1>5. OwnerReports'
  <2>1. \A e \in Clients \ {owner} : calls'[e] \in Seq(Deltas)
    <3> TAKE e \in Clients \ {owner}
    <3>1. calls[e] \in Seq(Deltas)
      BY DEF VitalsInv, OwnerReports
    <3>2. Append(calls[e], Change(d)) \in Seq(Deltas)
      BY <1>2, <3>1, AppendProperties
    <3> QED BY <1>1, <3>1, <3>2
  <2> QED BY <2>1 DEF VitalsInv, OwnerReports
<1>6. \/ calls'[owner] = calls[owner]
      \/ c = owner /\ calls'[owner] = Append(calls[owner], Change(d))
  BY <1>1
<1>7. DeathsTold'
  <2>1. ASSUME NEW m, Final(calls'[owner], m), m.type = "dead" PROVE Final(calls[owner], m)
    BY <1>1, <1>2, <1>6, <2>1, AfterAppend
  <2>2. Without(calls'[owner], "dead") => Without(calls[owner], "dead")
    BY <1>1, <1>2, <1>6, AfterAppend
  <2> QED BY <2>1, <2>2 DEF VitalsInv, DeathsTold
<1>8. HealthTold'
  <2> SUFFICES ASSUME ~overtaken'
               PROVE  /\ small'[owner] # 0 \/ Trails(calls'[owner], "delta", "value") => Due'
                      /\ \A m \in Calls : Final(calls'[owner], m) /\ m.type = "value"
                                             => m.health = told.health
                      /\ Without(calls'[owner], "value") =>
                            record.health = told.health \/ Due' \/ notices[owner] # <<>>
    BY DEF HealthTold
  <2>1. ~overtaken /\ (Due => Due')
    BY DueStays
  <2>2. /\ small[owner] # 0 \/ Trails(calls[owner], "delta", "value") => Due
        /\ \A m \in Calls : Final(calls[owner], m) /\ m.type = "value" => m.health = told.health
        /\ Without(calls[owner], "value") =>
              record.health = told.health \/ Due \/ notices[owner] # <<>>
    BY <2>1 DEF VitalsInv, HealthTold
  <2>3. CASE c = owner
    <3>1. health'[owner] = health[owner] + d
      BY <1>1, <1>3, <2>3
    <3>2. Due'
      BY <1>1, <3>1, DueStays
    <3>3. ASSUME NEW m, Final(calls'[owner], m), m.type = "value" PROVE Final(calls[owner], m)
      BY <1>1, <1>2, <1>6, <3>3, AfterAppend
    <3> QED BY <2>2, <3>2, <3>3
  <2>4. CASE c # owner
    <3>1. calls'[owner] = calls[owner] /\ small'[owner] = small[owner]
      BY <1>1, <2>4
    <3> QED BY <2>1, <2>2, <3>1
  <2> QED BY <2>3, <2>4
<1> QED BY <1>4, <1>5, <1>7, <1>8 DEF VitalsInv, Unowned

(* The actor is hit in the game of a client.                                 *)
LEMMA BlowKeepsInv ==
    ASSUME VitalsInv, NEW c \in Clients, NEW n \in Blows, Blow(c, n)
    PROVE  VitalsInv'
<1>1. -n \in Int \ {0}
  BY VitalsAssumption
<1>2. /\ c \in near /\ near' = near /\ near # {} /\ owner' = owner /\ told' = told
      /\ record' = record /\ notices' = notices /\ Returns /\ Alter(c, -n)
  BY DEF Blow, Befalls
<1>3. \/ /\ small' = [small EXCEPT ![c] = @ + -n] /\ calls' = calls
      \/ /\ calls' = [calls EXCEPT ![c] = Append(@, Change(-n))] /\ small' = small
  BY DEF Blow, Send
<1> QED BY <1>1, <1>2, <1>3, ChangeKeepsInv

(* The actor is cured in the game of its owner.                              *)
LEMMA CureKeepsInv ==
    ASSUME VitalsInv, NEW n \in Blows, Cure(n)
    PROVE  VitalsInv'
<1>1. n \in Int \ {0}
  BY VitalsAssumption
<1>2. /\ owner \in near /\ near' = near /\ near # {} /\ owner' = owner /\ told' = told
      /\ record' = record /\ notices' = notices /\ Returns /\ Alter(owner, n)
  BY DEF Cure, Befalls
<1>3. calls' = [calls EXCEPT ![owner] = Append(@, Change(n))] /\ small' = small
  BY DEF Cure
<1> QED BY <1>1, <1>2, <1>3, ChangeKeepsInv

(* The actor stands up again in the game of its owner.                       *)
LEMMA ResurrectKeepsInv ==
    ASSUME VitalsInv, Resurrect
    PROVE  VitalsInv'
<1>1. /\ near # {} /\ health' = [health EXCEPT ![owner] = Full]
      /\ dead' = [dead EXCEPT ![owner] = FALSE]
      /\ UNCHANGED <<owner, small, told, record, near, calls, notices>> /\ Returns
  BY DEF Resurrect, Befalls
<1>2. Full \in Int
  BY VitalsAssumption
<1>3. VitalsTypes'
  BY <1>1, <1>2 DEF VitalsInv, VitalsTypes
<1>4. HealthTold'
  <2>1. ~overtaken' => ~overtaken /\ (Due => Due')
    BY <1>1, DueStays
  <2> QED BY <1>1, <2>1 DEF VitalsInv, HealthTold
<1> QED BY <1>1, <1>3, <1>4 DEF VitalsInv, Unowned, OwnerReports, DeathsTold

(* RunSmallHealthUpdates tells of the small changes that have added up.      *)
LEMMA SmallUpdatesKeepInv ==
    ASSUME VitalsInv, NEW c \in Clients, RunSmallHealthUpdates(c)
    PROVE  VitalsInv'
<1> DEFINE d == small[c]
<1>1. /\ d # 0
      /\ calls' = [calls EXCEPT ![c] = Append(@, Change(d))]
      /\ small' = [small EXCEPT ![c] = 0]
      /\ UNCHANGED <<owner, health, dead, told, record, near, notices, overtaken>>
  BY DEF RunSmallHealthUpdates
<1>2. /\ d \in Int \ {0}
      /\ small \in [Clients -> Int] /\ calls \in [Clients -> Seq(Calls)]
      /\ calls[c] \in Seq(Calls)
  BY <1>1 DEF VitalsInv, VitalsTypes
<1>3. near # {}
  BY <1>1 DEF VitalsInv, Unowned
<1>4. owner \in Clients /\ calls[owner] \in Seq(Calls)
  BY <1>2, <1>3 DEF VitalsInv, VitalsTypes, OwnerReports
<1> HIDE DEF d
<1>5. Change(d) \in Deltas /\ Change(d) \in Calls /\ Change(d).type = "delta"
  BY <1>2, CallKinds DEF Change
<1>6. VitalsTypes'
  <2>1. small' \in [Clients -> Int] /\ calls' \in [Clients -> Seq(Calls)]
    BY <1>1, <1>2, <1>5, AppendProperties
  <2> QED BY <1>1, <2>1 DEF VitalsInv, VitalsTypes
<1>7. \A e \in Clients \ {owner} : calls'[e] \in Seq(Deltas)
  <2> TAKE e \in Clients \ {owner}
  <2>1. calls[e] \in Seq(Deltas)
    BY <1>3 DEF VitalsInv, OwnerReports
  <2>2. Append(calls[e], Change(d)) \in Seq(Deltas)
    BY <1>5, <2>1, AppendProperties
  <2> QED BY <1>1, <1>2, <2>1, <2>2
<1>8. CASE c # owner
  <2>1. calls'[owner] = calls[owner] /\ small'[owner] = small[owner]
    BY <1>1, <1>2, <1>4, <1>8
  <2> QED BY <1>1, <1>3, <1>6, <1>7, <2>1, OthersKeepReports
<1>9. CASE c = owner
  <2>1. calls'[owner] = Append(calls[owner], Change(d)) /\ small'[owner] = 0
    BY <1>1, <1>2, <1>4, <1>9
  <2>2. \A m : Final(calls'[owner], m) /\ m.type # "delta" => Final(calls[owner], m)
    BY <1>4, <1>5, <2>1, AfterAppend
  <2>3. /\ Without(calls'[owner], "dead") => Without(calls[owner], "dead")
        /\ Without(calls'[owner], "value") => Without(calls[owner], "value")
    BY <1>4, <1>5, <2>1, AfterAppend
  <2>4. DeathsTold'
    BY <1>1, <2>2, <2>3 DEF VitalsInv, DeathsTold
  <2>5. HealthTold'
    <3> SUFFICES ASSUME ~overtaken PROVE HealthTold'
      BY <1>1 DEF HealthTold
    <3>1. Due
      BY <1>1, <1>3, <1>9 DEF VitalsInv, HealthTold, d
    <3>2. Due'
      BY <1>1, <3>1 DEF Due
    <3> QED BY <1>1, <1>3, <2>2, <3>2 DEF VitalsInv, HealthTold
  <2>6. OwnerReports'
    BY <1>1, <1>7 DEF VitalsInv, OwnerReports
  <2> QED BY <1>1, <1>3, <1>6, <2>4, <2>5, <2>6 DEF VitalsInv, Unowned
<1> QED BY <1>8, <1>9

(* RunDeathStateUpdates of the owner.                                        *)
LEMMA TellDeathKeepsInv ==
    ASSUME VitalsInv, TellDeath
    PROVE  VitalsInv'
<1> DEFINE m == [type |-> "dead", dead |-> dead[owner]]
<1>1. /\ near # {} /\ told' = [told EXCEPT !.dead = dead[owner]]
      /\ calls' = [calls EXCEPT ![owner] = Append(@, m)]
      /\ UNCHANGED <<owner, health, dead, small, record, near, notices, overtaken>>
  BY DEF TellDeath, Report
<1>2. /\ owner \in Clients /\ calls \in [Clients -> Seq(Calls)] /\ calls[owner] \in Seq(Calls)
      /\ dead[owner] \in BOOLEAN /\ told \in Conditions
  BY <1>1 DEF VitalsInv, VitalsTypes, OwnerReports
<1>3. m \in Calls /\ m.type = "dead" /\ m.dead = dead[owner]
  BY <1>2 DEF Calls
<1> HIDE DEF m
<1>4. told' \in Conditions /\ told'.dead = m.dead /\ told'.health = told.health
  BY <1>1, <1>2, <1>3 DEF Conditions
<1>5. Append(calls[owner], m) \in Seq(Calls)
  BY <1>2, <1>3, AppendProperties
<1>6. /\ calls' \in [Clients -> Seq(Calls)] /\ calls'[owner] = Append(calls[owner], m)
      /\ \A e \in Clients \ {owner} : calls'[e] = calls[e]
  BY <1>1, <1>2, <1>5
<1>7. VitalsTypes'
  BY <1>1, <1>4, <1>6 DEF VitalsInv, VitalsTypes
<1>8. OwnerReports'
  BY <1>1, <1>6 DEF VitalsInv, OwnerReports
<1>9. DeathsTold'
  <2>1. \A x : Final(calls'[owner], x) /\ x.type = "dead" => x = m
    BY <1>2, <1>3, <1>6, AfterAppend
  <2>2. ~Without(calls'[owner], "dead")
    BY <1>2, <1>3, <1>6, AfterAppend
  <2> QED BY <1>1, <1>4, <2>1, <2>2 DEF DeathsTold
<1>10. HealthTold'
  <2>1. /\ \A x : Final(calls'[owner], x) /\ x.type = "value" => Final(calls[owner], x)
        /\ Without(calls'[owner], "value") => Without(calls[owner], "value")
        /\ Trails(calls'[owner], "delta", "value") => Trails(calls[owner], "delta", "value")
    BY <1>2, <1>3, <1>6, AfterAppend
  <2>2. Due' <=> Due
    BY <1>1, <1>4 DEF Due
  <2> QED BY <1>1, <1>4, <2>1, <2>2 DEF VitalsInv, HealthTold
<1> QED BY <1>1, <1>7, <1>8, <1>9, <1>10 DEF VitalsInv, Unowned

(* BroadcastActorValues of the owner.                                        *)
LEMMA TellHealthKeepsInv ==
    ASSUME VitalsInv, TellHealth
    PROVE  VitalsInv'
<1> DEFINE m == [type |-> "value", health |-> health[owner]]
<1>1. /\ near # {} /\ told' = [told EXCEPT !.health = health[owner]]
      /\ calls' = [calls EXCEPT ![owner] = Append(@, m)]
      /\ overtaken' = (overtaken \/ small[owner] # 0)
      /\ UNCHANGED <<owner, health, dead, small, record, near, notices>>
  BY DEF TellHealth, Report
<1>2. /\ owner \in Clients /\ calls \in [Clients -> Seq(Calls)] /\ calls[owner] \in Seq(Calls)
      /\ health[owner] \in Int /\ told \in Conditions
  BY <1>1 DEF VitalsInv, VitalsTypes, OwnerReports
<1>3. m \in Calls /\ m.type = "value" /\ m.health = health[owner]
  BY <1>2 DEF Calls
<1> HIDE DEF m
<1>4. told' \in Conditions /\ told'.health = m.health /\ told'.dead = told.dead
  BY <1>1, <1>2, <1>3 DEF Conditions
<1>5. Append(calls[owner], m) \in Seq(Calls)
  BY <1>2, <1>3, AppendProperties
<1>6. /\ calls' \in [Clients -> Seq(Calls)] /\ calls'[owner] = Append(calls[owner], m)
      /\ \A e \in Clients \ {owner} : calls'[e] = calls[e]
  BY <1>1, <1>2, <1>5
<1>7. VitalsTypes'
  BY <1>1, <1>4, <1>6 DEF VitalsInv, VitalsTypes
<1>8. OwnerReports'
  BY <1>1, <1>6 DEF VitalsInv, OwnerReports
<1>9. DeathsTold'
  <2>1. /\ \A x : Final(calls'[owner], x) /\ x.type = "dead" => Final(calls[owner], x)
        /\ Without(calls'[owner], "dead") => Without(calls[owner], "dead")
    BY <1>2, <1>3, <1>6, AfterAppend
  <2> QED BY <1>1, <1>4, <2>1 DEF VitalsInv, DeathsTold
<1>10. HealthTold'
  <2>1. /\ \A x : Final(calls'[owner], x) /\ x.type = "value" => x = m
        /\ ~Without(calls'[owner], "value")
        /\ ~Trails(calls'[owner], "delta", "value")
    BY <1>2, <1>3, <1>6, AfterAppend
  <2>2. small'[owner] # 0 => overtaken'
    BY <1>1
  <2> QED BY <1>1, <1>4, <2>1, <2>2 DEF HealthTold
<1> QED BY <1>1, <1>7, <1>8, <1>9, <1>10 DEF VitalsInv, Unowned

(* A client reads what the server passes on.                                 *)
LEMMA NoticesKeepInv ==
    ASSUME VitalsInv, NEW c \in Clients, Notices(c)
    PROVE  VitalsInv'
<1> DEFINE m == Head(notices[c])
<1>1. /\ notices[c] # <<>> /\ notices' = Read(notices, c) /\ Returns
      /\ UNCHANGED <<owner, small, told, record, near, calls>>
  BY DEF Notices
<1>2. /\ m.type = "delta" => Alter(c, m.health)
      /\ m.type = "spawn" => /\ health' = [health EXCEPT ![c] = m.health]
                             /\ dead' = [dead EXCEPT ![c] = m.dead]
      /\ m.type = "dead" =>
           /\ dead' = [dead EXCEPT ![c] = m.dead]
           /\ health' = [health EXCEPT ![c] = IF dead[c] /\ ~m.dead THEN Full ELSE @]
      /\ m.type \notin {"delta", "spawn", "dead"} => UNCHANGED <<health, dead>>
  BY DEF Notices
<1>3. /\ near # {} /\ owner \in Clients
      /\ health \in [Clients -> Int] /\ dead \in [Clients -> BOOLEAN]
      /\ notices \in [Clients -> Seq(VitalsNotices)]
      /\ notices[owner] \in Seq(Deltas)
  BY <1>1 DEF VitalsInv, VitalsTypes, Unowned, OwnerReports
<1>4. /\ m \in VitalsNotices /\ notices' \in [Clients -> Seq(VitalsNotices)]
      /\ notices'[c] = Tail(notices[c])
      /\ \A d \in Clients : d # c => notices'[d] = notices[d]
  BY <1>1, <1>3, ReadQueues
<1> HIDE DEF m
<1>5. Full \in Int
  BY VitalsAssumption
<1>6. /\ health' \in [Clients -> Int] /\ dead' \in [Clients -> BOOLEAN]
      /\ \A d \in Clients : d # c => health'[d] = health[d]
  <2>1. CASE m.type = "delta"
    <3>1. m.health \in Int
      BY <1>4, <2>1, CallKinds
    <3>2. health' = [health EXCEPT ![c] = @ + m.health]
      BY <1>2, <2>1 DEF Alter
    <3>3. \E b \in BOOLEAN : dead' = [dead EXCEPT ![c] = b]
      BY <1>2, <1>3, <2>1 DEF Alter
    <3> QED BY <1>3, <3>1, <3>2, <3>3
  <2>2. CASE m.type = "spawn"
    <3>1. m.health \in Int /\ m.dead \in BOOLEAN
      BY <1>4, <2>2, CallKinds
    <3> QED BY <1>2, <1>3, <2>2, <3>1
  <2>3. CASE m.type = "dead"
    <3>1. m.dead \in BOOLEAN
      BY <1>4, <2>3, CallKinds
    <3> QED BY <1>2, <1>3, <1>5, <2>3, <3>1
  <2>4. CASE m.type \notin {"delta", "spawn", "dead"}
    BY <1>2, <1>3, <2>4
  <2> QED BY <2>1, <2>2, <2>3, <2>4
<1>7. VitalsTypes'
  BY <1>1, <1>4, <1>6 DEF VitalsInv, VitalsTypes
<1>8. ~overtaken' => ~overtaken /\ (Due => Due')
  BY <1>1, DueStays
<1>9. CASE c # owner
  <2>1. health'[owner] = health[owner] /\ notices'[owner] = notices[owner]
    BY <1>3, <1>4, <1>6, <1>9
  <2>2. OwnerReports' /\ DeathsTold'
    BY <1>1, <2>1 DEF VitalsInv, OwnerReports, DeathsTold
  <2>3. HealthTold'
    BY <1>1, <1>8, <2>1 DEF VitalsInv, HealthTold
  <2> QED BY <1>1, <1>3, <1>7, <2>2, <2>3 DEF VitalsInv, Unowned
<1>10. CASE c = owner
  <2>1. m \in Deltas /\ notices'[owner] \in Seq(Deltas)
    BY <1>1, <1>3, <1>4, <1>10, HeadTailProperties DEF m
  <2>2. m.type = "delta" /\ m.health \in Int \ {0}
    BY <2>1, CallKinds
  <2>3. health'[owner] = health[owner] + m.health
    BY <1>2, <1>3, <1>10, <2>2 DEF Alter
  <2>4. overtaken' \/ Due'
    BY <1>1, <1>3, <2>2, <2>3, DueStays
  <2>5. OwnerReports' /\ DeathsTold'
    BY <1>1, <2>1 DEF VitalsInv, OwnerReports, DeathsTold
  <2>6. HealthTold'
    BY <1>1, <1>8, <2>4 DEF VitalsInv, HealthTold
  <2> QED BY <1>1, <1>3, <1>7, <2>5, <2>6 DEF VitalsInv, Unowned
<1> QED BY <1>9, <1>10

---------------------------------------------------------------------------
(* The server reads a message and passes it on: what it says to the owner.     *)
LEMMA ServesFacts ==
    ASSUME VitalsInv, NEW c \in Clients, NEW type, Serves(c, type)
    PROVE  LET m == Head(calls[c]) IN
           /\ m \in Calls /\ m.type = type /\ near # {} /\ owner \in near
           /\ UNCHANGED <<owner, health, dead, small, told, near, overtaken>>
           /\ calls[c] \in Seq(Calls) /\ calls[c] # <<>> /\ calls'[c] = Tail(calls[c])
           /\ \A d \in Clients : d # c => calls'[d] = calls[d]
           /\ calls' \in [Clients -> Seq(Calls)]
           /\ notices' \in [Clients -> Seq(VitalsNotices)]
           /\ c # owner => m \in Deltas /\ notices'[owner] # <<>>
           /\ c = owner => notices'[owner] = notices[owner]
           /\ OwnerReports'
<1> DEFINE m == Head(calls[c])
           R == near \ {c}
<1>1. /\ calls[c] # <<>> /\ m.type = type /\ calls' = Read(calls, c)
      /\ notices' = Posted(notices, R, m)
      /\ UNCHANGED <<owner, health, dead, small, told, near, overtaken>>
  BY DEF Serves
<1>2. calls \in [Clients -> Seq(Calls)] /\ notices \in [Clients -> Seq(VitalsNotices)]
  BY DEF VitalsInv, VitalsTypes
<1>3. /\ m \in Calls /\ calls' \in [Clients -> Seq(Calls)] /\ calls'[c] = Tail(calls[c])
      /\ \A d \in Clients : d # c => calls'[d] = calls[d]
  BY <1>1, <1>2, ReadQueues
<1>4. near # {} /\ owner \in near /\ owner \in Clients /\ notices[owner] \in Seq(Deltas)
  BY <1>1 DEF VitalsInv, VitalsTypes, Unowned, OwnerReports
<1>5. c # owner => calls[c] \in Seq(Deltas) /\ m \in Deltas /\ Tail(calls[c]) \in Seq(Deltas)
  BY <1>1, <1>4, HeadTailProperties DEF VitalsInv, OwnerReports
<1>6. m \in VitalsNotices
  BY <1>3, CallKinds
<1> HIDE DEF m
<1>7. /\ notices' \in [Clients -> Seq(VitalsNotices)]
      /\ \A d \in Clients : d \in R => notices'[d] = Append(notices[d], m)
      /\ \A d \in Clients : d \notin R => notices'[d] = notices[d]
  <2>1. Posted(notices, R, m) \in [Clients -> Seq(VitalsNotices)]
    BY <1>2, <1>6, PostedQueues
  <2>2. \A d \in Clients : Posted(notices, R, m)[d]
                             = IF d \in R THEN Append(notices[d], m) ELSE notices[d]
    BY DEF Posted
  <2> QED BY <1>1, <2>1, <2>2
<1>8. /\ c = owner => notices'[owner] = notices[owner]
      /\ c # owner => notices'[owner] = Append(notices[owner], m)
  BY <1>4, <1>7
<1>9. c # owner => notices'[owner] \in Seq(Deltas) /\ notices'[owner] # <<>>
  BY <1>4, <1>5, <1>8, AppendProperties
<1>10. \A d \in Clients \ {owner} : calls'[d] \in Seq(Deltas)
  BY <1>3, <1>4, <1>5 DEF VitalsInv, OwnerReports
<1>11. OwnerReports'
  BY <1>1, <1>4, <1>8, <1>9, <1>10 DEF OwnerReports
<1> QED BY <1>1, <1>2, <1>3, <1>4, <1>5, <1>7, <1>8, <1>9, <1>11 DEF m

(* OnHealthChangeBroadcast of the server.                                    *)
LEMMA HealthChangeKeepsInv ==
    ASSUME VitalsInv, NEW c \in Clients, OnHealthChangeBroadcast(c)
    PROVE  VitalsInv'
<1> DEFINE m == Head(calls[c])
<1>1. Serves(c, "delta") /\ record' = [record EXCEPT !.health = @ - m.health]
  BY DEF OnHealthChangeBroadcast
<1>2. /\ m \in Calls /\ m.type = "delta" /\ near # {} /\ owner \in near
      /\ UNCHANGED <<owner, health, dead, small, told, near, overtaken>>
      /\ calls[c] \in Seq(Calls) /\ calls[c] # <<>> /\ calls'[c] = Tail(calls[c])
      /\ \A d \in Clients : d # c => calls'[d] = calls[d]
      /\ calls' \in [Clients -> Seq(Calls)]
      /\ notices' \in [Clients -> Seq(VitalsNotices)]
      /\ c # owner => notices'[owner] # <<>>
      /\ c = owner => notices'[owner] = notices[owner]
      /\ OwnerReports'
  BY <1>1, ServesFacts
<1>3. m.health \in Int
  BY <1>2, CallKinds
<1>4. owner \in Clients /\ record \in Conditions
  BY <1>2 DEF VitalsInv, VitalsTypes
<1>5. record' \in Conditions /\ record'.dead = record.dead
  BY <1>1, <1>3, <1>4 DEF Conditions
<1>6. VitalsTypes'
  BY <1>2, <1>5 DEF VitalsInv, VitalsTypes
<1>7. CASE c # owner
  <2>1. calls'[owner] = calls[owner] /\ notices'[owner] # <<>>
    BY <1>2, <1>4, <1>7
  <2>2. DeathsTold'
    BY <1>2, <1>5, <2>1 DEF VitalsInv, DeathsTold
  <2>3. Due' <=> Due
    BY <1>2 DEF Due
  <2>4. HealthTold'
    BY <1>2, <2>1, <2>3 DEF VitalsInv, HealthTold
  <2> QED BY <1>2, <1>6, <2>2, <2>4 DEF VitalsInv, Unowned
<1>8. CASE c = owner
  <2>1. calls'[owner] = Tail(calls[owner]) /\ notices'[owner] = notices[owner]
    BY <1>2, <1>8
  <2>2. \A x : Final(Tail(calls[owner]), x) => Final(calls[owner], x)
    BY <1>2, <1>8, AfterTail
  <2>3. Without(Tail(calls[owner]), "dead") => Without(calls[owner], "dead")
    BY <1>2, <1>8, AfterTail
  <2>4. DeathsTold'
    BY <1>2, <1>5, <2>1, <2>2, <2>3 DEF VitalsInv, DeathsTold
  <2>5. /\ Trails(Tail(calls[owner]), "delta", "value") => Trails(calls[owner], "delta", "value")
        /\ Without(Tail(calls[owner]), "value") => Trails(calls[owner], "delta", "value")
    BY <1>2, <1>8, AfterTail
  <2>6. Due' <=> Due
    BY <1>2 DEF Due
  <2>7. HealthTold'
    BY <1>2, <2>1, <2>2, <2>5, <2>6 DEF VitalsInv, HealthTold
  <2> QED BY <1>2, <1>6, <2>4, <2>7 DEF VitalsInv, Unowned
<1> QED BY <1>7, <1>8

(* OnActorValueChanges of the server.                                        *)
LEMMA ValuesKeepInv ==
    ASSUME VitalsInv, NEW c \in Clients, OnActorValueChanges(c)
    PROVE  VitalsInv'
<1> DEFINE m == Head(calls[c])
<1>1. Serves(c, "value") /\ record' = [record EXCEPT !.health = m.health]
  BY DEF OnActorValueChanges
<1>2. /\ m \in Calls /\ m.type = "value" /\ near # {} /\ owner \in near
      /\ UNCHANGED <<owner, health, dead, small, told, near, overtaken>>
      /\ calls[c] \in Seq(Calls) /\ calls[c] # <<>> /\ calls'[c] = Tail(calls[c])
      /\ calls' \in [Clients -> Seq(Calls)]
      /\ notices' \in [Clients -> Seq(VitalsNotices)]
      /\ c # owner => m \in Deltas
      /\ c = owner => notices'[owner] = notices[owner]
      /\ OwnerReports'
  BY <1>1, ServesFacts
<1>3. c = owner /\ m.health \in Int
  BY <1>2, CallKinds
<1>4. record \in Conditions
  BY DEF VitalsInv, VitalsTypes
<1>5. record' \in Conditions /\ record'.dead = record.dead /\ record'.health = m.health
  BY <1>1, <1>3, <1>4 DEF Conditions
<1>6. VitalsTypes'
  BY <1>2, <1>5 DEF VitalsInv, VitalsTypes
<1>7. calls'[owner] = Tail(calls[owner]) /\ calls[owner] \in Seq(Calls) /\ calls[owner] # <<>>
  BY <1>2, <1>3
<1>8. /\ \A x : Final(Tail(calls[owner]), x) => Final(calls[owner], x)
      /\ Without(Tail(calls[owner]), "dead") => Without(calls[owner], "dead")
      /\ Without(Tail(calls[owner]), "value") => Final(calls[owner], m)
      /\ Trails(Tail(calls[owner]), "delta", "value") => Trails(calls[owner], "delta", "value")
  BY <1>2, <1>3, <1>7, AfterTail
<1>9. DeathsTold'
  BY <1>2, <1>5, <1>7, <1>8 DEF VitalsInv, DeathsTold
<1>10. HealthTold'
  <2>1. Due' <=> Due
    BY <1>2 DEF Due
  <2> QED BY <1>2, <1>5, <1>7, <1>8, <2>1 DEF VitalsInv, HealthTold
<1> QED BY <1>2, <1>6, <1>9, <1>10 DEF VitalsInv, Unowned

(* OnDeathStateChange of the server.                                         *)
LEMMA DeathChangeKeepsInv ==
    ASSUME VitalsInv, NEW c \in Clients, OnDeathStateChange(c)
    PROVE  VitalsInv'
<1> DEFINE m == Head(calls[c])
<1>1. Serves(c, "dead") /\ record' = [record EXCEPT !.dead = m.dead]
  BY DEF OnDeathStateChange
<1>2. /\ m \in Calls /\ m.type = "dead" /\ near # {} /\ owner \in near
      /\ UNCHANGED <<owner, health, dead, small, told, near, overtaken>>
      /\ calls[c] \in Seq(Calls) /\ calls[c] # <<>> /\ calls'[c] = Tail(calls[c])
      /\ calls' \in [Clients -> Seq(Calls)]
      /\ notices' \in [Clients -> Seq(VitalsNotices)]
      /\ c # owner => m \in Deltas
      /\ c = owner => notices'[owner] = notices[owner]
      /\ OwnerReports'
  BY <1>1, ServesFacts
<1>3. c = owner /\ m.dead \in BOOLEAN
  BY <1>2, CallKinds
<1>4. record \in Conditions
  BY DEF VitalsInv, VitalsTypes
<1>5. record' \in Conditions /\ record'.dead = m.dead /\ record'.health = record.health
  BY <1>1, <1>3, <1>4 DEF Conditions
<1>6. VitalsTypes'
  BY <1>2, <1>5 DEF VitalsInv, VitalsTypes
<1>7. calls'[owner] = Tail(calls[owner]) /\ calls[owner] \in Seq(Calls) /\ calls[owner] # <<>>
  BY <1>2, <1>3
<1>8. /\ \A x : Final(Tail(calls[owner]), x) => Final(calls[owner], x)
      /\ Without(Tail(calls[owner]), "dead") => Final(calls[owner], m)
      /\ Without(Tail(calls[owner]), "value") => Without(calls[owner], "value")
      /\ Trails(Tail(calls[owner]), "delta", "value") => Trails(calls[owner], "delta", "value")
  BY <1>2, <1>3, <1>7, AfterTail
<1>9. DeathsTold'
  BY <1>2, <1>5, <1>7, <1>8 DEF VitalsInv, DeathsTold
<1>10. HealthTold'
  <2>1. Due' <=> Due
    BY <1>2 DEF Due
  <2> QED BY <1>2, <1>3, <1>5, <1>7, <1>8, <2>1 DEF VitalsInv, HealthTold
<1> QED BY <1>2, <1>6, <1>9, <1>10 DEF VitalsInv, Unowned

(* The actor is assigned to its first owner.                                 *)
LEMMA AssignedKeepsInv ==
    ASSUME VitalsInv, NEW c \in Clients, Assigned(c)
    PROVE  VitalsInv'
<1>1. /\ near = {} /\ owner' = c /\ near' = {c}
      /\ UNCHANGED <<health, dead, small, told, record, calls, notices, overtaken>>
  BY DEF Assigned
<1>2. /\ \A d \in Clients : calls[d] = <<>> /\ notices[d] = <<>> /\ small[d] = 0
      /\ health[c] = Full /\ told.health = Full /\ record = told
  BY <1>1 DEF VitalsInv, Unowned
<1>3. VitalsTypes'
  BY <1>1 DEF VitalsInv, VitalsTypes
<1>4. OwnerReports'
  BY <1>1, <1>2, EmptySeq DEF OwnerReports
<1>5. DeathsTold'
  BY <1>1, <1>2, OfNothing DEF DeathsTold
<1>6. HealthTold'
  BY <1>1, <1>2, OfNothing DEF HealthTold
<1> QED BY <1>1, <1>3, <1>4, <1>5, <1>6 DEF VitalsInv, Unowned

(* A player comes near and is told of the actor as the server records it.    *)
LEMMA ApproachesKeepsInv ==
    ASSUME VitalsInv, NEW c \in Clients, Approaches(c)
    PROVE  VitalsInv'
<1> DEFINE m == [type |-> "spawn", health |-> record.health, dead |-> record.dead]
<1>1. /\ near # {} /\ c \notin near /\ near' = near \cup {c}
      /\ notices' = Posted(notices, {c}, m)
      /\ UNCHANGED <<owner, health, dead, small, told, record, calls, overtaken>>
  BY DEF Approaches
<1>2. owner \in near /\ owner \in Clients /\ c # owner
  BY <1>1 DEF VitalsInv, VitalsTypes, OwnerReports
<1>4. m \in VitalsNotices
  BY DEF VitalsInv, VitalsTypes, Conditions, VitalsNotices
<1> HIDE DEF m
<1>5. notices' \in [Clients -> Seq(VitalsNotices)]
  BY <1>1, <1>4, PostedQueues DEF VitalsInv, VitalsTypes
<1>6. notices'[owner] = notices[owner]
  BY <1>1, <1>2 DEF Posted
<1>7. VitalsTypes'
  BY <1>1, <1>5 DEF VitalsInv, VitalsTypes
<1>8. OwnerReports' /\ DeathsTold'
  BY <1>1, <1>2, <1>6 DEF VitalsInv, OwnerReports, DeathsTold
<1>9. HealthTold'
  <2>1. Due' <=> Due
    BY <1>1 DEF Due
  <2> QED BY <1>1, <1>6, <2>1 DEF VitalsInv, HealthTold
<1> QED BY <1>1, <1>7, <1>8, <1>9 DEF VitalsInv, Unowned

(* Every step keeps the invariant.                                           *)
LEMMA VitalsNextInv == VitalsInv /\ [VitalsNext]_vitalsVars => VitalsInv'
<1> SUFFICES ASSUME VitalsInv, [VitalsNext]_vitalsVars PROVE VitalsInv'
  OBVIOUS
<1>1. CASE UNCHANGED vitalsVars
  <2>1. UNCHANGED <<owner, health, dead, small, told, record, near, calls, notices, overtaken>>
    BY <1>1 DEF vitalsVars
  <2> QED BY <2>1 DEF VitalsInv, VitalsTypes, Unowned, OwnerReports, DeathsTold, HealthTold, Due
<1>2. CASE Resurrect \/ TellDeath \/ TellHealth
  BY <1>2, ResurrectKeepsInv, TellDeathKeepsInv, TellHealthKeepsInv
<1>3. ASSUME NEW n \in Blows, Cure(n) PROVE VitalsInv'
  BY <1>3, CureKeepsInv
<1>4. ASSUME NEW c \in Clients, NEW n \in Blows, Blow(c, n) PROVE VitalsInv'
  BY <1>4, BlowKeepsInv
<1>5. ASSUME NEW c \in Clients,
             RunSmallHealthUpdates(c) \/ Notices(c) \/ Assigned(c) \/ Approaches(c)
      PROVE  VitalsInv'
  BY <1>5, SmallUpdatesKeepInv, NoticesKeepInv, AssignedKeepsInv, ApproachesKeepsInv
<1>6. ASSUME NEW c \in Clients,
             OnHealthChangeBroadcast(c) \/ OnActorValueChanges(c) \/ OnDeathStateChange(c)
      PROVE  VitalsInv'
  BY <1>6, HealthChangeKeepsInv, ValuesKeepInv, DeathChangeKeepsInv
<1> QED BY <1>1, <1>2, <1>3, <1>4, <1>5, <1>6 DEF VitalsNext

(* Health, death and the messages about them keep their types, and in every    *)
(* state the owner's last reports are on their way or kept, or it has another  *)
(* one to make.                                                                *)
THEOREM VitalsInvariant == VitalsSpec => []VitalsInv
<1>1. VitalsInit => VitalsInv
  BY InitVitals
<1>2. VitalsInv /\ [VitalsNext]_vitalsVars => VitalsInv'
  BY VitalsNextInv
<1> QED BY <1>1, <1>2, PTL DEF VitalsSpec

(* The types of Vitals hold for any clients, blows and cures                 *)
(* (ActorValueService of client and server).                                 *)
THEOREM VitalsTypesHold == VitalsSpec => []VitalsTypeOK
<1>1. VitalsInv => VitalsTypeOK
  BY DEF VitalsInv, VitalsTypes, OwnerReports, Conditions, VitalsTypeOK
<1> QED BY <1>1, VitalsInvariant, PTL

(* When all is told and read, the record of the server is what the owner has,  *)
(* for any number of clients, blows and cures.                                 *)
THEOREM RecordAlwaysRecovers == VitalsSpec => []RecordRecovers
<1>1. VitalsInv => RecordRecovers
  <2> SUFFICES ASSUME VitalsInv, Told, ~overtaken
               PROVE  record = [health |-> health[owner], dead |-> dead[owner]]
    BY DEF RecordRecovers
  <2>1. near # {} /\ owner \in Clients
    BY DEF Told, VitalsInv, VitalsTypes, OwnerReports
  <2>2. /\ calls[owner] = <<>> /\ notices[owner] = <<>>
        /\ told = [health |-> health[owner], dead |-> dead[owner]]
    BY <2>1 DEF Told
  <2>3. record.dead = told.dead
    BY <2>1, <2>2, OfNothing DEF VitalsInv, DeathsTold
  <2>4. record.health = told.health
    <3>1. ~Due
      BY <2>2 DEF Due
    <3> QED BY <2>1, <2>2, <3>1, OfNothing DEF VitalsInv, HealthTold
  <2>5. record \in Conditions /\ told \in Conditions
    BY DEF VitalsInv, VitalsTypes
  <2> QED BY <2>2, <2>3, <2>4, <2>5 DEF Conditions
<1> QED BY <1>1, VitalsInvariant, PTL

---------------------------------------------------------------------------
(* The copies of the actor *)

\* By how much a message changes the health
Worth(m) == IF m.type = "delta" THEN m.health ELSE 0

\* The messages of s change the health by d: p[i] is what the first i of them do
Sums(s, d) ==
    \E p \in [0 .. Len(s) -> Int] :
        /\ p[0] = 0 /\ p[Len(s)] = d
        /\ \A i \in 1 .. Len(s) : Worth(s[i]) = p[i] - p[i - 1]
        /\ \A i \in 0 .. Len(s) :
              (\A k \in (i + 1) .. Len(s) : Worth(s[k]) = 0) => p[i] = d

\* Only the first message of s may be to spawn the actor
SpawnsFirst(s) == \A i \in 2 .. Len(s) : s[i].type # "spawn"

Losses == {m \in Deltas : m.health < 0}
Gains == {m \in Deltas : m.health > 0}
Fates == [type : {"dead"}, dead : BOOLEAN]
FatesAt(b) == {m \in Fates : m.dead = b}

\* One message on its way is in K
OnWay(K) == \E c \in Clients : Carries(calls[c], K) \/ Carries(notices[c], K)

\* Losses, or gains, of health that not everybody has heard of
Wounding == OnWay(Losses) \/ \E c \in Clients : small[c] < 0
Healing == OnWay(Gains) \/ \E c \in Clients : small[c] > 0

\* c is to spawn the actor; and what the actor is like in its game, or then will be
Fresh(c) == notices[c] # <<>> /\ Head(notices[c]).type = "spawn"
HealthAt(c) == IF Fresh(c) THEN Head(notices[c]).health ELSE health[c]
DeadAt(c) == IF Fresh(c) THEN Head(notices[c]).dead ELSE dead[c]

Copies == near \ amiss

\* The owner has resurrected the actor, and not everybody in range has heard of it
Raised == (told.dead /\ ~dead[owner]) \/ OnWay(FatesAt(FALSE))

\* c has yet to hear of the actor's death or resurrection
Awaits(c) ==
    \/ told.dead # dead[owner]
    \/ Carries(calls[owner], Fates) \/ Carries(notices[c], Fates)

\* What c has yet to hear makes up for what of its own the server has yet to hear
Balanced(c) ==
    \E a, b \in Int :
        /\ Sums(notices[c], a) /\ Sums(calls[c], b)
        /\ HealthAt(c) + a = tally + b + small[c]

\* Nothing happens to the actor while others hear that it has been resurrected
RaisedCopies ==
    Raised =>
       /\ ~Wounding /\ ~Healing /\ ~dead[owner] /\ health[owner] = Full
       /\ \A c \in Copies \ {owner} : IF DeadAt(c) THEN Awaits(c) ELSE HealthAt(c) = Full
       /\ ~told.dead /\ ~Carries(calls[owner], Fates) => tally = Full

\* Otherwise all have the same health but for what they have yet to hear, and a
\* copy is dead for its own lack of health or because the owner's is
BalancedCopies ==
    ~Raised => \A c \in Copies :
       /\ Balanced(c)
       /\ DeadAt(c) => HealthAt(c) <= 0 \/ dead[owner]
       /\ dead[owner] => DeadAt(c) \/ Awaits(c)

\* A copy without health is dead; and while there are gains on their way, none is
DeadCopies ==
    /\ OnWay(FatesAt(TRUE)) => dead[owner]
    /\ \A c \in Copies : HealthAt(c) <= 0 => DeadAt(c)
    /\ ~(Wounding /\ Healing)
    /\ Healing => /\ ~OnWay(Fates) /\ ~told.dead /\ ~dead[owner]
                  /\ \A c \in Copies : ~DeadAt(c)

CopiesKept == RaisedCopies /\ BalancedCopies /\ DeadCopies

\* Those out of range have said and heard nothing
Strangers ==
    \A c \in Clients \ near : calls[c] = <<>> /\ notices[c] = <<>> /\ small[c] = 0

\* If the owner's copy is excepted, so is every other
Excepted ==
    /\ amiss \subseteq Clients /\ (near = {} => amiss = {} /\ tally = Full)
    /\ near # {} /\ owner \in amiss => amiss = Clients

CopiesFrame ==
    /\ tally \in Int /\ Excepted /\ Strangers
    /\ \A c \in Clients : SpawnsFirst(notices[c])

CopiesInv == CopiesFrame /\ (near # {} /\ owner \notin amiss => CopiesKept)

---------------------------------------------------------------------------
(* One message more changes the health by what it is worth.                  *)
LEMMA SumOfMore ==
    ASSUME NEW S, NEW s \in Seq(S), NEW m \in S, Worth(m) \in Int, NEW d \in Int, Sums(s, d)
    PROVE  Sums(Append(s, m), d + Worth(m))
<1> DEFINE t == Append(s, m)
           n == Len(s)
           w == Worth(m)
<1>1. n \in Nat /\ Len(t) = n + 1 /\ t[n + 1] = m /\ \A i \in 1 .. n : t[i] = s[i]
  BY AppendProperties, LenProperties
<1>2. PICK p \in [0 .. n -> Int] :
         /\ p[0] = 0 /\ p[n] = d
         /\ \A i \in 1 .. n : Worth(s[i]) = p[i] - p[i - 1]
         /\ \A i \in 0 .. n : (\A k \in (i + 1) .. n : Worth(s[k]) = 0) => p[i] = d
  BY DEF Sums
<1> HIDE DEF t, n
<1> DEFINE q == [i \in 0 .. (n + 1) |-> IF i = n + 1 THEN d + w ELSE p[i]]
<1>3. Worth(t[n + 1]) = w /\ w \in Int
  BY <1>1
<1> HIDE DEF w
<1>4. /\ q \in [0 .. (n + 1) -> Int] /\ q[n + 1] = d + w
      /\ \A i \in 0 .. n : q[i] = p[i]
  BY <1>1, <1>3
<1> HIDE DEF q
<1>5. q[0] = 0
  BY <1>1, <1>2, <1>4
<1>6. \A i \in 1 .. (n + 1) : Worth(t[i]) = q[i] - q[i - 1]
  <2> TAKE i \in 1 .. (n + 1)
  <2>1. CASE i = n + 1
    BY <1>1, <1>2, <1>3, <1>4, <2>1
  <2>2. CASE i \in 1 .. n
    <3>1. i - 1 \in 0 .. n /\ i \in 0 .. n /\ t[i] = s[i]
      BY <1>1, <2>2
    <3> QED BY <1>2, <1>4, <2>2, <3>1
  <2> QED BY <1>1, <2>1, <2>2
<1>7. ASSUME NEW i \in 0 .. (n + 1), \A k \in (i + 1) .. (n + 1) : Worth(t[k]) = 0
      PROVE  q[i] = d + w
  <2>1. CASE i = n + 1
    BY <1>4, <2>1
  <2>2. CASE i \in 0 .. n
    <3>1. w = 0
      BY <1>1, <1>3, <1>7, <2>2
    <3>2. \A k \in (i + 1) .. n : Worth(s[k]) = 0
      BY <1>1, <1>7, <2>2
    <3> QED BY <1>2, <1>4, <2>2, <3>1, <3>2
  <2> QED BY <1>1, <2>1, <2>2
<1>8. \E r \in [0 .. Len(t) -> Int] :
        /\ r[0] = 0 /\ r[Len(t)] = d + w
        /\ \A i \in 1 .. Len(t) : Worth(t[i]) = r[i] - r[i - 1]
        /\ \A i \in 0 .. Len(t) :
              (\A k \in (i + 1) .. Len(t) : Worth(t[k]) = 0) => r[i] = d + w
  <2>1. Len(t) = n + 1
    BY <1>1
  <2>2. q \in [0 .. Len(t) -> Int]
    BY <1>4, <2>1
  <2> WITNESS q \in [0 .. Len(t) -> Int]
  <2> QED BY <1>4, <1>5, <1>6, <1>7, <2>1
<1> QED BY <1>8 DEF Sums, t, w

(* One message less changes it by that much less.                            *)
LEMMA SumOfFewer ==
    ASSUME NEW S, NEW s \in Seq(S), s # <<>>, Worth(Head(s)) \in Int, NEW d \in Int, Sums(s, d)
    PROVE  Sums(Tail(s), d - Worth(Head(s)))
<1> DEFINE t == Tail(s)
           n == Len(s)
           w == Worth(Head(s))
<1>1. /\ n \in Nat \ {0} /\ Len(t) = n - 1 /\ Head(s) = s[1]
      /\ \A i \in 1 .. Len(t) : t[i] = s[i + 1]
  <2>1. Len(t) = n - 1 /\ \A i \in 1 .. Len(t) : t[i] = s[i + 1]
    BY HeadTailProperties
  <2>2. n \in Nat \ {0}
    BY EmptySeq
  <2> QED BY <2>1, <2>2
<1>2. PICK p \in [0 .. n -> Int] :
         /\ p[0] = 0 /\ p[n] = d
         /\ \A i \in 1 .. n : Worth(s[i]) = p[i] - p[i - 1]
         /\ \A i \in 0 .. n : (\A k \in (i + 1) .. n : Worth(s[k]) = 0) => p[i] = d
  BY DEF Sums
<1>3. w = Worth(s[1]) /\ w \in Int
  BY <1>1
<1> HIDE DEF t, n, w
<1>4. p[1] = w
  BY <1>1, <1>2, <1>3
<1> DEFINE q == [i \in 0 .. (n - 1) |-> p[i + 1] - w]
<1>5. q \in [0 .. (n - 1) -> Int] /\ \A i \in 0 .. (n - 1) : q[i] = p[i + 1] - w
  BY <1>1, <1>3
<1> HIDE DEF q
<1>6. q[0] = 0 /\ q[n - 1] = d - w
  BY <1>1, <1>2, <1>3, <1>4, <1>5
<1>7. ASSUME NEW i \in 1 .. (n - 1) PROVE Worth(t[i]) = q[i] - q[i - 1]
  <2>1. i + 1 \in 1 .. n /\ i \in 0 .. (n - 1) /\ i - 1 \in 0 .. (n - 1)
    BY <1>1
  <2>2. i + 1 \in 0 .. n /\ i \in 0 .. n /\ (i + 1) - 1 = i /\ (i - 1) + 1 = i
    BY <1>1
  <2>3. Worth(t[i]) = p[i + 1] - p[i]
    BY <1>1, <1>2, <2>1, <2>2
  <2>4. q[i] = p[i + 1] - w /\ q[i - 1] = p[i] - w
    BY <1>5, <2>1, <2>2
  <2>5. p[i + 1] \in Int /\ p[i] \in Int
    BY <1>2, <2>2
  <2> QED BY <1>3, <2>3, <2>4, <2>5
<1>8. ASSUME NEW i \in 0 .. (n - 1), \A k \in (i + 1) .. (n - 1) : Worth(t[k]) = 0
      PROVE  q[i] = d - w
  <2>1. \A k \in (i + 2) .. n : Worth(s[k]) = 0
    <3> TAKE k \in (i + 2) .. n
    <3>1. k - 1 \in (i + 1) .. (n - 1) /\ t[k - 1] = s[k]
      BY <1>1
    <3> QED BY <1>8, <3>1
  <2>2. i + 1 \in 0 .. n /\ (i + 1) + 1 = i + 2
    BY <1>1
  <2>3. p[i + 1] = d
    BY <1>2, <2>1, <2>2
  <2> QED BY <1>5, <2>3
<1>9. \E r \in [0 .. Len(t) -> Int] :
        /\ r[0] = 0 /\ r[Len(t)] = d - w
        /\ \A i \in 1 .. Len(t) : Worth(t[i]) = r[i] - r[i - 1]
        /\ \A i \in 0 .. Len(t) :
              (\A k \in (i + 1) .. Len(t) : Worth(t[k]) = 0) => r[i] = d - w
  <2>1. Len(t) = n - 1
    BY <1>1
  <2>2. q \in [0 .. Len(t) -> Int]
    BY <1>5, <2>1
  <2> WITNESS q \in [0 .. Len(t) -> Int]
  <2> QED BY <1>5, <1>6, <1>7, <1>8, <2>1
<1> QED BY <1>9 DEF Sums, t, w

(* Messages that are worth nothing change nothing.                           *)
LEMMA SumOfNone ==
    ASSUME NEW S, NEW s \in Seq(S), \A i \in 1 .. Len(s) : Worth(s[i]) = 0
    PROVE  Sums(s, 0) /\ \A d : Sums(s, d) => d = 0
<1>1. Len(s) \in Nat
  BY LenProperties
<1>2. Sums(s, 0)
  <2> DEFINE q == [i \in 0 .. Len(s) |-> 0]
  <2>1. q \in [0 .. Len(s) -> Int] /\ \A i \in 0 .. Len(s) : q[i] = 0
    OBVIOUS
  <2> HIDE DEF q
  <2>2. \A i \in 1 .. Len(s) : Worth(s[i]) = q[i] - q[i - 1]
    <3> TAKE i \in 1 .. Len(s)
    <3>1. i \in 0 .. Len(s) /\ i - 1 \in 0 .. Len(s)
      BY <1>1
    <3> QED BY <2>1, <3>1
  <2>3. q[0] = 0 /\ q[Len(s)] = 0
    BY <1>1, <2>1
  <2>4. \E p \in [0 .. Len(s) -> Int] :
           /\ p[0] = 0 /\ p[Len(s)] = 0
           /\ \A i \in 1 .. Len(s) : Worth(s[i]) = p[i] - p[i - 1]
           /\ \A i \in 0 .. Len(s) :
                 (\A k \in (i + 1) .. Len(s) : Worth(s[k]) = 0) => p[i] = 0
    BY <2>1, <2>2, <2>3
  <2> QED BY <2>4 DEF Sums
<1>3. ASSUME NEW d, Sums(s, d) PROVE d = 0
  <2>1. PICK p \in [0 .. Len(s) -> Int] :
           /\ p[0] = 0 /\ p[Len(s)] = d
           /\ \A i \in 0 .. Len(s) :
                 (\A k \in (i + 1) .. Len(s) : Worth(s[k]) = 0) => p[i] = d
    BY <1>3 DEF Sums
  <2>2. \A k \in (0 + 1) .. Len(s) : Worth(s[k]) = 0
    BY <1>1
  <2>3. 0 \in 0 .. Len(s)
    BY <1>1
  <2> QED BY <2>1, <2>2, <2>3
<1> QED BY <1>2, <1>3

(* What the messages are worth.                                              *)
LEMMA WhatIsWorth ==
    ASSUME NEW m \in VitalsNotices
    PROVE  /\ Worth(m) \in Int
           /\ m.type = "delta" => m.health # 0 /\ Worth(m) = m.health /\ m \in Losses \cup Gains
           /\ m.type # "delta" => Worth(m) = 0 /\ m \notin Losses /\ m \notin Gains
           /\ m.type = "dead" <=> m \in Fates
           /\ m.type = "dead" => m.dead \in BOOLEAN /\ m \in FatesAt(m.dead)
           /\ m \in Losses => m.health < 0
           /\ m \in Gains => m.health > 0
           /\ \A b : m \in FatesAt(b) => m.type = "dead" /\ m.dead = b
<1>1. m.type = "delta" => m \in Deltas /\ m.health \in Int \ {0}
  BY CallKinds
<1>2. m.type = "dead" => m \in Fates /\ m.dead \in BOOLEAN
  BY DEF VitalsNotices, Calls, Deltas, Fates
<1>3. m \in Deltas => m.type = "delta"
  BY DEF Deltas
<1>4. m \in Fates => m.type = "dead"
  BY DEF Fates
<1>5. m \in Deltas => m.health < 0 \/ m.health > 0
  BY <1>1, <1>3
<1> QED BY <1>1, <1>2, <1>3, <1>4, <1>5 DEF Worth, Losses, Gains, FatesAt

(* A queue without losses and gains changes nothing.                         *)
LEMMA SumOfStill ==
    ASSUME NEW s \in Seq(VitalsNotices), ~Carries(s, Losses), ~Carries(s, Gains)
    PROVE  Sums(s, 0) /\ \A d : Sums(s, d) => d = 0
<1>1. \A i \in 1 .. Len(s) : s[i] \in VitalsNotices
  OBVIOUS
<1>2. \A i \in 1 .. Len(s) : Worth(s[i]) = 0
  BY <1>1, WhatIsWorth DEF Carries
<1> QED BY <1>2, SumOfNone

(* The first message stays the first while there are others behind it.       *)
LEMMA SpawnsFirstStays ==
    ASSUME NEW S, NEW s \in Seq(S), SpawnsFirst(s)
    PROVE  /\ \A m \in S : m.type # "spawn" \/ s = <<>> => SpawnsFirst(Append(s, m))
           /\ \A m \in S : /\ Append(s, m) # <<>>
                           /\ Head(Append(s, m)) = IF s = <<>> THEN m ELSE Head(s)
           /\ s # <<>> => /\ SpawnsFirst(Tail(s))
                          /\ Tail(s) # <<>> => Head(Tail(s)).type # "spawn"
<1>1. ASSUME NEW m \in S
      PROVE  /\ m.type # "spawn" \/ s = <<>> => SpawnsFirst(Append(s, m))
             /\ Append(s, m) # <<>>
             /\ Head(Append(s, m)) = IF s = <<>> THEN m ELSE Head(s)
  <2> DEFINE t == Append(s, m)
             n == Len(s)
  <2>1. /\ n \in Nat /\ Len(t) = n + 1 /\ t[n + 1] = m /\ \A i \in 1 .. n : t[i] = s[i]
        /\ t \in Seq(S) /\ t # <<>> /\ Head(t) = t[1]
    BY AppendProperties, LenProperties, HeadTailProperties
  <2>2. (s = <<>> <=> n = 0) /\ (s # <<>> => Head(s) = s[1])
    BY EmptySeq, HeadTailProperties
  <2> HIDE DEF t, n
  <2>3. Head(t) = IF s = <<>> THEN m ELSE Head(s)
    BY <2>1, <2>2
  <2>4. ASSUME m.type # "spawn" \/ s = <<>>, NEW i \in 2 .. Len(t) PROVE t[i].type # "spawn"
    <3>1. CASE i = n + 1
      BY <2>1, <2>2, <2>4, <3>1
    <3>2. CASE i \in 2 .. n
      BY <2>1, <3>2 DEF SpawnsFirst, n
    <3> QED BY <2>1, <3>1, <3>2
  <2> QED BY <2>1, <2>3, <2>4 DEF SpawnsFirst, t
<1>2. ASSUME s # <<>>
      PROVE  SpawnsFirst(Tail(s)) /\ (Tail(s) # <<>> => Head(Tail(s)).type # "spawn")
  <2> DEFINE t == Tail(s)
             n == Len(s)
  <2>1. /\ n \in Nat \ {0} /\ Len(t) = n - 1 /\ t \in Seq(S)
        /\ \A i \in 1 .. Len(t) : t[i] = s[i + 1]
    <3>1. Len(t) = n - 1 /\ t \in Seq(S) /\ \A i \in 1 .. Len(t) : t[i] = s[i + 1]
      BY <1>2, HeadTailProperties
    <3>2. n \in Nat \ {0}
      BY <1>2, EmptySeq
    <3> QED BY <3>1, <3>2
  <2>2. t # <<>> => Head(t) = t[1] /\ Len(t) # 0
    BY <2>1, HeadTailProperties, EmptySeq
  <2> HIDE DEF t, n
  <2>3. \A i \in 1 .. Len(t) : i + 1 \in 2 .. n
    BY <2>1
  <2>4. \A i \in 1 .. Len(t) : t[i].type # "spawn"
    BY <2>1, <2>3 DEF SpawnsFirst, n
  <2> QED BY <2>1, <2>2, <2>4 DEF SpawnsFirst, t
<1> QED BY <1>1, <1>2

---------------------------------------------------------------------------
(* What the excepted states go by shows what is on its way.                    *)
LEMMA TravellingTells ==
    ASSUME VitalsInv
    PROVE  /\ Wounding => \E d \in Travelling : Loss(d)
           /\ Healing => \E d \in Travelling : ~Loss(d)
           /\ near # {} /\ told.dead # dead[owner] => DeathUntold
           /\ OnWay(Fates) => DeathUntold
<1>1. /\ calls \in [Clients -> Seq(Calls)] /\ notices \in [Clients -> Seq(VitalsNotices)]
      /\ small \in [Clients -> Int]
  BY DEF VitalsInv, VitalsTypes
<1>2. ASSUME NEW K, OnWay(K)
      PROVE  \E c \in Clients : \E m \in ToSet(calls[c]) \cup ToSet(notices[c]) : m \in K
  <2>1. PICK c \in Clients : Carries(calls[c], K) \/ Carries(notices[c], K)
    BY <1>2 DEF OnWay
  <2>2. DOMAIN calls[c] = 1 .. Len(calls[c]) /\ DOMAIN notices[c] = 1 .. Len(notices[c])
    BY <1>1
  <2> QED BY <2>1, <2>2 DEF Carries, ToSet
<1>3. ASSUME NEW K \in SUBSET Deltas, OnWay(K) PROVE \E d \in Travelling : \E m \in K : d = m.health
  <2>1. PICK c \in Clients : \E m \in ToSet(calls[c]) \cup ToSet(notices[c]) : m \in K
    BY <1>2, <1>3
  <2>2. PICK m \in ToSet(calls[c]) \cup ToSet(notices[c]) : m \in K
    BY <2>1
  <2>3. m.type = "delta"
    BY <2>2, CallKinds
  <2>4. m.health \in {x.health : x \in {n \in ToSet(calls[c]) \cup ToSet(notices[c]) : n.type = "delta"}}
    BY <2>2, <2>3
  <2>5. m.health \in Travelling
    BY <2>4 DEF Travelling
  <2> QED BY <2>2, <2>5
<1>4. \A c \in Clients : small[c] # 0 => small[c] \in Travelling
  BY DEF Travelling
<1>5. Losses \in SUBSET Deltas /\ Gains \in SUBSET Deltas
  BY DEF Losses, Gains
<1>6. Wounding => \E d \in Travelling : Loss(d)
  <2>1. OnWay(Losses) => \E d \in Travelling : \E m \in Losses : d = m.health
    BY <1>3, <1>5
  <2>2. \A m \in Losses : m.health < 0
    BY DEF Losses
  <2>3. \A c \in Clients : small[c] < 0 => small[c] # 0
    BY <1>1
  <2> QED BY <1>4, <2>1, <2>2, <2>3 DEF Wounding, Loss
<1>7. Healing => \E d \in Travelling : ~Loss(d)
  <2>1. OnWay(Gains) => \E d \in Travelling : \E m \in Gains : d = m.health
    BY <1>3, <1>5
  <2>2. \A m \in Gains : ~(m.health < 0)
    BY CallKinds DEF Gains
  <2>3. \A c \in Clients : small[c] > 0 => small[c] # 0 /\ ~(small[c] < 0)
    BY <1>1
  <2> QED BY <1>4, <2>1, <2>2, <2>3 DEF Healing, Loss
<1>8. OnWay(Fates) => DeathUntold
  <2> SUFFICES ASSUME OnWay(Fates) PROVE DeathUntold
    OBVIOUS
  <2>1. PICK c \in Clients : \E m \in ToSet(calls[c]) \cup ToSet(notices[c]) : m \in Fates
    BY <1>2
  <2>2. \A m \in Fates : m.type = "dead"
    BY DEF Fates
  <2> QED BY <2>1, <2>2 DEF DeathUntold
<1> QED BY <1>6, <1>7, <1>8 DEF DeathUntold

(* A client tells the server something.                                      *)
LEMMA SaidMore ==
    ASSUME VitalsTypes, NEW c \in Clients, NEW m \in Calls,
           calls' = [calls EXCEPT ![c] = Append(@, m)], notices' = notices
    PROVE  /\ calls'[c] = Append(calls[c], m) /\ \A e \in Clients : e # c => calls'[e] = calls[e]
           /\ \A K : (OnWay(K))' <=> OnWay(K) \/ m \in K
           /\ \A K : Carries(calls'[c], K) <=> Carries(calls[c], K) \/ m \in K
           /\ Worth(m) \in Int
           /\ \A d \in Int : Sums(calls[c], d) => Sums(calls'[c], d + Worth(m))
<1>1. calls \in [Clients -> Seq(Calls)] /\ calls[c] \in Seq(Calls)
  BY DEF VitalsTypes
<1>2. calls'[c] = Append(calls[c], m) /\ \A e \in Clients : e # c => calls'[e] = calls[e]
  BY <1>1
<1>3. \A K : Carries(calls'[c], K) <=> Carries(calls[c], K) \/ m \in K
  BY <1>1, <1>2, CarriesMore
<1>4. ASSUME NEW K PROVE (OnWay(K))' <=> OnWay(K) \/ m \in K
  BY <1>2, <1>3 DEF OnWay
<1>5. Worth(m) \in Int
  BY CallKinds, WhatIsWorth
<1>6. \A d \in Int : Sums(calls[c], d) => Sums(calls'[c], d + Worth(m))
  BY <1>1, <1>2, <1>5, SumOfMore
<1> QED BY <1>2, <1>3, <1>4, <1>5, <1>6

(* A client reads its first message.                                         *)
LEMMA HeardLess ==
    ASSUME VitalsTypes, NEW c \in Clients, notices[c] # <<>>, SpawnsFirst(notices[c]),
           notices' = Read(notices, c), calls' = calls
    PROVE  LET m == Head(notices[c]) IN
           /\ notices'[c] = Tail(notices[c])
           /\ \A e \in Clients : e # c => notices'[e] = notices[e]
           /\ m \in VitalsNotices
           /\ \A K : ((OnWay(K))' => OnWay(K)) /\ (m \in K => OnWay(K))
           /\ \A K : m \notin K => (Carries(notices'[c], K) <=> Carries(notices[c], K))
           /\ SpawnsFirst(notices'[c]) /\ ~(Fresh(c))'
           /\ Worth(m) \in Int
           /\ \A d \in Int : Sums(notices[c], d) => Sums(notices'[c], d - Worth(m))
<1> DEFINE m == Head(notices[c])
<1>1. notices \in [Clients -> Seq(VitalsNotices)] /\ notices[c] \in Seq(VitalsNotices)
  BY DEF VitalsTypes
<1>2. /\ m \in VitalsNotices /\ notices'[c] = Tail(notices[c])
      /\ \A e \in Clients : e # c => notices'[e] = notices[e]
  BY <1>1, ReadQueues
<1>3. \A K : Carries(notices[c], K) <=> Carries(notices'[c], K) \/ m \in K
  BY <1>1, <1>2, CarriesLess
<1>4. ASSUME NEW K PROVE ((OnWay(K))' => OnWay(K)) /\ (m \in K => OnWay(K))
  BY <1>2, <1>3 DEF OnWay
<1>5. SpawnsFirst(notices'[c]) /\ ~(Fresh(c))'
  BY <1>1, <1>2, SpawnsFirstStays DEF Fresh
<1>6. Worth(m) \in Int
  BY <1>2, WhatIsWorth
<1>7. \A d \in Int : Sums(notices[c], d) => Sums(notices'[c], d - Worth(m))
  BY <1>1, <1>2, <1>6, SumOfFewer
<1> QED BY <1>2, <1>3, <1>4, <1>5, <1>6, <1>7

(* The server reads a message of c and passes it on.                         *)
LEMMA ServedOn ==
    ASSUME VitalsInv, CopiesFrame, NEW c \in Clients, NEW type, Serves(c, type)
    PROVE  LET m == Head(calls[c]) IN
           /\ m \in Calls /\ m.type = type /\ m \in VitalsNotices
           /\ UNCHANGED <<owner, health, dead, small, told, near, amiss>>
           /\ c \in near /\ near # {} /\ owner \in near
           /\ c # owner => m.type = "delta"
           /\ \A e \in Clients : e # c => calls'[e] = calls[e]
           /\ \A e \in Clients : e \notin near \ {c} => notices'[e] = notices[e]
           /\ \A K : Carries(calls[c], K) <=> Carries(calls'[c], K) \/ m \in K
           /\ \A K : \A e \in near \ {c} : Carries(notices'[e], K) <=> Carries(notices[e], K) \/ m \in K
           /\ \A K : ((OnWay(K))' => OnWay(K)) /\ (m \in K => OnWay(K))
           /\ \A e \in Clients : (HealthAt(e))' = HealthAt(e) /\ (DeadAt(e))' = DeadAt(e)
           /\ Worth(m) \in Int
           /\ \A d \in Int : Sums(calls[c], d) => Sums(calls'[c], d - Worth(m))
           /\ \A e \in near \ {c} : \A d \in Int :
                 Sums(notices[e], d) => Sums(notices'[e], d + Worth(m))
           /\ Strangers' /\ \A e \in Clients : SpawnsFirst(notices'[e])
<1> DEFINE m == Head(calls[c])
           R == near \ {c}
<1>1. /\ calls[c] # <<>> /\ m.type = type /\ calls' = Read(calls, c)
      /\ notices' = Posted(notices, R, m)
      /\ UNCHANGED <<owner, health, dead, small, told, near, amiss>>
  BY DEF Serves
<1>2. /\ calls \in [Clients -> Seq(Calls)] /\ notices \in [Clients -> Seq(VitalsNotices)]
      /\ calls[c] \in Seq(Calls) /\ near \subseteq Clients
      /\ \A e \in Clients : notices[e] \in Seq(VitalsNotices)
  BY DEF VitalsInv, VitalsTypes
<1>3. /\ m \in Calls /\ calls'[c] = Tail(calls[c])
      /\ \A d \in Clients : d # c => calls'[d] = calls[d]
  BY <1>1, <1>2, ReadQueues
<1>4. m \in VitalsNotices /\ Worth(m) \in Int /\ m.type # "spawn"
  <2>1. m \in VitalsNotices
    BY <1>3, CallKinds
  <2>2. m.type # "spawn"
    BY <1>3 DEF Calls, Deltas
  <2> QED BY <2>1, <2>2, WhatIsWorth
<1>5. c \in near
  BY <1>1 DEF CopiesFrame, Strangers
<1>6. owner \in near /\ (c # owner => m.type = "delta")
  <2>1. owner \in near /\ (c # owner => calls[c] \in Seq(Deltas))
    BY <1>5 DEF VitalsInv, OwnerReports
  <2>2. c # owner => m \in Deltas
    BY <1>1, <2>1, HeadTailProperties
  <2> QED BY <2>1, <2>2, CallKinds
<1> HIDE DEF m
<1>7. \A e \in Clients : notices'[e] = IF e \in R THEN Append(notices[e], m) ELSE notices[e]
  BY <1>1 DEF Posted, m
<1>8. \A K : Carries(calls[c], K) <=> Carries(calls'[c], K) \/ m \in K
  BY <1>1, <1>2, <1>3, CarriesLess DEF m
<1>9. ASSUME NEW e \in R
      PROVE  /\ \A K : Carries(notices'[e], K) <=> Carries(notices[e], K) \/ m \in K
             /\ \A d \in Int : Sums(notices[e], d) => Sums(notices'[e], d + Worth(m))
  <2>1. e \in Clients /\ notices'[e] = Append(notices[e], m) /\ notices[e] \in Seq(VitalsNotices)
    BY <1>2, <1>7, <1>9
  <2> QED BY <1>4, <2>1, CarriesMore, SumOfMore
<1>10. ASSUME NEW K PROVE ((OnWay(K))' => OnWay(K)) /\ (m \in K => OnWay(K))
  <2>1. m \in K => OnWay(K)
    BY <1>8 DEF OnWay
  <2>2. \A e \in Clients : Carries(calls'[e], K) => Carries(calls[e], K)
    BY <1>3, <1>8
  <2>3. \A e \in Clients : Carries(notices'[e], K) => Carries(notices[e], K) \/ m \in K
    <3> TAKE e \in Clients
    <3>1. CASE e \in R
      BY <1>9, <3>1
    <3>2. CASE e \notin R
      BY <1>7, <3>2
    <3> QED BY <3>1, <3>2
  <2> QED BY <2>1, <2>2, <2>3 DEF OnWay
<1>11. ASSUME NEW e \in Clients
       PROVE  /\ (HealthAt(e))' = HealthAt(e) /\ (DeadAt(e))' = DeadAt(e)
              /\ SpawnsFirst(notices'[e])
  <2>1. SpawnsFirst(notices[e]) /\ notices[e] \in Seq(VitalsNotices)
    BY <1>2 DEF CopiesFrame
  <2>2. CASE notices'[e] = notices[e]
    BY <1>1, <2>1, <2>2 DEF HealthAt, DeadAt, Fresh
  <2>3. CASE notices'[e] = Append(notices[e], m)
    <3>1. /\ SpawnsFirst(notices'[e]) /\ notices'[e] # <<>>
          /\ Head(notices'[e]) = IF notices[e] = <<>> THEN m ELSE Head(notices[e])
      BY <1>4, <2>1, <2>3, SpawnsFirstStays
    <3>2. (Fresh(e))' <=> Fresh(e)
      BY <1>4, <3>1 DEF Fresh
    <3>3. Fresh(e) => Head(notices'[e]) = Head(notices[e])
      BY <3>1 DEF Fresh
    <3> QED BY <1>1, <3>1, <3>2, <3>3 DEF HealthAt, DeadAt
  <2> QED BY <1>7, <2>2, <2>3
<1>12. \A d \in Int : Sums(calls[c], d) => Sums(calls'[c], d - Worth(m))
  BY <1>1, <1>2, <1>3, <1>4, SumOfFewer DEF m
<1>13. Strangers'
  BY <1>1, <1>3, <1>5, <1>7 DEF CopiesFrame, Strangers
<1>14. \A e \in Clients : e \notin R => notices'[e] = notices[e]
  BY <1>7
<1> QED
  BY <1>1, <1>3, <1>4, <1>5, <1>6, <1>8, <1>9, <1>10, <1>11, <1>12, <1>13, <1>14 DEF m

---------------------------------------------------------------------------
(* The owner's copy is as its game shows it, for it is never told to spawn the *)
(* actor, and hears of no death.                                               *)
LEMMA OwnersCopy ==
    ASSUME VitalsInv, near # {}
    PROVE  /\ owner \in near /\ owner \in Clients /\ ~Fresh(owner)
           /\ HealthAt(owner) = health[owner] /\ DeadAt(owner) = dead[owner]
<1>1. owner \in near /\ owner \in Clients /\ notices[owner] \in Seq(Deltas)
  BY DEF VitalsInv, VitalsTypes, OwnerReports
<1>2. notices[owner] # <<>> => Head(notices[owner]) \in Deltas
  BY <1>1, HeadTailProperties
<1>3. ~Fresh(owner)
  BY <1>2, CallKinds DEF Fresh
<1> QED BY <1>1, <1>3 DEF HealthAt, DeadAt

(* Who hears of an end hears of a death or of a resurrection.                *)
LEMMA FatesAreTwo ==
    /\ \A s : Carries(s, Fates) => Carries(s, FatesAt(TRUE)) \/ Carries(s, FatesAt(FALSE))
    /\ \A s, b : Carries(s, FatesAt(b)) => Carries(s, Fates)
<1>1. \A m \in Fates : m \in FatesAt(TRUE) \/ m \in FatesAt(FALSE)
  BY DEF Fates, FatesAt
<1>2. \A m, b : m \in FatesAt(b) => m \in Fates
  BY DEF FatesAt
<1> QED BY <1>1, <1>2 DEF Carries

(* A resurrection that is being told is one that is told or to be told.      *)
LEMMA RaisedIsUntold ==
    ASSUME VitalsInv, near # {}, ~DeathUntold
    PROVE  /\ ~Raised /\ ~OnWay(Fates) /\ told.dead = dead[owner]
           /\ \A c \in Clients : ~Awaits(c)
<1>1. ~OnWay(Fates) /\ told.dead = dead[owner]
  BY TravellingTells
<1>2. ~OnWay(FatesAt(FALSE))
  <2>1. \A s : Carries(s, FatesAt(FALSE)) => Carries(s, Fates)
    BY FatesAreTwo
  <2> QED BY <1>1, <2>1 DEF OnWay
<1>3. owner \in Clients
  BY OwnersCopy
<1> QED BY <1>1, <1>2, <1>3 DEF Raised, Awaits, OnWay

(* A step that changes no copy, and takes no news from anybody.              *)
LEMMA SameCopies ==
    ASSUME CopiesKept, owner' = owner, Copies' = Copies, owner \in Clients,
           told'.dead = told.dead, dead'[owner] = dead[owner], health'[owner] = health[owner],
           Raised => tally' = tally,
           \A c \in Copies : /\ (HealthAt(c))' = HealthAt(c) /\ (DeadAt(c))' = DeadAt(c)
                             /\ Balanced(c) => (Balanced(c))'
                             /\ Awaits(c) => (Awaits(c))',
           Carries(calls[owner], Fates) => Carries(calls'[owner], Fates),
           (OnWay(Fates))' => OnWay(Fates),
           \A b \in BOOLEAN : (OnWay(FatesAt(b)))' <=> OnWay(FatesAt(b)),
           Wounding' => Wounding, Healing' => Healing
    PROVE  CopiesKept'
<1>1. Raised' <=> Raised
  BY DEF Raised
<1>2. RaisedCopies'
  BY <1>1 DEF CopiesKept, RaisedCopies
<1>3. BalancedCopies'
  BY <1>1 DEF CopiesKept, BalancedCopies
<1>4. DeadCopies'
  BY DEF CopiesKept, DeadCopies
<1> QED BY <1>2, <1>3, <1>4 DEF CopiesKept

(* At the start nobody is in range.                                          *)
LEMMA InitCopies == VitalsInit => CopiesInv
<1> SUFFICES ASSUME VitalsInit PROVE CopiesInv
  OBVIOUS
<1>1. Full \in Int
  BY VitalsAssumption
<1> QED BY <1>1 DEF VitalsInit, CopiesInv, CopiesFrame, Excepted, Strangers, SpawnsFirst

(* Copies have a health.                                                     *)
LEMMA CopyTypes ==
    ASSUME VitalsTypes
    PROVE  \A c \in Clients : HealthAt(c) \in Int /\ DeadAt(c) \in BOOLEAN
<1> SUFFICES ASSUME NEW c \in Clients PROVE HealthAt(c) \in Int /\ DeadAt(c) \in BOOLEAN
  OBVIOUS
<1>1. health[c] \in Int /\ dead[c] \in BOOLEAN /\ notices[c] \in Seq(VitalsNotices)
  BY DEF VitalsTypes
<1>2. CASE Fresh(c)
  <2>1. Head(notices[c]) \in VitalsNotices
    BY <1>1, <1>2, HeadTailProperties DEF Fresh
  <2>2. Head(notices[c]).health \in Int /\ Head(notices[c]).dead \in BOOLEAN
    BY <1>2, <2>1, CallKinds DEF Fresh
  <2> QED BY <1>2, <2>2 DEF HealthAt, DeadAt
<1>3. CASE ~Fresh(c)
  BY <1>1, <1>3 DEF HealthAt, DeadAt
<1> QED BY <1>2, <1>3

(* What is told of neither gains nor losses.                                 *)
LEMMA StillTells ==
    ASSUME VitalsTypes, ~Wounding, ~Healing
    PROVE  \A c \in Clients :
              /\ small[c] = 0
              /\ Sums(notices[c], 0) /\ Sums(calls[c], 0)
              /\ \A d : Sums(notices[c], d) \/ Sums(calls[c], d) => d = 0
<1> SUFFICES ASSUME NEW c \in Clients
             PROVE  /\ small[c] = 0
                    /\ Sums(notices[c], 0) /\ Sums(calls[c], 0)
                    /\ \A d : Sums(notices[c], d) \/ Sums(calls[c], d) => d = 0
  OBVIOUS
<1>1. small[c] \in Int /\ calls[c] \in Seq(Calls) /\ notices[c] \in Seq(VitalsNotices)
  BY DEF VitalsTypes
<1>2. calls[c] \in Seq(VitalsNotices)
  BY <1>1, CallKinds
<1>3. /\ ~Carries(calls[c], Losses) /\ ~Carries(notices[c], Losses)
      /\ ~Carries(calls[c], Gains) /\ ~Carries(notices[c], Gains)
      /\ ~(small[c] < 0) /\ ~(small[c] > 0)
  BY DEF Wounding, Healing, OnWay
<1> QED BY <1>1, <1>2, <1>3, SumOfStill

(* When no gains or losses are on their way, the copies are all alike in health, *)
(* and are alive if the owner's is.                                          *)
LEMMA StillAlike ==
    ASSUME VitalsInv, CopiesFrame, CopiesKept, near # {}, owner \notin amiss,
           ~Raised, ~Wounding, ~Healing
    PROVE  \A c \in Copies : /\ HealthAt(c) = tally /\ HealthAt(c) = health[owner]
                             /\ ~dead[owner] => ~DeadAt(c)
<1>1. VitalsTypes /\ near \subseteq Clients /\ tally \in Int
  BY DEF VitalsInv, VitalsTypes, CopiesFrame
<1>2. ASSUME NEW c \in Copies PROVE HealthAt(c) = tally
  <2>1. c \in Clients
    BY <1>1 DEF Copies
  <2>2. PICK a \in Int, b \in Int : /\ Sums(notices[c], a) /\ Sums(calls[c], b)
                                    /\ HealthAt(c) + a = tally + b + small[c]
    BY DEF CopiesKept, BalancedCopies, Balanced
  <2>3. a = 0 /\ b = 0 /\ small[c] = 0
    BY <1>1, <2>1, <2>2, StillTells
  <2>4. HealthAt(c) \in Int
    BY <1>1, <2>1, CopyTypes
  <2> QED BY <1>1, <2>2, <2>3, <2>4
<1>3. owner \in Copies /\ HealthAt(owner) = health[owner] /\ DeadAt(owner) = dead[owner]
  BY OwnersCopy DEF Copies
<1>4. ASSUME NEW c \in Copies, DeadAt(c) PROVE dead[owner]
  <2>1. HealthAt(c) <= 0 \/ dead[owner]
    BY <1>4 DEF CopiesKept, BalancedCopies
  <2>2. HealthAt(owner) <= 0 => DeadAt(owner)
    BY <1>3 DEF CopiesKept, DeadCopies
  <2> QED BY <1>2, <1>3, <2>1, <2>2
<1> QED BY <1>2, <1>3, <1>4

(* A change of health that c makes in its own game and tells of, when there    *)
(* are only others like it on their way.                                       *)
LEMMA ChangeKeepsCopies ==
    ASSUME VitalsInv, CopiesFrame, CopiesKept, near # {},
           owner \notin amiss, ~DeathUntold,
           NEW c \in near, ~Fresh(c), NEW d \in Int \ {0}, Alter(c, d),
           UNCHANGED <<owner, told, near, notices, tally, amiss>>,
           \/ d < 0 /\ ~Healing
           \/ d > 0 /\ ~Wounding /\ c = owner /\ ~dead[owner],
           \/ /\ small' = [small EXCEPT ![c] = @ + d] /\ calls' = calls
           \/ /\ calls' = [calls EXCEPT ![c] = Append(@, Change(d))] /\ small' = small
    PROVE  CopiesKept'
<1>1. /\ c \in Clients /\ near \subseteq Clients /\ VitalsTypes
      /\ health \in [Clients -> Int] /\ small \in [Clients -> Int]
      /\ dead \in [Clients -> BOOLEAN]
      /\ owner \in near /\ owner \in Clients
      /\ HealthAt(owner) = health[owner] /\ DeadAt(owner) = dead[owner]
  BY OwnersCopy DEF VitalsInv, VitalsTypes
<1>2. Change(d) \in Calls /\ Worth(Change(d)) = d /\ Change(d) \notin Fates
      /\ (\A b : Change(d) \notin FatesAt(b))
      /\ (d < 0 => Change(d) \notin Gains) /\ (d > 0 => Change(d) \notin Losses)
  BY CallKinds DEF Change, Worth, Fates, FatesAt, Gains, Losses
<1>3. ~Raised /\ ~OnWay(Fates) /\ told.dead = dead[owner] /\ \A e \in Clients : ~Awaits(e)
  BY RaisedIsUntold
<1>4. /\ health' = [health EXCEPT ![c] = @ + d]
      /\ dead' = [dead EXCEPT ![c] = @ \/ health[c] + d <= 0]
  BY DEF Alter
<1>5. /\ \A K : (OnWay(K))' <=> OnWay(K) \/ (Change(d) \in K /\ calls' # calls)
      /\ \A e \in Clients : e # c => calls'[e] = calls[e] /\ small'[e] = small[e]
      /\ \A K : Change(d) \notin K => (Carries(calls'[c], K) <=> Carries(calls[c], K))
      /\ \A b \in Int : Sums(calls[c], b) =>
            \E a \in Int : Sums(calls'[c], a) /\ a + small'[c] = b + small[c] + d
  <2>1. CASE small' = [small EXCEPT ![c] = @ + d] /\ calls' = calls
    <3>1. \A K : (OnWay(K))' <=> OnWay(K)
      BY <2>1 DEF OnWay
    <3>2. small'[c] = small[c] + d /\ small[c] \in Int
      BY <1>1, <2>1
    <3>3. \A b \in Int : b + small'[c] = b + small[c] + d
      BY <3>2
    <3> QED BY <1>1, <2>1, <3>1, <3>3
  <2>2. CASE calls' = [calls EXCEPT ![c] = Append(@, Change(d))] /\ small' = small
    <3>1. /\ \A e \in Clients : e # c => calls'[e] = calls[e]
          /\ \A K : (OnWay(K))' <=> OnWay(K) \/ Change(d) \in K
          /\ \A K : Carries(calls'[c], K) <=> Carries(calls[c], K) \/ Change(d) \in K
          /\ \A b \in Int : Sums(calls[c], b) => Sums(calls'[c], b + d)
          /\ calls'[c] = Append(calls[c], Change(d))
      BY <1>1, <1>2, <2>2, SaidMore
    <3>2. calls' # calls
      <4>1. calls[c] \in Seq(Calls)
        BY <1>1 DEF VitalsTypes
      <4>2. Len(calls'[c]) = Len(calls[c]) + 1 /\ Len(calls[c]) \in Nat
        BY <1>2, <3>1, <4>1, AppendProperties, LenProperties
      <4> QED BY <4>2
    <3>3. \A b \in Int : b + d \in Int /\ b + d + small'[c] = b + small[c] + d
      BY <1>1, <2>2
    <3> QED BY <2>2, <3>1, <3>2, <3>3
  <2> QED BY <2>1, <2>2
<1>6. /\ ~(OnWay(Fates))' /\ ~(OnWay(FatesAt(FALSE)))'
      /\ \A b \in BOOLEAN : (OnWay(FatesAt(b)))' => OnWay(FatesAt(b))
  BY <1>2, <1>3, <1>5 DEF Raised
<1>7. Copies' = Copies
  BY DEF Copies
<1>8. \A e \in Clients : (Fresh(e))' <=> Fresh(e)
  BY DEF Fresh
<1>9. /\ \A e \in Clients : e # c => (HealthAt(e))' = HealthAt(e) /\ (DeadAt(e))' = DeadAt(e)
      /\ HealthAt(c) = health[c] /\ DeadAt(c) = dead[c]
      /\ (HealthAt(c))' = health[c] + d /\ (DeadAt(c))' = (dead[c] \/ health[c] + d <= 0)
  BY <1>1, <1>4, <1>8 DEF HealthAt, DeadAt
<1>10. /\ dead[owner] => dead'[owner]
       /\ owner # c => dead'[owner] = dead[owner]
  BY <1>1, <1>4
<1>11. ~Raised'
  BY <1>3, <1>6, <1>10 DEF Raised
<1>12. /\ d < 0 => ~Healing'
       /\ d > 0 => ~Wounding'
  <2>1. \A e \in Clients : e # c => small'[e] = small[e]
    BY <1>5
  <2>2. small'[c] = small[c] + d \/ small'[c] = small[c]
    BY <1>1
  <2>3. ASSUME d < 0 PROVE ~Healing'
    <3>1. ~OnWay(Gains) /\ \A e \in Clients : ~(small[e] > 0)
      BY <2>3 DEF Healing
    <3>2. \A e \in Clients : ~(small'[e] > 0)
      BY <1>1, <2>1, <2>2, <2>3, <3>1
    <3> QED BY <1>2, <1>5, <2>3, <3>1, <3>2 DEF Healing
  <2>4. ASSUME d > 0 PROVE ~Wounding'
    <3>1. ~OnWay(Losses) /\ \A e \in Clients : ~(small[e] < 0)
      BY <2>4 DEF Wounding
    <3>2. \A e \in Clients : ~(small'[e] < 0)
      BY <1>1, <2>1, <2>2, <2>4, <3>1
    <3> QED BY <1>2, <1>5, <2>4, <3>1, <3>2 DEF Wounding
  <2> QED BY <2>3, <2>4
<1>13. ASSUME NEW e \in Copies
       PROVE  /\ Balanced(e) /\ (DeadAt(e) => HealthAt(e) <= 0 \/ dead[owner])
              /\ dead[owner] => DeadAt(e)
              /\ HealthAt(e) <= 0 => DeadAt(e)
              /\ HealthAt(e) \in Int /\ e \in Clients
  <2>1. e \in Clients
    BY <1>1 DEF Copies
  <2>2. HealthAt(e) \in Int
    BY <1>1, <2>1, CopyTypes
  <2> QED BY <1>3, <2>1, <2>2 DEF CopiesKept, BalancedCopies, DeadCopies
<1>14. ASSUME NEW e \in Copies PROVE (Balanced(e))'
  <2>1. PICK a \in Int, b \in Int : /\ Sums(notices[e], a) /\ Sums(calls[e], b)
                                    /\ HealthAt(e) + a = tally + b + small[e]
    BY <1>13 DEF Balanced
  <2>2. CASE e # c
    <3>1. calls'[e] = calls[e] /\ small'[e] = small[e] /\ (HealthAt(e))' = HealthAt(e)
      BY <1>5, <1>9, <1>13, <2>2
    <3> QED BY <2>1, <3>1 DEF Balanced
  <2>3. CASE e = c
    <3>1. PICK b2 \in Int : Sums(calls'[e], b2) /\ b2 + small'[e] = b + small[e] + d
      BY <1>5, <2>1, <2>3
    <3>2. (HealthAt(e))' = HealthAt(e) + d
      BY <1>9, <2>3
    <3>3. tally \in Int /\ small[e] \in Int /\ small'[e] \in Int /\ HealthAt(e) \in Int
      BY <1>1, <1>13, <2>3 DEF CopiesFrame
    <3>4. HealthAt(e) + a = tally + b + small[e] /\ b2 + small'[e] = b + small[e] + d
      BY <2>1, <3>1
    <3>5. HealthAt(e) + d + a = tally + b2 + small'[e]
      BY <3>3, <3>4
    <3> QED BY <2>1, <3>1, <3>2, <3>5 DEF Balanced
  <2> QED BY <2>2, <2>3
<1>15. ASSUME d > 0 PROVE \A e \in Copies : ~DeadAt(e) /\ HealthAt(e) > 0
  <2> TAKE e \in Copies
  <2>1. ~DeadAt(e)
    <3>1. CASE Healing
      BY <3>1 DEF CopiesKept, DeadCopies
    <3>2. CASE ~Healing
      BY <1>1, <1>3, <1>13, <1>15, <3>2, StillAlike
    <3> QED BY <3>1, <3>2
  <2> QED BY <1>13, <2>1
<1>16. BalancedCopies'
  <2> SUFFICES ASSUME NEW e \in Copies
               PROVE  /\ (DeadAt(e))' => (HealthAt(e))' <= 0 \/ dead'[owner]
                      /\ dead'[owner] => (DeadAt(e))' \/ (Awaits(e))'
    BY <1>7, <1>14 DEF BalancedCopies
  <2>1. dead'[owner] => (DeadAt(e))' \/ (Awaits(e))'
    <3>1. CASE dead[owner]
      BY <1>9, <1>13, <3>1
    <3>2. CASE ~dead[owner] /\ dead'[owner]
      BY <1>3, <3>2 DEF Awaits
    <3> QED BY <3>1, <3>2
  <2>2. (DeadAt(e))' => (HealthAt(e))' <= 0 \/ dead'[owner]
    <3>1. CASE e # c
      BY <1>9, <1>10, <1>13, <3>1
    <3>2. CASE e = c /\ d < 0
      <4>1. (HealthAt(e))' = HealthAt(e) + d /\ ((DeadAt(e))' <=> DeadAt(e) \/ HealthAt(e) + d <= 0)
        BY <1>9, <3>2
      <4>2. HealthAt(e) <= 0 => HealthAt(e) + d <= 0
        BY <1>13, <3>2
      <4> QED BY <1>10, <1>13, <4>1, <4>2
    <3>3. CASE e = c /\ d > 0
      <4>1. (HealthAt(e))' = HealthAt(e) + d /\ ((DeadAt(e))' <=> DeadAt(e) \/ HealthAt(e) + d <= 0)
        BY <1>9, <3>3
      <4> QED BY <1>15, <3>3, <4>1
    <3> QED BY <3>1, <3>2, <3>3
  <2> QED BY <2>1, <2>2
<1>17. DeadCopies'
  <2>1. (OnWay(FatesAt(TRUE)))' => dead'[owner]
    BY <1>6, <1>10 DEF CopiesKept, DeadCopies
  <2>2. \A e \in Copies : (HealthAt(e))' <= 0 => (DeadAt(e))'
    BY <1>9, <1>13
  <2>3. ~(Wounding' /\ Healing')
    BY <1>12
  <2>4. ASSUME Healing'
        PROVE  ~told.dead /\ ~dead'[owner] /\ \A e \in Copies : ~(DeadAt(e))'
    <3>1. d > 0 /\ c = owner /\ ~dead[owner]
      BY <1>12, <2>4
    <3>2. \A e \in Copies : ~(DeadAt(e))'
      <4> TAKE e \in Copies
      <4>1. ~DeadAt(e) /\ HealthAt(e) > 0 /\ HealthAt(e) \in Int
        BY <1>13, <1>15, <3>1
      <4>2. CASE e = c
        <5>1. ~dead[c] /\ health[c] + d > 0
          BY <1>9, <3>1, <4>1, <4>2
        <5>2. ~(health[c] + d <= 0)
          BY <1>1, <5>1
        <5> QED BY <1>9, <4>2, <5>1, <5>2
      <4>3. CASE e # c
        BY <1>9, <1>13, <4>1, <4>3
      <4> QED BY <4>2, <4>3
    <3>3. ~dead'[owner]
      <4>1. owner \in Copies
        BY <1>1 DEF Copies
      <4>2. health[owner] > 0 /\ health[owner] \in Int
        BY <1>1, <1>15, <3>1, <4>1
      <4> QED BY <1>1, <1>4, <3>1, <4>2
    <3> QED BY <1>3, <3>1, <3>2, <3>3
  <2> QED BY <1>6, <1>7, <2>1, <2>2, <2>3, <2>4 DEF DeadCopies
<1> QED BY <1>11, <1>16, <1>17 DEF CopiesKept, RaisedCopies

(* A step of clients in range leaves the others and what they are told alone. *)
LEMMA FrameStays ==
    ASSUME CopiesFrame, near # {}, UNCHANGED <<near, owner, tally, notices>>,
           amiss' = amiss \/ amiss' = Clients,
           \A e \in Clients \ near : calls'[e] = calls[e] /\ small'[e] = small[e]
    PROVE  CopiesFrame'
<1>1. Excepted'
  BY DEF CopiesFrame, Excepted
<1>2. Strangers'
  BY DEF CopiesFrame, Strangers
<1> QED BY <1>1, <1>2 DEF CopiesFrame

(* If the owner's copy is excepted there is nothing to show.                 *)
LEMMA AllExcepted ==
    ASSUME VitalsInv, CopiesFrame', near # {}, owner' = owner, amiss' = Clients
    PROVE  CopiesInv'
BY OwnersCopy DEF CopiesInv

(* One who is not to spawn the actor any more has it in its game.            *)
LEMMA BefallsTheSpawned ==
    ASSUME VitalsInv, NEW c, Befalls(c)
    PROVE  c \in near /\ near # {} /\ c \in Clients /\ ~Fresh(c)
<1>1. c \in near /\ c \in Clients /\ notices[c] \in Seq(VitalsNotices)
  BY DEF Befalls, VitalsInv, VitalsTypes
<1>2. ASSUME notices[c] # <<>> PROVE Head(notices[c]).type # "spawn"
  <2>1. Head(notices[c]) = notices[c][1] /\ 1 \in DOMAIN notices[c]
    BY <1>1, <1>2, HeadTailProperties, EmptySeq
  <2> QED BY <2>1 DEF Befalls, ToSet
<1> QED BY <1>1, <1>2 DEF Fresh

(* The actor is hit in the game of a client.                                 *)
LEMMA BlowKeepsCopies ==
    ASSUME VitalsInv, CopiesInv, NEW c \in Clients, NEW n \in Blows, Blow(c, n)
    PROVE  CopiesInv'
<1>1. /\ -n \in Int \ {0} /\ -n < 0
  BY VitalsAssumption
<1>2. /\ Befalls(c) /\ Alter(c, -n) /\ UNCHANGED <<owner, told, near, notices, tally>>
      /\ amiss' = IF DeathUntold \/ (\E d \in Travelling : ~Loss(d)) THEN Clients ELSE amiss
  BY DEF Blow
<1>3. \/ /\ small' = [small EXCEPT ![c] = @ + -n] /\ calls' = calls
      \/ /\ calls' = [calls EXCEPT ![c] = Append(@, Change(-n))] /\ small' = small
  BY DEF Blow, Send
<1>4. c \in near /\ near # {} /\ ~Fresh(c) /\ CopiesFrame
  BY <1>2, BefallsTheSpawned DEF CopiesInv
<1>5. \A e \in Clients \ near : calls'[e] = calls[e] /\ small'[e] = small[e]
  BY <1>3, <1>4 DEF VitalsInv, VitalsTypes
<1>6. CopiesFrame'
  BY <1>2, <1>4, <1>5, FrameStays
<1>7. CASE DeathUntold \/ \E d \in Travelling : ~Loss(d)
  BY <1>2, <1>4, <1>6, <1>7, AllExcepted
<1>8. CASE ~DeathUntold /\ ~\E d \in Travelling : ~Loss(d)
  <2>1. amiss' = amiss /\ ~Healing
    BY <1>2, <1>8, TravellingTells
  <2>2. ASSUME owner \notin amiss PROVE CopiesKept'
    <3>1. CopiesKept
      BY <1>4, <2>2 DEF CopiesInv
    <3> QED BY <1>1, <1>2, <1>3, <1>4, <1>8, <2>1, <2>2, <3>1, ChangeKeepsCopies
  <2> QED BY <1>2, <1>6, <2>1, <2>2 DEF CopiesInv
<1> QED BY <1>7, <1>8

(* The actor is cured in the game of its owner.                              *)
LEMMA CureKeepsCopies ==
    ASSUME VitalsInv, CopiesInv, NEW n \in Blows, Cure(n)
    PROVE  CopiesInv'
<1>1. /\ n \in Int \ {0} /\ n > 0
  BY VitalsAssumption
<1>2. /\ Befalls(owner) /\ ~dead[owner] /\ Alter(owner, n)
      /\ UNCHANGED <<owner, told, near, notices, tally>>
      /\ amiss' = IF DeathUntold \/ (\E d \in Travelling : Loss(d)) THEN Clients ELSE amiss
  BY DEF Cure
<1>3. calls' = [calls EXCEPT ![owner] = Append(@, Change(n))] /\ small' = small
  BY DEF Cure
<1>4. owner \in near /\ near # {} /\ ~Fresh(owner) /\ CopiesFrame
  BY <1>2, BefallsTheSpawned DEF CopiesInv
<1>5. \A e \in Clients \ near : calls'[e] = calls[e] /\ small'[e] = small[e]
  BY <1>3, <1>4 DEF VitalsInv, VitalsTypes
<1>6. CopiesFrame'
  BY <1>2, <1>4, <1>5, FrameStays
<1>7. CASE DeathUntold \/ \E d \in Travelling : Loss(d)
  BY <1>2, <1>4, <1>6, <1>7, AllExcepted
<1>8. CASE ~DeathUntold /\ ~\E d \in Travelling : Loss(d)
  <2>1. amiss' = amiss /\ ~Wounding
    BY <1>2, <1>8, TravellingTells
  <2>2. ASSUME owner \notin amiss PROVE CopiesKept'
    <3>1. CopiesKept
      BY <1>4, <2>2 DEF CopiesInv
    <3> QED BY <1>1, <1>2, <1>3, <1>4, <1>8, <2>1, <2>2, <3>1, ChangeKeepsCopies
  <2> QED BY <1>2, <1>6, <2>1, <2>2 DEF CopiesInv
<1> QED BY <1>7, <1>8

(* The actor stands up again in the game of its owner.                       *)
LEMMA ResurrectKeepsCopies ==
    ASSUME VitalsInv, CopiesInv, Resurrect
    PROVE  CopiesInv'
<1>1. /\ Befalls(owner) /\ dead[owner] /\ health' = [health EXCEPT ![owner] = Full]
      /\ dead' = [dead EXCEPT ![owner] = FALSE]
      /\ UNCHANGED <<owner, told, near, notices, calls, small, tally>>
      /\ amiss' = IF Travelling # {} \/ DeathUntold THEN Clients ELSE amiss
  BY DEF Resurrect
<1>2. /\ owner \in near /\ near # {} /\ ~Fresh(owner) /\ CopiesFrame /\ owner \in Clients
      /\ DeadAt(owner) = dead[owner]
  BY <1>1, BefallsTheSpawned, OwnersCopy DEF CopiesInv
<1>3. CopiesFrame'
  BY <1>1, <1>2, FrameStays
<1>4. CASE Travelling # {} \/ DeathUntold
  BY <1>1, <1>2, <1>3, <1>4, AllExcepted
<1>5. CASE Travelling = {} /\ ~DeathUntold
  <2>1. amiss' = amiss /\ ~Wounding /\ ~Healing
    BY <1>1, <1>5, TravellingTells
  <2> SUFFICES ASSUME owner \notin amiss PROVE CopiesKept'
    BY <1>1, <1>3, <2>1 DEF CopiesInv
  <2>2. CopiesKept
    BY <1>2 DEF CopiesInv
  <2>3. ~Raised /\ ~OnWay(Fates) /\ told.dead = dead[owner] /\ \A c \in Clients : ~Awaits(c)
    BY <1>2, <1>5, RaisedIsUntold
  <2>4. /\ Copies' = Copies /\ Copies \subseteq Clients
        /\ \A K : (OnWay(K))' <=> OnWay(K)
        /\ \A c \in Clients : (Fresh(c))' <=> Fresh(c)
        /\ ~Wounding' /\ ~Healing'
    BY <1>1, <2>1 DEF Copies, OnWay, Fresh, Wounding, Healing, VitalsInv, VitalsTypes
  <2>5. /\ health'[owner] = Full /\ ~dead'[owner] /\ Full > 0
        /\ \A c \in Clients : c # owner => health'[c] = health[c] /\ dead'[c] = dead[c]
    BY <1>1, <1>2, VitalsAssumption DEF VitalsInv, VitalsTypes
  <2>6. /\ \A c \in Clients : c # owner =>
              (HealthAt(c))' = HealthAt(c) /\ (DeadAt(c))' = DeadAt(c)
        /\ \A c \in Clients : c = owner => (HealthAt(c))' = Full
    BY <1>1, <1>2, <2>4, <2>5 DEF HealthAt, DeadAt
  <2>7. \A c \in Copies : DeadAt(c)
    BY <1>1, <2>2, <2>3, <2>4 DEF CopiesKept, BalancedCopies
  <2>8. Raised' /\ told'.dead
    BY <1>1, <2>3, <2>5 DEF Raised
  <2>9. \A c \in Clients : (Awaits(c))'
    BY <1>1, <2>3, <2>5 DEF Awaits
  <2>10. RaisedCopies'
    <3>1. \A c \in Copies \ {owner} : (DeadAt(c))' /\ (Awaits(c))'
      BY <2>4, <2>6, <2>7, <2>9
    <3> QED BY <1>1, <2>4, <2>5, <2>8, <3>1 DEF RaisedCopies
  <2>11. DeadCopies'
    <3>1. ~(OnWay(FatesAt(TRUE)))'
      <4>1. \A s : Carries(s, FatesAt(TRUE)) => Carries(s, Fates)
        BY FatesAreTwo
      <4>2. ~OnWay(FatesAt(TRUE))
        BY <2>3, <4>1 DEF OnWay
      <4> QED BY <2>4, <4>2
    <3>2. \A c \in Copies : (HealthAt(c))' <= 0 => (DeadAt(c))'
      <4> TAKE c \in Copies
      <4>1. c = owner => ~((HealthAt(c))' <= 0)
        BY <2>4, <2>6, VitalsAssumption
      <4> QED BY <2>4, <2>6, <2>7, <4>1
    <3> QED BY <2>4, <3>1, <3>2 DEF DeadCopies
  <2> QED BY <2>8, <2>10, <2>11 DEF CopiesKept, BalancedCopies
<1> QED BY <1>4, <1>5

(* RunSmallHealthUpdates: what was small is told as it is.                   *)
LEMMA SmallUpdatesKeepCopies ==
    ASSUME VitalsInv, CopiesInv, NEW c \in Clients, RunSmallHealthUpdates(c)
    PROVE  CopiesInv'
<1> DEFINE d == small[c]
           m == Change(d)
<1>1. /\ d # 0 /\ calls' = [calls EXCEPT ![c] = Append(@, m)]
      /\ small' = [small EXCEPT ![c] = 0]
      /\ UNCHANGED <<owner, health, dead, told, record, near, notices, tally, amiss>>
  BY DEF RunSmallHealthUpdates
<1>2. /\ d \in Int \ {0} /\ VitalsTypes /\ CopiesFrame /\ c \in near /\ near # {}
      /\ small \in [Clients -> Int] /\ calls \in [Clients -> Seq(Calls)]
  BY <1>1 DEF VitalsInv, VitalsTypes, CopiesInv, CopiesFrame, Strangers
<1> HIDE DEF d
<1>3. /\ m \in Calls /\ Worth(m) = d /\ m \notin Fates /\ (\A b : m \notin FatesAt(b))
      /\ (m \in Gains => d > 0) /\ (m \in Losses => d < 0)
  BY <1>2, CallKinds DEF Change, Worth, Fates, FatesAt, Gains, Losses
<1> HIDE DEF m
<1>4. /\ \A e \in Clients : e # c => calls'[e] = calls[e] /\ small'[e] = small[e]
      /\ small'[c] = 0
      /\ \A K : (OnWay(K))' <=> OnWay(K) \/ m \in K
      /\ \A K : Carries(calls'[c], K) <=> Carries(calls[c], K) \/ m \in K
      /\ \A b \in Int : Sums(calls[c], b) => Sums(calls'[c], b + d)
  BY <1>1, <1>2, <1>3, SaidMore
<1>5. CopiesFrame'
  BY <1>1, <1>2, <1>4, FrameStays
<1> SUFFICES ASSUME owner \notin amiss PROVE CopiesKept'
  BY <1>1, <1>5 DEF CopiesInv
<1>6. CopiesKept /\ owner \in Clients
  BY <1>2, OwnersCopy DEF CopiesInv
<1>7. Wounding' => Wounding
  <2>1. \A e \in Clients : small'[e] < 0 => small[e] < 0
    BY <1>4
  <2>2. m \in Losses => small[c] < 0
    BY <1>3 DEF d
  <2> QED BY <1>4, <2>1, <2>2 DEF Wounding
<1>8. Healing' => Healing
  <2>1. \A e \in Clients : small'[e] > 0 => small[e] > 0
    BY <1>4
  <2>2. m \in Gains => small[c] > 0
    BY <1>3 DEF d
  <2> QED BY <1>4, <2>1, <2>2 DEF Healing
<1>9. ASSUME NEW e \in Copies
      PROVE  /\ (HealthAt(e))' = HealthAt(e) /\ (DeadAt(e))' = DeadAt(e)
             /\ Balanced(e) => (Balanced(e))'
             /\ Awaits(e) => (Awaits(e))'
  <2>1. e \in Clients
    BY DEF Copies, VitalsInv, VitalsTypes
  <2>2. (HealthAt(e))' = HealthAt(e) /\ (DeadAt(e))' = DeadAt(e)
    BY <1>1 DEF HealthAt, DeadAt, Fresh
  <2>3. Awaits(e) => (Awaits(e))'
    BY <1>1, <1>4, <1>6 DEF Awaits
  <2>4. ASSUME Balanced(e) PROVE (Balanced(e))'
    <3>1. PICK a \in Int, b \in Int : /\ Sums(notices[e], a) /\ Sums(calls[e], b)
                                      /\ HealthAt(e) + a = tally + b + small[e]
      BY <2>4 DEF Balanced
    <3>2. CASE e # c
      BY <1>1, <1>4, <2>1, <2>2, <3>1, <3>2 DEF Balanced
    <3>3. CASE e = c
      <4>1. Sums(calls'[e], b + d) /\ small'[e] = 0 /\ small[e] = d /\ d \in Int
        BY <1>2, <1>4, <3>1, <3>3 DEF d
      <4>2. HealthAt(e) + a = tally + (b + d) + 0
        BY <1>2, <3>1, <4>1 DEF CopiesFrame
      <4> QED BY <1>1, <2>2, <3>1, <4>1, <4>2 DEF Balanced
    <3> QED BY <3>2, <3>3
  <2> QED BY <2>2, <2>3, <2>4
<1>10. Copies' = Copies
  BY <1>1 DEF Copies
<1>11. Carries(calls[owner], Fates) => Carries(calls'[owner], Fates)
  BY <1>4, <1>6
<1>12. /\ (OnWay(Fates))' => OnWay(Fates)
       /\ \A b \in BOOLEAN : (OnWay(FatesAt(b)))' <=> OnWay(FatesAt(b))
  BY <1>3, <1>4
<1> QED BY <1>1, <1>6, <1>7, <1>8, <1>9, <1>10, <1>11, <1>12, SameCopies

(* Messages that change nothing in the sum of a queue keep the balance.      *)
LEMMA StaysBalanced ==
    ASSUME VitalsTypes, NEW c \in Clients, Balanced(c), (HealthAt(c))' = HealthAt(c),
           tally' = tally, small' = small,
           \A d \in Int : Sums(calls[c], d) => Sums(calls'[c], d),
           \A d \in Int : Sums(notices[c], d) => Sums(notices'[c], d)
    PROVE  (Balanced(c))'
BY DEF Balanced

(* RunDeathStateUpdates of the owner.                                        *)
LEMMA TellDeathKeepsCopies ==
    ASSUME VitalsInv, CopiesInv, TellDeath
    PROVE  CopiesInv'
<1> DEFINE m == [type |-> "dead", dead |-> dead[owner]]
<1>1. /\ near # {} /\ dead[owner] # told.dead /\ told' = [told EXCEPT !.dead = dead[owner]]
      /\ calls' = [calls EXCEPT ![owner] = Append(@, m)]
      /\ UNCHANGED <<owner, health, dead, small, record, near, notices, tally, amiss>>
  BY DEF TellDeath, Report
<1>2. /\ owner \in near /\ owner \in Clients /\ VitalsTypes /\ CopiesFrame
      /\ dead[owner] \in BOOLEAN /\ told \in Conditions /\ Copies \subseteq Clients
  BY <1>1, OwnersCopy DEF VitalsInv, VitalsTypes, CopiesInv, Copies
<1>3. /\ m \in Calls /\ Worth(m) = 0 /\ m \in Fates /\ m \notin Losses /\ m \notin Gains
      /\ \A b : m \in FatesAt(b) <=> b = dead[owner]
  <2>1. m \in Calls /\ m \in Fates /\ m.type = "dead" /\ m.dead = dead[owner]
    BY <1>2 DEF Calls, Fates
  <2>2. m \in VitalsNotices
    BY <2>1, CallKinds
  <2> HIDE DEF m
  <2> QED BY <2>1, <2>2, WhatIsWorth DEF FatesAt
<1> HIDE DEF m
<1>4. told'.dead = dead[owner] /\ dead'[owner] = dead[owner] /\ told.dead \in BOOLEAN
  BY <1>1, <1>2 DEF Conditions
<1>5. /\ \A e \in Clients : e # owner => calls'[e] = calls[e]
      /\ \A K : (OnWay(K))' <=> OnWay(K) \/ m \in K
      /\ Carries(calls'[owner], Fates)
      /\ \A b \in Int : Sums(calls[owner], b) => Sums(calls'[owner], b + 0)
  BY <1>1, <1>2, <1>3, SaidMore
<1>6. CopiesFrame'
  BY <1>1, <1>2, <1>5, FrameStays
<1> SUFFICES ASSUME owner \notin amiss PROVE CopiesKept'
  BY <1>1, <1>6 DEF CopiesInv
<1>7. CopiesKept /\ ~Healing
  BY <1>1, <1>2, <1>4 DEF CopiesInv, CopiesKept, DeadCopies
<1>8. /\ Copies' = Copies /\ (Wounding' <=> Wounding) /\ (Healing' <=> Healing)
      /\ \A e \in Clients : (HealthAt(e))' = HealthAt(e) /\ (DeadAt(e))' = DeadAt(e)
      /\ \A e \in Clients : (Awaits(e))'
  BY <1>1, <1>3, <1>5 DEF Copies, Wounding, Healing, HealthAt, DeadAt, Fresh, Awaits
<1>9. ASSUME NEW e \in Copies, Balanced(e) PROVE (Balanced(e))'
  <2>1. \A d \in Int : Sums(calls[e], d) => Sums(calls'[e], d)
    <3>1. \A d \in Int : d + 0 = d
      OBVIOUS
    <3> QED BY <1>2, <1>5, <3>1
  <2> QED BY <1>1, <1>2, <1>8, <1>9, <2>1, StaysBalanced
<1>10. DeadCopies'
  <2>1. (OnWay(FatesAt(TRUE)))' => dead'[owner]
    BY <1>3, <1>4, <1>5, <1>7 DEF CopiesKept, DeadCopies
  <2>2. \A e \in Copies : (HealthAt(e))' <= 0 => (DeadAt(e))'
    BY <1>2, <1>7, <1>8 DEF CopiesKept, DeadCopies
  <2>3. ~Healing' /\ Copies' = Copies
    BY <1>7, <1>8
  <2> QED BY <1>1, <2>1, <2>2, <2>3 DEF DeadCopies
<1>11. Raised' <=> Raised
  <2>1. dead[owner] => ~Raised
    BY <1>7 DEF CopiesKept, RaisedCopies
  <2>2. dead[owner] => ~Raised'
    <3>1. dead[owner] => ~OnWay(FatesAt(FALSE))
      BY <2>1 DEF Raised
    <3> QED BY <1>1, <1>3, <1>4, <1>5, <3>1 DEF Raised
  <2>3. ~dead[owner] => Raised /\ Raised'
    BY <1>1, <1>2, <1>3, <1>4, <1>5 DEF Raised
  <2> QED BY <2>1, <2>2, <2>3
<1>12. RaisedCopies'
  BY <1>1, <1>2, <1>5, <1>7, <1>8, <1>11 DEF CopiesKept, RaisedCopies
<1>13. BalancedCopies'
  BY <1>1, <1>2, <1>7, <1>8, <1>9, <1>11 DEF CopiesKept, BalancedCopies
<1> QED BY <1>10, <1>12, <1>13 DEF CopiesKept

(* BroadcastActorValues of the owner.                                        *)
LEMMA TellHealthKeepsCopies ==
    ASSUME VitalsInv, CopiesInv, TellHealth
    PROVE  CopiesInv'
<1> DEFINE m == [type |-> "value", health |-> health[owner]]
<1>1. /\ near # {} /\ told' = [told EXCEPT !.health = health[owner]]
      /\ calls' = [calls EXCEPT ![owner] = Append(@, m)]
      /\ UNCHANGED <<owner, health, dead, small, record, near, notices, tally, amiss>>
  BY DEF TellHealth, Report
<1>2. /\ owner \in near /\ owner \in Clients /\ VitalsTypes /\ CopiesFrame
      /\ health[owner] \in Int /\ told \in Conditions /\ Copies \subseteq Clients
  BY <1>1, OwnersCopy DEF VitalsInv, VitalsTypes, CopiesInv, Copies
<1>3. /\ m \in Calls /\ Worth(m) = 0 /\ m \notin Fates /\ m \notin Losses /\ m \notin Gains
      /\ \A b : m \notin FatesAt(b)
  <2>1. m \in Calls /\ m.type = "value"
    BY <1>2 DEF Calls
  <2>2. m \in VitalsNotices
    BY <2>1, CallKinds
  <2> HIDE DEF m
  <2> QED BY <2>1, <2>2, WhatIsWorth
<1> HIDE DEF m
<1>4. told'.dead = told.dead /\ dead'[owner] = dead[owner] /\ health'[owner] = health[owner]
  BY <1>1, <1>2 DEF Conditions
<1>5. /\ \A e \in Clients : e # owner => calls'[e] = calls[e]
      /\ \A K : (OnWay(K))' <=> OnWay(K) \/ m \in K
      /\ \A K : Carries(calls'[owner], K) <=> Carries(calls[owner], K) \/ m \in K
      /\ \A b \in Int : Sums(calls[owner], b) => Sums(calls'[owner], b + 0)
  BY <1>1, <1>2, <1>3, SaidMore
<1>6. CopiesFrame'
  BY <1>1, <1>2, <1>5, FrameStays
<1> SUFFICES ASSUME owner \notin amiss PROVE CopiesKept'
  BY <1>1, <1>6 DEF CopiesInv
<1>7. CopiesKept
  BY <1>1 DEF CopiesInv
<1>8. /\ Copies' = Copies /\ (Wounding' <=> Wounding) /\ (Healing' <=> Healing)
      /\ \A e \in Clients : (HealthAt(e))' = HealthAt(e) /\ (DeadAt(e))' = DeadAt(e)
      /\ \A e \in Clients : Awaits(e) => (Awaits(e))'
  BY <1>1, <1>3, <1>4, <1>5 DEF Copies, Wounding, Healing, HealthAt, DeadAt, Fresh, Awaits
<1>9. ASSUME NEW e \in Copies, Balanced(e) PROVE (Balanced(e))'
  <2>1. \A d \in Int : Sums(calls[e], d) => Sums(calls'[e], d)
    <3>1. \A d \in Int : d + 0 = d
      OBVIOUS
    <3> QED BY <1>2, <1>5, <3>1
  <2> QED BY <1>1, <1>2, <1>8, <1>9, <2>1, StaysBalanced
<1>10. /\ Carries(calls[owner], Fates) => Carries(calls'[owner], Fates)
       /\ (OnWay(Fates))' => OnWay(Fates)
       /\ \A b \in BOOLEAN : (OnWay(FatesAt(b)))' <=> OnWay(FatesAt(b))
  BY <1>3, <1>5
<1> QED BY <1>1, <1>2, <1>4, <1>7, <1>8, <1>9, <1>10, SameCopies

(* A client hears of a loss or a gain by another.                            *)
LEMMA DeltaKeepsCopies ==
    ASSUME VitalsInv, CopiesFrame, CopiesKept, near # {}, NEW c \in Clients, Notices(c),
           Head(notices[c]).type = "delta", owner \notin amiss
    PROVE  CopiesKept'
<1> DEFINE m == Head(notices[c])
           d == m.health
<1>1. /\ notices[c] # <<>> /\ notices' = Read(notices, c) /\ Alter(c, d) /\ m.type = "delta"
      /\ UNCHANGED <<owner, small, told, near, calls, tally, amiss>>
  BY DEF Notices
<1>2. /\ VitalsTypes /\ SpawnsFirst(notices[c]) /\ Copies \subseteq Clients
      /\ owner \in Clients /\ owner \in Copies
      /\ HealthAt(owner) = health[owner] /\ DeadAt(owner) = dead[owner]
      /\ told.dead \in BOOLEAN /\ dead \in [Clients -> BOOLEAN] /\ health \in [Clients -> Int]
  BY OwnersCopy DEF VitalsInv, VitalsTypes, CopiesFrame, Copies, Conditions
<1>3. /\ notices'[c] = Tail(notices[c]) /\ \A e \in Clients : e # c => notices'[e] = notices[e]
      /\ m \in VitalsNotices
      /\ \A K : ((OnWay(K))' => OnWay(K)) /\ (m \in K => OnWay(K))
      /\ \A K : m \notin K => (Carries(notices'[c], K) <=> Carries(notices[c], K))
      /\ ~(Fresh(c))'
      /\ \A a \in Int : Sums(notices[c], a) => Sums(notices'[c], a - Worth(m))
  BY <1>1, <1>2, HeardLess
<1> HIDE DEF m
<1>4. /\ Worth(m) = d /\ d \in Int /\ m \notin Fates
      /\ (m \in Losses /\ d < 0) \/ (m \in Gains /\ d > 0)
  BY <1>1, <1>3, CallKinds, WhatIsWorth
<1> HIDE DEF d
<1>5. ~Fresh(c) /\ HealthAt(c) = health[c] /\ DeadAt(c) = dead[c]
  BY <1>1 DEF Fresh, HealthAt, DeadAt, m
<1>6. /\ (HealthAt(c))' = health[c] + d /\ (DeadAt(c))' = (dead[c] \/ health[c] + d <= 0)
      /\ \A e \in Clients : e # c => /\ (HealthAt(e))' = HealthAt(e) /\ (DeadAt(e))' = DeadAt(e)
                                     /\ health'[e] = health[e] /\ dead'[e] = dead[e]
      /\ dead[owner] => dead'[owner]
      /\ owner # c => dead'[owner] = dead[owner]
      /\ dead'[c] = (dead[c] \/ health[c] + d <= 0)
  BY <1>1, <1>2, <1>3 DEF Alter, HealthAt, DeadAt, Fresh
<1>7. /\ m \in Losses => Wounding
      /\ m \in Gains => Healing
      /\ Wounding' => Wounding
      /\ Healing' => Healing
  BY <1>1, <1>3 DEF Wounding, Healing
<1>8. ~Raised
  BY <1>4, <1>7 DEF CopiesKept, RaisedCopies
<1>9. ~Raised'
  <2>1. ~OnWay(FatesAt(FALSE)) /\ (told.dead => dead[owner])
    BY <1>2, <1>8 DEF Raised
  <2> QED BY <1>1, <1>3, <1>6, <2>1 DEF Raised
<1>10. Copies' = Copies
  BY <1>1 DEF Copies
<1>11. \A e \in Clients : Awaits(e) /\ dead[owner] => (Awaits(e))'
  <2> TAKE e \in Clients
  <2>1. Carries(notices[e], Fates) => Carries(notices'[e], Fates)
    BY <1>3, <1>4
  <2>2. dead[owner] => dead'[owner] = dead[owner]
    BY <1>2, <1>6
  <2> QED BY <1>1, <2>1, <2>2 DEF Awaits
<1>12. ASSUME NEW e \in Copies
       PROVE  /\ Balanced(e) /\ (DeadAt(e) => HealthAt(e) <= 0 \/ dead[owner])
              /\ dead[owner] => DeadAt(e) \/ Awaits(e)
              /\ HealthAt(e) <= 0 => DeadAt(e)
              /\ HealthAt(e) \in Int /\ e \in Clients
              /\ Healing => ~DeadAt(e) /\ HealthAt(e) > 0
  <2>1. HealthAt(e) \in Int /\ e \in Clients
    BY <1>2, CopyTypes
  <2> QED BY <1>8, <2>1 DEF CopiesKept, BalancedCopies, DeadCopies
<1>13. ASSUME NEW e \in Copies PROVE (Balanced(e))'
  <2>1. PICK a \in Int, b \in Int : /\ Sums(notices[e], a) /\ Sums(calls[e], b)
                                    /\ HealthAt(e) + a = tally + b + small[e]
    BY <1>12 DEF Balanced
  <2>2. CASE e # c
    BY <1>1, <1>3, <1>6, <1>12, <2>1, <2>2 DEF Balanced
  <2>3. CASE e = c
    <3>1. Sums(notices'[e], a - d) /\ a - d \in Int
      BY <1>3, <1>4, <2>1, <2>3
    <3>2. HealthAt(e) + d + (a - d) = tally + b + small[e]
      BY <1>4, <1>12, <2>1
    <3>3. (HealthAt(e))' = HealthAt(e) + d
      BY <1>5, <1>6, <2>3
    <3> QED BY <1>1, <2>1, <3>1, <3>2, <3>3 DEF Balanced
  <2> QED BY <2>2, <2>3
<1>14. BalancedCopies'
  <2>1. ASSUME NEW e \in Copies
        PROVE  /\ (DeadAt(e))' => (HealthAt(e))' <= 0 \/ dead'[owner]
               /\ dead'[owner] => (DeadAt(e))' \/ (Awaits(e))'
    <3>1. dead'[owner] => (DeadAt(e))' \/ (Awaits(e))'
      <4>1. CASE dead[owner]
        <5>1. DeadAt(e) => (DeadAt(e))'
          BY <1>5, <1>6, <1>12
        <5> QED BY <1>11, <1>12, <4>1, <5>1
      <4>2. CASE ~dead[owner] /\ dead'[owner]
        <5>1. ~told.dead
          BY <1>8, <4>2 DEF Raised
        <5> QED BY <1>1, <4>2, <5>1 DEF Awaits
      <4> QED BY <4>1, <4>2
    <3>2. (DeadAt(e))' => (HealthAt(e))' <= 0 \/ dead'[owner]
      <4>1. CASE e # c
        BY <1>6, <1>12, <4>1
      <4>2. CASE e = c
        <5>1. (HealthAt(e))' = HealthAt(e) + d /\ ((DeadAt(e))' <=> DeadAt(e) \/ HealthAt(e) + d <= 0)
          BY <1>5, <1>6, <4>2
        <5>2. CASE d < 0
          <6>1. HealthAt(e) <= 0 => HealthAt(e) + d <= 0
            BY <1>4, <1>12, <5>2
          <6> QED BY <1>6, <1>12, <5>1, <6>1
        <5>3. CASE d > 0
          BY <1>4, <1>7, <1>12, <5>1, <5>3
        <5> QED BY <1>4, <5>2, <5>3
      <4> QED BY <4>1, <4>2
    <3> QED BY <3>1, <3>2
  <2> QED BY <1>1, <1>10, <1>13, <2>1 DEF BalancedCopies
<1>15. DeadCopies'
  <2>1. (OnWay(FatesAt(TRUE)))' => dead'[owner]
    BY <1>3, <1>6 DEF CopiesKept, DeadCopies
  <2>2. \A e \in Copies : (HealthAt(e))' <= 0 => (DeadAt(e))'
    BY <1>6, <1>12
  <2>3. ~(Wounding' /\ Healing')
    BY <1>7 DEF CopiesKept, DeadCopies
  <2>4. ASSUME Healing'
        PROVE  /\ ~(OnWay(Fates))' /\ ~told.dead /\ ~dead'[owner]
               /\ \A e \in Copies : ~(DeadAt(e))'
    <3>1. /\ Healing /\ ~OnWay(Fates) /\ ~told.dead /\ ~dead[owner] /\ d > 0
      BY <1>4, <1>7, <2>4 DEF CopiesKept, DeadCopies
    <3>2. \A e \in Copies : ~(DeadAt(e))'
      <4> TAKE e \in Copies
      <4>1. ~DeadAt(e) /\ HealthAt(e) > 0 /\ HealthAt(e) \in Int /\ e \in Clients
        BY <1>12, <3>1
      <4>2. CASE e = c
        <5>1. ~dead[c] /\ ~(health[c] + d <= 0)
          BY <1>4, <1>5, <3>1, <4>1, <4>2
        <5> QED BY <1>6, <4>2, <5>1
      <4> QED BY <1>6, <4>1, <4>2
    <3>3. ~dead'[owner]
      <4>1. HealthAt(owner) > 0 /\ HealthAt(owner) \in Int
        BY <1>2, <1>12, <3>1
      <4>2. CASE owner = c
        <5>1. ~dead[c] /\ ~(health[c] + d <= 0)
          BY <1>2, <1>4, <3>1, <4>1, <4>2
        <5> QED BY <1>6, <4>2, <5>1
      <4> QED BY <1>6, <3>1, <4>2
    <3> QED BY <1>3, <3>1, <3>2, <3>3
  <2> QED BY <1>1, <1>10, <2>1, <2>2, <2>3, <2>4 DEF DeadCopies
<1> QED BY <1>9, <1>14, <1>15 DEF CopiesKept, RaisedCopies

(* A client hears of the actor's death or resurrection: all is over when the   *)
(* last one has heard of the latter.                                           *)
LEMMA EndKeepsCopies ==
    ASSUME VitalsInv, CopiesFrame, CopiesKept, near # {}, NEW c \in Clients, Notices(c),
           Head(notices[c]).type = "dead", owner \notin amiss
    PROVE  CopiesKept'
<1> DEFINE m == Head(notices[c])
<1>1. /\ notices[c] # <<>> /\ notices' = Read(notices, c) /\ m.type = "dead"
      /\ dead' = [dead EXCEPT ![c] = m.dead]
      /\ health' = [health EXCEPT ![c] = IF dead[c] /\ ~m.dead THEN Full ELSE @]
      /\ UNCHANGED <<owner, small, told, near, calls, tally, amiss>>
  BY DEF Notices
<1>2. /\ VitalsTypes /\ SpawnsFirst(notices[c]) /\ Copies \subseteq Clients /\ Copies' = Copies
      /\ owner \in Clients /\ owner \in Copies /\ notices[owner] \in Seq(Deltas)
      /\ HealthAt(owner) = health[owner] /\ DeadAt(owner) = dead[owner]
      /\ told.dead \in BOOLEAN /\ dead \in [Clients -> BOOLEAN] /\ health \in [Clients -> Int]
      /\ tally \in Int
  BY <1>1, OwnersCopy
  DEF VitalsInv, VitalsTypes, CopiesFrame, Copies, Conditions, OwnerReports
<1>3. /\ notices'[c] = Tail(notices[c]) /\ \A e \in Clients : e # c => notices'[e] = notices[e]
      /\ m \in VitalsNotices
      /\ \A K : ((OnWay(K))' => OnWay(K)) /\ (m \in K => OnWay(K))
      /\ ~(Fresh(c))' /\ Worth(m) \in Int
      /\ \A a \in Int : Sums(notices[c], a) => Sums(notices'[c], a - Worth(m))
  BY <1>1, <1>2, HeardLess
<1>4. c # owner
  <2>1. c = owner => m \in Deltas
    BY <1>1, <1>2, HeadTailProperties
  <2> QED BY <1>1, <2>1, CallKinds
<1> HIDE DEF m
<1>5. Worth(m) = 0 /\ m \in Fates /\ m.dead \in BOOLEAN /\ m \in FatesAt(m.dead)
  BY <1>1, <1>3, WhatIsWorth
<1>6. ~Fresh(c) /\ HealthAt(c) = health[c] /\ DeadAt(c) = dead[c]
  BY <1>1 DEF Fresh, HealthAt, DeadAt, m
<1>7. /\ (HealthAt(c))' = (IF dead[c] /\ ~m.dead THEN Full ELSE health[c])
      /\ (DeadAt(c))' = m.dead
      /\ \A e \in Clients : e # c => (HealthAt(e))' = HealthAt(e) /\ (DeadAt(e))' = DeadAt(e)
      /\ dead'[owner] = dead[owner] /\ health'[owner] = health[owner]
  BY <1>1, <1>2, <1>3, <1>4 DEF HealthAt, DeadAt, Fresh
<1>8. (Wounding' => Wounding) /\ (Healing' => Healing) /\ OnWay(FatesAt(m.dead)) /\ OnWay(Fates)
  BY <1>1, <1>3, <1>5 DEF Wounding, Healing
<1>9. ~Healing /\ ~Healing'
  BY <1>8 DEF CopiesKept, DeadCopies
<1>10. \A e \in Clients : e # c => (Awaits(e) <=> (Awaits(e))')
  BY <1>1, <1>3, <1>7 DEF Awaits
<1>11. Raised' => Raised
  BY <1>1, <1>3, <1>7 DEF Raised
<1>12. CASE m.dead
  <2>1. dead[owner] /\ ~Raised /\ ~Raised'
    BY <1>8, <1>11, <1>12 DEF CopiesKept, DeadCopies, RaisedCopies
  <2>2. ASSUME NEW e \in Copies PROVE (Balanced(e))'
    <3>1. (HealthAt(e))' = HealthAt(e)
      BY <1>2, <1>6, <1>7, <1>12
    <3>2. \A d \in Int : Sums(notices[e], d) => Sums(notices'[e], d)
      <4>1. \A d \in Int : d - 0 = d
        OBVIOUS
      <4> QED BY <1>2, <1>3, <1>5, <4>1
    <3>3. Balanced(e) /\ e \in Clients
      BY <1>2, <2>1 DEF CopiesKept, BalancedCopies
    <3> QED BY <1>1, <1>2, <3>1, <3>2, <3>3, StaysBalanced
  <2>3. ASSUME NEW e \in Copies PROVE (DeadAt(e))' \/ (Awaits(e))'
    BY <1>2, <1>7, <1>10, <1>12, <2>1 DEF CopiesKept, BalancedCopies
  <2>4. BalancedCopies'
    BY <1>1, <1>2, <1>7, <2>1, <2>2, <2>3 DEF BalancedCopies
  <2>5. \A e \in Copies : (HealthAt(e))' <= 0 => (DeadAt(e))'
    BY <1>2, <1>7, <1>12 DEF CopiesKept, DeadCopies
  <2>6. DeadCopies'
    BY <1>1, <1>2, <1>7, <1>9, <2>1, <2>5 DEF DeadCopies
  <2> QED BY <2>1, <2>4, <2>6 DEF CopiesKept, RaisedCopies
<1>13. CASE ~m.dead
  <2>1. Raised
    BY <1>5, <1>8, <1>13 DEF Raised
  <2>2. /\ ~Wounding /\ ~Wounding' /\ ~dead[owner] /\ health[owner] = Full
        /\ \A e \in Copies \ {owner} : IF DeadAt(e) THEN Awaits(e) ELSE HealthAt(e) = Full
        /\ ~told.dead /\ ~Carries(calls[owner], Fates) => tally = Full
    BY <1>8, <2>1 DEF CopiesKept, RaisedCopies
  <2>3. c \in Copies => (HealthAt(c))' = Full /\ ~(DeadAt(c))'
    BY <1>2, <1>4, <1>6, <1>7, <1>13, <2>2
  <2>4. RaisedCopies'
    <3>1. \A e \in Copies \ {owner} : IF (DeadAt(e))' THEN (Awaits(e))' ELSE (HealthAt(e))' = Full
      <4> TAKE e \in Copies \ {owner}
      <4>1. CASE e = c
        BY <1>7, <1>13, <2>3, <4>1
      <4>2. CASE e # c
        BY <1>2, <1>7, <1>10, <2>2, <4>2
      <4> QED BY <4>1, <4>2
    <3> QED BY <1>1, <1>2, <1>7, <1>9, <2>2, <3>1 DEF RaisedCopies
  <2>5. \A e \in Copies : (HealthAt(e))' <= 0 => (DeadAt(e))'
    <3> TAKE e \in Copies
    <3>1. CASE e = c
      <4>1. ~(Full <= 0)
        BY VitalsAssumption
      <4> QED BY <2>3, <3>1, <4>1
    <3>2. CASE e # c
      BY <1>2, <1>7, <3>2 DEF CopiesKept, DeadCopies
    <3> QED BY <3>1, <3>2
  <2>6. ~OnWay(FatesAt(TRUE)) /\ ~(OnWay(FatesAt(TRUE)))'
    BY <1>3, <2>2 DEF CopiesKept, DeadCopies
  <2>7. DeadCopies'
    BY <1>1, <1>2, <1>9, <2>5, <2>6 DEF DeadCopies
  <2>8. ASSUME ~Raised' PROVE BalancedCopies'
    <3>1. ~told.dead /\ ~(OnWay(Fates))'
      <4>1. ~(OnWay(FatesAt(FALSE)))' /\ ~told.dead
        BY <1>1, <1>7, <2>2, <2>8 DEF Raised
      <4>2. \A s : Carries(s, Fates) => Carries(s, FatesAt(TRUE)) \/ Carries(s, FatesAt(FALSE))
        BY FatesAreTwo
      <4> QED BY <2>6, <4>1, <4>2 DEF OnWay
    <3>2. /\ \A e \in Clients : ~(Awaits(e))' /\ ~Carries(calls[owner], Fates)
      BY <1>1, <1>2, <1>7, <2>2, <3>1 DEF Awaits, OnWay
    <3>3. tally = Full
      BY <1>2, <2>2, <3>1, <3>2
    <3>4. \A e \in Copies : (HealthAt(e))' = Full /\ ~(DeadAt(e))'
      <4> TAKE e \in Copies
      <4>1. CASE e = c
        BY <2>3, <4>1
      <4>2. CASE e # c /\ e # owner
        BY <1>2, <1>7, <1>10, <2>2, <3>2, <4>2
      <4>3. CASE e = owner
        <5>1. (HealthAt(e))' = HealthAt(e) /\ (DeadAt(e))' = DeadAt(e)
          BY <1>2, <1>4, <1>7, <4>3
        <5> QED BY <1>2, <2>2, <4>3, <5>1
      <4> QED BY <4>1, <4>2, <4>3
    <3>5. ASSUME NEW e \in Copies PROVE (Balanced(e))'
      <4>1. /\ small[e] = 0 /\ Sums(calls[e], 0) /\ Sums(notices[e], 0) /\ e \in Clients
        BY <1>2, <1>9, <2>2, StillTells
      <4>2. Sums(notices'[e], 0)
        <5>1. CASE e = c
          <6>1. 0 - 0 = 0 /\ 0 \in Int
            OBVIOUS
          <6> QED BY <1>3, <1>5, <4>1, <5>1, <6>1
        <5>2. CASE e # c
          BY <1>3, <4>1, <5>2
        <5> QED BY <5>1, <5>2
      <4>3. (HealthAt(e))' + 0 = tally + 0 + 0
        BY <1>2, <3>3, <3>4
      <4> QED BY <1>1, <4>1, <4>2, <4>3 DEF Balanced
    <3> QED BY <1>1, <1>2, <1>7, <2>2, <3>4, <3>5 DEF BalancedCopies
  <2> QED BY <2>4, <2>7, <2>8 DEF CopiesKept, BalancedCopies
<1> QED BY <1>5, <1>12, <1>13

(* A client reads what the server passes on.                                 *)
LEMMA NoticesKeepCopies ==
    ASSUME VitalsInv, CopiesInv, NEW c \in Clients, Notices(c)
    PROVE  CopiesInv'
<1> DEFINE m == Head(notices[c])
<1>1. /\ notices[c] # <<>> /\ notices' = Read(notices, c)
      /\ UNCHANGED <<owner, small, told, near, calls, tally, amiss>>
  BY DEF Notices
<1>2. /\ VitalsTypes /\ CopiesFrame /\ SpawnsFirst(notices[c])
      /\ c \in near /\ near # {} /\ owner \in Clients /\ notices[owner] \in Seq(Deltas)
  BY <1>1, OwnersCopy
  DEF VitalsInv, VitalsTypes, CopiesInv, CopiesFrame, Strangers, OwnerReports
<1>3. /\ notices'[c] = Tail(notices[c]) /\ \A e \in Clients : e # c => notices'[e] = notices[e]
      /\ m \in VitalsNotices
      /\ \A K : (OnWay(K))' => OnWay(K)
      /\ \A K : m \notin K => (Carries(notices'[c], K) <=> Carries(notices[c], K))
      /\ SpawnsFirst(notices'[c]) /\ ~(Fresh(c))'
      /\ Worth(m) \in Int
      /\ \A d \in Int : Sums(notices[c], d) => Sums(notices'[c], d - Worth(m))
  BY <1>1, <1>2, HeardLess
<1>4. CopiesFrame'
  <2>1. \A e \in Clients : SpawnsFirst(notices'[e])
    BY <1>2, <1>3 DEF CopiesFrame
  <2>2. Excepted' /\ Strangers'
    BY <1>1, <1>2, <1>3 DEF CopiesFrame, Excepted, Strangers
  <2> QED BY <1>1, <1>2, <2>1, <2>2 DEF CopiesFrame
<1> SUFFICES ASSUME owner \notin amiss PROVE CopiesKept'
  BY <1>1, <1>4 DEF CopiesInv
<1>5. CopiesKept
  BY <1>2 DEF CopiesInv
<1>6. CASE m.type \in {"delta", "dead"}
  BY <1>2, <1>5, <1>6, DeltaKeepsCopies, EndKeepsCopies
<1>7. CASE m.type \notin {"delta", "dead"}
  <2>1. IF m.type = "spawn"
        THEN /\ health' = [health EXCEPT ![c] = m.health]
             /\ dead' = [dead EXCEPT ![c] = m.dead]
        ELSE UNCHANGED <<health, dead>>
    BY <1>7 DEF Notices
  <2>2. Fresh(c) <=> m.type = "spawn"
    BY <1>1 DEF Fresh
  <2>3. c = owner => m.type = "delta"
    <3>1. c = owner => m \in Deltas
      BY <1>1, <1>2, HeadTailProperties
    <3> QED BY <3>1, CallKinds
  <2>4. \A e \in Clients : (HealthAt(e))' = HealthAt(e) /\ (DeadAt(e))' = DeadAt(e)
    <3> TAKE e \in Clients
    <3>1. CASE e = c
      BY <1>1, <1>2, <1>3, <2>1, <2>2, <3>1 DEF HealthAt, DeadAt, VitalsTypes
    <3>2. CASE e # c
      BY <1>1, <1>2, <1>3, <2>1, <3>2 DEF HealthAt, DeadAt, Fresh, VitalsTypes
    <3> QED BY <3>1, <3>2
  <2>5. dead'[owner] = dead[owner] /\ health'[owner] = health[owner]
    BY <1>2, <1>7, <2>1, <2>3 DEF VitalsTypes
  <2>6. Worth(m) = 0 /\ m \notin Fates /\ \A b : m \notin FatesAt(b)
    BY <1>3, <1>7, WhatIsWorth
  <2> HIDE DEF m
  <2>7. ASSUME NEW e \in Copies
        PROVE  (Balanced(e) => (Balanced(e))') /\ (Awaits(e) => (Awaits(e))')
    <3>1. e \in Clients
      BY <1>2 DEF Copies, VitalsTypes
    <3>2. \A d \in Int : Sums(notices[e], d) => Sums(notices'[e], d)
      <4>1. \A d \in Int : d - 0 = d
        OBVIOUS
      <4> QED BY <1>3, <2>6, <3>1, <4>1
    <3>3. Balanced(e) => (Balanced(e))'
      BY <1>1, <1>2, <2>4, <3>1, <3>2, StaysBalanced
    <3>4. Carries(notices[e], Fates) => Carries(notices'[e], Fates)
      BY <1>3, <2>6, <3>1
    <3> QED BY <1>1, <2>5, <3>3, <3>4 DEF Awaits
  <2>8. \A K : m \notin K => ((OnWay(K))' <=> OnWay(K))
    <3> SUFFICES ASSUME NEW K, m \notin K, OnWay(K) PROVE (OnWay(K))'
      BY <1>3
    <3>1. \A e \in Clients : Carries(notices[e], K) => Carries(notices'[e], K)
      BY <1>3
    <3> QED BY <1>1, <3>1 DEF OnWay
  <2>9. (Wounding' => Wounding) /\ (Healing' => Healing) /\ Copies' = Copies
    BY <1>1, <1>3 DEF Wounding, Healing, Copies
  <2>10. (OnWay(Fates))' => OnWay(Fates)
    BY <1>3
  <2>11. \A b \in BOOLEAN : (OnWay(FatesAt(b)))' <=> OnWay(FatesAt(b))
    BY <2>6, <2>8
  <2>12. \A e \in Copies : (HealthAt(e))' = HealthAt(e) /\ (DeadAt(e))' = DeadAt(e)
    BY <1>2, <2>4 DEF Copies, VitalsTypes
  <2> QED BY <1>1, <1>2, <1>5, <2>5, <2>7, <2>9, <2>10, <2>11, <2>12, SameCopies
<1> QED BY <1>6, <1>7

---------------------------------------------------------------------------
(* OnHealthChangeBroadcast: what c has to say less, the others have to hear  *)
(* more, and the tally is that much further.                                 *)
LEMMA HealthChangeKeepsCopies ==
    ASSUME VitalsInv, CopiesInv, NEW c \in Clients, OnHealthChangeBroadcast(c)
    PROVE  CopiesInv'
<1> DEFINE m == Head(calls[c])
           d == m.health
<1>1. Serves(c, "delta") /\ tally' = tally + d
  BY DEF OnHealthChangeBroadcast
<1>2. CopiesFrame /\ tally \in Int /\ near \subseteq Clients
  BY DEF CopiesInv, CopiesFrame, VitalsInv, VitalsTypes
<1>3. /\ m \in Calls /\ m.type = "delta" /\ m \in VitalsNotices
      /\ UNCHANGED <<owner, health, dead, small, told, near, amiss>>
      /\ c \in near /\ near # {} /\ owner \in near
      /\ \A e \in Clients : e # c => calls'[e] = calls[e]
      /\ \A e \in Clients : e \notin near \ {c} => notices'[e] = notices[e]
      /\ \A K : Carries(calls[c], K) <=> Carries(calls'[c], K) \/ m \in K
      /\ \A K : \A e \in near \ {c} : Carries(notices'[e], K) <=> Carries(notices[e], K) \/ m \in K
      /\ \A K : ((OnWay(K))' => OnWay(K)) /\ (m \in K => OnWay(K))
      /\ \A e \in Clients : (HealthAt(e))' = HealthAt(e) /\ (DeadAt(e))' = DeadAt(e)
      /\ \A b \in Int : Sums(calls[c], b) => Sums(calls'[c], b - Worth(m))
      /\ \A e \in near \ {c} : \A a \in Int :
            Sums(notices[e], a) => Sums(notices'[e], a + Worth(m))
      /\ Strangers' /\ \A e \in Clients : SpawnsFirst(notices'[e])
  BY <1>1, <1>2, ServedOn
<1> HIDE DEF m
<1>4. /\ d \in Int /\ Worth(m) = d /\ m \notin Fates /\ (\A b : m \notin FatesAt(b))
      /\ m \in Losses \cup Gains
  BY <1>3, CallKinds, WhatIsWorth
<1> HIDE DEF d
<1>5. CopiesFrame'
  BY <1>1, <1>2, <1>3, <1>4 DEF CopiesFrame, Excepted
<1> SUFFICES ASSUME owner \notin amiss PROVE CopiesKept'
  BY <1>3, <1>5 DEF CopiesInv
<1>6. CopiesKept
  BY <1>3 DEF CopiesInv
<1>7. /\ (Wounding' => Wounding) /\ (Healing' => Healing) /\ (Wounding \/ Healing)
      /\ Copies' = Copies
  BY <1>3, <1>4 DEF Wounding, Healing, Copies
<1>8. ~Raised
  BY <1>6, <1>7 DEF CopiesKept, RaisedCopies
<1>9. \A K : \A e \in Clients : m \notin K =>
         /\ Carries(calls'[e], K) <=> Carries(calls[e], K)
         /\ Carries(notices'[e], K) <=> Carries(notices[e], K)
  BY <1>3
<1>10. \A K : m \notin K => ((OnWay(K))' <=> OnWay(K))
  BY <1>9 DEF OnWay
<1>11. ASSUME NEW e \in Copies
       PROVE  (Balanced(e) => (Balanced(e))') /\ (Awaits(e) => (Awaits(e))')
  <2>1. e \in Clients /\ e \in near /\ owner \in Clients
    BY <1>2, <1>3 DEF Copies
  <2>2. Awaits(e) => (Awaits(e))'
    BY <1>3, <1>4, <1>9, <2>1 DEF Awaits
  <2>3. ASSUME Balanced(e) PROVE (Balanced(e))'
    <3>1. PICK a \in Int, b \in Int : /\ Sums(notices[e], a) /\ Sums(calls[e], b)
                                      /\ HealthAt(e) + a = tally + b + small[e]
      BY <2>3 DEF Balanced
    <3>2. HealthAt(e) \in Int /\ small[e] \in Int
      BY <2>1, CopyTypes DEF VitalsInv, VitalsTypes
    <3>3. CASE e = c
      <4>1. Sums(calls'[e], b - d) /\ b - d \in Int /\ Sums(notices'[e], a)
        BY <1>3, <1>4, <2>1, <3>1, <3>3
      <4>2. HealthAt(e) + a = (tally + d) + (b - d) + small[e]
        BY <1>2, <1>4, <3>1, <3>2
      <4> QED BY <1>1, <1>3, <2>1, <3>1, <4>1, <4>2 DEF Balanced
    <3>4. CASE e # c
      <4>1. Sums(notices'[e], a + d) /\ a + d \in Int /\ calls'[e] = calls[e]
        BY <1>3, <1>4, <2>1, <3>1, <3>4
      <4>2. HealthAt(e) + (a + d) = (tally + d) + b + small[e]
        BY <1>2, <1>4, <3>1, <3>2
      <4> QED BY <1>1, <1>3, <2>1, <3>1, <4>1, <4>2 DEF Balanced
    <3> QED BY <3>3, <3>4
  <2> QED BY <2>2, <2>3
<1>12. \A e \in Copies : (HealthAt(e))' = HealthAt(e) /\ (DeadAt(e))' = DeadAt(e)
  BY <1>2, <1>3 DEF Copies
<1>13. /\ owner \in Clients /\ dead'[owner] = dead[owner] /\ health'[owner] = health[owner]
       /\ told'.dead = told.dead /\ owner' = owner
       /\ Carries(calls[owner], Fates) => Carries(calls'[owner], Fates)
       /\ (OnWay(Fates))' => OnWay(Fates)
       /\ \A b \in BOOLEAN : (OnWay(FatesAt(b)))' <=> OnWay(FatesAt(b))
  BY <1>2, <1>3, <1>4, <1>9, <1>10
<1> QED BY <1>6, <1>7, <1>8, <1>11, <1>12, <1>13, SameCopies

(* OnActorValueChanges: the others pass over it.                             *)
LEMMA ValuesKeepCopies ==
    ASSUME VitalsInv, CopiesInv, NEW c \in Clients, OnActorValueChanges(c)
    PROVE  CopiesInv'
<1> DEFINE m == Head(calls[c])
<1>1. Serves(c, "value") /\ tally' = tally
  BY DEF OnActorValueChanges
<1>2. CopiesFrame /\ near \subseteq Clients /\ VitalsTypes
  BY DEF CopiesInv, VitalsInv, VitalsTypes
<1>3. /\ m \in Calls /\ m.type = "value" /\ m \in VitalsNotices
      /\ UNCHANGED <<owner, health, dead, small, told, near, amiss>>
      /\ c \in near /\ near # {} /\ owner \in near
      /\ \A e \in Clients : e # c => calls'[e] = calls[e]
      /\ \A e \in Clients : e \notin near \ {c} => notices'[e] = notices[e]
      /\ \A K : Carries(calls[c], K) <=> Carries(calls'[c], K) \/ m \in K
      /\ \A K : \A e \in near \ {c} : Carries(notices'[e], K) <=> Carries(notices[e], K) \/ m \in K
      /\ \A K : ((OnWay(K))' => OnWay(K)) /\ (m \in K => OnWay(K))
      /\ \A e \in Clients : (HealthAt(e))' = HealthAt(e) /\ (DeadAt(e))' = DeadAt(e)
      /\ \A b \in Int : Sums(calls[c], b) => Sums(calls'[c], b - Worth(m))
      /\ \A e \in near \ {c} : \A a \in Int :
            Sums(notices[e], a) => Sums(notices'[e], a + Worth(m))
      /\ Strangers' /\ \A e \in Clients : SpawnsFirst(notices'[e])
  BY <1>1, <1>2, ServedOn
<1> HIDE DEF m
<1>4. Worth(m) = 0 /\ m \notin Fates /\ \A b : m \notin FatesAt(b)
  BY <1>3, WhatIsWorth
<1>5. CopiesFrame'
  BY <1>1, <1>2, <1>3 DEF CopiesFrame, Excepted
<1> SUFFICES ASSUME owner \notin amiss PROVE CopiesKept'
  BY <1>3, <1>5 DEF CopiesInv
<1>6. CopiesKept
  BY <1>3 DEF CopiesInv
<1>7. (Wounding' => Wounding) /\ (Healing' => Healing) /\ Copies' = Copies
  BY <1>3 DEF Wounding, Healing, Copies
<1>8. \A K : \A e \in Clients : m \notin K =>
         /\ Carries(calls'[e], K) <=> Carries(calls[e], K)
         /\ Carries(notices'[e], K) <=> Carries(notices[e], K)
  BY <1>3
<1>9. \A K : m \notin K => ((OnWay(K))' <=> OnWay(K))
  BY <1>8 DEF OnWay
<1>10. ASSUME NEW e \in Copies
       PROVE  (Balanced(e) => (Balanced(e))') /\ (Awaits(e) => (Awaits(e))')
  <2>1. e \in Clients /\ e \in near /\ owner \in Clients
    BY <1>2, <1>3 DEF Copies
  <2>2. Awaits(e) => (Awaits(e))'
    BY <1>3, <1>4, <1>8, <2>1 DEF Awaits
  <2>3. /\ \A b \in Int : Sums(calls[e], b) => Sums(calls'[e], b)
        /\ \A a \in Int : Sums(notices[e], a) => Sums(notices'[e], a)
    <3>1. \A a \in Int : a - 0 = a /\ a + 0 = a
      OBVIOUS
    <3> QED BY <1>3, <1>4, <2>1, <3>1
  <2>4. (HealthAt(e))' = HealthAt(e) /\ small' = small /\ tally' = tally
    BY <1>1, <1>3, <2>1
  <2> QED BY <1>2, <2>1, <2>2, <2>3, <2>4, StaysBalanced
<1>11. \A e \in Copies : (HealthAt(e))' = HealthAt(e) /\ (DeadAt(e))' = DeadAt(e)
  BY <1>2, <1>3 DEF Copies
<1>12. /\ owner \in Clients /\ dead'[owner] = dead[owner] /\ health'[owner] = health[owner]
       /\ told'.dead = told.dead /\ owner' = owner /\ tally' = tally
       /\ Carries(calls[owner], Fates) => Carries(calls'[owner], Fates)
       /\ (OnWay(Fates))' => OnWay(Fates)
       /\ \A b \in BOOLEAN : (OnWay(FatesAt(b)))' <=> OnWay(FatesAt(b))
  BY <1>1, <1>2, <1>3, <1>4, <1>8, <1>9
<1> QED BY <1>6, <1>7, <1>10, <1>11, <1>12, SameCopies

(* OnDeathStateChange: everybody else is to hear of it.                      *)
LEMMA DeathChangeKeepsCopies ==
    ASSUME VitalsInv, CopiesInv, NEW c \in Clients, OnDeathStateChange(c)
    PROVE  CopiesInv'
<1> DEFINE m == Head(calls[c])
<1>1. Serves(c, "dead") /\ tally' = IF m.dead THEN tally ELSE Full
  BY DEF OnDeathStateChange
<1>2. /\ CopiesFrame /\ near \subseteq Clients /\ VitalsTypes /\ tally \in Int /\ Full \in Int
      /\ told.dead \in BOOLEAN /\ Full > 0
  BY VitalsAssumption DEF CopiesInv, CopiesFrame, VitalsInv, VitalsTypes, Conditions
<1>3. /\ m \in Calls /\ m.type = "dead" /\ m \in VitalsNotices
      /\ UNCHANGED <<owner, health, dead, small, told, near, amiss>>
      /\ c \in near /\ near # {} /\ owner \in near
      /\ c # owner => m.type = "delta"
      /\ \A e \in Clients : e # c => calls'[e] = calls[e]
      /\ \A e \in Clients : e \notin near \ {c} => notices'[e] = notices[e]
      /\ \A K : \A e \in near \ {c} : Carries(notices'[e], K) <=> Carries(notices[e], K) \/ m \in K
      /\ \A K : ((OnWay(K))' => OnWay(K)) /\ (m \in K => OnWay(K))
      /\ \A e \in Clients : (HealthAt(e))' = HealthAt(e) /\ (DeadAt(e))' = DeadAt(e)
      /\ \A b \in Int : Sums(calls[c], b) => Sums(calls'[c], b - Worth(m))
      /\ \A e \in near \ {c} : \A a \in Int :
            Sums(notices[e], a) => Sums(notices'[e], a + Worth(m))
      /\ Strangers' /\ \A e \in Clients : SpawnsFirst(notices'[e])
  BY <1>1, <1>2, ServedOn
<1> HIDE DEF m
<1>4. Worth(m) = 0 /\ m \in Fates /\ m.dead \in BOOLEAN /\ m \in FatesAt(m.dead)
  BY <1>3, WhatIsWorth
<1>5. c = owner /\ owner \in Clients
  BY <1>2, <1>3
<1>6. CopiesFrame'
  BY <1>1, <1>2, <1>3, <1>4 DEF CopiesFrame, Excepted
<1> SUFFICES ASSUME owner \notin amiss PROVE CopiesKept'
  BY <1>3, <1>6 DEF CopiesInv
<1>7. /\ CopiesKept /\ Copies' = Copies /\ Copies \subseteq near /\ owner \in Copies
      /\ HealthAt(owner) = health[owner] /\ DeadAt(owner) = dead[owner]
  BY <1>3, OwnersCopy DEF CopiesInv, Copies
<1>8. (Wounding' => Wounding) /\ ~Healing /\ ~Healing'
  <2>1. OnWay(Fates)
    BY <1>3, <1>4
  <2>2. ~Healing
    BY <1>7, <2>1 DEF CopiesKept, DeadCopies
  <2> QED BY <1>3, <2>2 DEF Wounding, Healing
<1>9. Raised' => Raised
  BY <1>3 DEF Raised
<1>10. \A e \in Copies \ {owner} : (Awaits(e))' /\ Carries(notices'[e], FatesAt(m.dead))
  BY <1>2, <1>3, <1>4, <1>5, <1>7 DEF Awaits
<1>11. \A e \in Copies : (HealthAt(e))' = HealthAt(e) /\ (DeadAt(e))' = DeadAt(e)
  BY <1>2, <1>3, <1>7
<1>12. /\ (OnWay(FatesAt(TRUE)))' => OnWay(FatesAt(TRUE))
       /\ OnWay(FatesAt(m.dead))
  BY <1>3, <1>4
<1>13. DeadCopies'
  <2>1. \A e \in Copies : (HealthAt(e))' <= 0 => (DeadAt(e))'
    BY <1>7, <1>11 DEF CopiesKept, DeadCopies
  <2>2. (OnWay(FatesAt(TRUE)))' => dead'[owner]
    BY <1>3, <1>7, <1>12 DEF CopiesKept, DeadCopies
  <2> QED BY <1>3, <1>7, <1>8, <2>1, <2>2 DEF DeadCopies
<1>14. CASE m.dead
  <2>1. dead[owner] /\ ~Raised /\ ~Raised'
    BY <1>7, <1>9, <1>12, <1>14 DEF CopiesKept, DeadCopies, RaisedCopies
  <2>2. ASSUME NEW e \in Copies PROVE (Balanced(e))'
    <3>1. /\ \A b \in Int : Sums(calls[e], b) => Sums(calls'[e], b)
          /\ \A a \in Int : Sums(notices[e], a) => Sums(notices'[e], a)
      <4>1. \A a \in Int : a - 0 = a /\ a + 0 = a
        OBVIOUS
      <4> QED BY <1>2, <1>3, <1>4, <1>7, <4>1
    <3>2. Balanced(e) /\ e \in Clients /\ (HealthAt(e))' = HealthAt(e)
      BY <1>2, <1>7, <1>11, <2>1 DEF CopiesKept, BalancedCopies
    <3>3. small' = small /\ tally' = tally
      BY <1>1, <1>3, <1>14
    <3> QED BY <1>2, <3>1, <3>2, <3>3, StaysBalanced
  <2>3. \A e \in Copies : (DeadAt(e))' \/ (Awaits(e))'
    BY <1>7, <1>10, <1>11, <2>1
  <2>4. BalancedCopies'
    BY <1>3, <1>7, <2>1, <2>2, <2>3 DEF BalancedCopies
  <2> QED BY <1>13, <2>1, <2>4 DEF CopiesKept, RaisedCopies
<1>15. CASE ~m.dead
  <2>1. Raised /\ tally' = Full
    BY <1>1, <1>4, <1>12, <1>15 DEF Raised
  <2>2. /\ ~Wounding /\ ~Wounding' /\ ~dead[owner] /\ health[owner] = Full
        /\ \A e \in Copies \ {owner} : ~DeadAt(e) => HealthAt(e) = Full
    BY <1>7, <1>8, <2>1 DEF CopiesKept, RaisedCopies
  <2>3. RaisedCopies'
    BY <1>3, <1>7, <1>8, <1>10, <1>11, <2>1, <2>2 DEF RaisedCopies
  <2>4. ASSUME ~Raised' PROVE BalancedCopies'
    <3>1. Copies = {owner}
      <4>1. ~(OnWay(FatesAt(FALSE)))'
        BY <2>4 DEF Raised
      <4>2. ASSUME NEW e \in Copies \ {owner} PROVE FALSE
        <5>1. Carries(notices'[e], FatesAt(FALSE)) /\ e \in Clients
          BY <1>2, <1>4, <1>7, <1>10, <1>15
        <5> QED BY <4>1, <5>1 DEF OnWay
      <4> QED BY <1>7, <4>2
    <3>2. (Balanced(owner))'
      <4>1. Sums(calls[owner], 0) /\ Sums(notices[owner], 0) /\ small[owner] = 0
        BY <1>2, <1>5, <1>8, <2>2, StillTells
      <4>2. Sums(calls'[owner], 0) /\ Sums(notices'[owner], 0)
        <5>1. 0 - 0 = 0 /\ 0 \in Int
          OBVIOUS
        <5> QED BY <1>3, <1>4, <1>5, <4>1, <5>1
      <4>3. \A e \in Copies : (HealthAt(e))' = Full
        BY <1>7, <1>11, <2>2, <3>1
      <4>4. \A e \in Copies : (Balanced(e))'
        <5>1. \A e \in Copies :
                 Sums(calls'[e], 0) /\ Sums(notices'[e], 0) /\ small'[e] = 0
          BY <1>3, <3>1, <4>1, <4>2
        <5>2. Full + 0 = Full + 0 + 0 /\ 0 \in Int
          BY <1>2
        <5> QED BY <2>1, <4>3, <5>1, <5>2 DEF Balanced
      <4> QED BY <1>3, <1>7, <4>4
    <3>3. \A e \in Copies : (Balanced(e))' /\ ~(DeadAt(e))'
      BY <1>3, <1>7, <1>11, <2>2, <3>1, <3>2
    <3> QED BY <1>3, <1>7, <2>2, <3>3 DEF BalancedCopies
  <2> QED BY <1>13, <2>3, <2>4 DEF CopiesKept, BalancedCopies
<1> QED BY <1>4, <1>14, <1>15

(* The actor is assigned to its first owner.                                 *)
LEMMA AssignedKeepsCopies ==
    ASSUME VitalsInv, CopiesInv, NEW c \in Clients, Assigned(c)
    PROVE  CopiesInv'
<1>1. /\ near = {} /\ owner' = c /\ near' = {c}
      /\ UNCHANGED <<health, dead, small, told, record, calls, notices, tally, amiss>>
  BY DEF Assigned
<1>2. /\ \A d \in Clients : /\ calls[d] = <<>> /\ notices[d] = <<>> /\ small[d] = 0
                            /\ health[d] = Full /\ ~dead[d]
      /\ told.dead = FALSE /\ amiss = {} /\ tally = Full /\ CopiesFrame
      /\ Full \in Int /\ Full > 0
  BY <1>1, VitalsAssumption DEF VitalsInv, Unowned, CopiesInv, CopiesFrame, Excepted
<1>3. CopiesFrame'
  BY <1>1, <1>2 DEF CopiesFrame, Excepted, Strangers
<1>4. \A K : ~(OnWay(K))'
  BY <1>1, <1>2, CarriesNothing DEF OnWay
<1>5. ~Wounding' /\ ~Healing' /\ ~Raised' /\ Copies' = {c}
  <2>1. ~Wounding' /\ ~Healing'
    <3>1. \A e \in Clients : ~(small'[e] < 0) /\ ~(small'[e] > 0)
      BY <1>1, <1>2
    <3> QED BY <1>4, <3>1 DEF Wounding, Healing
  <2>2. ~Raised'
    BY <1>1, <1>2, <1>4 DEF Raised
  <2>3. Copies' = {c}
    BY <1>1, <1>2 DEF Copies
  <2> QED BY <2>1, <2>2, <2>3
<1>6. \A e \in {c} : (HealthAt(e))' = Full /\ ~(DeadAt(e))' /\ ~dead'[e]
  BY <1>1, <1>2 DEF HealthAt, DeadAt, Fresh
<1>7. \A e \in {c} : (Balanced(e))'
  <2>1. <<>> \in Seq(VitalsNotices) /\ Len(<<>>) = 0
    BY EmptySeq
  <2>2. Sums(<<>>, 0)
    BY <2>1, CarriesNothing, SumOfStill
  <2>3. Full + 0 = Full + 0 + 0 /\ 0 \in Int
    BY <1>2
  <2>4. \A e \in {c} : calls'[e] = <<>> /\ notices'[e] = <<>> /\ small'[e] = 0 /\ tally' = Full
    BY <1>1, <1>2
  <2> QED BY <1>6, <2>2, <2>3, <2>4 DEF Balanced
<1>8. BalancedCopies'
  BY <1>1, <1>5, <1>6, <1>7 DEF BalancedCopies
<1>9. DeadCopies'
  <2>1. \A e \in {c} : ~((HealthAt(e))' <= 0)
    BY <1>2, <1>6
  <2> QED BY <1>4, <1>5, <2>1 DEF DeadCopies
<1> QED BY <1>3, <1>5, <1>8, <1>9 DEF CopiesInv, CopiesKept, RaisedCopies

(* A client comes into range: if the record is what the clients of the others  *)
(* make of the actor, so is its copy.                                          *)
LEMMA ApproachesKeepsCopies ==
    ASSUME VitalsInv, CopiesInv, NEW c \in Clients, Approaches(c)
    PROVE  CopiesInv'
<1> DEFINE m == [type |-> "spawn", health |-> record.health, dead |-> record.dead]
<1>1. /\ near # {} /\ c \notin near /\ near' = near \cup {c}
      /\ notices' = Posted(notices, {c}, m)
      /\ amiss' = IF record.health # tally \/ record.dead # (tally <= 0) \/ DeathUntold
                  THEN amiss \cup {c} ELSE amiss
      /\ UNCHANGED <<owner, health, dead, small, told, record, calls, tally>>
  BY DEF Approaches
<1>2. /\ VitalsTypes /\ CopiesFrame /\ near \subseteq Clients /\ amiss \subseteq Clients
      /\ owner \in near /\ owner \in Clients /\ c # owner
      /\ HealthAt(owner) = health[owner] /\ DeadAt(owner) = dead[owner]
      /\ calls[c] = <<>> /\ notices[c] = <<>> /\ small[c] = 0
      /\ record.health \in Int /\ record.dead \in BOOLEAN /\ tally \in Int
  BY <1>1, OwnersCopy
  DEF CopiesInv, CopiesFrame, Excepted, Strangers, VitalsInv, VitalsTypes, Conditions
<1>3. m \in VitalsNotices /\ m.type = "spawn" /\ m.health = record.health /\ m.dead = record.dead
  BY <1>2 DEF VitalsNotices
<1> HIDE DEF m
<1>4. /\ m \notin Losses /\ m \notin Gains /\ m \notin Fates /\ (\A b : m \notin FatesAt(b))
      /\ Worth(m) = 0
  BY <1>3, WhatIsWorth
<1>5. \A e \in Clients : notices'[e] = IF e = c THEN Append(notices[e], m) ELSE notices[e]
  BY <1>1 DEF Posted
<1>6. <<>> \in Seq(VitalsNotices)
  BY EmptySeq
<1>7. /\ SpawnsFirst(notices'[c]) /\ notices'[c] # <<>> /\ Head(notices'[c]) = m
      /\ \A K : Carries(notices'[c], K) <=> m \in K
      /\ Sums(<<>>, 0) /\ Sums(notices'[c], 0)
  <2>1. notices'[c] = Append(<<>>, m)
    BY <1>2, <1>5
  <2>2. Sums(<<>>, 0)
    BY <1>6, CarriesNothing, SumOfStill
  <2>3. SpawnsFirst(<<>>)
    BY <1>6 DEF SpawnsFirst
  <2>4. /\ SpawnsFirst(Append(<<>>, m)) /\ Append(<<>>, m) # <<>> /\ Head(Append(<<>>, m)) = m
    BY <1>3, <1>6, <2>3, SpawnsFirstStays
  <2>5. \A K : Carries(Append(<<>>, m), K) <=> m \in K
    BY <1>3, <1>6, CarriesMore, CarriesNothing
  <2>6. Sums(Append(<<>>, m), 0)
    <3>1. Worth(m) \in Int /\ 0 + Worth(m) = 0 /\ 0 \in Int
      BY <1>4
    <3>2. Sums(Append(<<>>, m), 0 + Worth(m))
      BY <1>3, <1>6, <2>2, <3>1, SumOfMore
    <3> QED BY <3>1, <3>2
  <2> QED BY <2>1, <2>2, <2>4, <2>5, <2>6
<1>8. \A K : m \notin K => ((OnWay(K))' <=> OnWay(K))
  BY <1>1, <1>2, <1>5, <1>7, CarriesNothing DEF OnWay
<1>9. CopiesFrame'
  <2>1. \A e \in Clients : SpawnsFirst(notices'[e])
    BY <1>2, <1>5, <1>7 DEF CopiesFrame
  <2>2. Strangers'
    BY <1>1, <1>2, <1>5 DEF CopiesFrame, Strangers
  <2>3. Excepted'
    BY <1>1, <1>2 DEF CopiesFrame, Excepted
  <2> QED BY <1>1, <1>2, <2>1, <2>2, <2>3 DEF CopiesFrame
<1> SUFFICES ASSUME owner \notin amiss PROVE CopiesKept'
  BY <1>1, <1>2, <1>9 DEF CopiesInv
<1>10. CopiesKept /\ Copies \subseteq near /\ c \notin Copies /\ owner \in Copies
  BY <1>1, <1>2 DEF CopiesInv, Copies
<1>11. \A e \in Copies :
          /\ (HealthAt(e))' = HealthAt(e) /\ (DeadAt(e))' = DeadAt(e) /\ notices'[e] = notices[e]
          /\ Awaits(e) <=> (Awaits(e))'
  BY <1>1, <1>2, <1>5, <1>10 DEF HealthAt, DeadAt, Fresh, Awaits
<1>12. (Wounding' <=> Wounding) /\ (Healing' <=> Healing)
  BY <1>1, <1>4, <1>8 DEF Wounding, Healing
<1>13. /\ (OnWay(Fates))' <=> OnWay(Fates)
       /\ \A b \in BOOLEAN : (OnWay(FatesAt(b)))' <=> OnWay(FatesAt(b))
  BY <1>4, <1>8
<1>14. ASSUME NEW e \in Copies, Balanced(e) PROVE (Balanced(e))'
  BY <1>1, <1>2, <1>10, <1>11, <1>14, StaysBalanced
<1>15. CASE Copies' = Copies
  BY <1>1, <1>2, <1>10, <1>11, <1>12, <1>13, <1>14, <1>15, SameCopies
<1>16. CASE Copies' # Copies
  <2>1. /\ record.health = tally /\ record.dead = (tally <= 0) /\ ~DeathUntold
        /\ Copies' = Copies \cup {c}
    <3>1. record.health # tally \/ record.dead # (tally <= 0) \/ DeathUntold => Copies' = Copies
      BY <1>1, <1>2 DEF Copies
    <3>2. Copies' \subseteq Copies \cup {c}
      BY <1>1 DEF Copies
    <3>3. record.health = tally /\ record.dead = (tally <= 0) /\ ~DeathUntold => Copies \subseteq Copies'
      BY <1>1 DEF Copies
    <3> QED BY <1>16, <3>1, <3>2, <3>3
  <2>2. ~Raised /\ ~OnWay(Fates) /\ told.dead = dead[owner]
    BY <1>1, <2>1, RaisedIsUntold
  <2>3. ~Raised'
    BY <1>1, <1>13, <2>2 DEF Raised
  <2>4. record.dead = told.dead
    <3>1. ~Carries(calls[owner], Fates) /\ calls[owner] \in Seq(Calls)
      BY <1>2, <2>2 DEF OnWay, VitalsTypes
    <3>2. Without(calls[owner], "dead")
      <4>1. \A i \in 1 .. Len(calls[owner]) : calls[owner][i] \in VitalsNotices
        BY <3>1, CallKinds
      <4> QED BY <3>1, <4>1, WhatIsWorth DEF Without, Carries
    <3> QED BY <1>1, <3>2 DEF VitalsInv, DeathsTold
  <2>5. \A e \in {c} : (HealthAt(e))' = tally /\ (DeadAt(e))' = dead[owner]
    BY <1>3, <1>7, <2>1, <2>2, <2>4 DEF HealthAt, DeadAt, Fresh
  <2>6. dead[owner] = (tally <= 0)
    BY <2>1, <2>2, <2>4
  <2>7. \A e \in {c} : (Balanced(e))'
    <3>1. tally + 0 = tally + 0 + 0 /\ 0 \in Int
      BY <1>2
    <3>2. \A e \in {c} : Sums(calls'[e], 0) /\ Sums(notices'[e], 0) /\ small'[e] = 0 /\ tally' = tally
      BY <1>1, <1>2, <1>7
    <3> QED BY <2>5, <3>1, <3>2 DEF Balanced
  <2>8. BalancedCopies'
    <3>1. \A e \in Copies : /\ (Balanced(e))'
                            /\ (DeadAt(e))' => (HealthAt(e))' <= 0 \/ dead[owner]
                            /\ dead[owner] => (DeadAt(e))' \/ (Awaits(e))'
      BY <1>11, <1>10, <1>14, <2>2 DEF CopiesKept, BalancedCopies
    <3> QED BY <1>1, <2>1, <2>5, <2>7, <3>1 DEF BalancedCopies
  <2>9. DeadCopies'
    <3>1. \A e \in Copies \cup {c} : (HealthAt(e))' <= 0 => (DeadAt(e))'
      BY <1>10, <1>11, <2>5, <2>6 DEF CopiesKept, DeadCopies
    <3>2. Healing => ~dead[owner] /\ ~told.dead /\ \A e \in Copies \cup {c} : ~(DeadAt(e))'
      BY <1>10, <1>11, <2>5 DEF CopiesKept, DeadCopies
    <3>3. ~(Wounding' /\ Healing') /\ ((OnWay(FatesAt(TRUE)))' => dead[owner])
      BY <1>10, <1>12, <1>13 DEF CopiesKept, DeadCopies
    <3> QED BY <1>1, <1>12, <1>13, <2>1, <2>2, <3>1, <3>2, <3>3 DEF DeadCopies
  <2> QED BY <2>3, <2>8, <2>9 DEF CopiesKept, RaisedCopies
<1> QED BY <1>15, <1>16

(* Every step keeps what is said of the copies.                              *)
LEMMA CopiesNextInv == VitalsInv /\ CopiesInv /\ [VitalsNext]_vitalsVars => CopiesInv'
<1> SUFFICES ASSUME VitalsInv, CopiesInv, [VitalsNext]_vitalsVars PROVE CopiesInv'
  OBVIOUS
<1>1. CASE UNCHANGED vitalsVars
  <2>1. UNCHANGED <<owner, health, dead, small, told, near, calls, notices, tally, amiss>>
    BY <1>1 DEF vitalsVars
  <2>2. /\ \A K : (OnWay(K))' <=> OnWay(K)
        /\ \A c : (HealthAt(c))' = HealthAt(c) /\ (DeadAt(c))' = DeadAt(c)
        /\ \A c : (Awaits(c))' <=> Awaits(c)
        /\ Copies' = Copies
    BY <2>1 DEF OnWay, HealthAt, DeadAt, Fresh, Awaits, Copies
  <2>3. \A c : Balanced(c) => (Balanced(c))'
    BY <2>1, <2>2 DEF Balanced
  <2>4. (Wounding' <=> Wounding) /\ (Healing' <=> Healing) /\ (Raised' <=> Raised)
    BY <2>1, <2>2 DEF Wounding, Healing, Raised
  <2>5. CopiesFrame'
    BY <2>1 DEF CopiesInv, CopiesFrame, Excepted, Strangers
  <2>6. CopiesKept => RaisedCopies' /\ BalancedCopies'
    BY <2>1, <2>2, <2>3, <2>4 DEF CopiesKept, RaisedCopies, BalancedCopies
  <2>7. CopiesKept => DeadCopies'
    BY <2>1, <2>2, <2>4 DEF CopiesKept, DeadCopies
  <2> QED BY <2>1, <2>5, <2>6, <2>7 DEF CopiesInv, CopiesKept
<1>2. CASE Resurrect \/ TellDeath \/ TellHealth
  BY <1>2, ResurrectKeepsCopies, TellDeathKeepsCopies, TellHealthKeepsCopies
<1>3. ASSUME NEW n \in Blows, Cure(n) PROVE CopiesInv'
  BY <1>3, CureKeepsCopies
<1>4. ASSUME NEW c \in Clients, NEW n \in Blows, Blow(c, n) PROVE CopiesInv'
  BY <1>4, BlowKeepsCopies
<1>5. ASSUME NEW c \in Clients,
             RunSmallHealthUpdates(c) \/ Notices(c) \/ Assigned(c) \/ Approaches(c)
      PROVE  CopiesInv'
  BY <1>5, SmallUpdatesKeepCopies, NoticesKeepCopies, AssignedKeepsCopies,
     ApproachesKeepsCopies
<1>6. ASSUME NEW c \in Clients,
             OnHealthChangeBroadcast(c) \/ OnActorValueChanges(c) \/ OnDeathStateChange(c)
      PROVE  CopiesInv'
  BY <1>6, HealthChangeKeepsCopies, ValuesKeepCopies, DeathChangeKeepsCopies
<1> QED BY <1>1, <1>2, <1>3, <1>4, <1>5, <1>6 DEF VitalsNext

(* In every state each copy that is not excepted has the health that the       *)
(* server's tally has, but for what it has yet to hear and what the server has *)
(* yet to hear from it; and it is dead when it has none, or the owner's copy is. *)
THEOREM CopiesInvariant == VitalsSpec => []CopiesInv
<1>1. VitalsInit => CopiesInv
  BY InitCopies
<1>2. VitalsInv /\ CopiesInv /\ [VitalsNext]_vitalsVars => CopiesInv'
  BY CopiesNextInv
<1> QED BY <1>1, <1>2, VitalsInvariant, PTL DEF VitalsSpec

(* When all is told and read, the actor is as alive, and while it is alive as  *)
(* healthy, in every game in range as in its owner's, for any number of        *)
(* clients, blows and cures (OnHealthChangeBroadcast and OnDeathStateChange of *)
(* client and server).                                                         *)
THEOREM CopiesAlwaysAgree == VitalsSpec => []CopiesAgree
<1>1. VitalsInv /\ CopiesInv => CopiesAgree
  <2> SUFFICES ASSUME VitalsInv, CopiesInv, NEW c \in Copies, Told
               PROVE  dead[c] = dead[owner] /\ (~dead[c] => health[c] = health[owner])
    BY DEF CopiesAgree, Copies
  <2>1. /\ near # {} /\ owner \in Clients /\ CopiesFrame /\ VitalsTypes
        /\ Copies \subseteq Clients /\ owner \in near
        /\ dead \in [Clients -> BOOLEAN]
    BY OwnersCopy DEF Told, VitalsInv, VitalsTypes, CopiesInv, Copies
  <2>2. owner \notin amiss
    BY <2>1 DEF CopiesFrame, Excepted, Copies
  <2>3. CopiesKept
    BY <2>1, <2>2 DEF CopiesInv
  <2>4. \A K : ~OnWay(K) /\ \A e \in Clients : ~Carries(calls[e], K) /\ ~Carries(notices[e], K)
    BY CarriesNothing DEF Told, OnWay
  <2>5. ~Wounding /\ ~Healing
    BY <2>4 DEF Wounding, Healing, Told
  <2>6. told.dead = dead[owner]
    BY DEF Told
  <2>7. ~Raised /\ ~Awaits(c)
    BY <2>1, <2>4, <2>6 DEF Raised, Awaits
  <2>8. HealthAt(c) = health[owner] /\ (~dead[owner] => ~DeadAt(c))
    BY <2>1, <2>2, <2>3, <2>5, <2>7, StillAlike
  <2>9. dead[owner] => DeadAt(c)
    BY <2>3, <2>7 DEF CopiesKept, BalancedCopies
  <2>10. HealthAt(c) = health[c] /\ DeadAt(c) = dead[c]
    BY <2>1 DEF Told, Fresh, HealthAt, DeadAt
  <2> QED BY <2>1, <2>8, <2>9, <2>10
<1> QED BY <1>1, VitalsInvariant, CopiesInvariant, PTL

=============================================================================
