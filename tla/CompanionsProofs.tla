-------------------------- MODULE CompanionsProofs --------------------------
(***************************************************************************)
(* Proofs about what follows the leader of a party, Quests and Weather,    *)
(* for any clients, quests, stages, places and weathers. Both say what is  *)
(* true when all is read; what is proved is what the messages that are     *)
(* still on their way will make of the games. So the lemmas come first     *)
(* that say what a queue carries, what its last message of a kind is, what *)
(* it makes of one who reads it, and how that changes when a message is    *)
(* posted, read or put behind others; other modules use them too.          *)
(***************************************************************************)
EXTENDS Quests, Weather, SequenceTheorems, FiniteSetTheorems, TLAPS

---------------------------------------------------------------------------
(* Queues *)

(* A message that is posted goes to the end of the queue of each recipient.    *)
LEMMA PostedQueues ==
    ASSUME NEW S, NEW queues \in [Clients -> Seq(S)], NEW R, NEW m \in S
    PROVE  /\ Posted(queues, R, m) \in [Clients -> Seq(S)]
           /\ \A d \in Clients : Posted(queues, R, m)[d] =
                 IF d \in R THEN Append(queues[d], m) ELSE queues[d]
BY DEF Posted

(* A message that is read is the first of its queue.                           *)
LEMMA ReadQueues ==
    ASSUME NEW S, NEW queues \in [Clients -> Seq(S)], NEW c \in Clients, queues[c] # <<>>
    PROVE  /\ Head(queues[c]) \in S
           /\ Read(queues, c) \in [Clients -> Seq(S)]
           /\ Read(queues, c)[c] = Tail(queues[c])
           /\ \A d \in Clients : d # c => Read(queues, c)[d] = queues[d]
<1>1. Head(queues[c]) \in S /\ Tail(queues[c]) \in Seq(S)
  BY HeadTailProperties
<1> QED BY <1>1 DEF Read

\* One of the messages in s is in K
Carries(s, K) == \E i \in 1 .. Len(s) : s[i] \in K

\* The last of those in K is in G
Latest(s, K, G) ==
    \E i \in 1 .. Len(s) :
        s[i] \in K /\ s[i] \in G /\ \A j \in 1 .. Len(s) : j > i => s[j] \notin K

\* s and t have the same to say about K
SameOn(s, t, K) ==
    /\ Carries(t, K) <=> Carries(s, K)
    /\ \A G : Latest(t, K, G) <=> Latest(s, K, G)

(* There is nothing in an empty queue.                                       *)
LEMMA CarriesNothing == \A K : ~Carries(<<>>, K) /\ \A G : ~Latest(<<>>, K, G)
BY DEF Carries, Latest

(* A queue says what it says.                                                *)
LEMMA SameOnItself == \A s, K : SameOn(s, s, K)
BY DEF SameOn

(* The last message of a kind is a message of that kind.                     *)
LEMMA LatestIsCarried ==
    ASSUME NEW s, NEW K, NEW G, Latest(s, K, G)
    PROVE  Carries(s, K)
BY DEF Carries, Latest

(* One message more.                                                         *)
LEMMA CarriesMore ==
    ASSUME NEW S, NEW s \in Seq(S), NEW m \in S
    PROVE  \A K : /\ Carries(Append(s, m), K) <=> Carries(s, K) \/ m \in K
                  /\ \A G : Latest(Append(s, m), K, G) <=>
                         IF m \in K THEN m \in G ELSE Latest(s, K, G)
                  /\ m \notin K => SameOn(s, Append(s, m), K)
<1> DEFINE t == Append(s, m)
           n == Len(s)
<1>1. n \in Nat /\ Len(t) = n + 1 /\ t[n + 1] = m /\ \A i \in 1 .. n : t[i] = s[i]
  BY AppendProperties, LenProperties
<1> HIDE DEF t
<1>2. 1 .. Len(t) = (1 .. n) \cup {n + 1} /\ \A i \in 1 .. n : n + 1 > i
  BY <1>1
<1>3. ASSUME NEW K PROVE Carries(t, K) <=> Carries(s, K) \/ m \in K
  BY <1>1, <1>2 DEF Carries
<1>4. ASSUME NEW K, NEW G, m \in K PROVE Latest(t, K, G) <=> m \in G
  <2>1. m \in G => Latest(t, K, G)
    BY <1>1, <1>2, <1>4 DEF Latest
  <2>2. Latest(t, K, G) => m \in G
    BY <1>1, <1>2, <1>4 DEF Latest
  <2> QED BY <2>1, <2>2
<1>5. ASSUME NEW K, NEW G, m \notin K PROVE Latest(t, K, G) <=> Latest(s, K, G)
  <2>1. ASSUME Latest(t, K, G) PROVE Latest(s, K, G)
    <3>1. PICK i \in 1 .. Len(t) :
             t[i] \in K /\ t[i] \in G /\ \A j \in 1 .. Len(t) : j > i => t[j] \notin K
      BY <2>1 DEF Latest
    <3>2. i \in 1 .. n
      BY <1>1, <1>2, <1>5, <3>1
    <3> QED BY <1>1, <1>2, <3>1, <3>2 DEF Latest
  <2>2. ASSUME Latest(s, K, G) PROVE Latest(t, K, G)
    <3>1. PICK i \in 1 .. n :
             s[i] \in K /\ s[i] \in G /\ \A j \in 1 .. n : j > i => s[j] \notin K
      BY <2>2 DEF Latest
    <3> QED BY <1>1, <1>2, <1>5, <3>1 DEF Latest
  <2> QED BY <2>1, <2>2
<1> QED BY <1>3, <1>4, <1>5 DEF SameOn, t

(* One message less.                                                         *)
LEMMA CarriesLess ==
    ASSUME NEW S, NEW s \in Seq(S), s # <<>>
    PROVE  \A K : /\ Carries(s, K) <=> Carries(Tail(s), K) \/ Head(s) \in K
                  /\ \A G : Latest(s, K, G) <=>
                         IF Carries(Tail(s), K) THEN Latest(Tail(s), K, G)
                         ELSE Head(s) \in K /\ Head(s) \in G
                  /\ Head(s) \notin K => SameOn(s, Tail(s), K)
<1> DEFINE t == Tail(s)
           n == Len(s)
           m == Head(s)
<1>1. /\ n \in Nat \ {0} /\ Len(t) = n - 1 /\ m = s[1]
      /\ \A i \in 1 .. Len(t) : t[i] = s[i + 1]
  <2>1. Len(t) = n - 1 /\ \A i \in 1 .. Len(t) : t[i] = s[i + 1]
    BY HeadTailProperties
  <2>2. n \in Nat \ {0}
    BY EmptySeq
  <2> QED BY <2>1, <2>2
<1> HIDE DEF t, n, m
<1>2. /\ \A i \in 1 .. n : i = 1 \/ (i - 1 \in 1 .. Len(t) /\ t[i - 1] = s[i])
      /\ \A i \in 1 .. Len(t) : i + 1 \in 1 .. n
      /\ 1 \in 1 .. n
  BY <1>1
<1>3. ASSUME NEW K PROVE Carries(s, K) <=> Carries(t, K) \/ m \in K
  <2>1. Carries(s, K) => Carries(t, K) \/ m \in K
    BY <1>1, <1>2 DEF Carries, n
  <2>2. Carries(t, K) => Carries(s, K)
    BY <1>1, <1>2 DEF Carries, n
  <2>3. m \in K => Carries(s, K)
    BY <1>1, <1>2 DEF Carries, n
  <2> QED BY <2>1, <2>2, <2>3
<1>4. ASSUME NEW K, NEW G, Latest(t, K, G) PROVE Latest(s, K, G)
  <2>1. PICK i \in 1 .. Len(t) :
           t[i] \in K /\ t[i] \in G /\ \A j \in 1 .. Len(t) : j > i => t[j] \notin K
    BY <1>4 DEF Latest
  <2>2. i + 1 \in 1 .. n /\ s[i + 1] \in K /\ s[i + 1] \in G
    BY <1>1, <1>2, <2>1
  <2>3. ASSUME NEW j \in 1 .. n, j > i + 1 PROVE s[j] \notin K
    <3>1. j - 1 \in 1 .. Len(t) /\ t[j - 1] = s[j] /\ j - 1 > i
      BY <1>1, <1>2, <2>1, <2>3
    <3> QED BY <2>1, <3>1
  <2> QED BY <2>2, <2>3 DEF Latest, n
<1>5. ASSUME NEW K, NEW G, Latest(s, K, G), Carries(t, K) PROVE Latest(t, K, G)
  <2>1. PICK i \in 1 .. n :
           s[i] \in K /\ s[i] \in G /\ \A j \in 1 .. n : j > i => s[j] \notin K
    BY <1>5 DEF Latest, n
  <2>2. PICK k \in 1 .. Len(t) : t[k] \in K
    BY <1>5 DEF Carries
  <2>3. i # 1
    <3>1. k + 1 \in 1 .. n /\ s[k + 1] \in K /\ k + 1 > 1
      BY <1>1, <1>2, <2>2
    <3> QED BY <2>1, <3>1
  <2>4. i - 1 \in 1 .. Len(t) /\ t[i - 1] = s[i]
    BY <1>2, <2>1, <2>3
  <2>5. ASSUME NEW j \in 1 .. Len(t), j > i - 1 PROVE t[j] \notin K
    <3>1. j + 1 \in 1 .. n /\ s[j + 1] = t[j] /\ j + 1 > i
      BY <1>1, <1>2, <2>1, <2>5
    <3> QED BY <2>1, <3>1
  <2> QED BY <2>1, <2>4, <2>5 DEF Latest
<1>6. ASSUME NEW K, NEW G, ~Carries(t, K)
      PROVE  Latest(s, K, G) <=> m \in K /\ m \in G
  <2>1. \A j \in 1 .. n : j = 1 \/ s[j] \notin K
    BY <1>1, <1>2, <1>6 DEF Carries
  <2>2. \A j \in 1 .. n : j > 1 => j # 1
    BY <1>1
  <2> QED BY <1>1, <1>2, <2>1, <2>2 DEF Latest, n
<1>7. ASSUME NEW K, m \notin K PROVE SameOn(s, t, K)
  <2>1. Carries(t, K) <=> Carries(s, K)
    BY <1>3, <1>7
  <2>2. ASSUME NEW G PROVE Latest(t, K, G) <=> Latest(s, K, G)
    <3>1. CASE Carries(t, K)
      BY <1>4, <1>5, <3>1
    <3>2. CASE ~Carries(t, K)
      BY <1>6, <1>7, <3>2, LatestIsCarried
    <3> QED BY <3>1, <3>2
  <2> QED BY <2>1, <2>2 DEF SameOn
<1>8. ASSUME NEW K, NEW G
      PROVE  Latest(s, K, G) <=> IF Carries(t, K) THEN Latest(t, K, G) ELSE m \in K /\ m \in G
  BY <1>4, <1>5, <1>6
<1> QED BY <1>3, <1>7, <1>8 DEF t, m

(* One queue after another.                                                  *)
LEMMA CarriesBoth ==
    ASSUME NEW S, NEW s \in Seq(S), NEW t \in Seq(S)
    PROVE  \A K : /\ Carries(s \o t, K) <=> Carries(s, K) \/ Carries(t, K)
                  /\ \A G : Latest(s \o t, K, G) <=>
                         IF Carries(t, K) THEN Latest(t, K, G) ELSE Latest(s, K, G)
                  /\ ~Carries(t, K) => SameOn(s, s \o t, K)
<1> DEFINE u == s \o t
           n == Len(s)
           k == Len(t)
<1>1. /\ n \in Nat /\ k \in Nat /\ Len(u) = n + k
      /\ \A i \in 1 .. n : u[i] = s[i]
      /\ \A i \in 1 .. k : u[n + i] = t[i]
  <2>1. n \in Nat /\ k \in Nat
    BY LenProperties
  <2>2. Len(u) = n + k /\ \A i \in 1 .. n + k : u[i] = IF i <= n THEN s[i] ELSE t[i - n]
    BY ConcatProperties
  <2>3. \A i \in 1 .. k : n + i \in 1 .. n + k /\ ~(n + i <= n) /\ n + i - n = i
    BY <2>1
  <2>4. \A i \in 1 .. n : i \in 1 .. n + k /\ i <= n
    BY <2>1
  <2> HIDE DEF u, n, k
  <2> QED BY <2>1, <2>2, <2>3, <2>4
<1> HIDE DEF u, n, k
<1>2. /\ \A i \in 1 .. Len(u) : i \in 1 .. n \/ (i - n \in 1 .. k /\ u[i] = t[i - n])
      /\ \A i \in 1 .. n : i \in 1 .. Len(u)
      /\ \A i \in 1 .. k : n + i \in 1 .. Len(u)
      /\ \A i \in 1 .. n, j \in 1 .. k : n + j > i /\ ~(i > n + j)
  <2>1. ASSUME NEW i \in 1 .. Len(u), i \notin 1 .. n
        PROVE  i - n \in 1 .. k /\ u[i] = t[i - n]
    <3>1. i - n \in 1 .. k /\ n + (i - n) = i
      BY <1>1, <2>1
    <3> QED BY <1>1, <3>1
  <2> QED BY <1>1, <2>1
<1>3. ASSUME NEW K PROVE Carries(u, K) <=> Carries(s, K) \/ Carries(t, K)
  <2>1. Carries(u, K) => Carries(s, K) \/ Carries(t, K)
    BY <1>1, <1>2 DEF Carries, n, k
  <2>2. Carries(s, K) => Carries(u, K)
    BY <1>1, <1>2 DEF Carries, n
  <2>3. Carries(t, K) => Carries(u, K)
    BY <1>1, <1>2 DEF Carries, k
  <2> QED BY <2>1, <2>2, <2>3
<1>4. ASSUME NEW K, NEW G, Latest(t, K, G) PROVE Latest(u, K, G)
  <2>1. PICK i \in 1 .. k :
           t[i] \in K /\ t[i] \in G /\ \A j \in 1 .. k : j > i => t[j] \notin K
    BY <1>4 DEF Latest, k
  <2>2. n + i \in 1 .. Len(u) /\ u[n + i] \in K /\ u[n + i] \in G
    BY <1>1, <1>2, <2>1
  <2>3. ASSUME NEW j \in 1 .. Len(u), j > n + i PROVE u[j] \notin K
    <3>1. j - n \in 1 .. k /\ u[j] = t[j - n]
      BY <1>1, <1>2, <2>1, <2>3
    <3>2. j - n > i
      BY <1>1, <2>1, <2>3
    <3> QED BY <2>1, <3>1, <3>2
  <2> QED BY <2>2, <2>3 DEF Latest
<1>5. ASSUME NEW K, NEW G, Latest(u, K, G), Carries(t, K) PROVE Latest(t, K, G)
  <2>1. PICK i \in 1 .. Len(u) :
           u[i] \in K /\ u[i] \in G /\ \A j \in 1 .. Len(u) : j > i => u[j] \notin K
    BY <1>5 DEF Latest
  <2>2. PICK j \in 1 .. k : t[j] \in K
    BY <1>5 DEF Carries, k
  <2>3. i \notin 1 .. n
    BY <1>1, <1>2, <2>1, <2>2
  <2>4. i - n \in 1 .. k /\ u[i] = t[i - n]
    BY <1>2, <2>1, <2>3
  <2>5. ASSUME NEW h \in 1 .. k, h > i - n PROVE t[h] \notin K
    <3>1. n + h \in 1 .. Len(u) /\ u[n + h] = t[h] /\ n + h > i
      BY <1>1, <1>2, <2>1, <2>5
    <3> QED BY <2>1, <3>1
  <2> QED BY <2>1, <2>4, <2>5 DEF Latest, k
<1>6. ASSUME NEW K, NEW G, ~Carries(t, K) PROVE Latest(u, K, G) <=> Latest(s, K, G)
  <2>0. \A j \in 1 .. k : t[j] \notin K
    BY <1>6 DEF Carries, k
  <2>1. ASSUME Latest(u, K, G) PROVE Latest(s, K, G)
    <3>1. PICK i \in 1 .. Len(u) :
             u[i] \in K /\ u[i] \in G /\ \A j \in 1 .. Len(u) : j > i => u[j] \notin K
      BY <2>1 DEF Latest
    <3>2. i \in 1 .. n
      BY <1>2, <2>0, <3>1
    <3> QED BY <1>1, <1>2, <3>1, <3>2 DEF Latest, n
  <2>2. ASSUME Latest(s, K, G) PROVE Latest(u, K, G)
    <3>1. PICK i \in 1 .. n :
             s[i] \in K /\ s[i] \in G /\ \A j \in 1 .. n : j > i => s[j] \notin K
      BY <2>2 DEF Latest, n
    <3>2. \A j \in 1 .. Len(u) : j > i => u[j] \notin K
      BY <1>1, <1>2, <2>0, <3>1
    <3> QED BY <1>1, <1>2, <3>1, <3>2 DEF Latest
  <2> QED BY <2>1, <2>2
<1>7. \A K, G : Latest(u, K, G) <=> IF Carries(t, K) THEN Latest(t, K, G) ELSE Latest(s, K, G)
  BY <1>4, <1>5, <1>6
<1> QED BY <1>3, <1>7 DEF SameOn, u

(* A set in some order: each member is there once.                             *)
LEMMA SetInOrder ==
    ASSUME NEW T, IsFiniteSet(T)
    PROVE  /\ SetToSeq(T) \in Seq(T) /\ Len(SetToSeq(T)) = Cardinality(T)
           /\ \A m \in T : \E i \in 1 .. Len(SetToSeq(T)) : SetToSeq(T)[i] = m
           /\ \A i, j \in 1 .. Len(SetToSeq(T)) : SetToSeq(T)[i] = SetToSeq(T)[j] => i = j
<1> DEFINE n == Cardinality(T)
           s == SetToSeq(T)
<1>1. n \in Nat /\ ExistsBijection(1 .. n, T)
  BY FS_CardinalityType
<1>2. PICK f \in Bijection(1 .. n, T) : TRUE
  BY <1>1 DEF ExistsBijection
<1>3. f \in [1 .. n -> T] /\ IsInjective(f)
  BY <1>2 DEF Bijection, Injection, IsInjective
<1>4. s \in [1 .. n -> T] /\ IsInjective(s)
  BY <1>3 DEF SetToSeq
<1> HIDE DEF s
<1>5. s \in Seq(T) /\ Len(s) = n
  BY <1>1, <1>4
<1>6. \A m \in T : \E i \in 1 .. n : s[i] = m
  <2>1. s \in Injection(1 .. n, T)
    BY <1>4 DEF Injection, IsInjective
  <2>2. IsFiniteSet(1 .. n) /\ Cardinality(1 .. n) = n
    BY <1>1, FS_Interval
  <2>3. s \in Surjection(1 .. n, T)
    BY <2>1, <2>2, FS_Injection
  <2> QED BY <2>3 DEF Surjection
<1>7. \A i, j \in 1 .. n : s[i] = s[j] => i = j
  BY <1>4 DEF IsInjective
<1> QED BY <1>5, <1>6, <1>7 DEF s

(* What a set of messages in some order carries.                             *)
LEMMA CarriesSet ==
    ASSUME NEW T, IsFiniteSet(T)
    PROVE  /\ SetToSeq(T) \in Seq(T)
           /\ \A K : Carries(SetToSeq(T), K) <=> T \cap K # {}
           /\ \A K, G, m : T \cap K = {m} => (Latest(SetToSeq(T), K, G) <=> m \in G)
<1> DEFINE n == Cardinality(T)
           s == SetToSeq(T)
<1>1. /\ n \in Nat /\ s \in Seq(T) /\ Len(s) = n
      /\ \A m \in T : \E i \in 1 .. n : s[i] = m
      /\ \A i, j \in 1 .. n : s[i] = s[j] => i = j
      /\ \A i \in 1 .. n : s[i] \in T
  BY SetInOrder, FS_CardinalityType
<1> HIDE DEF s, n
<1>2. ASSUME NEW K PROVE Carries(s, K) <=> T \cap K # {}
  BY <1>1 DEF Carries
<1>3. ASSUME NEW K, NEW G, NEW m, T \cap K = {m} PROVE Latest(s, K, G) <=> m \in G
  <2>1. PICK i \in 1 .. n : s[i] = m
    BY <1>1, <1>3
  <2>2. \A j \in 1 .. n : s[j] \in K => j = i
    BY <1>1, <1>3, <2>1
  <2>3. m \in K /\ \A j \in 1 .. n : j > i => j # i
    BY <1>1, <1>3
  <2> QED BY <1>1, <2>1, <2>2, <2>3 DEF Latest
<1> QED BY <1>1, <1>2, <1>3 DEF s


---------------------------------------------------------------------------
(* What a queue makes of the one who reads it *)

\* Reading s takes what is known from x to y, message by message in a way of E,
\* the triples of what is known, a message and what is known then, all of it in V
Leads(s, V, E, x, y) ==
    \E v \in [0 .. Len(s) -> V] :
        /\ v[0] = x /\ v[Len(s)] = y
        /\ \A i \in 1 .. Len(s) : <<v[i - 1], s[i], v[i]>> \in E

(* Nothing to read, nothing to learn.                                          *)
LEMMA LeadsOnTheSpot ==
    ASSUME NEW V, NEW E, NEW x \in V
    PROVE  Leads(<<>>, V, E, x, x) /\ \A y : Leads(<<>>, V, E, x, y) => y = x
<1>1. Len(<<>>) = 0 /\ 1 .. 0 = {}
  OBVIOUS
<1>2. Leads(<<>>, V, E, x, x)
  <2> DEFINE v == [i \in 0 .. 0 |-> x]
  <2>1. v \in [0 .. 0 -> V] /\ v[0] = x
    OBVIOUS
  <2> HIDE DEF v
  <2> QED BY <1>1, <2>1 DEF Leads
<1> QED BY <1>1, <1>2 DEF Leads

(* One message more.                                                           *)
LEMMA LeadsOn ==
    ASSUME NEW S, NEW s \in Seq(S), NEW m \in S, NEW V, NEW E, NEW x, NEW y, NEW z \in V,
           Leads(s, V, E, x, y), <<y, m, z>> \in E
    PROVE  Leads(Append(s, m), V, E, x, z)
<1> DEFINE t == Append(s, m)
           n == Len(s)
<1>1. n \in Nat /\ Len(t) = n + 1 /\ t[n + 1] = m /\ \A i \in 1 .. n : t[i] = s[i]
  BY AppendProperties, LenProperties
<1>2. PICK v \in [0 .. n -> V] :
         v[0] = x /\ v[n] = y /\ \A i \in 1 .. n : <<v[i - 1], s[i], v[i]>> \in E
  BY DEF Leads
<1> HIDE DEF t, n
<1> DEFINE w == [i \in 0 .. n + 1 |-> IF i = n + 1 THEN z ELSE v[i]]
<1>4. /\ w \in [0 .. n + 1 -> V] /\ w[0] = x /\ w[n + 1] = z
      /\ \A i \in 0 .. n : w[i] = v[i]
  BY <1>1, <1>2
<1>5. ASSUME NEW i \in 1 .. n + 1 PROVE <<w[i - 1], t[i], w[i]>> \in E
  <2>1. CASE i = n + 1
    <3>1. i - 1 = n /\ n \in 0 .. n
      BY <1>1, <2>1
    <3>2. w[i - 1] = y
      BY <1>2, <1>4, <3>1
    <3>3. t[i] = m /\ w[i] = z
      BY <1>1, <1>4, <2>1
    <3> QED BY <3>2, <3>3
  <2>2. CASE i # n + 1
    <3>1. i \in 1 .. n /\ i - 1 \in 0 .. n /\ i \in 0 .. n
      BY <1>1, <2>2
    <3> QED BY <1>1, <1>2, <1>4, <3>1
  <2> QED BY <2>1, <2>2
<1> HIDE DEF w
<1> QED BY <1>1, <1>4, <1>5 DEF Leads, t

(* One message less.                                                           *)
LEMMA LeadsFrom ==
    ASSUME NEW S, NEW s \in Seq(S), s # <<>>, NEW V, NEW E, NEW x, NEW y, Leads(s, V, E, x, y)
    PROVE  \E z \in V : <<x, Head(s), z>> \in E /\ Leads(Tail(s), V, E, z, y)
<1> DEFINE t == Tail(s)
           n == Len(s)
<1>1. /\ n \in Nat \ {0} /\ Len(t) = n - 1 /\ Head(s) = s[1]
      /\ \A i \in 1 .. n - 1 : t[i] = s[i + 1]
  <2>1. Len(t) = n - 1 /\ \A i \in 1 .. Len(t) : t[i] = s[i + 1]
    BY HeadTailProperties
  <2>2. n \in Nat \ {0}
    BY EmptySeq
  <2> QED BY <2>1, <2>2
<1>2. PICK v \in [0 .. n -> V] :
         v[0] = x /\ v[n] = y /\ \A i \in 1 .. n : <<v[i - 1], s[i], v[i]>> \in E
  BY DEF Leads
<1> HIDE DEF t, n
<1> DEFINE w == [i \in 0 .. n - 1 |-> v[i + 1]]
<1>4. w \in [0 .. n - 1 -> V] /\ w[0] = v[1] /\ w[n - 1] = y
  BY <1>1, <1>2
<1>5. ASSUME NEW i \in 1 .. n - 1 PROVE <<w[i - 1], t[i], w[i]>> \in E
  <2>1. i + 1 \in 1 .. n /\ i \in 0 .. n - 1 /\ i - 1 \in 0 .. n - 1 /\ i + 1 - 1 = i /\ i - 1 + 1 = i
    BY <1>1
  <2>2. <<v[i + 1 - 1], s[i + 1], v[i + 1]>> \in E
    BY <1>2, <2>1
  <2>3. w[i] = v[i + 1] /\ w[i - 1] = v[i] /\ t[i] = s[i + 1]
    BY <1>1, <2>1
  <2> QED BY <2>1, <2>2, <2>3
<1>6. <<x, Head(s), v[1]>> \in E
  <2>1. 1 \in 1 .. n /\ 1 - 1 = 0
    BY <1>1
  <2> QED BY <1>1, <1>2, <2>1
<1> HIDE DEF w
<1>7. Leads(t, V, E, v[1], y)
  BY <1>1, <1>4, <1>5 DEF Leads
<1>8. v[1] \in V
  <2>1. 1 \in 0 .. n
    BY <1>1
  <2> QED BY <1>2, <2>1
<1> QED BY <1>6, <1>7, <1>8 DEF t

(* One queue after another.                                                    *)
LEMMA LeadsThrough ==
    ASSUME NEW S, NEW s \in Seq(S), NEW t \in Seq(S), NEW V, NEW E, NEW x, NEW y, NEW z,
           Leads(s, V, E, x, y), Leads(t, V, E, y, z)
    PROVE  Leads(s \o t, V, E, x, z)
<1> DEFINE u == s \o t
           n == Len(s)
           k == Len(t)
<1>1. /\ n \in Nat /\ k \in Nat /\ Len(u) = n + k
      /\ \A i \in 1 .. n : u[i] = s[i]
      /\ \A i \in 1 .. k : u[n + i] = t[i]
  <2>1. n \in Nat /\ k \in Nat
    BY LenProperties
  <2>2. Len(u) = n + k /\ \A i \in 1 .. n + k : u[i] = IF i <= n THEN s[i] ELSE t[i - n]
    BY ConcatProperties
  <2>4. \A i \in 1 .. n : i \in 1 .. n + k /\ i <= n
    BY <2>1
  <2> HIDE DEF u, n, k
  <2>5. \A i \in 1 .. n : u[i] = s[i]
    BY <2>2, <2>4
  <2>6. \A i \in 1 .. k : u[n + i] = t[i]
    <3> TAKE i \in 1 .. k
    <3> DEFINE j == n + i
    <3>1. j \in 1 .. n + k /\ ~(j <= n) /\ j - n = i
      BY <2>1
    <3> HIDE DEF j
    <3>2. u[j] = IF j <= n THEN s[j] ELSE t[j - n]
      BY <2>2, <3>1
    <3> QED BY <3>1, <3>2 DEF j
  <2> QED BY <2>1, <2>2, <2>5, <2>6
<1>2. PICK v \in [0 .. n -> V] :
         v[0] = x /\ v[n] = y /\ \A i \in 1 .. n : <<v[i - 1], s[i], v[i]>> \in E
  BY DEF Leads
<1>3. PICK w \in [0 .. k -> V] :
         w[0] = y /\ w[k] = z /\ \A i \in 1 .. k : <<w[i - 1], t[i], w[i]>> \in E
  BY DEF Leads
<1> HIDE DEF u, n, k
<1> DEFINE f == [i \in 0 .. n + k |-> IF i <= n THEN v[i] ELSE w[i - n]]
<1>5. /\ f \in [0 .. n + k -> V]
      /\ \A i \in 0 .. n : f[i] = v[i]
      /\ \A i \in 0 .. k : f[n + i] = w[i]
  <2>1. ASSUME NEW i \in 0 .. n + k PROVE (IF i <= n THEN v[i] ELSE w[i - n]) \in V
    <3>1. i <= n => i \in 0 .. n
      BY <1>1
    <3>2. ~(i <= n) => i - n \in 0 .. k
      BY <1>1
    <3> QED BY <1>2, <1>3, <3>1, <3>2
  <2>2. \A i \in 0 .. n : i \in 0 .. n + k /\ i <= n
    BY <1>1
  <2>3. ASSUME NEW i \in 0 .. k PROVE f[n + i] = w[i]
    <3>1. n + i \in 0 .. n + k /\ n + i - n = i /\ (i # 0 => ~(n + i <= n)) /\ (i = 0 => n + i = n)
      BY <1>1
    <3>2. CASE i = 0
      <4>1. f[n] = v[n]
        BY <1>1
      <4> QED BY <1>2, <1>3, <3>1, <3>2, <4>1
    <3>3. CASE i # 0
      BY <1>1, <3>1, <3>3 DEF f
    <3> QED BY <3>2, <3>3
  <2> QED BY <2>1, <2>2, <2>3
<1> HIDE DEF f
<1>6. ASSUME NEW i \in 1 .. n + k PROVE <<f[i - 1], u[i], f[i]>> \in E
  <2>1. CASE i <= n
    <3>1. i \in 1 .. n /\ i \in 0 .. n /\ i - 1 \in 0 .. n
      BY <1>1, <2>1
    <3> QED BY <1>1, <1>2, <1>5, <3>1
  <2>2. CASE ~(i <= n)
    <3> DEFINE j == i - n
    <3>1. j \in 1 .. k /\ j \in 0 .. k /\ j - 1 \in 0 .. k /\ n + j = i /\ n + (j - 1) = i - 1
      BY <1>1, <2>2
    <3> HIDE DEF j
    <3>2. f[i - 1] = w[j - 1] /\ f[i] = w[j] /\ u[i] = t[j]
      BY <1>1, <1>5, <3>1
    <3> QED BY <1>3, <3>1, <3>2
  <2> QED BY <2>1, <2>2
<1>7. f[0] = x /\ f[n + k] = z
  <2>1. 0 \in 0 .. n /\ k \in 0 .. k
    BY <1>1
  <2> QED BY <1>2, <1>3, <1>5, <2>1
<1> QED BY <1>1, <1>5, <1>6, <1>7 DEF Leads, u

(* A queue with at most one message that matters, the one at k.                *)
LEMMA LeadsOnce ==
    ASSUME NEW S, NEW s \in Seq(S), NEW V, NEW E, NEW x \in V, NEW y \in V, NEW k \in 1 .. Len(s),
           <<x, s[k], y>> \in E,
           \A i \in 1 .. Len(s) : i # k => <<x, s[i], x>> \in E /\ <<y, s[i], y>> \in E
    PROVE  Leads(s, V, E, x, y)
<1> DEFINE n == Len(s)
           v == [i \in 0 .. n |-> IF i < k THEN x ELSE y]
<1>1. n \in Nat /\ k \in 1 .. n
  BY LenProperties
<1> HIDE DEF n
<1>3. v \in [0 .. n -> V] /\ v[0] = x /\ v[n] = y
  BY <1>1
<1>4. ASSUME NEW i \in 1 .. n PROVE <<v[i - 1], s[i], v[i]>> \in E
  <2>1. i - 1 \in 0 .. n /\ i \in 0 .. n
    BY <1>1
  <2>2. CASE i < k
    <3>1. v[i - 1] = x /\ v[i] = x /\ i # k
      BY <1>1, <2>1, <2>2
    <3> QED BY <3>1 DEF n
  <2>3. CASE i = k
    <3>1. v[i - 1] = x /\ v[i] = y
      BY <1>1, <2>1, <2>3
    <3> QED BY <2>3, <3>1
  <2>4. CASE i > k
    <3>1. v[i - 1] = y /\ v[i] = y /\ i # k
      BY <1>1, <2>1, <2>4
    <3> QED BY <3>1 DEF n
  <2> QED BY <1>1, <2>2, <2>3, <2>4
<1> HIDE DEF v
<1> QED BY <1>3, <1>4 DEF Leads, n

(* A queue without a message that matters.                                     *)
LEMMA LeadsNowhere ==
    ASSUME NEW S, NEW s \in Seq(S), NEW V, NEW E, NEW x \in V,
           \A i \in 1 .. Len(s) : <<x, s[i], x>> \in E
    PROVE  Leads(s, V, E, x, x)
<1> DEFINE n == Len(s)
           v == [i \in 0 .. n |-> x]
<1>1. n \in Nat
  BY LenProperties
<1>2. v \in [0 .. n -> V] /\ v[0] = x /\ v[n] = x
  BY <1>1
<1>3. \A i \in 1 .. n : <<v[i - 1], s[i], v[i]>> \in E
  BY <1>1
<1> HIDE DEF v
<1> QED BY <1>2, <1>3 DEF Leads

(* A set of messages with one that matters.                                    *)
LEMMA LeadsSet ==
    ASSUME NEW T, IsFiniteSet(T), NEW V, NEW E, NEW x \in V, NEW y \in V
    PROVE  /\ \A m \in T : /\ <<x, m, y>> \in E
                           /\ \A o \in T : o # m => <<x, o, x>> \in E /\ <<y, o, y>> \in E
                           => Leads(SetToSeq(T), V, E, x, y)
           /\ (\A o \in T : <<x, o, x>> \in E) => Leads(SetToSeq(T), V, E, x, x)
<1> DEFINE s == SetToSeq(T)
<1>1. /\ s \in Seq(T)
      /\ \A m \in T : \E i \in 1 .. Len(s) : s[i] = m
      /\ \A i, j \in 1 .. Len(s) : s[i] = s[j] => i = j
      /\ \A i \in 1 .. Len(s) : s[i] \in T
  BY SetInOrder
<1> HIDE DEF s
<1>2. ASSUME NEW m \in T, <<x, m, y>> \in E,
             \A o \in T : o # m => <<x, o, x>> \in E /\ <<y, o, y>> \in E
      PROVE  Leads(s, V, E, x, y)
  <2>1. PICK k \in 1 .. Len(s) : s[k] = m
    BY <1>1
  <2>2. <<x, s[k], y>> \in E
    BY <1>2, <2>1
  <2>3. \A i \in 1 .. Len(s) : i # k => <<x, s[i], x>> \in E /\ <<y, s[i], y>> \in E
    BY <1>1, <1>2, <2>1
  <2> QED BY <1>1, <2>2, <2>3, LeadsOnce
<1>3. ASSUME \A o \in T : <<x, o, x>> \in E PROVE Leads(s, V, E, x, x)
  BY <1>1, <1>3, LeadsNowhere
<1> QED BY <1>2, <1>3 DEF s

---------------------------------------------------------------------------
(* The quests: what queues say of one *)

Is(m, q) == m.type = "quest" /\ m.quest = q
Advances(m) == m.status \in {"started", "stage"}

\* A queue s has a message about the quest q
Speaks(s, q) == \E i \in 1 .. Len(s) : Is(s[i], q)

\* The stages of q that the messages in s set
StagesIn(s, q) == {s[i].stage : i \in {j \in 1 .. Len(s) : Is(s[j], q) /\ Advances(s[j])}}

\* One of them says that q has stopped
StopsIn(s, q) == \E i \in 1 .. Len(s) : Is(s[i], q) /\ s[i].status = "stopped"

\* If so, it is the last one about q
LastIn(s, q) ==
    \A i, j \in 1 .. Len(s) : i < j /\ Is(s[i], q) /\ Is(s[j], q) => s[i].status # "stopped"

\* The queues s and t say the same about q
SameStory(s, t, q) ==
    /\ StagesIn(t, q) = StagesIn(s, q)
    /\ StopsIn(t, q) <=> StopsIn(s, q)
    /\ LastIn(s, q) => LastIn(t, q)
    /\ Speaks(t, q) <=> Speaks(s, q)

(* An empty queue says nothing of any quest.                                 *)
LEMMA StoryOfNothing ==
    ASSUME NEW q
    PROVE  /\ StagesIn(<<>>, q) = {} /\ ~StopsIn(<<>>, q) /\ LastIn(<<>>, q) /\ ~Speaks(<<>>, q)
BY DEF StagesIn, StopsIn, LastIn, Speaks

(* A queue that tells of a stage, or of a stop, tells of the quest.          *)
LEMMA StorySpoken ==
    ASSUME NEW s, NEW q, ~Speaks(s, q)
    PROVE  StagesIn(s, q) = {} /\ ~StopsIn(s, q) /\ LastIn(s, q)
BY DEF StagesIn, StopsIn, LastIn, Speaks

(* One message more.                                                           *)
LEMMA StoryAppend ==
    ASSUME NEW S, NEW s \in Seq(S), NEW m \in S, NEW q
    PROVE  /\ ~Is(m, q) => SameStory(s, Append(s, m), q)
           /\ Is(m, q) =>
                 /\ StagesIn(Append(s, m), q) =
                       StagesIn(s, q) \cup (IF Advances(m) THEN {m.stage} ELSE {})
                 /\ StopsIn(Append(s, m), q) <=> StopsIn(s, q) \/ m.status = "stopped"
                 /\ LastIn(Append(s, m), q) <=> LastIn(s, q) /\ ~StopsIn(s, q)
                 /\ Speaks(Append(s, m), q)
<1> DEFINE t == Append(s, m)
           n == Len(s)
<1>1. n \in Nat /\ Len(t) = n + 1 /\ t[n + 1] = m /\ \A i \in 1 .. n : t[i] = s[i]
  BY AppendProperties, LenProperties
<1> HIDE DEF t, n
<1>2. 1 .. Len(t) = (1 .. n) \cup {n + 1}
  BY <1>1
<1>3. Speaks(t, q) <=> Speaks(s, q) \/ Is(m, q)
  BY <1>1, <1>2 DEF Speaks, n
<1>4. StopsIn(t, q) <=> StopsIn(s, q) \/ (Is(m, q) /\ m.status = "stopped")
  BY <1>1, <1>2 DEF StopsIn, n
<1>5. StagesIn(t, q) = StagesIn(s, q) \cup (IF Is(m, q) /\ Advances(m) THEN {m.stage} ELSE {})
  <2>1. ASSUME NEW x \in StagesIn(t, q)
        PROVE  x \in StagesIn(s, q) \/ (Is(m, q) /\ Advances(m) /\ x = m.stage)
    <3>1. PICK i \in 1 .. Len(t) : Is(t[i], q) /\ Advances(t[i]) /\ x = t[i].stage
      BY DEF StagesIn
    <3> QED BY <1>1, <1>2, <3>1 DEF StagesIn, n
  <2>2. ASSUME NEW x \in StagesIn(s, q) PROVE x \in StagesIn(t, q)
    <3>1. PICK i \in 1 .. n : Is(s[i], q) /\ Advances(s[i]) /\ x = s[i].stage
      BY DEF StagesIn, n
    <3>2. i \in 1 .. Len(t) /\ t[i] = s[i]
      BY <1>1, <1>2
    <3> QED BY <3>1, <3>2 DEF StagesIn
  <2>3. Is(m, q) /\ Advances(m) => m.stage \in StagesIn(t, q)
    BY <1>1, <1>2 DEF StagesIn
  <2> QED BY <2>1, <2>2, <2>3
<1>6. LastIn(t, q) <=> LastIn(s, q) /\ (Is(m, q) => ~StopsIn(s, q))
  <2>1. LastIn(t, q) => LastIn(s, q) /\ (Is(m, q) => ~StopsIn(s, q))
    <3>1. ASSUME LastIn(t, q), NEW i \in 1 .. n, NEW j \in 1 .. n,
                 i < j, Is(s[i], q), Is(s[j], q)
          PROVE  s[i].status # "stopped"
      <4>1. i \in 1 .. Len(t) /\ j \in 1 .. Len(t) /\ t[i] = s[i] /\ t[j] = s[j]
        BY <1>1, <1>2
      <4> QED BY <3>1, <4>1 DEF LastIn
    <3>2. ASSUME LastIn(t, q), Is(m, q), NEW i \in 1 .. n, Is(s[i], q)
          PROVE  s[i].status # "stopped"
      <4>1. i \in 1 .. Len(t) /\ n + 1 \in 1 .. Len(t) /\ t[i] = s[i] /\ i < n + 1
        BY <1>1, <1>2
      <4> QED BY <1>1, <3>2, <4>1 DEF LastIn
    <3> QED BY <3>1, <3>2 DEF LastIn, StopsIn, n
  <2>2. ASSUME LastIn(s, q), Is(m, q) => ~StopsIn(s, q),
               NEW i \in 1 .. Len(t), NEW j \in 1 .. Len(t), i < j, Is(t[i], q), Is(t[j], q)
        PROVE  t[i].status # "stopped"
    <3>1. i \in 1 .. n /\ t[i] = s[i]
      BY <1>1, <2>2
    <3>2. CASE j \in 1 .. n
      BY <1>1, <2>2, <3>1, <3>2 DEF LastIn, n
    <3>3. CASE j = n + 1
      BY <1>1, <2>2, <3>1, <3>3 DEF StopsIn, n
    <3> QED BY <1>2, <3>2, <3>3
  <2> QED BY <2>1, <2>2 DEF LastIn
<1> QED BY <1>3, <1>4, <1>5, <1>6 DEF SameStory, t

(* One message less.                                                           *)
LEMMA StoryTail ==
    ASSUME NEW S, NEW s \in Seq(S), s # <<>>, NEW q
    PROVE  LET m == Head(s) IN
           /\ ~Is(m, q) => SameStory(s, Tail(s), q)
           /\ Is(m, q) =>
                 /\ StagesIn(s, q) =
                       StagesIn(Tail(s), q) \cup (IF Advances(m) THEN {m.stage} ELSE {})
                 /\ StopsIn(s, q) <=> StopsIn(Tail(s), q) \/ m.status = "stopped"
                 /\ LastIn(s, q) /\ m.status = "stopped" => ~Speaks(Tail(s), q)
                 /\ Speaks(s, q)
           /\ LastIn(s, q) => LastIn(Tail(s), q)
           /\ Speaks(Tail(s), q) => Speaks(s, q)
<1> DEFINE t == Tail(s)
           n == Len(s)
           m == Head(s)
<1>1. /\ n \in Nat \ {0} /\ Len(t) = n - 1 /\ m = s[1]
      /\ \A i \in 1 .. Len(t) : t[i] = s[i + 1]
  <2>1. Len(t) = n - 1 /\ \A i \in 1 .. Len(t) : t[i] = s[i + 1]
    BY HeadTailProperties
  <2>2. n \in Nat \ {0}
    BY EmptySeq
  <2> QED BY <2>1, <2>2
<1> HIDE DEF t, n, m
<1>2. /\ \A i \in 1 .. n : i = 1 \/ (i - 1 \in 1 .. Len(t) /\ t[i - 1] = s[i])
      /\ \A i \in 1 .. Len(t) : i + 1 \in 1 .. n
      /\ 1 \in 1 .. n
  BY <1>1
<1>3. Speaks(s, q) <=> Speaks(t, q) \/ Is(m, q)
  <2>1. Speaks(s, q) => Speaks(t, q) \/ Is(m, q)
    BY <1>1, <1>2 DEF Speaks, n
  <2>2. Speaks(t, q) => Speaks(s, q)
    BY <1>1, <1>2 DEF Speaks, n
  <2>3. Is(m, q) => Speaks(s, q)
    BY <1>1, <1>2 DEF Speaks, n
  <2> QED BY <2>1, <2>2, <2>3
<1>4. StopsIn(s, q) <=> StopsIn(t, q) \/ (Is(m, q) /\ m.status = "stopped")
  <2>1. StopsIn(s, q) => StopsIn(t, q) \/ (Is(m, q) /\ m.status = "stopped")
    BY <1>1, <1>2 DEF StopsIn, n
  <2>2. StopsIn(t, q) => StopsIn(s, q)
    BY <1>1, <1>2 DEF StopsIn, n
  <2>3. Is(m, q) /\ m.status = "stopped" => StopsIn(s, q)
    BY <1>1, <1>2 DEF StopsIn, n
  <2> QED BY <2>1, <2>2, <2>3
<1>5. StagesIn(s, q) = StagesIn(t, q) \cup (IF Is(m, q) /\ Advances(m) THEN {m.stage} ELSE {})
  <2>1. ASSUME NEW x \in StagesIn(s, q)
        PROVE  x \in StagesIn(t, q) \/ (Is(m, q) /\ Advances(m) /\ x = m.stage)
    <3>1. PICK i \in 1 .. n : Is(s[i], q) /\ Advances(s[i]) /\ x = s[i].stage
      BY DEF StagesIn, n
    <3> QED BY <1>1, <1>2, <3>1 DEF StagesIn
  <2>2. ASSUME NEW x \in StagesIn(t, q) PROVE x \in StagesIn(s, q)
    <3>1. PICK i \in 1 .. Len(t) : Is(t[i], q) /\ Advances(t[i]) /\ x = t[i].stage
      BY DEF StagesIn
    <3>2. i + 1 \in 1 .. n /\ t[i] = s[i + 1]
      BY <1>1, <1>2
    <3> QED BY <3>1, <3>2 DEF StagesIn, n
  <2>3. Is(m, q) /\ Advances(m) => m.stage \in StagesIn(s, q)
    BY <1>1, <1>2 DEF StagesIn, n
  <2> QED BY <2>1, <2>2, <2>3
<1>6. ASSUME LastIn(s, q) PROVE LastIn(t, q)
  <2>1. ASSUME NEW i \in 1 .. Len(t), NEW j \in 1 .. Len(t), i < j, Is(t[i], q), Is(t[j], q)
        PROVE  t[i].status # "stopped"
    <3>1. /\ i + 1 \in 1 .. n /\ j + 1 \in 1 .. n /\ i + 1 < j + 1
          /\ t[i] = s[i + 1] /\ t[j] = s[j + 1]
      BY <1>1, <1>2, <2>1
    <3> QED BY <1>6, <2>1, <3>1 DEF LastIn, n
  <2> QED BY <2>1 DEF LastIn
<1>7. ASSUME LastIn(s, q), Is(m, q), m.status = "stopped", Speaks(t, q) PROVE FALSE
  <2>1. PICK j \in 1 .. Len(t) : Is(t[j], q)
    BY <1>7 DEF Speaks
  <2>2. j + 1 \in 1 .. n /\ 1 < j + 1 /\ t[j] = s[j + 1]
    BY <1>1, <1>2
  <2> QED BY <1>1, <1>2, <1>7, <2>1, <2>2 DEF LastIn, n
<1> QED BY <1>3, <1>4, <1>5, <1>6, <1>7 DEF SameStory, t, m

---------------------------------------------------------------------------
(* The invariant *)

QuestTells ==
    [type : {"quest"}, quest : Story, status : {"started", "stage", "stopped"}, stage : Stages]

QuestNotices ==
    [type : {"quest"}, quest : Story,
     status : {"started", "stage", "stopped", "other"}, stage : Stages]

PartyNotices == [type : {"joined", "info", "left"}, leader : Clients \cup {"none"}]

StoryNotices == QuestNotices \cup PartyNotices

QuestTypes ==
    /\ QuestTypeOK
    /\ queries \in [Clients -> Seq(QuestTells)]
    /\ news \in [Clients -> Seq(StoryNotices)]
    /\ members \subseteq Clients
    /\ leader \in Clients \cup {"none"}
    /\ members # {} => leader \in members
    /\ tellers \in [Story -> SUBSET Clients]
    /\ \A q \in Story : IsFiniteSet(tellers[q])

\* The game of c does what the party is told of the quest q
Joins(c, q) == <<c, q>> \notin apart

\* The game of c does the stage s of q once all messages there are arrive
Comes(c, q, s) ==
    \/ s \in done[c][q] \cup StagesIn(news[c], q)
    \/ \E d \in Clients : s \in StagesIn(queries[d], q)

\* What a client tells it has done.
OwnTold(q) == \A c \in Clients : StagesIn(queries[c], q) \subseteq done[c][q]

\* The games that join in come to the same stages.
Agreed(q) ==
    \A c, d \in Clients : Joins(c, q) /\ Joins(d, q) =>
        \A s \in Stages : Comes(c, q, s) <=> Comes(d, q, s)

\* Who is told of a quest is told by another.
Heard(q) == \A d \in Clients : Speaks(news[d], q) => tellers[q] \ {d} # {}

\* A quest that runs has begun.
Begun(q) == \A c \in Clients : running[c][q] => done[c][q] # {}

\* Who has told of a quest or is telling of it
Voices(q) == tellers[q] \cup {c \in Clients : Speaks(queries[c], q)}

\* When d has read all that t tells of q, q runs in its game
WillRun(t, d, q) ==
    /\ ~StopsIn(queries[t], q) /\ ~StopsIn(news[d], q)
    /\ \/ ~(StagesIn(queries[t], q) \cup StagesIn(news[d], q) \subseteq done[d][q])
       \/ running[d][q]

\* The quest has stopped in the game of t, and can only run on if it has begun.
Stopped(t, q) == ~running[t][q] /\ done[t][q] # {}

\* If nobody but t tells of q, then nothing follows the news that q stopped, q
\* does not run in the game of t while there are such news, and q will run in
\* all games that join in or in none.
OneVoice(t, q) ==
    Voices(q) \subseteq {t} =>
      /\ LastIn(queries[t], q)
      /\ StopsIn(queries[t], q) => Stopped(t, q)
      /\ \A d \in Clients : d # t /\ Joins(d, q) =>
            /\ LastIn(news[d], q)
            /\ StopsIn(news[d], q) => ~Speaks(queries[t], q) /\ Stopped(t, q)
            /\ Joins(t, q) => (WillRun(t, d, q) <=> running[t][q])
            /\ \A e \in Clients : e # t /\ Joins(e, q) =>
                  (WillRun(t, d, q) <=> WillRun(t, e, q))

StoryInv(q) ==
    OwnTold(q) /\ Agreed(q) /\ Heard(q) /\ Begun(q) /\ \A t \in Clients : OneVoice(t, q)

QuestInv == QuestTypes /\ \A q \in Story : StoryInv(q)

(* A quest that no message and no game says anything new of.                   *)
LEMMA StoryUntouched ==
    ASSUME NEW q, StoryInv(q), apart \subseteq apart',
           \A c \in Clients : SameStory(queries[c], queries'[c], q),
           \A c \in Clients : SameStory(news[c], news'[c], q),
           \A c \in Clients : done'[c][q] = done[c][q] /\ running'[c][q] = running[c][q],
           tellers'[q] = tellers[q]
    PROVE  StoryInv(q)'
<1>1. \A c \in Clients : Joins(c, q)' => Joins(c, q)
  BY DEF Joins
<1>2. OwnTold(q)'
  BY DEF StoryInv, OwnTold, SameStory
<1>3. \A c \in Clients, s \in Stages : Comes(c, q, s)' <=> Comes(c, q, s)
  BY DEF Comes, SameStory
<1>4. Agreed(q)'
  BY <1>1, <1>3 DEF StoryInv, Agreed, Stages
<1>5. Heard(q)'
  BY DEF StoryInv, Heard, SameStory
<1>6. Begun(q)'
  BY DEF StoryInv, Begun
<1>7. ASSUME NEW t \in Clients PROVE OneVoice(t, q)'
  <2> SUFFICES ASSUME Voices(q)' \subseteq {t} PROVE OneVoice(t, q)'
    BY DEF OneVoice
  <2>1. Voices(q) \subseteq {t} /\ OneVoice(t, q)
    BY DEF StoryInv, Voices, SameStory
  <2>2. \A d \in Clients : WillRun(t, d, q)' <=> WillRun(t, d, q)
    BY DEF WillRun, SameStory
  <2>3. Stopped(t, q)' <=> Stopped(t, q)
    BY DEF Stopped
  <2> QED BY <1>1, <2>1, <2>2, <2>3 DEF OneVoice, SameStory
<1> QED BY <1>2, <1>4, <1>5, <1>6, <1>7 DEF StoryInv

(* The server relays what c tells of q, with a status that says the same or    *)
(* leaves all others behind.                                                   *)
LEMMA StoryRelayed ==
    ASSUME NEW q \in Story, QuestTypes, StoryInv(q), UNCHANGED <<done, running>>,
           NEW c \in Clients, NEW said \in SUBSET Stages, NEW ends \in BOOLEAN,
           NEW told \in SUBSET (Clients \ {c}), NEW same \in BOOLEAN,
           \* the message that c told
           /\ StagesIn(queries[c], q) = StagesIn(queries'[c], q) \cup said
           /\ StopsIn(queries[c], q) <=> StopsIn(queries'[c], q) \/ ends
           /\ LastIn(queries[c], q) => LastIn(queries'[c], q)
           /\ LastIn(queries[c], q) /\ ends => ~Speaks(queries'[c], q)
           /\ Speaks(queries[c], q),
           \A d \in Clients \ {c} : queries'[d] = queries[d],
           \* and what becomes of it
           \A d \in told : same =>
              /\ StagesIn(news'[d], q) = StagesIn(news[d], q) \cup said
              /\ StopsIn(news'[d], q) <=> StopsIn(news[d], q) \/ ends
              /\ LastIn(news[d], q) /\ ~StopsIn(news[d], q) => LastIn(news'[d], q),
           \A d \in Clients \ told : news'[d] = news[d],
           tellers'[q] = tellers[q] \cup {c},
           apart \subseteq apart',
           \A d \in Clients : Joins(d, q)' => d = c \/ (same /\ d \in told)
    PROVE  StoryInv(q)'
<1>1. \A d \in Clients : Joins(d, q)' => Joins(d, q)
  BY DEF Joins
<1>2. OwnTold(q) /\ said \subseteq done[c][q]
  BY DEF StoryInv, OwnTold
<1>3. OwnTold(q)'
  BY <1>2 DEF OwnTold
<1>4. ASSUME NEW d \in Clients, Joins(d, q)', NEW s \in Stages
      PROVE  Comes(d, q, s)' <=> Comes(d, q, s)
  <2>1. CASE d = c
    BY <1>2, <2>1 DEF Comes
  <2>2. CASE same /\ d \in told
    BY <2>2 DEF Comes
  <2> QED BY <1>4, <2>1, <2>2
<1>5. Agreed(q)'
  BY <1>1, <1>4 DEF StoryInv, Agreed, Stages
<1>6. Heard(q)'
  <2> SUFFICES ASSUME NEW d \in Clients, Speaks(news'[d], q)
               PROVE  tellers'[q] \ {d} # {}
    BY DEF Heard
  <2>1. CASE d \in told
    BY <2>1
  <2>2. CASE d \notin told
    BY <2>2 DEF StoryInv, Heard
  <2> QED BY <2>1, <2>2
<1>7. Begun(q)'
  BY DEF StoryInv, Begun
<1>8. ASSUME NEW t \in Clients PROVE OneVoice(t, q)'
  <2> SUFFICES ASSUME Voices(q)' \subseteq {t} PROVE OneVoice(t, q)'
    BY DEF OneVoice
  <2>1. t = c /\ Voices(q) \subseteq {t}
    BY DEF Voices
  <2>2. OneVoice(t, q)
    BY DEF StoryInv
  <2>3. LastIn(queries'[t], q) /\ (StopsIn(queries'[t], q) => Stopped(t, q)')
    BY <2>1, <2>2 DEF OneVoice, Stopped
  <2>4. ASSUME NEW d \in Clients, d # t, Joins(d, q)'
        PROVE  /\ same /\ d \in told /\ Joins(d, q)
               /\ LastIn(news'[d], q)
               /\ StopsIn(news'[d], q) => ~Speaks(queries'[t], q) /\ Stopped(t, q)'
               /\ WillRun(t, d, q)' <=> WillRun(t, d, q)
    <3>1. same /\ d \in told /\ Joins(d, q)
      BY <1>1, <2>1, <2>4
    <3>2. ~StopsIn(news[d], q) /\ LastIn(news[d], q)
      BY <2>1, <2>2, <2>4, <3>1 DEF OneVoice
    <3>3. LastIn(news'[d], q)
      BY <3>1, <3>2
    <3>4. StopsIn(news'[d], q) => ~Speaks(queries'[t], q) /\ Stopped(t, q)'
      BY <2>1, <2>2, <3>1, <3>2 DEF OneVoice, Stopped
    <3>5. /\ StopsIn(queries'[t], q) \/ StopsIn(news'[d], q)
             <=> StopsIn(queries[t], q) \/ StopsIn(news[d], q)
          /\ StagesIn(queries'[t], q) \cup StagesIn(news'[d], q)
             = StagesIn(queries[t], q) \cup StagesIn(news[d], q)
      BY <2>1, <3>1
    <3> QED BY <3>1, <3>3, <3>4, <3>5 DEF WillRun
  <2>5. Joins(t, q)' => Joins(t, q)
    BY <1>1
  <2> QED BY <2>1, <2>2, <2>3, <2>4, <2>5 DEF OneVoice
<1> QED BY <1>3, <1>5, <1>6, <1>7, <1>8 DEF StoryInv

(* A client reads news of q, which say that it stopped, or come to a stage, or *)
(* neither; it tells of the stage again if it thinks that it leads.            *)
LEMMA StoryHeard ==
    ASSUME NEW q \in Story, QuestTypes, StoryInv(q), UNCHANGED <<apart, tellers>>,
           NEW c \in Clients, NEW said \in SUBSET Stages, NEW ends \in BOOLEAN,
           NEW again \in SUBSET said, said = {} \/ ~ends,
           \* the news
           /\ StagesIn(news[c], q) = StagesIn(news'[c], q) \cup said
           /\ StopsIn(news[c], q) <=> StopsIn(news'[c], q) \/ ends
           /\ LastIn(news[c], q) => LastIn(news'[c], q)
           /\ LastIn(news[c], q) /\ ends => ~Speaks(news'[c], q)
           /\ Speaks(news[c], q),
           \A d \in Clients \ {c} : news'[d] = news[d],
           \* the game of c
           done'[c][q] = done[c][q] \cup said,
           running'[c][q] = IF said \subseteq done[c][q] THEN running[c][q] /\ ~ends ELSE TRUE,
           \A d \in Clients \ {c} : done'[d][q] = done[d][q] /\ running'[d][q] = running[d][q],
           \* what c tells
           /\ StagesIn(queries'[c], q) = StagesIn(queries[c], q) \cup again
           /\ queries'[c] = queries[c] \/ Speaks(queries'[c], q),
           \A d \in Clients \ {c} : queries'[d] = queries[d]
    PROVE  StoryInv(q)'
<1>1. \A d \in Clients : Joins(d, q)' <=> Joins(d, q)
  BY DEF Joins
<1>2. OwnTold(q)'
  BY DEF StoryInv, OwnTold
<1>3. ASSUME NEW d \in Clients, NEW s \in Stages
      PROVE  Comes(d, q, s)' <=> Comes(d, q, s) \/ s \in again
  BY DEF Comes
<1>4. Agreed(q)'
  BY <1>1, <1>3 DEF StoryInv, Agreed, Stages
<1>5. Heard(q)'
  BY DEF StoryInv, Heard
<1>6. Begun(q)'
  BY DEF StoryInv, Begun
<1>7. ASSUME NEW t \in Clients PROVE OneVoice(t, q)'
  <2> SUFFICES ASSUME Voices(q)' \subseteq {t} PROVE OneVoice(t, q)'
    BY DEF OneVoice
  <2>1. tellers[q] \ {c} # {} /\ tellers[q] \subseteq {t}
    BY DEF StoryInv, Heard, Voices
  <2>2. t # c /\ ~Speaks(queries'[c], q)
    BY <2>1 DEF Voices
  <2>3. \A d \in Clients : queries'[d] = queries[d]
    BY <2>2
  <2>4. Voices(q) \subseteq {t}
    BY <2>3 DEF Voices
  <2>5. OneVoice(t, q)
    BY DEF StoryInv
  <2>6. Stopped(t, q)' <=> Stopped(t, q)
    BY <2>2 DEF Stopped
  <2>7. \A d \in Clients \ {c} : WillRun(t, d, q)' <=> WillRun(t, d, q)
    BY <2>3 DEF WillRun
  <2>8. ASSUME Joins(c, q) PROVE WillRun(t, c, q)' <=> WillRun(t, c, q)
    <3>1. queries'[t] = queries[t]
      BY <2>3
    <3>2. CASE ends
      <4>1. LastIn(news[c], q) /\ ~Speaks(queries[t], q)
        BY <2>2, <2>4, <2>5, <2>8, <3>2 DEF OneVoice
      <4>2. StagesIn(news'[c], q) = {} /\ StagesIn(queries[t], q) = {}
        BY <3>2, <4>1, StorySpoken
      <4>3. ~running'[c][q]
        BY <3>2
      <4> QED BY <3>1, <3>2, <4>2, <4>3 DEF WillRun
    <3>3. CASE ~ends /\ said \subseteq done[c][q]
      BY <3>1, <3>3 DEF WillRun
    <3>4. CASE ~ends /\ ~(said \subseteq done[c][q])
      <4>1. running'[c][q] /\ ~(StagesIn(queries[t], q) \cup StagesIn(news[c], q) \subseteq done[c][q])
        BY <3>4
      <4> QED BY <3>1, <3>4, <4>1 DEF WillRun
    <3> QED BY <3>2, <3>3, <3>4
  <2>9. \A d \in Clients : Joins(d, q) => (WillRun(t, d, q)' <=> WillRun(t, d, q))
    BY <2>7, <2>8
  <2>10. \A d \in Clients : /\ LastIn(news[d], q) => LastIn(news'[d], q)
                            /\ StopsIn(news'[d], q) => StopsIn(news[d], q)
    OBVIOUS
  <2>11. queries'[t] = queries[t] /\ (running'[t][q] <=> running[t][q])
    BY <2>2, <2>3
  <2> QED BY <1>1, <2>4, <2>5, <2>6, <2>9, <2>10, <2>11 DEF OneVoice
<1> QED BY <1>2, <1>4, <1>5, <1>6, <1>7 DEF StoryInv

\* The game of c comes to the stages new of q, or q stops there
Moves(c, q, new, r) ==
    /\ done'[c][q] = done[c][q] \cup new /\ running'[c][q] = r
    /\ \/ r /\ running[c][q] /\ \E s \in Stages : new = {s}
       \/ r /\ done[c][q] = {} /\ \E s \in Stages : new = {s}
       \/ ~r /\ running[c][q] /\ new = {}

(* If c is the only one to tell of q, no news that q stopped are on their way  *)
(* when q moves in its game.                                                   *)
LEMMA NothingStops ==
    ASSUME NEW q \in Story, QuestTypes, StoryInv(q), NEW c \in Clients, NEW new, NEW r,
           Moves(c, q, new, r), Voices(q) \subseteq {c}
    PROVE  /\ LastIn(queries[c], q) /\ ~StopsIn(queries[c], q)
           /\ \A d \in Clients : d # c /\ Joins(d, q) =>
                 LastIn(news[d], q) /\ ~StopsIn(news[d], q)
<1>1. OneVoice(c, q) /\ ~Stopped(c, q)
  BY DEF StoryInv, Moves, Stopped
<1> QED BY <1>1 DEF OneVoice

(* The engine moves a quest in the game of a client that does not lead.        *)
LEMMA StoryApart ==
    ASSUME NEW q \in Story, QuestTypes, StoryInv(q), UNCHANGED <<queries, news, tellers>>,
           NEW c \in Clients, NEW new, NEW r \in BOOLEAN, Moves(c, q, new, r),
           \A d \in Clients \ {c} : done'[d][q] = done[d][q] /\ running'[d][q] = running[d][q],
           apart' = apart \cup {<<c, q>>}
    PROVE  StoryInv(q)'
<1>1. \A d \in Clients : Joins(d, q)' <=> Joins(d, q) /\ d # c
  BY DEF Joins
<1>2. OwnTold(q)'
  BY DEF StoryInv, OwnTold, Moves
<1>3. \A d \in Clients \ {c}, s \in Stages : Comes(d, q, s)' <=> Comes(d, q, s)
  BY DEF Comes
<1>4. Agreed(q)'
  BY <1>1, <1>3 DEF StoryInv, Agreed, Stages
<1>5. Heard(q)'
  BY DEF StoryInv, Heard
<1>6. Begun(q)'
  BY DEF StoryInv, Begun, Moves
<1>7. ASSUME NEW t \in Clients PROVE OneVoice(t, q)'
  <2> SUFFICES ASSUME Voices(q) \subseteq {t} PROVE OneVoice(t, q)'
    BY DEF OneVoice, Voices
  <2>1. OneVoice(t, q)
    BY DEF StoryInv
  <2>2. \A d \in Clients \ {c} : WillRun(t, d, q)' <=> WillRun(t, d, q)
    BY DEF WillRun
  <2>3. CASE t # c
    <3>1. Stopped(t, q)' <=> Stopped(t, q)
      BY <2>3 DEF Stopped
    <3>2. running'[t][q] <=> running[t][q]
      BY <2>3
    <3> QED BY <1>1, <2>1, <2>2, <3>1, <3>2 DEF OneVoice
  <2>4. CASE t = c
    <3>1. /\ LastIn(queries[t], q) /\ ~StopsIn(queries[t], q) /\ ~Joins(t, q)'
          /\ \A d \in Clients : d # t /\ Joins(d, q) =>
                LastIn(news[d], q) /\ ~StopsIn(news[d], q)
      BY <1>1, <2>4, NothingStops
    <3> QED BY <1>1, <2>1, <2>2, <2>4, <3>1 DEF OneVoice
  <2> QED BY <2>3, <2>4
<1> QED BY <1>2, <1>4, <1>5, <1>6, <1>7 DEF StoryInv

(* The engine moves a quest in the game of a leader, which tells of it.        *)
LEMMA StoryTold ==
    ASSUME NEW q \in Story, QuestTypes, StoryInv(q), UNCHANGED <<apart, news, tellers>>,
           NEW c \in Clients, NEW new, NEW r \in BOOLEAN, Moves(c, q, new, r),
           \A d \in Clients \ {c} : done'[d][q] = done[d][q] /\ running'[d][q] = running[d][q],
           /\ StagesIn(queries'[c], q) = StagesIn(queries[c], q) \cup new
           /\ StopsIn(queries'[c], q) <=> StopsIn(queries[c], q) \/ ~r
           /\ LastIn(queries[c], q) /\ ~StopsIn(queries[c], q) => LastIn(queries'[c], q)
           /\ Speaks(queries'[c], q),
           \A d \in Clients \ {c} : queries'[d] = queries[d]
    PROVE  StoryInv(q)'
<1>1. \A d \in Clients : Joins(d, q)' <=> Joins(d, q)
  BY DEF Joins
<1>2. OwnTold(q)'
  BY DEF StoryInv, OwnTold, Moves
<1>3. ASSUME NEW d \in Clients, NEW s \in Stages
      PROVE  Comes(d, q, s)' <=> Comes(d, q, s) \/ s \in new
  BY DEF Comes, Moves
<1>4. Agreed(q)'
  BY <1>1, <1>3 DEF StoryInv, Agreed, Stages
<1>5. Heard(q)'
  BY DEF StoryInv, Heard
<1>6. Begun(q)'
  BY DEF StoryInv, Begun, Moves
<1>7. ASSUME NEW t \in Clients PROVE OneVoice(t, q)'
  <2> SUFFICES ASSUME Voices(q)' \subseteq {t} PROVE OneVoice(t, q)'
    BY DEF OneVoice
  <2>1. t = c /\ Voices(q) \subseteq {c}
    <3>1. c \in Voices(q)'
      BY DEF Voices
    <3>2. \A d \in Voices(q) : d = c \/ d \in Voices(q)'
      BY DEF Voices
    <3> QED BY <3>1, <3>2
  <2>2. OneVoice(c, q)
    BY DEF StoryInv
  <2>3. /\ LastIn(queries[c], q) /\ ~StopsIn(queries[c], q)
        /\ \A d \in Clients : d # c /\ Joins(d, q) =>
              LastIn(news[d], q) /\ ~StopsIn(news[d], q)
    BY <2>1, NothingStops
  <2>4. LastIn(queries'[c], q) /\ (StopsIn(queries'[c], q) => Stopped(c, q)')
    <3>1. ~r => Stopped(c, q)'
      BY DEF StoryInv, Begun, Moves, Stopped
    <3> QED BY <2>3, <3>1
  <2>5. \A d \in Clients : ~r => ~WillRun(c, d, q)'
    BY DEF WillRun
  <2>6. ASSUME r, NEW d \in Clients, d # c, Joins(d, q)
        PROVE  WillRun(c, d, q)' <=>
                  \/ ~(StagesIn(queries[c], q) \cup new \cup StagesIn(news[d], q) \subseteq done[d][q])
                  \/ running[d][q]
    <3>1. ~StopsIn(queries'[c], q) /\ ~StopsIn(news[d], q)
      BY <2>3, <2>6
    <3> QED BY <2>6, <3>1 DEF WillRun
  <2>7. ASSUME NEW d \in Clients, d # c, Joins(d, q)
        PROVE  WillRun(c, d, q) <=>
                  \/ ~(StagesIn(queries[c], q) \cup StagesIn(news[d], q) \subseteq done[d][q])
                  \/ running[d][q]
    BY <2>3, <2>7 DEF WillRun
  <2>8. \A d \in Clients \ {c} : StagesIn(queries[d], q) = {}
    BY <2>1, StorySpoken DEF Voices
  <2>9. ASSUME r, NEW s \in Stages, new = {s}, NEW d \in Clients, d # c, Joins(d, q)
        PROVE  /\ Comes(d, q, s) => (WillRun(c, d, q)' <=> WillRun(c, d, q))
               /\ ~Comes(d, q, s) => WillRun(c, d, q)'
    <3>1. Comes(d, q, s) <=> s \in done[d][q] \cup StagesIn(news[d], q) \cup StagesIn(queries[c], q)
      BY <2>8 DEF Comes
    <3> QED BY <2>6, <2>7, <2>9, <3>1
  <2>10. ASSUME NEW d \in Clients, d # c, Joins(d, q), NEW e \in Clients, e # c, Joins(e, q)
         PROVE  WillRun(c, d, q)' <=> WillRun(c, e, q)'
    <3>1. CASE ~r
      BY <2>5, <3>1
    <3>2. CASE r
      <4>1. PICK s \in Stages : new = {s}
        BY <3>2 DEF Moves
      <4>2. Comes(d, q, s) <=> Comes(e, q, s)
        BY <2>10, <4>1 DEF StoryInv, Agreed
      <4>3. WillRun(c, d, q) <=> WillRun(c, e, q)
        BY <2>1, <2>2, <2>10 DEF OneVoice
      <4> QED BY <2>9, <2>10, <3>2, <4>1, <4>2, <4>3
    <3> QED BY <3>1, <3>2
  <2>11. ASSUME Joins(c, q), NEW d \in Clients, d # c, Joins(d, q)
         PROVE  WillRun(c, d, q)' <=> running'[c][q]
    <3>1. CASE ~r
      BY <2>5, <3>1 DEF Moves
    <3>2. CASE r /\ running[c][q]
      <4>1. WillRun(c, d, q)
        BY <2>1, <2>2, <2>11, <3>2 DEF OneVoice
      <4>2. WillRun(c, d, q)'
        BY <2>6, <2>7, <2>11, <3>2, <4>1
      <4> QED BY <3>2, <4>2 DEF Moves
    <3>3. CASE r /\ ~running[c][q]
      <4>1. done[c][q] = {} /\ \E s \in Stages : new = {s}
        BY <3>3 DEF Moves
      <4>2. PICK s \in Stages : new = {s}
        BY <4>1
      <4>3. ~Speaks(news[c], q)
        BY <2>1 DEF StoryInv, Heard, Voices
      <4>4. StagesIn(news[c], q) = {} /\ StagesIn(queries[c], q) = {}
        BY <4>1, <4>3, StorySpoken DEF StoryInv, OwnTold
      <4>5. ~Comes(c, q, s)
        BY <2>8, <4>1, <4>4 DEF Comes
      <4>6. ~Comes(d, q, s)
        BY <2>11, <4>5 DEF StoryInv, Agreed
      <4> QED BY <2>9, <2>11, <3>3, <4>2, <4>6 DEF Moves
    <3> QED BY <3>1, <3>2, <3>3
  <2> QED BY <1>1, <2>1, <2>3, <2>4, <2>10, <2>11 DEF OneVoice
<1> QED BY <1>2, <1>4, <1>5, <1>6, <1>7 DEF StoryInv

---------------------------------------------------------------------------
(* The steps *)

(* The messages about quests are not those about the party.                  *)
LEMMA NoticeKinds ==
    /\ QuestTells \subseteq QuestNotices /\ QuestNotices \subseteq StoryNotices
    /\ PartyNotices \subseteq StoryNotices
    /\ \A m \in PartyNotices : \A q : ~Is(m, q)
    /\ \A m \in QuestNotices : m.type = "quest" /\ m.quest \in Story /\ m.stage \in Stages
    /\ \A m \in StoryNotices : m.type = "quest" => m \in QuestNotices
BY DEF QuestTells, QuestNotices, PartyNotices, StoryNotices, Is

(* A queue says of a quest what it says.                                     *)
LEMMA SameStoryAlways == \A s, q : SameStory(s, s, q)
BY DEF SameStory

(* Queues that say the same of a quest can stand for each other.             *)
LEMMA SameStoryOn ==
    ASSUME NEW s, NEW t, NEW u, NEW q, SameStory(s, t, q), SameStory(t, u, q)
    PROVE  SameStory(s, u, q)
BY DEF SameStory

(* At the start no game runs a quest and no message is on its way.           *)
LEMMA InitStory == QuestInit => QuestInv
<1> SUFFICES ASSUME QuestInit PROVE QuestInv
  OBVIOUS
<1>1. /\ members = {} /\ leader = "none" /\ apart = {}
      /\ queries = [c \in Clients |-> <<>>] /\ news = [c \in Clients |-> <<>>]
      /\ tellers = [q \in Story |-> {}]
  BY DEF QuestInit, CompanionsInit
<1>2. PICK on \in [Story -> BOOLEAN] :
         /\ running = [c \in Clients |-> on]
         /\ done = [c \in Clients |-> [q \in Story |-> IF on[q] THEN {0} ELSE {}]]
  BY DEF QuestInit
<1>3. QuestTypeOK
  <2>1. entries \in [Clients -> [Story -> 0..2]]
    BY DEF QuestInit
  <2>2. 0 \in Stages
    BY QuestsAssumption DEF Stages
  <2> QED BY <1>2, <2>1, <2>2 DEF QuestTypeOK
<1>4. QuestTypes
  BY <1>1, <1>3, FS_EmptySet DEF QuestTypes
<1>5. ASSUME NEW q \in Story PROVE StoryInv(q)
  <2>1. \A c \in Clients :
           /\ StagesIn(queries[c], q) = {} /\ ~StopsIn(queries[c], q)
           /\ LastIn(queries[c], q) /\ ~Speaks(queries[c], q)
           /\ StagesIn(news[c], q) = {} /\ ~StopsIn(news[c], q)
           /\ LastIn(news[c], q) /\ ~Speaks(news[c], q)
    BY <1>1, StoryOfNothing
  <2>2. \A c, d \in Clients : done[c][q] = done[d][q] /\ (running[c][q] <=> running[d][q])
    BY <1>2
  <2>3. Begun(q)
    BY <1>2 DEF Begun
  <2>4. OwnTold(q) /\ Heard(q)
    BY <2>1 DEF OwnTold, Heard
  <2>5. Agreed(q)
    BY <2>1, <2>2 DEF Agreed, Comes
  <2>6. \A t, d \in Clients : WillRun(t, d, q) <=> running[d][q]
    BY <2>1 DEF WillRun
  <2>7. \A t \in Clients : OneVoice(t, q)
    BY <2>1, <2>2, <2>6 DEF OneVoice
  <2> QED BY <2>3, <2>4, <2>5, <2>7 DEF StoryInv
<1> QED BY <1>4, <1>5 DEF QuestInv

(* What the party changes, the clients are told, and none of it is of quests.  *)
LEMMA PartyNoticesPosted ==
    ASSUME QuestTypes, NEW c \in Clients, PartyChanges(c)
    PROVE  /\ members' \subseteq Clients /\ leader' \in Clients \cup {"none"}
           /\ members' # {} => leader' \in members'
           /\ news' \in [Clients -> Seq(StoryNotices)]
           /\ \A d \in Clients : \A q : SameStory(news[d], news'[d], q)
           /\ UNCHANGED <<role, queries>>
<1>1. /\ members' \subseteq Clients /\ leader' \in Clients \cup {"none"}
      /\ members' # {} => leader' \in members'
  BY DEF QuestTypes, PartyChanges, Founds, Accepts, Promotes, Leaves
<1>2. ASSUME NEW type \in {"joined", "info", "left"}
      PROVE  PartyNews(type) \in StoryNotices /\ \A q : ~Is(PartyNews(type), q)
  BY <1>1 DEF PartyNews, PartyNotices, StoryNotices, Is
<1>3. ASSUME NEW n \in [Clients -> Seq(StoryNotices)], NEW R, NEW type \in {"joined", "info", "left"}
      PROVE  /\ Posted(n, R, PartyNews(type)) \in [Clients -> Seq(StoryNotices)]
             /\ \A d \in Clients : \A q : SameStory(n[d], Posted(n, R, PartyNews(type))[d], q)
  <2>1. PartyNews(type) \in StoryNotices
    BY <1>2
  <2>2. Posted(n, R, PartyNews(type)) \in [Clients -> Seq(StoryNotices)]
    BY <2>1, PostedQueues
  <2>3. \A d \in Clients : Posted(n, R, PartyNews(type))[d] =
           IF d \in R THEN Append(n[d], PartyNews(type)) ELSE n[d]
    BY DEF Posted
  <2>4. ASSUME NEW d \in Clients, NEW q
        PROVE  SameStory(n[d], Posted(n, R, PartyNews(type))[d], q)
    <3>1. n[d] \in Seq(StoryNotices) /\ ~Is(PartyNews(type), q)
      BY <1>2
    <3>2. SameStory(n[d], Append(n[d], PartyNews(type)), q)
      BY <2>1, <3>1, StoryAppend
    <3> QED BY <2>3, <3>2, SameStoryAlways
  <2> QED BY <2>2, <2>4
<1>4. news \in [Clients -> Seq(StoryNotices)]
  BY DEF QuestTypes
<1>5. \E R, type : type \in {"joined", "info", "left"} /\
         \/ news' = Posted(news, R, PartyNews(type))
         \/ \E Q, first : first \in {"joined", "info", "left"} /\
               news' = Posted(Posted(news, Q, PartyNews(first)), R, PartyNews(type))
  <2>1. CASE Founds(c)
    BY <2>1 DEF Founds
  <2>2. CASE Accepts(c)
    BY <2>2 DEF Accepts
  <2>3. CASE Promotes(c)
    BY <2>3 DEF Promotes
  <2>4. CASE Leaves(c)
    BY <2>4 DEF Leaves
  <2> QED BY <2>1, <2>2, <2>3, <2>4 DEF PartyChanges
<1>6. PICK R, type : type \in {"joined", "info", "left"} /\
         \/ news' = Posted(news, R, PartyNews(type))
         \/ \E Q, first : first \in {"joined", "info", "left"} /\
               news' = Posted(Posted(news, Q, PartyNews(first)), R, PartyNews(type))
  BY <1>5
<1>7. news' \in [Clients -> Seq(StoryNotices)] /\ \A d \in Clients : \A q : SameStory(news[d], news'[d], q)
  <2>1. CASE news' = Posted(news, R, PartyNews(type))
    BY <1>3, <1>4, <1>6, <2>1
  <2>2. ASSUME NEW Q, NEW first \in {"joined", "info", "left"},
               news' = Posted(Posted(news, Q, PartyNews(first)), R, PartyNews(type))
        PROVE  /\ news' \in [Clients -> Seq(StoryNotices)]
               /\ \A d \in Clients : \A q : SameStory(news[d], news'[d], q)
    <3> DEFINE n == Posted(news, Q, PartyNews(first))
    <3>1. n \in [Clients -> Seq(StoryNotices)] /\ \A d \in Clients : \A q : SameStory(news[d], n[d], q)
      BY <1>3, <1>4
    <3> HIDE DEF n
    <3>2. news' = Posted(n, R, PartyNews(type))
      BY <2>2 DEF n
    <3>3. news' \in [Clients -> Seq(StoryNotices)] /\ \A d \in Clients : \A q : SameStory(n[d], news'[d], q)
      BY <1>3, <1>6, <3>1, <3>2
    <3> QED BY <3>1, <3>3, SameStoryOn
  <2> QED BY <1>6, <2>1, <2>2
<1>8. UNCHANGED <<role, queries>>
  BY DEF PartyChanges, Founds, Accepts, Promotes, Leaves
<1> QED BY <1>1, <1>7, <1>8

(* OnPartyCreate, OnPartyAcceptInvite, OnPartyChangeLeader and the leaving   *)
(* of the party tell nothing of a quest; where they make another client a    *)
(* teller, StoryAgrees makes an exception.                                   *)
LEMMA PartyKeepsStory ==
    ASSUME QuestInv, NEW c \in Clients, JoinsOrLeaves(c)
    PROVE  QuestInv'
<1>1. QuestTypes /\ PartyChanges(c) /\ UNCHANGED <<entries, done, running, apart, tellers>>
  BY DEF QuestInv, JoinsOrLeaves
<1>2. /\ members' \subseteq Clients /\ leader' \in Clients \cup {"none"}
      /\ members' # {} => leader' \in members'
      /\ news' \in [Clients -> Seq(StoryNotices)] /\ queries' = queries
      /\ \A d \in Clients : \A q : SameStory(news[d], news'[d], q)
  BY <1>1, PartyNoticesPosted
<1>3. QuestTypes'
  BY <1>1, <1>2 DEF QuestTypes, QuestTypeOK, Stages
<1>4. ASSUME NEW q \in Story PROVE StoryInv(q)'
  <2>1. StoryInv(q)
    BY DEF QuestInv
  <2>2. \A d \in Clients : SameStory(queries[d], queries'[d], q)
    BY <1>2, SameStoryAlways
  <2> QED BY <1>1, <1>2, <2>1, <2>2, StoryUntouched
<1> QED BY <1>3, <1>4 DEF QuestInv

(* OnQuestChanges passes on to the other members what a leader told of its   *)
(* quest.                                                                    *)
LEMMA RelayKeepsStory ==
    ASSUME QuestInv, NEW c \in Clients, OnQuestChanges(c)
    PROVE  QuestInv'
<1> DEFINE m == Head(queries[c])
           count == entries[c][m.quest]
           told == IF c \in members THEN members \ {c} ELSE {}
<1>1. QuestTypes
  BY DEF QuestInv
<1>2. /\ queries[c] # <<>> /\ queries' = Read(queries, c) /\ UNCHANGED <<members, leader>>
      /\ UNCHANGED <<done, running>>
  BY DEF OnQuestChanges, Handles
<1>3. entries' = [entries EXCEPT ![c][m.quest] =
         IF m.status = "stopped" THEN IF count = 0 THEN 0 ELSE count - 1
         ELSE IF count = 0 THEN 1 ELSE count]
  BY DEF OnQuestChanges
<1>4. PICK status \in StatusSent(c, m) :
         /\ news' = Posted(news, told, [m EXCEPT !.status = status])
         /\ apart' = apart \cup {<<d, m.quest>> : d \in
               IF status \in {m.status, "stage", "started"}
               THEN Clients \ (told \cup {c}) ELSE Clients \ {c}}
  BY DEF OnQuestChanges
<1>5. tellers' = [tellers EXCEPT ![m.quest] = @ \cup {c}]
  BY DEF OnQuestChanges
<1>6. /\ m \in QuestTells /\ m.type = "quest" /\ m.quest \in Story /\ m.stage \in Stages
      /\ m.status \in {"started", "stage", "stopped"}
      /\ queries' \in [Clients -> Seq(QuestTells)] /\ queries'[c] = Tail(queries[c])
      /\ \A d \in Clients : d # c => queries'[d] = queries[d]
  <2>1. queries \in [Clients -> Seq(QuestTells)]
    BY <1>1 DEF QuestTypes
  <2>2. m \in QuestTells
    BY <1>2, <2>1, ReadQueues
  <2>3. m.type = "quest" /\ m.quest \in Story /\ m.stage \in Stages
        /\ m.status \in {"started", "stage", "stopped"}
    BY <2>2 DEF QuestTells
  <2> QED BY <1>2, <2>1, <2>2, <2>3, ReadQueues
<1>7. told \in SUBSET (Clients \ {c})
  BY <1>1 DEF QuestTypes
<1> DEFINE sent == [m EXCEPT !.status = status]
<1>8. /\ status \in {"started", "stage", "stopped", "other"}
      /\ m.status = "stopped" => status = "stopped"
  BY <1>4, <1>6 DEF StatusSent
<1>9. /\ sent \in StoryNotices /\ sent.type = "quest" /\ sent.quest = m.quest
      /\ sent.stage = m.stage /\ sent.status = status
  <2>1. sent \in QuestNotices
    BY <1>6, <1>8 DEF QuestTells, QuestNotices
  <2> QED BY <1>6, <2>1 DEF QuestTells, StoryNotices
<1>10. entries' \in [Clients -> [Story -> 0..2]]
  <2>1. entries \in [Clients -> [Story -> 0..2]] /\ count \in 0..2
    BY <1>1, <1>6 DEF QuestTypes, QuestTypeOK
  <2> DEFINE next == IF m.status = "stopped" THEN IF count = 0 THEN 0 ELSE count - 1
                     ELSE IF count = 0 THEN 1 ELSE count
  <2>2. next \in 0..2
    BY <2>1
  <2> HIDE DEF next
  <2>3. [entries EXCEPT ![c][m.quest] = next] \in [Clients -> [Story -> 0..2]]
    BY <1>6, <2>1, <2>2
  <2> QED BY <1>3, <2>3 DEF next
<1> HIDE DEF m, told, sent
<1>11. /\ news \in [Clients -> Seq(StoryNotices)] /\ news' \in [Clients -> Seq(StoryNotices)]
       /\ \A d \in Clients : news'[d] = IF d \in told THEN Append(news[d], sent) ELSE news[d]
  <2>1. news \in [Clients -> Seq(StoryNotices)]
    BY <1>1 DEF QuestTypes
  <2>2. news' = Posted(news, told, sent)
    BY <1>4 DEF sent
  <2>3. news' \in [Clients -> Seq(StoryNotices)]
    BY <1>9, <2>1, <2>2, PostedQueues
  <2> QED BY <2>1, <2>2, <2>3 DEF Posted
<1>12. QuestTypes'
  <2>1. /\ tellers' \in [Story -> SUBSET Clients]
        /\ \A q \in Story : tellers'[q] = tellers[q] \/ tellers'[q] = tellers[q] \cup {c}
    BY <1>1, <1>5, <1>6 DEF QuestTypes
  <2>2. \A q \in Story : IsFiniteSet(tellers'[q])
    <3> TAKE q \in Story
    <3>1. IsFiniteSet(tellers[q])
      BY <1>1 DEF QuestTypes
    <3>2. IsFiniteSet(tellers[q] \cup {c})
      BY <3>1, FS_AddElement
    <3> QED BY <2>1, <3>1, <3>2
  <2> QED BY <1>1, <1>2, <1>6, <1>10, <1>11, <2>1, <2>2 DEF QuestTypes, QuestTypeOK, Stages
<1>13. ASSUME NEW q \in Story PROVE StoryInv(q)'
  <2>1. /\ StoryInv(q) /\ apart \subseteq apart'
        /\ queries[c] \in Seq(QuestTells)
        /\ \A d \in Clients : news[d] \in Seq(StoryNotices)
    BY <1>1, <1>4, <1>11 DEF QuestInv, QuestTypes
  <2>2. CASE q # m.quest
    <3>1. ~Is(m, q) /\ ~Is(sent, q)
      BY <1>9, <2>2 DEF Is
    <3>2. SameStory(queries[c], Tail(queries[c]), q)
      BY <1>2, <2>1, <3>1, StoryTail DEF m
    <3>3. \A d \in Clients : SameStory(queries[d], queries'[d], q)
      BY <1>6, <3>2, SameStoryAlways
    <3>4. \A d \in Clients : SameStory(news[d], Append(news[d], sent), q)
      BY <1>9, <2>1, <3>1, StoryAppend
    <3>5. \A d \in Clients : SameStory(news[d], news'[d], q)
      BY <1>11, <3>4, SameStoryAlways
    <3>6. tellers'[q] = tellers[q]
      BY <1>1, <1>5, <1>6, <2>2 DEF QuestTypes
    <3> QED BY <1>2, <2>1, <3>3, <3>5, <3>6, StoryUntouched
  <2>3. CASE q = m.quest
    <3> DEFINE said == IF Advances(m) THEN {m.stage} ELSE {}
               ends == m.status = "stopped"
               same == status \in {m.status, "stage", "started"}
    <3>1. Is(m, q) /\ Is(sent, q)
      BY <1>6, <1>9, <2>3 DEF Is
    <3>2. said \in SUBSET Stages /\ ends \in BOOLEAN /\ same \in BOOLEAN
      BY <1>6
    <3>3. /\ StagesIn(queries[c], q) = StagesIn(queries'[c], q) \cup said
          /\ StopsIn(queries[c], q) <=> StopsIn(queries'[c], q) \/ ends
          /\ LastIn(queries[c], q) => LastIn(queries'[c], q)
          /\ LastIn(queries[c], q) /\ ends => ~Speaks(queries'[c], q)
          /\ Speaks(queries[c], q)
      BY <1>2, <1>6, <2>1, <3>1, StoryTail DEF m
    <3>4. same => (Advances(sent) <=> Advances(m)) /\ (sent.status = "stopped" <=> ends)
      BY <1>6, <1>8, <1>9 DEF Advances
    <3>5. ASSUME NEW d \in told, same
          PROVE  /\ StagesIn(news'[d], q) = StagesIn(news[d], q) \cup said
                 /\ StopsIn(news'[d], q) <=> StopsIn(news[d], q) \/ ends
                 /\ LastIn(news[d], q) /\ ~StopsIn(news[d], q) => LastIn(news'[d], q)
      <4>1. d \in Clients /\ news'[d] = Append(news[d], sent) /\ news[d] \in Seq(StoryNotices)
        BY <1>7, <1>11, <2>1
      <4>2. /\ StagesIn(Append(news[d], sent), q) =
                  StagesIn(news[d], q) \cup (IF Advances(sent) THEN {sent.stage} ELSE {})
            /\ StopsIn(Append(news[d], sent), q) <=> StopsIn(news[d], q) \/ sent.status = "stopped"
            /\ LastIn(Append(news[d], sent), q) <=> LastIn(news[d], q) /\ ~StopsIn(news[d], q)
        BY <1>9, <3>1, <4>1, StoryAppend
      <4> QED BY <1>9, <3>4, <3>5, <4>1, <4>2
    <3>6. \A d \in Clients \ told : news'[d] = news[d]
      BY <1>11
    <3>7. tellers'[q] = tellers[q] \cup {c}
      BY <1>1, <1>5, <1>6, <2>3 DEF QuestTypes
    <3>8. ASSUME NEW d \in Clients, Joins(d, q)' PROVE d = c \/ (same /\ d \in told)
      BY <1>4, <2>3, <3>8 DEF Joins
    <3>9. \A d \in Clients \ {c} : queries'[d] = queries[d]
      BY <1>6
    <3> HIDE DEF said, ends, same
    <3> QED BY <1>1, <1>2, <1>7, <2>1, <3>2, <3>3, <3>5, <3>6, <3>7, <3>8, <3>9, StoryRelayed
  <2> QED BY <2>2, <2>3
<1> QED BY <1>12, <1>13 DEF QuestInv

(* What a client tells if it leads.                                            *)
LEMMA Telling ==
    ASSUME QuestTypes, NEW c \in Clients, NEW m \in QuestTells, TellIfLeader(c, <<m>>)
    PROVE  /\ queries' \in [Clients -> Seq(QuestTells)]
           /\ queries'[c] = IF role[c] = "leader" THEN Append(queries[c], m) ELSE queries[c]
           /\ \A d \in Clients \ {c} : queries'[d] = queries[d]
<1>1. queries \in [Clients -> Seq(QuestTells)] /\ queries[c] \in Seq(QuestTells)
  BY DEF QuestTypes
<1>2. /\ queries[c] \o <<m>> = Append(queries[c], m) /\ queries[c] \o <<>> = queries[c]
      /\ Append(queries[c], m) \in Seq(QuestTells)
  BY <1>1, AppendIsConcat, ConcatEmptySeq, AppendProperties
<1>3. queries' = [queries EXCEPT ![c] = IF role[c] = "leader" THEN Append(queries[c], m)
                                       ELSE queries[c]]
  BY <1>1, <1>2 DEF TellIfLeader, Asks
<1> QED BY <1>1, <1>2, <1>3

(* A client changes a quest in its game.                                       *)
LEMMA Happening ==
    ASSUME QuestTypes, NEW c \in Clients, NEW q \in Story, NEW ds \in SUBSET Stages,
           NEW r \in BOOLEAN, Happens(c, q, ds, r)
    PROVE  /\ done' \in [Clients -> [Story -> SUBSET Stages]]
           /\ running' \in [Clients -> [Story -> BOOLEAN]]
           /\ done'[c][q] = ds /\ running'[c][q] = r
           /\ \A d \in Clients, p \in Story : d # c \/ p # q =>
                 done'[d][p] = done[d][p] /\ running'[d][p] = running[d][p]
<1>1. done \in [Clients -> [Story -> SUBSET Stages]] /\ running \in [Clients -> [Story -> BOOLEAN]]
  BY DEF QuestTypes, QuestTypeOK
<1>2. done' = [done EXCEPT ![c][q] = ds]
  BY DEF Happens
<1>3. running' = [running EXCEPT ![c][q] = r]
  BY DEF Happens
<1>4. done' \in [Clients -> [Story -> SUBSET Stages]]
  BY <1>1, <1>2
<1>5. running' \in [Clients -> [Story -> BOOLEAN]]
  BY <1>1, <1>3
<1>6. done'[c][q] = ds /\ \A d \in Clients, p \in Story : d # c \/ p # q => done'[d][p] = done[d][p]
  BY <1>1, <1>2
<1>7. /\ running'[c][q] = r
      /\ \A d \in Clients, p \in Story : d # c \/ p # q => running'[d][p] = running[d][p]
  BY <1>1, <1>3
<1> QED BY <1>4, <1>5, <1>6, <1>7

\* The engine moves q in the game of c, of which a leader tells with m
Deed(c, q, m, new, r) ==
    /\ Is(m, q) /\ Moves(c, q, new, r)
    /\ Happens(c, q, done[c][q] \cup new, r) /\ TellIfLeader(c, <<m>>)
    /\ new = IF Advances(m) THEN {m.stage} ELSE {}
    /\ m.status = "stopped" <=> ~r

(* The engine starts, moves or stops a quest in one game (OnEvent of the     *)
(* client).                                                                  *)
LEMMA ProgressKeepsStory ==
    ASSUME QuestInv, NEW c \in Clients, NEW p \in Story, Progress(c, p)
    PROVE  QuestInv'
<1>1. QuestTypes /\ done[c][p] \in SUBSET Stages /\ running[c][p] \in BOOLEAN /\ 0 \in Stages
  BY QuestsAssumption DEF QuestInv, QuestTypes, QuestTypeOK, Stages
<1>2. /\ UNCHANGED <<members, leader, role, news, entries, tellers>>
      /\ apart' = IF role[c] = "leader" THEN apart ELSE apart \cup {<<c, p>>}
  BY DEF Progress
<1>3. \E m \in QuestTells, new \in SUBSET Stages, r \in BOOLEAN : Deed(c, p, m, new, r)
  <2>1. ASSUME NEW status \in {"started", "stage", "stopped"}, NEW s \in Stages
        PROVE  Tell(p, status, s) \in QuestTells /\ Is(Tell(p, status, s), p)
    BY DEF Tell, QuestTells, Is
  <2>2. ASSUME NEW s \in Stages \ done[c][p], running[c][p],
               Happens(c, p, done[c][p] \cup {s}, TRUE), TellIfLeader(c, <<Tell(p, "stage", s)>>)
        PROVE  \E m \in QuestTells, new \in SUBSET Stages, r \in BOOLEAN : Deed(c, p, m, new, r)
    <3> DEFINE m == Tell(p, "stage", s)
    <3>1. done'[c][p] = done[c][p] \cup {s} /\ running'[c][p] = TRUE
      BY <1>1, <2>2, Happening
    <3>2. Moves(c, p, {s}, TRUE)
      BY <2>2, <3>1 DEF Moves
    <3>3. m \in QuestTells /\ Is(m, p) /\ m.stage = s /\ m.status = "stage"
      BY <2>1 DEF Tell
    <3> HIDE DEF m
    <3>4. Advances(m) /\ TellIfLeader(c, <<m>>)
      BY <2>2, <3>3 DEF Advances, m
    <3> QED BY <1>1, <2>2, <3>2, <3>3, <3>4 DEF Deed
  <2>3. ASSUME ~running[c][p], done[c][p] = {},
               Happens(c, p, {0}, TRUE), TellIfLeader(c, <<Tell(p, "started", 0)>>)
        PROVE  \E m \in QuestTells, new \in SUBSET Stages, r \in BOOLEAN : Deed(c, p, m, new, r)
    <3> DEFINE m == Tell(p, "started", 0)
    <3>1. done'[c][p] = {0} /\ running'[c][p] = TRUE
      BY <1>1, <2>3, Happening
    <3>2. Moves(c, p, {0}, TRUE) /\ Happens(c, p, done[c][p] \cup {0}, TRUE)
      BY <1>1, <2>3, <3>1 DEF Moves
    <3>3. m \in QuestTells /\ Is(m, p) /\ m.stage = 0 /\ m.status = "started"
      BY <1>1, <2>1 DEF Tell
    <3> HIDE DEF m
    <3>4. Advances(m) /\ TellIfLeader(c, <<m>>)
      BY <2>3, <3>3 DEF Advances, m
    <3> QED BY <1>1, <3>2, <3>3, <3>4 DEF Deed
  <2>4. ASSUME running[c][p],
               Happens(c, p, done[c][p], FALSE), TellIfLeader(c, <<Tell(p, "stopped", 0)>>)
        PROVE  \E m \in QuestTells, new \in SUBSET Stages, r \in BOOLEAN : Deed(c, p, m, new, r)
    <3> DEFINE m == Tell(p, "stopped", 0)
    <3>1. done'[c][p] = done[c][p] /\ running'[c][p] = FALSE
      BY <1>1, <2>4, Happening
    <3>2. Moves(c, p, {}, FALSE) /\ Happens(c, p, done[c][p] \cup {}, FALSE)
      BY <2>4, <3>1 DEF Moves
    <3>3. m \in QuestTells /\ Is(m, p) /\ m.status = "stopped"
      BY <1>1, <2>1 DEF Tell
    <3> HIDE DEF m
    <3>4. ~Advances(m) /\ TellIfLeader(c, <<m>>)
      BY <2>4, <3>3 DEF Advances, m
    <3> QED BY <3>2, <3>3, <3>4 DEF Deed
  <2> QED BY <2>2, <2>3, <2>4 DEF Progress
<1>4. PICK m \in QuestTells, new \in SUBSET Stages, r \in BOOLEAN : Deed(c, p, m, new, r)
  BY <1>3
<1>5. /\ queries' \in [Clients -> Seq(QuestTells)]
      /\ queries'[c] = IF role[c] = "leader" THEN Append(queries[c], m) ELSE queries[c]
      /\ \A d \in Clients \ {c} : queries'[d] = queries[d]
  BY <1>1, <1>4, Telling DEF Deed
<1>6. /\ done' \in [Clients -> [Story -> SUBSET Stages]]
      /\ running' \in [Clients -> [Story -> BOOLEAN]]
      /\ \A d \in Clients, q \in Story : d # c \/ q # p =>
            done'[d][q] = done[d][q] /\ running'[d][q] = running[d][q]
  <2>1. done[c][p] \cup new \in SUBSET Stages
    BY <1>1
  <2> DEFINE ds == done[c][p] \cup new
  <2>2. ds \in SUBSET Stages /\ Happens(c, p, ds, r)
    BY <1>4, <2>1 DEF Deed
  <2> HIDE DEF ds
  <2> QED BY <1>1, <2>2, Happening
<1>7. QuestTypes'
  BY <1>1, <1>2, <1>5, <1>6 DEF QuestTypes, QuestTypeOK, Stages
<1>8. ASSUME NEW q \in Story PROVE StoryInv(q)'
  <2>1. StoryInv(q) /\ queries[c] \in Seq(QuestTells) /\ UNCHANGED <<news, tellers>>
    BY <1>1, <1>2 DEF QuestInv, QuestTypes
  <2>2. CASE q # p
    <3>1. SameStory(queries[c], Append(queries[c], m), q)
      BY <1>4, <2>1, <2>2, StoryAppend DEF Is, Deed
    <3>2. \A d \in Clients : SameStory(queries[d], queries'[d], q)
      BY <1>5, <3>1, SameStoryAlways
    <3>3. \A d \in Clients : SameStory(news[d], news'[d], q)
      BY <2>1, SameStoryAlways
    <3> QED BY <1>2, <1>6, <2>1, <2>2, <3>2, <3>3, StoryUntouched
  <2>3. CASE q = p /\ role[c] = "leader"
    <3>1. /\ StagesIn(queries'[c], q) = StagesIn(queries[c], q) \cup new
          /\ StopsIn(queries'[c], q) <=> StopsIn(queries[c], q) \/ ~r
          /\ LastIn(queries[c], q) /\ ~StopsIn(queries[c], q) => LastIn(queries'[c], q)
          /\ Speaks(queries'[c], q)
      BY <1>4, <1>5, <2>1, <2>3, StoryAppend DEF Deed
    <3>2. apart' = apart
      BY <1>2, <2>3
    <3>3. \A d \in Clients \ {c} : done'[d][q] = done[d][q] /\ running'[d][q] = running[d][q]
      BY <1>6
    <3> QED BY <1>1, <1>4, <1>5, <2>1, <2>3, <3>1, <3>2, <3>3, StoryTold DEF Deed
  <2>4. CASE q = p /\ role[c] # "leader"
    <3>1. queries' = queries
      <4>1. queries \in [Clients -> Seq(QuestTells)]
        BY <1>1 DEF QuestTypes
      <4> QED BY <1>5, <2>4, <4>1
    <3>2. apart' = apart \cup {<<c, q>>}
      BY <1>2, <2>4
    <3>3. \A d \in Clients \ {c} : done'[d][q] = done[d][q] /\ running'[d][q] = running[d][q]
      BY <1>6
    <3> QED BY <1>1, <1>4, <2>1, <2>4, <3>1, <3>2, <3>3, StoryApart DEF Deed
  <2> QED BY <2>2, <2>3, <2>4
<1> QED BY <1>7, <1>8 DEF QuestInv

(* A client reads of a quest or of its party (OnQuestUpdate, OnPartyInfo and *)
(* the others).                                                              *)
LEMMA LearnKeepsStory ==
    ASSUME QuestInv, NEW c \in Clients, Learns(c)
    PROVE  QuestInv'
<1> DEFINE m == Head(news[c])
<1>1. QuestTypes /\ \A q \in Story : StoryInv(q)
  BY DEF QuestInv
<1>2. /\ news[c] # <<>> /\ news' = Read(news, c)
      /\ UNCHANGED <<members, leader, entries, apart, tellers>>
      /\ IF m.type = "quest" THEN OnQuestUpdate(c, m) ELSE UNCHANGED <<queries, done, running>>
  BY DEF Learns, Reads
<1>3. /\ m \in StoryNotices /\ news[c] \in Seq(StoryNotices)
      /\ news' \in [Clients -> Seq(StoryNotices)] /\ news'[c] = Tail(news[c])
      /\ \A d \in Clients : d # c => news'[d] = news[d]
  <2>1. news \in [Clients -> Seq(StoryNotices)]
    BY <1>1 DEF QuestTypes
  <2> QED BY <1>2, <2>1, ReadQueues
<1> HIDE DEF m
<1>4. \A q : ~Is(m, q) => \A d \in Clients : SameStory(news[d], news'[d], q)
  <2> SUFFICES ASSUME NEW q, ~Is(m, q) PROVE \A d \in Clients : SameStory(news[d], news'[d], q)
    OBVIOUS
  <2>1. SameStory(news[c], Tail(news[c]), q)
    BY <1>2, <1>3, StoryTail DEF m
  <2> QED BY <1>3, <2>1, SameStoryAlways
<1>5. CASE m.type # "quest"
  <2>1. UNCHANGED <<queries, done, running>>
    BY <1>2, <1>5
  <2>2. QuestTypes'
    BY <1>1, <1>2, <1>3, <2>1 DEF QuestTypes, QuestTypeOK, Stages
  <2>3. ASSUME NEW q \in Story PROVE StoryInv(q)'
    <3>1. \A d \in Clients : SameStory(news[d], news'[d], q)
      BY <1>4, <1>5 DEF Is
    <3>2. \A d \in Clients : SameStory(queries[d], queries'[d], q)
      BY <2>1, SameStoryAlways
    <3> QED BY <1>1, <1>2, <2>1, <3>1, <3>2, StoryUntouched
  <2> QED BY <2>2, <2>3 DEF QuestInv
<1>6. CASE m.type = "quest"
  <2>1. /\ m \in QuestNotices /\ m.quest \in Story /\ m.stage \in Stages
        /\ m.status \in {"started", "stage", "stopped", "other"}
    BY <1>3, <1>6, NoticeKinds DEF QuestNotices
  <2>0. PICK p \in Story : p = m.quest
    BY <2>1
  <2> DEFINE said == IF Advances(m) THEN {m.stage} ELSE {}
             ends == m.status = "stopped"
             r == IF said \subseteq done[c][p] THEN running[c][p] /\ ~ends ELSE TRUE
             retells == role[c] = "leader" /\ ~(said \subseteq done[c][p])
             told == Tell(p, "stage", m.stage)
  <2>2. /\ said \in SUBSET Stages /\ ends \in BOOLEAN /\ (said = {} \/ ~ends)
        /\ done[c][p] \in SUBSET Stages /\ running[c][p] \in BOOLEAN
        /\ said \subseteq done[c][p] => done[c][p] \cup said = done[c][p]
    BY <1>1, <2>1 DEF Advances, QuestTypes, QuestTypeOK
  <2>3. told \in QuestTells /\ Is(told, p) /\ told.status = "stage" /\ told.stage = m.stage
    BY <2>1 DEF Tell, QuestTells, Is
  <2>4. /\ Happens(c, p, done[c][p] \cup said, r)
        /\ queries' \in [Clients -> Seq(QuestTells)]
        /\ queries'[c] = IF retells THEN Append(queries[c], told) ELSE queries[c]
        /\ \A d \in Clients \ {c} : queries'[d] = queries[d]
    <3>1. CASE ~(said \subseteq done[c][p])
      <4>1. Advances(m) /\ m.stage \notin done[c][p] /\ said = {m.stage}
        BY <3>1
      <4>2. Happens(c, p, done[c][p] \cup said, TRUE) /\ TellIfLeader(c, <<told>>)
        BY <1>2, <1>6, <2>0, <4>1 DEF OnQuestUpdate, Advances
      <4> QED BY <1>1, <2>3, <3>1, <4>2, Telling
    <3>2. CASE said \subseteq done[c][p]
      <4>1. ~(m.status \in {"started", "stage"} /\ m.stage \notin done[c][p])
        BY <3>2 DEF Advances
      <4>2. Happens(c, p, done[c][p], running[c][p] /\ ~ends) /\ queries' = queries
        BY <1>2, <1>6, <2>0, <4>1 DEF OnQuestUpdate
      <4>3. queries \in [Clients -> Seq(QuestTells)]
        BY <1>1 DEF QuestTypes
      <4> QED BY <2>2, <3>2, <4>2, <4>3
    <3> QED BY <3>1, <3>2
  <2>5. r \in BOOLEAN /\ done[c][p] \cup said \in SUBSET Stages
    BY <2>2
  <2> HIDE DEF said, ends, r, retells, told
  <2>6. /\ done' \in [Clients -> [Story -> SUBSET Stages]]
        /\ running' \in [Clients -> [Story -> BOOLEAN]]
        /\ done'[c][p] = done[c][p] \cup said /\ running'[c][p] = r
        /\ \A d \in Clients, q \in Story : d # c \/ q # p =>
              done'[d][q] = done[d][q] /\ running'[d][q] = running[d][q]
    <3>1. PICK ds \in SUBSET Stages, b \in BOOLEAN : ds = done[c][p] \cup said /\ b = r
      BY <2>5
    <3>2. Happens(c, p, ds, b)
      BY <2>4, <3>1
    <3>3. /\ done' \in [Clients -> [Story -> SUBSET Stages]]
          /\ running' \in [Clients -> [Story -> BOOLEAN]]
          /\ done'[c][p] = ds /\ running'[c][p] = b
          /\ \A d \in Clients, q \in Story : d # c \/ q # p =>
                done'[d][q] = done[d][q] /\ running'[d][q] = running[d][q]
      <4>1. /\ done' \in [Clients -> [Story -> SUBSET Stages]]
            /\ running' \in [Clients -> [Story -> BOOLEAN]]
        BY <1>1, <3>2, Happening
      <4>2. done'[c][p] = ds
        BY <1>1, <3>2 DEF Happens, QuestTypes, QuestTypeOK
      <4>3. running'[c][p] = b
        BY <1>1, <3>2 DEF Happens, QuestTypes, QuestTypeOK
      <4>4. \A d \in Clients, q \in Story : d # c \/ q # p =>
               done'[d][q] = done[d][q] /\ running'[d][q] = running[d][q]
        BY <1>1, <3>2, Happening
      <4> QED BY <4>1, <4>2, <4>3, <4>4
    <3> QED BY <3>1, <3>3
  <2>7. QuestTypes'
    BY <1>1, <1>2, <1>3, <2>4, <2>6 DEF QuestTypes, QuestTypeOK, Stages
  <2>8. ASSUME NEW q \in Story PROVE StoryInv(q)'
    <3>1. StoryInv(q) /\ queries[c] \in Seq(QuestTells)
      BY <1>1 DEF QuestTypes
    <3>2. CASE q # p
      <4>1. ~Is(m, q) /\ ~Is(told, q)
        BY <2>0, <2>3, <3>2 DEF Is
      <4>2. SameStory(queries[c], Append(queries[c], told), q)
        BY <2>3, <3>1, <4>1, StoryAppend
      <4>3. \A d \in Clients : SameStory(queries[d], queries'[d], q)
        BY <2>4, <4>2, SameStoryAlways
      <4>4. \A d \in Clients : SameStory(news[d], news'[d], q)
        BY <1>4, <4>1
      <4> QED BY <1>2, <2>6, <3>1, <3>2, <4>3, <4>4, StoryUntouched
    <3>3. CASE q = p
      <4> DEFINE again == IF retells THEN said ELSE {}
      <4>1. Is(m, q)
        BY <1>6, <2>0, <3>3 DEF Is
      <4>2. /\ StagesIn(news[c], q) = StagesIn(news'[c], q) \cup said
            /\ StopsIn(news[c], q) <=> StopsIn(news'[c], q) \/ ends
            /\ LastIn(news[c], q) => LastIn(news'[c], q)
            /\ LastIn(news[c], q) /\ ends => ~Speaks(news'[c], q)
            /\ Speaks(news[c], q)
        BY <1>2, <1>3, <4>1, StoryTail DEF m, said, ends
      <4>3. /\ StagesIn(queries'[c], q) = StagesIn(queries[c], q) \cup again
            /\ queries'[c] = queries[c] \/ Speaks(queries'[c], q)
        <5>1. CASE retells
          <6>1. said = {told.stage}
            BY <2>3, <5>1 DEF said, retells
          <6>2. /\ StagesIn(Append(queries[c], told), q) = StagesIn(queries[c], q) \cup {told.stage}
                /\ Speaks(Append(queries[c], told), q)
            BY <2>3, <3>1, <3>3, StoryAppend DEF Advances
          <6> QED BY <2>4, <5>1, <6>1, <6>2
        <5>2. CASE ~retells
          BY <2>4, <5>2
        <5> QED BY <5>1, <5>2
      <4>4. again \in SUBSET said
        OBVIOUS
      <4>5. running'[c][q] = IF said \subseteq done[c][q] THEN running[c][q] /\ ~ends ELSE TRUE
        BY <2>6, <3>3 DEF r
      <4>6. \A d \in Clients \ {c} : done'[d][q] = done[d][q] /\ running'[d][q] = running[d][q]
        BY <2>6
      <4>7. \A d \in Clients \ {c} : news'[d] = news[d] /\ queries'[d] = queries[d]
        BY <1>3, <2>4
      <4>8. done'[c][q] = done[c][q] \cup said
        BY <2>6, <3>3
      <4> HIDE DEF again
      <4> QED BY <1>1, <1>2, <2>2, <3>1, <4>2, <4>3, <4>4, <4>5, <4>6, <4>7, <4>8, StoryHeard
    <3> QED BY <3>2, <3>3
  <2> QED BY <2>7, <2>8 DEF QuestInv
<1> QED BY <1>5, <1>6

(* What Quests is proved by: however joining, leading and the quests of the  *)
(* games cross, each quest that one client told of is in every game as in    *)
(* the game that told of it, or will be when all is read.                    *)
THEOREM QuestInvariant == QuestSpec => []QuestInv
<1>1. QuestInit => QuestInv
  BY InitStory
<1>2. QuestInv /\ [QuestNext]_questVars => QuestInv'
  <2> SUFFICES ASSUME QuestInv, [QuestNext]_questVars PROVE QuestInv'
    OBVIOUS
  <2>1. CASE QuestNext
    BY <2>1, PartyKeepsStory, RelayKeepsStory, LearnKeepsStory, ProgressKeepsStory DEF QuestNext
  <2>2. CASE UNCHANGED questVars
    <3>1. UNCHANGED <<members, leader, queries, news, entries, done, running, apart, tellers>>
      BY <2>2 DEF questVars, companionVars
    <3>2. QuestTypes'
      BY <3>1 DEF QuestInv, QuestTypes, QuestTypeOK, Stages
    <3>3. ASSUME NEW q \in Story PROVE StoryInv(q)'
      BY <3>1, SameStoryAlways, StoryUntouched DEF QuestInv
    <3> QED BY <3>2, <3>3 DEF QuestInv
  <2> QED BY <2>1, <2>2
<1> QED BY <1>1, <1>2, PTL DEF QuestSpec

(* The types of Quests hold for any clients, quests and stages: a party is   *)
(* made of clients, and a game and the entries of the server are at a stage  *)
(* of the quest (QuestService of client and server).                         *)
THEOREM QuestTypesHold == QuestSpec => []QuestTypeOK
<1>1. QuestInv => QuestTypeOK
  BY DEF QuestInv, QuestTypes
<1> QED BY <1>1, QuestInvariant, PTL

(* When all is read, what each game is told of is what it runs.              *)
LEMMA StoryInvAgrees == QuestInv => StoryAgrees
<1> SUFFICES ASSUME QuestInv, NEW f \in Followers, NEW q \in Story, AllRead,
                    {<<f, q>>, <<leader, q>>} \cap apart = {}
             PROVE  /\ done[f][q] = done[leader][q]
                    /\ Cardinality(tellers[q]) < 2 => running[f][q] = running[leader][q]
  BY DEF StoryAgrees
<1>1. /\ QuestTypes /\ StoryInv(q) /\ f \in Clients /\ leader \in Clients /\ f # leader
      /\ Joins(f, q) /\ Joins(leader, q)
  BY DEF QuestInv, QuestTypes, Followers, Joins
<1>2. \A c \in Clients : queries[c] = <<>> /\ news[c] = <<>>
  BY DEF AllRead
<1>3. \A c \in Clients :
         /\ StagesIn(queries[c], q) = {} /\ ~StopsIn(queries[c], q) /\ ~Speaks(queries[c], q)
         /\ StagesIn(news[c], q) = {} /\ ~StopsIn(news[c], q)
  BY <1>2, StoryOfNothing
<1>4. \A c \in Clients, s \in Stages : Comes(c, q, s) <=> s \in done[c][q]
  BY <1>3 DEF Comes
<1>5. done[f][q] \subseteq Stages /\ done[leader][q] \subseteq Stages
  BY <1>1 DEF QuestTypes, QuestTypeOK
<1>6. done[f][q] = done[leader][q]
  <2>1. \A s \in Stages : s \in done[f][q] <=> s \in done[leader][q]
    BY <1>1, <1>4 DEF StoryInv, Agreed
  <2> QED BY <1>5, <2>1
<1>7. ASSUME Cardinality(tellers[q]) < 2 PROVE running[f][q] = running[leader][q]
  <2>1. PICK t \in Clients : tellers[q] \subseteq {t}
    <3>1. IsFiniteSet(tellers[q]) /\ tellers[q] \subseteq Clients
      BY <1>1 DEF QuestTypes
    <3>2. Cardinality(tellers[q]) \in Nat
      BY <3>1, FS_CardinalityType
    <3>3. CASE Cardinality(tellers[q]) = 0
      BY <1>1, <3>1, <3>3, FS_EmptySet
    <3>4. CASE Cardinality(tellers[q]) = 1
      BY <3>1, <3>4, FS_Singleton
    <3> QED BY <1>7, <3>2, <3>3, <3>4
  <2>2. Voices(q) \subseteq {t} /\ OneVoice(t, q)
    BY <1>1, <1>3, <2>1 DEF Voices, StoryInv
  <2>3. \A d \in Clients : WillRun(t, d, q) <=> running[d][q]
    BY <1>3 DEF WillRun
  <2>4. running[f][q] <=> running[leader][q]
    BY <1>1, <2>2, <2>3 DEF OneVoice
  <2>5. running[f][q] \in BOOLEAN /\ running[leader][q] \in BOOLEAN
    BY <1>1 DEF QuestTypes, QuestTypeOK
  <2> QED BY <2>4, <2>5
<1> QED BY <1>6, <1>7

(* The members of a party have started, moved and stopped the same quests as *)
(* their leader when everything is read, for any number of clients and       *)
(* quests (OnQuestChanges, OnQuestUpdate), but for quests that two leaders   *)
(* or two games moved at once.                                               *)
THEOREM StoryAlwaysAgrees == QuestSpec => []StoryAgrees
BY QuestInvariant, StoryInvAgrees, PTL

---------------------------------------------------------------------------
(* The weather *)

RoleNotices ==
    [type : {"joined", "info"}, leader : Clients] \cup
    [type : {"left"}, leader : Clients \cup {"none"}]

WeatherQueries == [type : {"ask"}] \cup [type : {"change"}, id : Weathers]

WeatherNews ==
    RoleNotices \cup [type : {"weather"}, id : Weathers \cup {NoWeather}] \cup
    [type : {"appear", "vanish"}, who : Clients]

AllWeathers == Weathers \cup {MapWeather, NoWeather}

WeatherTypes ==
    /\ WeatherTypeOK
    /\ leader \in Clients \cup {"none"}
    /\ IF members = {} THEN leader = "none" ELSE leader \in members
    /\ queries \in [Clients -> Seq(WeatherQueries)]
    /\ news \in [Clients -> Seq(WeatherNews)]
    /\ cachedWeather \in Weathers \cup {NoWeather}
    /\ inView \in [Clients -> SUBSET Clients]
    /\ place \in [Clients -> Places]
    /\ unasked \subseteq Clients
    /\ overruled \in BOOLEAN

\* News of each kind
Joinings == {m \in WeatherNews : m.type = "joined"}
Leavings == {m \in WeatherNews : m.type = "left"}
Comings == Joinings \cup Leavings
Roles == {m \in WeatherNews : m.type \in {"joined", "info"}}
Under(l) == {m \in Roles : m.leader = l}
Upsets(l) == {m \in Roles : m.type = "joined" \/ m.leader # l}
Glimpses(d) == {m \in WeatherNews : m.type \in {"appear", "vanish"} /\ m.who = d}
Arrivals(d) == {m \in WeatherNews : m.type = "appear" /\ m.who = d}
Impositions == {m \in WeatherNews : m.type = "weather"}
ImpositionsOf(w) == {m \in Impositions : m.id = w}

\* and what the clients say
Demands == {m \in WeatherQueries : m.type = "ask"}
Turns == {m \in WeatherQueries : m.type = "change"}
TurnsTo(w) == {m \in Turns : m.id = w}

RoleOf(c) == IF c = leader THEN "leader" ELSE leader

(* Members of the party know that they are in it, and who leads it, or are     *)
(* going to read it.                                                           *)
MemberTold(c) ==
    c \in members =>
       /\ \/ Latest(news[c], Comings, Joinings)
          \/ ~Carries(news[c], Comings) /\ role[c] # "none"
       /\ \/ Latest(news[c], Roles, Under(leader))
          \/ ~Carries(news[c], Roles) /\ role[c] = RoleOf(c)

(* The game of c shows the players in the same place, or will when all is read. *)
ViewTold(c, d) ==
    place[c] = place[d] <=>
       \/ Latest(news[c], Glimpses(d), Arrivals(d))
       \/ ~Carries(news[c], Glimpses(d)) /\ d \in inView[c]

\* A client gets no news of its own character
SightTold(c) ==
    /\ ~Carries(news[c], Glimpses(c))
    /\ \A d \in Clients \ {c} : ViewTold(c, d)

\* c knows its role, and nothing it is going to read makes it begin anew
Steady(c) ==
    c \in members /\ role[c] = RoleOf(c) /\ ~Carries(news[c], Upsets(leader))

\* Nothing has happened that WeatherAgrees excepts
Abreast(c) == Steady(c) /\ c \notin unasked /\ ~overruled

(* The weather that the leader announced last is on its way or cached.         *)
LeaderTells(c) ==
    c = leader /\ Abreast(c) /\ cachedWeatherId[c] \in Weathers =>
       \/ Latest(queries[c], Turns, TurnsTo(cachedWeatherId[c]))
       \/ ~Carries(queries[c], Turns) /\ cachedWeather = cachedWeatherId[c]

(* A follower next to the leader has the weather of the cache or will get it.  *)
FollowerTold(c) ==
    c # leader /\ Abreast(c) /\ place[c] = place[leader] =>
       \/ Carries(queries[c], Demands)
       \/ Carries(news[c], Arrivals(leader))
       \/ cachedWeather = NoWeather
       \/ Latest(news[c], Impositions, ImpositionsOf(cachedWeather))
       \/ ~Carries(news[c], Impositions) /\ cachedWeatherId[c] = cachedWeather

ClientTold(c) ==
    /\ MemberTold(c) /\ LeaderTells(c) /\ FollowerTold(c)
    /\ SightTold(c)

WeatherInv == WeatherTypes /\ \A c \in Clients : ClientTold(c)

(* At the start there is no party, nothing is on its way, and every game     *)
(* shows who is in the same place.                                           *)
LEMMA WeatherInit1 == WeatherInit => WeatherInv
<1> SUFFICES ASSUME WeatherInit PROVE WeatherInv
  OBVIOUS
<1>1. /\ members = {} /\ leader = "none" /\ role = [c \in Clients |-> "none"]
      /\ queries = [c \in Clients |-> <<>>] /\ news = [c \in Clients |-> <<>>]
  BY DEF WeatherInit, CompanionsInit
<1>2. WeatherTypes
  <2>1. <<>> \in Seq(WeatherQueries) /\ <<>> \in Seq(WeatherNews)
    BY EmptySeq
  <2>2. WeatherTypeOK
    BY <1>1 DEF WeatherInit, WeatherTypeOK
  <2>3. inView \in [Clients -> SUBSET Clients] /\ place \in [Clients -> Places]
    BY DEF WeatherInit
  <2>4. overruled = FALSE /\ unasked = {} /\ cachedWeather = NoWeather
    BY DEF WeatherInit
  <2> QED BY <1>1, <2>1, <2>2, <2>3, <2>4 DEF WeatherTypes
<1>3. ASSUME NEW c \in Clients PROVE ClientTold(c)
  <2>1. news[c] = <<>>
    BY <1>1
  <2>2. MemberTold(c) /\ LeaderTells(c) /\ FollowerTold(c)
    BY <1>1 DEF MemberTold, LeaderTells, FollowerTold, Abreast, Steady
  <2>3. ASSUME NEW d \in Clients \ {c} PROVE ViewTold(c, d)
    <3>1. d \in inView[c] <=> place[c] = place[d]
      BY DEF WeatherInit
    <3> QED BY <2>1, <3>1, CarriesNothing DEF ViewTold
  <2>4. SightTold(c)
    BY <2>1, <2>3, CarriesNothing DEF SightTold
  <2> QED BY <2>2, <2>4 DEF ClientTold
<1> QED BY <1>2, <1>3 DEF WeatherInv

(* What the fields of the news are, by their kind.                           *)
LEMMA NewsOfEachKind ==
    /\ \A m \in WeatherNews :
          \/ /\ m.type \in {"joined", "info"} /\ m.leader \in Clients /\ m.leader # "none"
             /\ m.leader # "leader"
          \/ m.type = "left"
          \/ m.type = "weather" /\ m.id \in Weathers \cup {NoWeather}
          \/ m.type \in {"appear", "vanish"} /\ m.who \in Clients
    /\ RoleNotices \subseteq WeatherNews
    /\ \A m \in RoleNotices : /\ m \notin Impositions
                              /\ \A d : m \notin Glimpses(d) /\ m \notin Arrivals(d)
BY WeatherAssumption
   DEF WeatherNews, RoleNotices, Impositions, Glimpses, Arrivals

(* What the clients are told when the party changes.                           *)
LEMMA PartyPosts ==
    ASSUME WeatherTypes, NEW c \in Clients, PartyChanges(c)
    PROVE  /\ members' \subseteq Clients /\ leader' \in Clients \cup {"none"}
           /\ IF members' = {} THEN leader' = "none" ELSE leader' \in members'
           /\ UNCHANGED <<role, queries>>
           /\ news' \in [Clients -> Seq(WeatherNews)]
           /\ \A d \in Clients :
                 \/ /\ d \notin members'
                    /\ news'[d] \in {news[d], Append(news[d], PartyNews("left"))}
                 \/ /\ d \in members' /\ d \notin members
                    /\ news'[d] \in {Append(news[d], PartyNews("joined")),
                                     Append(Append(news[d], PartyNews("joined")), PartyNews("info"))}
                 \/ /\ d \in members' /\ d \in members
                    /\ news'[d] = Append(news[d], PartyNews("info"))
           /\ PartyNews("left") \in RoleNotices
           /\ members' # {} => {PartyNews("joined"), PartyNews("info")} \subseteq RoleNotices
<1>0. /\ members \subseteq Clients /\ leader \in Clients \cup {"none"}
      /\ IF members = {} THEN leader = "none" ELSE leader \in members
      /\ news \in [Clients -> Seq(WeatherNews)]
  BY DEF WeatherTypes, WeatherTypeOK
<1>1. /\ members' \subseteq Clients /\ leader' \in Clients \cup {"none"}
      /\ IF members' = {} THEN leader' = "none" ELSE leader' \in members'
      /\ UNCHANGED <<role, queries>>
  BY <1>0 DEF PartyChanges, Founds, Accepts, Promotes, Leaves
<1>2. PartyNews("left") \in RoleNotices
  BY <1>1 DEF PartyNews, RoleNotices
<1>3. members' # {} => {PartyNews("joined"), PartyNews("info")} \subseteq RoleNotices
  BY <1>1 DEF PartyNews, RoleNotices
<1>4. \A d \in Clients :
         \/ /\ d \notin members'
            /\ news'[d] \in {news[d], Append(news[d], PartyNews("left"))}
         \/ /\ d \in members' /\ d \notin members
            /\ news'[d] \in {Append(news[d], PartyNews("joined")),
                             Append(Append(news[d], PartyNews("joined")), PartyNews("info"))}
         \/ /\ d \in members' /\ d \in members
            /\ news'[d] = Append(news[d], PartyNews("info"))
  <2> TAKE d \in Clients
  <2>1. CASE Founds(c)
    <3>1. news'[d] = IF d \in {c} THEN Append(news[d], PartyNews("joined")) ELSE news[d]
      BY <2>1 DEF Founds, Posted
    <3> QED BY <2>1, <3>1 DEF Founds
  <2>2. CASE Accepts(c)
    <3> DEFINE n == Posted(news, {c}, PartyNews("joined"))
    <3>1. n[d] = IF d = c THEN Append(news[d], PartyNews("joined")) ELSE news[d]
      BY DEF Posted
    <3>2. news' = Posted(n, members', PartyNews("info"))
      BY <2>2 DEF Accepts
    <3> HIDE DEF n
    <3>3. news'[d] = IF d \in members' THEN Append(n[d], PartyNews("info")) ELSE n[d]
      BY <3>2 DEF Posted
    <3> QED BY <2>2, <3>1, <3>3 DEF Accepts
  <2>3. CASE Promotes(c)
    <3>1. news'[d] = IF d \in members THEN Append(news[d], PartyNews("info")) ELSE news[d]
      BY <2>3 DEF Promotes, Posted
    <3> QED BY <2>3, <3>1 DEF Promotes
  <2>4. CASE Leaves(c)
    <3> DEFINE n == Posted(news, members', PartyNews("info"))
    <3>1. n[d] = IF d \in members' THEN Append(news[d], PartyNews("info")) ELSE news[d]
      BY DEF Posted
    <3>2. news' = Posted(n, {c}, PartyNews("left"))
      BY <2>4 DEF Leaves
    <3> HIDE DEF n
    <3>3. news'[d] = IF d = c THEN Append(n[d], PartyNews("left")) ELSE n[d]
      BY <3>2 DEF Posted
    <3>4. members' = members \ {c}
      BY <2>4 DEF Leaves
    <3> QED BY <3>1, <3>3, <3>4
  <2> QED BY <2>1, <2>2, <2>3, <2>4 DEF PartyChanges
<1>5. news' \in [Clients -> Seq(WeatherNews)]
  <2>1. \A d \in Clients : news'[d] \in Seq(WeatherNews)
    <3> TAKE d \in Clients
    <3>1. news[d] \in Seq(WeatherNews)
      BY <1>0
    <3>2. \A m \in WeatherNews : \A t \in Seq(WeatherNews) : Append(t, m) \in Seq(WeatherNews)
      BY AppendProperties
    <3>3. PartyNews("left") \in WeatherNews
      BY <1>2, NewsOfEachKind
    <3>4. d \in members' => PartyNews("joined") \in WeatherNews /\ PartyNews("info") \in WeatherNews
      BY <1>3, NewsOfEachKind
    <3> QED BY <1>4, <3>1, <3>2, <3>3, <3>4
  <2>2. news' = [d \in Clients |-> news'[d]]
    BY DEF PartyChanges, Founds, Accepts, Promotes, Leaves, Posted
  <2> QED BY <2>1, <2>2
<1> QED BY <1>1, <1>2, <1>3, <1>4, <1>5

(* Whoever knows its role after a change of the party knew it before, and the  *)
(* leader is the same.                                                         *)
LEMMA PartyUpsets ==
    ASSUME WeatherTypes, NEW c \in Clients, PartyChanges(c), NEW d \in Clients, ClientTold(d)
    PROVE  /\ MemberTold(d)'
           /\ Steady(d)' => Steady(d) /\ leader' = leader /\ d \in members'
           /\ \A K : K \cap RoleNotices = {} => SameOn(news[d], news'[d], K)
<1> DEFINE J == PartyNews("joined")
           I == PartyNews("info")
           L == PartyNews("left")
           s == news[d]
           t == news'[d]
<1>1. /\ members' \subseteq Clients /\ UNCHANGED <<role, queries>>
      /\ \/ d \notin members' /\ t \in {s, Append(s, L)}
         \/ d \in members' /\ d \notin members /\ t \in {Append(s, J), Append(Append(s, J), I)}
         \/ d \in members' /\ d \in members /\ t = Append(s, I)
      /\ L \in RoleNotices
      /\ d \in members' => J \in RoleNotices /\ I \in RoleNotices
      /\ d \in members' => leader' \in members'
      /\ d \in members => leader \in members
  BY PartyPosts DEF WeatherTypes
<1>2. s \in Seq(WeatherNews)
  BY DEF WeatherTypes
<1>3. /\ J.type = "joined" /\ J.leader = leader' /\ I.type = "info" /\ I.leader = leader'
      /\ L.type = "left"
  BY DEF PartyNews
<1> HIDE DEF J, I, L, s, t
<1>4. L \in WeatherNews /\ (d \in members' => J \in WeatherNews /\ I \in WeatherNews)
  BY <1>1, NewsOfEachKind
<1>5. ASSUME NEW K, K \cap RoleNotices = {} PROVE SameOn(s, t, K)
  <2>1. CASE t = s
    BY <2>1, SameOnItself
  <2>2. CASE t = Append(s, L)
    BY <1>1, <1>2, <1>4, <1>5, <2>2, CarriesMore
  <2>3. CASE d \in members' /\ t = Append(s, I)
    BY <1>1, <1>2, <1>4, <1>5, <2>3, CarriesMore
  <2>4. CASE d \in members' /\ t = Append(s, J)
    BY <1>1, <1>2, <1>4, <1>5, <2>4, CarriesMore
  <2>5. CASE d \in members' /\ t = Append(Append(s, J), I)
    <3> DEFINE u == Append(s, J)
    <3>1. u \in Seq(WeatherNews) /\ SameOn(s, u, K)
      BY <1>1, <1>2, <1>4, <1>5, <2>5, CarriesMore, AppendProperties
    <3>2. t = Append(u, I) /\ I \in WeatherNews /\ I \notin K
      BY <1>1, <1>4, <1>5, <2>5
    <3> HIDE DEF u
    <3>3. SameOn(u, t, K)
      BY <3>1, <3>2, CarriesMore
    <3> QED BY <3>1, <3>3 DEF SameOn
  <2> QED BY <1>1, <2>1, <2>2, <2>3, <2>4, <2>5
<1>6. d \in members' =>
         /\ J \in Joinings /\ J \in Comings /\ J \in Roles /\ J \in Under(leader')
         /\ I \in Roles /\ I \in Under(leader') /\ I \notin Comings
         /\ (J \in Upsets(leader) /\ J \in Upsets(leader')) /\ (I \in Upsets(leader) <=> leader' # leader)
         /\ I \notin Upsets(leader')
  BY <1>3, <1>4 DEF Joinings, Leavings, Comings, Roles, Under, Upsets
<1>7. CASE d \notin members'
  <2>1. MemberTold(d)' /\ ~Steady(d)'
    BY <1>7 DEF MemberTold, Steady
  <2> QED BY <1>5, <2>1 DEF s, t
<1>8. CASE d \in members' /\ d \notin members
  <2>1. Latest(t, Comings, Joinings) /\ Latest(t, Roles, Under(leader')) /\ Carries(t, Upsets(leader'))
    <3>1. CASE t = Append(s, J)
      BY <1>2, <1>4, <1>6, <1>8, <3>1, CarriesMore
    <3>2. CASE t = Append(Append(s, J), I)
      <4> DEFINE u == Append(s, J)
      <4>1. /\ u \in Seq(WeatherNews)
            /\ Latest(u, Comings, Joinings) /\ Carries(u, Upsets(leader'))
        BY <1>2, <1>4, <1>6, <1>8, CarriesMore, AppendProperties
      <4>2. t = Append(u, I)
        BY <3>2
      <4> HIDE DEF u
      <4> QED BY <1>4, <1>6, <1>8, <4>1, <4>2, CarriesMore
    <3> QED BY <1>1, <1>8, <3>1, <3>2
  <2>2. Comings' = Comings /\ Joinings' = Joinings /\ Roles' = Roles
    BY DEF Comings, Joinings, Leavings, Roles
  <2>3. Under(leader)' = Under(leader') /\ Upsets(leader)' = Upsets(leader')
    BY DEF Under, Roles, Upsets
  <2>4. MemberTold(d)' /\ ~Steady(d)'
    BY <2>1, <2>2, <2>3 DEF MemberTold, Steady, t
  <2> QED BY <1>5, <2>4 DEF s, t
<1>9. CASE d \in members' /\ d \in members
  <2>1. t = Append(s, I)
    BY <1>1, <1>9
  <2>2. /\ Latest(t, Roles, Under(leader')) /\ SameOn(s, t, Comings)
        /\ \A K : Carries(s, K) => Carries(t, K)
    BY <1>2, <1>4, <1>6, <1>9, <2>1, CarriesMore
  <2>3. /\ \/ Latest(s, Comings, Joinings)
           \/ ~Carries(s, Comings) /\ role[d] # "none"
        /\ \/ Latest(s, Roles, Under(leader))
           \/ ~Carries(s, Roles) /\ role[d] = RoleOf(d)
    BY <1>9 DEF ClientTold, MemberTold, s
  <2>4. MemberTold(d)'
    BY <1>1, <2>2, <2>3 DEF MemberTold, SameOn, t
  <2>5. ASSUME Steady(d)' PROVE leader' = leader /\ Steady(d)
    <3>1. role[d] = RoleOf(d)' /\ ~Carries(t, Upsets(leader'))
      BY <1>1, <2>5 DEF Steady, t
    <3>2. ~Carries(s, Upsets(leader'))
      BY <2>2, <3>1
    <3>3. leader' = leader
      <4> SUFFICES ASSUME leader' # leader PROVE FALSE
        OBVIOUS
      <4>1. CASE Latest(s, Roles, Under(leader))
        <5>1. PICK i \in 1 .. Len(s) : s[i] \in Roles /\ s[i] \in Under(leader)
          BY <4>1 DEF Latest
        <5>2. s[i] \in Upsets(leader')
          BY <5>1 DEF Under, Upsets
        <5> QED BY <3>2, <5>2 DEF Carries
      <4>2. CASE role[d] = RoleOf(d)
        BY <1>1, <1>9, <3>1, <4>2, WeatherAssumption DEF RoleOf, WeatherTypes, WeatherTypeOK
      <4> QED BY <2>3, <4>1, <4>2
    <3>4. Steady(d)
      BY <1>9, <3>1, <3>2, <3>3 DEF Steady, RoleOf, s
    <3> QED BY <3>3, <3>4
  <2> QED BY <1>5, <1>9, <2>4, <2>5 DEF s, t
<1> QED BY <1>7, <1>8, <1>9

(* OnPartyCreate, OnPartyAcceptInvite, OnPartyChangeLeader and the leaving   *)
(* of the party.                                                             *)
LEMMA PartyStepKeepsTold ==
    ASSUME WeatherInv, NEW c \in Clients, PartyStep(c)
    PROVE  WeatherInv'
<1>1. /\ WeatherTypes /\ PartyChanges(c)
      /\ cachedWeather' = IF members' = {} THEN NoWeather ELSE cachedWeather
      /\ UNCHANGED <<place, sky, cachedWeatherId, inView, turns, unasked, overruled>>
  BY DEF WeatherInv, PartyStep
<1>2. /\ members' \subseteq Clients /\ leader' \in Clients \cup {"none"}
      /\ IF members' = {} THEN leader' = "none" ELSE leader' \in members'
      /\ UNCHANGED <<role, queries>> /\ news' \in [Clients -> Seq(WeatherNews)]
  BY <1>1, PartyPosts
<1>3. WeatherTypes'
  <2>1. cachedWeather' \in Weathers \cup {NoWeather}
    BY <1>1 DEF WeatherTypes
  <2> QED BY <1>1, <1>2, <2>1 DEF WeatherTypes, WeatherTypeOK
<1>4. ASSUME NEW d \in Clients PROVE ClientTold(d)'
  <2>1. ClientTold(d)
    BY DEF WeatherInv
  <2>2. /\ MemberTold(d)'
        /\ Steady(d)' => Steady(d) /\ leader' = leader /\ d \in members'
        /\ \A K : K \cap RoleNotices = {} => SameOn(news[d], news'[d], K)
    BY <1>1, <2>1, PartyUpsets
  <2>3. /\ SameOn(news[d], news'[d], Impositions)
        /\ \A e : SameOn(news[d], news'[d], Glimpses(e)) /\ SameOn(news[d], news'[d], Arrivals(e))
    BY <2>2, NewsOfEachKind
  <2>4. SightTold(d)'
    BY <1>1, <2>1, <2>3 DEF ClientTold, SightTold, ViewTold, SameOn
  <2>5. Abreast(d)' => Abreast(d) /\ leader' = leader /\ cachedWeather' = cachedWeather
    BY <1>1, <2>2 DEF Abreast
  <2>6. LeaderTells(d)'
    BY <1>1, <1>2, <2>1, <2>5 DEF ClientTold, LeaderTells
  <2>7. FollowerTold(d)'
    BY <1>1, <1>2, <2>1, <2>3, <2>5 DEF ClientTold, FollowerTold, SameOn
  <2> QED BY <2>2, <2>4, <2>6, <2>7 DEF ClientTold
<1> QED BY <1>3, <1>4 DEF WeatherInv

(* A client to which nothing happens.                                          *)
LEMMA Undisturbed ==
    ASSUME NEW d \in Clients, ClientTold(d), UNCHANGED <<members, leader, place, cachedWeather>>,
           role'[d] = role[d], news'[d] = news[d], queries'[d] = queries[d],
           inView'[d] = inView[d], cachedWeatherId'[d] = cachedWeatherId[d],
           d \in unasked' <=> d \in unasked, overruled => overruled'
    PROVE  ClientTold(d)'
<1>1. MemberTold(d)'
  BY DEF ClientTold, MemberTold, RoleOf
<1>2. SightTold(d)'
  BY DEF ClientTold, SightTold, ViewTold
<1>3. Abreast(d)' => Abreast(d)
  BY DEF Abreast, Steady, RoleOf
<1>4. LeaderTells(d)'
  BY <1>3 DEF ClientTold, LeaderTells
<1>5. FollowerTold(d)'
  BY <1>3 DEF ClientTold, FollowerTold
<1> QED BY <1>1, <1>2, <1>4, <1>5 DEF ClientTold

(* News of the weather concern neither the party nor who is in sight.          *)
LEMMA WeatherNewsOnly ==
    ASSUME WeatherTypes, NEW d \in Clients, NEW m \in Impositions,
           news'[d] = Append(news[d], m)
    PROVE  /\ \A K : K \cap Impositions = {} => SameOn(news[d], news'[d], K)
           /\ \A G : Latest(news'[d], Impositions, G) <=> m \in G
<1>1. m \in WeatherNews /\ news[d] \in Seq(WeatherNews)
  BY DEF Impositions, WeatherTypes
<1> QED BY <1>1, CarriesMore

(* The weather is no news of the party or of a character.                    *)
LEMMA OtherKinds ==
    /\ Impositions \cap Comings = {} /\ Impositions \cap Roles = {}
    /\ \A l : Upsets(l) \cap Impositions = {}
    /\ \A d : Glimpses(d) \cap Impositions = {} /\ Arrivals(d) \cap Impositions = {}
BY DEF Impositions, Comings, Joinings, Leavings, Roles, Upsets, Glimpses, Arrivals

(* What the server sends of the weather is the weather of the cache.           *)
LEMMA WeatherPosted ==
    ASSUME WeatherTypes, NEW d \in Clients, ClientTold(d), NEW m \in ImpositionsOf(cachedWeather'),
           UNCHANGED <<members, leader, place>>,
           role'[d] = role[d], inView'[d] = inView[d], cachedWeatherId'[d] = cachedWeatherId[d],
           d \in unasked' <=> d \in unasked, overruled => overruled',
           news'[d] = Append(news[d], m)
    PROVE  /\ MemberTold(d)' /\ FollowerTold(d)' /\ SightTold(d)'
           /\ Abreast(d)' => Abreast(d)
<1>1. /\ m \in Impositions
      /\ SameOn(news[d], news'[d], Comings) /\ SameOn(news[d], news'[d], Roles)
      /\ \A l : SameOn(news[d], news'[d], Upsets(l))
      /\ \A e : SameOn(news[d], news'[d], Glimpses(e)) /\ SameOn(news[d], news'[d], Arrivals(e))
      /\ Latest(news'[d], Impositions, ImpositionsOf(cachedWeather'))
  <2>1. m \in Impositions
    BY DEF ImpositionsOf
  <2> QED BY <2>1, WeatherNewsOnly, OtherKinds
<1>2. MemberTold(d)'
  BY <1>1 DEF ClientTold, MemberTold, SameOn, RoleOf
<1>3. SightTold(d)'
  BY <1>1 DEF ClientTold, SightTold, ViewTold, SameOn
<1>4. Abreast(d)' => Abreast(d)
  BY <1>1 DEF Abreast, Steady, RoleOf, SameOn
<1>5. FollowerTold(d)'
  BY <1>1 DEF FollowerTold
<1> QED BY <1>2, <1>3, <1>4, <1>5

(* What clients ask and tell of the weather.                                 *)
LEMMA QueryKinds ==
    /\ \A m \in WeatherQueries :
          \/ m.type = "ask" /\ m \in Demands /\ m \notin Turns
          \/ /\ m.type = "change" /\ m.id \in Weathers /\ m \in Turns /\ m \notin Demands
             /\ \A w : m \in TurnsTo(w) <=> m.id = w
    /\ \A w \in Weathers : [type |-> "change", id |-> w] \in WeatherQueries
    /\ [type |-> "ask"] \in WeatherQueries
    /\ \A w \in Weathers \cup {NoWeather} :
          [type |-> "weather", id |-> w] \in WeatherNews /\ [type |-> "weather", id |-> w] \in ImpositionsOf(w)
BY DEF WeatherQueries, Demands, Turns, TurnsTo, WeatherNews, Impositions, ImpositionsOf

(* OnWeatherChange of the server caches and passes on the weather of a       *)
(* leader; if it is that of somebody else, WeatherAgrees makes an exception. *)
LEMMA WeatherChangeKeepsTold ==
    ASSUME WeatherInv, NEW c \in Clients, OnWeatherChange(c)
    PROVE  WeatherInv'
<1> DEFINE m == Head(queries[c])
           change == [type |-> "weather", id |-> m.id]
           near == {d \in members \ {c} : place[d] = place[c]}
<1>1. /\ WeatherTypes
      /\ queries[c] # <<>> /\ m.type = "change" /\ queries' = Read(queries, c)
      /\ UNCHANGED <<members, leader, role, place, sky, cachedWeatherId, inView, turns, unasked>>
      /\ overruled' = (overruled \/ c \in Followers)
  BY DEF WeatherInv, OnWeatherChange, Handles
<1>2. IF c \notin members THEN UNCHANGED <<cachedWeather, news>>
      ELSE cachedWeather' = m.id /\ news' = Posted(news, near, change)
  BY DEF OnWeatherChange
<1>3. /\ queries[c] \in Seq(WeatherQueries) /\ m \in WeatherQueries
      /\ queries' \in [Clients -> Seq(WeatherQueries)] /\ queries'[c] = Tail(queries[c])
      /\ \A d \in Clients : d # c => queries'[d] = queries[d]
  <2>1. queries \in [Clients -> Seq(WeatherQueries)]
    BY <1>1 DEF WeatherTypes
  <2> QED BY <1>1, <2>1, ReadQueues
<1> HIDE DEF m
<1>4. /\ m.id \in Weathers /\ m \in Turns /\ m \notin Demands
      /\ \A w : m \in TurnsTo(w) <=> m.id = w
      /\ change \in WeatherNews /\ change \in ImpositionsOf(m.id)
  BY <1>1, <1>3, QueryKinds
<1> HIDE DEF change, near
<1>5. /\ news \in [Clients -> Seq(WeatherNews)] /\ news' \in [Clients -> Seq(WeatherNews)]
      /\ \A d \in Clients : news'[d] = IF c \in members /\ d \in near
                                       THEN Append(news[d], change) ELSE news[d]
  <2>1. news \in [Clients -> Seq(WeatherNews)]
    BY <1>1 DEF WeatherTypes
  <2>2. CASE c \notin members
    BY <1>2, <2>1, <2>2
  <2>3. CASE c \in members
    <3>1. news' \in [Clients -> Seq(WeatherNews)]
      BY <1>2, <1>4, <2>1, <2>3, PostedQueues
    <3> QED BY <1>2, <2>1, <2>3, <3>1 DEF Posted
  <2> QED BY <2>2, <2>3
<1>6. WeatherTypes'
  <2>1. cachedWeather' \in Weathers \cup {NoWeather} /\ overruled' \in BOOLEAN
    BY <1>1, <1>2, <1>4 DEF WeatherTypes
  <2> QED BY <1>1, <1>3, <1>5, <2>1 DEF WeatherTypes, WeatherTypeOK
<1>7. ASSUME NEW d \in Clients PROVE ClientTold(d)'
  <2>1. ClientTold(d)
    BY DEF WeatherInv
  <2>2. /\ queries[c] # <<>> /\ queries[c] \in Seq(WeatherQueries)
        /\ SameOn(queries[c], queries'[c], Demands)
        /\ \A w : Latest(queries[c], Turns, TurnsTo(w)) <=>
              IF Carries(queries'[c], Turns) THEN Latest(queries'[c], Turns, TurnsTo(w)) ELSE m.id = w
        /\ Carries(queries[c], Turns)
    BY <1>1, <1>3, <1>4, CarriesLess DEF m
  <2>3. CASE c \notin members
    <3>1. /\ news' = news /\ cachedWeather' = cachedWeather /\ (overruled' <=> overruled)
      BY <1>1, <1>2, <2>3 DEF Followers
    <3>2. CASE d # c
      BY <1>1, <1>3, <2>1, <3>1, <3>2, Undisturbed
    <3>3. CASE d = c
      <4>1. ~Abreast(d)'
        BY <1>1, <2>3, <3>3 DEF Abreast, Steady
      <4>2. MemberTold(d)' /\ SightTold(d)'
        BY <1>1, <2>1, <2>3, <3>1, <3>3 DEF ClientTold, MemberTold, SightTold, ViewTold
      <4> QED BY <4>1, <4>2 DEF ClientTold, LeaderTells, FollowerTold
    <3> QED BY <3>2, <3>3
  <2>4. CASE c \in members /\ c # leader
    <3>1. overruled' = TRUE
      BY <1>1, <2>4 DEF Followers
    <3>2. LeaderTells(d)' /\ FollowerTold(d)'
      BY <3>1 DEF LeaderTells, FollowerTold, Abreast
    <3>3. MemberTold(d)' /\ SightTold(d)'
      <4>1. CASE news'[d] = news[d]
        BY <1>1, <2>1, <4>1 DEF ClientTold, MemberTold, SightTold, ViewTold, RoleOf
      <4>2. CASE news'[d] = Append(news[d], change)
        <5>1. change \in ImpositionsOf(cachedWeather') /\ (overruled => overruled')
          BY <1>2, <1>4, <2>4, <3>1
        <5> QED BY <1>1, <2>1, <4>2, <5>1, WeatherPosted
      <4> QED BY <1>5, <4>1, <4>2
    <3> QED BY <3>2, <3>3 DEF ClientTold
  <2>5. CASE c \in members /\ c = leader
    <3>1. cachedWeather' = m.id /\ (overruled' <=> overruled)
      BY <1>1, <1>2, <2>5 DEF Followers
    <3>2. CASE d = c
      <4>1. news'[d] = news[d]
        BY <1>5, <3>2 DEF near
      <4>2. Abreast(d)' => Abreast(d)
        BY <1>1, <3>1, <4>1 DEF Abreast, Steady, RoleOf
      <4>3. MemberTold(d)' /\ SightTold(d)'
        BY <1>1, <2>1, <4>1 DEF ClientTold, MemberTold, SightTold, ViewTold, RoleOf
      <4>4. FollowerTold(d)'
        BY <1>1, <2>5, <3>2 DEF FollowerTold
      <4>5. LeaderTells(d)'
        <5> SUFFICES ASSUME Abreast(d), cachedWeatherId[d] \in Weathers
                     PROVE  \/ Latest(queries'[d], Turns, TurnsTo(cachedWeatherId[d]))
                            \/ ~Carries(queries'[d], Turns) /\ cachedWeather' = cachedWeatherId[d]
          BY <1>1, <4>2 DEF LeaderTells
        <5>1. Latest(queries[c], Turns, TurnsTo(cachedWeatherId[c]))
          BY <2>1, <2>2, <2>5, <3>2 DEF ClientTold, LeaderTells
        <5> QED BY <2>2, <3>1, <3>2, <5>1
      <4> QED BY <4>3, <4>4, <4>5 DEF ClientTold
    <3>3. CASE d # c /\ d \in near
      <4>1. news'[d] = Append(news[d], change) /\ change \in ImpositionsOf(cachedWeather')
        BY <1>4, <1>5, <2>5, <3>1, <3>3
      <4>2. MemberTold(d)' /\ FollowerTold(d)' /\ SightTold(d)'
        BY <1>1, <2>1, <3>1, <4>1, WeatherPosted
      <4>3. LeaderTells(d)'
        BY <1>1, <2>5, <3>3 DEF LeaderTells
      <4> QED BY <4>2, <4>3 DEF ClientTold
    <3>4. CASE d # c /\ d \notin near
      <4>1. news'[d] = news[d]
        BY <1>5, <3>4
      <4>2. MemberTold(d)' /\ SightTold(d)'
        BY <1>1, <2>1, <4>1 DEF ClientTold, MemberTold, SightTold, ViewTold, RoleOf
      <4>3. LeaderTells(d)'
        BY <1>1, <2>5, <3>4 DEF LeaderTells
      <4>4. d \notin members \/ place[d] # place[leader]
        BY <2>5, <3>4 DEF near
      <4>5. FollowerTold(d)'
        BY <1>1, <4>4 DEF FollowerTold, Abreast, Steady
      <4> QED BY <4>2, <4>3, <4>5 DEF ClientTold
    <3> QED BY <3>2, <3>3, <3>4
  <2> QED BY <2>3, <2>4, <2>5
<1> QED BY <1>6, <1>7 DEF WeatherInv

(* OnRequestCurrentWeather answers with the weather of the cache.            *)
LEMMA WeatherRequestKeepsTold ==
    ASSUME WeatherInv, NEW c \in Clients, OnRequestCurrentWeather(c)
    PROVE  WeatherInv'
<1> DEFINE m == Head(queries[c])
           answer == [type |-> "weather", id |-> cachedWeather]
<1>1. /\ WeatherTypes /\ ClientTold(c)
      /\ queries[c] # <<>> /\ m.type = "ask" /\ queries' = Read(queries, c)
      /\ UNCHANGED <<members, leader, role, place, sky, cachedWeatherId, inView, turns, unasked,
                     overruled, cachedWeather>>
      /\ news' = IF c \in members THEN Posted(news, {c}, answer) ELSE news
  BY DEF WeatherInv, OnRequestCurrentWeather, Handles
<1>2. /\ queries[c] \in Seq(WeatherQueries) /\ m \in WeatherQueries
      /\ queries' \in [Clients -> Seq(WeatherQueries)] /\ queries'[c] = Tail(queries[c])
      /\ \A d \in Clients : d # c => queries'[d] = queries[d]
  <2>1. queries \in [Clients -> Seq(WeatherQueries)]
    BY <1>1 DEF WeatherTypes
  <2> QED BY <1>1, <2>1, ReadQueues
<1> HIDE DEF m
<1>3. /\ m \in Demands /\ m \notin Turns
      /\ answer \in WeatherNews /\ answer \in ImpositionsOf(cachedWeather)
  BY <1>1, <1>2, QueryKinds DEF WeatherTypes
<1> HIDE DEF answer
<1>4. /\ news \in [Clients -> Seq(WeatherNews)] /\ news' \in [Clients -> Seq(WeatherNews)]
      /\ \A d \in Clients : news'[d] = IF c \in members /\ d = c
                                       THEN Append(news[d], answer) ELSE news[d]
  <2>1. news \in [Clients -> Seq(WeatherNews)]
    BY <1>1 DEF WeatherTypes
  <2>2. CASE c \notin members
    BY <1>1, <2>1, <2>2
  <2>3. CASE c \in members
    <3>1. news' \in [Clients -> Seq(WeatherNews)]
      BY <1>1, <1>3, <2>1, <2>3, PostedQueues
    <3> QED BY <1>1, <2>1, <2>3, <3>1 DEF Posted
  <2> QED BY <2>2, <2>3
<1>5. WeatherTypes'
  BY <1>1, <1>2, <1>4 DEF WeatherTypes, WeatherTypeOK
<1>6. ASSUME NEW d \in Clients, d # c PROVE ClientTold(d)'
  <2>1. ClientTold(d) /\ news'[d] = news[d] /\ queries'[d] = queries[d]
    BY <1>2, <1>4, <1>6 DEF WeatherInv
  <2> QED BY <1>1, <2>1, Undisturbed
<1>7. ClientTold(c)'
  <2>1. CASE c \notin members
    <3>1. ~Abreast(c)' /\ news'[c] = news[c]
      BY <1>1, <1>4, <2>1 DEF Abreast, Steady
    <3>2. MemberTold(c)' /\ SightTold(c)'
      BY <1>1, <2>1, <3>1 DEF ClientTold, MemberTold, SightTold, ViewTold
    <3> QED BY <3>1, <3>2 DEF ClientTold, LeaderTells, FollowerTold
  <2>2. CASE c \in members
    <3>1. news'[c] = Append(news[c], answer) /\ answer \in ImpositionsOf(cachedWeather')
      BY <1>1, <1>3, <1>4, <2>2
    <3>2. /\ MemberTold(c)' /\ FollowerTold(c)' /\ SightTold(c)'
          /\ Abreast(c)' => Abreast(c)
      BY <1>1, <3>1, WeatherPosted
    <3>3. SameOn(queries[c], queries'[c], Turns)
      BY <1>1, <1>2, <1>3, CarriesLess DEF m
    <3>4. LeaderTells(c)'
      BY <1>1, <3>2, <3>3 DEF ClientTold, LeaderTells, SameOn
    <3> QED BY <3>2, <3>4 DEF ClientTold
  <2> QED BY <2>1, <2>2
<1> QED BY <1>5, <1>6, <1>7 DEF WeatherInv

(* What a client asks for or tells.                                            *)
LEMMA Asked ==
    ASSUME WeatherTypes, NEW c \in Clients, NEW m \in WeatherQueries
    PROVE  /\ Asks(c, <<m>>) => /\ queries' \in [Clients -> Seq(WeatherQueries)]
                                /\ queries'[c] = Append(queries[c], m)
                                /\ \A d \in Clients \ {c} : queries'[d] = queries[d]
           /\ Asks(c, <<>>) => queries' = queries
<1>1. queries \in [Clients -> Seq(WeatherQueries)] /\ queries[c] \in Seq(WeatherQueries)
  BY DEF WeatherTypes
<1>2. /\ queries[c] \o <<m>> = Append(queries[c], m) /\ queries[c] \o <<>> = queries[c]
      /\ Append(queries[c], m) \in Seq(WeatherQueries)
  BY <1>1, AppendIsConcat, ConcatEmptySeq, AppendProperties
<1>3. Asks(c, <<m>>) => queries' = [queries EXCEPT ![c] = Append(queries[c], m)]
  BY <1>1, <1>2 DEF Asks
<1>4. Asks(c, <<>>) => queries' = [queries EXCEPT ![c] = queries[c]]
  BY <1>1, <1>2 DEF Asks
<1> QED BY <1>1, <1>2, <1>3, <1>4

(* RunWeatherUpdates tells the weather of a leader, and sets that of a       *)
(* follower.                                                                 *)
LEMMA WeatherUpdateKeepsTold ==
    ASSUME WeatherInv, NEW c \in Clients, RunWeatherUpdates(c)
    PROVE  WeatherInv'
<1>1. /\ WeatherTypes /\ ClientTold(c) /\ sky[c] # MapWeather
      /\ UNCHANGED <<members, leader, role, news, cachedWeather, place, inView, turns, overruled>>
      /\ sky[c] \in AllWeathers
  BY DEF WeatherInv, RunWeatherUpdates, WeatherTypes, WeatherTypeOK, AllWeathers
<1>2. CASE role[c] # "leader"
  <2>1. /\ UNCHANGED <<cachedWeatherId, queries, unasked>>
        /\ sky' = IF cachedWeatherId[c] = NoWeather THEN sky
                  ELSE [sky EXCEPT ![c] = cachedWeatherId[c]]
    BY <1>2 DEF RunWeatherUpdates, SetCachedWeather
  <2>2. WeatherTypes'
    BY <1>1, <2>1 DEF WeatherTypes, WeatherTypeOK
  <2>3. \A d \in Clients : ClientTold(d)'
    BY <1>1, <2>1, Undisturbed DEF WeatherInv
  <2> QED BY <2>2, <2>3 DEF WeatherInv
<1>3. CASE role[c] = "leader"
  <2> DEFINE m == [type |-> "change", id |-> sky[c]]
  <2>1. /\ cachedWeatherId' = [cachedWeatherId EXCEPT ![c] = sky[c]]
        /\ Asks(c, IF sky[c] = NoWeather THEN <<>> ELSE <<m>>)
        /\ unasked' = unasked \ {c} /\ sky' = sky
    BY <1>3 DEF RunWeatherUpdates
  <2>2. sky[c] # NoWeather => sky[c] \in Weathers /\ m \in WeatherQueries
    BY <1>1, QueryKinds DEF AllWeathers
  <2>3. /\ queries' \in [Clients -> Seq(WeatherQueries)]
        /\ \A d \in Clients \ {c} : queries'[d] = queries[d]
        /\ sky[c] # NoWeather => queries'[c] = Append(queries[c], m)
    <3>1. queries \in [Clients -> Seq(WeatherQueries)]
      BY <1>1 DEF WeatherTypes
    <3>2. CASE sky[c] = NoWeather
      <4>1. Asks(c, <<>>) /\ [type |-> "ask"] \in WeatherQueries
        BY <2>1, <3>2, QueryKinds
      <4> QED BY <1>1, <3>1, <3>2, <4>1, Asked
    <3>3. CASE sky[c] # NoWeather
      <4>1. Asks(c, <<m>>) /\ m \in WeatherQueries
        BY <2>1, <2>2, <3>3
      <4> HIDE DEF m
      <4> QED BY <1>1, <4>1, Asked
    <3> QED BY <3>2, <3>3
  <2>4. cachedWeatherId \in [Clients -> AllWeathers]
    BY <1>1 DEF WeatherTypes, WeatherTypeOK, AllWeathers
  <2>5. /\ cachedWeatherId' \in [Clients -> AllWeathers] /\ cachedWeatherId'[c] = sky[c]
        /\ \A d \in Clients \ {c} : cachedWeatherId'[d] = cachedWeatherId[d]
    BY <1>1, <2>1, <2>4
  <2>6. WeatherTypes'
    BY <1>1, <2>1, <2>3, <2>5 DEF WeatherTypes, WeatherTypeOK, AllWeathers
  <2>7. ASSUME NEW d \in Clients, d # c PROVE ClientTold(d)'
    <3>1. /\ ClientTold(d) /\ queries'[d] = queries[d] /\ cachedWeatherId'[d] = cachedWeatherId[d]
          /\ d \in unasked' <=> d \in unasked
      BY <2>1, <2>3, <2>5, <2>7 DEF WeatherInv
    <3> QED BY <1>1, <3>1, Undisturbed
  <2>8. ClientTold(c)'
    <3>1. MemberTold(c)' /\ SightTold(c)'
      BY <1>1 DEF ClientTold, MemberTold, SightTold, ViewTold, RoleOf
    <3>2. FollowerTold(c)'
      <4> SUFFICES ASSUME c # leader, c \in members PROVE role[c] # RoleOf(c)
        BY <1>1 DEF FollowerTold, Abreast, Steady, RoleOf
      <4>1. leader \in Clients
        BY <1>1 DEF WeatherTypes, WeatherTypeOK
      <4> QED BY <1>3, <4>1, WeatherAssumption DEF RoleOf
    <3>3. LeaderTells(c)'
      <4> SUFFICES ASSUME sky[c] \in Weathers
                   PROVE  Latest(queries'[c], Turns, TurnsTo(sky[c]))
        BY <2>5 DEF LeaderTells
      <4>1. sky[c] # NoWeather
        BY WeatherAssumption
      <4>2. m \in WeatherQueries /\ m \in Turns /\ m \in TurnsTo(sky[c])
        BY <2>2, <4>1 DEF Turns, TurnsTo
      <4>3. queries'[c] = Append(queries[c], m) /\ queries[c] \in Seq(WeatherQueries)
        BY <1>1, <2>3, <4>1 DEF WeatherTypes
      <4> HIDE DEF m
      <4> QED BY <4>2, <4>3, CarriesMore
    <3> QED BY <3>1, <3>2, <3>3 DEF ClientTold
  <2> QED BY <2>6, <2>7, <2>8 DEF WeatherInv
<1> QED BY <1>2, <1>3

(* The engine changes a sky, which nobody is told of yet.                    *)
LEMMA SkyTurnKeepsTold ==
    ASSUME WeatherInv, NEW c \in Clients, NEW w \in AllWeathers, SkyTurns(c, w)
    PROVE  WeatherInv'
<1>1. /\ WeatherTypes /\ sky' = [sky EXCEPT ![c] = w]
      /\ UNCHANGED <<companionVars, cachedWeather, place, cachedWeatherId, inView, unasked, overruled>>
  BY DEF WeatherInv, SkyTurns
<1>2. UNCHANGED <<members, leader, role, queries, news>>
  BY <1>1 DEF companionVars
<1>3. WeatherTypes'
  BY <1>1, <1>2 DEF WeatherTypes, WeatherTypeOK, AllWeathers
<1>4. \A d \in Clients : ClientTold(d)'
  BY <1>1, <1>2, Undisturbed DEF WeatherInv
<1> QED BY <1>3, <1>4 DEF WeatherInv

Sightings == {m \in WeatherNews : m.type \in {"appear", "vanish"}}

\* The characters S appear or vanish
Sighted(type, S) == {[type |-> type, who |-> e] : e \in S}

(* Finitely many players are news of finitely many.                          *)
LEMMA SightedFinite ==
    ASSUME NEW S, IsFiniteSet(S), NEW type
    PROVE  IsFiniteSet(Sighted(type, S))
<1> DEFINE f == [e \in S |-> [type |-> type, who |-> e]]
<1>1. f \in Surjection(S, Sighted(type, S))
  BY DEF Surjection, Sighted
<1> QED BY <1>1, FS_Surjection

(* What a player who travels is told.                                          *)
LEMMA SightsOnTheWay ==
    ASSUME NEW gone \in SUBSET Clients, NEW come \in SUBSET Clients, gone \cap come = {}
    PROVE  LET u == SetToSeq(Sighted("vanish", gone)) \o SetToSeq(Sighted("appear", come)) IN
           /\ u \in Seq(Sightings)
           /\ \A K : K \cap Sightings = {} => ~Carries(u, K)
           /\ \A e \in come : Latest(u, Glimpses(e), Arrivals(e)) /\ Carries(u, Arrivals(e))
           /\ \A e \in gone : Carries(u, Glimpses(e)) /\ ~Latest(u, Glimpses(e), Arrivals(e))
           /\ \A e \in Clients : e \notin gone \cup come => ~Carries(u, Glimpses(e))
<1> DEFINE A == Sighted("vanish", gone)
           B == Sighted("appear", come)
           s == SetToSeq(A)
           t == SetToSeq(B)
           u == s \o t
<1>1. IsFiniteSet(gone) /\ IsFiniteSet(come)
  BY WeatherAssumption, FS_Subset
<1>2. IsFiniteSet(A) /\ IsFiniteSet(B)
  BY <1>1, SightedFinite
<1>3. A \subseteq Sightings /\ B \subseteq Sightings
  BY DEF Sightings, Sighted, WeatherNews
<1>4. /\ \A e \in Clients : A \cap Glimpses(e) =
            IF e \in gone THEN {[type |-> "vanish", who |-> e]} ELSE {}
      /\ \A e \in Clients : B \cap Glimpses(e) =
            IF e \in come THEN {[type |-> "appear", who |-> e]} ELSE {}
      /\ \A e \in come : B \cap Arrivals(e) # {}
  <2>1. \A e \in Clients : A \cap Glimpses(e) =
            IF e \in gone THEN {[type |-> "vanish", who |-> e]} ELSE {}
    BY DEF Sighted, Glimpses, WeatherNews
  <2>2. \A e \in Clients : B \cap Glimpses(e) =
            IF e \in come THEN {[type |-> "appear", who |-> e]} ELSE {}
    BY DEF Sighted, Glimpses, WeatherNews
  <2>3. ASSUME NEW e \in come PROVE B \cap Arrivals(e) # {}
    <3>1. [type |-> "appear", who |-> e] \in B
      BY DEF Sighted
    <3>2. [type |-> "appear", who |-> e] \in Arrivals(e)
      BY DEF Arrivals, WeatherNews
    <3> QED BY <3>1, <3>2
  <2> QED BY <2>1, <2>2, <2>3
<1>5. /\ \A e \in Clients : [type |-> "vanish", who |-> e] \notin Arrivals(e)
      /\ \A e \in Clients : [type |-> "appear", who |-> e] \in Arrivals(e)
  BY DEF Arrivals, WeatherNews
<1> HIDE DEF A, B
<1>6. /\ s \in Seq(A) /\ t \in Seq(B)
      /\ \A K : Carries(s, K) <=> A \cap K # {}
      /\ \A K : Carries(t, K) <=> B \cap K # {}
      /\ \A K, G, m : A \cap K = {m} => (Latest(s, K, G) <=> m \in G)
      /\ \A K, G, m : B \cap K = {m} => (Latest(t, K, G) <=> m \in G)
  BY <1>2, CarriesSet
<1>7. s \in Seq(Sightings) /\ t \in Seq(Sightings)
  BY <1>3, <1>6, SeqDef
<1> HIDE DEF s, t
<1>8. /\ u \in Seq(Sightings)
      /\ \A K : Carries(u, K) <=> Carries(s, K) \/ Carries(t, K)
      /\ \A K, G : Latest(u, K, G) <=>
            IF Carries(t, K) THEN Latest(t, K, G) ELSE Latest(s, K, G)
  BY <1>7, CarriesBoth, ConcatProperties
<1> HIDE DEF u
<1>9. ASSUME NEW K, K \cap Sightings = {} PROVE ~Carries(u, K)
  BY <1>3, <1>6, <1>8, <1>9
<1>10. ASSUME NEW e \in come PROVE Latest(u, Glimpses(e), Arrivals(e)) /\ Carries(u, Arrivals(e))
  <2>1. B \cap Glimpses(e) = {[type |-> "appear", who |-> e]} /\ B \cap Arrivals(e) # {}
    BY <1>4
  <2>2. B \cap Glimpses(e) # {} /\ [type |-> "appear", who |-> e] \in Arrivals(e)
    BY <1>5, <2>1
  <2>3. Latest(t, Glimpses(e), Arrivals(e))
    BY <1>6, <2>1, <2>2
  <2>4. Carries(t, Glimpses(e)) /\ Carries(t, Arrivals(e))
    BY <1>6, <2>1, <2>2
  <2> QED BY <1>8, <2>3, <2>4
<1>11. ASSUME NEW e \in gone PROVE Carries(u, Glimpses(e)) /\ ~Latest(u, Glimpses(e), Arrivals(e))
  <2>1. A \cap Glimpses(e) = {[type |-> "vanish", who |-> e]} /\ B \cap Glimpses(e) = {}
    BY <1>4
  <2>2. A \cap Glimpses(e) # {} /\ [type |-> "vanish", who |-> e] \notin Arrivals(e)
    BY <1>5, <2>1
  <2>3. ~Latest(s, Glimpses(e), Arrivals(e))
    BY <1>6, <2>1, <2>2
  <2>4. ~Carries(t, Glimpses(e)) /\ Carries(s, Glimpses(e))
    BY <1>6, <2>1, <2>2
  <2> QED BY <1>8, <2>3, <2>4
<1>12. ASSUME NEW e \in Clients, e \notin gone \cup come PROVE ~Carries(u, Glimpses(e))
  BY <1>4, <1>6, <1>8, <1>12
<1> QED BY <1>8, <1>9, <1>10, <1>11, <1>12 DEF A, B, s, t, u

(* That a character appears or vanishes is no news of the party or of the    *)
(* weather.                                                                  *)
LEMMA SightingKinds ==
    /\ Sightings \cap Comings = {} /\ Sightings \cap Roles = {} /\ Sightings \cap Impositions = {}
    /\ \A l : Upsets(l) \cap Sightings = {}
    /\ \A K : K \cap Sightings = {} <=> Sightings \cap K = {}
    /\ Sightings \subseteq WeatherNews
BY DEF Sightings, Impositions, Comings, Joinings, Leavings, Roles, Upsets

(* A player goes to another place, and it and those at both places are told  *)
(* (OnCharacterInteriorCellChange).                                          *)
LEMMA TravelKeepsTold ==
    ASSUME WeatherInv, NEW c \in Clients, NEW p \in Places, Travels(c, p)
    PROVE  WeatherInv'
<1> DEFINE gone == {d \in Clients \ {c} : place[d] = place[c]}
           come == {d \in Clients \ {c} : place[d] = p}
           u == SetToSeq(Sighted("vanish", gone)) \o SetToSeq(Sighted("appear", come))
           a == [type |-> "appear", who |-> c]
           v == [type |-> "vanish", who |-> c]
<1>1. /\ WeatherTypes /\ place[c] # p /\ place' = [place EXCEPT ![c] = p]
      /\ UNCHANGED <<members, leader, role, queries, cachedWeather, sky,
                     cachedWeatherId, inView, turns, unasked, overruled>>
      /\ place \in [Clients -> Places] /\ news \in [Clients -> Seq(WeatherNews)]
  BY DEF WeatherInv, Travels, WeatherTypes
<1>2. place' \in [Clients -> Places] /\ place'[c] = p /\ \A d \in Clients \ {c} : place'[d] = place[d]
  BY <1>1
<1>3. news' = [d \in Clients |->
         IF d = c
         THEN news[c] \o SetToSeq(Sighted("vanish", gone)) \o SetToSeq(Sighted("appear", come))
         ELSE news[d] \o (IF d \in come THEN <<a>> ELSE IF d \in gone THEN <<v>> ELSE <<>>)]
  BY DEF Travels, Sighted
<1>4. gone \in SUBSET Clients /\ come \in SUBSET Clients /\ gone \cap come = {} /\ c \notin gone \cup come
  BY <1>1
<1>5. /\ u \in Seq(Sightings)
      /\ \A K : K \cap Sightings = {} => ~Carries(u, K)
      /\ \A e \in come : Latest(u, Glimpses(e), Arrivals(e)) /\ Carries(u, Arrivals(e))
      /\ \A e \in gone : Carries(u, Glimpses(e)) /\ ~Latest(u, Glimpses(e), Arrivals(e))
      /\ \A e \in Clients : e \notin gone \cup come => ~Carries(u, Glimpses(e))
  BY <1>4, SightsOnTheWay
<1>6. u \in Seq(WeatherNews)
  BY <1>5, SightingKinds, SeqDef
<1>7. news[c] \o SetToSeq(Sighted("vanish", gone)) \o SetToSeq(Sighted("appear", come)) = news[c] \o u
  <2>1. IsFiniteSet(gone) /\ IsFiniteSet(come)
    BY <1>4, WeatherAssumption, FS_Subset
  <2>2. IsFiniteSet(Sighted("vanish", gone)) /\ IsFiniteSet(Sighted("appear", come))
    BY <2>1, SightedFinite
  <2>3. /\ Sighted("vanish", gone) \subseteq WeatherNews /\ Sighted("appear", come) \subseteq WeatherNews
    BY <1>4 DEF Sighted, WeatherNews
  <2>4. /\ SetToSeq(Sighted("vanish", gone)) \in Seq(WeatherNews)
        /\ SetToSeq(Sighted("appear", come)) \in Seq(WeatherNews)
    BY <2>2, <2>3, CarriesSet, SeqDef
  <2>5. news[c] \in Seq(WeatherNews)
    BY <1>1
  <2> DEFINE x == SetToSeq(Sighted("vanish", gone))
             y == SetToSeq(Sighted("appear", come))
             n == news[c]
  <2>6. x \in Seq(WeatherNews) /\ y \in Seq(WeatherNews) /\ n \in Seq(WeatherNews)
    BY <2>4, <2>5
  <2>7. u = x \o y
    OBVIOUS
  <2> HIDE DEF x, y, n, u
  <2>8. n \o x \o y = n \o u
    BY <2>6, <2>7, ConcatAssociative
  <2> QED BY <2>8 DEF x, y, n
<1>8. /\ a \in Sightings /\ a \in WeatherNews /\ a \in Glimpses(c) /\ a \in Arrivals(c)
      /\ v \in Sightings /\ v \in WeatherNews /\ v \in Glimpses(c) /\ v \notin Arrivals(c)
      /\ \A e : e # c => a \notin Glimpses(e) /\ v \notin Glimpses(e)
  BY DEF Sightings, Glimpses, Arrivals, WeatherNews
<1>9. \A d \in Clients :
         news'[d] = IF d = c THEN news[d] \o u
                    ELSE IF d \in come THEN Append(news[d], a)
                    ELSE IF d \in gone THEN Append(news[d], v) ELSE news[d]
  <2> TAKE d \in Clients
  <2>1. news[d] \in Seq(WeatherNews)
    BY <1>1
  <2>2. /\ news[d] \o <<a>> = Append(news[d], a) /\ news[d] \o <<v>> = Append(news[d], v)
        /\ news[d] \o <<>> = news[d]
    BY <1>8, <2>1, AppendIsConcat, ConcatEmptySeq
  <2>3. news'[d] = IF d = c
         THEN news[c] \o SetToSeq(Sighted("vanish", gone)) \o SetToSeq(Sighted("appear", come))
         ELSE news[d] \o (IF d \in come THEN <<a>> ELSE IF d \in gone THEN <<v>> ELSE <<>>)
    BY <1>3
  <2> HIDE DEF a, v, gone, come, u
  <2> QED BY <1>7, <2>2, <2>3
<1> HIDE DEF u, a, v
<1>10. /\ news' \in [Clients -> Seq(WeatherNews)]
       /\ \A d \in Clients : \A K : K \cap Sightings = {} => SameOn(news[d], news'[d], K)
       /\ \A d \in Clients : \A K : Carries(news[d], K) => Carries(news'[d], K)
  <2>1. ASSUME NEW d \in Clients
        PROVE  /\ news'[d] \in Seq(WeatherNews)
               /\ \A K : K \cap Sightings = {} => SameOn(news[d], news'[d], K)
               /\ \A K : Carries(news[d], K) => Carries(news'[d], K)
    <3>1. news[d] \in Seq(WeatherNews)
      BY <1>1
    <3>2. CASE d = c
      <4>1. news'[d] = news[d] \o u
        BY <1>9, <3>2
      <4>2. news'[d] \in Seq(WeatherNews)
        BY <1>6, <3>1, <4>1, ConcatProperties
      <4>3. \A K : /\ Carries(news[d], K) => Carries(news'[d], K)
                   /\ ~Carries(u, K) => SameOn(news[d], news'[d], K)
        BY <1>6, <3>1, <4>1, CarriesBoth
      <4> QED BY <1>5, <4>2, <4>3
    <3>3. CASE d # c /\ d \in come
      <4>1. news'[d] = Append(news[d], a)
        BY <1>9, <3>3
      <4> QED BY <1>8, <3>1, <4>1, CarriesMore, AppendProperties
    <3>4. CASE d # c /\ d \notin come /\ d \in gone
      <4>1. news'[d] = Append(news[d], v)
        BY <1>9, <3>4
      <4> QED BY <1>8, <3>1, <4>1, CarriesMore, AppendProperties
    <3>5. CASE d # c /\ d \notin come /\ d \notin gone
      BY <1>9, <3>1, <3>5, SameOnItself
    <3> QED BY <3>2, <3>3, <3>4, <3>5
  <2>2. news' = [d \in Clients |-> news'[d]]
    BY <1>3
  <2> QED BY <2>1, <2>2
<1>11. WeatherTypes'
  BY <1>1, <1>2, <1>10 DEF WeatherTypes, WeatherTypeOK
<1>12. ASSUME NEW d \in Clients PROVE ClientTold(d)'
  <2>1. ClientTold(d) /\ news[d] \in Seq(WeatherNews)
    BY <1>1 DEF WeatherInv
  <2>2. /\ SameOn(news[d], news'[d], Comings) /\ SameOn(news[d], news'[d], Roles)
        /\ SameOn(news[d], news'[d], Impositions)
        /\ \A l : SameOn(news[d], news'[d], Upsets(l))
    BY <1>10, SightingKinds
  <2>3. MemberTold(d)'
    BY <1>1, <2>1, <2>2 DEF ClientTold, MemberTold, SameOn, RoleOf
  <2>4. Abreast(d)' => Abreast(d)
    BY <1>1, <2>2 DEF Abreast, Steady, RoleOf, SameOn
  <2>5. LeaderTells(d)'
    BY <1>1, <2>1, <2>4 DEF ClientTold, LeaderTells
  <2>6. ASSUME NEW e \in Clients \ {d} PROVE ViewTold(d, e)'
    <3>1. CASE d = c
      <4>1. \A K, G : Latest(news'[d], K, G) <=>
               IF Carries(u, K) THEN Latest(u, K, G) ELSE Latest(news[d], K, G)
        BY <1>6, <1>9, <2>1, <3>1, CarriesBoth
      <4>2. \A K : Carries(news'[d], K) <=> Carries(news[d], K) \/ Carries(u, K)
        BY <1>6, <1>9, <2>1, <3>1, CarriesBoth
      <4>3. CASE e \in come
        <5>1. Latest(news'[d], Glimpses(e), Arrivals(e))
          BY <1>5, <4>1, <4>3, LatestIsCarried
        <5> QED BY <1>1, <1>2, <2>6, <3>1, <4>3, <5>1 DEF ViewTold
      <4>4. CASE e \in gone
        <5>1. ~Latest(news'[d], Glimpses(e), Arrivals(e)) /\ Carries(news'[d], Glimpses(e))
          BY <1>5, <4>1, <4>2, <4>4
        <5> QED BY <1>1, <1>2, <2>6, <3>1, <4>4, <5>1 DEF ViewTold
      <4>5. CASE e \notin gone \cup come
        <5>1. /\ Latest(news'[d], Glimpses(e), Arrivals(e)) <=> Latest(news[d], Glimpses(e), Arrivals(e))
              /\ Carries(news'[d], Glimpses(e)) <=> Carries(news[d], Glimpses(e))
          BY <1>5, <4>1, <4>2, <4>5
        <5>2. place'[d] # place'[e] /\ place[d] # place[e]
          BY <1>2, <2>6, <3>1, <4>5
        <5> QED BY <1>1, <2>1, <5>1, <5>2 DEF ClientTold, SightTold, ViewTold
      <4> QED BY <4>3, <4>4, <4>5
    <3>2. CASE d # c /\ e # c
      <4>1. SameOn(news[d], news'[d], Glimpses(e))
        <5>1. CASE d \in come
          <6>1. news'[d] = Append(news[d], a)
            BY <1>9, <3>2, <5>1
          <6> QED BY <1>8, <2>1, <3>2, <6>1, CarriesMore
        <5>2. CASE d \notin come /\ d \in gone
          <6>1. news'[d] = Append(news[d], v)
            BY <1>9, <3>2, <5>2
          <6> QED BY <1>8, <2>1, <3>2, <6>1, CarriesMore
        <5>3. CASE d \notin come /\ d \notin gone
          BY <1>9, <3>2, <5>3, SameOnItself
        <5> QED BY <5>1, <5>2, <5>3
      <4>2. place'[d] = place[d] /\ place'[e] = place[e]
        BY <1>2, <3>2
      <4> QED BY <1>1, <2>1, <4>1, <4>2 DEF ClientTold, SightTold, ViewTold, SameOn
    <3>3. CASE d # c /\ e = c
      <4>1. CASE d \in come
        <5>1. news'[d] = Append(news[d], a)
          BY <1>9, <3>3, <4>1
        <5>2. Latest(news'[d], Glimpses(e), Arrivals(e))
          BY <1>8, <2>1, <3>3, <5>1, CarriesMore
        <5>3. place'[d] = place'[e]
          BY <1>2, <3>3, <4>1
        <5> QED BY <5>2, <5>3 DEF ViewTold
      <4>2. CASE d \notin come /\ d \in gone
        <5>1. news'[d] = Append(news[d], v)
          BY <1>9, <3>3, <4>2
        <5>2. ~Latest(news'[d], Glimpses(e), Arrivals(e)) /\ Carries(news'[d], Glimpses(e))
          BY <1>8, <2>1, <3>3, <5>1, CarriesMore
        <5>3. place'[d] # place'[e]
          BY <1>1, <1>2, <3>3, <4>2
        <5> QED BY <5>2, <5>3 DEF ViewTold
      <4>3. CASE d \notin come /\ d \notin gone
        <5>1. news'[d] = news[d] /\ place'[d] # place'[e] /\ place[d] # place[e]
          BY <1>2, <1>9, <3>3, <4>3
        <5> QED BY <1>1, <2>1, <5>1 DEF ClientTold, SightTold, ViewTold
      <4> QED BY <4>1, <4>2, <4>3
    <3> QED BY <3>1, <3>2, <3>3
  <2>7. FollowerTold(d)'
    <3> SUFFICES ASSUME d # leader, Abreast(d), place'[d] = place'[leader]
                 PROVE  FollowerTold(d)'
      BY <1>1, <2>4 DEF FollowerTold
    <3>1. leader \in Clients
      BY <1>1 DEF Abreast, Steady, WeatherTypes, WeatherTypeOK
    <3>2. CASE place[d] = place[leader]
      <4>1. Carries(news[d], Arrivals(leader)) => Carries(news'[d], Arrivals(leader))
        BY <1>10
      <4> QED BY <1>1, <2>1, <2>2, <3>2, <4>1 DEF ClientTold, FollowerTold, SameOn
    <3>3. CASE place[d] # place[leader]
      <4>1. Carries(news'[d], Arrivals(leader))
        <5>1. CASE d = c
          <6>1. leader \in come
            BY <1>2, <3>1, <5>1
          <6>2. Carries(u, Arrivals(leader))
            BY <1>5, <6>1
          <6> QED BY <1>6, <1>9, <2>1, <5>1, <6>2, CarriesBoth
        <5>2. CASE leader = c
          <6>1. d \in come
            BY <1>2, <3>1, <5>2
          <6>2. news'[d] = Append(news[d], a)
            BY <1>9, <5>2, <6>1
          <6> QED BY <1>8, <2>1, <5>2, <6>2, CarriesMore
        <5> QED BY <1>2, <3>1, <3>3, <5>1, <5>2
      <4> QED BY <1>1, <4>1 DEF FollowerTold
    <3> QED BY <3>2, <3>3
  <2>8. ~Carries(news[d], Glimpses(d))
    BY <2>1 DEF ClientTold, SightTold
  <2>9. ~Carries(news'[d], Glimpses(d))
    <3>1. CASE d = c
      BY <1>4, <1>5, <1>6, <1>9, <2>1, <2>8, <3>1, CarriesBoth
    <3>2. CASE d # c /\ d \in come
      <4>1. news'[d] = Append(news[d], a)
        BY <1>9, <3>2
      <4> QED BY <1>8, <2>1, <2>8, <3>2, <4>1, CarriesMore
    <3>3. CASE d # c /\ d \notin come /\ d \in gone
      <4>1. news'[d] = Append(news[d], v)
        BY <1>9, <3>3
      <4> QED BY <1>8, <2>1, <2>8, <3>3, <4>1, CarriesMore
    <3>4. CASE d # c /\ d \notin come /\ d \notin gone
      BY <1>9, <2>8, <3>4
    <3> QED BY <3>1, <3>2, <3>3, <3>4
  <2>10. SightTold(d)'
    BY <2>6, <2>9 DEF SightTold
  <2> QED BY <2>3, <2>5, <2>7, <2>10 DEF ClientTold
<1> QED BY <1>11, <1>12 DEF WeatherInv

(* If the last message of a kind is a good one, the queue has a good one.    *)
LEMMA LatestOfThem ==
    ASSUME NEW s, NEW K, NEW G, NEW H, Latest(s, K, G), G \subseteq H
    PROVE  Carries(s, H)
BY DEF Latest, Carries

(* What a client knows of its role after it has read a message.                *)
LEMMA RoleHeard ==
    ASSUME WeatherTypes, NEW c \in Clients, news[c] # <<>>,
           role' = [role EXCEPT ![c] = RoleAfter(c, Head(news[c]))]
    PROVE  LET m == Head(news[c]) IN
           /\ role' \in [Clients -> Clients \cup {"none", "leader"}]
           /\ \A d \in Clients \ {c} : role'[d] = role[d]
           /\ m \in WeatherNews /\ news[c] \in Seq(WeatherNews)
           /\ m \in Joinings => role'[c] = (IF m.leader = c THEN "leader" ELSE m.leader)
           /\ m.type = "info" => /\ m \in Roles
                                 /\ role'[c] = (IF role[c] = "none" THEN "none"
                                                ELSE IF m.leader = c THEN "leader" ELSE m.leader)
           /\ m \in Leavings => role'[c] = "none"
           /\ m.type \notin {"joined", "info", "left"} => role'[c] = role[c]
<1> DEFINE m == Head(news[c])
<1>1. news[c] \in Seq(WeatherNews) /\ role \in [Clients -> Clients \cup {"none", "leader"}]
  BY DEF WeatherTypes, WeatherTypeOK
<1>2. m \in WeatherNews
  BY <1>1, HeadTailProperties
<1> HIDE DEF m
<1>3. role' = [role EXCEPT ![c] = RoleAfter(c, m)]
  BY DEF m
<1>4. m.type \in {"joined", "info"} => m.leader \in Clients
  BY <1>2 DEF WeatherNews, RoleNotices
<1>5. RoleAfter(c, m) \in Clients \cup {"none", "leader"}
  BY <1>1, <1>4 DEF RoleAfter
<1>6. role'[c] = RoleAfter(c, m) /\ role' \in [Clients -> Clients \cup {"none", "leader"}]
  BY <1>1, <1>3, <1>5
<1>7. \A d \in Clients \ {c} : role'[d] = role[d]
  BY <1>1, <1>3
<1>8. m \in Joinings => role'[c] = (IF m.leader = c THEN "leader" ELSE m.leader)
  BY <1>6 DEF Joinings, RoleAfter
<1>9. m.type = "info" => /\ m \in Roles
                         /\ role'[c] = (IF role[c] = "none" THEN "none"
                                        ELSE IF m.leader = c THEN "leader" ELSE m.leader)
  BY <1>2, <1>6 DEF Roles, RoleAfter
<1>10. m \in Leavings => role'[c] = "none"
  BY <1>6 DEF Leavings, RoleAfter
<1>11. m.type \notin {"joined", "info", "left"} => role'[c] = role[c]
  BY <1>6 DEF RoleAfter
<1> QED BY <1>1, <1>2, <1>6, <1>7, <1>8, <1>9, <1>10, <1>11 DEF m

(* A member that reads its news comes to know its role.                        *)
LEMMA HearingKeepsMemberTold ==
    ASSUME WeatherTypes, NEW c \in Clients, MemberTold(c), news[c] # <<>>,
           role' = [role EXCEPT ![c] = RoleAfter(c, Head(news[c]))],
           news'[c] = Tail(news[c]), UNCHANGED <<members, leader>>
    PROVE  MemberTold(c)'
<1> DEFINE m == Head(news[c])
           s == news[c]
           t == news'[c]
<1>1. /\ role' \in [Clients -> Clients \cup {"none", "leader"}]
      /\ m \in WeatherNews /\ s \in Seq(WeatherNews) /\ s # <<>> /\ t = Tail(s) /\ m = Head(s)
      /\ m \in Joinings => role'[c] = (IF m.leader = c THEN "leader" ELSE m.leader)
      /\ m.type = "info" => /\ m \in Roles
                            /\ role'[c] = (IF role[c] = "none" THEN "none"
                                           ELSE IF m.leader = c THEN "leader" ELSE m.leader)
      /\ m \in Leavings => role'[c] = "none"
      /\ m.type \notin {"joined", "info", "left"} => role'[c] = role[c]
  BY RoleHeard
<1> HIDE DEF m, s, t
<1>2. \A K : /\ Carries(s, K) <=> Carries(t, K) \/ m \in K
             /\ \A G : Latest(s, K, G) <=>
                    IF Carries(t, K) THEN Latest(t, K, G) ELSE m \in K /\ m \in G
  BY <1>1, CarriesLess
<1>3. SUFFICES ASSUME c \in members
               PROVE  /\ \/ Latest(t, Comings, Joinings)
                         \/ ~Carries(t, Comings) /\ role'[c] # "none"
                      /\ \/ Latest(t, Roles, Under(leader))
                         \/ ~Carries(t, Roles) /\ role'[c] = RoleOf(c)
  BY DEF MemberTold, RoleOf, t, Comings, Joinings, Leavings, Roles, Under
<1>4. /\ \/ Latest(s, Comings, Joinings)
         \/ ~Carries(s, Comings) /\ role[c] # "none"
      /\ \/ Latest(s, Roles, Under(leader))
         \/ ~Carries(s, Roles) /\ role[c] = RoleOf(c)
  BY <1>3 DEF MemberTold, s
<1>5. /\ m \in Joinings => m.leader \in Clients /\ m \in Roles /\ m \in Comings
      /\ m \in Leavings => m \in Comings /\ m \notin Joinings
      /\ m \in Comings => m \in Joinings \/ m \in Leavings
      /\ m \in Roles <=> m \in Joinings \/ m.type = "info"
      /\ m.type = "info" => m.leader \in Clients /\ m \notin Comings
      /\ m \in Under(leader) => m.leader = leader
      /\ m \in Leavings <=> m.type = "left"
      /\ m \in Joinings <=> m.type = "joined"
  BY <1>1 DEF WeatherNews, RoleNotices, Joinings, Leavings, Comings, Roles, Under
<1>6. \A d \in Clients : d # "none" /\ d # "leader"
  BY WeatherAssumption
<1>7. Latest(t, Comings, Joinings) => Carries(t, Roles)
  BY LatestOfThem DEF Joinings, Roles
<1>8. \/ Latest(t, Comings, Joinings)
      \/ ~Carries(t, Comings) /\ role'[c] # "none"
  BY <1>1, <1>2, <1>4, <1>5, <1>6
<1>9. \/ Latest(t, Roles, Under(leader))
      \/ ~Carries(t, Roles) /\ role'[c] = RoleOf(c)
  <2>1. CASE Carries(t, Roles)
    BY <1>2, <1>4, <2>1
  <2>2. CASE ~Carries(t, Roles)
    <3>1. m \notin Leavings
      BY <1>2, <1>4, <1>5, <1>7, <2>2
    <3>2. m.type = "info" => role[c] # "none"
      BY <1>2, <1>4, <1>5, <1>7, <2>2
    <3>3. m \in Roles => m.leader = leader
      BY <1>2, <1>4, <1>5, <2>2
    <3>4. m \notin Roles => role[c] = RoleOf(c)
      BY <1>2, <1>4, <2>2
    <3> QED BY <1>1, <1>5, <2>2, <3>1, <3>2, <3>3, <3>4 DEF RoleOf
  <2> QED BY <2>1, <2>2
<1> QED BY <1>8, <1>9
(* What else changes when a client reads its news, by the kind of the news.    *)
LEMMA HearingChanges ==
    ASSUME WeatherTypes, NEW c \in Clients, Hears(c)
    PROVE  LET m == Head(news[c])
               ask == [type |-> "ask"]
               change == [type |-> "change", id |-> sky[c]]
               stays == queries' = queries /\ cachedWeatherId' = cachedWeatherId /\ sky' = sky
           IN
           /\ m.type = "joined" /\ role'[c] = "leader" =>
                 /\ cachedWeatherId' = [cachedWeatherId EXCEPT ![c] = sky[c]]
                 /\ Asks(c, IF sky[c] \in {NoWeather, MapWeather} THEN <<>> ELSE <<change>>)
                 /\ sky' = sky
           /\ m.type = "joined" /\ role'[c] # "leader" =>
                 \/ Asks(c, <<ask>>) /\ cachedWeatherId' = [cachedWeatherId EXCEPT ![c] = NoWeather]
                    /\ sky' = sky
                 \/ role'[c] \notin inView[c] /\ stays
           /\ m.type = "left" =>
                 /\ cachedWeatherId' = [cachedWeatherId EXCEPT ![c] = NoWeather]
                 /\ queries' = queries /\ sky' = sky
           /\ m.type = "weather" =>
                 IF m.id = NoWeather THEN stays
                 ELSE /\ sky' = [sky EXCEPT ![c] = m.id]
                      /\ cachedWeatherId' = [cachedWeatherId EXCEPT ![c] = m.id]
                      /\ queries' = queries
           /\ m.type = "appear" =>
                 IF m.who = role[c]
                 THEN Asks(c, <<ask>>) /\ cachedWeatherId' = [cachedWeatherId EXCEPT ![c] = NoWeather]
                      /\ sky' = sky
                 ELSE stays
           /\ m.type = "vanish" =>
                 IF m.who = role[c]
                 THEN cachedWeatherId' = [cachedWeatherId EXCEPT ![c] = NoWeather]
                      /\ queries' = queries /\ sky' = sky
                 ELSE stays
           /\ m.type = "info" => stays
<1> DEFINE m == Head(news[c])
<1> HIDE DEF m
<1>1. CASE m.type = "joined"
  BY <1>1 DEF Hears, Joined, Follow, Stay, m
<1>2. CASE m.type = "left"
  BY <1>2 DEF Hears, Release, m
<1>3. CASE m.type = "weather"
  BY <1>3 DEF Hears, Imposed, Stay, m
<1>4. CASE m.type = "appear"
  BY <1>4 DEF Hears, Follow, Stay, m
<1>5. CASE m.type = "vanish"
  BY <1>5 DEF Hears, Release, Stay, m
<1>6. CASE m.type = "info"
  BY <1>6 DEF Hears, Stay, m
<1> QED BY <1>1, <1>2, <1>3, <1>4, <1>5, <1>6 DEF m

(* It changes nothing about the other clients.                                 *)
LEMMA HearingTypes ==
    ASSUME WeatherTypes, NEW c \in Clients, SightTold(c), Hears(c)
    PROVE  /\ WeatherTypes'
           /\ \A d \in Clients \ {c} :
                 /\ role'[d] = role[d] /\ news'[d] = news[d] /\ queries'[d] = queries[d]
                 /\ inView'[d] = inView[d] /\ cachedWeatherId'[d] = cachedWeatherId[d]
                 /\ d \in unasked' <=> d \in unasked
           /\ news'[c] = Tail(news[c])
<1> DEFINE m == Head(news[c])
           ask == [type |-> "ask"]
           change == [type |-> "change", id |-> sky[c]]
           stays == queries' = queries /\ cachedWeatherId' = cachedWeatherId /\ sky' = sky
<1>1. /\ news[c] # <<>> /\ news' = Read(news, c) /\ UNCHANGED <<members, leader>>
      /\ role' = [role EXCEPT ![c] = RoleAfter(c, m)]
      /\ UNCHANGED <<cachedWeather, place, turns>>
      /\ unasked' = IF m.type = "info" /\ role'[c] # role[c] THEN unasked \cup {c}
                     ELSE IF m.type = "joined" \/ (m.type = "appear" /\ m.who = role[c])
                     THEN unasked \ {c} ELSE unasked
      /\ overruled' = (overruled \/ (m.type = "weather" /\ role[c] = "leader"))
  BY DEF Hears, Reads
<1>2. /\ news \in [Clients -> Seq(WeatherNews)] /\ queries \in [Clients -> Seq(WeatherQueries)]
      /\ cachedWeatherId \in [Clients -> AllWeathers] /\ sky \in [Clients -> AllWeathers]
      /\ inView \in [Clients -> SUBSET Clients] /\ unasked \subseteq Clients /\ overruled \in BOOLEAN
      /\ \A d \in Clients : inView[d] \subseteq Clients \ {d}
  BY DEF WeatherTypes, WeatherTypeOK, AllWeathers
<1>3. /\ news' \in [Clients -> Seq(WeatherNews)] /\ news'[c] = Tail(news[c]) /\ m \in WeatherNews
      /\ \A d \in Clients \ {c} : news'[d] = news[d]
  <2>1. news \in [Clients -> Seq(WeatherNews)] /\ news[c] # <<>> /\ news' = Read(news, c)
    BY <1>1, <1>2
  <2> QED BY <2>1, ReadQueues
<1>4. role' \in [Clients -> Clients \cup {"none", "leader"}] /\ \A d \in Clients \ {c} : role'[d] = role[d]
  BY <1>1, RoleHeard
<1>5. /\ unasked' \subseteq Clients /\ overruled' \in BOOLEAN
      /\ \A d \in Clients \ {c} : d \in unasked' <=> d \in unasked
  BY <1>1, <1>2
<1>6. \E V \in SUBSET Clients : inView' = [inView EXCEPT ![c] = V] /\ c \notin V
  <2>1. m.type \in {"appear", "vanish"} => m.who \in Clients
    BY <1>3 DEF WeatherNews, RoleNotices
  <2>2. inView' = [inView EXCEPT ![c] =
             CASE m.type = "appear" -> @ \cup {m.who}
               [] m.type = "vanish" -> @ \ {m.who}
               [] OTHER -> @]
    BY DEF Hears
  <2>3. m.type \in {"appear", "vanish"} => m.who # c
    <3> SUFFICES ASSUME m.type \in {"appear", "vanish"}, m.who = c PROVE FALSE
      OBVIOUS
    <3>1. m \in Glimpses(c)
      BY <1>3 DEF Glimpses
    <3>2. news[c] \in Seq(WeatherNews) /\ news[c] # <<>>
      BY <1>1, <1>2
    <3>3. Carries(news[c], Glimpses(c))
      BY <3>1, <3>2, CarriesLess
    <3> QED BY <3>3 DEF SightTold
  <2>4. inView[c] \subseteq Clients \ {c}
    BY <1>2
  <2> HIDE DEF m
  <2>5. CASE m.type = "appear"
    BY <2>1, <2>2, <2>3, <2>4, <2>5
  <2>6. CASE m.type = "vanish"
    BY <2>1, <2>2, <2>3, <2>4, <2>6
  <2>7. CASE m.type \notin {"appear", "vanish"}
    BY <2>2, <2>4, <2>7
  <2> QED BY <2>5, <2>6, <2>7
<1>7. /\ inView' \in [Clients -> SUBSET Clients] /\ \A d \in Clients : inView'[d] \subseteq Clients \ {d}
      /\ \A d \in Clients \ {c} : inView'[d] = inView[d]
  BY <1>2, <1>6
<1>8. /\ ask \in WeatherQueries /\ sky[c] \in AllWeathers
      /\ sky[c] \in Weathers => change \in WeatherQueries
      /\ m.type = "weather" => m.id \in AllWeathers
      /\ NoWeather \in AllWeathers
  BY <1>2, <1>3, QueryKinds DEF AllWeathers, WeatherNews, RoleNotices
<1>9. /\ \/ sky' = sky
         \/ m.id \in AllWeathers /\ sky' = [sky EXCEPT ![c] = m.id]
      /\ \/ cachedWeatherId' = cachedWeatherId
         \/ cachedWeatherId' = [cachedWeatherId EXCEPT ![c] = sky[c]]
         \/ cachedWeatherId' = [cachedWeatherId EXCEPT ![c] = NoWeather]
         \/ m.id \in AllWeathers /\ cachedWeatherId' = [cachedWeatherId EXCEPT ![c] = m.id]
      /\ \/ queries' = queries
         \/ Asks(c, <<>>)
         \/ Asks(c, <<ask>>)
         \/ sky[c] \in Weathers /\ Asks(c, <<change>>)
  <2> HIDE DEF ask, change
  <2>1. CASE m.type = "joined"
    BY <1>8, <2>1, HearingChanges DEF AllWeathers, ask, change
  <2>2. CASE m.type \in {"left", "info"}
    BY <2>2, HearingChanges
  <2>3. CASE m.type = "weather"
    BY <1>8, <2>3, HearingChanges
  <2>4. CASE m.type = "appear"
    BY <2>4, HearingChanges DEF ask
  <2>5. CASE m.type = "vanish"
    BY <2>5, HearingChanges
  <2>6. m.type \in {"joined", "left", "info", "weather", "appear", "vanish"}
    BY <1>3 DEF WeatherNews, RoleNotices
  <2> QED BY <2>1, <2>2, <2>3, <2>4, <2>5, <2>6
<1> HIDE DEF m, ask, change
<1>10. sky' \in [Clients -> AllWeathers]
  BY <1>2, <1>9
<1>11. /\ cachedWeatherId' \in [Clients -> AllWeathers]
       /\ \A d \in Clients \ {c} : cachedWeatherId'[d] = cachedWeatherId[d]
  <2>1. \/ cachedWeatherId' = cachedWeatherId
        \/ \E w \in AllWeathers : cachedWeatherId' = [cachedWeatherId EXCEPT ![c] = w]
    BY <1>8, <1>9
  <2>2. cachedWeatherId \in [Clients -> AllWeathers]
    BY <1>2
  <2> QED BY <2>1, <2>2
<1>12. /\ queries' \in [Clients -> Seq(WeatherQueries)]
       /\ \A d \in Clients \ {c} : queries'[d] = queries[d]
  BY <1>2, <1>8, <1>9, Asked
<1>13. WeatherTypes'
  BY <1>1, <1>3, <1>4, <1>5, <1>7, <1>10, <1>11, <1>12 DEF WeatherTypes, WeatherTypeOK, AllWeathers
<1> QED BY <1>3, <1>4, <1>5, <1>7, <1>11, <1>12, <1>13

(* What a client sees when it has read of a character.                         *)
LEMMA HearingKeepsSight ==
    ASSUME WeatherTypes, NEW c \in Clients, SightTold(c), Hears(c)
    PROVE  SightTold(c)'
<1> DEFINE m == Head(news[c])
           s == news[c]
           t == news'[c]
<1>1. /\ s # <<>> /\ s \in Seq(WeatherNews) /\ t = Tail(s) /\ m = Head(s) /\ m \in WeatherNews
      /\ UNCHANGED place
  <2>1. s # <<>> /\ s \in Seq(WeatherNews) /\ UNCHANGED place
    BY DEF Hears, Reads, WeatherTypes
  <2>2. t = Tail(s)
    BY HearingTypes
  <2> QED BY <2>1, <2>2, HeadTailProperties
<1> HIDE DEF m, s, t
<1>2. \A K : /\ Carries(s, K) <=> Carries(t, K) \/ m \in K
             /\ \A G : Latest(s, K, G) <=>
                    IF Carries(t, K) THEN Latest(t, K, G) ELSE m \in K /\ m \in G
  BY <1>1, CarriesLess
<1>3. inView'[c] = CASE m.type = "appear" -> inView[c] \cup {m.who}
                     [] m.type = "vanish" -> inView[c] \ {m.who}
                     [] OTHER -> inView[c]
  <2>1. inView \in [Clients -> SUBSET Clients]
    BY DEF WeatherTypes
  <2>2. inView' = [inView EXCEPT ![c] =
             CASE m.type = "appear" -> @ \cup {m.who}
               [] m.type = "vanish" -> @ \ {m.who}
               [] OTHER -> @]
    BY DEF Hears, m
  <2> QED BY <2>1, <2>2
<1>4. ASSUME NEW d \in Clients \ {c} PROVE ViewTold(c, d)'
  <2>1. place[c] = place[d] <=>
           \/ Latest(s, Glimpses(d), Arrivals(d))
           \/ ~Carries(s, Glimpses(d)) /\ d \in inView[c]
    BY DEF SightTold, ViewTold, s
  <2>2. SUFFICES place[c] = place[d] <=>
           \/ Latest(t, Glimpses(d), Arrivals(d))
           \/ ~Carries(t, Glimpses(d)) /\ d \in inView'[c]
    BY <1>1 DEF ViewTold, t, Glimpses, Arrivals
  <2>3. CASE Carries(t, Glimpses(d))
    BY <1>2, <2>1, <2>3
  <2>4. CASE ~Carries(t, Glimpses(d)) /\ m \in Glimpses(d)
    <3>1. d \in inView'[c] <=> m \in Arrivals(d)
      BY <1>1, <1>3, <2>4 DEF Glimpses, Arrivals
    <3> QED BY <1>2, <2>1, <2>4, <3>1, LatestIsCarried
  <2>5. CASE ~Carries(t, Glimpses(d)) /\ m \notin Glimpses(d)
    <3>1. d \in inView'[c] <=> d \in inView[c]
      BY <1>1, <1>3, <2>5 DEF Glimpses
    <3> QED BY <1>2, <2>1, <2>5, <3>1, LatestIsCarried
  <2> QED BY <2>3, <2>4, <2>5
<1>5. ~Carries(t, Glimpses(c))
  BY <1>2 DEF SightTold, s
<1> QED BY <1>4, <1>5 DEF SightTold, t, Glimpses

(* A client reads its news (OnPartyJoinedEvent and the other handlers of     *)
(* WeatherService): it asks for the weather if it begins to follow a leader  *)
(* it sees, and otherwise will see it later.                                 *)
LEMMA HearsKeepsTold ==
    ASSUME WeatherInv, NEW c \in Clients, Hears(c)
    PROVE  WeatherInv'
<1> DEFINE m == Head(news[c])
           s == news[c]
           t == news'[c]
           ask == [type |-> "ask"]
           change == [type |-> "change", id |-> sky[c]]
<1>1. /\ WeatherTypes /\ ClientTold(c)
      /\ s # <<>> /\ s \in Seq(WeatherNews) /\ m = Head(s) /\ m \in WeatherNews
      /\ UNCHANGED <<members, leader, cachedWeather, place, turns>>
      /\ role' = [role EXCEPT ![c] = RoleAfter(c, m)]
      /\ unasked' = IF m.type = "info" /\ role'[c] # role[c] THEN unasked \cup {c}
                     ELSE IF m.type = "joined" \/ (m.type = "appear" /\ m.who = role[c])
                     THEN unasked \ {c} ELSE unasked
      /\ overruled' = (overruled \/ (m.type = "weather" /\ role[c] = "leader"))
  <2>1. WeatherTypes /\ ClientTold(c)
    BY DEF WeatherInv
  <2>2. s # <<>> /\ s \in Seq(WeatherNews)
    BY <2>1 DEF Hears, Reads, WeatherTypes
  <2>3. m \in WeatherNews
    BY <2>2, HeadTailProperties
  <2> QED BY <2>1, <2>2, <2>3 DEF Hears, Reads
<1>2. SightTold(c) /\ MemberTold(c) /\ LeaderTells(c) /\ FollowerTold(c)
  BY <1>1 DEF ClientTold
<1>3. /\ WeatherTypes' /\ t = Tail(s)
      /\ \A d \in Clients \ {c} :
            /\ role'[d] = role[d] /\ news'[d] = news[d] /\ queries'[d] = queries[d]
            /\ inView'[d] = inView[d] /\ cachedWeatherId'[d] = cachedWeatherId[d]
            /\ d \in unasked' <=> d \in unasked
  BY <1>1, <1>2, HearingTypes
<1>4. ASSUME NEW d \in Clients, d # c PROVE ClientTold(d)'
  <2>1. ClientTold(d) /\ (overruled => overruled')
    BY <1>1 DEF WeatherInv
  <2> QED BY <1>1, <1>3, <1>4, <2>1, Undisturbed
<1>5. MemberTold(c)'
  BY <1>1, <1>2, <1>3, HearingKeepsMemberTold
<1>6. SightTold(c)'
  BY <1>1, <1>2, HearingKeepsSight
<1>7. /\ m \in Joinings => role'[c] = (IF m.leader = c THEN "leader" ELSE m.leader)
      /\ m.type = "info" => /\ m \in Roles
                            /\ role'[c] = (IF role[c] = "none" THEN "none"
                                           ELSE IF m.leader = c THEN "leader" ELSE m.leader)
      /\ m \in Leavings => role'[c] = "none"
      /\ m.type \notin {"joined", "info", "left"} => role'[c] = role[c]
  BY <1>1, RoleHeard
<1>8. /\ m.type \in {"joined", "left", "info", "weather", "appear", "vanish"}
      /\ m.type = "joined" => m \in Joinings
      /\ m.type = "left" => m \in Leavings
      /\ m.type \in {"joined", "info"} => m.leader \in Clients
      /\ m \in Impositions <=> m.type = "weather"
      /\ m.type = "weather" => m.id \in Weathers \cup {NoWeather} /\ \A w : m \in ImpositionsOf(w) <=> m.id = w
      /\ m.type \in {"appear", "vanish"} => m.who \in Clients
      /\ \A d : m \in Glimpses(d) <=> m.type \in {"appear", "vanish"} /\ m.who = d
      /\ \A d : m \in Arrivals(d) <=> m.type = "appear" /\ m.who = d
      /\ \A l : m \in Upsets(l) => m.type = "joined" \/ (m.type = "info" /\ m.leader # l)
  BY <1>1 DEF WeatherNews, RoleNotices, Joinings, Leavings, Roles, Upsets, Glimpses, Arrivals,
              Impositions, ImpositionsOf
<1> HIDE DEF m, s, t, ask, change
<1>9. \A K : /\ Carries(s, K) <=> Carries(t, K) \/ m \in K
             /\ \A G : Latest(s, K, G) <=>
                    IF Carries(t, K) THEN Latest(t, K, G) ELSE m \in K /\ m \in G
  BY <1>1, <1>3, CarriesLess
<1>10. \A d \in Clients : d # "none" /\ d # "leader"
  BY WeatherAssumption
<1>11. /\ ask \in WeatherQueries /\ ask \in Demands
       /\ sky[c] \in Weathers => /\ change \in WeatherQueries /\ change \in Turns
                                 /\ change \in TurnsTo(sky[c])
       /\ queries \in [Clients -> Seq(WeatherQueries)] /\ cachedWeatherId \in [Clients -> AllWeathers]
  BY <1>1, QueryKinds DEF WeatherTypes, WeatherTypeOK, AllWeathers, Demands, Turns, TurnsTo, ask, change
\* What the client knew before, if it was not told to begin anew
<1>12. ASSUME m.type # "joined", ~(m.type = "appear" /\ m.who = role[c]), Abreast(c)'
       PROVE  Abreast(c) /\ role'[c] = role[c]
  <2>1. /\ c \in members /\ role'[c] = RoleOf(c) /\ ~Carries(t, Upsets(leader))
        /\ c \notin unasked' /\ ~overruled'
    BY <1>1, <1>12 DEF Abreast, Steady, RoleOf, t, Upsets, Roles
  <2>2. leader \in Clients /\ role'[c] # "none"
    BY <1>1, <1>10, <2>1 DEF WeatherTypes, WeatherTypeOK, RoleOf
  <2>3. m.type # "left"
    BY <1>7, <1>8, <2>2
  <2>4. role'[c] = role[c]
    BY <1>1, <1>7, <1>8, <1>12, <2>1, <2>3
  <2>5. m.type = "info" => m.leader = leader
    BY <1>7, <1>8, <1>10, <2>1, <2>2, <2>4 DEF RoleOf
  <2>6. ~Carries(s, Upsets(leader))
    BY <1>8, <1>9, <1>12, <2>1, <2>5
  <2> QED BY <1>1, <1>12, <2>1, <2>4, <2>6 DEF Abreast, Steady, s
<1>13. LeaderTells(c)'
  <2> SUFFICES ASSUME c = leader, Abreast(c)', cachedWeatherId'[c] \in Weathers
               PROVE  \/ Latest(queries'[c], Turns, TurnsTo(cachedWeatherId'[c]))
                      \/ ~Carries(queries'[c], Turns) /\ cachedWeather = cachedWeatherId'[c]
    BY <1>1 DEF LeaderTells, Turns, TurnsTo
  <2>1. role'[c] = "leader" /\ ~overruled'
    BY <1>1 DEF Abreast, Steady, RoleOf
  <2>2. CASE m.type = "joined"
    <3>1. /\ cachedWeatherId' = [cachedWeatherId EXCEPT ![c] = sky[c]]
          /\ Asks(c, IF sky[c] \in {NoWeather, MapWeather} THEN <<>> ELSE <<change>>)
      BY <1>1, <2>1, <2>2, HearingChanges DEF m, s, change
    <3>2. cachedWeatherId'[c] = sky[c] /\ sky[c] \in Weathers
      BY <1>11, <3>1
    <3>3. Asks(c, <<change>>)
      BY <3>1, <3>2, WeatherAssumption
    <3>4. queries'[c] = Append(queries[c], change) /\ queries[c] \in Seq(WeatherQueries)
      BY <1>1, <1>11, <3>2, <3>3, Asked
    <3> QED BY <1>11, <3>2, <3>4, CarriesMore
  <2>3. CASE m.type # "joined"
    <3>1. ~(m.type = "appear" /\ m.who = role[c])
      BY <1>7, <1>8, <1>10, <2>1
    <3>2. Abreast(c) /\ role[c] = "leader"
      BY <1>12, <2>1, <2>3, <3>1
    <3>3. m.type \in {"info", "appear", "vanish"}
      BY <1>1, <1>7, <1>8, <2>1, <2>3, <3>2
    <3>4. m.type = "vanish" => m.who # role[c]
      BY <1>8, <1>10, <3>2
    <3>5. queries' = queries /\ cachedWeatherId' = cachedWeatherId
      BY <1>1, <3>1, <3>3, <3>4, HearingChanges DEF m, s
    <3> QED BY <1>2, <3>2, <3>5 DEF LeaderTells
  <2> QED BY <2>2, <2>3
<1>14. FollowerTold(c)'
  <2> SUFFICES ASSUME c # leader, Abreast(c)', place[c] = place[leader]
               PROVE  \/ Carries(queries'[c], Demands)
                      \/ Carries(t, Arrivals(leader))
                      \/ cachedWeather = NoWeather
                      \/ Latest(t, Impositions, ImpositionsOf(cachedWeather))
                      \/ ~Carries(t, Impositions) /\ cachedWeatherId'[c] = cachedWeather
    BY <1>1 DEF FollowerTold, Demands, Arrivals, Impositions, ImpositionsOf, t
  <2>1. leader \in Clients /\ role'[c] = leader /\ leader # "leader" /\ c \in members
    BY <1>1, <1>10 DEF Abreast, Steady, RoleOf, WeatherTypes, WeatherTypeOK
  <2>2. ViewTold(c, leader)
    BY <1>2, <2>1 DEF SightTold
  <2>3. ASSUME Asks(c, <<ask>>) PROVE Carries(queries'[c], Demands)
    <3>1. queries'[c] = Append(queries[c], ask) /\ queries[c] \in Seq(WeatherQueries)
      BY <1>1, <1>11, <2>3, Asked
    <3> QED BY <1>11, <3>1, CarriesMore
  <2>4. CASE m.type = "joined"
    <3>1. \/ Asks(c, <<ask>>)
          \/ role'[c] \notin inView[c]
      BY <1>1, <2>1, <2>4, HearingChanges DEF m, s, ask
    <3>2. ASSUME leader \notin inView[c] PROVE Carries(t, Arrivals(leader))
      <4>1. Latest(s, Glimpses(leader), Arrivals(leader))
        BY <2>2, <3>2 DEF ViewTold, s
      <4>2. Latest(t, Glimpses(leader), Arrivals(leader))
        BY <1>8, <1>9, <2>4, <4>1
      <4> QED BY <4>2, LatestOfThem
    <3> QED BY <2>1, <2>3, <3>1, <3>2
  <2>5. CASE m.type = "appear" /\ m.who = role[c]
    <3>1. Asks(c, <<ask>>)
      BY <1>1, <2>5, HearingChanges DEF m, s, ask
    <3> QED BY <2>3, <3>1
  <2>6. CASE m.type # "joined" /\ ~(m.type = "appear" /\ m.who = role[c])
    <3>1. Abreast(c) /\ role[c] = leader
      BY <1>12, <2>1, <2>6
    <3>2. m.type # "left" /\ m \notin Arrivals(leader)
      BY <1>7, <1>8, <1>10, <2>1, <2>6, <3>1
    <3>3. \/ Carries(queries[c], Demands)
          \/ Carries(s, Arrivals(leader))
          \/ cachedWeather = NoWeather
          \/ Latest(s, Impositions, ImpositionsOf(cachedWeather))
          \/ ~Carries(s, Impositions) /\ cachedWeatherId[c] = cachedWeather
      BY <1>2, <3>1 DEF FollowerTold, s
    <3>4. CASE m.type = "vanish" /\ m.who = leader
      <4>1. m \in Glimpses(leader) /\ m \notin Arrivals(leader)
        BY <1>8, <3>4
      <4>2. Latest(s, Glimpses(leader), Arrivals(leader))
        BY <1>9, <2>2, <4>1 DEF ViewTold, s
      <4>3. Latest(t, Glimpses(leader), Arrivals(leader))
        BY <1>9, <4>1, <4>2
      <4> QED BY <4>3, LatestOfThem
    <3>5. CASE m.type = "weather"
      <4>1. /\ queries' = queries
            /\ m.id # NoWeather => cachedWeatherId' = [cachedWeatherId EXCEPT ![c] = m.id]
        BY <1>1, <3>5, HearingChanges DEF m, s
      <4>2. m.id # NoWeather => cachedWeatherId'[c] = m.id
        BY <1>11, <4>1
      <4>3. m \in Impositions /\ \A w : m \in ImpositionsOf(w) <=> m.id = w
        BY <1>8, <3>5
      <4> QED BY <1>9, <3>2, <3>3, <4>1, <4>2, <4>3
    <3>6. CASE m.type \in {"info", "appear", "vanish"} /\ ~(m.type = "vanish" /\ m.who = leader)
      <4>1. queries' = queries /\ cachedWeatherId' = cachedWeatherId
        BY <1>1, <2>6, <3>1, <3>6, HearingChanges DEF m, s
      <4>2. m \notin Impositions
        BY <1>8, <3>6
      <4> QED BY <1>9, <3>2, <3>3, <4>1, <4>2, LatestIsCarried
    <3> QED BY <1>8, <2>6, <3>2, <3>4, <3>5, <3>6
  <2> QED BY <2>4, <2>5, <2>6
<1>15. ClientTold(c)'
  BY <1>5, <1>6, <1>13, <1>14 DEF ClientTold
<1> QED BY <1>3, <1>4, <1>15 DEF WeatherInv

(* What WeatherAgrees is proved by: the last weather that a leader announced *)
(* is cached or on its way to the server, and each follower next to the      *)
(* leader has the weather of the cache, is being sent it, asks for it or is  *)
(* yet to see the leader.                                                    *)
THEOREM WeatherInvariant == WeatherSpec => []WeatherInv
<1>1. WeatherInit => WeatherInv
  BY WeatherInit1
<1>2. WeatherInv /\ [WeatherNext]_weatherVars => WeatherInv'
  <2> SUFFICES ASSUME WeatherInv, [WeatherNext]_weatherVars PROVE WeatherInv'
    OBVIOUS
  <2>1. CASE UNCHANGED weatherVars
    <3>1. /\ UNCHANGED <<members, leader, role, queries, news, cachedWeather, place, sky>>
          /\ UNCHANGED <<cachedWeatherId, inView, turns, unasked, overruled>>
      BY <2>1 DEF weatherVars, companionVars
    <3>2. WeatherTypes'
      BY <3>1 DEF WeatherInv, WeatherTypes, WeatherTypeOK
    <3>3. \A d \in Clients : ClientTold(d)'
      BY <3>1, Undisturbed DEF WeatherInv
    <3> QED BY <3>2, <3>3 DEF WeatherInv
  <2>2. CASE WeatherNext
    <3>1. PICK c \in Clients :
             \/ PartyStep(c) \/ OnWeatherChange(c) \/ OnRequestCurrentWeather(c)
             \/ RunWeatherUpdates(c) \/ Hears(c)
             \/ \E p \in Places : Travels(c, p)
             \/ \E w \in AllWeathers : SkyTurns(c, w)
      BY <2>2 DEF WeatherNext, AllWeathers
    <3>2. CASE PartyStep(c)
      BY <3>2, PartyStepKeepsTold
    <3>3. CASE OnWeatherChange(c)
      BY <3>3, WeatherChangeKeepsTold
    <3>4. CASE OnRequestCurrentWeather(c)
      BY <3>4, WeatherRequestKeepsTold
    <3>5. CASE RunWeatherUpdates(c)
      BY <3>5, WeatherUpdateKeepsTold
    <3>6. CASE Hears(c)
      BY <3>6, HearsKeepsTold
    <3>7. CASE \E p \in Places : Travels(c, p)
      BY <3>7, TravelKeepsTold
    <3>8. CASE \E w \in AllWeathers : SkyTurns(c, w)
      BY <3>8, SkyTurnKeepsTold
    <3> QED BY <3>1, <3>2, <3>3, <3>4, <3>5, <3>6, <3>7, <3>8
  <2> QED BY <2>1, <2>2
<1> QED BY <1>1, <1>2, PTL DEF WeatherSpec

(* The types of Weather hold for any clients, places and weathers: games     *)
(* show and cache weathers of the game, and nobody sees itself arrive        *)
(* (WeatherService of client and server).                                    *)
THEOREM WeatherTypesHold == WeatherSpec => []WeatherTypeOK
<1>1. WeatherInv => WeatherTypeOK
  BY DEF WeatherInv, WeatherTypes
<1> QED BY <1>1, WeatherInvariant, PTL

(* When all is read, the weather of the cache is what both have.             *)
LEMMA ToldAgree == WeatherInv => WeatherAgrees
<1> SUFFICES ASSUME WeatherInv, NEW f \in Followers,
                    Settled, place[f] = place[leader], ~overruled, {f, leader} \cap unasked = {},
                    sky[f] \in Weathers, sky[leader] \in Weathers
             PROVE  sky[f] = sky[leader]
  BY DEF WeatherAgrees
<1>1. /\ WeatherTypes /\ f \in members /\ f # leader /\ f \in Clients
      /\ leader \in members /\ leader \in Clients
  BY DEF WeatherInv, WeatherTypes, WeatherTypeOK, Followers
<1>2. \A c \in Clients : queries[c] = <<>> /\ news[c] = <<>>
  BY DEF Settled, AllRead
<1>3. /\ \A c \in Clients : \A K : ~Carries(news[c], K) /\ ~Carries(queries[c], K)
      /\ \A c \in Clients : \A K, G : ~Latest(news[c], K, G) /\ ~Latest(queries[c], K, G)
  BY <1>2, CarriesNothing
<1>4. ClientTold(f) /\ ClientTold(leader)
  BY <1>1 DEF WeatherInv
<1>5. Abreast(f) /\ Abreast(leader)
  BY <1>1, <1>3, <1>4 DEF ClientTold, MemberTold, Abreast, Steady
<1>6. role[leader] = "leader" /\ role[f] = leader
  BY <1>1, <1>5 DEF Abreast, Steady, RoleOf
<1>7. sky[leader] = cachedWeatherId[leader]
  BY <1>1, <1>6 DEF Settled
<1>8. cachedWeather = sky[leader]
  BY <1>1, <1>3, <1>4, <1>5, <1>7 DEF ClientTold, LeaderTells
<1>9. cachedWeather # NoWeather
  BY <1>8, WeatherAssumption
<1>10. cachedWeatherId[f] = cachedWeather
  BY <1>1, <1>3, <1>4, <1>5, <1>9 DEF ClientTold, FollowerTold
<1> QED BY <1>1, <1>8, <1>9, <1>10 DEF Settled

(* A follower next to the leader ends up with the weather of the leader, for *)
(* any number of clients, places, weathers and changes of the sky            *)
(* (WeatherService::OnWeatherChange, OnRequestCurrentWeather and those of    *)
(* the client), with the exceptions WeatherAgrees names.                     *)
THEOREM WeatherAlwaysAgrees == WeatherSpec => []WeatherAgrees
BY WeatherInvariant, ToldAgree, PTL
=============================================================================
