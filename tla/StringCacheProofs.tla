------------------------- MODULE StringCacheProofs -------------------------
(***************************************************************************)
(* Proofs about the string cache, for any number of clients, any strings   *)
(* fewer than the wire limit, and any schedule of sends, reads, updates    *)
(* and reconnections.                                                      *)
(*                                                                         *)
(* The argument follows how much a client knows.  For each connection      *)
(* there is a sequence of numbers, one before each message under way and   *)
(* one after the last: what the client knows when it gets there.  It       *)
(* begins with the size of the client's cache and ends with the size of    *)
(* the server's; an update leads from its start to its end, and a text     *)
(* message uses no number the client does not know by then.                *)
(***************************************************************************)
EXTENDS StringCache, SequenceTheorems, FiniteSetTheorems, TLAPS

Message == TextMessage \cup UpdateMessage \cup {Accepted}

(* Message m leads a client that knows a strings of c to b of them.        *)
Link(c, m, a, b) ==
    \/ m = Accepted /\ b = 0
    \/ /\ m \in UpdateMessage
       /\ m.start = a /\ a <= b
       /\ m.values = SubSeq(c, a + 1, b)
    \/ /\ m \in TextMessage
       /\ a = b
       /\ m.id = 0 \/ (m.id \in 1 .. a /\ c[m.id] = m.meant)

Chain(c, q, from, to) ==
    \E r \in [0 .. Len(q) -> 0 .. Len(c)] :
        /\ r[0] = from /\ r[Len(q)] = to
        /\ \A i \in 1 .. Len(q) : Link(c, q[i], r[i - 1], r[i])

Distinct(c) == \A i, j \in 1 .. Len(c) : c[i] = c[j] => i = j

Prefix(k, c) == Len(k) <= Len(c) /\ k = SubSeq(c, 1, Len(k))

(* The inductive invariant.                                                *)
Connected(p) ==
    /\ stringCacheId[p] = Len(idToString)
    /\ Chain(idToString, toClient[p], Len(known[p]), Len(idToString))

Gone(p) == toClient[p] = <<>> /\ toServer[p] = <<>>

Understood(p) ==
    \A i \in 1 .. Len(toServer[p]) : Decodes(idToString, toServer[p][i])

ClientInv(p) ==
    /\ Prefix(known[p], idToString)
    /\ p \in online => Connected(p)
    /\ p \notin online => Gone(p)
    /\ Understood(p)

IInv ==
    /\ TypeOK
    /\ Distinct(idToString)
    /\ \A p \in Clients : ClientInv(p)

---------------------------------------------------------------------------
(* The kinds of messages are told apart by their type.                     *)
LEMMA Kinds ==
  /\ \A m \in TextMessage : m.type = "Text"
  /\ \A m \in UpdateMessage : m.type = "Update"
  /\ Accepted.type = "Accepted"
  BY DEF TextMessage, UpdateMessage, Accepted

(* A message leads to the same place when the cache has grown.             *)
LEMMA LinkGrows ==
  ASSUME NEW c \in Seq(Strings), NEW o \in Seq(Strings), NEW m,
         NEW a \in 0 .. Len(c), NEW b \in 0 .. Len(c), Link(c, m, a, b)
  PROVE  Link(c \o o, m, a, b)
<1>1. Len(c) \in Nat
  OBVIOUS
<1>2. CASE m \in UpdateMessage /\ m.start = a /\ a <= b /\ m.values = SubSeq(c, a + 1, b)
  <2>1. SubSeq(c \o o, a + 1, b) = SubSeq(c, a + 1, b)
    <3>1. CASE a = b
      BY <3>1, <1>1, SubSeqEmpty
    <3>2. CASE a # b
      <4>1. a + 1 \in 1 .. Len(c) /\ b \in 1 .. Len(c)
        BY <3>2, <1>1, <1>2
      <4> QED
        BY <4>1, SubSeqOfConcat1
    <3> QED
      BY <3>1, <3>2
  <2> QED
    BY <1>2, <2>1 DEF Link
<1>3. CASE /\ m \in TextMessage /\ a = b
           /\ m.id = 0 \/ (m.id \in 1 .. a /\ c[m.id] = m.meant)
  <2>1. \A i \in 1 .. Len(c) : (c \o o)[i] = c[i]
    BY <1>1
  <2> QED
    BY <1>3, <2>1, <1>1 DEF Link
<1> QED
  BY <1>2, <1>3 DEF Link

(* And so does a whole queue.                                              *)
LEMMA ChainGrows ==
  ASSUME NEW c \in Seq(Strings), NEW o \in Seq(Strings), NEW q \in Seq(Message),
         NEW from, NEW to, Chain(c, q, from, to)
  PROVE  Chain(c \o o, q, from, to)
<1>1. PICK r \in [0 .. Len(q) -> 0 .. Len(c)] :
        /\ r[0] = from /\ r[Len(q)] = to
        /\ \A i \in 1 .. Len(q) : Link(c, q[i], r[i - 1], r[i])
  BY DEF Chain
<1>2. Len(c) \in Nat /\ Len(q) \in Nat /\ Len(c \o o) \in Nat /\ Len(c) <= Len(c \o o)
  OBVIOUS
<1>3. r \in [0 .. Len(q) -> 0 .. Len(c \o o)]
  BY <1>2
<1>4. \A i \in 1 .. Len(q) : Link(c \o o, q[i], r[i - 1], r[i])
  <2>1. SUFFICES ASSUME NEW i \in 1 .. Len(q)
                 PROVE  Link(c \o o, q[i], r[i - 1], r[i])
    OBVIOUS
  <2>2. i \in 0 .. Len(q) /\ i - 1 \in 0 .. Len(q)
    BY <1>2
  <2>3. r[i - 1] \in 0 .. Len(c) /\ r[i] \in 0 .. Len(c)
    BY <2>2
  <2>4. Link(c, q[i], r[i - 1], r[i])
    BY <1>1
  <2> QED
    BY <2>3, <2>4, LinkGrows
<1> QED
  BY <1>1, <1>3, <1>4 DEF Chain

(* One more message at the end.                                            *)
LEMMA ChainAppend ==
  ASSUME NEW c \in Seq(Strings), NEW q \in Seq(Message), NEW m \in Message,
         NEW from, NEW a, NEW b \in 0 .. Len(c),
         Chain(c, q, from, a), Link(c, m, a, b)
  PROVE  Chain(c, Append(q, m), from, b)
<1>1. PICK r \in [0 .. Len(q) -> 0 .. Len(c)] :
        /\ r[0] = from /\ r[Len(q)] = a
        /\ \A i \in 1 .. Len(q) : Link(c, q[i], r[i - 1], r[i])
  BY DEF Chain
<1>2. Len(q) \in Nat
  OBVIOUS
<1> DEFINE s == [i \in 0 .. Len(q) + 1 |-> IF i <= Len(q) THEN r[i] ELSE b]
<1>3. s \in [0 .. Len(q) + 1 -> 0 .. Len(c)]
  BY <1>2
<1>4. s[0] = from /\ s[Len(q) + 1] = b
  BY <1>1, <1>2
<1>5. Len(Append(q, m)) = Len(q) + 1
  OBVIOUS
<1>6. ASSUME NEW i \in 1 .. Len(q) + 1
      PROVE  Link(c, Append(q, m)[i], s[i - 1], s[i])
  <2>1. CASE i <= Len(q)
    <3>1. Append(q, m)[i] = q[i] /\ s[i - 1] = r[i - 1] /\ s[i] = r[i]
      BY <2>1, <1>2
    <3>2. Link(c, q[i], r[i - 1], r[i])
      BY <1>1, <1>2, <2>1
    <3> QED
      BY <3>1, <3>2
  <2>2. CASE i = Len(q) + 1
    <3>1. Append(q, m)[i] = m /\ s[i - 1] = a /\ s[i] = b
      BY <2>2, <1>1, <1>2
    <3> QED
      BY <3>1
  <2>3. i <= Len(q) \/ i = Len(q) + 1
    BY <1>2
  <2> HIDE DEF s
  <2> QED
    BY <2>1, <2>2, <2>3
<1> HIDE DEF s
<1> QED
  BY <1>3, <1>4, <1>5, <1>6 DEF Chain

(* The first message is read.                                              *)
LEMMA ChainTail ==
  ASSUME NEW c \in Seq(Strings), NEW q \in Seq(Message), q # <<>>,
         NEW from, NEW to, Chain(c, q, from, to)
  PROVE  \E a \in 0 .. Len(c) : Link(c, Head(q), from, a) /\ Chain(c, Tail(q), a, to)
<1>1. PICK r \in [0 .. Len(q) -> 0 .. Len(c)] :
        /\ r[0] = from /\ r[Len(q)] = to
        /\ \A i \in 1 .. Len(q) : Link(c, q[i], r[i - 1], r[i])
  BY DEF Chain
<1>2. Len(q) \in Nat \ {0} /\ Head(q) = q[1] /\ Len(Tail(q)) = Len(q) - 1
  BY EmptySeq
<1>3. Link(c, Head(q), from, r[1]) /\ r[1] \in 0 .. Len(c)
  <2>1. 1 \in 1 .. Len(q) /\ 1 - 1 = 0
    BY <1>2
  <2> QED
    BY <1>1, <1>2, <2>1
<1> DEFINE s == [i \in 0 .. Len(q) - 1 |-> r[i + 1]]
<1>4. s \in [0 .. Len(Tail(q)) -> 0 .. Len(c)]
  BY <1>2
<1>5. s[0] = r[1] /\ s[Len(Tail(q))] = to
  BY <1>1, <1>2
<1>6. ASSUME NEW i \in 1 .. Len(Tail(q))
      PROVE  Link(c, Tail(q)[i], s[i - 1], s[i])
  <2>1. Tail(q)[i] = q[i + 1] /\ i + 1 \in 1 .. Len(q) /\ (i + 1) - 1 = i
    BY <1>2, HeadTailProperties
  <2>2. s[i - 1] = r[i] /\ s[i] = r[i + 1]
    BY <1>2
  <2>3. Link(c, q[i + 1], r[(i + 1) - 1], r[i + 1])
    BY <1>1, <2>1
  <2> QED
    BY <2>1, <2>2, <2>3
<1>7. Chain(c, Tail(q), r[1], to)
  <2> HIDE DEF s
  <2> QED BY <1>4, <1>5, <1>6 DEF Chain
<1> QED
  BY <1>3, <1>7

---------------------------------------------------------------------------
(* A cache without duplicates is no longer than there are strings.         *)
LEMMA CacheFits ==
  ASSUME FewStrings, NEW c \in Seq(Strings), Distinct(c)
  PROVE  Len(c) < WireLimit
<1>1. c \in Injection(1 .. Len(c), Strings)
  <2>1. c \in [1 .. Len(c) -> Strings] /\ DOMAIN c = 1 .. Len(c)
    BY LenProperties
  <2> QED
    BY <2>1 DEF Distinct, Injection, IsInjective
<1>2. Len(c) \in Nat /\ Cardinality(1 .. Len(c)) = Len(c)
  <2>1. Len(c) \in Nat
    OBVIOUS
  <2>2. Cardinality(1 .. Len(c)) = IF 1 > Len(c) THEN 0 ELSE Len(c) - 1 + 1
    BY <2>1, FS_Interval
  <2> QED
    BY <2>1, <2>2
<1>3. Cardinality(1 .. Len(c)) <= Cardinality(Strings)
  BY <1>1, FS_Injection, StringCacheAssumption
<1>4. Cardinality(Strings) \in Nat
  BY FS_CardinalityType, StringCacheAssumption
<1> QED
  BY <1>2, <1>3, <1>4, StringCacheAssumption DEF FewStrings

(* An update leads from its start to the size of the cache.                *)
LEMMA UpdateLinks ==
  ASSUME FewStrings, NEW c \in Seq(Strings), Distinct(c), NEW a \in 0 .. Len(c)
  PROVE  Update(c, a) \in UpdateMessage /\ Link(c, Update(c, a), a, Len(c))
<1>1. Len(c) \in Nat /\ Len(c) < WireLimit /\ WireLimit \in Nat \ {0}
  BY CacheFits, StringCacheAssumption
<1>2. a % WireLimit = a
  BY <1>1
<1> DEFINE v == SubSeq(c, a + 1, Len(c))
<1>3. (IF a < Len(c) THEN v ELSE <<>>) = v
  <2>1. CASE a = Len(c)
    <3>1. v = <<>>
      BY <2>1, <1>1, SubSeqEmpty
    <3> QED
      BY <3>1
  <2> QED
    BY <1>1, <2>1
<1>4. v \in Seq(Strings) /\ Len(v) = Len(c) - a
  <2>1. \A i \in a + 1 .. Len(c) : c[i] \in Strings
    BY <1>1
  <2> QED
    BY <1>1, <2>1, SubSeqProperties
<1>5. Len(v) % WireLimit = Len(v)
  <2>1. Len(v) \in Nat /\ Len(v) < WireLimit
    BY <1>1, <1>4
  <2> HIDE DEF v
  <2> QED
    BY <2>1, <1>1
<1>6. SubSeq(v, 1, Len(v)) = v
  BY <1>4, SubSeqFull
<1>7. Update(c, a) = [type |-> "Update", start |-> a, values |-> v]
  <2> HIDE DEF v
  <2>1. Update(c, a) = [type |-> "Update", start |-> a % WireLimit,
                        values |-> SubSeq(v, 1, Len(v) % WireLimit)]
    BY <1>3 DEF Update, v
  <2> QED
    BY <2>1, <1>2, <1>5, <1>6
<1>8. Update(c, a) \in UpdateMessage
  BY <1>4, <1>7, <1>1 DEF UpdateMessage
<1> QED
  BY <1>1, <1>7, <1>8 DEF Link

(* What a text message carries is known by the cache that encoded it.      *)
LEMMA TextFacts ==
  ASSUME NEW c \in Seq(Strings), NEW s \in Strings
  PROVE  /\ Text(c, s) \in TextMessage
         /\ Text(c, s).meant = s
         /\ Text(c, s).id = 0 \/ (Text(c, s).id \in 1 .. Len(c) /\ c[Text(c, s).id] = s)
<1>1. DOMAIN c = 1 .. Len(c) /\ Len(c) \in Nat
  OBVIOUS
<1>2. CASE IdsOf(c, s) = {}
  BY <1>2 DEF Text, TextMessage
<1>3. CASE IdsOf(c, s) # {}
  <2> DEFINE i == CHOOSE i \in IdsOf(c, s) : TRUE
  <2>1. i \in IdsOf(c, s)
    BY <1>3
  <2>2. i \in 1 .. Len(c) /\ c[i] = s
    BY <2>1, <1>1 DEF IdsOf
  <2>3. Text(c, s) = [type |-> "Text", meant |-> s, id |-> i]
    BY <1>3 DEF Text
  <2> HIDE DEF i
  <2> QED
    BY <2>2, <2>3, <1>1 DEF TextMessage
<1> QED
  BY <1>2, <1>3

(* A client that knows a strings and reads an update knows more of them.   *)
LEMMA ExtendedIsPrefix ==
  ASSUME NEW c \in Seq(Strings), Distinct(c), NEW k \in Seq(Strings), Prefix(k, c),
         NEW b \in Len(k) .. Len(c), NEW v, v = SubSeq(c, Len(k) + 1, b)
  PROVE  /\ Extended(k, v) \in Seq(Strings)
         /\ Len(Extended(k, v)) = b
         /\ Prefix(Extended(k, v), c)
<1> DEFINE a == Len(k)
<1>1. a \in Nat /\ a <= Len(c) /\ Len(c) \in Nat /\ b \in Nat /\ k = SubSeq(c, 1, a)
  BY DEF Prefix
<1>2. v \in Seq(Strings) /\ Len(v) = b - a /\ \A i \in 1 .. b - a : v[i] = c[a + i]
  <2>1. \A i \in a + 1 .. b : c[i] \in Strings
    BY <1>1
  <2>2. /\ v \in Seq(Strings)
        /\ Len(v) = IF a + 1 <= b THEN b - (a + 1) + 1 ELSE 0
        /\ \A i \in 1 .. b - (a + 1) + 1 : v[i] = c[(a + 1) + i - 1]
    BY <1>1, <2>1, SubSeqProperties
  <2>3. b - (a + 1) + 1 = b - a /\ a <= b
    BY <1>1
  <2>4. \A i \in Int : (a + 1) + i - 1 = a + i
    BY <1>1
  <2> HIDE DEF a
  <2> QED
    BY <2>2, <2>3, <2>4, <1>1
<1>3. \A i \in 1 .. a : k[i] = c[i]
  <2>1. \A i \in 1 .. a : c[i] \in Strings
    BY <1>1
  <2>2. \A i \in 1 .. a - 1 + 1 : SubSeq(c, 1, a)[i] = c[1 + i - 1]
    BY <1>1, <2>1, SubSeqProperties
  <2> QED
    BY <1>1, <2>2
<1>4. Elements(v) \cap Elements(k) = {}
  <2>1. SUFFICES ASSUME NEW i \in DOMAIN v, NEW j \in DOMAIN k, v[i] = k[j]
                 PROVE  FALSE
    BY DEF Elements
  <2>3. i \in 1 .. b - a /\ j \in 1 .. a
    <3>1. DOMAIN v = 1 .. Len(v) /\ DOMAIN k = 1 .. Len(k)
      BY <1>2, LenProperties
    <3> QED
      BY <3>1, <1>2
  <2>2. c[a + i] = c[j] /\ a + i \in 1 .. Len(c) /\ j \in 1 .. Len(c)
    <3> HIDE DEF a
    <3>1. v[i] = c[a + i] /\ k[j] = c[j]
      BY <1>2, <1>3, <2>3
    <3> QED
      BY <3>1, <1>1, <2>1, <2>3
  <2>4. a + i = j
    BY <2>2 DEF Distinct
  <2> QED
    BY <2>3, <2>4, <1>1
<1>5. Extended(k, v) = k \o v
  BY <1>4 DEF Extended
<1>6. k \o v = SubSeq(c, 1, b)
  <2>1. 1 \in 1 .. Len(c) + 1 /\ a \in 1 - 1 .. Len(c) /\ b \in a .. Len(c)
    BY <1>1
  <2> QED
    BY <1>1, <2>1, ConcatAdjacentSubSeq
<1>7. k \o v \in Seq(Strings) /\ Len(k \o v) = b
  <2>1. k \o v \in Seq(Strings) /\ Len(k \o v) = Len(k) + Len(v)
    BY <1>2, ConcatProperties
  <2>2. Len(k) + Len(v) = b
    <3>1. Len(v) = b - a /\ Len(k) = a
      BY <1>2
    <3> HIDE DEF a
    <3> QED
      BY <3>1, <1>1
  <2> QED
    BY <2>1, <2>2
<1>8. b <= Len(c)
  BY <1>1
<1> QED
  BY <1>5, <1>6, <1>7, <1>8 DEF Prefix

(* A prefix of the cache decodes like the cache, as far as it goes.        *)
LEMMA PrefixDecodes ==
  ASSUME NEW c \in Seq(Strings), NEW k \in Seq(Strings), Prefix(k, c)
  PROVE  \A i \in 1 .. Len(k) : k[i] = c[i] /\ i \in DOMAIN k /\ i \in DOMAIN c
<1>1. \A i \in 1 .. Len(k) : c[i] \in Strings
  BY DEF Prefix
<1>2. \A i \in 1 .. Len(k) - 1 + 1 : SubSeq(c, 1, Len(k))[i] = c[1 + i - 1]
  BY <1>1, SubSeqProperties
<1> QED
  BY <1>2 DEF Prefix

(* A longer cache has the same prefixes and decodes the same.              *)
LEMMA PrefixGrows ==
  ASSUME NEW c \in Seq(Strings), NEW o \in Seq(Strings), NEW k \in Seq(Strings),
         Prefix(k, c)
  PROVE  Prefix(k, c \o o)
<1>1. Len(k) \in Nat /\ Len(k) <= Len(c) /\ Len(c) <= Len(c \o o)
  BY DEF Prefix
<1>2. SubSeq(c \o o, 1, Len(k)) = SubSeq(c, 1, Len(k))
  <2>1. CASE Len(k) = 0
    BY <2>1, SubSeqEmpty
  <2>2. CASE Len(k) # 0
    BY <1>1, <2>2, SubSeqOfConcat1
  <2> QED
    BY <2>1, <2>2
<1> QED
  BY <1>1, <1>2 DEF Prefix

(* A message that could be decoded still can when the cache has grown.     *)
LEMMA DecodesGrows ==
  ASSUME NEW c \in Seq(Strings), NEW o \in Seq(Strings), NEW m, Decodes(c, m)
  PROVE  Decodes(c \o o, m)
  BY DEF Decodes

---------------------------------------------------------------------------
(* The inductive invariant gives what is promised.                         *)
LEMMA IInvImpliesCacheInv == IInv => CacheInv
<1> SUFFICES ASSUME IInv PROVE CacheInv
  OBVIOUS
<1>1. TypeOK /\ KnownIsPrefix
  BY DEF IInv, ClientInv, KnownIsPrefix, Prefix
<1>2. ASSUME NEW p \in Clients, toClient[p] # <<>>
      PROVE  /\ Head(toClient[p]).type = "Update" =>
                    Head(toClient[p]).start = Len(known[p])
             /\ Head(toClient[p]).type = "Text" => Decodes(known[p], Head(toClient[p]))
  <2>1. Connected(p) /\ Prefix(known[p], idToString)
    BY <1>2 DEF IInv, ClientInv, Gone
  <2>2. /\ toClient[p] \in Seq(Message) /\ idToString \in Seq(Strings)
        /\ known[p] \in Seq(Strings)
    BY <1>1 DEF TypeOK, Message
  <2>3. PICK a \in 0 .. Len(idToString) :
          Link(idToString, Head(toClient[p]), Len(known[p]), a)
    BY <1>2, <2>1, <2>2, ChainTail DEF Connected
  <2>4. \A i \in 1 .. Len(known[p]) :
          known[p][i] = idToString[i] /\ i \in DOMAIN known[p]
    BY <2>1, <2>2, PrefixDecodes
  <2> QED
    BY <2>3, <2>4, Kinds DEF Link, Decodes
<1>3. ASSUME NEW p \in Clients, toServer[p] # <<>>
      PROVE  Decodes(idToString, Head(toServer[p]))
  <2>1. toServer[p] \in Seq(TextMessage)
    BY <1>1 DEF TypeOK
  <2>2. 1 \in 1 .. Len(toServer[p]) /\ Head(toServer[p]) = toServer[p][1]
    BY <1>3, <2>1, EmptySeq
  <2> QED
    BY <2>2 DEF IInv, ClientInv, Understood
<1> QED
  BY <1>1, <1>2, <1>3 DEF CacheInv, ContiguousUpdates, ReadersUnderstand

(* It holds at the start.                                                  *)
LEMMA InitIInv == Init => IInv
<1> SUFFICES ASSUME Init PROVE IInv
  OBVIOUS
<1>1. TypeOK
  BY DEF Init, TypeOK
<1>2. SubSeq(<<>>, 1, 0) = <<>>
  BY SubSeqEmpty
<1> QED
  BY <1>1, <1>2 DEF Init, IInv, ClientInv, Distinct, Prefix, Gone, Understood

---------------------------------------------------------------------------
(* The new strings are numbered once each, and were not numbered before.   *)
LEMMA DistinctGrows ==
  ASSUME NEW c \in Seq(Strings), NEW o \in Seq(Strings), Distinct(c), Distinct(o),
         \A i \in 1 .. Len(o) : o[i] \notin Elements(c)
  PROVE  Distinct(c \o o)
<1>1. /\ Len(c) \in Nat /\ Len(o) \in Nat /\ Len(c \o o) = Len(c) + Len(o)
      /\ \A i \in 1 .. Len(c) + Len(o) :
            (c \o o)[i] = IF i <= Len(c) THEN c[i] ELSE o[i - Len(c)]
  BY ConcatProperties
<1>2. \A i \in 1 .. Len(c) : c[i] \in Elements(c)
  BY LenProperties DEF Elements
<1> SUFFICES ASSUME NEW i \in 1 .. Len(c) + Len(o), NEW j \in 1 .. Len(c) + Len(o),
                    (c \o o)[i] = (c \o o)[j]
             PROVE  i = j
  BY <1>1 DEF Distinct
<1>3. CASE i <= Len(c) /\ j <= Len(c)
  BY <1>3, <1>1 DEF Distinct
<1>4. CASE i > Len(c) /\ j > Len(c)
  <2>1. i - Len(c) \in 1 .. Len(o) /\ j - Len(c) \in 1 .. Len(o)
    BY <1>4, <1>1
  <2>2. o[i - Len(c)] = o[j - Len(c)]
    BY <1>4, <1>1
  <2>3. i - Len(c) = j - Len(c)
    BY <2>1, <2>2 DEF Distinct
  <2> QED
    BY <2>3, <1>1
<1>5. ASSUME NEW x \in 1 .. Len(c), NEW y \in 1 .. Len(c) + Len(o), y > Len(c)
      PROVE  (c \o o)[x] # (c \o o)[y]
  <2>1. y - Len(c) \in 1 .. Len(o) /\ x \in 1 .. Len(c) + Len(o)
    BY <1>5, <1>1
  <2>2. (c \o o)[x] = c[x] /\ (c \o o)[y] = o[y - Len(c)]
    BY <1>5, <2>1, <1>1
  <2> QED
    BY <2>1, <2>2, <1>2
<1>6. \/ i \in 1 .. Len(c) /\ j \in 1 .. Len(c)
      \/ i \in 1 .. Len(c) /\ j > Len(c)
      \/ i > Len(c) /\ j \in 1 .. Len(c)
      \/ i > Len(c) /\ j > Len(c)
  BY <1>1
<1> QED
  BY <1>3, <1>4, <1>5, <1>6

(* The types of one connection.                                            *)
LEMMA TypesOfState ==
  ASSUME TypeOK, NEW p \in Clients
  PROVE  /\ idToString \in Seq(Strings) /\ Len(idToString) \in Nat
         /\ toClient[p] \in Seq(Message) /\ toServer[p] \in Seq(TextMessage)
         /\ known[p] \in Seq(Strings) /\ Len(known[p]) \in Nat
BY DEF TypeOK, Message

(* What a step does not touch stays as it is.                              *)
LEMMA ClientUntouched ==
  ASSUME NEW p \in Clients, ClientInv(p), idToString' = idToString,
         stringCacheId'[p] = stringCacheId[p], toClient'[p] = toClient[p],
         toServer'[p] = toServer[p], known'[p] = known[p],
         p \in online' <=> p \in online
  PROVE  ClientInv(p)'
BY DEF ClientInv, Connected, Gone, Understood

(* A message to some players uses numbers that each knows when it reads    *)
(* it, for the chain of each ends with all there are.                      *)
LEMMA ServerSendsIInv ==
  ASSUME IInv, NEW s \in Strings, NEW P \in SUBSET Clients, ServerSends(P, s)
  PROVE  IInv'
<1> DEFINE c == idToString
           m == Text(idToString, s)
<1>1. TypeOK
  BY DEF IInv
<1>2. m \in TextMessage /\ m.meant = s /\ m \in Message
  BY <1>1, TextFacts DEF TypeOK, Message
<1>3. TypeOK'
  <2>1. \A p \in Clients : Append(toClient[p], m) \in Seq(Message)
    BY <1>1, <1>2, TypesOfState, AppendProperties
  <2>2. toClient' \in [Clients -> Seq(Message)]
    <3> HIDE DEF m
    <3>1. toClient' = [p \in Clients |-> IF p \in P THEN Append(toClient[p], m) ELSE toClient[p]]
      BY DEF ServerSends, Queue, m
    <3> QED
      BY <3>1, <2>1, <1>1, TypesOfState
  <2> QED
    BY <1>1, <2>2 DEF ServerSends, TypeOK, Message
<1>4. ASSUME NEW p \in Clients PROVE ClientInv(p)'
  <2>1. ClientInv(p)
    BY DEF IInv
  <2>2. CASE p \notin P
    <3>1. toClient'[p] = toClient[p]
      BY <2>2 DEF ServerSends, Queue
    <3> QED
      BY <2>1, <3>1, ClientUntouched DEF ServerSends
  <2>3. CASE p \in P
    <3>1. p \in online /\ toClient'[p] = Append(toClient[p], m)
      BY <2>3 DEF ServerSends, Queue
    <3>2. Chain(c, toClient[p], Len(known[p]), Len(c))
      BY <2>1, <3>1 DEF ClientInv, Connected
    <3>3. Link(c, m, Len(c), Len(c))
      <4>1. m.id = 0 \/ (m.id \in 1 .. Len(c) /\ c[m.id] = m.meant)
        BY <1>1, TextFacts DEF TypeOK
      <4> HIDE DEF m
      <4> QED
        BY <4>1, <1>2 DEF Link
    <3>4. Chain(c, Append(toClient[p], m), Len(known[p]), Len(c))
      <4>1. Len(c) \in 0 .. Len(c) /\ c \in Seq(Strings) /\ toClient[p] \in Seq(Message)
        BY <1>1, TypesOfState
      <4> HIDE DEF c, m
      <4> QED
        BY <4>1, <1>2, <3>2, <3>3, ChainAppend
    <3>5. Connected(p)'
      BY <2>1, <3>1, <3>4 DEF ClientInv, Connected, ServerSends
    <3> QED
      BY <2>1, <3>1, <3>5 DEF ClientInv, Understood, ServerSends
  <2> QED
    BY <2>2, <2>3
<1> QED
  BY <1>3, <1>4 DEF IInv, ServerSends

(* A connection begins with an empty cache and all that is numbered.       *)
LEMMA ConnectIInv ==
  ASSUME FewStrings, IInv, NEW p \in Clients, Connect(p)
  PROVE  IInv'
<1> DEFINE c == idToString
           u == Update(idToString, 0)
<1>1. TypeOK /\ Distinct(c) /\ c \in Seq(Strings) /\ Len(c) \in Nat
  BY TypesOfState DEF IInv
<1>2. u \in UpdateMessage /\ Link(c, u, 0, Len(c))
  BY <1>1, UpdateLinks
<1>3. u \in Message /\ Accepted \in Message
  BY <1>2 DEF Message
<1>4. toClient'[p] = <<Accepted, u>> /\ toClient'[p] \in Seq(Message)
  BY <1>1, <1>3 DEF Connect, TypeOK
<1>5. TypeOK'
  <2>1. toClient' \in [Clients -> Seq(Message)]
    <3> HIDE DEF u
    <3>1. toClient' = [toClient EXCEPT ![p] = <<Accepted, u>>]
      BY DEF Connect, u
    <3>2. toClient \in [Clients -> Seq(Message)]
      BY <1>1 DEF TypeOK, Message
    <3>3. <<Accepted, u>> \in Seq(Message)
      BY <1>4
    <3> QED
      BY <3>1, <3>2, <3>3
  <2> QED
    BY <1>1, <2>1 DEF Connect, TypeOK, Message
<1>6. ASSUME NEW q \in Clients, q # p PROVE ClientInv(q)'
  <2>1. ClientInv(q)
    BY DEF IInv
  <2> QED
    BY <1>1, <1>6, <2>1, ClientUntouched DEF Connect, TypeOK
<1>7. ClientInv(p)'
  <2>1. ClientInv(p) /\ Len(known[p]) \in 0 .. Len(c) /\ 0 \in 0 .. Len(c) /\ Len(c) \in 0 .. Len(c)
    BY <1>1, TypesOfState DEF IInv, ClientInv, Prefix
  <2>2. Chain(c, <<>>, Len(known[p]), Len(known[p]))
    <3> DEFINE r == [i \in 0 .. 0 |-> Len(known[p])]
    <3>1. r \in [0 .. Len(<<>>) -> 0 .. Len(c)] /\ r[0] = Len(known[p]) /\ Len(<<>>) = 0
      BY <2>1, EmptySeq
    <3> HIDE DEF r
    <3> QED
      BY <3>1 DEF Chain
  <2>3. Link(c, Accepted, Len(known[p]), 0)
    BY DEF Link
  <2>4. Chain(c, Append(<<>>, Accepted), Len(known[p]), 0)
    BY <1>1, <1>3, <2>1, <2>2, <2>3, EmptySeq, ChainAppend
  <2>5. Append(<<>>, Accepted) \in Seq(Message)
    BY <1>3, EmptySeq, AppendProperties
  <2>6. Chain(c, Append(Append(<<>>, Accepted), u), Len(known[p]), Len(c))
    <3> HIDE DEF u, c
    <3> QED
      BY <1>1, <1>2, <1>3, <2>1, <2>4, <2>5, ChainAppend
  <2>7. Append(Append(<<>>, Accepted), u) = <<Accepted, u>>
    <3> HIDE DEF u
    <3> DEFINE s == Append(<<>>, Accepted)
               t == Append(s, u)
    <3>1. s \in Seq(Message) /\ Len(s) = 1 /\ s[1] = Accepted
      BY <1>3, EmptySeq, AppendProperties
    <3>2. t \in Seq(Message) /\ Len(t) = 2 /\ t[1] = Accepted /\ t[2] = u
      <4> HIDE DEF s
      <4>1. /\ t \in Seq(Message) /\ Len(t) = Len(s) + 1
            /\ \A i \in 1 .. Len(s) : t[i] = s[i]
            /\ t[Len(s) + 1] = u
        BY <1>3, <3>1, AppendProperties
      <4> QED
        BY <3>1, <4>1
    <3>3. LET v == <<Accepted, u>>
          IN  v \in Seq(Message) /\ Len(v) = 2 /\ v[1] = Accepted /\ v[2] = u
      BY <1>3
    <3>4. \A i \in 1 .. Len(t) : t[i] = <<Accepted, u>>[i]
      <4>1. 1 .. Len(t) = {1, 2}
        BY <3>2
      <4> HIDE DEF t
      <4> QED
        BY <4>1, <3>2, <3>3
    <3> HIDE DEF t
    <3>5. t = <<Accepted, u>>
      BY <3>2, <3>3, <3>4, SeqEqual
    <3> QED
      BY <3>5 DEF t
  <2>8. stringCacheId'[p] = Len(c) /\ known'[p] = known[p] /\ idToString' = c /\ p \in online'
    BY <1>1 DEF Connect, TypeOK
  <2>9. Connected(p)'
    BY <1>4, <2>6, <2>7, <2>8 DEF Connected
  <2> QED
    BY <2>1, <2>8, <2>9 DEF ClientInv, Understood, Connect
<1> QED
  BY <1>1, <1>5, <1>6, <1>7 DEF IInv, Connect

(* A connection that ends leaves nothing to be read.                       *)
LEMMA DisconnectIInv ==
  ASSUME IInv, NEW p \in Clients, Disconnect(p)
  PROVE  IInv'
<1>1. TypeOK
  BY DEF IInv
<1>2. TypeOK'
  BY <1>1, EmptySeq DEF Disconnect, TypeOK
<1>3. ASSUME NEW q \in Clients, q # p PROVE ClientInv(q)'
  <2>1. ClientInv(q)
    BY DEF IInv
  <2> QED
    BY <1>1, <1>3, <2>1, ClientUntouched DEF Disconnect, TypeOK
<1>4. ClientInv(p)'
  <2>1. /\ toClient'[p] = <<>> /\ toServer'[p] = <<>> /\ known'[p] = <<>>
        /\ p \notin online' /\ idToString' = idToString
    BY <1>1 DEF Disconnect, TypeOK
  <2>2. SubSeq(idToString, 1, 0) = <<>> /\ Len(<<>>) = 0 /\ Len(idToString) \in Nat
    BY <1>1, SubSeqEmpty, EmptySeq, TypesOfState
  <2>3. Prefix(<<>>, idToString)
    BY <2>2 DEF Prefix
  <2> QED
    BY <2>1, <2>2, <2>3 DEF ClientInv, Gone, Understood
<1> QED
  BY <1>2, <1>3, <1>4 DEF IInv, Disconnect

(* What the server takes off a connection was understood, as is the rest.  *)
LEMMA ServerReadsIInv ==
  ASSUME IInv, NEW p \in Clients, ServerReads(p)
  PROVE  IInv'
<1>1. TypeOK /\ toServer[p] \in Seq(TextMessage) /\ toServer[p] # <<>>
  BY TypesOfState DEF IInv, ServerReads
<1>2. /\ Head(toServer[p]) \in TextMessage /\ Tail(toServer[p]) \in Seq(TextMessage)
      /\ Len(Tail(toServer[p])) = Len(toServer[p]) - 1 /\ Len(toServer[p]) \in Nat
      /\ \A i \in 1 .. Len(Tail(toServer[p])) : Tail(toServer[p])[i] = toServer[p][i + 1]
  BY <1>1, HeadTailProperties
<1>3. TypeOK'
  BY <1>1, <1>2 DEF ServerReads, TypeOK, TextMessage
<1>4. ASSUME NEW q \in Clients, q # p PROVE ClientInv(q)'
  <2>1. ClientInv(q)
    BY DEF IInv
  <2> QED
    BY <1>1, <1>4, <2>1, ClientUntouched DEF ServerReads, TypeOK
<1>5. ClientInv(p)'
  <2>1. ClientInv(p) /\ toServer'[p] = Tail(toServer[p])
    BY <1>1 DEF IInv, ServerReads, TypeOK
  <2>2. p \in online
    BY <1>1, <2>1 DEF ClientInv, Gone
  <2>3. ASSUME NEW i \in 1 .. Len(Tail(toServer[p]))
        PROVE  Decodes(idToString, Tail(toServer[p])[i])
    <3>1. i + 1 \in 1 .. Len(toServer[p])
      BY <1>2
    <3> QED
      BY <1>2, <2>1, <3>1 DEF ClientInv, Understood
  <2>4. Understood(p)'
    BY <2>1, <2>3 DEF Understood, ServerReads
  <2> QED
    BY <2>1, <2>2, <2>4 DEF ClientInv, Connected, ServerReads
<1> QED
  BY <1>1, <1>3, <1>4, <1>5 DEF IInv, ServerReads

(* What the client has numbered, the server has numbered alike.            *)
LEMMA ClientSendsIInv ==
  ASSUME IInv, NEW p \in Clients, NEW s \in Strings, ClientSends(p, s)
  PROVE  IInv'
<1> DEFINE m == Text(known[p], s)
<1>1. /\ TypeOK /\ ClientInv(p) /\ p \in online
      /\ known[p] \in Seq(Strings) /\ idToString \in Seq(Strings)
      /\ toServer[p] \in Seq(TextMessage)
  BY TypesOfState DEF IInv, ClientSends
<1>2. m \in TextMessage /\ m.meant = s /\ (m.id = 0 \/ (m.id \in 1 .. Len(known[p]) /\ known[p][m.id] = s))
  BY <1>1, TextFacts
<1>3. Decodes(idToString, m)
  <2>1. \A i \in 1 .. Len(known[p]) : known[p][i] = idToString[i] /\ i \in DOMAIN idToString
    BY <1>1, PrefixDecodes DEF ClientInv
  <2> HIDE DEF m
  <2> QED
    BY <1>2, <2>1 DEF Decodes
<1>4. toServer' = [q \in Clients |-> IF q = p THEN Append(toServer[q], m) ELSE toServer[q]]
  BY DEF ClientSends, Queue
<1> HIDE DEF m
<1>5. /\ Append(toServer[p], m) \in Seq(TextMessage)
      /\ Len(Append(toServer[p], m)) = Len(toServer[p]) + 1 /\ Len(toServer[p]) \in Nat
      /\ \A i \in 1 .. Len(toServer[p]) : Append(toServer[p], m)[i] = toServer[p][i]
      /\ Append(toServer[p], m)[Len(toServer[p]) + 1] = m
  BY <1>1, <1>2, AppendProperties
<1>6. TypeOK'
  <2>1. toServer' \in [Clients -> Seq(TextMessage)]
    BY <1>1, <1>4, <1>5 DEF TypeOK
  <2> QED
    BY <1>1, <2>1 DEF ClientSends, TypeOK
<1>7. ASSUME NEW q \in Clients, q # p PROVE ClientInv(q)'
  <2>1. ClientInv(q)
    BY DEF IInv
  <2> QED
    BY <1>4, <1>7, <2>1, ClientUntouched DEF ClientSends
<1>8. ClientInv(p)'
  <2>1. toServer'[p] = Append(toServer[p], m)
    BY <1>4
  <2>2. ASSUME NEW i \in 1 .. Len(toServer[p]) + 1
        PROVE  Decodes(idToString, Append(toServer[p], m)[i])
    <3>1. i = Len(toServer[p]) + 1 \/ i \in 1 .. Len(toServer[p])
      BY <1>5
    <3> QED
      BY <1>1, <1>3, <1>5, <3>1 DEF ClientInv, Understood
  <2>3. Understood(p)'
    BY <1>5, <2>1, <2>2 DEF Understood, ClientSends
  <2> QED
    BY <1>1, <2>3 DEF ClientInv, Connected, ClientSends
<1> QED
  BY <1>6, <1>7, <1>8 DEF IInv, ClientSends

(* The client reads: what is left leads from what it knows then.           *)
LEMMA ClientReadsIInv ==
  ASSUME IInv, NEW p \in Clients, ClientReads(p)
  PROVE  IInv'
<1> DEFINE c == idToString
           h == Head(toClient[p])
           k == known[p]
<1>1. /\ TypeOK /\ ClientInv(p) /\ Distinct(c) /\ c \in Seq(Strings) /\ Len(c) \in Nat
      /\ toClient[p] \in Seq(Message) /\ toClient[p] # <<>>
      /\ k \in Seq(Strings) /\ Len(k) \in Nat
  BY TypesOfState DEF IInv, ClientReads
<1>2. p \in online /\ Chain(c, toClient[p], Len(k), Len(c)) /\ stringCacheId[p] = Len(c)
  BY <1>1 DEF ClientInv, Gone, Connected
<1>3. h \in Message /\ Tail(toClient[p]) \in Seq(Message)
  BY <1>1, HeadTailProperties
<1>4. PICK a \in 0 .. Len(c) : Link(c, h, Len(k), a) /\ Chain(c, Tail(toClient[p]), a, Len(c))
  <2> HIDE DEF c
  <2> QED
    BY <1>1, <1>2, ChainTail
<1>5. PICK n \in Seq(Strings) :
          known' = [known EXCEPT ![p] = n] /\ Len(n) = a /\ Prefix(n, c)
  <2>1. CASE h = Accepted /\ a = 0
    <3>1. known' = [known EXCEPT ![p] = <<>>]
      BY <2>1, Kinds DEF ClientReads
    <3>2. <<>> \in Seq(Strings) /\ Len(<<>>) = 0 /\ SubSeq(c, 1, 0) = <<>>
      BY EmptySeq, SubSeqEmpty
    <3>3. Prefix(<<>>, c) /\ Len(<<>>) = a
      BY <2>1, <3>2, <1>1 DEF Prefix
    <3> QED
      BY <3>1, <3>2, <3>3
  <2>2. CASE h \in UpdateMessage /\ h.start = Len(k) /\ Len(k) <= a
             /\ h.values = SubSeq(c, Len(k) + 1, a)
    <3>1. known' = [known EXCEPT ![p] = Extended(k, h.values)]
      <4>1. h.type = "Update"
        BY <2>2, Kinds
      <4> QED
        BY <4>1, <1>1 DEF ClientReads, TypeOK
    <3>2. a \in Len(k) .. Len(c) /\ Prefix(k, c)
      BY <2>2, <1>1 DEF ClientInv
    <3>3. /\ Extended(k, h.values) \in Seq(Strings)
          /\ Len(Extended(k, h.values)) = a
          /\ Prefix(Extended(k, h.values), c)
      <4> HIDE DEF c, k, h
      <4> QED
        BY <2>2, <3>2, <1>1, ExtendedIsPrefix
    <3> QED
      BY <3>1, <3>3
  <2>3. CASE h \in TextMessage /\ a = Len(k)
    <3>1. known' = [known EXCEPT ![p] = k]
      <4>1. h.type = "Text"
        BY <2>3, Kinds
      <4> QED
        BY <4>1, <1>1 DEF ClientReads, TypeOK
    <3> QED
      BY <2>3, <3>1, <1>1 DEF ClientInv
  <2> QED
    BY <1>4, <2>1, <2>2, <2>3 DEF Link
<1>6. TypeOK'
  <2>1. known' \in [Clients -> Seq(Strings)]
    BY <1>1, <1>5 DEF TypeOK
  <2>2. toClient' \in [Clients -> Seq(Message)]
    BY <1>1, <1>3 DEF ClientReads, TypeOK, Message
  <2> QED
    BY <1>1, <2>1, <2>2 DEF ClientReads, TypeOK, Message
<1>7. ASSUME NEW q \in Clients, q # p PROVE ClientInv(q)'
  <2>1. ClientInv(q)
    BY DEF IInv
  <2> QED
    BY <1>1, <1>7, <2>1, ClientUntouched DEF ClientReads, TypeOK
<1>8. ClientInv(p)'
  <2>1. known'[p] = n /\ toClient'[p] = Tail(toClient[p]) /\ p \in online' /\ idToString' = c
    BY <1>1, <1>2, <1>5 DEF ClientReads, TypeOK
  <2>2. Connected(p)'
    BY <1>2, <1>4, <1>5, <2>1 DEF Connected, ClientReads
  <2> QED
    BY <1>1, <1>5, <2>1, <2>2 DEF ClientInv, Understood, ClientReads
<1> QED
  BY <1>1, <1>6, <1>7, <1>8 DEF IInv, ClientReads

(* The server numbers what is wanted and tells everyone what is new.       *)
LEMMA HandleUpdateIInv ==
  ASSUME FewStrings, IInv, HandleUpdate
  PROVE  IInv'
<1> DEFINE c == idToString
           new == wanted \ Elements(idToString)
<1>1. TypeOK /\ Distinct(c) /\ c \in Seq(Strings) /\ Len(c) \in Nat
  BY DEF IInv, TypeOK
<1>2. PICK o \in [1 .. Cardinality(new) -> new] :
          (\A i, j \in DOMAIN o : o[i] = o[j] => i = j) /\ idToString' = c \o o
  BY DEF HandleUpdate
<1>3. new \subseteq Strings /\ Cardinality(new) \in Nat
  BY <1>1, FS_Subset, FS_CardinalityType, StringCacheAssumption DEF TypeOK
<1>4. o \in Seq(Strings) /\ Len(o) = Cardinality(new) /\ Distinct(o)
      /\ \A i \in 1 .. Len(o) : o[i] \notin Elements(c)
  <2> HIDE DEF new
  <2>1. o \in [1 .. Cardinality(new) -> Strings]
    BY <1>3
  <2>2. o \in Seq(Strings) /\ Len(o) = Cardinality(new)
    BY <1>3, <2>1
  <2>3. \A i \in 1 .. Len(o) : o[i] \notin Elements(c)
    BY <2>2 DEF new
  <2> QED
    BY <1>2, <2>2, <2>3 DEF Distinct
<1> DEFINE d == c \o o
<1>5. /\ d \in Seq(Strings) /\ Len(d) = Len(c) + Len(o) /\ Distinct(d)
      /\ Len(d) \in Nat /\ Len(c) \in 0 .. Len(d) /\ Len(d) \in 0 .. Len(d)
  <2>1. Distinct(d)
    BY <1>1, <1>4, DistinctGrows
  <2>2. d \in Seq(Strings) /\ Len(d) = Len(c) + Len(o)
    BY <1>1, <1>4, ConcatProperties
  <2>3. Len(o) \in Nat
    BY <1>3, <1>4
  <2> QED
    BY <1>1, <2>1, <2>2, <2>3
<1> DEFINE u == Update(d, Len(c))
<1>6. u \in UpdateMessage /\ u \in Message /\ Link(d, u, Len(c), Len(d))
  <2>1. u \in UpdateMessage /\ Link(d, u, Len(c), Len(d))
    <3> HIDE DEF d, c
    <3> QED
      BY <1>5, UpdateLinks
  <2> QED
    BY <2>1 DEF Message
<1>7. idToString' = d
  BY <1>2
<1> HIDE DEF d, u, new
<1>8. \A p \in online : p \in Clients /\ stringCacheId[p] = Len(c)
  BY <1>1 DEF IInv, ClientInv, Connected, TypeOK
<1>9. toClient' = [p \in Clients |-> IF p \in online THEN Append(toClient[p], u) ELSE toClient[p]]
  BY <1>7, <1>8 DEF HandleUpdate, u
<1>10. \A p \in Clients : Append(toClient[p], u) \in Seq(Message)
  BY <1>1, <1>6, TypesOfState, AppendProperties
<1>11. TypeOK'
  <2>1. toClient' \in [Clients -> Seq(Message)]
    BY <1>1, <1>9, <1>10, TypesOfState
  <2>2. stringCacheId' \in [Clients -> Nat]
    BY <1>1, <1>5, <1>7 DEF HandleUpdate, TypeOK
  <2> QED
    BY <1>1, <1>5, <1>7, <2>1, <2>2 DEF HandleUpdate, TypeOK, Message
<1>12. ASSUME NEW p \in Clients PROVE ClientInv(p)'
  <2>1. /\ ClientInv(p) /\ known[p] \in Seq(Strings) /\ toClient[p] \in Seq(Message)
        /\ toServer[p] \in Seq(TextMessage)
    BY <1>1, TypesOfState DEF IInv
  <2>2. Prefix(known[p], d)
    BY <1>1, <1>4, <2>1, PrefixGrows DEF ClientInv, d
  <2>3. \A i \in 1 .. Len(toServer[p]) : Decodes(d, toServer[p][i])
    BY <1>1, <1>4, <2>1, DecodesGrows DEF ClientInv, Understood, d
  <2>4. p \notin online => Gone(p)'
    BY <1>9, <2>1 DEF ClientInv, Gone, HandleUpdate
  <2>5. ASSUME p \in online PROVE Connected(p)'
    <3>1. Chain(c, toClient[p], Len(known[p]), Len(c))
      BY <2>1, <2>5 DEF ClientInv, Connected
    <3>2. Chain(d, toClient[p], Len(known[p]), Len(c))
      <4> HIDE DEF c
      <4> QED
        BY <1>1, <1>4, <2>1, <3>1, ChainGrows DEF d
    <3>3. Chain(d, Append(toClient[p], u), Len(known[p]), Len(d))
      <4> HIDE DEF c
      <4> QED
        BY <1>5, <1>6, <2>1, <3>2, ChainAppend
    <3>4. toClient'[p] = Append(toClient[p], u) /\ stringCacheId'[p] = Len(d)
      BY <1>7, <1>9, <2>5 DEF HandleUpdate
    <3> QED
      BY <1>7, <3>3, <3>4 DEF Connected, HandleUpdate
  <2> QED
    BY <1>7, <2>2, <2>3, <2>4, <2>5 DEF ClientInv, Understood, HandleUpdate
<1> QED
  BY <1>5, <1>7, <1>11, <1>12 DEF IInv

(* Every step keeps the inductive invariant.                               *)
LEMMA NextIInv == FewStrings /\ IInv /\ [Next]_vars => IInv'
<1> SUFFICES ASSUME FewStrings, IInv, [Next]_vars PROVE IInv'
  OBVIOUS
<1>1. CASE HandleUpdate
  BY <1>1, HandleUpdateIInv
<1>2. ASSUME NEW s \in Strings, NEW P \in SUBSET Clients, ServerSends(P, s) PROVE IInv'
  BY <1>2, ServerSendsIInv
<1>3. ASSUME NEW p \in Clients, Connect(p) PROVE IInv'
  BY <1>3, ConnectIInv
<1>4. ASSUME NEW p \in Clients, Disconnect(p) PROVE IInv'
  BY <1>4, DisconnectIInv
<1>5. ASSUME NEW p \in Clients, ServerReads(p) PROVE IInv'
  BY <1>5, ServerReadsIInv
<1>6. ASSUME NEW p \in Clients, ClientReads(p) PROVE IInv'
  BY <1>6, ClientReadsIInv
<1>7. ASSUME NEW p \in Clients, NEW s \in Strings, ClientSends(p, s) PROVE IInv'
  BY <1>7, ClientSendsIInv
<1>8. CASE UNCHANGED vars
  BY <1>8 DEF vars, IInv, ClientInv, Connected, Gone, Understood, TypeOK
<1> QED
  BY <1>1, <1>2, <1>3, <1>4, <1>5, <1>6, <1>7, <1>8 DEF Next

(* While fewer strings are sent than the wire can count, every update      *)
(* a client reads continues its cache, every client's cache is a beginning *)
(* of the server's, and a number means to the reader of a message what it  *)
(* meant to the sender: the assertions of StringCache::Deserialize and     *)
(* CachedString::Deserialize never fail.                                   *)
THEOREM CacheSafety ==
  ASSUME FewStrings
  PROVE  Spec => []CacheInv
<1>1. Init => IInv
  BY InitIInv
<1>2. IInv /\ [Next]_vars => IInv'
  BY NextIInv
<1>3. IInv => CacheInv
  BY IInvImpliesCacheInv
<1> QED
  BY <1>1, <1>2, <1>3, PTL DEF Spec

(* The assertion of StringCache::Deserialize, that updates are contiguous,  *)
(* holds for every client.                                                  *)
COROLLARY UpdatesStayContiguous ==
  ASSUME FewStrings
  PROVE  Spec => []ContiguousUpdates
BY CacheSafety, PTL DEF CacheInv

(* The assertion of CachedString::Deserialize holds at both ends: whoever   *)
(* reads a number knows it, and as the string that was written.             *)
COROLLARY NumbersAreUnderstood ==
  ASSUME FewStrings
  PROVE  Spec => []ReadersUnderstand
BY CacheSafety, PTL DEF CacheInv

(* What a client knows is always a beginning of what the server has.        *)
COROLLARY CachesStayPrefixes ==
  ASSUME FewStrings
  PROVE  Spec => []KnownIsPrefix
BY CacheSafety, PTL DEF CacheInv

=============================================================================
