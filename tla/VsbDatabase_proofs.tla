-------------------------- MODULE VsbDatabase_proofs --------------------------
(***************************************************************************)
(* Theorems about the message database, for every history of calls and     *)
(* every size of the cache: table and cache keep the first message of      *)
(* every key, in the order of time where disorder is bounded and with the  *)
(* time of its stamp; captures and exports give back what went in, and the *)
(* summaries of the networks say what the table holds.                     *)
(***************************************************************************)
EXTENDS VsbDatabase, DataLemmas, FiniteSetTheorems

LEMMA MinIs ==
    ASSUME NEW t \in SUBSET Int, NEW m \in t, \A x \in t : m <= x
    PROVE  Min(t) = m
<1>1. \A y \in t : (\A x \in t : y <= x) => y = m
  BY SMT
<1> QED
  BY <1>1 DEF Min

LEMMA MinIn ==
    ASSUME NEW t \in SUBSET Nat, t # {}
    PROVE  Min(t) \in t /\ \A x \in t : Min(t) <= x
<1> DEFINE R == {ss \in Nat \X Nat : ss[1] < ss[2]}
<1>1. IsWellFoundedOn(R, Nat)
  BY NatLessThanWellFounded DEF OpToRel
<1> HIDE DEF R
<1>2. PICK m \in t : \A y \in t : ~(<<y, m>> \in R)
  BY <1>1, WFMin
<1>3. ASSUME NEW y \in t PROVE m <= y
  <2>1. y \in Nat /\ m \in Nat /\ ~(<<y, m>> \in R)
    BY <1>2
  <2>2. ~(y < m)
    BY <2>1 DEF R
  <2> QED
    BY <2>1, <2>2
<1>4. Min(t) = m
  <2>1. t \in SUBSET Int
    OBVIOUS
  <2> QED
    BY <1>3, <2>1, MinIs
<1> QED
  BY <1>3, <1>4

-------------------------------------------------------------------------------
(* The first row of each key of a sequence of rows.                        *)
Keys(s) == {KeyOf(r) : r \in ToSet(s)}
Firsts(s) == [k \in Keys(s) |-> s[Min({i \in DOMAIN s : KeyOf(s[i]) = k})]]

FirstAt(s, k, i) ==
    /\ i \in 1..Len(s) /\ KeyOf(s[i]) = k
    /\ \A j \in 1..Len(s) : KeyOf(s[j]) = k => i <= j

(* Of two functions the first one counts where both have a value.          *)
Over(f, g) == [k \in DOMAIN f \cup DOMAIN g |-> IF k \in DOMAIN f THEN f[k] ELSE g[k]]
One(row) == [k \in {KeyOf(row)} |-> row]

LEMMA KeysAre ==
    ASSUME NEW s \in Seq(Row), NEW k
    PROVE  k \in Keys(s) <=> \E i \in 1..Len(s) : KeyOf(s[i]) = k
<1>1. DOMAIN s = 1..Len(s)
  OBVIOUS
<1> QED
  BY <1>1 DEF Keys, ToSet

LEMMA FirstsAre ==
    ASSUME NEW s \in Seq(Row)
    PROVE  /\ Firsts(s) = [k \in Keys(s) |-> Firsts(s)[k]]
           /\ DOMAIN Firsts(s) = Keys(s)
           /\ \A k \in Keys(s) : \E i \in 1..Len(s) : FirstAt(s, k, i)
           /\ \A k \in Keys(s), i \in 1..Len(s) : FirstAt(s, k, i) => Firsts(s)[k] = s[i]
<1>1. DOMAIN s = 1..Len(s)
  OBVIOUS
<1>2. DOMAIN Firsts(s) = Keys(s) /\ Firsts(s) = [k \in Keys(s) |-> Firsts(s)[k]]
  BY DEF Firsts
<1>3. ASSUME NEW k \in Keys(s) PROVE \E i \in 1..Len(s) : FirstAt(s, k, i)
  <2> DEFINE t == {i \in 1..Len(s) : KeyOf(s[i]) = k}
  <2>1. t \in SUBSET Nat /\ t # {}
    BY KeysAre
  <2>2. Min(t) \in t /\ \A x \in t : Min(t) <= x
    <3> HIDE DEF t
    <3> QED
      BY <2>1, MinIn
  <2>3. PICK i : i = Min(t)
    OBVIOUS
  <2>4. FirstAt(s, k, i)
    BY <2>2, <2>3 DEF FirstAt
  <2> QED
    BY <2>4 DEF FirstAt
<1>4. ASSUME NEW k \in Keys(s), NEW i \in 1..Len(s), FirstAt(s, k, i)
      PROVE  Firsts(s)[k] = s[i]
  <2> DEFINE t == {j \in 1..Len(s) : KeyOf(s[j]) = k}
  <2>1. t \in SUBSET Int /\ i \in t /\ \A x \in t : i <= x
    BY <1>4 DEF FirstAt
  <2>2. Min(t) = i
    <3> HIDE DEF t
    <3> QED
      BY <2>1, MinIs
  <2> QED
    BY <1>1, <2>2 DEF Firsts
<1> QED
  BY <1>2, <1>3, <1>4

LEMMA FirstsOfEmpty == Firsts(<<>>) = <<>> /\ Keys(<<>>) = {}
<1>1. Keys(<<>>) = {}
  BY DEF Keys, ToSet
<1> QED
  BY <1>1 DEF Firsts

LEMMA FirstsOfAppend ==
    ASSUME NEW s \in Seq(Row), NEW x \in Row
    PROVE  Firsts(Append(s, x)) = Over(Firsts(s), One(x))
<1>1. PICK g \in Seq(Row) : EndsIn(g, s, x)
  BY EndsInAppended
<1>2. PICK n \in Nat : n = Len(s) /\ Len(g) = n + 1 /\ g[n + 1] = x /\ \A i \in 1..n : g[i] = s[i]
  BY <1>1 DEF EndsIn
<1>3. \A i \in 1..(n + 1) : i \in 1..n \/ i = n + 1
  OBVIOUS
<1>4. 1..n \subseteq 1..(n + 1) /\ n + 1 \in 1..(n + 1)
  OBVIOUS
<1>5. Keys(g) = Keys(s) \cup {KeyOf(x)}
  <2>1. ASSUME NEW k PROVE k \in Keys(g) <=> k \in Keys(s) \cup {KeyOf(x)}
    BY <1>2, <1>3, <1>4, KeysAre
  <2> QED
    BY <2>1
<1>6. ASSUME NEW k \in Keys(g)
      PROVE  Firsts(g)[k] = IF k \in Keys(s) THEN Firsts(s)[k] ELSE x
  <2>1. CASE k \in Keys(s)
    <3>1. PICK i \in 1..n : FirstAt(s, k, i)
      BY <1>2, <2>1, FirstsAre
    <3>2. Firsts(s)[k] = s[i]
      BY <1>2, <2>1, <3>1, FirstsAre
    <3>3. FirstAt(g, k, i)
      <4>1. i <= n + 1
        OBVIOUS
      <4> QED
        BY <1>2, <1>3, <1>4, <3>1, <4>1 DEF FirstAt
    <3>4. Firsts(g)[k] = g[i]
      BY <1>2, <1>4, <3>3, FirstsAre
    <3> QED
      BY <1>2, <2>1, <3>2, <3>4
  <2>2. CASE k \notin Keys(s)
    <3>1. k = KeyOf(x)
      BY <1>5, <2>2
    <3>2. FirstAt(g, k, n + 1)
      <4>1. \A i \in 1..n : KeyOf(g[i]) # k
        BY <1>2, <2>2, KeysAre
      <4>2. \A j \in 1..(n + 1) : KeyOf(g[j]) = k => n + 1 <= j
        BY <1>3, <4>1
      <4> QED
        BY <1>2, <1>4, <3>1, <4>2 DEF FirstAt
    <3>3. Firsts(g)[k] = g[n + 1]
      BY <1>2, <1>4, <3>2, FirstsAre
    <3> QED
      BY <1>2, <2>2, <3>3
  <2> QED
    BY <2>1, <2>2
<1>7. Firsts(g) = [k \in Keys(s) \cup {KeyOf(x)} |-> IF k \in Keys(s) THEN Firsts(s)[k] ELSE x]
  <2>1. Firsts(g) = [k \in Keys(g) |-> Firsts(g)[k]]
    BY FirstsAre
  <2> QED
    BY <2>1, <1>5, <1>6
<1>8. DOMAIN Firsts(s) = Keys(s)
  BY FirstsAre
<1>9. Over(Firsts(s), One(x)) = [k \in Keys(s) \cup {KeyOf(x)} |-> IF k \in Keys(s) THEN Firsts(s)[k] ELSE x]
  BY <1>8 DEF Over, One
<1> QED
  BY <1>1, <1>7, <1>9 DEF EndsIn

LEMMA OverAssociates ==
    ASSUME NEW f, NEW g, NEW h
    PROVE  Over(Over(f, g), h) = Over(f, Over(g, h))
  BY DEF Over

LEMMA FirstsJoined ==
    ASSUME NEW s \in Seq(Row), NEW t \in Seq(Row)
    PROVE  Firsts(s \o t) = Over(Firsts(s), Firsts(t))
<1> DEFINE S == {u \in Seq(Row) : Firsts(s \o u) = Over(Firsts(s), Firsts(u))}
<1>1. <<>> \in S
  <2>1. s \o <<>> = s
    OBVIOUS
  <2>2. Firsts(s) = [k \in Keys(s) |-> Firsts(s)[k]] /\ DOMAIN Firsts(s) = Keys(s)
    BY FirstsAre
  <2>3. Over(Firsts(s), <<>>) = [k \in Keys(s) |-> Firsts(s)[k]]
    BY <2>2 DEF Over
  <2> QED
    BY <2>1, <2>2, <2>3, FirstsOfEmpty
<1>2. ASSUME NEW u \in S, NEW x \in Row PROVE Append(u, x) \in S
  <2>1. u \in Seq(Row) /\ s \o u \in Seq(Row) /\ Firsts(s \o u) = Over(Firsts(s), Firsts(u))
    OBVIOUS
  <2>2. s \o Append(u, x) = Append(s \o u, x) /\ Append(u, x) \in Seq(Row)
    BY <2>1, AppendLast
  <2>3. Firsts(Append(s \o u, x)) = Over(Firsts(s \o u), One(x))
    BY <2>1, FirstsOfAppend
  <2>4. Firsts(Append(u, x)) = Over(Firsts(u), One(x))
    BY <2>1, FirstsOfAppend
  <2>5. Firsts(s \o Append(u, x)) = Over(Firsts(s), Firsts(Append(u, x)))
    BY <2>1, <2>2, <2>3, <2>4, OverAssociates
  <2> QED
    BY <2>2, <2>5
<1>3. S = Seq(Row)
  <2> HIDE DEF S
  <2>1. S \in SUBSET Seq(Row)
    BY DEF S
  <2> QED
    BY <1>1, <1>2, <2>1, SequenceInduction
<1> QED
  BY <1>3

LEMMA FirstsOfOne ==
    ASSUME NEW x \in Row
    PROVE  Firsts(<<x>>) = One(x) /\ <<x>> \in Seq(Row) /\ Len(<<x>>) = 1
<1>1. Append(<<>>, x) = <<x>> /\ <<>> \in Seq(Row) /\ <<x>> \in Seq(Row) /\ Len(<<x>>) = 1
  OBVIOUS
<1>2. Firsts(Append(<<>>, x)) = Over(<<>>, One(x))
  BY <1>1, FirstsOfAppend, FirstsOfEmpty
<1>3. Over(<<>>, One(x)) = One(x)
  BY DEF Over, One
<1> QED
  BY <1>1, <1>2, <1>3

-------------------------------------------------------------------------------
(* Saving rows in a table is a fold.                                       *)
Saving == [p \in Seq(Row) \X Row |-> SaveMessage(p[1], p[2])]

LEMMA SaveMessageType ==
    ASSUME NEW t \in Seq(Row), NEW x \in Row
    PROVE  SaveMessage(t, x) \in Seq(Row)
  BY AppendFacts DEF SaveMessage

LEMMA SavingType == Saving \in [Seq(Row) \X Row -> Seq(Row)]
  BY SaveMessageType DEF Saving

LEMMA SavingIsFold ==
    ASSUME NEW base \in Seq(Row), NEW s \in Seq(Row)
    PROVE  /\ FoldType(Seq(Row), Row, Saving, base, s)
           /\ SaveMessages(base, s) = FoldOf(Saving, base, s)
<1> DEFINE Eq(it) == it = [t \in SUBSET (DOMAIN s) |->
                             IF t = {} THEN base ELSE SaveMessage(it[t \ {Max(t)}], s[Max(t)])]
           j == CHOOSE it : Eq(it)
<1>1. FoldType(Seq(Row), Row, Saving, base, s)
  BY SavingType DEF FoldType
<1>2. DOMAIN s = 1..Len(s)
  OBVIOUS
<1>3. SaveMessages(base, s) = j[1..Len(s)]
  BY <1>2 DEF SaveMessages, FoldLeft, MapThenFoldSet
<1>4. \E it : Eq(it)
  <2>1. PICK it \in [SUBSET (1..Len(s)) -> Seq(Row)] : Folding(it, Len(s), Saving, base, s)
    BY <1>1, FoldingExists
  <2>2. ASSUME NEW t \in SUBSET (1..Len(s)), t # {}
        PROVE  it[t] = SaveMessage(it[t \ {Max(t)}], s[Max(t)])
    <3>1. it[t] = Saving[<<it[t \ {Max(t)}], s[Max(t)]>>]
      BY <2>1, <2>2 DEF Folding
    <3>2. it[t \ {Max(t)}] \in Seq(Row) /\ s[Max(t)] \in Row
      BY <2>1, <2>2, MaxIn
    <3> QED
      BY <3>1, <3>2 DEF Saving
  <2>3. it[{}] = base
    BY <2>1 DEF Folding
  <2>4. Eq(it)
    BY <1>2, <2>1, <2>2, <2>3
  <2> QED
    BY <2>4
<1>5. Eq(j)
  <2> HIDE DEF Eq
  <2> QED
    BY <1>4
<1> HIDE DEF j
<1>6. j[{}] = base
  BY <1>5
<1>7. ASSUME NEW t \in SUBSET (1..Len(s)), t # {}, j[t \ {Max(t)}] \in Seq(Row)
      PROVE  j[t] = Saving[<<j[t \ {Max(t)}], s[Max(t)]>>]
  <2>1. s[Max(t)] \in Row
    BY <1>7, MaxIn
  <2>2. j[t] = SaveMessage(j[t \ {Max(t)}], s[Max(t)])
    BY <1>2, <1>5, <1>7
  <2> HIDE DEF Eq
  <2> QED
    BY <1>7, <2>1, <2>2 DEF Saving
<1> HIDE DEF Eq
<1>8. j[1..Len(s)] = FoldOf(Saving, base, s)
  <2>1. FoldsWithin(j, Seq(Row), Saving, base, s)
    BY <1>6, <1>7 DEF FoldsWithin
  <2> QED
    BY <1>1, <2>1, FoldOfFolding
<1> QED
  BY <1>1, <1>3, <1>8

LEMMA SaveMessagesFacts ==
    ASSUME NEW t \in Seq(Row)
    PROVE  /\ SaveMessages(t, <<>>) = t
           /\ \A s \in Seq(Row) : SaveMessages(t, s) \in Seq(Row)
           /\ \A s \in Seq(Row), x \in Row :
                 SaveMessages(t, Append(s, x)) = SaveMessage(SaveMessages(t, s), x)
<1>1. SaveMessages(t, <<>>) = t
  <2>1. <<>> \in Seq(Row)
    OBVIOUS
  <2> QED
    BY <2>1, SavingIsFold, FoldOfEmpty
<1>2. ASSUME NEW s \in Seq(Row) PROVE SaveMessages(t, s) \in Seq(Row)
  <2>1. FoldOf(Saving, t, s) \in Seq(Row)
    BY SavingIsFold, FoldOfType
  <2> QED
    BY <2>1, SavingIsFold
<1>3. ASSUME NEW s \in Seq(Row), NEW x \in Row
      PROVE  SaveMessages(t, Append(s, x)) = SaveMessage(SaveMessages(t, s), x)
  <2>1. FoldOf(Saving, t, Append(s, x)) = Saving[<<FoldOf(Saving, t, s), x>>]
    BY SavingIsFold, FoldOfAppend
  <2>2. Append(s, x) \in Seq(Row)
    BY AppendFacts
  <2>3. SaveMessages(t, Append(s, x)) = Saving[<<SaveMessages(t, s), x>>]
    BY <2>1, <2>2, SavingIsFold
  <2> QED
    BY <1>2, <2>3 DEF Saving
<1> QED
  BY <1>1, <1>2, <1>3

(* The table then has the first row of each key, of its own and the others.*)
LEMMA SaveMessageFirsts ==
    ASSUME NEW t \in Seq(Row), NEW x \in Row
    PROVE  Firsts(SaveMessage(t, x)) = Over(Firsts(t), One(x))
<1>1. DOMAIN t = 1..Len(t)
  OBVIOUS
<1>2. Firsts(t) = [k \in Keys(t) |-> Firsts(t)[k]] /\ DOMAIN Firsts(t) = Keys(t)
  BY FirstsAre
<1>3. CASE KeyOf(x) \in Keys(t)
  <2>1. SaveMessage(t, x) = t
    BY <1>1, <1>3, KeysAre DEF SaveMessage
  <2>2. Over(Firsts(t), One(x)) = [k \in Keys(t) |-> Firsts(t)[k]]
    BY <1>2, <1>3 DEF Over, One
  <2> QED
    BY <1>2, <2>1, <2>2
<1>4. CASE KeyOf(x) \notin Keys(t)
  <2>1. SaveMessage(t, x) = Append(t, x)
    BY <1>1, <1>4, KeysAre DEF SaveMessage
  <2> QED
    BY <2>1, FirstsOfAppend
<1> QED
  BY <1>3, <1>4

LEMMA SaveMessagesFirsts ==
    ASSUME NEW t \in Seq(Row), NEW s \in Seq(Row)
    PROVE  Firsts(SaveMessages(t, s)) = Over(Firsts(t), Firsts(s))
<1> DEFINE S == {u \in Seq(Row) : Firsts(SaveMessages(t, u)) = Over(Firsts(t), Firsts(u))}
<1>1. <<>> \in S
  <2>1. Firsts(t) = [k \in Keys(t) |-> Firsts(t)[k]] /\ DOMAIN Firsts(t) = Keys(t)
    BY FirstsAre
  <2>2. Over(Firsts(t), <<>>) = [k \in Keys(t) |-> Firsts(t)[k]]
    BY <2>1 DEF Over
  <2> QED
    BY <2>1, <2>2, FirstsOfEmpty, SaveMessagesFacts
<1>2. ASSUME NEW u \in S, NEW x \in Row PROVE Append(u, x) \in S
  <2>1. u \in Seq(Row) /\ Firsts(SaveMessages(t, u)) = Over(Firsts(t), Firsts(u))
    OBVIOUS
  <2>2. Append(u, x) \in Seq(Row) /\ SaveMessages(t, u) \in Seq(Row)
    BY <2>1, SaveMessagesFacts, AppendFacts
  <2>3. Firsts(SaveMessages(t, Append(u, x))) = Over(Firsts(SaveMessages(t, u)), One(x))
    BY <2>1, <2>2, SaveMessagesFacts, SaveMessageFirsts
  <2>4. Firsts(Append(u, x)) = Over(Firsts(u), One(x))
    BY <2>1, FirstsOfAppend
  <2>5. Firsts(SaveMessages(t, Append(u, x))) = Over(Firsts(t), Firsts(Append(u, x)))
    BY <2>1, <2>3, <2>4, OverAssociates
  <2> QED
    BY <2>2, <2>5
<1>3. S = Seq(Row)
  <2> HIDE DEF S
  <2>1. S \in SUBSET Seq(Row)
    BY DEF S
  <2> QED
    BY <1>1, <1>2, <2>1, SequenceInduction
<1> QED
  BY <1>3

-------------------------------------------------------------------------------
(* The place of a message in the cache.                                    *)
LEMMA RowsOfSequence ==
    ASSUME NEW s \in Seq(Row)
    PROVE  \A i \in 1..Len(s) : s[i] \in Row /\ s[i].time \in Nat
<1>1. \A R : \A t \in Seq(R) : \A i \in 1..Len(t) : t[i] \in R
  OBVIOUS
<1>2. \A r \in Row : r.time \in Nat
  BY DEF Row
<1> QED
  BY <1>1, <1>2

InTime(s) == \A i, j \in 1..Len(s) : i < j => s[i].time <= s[j].time

Cut(s, n, a, b) ==
    /\ s = a \o b /\ Len(a) = n /\ Len(b) = Len(s) - n
    /\ \A i \in 1..n : a[i] = s[i]
    /\ \A i \in 1..(Len(s) - n) : b[i] = s[n + i]

LEMMA CutAt ==
    ASSUME NEW s \in Seq(Row), NEW n \in 0..Len(s)
    PROVE  /\ SubSeq(s, 1, n) \in Seq(Row) /\ SubSeq(s, n + 1, Len(s)) \in Seq(Row)
           /\ Cut(s, n, SubSeq(s, 1, n), SubSeq(s, n + 1, Len(s)))
<1>1. PICK m \in Nat : m = Len(s)
  OBVIOUS
<1>2. n \in Nat /\ n <= m
  BY <1>1
<1>3. SubSeq(s, 1, n) \in Seq(Row) /\ Len(SubSeq(s, 1, n)) = n
        /\ \A i \in 1..n : SubSeq(s, 1, n)[i] = s[i]
  BY FrontFacts
<1>4. /\ SubSeq(s, n + 1, m) \in Seq(Row) /\ Len(SubSeq(s, n + 1, m)) = m - n
      /\ \A i \in 1..(m - n) : SubSeq(s, n + 1, m)[i] = s[n + i]
  <2>1. \A i \in (n + 1)..m : s[i] \in Row
    <3>1. \A i \in (n + 1)..m : i \in 1..Len(s)
      BY <1>1, <1>2
    <3> QED
      BY <3>1
  <2>2. /\ SubSeq(s, n + 1, m) \in Seq(Row)
        /\ Len(SubSeq(s, n + 1, m)) = IF n + 1 <= m THEN m - (n + 1) + 1 ELSE 0
        /\ \A i \in 1..(m - (n + 1) + 1) : SubSeq(s, n + 1, m)[i] = s[(n + 1) + i - 1]
    BY <1>1, <1>2, <2>1, SubSeqProperties
  <2>3. m - (n + 1) + 1 = m - n /\ (IF n + 1 <= m THEN m - (n + 1) + 1 ELSE 0) = m - n
    BY <1>1, <1>2
  <2>4. \A i \in 1..(m - n) : (n + 1) + i - 1 = n + i
    BY <1>2
  <2> QED
    BY <2>2, <2>3, <2>4
<1>5. s = SubSeq(s, 1, n) \o SubSeq(s, n + 1, m)
  <2>1. SubSeq(s, 1, n) \o SubSeq(s, n + 1, m) = SubSeq(s, 1, m)
    <3>1. 1 \in 1..(Len(s) + 1) /\ n \in (1 - 1)..Len(s) /\ m \in n..Len(s)
      BY <1>1, <1>2
    <3> QED
      BY <3>1, ConcatAdjacentSubSeq
  <2> QED
    BY <1>1, <2>1, FrontIsAll
<1> QED
  BY <1>1, <1>3, <1>4, <1>5 DEF Cut

LEMMA MaxAbove ==
    ASSUME NEW s \in Seq(Row), NEW t \in SUBSET (1..Len(s)), t # {}
    PROVE  \A i \in t : i <= Max(t)
<1> DEFINE u == {Len(s) - i : i \in t}
<1>1. u \in SUBSET Nat /\ u # {}
  <2>1. Len(s) \in Nat
    OBVIOUS
  <2>2. \A i \in 1..Len(s) : Len(s) - i \in Nat
    BY <2>1
  <2> QED
    BY <2>2
<1>2. PICK k \in u : \A j \in u : k <= j
  <2> HIDE DEF u
  <2> QED
    BY <1>1, MinIn
<1>3. PICK m \in t : k = Len(s) - m
  BY <1>2
<1>4. ASSUME NEW i \in t PROVE m >= i
  <2>1. Len(s) - i \in u /\ k <= Len(s) - i
    BY <1>2
  <2> QED
    BY <1>3, <2>1
<1>5. t \in SUBSET Int
  OBVIOUS
<1>6. Max(t) = m
  BY <1>4, <1>5, MaxIs
<1> QED
  BY <1>4, <1>6

(* In a sequence that is sorted, the rows up to a time come first.         *)
UpTo(s, time) == {i \in 1..Len(s) : s[i].time <= time}

LEMMA UpToIsFront ==
    ASSUME NEW s \in Seq(Row), InTime(s), NEW time \in Nat
    PROVE  \E n \in 0..Len(s) : UpTo(s, time) = 1..n /\ Cardinality(UpTo(s, time)) = n
<1>0. \A i \in 1..Len(s) : s[i].time \in Nat
  BY RowsOfSequence
<1>1. PICK n \in 0..Len(s) : UpTo(s, time) = 1..n
  <2>1. CASE UpTo(s, time) = {}
    <3>1. 0 \in 0..Len(s) /\ 1..0 = {}
      OBVIOUS
    <3> QED
      BY <2>1, <3>1
  <2>2. CASE UpTo(s, time) # {}
    <3>1. UpTo(s, time) \in SUBSET (1..Len(s))
      BY DEF UpTo
    <3>2. PICK n : n = Max(UpTo(s, time))
      OBVIOUS
    <3>3. n \in UpTo(s, time)
      BY <2>2, <3>1, <3>2, MaxIn
    <3>4. \A i \in UpTo(s, time) : i <= n
      BY <2>2, <3>1, <3>2, MaxAbove
    <3>5. n \in 1..Len(s) /\ s[n].time <= time
      BY <3>3 DEF UpTo
    <3>6. ASSUME NEW i \in 1..n PROVE i \in UpTo(s, time)
      <4>1. i \in 1..Len(s) /\ (i < n \/ i = n)
        BY <3>5
      <4>2. s[i].time <= s[n].time
        BY <3>5, <4>1, <1>0 DEF InTime
      <4>3. s[i].time <= time
        BY <3>5, <4>1, <4>2, <1>0
      <4> QED
        BY <4>1, <4>3 DEF UpTo
    <3>7. UpTo(s, time) = 1..n
      <4>1. \A i \in UpTo(s, time) : i \in 1..n
        BY <3>1, <3>4, <3>5
      <4> QED
        BY <3>6, <4>1
    <3> QED
      BY <3>5, <3>7
  <2> QED
    BY <2>1, <2>2
<1>2. Cardinality(1..n) = n
  <2>1. n \in Nat /\ (IF 1 > n THEN 0 ELSE n - 1 + 1) = n
    OBVIOUS
  <2> QED
    BY <2>1, FS_Interval
<1> QED
  BY <1>1, <1>2

Inserted(s, x, n, g) ==
    /\ Len(g) = Len(s) + 1 /\ g[n + 1] = x
    /\ \A i \in 1..n : g[i] = s[i] /\ s[i].time <= x.time
    /\ \A i \in (n + 1)..Len(s) : g[i + 1] = s[i] /\ x.time < s[i].time

LEMMA InsertPlaces ==
    ASSUME NEW s \in Seq(Row), InTime(s), NEW x \in Row
    PROVE  /\ InsertByTime(s, x) \in Seq(Row)
           /\ \E n \in 0..Len(s) : Inserted(s, x, n, InsertByTime(s, x))
           /\ Firsts(InsertByTime(s, x)) = Over(Firsts(s), One(x))
<1>0. \A i \in 1..Len(s) : s[i].time \in Nat
  BY RowsOfSequence
<1>1. x.time \in Nat
  BY DEF Row
<1>2. PICK n \in 0..Len(s) : UpTo(s, x.time) = 1..n /\ Cardinality(UpTo(s, x.time)) = n
  BY <1>1, UpToIsFront
<1>3. PICK a \in Seq(Row), b \in Seq(Row) :
          a = SubSeq(s, 1, n) /\ b = SubSeq(s, n + 1, Len(s)) /\ Cut(s, n, a, b)
  BY CutAt
<1>31. Cut(s, n, a, b)
  BY <1>3
<1>4. InsertByTime(s, x) = a \o <<x>> \o b
  <2>1. DOMAIN s = 1..Len(s) /\ (n + 1) - 1 = n
    OBVIOUS
  <2>2. Cardinality({i \in DOMAIN s : s[i].time <= x.time}) = n
    BY <1>2, <2>1 DEF UpTo
  <2> QED
    BY <1>3, <2>1, <2>2 DEF InsertByTime, InsertAt
<1>5. PICK c \in Seq(Row) : c = a \o <<x>> /\ Len(c) = n + 1 /\ c[n + 1] = x
                              /\ \A i \in 1..n : c[i] = a[i]
  <2>1. a \o <<x>> = Append(a, x) /\ Len(a) = n
    BY <1>31, AppendIsConcat DEF Cut
  <2>2. PICK c : c = Append(a, x)
    OBVIOUS
  <2>3. c \in Seq(Row) /\ Len(c) = n + 1 /\ c[n + 1] = x /\ \A i \in 1..n : c[i] = a[i]
    BY <2>1, <2>2, AppendFacts
  <2> QED
    BY <2>1, <2>2, <2>3
<1>6. PICK m \in Nat : m = Len(s) /\ n <= m /\ n \in Nat
  OBVIOUS
<1>7. PICK g \in Seq(Row) :
          /\ g = c \o b /\ Len(g) = m + 1
          /\ \A i \in 1..(n + 1) : g[i] = c[i]
          /\ \A i \in 1..(m - n) : g[(n + 1) + i] = b[i]
  <2>1. Len(b) = m - n
    BY <1>31, <1>6 DEF Cut
  <2>2. /\ c \o b \in Seq(Row) /\ Len(c \o b) = m + 1
        /\ \A i \in 1..(m + 1) : (c \o b)[i] = IF i <= n + 1 THEN c[i] ELSE b[i - (n + 1)]
    <3>1. (n + 1) + (m - n) = m + 1
      BY <1>6
    <3> QED
      BY <1>5, <2>1, <3>1, ConcatProperties
  <2>3. \A i \in 1..(n + 1) : i \in 1..(m + 1) /\ i <= n + 1
    BY <1>6, <2>1
  <2>4. \A i \in 1..(m - n) : /\ (n + 1) + i \in 1..(m + 1) /\ ~((n + 1) + i <= n + 1)
                              /\ ((n + 1) + i) - (n + 1) = i
    BY <1>6, <2>1
  <2>5. PICK g \in Seq(Row) : g = c \o b
    BY <2>2
  <2>6. \A i \in 1..(n + 1) : g[i] = c[i]
    BY <2>2, <2>3, <2>5
  <2>7. \A i \in 1..(m - n) : g[(n + 1) + i] = b[i]
    BY <2>2, <2>4, <2>5
  <2> QED
    BY <2>2, <2>5, <2>6, <2>7
<1>8. Inserted(s, x, n, g)
  <2>1. ASSUME NEW i \in 1..n PROVE g[i] = s[i] /\ s[i].time <= x.time
    <3>1. i \in 1..(n + 1) /\ i \in UpTo(s, x.time)
      BY <1>2
    <3> QED
      BY <3>1, <1>31, <1>5, <1>7 DEF Cut, UpTo
  <2>2. ASSUME NEW i \in (n + 1)..m PROVE g[i + 1] = s[i] /\ x.time < s[i].time
    <3>1. PICK k \in 1..(m - n) : k = i - n
      BY <1>6
    <3>2. i = n + k /\ i + 1 = (n + 1) + k
      BY <3>1
    <3>3. g[i + 1] = s[i]
      <4>1. b[k] = s[n + k]
        BY <1>31, <1>6 DEF Cut
      <4>2. g[(n + 1) + k] = b[k]
        BY <1>7
      <4> QED
        BY <3>2, <4>1, <4>2
    <3>4. i \in 1..Len(s) /\ i \notin UpTo(s, x.time)
      BY <1>2, <1>6
    <3>5. PICK t \in Nat : t = s[i].time
      BY <1>0, <3>4
    <3>6. ~(t <= x.time)
      BY <3>4, <3>5 DEF UpTo
    <3>7. x.time < t
      BY <1>1, <3>6
    <3> QED
      BY <3>3, <3>5, <3>7
  <2>3. n + 1 \in 1..(n + 1)
    OBVIOUS
  <2> QED
    BY <1>5, <1>6, <1>7, <2>1, <2>2, <2>3 DEF Inserted
<1>9. Firsts(g) = Over(Firsts(s), One(x))
  <2>1. Firsts(g) = Over(Over(Firsts(a), One(x)), Firsts(b))
    <3>1. Firsts(c) = Over(Firsts(a), One(x))
      <4>1. c = Append(a, x)
        BY <1>5, AppendIsConcat
      <4> QED
        BY <4>1, FirstsOfAppend
    <3>2. Firsts(g) = Over(Firsts(c), Firsts(b))
      BY <1>7, FirstsJoined
    <3> QED
      BY <3>1, <3>2
  <2>2. Firsts(s) = Over(Firsts(a), Firsts(b))
    BY <1>31, FirstsJoined DEF Cut
  <2>3. KeyOf(x) \notin Keys(b)
    <3>1. SUFFICES ASSUME NEW i \in 1..Len(b), KeyOf(b[i]) = KeyOf(x) PROVE FALSE
      BY KeysAre
    <3>2. PICK j \in (n + 1)..m : b[i] = s[j]
      <4>1. Len(b) = m - n /\ \A k \in 1..(m - n) : b[k] = s[n + k]
        BY <1>31, <1>6 DEF Cut
      <4>2. i \in 1..(m - n) /\ n + i \in (n + 1)..m
        BY <1>6, <3>1, <4>1
      <4> QED
        BY <4>1, <4>2
    <3>3. x.time < s[j].time
      BY <1>6, <1>8, <3>2 DEF Inserted
    <3>4. s[j].time = x.time
      BY <3>1, <3>2 DEF KeyOf
    <3> QED
      BY <1>1, <3>3, <3>4
  <2>4. DOMAIN Firsts(b) = Keys(b)
    BY FirstsAre
  <2>5. Over(Over(Firsts(a), One(x)), Firsts(b)) = Over(Over(Firsts(a), Firsts(b)), One(x))
    BY <2>3, <2>4 DEF Over, One
  <2> QED
    BY <2>1, <2>2, <2>5
<1>10. g = InsertByTime(s, x)
  BY <1>4, <1>5, <1>7
<1> QED
  BY <1>8, <1>9, <1>10

LEMMA InsertedInTime ==
    ASSUME NEW s \in Seq(Row), InTime(s), NEW x \in Row, NEW n \in 0..Len(s),
           NEW g \in Seq(Row), Inserted(s, x, n, g)
    PROVE  InTime(g)
<1>0. \A i \in 1..Len(s) : s[i].time \in Nat
  BY RowsOfSequence
<1>1. x.time \in Nat
  BY DEF Row
<1>2. PICK m \in Nat : m = Len(s) /\ n <= m /\ n \in Nat /\ Len(g) = m + 1
  BY DEF Inserted
<1> DEFINE old(i) == IF i <= n THEN i ELSE i - 1
<1>3. ASSUME NEW i \in 1..(m + 1), i # n + 1
      PROVE  old(i) \in 1..m /\ g[i] = s[old(i)] /\ (i <= n <=> s[old(i)].time <= x.time)
  <2>1. CASE i <= n
    BY <1>2, <2>1 DEF Inserted
  <2>2. CASE ~(i <= n)
    <3>1. PICK k \in (n + 1)..m : k = i - 1 /\ i = k + 1
      BY <1>2, <1>3, <2>2
    <3>2. g[k + 1] = s[k] /\ x.time < s[k].time
      BY <1>2 DEF Inserted
    <3>3. k \in 1..m /\ s[k].time \in Nat
      BY <1>0, <1>2
    <3> QED
      BY <1>1, <2>2, <3>1, <3>2, <3>3
  <2> QED
    BY <2>1, <2>2
<1>4. g[n + 1] = x
  BY DEF Inserted
<1>5. ASSUME NEW i \in 1..(m + 1), NEW j \in 1..(m + 1), i < j
      PROVE  g[i].time <= g[j].time
  <2>1. CASE i = n + 1
    <3>1. j # n + 1 /\ ~(j <= n)
      BY <1>5, <2>1
    <3>2. g[j] = s[old(j)] /\ ~(s[old(j)].time <= x.time) /\ s[old(j)].time \in Nat
      BY <1>0, <1>2, <1>3, <3>1
    <3> HIDE DEF old
    <3> QED
      BY <1>1, <1>4, <2>1, <3>2
  <2>2. CASE j = n + 1
    <3>1. i # n + 1 /\ i <= n
      BY <1>5, <2>2
    <3>2. g[i] = s[old(i)] /\ s[old(i)].time <= x.time
      BY <1>3, <3>1
    <3> HIDE DEF old
    <3> QED
      BY <1>4, <2>2, <3>2
  <2>3. CASE i # n + 1 /\ j # n + 1
    <3>1. old(i) \in 1..m /\ old(j) \in 1..m /\ old(i) < old(j)
      BY <1>3, <1>5, <2>3
    <3>2. g[i] = s[old(i)] /\ g[j] = s[old(j)]
      BY <1>3, <2>3
    <3> HIDE DEF old
    <3> QED
      BY <1>2, <3>1, <3>2 DEF InTime
  <2> QED
    BY <2>1, <2>2, <2>3
<1> QED
  BY <1>2, <1>5 DEF InTime

(* A partial flush loses nothing, as the row that is saved and kept has    *)
(* its first one in the table then.                                        *)
LEMMA FlushFirsts ==
    ASSUME NEW t \in Seq(Row), NEW g \in Seq(Row), NEW k \in Nat, k + 1 <= Len(g)
    PROVE  LET saved == SaveMessages(t, SubSeq(g, 1, k + 1))
               kept == SubSeq(g, k + 1, Len(g))
           IN  /\ saved \in Seq(Row) /\ kept \in Seq(Row)
               /\ Firsts(saved \o kept) = Over(Firsts(t), Firsts(g))
<1>1. k + 1 \in 0..Len(g) /\ k \in 0..Len(g) /\ k + 1 \in 1..Len(g)
  OBVIOUS
<1>2. PICK p, r : p = SubSeq(g, 1, k + 1) /\ r = SubSeq(g, (k + 1) + 1, Len(g))
  OBVIOUS
<1>3. p \in Seq(Row) /\ r \in Seq(Row) /\ Cut(g, k + 1, p, r)
  BY <1>1, <1>2, CutAt
<1>4. PICK q : q = SubSeq(g, k + 1, Len(g))
  OBVIOUS
<1>5. q \in Seq(Row)
  BY <1>1, <1>4, CutAt
<1>6. PICK x \in Row : x = g[k + 1] /\ q = <<x>> \o r
  <2>1. g[k + 1] \in Row
    BY <1>1
  <2>2. q = <<g[k + 1]>> \o r
    <3>1. Len(g) \in (k + 1)..Len(g)
      BY <1>1
    <3> QED
      BY <1>1, <1>2, <1>4, <3>1, SubSeqRecursiveFirst
  <2> QED
    BY <2>1, <2>2
<1>7. Firsts(q) = Over(One(x), Firsts(r))
  BY <1>3, <1>6, FirstsOfOne, FirstsJoined
<1>8. Over(Firsts(p), One(x)) = Firsts(p)
  <2>1. KeyOf(x) \in Keys(p)
    <3>1. p[k + 1] = x /\ k + 1 \in 1..Len(p)
      BY <1>1, <1>3, <1>6 DEF Cut
    <3> QED
      BY <1>3, <3>1, KeysAre
  <2>2. Firsts(p) = [i \in Keys(p) |-> Firsts(p)[i]] /\ DOMAIN Firsts(p) = Keys(p)
    BY <1>3, FirstsAre
  <2>3. Over(Firsts(p), One(x)) = [i \in Keys(p) |-> Firsts(p)[i]]
    BY <2>1, <2>2 DEF Over, One
  <2> QED
    BY <2>2, <2>3
<1>9. Firsts(g) = Over(Firsts(p), Firsts(r))
  BY <1>3, FirstsJoined DEF Cut
<1>10. PICK v \in Seq(Row) : v = SaveMessages(t, p) /\ Firsts(v) = Over(Firsts(t), Firsts(p))
  BY <1>3, SaveMessagesFacts, SaveMessagesFirsts
<1>11. Firsts(v \o q) = Over(Over(Firsts(t), Firsts(p)), Over(One(x), Firsts(r)))
  BY <1>5, <1>7, <1>10, FirstsJoined
<1>12. Over(Over(Firsts(t), Firsts(p)), Over(One(x), Firsts(r)))
         = Over(Firsts(t), Over(Over(Firsts(p), One(x)), Firsts(r)))
  BY OverAssociates
<1> QED
  BY <1>2, <1>4, <1>5, <1>8, <1>9, <1>10, <1>11, <1>12

-------------------------------------------------------------------------------
(* The times of the stamps, and the rows of messages.                      *)
LEMMA HalvesAre ==
    ASSUME NEW kind \in Counters
    PROVE  Low(kind) \in Nat /\ HighHalf(kind) \in Nat
<1>1. PICK w \in Nat, v \in Nat : w = Word /\ v = ShortWord
  BY TimeAssumption
<1>2. Low(kind) \in Nat
  BY DEF Counters, Low
<1>3. 100 * w \in Nat /\ 25 * w \in Nat /\ 10000 * w \in Nat /\ 1000 * v \in Nat /\ 1600 * v \in Nat
  OBVIOUS
<1>4. HighHalf(kind) \in Nat
  BY <1>1, <1>3 DEF Counters, HighHalf
<1> QED
  BY <1>2, <1>4

LEMMA TimeType ==
    ASSUME NEW s \in Stamp
    PROVE  CalcEpoch64(s) \in 0..(Wrap - 1)
<1>1. PICK w \in Nat \ {0}, e \in Nat : w = Wrap /\ e = EpochOffset
  BY TimeAssumption
<1>2. s.kind \in Kinds /\ s.high \in Nat /\ s.low \in Nat
  BY DEF Stamp
<1>3. \A x \in Nat : x % w \in 0..(w - 1)
  OBVIOUS
<1>4. CASE s.kind \in Counters
  <2>1. PICK h \in Nat, k \in Nat, a \in Nat, b \in Nat :
            h = HighHalf(s.kind) /\ k = Low(s.kind) /\ a = s.high /\ b = s.low
    BY <1>2, <1>4, HalvesAre
  <2>2. a * h \in Nat /\ b * k \in Nat
    OBVIOUS
  <2>3. a * h + b * k + e \in Nat
    BY <2>2
  <2>4. CalcEpoch64(s) = (a * h + b * k + e) % w
    BY <1>1, <1>4, <2>1 DEF CalcEpoch64, Counters
  <2> QED
    BY <1>1, <1>3, <2>3, <2>4
<1>5. CASE s.kind = "DOUBLE_SEC"
  BY <1>1, <1>2, <1>3, <1>5 DEF CalcEpoch64, Counters
<1>6. CASE s.kind = "SYSTEM"
  <2>1. s.low * 1000000 \in Nat
    BY <1>2
  <2>2. CalcEpoch64(s) = (s.low * 1000000) % w
    BY <1>1, <1>6 DEF CalcEpoch64, Counters
  <2> QED
    BY <1>1, <1>3, <2>1, <2>2
<1> QED
  BY <1>2, <1>4, <1>5, <1>6 DEF Kinds

LEMMA RowType ==
    ASSUME NEW m \in Message
    PROVE  RowOf(m) \in Row /\ RowOf(m).time = CalcEpoch64(m.stamp)
<1>1. m.stamp \in Stamp /\ m.net \in Nat /\ m.id \in Nat /\ m.body \in Nat
  BY DEF Message
<1>2. CalcEpoch64(m.stamp) \in Nat
  BY <1>1, TimeType
<1> QED
  BY <1>1, <1>2 DEF RowOf, Row

Rows(messages) == [i \in DOMAIN messages |-> RowOf(messages[i])]

LEMMA RowsAre ==
    ASSUME NEW s \in Seq(Message)
    PROVE  /\ Rows(s) \in Seq(Row) /\ Len(Rows(s)) = Len(s) /\ DOMAIN s = 1..Len(s)
           /\ \A i \in 1..Len(s) : s[i] \in Message /\ Rows(s)[i] = RowOf(s[i])
<1>1. DOMAIN s = 1..Len(s) /\ Len(s) \in Nat /\ \A i \in 1..Len(s) : s[i] \in Message
  <2>1. \A R : \A t \in Seq(R) : \A i \in 1..Len(t) : t[i] \in R
    OBVIOUS
  <2> QED
    BY <2>1
<1>2. Rows(s) \in [1..Len(s) -> Row]
  BY <1>1, RowType DEF Rows
<1>3. Rows(s) \in Seq(Row) /\ Len(Rows(s)) = Len(s)
  BY <1>1, <1>2, FunctionIsSequence
<1> QED
  BY <1>1, <1>3 DEF Rows

LEMMA RowsOfEmpty == Rows(<<>>) = <<>>
  BY DEF Rows

LEMMA RowsOfAppend ==
    ASSUME NEW s \in Seq(Message), NEW m \in Message
    PROVE  Rows(Append(s, m)) = Append(Rows(s), RowOf(m))
<1>1. PICK g \in Seq(Message) : EndsIn(g, s, m)
  BY EndsInAppended
<1>2. PICK n \in Nat : n = Len(s) /\ Len(g) = n + 1 /\ g[n + 1] = m /\ \A i \in 1..n : g[i] = s[i]
  BY <1>1 DEF EndsIn
<1>3. Rows(s) \in Seq(Row) /\ Len(Rows(s)) = n /\ \A i \in 1..n : Rows(s)[i] = RowOf(s[i])
  BY <1>2, RowsAre
<1>4. Rows(g) \in Seq(Row) /\ Len(Rows(g)) = n + 1 /\ \A i \in 1..(n + 1) : Rows(g)[i] = RowOf(g[i])
  BY <1>2, RowsAre
<1>5. PICK u \in Seq(Row), v \in Seq(Row), x \in Row : u = Rows(s) /\ v = Rows(g) /\ x = RowOf(m)
  BY <1>3, <1>4, RowType
<1>6. \A i \in 1..n : v[i] = u[i]
  <2>1. \A i \in 1..n : i \in 1..(n + 1)
    OBVIOUS
  <2> QED
    BY <1>2, <1>3, <1>4, <1>5, <2>1
<1>7. v[n + 1] = x
  <2>1. n + 1 \in 1..(n + 1)
    OBVIOUS
  <2> QED
    BY <1>2, <1>4, <1>5, <2>1
<1>8. Len(v) = Len(u) + 1 /\ Len(u) = n
  BY <1>3, <1>4, <1>5
<1>9. v = Append(u, x)
  BY <1>6, <1>7, <1>8, AppendIs
<1> QED
  BY <1>1, <1>5, <1>9 DEF EndsIn

LEMMA RowsOfTail ==
    ASSUME NEW s \in Seq(Message), s # <<>>
    PROVE  /\ Rows(s) # <<>> /\ Head(Rows(s)) = RowOf(Head(s)) /\ Tail(Rows(s)) = Rows(Tail(s))
           /\ Head(s) \in Message /\ Tail(s) \in Seq(Message)
<1>1. PICK n \in Nat : Len(s) = n + 1
  <2>1. Len(s) \in Nat /\ Len(s) # 0
    BY EmptySeq
  <2>2. Len(s) - 1 \in Nat /\ Len(s) = (Len(s) - 1) + 1
    BY <2>1
  <2> QED
    BY <2>2
<1>2. PICK t : t = Tail(s)
  OBVIOUS
<1>3. Head(s) \in Message /\ t \in Seq(Message) /\ Len(t) = n /\ \A i \in 1..n : t[i] = s[i + 1]
  BY <1>1, <1>2, HeadTailProperties
<1>4. PICK u \in Seq(Row) : u = Rows(s)
  BY RowsAre
<1>5. Len(u) = n + 1 /\ \A i \in 1..(n + 1) : u[i] = RowOf(s[i])
  BY <1>1, <1>4, RowsAre
<1>6. u # <<>> /\ Head(u) = RowOf(Head(s))
  <2>1. u # <<>>
    BY <1>5, EmptySeq
  <2>2. Head(u) = u[1] /\ Head(s) = s[1] /\ 1 \in 1..(n + 1)
    BY <2>1
  <2> QED
    BY <1>5, <2>1, <2>2
<1>7. PICK v : v = Tail(u)
  OBVIOUS
<1>8. v \in Seq(Row) /\ Len(v) = n /\ \A i \in 1..n : v[i] = u[i + 1]
  BY <1>5, <1>6, <1>7, HeadTailProperties
<1>9. Rows(t) \in Seq(Row) /\ Len(Rows(t)) = n /\ \A i \in 1..n : Rows(t)[i] = RowOf(t[i])
  BY <1>3, RowsAre
<1>10. \A i \in 1..n : v[i] = Rows(t)[i]
  <2>1. \A i \in 1..n : i + 1 \in 1..(n + 1)
    OBVIOUS
  <2> QED
    BY <1>3, <1>5, <1>8, <1>9, <2>1
<1>11. v = Rows(t)
  BY <1>8, <1>9, <1>10, SeqEqual
<1> QED
  BY <1>2, <1>3, <1>4, <1>6, <1>7, <1>11

-------------------------------------------------------------------------------
(* The inductive invariant.                                                *)
DatabaseTypeOK ==
    /\ phase \in {"idle", "database", "capture", "export", "done"}
    /\ calls \in Seq(Call) /\ call \in Call
    /\ incoming \in Seq(Message) /\ counter \in Nat
    /\ table \in Seq(Row) /\ cache \in Seq(Row)
    /\ processed \in Seq(Message) /\ captured \in Seq(Message)

(* The cache is sorted, and no other part of the program finds rows in it. *)
CacheInv ==
    /\ InTime(cache)
    /\ phase # "database" => cache = <<>>
    /\ phase \notin {"database", "capture"} => incoming = <<>>

(* What is stored is the first row of each key, of the messages that were  *)
(* taken since the table was created.                                      *)
InputInv == Firsts(table \o cache) = Firsts(Rows(processed))

StoreInv == DatabaseTypeOK /\ CacheInv /\ InputInv

LEMMA NoCallType == NoCall \in Call
<1>1. <<>> \in Seq(Message)
  OBVIOUS
<1> QED
  BY <1>1 DEF NoCall, Call, Entries

LEMMA EmptyInTime == InTime(<<>>) /\ <<>> \in Seq(Row) /\ <<>> \in Seq(Message)
<1>1. Len(<<>>) = 0 /\ 1..0 = {}
  OBVIOUS
<1> QED
  BY <1>1 DEF InTime

LEMMA StoreInit ==
    ASSUME DatabaseInit
    PROVE  StoreInv
<1>1. DatabaseTypeOK
  <2>1. calls \in Seq(Call)
    BY HistoriesAssumption DEF DatabaseInit
  <2> QED
    BY <2>1, NoCallType, EmptyInTime DEF DatabaseInit, DatabaseTypeOK
<1>2. CacheInv
  BY EmptyInTime DEF DatabaseInit, CacheInv
<1>3. <<>> \o <<>> = <<>>
  OBVIOUS
<1>4. InputInv
  BY <1>3, RowsOfEmpty DEF DatabaseInit, InputInv
<1> QED
  BY <1>1, <1>2, <1>4 DEF StoreInv

(* What a message that is taken does to table and cache.                   *)
CachedIn(g) == table' = table /\ cache' = g
FlushedAt(g, k) ==
    /\ table' = SaveMessages(table, SubSeq(g, 1, k + 1))
    /\ cache' = SubSeq(g, k + 1, Len(g))

LEMMA ProcessMessageFacts ==
    ASSUME StoreInv, ProcessMessage
    PROVE  \E m \in Message, row \in Row, g \in Seq(Row) :
               /\ incoming # <<>> /\ m = Head(incoming) /\ row = RowOf(m)
               /\ incoming' = Tail(incoming) /\ processed' = Append(processed, m)
               /\ \E n \in 0..Len(cache) : Inserted(cache, row, n, g)
               /\ InTime(g) /\ Firsts(g) = Over(Firsts(cache), One(row))
               /\ \/ CachedIn(g)
                  \/ \E k \in Nat : /\ k = Len(g) \div 2 /\ k + 1 <= Len(g) /\ Len(g) >= CacheLimit
                                    /\ FlushedAt(g, k)
<1>1. /\ incoming \in Seq(Message) /\ incoming # <<>> /\ incoming' = Tail(incoming)
      /\ processed' = Append(processed, Head(incoming))
      /\ cache \in Seq(Row) /\ InTime(cache)
  BY DEF StoreInv, DatabaseTypeOK, CacheInv, ProcessMessage, TakeMessage
<1>2. PICK m \in Message, row \in Row : m = Head(incoming) /\ row = RowOf(m)
  BY <1>1, RowsOfTail, RowType
<1>3. PICK g \in Seq(Row) : g = InsertByTime(cache, row)
  BY <1>1, InsertPlaces
<1>4. PICK n \in 0..Len(cache) : Inserted(cache, row, n, g)
  BY <1>1, <1>3, InsertPlaces
<1>5. InTime(g)
  BY <1>1, <1>4, InsertedInTime
<1>6. Firsts(g) = Over(Firsts(cache), One(row))
  BY <1>1, <1>3, InsertPlaces
<1>7. IF CacheFull(Len(g)) THEN FlushCache(g, Len(g) \div 2) ELSE cache' = g /\ UNCHANGED table
  BY <1>2, <1>3 DEF ProcessMessage
<1>8. CASE CacheFull(Len(g))
  <2>1. PICK l \in Nat : l = Len(g) /\ l >= CacheLimit /\ l > 1
    <3>1. Len(g) \in Nat /\ Len(g) >= CacheLimit
      BY <1>8 DEF CacheFull
    <3> QED
      BY <3>1, DatabaseAssumption
  <2>2. PICK k \in Nat : k = l \div 2 /\ k # 0 /\ k + 1 <= l
    <3>1. l \div 2 \in Nat /\ l \div 2 # 0 /\ (l \div 2) + 1 <= l
      BY <2>1
    <3> QED
      BY <3>1
  <2>3. FlushedAt(g, k)
    BY <1>7, <1>8, <2>1, <2>2 DEF FlushCache, FlushedAt
  <2> QED
    BY <1>1, <1>2, <1>4, <1>5, <1>6, <2>1, <2>2, <2>3
<1>9. CASE ~CacheFull(Len(g))
  <2>1. CachedIn(g)
    BY <1>7, <1>9 DEF CachedIn
  <2> QED
    BY <1>1, <1>2, <1>4, <1>5, <1>6, <2>1
<1> QED
  BY <1>8, <1>9

LEMMA KeptInTime ==
    ASSUME NEW g \in Seq(Row), InTime(g), NEW k \in Nat, k + 1 <= Len(g)
    PROVE  InTime(SubSeq(g, k + 1, Len(g)))
<1>1. PICK l \in Nat : l = Len(g) /\ k + 1 <= l /\ k \in 0..Len(g)
  OBVIOUS
<1>2. PICK q : q = SubSeq(g, k + 1, Len(g))
  OBVIOUS
<1>3. Len(q) = l - k /\ \A i \in 1..(l - k) : q[i] = g[k + i]
  BY <1>1, <1>2, CutAt DEF Cut
<1>4. ASSUME NEW i \in 1..(l - k), NEW j \in 1..(l - k), i < j
      PROVE  q[i].time <= q[j].time
  <2>1. k + i \in 1..l /\ k + j \in 1..l /\ k + i < k + j
    BY <1>1, <1>4
  <2>2. g[k + i].time <= g[k + j].time
    BY <1>1, <2>1 DEF InTime
  <2> QED
    BY <1>3, <2>2
<1> QED
  BY <1>2, <1>3, <1>4 DEF InTime

(* Either way the row is the last one that is stored, if it is.            *)
LEMMA ProcessedFirsts ==
    ASSUME StoreInv, ProcessMessage
    PROVE  /\ table' \in Seq(Row) /\ cache' \in Seq(Row) /\ InTime(cache')
           /\ \E m \in Message :
                 /\ incoming # <<>> /\ m = Head(incoming) /\ incoming' = Tail(incoming)
                 /\ processed' = Append(processed, m)
                 /\ Firsts(table' \o cache') = Over(Firsts(table \o cache), One(RowOf(m)))
<1>1. table \in Seq(Row) /\ cache \in Seq(Row)
  BY DEF StoreInv, DatabaseTypeOK
<1>2. PICK m \in Message, row \in Row, g \in Seq(Row) :
               /\ incoming # <<>> /\ m = Head(incoming) /\ row = RowOf(m)
               /\ incoming' = Tail(incoming) /\ processed' = Append(processed, m)
               /\ InTime(g) /\ Firsts(g) = Over(Firsts(cache), One(row))
               /\ \/ CachedIn(g)
                  \/ \E k \in Nat : k + 1 <= Len(g) /\ FlushedAt(g, k)
  BY ProcessMessageFacts
<1>3. Firsts(table \o cache) = Over(Firsts(table), Firsts(cache))
  BY <1>1, FirstsJoined
<1>4. Over(Firsts(table), Firsts(g)) = Over(Firsts(table \o cache), One(row))
  BY <1>2, <1>3, OverAssociates
<1>5. CASE CachedIn(g)
  <2>1. Firsts(table \o g) = Over(Firsts(table), Firsts(g))
    BY <1>1, FirstsJoined
  <2> QED
    BY <1>1, <1>2, <1>4, <1>5, <2>1 DEF CachedIn
<1>6. ASSUME NEW k \in Nat, k + 1 <= Len(g), FlushedAt(g, k)
      PROVE  /\ table' \in Seq(Row) /\ cache' \in Seq(Row) /\ InTime(cache')
             /\ Firsts(table' \o cache') = Over(Firsts(table), Firsts(g))
  BY <1>1, <1>2, <1>6, FlushFirsts, KeptInTime DEF FlushedAt
<1> QED
  BY <1>2, <1>4, <1>5, <1>6

LEMMA StepProcessMessage ==
    ASSUME StoreInv, ProcessMessage
    PROVE  StoreInv'
<1>1. PICK m \in Message :
          /\ incoming # <<>> /\ m = Head(incoming) /\ incoming' = Tail(incoming)
          /\ processed' = Append(processed, m)
          /\ Firsts(table' \o cache') = Over(Firsts(table \o cache), One(RowOf(m)))
  BY ProcessedFirsts
<1>2. table' \in Seq(Row) /\ cache' \in Seq(Row) /\ InTime(cache')
  BY ProcessedFirsts
<1>3. phase = "database" /\ phase' = phase /\ calls' = calls /\ call' = call /\ captured' = captured
  BY DEF ProcessMessage, TakeMessage
<1>4. counter' \in Nat
  BY DEF StoreInv, DatabaseTypeOK, ProcessMessage, TakeMessage
<1>5. incoming' \in Seq(Message) /\ processed' \in Seq(Message)
  BY <1>1, RowsOfTail, AppendFacts DEF StoreInv, DatabaseTypeOK
<1>6. DatabaseTypeOK'
  BY <1>2, <1>3, <1>4, <1>5 DEF StoreInv, DatabaseTypeOK
<1>7. CacheInv'
  BY <1>2, <1>3 DEF CacheInv
<1>8. InputInv'
  <2>1. Rows(processed') = Append(Rows(processed), RowOf(m)) /\ Rows(processed) \in Seq(Row)
    BY <1>1, RowsOfAppend, RowsAre DEF StoreInv, DatabaseTypeOK
  <2>2. Firsts(Rows(processed')) = Over(Firsts(Rows(processed)), One(RowOf(m)))
    BY <2>1, RowType, FirstsOfAppend
  <2> QED
    BY <1>1, <2>2 DEF StoreInv, InputInv
<1> QED
  BY <1>6, <1>7, <1>8 DEF StoreInv

LEMMA BeginCallFacts ==
    ASSUME StoreInv, NEW target, BeginCall(target)
    PROVE  /\ phase = "idle" /\ calls' \in Seq(Call) /\ call' \in Call /\ call'.target \in target
           /\ call' = Head(calls) /\ incoming' = Head(calls).messages
           /\ incoming' \in Seq(Message) /\ counter' = 0
           /\ incoming = <<>> /\ cache = <<>>
<1>1. calls \in Seq(Call) /\ calls # <<>> /\ call' = Head(calls) /\ calls' = Tail(calls)
  BY DEF StoreInv, DatabaseTypeOK, BeginCall
<1>2. call' \in Call /\ calls' \in Seq(Call)
  BY <1>1, HeadTailProperties
<1>3. call'.messages \in Seq(Message)
  BY <1>2 DEF Call
<1> QED
  BY <1>1, <1>2, <1>3 DEF StoreInv, CacheInv, BeginCall

LEMMA StepCreateDb ==
    ASSUME StoreInv, CreateDb
    PROVE  StoreInv'
<1>1. /\ calls' \in Seq(Call) /\ call' \in Call /\ incoming' \in Seq(Message) /\ counter' = 0
      /\ cache = <<>>
  BY BeginCallFacts DEF CreateDb
<1>2. phase' = "database" /\ cache' = <<>> /\ captured' = captured
  BY DEF CreateDb
<1>3. (table' = table /\ processed' = processed) \/ (table' = <<>> /\ processed' = <<>>)
  BY DEF CreateDb
<1>4. <<>> \o <<>> = <<>>
  OBVIOUS
<1> QED
  BY <1>1, <1>2, <1>3, <1>4, EmptyInTime, RowsOfEmpty
    DEF StoreInv, DatabaseTypeOK, CacheInv, InputInv

LEMMA StepCreatePcap ==
    ASSUME StoreInv, CreatePcap
    PROVE  StoreInv'
<1>1. calls' \in Seq(Call) /\ call' \in Call /\ incoming' \in Seq(Message) /\ counter' = 0
  BY BeginCallFacts DEF CreatePcap
<1>2. /\ phase' = "capture" /\ cache' = cache /\ table' = table /\ processed' = processed
      /\ captured' = captured \/ captured' = <<>>
      /\ phase = "idle"
  BY DEF CreatePcap, storeVars, BeginCall
<1> QED
  BY <1>1, <1>2, EmptyInTime DEF StoreInv, DatabaseTypeOK, CacheInv, InputInv

LEMMA StepUpdateTable ==
    ASSUME StoreInv, UpdateTable
    PROVE  StoreInv' /\ Firsts(table' \o cache') = Firsts(table \o cache)
<1>1. /\ table \in Seq(Row) /\ cache \in Seq(Row) /\ phase' = "idle" /\ incoming = <<>>
      /\ table' = SaveMessages(table, cache) /\ cache' = <<>>
      /\ UNCHANGED <<calls, call, incoming, counter, captured, processed>>
  BY DEF StoreInv, DatabaseTypeOK, UpdateTable, FlushCache, callVars
<1>2. table' \in Seq(Row)
  BY <1>1, SaveMessagesFacts
<1>3. table' \o <<>> = table'
  BY <1>2
<1>4. Firsts(table' \o cache') = Firsts(table \o cache)
  BY <1>1, <1>3, SaveMessagesFirsts, FirstsJoined
<1> QED
  BY <1>1, <1>2, <1>4, EmptyInTime DEF StoreInv, DatabaseTypeOK, CacheInv, InputInv

LEMMA StepWriteCapture ==
    ASSUME StoreInv, WriteCapture
    PROVE  StoreInv'
<1>1. /\ phase = "capture" /\ incoming # <<>> /\ incoming' = Tail(incoming)
      /\ captured' = Append(captured, Head(incoming))
      /\ UNCHANGED <<phase, calls, call, table, cache, processed>>
  BY DEF WriteCapture, TakeMessage, storeVars
<1>2. counter' \in Nat
  BY DEF StoreInv, DatabaseTypeOK, WriteCapture, TakeMessage
<1>3. incoming' \in Seq(Message) /\ captured' \in Seq(Message)
  <2>1. Head(incoming) \in Message
    BY <1>1, RowsOfTail DEF StoreInv, DatabaseTypeOK
  <2> QED
    BY <1>1, <2>1, RowsOfTail, AppendFacts DEF StoreInv, DatabaseTypeOK
<1> QED
  BY <1>1, <1>2, <1>3 DEF StoreInv, DatabaseTypeOK, CacheInv, InputInv

LEMMA StepsOther ==
    ASSUME StoreInv, StopReading \/ CloseCapture \/ WriteVsb \/ ExportRow \/ StopExport \/ EndExport
    PROVE  StoreInv' /\ table' = table /\ cache' = cache
<1> USE DEF StoreInv, DatabaseTypeOK, CacheInv, InputInv, callVars, storeVars, exportVars
<1>1. CASE StopReading
  BY <1>1, EmptyInTime DEF StopReading
<1>2. CASE CloseCapture
  BY <1>2 DEF CloseCapture
<1>3. CASE WriteVsb
  <2>1. call' \in Call
    <3>1. PICK prog \in BOOLEAN : call' = [NoCall EXCEPT !.prog = prog]
      BY <1>3 DEF WriteVsb
    <3>2. \A c \in Call : [c EXCEPT !.prog = prog] \in Call
      BY DEF Call
    <3> QED
      BY <3>1, <3>2, NoCallType
  <2> QED
    BY <1>3, <2>1 DEF WriteVsb
<1>4. CASE ExportRow
  BY <1>4 DEF ExportRow, FetchRow
<1>5. CASE StopExport
  BY <1>5 DEF StopExport, FetchRow
<1>6. CASE EndExport
  BY <1>6 DEF EndExport
<1> QED
  BY <1>1, <1>2, <1>3, <1>4, <1>5, <1>6

LEMMA StoreStep ==
    ASSUME StoreInv, [DatabaseNext]_databaseVars
    PROVE  StoreInv'
<1>1. CASE CreateDb
  BY <1>1, StepCreateDb
<1>2. CASE CreatePcap
  BY <1>2, StepCreatePcap
<1>3. CASE ProcessMessage
  BY <1>3, StepProcessMessage
<1>4. CASE UpdateTable
  BY <1>4, StepUpdateTable
<1>5. CASE WriteCapture
  BY <1>5, StepWriteCapture
<1>6. CASE StopReading \/ CloseCapture \/ WriteVsb \/ ExportRow \/ StopExport \/ EndExport
  BY <1>6, StepsOther
<1>7. CASE UNCHANGED databaseVars
  BY <1>7 DEF databaseVars, callVars, storeVars, StoreInv, DatabaseTypeOK, CacheInv, InputInv
<1> QED
  BY <1>1, <1>2, <1>3, <1>4, <1>5, <1>6, <1>7 DEF DatabaseNext

(* In every state of every history the cache is sorted, and what table and *)
(* cache have together is the first row of each key of the input           *)
(* (VSBDatabase.cpp:21, 123-157).                                          *)
THEOREM DatabaseInvariant == DatabaseSpec => []StoreInv
<1>1. DatabaseInit => StoreInv
  BY StoreInit
<1>2. StoreInv /\ [DatabaseNext]_databaseVars => StoreInv'
  BY StoreStep
<1> QED
  BY <1>1, <1>2, PTL DEF DatabaseSpec

-------------------------------------------------------------------------------
(* The abstract store: what it keeps and what it is still given.           *)
Given == IF phase = "database" THEN Rows(incoming) ELSE <<>>

LEMMA StoreIs ==
    /\ FirstStored = Firsts(table \o cache)
    /\ Given = IF phase = "database" THEN [i \in DOMAIN incoming |-> RowOf(incoming[i])] ELSE <<>>
  BY DEF FirstStored, Stored, Firsts, Keys, Given, Rows

LEMMA StoreIsThen ==
    /\ FirstStored' = Firsts(table' \o cache')
    /\ Given' = IF phase' = "database" THEN [i \in DOMAIN incoming' |-> RowOf(incoming'[i])] ELSE <<>>
    /\ Given' = IF phase' = "database" THEN Rows(incoming') ELSE <<>>
  BY DEF FirstStored, Stored, Firsts, Keys, Given, Rows

(* A step of the database opens the store, puts a row in it, stops, or     *)
(* does nothing to it.                                                     *)
Opens == Given = <<>> /\ Given' \in Seq(Row) /\ FirstStored' \in {FirstStored, <<>>}

Puts ==
    /\ Given # <<>> /\ Given' = Tail(Given)
    /\ LET m == Head(Given) IN
       FirstStored' = IF KeyOf(m) \in DOMAIN FirstStored THEN FirstStored
                      ELSE [k \in DOMAIN FirstStored \cup {KeyOf(m)} |->
                               IF k = KeyOf(m) THEN m ELSE FirstStored[k]]

Stops == Given' = <<>> /\ FirstStored' = FirstStored

Stutters == Given' = Given /\ FirstStored' = FirstStored

LEMMA CreateDbOpens ==
    ASSUME StoreInv, CreateDb
    PROVE  Opens
<1>1. phase = "idle" /\ incoming' \in Seq(Message) /\ cache = <<>> /\ phase' = "database" /\ cache' = <<>>
  BY BeginCallFacts DEF CreateDb
<1>2. Given = <<>> /\ Given' \in Seq(Row)
  BY <1>1, StoreIsThen, RowsAre DEF Given
<1>3. table' = table \/ table' = <<>>
  BY DEF CreateDb
<1>4. <<>> \o <<>> = <<>>
  OBVIOUS
<1>5. FirstStored' \in {FirstStored, <<>>}
  BY <1>1, <1>3, <1>4, StoreIs, StoreIsThen, FirstsOfEmpty
<1> QED
  BY <1>2, <1>5 DEF Opens

LEMMA ProcessMessagePuts ==
    ASSUME StoreInv, ProcessMessage
    PROVE  Puts
<1>1. PICK m \in Message :
          /\ incoming # <<>> /\ m = Head(incoming) /\ incoming' = Tail(incoming)
          /\ Firsts(table' \o cache') = Over(Firsts(table \o cache), One(RowOf(m)))
  BY ProcessedFirsts
<1>2. phase = "database" /\ phase' = "database" /\ incoming \in Seq(Message)
  BY DEF ProcessMessage, TakeMessage, StoreInv, DatabaseTypeOK
<1>3. Given # <<>> /\ Head(Given) = RowOf(m) /\ Given' = Tail(Given)
  BY <1>1, <1>2, StoreIsThen, RowsOfTail DEF Given
<1>4. PICK row : row = RowOf(m)
  OBVIOUS
<1>5. FirstStored' = Over(FirstStored, One(row))
  BY <1>1, <1>4, StoreIs, StoreIsThen
<1>6. FirstStored = [k \in DOMAIN FirstStored |-> FirstStored[k]]
  <2>1. table \o cache \in Seq(Row)
    BY DEF StoreInv, DatabaseTypeOK
  <2> QED
    BY <2>1, StoreIs, FirstsAre
<1>7. FirstStored' = IF KeyOf(row) \in DOMAIN FirstStored THEN FirstStored
                     ELSE [k \in DOMAIN FirstStored \cup {KeyOf(row)} |->
                              IF k = KeyOf(row) THEN row ELSE FirstStored[k]]
  <2>1. CASE KeyOf(row) \in DOMAIN FirstStored
    <3>1. Over(FirstStored, One(row)) = [k \in DOMAIN FirstStored |-> FirstStored[k]]
      BY <2>1 DEF Over, One
    <3> QED
      BY <1>5, <1>6, <2>1, <3>1
  <2>2. CASE KeyOf(row) \notin DOMAIN FirstStored
    <3>1. Over(FirstStored, One(row))
            = [k \in DOMAIN FirstStored \cup {KeyOf(row)} |->
                  IF k = KeyOf(row) THEN row ELSE FirstStored[k]]
      BY <2>2 DEF Over, One
    <3> QED
      BY <1>5, <2>2, <3>1
  <2> QED
    BY <2>1, <2>2
<1> QED
  BY <1>3, <1>4, <1>7 DEF Puts

LEMMA StoreSteps ==
    ASSUME StoreInv, [DatabaseNext]_databaseVars
    PROVE  Opens \/ Puts \/ Stops \/ Stutters
<1> USE DEF Given
<1>1. CASE CreateDb
  BY <1>1, CreateDbOpens
<1>2. CASE ProcessMessage
  BY <1>2, ProcessMessagePuts
<1>3. CASE UpdateTable
  <2>1. phase = "database" /\ phase' = "idle" /\ Firsts(table' \o cache') = Firsts(table \o cache)
    BY <1>3, StepUpdateTable DEF UpdateTable
  <2> QED
    BY <2>1, StoreIs, StoreIsThen DEF Stops
<1>4. CASE StopReading
  <2>1. table' = table /\ cache' = cache /\ phase' = phase /\ incoming' = <<>>
    BY <1>4 DEF StopReading, storeVars
  <2> QED
    BY <2>1, StoreIs, StoreIsThen, RowsOfEmpty DEF Stops
<1>5. CASE CreatePcap \/ WriteCapture
  <2>1. table' = table /\ cache' = cache /\ phase # "database" /\ phase' # "database"
    BY <1>5 DEF CreatePcap, WriteCapture, BeginCall, TakeMessage, storeVars
  <2> QED
    BY <2>1, StoreIs, StoreIsThen DEF Stutters
<1>6. CASE CloseCapture \/ WriteVsb \/ ExportRow \/ StopExport \/ EndExport
  <2>1. table' = table /\ cache' = cache
    BY <1>6, StepsOther
  <2>2. phase # "database" /\ phase' # "database"
    BY <1>6 DEF CloseCapture, WriteVsb, ExportRow, StopExport, FetchRow, EndExport
  <2> QED
    BY <2>1, <2>2, StoreIs, StoreIsThen DEF Stutters
<1>7. CASE UNCHANGED databaseVars
  BY <1>7, StoreIs, StoreIsThen DEF databaseVars, callVars, storeVars, Stutters
<1> QED
  BY <1>1, <1>2, <1>3, <1>4, <1>5, <1>6, <1>7 DEF DatabaseNext

(* A database keeps the first message of each key and nothing else, across *)
(* partial flushes, stops of the callback and appended recordings: it      *)
(* implements the abstract store (VSBDatabase.cpp:21, 123-157).            *)
THEOREM FirstOfEachKeyKept == DatabaseSpec => KeepsFirstOfEachKey
<1>1. DatabaseInit => FirstStored = <<>> /\ Given = <<>>
  <2> SUFFICES ASSUME DatabaseInit PROVE FirstStored = <<>> /\ Given = <<>>
    OBVIOUS
  <2>1. <<>> \o <<>> = <<>>
    OBVIOUS
  <2> QED
    BY <2>1, StoreIs, FirstsOfEmpty DEF DatabaseInit, Given
<1>2. StoreInv /\ [DatabaseNext]_databaseVars => Opens \/ Puts \/ Stops \/ Stutters
  BY StoreSteps
<1>3. Opens => Store!Open
  BY StoreIs, StoreIsThen DEF Opens, Store!Open
<1>4. Puts => Store!Put
  BY StoreIs, StoreIsThen DEF Puts, Store!Put
<1>5. Stops => Store!Stop
  BY StoreIs, StoreIsThen DEF Stops, Store!Stop
<1>6. Stutters => UNCHANGED <<FirstStored, IF phase = "database" THEN [i \in DOMAIN incoming |-> RowOf(incoming[i])] ELSE <<>>>>
  BY StoreIs, StoreIsThen DEF Stutters
<1>7. DatabaseInit => FirstStored = <<>>
         /\ (IF phase = "database" THEN [i \in DOMAIN incoming |-> RowOf(incoming[i])] ELSE <<>>) = <<>>
  BY <1>1, StoreIs
<1> QED
  BY <1>2, <1>3, <1>4, <1>5, <1>6, <1>7, DatabaseInvariant, PTL
    DEF DatabaseSpec, KeepsFirstOfEachKey, Store!StoreSpec

-------------------------------------------------------------------------------
(* The order of what is stored.                                            *)
Members(s) == {s[i] : i \in 1..Len(s)}
Below(s, t) == \A a \in Members(s), b \in Members(t) : a.time <= b.time

LEMMA MembersAre ==
    ASSUME NEW s \in Seq(Row)
    PROVE  Members(s) \subseteq Row /\ \A a \in Members(s) : a.time \in Nat
  BY RowsOfSequence DEF Members

LEMMA InTimeJoined ==
    ASSUME NEW s \in Seq(Row), NEW t \in Seq(Row)
    PROVE  InTime(s \o t) <=> InTime(s) /\ InTime(t) /\ Below(s, t)
<1>1. PICK m \in Nat, n \in Nat : m = Len(s) /\ n = Len(t)
  OBVIOUS
<1>2. PICK c : c = s \o t
  OBVIOUS
<1>3. /\ Len(c) = m + n
      /\ \A i \in 1..(m + n) : c[i] = IF i <= m THEN s[i] ELSE t[i - m]
  BY <1>1, <1>2, ConcatProperties
<1>4. \A i \in 1..m : i \in 1..(m + n) /\ c[i] = s[i]
  BY <1>3
<1>5. \A i \in 1..n : m + i \in 1..(m + n) /\ c[m + i] = t[i]
  <2>1. \A i \in 1..n : m + i \in 1..(m + n) /\ ~(m + i <= m) /\ (m + i) - m = i
    OBVIOUS
  <2> QED
    BY <1>3, <2>1
<1>6. ASSUME InTime(c) PROVE InTime(s) /\ InTime(t) /\ Below(s, t)
  <2>1. \A i, j \in 1..(m + n) : i < j => c[i].time <= c[j].time
    BY <1>3, <1>6 DEF InTime
  <2>2. InTime(s)
    BY <1>1, <1>4, <2>1 DEF InTime
  <2>3. InTime(t)
    <3>1. \A i, j \in 1..n : i < j => m + i < m + j
      OBVIOUS
    <3> QED
      BY <1>1, <1>5, <2>1, <3>1 DEF InTime
  <2>4. Below(s, t)
    <3>1. \A i \in 1..m, j \in 1..n : i < m + j
      OBVIOUS
    <3> QED
      BY <1>1, <1>4, <1>5, <2>1, <3>1 DEF Below, Members
  <2> QED
    BY <2>2, <2>3, <2>4
<1>7. ASSUME InTime(s), InTime(t), Below(s, t) PROVE InTime(c)
  <2>1. ASSUME NEW i \in 1..(m + n), NEW j \in 1..(m + n), i < j
        PROVE  c[i].time <= c[j].time
    <3>1. CASE j <= m
      <4>1. i \in 1..m /\ j \in 1..m
        BY <2>1, <3>1
      <4> QED
        BY <1>1, <1>4, <1>7, <2>1, <4>1 DEF InTime
    <3>2. CASE i <= m /\ ~(j <= m)
      <4>1. i \in 1..m /\ j - m \in 1..n
        BY <3>2
      <4>2. c[i] = s[i] /\ c[j] = t[j - m]
        BY <1>3, <3>2
      <4> QED
        BY <1>1, <1>7, <4>1, <4>2 DEF Below, Members
    <3>3. CASE ~(i <= m)
      <4>1. i - m \in 1..n /\ j - m \in 1..n /\ i - m < j - m /\ ~(j <= m)
        BY <2>1, <3>3
      <4>2. c[i] = t[i - m] /\ c[j] = t[j - m]
        BY <1>3, <3>3, <4>1
      <4> QED
        BY <1>1, <1>7, <4>1, <4>2 DEF InTime
    <3> QED
      BY <3>1, <3>2, <3>3
  <2> QED
    BY <1>3, <2>1 DEF InTime
<1> QED
  BY <1>2, <1>6, <1>7

LEMMA MembersJoined ==
    ASSUME NEW s \in Seq(Row), NEW t \in Seq(Row)
    PROVE  Members(s \o t) = Members(s) \cup Members(t)
<1>1. PICK m \in Nat, n \in Nat : m = Len(s) /\ n = Len(t)
  OBVIOUS
<1>2. PICK c : c = s \o t
  OBVIOUS
<1>3. /\ Len(c) = m + n
      /\ \A i \in 1..(m + n) : c[i] = IF i <= m THEN s[i] ELSE t[i - m]
  BY <1>1, <1>2, ConcatProperties
<1>4. \A i \in 1..m : i \in 1..(m + n) /\ c[i] = s[i]
  BY <1>3
<1>5. \A i \in 1..n : m + i \in 1..(m + n) /\ c[m + i] = t[i]
  <2>1. \A i \in 1..n : m + i \in 1..(m + n) /\ ~(m + i <= m) /\ (m + i) - m = i
    OBVIOUS
  <2> QED
    BY <1>3, <2>1
<1>6. \A i \in 1..(m + n) : (i \in 1..m /\ c[i] = s[i]) \/ (i - m \in 1..n /\ c[i] = t[i - m])
  BY <1>3
<1>7. Members(c) \subseteq Members(s) \cup Members(t)
  BY <1>1, <1>3, <1>6 DEF Members
<1>8. Members(s) \cup Members(t) \subseteq Members(c)
  BY <1>1, <1>3, <1>4, <1>5 DEF Members
<1> QED
  BY <1>2, <1>7, <1>8

LEMMA InTimeOne ==
    ASSUME NEW x \in Row
    PROVE  InTime(<<x>>) /\ Members(<<x>>) = {x}
<1>1. Len(<<x>>) = 1 /\ <<x>>[1] = x /\ 1..1 = {1}
  OBVIOUS
<1> QED
  BY <1>1 DEF InTime, Members

LEMMA InTimeAppended ==
    ASSUME NEW s \in Seq(Row), NEW x \in Row
    PROVE  /\ InTime(Append(s, x)) <=> InTime(s) /\ \A a \in Members(s) : a.time <= x.time
           /\ Members(Append(s, x)) = Members(s) \cup {x}
<1>1. <<x>> \in Seq(Row) /\ s \o <<x>> = Append(s, x)
  BY FirstsOfOne, AppendIsConcat
<1>2. InTime(Append(s, x)) <=> InTime(s) /\ \A a \in Members(s) : a.time <= x.time
  <2>1. InTime(s \o <<x>>) <=> InTime(s) /\ InTime(<<x>>) /\ Below(s, <<x>>)
    BY <1>1, InTimeJoined
  <2>2. Below(s, <<x>>) <=> \A a \in Members(s) : a.time <= x.time
    BY InTimeOne DEF Below
  <2> QED
    BY <1>1, <2>1, <2>2, InTimeOne
<1>3. PICK g \in Seq(Row) : EndsIn(g, s, x)
  BY EndsInAppended
<1>4. PICK n \in Nat : n = Len(s) /\ Len(g) = n + 1 /\ g[n + 1] = x /\ \A i \in 1..n : g[i] = s[i]
  BY <1>3 DEF EndsIn
<1>5. /\ \A i \in 1..(n + 1) : i \in 1..n \/ i = n + 1
      /\ n + 1 \in 1..(n + 1) /\ 1..n \subseteq 1..(n + 1)
  OBVIOUS
<1>6. Members(g) = Members(s) \cup {x}
  BY <1>4, <1>5 DEF Members
<1> QED
  BY <1>2, <1>3, <1>6 DEF EndsIn

(* A table that is saved to has no row of another origin, and is in order  *)
(* if the rows that are saved follow it in order.                          *)
LEMMA SaveInTime ==
    ASSUME NEW t \in Seq(Row), NEW s \in Seq(Row)
    PROVE  /\ Members(SaveMessages(t, s)) \subseteq Members(t) \cup Members(s)
           /\ InTime(t \o s) => InTime(SaveMessages(t, s))
<1> DEFINE Kept(u) == /\ Members(SaveMessages(t, u)) \subseteq Members(t) \cup Members(u)
                      /\ InTime(t \o u) => InTime(SaveMessages(t, u))
           S == {u \in Seq(Row) : Kept(u)}
<1>1. <<>> \in S
  <2>1. t \o <<>> = t /\ SaveMessages(t, <<>>) = t /\ <<>> \in Seq(Row)
    BY SaveMessagesFacts
  <2> QED
    BY <2>1
<1>2. ASSUME NEW u \in S, NEW x \in Row PROVE Append(u, x) \in S
  <2>1. u \in Seq(Row) /\ Kept(u)
    OBVIOUS
  <2>2. PICK v, w, c, d :
            v = SaveMessages(t, u) /\ w = SaveMessages(t, Append(u, x)) /\ c = t \o u /\ d = Append(u, x)
    OBVIOUS
  <2>a. c \in Seq(Row) /\ d \in Seq(Row)
    BY <2>1, <2>2, AppendFacts, ConcatProperties
  <2>b. v \in Seq(Row) /\ w \in Seq(Row)
    BY <2>1, <2>2, <2>a, SaveMessagesFacts
  <2>3. w = SaveMessage(v, x)
    BY <2>1, <2>2, SaveMessagesFacts
  <2>4. t \o d = Append(c, x)
    BY <2>1, <2>2, AppendLast
  <2>5. Members(d) = Members(u) \cup {x}
    BY <2>1, <2>2, InTimeAppended
  <2>6. Members(v) \subseteq Members(t) \cup Members(u) /\ (InTime(c) => InTime(v))
    BY <2>1, <2>2
  <2>7. Members(c) = Members(t) \cup Members(u)
    BY <2>1, <2>2, MembersJoined
  <2>8. Members(w) \subseteq Members(t) \cup Members(d) /\ (InTime(Append(c, x)) => InTime(w))
    <3>1. /\ InTime(Append(c, x)) <=> InTime(c) /\ \A a \in Members(c) : a.time <= x.time
          /\ InTime(Append(v, x)) <=> InTime(v) /\ \A a \in Members(v) : a.time <= x.time
          /\ Members(Append(v, x)) = Members(v) \cup {x}
      BY <2>a, <2>b, InTimeAppended
    <3>2. w = v \/ w = Append(v, x)
      BY <2>3 DEF SaveMessage
    <3> QED
      BY <2>5, <2>6, <2>7, <3>1, <3>2
  <2>9. Kept(Append(u, x))
    BY <2>2, <2>4, <2>8
  <2> HIDE DEF Kept
  <2> QED
    BY <2>2, <2>9
<1>3. S = Seq(Row)
  <2> HIDE DEF S
  <2>1. S \in SUBSET Seq(Row)
    BY DEF S
  <2> QED
    BY <1>1, <1>2, <2>1, SequenceInduction
<1> QED
  BY <1>3

-------------------------------------------------------------------------------
(* How far rows are out of order, and how many of them the cache keeps.    *)
LaterBefore(s, i) == {j \in 1..(i - 1) : s[j].time > s[i].time}
KeptBack == CacheLimit - CacheLimit \div 2
Timely(s) == \A i \in 1..Len(s) : Cardinality(LaterBefore(s, i)) < KeptBack

(* Every row of t stands for a row of s of its own with the same time.     *)
StandsFor(s, t, f) ==
    /\ f \in [1..Len(t) -> 1..Len(s)]
    /\ \A i, j \in 1..Len(t) : f[i] = f[j] => i = j
    /\ \A i \in 1..Len(t) : t[i].time = s[f[i]].time
Places(s, t) == \E f : StandsFor(s, t, f)

LEMMA LimitFacts ==
    /\ KeptBack \in Nat /\ KeptBack >= 1
    /\ \A l \in Nat : l >= CacheLimit => l - l \div 2 >= KeptBack
<1>1. PICK c \in Nat : c = CacheLimit /\ c > 1
  BY DatabaseAssumption
<1>2. c - c \div 2 \in Nat /\ c - c \div 2 >= 1
  BY <1>1
<1>3. \A l \in Nat : l >= c => l - l \div 2 >= c - c \div 2
  BY <1>1
<1> QED
  BY <1>1, <1>2, <1>3 DEF KeptBack

LEMMA TimelyBefore ==
    ASSUME NEW s \in Seq(Row), NEW x \in Row, Timely(Append(s, x))
    PROVE  Timely(s) /\ Cardinality({j \in 1..Len(s) : s[j].time > x.time}) < KeptBack
<1>1. PICK g \in Seq(Row) : EndsIn(g, s, x)
  BY EndsInAppended
<1>2. PICK n \in Nat : n = Len(s) /\ Len(g) = n + 1 /\ g[n + 1] = x /\ \A i \in 1..n : g[i] = s[i]
  BY <1>1 DEF EndsIn
<1>3. \A i \in 1..(n + 1) : Cardinality(LaterBefore(g, i)) < KeptBack
  BY <1>1, <1>2 DEF Timely, EndsIn
<1>4. ASSUME NEW i \in 1..n PROVE LaterBefore(s, i) = LaterBefore(g, i) /\ i \in 1..(n + 1)
  <2>1. \A j \in 1..(i - 1) : j \in 1..n
    BY <1>2
  <2> QED
    BY <1>2, <2>1 DEF LaterBefore
<1>5. LaterBefore(g, n + 1) = {j \in 1..n : s[j].time > x.time}
  <2>1. (n + 1) - 1 = n
    OBVIOUS
  <2> QED
    BY <1>2, <2>1 DEF LaterBefore
<1>6. n + 1 \in 1..(n + 1)
  OBVIOUS
<1>7. Timely(s)
  BY <1>2, <1>3, <1>4 DEF Timely
<1>8. Cardinality(LaterBefore(g, n + 1)) < KeptBack
  BY <1>3, <1>6
<1> QED
  BY <1>2, <1>5, <1>7, <1>8

(* A row that is not out of order too far is not earlier than the first    *)
(* one of a cache that has at least as many rows as a flush keeps.         *)
LEMMA NotBeforeCache ==
    ASSUME NEW s \in Seq(Row), NEW c \in Seq(Row), InTime(c), Places(s, c), Len(c) >= KeptBack,
           NEW x \in Row, Timely(Append(s, x))
    PROVE  1 \in 1..Len(c) /\ c[1].time <= x.time
<1>1. PICK n \in Nat, m \in Nat, h \in Nat : n = Len(s) /\ m = Len(c) /\ h = KeptBack /\ h >= 1 /\ m >= h
  BY LimitFacts
<1>2. 1 \in 1..m
  BY <1>1
<1>3. SUFFICES ASSUME ~(c[1].time <= x.time) PROVE FALSE
  BY <1>1, <1>2
<1>4. \A i \in 1..m : c[i].time \in Nat
  BY <1>1, RowsOfSequence
<1>5. x.time \in Nat
  BY DEF Row
<1>6. ASSUME NEW i \in 1..m PROVE c[i].time > x.time
  <2>1. i = 1 \/ 1 < i
    BY <1>1
  <2>2. c[1].time <= c[i].time
    BY <1>1, <1>2, <1>4, <2>1 DEF InTime
  <2> QED
    BY <1>2, <1>3, <1>4, <1>5, <2>2
<1>7. PICK f : StandsFor(s, c, f)
  BY DEF Places
<1> DEFINE t == {j \in 1..n : s[j].time > x.time}
<1>8. f \in [1..m -> t] /\ \A i, j \in 1..m : f[i] = f[j] => i = j
  BY <1>1, <1>6, <1>7 DEF StandsFor
<1>9. f \in Injection(1..m, t)
  BY <1>8 DEF Injection, IsInjective
<1>10. IsFiniteSet(t) /\ Cardinality(t) \in Nat
  <2>1. IsFiniteSet(1..n)
    BY FS_Interval
  <2>2. t \in SUBSET (1..n)
    OBVIOUS
  <2> QED
    BY <2>1, <2>2, FS_Subset, FS_CardinalityType
<1>11. Cardinality(t) < h
  BY <1>1, TimelyBefore
<1> HIDE DEF t
<1>12. Cardinality(1..m) <= Cardinality(t)
  BY <1>9, <1>10, FS_Injection
<1>13. Cardinality(1..m) = m
  <2>1. (IF 1 > m THEN 0 ELSE m - 1 + 1) = m /\ m \in Int
    BY <1>1
  <2> QED
    BY <2>1, FS_Interval
<1> QED
  BY <1>1, <1>10, <1>11, <1>12, <1>13

LEMMA InsertedMembers ==
    ASSUME NEW s \in Seq(Row), NEW x \in Row, NEW n \in 0..Len(s), NEW g \in Seq(Row), Inserted(s, x, n, g)
    PROVE  \A i \in 1..Len(g) : \/ i = n + 1 /\ g[i] = x
                                \/ i \in 1..n /\ i \in 1..Len(s) /\ g[i] = s[i]
                                \/ i \in (n + 2)..Len(g) /\ i - 1 \in 1..Len(s) /\ g[i] = s[i - 1]
<1>1. PICK m \in Nat : m = Len(s) /\ n <= m /\ n \in Nat /\ Len(g) = m + 1 /\ g[n + 1] = x
  BY DEF Inserted
<1>2. ASSUME NEW i \in 1..(m + 1), i # n + 1, ~(i <= n)
      PROVE  i \in (n + 2)..(m + 1) /\ i - 1 \in 1..m /\ g[i] = s[i - 1]
  <2>1. PICK k \in (n + 1)..m : k = i - 1 /\ i = k + 1
    BY <1>1, <1>2
  <2>2. g[k + 1] = s[k]
    BY <1>1 DEF Inserted
  <2> QED
    BY <1>1, <1>2, <2>1, <2>2
<1>3. ASSUME NEW i \in 1..(m + 1), i <= n PROVE i \in 1..n /\ i \in 1..m /\ g[i] = s[i]
  BY <1>1, <1>3 DEF Inserted
<1> QED
  BY <1>1, <1>2, <1>3

LEMMA PlacesInserted ==
    ASSUME NEW s \in Seq(Row), NEW c \in Seq(Row), Places(s, c), NEW x \in Row,
           NEW n \in 0..Len(c), NEW g \in Seq(Row), Inserted(c, x, n, g)
    PROVE  Places(Append(s, x), g)
<1>1. PICK l \in Nat, m \in Nat : l = Len(s) /\ m = Len(c) /\ Len(g) = m + 1 /\ n <= m /\ n \in Nat
  BY DEF Inserted
<1>2. PICK t \in Seq(Row) : EndsIn(t, s, x)
  BY EndsInAppended
<1>3. Len(t) = l + 1 /\ t[l + 1] = x /\ \A i \in 1..l : t[i] = s[i]
  BY <1>1, <1>2 DEF EndsIn
<1>4. PICK f : StandsFor(s, c, f)
  BY DEF Places
<1>5. f \in [1..m -> 1..l] /\ \A i \in 1..m : c[i].time = s[f[i]].time
  BY <1>1, <1>4 DEF StandsFor
<1>6. \A i, j \in 1..m : f[i] = f[j] => i = j
  BY <1>1, <1>4 DEF StandsFor
<1> DEFINE old(i) == IF i <= n THEN i ELSE i - 1
           h == [i \in 1..(m + 1) |-> IF i = n + 1 THEN l + 1 ELSE f[old(i)]]
<1>7. ASSUME NEW i \in 1..(m + 1), i # n + 1
      PROVE  old(i) \in 1..m /\ g[i] = c[old(i)] /\ h[i] = f[old(i)] /\ h[i] \in 1..l
  <2>1. old(i) \in 1..m
    BY <1>1, <1>7
  <2>2. g[i] = c[old(i)]
    <3>1. i \in 1..Len(g)
      BY <1>1
    <3>2. (i \in 1..n /\ g[i] = c[i]) \/ (i \in (n + 2)..Len(g) /\ g[i] = c[i - 1])
      BY <1>7, <3>1, InsertedMembers
    <3>3. CASE i \in 1..n /\ g[i] = c[i]
      BY <1>1, <3>3
    <3>4. CASE i \in (n + 2)..Len(g) /\ g[i] = c[i - 1]
      <4>1. ~(i <= n)
        BY <1>1, <3>4
      <4> QED
        BY <3>4, <4>1
    <3> QED
      BY <3>2, <3>3, <3>4
  <2> HIDE DEF old
  <2> QED
    BY <1>5, <1>7, <2>1, <2>2
<1>8. n + 1 \in 1..(m + 1) /\ h[n + 1] = l + 1 /\ g[n + 1] = x
  BY <1>1 DEF Inserted
<1>9. h \in [1..(m + 1) -> 1..(l + 1)]
  <2>1. \A i \in 1..(m + 1) : h[i] \in 1..(l + 1)
    <3> HIDE DEF h, old
    <3>1. l + 1 \in 1..(l + 1) /\ \A i \in 1..l : i \in 1..(l + 1)
      BY <1>1
    <3> QED
      BY <1>7, <1>8, <3>1
  <2> QED
    BY <2>1
<1>10. ASSUME NEW i \in 1..(m + 1) PROVE g[i].time = t[h[i]].time
  <2> HIDE DEF h, old
  <2>1. CASE i = n + 1
    BY <1>3, <1>8, <2>1
  <2>2. CASE i # n + 1
    <3>1. g[i] = c[old(i)] /\ old(i) \in 1..m /\ h[i] = f[old(i)] /\ h[i] \in 1..l
      BY <1>7, <2>2
    <3>2. t[h[i]] = s[h[i]]
      BY <1>3, <3>1
    <3>3. c[old(i)].time = s[f[old(i)]].time
      BY <1>5, <3>1
    <3> QED
      BY <3>1, <3>2, <3>3
  <2> QED
    BY <2>1, <2>2
<1>11. ASSUME NEW i \in 1..(m + 1), NEW j \in 1..(m + 1), h[i] = h[j] PROVE i = j
  <2>1. CASE i = n + 1 \/ j = n + 1
    <3> HIDE DEF h, old
    <3>1. ~(l + 1 \in 1..l)
      BY <1>1
    <3> QED
      BY <1>7, <1>8, <1>11, <2>1, <3>1
  <2>2. CASE i # n + 1 /\ j # n + 1
    <3>1. old(i) = old(j)
      <4> HIDE DEF h, old
      <4> QED
        BY <1>6, <1>7, <1>11, <2>2
    <3> HIDE DEF h
    <3> QED
      BY <1>1, <2>2, <3>1
  <2> QED
    BY <2>1, <2>2
<1> HIDE DEF h, old
<1>12. StandsFor(t, g, h)
  BY <1>1, <1>3, <1>9, <1>10, <1>11 DEF StandsFor
<1> QED
  BY <1>2, <1>12 DEF Places, EndsIn

LEMMA PlacesOfRest ==
    ASSUME NEW s \in Seq(Row), NEW g \in Seq(Row), Places(s, g), NEW k \in 0..Len(g)
    PROVE  Places(s, SubSeq(g, k + 1, Len(g)))
<1>1. PICK l \in Nat : l = Len(g) /\ k <= l /\ k \in Nat
  OBVIOUS
<1>2. PICK q : q = SubSeq(g, k + 1, Len(g))
  OBVIOUS
<1>3. Len(q) = l - k /\ \A i \in 1..(l - k) : q[i] = g[k + i]
  BY <1>1, <1>2, CutAt DEF Cut
<1>4. PICK f : StandsFor(s, g, f)
  BY DEF Places
<1>5. /\ f \in [1..l -> 1..Len(s)] /\ \A i, j \in 1..l : f[i] = f[j] => i = j
      /\ \A i \in 1..l : g[i].time = s[f[i]].time
  BY <1>1, <1>4 DEF StandsFor
<1>6. \A i \in 1..(l - k) : k + i \in 1..l
  BY <1>1
<1> DEFINE h == [i \in 1..(l - k) |-> f[k + i]]
<1>7. h \in [1..(l - k) -> 1..Len(s)] /\ \A i \in 1..(l - k) : q[i].time = s[h[i]].time
  BY <1>3, <1>5, <1>6
<1>8. ASSUME NEW i \in 1..(l - k), NEW j \in 1..(l - k), h[i] = h[j] PROVE i = j
  <2>1. k + i = k + j
    BY <1>5, <1>6, <1>8
  <2> QED
    BY <1>1, <2>1
<1> HIDE DEF h
<1>9. StandsFor(s, q, h)
  BY <1>3, <1>7, <1>8 DEF StandsFor
<1> QED
  BY <1>2, <1>9 DEF Places

LEMMA OrderPut ==
    ASSUME NEW r \in Seq(Row), NEW t \in Seq(Row), NEW c \in Seq(Row), InTime(c), Places(r, c),
           t # <<>> => Len(c) >= KeptBack, Timely(r) => InTime(t \o c),
           NEW x \in Row, NEW n \in 0..Len(c), NEW g \in Seq(Row), Inserted(c, x, n, g), InTime(g),
           Timely(Append(r, x))
    PROVE  InTime(t \o g)
<1>1. InTime(t \o c)
  BY TimelyBefore
<1>2. InTime(t) /\ Below(t, c)
  BY <1>1, InTimeJoined
<1>3. Below(t, g)
  <2>1. CASE t = <<>>
    <3>1. Len(t) = 0 /\ 1..0 = {}
      BY <2>1
    <3> QED
      BY <3>1 DEF Below, Members
  <2>2. CASE t # <<>>
    <3>1. 1 \in 1..Len(c) /\ c[1].time <= x.time
      BY <2>2, NotBeforeCache
    <3>2. c[1] \in Members(c)
      BY <3>1 DEF Members
    <3>3. ASSUME NEW a \in Members(t), NEW b \in Members(g) PROVE a.time <= b.time
      <4>1. b = x \/ b \in Members(c)
        <5>1. PICK i \in 1..Len(g) : b = g[i]
          BY <3>3 DEF Members
        <5>2. g[i] = x \/ (\E j \in 1..Len(c) : g[i] = c[j])
          BY InsertedMembers
        <5> QED
          BY <5>1, <5>2 DEF Members
      <4>2. a.time <= c[1].time
        BY <1>2, <3>2, <3>3 DEF Below
      <4>3. CASE b \in Members(c)
        BY <1>2, <3>3, <4>3 DEF Below
      <4>4. CASE b = x
        <5>1. a.time \in Nat /\ c[1].time \in Nat /\ x.time \in Nat
          <6>1. a \in Row
            BY <3>3, RowsOfSequence DEF Members
          <6> QED
            BY <3>1, <6>1, RowsOfSequence DEF Row
        <5> QED
          BY <3>1, <4>2, <4>4, <5>1
      <4> QED
        BY <4>1, <4>3, <4>4
    <3> QED
      BY <3>3 DEF Below
  <2> QED
    BY <2>1, <2>2
<1> QED
  BY <1>2, <1>3, InTimeJoined

LEMMA OrderFlushed ==
    ASSUME NEW t \in Seq(Row), NEW g \in Seq(Row), InTime(t \o g), NEW k \in Nat, k + 1 <= Len(g)
    PROVE  InTime(SaveMessages(t, SubSeq(g, 1, k + 1)) \o SubSeq(g, k + 1, Len(g)))
<1>1. PICK l \in Nat : l = Len(g) /\ k + 1 <= l
  OBVIOUS
<1>2. PICK p, q, v : p = SubSeq(g, 1, k + 1) /\ q = SubSeq(g, k + 1, Len(g)) /\ v = SaveMessages(t, p)
  OBVIOUS
<1>3. p \in Seq(Row) /\ Len(p) = k + 1 /\ \A i \in 1..(k + 1) : p[i] = g[i]
  <2>1. k + 1 \in 0..Len(g)
    BY <1>1
  <2> QED
    BY <1>2, <2>1, CutAt DEF Cut
<1>4. q \in Seq(Row) /\ Len(q) = l - k /\ \A i \in 1..(l - k) : q[i] = g[k + i]
  <2>1. k \in 0..Len(g)
    BY <1>1
  <2> QED
    BY <1>1, <1>2, <2>1, CutAt DEF Cut
<1>5. InTime(t) /\ InTime(g) /\ Below(t, g)
  BY InTimeJoined
<1>6. \A i \in 1..(k + 1) : i \in 1..l
  BY <1>1
<1>7. \A i \in 1..(l - k) : k + i \in 1..l
  BY <1>1
<1>8. Members(p) \subseteq Members(g) /\ Members(q) \subseteq Members(g)
  BY <1>1, <1>3, <1>4, <1>6, <1>7 DEF Members
<1>9. InTime(p)
  BY <1>1, <1>3, <1>5, <1>6 DEF InTime
<1>10. InTime(q)
  BY <1>2, <1>5, KeptInTime
<1>11. Below(p, q)
  <2>1. ASSUME NEW i \in 1..(k + 1), NEW j \in 1..(l - k) PROVE p[i].time <= q[j].time
    <3>1. i < k + j \/ i = k + j
      OBVIOUS
    <3>2. g[i].time \in Nat /\ g[i].time <= g[k + j].time
      BY <1>1, <1>5, <1>6, <1>7, <3>1, RowsOfSequence DEF InTime
    <3> QED
      BY <1>3, <1>4, <3>2
  <2> QED
    BY <1>3, <1>4, <2>1 DEF Below, Members
<1>12. v \in Seq(Row) /\ Members(v) \subseteq Members(t) \cup Members(p)
  <2>1. v = SaveMessages(t, p) /\ p \in Seq(Row)
    BY <1>2, <1>3
  <2>2. v \in Seq(Row)
    BY <2>1, SaveMessagesFacts
  <2>3. Members(v) \subseteq Members(t) \cup Members(p)
    BY <2>1, SaveInTime
  <2> QED
    BY <2>2, <2>3
<1>13. InTime(v)
  <2>1. InTime(t \o p)
    BY <1>3, <1>5, <1>8, <1>9, InTimeJoined DEF Below
  <2> QED
    BY <1>2, <1>3, <2>1, SaveInTime
<1>14. Below(v, q)
  BY <1>5, <1>8, <1>11, <1>12 DEF Below
<1>15. InTime(v \o q)
  BY <1>4, <1>10, <1>12, <1>13, <1>14, InTimeJoined
<1> QED
  BY <1>2, <1>15

(* While one recording is added to a new table, every row in the cache is  *)
(* of a message of its own, the cache holds what a flush keeps once a row  *)
(* was saved, and no row that comes in time is behind a later one.         *)
Ordered == phase \in {"database", "idle"} /\ call.target = "db" /\ ~Appends(call.entry)
OrderInv ==
    Ordered =>
        /\ Places(Rows(processed), cache)
        /\ phase = "database" /\ table # <<>> => Len(cache) >= KeptBack
        /\ Timely(Rows(processed)) => InTime(table \o cache)

LEMMA PlacesOfNone ==
    ASSUME NEW s \in Seq(Row)
    PROVE  Places(s, <<>>)
<1>1. Len(<<>>) = 0 /\ 1..0 = {}
  OBVIOUS
<1> DEFINE f == [i \in {} |-> i]
<1>2. f \in [1..0 -> 1..Len(s)]
  BY <1>1
<1>3. StandsFor(s, <<>>, f)
  BY <1>1, <1>2 DEF StandsFor
<1> QED
  BY <1>3 DEF Places

LEMMA OrderInit ==
    ASSUME DatabaseInit
    PROVE  OrderInv
<1>1. Rows(processed) \in Seq(Row) /\ cache = <<>> /\ table = <<>>
  BY EmptyInTime, RowsOfEmpty DEF DatabaseInit
<1>2. <<>> \o <<>> = <<>>
  OBVIOUS
<1> QED
  BY <1>1, <1>2, PlacesOfNone, EmptyInTime DEF OrderInv

LEMMA OrderProcessMessage ==
    ASSUME StoreInv, OrderInv, ProcessMessage
    PROVE  OrderInv'
<1>1. phase = "database" /\ phase' = phase /\ call' = call
  BY DEF ProcessMessage, TakeMessage
<1>2. CASE ~Ordered
  BY <1>1, <1>2 DEF OrderInv, Ordered
<1>3. CASE Ordered
  <2>1. PICK r, t, c : r = Rows(processed) /\ t = table /\ c = cache
    OBVIOUS
  <2>2. r \in Seq(Row) /\ t \in Seq(Row) /\ c \in Seq(Row) /\ InTime(c)
    BY <2>1, RowsAre DEF StoreInv, DatabaseTypeOK, CacheInv
  <2>3. Places(r, c) /\ (t # <<>> => Len(c) >= KeptBack) /\ (Timely(r) => InTime(t \o c))
    BY <1>1, <1>3, <2>1 DEF OrderInv
  <2>4. PICK m \in Message, x \in Row, g \in Seq(Row) :
            /\ x = RowOf(m) /\ processed' = Append(processed, m)
            /\ \E n \in 0..Len(cache) : Inserted(cache, x, n, g)
            /\ InTime(g)
            /\ \/ CachedIn(g)
               \/ \E k \in Nat : /\ k = Len(g) \div 2 /\ k + 1 <= Len(g) /\ Len(g) >= CacheLimit
                                 /\ FlushedAt(g, k)
    BY ProcessMessageFacts
  <2>5. PICK n \in 0..Len(c) : Inserted(c, x, n, g)
    BY <2>1, <2>4
  <2>6. Rows(processed') = Append(r, x)
    BY <2>1, <2>4, RowsOfAppend DEF StoreInv, DatabaseTypeOK
  <2>7. Places(Append(r, x), g)
    BY <2>2, <2>3, <2>5, PlacesInserted
  <2>8. Timely(Append(r, x)) => InTime(t \o g)
    BY <2>2, <2>3, <2>4, <2>5, OrderPut
  <2>9. Append(r, x) \in Seq(Row)
    BY <2>2, AppendFacts
  <2>10. CASE CachedIn(g)
    <3>1. Len(g) = Len(c) + 1 /\ Len(c) \in Nat
      BY <2>2, <2>5 DEF Inserted
    <3>2. t # <<>> => Len(g) >= KeptBack
      BY <2>3, <3>1, LimitFacts
    <3>3. table' = t /\ cache' = g
      BY <2>1, <2>10 DEF CachedIn
    <3> QED
      BY <2>6, <2>7, <2>8, <3>2, <3>3 DEF OrderInv
  <2>11. ASSUME NEW k \in Nat, k = Len(g) \div 2, k + 1 <= Len(g), Len(g) >= CacheLimit, FlushedAt(g, k)
         PROVE  OrderInv'
    <3>1. PICK l \in Nat : l = Len(g)
      BY <2>4
    <3>2. PICK q, v : q = SubSeq(g, k + 1, Len(g)) /\ v = SaveMessages(t, SubSeq(g, 1, k + 1))
      OBVIOUS
    <3>3. table' = v /\ cache' = q
      BY <2>1, <2>11, <3>2 DEF FlushedAt
    <3>4. k \in 0..Len(g)
      BY <2>11, <3>1
    <3>5. Len(q) = l - k
      BY <3>1, <3>2, <3>4, CutAt DEF Cut
    <3>6. Len(q) >= KeptBack
      BY <2>11, <3>1, <3>5, LimitFacts
    <3>7. Places(Append(r, x), q)
      BY <2>7, <2>9, <3>2, <3>4, PlacesOfRest
    <3>8. Timely(Append(r, x)) => InTime(v \o q)
      BY <2>2, <2>8, <2>11, <3>2, OrderFlushed
    <3> QED
      BY <2>6, <3>3, <3>6, <3>7, <3>8 DEF OrderInv
  <2> QED
    BY <2>4, <2>10, <2>11
<1> QED
  BY <1>2, <1>3

LEMMA OrderUpdateTable ==
    ASSUME StoreInv, OrderInv, UpdateTable
    PROVE  OrderInv'
<1>1. /\ table \in Seq(Row) /\ cache \in Seq(Row) /\ phase = "database" /\ phase' = "idle"
      /\ table' = SaveMessages(table, cache) /\ cache' = <<>> /\ call' = call /\ processed' = processed
  BY DEF StoreInv, DatabaseTypeOK, UpdateTable, FlushCache, callVars
<1>2. Rows(processed) \in Seq(Row)
  BY RowsAre DEF StoreInv, DatabaseTypeOK
<1>3. table' \o <<>> = table'
  <2>1. table' \in Seq(Row)
    BY <1>1, SaveMessagesFacts
  <2> QED
    BY <2>1
<1>4. InTime(table \o cache) => InTime(table')
  BY <1>1, SaveInTime
<1> QED
  BY <1>1, <1>2, <1>3, <1>4, PlacesOfNone DEF OrderInv, Ordered

LEMMA OrderCreateDb ==
    ASSUME StoreInv, OrderInv, CreateDb
    PROVE  OrderInv'
<1>1. /\ call' = Head(calls) /\ cache' = <<>>
      /\ ~Appends(call'.entry) => table' = <<>> /\ processed' = <<>>
  BY BeginCallFacts DEF CreateDb
<1>2. <<>> \o <<>> = <<>>
  OBVIOUS
<1>3. Rows(<<>>) \in Seq(Row)
  BY EmptyInTime, RowsOfEmpty
<1> QED
  BY <1>1, <1>2, <1>3, PlacesOfNone, EmptyInTime DEF OrderInv, Ordered

(* What a call is about is what the process does for it.                   *)
PhaseInv ==
    /\ phase = "database" => call.target = "db"
    /\ phase = "capture" => call.target \in Formats

LEMMA PhaseStep ==
    ASSUME StoreInv, PhaseInv, [DatabaseNext]_databaseVars
    PROVE  PhaseInv'
<1>1. CASE CreateDb
  BY <1>1 DEF CreateDb, BeginCall, PhaseInv
<1>2. CASE CreatePcap
  BY <1>2 DEF CreatePcap, BeginCall, PhaseInv
<1>3. CASE ProcessMessage \/ WriteCapture
  BY <1>3 DEF ProcessMessage, WriteCapture, TakeMessage, PhaseInv
<1>4. CASE UpdateTable \/ CloseCapture
  BY <1>4 DEF UpdateTable, CloseCapture, PhaseInv
<1>5. CASE StopReading \/ UNCHANGED databaseVars
  BY <1>5 DEF StopReading, databaseVars, callVars, PhaseInv
<1>6. CASE WriteVsb
  BY <1>6 DEF WriteVsb, PhaseInv
<1>7. CASE ExportRow \/ StopExport \/ EndExport
  BY <1>7 DEF ExportRow, StopExport, EndExport, FetchRow, PhaseInv
<1> QED
  BY <1>1, <1>2, <1>3, <1>4, <1>5, <1>6, <1>7 DEF DatabaseNext

LEMMA OrderStep ==
    ASSUME StoreInv, PhaseInv, OrderInv, [DatabaseNext]_databaseVars
    PROVE  OrderInv'
<1>1. CASE CreateDb
  BY <1>1, OrderCreateDb
<1>2. CASE CreatePcap \/ WriteVsb
  <2>1. phase' \notin {"database", "idle"}
    BY <1>2 DEF CreatePcap, WriteVsb
  <2> QED
    BY <2>1 DEF OrderInv, Ordered
<1>3. CASE ProcessMessage
  BY <1>3, OrderProcessMessage
<1>4. CASE UpdateTable
  BY <1>4, OrderUpdateTable
<1>5. CASE StopReading \/ UNCHANGED databaseVars
  BY <1>5 DEF StopReading, databaseVars, callVars, storeVars, OrderInv, Ordered
<1>6. CASE WriteCapture \/ CloseCapture
  <2>1. phase = "capture" /\ call' = call
    BY <1>6 DEF WriteCapture, CloseCapture, TakeMessage, callVars
  <2>2. call'.target # "db"
    BY <2>1 DEF PhaseInv, Formats
  <2> QED
    BY <2>2 DEF OrderInv, Ordered
<1>7. CASE ExportRow \/ StopExport \/ EndExport
  <2>1. phase' \notin {"database", "idle"}
    BY <1>7 DEF ExportRow, StopExport, EndExport, FetchRow
  <2> QED
    BY <2>1 DEF OrderInv, Ordered
<1> QED
  BY <1>1, <1>2, <1>3, <1>4, <1>5, <1>6, <1>7 DEF DatabaseNext

LEMMA OrderIsStored ==
    ASSUME StoreInv, OrderInv
    PROVE  StoredInOrder
<1>1. SUFFICES ASSUME Ordered, \A i \in DOMAIN processed : Disorder(i) < KeptBack
               PROVE  IsSorted(Stored, NotLater)
  BY DEF StoredInOrder, Ordered, KeptBack
<1>2. processed \in Seq(Message)
  BY DEF StoreInv, DatabaseTypeOK
<1>3. PICK r \in Seq(Row) : r = Rows(processed)
  BY <1>2, RowsAre
<1>4. Len(r) = Len(processed) /\ DOMAIN processed = 1..Len(r)
  BY <1>2, <1>3, RowsAre
<1>5. \A i \in 1..Len(r) : r[i].time = CalcEpoch64(processed[i].stamp)
  BY <1>2, <1>3, <1>4, RowsAre, RowType
<1>6. ASSUME NEW i \in 1..Len(r) PROVE Cardinality(LaterBefore(r, i)) < KeptBack
  <2>1. \A j \in 1..(i - 1) : j \in 1..Len(r)
    OBVIOUS
  <2>2. LaterBefore(r, i) = {j \in 1..(i - 1) : CalcEpoch64(processed[j].stamp) > CalcEpoch64(processed[i].stamp)}
    BY <1>5, <2>1 DEF LaterBefore
  <2>3. Disorder(i) < KeptBack
    BY <1>1, <1>4
  <2> QED
    BY <2>2, <2>3 DEF Disorder
<1>7. Timely(r)
  BY <1>6 DEF Timely
<1>8. InTime(table \o cache)
  BY <1>1, <1>3, <1>7 DEF OrderInv
<1> QED
  BY <1>8 DEF IsSorted, Stored, NotLater, InTime

(* The rows of one recording are stored in the order of time, if none of   *)
(* its messages comes behind more later ones than a partial flush leaves   *)
(* in the cache (VSBDatabase.cpp:123-143, 154-156).                        *)
THEOREM RowsStoredInOrder == DatabaseSpec => []StoredInOrder
<1>1. DatabaseInit => OrderInv /\ PhaseInv
  BY OrderInit DEF DatabaseInit, PhaseInv
<1>2. StoreInv /\ PhaseInv /\ OrderInv /\ [DatabaseNext]_databaseVars => OrderInv' /\ PhaseInv'
  BY OrderStep, PhaseStep
<1>3. StoreInv /\ OrderInv => StoredInOrder
  BY OrderIsStored
<1> QED
  BY <1>1, <1>2, <1>3, DatabaseInvariant, PTL DEF DatabaseSpec

-------------------------------------------------------------------------------
(* The times of the stamps of counters.                                    *)
ShortTens(m) == m.stamp.kind = "NEORED_10NS" => m.stamp.high = 0
PlainMessage == {m \in Message : ShortTens(m)}
PlainCall == {c \in Call : c.messages \in Seq(PlainMessage)}

LEMMA EpochIsElapsed ==
    ASSUME NEW s \in Stamp, s.kind \in Counters, s.kind = "NEORED_10NS" => s.high = 0
    PROVE  CalcEpoch64(s) = (EpochOffset + Elapsed(s)) % Wrap
<1>1. PICK a \in Nat, b \in Nat, w \in Nat, v \in Nat, e \in Nat :
          a = s.high /\ b = s.low /\ w = Word /\ v = ShortWord /\ e = EpochOffset
  BY TimeAssumption DEF Stamp
<1>2. a * HighHalf(s.kind) + b * Low(s.kind) + e = e + (a * Carry(s.kind) + b) * Low(s.kind)
  <2>1. CASE s.kind = "NEORED_10NS"
    <3>1. a = 0
      BY <1>1, <2>1
    <3>2. a * (100 * w) + b * 10 + e = e + (a * w + b) * 10
      BY <3>1
    <3> QED
      BY <1>1, <2>1, <3>2 DEF HighHalf, Low, Carry
  <2>2. CASE s.kind = "NEORED_25NS"
    <3>1. a * (25 * w) + b * 25 + e = e + (a * w + b) * 25
      OBVIOUS
    <3> QED
      BY <1>1, <2>2, <3>1 DEF HighHalf, Low, Carry
  <2>3. CASE s.kind = "NEORED_10US"
    <3>1. a * (10000 * w) + b * 10000 + e = e + (a * w + b) * 10000
      OBVIOUS
    <3> QED
      BY <1>1, <2>3, <3>1 DEF HighHalf, Low, Carry
  <2>4. CASE s.kind = "NEOv6_VCAN"
    <3>1. a * (1000 * v) + b * 1000 + e = e + (a * v + b) * 1000
      OBVIOUS
    <3> QED
      BY <1>1, <2>4, <3>1 DEF HighHalf, Low, Carry
  <2>5. CASE s.kind = "NEOVI"
    <3>1. a * (1600 * v) + b * 1600 + e = e + (a * v + b) * 1600
      OBVIOUS
    <3> QED
      BY <1>1, <2>5, <3>1 DEF HighHalf, Low, Carry
  <2> QED
    BY <2>1, <2>2, <2>3, <2>4, <2>5 DEF Counters
<1>3. PICK x, y : x = a * HighHalf(s.kind) + b * Low(s.kind) + e /\ y = (a * Carry(s.kind) + b) * Low(s.kind)
  OBVIOUS
<1>4. CalcEpoch64(s) = x % Wrap
  BY <1>1, <1>3 DEF CalcEpoch64, Counters
<1>5. Elapsed(s) = y
  BY <1>1, <1>3 DEF Elapsed
<1> QED
  BY <1>1, <1>2, <1>3, <1>4, <1>5

PlainInv ==
    /\ calls \in Seq(PlainCall) /\ incoming \in Seq(PlainMessage)
    /\ processed \in Seq(PlainMessage)

LEMMA PlainStep ==
    ASSUME PlainInv, [DatabaseNext]_databaseVars
    PROVE  PlainInv'
<1>1. <<>> \in Seq(PlainMessage)
  OBVIOUS
<1>2. CASE CreateDb \/ CreatePcap
  <2>1. calls # <<>> /\ calls' = Tail(calls) /\ incoming' = Head(calls).messages
    BY <1>2 DEF CreateDb, CreatePcap, BeginCall
  <2>2. calls' \in Seq(PlainCall) /\ Head(calls) \in PlainCall
    BY <2>1, HeadTailProperties DEF PlainInv
  <2>3. incoming' \in Seq(PlainMessage)
    BY <2>1, <2>2 DEF PlainCall
  <2>4. processed' = processed \/ processed' = <<>>
    BY <1>2 DEF CreateDb, CreatePcap
  <2> QED
    BY <1>1, <2>2, <2>3, <2>4 DEF PlainInv
<1>3. CASE ProcessMessage \/ WriteCapture
  <2>1. /\ incoming # <<>> /\ incoming' = Tail(incoming) /\ calls' = calls
        /\ processed' = processed \/ processed' = Append(processed, Head(incoming))
    BY <1>3 DEF ProcessMessage, WriteCapture, TakeMessage
  <2>2. incoming' \in Seq(PlainMessage) /\ Head(incoming) \in PlainMessage
    BY <2>1, HeadTailProperties DEF PlainInv
  <2>3. processed' \in Seq(PlainMessage)
    <3>1. PICK m \in PlainMessage : m = Head(incoming)
      BY <2>2
    <3>2. processed \in Seq(PlainMessage) /\ Append(processed, m) \in Seq(PlainMessage)
      BY AppendFacts DEF PlainInv
    <3> QED
      BY <2>1, <3>1, <3>2
  <2> QED
    BY <2>1, <2>2, <2>3 DEF PlainInv
<1>4. CASE StopReading
  BY <1>1, <1>4 DEF StopReading, PlainInv
<1>5. CASE UpdateTable \/ CloseCapture \/ EndExport
  BY <1>5 DEF UpdateTable, CloseCapture, EndExport, callVars, PlainInv
<1>6. CASE WriteVsb \/ ExportRow \/ StopExport
  BY <1>6 DEF WriteVsb, ExportRow, StopExport, FetchRow, PlainInv
<1>7. CASE UNCHANGED databaseVars
  BY <1>7 DEF databaseVars, callVars, PlainInv
<1> QED
  BY <1>2, <1>3, <1>4, <1>5, <1>6, <1>7 DEF DatabaseNext

LEMMA StoredKeys ==
    ASSUME StoreInv, NEW k
    PROVE  (\E r \in ToSet(Stored) : KeyOf(r) = k)
              <=> \E i \in 1..Len(processed) : KeyOf(RowOf(processed[i])) = k
<1>1. PICK s \in Seq(Row), q \in Seq(Row) : s = table \o cache /\ q = Rows(processed)
  BY RowsAre, ConcatProperties DEF StoreInv, DatabaseTypeOK
<1>2. Firsts(s) = Firsts(q)
  BY <1>1 DEF StoreInv, InputInv
<1>3. Keys(s) = Keys(q)
  BY <1>2, FirstsAre
<1>4. k \in Keys(s) <=> \E r \in ToSet(Stored) : KeyOf(r) = k
  BY <1>1 DEF Keys, Stored
<1>5. Len(q) = Len(processed) /\ \A i \in 1..Len(processed) : q[i] = RowOf(processed[i])
  BY <1>1, RowsAre DEF StoreInv, DatabaseTypeOK
<1>6. k \in Keys(q) <=> \E i \in 1..Len(q) : KeyOf(q[i]) = k
  BY KeysAre
<1> QED
  BY <1>3, <1>4, <1>5, <1>6

LEMMA TimesAreElapsed ==
    ASSUME StoreInv, PlainInv
    PROVE  TimesAreNanoseconds
<1>1. DOMAIN processed = 1..Len(processed) /\ \A i \in 1..Len(processed) : processed[i] \in PlainMessage
  <2>1. \A R : \A t \in Seq(R) : \A i \in 1..Len(t) : t[i] \in R
    OBVIOUS
  <2> QED
    BY <2>1 DEF PlainInv
<1>2. SUFFICES ASSUME NEW i \in 1..Len(processed), processed[i].stamp.kind \in Counters
               PROVE  \E r \in ToSet(Stored) :
                          /\ r.net = processed[i].net /\ r.id = processed[i].id
                          /\ r.time = (EpochOffset + Elapsed(processed[i].stamp)) % Wrap
  BY <1>1 DEF TimesAreNanoseconds
<1>3. PICK m \in Message : m = processed[i] /\ ShortTens(m)
  BY <1>1 DEF PlainMessage
<1>4. m.stamp \in Stamp /\ CalcEpoch64(m.stamp) = (EpochOffset + Elapsed(m.stamp)) % Wrap
  <2>1. m.stamp \in Stamp
    BY DEF Message
  <2> QED
    BY <1>2, <1>3, <2>1, EpochIsElapsed DEF ShortTens
<1>5. PICK r \in ToSet(Stored) : KeyOf(r) = KeyOf(RowOf(m))
  BY <1>3, StoredKeys
<1>6. r.net = m.net /\ r.id = m.id /\ r.time = CalcEpoch64(m.stamp)
  BY <1>5 DEF KeyOf, RowOf
<1> QED
  BY <1>3, <1>4, <1>6

(* The database knows every message that has a counter's stamp by the time *)
(* that passed since 2007, as nanoseconds since 1970, if no stamp that     *)
(* counts 10 ns has its high half in use (MessageTimeDecoderVSB.cpp:80-97).*)
THEOREM TimesAreOfTheStamps ==
    ASSUME Histories \subseteq Seq(PlainCall)
    PROVE  DatabaseSpec => []TimesAreNanoseconds
<1>1. DatabaseInit => PlainInv
  <2>1. <<>> \in Seq(PlainMessage)
    OBVIOUS
  <2> QED
    BY <2>1 DEF DatabaseInit, PlainInv
<1>2. PlainInv /\ [DatabaseNext]_databaseVars => PlainInv'
  BY PlainStep
<1>3. StoreInv /\ PlainInv => TimesAreNanoseconds
  BY TimesAreElapsed
<1> QED
  BY <1>1, <1>2, <1>3, DatabaseInvariant, PTL DEF DatabaseSpec

-------------------------------------------------------------------------------
(* Packet captures: the times of the packets, and what is in the file.     *)
LEMMA SecondsAndRest ==
    ASSUME NEW time \in 0..(Wrap - 1), time < Word * Second
    PROVE  TimeIn("pcap", RecordHeader(time)) = time
<1>1. PICK w \in Nat \ {0}, wrap \in Nat \ {0}, n \in Nat \ {0} :
          w = Word /\ wrap = Wrap /\ n = Second /\ n <= w
  BY TimeAssumption, PcapAssumption
<1>2. n \in Nat \ {0} /\ n <= w
  BY <1>1
<1>3. PICK sec \in Int, rest \in 0..(n - 1) : time = n * sec + rest /\ sec = time \div n
  <2>1. time \in Nat
    OBVIOUS
  <2>2. time \div n \in Int /\ time % n \in 0..(n - 1) /\ time = n * (time \div n) + (time % n)
    BY <1>2, <2>1
  <2> QED
    BY <2>2
<1>4. sec \in 0..(w - 1)
  <2>1. time \in Nat /\ time < w * n
    BY <1>1
  <2>2. n * sec \in Int /\ rest < n
    BY <1>2
  <2>3. sec >= 0
    <3>1. sec <= -1 => n * sec <= -n
      BY <1>2
    <3> QED
      BY <1>2, <1>3, <2>1, <2>2, <3>1
  <2>4. sec < w
    <3>1. sec >= w => n * sec >= n * w
      BY <1>2
    <3>2. w * n = n * w /\ w * n \in Int
      OBVIOUS
    <3> QED
      BY <1>3, <2>1, <2>2, <3>1, <3>2
  <2> QED
    BY <2>3, <2>4
<1>5. sec % w = sec
  BY <1>4
<1>6. PICK x \in Nat : x = sec * n /\ time = x + rest
  <2>1. sec * n \in Nat /\ sec * n = n * sec
    BY <1>2, <1>4
  <2> QED
    BY <1>3, <2>1
<1>7. PICK q \in Int, r \in 0..(w - 1) : x = w * q + r /\ x % w = r
  <2>1. x \in Int
    OBVIOUS
  <2> QED
    BY <2>1, Remainder, Zenon
<1>8. PICK y \in Int : y = w * q /\ y >= 0
  <2>1. w * q \in Int
    OBVIOUS
  <2>2. q <= -1 => w * q <= -w
    OBVIOUS
  <2>3. q >= 0 => w * q >= 0
    OBVIOUS
  <2> QED
    BY <1>7, <2>1, <2>2, <2>3
<1>9. time - r = y + rest /\ time - r \in 0..(wrap - 1)
  BY <1>1, <1>2, <1>6, <1>7, <1>8
<1>10. (time - r) % wrap = y + rest
  BY <1>9
<1>11. (y + rest) % w = rest
  <2>1. rest \in 0..(w - 1)
    BY <1>2
  <2> QED
    BY <1>8, <2>1, RemainderUnique
<1>12. RecordHeader(time) = <<sec, rest>>
  BY <1>1, <1>3, <1>5, <1>6, <1>7, <1>10, <1>11 DEF RecordHeader
<1>13. TimeIn("pcap", <<sec, rest>>) = sec * n + rest
  BY <1>1 DEF TimeIn
<1> QED
  BY <1>6, <1>12, <1>13

LEMMA WholeMicros ==
    ASSUME NEW time \in 0..(Wrap - 1)
    PROVE  time - TimeIn("pcapng", PacketBlock(time)) \in 0..(Micro - 1)
<1>1. PICK w \in Nat \ {0}, u \in Nat \ {0} : w = Word /\ u = Micro
  BY TimeAssumption, PcapAssumption
<1>2. time \in Nat
  OBVIOUS
<1>3. PICK t \in Int, rest \in 0..(u - 1) : t = time \div u /\ time = u * t + rest
  <2>1. time \div u \in Int /\ time % u \in 0..(u - 1) /\ time = u * (time \div u) + (time % u)
    BY <1>2
  <2> QED
    BY <2>1
<1>4. PICK a \in Int, b \in Int : a = t \div w /\ b = t % w /\ t = w * a + b
  <2>1. t \div w \in Int /\ t % w \in Int /\ t = w * (t \div w) + (t % w)
    OBVIOUS
  <2> QED
    BY <2>1
<1>5. PacketBlock(time) = <<a, b>>
  BY <1>1, <1>3, <1>4 DEF PacketBlock
<1>6. TimeIn("pcapng", <<a, b>>) = (a * w + b) * u
  BY <1>1 DEF TimeIn
<1>7. (a * w + b) * u = u * t
  <2>1. a * w + b = t
    <3>1. a * w = w * a /\ a * w \in Int
      OBVIOUS
    <3> QED
      BY <1>4, <3>1
  <2>2. t * u = u * t
    OBVIOUS
  <2> QED
    BY <2>1, <2>2
<1>8. u * t \in Int
  OBVIOUS
<1> QED
  BY <1>1, <1>3, <1>5, <1>6, <1>7, <1>8

(* A capture in a format: a header at most, and the packets of messages.   *)
Blocks == {Header(f) : f \in Formats} \cup {Packet(f, m) : f \in Formats, m \in Message}
CaptureOf(format, blocks, frames) ==
    /\ blocks \in Seq(Blocks)
    /\ \E front \in {0, 1} :
          /\ Len(blocks) = front + Len(frames)
          /\ front = 1 => blocks[1].header
          /\ \A i \in 1..Len(frames) : blocks[front + i] = Packet(format, frames[i])

LEMMA PacketWritten ==
    ASSUME NEW format \in Formats, NEW blocks, NEW frames \in Seq(Message), NEW m \in Message,
           CaptureOf(format, blocks, frames)
    PROVE  CaptureOf(format, Append(blocks, Packet(format, m)), Append(frames, m))
<1>1. PICK p : p = Packet(format, m) /\ p \in Blocks
  BY DEF Blocks
<1>2. blocks \in Seq(Blocks)
  BY DEF CaptureOf
<1>3. PICK c \in Seq(Blocks) : EndsIn(c, blocks, p)
  BY <1>1, <1>2, EndsInAppended
<1>4. PICK g \in Seq(Message) : EndsIn(g, frames, m)
  BY EndsInAppended
<1>5. PICK front \in {0, 1} :
          /\ Len(blocks) = front + Len(frames)
          /\ front = 1 => blocks[1].header
          /\ \A i \in 1..Len(frames) : blocks[front + i] = Packet(format, frames[i])
  BY DEF CaptureOf
<1>6. PICK n \in Nat : n = Len(frames) /\ Len(g) = n + 1 /\ g[n + 1] = m /\ \A i \in 1..n : g[i] = frames[i]
  BY <1>4 DEF EndsIn
<1>7. /\ Len(c) = (front + n) + 1 /\ c[(front + n) + 1] = p
      /\ \A i \in 1..(front + n) : c[i] = blocks[i]
  BY <1>3, <1>5, <1>6 DEF EndsIn
<1>8. front = 1 => c[1].header
  <2>1. front = 1 => 1 \in 1..(front + n)
    OBVIOUS
  <2> QED
    BY <1>5, <1>7, <2>1
<1>9. ASSUME NEW i \in 1..(n + 1) PROVE c[front + i] = Packet(format, g[i])
  <2>1. CASE i = n + 1
    <3>1. front + i = (front + n) + 1
      BY <2>1
    <3> QED
      BY <1>1, <1>6, <1>7, <2>1, <3>1
  <2>2. CASE i # n + 1
    <3>1. i \in 1..n /\ front + i \in 1..(front + n)
      BY <2>2
    <3> QED
      BY <1>5, <1>6, <1>7, <3>1
  <2> QED
    BY <2>1, <2>2
<1>10. Len(c) = front + (n + 1)
  BY <1>7
<1>11. CaptureOf(format, c, g)
  BY <1>6, <1>8, <1>9, <1>10 DEF CaptureOf
<1> QED
  BY <1>1, <1>3, <1>4, <1>11 DEF EndsIn

LEMMA CaptureOpened ==
    ASSUME NEW format \in Formats
    PROVE  CaptureOf(format, <<>>, <<>>) /\ CaptureOf(format, <<Header(format)>>, <<>>)
<1>1. Header(format) \in Blocks
  BY DEF Blocks
<1>2. /\ <<>> \in Seq(Blocks) /\ Len(<<>>) = 0 /\ 1..0 = {}
      /\ <<Header(format)>> \in Seq(Blocks) /\ Len(<<Header(format)>>) = 1
      /\ <<Header(format)>>[1] = Header(format)
  BY <1>1
<1>3. Header(format).header
  BY DEF Header
<1>4. CaptureOf(format, <<>>, <<>>)
  <2>1. Len(<<>>) = 0 + Len(<<>>)
    BY <1>2
  <2> QED
    BY <1>2, <2>1 DEF CaptureOf
<1>5. CaptureOf(format, <<Header(format)>>, <<>>)
  <2>1. Len(<<Header(format)>>) = 1 + Len(<<>>)
    BY <1>2
  <2> QED
    BY <1>2, <1>3, <2>1 DEF CaptureOf
<1> QED
  BY <1>4, <1>5

(* The captures of a history are in one format, and hold the Ethernet      *)
(* messages that were written since it was created.                        *)
InFormat(format) ==
    /\ \A i \in 1..Len(calls) : calls[i].target \in Formats => calls[i].target = format
    /\ call.target \in Formats => call.target = format
CaptureInv ==
    \E format \in Formats :
        InFormat(format) /\ CaptureOf(format, capture, Selected(captured, Frames))

LEMMA CaptureInit ==
    ASSUME DatabaseInit
    PROVE  CaptureInv
<1>1. /\ calls \in Seq(Call) /\ OneCapture(calls)
      /\ call.target = "db" /\ capture = <<>> /\ captured = <<>>
  BY HistoriesAssumption DEF DatabaseInit, NoCall
<1>2. \E format \in Formats : \A i \in 1..Len(calls) : calls[i].target \in Formats => calls[i].target = format
  <2>1. CASE \E i \in 1..Len(calls) : calls[i].target \in Formats
    BY <1>1, <2>1 DEF OneCapture
  <2>2. CASE ~\E i \in 1..Len(calls) : calls[i].target \in Formats
    BY <2>2 DEF Formats
  <2> QED
    BY <2>1, <2>2
<1>3. PICK format \in Formats :
          \A i \in 1..Len(calls) : calls[i].target \in Formats => calls[i].target = format
  BY <1>2
<1>4. Selected(captured, Frames) = <<>>
  BY <1>1, SelectedFacts
<1>5. InFormat(format)
  BY <1>1, <1>3 DEF InFormat, Formats
<1> QED
  BY <1>1, <1>4, <1>5, CaptureOpened DEF CaptureInv

(* The format stays the same from call to call.                            *)
LEMMA FormatKept ==
    ASSUME StoreInv, NEW format, InFormat(format), NEW target, BeginCall(target)
    PROVE  InFormat(format)'
<1>1. calls \in Seq(Call) /\ calls # <<>>
  BY DEF StoreInv, DatabaseTypeOK, BeginCall
<1>2. PICK n \in Nat : Len(calls) = n + 1
  <2>1. Len(calls) \in Nat /\ Len(calls) # 0
    BY <1>1, EmptySeq
  <2>2. Len(calls) - 1 \in Nat /\ Len(calls) = (Len(calls) - 1) + 1
    BY <2>1
  <2> QED
    BY <2>2
<1>3. PICK t : t = Tail(calls)
  OBVIOUS
<1>4. Len(t) = n /\ \A i \in 1..n : t[i] = calls[i + 1]
  BY <1>1, <1>2, <1>3, HeadTailProperties
<1>5. calls' = t /\ call' = calls[1]
  BY <1>1, <1>3 DEF BeginCall
<1>6. 1 \in 1..(n + 1) /\ \A i \in 1..n : i + 1 \in 1..(n + 1)
  OBVIOUS
<1> QED
  BY <1>2, <1>4, <1>5, <1>6 DEF InFormat

LEMMA CaptureCreatePcap ==
    ASSUME StoreInv, CaptureInv, CreatePcap
    PROVE  CaptureInv'
<1>1. PICK format \in Formats : InFormat(format) /\ CaptureOf(format, capture, Selected(captured, Frames))
  BY DEF CaptureInv
<1>2. InFormat(format)'
  BY <1>1, FormatKept DEF CreatePcap
<1>3. call' = Head(calls) /\ call'.target = format
  BY <1>2 DEF CreatePcap, BeginCall, InFormat
<1>4. CaptureOf(format, capture', Selected(captured', Frames))
  <2>1. CASE Appends(call'.entry)
    <3>1. capture' = capture /\ captured' = captured
      BY <1>3, <2>1 DEF CreatePcap, OpenCapture
    <3> QED
      BY <1>1, <3>1
  <2>2. CASE ~Appends(call'.entry)
    <3>1. capture' = <<Header(format)>> /\ captured' = <<>>
      BY <1>3, <2>2 DEF CreatePcap, OpenCapture
    <3>2. Selected(<<>>, Frames) = <<>>
      BY SelectedFacts
    <3> QED
      BY <3>1, <3>2, CaptureOpened
  <2> QED
    BY <2>1, <2>2
<1> QED
  BY <1>2, <1>4 DEF CaptureInv, InFormat

LEMMA CaptureWritten ==
    ASSUME StoreInv, PhaseInv, CaptureInv, WriteCapture
    PROVE  CaptureInv'
<1>1. PICK format \in Formats : InFormat(format) /\ CaptureOf(format, capture, Selected(captured, Frames))
  BY DEF CaptureInv
<1>2. call.target = format /\ call' = call /\ calls' = calls
  BY <1>1 DEF WriteCapture, TakeMessage, PhaseInv, InFormat
<1>3. PICK m \in Message, s \in Seq(Message) :
          m = Head(incoming) /\ s = captured /\ captured' = Append(s, m)
  <2>1. Head(incoming) \in Message /\ captured \in Seq(Message)
    BY RowsOfTail DEF WriteCapture, TakeMessage, StoreInv, DatabaseTypeOK
  <2> QED
    BY <2>1 DEF WriteCapture
<1>4. PICK frames \in Seq(Message) : frames = Selected(s, Frames)
  BY SelectedFacts
<1>5. capture' = IF m.frame THEN Append(capture, Packet(format, m)) ELSE capture
  BY <1>2, <1>3 DEF WriteCapture, WritePacket
<1>6. Selected(captured', Frames) = IF m.frame THEN Append(frames, m) ELSE frames
  <2>1. m \in Frames <=> m.frame
    BY DEF Frames
  <2> QED
    <3>1. Selected(Append(s, m), Frames)
              = IF m \in Frames THEN Append(Selected(s, Frames), m) ELSE Selected(s, Frames)
      BY SelectedAppend
    <3> QED
      BY <1>3, <1>4, <2>1, <3>1
<1>7. CaptureOf(format, capture', Selected(captured', Frames))
  BY <1>1, <1>3, <1>4, <1>5, <1>6, PacketWritten
<1> QED
  BY <1>1, <1>2, <1>7 DEF CaptureInv, InFormat

LEMMA CaptureStep ==
    ASSUME StoreInv, PhaseInv, CaptureInv, [DatabaseNext]_databaseVars
    PROVE  CaptureInv'
<1>1. PICK format \in Formats : InFormat(format) /\ CaptureOf(format, capture, Selected(captured, Frames))
  BY DEF CaptureInv
<1>2. ASSUME InFormat(format)', capture' = capture, captured' = captured PROVE CaptureInv'
  BY <1>1, <1>2 DEF CaptureInv, InFormat
<1>3. CASE CreateDb
  BY <1>1, <1>2, <1>3, FormatKept DEF CreateDb
<1>4. CASE CreatePcap
  BY <1>4, CaptureCreatePcap
<1>5. CASE WriteCapture
  BY <1>5, CaptureWritten
<1>6. CASE ProcessMessage \/ StopReading
  BY <1>1, <1>2, <1>6 DEF ProcessMessage, StopReading, TakeMessage, InFormat
<1>7. CASE UpdateTable \/ CloseCapture \/ EndExport
  BY <1>1, <1>2, <1>7 DEF UpdateTable, CloseCapture, EndExport, callVars, InFormat
<1>8. CASE ExportRow \/ StopExport
  BY <1>1, <1>2, <1>8 DEF ExportRow, StopExport, FetchRow, InFormat
<1>9. CASE WriteVsb
  <2>1. call'.target = "db"
    BY <1>9 DEF WriteVsb, NoCall
  <2> QED
    BY <1>1, <1>2, <1>9, <2>1 DEF WriteVsb, InFormat, Formats
<1>10. CASE UNCHANGED databaseVars
  BY <1>1, <1>2, <1>10 DEF databaseVars, callVars, InFormat
<1> QED
  BY <1>3, <1>4, <1>5, <1>6, <1>7, <1>8, <1>9, <1>10 DEF DatabaseNext

LEMMA CaptureIsMatched ==
    ASSUME StoreInv, CaptureInv
    PROVE  CaptureMatches
<1>1. PICK format \in Formats : InFormat(format) /\ CaptureOf(format, capture, Selected(captured, Frames))
  BY DEF CaptureInv
<1>2. PICK frames \in Seq(Message) : frames = Selected(captured, Frames)
  BY SelectedFacts DEF StoreInv, DatabaseTypeOK
<1>3. PICK front \in {0, 1} :
          /\ Len(capture) = front + Len(frames)
          /\ front = 1 => capture[1].header
          /\ \A i \in 1..Len(frames) : capture[front + i] = Packet(format, frames[i])
  BY <1>1, <1>2 DEF CaptureOf
<1>4. Len(capture) - Len(frames) = front
  <2>1. Len(frames) \in Nat
    OBVIOUS
  <2> QED
    BY <1>3, <2>1
<1>5. DOMAIN frames = 1..Len(frames) /\ \A i \in 1..Len(frames) : frames[i] \in Message
  <2>1. \A R : \A t \in Seq(R) : \A i \in 1..Len(t) : t[i] \in R
    OBVIOUS
  <2> QED
    BY <2>1
<1>6. ASSUME NEW i \in 1..Len(frames)
      PROVE  LET packet == capture[front + i]
                 time == CalcEpoch64(frames[i].stamp)
             IN  /\ ~packet.header /\ packet.body = frames[i].body
                 /\ call.target = "pcap" /\ time < Word * Second => TimeIn("pcap", packet.at) = time
                 /\ call.target = "pcapng" => time - TimeIn("pcapng", packet.at) \in 0..(Micro - 1)
  <2>1. PICK m, p : m = frames[i] /\ p = capture[front + i]
    OBVIOUS
  <2>a. m \in Message /\ p = Packet(format, m)
    BY <1>3, <1>5, <2>1
  <2>2. PICK time \in 0..(Wrap - 1) : time = CalcEpoch64(m.stamp)
    <3>1. m.stamp \in Stamp
      BY <2>a DEF Message
    <3> QED
      BY <3>1, TimeType
  <2>3. /\ ~p.header /\ p.body = m.body
        /\ p.at = IF format = "pcap" THEN RecordHeader(time) ELSE PacketBlock(time)
    BY <2>a, <2>2 DEF Packet
  <2>4. call.target = "pcap" => format = "pcap"
    BY <1>1 DEF InFormat, Formats
  <2>5. call.target = "pcapng" => format = "pcapng"
    BY <1>1 DEF InFormat, Formats
  <2>6. call.target = "pcap" /\ time < Word * Second => TimeIn("pcap", p.at) = time
    BY <2>3, <2>4, SecondsAndRest
  <2>7. call.target = "pcapng" => time - TimeIn("pcapng", p.at) \in 0..(Micro - 1)
    BY <2>3, <2>5, WholeMicros
  <2> QED
    BY <2>1, <2>2, <2>3, <2>6, <2>7
<1> QED
  BY <1>2, <1>3, <1>4, <1>5, <1>6 DEF CaptureMatches

(* A capture holds the Ethernet messages of all recordings that were added *)
(* since it was created, in their order and with their times: to the       *)
(* nanosecond, for 2^32 seconds, or to the microsecond                     *)
(* (PcapFile.cpp:60-132).                                                  *)
THEOREM CapturesMatch == DatabaseSpec => []CaptureMatches
<1>1. DatabaseInit => CaptureInv /\ PhaseInv
  BY CaptureInit DEF DatabaseInit, PhaseInv
<1>2. StoreInv /\ PhaseInv /\ CaptureInv /\ [DatabaseNext]_databaseVars => CaptureInv' /\ PhaseInv'
  BY CaptureStep, PhaseStep
<1>3. StoreInv /\ CaptureInv => CaptureMatches
  BY CaptureIsMatched
<1> QED
  BY <1>1, <1>2, <1>3, DatabaseInvariant, PTL DEF DatabaseSpec

-------------------------------------------------------------------------------
(* No two rows of the table have the same key: what the query selects.     *)
KeyedOnce(s) == \A i, j \in 1..Len(s) : KeyOf(s[i]) = KeyOf(s[j]) => i = j

LEMMA KeyedAppended ==
    ASSUME NEW s \in Seq(Row), NEW x \in Row
    PROVE  KeyedOnce(Append(s, x)) <=> KeyedOnce(s) /\ KeyOf(x) \notin Keys(s)
<1>1. PICK g \in Seq(Row) : EndsIn(g, s, x)
  BY EndsInAppended
<1>2. PICK n \in Nat : n = Len(s) /\ Len(g) = n + 1 /\ g[n + 1] = x /\ \A i \in 1..n : g[i] = s[i]
  BY <1>1 DEF EndsIn
<1>3. /\ \A i \in 1..(n + 1) : i \in 1..n \/ i = n + 1
      /\ \A i \in 1..n : i \in 1..(n + 1) /\ i # n + 1
      /\ n + 1 \in 1..(n + 1)
  OBVIOUS
<1>4. KeyOf(x) \notin Keys(s) <=> \A i \in 1..n : KeyOf(s[i]) # KeyOf(x)
  BY <1>2, KeysAre
<1>5. KeyedOnce(g) <=> KeyedOnce(s) /\ \A i \in 1..n : KeyOf(s[i]) # KeyOf(x)
  <2>1. KeyedOnce(g) => KeyedOnce(s) /\ \A i \in 1..n : KeyOf(s[i]) # KeyOf(x)
    BY <1>2, <1>3 DEF KeyedOnce
  <2>2. ASSUME KeyedOnce(s), \A i \in 1..n : KeyOf(s[i]) # KeyOf(x),
               NEW i \in 1..(n + 1), NEW j \in 1..(n + 1), KeyOf(g[i]) = KeyOf(g[j])
        PROVE  i = j
    <3>1. CASE i = n + 1 \/ j = n + 1
      BY <1>2, <1>3, <2>2, <3>1
    <3>2. CASE i \in 1..n /\ j \in 1..n
      BY <1>2, <2>2, <3>2 DEF KeyedOnce
    <3> QED
      BY <1>3, <3>1, <3>2
  <2> QED
    BY <1>2, <2>1, <2>2 DEF KeyedOnce
<1> QED
  BY <1>1, <1>4, <1>5 DEF EndsIn

LEMMA KeyedOfNone == KeyedOnce(<<>>)
<1>1. Len(<<>>) = 0 /\ 1..0 = {}
  OBVIOUS
<1> QED
  BY <1>1 DEF KeyedOnce

LEMMA SaveKeyed ==
    ASSUME NEW t \in Seq(Row), KeyedOnce(t), NEW s \in Seq(Row)
    PROVE  KeyedOnce(SaveMessages(t, s))
<1> DEFINE S == {u \in Seq(Row) : KeyedOnce(SaveMessages(t, u))}
<1>1. <<>> \in S
  <2>1. SaveMessages(t, <<>>) = t /\ <<>> \in Seq(Row)
    BY SaveMessagesFacts
  <2> QED
    BY <2>1
<1>2. ASSUME NEW u \in S, NEW x \in Row PROVE Append(u, x) \in S
  <2>1. PICK v, w : v = SaveMessages(t, u) /\ w = SaveMessages(t, Append(u, x))
    OBVIOUS
  <2>2. u \in Seq(Row) /\ KeyedOnce(v)
    BY <2>1
  <2>3. v \in Seq(Row) /\ w = SaveMessage(v, x)
    BY <2>1, <2>2, SaveMessagesFacts
  <2>4. KeyedOnce(w)
    <3>1. CASE KeyOf(x) \in Keys(v)
      <4>1. w = v
        <5>1. DOMAIN v = 1..Len(v)
          BY <2>3
        <5> QED
          BY <2>3, <3>1, <5>1, KeysAre DEF SaveMessage
      <4> QED
        BY <2>2, <4>1
    <3>2. CASE KeyOf(x) \notin Keys(v)
      <4>1. w = v \/ w = Append(v, x)
        BY <2>3 DEF SaveMessage
      <4>2. KeyedOnce(Append(v, x))
        BY <2>2, <2>3, <3>2, KeyedAppended
      <4> QED
        BY <2>2, <4>1, <4>2
    <3> QED
      BY <3>1, <3>2
  <2>5. Append(u, x) \in Seq(Row)
    BY <2>2, AppendFacts
  <2> QED
    BY <2>1, <2>4, <2>5
<1>3. S = Seq(Row)
  <2> HIDE DEF S
  <2>1. S \in SUBSET Seq(Row)
    BY DEF S
  <2> QED
    BY <1>1, <1>2, <2>1, SequenceInduction
<1> QED
  BY <1>3

LEMMA MembersAreSet ==
    ASSUME NEW s \in Seq(Row)
    PROVE  Members(s) = ToSet(s)
<1>1. DOMAIN s = 1..Len(s)
  OBVIOUS
<1> QED
  BY <1>1 DEF Members, ToSet

LEMMA SelectedRows ==
    ASSUME NEW s \in Seq(Row), NEW wanted
    PROVE  /\ Selected(s, wanted) \in Seq(Row)
           /\ Members(Selected(s, wanted)) = Members(s) \cap wanted
           /\ KeyedOnce(s) => KeyedOnce(Selected(s, wanted))
<1> DEFINE Same(u) == /\ Members(Selected(u, wanted)) = Members(u) \cap wanted
                      /\ KeyedOnce(u) => KeyedOnce(Selected(u, wanted))
           S == {u \in Seq(Row) : Same(u)}
<1>0. Members(<<>>) = {}
  <2>1. Len(<<>>) = 0 /\ 1..0 = {}
    OBVIOUS
  <2> QED
    BY <2>1 DEF Members
<1>1. <<>> \in S
  <2>1. Selected(<<>>, wanted) = <<>> /\ <<>> \in Seq(Row)
    BY SelectedFacts
  <2> QED
    BY <1>0, <2>1, KeyedOfNone
<1>2. ASSUME NEW u \in S, NEW x \in Row PROVE Append(u, x) \in S
  <2>1. u \in Seq(Row) /\ Same(u)
    OBVIOUS
  <2>2. PICK v, w : v = Selected(u, wanted) /\ w = Selected(Append(u, x), wanted)
    OBVIOUS
  <2>3. v \in Seq(Row) /\ w = IF x \in wanted THEN Append(v, x) ELSE v
    <3>1. Selected(u, wanted) \in Seq(Row)
      BY <2>1, SelectedFacts
    <3>2. Selected(Append(u, x), wanted)
              = IF x \in wanted THEN Append(Selected(u, wanted), x) ELSE Selected(u, wanted)
      BY <2>1, SelectedAppend
    <3> QED
      BY <2>2, <3>1, <3>2
  <2>4. Members(v) = Members(u) \cap wanted /\ (KeyedOnce(u) => KeyedOnce(v))
    BY <2>1, <2>2
  <2>5. Members(Append(u, x)) = Members(u) \cup {x} /\ Members(Append(v, x)) = Members(v) \cup {x}
    BY <2>1, <2>3, InTimeAppended
  <2>6. Members(w) = Members(Append(u, x)) \cap wanted
    BY <2>3, <2>4, <2>5
  <2>7. KeyedOnce(Append(u, x)) => KeyedOnce(w)
    <3>1. KeyedOnce(Append(u, x)) => KeyedOnce(u) /\ KeyOf(x) \notin Keys(u)
      BY <2>1, KeyedAppended
    <3>2. Keys(v) \subseteq Keys(u)
      <4>1. Keys(v) = {KeyOf(r) : r \in Members(v)} /\ Keys(u) = {KeyOf(r) : r \in Members(u)}
        BY <2>1, <2>3, MembersAreSet DEF Keys
      <4> QED
        BY <2>4, <4>1
    <3>3. KeyedOnce(v) /\ KeyOf(x) \notin Keys(v) => KeyedOnce(Append(v, x))
      BY <2>3, KeyedAppended
    <3> QED
      BY <2>3, <2>4, <3>1, <3>2, <3>3
  <2>8. Same(Append(u, x)) /\ Append(u, x) \in Seq(Row)
    BY <2>1, <2>2, <2>6, <2>7, AppendFacts
  <2> HIDE DEF Same
  <2> QED
    BY <2>8
<1>3. S = Seq(Row)
  <2> HIDE DEF S, Same
  <2>1. S \in SUBSET Seq(Row)
    BY DEF S
  <2> QED
    BY <1>1, <1>2, <2>1, SequenceInduction
<1>4. Same(s)
  BY <1>3
<1> QED
  BY <1>4, SelectedFacts

(* If two sequences have the same first rows, and one of them no key more  *)
(* than once, its members are the first rows of the other.                 *)
LEMMA MembersAreFirsts ==
    ASSUME NEW s \in Seq(Row), KeyedOnce(s), NEW r \in Seq(Row), Firsts(s) = Firsts(r)
    PROVE  Members(s) = {r[i] : i \in {j \in 1..Len(r) : FirstAt(r, KeyOf(r[j]), j)}}
<1>1. Keys(s) = Keys(r)
  BY FirstsAre
<1>2. ASSUME NEW i \in 1..Len(s)
      PROVE  \E j \in 1..Len(r) : FirstAt(r, KeyOf(r[j]), j) /\ r[j] = s[i]
  <2>1. KeyOf(s[i]) \in Keys(s)
    BY KeysAre
  <2>2. FirstAt(s, KeyOf(s[i]), i)
    BY DEF FirstAt, KeyedOnce
  <2>3. PICK j \in 1..Len(r) : FirstAt(r, KeyOf(s[i]), j)
    BY <1>1, <2>1, FirstsAre
  <2>4. Firsts(s)[KeyOf(s[i])] = s[i] /\ Firsts(r)[KeyOf(s[i])] = r[j]
    BY <1>1, <2>1, <2>2, <2>3, FirstsAre
  <2> QED
    BY <2>3, <2>4
<1>3. ASSUME NEW j \in 1..Len(r), FirstAt(r, KeyOf(r[j]), j)
      PROVE  r[j] \in Members(s)
  <2>1. KeyOf(r[j]) \in Keys(r)
    BY KeysAre
  <2>2. PICK i \in 1..Len(s) : FirstAt(s, KeyOf(r[j]), i)
    BY <1>1, <2>1, FirstsAre
  <2>3. Firsts(s)[KeyOf(r[j])] = s[i] /\ Firsts(r)[KeyOf(r[j])] = r[j]
    BY <1>1, <1>3, <2>1, <2>2, FirstsAre
  <2> QED
    BY <2>3 DEF Members
<1> QED
  BY <1>2, <1>3 DEF Members

-------------------------------------------------------------------------------
(* The rows by their keys are the same rows.                               *)
LEMMA EarlierOrder ==
    ASSUME NEW a \in Row, NEW b \in Row, NEW c \in Row
    PROVE  /\ ~Earlier(a, a)
           /\ Earlier(a, b) /\ Earlier(b, c) => Earlier(a, c)
           /\ KeyOf(a) # KeyOf(b) => Earlier(a, b) \/ Earlier(b, a)
<1>1. \A r \in Row : r.time \in Nat /\ r.net \in Nat /\ r.id \in Nat
  BY DEF Row
<1>2. ~Earlier(a, a)
  BY <1>1 DEF Earlier
<1>3. Earlier(a, b) /\ Earlier(b, c) => Earlier(a, c)
  BY <1>1 DEF Earlier
<1>4. KeyOf(a) # KeyOf(b) => Earlier(a, b) \/ Earlier(b, a)
  <2>1. KeyOf(a) # KeyOf(b) => a.time # b.time \/ a.net # b.net \/ a.id # b.id
    BY DEF KeyOf
  <2> QED
    BY <1>1, <2>1 DEF Earlier
<1> QED
  BY <1>2, <1>3, <1>4

LEMMA RowsCounted ==
    ASSUME NEW s \in Seq(Row), KeyedOnce(s)
    PROVE  IsFiniteSet(Members(s)) /\ Cardinality(Members(s)) = Len(s)
<1>1. PICK n \in Nat : n = Len(s)
  OBVIOUS
<1> DEFINE f == [i \in 1..n |-> s[i]]
<1>2. f \in [1..n -> Members(s)] /\ \A r \in Members(s) : \E i \in 1..n : f[i] = r
  BY <1>1 DEF Members
<1>3. \A i, j \in 1..n : f[i] = f[j] => i = j
  BY <1>1 DEF KeyedOnce
<1>4. f \in Bijection(1..n, Members(s))
  BY <1>2, <1>3 DEF Bijection, Injection, Surjection, IsInjective
<1>5. IsFiniteSet(1..n) /\ Cardinality(1..n) = n
  <2>1. n \in Int /\ (IF 1 > n THEN 0 ELSE n - 1 + 1) = n
    OBVIOUS
  <2> QED
    BY <2>1, FS_Interval
<1>6. ExistsBijection(1..n, Members(s))
  BY <1>4 DEF ExistsBijection
<1> HIDE DEF f
<1> QED
  BY <1>1, <1>5, <1>6, FS_Bijection

Before(rowSet, r) == {q \in rowSet : Earlier(q, r)}

LEMMA RankOf ==
    ASSUME NEW s \in Seq(Row), KeyedOnce(s)
    PROVE  /\ \A r \in Members(s) : Cardinality(Before(Members(s), r)) \in 0..(Len(s) - 1)
           /\ \A r, q \in Members(s) :
                 Cardinality(Before(Members(s), r)) = Cardinality(Before(Members(s), q)) => r = q
           /\ \A k \in 0..(Len(s) - 1) : \E r \in Members(s) : Cardinality(Before(Members(s), r)) = k
<1>1. PICK n \in Nat, t \in {Members(s)} : n = Len(s) /\ t = Members(s)
  OBVIOUS
<1>2. IsFiniteSet(t) /\ Cardinality(t) = n /\ t \subseteq Row
  BY <1>1, RowsCounted, MembersAre
<1>3. ASSUME NEW u \in SUBSET t
      PROVE  IsFiniteSet(u) /\ Cardinality(u) \in Nat /\ Cardinality(u) <= n /\ (Cardinality(u) = n => u = t)
  BY <1>2, FS_Subset, FS_CardinalityType
<1>4. ASSUME NEW r \in t PROVE Cardinality(Before(t, r)) \in 0..(n - 1)
  <2>1. Before(t, r) \in SUBSET t /\ r \notin Before(t, r)
    BY <1>2, EarlierOrder DEF Before
  <2>2. PICK c \in Nat : c = Cardinality(Before(t, r)) /\ c <= n /\ c # n
    BY <1>3, <2>1
  <2> QED
    BY <2>2
<1>5. ASSUME NEW r \in t, NEW q \in t, Earlier(r, q)
      PROVE  Cardinality(Before(t, r)) # Cardinality(Before(t, q))
  <2>1. Before(t, r) \subseteq Before(t, q) /\ r \in Before(t, q) /\ r \notin Before(t, r)
    BY <1>2, <1>5, EarlierOrder DEF Before
  <2>2. IsFiniteSet(Before(t, q))
    BY <1>3 DEF Before
  <2>3. Cardinality(Before(t, q)) = Cardinality(Before(t, r)) => Before(t, q) = Before(t, r)
    BY <2>1, <2>2, FS_Subset
  <2> QED
    BY <2>1, <2>3
<1>6. ASSUME NEW r \in t, NEW q \in t, Cardinality(Before(t, r)) = Cardinality(Before(t, q))
      PROVE  r = q
  <2>1. ~Earlier(r, q) /\ ~Earlier(q, r)
    BY <1>5, <1>6
  <2>2. KeyOf(r) = KeyOf(q)
    BY <1>2, <2>1, EarlierOrder
  <2> QED
    BY <1>1, <2>2 DEF KeyedOnce, Members
<1>7. ASSUME NEW k \in 0..(n - 1) PROVE \E r \in t : Cardinality(Before(t, r)) = k
  <2> DEFINE f == [r \in t |-> Cardinality(Before(t, r))]
  <2>1. f \in [t -> 0..(n - 1)] /\ \A r, q \in t : f[r] = f[q] => r = q
    BY <1>4, <1>6
  <2>2. f \in Injection(t, 0..(n - 1))
    BY <2>1 DEF Injection, IsInjective
  <2>3. IsFiniteSet(0..(n - 1)) /\ Cardinality(0..(n - 1)) = n
    <3>1. n - 1 \in Int /\ 0 \in Int /\ (IF 0 > n - 1 THEN 0 ELSE (n - 1) - 0 + 1) = n
      OBVIOUS
    <3> QED
      BY <3>1, FS_Interval
  <2>4. f \in Surjection(t, 0..(n - 1))
    <3> HIDE DEF f
    <3> QED
      BY <1>2, <2>2, <2>3, FS_Injection
  <2>5. \E r \in t : f[r] = k
    <3> HIDE DEF f
    <3> QED
      BY <2>4 DEF Surjection
  <2> QED
    BY <2>5
<1> QED
  BY <1>1, <1>4, <1>6, <1>7

LEMMA ByKeyIs ==
    ASSUME NEW s \in Seq(Row), KeyedOnce(s)
    PROVE  /\ ByKey(s) \in Seq(Row) /\ KeyedOnce(ByKey(s))
           /\ Members(ByKey(s)) = Members(s)
<1>1. PICK n \in Nat, t \in {Members(s)} : n = Len(s) /\ t = Members(s)
  OBVIOUS
<1>2. t = ToSet(s) /\ DOMAIN s = 1..n /\ t \subseteq Row
  BY <1>1, MembersAreSet, MembersAre
<1> DEFINE At(i, r) == r \in t /\ Cardinality(Before(t, r)) = i - 1
<1>3. PICK b : b = ByKey(s)
  OBVIOUS
<1>4. b = [i \in 1..n |-> CHOOSE r \in t : Cardinality({q \in t : Earlier(q, r)}) = i - 1]
  BY <1>2, <1>3 DEF ByKey
<1>5. ASSUME NEW i \in 1..n PROVE At(i, b[i])
  <2>1. i - 1 \in 0..(n - 1)
    OBVIOUS
  <2>2. \E r \in t : Cardinality({q \in t : Earlier(q, r)}) = i - 1
    BY <1>1, <2>1, RankOf DEF Before
  <2> QED
    BY <1>4, <2>2 DEF Before
<1>6. b \in Seq(Row) /\ Len(b) = n
  <2>1. b \in [1..n -> Row]
    BY <1>2, <1>4, <1>5
  <2> QED
    BY <2>1, FunctionIsSequence
<1>7. KeyedOnce(b)
  <2>1. ASSUME NEW i \in 1..n, NEW j \in 1..n, KeyOf(b[i]) = KeyOf(b[j]) PROVE i = j
    <3>1. b[i] = b[j]
      <4>1. b[i] \in t /\ b[j] \in t
        BY <1>5
      <4> QED
        BY <1>1, <2>1, <4>1 DEF KeyedOnce, Members
    <3>2. i - 1 = j - 1
      BY <1>5, <3>1
    <3> QED
      BY <3>2
  <2> QED
    BY <1>6, <2>1 DEF KeyedOnce
<1>8. Members(b) = t
  <2>1. Members(b) \subseteq t
    BY <1>5, <1>6 DEF Members
  <2>2. ASSUME NEW r \in t PROVE r \in Members(b)
    <3>1. PICK k \in 0..(n - 1) : Cardinality(Before(t, r)) = k
      BY <1>1, RankOf
    <3>2. k + 1 \in 1..n /\ (k + 1) - 1 = k
      OBVIOUS
    <3>3. At(k + 1, b[k + 1])
      BY <1>5, <3>2
    <3>4. b[k + 1] = r
      BY <1>1, <3>1, <3>2, <3>3, RankOf
    <3> QED
      BY <1>6, <3>2, <3>4 DEF Members
  <2> QED
    BY <2>1, <2>2
<1> QED
  BY <1>1, <1>3, <1>6, <1>7, <1>8

-------------------------------------------------------------------------------
(* The time of a row that is read back: rounded down to 25 ns.             *)
LEMMA ReadTime ==
    ASSUME NEW time \in 0..(Wrap - 1)
    PROVE  time - CalcEpoch64(SetMessageTime(time)) \in 0..24 \/ time \in 0..24
<1>1. PICK w \in Nat \ {0}, wrap \in Nat \ {0}, e \in Nat :
          w = Word /\ wrap = Wrap /\ e = EpochOffset /\ e < wrap /\ wrap <= 25 * w * w
  BY TimeAssumption, HalvesAssumption
<1>2. time \in Nat /\ time < wrap
  BY <1>1
<1>3. PICK turns \in Int, d \in 0..(wrap - 1) : time - e = wrap * turns + d /\ (time - e) % wrap = d
  <2>1. time - e \in Int
    BY <1>2
  <2> QED
    BY <2>1, Remainder, Zenon
<1>4. PICK count \in Nat, rest \in 0..24 : count = d \div 25 /\ d = 25 * count + rest
  BY <1>3
<1>5. PICK high \in Nat, low \in 0..(w - 1) :
          high = count \div w /\ low = count % w /\ count = w * high + low
  <2>1. count \div w \in Int /\ count % w \in 0..(w - 1) /\ count = w * (count \div w) + (count % w)
    OBVIOUS
  <2>2. count \div w >= 0
    <3>1. PICK h \in Int : h = count \div w
      BY <2>1
    <3>2. h <= -1 => w * h <= -w
      OBVIOUS
    <3> QED
      BY <2>1, <3>1, <3>2
  <2> QED
    BY <2>1, <2>2
<1>6. high % w = high
  <2>1. 25 * count < wrap
    BY <1>1, <1>4
  <2>2. PICK square \in Nat : square = w * w /\ wrap <= 25 * square
    <3>1. w * w \in Nat /\ 25 * w * w = 25 * (w * w)
      OBVIOUS
    <3> QED
      BY <1>1, <3>1
  <2>3. count < square
    BY <2>1, <2>2
  <2>4. high >= w => w * high >= w * w
    OBVIOUS
  <2>5. w * high \in Nat
    OBVIOUS
  <2>6. high < w
    BY <1>5, <2>2, <2>3, <2>4, <2>5
  <2> QED
    BY <2>6
<1>7. SetMessageTime(time) = [kind |-> "NEORED_25NS", high |-> high, low |-> low]
  BY <1>1, <1>3, <1>4, <1>5, <1>6 DEF SetMessageTime
<1>8. PICK x : x = high * (25 * w) + low * 25 + e
  OBVIOUS
<1>9. CalcEpoch64(SetMessageTime(time)) = x % wrap
  BY <1>1, <1>7, <1>8 DEF CalcEpoch64, Counters, HighHalf, Low
<1>10. x = (time - rest) + wrap * (-turns)
  <2>1. high * (25 * w) + low * 25 = 25 * (w * high + low)
    OBVIOUS
  <2>2. x = 25 * count + e
    BY <1>5, <1>8, <2>1
  <2>3. wrap * (-turns) = -(wrap * turns) /\ wrap * turns \in Int
    OBVIOUS
  <2> QED
    BY <1>3, <1>4, <2>2, <2>3
<1>11. x % wrap = (time - rest) % wrap
  <2>1. time - rest \in Int /\ -turns \in Int
    BY <1>2
  <2> QED
    BY <1>10, <2>1, WholeTurns
<1>12. CASE time >= rest
  <2>1. time - rest \in 0..(wrap - 1)
    BY <1>2, <1>12
  <2>2. (time - rest) % wrap = time - rest
    BY <2>1
  <2> QED
    BY <1>2, <1>9, <1>11, <2>2
<1>13. CASE ~(time >= rest)
  BY <1>2, <1>13
<1> QED
  BY <1>12, <1>13

(* The query has the rows of the first messages of their keys.             *)
Wanted == {i \in FirstsOfInput : processed[i].net \in filter}
Query(q) == /\ q \in Seq(Row) /\ KeyedOnce(q)
            /\ Members(q) = {RowOf(processed[i]) : i \in Wanted}

LEMMA TableIsFirsts ==
    ASSUME StoreInv, cache = <<>>, KeyedOnce(table)
    PROVE  Members(table) = {RowOf(processed[i]) : i \in FirstsOfInput}
<1>1. PICK r \in Seq(Row) : r = Rows(processed)
  BY RowsAre DEF StoreInv, DatabaseTypeOK
<1>2. /\ Len(r) = Len(processed) /\ DOMAIN processed = 1..Len(r)
      /\ \A i \in 1..Len(r) : r[i] = RowOf(processed[i])
  BY <1>1, RowsAre DEF StoreInv, DatabaseTypeOK
<1>3. Firsts(table) = Firsts(r)
  <2>1. table \o <<>> = table
    BY DEF StoreInv, DatabaseTypeOK
  <2> QED
    BY <1>1, <2>1 DEF StoreInv, InputInv
<1>4. FirstsOfInput = {j \in 1..Len(r) : FirstAt(r, KeyOf(r[j]), j)}
  <2>1. ASSUME NEW j \in 1..Len(r)
        PROVE  j \in FirstsOfInput <=> FirstAt(r, KeyOf(r[j]), j)
    <3>1. \A i \in 1..(j - 1) : i \in 1..Len(r) /\ ~(j <= i)
      OBVIOUS
    <3>2. \A i \in 1..Len(r) : i \in 1..(j - 1) \/ j <= i
      OBVIOUS
    <3>3. j \in FirstsOfInput <=> \A i \in 1..(j - 1) : KeyOf(r[i]) # KeyOf(r[j])
      BY <1>2, <3>1 DEF FirstsOfInput
    <3> QED
      BY <3>1, <3>2, <3>3 DEF FirstAt
  <2> QED
    BY <1>2, <2>1 DEF FirstsOfInput
<1>5. Members(table) = {r[i] : i \in {j \in 1..Len(r) : FirstAt(r, KeyOf(r[j]), j)}}
  BY <1>3, MembersAreFirsts DEF StoreInv, DatabaseTypeOK
<1> QED
  BY <1>2, <1>4, <1>5

LEMMA WantedCounted ==
    ASSUME StoreInv, NEW q, Query(q)
    PROVE  Cardinality(Wanted) = Len(q)
<1>1. q \in Seq(Row) /\ KeyedOnce(q) /\ Members(q) = {RowOf(processed[i]) : i \in Wanted}
  BY DEF Query
<1>2. DOMAIN processed = 1..Len(processed) /\ Len(processed) \in Nat
  BY DEF StoreInv, DatabaseTypeOK
<1>3. Wanted \in SUBSET (1..Len(processed))
  BY <1>2 DEF Wanted, FirstsOfInput
<1>4. IsFiniteSet(Wanted)
  <2>1. IsFiniteSet(1..Len(processed))
    BY <1>2, FS_Interval
  <2> QED
    BY <1>3, <2>1, FS_Subset
<1> DEFINE f == [i \in Wanted |-> RowOf(processed[i])]
<1>5. f \in Surjection(Wanted, Members(q))
  BY <1>1 DEF Surjection
<1>6. \A i, j \in Wanted : f[i] = f[j] => i = j
  <2>1. ASSUME NEW i \in Wanted, NEW j \in Wanted, f[i] = f[j], i < j PROVE FALSE
    <3>1. i \in 1..(j - 1)
      BY <1>3, <2>1
    <3>2. KeyOf(RowOf(processed[i])) # KeyOf(RowOf(processed[j]))
      BY <3>1 DEF Wanted, FirstsOfInput
    <3> QED
      BY <2>1, <3>2
  <2>2. \A i, j \in Wanted : i < j \/ j < i \/ i = j
    BY <1>3
  <2> HIDE DEF f
  <2> QED
    BY <2>1, <2>2
<1>7. f \in Injection(Wanted, Members(q))
  BY <1>1, <1>6 DEF Injection, IsInjective
<1>8. ExistsBijection(Wanted, Members(q))
  <2> HIDE DEF f
  <2> QED
    BY <1>5, <1>7 DEF ExistsBijection, Bijection
<1> QED
  BY <1>1, <1>4, <1>8, FS_Bijection, RowsCounted

(* What is exported are the first n rows of a query, or nothing if the file*)
(* could not be created; those that follow are still to be fetched, or the *)
(* callback stopped with the next one in hand.                             *)
Readings == {ReadRow(r) : r \in Row}
ExportedAs(q, n) ==
    /\ n \in 0..Len(q) /\ exported \in Seq(Readings) /\ Len(exported) = n
    /\ \A i \in 1..n : exported[i] = ReadRow(q[i])
NoneExported(q, n) == n \in 0..Len(q) /\ exported = <<>>
WrittenAs(q, n) ==
    /\ outputFile # "refused" => ExportedAs(q, n)
    /\ outputFile = "refused" => NoneExported(q, n)
LeftOf(q, n) ==
    /\ counter = n /\ ~stopped
    /\ n = 0 => outputFile = "none"
    /\ n # 0 => outputFile \in {"created", "refused"}
    /\ rows \in Seq(Row) /\ Len(rows) = Len(q) - n
    /\ \A i \in 1..(Len(q) - n) : rows[i] = q[n + i]
StoppedAt(q, n) == counter = n + 1 /\ stopped /\ n < Len(q) /\ rows = <<>>
ExportOf(q, n) == WrittenAs(q, n) /\ (LeftOf(q, n) \/ StoppedAt(q, n))

Exports == phase \in {"export", "done"}
ExportInv ==
    /\ KeyedOnce(table)
    /\ ~Exports => exported = <<>> /\ outputFile = "none" /\ ~stopped
    /\ Exports => \E q \in Seq(Row) : Query(q) /\ \E n \in Nat : ExportOf(q, n)
    /\ phase = "done" => rows = <<>> /\ result = counter

LEMMA ExportInit ==
    ASSUME DatabaseInit
    PROVE  ExportInv
  BY KeyedOfNone DEF DatabaseInit, ExportInv, Exports

LEMMA TableKeyedStep ==
    ASSUME StoreInv, KeyedOnce(table), [DatabaseNext]_databaseVars
    PROVE  KeyedOnce(table')
<1>1. CASE CreateDb
  BY <1>1, KeyedOfNone DEF CreateDb
<1>2. CASE ProcessMessage
  <2>1. PICK g \in Seq(Row) :
            CachedIn(g) \/ \E k \in Nat : k = Len(g) \div 2 /\ k + 1 <= Len(g) /\ Len(g) >= CacheLimit
                                           /\ FlushedAt(g, k)
    BY <1>2, ProcessMessageFacts
  <2>2. CASE CachedIn(g)
    BY <2>2 DEF CachedIn
  <2>3. ASSUME NEW k \in Nat, k + 1 <= Len(g), FlushedAt(g, k) PROVE KeyedOnce(table')
    <3>1. k + 1 \in 0..Len(g)
      BY <2>3
    <3>2. SubSeq(g, 1, k + 1) \in Seq(Row)
      BY <3>1, CutAt
    <3> QED
      BY <2>3, <3>2, SaveKeyed DEF FlushedAt, StoreInv, DatabaseTypeOK
  <2> QED
    BY <2>1, <2>2, <2>3
<1>3. CASE UpdateTable
  BY <1>3, SaveKeyed DEF UpdateTable, FlushCache, StoreInv, DatabaseTypeOK
<1>4. CASE CreatePcap \/ WriteCapture
  BY <1>4 DEF CreatePcap, WriteCapture, storeVars
<1>5. CASE StopReading \/ CloseCapture \/ WriteVsb \/ ExportRow \/ StopExport \/ EndExport
  BY <1>5, StepsOther
<1>6. CASE UNCHANGED databaseVars
  BY <1>6 DEF databaseVars, storeVars
<1> QED
  BY <1>1, <1>2, <1>3, <1>4, <1>5, <1>6 DEF DatabaseNext

LEMMA QueryAsked ==
    ASSUME StoreInv, ExportInv, WriteVsb
    PROVE  \E q \in Seq(Row) : q = rows' /\ Query(q)'
<1>1. /\ phase = "idle" /\ processed' = processed
      /\ rows' \in QueryOrders(Selected(table, OfNetworks(filter')))
  BY DEF WriteVsb
<1>2. cache = <<>> /\ table \in Seq(Row) /\ KeyedOnce(table)
  BY <1>1 DEF StoreInv, DatabaseTypeOK, CacheInv, ExportInv
<1>3. PICK s, nets : s = Selected(table, OfNetworks(nets)) /\ nets = filter'
  OBVIOUS
<1>4. s \in Seq(Row) /\ KeyedOnce(s) /\ Members(s) = Members(table) \cap OfNetworks(nets)
  BY <1>2, <1>3, SelectedRows
<1>5. rows' \in Seq(Row) /\ KeyedOnce(rows') /\ Members(rows') = Members(s)
  <2>1. rows' = s \/ rows' = ByKey(s)
    BY <1>1, <1>3 DEF QueryOrders
  <2> QED
    BY <1>4, <2>1, ByKeyIs
<1>6. Members(table) = {RowOf(processed[i]) : i \in FirstsOfInput}
  BY <1>2, TableIsFirsts
<1>7. \A i \in FirstsOfInput : RowOf(processed[i]) \in Row /\ RowOf(processed[i]).net = processed[i].net
  <2>1. \A i \in FirstsOfInput : RowOf(processed[i]) \in Row
    BY <1>2, <1>6, MembersAre
  <2> QED
    BY <2>1 DEF RowOf
<1>8. Members(s) = {RowOf(processed[i]) : i \in {j \in FirstsOfInput : processed[j].net \in nets}}
  BY <1>4, <1>6, <1>7 DEF OfNetworks
<1>9. FirstsOfInput' = FirstsOfInput
  BY <1>1 DEF FirstsOfInput
<1>10. Wanted' = {j \in FirstsOfInput : processed[j].net \in nets}
  BY <1>1, <1>3, <1>9 DEF Wanted
<1>11. PICK q \in Seq(Row) : q = rows' /\ KeyedOnce(q) /\ Members(q) = Members(s)
  BY <1>5
<1>12. Query(q)'
  BY <1>1, <1>8, <1>10, <1>11 DEF Query
<1> QED
  BY <1>11, <1>12

LEMMA RowExported ==
    ASSUME ExportRow, NEW q \in Seq(Row), NEW n \in Nat, ExportOf(q, n)
    PROVE  ExportOf(q, n + 1)'
<1>1. /\ rows # <<>> /\ rows' = Tail(rows) /\ counter' = counter + 1 /\ stopped' = stopped
      /\ outputFile' = "created" => exported' = Append(exported, ReadRow(Head(rows)))
      /\ outputFile' # "created" => exported' = exported
      /\ counter = 0 => outputFile' \in {"created", "refused"}
      /\ counter # 0 => outputFile' = outputFile
  BY DEF ExportRow, FetchRow
<1>2. WrittenAs(q, n) /\ LeftOf(q, n)
  BY <1>1 DEF ExportOf, StoppedAt
<1>0. outputFile' \in {"created", "refused"} /\ n \in 0..Len(q)
  BY <1>1, <1>2 DEF LeftOf, WrittenAs, ExportedAs, NoneExported
<1>3. PICK l \in Nat, m \in Nat : l = Len(q) /\ m + 1 = l - n
  <2>1. Len(rows) = Len(q) - n /\ Len(rows) \in Nat /\ Len(rows) # 0 /\ Len(q) \in Nat
    BY <1>1, <1>2, EmptySeq DEF LeftOf
  <2>2. Len(rows) - 1 \in Nat /\ (Len(rows) - 1) + 1 = Len(q) - n
    BY <2>1
  <2> QED
    BY <2>1, <2>2
<1>4. Len(rows) = m + 1 /\ rows \in Seq(Row) /\ \A i \in 1..(m + 1) : rows[i] = q[n + i]
  BY <1>2, <1>3 DEF LeftOf
<1>5. PICK t : t = Tail(rows)
  OBVIOUS
<1>6. t \in Seq(Row) /\ Len(t) = m /\ \A i \in 1..m : t[i] = rows[i + 1]
  BY <1>1, <1>4, <1>5, HeadTailProperties
<1>7. n + 1 \in 1..l /\ l - (n + 1) = m
  BY <1>3
<1>8. LeftOf(q, n + 1)'
  <2>1. \A i \in 1..m : i + 1 \in 1..(m + 1) /\ n + (i + 1) = (n + 1) + i
    OBVIOUS
  <2>2. \A i \in 1..m : t[i] = q[(n + 1) + i]
    BY <1>4, <1>6, <2>1
  <2>3. counter' = n + 1 /\ n + 1 # 0 /\ ~stopped'
    BY <1>1, <1>2 DEF LeftOf
  <2> QED
    BY <1>0, <1>1, <1>3, <1>5, <1>6, <1>7, <2>2, <2>3 DEF LeftOf
<1>9. PICK x \in Readings : x = ReadRow(Head(rows)) /\ x = ReadRow(q[n + 1])
  <2>1. Head(rows) = rows[1] /\ 1 \in 1..(m + 1)
    BY <1>1, <1>4
  <2>2. q[n + 1] \in Row
    BY <1>3, <1>7
  <2>3. Head(rows) = q[n + 1]
    BY <1>4, <2>1
  <2> QED
    BY <2>2, <2>3 DEF Readings
<1>10. n + 1 \in 0..Len(q)
  BY <1>3, <1>7
<1>11. ASSUME outputFile' = "created" PROVE ExportedAs(q, n + 1)'
  <2>1. outputFile # "refused"
    BY <1>1, <1>2, <1>11 DEF LeftOf
  <2>2. PICK e \in Seq(Readings) : e = exported /\ Len(e) = n /\ \A i \in 1..n : e[i] = ReadRow(q[i])
    BY <1>2, <2>1 DEF WrittenAs, ExportedAs
  <2>3. PICK g \in Seq(Readings) : EndsIn(g, e, x)
    BY EndsInAppended
  <2>4. exported' = g /\ Len(g) = n + 1 /\ g[n + 1] = x /\ \A i \in 1..n : g[i] = e[i]
    BY <1>1, <1>9, <1>11, <2>2, <2>3 DEF EndsIn
  <2>5. \A i \in 1..(n + 1) : g[i] = ReadRow(q[i])
    <3>1. \A i \in 1..(n + 1) : i \in 1..n \/ i = n + 1
      OBVIOUS
    <3> QED
      BY <1>9, <2>2, <2>4, <3>1
  <2> QED
    BY <1>10, <2>4, <2>5 DEF ExportedAs
<1>12. ASSUME outputFile' = "refused" PROVE NoneExported(q, n + 1)'
  <2>1. exported' = exported
    BY <1>1, <1>12
  <2>2. exported = <<>>
    <3>1. CASE outputFile = "refused"
      BY <1>2, <3>1 DEF WrittenAs, NoneExported
    <3>2. CASE outputFile # "refused"
      <4>1. n = 0
        BY <1>1, <1>2, <1>12, <3>2 DEF LeftOf
      <4>2. exported \in Seq(Readings) /\ Len(exported) = 0
        BY <1>2, <3>2, <4>1 DEF WrittenAs, ExportedAs
      <4> QED
        BY <4>2, EmptySeq
    <3> QED
      BY <3>1, <3>2
  <2> QED
    BY <1>10, <2>1, <2>2 DEF NoneExported
<1>13. WrittenAs(q, n + 1)'
  BY <1>0, <1>11, <1>12 DEF WrittenAs
<1> QED
  BY <1>8, <1>13 DEF ExportOf

LEMMA ExportStep ==
    ASSUME StoreInv, ExportInv, [DatabaseNext]_databaseVars
    PROVE  ExportInv'
<1>0. KeyedOnce(table')
  BY TableKeyedStep DEF ExportInv
<1>1. CASE CreateDb \/ CreatePcap
  <2>1. /\ phase = "idle" /\ phase' \in {"database", "capture"}
        /\ exported' = exported /\ outputFile' = outputFile /\ stopped' = stopped
    BY <1>1 DEF CreateDb, CreatePcap, BeginCall, exportVars
  <2> QED
    BY <1>0, <2>1 DEF ExportInv, Exports
<1>2. CASE ProcessMessage \/ StopReading \/ UpdateTable \/ WriteCapture \/ CloseCapture
  <2>1. /\ ~Exports /\ phase' \in {phase, "idle"}
        /\ exported' = exported /\ outputFile' = outputFile /\ stopped' = stopped
    BY <1>2 DEF ProcessMessage, StopReading, UpdateTable, WriteCapture, CloseCapture, TakeMessage,
                exportVars, Exports
  <2> QED
    BY <1>0, <2>1 DEF ExportInv, Exports
<1>3. CASE WriteVsb
  <2>1. phase' = "export" /\ counter' = 0 /\ exported' = <<>> /\ outputFile' = "none" /\ ~stopped'
    BY <1>3 DEF WriteVsb, ExportInv, Exports
  <2>2. PICK q \in Seq(Row) : q = rows' /\ Query(q)'
    BY <1>3, QueryAsked
  <2>3. <<>> \in Seq(Readings) /\ Len(<<>>) = 0 /\ 1..0 = {} /\ 0 \in 0..Len(q) /\ Len(q) - 0 = Len(q)
        /\ \A i \in 1..Len(q) : 0 + i = i
    OBVIOUS
  <2>4. ExportOf(q, 0)'
    BY <2>1, <2>2, <2>3 DEF ExportOf, WrittenAs, ExportedAs, LeftOf
  <2> QED
    BY <1>0, <2>1, <2>2, <2>4 DEF ExportInv, Exports
<1>4. ASSUME ExportRow \/ StopExport \/ EndExport
      PROVE  /\ phase = "export" /\ \A q : Query(q) => Query(q)'
             /\ \E q \in Seq(Row) : Query(q) /\ \E n \in Nat : ExportOf(q, n)
  <2>1. phase = "export" /\ processed' = processed /\ filter' = filter
    BY <1>4 DEF ExportRow, StopExport, EndExport, FetchRow
  <2>2. Wanted' = Wanted
    BY <2>1 DEF Wanted, FirstsOfInput
  <2>3. \A q : Query(q) => Query(q)'
    BY <2>1, <2>2 DEF Query
  <2> QED
    BY <2>1, <2>3 DEF ExportInv, Exports
<1>5. CASE ExportRow
  <2>1. PICK q \in Seq(Row), n \in Nat : Query(q)' /\ ExportOf(q, n)
    BY <1>4, <1>5
  <2>2. ExportOf(q, n + 1)' /\ n + 1 \in Nat
    BY <1>5, <2>1, RowExported
  <2>3. phase' = "export"
    BY <1>5 DEF ExportRow, FetchRow
  <2> QED
    BY <1>0, <2>1, <2>2, <2>3 DEF ExportInv, Exports
<1>6. CASE StopExport
  <2>1. PICK q \in Seq(Row), n \in Nat : Query(q)' /\ ExportOf(q, n)
    BY <1>4, <1>6
  <2>2. /\ phase' = "export" /\ rows # <<>> /\ rows' = <<>> /\ stopped'
        /\ counter' = counter + 1 /\ exported' = exported
        /\ counter = 0 => outputFile' \in {"created", "refused"}
        /\ counter # 0 => outputFile' = outputFile
    BY <1>6 DEF StopExport, FetchRow
  <2>3. WrittenAs(q, n) /\ LeftOf(q, n)
    BY <2>1, <2>2 DEF ExportOf, StoppedAt
  <2>4. n < Len(q)
    <3>1. Len(rows) = Len(q) - n /\ Len(rows) \in Nat /\ Len(rows) # 0 /\ Len(q) \in Nat
      BY <2>2, <2>3, EmptySeq DEF LeftOf
    <3> QED
      BY <3>1
  <2>5. WrittenAs(q, n)'
    <3>1. CASE n = 0
      <4>1. ExportedAs(q, n)
        BY <2>3, <3>1 DEF WrittenAs, LeftOf
      <4>2. exported = <<>>
        BY <3>1, <4>1, EmptySeq DEF ExportedAs
      <4> QED
        BY <2>2, <4>1, <4>2 DEF WrittenAs, ExportedAs, NoneExported
    <3>2. CASE n # 0
      BY <2>2, <2>3, <3>2 DEF LeftOf, WrittenAs, ExportedAs, NoneExported
    <3> QED
      BY <3>1, <3>2
  <2>6. StoppedAt(q, n)'
    BY <2>2, <2>3, <2>4 DEF LeftOf, StoppedAt
  <2>7. ExportOf(q, n)'
    BY <2>5, <2>6 DEF ExportOf
  <2> QED
    BY <1>0, <2>1, <2>2, <2>7 DEF ExportInv, Exports
<1>7. CASE EndExport
  <2>1. PICK q \in Seq(Row), n \in Nat : Query(q)' /\ ExportOf(q, n)
    BY <1>4, <1>7
  <2>2. /\ phase' = "done" /\ rows = <<>> /\ rows' = rows /\ result' = counter
        /\ counter' = counter /\ exported' = exported /\ outputFile' = outputFile /\ stopped' = stopped
    BY <1>7 DEF EndExport, callVars
  <2>3. ExportOf(q, n)'
    BY <2>1, <2>2 DEF ExportOf, WrittenAs, ExportedAs, NoneExported, LeftOf, StoppedAt
  <2> QED
    BY <1>0, <2>1, <2>2, <2>3 DEF ExportInv, Exports
<1>8. CASE UNCHANGED databaseVars
  BY <1>0, <1>8 DEF databaseVars, callVars, storeVars, exportVars, ExportInv, Exports, Query, Wanted,
                    FirstsOfInput, ExportOf, WrittenAs, ExportedAs, NoneExported, LeftOf, StoppedAt
<1> QED
  BY <1>1, <1>2, <1>3, <1>5, <1>6, <1>7, <1>8 DEF DatabaseNext

LEMMA ExportIsWanted ==
    ASSUME StoreInv, ExportInv
    PROVE  ExportIsTheInput
<1> DEFINE From(m, i) ==
                /\ <<m.net, m.id, m.body>> = <<processed[i].net, processed[i].id, processed[i].body>>
                /\ LET time == CalcEpoch64(processed[i].stamp) IN
                   time - CalcEpoch64(m.stamp) \in 0..24 \/ time \in 0..24
<1>1. SUFFICES ASSUME phase = "done"
               PROVE  /\ \A k \in DOMAIN exported : \E i \in Wanted : From(exported[k], i)
                      /\ ~stopped /\ outputFile # "refused"
                           => \A i \in Wanted : \E k \in DOMAIN exported : From(exported[k], i)
                      /\ Len(exported) <= result /\ result <= Cardinality(Wanted)
  BY DEF ExportIsTheInput, Wanted
<1>2. PICK q \in Seq(Row), n \in Nat : Query(q) /\ ExportOf(q, n)
  BY <1>1 DEF ExportInv, Exports
<1>3. rows = <<>> /\ result = counter
  BY <1>1 DEF ExportInv
<1>4. PICK w \in Nat : /\ w <= n /\ n <= Len(q) /\ Len(exported) = w /\ DOMAIN exported = 1..w
                       /\ \A k \in 1..w : exported[k] = ReadRow(q[k])
                       /\ outputFile # "refused" => w = n
  <2>1. CASE outputFile = "refused"
    <3>1. n \in 0..Len(q) /\ exported = <<>>
      BY <1>2, <2>1 DEF ExportOf, WrittenAs, NoneExported
    <3>2. 0 <= n /\ Len(exported) = 0 /\ DOMAIN exported = 1..0 /\ 1..0 = {}
      BY <3>1
    <3> QED
      BY <2>1, <3>1, <3>2
  <2>2. CASE outputFile # "refused"
    <3>1. /\ n \in 0..Len(q) /\ Len(exported) = n /\ DOMAIN exported = 1..n
          /\ \A k \in 1..n : exported[k] = ReadRow(q[k])
      BY <1>2, <2>2 DEF ExportOf, WrittenAs, ExportedAs
    <3> QED
      BY <3>1
  <2> QED
    BY <2>1, <2>2
<1>5. \A i \in Wanted : processed[i] \in Message
  BY RowsAre DEF Wanted, FirstsOfInput, StoreInv, DatabaseTypeOK
<1>6. ASSUME NEW i \in Wanted PROVE From(ReadRow(RowOf(processed[i])), i)
  <2>1. PICK m \in Message : m = processed[i]
    BY <1>5
  <2>2. PICK time \in 0..(Wrap - 1) : time = CalcEpoch64(m.stamp)
    <3>1. m.stamp \in Stamp
      BY DEF Message
    <3> QED
      BY <3>1, TimeType
  <2>3. PICK r : r = RowOf(m)
    OBVIOUS
  <2>4. r.time = time /\ r.net = m.net /\ r.id = m.id /\ r.body = m.body
    BY <2>2, <2>3 DEF RowOf
  <2>5. PICK x : x = ReadRow(r)
    OBVIOUS
  <2>6. x.stamp = SetMessageTime(time) /\ x.net = m.net /\ x.id = m.id /\ x.body = m.body
    BY <2>4, <2>5 DEF ReadRow
  <2>7. time - CalcEpoch64(x.stamp) \in 0..24 \/ time \in 0..24
    BY <2>6, ReadTime
  <2> QED
    BY <2>1, <2>2, <2>3, <2>5, <2>6, <2>7
<1> HIDE DEF From
<1>7. Members(q) = {RowOf(processed[i]) : i \in Wanted}
  BY <1>2 DEF Query
<1>8. Len(q) \in Nat /\ \A k \in 1..w : k \in 1..Len(q)
  <2>1. Len(q) \in Nat
    OBVIOUS
  <2> QED
    BY <1>4, <2>1
<1>9. ASSUME NEW k \in DOMAIN exported PROVE \E i \in Wanted : From(exported[k], i)
  <2>1. k \in 1..w
    BY <1>4
  <2>2. q[k] \in Members(q)
    BY <1>8, <2>1 DEF Members
  <2>3. exported[k] = ReadRow(q[k])
    BY <1>4, <2>1
  <2>4. PICK i \in Wanted : q[k] = RowOf(processed[i])
    BY <1>7, <2>2
  <2> QED
    BY <1>6, <2>3, <2>4
<1>10. (result = n /\ n = Len(q)) \/ (result = n + 1 /\ stopped /\ n < Len(q))
  <2>1. CASE LeftOf(q, n)
    <3>1. Len(q) - n = 0 /\ Len(q) \in Nat
      BY <1>3, <2>1 DEF LeftOf
    <3> QED
      BY <1>3, <2>1, <3>1 DEF LeftOf
  <2>2. CASE StoppedAt(q, n)
    BY <1>3, <2>2 DEF StoppedAt
  <2> QED
    BY <1>2, <2>1, <2>2 DEF ExportOf
<1>11. ASSUME ~stopped, outputFile # "refused", NEW i \in Wanted
       PROVE  \E k \in DOMAIN exported : From(exported[k], i)
  <2>1. w = n /\ n = Len(q)
    BY <1>4, <1>10, <1>11
  <2>2. PICK k \in 1..Len(q) : q[k] = RowOf(processed[i])
    BY <1>7 DEF Members
  <2>3. k \in DOMAIN exported /\ exported[k] = ReadRow(RowOf(processed[i]))
    BY <1>4, <2>1, <2>2
  <2> QED
    BY <1>6, <2>3
<1>12. Cardinality(Wanted) = Len(q)
  BY <1>2, WantedCounted
<1>13. Len(exported) <= result /\ result <= Cardinality(Wanted)
  BY <1>4, <1>10, <1>12
<1> QED
  BY <1>9, <1>11, <1>13

(* What is exported are the messages that were added, the first of each    *)
(* key, of the networks asked for, at their time rounded down to 25 ns;    *)
(* all of them, unless the callback stopped it or the file could not be    *)
(* created. The number returned is no less than were written and no more   *)
(* than were asked for (VSBDatabase.cpp:165-206, 295-309).                 *)
THEOREM ExportsTheInput == DatabaseSpec => []ExportIsTheInput
<1>1. DatabaseInit => ExportInv
  BY ExportInit
<1>2. StoreInv /\ ExportInv /\ [DatabaseNext]_databaseVars => ExportInv'
  BY ExportStep
<1>3. StoreInv /\ ExportInv => ExportIsTheInput
  BY ExportIsWanted
<1> QED
  BY <1>1, <1>2, <1>3, DatabaseInvariant, PTL DEF DatabaseSpec

-------------------------------------------------------------------------------
(* The summaries of the networks: what is counted for a low byte is the    *)
(* messages behind the k-th, those of the call that is running.            *)
InfoRecord == [id : Nat \cup {-1}, first : Nat, last : Nat, count : Nat]

PlainRows(r) ==
    /\ \A i, j \in 1..Len(r) : /\ i # j => KeyOf(r[i]) # KeyOf(r[j])
                               /\ r[i].net % Byte = r[j].net % Byte => r[i].net = r[j].net
    /\ \A i \in 1..Len(r) : r[i].time > 0

OfByte(r, k, b) == {i \in 1..Len(r) : i > k /\ r[i].net % Byte = b}

Spans(f, r, places) ==
    /\ \A i \in places : r[i].net = f.id /\ f.first <= r[i].time /\ r[i].time <= f.last
    /\ \E i \in places : r[i].time = f.first
    /\ \E i \in places : r[i].time = f.last

Counts(f, r, k, b) ==
    /\ f \in InfoRecord /\ f.count = Cardinality(OfByte(r, k, b))
    /\ OfByte(r, k, b) = {} => f = Untouched
    /\ OfByte(r, k, b) # {} => /\ f.id \in Nat /\ f.id % Byte = b
                               /\ PlainRows(r) => Spans(f, r, OfByte(r, k, b))

LEMMA OfByteFinite ==
    ASSUME NEW r \in Seq(Row), NEW k \in Nat, NEW b
    PROVE  /\ IsFiniteSet(OfByte(r, k, b)) /\ Cardinality(OfByte(r, k, b)) \in Nat
           /\ Cardinality(OfByte(r, k, b)) = 0 <=> OfByte(r, k, b) = {}
<1>1. IsFiniteSet(1..Len(r))
  <2>1. Len(r) \in Int /\ 1 \in Int
    OBVIOUS
  <2> QED
    BY <2>1, FS_Interval
<1>2. OfByte(r, k, b) \in SUBSET (1..Len(r))
  BY DEF OfByte
<1>3. IsFiniteSet(OfByte(r, k, b))
  BY <1>1, <1>2, FS_Subset
<1> QED
  BY <1>3, FS_CardinalityType, FS_EmptySet

LEMMA PlainBefore ==
    ASSUME NEW r \in Seq(Row), NEW x \in Row, NEW g \in Seq(Row), EndsIn(g, r, x), PlainRows(g)
    PROVE  /\ PlainRows(r) /\ x.time > 0
           /\ \A i \in 1..Len(r) : r[i].net % Byte = x.net % Byte => r[i].net = x.net
<1>1. PICK n \in Nat : n = Len(r) /\ Len(g) = n + 1 /\ g[n + 1] = x /\ \A i \in 1..n : g[i] = r[i]
  BY DEF EndsIn
<1>2. n + 1 \in 1..(n + 1) /\ \A i \in 1..n : i \in 1..(n + 1)
  OBVIOUS
<1> QED
  BY <1>1, <1>2 DEF PlainRows

LEMMA PlacesAppended ==
    ASSUME NEW r \in Seq(Row), NEW x \in Row, NEW g \in Seq(Row), EndsIn(g, r, x),
           NEW k \in 0..Len(r), NEW b
    PROVE  OfByte(g, k, b) = IF x.net % Byte = b THEN OfByte(r, k, b) \cup {Len(r) + 1} ELSE OfByte(r, k, b)
<1>1. PICK n \in Nat : n = Len(r) /\ Len(g) = n + 1 /\ g[n + 1] = x /\ \A i \in 1..n : g[i] = r[i]
  BY DEF EndsIn
<1>2. n + 1 \in 1..(n + 1) /\ n + 1 > k /\ \A i \in 1..(n + 1) : i = n + 1 \/ i \in 1..n
  BY <1>1
<1>3. \A i \in 1..n : i \in 1..(n + 1) /\ i # n + 1
  OBVIOUS
<1> QED
  BY <1>1, <1>2, <1>3 DEF OfByte

LEMMA CountedOther ==
    ASSUME NEW r \in Seq(Row), NEW x \in Row, NEW g \in Seq(Row), EndsIn(g, r, x),
           NEW k \in 0..Len(r), NEW b, x.net % Byte # b, NEW f, Counts(f, r, k, b)
    PROVE  Counts(f, g, k, b)
<1>1. OfByte(g, k, b) = OfByte(r, k, b)
  BY PlacesAppended
<1>2. \A i \in OfByte(r, k, b) : g[i] = r[i]
  BY DEF OfByte, EndsIn
<1>3. PlainRows(g) => PlainRows(r)
  BY PlainBefore
<1> QED
  BY <1>1, <1>2, <1>3 DEF Counts, Spans

LEMMA CountedOne ==
    ASSUME NEW r \in Seq(Row), NEW x \in Row, NEW g \in Seq(Row), EndsIn(g, r, x),
           NEW k \in 0..Len(r), NEW b, x.net % Byte = b, NEW f, Counts(f, r, k, b)
    PROVE  Counts(Counted(f, x.time, x.net), g, k, b)
<1>1. PICK c \in Nat, d \in Nat, e \in Nat, n \in Nat :
          c = f.first /\ d = f.last /\ e = f.count /\ n = Len(r)
  BY DEF Counts, InfoRecord
<1>2. PICK t \in Nat, net \in Nat : t = x.time /\ net = x.net
  BY DEF Row
<1>3. PICK old \in SUBSET (1..n) : old = OfByte(r, k, b)
  BY <1>1 DEF OfByte
<1>4. OfByte(g, k, b) = old \cup {n + 1}
  BY <1>1, <1>3, PlacesAppended
<1>5. PICK h : h = Counted(f, t, net)
  OBVIOUS
<1>6. /\ h.id = IF c = 0 THEN net ELSE f.id
      /\ h.first = IF c = 0 \/ t < c THEN t ELSE c
      /\ h.last = IF d < t THEN t ELSE d
      /\ h.count = e + 1
  BY <1>1, <1>5 DEF Counted
<1>7. h \in InfoRecord
  BY <1>1, <1>2, <1>5 DEF Counted, InfoRecord, Counts
<1>8. h.count = Cardinality(old \cup {n + 1})
  <2>1. IsFiniteSet(old) /\ Cardinality(old) = e
    <3>1. k \in Nat
      BY <1>1
    <3> QED
      BY <1>1, <1>3, <3>1, OfByteFinite DEF Counts
  <2>2. n + 1 \notin old
    BY <1>3
  <2> QED
    BY <1>6, <2>1, <2>2, FS_AddElement
<1>9. h.id \in Nat /\ h.id % Byte = b
  <2>1. CASE old = {}
    <3>1. c = 0
      BY <1>1, <1>3, <2>1 DEF Counts, Untouched
    <3> QED
      BY <1>2, <1>6, <3>1
  <2>2. CASE old # {}
    BY <1>2, <1>3, <1>6, <2>2 DEF Counts
  <2> QED
    BY <2>1, <2>2
<1>10. ASSUME PlainRows(g) PROVE Spans(h, g, old \cup {n + 1})
  <2>1. /\ PlainRows(r) /\ t > 0
        /\ \A i \in 1..n : r[i].net % Byte = b => r[i].net = net
    BY <1>1, <1>2, <1>10, PlainBefore
  <2>2. g[n + 1] = x /\ \A i \in old : g[i] = r[i]
    BY <1>1, <1>3 DEF EndsIn
  <2>3. \A i \in old : r[i].net = net /\ r[i].time \in Nat /\ r[i].time > 0
    <3>1. \A i \in old : r[i].net % Byte = b
      BY <1>3 DEF OfByte
    <3> QED
      BY <1>1, <1>3, <2>1, <3>1, RowsOfSequence DEF PlainRows
  <2>4. CASE old = {}
    <3>1. c = 0 /\ d = 0
      BY <1>1, <1>3, <2>4 DEF Counts, Untouched
    <3>2. h.id = net /\ h.first = t /\ h.last = t
      BY <1>6, <2>1, <3>1
    <3> QED
      BY <1>2, <2>2, <2>4, <3>2 DEF Spans
  <2>5. CASE old # {}
    <3>1. /\ \A i \in old : r[i].net = f.id /\ c <= r[i].time /\ r[i].time <= d
          /\ \E i \in old : r[i].time = c
          /\ \E i \in old : r[i].time = d
      BY <1>1, <1>3, <2>1, <2>5 DEF Counts, Spans
    <3>2. c # 0
      BY <2>3, <3>1
    <3>3. h.id = net
      BY <1>6, <2>3, <2>5, <3>1, <3>2
    <3>4. h.first = IF t < c THEN t ELSE c
      BY <1>6, <3>2
    <3>5. ASSUME NEW i \in old PROVE h.first <= r[i].time /\ r[i].time <= h.last
      BY <1>6, <2>3, <3>1, <3>4
    <3>6. h.first <= t /\ t <= h.last
      BY <1>6, <3>4
    <3>7. \E i \in old \cup {n + 1} : g[i].time = h.first
      BY <1>2, <2>2, <3>1, <3>4
    <3>8. \E i \in old \cup {n + 1} : g[i].time = h.last
      BY <1>2, <1>6, <2>2, <3>1
    <3> QED
      BY <1>2, <2>2, <2>3, <3>3, <3>5, <3>6, <3>7, <3>8 DEF Spans
  <2> QED
    BY <2>4, <2>5
<1> QED
  BY <1>2, <1>4, <1>5, <1>7, <1>8, <1>9, <1>10 DEF Counts

(* What the aggregate query finds of a network in a table that has the     *)
(* first row of each key.                                                  *)
RowsOfNet(t, n) == {q \in ToSet(t) : q.net = n}

LEMMA StatsAre ==
    ASSUME NEW t, NEW n, NEW first \in Nat, NEW last \in Nat,
           \A q \in RowsOfNet(t, n) : q.time \in Nat /\ first <= q.time /\ q.time <= last,
           \E q \in RowsOfNet(t, n) : q.time = first,
           \E q \in RowsOfNet(t, n) : q.time = last
    PROVE  ReadMessageStats(ToSet(t), n)
              = [first |-> first, last |-> last, count |-> Cardinality(RowsOfNet(t, n))]
<1> DEFINE times == {q.time : q \in RowsOfNet(t, n)}
<1>1. times \in SUBSET Int /\ times # {} /\ first \in times /\ last \in times
  OBVIOUS
<1>2. \A x \in times : first <= x /\ x <= last
  OBVIOUS
<1>3. Min(times) = first /\ Max(times) = last
  <2> HIDE DEF times
  <2>1. \A x \in times : last >= x
    BY <1>1, <1>2
  <2> QED
    BY <1>1, <1>2, <2>1, MinIs, MaxIs
<1> QED
  BY <1>1, <1>3 DEF ReadMessageStats, RowsOfNet

LEMMA StatsCount ==
    ASSUME NEW t, NEW n
    PROVE  ReadMessageStats(ToSet(t), n).count \in {0, Cardinality(RowsOfNet(t, n))}
  BY DEF ReadMessageStats, RowsOfNet, NoMessages

LEMMA TruthOfPlain ==
    ASSUME NEW r \in Seq(Row), NEW t \in Seq(Row), KeyedOnce(t), Firsts(t) = Firsts(r), PlainRows(r),
           NEW k \in Nat, NEW b, NEW f, Counts(f, r, k, b), OfByte(r, k, b) # {},
           \A i \in 1..Len(r) : i <= k => r[i].net # f.id
    PROVE  ReadMessageStats(ToSet(t), f.id) = SummaryOf(f)
<1>1. PICK n \in Nat, first \in Nat, last \in Nat : n = f.id /\ first = f.first /\ last = f.last
  BY DEF Counts, InfoRecord
<1>2. n % Byte = b /\ Spans(f, r, OfByte(r, k, b)) /\ f.count = Cardinality(OfByte(r, k, b))
  BY <1>1 DEF Counts
<1>3. PICK places \in SUBSET (1..Len(r)) : places = OfByte(r, k, b)
  BY DEF OfByte
<1>4. ToSet(t) = {r[i] : i \in 1..Len(r)}
  <2>1. ASSUME NEW j \in 1..Len(r) PROVE FirstAt(r, KeyOf(r[j]), j)
    BY DEF FirstAt, PlainRows
  <2>2. {j \in 1..Len(r) : FirstAt(r, KeyOf(r[j]), j)} = 1..Len(r)
    BY <2>1
  <2>3. Members(t) = {r[i] : i \in {j \in 1..Len(r) : FirstAt(r, KeyOf(r[j]), j)}}
    BY MembersAreFirsts
  <2> QED
    BY <2>2, <2>3, MembersAreSet
<1>5. \A i \in 1..Len(r) : r[i].net = n <=> i \in places
  <2>1. ASSUME NEW i \in 1..Len(r), r[i].net = n PROVE i \in places
    <3>1. i > k
      BY <1>1, <2>1
    <3> QED
      BY <1>2, <1>3, <2>1, <3>1 DEF OfByte
  <2>2. ASSUME NEW i \in places PROVE r[i].net = n
    BY <1>1, <1>2, <1>3, <2>2 DEF Spans
  <2> QED
    BY <2>1, <2>2
<1>6. RowsOfNet(t, n) = {r[i] : i \in places}
  BY <1>3, <1>4, <1>5 DEF RowsOfNet
<1>7. \A i \in places : r[i].time \in Nat /\ first <= r[i].time /\ r[i].time <= last
  BY <1>1, <1>2, <1>3, RowsOfSequence DEF Spans
<1>8. (\E i \in places : r[i].time = first) /\ (\E i \in places : r[i].time = last)
  BY <1>1, <1>2, <1>3 DEF Spans
<1>9. ReadMessageStats(ToSet(t), n)
         = [first |-> first, last |-> last, count |-> Cardinality(RowsOfNet(t, n))]
  <2>1. \A q \in RowsOfNet(t, n) : q.time \in Nat /\ first <= q.time /\ q.time <= last
    BY <1>6, <1>7
  <2>2. \E q \in RowsOfNet(t, n) : q.time = first
    BY <1>6, <1>8
  <2>3. \E q \in RowsOfNet(t, n) : q.time = last
    BY <1>6, <1>8
  <2> QED
    BY <2>1, <2>2, <2>3, StatsAre
<1>10. Cardinality(RowsOfNet(t, n)) = Cardinality(places)
  <2> DEFINE g == [i \in places |-> r[i]]
  <2>1. g \in [places -> RowsOfNet(t, n)] /\ \A q \in RowsOfNet(t, n) : \E i \in places : g[i] = q
    BY <1>6
  <2>2. \A i, j \in places : g[i] = g[j] => i = j
    BY DEF PlainRows
  <2>3. g \in Bijection(places, RowsOfNet(t, n))
    BY <2>1, <2>2 DEF Bijection, Injection, Surjection, IsInjective
  <2>4. ExistsBijection(places, RowsOfNet(t, n))
    BY <2>3 DEF ExistsBijection
  <2>5. IsFiniteSet(places)
    BY <1>3, OfByteFinite
  <2> HIDE DEF g
  <2> QED
    BY <2>4, <2>5, FS_Bijection
<1> QED
  BY <1>1, <1>2, <1>3, <1>9, <1>10 DEF SummaryOf

LEMMA TruthIsCounted ==
    ASSUME NEW r \in Seq(Row), NEW t \in Seq(Row), KeyedOnce(t), Firsts(t) = Firsts(r),
           NEW b, NEW f, Counts(f, r, 0, b), OfByte(r, 0, b) # {}
    PROVE  f.count >= ReadMessageStats(ToSet(t), f.id).count
<1>1. f.id % Byte = b /\ f.count = Cardinality(OfByte(r, 0, b))
  BY DEF Counts
<1>2. PICK places, d : places = OfByte(r, 0, b) /\ d = RowsOfNet(t, f.id)
  OBVIOUS
<1>3. IsFiniteSet(places) /\ Cardinality(places) \in Nat
  BY <1>2, OfByteFinite
<1>4. \A q \in d : \E i \in places : r[i] = q
  <2>1. ASSUME NEW q \in d PROVE \E i \in places : r[i] = q
    <3>1. q \in Members(t) /\ q.net = f.id
      BY <1>2, MembersAreSet DEF RowsOfNet
    <3>2. PICK i \in 1..Len(r) : r[i] = q
      BY <3>1, MembersAreFirsts
    <3>3. i \in places
      BY <1>1, <1>2, <3>1, <3>2 DEF OfByte
    <3> QED
      BY <3>2, <3>3
  <2> QED
    BY <2>1
<1> DEFINE g == [q \in d |-> CHOOSE i \in places : r[i] = q]
<1>5. \A q \in d : g[q] \in places /\ r[g[q]] = q
  BY <1>4
<1>6. g \in Injection(d, places)
  <2>1. g \in [d -> places]
    BY <1>5
  <2>2. \A p, q \in d : g[p] = g[q] => p = q
    BY <1>5
  <2> QED
    BY <2>1, <2>2 DEF Injection, IsInjective
<1> HIDE DEF g
<1>7. IsFiniteSet(d) /\ Cardinality(d) <= Cardinality(places)
  BY <1>3, <1>6, FS_Injection
<1>8. Cardinality(d) \in Nat
  BY <1>7, FS_CardinalityType
<1>9. ReadMessageStats(ToSet(t), f.id).count \in {0, Cardinality(d)}
  BY <1>2, StatsCount
<1> QED
  BY <1>1, <1>2, <1>3, <1>7, <1>8, <1>9

LEMMA StatsAreCounts ==
    ASSUME NEW t \in Seq(Row), KeyedOnce(t), NEW n
    PROVE  ReadMessageStats(ToSet(t), n).count \in Nat
<1>1. IsFiniteSet(ToSet(t))
  BY RowsCounted, MembersAreSet
<1>2. RowsOfNet(t, n) \in SUBSET ToSet(t)
  BY DEF RowsOfNet
<1>3. Cardinality(RowsOfNet(t, n)) \in Nat
  BY <1>1, <1>2, FS_Subset, FS_CardinalityType
<1> QED
  BY <1>3, StatsCount

TouchedIn(f) == {b \in LowBytes : f[b].count > 0}
IdsOf(f) == {f[b].id : b \in TouchedIn(f)}
UpdatedBy(old, t, f) == UpdateNetworks(old, ToSet(t), {f[b] : b \in TouchedIn(f)})

(* After the update every network that was counted has its record.         *)
LEMMA UpdatedNetworks ==
    ASSUME NEW r \in Seq(Row), NEW t \in Seq(Row), KeyedOnce(t), Firsts(t) = Firsts(r),
           NEW old, NEW f \in [LowBytes -> InfoRecord], NEW k \in 0..Len(r),
           \A b \in LowBytes : Counts(f[b], r, k, b),
           PlainRows(r) => \A i \in 1..Len(r) : i <= k => r[i].net \in DOMAIN old
    PROVE  /\ DOMAIN UpdatedBy(old, t, f) = DOMAIN old \cup IdsOf(f)
           /\ \A n \in DOMAIN old : n \notin IdsOf(f) => UpdatedBy(old, t, f)[n] = old[n]
           /\ \A n \in IdsOf(f) :
                 /\ PlainRows(r) => UpdatedBy(old, t, f)[n] = ReadMessageStats(ToSet(t), n)
                 /\ k = 0 => UpdatedBy(old, t, f)[n].count >= ReadMessageStats(ToSet(t), n).count
           /\ PlainRows(r) => \A i \in 1..Len(r) : r[i].net \in DOMAIN old \cup IdsOf(f)
<1>1. PICK counted, new : counted = {f[b] : b \in TouchedIn(f)} /\ new = UpdatedBy(old, t, f)
  OBVIOUS
<1>2. {c.id : c \in counted} = IdsOf(f)
  BY <1>1 DEF IdsOf
<1>3. new = [n \in DOMAIN old \cup IdsOf(f) |->
                IF n \notin IdsOf(f) THEN old[n]
                ELSE IF n \in DOMAIN old THEN ReadMessageStats(ToSet(t), n)
                ELSE CountedAs(counted, n)]
  BY <1>1, <1>2 DEF UpdatedBy, UpdateNetworks
<1>4. k \in Nat
  OBVIOUS
<1>5. ASSUME NEW b \in TouchedIn(f)
      PROVE  b \in LowBytes /\ Counts(f[b], r, k, b) /\ OfByte(r, k, b) # {} /\ f[b].id % Byte = b
  <2>1. b \in LowBytes /\ f[b].count > 0 /\ Counts(f[b], r, k, b)
    BY DEF TouchedIn
  <2>2. Cardinality(OfByte(r, k, b)) # 0
    BY <2>1 DEF Counts
  <2>3. OfByte(r, k, b) # {}
    BY <1>4, <2>2, OfByteFinite
  <2> QED
    BY <2>1, <2>3 DEF Counts
<1>6. ASSUME NEW n \in IdsOf(f), n \notin DOMAIN old
      PROVE  /\ PlainRows(r) => new[n] = ReadMessageStats(ToSet(t), n)
             /\ k = 0 => new[n].count >= ReadMessageStats(ToSet(t), n).count
  <2>1. PICK b \in TouchedIn(f) : f[b].id = n
    BY DEF IdsOf
  <2>2. PICK h : h = f[b]
    OBVIOUS
  <2>3. Counts(h, r, k, b) /\ OfByte(r, k, b) # {} /\ h.id = n /\ n % Byte = b
    BY <1>5, <2>1, <2>2
  <2>4. (CHOOSE c \in counted : c.id = n) = h
    <3>1. h \in counted
      BY <1>1, <2>2
    <3>2. ASSUME NEW c \in counted, c.id = n PROVE c = h
      <4>1. PICK a \in TouchedIn(f) : c = f[a]
        BY <1>1
      <4>2. a = b
        BY <1>5, <2>3, <3>2, <4>1
      <4> QED
        BY <2>2, <4>1, <4>2
    <3> QED
      BY <2>3, <3>1, <3>2
  <2>5. new[n] = SummaryOf(h)
    BY <1>3, <1>6, <2>4 DEF CountedAs
  <2>6. ASSUME PlainRows(r) PROVE new[n] = ReadMessageStats(ToSet(t), n)
    <3>1. \A i \in 1..Len(r) : i <= k => r[i].net # h.id
      BY <1>6, <2>3, <2>6
    <3> QED
      BY <1>4, <2>3, <2>5, <2>6, <3>1, TruthOfPlain
  <2>7. ASSUME k = 0 PROVE new[n].count >= ReadMessageStats(ToSet(t), n).count
    <3>1. Counts(h, r, 0, b) /\ OfByte(r, 0, b) # {}
      BY <2>3, <2>7
    <3>2. h.count >= ReadMessageStats(ToSet(t), h.id).count
      BY <3>1, TruthIsCounted
    <3> QED
      BY <2>3, <2>5, <3>2 DEF SummaryOf
  <2> QED
    BY <2>6, <2>7
<1>7. ASSUME NEW n \in IdsOf(f), n \in DOMAIN old
      PROVE  new[n] = ReadMessageStats(ToSet(t), n) /\ new[n].count >= ReadMessageStats(ToSet(t), n).count
  <2>1. new[n] = ReadMessageStats(ToSet(t), n)
    BY <1>3, <1>7
  <2>2. PICK c \in Nat : c = ReadMessageStats(ToSet(t), n).count
    BY StatsAreCounts
  <2> QED
    BY <2>1, <2>2
<1>8. ASSUME PlainRows(r), NEW i \in 1..Len(r) PROVE r[i].net \in DOMAIN old \cup IdsOf(f)
  <2>1. CASE i <= k
    BY <1>8, <2>1
  <2>2. CASE ~(i <= k)
    <3>1. PICK b : b = r[i].net % Byte
      OBVIOUS
    <3>2. b \in LowBytes
      <4>1. r[i].net \in Nat
        <5>1. r[i] \in Row
          BY RowsOfSequence
        <5> QED
          BY <5>1 DEF Row
      <4> QED
        BY <3>1, <4>1, DatabaseAssumption DEF LowBytes
    <3>3. i \in OfByte(r, k, b)
      BY <1>4, <2>2, <3>1 DEF OfByte
    <3>4. Counts(f[b], r, k, b)
      BY <3>2
    <3>5. Cardinality(OfByte(r, k, b)) \in Nat /\ Cardinality(OfByte(r, k, b)) # 0
      BY <1>4, <3>3, OfByteFinite
    <3>6. f[b].count > 0 /\ f[b].id = r[i].net
      BY <1>8, <3>3, <3>4, <3>5 DEF Counts, Spans
    <3> QED
      BY <3>2, <3>6 DEF TouchedIn, IdsOf
  <2> QED
    BY <2>1, <2>2
<1>9. DOMAIN new = DOMAIN old \cup IdsOf(f)
  BY <1>3
<1>10. \A n \in DOMAIN old : n \notin IdsOf(f) => new[n] = old[n]
  BY <1>3
<1> QED
  BY <1>1, <1>6, <1>7, <1>8, <1>9, <1>10

(* While a call runs no record has anything in it, and what is counted is  *)
(* what it took; between the calls every network has a record.             *)
CountedSince(r, entry, old, f, k) ==
    /\ ~Appends(entry) => k = 0
    /\ PlainRows(r) => \A i \in 1..Len(r) : i <= k => r[i].net \in DOMAIN old
    /\ \A b \in LowBytes : Counts(f[b], r, k, b)
Recorded(r, old) == PlainRows(r) => \A i \in 1..Len(r) : r[i].net \in DOMAIN old

CountingInv ==
    /\ info \in [LowBytes -> InfoRecord]
    /\ phase = "database" =>
          /\ \A n \in DOMAIN networks : networks[n] = NoMessages
          /\ \E k \in 0..Len(Rows(processed)) :
                CountedSince(Rows(processed), call.entry, networks, info, k)
    /\ phase # "database" => Recorded(Rows(processed), networks)

LEMMA PlainIs ==
    ASSUME StoreInv
    PROVE  Plain <=> PlainRows(Rows(processed))
<1>1. PICK r \in Seq(Row) : r = Rows(processed)
  BY RowsAre DEF StoreInv, DatabaseTypeOK
<1>2. DOMAIN processed = 1..Len(r) /\ \A i \in 1..Len(r) : r[i] = RowOf(processed[i])
  BY <1>1, RowsAre DEF StoreInv, DatabaseTypeOK
<1>3. \A m : RowOf(m).net = m.net /\ RowOf(m).time = CalcEpoch64(m.stamp)
  BY DEF RowOf
<1>4. \A i \in 1..Len(r) : r[i].net = processed[i].net /\ r[i].time = CalcEpoch64(processed[i].stamp)
  BY <1>2, <1>3
<1> QED
  BY <1>1, <1>2, <1>4 DEF Plain, PlainRows

LEMMA NothingCounted ==
    ASSUME NEW r \in Seq(Row), NEW b \in LowBytes
    PROVE  Counts(NoInfo[b], r, Len(r), b)
<1>1. OfByte(r, Len(r), b) = {}
  <2>1. \A i \in 1..Len(r) : ~(i > Len(r))
    OBVIOUS
  <2> QED
    BY <2>1 DEF OfByte
<1>2. NoInfo[b] = Untouched
  BY DEF NoInfo
<1>3. Untouched \in InfoRecord /\ Untouched.count = 0
  BY DEF Untouched, InfoRecord
<1> QED
  BY <1>1, <1>2, <1>3, FS_EmptySet DEF Counts

(* Without a message there is nothing to count.                            *)
LEMMA CountingInit ==
    ASSUME DatabaseInit
    PROVE  CountingInv /\ SummariesMatch
<1>1. phase = "idle" /\ networks = <<>> /\ info = NoInfo /\ processed = <<>>
  BY DEF DatabaseInit
<1>2. DOMAIN networks = {}
  BY <1>1
<1>3. Rows(processed) = <<>> /\ Len(<<>>) = 0 /\ 1..0 = {}
  BY <1>1, RowsOfEmpty
<1>4. info \in [LowBytes -> InfoRecord]
  BY <1>1 DEF NoInfo, Untouched, InfoRecord
<1>5. Recorded(Rows(processed), networks)
  BY <1>3 DEF Recorded
<1> QED
  BY <1>1, <1>2, <1>4, <1>5 DEF CountingInv, SummariesMatch

LEMMA CountingCreateDb ==
    ASSUME StoreInv, CountingInv, CreateDb
    PROVE  CountingInv'
<1>1. /\ phase = "idle" /\ phase' = "database" /\ info' = NoInfo
      /\ networks' = CleanMessageStatistics(networks)
      /\ processed' = IF Appends(call'.entry) THEN processed ELSE <<>>
  BY DEF CreateDb, BeginCall
<1>2. DOMAIN networks' = DOMAIN networks /\ \A n \in DOMAIN networks' : networks'[n] = NoMessages
  BY <1>1 DEF CleanMessageStatistics
<1>3. info' \in [LowBytes -> InfoRecord]
  BY <1>1 DEF NoInfo, Untouched, InfoRecord
<1>4. Recorded(Rows(processed), networks)
  BY <1>1 DEF CountingInv
<1>5. PICK r \in Seq(Row), k \in Nat : r = Rows(processed') /\ k = Len(r)
  <2>1. processed' \in Seq(Message)
    BY <1>1, EmptyInTime DEF StoreInv, DatabaseTypeOK
  <2>2. Rows(processed') \in Seq(Row)
    BY <2>1, RowsAre
  <2> QED
    BY <2>2
<1>6. ~Appends(call'.entry) => k = 0
  BY <1>1, <1>5, RowsOfEmpty
<1>7. PlainRows(r) => \A i \in 1..Len(r) : i <= k => r[i].net \in DOMAIN networks'
  <2>1. CASE Appends(call'.entry)
    BY <1>1, <1>2, <1>4, <1>5, <2>1 DEF Recorded
  <2>2. CASE ~Appends(call'.entry)
    <3>1. 1..Len(r) = {}
      BY <1>5, <1>6, <2>2
    <3> QED
      BY <3>1
  <2> QED
    BY <2>1, <2>2
<1>8. \A b \in LowBytes : Counts(info'[b], r, k, b)
  BY <1>1, <1>5, NothingCounted
<1>9. k \in 0..Len(r) /\ CountedSince(r, call'.entry, networks', info', k)
  BY <1>5, <1>6, <1>7, <1>8 DEF CountedSince
<1> QED
  BY <1>1, <1>2, <1>3, <1>5, <1>9 DEF CountingInv

(* A message is counted in the record of its low byte.                     *)
LEMMA CountedMessage ==
    ASSUME NEW r \in Seq(Row), NEW x \in Row, NEW g \in Seq(Row), EndsIn(g, r, x),
           NEW k \in 0..Len(r), NEW f \in [LowBytes -> InfoRecord],
           NEW entry, NEW old, CountedSince(r, entry, old, f, k)
    PROVE  LET h == [f EXCEPT ![x.net % Byte] = Counted(@, x.time, x.net)]
           IN  /\ h \in [LowBytes -> InfoRecord] /\ k \in 0..Len(g)
               /\ CountedSince(g, entry, old, h, k)
<1>1. PICK h : h = [f EXCEPT ![x.net % Byte] = Counted(@, x.time, x.net)]
  OBVIOUS
<1>2. PICK a \in LowBytes : a = x.net % Byte
  <2>1. x.net \in Nat
    BY DEF Row
  <2> QED
    BY <2>1, DatabaseAssumption DEF LowBytes
<1>3. DOMAIN h = LowBytes /\ h[a] = Counted(f[a], x.time, x.net) /\ \A b \in LowBytes : b # a => h[b] = f[b]
  BY <1>1, <1>2
<1>4. ASSUME NEW b \in LowBytes PROVE Counts(h[b], g, k, b)
  <2>1. Counts(f[b], r, k, b)
    BY DEF CountedSince
  <2>2. CASE b = a
    BY <1>2, <1>3, <2>1, <2>2, CountedOne
  <2>3. CASE b # a
    BY <1>2, <1>3, <2>1, <2>3, CountedOther
  <2> QED
    BY <2>2, <2>3
<1>5. h \in [LowBytes -> InfoRecord]
  <2>1. \A b \in LowBytes : h[b] \in InfoRecord
    BY <1>4 DEF Counts
  <2>2. h = [b \in LowBytes |-> h[b]]
    BY <1>1
  <2> QED
    BY <2>1, <2>2
<1>6. Len(r) \in Nat /\ Len(g) = Len(r) + 1 /\ \A i \in 1..Len(r) : g[i] = r[i]
  BY DEF EndsIn
<1>7. ASSUME PlainRows(g), NEW i \in 1..Len(g), i <= k PROVE g[i].net \in DOMAIN old
  <2>1. i \in 1..Len(r)
    BY <1>6, <1>7
  <2>2. PlainRows(r)
    BY <1>7, PlainBefore
  <2> QED
    BY <1>6, <1>7, <2>1, <2>2 DEF CountedSince
<1>8. ~Appends(entry) => k = 0
  BY DEF CountedSince
<1>9. CountedSince(g, entry, old, h, k)
  BY <1>4, <1>7, <1>8 DEF CountedSince
<1> QED
  BY <1>1, <1>5, <1>6, <1>9

LEMMA CountingProcessMessage ==
    ASSUME StoreInv, CountingInv, ProcessMessage
    PROVE  CountingInv'
<1>1. PICK m \in Message, x \in Row :
          m = Head(incoming) /\ x = RowOf(m) /\ processed' = Append(processed, m)
  BY ProcessMessageFacts
<1>2. /\ phase = "database" /\ phase' = "database" /\ networks' = networks /\ call' = call
      /\ info' = [info EXCEPT ![x.net % Byte] = Counted(@, x.time, x.net)]
  BY <1>1 DEF ProcessMessage, TakeMessage, CountMessage
<1>3. PICK r \in Seq(Row), g \in Seq(Row) : r = Rows(processed) /\ EndsIn(g, r, x) /\ g = Rows(processed')
  <2>1. PICK r \in Seq(Row) : r = Rows(processed)
    BY RowsAre DEF StoreInv, DatabaseTypeOK
  <2>2. PICK g \in Seq(Row) : EndsIn(g, r, x)
    BY EndsInAppended
  <2>3. Rows(processed') = Append(r, x)
    BY <1>1, <2>1, RowsOfAppend DEF StoreInv, DatabaseTypeOK
  <2>4. g = Append(r, x)
    BY <2>2 DEF EndsIn
  <2> QED
    BY <2>1, <2>2, <2>3, <2>4
<1>4. PICK k \in 0..Len(r) : CountedSince(r, call.entry, networks, info, k)
  BY <1>2, <1>3 DEF CountingInv
<1>5. info \in [LowBytes -> InfoRecord] /\ \A n \in DOMAIN networks : networks[n] = NoMessages
  BY <1>2 DEF CountingInv
<1>6. info' \in [LowBytes -> InfoRecord] /\ k \in 0..Len(g) /\ CountedSince(g, call.entry, networks, info', k)
  BY <1>2, <1>3, <1>4, <1>5, CountedMessage
<1> QED
  BY <1>2, <1>3, <1>5, <1>6 DEF CountingInv

(* When a call ends every network that was counted has its record.         *)
LEMMA CountingUpdateTable ==
    ASSUME StoreInv, CountingInv, StoreInv', KeyedOnce(table'), UpdateTable
    PROVE  CountingInv' /\ SummariesMatch'
<1>1. /\ phase = "database" /\ phase' = "idle" /\ info' = info /\ processed' = processed /\ call' = call
      /\ cache' = <<>> /\ networks' = UpdatedBy(networks, table', info)
  BY DEF UpdateTable, FlushCache, callVars, UpdatedBy, Touched, TouchedIn
<1>2. PICK t \in Seq(Row), r \in Seq(Row) : t = table' /\ r = Rows(processed)
  BY RowsAre DEF StoreInv, DatabaseTypeOK
<1>3. KeyedOnce(t) /\ Firsts(t) = Firsts(r)
  <2>1. Firsts(table' \o cache') = Firsts(Rows(processed'))
    BY DEF StoreInv, InputInv
  <2>2. t \o <<>> = t
    OBVIOUS
  <2> QED
    BY <1>1, <1>2, <2>1, <2>2
<1>4. PICK k \in 0..Len(r) : CountedSince(r, call.entry, networks, info, k)
  BY <1>1, <1>2 DEF CountingInv
<1>5. info \in [LowBytes -> InfoRecord] /\ \A n \in DOMAIN networks : networks[n] = NoMessages
  BY <1>1 DEF CountingInv
<1>6. PICK new, ids : new = UpdatedBy(networks, t, info) /\ ids = IdsOf(info)
  OBVIOUS
<1>7. /\ DOMAIN new = DOMAIN networks \cup ids
      /\ \A n \in DOMAIN networks : n \notin ids => new[n] = networks[n]
      /\ \A n \in ids : /\ PlainRows(r) => new[n] = ReadMessageStats(ToSet(t), n)
                        /\ k = 0 => new[n].count >= ReadMessageStats(ToSet(t), n).count
      /\ PlainRows(r) => \A i \in 1..Len(r) : r[i].net \in DOMAIN networks \cup ids
  <2>1. \A b \in LowBytes : Counts(info[b], r, k, b)
    BY <1>4 DEF CountedSince
  <2>2. PlainRows(r) => \A i \in 1..Len(r) : i <= k => r[i].net \in DOMAIN networks
    BY <1>4 DEF CountedSince
  <2>3. PICK old \in {networks}, f \in [LowBytes -> InfoRecord] : old = networks /\ f = info
    BY <1>5
  <2>4. /\ DOMAIN UpdatedBy(old, t, f) = DOMAIN old \cup IdsOf(f)
        /\ \A n \in DOMAIN old : n \notin IdsOf(f) => UpdatedBy(old, t, f)[n] = old[n]
        /\ \A n \in IdsOf(f) :
              /\ PlainRows(r) => UpdatedBy(old, t, f)[n] = ReadMessageStats(ToSet(t), n)
              /\ k = 0 => UpdatedBy(old, t, f)[n].count >= ReadMessageStats(ToSet(t), n).count
        /\ PlainRows(r) => \A i \in 1..Len(r) : r[i].net \in DOMAIN old \cup IdsOf(f)
    <3>1. \A b \in LowBytes : Counts(f[b], r, k, b)
      BY <2>1, <2>3
    <3>2. PlainRows(r) => \A i \in 1..Len(r) : i <= k => r[i].net \in DOMAIN old
      BY <2>2, <2>3
    <3> QED
      BY <1>3, <3>1, <3>2, UpdatedNetworks
  <2> QED
    BY <1>6, <2>3, <2>4
<1>8. networks' = new
  BY <1>1, <1>2, <1>6
<1>9. CountingInv'
  <2>1. Recorded(r, new)
    BY <1>7 DEF Recorded
  <2> QED
    BY <1>1, <1>2, <1>5, <1>8, <2>1 DEF CountingInv
<1>10. Plain' <=> PlainRows(r)
  <2>1. Plain <=> PlainRows(r)
    BY <1>2, PlainIs
  <2>2. Plain' <=> Plain
    BY <1>1 DEF Plain
  <2> QED
    BY <2>1, <2>2
<1>11. ASSUME NEW n \in DOMAIN new
       PROVE  IF n \in ids
                THEN /\ Plain' => new[n] = ReadMessageStats(ToSet(t), n)
                     /\ Appends(call.entry) \/ new[n].count >= ReadMessageStats(ToSet(t), n).count
                ELSE new[n] = NoMessages
  <2>1. ~Appends(call.entry) => k = 0
    BY <1>4 DEF CountedSince
  <2> QED
    BY <1>5, <1>7, <1>10, <2>1
<1>12. {info'[b].id : b \in Touched'} = ids
  BY <1>1, <1>6 DEF Touched, TouchedIn, IdsOf
<1>13. SummariesMatch'
  BY <1>1, <1>2, <1>8, <1>11, <1>12 DEF SummariesMatch
<1> QED
  BY <1>9, <1>13

LEMMA CountingStep ==
    ASSUME StoreInv, StoreInv', PhaseInv, KeyedOnce(table'), CountingInv, SummariesMatch,
           [DatabaseNext]_databaseVars
    PROVE  CountingInv' /\ SummariesMatch'
<1>1. CASE CreateDb
  <2>1. phase' = "database"
    BY <1>1 DEF CreateDb
  <2> QED
    BY <1>1, <2>1, CountingCreateDb DEF SummariesMatch
<1>2. CASE ProcessMessage
  <2>1. phase' = "database"
    BY <1>2 DEF ProcessMessage, TakeMessage
  <2> QED
    BY <1>2, <2>1, CountingProcessMessage DEF SummariesMatch
<1>3. CASE UpdateTable
  BY <1>3, CountingUpdateTable
<1>4. ASSUME /\ UNCHANGED <<networks, info, processed>>
             /\ phase # "database" /\ phase' # "database"
             /\ phase' = "idle" => call'.target # "db"
      PROVE  CountingInv' /\ SummariesMatch'
  BY <1>4 DEF CountingInv, SummariesMatch
<1>5. CASE CreatePcap \/ WriteVsb
  <2>1. /\ UNCHANGED <<networks, info, processed>>
        /\ phase = "idle" /\ phase' \in {"capture", "export"}
    BY <1>5 DEF CreatePcap, WriteVsb, BeginCall, storeVars
  <2> QED
    BY <1>4, <2>1
<1>6. CASE WriteCapture \/ CloseCapture
  <2>1. UNCHANGED <<networks, info, processed>> /\ phase = "capture" /\ call' = call /\ phase' # "database"
    BY <1>6 DEF WriteCapture, CloseCapture, TakeMessage, callVars, storeVars
  <2>2. call'.target # "db"
    BY <2>1 DEF PhaseInv, Formats
  <2> QED
    BY <1>4, <2>1, <2>2
<1>7. CASE ExportRow \/ StopExport \/ EndExport
  <2>1. UNCHANGED <<networks, info, processed>> /\ phase = "export" /\ phase' \in {"export", "done"}
    BY <1>7 DEF ExportRow, StopExport, EndExport, FetchRow, storeVars
  <2> QED
    BY <1>4, <2>1
<1>8. CASE StopReading \/ UNCHANGED databaseVars
  <2>1. UNCHANGED <<phase, call, table, networks, info, processed>>
    BY <1>8 DEF StopReading, databaseVars, callVars, storeVars
  <2>2. CountingInv'
    BY <2>1 DEF CountingInv
  <2>3. SummariesMatch'
    BY <2>1 DEF SummariesMatch, Plain, Touched
  <2> QED
    BY <2>2, <2>3
<1> QED
  BY <1>1, <1>2, <1>3, <1>5, <1>6, <1>7, <1>8 DEF DatabaseNext

(* After a call the record of every network that had a message in it says  *)
(* what the table holds, for plain messages; if the call created the table *)
(* it counts no fewer rows than there are; the record of any other network *)
(* is empty (VSBDatabase.cpp:55-75, 145-152; NetworkInfo.cpp:106-120,      *)
(* 160-173, 221-240, 262-267).                                             *)
THEOREM SummariesSayTheTable == DatabaseSpec => []SummariesMatch
<1>1. DatabaseInit => PhaseInv /\ KeyedOnce(table) /\ CountingInv /\ SummariesMatch
  BY CountingInit, KeyedOfNone DEF DatabaseInit, PhaseInv
<1>2. StoreInv /\ PhaseInv /\ [DatabaseNext]_databaseVars => PhaseInv'
  BY PhaseStep
<1>3. StoreInv /\ KeyedOnce(table) /\ [DatabaseNext]_databaseVars => KeyedOnce(table)'
  BY TableKeyedStep
<1>4. /\ StoreInv /\ StoreInv' /\ PhaseInv /\ KeyedOnce(table)' /\ CountingInv /\ SummariesMatch
      /\ [DatabaseNext]_databaseVars
      => CountingInv' /\ SummariesMatch'
  BY CountingStep
<1> QED
  BY <1>1, <1>2, <1>3, <1>4, DatabaseInvariant, PTL DEF DatabaseSpec
===============================================================================
