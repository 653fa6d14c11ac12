------------------------------ MODULE DataLemmas ------------------------------
(***************************************************************************)
(* What the proofs need of data that is defined by recursion: induction    *)
(* over the natural numbers and over sequences, and the value of a fold    *)
(* from the left, of a selection and of a flattened sequence on the empty  *)
(* sequence and on a sequence with one member more.  An operator that      *)
(* folds is first shown to be a FoldOf, the fold of a set-theoretic        *)
(* function; the facts about FoldOf then give its equations.  Last come    *)
(* remainders of divisions.                                                *)
(***************************************************************************)
EXTENDS Selection, SequenceTheorems, WellFoundedInduction, TLAPS

(* A set of numbers that holds 0 and every successor of its members holds  *)
(* all of them: the numbers missing from it would have a least one.        *)
LEMMA NaturalInduction ==
    ASSUME NEW S \in SUBSET Nat, 0 \in S, \A n \in S : n + 1 \in S
    PROVE  S = Nat
<1> DEFINE T == Nat \ S
           R == {ss \in Nat \X Nat : ss[1] < ss[2]}
<1>1. IsWellFoundedOn(R, Nat)
  BY NatLessThanWellFounded DEF OpToRel
<1> SUFFICES ASSUME T # {} PROVE FALSE
  OBVIOUS
<1>2. T \subseteq Nat
  OBVIOUS
<1> HIDE DEF T, R
<1>3. PICK x \in T : \A y \in T : ~(<<y, x>> \in R)
  BY <1>1, <1>2, WFMin
<1>4. x \in Nat /\ x # 0
  BY <1>2 DEF T
<1>5. x - 1 \in Nat /\ <<x - 1, x>> \in R
  BY <1>4 DEF R
<1>6. x - 1 \in S
  BY <1>3, <1>5 DEF T
<1>7. x \in S
  <2>1. (x - 1) + 1 \in S
    BY <1>6
  <2> QED
    BY <2>1, <1>4
<1> QED
  BY <1>7 DEF T

(* An order-preserving map of 1..n into itself is the identity: no number  *)
(* goes below its place, counting from the start, nor above it, counting   *)
(* from the end.                                                           *)
LEMMA IncreasingIsIdentity ==
    ASSUME NEW n \in Nat, NEW f \in [1..n -> 1..n],
           \A i, j \in 1..n : i < j => f[i] < f[j]
    PROVE  \A i \in 1..n : f[i] = i
<1> DEFINE S == {k \in Nat : k \in 1..n => f[k] >= k}
           T == {k \in Nat : n - k \in 1..n => f[n - k] <= n - k}
<1>1. S = Nat
  <2>1. S \in SUBSET Nat /\ 0 \in S
    OBVIOUS
  <2>2. ASSUME NEW k \in S PROVE k + 1 \in S
    <3>1. k \in Nat /\ (k \in 1..n => f[k] >= k)
      OBVIOUS
    <3> SUFFICES ASSUME k + 1 \in 1..n PROVE f[k + 1] >= k + 1
      BY <3>1
    <3>2. f[k + 1] \in Int /\ f[k + 1] >= 1
      OBVIOUS
    <3>3. CASE k = 0
      BY <3>2, <3>3
    <3>4. CASE k # 0
      <4>1. k \in 1..n /\ k < k + 1
        BY <3>1, <3>4
      <4>2. f[k] < f[k + 1] /\ f[k] \in Int
        BY <4>1
      <4> QED
        BY <3>1, <3>2, <4>1, <4>2
    <3> QED
      BY <3>3, <3>4
  <2> HIDE DEF S
  <2> QED
    BY <2>1, <2>2, NaturalInduction
<1>2. T = Nat
  <2>1. T \in SUBSET Nat /\ 0 \in T
    OBVIOUS
  <2>2. ASSUME NEW k \in T PROVE k + 1 \in T
    <3>1. k \in Nat /\ (n - k \in 1..n => f[n - k] <= n - k)
      OBVIOUS
    <3> SUFFICES ASSUME n - (k + 1) \in 1..n PROVE f[n - (k + 1)] <= n - (k + 1)
      BY <3>1
    <3>2. n - k \in 1..n /\ n - (k + 1) < n - k /\ n - (k + 1) = (n - k) - 1
      BY <3>1
    <3>3. f[n - (k + 1)] < f[n - k] /\ f[n - (k + 1)] \in Int /\ f[n - k] \in Int
      BY <3>2
    <3> QED
      BY <3>1, <3>2, <3>3
  <2> HIDE DEF T
  <2> QED
    BY <2>1, <2>2, NaturalInduction
<1>3. ASSUME NEW i \in 1..n PROVE f[i] = i
  <2>1. f[i] >= i
    BY <1>1
  <2>2. n - i \in Nat /\ n - (n - i) = i
    OBVIOUS
  <2>3. n - i \in T
    BY <1>2, <2>2
  <2>4. f[i] <= i
    BY <2>2, <2>3
  <2>5. f[i] \in Int
    OBVIOUS
  <2> QED
    BY <2>1, <2>4, <2>5
<1> QED
  BY <1>3

LEMMA AppendFacts ==
    ASSUME NEW E, NEW s \in Seq(E), NEW x \in E
    PROVE  /\ Append(s, x) \in Seq(E) /\ Append(s, x) # <<>>
           /\ Len(Append(s, x)) = Len(s) + 1 /\ Len(s) \in Nat
           /\ Append(s, x)[Len(s) + 1] = x
           /\ \A i \in 1..Len(s) : Append(s, x)[i] = s[i]
<1>1. Append(s, x) \in Seq(E) /\ Len(Append(s, x)) = Len(s) + 1 /\ Len(s) \in Nat
  OBVIOUS
<1>2. Append(s, x) # <<>>
  BY <1>1, EmptySeq
<1> QED
  BY <1>1, <1>2

LEMMA FunctionIsSequence ==
    ASSUME NEW E, NEW n \in Nat, NEW s \in [1..n -> E]
    PROVE  s \in Seq(E) /\ Len(s) = n
  BY SeqDef

LEMMA LastApart ==
    ASSUME NEW E, NEW s \in Seq(E), NEW n \in Nat, Len(s) = n + 1
    PROVE  /\ SubSeq(s, 1, n) \in Seq(E)
           /\ Len(SubSeq(s, 1, n)) = n
           /\ s[n + 1] \in E
           /\ s = Append(SubSeq(s, 1, n), s[n + 1])
<1>1. n + 1 \in 1..Len(s)
  OBVIOUS
<1>2. s[n + 1] \in E
  BY <1>1
<1>3. SubSeq(s, 1, n) \in Seq(E) /\ Len(SubSeq(s, 1, n)) = n
         /\ \A i \in 1..n : SubSeq(s, 1, n)[i] = s[i]
  BY <1>1, SubSeqProperties
<1> DEFINE a == Append(SubSeq(s, 1, n), s[n + 1])
<1>4. a \in Seq(E) /\ Len(a) = n + 1 /\ \A i \in 1..(n + 1) : a[i] = s[i]
  BY <1>2, <1>3
<1>5. s = a
  <2> HIDE DEF a
  <2> QED
    BY <1>4, SeqEqual
<1> QED
  BY <1>2, <1>3, <1>5

(* The front of a sequence.                                                *)
LEMMA FrontFacts ==
    ASSUME NEW E, NEW s \in Seq(E), NEW n \in 0..Len(s)
    PROVE  /\ SubSeq(s, 1, n) \in Seq(E)
           /\ Len(SubSeq(s, 1, n)) = n
           /\ \A i \in 1..n : SubSeq(s, 1, n)[i] = s[i]
<1>1. n \in Nat /\ \A i \in 1..n : i \in 1..Len(s) /\ s[i] \in E
  OBVIOUS
<1> QED
  BY <1>1, SubSeqProperties

LEMMA FrontOfAppend ==
    ASSUME NEW E, NEW s \in Seq(E), NEW x \in E, NEW n \in 0..Len(s)
    PROVE  SubSeq(Append(s, x), 1, n) = SubSeq(s, 1, n)
<1>1. PICK t \in Seq(E) : t = Append(s, x)
  BY AppendFacts
<1>2. n \in 0..Len(t) /\ \A i \in 1..n : t[i] = s[i]
  BY <1>1, AppendFacts
<1>3. /\ SubSeq(t, 1, n) \in Seq(E) /\ Len(SubSeq(t, 1, n)) = n
      /\ \A i \in 1..n : SubSeq(t, 1, n)[i] = t[i]
  BY <1>2, FrontFacts
<1>4. /\ SubSeq(s, 1, n) \in Seq(E) /\ Len(SubSeq(s, 1, n)) = n
      /\ \A i \in 1..n : SubSeq(s, 1, n)[i] = s[i]
  BY FrontFacts
<1>5. SubSeq(t, 1, n) = SubSeq(s, 1, n)
  BY <1>2, <1>3, <1>4, SeqEqual
<1> QED
  BY <1>1, <1>5

LEMMA FrontIsAll ==
    ASSUME NEW E, NEW s \in Seq(E)
    PROVE  SubSeq(s, 1, Len(s)) = s
<1>1. PICK n \in Nat : n = Len(s) /\ n \in 0..Len(s)
  OBVIOUS
<1>2. /\ SubSeq(s, 1, n) \in Seq(E) /\ Len(SubSeq(s, 1, n)) = n
      /\ \A i \in 1..n : SubSeq(s, 1, n)[i] = s[i]
  BY <1>1, FrontFacts
<1>3. SubSeq(s, 1, n) = s
  BY <1>1, <1>2, SeqEqual
<1> QED
  BY <1>1, <1>3

(* The same for sequences, which grow at their end.                        *)
LEMMA SequenceInduction ==
    ASSUME NEW E, NEW S \in SUBSET Seq(E), <<>> \in S,
           \A s \in S, x \in E : Append(s, x) \in S
    PROVE  S = Seq(E)
<1> DEFINE P(n) == \A s \in Seq(E) : Len(s) = n => s \in S
           T == {n \in Nat : P(n)}
<1>1. P(0)
  <2>1. \A s \in Seq(E) : Len(s) = 0 => s = <<>>
    OBVIOUS
  <2> QED
    BY <2>1
<1>2. ASSUME NEW n \in Nat, P(n) PROVE P(n + 1)
  <2> SUFFICES ASSUME NEW s \in Seq(E), Len(s) = n + 1 PROVE s \in S
    OBVIOUS
  <2> DEFINE f == SubSeq(s, 1, n)
             x == s[n + 1]
  <2>1. f \in Seq(E) /\ Len(f) = n /\ x \in E /\ s = Append(f, x)
    BY LastApart
  <2>2. f \in S
    BY <1>2, <2>1
  <2> HIDE DEF f, x
  <2> QED
    BY <2>1, <2>2
<1>3. T = Nat
  <2> HIDE DEF P
  <2>1. 0 \in T
    BY <1>1
  <2>2. \A n \in T : n + 1 \in T
    BY <1>2
  <2> HIDE DEF T
  <2> QED
    BY <2>1, <2>2, NaturalInduction DEF T
<1>4. \A s \in Seq(E) : Len(s) \in Nat
  OBVIOUS
<1>5. \A n \in Nat : P(n)
  <2> HIDE DEF P
  <2> QED
    BY <1>3
<1> QED
  BY <1>4, <1>5

(* The largest number of a set that has one.                               *)
LEMMA MaxIs ==
    ASSUME NEW t \in SUBSET Int, NEW m \in t, \A x \in t : m >= x
    PROVE  Max(t) = m
<1>1. \A y \in t : (\A x \in t : y >= x) => y = m
  BY SMT
<1> QED
  BY <1>1 DEF Max

LEMMA MaxIn ==
    ASSUME NEW E, NEW s \in Seq(E), NEW t \in SUBSET (1..Len(s)), t # {}
    PROVE  Max(t) \in t /\ s[Max(t)] \in E
<1> DEFINE U == {m \in Nat : \A x \in t : x <= m}
           W == {m \in Nat : m \notin U}
<1>1. Len(s) \in U
  OBVIOUS
<1>2. 0 \notin U
  <2>1. PICK x \in t : TRUE
    OBVIOUS
  <2>2. x \in Nat /\ x > 0
    OBVIOUS
  <2> QED
    BY <2>2
<1>3. PICK m \in Nat : m \notin U /\ m + 1 \in U
  <2>1. W # Nat
    BY <1>1
  <2>2. 0 \in W /\ W \in SUBSET Nat
    BY <1>2
  <2>3. PICK m \in W : m + 1 \notin W
    <3> HIDE DEF W
    <3> QED
      BY <2>1, <2>2, NaturalInduction
  <2>4. m \in Nat /\ m \notin U /\ m + 1 \in U
    BY <2>3
  <2> HIDE DEF U
  <2> QED
    BY <2>4
<1>4. m + 1 \in t
  <2>1. PICK x \in t : x > m
    BY <1>3
  <2>2. x <= m + 1 /\ x \in Int
    BY <1>3
  <2>3. x = m + 1
    BY <2>1, <2>2
  <2> QED
    BY <2>1, <2>3
<1>5. Max(t) = m + 1
  <2>1. t \in SUBSET Int /\ \A x \in t : m + 1 >= x
    BY <1>3
  <2> QED
    BY <2>1, <1>4, MaxIs
<1> QED
  BY <1>4, <1>5

(* A fold over the subsets of 1..N.                                        *)
Folding(iter, n, Op, base, s) ==
    \A t \in SUBSET (1..n) :
        iter[t] = IF t = {} THEN base ELSE Op[<<iter[t \ {Max(t)}], s[Max(t)]>>]

(* What a fold from the left needs of its arguments.                       *)
FoldType(V, E, Op, base, s) ==
    Op \in [V \X E -> V] /\ base \in V /\ s \in Seq(E)

LEMMA FoldingExists ==
    ASSUME NEW V, NEW E, NEW Op, NEW base, NEW s, FoldType(V, E, Op, base, s)
    PROVE  \E iter \in [SUBSET (1..Len(s)) -> V] : Folding(iter, Len(s), Op, base, s)
<1> USE DEF FoldType
<1> DEFINE N == Len(s)
           P(n) == \E iter \in [SUBSET (1..n) -> V] : Folding(iter, n, Op, base, s)
           S == {n \in Nat : n <= N => P(n)}
<1>1. 0 \in S
  <2> DEFINE it == [t \in SUBSET (1..0) |-> base]
  <2>1. 1..0 = {}
    BY SMT
  <2>2. Folding(it, 0, Op, base, s)
    BY <2>1 DEF Folding
  <2>3. P(0)
    BY <2>2
  <2> QED
    BY <2>3
<1>2. ASSUME NEW n \in S PROVE n + 1 \in S
  <2> SUFFICES ASSUME n + 1 <= N PROVE P(n + 1)
    <3> HIDE DEF P
    <3> QED
      OBVIOUS
  <2>1. n \in Nat /\ N \in Nat /\ n + 1 \in 1..N
    OBVIOUS
  <2>2. P(n)
    <3> HIDE DEF P
    <3> QED
      BY <2>1
  <2>3. PICK it \in [SUBSET (1..n) -> V] : Folding(it, n, Op, base, s)
    BY <2>2
  <2> DEFINE new == [t \in SUBSET (1..(n + 1)) |->
                       IF n + 1 \in t THEN Op[<<it[t \ {n + 1}], s[n + 1]>>] ELSE it[t]]
  <2>4. \A t \in SUBSET (1..(n + 1)) : t \ {n + 1} \in SUBSET (1..n)
    BY <2>1
  <2>5. s[n + 1] \in E
    BY <2>1
  <2>6. new \in [SUBSET (1..(n + 1)) -> V]
    <3> SUFFICES ASSUME NEW t \in SUBSET (1..(n + 1)) PROVE new[t] \in V
      OBVIOUS
    <3>1. CASE n + 1 \in t
      BY <3>1, <2>3, <2>4, <2>5
    <3>2. CASE n + 1 \notin t
      <4>1. t \in SUBSET (1..n)
        BY <2>4, <3>2
      <4> QED
        BY <3>2, <4>1, <2>3
    <3> QED
      BY <3>1, <3>2
  <2>7. ASSUME NEW t \in SUBSET (1..(n + 1))
        PROVE  new[t] = IF t = {} THEN base ELSE Op[<<new[t \ {Max(t)}], s[Max(t)]>>]
    <3>1. CASE n + 1 \in t
      <4>1. Max(t) = n + 1
        <5>1. t \in SUBSET Int /\ n + 1 \in t /\ \A x \in t : n + 1 >= x
          BY <3>1, <2>1, SMT
        <5> QED
          BY <5>1, MaxIs
      <4>2. new[t \ {n + 1}] = it[t \ {n + 1}]
        BY <2>4
      <4> QED
        BY <3>1, <4>1, <4>2
    <3>2. CASE n + 1 \notin t
      <4>1. t \in SUBSET (1..n)
        BY <2>4, <3>2
      <4>2. new[t] = it[t]
        BY <3>2
      <4>3. \A u \in SUBSET t : new[u] = it[u]
        BY <3>2, <4>1
      <4>4. t \ {Max(t)} \in SUBSET t
        OBVIOUS
      <4>5. it[t] = IF t = {} THEN base ELSE Op[<<it[t \ {Max(t)}], s[Max(t)]>>]
        BY <4>1, <2>3 DEF Folding
      <4> QED
        BY <4>2, <4>3, <4>4, <4>5
    <3> QED
      BY <3>1, <3>2
  <2> QED
    BY <2>6, <2>7 DEF Folding
<1>3. S = Nat
  <2> HIDE DEF S
  <2> QED
    BY <1>1, <1>2, NaturalInduction DEF S
<1>4. P(N)
  <2> HIDE DEF P
  <2> QED
    BY <1>3
<1> QED
  BY <1>4

-------------------------------------------------------------------------------
(* The value of a fold from the left: base, then a step for every member.  *)
IsTable(g, Op, base, s) ==
    g[0] = base /\ \A k \in 1..Len(s) : g[k] = Op[<<g[k - 1], s[k]>>]

FoldOf(Op, base, s) == (CHOOSE g : IsTable(g, Op, base, s))[Len(s)]

LEMMA TablesAgree ==
    ASSUME NEW Op, NEW base, NEW E, NEW s \in Seq(E), NEW g, NEW h,
           IsTable(g, Op, base, s), IsTable(h, Op, base, s)
    PROVE  \A k \in 0..Len(s) : g[k] = h[k]
<1> DEFINE S == {k \in Nat : k <= Len(s) => g[k] = h[k]}
<1>1. 0 \in S
  BY DEF IsTable
<1>2. ASSUME NEW k \in S PROVE k + 1 \in S
  <2> SUFFICES ASSUME k + 1 <= Len(s) PROVE g[k + 1] = h[k + 1]
    OBVIOUS
  <2>1. k + 1 \in 1..Len(s) /\ (k + 1) - 1 = k /\ g[k] = h[k]
    OBVIOUS
  <2> QED
    BY <2>1 DEF IsTable
<1>3. S = Nat
  <2> HIDE DEF S
  <2> QED
    BY <1>1, <1>2, NaturalInduction DEF S
<1> QED
  BY <1>3

LEMMA FoldOfTable ==
    ASSUME NEW Op, NEW base, NEW E, NEW s \in Seq(E), NEW g, IsTable(g, Op, base, s)
    PROVE  FoldOf(Op, base, s) = g[Len(s)]
<1> DEFINE h == CHOOSE h : IsTable(h, Op, base, s)
<1>1. IsTable(h, Op, base, s)
  OBVIOUS
<1> HIDE DEF h
<1>2. h[Len(s)] = g[Len(s)]
  BY <1>1, TablesAgree
<1> QED
  BY <1>2 DEF h, FoldOf

LEMMA InitialIntervals ==
    ASSUME NEW n \in Nat, NEW k \in Nat, k + 1 <= n
    PROVE  /\ (1..(k + 1)) \ {k + 1} = 1..k
           /\ 1..(k + 1) \in SUBSET (1..n)
           /\ 1..(k + 1) # {}
           /\ Max(1..(k + 1)) = k + 1
<1>1. (1..(k + 1)) \ {k + 1} = 1..k
  BY SMT
<1>2. 1..(k + 1) \in SUBSET (1..n)
  BY SMT
<1>3. k + 1 \in 1..(k + 1) /\ 1..(k + 1) \in SUBSET Int
  BY SMT
<1>4. \A x \in 1..(k + 1) : k + 1 >= x
  BY SMT
<1> QED
  BY <1>1, <1>2, <1>3, <1>4, MaxIs

FoldsWithin(j, V, Op, base, s) ==
    /\ j[{}] = base
    /\ \A t \in SUBSET (1..Len(s)) :
           t # {} /\ j[t \ {Max(t)}] \in V
               => j[t] = Op[<<j[t \ {Max(t)}], s[Max(t)]>>]

(* A function that satisfies the equation of a fold over subsets has the   *)
(* fold's value on the whole.                                              *)
LEMMA FoldOfFolding ==
    ASSUME NEW V, NEW E, NEW Op, NEW base, NEW s, FoldType(V, E, Op, base, s),
           NEW j, FoldsWithin(j, V, Op, base, s)
    PROVE  j[1..Len(s)] = FoldOf(Op, base, s) /\ FoldOf(Op, base, s) \in V
<1> USE DEF FoldType
<1> DEFINE g == [k \in 0..Len(s) |-> j[1..k]]
           P(k) == g[k] \in V /\ (k > 0 => g[k] = Op[<<g[k - 1], s[k]>>])
           S == {k \in Nat : k <= Len(s) => P(k)}
<1>1. 1..0 = {}
  BY SMT
<1>2. g[0] = base
  BY <1>1 DEF FoldsWithin
<1>3. P(0)
  BY <1>2
<1>4. ASSUME NEW k \in Nat, k + 1 <= Len(s), P(k) PROVE P(k + 1)
  <2>1. k \in Nat /\ k + 1 \in 1..Len(s) /\ k \in 0..Len(s) /\ k + 1 \in 0..Len(s)
          /\ (k + 1) - 1 = k
    BY <1>4
  <2>2. g[k] \in V
    BY <1>4
  <2>3. Max(1..(k + 1)) = k + 1 /\ (1..(k + 1)) \ {k + 1} = 1..k
          /\ 1..(k + 1) \in SUBSET (1..Len(s)) /\ 1..(k + 1) # {}
    <3>1. Len(s) \in Nat
      OBVIOUS
    <3> QED
      BY <3>1, <1>4, InitialIntervals
  <2>4. j[1..k] = g[k] /\ j[1..(k + 1)] = g[k + 1]
    BY <2>1
  <2>5. g[k + 1] = Op[<<g[k], s[k + 1]>>]
    <3> HIDE DEF g
    <3> QED
      BY <2>2, <2>3, <2>4 DEF FoldsWithin
  <2>6. s[k + 1] \in E
    BY <2>1
  <2>7. g[k + 1] \in V
    <3> HIDE DEF g
    <3> QED
      BY <2>2, <2>5, <2>6
  <2> HIDE DEF g
  <2> QED
    BY <2>1, <2>5, <2>7
<1>5. S = Nat
  <2> HIDE DEF P
  <2>1. 0 \in S
    BY <1>3
  <2>2. \A k \in S : k + 1 \in S
    BY <1>4
  <2> HIDE DEF S
  <2> QED
    BY <2>1, <2>2, NaturalInduction DEF S
<1>6. Len(s) \in Nat
  OBVIOUS
<1>7. \A k \in 0..Len(s) : P(k)
  <2> HIDE DEF P
  <2> QED
    BY <1>5, <1>6
<1>8. IsTable(g, Op, base, s)
  <2> HIDE DEF g
  <2> QED
    BY <1>2, <1>6, <1>7 DEF IsTable
<1>9. g[Len(s)] = j[1..Len(s)] /\ g[Len(s)] \in V
  <2>1. g[Len(s)] = j[1..Len(s)]
    BY <1>6
  <2>2. P(Len(s))
    BY <1>6, <1>7
  <2> QED
    BY <2>1, <2>2
<1> QED
  BY <1>8, <1>9, FoldOfTable

(* With the function that FoldingExists provides the same holds of FoldOf. *)
LEMMA FoldOfType ==
    ASSUME NEW V, NEW E, NEW Op, NEW base, NEW s, FoldType(V, E, Op, base, s)
    PROVE  /\ FoldOf(Op, base, s) \in V
           /\ \E g \in [0..Len(s) -> V] : IsTable(g, Op, base, s)
<1>1. PICK it \in [SUBSET (1..Len(s)) -> V] : Folding(it, Len(s), Op, base, s)
  BY FoldingExists
<1>2. it[{}] = base
  BY <1>1 DEF Folding
<1>3. \A t \in SUBSET (1..Len(s)) : t # {} => it[t] = Op[<<it[t \ {Max(t)}], s[Max(t)]>>]
  BY <1>1 DEF Folding
<1>4. FoldOf(Op, base, s) \in V
  BY <1>2, <1>3, FoldOfFolding DEF FoldsWithin
<1> DEFINE g == [k \in 0..Len(s) |-> it[1..k]]
<1>5. g \in [0..Len(s) -> V]
  <2>1. \A k \in 0..Len(s) : 1..k \in SUBSET (1..Len(s))
    BY SMT
  <2> QED
    BY <2>1
<1>6. g[0] = base
  <2>1. 1..0 = {} /\ 0 \in 0..Len(s)
    BY SMT
  <2> QED
    BY <2>1, <1>2
<1>7. ASSUME NEW k \in 1..Len(s) PROVE g[k] = Op[<<g[k - 1], s[k]>>]
  <2>1. 1..k \in SUBSET Int /\ k \in 1..k /\ (\A x \in 1..k : k >= x)
          /\ (1..k) \ {k} = 1..(k - 1) /\ 1..k \in SUBSET (1..Len(s))
          /\ k - 1 \in 0..Len(s) /\ k \in 0..Len(s)
    BY SMT
  <2>2. Max(1..k) = k
    BY <2>1, MaxIs
  <2>3. it[1..k] = Op[<<it[1..(k - 1)], s[k]>>]
    BY <2>1, <2>2, <1>3
  <2> QED
    BY <2>1, <2>3
<1>8. IsTable(g, Op, base, s)
  BY <1>6, <1>7 DEF IsTable
<1> QED
  BY <1>4, <1>5, <1>8

LEMMA FoldOfEmpty ==
    ASSUME NEW Op, NEW base
    PROVE  FoldOf(Op, base, <<>>) = base
<1>1. IsTable([k \in {0} |-> base], Op, base, <<>>)
  BY DEF IsTable
<1>2. <<>> \in Seq({})
  OBVIOUS
<1>3. FoldOf(Op, base, <<>>) = [k \in {0} |-> base][Len(<<>>)]
  BY <1>1, <1>2, FoldOfTable
<1> QED
  BY <1>3

LEMMA FoldOfAppend ==
    ASSUME NEW V, NEW E, NEW Op, NEW base, NEW s, FoldType(V, E, Op, base, s),
           NEW x \in E
    PROVE  FoldOf(Op, base, Append(s, x)) = Op[<<FoldOf(Op, base, s), x>>]
<1> DEFINE a == Append(s, x)
           n == Len(s)
<1>0. s \in Seq(E)
  BY DEF FoldType
<1>1. PICK g \in [0..n -> V] : IsTable(g, Op, base, s)
  BY FoldOfType
<1>2. FoldOf(Op, base, s) = g[n]
  BY <1>0, <1>1, FoldOfTable
<1> DEFINE h == [k \in 0..(n + 1) |-> IF k = n + 1 THEN Op[<<g[n], x>>] ELSE g[k]]
<1>3. a \in Seq(E) /\ Len(a) = n + 1 /\ a[n + 1] = x /\ (\A k \in 1..n : a[k] = s[k]) /\ n \in Nat
  BY <1>0
<1>4. h[0] = base
  BY <1>1, <1>3 DEF IsTable
<1>5. ASSUME NEW k \in 1..(n + 1) PROVE h[k] = Op[<<h[k - 1], a[k]>>]
  <2>1. h[k - 1] = g[k - 1]
    BY <1>3
  <2>2. CASE k = n + 1
    <3>1. h[k] = Op[<<g[n], x>>] /\ a[k] = x /\ k - 1 = n
      BY <2>2, <1>3
    <3> HIDE DEF h, a
    <3> QED
      BY <3>1, <2>1
  <2>3. CASE k # n + 1
    <3>1. k \in 1..n
      BY <2>3, <1>3
    <3>2. g[k] = Op[<<g[k - 1], s[k]>>]
      BY <3>1, <1>1 DEF IsTable
    <3>3. h[k] = g[k]
      BY <2>3
    <3>4. a[k] = s[k]
      BY <3>1, <1>3
    <3> HIDE DEF h, a
    <3> QED
      BY <3>2, <3>3, <3>4, <2>1
  <2> QED
    BY <2>2, <2>3
<1>6. IsTable(h, Op, base, a)
  <2> HIDE DEF h, a
  <2> QED
    BY <1>3, <1>4, <1>5 DEF IsTable
<1>7. FoldOf(Op, base, a) = h[n + 1]
  <2> HIDE DEF h, a
  <2> QED
    BY <1>3, <1>6, FoldOfTable
<1>8. h[n + 1] = Op[<<g[n], x>>]
  BY <1>3
<1> QED
  BY <1>2, <1>7, <1>8

-------------------------------------------------------------------------------
(* Selecting from a sequence.                                              *)
Selecting(E, Wanted) ==
    [p \in Seq(E) \X E |-> IF p[2] \in Wanted THEN Append(p[1], p[2]) ELSE p[1]]

LEMMA SelectingType ==
    ASSUME NEW E, NEW Wanted
    PROVE  Selecting(E, Wanted) \in [Seq(E) \X E -> Seq(E)]
  BY DEF Selecting

LEMMA SelectedIsFold ==
    ASSUME NEW E, NEW Wanted, NEW s \in Seq(E)
    PROVE  Selected(s, Wanted) = FoldOf(Selecting(E, Wanted), <<>>, s)
<1> DEFINE Op == Selecting(E, Wanted)
           Eq(it) == it = [t \in SUBSET (DOMAIN s) |->
                             IF t = {} THEN <<>>
                             ELSE IF s[Max(t)] \in Wanted THEN Append(it[t \ {Max(t)}], s[Max(t)])
                                  ELSE it[t \ {Max(t)}]]
           j == CHOOSE it : Eq(it)
<1>0. FoldType(Seq(E), E, Op, <<>>, s)
  <2>1. Op \in [Seq(E) \X E -> Seq(E)]
    BY SelectingType
  <2> HIDE DEF Op
  <2> QED
    BY <2>1 DEF FoldType
<1>1. /\ Op \in [Seq(E) \X E -> Seq(E)]
      /\ <<>> \in Seq(E)
      /\ DOMAIN s = 1..Len(s)
  <2>1. Op \in [Seq(E) \X E -> Seq(E)]
    BY SelectingType
  <2> QED
    BY <2>1
<1>2. Selected(s, Wanted) = j[1..Len(s)]
  BY <1>1 DEF Selected, FoldLeft, MapThenFoldSet
<1>3. \E it : Eq(it)
  <2> HIDE DEF Op
  <2>1. PICK it \in [SUBSET (1..Len(s)) -> Seq(E)] : Folding(it, Len(s), Op, <<>>, s)
    BY <1>0, FoldingExists
  <2>2. ASSUME NEW t \in SUBSET (1..Len(s)), t # {}
        PROVE  it[t] = IF s[Max(t)] \in Wanted THEN Append(it[t \ {Max(t)}], s[Max(t)])
                       ELSE it[t \ {Max(t)}]
    <3>1. it[t] = Op[<<it[t \ {Max(t)}], s[Max(t)]>>]
      BY <2>1, <2>2 DEF Folding
    <3>2. it[t \ {Max(t)}] \in Seq(E)
      BY <2>1
    <3>3. s[Max(t)] \in E
      BY <2>2, MaxIn
    <3> QED
      BY <3>1, <3>2, <3>3 DEF Op, Selecting
  <2>3. it[{}] = <<>>
    BY <2>1 DEF Folding
  <2>4. Eq(it)
    BY <2>1, <2>2, <2>3, <1>1
  <2> QED
    BY <2>4
<1>4. Eq(j)
  <2> HIDE DEF Eq
  <2> QED
    BY <1>3
<1> HIDE DEF j
<1>5. j[{}] = <<>>
  BY <1>4
<1>6. ASSUME NEW t \in SUBSET (1..Len(s)), t # {}, j[t \ {Max(t)}] \in Seq(E)
      PROVE  j[t] = Op[<<j[t \ {Max(t)}], s[Max(t)]>>]
  <2>1. s[Max(t)] \in E
    BY <1>6, MaxIn
  <2>2. j[t] = IF s[Max(t)] \in Wanted THEN Append(j[t \ {Max(t)}], s[Max(t)])
               ELSE j[t \ {Max(t)}]
    BY <1>1, <1>4, <1>6
  <2> HIDE DEF Eq
  <2> QED
    BY <1>6, <2>1, <2>2 DEF Selecting
<1> HIDE DEF Op, Eq
<1>7. j[1..Len(s)] = FoldOf(Op, <<>>, s)
  <2>1. FoldsWithin(j, Seq(E), Op, <<>>, s)
    BY <1>5, <1>6 DEF FoldsWithin
  <2> QED
    BY <1>0, <2>1, FoldOfFolding
<1> QED
  BY <1>2, <1>7 DEF Op

LEMMA SelectingFold ==
    ASSUME NEW E, NEW Wanted, NEW s \in Seq(E)
    PROVE  /\ FoldType(Seq(E), E, Selecting(E, Wanted), <<>>, s)
           /\ Selected(s, Wanted) = FoldOf(Selecting(E, Wanted), <<>>, s)
           /\ Selected(s, Wanted) \in Seq(E)
<1> DEFINE Op == Selecting(E, Wanted)
<1>1. FoldType(Seq(E), E, Op, <<>>, s)
  <2>1. Op \in [Seq(E) \X E -> Seq(E)]
    BY SelectingType
  <2> HIDE DEF Op
  <2> QED
    BY <2>1 DEF FoldType
<1>2. Selected(s, Wanted) = FoldOf(Op, <<>>, s)
  BY SelectedIsFold
<1> HIDE DEF Op
<1> QED
  BY <1>1, <1>2, FoldOfType DEF Op

LEMMA SelectedAppend ==
    ASSUME NEW E, NEW Wanted, NEW s \in Seq(E), NEW x \in E
    PROVE  Selected(Append(s, x), Wanted)
                = IF x \in Wanted THEN Append(Selected(s, Wanted), x)
                  ELSE Selected(s, Wanted)
<1> DEFINE Op == Selecting(E, Wanted)
           a == Append(s, x)
<1>1. a \in Seq(E)
  OBVIOUS
<1>2. FoldType(Seq(E), E, Op, <<>>, s) /\ Selected(s, Wanted) = FoldOf(Op, <<>>, s)
        /\ Selected(s, Wanted) \in Seq(E)
  BY SelectingFold
<1>3. Selected(a, Wanted) = FoldOf(Op, <<>>, a)
  <2> HIDE DEF a
  <2> QED
    BY <1>1, SelectingFold
<1>4. FoldOf(Op, <<>>, a) = Op[<<FoldOf(Op, <<>>, s), x>>]
  <2> HIDE DEF Op
  <2> QED
    BY <1>2, FoldOfAppend
<1>5. PICK v \in Seq(E) : v = Selected(s, Wanted)
  BY <1>2
<1>6. Op[<<v, x>>] = IF x \in Wanted THEN Append(v, x) ELSE v
  BY DEF Selecting
<1> HIDE DEF Op, a
<1> QED
  BY <1>2, <1>3, <1>4, <1>5, <1>6 DEF a

LEMMA SelectedFacts ==
    ASSUME NEW E, NEW Wanted
    PROVE  /\ Selected(<<>>, Wanted) = <<>>
           /\ \A s \in Seq(E) : Selected(s, Wanted) \in Seq(E)
           /\ \A s \in Seq(E), x \in E :
                Selected(Append(s, x), Wanted)
                    = IF x \in Wanted THEN Append(Selected(s, Wanted), x)
                      ELSE Selected(s, Wanted)
<1>1. Selected(<<>>, Wanted) = <<>>
  <2>1. <<>> \in Seq(E)
    OBVIOUS
  <2>2. Selected(<<>>, Wanted) = FoldOf(Selecting(E, Wanted), <<>>, <<>>)
    BY <2>1, SelectedIsFold
  <2> QED
    BY <2>2, FoldOfEmpty
<1>2. \A s \in Seq(E) : Selected(s, Wanted) \in Seq(E)
  BY SelectingFold
<1>3. ASSUME NEW s \in Seq(E), NEW x \in E
      PROVE  Selected(Append(s, x), Wanted)
                = IF x \in Wanted THEN Append(Selected(s, Wanted), x)
                  ELSE Selected(s, Wanted)
  BY SelectedAppend
<1> QED
  BY <1>1, <1>2, <1>3

-------------------------------------------------------------------------------
(* Joining the members of a sequence of sequences.                         *)
Joining(E) == [p \in Seq(E) \X Seq(E) |-> p[1] \o p[2]]

LEMMA JoiningType ==
    ASSUME NEW E
    PROVE  /\ Joining(E) \in [Seq(E) \X Seq(E) -> Seq(E)]
           /\ \A a, b \in Seq(E) : Joining(E)[<<a, b>>] = a \o b
<1>1. \A a, b \in Seq(E) : a \o b \in Seq(E)
  OBVIOUS
<1> QED
  BY <1>1 DEF Joining

LEMMA FlattenIsFold ==
    ASSUME NEW E, NEW ss \in Seq(Seq(E))
    PROVE  FlattenSeq(ss) = FoldOf(Joining(E), <<>>, ss)
<1> DEFINE Op == Joining(E)
           Eq(f) == f = [i \in 1..Len(ss) |-> IF i = 1 THEN ss[i] ELSE f[i - 1] \o ss[i]]
           j == CHOOSE f : Eq(f)
<1>1. FoldType(Seq(E), Seq(E), Op, <<>>, ss)
  <2>1. Op \in [Seq(E) \X Seq(E) -> Seq(E)]
    BY JoiningType
  <2>2. <<>> \in Seq(E)
    OBVIOUS
  <2> HIDE DEF Op
  <2> QED
    BY <2>1, <2>2 DEF FoldType
<1>2. PICK g \in [0..Len(ss) -> Seq(E)] : IsTable(g, Op, <<>>, ss)
  <2> HIDE DEF Op
  <2> QED
    BY <1>1, FoldOfType
<1>3. FoldOf(Op, <<>>, ss) = g[Len(ss)]
  <2> HIDE DEF Op
  <2> QED
    BY <1>2, FoldOfTable
<1>4. ASSUME NEW i \in 1..Len(ss)
      PROVE  g[i] = g[i - 1] \o ss[i] /\ (i = 1 => g[i] = ss[i])
  <2>1. g[i] = Op[<<g[i - 1], ss[i]>>] /\ g[0] = <<>>
    <3> HIDE DEF Op
    <3> QED
      BY <1>2 DEF IsTable
  <2>2. g[i - 1] \in Seq(E) /\ ss[i] \in Seq(E)
    <3>1. i - 1 \in 0..Len(ss)
      OBVIOUS
    <3>2. g[i - 1] \in Seq(E)
      BY <3>1
    <3>3. PICK V : V = Seq(E)
      OBVIOUS
    <3>4. ss[i] \in V
      <4>1. ss \in Seq(V)
        BY <3>3
      <4> QED
        BY <4>1
    <3> QED
      BY <3>2, <3>3, <3>4
  <2>3. g[i] = g[i - 1] \o ss[i]
    <3>1. Op[<<g[i - 1], ss[i]>>] = g[i - 1] \o ss[i]
      BY <2>2, JoiningType
    <3> HIDE DEF Op
    <3> QED
      BY <2>1, <3>1
  <2>4. \A q \in Seq(E) : <<>> \o q = q
    OBVIOUS
  <2>5. ASSUME i = 1 PROVE g[i] = ss[i]
    <3>1. g[i - 1] = <<>>
      BY <2>1, <2>5
    <3> QED
      BY <2>2, <2>3, <2>4, <3>1
  <2> QED
    BY <2>3, <2>5
<1>5. Eq([i \in 1..Len(ss) |-> g[i]])
  <2> DEFINE f == [i \in 1..Len(ss) |-> g[i]]
  <2>1. ASSUME NEW i \in 1..Len(ss)
        PROVE  f[i] = IF i = 1 THEN ss[i] ELSE f[i - 1] \o ss[i]
    <3>1. CASE i = 1
      BY <3>1, <1>4
    <3>2. CASE i # 1
      <4>1. i - 1 \in 1..Len(ss)
        BY <3>2
      <4>2. f[i - 1] = g[i - 1] /\ f[i] = g[i]
        BY <4>1
      <4> HIDE DEF f
      <4> QED
        BY <3>2, <4>2, <1>4
    <3> QED
      BY <3>1, <3>2
  <2> QED
    BY <2>1
<1>6. Eq(j)
  <2> HIDE DEF Eq
  <2> QED
    BY <1>5
<1> DEFINE S == {k \in Nat : k + 1 <= Len(ss) => j[k + 1] = g[k + 1]}
<1>7. S = Nat
  <2>1. \A i \in 1..Len(ss) : j[i] = IF i = 1 THEN ss[i] ELSE j[i - 1] \o ss[i]
    BY <1>6
  <2> HIDE DEF j
  <2>2. 0 \in S
    <3>1. ASSUME 1 <= Len(ss) PROVE j[1] = g[1]
      <4>1. 1 \in 1..Len(ss)
        BY <3>1
      <4> QED
        BY <4>1, <2>1, <1>4
    <3> QED
      BY <3>1
  <2>3. ASSUME NEW k \in S PROVE k + 1 \in S
    <3> SUFFICES ASSUME k + 2 <= Len(ss) PROVE j[k + 2] = g[k + 2]
      OBVIOUS
    <3>1. k + 2 \in 1..Len(ss) /\ k + 2 # 1 /\ (k + 2) - 1 = k + 1 /\ k + 1 <= Len(ss)
      OBVIOUS
    <3>2. j[k + 2] = j[k + 1] \o ss[k + 2]
      BY <2>1, <3>1
    <3>3. g[k + 2] = g[k + 1] \o ss[k + 2]
      BY <1>4, <3>1
    <3>4. j[k + 1] = g[k + 1]
      BY <3>1
    <3> QED
      BY <3>2, <3>3, <3>4
  <2> HIDE DEF S
  <2> QED
    BY <2>2, <2>3, NaturalInduction DEF S
<1>8. CASE Len(ss) = 0
  <2>1. ss = <<>>
    BY <1>8
  <2>2. FlattenSeq(ss) = ss
    BY <1>8 DEF FlattenSeq
  <2> HIDE DEF Op
  <2> QED
    BY <2>1, <2>2, FoldOfEmpty DEF Op
<1>9. CASE Len(ss) # 0
  <2>1. FlattenSeq(ss) = j[Len(ss)]
    BY <1>9 DEF FlattenSeq
  <2>2. Len(ss) - 1 \in Nat /\ (Len(ss) - 1) + 1 = Len(ss)
    BY <1>9
  <2>3. j[Len(ss)] = g[Len(ss)]
    <3> HIDE DEF j
    <3>1. Len(ss) - 1 \in S
      BY <1>7, <2>2
    <3>2. j[(Len(ss) - 1) + 1] = g[(Len(ss) - 1) + 1]
      BY <2>2, <3>1
    <3> QED
      BY <2>2, <3>2
  <2> HIDE DEF Op, j
  <2> QED
    BY <1>3, <2>1, <2>3 DEF Op
<1> QED
  BY <1>8, <1>9

LEMMA FlattenFacts ==
    ASSUME NEW E
    PROVE  /\ FlattenSeq(<<>>) = <<>>
           /\ \A ss \in Seq(Seq(E)) : FlattenSeq(ss) \in Seq(E)
           /\ \A ss \in Seq(Seq(E)), x \in Seq(E) :
                FlattenSeq(Append(ss, x)) = FlattenSeq(ss) \o x
<1> DEFINE Op == Joining(E)
<1>1. \A ss \in Seq(Seq(E)) : FoldType(Seq(E), Seq(E), Op, <<>>, ss)
  <2>1. Op \in [Seq(E) \X Seq(E) -> Seq(E)]
    BY JoiningType
  <2>2. <<>> \in Seq(E)
    OBVIOUS
  <2> HIDE DEF Op
  <2> QED
    BY <2>1, <2>2 DEF FoldType
<1>2. FlattenSeq(<<>>) = <<>>
  BY DEF FlattenSeq
<1>3. \A ss \in Seq(Seq(E)) : FlattenSeq(ss) = FoldOf(Op, <<>>, ss)
  BY FlattenIsFold
<1>4. \A ss \in Seq(Seq(E)) : FoldOf(Op, <<>>, ss) \in Seq(E)
  <2> HIDE DEF Op
  <2> QED
    BY <1>1, FoldOfType
<1>5. ASSUME NEW ss \in Seq(Seq(E)), NEW x \in Seq(E)
      PROVE  FlattenSeq(Append(ss, x)) = FlattenSeq(ss) \o x
  <2>1. Append(ss, x) \in Seq(Seq(E))
    OBVIOUS
  <2>2. FoldOf(Op, <<>>, Append(ss, x)) = Op[<<FoldOf(Op, <<>>, ss), x>>]
    <3> HIDE DEF Op
    <3> QED
      BY <1>1, FoldOfAppend
  <2>3. Op[<<FoldOf(Op, <<>>, ss), x>>] = FoldOf(Op, <<>>, ss) \o x
    BY <1>4, JoiningType
  <2> HIDE DEF Op
  <2> QED
    BY <1>3, <2>1, <2>2, <2>3
<1> HIDE DEF Op
<1> QED
  BY <1>2, <1>3, <1>4, <1>5

(* A sequence of sequences grows by a member: at its end, or at the end of *)
(* its last sequence.                                                      *)
LEMMA AppendIs ==
    ASSUME NEW V, NEW s \in Seq(V), NEW t \in Seq(V), NEW x \in V,
           Len(t) = Len(s) + 1, \A i \in 1..Len(s) : t[i] = s[i], t[Len(s) + 1] = x
    PROVE  t = Append(s, x)
<1> DEFINE a == Append(s, x)
<1>1. /\ a \in Seq(V) /\ Len(a) = Len(s) + 1 /\ a[Len(s) + 1] = x /\ Len(s) \in Nat
      /\ \A i \in 1..Len(s) : a[i] = s[i]
  BY AppendFacts
<1> HIDE DEF a
<1>2. \A i \in 1..(Len(s) + 1) : t[i] = a[i]
  BY <1>1
<1>3. t = a
  BY <1>1, <1>2, SeqEqual
<1> QED
  BY <1>3 DEF a

OnlyLastDiffers(s, t, n) ==
    n > 0 /\ Len(s) = n /\ Len(t) = n /\ \A i \in 1..n : i # n => t[i] = s[i]

ShareFront(V, s, t, n) ==
    \E f \in Seq(V) : s = Append(f, s[n]) /\ t = Append(f, t[n])

LEMMA LastReplaced ==
    ASSUME NEW V, NEW s \in Seq(V), NEW t \in Seq(V), NEW n \in Nat, OnlyLastDiffers(s, t, n)
    PROVE  ShareFront(V, s, t, n)
<1> USE DEF OnlyLastDiffers, ShareFront
<1> DEFINE f == SubSeq(s, 1, n - 1)
           g == SubSeq(t, 1, n - 1)
<1>1. n - 1 \in Nat /\ (n - 1) + 1 = n
  OBVIOUS
<1>2. f \in Seq(V) /\ Len(f) = n - 1 /\ s = Append(f, s[n])
  BY <1>1, LastApart
<1>3. g \in Seq(V) /\ Len(g) = n - 1 /\ t = Append(g, t[n])
  BY <1>1, LastApart
<1>4. /\ \A i \in 1..(n - 1) : f[i] = s[i]
      /\ \A i \in 1..(n - 1) : g[i] = t[i]
  <2>1. n - 1 \in 1..Len(s) \/ n - 1 = 0
    OBVIOUS
  <2> QED
    BY <2>1, SubSeqProperties
<1> HIDE DEF f, g
<1>5. f = g
  <2>1. \A i \in 1..(n - 1) : f[i] = g[i]
    BY <1>4
  <2> QED
    BY <1>2, <1>3, <2>1, SeqEqual
<1> QED
  BY <1>2, <1>3, <1>5

LEMMA FlattenNew ==
    ASSUME NEW E, NEW ss \in Seq(Seq(E)), NEW tt \in Seq(Seq(E)), NEW x \in Seq(E),
           Len(tt) = Len(ss) + 1, \A i \in 1..Len(ss) : tt[i] = ss[i], tt[Len(ss) + 1] = x
    PROVE  tt = Append(ss, x) /\ FlattenSeq(tt) = FlattenSeq(ss) \o x
<1>1. tt = Append(ss, x)
  BY AppendIs
<1> QED
  BY <1>1, FlattenFacts

LEMMA AppendLast ==
    ASSUME NEW E, NEW s \in Seq(E), NEW t \in Seq(E), NEW x \in E
    PROVE  s \o Append(t, x) = Append(s \o t, x)
<1>1. Append(t, x) \in Seq(E) /\ s \o t \in Seq(E) /\ Len(s) \in Nat /\ Len(t) \in Nat
  OBVIOUS
<1> DEFINE a == s \o Append(t, x)
           b == Append(s \o t, x)
<1>2. a \in Seq(E) /\ Len(a) = Len(s) + Len(t) + 1
  BY <1>1
<1>3. b \in Seq(E) /\ Len(b) = Len(s) + Len(t) + 1
  BY <1>1
<1>4. \A i \in 1..Len(a) : a[i] = b[i]
  BY <1>1
<1> HIDE DEF a, b
<1>5. a = b
  BY <1>2, <1>3, <1>4, SeqEqual
<1> QED
  BY <1>5 DEF a, b

LEMMA FlattenEnd ==
    ASSUME NEW E, NEW f \in Seq(Seq(E)), NEW b \in Seq(E), NEW x \in E
    PROVE  FlattenSeq(Append(f, Append(b, x))) = Append(FlattenSeq(Append(f, b)), x)
<1>1. Append(b, x) \in Seq(E)
  OBVIOUS
<1>2. FlattenSeq(Append(f, b)) = FlattenSeq(f) \o b /\ FlattenSeq(f) \in Seq(E)
  BY FlattenFacts
<1>3. FlattenSeq(Append(f, Append(b, x))) = FlattenSeq(f) \o Append(b, x)
  BY <1>1, FlattenFacts
<1>4. \A v \in Seq(E) : v \o Append(b, x) = Append(v \o b, x)
  BY AppendLast
<1> QED
  BY <1>2, <1>3, <1>4

LEMMA FlattenLonger ==
    ASSUME NEW E, NEW ss \in Seq(Seq(E)), NEW tt \in Seq(Seq(E)), NEW n \in Nat,
           OnlyLastDiffers(ss, tt, n), NEW x \in E, tt[n] = Append(ss[n], x)
    PROVE  FlattenSeq(tt) = Append(FlattenSeq(ss), x)
<1>1. PICK f \in Seq(Seq(E)) : ss = Append(f, ss[n]) /\ tt = Append(f, tt[n])
  <2>1. ShareFront(Seq(E), ss, tt, n)
    BY LastReplaced
  <2> QED
    BY <2>1 DEF ShareFront
<1>2. ss[n] \in Seq(E)
  <2>1. PICK V : V = Seq(E)
    OBVIOUS
  <2>2. ss \in Seq(V) /\ n \in 1..Len(ss)
    BY <2>1 DEF OnlyLastDiffers
  <2>3. ss[n] \in V
    BY <2>2
  <2> QED
    BY <2>1, <2>3
<1>3. PICK b \in Seq(E) : b = ss[n]
  BY <1>2
<1>4. FlattenSeq(Append(f, Append(b, x))) = Append(FlattenSeq(Append(f, b)), x)
  BY FlattenEnd
<1> QED
  BY <1>1, <1>3, <1>4

(* Selecting from sequences that follow each other, and from one that has  *)
(* only wanted members.                                                    *)
LEMMA AppendToJoined ==
    ASSUME NEW E, NEW s \in Seq(E), NEW t \in Seq(E), NEW x \in E
    PROVE  /\ s \o t \in Seq(E) /\ s \o <<>> = s
           /\ s \o Append(t, x) = Append(s \o t, x)
  BY AppendLast

LEMMA SelectedJoined ==
    ASSUME NEW E, NEW Wanted, NEW s \in Seq(E), NEW t \in Seq(E)
    PROVE  Selected(s \o t, Wanted) = Selected(s, Wanted) \o Selected(t, Wanted)
<1> DEFINE S == {u \in Seq(E) : Selected(s \o u, Wanted) = Selected(s, Wanted) \o Selected(u, Wanted)}
<1>1. /\ Selected(<<>>, Wanted) = <<>>
      /\ \A u \in Seq(E) : Selected(u, Wanted) \in Seq(E)
  BY SelectedFacts
<1>2. PICK v \in Seq(E) : v = Selected(s, Wanted)
  BY <1>1
<1>3. <<>> \in S
  <2>1. s \o <<>> = s /\ v \o <<>> = v /\ <<>> \in Seq(E)
    OBVIOUS
  <2> QED
    BY <1>1, <1>2, <2>1
<1>4. ASSUME NEW u \in S, NEW x \in E PROVE Append(u, x) \in S
  <2>1. u \in Seq(E) /\ Append(u, x) \in Seq(E)
    OBVIOUS
  <2>2. s \o u \in Seq(E) /\ s \o Append(u, x) = Append(s \o u, x)
    BY <2>1, AppendToJoined
  <2>3. PICK w \in Seq(E) : w = Selected(u, Wanted)
    BY <1>1, <2>1
  <2>4. Selected(s \o u, Wanted) = v \o w
    BY <1>2, <2>3
  <2>5. Selected(Append(s \o u, x), Wanted)
            = IF x \in Wanted THEN Append(v \o w, x) ELSE v \o w
    <3>1. PICK su \in Seq(E) : su = s \o u
      BY <2>2
    <3>2. Selected(Append(su, x), Wanted)
            = IF x \in Wanted THEN Append(Selected(su, Wanted), x) ELSE Selected(su, Wanted)
      BY SelectedAppend
    <3> QED
      BY <2>4, <3>1, <3>2
  <2>6. Selected(Append(u, x), Wanted) = IF x \in Wanted THEN Append(w, x) ELSE w
    BY <2>1, <2>3, SelectedAppend
  <2>7. v \o Append(w, x) = Append(v \o w, x)
    BY AppendToJoined
  <2>8. Selected(s \o Append(u, x), Wanted) = v \o Selected(Append(u, x), Wanted)
    BY <2>2, <2>5, <2>6, <2>7
  <2> QED
    BY <1>2, <2>1, <2>8
<1>5. S = Seq(E)
  <2>1. S \in SUBSET Seq(E)
    OBVIOUS
  <2> HIDE DEF S
  <2> QED
    BY <1>3, <1>4, <2>1, SequenceInduction
<1> QED
  BY <1>5

LEMMA SelectedAll ==
    ASSUME NEW E, NEW Wanted, NEW s \in Seq(E), \A i \in 1..Len(s) : s[i] \in Wanted
    PROVE  Selected(s, Wanted) = s
<1> DEFINE All(u) == (\A i \in 1..Len(u) : u[i] \in Wanted) => Selected(u, Wanted) = u
           S == {u \in Seq(E) : All(u)}
<1>1. <<>> \in S
  BY SelectedFacts
<1>2. ASSUME NEW u \in S, NEW x \in E PROVE Append(u, x) \in S
  <2>1. u \in Seq(E) /\ All(u)
    OBVIOUS
  <2>2. /\ Append(u, x) \in Seq(E) /\ Len(Append(u, x)) = Len(u) + 1 /\ Len(u) \in Nat
        /\ Append(u, x)[Len(u) + 1] = x
        /\ \A i \in 1..Len(u) : Append(u, x)[i] = u[i]
    BY <2>1, AppendFacts
  <2>3. ASSUME \A i \in 1..Len(Append(u, x)) : Append(u, x)[i] \in Wanted
        PROVE  Selected(Append(u, x), Wanted) = Append(u, x)
    <3>1. x \in Wanted /\ \A i \in 1..Len(u) : u[i] \in Wanted
      <4>1. Len(u) + 1 \in 1..Len(Append(u, x)) /\ \A i \in 1..Len(u) : i \in 1..Len(Append(u, x))
        BY <2>2
      <4> QED
        BY <2>2, <2>3, <4>1
    <3>2. Selected(u, Wanted) = u
      BY <2>1, <3>1
    <3> QED
      BY <2>1, <3>1, <3>2, SelectedAppend
  <2> QED
    BY <2>2, <2>3
<1>3. S = Seq(E)
  <2>1. S \in SUBSET Seq(E)
    OBVIOUS
  <2> HIDE DEF S
  <2> QED
    BY <1>1, <1>2, <2>1, SequenceInduction
<1> QED
  BY <1>3

LEMMA SelectedShorter ==
    ASSUME NEW E, NEW Wanted, NEW s \in Seq(E)
    PROVE  Len(Selected(s, Wanted)) <= Len(s)
<1> DEFINE S == {u \in Seq(E) : Len(Selected(u, Wanted)) <= Len(u)}
<1>1. <<>> \in S
  BY SelectedFacts
<1>2. ASSUME NEW u \in S, NEW x \in E PROVE Append(u, x) \in S
  <2>1. PICK w \in Seq(E) : w = Selected(u, Wanted)
    BY SelectedFacts
  <2>2. Selected(Append(u, x), Wanted) = IF x \in Wanted THEN Append(w, x) ELSE w
    BY <2>1, SelectedAppend
  <2>3. Len(Append(w, x)) = Len(w) + 1 /\ Len(Append(u, x)) = Len(u) + 1
    OBVIOUS
  <2>4. Len(w) <= Len(u) /\ Len(w) \in Nat /\ Len(u) \in Nat /\ Append(u, x) \in Seq(E)
    BY <2>1
  <2> QED
    BY <2>2, <2>3, <2>4
<1>3. S = Seq(E)
  <2>1. S \in SUBSET Seq(E)
    OBVIOUS
  <2> HIDE DEF S
  <2> QED
    BY <1>1, <1>2, <2>1, SequenceInduction
<1> QED
  BY <1>3

(* Flattened sequences.  First the facts with a name for the set of the    *)
(* members.                                                                *)
LEMMA FlattenOver ==
    ASSUME NEW E, NEW V, V = Seq(E)
    PROVE  /\ FlattenSeq(<<>>) = <<>>
           /\ \A ss \in Seq(V) : FlattenSeq(ss) \in Seq(E)
           /\ \A ss \in Seq(V), x \in V : FlattenSeq(Append(ss, x)) = FlattenSeq(ss) \o x
  BY FlattenFacts

LEMMA FlattenOfEmpty ==
    ASSUME NEW E, NEW V, V = Seq(E), NEW ss \in Seq(V), \A i \in 1..Len(ss) : ss[i] = <<>>
    PROVE  FlattenSeq(ss) = <<>>
<1> DEFINE P(f) == (\A i \in 1..Len(f) : f[i] = <<>>) => FlattenSeq(f) = <<>>
           S == {f \in Seq(V) : P(f)}
<1>1. <<>> \in S
  BY FlattenOver
<1>2. ASSUME NEW f \in S, NEW x \in V PROVE Append(f, x) \in S
  <2>1. f \in Seq(V) /\ P(f)
    OBVIOUS
  <2>2. /\ Append(f, x) \in Seq(V) /\ Len(Append(f, x)) = Len(f) + 1 /\ Len(f) \in Nat
        /\ Append(f, x)[Len(f) + 1] = x
        /\ \A i \in 1..Len(f) : Append(f, x)[i] = f[i]
    BY <2>1, AppendFacts
  <2>3. ASSUME \A i \in 1..Len(Append(f, x)) : Append(f, x)[i] = <<>>
        PROVE  FlattenSeq(Append(f, x)) = <<>>
    <3>1. x = <<>> /\ \A i \in 1..Len(f) : f[i] = <<>>
      <4>1. Len(f) + 1 \in 1..Len(Append(f, x)) /\ \A i \in 1..Len(f) : i \in 1..Len(Append(f, x))
        BY <2>2
      <4> QED
        BY <2>2, <2>3, <4>1
    <3>2. FlattenSeq(f) = <<>>
      BY <2>1, <3>1
    <3>3. FlattenSeq(Append(f, x)) = FlattenSeq(f) \o x
      BY <2>1, FlattenOver
    <3> QED
      BY <3>1, <3>2, <3>3
  <2> QED
    BY <2>2, <2>3
<1>3. S = Seq(V)
  <2>1. S \in SUBSET Seq(V)
    OBVIOUS
  <2> HIDE DEF S
  <2> QED
    BY <1>1, <1>2, <2>1, SequenceInduction
<1> QED
  BY <1>3

(* The places of the members in the flattened sequence, in their order.    *)
Placed(ss, all) ==
    \A i \in 1..Len(ss) : \A p \in 1..Len(ss[i]) : \E a \in 1..Len(all) : all[a] = ss[i][p]

PlacesOrdered(ss, all) ==
    \A i, j \in 1..Len(ss) : \A p \in 1..Len(ss[i]), q \in 1..Len(ss[j]) :
        i < j \/ (i = j /\ p < q) =>
            \E a, b \in 1..Len(all) : a < b /\ all[a] = ss[i][p] /\ all[b] = ss[j][q]

LEMMA JoinedPlaces ==
    ASSUME NEW E, NEW s \in Seq(E), NEW x \in Seq(E), NEW c, c = s \o x
    PROVE  /\ Len(c) = Len(s) + Len(x) /\ Len(s) \in Nat /\ Len(x) \in Nat
           /\ \A a \in 1..Len(s) : a \in 1..Len(c) /\ c[a] = s[a]
           /\ \A q \in 1..Len(x) : Len(s) + q \in 1..Len(c) /\ c[Len(s) + q] = x[q]
  OBVIOUS

LEMMA FlattenPlaces ==
    ASSUME NEW E, NEW V, V = Seq(E), NEW ss \in Seq(V)
    PROVE  Placed(ss, FlattenSeq(ss)) /\ PlacesOrdered(ss, FlattenSeq(ss))
<1> DEFINE S == {f \in Seq(V) : Placed(f, FlattenSeq(f)) /\ PlacesOrdered(f, FlattenSeq(f))}
<1>1. <<>> \in S
  BY DEF Placed, PlacesOrdered
<1>2. ASSUME NEW f \in S, NEW x \in V PROVE Append(f, x) \in S
  <2>1. f \in Seq(V) /\ Placed(f, FlattenSeq(f)) /\ PlacesOrdered(f, FlattenSeq(f))
    OBVIOUS
  <2>2. PICK g : g = Append(f, x)
    OBVIOUS
  <2>3. PICK n : n = Len(f)
    OBVIOUS
  <2>4. /\ g \in Seq(V) /\ Len(g) = n + 1 /\ n \in Nat /\ g[n + 1] = x
        /\ \A i \in 1..n : g[i] = f[i]
    BY <2>1, <2>2, <2>3, AppendFacts
  <2>5. PICK s \in Seq(E) : s = FlattenSeq(f)
    BY <2>1, FlattenOver
  <2>6. PICK c : c = FlattenSeq(g) /\ c = s \o x
    <3>1. FlattenSeq(Append(f, x)) = FlattenSeq(f) \o x
      BY <2>1, FlattenOver
    <3>2. FlattenSeq(g) = s \o x
      BY <2>2, <2>5, <3>1
    <3> QED
      BY <3>2
  <2>7. /\ Len(c) = Len(s) + Len(x) /\ Len(s) \in Nat /\ Len(x) \in Nat
        /\ \A a \in 1..Len(s) : a \in 1..Len(c) /\ c[a] = s[a]
        /\ \A q \in 1..Len(x) : Len(s) + q \in 1..Len(c) /\ c[Len(s) + q] = x[q]
    BY <2>6, JoinedPlaces
  <2>8. ASSUME NEW i \in 1..n, NEW p \in 1..Len(f[i])
        PROVE  \E a \in 1..Len(s) : a \in 1..Len(c) /\ c[a] = f[i][p]
    <3>1. PICK a \in 1..Len(s) : s[a] = f[i][p]
      BY <2>1, <2>3, <2>5 DEF Placed
    <3> QED
      BY <2>7, <3>1
  <2>9. Placed(g, c)
    <3> SUFFICES ASSUME NEW i \in 1..(n + 1), NEW p \in 1..Len(g[i])
                 PROVE  \E a \in 1..Len(c) : c[a] = g[i][p]
      BY <2>4 DEF Placed
    <3>1. CASE i = n + 1
      <4>1. g[i] = x
        BY <2>4, <3>1
      <4> QED
        BY <2>7, <4>1
    <3>2. CASE i # n + 1
      <4>1. i \in 1..n /\ g[i] = f[i]
        BY <2>4, <3>2
      <4> QED
        BY <2>8, <4>1
    <3> QED
      BY <3>1, <3>2
  <2>10. PlacesOrdered(g, c)
    <3> SUFFICES \A i, j \in 1..Len(g) : \A p \in 1..Len(g[i]), q \in 1..Len(g[j]) :
                    i < j \/ (i = j /\ p < q) =>
                        \E a, b \in 1..Len(c) : a < b /\ c[a] = g[i][p] /\ c[b] = g[j][q]
      BY DEF PlacesOrdered
    <3> TAKE i, j \in 1..Len(g)
    <3> TAKE p \in 1..Len(g[i]), q \in 1..Len(g[j])
    <3> HAVE i < j \/ (i = j /\ p < q)
    <3>1. CASE j # n + 1
      <4>1. j \in 1..n /\ i \in 1..n /\ g[i] = f[i] /\ g[j] = f[j]
        BY <2>4, <3>1
      <4>2. \E a, b \in 1..Len(s) : a < b /\ s[a] = f[i][p] /\ s[b] = f[j][q]
        <5>1. PlacesOrdered(f, s)
          BY <2>1, <2>5
        <5>2. i \in 1..Len(f) /\ j \in 1..Len(f) /\ p \in 1..Len(f[i]) /\ q \in 1..Len(f[j])
          BY <2>3, <4>1
        <5> QED
          BY <5>1, <5>2 DEF PlacesOrdered
      <4> QED
        BY <2>7, <4>1, <4>2
    <3>2. CASE j = n + 1 /\ i # n + 1
      <4>1. i \in 1..n /\ g[i] = f[i] /\ g[j] = x
        BY <2>4, <3>2
      <4>2. PICK a \in 1..Len(s) : a \in 1..Len(c) /\ c[a] = f[i][p]
        BY <2>8, <4>1
      <4>3. Len(s) + q \in 1..Len(c) /\ c[Len(s) + q] = x[q] /\ a < Len(s) + q
        BY <2>7, <4>1, <4>2
      <4> QED
        BY <4>1, <4>2, <4>3
    <3>3. CASE j = n + 1 /\ i = n + 1
      <4>1. g[i] = x /\ g[j] = x /\ p < q
        BY <2>4, <3>3
      <4>2. /\ Len(s) + p \in 1..Len(c) /\ Len(s) + q \in 1..Len(c)
            /\ c[Len(s) + p] = x[p] /\ c[Len(s) + q] = x[q] /\ Len(s) + p < Len(s) + q
        BY <2>7, <4>1
      <4> QED
        BY <4>1, <4>2
    <3> QED
      BY <3>1, <3>2, <3>3
  <2> QED
    BY <2>2, <2>4, <2>6, <2>9, <2>10
<1>3. S = Seq(V)
  <2>1. S \in SUBSET Seq(V)
    OBVIOUS
  <2> HIDE DEF S
  <2> QED
    BY <1>1, <1>2, <2>1, SequenceInduction
<1> QED
  BY <1>3

(* Taking the first member of the flattened sequence.                      *)
LEMMA JoinAssociates ==
    ASSUME NEW E, NEW r \in Seq(E), NEW s \in Seq(E), NEW t \in Seq(E)
    PROVE  (r \o s) \o t = r \o (s \o t)
<1> DEFINE a == (r \o s) \o t
           b == r \o (s \o t)
<1>1. r \o s \in Seq(E) /\ s \o t \in Seq(E) /\ Len(r) \in Nat /\ Len(s) \in Nat /\ Len(t) \in Nat
  OBVIOUS
<1>2. a \in Seq(E) /\ Len(a) = Len(r) + Len(s) + Len(t)
  BY <1>1
<1>3. b \in Seq(E) /\ Len(b) = Len(r) + Len(s) + Len(t)
  BY <1>1
<1>4. \A i \in 1..Len(a) : a[i] = b[i]
  BY <1>1
<1> HIDE DEF a, b
<1>5. a = b
  BY <1>2, <1>3, <1>4, SeqEqual
<1> QED
  BY <1>5 DEF a, b

LEMMA FirstApart ==
    ASSUME NEW E, NEW s \in Seq(E), s # <<>>
    PROVE  Head(s) \in E /\ Tail(s) \in Seq(E) /\ s = <<Head(s)>> \o Tail(s)
<1>1. Head(s) \in E /\ Tail(s) \in Seq(E) /\ Len(Tail(s)) = Len(s) - 1 /\ Len(s) \in Nat \ {0}
  OBVIOUS
<1> DEFINE a == <<Head(s)>> \o Tail(s)
<1>2. a \in Seq(E) /\ Len(a) = Len(s)
  BY <1>1
<1>3. \A i \in 1..Len(s) : a[i] = s[i]
  BY <1>1
<1> HIDE DEF a
<1>4. a = s
  BY <1>2, <1>3, SeqEqual
<1> QED
  BY <1>1, <1>4 DEF a

(* A sequence that is one member longer than another.                      *)
EndsIn(t, u, y) ==
    /\ t = Append(u, y)
    /\ Len(u) \in Nat /\ Len(t) = Len(u) + 1
    /\ t[Len(u) + 1] = y
    /\ \A i \in 1..Len(u) : t[i] = u[i]

LEMMA EndsInAppended ==
    ASSUME NEW V, NEW f \in Seq(V), NEW x \in V
    PROVE  \E g \in Seq(V) : EndsIn(g, f, x)
<1>1. EndsIn(Append(f, x), f, x) /\ Append(f, x) \in Seq(V)
  BY AppendFacts DEF EndsIn
<1> QED
  BY <1>1

LEMMA EndsInLast ==
    ASSUME NEW V, NEW t \in Seq(V), t # <<>>
    PROVE  \E u \in Seq(V), y \in V : EndsIn(t, u, y)
<1>1. PICK n \in Nat : Len(t) = n + 1
  <2>1. Len(t) \in Nat /\ Len(t) # 0
    BY EmptySeq
  <2>2. Len(t) - 1 \in Nat /\ Len(t) = (Len(t) - 1) + 1
    BY <2>1
  <2> QED
    BY <2>2
<1>2. PICK u, y : u = SubSeq(t, 1, n) /\ y = t[n + 1]
  OBVIOUS
<1>3. u \in Seq(V) /\ Len(u) = n /\ y \in V /\ t = Append(u, y)
  BY <1>1, <1>2, LastApart
<1>4. EndsIn(t, u, y)
  BY <1>3, AppendFacts DEF EndsIn
<1> QED
  BY <1>3, <1>4

SequencesOf(V, E) == V = Seq(E)

LEMMA FlattenAppend ==
    ASSUME NEW E, NEW V, SequencesOf(V, E), NEW f \in Seq(V), NEW x \in V, NEW g, EndsIn(g, f, x)
    PROVE  FlattenSeq(g) = FlattenSeq(f) \o x /\ FlattenSeq(f) \in Seq(E) /\ x \in Seq(E)
<1>1. FlattenSeq(Append(f, x)) = FlattenSeq(f) \o x /\ FlattenSeq(f) \in Seq(E)
  BY FlattenOver DEF SequencesOf
<1>2. x \in Seq(E)
  BY DEF SequencesOf
<1> QED
  BY <1>1, <1>2 DEF EndsIn

TakesFirst(ss, tt, k) ==
    /\ k \in 1..Len(ss) /\ Len(tt) = Len(ss)
    /\ ss[k] # <<>> /\ tt[k] = Tail(ss[k])
    /\ \A i \in 1..Len(ss) : (i < k => ss[i] = <<>>) /\ (i # k => tt[i] = ss[i])

FlattensTaken(V, f) ==
    \A j \in Nat, t \in Seq(V) :
        TakesFirst(f, t, j) => FlattenSeq(f) = <<Head(f[j])>> \o FlattenSeq(t)

LEMMA TakesFirstBefore ==
    ASSUME NEW V, NEW f \in Seq(V), NEW u \in Seq(V), NEW x \in V, NEW y \in V,
           NEW g, NEW t, EndsIn(g, f, x), EndsIn(t, u, y), NEW j, TakesFirst(g, t, j)
    PROVE  \/ /\ x # <<>> /\ y = Tail(x) /\ g[j] = x
              /\ \A i \in 1..Len(f) : f[i] = <<>>
              /\ \A i \in 1..Len(u) : u[i] = <<>>
           \/ y = x /\ TakesFirst(f, u, j) /\ g[j] = f[j]
<1>1. PICK n \in Nat : n = Len(f)
  OBVIOUS
<1>2. /\ Len(g) = n + 1 /\ g[n + 1] = x /\ \A i \in 1..n : g[i] = f[i]
      /\ Len(u) = n /\ Len(t) = n + 1 /\ t[n + 1] = y /\ \A i \in 1..n : t[i] = u[i]
  BY <1>1 DEF EndsIn, TakesFirst
<1>4. /\ j \in 1..(n + 1) /\ g[j] # <<>> /\ t[j] = Tail(g[j])
      /\ \A i \in 1..(n + 1) : (i < j => g[i] = <<>>) /\ (i # j => t[i] = g[i])
  BY <1>2 DEF TakesFirst
<1>5. CASE j = n + 1
  <2>1. \A i \in 1..n : i \in 1..(n + 1) /\ i < j /\ i # j
    BY <1>5
  <2> QED
    BY <1>1, <1>2, <1>4, <1>5, <2>1
<1>6. CASE j # n + 1
  <2>1. j \in 1..n /\ n + 1 \in 1..(n + 1)
    BY <1>4, <1>6
  <2>2. y = x /\ g[j] = f[j] /\ t[j] = u[j]
    BY <1>2, <1>4, <1>6, <2>1
  <2>3. \A i \in 1..n : (i < j => f[i] = <<>>) /\ (i # j => u[i] = f[i])
    <3> TAKE i \in 1..n
    <3>1. i \in 1..(n + 1)
      OBVIOUS
    <3> QED
      BY <1>2, <1>4, <3>1
  <2>4. TakesFirst(f, u, j)
    BY <1>1, <1>2, <1>4, <2>1, <2>2, <2>3 DEF TakesFirst
  <2> QED
    BY <2>2, <2>4
<1> QED
  BY <1>5, <1>6

(* The members but the first, when the first is taken.                     *)
LEMMA JoinTaken ==
    ASSUME NEW E, NEW a \in E, NEW v \in Seq(E), NEW x \in Seq(E)
    PROVE  (<<a>> \o v) \o x = <<a>> \o (v \o x)
<1>0. <<a>> \in Seq(E)
  OBVIOUS
<1>1. PICK h \in Seq(E) : h = <<a>>
  BY <1>0
<1> QED
  BY <1>1, JoinAssociates

LEMMA FlattensTakenStep ==
    ASSUME NEW E, NEW V, SequencesOf(V, E), NEW f \in Seq(V), NEW x \in V, FlattensTaken(V, f)
    PROVE  FlattensTaken(V, Append(f, x))
<1>1. PICK g \in Seq(V) : EndsIn(g, f, x)
  BY EndsInAppended
<1>2. ASSUME NEW j \in Nat, NEW t \in Seq(V), TakesFirst(g, t, j)
      PROVE  FlattenSeq(g) = <<Head(g[j])>> \o FlattenSeq(t)
  <2>1. t # <<>>
    BY <1>2, EmptySeq DEF TakesFirst
  <2>2. PICK u \in Seq(V), y \in V : EndsIn(t, u, y)
    BY <2>1, EndsInLast
  <2>4. FlattenSeq(g) = FlattenSeq(f) \o x /\ FlattenSeq(f) \in Seq(E) /\ x \in Seq(E)
    BY <1>1, FlattenAppend
  <2>5. FlattenSeq(t) = FlattenSeq(u) \o y /\ FlattenSeq(u) \in Seq(E) /\ y \in Seq(E)
    BY <2>2, FlattenAppend
  <2>6. CASE /\ x # <<>> /\ y = Tail(x) /\ g[j] = x
             /\ \A i \in 1..Len(f) : f[i] = <<>>
             /\ \A i \in 1..Len(u) : u[i] = <<>>
    <3>1. FlattenSeq(f) = <<>>
      BY <2>6, FlattenOfEmpty DEF SequencesOf
    <3>2. FlattenSeq(u) = <<>>
      BY <2>6, FlattenOfEmpty DEF SequencesOf
    <3>3. x = <<Head(x)>> \o Tail(x)
      BY <2>4, <2>6, FirstApart
    <3>4. \A z \in Seq(E) : <<>> \o z = z
      OBVIOUS
    <3>5. FlattenSeq(g) = x /\ FlattenSeq(t) = y
      BY <2>4, <2>5, <3>1, <3>2, <3>4
    <3> QED
      BY <2>6, <3>3, <3>5
  <2>7. CASE y = x /\ TakesFirst(f, u, j) /\ g[j] = f[j]
    <3>1. FlattenSeq(f) = <<Head(f[j])>> \o FlattenSeq(u)
      BY <2>7 DEF FlattensTaken
    <3>2. f[j] \in Seq(E) /\ f[j] # <<>>
      BY <2>7 DEF SequencesOf, TakesFirst
    <3>3. Head(f[j]) \in E
      BY <3>2, FirstApart
    <3>4. PICK a \in E, v \in Seq(E) : a = Head(f[j]) /\ v = FlattenSeq(u)
      BY <2>5, <3>3
    <3>5. FlattenSeq(f) = <<a>> \o v
      BY <3>1, <3>4
    <3>6. x \in Seq(E)
      BY <2>4
    <3>7. (<<a>> \o v) \o x = <<a>> \o (v \o x)
      BY <3>6, JoinTaken
    <3> QED
      BY <2>4, <2>5, <2>7, <3>4, <3>5, <3>7
  <2> QED
    BY <1>1, <1>2, <2>2, <2>6, <2>7, TakesFirstBefore
<1>3. g = Append(f, x)
  BY <1>1 DEF EndsIn
<1> QED
  BY <1>2, <1>3 DEF FlattensTaken

LEMMA FlattenTakes ==
    ASSUME NEW E, NEW V, SequencesOf(V, E), NEW ss \in Seq(V), NEW tt \in Seq(V), NEW k,
           TakesFirst(ss, tt, k)
    PROVE  FlattenSeq(ss) = <<Head(ss[k])>> \o FlattenSeq(tt)
<1> DEFINE S == {f \in Seq(V) : FlattensTaken(V, f)}
<1>1. <<>> \in S
  BY DEF TakesFirst, FlattensTaken
<1>2. ASSUME NEW f \in S, NEW x \in V PROVE Append(f, x) \in S
  <2>1. f \in Seq(V) /\ FlattensTaken(V, f)
    OBVIOUS
  <2>2. FlattensTaken(V, Append(f, x)) /\ Append(f, x) \in Seq(V)
    BY <2>1, FlattensTakenStep
  <2> QED
    BY <2>2
<1>3. S \in SUBSET Seq(V)
  OBVIOUS
<1>4. S = Seq(V)
  <2> HIDE DEF S
  <2> QED
    BY <1>1, <1>2, <1>3, SequenceInduction
<1>5. FlattensTaken(V, ss) /\ k \in Nat
  BY <1>4 DEF TakesFirst
<1> QED
  BY <1>5 DEF FlattensTaken

(* Selecting from every sequence selects from the flattened one.           *)
SelectsEach(V, Wanted, f) ==
    \A t \in Seq(V) :
        Len(t) = Len(f) /\ (\A i \in 1..Len(f) : t[i] = Selected(f[i], Wanted))
        => FlattenSeq(t) = Selected(FlattenSeq(f), Wanted)

LEMMA SelectsEachStep ==
    ASSUME NEW E, NEW V, SequencesOf(V, E), NEW Wanted, NEW f \in Seq(V), NEW x \in V,
           SelectsEach(V, Wanted, f)
    PROVE  SelectsEach(V, Wanted, Append(f, x))
<1>1. PICK g \in Seq(V) : EndsIn(g, f, x)
  BY EndsInAppended
<1>2. ASSUME NEW t \in Seq(V), Len(t) = Len(g),
             \A i \in 1..Len(g) : t[i] = Selected(g[i], Wanted)
      PROVE  FlattenSeq(t) = Selected(FlattenSeq(g), Wanted)
  <2>1. t # <<>>
    BY <1>1, <1>2, EmptySeq DEF EndsIn
  <2>2. PICK u \in Seq(V), y \in V : EndsIn(t, u, y)
    BY <2>1, EndsInLast
  <2>3. PICK n \in Nat : n = Len(f)
    OBVIOUS
  <2>4. /\ Len(g) = n + 1 /\ g[n + 1] = x /\ \A i \in 1..n : g[i] = f[i]
        /\ Len(u) = n /\ t[n + 1] = y /\ \A i \in 1..n : t[i] = u[i]
    BY <1>1, <1>2, <2>2, <2>3 DEF EndsIn
  <2>5. y = Selected(x, Wanted) /\ \A i \in 1..n : u[i] = Selected(f[i], Wanted)
    <3>1. n + 1 \in 1..(n + 1) /\ \A i \in 1..n : i \in 1..(n + 1)
      OBVIOUS
    <3> QED
      BY <1>2, <2>4, <3>1
  <2>6. FlattenSeq(u) = Selected(FlattenSeq(f), Wanted)
    BY <2>3, <2>4, <2>5 DEF SelectsEach
  <2>7. FlattenSeq(g) = FlattenSeq(f) \o x /\ FlattenSeq(f) \in Seq(E) /\ x \in Seq(E)
    BY <1>1, FlattenAppend
  <2>8. FlattenSeq(t) = FlattenSeq(u) \o y
    BY <2>2, FlattenAppend
  <2>9. Selected(FlattenSeq(f) \o x, Wanted)
            = Selected(FlattenSeq(f), Wanted) \o Selected(x, Wanted)
    BY <2>7, SelectedJoined
  <2> QED
    BY <2>5, <2>6, <2>7, <2>8, <2>9
<1>3. g = Append(f, x)
  BY <1>1 DEF EndsIn
<1> QED
  BY <1>2, <1>3 DEF SelectsEach

LEMMA FlattenSelected ==
    ASSUME NEW E, NEW V, V = Seq(E), NEW Wanted, NEW ss \in Seq(V), NEW tt \in Seq(V),
           Len(tt) = Len(ss), \A i \in 1..Len(ss) : tt[i] = Selected(ss[i], Wanted)
    PROVE  FlattenSeq(tt) = Selected(FlattenSeq(ss), Wanted)
<1> DEFINE S == {f \in Seq(V) : SelectsEach(V, Wanted, f)}
<1>1. <<>> \in S
  <2>1. \A t \in Seq(V) : Len(t) = Len(<<>>) => t = <<>>
    OBVIOUS
  <2>2. Selected(<<>>, Wanted) = <<>>
    BY SelectedFacts
  <2>3. FlattenSeq(<<>>) = <<>>
    BY FlattenOver
  <2>4. SelectsEach(V, Wanted, <<>>)
    <3>1. Len(<<>>) = 0
      OBVIOUS
    <3> QED
      BY <2>1, <2>2, <2>3 DEF SelectsEach
  <2> QED
    BY <2>4, EmptySeq
<1>2. ASSUME NEW f \in S, NEW x \in V PROVE Append(f, x) \in S
  <2>1. f \in Seq(V) /\ SelectsEach(V, Wanted, f) /\ SequencesOf(V, E)
    BY DEF SequencesOf
  <2>2. SelectsEach(V, Wanted, Append(f, x)) /\ Append(f, x) \in Seq(V)
    BY <2>1, SelectsEachStep
  <2> QED
    BY <2>2
<1>3. S \in SUBSET Seq(V)
  OBVIOUS
<1>4. S = Seq(V)
  <2> HIDE DEF S
  <2> QED
    BY <1>1, <1>2, <1>3, SequenceInduction
<1>5. SelectsEach(V, Wanted, ss)
  BY <1>4
<1> QED
  BY <1>5 DEF SelectsEach

-------------------------------------------------------------------------------
(* Remainders.                                                             *)
LEMMA Remainder ==
    ASSUME NEW M \in Nat \ {0}, NEW x \in Int
    PROVE  \E q \in Int, r \in 0..(M - 1) : x = M * q + r /\ x % M = r
<1>1. x \div M \in Int /\ x % M \in 0..(M - 1) /\ x = M * (x \div M) + (x % M)
  OBVIOUS
<1> QED
  BY <1>1

LEMMA NoRemainder ==
    ASSUME NEW M \in Nat \ {0}, NEW x \in Int, x % M = 0
    PROVE  \E q \in Int : x = M * q
<1>1. PICK q \in Int, r \in 0..(M - 1) : x = M * q + r /\ x % M = r
  BY Remainder
<1>2. M * q \in Int
  OBVIOUS
<1> QED
  BY <1>1, <1>2

LEMMA MultiplesApart ==
    ASSUME NEW M \in Nat \ {0}, NEW k \in Int, NEW d \in Int, d = M * k, d < M, d > -M
    PROVE  k = 0
<1>1. k >= 1 => M * k >= M
  OBVIOUS
<1>2. k <= -1 => M * k <= -M
  OBVIOUS
<1> QED
  BY <1>1, <1>2

LEMMA RemainderUnique ==
    ASSUME NEW M \in Nat \ {0}, NEW q \in Int, NEW r \in 0..(M - 1)
    PROVE  (M * q + r) % M = r
<1>1. M * q \in Int /\ r \in Int
  OBVIOUS
<1>2. PICK q2 \in Int, r2 \in 0..(M - 1) :
            M * q + r = M * q2 + r2 /\ (M * q + r) % M = r2
  <2>1. PICK x \in Int : x = M * q + r
    BY <1>1
  <2> QED
    BY <2>1, Remainder
<1>3. M * (q - q2) = M * q - M * q2
  OBVIOUS
<1>4. M * q2 \in Int
  OBVIOUS
<1>5. r2 - r = M * (q - q2) /\ r2 - r < M /\ r2 - r > -M
  BY <1>1, <1>2, <1>3, <1>4
<1>6. q - q2 = 0
  BY <1>5, MultiplesApart
<1> QED
  BY <1>1, <1>2, <1>5, <1>6

LEMMA WholeTurns ==
    ASSUME NEW M \in Nat \ {0}, NEW x \in Int, NEW k \in Int
    PROVE  (x + M * k) % M = x % M
<1>1. PICK q \in Int, r \in 0..(M - 1) : x = M * q + r /\ x % M = r
  BY Remainder
<1>2. M * (q + k) = M * q + M * k
  OBVIOUS
<1>3. x + M * k = M * (q + k) + r
  <2>1. M * q \in Int /\ M * k \in Int
    OBVIOUS
  <2> QED
    BY <1>1, <1>2, <2>1
<1>4. q + k \in Int
  OBVIOUS
<1> QED
  BY <1>1, <1>3, <1>4, RemainderUnique
===============================================================================
