---------------------------- MODULE VsbReader_proofs ----------------------------
(***************************************************************************)
(* Theorems about VsbReader: what is returned, and in which order, for all *)
(* recordings, buffers and sizes.                                          *)
(***************************************************************************)
EXTENDS VsbReader, DataLemmas

-------------------------------------------------------------------------------
(* Positions in a file: each begins where the one before it ends.          *)
Sums(f, a, c) ==
    /\ f \in [1..(Len(c) + 1) -> Nat]
    /\ \A k \in 1..(Len(c) + 1) : f[k] = IF k = 1 THEN a ELSE f[k - 1] + c[k - 1]

LEMMA SumsExist ==
    ASSUME NEW a \in Nat, NEW c \in Seq(Nat)
    PROVE  \E f : Sums(f, a, c)
<1> DEFINE P(n) == \E f \in [1..(n + 1) -> Nat] :
                     \A k \in 1..(n + 1) : f[k] = IF k = 1 THEN a ELSE f[k - 1] + c[k - 1]
           S == {n \in Nat : n <= Len(c) => P(n)}
<1>1. 0 \in S
  <2> DEFINE g == [k \in 1..(0 + 1) |-> a]
  <2>1. g \in [1..(0 + 1) -> Nat]
    OBVIOUS
  <2>2. \A k \in 1..(0 + 1) : g[k] = IF k = 1 THEN a ELSE g[k - 1] + c[k - 1]
    OBVIOUS
  <2>3. P(0)
    BY <2>1, <2>2
  <2> QED
    BY <2>3
<1>2. ASSUME NEW n \in S PROVE n + 1 \in S
  <2> SUFFICES ASSUME n + 1 <= Len(c) PROVE P(n + 1)
    <3> HIDE DEF P
    <3> QED
      OBVIOUS
  <2>1. n \in Nat /\ n + 1 \in 1..Len(c) /\ c[n + 1] \in Nat
    OBVIOUS
  <2>2. P(n)
    <3> HIDE DEF P
    <3> QED
      BY <2>1
  <2>3. PICK f \in [1..(n + 1) -> Nat] :
            \A k \in 1..(n + 1) : f[k] = IF k = 1 THEN a ELSE f[k - 1] + c[k - 1]
    BY <2>2
  <2> DEFINE g == [k \in 1..((n + 1) + 1) |-> IF k = n + 2 THEN f[n + 1] + c[n + 1] ELSE f[k]]
  <2>4. g \in [1..((n + 1) + 1) -> Nat]
    <3>1. f[n + 1] + c[n + 1] \in Nat
      BY <2>1, <2>3
    <3>2. \A k \in 1..((n + 1) + 1) : k # n + 2 => f[k] \in Nat
      BY <2>1, <2>3
    <3> QED
      BY <3>1, <3>2
  <2>5. ASSUME NEW k \in 1..((n + 1) + 1)
        PROVE  g[k] = IF k = 1 THEN a ELSE g[k - 1] + c[k - 1]
    <3>1. CASE k = n + 2
      <4>1. k - 1 = n + 1 /\ k # 1 /\ g[k - 1] = f[n + 1]
        BY <2>1, <3>1
      <4> QED
        BY <3>1, <4>1
    <3>2. CASE k # n + 2
      <4>1. k \in 1..(n + 1) /\ g[k] = f[k]
        BY <2>1, <3>2
      <4>2. k # 1 => g[k - 1] = f[k - 1]
        BY <2>1, <4>1
      <4> QED
        BY <4>1, <4>2, <2>3
    <3> QED
      BY <3>1, <3>2
  <2> QED
    BY <2>4, <2>5
<1>3. S = Nat
  <2> HIDE DEF S
  <2> QED
    BY <1>1, <1>2, NaturalInduction DEF S
<1>4. P(Len(c))
  <2>1. Len(c) \in Nat
    OBVIOUS
  <2> HIDE DEF P
  <2> QED
    BY <1>3, <2>1
<1> QED
  BY <1>4 DEF Sums

(* There is only one such function, however it is written.                 *)
LEMMA SumsUnique ==
    ASSUME NEW a \in Nat, NEW c \in Seq(Nat), NEW f, Sums(f, a, c), NEW g,
           \A k \in 1..(Len(c) + 1) : g[k] = IF k = 1 THEN a ELSE g[k - 1] + c[k - 1]
    PROVE  \A k \in 1..(Len(c) + 1) : g[k] = f[k]
<1> DEFINE S == {k \in Nat : k + 1 \in 1..(Len(c) + 1) => g[k + 1] = f[k + 1]}
<1>1. 0 \in S
  BY DEF Sums
<1>2. ASSUME NEW k \in S PROVE k + 1 \in S
  <2> SUFFICES ASSUME (k + 1) + 1 \in 1..(Len(c) + 1)
               PROVE  g[(k + 1) + 1] = f[(k + 1) + 1]
    OBVIOUS
  <2>1. g[k + 1] = f[k + 1]
    OBVIOUS
  <2>2. PICK m \in 1..(Len(c) + 1) : m = (k + 1) + 1
    OBVIOUS
  <2>3. m # 1 /\ m - 1 = k + 1
    BY <2>2
  <2>4. g[m] = g[m - 1] + c[m - 1] /\ f[m] = f[m - 1] + c[m - 1]
    BY <2>3 DEF Sums
  <2> QED
    BY <2>1, <2>2, <2>3, <2>4
<1>3. S = Nat
  <2> HIDE DEF S
  <2> QED
    BY <1>1, <1>2, NaturalInduction DEF S
<1> SUFFICES ASSUME NEW k \in 1..(Len(c) + 1) PROVE g[k] = f[k]
  OBVIOUS
<1>4. PICK l \in Nat : l = k - 1
  OBVIOUS
<1>5. l \in S
  BY <1>3
<1>6. l + 1 = k
  BY <1>4
<1> QED
  BY <1>5, <1>6

(* A later position is at least a step further.                            *)
LEMMA SumsRise ==
    ASSUME NEW a \in Nat, NEW c \in Seq(Nat), NEW f, Sums(f, a, c),
           NEW d \in Nat, \A k \in 1..Len(c) : c[k] >= d
    PROVE  \A i, j \in 1..(Len(c) + 1) : i < j => f[i] + d <= f[j]
<1> DEFINE S == {n \in Nat : \A i, j \in 1..(Len(c) + 1) : j = i + 1 + n => f[i] + d <= f[j]}
<1>0. \A k \in 1..Len(c) : f[k] \in Nat /\ f[k + 1] \in Nat /\ f[k + 1] = f[k] + c[k] /\ c[k] \in Nat
  <2> SUFFICES ASSUME NEW k \in 1..Len(c)
               PROVE  f[k] \in Nat /\ f[k + 1] \in Nat /\ f[k + 1] = f[k] + c[k] /\ c[k] \in Nat
    OBVIOUS
  <2>1. PICK l \in 1..(Len(c) + 1) : l = k + 1
    OBVIOUS
  <2>2. l # 1 /\ l - 1 = k /\ k \in 1..(Len(c) + 1)
    BY <2>1
  <2>3. f[l] = f[l - 1] + c[l - 1] /\ f[l] \in Nat /\ f[k] \in Nat
    BY <2>2 DEF Sums
  <2>4. c[k] \in Nat
    OBVIOUS
  <2> QED
    BY <2>1, <2>2, <2>3, <2>4
<1>1. 0 \in S
  <2> SUFFICES ASSUME NEW i \in 1..(Len(c) + 1), NEW j \in 1..(Len(c) + 1), j = i + 1 + 0
               PROVE  f[i] + d <= f[j]
    OBVIOUS
  <2>1. i \in 1..Len(c) /\ j = i + 1
    OBVIOUS
  <2>2. f[i] \in Nat /\ f[i + 1] = f[i] + c[i] /\ c[i] \in Nat /\ c[i] >= d
    BY <2>1, <1>0
  <2> QED
    BY <2>1, <2>2
<1>2. ASSUME NEW n \in S PROVE n + 1 \in S
  <2> SUFFICES ASSUME NEW i \in 1..(Len(c) + 1), NEW j \in 1..(Len(c) + 1), j = i + 1 + (n + 1)
               PROVE  f[i] + d <= f[j]
    OBVIOUS
  <2>1. n \in Nat
    OBVIOUS
  <2>2. PICK l \in 1..Len(c) : l = j - 1
    BY <2>1
  <2>3. l \in 1..(Len(c) + 1) /\ l = i + 1 + n
    BY <2>1, <2>2
  <2>4. f[i] + d <= f[l]
    BY <2>3
  <2>5. f[j] = f[l] + c[l] /\ f[l] \in Nat /\ c[l] \in Nat
    <3>1. l + 1 = j
      BY <2>2
    <3>2. f[l + 1] = f[l] + c[l] /\ f[l] \in Nat /\ c[l] \in Nat
      BY <1>0
    <3> QED
      BY <3>1, <3>2
  <2>6. f[i] \in Nat
    BY DEF Sums
  <2>7. \A x, y, z \in Nat : x + d <= y => x + d <= y + z
    OBVIOUS
  <2> HIDE DEF S
  <2> QED
    BY <2>4, <2>5, <2>6, <2>7
<1>3. S = Nat
  <2> HIDE DEF S
  <2> QED
    BY <1>1, <1>2, NaturalInduction DEF S
<1> SUFFICES ASSUME NEW i \in 1..(Len(c) + 1), NEW j \in 1..(Len(c) + 1), i < j
             PROVE  f[i] + d <= f[j]
  OBVIOUS
<1>4. PICK n \in Nat : n = j - i - 1
  OBVIOUS
<1>5. n \in S /\ j = i + 1 + n
  <2>1. n \in S
    BY <1>3
  <2> HIDE DEF S
  <2> QED
    BY <2>1, <1>4
<1> QED
  BY <1>5
-------------------------------------------------------------------------------
(* Where the messages begin, and the entries of the EDP section.           *)
MessageLengths(f) == [i \in 1..Len(f.messages) |-> MessageLength(f, i)]
EntryLengths(f) == [j \in 1..Len(f.edps) |-> EntryLength(f, j)]

LEMMA MessageLengthsType ==
    ASSUME NEW f \in FileType
    PROVE  /\ MessageLengths(f) \in Seq(Nat) /\ Len(MessageLengths(f)) = Len(f.messages)
           /\ \A i \in 1..Len(f.messages) :
                /\ f.messages[i].payload \in Nat
                /\ MessageLength(f, i) \in Nat /\ MessageLength(f, i) >= HeaderSize
<1> DEFINE n == Len(f.messages)
<1>0. n \in Nat /\ HeaderSize \in Nat /\ f.messages \in Seq([payload : Nat])
  BY SizesAssumption DEF FileType
<1>1. ASSUME NEW i \in 1..n
      PROVE  /\ f.messages[i].payload \in Nat
             /\ MessageLength(f, i) \in Nat /\ MessageLength(f, i) >= HeaderSize
  <2>1. f.messages[i] \in [payload : Nat]
    <3>1. \A R : \A m \in Seq(R) : \A k \in 1..Len(m) : m[k] \in R
      OBVIOUS
    <3> QED
      BY <3>1, <1>0
  <2>2. f.messages[i].payload \in Nat
    BY <2>1
  <2> QED
    BY <1>0, <2>2 DEF MessageLength
<1>2. MessageLengths(f) \in [1..n -> Nat]
  BY <1>1, Zenon DEF MessageLengths
<1>3. MessageLengths(f) \in Seq(Nat) /\ Len(MessageLengths(f)) = n
  BY <1>0, <1>2, FunctionIsSequence
<1> QED
  BY <1>1, <1>3

LEMMA EntryLengthsType ==
    ASSUME NEW f \in FileType
    PROVE  /\ EntryLengths(f) \in Seq(Nat) /\ Len(EntryLengths(f)) = Len(f.edps)
           /\ \A j \in 1..Len(f.edps) :
                /\ f.edps[j] \in Nat
                /\ EntryLength(f, j) \in Nat /\ EntryLength(f, j) >= SizeField
<1> DEFINE n == Len(f.edps)
<1>0. n \in Nat /\ SizeField \in Nat /\ f.edps \in Seq(Nat)
  BY SizesAssumption DEF FileType
<1>1. ASSUME NEW j \in 1..n
      PROVE  /\ f.edps[j] \in Nat
             /\ EntryLength(f, j) \in Nat /\ EntryLength(f, j) >= SizeField
  BY <1>0 DEF EntryLength
<1>2. EntryLengths(f) \in [1..n -> Nat]
  BY <1>1, Zenon DEF EntryLengths
<1>3. EntryLengths(f) \in Seq(Nat) /\ Len(EntryLengths(f)) = n
  BY <1>0, <1>2, FunctionIsSequence
<1> QED
  BY <1>1, <1>3

LEMMA MessagePositions ==
    ASSUME NEW f \in FileType
    PROVE  Sums([i \in 1..(Len(f.messages) + 1) |-> MessageAt(f, i)], f.start, MessageLengths(f))
<1> DEFINE c == MessageLengths(f)
           n == Len(f.messages)
           At(g) == g = [k \in 1..(n + 1) |->
                            IF k = 1 THEN f.start ELSE g[k - 1] + MessageLength(f, k - 1)]
<1>1. n \in Nat /\ f.start \in Nat /\ c \in Seq(Nat) /\ Len(c) = n
  BY MessageLengthsType DEF FileType
<1>2. \A k \in 1..(n + 1) : k # 1 => c[k - 1] = MessageLength(f, k - 1)
  BY <1>1 DEF MessageLengths
<1>3. PICK at : Sums(at, f.start, c)
  <2> HIDE DEF c
  <2> QED
    BY <1>1, SumsExist
<1> HIDE DEF c
<1>4. /\ at \in [1..(n + 1) -> Nat]
      /\ \A k \in 1..(n + 1) : at[k] = IF k = 1 THEN f.start ELSE at[k - 1] + c[k - 1]
  BY <1>1, <1>3 DEF Sums
<1>5. At(at)
  BY <1>2, <1>4
<1> DEFINE g == CHOOSE h : At(h)
<1>6. At(g)
  <2> HIDE DEF At
  <2> QED
    BY <1>5
<1>7. \A k : MessageAt(f, k) = g[k]
  BY DEF MessageAt
<1> HIDE DEF g
<1>8. \A k \in 1..(n + 1) : g[k] = IF k = 1 THEN f.start ELSE g[k - 1] + c[k - 1]
  BY <1>2, <1>6
<1>9. \A k \in 1..(n + 1) : g[k] = at[k]
  <2>1. PICK a \in Nat : a = f.start
    BY <1>1
  <2>2. Sums(at, a, c) /\ \A k \in 1..(Len(c) + 1) : g[k] = IF k = 1 THEN a ELSE g[k - 1] + c[k - 1]
    BY <1>1, <1>3, <1>8, <2>1
  <2> QED
    BY <1>1, <2>2, SumsUnique
<1>10. [i \in 1..(n + 1) |-> MessageAt(f, i)] = at
  BY <1>4, <1>7, <1>9
<1> QED
  BY <1>3, <1>10 DEF c

LEMMA EntryPositions ==
    ASSUME NEW f \in FileType
    PROVE  Sums([j \in 1..(Len(f.edps) + 1) |-> EdpAt(f, j)], EdpStart, EntryLengths(f))
<1> DEFINE c == EntryLengths(f)
           n == Len(f.edps)
           At(g) == g = [k \in 1..(n + 1) |->
                            IF k = 1 THEN EdpStart ELSE g[k - 1] + EntryLength(f, k - 1)]
<1>1. n \in Nat /\ EdpStart \in Nat /\ c \in Seq(Nat) /\ Len(c) = n
  BY EntryLengthsType, SizesAssumption DEF FileType
<1>2. \A k \in 1..(n + 1) : k # 1 => c[k - 1] = EntryLength(f, k - 1)
  BY <1>1 DEF EntryLengths
<1>3. PICK at : Sums(at, EdpStart, c)
  <2> HIDE DEF c
  <2> QED
    BY <1>1, SumsExist
<1> HIDE DEF c
<1>4. /\ at \in [1..(n + 1) -> Nat]
      /\ \A k \in 1..(n + 1) : at[k] = IF k = 1 THEN EdpStart ELSE at[k - 1] + c[k - 1]
  BY <1>1, <1>3 DEF Sums
<1>5. At(at)
  BY <1>2, <1>4
<1> DEFINE g == CHOOSE h : At(h)
<1>6. At(g)
  <2> HIDE DEF At
  <2> QED
    BY <1>5
<1>7. \A k : EdpAt(f, k) = g[k]
  BY DEF EdpAt
<1> HIDE DEF g
<1>8. \A k \in 1..(n + 1) : g[k] = IF k = 1 THEN EdpStart ELSE g[k - 1] + c[k - 1]
  BY <1>2, <1>6
<1>9. \A k \in 1..(n + 1) : g[k] = at[k]
  BY <1>1, <1>3, <1>8, SumsUnique
<1>10. [j \in 1..(n + 1) |-> EdpAt(f, j)] = at
  BY <1>4, <1>7, <1>9
<1> QED
  BY <1>3, <1>10 DEF c

(* What the proofs below use of the positions.                             *)
LEMMA MessagesApart ==
    ASSUME NEW f \in FileType
    PROVE  /\ MessageAt(f, 1) = f.start
           /\ \A i \in 1..(Len(f.messages) + 1) : MessageAt(f, i) \in Nat
           /\ \A i \in 1..Len(f.messages) : MessageAt(f, i + 1) = MessageAt(f, i) + MessageLength(f, i)
           /\ \A i, j \in 1..(Len(f.messages) + 1) :
                i < j => MessageAt(f, i) + HeaderSize <= MessageAt(f, j)
<1> DEFINE c == MessageLengths(f)
           n == Len(f.messages)
           at == [i \in 1..(n + 1) |-> MessageAt(f, i)]
<1>1. n \in Nat /\ f.start \in Nat /\ c \in Seq(Nat) /\ Len(c) = n
  BY MessageLengthsType DEF FileType
<1>2. \A i \in 1..n : c[i] = MessageLength(f, i) /\ c[i] >= HeaderSize
  BY MessageLengthsType DEF MessageLengths
<1>3. Sums(at, f.start, c)
  BY MessagePositions
<1>4. \A i \in 1..(n + 1) : at[i] = MessageAt(f, i)
  OBVIOUS
<1> HIDE DEF c, at
<1>5. at \in [1..(n + 1) -> Nat] /\ at[1] = f.start
  BY <1>1, <1>3 DEF Sums
<1>6. ASSUME NEW i \in 1..n PROVE at[i + 1] = at[i] + c[i]
  <2>1. PICK k \in 1..(n + 1) : k = i + 1
    BY <1>1
  <2>2. k # 1 /\ k - 1 = i
    BY <2>1
  <2> QED
    BY <2>1, <2>2, <1>1, <1>3 DEF Sums
<1>7. \A i, j \in 1..(n + 1) : i < j => at[i] + HeaderSize <= at[j]
  BY <1>1, <1>2, <1>3, SumsRise, SizesAssumption
<1>8. ASSUME NEW i \in 1..n PROVE MessageAt(f, i + 1) = MessageAt(f, i) + MessageLength(f, i)
  <2>1. i \in 1..(n + 1) /\ i + 1 \in 1..(n + 1)
    BY <1>1
  <2> QED
    BY <2>1, <1>2, <1>4, <1>6
<1>9. \A i, j \in 1..(n + 1) : i < j => MessageAt(f, i) + HeaderSize <= MessageAt(f, j)
  BY <1>4, <1>7
<1>10. MessageAt(f, 1) = f.start
  <2>1. 1 \in 1..(n + 1)
    BY <1>1
  <2> QED
    BY <2>1, <1>4, <1>5
<1>11. \A i \in 1..(n + 1) : MessageAt(f, i) \in Nat
  BY <1>4, <1>5
<1> QED
  BY <1>8, <1>9, <1>10, <1>11

LEMMA EntriesApart ==
    ASSUME NEW f \in FileType
    PROVE  /\ EdpAt(f, 1) = EdpStart
           /\ \A i \in 1..(Len(f.edps) + 1) : EdpAt(f, i) \in Nat
           /\ \A i \in 1..Len(f.edps) : EdpAt(f, i + 1) = EdpAt(f, i) + EntryLength(f, i)
           /\ \A i, j \in 1..(Len(f.edps) + 1) :
                i < j => EdpAt(f, i) + SizeField <= EdpAt(f, j)
<1> DEFINE c == EntryLengths(f)
           n == Len(f.edps)
           at == [i \in 1..(n + 1) |-> EdpAt(f, i)]
<1>1. n \in Nat /\ EdpStart \in Nat /\ c \in Seq(Nat) /\ Len(c) = n
  BY EntryLengthsType, SizesAssumption DEF FileType
<1>2. \A i \in 1..n : c[i] = EntryLength(f, i) /\ c[i] >= SizeField
  BY EntryLengthsType DEF EntryLengths
<1>3. Sums(at, EdpStart, c)
  BY EntryPositions
<1>4. \A i \in 1..(n + 1) : at[i] = EdpAt(f, i)
  OBVIOUS
<1> HIDE DEF c, at
<1>5. at \in [1..(n + 1) -> Nat] /\ at[1] = EdpStart
  BY <1>1, <1>3 DEF Sums
<1>6. ASSUME NEW i \in 1..n PROVE at[i + 1] = at[i] + c[i]
  <2>1. PICK k \in 1..(n + 1) : k = i + 1
    BY <1>1
  <2>2. k # 1 /\ k - 1 = i
    BY <2>1
  <2> QED
    BY <2>1, <2>2, <1>1, <1>3 DEF Sums
<1>7. \A i, j \in 1..(n + 1) : i < j => at[i] + SizeField <= at[j]
  BY <1>1, <1>2, <1>3, SumsRise, SizesAssumption
<1>8. ASSUME NEW i \in 1..n PROVE EdpAt(f, i + 1) = EdpAt(f, i) + EntryLength(f, i)
  <2>1. i \in 1..(n + 1) /\ i + 1 \in 1..(n + 1)
    BY <1>1
  <2> QED
    BY <2>1, <1>2, <1>4, <1>6
<1> QED
  BY <1>1, <1>4, <1>5, <1>7, <1>8
-------------------------------------------------------------------------------
(* What a read finds.                                                      *)
LEMMA FileFacts ==
    ASSUME file \in Files
    PROVE  /\ file \in FileType
           /\ file.version \in Versions \cup {"unreadable"}
           /\ file.start \in Nat /\ file.size \in Nat
           /\ Len(file.messages) \in Nat /\ Len(file.edps) \in Nat
           /\ DOMAIN file.messages = 1..Len(file.messages)
           /\ DOMAIN file.edps = 1..Len(file.edps)
<1>1. file \in FileType
  BY FilesAssumption
<1> QED
  BY <1>1 DEF FileType

LEMMA HeadersFit ==
    ASSUME file \in Files, NEW p, NEW h \in HeadersAt(p)
    PROVE  /\ h.number \in Nat /\ h.payload \in Nat
           /\ h.number # 0 =>
                /\ h.number \in 1..Len(file.messages)
                /\ h.payload = file.messages[h.number].payload
                /\ p = MessageAt(file, h.number) /\ p + HeaderSize <= file.size
                /\ file.start <= file.size
<1> DEFINE here == {i \in DOMAIN file.messages :
                        MessageAt(file, i) = p /\ p + HeaderSize <= file.size}
<1>1. CASE here # {}
  <2>1. PICK i \in here : h = [number |-> i, payload |-> file.messages[i].payload]
    BY <1>1 DEF HeadersAt
  <2>2. file \in FileType /\ i \in 1..Len(file.messages) /\ Len(file.messages) \in Nat
        /\ file.messages[i].payload \in Nat
    BY FileFacts, MessageLengthsType
  <2>3. file.start <= file.size
    <3>1. PICK q \in Nat : q = p
      BY <2>2, MessagesApart
    <3>2. file.start <= q
      <4>1. CASE i = 1
        BY <4>1, <2>2, <3>1, FileFacts, MessagesApart
      <4>2. CASE i # 1
        <5>1. i \in 1..(Len(file.messages) + 1) /\ 1 \in 1..(Len(file.messages) + 1) /\ 1 < i
          BY <4>2, <2>2
        <5>2. MessageAt(file, 1) + HeaderSize <= MessageAt(file, i) /\ MessageAt(file, 1) = file.start
          BY <5>1, <2>2, MessagesApart
        <5>3. file.start + HeaderSize <= q
          BY <5>2, <3>1
        <5> QED
          BY <5>3, FileFacts, SizesAssumption
      <4> QED
        BY <4>1, <4>2
    <3>3. q + HeaderSize <= file.size
      BY <3>1
    <3> QED
      BY <3>2, <3>3, FileFacts, SizesAssumption
  <2> QED
    BY <2>1, <2>2, <2>3
<1>2. CASE here = {}
  <2>1. h \in [number : {0}, payload : Words \cup {0}]
    BY <1>2 DEF HeadersAt
  <2>2. h.number = 0 /\ h.payload \in Words \cup {0}
    BY <2>1
  <2>3. PICK w \in Words \cup {0} : w = h.payload
    BY <2>2
  <2>4. w \in Nat
    BY SizesAssumption
  <2> QED
    BY <2>2, <2>3, <2>4
<1> QED
  BY <1>1, <1>2

LEMMA HeaderFound ==
    ASSUME file \in Files, Complete(file), NEW n \in 1..Len(file.messages)
    PROVE  /\ HeadersAt(MessageAt(file, n)) = {[number |-> n, payload |-> file.messages[n].payload]}
           /\ MessageAt(file, n) + MessageLength(file, n) <= file.size
           /\ MessageAt(file, n) + HeaderSize <= file.size
<1> DEFINE p == MessageAt(file, n)
           N == Len(file.messages)
           here == {i \in DOMAIN file.messages :
                        MessageAt(file, i) = p /\ p + HeaderSize <= file.size}
<1>0. file \in FileType /\ N \in Nat /\ DOMAIN file.messages = 1..N /\ file.size \in Nat
  BY FileFacts
<1>1. MessageAt(file, n + 1) = p + MessageLength(file, n) /\ p \in Nat
  BY <1>0, MessagesApart
<1>2. MessageLength(file, n) \in Nat /\ MessageLength(file, n) >= HeaderSize
  BY <1>0, MessageLengthsType
<1>3. p + MessageLength(file, n) <= file.size
  <2>1. MessageAt(file, N + 1) \in Nat /\ MessageAt(file, N + 1) <= file.size
    BY <1>0, MessagesApart, SizesAssumption DEF Complete, MessagesEnd
  <2>2. MessageAt(file, n + 1) <= MessageAt(file, N + 1)
    <3>1. CASE n = N
      BY <3>1, <2>1
    <3>2. CASE n # N
      <4>1. n + 1 \in 1..(N + 1) /\ N + 1 \in 1..(N + 1) /\ n + 1 < N + 1
        BY <1>0, <3>2
      <4>2. MessageAt(file, n + 1) + HeaderSize <= MessageAt(file, N + 1)
        BY <4>1, <1>0, MessagesApart
      <4>3. PICK q, e \in Nat : q = MessageAt(file, n + 1) /\ e = MessageAt(file, N + 1)
        BY <4>1, <1>0, MessagesApart
      <4>4. q + HeaderSize <= e => q <= e
        BY SizesAssumption
      <4> QED
        BY <4>2, <4>3, <4>4
    <3> QED
      BY <3>1, <3>2
  <2>3. PICK q, e \in Nat : q = MessageAt(file, n + 1) /\ e = MessageAt(file, N + 1)
    BY <1>1, <1>2, <2>1
  <2>4. q <= file.size
    <3>1. q <= e /\ e <= file.size
      BY <2>1, <2>2, <2>3
    <3> QED
      BY <3>1, <1>0
  <2> QED
    BY <1>1, <2>3, <2>4
<1>4. p + HeaderSize <= file.size
  BY <1>0, <1>1, <1>2, <1>3, SizesAssumption
<1>5. here = {n}
  <2>1. ASSUME NEW i \in 1..N, i # n PROVE MessageAt(file, i) # p
    <3>1. i \in 1..(N + 1) /\ n \in 1..(N + 1) /\ (i < n \/ n < i)
      BY <1>0, <2>1
    <3>2. MessageAt(file, i) \in Nat /\ HeaderSize > 0 /\ HeaderSize \in Nat
      BY <3>1, <1>0, MessagesApart, SizesAssumption
    <3>3. MessageAt(file, i) + HeaderSize <= p \/ p + HeaderSize <= MessageAt(file, i)
      BY <3>1, <1>0, MessagesApart
    <3> QED
      BY <3>2, <3>3, <1>1
  <2> QED
    BY <2>1, <1>0, <1>4
<1>6. HeadersAt(p) = {[number |-> i, payload |-> file.messages[i].payload] : i \in here}
  BY <1>5 DEF HeadersAt
<1> HIDE DEF p
<1> QED
  BY <1>3, <1>4, <1>5, <1>6 DEF p

(* The EDP section is in the file, up to the first message.                *)
SectionWhole(f) == f.version \in WithSection /\ f.edps # <<>> /\ f.start <= f.size

LEMMA EntryInSection ==
    ASSUME file \in Files, SectionWhole(file), NEW q \in 1..Len(file.edps)
    PROVE  /\ EdpAt(file, q) \in Nat /\ file.edps[q] \in Nat
           /\ EdpAt(file, q + 1) = (EdpAt(file, q) + SizeField) + file.edps[q]
           /\ EdpAt(file, q) + SizeField <= file.size
<1> DEFINE n == Len(file.edps)
<1>1. file \in FileType /\ n \in Nat /\ file.start \in Nat /\ file.size \in Nat
  BY FileFacts
<1>2. q \in 1..(n + 1) /\ q + 1 \in 1..(n + 1) /\ n + 1 \in 1..(n + 1) /\ q < n + 1
  BY <1>1
<1>3. EdpAt(file, q) \in Nat /\ EdpAt(file, n + 1) \in Nat
  BY <1>1, <1>2, EntriesApart
<1>4. EdpAt(file, q + 1) = EdpAt(file, q) + EntryLength(file, q) /\ file.edps[q] \in Nat
  BY <1>1, EntriesApart, EntryLengthsType
<1>5. EdpAt(file, q + 1) = (EdpAt(file, q) + SizeField) + file.edps[q]
  BY <1>3, <1>4, SizesAssumption DEF EntryLength
<1>6. EdpAt(file, n + 1) <= file.start /\ file.start <= file.size
  BY <1>1, SectionAssumption DEF SectionWhole
<1>7. EdpAt(file, q) + SizeField <= EdpAt(file, n + 1)
  BY <1>1, <1>2, EntriesApart
<1>8. PICK x, y, z \in Nat : x = EdpAt(file, q) /\ y = EdpAt(file, n + 1) /\ z = file.start
  BY <1>1, <1>3
<1>9. x + SizeField <= y /\ y <= z /\ z <= file.size
  BY <1>6, <1>7, <1>8
<1>10. x + SizeField <= file.size
  BY <1>1, <1>9, SizesAssumption
<1> QED
  BY <1>3, <1>4, <1>5, <1>8, <1>10

(* What is found at the place of an entry, whatever EDPsize was before,    *)
(* and where it leads to.                                                  *)
Entry == [at : Nat, size : Nat]
EntryNumber(q) == [at |-> EdpAt(file, q), size |-> file.edps[q]]

LEMMA EntryFound ==
    ASSUME file \in Files, SectionWhole(file), NEW j \in 1..Len(file.edps)
    PROVE  /\ \A stale : Sized(EdpAt(file, j), stale) = {EntryNumber(j)}
           /\ Advance(EdpAt(file, j), SizeField) = EdpAt(file, j) + SizeField
           /\ Advance(EdpAt(file, j), SizeField) + file.edps[j] = EdpAt(file, j + 1)
<1> DEFINE p == EdpAt(file, j)
           n == Len(file.edps)
           entries == {i \in DOMAIN file.edps : EdpAt(file, i) = p /\ p + SizeField <= file.size}
<1>0. file \in FileType /\ n \in Nat /\ DOMAIN file.edps = 1..n /\ file.size \in Nat
  BY FileFacts
<1>1. /\ p \in Nat /\ file.edps[j] \in Nat /\ p + SizeField <= file.size
      /\ EdpAt(file, j + 1) = (p + SizeField) + file.edps[j]
  BY EntryInSection
<1>2. entries = {j}
  <2>1. ASSUME NEW i \in 1..n, i # j PROVE EdpAt(file, i) # p
    <3>1. i \in 1..(n + 1) /\ j \in 1..(n + 1) /\ (i < j \/ j < i)
      BY <1>0, <2>1
    <3>2. EdpAt(file, i) \in Nat /\ p \in Nat /\ SizeField > 0 /\ SizeField \in Nat
      BY <3>1, <1>0, EntriesApart, SizesAssumption
    <3>3. EdpAt(file, i) + SizeField <= p \/ p + SizeField <= EdpAt(file, i)
      BY <3>1, <1>0, EntriesApart
    <3> QED
      BY <3>2, <3>3
  <2> QED
    BY <2>1, <1>0, <1>1
<1>3. ~(p >= file.size)
  BY <1>0, <1>1, SizesAssumption
<1>4. ASSUME NEW stale PROVE EdpSizesAt(p, stale) = {file.edps[j]}
  <2>1. EdpSizesAt(p, stale) = {file.edps[i] : i \in entries}
    BY <1>2, <1>3 DEF EdpSizesAt
  <2> HIDE DEF entries
  <2> QED
    BY <1>2, <2>1
<1>5. ASSUME NEW stale PROVE Sized(p, stale) = {EntryNumber(j)}
  BY <1>4 DEF Sized, EntryNumber
<1>6. Advance(p, SizeField) = p + SizeField
  BY <1>1 DEF Advance
<1> QED
  BY <1>1, <1>5, <1>6
-------------------------------------------------------------------------------
(* Where the EDP cursor goes: from one entry to the next in the section,   *)
(* and to some position in any case.                                       *)
First(from) == UNION {Sized(from, n) : n \in Words}

WalkFrom(w, from, index, requested) ==
    w = [k \in index..requested |-> IF k = index THEN First(from) ELSE Skip(w[k - 1])]

LEMMA WalkIs ==
    ASSUME NEW from, NEW index, NEW requested
    PROVE  WalkEdps(from, index, requested) =
                (CHOOSE w : WalkFrom(w, from, index, requested))[requested]
  BY DEF WalkEdps, WalkFrom, First

(* It is at the requested entry where the steps lead.                      *)
StepsFrom(steps, from, index, requested) ==
    /\ steps = [k \in index..requested |-> steps[k]]
    /\ steps[index] = First(from)
    /\ \A k \in index..requested : k # index => steps[k] = Skip(steps[k - 1])

LEMMA WalkGoes ==
    ASSUME NEW from, NEW index \in Nat, NEW requested \in Nat, index <= requested,
           NEW steps, StepsFrom(steps, from, index, requested)
    PROVE  WalkEdps(from, index, requested) = steps[requested]
<1> DEFINE walk == CHOOSE w : WalkFrom(w, from, index, requested)
<1>1. WalkFrom(steps, from, index, requested)
  <2>1. \A k \in index..requested :
            steps[k] = IF k = index THEN First(from) ELSE Skip(steps[k - 1])
    BY DEF StepsFrom
  <2>2. [k \in index..requested |-> steps[k]] =
            [k \in index..requested |-> IF k = index THEN First(from) ELSE Skip(steps[k - 1])]
    BY <2>1
  <2>3. steps = [k \in index..requested |-> IF k = index THEN First(from) ELSE Skip(steps[k - 1])]
    BY <2>2, Zenon DEF StepsFrom
  <2> QED
    BY <2>3, Zenon DEF WalkFrom
<1>2. WalkFrom(walk, from, index, requested)
  BY <1>1, Zenon
<1>3. WalkEdps(from, index, requested) = walk[requested]
  BY WalkIs
<1> HIDE DEF walk
<1>4. \A k \in index..requested :
        walk[k] = IF k = index THEN First(from) ELSE Skip(walk[k - 1])
  <2>1. walk = [k \in index..requested |-> IF k = index THEN First(from) ELSE Skip(walk[k - 1])]
    BY <1>2, Zenon DEF WalkFrom
  <2> DEFINE G(k) == IF k = index THEN First(from) ELSE Skip(walk[k - 1])
  <2>2. walk = [k \in index..requested |-> G(k)]
    BY <2>1, Zenon
  <2> HIDE DEF G
  <2>3. \A k \in index..requested : walk[k] = G(k)
    BY <2>2, Zenon
  <2> QED
    BY <2>3, Zenon DEF G
<1> DEFINE S == {k \in Nat : index + k <= requested => walk[index + k] = steps[index + k]}
<1>5. 0 \in S
  BY <1>4 DEF StepsFrom
<1>6. ASSUME NEW k \in S PROVE k + 1 \in S
  <2> SUFFICES ASSUME index + (k + 1) <= requested
               PROVE  walk[index + (k + 1)] = steps[index + (k + 1)]
    OBVIOUS
  <2>1. PICK l \in index..requested : l = index + (k + 1)
    OBVIOUS
  <2>2. l # index /\ l - 1 = index + k /\ index + k <= requested
    BY <2>1
  <2>3. walk[l - 1] = steps[l - 1]
    BY <2>2
  <2>4. walk[l] = Skip(walk[l - 1]) /\ steps[l] = Skip(steps[l - 1])
    BY <1>4, <2>2 DEF StepsFrom
  <2> QED
    BY <2>1, <2>3, <2>4
<1>7. S = Nat
  <2> HIDE DEF S
  <2> QED
    BY <1>5, <1>6, NaturalInduction DEF S
<1>8. PICK k \in Nat : k = requested - index
  OBVIOUS
<1>9. k \in S
  BY <1>7
<1>10. index + k = requested
  BY <1>8
<1> QED
  BY <1>3, <1>9, <1>10

LEMMA StepsAreEntries ==
    ASSUME file \in Files
    PROVE  /\ \A from \in Nat : First(from) \in SUBSET Entry
           /\ \A X \in SUBSET Entry : Skip(X) \in SUBSET Entry
<1>1. file.size \in Nat /\ SizeField \in Nat /\ Words \subseteq Nat /\ file \in FileType
  BY FileFacts, SizesAssumption
<1>2. ASSUME NEW p \in Nat, NEW stale \in Nat PROVE Sized(p, stale) \in SUBSET Entry
  <2>1. \A j \in DOMAIN file.edps : file.edps[j] \in Nat
    BY <1>1, EntryLengthsType, FileFacts
  <2>2. EdpSizesAt(p, stale) \in SUBSET Nat
    BY <1>1, <2>1 DEF EdpSizesAt
  <2> QED
    BY <2>2 DEF Sized, Entry
<1>3. ASSUME NEW from \in Nat PROVE First(from) \in SUBSET Entry
  BY <1>1, <1>2 DEF First
<1>4. ASSUME NEW X \in SUBSET Entry PROVE Skip(X) \in SUBSET Entry
  <2>1. ASSUME NEW e \in X
        PROVE  Sized(Advance(e.at, SizeField) + e.size, e.size) \in SUBSET Entry
    <3>1. e.at \in Nat /\ e.size \in Nat
      BY DEF Entry
    <3>2. Advance(e.at, SizeField) + e.size \in Nat
      BY <1>1, <3>1 DEF Advance
    <3> QED
      BY <1>2, <3>1, <3>2
  <2> QED
    BY <2>1 DEF Skip
<1> QED
  BY <1>3, <1>4

LEMMA WalkFindsEntries ==
    ASSUME file \in Files, NEW from \in Nat,
           NEW index \in Nat, NEW requested \in Nat, index <= requested
    PROVE  WalkEdps(from, index, requested) \in SUBSET Entry
<1> DEFINE P(n) == \E w \in [index..(index + n) -> SUBSET Entry] :
                     /\ w[index] = First(from)
                     /\ \A k \in index..(index + n) : k # index => w[k] = Skip(w[k - 1])
           S == {n \in Nat : P(n)}
<1>1. 0 \in S
  <2> DEFINE g == [k \in index..(index + 0) |-> First(from)]
  <2>1. First(from) \in SUBSET Entry
    BY StepsAreEntries
  <2>2. g \in [index..(index + 0) -> SUBSET Entry]
    BY <2>1
  <2>3. g[index] = First(from) /\ \A k \in index..(index + 0) : k = index
    OBVIOUS
  <2> HIDE DEF g
  <2>4. P(0)
    BY <2>2, <2>3
  <2> QED
    BY <2>4
<1>2. ASSUME NEW n \in S PROVE n + 1 \in S
  <2>1. n \in Nat /\ P(n)
    <3> HIDE DEF P
    <3> QED
      OBVIOUS
  <2>2. PICK w \in [index..(index + n) -> SUBSET Entry] :
            /\ w[index] = First(from)
            /\ \A k \in index..(index + n) : k # index => w[k] = Skip(w[k - 1])
    BY <2>1
  <2>3. PICK last \in index..(index + n) : last = index + n
    BY <2>1
  <2>4. PICK X \in SUBSET Entry : X = w[last]
    BY <2>2
  <2>5. PICK Y \in SUBSET Entry : Y = Skip(X)
    BY StepsAreEntries
  <2> DEFINE g == [k \in index..(index + (n + 1)) |-> IF k = last + 1 THEN Y ELSE w[k]]
  <2>6. ASSUME NEW k \in index..(index + (n + 1)), k # last + 1
        PROVE  k \in index..(index + n) /\ w[k] \in SUBSET Entry
    BY <2>1, <2>3, <2>6
  <2>7. g \in [index..(index + (n + 1)) -> SUBSET Entry]
    BY <2>6
  <2>8. g[index] = First(from)
    BY <2>1, <2>2, <2>3
  <2>9. ASSUME NEW k \in index..(index + (n + 1)), k # index PROVE g[k] = Skip(g[k - 1])
    <3>1. CASE k = last + 1
      <4>1. g[k] = Y /\ k - 1 = last /\ last \in index..(index + (n + 1)) /\ last # last + 1
        BY <2>1, <2>3, <3>1
      <4>2. g[k - 1] = X
        BY <4>1, <2>4
      <4> HIDE DEF g
      <4> QED
        BY <4>1, <4>2, <2>5
    <3>2. CASE k # last + 1
      <4>1. k \in index..(index + n) /\ k - 1 \in index..(index + (n + 1)) /\ k - 1 # last + 1
        BY <2>1, <2>3, <2>6, <2>9, <3>2
      <4>2. g[k] = w[k] /\ g[k - 1] = w[k - 1]
        BY <3>2, <4>1
      <4>3. w[k] = Skip(w[k - 1])
        BY <2>2, <2>9, <4>1
      <4> HIDE DEF g
      <4> QED
        BY <4>2, <4>3
    <3> QED
      BY <3>1, <3>2
  <2> HIDE DEF g
  <2>10. P(n + 1)
    BY <2>7, <2>8, <2>9
  <2> HIDE DEF P
  <2> QED
    BY <2>1, <2>10
<1>3. S = Nat
  <2> HIDE DEF S
  <2> QED
    BY <1>1, <1>2, NaturalInduction DEF S
<1>4. PICK n \in Nat : n = requested - index
  OBVIOUS
<1>5. n \in S /\ index + n = requested
  <2>1. n \in S
    BY <1>3
  <2> HIDE DEF S
  <2> QED
    BY <1>4, <2>1
<1>6. PICK w \in [index..(index + n) -> SUBSET Entry] :
        /\ w[index] = First(from)
        /\ \A k \in index..(index + n) : k # index => w[k] = Skip(w[k - 1])
  BY <1>5
<1> HIDE DEF S, P
<1>7. w = [k \in index..requested |-> w[k]]
  BY <1>5, <1>6
<1>8. WalkEdps(from, index, requested) = w[requested]
  <2>1. \A k \in index..requested : k # index => w[k] = Skip(w[k - 1])
    BY <1>5, <1>6
  <2>2. w[index] = First(from)
    BY <1>6
  <2>3. StepsFrom(w, from, index, requested)
    BY <1>7, <2>1, <2>2 DEF StepsFrom
  <2> QED
    BY <2>3, WalkGoes
<1>9. requested \in index..(index + n)
  BY <1>5
<1> QED
  BY <1>6, <1>8, <1>9

-------------------------------------------------------------------------------
(* The fields of a reader of an open file: in a section that is whole the  *)
(* cursor is at an entry, or behind the last one; where the payloads are   *)
(* in line, the file pointer is never ahead of the location.               *)
Cursor(f, index, location) ==
    /\ index \in Nat /\ index # 0 /\ location \in Nat
    /\ SectionWhole(f) /\ index \in 1..Len(f.edps) => location = EdpAt(f, index)

Started(f, r) ==
    /\ r \in Reader /\ r.type \in Versions /\ r.type = f.version /\ r.fileSize = f.size
    /\ PayloadInLine(f) => r.ptr <= r.location
    /\ Cursor(f, r.edpIndex, r.edpLocation)
    /\ SectionWhole(f) => r.edpStart = EdpStart

(* Location and pointer are at the message after those that were returned, *)
(* which are the first ones of the file.                                   *)
InStep(f, r, ret) ==
    /\ Len(ret) <= Len(f.messages)
    /\ r.location = MessageAt(f, Len(ret) + 1) /\ r.ptr = r.location
    /\ \A k \in 1..Len(ret) : ret[k] = Expected(f, k)

Given == [number : Nat, from : Nat, length : Nat]

Own(f, m) ==
    /\ m.number \in DOMAIN f.messages /\ Refers(f, m.number) => m = Expected(f, m.number)
    /\ PayloadInLine(f) => m.from + m.length <= f.size

OwnPayloads(f, ret) ==
    /\ ret \in Seq(Given)
    /\ \A k \in 1..Len(ret) : Own(f, ret[k])

LEMMA CursorMoves ==
    ASSUME file \in Files, SectionWhole(file), NEW r, Started(file, r), NEW q \in 1..Len(file.edps)
    PROVE  RequestedEdps(r, q) = {EntryNumber(q)}
<1> DEFINE n == Len(file.edps)
<1>0. /\ file \in FileType /\ n \in Nat /\ q \in Nat /\ r.edpIndex \in Nat /\ r.edpIndex # 0
      /\ r.edpIndex \in 1..n => r.edpLocation = EdpAt(file, r.edpIndex)
      /\ r.edpStart = EdpStart
  BY FileFacts DEF Started, Cursor
<1>1. PICK index \in Nat, from \in Nat :
        /\ index \in 1..q /\ from = EdpAt(file, index)
        /\ RequestedEdps(r, q) = WalkEdps(from, index, q)
  <2>1. CASE q < r.edpIndex
    <3>1. RequestedEdps(r, q) = WalkEdps(EdpStart, 1, q)
      BY <1>0, <2>1 DEF RequestedEdps
    <3>2. EdpAt(file, 1) = EdpStart /\ EdpStart \in Nat /\ 1 \in Nat /\ 1 \in 1..q
      BY <1>0, EntriesApart, SizesAssumption
    <3> QED
      BY <3>1, <3>2
  <2>2. CASE ~(q < r.edpIndex)
    <3>1. RequestedEdps(r, q) = WalkEdps(r.edpLocation, r.edpIndex, q)
      BY <2>2 DEF RequestedEdps
    <3>2. r.edpIndex \in 1..q /\ r.edpLocation = EdpAt(file, r.edpIndex) /\ r.edpLocation \in Nat
      BY <1>0, <2>2 DEF Started, Reader
    <3> QED
      BY <1>0, <3>1, <3>2
  <2> QED
    BY <2>1, <2>2
<1>2. \A k \in index..q : k \in 1..n
  BY <1>0, <1>1
<1> DEFINE steps == [k \in index..q |-> {EntryNumber(k)}]
<1>3. steps[index] = First(from)
  <2>1. index \in index..q /\ index \in 1..n
    BY <1>1, <1>2
  <2>2. \A stale \in Words : Sized(from, stale) = {EntryNumber(index)}
    BY <1>1, <2>1, EntryFound
  <2>3. First(from) = {EntryNumber(index)}
    BY <2>2, SizesAssumption DEF First
  <2> QED
    BY <2>1, <2>3
<1>4. ASSUME NEW k \in index..q, k # index PROVE steps[k] = Skip(steps[k - 1])
  <2>1. PICK j \in index..q : j = k - 1
    BY <1>1, <1>4
  <2>2. j \in 1..n /\ k \in 1..n /\ k = j + 1
    BY <1>1, <1>2, <2>1
  <2>3. steps[k] = {EntryNumber(k)} /\ steps[k - 1] = {EntryNumber(j)}
    BY <2>1
  <2>4. Skip({EntryNumber(j)}) =
            Sized(Advance(EdpAt(file, j), SizeField) + file.edps[j], file.edps[j])
    BY DEF Skip, EntryNumber
  <2>5. Advance(EdpAt(file, j), SizeField) + file.edps[j] = EdpAt(file, k)
    BY <2>2, EntryFound
  <2>6. Sized(EdpAt(file, k), file.edps[j]) = {EntryNumber(k)}
    BY <2>2, EntryFound
  <2> HIDE DEF steps
  <2> QED
    BY <2>3, <2>4, <2>5, <2>6
<1>5. steps = [k \in index..q |-> steps[k]] /\ steps[q] = {EntryNumber(q)}
  BY <1>0, <1>1
<1> HIDE DEF steps
<1>6. WalkEdps(from, index, q) = steps[q]
  <2>1. \A k \in index..q : k # index => steps[k] = Skip(steps[k - 1])
    BY <1>4
  <2>2. index <= q
    BY <1>0, <1>1
  <2>3. StepsFrom(steps, from, index, q)
    BY <1>3, <1>5, <2>1 DEF StepsFrom
  <2> QED
    BY <1>0, <2>2, <2>3, WalkGoes
<1> QED
  BY <1>1, <1>5, <1>6

LEMMA CursorFinds ==
    ASSUME file \in Files, NEW r, Started(file, r), NEW q \in Nat, q # 0
    PROVE  RequestedEdps(r, q) \in SUBSET Entry
<1>0. r.edpIndex \in Nat /\ r.edpLocation \in Nat /\ r.edpStart \in Nat
  BY DEF Started, Cursor, Reader
<1>1. CASE q < r.edpIndex
  BY <1>0, <1>1, WalkFindsEntries DEF RequestedEdps
<1>2. CASE ~(q < r.edpIndex)
  BY <1>0, <1>2, WalkFindsEntries DEF RequestedEdps
<1> QED
  BY <1>1, <1>2

(* The fields after the header, and after it was taken back.               *)
LEMMA HeaderMoves ==
    ASSUME file \in Files, NEW r, Started(file, r)
    PROVE  /\ PastHeader(r) = [r EXCEPT !.location = r.location + HeaderSize,
                                        !.ptr = Advance(r.ptr, HeaderSize)]
           /\ Started(file, PastHeader(r))
           /\ PastHeader(r).location = r.location + HeaderSize
           /\ r.ptr + HeaderSize <= file.size => PastHeader(r).ptr = r.ptr + HeaderSize
<1>0. file.size \in Nat /\ HeaderSize \in Nat
  BY FileFacts, SizesAssumption
<1>1. PastHeader(r) = [r EXCEPT !.location = r.location + HeaderSize,
                                !.ptr = Advance(r.ptr, HeaderSize)]
  BY DEF PastHeader, Started, Reader
<1>2. r \in Reader /\ r.location \in Nat /\ r.ptr \in Nat /\ (PayloadInLine(file) => r.ptr <= r.location)
  BY DEF Started, Reader
<1>3. /\ Advance(r.ptr, HeaderSize) \in Nat
      /\ PayloadInLine(file) => Advance(r.ptr, HeaderSize) <= r.location + HeaderSize
      /\ r.ptr + HeaderSize <= file.size => Advance(r.ptr, HeaderSize) = r.ptr + HeaderSize
  BY <1>0, <1>2 DEF Advance
<1>4. PICK l, t \in Nat : l = r.location + HeaderSize /\ t = Advance(r.ptr, HeaderSize)
  BY <1>0, <1>2, <1>3
<1>5. PICK r2 : r2 = [r EXCEPT !.location = l, !.ptr = t]
  OBVIOUS
<1>6. /\ r2 \in Reader /\ r2.type = r.type /\ r2.location = l /\ r2.ptr = t
      /\ r2.fileSize = r.fileSize /\ r2.edpStart = r.edpStart
      /\ r2.edpIndex = r.edpIndex /\ r2.edpLocation = r.edpLocation
  BY <1>2, <1>5 DEF Reader
<1>7. PastHeader(r) = r2
  BY <1>1, <1>4, <1>5
<1>8. Started(file, r2)
  BY <1>3, <1>4, <1>6 DEF Started
<1> QED
  BY <1>1, <1>3, <1>4, <1>6, <1>7, <1>8

(* A message that is delivered with its own payload.                       *)
LEMMA DeliverOwn ==
    ASSUME file \in Files, OwnPayloads(file, returned), NEW r, NEW h, h.number \in Nat,
           NEW from \in Nat, NEW length \in Nat,
           Own(file, [number |-> h.number, from |-> from, length |-> length]),
           Deliver(r, h, from, length)
    PROVE  /\ OwnPayloads(file, returned') /\ UNCHANGED file /\ reader' = r
           /\ condition' = "eSuccess" /\ (spoiled' <=> spoiled)
           /\ returned' = Append(returned, [number |-> h.number, from |-> from, length |-> length])
<1> DEFINE m == [number |-> h.number, from |-> from, length |-> length]
<1>1. returned' = Append(returned, m) /\ m \in Given /\ Own(file, m)
  BY DEF Deliver, Given
<1>2. returned \in Seq(Given)
  BY DEF OwnPayloads
<1> HIDE DEF m
<1>3. /\ returned' \in Seq(Given) /\ Len(returned') = Len(returned) + 1
      /\ \A k \in 1..Len(returned) : returned'[k] = returned[k]
      /\ returned'[Len(returned) + 1] = m
  BY <1>1, <1>2
<1>4. OwnPayloads(file, returned')
  <2>1. ASSUME NEW k \in 1..Len(returned')
        PROVE  Own(file, returned'[k])
    <3>1. CASE k \in 1..Len(returned)
      BY <3>1, <1>3 DEF OwnPayloads
    <3>2. CASE k = Len(returned) + 1
      BY <3>2, <1>1, <1>3
    <3> QED
      BY <3>1, <3>2, <1>2, <1>3
  <2> QED
    BY <2>1, <1>3 DEF OwnPayloads
<1>5. UNCHANGED file /\ reader' = r /\ condition' = "eSuccess" /\ (spoiled' <=> spoiled)
  BY DEF Deliver, Return
<1> QED
  BY <1>1, <1>4, <1>5 DEF m

LEMMA DeliverInStep ==
    ASSUME file \in Files, returned \in Seq(Given), NEW r, InStep(file, r, returned),
           NEW n, n = Len(returned) + 1, n <= Len(file.messages),
           NEW r2, r2.location = MessageAt(file, n) + MessageLength(file, n), r2.ptr = r2.location,
           NEW ret, ret = Append(returned, Expected(file, n))
    PROVE  InStep(file, r2, ret)
<1>1. Len(returned) \in Nat /\ n \in 1..Len(file.messages) /\ Len(file.messages) \in Nat
  BY FileFacts
<1>2. /\ Len(ret) = n
      /\ \A k \in 1..Len(returned) : ret[k] = returned[k]
      /\ ret[n] = Expected(file, n)
  BY <1>1
<1>3. MessageAt(file, n + 1) = MessageAt(file, n) + MessageLength(file, n)
  BY <1>1, FileFacts, MessagesApart
<1>4. \A k \in 1..Len(ret) : ret[k] = Expected(file, k)
  BY <1>1, <1>2 DEF InStep
<1> QED
  BY <1>1, <1>2, <1>3, <1>4 DEF InStep
-------------------------------------------------------------------------------
(* What a read from r does.                                                *)
Reads(r) ==
    /\ UNCHANGED file
    /\ Started(file, reader') /\ OwnPayloads(file, returned')
    /\ condition' # "eEndOfFile" /\ (spoiled => spoiled')
    /\ (Complete(file) /\ InStep(file, r, returned) /\ Len(returned) < Len(file.messages) /\ ~spoiled')
        => InStep(file, reader', returned')

LEMMA NextHeader ==
    ASSUME file \in Files, Complete(file), OwnPayloads(file, returned), NEW r, InStep(file, r, returned),
           Len(returned) < Len(file.messages), NEW h \in HeadersAt(r.ptr),
           NEW n, n = Len(returned) + 1
    PROVE  /\ n \in 1..Len(file.messages) /\ n <= Len(file.messages)
           /\ r.ptr = MessageAt(file, n) /\ r.location = MessageAt(file, n)
           /\ MessageAt(file, n) \in Nat
           /\ h = [number |-> n, payload |-> file.messages[n].payload]
           /\ file.messages[n].payload \in Nat
           /\ MessageAt(file, n) + MessageLength(file, n) <= file.size
           /\ MessageAt(file, n) + HeaderSize <= file.size
<1>1. Len(returned) \in Nat /\ Len(file.messages) \in Nat /\ file \in FileType
  BY FileFacts DEF OwnPayloads
<1>2. n \in 1..Len(file.messages) /\ n <= Len(file.messages) /\ n \in 1..(Len(file.messages) + 1)
  BY <1>1
<1>3. r.ptr = MessageAt(file, n) /\ r.location = MessageAt(file, n)
  BY DEF InStep
<1>4. MessageAt(file, n) \in Nat
  BY <1>1, <1>2, MessagesApart
<1>5. /\ HeadersAt(MessageAt(file, n)) = {[number |-> n, payload |-> file.messages[n].payload]}
      /\ MessageAt(file, n) + MessageLength(file, n) <= file.size
      /\ MessageAt(file, n) + HeaderSize <= file.size
  BY <1>2, HeaderFound
<1>6. file.messages[n].payload \in Nat
  BY <1>1, <1>2, MessageLengthsType
<1> QED
  BY <1>2, <1>3, <1>4, <1>5, <1>6

LEMMA FailReads ==
    ASSUME file \in Files, OwnPayloads(file, returned), NEW r, NEW r2, Started(file, r2),
           NEW length, NEW c, c # "eEndOfFile", Fail(c, r2, length),
           c = "eInvalidPayloadSize" \/ (r2.location = r.location /\ r2.ptr = r.location)
    PROVE  Reads(r)
<1>1. UNCHANGED file /\ returned' = returned /\ reader' = r2 /\ condition' = c
      /\ (c = "eInvalidPayloadSize" => spoiled') /\ (spoiled => spoiled')
  BY DEF Fail, Return
<1>2. (InStep(file, r, returned) /\ ~spoiled') => InStep(file, reader', returned')
  BY <1>1 DEF InStep
<1> QED
  BY <1>1, <1>2 DEF Reads

LEMMA ExpectedIs ==
    ASSUME NEW f, NEW i, NEW p \in Nat, p = f.messages[i].payload
    PROVE  /\ p = 0 \/ f.version = "0x101"
                => Expected(f, i) = [number |-> i, from |-> 0, length |-> 0]
           /\ p > 0 /\ f.version = "0x104"
                => Expected(f, i) = [number |-> i, from |-> MessageAt(f, i) + HeaderSize, length |-> p]
           /\ p > 0 /\ f.version \in {"0x102", "0x103"}
                => Expected(f, i) = [number |-> i, from |-> EdpAt(f, p) + SizeField, length |-> f.edps[p]]
<1>1. CASE p = 0 \/ f.version = "0x101"
  <2>1. ~(p > 0 /\ f.version = "0x104") /\ ~(p > 0 /\ f.version \in {"0x102", "0x103"})
        /\ ~(p > 0 /\ PayloadInLine(f))
    BY <1>1 DEF PayloadInLine
  <2> QED
    BY <1>1, <2>1 DEF Expected
<1>2. CASE ~(p = 0 \/ f.version = "0x101") /\ f.version = "0x104"
  <2>1. p > 0 /\ PayloadInLine(f)
    BY <1>2 DEF PayloadInLine
  <2> QED
    BY <1>2, <2>1 DEF Expected
<1>3. CASE ~(p = 0 \/ f.version = "0x101") /\ f.version # "0x104"
  <2>1. p > 0 /\ ~PayloadInLine(f)
    BY <1>3 DEF PayloadInLine
  <2> QED
    BY <1>3, <2>1 DEF Expected
<1> QED
  BY <1>1, <1>2, <1>3

(* A message without a payload.                                            *)
LEMMA PlainReads ==
    ASSUME file \in Files, OwnPayloads(file, returned), NEW r, Started(file, r),
           NEW h \in HeadersAt(r.ptr), h.payload = 0 \/ file.version = "0x101",
           Deliver(PastHeader(r), h, 0, 0)
    PROVE  Reads(r)
<1>1. Started(file, PastHeader(r))
  BY HeaderMoves
<1>2. /\ OwnPayloads(file, returned') /\ UNCHANGED file /\ reader' = PastHeader(r)
      /\ condition' = "eSuccess" /\ (spoiled' <=> spoiled)
      /\ returned' = Append(returned, [number |-> h.number, from |-> 0, length |-> 0])
  <2>1. /\ h.number \in Nat /\ h.payload \in Nat
        /\ h.number # 0 => h.payload = file.messages[h.number].payload
    BY HeadersFit
  <2>2. 0 \in Nat /\ 0 + 0 <= file.size /\ DOMAIN file.messages = 1..Len(file.messages)
    BY FileFacts
  <2> DEFINE m == [number |-> h.number, from |-> 0, length |-> 0]
  <2>3. ASSUME h.number \in DOMAIN file.messages PROVE m = Expected(file, h.number)
    <3>1. h.number # 0
      BY <2>2, <2>3
    <3> QED
      BY <2>1, <3>1, ExpectedIs
  <2>4. Own(file, m)
    BY <2>2, <2>3 DEF Own
  <2> QED
    BY <2>1, <2>2, <2>4, DeliverOwn
<1>3. ASSUME Complete(file), InStep(file, r, returned), Len(returned) < Len(file.messages)
      PROVE  InStep(file, reader', returned')
  <2>1. PICK n : n = Len(returned) + 1
    OBVIOUS
  <2>2. /\ n \in 1..Len(file.messages) /\ n <= Len(file.messages)
        /\ r.ptr = MessageAt(file, n) /\ r.location = MessageAt(file, n)
        /\ MessageAt(file, n) \in Nat
        /\ h = [number |-> n, payload |-> file.messages[n].payload]
        /\ file.messages[n].payload \in Nat
        /\ MessageAt(file, n) + HeaderSize <= file.size
    BY <1>3, <2>1, NextHeader
  <2>3. MessageLength(file, n) = HeaderSize
    BY <2>2, SizesAssumption DEF MessageLength, PayloadInLine
  <2>4. reader'.location = MessageAt(file, n) + MessageLength(file, n) /\ reader'.ptr = reader'.location
    <3>1. PastHeader(r).location = r.location + HeaderSize
      BY HeaderMoves
    <3>2. PastHeader(r).ptr = r.ptr + HeaderSize
      BY <2>2, HeaderMoves
    <3> QED
      BY <1>2, <2>2, <2>3, <3>1, <3>2
  <2>5. returned' = Append(returned, Expected(file, n))
    <3>1. file.messages[n].payload = 0 \/ file.version = "0x101"
      BY <2>2
    <3>2. Expected(file, n) = [number |-> n, from |-> 0, length |-> 0]
      BY <2>2, <3>1, ExpectedIs
    <3> QED
      BY <1>2, <2>2, <3>2
  <2> QED
    BY <1>3, <2>1, <2>2, <2>4, <2>5, DeliverInStep DEF OwnPayloads
<1> QED
  BY <1>1, <1>2, <1>3 DEF Reads

LEMMA Read101Reads ==
    ASSUME file \in Files, OwnPayloads(file, returned), NEW r, Started(file, r),
           r.type = "0x101", Read101(r)
    PROVE  Reads(r)
<1>1. PICK h \in HeadersAt(r.ptr) : Deliver(PastHeader(r), h, 0, 0)
  BY DEF Read101
<1>2. file.version = "0x101"
  BY DEF Started
<1> QED
  BY <1>1, <1>2, PlainReads

AtEntry(r, i, l) == [PastHeader(r) EXCEPT !.edpIndex = i, !.edpLocation = l]

LEMMA TakenBack ==
    ASSUME file \in Files, NEW r, Started(file, r), NEW i, NEW l, Cursor(file, i, l),
           NEW r2, r2 = AtEntry(r, i, l)
    PROVE  /\ Started(file, TakeBack(r2))
           /\ TakeBack(r2).location = r.location /\ TakeBack(r2).ptr = r.location
<1>0. HeaderSize \in Nat /\ l \in Nat /\ i \in Nat
  BY SizesAssumption DEF Cursor
<1>1. /\ PastHeader(r) \in Reader /\ r \in Reader
      /\ PastHeader(r) = [r EXCEPT !.location = r.location + HeaderSize,
                                   !.ptr = Advance(r.ptr, HeaderSize)]
  BY HeaderMoves DEF Started
<1>2. r.location \in Nat /\ (r.location + HeaderSize) - HeaderSize = r.location
  BY <1>0, <1>1 DEF Reader
<1>3. r2.location = r.location + HeaderSize
  BY <1>1 DEF Reader, AtEntry
<1>4. TakeBack(r2) = [r2 EXCEPT !.location = r.location, !.ptr = r.location]
  BY <1>2, <1>3, <1>1 DEF TakeBack, Reader, AtEntry
<1>5. TakeBack(r2) = [r EXCEPT !.location = r.location, !.ptr = r.location,
                               !.edpIndex = i, !.edpLocation = l]
  BY <1>1, <1>4 DEF Reader, AtEntry
<1>6. r.type \in Versions /\ r.type = file.version /\ r.fileSize = file.size
      /\ (SectionWhole(file) => r.edpStart = EdpStart)
  BY DEF Started
<1> DEFINE t == [r EXCEPT !.location = r.location, !.ptr = r.location,
                          !.edpIndex = i, !.edpLocation = l]
<1>7. /\ t \in Reader /\ t.type = r.type /\ t.location = r.location /\ t.ptr = r.location
      /\ t.fileSize = r.fileSize /\ t.edpStart = r.edpStart
      /\ t.edpIndex = i /\ t.edpLocation = l
  BY <1>0, <1>1, <1>2 DEF Reader
<1>8. t = TakeBack(r2)
  BY <1>5
<1> HIDE DEF t
<1>9. Started(file, t)
  BY <1>6, <1>7, <1>2 DEF Started
<1> QED
  BY <1>7, <1>8, <1>9

LEMMA Read104Reads ==
    ASSUME file \in Files, OwnPayloads(file, returned), NEW r, Started(file, r),
           r.type = "0x104", NEW buffer, Read104(r, buffer)
    PROVE  Reads(r)
<1> DEFINE after == PastHeader(r)
<1>1. PICK h \in HeadersAt(r.ptr) :
        \/ h.payload = 0 /\ Deliver(after, h, 0, 0)
        \/ h.payload > 0 /\ Fail("eInvalidPayloadSize", after, HeaderSize + h.payload)
        \/ h.payload > 0 /\ Fail("eBufferTooSmall", TakeBack(after), HeaderSize + h.payload)
        \/ /\ h.payload > 0 /\ ~TooLong(after, HeaderSize + h.payload)
           /\ Deliver([after EXCEPT !.location = @ + h.payload, !.ptr = Advance(@, h.payload)],
                      h, after.ptr, h.payload)
  BY DEF Read104
<1>2. /\ Started(file, after) /\ after.location = r.location + HeaderSize
      /\ r.ptr + HeaderSize <= file.size => after.ptr = r.ptr + HeaderSize
  BY HeaderMoves
<1>3. file.version = "0x104" /\ file.size \in Nat /\ file.start \in Nat
  BY FileFacts DEF Started
<1>4. h.number \in Nat /\ h.payload \in Nat
  BY HeadersFit
<1>5. CASE h.payload = 0 /\ Deliver(after, h, 0, 0)
  BY <1>5, PlainReads
<1>6. CASE Fail("eInvalidPayloadSize", after, HeaderSize + h.payload)
  BY <1>2, <1>6, FailReads
<1>7. CASE Fail("eBufferTooSmall", TakeBack(after), HeaderSize + h.payload)
  <2>1. PICK i, l : i = after.edpIndex /\ l = after.edpLocation /\ Cursor(file, i, l)
    BY <1>2 DEF Started
  <2>2. after = [after EXCEPT !.edpIndex = i, !.edpLocation = l]
    <3> HIDE DEF after
    <3> QED
      BY <1>2, <2>1 DEF Started, Reader
  <2>3. PICK r2 : r2 = after /\ r2 = AtEntry(r, i, l)
    BY <2>2 DEF AtEntry
  <2> HIDE DEF after
  <2>4. /\ Started(file, TakeBack(r2))
        /\ TakeBack(r2).location = r.location /\ TakeBack(r2).ptr = r.location
    BY <2>1, <2>3, TakenBack
  <2> QED
    BY <1>7, <2>3, <2>4, FailReads
<1>8. CASE /\ h.payload > 0 /\ ~TooLong(after, HeaderSize + h.payload)
           /\ Deliver([after EXCEPT !.location = @ + h.payload, !.ptr = Advance(@, h.payload)],
                      h, after.ptr, h.payload)
  <2> HIDE DEF after
  <2>0. PICK p \in Nat : p = h.payload
    BY <1>4
  <2>1. /\ after \in Reader /\ after.location \in Nat /\ after.ptr \in Nat /\ after.ptr <= after.location
        /\ after.fileSize = file.size
    BY <1>2, <1>3 DEF Started, Reader, PayloadInLine
  <2>2. PICK r2 : r2 = [after EXCEPT !.location = after.location + p, !.ptr = Advance(after.ptr, p)]
    OBVIOUS
  <2>3. Deliver(r2, h, after.ptr, p)
    BY <1>8, <2>0, <2>1, <2>2 DEF Reader
  <2>4. after.location + (HeaderSize + p) <= file.size
    BY <1>8, <2>0, <2>1, <1>3, SizesAssumption DEF TooLong
  <2>5. after.ptr + p <= file.size /\ Advance(after.ptr, p) = after.ptr + p
    <3>1. after.ptr + p <= file.size
      BY <2>1, <2>4, <1>3, SizesAssumption
    <3> QED
      BY <3>1 DEF Advance
  <2>6. /\ r2 \in Reader /\ r2.type = after.type /\ r2.location = after.location + p
        /\ r2.ptr = after.ptr + p /\ r2.fileSize = after.fileSize /\ r2.edpStart = after.edpStart
        /\ r2.edpIndex = after.edpIndex /\ r2.edpLocation = after.edpLocation
    <3>1. PICK l, t \in Nat : l = after.location + p /\ t = after.ptr + p
      BY <2>1
    <3>2. r2 = [after EXCEPT !.location = l, !.ptr = t]
      BY <2>2, <2>5, <3>1
    <3>3. /\ r2 \in Reader /\ r2.type = after.type /\ r2.location = l
          /\ r2.ptr = t /\ r2.fileSize = after.fileSize /\ r2.edpStart = after.edpStart
          /\ r2.edpIndex = after.edpIndex /\ r2.edpLocation = after.edpLocation
      BY <2>1, <3>2 DEF Reader
    <3> QED
      BY <3>1, <3>3
  <2>7. Started(file, r2)
    <3>1. after.ptr + p <= after.location + p
      BY <2>1
    <3> QED
      BY <1>2, <2>6, <3>1 DEF Started
  <2>8. /\ OwnPayloads(file, returned') /\ UNCHANGED file /\ reader' = r2
        /\ condition' = "eSuccess" /\ (spoiled' <=> spoiled)
        /\ returned' = Append(returned, [number |-> h.number, from |-> after.ptr, length |-> p])
    <3> DEFINE m == [number |-> h.number, from |-> after.ptr, length |-> p]
    <3>1. ASSUME h.number \in DOMAIN file.messages PROVE m = Expected(file, h.number)
      <4>1. h.number # 0
        BY <3>1, FileFacts
      <4>2. /\ p = file.messages[h.number].payload
            /\ r.ptr = MessageAt(file, h.number) /\ r.ptr + HeaderSize <= file.size
        BY <2>0, <4>1, HeadersFit
      <4>3. after.ptr = MessageAt(file, h.number) + HeaderSize
        BY <1>2, <4>2
      <4>4. Expected(file, h.number) =
                [number |-> h.number, from |-> MessageAt(file, h.number) + HeaderSize, length |-> p]
        BY <1>3, <1>8, <2>0, <4>2, ExpectedIs
      <4> QED
        BY <4>3, <4>4
    <3>2. m.from + m.length <= file.size
      BY <2>5
    <3>3. Own(file, m)
      BY <3>1, <3>2 DEF Own
    <3> QED
      BY <1>4, <2>1, <2>3, <3>3, DeliverOwn
  <2>9. ASSUME Complete(file), InStep(file, r, returned), Len(returned) < Len(file.messages)
        PROVE  InStep(file, reader', returned')
    <3>1. PICK n : n = Len(returned) + 1
      OBVIOUS
    <3>2. /\ n \in 1..Len(file.messages) /\ n <= Len(file.messages)
          /\ r.ptr = MessageAt(file, n) /\ r.location = MessageAt(file, n)
          /\ MessageAt(file, n) \in Nat
          /\ h = [number |-> n, payload |-> file.messages[n].payload]
          /\ MessageAt(file, n) + HeaderSize <= file.size
      BY <2>9, <3>1, NextHeader
    <3>3. h.number = n /\ p = file.messages[n].payload
      BY <2>0, <3>2
    <3>4. MessageLength(file, n) = HeaderSize + p
      BY <1>3, <3>3 DEF MessageLength, PayloadInLine
    <3>5. after.ptr = MessageAt(file, n) + HeaderSize /\ after.location = MessageAt(file, n) + HeaderSize
      BY <1>2, <3>2
    <3>6. r2.location = MessageAt(file, n) + MessageLength(file, n) /\ r2.ptr = r2.location
      BY <2>6, <3>2, <3>4, <3>5, SizesAssumption
    <3>7. Expected(file, n) = [number |-> n, from |-> MessageAt(file, n) + HeaderSize, length |-> p]
      BY <1>3, <1>8, <2>0, <3>3, ExpectedIs
    <3>8. returned' = Append(returned, Expected(file, n))
      BY <2>8, <3>3, <3>5, <3>7
    <3>9. returned \in Seq(Given)
      BY DEF OwnPayloads
    <3> QED
      BY <2>8, <2>9, <3>1, <3>2, <3>6, <3>8, <3>9, DeliverInStep
  <2> QED
    BY <2>7, <2>8, <2>9 DEF Reads
<1> QED
  BY <1>1, <1>5, <1>6, <1>7, <1>8

LEMMA GetEDPReads ==
    ASSUME file \in Files, OwnPayloads(file, returned), NEW r, Started(file, r),
           file.version \in WithSection,
           NEW h \in HeadersAt(r.ptr), h.payload > 0, NEW buffer, GetEDP(PastHeader(r), h, buffer)
    PROVE  Reads(r)
<1> DEFINE after == PastHeader(r)
           n == Len(file.edps)
<1>1. Started(file, after) /\ after.location = r.location + HeaderSize
  BY HeaderMoves
<1>2. PICK q \in Nat : q = h.payload /\ q # 0
  BY HeadersFit
<1>3. PICK e \in RequestedEdps(after, q) :
        LET at == [after EXCEPT !.edpIndex = q, !.edpLocation = e.at]
            data == Advance(e.at, SizeField)
            needed == HeaderSize + e.size
        IN  \/ Fail("eInvalidPayloadSize", [at EXCEPT !.ptr = data], needed)
            \/ Fail("eBufferTooSmall", TakeBack(at), needed)
            \/ Deliver(SeekBack([at EXCEPT !.edpLocation = @ + e.size + SizeField,
                                           !.edpIndex = @ + 1]),
                       h, data, e.size)
  BY <1>2 DEF GetEDP
<1>4. PICK place, edpSize \in Nat : place = e.at /\ edpSize = e.size
  <2>1. e \in Entry
    BY <1>1, <1>2, <1>3, CursorFinds
  <2> QED
    BY <2>1 DEF Entry
<1>5. ASSUME SectionWhole(file), q <= n
      PROVE  /\ place = EdpAt(file, q) /\ edpSize = file.edps[q]
             /\ Advance(place, SizeField) = EdpAt(file, q) + SizeField
             /\ q + 1 \in 1..n => (place + edpSize) + SizeField = EdpAt(file, q + 1)
  <2>1. q \in 1..n
    BY <1>2, <1>5, FileFacts
  <2>2. e = EntryNumber(q)
    BY <1>1, <1>3, <1>5, <2>1, CursorMoves
  <2>3. place = EdpAt(file, q) /\ edpSize = file.edps[q]
    BY <1>4, <2>2 DEF EntryNumber
  <2>4. EdpAt(file, q + 1) = (EdpAt(file, q) + SizeField) + file.edps[q]
    BY <1>5, <2>1, EntryInSection
  <2>5. (place + edpSize) + SizeField = EdpAt(file, q + 1)
    BY <2>3, <2>4, SizesAssumption
  <2> QED
    BY <1>5, <2>1, <2>3, <2>5, EntryFound
<1>6. PICK data \in Nat : data = Advance(place, SizeField)
  BY FileFacts, SizesAssumption DEF Advance
<1>7. Cursor(file, q, place)
  BY <1>2, <1>5 DEF Cursor
<1>8. PICK next, end \in Nat : next = q + 1 /\ end = place + edpSize + SizeField
  BY SizesAssumption
<1>9. Cursor(file, next, end)
  <2>1. ASSUME SectionWhole(file), next \in 1..n PROVE end = EdpAt(file, next)
    <3>1. q <= n
      BY <1>8, <2>1, FileFacts
    <3> QED
      BY <1>5, <1>8, <2>1, <3>1
  <2> QED
    BY <1>8, <2>1 DEF Cursor
<1>10. ~PayloadInLine(file)
  BY DEF PayloadInLine, WithSection
<1> HIDE DEF after
<1>11. /\ after \in Reader /\ after.type = file.version /\ after.type \in Versions
       /\ after.fileSize = file.size /\ after.location \in Nat
       /\ SectionWhole(file) => after.edpStart = EdpStart
  BY <1>1 DEF Started, Reader
<1>12. PICK at : at = [after EXCEPT !.edpIndex = q, !.edpLocation = place]
  OBVIOUS
<1>13. /\ at \in Reader /\ at.type = after.type /\ at.location = after.location
       /\ at.fileSize = after.fileSize /\ at.edpStart = after.edpStart
       /\ at.edpIndex = q /\ at.edpLocation = place
  BY <1>11, <1>12 DEF Reader
<1> DEFINE stuck == [at EXCEPT !.ptr = data]
           beyond == SeekBack([at EXCEPT !.edpLocation = end, !.edpIndex = next])
<1>14. \/ Fail("eInvalidPayloadSize", stuck, HeaderSize + edpSize)
       \/ Fail("eBufferTooSmall", TakeBack(at), HeaderSize + edpSize)
       \/ Deliver(beyond, h, data, edpSize)
  <2>1. [at EXCEPT !.edpLocation = @ + edpSize + SizeField, !.edpIndex = @ + 1]
            = [at EXCEPT !.edpLocation = end, !.edpIndex = next]
    BY <1>8, <1>13 DEF Reader
  <2> HIDE DEF stuck, beyond
  <2> QED
    BY <1>3, <1>4, <1>6, <1>12, <2>1 DEF stuck, beyond
<1>15. CASE Fail("eInvalidPayloadSize", stuck, HeaderSize + edpSize)
  <2>1. /\ stuck \in Reader /\ stuck.type = at.type /\ stuck.fileSize = at.fileSize
        /\ stuck.edpStart = at.edpStart
        /\ stuck.edpIndex = at.edpIndex /\ stuck.edpLocation = at.edpLocation
    BY <1>13 DEF Reader
  <2> HIDE DEF stuck
  <2>2. Started(file, stuck)
    BY <2>1, <1>7, <1>10, <1>11, <1>13 DEF Started
  <2> QED
    BY <1>15, <2>2, FailReads
<1>16. CASE Fail("eBufferTooSmall", TakeBack(at), HeaderSize + edpSize)
  <2>1. at = AtEntry(r, q, place)
    BY <1>12 DEF after, AtEntry
  <2>2. /\ Started(file, TakeBack(at))
        /\ TakeBack(at).location = r.location /\ TakeBack(at).ptr = r.location
    BY <1>7, <2>1, TakenBack
  <2> QED
    BY <1>16, <2>2, FailReads
<1>17. CASE Deliver(beyond, h, data, edpSize)
  <2>1. PICK l \in Nat : l = after.location
    BY <1>11
  <2>2. PICK r2 : r2 = [at EXCEPT !.edpLocation = end, !.edpIndex = next, !.ptr = l]
    OBVIOUS
  <2>3. /\ r2 \in Reader /\ r2.type = at.type /\ r2.location = at.location
        /\ r2.ptr = l /\ r2.fileSize = at.fileSize /\ r2.edpStart = at.edpStart
        /\ r2.edpIndex = next /\ r2.edpLocation = end
    BY <1>13, <2>2 DEF Reader
  <2>4. beyond = r2
    BY <1>13, <2>1, <2>2 DEF SeekBack, Reader
  <2> HIDE DEF beyond
  <2>5. Started(file, r2)
    BY <2>3, <1>9, <1>10, <1>11, <1>13 DEF Started
  <2>6. /\ h.number \in Nat
        /\ h.number # 0 => q = file.messages[h.number].payload /\ file.start <= file.size
    BY <1>2, HeadersFit
  <2> DEFINE m == [number |-> h.number, from |-> data, length |-> edpSize]
  <2>7. ASSUME h.number \in DOMAIN file.messages, Refers(file, h.number)
        PROVE  m = Expected(file, h.number)
    <3>1. h.number # 0
      BY <2>7, FileFacts
    <3>2. q = file.messages[h.number].payload /\ q <= n
      BY <2>6, <2>7, <3>1 DEF Refers
    <3>3. SectionWhole(file)
      <4>1. file.edps # <<>>
        BY <1>2, <3>2
      <4> QED
        BY <2>6, <3>1, <4>1 DEF SectionWhole
    <3>4. data = EdpAt(file, q) + SizeField /\ edpSize = file.edps[q]
      BY <1>5, <1>6, <3>2, <3>3
    <3> HIDE DEF n
    <3>5. Expected(file, h.number) =
            [number |-> h.number, from |-> EdpAt(file, q) + SizeField, length |-> file.edps[q]]
      BY <1>2, <3>2, ExpectedIs DEF WithSection
    <3> QED
      BY <3>4, <3>5
  <2>8. Own(file, m)
    BY <1>10, <2>7 DEF Own
  <2>9. /\ OwnPayloads(file, returned') /\ UNCHANGED file /\ reader' = r2
        /\ condition' = "eSuccess" /\ (spoiled' <=> spoiled)
        /\ returned' = Append(returned, m)
    BY <1>17, <2>4, <2>6, <2>8, DeliverOwn
  <2>10. ASSUME Complete(file), InStep(file, r, returned), Len(returned) < Len(file.messages)
         PROVE  InStep(file, reader', returned')
    <3>1. PICK k : k = Len(returned) + 1
      OBVIOUS
    <3>2. /\ k \in 1..Len(file.messages) /\ k <= Len(file.messages)
          /\ r.location = MessageAt(file, k)
          /\ h = [number |-> k, payload |-> file.messages[k].payload]
      BY <2>10, <3>1, NextHeader
    <3>3. h.number = k /\ k \in DOMAIN file.messages /\ Refers(file, k)
      BY <2>10, <3>2, FileFacts DEF Complete
    <3>4. MessageLength(file, k) = HeaderSize
      BY <1>10, SizesAssumption DEF MessageLength
    <3>5. r2.location = MessageAt(file, k) + MessageLength(file, k) /\ r2.ptr = r2.location
      BY <1>1, <1>13, <2>1, <2>3, <3>2, <3>4
    <3>6. m = Expected(file, k)
      BY <2>7, <3>3
    <3> HIDE DEF m
    <3>7. returned' = Append(returned, Expected(file, k))
      BY <2>9, <3>6
    <3>8. returned \in Seq(Given)
      BY DEF OwnPayloads
    <3> QED
      BY <2>9, <2>10, <3>1, <3>2, <3>5, <3>7, <3>8, DeliverInStep
  <2> QED
    BY <2>5, <2>9, <2>10 DEF Reads
<1> QED
  BY <1>14, <1>15, <1>16, <1>17

LEMMA Read102Reads ==
    ASSUME file \in Files, OwnPayloads(file, returned), NEW r, Started(file, r),
           r.type \in WithSection, NEW buffer, Read102(r, buffer)
    PROVE  Reads(r)
<1>1. PICK h \in HeadersAt(r.ptr) :
        \/ h.payload = 0 /\ Deliver(PastHeader(r), h, 0, 0)
        \/ h.payload > 0 /\ GetEDP(PastHeader(r), h, buffer)
  BY DEF Read102
<1>2. file.version \in WithSection
  BY DEF Started
<1>3. CASE h.payload = 0 /\ Deliver(PastHeader(r), h, 0, 0)
  BY <1>3, PlainReads
<1>4. CASE h.payload > 0 /\ GetEDP(PastHeader(r), h, buffer)
  BY <1>2, <1>4, GetEDPReads
<1> QED
  BY <1>1, <1>3, <1>4
-------------------------------------------------------------------------------
NotOpened == [type |-> "none", location |-> 0, ptr |-> 0, fileSize |-> FakeSize,
              edpStart |-> EdpStart, edpIndex |-> 1, edpLocation |-> EdpStart]

(* The inductive invariant: the object has not opened its file, or is      *)
(* where its file and the messages it returned say.                        *)
ReaderInv ==
    /\ file \in Files /\ OwnPayloads(file, returned)
    /\ reader.type = "none" => reader = NotOpened /\ returned = <<>> /\ condition # "eEndOfFile"
    /\ reader.type # "none" => Started(file, reader)
    /\ Complete(file) /\ ~spoiled =>
        /\ reader.type # "none" => InStep(file, reader, returned)
        /\ condition = "eEndOfFile" => Len(returned) = Len(file.messages)

LEMMA ReaderInvInit == ReaderInit => ReaderInv
<1> SUFFICES ASSUME ReaderInit PROVE ReaderInv
  OBVIOUS
<1>1. file \in Files /\ returned = <<>> /\ reader = NotOpened /\ condition = "none"
  BY DEF ReaderInit, NotOpened
<1>2. OwnPayloads(file, returned)
  BY <1>1 DEF OwnPayloads
<1>3. reader.type = "none"
  BY <1>1 DEF NotOpened
<1> QED
  BY <1>1, <1>2, <1>3 DEF ReaderInv

(* The end of a complete file is behind its last message.                  *)
LEMMA EndIsReached ==
    ASSUME ReaderInv
    PROVE  /\ reader.type = "none" => ~AtEnd
           /\ (Complete(file) /\ ~spoiled /\ reader.type # "none") =>
                (AtEnd <=> Len(returned) = Len(file.messages))
<1>1. ASSUME reader.type = "none" PROVE ~AtEnd
  <2>1. reader.location = 0 /\ reader.fileSize = FakeSize
    BY <1>1 DEF ReaderInv, NotOpened
  <2> QED
    BY <2>1, SizesAssumption DEF AtEnd
<1>2. ASSUME Complete(file), ~spoiled, reader.type # "none"
      PROVE  AtEnd <=> Len(returned) = Len(file.messages)
  <2>1. InStep(file, reader, returned) /\ Started(file, reader) /\ file \in Files
    BY <1>2 DEF ReaderInv
  <2>2. PICK n, N \in Nat : n = Len(returned) /\ N = Len(file.messages) /\ n <= N
    BY <2>1, FileFacts DEF InStep, ReaderInv, OwnPayloads
  <2>3. PICK end \in Nat : end = MessageAt(file, N + 1)
    BY <2>1, <2>2, FileFacts, MessagesApart
  <2>4. PICK size \in Nat : /\ size = reader.fileSize /\ size = file.size
                            /\ end <= size /\ size <= end + EndSlack
    BY <2>1, <2>2, <2>3, <1>2, FileFacts, SizesAssumption DEF Started, Complete, MessagesEnd
  <2>5. PICK at \in Nat : at = MessageAt(file, n + 1) /\ reader.location = at
    BY <2>1, <2>2, FileFacts, MessagesApart DEF InStep
  <2>6. AtEnd <=> at + EndSlack >= size
    BY <2>4, <2>5 DEF AtEnd
  <2>7. CASE n = N
    BY <2>2, <2>3, <2>4, <2>5, <2>6, <2>7
  <2>8. CASE n # N
    <3>1. n + 1 \in 1..(N + 1) /\ N + 1 \in 1..(N + 1) /\ n + 1 < N + 1
      BY <2>2, <2>8
    <3>2. at + HeaderSize <= end
      BY <3>1, <2>1, <2>2, <2>3, <2>5, FileFacts, MessagesApart
    <3>3. at + EndSlack < size
      BY <3>2, <2>4, SizesAssumption
    <3> QED
      BY <3>3, <2>2, <2>4, <2>6, <2>8, SizesAssumption
  <2> QED
    BY <2>7, <2>8
<1> QED
  BY <1>1, <1>2

(* The reader a message is read by.                                        *)
LEMMA ReadingFacts ==
    ASSUME ReaderInv, ~AtEnd, reader.type = "none" => file.version # "unreadable",
           NEW r \in Reading
    PROVE  /\ Started(file, r)
           /\ Complete(file) /\ ~spoiled =>
                InStep(file, r, returned) /\ Len(returned) < Len(file.messages)
<1>0. file \in Files /\ file \in FileType /\ file.start \in Nat /\ file.size \in Nat
      /\ Len(file.messages) \in Nat /\ Len(file.edps) \in Nat
  BY FileFacts DEF ReaderInv
<1>1. CASE reader.type = "none"
  <2>1. r \in Opened /\ returned = <<>>
    BY <1>1 DEF Reading, ReaderInv
  <2>2. file.version \in Versions
    BY <1>0, <1>1, FileFacts
  <2>3. PICK start, at \in SectionPlaces :
            r = [type |-> file.version, location |-> file.start, ptr |-> file.start,
                 fileSize |-> file.size, edpStart |-> start, edpIndex |-> 1, edpLocation |-> at]
    BY <2>1 DEF Opened
  <2>4. /\ start \in Nat /\ at \in Nat
        /\ SectionWhole(file) => start = EdpStart /\ at = EdpStart
    BY SizesAssumption DEF SectionPlaces, SectionWhole
  <2>5. /\ r \in Reader /\ r.type = file.version /\ r.location = file.start /\ r.ptr = file.start
        /\ r.fileSize = file.size /\ r.edpStart = start /\ r.edpIndex = 1 /\ r.edpLocation = at
    BY <1>0, <2>2, <2>3, <2>4 DEF Reader
  <2>6. Started(file, r)
    <3>1. EdpAt(file, 1) = EdpStart
      BY <1>0, EntriesApart
    <3>2. Cursor(file, r.edpIndex, r.edpLocation)
      BY <2>4, <2>5, <3>1 DEF Cursor
    <3> QED
      BY <1>0, <2>2, <2>4, <2>5, <3>2 DEF Started
  <2>7. ASSUME Complete(file)
        PROVE  InStep(file, r, <<>>) /\ 0 < Len(file.messages)
    <3>1. MessageAt(file, 0 + 1) = file.start
      BY <1>0, MessagesApart
    <3>2. Len(file.messages) # 0
      <4>1. \A R : \A m \in Seq(R) : Len(m) = 0 => m = <<>>
        OBVIOUS
      <4> QED
        BY <4>1, <2>7, <1>0 DEF Complete, FileType
    <3>3. Len(<<>>) = 0
      OBVIOUS
    <3> QED
      BY <1>0, <2>5, <3>1, <3>2, <3>3 DEF InStep
  <2> QED
    BY <2>1, <2>6, <2>7
<1>2. CASE reader.type # "none"
  <2>1. r = reader /\ Started(file, reader)
    BY <1>2 DEF Reading, ReaderInv
  <2>2. ASSUME Complete(file), ~spoiled
        PROVE  InStep(file, reader, returned) /\ Len(returned) < Len(file.messages)
    <3>1. InStep(file, reader, returned)
      BY <1>2, <2>2 DEF ReaderInv
    <3>2. Len(returned) # Len(file.messages)
      BY <1>2, <2>2, EndIsReached
    <3>3. Len(returned) \in Nat /\ Len(returned) <= Len(file.messages)
      BY <3>1 DEF InStep, ReaderInv, OwnPayloads
    <3> QED
      BY <3>1, <3>2, <3>3, <1>0
  <2> QED
    BY <2>1, <2>2
<1> QED
  BY <1>1, <1>2

LEMMA ReadMessageReads ==
    ASSUME ReaderInv, NEW buffer, ReadMessage(buffer)
    PROVE  \E r \in Reading : Reads(r)
<1>1. ~AtEnd /\ (reader.type = "none" => file.version # "unreadable")
  BY DEF ReadMessage
<1>2. PICK r \in Reading :
        \/ r.type = "0x101" /\ Read101(r)
        \/ r.type \in WithSection /\ Read102(r, buffer)
        \/ r.type = "0x104" /\ Read104(r, buffer)
  BY DEF ReadMessage
<1>3. Started(file, r) /\ file \in Files /\ OwnPayloads(file, returned)
  BY <1>1, ReadingFacts DEF ReaderInv
<1> QED
  BY <1>2, <1>3, Read101Reads, Read102Reads, Read104Reads

LEMMA ReaderInvStep ==
    ASSUME ReaderInv, NEW buffer, ReadNextMessage(buffer)
    PROVE  ReaderInv'
<1>1. CASE ReadEnd
  <2>1. /\ AtEnd /\ UNCHANGED <<file, returned, reader>>
        /\ condition' = "eEndOfFile" /\ (spoiled' <=> spoiled)
    BY <1>1 DEF ReadEnd, Fail, Return
  <2>2. reader.type # "none"
    BY <2>1, EndIsReached
  <2>3. Complete(file) /\ ~spoiled => Len(returned) = Len(file.messages)
    BY <2>1, <2>2, EndIsReached
  <2> QED
    BY <2>1, <2>2, <2>3 DEF ReaderInv
<1>2. CASE ReadError
  <2>1. /\ UNCHANGED <<file, returned, reader>>
        /\ condition' = "eError" /\ (spoiled' <=> spoiled)
    BY <1>2 DEF ReadError, Fail, Return
  <2> QED
    BY <2>1 DEF ReaderInv
<1>3. CASE ReadMessage(buffer)
  <2>1. PICK r \in Reading : Reads(r)
    BY <1>3, ReadMessageReads
  <2>2. /\ UNCHANGED file /\ Started(file, reader') /\ OwnPayloads(file, returned')
        /\ condition' # "eEndOfFile" /\ (spoiled => spoiled')
    BY <2>1 DEF Reads
  <2>3. reader'.type # "none"
    BY <2>2 DEF Started, Versions
  <2>4. Complete(file) /\ ~spoiled' => InStep(file, reader', returned')
    <3>1. Complete(file) /\ ~spoiled =>
            InStep(file, r, returned) /\ Len(returned) < Len(file.messages)
      BY <1>3, ReadingFacts DEF ReadMessage
    <3> QED
      BY <2>1, <2>2, <3>1 DEF Reads
  <2> QED
    BY <2>2, <2>3, <2>4 DEF ReaderInv
<1> QED
  BY <1>1, <1>2, <1>3 DEF ReadNextMessage

LEMMA ReaderInvNext == ReaderInv /\ [ReaderNext]_readerVars => ReaderInv'
<1> SUFFICES ASSUME ReaderInv, [ReaderNext]_readerVars PROVE ReaderInv'
  OBVIOUS
<1>1. CASE Call
  BY <1>1, ReaderInvStep DEF Call
<1>2. CASE Retry
  BY <1>2, ReaderInvStep DEF Retry
<1>3. CASE UNCHANGED readerVars
  BY <1>3 DEF readerVars, ReaderInv
<1> QED
  BY <1>1, <1>2, <1>3 DEF ReaderNext

(* The reader is where its file and what it returned say, for every        *)
(* recording, cut or not, and all buffers (VSBIO.cpp:73-151).              *)
THEOREM ReaderInvariant == ReaderSpec => []ReaderInv
<1> QED
  BY ReaderInvInit, ReaderInvNext, PTL DEF ReaderSpec

(* Whatever is missing at the end of a recording and whatever its last     *)
(* bytes are taken for, a message comes with its own payload, unless that  *)
(* is not in the section, and a payload in line is in the file             *)
(* (VSBIO.cpp:269-335).                                                    *)
THEOREM PayloadsOwned == ReaderSpec => []PayloadsAreOwn
<1>1. ReaderInv => PayloadsAreOwn
  <2> SUFFICES ASSUME ReaderInv, NEW k \in DOMAIN returned
               PROVE  Own(file, returned[k])
    BY DEF PayloadsAreOwn, Own
  <2>1. returned \in Seq(Given)
    BY DEF ReaderInv, OwnPayloads
  <2>2. k \in 1..Len(returned)
    BY <2>1
  <2> QED
    BY <2>2 DEF ReaderInv, OwnPayloads
<1> QED
  BY <1>1, ReaderInvariant, PTL

(* The messages of a complete recording come in the order of the file,     *)
(* each with its own payload, and the end after the last one, until a      *)
(* payload is rejected (VSBIO.cpp:84-89, 232-335).                         *)
THEOREM InFileOrder == ReaderSpec => []ReadsInOrder
<1>1. ReaderInv => ReadsInOrder
  <2> SUFFICES ASSUME ReaderInv, Complete(file), ~spoiled
               PROVE  /\ \A k \in DOMAIN returned :
                            k \in DOMAIN file.messages /\ returned[k] = Expected(file, k)
                      /\ condition = "eEndOfFile" => Len(returned) = Len(file.messages)
    BY DEF ReadsInOrder
  <2>1. file \in Files /\ returned \in Seq(Given)
    BY DEF ReaderInv, OwnPayloads
  <2>2. DOMAIN returned = 1..Len(returned) /\ DOMAIN file.messages = 1..Len(file.messages)
        /\ Len(returned) \in Nat /\ Len(file.messages) \in Nat
    BY <2>1, FileFacts
  <2>3. CASE reader.type = "none"
    <3>1. returned = <<>>
      BY <2>3 DEF ReaderInv
    <3> QED
      BY <3>1 DEF ReaderInv
  <2>4. CASE reader.type # "none"
    <3>1. InStep(file, reader, returned)
      BY <2>4 DEF ReaderInv
    <3> QED
      BY <2>2, <3>1 DEF InStep, ReaderInv
  <2> QED
    BY <2>3, <2>4
<1> QED
  BY <1>1, ReaderInvariant, PTL
-------------------------------------------------------------------------------
(* What Recordings promises of a file that VSBIOWrite closed.              *)
PromisedAt(f, n) ==
    Promised!ReadAt([Promised!Closed(f.messages) EXCEPT !.opens = f.version # "unreadable"], n)

LEMMA PromisedIs ==
    ASSUME NEW f \in FileType, NEW n \in Nat, NEW N, N = Len(f.messages)
    PROVE  /\ f.version = "unreadable" => PromisedAt(f, n) = "eError"
           /\ (f.version # "unreadable" /\ N > 0 /\ n >= N) => PromisedAt(f, n) = "eEndOfFile"
           /\ (f.version # "unreadable" /\ n + 1 < N) => PromisedAt(f, n) = "eSuccess"
           /\ (f.version # "unreadable" /\ n + 1 = N)
                => PromisedAt(f, n) = IF f.messages[N].payload > 0 THEN "eInvalidPayloadSize"
                                                                   ELSE "eSuccess"
<1> DEFINE rejects == IF N > 0 /\ f.messages[N].payload > 0 THEN N ELSE N + 1
           r == [opens |-> f.version # "unreadable", messages |-> f.messages, rejects |-> rejects]
<1>0. N \in Nat /\ rejects \in Nat /\ rejects <= N + 1 /\ (N > 0 => rejects >= N)
  BY DEF FileType
<1>1. PromisedAt(f, n) = Promised!ReadAt(r, n)
  <2>1. [Promised!Closed(f.messages) EXCEPT !.opens = f.version # "unreadable"] = r
    BY DEF Promised!Closed
  <2> QED
    BY <2>1 DEF PromisedAt
<1>2. /\ (r.opens <=> f.version # "unreadable") /\ r.messages = f.messages
      /\ r.rejects = rejects
  OBVIOUS
<1> HIDE DEF rejects, r
<1>3. f.version = "unreadable" => Promised!ReadAt(r, n) = "eError"
  BY <1>2 DEF Promised!ReadAt
<1>4. ASSUME f.version # "unreadable", N > 0
      PROVE  Promised!ReadAt(r, n) = IF n < rejects - 1 THEN "eSuccess"
                                     ELSE IF n < N THEN "eInvalidPayloadSize" ELSE "eEndOfFile"
  <2>1. f.messages # <<>>
    BY <1>4
  <2>2. Promised!Contents(r) = SubSeq(f.messages, 1, rejects - 1)
    BY <1>2, <1>4, <2>1 DEF Promised!Contents
  <2>3. Len(SubSeq(f.messages, 1, rejects - 1)) = rejects - 1
    <3>1. \A R : \A m \in Seq(R) : \A k \in 0..Len(m) : Len(SubSeq(m, 1, k)) = k
      OBVIOUS
    <3>2. PICK k \in 0..Len(f.messages) : k = rejects - 1
      BY <1>0, <1>4
    <3> QED
      BY <3>1, <3>2 DEF FileType
  <2> QED
    BY <1>2, <1>4, <2>2, <2>3 DEF Promised!ReadAt
<1> QED
  BY <1>0, <1>1, <1>3, <1>4 DEF rejects

LEMMA ReadKeepsPromise ==
    ASSUME ReaderInv, Complete(file), file.version = "0x104", ~spoiled, ~AtEnd,
           NEW r \in Reading, NEW buffer, Read104(r, buffer), condition' # "eBufferTooSmall"
    PROVE  condition' = PromisedAt(file, Len(returned))
<1> DEFINE after == PastHeader(r)
           N == Len(file.messages)
<1>0. file \in Files /\ file \in FileType /\ N \in Nat /\ OwnPayloads(file, returned)
      /\ file.version # "unreadable"
  BY FileFacts DEF ReaderInv
<1>1. Started(file, r) /\ InStep(file, r, returned) /\ Len(returned) < N
  BY ReadingFacts
<1>2. PICK n : n = Len(returned) + 1
  OBVIOUS
<1>3. Len(returned) \in Nat /\ n \in 1..N /\ Len(returned) = n - 1 /\ MessageAt(file, n) \in Nat
  BY <1>0, <1>1, <1>2, MessagesApart DEF OwnPayloads
<1>4. PICK h \in HeadersAt(r.ptr) :
        \/ h.payload = 0 /\ condition' = "eSuccess"
        \/ h.payload > 0 /\ TooLong(after, HeaderSize + h.payload) /\ condition' = "eInvalidPayloadSize"
        \/ h.payload > 0 /\ ~TooLong(after, HeaderSize + h.payload) /\ condition' = "eSuccess"
  BY DEF Read104, Deliver, Fail, Return
<1>5. h.payload = file.messages[n].payload /\ r.location = MessageAt(file, n)
  BY <1>0, <1>1, <1>2, NextHeader
<1>6. PICK p, at \in Nat : p = h.payload /\ at = MessageAt(file, n)
  BY <1>0, <1>3, <1>5, MessageLengthsType
<1>7. after.location = at + HeaderSize /\ after.fileSize = file.size
  BY <1>0, <1>1, <1>5, <1>6, HeaderMoves DEF Started
<1> HIDE DEF after
<1>8. TooLong(after, HeaderSize + p) <=> (at + HeaderSize) + (HeaderSize + p) > file.size
  BY <1>7 DEF TooLong
<1>9. PICK next, end \in Nat : /\ next = MessageAt(file, n + 1) /\ end = MessageAt(file, N + 1)
                               /\ next = at + (HeaderSize + p) /\ end = file.size
  <2>1. MessageLength(file, n) = HeaderSize + p
    BY <1>5, <1>6 DEF MessageLength, PayloadInLine
  <2>2. MessageAt(file, n + 1) = at + (HeaderSize + p)
    BY <2>1, <1>0, <1>3, <1>6, MessagesApart
  <2>3. MessageAt(file, N + 1) \in Nat
    BY <1>0, MessagesApart
  <2>4. MessageAt(file, N + 1) = file.size
    BY <2>3, FileFacts, <1>0 DEF Complete, MessagesEnd
  <2> QED
    BY <2>2, <2>3, <2>4, <1>6, SizesAssumption
<1>10. CASE n < N
  <2>1. n + 1 \in 1..(N + 1) /\ N + 1 \in 1..(N + 1) /\ n + 1 < N + 1
    BY <1>0, <1>3, <1>10
  <2>2. next + HeaderSize <= end
    BY <2>1, <1>0, <1>9, MessagesApart
  <2>3. ~TooLong(after, HeaderSize + p)
    <3>1. \A a, b, c, H \in Nat : b = a + (H + c) => (b + H = (a + H) + (H + c))
      OBVIOUS
    <3>2. (at + HeaderSize) + (HeaderSize + p) <= end
      BY <3>1, <2>2, <1>9, SizesAssumption
    <3>3. ~((at + HeaderSize) + (HeaderSize + p) > file.size)
      <4>1. PICK x \in Nat : x = (at + HeaderSize) + (HeaderSize + p)
        BY <1>6, SizesAssumption
      <4>2. x <= end
        BY <3>2, <4>1
      <4>3. ~(x > file.size)
        BY <4>2, <1>9
      <4> QED
        BY <4>1, <4>3
    <3> QED
      BY <3>3, <1>8
  <2>4. condition' = "eSuccess"
    BY <2>3, <1>4, <1>6
  <2>5. Len(returned) + 1 < N /\ Len(returned) \in Nat
    BY <1>2, <1>3, <1>10
  <2>6. PromisedAt(file, Len(returned)) = "eSuccess"
    BY <2>5, <1>0, PromisedIs
  <2> QED
    BY <2>4, <2>6
<1>11. CASE n = N
  <2>1. TooLong(after, HeaderSize + p)
    <3>1. HeaderSize \in Nat /\ HeaderSize > 0
      BY SizesAssumption
    <3>2. next = end
      BY <1>9, <1>11
    <3>3. (at + HeaderSize) + (HeaderSize + p) > at + (HeaderSize + p)
      BY <3>1
    <3> QED
      BY <1>8, <1>9, <3>2, <3>3
  <2>2. condition' = IF p > 0 THEN "eInvalidPayloadSize" ELSE "eSuccess"
    BY <2>1, <1>4, <1>6
  <2>3. Len(returned) + 1 = N /\ p = file.messages[N].payload
    BY <1>2, <1>5, <1>6, <1>11
  <2> QED
    BY <2>2, <2>3, <1>0, <1>3, PromisedIs
<1> QED
  BY <1>3, <1>10, <1>11

LEMMA StepKeepsPromise ==
    ASSUME ReaderInv, NEW buffer, ReadNextMessage(buffer),
           file.version = "unreadable" \/ (Complete(file) /\ file.version = "0x104"),
           ~spoiled, condition' # "eBufferTooSmall"
    PROVE  condition' = PromisedAt(file, Len(returned))
<1>0. file \in FileType /\ Len(returned) \in Nat /\ Len(file.messages) \in Nat
  BY FileFacts DEF ReaderInv, OwnPayloads
<1>1. CASE file.version = "unreadable"
  <2>1. reader.type = "none" /\ ~AtEnd
    <3>1. ~Started(file, reader)
      BY <1>1 DEF Started, Versions
    <3> QED
      BY <3>1, EndIsReached DEF ReaderInv
  <2>2. ReadError
    BY <1>1, <2>1 DEF ReadNextMessage, ReadEnd, ReadMessage
  <2>3. condition' = "eError"
    BY <2>2 DEF ReadError, Fail, Return
  <2> QED
    BY <1>0, <1>1, <2>3, PromisedIs
<1>2. CASE Complete(file) /\ file.version = "0x104"
  <2>1. CASE ReadEnd
    <3>1. AtEnd /\ condition' = "eEndOfFile"
      BY <2>1 DEF ReadEnd, Fail, Return
    <3>2. reader.type # "none"
      BY <3>1, EndIsReached
    <3>3. Len(returned) = Len(file.messages)
      BY <1>2, <3>1, <3>2, EndIsReached
    <3>4. Len(file.messages) > 0
      <4>1. \A R : \A m \in Seq(R) : Len(m) = 0 => m = <<>>
        OBVIOUS
      <4> QED
        BY <4>1, <1>0, <1>2 DEF Complete, FileType
    <3> QED
      BY <1>0, <1>2, <3>1, <3>3, <3>4, PromisedIs
  <2>2. CASE ReadMessage(buffer)
    <3>1. ~AtEnd /\ (reader.type = "none" => file.version # "unreadable")
      BY <2>2 DEF ReadMessage
    <3>2. PICK r \in Reading :
            \/ r.type = "0x101" /\ Read101(r)
            \/ r.type \in WithSection /\ Read102(r, buffer)
            \/ r.type = "0x104" /\ Read104(r, buffer)
      BY <2>2 DEF ReadMessage
    <3>3. r.type = "0x104"
      BY <1>2, <3>1, ReadingFacts DEF Started
    <3>4. Read104(r, buffer)
      BY <3>2, <3>3 DEF WithSection
    <3> QED
      BY <1>2, <3>1, <3>4, ReadKeepsPromise
  <2>3. ~ReadError
    BY <1>2 DEF ReadError
  <2> QED
    BY <2>1, <2>2, <2>3 DEF ReadNextMessage
<1> QED
  BY <1>1, <1>2

(* Every call on a file that VSBIOWrite closed, or that cannot be opened,  *)
(* returns the condition that Recordings promises to the modules of whole  *)
(* recordings, until a payload is rejected (VSBIO.cpp:73-151).             *)
THEOREM PromiseKept == ReaderSpec => KeepsPromise
<1>1. ASSUME ReaderInv, [ReaderNext]_readerVars
      PROVE  [ /\ file.version = "unreadable" \/ (Complete(file) /\ file.version = "0x104")
               /\ ~spoiled /\ condition' # "eBufferTooSmall"
               => condition' = PromisedAt(file, Len(returned)) ]_readerVars
  <2>1. CASE \E buffer : ReadNextMessage(buffer)
    BY <1>1, <2>1, StepKeepsPromise
  <2>2. CASE UNCHANGED readerVars
    BY <2>2
  <2> QED
    BY <1>1, <2>1, <2>2 DEF ReaderNext, Call, Retry
<1> QED
  BY <1>1, ReaderInvariant, PTL DEF ReaderSpec, KeepsPromise, PromisedAt
================================================================================
