------------------------- MODULE ConversionParts_proofs -------------------------
(* Theorems about the parts of the conversion by themselves: OutputBuffer, *)
(* for every capacity, flush size and input, SegmentReassembly, for every  *)
(* set of devices, streams and messages, every counter width and every     *)
(* recording, and the drop detector of CaptureChannel, whatever of the     *)
(* streams it watches is recorded.                                         *)
EXTENDS OutputBuffer, SegmentReassembly, CaptureChannel, DataLemmas, FiniteSetTheorems

-------------------------------------------------------------------------------
(* The output buffer.                                                      *)
(* How to find an element of a concatenation.                              *)
LEMMA ConcatFacts ==
    ASSUME NEW S, NEW s \in Seq(S), NEW t \in Seq(S)
    PROVE  /\ s \o t \in Seq(S)
           /\ Len(s \o t) = Len(s) + Len(t)
           /\ \A i \in 1..Len(s) : (s \o t)[i] = s[i]
           /\ \A i \in 1..Len(t) : (s \o t)[Len(s) + i] = t[i]
  OBVIOUS

(* What the permutation of a sort is, and what a flush does with it.       *)
LEMMA WriteOrderBijective ==
    ASSUME NEW buf \in Seq(Entry), NEW order \in WriteOrders(buf)
    PROVE  /\ order \in [1..Len(buf) -> 1..Len(buf)]
           /\ \A i, j \in 1..Len(buf) : order[i] = order[j] => i = j
  BY DEF WriteOrders, StableOrders, Bijection, Injection, Surjection, IsInjective

Rearranges(order, buf, count) ==
    /\ \A i, j \in 1..Len(buf) : order[i] = order[j] => i = j
    /\ written' \in Seq(Entry)
    /\ outBuffer' \in Seq(Entry)
    /\ Len(written') = Len(written) + count
    /\ Len(outBuffer') = Len(buf) - count
    /\ \A i \in 1..Len(written) : written'[i] = written[i]
    /\ \A i \in 1..count : written'[Len(written) + i] = buf[order[i]]
    /\ \A i \in 1..(Len(buf) - count) : outBuffer'[i] = buf[order[count + i]]

LEMMA FlushRearranges ==
    ASSUME BufferTypeOK, NEW buf \in Seq(Entry), NEW count \in 0..Len(buf),
           FlushBuffer(buf, count)
    PROVE  /\ \E order \in [1..Len(buf) -> 1..Len(buf)] :
                order \in WriteOrders(buf) /\ Rearranges(order, buf, count)
           /\ written' \in Seq(Entry)
           /\ outBuffer' \in Seq(Entry)
           /\ Len(written') = Len(written) + count
           /\ Len(outBuffer') = Len(buf) - count
<1>1. PICK order \in WriteOrders(buf) :
        /\ written' = written \o [i \in 1..count |-> buf[order[i]]]
        /\ outBuffer' = [i \in 1..(Len(buf) - count) |-> buf[order[i + count]]]
  BY DEF FlushBuffer
<1>2. order \in [1..Len(buf) -> 1..Len(buf)]
      /\ \A i, j \in 1..Len(buf) : order[i] = order[j] => i = j
  BY WriteOrderBijective
<1> DEFINE out == [i \in 1..count |-> buf[order[i]]]
<1> DEFINE rest == [i \in 1..(Len(buf) - count) |-> buf[order[i + count]]]
<1>3. out \in Seq(Entry) /\ Len(out) = count
  <2>1. out \in [1..count -> Entry]
    BY <1>2
  <2> QED
    BY <2>1, FunctionIsSequence
<1>4. rest \in Seq(Entry) /\ Len(rest) = Len(buf) - count
  <2>1. rest \in [1..(Len(buf) - count) -> Entry] /\ Len(buf) - count \in Nat
    BY <1>2
  <2> HIDE DEF rest
  <2> QED
    BY <2>1, FunctionIsSequence
<1>5. written \in Seq(Entry) /\ written' = written \o out
  BY <1>1 DEF BufferTypeOK
<1>6. /\ written' \in Seq(Entry) /\ Len(written') = Len(written) + count
      /\ \A i \in 1..Len(written) : written'[i] = written[i]
      /\ \A i \in 1..count : written'[Len(written) + i] = out[i]
  BY <1>3, <1>5
<1>7. \A i \in 1..(Len(buf) - count) : outBuffer'[i] = buf[order[count + i]]
  BY <1>1, <1>4
<1>8. Rearranges(order, buf, count)
  BY <1>1, <1>2, <1>3, <1>4, <1>6, <1>7 DEF Rearranges
<1> QED
  BY <1>1, <1>2, <1>8 DEF Rearranges

-------------------------------------------------------------------------------
(* One step of the buffer.                                                 *)
LEMMA StepKeepsType ==
    ASSUME BufferTypeOK, [BufferNext]_bufferVars
    PROVE  BufferTypeOK'
<1>1. ASSUME NEW e \in Entry, PushMessage(e) PROVE BufferTypeOK'
  <2> DEFINE buf == Append(outBuffer, e)
  <2>1. buf \in Seq(Entry) /\ pushed' \in Seq(Entry) /\ Len(buf) = Len(outBuffer) + 1
    BY <1>1 DEF BufferTypeOK, PushMessage
  <2>2. CASE Len(buf) < Capacity
    BY <1>1, <2>1, <2>2, CapacityAssumption DEF BufferTypeOK, PushMessage
  <2>3. CASE Len(buf) >= Capacity
    <3>1. FlushBuffer(buf, FlushSize)
      BY <1>1, <2>1, <2>3, CapacityAssumption DEF PushMessage
    <3>2. FlushSize \in 0..Len(buf)
      BY <2>1, <2>3, CapacityAssumption
    <3> QED
      BY <1>1, <2>1, <3>1, <3>2, FlushRearranges DEF BufferTypeOK, PushMessage
  <2> QED
    BY <2>1, <2>2, <2>3, CapacityAssumption
<1>2. CASE FlushAll
  <2>1. Len(outBuffer) \in 0..Len(outBuffer) /\ outBuffer \in Seq(Entry)
    BY DEF BufferTypeOK
  <2> QED
    BY <1>2, <2>1, FlushRearranges DEF BufferTypeOK, FlushAll
<1>3. CASE UNCHANGED bufferVars
  BY <1>3 DEF BufferTypeOK, bufferVars
<1> QED
  BY <1>1, <1>2, <1>3 DEF BufferNext

(* What has been written stays, and more may follow.                       *)
LEMMA FlushWrites ==
    ASSUME BufferTypeOK, NEW buf \in Seq(Entry), NEW count \in 0..Len(buf),
           FlushBuffer(buf, count)
    PROVE  /\ Len(written) <= Len(written')
           /\ \A i \in 1..Len(written) : written'[i] = written[i]
<1>1. \E order : Rearranges(order, buf, count)
  BY FlushRearranges
<1>2. Len(written) \in Nat /\ count \in Nat
  BY DEF BufferTypeOK
<1> QED
  BY <1>1, <1>2 DEF Rearranges

LEMMA WrittenGrows ==
    ASSUME BufferTypeOK, [BufferNext]_bufferVars
    PROVE  /\ Len(written) <= Len(written')
           /\ \A i \in 1..Len(written) : written'[i] = written[i]
<1>1. CASE written' = written
  BY <1>1 DEF BufferTypeOK
<1>2. CASE FlushAll
  BY <1>2, FlushWrites DEF BufferTypeOK, FlushAll
<1>3. ASSUME NEW e \in Entry, PushMessage(e), written' # written
      PROVE  /\ Len(written) <= Len(written')
             /\ \A i \in 1..Len(written) : written'[i] = written[i]
  <2>1. Append(outBuffer, e) \in Seq(Entry)
    BY DEF BufferTypeOK
  <2>2. /\ Len(Append(outBuffer, e)) >= Capacity
        /\ FlushBuffer(Append(outBuffer, e), FlushSize)
    BY <1>3 DEF PushMessage
  <2>3. FlushSize \in 0..Len(Append(outBuffer, e))
    BY <2>1, <2>2, CapacityAssumption
  <2> QED
    BY <2>1, <2>2, <2>3, FlushWrites
<1> QED
  BY <1>1, <1>2, <1>3 DEF BufferNext, bufferVars

LEMMA InitHolds ==
    ASSUME BufferInit
    PROVE  BufferTypeOK /\ NothingLostOrDuplicated
<1>1. BufferTypeOK
  BY EmptySeq DEF BufferInit, BufferTypeOK
<1>2. NothingLostOrDuplicated
  BY EmptySeq DEF BufferInit, NothingLostOrDuplicated, Output
<1> QED
  BY <1>1, <1>2

(* The variables always hold values of their types.                        *)
THEOREM TypeCorrect == BufferSpec => []BufferTypeOK
<1>1. BufferInit => BufferTypeOK
  BY InitHolds
<1>2. BufferTypeOK /\ [BufferNext]_bufferVars => BufferTypeOK'
  BY StepKeepsType
<1> QED
  BY <1>1, <1>2, PTL DEF BufferSpec

(* The memory bound: between two pushes the buffer is below its capacity.  *)
THEOREM BufferBounded == BufferSpec => []BoundedBuffer
<1>1. BufferInit => BoundedBuffer
  BY CapacityAssumption DEF BufferInit, BoundedBuffer
<1>2. BufferTypeOK /\ BoundedBuffer /\ [BufferNext]_bufferVars => BoundedBuffer'
  <2> SUFFICES ASSUME BufferTypeOK, BoundedBuffer, [BufferNext]_bufferVars
               PROVE  BoundedBuffer'
    OBVIOUS
  <2>1. ASSUME NEW e \in Entry, PushMessage(e) PROVE BoundedBuffer'
    <3> DEFINE buf == Append(outBuffer, e)
    <3>1. buf \in Seq(Entry) /\ Len(buf) = Len(outBuffer) + 1
      BY DEF BufferTypeOK
    <3>2. CASE Len(buf) < Capacity
      BY <2>1, <3>1, <3>2, CapacityAssumption DEF BoundedBuffer, PushMessage
    <3>3. CASE Len(buf) >= Capacity
      <4>1. FlushBuffer(buf, FlushSize) /\ FlushSize \in 0..Len(buf)
        BY <2>1, <3>1, <3>3, CapacityAssumption DEF PushMessage
      <4>2. Len(outBuffer') = Len(buf) - FlushSize
        BY <3>1, <4>1, FlushRearranges
      <4> QED
        BY <3>1, <4>2, CapacityAssumption DEF BoundedBuffer, BufferTypeOK
    <3> QED
      BY <3>1, <3>2, <3>3, CapacityAssumption
  <2>2. CASE FlushAll
    <3>1. outBuffer \in Seq(Entry) /\ Len(outBuffer) \in 0..Len(outBuffer)
      BY DEF BufferTypeOK
    <3>2. Len(outBuffer') = Len(outBuffer) - Len(outBuffer)
      BY <2>2, <3>1, FlushRearranges DEF FlushAll
    <3> QED
      BY <3>1, <3>2, CapacityAssumption DEF BoundedBuffer
  <2>3. CASE UNCHANGED bufferVars
    BY <2>3 DEF BoundedBuffer, bufferVars
  <2> QED
    BY <2>1, <2>2, <2>3 DEF BufferNext
<1> QED
  BY <1>1, <1>2, TypeCorrect, PTL DEF BufferSpec

-------------------------------------------------------------------------------
(* out is mid with its elements rearranged by g, which keeps the order of  *)
(* equal keys; unsorted, it is mid.                                        *)
Permutes(g, out, mid) ==
    /\ \A i, j \in 1..Len(out) : g[i] = g[j] => i = j
    /\ \A i \in 1..Len(out) : out[i] = mid[g[i]]
    /\ ~sortOutput => \A i \in 1..Len(out) : g[i] = i
    /\ \A i, j \in 1..Len(out) : i < j /\ mid[g[i]].key = mid[g[j]].key => g[i] < g[j]

LEMMA SortedBefore ==
    ASSUME sortOutput, NEW buf \in Seq(Entry), NEW order \in WriteOrders(buf),
           NEW i \in 1..Len(buf), NEW j \in 1..Len(buf), i < j
    PROVE  Before(buf, order[i], order[j])
<1>1. \A a, b \in DOMAIN buf : a < b => Before(buf, order[a], order[b])
  BY DEF WriteOrders, StableOrders
<1>2. DOMAIN buf = 1..Len(buf)
  OBVIOUS
<1> QED
  BY <1>1, <1>2

(* A flush permutes what was written and buffered before it.               *)
LEMMA FlushPermutes ==
    ASSUME BufferTypeOK, NEW buf \in Seq(Entry), NEW count \in 0..Len(buf),
           FlushBuffer(buf, count)
    PROVE  /\ written \o buf \in Seq(Entry)
           /\ Output' \in Seq(Entry)
           /\ Len(Output') = Len(written \o buf)
           /\ \E g \in [1..Len(Output') -> 1..Len(Output')] :
                Permutes(g, Output', written \o buf)
<1>1. PICK order \in [1..Len(buf) -> 1..Len(buf)] :
         order \in WriteOrders(buf) /\ Rearranges(order, buf, count)
  BY FlushRearranges
<1> DEFINE W == Len(written)
           n == W + Len(buf)
           g == [i \in 1..n |-> IF i <= W THEN i ELSE W + order[i - W]]
<1>2. /\ written \in Seq(Entry) /\ W \in Nat /\ Len(buf) \in Nat /\ n \in Nat
      /\ W = Len(written) /\ n = W + Len(buf) /\ count \in 0..Len(buf)
  BY DEF BufferTypeOK
<1> HIDE DEF W, n
<1>3. /\ written \o buf \in Seq(Entry) /\ Len(written \o buf) = n
      /\ \A i \in 1..W : (written \o buf)[i] = written[i]
      /\ \A i \in 1..Len(buf) : (written \o buf)[W + i] = buf[i]
  BY <1>2, ConcatFacts
<1>4. /\ Output' \in Seq(Entry) /\ Len(Output') = n
      /\ \A i \in 1..(W + count) : Output'[i] = written'[i]
      /\ \A i \in 1..(Len(buf) - count) : Output'[W + count + i] = outBuffer'[i]
  <2>1. Output' = written' \o outBuffer'
    BY DEF Output
  <2>2. written' \in Seq(Entry) /\ outBuffer' \in Seq(Entry)
        /\ Len(written') = W + count /\ Len(outBuffer') = Len(buf) - count
    BY <1>1, <1>2 DEF Rearranges
  <2>3. PICK w \in Seq(Entry), o \in Seq(Entry) : w = written' /\ o = outBuffer'
    BY <2>2
  <2>4. /\ w \o o \in Seq(Entry) /\ Len(w \o o) = Len(w) + Len(o)
        /\ \A i \in 1..Len(w) : (w \o o)[i] = w[i]
        /\ \A i \in 1..Len(o) : (w \o o)[Len(w) + i] = o[i]
    BY ConcatFacts
  <2>5. /\ W + count + (Len(buf) - count) = n /\ Output' = w \o o
        /\ Len(w) = W + count /\ Len(o) = Len(buf) - count
    BY <1>2, <2>1, <2>2, <2>3
  <2> QED
    BY <2>3, <2>4, <2>5
<1>5. \A i \in 1..n : /\ i <= W => i \in 1..W /\ g[i] = i
                      /\ i > W => /\ i - W \in 1..Len(buf)
                                  /\ order[i - W] \in 1..Len(buf)
                                  /\ g[i] = W + order[i - W]
  BY <1>1, <1>2
<1>6. g \in [1..n -> 1..n]
  <2>1. \A i \in 1..n : g[i] \in 1..n
    <3> HIDE DEF g
    <3> QED
      BY <1>2, <1>5
  <2> QED
    BY <2>1
<1> HIDE DEF g
<1>7. ASSUME NEW i \in 1..n, NEW j \in 1..n, g[i] = g[j] PROVE i = j
  <2>1. CASE i > W /\ j > W
    <3>1. order[i - W] = order[j - W]
      BY <1>2, <1>5, <1>7, <2>1
    <3>2. i - W = j - W
      BY <1>1, <1>5, <2>1, <3>1 DEF Rearranges
    <3> QED
      BY <1>2, <3>2
  <2>2. CASE ~(i > W /\ j > W)
    <3>1. i \in Nat /\ j \in Nat /\ W \in Nat
      BY <1>2
    <3>2. (i <= W => g[i] = i) /\ (i > W => g[i] > W)
      BY <1>5, <3>1
    <3>3. (j <= W => g[j] = j) /\ (j > W => g[j] > W)
      BY <1>5, <3>1
    <3> QED
      BY <1>7, <2>2, <3>1, <3>2, <3>3
  <2> QED
    BY <2>1, <2>2
<1>8. ASSUME NEW i \in 1..n PROVE Output'[i] = (written \o buf)[g[i]]
  <2>1. CASE i <= W
    <3>1. i \in 1..(W + count) /\ i \in 1..W /\ g[i] = i
      BY <1>2, <1>5, <2>1
    <3>2. written'[i] = written[i]
      BY <1>1, <1>2, <3>1 DEF Rearranges
    <3> QED
      BY <1>3, <1>4, <3>1, <3>2
  <2>2. CASE ~(i <= W)
    <3> i \in Nat /\ W \in Nat /\ i > W
      BY <1>2, <2>2
    <3>1. i - W \in 1..Len(buf) /\ g[i] = W + order[i - W] /\ order[i - W] \in 1..Len(buf)
      BY <1>5
    <3>2. (written \o buf)[g[i]] = buf[order[i - W]]
      BY <1>3, <3>1
    <3>3. CASE i - W <= count
      <4>1. i \in 1..(W + count) /\ i - W \in 1..count /\ W + (i - W) = i
        BY <1>2, <2>2, <3>1, <3>3
      <4>2. written'[W + (i - W)] = buf[order[i - W]]
        BY <1>1, <1>2, <4>1 DEF Rearranges
      <4> QED
        BY <1>4, <3>2, <4>1, <4>2
    <3>4. CASE i - W > count
      <4>1. PICK k \in 1..(Len(buf) - count) : W + count + k = i /\ count + k = i - W
        <5>1. i - W - count \in 1..(Len(buf) - count)
          BY <1>2, <3>1, <3>4
        <5>2. W + count + (i - W - count) = i /\ count + (i - W - count) = i - W
          BY <1>2
        <5> QED
          BY <5>1, <5>2
      <4>2. outBuffer'[k] = buf[order[count + k]]
        BY <1>1, <1>2, <4>1 DEF Rearranges
      <4> QED
        BY <1>4, <3>2, <4>1, <4>2
    <3> QED
      BY <1>2, <3>1, <3>3, <3>4
  <2> QED
    BY <2>1, <2>2
<1>9. ASSUME ~sortOutput, NEW i \in 1..n PROVE g[i] = i
  <2>1. \A k \in 1..Len(buf) : order[k] = k
    BY <1>1, <1>9 DEF WriteOrders
  <2>2. i \in Nat /\ W \in Nat
    BY <1>2
  <2>3. i > W => W + (i - W) = i
    BY <2>2
  <2> QED
    BY <1>5, <2>1, <2>2, <2>3
<1>10. ASSUME NEW i \in 1..n, NEW j \in 1..n, i < j,
              (written \o buf)[g[i]].key = (written \o buf)[g[j]].key
       PROVE  g[i] < g[j]
  <2>1. i \in Nat /\ j \in Nat /\ W \in Nat /\ g[i] \in Nat /\ g[j] \in Nat
    <3>1. g[i] \in 1..n /\ g[j] \in 1..n
      BY <1>6
    <3> QED
      BY <1>2, <3>1
  <2>2. CASE i <= W
    <3>1. g[i] = i /\ (j <= W => g[j] = j) /\ (j > W => g[j] > W)
      BY <1>5, <2>1, <2>2
    <3> QED
      BY <1>10, <2>1, <2>2, <3>1
  <2>3. CASE i > W
    <3>1. /\ i - W \in 1..Len(buf) /\ j - W \in 1..Len(buf) /\ i - W < j - W
          /\ g[i] = W + order[i - W] /\ g[j] = W + order[j - W]
          /\ order[i - W] \in 1..Len(buf) /\ order[j - W] \in 1..Len(buf)
      BY <1>5, <1>10, <2>1, <2>3
    <3>2. order[i - W] < order[j - W]
      <4>1. CASE sortOutput
        <5>1. Before(buf, order[i - W], order[j - W])
          BY <1>1, <3>1, <4>1, SortedBefore
        <5>2. buf[order[i - W]].key = buf[order[j - W]].key
          BY <1>3, <1>10, <3>1
        <5>3. buf[order[i - W]].key \in Nat /\ buf[order[j - W]].key \in Nat
          BY <3>1, EntryAssumption
        <5> QED
          BY <5>1, <5>2, <5>3 DEF Before
      <4>2. CASE ~sortOutput
        BY <1>1, <3>1, <4>2 DEF WriteOrders
      <4> QED
        BY <4>1, <4>2
    <3> QED
      BY <2>1, <3>1, <3>2
  <2> QED
    BY <2>1, <2>2, <2>3
<1>11. /\ g \in [1..Len(Output') -> 1..Len(Output')]
       /\ Permutes(g, Output', written \o buf)
  BY <1>4, <1>6, <1>7, <1>8, <1>9, <1>10 DEF Permutes
<1> QED
  BY <1>3, <1>4, <1>11

(* What NothingLostOrDuplicated says of any sequence in place of Output.   *)
Holds(out, history) ==
    /\ Len(out) = Len(history)
    /\ \A i \in DOMAIN out : out[i].src \in DOMAIN history /\ out[i] = history[out[i].src]
    /\ \A i, j \in DOMAIN out : out[i].src = out[j].src => i = j

LEMMA PermutedHolds ==
    ASSUME NEW out \in Seq(Entry), NEW mid \in Seq(Entry), NEW history \in Seq(Entry),
           Holds(mid, history), Len(out) = Len(mid),
           \E g \in [1..Len(out) -> 1..Len(out)] : Permutes(g, out, mid)
    PROVE  Holds(out, history)
<1>1. PICK g \in [1..Len(out) -> 1..Len(out)] :
              /\ \A i, j \in 1..Len(out) : g[i] = g[j] => i = j
              /\ \A i \in 1..Len(out) : out[i] = mid[g[i]]
  BY DEF Permutes
<1>2. DOMAIN out = 1..Len(out) /\ DOMAIN mid = 1..Len(out) /\ Len(out) \in Nat
  OBVIOUS
<1>3. \A i \in 1..Len(out) :
         out[i].src \in DOMAIN history /\ out[i] = history[out[i].src]
  <2> SUFFICES ASSUME NEW i \in 1..Len(out)
               PROVE  out[i].src \in DOMAIN history /\ out[i] = history[out[i].src]
    OBVIOUS
  <2>1. g[i] \in DOMAIN mid /\ out[i] = mid[g[i]]
    BY <1>1, <1>2
  <2> QED
    BY <2>1 DEF Holds
<1>4. \A i, j \in 1..Len(out) : out[i].src = out[j].src => i = j
  <2> SUFFICES ASSUME NEW i \in 1..Len(out), NEW j \in 1..Len(out), out[i].src = out[j].src
               PROVE  i = j
    OBVIOUS
  <2>1. g[i] \in 1..Len(out) /\ g[j] \in 1..Len(out) /\ mid[g[i]].src = mid[g[j]].src
    BY <1>1
  <2>2. g[i] = g[j]
    BY <1>2, <2>1 DEF Holds
  <2> QED
    BY <1>1, <2>2
<1> QED
  BY <1>2, <1>3, <1>4 DEF Holds

LEMMA AppendHolds ==
    ASSUME NEW out \in Seq(Entry), NEW history \in Seq(Entry), NEW e \in Entry,
           Holds(out, history), e.src = Len(history) + 1
    PROVE  Holds(Append(out, e), Append(history, e))
<1> DEFINE n == Len(history)
<1>1. /\ n \in Nat /\ Len(out) = n
      /\ DOMAIN out = 1..n /\ DOMAIN history = 1..n
      /\ DOMAIN Append(out, e) = 1..(n + 1) /\ DOMAIN Append(history, e) = 1..(n + 1)
      /\ \A i \in 1..n : Append(out, e)[i] = out[i] /\ Append(history, e)[i] = history[i]
      /\ Append(out, e)[n + 1] = e /\ Append(history, e)[n + 1] = e
      /\ Len(Append(out, e)) = n + 1 /\ Len(Append(history, e)) = n + 1
  BY DEF Holds
<1>2. \A i \in 1..(n + 1) : i \in 1..n \/ i = n + 1
  BY <1>1
<1>3. \A i \in 1..n : out[i].src \in 1..n /\ out[i] = history[out[i].src]
  BY <1>1 DEF Holds
<1>4. \A i \in 1..(n + 1) :
         /\ Append(out, e)[i].src \in 1..(n + 1)
         /\ Append(out, e)[i] = Append(history, e)[Append(out, e)[i].src]
  BY <1>1, <1>2, <1>3
<1>5. \A i, j \in 1..(n + 1) : Append(out, e)[i].src = Append(out, e)[j].src => i = j
  <2>1. \A i \in 1..n : out[i].src # n + 1
    BY <1>1, <1>3
  <2>2. \A i, j \in 1..n : out[i].src = out[j].src => i = j
    BY <1>1 DEF Holds
  <2> QED
    BY <1>1, <1>2, <2>1, <2>2
<1> QED
  BY <1>1, <1>4, <1>5 DEF Holds

(* One step of the buffer loses nothing.                                   *)
LEMMA StepLosesNothing ==
    ASSUME BufferTypeOK, NothingLostOrDuplicated, [BufferNext]_bufferVars
    PROVE  NothingLostOrDuplicated'
<1>1. Output \in Seq(Entry) /\ Holds(Output, pushed)
  <2>1. Output \in Seq(Entry)
    BY DEF BufferTypeOK, Output
  <2>2. Holds(Output, pushed)
    BY DEF NothingLostOrDuplicated, Holds
  <2> QED
    BY <2>1, <2>2
<1>2. ASSUME NEW e \in Entry, e.src = Len(pushed) + 1, PushMessage(e)
      PROVE  NothingLostOrDuplicated'
  <2> DEFINE buf == Append(outBuffer, e)
  <2>1. buf \in Seq(Entry) /\ Len(buf) = Len(outBuffer) + 1
        /\ pushed' = Append(pushed, e) /\ pushed' \in Seq(Entry)
    BY <1>2 DEF BufferTypeOK, PushMessage
  <2>2. written \o buf = Append(Output, e)
    BY DEF BufferTypeOK, Output
  <2>3. Holds(written \o buf, pushed')
    BY <1>1, <1>2, <2>1, <2>2, AppendHolds DEF BufferTypeOK
  <2>4. CASE Len(buf) < Capacity
    <3>1. Output' = written \o buf
      <4>1. written' = written /\ outBuffer' = buf
        BY <1>2, <2>1, <2>4, CapacityAssumption DEF PushMessage
      <4> QED
        BY <4>1 DEF Output
    <3> QED
      BY <2>3, <3>1 DEF Holds, NothingLostOrDuplicated
  <2>5. CASE Len(buf) >= Capacity
    <3>1. FlushBuffer(buf, FlushSize) /\ FlushSize \in 0..Len(buf)
      BY <1>2, <2>1, <2>5, CapacityAssumption DEF PushMessage
    <3>2. Holds(Output', pushed')
      BY <2>1, <2>3, <3>1, FlushPermutes, PermutedHolds
    <3> QED
      BY <3>2 DEF Holds, NothingLostOrDuplicated
  <2> QED
    BY <2>1, <2>4, <2>5, CapacityAssumption
<1>3. CASE FlushAll
  <2>1. /\ outBuffer \in Seq(Entry) /\ Len(outBuffer) \in 0..Len(outBuffer)
        /\ FlushBuffer(outBuffer, Len(outBuffer)) /\ pushed' = pushed
        /\ pushed \in Seq(Entry)
    BY <1>3 DEF BufferTypeOK, FlushAll
  <2>2. Holds(written \o outBuffer, pushed')
    BY <1>1, <2>1 DEF Output
  <2>3. Holds(Output', pushed')
    BY <2>1, <2>2, FlushPermutes, PermutedHolds
  <2> QED
    BY <2>3 DEF Holds, NothingLostOrDuplicated
<1>4. CASE UNCHANGED bufferVars
  BY <1>4 DEF NothingLostOrDuplicated, Output, bufferVars
<1> QED
  BY <1>2, <1>3, <1>4 DEF BufferNext

(* Sorting, partial flushes and erasing neither lose, nor duplicate, nor   *)
(* alter a message.                                                        *)
THEOREM NothingLost == BufferSpec => []NothingLostOrDuplicated
<1>1. BufferInit => NothingLostOrDuplicated
  BY InitHolds
<1>2. BufferTypeOK /\ NothingLostOrDuplicated /\ [BufferNext]_bufferVars => NothingLostOrDuplicated'
  BY StepLosesNothing
<1> QED
  BY <1>1, <1>2, TypeCorrect, PTL DEF BufferSpec

(* What EqualKeysKeepOrder says of any sequence in place of Output.        *)
EqualInOrder(s) ==
    \A i, j \in DOMAIN s : (i < j /\ s[i].key = s[j].key) => s[i].src < s[j].src

LEMMA PermutedEqual ==
    ASSUME NEW out \in Seq(Entry), NEW mid \in Seq(Entry), EqualInOrder(mid), Len(out) = Len(mid),
           \E g \in [1..Len(out) -> 1..Len(out)] : Permutes(g, out, mid)
    PROVE  EqualInOrder(out)
<1>1. PICK g \in [1..Len(out) -> 1..Len(out)] :
              /\ \A i \in 1..Len(out) : out[i] = mid[g[i]]
              /\ \A i, j \in 1..Len(out) : i < j /\ mid[g[i]].key = mid[g[j]].key => g[i] < g[j]
  BY DEF Permutes
<1>2. DOMAIN out = 1..Len(out) /\ DOMAIN mid = 1..Len(out)
  OBVIOUS
<1> SUFFICES ASSUME NEW i \in 1..Len(out), NEW j \in 1..Len(out), i < j, out[i].key = out[j].key
             PROVE  out[i].src < out[j].src
  BY <1>2 DEF EqualInOrder
<1>3. g[i] \in DOMAIN mid /\ g[j] \in DOMAIN mid /\ out[i] = mid[g[i]] /\ out[j] = mid[g[j]]
  BY <1>1, <1>2
<1>4. g[i] < g[j]
  BY <1>1, <1>3
<1> QED
  BY <1>3, <1>4 DEF EqualInOrder

(* A new message comes behind all those with its key.                      *)
LEMMA AppendEqual ==
    ASSUME NEW out \in Seq(Entry), NEW history \in Seq(Entry), NEW e \in Entry,
           EqualInOrder(out), Holds(out, history), e.src = Len(history) + 1
    PROVE  EqualInOrder(Append(out, e))
<1> DEFINE n == Len(out)
<1>1. /\ n \in Nat /\ n = Len(history)
      /\ DOMAIN out = 1..n /\ DOMAIN history = 1..n /\ DOMAIN Append(out, e) = 1..(n + 1)
      /\ \A i \in 1..n : Append(out, e)[i] = out[i]
      /\ Append(out, e)[n + 1] = e
  BY DEF Holds
<1>2. \A i \in 1..n : out[i].src \in 1..n
  BY <1>1 DEF Holds
<1> HIDE DEF n
<1> SUFFICES ASSUME NEW i \in 1..(n + 1), NEW j \in 1..(n + 1), i < j,
                    Append(out, e)[i].key = Append(out, e)[j].key
             PROVE  Append(out, e)[i].src < Append(out, e)[j].src
  BY <1>1 DEF EqualInOrder
<1>3. i \in 1..n
  BY <1>1
<1>4. CASE j = n + 1
  BY <1>1, <1>2, <1>3, <1>4
<1>5. CASE j # n + 1
  <2>1. j \in 1..n
    BY <1>1, <1>5
  <2> QED
    BY <1>1, <1>3, <2>1 DEF EqualInOrder
<1> QED
  BY <1>4, <1>5

LEMMA StepKeepsEqual ==
    ASSUME BufferTypeOK, NothingLostOrDuplicated, EqualKeysKeepOrder, [BufferNext]_bufferVars
    PROVE  EqualKeysKeepOrder'
<1>1. Output \in Seq(Entry) /\ Holds(Output, pushed) /\ EqualInOrder(Output)
  <2>1. Output \in Seq(Entry)
    BY DEF BufferTypeOK, Output
  <2>2. Holds(Output, pushed)
    BY DEF NothingLostOrDuplicated, Holds
  <2>3. EqualInOrder(Output)
    BY DEF EqualKeysKeepOrder, EqualInOrder
  <2> QED
    BY <2>1, <2>2, <2>3
<1>2. ASSUME NEW e \in Entry, e.src = Len(pushed) + 1, PushMessage(e)
      PROVE  EqualInOrder(Output')
  <2> DEFINE buf == Append(outBuffer, e)
  <2>1. buf \in Seq(Entry) /\ Len(buf) = Len(outBuffer) + 1
    BY DEF BufferTypeOK
  <2>2. written \o buf = Append(Output, e)
    BY DEF BufferTypeOK, Output
  <2>3. EqualInOrder(written \o buf)
    BY <1>1, <1>2, <2>2, AppendEqual DEF BufferTypeOK
  <2>4. CASE Len(buf) < Capacity
    <3>1. written' = written /\ outBuffer' = buf
      BY <1>2, <2>1, <2>4, CapacityAssumption DEF PushMessage
    <3> QED
      BY <2>3, <3>1 DEF Output
  <2>5. CASE Len(buf) >= Capacity
    <3>1. FlushBuffer(buf, FlushSize) /\ FlushSize \in 0..Len(buf)
      BY <1>2, <2>1, <2>5, CapacityAssumption DEF PushMessage
    <3> QED
      BY <2>1, <2>3, <3>1, FlushPermutes, PermutedEqual
  <2> QED
    BY <2>1, <2>4, <2>5, CapacityAssumption
<1>3. CASE FlushAll
  <2>1. /\ outBuffer \in Seq(Entry) /\ Len(outBuffer) \in 0..Len(outBuffer)
        /\ FlushBuffer(outBuffer, Len(outBuffer))
    BY <1>3 DEF BufferTypeOK, FlushAll
  <2>2. EqualInOrder(written \o outBuffer)
    BY <1>1 DEF Output
  <2>3. EqualInOrder(Output')
    BY <2>1, <2>2, FlushPermutes, PermutedEqual
  <2> QED
    BY <2>3 DEF EqualKeysKeepOrder, EqualInOrder
<1>4. CASE UNCHANGED bufferVars
  BY <1>4 DEF EqualKeysKeepOrder, Output, bufferVars
<1>5. EqualInOrder(Output') => EqualKeysKeepOrder'
  BY DEF EqualKeysKeepOrder, EqualInOrder
<1> QED
  BY <1>2, <1>3, <1>4, <1>5 DEF BufferNext

(* Messages with equal times leave in the order they came, whatever is     *)
(* flushed between them (UnwrapCMP.cpp:734).                               *)
THEOREM EqualKeysStable == BufferSpec => []EqualKeysKeepOrder
<1>1. BufferInit => EqualKeysKeepOrder
  BY EmptySeq DEF BufferInit, EqualKeysKeepOrder, Output
<1>2. BufferTypeOK /\ NothingLostOrDuplicated /\ EqualKeysKeepOrder /\ [BufferNext]_bufferVars
      => EqualKeysKeepOrder'
  BY StepKeepsEqual
<1> QED
  BY <1>1, <1>2, TypeCorrect, NothingLost, PTL DEF BufferSpec

(* Without sorting, what is written and buffered is the input, in order.   *)
THEOREM OrderKept == BufferSpec => []InputOrderKept
<1>1. BufferInit => InputOrderKept
  BY EmptySeq DEF BufferInit, InputOrderKept, Output
<1>2. BufferTypeOK /\ InputOrderKept /\ [BufferNext]_bufferVars => InputOrderKept'
  <2> SUFFICES ASSUME BufferTypeOK, InputOrderKept, [BufferNext]_bufferVars,
                      ~sortOutput'
               PROVE  Output' = pushed'
    BY DEF InputOrderKept
  <2>1. ASSUME NEW buf \in Seq(Entry), NEW count \in 0..Len(buf),
               FlushBuffer(buf, count), ~sortOutput
        PROVE  Output' = written \o buf
    <3>1. PICK g \in [1..Len(Output') -> 1..Len(Output')] :
             Permutes(g, Output', written \o buf)
      BY <2>1, FlushPermutes
    <3>2. /\ Output' \in Seq(Entry) /\ written \o buf \in Seq(Entry)
          /\ Len(Output') = Len(written \o buf)
      BY <2>1, FlushPermutes
    <3> QED
      BY <2>1, <3>1, <3>2, SeqEqual DEF Permutes
  <2>2. ASSUME NEW e \in Entry, PushMessage(e) PROVE Output' = pushed'
    <3> DEFINE buf == Append(outBuffer, e)
    <3>1. /\ buf \in Seq(Entry) /\ Len(buf) = Len(outBuffer) + 1
          /\ pushed' = Append(pushed, e) /\ ~sortOutput
      BY <2>2 DEF BufferTypeOK, PushMessage
    <3>2. written \o buf = pushed'
      <4>1. written \o buf = Append(Output, e)
        BY DEF BufferTypeOK, Output
      <4> QED
        BY <3>1, <4>1 DEF InputOrderKept
    <3>3. CASE Len(buf) < Capacity
      <4>1. written' = written /\ outBuffer' = buf
        BY <2>2, <3>1, <3>3, CapacityAssumption DEF PushMessage
      <4> QED
        BY <3>2, <4>1 DEF Output
    <3>4. CASE Len(buf) >= Capacity
      <4>1. FlushBuffer(buf, FlushSize) /\ FlushSize \in 0..Len(buf)
        BY <2>2, <3>1, <3>4, CapacityAssumption DEF PushMessage
      <4> QED
        BY <2>1, <3>1, <3>2, <4>1
    <3> QED
      BY <3>1, <3>3, <3>4, CapacityAssumption
  <2>3. CASE FlushAll
    <3>1. /\ outBuffer \in Seq(Entry) /\ Len(outBuffer) \in 0..Len(outBuffer)
          /\ FlushBuffer(outBuffer, Len(outBuffer)) /\ pushed' = pushed /\ ~sortOutput
      BY <2>3 DEF BufferTypeOK, FlushAll
    <3> QED
      BY <2>1, <3>1 DEF InputOrderKept, Output
  <2>4. CASE UNCHANGED bufferVars
    BY <2>4 DEF InputOrderKept, Output, bufferVars
  <2> QED
    BY <2>2, <2>3, <2>4 DEF BufferNext
<1> QED
  BY <1>1, <1>2, TypeCorrect, PTL DEF BufferSpec

(* What a flush leaves in the buffer is not earlier than what it writes.   *)
LEMMA FlushWritesEarliest ==
    ASSUME BufferTypeOK, sortOutput, NEW buf \in Seq(Entry), NEW count \in 0..Len(buf),
           FlushBuffer(buf, count),
           NEW i \in (Len(written) + 1)..Len(written'), NEW j \in DOMAIN outBuffer'
    PROVE  written'[i].key <= outBuffer'[j].key
<1>1. PICK order \in [1..Len(buf) -> 1..Len(buf)] :
         order \in WriteOrders(buf) /\ Rearranges(order, buf, count)
  BY FlushRearranges
<1>2. /\ Len(written) \in Nat /\ Len(buf) \in Nat
      /\ Len(written') = Len(written) + count /\ Len(outBuffer') = Len(buf) - count
      /\ DOMAIN outBuffer' = 1..(Len(buf) - count)
  BY <1>1 DEF BufferTypeOK, Rearranges
<1>3. PICK k \in 1..count : i = Len(written) + k
  <2>1. i - Len(written) \in 1..count /\ Len(written) + (i - Len(written)) = i
    BY <1>2
  <2> QED
    BY <2>1
<1>4. /\ j \in 1..(Len(buf) - count)
      /\ k \in 1..Len(buf) /\ count + j \in 1..Len(buf) /\ k < count + j
  BY <1>2
<1>5. written'[i] = buf[order[k]] /\ outBuffer'[j] = buf[order[count + j]]
  <2>1. written'[Len(written) + k] = buf[order[k]]
    BY <1>1, <1>3 DEF Rearranges
  <2>2. outBuffer'[j] = buf[order[count + j]]
    BY <1>1, <1>4 DEF Rearranges
  <2> QED
    BY <1>3, <2>1, <2>2
<1>6. Before(buf, order[k], order[count + j])
  <2>1. \A a, b \in DOMAIN buf : a < b => Before(buf, order[a], order[b])
    BY <1>1 DEF WriteOrders, StableOrders
  <2>2. DOMAIN buf = 1..Len(buf)
    OBVIOUS
  <2> QED
    BY <1>4, <2>1, <2>2
<1>7. buf[order[k]].key \in Nat /\ buf[order[count + j]].key \in Nat
  <2>1. order[k] \in 1..Len(buf) /\ order[count + j] \in 1..Len(buf)
    BY <1>4
  <2>2. \A a \in 1..Len(buf) : buf[a] \in Entry
    OBVIOUS
  <2> QED
    BY <2>1, <2>2, EntryAssumption
<1> QED
  BY <1>5, <1>6, <1>7 DEF Before

(* A partial flush writes the earliest part of the buffer.                 *)
THEOREM EarliestFirst == BufferSpec => FlushesEarliest
<1>1. BufferTypeOK /\ [BufferNext]_bufferVars =>
        [sortOutput /\ written' # written =>
           \A i \in (Len(written) + 1)..Len(written'), j \in DOMAIN outBuffer' :
             written'[i].key <= outBuffer'[j].key]_bufferVars
  <2> SUFFICES ASSUME BufferTypeOK, [BufferNext]_bufferVars, sortOutput, written' # written,
                      NEW i \in (Len(written) + 1)..Len(written'),
                      NEW j \in DOMAIN outBuffer'
               PROVE  written'[i].key <= outBuffer'[j].key
    OBVIOUS
  <2>1. ASSUME NEW e \in Entry, PushMessage(e) PROVE written'[i].key <= outBuffer'[j].key
    <3> DEFINE buf == Append(outBuffer, e)
    <3>1. buf \in Seq(Entry) /\ Len(buf) >= Capacity /\ FlushBuffer(buf, FlushSize)
      BY <2>1 DEF BufferTypeOK, PushMessage
    <3>2. FlushSize \in 0..Len(buf)
      BY <3>1, CapacityAssumption
    <3> QED
      BY <3>1, <3>2, FlushWritesEarliest
  <2>2. CASE FlushAll
    <3>1. /\ outBuffer \in Seq(Entry) /\ Len(outBuffer) \in 0..Len(outBuffer)
          /\ FlushBuffer(outBuffer, Len(outBuffer))
      BY <2>2 DEF BufferTypeOK, FlushAll
    <3> QED
      BY <3>1, FlushWritesEarliest
  <2>3. CASE UNCHANGED bufferVars
    BY <2>3 DEF bufferVars
  <2> QED
    BY <2>1, <2>2, <2>3 DEF BufferNext
<1> QED
  BY <1>1, TypeCorrect, PTL DEF BufferSpec, FlushesEarliest

-------------------------------------------------------------------------------
(* Full order when the disorder is bounded.  What is written is in order   *)
(* and never later than what is buffered, and from the first flush on the  *)
(* buffer holds so many messages that one that belongs before a written    *)
(* one would be displaced by too many.                                     *)
DisorderBounded == \A k \in DOMAIN pushed : Displacement(k) <= Capacity - FlushSize

WrittenFirst == \A i \in DOMAIN written, j \in DOMAIN outBuffer : written[i].key <= outBuffer[j].key

SortedInv ==
    /\ written # <<>> /\ ~finished => Len(outBuffer) >= Capacity - FlushSize
    /\ sortOutput /\ DisorderBounded => KeysInOrder(written) /\ WrittenFirst

(* A flush of a buffer that is not earlier than what was written.          *)
LEMMA FlushSorts ==
    ASSUME BufferTypeOK, sortOutput, NEW buf \in Seq(Entry), NEW count \in 0..Len(buf),
           FlushBuffer(buf, count), KeysInOrder(written),
           \A i \in DOMAIN written, j \in 1..Len(buf) : written[i].key <= buf[j].key
    PROVE  KeysInOrder(written)' /\ WrittenFirst'
<1>1. PICK order \in [1..Len(buf) -> 1..Len(buf)] :
         order \in WriteOrders(buf) /\ Rearranges(order, buf, count)
  BY FlushRearranges
<1> DEFINE W == Len(written)
<1>2. /\ W \in Nat /\ Len(buf) \in Nat /\ DOMAIN written = 1..W
      /\ written' \in Seq(Entry) /\ outBuffer' \in Seq(Entry)
      /\ DOMAIN written' = 1..(W + count) /\ DOMAIN outBuffer' = 1..(Len(buf) - count)
      /\ Len(written') = W + count
      /\ \A i \in 1..W : written'[i] = written[i]
      /\ \A i \in 1..count : written'[W + i] = buf[order[i]]
      /\ \A i \in 1..(Len(buf) - count) : outBuffer'[i] = buf[order[count + i]]
  BY <1>1 DEF Rearranges, BufferTypeOK
<1>3. \A i \in 1..Len(buf) : buf[i].key \in Nat
  BY EntryAssumption
<1>4. \A i, j \in 1..Len(buf) : i < j => buf[order[i]].key <= buf[order[j]].key
  <2> SUFFICES ASSUME NEW i \in 1..Len(buf), NEW j \in 1..Len(buf), i < j
               PROVE  buf[order[i]].key <= buf[order[j]].key
    OBVIOUS
  <2>1. Before(buf, order[i], order[j])
    BY <1>1, SortedBefore
  <2>2. order[i] \in 1..Len(buf) /\ order[j] \in 1..Len(buf)
    BY <1>1
  <2>3. buf[order[i]].key \in Nat /\ buf[order[j]].key \in Nat
    BY <1>3, <2>2
  <2> QED
    BY <2>1, <2>3 DEF Before
<1> HIDE DEF W
<1>5. \A i \in 1..(W + count) : i \in 1..W \/ (i - W \in 1..count /\ W + (i - W) = i)
  BY <1>2
<1>6. \A i \in 1..count : i \in 1..Len(buf) /\ order[i] \in 1..Len(buf)
  <2> TAKE i \in 1..count
  <2>1. i \in 1..Len(buf)
    BY <1>2
  <2> QED
    BY <1>1, <2>1
<1>7. ASSUME NEW i \in 1..(W + count), NEW j \in 1..(W + count), i < j
      PROVE  written'[i].key <= written'[j].key
  <2>1. CASE i \in 1..W /\ j \in 1..W
    BY <1>2, <1>7, <2>1 DEF KeysInOrder
  <2>2. CASE i \in 1..W /\ j - W \in 1..count /\ W + (j - W) = j
    <3>1. written'[j] = buf[order[j - W]] /\ order[j - W] \in 1..Len(buf)
      BY <1>2, <1>6, <2>2
    <3> QED
      BY <1>2, <2>2, <3>1
  <2>3. CASE /\ i - W \in 1..count /\ W + (i - W) = i
             /\ j - W \in 1..count /\ W + (j - W) = j
    <3>1. written'[j] = buf[order[j - W]] /\ written'[i] = buf[order[i - W]] /\ i - W < j - W
      BY <1>2, <1>7, <2>3
    <3> QED
      BY <1>4, <1>6, <2>3, <3>1
  <2>4. ~(i - W \in 1..count /\ j \in 1..W)
    BY <1>2, <1>7
  <2> QED
    BY <1>5, <2>1, <2>2, <2>3, <2>4
<1>8. ASSUME NEW i \in 1..(W + count), NEW j \in 1..(Len(buf) - count)
      PROVE  written'[i].key <= outBuffer'[j].key
  <2>1. outBuffer'[j] = buf[order[count + j]] /\ count + j \in 1..Len(buf)
    BY <1>2
  <2>2. order[count + j] \in 1..Len(buf)
    BY <1>1, <2>1
  <2>3. CASE i \in 1..W
    BY <1>2, <2>1, <2>2, <2>3
  <2>4. CASE i - W \in 1..count /\ W + (i - W) = i
    <3>1. written'[i] = buf[order[i - W]] /\ i - W < count + j
      BY <1>2, <2>4
    <3> QED
      BY <1>4, <1>6, <2>1, <2>4, <3>1
  <2> QED
    BY <1>5, <2>3, <2>4
<1>9. \A i, j \in DOMAIN written' : i < j => written'[i].key <= written'[j].key
  BY <1>2, <1>7
<1>10. \A i \in DOMAIN written', j \in DOMAIN outBuffer' : written'[i].key <= outBuffer'[j].key
  BY <1>2, <1>8
<1> QED
  BY <1>9, <1>10 DEF KeysInOrder, WrittenFirst

(* Once something is written, a message that belongs before part of it has *)
(* overtaken the whole buffer.                                             *)
LEMMA LateOvertakesBuffer ==
    ASSUME BufferTypeOK, NothingLostOrDuplicated, WrittenFirst, NEW e \in Entry,
           NEW i \in DOMAIN written, e.key < written[i].key
    PROVE  LET late == {j \in 1..Len(pushed) : pushed[j].key > e.key}
           IN  IsFiniteSet(late) /\ Cardinality(late) > Len(outBuffer)
<1> DEFINE late == {j \in 1..Len(pushed) : pushed[j].key > e.key}
           W == Len(written)
           n == Len(outBuffer)
           place == [k \in 1..(n + 1) |-> IF k <= n THEN W + k ELSE i]
           f == [k \in 1..(n + 1) |-> Output[place[k]].src]
<1>1. /\ W \in Nat /\ n \in Nat /\ i \in 1..W /\ Len(pushed) \in Nat
      /\ DOMAIN written = 1..W /\ DOMAIN outBuffer = 1..n /\ DOMAIN pushed = 1..Len(pushed)
      /\ Output \in Seq(Entry) /\ DOMAIN Output = 1..(W + n)
      /\ \A k \in 1..W : Output[k] = written[k]
      /\ \A k \in 1..n : Output[W + k] = outBuffer[k]
  <2>1. written \in Seq(Entry) /\ outBuffer \in Seq(Entry) /\ pushed \in Seq(Entry)
    BY DEF BufferTypeOK
  <2> QED
    BY <2>1, ConcatFacts DEF Output
<1>2. IsFiniteSet(late)
  <2>1. IsFiniteSet(1..Len(pushed))
    BY <1>1, FS_Interval
  <2> QED
    BY <2>1, FS_Subset
<1> HIDE DEF W, n
<1>3. \A k \in 1..(n + 1) : place[k] \in 1..(W + n)
  <2> TAKE k \in 1..(n + 1)
  <2>1. CASE k <= n
    <3>1. place[k] = W + k /\ k \in 1..n
      BY <1>1, <2>1
    <3> QED
      BY <1>1, <3>1
  <2>2. CASE ~(k <= n)
    <3>1. place[k] = i
      BY <2>2
    <3>2. i \in Int /\ 1 <= i /\ i <= W
      BY <1>1
    <3>3. i \in 1..(W + n)
      BY <1>1, <3>2
    <3> QED
      BY <3>1, <3>3
  <2> QED
    BY <2>1, <2>2
<1>4. \A k, l \in 1..(n + 1) : place[k] = place[l] => k = l
  BY <1>1
<1>5. \A k \in 1..(n + 1) : Output[place[k]].key > e.key
  <2> TAKE k \in 1..(n + 1)
  <2>1. e.key \in Nat /\ written[i].key \in Nat /\ written[i] \in Entry
    BY <1>1, EntryAssumption DEF BufferTypeOK
  <2>2. CASE k <= n
    <3>1. k \in 1..n /\ Output[place[k]] = outBuffer[k] /\ outBuffer[k] \in Entry
      BY <1>1, <2>2 DEF BufferTypeOK
    <3>2. written[i].key <= outBuffer[k].key /\ outBuffer[k].key \in Nat
      BY <1>1, <3>1, EntryAssumption DEF WrittenFirst
    <3> QED
      BY <2>1, <3>1, <3>2
  <2>3. CASE ~(k <= n)
    <3>1. Output[place[k]] = written[i]
      BY <1>1, <2>3
    <3> QED
      BY <2>1, <3>1
  <2> QED
    BY <2>2, <2>3
<1> HIDE DEF place
<1>6. \A k \in 1..(n + 1) : f[k] \in late
  <2> TAKE k \in 1..(n + 1)
  <2>1. place[k] \in DOMAIN Output
    BY <1>1, <1>3
  <2>2. /\ f[k] = Output[place[k]].src /\ f[k] \in DOMAIN pushed
        /\ Output[place[k]] = pushed[f[k]]
    BY <2>1 DEF NothingLostOrDuplicated
  <2> QED
    BY <1>1, <1>5, <2>2
<1>7. \A k, l \in 1..(n + 1) : f[k] = f[l] => k = l
  <2> SUFFICES ASSUME NEW k \in 1..(n + 1), NEW l \in 1..(n + 1), f[k] = f[l]
               PROVE  k = l
    OBVIOUS
  <2>1. place[k] \in DOMAIN Output /\ place[l] \in DOMAIN Output
    BY <1>1, <1>3
  <2>2. place[k] = place[l]
    BY <2>1 DEF NothingLostOrDuplicated
  <2> QED
    BY <1>4, <2>2
<1>8. f \in [1..(n + 1) -> late]
  BY <1>6
<1> HIDE DEF f, late
<1>9. f \in Injection(1..(n + 1), late)
  BY <1>7, <1>8 DEF Injection, IsInjective
<1>10. IsFiniteSet(1..(n + 1)) /\ Cardinality(1..(n + 1)) = n + 1
  <2>1. 1 \in Int /\ n + 1 \in Int /\ 1 <= n + 1
    BY <1>1
  <2> QED
    BY <1>1, <2>1, FS_Interval
<1>11. n + 1 <= Cardinality(late)
  BY <1>2, <1>9, <1>10, FS_Injection
<1>12. Cardinality(late) \in Nat
  BY <1>2, FS_CardinalityType
<1>13. IsFiniteSet(late) /\ Cardinality(late) > n
  BY <1>1, <1>2, <1>11, <1>12
<1> QED
  BY <1>13 DEF late, n

(* A step takes no message away from the disorder already there.           *)
LEMMA DisorderStays ==
    ASSUME BufferTypeOK, NEW e \in Entry, pushed' = Append(pushed, e), DisorderBounded'
    PROVE  /\ DisorderBounded
           /\ Cardinality({j \in 1..Len(pushed) : pushed[j].key > e.key}) <= Capacity - FlushSize
<1> DEFINE n == Len(pushed)
<1>1. /\ n \in Nat /\ DOMAIN pushed = 1..n /\ DOMAIN pushed' = 1..(n + 1)
      /\ \A k \in 1..n : pushed'[k] = pushed[k]
      /\ pushed'[n + 1] = e
  BY DEF BufferTypeOK
<1>2. \A k \in 1..(n + 1) :
        Cardinality({j \in 1..(k - 1) : pushed'[j].key > pushed'[k].key}) <= Capacity - FlushSize
  BY <1>1 DEF DisorderBounded, Displacement
<1> HIDE DEF n
<1>3. ASSUME NEW k \in 1..n PROVE Displacement(k) <= Capacity - FlushSize
  <2>1. k \in 1..(n + 1) /\ \A j \in 1..(k - 1) : j \in 1..n
    BY <1>1
  <2>2. {j \in 1..(k - 1) : pushed'[j].key > pushed'[k].key}
          = {j \in 1..(k - 1) : pushed[j].key > pushed[k].key}
    BY <1>1, <2>1
  <2> QED
    BY <1>2, <2>1, <2>2 DEF Displacement
<1>4. DisorderBounded
  BY <1>1, <1>3 DEF DisorderBounded
<1>5. Cardinality({j \in 1..n : pushed[j].key > e.key}) <= Capacity - FlushSize
  <2>1. n + 1 \in 1..(n + 1) /\ (n + 1) - 1 = n
    BY <1>1
  <2>2. {j \in 1..n : pushed'[j].key > pushed'[n + 1].key}
          = {j \in 1..n : pushed[j].key > e.key}
    BY <1>1
  <2>3. Cardinality({j \in 1..((n + 1) - 1) : pushed'[j].key > pushed'[n + 1].key})
          <= Capacity - FlushSize
    BY <1>2, <2>1
  <2> QED
    BY <2>1, <2>2, <2>3
<1> QED
  BY <1>4, <1>5 DEF n

LEMMA PushKeepsSorted ==
    ASSUME BufferTypeOK, NothingLostOrDuplicated, SortedInv,
           NEW e \in Entry, PushMessage(e)
    PROVE  SortedInv'
<1> DEFINE buf == Append(outBuffer, e)
<1>1. /\ ~finished /\ ~finished' /\ pushed' = Append(pushed, e) /\ sortOutput' = sortOutput
      /\ buf \in Seq(Entry) /\ Len(buf) = Len(outBuffer) + 1 /\ Len(outBuffer) \in Nat
      /\ \A j \in 1..Len(outBuffer) : buf[j] = outBuffer[j]
      /\ buf[Len(outBuffer) + 1] = e
  BY DEF PushMessage, BufferTypeOK
<1>2. ASSUME sortOutput, DisorderBounded'
      PROVE  /\ KeysInOrder(written) /\ WrittenFirst
             /\ \A i \in DOMAIN written, j \in 1..Len(buf) : written[i].key <= buf[j].key
  <2>1. /\ DisorderBounded
        /\ Cardinality({j \in 1..Len(pushed) : pushed[j].key > e.key}) <= Capacity - FlushSize
    BY <1>1, <1>2, DisorderStays
  <2>2. KeysInOrder(written) /\ WrittenFirst
    BY <1>2, <2>1 DEF SortedInv
  <2>3. ASSUME NEW i \in DOMAIN written PROVE written[i].key <= e.key
    <3>1. Len(outBuffer) >= Capacity - FlushSize
      <4>1. written # <<>>
        BY <2>3
      <4> QED
        BY <1>1, <4>1 DEF SortedInv
    <3>2. ~(e.key < written[i].key)
      <4> SUFFICES ASSUME e.key < written[i].key PROVE FALSE
        OBVIOUS
      <4> DEFINE late == {j \in 1..Len(pushed) : pushed[j].key > e.key}
      <4>1. IsFiniteSet(late) /\ Cardinality(late) > Len(outBuffer)
        BY <2>2, LateOvertakesBuffer
      <4>2. Cardinality(late) \in Nat /\ Cardinality(late) <= Capacity - FlushSize
        BY <2>1, <4>1, FS_CardinalityType
      <4> HIDE DEF late
      <4> QED
        BY <1>1, <3>1, <4>1, <4>2, CapacityAssumption
    <3>3. written[i] \in Entry
      BY DEF BufferTypeOK
    <3> QED
      BY <3>2, <3>3, EntryAssumption
  <2>4. ASSUME NEW i \in DOMAIN written, NEW j \in 1..Len(buf)
        PROVE  written[i].key <= buf[j].key
    <3>1. CASE j \in 1..Len(outBuffer)
      <4>1. j \in DOMAIN outBuffer
        BY <3>1 DEF BufferTypeOK
      <4> QED
        BY <1>1, <2>2, <3>1, <4>1 DEF WrittenFirst
    <3>2. CASE j = Len(outBuffer) + 1
      BY <1>1, <2>3, <3>2
    <3> QED
      BY <1>1, <3>1, <3>2
  <2> QED
    BY <2>2, <2>4
<1>3. CASE Len(buf) < Capacity
  <2>1. written' = written /\ outBuffer' = buf
    BY <1>1, <1>3, CapacityAssumption DEF PushMessage
  <2>2. written' # <<>> => Len(outBuffer') >= Capacity - FlushSize
    BY <1>1, <2>1, CapacityAssumption DEF SortedInv
  <2>3. ASSUME sortOutput, DisorderBounded' PROVE KeysInOrder(written)' /\ WrittenFirst'
    <3>1. DOMAIN buf = 1..Len(buf)
      BY <1>1
    <3> QED
      BY <1>2, <2>1, <2>3, <3>1 DEF KeysInOrder, WrittenFirst
  <2> QED
    BY <1>1, <2>2, <2>3 DEF SortedInv
<1>4. CASE Len(buf) >= Capacity
  <2>1. FlushBuffer(buf, FlushSize) /\ FlushSize \in 0..Len(buf)
    BY <1>1, <1>4, CapacityAssumption DEF PushMessage
  <2>2. Len(outBuffer') = Len(buf) - FlushSize
    BY <1>1, <2>1, FlushRearranges
  <2>3. Len(outBuffer') >= Capacity - FlushSize
    BY <1>1, <1>4, <2>2, CapacityAssumption
  <2>4. ASSUME sortOutput, DisorderBounded' PROVE KeysInOrder(written)' /\ WrittenFirst'
    <3> HIDE DEF buf
    <3>1. buf \in Seq(Entry)
      BY <1>1
    <3> QED
      BY <1>2, <2>1, <2>4, <3>1, FlushSorts
  <2> QED
    BY <1>1, <2>3, <2>4 DEF SortedInv
<1> QED
  BY <1>1, <1>3, <1>4, CapacityAssumption

LEMMA StepKeepsSorted ==
    ASSUME BufferTypeOK, NothingLostOrDuplicated, SortedInv, [BufferNext]_bufferVars
    PROVE  SortedInv'
<1>1. CASE FlushAll
  <2>1. /\ finished' /\ pushed' = pushed /\ sortOutput' = sortOutput
        /\ FlushBuffer(outBuffer, Len(outBuffer))
        /\ outBuffer \in Seq(Entry) /\ Len(outBuffer) \in 0..Len(outBuffer)
        /\ DOMAIN outBuffer = 1..Len(outBuffer)
    BY <1>1 DEF FlushAll, BufferTypeOK
  <2>2. ASSUME sortOutput, DisorderBounded' PROVE KeysInOrder(written)' /\ WrittenFirst'
    <3>1. DisorderBounded
      BY <2>1, <2>2 DEF DisorderBounded, Displacement
    <3>2. KeysInOrder(written) /\ WrittenFirst
      BY <2>2, <3>1 DEF SortedInv
    <3>3. \A i \in DOMAIN written, j \in 1..Len(outBuffer) : written[i].key <= outBuffer[j].key
      BY <2>1, <3>2 DEF WrittenFirst
    <3> QED
      BY <2>1, <2>2, <3>2, <3>3, FlushSorts
  <2> QED
    BY <2>1, <2>2 DEF SortedInv
<1>2. CASE UNCHANGED bufferVars
  BY <1>2 DEF SortedInv, DisorderBounded, Displacement, KeysInOrder, WrittenFirst, bufferVars
<1> QED
  BY <1>1, <1>2, PushKeepsSorted DEF BufferNext

(* Sorting half a buffer at a time yields a fully sorted file when no      *)
(* message is displaced by more than the half that stays buffered          *)
(* (UnwrapCMP.cpp:731-754), for every capacity, flush size and input.      *)
THEOREM SortedWhenBounded == BufferSpec => []SortedWhenDisorderBounded
<1>1. BufferInit => SortedInv
  BY EmptySeq DEF BufferInit, SortedInv, KeysInOrder, WrittenFirst
<1>2. BufferTypeOK /\ NothingLostOrDuplicated /\ SortedInv /\ [BufferNext]_bufferVars => SortedInv'
  BY StepKeepsSorted
<1>3. SortedInv => SortedWhenDisorderBounded
  BY DEF SortedInv, SortedWhenDisorderBounded, DisorderBounded
<1> QED
  BY <1>1, <1>2, <1>3, TypeCorrect, NothingLost, PTL DEF BufferSpec

-------------------------------------------------------------------------------
(* The reassembly.                                                         *)
LEMMA NextSeqType == \A n \in SeqCounters : NextSeq(n) \in SeqCounters
  BY CounterModAssumption DEF NextSeq, SeqCounters

(* The variables always hold values of their types.                        *)
LEMMA SetContextType ==
    ASSUME NEW S \in SUBSET Streams, segmentContexts \in [S -> Context],
           NEW s \in Streams, NEW ctx \in Context, SetContext(s, ctx)
    PROVE  \E T \in SUBSET Streams : segmentContexts' \in [T -> Context]
<1>1. segmentContexts' \in [S \cup {s} -> Context]
  BY DEF SetContext
<1>2. S \cup {s} \in SUBSET Streams
  OBVIOUS
<1> QED
  BY <1>1, <1>2

LEMMA CallKeepsType ==
    ASSUME ReassemblyTypeOK, NEW m \in Messages, TryUnwrapCmpEthernet(m)
    PROVE  ReassemblyTypeOK'
<1>1. PICK S \in SUBSET Streams : segmentContexts \in [S -> Context]
  BY DEF ReassemblyTypeOK
<1>2. /\ m \in MessageType /\ calls \in Seq(Messages) /\ frames \in Seq(Frame)
      /\ calls' = Append(calls, m)
  BY MessagesAssumption DEF ReassemblyTypeOK, TryUnwrapCmpEthernet
<1>3. calls' \in Seq(Messages) /\ NewData \in Nat /\ <<NewData>> \in Seq(Nat)
  BY <1>2 DEF NewData
<1>4. /\ m.stream \in Streams /\ m.device \in Devices /\ m.interface \in Interfaces
      /\ m.seq \in SeqCounters /\ m.stamp \in Nat /\ m.seg \in Segments
  BY <1>2 DEF MessageType
<1>5. CASE Malformed(m)
  BY <1>1, <1>2, <1>3, <1>5 DEF Malformed, ReassemblyTypeOK
<1>6. CASE Unsegmented(m)
  <2> DEFINE frame == [data |-> <<NewData>>, deviceId |-> m.device,
                       interfaceId |-> m.interface, timestamp |-> m.stamp]
  <2>1. frame \in Frame
    BY <1>3, <1>4 DEF Frame
  <2>2. frames' \in Seq(Frame)
    <3>1. frames' = frames \/ frames' = Append(frames, frame)
      BY <1>6 DEF Unsegmented
    <3> HIDE DEF frame
    <3> QED
      BY <1>2, <2>1, <3>1
  <2> QED
    BY <1>1, <1>3, <1>6, <2>2 DEF Unsegmented, ReassemblyTypeOK
<1>7. CASE SegStart(m)
  <2> DEFINE ctx == [active |-> TRUE, expectedSeqCounter |-> NextSeq(m.seq),
           timestamp |-> m.stamp, deviceId |-> m.device,
           interfaceId |-> m.interface, accumulatedData |-> <<NewData>>]
  <2>1. ctx \in Context
    BY <1>3, <1>4, NextSeqType DEF Context
  <2>2. SetContext(m.stream, ctx) /\ frames' = frames
    BY <1>7 DEF SegStart
  <2> HIDE DEF ctx
  <2>3. \E T \in SUBSET Streams : segmentContexts' \in [T -> Context]
    BY <1>1, <1>4, <2>1, <2>2, SetContextType
  <2> QED
    BY <1>2, <1>3, <2>2, <2>3 DEF ReassemblyTypeOK
<1>8. CASE SegOutOfSequence(m)
  <2>1. CASE HasContext(m)
    <3> DEFINE ctx == [segmentContexts[m.stream] EXCEPT !.active = FALSE]
    <3>1. ctx \in Context
      BY <1>1, <2>1 DEF HasContext, Context
    <3>2. SetContext(m.stream, ctx) /\ frames' = frames
      BY <1>8, <2>1 DEF SegOutOfSequence
    <3> HIDE DEF ctx
    <3>3. \E T \in SUBSET Streams : segmentContexts' \in [T -> Context]
      BY <1>1, <1>4, <3>1, <3>2, SetContextType
    <3> QED
      BY <1>2, <1>3, <3>2, <3>3 DEF ReassemblyTypeOK
  <2>2. CASE ~HasContext(m)
    BY <1>1, <1>2, <1>3, <1>8, <2>2 DEF SegOutOfSequence, ReassemblyTypeOK
  <2> QED
    BY <2>1, <2>2
<1>9. CASE SegContinuation(m)
  <2> DEFINE old == segmentContexts[m.stream]
             ctx == [old EXCEPT !.accumulatedData = Append(@, NewData),
                                !.expectedSeqCounter = NextSeq(@)]
  <2>1. old \in Context
    BY <1>1, <1>9 DEF SegContinuation, InSequence, HasContext
  <2>2. Append(old.accumulatedData, NewData) \in Seq(Nat)
        /\ NextSeq(old.expectedSeqCounter) \in SeqCounters
    BY <1>3, <2>1, NextSeqType DEF Context
  <2>3. ctx \in Context
    BY <2>1, <2>2 DEF Context
  <2>4. SetContext(m.stream, ctx) /\ frames' = frames
    BY <1>9 DEF SegContinuation
  <2> HIDE DEF ctx
  <2>5. \E T \in SUBSET Streams : segmentContexts' \in [T -> Context]
    BY <1>1, <1>4, <2>3, <2>4, SetContextType
  <2> QED
    BY <1>2, <1>3, <2>4, <2>5 DEF ReassemblyTypeOK
<1>10. CASE SegEnd(m)
  <2> DEFINE old == segmentContexts[m.stream]
             ctx == [old EXCEPT !.active = FALSE, !.accumulatedData = <<>>]
             frame == [data |-> Append(old.accumulatedData, NewData),
                       deviceId |-> old.deviceId, interfaceId |-> old.interfaceId,
                       timestamp |-> old.timestamp]
  <2>1. old \in Context
    BY <1>1, <1>10 DEF SegEnd, InSequence, HasContext
  <2>2. Append(old.accumulatedData, NewData) \in Seq(Nat) /\ <<>> \in Seq(Nat)
    BY <1>3, <2>1, EmptySeq DEF Context
  <2>3. ctx \in Context /\ frame \in Frame
    BY <2>1, <2>2 DEF Context, Frame
  <2>4. SetContext(m.stream, ctx) /\ (frames' = frames \/ frames' = Append(frames, frame))
    BY <1>10 DEF SegEnd
  <2> HIDE DEF ctx, frame
  <2>5. \E T \in SUBSET Streams : segmentContexts' \in [T -> Context]
    BY <1>1, <1>4, <2>3, <2>4, SetContextType
  <2>6. frames' \in Seq(Frame)
    BY <1>2, <2>3, <2>4
  <2> QED
    BY <1>3, <2>5, <2>6 DEF ReassemblyTypeOK
<1> QED
  BY <1>5, <1>6, <1>7, <1>8, <1>9, <1>10 DEF TryUnwrapCmpEthernet

(* What FramesAreWhole says of all devices together: the context of a      *)
(* stream does not tell them apart.                                        *)
FramesOnStream == \A i \in DOMAIN frames : FrameIsWhole(Devices, frames[i])

LEMMA InitType ==
    ASSUME ReassemblyInit
    PROVE  ReassemblyTypeOK /\ ActiveContextsAreChains /\ FramesOnStream
<1>1. segmentContexts \in [{} -> Context] /\ {} \in SUBSET Streams
  BY DEF ReassemblyInit
<1>2. ReassemblyTypeOK
  BY <1>1, EmptySeq DEF ReassemblyInit, ReassemblyTypeOK
<1> QED
  BY <1>2, EmptySeq DEF ReassemblyInit, ActiveContextsAreChains, FramesOnStream

THEOREM ReassemblyTypeCorrect == ReassemblySpec => []ReassemblyTypeOK
<1>1. ReassemblyInit => ReassemblyTypeOK
  BY InitType
<1>2. ReassemblyTypeOK /\ [ReassemblyNext]_reassemblyVars => ReassemblyTypeOK'
  <2> SUFFICES ASSUME ReassemblyTypeOK, [ReassemblyNext]_reassemblyVars
               PROVE  ReassemblyTypeOK'
    OBVIOUS
  <2>1. CASE ReassemblyNext
    BY <2>1, CallKeepsType DEF ReassemblyNext
  <2>2. CASE UNCHANGED reassemblyVars
    BY <2>2 DEF ReassemblyTypeOK, reassemblyVars
  <2> QED
    BY <2>1, <2>2
<1> QED
  BY <1>1, <1>2, PTL DEF ReassemblySpec

-------------------------------------------------------------------------------
(* A further call leaves standing what was said of the calls before it.    *)
LEMMA CallsGrow ==
    ASSUME calls \in Seq(Messages), NEW m \in Messages, calls' = Append(calls, m)
    PROVE  /\ Len(calls) \in Nat
           /\ DOMAIN calls = 1..Len(calls)
           /\ DOMAIN calls' = 1..(Len(calls) + 1)
           /\ \A i \in 1..Len(calls) : calls'[i] = calls[i]
           /\ calls'[Len(calls) + 1] = m
           /\ NewData = Len(calls) + 1
  BY DEF NewData

LEMMA CallIsMessage ==
    ASSUME NEW m \in Messages
    PROVE  m.device \in Devices /\ m.stream \in Streams
  BY MessagesAssumption DEF MessageType

LEMMA FollowsStays ==
    ASSUME calls \in Seq(Messages), NEW m \in Messages, calls' = Append(calls, m),
           NEW p \in DOMAIN calls, NEW q \in DOMAIN calls, Follows(Devices, p, q)
    PROVE  Follows(Devices, p, q)'
<1>1. /\ Len(calls) \in Nat
      /\ DOMAIN calls = 1..Len(calls)
      /\ DOMAIN calls' = 1..(Len(calls) + 1)
      /\ \A i \in 1..Len(calls) : calls'[i] = calls[i]
  BY CallsGrow
<1>2. ASSUME NEW r \in DOMAIN calls', IsSegmentOf(Devices, calls[p].stream, r)'
      PROVE  r <= p \/ q <= r
  <2>1. CASE r \in DOMAIN calls
    <3>1. IsSegmentOf(Devices, calls[p].stream, r)
      BY <1>1, <1>2, <2>1 DEF IsSegmentOf
    <3> QED
      BY <2>1, <3>1 DEF Follows
  <2>2. CASE r \notin DOMAIN calls
    BY <1>1, <2>2
  <2> QED
    BY <2>1, <2>2
<1> QED
  BY <1>1, <1>2 DEF Follows

LEMMA ChainStays ==
    ASSUME calls \in Seq(Messages), NEW m \in Messages, calls' = Append(calls, m),
           NEW data \in Seq(Nat)
    PROVE  /\ IsChain(Devices, data) => IsChain(Devices, data)'
           /\ IsWhole(Devices, data) => IsWhole(Devices, data)'
<1>1. /\ Len(calls) \in Nat
      /\ DOMAIN calls = 1..Len(calls)
      /\ DOMAIN calls' = 1..(Len(calls) + 1)
      /\ \A i \in DOMAIN calls : i \in DOMAIN calls' /\ calls'[i] = calls[i]
  BY CallsGrow
<1>2. DOMAIN data = 1..Len(data) /\ Len(data) \in Nat
  OBVIOUS
<1>3. ASSUME IsChain(Devices, data) PROVE IsChain(Devices, data)'
  <2>1. \A k \in DOMAIN data : data[k] \in DOMAIN calls /\ data[k] \in DOMAIN calls'
    BY <1>1, <1>3 DEF IsChain
  <2>2. 1 \in DOMAIN data /\ calls'[data[1]] = calls[data[1]]
    <3>1. Len(data) # 0
      BY <1>3, EmptySeq DEF IsChain
    <3>2. 1 \in DOMAIN data
      BY <1>2, <3>1
    <3> QED
      BY <1>1, <2>1, <3>2
  <2>3. \A k \in 2..Len(data) : Follows(Devices, data[k - 1], data[k])'
    <3> SUFFICES ASSUME NEW k \in 2..Len(data) PROVE Follows(Devices, data[k - 1], data[k])'
      OBVIOUS
    <3>1. k \in DOMAIN data /\ k - 1 \in DOMAIN data
      BY <1>2
    <3>2. Follows(Devices, data[k - 1], data[k])
      BY <1>3 DEF IsChain
    <3> QED
      BY <2>1, <3>1, <3>2, FollowsStays
  <2>4. \A k \in 2..(Len(data) - 1) : calls'[data[k]] = calls[data[k]]
    <3>1. \A k \in 2..(Len(data) - 1) : k \in DOMAIN data
      BY <1>2
    <3> QED
      BY <1>1, <2>1, <3>1
  <2> QED
    BY <1>3, <2>1, <2>2, <2>3, <2>4 DEF IsChain
<1>4. ASSUME IsWhole(Devices, data) PROVE IsWhole(Devices, data)'
  <2>1. CASE Len(data) = 1
    BY <1>1, <1>4, <2>1 DEF IsWhole
  <2>2. CASE Len(data) > 1
    <3>1. IsChain(Devices, data) /\ calls[data[Len(data)]].seg = "end"
      BY <1>4, <2>2 DEF IsWhole
    <3>2. data[Len(data)] \in DOMAIN calls
      BY <1>2, <2>2, <3>1 DEF IsChain
    <3> QED
      BY <1>1, <1>3, <2>2, <3>1, <3>2 DEF IsWhole
  <2> QED
    BY <1>2, <1>4, <2>1, <2>2 DEF IsWhole
<1> QED
  BY <1>3, <1>4

(* A context whose stream gets no segment stays a chain.                   *)
LEMMA ContextStays ==
    ASSUME ReassemblyTypeOK, NEW m \in Messages, calls' = Append(calls, m),
           NEW s \in DOMAIN segmentContexts, ContextIsChain(s),
           segmentContexts'[s] = segmentContexts[s],
           ~(m.stream = s /\ m.wellFormed /\ m.seg # "unsegmented")
    PROVE  ContextIsChain(s)'
<1> DEFINE data == segmentContexts[s].accumulatedData
<1>1. calls \in Seq(Messages) /\ data \in Seq(Nat)
  BY DEF ReassemblyTypeOK, Context
<1>2. /\ Len(calls) \in Nat
      /\ DOMAIN calls = 1..Len(calls)
      /\ DOMAIN calls' = 1..(Len(calls) + 1)
      /\ \A i \in 1..Len(calls) : calls'[i] = calls[i]
      /\ calls'[Len(calls) + 1] = m
  BY <1>1, CallsGrow
<1>3. IsChain(Devices, data) /\ IsChain(Devices, data)'
  <2>1. IsChain(Devices, data)
    BY DEF ContextIsChain
  <2>2. \A d \in Seq(Nat) : IsChain(Devices, d) => IsChain(Devices, d)'
    BY <1>1, ChainStays
  <2>3. PICK d \in Seq(Nat) : d = data
    BY <1>1
  <2>4. data' = d
    BY <2>3
  <2> QED
    BY <2>1, <2>2, <2>3, <2>4
<1>4. data' = data
  OBVIOUS
<1>5. Len(data) \in Nat /\ Len(data) > 0 /\ DOMAIN data = 1..Len(data)
  BY <1>1, <1>3, EmptySeq DEF IsChain
<1>6. /\ data[1] \in DOMAIN calls /\ data[Len(data)] \in DOMAIN calls
      /\ calls'[data[1]] = calls[data[1]]
      /\ calls'[data[Len(data)]] = calls[data[Len(data)]]
  <2>1. 1 \in DOMAIN data /\ Len(data) \in DOMAIN data
    BY <1>5
  <2>2. \A k \in DOMAIN data : data[k] \in DOMAIN calls
    BY <1>3 DEF IsChain
  <2> HIDE DEF data
  <2> QED
    BY <1>2, <2>1, <2>2
<1>7. ASSUME NEW r \in DOMAIN calls', IsSegmentOf(Devices, s, r)' PROVE r <= data[Len(data)]
  <2>1. r \in DOMAIN calls
    BY <1>2, <1>7 DEF IsSegmentOf
  <2>2. IsSegmentOf(Devices, s, r)
    BY <1>2, <1>7, <2>1 DEF IsSegmentOf
  <2> QED
    BY <2>1, <2>2 DEF ContextIsChain
<1> QED
  BY <1>3, <1>4, <1>6, <1>7 DEF ContextIsChain

(* The next segment of a stream follows the latest one if it has the next  *)
(* counter, and prolongs the chain that ends there.                        *)
LEMMA NextFollows ==
    ASSUME calls \in Seq(Messages), NEW m \in Messages, calls' = Append(calls, m),
           NEW p \in DOMAIN calls, NEW q, q = Len(calls) + 1,
           calls[p].stream = m.stream, m.wellFormed,
           m.seg \in {"continuation", "end"}, m.seq = NextSeq(calls[p].seq),
           \A r \in DOMAIN calls : IsSegmentOf(Devices, m.stream, r) => r <= p
    PROVE  Follows(Devices, p, q)'
<1>1. /\ Len(calls) \in Nat
      /\ DOMAIN calls = 1..Len(calls)
      /\ DOMAIN calls' = 1..(Len(calls) + 1)
      /\ \A i \in 1..Len(calls) : calls'[i] = calls[i]
      /\ calls'[Len(calls) + 1] = m
  BY CallsGrow
<1>2. ASSUME NEW r \in DOMAIN calls', IsSegmentOf(Devices, m.stream, r)'
      PROVE  r <= p \/ q <= r
  <2>1. CASE r \in DOMAIN calls
    <3>1. IsSegmentOf(Devices, m.stream, r)
      BY <1>1, <1>2, <2>1 DEF IsSegmentOf
    <3> QED
      BY <2>1, <3>1
  <2>2. CASE r \notin DOMAIN calls
    BY <1>1, <2>2
  <2> QED
    BY <2>1, <2>2
<1>3. p < q /\ calls'[p] = calls[p] /\ calls'[q] = m
  BY <1>1
<1>4. (\A r \in DOMAIN calls : IsSegmentOf(Devices, calls[p].stream, r) => r <= p \/ q <= r)'
  BY <1>2, <1>3
<1>5. m.device \in Devices
  BY CallIsMessage
<1> QED
  BY <1>3, <1>4, <1>5 DEF Follows

LEMMA ChainExtends ==
    ASSUME calls \in Seq(Messages), NEW m \in Messages, calls' = Append(calls, m),
           NEW data \in Seq(Nat), IsChain(Devices, data),
           NEW last, last = data[Len(data)],
           Len(data) > 1 => calls[last].seg = "continuation",
           calls[last].stream = m.stream, m.wellFormed,
           m.seg \in {"continuation", "end"}, m.seq = NextSeq(calls[last].seq),
           \A r \in DOMAIN calls : IsSegmentOf(Devices, m.stream, r) => r <= last,
           NEW longer, longer = Append(data, NewData)
    PROVE  /\ longer \in Seq(Nat)
           /\ Len(longer) = Len(data) + 1 /\ Len(longer) > 1
           /\ longer[1] = data[1] /\ longer[Len(longer)] = Len(calls) + 1
           /\ data[1] \in DOMAIN calls
           /\ IsChain(Devices, longer)'
<1>1. /\ Len(calls) \in Nat
      /\ DOMAIN calls = 1..Len(calls)
      /\ DOMAIN calls' = 1..(Len(calls) + 1)
      /\ \A i \in 1..Len(calls) : calls'[i] = calls[i]
      /\ NewData = Len(calls) + 1
  BY CallsGrow
<1>2. IsChain(Devices, data)'
  BY ChainStays
<1>3. PICK n \in Nat : n = Len(data) /\ n > 0 /\ DOMAIN data = 1..n
  BY EmptySeq DEF IsChain
<1>4. /\ longer \in Seq(Nat) /\ Len(longer) = n + 1
      /\ DOMAIN longer = 1..(n + 1)
      /\ \A k \in 1..n : longer[k] = data[k]
      /\ longer[n + 1] = Len(calls) + 1
  BY <1>1, <1>3
<1>5. \A k \in 1..n : data[k] \in DOMAIN calls /\ calls'[data[k]] = calls[data[k]]
  BY <1>1, <1>3 DEF IsChain
<1>6. PICK q : q = Len(calls) + 1
  OBVIOUS
<1>7. last \in DOMAIN calls /\ data[n] = last
  BY <1>3, <1>5
<1>8. Follows(Devices, last, q)'
  BY <1>6, <1>7, NextFollows
<1>9. IsChain(Devices, longer)'
  <2>1. longer # <<>>
    BY <1>3, <1>4, EmptySeq
  <2>2. \A k \in DOMAIN longer : longer[k] \in DOMAIN calls'
    BY <1>1, <1>3, <1>4, <1>5
  <2>3. calls'[longer[1]].wellFormed /\ calls'[longer[1]].seg = "start"
    <3>1. longer[1] = data[1]
      BY <1>3, <1>4
    <3> QED
      BY <1>2, <3>1 DEF IsChain
  <2>4. \A k \in 2..(n + 1) : Follows(Devices, longer[k - 1], longer[k])'
    <3> SUFFICES ASSUME NEW k \in 2..(n + 1)
                 PROVE  Follows(Devices, longer[k - 1], longer[k])'
      OBVIOUS
    <3>1. CASE k \in 2..n
      <4>1. k \in 1..n /\ k - 1 \in 1..n
        BY <3>1
      <4>2. longer[k - 1] = data[k - 1] /\ longer[k] = data[k]
        BY <1>4, <4>1
      <4>3. Follows(Devices, data[k - 1], data[k])'
        BY <1>2, <1>3, <3>1 DEF IsChain
      <4> QED
        BY <4>2, <4>3 DEF Follows
    <3>2. CASE k = n + 1
      <4>1. k - 1 = n /\ n \in 1..n
        BY <1>3, <3>2
      <4>2. longer[k - 1] = last /\ longer[k] = q
        BY <1>4, <1>6, <1>7, <3>2, <4>1
      <4> QED
        BY <1>8, <4>2 DEF Follows
    <3>3. k \in 2..n \/ k = n + 1
      OBVIOUS
    <3> QED
      BY <3>1, <3>2, <3>3
  <2>5. \A k \in 2..n : calls'[longer[k]].seg = "continuation"
    <3> SUFFICES ASSUME NEW k \in 2..n
                 PROVE  calls'[longer[k]].seg = "continuation"
      OBVIOUS
    <3>1. k \in 1..n /\ n > 1
      OBVIOUS
    <3>2. longer[k] = data[k] /\ calls'[data[k]] = calls[data[k]]
      BY <1>4, <1>5, <3>1
    <3>3. calls[data[k]].seg = "continuation"
      <4>1. CASE k = n
        BY <1>3, <1>7, <3>1, <4>1
      <4>2. CASE k \in 2..(n - 1)
        BY <1>3, <4>2 DEF IsChain
      <4> QED
        BY <4>1, <4>2
    <3> QED
      BY <3>2, <3>3
  <2>6. 2..(Len(longer) - 1) = 2..n
    <3>1. Len(longer) - 1 = n
      BY <1>4
    <3> QED
      BY <3>1
  <2> QED
    BY <1>4, <2>1, <2>2, <2>3, <2>4, <2>5, <2>6 DEF IsChain
<1> QED
  BY <1>3, <1>4, <1>5, <1>9

LEMMA SetContextFacts ==
    ASSUME NEW S, segmentContexts \in [S -> Context], NEW st, NEW ctx, SetContext(st, ctx),
           NEW s \in DOMAIN segmentContexts'
    PROVE  \/ s = st /\ segmentContexts'[s] = ctx
           \/ s # st /\ s \in DOMAIN segmentContexts /\ segmentContexts'[s] = segmentContexts[s]
  BY DEF SetContext

(* The strengthening that makes FramesOnStream inductive.                  *)
LEMMA CallKeepsChains ==
    ASSUME ReassemblyTypeOK, ActiveContextsAreChains,
           NEW m \in Messages, TryUnwrapCmpEthernet(m)
    PROVE  ActiveContextsAreChains'
<1> SUFFICES ASSUME NEW s \in DOMAIN segmentContexts', segmentContexts'[s].active
             PROVE  ContextIsChain(s)'
  BY DEF ActiveContextsAreChains
<1>1. PICK S \in SUBSET Streams : segmentContexts \in [S -> Context]
  BY DEF ReassemblyTypeOK
<1>2. calls \in Seq(Messages) /\ calls' = Append(calls, m)
  BY DEF ReassemblyTypeOK, TryUnwrapCmpEthernet
<1>3. ASSUME s \in DOMAIN segmentContexts, segmentContexts'[s] = segmentContexts[s],
             ~(m.stream = s /\ m.wellFormed /\ m.seg # "unsegmented")
      PROVE  ContextIsChain(s)'
  <2>1. ContextIsChain(s)
    BY <1>3 DEF ActiveContextsAreChains
  <2> QED
    BY <1>2, <1>3, <2>1, ContextStays
<1>4. CASE Malformed(m)
  BY <1>3, <1>4 DEF Malformed
<1>5. CASE Unsegmented(m)
  BY <1>3, <1>5 DEF Unsegmented
<1>6. CASE SegStart(m)
  <2> DEFINE ctx == [active |-> TRUE, expectedSeqCounter |-> NextSeq(m.seq),
           timestamp |-> m.stamp, deviceId |-> m.device,
           interfaceId |-> m.interface, accumulatedData |-> <<NewData>>]
  <2>1. SetContext(m.stream, ctx)
    BY <1>6 DEF SegStart
  <2>2. CASE s # m.stream
    <3> HIDE DEF ctx
    <3>1. s \in DOMAIN segmentContexts /\ segmentContexts'[s] = segmentContexts[s]
      BY <1>1, <2>1, <2>2, SetContextFacts
    <3> QED
      BY <1>3, <2>2, <3>1
  <2>3. CASE s = m.stream
    <3>1. segmentContexts'[s] = ctx
      <4> HIDE DEF ctx
      <4> QED
        BY <1>1, <2>1, <2>3, SetContextFacts
    <3>2. /\ Len(calls) \in Nat /\ NewData = Len(calls) + 1
          /\ DOMAIN calls' = 1..(Len(calls) + 1)
          /\ calls'[Len(calls) + 1] = m
      BY <1>2, CallsGrow
    <3>3. PICK q \in Nat : q = Len(calls) + 1
      BY <3>2
    <3>4. PICK d : d = <<q>>
      OBVIOUS
    <3>5. d # <<>> /\ Len(d) = 1 /\ DOMAIN d = {1} /\ d[1] = q
      BY <3>4
    <3>6. q \in DOMAIN calls' /\ calls'[q] = m /\ \A r \in DOMAIN calls' : r <= q
      BY <3>2, <3>3
    <3>7. IsChain(Devices, d)'
      BY <1>6, <3>5, <3>6 DEF IsChain, SegStart
    <3>8. /\ segmentContexts'[s].accumulatedData = d
          /\ segmentContexts'[s].expectedSeqCounter = NextSeq(m.seq)
          /\ segmentContexts'[s].deviceId = m.device
          /\ segmentContexts'[s].interfaceId = m.interface
          /\ segmentContexts'[s].timestamp = m.stamp
      BY <3>1, <3>2, <3>3, <3>4
    <3>9. IsChain(Devices, segmentContexts[s].accumulatedData)'
      BY <3>7, <3>8 DEF IsChain
    <3>10. PICK c : c = segmentContexts'[s]
      OBVIOUS
    <3>11. /\ calls'[c.accumulatedData[1]] = m
           /\ calls'[c.accumulatedData[Len(c.accumulatedData)]] = m
           /\ Len(c.accumulatedData) = 1
           /\ c.accumulatedData[Len(c.accumulatedData)] = q
      BY <3>5, <3>6, <3>8, <3>10
    <3>12. \A r \in DOMAIN calls' : IsSegmentOf(Devices, s, r)' => r <= q
      BY <3>6
    <3> QED
      BY <2>3, <3>8, <3>9, <3>10, <3>11, <3>12 DEF ContextIsChain
  <2> QED
    BY <2>2, <2>3
<1>7. CASE SegOutOfSequence(m)
  <2>1. CASE HasContext(m)
    <3> DEFINE ctx == [segmentContexts[m.stream] EXCEPT !.active = FALSE]
    <3>1. SetContext(m.stream, ctx)
      BY <1>7, <2>1 DEF SegOutOfSequence
    <3>2. ctx.active = FALSE
      BY <1>1, <2>1 DEF HasContext, Context
    <3> HIDE DEF ctx
    <3>3. s # m.stream /\ s \in DOMAIN segmentContexts /\ segmentContexts'[s] = segmentContexts[s]
      BY <1>1, <3>1, <3>2, SetContextFacts
    <3> QED
      BY <1>3, <3>3
  <2>2. CASE ~HasContext(m)
    <3>1. segmentContexts' = segmentContexts
      BY <1>7, <2>2 DEF SegOutOfSequence
    <3>2. s # m.stream
      BY <2>2, <3>1 DEF HasContext
    <3> QED
      BY <1>3, <3>1, <3>2
  <2> QED
    BY <2>1, <2>2
<1>8. CASE SegContinuation(m)
  <2> DEFINE old == segmentContexts[m.stream]
             ctx == [old EXCEPT !.accumulatedData = Append(@, NewData),
                                !.expectedSeqCounter = NextSeq(@)]
  <2>1. SetContext(m.stream, ctx) /\ m.stream \in S /\ old \in Context /\ old.active
    BY <1>1, <1>8 DEF SegContinuation, InSequence, HasContext
  <2>2. CASE s # m.stream
    <3> HIDE DEF ctx
    <3>1. s \in DOMAIN segmentContexts /\ segmentContexts'[s] = segmentContexts[s]
      BY <1>1, <2>1, <2>2, SetContextFacts
    <3> QED
      BY <1>3, <2>2, <3>1
  <2>3. CASE s = m.stream
    <3>1. segmentContexts'[s] = ctx
      <4> HIDE DEF ctx
      <4> QED
        BY <1>1, <2>1, <2>3, SetContextFacts
    <3>2. PICK data \in Seq(Nat) : data = old.accumulatedData
      BY <2>1 DEF Context
    <3>3. PICK longer : longer = Append(data, NewData)
      OBVIOUS
    <3>4. PICK last : last = data[Len(data)]
      OBVIOUS
    <3>5. ContextIsChain(s)
      BY <1>1, <2>1, <2>3 DEF ActiveContextsAreChains
    <3>6. /\ IsChain(Devices, data)
          /\ calls[last].stream = m.stream
          /\ Len(data) > 1 => calls[last].seg = "continuation"
          /\ \A r \in DOMAIN calls : IsSegmentOf(Devices, m.stream, r) => r <= last
          /\ m.seq = NextSeq(calls[last].seq)
          /\ m.wellFormed /\ m.seg = "continuation"
          /\ old.expectedSeqCounter = m.seq
          /\ old.deviceId = calls[data[1]].device
          /\ old.interfaceId = calls[data[1]].interface
          /\ old.timestamp = calls[data[1]].stamp
          /\ calls[data[1]].stream = s
      BY <1>8, <2>3, <3>2, <3>4, <3>5 DEF ContextIsChain, SegContinuation, InSequence
    <3>7. /\ longer \in Seq(Nat)
          /\ Len(longer) = Len(data) + 1 /\ Len(longer) > 1
          /\ longer[1] = data[1] /\ longer[Len(longer)] = Len(calls) + 1
          /\ data[1] \in DOMAIN calls
          /\ IsChain(Devices, longer)'
      BY <1>2, <3>3, <3>4, <3>6, ChainExtends
    <3>8. /\ segmentContexts'[s].accumulatedData = longer
          /\ segmentContexts'[s].expectedSeqCounter = NextSeq(m.seq)
          /\ segmentContexts'[s].deviceId = old.deviceId
          /\ segmentContexts'[s].interfaceId = old.interfaceId
          /\ segmentContexts'[s].timestamp = old.timestamp
      BY <2>1, <3>1, <3>2, <3>3, <3>6 DEF Context
    <3>9. /\ calls'[Len(calls) + 1] = m
          /\ \A i \in DOMAIN calls : calls'[i] = calls[i]
          /\ \A r \in DOMAIN calls' : r <= Len(calls) + 1
      BY <1>2, CallsGrow
    <3>10. calls'[longer[1]] = calls[data[1]] /\ calls'[longer[Len(longer)]] = m
      BY <3>7, <3>9
    <3>11. \A r \in DOMAIN calls' : r <= longer[Len(longer)]
      BY <3>7, <3>9
    <3> HIDE DEF ctx, old
    <3> QED
      BY <2>3, <3>6, <3>7, <3>8, <3>10, <3>11 DEF ContextIsChain
  <2> QED
    BY <2>2, <2>3
<1>9. CASE SegEnd(m)
  <2> DEFINE ctx == [segmentContexts[m.stream] EXCEPT !.active = FALSE,
                                                     !.accumulatedData = <<>>]
  <2>1. SetContext(m.stream, ctx)
    BY <1>9 DEF SegEnd
  <2>2. ctx.active = FALSE
    BY <1>1, <1>9 DEF SegEnd, InSequence, HasContext, Context
  <2> HIDE DEF ctx
  <2>3. s # m.stream /\ s \in DOMAIN segmentContexts /\ segmentContexts'[s] = segmentContexts[s]
    BY <1>1, <2>1, <2>2, SetContextFacts
  <2> QED
    BY <1>3, <2>3
<1> QED
  BY <1>4, <1>5, <1>6, <1>7, <1>8, <1>9 DEF TryUnwrapCmpEthernet

(* A frame that was whole stays whole.                                     *)
LEMMA WholeStays ==
    ASSUME calls \in Seq(Messages), NEW m \in Messages, calls' = Append(calls, m),
           NEW f \in Frame, FrameIsWhole(Devices, f)
    PROVE  FrameIsWhole(Devices, f)'
<1>1. PICK d \in Seq(Nat) : d = f.data
  BY DEF Frame
<1>2. IsWhole(Devices, d) /\ IsWhole(Devices, d)'
  BY <1>1, ChainStays DEF FrameIsWhole
<1>3. d[1] \in DOMAIN calls
  <2>1. CASE Len(d) = 1
    BY <1>2, <2>1 DEF IsWhole
  <2>2. CASE Len(d) > 1
    BY <1>2, <2>2 DEF IsWhole, IsChain
  <2> QED
    BY <1>2, <2>1, <2>2 DEF IsWhole
<1>4. calls'[d[1]] = calls[d[1]]
  BY <1>3, CallsGrow
<1> QED
  BY <1>1, <1>2, <1>4 DEF FrameIsWhole

LEMMA AppendedFrame ==
    ASSUME ReassemblyTypeOK, FramesOnStream,
           NEW m \in Messages, calls' = Append(calls, m),
           NEW f \in Frame, FrameIsWhole(Devices, f)',
           frames' = Append(frames, f) \/ frames' = frames
    PROVE  FramesOnStream'
<1>1. frames \in Seq(Frame) /\ calls \in Seq(Messages)
  BY DEF ReassemblyTypeOK
<1>2. ASSUME NEW i \in DOMAIN frames, NEW g, g = frames[i]
      PROVE  FrameIsWhole(Devices, g)'
  <2>1. g \in Frame /\ FrameIsWhole(Devices, g)
    BY <1>1, <1>2 DEF FramesOnStream
  <2> QED
    BY <1>1, <2>1, WholeStays
<1>3. SUFFICES ASSUME NEW i \in DOMAIN frames' PROVE FrameIsWhole(Devices, frames[i])'
  BY DEF FramesOnStream
<1>4. PICK g : g = frames'[i]
  OBVIOUS
<1>5. g = f \/ (i \in DOMAIN frames /\ g = frames[i])
  BY <1>1, <1>4
<1>6. FrameIsWhole(Devices, g)'
  BY <1>2, <1>5
<1> QED
  BY <1>4, <1>6 DEF FrameIsWhole

LEMMA CallKeepsFrames ==
    ASSUME ReassemblyTypeOK, ActiveContextsAreChains, FramesOnStream,
           NEW m \in Messages, TryUnwrapCmpEthernet(m)
    PROVE  FramesOnStream'
<1>1. PICK S \in SUBSET Streams : segmentContexts \in [S -> Context]
  BY DEF ReassemblyTypeOK
<1>2. /\ calls \in Seq(Messages) /\ calls' = Append(calls, m) /\ frames \in Seq(Frame)
      /\ m \in MessageType
  BY MessagesAssumption DEF ReassemblyTypeOK, TryUnwrapCmpEthernet
<1>3. /\ Len(calls) \in Nat /\ NewData = Len(calls) + 1
      /\ DOMAIN calls = 1..Len(calls)
      /\ DOMAIN calls' = 1..(Len(calls) + 1)
      /\ \A i \in 1..Len(calls) : calls'[i] = calls[i]
      /\ calls'[Len(calls) + 1] = m
  BY <1>2, CallsGrow
<1>4. CASE frames' = frames
  <2>1. \A i \in DOMAIN frames : \A g : g = frames[i] => FrameIsWhole(Devices, g)'
    <3> SUFFICES ASSUME NEW i \in DOMAIN frames, NEW g, g = frames[i]
                 PROVE  FrameIsWhole(Devices, g)'
      OBVIOUS
    <3>1. g \in Frame /\ FrameIsWhole(Devices, g)
      BY <1>2 DEF FramesOnStream
    <3> QED
      BY <1>2, <3>1, WholeStays
  <2>2. SUFFICES ASSUME NEW i \in DOMAIN frames' PROVE FrameIsWhole(Devices, frames[i])'
    BY DEF FramesOnStream
  <2>3. PICK g : g = frames[i]
    OBVIOUS
  <2>4. FrameIsWhole(Devices, g)'
    BY <1>4, <2>1, <2>3
  <2> QED
    BY <1>4, <2>3, <2>4 DEF FrameIsWhole
<1>5. CASE Unsegmented(m) /\ frames' # frames
  <2>1. PICK f : f = [data |-> <<NewData>>, deviceId |-> m.device,
                      interfaceId |-> m.interface, timestamp |-> m.stamp]
    OBVIOUS
  <2>2. frames' = Append(frames, f) /\ CmpMapLookup16(m.device, m.interface)
        /\ m.wellFormed /\ m.seg = "unsegmented"
    BY <1>5, <2>1 DEF Unsegmented
  <2>3. PICK d : d = <<Len(calls) + 1>>
    OBVIOUS
  <2>4. d \in Seq(Nat) /\ Len(d) = 1 /\ d[1] = Len(calls) + 1
    BY <1>3, <2>3
  <2>5. /\ f.data = d /\ f.deviceId = m.device /\ f.interfaceId = m.interface
        /\ f.timestamp = m.stamp
    BY <1>3, <2>1, <2>3
  <2>6. f \in Frame
    BY <1>2, <1>3, <2>1 DEF Frame, MessageType
  <2>7. IsWhole(Devices, d)'
    BY <1>3, <2>2, <2>4 DEF IsWhole
  <2>8. IsWhole(Devices, f.data)'
    BY <2>5, <2>7 DEF IsWhole, IsChain
  <2>9. calls'[f.data[1]] = m
    BY <1>3, <2>4, <2>5
  <2>10. FrameIsWhole(Devices, f)'
    BY <2>2, <2>5, <2>8, <2>9 DEF FrameIsWhole, CmpMapLookup16
  <2> QED
    BY <1>2, <2>2, <2>6, <2>10, AppendedFrame
<1>6. CASE SegEnd(m) /\ frames' # frames
  <2> DEFINE old == segmentContexts[m.stream]
  <2>1. m.stream \in S /\ old \in Context /\ old.active
    BY <1>1, <1>6 DEF SegEnd, InSequence, HasContext
  <2>2. PICK data \in Seq(Nat) : data = old.accumulatedData
    BY <2>1 DEF Context
  <2>3. PICK longer : longer = Append(data, NewData)
    OBVIOUS
  <2>4. PICK last : last = data[Len(data)]
    OBVIOUS
  <2>5. ContextIsChain(m.stream)
    BY <1>1, <2>1 DEF ActiveContextsAreChains
  <2>6. /\ IsChain(Devices, data)
        /\ calls[last].stream = m.stream
        /\ Len(data) > 1 => calls[last].seg = "continuation"
        /\ \A r \in DOMAIN calls : IsSegmentOf(Devices, m.stream, r) => r <= last
        /\ m.seq = NextSeq(calls[last].seq)
        /\ m.wellFormed /\ m.seg = "end"
        /\ old.deviceId = calls[data[1]].device
        /\ old.interfaceId = calls[data[1]].interface
        /\ old.timestamp = calls[data[1]].stamp
    BY <1>6, <2>2, <2>4, <2>5 DEF ContextIsChain, SegEnd, InSequence
  <2>7. /\ longer \in Seq(Nat)
        /\ Len(longer) = Len(data) + 1 /\ Len(longer) > 1
        /\ longer[1] = data[1] /\ longer[Len(longer)] = Len(calls) + 1
        /\ data[1] \in DOMAIN calls
        /\ IsChain(Devices, longer)'
    BY <1>2, <2>3, <2>4, <2>6, ChainExtends
  <2>8. PICK f : f = [data |-> longer, deviceId |-> old.deviceId,
                      interfaceId |-> old.interfaceId, timestamp |-> old.timestamp]
    OBVIOUS
  <2>9. frames' = Append(frames, f) /\ CmpMapLookup16(old.deviceId, old.interfaceId)
    BY <1>6, <2>2, <2>3, <2>8 DEF SegEnd
  <2>10. f \in Frame
    BY <2>1, <2>7, <2>8 DEF Frame, Context
  <2>11. IsWhole(Devices, longer)'
    <3>1. calls'[longer[Len(longer)]] = m
      BY <1>3, <2>7
    <3> QED
      BY <2>6, <2>7, <3>1 DEF IsWhole
  <2>12. calls'[longer[1]] = calls[data[1]]
    BY <1>3, <2>7
  <2>13. /\ f.data = longer /\ f.deviceId = old.deviceId
         /\ f.interfaceId = old.interfaceId /\ f.timestamp = old.timestamp
    BY <2>8
  <2> HIDE DEF old
  <2>14. FrameIsWhole(Devices, f)'
    <3>1. IsWhole(Devices, f.data)'
      BY <2>11, <2>13 DEF IsWhole, IsChain
    <3>2. calls'[f.data[1]] = calls[data[1]]
      BY <2>12, <2>13
    <3> QED
      BY <2>6, <2>9, <2>13, <3>1, <3>2 DEF FrameIsWhole, CmpMapLookup16
  <2> QED
    BY <1>2, <2>9, <2>10, <2>14, AppendedFrame
<1>7. frames' = frames \/ Unsegmented(m) \/ SegEnd(m)
  BY DEF TryUnwrapCmpEthernet, Malformed, SegStart, SegOutOfSequence, SegContinuation
<1> QED
  BY <1>4, <1>5, <1>6, <1>7

(* An active context always holds the segments of one frame so far.        *)
THEOREM ContextsCorrect == ReassemblySpec => []ActiveContextsAreChains
<1>1. ReassemblyInit => ActiveContextsAreChains
  BY DEF ReassemblyInit, ActiveContextsAreChains
<1>2. ReassemblyTypeOK /\ ActiveContextsAreChains /\ [ReassemblyNext]_reassemblyVars
        => ActiveContextsAreChains'
  <2> SUFFICES ASSUME ReassemblyTypeOK, ActiveContextsAreChains,
                      [ReassemblyNext]_reassemblyVars
               PROVE  ActiveContextsAreChains'
    OBVIOUS
  <2>1. CASE ReassemblyNext
    BY <2>1, CallKeepsChains DEF ReassemblyNext
  <2>2. CASE UNCHANGED reassemblyVars
    BY <2>2 DEF reassemblyVars, ActiveContextsAreChains, ContextIsChain, IsChain,
                Follows, IsSegmentOf
  <2> QED
    BY <2>1, <2>2
<1> QED
  BY <1>1, <1>2, ReassemblyTypeCorrect, PTL DEF ReassemblySpec

LEMMA FramesCorrectOnStream == ReassemblySpec => []FramesOnStream
<1>1. ReassemblyInit => FramesOnStream
  BY EmptySeq DEF ReassemblyInit, FramesOnStream
<1>2. ReassemblyTypeOK /\ ActiveContextsAreChains /\ FramesOnStream
        /\ [ReassemblyNext]_reassemblyVars => FramesOnStream'
  <2> SUFFICES ASSUME ReassemblyTypeOK, ActiveContextsAreChains, FramesOnStream,
                      [ReassemblyNext]_reassemblyVars
               PROVE  FramesOnStream'
    OBVIOUS
  <2>1. CASE ReassemblyNext
    BY <2>1, CallKeepsFrames DEF ReassemblyNext
  <2>2. CASE UNCHANGED reassemblyVars
    BY <2>2 DEF reassemblyVars, FramesOnStream, FrameIsWhole, IsWhole, IsChain,
                Follows, IsSegmentOf
  <2> QED
    BY <2>1, <2>2
<1> QED
  BY <1>1, <1>2, ReassemblyTypeCorrect, ContextsCorrect, PTL DEF ReassemblySpec
-------------------------------------------------------------------------------
(* The other direction.  The segments of a frame up to the latest segment  *)
(* of their stream are what an active context of that stream holds, so     *)
(* that the END which completes them finds them there.                     *)
IsOpenChain(data) ==
    /\ IsChain(Devices, data)
    /\ Len(data) > 1 => calls[data[Len(data)]].seg = "continuation"
    /\ \A r \in DOMAIN calls :
          IsSegmentOf(Devices, calls[data[Len(data)]].stream, r) => r <= data[Len(data)]

HoldsChain(stream, data) ==
    /\ stream \in DOMAIN segmentContexts
    /\ segmentContexts[stream].active
    /\ segmentContexts[stream].accumulatedData = data

OpenChainsActive ==
    \A data \in Seq(Nat) :
        IsOpenChain(data) => HoldsChain(calls[data[Len(data)]].stream, data)

IsReturned(data) == \E i \in DOMAIN frames : frames[i].data = data

WholeReturned ==
    \A data \in Seq(Nat) :
        (IsWhole(Devices, data) /\ CmpMapLookup16(calls[data[1]].device, calls[data[1]].interface))
            => IsReturned(data)

(* What a chain says of calls that were there before the latest one.       *)
LEMMA FollowedBefore ==
    ASSUME calls \in Seq(Messages), NEW m \in Messages, calls' = Append(calls, m),
           NEW p \in DOMAIN calls, NEW q \in DOMAIN calls, Follows(Devices, p, q)'
    PROVE  Follows(Devices, p, q)
<1>1. /\ DOMAIN calls = 1..Len(calls) /\ Len(calls) \in Nat
      /\ DOMAIN calls' = 1..(Len(calls) + 1)
      /\ \A i \in 1..Len(calls) : calls'[i] = calls[i]
  BY CallsGrow
<1>2. ASSUME NEW r \in DOMAIN calls, IsSegmentOf(Devices, calls[p].stream, r)
      PROVE  r <= p \/ q <= r
  <2>1. r \in DOMAIN calls' /\ calls'[r] = calls[r] /\ calls'[p] = calls[p]
    BY <1>1
  <2>2. IsSegmentOf(Devices, calls[p].stream, r)'
    BY <1>2, <2>1 DEF IsSegmentOf
  <2> QED
    BY <2>1, <2>2 DEF Follows
<1> QED
  BY <1>1, <1>2 DEF Follows

LEMMA SegmentOfBefore ==
    ASSUME calls \in Seq(Messages), NEW m \in Messages, calls' = Append(calls, m),
           NEW stream, NEW last \in DOMAIN calls,
           \A r \in DOMAIN calls' : IsSegmentOf(Devices, stream, r)' => r <= last
    PROVE  /\ \A r \in DOMAIN calls : IsSegmentOf(Devices, stream, r) => r <= last
           /\ ~(m.stream = stream /\ m.wellFormed /\ m.seg # "unsegmented")
<1>1. /\ DOMAIN calls = 1..Len(calls) /\ Len(calls) \in Nat
      /\ DOMAIN calls' = 1..(Len(calls) + 1)
      /\ \A i \in 1..Len(calls) : calls'[i] = calls[i]
      /\ calls'[Len(calls) + 1] = m
  BY CallsGrow
<1>2. ASSUME NEW r \in DOMAIN calls, IsSegmentOf(Devices, stream, r) PROVE r <= last
  <2>1. r \in DOMAIN calls' /\ calls'[r] = calls[r]
    BY <1>1
  <2> QED
    BY <1>2, <2>1 DEF IsSegmentOf
<1>3. ~(m.stream = stream /\ m.wellFormed /\ m.seg # "unsegmented")
  <2>1. PICK q : q = Len(calls) + 1
    OBVIOUS
  <2>2. q \in DOMAIN calls' /\ ~(q <= last)
    BY <1>1, <2>1
  <2>3. ~IsSegmentOf(Devices, stream, q)'
    BY <2>2
  <2>4. ~(calls'[q].stream = stream /\ calls'[q].wellFormed /\ calls'[q].seg # "unsegmented")
    BY <1>1, <2>1, <2>3, CallIsMessage DEF IsSegmentOf
  <2> QED
    BY <1>1, <2>1, <2>4
<1> QED
  BY <1>2, <1>3

(* A chain that does not end with the latest call was one before it; one   *)
(* that does was one, up to its last but one segment.                      *)
LEMMA ChainBefore ==
    ASSUME calls \in Seq(Messages), NEW m \in Messages, calls' = Append(calls, m),
           NEW data \in Seq(Nat), IsChain(Devices, data)', data[Len(data)] \in DOMAIN calls
    PROVE  /\ IsChain(Devices, data) /\ data[1] \in DOMAIN calls
           /\ Len(data) \in Nat /\ Len(data) > 0
<1>1. /\ DOMAIN calls = 1..Len(calls) /\ Len(calls) \in Nat
      /\ DOMAIN calls' = 1..(Len(calls) + 1)
      /\ \A i \in 1..Len(calls) : calls'[i] = calls[i]
  BY CallsGrow
<1>2. PICK n \in Nat : n = Len(data) /\ n > 0 /\ DOMAIN data = 1..n
  BY EmptySeq DEF IsChain
<1>0. \A k \in 1..n : data[k] \in DOMAIN calls'
  <2>1. \A k \in DOMAIN data : data[k] \in DOMAIN calls'
    BY DEF IsChain
  <2> QED
    BY <1>2, <2>1
<1>3. \A k \in 1..n : data[k] \in DOMAIN calls
  <2> SUFFICES ASSUME NEW k \in 1..n, data[k] \notin DOMAIN calls PROVE FALSE
    OBVIOUS
  <2>1. data[k] \in DOMAIN calls' /\ data[k] = Len(calls) + 1 /\ k # n
    BY <1>0, <1>1, <1>2
  <2>2. PICK j : j = k + 1
    OBVIOUS
  <2>3. j \in 2..n /\ j \in 1..n /\ j - 1 = k
    BY <1>2, <2>1, <2>2
  <2>4. Follows(Devices, data[k], data[j])'
    BY <1>2, <2>3 DEF IsChain
  <2>5. data[k] < data[j] /\ data[j] \in DOMAIN calls'
    BY <1>0, <2>3, <2>4 DEF Follows
  <2> QED
    BY <1>1, <2>1, <2>5
<1>4. \A k \in 2..n : Follows(Devices, data[k - 1], data[k])
  <2> SUFFICES ASSUME NEW k \in 2..n PROVE Follows(Devices, data[k - 1], data[k])
    OBVIOUS
  <2>1. PICK i : i = k - 1
    OBVIOUS
  <2>2. i \in 1..n /\ k \in 1..n
    BY <2>1
  <2>3. Follows(Devices, data[i], data[k])'
    BY <1>2, <2>1 DEF IsChain
  <2> QED
    BY <1>3, <2>1, <2>2, <2>3, FollowedBefore
<1>5. \A k \in 1..n : calls'[data[k]] = calls[data[k]]
  BY <1>1, <1>3
<1>6. calls[data[1]].wellFormed /\ calls[data[1]].seg = "start"
  <2>1. 1 \in 1..n
    BY <1>2
  <2>2. calls'[data[1]] = calls[data[1]]
    BY <1>5, <2>1
  <2> QED
    BY <2>2 DEF IsChain
<1>7. \A k \in 2..(n - 1) : calls[data[k]].seg = "continuation"
  <2>1. \A k \in 2..(n - 1) : k \in 1..n
    BY <1>2
  <2>2. \A k \in 2..(n - 1) : calls'[data[k]].seg = "continuation"
    BY <1>2 DEF IsChain
  <2> QED
    BY <1>5, <2>1, <2>2
<1>8. data # <<>>
  BY DEF IsChain
<1> QED
  BY <1>2, <1>3, <1>4, <1>6, <1>7, <1>8 DEF IsChain

LEMMA FrontBefore ==
    ASSUME calls \in Seq(Messages), NEW m \in Messages, calls' = Append(calls, m),
           NEW data \in Seq(Nat), IsChain(Devices, data)', data[Len(data)] \notin DOMAIN calls,
           Len(data) > 1
    PROVE  \E front \in Seq(Nat) :
              /\ data = Append(front, NewData)
              /\ IsOpenChain(front)
              /\ front[1] = data[1] /\ data[1] \in DOMAIN calls
              /\ calls[front[Len(front)]].stream = m.stream
              /\ m.wellFormed /\ m.seg \in {"continuation", "end"}
              /\ m.seq = NextSeq(calls[front[Len(front)]].seq)
              /\ calls'[data[Len(data)]] = m
<1>1. /\ DOMAIN calls = 1..Len(calls) /\ Len(calls) \in Nat
      /\ DOMAIN calls' = 1..(Len(calls) + 1)
      /\ \A i \in 1..Len(calls) : calls'[i] = calls[i]
      /\ calls'[Len(calls) + 1] = m /\ NewData = Len(calls) + 1
  BY CallsGrow
<1>2. PICK n \in Nat : n > 0 /\ Len(data) = n + 1 /\ DOMAIN data = 1..(n + 1)
  <2>1. Len(data) - 1 \in Nat /\ Len(data) = (Len(data) - 1) + 1 /\ Len(data) - 1 > 0
    OBVIOUS
  <2> QED
    BY <2>1
<1>3. PICK front : front = SubSeq(data, 1, n)
  OBVIOUS
<1>4. /\ front \in Seq(Nat) /\ Len(front) = n /\ data = Append(front, data[n + 1])
      /\ \A k \in 1..n : front[k] = data[k]
  <2>1. front \in Seq(Nat) /\ Len(front) = n /\ data = Append(front, data[n + 1]) /\ data[n + 1] \in Nat
    BY <1>2, <1>3, LastApart
  <2>2. PICK x \in Nat : x = data[n + 1]
    BY <2>1
  <2>3. \A k \in 1..n : Append(front, x)[k] = front[k]
    BY <2>1, AppendFacts
  <2> QED
    BY <2>1, <2>2, <2>3
<1>0. \A k \in 1..(n + 1) : data[k] \in DOMAIN calls'
  <2>1. \A k \in DOMAIN data : data[k] \in DOMAIN calls'
    BY DEF IsChain
  <2> QED
    BY <1>2, <2>1
<1>5. data[n + 1] = Len(calls) + 1
  <2>1. data[n + 1] \in DOMAIN calls'
    BY <1>0, <1>2
  <2> QED
    BY <1>1, <1>2, <2>1
<1>6. PICK last : last = data[n]
  OBVIOUS
<1>7. PICK q : q = Len(calls) + 1
  OBVIOUS
<1>8. Follows(Devices, last, q)'
  <2>1. PICK j : j = n + 1
    OBVIOUS
  <2>2. j \in 2..Len(data) /\ j - 1 = n /\ data[j] = q
    BY <1>2, <1>5, <1>7, <2>1
  <2>3. Follows(Devices, data[j - 1], data[j])'
    BY <2>2 DEF IsChain
  <2> QED
    BY <1>6, <2>2, <2>3
<1>9. last \in DOMAIN calls
  <2>1. last \in DOMAIN calls'
    BY <1>0, <1>2, <1>6
  <2>2. last < q
    BY <1>8 DEF Follows
  <2> QED
    BY <1>1, <1>7, <2>1, <2>2
<1>10. /\ m.stream = calls[last].stream
       /\ m.wellFormed /\ m.seg \in {"continuation", "end"}
       /\ m.seq = NextSeq(calls[last].seq)
  <2>1. calls'[q] = m /\ calls'[last] = calls[last]
    BY <1>1, <1>7, <1>9
  <2> QED
    BY <1>8, <2>1 DEF Follows
<1>11. \A r \in DOMAIN calls : IsSegmentOf(Devices, calls[last].stream, r) => r <= last
  <2> SUFFICES ASSUME NEW r \in DOMAIN calls, IsSegmentOf(Devices, calls[last].stream, r)
               PROVE  r <= last
    OBVIOUS
  <2>1. r \in DOMAIN calls' /\ calls'[r] = calls[r] /\ calls'[last] = calls[last] /\ ~(q <= r)
    BY <1>1, <1>7, <1>9
  <2>2. IsSegmentOf(Devices, calls[last].stream, r)'
    BY <2>1 DEF IsSegmentOf
  <2> QED
    BY <1>8, <2>1, <2>2 DEF Follows
<1>12. IsChain(Devices, front)'
  <2>1. front # <<>> /\ DOMAIN front = 1..n
    BY <1>2, <1>4, EmptySeq
  <2>2. \A k \in 1..n : data[k] \in DOMAIN calls'
    BY <1>0, <1>2
  <2>3. front[1] = data[1]
    BY <1>2, <1>4
  <2>4. ASSUME NEW k \in 2..n PROVE Follows(Devices, front[k - 1], front[k])'
    <3>1. PICK i : i = k - 1
      OBVIOUS
    <3>2. i \in 1..n /\ k \in 1..n /\ k \in 2..Len(data)
      BY <1>2, <3>1
    <3>3. Follows(Devices, data[i], data[k])'
      BY <3>1, <3>2 DEF IsChain
    <3>4. front[k - 1] = data[i] /\ front[k] = data[k]
      BY <1>4, <3>1, <3>2
    <3> QED
      BY <3>3, <3>4 DEF Follows, IsSegmentOf
  <2>5. \A k \in 2..(n - 1) : calls'[front[k]].seg = "continuation"
    <3>1. \A k \in 2..(n - 1) : k \in 2..(Len(data) - 1) /\ k \in 1..n
      BY <1>2
    <3> QED
      BY <1>4, <3>1 DEF IsChain
  <2>6. calls'[data[1]].wellFormed /\ calls'[data[1]].seg = "start"
    BY DEF IsChain
  <2> QED
    BY <1>4, <2>1, <2>2, <2>3, <2>4, <2>5, <2>6 DEF IsChain
<1>13. front[n] = last
  BY <1>2, <1>4, <1>6
<1>14. IsChain(Devices, front) /\ front[1] \in DOMAIN calls
  BY <1>4, <1>9, <1>12, <1>13, ChainBefore
<1>15. n > 1 => calls[last].seg = "continuation"
  <2>1. n > 1 => n \in 2..(Len(data) - 1)
    BY <1>2
  <2>2. n > 1 => calls'[last].seg = "continuation"
    BY <1>6, <2>1 DEF IsChain
  <2> QED
    BY <1>1, <1>9, <2>2
<1>16. IsOpenChain(front)
  BY <1>4, <1>11, <1>13, <1>14, <1>15 DEF IsOpenChain
<1>17. front[1] = data[1] /\ calls'[data[Len(data)]] = m /\ data = Append(front, NewData)
  BY <1>1, <1>2, <1>4, <1>5
<1> QED
  BY <1>4, <1>10, <1>13, <1>14, <1>16, <1>17

(* A call disturbs the context of one stream only, and that only with a    *)
(* segment; and it takes no frame back.                                    *)
LEMMA OtherContextsStay ==
    ASSUME ReassemblyTypeOK, NEW m \in Messages, TryUnwrapCmpEthernet(m),
           NEW stream, NEW data, HoldsChain(stream, data),
           ~(m.stream = stream /\ m.wellFormed /\ m.seg # "unsegmented")
    PROVE  HoldsChain(stream, data)'
<1>1. PICK S \in SUBSET Streams : segmentContexts \in [S -> Context]
  BY DEF ReassemblyTypeOK
<1>2. stream \in S /\ stream \in DOMAIN segmentContexts
  BY <1>1 DEF HoldsChain
<1>3. \/ segmentContexts' = segmentContexts
      \/ \E ctx : SetContext(m.stream, ctx) /\ m.wellFormed /\ m.seg # "unsegmented"
  BY DEF TryUnwrapCmpEthernet, Malformed, Unsegmented, SegStart, SegOutOfSequence,
         SegContinuation, SegEnd
<1>4. stream \in DOMAIN segmentContexts' /\ segmentContexts'[stream] = segmentContexts[stream]
  BY <1>2, <1>3 DEF SetContext
<1> QED
  BY <1>4 DEF HoldsChain

LEMMA FramesStay ==
    ASSUME ReassemblyTypeOK, ReassemblyTypeOK', NEW m \in Messages, TryUnwrapCmpEthernet(m),
           NEW data, IsReturned(data)
    PROVE  IsReturned(data)'
<1>1. frames \in Seq(Frame) /\ frames' \in Seq(Frame)
  BY DEF ReassemblyTypeOK
<1>2. frames' = frames \/ \E f : frames' = Append(frames, f)
  BY DEF TryUnwrapCmpEthernet, Malformed, Unsegmented, SegStart, SegOutOfSequence,
         SegContinuation, SegEnd
<1>3. PICK i \in DOMAIN frames : frames[i].data = data
  BY DEF IsReturned
<1>4. i \in DOMAIN frames' /\ frames'[i] = frames[i]
  BY <1>1, <1>2
<1> QED
  BY <1>3, <1>4 DEF IsReturned

LEMMA FrameIsReturned ==
    ASSUME frames \in Seq(Frame), NEW f, frames' = Append(frames, f)
    PROVE  IsReturned(f.data)'
<1>1. Len(frames) + 1 \in DOMAIN frames' /\ frames'[Len(frames) + 1] = f
  OBVIOUS
<1> QED
  BY <1>1 DEF IsReturned

(* The segment that comes next in its stream finds the chain it prolongs.  *)
LEMMA FindsChain ==
    ASSUME ReassemblyTypeOK, ActiveContextsAreChains, OpenChainsActive,
           NEW m \in Messages, NEW front \in Seq(Nat), IsOpenChain(front),
           calls[front[Len(front)]].stream = m.stream,
           m.seq = NextSeq(calls[front[Len(front)]].seq)
    PROVE  /\ HoldsChain(m.stream, front) /\ InSequence(m)
           /\ segmentContexts[m.stream] \in Context
           /\ segmentContexts[m.stream].deviceId = calls[front[1]].device
           /\ segmentContexts[m.stream].interfaceId = calls[front[1]].interface
<1>1. HoldsChain(m.stream, front)
  BY DEF OpenChainsActive
<1>2. ContextIsChain(m.stream)
  BY <1>1 DEF HoldsChain, ActiveContextsAreChains
<1>3. segmentContexts[m.stream].accumulatedData = front /\ HasContext(m)
  BY <1>1 DEF HoldsChain, HasContext
<1>4. /\ segmentContexts[m.stream].expectedSeqCounter = m.seq
      /\ segmentContexts[m.stream].deviceId = calls[front[1]].device
      /\ segmentContexts[m.stream].interfaceId = calls[front[1]].interface
  BY <1>2, <1>3 DEF ContextIsChain
<1>5. segmentContexts[m.stream] \in Context
  BY <1>1 DEF ReassemblyTypeOK, HoldsChain
<1> QED
  BY <1>1, <1>3, <1>4, <1>5 DEF InSequence

LEMMA OpenChainBefore ==
    ASSUME calls \in Seq(Messages), NEW m \in Messages, calls' = Append(calls, m),
           NEW data \in Seq(Nat), IsOpenChain(data)', data[Len(data)] \in DOMAIN calls
    PROVE  /\ IsOpenChain(data)
           /\ calls'[data[Len(data)]] = calls[data[Len(data)]]
           /\ ~(/\ m.stream = calls[data[Len(data)]].stream
                /\ m.wellFormed /\ m.seg # "unsegmented")
<1>1. PICK last \in DOMAIN calls : last = data[Len(data)]
  OBVIOUS
<1>2. calls'[last] = calls[last]
  BY CallsGrow
<1>3. IsChain(Devices, data)
  BY ChainBefore DEF IsOpenChain
<1>4. PICK stream : stream = calls[last].stream
  OBVIOUS
<1>5. /\ Len(data) > 1 => calls[last].seg = "continuation"
      /\ \A r \in DOMAIN calls' : IsSegmentOf(Devices, stream, r)' => r <= last
  <2>1. /\ Len(data) > 1 => calls'[last].seg = "continuation"
        /\ \A r \in DOMAIN calls' : IsSegmentOf(Devices, calls[last].stream, r)' => r <= last
    BY <1>1, <1>2 DEF IsOpenChain, IsSegmentOf
  <2> QED
    BY <1>2, <1>4, <2>1 DEF IsSegmentOf
<1>6. /\ \A r \in DOMAIN calls : IsSegmentOf(Devices, stream, r) => r <= last
      /\ ~(m.stream = stream /\ m.wellFormed /\ m.seg # "unsegmented")
  BY <1>5, SegmentOfBefore
<1> QED
  BY <1>1, <1>2, <1>3, <1>4, <1>5, <1>6 DEF IsOpenChain

LEMMA CallKeepsOpenChains ==
    ASSUME ReassemblyTypeOK, ActiveContextsAreChains, OpenChainsActive,
           NEW m \in Messages, TryUnwrapCmpEthernet(m)
    PROVE  OpenChainsActive'
<1> SUFFICES ASSUME NEW data \in Seq(Nat), IsOpenChain(data)'
             PROVE  HoldsChain(calls[data[Len(data)]].stream, data)'
  BY DEF OpenChainsActive
<1>1. calls \in Seq(Messages) /\ calls' = Append(calls, m)
  BY DEF ReassemblyTypeOK, TryUnwrapCmpEthernet
<1>2. CASE data[Len(data)] \in DOMAIN calls
  <2>1. PICK stream : stream = calls[data[Len(data)]].stream
    OBVIOUS
  <2>2. HoldsChain(stream, data)
    BY <1>1, <1>2, <2>1, OpenChainBefore DEF OpenChainsActive
  <2>3. HoldsChain(stream, data)'
    BY <1>1, <1>2, <2>1, <2>2, OpenChainBefore, OtherContextsStay
  <2>4. calls'[data[Len(data)]].stream = stream
    BY <1>1, <1>2, <2>1, OpenChainBefore
  <2> QED
    BY <2>3, <2>4 DEF HoldsChain
<1>3. CASE data[Len(data)] \notin DOMAIN calls /\ Len(data) > 1
  <2>1. PICK front \in Seq(Nat) :
              /\ data = Append(front, NewData)
              /\ IsOpenChain(front)
              /\ calls[front[Len(front)]].stream = m.stream
              /\ m.wellFormed
              /\ m.seq = NextSeq(calls[front[Len(front)]].seq)
              /\ calls'[data[Len(data)]] = m
    BY <1>1, <1>3, FrontBefore DEF IsOpenChain
  <2>2. m.seg = "continuation"
    BY <1>3, <2>1 DEF IsOpenChain
  <2>3. /\ HoldsChain(m.stream, front) /\ InSequence(m)
        /\ segmentContexts[m.stream] \in Context
    BY <2>1, FindsChain
  <2>4. SegContinuation(m)
    BY <2>1, <2>2, <2>3 DEF TryUnwrapCmpEthernet, Malformed, Unsegmented, SegStart,
       SegOutOfSequence, SegEnd
  <2>5. PICK ctx : ctx = [segmentContexts[m.stream] EXCEPT
                             !.accumulatedData = Append(@, NewData),
                             !.expectedSeqCounter = NextSeq(@)]
    OBVIOUS
  <2>6. ctx.active /\ ctx.accumulatedData = data
    BY <2>1, <2>3, <2>5 DEF HoldsChain, Context
  <2>7. SetContext(m.stream, ctx)
    BY <2>4, <2>5 DEF SegContinuation
  <2>8. m.stream \in DOMAIN segmentContexts' /\ segmentContexts'[m.stream] = ctx
    BY <2>7 DEF SetContext
  <2> QED
    BY <2>1, <2>6, <2>8 DEF HoldsChain
<1>4. CASE data[Len(data)] \notin DOMAIN calls /\ ~(Len(data) > 1)
  <2>1. IsChain(Devices, data)' /\ Len(data) = 1 /\ 1 \in DOMAIN data
    <3>1. IsChain(Devices, data)'
      BY DEF IsOpenChain
    <3>2. Len(data) \in Nat /\ Len(data) # 0 /\ DOMAIN data = 1..Len(data)
      BY <3>1, EmptySeq DEF IsChain
    <3> QED
      BY <1>4, <3>1, <3>2
  <2>2. /\ DOMAIN calls = 1..Len(calls) /\ Len(calls) \in Nat
        /\ DOMAIN calls' = 1..(Len(calls) + 1)
        /\ calls'[Len(calls) + 1] = m /\ NewData = Len(calls) + 1
    BY <1>1, CallsGrow
  <2>3. data[1] \in DOMAIN calls'
    BY <2>1 DEF IsChain
  <2>4. data[1] = NewData /\ calls'[data[1]] = m
    BY <1>4, <2>1, <2>2, <2>3
  <2>5. m.wellFormed /\ m.seg = "start"
    BY <2>1, <2>4 DEF IsChain
  <2>6. SegStart(m)
    BY <2>5 DEF TryUnwrapCmpEthernet, Malformed, Unsegmented, SegOutOfSequence,
       SegContinuation, SegEnd
  <2>7. PICK ctx : ctx = [active |-> TRUE, expectedSeqCounter |-> NextSeq(m.seq),
           timestamp |-> m.stamp, deviceId |-> m.device,
           interfaceId |-> m.interface, accumulatedData |-> <<NewData>>]
    OBVIOUS
  <2>8. data = <<NewData>>
    BY <2>1, <2>4
  <2>9. ctx.active /\ ctx.accumulatedData = data
    BY <2>7, <2>8
  <2>10. SetContext(m.stream, ctx)
    BY <2>6, <2>7 DEF SegStart
  <2>11. m.stream \in DOMAIN segmentContexts' /\ segmentContexts'[m.stream] = ctx
    BY <2>10 DEF SetContext
  <2> QED
    BY <2>1, <2>4, <2>9, <2>11 DEF HoldsChain
<1> QED
  BY <1>2, <1>3, <1>4

LEMMA CallKeepsReturned ==
    ASSUME ReassemblyTypeOK, ActiveContextsAreChains, OpenChainsActive, WholeReturned,
           NEW m \in Messages, TryUnwrapCmpEthernet(m)
    PROVE  WholeReturned'
<1> SUFFICES ASSUME NEW data \in Seq(Nat), IsWhole(Devices, data)',
                    CmpMapLookup16(calls[data[1]].device, calls[data[1]].interface)'
             PROVE  IsReturned(data)'
  BY DEF WholeReturned
<1>1. /\ calls \in Seq(Messages) /\ calls' = Append(calls, m) /\ frames \in Seq(Frame)
      /\ ReassemblyTypeOK'
  BY CallKeepsType DEF ReassemblyTypeOK, TryUnwrapCmpEthernet
<1>2. /\ DOMAIN calls = 1..Len(calls) /\ Len(calls) \in Nat
      /\ DOMAIN calls' = 1..(Len(calls) + 1)
      /\ \A i \in 1..Len(calls) : calls'[i] = calls[i]
      /\ calls'[Len(calls) + 1] = m /\ NewData = Len(calls) + 1
  BY <1>1, CallsGrow
<1>3. \/ Len(data) = 1 /\ data[1] \in DOMAIN calls'
      \/ Len(data) > 1 /\ IsChain(Devices, data)' /\ calls'[data[Len(data)]].seg = "end"
  BY DEF IsWhole
<1>4. ASSUME IsWhole(Devices, data), data[1] \in DOMAIN calls PROVE IsReturned(data)'
  <2>1. calls'[data[1]] = calls[data[1]]
    BY <1>2, <1>4
  <2>2. IsReturned(data)
    BY <1>4, <2>1 DEF WholeReturned, CmpMapLookup16
  <2> QED
    BY <1>1, <2>2, FramesStay
<1>5. CASE Len(data) = 1
  <2>1. data[1] \in DOMAIN calls' /\ calls'[data[1]].wellFormed
        /\ calls'[data[1]].seg = "unsegmented"
    BY <1>5 DEF IsWhole
  <2>2. CASE data[1] \in DOMAIN calls
    <3>1. IsWhole(Devices, data)
      BY <1>2, <1>5, <2>1, <2>2 DEF IsWhole
    <3> QED
      BY <1>4, <2>2, <3>1
  <2>3. CASE data[1] \notin DOMAIN calls
    <3>1. data[1] = NewData /\ calls'[data[1]] = m
      BY <1>2, <2>1, <2>3
    <3>2. Unsegmented(m)
      BY <2>1, <3>1 DEF TryUnwrapCmpEthernet, Malformed, SegStart, SegOutOfSequence,
         SegContinuation, SegEnd
    <3>3. CmpMapLookup16(m.device, m.interface)
      BY <3>1 DEF CmpMapLookup16
    <3>4. PICK f : f = [data |-> <<NewData>>, deviceId |-> m.device,
                        interfaceId |-> m.interface, timestamp |-> m.stamp]
      OBVIOUS
    <3>5. frames' = Append(frames, f)
      BY <3>2, <3>3, <3>4 DEF Unsegmented
    <3>6. data = <<NewData>>
      BY <1>5, <3>1
    <3>7. f.data = data
      BY <3>4, <3>6
    <3>8. IsReturned(f.data)'
      BY <1>1, <3>5, FrameIsReturned
    <3> QED
      BY <3>7, <3>8 DEF IsReturned
  <2> QED
    BY <2>2, <2>3
<1>6. CASE Len(data) > 1 /\ data[Len(data)] \in DOMAIN calls
  <2>1. IsChain(Devices, data)' /\ calls'[data[Len(data)]].seg = "end"
    BY <1>6 DEF IsWhole
  <2>2. IsChain(Devices, data) /\ data[1] \in DOMAIN calls
    BY <1>1, <1>6, <2>1, ChainBefore
  <2>3. calls[data[Len(data)]].seg = "end"
    BY <1>2, <1>6, <2>1
  <2> QED
    BY <1>4, <1>6, <2>2, <2>3 DEF IsWhole
<1>7. CASE Len(data) > 1 /\ data[Len(data)] \notin DOMAIN calls
  <2>1. IsChain(Devices, data)' /\ calls'[data[Len(data)]].seg = "end"
    BY <1>7 DEF IsWhole
  <2>2. PICK front \in Seq(Nat) :
              /\ data = Append(front, NewData)
              /\ IsOpenChain(front)
              /\ front[1] = data[1] /\ data[1] \in DOMAIN calls
              /\ calls[front[Len(front)]].stream = m.stream
              /\ m.wellFormed
              /\ m.seq = NextSeq(calls[front[Len(front)]].seq)
              /\ calls'[data[Len(data)]] = m
    BY <1>1, <1>7, <2>1, FrontBefore
  <2>3. /\ HoldsChain(m.stream, front) /\ InSequence(m)
        /\ segmentContexts[m.stream].deviceId = calls[front[1]].device
        /\ segmentContexts[m.stream].interfaceId = calls[front[1]].interface
    BY <2>2, FindsChain
  <2>4. SegEnd(m)
    BY <2>1, <2>2, <2>3 DEF TryUnwrapCmpEthernet, Malformed, Unsegmented, SegStart,
       SegOutOfSequence, SegContinuation
  <2>5. PICK ctx : ctx = segmentContexts[m.stream]
    OBVIOUS
  <2>6. CmpMapLookup16(ctx.deviceId, ctx.interfaceId)
    <3>1. calls'[data[1]] = calls[data[1]]
      BY <1>2, <2>2
    <3> QED
      BY <2>2, <2>3, <2>5, <3>1 DEF CmpMapLookup16
  <2>7. PICK f : f = [data |-> Append(ctx.accumulatedData, NewData),
                      deviceId |-> ctx.deviceId, interfaceId |-> ctx.interfaceId,
                      timestamp |-> ctx.timestamp]
    OBVIOUS
  <2>8. frames' = Append(frames, f)
    BY <2>4, <2>5, <2>6, <2>7 DEF SegEnd
  <2>9. f.data = data
    BY <2>2, <2>3, <2>5, <2>7 DEF HoldsChain
  <2>10. IsReturned(f.data)'
    BY <1>1, <2>8, FrameIsReturned
  <2> QED
    BY <2>9, <2>10 DEF IsReturned
<1> QED
  BY <1>3, <1>5, <1>6, <1>7

(* The segments of one stream between two calls, as a sequence.            *)
LEMMA ChainOfIsSequence ==
    ASSUME NEW D, NEW p \in Nat, NEW q \in Nat, NEW data, data = ChainOf(D, p, q),
           IsWhole(D, data), calls \in Seq(Messages)
    PROVE  data \in Seq(Nat)
<1> DEFINE between == {r \in p..q : IsSegmentOf(D, calls[p].stream, r)}
<1>1. IsFiniteSet(between)
  <2>1. IsFiniteSet(p..q)
    BY FS_Interval
  <2> QED
    BY <2>1, FS_Subset
<1>2. PICK n \in Nat : n = Cardinality(between)
  BY <1>1, FS_CardinalityType
<1>3. DOMAIN data = 1..n
  BY <1>2 DEF ChainOf
<1>4. data = [k \in 1..n |-> data[k]]
  <2>1. data = [k \in 1..n |-> CHOOSE r \in between : Cardinality({s \in between : s <= r}) = k]
    BY <1>2 DEF ChainOf
  <2> HIDE DEF between
  <2> QED
    BY <2>1
<1>5. Len(data) = n
  BY <1>4
<1>6. \A k \in 1..n : data[k] \in Nat
  <2>1. \A k \in DOMAIN data : data[k] \in DOMAIN calls
    BY <1>3, <1>5 DEF IsWhole, IsChain
  <2>2. DOMAIN calls \subseteq Nat
    OBVIOUS
  <2> QED
    BY <1>3, <2>1, <2>2
<1> HIDE DEF between
<1> QED
  BY <1>4, <1>6

LEMMA NothingOpen ==
    ASSUME ReassemblyInit
    PROVE  OpenChainsActive /\ WholeReturned
<1> SUFFICES ASSUME NEW data \in Seq(Nat)
           PROVE  ~IsChain(Devices, data) /\ ~IsWhole(Devices, data)
  BY DEF OpenChainsActive, WholeReturned, IsOpenChain
<1>1. DOMAIN calls = {}
  BY EmptySeq DEF ReassemblyInit
<1>2. ~IsChain(Devices, data)
  <2>1. data # <<>> => 1 \in DOMAIN data
    BY EmptySeq
  <2> QED
    BY <1>1, <2>1 DEF IsChain
<1> QED
  BY <1>1, <1>2 DEF IsWhole

LEMMA NothingChanges ==
    ASSUME OpenChainsActive, WholeReturned, UNCHANGED reassemblyVars
    PROVE  OpenChainsActive' /\ WholeReturned'
<1>1. segmentContexts' = segmentContexts /\ calls' = calls /\ frames' = frames
  BY DEF reassemblyVars
<1>2. ASSUME NEW data
      PROVE  /\ IsChain(Devices, data)' <=> IsChain(Devices, data)
             /\ IsOpenChain(data)' <=> IsOpenChain(data)
             /\ IsWhole(Devices, data)' <=> IsWhole(Devices, data)
  BY <1>1 DEF IsChain, IsOpenChain, IsWhole, Follows, IsSegmentOf
<1>3. OpenChainsActive'
  BY <1>1, <1>2 DEF OpenChainsActive, HoldsChain
<1>4. WholeReturned'
  BY <1>1, <1>2 DEF WholeReturned, IsReturned, CmpMapLookup16
<1> QED
  BY <1>3, <1>4

-------------------------------------------------------------------------------
(* A chain is found again between its ends.                                *)
LEMMA ChainSegments ==
    ASSUME calls \in Seq(Messages), NEW D, NEW data \in Seq(Nat), IsChain(D, data)
    PROVE  \A k \in 1..Len(data) :
             /\ calls[data[k]].stream = calls[data[1]].stream
             /\ \A j \in 1..Len(data) : j < k => data[j] < data[k]
             /\ \A r \in DOMAIN calls :
                   IsSegmentOf(D, calls[data[1]].stream, r) /\ data[1] <= r /\ r <= data[k]
                       => \E j \in 1..k : r = data[j]
<1>0. PICK n, stream : n = Len(data) /\ stream = calls[data[1]].stream
  OBVIOUS
<1> DEFINE Known(k) ==
             /\ calls[data[k]].stream = stream
             /\ \A j \in 1..n : j < k => data[j] < data[k]
             /\ \A r \in DOMAIN calls :
                   IsSegmentOf(D, stream, r) /\ data[1] <= r /\ r <= data[k]
                       => \E j \in 1..k : r = data[j]
           S == {k \in Nat : k \in 1..n => Known(k)}
<1>1. n \in Nat /\ DOMAIN data = 1..n /\ DOMAIN calls = 1..Len(calls) /\ Len(calls) \in Nat
  BY <1>0
<1>2. \A k \in 1..n : data[k] \in DOMAIN calls /\ data[k] \in Nat
  <2>1. \A k \in DOMAIN data : data[k] \in DOMAIN calls
    BY DEF IsChain
  <2> QED
    BY <1>1, <2>1
<1>3. 1 \in 1..n => Known(1)
  <2> SUFFICES ASSUME 1 \in 1..n PROVE Known(1)
    OBVIOUS
  <2>1. \A j \in 1..n : ~(j < 1)
    OBVIOUS
  <2>2. calls[data[1]].stream = stream /\ \A r \in DOMAIN calls : data[1] <= r /\ r <= data[1] => r = data[1]
    BY <1>0, <1>1, <1>2
  <2>3. 1 \in 1..1
    OBVIOUS
  <2> QED
    BY <2>1, <2>2, <2>3
<1>4. ASSUME NEW k \in 1..n, k + 1 \in 1..n, Known(k) PROVE Known(k + 1)
  <2>1. PICK i : i = k + 1
    OBVIOUS
  <2>2. i \in 2..n /\ i - 1 = k /\ i \in 1..n
    BY <1>1, <1>4, <2>1
  <2>3. Follows(D, data[k], data[i])
    BY <1>0, <2>2 DEF IsChain
  <2>4. calls[data[i]].stream = stream /\ data[k] < data[i]
    BY <1>4, <2>3 DEF Follows
  <2>5. ASSUME NEW j \in 1..n, j < i PROVE data[j] < data[i]
    <3>1. j = k \/ j < k
      BY <2>1, <2>5
    <3>2. data[j] = data[k] \/ data[j] < data[k]
      BY <1>4, <3>1
    <3>3. data[j] \in Nat /\ data[k] \in Nat /\ data[i] \in Nat
      BY <1>2, <2>2
    <3> QED
      BY <2>4, <3>2, <3>3
  <2>6. ASSUME NEW r \in DOMAIN calls, IsSegmentOf(D, stream, r), data[1] <= r, r <= data[i]
        PROVE  \E j \in 1..i : r = data[j]
    <3>1. r <= data[k] \/ data[i] <= r
      BY <1>4, <2>3, <2>6 DEF Follows
    <3>2. CASE r <= data[k]
      <4>1. PICK j \in 1..k : r = data[j]
        BY <1>4, <2>6, <3>2
      <4> QED
        BY <2>1, <4>1
    <3>3. CASE data[i] <= r
      <4>1. r = data[i] /\ i \in 1..i
        BY <1>1, <1>2, <2>2, <2>6, <3>3
      <4> QED
        BY <4>1
    <3> QED
      BY <3>1, <3>2, <3>3
  <2>7. Known(i)
    BY <2>4, <2>5, <2>6
  <2> QED
    BY <2>1, <2>7
<1>5. S = Nat
  <2>1. S \in SUBSET Nat /\ 0 \in S
    OBVIOUS
  <2>2. ASSUME NEW k \in S PROVE k + 1 \in S
    <3>1. k \in Nat /\ (k \in 1..n => Known(k))
      OBVIOUS
    <3> HIDE DEF Known
    <3> SUFFICES ASSUME k + 1 \in 1..n PROVE Known(k + 1)
      BY <3>1
    <3>2. CASE k = 0
      <4>1. k + 1 = 1 /\ 1 \in 1..n
        BY <3>2
      <4> QED
        BY <1>3, <4>1
    <3>3. CASE k # 0
      <4>1. k \in 1..n
        BY <1>1, <3>1, <3>3
      <4> QED
        BY <1>4, <3>1, <4>1
    <3> QED
      BY <3>2, <3>3
  <2> HIDE DEF S
  <2> QED
    BY <2>1, <2>2, NaturalInduction
<1>6. \A k \in 1..n : k \in Nat
  OBVIOUS
<1>7. \A k \in 1..n : Known(k)
  <2> HIDE DEF Known
  <2> QED
    BY <1>5, <1>6
<1> QED
  BY <1>0, <1>7

(* As many numbers as are counted.                                         *)
LEMMA CountedApart ==
    ASSUME NEW data \in Seq(Nat), NEW k \in 1..Len(data),
           \A i, j \in 1..Len(data) : i < j => data[i] < data[j]
    PROVE  Cardinality({data[j] : j \in 1..k}) = k
<1> DEFINE f == [j \in 1..k |-> data[j]]
           T == {data[j] : j \in 1..k}
<1>1. \A j \in 1..k : j \in 1..Len(data) /\ data[j] \in Nat
  OBVIOUS
<1>2. f \in [1..k -> T] /\ \A t \in T : \E j \in 1..k : f[j] = t
  OBVIOUS
<1>3. ASSUME NEW i \in 1..k, NEW j \in 1..k, f[i] = f[j] PROVE i = j
  <2>1. data[i] = data[j] /\ data[i] \in Nat
    BY <1>1, <1>3
  <2>2. ~(i < j) /\ ~(j < i)
    BY <1>1, <2>1
  <2> QED
    BY <2>2
<1>4. k \in Nat
  OBVIOUS
<1> HIDE DEF f, T
<1>5. f \in Bijection(1..k, T)
  BY <1>2, <1>3 DEF Bijection, Injection, IsInjective, Surjection
<1>6. ExistsBijection(1..k, T)
  BY <1>5 DEF ExistsBijection
<1>7. Cardinality(T) = k
  BY <1>4, <1>6, FS_CountingElements
<1> QED
  BY <1>7 DEF T

LEMMA ChainIsChainOf ==
    ASSUME calls \in Seq(Messages), NEW D, NEW data \in Seq(Nat), IsChain(D, data),
           calls[data[1]].device \in D
    PROVE  /\ ChainOf(D, data[1], data[Len(data)]) = data
           /\ \A k \in 1..Len(data) : data[1] <= data[k] /\ data[k] \in DOMAIN calls
           /\ Len(data) > 1 => data[1] # data[Len(data)]
<1>0. PICK n : n = Len(data)
  OBVIOUS
<1>1. n \in Nat /\ n = Len(data) /\ n > 0 /\ DOMAIN data = 1..n /\ n \in 1..n /\ 1 \in 1..n
  BY <1>0, EmptySeq DEF IsChain
<1>2. PICK stream : stream = calls[data[1]].stream
  OBVIOUS
<1>3. \A k \in 1..n : data[k] \in DOMAIN calls /\ data[k] \in Nat
  <2>1. \A k \in DOMAIN data : data[k] \in DOMAIN calls
    BY DEF IsChain
  <2>2. DOMAIN calls \subseteq Nat
    OBVIOUS
  <2> QED
    BY <1>1, <2>1, <2>2
<1>4. /\ \A k \in 1..n : calls[data[k]].stream = stream
      /\ \A j, k \in 1..n : j < k => data[j] < data[k]
      /\ \A r \in DOMAIN calls :
            IsSegmentOf(D, stream, r) /\ data[1] <= r /\ r <= data[n] => \E j \in 1..n : r = data[j]
  <2>1. \A k \in 1..n :
             /\ calls[data[k]].stream = stream
             /\ \A j \in 1..n : j < k => data[j] < data[k]
             /\ \A r \in DOMAIN calls :
                   IsSegmentOf(D, stream, r) /\ data[1] <= r /\ r <= data[k]
                       => \E j \in 1..k : r = data[j]
    <3>1. \A k \in 1..Len(data) :
             /\ calls[data[k]].stream = calls[data[1]].stream
             /\ \A j \in 1..Len(data) : j < k => data[j] < data[k]
             /\ \A r \in DOMAIN calls :
                   IsSegmentOf(D, calls[data[1]].stream, r) /\ data[1] <= r /\ r <= data[k]
                       => \E j \in 1..k : r = data[j]
      BY ChainSegments
    <3> QED
      BY <1>0, <1>2, <3>1
  <2> QED
    BY <1>1, <2>1
<1>5. \A k \in 1..n : IsSegmentOf(D, stream, data[k])
  <2> SUFFICES ASSUME NEW k \in 1..n PROVE IsSegmentOf(D, stream, data[k])
    OBVIOUS
  <2>1. CASE k = 1
    BY <1>4, <2>1 DEF IsChain, IsSegmentOf
  <2>2. CASE k # 1
    <3>1. PICK i : i = k - 1
      OBVIOUS
    <3>2. k \in 2..Len(data)
      BY <1>1, <2>2
    <3>3. Follows(D, data[i], data[k])
      BY <3>1, <3>2 DEF IsChain
    <3>4. calls[data[k]].stream = stream
      BY <1>4
    <3> QED
      BY <3>3, <3>4 DEF Follows, IsSegmentOf
  <2> QED
    BY <2>1, <2>2
<1>6. ASSUME NEW j \in 1..n, NEW k \in 1..n
      PROVE  data[j] <= data[k] <=> j <= k
  <2>1. data[j] \in Nat /\ data[k] \in Nat
    BY <1>3
  <2>2. j < k => data[j] < data[k]
    BY <1>4
  <2>3. k < j => data[k] < data[j]
    BY <1>4
  <2>4. j = k => data[j] = data[k]
    OBVIOUS
  <2> QED
    BY <2>1, <2>2, <2>3, <2>4
<1>7. PICK p, q : p = data[1] /\ q = data[n]
  OBVIOUS
<1> DEFINE between == {r \in p..q : IsSegmentOf(D, calls[p].stream, r)}
           rank(r) == Cardinality({s \in between : s <= r})
<1>8. between = {data[j] : j \in 1..n}
  <2>1. ASSUME NEW r \in between PROVE \E j \in 1..n : r = data[j]
    <3>1. /\ r \in p..q /\ IsSegmentOf(D, stream, r) /\ p \in 1..Len(calls) /\ q \in 1..Len(calls)
          /\ Len(calls) \in Nat /\ DOMAIN calls = 1..Len(calls)
      BY <1>1, <1>2, <1>3, <1>7
    <3>2. r \in DOMAIN calls /\ data[1] <= r /\ r <= data[n]
      BY <1>7, <3>1
    <3> QED
      BY <1>4, <3>1, <3>2
  <2>2. ASSUME NEW j \in 1..n PROVE data[j] \in between
    <3>1. data[1] <= data[j] /\ data[j] <= data[n]
      BY <1>1, <1>6
    <3>2. data[j] \in Nat /\ p \in Nat /\ q \in Nat /\ p <= data[j] /\ data[j] <= q
      BY <1>1, <1>3, <1>7, <3>1
    <3>3. data[j] \in p..q
      BY <3>2
    <3>4. IsSegmentOf(D, calls[p].stream, data[j])
      <4>1. calls[p].stream = stream /\ IsSegmentOf(D, stream, data[j])
        BY <1>2, <1>5, <1>7
      <4> QED
        BY <4>1
    <3> QED
      BY <3>3, <3>4
  <2> QED
    BY <2>1, <2>2
<1> HIDE DEF between
<1>9. ASSUME NEW k \in 1..n PROVE Cardinality({s \in between : s <= data[k]}) = k
  <2>1. {s \in between : s <= data[k]} = {data[j] : j \in 1..k}
    <3>1. ASSUME NEW j \in 1..n, data[j] <= data[k] PROVE j \in 1..k
      BY <1>6, <3>1
    <3>2. ASSUME NEW j \in 1..k PROVE j \in 1..n /\ data[j] <= data[k]
      <4>1. j \in 1..n /\ j <= k
        BY <1>1
      <4> QED
        BY <1>6, <4>1
    <3> QED
      BY <1>8, <3>1, <3>2
  <2>2. Cardinality({data[j] : j \in 1..k}) = k
    BY <1>1, <1>4, CountedApart
  <2> QED
    BY <2>1, <2>2
<1>10. Cardinality(between) = n
  BY <1>1, <1>4, <1>8, CountedApart
<1>11. ASSUME NEW k \in 1..n
       PROVE  (CHOOSE r \in between : Cardinality({s \in between : s <= r}) = k) = data[k]
  <2>1. data[k] \in between /\ Cardinality({s \in between : s <= data[k]}) = k
    BY <1>8, <1>9
  <2>2. ASSUME NEW r \in between, Cardinality({s \in between : s <= r}) = k PROVE r = data[k]
    <3>1. PICK j \in 1..n : r = data[j]
      BY <1>8
    <3>2. j = k
      BY <1>9, <2>2, <3>1
    <3> QED
      BY <3>1, <3>2
  <2> QED
    BY <2>1, <2>2
<1>12. ChainOf(D, p, q) = [k \in 1..n |-> CHOOSE r \in between : Cardinality({s \in between : s <= r}) = k]
  BY <1>10 DEF ChainOf, between
<1>13. ChainOf(D, p, q) = [k \in 1..n |-> data[k]]
  BY <1>11, <1>12
<1>14. data = [k \in 1..n |-> data[k]]
  BY <1>1
<1>15. n > 1 => data[1] # data[n]
  <2>1. n > 1 => data[1] < data[n] /\ data[1] \in Nat
    BY <1>1, <1>3, <1>4
  <2> QED
    BY <2>1
<1>16. \A k \in 1..n : data[1] <= data[k]
  BY <1>1, <1>6
<1> QED
  BY <1>1, <1>3, <1>7, <1>13, <1>14, <1>15, <1>16

(* What the devices together have sent of a chain, and what one has.       *)
LEMMA FollowsAmongFewer ==
    ASSUME NEW D, NEW few \in SUBSET D, NEW p \in DOMAIN calls, NEW q \in DOMAIN calls,
           Follows(D, p, q), calls[q].device \in few
    PROVE  Follows(few, p, q)
<1>1. \A r \in DOMAIN calls :
          IsSegmentOf(few, calls[p].stream, r) => IsSegmentOf(D, calls[p].stream, r)
  BY DEF IsSegmentOf
<1> QED
  BY <1>1 DEF Follows

(* A frame of one device is whole by what this device has sent.            *)
LEMMA OwnFrameIsWhole ==
    ASSUME ReassemblyTypeOK, NEW f \in Frame, FrameIsWhole(Devices, f), FromOneDevice(f)
    PROVE  FrameIsWhole({f.deviceId}, f)
<1>1. PICK own : own = {f.deviceId}
  OBVIOUS
<1>2. PICK data \in Seq(Nat) : data = f.data
  BY DEF Frame
<1>3. own \in SUBSET Devices
  BY <1>1 DEF Frame
<1>4. IsWhole(Devices, data) /\ \A k \in DOMAIN data : calls[data[k]].device \in own
  BY <1>1, <1>2 DEF FrameIsWhole, FromOneDevice
<1>5. ASSUME IsChain(Devices, data) PROVE IsChain(own, data)
  <2>1. ASSUME NEW k \in 2..Len(data) PROVE Follows(own, data[k - 1], data[k])
    <3>1. k \in DOMAIN data /\ k - 1 \in DOMAIN data
      OBVIOUS
    <3>2. data[k] \in DOMAIN calls /\ data[k - 1] \in DOMAIN calls
      BY <1>5, <3>1 DEF IsChain
    <3>3. Follows(Devices, data[k - 1], data[k])
      BY <1>5 DEF IsChain
    <3> QED
      BY <1>3, <1>4, <3>1, <3>2, <3>3, FollowsAmongFewer
  <2> QED
    BY <1>5, <2>1 DEF IsChain
<1>6. IsWhole(own, data)
  BY <1>4, <1>5 DEF IsWhole
<1> QED
  BY <1>1, <1>2, <1>6 DEF FrameIsWhole

(* A frame of one device is whole on its stream if no other disturbs it.   *)
LEMMA UndisturbedIsWhole ==
    ASSUME ReassemblyTypeOK, NEW p \in DOMAIN calls, NEW q \in DOMAIN calls,
           NEW own, own = {calls[p].device}, NEW data \in Seq(Nat),
           data[1] = p, data[Len(data)] = q, IsWhole(own, data), Undisturbed(p, q)
    PROVE  IsWhole(Devices, data)
<1>1. calls \in Seq(Messages) /\ calls[p].device \in Devices
  <2>1. calls \in Seq(Messages)
    BY DEF ReassemblyTypeOK
  <2> QED
    BY <2>1, CallIsMessage
<1>2. ASSUME IsChain(own, data) PROVE IsChain(Devices, data)
  <2>1. PICK n : n = Len(data)
    OBVIOUS
  <2>2. PICK stream : stream = calls[p].stream
    OBVIOUS
  <2>3. \A k \in 1..n : /\ calls[data[k]].stream = stream
                        /\ \A j \in 1..n : j < k => data[j] < data[k]
    <3>1. calls \in Seq(Messages)
      BY <1>1
    <3>2. stream = calls[data[1]].stream
      BY <2>2
    <3>3. \A k \in 1..Len(data) :
             /\ calls[data[k]].stream = calls[data[1]].stream
             /\ \A j \in 1..Len(data) : j < k => data[j] < data[k]
      BY <1>2, <3>1, ChainSegments
    <3> QED
      BY <2>1, <3>2, <3>3
  <2>4. n \in Nat /\ DOMAIN data = 1..n /\ DOMAIN calls = 1..Len(calls) /\ Len(calls) \in Nat
    BY <1>1, <2>1
  <2>5. \A k \in 1..n : data[k] \in DOMAIN calls /\ data[k] \in Nat
    <3>1. \A k \in DOMAIN data : data[k] \in DOMAIN calls
      BY <1>2 DEF IsChain
    <3> QED
      BY <2>4, <3>1
  <2>6. ASSUME NEW k \in 2..n PROVE Follows(Devices, data[k - 1], data[k])
    <3>1. PICK i, j : i = data[k - 1] /\ j = data[k]
      OBVIOUS
    <3>2. k \in 1..n /\ k - 1 \in 1..n /\ 1 \in 1..n /\ n \in 1..n
      BY <2>4
    <3>3. i \in Nat /\ j \in Nat /\ p <= i /\ j <= q /\ i \in DOMAIN calls /\ j \in DOMAIN calls
      <4>1. k - 1 = 1 \/ 1 < k - 1
        BY <2>4
      <4>2. k = n \/ k < n
        BY <2>4
      <4>3. data[1] = i \/ data[1] < i
        BY <2>3, <3>1, <3>2, <4>1
      <4>4. j = data[n] \/ j < data[n]
        BY <2>3, <3>1, <3>2, <4>2
      <4>5. i \in DOMAIN calls /\ j \in DOMAIN calls
        BY <2>5, <3>1, <3>2
      <4> QED
        BY <2>1, <2>4, <4>3, <4>4, <4>5
    <3>4. Follows(own, i, j) /\ calls[i].stream = stream
      BY <1>2, <2>1, <2>3, <3>1, <3>2 DEF IsChain
    <3>5. ASSUME NEW r \in DOMAIN calls, IsSegmentOf(Devices, stream, r) PROVE r <= i \/ j <= r
      <4> SUFFICES ASSUME ~(r <= i), ~(j <= r) PROVE FALSE
        OBVIOUS
      <4>1. r \in p..q
        BY <2>4, <3>3
      <4>2. calls[r].device = calls[p].device
        BY <2>2, <3>5, <4>1 DEF Undisturbed
      <4>3. IsSegmentOf(own, stream, r)
        BY <3>5, <4>2 DEF IsSegmentOf
      <4> QED
        BY <3>4, <4>3 DEF Follows
    <3>6. calls[j].device \in Devices
      BY <1>1, <3>4 DEF Follows
    <3> QED
      BY <3>1, <3>4, <3>5, <3>6 DEF Follows
  <2> QED
    BY <1>2, <2>1, <2>6 DEF IsChain
<1> QED
  BY <1>2 DEF IsWhole

(* Every frame returned is all of a frame that was recorded, and of one    *)
(* that a device sent if its segments are of one device                    *)
(* (UnwrapCMP.cpp:586-674), for every set of devices and streams, every    *)
(* counter width and every recording.                                      *)
THEOREM FramesCorrect == ReassemblySpec => []FramesAreWhole
<1>1. ReassemblyTypeOK /\ FramesOnStream => FramesAreWhole
  <2> SUFFICES ASSUME ReassemblyTypeOK, FramesOnStream, NEW i \in DOMAIN frames
               PROVE  /\ FrameIsWhole(Devices, frames[i])
                      /\ FromOneDevice(frames[i])
                           => FrameIsWhole({frames[i].deviceId}, frames[i])
    BY DEF FramesAreWhole
  <2>1. PICK f \in Frame : f = frames[i]
    BY DEF ReassemblyTypeOK
  <2>2. FrameIsWhole(Devices, f)
    BY <2>1 DEF FramesOnStream
  <2>3. FromOneDevice(f) => FrameIsWhole({f.deviceId}, f)
    BY <2>2, OwnFrameIsWhole
  <2> QED
    BY <2>1, <2>2, <2>3
<1> QED
  BY <1>1, ReassemblyTypeCorrect, FramesCorrectOnStream, PTL

LEMMA ReturnedIsEvery ==
    ReassemblyTypeOK /\ WholeReturned => EveryWholeFrameReturned
<1> DEFINE Own(p) == {calls[p].device}
           Data(p, q) == IF p = q THEN <<p>> ELSE ChainOf(Own(p), p, q)
           Complete(p, q) ==
               /\ p <= q /\ calls[p].stream = calls[q].stream
               /\ Len(Data(p, q)) > 0
               /\ Data(p, q)[1] = p /\ Data(p, q)[Len(Data(p, q))] = q
               /\ IsWhole(Own(p), Data(p, q)) /\ Undisturbed(p, q)
               /\ CmpMapLookup16(calls[p].device, calls[p].interface)
<1>0. EveryWholeFrameReturned <=>
        \A p, q \in DOMAIN calls :
            Complete(p, q) => \E i \in DOMAIN frames : frames[i].data = Data(p, q)
  BY Zenon DEF EveryWholeFrameReturned
<1> SUFFICES ASSUME ReassemblyTypeOK, WholeReturned,
                    NEW p \in DOMAIN calls, NEW q \in DOMAIN calls, Complete(p, q)
             PROVE  \E i \in DOMAIN frames : frames[i].data = Data(p, q)
  BY <1>0
<1> DEFINE own == Own(p)
           data == Data(p, q)
<1>1. calls \in Seq(Messages) /\ p \in Nat /\ q \in Nat
  BY DEF ReassemblyTypeOK
<1>2. data \in Seq(Nat)
  <2>1. CASE p = q
    BY <1>1, <2>1
  <2>2. CASE p # q
    <3>1. data = ChainOf(own, p, q) /\ IsWhole(own, data)
      BY <2>2
    <3> QED
      BY <1>1, <3>1, ChainOfIsSequence
  <2> QED
    BY <2>1, <2>2
<1>3. IsWhole(Devices, data)
  <2>1. PICK d \in Seq(Nat) : d = data
    BY <1>2
  <2>2. d[1] = p /\ d[Len(d)] = q /\ IsWhole(own, d) /\ Undisturbed(p, q)
    BY <2>1
  <2>3. own = {calls[p].device}
    OBVIOUS
  <2> HIDE DEF own, data
  <2> QED
    BY <2>1, <2>2, <2>3, UndisturbedIsWhole
<1>4. IsReturned(data)
  <2>1. CmpMapLookup16(calls[data[1]].device, calls[data[1]].interface)
    OBVIOUS
  <2> HIDE DEF data
  <2> QED
    BY <1>2, <1>3, <2>1 DEF WholeReturned
<1> QED
  BY <1>4 DEF IsReturned

(* Whenever the recording holds all segments of a frame that a device sent *)
(* and whose endpoint is mapped, with no segment of another device between *)
(* them on the stream, the frame is returned (UnwrapCMP.cpp:586-674), for  *)
(* every set of devices and streams, every counter width and every         *)
(* recording.                                                              *)
THEOREM WholeFramesReturned == ReassemblySpec => []EveryWholeFrameReturned
<1>1. ReassemblyInit => OpenChainsActive /\ WholeReturned
  BY NothingOpen
<1>2. /\ ReassemblyTypeOK /\ ActiveContextsAreChains /\ OpenChainsActive /\ WholeReturned
      /\ [ReassemblyNext]_reassemblyVars
      => OpenChainsActive' /\ WholeReturned'
  <2> SUFFICES ASSUME ReassemblyTypeOK, ActiveContextsAreChains, OpenChainsActive,
                      WholeReturned, [ReassemblyNext]_reassemblyVars
               PROVE  OpenChainsActive' /\ WholeReturned'
    OBVIOUS
  <2>1. CASE ReassemblyNext
    BY <2>1, CallKeepsOpenChains, CallKeepsReturned DEF ReassemblyNext
  <2>2. CASE UNCHANGED reassemblyVars
    BY <2>2, NothingChanges
  <2> QED
    BY <2>1, <2>2
<1>3. ReassemblyTypeOK /\ WholeReturned => EveryWholeFrameReturned
  BY ReturnedIsEvery
<1> QED
  BY <1>1, <1>2, <1>3, ReassemblyTypeCorrect, ContextsCorrect, PTL DEF ReassemblySpec

-------------------------------------------------------------------------------
(* The drop detector and the streams that it watches.                      *)
-------------------------------------------------------------------------------
(* The width of the counter.                                               *)
LEMMA CounterModIs == CounterMod \in Nat \ {0} /\ SeqCounters = 0..(CounterMod - 1)
  BY CounterModAssumption DEF SeqCounters

LEMMA CounterTurns ==
    ASSUME NEW x \in Int
    PROVE  \E q \in Int, r \in SeqCounters : x = CounterMod * q + r /\ x % CounterMod = r
<1>1. PICK q \in Int, r \in 0..(CounterMod - 1) : x = CounterMod * q + r /\ x % CounterMod = r
  BY CounterModIs, Remainder
<1> QED
  BY <1>1, CounterModIs

-------------------------------------------------------------------------------
(* The distance of two counters that follow each other in a stream.        *)
LEMMA NextSeqIs ==
    ASSUME NEW c \in SeqCounters
    PROVE  NextSeq(c) = IF c = CounterMod - 1 THEN 0 ELSE c + 1
<1>1. CounterMod \in Nat /\ CounterMod > 1
  BY CounterModAssumption
<1>2. CASE c = CounterMod - 1
  <2>1. c + 1 = CounterMod * 1 + 0 /\ 0 \in SeqCounters
    BY <1>1, <1>2 DEF SeqCounters
  <2>2. (c + 1) % CounterMod = 0
    BY <2>1, CounterModIs, RemainderUnique
  <2> QED
    BY <1>2, <2>2 DEF NextSeq
<1>3. CASE c # CounterMod - 1
  <2>1. c + 1 = CounterMod * 0 + (c + 1) /\ c + 1 \in SeqCounters
    BY <1>1, <1>3 DEF SeqCounters
  <2>2. (c + 1) % CounterMod = c + 1
    BY <2>1, CounterModIs, RemainderUnique
  <2> QED
    BY <1>3, <2>2 DEF NextSeq
<1> QED
  BY <1>2, <1>3

LEMMA DroppedCountIs ==
    ASSUME NEW e \in SeqCounters, NEW c \in SeqCounters, e # c
    PROVE  /\ DroppedCount(e, c) = IF c > e THEN c - e ELSE c - e + CounterMod
           /\ DroppedCount(e, c) \in SeqCounters
<1>1. CounterMod \in Nat /\ CounterMod > 1
  BY CounterModAssumption
<1>2. CASE c > e
  BY <1>1, <1>2 DEF DroppedCount, SeqCounters
<1>3. CASE ~(c > e)
  <2>1. (CounterMod - 1) - e + c + 1 = CounterMod * 0 + (c - e + CounterMod)
          /\ c - e + CounterMod \in SeqCounters
    BY <1>1, <1>3 DEF SeqCounters
  <2>2. ((CounterMod - 1) - e + c + 1) % CounterMod = c - e + CounterMod
    BY <2>1, CounterModIs, RemainderUnique
  <2> QED
    BY <1>3, <2>1, <2>2 DEF DroppedCount
<1> QED
  BY <1>2, <1>3

(* What the detector counts between message p and message n of a source    *)
(* differs from the truth by whole turns of the counter.                   *)
LEMMA DistanceCounted ==
    ASSUME NEW p \in Nat, NEW n \in Nat,
           NEW e, e = NextSeq(p % CounterMod), NEW c, c = n % CounterMod,
           NEW d, d = IF c = e THEN 0 ELSE DroppedCount(e, c)
    PROVE  /\ d \in SeqCounters /\ e \in SeqCounters /\ c \in SeqCounters
           /\ \E k \in Int : d = (n - p - 1) + CounterMod * k
           /\ n > p /\ n - p <= CounterMod => d = n - p - 1
<1>1. PICK a \in Int, r \in SeqCounters : p = CounterMod * a + r /\ p % CounterMod = r
  BY CounterTurns
<1>2. PICK b \in Int, f \in SeqCounters : n = CounterMod * b + f /\ n % CounterMod = f
  BY CounterTurns
<1>3. CounterMod \in Nat /\ CounterMod > 1 /\ r \in Int /\ c \in SeqCounters /\ c = f
  BY <1>2, CounterModAssumption DEF SeqCounters
<1>4. e = (IF r = CounterMod - 1 THEN 0 ELSE r + 1) /\ e \in SeqCounters
  BY <1>1, <1>3, NextSeqIs DEF SeqCounters
<1>5. d = (IF c >= e THEN c - e ELSE c - e + CounterMod) /\ d \in SeqCounters
  <2>1. CASE c = e
    BY <1>3, <1>4, <2>1 DEF SeqCounters
  <2>2. CASE c # e
    BY <1>3, <1>4, <2>2, DroppedCountIs DEF SeqCounters
  <2> QED
    BY <2>1, <2>2
<1> DEFINE turn == IF r = CounterMod - 1 THEN 1 ELSE 0
           wrap == IF c >= e THEN 0 ELSE 1
           k == a - b + turn + wrap
<1>6. d = (n - p - 1) + CounterMod * k
  <2>1. CounterMod * k = CounterMod * a - CounterMod * b + CounterMod * turn + CounterMod * wrap
    <3>1. turn \in Int /\ wrap \in Int
      OBVIOUS
    <3> HIDE DEF turn, wrap
    <3> QED
      BY <3>1, <1>3
  <2>2. CounterMod * turn = (IF r = CounterMod - 1 THEN CounterMod ELSE 0)
          /\ CounterMod * wrap = (IF c >= e THEN 0 ELSE CounterMod)
    BY <1>3
  <2>3. CounterMod * a \in Int /\ CounterMod * b \in Int
    BY <1>3
  <2> HIDE DEF k, turn, wrap
  <2> QED
    BY <1>1, <1>2, <1>3, <1>4, <1>5, <2>1, <2>2, <2>3 DEF SeqCounters
<1>7. k \in Int
  OBVIOUS
<1>8. ASSUME n > p, n - p <= CounterMod PROVE d = n - p - 1
  <2> HIDE DEF k
  <2>1. CounterMod * k \in Int
    BY <1>3, <1>7
  <2>2. CounterMod * k < CounterMod /\ CounterMod * k > -CounterMod
    BY <1>3, <1>5, <1>6, <1>8, <2>1 DEF SeqCounters
  <2>3. k = 0
    BY <1>7, <2>1, <2>2, CounterModIs, MultiplesApart
  <2> QED
    BY <1>3, <1>6, <2>3
<1> HIDE DEF k
<1> QED
  BY <1>3, <1>4, <1>5, <1>6, <1>7, <1>8

-------------------------------------------------------------------------------
(* The total of a list of events.                                          *)
Counting == [p \in Nat \X DroppedFrameEvent |-> p[1] + p[2].droppedCount]

LEMMA CountingType ==
    \A events \in Seq(DroppedFrameEvent) :
        FoldType(Nat, DroppedFrameEvent, Counting, 0, events)
<1>1. \A n \in Nat, e \in DroppedFrameEvent : n + e.droppedCount \in Nat
  BY CounterModAssumption DEF DroppedFrameEvent, SeqCounters
<1>2. Counting \in [Nat \X DroppedFrameEvent -> Nat]
  BY <1>1 DEF Counting
<1> QED
  BY <1>2 DEF FoldType

LEMMA CountDroppedIsFold ==
    ASSUME NEW events \in Seq(DroppedFrameEvent)
    PROVE  CountDropped(events) = FoldOf(Counting, 0, events)
<1> DEFINE Eq(it) == it = [t \in SUBSET (DOMAIN events) |->
                             IF t = {} THEN 0
                             ELSE it[t \ {Max(t)}] + events[Max(t)].droppedCount]
           j == CHOOSE it : Eq(it)
<1>0. DOMAIN events = 1..Len(events)
  OBVIOUS
<1>1. FoldType(Nat, DroppedFrameEvent, Counting, 0, events)
  BY CountingType
<1>2. CountDropped(events) = j[1..Len(events)]
  BY DEF CountDropped, FoldLeft, MapThenFoldSet
<1>3. \E it : Eq(it)
  <2>1. PICK it \in [SUBSET (1..Len(events)) -> Nat] :
            Folding(it, Len(events), Counting, 0, events)
    BY <1>1, FoldingExists
  <2>2. ASSUME NEW t \in SUBSET (1..Len(events)), t # {}
        PROVE  it[t] = it[t \ {Max(t)}] + events[Max(t)].droppedCount
    <3>1. it[t] = Counting[<<it[t \ {Max(t)}], events[Max(t)]>>]
      BY <2>1, <2>2 DEF Folding
    <3>2. it[t \ {Max(t)}] \in Nat /\ events[Max(t)] \in DroppedFrameEvent
      BY <2>1, <2>2, MaxIn
    <3> QED
      BY <3>1, <3>2 DEF Counting
  <2>3. it[{}] = 0
    BY <2>1 DEF Folding
  <2>4. Eq(it)
    BY <2>1, <2>2, <2>3, <1>0
  <2> QED
    BY <2>4
<1>4. Eq(j)
  <2> HIDE DEF Eq
  <2> QED
    BY <1>3
<1> HIDE DEF j
<1>5. ASSUME NEW t \in SUBSET (1..Len(events)), t # {}, j[t \ {Max(t)}] \in Nat
      PROVE  j[t] = Counting[<<j[t \ {Max(t)}], events[Max(t)]>>]
  <2>1. events[Max(t)] \in DroppedFrameEvent
    BY <1>5, MaxIn
  <2>2. j[t] = j[t \ {Max(t)}] + events[Max(t)].droppedCount
    BY <1>0, <1>4, <1>5
  <2> HIDE DEF Eq
  <2> QED
    BY <1>5, <2>1, <2>2 DEF Counting
<1>6. FoldsWithin(j, Nat, Counting, 0, events)
  <2>1. j[{}] = 0
    BY <1>4
  <2> HIDE DEF Eq
  <2> QED
    BY <1>5, <2>1 DEF FoldsWithin
<1> HIDE DEF Eq
<1> QED
  BY <1>1, <1>2, <1>6, FoldOfFolding

LEMMA CountDroppedFacts ==
    /\ CountDropped(<<>>) = 0
    /\ \A events \in Seq(DroppedFrameEvent) : CountDropped(events) \in Nat
    /\ \A events \in Seq(DroppedFrameEvent), e \in DroppedFrameEvent :
         CountDropped(Append(events, e)) = CountDropped(events) + e.droppedCount
<1>1. CountDropped(<<>>) = 0
  <2>1. <<>> \in Seq(DroppedFrameEvent)
    OBVIOUS
  <2> QED
    BY <2>1, CountDroppedIsFold, FoldOfEmpty
<1>2. \A events \in Seq(DroppedFrameEvent) : CountDropped(events) \in Nat
  BY CountDroppedIsFold, CountingType, FoldOfType
<1>3. ASSUME NEW events \in Seq(DroppedFrameEvent), NEW e \in DroppedFrameEvent
      PROVE  CountDropped(Append(events, e)) = CountDropped(events) + e.droppedCount
  <2>1. Append(events, e) \in Seq(DroppedFrameEvent)
    OBVIOUS
  <2>2. CountDropped(Append(events, e)) = Counting[<<FoldOf(Counting, 0, events), e>>]
    <3>1. FoldType(Nat, DroppedFrameEvent, Counting, 0, events)
      BY CountingType
    <3>2. FoldOf(Counting, 0, Append(events, e)) = Counting[<<FoldOf(Counting, 0, events), e>>]
      BY <3>1, FoldOfAppend
    <3> QED
      BY <2>1, <3>2, CountDroppedIsFold
  <2>3. FoldOf(Counting, 0, events) = CountDropped(events)
    BY CountDroppedIsFold
  <2> QED
    BY <2>2, <2>3, <1>2 DEF Counting
<1> QED
  BY <1>1, <1>2, <1>3

-------------------------------------------------------------------------------
(* The inductive invariant: the tracker of a source holds the counter of   *)
(* its last message, and what was counted for it is at least what is       *)
(* missing, and exactly that while the recording is in order, its last     *)
(* message then being the greatest.                                        *)
ChannelTypeOK ==
    /\ arrived \in [Sources -> Seq(1..MaxSent)]
    /\ droppedFrames \in Seq(DroppedFrameEvent)

Counted(s) == CountDropped(EventsOf(s))

TrackerCorrect(s) ==
    IF arrived[s] = <<>> THEN s \notin DOMAIN streamTrackers
    ELSE /\ s \in DOMAIN streamTrackers
         /\ streamTrackers[s] = arrived[s][Len(arrived[s])] % CounterMod

LastIsGreatest(numbers) == \A i \in DOMAIN numbers : numbers[i] <= numbers[Len(numbers)]

(* What is said of a source whose numbers are recorded and which counted   *)
(* so many drops.                                                          *)
CountAgrees(numbers, counted) ==
    /\ AheadAtMost(numbers, CounterMod) => counted >= CountMissing(numbers)
    /\ InOrder(numbers) => LastIsGreatest(numbers)
    /\ InOrder(numbers) /\ AheadAtMost(numbers, CounterMod)
         => counted = CountMissing(numbers)

CountCorrect(s) == CountAgrees(arrived[s], Counted(s))

ChannelInv ==
    /\ ChannelTypeOK
    /\ \A s \in Sources : TrackerCorrect(s) /\ CountCorrect(s)

LEMMA EventsOfFacts ==
    ASSUME NEW s
    PROVE  /\ droppedFrames \in Seq(DroppedFrameEvent) => EventsOf(s) \in Seq(DroppedFrameEvent)
           /\ droppedFrames = <<>> => EventsOf(s) = <<>>
<1> QED
  BY SelectedFacts DEF EventsOf

LEMMA ChannelInitially == ChannelInit => ChannelInv
<1> SUFFICES ASSUME ChannelInit PROVE ChannelInv
  OBVIOUS
<1> USE DEF ChannelInit, DetectorInit
<1>1. ChannelTypeOK
  BY DEF ChannelTypeOK
<1>2. ASSUME NEW s \in Sources PROVE TrackerCorrect(s) /\ CountCorrect(s)
  <2>1. arrived[s] = <<>>
    OBVIOUS
  <2>2. TrackerCorrect(s)
    BY <2>1 DEF TrackerCorrect
  <2>3. Counted(s) = 0
    BY EventsOfFacts, CountDroppedFacts DEF Counted
  <2>4. CountMissing(arrived[s]) = 0
    <3>1. Missing(arrived[s]) = {}
      BY <2>1 DEF Missing
    <3> QED
      BY <3>1, FS_EmptySet DEF CountMissing
  <2>5. LastIsGreatest(arrived[s])
    BY <2>1 DEF LastIsGreatest
  <2> QED
    BY <2>2, <2>3, <2>4, <2>5 DEF CountCorrect, CountAgrees
<1> QED
  BY <1>1, <1>2 DEF ChannelInv

LEMMA ElementsIn ==
    ASSUME NEW S, NEW a \in Seq(S)
    PROVE  /\ Len(a) \in Nat /\ DOMAIN a = 1..Len(a)
           /\ \A i \in DOMAIN a : a[i] \in S
           /\ a # <<>> => Len(a) # 0 /\ 1 \in DOMAIN a /\ Len(a) \in DOMAIN a
  BY EmptySeq

(* What is missing when one more message is recorded: of what was not      *)
(* missing before only messages that this one has jumped over.             *)
LEMMA MissingAppend ==
    ASSUME NEW a \in Seq(1..MaxSent), a # <<>>, NEW n \in 1..MaxSent,
           NEW p \in 1..MaxSent, p = a[Len(a)]
    PROVE  /\ Missing(Append(a, n)) \subseteq Missing(a) \cup ((p + 1)..(n - 1))
           /\ LastIsGreatest(a) /\ n > p =>
                /\ Missing(Append(a, n)) = Missing(a) \cup ((p + 1)..(n - 1))
                /\ Missing(a) \cap ((p + 1)..(n - 1)) = {}
<1> DEFINE b == Append(a, n)
           jumped == (p + 1)..(n - 1)
<1>0. MaxSent \in Nat
  BY BoundsAssumption
<1>1. /\ Len(a) \in Nat /\ Len(a) # 0 /\ DOMAIN a = 1..Len(a)
      /\ 1 \in DOMAIN a /\ Len(a) \in DOMAIN a
      /\ \A i \in DOMAIN a : a[i] \in 1..MaxSent
  BY ElementsIn
<1>2. b # <<>> /\ b[1] = a[1] /\ DOMAIN b = 1..(Len(a) + 1) /\ b[Len(a) + 1] = n
        /\ \A i \in 1..Len(a) : b[i] = a[i]
  BY <1>1
<1>3. Recorded(b) = Recorded(a) \cup {n}
  <2> HIDE DEF b
  <2>1. ASSUME NEW q \in Recorded(b) PROVE q \in Recorded(a) \cup {n}
    <3>1. PICK i \in 1..(Len(a) + 1) : q = b[i]
      BY <1>2 DEF Recorded
    <3>2. i = Len(a) + 1 \/ i \in 1..Len(a)
      BY <1>1
    <3> QED
      BY <1>1, <1>2, <3>1, <3>2 DEF Recorded
  <2>2. ASSUME NEW q \in Recorded(a) PROVE q \in Recorded(b)
    <3>1. PICK i \in 1..Len(a) : q = a[i]
      BY <1>1 DEF Recorded
    <3>2. i \in DOMAIN b /\ b[i] = q
      BY <1>1, <1>2, <3>1
    <3> QED
      BY <3>2 DEF Recorded
  <2>3. n \in Recorded(b)
    <3>1. Len(a) + 1 \in DOMAIN b
      BY <1>1, <1>2
    <3> QED
      BY <1>2, <3>1 DEF Recorded
  <2> QED
    BY <2>1, <2>2, <2>3
<1>4. p \in Recorded(a) /\ a[1] \in Recorded(a) /\ Recorded(a) \subseteq 1..MaxSent
  BY <1>1 DEF Recorded
<1> HIDE DEF b
<1>5. ASSUME NEW k \in Missing(b) PROVE k \in Missing(a) \cup jumped
  <2>1. /\ k \in 1..MaxSent /\ k \notin Recorded(b) /\ a[1] < k
        /\ \E q \in Recorded(b) : k < q
    BY <1>2 DEF Missing
  <2>2. k \notin Recorded(a) /\ k # p
    BY <1>3, <1>4, <2>1
  <2>3. CASE \E q \in Recorded(a) : k < q
    BY <2>1, <2>2, <2>3 DEF Missing
  <2>4. CASE ~\E q \in Recorded(a) : k < q
    <3>1. k < n
      BY <1>3, <2>1, <2>4
    <3>2. ~(k < p)
      BY <1>4, <2>4
    <3> QED
      BY <1>0, <2>1, <2>2, <3>1, <3>2
  <2> QED
    BY <2>3, <2>4
<1>6. ASSUME LastIsGreatest(a), n > p
      PROVE  Missing(b) = Missing(a) \cup jumped /\ Missing(a) \cap jumped = {}
  <2>1. \A q \in Recorded(a) : q <= p
    BY <1>6 DEF LastIsGreatest, Recorded
  <2>2. ASSUME NEW k \in Missing(a) PROVE k \in Missing(b) /\ k < p
    <3>1. PICK q \in Recorded(a) : k < q
      BY DEF Missing
    <3>2. k \in 1..MaxSent /\ k \notin Recorded(a) /\ a[1] < k
      BY DEF Missing
    <3>3. k < p /\ k # n
      <4>1. q \in Int /\ k \in Int /\ p \in Int /\ n \in Int /\ q <= p
        BY <1>0, <1>4, <2>1, <3>2
      <4> QED
        BY <1>6, <3>1, <4>1
    <3>4. q \in Recorded(b) /\ k \notin Recorded(b)
      BY <1>3, <3>2, <3>3
    <3> QED
      BY <1>2, <3>1, <3>2, <3>3, <3>4 DEF Missing
  <2>3. ASSUME NEW k \in jumped PROVE k \in Missing(b) /\ p < k
    <3>1. k \in 1..MaxSent /\ p < k /\ k < n
      BY <1>0
    <3>2. k \notin Recorded(b)
      <4>1. \A q \in Recorded(a) : q # k
        BY <1>0, <1>4, <2>1, <3>1
      <4> QED
        BY <1>3, <3>1, <4>1
    <3>3. a[1] < k
      BY <1>0, <1>4, <2>1, <3>1
    <3>4. n \in Recorded(b)
      BY <1>3
    <3> QED
      BY <1>2, <3>1, <3>2, <3>3, <3>4 DEF Missing
  <2>4. Missing(a) \cap jumped = {}
    <3> SUFFICES ASSUME NEW k \in Missing(a), k \in jumped PROVE FALSE
      OBVIOUS
    <3>1. k < p /\ p < k
      BY <2>2, <2>3
    <3>2. k \in Int /\ p \in Int
      BY <1>0
    <3> QED
      BY <3>1, <3>2
  <2> HIDE DEF jumped
  <2> QED
    BY <1>5, <2>2, <2>3, <2>4
<1> HIDE DEF jumped
<1>7. Missing(b) \subseteq Missing(a) \cup jumped
  BY <1>5
<1> QED
  BY <1>6, <1>7 DEF b, jumped

LEMMA MissingIsFinite ==
    ASSUME NEW a
    PROVE  IsFiniteSet(Missing(a)) /\ CountMissing(a) \in Nat
<1>1. IsFiniteSet(1..MaxSent)
  BY BoundsAssumption, FS_Interval
<1>2. Missing(a) \in SUBSET (1..MaxSent)
  BY DEF Missing
<1>3. IsFiniteSet(Missing(a))
  BY <1>1, <1>2, FS_Subset
<1> QED
  BY <1>3, FS_CardinalityType DEF CountMissing

(* And so their number.                                                    *)
LEMMA CountMissingAppend ==
    ASSUME NEW a \in Seq(1..MaxSent), a # <<>>, NEW n \in 1..MaxSent,
           NEW p \in 1..MaxSent, p = a[Len(a)]
    PROVE  /\ CountMissing(Append(a, n)) <= CountMissing(a) + (IF n > p THEN n - p - 1 ELSE 0)
           /\ LastIsGreatest(a) /\ n > p
                => CountMissing(Append(a, n)) = CountMissing(a) + (n - p - 1)
<1> DEFINE jumped == (p + 1)..(n - 1)
           size == IF n > p THEN n - p - 1 ELSE 0
<1>0. p \in Int /\ n \in Int
  BY BoundsAssumption
<1>1. IsFiniteSet(jumped) /\ Cardinality(jumped) = size
  <2>1. p + 1 \in Int /\ n - 1 \in Int
    BY <1>0
  <2>2. IsFiniteSet(jumped)
          /\ Cardinality(jumped) = IF p + 1 > n - 1 THEN 0 ELSE (n - 1) - (p + 1) + 1
    BY <2>1, FS_Interval
  <2>3. (IF p + 1 > n - 1 THEN 0 ELSE (n - 1) - (p + 1) + 1) = size
    BY <1>0
  <2> QED
    BY <2>2, <2>3
<1>2. IsFiniteSet(Missing(a)) /\ CountMissing(a) \in Nat
  BY MissingIsFinite
<1>3. IsFiniteSet(Missing(Append(a, n))) /\ CountMissing(Append(a, n)) \in Nat
  BY MissingIsFinite
<1>4. /\ Missing(Append(a, n)) \subseteq Missing(a) \cup jumped
      /\ LastIsGreatest(a) /\ n > p =>
           /\ Missing(Append(a, n)) = Missing(a) \cup jumped
           /\ Missing(a) \cap jumped = {}
  BY MissingAppend
<1>5. size \in Nat
  BY <1>0
<1> HIDE DEF jumped, size
<1>6. /\ IsFiniteSet(Missing(a) \cup jumped)
      /\ Cardinality(Missing(a) \cup jumped)
           = CountMissing(a) + size - Cardinality(Missing(a) \cap jumped)
  BY <1>1, <1>2, FS_Union DEF CountMissing
<1>7. Cardinality(Missing(a) \cap jumped) \in Nat
  <2>1. Missing(a) \cap jumped \in SUBSET jumped
    OBVIOUS
  <2>2. IsFiniteSet(Missing(a) \cap jumped)
    BY <1>1, <2>1, FS_Subset
  <2> QED
    BY <2>2, FS_CardinalityType
<1>8. CountMissing(Append(a, n)) <= CountMissing(a) + size
  <2>1. CountMissing(Append(a, n)) <= Cardinality(Missing(a) \cup jumped)
    BY <1>4, <1>6, FS_Subset DEF CountMissing
  <2> QED
    BY <1>2, <1>3, <1>5, <1>6, <1>7, <2>1
<1>9. ASSUME LastIsGreatest(a), n > p
      PROVE  CountMissing(Append(a, n)) = CountMissing(a) + size
  <2>1. Cardinality(Missing(a) \cap jumped) = 0
    BY <1>4, <1>9, FS_EmptySet
  <2>2. CountMissing(Append(a, n)) = Cardinality(Missing(a) \cup jumped)
    BY <1>4, <1>9 DEF CountMissing
  <2> QED
    BY <1>2, <1>5, <1>6, <2>1, <2>2
<1> QED
  BY <1>8, <1>9 DEF size

(* The order of a recording and the distances in it.                       *)
LEMMA GapsAppend ==
    ASSUME NEW a \in Seq(Int), NEW n \in Int
    PROVE  /\ AheadAtMost(Append(a, n), CounterMod) =>
                /\ AheadAtMost(a, CounterMod)
                /\ a # <<>> => n - a[Len(a)] <= CounterMod
           /\ InOrder(Append(a, n)) => InOrder(a) /\ (a # <<>> => n > a[Len(a)])
<1> DEFINE b == Append(a, n)
<1>1. Len(b) = Len(a) + 1 /\ b[Len(a) + 1] = n /\ Len(a) \in Nat
        /\ \A i \in 1..Len(a) : b[i] = a[i]
  OBVIOUS
<1>2. Len(b) - 1 = Len(a)
  BY <1>1
<1> HIDE DEF b
<1>3. \A i \in 1..(Len(a) - 1) : /\ i \in 1..(Len(b) - 1)
                                 /\ b[i + 1] = a[i + 1] /\ b[i] = a[i]
  <2> SUFFICES ASSUME NEW i \in 1..(Len(a) - 1)
               PROVE  i \in 1..(Len(b) - 1) /\ b[i + 1] = a[i + 1] /\ b[i] = a[i]
    OBVIOUS
  <2>1. i \in 1..Len(a) /\ i + 1 \in 1..Len(a)
    BY <1>1
  <2> QED
    BY <1>1, <1>2, <2>1
<1>4. a # <<>> => Len(a) \in 1..(Len(b) - 1) /\ b[Len(a)] = a[Len(a)]
  <2>1. a # <<>> => Len(a) \in 1..Len(a)
    BY <1>1, EmptySeq
  <2> QED
    BY <1>1, <1>2, <2>1
<1>5. AheadAtMost(b, CounterMod) =>
          AheadAtMost(a, CounterMod) /\ (a # <<>> => n - a[Len(a)] <= CounterMod)
  BY <1>1, <1>3, <1>4 DEF AheadAtMost
<1>6. InOrder(b) => InOrder(a) /\ (a # <<>> => n > a[Len(a)])
  BY <1>1, <1>3, <1>4 DEF InOrder
<1> QED
  BY <1>5, <1>6 DEF b

(* One more message, and the drops that are counted for it.                *)
LEMMA AgreesAppend ==
    ASSUME NEW a \in Seq(1..MaxSent), a # <<>>, NEW n \in 1..MaxSent,
           NEW p \in 1..MaxSent, p = a[Len(a)],
           NEW counted \in Nat, CountAgrees(a, counted),
           NEW d \in Nat, n > p /\ n - p <= CounterMod => d = n - p - 1
    PROVE  CountAgrees(Append(a, n), counted + d)
<1> DEFINE b == Append(a, n)
           size == IF n > p THEN n - p - 1 ELSE 0
<1>0. p \in Int /\ n \in Int /\ CounterMod \in Int
  BY BoundsAssumption, CounterModAssumption
<1>1. /\ CountMissing(b) <= CountMissing(a) + size
      /\ LastIsGreatest(a) /\ n > p => CountMissing(b) = CountMissing(a) + (n - p - 1)
  BY CountMissingAppend
<1>2. CountMissing(a) \in Nat /\ CountMissing(b) \in Nat
  BY MissingIsFinite
<1>3. /\ AheadAtMost(b, CounterMod) => AheadAtMost(a, CounterMod) /\ n - p <= CounterMod
      /\ InOrder(b) => InOrder(a) /\ n > p
  <2>1. a \in Seq(Int)
    BY BoundsAssumption
  <2> QED
    BY <1>0, <2>1, GapsAppend
<1>4. ASSUME AheadAtMost(b, CounterMod) PROVE counted + d >= CountMissing(b)
  <2>1. counted >= CountMissing(a) /\ n - p <= CounterMod
    BY <1>3, <1>4 DEF CountAgrees
  <2>2. d >= size
    BY <1>0, <2>1
  <2> HIDE DEF b
  <2> QED
    BY <1>0, <1>1, <1>2, <2>1, <2>2
<1>5. ASSUME InOrder(b) PROVE LastIsGreatest(b)
  <2>1. LastIsGreatest(a) /\ n > p
    BY <1>3, <1>5 DEF CountAgrees
  <2>2. b[Len(b)] = n /\ DOMAIN b = 1..(Len(a) + 1) /\ b[Len(a) + 1] = n
          /\ Len(a) \in Nat /\ DOMAIN a = 1..Len(a) /\ \A i \in 1..Len(a) : b[i] = a[i]
    OBVIOUS
  <2>3. \A i \in 1..Len(a) : a[i] \in Int /\ a[i] <= p
    <3>1. \A i \in 1..Len(a) : a[i] \in 1..MaxSent
      BY <2>2, ElementsIn
    <3>2. \A i \in 1..Len(a) : a[i] <= p
      BY <2>1, <2>2 DEF LastIsGreatest
    <3> QED
      BY <3>1, <3>2, BoundsAssumption
  <2> HIDE DEF b
  <2>4. ASSUME NEW i \in DOMAIN b PROVE b[i] <= n
    <3>1. i = Len(a) + 1 \/ i \in 1..Len(a)
      BY <2>2
    <3> QED
      BY <1>0, <2>1, <2>2, <2>3, <3>1
  <2> QED
    BY <2>2, <2>4 DEF LastIsGreatest
<1>6. ASSUME InOrder(b), AheadAtMost(b, CounterMod) PROVE counted + d = CountMissing(b)
  <2>1. /\ counted = CountMissing(a) /\ n > p /\ n - p <= CounterMod
        /\ LastIsGreatest(a)
    BY <1>3, <1>6 DEF CountAgrees
  <2> HIDE DEF b
  <2> QED
    BY <1>0, <1>1, <1>2, <2>1
<1> HIDE DEF b
<1>7. CountAgrees(b, counted + d)
  BY <1>4, <1>5, <1>6 DEF CountAgrees
<1> QED
  BY <1>7 DEF b

(* The first message of a source: nothing can be missing.                  *)
LEMMA AgreesFirst ==
    ASSUME NEW n \in 1..MaxSent
    PROVE  CountAgrees(<<n>>, 0)
<1>1. DOMAIN <<n>> = {1} /\ <<n>>[1] = n /\ Len(<<n>>) = 1
  OBVIOUS
<1>2. Recorded(<<n>>) = {n}
  BY <1>1 DEF Recorded
<1>3. Missing(<<n>>) = {}
  BY <1>1, <1>2, BoundsAssumption DEF Missing
<1>4. CountMissing(<<n>>) = 0
  BY <1>3, FS_EmptySet DEF CountMissing
<1>5. LastIsGreatest(<<n>>)
  BY <1>1, BoundsAssumption DEF LastIsGreatest
<1> QED
  BY <1>4, <1>5 DEF CountAgrees

(* What a message adds to the events: nothing, or one event of its source. *)
LEMMA DropsInIs ==
    ASSUME NEW s \in StreamKey, NEW c, ChannelTypeOK,
           s \in DOMAIN streamTrackers => streamTrackers[s] \in SeqCounters,
           c \in SeqCounters
    PROVE  LET expected == NextSeq(streamTrackers[s]) IN
           IF s \in DOMAIN streamTrackers /\ c # expected
             THEN \E e \in DroppedFrameEvent :
                    /\ DropsIn(s, c) = <<e>>
                    /\ e.source = s
                    /\ e.droppedCount = DroppedCount(expected, c)
             ELSE DropsIn(s, c) = <<>>
<1> DEFINE expected == NextSeq(streamTrackers[s])
           e == [source |-> s, expectedSeq |-> expected, actualSeq |-> c,
                 droppedCount |-> DroppedCount(expected, c)]
<1>1. CASE s \in DOMAIN streamTrackers /\ c # expected
  <2>1. expected \in SeqCounters
    BY <1>1, NextSeqIs, CounterModAssumption DEF SeqCounters
  <2>2. DroppedCount(expected, c) \in SeqCounters
    BY <1>1, <2>1, DroppedCountIs
  <2>3. e \in DroppedFrameEvent
    BY <2>1, <2>2 DEF DroppedFrameEvent
  <2>4. DropsIn(s, c) = <<e>>
    BY <1>1 DEF DropsIn
  <2> QED
    BY <1>1, <2>3, <2>4
<1>2. CASE ~(s \in DOMAIN streamTrackers /\ c # expected)
  <2>1. DropsIn(s, c) = <<>>
    BY <1>2 DEF DropsIn
  <2> QED
    BY <1>2, <2>1
<1> QED
  BY <1>1, <1>2

LEMMA TrackSequenceCounts ==
    ASSUME ChannelTypeOK, NEW source \in StreamKey, NEW c \in SeqCounters,
           source \in DOMAIN streamTrackers => streamTrackers[source] \in SeqCounters,
           TrackSequence(source, c)
    PROVE  LET expected == NextSeq(streamTrackers[source]) IN
           /\ droppedFrames' \in Seq(DroppedFrameEvent)
           /\ \A s : s # source => Counted(s)' = Counted(s)
           /\ Counted(source) \in Nat
           /\ Counted(source)' = Counted(source)
                  + (IF source \in DOMAIN streamTrackers /\ c # expected
                       THEN DroppedCount(expected, c) ELSE 0)
<1> DEFINE expected == NextSeq(streamTrackers[source])
           Wanted(s) == {e \in DroppedFrameEvent : e.source = s}
<1>1. droppedFrames \in Seq(DroppedFrameEvent)
  BY DEF ChannelTypeOK
<1>2. /\ \A s : EventsOf(s) = Selected(droppedFrames, Wanted(s))
      /\ \A s : EventsOf(s)' = Selected(droppedFrames', Wanted(s))
      /\ \A s : EventsOf(s) \in Seq(DroppedFrameEvent)
  BY <1>1, SelectedFacts DEF EventsOf
<1>3. Counted(source) \in Nat
  BY <1>2, CountDroppedFacts DEF Counted
<1>4. droppedFrames' = droppedFrames \o DropsIn(source, c)
  BY DEF TrackSequence
<1>5. CASE source \in DOMAIN streamTrackers /\ c # expected
  <2>1. PICK e \in DroppedFrameEvent : /\ DropsIn(source, c) = <<e>>
                                       /\ e.source = source
                                       /\ e.droppedCount = DroppedCount(expected, c)
    BY <1>5, DropsInIs
  <2>2. droppedFrames' = Append(droppedFrames, e)
    BY <1>1, <1>4, <2>1
  <2>3. droppedFrames' \in Seq(DroppedFrameEvent)
    BY <1>1, <2>2
  <2>4. \A s : EventsOf(s)' = IF s = source THEN Append(EventsOf(s), e) ELSE EventsOf(s)
    <3>1. \A s : e \in Wanted(s) <=> s = source
      BY <2>1
    <3>2. \A s : Selected(Append(droppedFrames, e), Wanted(s))
                    = IF e \in Wanted(s) THEN Append(Selected(droppedFrames, Wanted(s)), e)
                      ELSE Selected(droppedFrames, Wanted(s))
      <4> HIDE DEF Wanted
      <4> QED
        BY <1>1, SelectedAppend
    <3> HIDE DEF Wanted
    <3> QED
      BY <1>2, <2>2, <3>1, <3>2
  <2>5. \A s : Counted(s)' = CountDropped(EventsOf(s)')
    BY DEF Counted
  <2>6. Counted(source)' = Counted(source) + e.droppedCount
    <3>1. EventsOf(source)' = Append(EventsOf(source), e)
      BY <2>4
    <3> QED
      BY <1>2, <2>5, <3>1, CountDroppedFacts DEF Counted
  <2>7. \A s : s # source => Counted(s)' = Counted(s)
    BY <2>4, <2>5 DEF Counted
  <2> QED
    BY <1>3, <1>5, <2>1, <2>3, <2>6, <2>7
<1>6. CASE ~(source \in DOMAIN streamTrackers /\ c # expected)
  <2>1. DropsIn(source, c) = <<>>
    BY <1>6, DropsInIs
  <2>2. droppedFrames' = droppedFrames
    BY <1>1, <1>4, <2>1
  <2>3. \A s : Counted(s)' = Counted(s)
    BY <2>2 DEF Counted, EventsOf
  <2> QED
    BY <1>1, <1>3, <1>6, <2>2, <2>3
<1> QED
  BY <1>5, <1>6

LEMMA ChannelStep ==
    ASSUME ChannelInv, NEW source \in Sources, NEW number \in 1..MaxSent,
           Record(source, number)
    PROVE  ChannelInv'
<1> DEFINE c == number % CounterMod
           a == arrived[source]
           b == Append(a, number)
           p == a[Len(a)]
           e == NextSeq(p % CounterMod)
           d == IF c = e THEN 0 ELSE DroppedCount(e, c)
<1>1. /\ a \in Seq(Nat) /\ number \in Nat /\ source \in StreamKey
      /\ CounterMod \in Nat /\ c \in SeqCounters
  <2>1. number \in Nat /\ source \in StreamKey /\ CounterMod \in Nat
    BY BoundsAssumption, SourcesAssumption, CounterModAssumption
  <2>2. \A q \in Seq(1..MaxSent) : q \in Seq(Nat)
    BY BoundsAssumption
  <2>3. a \in Seq(Nat)
    BY <2>2 DEF ChannelInv, ChannelTypeOK
  <2>4. c \in SeqCounters
    BY <2>1, CounterModIs, Remainder
  <2> HIDE DEF a
  <2> QED
    BY <2>1, <2>3, <2>4
<1>2. a # <<>> => p \in Nat /\ p % CounterMod \in SeqCounters
  <2>1. a # <<>> => p \in Nat
    <3> HIDE DEF a
    <3> QED
      BY <1>1
  <2> HIDE DEF a, p
  <2> QED
    BY <2>1, CounterModIs, Remainder
<1>3. /\ a = <<>> => source \notin DOMAIN streamTrackers
      /\ a # <<>> => source \in DOMAIN streamTrackers /\ streamTrackers[source] = p % CounterMod
  BY DEF ChannelInv, TrackerCorrect
<1>4. source \in DOMAIN streamTrackers => streamTrackers[source] \in SeqCounters
  BY <1>2, <1>3
<1>5. /\ arrived' \in [Sources -> Seq(1..MaxSent)]
      /\ arrived'[source] = b
      /\ \A s \in Sources : s # source => arrived'[s] = arrived[s]
  <2>1. arrived \in [Sources -> Seq(1..MaxSent)]
    BY DEF ChannelInv, ChannelTypeOK
  <2>2. b \in Seq(1..MaxSent)
    BY <2>1
  <2>3. arrived' = [arrived EXCEPT ![source] = b]
    BY DEF Record
  <2> HIDE DEF b
  <2> QED
    BY <2>1, <2>2, <2>3
<1>6. TrackSequence(source, c)
  BY DEF Record
<1> DEFINE expected == NextSeq(streamTrackers[source])
           gap == IF source \in DOMAIN streamTrackers /\ c # expected
                    THEN DroppedCount(expected, c) ELSE 0
<1>7. /\ droppedFrames' \in Seq(DroppedFrameEvent)
      /\ \A s : s # source => Counted(s)' = Counted(s)
      /\ Counted(source) \in Nat
      /\ Counted(source)' = Counted(source) + gap
  <2> HIDE DEF c
  <2> QED
    BY <1>1, <1>4, <1>6, TrackSequenceCounts DEF ChannelInv
<1>8. gap = IF a = <<>> THEN 0 ELSE d
  <2> HIDE DEF a, c
  <2> QED
    BY <1>3
<1>9. /\ ChannelTypeOK'
      /\ \A s \in Sources : s # source => (TrackerCorrect(s) /\ CountCorrect(s))'
  <2>1. ChannelTypeOK'
    BY <1>5, <1>7 DEF ChannelTypeOK
  <2>2. ASSUME NEW s \in Sources, s # source PROVE (TrackerCorrect(s) /\ CountCorrect(s))'
    <3>1. arrived'[s] = arrived[s] /\ Counted(s)' = Counted(s)
      BY <1>5, <1>7, <2>2
    <3>2. /\ s \in DOMAIN streamTrackers' <=> s \in DOMAIN streamTrackers
          /\ s \in DOMAIN streamTrackers => streamTrackers'[s] = streamTrackers[s]
      BY <1>6, <2>2 DEF TrackSequence
    <3>3. TrackerCorrect(s) /\ CountCorrect(s)
      BY DEF ChannelInv
    <3>4. TrackerCorrect(s)'
      BY <3>1, <3>2, <3>3 DEF TrackerCorrect
    <3>5. CountCorrect(s)'
      BY <3>1, <3>3 DEF CountCorrect
    <3> QED
      BY <3>4, <3>5
  <2> QED
    BY <2>1, <2>2
<1>10. TrackerCorrect(source)'
  <2>1. b # <<>> /\ b[Len(b)] = number
    <3> HIDE DEF a
    <3> QED
      BY <1>1
  <2>2. source \in DOMAIN streamTrackers' /\ streamTrackers'[source] = c
    BY <1>6 DEF TrackSequence
  <2> HIDE DEF b
  <2> QED
    BY <1>5, <2>1, <2>2 DEF TrackerCorrect
<1>11. CountCorrect(source)'
  <2>1. a \in Seq(1..MaxSent) /\ CountAgrees(a, Counted(source))
    BY DEF ChannelInv, ChannelTypeOK, CountCorrect
  <2>2. CASE a = <<>>
    <3>1. b = <<number>>
      BY <2>2
    <3>2. Counted(source) = 0 /\ Counted(source)' = 0
      <4>1. CountMissing(a) = 0 /\ InOrder(a) /\ AheadAtMost(a, CounterMod)
        <5>1. Missing(a) = {} /\ Len(a) = 0
          BY <2>2 DEF Missing
        <5> HIDE DEF a
        <5> QED
          BY <5>1, FS_EmptySet DEF CountMissing, InOrder, AheadAtMost
      <4> HIDE DEF a
      <4> QED
        BY <1>7, <1>8, <2>1, <2>2, <4>1 DEF CountAgrees
    <3>3. CountAgrees(b, 0)
      <4> HIDE DEF a, b
      <4> QED
        BY <3>1, AgreesFirst
    <3> HIDE DEF a, b
    <3> QED
      BY <1>5, <3>2, <3>3 DEF CountCorrect
  <2>3. CASE a # <<>>
    <3>1. p \in 1..MaxSent
      <4> HIDE DEF a
      <4> QED
        BY <2>1, <2>3, ElementsIn
    <3>2. /\ d \in SeqCounters
          /\ number > p /\ number - p <= CounterMod => d = number - p - 1
      <4>1. p \in Nat /\ number \in Nat
        BY <1>1, <1>2, <2>3
      <4>2. e = NextSeq(p % CounterMod) /\ c = number % CounterMod
              /\ d = IF c = e THEN 0 ELSE DroppedCount(e, c)
        OBVIOUS
      <4> HIDE DEF p, c, e, d
      <4> QED
        BY <4>1, <4>2, DistanceCounted
    <3>3. Counted(source)' = Counted(source) + d
      BY <1>7, <1>8, <2>3
    <3>4. d \in Nat
      <4> HIDE DEF d
      <4> QED
        BY <1>1, <3>2 DEF SeqCounters
    <3>5. CountAgrees(b, Counted(source) + d)
      <4>1. p = a[Len(a)]
        OBVIOUS
      <4> HIDE DEF a, d, p
      <4> QED
        BY <1>7, <2>1, <2>3, <3>1, <3>2, <3>4, <4>1, AgreesAppend
    <3> HIDE DEF a, b, d
    <3> QED
      BY <1>5, <3>3, <3>5 DEF CountCorrect
  <2> QED
    BY <2>2, <2>3
<1> QED
  BY <1>9, <1>10, <1>11 DEF ChannelInv

-------------------------------------------------------------------------------
(* The trackers and the events agree with the messages that arrived        *)
(* (UnwrapCMP.cpp:793-831).                                                *)
THEOREM ChannelInvariant == ChannelSpec => []ChannelInv
<1>1. ChannelInv /\ [ChannelNext]_channelVars => ChannelInv'
  <2> SUFFICES ASSUME ChannelInv, [ChannelNext]_channelVars PROVE ChannelInv'
    OBVIOUS
  <2>1. CASE ChannelNext
    BY <2>1, ChannelStep DEF ChannelNext
  <2>2. CASE UNCHANGED channelVars
    <3>1. /\ arrived' = arrived /\ droppedFrames' = droppedFrames
          /\ streamTrackers' = streamTrackers
      BY <2>2 DEF channelVars
    <3> QED
      BY <3>1 DEF ChannelInv, ChannelTypeOK, TrackerCorrect, CountCorrect, CountAgrees, Counted,
                  EventsOf
  <2> QED
    BY <2>1, <2>2
<1> QED
  BY ChannelInitially, <1>1, PTL DEF ChannelSpec

(* While a stream is recorded in order and fewer than 65536 messages are   *)
(* lost in a row, the report counts exactly the messages that are missing  *)
(* (UnwrapCMP.cpp:800-828, 941-945).                                       *)
THEOREM CountExact == ChannelSpec => []CountIsExact
<1>1. ChannelInv => CountIsExact
  BY DEF ChannelInv, CountCorrect, CountAgrees, Counted, CountIsExact
<1> QED
  BY <1>1, ChannelInvariant, PTL

(* Whatever is repeated or late, at least as many messages are reported as *)
(* are missing, unless so many are lost in a row that the counter comes    *)
(* round (UnwrapCMP.cpp:800-828, 941-945).                                 *)
THEOREM LossesAreReported == ChannelSpec => []NoLossUnreported
<1>1. ChannelInv => NoLossUnreported
  BY DEF ChannelInv, CountCorrect, CountAgrees, Counted, NoLossUnreported
<1> QED
  BY <1>1, ChannelInvariant, PTL
================================================================================
