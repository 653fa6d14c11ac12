---------------------------- MODULE VsbFiles_proofs ----------------------------
(***************************************************************************)
(* The merge of recordings implements the abstract one, for every list of  *)
(* files; then what splitting and concatenating do to whole files.         *)
(***************************************************************************)
EXTENDS VsbFiles, DataLemmas

(* What can be read from a recording is a sequence of messages.            *)
LEMMA ContentsType ==
    ASSUME NEW r \in Recording
    PROVE  Contents(r) \in Seq(Message)
<1>1. /\ r.opens \in BOOLEAN /\ r.messages \in Seq(Message)
      /\ r.rejects \in Nat \ {0} /\ r.rejects <= Len(r.messages) + 1
  BY DEF Recording
<1>2. <<Ghost>> \in Seq(Message) /\ <<>> \in Seq(Message)
  BY EmptySeq DEF Ghost, Message
<1>3. SubSeq(r.messages, 1, r.rejects - 1) \in Seq(Message)
  <2>1. \A i \in 1..(r.rejects - 1) : r.messages[i] \in Message
    BY <1>1
  <2> QED
    BY <1>1, <2>1
<1> QED
  BY <1>2, <1>3 DEF Contents

(* The condition of a read that finds a message, and of one that does not. *)
LEMMA ReadFacts ==
    ASSUME NEW r \in Recording, NEW n \in Nat
    PROVE  /\ ReadAt(r, n) = "eSuccess" <=> r.opens /\ n < Len(Contents(r))
           /\ ReadAt(r, n) = "eError" <=> ~r.opens
           /\ Len(Contents(r)) \in Nat
<1>1. Len(Contents(r)) \in Nat
  BY ContentsType
<1>2. r.opens \in BOOLEAN
  BY DEF Recording
<1> QED
  BY <1>1, <1>2 DEF ReadAt

-------------------------------------------------------------------------------
(* The inductive invariant.  Every reader in the queue has the message in  *)
(* hand that its position says, and no file that was opened since is       *)
(* unreadable.                                                             *)
QueueCorrect ==
    \A k \in queue :
        /\ k <= opened
        /\ position[k] \in 1..Len(Contents(inputs[k]))
        /\ \A j \in k..opened : inputs[j].opens

MergeInv ==
    /\ inputs \in Seq(Recording)
    /\ opened \in 0..Len(inputs)
    /\ position \in [DOMAIN inputs -> Nat]
    /\ queue \subseteq DOMAIN inputs
    /\ merged \in Seq(Message)
    /\ inputs = <<>> => merged = <<>>
    /\ QueueCorrect

LEMMA MergeInvInit ==
    ASSUME MergerInit
    PROVE  MergeInv
  BY EmptySeq DEF MergerInit, MergeInv, QueueCorrect

LEMMA InputFacts ==
    ASSUME MergeInv
    PROVE  /\ DOMAIN inputs = 1..Len(inputs) /\ Len(inputs) \in Nat
           /\ \A k \in DOMAIN inputs :
                /\ inputs[k] \in Recording
                /\ Contents(inputs[k]) \in Seq(Message)
                /\ Len(Contents(inputs[k])) \in Nat
<1>1. inputs \in Seq(Recording)
  BY DEF MergeInv
<1> QED
  BY <1>1, ContentsType

LEMMA OpenNextInv ==
    ASSUME MergeInv, OpenNext
    PROVE  MergeInv'
<1> DEFINE k == opened + 1
<1>1. /\ k \in DOMAIN inputs /\ inputs' = inputs /\ merged' = merged /\ opened' = k
      /\ DOMAIN inputs = 1..Len(inputs) /\ Len(inputs) \in Nat /\ opened \in 0..Len(inputs)
      /\ inputs[k] \in Recording
  BY InputFacts DEF OpenNext, MergeInv
<1>2. CASE OpenSuccess(k)
  <2>1. inputs[k].opens /\ 0 < Len(Contents(inputs[k])) /\ Len(Contents(inputs[k])) \in Nat
    BY <1>1, <1>2, ReadFacts DEF OpenSuccess
  <2>2. queue' = queue \cup {k} /\ position' = [position EXCEPT ![k] = 1]
    BY <1>2 DEF OpenSuccess
  <2>3. position' \in [DOMAIN inputs -> Nat] /\ position'[k] = 1
    BY <1>1, <2>2 DEF MergeInv
  <2>4. QueueCorrect'
    <3> SUFFICES ASSUME NEW q \in queue'
                 PROVE  /\ q <= k
                        /\ position'[q] \in 1..Len(Contents(inputs[q]))
                        /\ \A j \in q..k : inputs[j].opens
      BY <1>1 DEF QueueCorrect
    <3>1. CASE q = k
      BY <1>1, <2>1, <2>3, <3>1
    <3>2. CASE q # k
      <4>1. q \in queue /\ q \in DOMAIN inputs /\ position'[q] = position[q]
        BY <2>2, <3>2 DEF MergeInv
      <4>2. /\ q <= opened
            /\ position[q] \in 1..Len(Contents(inputs[q]))
            /\ \A j \in q..opened : inputs[j].opens
        BY <4>1 DEF MergeInv, QueueCorrect
      <4> QED
        BY <1>1, <2>1, <4>1, <4>2
    <3> QED
      BY <3>1, <3>2
  <2> QED
    BY <1>1, <2>2, <2>3, <2>4 DEF MergeInv
<1>3. CASE OpenRejected(k)
  <2>1. queue' = queue /\ position' = position /\ inputs[k].opens
    BY <1>1, <1>3, ReadFacts DEF OpenRejected
  <2>2. QueueCorrect'
    <3> SUFFICES ASSUME NEW q \in queue
                 PROVE  /\ q <= k
                        /\ position[q] \in 1..Len(Contents(inputs[q]))
                        /\ \A j \in q..k : inputs[j].opens
      BY <1>1, <2>1 DEF QueueCorrect
    <3>1. /\ q <= opened /\ q \in DOMAIN inputs
          /\ position[q] \in 1..Len(Contents(inputs[q]))
          /\ \A j \in q..opened : inputs[j].opens
      BY DEF MergeInv, QueueCorrect
    <3> QED
      BY <1>1, <2>1, <3>1
  <2> QED
    BY <1>1, <2>1, <2>2 DEF MergeInv
<1>4. CASE OpenError(k)
  <2>1. queue' = {} /\ position' = position
    BY <1>4 DEF OpenError
  <2> QED
    BY <1>1, <2>1 DEF MergeInv, QueueCorrect
<1> QED
  BY <1>2, <1>3, <1>4 DEF OpenNext

LEMMA ReadMergedInv ==
    ASSUME MergeInv, NEW k \in DOMAIN inputs, ReadMerged(k)
    PROVE  MergeInv'
<1>1. /\ k \in queue /\ inputs' = inputs /\ opened' = opened
      /\ merged' = Append(merged, InHand(k)) /\ Advance(k)
      /\ inputs[k] \in Recording /\ Contents(inputs[k]) \in Seq(Message)
      /\ Len(Contents(inputs[k])) \in Nat
  BY InputFacts DEF ReadMerged, Earliest
<1>2. position[k] \in 1..Len(Contents(inputs[k])) /\ position[k] \in Nat
  BY <1>1 DEF MergeInv, QueueCorrect
<1>3. merged' \in Seq(Message)
  BY <1>1, <1>2 DEF InHand, MergeInv
<1>4. inputs # <<>>
  OBVIOUS
<1>5. CASE ReadAt(inputs[k], position[k]) = "eSuccess"
  <2>1. position' = [position EXCEPT ![k] = @ + 1] /\ queue' = queue
    BY <1>1, <1>5 DEF Advance
  <2>2. position[k] < Len(Contents(inputs[k]))
    BY <1>1, <1>2, <1>5, ReadFacts
  <2>3. /\ position' \in [DOMAIN inputs -> Nat] /\ position'[k] = position[k] + 1
        /\ \A q \in DOMAIN inputs : q # k => position'[q] = position[q]
    BY <1>2, <2>1 DEF MergeInv
  <2>4. QueueCorrect'
    <3> SUFFICES ASSUME NEW q \in queue
                 PROVE  /\ q <= opened
                        /\ position'[q] \in 1..Len(Contents(inputs[q]))
                        /\ \A j \in q..opened : inputs[j].opens
      BY <1>1, <2>1 DEF QueueCorrect
    <3>1. /\ q <= opened /\ q \in DOMAIN inputs
          /\ position[q] \in 1..Len(Contents(inputs[q]))
          /\ \A j \in q..opened : inputs[j].opens
      BY DEF MergeInv, QueueCorrect
    <3> QED
      BY <1>1, <1>2, <2>2, <2>3, <3>1
  <2> QED
    BY <1>1, <1>3, <1>4, <2>1, <2>3, <2>4 DEF MergeInv
<1>6. CASE ReadAt(inputs[k], position[k]) # "eSuccess"
  <2>1. position' = position /\ queue' = queue \ {k}
    BY <1>1, <1>6 DEF Advance
  <2> QED
    BY <1>1, <1>3, <1>4, <2>1 DEF MergeInv, QueueCorrect
<1> QED
  BY <1>5, <1>6

LEMMA ConstructingInv ==
    ASSUME NEW files \in Seq(Recording), Constructing(files)
    PROVE  MergeInv'
  BY EmptySeq DEF Constructing, MergeInv, QueueCorrect, NoReaders
(* Nothing the abstract merge looks at changes when readers are deleted,   *)
(* nor when no step is taken.                                              *)
LEMMA NextInv ==
    ASSUME MergeInv, [MergerNext]_mergeVars
    PROVE  MergeInv'
<1>1. CASE inputs = <<>> /\ \E files \in Seq(Recording) : Constructing(files)
  BY <1>1, ConstructingInv
<1>2. CASE OpenNext
  BY <1>2, OpenNextInv
<1>3. CASE \E k \in DOMAIN inputs : ReadMerged(k)
  BY <1>3, ReadMergedInv
<1>4. CASE Ready /\ DeleteReadList
  BY <1>4 DEF DeleteReadList, MergeInv, QueueCorrect
<1>5. CASE UNCHANGED mergeVars
  BY <1>5 DEF mergeVars, MergeInv, QueueCorrect
<1> QED
  BY <1>1, <1>2, <1>3, <1>4, <1>5 DEF MergerNext

-------------------------------------------------------------------------------
(* What is left of every stream is a sequence of messages.                 *)
LEMMA LeftOfType ==
    ASSUME MergeInv, NEW k \in DOMAIN inputs
    PROVE  LeftOf(k) \in Seq(Message)
<1> DEFINE all == Contents(inputs[k])
<1>1. all \in Seq(Message) /\ Len(all) \in Nat
  BY InputFacts
<1>2. \A n \in Nat : SubSeq(all, n + 1, Len(all)) \in Seq(Message)
  <2> TAKE n \in Nat
  <2>1. \A i \in (n + 1)..Len(all) : all[i] \in Message
    BY <1>1
  <2> HIDE DEF all
  <2> QED
    BY <1>1, <2>1
<1>3. TakenOf(k) \in Nat
  <2>1. k \in queue => position[k] - 1 \in Nat
    BY DEF MergeInv, QueueCorrect
  <2> QED
    BY <1>1, <2>1 DEF TakenOf
<1> QED
  BY <1>2, <1>3, EmptySeq DEF LeftOf, Rest

LEMMA LeftType == MergeInv => Left \in Seq(Seq(Message))
<1> SUFFICES ASSUME MergeInv
             PROVE  Left \in Seq(Seq(Message))
  OBVIOUS
<1>1. DOMAIN inputs = 1..Len(inputs) /\ Len(inputs) \in Nat
  BY InputFacts
<1>2. Left \in [1..Len(inputs) -> Seq(Message)]
  BY <1>1, LeftOfType DEF Left
<1> QED
  BY <1>1, <1>2, SeqDef

LEMMA LeftTypeNext == (MergeInv => Left \in Seq(Seq(Message)))'
  BY LeftType, PTL

(* Without files nothing is left.                                          *)
LEMMA LeftEmpty ==
    ASSUME inputs = <<>>
    PROVE  Left = <<>>
  BY DEF Left

-------------------------------------------------------------------------------
(* Opening a file changes nothing that is left: either its messages are    *)
(* still untouched, or it has none, or it is no survivor.                  *)
LEMMA OpeningKeepsLeft ==
    ASSUME MergeInv, OpenNext
    PROVE  Left' = Left
<1> DEFINE k == opened + 1
<1>1. /\ k \in DOMAIN inputs /\ inputs' = inputs /\ opened' = k
      /\ DOMAIN inputs = 1..Len(inputs) /\ Len(inputs) \in Nat /\ opened \in 0..Len(inputs)
      /\ inputs[k] \in Recording
  BY InputFacts DEF OpenNext, MergeInv
<1>2. Survivors' = Survivors
  BY <1>1 DEF Survivors
<1>3. k \notin queue
  BY <1>1 DEF MergeInv, QueueCorrect
<1> SUFFICES ASSUME NEW q \in DOMAIN inputs, q \in Survivors
             PROVE  TakenOf(q)' = TakenOf(q)
  BY <1>1, <1>2 DEF Left, LeftOf, Rest
<1>4. /\ \A j \in q..Len(inputs) : inputs[j].opens
      /\ q \in 1..Len(inputs)
  BY <1>1 DEF Survivors
<1>5. CASE OpenSuccess(k)
  <2>1. queue' = queue \cup {k} /\ position' = [position EXCEPT ![k] = 1]
    BY <1>5 DEF OpenSuccess
  <2>2. position'[k] = 1 /\ (q # k => position'[q] = position[q])
    BY <1>1, <2>1 DEF MergeInv
  <2> QED
    BY <1>1, <1>3, <1>4, <2>1, <2>2 DEF TakenOf
<1>6. CASE OpenRejected(k)
  <2>1. queue' = queue /\ position' = position
    BY <1>6 DEF OpenRejected
  <2>2. CASE q = k
    <3>1. ReadAt(inputs[k], 0) = "eInvalidPayloadSize"
      BY <1>6 DEF OpenRejected
    <3>2. ~(0 < Len(Contents(inputs[k]))) /\ Len(Contents(inputs[k])) \in Nat
      BY <1>1, <1>4, <2>2, <3>1, ReadFacts
    <3> QED
      BY <1>1, <1>3, <1>4, <2>1, <2>2, <3>2 DEF TakenOf
  <2>3. CASE q # k
    BY <1>1, <1>4, <2>1, <2>3 DEF TakenOf
  <2> QED
    BY <2>2, <2>3
<1>7. CASE OpenError(k)
  <2>1. queue' = {} /\ position' = position /\ ~inputs[k].opens
    BY <1>1, <1>7, ReadFacts DEF OpenError
  <2>2. q > k
    BY <1>1, <1>4, <2>1
  <2> QED
    BY <1>1, <1>4, <2>1, <2>2 DEF TakenOf
<1> QED
  BY <1>5, <1>6, <1>7 DEF OpenNext

(* When all files are open, those in the queue have their message in hand  *)
(* and the rest of their file left, the others nothing.                    *)
LEMMA LeftWhenReady ==
    ASSUME MergeInv, Ready, NEW k \in DOMAIN inputs
    PROVE  LeftOf(k) = IF k \in queue
                         THEN SubSeq(Contents(inputs[k]), position[k], Len(Contents(inputs[k])))
                         ELSE <<>>
<1>1. /\ DOMAIN inputs = 1..Len(inputs) /\ Len(inputs) \in Nat
      /\ Contents(inputs[k]) \in Seq(Message) /\ Len(Contents(inputs[k])) \in Nat
  BY InputFacts
<1>2. opened = Len(inputs) /\ k <= opened
  BY <1>1 DEF Ready
<1>3. CASE k \in queue
  <2>1. position[k] \in Nat /\ \A j \in k..opened : inputs[j].opens
    BY <1>3 DEF MergeInv, QueueCorrect
  <2>2. k \in Survivors
    BY <1>2, <2>1 DEF Survivors
  <2>3. TakenOf(k) + 1 = position[k]
    BY <1>1, <1>2, <1>3, <2>1 DEF TakenOf
  <2> QED
    BY <1>3, <2>2, <2>3 DEF LeftOf, Rest
<1>4. CASE k \notin queue
  <2>1. TakenOf(k) = Len(Contents(inputs[k]))
    BY <1>1, <1>2, <1>4 DEF TakenOf
  <2>2. Rest(k, TakenOf(k)) = <<>>
    BY <1>1, <2>1, SubSeqEmpty DEF Rest
  <2> QED
    BY <1>4, <2>2 DEF LeftOf
<1> QED
  BY <1>3, <1>4

(* What the rest of a file begins with and goes on with.                   *)
LEMMA RestFacts ==
    ASSUME NEW s \in Seq(Message), NEW n \in 1..Len(s)
    PROVE  /\ SubSeq(s, n, Len(s)) # <<>>
           /\ Head(SubSeq(s, n, Len(s))) = s[n]
           /\ Tail(SubSeq(s, n, Len(s))) = SubSeq(s, n + 1, Len(s))
<1>1. Len(s) \in Nat /\ Len(s) \in n..Len(s) /\ n \in Int
  OBVIOUS
<1>2. SubSeq(s, n, Len(s)) # <<>>
  <2>1. \A i \in n..Len(s) : s[i] \in Message
    OBVIOUS
  <2>2. Len(SubSeq(s, n, Len(s))) # 0
    BY <1>1, <2>1, SubSeqProperties
  <2> QED
    BY <2>2, EmptySeq
<1> QED
  BY <1>1, <1>2, HeadTailOfSubSeq

LEMMA StillWaiting ==
    ASSUME MergeInv, Ready
    PROVE  /\ Abstract!Waiting = queue
           /\ \A k \in queue :
                /\ Head(Left[k]) = InHand(k)
                /\ Tail(Left[k]) = SubSeq(Contents(inputs[k]), position[k] + 1, Len(Contents(inputs[k])))
<1>1. DOMAIN Left = DOMAIN inputs /\ \A k \in DOMAIN inputs : Left[k] = LeftOf(k)
  BY DEF Left
<1>2. queue \subseteq DOMAIN inputs
  BY DEF MergeInv
<1>3. ASSUME NEW k \in queue
      PROVE  /\ Left[k] # <<>>
             /\ Head(Left[k]) = InHand(k)
             /\ Tail(Left[k]) = SubSeq(Contents(inputs[k]), position[k] + 1, Len(Contents(inputs[k])))
  <2>1. k \in DOMAIN inputs
    BY <1>2
  <2>2. Contents(inputs[k]) \in Seq(Message) /\ position[k] \in 1..Len(Contents(inputs[k]))
    BY <2>1, InputFacts DEF MergeInv, QueueCorrect
  <2>3. Left[k] = SubSeq(Contents(inputs[k]), position[k], Len(Contents(inputs[k])))
    BY <1>1, <2>1, LeftWhenReady
  <2> QED
    BY <2>2, <2>3, RestFacts DEF InHand
<1>4. \A k \in DOMAIN inputs : k \notin queue => Left[k] = <<>>
  BY <1>1, LeftWhenReady
<1> QED
  BY <1>1, <1>2, <1>3, <1>4 DEF Abstract!Waiting

(* Reading takes a message of the reader's stream and leaves the others.   *)
LEMMA ReadingTakes ==
    ASSUME MergeInv, NEW k \in DOMAIN inputs, ReadMerged(k)
    PROVE  k \in Abstract!Waiting /\ Abstract!Take(k)
<1>1. /\ Ready /\ k \in queue /\ inputs' = inputs /\ opened' = opened
      /\ merged' = Append(merged, InHand(k)) /\ Advance(k)
      /\ \A j \in queue : InHand(k).time <= InHand(j).time
      /\ DOMAIN inputs = 1..Len(inputs) /\ Len(inputs) \in Nat /\ opened = Len(inputs)
      /\ inputs[k] \in Recording /\ Contents(inputs[k]) \in Seq(Message)
      /\ Len(Contents(inputs[k])) \in Nat
  BY InputFacts DEF ReadMerged, Earliest, Ready
<1>2. /\ Abstract!Waiting = queue
      /\ \A j \in queue : Head(Left[j]) = InHand(j)
      /\ Tail(Left[k]) = SubSeq(Contents(inputs[k]), position[k] + 1, Len(Contents(inputs[k])))
  BY <1>1, StillWaiting
<1>3. /\ position \in [DOMAIN inputs -> Nat] /\ queue \subseteq DOMAIN inputs
      /\ position[k] \in 1..Len(Contents(inputs[k]))
      /\ \A j \in k..opened : inputs[j].opens
  BY <1>1 DEF MergeInv, QueueCorrect
<1>4. Survivors' = Survivors /\ k \in Survivors
  BY <1>1, <1>3 DEF Survivors
<1>5. ASSUME NEW j \in DOMAIN inputs, j # k
      PROVE  TakenOf(j)' = TakenOf(j)
  BY <1>1, <1>3, <1>5 DEF TakenOf, Advance
<1>6. TakenOf(k)' = position[k]
  <2>1. CASE ReadAt(inputs[k], position[k]) = "eSuccess"
    <3>1. position'[k] = position[k] + 1 /\ queue' = queue
      BY <1>1, <1>3, <2>1 DEF Advance
    <3> QED
      BY <1>1, <1>3, <3>1 DEF TakenOf
  <2>2. CASE ReadAt(inputs[k], position[k]) # "eSuccess"
    <3>1. queue' = queue \ {k} /\ position' = position
      BY <1>1, <2>2 DEF Advance
    <3>2. inputs[k].opens
      BY <1>1, <1>3
    <3>3. position[k] = Len(Contents(inputs[k]))
      BY <1>1, <1>3, <2>2, <3>2, ReadFacts
    <3> QED
      BY <1>1, <1>3, <3>1, <3>3 DEF TakenOf
  <2> QED
    BY <2>1, <2>2
<1>7. Left' = [Left EXCEPT ![k] = Tail(@)]
  <2>1. \A j \in DOMAIN inputs : j # k => LeftOf(j)' = LeftOf(j)
    BY <1>1, <1>4, <1>5 DEF LeftOf, Rest
  <2>2. LeftOf(k)' = SubSeq(Contents(inputs[k]), position[k] + 1, Len(Contents(inputs[k])))
    BY <1>1, <1>4, <1>6 DEF LeftOf, Rest
  <2> QED
    BY <1>1, <1>2, <2>1, <2>2 DEF Left
<1> QED
  BY <1>1, <1>2, <1>7 DEF Abstract!Take

(* Before there are files nothing was taken, and with them every stream is *)
(* still whole.                                                            *)
LEMMA ConstructingBegins ==
    ASSUME MergeInv, MergeInv', inputs = <<>>, NEW files \in Seq(Recording), Constructing(files)
    PROVE  Abstract!Begin
<1>1. merged = <<>> /\ merged' = <<>>
  BY DEF MergeInv, Constructing
<1> QED
  BY <1>1, LeftEmpty, LeftTypeNext DEF Abstract!Begin

LEMMA StepTakesOrStutters ==
    ASSUME MergeInv, MergeInv', [MergerNext]_mergeVars
    PROVE  [Abstract!Begin \/ \E k \in Abstract!Waiting : Abstract!Take(k)]_<<Left, merged>>
<1>1. CASE inputs = <<>> /\ \E files \in Seq(Recording) : Constructing(files)
  BY <1>1, ConstructingBegins
<1>2. CASE OpenNext
  BY <1>2, OpeningKeepsLeft DEF OpenNext
<1>3. CASE \E k \in DOMAIN inputs : ReadMerged(k)
  BY <1>3, ReadingTakes
<1>4. CASE (Ready /\ DeleteReadList) \/ UNCHANGED mergeVars
  <2>1. /\ inputs' = inputs /\ opened' = opened /\ position' = position
        /\ queue' = queue /\ merged' = merged
    BY <1>4 DEF DeleteReadList, mergeVars
  <2>2. Survivors' = Survivors /\ \A k \in DOMAIN inputs : TakenOf(k)' = TakenOf(k)
    BY <2>1 DEF Survivors, TakenOf
  <2> QED
    BY <2>1, <2>2 DEF Left, LeftOf, Rest
<1> QED
  BY <1>1, <1>2, <1>3, <1>4 DEF MergerNext

-------------------------------------------------------------------------------
(* The invariant holds throughout (VSBIO.cpp:339-443).                     *)
THEOREM MergeInvariant == MergerSpec => []MergeInv
<1>1. MergerInit => MergeInv
  BY MergeInvInit
<1>2. MergeInv /\ [MergerNext]_mergeVars => MergeInv'
  BY NextInv
<1> QED
  BY <1>1, <1>2, PTL DEF MergerSpec

(* For every list of recordings, whichever of them are unreadable or       *)
(* refuse a payload, the merge returns the messages of the surviving ones  *)
(* in the order of time, each once (VSBIO.cpp:339-370, 412-443).           *)
THEOREM MergeImplementsMergeByTime == MergerSpec => MergesByTime
<1>1. MergerInit => Left = <<>> /\ merged = <<>>
  BY LeftEmpty DEF MergerInit
<1>2. MergeInv /\ MergeInv' /\ [MergerNext]_mergeVars
      => [Abstract!Begin \/ \E k \in Abstract!Waiting : Abstract!Take(k)]_<<Left, merged>>
  BY StepTakesOrStutters
<1> QED
  BY <1>1, <1>2, MergeInvariant, PTL DEF MergerSpec, MergesByTime, Abstract!MergeSpec

-------------------------------------------------------------------------------
(* Splitting.  The messages of every part, and how many messages of the    *)
(* source they are.                                                        *)
Bodies == [i \in DOMAIN parts |-> parts[i].messages]

Copied == IF splitStopped THEN done - 1 ELSE done

SplitType ==
    /\ source \in Recording
    /\ limits \in Limits
    /\ done \in Nat /\ done <= Len(Contents(source))
    /\ splitStopped \in BOOLEAN
    /\ splitStopped => done > 0
    /\ counter \in Nat
    /\ limits.by = "messages" => counter = Copied
    /\ splitFileSize \in Nat
    /\ parts \in Seq(Part)

PartsBegun ==
    /\ parts = <<>> => Copied = 0
    /\ \A i \in DOMAIN parts : parts[i].open => parts[i].messages # <<>>

Counted(messages) == FileSize(messages) - SizeOf(messages[1])

(* What the counters say of the part that is being written.                *)
LastPartCounted ==
    AllPartsOpen /\ parts # <<>> =>
        LET last == parts[Len(parts)].messages IN
        IF limits.by = "messages"
          THEN /\ Len(last) <= limits.size
               /\ \E q \in Int : counter = limits.size * q + Len(last)
          ELSE /\ splitFileSize = Counted(last)
               /\ Len(last) > 1 => splitFileSize <= limits.size

(* A part that was ended because of the message that came next.            *)
FullBefore(messages, next) ==
    IF limits.by = "messages" THEN Len(messages) = limits.size
    ELSE /\ Len(messages) > 1 => Counted(messages) <= limits.size
         /\ Counted(messages) + SizeOf(next) > limits.size

OthersAreFull ==
    AllPartsOpen =>
        \A i \in DOMAIN parts :
            i # Len(parts) => FullBefore(parts[i].messages, parts[i + 1].messages[1])

SplitInv == SplitType /\ PartsBegun /\ PartsAreTheFile /\ LastPartCounted /\ OthersAreFull

(* The size of a part grows with each message by that message's.           *)
Sizing == [p \in Nat \X Message |-> p[1] + SizeOf(p[2])]

LEMMA SizeOfType == \A m \in Message : SizeOf(m) \in Nat
  BY HeaderSizeAssumption DEF SizeOf, Message

LEMMA SizingType ==
    \A messages \in Seq(Message) : FoldType(Nat, Message, Sizing, FileHeader, messages)
<1>1. Sizing \in [Nat \X Message -> Nat]
  BY SizeOfType DEF Sizing
<1> QED
  BY <1>1, FileHeaderAssumption DEF FoldType

LEMMA FileSizeIsFold ==
    ASSUME NEW s \in Seq(Message)
    PROVE  FileSize(s) = FoldOf(Sizing, FileHeader, s)
<1> DEFINE Eq(it) == it = [t \in SUBSET (DOMAIN s) |->
                             IF t = {} THEN FileHeader
                             ELSE it[t \ {Max(t)}] + SizeOf(s[Max(t)])]
           j == CHOOSE it : Eq(it)
<1>1. DOMAIN s = 1..Len(s) /\ FoldType(Nat, Message, Sizing, FileHeader, s)
  BY SizingType
<1>2. FileSize(s) = j[1..Len(s)]
  BY <1>1 DEF FileSize, FoldLeft, MapThenFoldSet
<1>3. \E it : Eq(it)
  <2>1. PICK it \in [SUBSET (1..Len(s)) -> Nat] : Folding(it, Len(s), Sizing, FileHeader, s)
    BY <1>1, FoldingExists
  <2>2. ASSUME NEW t \in SUBSET (1..Len(s)), t # {}
        PROVE  it[t] = it[t \ {Max(t)}] + SizeOf(s[Max(t)])
    <3>1. it[t] = Sizing[<<it[t \ {Max(t)}], s[Max(t)]>>]
      BY <2>1, <2>2 DEF Folding
    <3>2. it[t \ {Max(t)}] \in Nat
      BY <2>1
    <3>3. s[Max(t)] \in Message
      BY <2>2, MaxIn
    <3> QED
      BY <3>1, <3>2, <3>3 DEF Sizing
  <2>3. it[{}] = FileHeader
    BY <2>1 DEF Folding
  <2>4. Eq(it)
    BY <2>1, <2>2, <2>3, <1>1
  <2> QED
    BY <2>4
<1>4. Eq(j)
  <2> HIDE DEF Eq
  <2> QED
    BY <1>3
<1> HIDE DEF j
<1>5. j[{}] = FileHeader
  BY <1>4
<1>6. ASSUME NEW t \in SUBSET (1..Len(s)), t # {}, j[t \ {Max(t)}] \in Nat
      PROVE  j[t] = Sizing[<<j[t \ {Max(t)}], s[Max(t)]>>]
  <2>1. s[Max(t)] \in Message
    BY <1>6, MaxIn
  <2>2. j[t] = j[t \ {Max(t)}] + SizeOf(s[Max(t)])
    BY <1>1, <1>4, <1>6
  <2> HIDE DEF Eq
  <2> QED
    BY <1>6, <2>1, <2>2 DEF Sizing
<1> HIDE DEF Eq
<1>7. j[1..Len(s)] = FoldOf(Sizing, FileHeader, s)
  <2>1. FoldsWithin(j, Nat, Sizing, FileHeader, s)
    BY <1>5, <1>6 DEF FoldsWithin
  <2> QED
    BY <1>1, <2>1, FoldOfFolding
<1> QED
  BY <1>2, <1>7

LEMMA FileSizeAppend ==
    ASSUME NEW s \in Seq(Message), NEW m \in Message
    PROVE  /\ FileSize(s) \in Nat
           /\ FileSize(Append(s, m)) = FileSize(s) + SizeOf(m)
<1>1. FoldType(Nat, Message, Sizing, FileHeader, s) /\ Append(s, m) \in Seq(Message)
  BY SizingType
<1>2. FileSize(s) = FoldOf(Sizing, FileHeader, s) /\ FileSize(s) \in Nat
  BY <1>1, FileSizeIsFold, FoldOfType
<1>3. FileSize(Append(s, m)) = Sizing[<<FoldOf(Sizing, FileHeader, s), m>>]
  <2>1. FoldOf(Sizing, FileHeader, Append(s, m)) = Sizing[<<FoldOf(Sizing, FileHeader, s), m>>]
    BY <1>1, FoldOfAppend
  <2> QED
    BY <1>1, <2>1, FileSizeIsFold
<1> QED
  BY <1>2, <1>3 DEF Sizing

LEMMA FileSizeOne ==
    ASSUME NEW m \in Message
    PROVE  FileSize(<<m>>) = FileHeader + SizeOf(m)
<1>1. <<>> \in Seq(Message) /\ Append(<<>>, m) = <<m>>
  BY EmptySeq
<1>2. FileSize(<<>>) = FileHeader
  BY <1>1, FileSizeIsFold, FoldOfEmpty
<1> QED
  BY <1>1, <1>2, FileSizeAppend

LEMMA PartsFacts ==
    ASSUME SplitType
    PROVE  /\ Len(parts) \in Nat /\ DOMAIN parts = 1..Len(parts)
           /\ parts # <<>> <=> Len(parts) > 0
           /\ \A i \in DOMAIN parts :
                /\ parts[i] \in Part
                /\ parts[i].open \in BOOLEAN
                /\ parts[i].messages \in Seq(Message)
           /\ Bodies \in Seq(Seq(Message)) /\ Len(Bodies) = Len(parts)
           /\ \A i \in DOMAIN parts : Bodies[i] = parts[i].messages
<1>1. parts \in Seq(Part)
  BY DEF SplitType
<1>2. /\ Len(parts) \in Nat /\ DOMAIN parts = 1..Len(parts)
      /\ parts # <<>> <=> Len(parts) > 0
      /\ \A i \in DOMAIN parts : parts[i] \in Part
  BY <1>1
<1>3. \A i \in DOMAIN parts : parts[i].open \in BOOLEAN /\ parts[i].messages \in Seq(Message)
  BY <1>2 DEF Part
<1>4. Bodies \in [1..Len(parts) -> Seq(Message)]
  BY <1>2, <1>3 DEF Bodies
<1>5. Bodies \in Seq(Seq(Message)) /\ Len(Bodies) = Len(parts)
  <2>1. PICK V : V = Seq(Message)
    OBVIOUS
  <2>2. Bodies \in Seq(V) /\ Len(Bodies) = Len(parts)
    BY <1>2, <1>4, <2>1
  <2> QED
    BY <2>1, <2>2
<1> QED
  BY <1>2, <1>3, <1>5 DEF Bodies

BodiesTyped ==
    /\ Bodies \in Seq(Seq(Message)) /\ Len(Bodies) = Len(parts) /\ Len(parts) \in Nat
    /\ \A i \in 1..Len(parts) : Bodies[i] = parts[i].messages

LEMMA BodiesType == SplitType => BodiesTyped
  BY PartsFacts DEF BodiesTyped

LEMMA BodiesTypeNext == (SplitType => BodiesTyped)'
  BY BodiesType, PTL

LEMMA NextMessageFacts ==
    ASSUME SplitType, Reading, ~splitStopped
    PROVE  /\ Contents(source) \in Seq(Message) /\ Len(Contents(source)) \in Nat
           /\ done + 1 \in 1..Len(Contents(source))
           /\ NextMessage \in Message /\ NextMessage = Contents(source)[done + 1]
           /\ Copied = done
<1>1. Contents(source) \in Seq(Message) /\ source \in Recording /\ done \in Nat
  BY ContentsType DEF SplitType
<1>2. done < Len(Contents(source)) /\ Len(Contents(source)) \in Nat
  BY <1>1, ReadFacts DEF Reading
<1> QED
  BY <1>1, <1>2 DEF NextMessage, Copied

(* A message begins a part or lengthens the last one, if that is open.     *)
BeginsPart(ok, m) ==
    /\ Len(parts') = Len(parts) + 1
    /\ \A i \in 1..Len(parts) : parts'[i] = parts[i]
    /\ parts'[Len(parts) + 1].open <=> ok
    /\ ok => parts'[Len(parts) + 1].messages = <<m>>

LengthensPart(m) ==
    /\ parts # <<>>
    /\ Len(parts') = Len(parts)
    /\ \A i \in 1..Len(parts) : i # Len(parts) => parts'[i] = parts[i]
    /\ parts'[Len(parts)].open <=> parts[Len(parts)].open
    /\ parts[Len(parts)].open =>
            parts'[Len(parts)].messages = Append(parts[Len(parts)].messages, m)

LEMMA NoPartIsFull ==
    ASSUME SplitInv, parts = <<>>, ~splitStopped
    PROVE  PartFull
<1>1. limits.size \in Nat \ {0}
  BY DEF SplitInv, SplitType, Limits
<1>2. CASE limits.by = "messages"
  <2>1. counter = 0
    BY <1>2 DEF SplitInv, SplitType, PartsBegun
  <2>2. limits.size * 0 + 0 = 0 /\ 0 \in 0..(limits.size - 1)
    BY <1>1
  <2>3. 0 % limits.size = 0
    BY <1>1, <2>2, RemainderUnique
  <2> QED
    BY <1>2, <2>1, <2>3 DEF PartFull
<1> QED
  BY <1>2 DEF PartFull

LEMMA MessagesReplaced ==
    ASSUME NEW S, NEW T, NEW p \in [open : S, messages : T], NEW more \in T
    PROVE  /\ [p EXCEPT !.messages = more] = [open |-> p.open, messages |-> more]
           /\ [p EXCEPT !.messages = more] \in [open : S, messages : T]
  OBVIOUS

LEMMA PartGrows ==
    ASSUME NEW p \in Part, NEW m \in Message, p.open,
           NEW q, q = [p EXCEPT !.messages = Append(@, m)]
    PROVE  q = [open |-> TRUE, messages |-> Append(p.messages, m)] /\ q \in Part
<1>1. p.open \in BOOLEAN /\ p.messages \in Seq(Message)
  BY DEF Part
<1>2. p.open = TRUE
  BY <1>1, Zenon
<1>3. Append(p.messages, m) \in Seq(Message)
  BY <1>1
<1> QED
  BY <1>2, <1>3, MessagesReplaced, Zenon DEF Part

LEMMA WrittenPart ==
    ASSUME NEW ps \in Seq(Part), NEW m \in Message, NEW n \in Nat, Len(ps) = n, n > 0,
           NEW p, p = ps[n], NEW w, w = WriteToPart(ps, m)
    PROVE  /\ w \in Seq(Part) /\ Len(w) = n
           /\ \A i \in 1..n : i # n => w[i] = ps[i]
           /\ w[n].open <=> p.open
           /\ p.open => w[n].messages = Append(p.messages, m)
<1>1. p \in Part /\ n \in 1..Len(ps) /\ DOMAIN ps = 1..n
  OBVIOUS
<1>2. CASE p.open
  <2> DEFINE q == [p EXCEPT !.messages = Append(@, m)]
  <2>1. w = [ps EXCEPT ![n] = q]
    BY <1>1, <1>2 DEF WriteToPart
  <2>2. q = [open |-> TRUE, messages |-> Append(p.messages, m)] /\ q \in Part
    BY <1>1, <1>2, PartGrows
  <2> HIDE DEF q
  <2>3. w \in Seq(Part) /\ Len(w) = n /\ w[n] = q /\ \A i \in 1..n : i # n => w[i] = ps[i]
    BY <1>1, <2>1, <2>2
  <2> QED
    BY <1>2, <2>2, <2>3
<1>3. CASE ~p.open
  BY <1>1, <1>3 DEF WriteToPart
<1> QED
  BY <1>2, <1>3

LEMMA CopyMessageWrites ==
    ASSUME SplitInv, CopyMessage
    PROVE  /\ parts' \in Seq(Part)
           /\ \/ PartFull /\ \E ok \in BOOLEAN : BeginsPart(ok, NextMessage)
              \/ ~PartFull /\ LengthensPart(NextMessage)
<1> DEFINE m == NextMessage
           n == Len(parts)
<1>1. /\ m \in Message /\ parts \in Seq(Part) /\ n \in Nat
      /\ Reading /\ ~splitStopped
  BY NextMessageFacts DEF SplitInv, SplitType, CopyMessage
<1> HIDE DEF m
<1>2. CASE PartFull
  <2>1. PICK ok \in BOOLEAN : parts' = WriteToPart(Append(parts, [open |-> ok, messages |-> <<>>]), m)
    BY <1>2 DEF CopyMessage, PartsInit, m
  <2> DEFINE new == [open |-> ok, messages |-> <<>>]
             ps == Append(parts, new)
  <2>2. new \in Part
    BY EmptySeq DEF Part
  <2>3. new.open = ok /\ new.messages = <<>>
    OBVIOUS
  <2> HIDE DEF new
  <2>4. /\ ps \in Seq(Part) /\ Len(ps) = n + 1 /\ n + 1 \in Nat /\ n + 1 > 0
        /\ ps[n + 1] = new /\ \A i \in 1..n : ps[i] = parts[i]
    BY <1>1, <2>2
  <2>5. parts' = WriteToPart(ps, m)
    BY <2>1 DEF new
  <2> HIDE DEF ps
  <2>6. /\ parts' \in Seq(Part) /\ Len(parts') = n + 1
        /\ \A i \in 1..(n + 1) : i # n + 1 => parts'[i] = ps[i]
        /\ parts'[n + 1].open <=> new.open
        /\ new.open => parts'[n + 1].messages = Append(new.messages, m)
    <3>1. PICK k \in Nat : k = n + 1 /\ k > 0
      BY <2>4
    <3>2. PICK w : w = parts'
      OBVIOUS
    <3>3. Len(ps) = k /\ new = ps[k] /\ w = WriteToPart(ps, m) /\ ps \in Seq(Part) /\ m \in Message
      BY <1>1, <2>4, <2>5, <3>1, <3>2
    <3>4. /\ w \in Seq(Part) /\ Len(w) = k
          /\ \A i \in 1..k : i # k => w[i] = ps[i]
          /\ w[k].open <=> new.open
          /\ new.open => w[k].messages = Append(new.messages, m)
      BY <3>1, <3>3, WrittenPart
    <3> QED
      BY <3>1, <3>2, <3>4
  <2>7. \A i \in 1..n : parts'[i] = parts[i]
    BY <1>1, <2>4, <2>6
  <2>8. (parts'[n + 1].open <=> ok) /\ (ok => parts'[n + 1].messages = <<m>>)
    <3>1. Append(<<>>, m) = <<m>>
      BY <1>1
    <3> QED
      BY <2>3, <2>6, <3>1
  <2> QED
    BY <1>2, <2>6, <2>7, <2>8 DEF BeginsPart, m
<1>3. CASE ~PartFull
  <2>1. parts' = WriteToPart(parts, m)
    BY <1>3 DEF CopyMessage, m
  <2>2. parts # <<>> /\ n > 0
    BY <1>1, <1>3, NoPartIsFull
  <2> DEFINE p == parts[n]
  <2>3. /\ parts' \in Seq(Part) /\ Len(parts') = n
        /\ \A i \in 1..n : i # n => parts'[i] = parts[i]
        /\ parts'[n].open <=> p.open
        /\ p.open => parts'[n].messages = Append(p.messages, m)
    <3> HIDE DEF p
    <3> QED
      BY <1>1, <2>1, <2>2, WrittenPart DEF p
  <2> QED
    BY <1>3, <2>2, <2>3 DEF LengthensPart, m
<1> QED
  BY <1>2, <1>3

LEMMA CopyMessageCounts ==
    ASSUME SplitInv, CopyMessage
    PROVE  /\ SplitType'
           /\ Copied' = Copied + 1 /\ Copied = done
           /\ Contents(source)' = Contents(source) /\ limits' = limits
           /\ SubSeq(Contents(source), 1, Copied + 1)
                = Append(SubSeq(Contents(source), 1, Copied), NextMessage)
<1>1. /\ Reading /\ ~splitStopped /\ done' = done + 1 /\ parts' \in Seq(Part)
      /\ source' = source /\ limits' = limits /\ splitStopped' = splitStopped
      /\ counter' = counter + IF limits.by = "messages" \/ limits.prog THEN 1 ELSE 0
      /\ splitFileSize' = IF limits.by = "messages" THEN splitFileSize
                          ELSE IF PartFull THEN FileHeader
                          ELSE splitFileSize + SizeOf(NextMessage)
  BY CopyMessageWrites DEF CopyMessage
<1>2. /\ Contents(source) \in Seq(Message) /\ Len(Contents(source)) \in Nat
      /\ done + 1 \in 1..Len(Contents(source))
      /\ NextMessage \in Message /\ NextMessage = Contents(source)[done + 1]
      /\ Copied = done
  BY <1>1, NextMessageFacts DEF SplitInv
<1>3. done \in Nat /\ counter \in Nat /\ splitFileSize \in Nat
        /\ (limits.by = "messages" => counter = Copied)
        /\ limits \in Limits /\ source \in Recording /\ splitStopped \in BOOLEAN
  BY DEF SplitInv, SplitType
<1>4. Copied' = Copied + 1
  BY <1>1, <1>2 DEF Copied
<1>5. SizeOf(NextMessage) \in Nat /\ FileHeader \in Nat
  BY <1>2, SizeOfType, FileHeaderAssumption
<1>6. counter' \in Nat /\ (limits.by = "messages" => counter' = Copied')
  BY <1>1, <1>3, <1>2, <1>4
<1>7. splitFileSize' \in Nat
  BY <1>1, <1>3, <1>5
<1>8. SplitType'
  BY <1>1, <1>2, <1>3, <1>6, <1>7 DEF SplitType
<1>9. SubSeq(Contents(source), 1, done + 1)
        = Append(SubSeq(Contents(source), 1, done), Contents(source)[done + 1])
  <2>1. PICK all : all = Contents(source)
    OBVIOUS
  <2>2. all \in Seq(Message) /\ done + 1 \in 1..Len(all) /\ done \in Nat
    BY <1>2, <1>3, <2>1
  <2> DEFINE f == SubSeq(all, 1, done + 1)
  <2>3. /\ f \in Seq(Message) /\ Len(f) = done + 1
        /\ f[done + 1] = all[done + 1]
        /\ SubSeq(f, 1, done) = SubSeq(all, 1, done)
    <3>1. f \in Seq(Message) /\ Len(f) = done + 1 /\ \A i \in 1..(done + 1) : f[i] = all[i]
      BY <2>2, SubSeqProperties
    <3>2. /\ SubSeq(f, 1, done) \in Seq(Message) /\ Len(SubSeq(f, 1, done)) = done
          /\ \A i \in 1..done : SubSeq(f, 1, done)[i] = f[i]
      <4> HIDE DEF f
      <4> QED
        BY <2>2, <3>1, SubSeqProperties
    <3>3. /\ SubSeq(all, 1, done) \in Seq(Message) /\ Len(SubSeq(all, 1, done)) = done
          /\ \A i \in 1..done : SubSeq(all, 1, done)[i] = all[i]
      BY <2>2, SubSeqProperties
    <3>4. SubSeq(f, 1, done) = SubSeq(all, 1, done)
      <4>1. \A i \in 1..done : SubSeq(f, 1, done)[i] = SubSeq(all, 1, done)[i]
        <5> HIDE DEF f
        <5> QED
          BY <2>2, <3>1, <3>2, <3>3
      <4> HIDE DEF f
      <4> QED
        BY <2>2, <3>2, <3>3, <4>1, SeqEqual
    <3> QED
      BY <2>2, <3>1, <3>4
  <2> HIDE DEF f
  <2>4. f = Append(SubSeq(f, 1, done), f[done + 1])
    BY <2>2, <2>3, LastApart
  <2> QED
    BY <2>1, <2>3, <2>4 DEF f
<1> QED
  BY <1>1, <1>2, <1>4, <1>8, <1>9

LEMMA CopyMessageBegun ==
    ASSUME SplitInv, CopyMessage
    PROVE  PartsBegun'
<1> DEFINE n == Len(parts)
           m == NextMessage
<1>1. /\ parts' \in Seq(Part)
      /\ (\E ok \in BOOLEAN : BeginsPart(ok, m)) \/ LengthensPart(m)
  BY CopyMessageWrites
<1>2. /\ n \in Nat /\ DOMAIN parts = 1..n /\ (parts # <<>> <=> n > 0)
      /\ \A i \in 1..n : parts[i].messages \in Seq(Message)
      /\ \A i \in 1..n : parts[i].open => parts[i].messages # <<>>
  BY PartsFacts DEF SplitInv, PartsBegun
<1>3. DOMAIN parts' = 1..Len(parts') /\ m \in Message
  BY <1>1, NextMessageFacts DEF SplitInv, CopyMessage
<1> HIDE DEF m
<1>6. parts' # <<>>
  <2>1. Len(parts') > 0
    <3>1. CASE \E ok \in BOOLEAN : BeginsPart(ok, m)
      BY <1>2, <3>1 DEF BeginsPart
    <3>2. CASE LengthensPart(m)
      BY <1>2, <3>2, Zenon DEF LengthensPart
    <3> QED
      BY <1>1, <3>1, <3>2
  <2> QED
    BY <1>1, <2>1
<1>4. ASSUME NEW ok \in BOOLEAN, BeginsPart(ok, m), NEW i \in DOMAIN parts', parts'[i].open
      PROVE  parts'[i].messages # <<>>
  <2>1. Len(parts') = n + 1 /\ i \in 1..(n + 1)
    BY <1>3, <1>4 DEF BeginsPart
  <2>2. CASE i = n + 1
    <3>1. parts'[i].messages = <<m>>
      BY <1>4, <2>2 DEF BeginsPart
    <3> QED
      BY <3>1
  <2>3. CASE i # n + 1
    BY <1>2, <1>4, <2>1, <2>3 DEF BeginsPart
  <2> QED
    BY <2>2, <2>3
<1>5. ASSUME LengthensPart(m), NEW i \in DOMAIN parts', parts'[i].open
      PROVE  parts'[i].messages # <<>>
  <2>1. Len(parts') = n /\ i \in 1..n
    BY <1>3, <1>5 DEF LengthensPart
  <2>2. CASE i = n /\ parts[n].open
    <3>1. parts'[i].messages = Append(parts[n].messages, m)
      BY <1>5, <2>2 DEF LengthensPart
    <3>2. Append(parts[n].messages, m) # <<>>
      BY <1>2, <1>3, <2>1, <2>2, AppendFacts
    <3> QED
      BY <3>1, <3>2
  <2>3. CASE ~(i = n /\ parts[n].open)
    BY <1>2, <1>5, <2>1, <2>3 DEF LengthensPart
  <2> QED
    BY <2>2, <2>3
<1> QED
  BY <1>1, <1>3, <1>4, <1>5, <1>6 DEF PartsBegun

(* If all parts are open, they grow by the message that is copied.         *)
LEMMA OpenPartsGrow ==
    ASSUME SplitInv, CopyMessage, AllPartsOpen'
    PROVE  /\ AllPartsOpen
           /\ \/ PartFull /\ BeginsPart(TRUE, NextMessage)
              \/ ~PartFull /\ LengthensPart(NextMessage) /\ parts[Len(parts)].open
<1> DEFINE n == Len(parts)
           m == NextMessage
<1>1. /\ parts' \in Seq(Part)
      /\ \/ PartFull /\ \E ok \in BOOLEAN : BeginsPart(ok, m)
         \/ ~PartFull /\ LengthensPart(m)
  BY CopyMessageWrites
<1>2. n \in Nat /\ DOMAIN parts = 1..n /\ (parts # <<>> <=> n > 0) /\ DOMAIN parts' = 1..Len(parts')
  BY <1>1, PartsFacts DEF SplitInv
<1> HIDE DEF m
<1>3. \A i \in 1..Len(parts') : parts'[i].open
  BY <1>2 DEF AllPartsOpen
<1>4. ASSUME NEW ok \in BOOLEAN, BeginsPart(ok, m)
      PROVE  ok /\ \A i \in 1..n : parts[i].open
  <2>1. Len(parts') = n + 1 /\ n + 1 \in 1..(n + 1)
    BY <1>2, <1>4 DEF BeginsPart
  <2>2. ok
    BY <1>3, <1>4, <2>1 DEF BeginsPart
  <2>3. \A i \in 1..n : i \in 1..(n + 1) /\ parts'[i] = parts[i]
    BY <1>2, <1>4 DEF BeginsPart
  <2> QED
    BY <1>3, <2>1, <2>2, <2>3
<1>5. ASSUME LengthensPart(m)
      PROVE  \A i \in 1..n : parts[i].open
  <2> SUFFICES ASSUME NEW i \in 1..n PROVE parts[i].open
    OBVIOUS
  <2>1. parts'[i].open
    BY <1>3, <1>5 DEF LengthensPart
  <2>2. CASE i = n
    BY <1>5, <2>1, <2>2 DEF LengthensPart
  <2>3. CASE i # n
    BY <1>5, <2>1, <2>3 DEF LengthensPart
  <2> QED
    BY <2>2, <2>3
<1>6. ASSUME NEW ok \in BOOLEAN, BeginsPart(ok, m)
      PROVE  BeginsPart(TRUE, m)
  <2>1. ok = TRUE
    BY <1>4, <1>6
  <2> QED
    BY <1>6, <2>1
<1>7. CASE PartFull /\ \E ok \in BOOLEAN : BeginsPart(ok, m)
  BY <1>2, <1>4, <1>6, <1>7 DEF AllPartsOpen, m
<1>8. CASE ~PartFull /\ LengthensPart(m)
  <2>1. n > 0
    BY <1>2, <1>8, Zenon DEF LengthensPart
  <2>2. n \in 1..n
    BY <1>2, <2>1
  <2> QED
    BY <1>2, <1>5, <1>8, <2>2 DEF AllPartsOpen, m
<1> QED
  BY <1>1, <1>7, <1>8

LEMMA CopyMessageKeepsFile ==
    ASSUME SplitInv, CopyMessage
    PROVE  PartsAreTheFile'
<1> SUFFICES ASSUME AllPartsOpen'
             PROVE  FlattenSeq(Bodies') = SubSeq(Contents(source), 1, Copied + 1)
  BY CopyMessageCounts DEF PartsAreTheFile, Bodies, Copied
<1> DEFINE m == NextMessage
           n == Len(parts)
<1>1. /\ AllPartsOpen /\ m \in Message
      /\ BeginsPart(TRUE, m) \/ (LengthensPart(m) /\ parts[n].open)
  BY OpenPartsGrow, NextMessageFacts DEF SplitInv, CopyMessage
<1> HIDE DEF m
<1>2. FlattenSeq(Bodies) = SubSeq(Contents(source), 1, Copied)
  BY <1>1 DEF SplitInv, PartsAreTheFile, Bodies, Copied
<1>3. SubSeq(Contents(source), 1, Copied + 1) = Append(SubSeq(Contents(source), 1, Copied), m)
  BY CopyMessageCounts DEF m
<1>4. BodiesTyped /\ BodiesTyped'
  BY CopyMessageCounts, BodiesType, BodiesTypeNext DEF SplitInv
<1>5. n \in Nat /\ Len(Bodies) = n /\ (parts # <<>> => n > 0)
        /\ \A i \in 1..n : Bodies[i] = parts[i].messages
  BY <1>4, PartsFacts DEF BodiesTyped, SplitInv
<1>6. Bodies \in Seq(Seq(Message)) /\ Bodies' \in Seq(Seq(Message))
  BY <1>4 DEF BodiesTyped
<1>9. Len(Bodies') = Len(parts') /\ \A i \in 1..Len(parts') : Bodies'[i] = parts'[i].messages
  BY <1>4 DEF BodiesTyped
<1>7. CASE BeginsPart(TRUE, m)
  <2>1. /\ Len(parts') = n + 1 /\ parts'[n + 1].messages = <<m>>
        /\ \A i \in 1..n : parts'[i] = parts[i]
    BY <1>7 DEF BeginsPart
  <2>2. \A i \in 1..n : Bodies'[i] = Bodies[i]
    BY <1>5, <1>9, <2>1
  <2>3. Bodies'[n + 1] = <<m>> /\ Len(Bodies') = n + 1
    BY <1>5, <1>9, <2>1
  <2>4. <<m>> \in Seq(Message)
    BY <1>1
  <2>5. FlattenSeq(Bodies') = FlattenSeq(Bodies) \o <<m>>
    <3>1. PICK ss, tt, x : ss = Bodies /\ tt = Bodies' /\ x = <<m>>
      OBVIOUS
    <3>2. /\ ss \in Seq(Seq(Message)) /\ tt \in Seq(Seq(Message)) /\ x \in Seq(Message)
          /\ Len(tt) = Len(ss) + 1 /\ tt[Len(ss) + 1] = x
          /\ \A i \in 1..Len(ss) : tt[i] = ss[i]
      BY <1>5, <1>6, <2>2, <2>3, <2>4, <3>1
    <3>3. FlattenSeq(tt) = FlattenSeq(ss) \o x
      BY <3>2, FlattenNew
    <3> QED
      BY <3>1, <3>3
  <2>6. FlattenSeq(Bodies) \in Seq(Message)
    BY <1>6, FlattenFacts
  <2>7. \A v \in Seq(Message) : v \o <<m>> = Append(v, m)
    BY <1>1
  <2> QED
    BY <1>2, <1>3, <2>5, <2>6, <2>7
<1>8. CASE LengthensPart(m) /\ parts[n].open
  <2>1. /\ Len(parts') = n /\ n > 0 /\ parts'[n].messages = Append(parts[n].messages, m)
        /\ \A i \in 1..n : i # n => parts'[i] = parts[i]
    BY <1>5, <1>8, Zenon DEF LengthensPart
  <2>2. n \in 1..n
    BY <1>5, <2>1
  <2>3. \A i \in 1..n : i # n => Bodies'[i] = Bodies[i]
    BY <1>5, <1>9, <2>1
  <2>4. Bodies'[n] = Append(Bodies[n], m)
    BY <1>5, <1>9, <2>1, <2>2
  <2>5. OnlyLastDiffers(Bodies, Bodies', n)
    BY <1>5, <1>9, <2>1, <2>3 DEF OnlyLastDiffers
  <2>6. FlattenSeq(Bodies') = Append(FlattenSeq(Bodies), m)
    BY <1>1, <1>5, <1>6, <2>4, <2>5, FlattenLonger
  <2> QED
    BY <1>2, <1>3, <2>6
<1> QED
  BY <1>1, <1>7, <1>8

(* A part is full when the counter is at a multiple of the limit.          *)
LEMMA FullByMessages ==
    ASSUME NEW size \in Nat \ {0}, NEW q \in Int, NEW k \in 1..size
    PROVE  (size * q + k) % size = 0 <=> k = size
<1>1. CASE k = size
  <2>1. size * q + k = size * (q + 1) + 0
    BY <1>1
  <2> QED
    BY <1>1, <2>1, RemainderUnique
<1>2. CASE k # size
  <2>1. k \in 0..(size - 1)
    BY <1>2
  <2> QED
    BY <1>2, <2>1, RemainderUnique
<1> QED
  BY <1>1, <1>2

LEMMA LastPartFacts ==
    ASSUME SplitInv, AllPartsOpen, parts # <<>>
    PROVE  /\ Len(parts) \in DOMAIN parts
           /\ parts[Len(parts)].messages \in Seq(Message)
           /\ Len(parts[Len(parts)].messages) \in Nat \ {0}
<1>1. Len(parts) \in Nat /\ Len(parts) > 0 /\ DOMAIN parts = 1..Len(parts)
  BY PartsFacts DEF SplitInv
<1>2. Len(parts) \in DOMAIN parts
  BY <1>1
<1>3. PICK last : last = parts[Len(parts)].messages
  OBVIOUS
<1>4. last \in Seq(Message) /\ last # <<>>
  BY <1>2, <1>3, PartsFacts DEF SplitInv, PartsBegun, AllPartsOpen
<1>5. Len(last) \in Nat \ {0}
  BY <1>4
<1> QED
  BY <1>2, <1>3, <1>4, <1>5

LEMMA LimitFacts ==
    ASSUME SplitInv
    PROVE  limits.size \in Nat \ {0} /\ limits.by \in {"messages", "size"}
  BY DEF SplitInv, SplitType, Limits

LEMMA CountedFacts ==
    ASSUME NEW m \in Message
    PROVE  /\ Counted(<<m>>) = FileHeader
           /\ \A s \in Seq(Message) : s # <<>> =>
                /\ Counted(Append(s, m)) = Counted(s) + SizeOf(m)
                /\ Counted(s) \in Int
                /\ Append(s, m)[1] = s[1]
<1>1. SizeOf(m) \in Nat /\ FileHeader \in Nat /\ <<m>>[1] = m
  BY SizeOfType, FileHeaderAssumption
<1>2. Counted(<<m>>) = FileHeader
  BY <1>1, FileSizeOne DEF Counted
<1>3. ASSUME NEW s \in Seq(Message), s # <<>>
      PROVE  /\ Counted(Append(s, m)) = Counted(s) + SizeOf(m)
             /\ Counted(s) \in Int
             /\ Append(s, m)[1] = s[1]
  <2>1. s[1] \in Message /\ Append(s, m)[1] = s[1]
    BY <1>3
  <2>2. SizeOf(s[1]) \in Nat
    BY <2>1, SizeOfType
  <2>3. FileSize(s) \in Nat /\ FileSize(Append(s, m)) = FileSize(s) + SizeOf(m)
    BY FileSizeAppend
  <2> QED
    BY <1>1, <2>1, <2>2, <2>3 DEF Counted
<1> QED
  BY <1>2, <1>3

(* When a part is ended it is full.                                        *)
LEMMA LastPartFull ==
    ASSUME SplitInv, AllPartsOpen, parts # <<>>, PartFull
    PROVE  FullBefore(parts[Len(parts)].messages, NextMessage)
<1> DEFINE last == parts[Len(parts)].messages
<1>1. limits.size \in Nat \ {0} /\ Len(last) \in Nat \ {0}
  BY LimitFacts, LastPartFacts
<1>2. CASE limits.by = "messages"
  <2>1. counter % limits.size = 0
    BY <1>2 DEF PartFull
  <2>2. PICK q \in Int : counter = limits.size * q + Len(last) /\ Len(last) <= limits.size
    BY <1>2 DEF SplitInv, LastPartCounted
  <2>3. Len(last) \in 1..limits.size
    BY <1>1, <2>2
  <2> HIDE DEF last
  <2>4. Len(last) = limits.size
    BY <1>1, <2>1, <2>2, <2>3, FullByMessages
  <2> QED
    BY <1>2, <2>4 DEF FullBefore, last
<1>3. CASE limits.by # "messages"
  <2>1. splitFileSize + SizeOf(NextMessage) > limits.size
    BY <1>3 DEF PartFull
  <2>2. splitFileSize = Counted(last) /\ (Len(last) > 1 => splitFileSize <= limits.size)
    BY <1>3 DEF SplitInv, LastPartCounted
  <2> QED
    BY <1>3, <2>1, <2>2 DEF FullBefore
<1> QED
  BY <1>2, <1>3

LEMMA CopyMessageCountsLast ==
    ASSUME SplitInv, CopyMessage
    PROVE  LastPartCounted'
<1> DEFINE m == NextMessage
           n == Len(parts)
           last == parts[n].messages
           size == limits.size
<1>1. /\ limits' = limits /\ size \in Nat \ {0} /\ m \in Message
      /\ counter \in Nat /\ splitFileSize \in Nat /\ n \in Nat
      /\ counter' = counter + IF limits.by = "messages" \/ limits.prog THEN 1 ELSE 0
      /\ splitFileSize' = IF limits.by = "messages" THEN splitFileSize
                          ELSE IF PartFull THEN FileHeader
                          ELSE splitFileSize + SizeOf(m)
  BY LimitFacts, NextMessageFacts, PartsFacts DEF SplitInv, SplitType, CopyMessage
<1> SUFFICES ASSUME AllPartsOpen'
             PROVE  LET new == parts'[Len(parts')].messages IN
                    IF limits.by = "messages"
                      THEN /\ Len(new) <= size
                           /\ \E q \in Int : counter' = size * q + Len(new)
                      ELSE /\ splitFileSize' = Counted(new)
                           /\ Len(new) > 1 => splitFileSize' <= size
  BY <1>1 DEF LastPartCounted, Counted
<1>2. /\ AllPartsOpen
      /\ \/ PartFull /\ BeginsPart(TRUE, m)
         \/ ~PartFull /\ LengthensPart(m)
  BY OpenPartsGrow
<1> HIDE DEF m
<1>3. CASE PartFull /\ BeginsPart(TRUE, m)
  <2>1. parts'[Len(parts')].messages = <<m>> /\ Len(<<m>>) = 1
    BY <1>3 DEF BeginsPart
  <2>2. CASE limits.by = "messages"
    <3>1. counter % size = 0 /\ counter' = counter + 1
      BY <1>1, <1>3, <2>2 DEF PartFull
    <3>2. PICK q \in Int : counter = size * q
      <4>1. size \in Nat \ {0} /\ counter \in Int /\ counter % size = 0
        BY <1>1, <3>1
      <4> HIDE DEF size
      <4> QED
        BY <4>1, NoRemainder
    <3>3. size * q \in Int /\ 1 <= size
      BY <1>1
    <3>4. counter' = size * q + 1
      BY <3>1, <3>2
    <3> QED
      BY <2>1, <2>2, <3>3, <3>4
  <2>3. CASE limits.by # "messages"
    <3>1. splitFileSize' = Counted(<<m>>)
      BY <1>1, <1>3, <2>3, CountedFacts
    <3> QED
      BY <2>1, <2>3, <3>1
  <2> QED
    BY <2>2, <2>3
<1>4. CASE ~PartFull /\ LengthensPart(m)
  <2>1. parts # <<>>
    BY <1>4 DEF LengthensPart
  <2>2. last \in Seq(Message) /\ Len(last) \in Nat \ {0} /\ parts[n].open
    BY <1>2, <2>1, LastPartFacts DEF AllPartsOpen
  <2>3. parts'[Len(parts')].messages = Append(last, m)
    BY <1>4, <2>2 DEF LengthensPart
  <2> HIDE DEF last
  <2>4. Len(Append(last, m)) = Len(last) + 1 /\ last # <<>>
    BY <1>1, <2>2
  <2>5. CASE limits.by = "messages"
    <3>1. counter % size # 0 /\ counter' = counter + 1
      BY <1>1, <1>4, <2>5 DEF PartFull
    <3>2. PICK q \in Int : counter = size * q + Len(last) /\ Len(last) <= size
      BY <1>2, <2>1, <2>5 DEF SplitInv, LastPartCounted, last
    <3>3. Len(last) \in 1..size
      BY <1>1, <2>2, <3>2
    <3>4. Len(last) # size
      BY <1>1, <3>1, <3>2, <3>3, FullByMessages
    <3>5. size * q \in Int
      BY <1>1
    <3>6. Len(last) + 1 <= size /\ counter' = size * q + (Len(last) + 1)
      BY <1>1, <2>2, <3>1, <3>2, <3>3, <3>4, <3>5
    <3> QED
      BY <2>3, <2>4, <2>5, <3>6
  <2>6. CASE limits.by # "messages"
    <3>1. splitFileSize = Counted(last)
      BY <1>2, <2>1, <2>6 DEF SplitInv, LastPartCounted, last
    <3>2. splitFileSize' = splitFileSize + SizeOf(m) /\ SizeOf(m) \in Nat
      BY <1>1, <1>4, <2>6, SizeOfType
    <3>3. splitFileSize + SizeOf(m) <= size
      BY <1>1, <1>4, <2>6, <3>2 DEF PartFull, m
    <3>4. splitFileSize' = Counted(Append(last, m))
      BY <1>1, <2>2, <2>4, <3>1, <3>2, CountedFacts
    <3> QED
      BY <2>3, <2>6, <3>2, <3>3, <3>4
  <2> QED
    BY <2>5, <2>6
<1> QED
  BY <1>2, <1>3, <1>4

LEMMA CopyMessageKeepsFull ==
    ASSUME SplitInv, CopyMessage
    PROVE  OthersAreFull'
<1> DEFINE m == NextMessage
           n == Len(parts)
           last == parts[n].messages
<1>1. /\ limits' = limits /\ m \in Message /\ n \in Nat
      /\ DOMAIN parts = 1..n /\ (parts # <<>> => n > 0)
      /\ parts' \in Seq(Part) /\ DOMAIN parts' = 1..Len(parts')
  BY NextMessageFacts, PartsFacts, CopyMessageWrites DEF SplitInv, CopyMessage
<1> SUFFICES ASSUME AllPartsOpen', NEW i \in 1..Len(parts'), i # Len(parts')
             PROVE  FullBefore(parts'[i].messages, parts'[i + 1].messages[1])
  BY <1>1 DEF OthersAreFull, FullBefore, Counted
<1>2. /\ AllPartsOpen
      /\ \/ PartFull /\ BeginsPart(TRUE, m)
         \/ ~PartFull /\ LengthensPart(m)
  BY OpenPartsGrow
<1> HIDE DEF m
<1>3. \A k \in 1..n : k # n => FullBefore(parts[k].messages, parts[k + 1].messages[1])
  BY <1>1, <1>2 DEF SplitInv, OthersAreFull
<1>6. n \in Nat /\ i \in Nat /\ i >= 1 /\ i <= Len(parts') /\ (n > 0 => parts # <<>>)
  <2>1. Len(parts') \in Nat
    <3>1. parts' \in Seq(Part)
      BY CopyMessageWrites
    <3> QED
      BY <3>1
  <2>2. n \in Nat /\ (n > 0 => parts # <<>>)
    BY PartsFacts DEF SplitInv
  <2> QED
    BY <2>1, <2>2
<1>4. CASE PartFull /\ BeginsPart(TRUE, m)
  <2>1. /\ Len(parts') = n + 1 /\ parts'[n + 1].messages = <<m>>
        /\ \A k \in 1..n : parts'[k] = parts[k]
    BY <1>4 DEF BeginsPart
  <2>2. CASE i = n
    <3>1. FullBefore(last, m)
      <4>1. parts # <<>>
        BY <1>6, <2>2
      <4> QED
        BY <1>2, <1>4, <4>1, LastPartFull DEF m
    <3>2. n \in 1..n
      BY <1>6, <2>2
    <3>3. parts'[n] = parts[n] /\ <<m>>[1] = m
      BY <2>1, <3>2
    <3> QED
      BY <2>1, <2>2, <3>1, <3>3
  <2>3. CASE i # n
    <3>1. i \in 1..n /\ i + 1 \in 1..n
      BY <1>6, <2>1, <2>3
    <3> QED
      BY <1>3, <2>1, <2>3, <3>1
  <2> QED
    BY <2>2, <2>3
<1>5. CASE ~PartFull /\ LengthensPart(m)
  <2>1. parts # <<>> /\ n > 0
    BY <1>1, <1>5, Zenon DEF LengthensPart
  <2>2. last \in Seq(Message) /\ last # <<>> /\ parts[n].open
    <3>1. last \in Seq(Message) /\ Len(last) \in Nat \ {0} /\ parts[n].open
      BY <1>2, <2>1, LastPartFacts DEF AllPartsOpen
    <3> HIDE DEF last
    <3> QED
      BY <3>1
  <2>3. parts'[n].messages = Append(last, m) /\ Len(parts') = n
    BY <1>5, <2>2 DEF LengthensPart
  <2>4. \A k \in 1..n : k # n => parts'[k] = parts[k]
    BY <1>5 DEF LengthensPart
  <2>5. parts'[n].messages[1] = parts[n].messages[1]
    <3> HIDE DEF last
    <3>1. Append(last, m)[1] = last[1]
      BY <1>1, <2>2, CountedFacts
    <3> QED
      BY <2>3, <3>1 DEF last
  <2>6. i \in 1..n /\ i + 1 \in 1..n /\ i # n
    BY <1>6, <2>3
  <2>7. parts'[i + 1].messages[1] = parts[i + 1].messages[1]
    BY <2>4, <2>5, <2>6
  <2> QED
    BY <1>3, <2>4, <2>6, <2>7
<1> QED
  BY <1>2, <1>4, <1>5

LEMMA CopyMessageInv ==
    ASSUME SplitInv, CopyMessage
    PROVE  SplitInv'
  BY CopyMessageCounts, CopyMessageBegun, CopyMessageKeepsFile, CopyMessageCountsLast,
     CopyMessageKeepsFull DEF SplitInv

(* The callback stops the loop with a message in hand, which is not        *)
(* written: all that was copied is still what is in the parts.             *)
LEMMA StopSplitInv ==
    ASSUME SplitInv, StopSplit
    PROVE  SplitInv'
<1>1. /\ Reading /\ ~splitStopped /\ splitStopped' = TRUE /\ done' = done + 1
      /\ counter' = counter + (IF limits.by = "size" THEN 1 ELSE 0)
      /\ source' = source /\ limits' = limits
      /\ splitFileSize' = splitFileSize /\ parts' = parts
  BY DEF StopSplit
<1>2. done \in Nat /\ done + 1 \in 1..Len(Contents(source)) /\ Copied = done
  BY <1>1, NextMessageFacts DEF SplitInv, SplitType
<1>3. Copied' = Copied
  BY <1>1, <1>2 DEF Copied
<1>4. counter \in Nat /\ counter' \in Nat /\ (limits.by = "messages" => counter' = counter)
  BY <1>1 DEF SplitInv, SplitType
<1>5. SplitType'
  BY <1>1, <1>2, <1>3, <1>4 DEF SplitInv, SplitType
<1>6. PartsBegun' /\ OthersAreFull'
  BY <1>1, <1>3 DEF SplitInv, PartsBegun, OthersAreFull, AllPartsOpen, FullBefore, Counted
<1>7. PartsAreTheFile'
  BY <1>1, <1>3 DEF SplitInv, PartsAreTheFile, AllPartsOpen, Copied
<1>8. LastPartCounted'
  <2>1. limits.by = "messages" \/ limits.by = "size"
    BY LimitFacts
  <2> QED
    BY <1>1, <1>4, <2>1 DEF SplitInv, LastPartCounted, AllPartsOpen, Counted
<1> QED
  BY <1>5, <1>6, <1>7, <1>8 DEF SplitInv

LEMMA SplitStepInv ==
    ASSUME SplitInv, CopyMessage \/ StopSplit \/ UNCHANGED splitVars
    PROVE  SplitInv'
<1>1. ASSUME UNCHANGED splitVars PROVE SplitInv'
  BY <1>1 DEF splitVars, SplitInv, SplitType, PartsBegun, PartsAreTheFile, LastPartCounted,
     OthersAreFull, AllPartsOpen, FullBefore, Counted, Copied
<1> QED
  BY <1>1, CopyMessageInv, StopSplitInv

(* Nothing is copied yet.                                                  *)
LEMMA SplitInvInit ==
    ASSUME SplitInit(Sources, Bounds)
           \/ SplitInit({Closed(<<>>)}, {[by |-> "messages", size |-> 1, prog |-> FALSE]})
    PROVE  SplitInv
<1>1. Closed(<<>>) \in Recording
  BY EmptySeq DEF Closed, Recording
<1>2. [by |-> "messages", size |-> 1, prog |-> FALSE] \in Limits
  BY DEF Limits
<1>3. source \in Recording /\ limits \in Limits
  BY <1>1, <1>2, SourcesAssumption DEF SplitInit
<1>4. done = 0 /\ counter = 0 /\ splitFileSize = FileHeader /\ parts = <<>> /\ splitStopped = FALSE
  BY DEF SplitInit
<1>5. Contents(source) \in Seq(Message) /\ Len(Contents(source)) \in Nat
  BY <1>3, ContentsType
<1>6. SplitType
  <2>1. Copied = 0 /\ done <= Len(Contents(source)) /\ <<>> \in Seq(Part)
    BY <1>4, <1>5, EmptySeq DEF Copied
  <2> QED
    BY <1>3, <1>4, <2>1, FileHeaderAssumption DEF SplitType
<1>7. PartsBegun /\ LastPartCounted /\ OthersAreFull
  BY <1>4 DEF PartsBegun, LastPartCounted, OthersAreFull, Copied
<1>8. PartsAreTheFile
  <2>1. [i \in DOMAIN parts |-> parts[i].messages] = <<>>
    BY <1>4
  <2>2. SubSeq(Contents(source), 1, 0) = <<>>
    BY <1>5, SubSeqEmpty
  <2>3. FlattenSeq(<<>>) = <<>>
    BY FlattenFacts
  <2> QED
    BY <1>4, <2>1, <2>2, <2>3 DEF PartsAreTheFile
<1> QED
  BY <1>6, <1>7, <1>8 DEF SplitInv

LEMMA SplitInvFull ==
    ASSUME SplitInv
    PROVE  PartsAreFull
<1> SUFFICES ASSUME AllPartsOpen, NEW i \in DOMAIN parts,
                    NEW messages, messages = parts[i].messages
             PROVE  IF limits.by = "messages"
                      THEN /\ Len(messages) <= limits.size
                           /\ i < Len(parts) => Len(messages) = limits.size
                      ELSE /\ Len(messages) > 1 =>
                                FileSize(messages) <= limits.size + SizeOf(messages[1])
                           /\ i < Len(parts) =>
                                FileSize(messages) + SizeOf(parts[i + 1].messages[1]) > limits.size
  BY DEF PartsAreFull
<1>1. /\ Len(parts) \in Nat /\ i \in 1..Len(parts) /\ parts # <<>> /\ limits.size \in Nat
      /\ messages \in Seq(Message) /\ messages # <<>>
  BY PartsFacts, LimitFacts DEF SplitInv, PartsBegun, AllPartsOpen
<1>2. /\ Counted(messages) = FileSize(messages) - SizeOf(messages[1])
      /\ FileSize(messages) \in Nat /\ SizeOf(messages[1]) \in Nat
  <2>1. messages[1] \in Message
    BY <1>1
  <2> QED
    BY <1>1, <2>1, FileSizeAppend, SizeOfType DEF Counted
<1>3. IF limits.by = "messages"
        THEN /\ Len(messages) <= limits.size
             /\ i < Len(parts) => Len(messages) = limits.size
        ELSE /\ Len(messages) > 1 => Counted(messages) <= limits.size
             /\ i < Len(parts) => Counted(messages) + SizeOf(parts[i + 1].messages[1]) > limits.size
  <2>1. CASE i = Len(parts)
    BY <1>1, <2>1 DEF SplitInv, LastPartCounted
  <2>2. CASE i # Len(parts)
    BY <1>1, <2>2 DEF SplitInv, OthersAreFull, FullBefore
  <2> QED
    BY <2>1, <2>2
<1>4. i < Len(parts) => SizeOf(parts[i + 1].messages[1]) \in Nat
  <2> SUFFICES ASSUME i < Len(parts) PROVE SizeOf(parts[i + 1].messages[1]) \in Nat
    OBVIOUS
  <2>1. i + 1 \in 1..Len(parts)
    BY <1>1
  <2>2. parts[i + 1].messages \in Seq(Message) /\ parts[i + 1].messages # <<>>
    BY <2>1, PartsFacts DEF SplitInv, PartsBegun, AllPartsOpen
  <2>3. parts[i + 1].messages[1] \in Message
    BY <2>2
  <2> QED
    BY <2>3, SizeOfType
<1>5. CASE limits.by = "messages"
  BY <1>3, <1>5
<1>6. CASE limits.by # "messages"
  <2>1. Len(messages) > 1 => FileSize(messages) <= limits.size + SizeOf(messages[1])
    BY <1>1, <1>2, <1>3, <1>6
  <2>2. i < Len(parts) => FileSize(messages) + SizeOf(parts[i + 1].messages[1]) > limits.size
    BY <1>1, <1>2, <1>3, <1>4, <1>6
  <2> QED
    BY <1>6, <2>1, <2>2
<1> QED
  BY <1>5, <1>6

-------------------------------------------------------------------------------
(* The two operations together.  A step of the process is a step of the    *)
(* split or leaves it alone, and a step of the merge or leaves it alone.   *)
LEMMA StepOfSplit ==
    ASSUME FilesNext
    PROVE  CopyMessage \/ StopSplit \/ UNCHANGED splitVars
  BY DEF FilesNext, SplitStep, SplitAbort, EndSplit, ConcatenateParts, ConcatenateDirectory,
     Concatenate, OpenNextFile, CopyMerged, StopConcatenate, EndOfMerge, LeaveConcatenate

LEMMA PartFilesType ==
    ASSUME SplitType
    PROVE  PartFiles \in Seq(Recording)
<1> DEFINE files == Selected(parts, {p \in Part : p.open})
<1>1. files \in Seq(Part)
  BY SelectedFacts DEF SplitType
<1> HIDE DEF files
<1>2. \A i \in 1..Len(files) : files[i].messages \in Seq(Message)
  <2>1. \A i \in 1..Len(files) : files[i] \in Part
    BY <1>1
  <2>2. \A p \in Part : p.messages \in Seq(Message)
    BY DEF Part
  <2> QED
    BY <2>1, <2>2
<1>3. \A s \in Seq(Message) : Closed(s) \in Recording
  <2> TAKE s \in Seq(Message)
  <2> DEFINE r == IF Len(s) > 0 /\ s[Len(s)].payload > 0 THEN Len(s) ELSE Len(s) + 1
  <2>1. Len(s) \in Nat /\ r \in Nat \ {0} /\ r <= Len(s) + 1
    OBVIOUS
  <2>2. Closed(s) = [opens |-> TRUE, messages |-> s, rejects |-> r]
    BY DEF Closed
  <2> HIDE DEF r
  <2> QED
    BY <2>1, <2>2 DEF Recording
<1>4. PartFiles = [i \in 1..Len(files) |-> Closed(files[i].messages)] /\ Len(files) \in Nat
  BY <1>1 DEF PartFiles, files
<1>5. PartFiles \in [1..Len(files) -> Recording]
  BY <1>2, <1>3, <1>4
<1> QED
  BY <1>4, <1>5, SeqDef

LEMMA StepOfMerge ==
    ASSUME SplitInv, FilesNext
    PROVE  \/ \E files \in Seq(Recording) : Constructing(files)
           \/ OpenNext
           \/ \E k \in DOMAIN inputs : ReadMerged(k)
           \/ DeleteReadList
           \/ UNCHANGED mergeVars
<1>1. ASSUME ConcatenateParts
      PROVE  \E files \in Seq(Recording) : Constructing(files)
  BY <1>1, PartFilesType DEF ConcatenateParts, Concatenate, SplitInv
<1>2. ASSUME ConcatenateDirectory
      PROVE  \E files \in Seq(Recording) : Constructing(files)
  BY <1>2, DirectoriesAssumption DEF ConcatenateDirectory, Concatenate
<1>3. CASE ConcatenateParts \/ ConcatenateDirectory
  BY <1>1, <1>2, <1>3
<1>4. CASE SplitStep \/ SplitAbort \/ EndSplit \/ EndOfMerge
  BY <1>4 DEF SplitStep, SplitAbort, EndSplit, EndOfMerge
<1>5. CASE OpenNextFile
  BY <1>5 DEF OpenNextFile
<1>6. CASE \E k \in DOMAIN inputs : CopyMerged(k) \/ StopConcatenate(k)
  BY <1>6 DEF CopyMerged, StopConcatenate
<1>7. CASE LeaveConcatenate
  BY <1>7 DEF LeaveConcatenate
<1> QED
  BY <1>3, <1>4, <1>5, <1>6, <1>7 DEF FilesNext

LEMMA MergeStepInv ==
    ASSUME MergeInv, SplitInv, FilesNext
    PROVE  MergeInv'
<1>1. CASE \E files \in Seq(Recording) : Constructing(files)
  BY <1>1, ConstructingInv
<1>2. CASE OpenNext
  BY <1>2, OpenNextInv
<1>3. CASE \E k \in DOMAIN inputs : ReadMerged(k)
  BY <1>3, ReadMergedInv
<1>4. CASE DeleteReadList \/ UNCHANGED mergeVars
  BY <1>4 DEF DeleteReadList, mergeVars, MergeInv, QueueCorrect
<1> QED
  BY <1>1, <1>2, <1>3, <1>4, StepOfMerge

-------------------------------------------------------------------------------
(* Where the process is, and what that says of the two objects.            *)
Before == task \in {"split", "splitted", "idle"}

After == task \in {"leaving", "gone", "done", "crashed"}

TaskInv ==
    /\ Before \/ task = "concatenate" \/ After
    /\ Before => inputs = <<>> /\ opened = 0 /\ readList = {} /\ output = <<>>
    /\ Before \/ task = "concatenate" => concatStopped = FALSE
    /\ After => Ready
    /\ ~Ended => answer = FALSE

LEMMA TaskInvStep ==
    ASSUME TaskInv, FilesNext
    PROVE  TaskInv'
<1> USE DEF Before, After, Ended, TaskInv
<1>1. CASE SplitStep \/ SplitAbort \/ EndSplit
  BY <1>1 DEF SplitStep, SplitAbort, EndSplit, mergeVars, concatVars, Ready
<1>2. CASE ConcatenateParts
  BY <1>2 DEF ConcatenateParts, Concatenate
<1>3. CASE ConcatenateDirectory
  BY <1>3 DEF ConcatenateDirectory, Concatenate
<1>4. CASE OpenNextFile
  BY <1>4 DEF OpenNextFile, concatVars
<1>5. CASE \E k \in DOMAIN inputs : CopyMerged(k)
  BY <1>5 DEF CopyMerged
<1>6. CASE \E k \in DOMAIN inputs : StopConcatenate(k)
  BY <1>6 DEF StopConcatenate, ReadMerged, Ready
<1>7. CASE EndOfMerge
  BY <1>7 DEF EndOfMerge, mergeVars, concatVars, Ready
<1>8. CASE LeaveConcatenate
  BY <1>8 DEF LeaveConcatenate, DeleteReadList, Ready
<1> QED
  BY <1>1, <1>2, <1>3, <1>4, <1>5, <1>6, <1>7, <1>8 DEF FilesNext

-------------------------------------------------------------------------------
(* The readers.  One is in IOReadList as soon as its file was opened and   *)
(* its first message read, and in the queue until an unreadable file is    *)
(* met; it was deleted once by the constructor if one was.                 *)
Found(k) == ReadAt(inputs[k], 0) = "eSuccess"

Lost(k) == \E j \in k..opened : ~inputs[j].opens

ByConstructor(k) ==
    IF k > opened THEN 0
    ELSE IF k \in readList THEN (IF Lost(k) THEN 1 ELSE 0)
    ELSE 1

ByDestructor(k) == IF Ended /\ k \in readList THEN 1 ELSE 0

ReadersInv ==
    /\ readList = {k \in 1..opened : Found(k)}
    /\ deleted = [k \in DOMAIN inputs |-> ByConstructor(k) + ByDestructor(k)]
    /\ queue \subseteq readList
    /\ opened < Len(inputs) => \A k \in readList : Lost(k) \/ k \in queue

LEMMA OpenNextFileReaders ==
    ASSUME MergeInv, ReadersInv, OpenNextFile
    PROVE  ReadersInv'
<1>0. PICK k : k = opened + 1
  OBVIOUS
<1>1. /\ k = opened + 1 /\ k \in DOMAIN inputs /\ inputs' = inputs /\ opened' = k
      /\ DOMAIN inputs = 1..Len(inputs) /\ Len(inputs) \in Nat /\ opened \in 0..Len(inputs)
      /\ inputs[k] \in Recording /\ opened < Len(inputs)
  BY <1>0, InputFacts DEF OpenNextFile, OpenNext, MergeInv
<1>2. task = "concatenate" /\ task' = task
  BY DEF OpenNextFile
<1>3. \A q \in DOMAIN inputs : ByDestructor(q) = 0 /\ ByDestructor(q)' = 0
  BY <1>2 DEF ByDestructor, Ended
<1>4. \A q \in 1..opened : Found(q)' = Found(q) /\ q \in DOMAIN inputs /\ q # k
  BY <1>1 DEF Found
<1>5. \A q \in 1..opened : Lost(q)' <=> Lost(q) \/ ~inputs[k].opens
  BY <1>1 DEF Lost
<1>6. Lost(k)' <=> ~inputs[k].opens
  BY <1>1 DEF Lost
<1>7. /\ readList = {q \in 1..opened : Found(q)}
      /\ deleted = [q \in DOMAIN inputs |-> ByConstructor(q)]
      /\ queue \subseteq readList
      /\ \A q \in readList : Lost(q) \/ q \in queue
      /\ ByConstructor(k) = 0
  <2>1. \A q \in DOMAIN inputs : ByConstructor(q) + 0 = ByConstructor(q)
    BY DEF ByConstructor
  <2> QED
    BY <1>1, <1>3, <2>1 DEF ReadersInv, ByConstructor
<1>8. \A q \in queue : ~Lost(q)
  BY <1>1 DEF MergeInv, QueueCorrect, Lost
<1>9. CASE OpenSuccess(k)
  <2>1. /\ Found(k)' /\ inputs[k].opens
        /\ readList' = readList \cup {k} /\ queue' = queue \cup {k} /\ deleted' = deleted
    BY <1>1, <1>9, ReadFacts DEF OpenSuccess, Found
  <2>2. readList' = {q \in 1..k : Found(q)'}
    BY <1>1, <1>4, <1>7, <2>1
  <2>3. \A q \in DOMAIN inputs : ByConstructor(q)' = ByConstructor(q)
    BY <1>1, <1>5, <1>6, <1>7, <2>1 DEF ByConstructor
  <2>4. \A q \in readList' : Lost(q)' \/ q \in queue'
    BY <1>5, <1>7, <2>1
  <2>5. \A q \in DOMAIN inputs : ByConstructor(q)' + ByDestructor(q)' = ByConstructor(q)
    BY <1>3, <2>3 DEF ByConstructor
  <2> QED
    BY <1>1, <1>7, <2>1, <2>2, <2>4, <2>5 DEF ReadersInv
<1>10. CASE OpenRejected(k)
  <2>1. /\ ~Found(k)' /\ inputs[k].opens /\ readList' = readList /\ queue' = queue /\ Delete({k})
    BY <1>1, <1>10, ReadFacts DEF OpenRejected, Found
  <2>2. readList' = {q \in 1..k : Found(q)'}
    BY <1>1, <1>4, <1>7, <2>1
  <2>3. \A q \in DOMAIN inputs :
            ByConstructor(q)' = ByConstructor(q) + IF q \in {k} THEN 1 ELSE 0
    BY <1>1, <1>5, <1>7, <2>1 DEF ByConstructor
  <2>4. \A q \in readList' : Lost(q)' \/ q \in queue'
    BY <1>5, <1>7, <2>1
  <2>5. \A q \in DOMAIN inputs :
            ByConstructor(q)' + ByDestructor(q)' = deleted[q] + IF q \in {k} THEN 1 ELSE 0
    BY <1>3, <1>7, <2>3 DEF ByConstructor
  <2> QED
    BY <1>1, <1>7, <2>1, <2>2, <2>4, <2>5 DEF ReadersInv, Delete
<1>11. CASE OpenError(k)
  <2>1. /\ ~Found(k)' /\ ~inputs[k].opens /\ readList' = readList /\ queue' = {}
        /\ Delete(queue \cup {k})
    BY <1>1, <1>11, ReadFacts DEF OpenError, Found
  <2>2. readList' = {q \in 1..k : Found(q)'}
    BY <1>1, <1>4, <1>7, <2>1
  <2>3. \A q \in DOMAIN inputs :
            ByConstructor(q)' = ByConstructor(q) + IF q \in queue \cup {k} THEN 1 ELSE 0
    <3> TAKE q \in DOMAIN inputs
    <3>1. CASE q \in 1..opened
      BY <1>1, <1>4, <1>5, <1>7, <1>8, <2>1, <3>1 DEF ByConstructor
    <3>2. CASE q \notin 1..opened
      BY <1>1, <1>7, <2>1, <3>2 DEF ByConstructor
    <3> QED
      BY <3>1, <3>2
  <2>4. \A q \in readList' : Lost(q)' \/ q \in queue'
    BY <1>5, <1>7, <2>1
  <2>5. \A q \in DOMAIN inputs :
            ByConstructor(q)' + ByDestructor(q)'
                = deleted[q] + IF q \in queue \cup {k} THEN 1 ELSE 0
    BY <1>3, <1>7, <2>3 DEF ByConstructor
  <2> QED
    BY <1>1, <1>7, <2>1, <2>2, <2>4, <2>5 DEF ReadersInv, Delete
<1> QED
  BY <1>0, <1>9, <1>10, <1>11 DEF OpenNextFile, OpenNext

LEMMA ReadersInvStep ==
    ASSUME MergeInv, SplitInv, TaskInv, ReadersInv, FilesNext
    PROVE  ReadersInv'
<1>1. ASSUME NEW d \in Seq(Recording), Constructing(d), task' = "concatenate" PROVE ReadersInv'
  <2>1. /\ inputs' = d /\ opened' = 0 /\ readList' = {} /\ queue' = {}
        /\ deleted' = [k \in DOMAIN d |-> 0] /\ ~Ended'
    BY <1>1 DEF Constructing, NoReaders, Ended
  <2>2. \A k \in DOMAIN d : ByConstructor(k)' + ByDestructor(k)' = 0
    <3>1. \A k \in DOMAIN d : k > 0
      BY <1>1
    <3> QED
      BY <2>1, <3>1 DEF ByConstructor, ByDestructor
  <2> QED
    BY <2>1, <2>2 DEF ReadersInv
<1>2. CASE ConcatenateParts \/ ConcatenateDirectory
  <2>1. PICK d \in Seq(Recording) : Constructing(d) /\ task' = "concatenate"
    BY <1>2, PartFilesType, DirectoriesAssumption
       DEF ConcatenateParts, ConcatenateDirectory, Concatenate, SplitInv
  <2> QED
    BY <1>1, <2>1
<1>3. CASE OpenNextFile
  BY <1>3, OpenNextFileReaders
<1>4. ASSUME inputs' = inputs, opened' = opened, readList' = readList, deleted' = deleted,
             queue' \subseteq queue, queue' = queue \/ Ready, Ended' = Ended
      PROVE  ReadersInv'
  <2>1. /\ \A k : Found(k)' = Found(k) /\ Lost(k)' = Lost(k)
        /\ \A k : ByConstructor(k)' = ByConstructor(k) /\ ByDestructor(k)' = ByDestructor(k)
    BY <1>4 DEF Found, Lost, ByConstructor, ByDestructor
  <2>2. Ready => ~(opened < Len(inputs))
    BY InputFacts DEF Ready
  <2> QED
    BY <1>4, <2>1, <2>2 DEF ReadersInv
<1>5. CASE SplitStep \/ SplitAbort \/ EndSplit \/ EndOfMerge
  BY <1>4, <1>5 DEF SplitStep, SplitAbort, EndSplit, EndOfMerge, mergeVars, Ended
<1>6. CASE \E k \in DOMAIN inputs : CopyMerged(k) \/ StopConcatenate(k)
  <2>1. PICK k \in DOMAIN inputs : CopyMerged(k) \/ StopConcatenate(k)
    BY <1>6
  <2>2. ReadMerged(k) /\ Ended' = Ended
    BY <2>1 DEF CopyMerged, StopConcatenate, Ended
  <2> QED
    BY <1>4, <2>2 DEF ReadMerged, Advance
<1>7. CASE LeaveConcatenate
  <2>1. /\ inputs' = inputs /\ opened' = opened /\ readList' = readList /\ queue' = queue
        /\ Delete(readList) /\ ~Ended /\ Ended'
    BY <1>7 DEF LeaveConcatenate, DeleteReadList, Ended
  <2>2. /\ \A k : Found(k)' = Found(k) /\ Lost(k)' = Lost(k)
        /\ \A k : ByConstructor(k)' = ByConstructor(k)
    BY <2>1 DEF Found, Lost, ByConstructor
  <2>3. \A k \in DOMAIN inputs :
            ByConstructor(k)' + ByDestructor(k)' = deleted[k] + IF k \in readList THEN 1 ELSE 0
    BY <2>1, <2>2 DEF ReadersInv, ByDestructor, ByConstructor
  <2> QED
    BY <2>1, <2>2, <2>3 DEF ReadersInv, Delete
<1> QED
  BY <1>2, <1>3, <1>5, <1>6, <1>7 DEF FilesNext

LEMMA ReadersInvDeletes ==
    ASSUME MergeInv, TaskInv, ReadersInv
    PROVE  ReadersDeletedOnce
<1>1. DOMAIN inputs = 1..Len(inputs) /\ Len(inputs) \in Nat /\ opened \in 0..Len(inputs)
        /\ queue \subseteq DOMAIN inputs
  BY InputFacts DEF MergeInv
<1>2. ASSUME ~Ended, NEW k \in queue PROVE deleted[k] = 0
  <2>1. k <= opened /\ ~Lost(k) /\ k \in DOMAIN inputs /\ k \in readList
    BY <1>1 DEF MergeInv, QueueCorrect, Lost, ReadersInv
  <2> QED
    BY <1>1, <1>2, <2>1 DEF ReadersInv, ByConstructor, ByDestructor
<1>3. ASSUME Ended, NEW k \in DOMAIN inputs
      PROVE  deleted[k] = IF k \notin Survivors /\ inputs[k].opens
                              /\ ReadAt(inputs[k], 0) = "eSuccess" THEN 2 ELSE 1
  <2>1. opened = Len(inputs) /\ k <= opened
    <3>1. Ready
      BY <1>3 DEF TaskInv, After, Ended
    <3> QED
      BY <1>1, <3>1 DEF Ready
  <2>2. k \in Survivors <=> ~Lost(k)
    BY <1>1, <2>1 DEF Survivors, Lost
  <2>3. k \in readList <=> Found(k)
    BY <1>1, <2>1 DEF ReadersInv
  <2>4. Found(k) => inputs[k].opens
    BY InputFacts, ReadFacts DEF Found
  <2>5. deleted[k] = ByConstructor(k) + ByDestructor(k)
    BY DEF ReadersInv
  <2> QED
    BY <1>3, <2>1, <2>2, <2>3, <2>4, <2>5 DEF ByConstructor, ByDestructor, Found
<1> QED
  BY <1>2, <1>3 DEF ReadersDeletedOnce

-------------------------------------------------------------------------------
(* The output: of the messages that were read, without the one in hand     *)
(* when the callback stopped, those that were written, in their order.     *)
Follows(lost, out, short, read, n) ==
    /\ lost \in [1..Len(out) -> 0..short]
    /\ \A i \in 1..Len(out) :
          /\ i + lost[i] <= n
          /\ out[i].message = read[i + lost[i]]
          /\ \A j \in 1..i : lost[j] <= lost[i]

OutputInv ==
    /\ output \in Seq(Piece)
    /\ file \in [open : BOOLEAN, short : Nat]
    /\ concatStopped \in BOOLEAN
    /\ concatStopped => Len(merged) > 0
    /\ Len(WholePieces) = IF file.open THEN Written - file.short ELSE 0
    /\ ~file.open => output = <<>>
    /\ file.open => Len(output) <= Written /\ Written <= Len(output) + file.short
    /\ \E lost : Follows(lost, output, file.short, merged, Written)

LEMMA FollowsLonger ==
    ASSUME NEW lost, NEW out \in Seq(Piece), NEW short \in Nat, NEW more \in Nat, short <= more,
           NEW read \in Seq(Message), NEW m \in Message, NEW n \in Nat,
           Follows(lost, out, short, read, Len(read)), Len(read) <= n
    PROVE  Follows(lost, out, more, Append(read, m), n)
<1>1. PICK longer \in Seq(Message) :
        longer = Append(read, m) /\ \A i \in 1..Len(read) : longer[i] = read[i]
  <2>1. Append(read, m) \in Seq(Message) /\ \A i \in 1..Len(read) : Append(read, m)[i] = read[i]
    BY AppendFacts
  <2> QED
    BY <2>1
<1>2. lost \in [1..Len(out) -> 0..more]
  BY DEF Follows
<1>3. ASSUME NEW i \in 1..Len(out)
      PROVE  i + lost[i] <= n /\ out[i].message = longer[i + lost[i]]
  <2>1. PICK k \in 0..short : k = lost[i]
    BY DEF Follows
  <2>2. i + k <= Len(read) /\ out[i].message = read[i + k]
    BY <2>1 DEF Follows
  <2>3. i + k \in 1..Len(read)
    BY <2>2
  <2> QED
    BY <1>1, <2>1, <2>2, <2>3
<1> QED
  BY <1>1, <1>2, <1>3 DEF Follows

LEMMA FollowsAppended ==
    ASSUME NEW lost, NEW out \in Seq(Piece), NEW short \in Nat, NEW more \in Nat, short <= more,
           NEW read \in Seq(Message), NEW m \in Message, NEW p \in Piece, p.message = m,
           Follows(lost, out, short, read, Len(read)),
           Len(out) <= Len(read), Len(read) <= Len(out) + short
    PROVE  \E l : Follows(l, Append(out, p), more, Append(read, m), Len(read) + 1)
<1>1. PICK a \in Nat, b \in Nat : a = Len(out) /\ b = Len(read) /\ a <= b /\ b <= a + short
  OBVIOUS
<1>2. PICK o \in Seq(Piece) : /\ o = Append(out, p) /\ Len(o) = a + 1 /\ o[a + 1] = p
                              /\ \A i \in 1..a : o[i] = out[i]
  <2>1. /\ Append(out, p) \in Seq(Piece) /\ Len(Append(out, p)) = Len(out) + 1
        /\ Append(out, p)[Len(out) + 1] = p
        /\ \A i \in 1..Len(out) : Append(out, p)[i] = out[i]
    BY AppendFacts
  <2> QED
    BY <1>1, <2>1
<1>3. PICK r \in Seq(Message) : r = Append(read, m) /\ r[b + 1] = m
  BY <1>1, AppendFacts
<1>4. Follows(lost, out, more, r, b + 1)
  BY <1>1, <1>3, FollowsLonger
<1>5. PICK l : l = [i \in 1..(a + 1) |-> IF i <= a THEN lost[i] ELSE b - a]
  OBVIOUS
<1>6. \A i \in 1..a : lost[i] \in 0..more /\ lost[i] <= b - a
  <2> TAKE i \in 1..a
  <2>1. a \in 1..a /\ i \in 1..a
    BY <1>1
  <2>2. lost \in [1..a -> 0..short]
    BY <1>1 DEF Follows
  <2>3. a + lost[a] <= b /\ \A j \in 1..a : lost[j] <= lost[a]
    BY <1>1, <2>1 DEF Follows
  <2>4. lost[i] \in 0..short /\ lost[a] \in 0..short /\ lost[i] <= lost[a]
    BY <2>1, <2>2, <2>3
  <2> QED
    BY <1>1, <2>3, <2>4
<1>7. l \in [1..(a + 1) -> 0..more]
  BY <1>1, <1>5, <1>6
<1>8. ASSUME NEW i \in 1..(a + 1)
      PROVE  i + l[i] <= b + 1 /\ o[i].message = r[i + l[i]] /\ \A j \in 1..i : l[j] <= l[i]
  <2>1. CASE i <= a
    <3>1. i \in 1..a /\ l[i] = lost[i] /\ o[i] = out[i]
      BY <1>2, <1>5, <2>1
    <3>2. \A j \in 1..i : l[j] = lost[j]
      BY <1>1, <1>5, <2>1
    <3> QED
      BY <1>1, <1>4, <3>1, <3>2 DEF Follows
  <2>2. CASE ~(i <= a)
    <3>1. i = a + 1 /\ l[i] = b - a
      BY <1>1, <1>5, <2>2
    <3>2. i + l[i] = b + 1
      BY <1>1, <3>1
    <3>3. \A j \in 1..i : l[j] <= l[i]
      BY <1>1, <1>5, <1>6, <3>1
    <3> QED
      BY <1>1, <1>2, <1>3, <3>1, <3>2, <3>3
  <2> QED
    BY <2>1, <2>2
<1>9. Follows(l, o, more, r, b + 1)
  BY <1>2, <1>7, <1>8 DEF Follows
<1> QED
  BY <1>1, <1>2, <1>3, <1>9

(* How many messages of the output are whole.                              *)
Wholes(out) == Len(Selected(out, {p \in Piece : p.whole}))

LEMMA WholesAppend ==
    ASSUME NEW out \in Seq(Piece), NEW p \in Piece
    PROVE  /\ Wholes(<<>>) = 0 /\ Wholes(out) \in Nat
           /\ Wholes(Append(out, p)) = Wholes(out) + IF p.whole THEN 1 ELSE 0
<1> DEFINE W == {x \in Piece : x.whole}
           s == Selected(out, W)
<1>1. p \in W <=> p.whole
  OBVIOUS
<1> HIDE DEF W
<1>2. s \in Seq(Piece) /\ Selected(<<>>, W) = <<>>
  BY SelectedFacts
<1>3. Selected(Append(out, p), W) = IF p \in W THEN Append(s, p) ELSE s
  BY SelectedAppend
<1> HIDE DEF s
<1>4. Len(s) \in Nat /\ Len(Append(s, p)) = Len(s) + 1
  BY <1>2
<1>5. Len(<<>>) = 0
  OBVIOUS
<1>6. Wholes(out) = Len(s) /\ Wholes(<<>>) = Len(Selected(<<>>, W))
        /\ Wholes(Append(out, p)) = Len(Selected(Append(out, p), W))
  BY DEF Wholes, W, s
<1> QED
  BY <1>1, <1>2, <1>3, <1>4, <1>5, <1>6

LEMMA ReadMergedMessage ==
    ASSUME MergeInv, NEW k \in DOMAIN inputs, ReadMerged(k)
    PROVE  merged \in Seq(Message) /\ InHand(k) \in Message /\ merged' = Append(merged, InHand(k))
<1>1. k \in queue /\ k \in DOMAIN inputs
  BY DEF ReadMerged, Earliest
<1>2. Contents(inputs[k]) \in Seq(Message) /\ position[k] \in 1..Len(Contents(inputs[k]))
  BY <1>1, InputFacts DEF MergeInv, QueueCorrect
<1> QED
  BY <1>2 DEF InHand, ReadMerged, MergeInv

LEMMA OutputFacts ==
    ASSUME OutputInv, concatStopped = FALSE, merged \in Seq(Message)
    PROVE  \E n \in Nat, out \in Seq(Piece), open \in BOOLEAN, short \in Nat :
              /\ n = Len(merged) /\ out = output /\ open = file.open /\ short = file.short
              /\ \E lost : Follows(lost, out, short, merged, n)
              /\ Wholes(out) = IF open THEN n - short ELSE 0
              /\ ~open => out = <<>>
              /\ open => Len(out) <= n /\ n <= Len(out) + short
<1>1. Written = Len(merged) /\ Len(merged) \in Nat
  BY DEF Written
<1>2. /\ output \in Seq(Piece) /\ file.open \in BOOLEAN /\ file.short \in Nat
      /\ \E lost : Follows(lost, output, file.short, merged, Len(merged))
      /\ Wholes(output) = IF file.open THEN Len(merged) - file.short ELSE 0
      /\ ~file.open => output = <<>>
      /\ file.open => Len(output) <= Len(merged) /\ Len(merged) <= Len(output) + file.short
  BY <1>1 DEF OutputInv, Wholes, WholePieces
<1> QED
  BY <1>1, <1>2

LEMMA CopyMergedOutput ==
    ASSUME MergeInv, TaskInv, OutputInv, NEW k \in DOMAIN inputs, CopyMerged(k)
    PROVE  OutputInv'
<1>1. PICK m : m = InHand(k)
  OBVIOUS
<1>2. concatStopped = FALSE /\ concatStopped' = FALSE /\ WriteMessage(m)
  BY <1>1 DEF CopyMerged, TaskInv
<1>3. merged \in Seq(Message) /\ m \in Message /\ merged' = Append(merged, m)
  BY <1>1, ReadMergedMessage DEF CopyMerged
<1>4. PICK n \in Nat, out \in Seq(Piece), open \in BOOLEAN, short \in Nat :
        /\ n = Len(merged) /\ out = output /\ open = file.open /\ short = file.short
        /\ \E lost : Follows(lost, out, short, merged, n)
        /\ Wholes(out) = IF open THEN n - short ELSE 0
        /\ ~open => out = <<>>
        /\ open => Len(out) <= n /\ n <= Len(out) + short
  BY <1>2, <1>3, OutputFacts
<1>17. PICK lost : Follows(lost, out, short, merged, n)
  BY <1>4
<1>5. Len(merged') = n + 1 /\ Written' = n + 1
  BY <1>2, <1>3, <1>4 DEF Written
<1>6. ASSUME NEW o \in Seq(Piece), NEW s \in Nat,
             output' = o, file' = [open |-> open, short |-> s],
             \E l : Follows(l, o, s, Append(merged, m), n + 1),
             Wholes(o) = IF open THEN (n + 1) - s ELSE 0,
             ~open => o = <<>>,
             open => Len(o) <= n + 1 /\ n + 1 <= Len(o) + s
      PROVE  OutputInv'
  <2>1. file'.open = open /\ file'.short = s /\ file' \in [open : BOOLEAN, short : Nat]
    BY <1>6
  <2>2. Len(WholePieces)' = Wholes(o)
    BY <1>6 DEF WholePieces, Wholes
  <2>3. n + 1 > 0
    OBVIOUS
  <2> QED
    BY <1>2, <1>3, <1>5, <1>6, <2>1, <2>2, <2>3 DEF OutputInv
<1>7. file = [open |-> open, short |-> short]
  BY <1>4 DEF OutputInv
<1>8. ASSUME NEW p \in Piece, p.message = m, open, NEW s \in Nat,
             output' = Append(out, p), file' = [open |-> open, short |-> s],
             s = short + IF p.whole THEN 0 ELSE 1
      PROVE  OutputInv'
  <2>1. short <= s
    BY <1>8
  <2>2. \E l : Follows(l, Append(out, p), s, Append(merged, m), n + 1)
    BY <1>3, <1>4, <1>17, <1>8, <2>1, FollowsAppended
  <2>3. PICK o \in Seq(Piece) : o = Append(out, p) /\ Len(o) = Len(out) + 1
    BY AppendFacts
  <2>4. Wholes(o) = Wholes(out) + IF p.whole THEN 1 ELSE 0
    <3>1. Wholes(Append(out, p)) = Wholes(out) + IF p.whole THEN 1 ELSE 0
      BY WholesAppend
    <3> QED
      BY <2>3, <3>1
  <2>5. Wholes(o) = IF open THEN (n + 1) - s ELSE 0
    <3>1. Wholes(out) = n - short
      BY <1>4, <1>8
    <3>2. CASE p.whole
      BY <1>8, <2>4, <3>1, <3>2
    <3>3. CASE ~p.whole
      BY <1>8, <2>4, <3>1, <3>3
    <3> QED
      BY <3>2, <3>3
  <2>6. open => Len(o) <= n + 1 /\ n + 1 <= Len(o) + s
    BY <1>4, <1>8, <2>1, <2>3
  <2> QED
    BY <1>6, <1>8, <2>2, <2>3, <2>5, <2>6
<1>9. ASSUME NEW s \in Nat, output' = out, file' = [open |-> open, short |-> s],
             open => s = short + 1, short <= s
      PROVE  OutputInv'
  <2>1. Follows(lost, out, s, Append(merged, m), n + 1)
    BY <1>3, <1>4, <1>17, <1>9, FollowsLonger
  <2>2. Wholes(out) = IF open THEN (n + 1) - s ELSE 0
    BY <1>4, <1>9
  <2>3. open => Len(out) <= n + 1 /\ n + 1 <= Len(out) + s
    BY <1>4, <1>9
  <2> QED
    BY <1>4, <1>6, <1>9, <2>1, <2>2, <2>3
<1>10. PICK w \in Piece, h \in Piece :
        /\ w = [message |-> m, whole |-> TRUE] /\ w.message = m /\ w.whole
        /\ h = [message |-> m, whole |-> FALSE] /\ h.message = m /\ ~h.whole
  <2>1. [message |-> m, whole |-> TRUE] \in Piece /\ [message |-> m, whole |-> FALSE] \in Piece
    BY <1>3 DEF Piece
  <2> QED
    BY <2>1
<1>11. CASE open /\ output' = Append(out, w) /\ file' = file
  BY <1>7, <1>8, <1>10, <1>11
<1>12. CASE open /\ output' \in {out, Append(out, h)} /\ file' = [open |-> open, short |-> short + 1]
  <2>1. short + 1 \in Nat /\ short <= short + 1
    OBVIOUS
  <2>2. CASE output' = out
    BY <1>9, <1>12, <2>1, <2>2
  <2>3. CASE output' = Append(out, h)
    BY <1>8, <1>10, <1>12, <2>1, <2>3
  <2> QED
    BY <1>12, <2>2, <2>3
<1>13. CASE ~open /\ output' = out /\ file' = file
  BY <1>7, <1>9, <1>13
<1>14. file' = [file EXCEPT !.short = @ + 1] => file' = [open |-> open, short |-> short + 1]
  BY <1>7
<1>15. \/ open /\ output' = Append(out, w) /\ file' = file
       \/ open /\ output' \in {out, Append(out, h)} /\ file' = [open |-> open, short |-> short + 1]
       \/ ~open /\ output' = out /\ file' = file
  BY <1>2, <1>4, <1>10, <1>14, Zenon DEF WriteMessage
<1> QED
  BY <1>11, <1>12, <1>13, <1>15

LEMMA StopConcatenateOutput ==
    ASSUME MergeInv, TaskInv, OutputInv, NEW k \in DOMAIN inputs, StopConcatenate(k)
    PROVE  OutputInv'
<1>1. PICK m : m = InHand(k)
  OBVIOUS
<1>2. /\ concatStopped = FALSE /\ file' = file /\ concatStopped' = TRUE /\ output' = output
  BY DEF StopConcatenate, TaskInv
<1>3. merged \in Seq(Message) /\ m \in Message /\ merged' = Append(merged, m)
  BY <1>1, ReadMergedMessage DEF StopConcatenate
<1>4. Len(merged') = Len(merged) + 1 /\ Len(merged) \in Nat
  BY <1>3, AppendFacts
<1>5. Written = Len(merged) /\ Written' = Len(merged)
  BY <1>2, <1>4 DEF Written
<1>6. \E lost : Follows(lost, output, file.short, merged', Written')
  <2>1. PICK lost : Follows(lost, output, file.short, merged, Len(merged))
    BY <1>5 DEF OutputInv
  <2>2. output \in Seq(Piece) /\ file.short \in Nat /\ file.short <= file.short
    BY DEF OutputInv
  <2>3. Follows(lost, output, file.short, Append(merged, m), Len(merged))
    BY <1>3, <1>4, <2>1, <2>2, FollowsLonger
  <2> QED
    BY <1>3, <1>5, <2>3
<1>7. WholePieces' = WholePieces
  BY <1>2 DEF WholePieces
<1> QED
  BY <1>2, <1>4, <1>5, <1>6, <1>7 DEF OutputInv

LEMMA NothingWritten ==
    /\ Wholes(<<>>) = 0 /\ Len(<<>>) = 0
    /\ Follows(<<>>, <<>>, 0, <<>>, 0)
<1>1. <<>> \in [1..Len(<<>>) -> 0..0] /\ 1..Len(<<>>) = {} /\ Len(<<>>) = 0
  OBVIOUS
<1>2. Wholes(<<>>) = 0
  BY SelectedFacts, <1>1 DEF Wholes
<1> QED
  BY <1>1, <1>2 DEF Follows

LEMMA OutputInvStep ==
    ASSUME MergeInv, SplitInv, TaskInv, OutputInv, FilesNext
    PROVE  OutputInv'
<1>1. ASSUME file' = file, output' = output, concatStopped' = concatStopped, merged' = merged
      PROVE  OutputInv'
  BY <1>1 DEF OutputInv, Written, WholePieces
<1>2. ASSUME NEW ok \in BOOLEAN, Before, file' = [open |-> ok, short |-> 0], output' = output,
             concatStopped' = concatStopped, merged' = <<>>
      PROVE  OutputInv'
  <2>1. output = <<>> /\ concatStopped = FALSE
    BY <1>2 DEF TaskInv
  <2>2. /\ file'.open = ok /\ file'.short = 0 /\ file' \in [open : BOOLEAN, short : Nat]
    BY <1>2
  <2>3. merged' = <<>> /\ concatStopped' = FALSE /\ output' = <<>> /\ output' \in Seq(Piece)
    BY <1>2, <2>1
  <2>4. Written' = 0 /\ WholePieces' = Selected(<<>>, {p \in Piece : p.whole})
    BY <2>3 DEF Written, WholePieces
  <2>5. Len(WholePieces') = 0 /\ Follows(<<>>, output', file'.short, merged', Written')
    BY <2>2, <2>3, <2>4, NothingWritten DEF Wholes
  <2> QED
    <3>1. file'.open \in BOOLEAN /\ Len(output') = 0 /\ file'.short = 0
      BY <2>2, <2>3
    <3>2. \E lost : Follows(lost, output', file'.short, merged', Written')
      BY <2>5
    <3>3. Len(WholePieces)' = (IF file'.open THEN Written' - file'.short ELSE 0)
      BY <2>4, <2>5, <3>1
    <3>4. Len(output') <= Written' /\ Written' <= Len(output') + file'.short
      BY <2>4, <3>1
    <3>5. concatStopped' \in BOOLEAN /\ ~concatStopped'
      BY <2>3, Zenon
    <3> QED
      BY <2>2, <2>3, <3>2, <3>3, <3>4, <3>5 DEF OutputInv
<1>3. CASE ConcatenateParts
  BY <1>2, <1>3 DEF ConcatenateParts, Concatenate, Constructing, Before
<1>4. CASE ConcatenateDirectory
  <2>1. PICK ok \in BOOLEAN :
            file' = [open |-> ok, short |-> 0] /\ output' = output
            /\ concatStopped' = concatStopped /\ merged' = <<>> /\ Before
    BY <1>4 DEF ConcatenateDirectory, Concatenate, Constructing, Before
  <2> QED
    BY <1>2, <2>1
<1>5. CASE SplitStep \/ SplitAbort \/ EndSplit \/ EndOfMerge \/ OpenNextFile \/ LeaveConcatenate
  BY <1>1, <1>5 DEF SplitStep, SplitAbort, EndSplit, EndOfMerge, OpenNextFile, OpenNext,
     LeaveConcatenate, DeleteReadList, mergeVars, concatVars
<1>6. CASE \E k \in DOMAIN inputs : CopyMerged(k)
  BY <1>6, CopyMergedOutput
<1>7. CASE \E k \in DOMAIN inputs : StopConcatenate(k)
  BY <1>7, StopConcatenateOutput
<1> QED
  BY <1>3, <1>4, <1>5, <1>6, <1>7 DEF FilesNext

LEMMA OutputInvFollows ==
    ASSUME OutputInv
    PROVE  OutputFollowsMerge
<1>1. DOMAIN output = 1..Len(output)
  BY DEF OutputInv
<1>2. PICK lost : Follows(lost, output, file.short, merged, Written)
  BY DEF OutputInv
<1>3. /\ lost \in [DOMAIN output -> 0..file.short]
      /\ \A i \in DOMAIN output :
            /\ i + lost[i] <= Written
            /\ output[i].message = merged[i + lost[i]]
            /\ \A j \in 1..i : lost[j] <= lost[i]
  BY <1>1, <1>2 DEF Follows
<1> QED
  BY <1>3 DEF OutputFollowsMerge, OutputInv

(* Where every write wrote everything, the output is what was read.        *)
LEMMA AllWritten ==
    ASSUME OutputInv, file.open, file.short = 0, concatStopped = FALSE, merged \in Seq(Message)
    PROVE  [i \in DOMAIN output |-> output[i].message] = merged
<1>1. PICK n \in Nat, out \in Seq(Piece), open \in BOOLEAN, short \in Nat :
        /\ n = Len(merged) /\ out = output /\ open = file.open /\ short = file.short
        /\ \E lost : Follows(lost, out, short, merged, n)
        /\ Wholes(out) = IF open THEN n - short ELSE 0
        /\ ~open => out = <<>>
        /\ open => Len(out) <= n /\ n <= Len(out) + short
  BY OutputFacts
<1>2. Len(out) = n /\ DOMAIN out = 1..n
  BY <1>1
<1>6. PICK lost : Follows(lost, out, short, merged, n)
  BY <1>1
<1>3. ASSUME NEW i \in 1..n PROVE out[i].message = merged[i]
  <2>1. lost[i] \in 0..0 /\ out[i].message = merged[i + lost[i]]
    BY <1>1, <1>2, <1>6 DEF Follows
  <2>2. i + lost[i] = i
    BY <2>1
  <2> QED
    BY <2>1, <2>2
<1>4. [i \in 1..n |-> out[i].message] = [i \in 1..n |-> merged[i]]
  BY <1>3
<1>5. [i \in 1..n |-> merged[i]] = merged
  BY <1>1
<1> QED
  BY <1>1, <1>2, <1>4, <1>5

-------------------------------------------------------------------------------
(* The parts of a recording whose times increase, when all could be made:  *)
(* they are the files that are concatenated, in their order, and no        *)
(* message of a part is earlier than one of a part before.                 *)
TimesGrow ==
    \A a, b \in 1..Len(Contents(source)) :
        a < b => Contents(source)[a].time < Contents(source)[b].time

InOrder == parts # <<>> /\ AllPartsOpen /\ ~splitStopped /\ TimesGrow

LEMMA SortedTimes ==
    ASSUME IsSorted(Contents(source), LAMBDA m, n : m.time < n.time)
    PROVE  TimesGrow
  BY DEF IsSorted, TimesGrow

LEMMA FilesOfParts ==
    ASSUME SplitInv, AllPartsOpen
    PROVE  /\ Len(PartFiles) = Len(parts) /\ DOMAIN PartFiles = 1..Len(parts)
           /\ \A i \in 1..Len(parts) : PartFiles[i] = Closed(Bodies[i])
<1>1. /\ parts \in Seq(Part) /\ Len(parts) \in Nat /\ DOMAIN parts = 1..Len(parts)
      /\ \A i \in 1..Len(parts) : parts[i] \in Part /\ Bodies[i] = parts[i].messages
  BY PartsFacts DEF SplitInv, SplitType
<1>2. \A i \in 1..Len(parts) : parts[i] \in {p \in Part : p.open}
  BY <1>1 DEF AllPartsOpen
<1>3. Selected(parts, {p \in Part : p.open}) = parts
  BY <1>1, <1>2, SelectedAll
<1>4. PartFiles = [i \in 1..Len(parts) |-> Closed(parts[i].messages)]
  BY <1>1, <1>3 DEF PartFiles
<1> QED
  BY <1>1, <1>4

LEMMA ClosedContents ==
    ASSUME NEW b \in Seq(Message), b # <<>>
    PROVE  /\ Closed(b).opens
           /\ Contents(Closed(b)) = IF b[Len(b)].payload > 0 THEN SubSeq(b, 1, Len(b) - 1) ELSE b
           /\ Contents(Closed(b)) \in Seq(Message)
           /\ \A p \in 1..Len(Contents(Closed(b))) : p \in 1..Len(b) /\ Contents(Closed(b))[p] = b[p]
<1>1. Len(b) \in Nat /\ Len(b) > 0
  BY EmptySeq
<1>2. PICK r : r = IF b[Len(b)].payload > 0 THEN Len(b) ELSE Len(b) + 1
  OBVIOUS
<1>3. Closed(b) = [opens |-> TRUE, messages |-> b, rejects |-> r]
  BY <1>1, <1>2 DEF Closed
<1>4. Closed(b).opens /\ Closed(b).messages = b /\ Closed(b).rejects = r
  BY <1>3
<1>5. Contents(Closed(b)) = SubSeq(b, 1, r - 1)
  BY <1>4 DEF Contents
<1>6. SubSeq(b, 1, Len(b)) = b
  OBVIOUS
<1>7. PICK c : c = Contents(Closed(b))
  OBVIOUS
<1>8. c = IF b[Len(b)].payload > 0 THEN SubSeq(b, 1, Len(b) - 1) ELSE b
  BY <1>1, <1>2, <1>5, <1>6, <1>7
<1>9. c \in Seq(Message) /\ \A p \in 1..Len(c) : p \in 1..Len(b) /\ c[p] = b[p]
  BY <1>1, <1>8
<1> QED
  BY <1>4, <1>7, <1>8, <1>9

(* The place of two messages in the parts is their place in the recording. *)
LEMMA PartsInOrder ==
    ASSUME SplitInv, InOrder,
           NEW i \in 1..Len(parts), NEW j \in 1..Len(parts),
           NEW p \in 1..Len(Bodies[i]), NEW q \in 1..Len(Bodies[j]),
           i < j \/ (i = j /\ p < q)
    PROVE  Bodies[i][p].time < Bodies[j][q].time
<1>1. PICK all : all = FlattenSeq(Bodies)
  OBVIOUS
<1>2. all = SubSeq(Contents(source), 1, done)
  BY <1>1 DEF SplitInv, PartsAreTheFile, InOrder, Bodies
<1>3. PICK c : c = Contents(source)
  OBVIOUS
<1>4. c \in Seq(Message) /\ Len(c) \in Nat /\ done \in 0..Len(c)
  BY <1>3, ContentsType DEF SplitInv, SplitType
<1>5. Len(all) = done /\ \A a \in 1..done : all[a] = c[a]
  BY <1>2, <1>3, <1>4
<1>6. PlacesOrdered(Bodies, all) /\ Len(Bodies) = Len(parts)
  <2>1. Bodies \in Seq(Seq(Message)) /\ Len(Bodies) = Len(parts)
    BY BodiesType DEF SplitInv, BodiesTyped
  <2> QED
    BY <1>1, <2>1, FlattenPlaces
<1>7. PICK a, b \in 1..Len(all) :
            a < b /\ all[a] = Bodies[i][p] /\ all[b] = Bodies[j][q]
  <2>1. i \in 1..Len(Bodies) /\ j \in 1..Len(Bodies)
    BY <1>6
  <2> QED
    BY <1>6, <2>1, Zenon DEF PlacesOrdered
<1>8. a \in 1..Len(c) /\ b \in 1..Len(c) /\ c[a] = all[a] /\ c[b] = all[b]
  BY <1>4, <1>5
<1>9. c[a].time < c[b].time
  BY <1>3, <1>7, <1>8 DEF InOrder, TimesGrow
<1> QED
  BY <1>7, <1>8, <1>9

(* The part that is read from is the first with anything left.             *)
LEMMA PartsBeforeAreRead ==
    ASSUME MergeInv, SplitInv, InOrder, inputs = PartFiles,
           NEW k \in DOMAIN inputs, ReadMerged(k), NEW i \in DOMAIN inputs, i < k
    PROVE  Left[i] = <<>>
<1>1. Ready /\ k \in queue /\ \A j \in queue : InHand(k).time <= InHand(j).time
  BY DEF ReadMerged, Earliest
<1>2. Len(inputs) = Len(parts) /\ DOMAIN inputs = 1..Len(parts)
        /\ \A j \in 1..Len(parts) : inputs[j] = Closed(Bodies[j])
  BY FilesOfParts DEF InOrder
<1>3. \A j \in 1..Len(parts) : Bodies[j] \in Seq(Message) /\ Bodies[j] # <<>>
  BY PartsFacts DEF SplitInv, PartsBegun, InOrder, AllPartsOpen
<1>4. ASSUME NEW j \in queue
      PROVE  /\ j \in 1..Len(parts) /\ position[j] \in 1..Len(Bodies[j])
             /\ InHand(j) = Bodies[j][position[j]]
             /\ Bodies[j] \in Seq(Message)
  <2>1. j \in 1..Len(parts) /\ position[j] \in 1..Len(Contents(inputs[j]))
    BY <1>2 DEF MergeInv, QueueCorrect
  <2>2. PICK c : c = Contents(inputs[j])
    OBVIOUS
  <2>3. c = Contents(Closed(Bodies[j])) /\ Bodies[j] \in Seq(Message) /\ Bodies[j] # <<>>
    BY <1>2, <1>3, <2>1, <2>2
  <2>4. \A p \in 1..Len(c) : p \in 1..Len(Bodies[j]) /\ c[p] = Bodies[j][p]
    BY <2>3, ClosedContents
  <2> QED
    BY <2>1, <2>2, <2>3, <2>4 DEF InHand
<1>5. i \notin queue
  <2> SUFFICES ASSUME i \in queue PROVE FALSE
    OBVIOUS
  <2>1. InHand(i).time < InHand(k).time
    BY <1>1, <1>4, PartsInOrder
  <2>2. InHand(k).time <= InHand(i).time
    BY <1>1
  <2>3. InHand(i).time \in Nat /\ InHand(k).time \in Nat
    <3>1. \A j \in queue : InHand(j) \in Message
      BY <1>4
    <3> QED
      BY <1>1, <3>1 DEF Message
  <2> QED
    BY <2>1, <2>2, <2>3
<1> QED
  BY <1>1, <1>5, LeftWhenReady DEF Left

(* What concatenating reads of a part: all but a last message with a       *)
(* payload.                                                                *)
Kept == {m \in Message : m.payload = 0 \/ ~LastOfPart(m)}

Whole == [i \in DOMAIN inputs |-> Contents(inputs[i])]

LEMMA EarlierIsKept ==
    ASSUME SplitInv, InOrder, NEW i \in 1..Len(parts), NEW p \in 1..Len(Bodies[i]),
           p # Len(Bodies[i])
    PROVE  Bodies[i][p] \in Kept
<1>1. \A j \in 1..Len(parts) : Bodies[j] \in Seq(Message) /\ Bodies[j] # <<>>
        /\ parts[j].messages = Bodies[j]
  BY PartsFacts DEF SplitInv, PartsBegun, InOrder, AllPartsOpen
<1>2. DOMAIN parts = 1..Len(parts) /\ Len(parts) \in Nat
  BY PartsFacts DEF SplitInv
<1>3. Bodies[i][p] \in Message /\ Bodies[i][p].time \in Nat
  <2>1. Bodies[i][p] \in Message
    BY <1>1
  <2> QED
    BY <2>1 DEF Message
<1>4. ASSUME NEW j \in 1..Len(parts), Bodies[i][p] = Last(parts[j].messages)
      PROVE  FALSE
  <2>1. PICK q : q = Len(Bodies[j])
    OBVIOUS
  <2>2. q \in 1..Len(Bodies[j])
    <3>1. Bodies[j] \in Seq(Message) /\ Bodies[j] # <<>>
      BY <1>1
    <3>2. \A s \in Seq(Message) : s # <<>> => Len(s) \in 1..Len(s)
      BY EmptySeq
    <3> QED
      BY <2>1, <3>1, <3>2
  <2>3. Bodies[i][p] = Bodies[j][q]
    BY <1>1, <1>4, <2>1 DEF Last
  <2>4. ~(Bodies[i][p].time < Bodies[j][q].time) /\ ~(Bodies[j][q].time < Bodies[i][p].time)
    BY <1>3, <2>3
  <2>5. ~(i < j) /\ ~(j < i)
    BY <2>2, <2>4, PartsInOrder
  <2>6. i = j
    BY <1>2, <2>5
  <2>7. p < q
    <3>1. \A s \in Seq(Message) : Len(s) \in Nat
      OBVIOUS
    <3>2. Len(Bodies[i]) \in Nat
      BY <1>1, <3>1
    <3>3. q = Len(Bodies[i])
      BY <2>1, <2>6
    <3> QED
      BY <3>2, <3>3
  <2> QED
    BY <2>2, <2>4, <2>6, <2>7, PartsInOrder
<1> QED
  BY <1>2, <1>3, <1>4 DEF Kept, LastOfPart

LEMMA ReadOfPart ==
    ASSUME SplitInv, InOrder, NEW i \in 1..Len(parts)
    PROVE  Contents(Closed(Bodies[i])) = Selected(Bodies[i], Kept)
<1>1. PICK b : b = Bodies[i]
  OBVIOUS
<1>2. b \in Seq(Message) /\ b # <<>> /\ parts[i].messages = b
  BY <1>1, PartsFacts DEF SplitInv, PartsBegun, InOrder, AllPartsOpen
<1>3. PICK n \in Nat : Len(b) = n + 1
  <2>1. Len(b) \in Nat /\ Len(b) # 0
    BY <1>2, EmptySeq
  <2>2. Len(b) - 1 \in Nat /\ Len(b) = (Len(b) - 1) + 1
    BY <2>1
  <2> QED
    BY <2>2
<1>4. \A p \in 1..n : b[p] \in Kept
  <2>1. \A p \in 1..n : p \in 1..Len(b) /\ p # Len(b)
    BY <1>3
  <2> QED
    BY <1>1, <2>1, EarlierIsKept
<1>5. b[n + 1] \in Message /\ b[n + 1].payload \in Nat
  <2>1. b[n + 1] \in Message
    BY <1>2, <1>3
  <2> QED
    BY <2>1 DEF Message
<1>6. LastOfPart(b[n + 1])
  <2>1. DOMAIN parts = 1..Len(parts)
    BY PartsFacts DEF SplitInv
  <2>2. b[n + 1] = Last(parts[i].messages)
    BY <1>2, <1>3 DEF Last
  <2> QED
    BY <2>1, <2>2 DEF LastOfPart
<1>7. b[n + 1] \in Kept <=> ~(b[n + 1].payload > 0)
  BY <1>5, <1>6 DEF Kept
<1>8. PICK u : u = SubSeq(b, 1, n)
  OBVIOUS
<1>9. u \in Seq(Message) /\ Len(u) = n /\ b = Append(u, b[n + 1])
  BY <1>2, <1>3, <1>8, LastApart
<1>10. \A p \in 1..n : u[p] \in Kept
  BY <1>4, <1>9, AppendFacts
<1>11. Selected(u, Kept) = u
  BY <1>9, <1>10, SelectedAll
<1>12. Selected(b, Kept) = IF b[n + 1] \in Kept THEN Append(u, b[n + 1]) ELSE u
  <2>0. PICK K : K = Kept
    OBVIOUS
  <2>1. PICK m \in Message, v \in Seq(Message) : m = b[n + 1] /\ v = u
    BY <1>5, <1>9
  <2>2. Selected(Append(v, m), K) = IF m \in K THEN Append(Selected(v, K), m) ELSE Selected(v, K)
    BY SelectedAppend
  <2> QED
    BY <1>9, <1>11, <2>0, <2>1, <2>2
<1>13. Contents(Closed(b)) = IF b[n + 1].payload > 0 THEN u ELSE b
  <2>1. Len(b) - 1 = n
    BY <1>3
  <2> QED
    BY <1>2, <1>3, <1>8, <2>1, ClosedContents
<1> QED
  BY <1>1, <1>7, <1>9, <1>12, <1>13

(* After a whole split, the readers return what is kept of the recording.  *)
LEMMA WholeIsKept ==
    ASSUME SplitInv, InOrder, SplitEnded, inputs = PartFiles
    PROVE  FlattenSeq(Whole) = Selected(Contents(source), Kept)
<1>1. Len(Bodies) = Len(parts) /\ Len(parts) \in Nat
  BY BodiesType DEF SplitInv, BodiesTyped
<1>2. DOMAIN Whole = 1..Len(parts) /\ \A i \in 1..Len(parts) : Whole[i] = Selected(Bodies[i], Kept)
  BY FilesOfParts, ReadOfPart DEF InOrder, Whole
<1>3. PICK V, B, W : V = Seq(Message) /\ B = Bodies /\ W = Whole
  OBVIOUS
<1>4. B \in Seq(V) /\ Len(B) = Len(parts) /\ \A i \in 1..Len(parts) : B[i] \in V
  <2>1. Bodies \in Seq(Seq(Message))
    BY BodiesType DEF SplitInv, BodiesTyped
  <2>2. B \in Seq(V)
    BY <1>3, <2>1
  <2>3. \A i \in 1..Len(B) : B[i] \in V
    BY <2>2
  <2> QED
    BY <1>1, <1>3, <2>2, <2>3
<1>5. \A x \in V : Selected(x, Kept) \in V
  BY <1>3, SelectedFacts
<1>6. W \in [1..Len(parts) -> V]
  <2>1. \A i \in 1..Len(parts) : W[i] \in V
    BY <1>2, <1>3, <1>4, <1>5
  <2>2. W = [i \in 1..Len(parts) |-> W[i]]
    BY <1>2, <1>3 DEF Whole
  <2> QED
    BY <2>1, <2>2
<1>7. W \in Seq(V) /\ Len(W) = Len(B)
  BY <1>1, <1>4, <1>6, SeqDef
<1>8. FlattenSeq(W) = Selected(FlattenSeq(B), Kept)
  <2>1. \A i \in 1..Len(B) : W[i] = Selected(B[i], Kept)
    BY <1>2, <1>3, <1>4
  <2> QED
    BY <1>3, <1>4, <1>7, <2>1, FlattenSelected
<1>9. FlattenSeq(B) = Contents(source)
  <2>1. FlattenSeq(Bodies) = SubSeq(Contents(source), 1, done)
    BY DEF SplitInv, PartsAreTheFile, InOrder, Bodies
  <2>2. source \in Recording /\ done \in Nat /\ done <= Len(Contents(source))
    BY DEF SplitInv, SplitType
  <2>3. Contents(source) \in Seq(Message) /\ Len(Contents(source)) \in Nat
    BY <2>2, ContentsType
  <2>4. done = Len(Contents(source))
    <3>1. ~(source.opens /\ done < Len(Contents(source)))
      BY <2>2, ReadFacts DEF SplitEnded, Reading, InOrder
    <3>2. ~source.opens => Len(Contents(source)) = 0
      BY EmptySeq DEF Contents
    <3> QED
      BY <2>2, <2>3, <3>1, <3>2
  <2> QED
    BY <1>3, <2>1, <2>3, <2>4
<1> QED
  BY <1>3, <1>8, <1>9

-------------------------------------------------------------------------------
(* The way from a split to the end of the concatenation of its parts.      *)
PathInv ==
    /\ task = "idle" => parts = <<>>
    /\ parts # <<>> /\ task # "split" => SplitEnded
    /\ parts # <<>> /\ ~Before =>
        /\ inputs = PartFiles
        /\ file.open
        /\ withProg = FALSE /\ concatStopped = FALSE
    /\ parts # <<>> /\ After => queue = {}

LEMMA PathInvStep ==
    ASSUME MergeInv, TaskInv, OutputInv, PathInv, FilesNext
    PROVE  PathInv'
<1> USE DEF Before, After
<1>1. ASSUME task = "split", task' = "split" PROVE PathInv'
  BY <1>1 DEF PathInv
<1>2. CASE SplitStep \/ SplitAbort
  BY <1>1, <1>2 DEF SplitStep, SplitAbort
<1>3. ASSUME UNCHANGED splitVars
      PROVE  /\ parts' = parts /\ SplitEnded' = SplitEnded /\ PartFiles' = PartFiles
             /\ source' = source /\ Contents(source)' = Contents(source)
  BY <1>3 DEF splitVars, SplitEnded, Reading, PartFiles
<1>4. CASE EndSplit
  BY <1>3, <1>4 DEF EndSplit, PathInv
<1>5. CASE ConcatenateParts
  <2>1. /\ task = "splitted" /\ task' = "concatenate" /\ inputs' = PartFiles
        /\ file' = [open |-> TRUE, short |-> 0]
        /\ withProg' = FALSE /\ concatStopped' = concatStopped /\ UNCHANGED splitVars
    BY <1>5 DEF ConcatenateParts, Concatenate, Constructing
  <2>2. file'.open
    BY <2>1
  <2>3. concatStopped = FALSE
    BY <2>1 DEF TaskInv
  <2> QED
    BY <1>3, <2>1, <2>2, <2>3, Zenon DEF PathInv
<1>6. CASE ConcatenateDirectory
  <2>1. task = "idle" /\ task' = "concatenate" /\ UNCHANGED splitVars
    BY <1>6 DEF ConcatenateDirectory, Concatenate
  <2> QED
    BY <1>3, <2>1 DEF PathInv
<1>7. CASE OpenNextFile
  BY <1>3, <1>7 DEF OpenNextFile, OpenNext, concatVars, PathInv
<1>8. CASE \E k \in DOMAIN inputs : CopyMerged(k)
  <2>1. PICK k \in DOMAIN inputs : CopyMerged(k)
    BY <1>8
  <2>2. /\ task = "concatenate" /\ task' = task /\ UNCHANGED splitVars /\ withProg' = withProg
        /\ concatStopped' = concatStopped /\ inputs' = inputs
    BY <2>1 DEF CopyMerged, ReadMerged
  <2>3. file'.open = file.open
    <3>1. file' = file \/ file' = [file EXCEPT !.short = @ + 1]
      BY <2>1, Zenon DEF CopyMerged, WriteMessage
    <3> QED
      BY <3>1 DEF OutputInv
  <2> QED
    BY <1>3, <2>2, <2>3 DEF PathInv
<1>9. CASE \E k \in DOMAIN inputs : StopConcatenate(k)
  <2>1. task = "concatenate"
    BY <1>9 DEF StopConcatenate, ProgressDue
  <2>2. parts = <<>> /\ parts' = <<>> /\ task' \in {"leaving", "gone"}
    BY <1>3, <1>9, <2>1 DEF StopConcatenate, ProgressDue, PathInv
  <2> QED
    BY <2>2 DEF PathInv
<1>10. CASE EndOfMerge
  BY <1>3, <1>10 DEF EndOfMerge, mergeVars, concatVars, PathInv
<1>11. CASE LeaveConcatenate
  BY <1>3, <1>11 DEF LeaveConcatenate, DeleteReadList, PathInv
<1> QED
  BY <1>2, <1>4, <1>5, <1>6, <1>7, <1>8, <1>9, <1>10, <1>11 DEF FilesNext

(* What was read and what is left to read are the parts, one after the     *)
(* other.                                                                  *)
TakenInOrder == ~Before /\ InOrder => merged \o FlattenSeq(Left) = FlattenSeq(Whole)

LEMMA ConcatenateBegins ==
    ASSUME MergeInv, SplitInv, TaskInv, PathInv, ConcatenateParts, InOrder
    PROVE  Left' = Whole' /\ merged' = <<>>
<1>1. inputs' = PartFiles /\ opened' = 0 /\ queue' = {} /\ merged' = <<>>
  BY DEF ConcatenateParts, Concatenate, Constructing
<1>2. PICK files : files = PartFiles
  OBVIOUS
<1>3. DOMAIN files = 1..Len(parts) /\ Len(files) = Len(parts) /\ Len(parts) \in Nat
        /\ \A i \in 1..Len(parts) : files[i] = Closed(Bodies[i])
  BY <1>2, FilesOfParts, BodiesType DEF InOrder, SplitInv, BodiesTyped
<1>4. \A i \in 1..Len(parts) : files[i].opens /\ Contents(files[i]) \in Seq(Message)
  <2>1. \A i \in 1..Len(parts) : Bodies[i] \in Seq(Message) /\ Bodies[i] # <<>>
    BY PartsFacts DEF SplitInv, PartsBegun, InOrder, AllPartsOpen
  <2> QED
    BY <1>3, <2>1, ClosedContents
<1>5. Survivors' = DOMAIN files
  <2>1. \A i, j \in DOMAIN files : files[j].opens
    BY <1>3, <1>4
  <2>2. \A i \in DOMAIN files : i..Len(files) \subseteq DOMAIN files
    BY <1>3
  <2> QED
    BY <1>1, <1>2, <2>1, <2>2 DEF Survivors
<1>6. ASSUME NEW i \in DOMAIN files PROVE LeftOf(i)' = Contents(files[i])
  <2>1. TakenOf(i)' = 0
    BY <1>1, <1>3 DEF TakenOf
  <2>2. LeftOf(i)' = SubSeq(Contents(files[i]), 0 + 1, Len(Contents(files[i])))
    BY <1>1, <1>2, <1>5, <2>1 DEF LeftOf, Rest
  <2>3. \A s \in Seq(Message) : SubSeq(s, 0 + 1, Len(s)) = s
    OBVIOUS
  <2> QED
    BY <1>3, <1>4, <2>2, <2>3
<1>7. Left' = Whole'
  BY <1>1, <1>2, <1>6 DEF Left, Whole
<1> QED
  BY <1>1, <1>7

LEMMA InOrderIsNext ==
    ASSUME UNCHANGED splitVars
    PROVE  InOrder' = InOrder
  BY DEF splitVars, InOrder, AllPartsOpen, TimesGrow

LEMMA CopyMergedTakes ==
    ASSUME MergeInv, SplitInv, TaskInv, PathInv, InOrder, ~Before,
           NEW k \in DOMAIN inputs, CopyMerged(k), Left' \in Seq(Seq(Message)),
           merged \o FlattenSeq(Left) = FlattenSeq(Whole)
    PROVE  merged' \o FlattenSeq(Left') = FlattenSeq(Whole)
<1>1. ReadMerged(k) /\ k \in queue
  BY DEF CopyMerged, ReadMerged, Earliest
<1>2. Abstract!Take(k) /\ k \in Abstract!Waiting
  BY <1>1, ReadingTakes
<1>3. PICK V, f, t : V = Seq(Message) /\ f = Left /\ t = Left'
  OBVIOUS
<1>4. f \in Seq(V) /\ t \in Seq(V)
  BY <1>3, LeftType
<1>5. /\ DOMAIN f = DOMAIN inputs /\ DOMAIN inputs = 1..Len(inputs) /\ Len(inputs) \in Nat
      /\ t = [f EXCEPT ![k] = Tail(@)] /\ merged' = Append(merged, Head(f[k])) /\ f[k] # <<>>
  BY <1>2, <1>3, InputFacts DEF Abstract!Take, Abstract!Waiting, Left
<1>6. Len(f) = Len(inputs) /\ Len(t) = Len(f)
  BY <1>4, <1>5
<1>7. TakesFirst(f, t, k)
  <2>1. k \in 1..Len(f) /\ t[k] = Tail(f[k])
    BY <1>5, <1>6
  <2>2. ASSUME NEW i \in 1..Len(f) PROVE (i < k => f[i] = <<>>) /\ (i # k => t[i] = f[i])
    <3>1. i \in DOMAIN inputs
      BY <1>5, <1>6
    <3>2. i < k => f[i] = <<>>
      BY <1>1, <1>3, <3>1, PartsBeforeAreRead DEF PathInv, InOrder
    <3> QED
      BY <1>5, <3>1, <3>2
  <2> QED
    BY <1>5, <1>6, <2>1, <2>2 DEF TakesFirst
<1>8. FlattenSeq(f) = <<Head(f[k])>> \o FlattenSeq(t)
  <2>1. SequencesOf(V, Message)
    BY <1>3 DEF SequencesOf
  <2> QED
    BY <1>4, <1>7, <2>1, FlattenTakes
<1>9. FlattenSeq(t) \in Seq(Message)
  BY <1>3, <1>4, FlattenOver
<1>10. merged \in Seq(Message) /\ Head(f[k]) \in Message
  <2>1. f[k] \in Seq(Message)
    <3>1. \A i \in 1..Len(f) : f[i] \in V
      BY <1>4
    <3> QED
      BY <1>3, <1>5, <1>6, <3>1
  <2>2. Head(f[k]) \in Message
    BY <1>5, <2>1, FirstApart
  <2> QED
    BY <2>2 DEF MergeInv
<1>11. PICK s \in Seq(Message), m \in Message, rest \in Seq(Message) :
            s = merged /\ m = Head(f[k]) /\ rest = FlattenSeq(t)
  BY <1>9, <1>10
<1>12. Append(s, m) \o rest = s \o (<<m>> \o rest)
  <2>1. <<m>> \in Seq(Message) /\ Append(s, m) = s \o <<m>>
    BY AppendIs
  <2> QED
    BY <2>1, JoinAssociates
<1> QED
  BY <1>3, <1>5, <1>8, <1>11, <1>12

LEMMA TakenInOrderStep ==
    ASSUME MergeInv, SplitInv, TaskInv, PathInv, TakenInOrder, FilesNext,
           Left' \in Seq(Seq(Message)), Whole' \in Seq(Seq(Message))
    PROVE  TakenInOrder'
<1>1. ASSUME ~Before, UNCHANGED splitVars, inputs' = inputs, Left' = Left, merged' = merged
      PROVE  TakenInOrder'
  BY <1>1, InOrderIsNext DEF TakenInOrder, Whole
<1>2. CASE SplitStep \/ SplitAbort \/ EndSplit
  BY <1>2 DEF SplitStep, SplitAbort, EndSplit, TakenInOrder, Before
<1>3. CASE ConcatenateParts
  <2> SUFFICES ASSUME InOrder' PROVE merged' \o FlattenSeq(Left') = FlattenSeq(Whole')
    BY DEF TakenInOrder
  <2>1. InOrder
    BY <1>3, InOrderIsNext DEF ConcatenateParts, Concatenate
  <2>2. Left' = Whole' /\ merged' = <<>>
    BY <1>3, <2>1, ConcatenateBegins
  <2>3. FlattenSeq(Left') \in Seq(Message)
    BY FlattenFacts
  <2>4. \A s \in Seq(Message) : <<>> \o s = s
    OBVIOUS
  <2> QED
    BY <2>2, <2>3, <2>4
<1>4. CASE ConcatenateDirectory
  <2>1. parts = <<>> /\ UNCHANGED splitVars
    BY <1>4 DEF ConcatenateDirectory, Concatenate, PathInv
  <2>2. ~InOrder'
    BY <2>1, InOrderIsNext DEF InOrder
  <2> QED
    BY <2>2 DEF TakenInOrder
<1>5. CASE OpenNextFile
  <2>1. ~Before /\ UNCHANGED splitVars /\ OpenNext /\ inputs' = inputs /\ merged' = merged
    BY <1>5 DEF OpenNextFile, OpenNext, Before
  <2> QED
    BY <1>1, <2>1, OpeningKeepsLeft
<1>6. ASSUME NEW k \in DOMAIN inputs, CopyMerged(k) PROVE TakenInOrder'
  <2>1. ~Before /\ UNCHANGED splitVars /\ inputs' = inputs /\ task = "concatenate"
    BY <1>6 DEF CopyMerged, ReadMerged, Before
  <2>2. Whole' = Whole
    BY <2>1 DEF Whole
  <2> SUFFICES ASSUME InOrder PROVE merged' \o FlattenSeq(Left') = FlattenSeq(Whole')
    BY <2>1, InOrderIsNext DEF TakenInOrder
  <2>3. merged \o FlattenSeq(Left) = FlattenSeq(Whole)
    BY <2>1 DEF TakenInOrder
  <2> QED
    BY <1>6, <2>1, <2>2, <2>3, CopyMergedTakes
<1>7. ASSUME NEW k \in DOMAIN inputs, StopConcatenate(k) PROVE TakenInOrder'
  <2>1. parts = <<>> /\ UNCHANGED splitVars
    BY <1>7 DEF StopConcatenate, ProgressDue, PathInv, Before
  <2>2. ~InOrder'
    BY <2>1, InOrderIsNext DEF InOrder
  <2> QED
    BY <2>2 DEF TakenInOrder
<1>8. CASE EndOfMerge \/ LeaveConcatenate
  <2>1. ~Before /\ UNCHANGED splitVars
    BY <1>8 DEF EndOfMerge, LeaveConcatenate, Before
  <2>2. /\ inputs' = inputs /\ merged' = merged /\ queue' = queue
        /\ opened' = opened /\ position' = position
    BY <1>8 DEF EndOfMerge, LeaveConcatenate, DeleteReadList, mergeVars
  <2>3. Left' = Left
    BY <2>2 DEF Left, LeftOf, Survivors, Rest, TakenOf
  <2> QED
    BY <1>1, <2>1, <2>2, <2>3
<1> QED
  BY <1>2, <1>3, <1>4, <1>5, <1>6, <1>7, <1>8 DEF FilesNext

LEMMA WholeType == MergeInv => Whole \in Seq(Seq(Message))
<1> SUFFICES ASSUME MergeInv PROVE Whole \in Seq(Seq(Message))
  OBVIOUS
<1>1. DOMAIN inputs = 1..Len(inputs) /\ Len(inputs) \in Nat
  BY InputFacts
<1>2. Whole \in [1..Len(inputs) -> Seq(Message)]
  BY <1>1, InputFacts DEF Whole
<1> QED
  BY <1>1, <1>2, SeqDef

LEMMA WholeTypeNext == (MergeInv => Whole \in Seq(Seq(Message)))'
  BY WholeType, PTL

LEMMA RoundTripHolds ==
    ASSUME MergeInv, SplitInv, TaskInv, OutputInv, PathInv, TakenInOrder
    PROVE  RoundTrip
<1> SUFFICES ASSUME Ended, InOrder, file.short = 0
             PROVE  [i \in DOMAIN output |-> output[i].message] = Selected(Contents(source), Kept)
  BY SortedTimes DEF RoundTrip, InOrder, Kept
<1>1. /\ ~Before /\ After /\ task # "split" /\ parts # <<>> /\ Ready
  BY DEF Ended, Before, After, InOrder, TaskInv
<1>2. /\ inputs = PartFiles /\ file.open
      /\ concatStopped = FALSE /\ queue = {} /\ SplitEnded
  BY <1>1 DEF PathInv
<1>3. FlattenSeq(Left) = <<>>
  <2>1. PICK V, f : V = Seq(Message) /\ f = Left
    OBVIOUS
  <2>2. f \in Seq(V)
    BY <2>1, LeftType
  <2>3. \A i \in DOMAIN f : f[i] = <<>>
    BY <1>1, <1>2, <2>1, LeftWhenReady DEF Left
  <2>4. \A i \in 1..Len(f) : f[i] = <<>>
    BY <2>2, <2>3
  <2> QED
    BY <2>1, <2>2, <2>4, FlattenOfEmpty
<1>4. merged = Selected(Contents(source), Kept)
  <2>1. merged \in Seq(Message)
    BY DEF MergeInv
  <2>2. merged \o <<>> = merged
    BY <2>1
  <2> QED
    BY <1>1, <1>2, <1>3, <2>2, WholeIsKept DEF TakenInOrder
<1>5. merged \in Seq(Message)
  BY DEF MergeInv
<1> QED
  BY <1>2, <1>4, <1>5, AllWritten

-------------------------------------------------------------------------------
(* All of it together.                                                     *)
FilesInv ==
    MergeInv /\ SplitInv /\ TaskInv /\ ReadersInv /\ OutputInv /\ PathInv /\ TakenInOrder

LEMMA FilesInvInit ==
    ASSUME FilesInit
    PROVE  FilesInv
<1>1. MergerInit /\ output = <<>> /\ file = [open |-> FALSE, short |-> 0]
        /\ concatStopped = FALSE /\ answer = FALSE /\ task \in {"split", "idle"}
        /\ parts = <<>>
  BY DEF FilesInit, SplitInit
<1>2. MergeInv
  BY <1>1, MergeInvInit
<1>3. SplitInv
  BY SplitInvInit DEF FilesInit
<1>4. TaskInv
  BY <1>1 DEF TaskInv, Before, After, Ended, MergerInit
<1>5. ReadersInv
  <2>1. inputs = <<>> /\ opened = 0 /\ readList = {} /\ queue = {} /\ deleted = <<>>
    BY <1>1 DEF MergerInit
  <2>2. 1..0 = {} /\ DOMAIN inputs = {}
    BY <2>1
  <2> QED
    BY <2>1, <2>2 DEF ReadersInv
<1>6. OutputInv
  <2>1. /\ merged = <<>> /\ file.open = FALSE /\ file.short = 0
        /\ file \in [open : BOOLEAN, short : Nat] /\ output \in Seq(Piece)
    BY <1>1 DEF MergerInit
  <2> QED
    BY <1>1, <2>1, NothingWritten DEF OutputInv, Written, WholePieces, Wholes
<1>7. PathInv /\ TakenInOrder
  BY <1>1 DEF PathInv, TakenInOrder, Before, After
<1> QED
  BY <1>2, <1>3, <1>4, <1>5, <1>6, <1>7 DEF FilesInv

LEMMA FilesInvStep ==
    ASSUME FilesInv, [FilesNext]_filesVars
    PROVE  FilesInv'
<1> USE DEF FilesInv
<1>1. CASE FilesNext
  <2>1. SplitInv'
    BY <1>1, StepOfSplit, SplitStepInv
  <2>2. MergeInv' /\ TaskInv' /\ ReadersInv' /\ OutputInv' /\ PathInv'
    BY <1>1, MergeStepInv, TaskInvStep, ReadersInvStep, OutputInvStep, PathInvStep
  <2>3. Left' \in Seq(Seq(Message)) /\ Whole' \in Seq(Seq(Message))
    BY <2>2, LeftTypeNext, WholeTypeNext
  <2> QED
    BY <1>1, <2>1, <2>2, <2>3, TakenInOrderStep
<1>2. CASE UNCHANGED filesVars
  <2>1. UNCHANGED splitVars /\ UNCHANGED mergeVars /\ task' = task /\ UNCHANGED concatVars
    BY <1>2 DEF filesVars
  <2>2. SplitInv'
    BY <2>1, SplitStepInv
  <2>3. MergeInv'
    BY <2>1, NextInv
  <2>4. TaskInv'
    BY <2>1 DEF TaskInv, Before, After, Ended, mergeVars, concatVars, Ready
  <2>5. ReadersInv'
    BY <2>1 DEF ReadersInv, mergeVars, Found, Lost, ByConstructor, ByDestructor, Ended
  <2>6. OutputInv'
    BY <2>1 DEF OutputInv, Written, WholePieces, mergeVars, concatVars
  <2>7. PathInv'
    BY <2>1 DEF PathInv, Before, After, mergeVars, concatVars, splitVars, PartFiles,
       SplitEnded, Reading
  <2>8. TakenInOrder'
    <3>1. Left' = Left /\ Whole' = Whole
      BY <2>1 DEF mergeVars, Left, LeftOf, Survivors, Rest, TakenOf, Whole
    <3> QED
      BY <2>1, <3>1, InOrderIsNext DEF TakenInOrder, Before, mergeVars
  <2> QED
    BY <2>2, <2>3, <2>4, <2>5, <2>6, <2>7, <2>8
<1> QED
  BY <1>1, <1>2

(* The invariant of splitting and concatenating, whatever recordings,      *)
(* bounds and directories there are (VSBIO.cpp:449-608).                   *)
THEOREM FilesInvariant == FilesSpec => []FilesInv
<1>1. FilesInit => FilesInv
  BY FilesInvInit
<1>2. FilesInv /\ [FilesNext]_filesVars => FilesInv'
  BY FilesInvStep
<1> QED
  BY <1>1, <1>2, PTL DEF FilesSpec

(* The parts one after the other are what was read, without the message in *)
(* hand when the callback stopped: no message is lost, repeated or moved   *)
(* where a part ends (VSBIO.cpp:545-562, 587-606).                         *)
THEOREM SplitKeepsTheFile == FilesSpec => []PartsAreTheFile
<1>1. FilesInv => PartsAreTheFile
  BY DEF FilesInv, SplitInv
<1> QED
  BY <1>1, FilesInvariant, PTL

(* No part is begun too early, and none is larger than the bound by more   *)
(* than its first message, for either function and any bound, at any       *)
(* length of the recording (VSBIO.cpp:553, 595-603).                       *)
THEOREM SplitFillsParts == FilesSpec => []PartsAreFull
<1>1. FilesInv => PartsAreFull
  BY SplitInvFull DEF FilesInv
<1> QED
  BY <1>1, FilesInvariant, PTL

(* Which readers are deleted twice, and that none is leaked or used after  *)
(* it was deleted (VSBIO.cpp:356-376, 439-445).                            *)
THEOREM ReadersDeleted == FilesSpec => []ReadersDeletedOnce
<1>1. FilesInv => ReadersDeletedOnce
  BY ReadersInvDeletes DEF FilesInv
<1> QED
  BY <1>1, FilesInvariant, PTL

(* Whichever writes fall short, and in whatever way, the messages in the   *)
(* output are those of the merge in their order, and each that is missing  *)
(* or cut is one of those writes (VSBIO.cpp:486-509).                      *)
THEOREM OutputKeepsOrder == FilesSpec => []OutputFollowsMerge
<1>1. FilesInv => OutputFollowsMerge
  BY OutputInvFollows DEF FilesInv
<1> QED
  BY <1>1, FilesInvariant, PTL

(* Splitting a recording with increasing times and concatenating its parts *)
(* gives the recording back if every write wrote everything, but for the   *)
(* last message of a part if it has a payload: for any recording, bound    *)
(* and function (VSBIO.cpp:278, 500-509, 545-562, 587-606).                *)
THEOREM SplitAndConcatenate == FilesSpec => []RoundTrip
<1>1. FilesInv => RoundTrip
  BY RoundTripHolds DEF FilesInv
<1> QED
  BY <1>1, FilesInvariant, PTL

(* Concatenating uses one merger, and uses it as the merge by itself says: *)
(* it is constructed once, and read only afterwards (VSBIO.cpp:467-509).   *)
LEMMA FilesStepIsMergerStep ==
    ASSUME FilesInv, [FilesNext]_filesVars
    PROVE  [MergerNext]_mergeVars
<1>1. ASSUME UNCHANGED mergeVars PROVE [MergerNext]_mergeVars
  BY <1>1
<1>2. CASE UNCHANGED filesVars
  BY <1>1, <1>2 DEF filesVars
<1>3. CASE SplitStep \/ SplitAbort \/ EndSplit \/ EndOfMerge
  BY <1>1, <1>3 DEF SplitStep, SplitAbort, EndSplit, EndOfMerge
<1>4. CASE ConcatenateParts \/ ConcatenateDirectory
  <2>1. inputs = <<>>
    BY <1>4 DEF ConcatenateParts, ConcatenateDirectory, FilesInv, TaskInv, Before
  <2>2. \E files \in Seq(Recording) : Constructing(files)
    BY <1>4, PartFilesType, DirectoriesAssumption
       DEF ConcatenateParts, ConcatenateDirectory, Concatenate, FilesInv, SplitInv
  <2> QED
    BY <2>1, <2>2 DEF MergerNext
<1>5. CASE OpenNextFile
  BY <1>5 DEF OpenNextFile, MergerNext
<1>6. CASE \E k \in DOMAIN inputs : CopyMerged(k) \/ StopConcatenate(k)
  <2>1. \E k \in DOMAIN inputs : ReadMerged(k)
    BY <1>6 DEF CopyMerged, StopConcatenate
  <2> QED
    BY <2>1 DEF MergerNext
<1>7. CASE LeaveConcatenate
  <2>1. Ready
    BY <1>7 DEF LeaveConcatenate, FilesInv, TaskInv, After
  <2> QED
    BY <1>7, <2>1 DEF LeaveConcatenate, MergerNext
<1> QED
  BY <1>2, <1>3, <1>4, <1>5, <1>6, <1>7 DEF FilesNext

(* So everything it reads it takes in the order of time, each message      *)
(* once, from the files that survive (VSBIO.cpp:339-370, 412-443).         *)
THEOREM ConcatenateMergesByTime == FilesSpec => MergesByTime
<1>1. FilesInit => MergerInit
  BY DEF FilesInit
<1>2. FilesInv /\ [FilesNext]_filesVars => [MergerNext]_mergeVars
  BY FilesStepIsMergerStep
<1>3. FilesSpec => MergerSpec
  BY <1>1, <1>2, FilesInvariant, PTL DEF FilesSpec, MergerSpec
<1> QED
  BY <1>3, MergeImplementsMergeByTime, PTL
===============================================================================
