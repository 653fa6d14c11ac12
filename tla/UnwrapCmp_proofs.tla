---------------------------- MODULE UnwrapCmp_proofs ----------------------------
(* The conversion loop composes its parts: what is proved of the output    *)
(* buffer and of the reassembly by themselves holds of them in the loop,   *)
(* and the loop emits exactly one result per message.                      *)
EXTENDS UnwrapCmp, ConversionParts_proofs

(* What a message may become is something the buffer may hold.             *)
LEMMA ResultsAreEntries ==
    ASSUME NEW m \in Messages, NEW n \in 1..MaxMessages, NEW native \in BOOLEAN,
           NEW network \in Mapped \cup {NoNetwork}, NEW key \in {m.stamp, m.time}
    PROVE  [key |-> key, src |-> n, native |-> native, network |-> network] \in Entry
  BY ResultsAssumption

(* A call that returns a frame has one to return.                          *)
LEMMA CallAppends ==
    ASSUME frames \in Seq(Frame), NEW m, TryUnwrapCmpEthernet(m), frames' # frames
    PROVE  frames' # <<>>
<1>1. PICK x : frames' = Append(frames, x)
  BY DEF TryUnwrapCmpEthernet, Malformed, Unsegmented, SegStart, SegOutOfSequence,
         SegContinuation, SegEnd
<1>2. frames \in Seq(Frame \cup {x})
  BY SeqMonotonic
<1>3. Len(frames') = Len(frames) + 1 /\ Len(frames) \in Nat
  BY <1>1, <1>2
<1> QED
  BY <1>3, EmptySeq

-------------------------------------------------------------------------------
(* The inductive invariant.  Every message that is kept has been pushed,   *)
(* so that its number is the number of the push.                           *)
UnwrapInv ==
    /\ ReassemblyTypeOK /\ ActiveContextsAreChains /\ FramesOnStream
    /\ BufferTypeOK /\ NothingLostOrDuplicated
    /\ input \in Seq(Messages) /\ Len(input) <= MaxMessages
    /\ aborted \in BOOLEAN
    /\ Len(pushed) = Taken

LEMMA UnwrapInvInit ==
    ASSUME UnwrapInit
    PROVE  UnwrapInv
<1>1. /\ ReassemblyTypeOK /\ ActiveContextsAreChains /\ FramesOnStream
      /\ BufferTypeOK /\ NothingLostOrDuplicated
  BY InitType, InitHolds DEF UnwrapInit
<1>2. input = <<>> /\ pushed = <<>> /\ aborted = FALSE
  BY DEF UnwrapInit, BufferInit
<1>3. input \in Seq(Messages) /\ Len(input) = 0 /\ Len(pushed) = 0 /\ Taken = 0
  BY <1>2, EmptySeq DEF Taken
<1>4. Len(input) <= MaxMessages /\ Len(pushed) = Taken
  BY <1>3, MaxMessagesAssumption
<1>5. aborted \in BOOLEAN
  BY <1>2
<1> QED
  BY <1>1, <1>3, <1>4, <1>5, Zenon DEF UnwrapInv

(* The frame returned last has a network, and the time of a message.       *)
LEMMA LastFrame ==
    ReassemblyTypeOK /\ FramesOnStream /\ frames # <<>>
    => LET f == frames[Len(frames)] IN
       <<f.deviceId, f.interfaceId>> \in Mapped /\ \E first \in Messages : f.timestamp = first.stamp
<1> SUFFICES ASSUME ReassemblyTypeOK, FramesOnStream, frames # <<>>
             PROVE  LET f == frames[Len(frames)] IN
                    /\ <<f.deviceId, f.interfaceId>> \in Mapped
                    /\ \E first \in Messages : f.timestamp = first.stamp
  OBVIOUS
<1> DEFINE f == frames[Len(frames)]
<1>1. frames \in Seq(Frame) /\ calls \in Seq(Messages)
  BY DEF ReassemblyTypeOK
<1>2. Len(frames) \in DOMAIN frames
  BY <1>1
<1>3. FrameIsWhole(Devices, f) /\ f \in Frame
  BY <1>1, <1>2 DEF FramesOnStream
<1> HIDE DEF f
<1>4. IsWhole(Devices, f.data) /\ f.data \in Seq(Nat)
  BY <1>3 DEF FrameIsWhole, Frame
<1>5. f.data[1] \in DOMAIN calls
  <2>1. CASE Len(f.data) = 1
    BY <1>4, <2>1 DEF IsWhole
  <2>2. CASE IsChain(Devices, f.data) /\ Len(f.data) > 1
    BY <1>4, <2>2 DEF IsChain
  <2> QED
    BY <1>4, <2>1, <2>2 DEF IsWhole
<1>6. calls[f.data[1]] \in Messages
  BY <1>1, <1>5
<1>7. f.timestamp = calls[f.data[1]].stamp /\ <<f.deviceId, f.interfaceId>> \in Mapped
  BY <1>3 DEF FrameIsWhole, CmpMapLookup16
<1> QED
  BY <1>6, <1>7 DEF f

LEMMA LastFrameNext ==
    (ReassemblyTypeOK /\ FramesOnStream /\ frames # <<>>
     => LET f == frames[Len(frames)] IN
        <<f.deviceId, f.interfaceId>> \in Mapped /\ \E first \in Messages : f.timestamp = first.stamp)'
  BY LastFrame, PTL

(* A message that is pushed as what it became keeps the buffer's part of   *)
(* the invariant.                                                          *)
LEMMA PushKeeps ==
    ASSUME BufferTypeOK, NothingLostOrDuplicated,
           NEW e \in Entry, e.src = Len(pushed) + 1, PushMessage(e)
    PROVE  /\ [BufferNext]_bufferVars /\ BufferTypeOK' /\ NothingLostOrDuplicated'
           /\ Len(pushed') = Len(pushed) + 1 /\ ~finished /\ finished' = finished
<1>1. BufferNext
  BY DEF BufferNext
<1>2. pushed' = Append(pushed, e) /\ pushed \in Seq(Entry)
  BY DEF PushMessage, BufferTypeOK
<1> QED
  BY <1>1, <1>2, StepKeepsType, StepLosesNothing DEF PushMessage

(* What the four ways through the loop have in common: the reassembly      *)
(* keeps its invariants and one result is pushed, a native one if the      *)
(* message was decoded, with the time of the message unless the time of    *)
(* the CMP header was asked for.                                           *)
Decodes(m) ==
    \/ /\ m.kind \in BusKinds /\ m.wellFormed
       /\ CmpMapLookup16(m.device, m.interface)
    \/ m.kind = "ethernet" /\ frames' # frames

IsResult(e, m) ==
    /\ e.src = Len(pushed) + 1
    /\ e.native <=> Decodes(m)
    /\ args.timestampSource # "cmp" => e.key = m.time

LEMMA ConvertPushes ==
    ASSUME UnwrapInv, NEW m \in Messages, ConvertMessage(m)
    PROVE  /\ ReassemblyTypeOK' /\ ActiveContextsAreChains' /\ FramesOnStream'
           /\ \E e \in Entry : IsResult(e, m) /\ PushMessage(e)
<1>1. /\ ReassemblyTypeOK /\ ActiveContextsAreChains /\ FramesOnStream
      /\ BufferTypeOK /\ NothingLostOrDuplicated
      /\ m \in MessageType
  BY MessagesAssumption DEF UnwrapInv
<1>2. Len(pushed) + 1 \in 1..MaxMessages
  <2>1. /\ Len(input) < MaxMessages /\ ~aborted /\ Len(input) \in Nat
        /\ Len(pushed) = Len(input)
    BY DEF UnwrapInv, ConvertMessage, ReadSuccess, Taken
  <2> QED
    BY <2>1, MaxMessagesAssumption
<1>3. /\ PassThrough(m) \in Entry /\ PassThrough(m).src = Len(pushed) + 1
      /\ PassThrough(m).native = FALSE /\ PassThrough(m).key = m.time
  <2>1. FALSE \in BOOLEAN /\ NoNetwork \in Mapped \cup {NoNetwork}
    OBVIOUS
  <2> QED
    BY <1>2, <2>1, ResultsAssumption DEF PassThrough
<1>4. ASSUME NEW stamp, NEW first \in Messages, stamp = first.stamp,
             NEW network \in Mapped
      PROVE  /\ Native(m, stamp, network).src = Len(pushed) + 1
             /\ Native(m, stamp, network) \in Entry
             /\ Native(m, stamp, network).native = TRUE
             /\ args.timestampSource # "cmp" => Native(m, stamp, network).key = m.time
  <2>1. TRUE \in BOOLEAN /\ network \in Mapped \cup {NoNetwork}
    OBVIOUS
  <2>2. CASE args.timestampSource = "cmp"
    BY <1>2, <1>4, <2>1, <2>2, ResultsAssumption DEF Native
  <2>3. CASE args.timestampSource # "cmp"
    BY <1>2, <2>1, <2>3, ResultsAssumption DEF Native
  <2> QED
    BY <2>2, <2>3
<1>5. ASSUME UNCHANGED reassembly
      PROVE  ReassemblyTypeOK' /\ ActiveContextsAreChains' /\ FramesOnStream'
             /\ frames' = frames
  BY <1>1, <1>5 DEF reassembly, reassemblyVars, ReassemblyTypeOK, ActiveContextsAreChains,
                    ContextIsChain, IsChain, Follows, IsSegmentOf, FramesOnStream, FrameIsWhole, IsWhole
<1>6. CASE PassPlain(m)
  <2>1. UNCHANGED reassembly /\ PushMessage(PassThrough(m)) /\ ~Decodes(m)
    BY <1>6 DEF PassPlain, Decodes, BusKinds
  <2> QED
    BY <1>3, <1>5, <2>1 DEF IsResult
<1>7. CASE PassOtherCmp(m)
  <2>1. UNCHANGED reassembly /\ PushMessage(PassThrough(m)) /\ ~Decodes(m)
    BY <1>7 DEF PassOtherCmp, Decodes, BusKinds
  <2> QED
    BY <1>3, <1>5, <2>1 DEF IsResult
<1>8. CASE UnwrapBus(m)
  <2>1. UNCHANGED reassembly /\ m.kind \in BusKinds
    BY <1>8 DEF UnwrapBus
  <2>2. CASE /\ m.wellFormed /\ CmpMapLookup16(m.device, m.interface)
             /\ PushMessage(Native(m, m.stamp, <<m.device, m.interface>>))
    <3>1. <<m.device, m.interface>> \in Mapped
      BY <2>2 DEF CmpMapLookup16
    <3>2. Decodes(m)
      BY <2>1, <2>2 DEF Decodes
    <3>3. PICK e : e = Native(m, m.stamp, <<m.device, m.interface>>)
      OBVIOUS
    <3>4. /\ e.src = Len(pushed) + 1 /\ e \in Entry /\ e.native = TRUE
          /\ args.timestampSource # "cmp" => e.key = m.time
      BY <1>4, <3>1, <3>3
    <3>5. IsResult(e, m) /\ PushMessage(e)
      BY <2>2, <3>2, <3>3, <3>4 DEF IsResult
    <3> QED
      BY <1>5, <2>1, <3>4, <3>5
  <2>3. CASE /\ ~(m.wellFormed /\ CmpMapLookup16(m.device, m.interface))
             /\ PushMessage(PassThrough(m))
    <3>1. ~Decodes(m)
      BY <2>1, <2>3 DEF Decodes, BusKinds
    <3> QED
      BY <1>3, <1>5, <2>1, <2>3, <3>1 DEF IsResult
  <2> QED
    BY <1>8, <2>2, <2>3 DEF UnwrapBus
<1>9. CASE UnwrapEthernet(m)
  <2>1. TryUnwrapCmpEthernet(m) /\ m.kind = "ethernet"
    BY <1>9 DEF UnwrapEthernet
  <2>2. ReassemblyTypeOK' /\ ActiveContextsAreChains' /\ FramesOnStream'
    BY <1>1, <2>1, CallKeepsType, CallKeepsChains, CallKeepsFrames
  <2>3. CASE frames' = frames /\ PushMessage(PassThrough(m))
    <3>1. ~Decodes(m)
      BY <2>1, <2>3 DEF Decodes, BusKinds
    <3> QED
      BY <1>3, <2>2, <2>3, <3>1 DEF IsResult
  <2>4. CASE /\ frames' # frames
             /\ LET f == frames'[Len(frames')] IN
                PushMessage(Native(m, f.timestamp, <<f.deviceId, f.interfaceId>>))
    <3> DEFINE f == frames'[Len(frames')]
    <3>1. frames' # <<>>
      BY <1>1, <2>1, <2>4, CallAppends DEF ReassemblyTypeOK
    <3>2. PICK first \in Messages : f.timestamp = first.stamp
      BY <2>2, <3>1, LastFrameNext
    <3>3. <<f.deviceId, f.interfaceId>> \in Mapped
      BY <2>2, <3>1, LastFrameNext
    <3>4. PICK e : e = Native(m, f.timestamp, <<f.deviceId, f.interfaceId>>)
      OBVIOUS
    <3>5. PushMessage(e)
      BY <2>4, <3>4
    <3> HIDE DEF f
    <3>6. /\ e.src = Len(pushed) + 1 /\ e \in Entry /\ e.native = TRUE
          /\ args.timestampSource # "cmp" => e.key = m.time
      BY <1>4, <3>2, <3>3, <3>4
    <3>7. IsResult(e, m)
      BY <2>1, <2>4, <3>6 DEF IsResult, Decodes
    <3> QED
      BY <2>2, <3>5, <3>6, <3>7
  <2> QED
    BY <1>9, <2>3, <2>4 DEF UnwrapEthernet
<1> QED
  BY <1>6, <1>7, <1>8, <1>9 DEF ConvertMessage

LEMMA ConvertKeeps ==
    ASSUME UnwrapInv, NEW m \in Messages, ConvertMessage(m)
    PROVE  /\ ReassemblyTypeOK' /\ ActiveContextsAreChains' /\ FramesOnStream'
           /\ [BufferNext]_bufferVars /\ BufferTypeOK' /\ NothingLostOrDuplicated'
           /\ Len(pushed') = Len(pushed) + 1 /\ ~finished /\ finished' = finished
<1>1. PICK e \in Entry : IsResult(e, m) /\ PushMessage(e)
  BY ConvertPushes
<1>2. BufferTypeOK /\ NothingLostOrDuplicated /\ e.src = Len(pushed) + 1
  BY <1>1 DEF UnwrapInv, IsResult
<1> QED
  BY <1>1, <1>2, ConvertPushes, PushKeeps

(* What a turn of the loop reads.                                          *)
LEMMA InputGrows ==
    ASSUME UnwrapInv, NEW m \in Messages, ReadSuccess(m)
    PROVE  /\ input' \in Seq(Messages) /\ Len(input') = Len(input) + 1
           /\ Len(input') <= MaxMessages /\ aborted = FALSE /\ Len(input) \in Nat
<1>1. /\ input \in Seq(Messages) /\ input' = Append(input, m) /\ Len(input) < MaxMessages
      /\ Len(input) \in Nat
  BY DEF UnwrapInv, ReadSuccess
<1>2. aborted = FALSE
  BY Zenon DEF UnwrapInv, ReadSuccess
<1> QED
  BY <1>1, <1>2, MaxMessagesAssumption

LEMMA ConvertInv ==
    ASSUME UnwrapInv, NEW m \in Messages, ConvertMessage(m)
    PROVE  UnwrapInv' /\ Taken' = Taken + 1
<1>1. /\ input' \in Seq(Messages) /\ Len(input') = Len(input) + 1
      /\ Len(input') <= MaxMessages /\ aborted = FALSE /\ Len(input) \in Nat
  BY InputGrows DEF ConvertMessage
<1>2. aborted' = FALSE
  BY <1>1 DEF ConvertMessage, control
<1>3. Taken' = Taken + 1
  BY <1>1, <1>2 DEF Taken
<1>4. Len(pushed') = Taken'
  BY <1>3, ConvertKeeps DEF UnwrapInv
<1>5. aborted' \in BOOLEAN
  BY <1>2
<1>6. /\ ReassemblyTypeOK' /\ ActiveContextsAreChains' /\ FramesOnStream'
      /\ BufferTypeOK' /\ NothingLostOrDuplicated'
  BY ConvertKeeps
<1> QED
  BY <1>1, <1>3, <1>4, <1>5, <1>6, Zenon DEF UnwrapInv

(* Steps that leave the reassembly alone keep its invariants.              *)
LEMMA ReassemblyStays ==
    ASSUME ReassemblyTypeOK, ActiveContextsAreChains, FramesOnStream, UNCHANGED reassemblyVars
    PROVE  ReassemblyTypeOK' /\ ActiveContextsAreChains' /\ FramesOnStream'
  BY DEF reassemblyVars, ReassemblyTypeOK, ActiveContextsAreChains, ContextIsChain, IsChain,
         Follows, IsSegmentOf, FramesOnStream, FrameIsWhole, IsWhole

(* And those that leave the buffer alone the buffer's.                     *)
LEMMA BufferStays ==
    ASSUME BufferTypeOK, NothingLostOrDuplicated, UNCHANGED bufferVars
    PROVE  BufferTypeOK' /\ NothingLostOrDuplicated' /\ Len(pushed') = Len(pushed)
  BY DEF bufferVars, BufferTypeOK, NothingLostOrDuplicated, Output

LEMMA AbortInv ==
    ASSUME UnwrapInv, NEW m \in Messages, AbortByCallback(m)
    PROVE  UnwrapInv' /\ Taken' = Taken
<1>1. /\ input' \in Seq(Messages) /\ Len(input') = Len(input) + 1
      /\ Len(input') <= MaxMessages /\ aborted = FALSE /\ Len(input) \in Nat
  BY InputGrows DEF AbortByCallback
<1>2. /\ aborted' = TRUE /\ UNCHANGED reassemblyVars /\ UNCHANGED bufferVars
  BY DEF AbortByCallback, reassembly, buffer
<1>3. Taken' = Taken
  BY <1>1, <1>2 DEF Taken
<1>4. /\ ReassemblyTypeOK' /\ ActiveContextsAreChains' /\ FramesOnStream'
      /\ BufferTypeOK' /\ NothingLostOrDuplicated' /\ Len(pushed') = Len(pushed)
  BY <1>2, ReassemblyStays, BufferStays DEF UnwrapInv
<1>5. Len(pushed') = Taken'
  BY <1>3, <1>4 DEF UnwrapInv
<1>6. aborted' \in BOOLEAN
  BY <1>2
<1> QED
  BY <1>1, <1>3, <1>4, <1>5, <1>6, Zenon DEF UnwrapInv

LEMMA FinishInv ==
    ASSUME UnwrapInv, Finish
    PROVE  /\ UnwrapInv' /\ Taken' = Taken
           /\ [BufferNext]_bufferVars /\ ~finished /\ finished' = TRUE
<1>1. /\ FlushAll /\ UNCHANGED reassemblyVars /\ input' = input /\ aborted' = aborted
  BY DEF Finish, reassembly
<1>2. BufferNext /\ pushed' = pushed /\ ~finished /\ finished' = TRUE
  BY <1>1 DEF BufferNext, FlushAll
<1>3. Taken' = Taken /\ Len(pushed') = Taken'
  BY <1>1, <1>2 DEF Taken, UnwrapInv
<1>4. BufferTypeOK' /\ NothingLostOrDuplicated'
  BY <1>2, StepKeepsType, StepLosesNothing DEF UnwrapInv
<1>5. ReassemblyTypeOK' /\ ActiveContextsAreChains' /\ FramesOnStream'
  BY <1>1, ReassemblyStays DEF UnwrapInv
<1>6. input' \in Seq(Messages) /\ Len(input') <= MaxMessages /\ aborted' \in BOOLEAN
  BY <1>1, Zenon DEF UnwrapInv
<1> QED
  BY <1>2, <1>3, <1>4, <1>5, <1>6, Zenon DEF UnwrapInv

(* Opening the output, and a step in which nothing happens.                *)
LEMMA OthersInv ==
    ASSUME UnwrapInv, OpenOutput \/ UNCHANGED unwrapVars
    PROVE  /\ UnwrapInv' /\ Taken' = Taken
           /\ written' = written /\ finished' = finished
<1>1. /\ UNCHANGED reassemblyVars /\ UNCHANGED bufferVars /\ input' = input /\ aborted' = aborted
  BY DEF OpenOutput, unwrapVars, reassembly, buffer, control
<1>2. Taken' = Taken /\ written' = written /\ finished' = finished
  BY <1>1 DEF Taken, bufferVars
<1>3. /\ ReassemblyTypeOK' /\ ActiveContextsAreChains' /\ FramesOnStream'
      /\ BufferTypeOK' /\ NothingLostOrDuplicated' /\ Len(pushed') = Len(pushed)
  BY <1>1, ReassemblyStays, BufferStays DEF UnwrapInv
<1>4. Len(pushed') = Taken'
  BY <1>2, <1>3 DEF UnwrapInv
<1>5. input' \in Seq(Messages) /\ Len(input') <= MaxMessages /\ aborted' \in BOOLEAN
  BY <1>1, Zenon DEF UnwrapInv
<1> QED
  BY <1>2, <1>3, <1>4, <1>5, Zenon DEF UnwrapInv

(* In the loop as well as by themselves, the buffer loses nothing and      *)
(* every frame is whole (UnwrapCMP.cpp:757-918).                           *)
THEOREM UnwrapInvariant == UnwrapSpec => []UnwrapInv
<1>1. UnwrapInit => UnwrapInv
  BY UnwrapInvInit
<1>2. UnwrapInv /\ [UnwrapNext]_unwrapVars => UnwrapInv'
  BY ConvertInv, AbortInv, FinishInv, OthersInv DEF UnwrapNext
<1> QED
  BY <1>1, <1>2, PTL DEF UnwrapSpec

-------------------------------------------------------------------------------
(* The numbers of what was written.                                        *)
LEMMA SourcesFacts ==
    ASSUME NEW w \in Seq(Entry), NEW s, s = [i \in DOMAIN w |-> w[i].src]
    PROVE  /\ s \in Seq(Nat) /\ Len(s) = Len(w) /\ DOMAIN s = 1..Len(w) /\ Len(w) \in Nat
           /\ \A i \in 1..Len(w) : s[i] = w[i].src
<1>1. DOMAIN w = 1..Len(w) /\ Len(w) \in Nat /\ \A i \in 1..Len(w) : w[i] \in Entry
  OBVIOUS
<1>2. s \in [1..Len(w) -> Nat]
  BY <1>1, EntryAssumption
<1>3. s \in Seq(Nat) /\ Len(s) = Len(w)
  BY <1>1, <1>2, FunctionIsSequence
<1> QED
  BY <1>1, <1>3

LEMMA PrefixFacts ==
    ASSUME NEW s \in Seq(Nat), NEW t \in Seq(Nat), Len(s) <= Len(t),
           \A i \in 1..Len(s) : s[i] = t[i]
    PROVE  PromisedConversion!IsPrefix(s, t)
<1>1. Len(s) \in Nat /\ Len(t) \in Nat
  OBVIOUS
<1>2. /\ \A i \in 1..Len(s) : s[i] \in Nat
      /\ \A i \in 1..Len(s) : t[i] \in Nat
  BY <1>1
<1>3. SubSeq(s, 1, Len(s)) \in Seq(Nat) /\ Len(SubSeq(s, 1, Len(s))) = Len(s)
      /\ \A i \in 1..Len(s) : SubSeq(s, 1, Len(s))[i] = s[i]
  BY <1>1, <1>2, SubSeqProperties
<1>4. SubSeq(t, 1, Len(s)) \in Seq(Nat) /\ Len(SubSeq(t, 1, Len(s))) = Len(s)
      /\ \A i \in 1..Len(s) : SubSeq(t, 1, Len(s))[i] = t[i]
  BY <1>1, <1>2, SubSeqProperties
<1>5. SubSeq(s, 1, Len(s)) = SubSeq(t, 1, Len(s))
  BY <1>3, <1>4, SeqEqual
<1> QED
  BY <1>5 DEF PromisedConversion!IsPrefix

(* What is written carries different numbers of messages that were taken.  *)
LEMMA WrittenNumbers ==
    UnwrapInv => /\ \A i \in 1..Len(written) : written[i].src \in 1..Taken
                 /\ \A i, j \in 1..Len(written) : written[i].src = written[j].src => i = j
                 /\ written \in Seq(Entry) /\ Taken \in Nat
<1> SUFFICES ASSUME UnwrapInv
             PROVE  /\ \A i \in 1..Len(written) : written[i].src \in 1..Taken
                    /\ \A i, j \in 1..Len(written) : written[i].src = written[j].src => i = j
                    /\ written \in Seq(Entry) /\ Taken \in Nat
  OBVIOUS
<1>1. written \in Seq(Entry) /\ outBuffer \in Seq(Entry) /\ pushed \in Seq(Entry)
      /\ NothingLostOrDuplicated /\ Len(pushed) = Taken
  BY DEF UnwrapInv, BufferTypeOK
<1>2. /\ DOMAIN pushed = 1..Taken /\ Taken \in Nat
      /\ Len(written) \in Nat /\ Len(outBuffer) \in Nat
  BY <1>1
<1>3. /\ Output \in Seq(Entry) /\ Len(Output) = Len(written) + Len(outBuffer)
      /\ \A i \in 1..Len(written) : Output[i] = written[i]
  BY <1>1, ConcatFacts DEF Output
<1>4. \A i \in 1..Len(written) : i \in DOMAIN Output
  BY <1>2, <1>3
<1> QED
  BY <1>1, <1>2, <1>3, <1>4 DEF NothingLostOrDuplicated

LEMMA WrittenNumbersNext ==
    (UnwrapInv => /\ \A i \in 1..Len(written) : written[i].src \in 1..Taken
                  /\ \A i, j \in 1..Len(written) : written[i].src = written[j].src => i = j
                  /\ written \in Seq(Entry) /\ Taken \in Nat)'
  BY WrittenNumbers, PTL

(* A step of the buffer emits results that are due.                        *)
LEMMA StepEmits ==
    ASSUME UnwrapInv, UnwrapInv', [BufferNext]_bufferVars
    PROVE  PromisedConversion!Emit
<1>1. written \in Seq(Entry) /\ written' \in Seq(Entry) /\ BufferTypeOK
  BY WrittenNumbersNext DEF UnwrapInv, BufferTypeOK
<1>2. /\ Len(written) <= Len(written')
      /\ \A i \in 1..Len(written) : written'[i] = written[i]
  BY <1>1, WrittenGrows
<1>3. /\ Emitted \in Seq(Nat) /\ Len(Emitted) = Len(written) /\ Len(written) \in Nat
      /\ \A i \in 1..Len(written) : Emitted[i] = written[i].src
  BY <1>1, SourcesFacts DEF Emitted
<1>4. /\ Emitted' \in Seq(Nat) /\ Len(Emitted') = Len(written') /\ DOMAIN Emitted' = 1..Len(written')
      /\ \A i \in 1..Len(written') : Emitted'[i] = written'[i].src
      /\ Len(written') \in Nat
  BY <1>1, SourcesFacts DEF Emitted
<1>5. PromisedConversion!IsPrefix(Emitted, Emitted')
  <2>1. \A i \in 1..Len(Emitted) : Emitted[i] = Emitted'[i]
    BY <1>2, <1>3, <1>4
  <2> QED
    BY <1>2, <1>3, <1>4, <2>1, PrefixFacts
<1>6. PromisedConversion!IsInjective(Emitted')
  BY <1>4, WrittenNumbersNext DEF PromisedConversion!IsInjective
<1>7. PromisedConversion!ToSet(Emitted') \subseteq 1..Taken'
  BY <1>4, WrittenNumbersNext DEF PromisedConversion!ToSet
<1> QED
  BY <1>5, <1>6, <1>7 DEF PromisedConversion!Emit

(* An injection of 1..n into itself misses nothing.                        *)
LEMMA EveryNumber ==
    ASSUME NEW n \in Nat, NEW f \in [1..n -> 1..n],
           \A i, j \in 1..n : f[i] = f[j] => i = j
    PROVE  {f[i] : i \in 1..n} = 1..n
<1>1. IsFiniteSet(1..n)
  BY FS_Interval
<1>2. f \in Injection(1..n, 1..n)
  BY DEF Injection, IsInjective
<1>3. f \in Surjection(1..n, 1..n)
  BY <1>1, <1>2, FS_Injection
<1> QED
  BY <1>3 DEF Surjection

(* When the buffer is empty every message that was taken has its result.   *)
LEMMA AllEmitted ==
    UnwrapInv /\ Len(outBuffer) = 0 => PromisedConversion!ToSet(Emitted) = 1..Taken
<1> SUFFICES ASSUME UnwrapInv, Len(outBuffer) = 0
             PROVE  PromisedConversion!ToSet(Emitted) = 1..Taken
  OBVIOUS
<1>1. /\ \A i \in 1..Len(written) : written[i].src \in 1..Taken
      /\ \A i, j \in 1..Len(written) : written[i].src = written[j].src => i = j
      /\ written \in Seq(Entry) /\ Taken \in Nat
  BY WrittenNumbers
<1>2. Len(written) = Taken
  <2>1. outBuffer \in Seq(Entry) /\ Len(Output) = Taken
    BY DEF UnwrapInv, BufferTypeOK, NothingLostOrDuplicated
  <2>2. Len(Output) = Len(written) + Len(outBuffer)
    BY <1>1, <2>1, ConcatFacts DEF Output
  <2> QED
    BY <1>1, <2>1, <2>2
<1>3. /\ DOMAIN Emitted = 1..Taken /\ Emitted \in Seq(Nat) /\ Len(Emitted) = Taken
      /\ \A i \in 1..Taken : Emitted[i] = written[i].src
  BY <1>1, <1>2, SourcesFacts DEF Emitted
<1>4. Emitted \in [1..Taken -> 1..Taken]
  BY <1>1, <1>2, <1>3
<1>5. \A i, j \in 1..Taken : Emitted[i] = Emitted[j] => i = j
  BY <1>1, <1>2, <1>3
<1>6. {Emitted[i] : i \in 1..Taken} = 1..Taken
  BY <1>1, <1>4, <1>5, EveryNumber
<1> QED
  BY <1>3, <1>6 DEF PromisedConversion!ToSet

LEMMA AllEmittedNext ==
    (UnwrapInv /\ Len(outBuffer) = 0 => PromisedConversion!ToSet(Emitted) = 1..Taken)'
  BY AllEmitted, PTL

LEMMA FinishEmpties ==
    ASSUME UnwrapInv, Finish
    PROVE  Len(outBuffer') = 0
<1>1. outBuffer \in Seq(Entry) /\ BufferTypeOK
  BY DEF UnwrapInv, BufferTypeOK
<1>2. Len(outBuffer) \in 0..Len(outBuffer) /\ FlushBuffer(outBuffer, Len(outBuffer))
  BY <1>1 DEF Finish, FlushAll
<1>3. Len(outBuffer') = Len(outBuffer) - Len(outBuffer)
  BY <1>1, <1>2, FlushRearranges
<1> QED
  BY <1>1, <1>3

LEMMA StepConverts ==
    ASSUME UnwrapInv, UnwrapInv', [UnwrapNext]_unwrapVars
    PROVE  [PromisedConversion!Take \/ PromisedConversion!End]_<<Taken, Emitted, finished>>
<1>1. ASSUME NEW m \in Messages, ConvertMessage(m)
      PROVE  PromisedConversion!Take
  <2>1. /\ Taken' = Taken + 1 /\ [BufferNext]_bufferVars /\ ~finished /\ finished' = finished
    BY <1>1, ConvertInv, ConvertKeeps
  <2> QED
    BY <2>1, StepEmits DEF PromisedConversion!Take
<1>2. ASSUME NEW m \in Messages, AbortByCallback(m)
      PROVE  UNCHANGED <<Taken, Emitted, finished>>
  BY <1>2, AbortInv DEF AbortByCallback, buffer, bufferVars, Emitted
<1>3. CASE Finish
  <2>1. /\ Taken' = Taken /\ [BufferNext]_bufferVars /\ ~finished /\ finished' = TRUE
    BY <1>3, FinishInv
  <2>2. PromisedConversion!ToSet(Emitted') = 1..Taken
    BY <1>3, <2>1, FinishEmpties, AllEmittedNext
  <2> QED
    BY <2>1, <2>2, StepEmits DEF PromisedConversion!End
<1>4. CASE OpenOutput \/ UNCHANGED unwrapVars
  BY <1>4, OthersInv DEF Emitted
<1> QED
  BY <1>1, <1>2, <1>3, <1>4 DEF UnwrapNext

(* For every recording, every argument and every size of the buffer, and   *)
(* whichever messages can be decoded, the conversion writes exactly one    *)
(* result for each message it keeps, however flushes, reassembly and an    *)
(* abort come together (UnwrapCMP.cpp:757-918).                            *)
THEOREM UnwrapImplementsConversion == UnwrapSpec => ImplementsConversion
<1>1. UnwrapInit => PromisedConversion!Init
  <2> SUFFICES ASSUME UnwrapInit
               PROVE  Taken = 0 /\ Emitted = <<>> /\ finished = FALSE
    BY DEF PromisedConversion!Init
  <2>1. input = <<>> /\ written = <<>> /\ finished = FALSE /\ aborted = FALSE
    BY DEF UnwrapInit, BufferInit
  <2> QED
    BY <2>1, EmptySeq DEF Taken, Emitted
<1>2. UnwrapInv /\ UnwrapInv' /\ [UnwrapNext]_unwrapVars
      => [PromisedConversion!Take \/ PromisedConversion!End]_<<Taken, Emitted, finished>>
  BY StepConverts
<1> QED
  BY <1>1, <1>2, UnwrapInvariant, PTL DEF UnwrapSpec, ImplementsConversion,
     PromisedConversion!Spec, PromisedConversion!conversionVars
-------------------------------------------------------------------------------
(* Sorting messages that are in order moves none of them: an order of the  *)
(* sort that never goes down is the identity.                              *)
LEMMA OrderedFlush ==
    ASSUME BufferTypeOK, NEW buf \in Seq(Entry), NEW count \in 0..Len(buf),
           FlushBuffer(buf, count), KeysInOrder(buf)
    PROVE  Output' = written \o buf
<1>1. PICK order \in [1..Len(buf) -> 1..Len(buf)] :
         order \in WriteOrders(buf) /\ Rearranges(order, buf, count)
  BY FlushRearranges
<1>2. /\ Len(buf) \in Nat /\ DOMAIN buf = 1..Len(buf) /\ count \in Nat
      /\ written \in Seq(Entry) /\ Len(written) \in Nat
      /\ \A i \in 1..Len(buf) : buf[i] \in Entry /\ buf[i].key \in Nat
  BY EntryAssumption DEF BufferTypeOK
<1>3. \A i \in 1..Len(buf) : order[i] = i
  <2>1. CASE ~sortOutput
    BY <1>1, <1>2, <2>1 DEF WriteOrders
  <2>2. CASE sortOutput
    <3>1. ASSUME NEW i \in 1..Len(buf), NEW j \in 1..Len(buf), i < j
          PROVE  order[i] < order[j]
      <4>1. Before(buf, order[i], order[j])
        BY <1>1, <2>2, <3>1, SortedBefore
      <4>2. order[i] \in 1..Len(buf) /\ order[j] \in 1..Len(buf)
        OBVIOUS
      <4>3. order[j] < order[i] => buf[order[j]].key <= buf[order[i]].key
        BY <1>2, <4>2 DEF KeysInOrder
      <4>4. buf[order[i]].key \in Nat /\ buf[order[j]].key \in Nat
        BY <1>2, <4>2
      <4> QED
        BY <4>1, <4>2, <4>3, <4>4 DEF Before
    <3> QED
      BY <1>2, <3>1, IncreasingIsIdentity
  <2> QED
    BY <2>1, <2>2
<1>4. PICK w \in Seq(Entry), o \in Seq(Entry) : w = written' /\ o = outBuffer'
  BY <1>1 DEF Rearranges
<1>5. /\ Len(w) = Len(written) + count /\ Len(o) = Len(buf) - count
      /\ \A i \in 1..Len(written) : w[i] = written[i]
      /\ \A i \in 1..count : w[Len(written) + i] = buf[i]
      /\ \A i \in 1..(Len(buf) - count) : o[i] = buf[count + i]
  <2>1. /\ \A i \in 1..count : i \in 1..Len(buf)
        /\ \A i \in 1..(Len(buf) - count) : count + i \in 1..Len(buf)
    BY <1>2
  <2> QED
    BY <1>1, <1>3, <1>4, <2>1 DEF Rearranges
<1>6. /\ w \o o \in Seq(Entry) /\ Len(w \o o) = Len(written) + Len(buf)
      /\ \A i \in 1..Len(w) : (w \o o)[i] = w[i]
      /\ \A i \in 1..Len(o) : (w \o o)[Len(w) + i] = o[i]
  <2>1. /\ w \o o \in Seq(Entry) /\ Len(w \o o) = Len(w) + Len(o)
        /\ \A i \in 1..Len(w) : (w \o o)[i] = w[i]
        /\ \A i \in 1..Len(o) : (w \o o)[Len(w) + i] = o[i]
    BY ConcatFacts
  <2>2. Len(w) + Len(o) = Len(written) + Len(buf)
    BY <1>2, <1>5
  <2> QED
    BY <2>1, <2>2
<1>7. /\ written \o buf \in Seq(Entry) /\ Len(written \o buf) = Len(written) + Len(buf)
      /\ \A i \in 1..Len(written) : (written \o buf)[i] = written[i]
      /\ \A i \in 1..Len(buf) : (written \o buf)[Len(written) + i] = buf[i]
  BY <1>2, ConcatFacts
<1>8. ASSUME NEW i \in 1..(Len(written) + Len(buf))
      PROVE  (w \o o)[i] = (written \o buf)[i]
  <2>1. CASE i <= Len(written)
    BY <1>2, <1>5, <1>6, <1>7, <2>1
  <2>2. CASE i > Len(written) /\ i <= Len(written) + count
    <3>1. PICK k \in 1..count : i = Len(written) + k
      <4>1. i - Len(written) \in 1..count /\ i = Len(written) + (i - Len(written))
        BY <1>2, <2>2
      <4> QED
        BY <4>1
    <3>2. i \in 1..Len(w) /\ k \in 1..Len(buf)
      BY <1>2, <1>5, <2>2
    <3> QED
      BY <1>5, <1>6, <1>7, <3>1, <3>2
  <2>3. CASE i > Len(written) + count
    <3>1. PICK k \in 1..(Len(buf) - count) :
             i = Len(w) + k /\ i = Len(written) + (count + k) /\ count + k \in 1..Len(buf)
      <4> Len(written) \in Nat /\ Len(buf) \in Nat /\ count \in Nat
        BY <1>2
      <4>1. PICK W \in Nat, n \in Nat, c \in Nat : W = Len(written) /\ n = Len(buf) /\ c = count
        OBVIOUS
      <4>2. i \in 1..(W + n) /\ i > W + c
        BY <2>3, <4>1
      <4>3. PICK k \in 1..(n - c) : k = i - (W + c)
        BY <4>2
      <4>4. i = W + c + k /\ i = W + (c + k) /\ c + k \in 1..n
        BY <4>2, <4>3
      <4> QED
        BY <1>5, <4>1, <4>3, <4>4
    <3>2. (w \o o)[i] = o[k] /\ o[k] = buf[count + k]
      BY <1>5, <1>6, <3>1
    <3> QED
      BY <1>7, <3>1, <3>2
  <2>4. \/ i <= Len(written)
        \/ i > Len(written) /\ i <= Len(written) + count
        \/ i > Len(written) + count
    BY <1>2
  <2> QED
    BY <2>1, <2>2, <2>3, <2>4
<1>9. w \o o = written \o buf
  BY <1>6, <1>7, <1>8, SeqEqual
<1> QED
  BY <1>4, <1>9 DEF Output

(* The keys at the end of a sequence in order are in order.                *)
LEMMA OrderedEnd ==
    ASSUME NEW s \in Seq(Entry), NEW t \in Seq(Entry), KeysInOrder(s \o t)
    PROVE  KeysInOrder(t)
<1>1. /\ Len(s) \in Nat /\ Len(t) \in Nat /\ DOMAIN t = 1..Len(t)
      /\ DOMAIN (s \o t) = 1..(Len(s) + Len(t))
      /\ \A i \in 1..Len(t) : (s \o t)[Len(s) + i] = t[i]
  BY ConcatFacts
<1>2. ASSUME NEW i \in DOMAIN t, NEW j \in DOMAIN t, i < j
      PROVE  t[i].key <= t[j].key
  <2>1. PICK a, b : a = Len(s) + i /\ b = Len(s) + j
    OBVIOUS
  <2>2. a \in DOMAIN (s \o t) /\ b \in DOMAIN (s \o t) /\ a < b
    BY <1>1, <1>2, <2>1
  <2>3. (s \o t)[a].key <= (s \o t)[b].key
    BY <2>2 DEF KeysInOrder
  <2> QED
    BY <1>1, <2>1, <2>3
<1> QED
  BY <1>2 DEF KeysInOrder

(* As long as messages are pushed in order, the output is what was pushed. *)
LEMMA OrderedStep ==
    ASSUME BufferTypeOK, Output = pushed, [BufferNext]_bufferVars, KeysInOrder(pushed')
    PROVE  Output' = pushed'
<1>1. ASSUME NEW e \in Entry, PushMessage(e) PROVE Output' = pushed'
  <2>1. PICK buf : buf = Append(outBuffer, e)
    OBVIOUS
  <2>2. /\ buf \in Seq(Entry) /\ Len(buf) = Len(outBuffer) + 1 /\ Len(outBuffer) \in Nat
        /\ written \in Seq(Entry)
    BY <2>1 DEF BufferTypeOK
  <2>3. written \o buf = pushed'
    <3>1. PICK w \in Seq(Entry), o \in Seq(Entry) : w = written /\ o = outBuffer
      BY DEF BufferTypeOK
    <3>2. w \o Append(o, e) = Append(w \o o, e)
      OBVIOUS
    <3>3. written \o buf = Append(Output, e)
      BY <2>1, <3>1, <3>2 DEF Output
    <3> QED
      BY <1>1, <3>3 DEF PushMessage
  <2>4. CASE Len(buf) < Capacity
    <3>1. written' = written /\ outBuffer' = buf
      BY <1>1, <2>1, <2>2, <2>4, CapacityAssumption DEF PushMessage
    <3> QED
      BY <2>3, <3>1 DEF Output
  <2>5. CASE Len(buf) >= Capacity
    <3>1. FlushBuffer(buf, FlushSize) /\ FlushSize \in 0..Len(buf)
      BY <1>1, <2>1, <2>2, <2>5, CapacityAssumption DEF PushMessage
    <3>2. KeysInOrder(buf)
      BY <2>2, <2>3, OrderedEnd
    <3> QED
      BY <2>2, <2>3, <3>1, <3>2, OrderedFlush
  <2> QED
    BY <2>2, <2>4, <2>5, CapacityAssumption
<1>2. CASE FlushAll
  <2>1. /\ outBuffer \in Seq(Entry) /\ Len(outBuffer) \in 0..Len(outBuffer)
        /\ written \in Seq(Entry)
        /\ FlushBuffer(outBuffer, Len(outBuffer)) /\ pushed' = pushed
    BY <1>2 DEF BufferTypeOK, FlushAll
  <2>2. written \o outBuffer = pushed
    BY DEF Output
  <2>3. KeysInOrder(outBuffer)
    BY <2>1, <2>2, OrderedEnd
  <2> QED
    BY <2>1, <2>2, <2>3, OrderedFlush
<1>3. CASE UNCHANGED bufferVars
  BY <1>3 DEF Output, bufferVars
<1> QED
  BY <1>1, <1>2, <1>3 DEF BufferNext

(* With the outer timestamps the key of a result is the time of its        *)
(* message.                                                                *)
KeysAreTimes ==
    args.timestampSource = "outer"
        => \A k \in 1..Len(pushed) : pushed[k].key = input[k].time

TimesInOrder(s) == \A i, j \in DOMAIN s : i < j => s[i].time <= s[j].time

LEMMA ShorterInOrder ==
    ASSUME NEW s \in Seq(Messages), NEW m \in Messages, TimesInOrder(Append(s, m))
    PROVE  TimesInOrder(s)
<1>1. /\ DOMAIN s = 1..Len(s) /\ DOMAIN Append(s, m) = 1..(Len(s) + 1) /\ Len(s) \in Nat
      /\ \A i \in 1..Len(s) : Append(s, m)[i] = s[i]
  OBVIOUS
<1>2. \A i \in 1..Len(s) : i \in 1..(Len(s) + 1)
  BY <1>1
<1> QED
  BY <1>1, <1>2 DEF TimesInOrder

LEMMA KeysFromTimes ==
    ASSUME input \in Seq(Messages), pushed \in Seq(Entry), Len(pushed) <= Len(input),
           KeysAreTimes, args.timestampSource = "outer", TimesInOrder(input)
    PROVE  KeysInOrder(pushed)
<1>1. /\ DOMAIN pushed = 1..Len(pushed) /\ DOMAIN input = 1..Len(input)
      /\ Len(pushed) \in Nat /\ Len(input) \in Nat
  OBVIOUS
<1>2. \A k \in 1..Len(pushed) : k \in DOMAIN input /\ pushed[k].key = input[k].time
  BY <1>1 DEF KeysAreTimes
<1> QED
  BY <1>1, <1>2 DEF KeysInOrder, TimesInOrder

LEMMA KeysFromTimesNext ==
    ASSUME input' \in Seq(Messages), pushed' \in Seq(Entry), Len(pushed') <= Len(input'),
           KeysAreTimes', (args.timestampSource = "outer")', TimesInOrder(input')
    PROVE  KeysInOrder(pushed')
<1>1. /\ DOMAIN pushed' = 1..Len(pushed') /\ DOMAIN input' = 1..Len(input')
      /\ Len(pushed') \in Nat /\ Len(input') \in Nat
  OBVIOUS
<1>2. \A k \in 1..Len(pushed') : k \in DOMAIN input' /\ pushed'[k].key = input'[k].time
  BY <1>1 DEF KeysAreTimes
<1> QED
  BY <1>1, <1>2 DEF KeysInOrder, TimesInOrder

(* What is read and what is pushed of it.                                  *)
LEMMA PushedOfInput ==
    UnwrapInv => /\ input \in Seq(Messages) /\ Len(input) \in Nat /\ DOMAIN input = 1..Len(input)
                 /\ pushed \in Seq(Entry) /\ Len(pushed) \in Nat
                 /\ Len(pushed) <= Len(input)
                 /\ ~aborted => Len(pushed) = Len(input)
  BY DEF UnwrapInv, Taken, BufferTypeOK

LEMMA PushedOfInputNext ==
    (UnwrapInv => /\ input \in Seq(Messages) /\ Len(input) \in Nat /\ DOMAIN input = 1..Len(input)
                  /\ pushed \in Seq(Entry) /\ Len(pushed) \in Nat
                  /\ Len(pushed) <= Len(input)
                  /\ ~aborted => Len(pushed) = Len(input))'
  BY PushedOfInput, PTL

LEMMA KeysStayTimes ==
    ASSUME UnwrapInv, KeysAreTimes, [UnwrapNext]_unwrapVars
    PROVE  KeysAreTimes' /\ args' = args
<1>1. ASSUME NEW m \in Messages, ConvertMessage(m) PROVE KeysAreTimes' /\ args' = args
  <2>1. PICK e \in Entry : IsResult(e, m) /\ PushMessage(e)
    BY <1>1, ConvertPushes
  <2>2. /\ pushed' = Append(pushed, e) /\ input' = Append(input, m) /\ args' = args
        /\ ~aborted
    BY <1>1, <2>1 DEF PushMessage, ConvertMessage, ReadSuccess, control
  <2>3. /\ Len(pushed') = Len(pushed) + 1
        /\ pushed'[Len(pushed) + 1] = e
        /\ \A k \in 1..Len(pushed) : pushed'[k] = pushed[k]
        /\ Len(pushed) \in Nat /\ Len(pushed) = Len(input)
    BY <2>2, PushedOfInput, AppendFacts
  <2>4. /\ input'[Len(input) + 1] = m
        /\ \A k \in 1..Len(input) : input'[k] = input[k]
    BY <2>2, PushedOfInput, AppendFacts
  <2>5. args.timestampSource = "outer" => e.key = m.time
    BY <2>1 DEF IsResult
  <2> QED
    BY <2>2, <2>3, <2>4, <2>5 DEF KeysAreTimes
<1>2. ASSUME NEW m \in Messages, AbortByCallback(m) PROVE KeysAreTimes' /\ args' = args
  <2>1. /\ pushed' = pushed /\ input' = Append(input, m) /\ args' = args
    BY <1>2 DEF AbortByCallback, ReadSuccess, buffer, bufferVars
  <2>2. /\ \A k \in 1..Len(input) : input'[k] = input[k]
        /\ \A k \in 1..Len(pushed) : k \in 1..Len(input)
    BY <2>1, PushedOfInput, AppendFacts
  <2> QED
    BY <2>1, <2>2 DEF KeysAreTimes
<1>3. CASE Finish
  BY <1>3 DEF Finish, FlushAll, KeysAreTimes
<1>4. CASE OpenOutput \/ UNCHANGED unwrapVars
  BY <1>4 DEF OpenOutput, unwrapVars, control, buffer, bufferVars, KeysAreTimes
<1> QED
  BY <1>1, <1>2, <1>3, <1>4 DEF UnwrapNext

LEMMA OuterStep ==
    ASSUME UnwrapInv, UnwrapInv', KeysAreTimes, OuterTimestampsKeepOrder,
           [UnwrapNext]_unwrapVars
    PROVE  OuterTimestampsKeepOrder'
<1>1. KeysAreTimes' /\ args' = args
  BY KeysStayTimes
<1> SUFFICES ASSUME (args.timestampSource = "outer")', TimesInOrder(input')
             PROVE  Output' = pushed'
  BY DEF OuterTimestampsKeepOrder, TimesInOrder
<1>2. KeysInOrder(pushed')
  BY <1>1, PushedOfInputNext, KeysFromTimesNext
<1>3. TimesInOrder(input) /\ [BufferNext]_bufferVars
  <2>1. ASSUME NEW m \in Messages, ConvertMessage(m) \/ AbortByCallback(m)
        PROVE  TimesInOrder(input) /\ [BufferNext]_bufferVars
    <3>1. input' = Append(input, m) /\ input \in Seq(Messages)
      BY <2>1, PushedOfInput DEF ConvertMessage, AbortByCallback, ReadSuccess
    <3>2. [BufferNext]_bufferVars
      BY <2>1, ConvertKeeps DEF AbortByCallback, buffer
    <3> QED
      BY <3>1, <3>2, ShorterInOrder
  <2>2. CASE Finish
    BY <2>2, FinishInv DEF Finish
  <2>3. CASE OpenOutput \/ UNCHANGED unwrapVars
    BY <2>3 DEF OpenOutput, unwrapVars, buffer
  <2> QED
    BY <2>1, <2>2, <2>3 DEF UnwrapNext
<1>4. Output = pushed
  BY <1>1, <1>3 DEF OuterTimestampsKeepOrder, TimesInOrder
<1> QED
  BY <1>2, <1>3, <1>4, OrderedStep DEF UnwrapInv

(* "use 1 to maintain chronological order with other logged messages"      *)
(* (VSBIODLL.h:280), for every recording: with the outer timestamp the     *)
(* sorted, partially flushed output of a recording in order is the         *)
(* sequence that was pushed.                                               *)
THEOREM OuterOrderKept == UnwrapSpec => []OuterTimestampsKeepOrder
<1>1. UnwrapInit => KeysAreTimes /\ OuterTimestampsKeepOrder
  BY EmptySeq DEF UnwrapInit, BufferInit, KeysAreTimes, OuterTimestampsKeepOrder, Output
<1>2. /\ UnwrapInv /\ UnwrapInv' /\ KeysAreTimes /\ OuterTimestampsKeepOrder
      /\ [UnwrapNext]_unwrapVars
      => KeysAreTimes' /\ OuterTimestampsKeepOrder'
  BY KeysStayTimes, OuterStep
<1> QED
  BY <1>1, <1>2, UnwrapInvariant, PTL DEF UnwrapSpec
-------------------------------------------------------------------------------
(* What a turn of the loop does to the messages that are kept, and to the  *)
(* reassembly.                                                             *)
LEMMA KeptFacts ==
    ASSUME UnwrapInv
    PROVE  /\ Kept \in Seq(Messages) /\ Len(Kept) = Len(pushed) /\ Len(pushed) \in Nat
           /\ ~aborted => Kept = input
<1>1. /\ input \in Seq(Messages) /\ Len(pushed) \in 0..Len(input) /\ Len(pushed) \in Nat
      /\ ~aborted => Len(pushed) = Len(input)
  BY PushedOfInput
<1> QED
  BY <1>1, FrontFacts, FrontIsAll DEF Kept

LEMMA ConvertKeepsMessage ==
    ASSUME UnwrapInv, NEW m \in Messages, ConvertMessage(m)
    PROVE  /\ input' = Append(input, m) /\ input \in Seq(Messages)
           /\ Len(pushed) = Len(input) /\ Len(input) \in Nat
           /\ Kept = input /\ Kept' = Append(Kept, m)
<1>1. /\ input' = Append(input, m) /\ ~aborted /\ aborted' = aborted
  BY DEF ConvertMessage, ReadSuccess, control
<1>2. Kept = input /\ Len(pushed) = Len(input) /\ input \in Seq(Messages) /\ Len(input) \in Nat
  BY <1>1, PushedOfInput, KeptFacts
<1>3. Len(pushed') = Len(input) + 1
  BY <1>2, ConvertKeeps
<1>4. input' \in Seq(Messages) /\ Len(input') = Len(input) + 1
  BY <1>1, <1>2
<1>5. SubSeq(input', 1, Len(input')) = input'
  BY <1>4, FrontIsAll
<1> QED
  BY <1>1, <1>2, <1>3, <1>4, <1>5 DEF Kept

LEMMA AbortKeepsMessages ==
    ASSUME UnwrapInv, NEW m \in Messages, AbortByCallback(m)
    PROVE  Kept' = Kept /\ pushed' = pushed
<1>1. input' = Append(input, m) /\ pushed' = pushed
  BY DEF AbortByCallback, ReadSuccess, buffer, bufferVars
<1>2. input \in Seq(Messages) /\ Len(pushed) \in 0..Len(input)
  BY PushedOfInput
<1> QED
  BY <1>1, <1>2, FrontOfAppend DEF Kept

LEMMA OtherStepsKeep ==
    ASSUME OpenOutput \/ Finish \/ UNCHANGED unwrapVars
    PROVE  /\ input' = input /\ pushed' = pushed /\ Kept' = Kept
           /\ UNCHANGED reassemblyVars /\ UNCHANGED detectorVars
<1>1. /\ input' = input /\ pushed' = pushed
      /\ UNCHANGED reassemblyVars /\ UNCHANGED detectorVars
  BY DEF OpenOutput, Finish, FlushAll, unwrapVars, reassembly, detector, buffer, bufferVars
<1> QED
  BY <1>1 DEF Kept

LEMMA ConvertCalls ==
    ASSUME NEW m \in Messages, ConvertMessage(m)
    PROVE  /\ m.kind = "ethernet" => TryUnwrapCmpEthernet(m)
           /\ m.kind # "ethernet" => UNCHANGED reassemblyVars
<1>1. CASE PassPlain(m)
  BY <1>1 DEF PassPlain, reassembly
<1>2. CASE PassOtherCmp(m)
  BY <1>2 DEF PassOtherCmp, reassembly
<1>3. CASE UnwrapBus(m)
  BY <1>3 DEF UnwrapBus, BusKinds, reassembly
<1>4. CASE UnwrapEthernet(m)
  BY <1>4 DEF UnwrapEthernet
<1> QED
  BY <1>1, <1>2, <1>3, <1>4 DEF ConvertMessage

-------------------------------------------------------------------------------
(* Which results are native.  A result is found native when a frame ends   *)
(* with its message.                                                       *)
EndsAt(c) == \E i \in DOMAIN frames : frames[i].data[Len(frames[i].data)] = c

NativeInv ==
    /\ CallOf(Len(pushed)) = Len(calls)
    /\ \A k \in 1..Len(pushed) : CallOf(k) \in 0..Len(calls)
    /\ \A k \in 1..Len(pushed) :
          pushed[k].native <=>
            \/ /\ input[k].kind \in BusKinds /\ input[k].wellFormed
               /\ CmpMapLookup16(input[k].device, input[k].interface)
            \/ input[k].kind = "ethernet" /\ EndsAt(CallOf(k))

LEMMA AppendedEnds ==
    ASSUME ReassemblyTypeOK, NEW m \in Messages, TryUnwrapCmpEthernet(m)
    PROVE  \/ frames' = frames
           \/ \E f : frames' = Append(frames, f) /\ f.data[Len(f.data)] = NewData
<1>1. PICK S \in SUBSET Streams : segmentContexts \in [S -> Context]
  BY DEF ReassemblyTypeOK
<1>2. calls \in Seq(Messages) /\ NewData \in Nat
  BY DEF ReassemblyTypeOK, NewData
<1>3. CASE Unsegmented(m) /\ frames' # frames
  <2>1. PICK f : f = [data |-> <<NewData>>, deviceId |-> m.device,
                      interfaceId |-> m.interface, timestamp |-> m.stamp]
    OBVIOUS
  <2>2. frames' = Append(frames, f) /\ f.data = <<NewData>>
    BY <1>3, <2>1 DEF Unsegmented
  <2> QED
    BY <2>2
<1>4. CASE SegEnd(m) /\ frames' # frames
  <2>1. PICK ctx \in Context : ctx = segmentContexts[m.stream]
    BY <1>1, <1>4 DEF SegEnd, InSequence, HasContext
  <2>2. PICK data \in Seq(Nat) : data = ctx.accumulatedData
    BY <2>1 DEF Context
  <2>3. PICK f : f = [data |-> Append(data, NewData), deviceId |-> ctx.deviceId,
                      interfaceId |-> ctx.interfaceId, timestamp |-> ctx.timestamp]
    OBVIOUS
  <2>4. frames' = Append(frames, f)
    BY <1>4, <2>1, <2>2, <2>3 DEF SegEnd
  <2>5. f.data = Append(data, NewData)
    BY <2>3
  <2>6. Append(data, NewData)[Len(Append(data, NewData))] = NewData
    BY <1>2
  <2> QED
    BY <2>4, <2>5, <2>6
<1> QED
  BY <1>3, <1>4 DEF TryUnwrapCmpEthernet, Malformed, SegStart, SegOutOfSequence, SegContinuation

LEMMA EndsWithin ==
    ASSUME ReassemblyTypeOK, FramesOnStream, NEW i \in DOMAIN frames
    PROVE  frames[i].data[Len(frames[i].data)] \in DOMAIN calls
<1>1. PICK f \in Frame : f = frames[i]
  BY DEF ReassemblyTypeOK
<1>2. IsWhole(Devices, f.data) /\ f.data \in Seq(Nat)
  BY <1>1 DEF FramesOnStream, FrameIsWhole, Frame
<1>3. CASE Len(f.data) = 1
  BY <1>1, <1>2, <1>3 DEF IsWhole
<1>4. CASE Len(f.data) > 1
  <2>1. \A k \in DOMAIN f.data : f.data[k] \in DOMAIN calls
    BY <1>2, <1>4 DEF IsWhole, IsChain
  <2>2. Len(f.data) \in DOMAIN f.data
    BY <1>2, <1>4
  <2> QED
    BY <1>1, <2>1, <2>2
<1> QED
  BY <1>2, <1>3, <1>4 DEF IsWhole

LEMMA CallEnds ==
    ASSUME ReassemblyTypeOK, FramesOnStream, NEW m \in Messages, TryUnwrapCmpEthernet(m),
           NEW n, n = Len(calls)
    PROVE  /\ Len(calls') = n + 1 /\ n \in Nat
           /\ \A c \in 0..n : EndsAt(c)' <=> EndsAt(c)
           /\ EndsAt(n + 1)' <=> frames' # frames
<1>1. /\ calls \in Seq(Messages) /\ calls' = Append(calls, m) /\ frames \in Seq(Frame)
      /\ n \in Nat /\ DOMAIN calls = 1..n
  BY DEF ReassemblyTypeOK, TryUnwrapCmpEthernet
<1>2. Len(calls') = n + 1
  BY <1>1
<1>4. \A i \in DOMAIN frames : frames[i].data[Len(frames[i].data)] \in 1..n
  BY <1>1, EndsWithin
<1>5. ~EndsAt(n + 1)
  BY <1>1, <1>4 DEF EndsAt
<1>6. CASE frames' = frames
  <2>1. \A c : EndsAt(c)' <=> EndsAt(c)
    BY <1>6 DEF EndsAt
  <2> QED
    BY <1>1, <1>2, <1>5, <1>6, <2>1
<1>7. ASSUME NEW f, frames' = Append(frames, f), f.data[Len(f.data)] = NewData
      PROVE  /\ \A c \in 0..n : EndsAt(c)' <=> EndsAt(c)
             /\ EndsAt(n + 1)' <=> frames' # frames
  <2>1. /\ DOMAIN frames' = DOMAIN frames \cup {Len(frames) + 1}
        /\ \A i \in DOMAIN frames : frames'[i] = frames[i]
        /\ frames'[Len(frames) + 1] = f
        /\ frames' # frames
    BY <1>1, <1>7
  <2>2. f.data[Len(f.data)] = n + 1
    BY <1>7 DEF NewData
  <2>3. ASSUME NEW c \in 0..n PROVE EndsAt(c)' <=> EndsAt(c)
    <3>1. c # n + 1
      BY <1>1
    <3>2. EndsAt(c) => EndsAt(c)'
      BY <2>1 DEF EndsAt
    <3>3. EndsAt(c)' => EndsAt(c)
      BY <2>1, <2>2, <3>1 DEF EndsAt
    <3> QED
      BY <3>2, <3>3
  <2>4. EndsAt(n + 1)'
    BY <2>1, <2>2 DEF EndsAt
  <2> QED
    BY <2>1, <2>3, <2>4
<1>8. /\ \A c \in 0..n : EndsAt(c)' <=> EndsAt(c)
      /\ EndsAt(n + 1)' <=> frames' # frames
  BY <1>6, <1>7, AppendedEnds
<1> QED
  BY <1>1, <1>2, <1>8

(* The number of a call does not change when more is read.                 *)
LEMMA CallOfStays ==
    ASSUME input \in Seq(Messages), NEW m \in Messages, input' = Append(input, m),
           NEW n, n = Len(input)
    PROVE  /\ \A k \in 0..n : CallOf(k)' = CallOf(k) /\ CallOf(k) \in Nat
           /\ CallOf(n + 1)' = IF m.kind = "ethernet" THEN CallOf(n) + 1 ELSE CallOf(n)
<1>1. \A k \in 0..n : CallOf(k)' = CallOf(k)
  BY FrontOfAppend DEF CallOf
<1>2. ASSUME NEW k \in 0..n PROVE CallOf(k) \in Nat
  <2>1. SubSeq(input, 1, k) \in Seq(Messages)
    BY FrontFacts
  <2>2. Selected(SubSeq(input, 1, k), EthernetMessages) \in Seq(Messages)
    BY <2>1, SelectedFacts
  <2> QED
    BY <2>2 DEF CallOf
<1>3. SubSeq(input, 1, n) = input
  BY FrontIsAll
<1>4. SubSeq(input', 1, n + 1) = Append(input, m)
  <2>1. PICK t \in Seq(Messages) : t = Append(input, m) /\ Len(t) = n + 1
    BY AppendFacts
  <2>2. SubSeq(t, 1, Len(t)) = t
    BY FrontIsAll
  <2> QED
    BY <2>1, <2>2
<1>5. PICK s \in Seq(Messages) : s = Selected(input, EthernetMessages)
  BY SelectedFacts
<1>6. Selected(Append(input, m), EthernetMessages)
        = IF m \in EthernetMessages THEN Append(Selected(input, EthernetMessages), m)
          ELSE Selected(input, EthernetMessages)
  BY SelectedAppend
<1>7. Len(Append(s, m)) = Len(s) + 1
  BY AppendFacts
<1>8. m \in EthernetMessages <=> m.kind = "ethernet"
  BY DEF EthernetMessages
<1>9. CallOf(n) = Len(s)
  BY <1>3, <1>5 DEF CallOf
<1>10. CallOf(n + 1)' = Len(Selected(Append(input, m), EthernetMessages))
  BY <1>4 DEF CallOf, EthernetMessages
<1>11. CallOf(n + 1)' = Len(IF m.kind = "ethernet" THEN Append(s, m) ELSE s)
  BY <1>5, <1>6, <1>8, <1>10
<1> QED
  BY <1>1, <1>2, <1>7, <1>9, <1>11

LEMMA ConvertKeepsNative ==
    ASSUME UnwrapInv, NativeInv, NEW m \in Messages, ConvertMessage(m)
    PROVE  NativeInv'
<1>1. /\ input' = Append(input, m) /\ input \in Seq(Messages)
      /\ Len(pushed) = Len(input) /\ Len(input) \in Nat
  BY ConvertKeepsMessage
<1>2. PICK e \in Entry : IsResult(e, m) /\ PushMessage(e)
  BY ConvertPushes
<1>3. PICK n \in Nat : n = Len(pushed)
  BY <1>1
<1>4. /\ Len(pushed') = n + 1 /\ pushed'[n + 1] = e
      /\ \A k \in 1..n : pushed'[k] = pushed[k]
  <2>1. pushed' = Append(pushed, e) /\ pushed \in Seq(Entry)
    BY <1>2, PushedOfInput DEF PushMessage
  <2> QED
    BY <1>3, <2>1, AppendFacts
<1>5. /\ input'[n + 1] = m /\ \A k \in 1..n : input'[k] = input[k]
  BY <1>1, <1>3, AppendFacts
<1>6. /\ \A k \in 0..n : CallOf(k)' = CallOf(k) /\ CallOf(k) \in Nat
      /\ CallOf(n + 1)' = IF m.kind = "ethernet" THEN CallOf(n) + 1 ELSE CallOf(n)
  BY <1>1, <1>3, CallOfStays
<1>7. PICK c \in Nat : c = Len(calls) /\ c = CallOf(n)
  BY <1>3, <1>6 DEF NativeInv
<1>8. ReassemblyTypeOK /\ FramesOnStream
  BY DEF UnwrapInv
<1>9. /\ Len(calls') = IF m.kind = "ethernet" THEN c + 1 ELSE c
      /\ \A d \in 0..c : EndsAt(d)' <=> EndsAt(d)
      /\ m.kind = "ethernet" => (EndsAt(c + 1)' <=> frames' # frames)
  <2>1. CASE m.kind = "ethernet"
    <3>1. TryUnwrapCmpEthernet(m)
      BY <2>1, ConvertCalls
    <3>2. c = Len(calls)
      BY <1>7
    <3>3. /\ Len(calls') = c + 1
          /\ \A d \in 0..c : EndsAt(d)' <=> EndsAt(d)
          /\ EndsAt(c + 1)' <=> frames' # frames
      BY <1>8, <3>1, <3>2, CallEnds
    <3> QED
      BY <2>1, <3>3
  <2>2. CASE m.kind # "ethernet"
    <3>1. UNCHANGED reassemblyVars
      BY <2>2, ConvertCalls
    <3> QED
      BY <1>7, <2>2, <3>1 DEF reassemblyVars, EndsAt
  <2> QED
    BY <2>1, <2>2
<1>10. \A k \in 1..n : CallOf(k) \in 0..c
  BY <1>3, <1>7 DEF NativeInv
<1>11. CallOf(n + 1)' = Len(calls')
  BY <1>6, <1>7, <1>9
<1>12. Len(calls') \in Nat /\ c <= Len(calls')
  BY <1>9
<1>13. ASSUME NEW k \in 1..(n + 1) PROVE CallOf(k)' \in 0..Len(calls')
  <2>1. CASE k = n + 1
    BY <1>11, <1>12, <2>1
  <2>2. CASE k # n + 1
    <3>1. k \in 1..n /\ k \in 0..n
      BY <2>2
    <3> QED
      BY <1>6, <1>10, <1>12, <3>1
  <2> QED
    BY <2>1, <2>2
<1>14. ASSUME NEW k \in 1..n
       PROVE  pushed'[k].native <=>
                \/ /\ input'[k].kind \in BusKinds /\ input'[k].wellFormed
                   /\ CmpMapLookup16(input'[k].device, input'[k].interface)
                \/ input'[k].kind = "ethernet" /\ EndsAt(CallOf(k))'
  <2>1. k \in 0..n /\ CallOf(k) \in 0..c
    BY <1>10
  <2>2. PICK d : d = CallOf(k) /\ d = CallOf(k)'
    BY <1>6, <2>1
  <2>3. EndsAt(d)' <=> EndsAt(d)
    BY <1>9, <2>1, <2>2
  <2>4. EndsAt(CallOf(k))' <=> EndsAt(CallOf(k))
    BY <2>2, <2>3 DEF EndsAt
  <2> QED
    BY <1>3, <1>4, <1>5, <2>4 DEF NativeInv
<1>15. pushed'[n + 1].native <=>
                \/ /\ input'[n + 1].kind \in BusKinds /\ input'[n + 1].wellFormed
                   /\ CmpMapLookup16(input'[n + 1].device, input'[n + 1].interface)
                \/ input'[n + 1].kind = "ethernet" /\ EndsAt(CallOf(n + 1))'
  <2>1. m.kind = "ethernet" => (EndsAt(CallOf(n + 1))' <=> frames' # frames)
    <3>1. m.kind = "ethernet" => CallOf(n + 1)' = c + 1
      BY <1>6, <1>7
    <3> QED
      BY <1>9, <3>1 DEF EndsAt
  <2>2. e.native <=> Decodes(m)
    BY <1>2 DEF IsResult
  <2> QED
    BY <1>4, <1>5, <2>1, <2>2 DEF Decodes
<1>16. \A k \in 1..(n + 1) :
           pushed'[k].native <=>
                \/ /\ input'[k].kind \in BusKinds /\ input'[k].wellFormed
                   /\ CmpMapLookup16(input'[k].device, input'[k].interface)
                \/ input'[k].kind = "ethernet" /\ EndsAt(CallOf(k))'
  <2>1. \A k \in 1..(n + 1) : k \in 1..n \/ k = n + 1
    OBVIOUS
  <2> QED
    BY <1>14, <1>15, <2>1
<1> QED
  BY <1>4, <1>11, <1>13, <1>16 DEF NativeInv, CmpMapLookup16

LEMMA NativeInit ==
    ASSUME UnwrapInit
    PROVE  NativeInv /\ OpenChainsActive /\ WholeReturned
<1>1. input = <<>> /\ pushed = <<>> /\ calls = <<>>
  BY DEF UnwrapInit, BufferInit, ReassemblyInit
<1>2. Len(pushed) = 0 /\ Len(calls) = 0 /\ 1..0 = {}
  BY <1>1
<1>3. SubSeq(<<>>, 1, 0) = <<>> /\ Selected(<<>>, EthernetMessages) = <<>>
  BY SubSeqEmpty, EmptySeq, SelectedFacts
<1>4. CallOf(0) = 0
  <2>1. CallOf(0) = Len(Selected(SubSeq(<<>>, 1, 0), EthernetMessages))
    BY <1>1 DEF CallOf
  <2> QED
    BY <1>1, <1>2, <1>3, <2>1
<1>5. NativeInv
  BY <1>2, <1>4 DEF NativeInv
<1>6. OpenChainsActive /\ WholeReturned
  BY NothingOpen DEF UnwrapInit
<1> QED
  BY <1>5, <1>6

LEMMA OthersKeepNative ==
    ASSUME UnwrapInv, NativeInv,
           \/ \E m \in Messages : AbortByCallback(m)
           \/ OpenOutput \/ Finish \/ UNCHANGED unwrapVars
    PROVE  NativeInv'
<1>1. UNCHANGED reassemblyVars /\ pushed' = pushed /\ Len(pushed) \in 0..Len(input)
  BY PushedOfInput, OtherStepsKeep
     DEF AbortByCallback, reassembly, buffer, bufferVars
<1>2. PICK n \in Nat : n = Len(pushed) /\ n <= Len(input)
  BY <1>1
<1>3. \A k \in 0..n : CallOf(k)' = CallOf(k)
  <2>1. CASE \E m \in Messages : AbortByCallback(m)
    <3>1. PICK m \in Messages : input' = Append(input, m)
      BY <2>1 DEF AbortByCallback, ReadSuccess
    <3>2. PICK l : l = Len(input)
      OBVIOUS
    <3>3. input \in Seq(Messages)
      BY DEF UnwrapInv
    <3>4. \A k \in 0..l : CallOf(k)' = CallOf(k)
      BY <3>1, <3>2, <3>3, CallOfStays
    <3> QED
      BY <1>2, <3>2, <3>3, <3>4
  <2>2. CASE OpenOutput \/ Finish \/ UNCHANGED unwrapVars
    BY <2>2, OtherStepsKeep DEF CallOf
  <2> QED
    BY <2>1, <2>2
<1>4. \A k \in 1..n : k \in 0..n /\ input'[k] = input[k]
  <2>1. CASE \E m \in Messages : AbortByCallback(m)
    <3>1. PICK m \in Messages : input' = Append(input, m)
      BY <2>1 DEF AbortByCallback, ReadSuccess
    <3>2. input \in Seq(Messages)
      BY DEF UnwrapInv
    <3> QED
      BY <1>2, <3>1, <3>2, AppendFacts
  <2>2. CASE OpenOutput \/ Finish \/ UNCHANGED unwrapVars
    BY <2>2, OtherStepsKeep
  <2> QED
    BY <2>1, <2>2
<1>5. CallOf(n)' = Len(calls')
  BY <1>1, <1>2, <1>3 DEF NativeInv, reassemblyVars
<1>6. ASSUME NEW k \in 1..n
      PROVE  /\ CallOf(k)' \in 0..Len(calls')
             /\ pushed'[k].native <=>
                \/ /\ input'[k].kind \in BusKinds /\ input'[k].wellFormed
                   /\ CmpMapLookup16(input'[k].device, input'[k].interface)
                \/ input'[k].kind = "ethernet" /\ EndsAt(CallOf(k))'
  <2>1. CallOf(k)' = CallOf(k) /\ calls' = calls /\ frames' = frames
    BY <1>1, <1>3, <1>4 DEF reassemblyVars
  <2>2. EndsAt(CallOf(k))' <=> EndsAt(CallOf(k))
    BY <2>1 DEF EndsAt
  <2> QED
    BY <1>1, <1>2, <1>4, <2>1, <2>2 DEF NativeInv
<1>7. Len(pushed') = n
  BY <1>1, <1>2
<1> QED
  BY <1>5, <1>6, <1>7 DEF NativeInv, CmpMapLookup16

LEMMA StepKeepsNative ==
    ASSUME UnwrapInv, NativeInv, OpenChainsActive, WholeReturned, [UnwrapNext]_unwrapVars
    PROVE  NativeInv' /\ OpenChainsActive' /\ WholeReturned'
<1>1. NativeInv'
  BY ConvertKeepsNative, OthersKeepNative DEF UnwrapNext
<1>2. ASSUME UNCHANGED reassemblyVars PROVE OpenChainsActive' /\ WholeReturned'
  BY <1>2, NothingChanges
<1>3. ASSUME NEW m \in Messages, TryUnwrapCmpEthernet(m)
      PROVE  OpenChainsActive' /\ WholeReturned'
  BY <1>3, CallKeepsOpenChains, CallKeepsReturned DEF UnwrapInv
<1>4. UNCHANGED reassemblyVars \/ \E m \in Messages : TryUnwrapCmpEthernet(m)
  <2>1. CASE \E m \in Messages : AbortByCallback(m)
    BY <2>1 DEF AbortByCallback, reassembly
  <2> QED
    BY <2>1, ConvertCalls, OtherStepsKeep DEF UnwrapNext
<1> QED
  BY <1>1, <1>2, <1>3, <1>4

(* A frame ends with a call exactly when the call completes one.           *)
Completed(p, q, data) ==
    /\ data # <<>> /\ data[1] = p /\ data[Len(data)] = q
    /\ IsWhole(Devices, data)
    /\ CmpMapLookup16(calls[p].device, calls[p].interface)

LEMMA EndIsCompletion ==
    ASSUME ReassemblyTypeOK, FramesOnStream, WholeReturned, NEW q \in Nat
    PROVE  EndsAt(q) <=> \E p \in 1..q : Completed(p, q, IF p = q THEN <<p>> ELSE ChainOf(Devices, p, q))
<1>1. calls \in Seq(Messages)
  BY DEF ReassemblyTypeOK
<1>2. ASSUME EndsAt(q)
      PROVE  \E p \in 1..q : Completed(p, q, IF p = q THEN <<p>> ELSE ChainOf(Devices, p, q))
  <2>1. PICK i \in DOMAIN frames : frames[i].data[Len(frames[i].data)] = q
    BY <1>2 DEF EndsAt
  <2>2. PICK f \in Frame : f = frames[i]
    BY DEF ReassemblyTypeOK
  <2>3. PICK data \in Seq(Nat) : data = f.data /\ data[Len(data)] = q
    BY <2>1, <2>2 DEF Frame
  <2>4. IsWhole(Devices, data) /\ CmpMapLookup16(calls[data[1]].device, calls[data[1]].interface)
    <3>1. FrameIsWhole(Devices, f)
      BY <2>2 DEF FramesOnStream
    <3> QED
      BY <2>3, <3>1 DEF FrameIsWhole
  <2>5. data # <<>> /\ Len(data) \in Nat
    BY <2>4, EmptySeq DEF IsWhole
  <2>6. CASE Len(data) = 1
    <3>1. data = <<data[1]>>
      BY <2>6
    <3>2. data[1] = q /\ data[1] \in 1..q
      BY <1>1, <2>3, <2>4, <2>6 DEF IsWhole
    <3>3. Completed(q, q, data)
      BY <2>3, <2>4, <2>5, <3>2 DEF Completed
    <3> QED
      BY <3>1, <3>2, <3>3
  <2>7. CASE Len(data) > 1
    <3>1. IsChain(Devices, data)
      <4>1. \A n \in Nat : n > 1 => n # 1
        OBVIOUS
      <4>2. Len(data) # 1
        BY <2>5, <2>7, <4>1
      <4> QED
        BY <2>4, <4>2 DEF IsWhole
    <3>2. /\ ChainOf(Devices, data[1], q) = data
          /\ \A k \in 1..Len(data) : data[1] <= data[k] /\ data[k] \in DOMAIN calls
          /\ data[1] # q
      <4>1. calls[data[1]].device \in Devices
        <5>1. data[1] \in DOMAIN calls
          BY <2>3, <2>7, <3>1, EmptySeq DEF IsChain
        <5> QED
          BY <1>1, <5>1, CallIsMessage
      <4>2. /\ ChainOf(Devices, data[1], data[Len(data)]) = data
            /\ \A k \in 1..Len(data) : data[1] <= data[k] /\ data[k] \in DOMAIN calls
            /\ Len(data) > 1 => data[1] # data[Len(data)]
        BY <1>1, <3>1, <4>1, ChainIsChainOf
      <4> QED
        BY <2>3, <2>7, <4>2
    <3>3. data[1] \in DOMAIN calls /\ data[1] <= q
      BY <2>3, <2>7, <3>2
    <3>4. data[1] \in 1..q
      BY <1>1, <3>3
    <3>5. Completed(data[1], q, data)
      BY <2>3, <2>4, <2>5 DEF Completed
    <3> QED
      BY <3>2, <3>4, <3>5
  <2> QED
    BY <2>4, <2>6, <2>7 DEF IsWhole
<1>3. ASSUME NEW p \in 1..q, Completed(p, q, IF p = q THEN <<p>> ELSE ChainOf(Devices, p, q))
      PROVE  EndsAt(q)
  <2>1. PICK data : data = (IF p = q THEN <<p>> ELSE ChainOf(Devices, p, q)) /\ Completed(p, q, data)
    BY <1>3
  <2>2. data \in Seq(Nat)
    <3>1. CASE p = q
      BY <2>1, <3>1
    <3>2. CASE p # q
      <4>1. p \in Nat /\ data = ChainOf(Devices, p, q) /\ IsWhole(Devices, data)
        BY <2>1, <3>2 DEF Completed
      <4> QED
        BY <1>1, <4>1, ChainOfIsSequence
    <3> QED
      BY <3>1, <3>2
  <2>3. IsReturned(data)
    BY <2>1, <2>2 DEF Completed, WholeReturned
  <2> QED
    BY <2>1, <2>3 DEF Completed, IsReturned, EndsAt
<1> QED
  BY <1>2, <1>3

LEMMA NativeOfInv ==
    ASSUME UnwrapInv, NativeInv, WholeReturned
    PROVE  NativeIffDecodable
<1> SUFFICES ASSUME NEW k \in DOMAIN pushed
             PROVE  pushed[k].native <=>
                        \/ /\ input[k].kind \in BusKinds /\ input[k].wellFormed
                           /\ CmpMapLookup16(input[k].device, input[k].interface)
                        \/ input[k].kind = "ethernet" /\ CompletesFrame(k)
  BY DEF NativeIffDecodable
<1>1. k \in 1..Len(pushed)
  BY DEF UnwrapInv, BufferTypeOK
<1>2. ReassemblyTypeOK /\ FramesOnStream
  BY DEF UnwrapInv
<1>3. PICK q \in Nat : q = CallOf(k)
  BY <1>1 DEF NativeInv
<1>4. EndsAt(q) <=> CompletesFrame(k)
  <2>1. EndsAt(q) <=> \E p \in 1..q : Completed(p, q, IF p = q THEN <<p>> ELSE ChainOf(Devices, p, q))
    BY <1>2, EndIsCompletion
  <2> QED
    BY <1>3, <2>1 DEF Completed, CompletesFrame
<1> QED
  BY <1>1, <1>3, <1>4 DEF NativeInv

(* Which results are native is known from the recording alone: exactly the *)
(* bus messages that parse and have a network, and the Ethernet messages   *)
(* that complete a whole frame of their stream (UnwrapCMP.cpp:775-914).    *)
THEOREM DecodableIsNative == UnwrapSpec => []NativeIffDecodable
<1>1. UnwrapInit => NativeInv /\ OpenChainsActive /\ WholeReturned
  BY NativeInit
<1>2. /\ UnwrapInv /\ NativeInv /\ OpenChainsActive /\ WholeReturned
      /\ [UnwrapNext]_unwrapVars
      => NativeInv' /\ OpenChainsActive' /\ WholeReturned'
  BY StepKeepsNative
<1>3. UnwrapInv /\ NativeInv /\ WholeReturned => NativeIffDecodable
  BY NativeOfInv
<1> QED
  BY <1>1, <1>2, <1>3, UnwrapInvariant, PTL DEF UnwrapSpec
-------------------------------------------------------------------------------
(* The drop events.  What a tracker holds is the counter of the message of *)
(* its source that came last, and the events are the gaps between          *)
(* neighbours.                                                             *)
Pairs(events) == [i \in DOMAIN events |-> <<events[i].expectedSeq, events[i].actualSeq>>]

DetectorTypeOK ==
    /\ \E K \in SUBSET StreamKey : streamTrackers \in [K -> SeqCounters]
    /\ droppedFrames \in Seq(DroppedFrameEvent)

TracksLast(source) ==
    LET tracked == Selected(Kept, MessagesOf(source)) IN
        /\ tracked = <<>> <=> source \notin DOMAIN streamTrackers
        /\ tracked # <<>> => streamTrackers[source] = tracked[Len(tracked)].seq

EventsMatch(source) ==
    Selected(Steps(Selected(Kept, MessagesOf(source))), Gaps) = Pairs(EventsOf(source))

DetectorInv ==
    /\ DetectorTypeOK
    /\ \A source \in StreamKey : TracksLast(source) /\ EventsMatch(source)

LEMMA PairsAppend ==
    ASSUME NEW events \in Seq(DroppedFrameEvent), NEW e \in DroppedFrameEvent
    PROVE  /\ Pairs(events) \in Seq(SeqCounters \X SeqCounters)
           /\ Pairs(Append(events, e)) = Append(Pairs(events), <<e.expectedSeq, e.actualSeq>>)
<1>1. PICK n \in Nat : n = Len(events) /\ DOMAIN events = 1..n
  OBVIOUS
<1>2. \A d \in DroppedFrameEvent : <<d.expectedSeq, d.actualSeq>> \in SeqCounters \X SeqCounters
  BY DEF DroppedFrameEvent
<1>3. \A i \in 1..n : <<events[i].expectedSeq, events[i].actualSeq>> \in SeqCounters \X SeqCounters
  BY <1>1, <1>2
<1>4. PICK V : V = SeqCounters \X SeqCounters
  OBVIOUS
<1>5. PICK x \in V : x = <<e.expectedSeq, e.actualSeq>>
  BY <1>2, <1>4
<1>6. PICK s \in Seq(V) : s = Pairs(events) /\ Len(s) = n
  <2>1. Pairs(events) = [i \in 1..n |-> <<events[i].expectedSeq, events[i].actualSeq>>]
    BY <1>1 DEF Pairs
  <2>2. Pairs(events) \in [1..n -> V]
    BY <1>3, <1>4, <2>1, Zenon
  <2> QED
    BY <2>2, FunctionIsSequence
<1>7. PICK g \in Seq(DroppedFrameEvent) : EndsIn(g, events, e) /\ DOMAIN g = 1..(n + 1)
  <2>1. PICK g \in Seq(DroppedFrameEvent) : EndsIn(g, events, e)
    BY EndsInAppended
  <2> QED
    BY <1>1, <2>1 DEF EndsIn
<1>8. \A i \in 1..n : s[i] = <<events[i].expectedSeq, events[i].actualSeq>>
  BY <1>1, <1>6 DEF Pairs
<1>9. PICK a \in Seq(V) : EndsIn(a, s, x)
  BY EndsInAppended
<1>10. Pairs(g) = [i \in 1..(n + 1) |-> <<g[i].expectedSeq, g[i].actualSeq>>]
  BY <1>7 DEF Pairs
<1>11. \A i \in 1..(n + 1) : a[i] = <<g[i].expectedSeq, g[i].actualSeq>>
  <2> TAKE i \in 1..(n + 1)
  <2>1. CASE i = n + 1
    BY <1>1, <1>5, <1>6, <1>7, <1>9, <2>1 DEF EndsIn
  <2>2. CASE i # n + 1
    <3>1. i \in 1..n
      BY <2>2
    <3> QED
      BY <1>1, <1>6, <1>7, <1>8, <1>9, <3>1 DEF EndsIn
  <2> QED
    BY <2>1, <2>2
<1>12. a = [i \in 1..(n + 1) |-> a[i]]
  <2>1. DOMAIN a = 1..(n + 1)
    BY <1>6, <1>9 DEF EndsIn
  <2> QED
    BY <2>1
<1>13. Pairs(g) = a
  BY <1>10, <1>11, <1>12
<1> QED
  BY <1>4, <1>5, <1>6, <1>7, <1>9, <1>13 DEF EndsIn

LEMMA StepsAppend ==
    ASSUME NEW tracked \in Seq(Messages), NEW m \in Messages
    PROVE  /\ Steps(tracked) \in Seq(SeqCounters \X SeqCounters)
           /\ tracked = <<>> => Steps(Append(tracked, m)) = <<>> /\ Steps(tracked) = <<>>
           /\ tracked # <<>> =>
                Steps(Append(tracked, m)) =
                    Append(Steps(tracked), <<NextSeq(tracked[Len(tracked)].seq), m.seq>>)
<1>1. PICK n \in Nat : n = Len(tracked) /\ DOMAIN tracked = 1..n
  OBVIOUS
<1>2. PICK g \in Seq(Messages) : EndsIn(g, tracked, m) /\ Len(g) = n + 1
  BY <1>1, EndsInAppended DEF EndsIn
<1>3. \A d \in Messages : d.seq \in SeqCounters /\ NextSeq(d.seq) \in SeqCounters
  BY MessagesAssumption, NextSeqType DEF MessageType
<1>4. CASE n = 0
  <2>1. 1..(0 - 1) = {} /\ 1..((0 + 1) - 1) = {}
    OBVIOUS
  <2>2. Steps(g) = <<>> /\ Steps(tracked) = <<>>
    BY <1>1, <1>2, <1>4, <2>1 DEF Steps
  <2>3. tracked = <<>> /\ <<>> \in Seq(SeqCounters \X SeqCounters)
    BY <1>1, <1>4
  <2> QED
    BY <1>2, <2>2, <2>3 DEF EndsIn
<1>5. CASE n # 0
  <2>1. PICK k \in Nat : n = k + 1
    <3>1. n - 1 \in Nat /\ n = (n - 1) + 1
      BY <1>5
    <3> QED
      BY <3>1
  <2>2. PICK V : V = SeqCounters \X SeqCounters
    OBVIOUS
  <2>3. PICK x \in V : x = <<NextSeq(tracked[n].seq), m.seq>>
    <3>1. tracked[n] \in Messages
      BY <1>1, <2>1
    <3> QED
      BY <1>3, <2>2, <3>1
  <2>4. Steps(tracked) = [i \in 1..k |-> <<NextSeq(tracked[i].seq), tracked[i + 1].seq>>]
    <3>1. n - 1 = k
      BY <2>1
    <3> QED
      BY <1>1, <3>1 DEF Steps
  <2>5. \A i \in 1..k : <<NextSeq(tracked[i].seq), tracked[i + 1].seq>> \in V
    <3> TAKE i \in 1..k
    <3>1. i \in 1..n /\ i + 1 \in 1..n
      BY <2>1
    <3>2. tracked[i] \in Messages /\ tracked[i + 1] \in Messages
      BY <1>1, <3>1
    <3> QED
      BY <1>3, <2>2, <3>2
  <2>6. PICK s \in Seq(V) : s = Steps(tracked) /\ Len(s) = k
    <3>1. Steps(tracked) \in [1..k -> V]
      BY <2>4, <2>5, Zenon
    <3> QED
      BY <3>1, FunctionIsSequence
  <2>7. \A i \in 1..k : s[i] = <<NextSeq(tracked[i].seq), tracked[i + 1].seq>>
    BY <2>4, <2>6
  <2>8. PICK a \in Seq(V) : EndsIn(a, s, x)
    BY EndsInAppended
  <2>9. Steps(g) = [i \in 1..n |-> <<NextSeq(g[i].seq), g[i + 1].seq>>]
    <3>1. (n + 1) - 1 = n
      OBVIOUS
    <3> QED
      BY <1>2, <3>1 DEF Steps
  <2>10. \A i \in 1..n : a[i] = <<NextSeq(g[i].seq), g[i + 1].seq>>
    <3> TAKE i \in 1..n
    <3>1. CASE i = n
      BY <1>1, <1>2, <2>1, <2>3, <2>6, <2>8, <3>1 DEF EndsIn
    <3>2. CASE i # n
      <4>1. i \in 1..k /\ i + 1 \in 1..n
        BY <2>1, <3>2
      <4>2. a[i] = s[i]
        BY <2>6, <2>8, <4>1 DEF EndsIn
      <4>3. g[i] = tracked[i] /\ g[i + 1] = tracked[i + 1]
        BY <1>1, <1>2, <4>1 DEF EndsIn
      <4> QED
        BY <2>7, <4>1, <4>2, <4>3
    <3> QED
      BY <3>1, <3>2
  <2>11. a = [i \in 1..n |-> a[i]]
    <3>1. DOMAIN a = 1..n
      BY <2>1, <2>6, <2>8 DEF EndsIn
    <3> QED
      BY <3>1
  <2>12. Steps(g) = a
    BY <2>9, <2>10, <2>11
  <2>13. tracked # <<>>
    BY <1>1, <1>5
  <2> QED
    BY <1>1, <1>2, <2>2, <2>3, <2>6, <2>8, <2>12, <2>13 DEF EndsIn
<1> QED
  BY <1>4, <1>5

GapIsDropped(source, seq) ==
    \/ /\ source \in DOMAIN streamTrackers
       /\ NextSeq(streamTrackers[source]) # seq
       /\ \E e \in DroppedFrameEvent :
            /\ e.source = source /\ e.actualSeq = seq
            /\ e.expectedSeq = NextSeq(streamTrackers[source])
            /\ droppedFrames' = Append(droppedFrames, e)
    \/ /\ source \in DOMAIN streamTrackers
       /\ NextSeq(streamTrackers[source]) = seq
       /\ droppedFrames' = droppedFrames
    \/ /\ source \notin DOMAIN streamTrackers
       /\ droppedFrames' = droppedFrames

LEMMA TrackTracks ==
    ASSUME DetectorTypeOK, NEW source \in StreamKey, NEW seq \in SeqCounters,
           TrackSequence(source, seq)
    PROVE  /\ DetectorTypeOK'
           /\ DOMAIN streamTrackers' = DOMAIN streamTrackers \cup {source}
           /\ streamTrackers'[source] = seq
           /\ \A other \in DOMAIN streamTrackers :
                other # source => streamTrackers'[other] = streamTrackers[other]
           /\ GapIsDropped(source, seq)
<1>1. PICK K \in SUBSET StreamKey : streamTrackers \in [K -> SeqCounters]
  BY DEF DetectorTypeOK
<1>2. droppedFrames \in Seq(DroppedFrameEvent)
  BY DEF DetectorTypeOK
<1>3. PICK L \in SUBSET StreamKey : L = K \cup {source}
  BY <1>1
<1>4. /\ streamTrackers' = [k \in L |-> IF k = source THEN seq ELSE streamTrackers[k]]
      /\ streamTrackers' \in [L -> SeqCounters]
  BY <1>1, <1>3 DEF TrackSequence
<1>5. CASE source \in K /\ NextSeq(streamTrackers[source]) # seq
  <2>1. PICK exp \in SeqCounters : exp = NextSeq(streamTrackers[source])
    BY <1>1, <1>5, NextSeqType
  <2>2. DroppedCount(exp, seq) \in SeqCounters
    BY CounterModAssumption DEF SeqCounters, DroppedCount
  <2>3. PICK e : e = [source |-> source, expectedSeq |-> exp, actualSeq |-> seq,
                      droppedCount |-> DroppedCount(exp, seq)]
    OBVIOUS
  <2>4. e \in DroppedFrameEvent
    BY <2>2, <2>3 DEF DroppedFrameEvent
  <2>5. DropsIn(source, seq) = <<e>>
    BY <1>1, <1>5, <2>1, <2>3 DEF DropsIn
  <2>6. droppedFrames \o <<e>> = Append(droppedFrames, e)
    BY <1>2, <2>4, AppendIsConcat
  <2>7. droppedFrames' = Append(droppedFrames, e) /\ droppedFrames' \in Seq(DroppedFrameEvent)
    BY <1>2, <2>4, <2>5, <2>6, AppendFacts DEF TrackSequence
  <2>8. e.source = source /\ e.actualSeq = seq /\ e.expectedSeq = exp
    BY <2>3
  <2> QED
    BY <1>1, <1>3, <1>4, <1>5, <2>1, <2>4, <2>7, <2>8 DEF DetectorTypeOK, GapIsDropped
<1>6. CASE ~(source \in K /\ NextSeq(streamTrackers[source]) # seq)
  <2>1. DropsIn(source, seq) = <<>>
    BY <1>1, <1>6 DEF DropsIn
  <2>2. droppedFrames' = droppedFrames
    BY <1>2, <2>1 DEF TrackSequence
  <2> QED
    BY <1>1, <1>2, <1>3, <1>4, <1>6, <2>2 DEF DetectorTypeOK, GapIsDropped
<1> QED
  BY <1>5, <1>6

(* One more message of a source: its tracker moves on, and a gap is added  *)
(* when there is one.                                                      *)
LEMMA GapOrNot ==
    ASSUME NEW s \in Seq(SeqCounters \X SeqCounters), NEW a \in SeqCounters, NEW b \in SeqCounters
    PROVE  /\ a # b => Selected(Append(s, <<a, b>>), Gaps) = Append(Selected(s, Gaps), <<a, b>>)
           /\ a = b => Selected(Append(s, <<a, b>>), Gaps) = Selected(s, Gaps)
<1>1. <<a, b>> \in SeqCounters \X SeqCounters /\ (<<a, b>> \in Gaps <=> a # b)
  BY DEF Gaps
<1>2. Selected(Append(s, <<a, b>>), Gaps)
        = IF <<a, b>> \in Gaps THEN Append(Selected(s, Gaps), <<a, b>>) ELSE Selected(s, Gaps)
  BY <1>1, SelectedAppend
<1> QED
  BY <1>1, <1>2

SourceOf(m) == <<m.device, m.stream>>

LEMMA TrackedOfSource ==
    ASSUME Kept \in Seq(Messages), NEW m \in Messages, m.kind # "plain",
           Kept' = Append(Kept, m), NEW source
    PROVE  /\ Selected(Kept, MessagesOf(source)) \in Seq(Messages)
           /\ Selected(Kept', MessagesOf(source)) =
                IF source = SourceOf(m) THEN Append(Selected(Kept, MessagesOf(source)), m)
                ELSE Selected(Kept, MessagesOf(source))
<1>1. m \in MessagesOf(source) <=> source = SourceOf(m)
  BY DEF MessagesOf, SourceOf
<1>2. Selected(Append(Kept, m), MessagesOf(source)) =
        IF m \in MessagesOf(source) THEN Append(Selected(Kept, MessagesOf(source)), m)
        ELSE Selected(Kept, MessagesOf(source))
  BY SelectedAppend
<1>3. Selected(Kept, MessagesOf(source)) \in Seq(Messages)
  BY SelectedFacts
<1> QED
  BY <1>1, <1>2, <1>3

EventsFrom(source) == {e \in DroppedFrameEvent : e.source = source}

LEMMA EventsOfSource ==
    ASSUME droppedFrames \in Seq(DroppedFrameEvent), NEW e \in DroppedFrameEvent,
           droppedFrames' = Append(droppedFrames, e), NEW source
    PROVE  /\ EventsOf(source) \in Seq(DroppedFrameEvent)
           /\ EventsOf(source)' = IF e.source = source THEN Append(EventsOf(source), e)
                                  ELSE EventsOf(source)
<1>1. e \in EventsFrom(source) <=> e.source = source
  BY DEF EventsFrom
<1>2. Selected(Append(droppedFrames, e), EventsFrom(source)) =
        IF e \in EventsFrom(source) THEN Append(Selected(droppedFrames, EventsFrom(source)), e)
        ELSE Selected(droppedFrames, EventsFrom(source))
  BY SelectedAppend
<1>3. Selected(droppedFrames, EventsFrom(source)) \in Seq(DroppedFrameEvent)
  BY SelectedFacts
<1> QED
  BY <1>1, <1>2, <1>3 DEF EventsOf, EventsFrom

LEMMA OwnSourceTracked ==
    ASSUME DetectorTypeOK, Kept \in Seq(Messages), NEW m \in Messages, m.kind # "plain",
           Kept' = Append(Kept, m), NEW source, source = SourceOf(m), source \in StreamKey,
           TrackSequence(source, m.seq), TracksLast(source), EventsMatch(source)
    PROVE  TracksLast(source)' /\ EventsMatch(source)'
<1>1. PICK u \in Seq(Messages) : u = Selected(Kept, MessagesOf(source))
  BY TrackedOfSource
<1>2. Selected(Kept', MessagesOf(source)) = Append(u, m)
  BY <1>1, TrackedOfSource
<1>3. PICK seq \in SeqCounters : seq = m.seq /\ GapIsDropped(source, seq)
  <2>1. PICK seq \in SeqCounters : seq = m.seq /\ TrackSequence(source, seq)
    BY MessagesAssumption DEF MessageType
  <2> QED
    BY <2>1, TrackTracks
<1>4. /\ Append(u, m) # <<>> /\ Append(u, m)[Len(Append(u, m))] = m
  BY AppendFacts
<1>5. /\ u = <<>> <=> source \notin DOMAIN streamTrackers
      /\ u # <<>> => streamTrackers[source] = u[Len(u)].seq
  BY <1>1 DEF TracksLast
<1>6. TracksLast(source)'
  <2>1. source \in DOMAIN streamTrackers' /\ streamTrackers'[source] = m.seq
    BY MessagesAssumption, TrackTracks DEF MessageType
  <2> QED
    BY <1>2, <1>4, <2>1 DEF TracksLast, MessagesOf
<1>7. /\ Steps(u) \in Seq(SeqCounters \X SeqCounters)
      /\ u = <<>> => Steps(Append(u, m)) = <<>> /\ Steps(u) = <<>>
      /\ u # <<>> => Steps(Append(u, m)) = Append(Steps(u), <<NextSeq(u[Len(u)].seq), m.seq>>)
  BY StepsAppend
<1>8. Selected(Steps(u), Gaps) = Pairs(EventsOf(source))
  BY <1>1 DEF EventsMatch
<1>9. droppedFrames \in Seq(DroppedFrameEvent)
  BY DEF DetectorTypeOK
<1>10. EventsMatch(source)' <=> Selected(Steps(Append(u, m)), Gaps) = Pairs(EventsOf(source)')
  BY <1>2 DEF EventsMatch, MessagesOf, Steps, Gaps, Pairs
<1>11. CASE source \notin DOMAIN streamTrackers
  <2>1. droppedFrames' = droppedFrames
    BY <1>3, <1>11 DEF GapIsDropped
  <2>2. EventsOf(source)' = EventsOf(source)
    BY <2>1 DEF EventsOf
  <2> QED
    BY <1>5, <1>6, <1>7, <1>8, <1>10, <1>11, <2>2
<1>12. CASE source \in DOMAIN streamTrackers
  <2>1. PICK exp : exp = NextSeq(streamTrackers[source]) /\ exp = NextSeq(u[Len(u)].seq)
    BY <1>5, <1>12
  <2>2. exp \in SeqCounters
    BY <1>12, <2>1, NextSeqType DEF DetectorTypeOK
  <2>3. Steps(Append(u, m)) = Append(Steps(u), <<exp, m.seq>>)
    BY <1>5, <1>7, <1>12, <2>1
  <2>4. Selected(Steps(Append(u, m)), Gaps) =
          IF exp # m.seq THEN Append(Selected(Steps(u), Gaps), <<exp, m.seq>>)
          ELSE Selected(Steps(u), Gaps)
    <3>1. PICK s \in Seq(SeqCounters \X SeqCounters) : s = Steps(u)
      BY <1>7
    <3>2. /\ exp # seq =>
                Selected(Append(s, <<exp, seq>>), Gaps) = Append(Selected(s, Gaps), <<exp, seq>>)
          /\ exp = seq => Selected(Append(s, <<exp, seq>>), Gaps) = Selected(s, Gaps)
      BY <2>2, GapOrNot
    <3> QED
      BY <1>3, <2>3, <3>1, <3>2
  <2>5. CASE exp = m.seq
    <3>1. droppedFrames' = droppedFrames
      BY <1>3, <1>12, <2>1, <2>5 DEF GapIsDropped
    <3>2. EventsOf(source)' = EventsOf(source)
      BY <3>1 DEF EventsOf
    <3> QED
      BY <1>6, <1>8, <1>10, <2>4, <2>5, <3>2
  <2>6. CASE exp # m.seq
    <3>1. PICK e \in DroppedFrameEvent :
              /\ e.source = source /\ e.actualSeq = m.seq /\ e.expectedSeq = exp
              /\ droppedFrames' = Append(droppedFrames, e)
      BY <1>3, <1>12, <2>1, <2>6 DEF GapIsDropped
    <3>2. PICK events \in Seq(DroppedFrameEvent) :
              events = EventsOf(source) /\ EventsOf(source)' = Append(events, e)
      BY <1>9, <3>1, EventsOfSource
    <3>3. Pairs(Append(events, e)) = Append(Pairs(events), <<e.expectedSeq, e.actualSeq>>)
      BY PairsAppend
    <3> QED
      BY <1>6, <1>8, <1>10, <2>4, <2>6, <3>1, <3>2, <3>3
  <2> QED
    BY <2>5, <2>6
<1> QED
  BY <1>11, <1>12

LEMMA OtherSourcesStay ==
    ASSUME DetectorTypeOK, Kept \in Seq(Messages), NEW m \in Messages, m.kind # "plain",
           Kept' = Append(Kept, m), SourceOf(m) \in StreamKey,
           TrackSequence(SourceOf(m), m.seq),
           NEW source, source # SourceOf(m), TracksLast(source), EventsMatch(source)
    PROVE  TracksLast(source)' /\ EventsMatch(source)'
<1>1. Selected(Kept', MessagesOf(source)) = Selected(Kept, MessagesOf(source))
  BY TrackedOfSource
<1>2. PICK own \in StreamKey, seq \in SeqCounters :
          own = SourceOf(m) /\ seq = m.seq /\ TrackSequence(own, seq)
  BY MessagesAssumption DEF MessageType
<1>3. /\ source \in DOMAIN streamTrackers' <=> source \in DOMAIN streamTrackers
      /\ source \in DOMAIN streamTrackers => streamTrackers'[source] = streamTrackers[source]
  BY <1>2, TrackTracks
<1>4. EventsOf(source)' = EventsOf(source)
  <2>1. CASE droppedFrames' = droppedFrames
    BY <2>1 DEF EventsOf
  <2>2. ASSUME NEW e \in DroppedFrameEvent, e.source = own,
               droppedFrames' = Append(droppedFrames, e)
        PROVE  EventsOf(source)' = EventsOf(source)
    <3>1. droppedFrames \in Seq(DroppedFrameEvent) /\ e.source # source
      BY <1>2, <2>2 DEF DetectorTypeOK
    <3> QED
      BY <2>2, <3>1, EventsOfSource
  <2>3. GapIsDropped(own, seq)
    BY <1>2, TrackTracks
  <2> QED
    BY <2>1, <2>2, <2>3 DEF GapIsDropped
<1> QED
  BY <1>1, <1>3, <1>4 DEF TracksLast, EventsMatch, MessagesOf, Steps, Gaps, Pairs

LEMMA StepKeepsDrops ==
    ASSUME UnwrapInv, DetectorInv, [UnwrapNext]_unwrapVars
    PROVE  DetectorInv'
<1>1. ASSUME UNCHANGED detectorVars, Kept' = Kept PROVE DetectorInv'
  BY <1>1 DEF DetectorInv, DetectorTypeOK, TracksLast, EventsMatch, EventsOf, detectorVars,
              MessagesOf, Steps, Gaps, Pairs
<1>2. CASE OpenOutput \/ Finish \/ UNCHANGED unwrapVars
  BY <1>1, <1>2, OtherStepsKeep
<1>3. ASSUME NEW m \in Messages, AbortByCallback(m) PROVE DetectorInv'
  BY <1>1, <1>3, AbortKeepsMessages DEF AbortByCallback, detector
<1>4. ASSUME NEW m \in Messages, ConvertMessage(m) PROVE DetectorInv'
  <2>1. Kept \in Seq(Messages) /\ Kept' = Append(Kept, m)
    BY <1>4, ConvertKeepsMessage
  <2>2. CASE m.kind = "plain"
    <3>1. UNCHANGED detectorVars
      BY <1>4, <2>2 DEF ConvertMessage, PassPlain, PassOtherCmp, UnwrapBus, UnwrapEthernet,
                        BusKinds, detector
    <3>2. ASSUME NEW source PROVE Selected(Kept', MessagesOf(source)) = Selected(Kept, MessagesOf(source))
      <4>1. m \notin MessagesOf(source)
        BY <2>2 DEF MessagesOf
      <4>2. Selected(Append(Kept, m), MessagesOf(source)) =
              IF m \in MessagesOf(source) THEN Append(Selected(Kept, MessagesOf(source)), m)
              ELSE Selected(Kept, MessagesOf(source))
        BY <2>1, SelectedAppend
      <4> QED
        BY <2>1, <4>1, <4>2
    <3>3. ASSUME NEW source, TracksLast(source), EventsMatch(source)
          PROVE  TracksLast(source)' /\ EventsMatch(source)'
      <4>1. Selected(Kept', MessagesOf(source)) = Selected(Kept, MessagesOf(source))
        BY <3>2
      <4> QED
        BY <3>1, <3>3, <4>1 DEF TracksLast, EventsMatch, EventsOf, detectorVars,
                                MessagesOf, Steps, Gaps, Pairs
    <3>4. DetectorTypeOK'
      BY <3>1 DEF DetectorInv, DetectorTypeOK, detectorVars
    <3> QED
      BY <3>3, <3>4 DEF DetectorInv, StreamKey
  <2>3. CASE m.kind # "plain"
    <3>1. TrackSequence(SourceOf(m), m.seq)
      BY <1>4, <2>3 DEF ConvertMessage, PassPlain, PassOtherCmp, UnwrapBus, UnwrapEthernet,
                        Track, SourceOf
    <3>2. SourceOf(m) \in StreamKey /\ m.seq \in SeqCounters
      BY MessagesAssumption DEF MessageType, SourceOf, StreamKey
    <3>3. DetectorTypeOK /\ \A source \in StreamKey : TracksLast(source) /\ EventsMatch(source)
      BY DEF DetectorInv
    <3>4. DetectorTypeOK'
      BY <3>1, <3>2, <3>3, TrackTracks
    <3>5. ASSUME NEW source \in StreamKey PROVE TracksLast(source)' /\ EventsMatch(source)'
      <4>1. CASE source = SourceOf(m)
        BY <2>1, <2>3, <3>1, <3>2, <3>3, <4>1, OwnSourceTracked
      <4>2. CASE source # SourceOf(m)
        BY <2>1, <2>3, <3>1, <3>2, <3>3, <4>2, OtherSourcesStay
      <4> QED
        BY <4>1, <4>2
    <3> QED
      BY <3>4, <3>5 DEF DetectorInv, StreamKey
  <2> QED
    BY <2>2, <2>3
<1> QED
  BY <1>2, <1>3, <1>4 DEF UnwrapNext

(* The events recorded for a device and stream are the gaps between the    *)
(* neighbours of that stream in the recording, where every CMP message     *)
(* counts, whatever became of it (UnwrapCMP.cpp:793-831).                  *)
THEOREM DropsAreGaps == UnwrapSpec => []DropEventsMatchInput
<1>1. UnwrapInit => DetectorInv
  <2> SUFFICES ASSUME UnwrapInit PROVE DetectorInv
    OBVIOUS
  <2>1. /\ DOMAIN streamTrackers = {} /\ droppedFrames = <<>> /\ input = <<>> /\ pushed = <<>>
        /\ streamTrackers \in [{} -> SeqCounters]
    BY DEF UnwrapInit, DetectorInit, BufferInit
  <2>2. Kept = <<>>
    <3>1. SubSeq(<<>>, 1, 0) = <<>> /\ Len(pushed) = 0
      BY <2>1, SubSeqEmpty, EmptySeq
    <3> QED
      BY <2>1, <3>1 DEF Kept
  <2>3. DetectorTypeOK
    BY <2>1, EmptySeq DEF DetectorTypeOK
  <2>4. ASSUME NEW source PROVE TracksLast(source) /\ EventsMatch(source)
    <3>1. Selected(Kept, MessagesOf(source)) = <<>> /\ EventsOf(source) = <<>>
      BY <2>1, <2>2, SelectedFacts DEF EventsOf
    <3>2. Steps(<<>>) = <<>>
      <4>1. 1..(0 - 1) = {}
        OBVIOUS
      <4> QED
        BY <4>1 DEF Steps
    <3>3. Pairs(<<>>) = <<>>
      BY DEF Pairs
    <3>4. Selected(<<>>, Gaps) = <<>>
      BY SelectedFacts
    <3> QED
      BY <2>1, <3>1, <3>2, <3>3, <3>4 DEF TracksLast, EventsMatch
  <2> QED
    BY <2>3, <2>4 DEF DetectorInv
<1>2. UnwrapInv /\ DetectorInv /\ [UnwrapNext]_unwrapVars => DetectorInv'
  BY StepKeepsDrops
<1>3. DetectorInv => DropEventsMatchInput
  BY DEF DetectorInv, EventsMatch, DropEventsMatchInput, Pairs
<1> QED
  BY <1>1, <1>2, <1>3, UnwrapInvariant, PTL DEF UnwrapSpec
===============================================================================
