----------------------------- MODULE DropDetector ------------------------------
(***************************************************************************)
(* The dropped message detection of UnwrapCMPToNative (src/ICS_VSBIO/      *)
(* UnwrapCMP.cpp:475-505, 793-831): one StreamTracker per device and       *)
(* stream remembers the last sequence counter, and a counter other than    *)
(* the next one is recorded as a DroppedFrameEvent.                        *)
(***************************************************************************)
EXTENDS CmpMessages, Folds, Selection

VARIABLES
    streamTrackers,     \* <<device, stream>> -> lastSeqCounter, once seen
    droppedFrames       \* the events, in order

detectorVars == <<streamTrackers, droppedFrames>>

StreamKey == Devices \X Streams

DroppedFrameEvent ==
    [source : StreamKey,
     expectedSeq : SeqCounters,
     actualSeq : SeqCounters,
     droppedCount : SeqCounters]

DetectorInit ==
    /\ streamTrackers = [k \in {} |-> 0]
    /\ droppedFrames = <<>>

(* Mutants: the wrap of the counter is taken for 0xFFFF; a counter that    *)
(* has wrapped is no gap.                                                  *)
DroppedCountOffByOne(expected, actual) ==
    IF actual > expected THEN actual - expected ELSE (CounterMod - 1) - expected + actual
DroppedCountNoWrap(expected, actual) ==
    IF actual > expected THEN actual - expected ELSE 0

(* uint16_t droppedCount: the distance from the expected counter forward   *)
(* to the one that came (UnwrapCMP.cpp:810-812).                           *)
DroppedCount(expected, actual) ==
    IF actual > expected
      THEN actual - expected
      ELSE ((CounterMod - 1) - expected + actual + 1) % CounterMod

DropsIn(source, seq) ==
    IF source \in DOMAIN streamTrackers
      THEN LET expected == NextSeq(streamTrackers[source]) IN
           IF seq # expected
             THEN <<[source |-> source, expectedSeq |-> expected, actualSeq |-> seq,
                     droppedCount |-> DroppedCount(expected, seq)]>>
             ELSE <<>>
      ELSE <<>>

(* What the loop does for every CMP message, whatever its type: record the *)
(* gap, if there is one, and remember the counter.                         *)
TrackSequence(source, seq) ==
    /\ droppedFrames' = droppedFrames \o DropsIn(source, seq)
    /\ streamTrackers' =
          [k \in DOMAIN streamTrackers \cup {source} |->
              IF k = source THEN seq ELSE streamTrackers[k]]

(* "Total Messages Dropped" of the report, for one stream or all of them   *)
(* (UnwrapCMP.cpp:942-945).                                                *)
EventsOf(source) == Selected(droppedFrames, {e \in DroppedFrameEvent : e.source = source})
CountDropped(events) == FoldLeft(LAMBDA n, e : n + e.droppedCount, 0, events)
TotalDropped == CountDropped(droppedFrames)
===============================================================================
