---------------------------- MODULE CaptureChannel -----------------------------
(***************************************************************************)
(* The DropDetector fed by the streams it watches: every source numbers    *)
(* the messages it sends 1, 2, 3, ..., the header carries the number       *)
(* modulo CounterMod, and the recording may miss messages, hold one twice or   *)
(* hold them out of order.  arrived is what the detector cannot see, the   *)
(* true number of every message recorded.                                  *)
(***************************************************************************)
EXTENDS DropDetector, FiniteSets

CONSTANTS
    Sources,        \* the <<device, stream>> pairs that send
    MaxSent,        \* bound: messages a source sends
    MaxArrived      \* bound: messages of a source in the recording

ASSUME SourcesAssumption == Sources \subseteq StreamKey
ASSUME BoundsAssumption == MaxSent \in Nat /\ MaxArrived \in Nat

VARIABLE arrived    \* source -> the numbers of its recorded messages, in order

channelVars == <<streamTrackers, droppedFrames, arrived>>

Record(source, number) ==
    /\ Len(arrived[source]) < MaxArrived
    /\ arrived' = [arrived EXCEPT ![source] = Append(@, number)]
    /\ TrackSequence(source, number % CounterMod)

ChannelInit ==
    /\ DetectorInit
    /\ arrived = [source \in Sources |-> <<>>]

ChannelNext ==
    \E source \in Sources, number \in 1..MaxSent : Record(source, number)

ChannelSpec == ChannelInit /\ [][ChannelNext]_channelVars

-------------------------------------------------------------------------------
(* The messages that are missing: sent between two that the recording      *)
(* holds, after its first, and not in it anywhere.                         *)
Recorded(numbers) == {numbers[i] : i \in DOMAIN numbers}

Missing(numbers) ==
    {n \in 1..MaxSent :
        /\ n \notin Recorded(numbers)
        /\ numbers # <<>> /\ numbers[1] < n
        /\ \E q \in Recorded(numbers) : n < q}

CountMissing(numbers) == Cardinality(Missing(numbers))

InOrder(numbers) == \A i \in 1..(Len(numbers) - 1) : numbers[i + 1] > numbers[i]

(* No message is more than bound ahead of the one recorded before it.      *)
AheadAtMost(numbers, bound) == \A i \in 1..(Len(numbers) - 1) : numbers[i + 1] - numbers[i] <= bound

(* The report is exact as long as the recording of a stream is in order    *)
(* and fewer than 65536 messages are lost in a row, also across the wrap   *)
(* of the 16-bit counter and however the streams are interleaved           *)
(* (UnwrapCMP.cpp:800-828).                                                *)
CountIsExact ==
    \A s \in Sources :
        InOrder(arrived[s]) /\ AheadAtMost(arrived[s], CounterMod) =>
            CountDropped(EventsOf(s)) = CountMissing(arrived[s])

(* No loss goes unreported: whatever is late or held twice, at least as    *)
(* many messages are reported as are missing, unless 65536 or more were    *)
(* lost in a row, or were behind a late one (UnwrapCMP.cpp:800-828).       *)
NoLossUnreported ==
    \A s \in Sources :
        AheadAtMost(arrived[s], CounterMod) =>
            CountDropped(EventsOf(s)) >= CountMissing(arrived[s])

(* "Detected a gap - calculate number of dropped frames"                   *)
(* (UnwrapCMP.cpp:810), "total dropped messages across all events" (:941): *)
(* no more messages are reported than are missing.                         *)
OnlyMissingReported ==
    \A s \in Sources : CountDropped(EventsOf(s)) <= CountMissing(arrived[s])
===============================================================================
