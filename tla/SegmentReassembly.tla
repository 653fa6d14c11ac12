--------------------------- MODULE SegmentReassembly ---------------------------
(***************************************************************************)
(* TryUnwrapCmpEthernet (src/ICS_VSBIO/UnwrapCMP.cpp:463-677): Ethernet    *)
(* frames that were cut into CMP segments are put together again, in one   *)
(* EthernetSegmentContext per stream id.                                   *)
(*                                                                         *)
(* calls is the history of the messages the function was given, and the    *)
(* bytes a message carries are named by its position in calls, so that a   *)
(* rebuilt frame says exactly which segments it consists of.               *)
(***************************************************************************)
EXTENDS CmpMessages, FiniteSets

CONSTANTS
    Messages,       \* the CMP Ethernet payload messages of a recording
    MaxCalls        \* bound on the number of calls

ASSUME MessagesAssumption == Messages \subseteq MessageType
ASSUME MaxCallsAssumption == MaxCalls \in Nat

VARIABLES
    segmentContexts,    \* stream id -> context, for the streams that had a START
    calls,              \* history: the messages given to the function
    frames              \* history: the Ethernet frames it has returned

reassemblyVars == <<segmentContexts, calls, frames>>

Context ==
    [active : BOOLEAN,
     expectedSeqCounter : SeqCounters,
     timestamp : Nat,
     deviceId : Devices,
     interfaceId : Interfaces,
     accumulatedData : Seq(Nat)]

Frame ==
    [data : Seq(Nat), deviceId : Devices, interfaceId : Interfaces, timestamp : Nat]

-------------------------------------------------------------------------------
HasContext(m) ==
    m.stream \in DOMAIN segmentContexts /\ segmentContexts[m.stream].active

(* Mutant: any counter will do.                                            *)
InSequenceAny(m) == HasContext(m)

InSequence(m) ==
    HasContext(m) /\ m.seq = segmentContexts[m.stream].expectedSeqCounter

(* Mutant: setting a context forgets the others.                           *)
SetContextAlone(stream, ctx) == segmentContexts' = [s \in {stream} |-> ctx]

SetContext(stream, ctx) ==
    segmentContexts' =
        [s \in DOMAIN segmentContexts \cup {stream} |->
            IF s = stream THEN ctx ELSE segmentContexts[s]]

(* The bytes of the message the function is given next.                    *)
NewData == Len(calls) + 1

(* One of the format checks of UnwrapCMP.cpp:515-545 fails.                *)
Malformed(m) ==
    /\ ~m.wellFormed
    /\ UNCHANGED <<segmentContexts, frames>>

(* A frame in one piece.  It does not touch the context of its stream.     *)
Unsegmented(m) ==
    /\ m.wellFormed /\ m.seg = "unsegmented"
    /\ \/ /\ CmpMapLookup16(m.device, m.interface)
          /\ frames' = Append(frames,
                [data |-> <<NewData>>, deviceId |-> m.device,
                 interfaceId |-> m.interface, timestamp |-> m.stamp])
       \/ /\ ~CmpMapLookup16(m.device, m.interface)
          /\ UNCHANGED frames
    /\ UNCHANGED segmentContexts

(* Mutant: a START is ignored while a frame is being collected.            *)
SegStartIgnored(m) ==
    /\ m.wellFormed /\ m.seg = "start"
    /\ IF HasContext(m)
         THEN UNCHANGED segmentContexts
         ELSE SetContext(m.stream,
                 [active |-> TRUE, expectedSeqCounter |-> NextSeq(m.seq),
                  timestamp |-> m.stamp, deviceId |-> m.device,
                  interfaceId |-> m.interface, accumulatedData |-> <<NewData>>])
    /\ UNCHANGED frames

(* The context of the stream is begun anew, whatever was in it.            *)
SegStart(m) ==
    /\ m.wellFormed /\ m.seg = "start"
    /\ SetContext(m.stream,
          [active |-> TRUE, expectedSeqCounter |-> NextSeq(m.seq),
           timestamp |-> m.stamp, deviceId |-> m.device,
           interfaceId |-> m.interface, accumulatedData |-> <<NewData>>])
    /\ UNCHANGED frames

(* Mutant: a frame is not abandoned when a wrong segment comes.            *)
SegOutOfSequenceKept(m) ==
    /\ m.wellFormed /\ m.seg \in {"continuation", "end"}
    /\ ~InSequence(m)
    /\ UNCHANGED <<segmentContexts, frames>>

(* A segment nobody waits for, or the wrong one: an active context is      *)
(* abandoned, its data stays behind.                                       *)
SegOutOfSequence(m) ==
    /\ m.wellFormed /\ m.seg \in {"continuation", "end"}
    /\ ~InSequence(m)
    /\ \/ /\ HasContext(m)
          /\ SetContext(m.stream, [segmentContexts[m.stream] EXCEPT !.active = FALSE])
       \/ /\ ~HasContext(m)
          /\ UNCHANGED segmentContexts
    /\ UNCHANGED frames

SegContinuation(m) ==
    /\ m.wellFormed /\ m.seg = "continuation"
    /\ InSequence(m)
    /\ SetContext(m.stream,
          [segmentContexts[m.stream] EXCEPT
              !.accumulatedData = Append(@, NewData),
              !.expectedSeqCounter = NextSeq(@)])
    /\ UNCHANGED frames

(* The last segment: the frame goes to the network of the START's device   *)
(* and interface, or nowhere; the context is cleared in both cases.        *)
SegEnd(m) ==
    /\ m.wellFormed /\ m.seg = "end"
    /\ InSequence(m)
    /\ LET ctx == segmentContexts[m.stream] IN
         /\ \/ /\ CmpMapLookup16(ctx.deviceId, ctx.interfaceId)
               /\ frames' = Append(frames,
                     [data |-> Append(ctx.accumulatedData, NewData),
                      deviceId |-> ctx.deviceId, interfaceId |-> ctx.interfaceId,
                      timestamp |-> ctx.timestamp])
            \/ /\ ~CmpMapLookup16(ctx.deviceId, ctx.interfaceId)
               /\ UNCHANGED frames
         /\ SetContext(m.stream,
               [ctx EXCEPT !.active = FALSE, !.accumulatedData = <<>>])

(* One call.  It returns true exactly when it has appended a frame.        *)
TryUnwrapCmpEthernet(m) ==
    /\ calls' = Append(calls, m)
    /\ \/ Malformed(m)
       \/ Unsegmented(m)
       \/ SegStart(m)
       \/ SegOutOfSequence(m)
       \/ SegContinuation(m)
       \/ SegEnd(m)

ReassemblyInit ==
    /\ segmentContexts = [s \in {} |-> 0]
    /\ calls = <<>>
    /\ frames = <<>>

ReassemblyNext ==
    \E m \in Messages : Len(calls) < MaxCalls /\ TryUnwrapCmpEthernet(m)

ReassemblySpec == ReassemblyInit /\ [][ReassemblyNext]_reassemblyVars

-------------------------------------------------------------------------------
(* The reference: what a frame in segments is, said of the whole history.  *)
(* The sequence counters are per device and stream (UnwrapCMP.cpp:483-494, *)
(* 800), the contexts per stream alone: devices says whose segments count, *)
(* one device's for what it sent, those of all for what a context sees.    *)

(* The positions of the segments of a stream; frames in one piece and      *)
(* malformed messages are not segments.                                    *)
IsSegmentOf(devices, stream, p) ==
    /\ calls[p].device \in devices /\ calls[p].stream = stream
    /\ calls[p].wellFormed
    /\ calls[p].seg # "unsegmented"

(* q is the segment that comes right after p on their stream.              *)
Follows(devices, p, q) ==
    /\ p < q
    /\ calls[q].device \in devices /\ calls[q].stream = calls[p].stream
    /\ calls[q].wellFormed
    /\ calls[q].seg \in {"continuation", "end"}
    /\ calls[q].seq = NextSeq(calls[p].seq)
    /\ \A r \in DOMAIN calls :
          IsSegmentOf(devices, calls[p].stream, r) => r <= p \/ q <= r

(* data names the segments of a frame, from its START up to the last one.  *)
IsChain(devices, data) ==
    /\ data # <<>>
    /\ \A k \in DOMAIN data : data[k] \in DOMAIN calls
    /\ calls[data[1]].wellFormed /\ calls[data[1]].seg = "start"
    /\ \A k \in 2..Len(data) : Follows(devices, data[k - 1], data[k])
    /\ \A k \in 2..(Len(data) - 1) : calls[data[k]].seg = "continuation"

IsWhole(devices, data) ==
    \/ /\ Len(data) = 1
       /\ data[1] \in DOMAIN calls
       /\ calls[data[1]].wellFormed
       /\ calls[data[1]].seg = "unsegmented"
    \/ /\ Len(data) > 1
       /\ IsChain(devices, data)
       /\ calls[data[Len(data)]].seg = "end"

ReassemblyTypeOK ==
    /\ \E S \in SUBSET Streams : segmentContexts \in [S -> Context]
    /\ calls \in Seq(Messages)
    /\ frames \in Seq(Frame)

(* A frame carries what was recorded in one piece, or all of a chain up to *)
(* its END, with the START's endpoint and time.                            *)
FrameIsWhole(devices, f) ==
    LET first == calls[f.data[1]] IN
        /\ IsWhole(devices, f.data)
        /\ f.deviceId = first.device
        /\ f.interfaceId = first.interface
        /\ f.timestamp = first.stamp
        /\ CmpMapLookup16(f.deviceId, f.interfaceId)

FromOneDevice(f) == \A k \in DOMAIN f.data : calls[f.data[k]].device = f.deviceId

(* Every frame that is returned consists of the START, the continuations   *)
(* and the END that come one after the other on their stream, with none    *)
(* missing and none taken twice, and carries the START's endpoint and time *)
(* (UnwrapCMP.cpp:586-674).  If they are of one device it is a frame that  *)
(* this device sent, by the counters of its own, whatever other devices    *)
(* send on the stream.                                                     *)
FramesAreWhole ==
    \A i \in DOMAIN frames :
        /\ FrameIsWhole(Devices, frames[i])
        /\ FromOneDevice(frames[i]) => FrameIsWhole({frames[i].deviceId}, frames[i])

(* A stream is the device's own: its key is "(DeviceId + StreamId)"        *)
(* (UnwrapCMP.cpp:483), its "sequence counter is per DeviceId+StreamId"    *)
(* (:800), so that no frame is made of the segments of two devices.        *)
NoFrameOfTwoDevices == \A i \in DOMAIN frames : FromOneDevice(frames[i])

(* The positions of the segments from p to q, in their order.              *)
ChainOf(devices, p, q) ==
    LET between == {r \in p..q : IsSegmentOf(devices, calls[p].stream, r)}
        rank(r) == Cardinality({s \in between : s <= r})
    IN  [k \in 1..Cardinality(between) |-> CHOOSE r \in between : rank(r) = k]

(* No other device has a segment on the stream between p and q.            *)
Undisturbed(p, q) ==
    \A r \in p..q : IsSegmentOf(Devices, calls[p].stream, r) => calls[r].device = calls[p].device

(* The other direction: whenever the recording holds all segments of a     *)
(* frame that a device sent and whose endpoint is mapped, and no segment   *)
(* of another device is between them on the stream, the frame is returned, *)
(* whatever happened on the stream before and goes on elsewhere            *)
(* (UnwrapCMP.cpp:586-674).                                                *)
EveryWholeFrameReturned ==
    \A p, q \in DOMAIN calls :
        LET own == {calls[p].device}
            data == IF p = q THEN <<p>> ELSE ChainOf(own, p, q)
        IN
        (/\ p <= q /\ calls[p].stream = calls[q].stream
         /\ Len(data) > 0 /\ data[1] = p /\ data[Len(data)] = q
         /\ IsWhole(own, data) /\ Undisturbed(p, q)
         /\ CmpMapLookup16(calls[p].device, calls[p].interface))
            => \E i \in DOMAIN frames : frames[i].data = data

(* The inductive invariant.  An active context holds the segments of a     *)
(* frame up to the latest segment of its stream and expects the counter    *)
(* that follows.                                                           *)
ContextIsChain(s) ==
    LET ctx == segmentContexts[s]
        data == ctx.accumulatedData
        first == calls[data[1]]
        last == calls[data[Len(data)]]
    IN  /\ IsChain(Devices, data)
        /\ first.stream = s /\ last.stream = s
        /\ Len(data) > 1 => last.seg = "continuation"
        /\ \A r \in DOMAIN calls : IsSegmentOf(Devices, s, r) => r <= data[Len(data)]
        /\ ctx.expectedSeqCounter = NextSeq(last.seq)
        /\ ctx.deviceId = first.device
        /\ ctx.interfaceId = first.interface
        /\ ctx.timestamp = first.stamp

ActiveContextsAreChains ==
    \A s \in DOMAIN segmentContexts :
        segmentContexts[s].active => ContextIsChain(s)
===============================================================================
