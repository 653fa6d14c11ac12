-------------------------- MODULE MC_ConversionParts ---------------------------
(* The parts of the conversion, each by itself: in a behaviour one of them *)
(* moves and the others stay where they began.                             *)
EXTENDS OutputBuffer, SegmentReassembly, CaptureChannel, BusMessages

CONSTANTS
    d1, d2, s1, s2, i1, i2,     \* model values; i2 has no network
    MaxKey, MaxPushes,          \* of the output buffer's input
    MaxMixed,                   \* bound on the calls if more than one source has any
    Lengths,                    \* of the payloads of bus messages
    BusDevices, BusInterfaces   \* that they come from

VARIABLE part       \* the one that moves

mcVars == <<part, bufferVars, reassemblyVars, channelVars, busVars>>

-------------------------------------------------------------------------------
MCEntry == [key : 1..MaxKey, src : 1..MaxPushes]

(* The final flush ends a conversion.                                      *)
BufferStep ==
    /\ part = "buffer"
    /\ BufferNext \/ (finished /\ UNCHANGED bufferVars)
    /\ UNCHANGED <<part, reassemblyVars, channelVars, busVars>>

-------------------------------------------------------------------------------
Ether(source, seg, seq, interface, wellFormed, stamp) ==
    [kind |-> "ethernet", device |-> source[1], stream |-> source[2],
     interface |-> interface, seq |-> seq, seg |-> seg,
     wellFormed |-> wellFormed, stamp |-> stamp, time |-> 0]

(* The first device sends every segment with every counter; only what      *)
(* opens a frame has its interface and time looked at, so the others carry *)
(* fixed ones.  The second device sends frames of two and three segments,  *)
(* on a stream of its own and on the one of the first.                     *)
MCMessages ==
    LET A == <<d1, s1>> IN
    {Ether(A, "start", n, i1, TRUE, n) : n \in SeqCounters}
    \cup {Ether(A, "start", 0, i2, TRUE, 0)}
    \cup {Ether(A, g, n, i2, TRUE, 7) : g \in {"continuation", "end"}, n \in SeqCounters}
    \cup {Ether(A, "unsegmented", 1, i, TRUE, 1) : i \in Interfaces}
    \cup {Ether(A, "start", 1, i1, FALSE, 1)}
    \cup UNION {{Ether(B, "start", 0, i1, TRUE, 3), Ether(B, "continuation", 1, i2, TRUE, 7),
                 Ether(B, "end", 1, i2, TRUE, 7), Ether(B, "end", 2 % CounterMod, i2, TRUE, 7)} :
                    B \in {d2} \X {s1, s2}}

MCMapped == {d1, d2} \X {i1}

OneSource(s) == \A i, j \in DOMAIN s : s[i].device = s[j].device

(* Where a recording is used up it may end.                                *)
CallsUsedUp == Len(calls) = MaxCalls \/ (Len(calls) = MaxMixed /\ ~OneSource(calls))

ReassemblyStep ==
    /\ part = "reassembly"
    /\ \/ ReassemblyNext /\ (OneSource(calls') \/ Len(calls') <= MaxMixed)
       \/ CallsUsedUp /\ UNCHANGED reassemblyVars
    /\ UNCHANGED <<part, bufferVars, channelVars, busVars>>

-------------------------------------------------------------------------------
TwoDevices == {d1, d2} \X {s1}

ChannelStep ==
    /\ part = "channel"
    /\ \/ ChannelNext
       \/ (\A s \in Sources : Len(arrived[s]) = MaxArrived) /\ UNCHANGED channelVars
    /\ UNCHANGED <<part, bufferVars, reassemblyVars, busVars>>

-------------------------------------------------------------------------------
(* Device 0 has one interface in the built-in map, device 1 has two.       *)
MCBuiltIn == <<0, 0>> :> 5 @@ <<1, 0>> :> 6 @@ <<1, 1>> :> 7

(* A payload is whole, or its last byte or its header is cut off, or       *)
(* something follows it.                                                   *)
Payloads == UNION {{<<l, r>> : r \in {-1, l - 1, l, l + 1}} : l \in Lengths}

FrameOf(kind, device, interface, flags, payload) ==
    [kind |-> kind, device |-> device, interface |-> interface, flags |-> flags,
     length |-> payload[1], room |-> payload[2]]

(* All payloads from one interface, with all flags where they are whole,   *)
(* and one payload from all interfaces.                                    *)
MCFrames ==
    {FrameOf(k, 0, 0, {}, p) : k \in BusKinds, p \in Payloads}
        \cup {FrameOf(k, 0, 0, FrameFlags, <<l, l>>) : k \in BusKinds, l \in Lengths}
        \cup {FrameOf(k, d, i, {}, <<3, 3>>) : k \in BusKinds, d \in BusDevices, i \in BusInterfaces}

Number(n) == [form |-> "word", value |-> n]
Split(low, high) == [form |-> "bytes", low |-> low, high |-> high]

(* Valid entries for a pair of the built-in map and for a new one, the old *)
(* form, an interface that is cut to a built-in one, and entries that are  *)
(* skipped.                                                                *)
MapEntries ==
    {[complete |-> TRUE, device |-> 0, interface |-> 0, network |-> Number(9)],
     [complete |-> TRUE, device |-> 0, interface |-> 1, network |-> Split(2, 1)],
     [complete |-> TRUE, device |-> 1, interface |-> Word, network |-> Split(1, 3)],
     [complete |-> TRUE, device |-> 0, interface |-> 0, network |-> Split(Byte, 0)],
     [complete |-> TRUE, device |-> Half, interface |-> 0, network |-> Number(9)],
     [complete |-> TRUE, device |-> 1, interface |-> 1, network |-> Number(Half)],
     [complete |-> FALSE, device |-> 1, interface |-> 1, network |-> Number(8)],
     [complete |-> TRUE, device |-> 1, interface |-> 1, network |-> [form |-> "none"]],
     [complete |-> TRUE, device |-> 0, interface |-> 0, network |-> Number(10)]}

MCDocuments ==
    {[hasMap |-> FALSE, entries |-> <<>>]}
        \cup [hasMap : {TRUE}, entries : BoundedSeq(MapEntries, 2)]

(* A map is loaded before the messages, or after one of them.              *)
BusStep ==
    /\ part = "bus"
    /\ \/ frame.length <= 3 /\ LoadCmpNetworkMapFromVsdb
       \/ UnwrapBusMessage
       \/ StoreAndRead
    /\ UNCHANGED <<part, bufferVars, reassemblyVars, channelVars>>

-------------------------------------------------------------------------------
MCInit ==
    /\ part \in {"buffer", "reassembly", "channel", "bus"}
    /\ BufferInit /\ (part # "buffer" => sortOutput)
    /\ ReassemblyInit
    /\ ChannelInit
    /\ BusInit

MCNext == BufferStep \/ ReassemblyStep \/ ChannelStep \/ BusStep
MCSpec == MCInit /\ [][MCNext]_mcVars
===============================================================================
