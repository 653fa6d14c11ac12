------------------------------- MODULE UnwrapCmp -------------------------------
(***************************************************************************)
(* UnwrapCMPToNative (src/ICS_VSBIO/UnwrapCMP.cpp:702-978): the loop that  *)
(* reads a recording, tracks the sequence counters of its CMP streams,     *)
(* unwraps CMP messages into native ones and sends the result of every     *)
(* message through the output buffer.  It composes                         *)
(*    SegmentReassembly  (segmentContexts, calls, frames),                 *)
(*    DropDetector       (streamTrackers, droppedFrames) and               *)
(*    OutputBuffer       (outBuffer, written, pushed, finished).           *)
(* The reader is the source of any sequence of messages that ends with one *)
(* of the conditions of VSBIORead::enumFileCondition.                      *)
(*                                                                         *)
(* Left out: the branch for messages shorter than 64 bytes (lines 765-770) *)
(* since ReadNextMessage never returns one (VSBIO.cpp:60-71).              *)
(***************************************************************************)
EXTENDS SegmentReassembly, DropDetector, OutputBuffer

CONSTANTS
    Arguments,      \* the calls considered
    NoNetwork,      \* the network of a message that is passed through
    ProgressEvery,  \* messages between two progress callbacks, 100000 in the code
    MaxMessages     \* bound on the length of the recording

ArgumentType ==
    [sortOutput : BOOLEAN, timestampSource : {"cmp", "outer"},
     prog : BOOLEAN, outputInfoToTxt : BOOLEAN]

ASSUME ArgumentsAssumption == Arguments \subseteq ArgumentType
ASSUME ProgressAssumption == ProgressEvery \in Nat /\ ProgressEvery > 0
ASSUME MaxMessagesAssumption == MaxMessages \in Nat

(* The buffer may hold whatever a message of the recording becomes.        *)
ASSUME ResultsAssumption ==
    \A m \in Messages, n \in 1..MaxMessages, native \in BOOLEAN,
       network \in Mapped \cup {NoNetwork} :
        \A key \in {m.stamp, m.time} :
            [key |-> key, src |-> n, native |-> native, network |-> network] \in Entry

VARIABLES
    args,           \* the arguments of the call
    phase,          \* "init", "reading", "done"
    input,          \* history: the messages read
    counter,        \* the loop's message counter
    condition,      \* what the last ReadNextMessage returned
    aborted,        \* the progress callback asked to stop
    result,         \* what the function returns
    report          \* the dropped message report, if written

reassembly == reassemblyVars
detector == detectorVars
buffer == bufferVars
control == <<args, phase, condition, aborted, result, report>>
unwrapVars == <<reassemblyVars, detectorVars, bufferVars, control, input, counter>>

NoReport == [processed |-> 0, events |-> 0, dropped |-> 0]

-------------------------------------------------------------------------------
(* The messages that are pushed.  Both carry the number of their input     *)
(* message.                                                                *)
PassThrough(m) ==
    [key |-> m.time, src |-> Len(pushed) + 1, native |-> FALSE, network |-> NoNetwork]

(* Mutant: the CMP timestamp is used whatever the argument says.           *)
NativeCmpTime(m, stamp, network) ==
    [key |-> stamp, src |-> Len(pushed) + 1, native |-> TRUE, network |-> network]

Native(m, stamp, network) ==
    [key |-> IF args.timestampSource = "cmp" THEN stamp ELSE m.time,
     src |-> Len(pushed) + 1, native |-> TRUE, network |-> network]

Track(m) == TrackSequence(<<m.device, m.stream>>, m.seq)

(* Not an Ethernet frame with the ethertype and version of CMP.            *)
PassPlain(m) ==
    /\ m.kind = "plain"
    /\ PushMessage(PassThrough(m))
    /\ UNCHANGED <<reassembly, detector>>

(* Mutants: these messages are not written; they are not tracked.          *)
PassOtherCmpFiltered(m) ==
    /\ m.kind \in {"control", "unknown"}
    /\ Track(m)
    /\ UNCHANGED <<reassembly, buffer>>
PassOtherCmpUntracked(m) ==
    /\ m.kind \in {"control", "unknown"}
    /\ PushMessage(PassThrough(m))
    /\ UNCHANGED <<reassembly, detector>>

(* Status messages and payload types without an unwrapper.                 *)
PassOtherCmp(m) ==
    /\ m.kind \in {"control", "unknown"}
    /\ Track(m)
    /\ PushMessage(PassThrough(m))
    /\ UNCHANGED reassembly

(* TryUnwrapCmpCan, TryUnwrapCmpCanFd and TryUnwrapCmpLin succeed when the *)
(* payload parses and its device and interface have a network.             *)
UnwrapBus(m) ==
    /\ m.kind \in BusKinds
    /\ Track(m)
    /\ \/ /\ m.wellFormed /\ CmpMapLookup16(m.device, m.interface)
          /\ PushMessage(Native(m, m.stamp, <<m.device, m.interface>>))
       \/ /\ ~(m.wellFormed /\ CmpMapLookup16(m.device, m.interface))
          /\ PushMessage(PassThrough(m))
    /\ UNCHANGED reassembly

UnwrapEthernet(m) ==
    /\ m.kind = "ethernet"
    /\ Track(m)
    /\ TryUnwrapCmpEthernet(m)
    /\ \/ /\ frames' # frames
          /\ LET f == frames'[Len(frames')] IN
             PushMessage(Native(m, f.timestamp, <<f.deviceId, f.interfaceId>>))
       \/ /\ frames' = frames
          /\ PushMessage(PassThrough(m))

-------------------------------------------------------------------------------
UnwrapInit ==
    /\ ReassemblyInit
    /\ DetectorInit
    /\ BufferInit
    /\ args \in Arguments
    /\ sortOutput = args.sortOutput
    /\ phase = "init"
    /\ input = <<>>
    /\ counter = 0
    /\ condition = "eSuccess"
    /\ aborted = FALSE
    /\ result = "none"
    /\ report = NoReport

(* writer.Init: without an output file the call ends at once.              *)
OpenOutput ==
    /\ phase = "init"
    /\ \/ phase' = "reading" /\ UNCHANGED result
       \/ phase' = "done" /\ result' = "false"
    /\ UNCHANGED <<reassembly, detector, buffer, args, condition, aborted, report,
                   input, counter>>

(* A message has been read: it is counted, but only for the callback.      *)
ReadSuccess(m) ==
    /\ phase = "reading" /\ ~aborted
    /\ Len(input) < MaxMessages
    /\ input' = Append(input, m)
    /\ counter' = IF args.prog THEN counter + 1 ELSE counter

CallbackDue == args.prog /\ (counter + 1) % ProgressEvery = 0

(* One iteration of the loop, with a callback that returns true if due.    *)
ConvertMessage(m) ==
    /\ ReadSuccess(m)
    /\ PassPlain(m) \/ PassOtherCmp(m) \/ UnwrapBus(m) \/ UnwrapEthernet(m)
    /\ UNCHANGED control

(* The callback returns false: the loop is left with the message in hand.  *)
AbortByCallback(m) ==
    /\ ReadSuccess(m)
    /\ CallbackDue
    /\ aborted' = TRUE
    /\ UNCHANGED <<reassembly, detector, buffer, args, phase, condition, result, report>>

(* How ReadNextMessage ends the loop.  It fails with eError only while it  *)
(* opens the file, and looks for the end of the file only after that       *)
(* (VSBIO.cpp:84-128).                                                     *)
EndConditions ==
    {"eInvalidPayloadSize"} \cup (IF input = <<>> THEN {"eError"} ELSE {"eEndOfFile"})

(* The loop is over: final flush, report, return true.                     *)
Finish ==
    /\ phase = "reading"
    /\ \/ /\ ~aborted
          /\ condition' \in EndConditions
       \/ /\ aborted
          /\ UNCHANGED condition
    /\ FlushAll
    /\ report' = IF args.outputInfoToTxt /\ droppedFrames # <<>>
                   THEN [processed |-> counter, events |-> Len(droppedFrames),
                         dropped |-> TotalDropped]
                   ELSE report
    /\ phase' = "done"
    /\ result' = "true"
    /\ UNCHANGED <<reassembly, detector, args, aborted, input, counter>>

UnwrapNext ==
    \/ OpenOutput
    \/ \E m \in Messages : ConvertMessage(m) \/ AbortByCallback(m)
    \/ Finish

UnwrapSpec == UnwrapInit /\ [][UnwrapNext]_unwrapVars

-------------------------------------------------------------------------------
Taken == Len(input) - (IF aborted THEN 1 ELSE 0)
Emitted == [i \in DOMAIN written |-> written[i].src]

(* The conversion emits one result per message it keeps, whatever buffer   *)
(* flushes, unwrapping and aborts come together (UnwrapCMP.cpp:714-755,    *)
(* 757-918).  A message read when the callback aborts is not kept.         *)
PromisedConversion ==
    INSTANCE Conversion WITH taken <- Taken, emitted <- Emitted, ended <- finished
ImplementsConversion == PromisedConversion!Spec

(* Which results are native, said of the input alone: the bus messages     *)
(* that parse and have a network, and the Ethernet messages that complete  *)
(* a whole frame of their stream, whichever devices sent its segments; all *)
(* others are passed through unchanged (UnwrapCMP.cpp:775-914).            *)
EthernetMessages == {m \in Messages : m.kind = "ethernet"}
CallOf(k) == Len(Selected(SubSeq(input, 1, k), EthernetMessages))

CompletesFrame(k) ==
    \E p \in 1..CallOf(k) :
        LET data == IF p = CallOf(k) THEN <<p>> ELSE ChainOf(Devices, p, CallOf(k)) IN
        /\ data # <<>> /\ data[1] = p /\ data[Len(data)] = CallOf(k)
        /\ IsWhole(Devices, data)
        /\ CmpMapLookup16(calls[p].device, calls[p].interface)

NativeIffDecodable ==
    \A k \in DOMAIN pushed :
        pushed[k].native <=>
            \/ /\ input[k].kind \in BusKinds /\ input[k].wellFormed
               /\ CmpMapLookup16(input[k].device, input[k].interface)
            \/ input[k].kind = "ethernet" /\ CompletesFrame(k)

(* The events are the gaps between neighbours of each stream in the input, *)
(* where every CMP message counts, also one that could not be unwrapped    *)
(* ("Track ALL CMP message types to detect drops correctly",               *)
(* UnwrapCMP.cpp:801).                                                     *)
Kept == SubSeq(input, 1, Len(pushed))
MessagesOf(source) ==
    {m \in Messages : m.kind # "plain" /\ <<m.device, m.stream>> = source}

(* The counter expected and the one that came, at every message but the    *)
(* first; the pairs that differ are gaps.                                  *)
Steps(tracked) ==
    [i \in 1..(Len(tracked) - 1) |-> <<NextSeq(tracked[i].seq), tracked[i + 1].seq>>]
Gaps == {g \in SeqCounters \X SeqCounters : g[1] # g[2]}

DropEventsMatchInput ==
    \A source \in StreamKey :
        LET events == EventsOf(source)
        IN  Selected(Steps(Selected(Kept, MessagesOf(source))), Gaps)
              = [i \in DOMAIN events |-> <<events[i].expectedSeq, events[i].actualSeq>>]

(* "use 1 to maintain chronological order with other logged messages"      *)
(* (VSBIODLL.h:280): with the outer timestamp, sorting moves no message of *)
(* a recording that was in order.                                          *)
OuterTimestampsKeepOrder ==
    (/\ args.timestampSource = "outer"
     /\ \A i, j \in DOMAIN input : i < j => input[i].time <= input[j].time)
        => Output = pushed
===============================================================================
