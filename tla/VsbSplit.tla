------------------------------- MODULE VsbSplit -------------------------------
(***************************************************************************)
(* VSBIORead::Split and SplitBySize (src/ICS_VSBIO/VSBIO/VSBIO.cpp:533-    *)
(* 608): a recording is copied into numbered parts, a new one after so     *)
(* many messages or when the size would be too large.                      *)
(***************************************************************************)
EXTENDS Recordings, Selection

CONSTANTS
    FileHeader,     \* VSB_HEADERSIZE
    ProgressEvery   \* 100000: messages between two calls of prog

ASSUME ProgressAssumption == ProgressEvery \in Nat \ {0}
ASSUME FileHeaderAssumption == FileHeader \in Nat

VARIABLES
    source,         \* the recording that is split
    limits,         \* [by, size, prog]: which of the two functions, its bound
    done,           \* messages read from source
    counter,        \* counts from the first message, or only with prog
    splitFileSize,  \* of SplitBySize
    parts,          \* history: the parts asked for, with what is in them
    splitStopped    \* the callback asked to stop

splitVars == <<source, limits, done, counter, splitFileSize, parts, splitStopped>>

Part == [open : BOOLEAN, messages : Seq(Message)]

Limits == [by : {"messages", "size"}, size : Nat \ {0}, prog : BOOLEAN]

SplitInit(recordings, bounds) ==
    /\ source \in recordings
    /\ limits \in bounds
    /\ done = 0
    /\ counter = 0
    /\ splitFileSize = FileHeader
    /\ parts = <<>>
    /\ splitStopped = FALSE

Reading == ReadAt(source, done) = "eSuccess"

NextMessage == Contents(source)[done + 1]

(* prog is asked before every message that completes a hundred thousand.   *)
CallbackDue == limits.prog /\ (counter + 1) % ProgressEvery = 0

(* Mutant: a part is begun only when it is over the limit already.         *)
PartFullAfter ==
    IF limits.by = "messages" THEN counter % limits.size = 0
    ELSE parts = <<>> \/ splitFileSize > limits.size

PartFull ==
    IF limits.by = "messages" THEN counter % limits.size = 0
    ELSE parts = <<>> \/ splitFileSize + SizeOf(NextMessage) > limits.size

(* Mutant: the number is not advanced, and the part is overwritten.        *)
PartsInitOverwrites ==
    IF parts = <<>> THEN {<<[open |-> TRUE, messages |-> <<>>]>>}
    ELSE {[parts EXCEPT ![Len(parts)].messages = <<>>]}

(* VSBIOWrite::Init: the part before is closed; whether the new one can be *)
(* created is not looked at.                                               *)
PartsInit == {Append(parts, [open |-> ok, messages |-> <<>>]) : ok \in BOOLEAN}

(* Mutant: a message that opens a part is not written.                     *)
WriteToOldPart(ps, m) ==
    IF ps = parts THEN [ps EXCEPT ![Len(ps)].messages = Append(@, m)] ELSE ps

(* VSBIOWrite::WriteMessage: without an open file the message is lost.     *)
WriteToPart(ps, m) ==
    IF ps[Len(ps)].open THEN [ps EXCEPT ![Len(ps)].messages = Append(@, m)] ELSE ps

(* A turn of the loop.  The size of a message that begins a part is not    *)
(* counted; SplitBySize counts messages only for prog.                     *)
CopyMessage ==
    /\ Reading /\ ~splitStopped
    /\ done' = done + 1
    /\ counter' = counter + IF limits.by = "messages" \/ limits.prog THEN 1 ELSE 0
    /\ splitFileSize' = IF limits.by = "messages" THEN splitFileSize
                         ELSE IF PartFull THEN FileHeader
                         ELSE splitFileSize + SizeOf(NextMessage)
    /\ \E ps \in IF PartFull THEN PartsInit ELSE {parts} :
            parts' = WriteToPart(ps, NextMessage)
    /\ UNCHANGED <<source, limits, splitStopped>>

(* The callback ends the loop with a message in hand.                      *)
StopSplit ==
    /\ Reading /\ ~splitStopped /\ CallbackDue
    /\ splitStopped' = TRUE
    /\ done' = done + 1
    /\ counter' = counter + IF limits.by = "size" THEN 1 ELSE 0
    /\ UNCHANGED <<source, limits, splitFileSize, parts>>

(* Every other condition ends the loop in the same way.                    *)
SplitEnded == splitStopped \/ ~Reading

(* The files that exist afterwards, in the order of their numbers.         *)
PartFiles ==
    LET files == Selected(parts, {p \in Part : p.open}) IN
    [i \in DOMAIN files |-> Closed(files[i].messages)]

-------------------------------------------------------------------------------
AllPartsOpen == \A i \in DOMAIN parts : parts[i].open

(* The parts one after the other are what was read, without the message in *)
(* hand when the callback stopped (VSBIO.cpp:545-562, 587-606).            *)
PartsAreTheFile ==
    AllPartsOpen =>
        FlattenSeq([i \in DOMAIN parts |-> parts[i].messages])
            = SubSeq(Contents(source), 1, IF splitStopped THEN done - 1 ELSE done)

FileSize(messages) == FoldLeft(LAMBDA size, m : size + SizeOf(m), FileHeader, messages)

(* Every part but the last is full: it has so many messages, or it would   *)
(* have exceeded the size with the next part's first message.  No part has *)
(* more messages, or is larger by more than its first one                  *)
(* (VSBIO.cpp:553, 595-603).                                               *)
PartsAreFull ==
    AllPartsOpen =>
        \A i \in DOMAIN parts :
            LET messages == parts[i].messages IN
            IF limits.by = "messages"
              THEN /\ Len(messages) <= limits.size
                   /\ i < Len(parts) => Len(messages) = limits.size
              ELSE /\ Len(messages) > 1 =>
                        FileSize(messages) <= limits.size + SizeOf(messages[1])
                   /\ i < Len(parts) =>
                        FileSize(messages) + SizeOf(parts[i + 1].messages[1]) > limits.size

(* "Maximum size of split files in MB" (VSBIO.cpp:570, VSBIODLL.h:175,     *)
(* 185): a part of more than one message is no larger than was asked for.  *)
(* It is: the message that begins it is not counted.                       *)
PartsWithinMaximum ==
    limits.by = "size" =>
        \A i \in DOMAIN parts :
            Len(parts[i].messages) > 1 => FileSize(parts[i].messages) <= limits.size
===============================================================================
