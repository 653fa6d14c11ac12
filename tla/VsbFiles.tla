------------------------------- MODULE VsbFiles -------------------------------
(***************************************************************************)
(* The two operations on whole files and what they do to each other: a     *)
(* recording is split into parts (VsbSplit), and the recordings of a       *)
(* directory are concatenated (VSBIOWrite::Concatenate, src/ICS_VSBIO/     *)
(* VSBIO/VSBIO.cpp:449-524, over VsbMerge).  The directory may be the one  *)
(* with the parts.                                                         *)
(***************************************************************************)
EXTENDS VsbMerge, VsbSplit

CONSTANTS
    Sources,        \* recordings to split
    Bounds,         \* arguments of the split
    Directories,    \* directories to concatenate: sequences of recordings
    MaxShort        \* bound: writes of an output that do not write everything

ASSUME MaxShortAssumption == MaxShort \in Nat
ASSUME DirectoriesAssumption == \A d \in Directories : d \in Seq(Recording)
ASSUME SourcesAssumption == Sources \subseteq Recording /\ Bounds \subseteq Limits

VARIABLES
    task,           \* what the process is doing
    withProg,       \* Concatenate's prog is given
    turn,           \* its counter, which begins at 1
    file,           \* the VSBIOWrite object: whether its file is open, and
                    \* how many of its writes did not write everything
    output,         \* the output file, message by message
    concatStopped,  \* the callback was asked and the loop ended
    answer          \* what Concatenate returned

concatVars == <<withProg, turn, file, output, concatStopped, answer>>
filesVars == <<mergeVars, splitVars, task, concatVars>>

(* What a write left in the file of its message.                           *)
Piece == [message : Message, whole : BOOLEAN]

FilesInit ==
    /\ \/ task = "split" /\ SplitInit(Sources, Bounds)
       \/ task = "idle" /\ SplitInit({Closed(<<>>)}, {[by |-> "messages", size |-> 1, prog |-> FALSE]})
    /\ MergerInit
    /\ withProg = FALSE /\ turn = 1 /\ file = [open |-> FALSE, short |-> 0]
    /\ output = <<>> /\ concatStopped = FALSE /\ answer = FALSE

-------------------------------------------------------------------------------
SplitStep ==
    /\ task = "split"
    /\ CopyMessage
    /\ UNCHANGED <<mergeVars, task, concatVars>>

SplitAbort ==
    /\ task = "split"
    /\ StopSplit
    /\ UNCHANGED <<mergeVars, task, concatVars>>

EndSplit ==
    /\ task = "split" /\ SplitEnded
    /\ task' = "splitted"
    /\ UNCHANGED <<mergeVars, splitVars, concatVars>>

(* The library's Concatenate (VSBIODLL.cpp:95-100) opens the output and    *)
(* ignores whether that succeeded, then lists the directory: an output     *)
(* inside it is one more file that cannot be read.                         *)
Concatenate(directory, ok, prog) ==
    /\ task' = "concatenate"
    /\ Constructing(directory)
    /\ withProg' = prog
    /\ turn' = 1
    /\ file' = [open |-> ok, short |-> 0]
    /\ UNCHANGED <<splitVars, output, concatStopped, answer>>

ConcatenateParts ==
    /\ task = "splitted" /\ PartFiles # <<>>
    /\ Concatenate(PartFiles, TRUE, FALSE)

ConcatenateDirectory ==
    /\ task = "idle"
    /\ \E directory \in Directories, ok, prog \in BOOLEAN : Concatenate(directory, ok, prog)

OpenNextFile ==
    /\ task = "concatenate"
    /\ OpenNext
    /\ UNCHANGED <<splitVars, task, concatVars>>

ProgressDue == withProg /\ turn % ProgressEvery = 0

(* Mutant: every write begins at the front of the file.                    *)
WriteMessageInFront(m) ==
    /\ output' = IF file.open THEN <<[message |-> m, whole |-> TRUE]>> \o output ELSE output
    /\ UNCHANGED file

(* VSBIOWrite::WriteMessage ignores what the write returns: of a message   *)
(* that is not written whole there is a part in the file, or nothing, and  *)
(* the next one is written behind that.                                    *)
WriteMessage(m) ==
    \/ /\ file.open
       /\ output' = Append(output, [message |-> m, whole |-> TRUE])
       /\ UNCHANGED file
    \/ /\ file.open /\ file.short < MaxShort
       /\ output' \in {output, Append(output, [message |-> m, whole |-> FALSE])}
       /\ file' = [file EXCEPT !.short = @ + 1]
    \/ ~file.open /\ UNCHANGED <<output, file>>

(* A turn of Concatenate's loop with the message of reader k.              *)
CopyMerged(k) ==
    /\ task = "concatenate"
    /\ ReadMerged(k)
    /\ turn' = turn + IF withProg THEN 1 ELSE 0
    /\ WriteMessage(InHand(k))
    /\ UNCHANGED <<splitVars, task, withProg, concatStopped, answer>>

(* The callback ends the loop with a message in hand, and the destructors  *)
(* run.  The progress it is told is the sum of all that were opened: to    *)
(* ask a reader that is deleted the process may not survive.               *)
StopConcatenate(k) ==
    /\ task = "concatenate" /\ ProgressDue
    /\ ReadMerged(k)
    /\ turn' = turn + 1
    /\ concatStopped' = TRUE
    /\ \/ task' = "leaving"
       \/ task' = "gone" /\ \E d \in readList : deleted[d] > 0
    /\ UNCHANGED <<splitVars, withProg, file, output, answer>>

EndOfMerge ==
    /\ task = "concatenate" /\ Ready /\ queue = {}
    /\ task' = "leaving"
    /\ UNCHANGED <<mergeVars, splitVars, concatVars>>

(* The readers are deleted, a second time if there was an error: the       *)
(* process may not survive that.                                           *)
LeaveConcatenate ==
    /\ task = "leaving"
    /\ DeleteReadList
    /\ \/ task' = "done"
       \/ task' = "crashed" /\ \E k \in readList : deleted[k] > 0
    /\ answer' = (task' = "done")
    /\ UNCHANGED <<splitVars, withProg, turn, file, output, concatStopped>>

FilesNext ==
    \/ SplitStep
    \/ SplitAbort
    \/ EndSplit
    \/ ConcatenateParts
    \/ ConcatenateDirectory
    \/ OpenNextFile
    \/ \E k \in DOMAIN inputs : CopyMerged(k)
    \/ \E k \in DOMAIN inputs : StopConcatenate(k)
    \/ EndOfMerge
    \/ LeaveConcatenate

FilesSpec == FilesInit /\ [][FilesNext]_filesVars

-------------------------------------------------------------------------------
Ended == task \in {"done", "crashed"}

(* No reader is leaked; one is deleted twice only if a file that is listed *)
(* after it could not be opened; and no reader that waits in the queue is  *)
(* deleted already (VSBIO.cpp:356-376).                                    *)
ReadersDeletedOnce ==
    /\ ~Ended => \A k \in queue : deleted[k] = 0
    /\ Ended =>
        \A k \in DOMAIN inputs :
            deleted[k] = IF k \notin Survivors /\ inputs[k].opens
                              /\ ReadAt(inputs[k], 0) = "eSuccess" THEN 2 ELSE 1

Written == IF concatStopped THEN Len(merged) - 1 ELSE Len(merged)

WholePieces == Selected(output, {p \in Piece : p.whole})

(* Whatever fails while writing, the messages in the output are those that *)
(* were read, in their order and each at most once; lost says how many are *)
(* missing before a message of the output.  All but the message in hand at *)
(* a stop are there, whole but for as many as writes fell short            *)
(* (VSBIO.cpp:486-509).                                                    *)
OutputFollowsMerge ==
    /\ \E lost \in [DOMAIN output -> 0..file.short] :
            \A i \in DOMAIN output :
                /\ i + lost[i] <= Written
                /\ output[i].message = merged[i + lost[i]]
                /\ \A j \in 1..i : lost[j] <= lost[i]
    /\ Len(WholePieces) = IF file.open THEN Written - file.short ELSE 0

(* A recording that is split and concatenated again is the recording, if   *)
(* its times increase and all was written; but a message with a payload is *)
(* missing if it was the last of its part (VSBIO.cpp:278, 500-509,         *)
(* 545-562).                                                               *)
LastOfPart(m) == \E i \in DOMAIN parts : m = Last(parts[i].messages)

RoundTrip ==
    Ended /\ parts # <<>> /\ AllPartsOpen /\ ~splitStopped /\ file.short = 0
        /\ IsSorted(Contents(source), LAMBDA m, n : m.time < n.time)
    => [i \in DOMAIN output |-> output[i].message]
        = Selected(Contents(source), {m \in Message : m.payload = 0 \/ ~LastOfPart(m)})
===============================================================================
