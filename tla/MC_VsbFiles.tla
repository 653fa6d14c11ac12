------------------------------ MODULE MC_VsbFiles ------------------------------
(* Small recordings for VsbFiles.  Messages are numbered by their file and *)
(* their place in it.                                                      *)
EXTENDS VsbFiles

CONSTANTS
    Times,          \* of messages
    Payloads,       \* of the messages of a source
    SourceLength,   \* messages of a source
    FileLength      \* messages of a file in a directory

Numbered(k, times, payloads) ==
    [i \in DOMAIN times |-> [id |-> 10 * k + i, time |-> times[i], payload |-> payloads[i]]]

MCSources ==
    {Closed(<<>>), [opens |-> FALSE, messages |-> <<>>, rejects |-> 1]}
    \cup {Closed(Numbered(0, [i \in 1..n |-> i], p)) :
            n \in 1..SourceLength, p \in [1..SourceLength -> Payloads]}

MCBounds ==
    [by : {"messages"}, size : {1, 2}, prog : BOOLEAN]
    \cup [by : {"size"}, size : {5, 40, 60}, prog : BOOLEAN]

FilesOf(k, times) ==
    {[opens |-> FALSE, messages |-> <<>>, rejects |-> 1]}
    \cup UNION {{[opens |-> TRUE, rejects |-> r,
                   messages |-> Numbered(k, t, [i \in DOMAIN t |-> 1])] :
                        r \in 1..(Len(t) + 1)} : t \in times}

AnyTimes == BoundedSeq(Times, FileLength)
PlainTimes == {t \in AnyTimes : IsSorted(t, <)}

MCDirectories ==
    {<<>>} \cup {<<a>> : a \in FilesOf(1, AnyTimes)}
           \cup FilesOf(1, AnyTimes) \X FilesOf(2, AnyTimes)
           \cup FilesOf(1, PlainTimes) \X FilesOf(2, PlainTimes) \X FilesOf(3, PlainTimes)

(* A process is over when it returned, or has no parts to concatenate.     *)
Over ==
    /\ Ended \/ task = "gone" \/ (task = "splitted" /\ PartFiles = <<>>)
    /\ UNCHANGED filesVars

MCNext ==
    \/ SplitStep
    \/ SplitAbort
    \/ EndSplit
    \/ ConcatenateParts
    \/ ConcatenateDirectory
    \/ OpenNextFile
    \/ \E k \in DOMAIN inputs : CopyMerged(k)
    \/ \E k \in DOMAIN inputs : StopConcatenate(k)
    \/ EndOfMerge
    \/ LeaveConcatenate
    \/ Over

MCSpec == FilesInit /\ [][MCNext]_filesVars
===============================================================================
