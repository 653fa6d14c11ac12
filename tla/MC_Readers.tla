------------------------------- MODULE MC_Readers -------------------------------
(* Small recordings for the reader of the library and for that of the      *)
(* Python package; in a behaviour one of them reads and the other stays    *)
(* where it began.  For the first, messages of every format, with payloads *)
(* of a few sizes and, for the formats with an EDP section, with every     *)
(* order of references into it.                                            *)
EXTENDS VsbReader, PyReader

CONSTANTS
    MinLength, MaxLength,       \* messages in a recording
    Cuts,                       \* units cut off at the end
    InLine,                     \* lengths of payloads in line
    Sections, Dangling,         \* the EDP sections; references beyond their end
    Sizes,                      \* for Python: of the messages; zero for a refused payload
    MaxReads                    \* messages in its recordings

VARIABLE part       \* the one that reads

mcVars == <<part, readerVars, pyVars>>

MessagesEndAt(version, start, payloads) ==
    MessagesEnd([version |-> version, start |-> start, edps |-> <<>>,
                 messages |-> payloads])

Recording(version, start, edps, messages, cut) ==
    LET trailer == IF version = "0x103" THEN TimeTrailer ELSE 0
        end == MessagesEndAt(version, start, messages) + trailer
    IN  [version |-> version, start |-> start, edps |-> edps, messages |-> messages,
         size |-> IF cut < end - start THEN end - cut ELSE start]

Payloads(n, P) == [1..n -> [payload : P]]

Lengths == MinLength..MaxLength

InLineFiles ==
    {Recording("0x104", 3, <<>>, m, cut) :
        m \in UNION {Payloads(n, InLine) : n \in Lengths}, cut \in Cuts}

SectionStart(edps) ==
    LET end[k \in 0..Len(edps)] == IF k = 0 THEN EdpStart ELSE end[k - 1] + SizeField + edps[k]
    IN  end[Len(edps)]

(* The messages refer to entries that are there, and to one that is not.   *)
SectionFiles ==
    UNION {{Recording(version, SectionStart(edps), edps, m, cut) :
                m \in UNION {Payloads(n, 0..Len(edps) \cup Dangling) : n \in Lengths}, cut \in Cuts} :
        version \in {"0x102", "0x103"}, edps \in Sections}

PlainFiles ==
    {Recording("0x101", 3, <<>>, m, cut) :
        m \in UNION {Payloads(n, {0}) : n \in Lengths}, cut \in Cuts}

Unreadable ==
    {[version |-> "unreadable", start |-> 0, edps |-> <<>>, messages |-> <<>>, size |-> 0]}

MCFiles == InLineFiles \cup SectionFiles \cup PlainFiles \cup Unreadable
MCSections == {<<>>, <<2, 20, 1>>}
OneEntry == {<<5>>}

ReaderStep ==
    /\ part = "library"
    /\ ReaderNext
    /\ UNCHANGED <<part, pyVars>>

-------------------------------------------------------------------------------
MCPyFiles ==
    [opens : {TRUE}, reads : BoundedSeq(Sizes, MaxReads)] \cup {[opens |-> FALSE, reads |-> <<>>]}

(* The program may be done when it gave the reader up; nothing is said of  *)
(* what follows the use of a closed one.                                   *)
PyStep ==
    /\ part = "python"
    /\ \/ PyNext
       \/ (undefined \/ (~alive /\ handles # <<>>)) /\ UNCHANGED pyVars
    /\ UNCHANGED <<part, readerVars>>

PyGoesOn == part = "python" /\ Goes(FALSE) /\ UNCHANGED <<part, readerVars>>

-------------------------------------------------------------------------------
MCInit ==
    /\ part \in {"library", "python"}
    /\ ReaderInit /\ (part # "library" => file.version = "unreadable")
    /\ PyInit /\ (part # "python" => ~recording.opens)

MCNext == ReaderStep \/ PyStep

(* The fairness of FairReaderSpec and of FairPySpec.                       *)
MCSpec ==
    /\ MCInit /\ [][MCNext]_mcVars
    /\ WF_mcVars(part = "library" /\ Call /\ UNCHANGED <<part, pyVars>>)
    /\ WF_mcVars(part = "library" /\ Retry /\ UNCHANGED <<part, pyVars>>)
    /\ WF_mcVars(PyGoesOn)
===============================================================================
