---------------------------- MODULE MC_VsbDatabase ----------------------------
(* Small histories of calls for VsbDatabase.                                *)
EXTENDS VsbDatabase

CONSTANT LongStamps     \* counters whose high half is in use

(* The body of a message is its place in the history.                       *)
Recorded(messages, n) == [i \in DOMAIN messages |-> [messages[i] EXCEPT !.body = n + i]]
Called(entry, target, messages, prog) ==
    [entry |-> entry, target |-> target, messages |-> messages, prog |-> prog]

Tick(n) == [kind |-> "NEORED_25NS", high |-> 0, low |-> n]
Plainly(stamp, net, id) == [stamp |-> stamp, net |-> net, id |-> id, body |-> 0, frame |-> FALSE]

(* One recording in any order of three times.                               *)
OrderedMessages == {Plainly(Tick(t), 1, 0) : t \in 1..3}
Unkeyed(messages) == [i \in DOMAIN messages |-> [messages[i] EXCEPT !.id = i]]
OrderHistories ==
    {<<Called("CreateDatabase", "db", Recorded(Unkeyed(m), 0), p)>> :
        m \in [1..6 -> OrderedMessages], p \in BOOLEAN}

(* Two recordings with equal keys, two networks with one low byte, and the *)
(* time zero.                                                              *)
KeyedMessages ==
    {Plainly(Tick(1), 1, 1), Plainly(Tick(2), 1, 1), Plainly(Tick(1), 2, 1),
     Plainly(Tick(1), 1 + Byte, 1),
     Plainly([kind |-> "DOUBLE_SEC", high |-> 0, low |-> 0], 2, 1)}
KeyedRecordings(n) == BoundedSeq(KeyedMessages, n)
Long == KeyedRecordings(3)
Short == KeyedRecordings(2)
KeyHistories ==
    {<<Called("CreateDatabase", "db", Recorded(a, 0), FALSE), Called(e, "db", Recorded(b, 3), FALSE)>> :
        a \in Long, e \in Entries, b \in Short}

(* The kinds of time stamps.                                               *)
StampHistories ==
    {<<Called("CreateDatabase", "db", Recorded(<<Plainly(s, 1, 1), Plainly(q, 1, 2)>>, 0), p)>> :
        p \in BOOLEAN, q \in {Tick(1)},
        s \in LongStamps \cup
              {[kind |-> k, high |-> 0, low |-> 3] : k \in Counters}
              \cup {[kind |-> "DOUBLE_SEC", high |-> 0, low |-> 7],
                    [kind |-> "SYSTEM", high |-> 0, low |-> 1]}}

(* Captures of Ethernet messages and others.                               *)
FrameMessages ==
    {Plainly(Tick(3), 1, 1)}
    \cup {[Plainly(s, 1, 1) EXCEPT !.frame = TRUE] :
            s \in {Tick(40), [kind |-> "NEOv6_VCAN", high |-> 1, low |-> 1],
                   [kind |-> "SYSTEM", high |-> 0, low |-> 1]}}
Captured == BoundedSeq(FrameMessages, 2)
Single == BoundedSeq(FrameMessages, 1)
Opening == {"CreateDatabase", "AddToDatabase"}
CaptureHistories ==
    {<<Called(e, t, Recorded(a, 0), TRUE), Called(f, t, Recorded(b, 2), FALSE)>> :
        t \in Formats, e \in Opening, f \in Opening, a \in Captured, b \in Single}

MCHistories == OrderHistories \cup KeyHistories \cup StampHistories \cup CaptureHistories
MCFilters == {{1, 2, 1 + Byte}, {1}}
MCLongStamps ==
    {[kind |-> k, high |-> 1, low |-> 1] : k \in {"NEORED_25NS", "NEOv6_VCAN", "NEOVI"}}
    \cup {[kind |-> "NEORED_10US", high |-> 1, low |-> 0]}
RedLongStamps == {[kind |-> "NEORED_10NS", high |-> 1, low |-> 1]}

MCNext ==
    \/ CreateDb
    \/ CreatePcap
    \/ ProcessMessage
    \/ StopReading
    \/ UpdateTable
    \/ WriteCapture
    \/ CloseCapture
    \/ WriteVsb
    \/ ExportRow
    \/ StopExport
    \/ EndExport
    \/ phase = "done" /\ UNCHANGED databaseVars

MCSpec == DatabaseInit /\ [][MCNext]_databaseVars
===============================================================================
