----------------------------- MODULE VsbDatabase -----------------------------
(***************************************************************************)
(* The message database (src/ICS_VSBIO/VSBIO/VSBDatabase.cpp): recordings  *)
(* are added to a table through a cache that is sorted by time, beside a   *)
(* summary of every network; the table is written as a recording again.    *)
(* Paths that end in .pcap or .pcapng become packet captures instead.      *)
(***************************************************************************)
EXTENDS PcapFile, NetworkInfo, Selection

CONSTANTS
    Byte,           \* values of the low byte of a network
    CacheLimit,     \* messages in the cache that make it flush, 100000
    ProgressEvery,  \* messages between two calls of the callback, 100000
    Histories,      \* sequences of calls, of one database and one capture
    Filters         \* sets of networks, what a WHERE clause lets through

ASSUME DatabaseAssumption ==
    /\ Byte \in Nat \ {0}
    /\ CacheLimit \in Nat /\ CacheLimit > 1
    /\ ProgressEvery \in Nat \ {0}

Entries == {"CreateDatabase", "CreateDatabaseW", "AddToDatabase", "AddToDatabaseW"}

(* body stands for what no operation looks at; frame: Ethernet, with a     *)
(* payload behind the header.                                              *)
Message == [stamp : Stamp, net : Nat, id : Nat, body : Nat, frame : BOOLEAN]
Row == [time : Nat, net : Nat, id : Nat, body : Nat]
Call == [entry : Entries, target : {"db"} \cup Formats, messages : Seq(Message), prog : BOOLEAN]

(* The captures of a history are one file: they have one format.           *)
OneCapture(history) ==
    \A i, j \in 1..Len(history) :
        history[i].target \in Formats /\ history[j].target \in Formats
            => history[i].target = history[j].target

ASSUME HistoriesAssumption ==
    Histories \subseteq Seq(Call) /\ \A history \in Histories : OneCapture(history)

VARIABLES
    phase,          \* what the process is doing
    calls,          \* the calls that are still to be made
    call,           \* the one that is running
    incoming,       \* messages its reader still has
    counter,        \* of the messages, for the callback
    table,          \* RawMessageData, in the order of the row ids
    networks,       \* Network, as a function of the id
    cache,          \* messageCache, as rows in the order of the map
    info,           \* m_mapNetworks, as a function of the low byte
    capture,        \* the packet capture
    processed,      \* messages the calls took since the table was created
    captured,       \* and since the capture was
    filter,         \* the networks WriteVsb is asked for
    rows,           \* the query's rows that WriteVsb still has to fetch
    outputFile,     \* whether Init could create the recording, once it ran
    exported,       \* the messages in it
    stopped,        \* the callback stopped the export
    result          \* what it returned

callVars == <<calls, call, incoming, counter>>
storeVars == <<table, networks, cache, info>>
exportVars == <<filter, rows, outputFile, exported, stopped, result>>
databaseVars == <<phase, callVars, storeVars, capture, captured, processed, exportVars>>

RowOf(m) == [time |-> CalcEpoch64(m.stamp), net |-> m.net, id |-> m.id, body |-> m.body]
KeyOf(row) == <<row.time, row.net, row.id>>
LowBytes == 0..(Byte - 1)
NoInfo == [b \in LowBytes |-> Untouched]
NoCall == [entry |-> "CreateDatabase", target |-> "db", messages |-> <<>>, prog |-> FALSE]

DatabaseInit ==
    /\ phase = "idle"
    /\ calls \in Histories /\ call = NoCall
    /\ incoming = <<>> /\ counter = 0
    /\ table = <<>> /\ networks = <<>> /\ cache = <<>> /\ info = NoInfo
    /\ capture = <<>> /\ captured = <<>> /\ processed = <<>>
    /\ filter = {} /\ rows = <<>> /\ outputFile = "none" /\ exported = <<>>
    /\ stopped = FALSE /\ result = 0

-------------------------------------------------------------------------------
Appends(entry) == entry = "AddToDatabase"

(* What CreateDb does before its loop, by the extension of the path.  Of a *)
(* recording that cannot be read there are no messages.                    *)
BeginCall(target) ==
    /\ phase = "idle" /\ calls # <<>> /\ Head(calls).target \in target
    /\ calls' = Tail(calls)
    /\ call' = Head(calls)
    /\ incoming' = Head(calls).messages
    /\ counter' = 0
    /\ UNCHANGED exportVars

CreateDb ==
    /\ BeginCall({"db"})
    /\ phase' = "database"
    /\ networks' = CleanMessageStatistics(networks)
    /\ LET keep == Appends(Head(calls).entry) IN
       /\ table' = IF keep THEN table ELSE <<>>
       /\ processed' = IF keep THEN processed ELSE <<>>
    /\ cache' = <<>> /\ info' = NoInfo
    /\ UNCHANGED <<capture, captured>>

CreatePcap ==
    /\ BeginCall(Formats)
    /\ phase' = "capture"
    /\ capture' = OpenCapture(capture, Head(calls).target, Appends(Head(calls).entry))
    /\ captured' = IF Appends(Head(calls).entry) THEN captured ELSE <<>>
    /\ UNCHANGED <<storeVars, processed>>

CallbackDue == call.prog /\ counter % ProgressEvery = 0

(* ReadNextMessage, and the callback, which lets the loop go on.           *)
TakeMessage ==
    /\ incoming # <<>>
    /\ incoming' = Tail(incoming)
    /\ counter' = counter + IF call.prog THEN 1 ELSE 0
    /\ UNCHANGED <<phase, calls, call>>

(* INSERT OR IGNORE of rows, one after another.                            *)
SaveMessage(stored, row) ==
    IF \E i \in DOMAIN stored : KeyOf(stored[i]) = KeyOf(row) THEN stored ELSE Append(stored, row)

SaveMessages(stored, saved) == FoldLeft(SaveMessage, stored, saved)

(* Mutant: the row that is saved twice is erased the first time, unsaved.  *)
FlushCacheShort(rowsInCache, numToFlush) ==
    IF numToFlush = 0
      THEN /\ table' = SaveMessages(table, rowsInCache)
           /\ cache' = <<>>
      ELSE /\ table' = SaveMessages(table, SubSeq(rowsInCache, 1, numToFlush))
           /\ cache' = SubSeq(rowsInCache, numToFlush + 2, Len(rowsInCache))

(* Mutant: the messages that are kept are the earliest.                    *)
FlushCacheLatest(rowsInCache, numToFlush) ==
    IF numToFlush = 0
      THEN /\ table' = SaveMessages(table, rowsInCache)
           /\ cache' = <<>>
      ELSE /\ table' = SaveMessages(table, SubSeq(rowsInCache, numToFlush + 1, Len(rowsInCache)))
           /\ cache' = SubSeq(rowsInCache, 1, numToFlush)

(* A partial flush saves one row more than it erases.                      *)
FlushCache(rowsInCache, numToFlush) ==
    IF numToFlush = 0
      THEN /\ table' = SaveMessages(table, rowsInCache)
           /\ cache' = <<>>
      ELSE /\ table' = SaveMessages(table, SubSeq(rowsInCache, 1, numToFlush + 1))
           /\ cache' = SubSeq(rowsInCache, numToFlush + 1, Len(rowsInCache))

(* The place of a row in the multimap: behind those of the same time.      *)
InsertByTime(sorted, row) ==
    LET n == Cardinality({i \in DOMAIN sorted : sorted[i].time <= row.time})
    IN  InsertAt(sorted, n + 1, row)

CacheFull(n) == n >= CacheLimit

CountMessage(row) ==
    info' = [info EXCEPT ![row.net % Byte] = Counted(@, row.time, row.net)]

ProcessMessage ==
    /\ phase = "database" /\ TakeMessage
    /\ LET row == RowOf(Head(incoming))
           filled == InsertByTime(cache, row)
       IN  /\ CountMessage(row)
           /\ processed' = Append(processed, Head(incoming))
           /\ IF CacheFull(Len(filled))
                THEN FlushCache(filled, Len(filled) \div 2)
                ELSE cache' = filled /\ UNCHANGED table
    /\ UNCHANGED <<networks, capture, captured, exportVars>>

(* The callback ends the loop with a message in hand.                      *)
StopReading ==
    /\ phase \in {"database", "capture"} /\ incoming # <<>> /\ CallbackDue
    /\ incoming' = <<>>
    /\ counter' = counter + 1
    /\ UNCHANGED <<phase, calls, call, storeVars, capture, captured, processed, exportVars>>

Touched == {b \in LowBytes : info[b].count > 0}

(* The cache is flushed, then every network in the map is updated from the *)
(* table; the destructor finds the cache empty.                            *)
UpdateTable ==
    /\ phase = "database" /\ incoming = <<>>
    /\ phase' = "idle"
    /\ FlushCache(cache, 0)
    /\ networks' = UpdateNetworks(networks, ToSet(table'), {info[b] : b \in Touched})
    /\ UNCHANGED <<callVars, info, capture, captured, processed, exportVars>>

WriteCapture ==
    /\ phase = "capture" /\ TakeMessage
    /\ capture' = WritePacket(capture, call.target, Head(incoming))
    /\ captured' = Append(captured, Head(incoming))
    /\ UNCHANGED <<storeVars, processed, exportVars>>

CloseCapture ==
    /\ phase = "capture" /\ incoming = <<>>
    /\ phase' = "idle"
    /\ UNCHANGED <<callVars, storeVars, capture, captured, processed, exportVars>>

-------------------------------------------------------------------------------
Earlier(r, q) ==
    \/ r.time < q.time
    \/ r.time = q.time /\ r.net < q.net
    \/ r.time = q.time /\ r.net = q.net /\ r.id < q.id

(* The rows by their keys, which differ: the n-th has n - 1 before it.     *)
ByKey(selected) ==
    [n \in DOMAIN selected |->
        CHOOSE r \in ToSet(selected) : Cardinality({q \in ToSet(selected) : Earlier(q, r)}) = n - 1]

(* The query has no ORDER BY: its rows come in the order of the row ids,   *)
(* or of the key if the index is used for the condition.                   *)
QueryOrders(selected) == {selected, ByKey(selected)}

OfNetworks(nets) == {r \in Row : r.net \in nets}

WriteVsb ==
    /\ phase = "idle" /\ calls = <<>>
    /\ phase' = "export"
    /\ \E prog \in BOOLEAN : call' = [NoCall EXCEPT !.prog = prog]
    /\ counter' = 0
    /\ filter' \in Filters
    /\ rows' \in QueryOrders(Selected(table, OfNetworks(filter')))
    /\ UNCHANGED <<calls, incoming, storeVars, capture, captured, processed>>
    /\ UNCHANGED <<outputFile, exported, stopped, result>>

(* The time stamp is made of the time, whatever kind it had.               *)
ReadRow(r) == [stamp |-> SetMessageTime(r.time), net |-> r.net, id |-> r.id, body |-> r.body]

(* The row is counted before the callback is asked; the first one creates  *)
(* the recording, and whether that succeeded nobody looks at.              *)
FetchRow ==
    /\ phase = "export" /\ rows # <<>>
    /\ counter' = counter + 1
    /\ outputFile' \in IF counter = 0 THEN {"created", "refused"} ELSE {outputFile}
    /\ UNCHANGED <<phase, calls, call, incoming, storeVars, capture, captured, processed, filter, result>>

ExportRow ==
    /\ FetchRow
    /\ rows' = Tail(rows)
    /\ exported' = IF outputFile' = "created" THEN Append(exported, ReadRow(Head(rows))) ELSE exported
    /\ UNCHANGED stopped

(* The callback ends the loop with a row in hand that was counted.         *)
StopExport ==
    /\ call.prog /\ (counter + 1) % ProgressEvery = 0
    /\ FetchRow
    /\ rows' = <<>>
    /\ stopped' = TRUE
    /\ UNCHANGED exported

EndExport ==
    /\ phase = "export" /\ rows = <<>>
    /\ phase' = "done"
    /\ result' = counter
    /\ UNCHANGED <<callVars, storeVars, capture, captured, processed>>
    /\ UNCHANGED <<filter, rows, outputFile, exported, stopped>>

DatabaseNext ==
    \/ CreateDb
    \/ CreatePcap
    \/ ProcessMessage
    \/ StopReading
    \/ UpdateTable
    \/ WriteCapture
    \/ CloseCapture
    \/ WriteVsb
    \/ ExportRow
    \/ StopExport
    \/ EndExport

DatabaseSpec == DatabaseInit /\ [][DatabaseNext]_databaseVars

-------------------------------------------------------------------------------
Stored == table \o cache

(* The first row with each key, in the table or still in the cache.        *)
FirstStored ==
    [k \in {KeyOf(r) : r \in ToSet(Stored)} |->
        Stored[Min({i \in DOMAIN Stored : KeyOf(Stored[i]) = k})]]

(* Table and cache together keep, of the messages with one time, network   *)
(* and id, the first one that was added and nothing else, across partial   *)
(* flushes, stops and appended recordings (VSBDatabase.cpp:21, 123-157).   *)
Store == INSTANCE KeyStore WITH
    Item <- Row,
    Key <- KeyOf,
    store <- FirstStored,
    incoming <- IF phase = "database" THEN [i \in DOMAIN incoming |-> RowOf(incoming[i])] ELSE <<>>
KeepsFirstOfEachKey == Store!StoreSpec

NotLater(r, q) == r.time <= q.time

(* How many messages before the i-th are later than it.                    *)
Disorder(i) ==
    Cardinality({j \in 1..(i - 1) : CalcEpoch64(processed[j].stamp) > CalcEpoch64(processed[i].stamp)})

(* The rows of one recording are in the order of time if no message comes  *)
(* behind more later ones than a partial flush leaves in the cache         *)
(* (VSBDatabase.cpp:123-143, 154-156).                                     *)
StoredInOrder ==
    (/\ phase \in {"database", "idle"} /\ call.target = "db" /\ ~Appends(call.entry)
     /\ \A i \in DOMAIN processed : Disorder(i) < CacheLimit - CacheLimit \div 2)
    => IsSorted(Stored, NotLater)

(* No two messages have the same key, no time is zero, and no two networks *)
(* have the same low byte.                                                 *)
Plain ==
    /\ \A i, j \in DOMAIN processed :
        /\ i # j => KeyOf(RowOf(processed[i])) # KeyOf(RowOf(processed[j]))
        /\ processed[i].net % Byte = processed[j].net % Byte => processed[i].net = processed[j].net
    /\ \A i \in DOMAIN processed : CalcEpoch64(processed[i].stamp) > 0

(* After a call the record of every network that had a message in it says  *)
(* what the table holds, of this call and those before it, for plain       *)
(* messages; if the call created the table it counts no fewer rows than    *)
(* there are; the record of any other network is empty (VSBDatabase.cpp:55-75,   *)
(* 145-152; NetworkInfo.cpp:106-120, 160-173, 221-240, 262-267).           *)
SummariesMatch ==
    phase = "idle" /\ call.target = "db" =>
        \A n \in DOMAIN networks :
            LET truth == ReadMessageStats(ToSet(table), n) IN
            IF n \in {info[b].id : b \in Touched}
              THEN (Plain => networks[n] = truth) /\ (Appends(call.entry) \/ networks[n].count >= truth.count)
              ELSE networks[n] = NoMessages

FirstsOfInput ==
    {i \in DOMAIN processed : \A j \in 1..(i - 1) : KeyOf(RowOf(processed[j])) # KeyOf(RowOf(processed[i]))}

(* What is exported are the messages that were added, the first of each    *)
(* key, of the networks asked for, at their time rounded down to 25 ns;    *)
(* all of them, unless the callback stopped it or the file could not be    *)
(* created. The number returned is no less than were written and no more   *)
(* than were asked for (VSBDatabase.cpp:165-206, 295-309). A time of less  *)
(* than 25 ns may come out at the end of the range, as the 64 bits are no  *)
(* multiple of 25 (MessageTimeDecoderVSB.cpp:125).                         *)
ExportIsTheInput ==
    phase = "done" =>
        LET wanted == {i \in FirstsOfInput : processed[i].net \in filter}
            From(m, i) ==
                /\ <<m.net, m.id, m.body>> = <<processed[i].net, processed[i].id, processed[i].body>>
                /\ LET time == CalcEpoch64(processed[i].stamp) IN
                   time - CalcEpoch64(m.stamp) \in 0..24 \/ time \in 0..24
        IN  /\ \A k \in DOMAIN exported : \E i \in wanted : From(exported[k], i)
            /\ ~stopped /\ outputFile # "refused"
                 => \A i \in wanted : \E k \in DOMAIN exported : From(exported[k], i)
            /\ Len(exported) <= result /\ result <= Cardinality(wanted)

(* "The number of records written or -1 if an error occurred" is what      *)
(* WriteFilteredVsb says it returns (VSBIODLL.h:238, 250).                 *)
RecordsWrittenReturned ==
    phase = "done" => result \in {Len(exported), -1}

(* "number of nanoseconds since Jan 1, 1970" (MessageTimeDecoderVSB.cpp:80)*)
(* is what the database knows of every message that has a counter's stamp. *)
TimesAreNanoseconds ==
    \A i \in DOMAIN processed :
        processed[i].stamp.kind \in Counters =>
            \E r \in ToSet(Stored) :
                /\ r.net = processed[i].net /\ r.id = processed[i].id
                /\ r.time = (EpochOffset + Elapsed(processed[i].stamp)) % Wrap

Frames == {m \in Message : m.frame}

(* A capture holds the Ethernet messages of all recordings that were added *)
(* since it was created, in their order and with their times, and has no   *)
(* header but in front (PcapFile.cpp:60-132).                              *)
CaptureMatches ==
    LET frames == Selected(captured, Frames)
        front == Len(capture) - Len(frames)
    IN  /\ front \in {0, 1} /\ (front = 1 => capture[1].header)
        /\ \A i \in DOMAIN frames :
            LET packet == capture[front + i]
                time == CalcEpoch64(frames[i].stamp)
            IN  /\ ~packet.header /\ packet.body = frames[i].body
                /\ call.target = "pcap" /\ time < Word * Second => TimeIn("pcap", packet.at) = time
                /\ call.target = "pcapng" => time - TimeIn("pcapng", packet.at) \in 0..(Micro - 1)

(* "Appends to or creates a Sqlite database" (VSBIODLL.h:212, 221).        *)
AddingKeeps ==
    [][phase = "idle" /\ phase' = "database" /\ call'.entry \in {"AddToDatabase", "AddToDatabaseW"}
        => table' = table]_databaseVars
===============================================================================
