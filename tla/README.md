# A verification development for ICS_VSBIO

ICS_VSBIO reads, writes, merges, splits and converts recordings of vehicle bus messages (`.vsb`
files). The part with the most logic of its own is `UnwrapCMPToNative`, which turns the Ethernet
messages of the ASAM CMP capture protocol in a recording back into CAN, CAN FD, LIN and Ethernet
messages. These modules model the conversion, the reader and every operation on whole recordings:
splitting, concatenating, the message database, packet captures, the network map and the Python
reader. TLC checks them on small instances. For all instances TLAPS proves that the conversion, the
merge and the database implement their abstract specifications, and every safety property that the
runs check.

Paths below are relative to `src/ICS_VSBIO/`.

## The system

All of the library is sequential and single threaded: one call does one job, the caller waits.
Nothing is persisted except the files and the database it writes, which later calls read again. The
hard behaviour is not concurrency in the process but in its input: a recording interleaves the
messages of many devices and streams, with gaps, repetitions and messages out of order, while the
conversion keeps four pieces of state that each follow the input at a different pace.

| Component | State | Operations | Interacts with | What is hard | What makes it correct |
|---|---|---|---|---|---|
| Conversion loop `UnwrapCMP.cpp:702-978` | counter, phase of the call | one iteration per message, abort by the callback, end, report | reader, reassembly, detector, buffer, writer, progress callback | each message goes through up to three stateful parts; every way the loop can end | one result per message, native exactly if decodable, right answer and report |
| Segment reassembly `:463-677` | a context per stream id | START, continuation, end, unsegmented | loop, network map | interleaved streams, devices on one stream, lost and repeated segments, counter wrap | returned frames are whole; every whole frame is returned |
| Drop detection `:793-831` | last counter per device and stream, events | track one message, total | loop | counter wrap, late and repeated messages, messages of all types | events are the gaps; the count is what is missing, and never less |
| Output buffer `:714-755, 918` | buffered messages | push, half flush, final flush | loop, writer | a flush in the middle of disorder | nothing lost, bounded, order kept or made |
| Recording reader `VSBIO/VSBIO.cpp:25-335` | file pointer, location, EDP cursor | read, retry with a larger buffer, end, progress | OFile, every consumer | two positions in one file, failure between header and payload, cut files, references to nowhere | each message once, in order, with its own payload; reading ends |
| Merged reader `VSBIO/VSBIO.cpp:338-445` | queue of readers by time | open all, read the earliest, delete | readers | a reader that fails, ties, cleanup | all messages, by time; every reader deleted once |
| Writer, concatenation, split `VSBIO/VSBIO.cpp:448-608` | open output, counters | init, write, roll over | readers, callback | abort, rollover at a boundary, failed output, full disk | the parts are the whole; the output is the merge |
| Message database `VSBIO/VSBDatabase.cpp`, `VSBIO/NetworkInfo.cpp` | sorted cache, table, summaries | process, half flush, final flush, append, export | reader, SQLite, time decoder | flush boundary, key collisions, append | the first message of every key stored; summaries match; the export is the input |
| Network map `CMPNetworkMap.cpp` | built-in table, override | load, look up | loop, command line | global state across calls, numbers cut to width | the map loaded last first, else the table |
| Bus message unwrappers `UnwrapCMP.cpp:143-460` | none | unwrap CAN, CAN FD, LIN | loop, network map, database | lengths, payload bytes in two places | every byte kept, none from beyond the frame |
| Time decoder, capture files | none, a file | convert, open, write | database | integer widths, append | time survives |
| Python reader | handle, shared buffer, status | iterate, next, delete | C interface | use after close, shared buffer, loops left, begun again, in one another | one close per open, no buffer freed in use |
| C interface, command line | none | forward, convert strings | everything | entry points that forward to the wrong one | they do what they are named for |

A message's way through the conversion: `ReadNextMessage` (module `VsbReader`) -> drop detection
(`DropDetector`) -> an unwrapper, for Ethernet the reassembly (`SegmentReassembly`) -> `pushMessage`
(`OutputBuffer`) -> `WriteMessage`. The loop (`UnwrapCmp`) composes the last four; the reader is
represented in it by what it may return: any messages, then any of the conditions that end a
reading.

Whole recordings: `ReadNextMessage` feeds the split (`VsbSplit`), the merge (`VsbMerge`) under the
concatenation (`VsbFiles`), and the database (`VsbDatabase`). These modules do not repeat the
reader: `Recordings` states what a reading of a closed file returns, and the run of `VsbReader`
checks that the reader keeps that promise.

## The modules

| Module | Models | Its state in the code |
|---|---|---|
| `CmpMessages` | what the control flow tells apart in a message: kind, device, stream, interface, counter, segment bits, well-formedness, two times | `icsSpyMessageVSB` and the CMP headers |
| `OutputBuffer` | `pushMessage`, `flushBuffer` | `outBuffer`; `written` stands for the output file; `sortOutput` is the argument (TRUE for the code's 0) |
| `SegmentReassembly` | `TryUnwrapCmpEthernet` | `segmentContexts`; the histories `calls` and `frames` record what went in and came out. The references say whose segments they count: one device's, or those of all that share the stream |
| `DropDetector` | `streamTrackers`, `droppedFrames` | a tracker is present once it is initialized |
| `CaptureChannel` | the world outside: devices that number their messages and a channel that loses, repeats and delays them | external; extends `DropDetector` |
| `Conversion` | what a conversion promises, and no more | abstract |
| `UnwrapCmp` | the whole of `UnwrapCMPToNative`, extending the three components | `args`, `phase`, `input`, `counter`, `condition`, `aborted`, `result`, `report` |
| `VsbReader` | `VSBIORead::ReadNextMessage`, formats 0x101 to 0x104, with `GetEDP` | the record `reader`: file type, `mCurrentMsgLocation`, file pointer, `mCurrentFileSize`, `mCurrentEDPIndex`, `mCurrentEDPLocation` |
| `Recordings` | what a reading of a whole file returns: the messages, and the condition that ends them | abstract; checked by `VsbReader` |
| `VsbMerge` | `VSBIOReadMultiple` | `readList` and `queue` are `IOReadList` and `latestTimestamp`; `deleted` counts the `delete`s of each reader |
| `MergeByTime` | what a merge promises | abstract |
| `VsbSplit` | `Split`, `SplitBySize` | their locals; `parts` is what is on the disk |
| `VsbFiles` | `Concatenate` over the merge, and the split before it, in one process | `file` is the `VSBIOWrite`, with how many of its writes fell short; `output` holds the pieces of messages that are on the disk |
| `TimeDecoder` | `CalcEpoch64`, `SetMessageTime` | operators |
| `PcapFile` | the two capture formats | operators on the sequence of header and packets |
| `NetworkInfo` | the summary of a network, in memory and in its record | operators |
| `VsbDatabase` | `CreateDb`, `CreatePcap`, `WriteVsb`, `VSBInfo` | `table` and `networks` are the two tables, `cache` is `messageCache`, `info` is `m_mapNetworks` |
| `KeyStore` | what a database promises: the first item of each key | abstract |
| `NetworkMap` | the override map, its file, the lookup | `gOverrideMap`, `gOverrideMapActive` |
| `BusMessages` | `TryUnwrapCmpCan`, `TryUnwrapCmpCanFd`, `TryUnwrapCmpLin`, and a database row of the result | `native` and `reread` are messages |
| `PyReader` | `VSBReader` in a Python program | its members, and the heap it uses: every buffer and handle with how often it was freed or closed; `loops` is how many `for` statements over the reader the program is in |
| `Selection` | the members of a sequence that a caller wants | |
| `DataLemmas` | lemmas about induction, folds, selections, flattened sequences and remainders, for the proofs | |
| `ConversionParts_proofs` | theorems about the output buffer, the reassembly and the drop detection, each by itself | |
| `UnwrapCmp_proofs`, `BusMessages_proofs`, `VsbReader_proofs`, `VsbFiles_proofs`, `VsbDatabase_proofs`, `PyReader_proofs` | theorems about the module of the name, and their lemmas | |
| `MC_*` | instances for TLC. `MC_ConversionParts` has four components that share no variable and `MC_Readers` two: in a behaviour one of them moves, the others stay at their initial state | |

### How the models abstract

*Bytes are named by where they come from.* The data of a frame is the sequence of the numbers of the
calls that brought its segments, so `FramesAreWhole` can say which segments a frame is made of. An
entry of the output buffer carries the number of its push. A message returned by the reader carries
its number in the file, and its payload the place it was read from.

*A format check is one bit.* `wellFormed` stands for the length checks of the unwrappers; a failing
one has the same effect wherever it is.

*Messages are whole.* The branch of the loop for a message shorter than a header
(`UnwrapCMP.cpp:765-770`) is left out since `ReadNextMessage` never returns one.

*`stable_sort` is what it promises.* `StableOrders` is the set of permutations that put a buffer in
order and keep the order of equal keys; there is exactly one.

*The counter keeps its width.* `CounterMod` is 2^16 in the code and a few values in a run; the
detector's arithmetic is modulo it.

*The reader counts in units of four bytes*, the alignment of everything in the file, so a header is
16, the size field of an EDP entry 1 and the slack at the end of the file 12
(`sizeof(VSBSpyMsgTime)` where `long` has 64 bits; 6 elsewhere). Past a cut the bytes of a header
are unknown: it may refer to anything. So are those of an EDP entry that is not in the section: the
cursor walks on through whatever is there, by sizes that may be any member of `Words`, and from the
end of the file on by the `EDPsize` of the last entry, which a read that fails leaves as it was
(`VSBIO.cpp:309-317`). Without a section the places of it are what was in the memory (`:189-193`).
The theorems hold for every set of `Words`. Left out are the repair of `TimeStampHardwareID` for old
formats, which changes a byte nothing here looks at, buffers smaller than a header, which no caller
passes, a seek that fails, and positions that wrap in 64 bits.

*A stamp keeps its halves.* The times of the database are two counts and a kind, and the conversion
is that of the code with its constants; only the widths are small (a half has 1024 values, a second
1000 ns) so that they overflow in a run. The 64 bits of a time are no multiple of the 25 ns that an
export counts in, nor is `Wrap` (26000016) in the runs.

*A write may fall short.* `WriteMessage` ignores what the write returns (`VSBIO.cpp:486-491`), so
any write of a concatenation may leave a part of its message or nothing, and the next ones go on
behind it. `MaxShort` bounds how many do in a run, not which. A part, output or exported file that
cannot be created is a nondeterministic choice. Only in a concatenation may a write fall short: the
parts of a split, the output of a conversion and of an export, are complete where the file could be
created.

*Pointers are numbers.* In `PyReader` a buffer or handle is its place in the order of allocation,
and what is freed stays in the sequence with its count, so that a use after free, a double free and
a leak can be told.

*A mutant* is an operator placed before the one it imitates with a mistake. The specification never
uses one; each shows that a property can fail.

## What is checked

### The parts of the conversion (`conversion_parts`)

Four components, each by itself, on one instance.

*Output buffer.* Inputs of up to eight messages with three keys in every arrangement, with and
without sorting, fill a buffer of four (of which a flush writes two) up to three times, so that
flushes meet disorder, equal keys on both sides of a flush, and an input that ends exactly at one.
`NothingLostOrDuplicated`, `InputOrderKept` and `EqualKeysKeepOrder` say that the output is the
input; `BoundedBuffer` that the half flush bounds the memory; `FlushesEarliest` and
`SortedWhenDisorderBounded` say how much order the half flush guarantees: the output is fully sorted
when no message has more than `Capacity - FlushSize` greater ones in front of it. A message with
more may be written behind them.

*Reassembly.* Five calls of one device with every segment, every counter out of three and two
interfaces: enough for a frame of up to four segments with a foreign one at any place, for a frame
begun inside another, and for a gap as long as the counter; and four calls (`MaxMixed`) that mix two
devices, the second one with frames of two and three segments on a stream of its own *and on the
stream of the first*: every interleaving of two frames. `FramesAreWhole` is soundness: what is
returned are all segments from a START to an END that are on the stream, and if they are of one
device, it is a frame by that device's own counters. `EveryWholeFrameReturned` is completeness: a
frame whose segments follow each other among those of its device is returned, whatever came before,
if no other device's segment is between them on the stream. That this condition is needed, and that
a frame of two devices can be returned, are consequences of contexts that are found by the stream
alone; the run `glued_frames` shows the second. `ActiveContextsAreChains` is the inductive invariant
of the proof.

*Drop detection.* Two devices that share a stream id, three recorded messages each, with any true
numbers up to 6 and a counter of three values: gaps of zero to two wraps, repetitions and late
messages. `Missing` is the set of numbers that are in no message of the stream, between its first
and its largest. `CountIsExact` says that without late messages and with gaps shorter than the
counter's range the count is the size of that set; `NoLossUnreported` that whatever is late or
repeated the count is no smaller, as long as no message is more than the counter's range ahead of
the one before it. It may be larger: `repeated_counted`.

*Bus messages.* Payloads of every length around 2, 8 and 10 bytes, where the rules of the three
protocols change, whole, cut by a byte, cut in the header, and with bytes behind them; and every
pair of two devices and three interfaces under every map file of up to two entries out of nine,
valid, cut to width, in the old form, and invalid in every way, loaded one after the other.
`PayloadKept` and `NoByteFromBeyond` say where each byte of a message is from;
`NetworkFromLatestMap` that no earlier map has a say; `SurvivesDatabase` what a row keeps of a
message, of all lengths. For LIN of more than ten bytes `NumberBytesData` is larger than what is in
the message, `SaveMessage` takes as many bytes nevertheless (`VSBDatabase.cpp:112-113`), and the
property says that those of the frame come back with others behind them.

### The conversion (`unwrap`)

Recordings of four messages out of fourteen of one stream, which cover every branch of the dispatch,
or of five out of eight of two streams that interleave; a buffer of three (flushed twice), a
callback every two messages, and the failures to open either file. The calls sort with a callback,
keep the order with a report, and sort by outer timestamps with a report. `ImplementsConversion`
checks the refinement of `Conversion` under `taken <- Len(pushed)`, `emitted <-` the numbers of the
written messages, `ended <- finished`. `NativeIffDecodable` predicts from the input alone which
results are native, and `DropEventsMatchInput` which events there are: they relate the components
through the loop, where an early `continue` or `break` could leave one of them out.

### The readers (`readers`)

*The library's.* Every recording of up to three messages in every format: payloads of three sizes in
line, or three EDP entries referred to in every order, with references to an entry that is not there
or to a section that is not there, complete or without the last bytes, up to several messages of
them; read with buffers that are too small for all payloads, for some or for none, at every call
anew. `ReadsInOrder` is what a caller relies on: the messages come in order, each with its own
payload, and the end comes after the last. It is stated of complete recordings *until a payload is
rejected*, since the code rejects some it should not (below), and location and file pointer are not
in step afterwards. `PayloadsAreOwn` and `ReadingEnds` hold of the others as well: whatever is
missing, a message of the file that refers to an entry of the section comes with that entry or not
at all, though the cursor was beyond the section in between, and a payload in line is not taken from
behind the end. A message whose reference leads nowhere *can* get bytes from anywhere, also from
beyond the end of the file, as the check of the length (`VSBIO.cpp:321`) is about the message's
location and not the entry's.

`KeepsPromise` compares every condition the reader returns from a file that `VSBIOWrite` closed, or
that cannot be read, with `Recordings`; the modules below rest on it.

Liveness: `ReadingEnds` is checked under `WF(Call)` and `WF(Retry)`. The callers in the repository
are loops that do nothing but call the reader until it says stop: the conversion
(`UnwrapCMP.cpp:757`), the split and database loops, `VSBReader.__next__`; the retry is the `while`
of the vector overload (`VSBIO.cpp:66`). A caller that stops for good is outside this assumption,
and no other fairness is assumed. With a wrong size asked for, that `while` would never end, which
is what a mutant shows.

*Python's.* Recordings of up to four messages that fit the buffer, need a larger one, or are
refused, and one that cannot be opened; a program that loops, leaves its loops, loops again, also in
a loop, calls `next` by itself and gives the reader up in any order, with up to three opens.
`HandlesClosedOnce` and `BuffersFreedOnce` count what the code does to the heap, leaks included;
`GivenStaysValid` says how long a message may be used; `LoopsAreComplete` what the loops get. A
program whose loops are in one another, or that calls `next` after `StopIteration`, comes to use a
handle that is closed: the model stops there (`undefined`), as nothing can be said of what follows,
and `HandlesClosedOnce` says that no other program does. `LoopsEnd`, under weak fairness of the
steps of `__next__` in a loop: a `for` statement goes on by itself until it is left, and its body is
the program's.

### Splitting and concatenating (`files`)

Recordings of up to four messages with and without payload, split by one or two messages or by a
size that one, two or three of them reach, with the callback and with at most one part that cannot
be created; then their parts are concatenated. Or directories of up to three files of up to two
messages with two times, each unreadable, complete, or cut off by a payload that is refused,
concatenated with up to two writes that fall short, an output that cannot be created, or a callback
that stops. `PartsAreTheFile` and `PartsAreFull` are what a split promises. `MergesByTime` is the
refinement of `MergeByTime` under `left <-` what each file still has that is left in the merge,
`taken <- merged`: an unreadable file takes those listed before it with it (`Survivors`), and the
others are read to their end or to a refused payload, by time. Ties are taken in any order, since
the comparison of the queue does not order them. `ReadersDeletedOnce` says exactly which readers are
deleted twice; where the callback asks for the progress of such a one the process may be `gone`.
`OutputFollowsMerge` is what is in the output when any of its writes fall short. `RoundTrip`
composes the two operations: split and concatenated again, a recording whose times increase is
itself, but for messages whose payload ended a part, if all was written. `PartsAreTheFile` and
`RoundTrip` are about splits whose parts could all be created: what belongs in one that could not is
lost. `PartsAreFull` says by how much a part may exceed the size asked for, by its first message;
that it should not is the run `split_maximum`.

### The database (`database`)

Recordings of six messages in any order of their times with a cache of four, which flushes half of
it twice; two recordings with equal keys, the second one added or replacing; stamps of every kind;
captures in both formats that are created and added to; exports with filters, with a callback that
stops, and with a file that cannot be created. `KeepsFirstOfEachKey` is the refinement of `KeyStore`
by table and cache together: it is what makes the flush that saves one message too many harmless.
`StoredInOrder` bounds the disorder under which the table is in order. `SummariesMatch` says when
the records of networks are right, and pins what they are when they are not. `ExportIsTheInput`
composes the way in and the way out, with the stop and the file that cannot be created; that the
number returned is not that of the records written is the run `records_written`. `ExportIsTheInput` excepts times of
less than 25 ns after 1970: the count of 25 ns from 2007 backwards wraps in 64 bits, which are no
multiple of 25, so such a time is read back as one at the end of the range. `TimesAreNanoseconds`
compares the times with what a counter's stamp means; it is checked where the 10 ns kind has no high
half, and `time_jumps` where it has. `CaptureMatches` is the same for captures, with the arithmetic
in 32 bits.

### Bounds

`MaxPushes`, `MaxCalls` (and `MaxMixed`, for calls of several devices), `MaxSent`, `MaxArrived`,
`MaxMessages` bound the histories; `Capacity`, `CacheLimit`, `CounterMod` and `ProgressEvery`
replace 131072, 100000, 65536 and 100000. `MaxShort` bounds the writes that fall short, `MaxOpens`
how often Python opens the file and `MaxLoops` how many of its loops are in one another. No property
depends on their size other than through a boundary that the small values reach. The proofs do
without all of them.

### Deadlock

Checked in every run. A conversion or another call stops when it returned, a recording when it is
used up, and a Python program when it gave its reader up, or used a closed one; the MC modules add a
step that stutters there and nowhere else, so any other stop is reported.

## Disagreements with comments and documentation

Each is a run that TLC finds violated; the line that says otherwise is in `PROJECT.json`.

| Run | What the code does |
|---|---|
| `last_payload` | the last message of a complete recording is rejected if it has a payload, in line or in the EDP section, since the header is counted twice |
| `glued_frames` | segments of two devices that use one stream id are put together to one frame: contexts are found by the stream alone (`UnwrapCMP.cpp:589`), sequence counters are by device and stream (`:483`, `:800`) |
| `repeated_counted` | a repeated or late message is added to the dropped ones, as up to 65535 of them, though none is missing (`UnwrapCMP.cpp:811`) |
| `split_maximum` | the message that begins a part is not counted, so that a part is larger than the "maximum size of split files" (`VSBIO.cpp:570`, `VSBIODLL.h:175`, `:185`) |
| `records_written` | the "number of records written" (`VSBIODLL.h:238`, `:250`) contains the row in hand when the callback stops, and all rows if the output could not be created (`VSBDatabase.cpp:295-309`) |
| `append_wide` | `AddToDatabaseW`, which promises to append, calls `CreateDatabase` and drops the messages that were there |
| `time_jumps` | a time stamp in ticks of 10 ns jumps ahead by 387 s whenever its low half wraps, every 43 s, since the weight of the high half is ten times too large |

Seen while modelling and without a run of their own:
- `Split` and `SplitBySize` return `true` whatever happened; `VSBIODLL.h:158` to `:188` say "whether
  the output files were all written". So does `Concatenate` (`:139`, `:148`) if its writes fall
  short or its output could not be created.
- A LIN message of more than ten bytes is saved with bytes from behind its data
  (`UnwrapCMP.cpp:219`, `VSBDatabase.cpp:113`): `SurvivesDatabase`.
- A reference to an EDP entry that does not exist can return a payload from beyond the section or
  the end of the file (`VSBIO.cpp:309-331`).
- Loops over one `VSBReader` in one another, and `next` after `StopIteration`, give the library a
  reader that is closed (`VSBReader.py:63`).
- The segments of an unwrapped frame, all but the last, are written too (`UnwrapCMP.cpp:911`);
  `VSBIODLL.h:268` says that CMP messages are filtered out. So are CMP messages other than captured
  data (`VSBIODLL.h:303`), and `PassOtherCmp` writes them as the code does.
- An input that cannot be opened makes an empty output and the answer true (`UnwrapCMP.cpp:757`);
  `VSBIODLL.h:289` says false.
- Without a callback the report says that zero messages were processed (`UnwrapCMP.cpp:759`).
- The first read of a recording without messages returns a message that is not there
  (`VSBIO.cpp:84`), and so `Ghost` of `Recordings`.
- `VSBIODLL.h:272` promises chronological order without the bound on disorder that
  `SortedWhenDisorderBounded` needs.
- `GetProgress` (`VSBIO.cpp:51`) exceeds its 100 after a cut header, since `PastHeader` counts it in
  full; that of a merge (`:387`) asks readers that may be deleted: `StopConcatenate`.
- `Concatenate` opens its output before it lists the directory (`VSBIODLL.cpp:98`): inside it, the
  output is an unreadable file of the list, and all files before it are lost from the merge.
- Concatenating recordings loses the last message of each if it has a payload: `RoundTrip`.
- Adding to a database clears the summaries of the networks that are not in the new recording
  (`NetworkInfo.cpp:262`), and networks with the same low byte share one summary.
- A capture that is made by appending has no header (`PcapFile.cpp:63`).
- `CalcEpoch64` does not move the times of the last two kinds to the epoch, so that their export
  wraps below 2007 and comes back only modulo 2^64.
- `DescriptionID` of LIN, and for a long CAN FD payload its copy of the first bytes and its length
  in the message, have no column of the database.
- `-z` of the command line cuts a fraction of a megabyte off (`main.cpp:89`).
- `VSBReader` forgets a buffer whenever it opens the file again (`VSBReader.py:32`).

## What is proved

For all values of the constants, from the named assumptions of the modules (`EntryAssumption`,
`CapacityAssumption`, `CounterModAssumption`, `MappedAssumption`, `MessagesAssumption`,
`MaxCallsAssumption`, `MaxShortAssumption`, `SourcesAssumption`, `BoundsAssumption`,
`ArgumentsAssumption`, `ProgressAssumption`, `MaxMessagesAssumption`, `ResultsAssumption`,
`DirectoriesAssumption`, `FramesAssumption`, `MapAssumption`, `DocumentsAssumption`, `PyAssumption`,
`HeaderSizeAssumption`, `FileHeaderAssumption`, `FilesAssumption`, `SizesAssumption`,
`BuffersAssumption`, `SectionAssumption`, `TimeAssumption`, `HalvesAssumption`, `PcapAssumption`,
`DatabaseAssumption`, `HistoriesAssumption`), which TLC evaluates in the runs. `SectionAssumption`
is the one that says something of a recording: the EDP section is in front of the messages, as its
size in the file says (`VSBIO.cpp:186`). `HistoriesAssumption` says that a history of calls is about
one database and one capture, which has one format; `HalvesAssumption` that counts of 25 ns fit two
halves, as 2^64 <= 25 * 2^32 * 2^32.

`DataLemmas`: induction over the natural numbers from the least number a set misses, and over
sequences from it; the value of a fold, of a selection (`Selected`) and of a flattened sequence on
the empty sequence and on one with a member more. A fold of the models is first shown to be one of a
set-theoretic function, and then has these equations. The proofs below take their statements about
the whole input from them.

`ConversionParts_proofs`, the output buffer
- `TypeCorrect`, `BufferBounded`: by the type invariant and `Len(outBuffer) < Capacity`, which is
  inductive because `FlushSize` is positive.
- `NothingLost`: the invariant is that written and buffer together carry the numbers
  `1..Len(pushed)`, each once, and each the message pushed under it. A flush applies a permutation
  to the buffer's end of `Output` and moves the border; the lemmas say what a permuted tail does to
  the three conjuncts, once for both kinds of flush.
- `OrderKept`: without sorting the permutation is the identity.
- `EqualKeysStable`: the permutation keeps the order of equal keys, and a new message comes behind
  all those with its key.
- `EarliestFirst`: an action property, from the order that sorting establishes.
- `SortedWhenBounded`: the inductive invariant `SortedInv` adds two facts to the order of what is
  written: nothing in the buffer belongs before it (`WrittenFirst`), and once something is written
  the buffer holds at least `Capacity - FlushSize` messages. A new message that belongs before a
  written one has then overtaken the whole buffer *and* that one, so more than `Capacity -
  FlushSize` messages (`LateOvertakesBuffer`, by an injection from the places of the buffer into the
  earlier pushes).

`ConversionParts_proofs`, the reassembly
- `ReassemblyTypeCorrect`.
- `ContextsCorrect` is the inductive invariant: an active context's data is a chain of positions of
  `calls` that begins with a START, is continued by continuations whose counters follow each other,
  and ends with the predecessor of the expected counter. It is not enough to say this of the frames
  returned: a frame is right because the context it is taken from was, and the context is right
  because every message that does not continue it ends it. The lemmas say that a longer `calls`
  leaves chains chains and that the next segment of a stream extends its own.
- `FramesCorrect`: from the invariant, one step per action; only a message that ends a frame, or is
  one, appends to `frames`. A chain of all segments of a stream that are of one device is a chain of
  that device's segments.
- `WholeFramesReturned`: completeness. The invariant says of every run of consecutive segments of a
  stream that began with a START and did not end yet that the stream's context holds exactly this
  run, and of every run that ended that it is among the frames. The lemmas say what one more call
  does to the segments of its own stream and that it does nothing to those of any other. A device's
  frame that no other one disturbs is such a run.

`ConversionParts_proofs`, the drop detection
- `ChannelInvariant`: a stream's tracker expects the successor of the last message that was recorded
  of it, and its events count what is missing: exactly while the stream is in order, and from below
  in any case.
- `CountExact`, `LossesAreReported` follow. The step adds `(counter - expected) % CounterMod` to the
  count; the lemmas on remainders say that this is the gap itself if it is shorter than the
  counter's range, and the lemmas on `Missing` that one more message can only add to what is missing
  what lies between the largest number so far and its own, and takes away at most itself.

`UnwrapCmp_proofs`
- `UnwrapInvariant`: the parts keep in the loop what they keep alone. The lemmas about one step of
  the reassembly and of the buffer are the ones above; what is added is that the loop takes as many
  messages as it pushes, on every branch of the dispatch.
- `UnwrapImplementsConversion`: every step of the loop is a `Take`, an `End` or a stutter of
  `Conversion`. `Emit` needs that what is written stays and that no number is written twice
  (`NothingLostOrDuplicated` of the invariant), `End` that the last flush leaves nothing.
- `OuterOrderKept`: `SortedWhenBounded` for keys that increase, where nothing is out of order, and a
  sorted permutation that keeps the order of equal keys is the identity (`IncreasingIsIdentity`).
- `DecodableIsNative`: from `WholeFramesReturned` and its converse in the loop: a message ends a
  frame exactly if the input alone says so, and what the dispatch does with it depends on the
  message only.
- `DropsAreGaps`: the events of a stream are the gaps between the counters of its messages among
  those of the loop that reach the detector, by induction over the input.

`BusMessages_proofs`
- `BusInvariant`: what an unwrapped message is made of.
- `PayloadsKept`, `NothingFromBeyond`, `DatabaseSurvived`, the last one for LIN above ten bytes as
  well: the parts of a message are runs of consecutive bytes; the lemmas say what cutting and
  joining runs gives. TLC tries lengths around the boundaries, the theorems hold for all.
- `LatestMapDecides`: the map in use is the one that the last loaded document says, entry by entry
  the last one for a device and interface, and the built-in one if there is none.

`VsbReader_proofs`
- `ReaderInvariant`: of an open file, the file pointer is not ahead of the location where payloads
  are in line, and wherever the cursor's index is in the section, so is its location, also after it
  was beyond; of a complete one, before a payload is rejected, location *and* pointer are at the
  message after those that were returned. Both halves are needed: what a header says is only known
  if the pointer is at a message, and the pointer comes back from the section only by the location.
  The lemmas say that positions rise, so that one position belongs to one message, and that the walk
  through the section ends at the entry that was asked for, from wherever it starts.
- `PayloadsOwned`, `InFileOrder` follow; `PromiseKept` is an action property: with the invariant a
  call finds a message of known length, and refuses it exactly if it is the last and has a payload.

`VsbFiles_proofs`
- `MergeInvariant`, of `MergerSpec`, the merge by itself for any list of recordings. Its core is
  `QueueCorrect`: a reader in the queue has the message in hand that its position says, and no file
  listed after it is unreadable.
- `MergeImplementsMergeByTime`: opening a file changes nothing of what is left; reading takes the
  head of one stream, and the invariant makes it one of the earliest.
- `FilesInvariant`: `MergeInvariant` in the whole of `FilesSpec`, the parts of a split in terms of
  what was read (`SplitInv`), how often each reader was deleted, and the output.
- `SplitKeepsTheFile`, `SplitFillsParts`: the parts are joined to what was read, and every part was
  closed by the message that did not fit.
- `ReadersDeleted`, `OutputKeepsOrder`: a reader leaves the list at its end and the destructor
  deletes those that are left in it; a write appends the message, a part of it or nothing, so that
  the place of each piece in the merge is ahead of its place in the output by the writes that left
  nothing before it.
- `ConcatenateMergesByTime`: the refinement for the concatenation as `FilesSpec` does it.
- `SplitAndConcatenate`: with increasing times the merge takes the parts one after another, each
  without a last message that has a payload; flattened, and if no write fell short, this is the
  file.

`PyReader_proofs`
- `PyTypeCorrect`, `HandlesCorrect`, `GivenCorrect`, `BuffersCorrect`, `LoopsCorrect`, from one
  inductive invariant `PyInv`: the reader's buffer is the latest that was allocated and not freed
  (`LatestInUse`), only the latest handle may be open (`OnlyLatestOpen`), no buffer is freed twice
  (`NoneFreedTwice`), there is one unfreed buffer for every opening, less one when the reader was
  given up (`OneKeptPerOpening`), a loop got what its handle has read (`GotWhatWasRead`), and the
  program is in more than one loop, or in one over a closed handle, only if loops were in one
  another or `next` was called by itself (`LoopsInUse`).

`VsbDatabase_proofs`
- `DatabaseInvariant` is the inductive invariant `StoreInv` that the others rest on: table and cache
  joined have the same first row of each key as the messages taken since the table was created
  (`InputInv`), and the cache is in the order of time (`CacheInv`). It is stated of the first rows,
  as functions of the key, because the lists differ: a partial flush leaves the row it saved twice
  in the cache. The lemmas say that the first rows of joined lists are those of the first list and
  then of the second (`Over`), that inserting by time and saving keep them, and that a row which is
  there already adds nothing.
- `FirstOfEachKeyKept`: the refinement of `KeyStore`. A message taken is a `Put`, whether its row is
  only cached or makes the cache flush; the flush itself, and the one at the end of a call, change
  nothing of the store.
- `RowsStoredInOrder`: as for `SortedWhenBounded`, a row that belongs before a stored one has
  overtaken all rows in the cache *and* that one. `OrderInv` says that the cache's rows are those of
  distinct messages, and that the cache is no smaller than what a partial flush leaves once there is
  something in the table.
- `TimesAreOfTheStamps`: `TimesAreNanoseconds`, for histories without a 10 ns stamp whose high half
  is in use (`PlainCall`); with one it is false, which is the run `time_jumps`.
- `CapturesMatch`: what is written of a message reads back as its time, by the lemmas on seconds and
  microseconds in two halves. `CaptureInv` relates packets and messages one by one, and says that
  all captures of a history are in one format.
- `ExportsTheInput`: `ExportInv` says that no key is twice in the table, that the rows of the query
  are those of the wanted messages, and that the first n of them are exported if there is a file,
  none if not. The order by the key is a permutation, since every row has a different number of rows
  before it (`RankOf`, `ByKeyIs`); time and stamp are inverse up to 25 ns (`ReadTime`).
- `SummariesSayTheTable`: `CountingInv` says what is counted for each low byte: the messages of the
  running call, their number always, and their network, first and last time if messages are plain;
  and that between the calls every network has a record. At the end of a call a network without a
  record was in no earlier message, so that what was counted is what the table holds
  (`TruthOfPlain`); if messages are not plain there are still no more rows than were counted
  (`TruthIsCounted`, by an injection).

Only model checked: `ReadingEnds` and `LoopsEnd`, which are liveness under fairness and out of the
provers' reach. The runs that expect a violation show properties that are false of the code.

## Not modelled, and why

- SQLite (`VSBIO/sqlite/sqlite3.c`, `sqlite3.h`) and its C++ wrapper are third-party code, the two
  `*_wrap.cpp` and their Python halves are generated by SWIG. Together they are 97% of the lines of
  the repository. What the library needs of them is in `VsbDatabase` and `PyReader` as these use it.
  `VSBFlags.h` is a list of constants.
- Failures of SQLite: no caller in the library looks at them other than by stopping.
- The contents of payloads and the fields of native messages on which no control depends; the text
  of the report.
- `CalcTimeStamp`, `CalcEpoch64` in floating point; `UpdateDescription` of the database, which
  nothing calls; the value of `GetProgress`, on which nothing depends (what is wrong with it is
  listed above).
- `VSBWriter`, which forwards to a handle it never looks at; the parsing of the command line; the
  functions of the C interface that only convert strings and forward; path helpers and the listing
  of directories in `OFile.cpp`; the examples.

## Plan

Done: every component with state of its own, and the proofs of all safety properties. Left:

1. That `MergerSpec` and `DatabaseSpec` compose: the recordings that `Concatenate` writes, added to
   a database, give the table that adding their parts gives.
2. The command line, as far as it combines operations.
