------------------------------- MODULE VsbReader -------------------------------
(***************************************************************************)
(* VSBIORead (src/ICS_VSBIO/VSBIO/VSBIO.cpp:25-335): reads the messages of *)
(* a recording one by one.  In format 0x104 the payload of a message       *)
(* follows its header; in 0x102 and 0x103 a message names an entry of the  *)
(* EDP section at the front of the file, and the reader goes there and     *)
(* back with one file pointer, keeping a cursor in the section.            *)
(*                                                                         *)
(* Sizes and positions are counted in units of 4 bytes, and are sums of 64 *)
(* bits that do not wrap.  The contents of a message are its number in the *)
(* file.  Left out: the repair of TimeStampHardwareID in 0x101 and 0x103   *)
(* (lines 225-227, 262-265), buffers smaller than a header, which no       *)
(* caller in src/ passes, a seek that fails, and the wrap of the EDP       *)
(* cursor's index after 2^32 entries.                                      *)
(***************************************************************************)
EXTENDS Integers, Sequences, FiniteSets

CONSTANTS
    Files,          \* the recordings considered
    HeaderSize,     \* sizeof(VSBSpyMessage): 16 units
    SizeField,      \* sizeof(EDPsize): 1 unit
    EndSlack,       \* sizeof(VSBSpyMsgTime): 6 units, 12 where long has 64 bits
    TimeTrailer,    \* the time stamp at the end of a 0x103 file: 6 units
    EdpStart,       \* position of the EDP section
    FakeSize,       \* mCurrentFileSize before the file is open: 50000 bytes
    Words,          \* what bytes of no known meaning can be taken for
    Buffers         \* the sizes of the callers' buffers

Versions == {"0x101", "0x102", "0x103", "0x104"}

(* A recording: payload is the length of a message's payload in 0x104, the *)
(* number of its EDP entry in 0x102 and 0x103, which need not be there, and*)
(* 0 if it has none.  size is the length of the file, which may be cut     *)
(* short.                                                                  *)
FileType ==
    [version : Versions \cup {"unreadable"},
     start : Nat,                           \* of the first message
     edps : Seq(Nat),                       \* lengths of the EDP entries, none without a section
     messages : Seq([payload : Nat]),
     size : Nat]

ASSUME FilesAssumption == Files \subseteq FileType
ASSUME SizesAssumption ==
    /\ HeaderSize \in Nat /\ SizeField \in Nat /\ SizeField > 0
    /\ EndSlack \in Nat /\ EndSlack < HeaderSize /\ EndSlack >= TimeTrailer
    /\ TimeTrailer \in Nat
    /\ Words \subseteq Nat /\ Words # {}
    /\ EdpStart \in Nat /\ FakeSize \in Nat /\ FakeSize > EndSlack
ASSUME BuffersAssumption == \A b \in Buffers : b \in Nat /\ b >= HeaderSize

VARIABLES
    file,           \* the recording being read
    reader,         \* the fields of the VSBIORead object
    condition,      \* what the last call returned
    required,       \* the length the last call returned
    returned,       \* history: the messages returned
    spoiled         \* history: some call returned eInvalidPayloadSize

readerVars == <<file, reader, condition, required, returned, spoiled>>

Reader ==
    [type : Versions \cup {"none"},         \* mCurrentFileType
     location : Nat,                        \* mCurrentMsgLocation
     ptr : Nat,                             \* of mCurrentFile
     fileSize : Nat,                        \* mCurrentFileSize
     edpStart : Nat,                        \* mEDPStartLocation
     edpIndex : Nat,                        \* mCurrentEDPIndex
     edpLocation : Nat]                     \* mCurrentEDPLocation

Conditions ==
    {"none", "eSuccess", "eEndOfFile", "eError", "eBufferTooSmall", "eInvalidPayloadSize"}

-------------------------------------------------------------------------------
(* Where things are in a recording.                                        *)
PayloadInLine(f) == f.version = "0x104"

MessageLength(f, i) == HeaderSize + (IF PayloadInLine(f) THEN f.messages[i].payload ELSE 0)

MessageAt(f, i) ==
    LET at[k \in 1..(Len(f.messages) + 1)] ==
            IF k = 1 THEN f.start ELSE at[k - 1] + MessageLength(f, k - 1)
    IN  at[i]

EntryLength(f, j) == SizeField + f.edps[j]

EdpAt(f, j) ==
    LET at[k \in 1..(Len(f.edps) + 1)] ==
            IF k = 1 THEN EdpStart ELSE at[k - 1] + EntryLength(f, k - 1)
    IN  at[j]

MessagesEnd(f) == MessageAt(f, Len(f.messages) + 1)

(* The EDP section is in front of the messages, as its size says, which    *)
(* Init102 takes them to begin behind (lines 186-187).                     *)
WithSection == {"0x102", "0x103"}
ASSUME SectionAssumption ==
    \A f \in Files :
        f.version \in WithSection => EdpAt(f, Len(f.edps) + 1) <= f.start \/ f.edps = <<>>

(* A read of n units moves the pointer, at most to the end of the file.    *)
Advance(p, n) == IF p + n <= file.size THEN p + n ELSE IF p < file.size THEN file.size ELSE p

(* What EDPsize can be after a read at position p: the length of the entry *)
(* there, or other bytes; behind the end it is what it was before.         *)
EdpSizesAt(p, stale) ==
    LET entries == {j \in DOMAIN file.edps : EdpAt(file, j) = p /\ p + SizeField <= file.size}
    IN  IF p >= file.size THEN {stale}
        ELSE IF entries = {} THEN Words ELSE {file.edps[j] : j \in entries}

(* The headers that a read at position p can find: that of the message     *)
(* which begins there, or else bytes of no known meaning, numbered 0.      *)
HeadersAt(p) ==
    LET here == {i \in DOMAIN file.messages :
                    MessageAt(file, i) = p /\ p + HeaderSize <= file.size}
    IN  IF here # {}
          THEN {[number |-> i, payload |-> file.messages[i].payload] : i \in here}
          ELSE [number : {0}, payload : Words \cup {0}]

-------------------------------------------------------------------------------
Return(c, r, length) ==
    /\ condition' = c
    /\ reader' = r
    /\ required' = length
    /\ spoiled' = (spoiled \/ c = "eInvalidPayloadSize")
    /\ UNCHANGED file

(* Mutant: the length that is required is not returned.                    *)
FailKeepsLength(c, r, length) == Return(c, r, HeaderSize) /\ UNCHANGED returned

Fail(c, r, length) == Return(c, r, length) /\ UNCHANGED returned

(* A message with the bytes of the payload found at position from.         *)
Deliver(r, h, from, length) ==
    /\ Return("eSuccess", r, HeaderSize + length)
    /\ returned' = Append(returned, [number |-> h.number, from |-> from, length |-> length])

(* The header is read; the object counts it in full even if it was cut.    *)
PastHeader(r) ==
    [r EXCEPT !.location = @ + HeaderSize, !.ptr = Advance(@, HeaderSize)]

(* The header is taken back: the next read finds it again.                 *)
TakeBack(r) == [r EXCEPT !.location = @ - HeaderSize, !.ptr = r.location - HeaderSize]

(* Mutant: no payload is too long.                                         *)
TooLongNever(r, needed) == FALSE

(* "The file is corrupted": needed is the length of header and payload,    *)
(* but the header is already behind the location.                          *)
TooLong(r, needed) == r.location + needed > r.fileSize

(* In 0x101 no message has a payload.                                      *)
Read101(r) == \E h \in HeadersAt(r.ptr) : Deliver(PastHeader(r), h, 0, 0)

Read104(r, buffer) ==
    \E h \in HeadersAt(r.ptr) :
        LET after == PastHeader(r)
            needed == HeaderSize + h.payload
        IN  \/ /\ h.payload = 0
               /\ Deliver(after, h, 0, 0)
            \/ /\ h.payload > 0 /\ TooLong(after, needed)
               /\ Fail("eInvalidPayloadSize", after, needed)
            \/ /\ h.payload > 0 /\ ~TooLong(after, needed) /\ needed > buffer
               /\ Fail("eBufferTooSmall", TakeBack(after), needed)
            \/ /\ h.payload > 0 /\ ~TooLong(after, needed) /\ needed <= buffer
               /\ Deliver([after EXCEPT !.location = @ + h.payload,
                                        !.ptr = Advance(@, h.payload)],
                          h, after.ptr, h.payload)

(* An entry and the EDPsize that was read there.                           *)
Sized(p, stale) == {[at |-> p, size |-> n] : n \in EdpSizesAt(p, stale)}

(* The loop skips an entry by its EDPsize.                                 *)
Skip(entries) ==
    UNION {Sized(Advance(e.at, SizeField) + e.size, e.size) : e \in entries}

(* Where the cursor can come to, when it goes from the entry at position   *)
(* from, which is number index, to the one requested, and what EDPsize is  *)
(* there. Before the first read nothing was assigned to EDPsize.           *)
WalkEdps(from, index, requested) ==
    LET walk[k \in index..requested] ==
            IF k = index THEN UNION {Sized(from, n) : n \in Words} ELSE Skip(walk[k - 1])
    IN  walk[requested]

(* Mutant: an entry before the cursor is not looked for from the start.    *)
EdpsForwardOnly(r, requested) ==
    IF requested < r.edpIndex
      THEN WalkEdps(r.edpLocation, requested, requested)
      ELSE WalkEdps(r.edpLocation, r.edpIndex, requested)

(* The cursor goes to the requested entry, from the start of the section   *)
(* if it is already past it.                                               *)
RequestedEdps(r, requested) ==
    IF requested < r.edpIndex
      THEN WalkEdps(r.edpStart, 1, requested)
      ELSE WalkEdps(r.edpLocation, r.edpIndex, requested)

SeekBack(r) == [r EXCEPT !.ptr = r.location]

(* GetEDP, called with the header behind it.  When the payload is too long *)
(* the file pointer is left in the section.                                *)
GetEDP(r, h, buffer) ==
    \E e \in RequestedEdps(r, h.payload) :
        LET at == [r EXCEPT !.edpIndex = h.payload, !.edpLocation = e.at]
            data == Advance(e.at, SizeField)
            needed == HeaderSize + e.size
        IN  \/ /\ TooLong(at, needed)
               /\ Fail("eInvalidPayloadSize", [at EXCEPT !.ptr = data], needed)
            \/ /\ ~TooLong(at, needed) /\ needed > buffer
               /\ Fail("eBufferTooSmall", TakeBack(at), needed)
            \/ /\ ~TooLong(at, needed) /\ needed <= buffer
               /\ Deliver(SeekBack([at EXCEPT !.edpLocation = @ + e.size + SizeField,
                                              !.edpIndex = @ + 1]),
                          h, data, e.size)

Read102(r, buffer) ==
    \E h \in HeadersAt(r.ptr) :
        \/ h.payload = 0 /\ Deliver(PastHeader(r), h, 0, 0)
        \/ h.payload > 0 /\ GetEDP(PastHeader(r), h, buffer)

-------------------------------------------------------------------------------
(* Init102 sets the places of the section only if there is one: without it *)
(* they are what was in the memory.                                        *)
SectionPlaces ==
    IF file.version \in WithSection /\ file.edps = <<>> THEN Words ELSE {EdpStart}

(* What Init101 to Init104 leave behind.                                   *)
Opened ==
    {[type |-> file.version, location |-> file.start, ptr |-> file.start, fileSize |-> file.size,
      edpStart |-> start, edpIndex |-> 1, edpLocation |-> at] :
        start \in SectionPlaces, at \in SectionPlaces}

Reading == IF reader.type = "none" THEN Opened ELSE {reader}

(* Mutant: more than a message must be left.                               *)
AtEndEarly == reader.location + HeaderSize >= reader.fileSize

(* The slack lets the time stamp at the end of a 0x103 file be ignored.    *)
AtEnd == reader.location + EndSlack >= reader.fileSize

ReadEnd ==
    /\ AtEnd
    /\ Fail("eEndOfFile", reader, HeaderSize)

(* The file is missing, or its identification or version is not known: the *)
(* next call tries again.                                                  *)
ReadError ==
    /\ ~AtEnd
    /\ reader.type = "none" /\ file.version = "unreadable"
    /\ Fail("eError", reader, HeaderSize)

(* The first call opens the file, and reads without looking for its end.   *)
ReadMessage(buffer) ==
    /\ ~AtEnd
    /\ reader.type = "none" => file.version # "unreadable"
    /\ \E r \in Reading :
         \/ r.type = "0x101" /\ Read101(r)
         \/ r.type \in WithSection /\ Read102(r, buffer)
         \/ r.type = "0x104" /\ Read104(r, buffer)

ReadNextMessage(buffer) == ReadEnd \/ ReadError \/ ReadMessage(buffer)

(* A caller reads with any buffer; told that it is too small, every caller *)
(* in src/ repeats the call with the size asked for (VSBIO.cpp:66-67,      *)
(* VSBReader.py:67-71).                                                    *)
Call ==
    /\ condition # "eBufferTooSmall"
    /\ \E buffer \in Buffers : ReadNextMessage(buffer)

Retry ==
    /\ condition = "eBufferTooSmall"
    /\ ReadNextMessage(required)

ReaderInit ==
    /\ file \in Files
    /\ reader = [type |-> "none", location |-> 0, ptr |-> 0, fileSize |-> FakeSize,
                 edpStart |-> EdpStart, edpIndex |-> 1, edpLocation |-> EdpStart]
    /\ condition = "none"
    /\ required = 0
    /\ returned = <<>>
    /\ spoiled = FALSE

ReaderNext == Call \/ Retry

ReaderSpec == ReaderInit /\ [][ReaderNext]_readerVars

(* The caller reads until the reader tells it to stop; the loop of the     *)
(* vector overload has no other work.                                      *)
FairReaderSpec == ReaderSpec /\ WF_readerVars(Call) /\ WF_readerVars(Retry)

-------------------------------------------------------------------------------
(* A recording that was closed properly has all its bytes, and its messages*)
(* refer to entries that are there.                                        *)
Refers(f, i) == f.version \in WithSection => f.messages[i].payload <= Len(f.edps)

Complete(f) ==
    /\ f.version \in Versions
    /\ \A i \in DOMAIN f.messages : Refers(f, i)
    /\ f.size = MessagesEnd(f) + (IF f.version = "0x103" THEN TimeTrailer ELSE 0)
    /\ f.messages # <<>>

(* Message i of a recording with its own payload.                          *)
Expected(f, i) ==
    LET p == f.messages[i].payload IN
    CASE p = 0 \/ f.version = "0x101" -> [number |-> i, from |-> 0, length |-> 0]
      [] p > 0 /\ PayloadInLine(f) ->
            [number |-> i, from |-> MessageAt(f, i) + HeaderSize, length |-> p]
      [] OTHER ->
            [number |-> i, from |-> EdpAt(f, p) + SizeField, length |-> f.edps[p]]

(* Until a payload is rejected, the messages come in file order, none      *)
(* twice and none left out, each with its own payload, whatever buffers    *)
(* were too small and whichever way the EDP cursor had to go, and          *)
(* eEndOfFile comes after the last one (VSBIO.cpp:84-89, 232-335).         *)
ReadsInOrder ==
    Complete(file) /\ ~spoiled =>
        /\ \A k \in DOMAIN returned : k \in DOMAIN file.messages /\ returned[k] = Expected(file, k)
        /\ condition = "eEndOfFile" => Len(returned) = Len(file.messages)

(* Whatever is missing at the end of a recording, whatever its last bytes  *)
(* are taken for, and also after a payload was rejected: a message of the  *)
(* file comes with its own payload, unless that is not in the section, and *)
(* a payload in line is not taken from beyond the end (VSBIO.cpp:269-335). *)
PayloadsAreOwn ==
    \A k \in DOMAIN returned :
        LET m == returned[k] IN
        /\ m.number \in DOMAIN file.messages /\ Refers(file, m.number)
              => m = Expected(file, m.number)
        /\ PayloadInLine(file) => m.from + m.length <= file.size

(* What the readers of whole recordings rely on, until a payload is        *)
(* rejected: every call on a file that VSBIOWrite closed returns the       *)
(* condition that Recordings promises, a refusal of the last message       *)
(* included (VSBIO.cpp:73-151).  From a file without messages the first    *)
(* call returns what was in the caller's buffer, here anything.            *)
Promised == INSTANCE Recordings

KeepsPromise ==
    [][ /\ file.version = "unreadable" \/ (Complete(file) /\ file.version = "0x104")
        /\ ~spoiled /\ condition' # "eBufferTooSmall"
        => condition' = Promised!ReadAt(
                [Promised!Closed(file.messages) EXCEPT !.opens = file.version # "unreadable"],
                Len(returned)) ]_readerVars

(* A caller that reads comes to the end, whatever the file is, even one    *)
(* that ignores eInvalidPayloadSize as VSBReader.py:57-71 does.  In        *)
(* particular the loop that repeats a call with the size it was asked for  *)
(* ends (VSBIO.cpp:66-67).                                                 *)
ReadingEnds == condition # "none" ~> [](condition \in {"eEndOfFile", "eError"})

(* "The file is corrupted" (VSBIO.cpp:278, 321).                           *)
InvalidMeansCorrupted == condition = "eInvalidPayloadSize" => ~Complete(file)
===============================================================================
