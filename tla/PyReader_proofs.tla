---------------------------- MODULE PyReader_proofs ----------------------------
(* Theorems about PyReader for every recording, buffer size and number of  *)
(* loops.                                                                  *)
EXTENDS PyReader, FiniteSetTheorems, SequenceTheorems, TLAPS

Buffer == [frees : Nat, holds : Seq(Nat)]
Handle == [reads : Nat, closes : Nat]

LEMMA FreedOnceMore ==
    ASSUME NEW r \in Buffer
    PROVE  LET e == [r EXCEPT !.frees = @ + 1] IN
           e \in Buffer /\ e.holds = r.holds /\ e.frees = r.frees + 1
  BY DEF Buffer

LEMMA ClosedOnceMore ==
    ASSUME NEW r \in Handle
    PROVE  LET e == [r EXCEPT !.closes = @ + 1] IN
           e \in Handle /\ e.reads = r.reads /\ e.closes = r.closes + 1
  BY DEF Handle

LEMMA ReadOnceMore ==
    ASSUME NEW r \in Handle
    PROVE  LET e == [r EXCEPT !.reads = @ + 1] IN
           e \in Handle /\ e.closes = r.closes /\ e.reads = r.reads + 1
  BY DEF Handle

LEMMA HeldFacts ==
    ASSUME NEW r \in Buffer, NEW h \in Seq(Nat)
    PROVE  LET e == [r EXCEPT !.holds = h] IN
           e \in Buffer /\ e.frees = r.frees /\ e.holds = h
  BY DEF Buffer

(* The changes the actions make to the lists of buffers and handles.       *)
LEMMA AppendFacts ==
    ASSUME NEW S, NEW s \in Seq(S), NEW e \in S
    PROVE  /\ Append(s, e) \in Seq(S) /\ Len(Append(s, e)) = Len(s) + 1
           /\ Append(s, e) # <<>>
           /\ \A i \in 1..Len(s) : Append(s, e)[i] = s[i]
           /\ Append(s, e)[Len(s) + 1] = e
  OBVIOUS

LEMMA FreedFacts ==
    ASSUME NEW bufs \in Seq(Buffer), NEW b \in DOMAIN bufs
    PROVE  /\ Freed(bufs, b) \in Seq(Buffer) /\ Len(Freed(bufs, b)) = Len(bufs)
           /\ \A c \in DOMAIN bufs : Freed(bufs, b)[c].holds = bufs[c].holds
           /\ \A c \in DOMAIN bufs : Freed(bufs, b)[c].frees = bufs[c].frees + IF c = b THEN 1 ELSE 0
<1> DEFINE e == [bufs[b] EXCEPT !.frees = @ + 1]
<1>5. \A c \in DOMAIN bufs : bufs[c] \in Buffer
  OBVIOUS
<1>6. \A c \in DOMAIN bufs : bufs[c].frees \in Nat
  BY <1>5 DEF Buffer
<1>1. e \in Buffer /\ e.holds = bufs[b].holds /\ e.frees = bufs[b].frees + 1
  <2>1. bufs[b] \in Buffer
    BY <1>5
  <2> QED
    BY <2>1, FreedOnceMore
<1>2. Freed(bufs, b) = [bufs EXCEPT ![b] = e]
  BY DEF Freed
<1>3. b \in 1..Len(bufs) /\ DOMAIN bufs = 1..Len(bufs)
  OBVIOUS
<1> HIDE DEF e
<1>4. /\ Freed(bufs, b) \in Seq(Buffer) /\ Len(Freed(bufs, b)) = Len(bufs)
      /\ \A c \in 1..Len(bufs) : Freed(bufs, b)[c] = IF c = b THEN e ELSE bufs[c]
  BY <1>1, <1>2, <1>3, ExceptSeq
<1> QED
  BY <1>1, <1>3, <1>4, <1>6

LEMMA ClosedFacts ==
    ASSUME handles \in Seq(Handle), NEW h \in DOMAIN handles
    PROVE  /\ Closed(h) \in Seq(Handle) /\ Len(Closed(h)) = Len(handles)
           /\ \A g \in DOMAIN handles : Closed(h)[g].reads = handles[g].reads
           /\ \A g \in DOMAIN handles : Closed(h)[g].closes = handles[g].closes + IF g = h THEN 1 ELSE 0
<1> DEFINE e == [handles[h] EXCEPT !.closes = @ + 1]
<1>5. \A g \in DOMAIN handles : handles[g] \in Handle
  OBVIOUS
<1>6. \A g \in DOMAIN handles : handles[g].closes \in Nat
  BY <1>5 DEF Handle
<1>1. e \in Handle /\ e.reads = handles[h].reads /\ e.closes = handles[h].closes + 1
  <2>1. handles[h] \in Handle
    BY <1>5
  <2> QED
    BY <2>1, ClosedOnceMore
<1>2. Closed(h) = [handles EXCEPT ![h] = e]
  BY DEF Closed
<1>3. h \in 1..Len(handles) /\ DOMAIN handles = 1..Len(handles)
  OBVIOUS
<1> HIDE DEF e
<1>4. /\ Closed(h) \in Seq(Handle) /\ Len(Closed(h)) = Len(handles)
      /\ \A g \in 1..Len(handles) : Closed(h)[g] = IF g = h THEN e ELSE handles[g]
  BY <1>1, <1>2, <1>3, ExceptSeq
<1> QED
  BY <1>1, <1>3, <1>4, <1>6

LEMMA ReadFacts ==
    ASSUME handles \in Seq(Handle), handle \in DOMAIN handles, ReadNext
    PROVE  /\ handles' \in Seq(Handle) /\ Len(handles') = Len(handles)
           /\ \A g \in DOMAIN handles : handles'[g].closes = handles[g].closes
           /\ handles'[handle].reads = handles[handle].reads + 1
<1> DEFINE e == [handles[handle] EXCEPT !.reads = @ + 1]
<1>1. \A g \in DOMAIN handles : handles[g] \in Handle
  OBVIOUS
<1>2. e \in Handle /\ e.closes = handles[handle].closes /\ e.reads = handles[handle].reads + 1
  BY <1>1, ReadOnceMore
<1>3. handles' = [handles EXCEPT ![handle] = e]
  BY DEF ReadNext
<1>4. handle \in 1..Len(handles) /\ DOMAIN handles = 1..Len(handles)
  OBVIOUS
<1> HIDE DEF e
<1>5. /\ handles' \in Seq(Handle) /\ Len(handles') = Len(handles)
      /\ \A g \in 1..Len(handles) : handles'[g] = IF g = handle THEN e ELSE handles[g]
  BY <1>2, <1>3, <1>4, ExceptSeq
<1> QED
  BY <1>2, <1>4, <1>5

(* A message is written into the buffer it fits.                           *)
Filled(bufs, b, h) == [bufs EXCEPT ![b].holds = h]

LEMMA FilledFacts ==
    ASSUME NEW bufs \in Seq(Buffer), NEW b \in DOMAIN bufs, NEW h \in Seq(Nat)
    PROVE  /\ Filled(bufs, b, h) \in Seq(Buffer) /\ Len(Filled(bufs, b, h)) = Len(bufs)
           /\ \A c \in DOMAIN bufs : Filled(bufs, b, h)[c].frees = bufs[c].frees
           /\ Filled(bufs, b, h)[b].holds = h
<1> DEFINE e == [bufs[b] EXCEPT !.holds = h]
<1>1. \A c \in DOMAIN bufs : bufs[c] \in Buffer
  OBVIOUS
<1>2. e \in Buffer /\ e.frees = bufs[b].frees /\ e.holds = h
  BY <1>1, HeldFacts
<1>3. Filled(bufs, b, h) = [bufs EXCEPT ![b] = e]
  BY DEF Filled
<1>4. b \in 1..Len(bufs) /\ DOMAIN bufs = 1..Len(bufs)
  OBVIOUS
<1> HIDE DEF e
<1>5. /\ Filled(bufs, b, h) \in Seq(Buffer) /\ Len(Filled(bufs, b, h)) = Len(bufs)
      /\ \A c \in 1..Len(bufs) : Filled(bufs, b, h)[c] = IF c = b THEN e ELSE bufs[c]
  BY <1>2, <1>3, <1>4, ExceptSeq
<1> QED
  BY <1>2, <1>4, <1>5

LEMMA FileOpenFacts ==
    ASSUME NEW bufs \in Seq(Buffer), NEW hnds \in Seq(Handle), FileOpen(bufs, hnds)
    PROVE  /\ buffers' \in Seq(Buffer) /\ Len(buffers') = Len(bufs) + 1
           /\ message' = Len(bufs) + 1
           /\ \A b \in DOMAIN bufs : buffers'[b] = bufs[b]
           /\ buffers'[message'].frees = 0
           /\ handles' \in Seq(Handle) /\ Len(handles') = Len(hnds) + 1 /\ handles' # <<>>
           /\ handle' = Len(hnds) + 1
           /\ \A h \in DOMAIN hnds : handles'[h] = hnds[h]
           /\ handles'[handle'].closes = 0 /\ handles'[handle'].reads = 0
           /\ state' = "eFileOpened" /\ got' = <<>>
<1>1. [frees |-> 0, holds |-> Nothing] \in Buffer /\ [reads |-> 0, closes |-> 0] \in Handle
  BY DEF Buffer, Handle, Nothing
<1>2. /\ buffers' = Append(bufs, [frees |-> 0, holds |-> Nothing]) /\ message' = Len(bufs) + 1
      /\ handles' = Append(hnds, [reads |-> 0, closes |-> 0]) /\ handle' = Len(hnds) + 1
      /\ state' = "eFileOpened" /\ got' = <<>>
  BY DEF FileOpen, VSBIOMalloc
<1>3. DOMAIN bufs = 1..Len(bufs) /\ DOMAIN hnds = 1..Len(hnds)
  OBVIOUS
<1> QED
  BY <1>1, <1>2, <1>3, AppendFacts

-------------------------------------------------------------------------------
(* The inductive invariant.  The reader uses the file that was opened and  *)
(* the buffer that was allocated last; only it may be open, and is just    *)
(* before the end of the file and the end of the VSBReader.                *)
Unfreed(bufs) == {b \in DOMAIN bufs : bufs[b].frees = 0}

LatestInUse ==
    /\ handles = <<>> => ~alive /\ buffers = <<>> /\ given = NoMessage
    /\ handles # <<>> => handle = Len(handles) /\ message = Len(buffers) /\ message > 0

(* Where loops are not in one another and next is not called by itself.    *)
LoopsInUse ==
    /\ loops \in 0..MaxLoops /\ nested \in BOOLEAN /\ undefined \in BOOLEAN
    /\ loops > 0 => alive
    /\ ~nested => ~undefined /\ loops <= 1 /\ (loops > 0 => state # "eEndOfFile")

OnlyLatestOpen ==
    \A h \in DOMAIN handles :
        handles[h].closes = IF h = handle /\ alive /\ state # "eEndOfFile" THEN 0 ELSE 1

NoneFreedTwice ==
    /\ \A b \in DOMAIN buffers : buffers[b].frees <= 1
    /\ alive => buffers[message].frees = 0
    /\ given # NoMessage =>
        /\ given.buffer \in DOMAIN buffers
        /\ buffers[given.buffer].frees = 0
        /\ buffers[given.buffer].holds = given.holds

OneKeptPerOpening ==
    handles # <<>> =>
        Cardinality(Unfreed(buffers)) = Len(handles) - IF alive THEN 0 ELSE 1

GotWhatWasRead ==
    handles # <<>> =>
        /\ Read(handle) <= Len(recording.reads)
        /\ got = SubSeq(recording.reads, 1, Read(handle))
        /\ state = "eEndOfFile" => Read(handle) = Len(recording.reads)

PyInv ==
    /\ PyTypeOK
    /\ LatestInUse
    /\ LoopsInUse
    /\ OnlyLatestOpen
    /\ NoneFreedTwice
    /\ OneKeptPerOpening
    /\ GotWhatWasRead

(* Its form for the lists, with the types of the lemmas.                   *)
LEMMA InvFacts ==
    ASSUME PyInv
    PROVE  /\ buffers \in Seq(Buffer) /\ handles \in Seq(Handle)
           /\ DOMAIN buffers = 1..Len(buffers) /\ DOMAIN handles = 1..Len(handles)
           /\ recording.reads \in Seq(Nat) /\ recording.opens \in BOOLEAN
           /\ \A b \in DOMAIN buffers : buffers[b].frees \in Nat
           /\ alive => handles # <<>>
           /\ handles # <<>> => handle \in DOMAIN handles /\ message \in DOMAIN buffers
           /\ \A h \in DOMAIN handles : handles[h].reads \in Nat
           /\ IsFiniteSet(Unfreed(buffers))
<1>1. buffers \in Seq(Buffer) /\ handles \in Seq(Handle)
  BY DEF PyInv, PyTypeOK, Buffer, Handle
<1>2. DOMAIN buffers = 1..Len(buffers) /\ DOMAIN handles = 1..Len(handles)
      /\ Len(buffers) \in Nat /\ Len(handles) \in Nat
  BY <1>1
<1>3. recording.reads \in Seq(Nat) /\ recording.opens \in BOOLEAN
  BY DEF PyInv, PyTypeOK, File
<1>4. \A b \in DOMAIN buffers : buffers[b] \in Buffer
  BY <1>1
<1>5. \A h \in DOMAIN handles : handles[h] \in Handle
  BY <1>1
<1>6. handles # <<>> => handle \in DOMAIN handles /\ message \in DOMAIN buffers
  <2>1. handles # <<>> => Len(handles) \in 1..Len(handles)
    BY <1>1
  <2> QED
    BY <1>2, <2>1 DEF PyInv, LatestInUse
<1>7. IsFiniteSet(Unfreed(buffers))
  <2>1. Unfreed(buffers) \in SUBSET (1..Len(buffers))
    BY <1>2 DEF Unfreed
  <2>2. IsFiniteSet(1..Len(buffers))
    BY <1>2, FS_Interval
  <2> QED
    BY <2>1, <2>2, FS_Subset
<1> QED
  BY <1>1, <1>2, <1>3, <1>4, <1>5, <1>6, <1>7 DEF PyInv, LatestInUse, Buffer, Handle

LEMMA InitCorrect ==
    ASSUME PyInit
    PROVE  PyInv
<1>1. PyTypeOK
  <2>1. recording \in File /\ size \in Nat \ {0}
    BY PyAssumption DEF PyInit
  <2>2. buffers \in Seq([frees : Nat, holds : Seq(Nat)]) /\ handles \in Seq([reads : Nat, closes : Nat])
        /\ got \in Seq(Nat) /\ Len(buffers) = 0 /\ Len(handles) = 0
    BY EmptySeq DEF PyInit
  <2>3. given \in [buffer : 0..Len(buffers), holds : Seq(Nat)]
    BY <2>2, EmptySeq DEF PyInit, NoMessage, Nothing
  <2>4. alive \in BOOLEAN /\ nested \in BOOLEAN /\ undefined \in BOOLEAN
    BY Zenon DEF PyInit
  <2>7. loops \in 0..MaxLoops
    BY PyAssumption DEF PyInit
  <2>5. state \in States /\ message \in 0..Len(buffers) /\ handle \in 0..Len(handles)
    BY <2>2 DEF PyInit, States
  <2>6. alive => message > 0 /\ handle > 0
    BY DEF PyInit
  <2> QED
    BY <2>1, <2>2, <2>3, <2>4, <2>5, <2>6, <2>7, Zenon DEF PyTypeOK
<1>2. LatestInUse /\ OnlyLatestOpen /\ NoneFreedTwice /\ OneKeptPerOpening /\ GotWhatWasRead
  BY DEF PyInit, LatestInUse, OnlyLatestOpen, NoneFreedTwice, OneKeptPerOpening, GotWhatWasRead
<1>3. LoopsInUse
  <2>1. loops \in 0..MaxLoops /\ loops <= 1 /\ ~(loops > 0)
    BY PyAssumption DEF PyInit
  <2>2. nested \in BOOLEAN /\ undefined \in BOOLEAN /\ ~undefined
    BY Zenon DEF PyInit
  <2> QED
    BY <2>1, <2>2, Zenon DEF LoopsInUse
<1> QED
  BY <1>1, <1>2, <1>3 DEF PyInv

(* A buffer more that is not freed.                                        *)
LEMMA OneMoreUnfreed ==
    ASSUME NEW bufs \in Seq(Buffer), NEW more \in Seq(Buffer), IsFiniteSet(Unfreed(bufs)),
           Len(more) = Len(bufs) + 1, more[Len(bufs) + 1].frees = 0,
           \A b \in DOMAIN bufs : more[b].frees = bufs[b].frees
    PROVE  /\ IsFiniteSet(Unfreed(more))
           /\ Cardinality(Unfreed(more)) = Cardinality(Unfreed(bufs)) + 1
<1>1. DOMAIN bufs = 1..Len(bufs) /\ DOMAIN more = 1..(Len(bufs) + 1) /\ Len(bufs) \in Nat
  OBVIOUS
<1>2. Unfreed(more) = Unfreed(bufs) \cup {Len(bufs) + 1} /\ Len(bufs) + 1 \notin Unfreed(bufs)
  BY <1>1 DEF Unfreed
<1> QED
  BY <1>2, FS_AddElement

(* A buffer is freed that was not freed yet.                               *)
LEMMA OneLessUnfreed ==
    ASSUME NEW bufs \in Seq(Buffer), IsFiniteSet(Unfreed(bufs)),
           NEW b \in DOMAIN bufs, bufs[b].frees = 0
    PROVE  /\ IsFiniteSet(Unfreed(Freed(bufs, b)))
           /\ Cardinality(Unfreed(Freed(bufs, b))) = Cardinality(Unfreed(bufs)) - 1
<1>1. DOMAIN bufs = 1..Len(bufs) /\ \A c \in DOMAIN bufs : bufs[c] \in Buffer
  OBVIOUS
<1>2. /\ DOMAIN Freed(bufs, b) = DOMAIN bufs
      /\ \A c \in DOMAIN bufs : Freed(bufs, b)[c].frees = bufs[c].frees + IF c = b THEN 1 ELSE 0
  BY <1>1, FreedFacts
<1>3. Unfreed(Freed(bufs, b)) = Unfreed(bufs) \ {b} /\ b \in Unfreed(bufs)
  <2>1. \A c \in DOMAIN bufs : bufs[c].frees \in Nat
    BY <1>1 DEF Buffer
  <2> QED
    BY <1>2, <2>1 DEF Unfreed
<1> QED
  BY <1>3, FS_RemoveElement

(* Opening the file, for the first time or when all its readers are closed.*)
LEMMA OpeningCorrect ==
    ASSUME PyInv, NEW hnds \in Seq(Handle), Len(hnds) = Len(handles),
           \A h \in DOMAIN hnds : hnds[h].closes = 1,
           handles # <<>> => alive,
           FileOpen(buffers, hnds), alive' = TRUE, LoopsInUse',
           UNCHANGED <<recording, size, given>>
    PROVE  PyInv'
<1>1. /\ buffers \in Seq(Buffer) /\ handles \in Seq(Handle) /\ IsFiniteSet(Unfreed(buffers))
      /\ DOMAIN buffers = 1..Len(buffers) /\ Len(buffers) \in Nat /\ Len(handles) \in Nat
      /\ recording.reads \in Seq(Nat)
  BY InvFacts
<1>2. /\ buffers' \in Seq(Buffer) /\ Len(buffers') = Len(buffers) + 1
      /\ message' = Len(buffers) + 1
      /\ \A b \in DOMAIN buffers : buffers'[b] = buffers[b]
      /\ buffers'[Len(buffers) + 1].frees = 0
      /\ handles' \in Seq(Handle) /\ Len(handles') = Len(hnds) + 1 /\ handles' # <<>>
      /\ handle' = Len(hnds) + 1
      /\ \A h \in DOMAIN hnds : handles'[h] = hnds[h]
      /\ handles'[handle'].closes = 0 /\ handles'[handle'].reads = 0
      /\ state' = "eFileOpened" /\ got' = <<>>
  BY <1>1, FileOpenFacts
<1>3. /\ DOMAIN buffers' = 1..(Len(buffers) + 1)
      /\ DOMAIN handles' = 1..(Len(handles) + 1) /\ DOMAIN hnds = 1..Len(handles)
  BY <1>1, <1>2
<1>4. PyTypeOK'
  <2>1. recording' \in File /\ size' \in Nat \ {0}
    BY DEF PyInv, PyTypeOK
  <2>2. buffers' \in Seq([frees : Nat, holds : Seq(Nat)]) /\ handles' \in Seq([reads : Nat, closes : Nat])
        /\ message' \in 0..Len(buffers') /\ handle' \in 0..Len(handles')
        /\ (alive' => message' > 0 /\ handle' > 0)
    BY <1>1, <1>2 DEF Buffer, Handle
  <2>3. got' \in Seq(Nat) /\ state' \in States
    BY <1>2, EmptySeq DEF States
  <2>4. given' \in [buffer : 0..Len(buffers'), holds : Seq(Nat)]
    BY <1>1, <1>2 DEF PyInv, PyTypeOK
  <2>5. alive' \in BOOLEAN /\ loops' \in 0..MaxLoops /\ nested' \in BOOLEAN /\ undefined' \in BOOLEAN
    BY DEF LoopsInUse
  <2> QED
    BY <2>1, <2>2, <2>3, <2>4, <2>5, Zenon DEF PyTypeOK
<1>5. LatestInUse'
  BY <1>1, <1>2 DEF LatestInUse
<1>6. OnlyLatestOpen'
  <2>1. alive' /\ state' # "eEndOfFile"
    BY <1>2
  <2>2. ASSUME NEW h \in DOMAIN handles'
        PROVE  handles'[h].closes = IF h = handle' THEN 0 ELSE 1
    <3>1. CASE h = handle'
      BY <1>2, <3>1
    <3>2. CASE h # handle'
      <4>1. h \in DOMAIN hnds
        BY <1>1, <1>2, <1>3, <3>2
      <4> QED
        BY <1>2, <3>2, <4>1
    <3> QED
      BY <3>1, <3>2
  <2> QED
    BY <2>1, <2>2 DEF OnlyLatestOpen
<1>7. NoneFreedTwice'
  <2>1. \A b \in DOMAIN buffers' : buffers'[b].frees <= 1
    <3>1. \A b \in DOMAIN buffers : buffers[b].frees <= 1
      BY DEF PyInv, NoneFreedTwice
    <3>2. \A b \in DOMAIN buffers' : b \in DOMAIN buffers \/ b = Len(buffers) + 1
      BY <1>1, <1>3
    <3>3. \A b \in DOMAIN buffers : buffers'[b].frees <= 1
      BY <1>2, <3>1
    <3> QED
      BY <1>2, <3>2, <3>3
  <2>2. buffers'[message'].frees = 0
    BY <1>2
  <2>3. given # NoMessage =>
            /\ given.buffer \in DOMAIN buffers'
            /\ buffers'[given.buffer].frees = 0
            /\ buffers'[given.buffer].holds = given.holds
    BY <1>1, <1>2, <1>3 DEF PyInv, NoneFreedTwice
  <2> QED
    BY <2>1, <2>2, <2>3 DEF NoneFreedTwice
<1>8. OneKeptPerOpening'
  <2>1. Cardinality(Unfreed(buffers')) = Cardinality(Unfreed(buffers)) + 1
    BY <1>1, <1>2, OneMoreUnfreed
  <2>2. CASE handles = <<>>
    <3>1. Unfreed(buffers) = {} /\ Len(handles) = 0
      BY <2>2 DEF PyInv, LatestInUse, Unfreed
    <3> QED
      BY <1>1, <1>2, <2>1, <3>1, FS_EmptySet DEF OneKeptPerOpening
  <2>3. CASE handles # <<>>
    BY <1>1, <1>2, <2>1, <2>3 DEF PyInv, OneKeptPerOpening
  <2> QED
    BY <2>2, <2>3
<1>9. GotWhatWasRead'
  <2>1. Read(handle)' = 0
    BY <1>2 DEF Read
  <2>2. SubSeq(recording.reads, 1, 0) = <<>> /\ Len(recording.reads) \in Nat
    BY <1>1
  <2> QED
    BY <1>2, <2>1, <2>2 DEF GotWhatWasRead
<1> QED
  BY <1>4, <1>5, <1>6, <1>7, <1>8, <1>9 DEF PyInv

LEMMA ConstructCorrect ==
    ASSUME PyInv, Construct
    PROVE  PyInv'
<1>1. handles \in Seq(Handle) /\ handles = <<>> /\ DOMAIN handles = {}
  BY InvFacts DEF Construct
<1>2. /\ FileOpen(buffers, handles) /\ alive' = TRUE
      /\ UNCHANGED <<recording, size, given>>
  BY DEF Construct
<1>3. LoopsInUse'
  <2>1. state' = "eFileOpened"
    BY <1>2 DEF FileOpen
  <2> QED
    BY <1>2, <2>1 DEF Construct, PyInv, LoopsInUse
<1> QED
  BY <1>1, <1>2, <1>3, OpeningCorrect

LEMMA IterCorrect ==
    ASSUME PyInv, Iter
    PROVE  PyInv'
<1>1. /\ alive /\ alive' = alive /\ loops' = loops + 1 /\ loops < MaxLoops
      /\ nested' = (nested \/ loops > 0) /\ ~undefined /\ undefined' = undefined
      /\ UNCHANGED <<recording, size, given>>
  BY DEF Iter
<1>5. LoopsInUse'
  <2>1. state' # "eEndOfFile"
    BY DEF Iter, Reopen, FileOpen
  <2>2. /\ loops \in 0..MaxLoops /\ loops' \in 0..MaxLoops
        /\ ~(loops > 0) => loops' <= 1
    BY <1>1, PyAssumption DEF PyInv, LoopsInUse
  <2>3. nested' \in BOOLEAN /\ ~undefined' /\ undefined' \in BOOLEAN
    BY <1>1, Zenon DEF PyInv, LoopsInUse
  <2>4. ~nested' => loops' <= 1
    BY <1>1, <2>2, Zenon
  <2> QED
    BY <1>1, <2>1, <2>2, <2>3, <2>4, Zenon DEF LoopsInUse
<1>2. /\ handles \in Seq(Handle) /\ handles # <<>> /\ handle \in DOMAIN handles
      /\ DOMAIN handles = 1..Len(handles)
  BY <1>1, InvFacts
<1>3. CASE state \in {"eEndOfFile", "eError"}
  <2>1. FileOpen(buffers, HandlesAtReopen)
    BY <1>3 DEF Iter, Reopen
  <2>2. /\ HandlesAtReopen \in Seq(Handle) /\ Len(HandlesAtReopen) = Len(handles)
        /\ \A h \in DOMAIN HandlesAtReopen : HandlesAtReopen[h].closes = 1
    <3>1. CASE state = "eError"
      <4>1. HandlesAtReopen = Closed(handle)
        BY <3>1 DEF HandlesAtReopen
      <4>2. /\ Closed(handle) \in Seq(Handle) /\ Len(Closed(handle)) = Len(handles)
            /\ \A g \in DOMAIN handles : Closed(handle)[g].closes = handles[g].closes + IF g = handle THEN 1 ELSE 0
        BY <1>2, ClosedFacts
      <4>3. \A g \in DOMAIN handles : handles[g].closes = IF g = handle THEN 0 ELSE 1
        BY <1>1, <3>1 DEF PyInv, OnlyLatestOpen
      <4>4. DOMAIN Closed(handle) = DOMAIN handles
        BY <1>2, <4>2
      <4> QED
        BY <4>1, <4>2, <4>3, <4>4
    <3>2. CASE state = "eEndOfFile"
      BY <1>2, <3>2 DEF HandlesAtReopen, PyInv, OnlyLatestOpen
    <3> QED
      BY <1>3, <3>1, <3>2
  <2> QED
    BY <1>1, <1>2, <1>5, <2>1, <2>2, OpeningCorrect
<1>4. CASE state \notin {"eEndOfFile", "eError"}
  <2>1. UNCHANGED <<memoryVars, state, got>>
    BY <1>4 DEF Iter
  <2>2. PyTypeOK'
    BY <1>1, <1>5, <2>1 DEF PyInv, PyTypeOK, LoopsInUse, memoryVars
  <2>3. LatestInUse'
    BY <1>1, <1>2, <1>4, <2>1 DEF PyInv, LatestInUse, memoryVars
  <2>4. OnlyLatestOpen' /\ NoneFreedTwice' /\ OneKeptPerOpening' /\ GotWhatWasRead'
    BY <1>1, <2>1 DEF PyInv, OnlyLatestOpen, NoneFreedTwice, OneKeptPerOpening, GotWhatWasRead,
        Unfreed, Read, memoryVars
  <2> QED
    BY <1>5, <2>2, <2>3, <2>4 DEF PyInv
<1> QED
  BY <1>3, <1>4

(* A call of next that does not use a closed reader.                       *)
LEMMA NextFacts ==
    ASSUME PyInv, NEW bare \in BOOLEAN, NEW result \in States, Next(bare, result)
    PROVE  /\ alive /\ alive' = alive /\ handles # <<>> /\ state # "eEndOfFile"
           /\ state' = result /\ recording' = recording /\ handle' = handle
           /\ ~undefined /\ undefined' = undefined /\ nested' \in BOOLEAN
           /\ ~nested' => ~nested /\ ~bare /\ loops = 1
<1>1. /\ alive /\ alive' = alive /\ handles[handle].closes = 0 /\ (bare \/ loops > 0)
      /\ state' = result /\ recording' = recording /\ handle' = handle
      /\ ~undefined /\ undefined' = undefined /\ nested' = (nested \/ bare)
  BY DEF Next
<1>2. handles # <<>> /\ handle \in DOMAIN handles
  BY <1>1, InvFacts
<1>3. state # "eEndOfFile"
  BY <1>1, <1>2 DEF PyInv, OnlyLatestOpen
<1>4. ~nested' => ~nested /\ ~bare /\ loops = 1
  BY <1>1 DEF PyInv, LoopsInUse
<1>5. nested' \in BOOLEAN
  BY <1>1 DEF PyInv, LoopsInUse
<1> QED
  BY <1>1, <1>2, <1>3, <1>4, <1>5

(* What a read takes is what comes next in the recording.                       *)
LEMMA ReadTakesNext ==
    ASSUME PyInv, alive, HasMore, ReadNext, handle' = handle, recording' = recording,
           got' = Append(got, AtHand), state' # "eEndOfFile"
    PROVE  /\ handles' \in Seq(Handle) /\ Len(handles') = Len(handles) /\ handles' # <<>>
           /\ \A g \in DOMAIN handles : handles'[g].closes = handles[g].closes
           /\ DOMAIN handles' = DOMAIN handles
           /\ AtHand \in Nat /\ Here \in Seq(Nat) /\ got' \in Seq(Nat)
           /\ GotWhatWasRead'
<1>1. alive /\ handles # <<>>
  BY InvFacts
<1>2. /\ handles \in Seq(Handle) /\ handle \in DOMAIN handles /\ Read(handle) \in Nat
      /\ recording.reads \in Seq(Nat) /\ Len(recording.reads) \in Nat
  BY <1>1, InvFacts DEF Read
<1>3. /\ handles' \in Seq(Handle) /\ Len(handles') = Len(handles)
      /\ \A g \in DOMAIN handles : handles'[g].closes = handles[g].closes
      /\ handles'[handle].reads = handles[handle].reads + 1
  BY <1>2, ReadFacts
<1>4. handles' # <<>> /\ DOMAIN handles' = DOMAIN handles
  BY <1>1, <1>2, <1>3
<1>5. Read(handle) + 1 \in 1..Len(recording.reads)
  BY <1>2 DEF HasMore
<1>6. AtHand \in Nat /\ got' \in Seq(Nat)
  <2>1. AtHand \in Nat
    BY <1>2, <1>5 DEF AtHand
  <2>2. got \in Seq(Nat)
    BY DEF PyInv, PyTypeOK
  <2> QED
    BY <2>1, <2>2, AppendFacts
<1>7. Here \in Seq(Nat)
  BY <1>2 DEF Here
<1>8. Read(handle)' = Read(handle) + 1
  BY <1>3 DEF Read
<1>9. got' = SubSeq(recording.reads, 1, Read(handle) + 1)
  <2>1. got = SubSeq(recording.reads, 1, Read(handle))
    BY <1>1 DEF PyInv, GotWhatWasRead
  <2> QED
    BY <1>2, <1>5, <2>1 DEF AtHand
<1>10. GotWhatWasRead'
  BY <1>2, <1>5, <1>8, <1>9 DEF GotWhatWasRead
<1> QED
  BY <1>3, <1>4, <1>6, <1>7, <1>10

LEMMA NextMessageCorrect ==
    ASSUME PyInv, NEW bare \in BOOLEAN, NextMessage(bare)
    PROVE  PyInv'
<1>1. /\ alive /\ alive' = alive /\ recording' = recording /\ handle' = handle
      /\ state # "eEndOfFile" /\ state' = "eSuccess" /\ handles # <<>> /\ HasMore
      /\ given' = [buffer |-> message', holds |-> Here] /\ got' = Append(got, AtHand)
  BY NextFacts DEF NextMessage, States
<1>10. LoopsInUse'
  <2>1. /\ state' = "eSuccess" /\ alive /\ alive' = alive
        /\ ~undefined /\ undefined' = undefined /\ nested' \in BOOLEAN
        /\ ~nested' => loops = 1
    BY NextFacts DEF NextMessage, States
  <2> QED
    BY <2>1 DEF NextMessage, PyInv, LoopsInUse
<1>2. /\ handles' \in Seq(Handle) /\ Len(handles') = Len(handles) /\ handles' # <<>>
      /\ \A g \in DOMAIN handles : handles'[g].closes = handles[g].closes
      /\ DOMAIN handles' = DOMAIN handles
      /\ AtHand \in Nat /\ Here \in Seq(Nat) /\ got' \in Seq(Nat)
      /\ GotWhatWasRead'
  BY <1>1, ReadTakesNext DEF NextMessage
<1>3. /\ buffers \in Seq(Buffer) /\ message \in DOMAIN buffers /\ IsFiniteSet(Unfreed(buffers))
      /\ DOMAIN buffers = 1..Len(buffers) /\ message = Len(buffers) /\ handle = Len(handles)
      /\ \A b \in DOMAIN buffers : buffers[b].frees \in Nat /\ buffers[b].frees <= 1
      /\ buffers[message].frees = 0
  BY <1>1, InvFacts DEF PyInv, LatestInUse, NoneFreedTwice
<1>4. /\ buffers' \in Seq(Buffer) /\ message' = Len(buffers') /\ message' > 0
      /\ DOMAIN buffers' = 1..Len(buffers')
      /\ \A b \in DOMAIN buffers' : buffers'[b].frees <= 1
      /\ buffers'[message'].frees = 0 /\ buffers'[message'].holds = Here
      /\ Cardinality(Unfreed(buffers')) = Cardinality(Unfreed(buffers))
      /\ size' \in Nat \ {0}
  <2>1. CASE AtHand <= size
    <3>1. buffers' = Filled(buffers, message, Here) /\ size' = size /\ message' = message
      BY <2>1 DEF NextMessage, Filled
    <3>2. /\ buffers' \in Seq(Buffer) /\ Len(buffers') = Len(buffers)
          /\ \A c \in DOMAIN buffers : buffers'[c].frees = buffers[c].frees
          /\ buffers'[message].holds = Here
      BY <1>2, <1>3, <3>1, FilledFacts
    <3>3. Unfreed(buffers') = Unfreed(buffers) /\ DOMAIN buffers' = DOMAIN buffers
      BY <1>3, <3>2 DEF Unfreed
    <3>4. size \in Nat \ {0}
      BY DEF PyInv, PyTypeOK
    <3> QED
      BY <1>3, <3>1, <3>2, <3>3, <3>4
  <2>2. CASE ~(AtHand <= size)
    <3> DEFINE old == Freed(buffers, message)
    <3> DEFINE new == [frees |-> 0, holds |-> Here]
    <3>1. buffers' = Append(old, new) /\ size' = AtHand /\ message' = Len(buffers) + 1
      BY <2>2 DEF NextMessage
    <3>2. /\ old \in Seq(Buffer) /\ Len(old) = Len(buffers) /\ DOMAIN old = 1..Len(buffers)
          /\ \A c \in DOMAIN buffers : old[c].frees = buffers[c].frees + IF c = message THEN 1 ELSE 0
      <4>1. /\ old \in Seq(Buffer) /\ Len(old) = Len(buffers)
            /\ \A c \in DOMAIN buffers : old[c].frees = buffers[c].frees + IF c = message THEN 1 ELSE 0
        BY <1>3, FreedFacts
      <4> HIDE DEF old
      <4> QED
        BY <4>1
    <3>3. new \in Buffer /\ new.frees = 0 /\ new.holds = Here
      BY <1>2 DEF Buffer
    <3>4. \A c \in DOMAIN old : old[c].frees <= 1
      BY <1>3, <3>2
    <3>5. /\ IsFiniteSet(Unfreed(old))
          /\ Cardinality(Unfreed(old)) = Cardinality(Unfreed(buffers)) - 1
          /\ Cardinality(Unfreed(buffers)) \in Nat
      BY <1>3, OneLessUnfreed, FS_CardinalityType
    <3> HIDE DEF old, new
    <3>6. /\ buffers' \in Seq(Buffer) /\ Len(buffers') = Len(buffers) + 1
          /\ \A c \in 1..Len(buffers) : buffers'[c] = old[c]
          /\ buffers'[Len(buffers) + 1] = new
      BY <3>1, <3>2, <3>3, AppendFacts
    <3>7. Cardinality(Unfreed(buffers')) = Cardinality(Unfreed(old)) + 1
      BY <3>2, <3>3, <3>5, <3>6, OneMoreUnfreed
    <3>8. DOMAIN buffers' = 1..(Len(buffers) + 1) /\ Len(buffers) \in Nat
      BY <1>3, <3>6
    <3>9. \A b \in DOMAIN buffers' : buffers'[b].frees <= 1
      BY <3>2, <3>3, <3>4, <3>6, <3>8
    <3>10. size' \in Nat \ {0}
      BY <1>2, <2>2, <3>1 DEF PyInv, PyTypeOK
    <3> QED
      BY <3>1, <3>3, <3>5, <3>6, <3>7, <3>8, <3>9, <3>10
  <2> QED
    BY <2>1, <2>2
<1>5. PyTypeOK'
  <2>1. recording' \in File /\ state' \in States /\ alive' \in BOOLEAN
    BY <1>1 DEF PyInv, PyTypeOK, States
  <2>2. /\ buffers' \in Seq([frees : Nat, holds : Seq(Nat)]) /\ handles' \in Seq([reads : Nat, closes : Nat])
        /\ message' \in 0..Len(buffers') /\ Len(buffers') \in Nat
    BY <1>2, <1>4 DEF Buffer, Handle
  <2>3. handle' \in 0..Len(handles') /\ handle' > 0
    BY <1>1, <1>2, <1>3, InvFacts
  <2>4. given' \in [buffer : 0..Len(buffers'), holds : Seq(Nat)]
    BY <1>1, <1>2, <2>2
  <2>5. loops' \in 0..MaxLoops /\ nested' \in BOOLEAN /\ undefined' \in BOOLEAN
    BY <1>10 DEF LoopsInUse
  <2> QED
    BY <1>2, <1>4, <2>1, <2>2, <2>3, <2>4, <2>5, Zenon DEF PyTypeOK
<1>6. LatestInUse'
  BY <1>1, <1>2, <1>3, <1>4 DEF LatestInUse
<1>7. OnlyLatestOpen'
  <2>1. \A h \in DOMAIN handles : handles[h].closes = IF h = handle THEN 0 ELSE 1
    BY <1>1 DEF PyInv, OnlyLatestOpen, LatestInUse
  <2> QED
    BY <1>1, <1>2, <2>1 DEF OnlyLatestOpen
<1>8. NoneFreedTwice'
  <2>1. given'.buffer = message' /\ given'.holds = Here
    BY <1>1
  <2> QED
    BY <1>4, <2>1 DEF NoneFreedTwice
<1>9. OneKeptPerOpening'
  BY <1>1, <1>2, <1>4 DEF PyInv, OneKeptPerOpening
<1> QED
  BY <1>2, <1>5, <1>6, <1>7, <1>8, <1>9, <1>10 DEF PyInv

LEMMA NextNoneCorrect ==
    ASSUME PyInv, NEW bare \in BOOLEAN, NextNone(bare)
    PROVE  PyInv'
<1>1. /\ alive /\ alive' = alive /\ recording' = recording /\ handle' = handle
      /\ state # "eEndOfFile" /\ state' = "eInvalidPayloadSize" /\ handles # <<>> /\ HasMore
      /\ UNCHANGED <<size, message, buffers>> /\ given' = NoMessage /\ got' = Append(got, AtHand)
  BY NextFacts DEF NextNone, States
<1>7. LoopsInUse'
  <2>1. /\ state' = "eInvalidPayloadSize" /\ alive /\ alive' = alive
        /\ ~undefined /\ undefined' = undefined /\ nested' \in BOOLEAN
        /\ ~nested' => loops = 1
    BY NextFacts DEF NextNone, States
  <2> QED
    BY <2>1 DEF NextNone, PyInv, LoopsInUse
<1>2. /\ handles' \in Seq(Handle) /\ Len(handles') = Len(handles) /\ handles' # <<>>
      /\ \A g \in DOMAIN handles : handles'[g].closes = handles[g].closes
      /\ DOMAIN handles' = DOMAIN handles
      /\ got' \in Seq(Nat)
      /\ GotWhatWasRead'
  BY <1>1, ReadTakesNext DEF NextNone
<1>3. PyTypeOK'
  <2>1. /\ recording' \in File /\ state' \in States /\ alive' \in BOOLEAN
        /\ size' \in Nat \ {0} /\ buffers' \in Seq([frees : Nat, holds : Seq(Nat)])
        /\ message' \in 0..Len(buffers')
    BY <1>1 DEF PyInv, PyTypeOK, States
  <2>2. handles' \in Seq([reads : Nat, closes : Nat]) /\ handle' \in 0..Len(handles')
        /\ (alive' => message' > 0 /\ handle' > 0)
    BY <1>1, <1>2 DEF PyInv, PyTypeOK, Handle
  <2>3. given' \in [buffer : 0..Len(buffers'), holds : Seq(Nat)]
    BY <1>1, EmptySeq DEF PyInv, PyTypeOK, NoMessage, Nothing
  <2>4. loops' \in 0..MaxLoops /\ nested' \in BOOLEAN /\ undefined' \in BOOLEAN
    BY <1>7 DEF LoopsInUse
  <2> QED
    BY <1>2, <2>1, <2>2, <2>3, <2>4, Zenon DEF PyTypeOK
<1>4. LatestInUse'
  BY <1>1, <1>2 DEF PyInv, LatestInUse
<1>5. OnlyLatestOpen'
  <2>1. \A h \in DOMAIN handles : handles[h].closes = IF h = handle THEN 0 ELSE 1
    BY <1>1 DEF PyInv, OnlyLatestOpen
  <2> QED
    BY <1>1, <1>2, <2>1 DEF OnlyLatestOpen
<1>6. NoneFreedTwice' /\ OneKeptPerOpening'
  BY <1>1, <1>2 DEF PyInv, NoneFreedTwice, OneKeptPerOpening, Unfreed
<1> QED
  BY <1>2, <1>3, <1>4, <1>5, <1>6, <1>7 DEF PyInv

LEMMA NextEndCorrect ==
    ASSUME PyInv, NEW bare \in BOOLEAN, NextEnd(bare)
    PROVE  PyInv'
<1>1. /\ alive /\ alive' = alive /\ recording' = recording /\ handle' = handle
      /\ state # "eEndOfFile" /\ state' = "eEndOfFile" /\ handles # <<>> /\ handles' = Closed(handle)
      /\ UNCHANGED <<size, message, buffers, got, given>>
  BY NextFacts DEF NextEnd, States
<1>9. LoopsInUse'
  <2>1. /\ alive /\ alive' = alive
        /\ ~undefined /\ undefined' = undefined /\ nested' \in BOOLEAN
        /\ ~nested' => loops = 1 /\ ~bare
    BY NextFacts DEF NextEnd, States
  <2>2. loops' \in 0..MaxLoops /\ (~nested' => loops' = 0)
    <3>1. loops \in 0..MaxLoops /\ MaxLoops \in Nat
      BY PyAssumption DEF PyInv, LoopsInUse
    <3>2. CASE bare
      BY <2>1, <3>1, <3>2 DEF NextEnd
    <3>3. CASE ~bare
      <4>1. loops > 0 /\ loops' = loops - 1
        BY <3>3 DEF NextEnd, Next
      <4> QED
        BY <2>1, <3>1, <4>1
    <3> QED
      BY <3>2, <3>3
  <2>3. ~(loops' > 0) \/ nested'
    BY <2>2
  <2>4. ~nested' => loops' <= 1
    BY <2>2
  <2>5. undefined' \in BOOLEAN /\ ~undefined'
    BY <2>1, Zenon DEF PyInv, LoopsInUse
  <2> QED
    BY <2>1, <2>2, <2>3, <2>4, <2>5, Zenon DEF LoopsInUse
<1>2. /\ handles \in Seq(Handle) /\ handle \in DOMAIN handles /\ handle = Len(handles)
      /\ DOMAIN handles = 1..Len(handles)
      /\ Read(handle) \in Nat /\ recording.reads \in Seq(Nat)
  BY <1>1, InvFacts DEF Read, PyInv, LatestInUse
<1>3. /\ handles' \in Seq(Handle) /\ Len(handles') = Len(handles) /\ handles' # <<>>
      /\ \A g \in DOMAIN handles : handles'[g].reads = handles[g].reads
      /\ \A g \in DOMAIN handles : handles'[g].closes = handles[g].closes + IF g = handle THEN 1 ELSE 0
      /\ DOMAIN handles' = DOMAIN handles
  <2>1. /\ handles' \in Seq(Handle) /\ Len(handles') = Len(handles)
        /\ \A g \in DOMAIN handles : handles'[g].reads = handles[g].reads
        /\ \A g \in DOMAIN handles : handles'[g].closes = handles[g].closes + IF g = handle THEN 1 ELSE 0
    BY <1>1, <1>2, ClosedFacts
  <2>2. DOMAIN handles' = DOMAIN handles /\ handles' # <<>>
    BY <1>2, <2>1
  <2> QED
    BY <2>1, <2>2
<1>4. PyTypeOK'
  <2>1. /\ recording' \in File /\ state' \in States /\ alive' \in BOOLEAN
        /\ size' \in Nat \ {0} /\ buffers' \in Seq([frees : Nat, holds : Seq(Nat)])
        /\ message' \in 0..Len(buffers') /\ got' \in Seq(Nat)
        /\ given' \in [buffer : 0..Len(buffers'), holds : Seq(Nat)]
    BY <1>1 DEF PyInv, PyTypeOK, States
  <2>2. handles' \in Seq([reads : Nat, closes : Nat]) /\ handle' \in 0..Len(handles')
        /\ (alive' => message' > 0 /\ handle' > 0)
    BY <1>1, <1>3 DEF PyInv, PyTypeOK, Handle
  <2>3. loops' \in 0..MaxLoops /\ nested' \in BOOLEAN /\ undefined' \in BOOLEAN
    BY <1>9 DEF LoopsInUse
  <2> QED
    BY <2>1, <2>2, <2>3, Zenon DEF PyTypeOK
<1>5. LatestInUse'
  BY <1>1, <1>2, <1>3 DEF PyInv, LatestInUse
<1>6. OnlyLatestOpen'
  <2>1. \A h \in DOMAIN handles : handles[h].closes = IF h = handle THEN 0 ELSE 1
    BY <1>1 DEF PyInv, OnlyLatestOpen, LatestInUse
  <2>2. \A h \in DOMAIN handles' : handles'[h].closes = 1
    BY <1>3, <2>1
  <2> QED
    BY <1>1, <2>2 DEF OnlyLatestOpen
<1>7. NoneFreedTwice' /\ OneKeptPerOpening'
  BY <1>1, <1>3 DEF PyInv, NoneFreedTwice, OneKeptPerOpening, Unfreed
<1>8. GotWhatWasRead'
  <2>1. Read(handle)' = Read(handle)
    BY <1>1, <1>2, <1>3 DEF Read
  <2>2. Read(handle) = Len(recording.reads)
    BY <1>1, <1>2 DEF NextEnd, HasMore, PyInv, GotWhatWasRead
  <2> QED
    BY <1>1, <2>1, <2>2 DEF PyInv, GotWhatWasRead
<1> QED
  BY <1>4, <1>5, <1>6, <1>7, <1>8, <1>9 DEF PyInv

(* The steps that change neither the list of buffers nor that of handles.  *)
LEMMA ListsKept ==
    ASSUME PyInv, UNCHANGED <<recording, alive, size, memoryVars, got, given>>,
           LoopsInUse', state' \in States,
           state' # state => state' = "eError" /\ state # "eEndOfFile"
    PROVE  PyInv'
<1>1. PyTypeOK'
  <2>1. /\ recording' \in File /\ alive' \in BOOLEAN
        /\ size' \in Nat \ {0} /\ buffers' \in Seq([frees : Nat, holds : Seq(Nat)])
        /\ message' \in 0..Len(buffers') /\ got' \in Seq(Nat)
        /\ given' \in [buffer : 0..Len(buffers'), holds : Seq(Nat)]
        /\ handles' \in Seq([reads : Nat, closes : Nat]) /\ handle' \in 0..Len(handles')
        /\ (alive' => message' > 0 /\ handle' > 0)
    BY DEF PyInv, PyTypeOK, memoryVars
  <2>2. loops' \in 0..MaxLoops /\ nested' \in BOOLEAN /\ undefined' \in BOOLEAN
    BY DEF LoopsInUse
  <2> QED
    BY <2>1, <2>2, Zenon DEF PyTypeOK
<1>2. LatestInUse'
  BY DEF PyInv, LatestInUse, memoryVars
<1>3. (state' = "eEndOfFile") <=> (state = "eEndOfFile")
  OBVIOUS
<1>4. OnlyLatestOpen' /\ NoneFreedTwice' /\ OneKeptPerOpening' /\ GotWhatWasRead'
  BY <1>3 DEF PyInv, OnlyLatestOpen, NoneFreedTwice, OneKeptPerOpening, GotWhatWasRead,
      Unfreed, Read, memoryVars
<1> QED
  BY <1>1, <1>2, <1>4 DEF PyInv

LEMMA NextErrorCorrect ==
    ASSUME PyInv, NEW bare \in BOOLEAN, NextError(bare)
    PROVE  PyInv'
<1>1. /\ UNCHANGED <<recording, alive, size, memoryVars, got, given>>
      /\ alive /\ state # "eEndOfFile" /\ state' = "eError"
      /\ ~undefined /\ undefined' = undefined /\ nested' \in BOOLEAN
      /\ ~nested' => loops = 1 /\ ~bare
  BY NextFacts DEF NextError, States, memoryVars
<1>2. loops' \in 0..MaxLoops /\ (~nested' => loops' = 0)
  <2>1. loops \in 0..MaxLoops /\ MaxLoops \in Nat
    BY PyAssumption DEF PyInv, LoopsInUse
  <2>2. CASE bare
    BY <1>1, <2>1, <2>2 DEF NextError
  <2>3. CASE ~bare
    <3>1. loops > 0 /\ loops' \in 0..(loops - 1)
      BY <2>3 DEF NextError, Next
    <3> QED
      BY <1>1, <2>1, <3>1
  <2> QED
    BY <2>2, <2>3
<1>3. LoopsInUse'
  <2>1. ~nested' => loops' <= 1
    BY <1>2
  <2>2. undefined' \in BOOLEAN /\ ~undefined'
    BY <1>1, Zenon DEF PyInv, LoopsInUse
  <2>3. alive' /\ state' # "eEndOfFile"
    BY <1>1
  <2> QED
    BY <1>1, <1>2, <2>1, <2>2, <2>3, Zenon DEF LoopsInUse
<1> QED
  BY <1>1, <1>3, ListsKept DEF States

(* Only loops in one another, or next by itself, use a closed reader.      *)
LEMMA NextClosedCorrect ==
    ASSUME PyInv, NEW bare \in BOOLEAN, NextClosed(bare)
    PROVE  PyInv'
<1>1. /\ UNCHANGED <<recording, alive, size, memoryVars, got, given, state, loops>>
      /\ alive /\ handles[handle].closes > 0 /\ undefined' = TRUE
      /\ nested' = (nested \/ bare) /\ (bare \/ loops > 0)
  BY DEF NextClosed, memoryVars
<1>2. nested'
  <2> SUFFICES ASSUME ~nested, ~bare PROVE FALSE
    BY <1>1
  <2>1. handle \in DOMAIN handles
    BY <1>1, InvFacts
  <2>2. state # "eEndOfFile"
    BY <1>1 DEF PyInv, LoopsInUse
  <2> QED
    BY <1>1, <2>1, <2>2 DEF PyInv, OnlyLatestOpen
<1>3. nested' \in BOOLEAN
  BY <1>1 DEF PyInv, LoopsInUse
<1>4. LoopsInUse'
  BY <1>1, <1>2, <1>3 DEF PyInv, LoopsInUse
<1>5. state' \in States
  BY <1>1 DEF PyInv, PyTypeOK
<1> QED
  BY <1>1, <1>4, <1>5, ListsKept

LEMMA BreakCorrect ==
    ASSUME PyInv, Break
    PROVE  PyInv'
<1>1. /\ UNCHANGED <<recording, alive, size, memoryVars, got, given, state, nested, undefined>>
      /\ loops > 0 /\ loops' = loops - 1
  BY DEF Break, memoryVars
<1>2. LoopsInUse'
  BY <1>1, PyAssumption DEF PyInv, LoopsInUse
<1>3. state' \in States
  BY <1>1 DEF PyInv, PyTypeOK
<1> QED
  BY <1>1, <1>2, <1>3, ListsKept

LEMMA DelCorrect ==
    ASSUME PyInv, Del
    PROVE  PyInv'
<1>1. /\ alive /\ loops = 0 /\ ~alive' /\ alive' = FALSE /\ given' = NoMessage
      /\ buffers' = Freed(buffers, message)
      /\ handles' = IF state # "eEndOfFile" THEN Closed(handle) ELSE handles
      /\ UNCHANGED <<recording, state, size, message, handle, loops, got, nested, undefined>>
  BY DEF Del, StillOpen
<1>2. /\ handles # <<>> /\ handles \in Seq(Handle) /\ handle \in DOMAIN handles
      /\ DOMAIN handles = 1..Len(handles) /\ handle = Len(handles)
      /\ buffers \in Seq(Buffer) /\ message \in DOMAIN buffers /\ message = Len(buffers)
      /\ DOMAIN buffers = 1..Len(buffers) /\ IsFiniteSet(Unfreed(buffers))
      /\ \A b \in DOMAIN buffers : buffers[b].frees \in Nat /\ buffers[b].frees <= 1
      /\ buffers[message].frees = 0
  BY <1>1, InvFacts DEF PyInv, LatestInUse, NoneFreedTwice
<1>3. /\ buffers' \in Seq(Buffer) /\ Len(buffers') = Len(buffers)
      /\ \A c \in DOMAIN buffers : buffers'[c].frees = buffers[c].frees + IF c = message THEN 1 ELSE 0
  BY <1>1, <1>2, FreedFacts
<1>4. /\ handles' \in Seq(Handle) /\ Len(handles') = Len(handles)
      /\ \A h \in DOMAIN handles : handles'[h].reads = handles[h].reads
      /\ \A h \in DOMAIN handles : handles'[h].closes = 1
  <2>1. CASE state # "eEndOfFile"
    <3>1. /\ Closed(handle) \in Seq(Handle) /\ Len(Closed(handle)) = Len(handles)
          /\ \A g \in DOMAIN handles : Closed(handle)[g].reads = handles[g].reads
          /\ \A g \in DOMAIN handles : Closed(handle)[g].closes = handles[g].closes + IF g = handle THEN 1 ELSE 0
      BY <1>2, ClosedFacts
    <3>2. \A h \in DOMAIN handles : handles[h].closes = IF h = handle THEN 0 ELSE 1
      BY <1>1, <2>1 DEF PyInv, OnlyLatestOpen
    <3> QED
      BY <1>1, <2>1, <3>1, <3>2
  <2>2. CASE state = "eEndOfFile"
    BY <1>1, <1>2, <2>2 DEF PyInv, OnlyLatestOpen
  <2> QED
    BY <2>1, <2>2
<1>5. handles' # <<>> /\ DOMAIN handles' = DOMAIN handles /\ DOMAIN buffers' = DOMAIN buffers
  BY <1>2, <1>3, <1>4
<1>6. PyTypeOK'
  <2>1. /\ recording' \in File /\ state' \in States /\ size' \in Nat \ {0} /\ got' \in Seq(Nat)
    BY <1>1 DEF PyInv, PyTypeOK
  <2>2. /\ buffers' \in Seq([frees : Nat, holds : Seq(Nat)]) /\ handles' \in Seq([reads : Nat, closes : Nat])
        /\ message' \in 0..Len(buffers') /\ handle' \in 0..Len(handles')
    BY <1>1, <1>3, <1>4 DEF PyInv, PyTypeOK, Buffer, Handle
  <2>3. given' \in [buffer : 0..Len(buffers'), holds : Seq(Nat)]
    BY <1>1, <1>2, <1>3, EmptySeq DEF NoMessage, Nothing
  <2>4. /\ alive' \in BOOLEAN /\ loops' \in 0..MaxLoops
        /\ nested' \in BOOLEAN /\ undefined' \in BOOLEAN
    BY <1>1, Zenon DEF PyInv, PyTypeOK
  <2>5. alive' => message' > 0 /\ handle' > 0
    BY <1>1
  <2> QED
    BY <2>1, <2>2, <2>3, <2>4, <2>5, Zenon DEF PyTypeOK
<1>7. LatestInUse'
  BY <1>1, <1>2, <1>3, <1>4, <1>5 DEF LatestInUse
<1>8. OnlyLatestOpen'
  BY <1>1, <1>4, <1>5 DEF OnlyLatestOpen
<1>9. NoneFreedTwice'
  <2>1. \A b \in DOMAIN buffers' : buffers'[b].frees <= 1
    BY <1>2, <1>3, <1>5
  <2> QED
    BY <1>1, <2>1 DEF NoneFreedTwice
<1>10. OneKeptPerOpening'
  <2>1. Cardinality(Unfreed(buffers')) = Cardinality(Unfreed(buffers)) - 1
    BY <1>1, <1>2, OneLessUnfreed
  <2>2. Cardinality(Unfreed(buffers)) = Len(handles)
    BY <1>1, <1>2 DEF PyInv, OneKeptPerOpening
  <2> QED
    BY <1>1, <1>4, <2>1, <2>2 DEF OneKeptPerOpening
<1>12. LoopsInUse'
  BY <1>1 DEF PyInv, LoopsInUse
<1>11. GotWhatWasRead'
  <2>1. Read(handle)' = Read(handle)
    BY <1>1, <1>2, <1>4 DEF Read
  <2> QED
    BY <1>1, <1>2, <2>1 DEF PyInv, GotWhatWasRead
<1> QED
  BY <1>6, <1>7, <1>8, <1>9, <1>10, <1>11, <1>12 DEF PyInv

LEMMA StepCorrect == PyInv /\ [PyNext]_pyVars => PyInv'
<1> SUFFICES ASSUME PyInv, [PyNext]_pyVars PROVE PyInv'
  OBVIOUS
<1>1. CASE Construct   BY <1>1, ConstructCorrect
<1>2. CASE Iter        BY <1>2, IterCorrect
<1>3. CASE \E bare \in BOOLEAN : Goes(bare)
  <2>1. PICK bare \in BOOLEAN : Goes(bare)
    BY <1>3
  <2>2. CASE NextMessage(bare) BY <2>2, NextMessageCorrect
  <2>3. CASE NextNone(bare)    BY <2>3, NextNoneCorrect
  <2>4. CASE NextEnd(bare)     BY <2>4, NextEndCorrect
  <2>5. CASE NextError(bare)   BY <2>5, NextErrorCorrect
  <2>6. CASE NextClosed(bare)  BY <2>6, NextClosedCorrect
  <2> QED
    BY <2>1, <2>2, <2>3, <2>4, <2>5, <2>6 DEF Goes
<1>4. CASE Break       BY <1>4, BreakCorrect
<1>5. CASE Del         BY <1>5, DelCorrect
<1>6. CASE UNCHANGED pyVars
  <2>1. /\ UNCHANGED <<recording, alive, size, memoryVars, got, given>>
        /\ state' = state /\ UNCHANGED <<loops, nested, undefined>>
    BY <1>6 DEF pyVars
  <2>2. LoopsInUse' /\ state' \in States
    BY <2>1 DEF PyInv, PyTypeOK, LoopsInUse, memoryVars
  <2> QED
    BY <2>1, <2>2, ListsKept
<1> QED
  BY <1>1, <1>2, <1>3, <1>4, <1>5, <1>6 DEF PyNext

LEMMA PyInvariant == PySpec => []PyInv
<1>1. PyInit => PyInv
  BY InitCorrect
<1> QED
  BY <1>1, StepCorrect, PTL DEF PySpec

-------------------------------------------------------------------------------
(* The variables keep their types (VSBReader.py).                          *)
THEOREM PyTypeCorrect == PySpec => []PyTypeOK
<1>1. PyInv => PyTypeOK
  BY DEF PyInv
<1> QED
  BY <1>1, PyInvariant, PTL

(* However often a program leaves its loops and begins new ones, every     *)
(* reader of the library is closed exactly once, and not before its last   *)
(* use where no loop is in another and next is not called by itself        *)
(* (VSBReader.py:38-55, 62-64).                                            *)
THEOREM HandlesCorrect == PySpec => []HandlesClosedOnce
<1>1. PyInv => HandlesClosedOnce
  <2> SUFFICES ASSUME PyInv PROVE HandlesClosedOnce
    OBVIOUS
  <2>1. \A h \in DOMAIN handles :
            handles[h].closes = IF h = handle /\ alive /\ state # "eEndOfFile" THEN 0 ELSE 1
    BY DEF PyInv, OnlyLatestOpen
  <2>2. loops > 0 => handle \in DOMAIN handles /\ alive
    BY InvFacts DEF PyInv, LoopsInUse
  <2>3. ~nested => ~undefined /\ (loops > 0 => state # "eEndOfFile")
    BY DEF PyInv, LoopsInUse
  <2> QED
    BY <2>1, <2>2, <2>3 DEF HandlesClosedOnce
<1> QED
  BY <1>1, PyInvariant, PTL

(* The message the program got last is in memory that is not freed, with   *)
(* its own bytes, for every size of messages and buffers (VSBReader.py:30- *)
(* 32, 59-71).                                                             *)
THEOREM GivenCorrect == PySpec => []GivenStaysValid
<1>1. PyInv => GivenStaysValid
  BY DEF PyInv, NoneFreedTwice, GivenStaysValid
<1> QED
  BY <1>1, PyInvariant, PTL

(* No buffer is freed twice, and a buffer is lost for every time the file  *)
(* was opened again, no more (VSBReader.py:32, 38-39, 68-69).              *)
THEOREM BuffersCorrect == PySpec => []BuffersFreedOnce
<1>1. PyInv => BuffersFreedOnce
  BY DEF PyInv, NoneFreedTwice, OneKeptPerOpening, BuffersFreedOnce, Unfreed
<1> QED
  BY <1>1, PyInvariant, PTL

(* The loops since the file was opened got its messages in order, all of   *)
(* them once one came to the end (VSBReader.py:43-71).                     *)
THEOREM LoopsCorrect == PySpec => []LoopsAreComplete
<1>1. PyInv => LoopsAreComplete
  <2> SUFFICES ASSUME PyInv, handles # <<>>
               PROVE  /\ got = SubSeq(recording.reads, 1, Read(handle))
                      /\ state = "eEndOfFile" => got = recording.reads
    BY DEF LoopsAreComplete
  <2>1. recording.reads \in Seq(Nat)
    BY InvFacts
  <2>2. SubSeq(recording.reads, 1, Len(recording.reads)) = recording.reads
    BY <2>1
  <2> QED
    BY <2>2 DEF PyInv, GotWhatWasRead
<1> QED
  BY <1>1, PyInvariant, PTL
===============================================================================
