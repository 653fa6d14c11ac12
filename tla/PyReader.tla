------------------------------- MODULE PyReader -------------------------------
(***************************************************************************)
(* VSBReader (src/ICS_VSBIO/VSBReader.py): a Python program reads a        *)
(* recording in for loops, which it may leave and start again, also one in *)
(* another, and with calls of next by itself.  The reader and its buffer   *)
(* are raw pointers of the library, the messages the program gets are its  *)
(* buffer: what matters is when they are made, used and given back.        *)
(***************************************************************************)
EXTENDS Integers, SequencesExt

CONSTANTS
    PyFiles,        \* recordings: what each read finds
    StartSize,      \* the size of the first buffer, 64
    MaxOpens,       \* bound: times the file is opened
    MaxLoops        \* bound: loops in one another

(* A read finds a message of some size, or a payload that is refused.      *)
Refused == 0
File == [opens : BOOLEAN, reads : Seq(Nat)]

ASSUME PyAssumption ==
    /\ PyFiles \subseteq File /\ StartSize \in Nat \ {0}
    /\ MaxOpens \in Nat \ {0} /\ MaxLoops \in Nat \ {0}

States == {"eInit", "eFileOpened", "eSuccess", "eEndOfFile", "eError", "eInvalidPayloadSize"}

VARIABLES
    recording,      \* its recording
    alive,          \* the VSBReader exists
    state, size,    \* its members
    message,        \* its buffer, as an index of buffers
    handle,         \* its VSBIORead, as an index of handles
    buffers,        \* all that were allocated: [frees, holds]
    handles,        \* all that were opened: [reads, closes]
    loops,          \* the for loops over the reader that the program is in
    got,            \* history: what it got since the file was opened
    given,          \* the message it got last: [buffer, holds]
    nested,         \* history: it began a loop in another, or called next by itself
    undefined       \* it used a reader of the library that was closed

memoryVars == <<message, handle, buffers, handles>>
pyVars == <<recording, alive, state, size, memoryVars, loops, got, given, nested, undefined>>

Nothing == <<>>
NoMessage == [buffer |-> 0, holds |-> Nothing]
Read(h) == handles[h].reads

PyInit ==
    /\ recording \in PyFiles
    /\ alive = FALSE /\ state = "eInit" /\ size = StartSize
    /\ message = 0 /\ handle = 0 /\ buffers = <<>> /\ handles = <<>>
    /\ loops = 0 /\ got = <<>> /\ given = NoMessage
    /\ nested = FALSE /\ undefined = FALSE

-------------------------------------------------------------------------------
VSBIOMalloc(bufs) ==
    /\ buffers' = Append(bufs, [frees |-> 0, holds |-> Nothing])
    /\ message' = Len(bufs) + 1

(* Mutant: no buffer is freed.                                             *)
FreedNever(bufs, b) == bufs

Freed(bufs, b) == [bufs EXCEPT ![b].frees = @ + 1]

(* The file is opened by the first read; making a reader never fails. A    *)
(* new buffer has the size of the last one, which stays allocated.         *)
FileOpen(bufs, hnds) ==
    /\ VSBIOMalloc(bufs)
    /\ handles' = Append(hnds, [reads |-> 0, closes |-> 0])
    /\ handle' = Len(hnds) + 1
    /\ state' = "eFileOpened"
    /\ got' = <<>>

Closed(h) == [handles EXCEPT ![h].closes = @ + 1]

Construct ==
    /\ ~alive /\ handles = <<>>
    /\ alive' = TRUE
    /\ FileOpen(buffers, handles)
    /\ UNCHANGED <<recording, size, loops, given, nested, undefined>>

(* Mutant: the buffer is freed when the file is opened again.              *)
ReopenFrees(hnds) == FileOpen(Freed(buffers, message), hnds)

(* Mutant: the reader is not made anew.                                    *)
ReopenSame(hnds) == state' = "eFileOpened" /\ got' = <<>> /\ UNCHANGED memoryVars

Reopen(hnds) == Len(handles) < MaxOpens /\ FileOpen(buffers, hnds)

(* At the end of the file its reader is closed already.                    *)
HandlesAtReopen == IF state = "eError" THEN Closed(handle) ELSE handles

(* A for statement calls __iter__.  What a closed reader of the library    *)
(* does with a call is not defined: nothing is said of what follows.       *)
Iter ==
    /\ alive /\ ~undefined /\ loops < MaxLoops
    /\ loops' = loops + 1
    /\ nested' = (nested \/ loops > 0)
    /\ IF state \in {"eEndOfFile", "eError"}
         THEN Reopen(HandlesAtReopen)
         ELSE UNCHANGED <<memoryVars, state, got>>
    /\ UNCHANGED <<recording, alive, size, given, undefined>>

(* Each pass of a loop calls __next__; a program may call it by itself.    *)
Next(bare, result) ==
    /\ alive /\ ~undefined /\ (bare \/ loops > 0)
    /\ handles[handle].closes = 0
    /\ nested' = (nested \/ bare)
    /\ state' = result
    /\ UNCHANGED <<recording, alive, handle, undefined>>

ReadNext == handles' = [handles EXCEPT ![handle].reads = @ + 1]
Here == <<handle, Read(handle) + 1>>
AtHand == recording.reads[Read(handle) + 1]
HasMore == recording.opens /\ Read(handle) < Len(recording.reads)

(* The message is the reader's buffer. If the buffer is too small it is    *)
(* replaced by one that fits, and the read is repeated.                    *)
NextMessage(bare) ==
    /\ Next(bare, "eSuccess")
    /\ HasMore /\ AtHand # Refused
    /\ ReadNext
    /\ IF AtHand <= size
         THEN /\ buffers' = [buffers EXCEPT ![message].holds = Here]
              /\ UNCHANGED <<size, message>>
         ELSE /\ size' = AtHand
              /\ buffers' = Append(Freed(buffers, message), [frees |-> 0, holds |-> Here])
              /\ message' = Len(buffers) + 1
    /\ given' = [buffer |-> message', holds |-> Here]
    /\ got' = Append(got, AtHand)
    /\ UNCHANGED loops

(* A payload that is refused: the loop gets None, and goes on.             *)
NextNone(bare) ==
    /\ Next(bare, "eInvalidPayloadSize")
    /\ HasMore /\ AtHand = Refused
    /\ ReadNext
    /\ given' = NoMessage
    /\ got' = Append(got, Refused)
    /\ UNCHANGED <<size, message, buffers, loops>>

(* StopIteration: the loop ends; where next was called by itself it is an  *)
(* exception, which leaves some of the loops.                              *)
NextEnd(bare) ==
    /\ Next(bare, "eEndOfFile")
    /\ recording.opens /\ ~HasMore
    /\ handles' = Closed(handle)
    /\ IF bare THEN loops' \in 0..loops ELSE loops' = loops - 1
    /\ UNCHANGED <<size, message, buffers, got, given>>

(* Mutant: the loop gets None.                                             *)
NextErrorNone(bare) ==
    /\ Next(bare, "eError")
    /\ ~recording.opens
    /\ UNCHANGED <<size, message, buffers, handles, loops, got, given>>

(* ValueError: the loop and some of those around it end, and the reader    *)
(* stays open.                                                             *)
NextError(bare) ==
    /\ Next(bare, "eError")
    /\ ~recording.opens
    /\ loops' \in IF bare THEN 0..loops ELSE 0..(loops - 1)
    /\ UNCHANGED <<size, message, buffers, handles, got, given>>

(* A loop around one that came to the end of the file goes on, or next is  *)
(* called again: the library is given the reader that it deleted.          *)
NextClosed(bare) ==
    /\ alive /\ ~undefined /\ (bare \/ loops > 0)
    /\ handles[handle].closes > 0
    /\ undefined' = TRUE
    /\ nested' = (nested \/ bare)
    /\ UNCHANGED <<recording, alive, state, size, memoryVars, loops, got, given>>

(* The program leaves a loop by itself; a later for goes on from there.    *)
Break ==
    /\ loops > 0 /\ ~undefined
    /\ loops' = loops - 1
    /\ UNCHANGED <<recording, alive, state, size, memoryVars, got, given, nested, undefined>>

(* Mutant: the state is not looked at.                                     *)
StillOpenAlways == TRUE

StillOpen == state # "eEndOfFile"

(* __del__, when the program gives the reader up; a loop holds it.         *)
Del ==
    /\ alive /\ loops = 0 /\ ~undefined
    /\ alive' = FALSE
    /\ buffers' = Freed(buffers, message)
    /\ handles' = IF StillOpen THEN Closed(handle) ELSE handles
    /\ given' = NoMessage
    /\ UNCHANGED <<recording, state, size, message, handle, loops, got, nested, undefined>>

Goes(bare) ==
    NextMessage(bare) \/ NextNone(bare) \/ NextEnd(bare) \/ NextError(bare) \/ NextClosed(bare)

PyNext ==
    \/ Construct
    \/ Iter
    \/ \E bare \in BOOLEAN : Goes(bare)
    \/ Break
    \/ Del

PySpec == PyInit /\ [][PyNext]_pyVars

(* A for loop goes on by itself until the program leaves it.               *)
FairPySpec == PySpec /\ WF_pyVars(Goes(FALSE))

-------------------------------------------------------------------------------
PyTypeOK ==
    /\ recording \in File /\ alive \in BOOLEAN /\ loops \in 0..MaxLoops
    /\ nested \in BOOLEAN /\ undefined \in BOOLEAN
    /\ state \in States /\ size \in Nat \ {0}
    /\ buffers \in Seq([frees : Nat, holds : Seq(Nat)]) /\ message \in 0..Len(buffers)
    /\ handles \in Seq([reads : Nat, closes : Nat]) /\ handle \in 0..Len(handles)
    /\ alive => message > 0 /\ handle > 0
    /\ got \in Seq(Nat)
    /\ given \in [buffer : 0..Len(buffers), holds : Seq(Nat)]

(* The message the program got last stays in memory as it was until the    *)
(* loop goes on or the reader is given up, also when the file is opened    *)
(* again (VSBReader.py:30-32, 59-71).                                      *)
GivenStaysValid ==
    given # NoMessage =>
        buffers[given.buffer].frees = 0 /\ buffers[given.buffer].holds = given.holds

(* No reader of the library is used after it was closed, unless loops over *)
(* one VSBReader are in one another or next is called by itself.  None is  *)
(* closed twice, and all are closed once the program gave the VSBReader up *)
(* (VSBReader.py:38-55, 62-64).                                            *)
HandlesClosedOnce ==
    /\ ~nested => ~undefined /\ (loops > 0 => handles[handle].closes = 0)
    /\ \A h \in DOMAIN handles :
        /\ handles[h].closes <= 1
        /\ h # handle \/ ~alive => handles[h].closes = 1

(* No buffer is freed twice. In the end all are free but one for every     *)
(* time the file was opened again (VSBReader.py:32, 38-39, 68-69).         *)
BuffersFreedOnce ==
    /\ \A b \in DOMAIN buffers : buffers[b].frees <= 1
    /\ ~alive /\ handles # <<>> =>
        Cardinality({b \in DOMAIN buffers : buffers[b].frees = 0}) = Len(handles) - 1

(* Since the file was opened the program got its messages in order, one    *)
(* for every call of next and however often loops were left, and all of    *)
(* them once a loop came to the end (VSBReader.py:43-71).                  *)
LoopsAreComplete ==
    handles # <<>> =>
        /\ got = SubSeq(recording.reads, 1, Read(handle))
        /\ state = "eEndOfFile" => got = recording.reads

(* Every for loop ends that the program does not begin again within, also  *)
(* one that gets None for refused payloads (VSBReader.py:57-71).           *)
LoopsEnd == loops > 0 ~> loops = 0 \/ nested
===============================================================================
