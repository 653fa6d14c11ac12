----------------------------- MODULE OutputBuffer -----------------------------
(***************************************************************************)
(* The bounded output buffer of UnwrapCMPToNative (src/ICS_VSBIO/          *)
(* UnwrapCMP.cpp:714-755, 918).  Every converted message is appended to    *)
(* outBuffer; when the buffer reaches its capacity it is sorted by time    *)
(* (unless sorting is off) and its first half is written; at the end of    *)
(* the input all of it is sorted and written.                              *)
(*                                                                         *)
(* Entries are records with a field key (the 64-bit TimeHardware2 :        *)
(* TimeHardware of the message) and a field src, the number of the push    *)
(* that brought them in, which makes every entry unique; a user of the     *)
(* module may give them more fields.                                       *)
(***************************************************************************)
EXTENDS Integers, Sequences, FiniteSets, Functions

CONSTANTS
    Entry,          \* the messages that may be pushed
    Capacity,       \* kBufferCapacity, 128 * 1024 in the code
    FlushSize       \* kFlushSize, half the capacity

ASSUME EntryAssumption ==
    \A e \in Entry : e.key \in Nat /\ e.src \in Nat
ASSUME CapacityAssumption ==
    Capacity \in Nat /\ FlushSize \in Nat /\ 0 < FlushSize /\ FlushSize < Capacity

VARIABLES
    sortOutput,     \* the call's argument: TRUE is the code's 0, "sort"
    outBuffer,      \* the messages not yet written
    written,        \* the messages given to VSBIOWrite::WriteMessage, in order
    finished,       \* the final flush has been done
    pushed          \* history: every message pushed, in order

bufferVars == <<sortOutput, outBuffer, written, finished, pushed>>

-------------------------------------------------------------------------------
(* Mutant: equal keys change places.                                       *)
BeforeUnstable(buf, i, j) ==
    buf[i].key < buf[j].key \/ (buf[i].key = buf[j].key /\ i > j)

(* std::stable_sort by key, as the permutation it applies: position i of   *)
(* the sorted buffer holds the message that was at order[i].               *)
Before(buf, i, j) ==
    \/ buf[i].key < buf[j].key
    \/ buf[i].key = buf[j].key /\ i < j

StableOrders(buf) ==
    {order \in Bijection(DOMAIN buf, DOMAIN buf) :
        \A i, j \in DOMAIN buf : i < j => Before(buf, order[i], order[j])}

(* Mutants: sort whatever the argument says; never sort.                   *)
WriteOrdersAlwaysSorted(buf) == StableOrders(buf)
WriteOrdersNeverSorted(buf) == {[i \in DOMAIN buf |-> i]}

WriteOrders(buf) ==
    IF sortOutput THEN StableOrders(buf) ELSE {[i \in DOMAIN buf |-> i]}

(* Mutants: one message too many is erased; the end of the sorted buffer   *)
(* is written.                                                             *)
FlushBufferErasesMore(buf, count) ==
    \E order \in WriteOrders(buf) :
        /\ written' = written \o [i \in 1..count |-> buf[order[i]]]
        /\ outBuffer' = [i \in 1..(Len(buf) - count - 1) |-> buf[order[i + count + 1]]]
FlushBufferWritesEnd(buf, count) ==
    \E order \in WriteOrders(buf) :
        /\ written' = written \o [i \in 1..count |-> buf[order[Len(buf) - count + i]]]
        /\ outBuffer' = [i \in 1..(Len(buf) - count) |-> buf[order[i]]]

(* flushBuffer: sort, write the first count messages, keep the others.     *)
FlushBuffer(buf, count) ==
    \E order \in WriteOrders(buf) :
        /\ written' = written \o [i \in 1..count |-> buf[order[i]]]
        /\ outBuffer' = [i \in 1..(Len(buf) - count) |-> buf[order[i + count]]]

-------------------------------------------------------------------------------
BufferInit ==
    /\ sortOutput \in BOOLEAN
    /\ outBuffer = <<>>
    /\ written = <<>>
    /\ finished = FALSE
    /\ pushed = <<>>

(* Mutant: the buffer is flushed one message late.                         *)
PushMessageLate(e) ==
    /\ ~finished
    /\ pushed' = Append(pushed, e)
    /\ IF Len(outBuffer) < Capacity
         THEN outBuffer' = Append(outBuffer, e) /\ UNCHANGED written
         ELSE FlushBuffer(Append(outBuffer, e), FlushSize)
    /\ UNCHANGED <<sortOutput, finished>>

(* pushMessage: append, and flush half of a buffer that has become full.   *)
PushMessage(e) ==
    /\ ~finished
    /\ pushed' = Append(pushed, e)
    /\ LET buf == Append(outBuffer, e) IN
         \/ /\ Len(buf) < Capacity
            /\ outBuffer' = buf
            /\ UNCHANGED written
         \/ /\ Len(buf) >= Capacity
            /\ FlushBuffer(buf, FlushSize)
    /\ UNCHANGED <<sortOutput, finished>>

(* flushBuffer(true) after the read loop; an empty buffer is left alone.   *)
FlushAll ==
    /\ ~finished
    /\ finished' = TRUE
    /\ FlushBuffer(outBuffer, Len(outBuffer))
    /\ UNCHANGED <<sortOutput, pushed>>

BufferNext ==
    \/ \E e \in Entry : e.src = Len(pushed) + 1 /\ PushMessage(e)
    \/ FlushAll

BufferSpec == BufferInit /\ [][BufferNext]_bufferVars

-------------------------------------------------------------------------------
(* What has been written followed by what is still buffered.               *)
Output == written \o outBuffer

BufferTypeOK ==
    /\ sortOutput \in BOOLEAN
    /\ finished \in BOOLEAN
    /\ outBuffer \in Seq(Entry)
    /\ written \in Seq(Entry)
    /\ pushed \in Seq(Entry)

(* The buffer never holds Capacity messages between two pushes: the memory *)
(* bound that the half flush is there for (UnwrapCMP.cpp:753-754).         *)
BoundedBuffer == Len(outBuffer) < Capacity

(* No message is lost, duplicated or altered by sorting, partial flushes   *)
(* and erasing (UnwrapCMP.cpp:731-742): written and outBuffer together are *)
(* a permutation of what was pushed.                                       *)
NothingLostOrDuplicated ==
    /\ Len(Output) = Len(pushed)
    /\ \A i \in DOMAIN Output :
          Output[i].src \in DOMAIN pushed /\ Output[i] = pushed[Output[i].src]
    /\ \A i, j \in DOMAIN Output : Output[i].src = Output[j].src => i = j

(* Without sorting the output has the order of the input, across every     *)
(* partial flush (VSBIODLL.h:273 "preserve input order").                  *)
InputOrderKept == ~sortOutput => Output = pushed

(* How far a message is from its place: the earlier messages that belong   *)
(* after it.                                                               *)
Displacement(k) ==
    Cardinality({j \in 1..(k - 1) : pushed[j].key > pushed[k].key})

KeysInOrder(s) == \A i, j \in DOMAIN s : i < j => s[i].key <= s[j].key

(* Sorting half a buffer at a time still yields a fully sorted file when   *)
(* no message is displaced by more than the half that stays buffered       *)
(* (UnwrapCMP.cpp:731-754).                                                *)
SortedWhenDisorderBounded ==
    (sortOutput /\ \A k \in DOMAIN pushed : Displacement(k) <= Capacity - FlushSize)
        => KeysInOrder(written)

(* Messages with equal keys leave in the order they came (stable_sort,     *)
(* UnwrapCMP.cpp:734), also when a flush falls between them and whatever   *)
(* the disorder of the others.                                             *)
EqualKeysKeepOrder ==
    \A i, j \in DOMAIN Output :
        (i < j /\ Output[i].key = Output[j].key) => Output[i].src < Output[j].src

(* A message that is written is never later than one left in the buffer:   *)
(* a partial flush writes the earliest half (UnwrapCMP.cpp:738-741).       *)
FlushesEarliest ==
    [][sortOutput /\ written' # written =>
         \A i \in (Len(written) + 1)..Len(written'), j \in DOMAIN outBuffer' :
             written'[i].key <= outBuffer'[j].key]_bufferVars
===============================================================================
