------------------------------- MODULE VsbMerge -------------------------------
(***************************************************************************)
(* VSBIOReadMultiple (src/ICS_VSBIO/VSBIO/VSBIO.cpp:339-445): reads many   *)
(* recordings as one, in the order of time.  A reader is named by the      *)
(* position of its file in the list.                                       *)
(*                                                                         *)
(* Left out: eBufferTooSmall, which returns before anything is changed and *)
(* is retried (VSBIO.cpp:399); the branch for eError after a message (432- *)
(* 441), which a reader that has returned a message never returns; and     *)
(* mInitError, which the constructor always leaves FALSE.                  *)
(***************************************************************************)
EXTENDS Recordings, FiniteSets

VARIABLES
    inputs,         \* the files of the list
    opened,         \* how many of them the constructor has gone through
    position,       \* messages read of every file
    readList,       \* IOReadList
    queue,          \* latestTimestamp: the readers with a message in hand
    deleted,        \* how often every reader was deleted
    merged          \* history: the messages returned

mergeVars == <<inputs, opened, position, readList, queue, deleted, merged>>

NoReaders(files) == [k \in DOMAIN files |-> 0]

Constructing(files) ==
    /\ inputs' = files
    /\ opened' = 0
    /\ position' = NoReaders(files)
    /\ readList' = {}
    /\ queue' = {}
    /\ deleted' = NoReaders(files)
    /\ merged' = <<>>

InHand(k) == Contents(inputs[k])[position[k]]

(* The priority queue's comparison calls equal times smaller both ways:    *)
(* which of them comes first is not determined.                            *)
Earliest == {k \in queue : \A j \in queue : InHand(k).time <= InHand(j).time}

Delete(readers) == deleted' = [k \in DOMAIN inputs |-> deleted[k] + IF k \in readers THEN 1 ELSE 0]

-------------------------------------------------------------------------------
OpenSuccess(k) ==
    /\ ReadAt(inputs[k], 0) = "eSuccess"
    /\ readList' = readList \cup {k}
    /\ queue' = queue \cup {k}
    /\ position' = [position EXCEPT ![k] = 1]
    /\ UNCHANGED deleted

(* Already its first message is refused.                                   *)
OpenRejected(k) ==
    /\ ReadAt(inputs[k], 0) = "eInvalidPayloadSize"
    /\ Delete({k})
    /\ UNCHANGED <<readList, queue, position>>

(* Mutant: the readers that were opened before are kept.                   *)
OpenErrorKeepsOthers(k) ==
    /\ ReadAt(inputs[k], 0) = "eError"
    /\ Delete({k})
    /\ UNCHANGED <<readList, queue, position>>

(* Mutant: the readers are deleted and left in the queue.                  *)
OpenErrorKeepsQueue(k) ==
    /\ ReadAt(inputs[k], 0) = "eError"
    /\ Delete(queue \cup {k})
    /\ UNCHANGED <<readList, queue, position>>

(* The readers opened before are deleted, but stay in IOReadList.          *)
OpenError(k) ==
    /\ ReadAt(inputs[k], 0) = "eError"
    /\ Delete(queue \cup {k})
    /\ queue' = {}
    /\ UNCHANGED <<readList, position>>

(* A turn of the constructor's loop.                                       *)
OpenNext ==
    /\ opened < Len(inputs)
    /\ opened' = opened + 1
    /\ \/ OpenSuccess(opened + 1)
       \/ OpenRejected(opened + 1)
       \/ OpenError(opened + 1)
    /\ UNCHANGED <<inputs, merged>>

Ready == opened = Len(inputs)

(* The reader whose message was taken reads its next one, or leaves.       *)
Advance(k) ==
    IF ReadAt(inputs[k], position[k]) = "eSuccess"
      THEN position' = [position EXCEPT ![k] = @ + 1] /\ UNCHANGED queue
      ELSE queue' = queue \ {k} /\ UNCHANGED position

ReadMerged(k) ==
    /\ Ready
    /\ k \in Earliest
    /\ merged' = Append(merged, InHand(k))
    /\ Advance(k)
    /\ UNCHANGED <<inputs, opened, readList, deleted>>

(* The destructor.                                                         *)
DeleteReadList ==
    /\ Delete(readList)
    /\ UNCHANGED <<inputs, opened, position, readList, queue, merged>>

-------------------------------------------------------------------------------
(* The component by itself: one object, for any list of files. What it     *)
(* does after its destructor does not matter here.                         *)
MergerInit ==
    /\ inputs = <<>> /\ opened = 0 /\ position = <<>>
    /\ readList = {} /\ queue = {} /\ deleted = <<>> /\ merged = <<>>

MergerNext ==
    \/ inputs = <<>> /\ \E files \in Seq(Recording) : Constructing(files)
    \/ OpenNext
    \/ \E k \in DOMAIN inputs : ReadMerged(k)
    \/ Ready /\ DeleteReadList

MergerSpec == MergerInit /\ [][MergerNext]_mergeVars

-------------------------------------------------------------------------------
(* The files that are still part of the merge: an unreadable file takes    *)
(* all those listed before it with it.                                     *)
Survivors == {k \in DOMAIN inputs : \A j \in k..Len(inputs) : inputs[j].opens}

(* How many messages of a file were returned, or are given up; what is     *)
(* left to take.                                                           *)
TakenOf(k) ==
    IF k > opened THEN 0
    ELSE IF k \in queue THEN position[k] - 1
    ELSE Len(Contents(inputs[k]))

Rest(k, taken) == SubSeq(Contents(inputs[k]), taken + 1, Len(Contents(inputs[k])))

LeftOf(k) == IF k \in Survivors THEN Rest(k, TakenOf(k)) ELSE <<>>

Left == [k \in DOMAIN inputs |-> LeftOf(k)]

(* The merge implements the abstract one for the files that survive: each  *)
(* is read to its end or to the first payload that is refused, each of its *)
(* messages once and in the order of time, for any way to resolve ties; of *)
(* the other files there is nothing (VSBIO.cpp:339-370, 412-443;           *)
(* VSBIO.h:119-122).                                                       *)
Abstract == INSTANCE MergeByTime WITH
    Entry <- Message,
    left <- Left,
    taken <- merged
MergesByTime == Abstract!MergeSpec
===============================================================================
