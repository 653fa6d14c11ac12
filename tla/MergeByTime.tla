------------------------------ MODULE MergeByTime ------------------------------
(***************************************************************************)
(* What merging recordings means: of the messages that are next in their   *)
(* stream, one with the earliest time is taken, as long as there are any.  *)
(***************************************************************************)
EXTENDS Naturals, Sequences

CONSTANT Entry      \* the messages, records with a field time

VARIABLES left, taken

Waiting == {k \in DOMAIN left : left[k] # <<>>}

Begin ==
    /\ left = <<>> /\ taken = <<>>
    /\ left' \in Seq(Seq(Entry))
    /\ UNCHANGED taken

Take(k) ==
    /\ \A j \in Waiting : Head(left[k]).time <= Head(left[j]).time
    /\ taken' = Append(taken, Head(left[k]))
    /\ left' = [left EXCEPT ![k] = Tail(@)]

MergeSpec ==
    /\ left = <<>> /\ taken = <<>>
    /\ [][Begin \/ \E k \in Waiting : Take(k)]_<<left, taken>>
===============================================================================
