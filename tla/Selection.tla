------------------------------ MODULE Selection -------------------------------
(***************************************************************************)
(* The members of a sequence that are in a set, in their order.  It is     *)
(* SelectSeq of the standard modules as a fold.                            *)
(***************************************************************************)
EXTENDS Integers, Sequences, SequencesExt

Selected(s, Wanted) ==
    FoldLeft(LAMBDA kept, x : IF x \in Wanted THEN Append(kept, x) ELSE kept, <<>>, s)
===============================================================================
