------------------------------ MODULE Conversion -------------------------------
(***************************************************************************)
(* What a conversion of one recording into another promises: it takes the  *)
(* messages of its input one by one and emits one result for each of them. *)
(* It may hold results back and emit them in another order, but it emits   *)
(* none twice, none before its message was taken, takes none back, and     *)
(* ends only when every result has been emitted.                           *)
(***************************************************************************)
EXTENDS Integers, Sequences, SequencesExt

VARIABLES
    taken,          \* number of messages taken
    emitted,        \* the numbers of the results emitted, in order
    ended

conversionVars == <<taken, emitted, ended>>

Init ==
    /\ taken = 0
    /\ emitted = <<>>
    /\ ended = FALSE

(* Emit some of the results that are due, possibly none.                   *)
Emit ==
    /\ IsPrefix(emitted, emitted')
    /\ IsInjective(emitted')
    /\ ToSet(emitted') \subseteq 1..taken'

Take ==
    /\ ~ended
    /\ taken' = taken + 1
    /\ Emit
    /\ UNCHANGED ended

End ==
    /\ ~ended
    /\ ended' = TRUE
    /\ Emit
    /\ ToSet(emitted') = 1..taken
    /\ UNCHANGED taken

Spec == Init /\ [][Take \/ End]_conversionVars
===============================================================================
