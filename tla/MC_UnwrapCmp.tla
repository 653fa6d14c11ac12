----------------------------- MODULE MC_UnwrapCmp ------------------------------
(* A recording of one CMP stream, or of two that interleave, mixed with    *)
(* messages that are not CMP, and a buffer that a few messages fill.       *)
EXTENDS UnwrapCmp

CONSTANTS d1, d2, s1, s2, i1, i2       \* model values; i2 has no network

Cmp(kind, source, interface, seq, wellFormed, stamp, time) ==
    [kind |-> kind, device |-> source[1], stream |-> source[2], interface |-> interface,
     seq |-> seq, seg |-> "unsegmented", wellFormed |-> wellFormed,
     stamp |-> stamp, time |-> time]

Ether(source, seg, seq, stamp, time) ==
    [Cmp("ethernet", source, i1, seq, TRUE, stamp, time) EXCEPT !.seg = seg]

(* Of a message that is not CMP only the time is looked at.                *)
Plain(time) == Cmp("plain", <<d1, s1>>, i1, 0, TRUE, 0, time)

A == <<d1, s1>>
B == <<d2, s2>>

OneStream ==
    {Plain(1), Plain(3),
     Cmp("control", A, i1, 1, TRUE, 0, 2), Cmp("unknown", A, i1, 2, TRUE, 0, 1),
     Cmp("can", A, i1, 1, TRUE, 1, 2), Cmp("can", A, i1, 2, FALSE, 1, 2),
     Cmp("lin", A, i2, 0, TRUE, 1, 3), Cmp("canfd", A, i1, 2, TRUE, 3, 2),
     Ether(A, "unsegmented", 0, 2, 2), Ether(A, "start", 0, 1, 1),
     Ether(A, "start", 1, 2, 2), Ether(A, "continuation", 1, 2, 2),
     Ether(A, "end", 1, 3, 3), Ether(A, "end", 2, 3, 3)}

TwoStreams ==
    {Plain(2), Cmp("can", B, i1, 2, TRUE, 1, 3),
     Ether(A, "start", 0, 2, 1), Ether(A, "continuation", 1, 1, 2), Ether(A, "end", 1, 3, 3),
     Ether(A, "end", 2, 1, 3),
     Ether(B, "start", 0, 1, 1), Ether(B, "end", 1, 1, 2)}

MCMapped == {d1, d2} \X {i1}

MCEntry == [key : 0..3, src : 1..MaxMessages, native : BOOLEAN,
            network : Mapped \cup {NoNetwork}]

Call(sort, source, prog, info) ==
    [sortOutput |-> sort, timestampSource |-> source, prog |-> prog, outputInfoToTxt |-> info]

MixedCalls == {Call(TRUE, "cmp", TRUE, FALSE), Call(FALSE, "cmp", FALSE, TRUE)}
OuterCalls == {Call(TRUE, "outer", FALSE, TRUE)}

MCMessages == OneStream \cup TwoStreams
MCCalls == MixedCalls \cup OuterCalls

(* A recording of four messages of one stream or of five of two.           *)
Fits(m) ==
    LET recording == Append(input, m) IN
    \/ Range(recording) \subseteq OneStream /\ Len(recording) <= 4 /\ args \in MixedCalls
    \/ Range(recording) \subseteq TwoStreams /\ args \in OuterCalls

MCNext ==
    \/ OpenOutput
    \/ \E m \in Messages : Fits(m) /\ ConvertMessage(m)
    \/ \E m \in Messages : Fits(m) /\ AbortByCallback(m)
    \/ Finish

Returned == phase = "done" /\ UNCHANGED unwrapVars
MCSpec == UnwrapInit /\ [][MCNext \/ Returned]_unwrapVars
===============================================================================
