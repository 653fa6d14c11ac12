------------------------------ MODULE Recordings ------------------------------
(***************************************************************************)
(* What VSBIORead::ReadNextMessage (src/ICS_VSBIO/VSBIO/VSBIO.cpp:73-151)  *)
(* promises its callers, for the modules that read whole recordings: the   *)
(* messages that are returned and the condition that ends them.  VsbReader *)
(* is the reader itself; its run checks this promise for the files that    *)
(* VSBIOWrite writes (KeepsPromise).                                       *)
(***************************************************************************)
EXTENDS Integers, Sequences

CONSTANTS
    HeaderSize      \* sizeof(VSBSpyMessage)

ASSUME HeaderSizeAssumption == HeaderSize \in Nat /\ HeaderSize > 0

Message == [id : Nat, time : Nat, payload : Nat]

(* rejects is the first message whose payload the reader refuses, or one   *)
(* more than there are.                                                    *)
Recording ==
    {r \in [opens : BOOLEAN, messages : Seq(Message), rejects : Nat \ {0}] :
        r.rejects <= Len(r.messages) + 1}

SizeOf(m) == HeaderSize + m.payload

(* The first read does not look for the end of the file: a recording       *)
(* without messages returns the zeros of the caller's new buffer.          *)
Ghost == [id |-> 0, time |-> 0, payload |-> 0]

(* The messages that are returned.                                         *)
Contents(r) ==
    IF ~r.opens THEN <<>>
    ELSE IF r.messages = <<>> THEN <<Ghost>>
    ELSE SubSeq(r.messages, 1, r.rejects - 1)

(* What the read after the first n messages returns.  Only a first read    *)
(* can fail with eError: later ones have a file type.                      *)
ReadAt(r, n) ==
    IF ~r.opens THEN "eError"
    ELSE IF n < Len(Contents(r)) THEN "eSuccess"
    ELSE IF n < Len(r.messages) THEN "eInvalidPayloadSize"
    ELSE "eEndOfFile"

(* A file written by VSBIOWrite: the payload of its last message is        *)
(* refused, since the reader counts the header twice.                      *)
Closed(messages) ==
    LET n == Len(messages) IN
    [opens |-> TRUE, messages |-> messages,
     rejects |-> IF n > 0 /\ messages[n].payload > 0 THEN n ELSE n + 1]
===============================================================================
