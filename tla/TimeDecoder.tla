----------------------------- MODULE TimeDecoder -----------------------------
(***************************************************************************)
(* CMessageTimeDecoderVSB (src/ICS_VSBIO/VSBIO/MessageTimeDecoderVSB.cpp): *)
(* the time stamps of the recorders, as nanoseconds since 1970 and back.   *)
(* A stamp has two halves; its kind says what they count.                  *)
(***************************************************************************)
EXTENDS Integers

CONSTANTS
    Word,           \* values of a half, 2^32
    ShortWord,      \* values of the low half of the two oldest kinds, 2^16
    Wrap,           \* values of a time, 2^64
    EpochOffset     \* nanoseconds from 1970 to 2007

ASSUME TimeAssumption ==
    /\ Word \in Nat \ {0} /\ ShortWord \in Nat \ {0}
    /\ Wrap \in Nat \ {0} /\ EpochOffset \in 0..(Wrap - 1)

(* The counts of 25 ns in the values of a time have room in two halves.    *)
ASSUME HalvesAssumption == Wrap <= 25 * Word * Word

Counters == {"NEORED_10NS", "NEORED_25NS", "NEORED_10US", "NEOv6_VCAN", "NEOVI"}
Kinds == Counters \cup {"DOUBLE_SEC", "SYSTEM"}

(* A stamp that is no counter holds its value in low, in nanoseconds or in *)
(* milliseconds.                                                           *)
Stamp == [kind : Kinds, high : Nat, low : Nat]

(* Nanoseconds of one count of the low half, and of the high half.         *)
Low(kind) ==
    CASE kind = "NEORED_10NS" -> 10
      [] kind = "NEORED_25NS" -> 25
      [] kind = "NEORED_10US" -> 10000
      [] kind = "NEOv6_VCAN" -> 1000
      [] kind = "NEOVI" -> 1600

(* Mutant: the low half of every kind has the same size.                   *)
HighHalfWords(kind) == IF kind = "NEORED_10NS" THEN 100 * Word ELSE Low(kind) * Word

HighHalf(kind) ==
    CASE kind = "NEORED_10NS" -> 100 * Word
      [] kind = "NEORED_25NS" -> 25 * Word
      [] kind = "NEORED_10US" -> 10000 * Word
      [] kind = "NEOv6_VCAN" -> 1000 * ShortWord
      [] kind = "NEOVI" -> 1600 * ShortWord

CalcEpoch64(s) ==
    CASE s.kind \in Counters ->
            (s.high * HighHalf(s.kind) + s.low * Low(s.kind) + EpochOffset) % Wrap
      [] s.kind = "DOUBLE_SEC" -> s.low % Wrap
      [] s.kind = "SYSTEM" -> (s.low * 1000000) % Wrap

(* Mutant: the count begins in 1970.                                       *)
SetMessageTime1970(time) ==
    [kind |-> "NEORED_25NS", high |-> (time \div 25) \div Word, low |-> (time \div 25) % Word]

(* The stamp of a message that is made of a time: always of one kind.      *)
SetMessageTime(time) ==
    LET count == ((time - EpochOffset) % Wrap) \div 25 IN
    [kind |-> "NEORED_25NS", high |-> (count \div Word) % Word, low |-> count % Word]

(* What a counter means: the values of its low half, and the time that     *)
(* passed since 2007.                                                      *)
Carry(kind) == IF kind \in {"NEOv6_VCAN", "NEOVI"} THEN ShortWord ELSE Word
Elapsed(s) == (s.high * Carry(s.kind) + s.low) * Low(s.kind)
===============================================================================
