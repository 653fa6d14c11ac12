------------------------------- MODULE PcapFile -------------------------------
(***************************************************************************)
(* PcapFile (src/ICS_VSBIO/VSBIO/PcapFile.cpp): packet captures in two     *)
(* formats, as the sequence of a header and packets.                       *)
(***************************************************************************)
EXTENDS TimeDecoder, Sequences

CONSTANTS
    Second,         \* nanoseconds of a second, less than Word
    Micro           \* nanoseconds of a microsecond

ASSUME PcapAssumption ==
    Second \in 1..Word /\ Micro \in Nat \ {0}

Formats == {"pcap", "pcapng"}
Header(format) == [header |-> TRUE, format |-> format]

(* Mutant: the header is written by every call.                            *)
OpenCaptureAlways(capture, format, append) ==
    (IF append THEN capture ELSE <<>>) \o <<Header(format)>>

(* Without append the file is a new one; with it nothing is written, even  *)
(* if there was no file.                                                   *)
OpenCapture(capture, format, append) ==
    IF append THEN capture ELSE <<Header(format)>>

(* The times of the formats, in halves of 32 bits; the seconds are         *)
(* multiplied in 32 bits before they are taken away from the time.         *)
RecordHeader(time) ==
    LET sec == (time \div Second) % Word IN
    <<sec, ((time - ((sec * Second) % Word)) % Wrap) % Word>>

PacketBlock(time) ==
    LET t == time \div Micro IN <<t \div Word, t % Word>>

Packet(format, m) ==
    [header |-> FALSE, body |-> m.body,
     at |-> IF format = "pcap" THEN RecordHeader(CalcEpoch64(m.stamp))
            ELSE PacketBlock(CalcEpoch64(m.stamp))]

(* Only Ethernet messages with a payload behind their header are written.  *)
WritePacket(capture, format, m) ==
    IF m.frame THEN Append(capture, Packet(format, m)) ELSE capture

(* What the reader of a capture makes of it.                               *)
TimeIn(format, at) ==
    IF format = "pcap" THEN at[1] * Second + at[2]
    ELSE (at[1] * Word + at[2]) * Micro
===============================================================================
