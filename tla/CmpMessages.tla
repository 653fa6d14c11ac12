------------------------------ MODULE CmpMessages ------------------------------
(***************************************************************************)
(* The messages UnwrapCMPToNative works on, reduced to what its control    *)
(* flow tells apart.  A CMP message is an Ethernet frame of ethertype      *)
(* 0x99FE and version 1; its header names the device, the stream and the   *)
(* 16-bit counter of that stream (UnwrapCMP.cpp:775-800).                  *)
(***************************************************************************)
EXTENDS Integers, Sequences

CONSTANTS
    Devices,        \* CMP DeviceId values
    Streams,        \* CMP StreamId values (8 bits in the code)
    Interfaces,     \* CMP InterfaceId values
    CounterMod,     \* number of values of the sequence counter, 2^16 in the code
    Mapped          \* the <<device, interface>> pairs CmpMapLookup16 knows

ASSUME CounterModAssumption == CounterMod \in Nat /\ CounterMod > 1
ASSUME MappedAssumption == Mapped \subseteq (Devices \X Interfaces)

SeqCounters == 0..(CounterMod - 1)

(* uint16_t arithmetic on a sequence counter.                              *)
NextSeq(n) == (n + 1) % CounterMod

(* What the dispatch of the read loop distinguishes: a message that is not *)
(* CMP, a CMP message that is not CAP_DATA_MSG, and the payload types of a *)
(* CAP_DATA_MSG.                                                           *)
BusKinds == {"can", "canfd", "lin"}
Kinds == {"plain", "control", "ethernet", "unknown"} \cup BusKinds

Segments == {"unsegmented", "start", "continuation", "end"}

MessageType ==
    [kind : Kinds,
     device : Devices,
     stream : Streams,
     interface : Interfaces,
     seq : SeqCounters,
     seg : Segments,            \* SEG bits of the common flags
     wellFormed : BOOLEAN,      \* the lengths inside the message agree
     stamp : Nat,               \* key of the CMP header's timestamp
     time : Nat]                \* key of the outer message's timestamp

(* CmpMapLookup16(device, interface) succeeds.                             *)
CmpMapLookup16(device, interface) == <<device, interface>> \in Mapped
===============================================================================
