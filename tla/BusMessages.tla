------------------------------ MODULE BusMessages ------------------------------
(***************************************************************************)
(* A bus message inside a CMP message (TryUnwrapCmpLin, TryUnwrapCmpCan,   *)
(* TryUnwrapCmpCanFd in src/ICS_VSBIO/UnwrapCMP.cpp:143-460), the VSB      *)
(* message it becomes, and that message's way through a row of the message *)
(* database. Bytes of a payload are named by their place in it.            *)
(***************************************************************************)
EXTENDS NetworkMap

CONSTANTS
    Frames,         \* the bus messages that arrive
    Documents       \* the files a map is loaded from

DataBytes == 8      \* in the message itself
LinHeaderBytes == 2 \* of a LIN payload, behind the identifier

FrameFlags == {"dirOnIf", "ide", "rtr", "brs", "esi", "parity", "checksum"}

(* room: the bytes behind the payload's header, -1 if that is cut itself.  *)
BusFrame ==
    [kind : {"can", "canfd", "lin"}, device : 0..(Half - 1), interface : 0..(Word - 1),
     flags : SUBSET FrameFlags, length : Nat, room : Nat \cup {-1}]

ASSUME FramesAssumption == Frames \subseteq BusFrame
ASSUME DocumentsAssumption == Documents \subseteq Document

VARIABLES
    frame,          \* the last bus message
    native,         \* what it became, or NotUnwrapped
    reread,         \* what that became through the database
    latest          \* the file that was loaded last, or none

busVars == <<mapVars, frame, native, reread, latest>>

Payload(f) == [i \in 1..f.length |-> i]
Bytes(s, first, last) == SubSeq(s, first, Min({last, Len(s)}))
NotUnwrapped == [unwrapped |-> FALSE]
Status(f, names) == {names[g] : g \in f.flags \cap DOMAIN names}

(* Mutant: only the header must be there.                                  *)
FitsHeader(f) == f.room >= 0

Fits(f) == f.room >= f.length

(* The third status field and AckBytes are the same bytes, ack             *)
(* (VSBStruct.h:50-57).  A classic CAN message has its payload in the      *)
(* message.                                                                *)
Can(f, network) ==
    [unwrapped |-> TRUE, protocol |-> "CAN", network |-> network, header |-> <<>>,
     status |-> {"NETWORK_MESSAGE"}
        \cup Status(f, [dirOnIf |-> "TX", ide |-> "XTD", rtr |-> "REMOTE"]),
     ack |-> {}, description |-> 0,
     data |-> Payload(f), count |-> f.length, extraEnabled |-> FALSE, extra |-> <<>>]

(* A CAN FD message has it behind the message, and the first bytes in it.  *)
CanFd(f, network) ==
    [unwrapped |-> TRUE, protocol |-> "CANFD", network |-> network, header |-> <<>>,
     status |-> {"NETWORK_MESSAGE", "CANFD"} \cup Status(f, [dirOnIf |-> "TX", ide |-> "XTD"]),
     ack |-> {"FDF"} \cup Status(f, [ide |-> "IDE", brs |-> "BRS", esi |-> "ESI"]),
     description |-> 0,
     data |-> Bytes(Payload(f), 1, DataBytes), count |-> f.length,
     extraEnabled |-> TRUE, extra |-> Payload(f)]

(* Mutant: the bytes in the header are in the data as well.                *)
LinDataWhole(f) == Bytes(Payload(f), 1, DataBytes)

LinData(f) == Bytes(Payload(f), LinHeaderBytes + 1, LinHeaderBytes + DataBytes)

(* A LIN message has its first bytes in the header; the count of the rest  *)
(* is right even where the rest does not fit.                              *)
Lin(f, network) ==
    [unwrapped |-> TRUE, protocol |-> "LIN", network |-> network,
     header |-> Bytes(Payload(f), 1, LinHeaderBytes),
     status |-> {"NETWORK_MESSAGE"}
        \cup (IF f.length = 0 THEN {"LIN_NO_SLAVE_DATA"} ELSE {})
        \cup Status(f, [dirOnIf |-> "TX", parity |-> "PARITY", checksum |-> "CHECKSUM"]),
     ack |-> {"CRC"}, description |-> 1,
     data |-> LinData(f),
     count |-> f.length - Len(Bytes(Payload(f), 1, LinHeaderBytes)),
     extraEnabled |-> FALSE, extra |-> <<>>]

TryUnwrap(f) ==
    LET network == LookupNetwork(f.device, f.interface) IN
    CASE ~Fits(f) \/ network = NoNetwork -> NotUnwrapped
      [] Fits(f) /\ network # NoNetwork /\ f.kind = "can" ->
            IF f.length > DataBytes THEN NotUnwrapped ELSE Can(f, network)
      [] Fits(f) /\ network # NoNetwork /\ f.kind = "canfd" -> CanFd(f, network)
      [] Fits(f) /\ network # NoNetwork /\ f.kind = "lin" -> Lin(f, network)

(* NumberBytesData bytes from Data on: of a count that is larger than Data *)
(* the others are bytes of what is behind it.                              *)
Beyond == 0
DataRead(m) == [i \in 1..m.count |-> IF i <= Len(m.data) THEN m.data[i] ELSE Beyond]

(* Mutant: the payload is always taken from the message itself.            *)
BlobOfData(m) == DataRead(m)

(* What is behind the message, if anything is.                             *)
Blob(m) == IF m.extra # <<>> THEN m.extra ELSE DataRead(m)

(* SaveMessage: the columns of a row.                                      *)
SaveMessage(m) ==
    [network |-> m.network, id |-> m.header, status |-> m.status, ack |-> m.ack,
     protocol |-> m.protocol, data |-> Blob(m)]

(* ReadMessage: up to eight bytes go into the message, more behind it; what*)
(* has no column is zero.                                                  *)
ReadMessage(row) ==
    LET small == Len(row.data) <= DataBytes IN
    [unwrapped |-> TRUE, protocol |-> row.protocol, network |-> row.network,
     header |-> row.id, status |-> row.status, ack |-> row.ack, description |-> 0,
     data |-> IF small THEN row.data ELSE <<>>,
     count |-> IF small THEN Len(row.data) ELSE 0,
     extraEnabled |-> ~small,
     extra |-> IF small THEN <<>> ELSE row.data]

-------------------------------------------------------------------------------
NoFrame == [kind |-> "can", device |-> 0, interface |-> 0, flags |-> {}, length |-> 0, room |-> 0]
NoDocument == [hasMap |-> FALSE, entries |-> <<>>]

BusInit ==
    /\ MapInit
    /\ frame = NoFrame /\ native = NotUnwrapped /\ reread = NotUnwrapped
    /\ latest = NoDocument

LoadCmpNetworkMapFromVsdb ==
    /\ \E d \in Documents : LoadMap(d) /\ latest' = d
    /\ native' = NotUnwrapped /\ reread' = NotUnwrapped
    /\ UNCHANGED frame

UnwrapBusMessage ==
    /\ \E f \in Frames : frame' = f /\ native' = TryUnwrap(f)
    /\ reread' = NotUnwrapped
    /\ UNCHANGED <<mapVars, latest>>

(* CreateDatabase and WriteFilteredVsb.                                    *)
StoreAndRead ==
    /\ native.unwrapped /\ reread = NotUnwrapped
    /\ reread' = ReadMessage(SaveMessage(native))
    /\ UNCHANGED <<mapVars, frame, native, latest>>

BusNext ==
    \/ LoadCmpNetworkMapFromVsdb
    \/ UnwrapBusMessage
    \/ StoreAndRead

BusSpec == BusInit /\ [][BusNext]_busVars

-------------------------------------------------------------------------------
(* What a message of the recording holds.                                  *)
PayloadOf(m) == m.header \o (IF m.extraEnabled THEN m.extra ELSE Bytes(m.data, 1, m.count))

(* Every byte of the payload is in the message, once and in its place; of  *)
(* a LIN payload that is longer than LIN allows, as many as fit            *)
(* (UnwrapCMP.cpp:198-220, 330-338, 430-445).                              *)
PayloadKept ==
    native.unwrapped =>
        PayloadOf(native) =
            IF native.protocol = "LIN" THEN Bytes(Payload(frame), 1, LinHeaderBytes + DataBytes)
            ELSE Payload(frame)

(* No byte comes from beyond the frame, whatever length it states.         *)
NoByteFromBeyond == native.unwrapped => \A i \in DOMAIN PayloadOf(native) : PayloadOf(native)[i] <= frame.room

(* The networks that a file says a pair is, the last one first.            *)
SaidBy(document, pair) ==
    {i \in DOMAIN document.entries :
        document.hasMap /\ Parses(document.entries[i]) /\ KeyOf(document.entries[i]) = pair}

(* A message gets the network that the last valid entry of the file loaded *)
(* last gives its device and interface, or else the built-in one; one that *)
(* was loaded before has no say, even if the last one was not a map        *)
(* (CMPNetworkMap.cpp:27-66, 194-244; CMPNetworkMap.h:115-116).            *)
NetworkFromLatestMap ==
    native.unwrapped =>
        LET pair == <<frame.device, frame.interface>>
            said == SaidBy(latest, pair)
        IN  native.network =
                IF said # {} THEN NetworkValue(latest.entries[CHOOSE i \in said : \A j \in said : j <= i].network)
                ELSE BuiltIn[pair]

(* Through the database a message keeps its payload, header, network and   *)
(* status, and has the payload behind the message just when it is too long *)
(* for it; the first bytes of a long CAN FD payload and its length are in  *)
(* the message no more.  Only LIN loses something: its description, and a  *)
(* payload of more than the ten bytes LIN allows comes back as those that  *)
(* were kept, followed by bytes that are none of its own                   *)
(* (VSBDatabase.cpp:93-117, 165-206; UnwrapCMP.cpp:184, 216-219).          *)
SurvivesDatabase ==
    reread.unwrapped =>
        LET before == PayloadOf(native)
            after == PayloadOf(reread)
        IN  /\ IsPrefix(before, after)
            /\ before # after <=> native.protocol = "LIN" /\ frame.length > LinHeaderBytes + DataBytes
            /\ \A c \in {"network", "protocol", "header", "status", "ack"} : reread[c] = native[c]
            /\ reread.extraEnabled <=> Len(after) - Len(reread.header) > DataBytes
            /\ ~reread.extraEnabled => reread.data = native.data /\ reread.count = native.count
            /\ reread.description # native.description => native.protocol = "LIN"
===============================================================================
