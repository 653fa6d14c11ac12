------------------------------ MODULE NetworkMap ------------------------------
(***************************************************************************)
(* Which network a CMP device and interface are (src/ICS_VSBIO/            *)
(* CMPNetworkMap.cpp): a built-in table, and a map loaded from a file that *)
(* comes before it and stays for the life of the process.                  *)
(***************************************************************************)
EXTENDS Integers, SequencesExt

CONSTANTS
    Half,           \* values of a device and of a network, 2^16
    Byte,           \* values of a byte
    Word,           \* values of an interface, 2^32
    BuiltIn         \* kCmpNetworkMap, as a function of the pairs

ASSUME MapAssumption ==
    /\ Half \in Nat \ {0} /\ Byte \in Nat \ {0} /\ Word \in Nat \ {0}
    /\ Byte * Byte <= Half
    /\ DOMAIN BuiltIn \subseteq (0..(Half - 1)) \X (0..(Word - 1))

Pairs == (0..(Half - 1)) \X (0..(Word - 1))
Networks == 0..(Half - 1)

(* An Entry element: numbers as they are read from the text, in 64 bits.   *)
(* The network is one number, or two bytes in the old form; a missing      *)
(* element is a none.                                                      *)
NetworkElement ==
    [form : {"word"}, value : Nat] \cup [form : {"bytes"}, low : Nat, high : Nat]
        \cup [form : {"none"}]
EntryElement ==
    [complete : BOOLEAN,        \* device and interface are there
     device : Nat, interface : Nat, network : NetworkElement]

(* A file: whether it is XML with a map in it, and the map's entries.      *)
Document == [hasMap : BOOLEAN, entries : Seq(EntryElement)]

VARIABLES
    override,       \* gOverrideMap, as a function of pairs
    active          \* gOverrideMapActive

mapVars == <<override, active>>

MapInit == override = <<>> /\ active = FALSE

NetworkValue(n) == IF n.form = "word" THEN n.value ELSE n.high * Byte + n.low

(* ParseCmpEntry: an entry with a number that is too large is skipped, but *)
(* an interface is cut to 32 bits.                                         *)
Parses(e) ==
    /\ e.complete
    /\ e.network.form # "none"
    /\ e.network.form = "bytes" => e.network.low < Byte /\ e.network.high < Byte
    /\ e.device < Half /\ NetworkValue(e.network) < Half

KeyOf(e) == <<e.device, e.interface % Word>>

AddEntry(loaded, e) ==
    IF ~Parses(e) THEN loaded
    ELSE [k \in DOMAIN loaded \cup {KeyOf(e)} |->
            IF k = KeyOf(e) THEN NetworkValue(e.network) ELSE loaded[k]]

(* Mutant: a file without a map leaves the last one in place.              *)
LoadOrKeep(document) ==
    LET loaded == FoldLeft(AddEntry, <<>>, document.entries) IN
    IF document.hasMap /\ DOMAIN loaded # {}
      THEN override' = loaded /\ active' = TRUE
      ELSE UNCHANGED mapVars

(* LoadCmpNetworkMapFromVsdb: whatever is in the file, the map that was    *)
(* loaded before is gone.                                                  *)
LoadMap(document) ==
    LET loaded == IF document.hasMap THEN FoldLeft(AddEntry, <<>>, document.entries) ELSE <<>> IN
    /\ override' = loaded
    /\ active' = (DOMAIN loaded # {})

NoNetwork == -1

(* CmpMapLookup16.                                                         *)
LookupNetwork(device, interface) ==
    LET key == <<device, interface>> IN
    CASE active /\ key \in DOMAIN override -> override[key]
      [] ~(active /\ key \in DOMAIN override) /\ key \in DOMAIN BuiltIn -> BuiltIn[key]
      [] OTHER -> NoNetwork
===============================================================================
