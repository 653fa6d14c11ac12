------------------------------- MODULE KeyStore -------------------------------
(***************************************************************************)
(* What a message database promises: of the messages with the same key the *)
(* first one stays.                                                        *)
(***************************************************************************)
EXTENDS Sequences, Functions

CONSTANTS
    Item,           \* the messages
    Key(_)          \* the key of a message

VARIABLES store, incoming

Open ==
    /\ incoming = <<>>
    /\ incoming' \in Seq(Item)
    /\ store' \in {store, <<>>}

Put ==
    /\ incoming # <<>>
    /\ incoming' = Tail(incoming)
    /\ LET m == Head(incoming) IN
       store' = IF Key(m) \in DOMAIN store THEN store
                ELSE [k \in DOMAIN store \cup {Key(m)} |-> IF k = Key(m) THEN m ELSE store[k]]

Stop ==
    /\ incoming' = <<>>
    /\ UNCHANGED store

StoreSpec ==
    /\ store = <<>> /\ incoming = <<>>
    /\ [][Open \/ Put \/ Stop]_<<store, incoming>>
===============================================================================
