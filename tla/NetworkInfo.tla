------------------------------ MODULE NetworkInfo ------------------------------
(***************************************************************************)
(* NetworkInfo (src/ICS_VSBIO/VSBIO/NetworkInfo.cpp): what is known of a   *)
(* network while messages are added, and its record in the table Network.  *)
(* Names and protocols are left out.                                       *)
(***************************************************************************)
EXTENDS Integers, FiniteSetsExt

Summary == [first : Nat, last : Nat, count : Nat]
NoMessages == [first |-> 0, last |-> 0, count |-> 0]

(* A default NetworkInfo; id is a network, or the -1 of the code.          *)
Untouched == [id |-> -1, first |-> 0, last |-> 0, count |-> 0]

(* A first time of zero means that there was no message yet: only then is  *)
(* the network's id taken.                                                 *)
Counted(info, time, net) ==
    [id    |-> IF info.first = 0 THEN net ELSE info.id,
     first |-> IF info.first = 0 \/ time < info.first THEN time ELSE info.first,
     last  |-> IF info.last < time THEN time ELSE info.last,
     count |-> info.count + 1]

(* The aggregate query on the rows of a network; of no rows the times are  *)
(* NULL, which reads as zero.                                              *)
ReadMessageStats(rows, net) ==
    LET times == {r.time : r \in {q \in rows : q.net = net}} IN
    IF times = {} THEN NoMessages
    ELSE [first |-> Min(times), last |-> Max(times),
          count |-> Cardinality({q \in rows : q.net = net})]

SummaryOf(info) == [first |-> info.first, last |-> info.last, count |-> info.count]

CountedAs(counted, net) == SummaryOf(CHOOSE info \in counted : info.id = net)

(* Mutant: the records are always made from what was counted.              *)
UpdateNetworksCounted(networks, rows, counted) ==
    LET ids == {info.id : info \in counted} IN
    [n \in DOMAIN networks \cup ids |->
        IF n \notin ids THEN networks[n] ELSE CountedAs(counted, n)]

(* The record of a network that has one is made from the table, that of a  *)
(* new network from what was counted.  No network was counted twice, as    *)
(* those that were have different low bytes.                               *)
UpdateNetworks(networks, rows, counted) ==
    LET ids == {info.id : info \in counted} IN
    [n \in DOMAIN networks \cup ids |->
        IF n \notin ids THEN networks[n]
        ELSE IF n \in DOMAIN networks THEN ReadMessageStats(rows, n)
        ELSE CountedAs(counted, n)]

CleanMessageStatistics(networks) == [n \in DOMAIN networks |-> NoMessages]
===============================================================================
