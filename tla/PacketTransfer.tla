--------------------------- MODULE PacketTransfer ---------------------------
(***************************************************************************)
(* What a transfer one packet at a time promises: pages are taken in the   *)
(* order of the image, the next one only after the one before, each any    *)
(* number of times while it is the current one, damaged or not, but never  *)
(* without data; and the transfer ends behind the last.                    *)
(* UpdateLink.tla is shown to implement it.                                *)
(***************************************************************************)
EXTENDS Naturals

CONSTANTS
    Slot,           \* the pages
    LastPacket,     \* of the image
    PacketValues    \* the counter's

VARIABLES
    packet,     \* the current one
    taken,      \* what each page was last given
    done        \* the sender says so

vars == <<packet, taken, done>>

Init ==
    /\ packet = 0
    /\ taken = [s \in Slot |-> "unasked"]
    /\ done = FALSE

Sending == ~done /\ packet <= LastPacket

Take ==
    /\ Sending
    /\ \E data \in {"firmware", "garbled"} : taken' = [taken EXCEPT ![packet] = data]
    /\ UNCHANGED <<packet, done>>

Proceed ==
    /\ Sending
    /\ taken[packet] # "unasked"
    /\ packet' = (packet + 1) % PacketValues
    /\ UNCHANGED <<taken, done>>

Finish ==
    /\ ~done
    /\ packet > LastPacket
    /\ done' = TRUE
    /\ UNCHANGED <<packet, taken>>

Next == Take \/ Proceed \/ Finish

Spec == Init /\ [][Next]_vars
=============================================================================
