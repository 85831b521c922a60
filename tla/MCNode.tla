------------------------------- MODULE MCNode -------------------------------
(***************************************************************************)
(* Node for TLC: rows of two pages, the application's from row 2 on.  The  *)
(* long image has three pages, which lie over two rows: it is in flash at  *)
(* first, and its pages are sent again.  The short one has two, a header   *)
(* and a page of code: only such an image of one row is ever whole again   *)
(* after an update.  A page of one may come for a page of the other, the   *)
(* damaged header claims more data than there is, the erased one has no    *)
(* magic, and the short header over the long image's code passes the CRC.  *)
(***************************************************************************)
EXTENDS Node

CONSTANTS b1, b2

MCBits == {b1, b2}
MCPageIds == 2 .. 4
MCFirmware == [p \in MCPageIds |-> CASE p = 2 -> {} [] p = 3 -> {b2} [] p = 4 -> {b1}]
MCPayload ==
    [p \in MCPageIds |-> CASE p = 2 -> {{}, {b1}}
                           [] p = 3 -> {{b1}, {b2}}
                           [] p = 4 -> {{b1}}]
MCInitialFlash ==
    {[p \in 0 .. 9 |-> CASE p <= 4 -> {} [] p = 5 -> {b2} [] p = 6 -> {b1}
                         [] p >= 7 -> MCBits]}
MCMagic == {{}, {b1}, {b2}}
MCSized == {{}, {b1}}
MCVectorIn == [c \in SUBSET MCBits |-> IF c = MCBits THEN 99 ELSE 3]

Slots == [4 .. 9 -> SUBSET MCBits]
Long == {s \in Slots : s[4] = {} /\ s[5] = {b2} /\ s[6] = {b1}}
Short(code) == {s \in Slots : s[4] = {b1} /\ s[5] = code}
MCSigned == Long \cup Short({b2})
MCCrcMatch == MCSigned \cup Short({b1})

MCVectors == {3}
MCGarbageBytes == {255}
=============================================================================
