------------------------------ MODULE MCFlash ------------------------------
(***************************************************************************)
(* Flash for TLC: rows of two pages, two rows of bootloader (rows 0 and 1),*)
(* page ids from row 2 on.  Pages 2 and 3 share a root row, page 4 starts  *)
(* the next.  A page is one bit, as no step makes a bit depend on another, *)
(* and any page may come damaged.  The flash holds an older image at       *)
(* first, or nothing.                                                      *)
(***************************************************************************)
EXTENDS Flash

CONSTANTS b1

MCBits == {b1}
MCPageIds == 2 .. 4
MCFirmware == [p \in MCPageIds |-> IF p = 3 THEN {b1} ELSE {}]
MCPayload == [p \in MCPageIds |-> {{}, {b1}}]
MCInitialFlash == {[p \in Page |-> {}], [p \in Page |-> {b1}]}
=============================================================================
