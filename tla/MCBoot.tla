------------------------------- MODULE MCBoot -------------------------------
(***************************************************************************)
(* Boot for TLC.  The slot starts at unit 2, so its header is unit 2 and   *)
(* the application's vector table unit 3.  The vectors tried are the right *)
(* one, one that is not aligned, one that passes app_start's test although *)
(* it points past the table, and the erased word.                          *)
(***************************************************************************)
EXTENDS Boot

MCVectors == {3, 4, 5}
MCGarbageBytes == {0, 2, 255}

(* Fewer images, for the counterexamples.                                  *)
MCFewVectors == {3, 4}
MCFewGarbageBytes == {0, 255}
=============================================================================
