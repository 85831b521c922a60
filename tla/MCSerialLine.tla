---------------------------- MODULE MCSerialLine ----------------------------
(***************************************************************************)
(* SerialLine for TLC: a ring of three bytes under a byte of five values,  *)
(* a line of three characters and the terminator, one command typed.       *)
(***************************************************************************)
EXTENDS SerialLine

MCChar == {CR, LF, NUL, Word}
=============================================================================
