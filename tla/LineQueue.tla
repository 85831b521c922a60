------------------------------ MODULE LineQueue ------------------------------
(***************************************************************************)
(* What sio2host.c promises the reader of its receive ring: the bytes that *)
(* arrived, in order and each once.  When more come than there is room     *)
(* for, old bytes are "overwritten by new data" and a "full buffer" is     *)
(* left, read from its oldest byte on (sio2host.c:156-169).                *)
(* SerialLine.tla says how much of this the code keeps.                    *)
(***************************************************************************)
EXTENDS Naturals, Sequences

CONSTANTS
    Char,       \* what a byte may be
    Capacity    \* SERIAL_RX_BUF_SIZE_HOST: the bytes there is room for

VARIABLES
    queue,      \* the bytes that wait
    taken       \* the byte read last

vars == <<queue, taken>>

Init == queue = <<>> /\ taken \in Char

Arrive ==
    /\ \E c \in Char :
          queue' = IF Len(queue) = Capacity THEN Append(Tail(queue), c)
                   ELSE Append(queue, c)
    /\ UNCHANGED taken

Read ==
    /\ queue # <<>>
    /\ taken' = Head(queue)
    /\ queue' = Tail(queue)

Next == Arrive \/ Read

Spec == Init /\ [][Next]_vars
=============================================================================
