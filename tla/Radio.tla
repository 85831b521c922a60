------------------------------- MODULE Radio -------------------------------
(***************************************************************************)
(* The SX1276 transceivers of a set of nodes, as the driver in             *)
(* framework/lora/micro-driver-sx1276.c shows them to the program, and the *)
(* channel between them: half duplex, a frame is heard by whoever listens, *)
(* or by nobody, or with its page data damaged, since the payload CRC is   *)
(* off (micro-driver-sx1276.c:126).                                        *)
(***************************************************************************)
EXTENDS Naturals

CONSTANTS
    Node,     \* the transceivers
    Frame,    \* what can be on air
    Faulty    \* the nodes whose transmission may hang

VARIABLE radio

Mode == {"sleep", "standby", "tx", "rx"}

(* One FIFO serves both directions: both base addresses are 0 (driver, 116)*)
RadioTypeOK ==
    radio \in [Node -> [mode : Mode, hung : BOOLEAN, rxdone : BOOLEAN,
                        txdone : BOOLEAN, fifo : Frame]]

SX1276_set_device_mode(r, mode) == [r EXCEPT !.mode = mode]

(* Standby, fill the FIFO, transmit.  It does not touch the flags.         *)
SX1276_send_message(r, frame) == [r EXCEPT !.fifo = frame, !.mode = "tx"]

SX1276_receive_message(r) == r.fifo

SX1276_clear_recieve_done_flag(r) == [r EXCEPT !.rxdone = FALSE]
SX1276_clear_transmit_done_flag(r) == [r EXCEPT !.txdone = FALSE]

(* Reset pin, configuration, then continuous receive: reset_lora of the    *)
(* edge and init_update, init_lora of the updater.                         *)
ResetRadio(r) ==
    [r EXCEPT !.mode = "rx", !.hung = FALSE, !.rxdone = FALSE, !.txdone = FALSE]

-----------------------------------------------------------------------------
(* The channel.                                                            *)
Heard(frame) ==
    {frame} \cup IF frame.body = "firmware" THEN {[frame EXCEPT !.body = "garbled"]}
                 ELSE {}

Listening(n) == {m \in Node \ {n} : radio[m].mode = "rx"}

(* The frame is over: every listener in `hearers' has it.                  *)
EndTransmission(n, hearers, frame) ==
    radio' = [m \in Node |->
                IF m = n THEN [radio[n] EXCEPT !.mode = "standby", !.txdone = TRUE]
                ELSE IF m \in hearers
                     THEN [radio[m] EXCEPT !.rxdone = TRUE, !.fifo = frame]
                     ELSE radio[m]]

Transmitting(n) == radio[n].mode = "tx" /\ ~radio[n].hung

TransmitEnd(n) ==
    /\ Transmitting(n)
    /\ \E hearers \in SUBSET Listening(n), frame \in Heard(radio[n].fifo) :
          EndTransmission(n, hearers, frame)

(* A transmission that someone listens to, and everyone who does hears.    *)
TransmitWell(n) ==
    /\ Transmitting(n)
    /\ Listening(n) # {}
    /\ EndTransmission(n, Listening(n), radio[n].fifo)

TransmitHang(n) ==
    /\ n \in Faulty
    /\ Transmitting(n)
    /\ radio' = [radio EXCEPT ![n].hung = TRUE]
=============================================================================
