------------------------------ MODULE Updater ------------------------------
(***************************************************************************)
(* updater/main.cpp: the node that sends an image over the air, one packet *)
(* of 64 bytes at a time, each until something is heard.                   *)
(***************************************************************************)
EXTENDS Radio

CONSTANTS
    Sender,        \* the updater's node
    SenderId,      \* the update id it sends, 123 (main.cpp:216)
    LastPacket,    \* firmware size / 64: packets 0 .. LastPacket are sent
    PacketValues   \* 256: the values of the counter `packet'

ASSUME SenderAssumption == Sender \in Node
ASSUME PacketAssumption ==
    LastPacket \in Nat /\ PacketValues \in Nat \ {0}

VARIABLES
    upc,      \* where the loop over the packets is
    packet    \* its counter, a uint8_t

updaterVars == <<upc, packet>>

UpdaterTypeOK ==
    /\ upc \in {"send", "wait_tx", "clear_tx", "listen", "rx_spin", "delay", "done"}
    /\ packet \in 0 .. PacketValues - 1

UpdaterInit == upc = "send" /\ packet = 0

Packet(n) == [id |-> SenderId, cmd |-> 1, byte2 |-> n, body |-> "firmware"]

NextPacket == (packet + 1) % PacketValues

(* The flag of a frame heard before is not cleared here.                   *)
SendPacket ==
    /\ upc = "send"
    /\ packet <= LastPacket
    /\ radio' = [radio EXCEPT ![Sender] = SX1276_send_message(@, Packet(packet))]
    /\ upc' = "wait_tx"
    /\ UNCHANGED packet

(* Mutant: the last packet, the one filled up with 0xFF, is left out.      *)
AllSentEarly ==
    /\ upc = "send"
    /\ packet >= LastPacket
    /\ upc' = "done"
    /\ UNCHANGED <<radio, packet>>

AllSent ==
    /\ upc = "send"
    /\ packet > LastPacket
    /\ upc' = "done"
    /\ UNCHANGED <<radio, packet>>

PacketSent ==
    /\ upc = "wait_tx"
    /\ radio[Sender].txdone
    /\ radio' = [radio EXCEPT ![Sender] = SX1276_set_device_mode(@, "rx")]
    /\ upc' = "clear_tx"
    /\ UNCHANGED packet

ClearTx ==
    /\ upc = "clear_tx"
    /\ radio' = [radio EXCEPT ![Sender] = SX1276_clear_transmit_done_flag(@)]
    /\ upc' = "listen"
    /\ UNCHANGED packet

(* Mutant: the other flag is cleared.                                      *)
HearReplyClearsTx ==
    /\ upc = "listen"
    /\ radio[Sender].rxdone
    /\ radio' = [radio EXCEPT ![Sender] = SX1276_clear_transmit_done_flag(@)]
    /\ upc' = "rx_spin"
    /\ UNCHANGED packet

(* Whatever was heard counts as the reply.                                 *)
HearReply ==
    /\ upc = "listen"
    /\ radio[Sender].rxdone
    /\ radio' = [radio EXCEPT ![Sender] = SX1276_clear_recieve_done_flag(@)]
    /\ upc' = "rx_spin"
    /\ UNCHANGED packet

(* `while (flags & RECEIVE_DONE) {}', as on the edge.                      *)
ReplyCleared ==
    /\ upc = "rx_spin"
    /\ ~radio[Sender].rxdone
    /\ upc' = "delay"
    /\ UNCHANGED <<radio, packet>>

(* delay_ms(50), then the loop's packet++.                                 *)
Advance ==
    /\ upc = "delay"
    /\ packet' = NextPacket
    /\ upc' = "send"
    /\ UNCHANGED radio

(* Mutant: the packet is given up.                                         *)
TimeoutGivesUp ==
    /\ upc \in {"listen", "delay"}
    /\ packet' = NextPacket
    /\ upc' = "send"
    /\ UNCHANGED radio

(* Mutant: the packet before is sent again.                                *)
TimeoutGoesBack ==
    /\ upc \in {"listen", "delay"}
    /\ packet' = (packet + PacketValues - 1) % PacketValues
    /\ upc' = "send"
    /\ UNCHANGED radio

(* More than 2000 since listening began: packet--, and the loop's packet++.*)
(* In "delay" too: the test comes after the reply was taken.               *)
Timeout ==
    /\ upc \in {"listen", "delay"}
    /\ upc' = "send"
    /\ UNCHANGED <<radio, packet>>

Send ==
    \/ SendPacket \/ AllSent \/ PacketSent \/ ClearTx
    \/ HearReply \/ ReplyCleared \/ Advance
=============================================================================
