------------------------------ MODULE Listener ------------------------------
(***************************************************************************)
(* boot/update.c on a set of edges: listen_update, polled for ever by      *)
(* boot/main.c, with handle_lora_message.  The steps are the places where  *)
(* the radio can change between two of the program's accesses to it.       *)
(***************************************************************************)
EXTENDS Radio, FiniteSets

CONSTANTS
    Edge,       \* the nodes that run the updater of the bootloader
    UpdateId,   \* shared_memory_get_update_id() of each edge
    Slot        \* the page ids a message can carry

ASSUME EdgeAssumption == Edge \subseteq Node

(* A frame stays a frame when it is damaged or answered; the tracking      *)
(* needs room for the bit it sets.                                         *)
ASSUME FrameAssumption ==
    /\ 1 \in Slot
    /\ \A frame \in Frame : Heard(frame) \subseteq Frame
    /\ \A e \in Edge : \A frame \in Frame :
          frame.id = UpdateId[e] =>
            /\ frame.cmd = 1 =>
                 frame.byte2 \in Slot /\ frame.body \in {"none", "firmware", "garbled"}
            /\ frame.cmd \in {1, 3, 4} =>
                 [id |-> frame.id, cmd |-> frame.cmd, byte2 |-> 1, body |-> "none"] \in Frame
            /\ frame.cmd = 2 => \A byte2 \in {0, 2} :
                 [id |-> frame.id, cmd |-> 2, byte2 |-> byte2, body |-> "none"] \in Frame

VARIABLES
    edge,       \* the program's state on each edge
    asked       \* what update_page was last given for each slot, since the
                \* last erase_application

edgeVars == <<edge, asked>>

EdgePC == {"poll", "receive", "rx_clear", "rx_spin",
           "tx_mode", "tx_clear", "watch", "reboot", "away"}

(* flags: the local copy of the interrupt flags; tracker: slot_status;     *)
(* fresh: lora_heart_beat is less than 60000 old; lag: the value of        *)
(* last_receive_mode_time is more than 1000 old.                           *)
EdgeTypeOK ==
    /\ edge \in [Edge -> [pc : EdgePC, flags : SUBSET {"rx", "tx"},
                          tracker : SUBSET Slot, fresh : BOOLEAN, lag : BOOLEAN]]
    /\ asked \in [Edge -> [Slot -> {"unasked", "firmware", "garbled", "stack"}]]

EdgeInit ==
    /\ edge = [e \in Edge |-> [pc |-> "poll", flags |-> {},
                               tracker |-> {}, fresh |-> TRUE, lag |-> FALSE]]
    /\ asked = [e \in Edge |-> [s \in Slot |-> "unasked"]]

Goto(e, from, to) ==
    /\ edge[e].pc = from
    /\ edge' = [edge EXCEPT ![e].pc = to]

-----------------------------------------------------------------------------
(* listen_update: one reading of the flags decides for the whole pass.     *)
AfterReceive(flags) == IF "tx" \in flags THEN "tx_mode" ELSE "watch"

(* Mutant: any flag is taken for a message.                                *)
PollAnyFlag(e) ==
    LET flags == {f \in {"rx", "tx"} :
                    IF f = "rx" THEN radio[e].rxdone ELSE radio[e].txdone}
    IN  /\ edge[e].pc = "poll"
        /\ edge' = [edge EXCEPT ![e].flags = flags,
                      ![e].pc = IF flags # {} THEN "receive" ELSE "watch"]
        /\ UNCHANGED <<radio, asked>>

Poll(e) ==
    LET flags == {f \in {"rx", "tx"} :
                    IF f = "rx" THEN radio[e].rxdone ELSE radio[e].txdone}
    IN  /\ edge[e].pc = "poll"
        /\ edge' = [edge EXCEPT ![e].flags = flags,
                      ![e].pc = IF "rx" \in flags THEN "receive" ELSE AfterReceive(flags)]
        /\ UNCHANGED <<radio, asked>>

-----------------------------------------------------------------------------
(* receive_lora_message and handle_lora_message, by command.  What is heard*)
(* between the reading of the FIFO and the reply is as good as not heard.  *)
message(e) == SX1276_receive_message(radio[e])

ForMe(e) == edge[e].pc = "receive" /\ message(e).id = UpdateId[e]

Reply(e, byte2) ==
    radio' = [radio EXCEPT ![e] = SX1276_send_message(@,
        [id |-> message(e).id, cmd |-> message(e).cmd, byte2 |-> byte2, body |-> "none"])]

(* Mutant: the tracking counts the page from the start of the flash.       *)
UpdateSlotAbsolute(e) ==
    /\ ForMe(e) /\ message(e).cmd = 1
    /\ asked' = [asked EXCEPT ![e][message(e).byte2] =
                   IF message(e).body = "none" THEN "stack" ELSE message(e).body]
    /\ Reply(e, 1)
    /\ edge' = [edge EXCEPT ![e].tracker = @ \cup {message(e).byte2 + 64},
                            ![e].fresh = TRUE, ![e].pc = "rx_clear"]

(* No check of the length: past the end of a short message there is what   *)
(* the stack held.  The tracking marks message[1], the command, not the    *)
(* page.                                                                   *)
UpdateSlot(e) ==
    /\ ForMe(e) /\ message(e).cmd = 1
    /\ asked' = [asked EXCEPT ![e][message(e).byte2] =
                   IF message(e).body = "none" THEN "stack" ELSE message(e).body]
    /\ Reply(e, 1)
    /\ edge' = [edge EXCEPT ![e].tracker = @ \cup {message(e).cmd}, ![e].fresh = TRUE,
                            ![e].pc = "rx_clear"]

(* The status byte is overwritten by the first byte of the tracking.       *)
MissingSlots(e) ==
    /\ ForMe(e) /\ message(e).cmd = 2
    /\ Reply(e, IF edge[e].tracker = {} THEN 0 ELSE 2)
    /\ edge' = [edge EXCEPT ![e].fresh = TRUE, ![e].pc = "rx_clear"]
    /\ UNCHANGED asked

(* Mutant: the erase waits for the controller, 6 ms for each of 448 rows.  *)
EraseAppSlowly(e) ==
    /\ ForMe(e) /\ message(e).cmd = 3
    /\ asked' = [asked EXCEPT ![e] = [s \in Slot |-> "unasked"]]
    /\ Reply(e, 1)
    /\ edge' = [edge EXCEPT ![e].tracker = {}, ![e].fresh = TRUE, ![e].lag = TRUE,
                            ![e].pc = "rx_clear"]

(* erase_application returns at once: the driver refuses every row, since  *)
(* nothing calls config_nvm.  It would take seconds otherwise.             *)
EraseApp(e) ==
    /\ ForMe(e) /\ message(e).cmd = 3
    /\ asked' = [asked EXCEPT ![e] = [s \in Slot |-> "unasked"]]
    /\ Reply(e, 1)
    /\ edge' = [edge EXCEPT ![e].tracker = {}, ![e].fresh = TRUE, ![e].pc = "rx_clear"]

Reboot(e) ==
    /\ ForMe(e) /\ message(e).cmd = 4
    /\ Reply(e, 1)
    /\ edge' = [edge EXCEPT ![e].pc = "reboot"]
    /\ UNCHANGED asked

Ignore(e) ==
    /\ message(e).id # UpdateId[e] \/ message(e).cmd \notin 1 .. 4
    /\ Goto(e, "receive", "rx_clear")
    /\ UNCHANGED <<radio, asked>>

Handle(e) == UpdateSlot(e) \/ MissingSlots(e) \/ EraseApp(e) \/ Reboot(e) \/ Ignore(e)

(* After delay_ms(1000), or the silence of 60000: longer than any reply.   *)
SystemReset(e) ==
    /\ ~Transmitting(e)
    /\ Goto(e, "reboot", "away")
    /\ radio' = [radio EXCEPT ![e].mode = "standby"]
    /\ UNCHANGED asked

-----------------------------------------------------------------------------
(* Mutant: all the flags are cleared.                                      *)
RxClearAll(e) ==
    /\ Goto(e, "rx_clear", "rx_spin")
    /\ radio' = [radio EXCEPT ![e] = SX1276_clear_transmit_done_flag(
                                        SX1276_clear_recieve_done_flag(@))]
    /\ UNCHANGED asked

RxClear(e) ==
    /\ Goto(e, "rx_clear", "rx_spin")
    /\ radio' = [radio EXCEPT ![e] = SX1276_clear_recieve_done_flag(@)]
    /\ UNCHANGED asked

(* `while (flags & RECEIVE_DONE) {}': a frame heard since keeps it there.  *)
RxSpin(e) ==
    /\ ~radio[e].rxdone
    /\ Goto(e, "rx_spin", AfterReceive(edge[e].flags))
    /\ UNCHANGED <<radio, asked>>

TxMode(e) ==
    /\ Goto(e, "tx_mode", "tx_clear")
    /\ radio' = [radio EXCEPT ![e] = SX1276_set_device_mode(@, "rx")]
    /\ UNCHANGED asked

(* The flag stays clear, so the loop on it ends at once.                   *)
TxClear(e) ==
    /\ Goto(e, "tx_clear", "watch")
    /\ radio' = [radio EXCEPT ![e] = SX1276_clear_transmit_done_flag(@)]
    /\ UNCHANGED asked

(* Mutant: a radio that is stuck is noted and left alone.                  *)
WatchModeOnly(e) ==
    /\ edge[e].pc = "watch"
    /\ edge' = [edge EXCEPT ![e].lag = @ /\ radio[e].mode # "rx",
                            ![e].pc = IF edge[e].fresh THEN "poll" ELSE "reboot"]
    /\ UNCHANGED <<radio, asked>>

(* Out of receive mode for too long, the radio is reset.  It is the next   *)
(* pass that notes the time again, sooner than a frame can be heard.       *)
WatchMode(e) ==
    LET receiving == radio[e].mode = "rx"
    IN  /\ edge[e].pc = "watch"
        /\ radio' = IF ~receiving /\ edge[e].lag
                    THEN [radio EXCEPT ![e] = ResetRadio(@)] ELSE radio
        /\ edge' = [edge EXCEPT ![e].lag = FALSE,
                                ![e].pc = IF edge[e].fresh THEN "poll" ELSE "reboot"]
        /\ UNCHANGED asked

(* 1000 out of receive mode: a reply takes a tenth of that (update.h).     *)
Lag(e) ==
    /\ radio[e].mode # "rx" /\ ~Transmitting(e)
    /\ edge[e].pc # "away" /\ ~edge[e].lag
    /\ edge' = [edge EXCEPT ![e].lag = TRUE]
    /\ UNCHANGED <<radio, asked>>

(* 60000 without a command that was obeyed.                                *)
Silence(e) ==
    /\ edge[e].fresh
    /\ edge[e].pc # "away" /\ ~Transmitting(e)
    /\ edge' = [edge EXCEPT ![e].fresh = FALSE]
    /\ UNCHANGED <<radio, asked>>

(* The node has run the application, which asked for the updater again.    *)
Return(e) ==
    /\ edge[e].pc = "away"
    /\ edge' = [edge EXCEPT ![e].pc = "poll", ![e].flags = {}, ![e].tracker = {},
                            ![e].fresh = TRUE, ![e].lag = FALSE]
    /\ radio' = [radio EXCEPT ![e] = ResetRadio(@)]
    /\ UNCHANGED asked

ListenUpdate(e) ==
    \/ Poll(e) \/ Handle(e) \/ SystemReset(e)
    \/ RxClear(e) \/ RxSpin(e) \/ TxMode(e) \/ TxClear(e) \/ WatchMode(e) \/ Return(e)

-----------------------------------------------------------------------------
(* A reply under way ends by itself: neither the copy of the flags, which  *)
(* is stale by the time it sends the radio back to receive, nor the watch  *)
(* over a hanging radio cuts it off (update.c:161-194).                    *)
ReplyNotCut ==
    [][\A e \in Edge : Transmitting(e) =>
          \/ radio'[e].mode = "tx"
          \/ radio'[e].mode = "standby" /\ radio'[e].txdone]_<<radio, edgeVars>>

(* The end of a reply is never missed: an edge that looks at the flags     *)
(* while its radio stands by finds the one that puts it back to receive    *)
(* (update.c:161-183).                                                     *)
EndOfReplySeen ==
    \A e \in Edge : edge[e].pc = "poll" /\ radio[e].mode = "standby" => radio[e].txdone

(* An edge that answers listens again, its radio hung or not               *)
(* (update.c:171-194).                                                     *)
ListensAgain ==
    \A e \in Edge : edge[e].pc \in {"rx_clear", "rx_spin"} /\ radio[e].mode # "rx"
                        ~> radio[e].mode = "rx" \/ edge[e].pc = "away"

(* update.c:212: "Reset if no lora coms for 20 seconds": a node that is    *)
(* not spoken to does not stay where it is.                                *)
SilentEdgeResets ==
    \A e \in Edge : edge[e].pc = "rx_spin" ~> edge[e].pc # "rx_spin"
=============================================================================
