----------------------------- MODULE EdgeProofs -----------------------------
(***************************************************************************)
(* Lemmas about Listener, whoever else is on the channel: what an edge     *)
(* believes of its radio between two looks at it, step by step.            *)
(***************************************************************************)
EXTENDS Listener, TLAPS

(* What the place s of the program says of the radio r, and the other way  *)
(* round.  The first three: the end of a reply is announced by its flag    *)
(* until the pass that puts the radio back to receive.                     *)
EndAnnounced(r, s) ==
    /\ r.mode = "standby" /\ s.pc # "away" => r.txdone
    /\ r.txdone => r.mode = "standby" \/ (r.mode = "rx" /\ s.pc = "tx_clear")

(* The copy of the flags has the end of a reply only where the pass acts   *)
(* on it, and the radio has then been standing by ever since.              *)
CopyIsTrue(r, s) ==
    /\ s.pc = "receive" => r.mode = "rx"
    /\ s.pc \in {"receive", "rx_clear", "rx_spin"} => "tx" \notin s.flags
    /\ s.pc \in {"tx_mode", "away"} => r.mode = "standby"
    /\ s.pc = "tx_clear" => r.mode = "rx"
    /\ r.mode # "sleep"

(* A radio that does not listen has nothing new to say.                    *)
NothingHeard(r, s) ==
    r.rxdone /\ r.mode # "rx" => s.pc \in {"rx_clear", "reboot", "away"}

(* The watch over a hanging radio never has a reason during a reply: the   *)
(* time was noted when the radio still listened.                           *)
WatchIsFair(r, s) ==
    /\ r.mode = "rx" /\ s.pc \in {"poll", "receive"} => ~s.lag
    /\ r.mode = "tx" /\ ~r.hung => ~s.lag

Agrees(r, s) ==
    EndAnnounced(r, s) /\ CopyIsTrue(r, s) /\ NothingHeard(r, s) /\ WatchIsFair(r, s)

ListenerInv ==
    RadioTypeOK /\ EdgeTypeOK /\ \A e \in Edge : Agrees(radio[e], edge[e])

-----------------------------------------------------------------------------
RadioState == [mode : Mode, hung : BOOLEAN, rxdone : BOOLEAN, txdone : BOOLEAN,
               fifo : Frame]

EdgeState == [pc : EdgePC, flags : SUBSET {"rx", "tx"}, tracker : SUBSET Slot,
              fresh : BOOLEAN, lag : BOOLEAN]

AskedOK == asked \in [Edge -> [Slot -> {"unasked", "firmware", "garbled", "stack"}]]

(* A radio that sends goes on, or has ended and says so.                   *)
NotCut(before, after) ==
    before.mode = "tx" /\ ~before.hung =>
        after.mode = "tx" \/ (after.mode = "standby" /\ after.txdone)

(* A step of the edge e, and what every such step respects.                *)
OwnStep(e, r, s) ==
    /\ radio' = [radio EXCEPT ![e] = r]
    /\ edge' = [edge EXCEPT ![e] = s]
    /\ Agrees(r, s)
    /\ NotCut(radio[e], r)

RespectfulStep(e) ==
    AskedOK' /\ \E r \in RadioState, s \in EdgeState : OwnStep(e, r, s)

LEMMA ParsTypes ==
    ASSUME ListenerInv, NEW e \in Edge
    PROVE  /\ radio[e] \in RadioState /\ edge[e] \in EdgeState
           /\ radio \in [Node -> RadioState] /\ edge \in [Edge -> EdgeState]
           /\ AskedOK /\ e \in Node /\ Agrees(radio[e], edge[e])
  BY EdgeAssumption DEF ListenerInv, RadioTypeOK, EdgeTypeOK, RadioState,
     EdgeState, AskedOK

(* A step that leaves the radio alone, or the edge.                        *)
LEMMA EdgeOnly ==
    ASSUME ListenerInv, NEW e \in Edge, NEW s \in EdgeState,
           edge' = [edge EXCEPT ![e] = s], radio' = radio, asked' = asked,
           Agrees(radio[e], s)
    PROVE  RespectfulStep(e)
  <1>1. radio' = [radio EXCEPT ![e] = radio[e]] /\ radio[e] \in RadioState /\ AskedOK'
    BY ParsTypes DEF AskedOK
  <1>2. NotCut(radio[e], radio[e])
    BY DEF NotCut
  <1> QED BY <1>1, <1>2 DEF RespectfulStep, OwnStep

LEMMA RadioAndEdge ==
    ASSUME ListenerInv, NEW e \in Edge, NEW r \in RadioState, NEW s \in EdgeState,
           radio' = [radio EXCEPT ![e] = r], edge' = [edge EXCEPT ![e] = s], AskedOK',
           Agrees(r, s), NotCut(radio[e], r)
    PROVE  RespectfulStep(e)
  BY DEF RespectfulStep, OwnStep

-----------------------------------------------------------------------------
LEMMA PollRespects ==
    ASSUME ListenerInv, NEW e \in Edge, Poll(e) PROVE RespectfulStep(e)
  <1> DEFINE flags == {f \in {"rx", "tx"} :
                         IF f = "rx" THEN radio[e].rxdone ELSE radio[e].txdone}
             next == IF "rx" \in flags THEN "receive" ELSE AfterReceive(flags)
             s == [edge[e] EXCEPT !.flags = flags, !.pc = next]
  <1>1. /\ edge' = [edge EXCEPT ![e] = s] /\ edge[e].pc = "poll"
        /\ radio' = radio /\ asked' = asked
    BY ParsTypes DEF Poll
  <1>2. s \in EdgeState /\ next \in {"receive", "tx_mode", "watch"}
    BY ParsTypes DEF EdgeState, EdgePC, AfterReceive
  <1>3. ("rx" \in flags <=> radio[e].rxdone) /\ ("tx" \in flags <=> radio[e].txdone)
    OBVIOUS
  <1>4. Agrees(radio[e], s)
    BY <1>1, <1>2, <1>3, ParsTypes
       DEF Agrees, EndAnnounced, CopyIsTrue, NothingHeard, WatchIsFair, EdgeState,
           RadioState, AfterReceive, Mode
  <1> QED BY <1>1, <1>2, <1>4, EdgeOnly

(* What a command leaves behind: a reply under way and the pass going on.  *)
LEMMA ReplyRespects ==
    ASSUME ListenerInv, NEW e \in Edge, edge[e].pc = "receive", NEW frame \in Frame,
           radio' = [radio EXCEPT ![e] = SX1276_send_message(@, frame)],
           NEW pc \in {"rx_clear", "reboot"}, NEW tracker \in SUBSET Slot,
           NEW fresh \in BOOLEAN,
           edge' = [edge EXCEPT ![e] = [edge[e] EXCEPT !.tracker = tracker,
                                          !.fresh = fresh, !.pc = pc]],
           AskedOK'
    PROVE  RespectfulStep(e)
  <1> DEFINE r == [radio[e] EXCEPT !.fifo = frame, !.mode = "tx"]
             s == [edge[e] EXCEPT !.tracker = tracker, !.fresh = fresh, !.pc = pc]
  <1>1. radio' = [radio EXCEPT ![e] = r]
    BY DEF SX1276_send_message
  <1>2. /\ r \in RadioState
        /\ s \in EdgeState
    <2>1. r \in RadioState
      BY ParsTypes DEF RadioState, Mode
    <2>2. s \in EdgeState
      BY ParsTypes DEF EdgeState, EdgePC
    <2> QED BY <2>1, <2>2
  <1>3. Agrees(r, s) /\ NotCut(radio[e], r)
    BY ParsTypes DEF Agrees, EndAnnounced, CopyIsTrue, NothingHeard, WatchIsFair,
       EdgeState, RadioState, NotCut
  <1> QED BY <1>1, <1>2, <1>3, RadioAndEdge

LEMMA MessageFacts ==
    ASSUME ListenerInv, NEW e \in Edge, ForMe(e)
    PROVE  /\ edge[e].pc = "receive" /\ message(e) \in Frame
           /\ message(e).cmd = 1 =>
                /\ message(e).byte2 \in Slot
                /\ message(e).body \in {"none", "firmware", "garbled"}
           /\ message(e).cmd \in {1, 3, 4} =>
                [id |-> message(e).id, cmd |-> message(e).cmd, byte2 |-> 1,
                 body |-> "none"] \in Frame
           /\ message(e).cmd = 2 => \A byte2 \in {0, 2} :
                [id |-> message(e).id, cmd |-> 2, byte2 |-> byte2, body |-> "none"] \in Frame
  <1>1. message(e) \in Frame
    BY ParsTypes DEF message, SX1276_receive_message, RadioState
  <1> QED BY <1>1, FrameAssumption DEF ForMe

LEMMA UpdateSlotRespects ==
    ASSUME ListenerInv, NEW e \in Edge, UpdateSlot(e) PROVE RespectfulStep(e)
  <1> DEFINE reply == [id |-> message(e).id, cmd |-> message(e).cmd, byte2 |-> 1,
                       body |-> "none"]
             tracker == edge[e].tracker \cup {message(e).cmd}
             what == IF message(e).body = "none" THEN "stack" ELSE message(e).body
  <1>1. ForMe(e) /\ message(e).cmd = 1
    BY DEF UpdateSlot
  <1>2. reply \in Frame /\ tracker \in SUBSET Slot
    BY <1>1, MessageFacts, ParsTypes, FrameAssumption DEF EdgeState
  <1>3. AskedOK'
    <2>1. asked' = [asked EXCEPT ![e][message(e).byte2] = what]
      BY DEF UpdateSlot
    <2>2. what \in {"unasked", "firmware", "garbled", "stack"} /\ message(e).byte2 \in Slot
      BY <1>1, MessageFacts
    <2> QED BY <2>1, <2>2, ParsTypes DEF AskedOK
  <1>4. /\ radio' = [radio EXCEPT ![e] = SX1276_send_message(@, reply)]
        /\ edge' = [edge EXCEPT ![e] = [edge[e] EXCEPT !.tracker = tracker,
                                          !.fresh = TRUE, !.pc = "rx_clear"]]
    BY ParsTypes DEF UpdateSlot, Reply
  <1> QED BY <1>1, <1>2, <1>3, <1>4, MessageFacts, ReplyRespects

LEMMA MissingSlotsRespects ==
    ASSUME ListenerInv, NEW e \in Edge, MissingSlots(e) PROVE RespectfulStep(e)
  <1> DEFINE status == IF edge[e].tracker = {} THEN 0 ELSE 2
             reply == [id |-> message(e).id, cmd |-> message(e).cmd, byte2 |-> status,
                       body |-> "none"]
  <1>1. ForMe(e) /\ message(e).cmd = 2
    BY DEF MissingSlots
  <1>2. reply \in Frame
    BY <1>1, MessageFacts
  <1>3. AskedOK' /\ edge[e].tracker \in SUBSET Slot
    BY ParsTypes DEF AskedOK, MissingSlots, EdgeState
  <1>4. /\ radio' = [radio EXCEPT ![e] = SX1276_send_message(@, reply)]
        /\ edge' = [edge EXCEPT ![e] = [edge[e] EXCEPT !.tracker = edge[e].tracker,
                                          !.fresh = TRUE, !.pc = "rx_clear"]]
    BY ParsTypes DEF MissingSlots, Reply, EdgeState
  <1> QED BY <1>1, <1>2, <1>3, <1>4, MessageFacts, ReplyRespects

LEMMA EraseAppRespects ==
    ASSUME ListenerInv, NEW e \in Edge, EraseApp(e) PROVE RespectfulStep(e)
  <1> DEFINE reply == [id |-> message(e).id, cmd |-> message(e).cmd, byte2 |-> 1,
                       body |-> "none"]
  <1>1. ForMe(e) /\ message(e).cmd = 3
    BY DEF EraseApp
  <1>2. reply \in Frame
    BY <1>1, MessageFacts
  <1>3. AskedOK'
    BY ParsTypes DEF AskedOK, EraseApp
  <1>4. /\ radio' = [radio EXCEPT ![e] = SX1276_send_message(@, reply)]
        /\ edge' = [edge EXCEPT ![e] = [edge[e] EXCEPT !.tracker = {},
                                          !.fresh = TRUE, !.pc = "rx_clear"]]
    BY ParsTypes DEF EraseApp, Reply
  <1> QED BY <1>1, <1>2, <1>3, <1>4, MessageFacts, ReplyRespects

LEMMA RebootRespects ==
    ASSUME ListenerInv, NEW e \in Edge, Reboot(e) PROVE RespectfulStep(e)
  <1> DEFINE reply == [id |-> message(e).id, cmd |-> message(e).cmd, byte2 |-> 1,
                       body |-> "none"]
  <1>1. ForMe(e) /\ message(e).cmd = 4
    BY DEF Reboot
  <1>2. reply \in Frame
    BY <1>1, MessageFacts
  <1>3. AskedOK' /\ edge[e].tracker \in SUBSET Slot /\ edge[e].fresh \in BOOLEAN
    BY ParsTypes DEF AskedOK, Reboot, EdgeState
  <1>4. /\ radio' = [radio EXCEPT ![e] = SX1276_send_message(@, reply)]
        /\ edge' = [edge EXCEPT ![e] = [edge[e] EXCEPT !.tracker = edge[e].tracker,
                                          !.fresh = edge[e].fresh, !.pc = "reboot"]]
    BY ParsTypes DEF Reboot, Reply, EdgeState
  <1> QED BY <1>1, <1>2, <1>3, <1>4, MessageFacts, ReplyRespects

(* The steps that only move the program on, or only note the time.         *)
LEMMA IgnoreRespects ==
    ASSUME ListenerInv, NEW e \in Edge, Ignore(e) PROVE RespectfulStep(e)
  <1> DEFINE s == [edge[e] EXCEPT !.pc = "rx_clear"]
  <1>1. edge' = [edge EXCEPT ![e] = s] /\ edge[e].pc = "receive"
        /\ radio' = radio /\ asked' = asked
    BY ParsTypes DEF Ignore, Goto
  <1>2. s \in EdgeState
    BY ParsTypes DEF EdgeState, EdgePC
  <1>3. Agrees(radio[e], s)
    BY <1>1, ParsTypes DEF Agrees, EndAnnounced, CopyIsTrue, NothingHeard, WatchIsFair,
       EdgeState
  <1> QED BY <1>1, <1>2, <1>3, EdgeOnly

LEMMA RxSpinRespects ==
    ASSUME ListenerInv, NEW e \in Edge, RxSpin(e) PROVE RespectfulStep(e)
  <1> DEFINE s == [edge[e] EXCEPT !.pc = "watch"]
  <1>1. edge[e].pc = "rx_spin" /\ radio' = radio /\ asked' = asked
    BY DEF RxSpin, Goto
  <1>2. edge' = [edge EXCEPT ![e] = s]
    BY <1>1, ParsTypes DEF RxSpin, Goto, AfterReceive, Agrees, CopyIsTrue
  <1>3. s \in EdgeState
    BY ParsTypes DEF EdgeState, EdgePC
  <1>4. Agrees(radio[e], s)
    BY <1>1, ParsTypes DEF Agrees, EndAnnounced, CopyIsTrue, NothingHeard, WatchIsFair,
       EdgeState
  <1> QED BY <1>1, <1>2, <1>3, <1>4, EdgeOnly

LEMMA LagRespects ==
    ASSUME ListenerInv, NEW e \in Edge, Lag(e) PROVE RespectfulStep(e)
  <1> DEFINE s == [edge[e] EXCEPT !.lag = TRUE]
  <1>1. edge' = [edge EXCEPT ![e] = s] /\ radio' = radio /\ asked' = asked
        /\ radio[e].mode # "rx" /\ ~Transmitting(e)
    BY ParsTypes DEF Lag
  <1>2. s \in EdgeState
    BY ParsTypes DEF EdgeState
  <1>3. Agrees(radio[e], s)
    BY <1>1, ParsTypes DEF Agrees, EndAnnounced, CopyIsTrue, NothingHeard, WatchIsFair,
       EdgeState, Transmitting
  <1> QED BY <1>1, <1>2, <1>3, EdgeOnly

LEMMA SilenceRespects ==
    ASSUME ListenerInv, NEW e \in Edge, Silence(e) PROVE RespectfulStep(e)
  <1> DEFINE s == [edge[e] EXCEPT !.fresh = FALSE]
  <1>1. edge' = [edge EXCEPT ![e] = s] /\ radio' = radio /\ asked' = asked
    BY ParsTypes DEF Silence
  <1>2. s \in EdgeState
    BY ParsTypes DEF EdgeState
  <1>3. Agrees(radio[e], s)
    BY <1>1, ParsTypes DEF Agrees, EndAnnounced, CopyIsTrue, NothingHeard, WatchIsFair,
       EdgeState
  <1> QED BY <1>1, <1>2, <1>3, EdgeOnly

(* The steps that work on the radio.                                       *)
LEMMA SystemResetRespects ==
    ASSUME ListenerInv, NEW e \in Edge, SystemReset(e) PROVE RespectfulStep(e)
  <1> DEFINE r == [radio[e] EXCEPT !.mode = "standby"]
             s == [edge[e] EXCEPT !.pc = "away"]
  <1>1. /\ radio' = [radio EXCEPT ![e] = r]
        /\ edge' = [edge EXCEPT ![e] = s]
        /\ edge[e].pc = "reboot" /\ ~Transmitting(e) /\ asked' = asked
    BY ParsTypes DEF SystemReset, Goto
  <1>2. r \in RadioState
    BY ParsTypes DEF RadioState, Mode
  <1>3. s \in EdgeState
    BY ParsTypes DEF EdgeState, EdgePC
  <1>4. AskedOK'
    BY <1>1, ParsTypes DEF AskedOK
  <1>5. Agrees(r, s) /\ NotCut(radio[e], r)
    BY <1>1, ParsTypes DEF Agrees, EndAnnounced, CopyIsTrue, NothingHeard, WatchIsFair,
       EdgeState, RadioState, NotCut, Transmitting
  <1> QED BY <1>1, <1>2, <1>3, <1>4, <1>5, RadioAndEdge

LEMMA RxClearRespects ==
    ASSUME ListenerInv, NEW e \in Edge, RxClear(e) PROVE RespectfulStep(e)
  <1> DEFINE r == [radio[e] EXCEPT !.rxdone = FALSE]
             s == [edge[e] EXCEPT !.pc = "rx_spin"]
  <1>1. /\ radio' = [radio EXCEPT ![e] = r]
        /\ edge' = [edge EXCEPT ![e] = s]
        /\ edge[e].pc = "rx_clear" /\ asked' = asked
    BY ParsTypes DEF RxClear, Goto, SX1276_clear_recieve_done_flag
  <1>2. r \in RadioState
    BY ParsTypes DEF RadioState, Mode
  <1>3. s \in EdgeState
    BY ParsTypes DEF EdgeState, EdgePC
  <1>4. AskedOK'
    BY <1>1, ParsTypes DEF AskedOK
  <1>5. Agrees(r, s) /\ NotCut(radio[e], r)
    BY <1>1, ParsTypes DEF Agrees, EndAnnounced, CopyIsTrue, NothingHeard, WatchIsFair,
       EdgeState, RadioState, NotCut
  <1> QED BY <1>1, <1>2, <1>3, <1>4, <1>5, RadioAndEdge

LEMMA TxModeRespects ==
    ASSUME ListenerInv, NEW e \in Edge, TxMode(e) PROVE RespectfulStep(e)
  <1> DEFINE r == [radio[e] EXCEPT !.mode = "rx"]
             s == [edge[e] EXCEPT !.pc = "tx_clear"]
  <1>1. /\ radio' = [radio EXCEPT ![e] = r]
        /\ edge' = [edge EXCEPT ![e] = s]
        /\ edge[e].pc = "tx_mode" /\ asked' = asked
    BY ParsTypes DEF TxMode, Goto, SX1276_set_device_mode
  <1>2. r \in RadioState
    BY ParsTypes DEF RadioState, Mode
  <1>3. s \in EdgeState
    BY ParsTypes DEF EdgeState, EdgePC
  <1>4. AskedOK'
    BY <1>1, ParsTypes DEF AskedOK
  <1>5. Agrees(r, s) /\ NotCut(radio[e], r)
    BY <1>1, ParsTypes DEF Agrees, EndAnnounced, CopyIsTrue, NothingHeard, WatchIsFair,
       EdgeState, RadioState, NotCut
  <1> QED BY <1>1, <1>2, <1>3, <1>4, <1>5, RadioAndEdge

LEMMA TxClearRespects ==
    ASSUME ListenerInv, NEW e \in Edge, TxClear(e) PROVE RespectfulStep(e)
  <1> DEFINE r == [radio[e] EXCEPT !.txdone = FALSE]
             s == [edge[e] EXCEPT !.pc = "watch"]
  <1>1. /\ radio' = [radio EXCEPT ![e] = r]
        /\ edge' = [edge EXCEPT ![e] = s]
        /\ edge[e].pc = "tx_clear" /\ asked' = asked
    BY ParsTypes DEF TxClear, Goto, SX1276_clear_transmit_done_flag
  <1>2. r \in RadioState
    BY ParsTypes DEF RadioState, Mode
  <1>3. s \in EdgeState
    BY ParsTypes DEF EdgeState, EdgePC
  <1>4. AskedOK'
    BY <1>1, ParsTypes DEF AskedOK
  <1>5. Agrees(r, s) /\ NotCut(radio[e], r)
    BY <1>1, ParsTypes DEF Agrees, EndAnnounced, CopyIsTrue, NothingHeard, WatchIsFair,
       EdgeState, RadioState, NotCut
  <1> QED BY <1>1, <1>2, <1>3, <1>4, <1>5, RadioAndEdge

LEMMA ReturnRespects ==
    ASSUME ListenerInv, NEW e \in Edge, Return(e) PROVE RespectfulStep(e)
  <1> DEFINE r == [radio[e] EXCEPT !.mode = "rx", !.hung = FALSE, !.rxdone = FALSE,
                                    !.txdone = FALSE]
             s == [edge[e] EXCEPT !.pc = "poll", !.flags = {}, !.tracker = {},
                                   !.fresh = TRUE, !.lag = FALSE]
  <1>1. /\ radio' = [radio EXCEPT ![e] = r]
        /\ edge' = [edge EXCEPT ![e] = s]
        /\ edge[e].pc = "away" /\ asked' = asked
    BY ParsTypes DEF Return, ResetRadio
  <1>2. r \in RadioState
    BY ParsTypes DEF RadioState, Mode
  <1>3. s \in EdgeState
    BY ParsTypes DEF EdgeState, EdgePC
  <1>4. AskedOK'
    BY <1>1, ParsTypes DEF AskedOK
  <1>5. Agrees(r, s) /\ NotCut(radio[e], r)
    BY <1>1, ParsTypes DEF Agrees, EndAnnounced, CopyIsTrue, NothingHeard, WatchIsFair,
       EdgeState, RadioState, NotCut
  <1> QED BY <1>1, <1>2, <1>3, <1>4, <1>5, RadioAndEdge

(* The watch resets the radio only when the time is up, and then nothing   *)
(* is being sent.                                                          *)
LEMMA WatchModeRespects ==
    ASSUME ListenerInv, NEW e \in Edge, WatchMode(e) PROVE RespectfulStep(e)
  <1> DEFINE next == IF edge[e].fresh THEN "poll" ELSE "reboot"
             s == [edge[e] EXCEPT !.lag = FALSE, !.pc = next]
             r == [radio[e] EXCEPT !.mode = "rx", !.hung = FALSE, !.rxdone = FALSE,
                                    !.txdone = FALSE]
  <1>1. edge[e].pc = "watch" /\ asked' = asked /\ edge' = [edge EXCEPT ![e] = s]
    BY ParsTypes DEF WatchMode
  <1>2. s \in EdgeState /\ s.pc \in {"poll", "reboot"} /\ ~s.lag
    BY ParsTypes DEF EdgeState, EdgePC
  <1>3. CASE radio[e].mode # "rx" /\ edge[e].lag
    <2>1. radio' = [radio EXCEPT ![e] = r]
      BY <1>3, ParsTypes DEF WatchMode, ResetRadio
    <2>2. r \in RadioState
      BY ParsTypes DEF RadioState, Mode
    <2>3. AskedOK'
      BY <1>1, ParsTypes DEF AskedOK
    <2>4. Agrees(r, s) /\ NotCut(radio[e], r)
      BY <1>1, <1>2, <1>3, ParsTypes
         DEF Agrees, EndAnnounced, CopyIsTrue, NothingHeard, WatchIsFair, EdgeState,
             RadioState, NotCut
    <2> QED BY <1>1, <1>2, <2>1, <2>2, <2>3, <2>4, RadioAndEdge
  <1>4. CASE ~(radio[e].mode # "rx" /\ edge[e].lag)
    <2>1. radio' = radio
      BY <1>4 DEF WatchMode
    <2>2. Agrees(radio[e], s)
      BY <1>1, <1>2, ParsTypes
         DEF Agrees, EndAnnounced, CopyIsTrue, NothingHeard, WatchIsFair, EdgeState
    <2> QED BY <1>1, <1>2, <2>1, <2>2, EdgeOnly
  <1> QED BY <1>3, <1>4

LEMMA EdgeStepRespects ==
    ASSUME ListenerInv, NEW e \in Edge, ListenUpdate(e) \/ Lag(e) \/ Silence(e)
    PROVE  RespectfulStep(e)
  BY PollRespects, UpdateSlotRespects, MissingSlotsRespects, EraseAppRespects,
     RebootRespects, IgnoreRespects, SystemResetRespects, RxClearRespects,
     RxSpinRespects, TxModeRespects, TxClearRespects, WatchModeRespects,
     ReturnRespects, LagRespects, SilenceRespects
     DEF ListenUpdate, Handle

-----------------------------------------------------------------------------
(* What a step is worth, whoever takes it.                                 *)
GoodStep ==
    ListenerInv' /\ \A e \in Edge : NotCut(radio[e], radio'[e])

LEMMA OwnStepIsGood ==
    ASSUME ListenerInv, NEW e \in Edge, RespectfulStep(e) PROVE GoodStep
  <1>1. PICK r \in RadioState, s \in EdgeState : OwnStep(e, r, s)
    BY DEF RespectfulStep
  <1>2. /\ radio' \in [Node -> RadioState]
        /\ edge' \in [Edge -> EdgeState]
        /\ AskedOK'
    BY <1>1, ParsTypes DEF OwnStep, RespectfulStep
  <1>3. radio'[e] = r /\ edge'[e] = s
    BY <1>1, ParsTypes DEF OwnStep
  <1>4. \A d \in Edge \ {e} : radio'[d] = radio[d] /\ edge'[d] = edge[d]
    BY <1>1, ParsTypes, EdgeAssumption DEF OwnStep
  <1>5. \A d \in Edge : Agrees(radio'[d], edge'[d])
    BY <1>1, <1>3, <1>4 DEF OwnStep, ListenerInv
  <1>6. \A d \in Edge : NotCut(radio[d], radio'[d])
    BY <1>1, <1>3, <1>4 DEF OwnStep, NotCut
  <1> QED BY <1>2, <1>5, <1>6
          DEF GoodStep, ListenerInv, RadioTypeOK, EdgeTypeOK, RadioState,
              EdgeState, AskedOK

(* The channel changes radios only, and each the way its edge expects.     *)
LEMMA ChannelStepIsGood ==
    ASSUME ListenerInv, edge' = edge, asked' = asked,
           radio' \in [Node -> RadioState],
           \A e \in Edge : Agrees(radio'[e], edge[e]) /\ NotCut(radio[e], radio'[e])
    PROVE  GoodStep
  BY DEF GoodStep, ListenerInv, RadioTypeOK, EdgeTypeOK, RadioState, Agrees,
     EndAnnounced, CopyIsTrue, NothingHeard, WatchIsFair

LEMMA TransmitHangIsGood ==
    ASSUME ListenerInv, NEW n \in Node, TransmitHang(n), UNCHANGED edgeVars PROVE GoodStep
  <1> DEFINE r == [radio[n] EXCEPT !.hung = TRUE]
  <1>1. /\ radio' = [radio EXCEPT ![n] = r]
        /\ edge' = edge /\ asked' = asked /\ radio[n].mode = "tx"
    BY DEF TransmitHang, edgeVars, Transmitting
  <1>2. radio \in [Node -> RadioState] /\ radio[n] \in RadioState
    BY DEF ListenerInv, RadioTypeOK, RadioState
  <1>3. r \in RadioState
    BY <1>2 DEF RadioState
  <1>4. radio' \in [Node -> RadioState]
    BY <1>1, <1>2, <1>3
  <1>5. \A e \in Edge : radio'[e] = IF e = n THEN r ELSE radio[e]
    BY <1>1, <1>2, EdgeAssumption
  <1>6. ASSUME NEW e \in Edge PROVE Agrees(radio'[e], edge[e]) /\ NotCut(radio[e], radio'[e])
    BY <1>1, <1>2, <1>5, ParsTypes
       DEF Agrees, EndAnnounced, CopyIsTrue, NothingHeard, WatchIsFair, EdgeState,
           RadioState, NotCut
  <1> QED BY <1>1, <1>4, <1>6, ChannelStepIsGood

LEMMA TransmitEndIsGood ==
    ASSUME ListenerInv, NEW n \in Node, TransmitEnd(n), UNCHANGED edgeVars PROVE GoodStep
  <1>1. /\ Transmitting(n) /\ edge' = edge /\ asked' = asked
    BY DEF TransmitEnd, edgeVars
  <1>2. PICK hearers \in SUBSET Listening(n), frame \in Heard(radio[n].fifo) :
           EndTransmission(n, hearers, frame)
    BY DEF TransmitEnd
  <1> DEFINE ended == [radio[n] EXCEPT !.mode = "standby", !.txdone = TRUE]
             heard(m) == [radio[m] EXCEPT !.rxdone = TRUE, !.fifo = frame]
  <1>3. radio \in [Node -> RadioState]
    BY DEF ListenerInv, RadioTypeOK, RadioState
  <1>4. frame \in Frame
    BY <1>2, <1>3, FrameAssumption DEF RadioState
  <1>5. ended \in RadioState /\ \A m \in Node : heard(m) \in RadioState
    BY <1>3, <1>4 DEF RadioState, Mode
  <1>6. \A m \in Node : radio'[m] = IF m = n THEN ended
                                    ELSE IF m \in hearers THEN heard(m) ELSE radio[m]
    BY <1>2 DEF EndTransmission
  <1>7. radio' \in [Node -> RadioState]
    BY <1>2, <1>3, <1>5 DEF EndTransmission
  <1>8. ASSUME NEW e \in Edge PROVE Agrees(radio'[e], edge[e]) /\ NotCut(radio[e], radio'[e])
    <2>1. e \in Node /\ Agrees(radio[e], edge[e]) /\ radio[e] \in RadioState
          /\ edge[e] \in EdgeState
      BY ParsTypes
    <2>2. CASE e = n
      <3>1. radio'[e] = ended /\ radio[e].mode = "tx" /\ ~radio[e].hung
        BY <1>1, <1>6, <2>1, <2>2 DEF Transmitting
      <3> QED BY <2>1, <2>2, <3>1
              DEF Agrees, EndAnnounced, CopyIsTrue, NothingHeard, WatchIsFair, EdgeState,
                  RadioState, NotCut
    <2>3. CASE e # n /\ e \in hearers
      <3>1. radio'[e] = heard(e) /\ radio[e].mode = "rx"
        BY <1>2, <1>6, <2>1, <2>3 DEF Listening
      <3> QED BY <2>1, <3>1
              DEF Agrees, EndAnnounced, CopyIsTrue, NothingHeard, WatchIsFair, EdgeState,
                  RadioState, NotCut
    <2>4. CASE e # n /\ e \notin hearers
      <3>1. radio'[e] = radio[e]
        BY <1>6, <2>1, <2>4
      <3> QED BY <2>1, <3>1 DEF NotCut
    <2> QED BY <2>2, <2>3, <2>4
  <1> QED BY <1>1, <1>7, <1>8, ChannelStepIsGood
=============================================================================
