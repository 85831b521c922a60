-------------------------- MODULE UpdateLinkProofs --------------------------
(***************************************************************************)
(* Proofs about UpdateLink, for images of any length: the updater's loop   *)
(* with one edge is a stop-and-wait protocol, though the replies carry     *)
(* nothing that tells which packet they answer.                            *)
(***************************************************************************)
EXTENDS UpdateLink, EdgeProofs

(* One edge, called by the id the updater sends, and replies that come in  *)
(* time.  With a second edge the properties fail: it takes a reply for a   *)
(* command.                                                                *)
OneEdge ==
    /\ Timely
    /\ \E e \in Edge : Edge = {e} /\ UpdateId[e] = SenderId

Asked(e, p) == asked[e][p] # "unasked"

(* A packet heard and not yet taken out of the radio; it will be answered  *)
(* unless the edge starts anew.                                            *)
Pending(e) ==
    radio[e].rxdone /\ radio[e].mode = "rx" /\ edge[e].pc \notin {"reboot", "away"}

Answering(e) == Pending(e) \/ Transmitting(e)

(* Where the updater is, and what its radio does.                          *)
UpdaterAgrees(r) ==
    /\ upc = "wait_tx" => r.mode = "tx" \/ (r.mode = "standby" /\ r.txdone)
    /\ upc # "wait_tx" => r.mode = "rx"
    /\ r.mode = "tx" => ~r.txdone /\ r.fifo = Packet(packet)
    /\ r.txdone => upc \in {"wait_tx", "clear_tx"}
    /\ r.rxdone => upc \in {"clear_tx", "listen"}

(* Nothing but the current packet is on its way, and its reply only once   *)
(* the edge has been asked to write it.                                    *)
StopAndWait(e) ==
    /\ Answering(e) => /\ upc \in {"wait_tx", "clear_tx", "listen"}
                       /\ radio[Sender].mode # "tx" /\ ~radio[Sender].rxdone
    /\ Pending(e) => radio[e].fifo \in Heard(Packet(packet))
    /\ Transmitting(e) => Asked(e, packet)
    /\ radio[Sender].rxdone => Asked(e, packet)

(* The edge takes one message, answers it and only then listens again.     *)
OneAtATime(e) ==
    /\ edge[e].pc = "receive" => radio[e].rxdone
    /\ edge[e].pc \in {"rx_clear", "rx_spin"} => radio[e].mode # "rx"

Progress(e) ==
    /\ upc \in {"rx_spin", "delay"} => Asked(e, packet)
    /\ upc = "done" => packet > LastPacket
    /\ upc \notin {"send", "done"} => packet <= LastPacket
    /\ \A p \in 0 .. packet - 1 : Asked(e, p)
    /\ \A s \in Slot : asked[e][s] # "stack"

(* Nobody else sends.                                                      *)
Bystanders == \A n \in Node \ (Edge \cup {Sender}) : radio[n].mode = "rx"

LinkInv ==
    /\ OneEdge
    /\ ListenerInv /\ UpdaterTypeOK /\ UpdaterAgrees(radio[Sender]) /\ Bystanders
    /\ \A e \in Edge : StopAndWait(e) /\ OneAtATime(e) /\ Progress(e)

-----------------------------------------------------------------------------
LEMMA LinkTypes ==
    ASSUME LinkInv, NEW e \in Edge
    PROVE  /\ Timely /\ Edge = {e} /\ UpdateId[e] = SenderId
           /\ e \in Node /\ Sender \in Node /\ Sender # e
           /\ radio \in [Node -> RadioState] /\ edge \in [Edge -> EdgeState] /\ AskedOK
           /\ radio[e] \in RadioState /\ edge[e] \in EdgeState
           /\ radio[Sender] \in RadioState /\ Agrees(radio[e], edge[e])
           /\ packet \in Nat /\ packet \in 0 .. PacketValues - 1 /\ LastPacket \in Nat
  <1>1. ListenerInv /\ UpdaterTypeOK
    BY DEF LinkInv
  <1>2. Timely /\ Edge = {e} /\ UpdateId[e] = SenderId
    BY DEF LinkInv, OneEdge
  <1>3. radio \in [Node -> RadioState] /\ Sender \in Node /\ Sender # e
    BY <1>1, ParsTypes, SenderAssumption, SenderIsNoEdge
  <1>4. packet \in Nat /\ packet \in 0 .. PacketValues - 1 /\ LastPacket \in Nat
    BY <1>1, PacketAssumption DEF UpdaterTypeOK
  <1> QED BY <1>1, <1>2, <1>3, <1>4, ParsTypes

LEMMA LinkParts ==
    ASSUME LinkInv, NEW e \in Edge
    PROVE  /\ ListenerInv /\ UpdaterTypeOK /\ UpdaterAgrees(radio[Sender]) /\ Bystanders
           /\ StopAndWait(e) /\ OneAtATime(e) /\ Progress(e)
  BY DEF LinkInv

(* A step of the edge in which no reply begins and nothing is heard.       *)
QuietStep(e) ==
    /\ \A n \in Node \ {e} : radio'[n] = radio[n]
    /\ asked' = asked
    /\ Transmitting(e)' => Transmitting(e)
    /\ Pending(e)' => Pending(e) /\ radio'[e].fifo = radio[e].fifo
    /\ OneAtATime(e)'

LEMMA QuietStepKeepsLink ==
    ASSUME LinkInv, NEW e \in Edge, QuietStep(e), ListenerInv', UNCHANGED updaterVars
    PROVE  LinkInv'
  <1>1. upc' = upc /\ packet' = packet /\ asked' = asked /\ radio'[Sender] = radio[Sender]
    BY LinkTypes DEF QuietStep, updaterVars
  <1>2. OneEdge' /\ UpdaterTypeOK' /\ UpdaterAgrees(radio[Sender])'
    BY <1>1 DEF LinkInv, OneEdge, UpdaterTypeOK, UpdaterAgrees, Packet
  <1>3. Bystanders'
    BY LinkParts, LinkTypes DEF Bystanders, QuietStep
  <1>4. StopAndWait(e)'
    BY <1>1, LinkParts DEF QuietStep, StopAndWait, Answering, Asked, Heard, Packet
  <1>5. Progress(e)'
    BY <1>1, LinkParts DEF Progress, Asked
  <1>6. \A d \in Edge : d = e
    BY LinkTypes
  <1> QED BY <1>2, <1>3, <1>4, <1>5, <1>6 DEF LinkInv, QuietStep

-----------------------------------------------------------------------------
(* The message the edge has before it is the updater's current packet.     *)
LEMMA MessageIsPacket ==
    ASSUME LinkInv, NEW e \in Edge, edge[e].pc = "receive"
    PROVE  /\ Pending(e) /\ ForMe(e) /\ radio[e].fifo \in Frame
           /\ message(e).id = SenderId /\ message(e).cmd = 1 /\ message(e).byte2 = packet
           /\ message(e).body \in {"firmware", "garbled"}
  <1>1. Pending(e)
    BY LinkTypes, LinkParts DEF Pending, OneAtATime, Agrees, CopyIsTrue
  <1>2. radio[e].fifo \in Heard(Packet(packet)) /\ radio[e].fifo \in Frame
    BY <1>1, LinkTypes, LinkParts DEF StopAndWait, RadioState
  <1>3. /\ radio[e].fifo.id = SenderId /\ radio[e].fifo.cmd = 1
        /\ radio[e].fifo.byte2 = packet /\ radio[e].fifo.body \in {"firmware", "garbled"}
    BY <1>2 DEF Heard, Packet
  <1> QED BY <1>1, <1>2, <1>3, LinkTypes DEF message, SX1276_receive_message, ForMe

LEMMA UpdateSlotFacts ==
    ASSUME LinkInv, NEW e \in Edge, UpdateSlot(e)
    PROVE  /\ packet \in Slot /\ packet <= LastPacket /\ upc # "done"
           /\ \E what \in {"firmware", "garbled"} :
                 asked'[e] = [asked[e] EXCEPT ![packet] = what]
  <1> DEFINE what == IF message(e).body = "none" THEN "stack" ELSE message(e).body
  <1>1. /\ edge[e].pc = "receive"
        /\ asked' = [asked EXCEPT ![e][message(e).byte2] = what]
    BY DEF UpdateSlot, ForMe
  <1>2. message(e).byte2 = packet /\ what \in {"firmware", "garbled"} /\ packet \in Slot
    BY <1>1, MessageIsPacket, MessageFacts, LinkParts DEF UpdateSlot
  <1>3. asked'[e] = [asked[e] EXCEPT ![packet] = what]
    BY <1>1, <1>2, LinkTypes DEF AskedOK
  <1>4. upc \in {"wait_tx", "clear_tx", "listen"} /\ packet <= LastPacket
    <2>1. Pending(e)
      BY <1>1, MessageIsPacket
    <2> QED BY <2>1, LinkParts DEF StopAndWait, Answering, Progress
  <1> QED BY <1>2, <1>3, <1>4

LEMMA UpdateSlotKeepsLink ==
    ASSUME LinkInv, NEW e \in Edge, UpdateSlot(e), ListenerInv', UNCHANGED updaterVars
    PROVE  LinkInv'
  <1>1. edge[e].pc = "receive" /\ upc' = upc /\ packet' = packet
    BY DEF UpdateSlot, ForMe, updaterVars
  <1>2. /\ \A n \in Node \ {e} : radio'[n] = radio[n]
        /\ radio'[e].mode = "tx" /\ radio'[Sender] = radio[Sender]
    BY LinkTypes DEF UpdateSlot, Reply, SX1276_send_message, RadioState
  <1>3. edge'[e].pc = "rx_clear"
    BY LinkTypes DEF UpdateSlot, EdgeState
  <1>4. PICK what \in {"firmware", "garbled"} :
           asked'[e] = [asked[e] EXCEPT ![packet] = what]
    BY UpdateSlotFacts
  <1>5. Asked(e, packet)'
    BY <1>1, <1>4, UpdateSlotFacts, LinkTypes DEF Asked, AskedOK
  <1>6. OneEdge' /\ UpdaterTypeOK' /\ UpdaterAgrees(radio[Sender])'
    BY <1>1, <1>2 DEF LinkInv, OneEdge, UpdaterTypeOK, UpdaterAgrees, Packet
  <1>7. Bystanders'
    BY <1>2, LinkParts, LinkTypes DEF Bystanders
  <1>8. StopAndWait(e)'
    <2>1. Pending(e)
      BY <1>1, MessageIsPacket
    <2>2. ~Pending(e)'
      BY <1>2 DEF Pending
    <2> QED BY <1>1, <1>2, <1>5, <2>1, <2>2, LinkParts DEF StopAndWait, Answering
  <1>9. OneAtATime(e)'
    BY <1>2, <1>3 DEF OneAtATime
  <1>10. Progress(e)'
    BY <1>1, <1>4, UpdateSlotFacts, LinkParts, LinkTypes DEF Progress, Asked, AskedOK
  <1>11. \A d \in Edge : d = e
    BY LinkTypes
  <1> QED BY <1>6, <1>7, <1>8, <1>9, <1>10, <1>11 DEF LinkInv

-----------------------------------------------------------------------------
(* The other steps of the edge: from the new states r of its radio and t   *)
(* of its program.                                                         *)
LEMMA QuietStepFrom ==
    ASSUME LinkInv, NEW e \in Edge, NEW r, NEW t,
           radio' = [radio EXCEPT ![e] = r], edge' = [edge EXCEPT ![e] = t],
           asked' = asked,
           r.mode = "tx" /\ ~r.hung => Transmitting(e),
           r.rxdone /\ r.mode = "rx" /\ t.pc \notin {"reboot", "away"} =>
             Pending(e) /\ r.fifo = radio[e].fifo,
           t.pc = "receive" => r.rxdone,
           t.pc \in {"rx_clear", "rx_spin"} => r.mode # "rx"
    PROVE  QuietStep(e)
  <1>1. radio'[e] = r /\ edge'[e] = t /\ \A n \in Node \ {e} : radio'[n] = radio[n]
    BY LinkTypes
  <1> QED BY <1>1 DEF QuietStep, OneAtATime, Transmitting, Pending

LEMMA PollIsQuiet ==
    ASSUME LinkInv, NEW e \in Edge, Poll(e) PROVE QuietStep(e)
  <1> DEFINE flags == {f \in {"rx", "tx"} :
                         IF f = "rx" THEN radio[e].rxdone ELSE radio[e].txdone}
             next == IF "rx" \in flags THEN "receive" ELSE AfterReceive(flags)
             t == [edge[e] EXCEPT !.flags = flags, !.pc = next]
  <1>1. /\ edge' = [edge EXCEPT ![e] = t] /\ edge[e].pc = "poll" /\ asked' = asked
        /\ radio' = [radio EXCEPT ![e] = radio[e]]
    BY LinkTypes DEF Poll
  <1>2. t.pc = next /\ next \in {"receive", "tx_mode", "watch"}
    BY LinkTypes DEF EdgeState, AfterReceive
  <1>3. next = "receive" => radio[e].rxdone
    BY DEF AfterReceive
  <1> HIDE DEF t, next
  <1> QED BY <1>1, <1>2, <1>3, QuietStepFrom DEF Transmitting, Pending

LEMMA SystemResetIsQuiet ==
    ASSUME LinkInv, NEW e \in Edge, SystemReset(e) PROVE QuietStep(e)
  <1> DEFINE r == [radio[e] EXCEPT !.mode = "standby"]
             t == [edge[e] EXCEPT !.pc = "away"]
  <1>1. radio' = [radio EXCEPT ![e] = r] /\ edge' = [edge EXCEPT ![e] = t] /\ asked' = asked
    BY LinkTypes DEF SystemReset, Goto
  <1>2. r.mode = "standby" /\ t.pc = "away"
    BY LinkTypes DEF RadioState, EdgeState
  <1> HIDE DEF r, t
  <1> QED BY <1>1, <1>2, QuietStepFrom

LEMMA RxClearIsQuiet ==
    ASSUME LinkInv, NEW e \in Edge, RxClear(e) PROVE QuietStep(e)
  <1> DEFINE r == [radio[e] EXCEPT !.rxdone = FALSE]
             t == [edge[e] EXCEPT !.pc = "rx_spin"]
  <1>1. /\ radio' = [radio EXCEPT ![e] = r] /\ edge' = [edge EXCEPT ![e] = t]
        /\ asked' = asked /\ edge[e].pc = "rx_clear"
    BY LinkTypes DEF RxClear, Goto, SX1276_clear_recieve_done_flag
  <1>2. /\ r.mode = radio[e].mode /\ r.hung = radio[e].hung /\ ~r.rxdone
        /\ t.pc = "rx_spin" /\ radio[e].mode # "rx"
    BY <1>1, LinkTypes, LinkParts DEF RadioState, EdgeState, OneAtATime
  <1> HIDE DEF r, t
  <1> QED BY <1>1, <1>2, QuietStepFrom DEF Transmitting

LEMMA RxSpinIsQuiet ==
    ASSUME LinkInv, NEW e \in Edge, RxSpin(e) PROVE QuietStep(e)
  <1> DEFINE next == AfterReceive(edge[e].flags)
             t == [edge[e] EXCEPT !.pc = next]
  <1>1. /\ edge' = [edge EXCEPT ![e] = t] /\ asked' = asked /\ ~radio[e].rxdone
        /\ radio' = [radio EXCEPT ![e] = radio[e]]
    BY LinkTypes DEF RxSpin, Goto
  <1>2. t.pc \in {"tx_mode", "watch"}
    BY LinkTypes DEF EdgeState, AfterReceive
  <1> HIDE DEF t
  <1> QED BY <1>1, <1>2, QuietStepFrom DEF Transmitting

(* The radio listens again with nothing heard before still in it.          *)
LEMMA TxModeIsQuiet ==
    ASSUME LinkInv, NEW e \in Edge, TxMode(e) PROVE QuietStep(e)
  <1> DEFINE r == [radio[e] EXCEPT !.mode = "rx"]
             t == [edge[e] EXCEPT !.pc = "tx_clear"]
  <1>1. /\ radio' = [radio EXCEPT ![e] = r] /\ edge' = [edge EXCEPT ![e] = t]
        /\ asked' = asked /\ edge[e].pc = "tx_mode"
    BY LinkTypes DEF TxMode, Goto, SX1276_set_device_mode
  <1>2. ~radio[e].rxdone
    BY <1>1, LinkTypes DEF Agrees, CopyIsTrue, NothingHeard
  <1>3. r.mode = "rx" /\ ~r.rxdone /\ t.pc = "tx_clear"
    BY <1>2, LinkTypes DEF RadioState, EdgeState
  <1> HIDE DEF r, t
  <1> QED BY <1>1, <1>3, QuietStepFrom

LEMMA TxClearIsQuiet ==
    ASSUME LinkInv, NEW e \in Edge, TxClear(e) PROVE QuietStep(e)
  <1> DEFINE r == [radio[e] EXCEPT !.txdone = FALSE]
             t == [edge[e] EXCEPT !.pc = "watch"]
  <1>1. /\ radio' = [radio EXCEPT ![e] = r] /\ edge' = [edge EXCEPT ![e] = t]
        /\ asked' = asked /\ edge[e].pc = "tx_clear"
    BY LinkTypes DEF TxClear, Goto, SX1276_clear_transmit_done_flag
  <1>2. /\ r.mode = radio[e].mode /\ r.hung = radio[e].hung /\ r.rxdone = radio[e].rxdone
        /\ r.fifo = radio[e].fifo /\ t.pc = "watch"
    BY LinkTypes DEF RadioState, EdgeState
  <1> HIDE DEF r, t
  <1> QED BY <1>1, <1>2, QuietStepFrom DEF Transmitting, Pending

LEMMA WatchModeIsQuiet ==
    ASSUME LinkInv, NEW e \in Edge, WatchMode(e) PROVE QuietStep(e)
  <1> DEFINE next == IF edge[e].fresh THEN "poll" ELSE "reboot"
             t == [edge[e] EXCEPT !.lag = FALSE, !.pc = next]
             r == [radio[e] EXCEPT !.mode = "rx", !.hung = FALSE, !.rxdone = FALSE,
                                   !.txdone = FALSE]
  <1>1. edge[e].pc = "watch" /\ asked' = asked /\ edge' = [edge EXCEPT ![e] = t]
    BY LinkTypes DEF WatchMode
  <1>2. t.pc \in {"poll", "reboot"}
    BY LinkTypes DEF EdgeState
  <1>3. \/ radio' = [radio EXCEPT ![e] = r]
        \/ radio' = [radio EXCEPT ![e] = radio[e]]
    BY LinkTypes DEF WatchMode, ResetRadio
  <1>4. r.mode = "rx" /\ ~r.rxdone
    BY LinkTypes DEF RadioState
  <1> HIDE DEF r, t
  <1> QED BY <1>1, <1>2, <1>3, <1>4, QuietStepFrom DEF Transmitting, Pending

LEMMA ReturnIsQuiet ==
    ASSUME LinkInv, NEW e \in Edge, Return(e) PROVE QuietStep(e)
  <1> DEFINE r == [radio[e] EXCEPT !.mode = "rx", !.hung = FALSE, !.rxdone = FALSE,
                                   !.txdone = FALSE]
             t == [edge[e] EXCEPT !.pc = "poll", !.flags = {}, !.tracker = {},
                                  !.fresh = TRUE, !.lag = FALSE]
  <1>1. radio' = [radio EXCEPT ![e] = r] /\ edge' = [edge EXCEPT ![e] = t] /\ asked' = asked
    BY LinkTypes DEF Return, ResetRadio
  <1>2. r.mode = "rx" /\ ~r.rxdone /\ t.pc = "poll"
    BY LinkTypes DEF RadioState, EdgeState
  <1> HIDE DEF r, t
  <1> QED BY <1>1, <1>2, QuietStepFrom

(* Time passes.                                                            *)
LEMMA TimeIsQuiet ==
    ASSUME LinkInv, NEW e \in Edge, Lag(e) \/ Silence(e) PROVE QuietStep(e)
  <1>1. PICK t \in {[edge[e] EXCEPT !.lag = TRUE], [edge[e] EXCEPT !.fresh = FALSE]} :
           edge' = [edge EXCEPT ![e] = t]
    BY LinkTypes DEF Lag, Silence
  <1>2. radio' = [radio EXCEPT ![e] = radio[e]] /\ asked' = asked
    BY LinkTypes DEF Lag, Silence
  <1>3. t.pc = edge[e].pc
    BY <1>1, LinkTypes DEF EdgeState
  <1> QED BY <1>1, <1>2, <1>3, LinkParts, QuietStepFrom
          DEF Transmitting, Pending, OneAtATime

(* Of the four commands only the update's page is ever heard.              *)
LEMMA EdgeStepKinds ==
    ASSUME LinkInv, NEW e \in Edge, ListenUpdate(e) \/ Lag(e) \/ Silence(e)
    PROVE  UpdateSlot(e) \/ QuietStep(e)
  <1>1. ASSUME MissingSlots(e) \/ EraseApp(e) \/ Reboot(e) \/ Ignore(e) PROVE FALSE
    <2>1. edge[e].pc = "receive"
      BY <1>1 DEF MissingSlots, EraseApp, Reboot, Ignore, ForMe, Goto
    <2>2. message(e).id = UpdateId[e] /\ message(e).cmd = 1
      BY <2>1, MessageIsPacket, LinkTypes
    <2> QED BY <1>1, <2>2 DEF MissingSlots, EraseApp, Reboot, Ignore
  <1> QED BY <1>1, PollIsQuiet, SystemResetIsQuiet, RxClearIsQuiet, RxSpinIsQuiet,
             TxModeIsQuiet, TxClearIsQuiet, WatchModeIsQuiet, ReturnIsQuiet, TimeIsQuiet
          DEF ListenUpdate, Handle

LEMMA EdgeStepKeepsLink ==
    ASSUME LinkInv, NEW e \in Edge, ListenUpdate(e) \/ Lag(e) \/ Silence(e),
           UNCHANGED updaterVars
    PROVE  LinkInv'
  <1>1. ListenerInv'
    BY LinkParts, EdgeStepRespects, OwnStepIsGood DEF GoodStep
  <1> QED BY <1>1, EdgeStepKinds, UpdateSlotKeepsLink, QuietStepKeepsLink

-----------------------------------------------------------------------------
(* The updater's steps: what they leave alone on the edge's side.          *)
LEMMA UpdaterStepFacts ==
    ASSUME LinkInv, NEW e \in Edge, NEW r \in RadioState,
           radio' = [radio EXCEPT ![Sender] = r], UNCHANGED edgeVars
    PROVE  /\ ListenerInv' /\ Bystanders' /\ OneAtATime(e)'
           /\ radio'[e] = radio[e] /\ radio'[Sender] = r
           /\ Pending(e)' <=> Pending(e)
           /\ Transmitting(e)' <=> Transmitting(e)
           /\ asked' = asked
  <1>1. /\ radio' \in [Node -> RadioState] /\ radio'[Sender] = r
        /\ edge' = edge /\ asked' = asked
        /\ \A n \in Node \ {Sender} : radio'[n] = radio[n]
    BY LinkTypes DEF edgeVars
  <1>2. radio'[e] = radio[e] /\ \A d \in Edge : d = e
    BY <1>1, LinkTypes
  <1>3. ListenerInv'
    <2>1. \A d \in Edge : Agrees(radio'[d], edge[d]) /\ NotCut(radio[d], radio'[d])
      BY <1>2, LinkTypes DEF NotCut
    <2> QED BY <1>1, <2>1, LinkParts, ChannelStepIsGood DEF GoodStep
  <1>4. Bystanders'
    BY <1>1, LinkParts DEF Bystanders
  <1>5. OneAtATime(e)'
    BY <1>1, <1>2, LinkParts DEF OneAtATime
  <1> QED BY <1>1, <1>2, <1>3, <1>4, <1>5 DEF Pending, Transmitting

(* As long as the packet stays the same.                                   *)
LEMMA SamePacket ==
    ASSUME LinkInv, NEW e \in Edge, NEW r \in RadioState,
           radio' = [radio EXCEPT ![Sender] = r], UNCHANGED edgeVars, packet' = packet,
           Answering(e) => /\ upc' \in {"wait_tx", "clear_tx", "listen"}
                           /\ r.mode # "tx" /\ ~r.rxdone,
           r.rxdone => Asked(e, packet),
           upc' \in {"rx_spin", "delay"} => Asked(e, packet),
           upc' = "done" => packet > LastPacket,
           upc' \notin {"send", "done"} => packet <= LastPacket
    PROVE  StopAndWait(e)' /\ Progress(e)'
  <1>1. Pending(e)' => radio'[e].fifo \in Heard(Packet(packet))'
    BY UpdaterStepFacts, LinkParts DEF StopAndWait, Heard, Packet
  <1>2. StopAndWait(e)'
    <2>1. Answering(e)' <=> Answering(e)
      BY UpdaterStepFacts DEF Answering
    <2>2. Transmitting(e)' => Asked(e, packet)
      BY UpdaterStepFacts, LinkParts DEF StopAndWait
    <2>3. Asked(e, packet)' <=> Asked(e, packet)
      BY UpdaterStepFacts DEF Asked
    <2> QED BY <1>1, <2>1, <2>2, <2>3, UpdaterStepFacts DEF StopAndWait
  <1>3. Progress(e)'
    BY UpdaterStepFacts, LinkParts DEF Progress, Asked
  <1> QED BY <1>2, <1>3

LEMMA LinkFromParts ==
    ASSUME LinkInv, NEW e \in Edge, ListenerInv', UpdaterTypeOK',
           UpdaterAgrees(radio[Sender])', Bystanders', StopAndWait(e)', OneAtATime(e)',
           Progress(e)'
    PROVE  LinkInv'
  <1>1. OneEdge' /\ \A d \in Edge : d = e
    BY LinkTypes DEF LinkInv, OneEdge
  <1> QED BY <1>1 DEF LinkInv

(* While a packet is sent, nobody has anything to answer.                  *)
LEMMA SendPacketKeepsLink ==
    ASSUME LinkInv, NEW e \in Edge, SendPacket, UNCHANGED edgeVars PROVE LinkInv'
  <1> DEFINE r == [radio[Sender] EXCEPT !.fifo = Packet(packet), !.mode = "tx"]
  <1>1. /\ upc = "send" /\ packet <= LastPacket /\ upc' = "wait_tx" /\ packet' = packet
        /\ radio' = [radio EXCEPT ![Sender] = r]
    BY DEF SendPacket, SX1276_send_message
  <1>2. Packet(packet) \in Frame
    BY <1>1, LinkTypes, PacketsAreFrames
  <1>3. r \in RadioState
    BY <1>2, LinkTypes DEF RadioState, Mode
  <1>4. /\ r.mode = "tx" /\ r.fifo = Packet(packet)
        /\ r.txdone = radio[Sender].txdone /\ r.rxdone = radio[Sender].rxdone
    BY LinkTypes DEF RadioState
  <1>5. ~Answering(e) /\ ~radio[Sender].rxdone /\ ~radio[Sender].txdone
    BY <1>1, LinkParts DEF StopAndWait, UpdaterAgrees
  <1> HIDE DEF r
  <1>6. UpdaterTypeOK' /\ UpdaterAgrees(radio[Sender])'
    BY <1>1, <1>3, <1>4, <1>5, UpdaterStepFacts, LinkParts
       DEF UpdaterTypeOK, UpdaterAgrees, Packet
  <1>7. StopAndWait(e)' /\ Progress(e)'
    BY <1>1, <1>3, <1>4, <1>5, SamePacket, LinkParts
       DEF StopAndWait, Progress, UpdaterAgrees
  <1> QED BY <1>1, <1>3, <1>6, <1>7, UpdaterStepFacts, LinkFromParts

LEMMA PacketSentKeepsLink ==
    ASSUME LinkInv, NEW e \in Edge, PacketSent, UNCHANGED edgeVars PROVE LinkInv'
  <1> DEFINE r == [radio[Sender] EXCEPT !.mode = "rx"]
  <1>1. /\ upc = "wait_tx" /\ upc' = "clear_tx" /\ packet' = packet
        /\ radio' = [radio EXCEPT ![Sender] = r]
    BY DEF PacketSent, SX1276_set_device_mode
  <1>2. r \in RadioState
    BY LinkTypes DEF RadioState, Mode
  <1>3. r.mode = "rx" /\ r.txdone = radio[Sender].txdone /\ r.rxdone = radio[Sender].rxdone
    BY LinkTypes DEF RadioState
  <1> HIDE DEF r
  <1>4. UpdaterTypeOK' /\ UpdaterAgrees(radio[Sender])'
    BY <1>1, <1>2, <1>3, UpdaterStepFacts, LinkParts DEF UpdaterTypeOK, UpdaterAgrees
  <1>5. StopAndWait(e)' /\ Progress(e)'
    BY <1>1, <1>2, <1>3, SamePacket, LinkParts
       DEF StopAndWait, Progress, UpdaterAgrees
  <1> QED BY <1>1, <1>2, <1>4, <1>5, UpdaterStepFacts, LinkFromParts

LEMMA ClearTxKeepsLink ==
    ASSUME LinkInv, NEW e \in Edge, ClearTx, UNCHANGED edgeVars PROVE LinkInv'
  <1> DEFINE r == [radio[Sender] EXCEPT !.txdone = FALSE]
  <1>1. /\ upc = "clear_tx" /\ upc' = "listen" /\ packet' = packet
        /\ radio' = [radio EXCEPT ![Sender] = r]
    BY DEF ClearTx, SX1276_clear_transmit_done_flag
  <1>2. r \in RadioState
    BY LinkTypes DEF RadioState
  <1>3. r.mode = radio[Sender].mode /\ ~r.txdone /\ r.rxdone = radio[Sender].rxdone
    BY LinkTypes DEF RadioState
  <1> HIDE DEF r
  <1>4. UpdaterTypeOK' /\ UpdaterAgrees(radio[Sender])'
    BY <1>1, <1>2, <1>3, UpdaterStepFacts, LinkParts DEF UpdaterTypeOK, UpdaterAgrees
  <1>5. StopAndWait(e)' /\ Progress(e)'
    BY <1>1, <1>2, <1>3, SamePacket, LinkParts
       DEF StopAndWait, Progress, UpdaterAgrees
  <1> QED BY <1>1, <1>2, <1>4, <1>5, UpdaterStepFacts, LinkFromParts

(* The reply that is taken is the current packet's.                        *)
LEMMA HearReplyKeepsLink ==
    ASSUME LinkInv, NEW e \in Edge, HearReply, UNCHANGED edgeVars PROVE LinkInv'
  <1> DEFINE r == [radio[Sender] EXCEPT !.rxdone = FALSE]
  <1>1. /\ upc = "listen" /\ upc' = "rx_spin" /\ packet' = packet /\ radio[Sender].rxdone
        /\ radio' = [radio EXCEPT ![Sender] = r]
    BY DEF HearReply, SX1276_clear_recieve_done_flag
  <1>2. r \in RadioState
    BY LinkTypes DEF RadioState
  <1>3. r.mode = radio[Sender].mode /\ r.txdone = radio[Sender].txdone /\ ~r.rxdone
    BY LinkTypes DEF RadioState
  <1>4. ~Answering(e) /\ Asked(e, packet)
    BY <1>1, LinkParts DEF StopAndWait
  <1> HIDE DEF r
  <1>5. UpdaterTypeOK' /\ UpdaterAgrees(radio[Sender])'
    BY <1>1, <1>2, <1>3, UpdaterStepFacts, LinkParts DEF UpdaterTypeOK, UpdaterAgrees
  <1>6. StopAndWait(e)' /\ Progress(e)'
    BY <1>1, <1>2, <1>3, <1>4, SamePacket, LinkParts
       DEF StopAndWait, Progress, UpdaterAgrees
  <1> QED BY <1>1, <1>2, <1>5, <1>6, UpdaterStepFacts, LinkFromParts

LEMMA NextPacketFacts ==
    ASSUME LinkInv, NEW e \in Edge
    PROVE  NextPacket \in 0 .. PacketValues - 1 /\ NextPacket <= packet + 1
  <1>1. packet \in Nat /\ packet + 1 <= PacketValues /\ PacketValues \in Nat \ {0}
    BY LinkTypes, PacketAssumption
  <1>2. CASE packet + 1 = PacketValues
    BY <1>1, <1>2 DEF NextPacket
  <1>3. CASE packet + 1 < PacketValues
    <2>1. NextPacket = packet + 1
      BY <1>1, <1>3 DEF NextPacket
    <2> QED BY <1>1, <1>3, <2>1
  <1> QED BY <1>1, <1>2, <1>3

(* The steps that leave the radio alone.                                   *)
LEMMA AllSentKeepsLink ==
    ASSUME LinkInv, NEW e \in Edge, AllSent, UNCHANGED edgeVars PROVE LinkInv'
  <1>1. /\ upc = "send" /\ upc' = "done" /\ packet' = packet /\ packet > LastPacket
        /\ radio' = [radio EXCEPT ![Sender] = radio[Sender]]
        /\ radio[Sender] \in RadioState
    BY LinkTypes DEF AllSent
  <1>2. UpdaterTypeOK' /\ UpdaterAgrees(radio[Sender])'
    BY <1>1, UpdaterStepFacts, LinkParts DEF UpdaterTypeOK, UpdaterAgrees
  <1>3. StopAndWait(e)' /\ Progress(e)'
    BY <1>1, SamePacket, LinkParts
       DEF StopAndWait, Progress, UpdaterAgrees
  <1> QED BY <1>1, <1>2, <1>3, UpdaterStepFacts, LinkFromParts

LEMMA ReplyClearedKeepsLink ==
    ASSUME LinkInv, NEW e \in Edge, ReplyCleared, UNCHANGED edgeVars PROVE LinkInv'
  <1>1. /\ upc = "rx_spin" /\ upc' = "delay" /\ packet' = packet
        /\ radio' = [radio EXCEPT ![Sender] = radio[Sender]]
        /\ radio[Sender] \in RadioState
    BY LinkTypes DEF ReplyCleared
  <1>2. UpdaterTypeOK' /\ UpdaterAgrees(radio[Sender])'
    BY <1>1, UpdaterStepFacts, LinkParts DEF UpdaterTypeOK, UpdaterAgrees
  <1>3. StopAndWait(e)' /\ Progress(e)'
    BY <1>1, SamePacket, LinkParts
       DEF StopAndWait, Progress, UpdaterAgrees
  <1> QED BY <1>1, <1>2, <1>3, UpdaterStepFacts, LinkFromParts

LEMMA AdvanceKeepsLink ==
    ASSUME LinkInv, NEW e \in Edge, Advance, UNCHANGED edgeVars PROVE LinkInv'
  <1>1. /\ upc = "delay" /\ upc' = "send" /\ packet' = NextPacket
        /\ radio' = [radio EXCEPT ![Sender] = radio[Sender]]
        /\ radio[Sender] \in RadioState
    BY LinkTypes DEF Advance
  <1>2. ~Answering(e) /\ ~radio[Sender].rxdone /\ ~radio[Sender].txdone
        /\ radio[Sender].mode = "rx"
    BY <1>1, LinkParts DEF StopAndWait, UpdaterAgrees
  <1>3. UpdaterTypeOK' /\ UpdaterAgrees(radio[Sender])'
    BY <1>1, <1>2, UpdaterStepFacts, NextPacketFacts DEF UpdaterTypeOK, UpdaterAgrees
  <1>4. StopAndWait(e)'
    BY <1>1, <1>2, UpdaterStepFacts DEF StopAndWait, Answering
  <1>5. Progress(e)'
    <2>1. \A p \in 0 .. packet : Asked(e, p)
      BY <1>1, LinkParts, LinkTypes DEF Progress
    <2>2. \A p \in 0 .. NextPacket - 1 : p \in 0 .. packet
      BY NextPacketFacts, LinkTypes, PacketAssumption
    <2>3. asked' = asked
      BY <1>1, UpdaterStepFacts
    <2>4. \A p \in 0 .. NextPacket - 1 : asked'[e][p] # "unasked"
      BY <2>1, <2>2, <2>3 DEF Asked
    <2>5. \A s \in Slot : asked'[e][s] # "stack"
      BY <2>3, LinkParts DEF Progress
    <2> QED BY <1>1, <2>4, <2>5 DEF Progress, Asked
  <1> QED BY <1>1, <1>3, <1>4, <1>5, UpdaterStepFacts, LinkFromParts

(* The updater gives a packet up for lost when no answer can come any more,*)
(* and sends the same one again.                                           *)
LEMMA TimeoutKeepsLink ==
    ASSUME LinkInv, NEW e \in Edge, SenderTimeout, UNCHANGED edgeVars PROVE LinkInv'
  <1>1. /\ upc = "listen" /\ upc' = "send" /\ packet' = packet /\ ~AnswerOutstanding
        /\ radio' = [radio EXCEPT ![Sender] = radio[Sender]]
        /\ radio[Sender] \in RadioState
    BY LinkTypes DEF SenderTimeout, Timeout
  <1>2. ~radio[Sender].rxdone /\ ~Transmitting(e)
    BY <1>1 DEF AnswerOutstanding
  <1>3. ~Pending(e)
    <2>1. SUFFICES ASSUME Pending(e) PROVE FALSE
      OBVIOUS
    <2>2. radio[e].fifo.id = UpdateId[e]
      BY <2>1, LinkParts, LinkTypes DEF StopAndWait, Heard, Packet
    <2>3. edge[e].pc \notin {"rx_clear", "rx_spin", "reboot", "away"}
      BY <2>1, LinkParts DEF Pending, OneAtATime
    <2> QED BY <1>1, <2>1, <2>2, <2>3 DEF AnswerOutstanding, Pending
  <1>4. UpdaterTypeOK' /\ UpdaterAgrees(radio[Sender])'
    BY <1>1, <1>2, UpdaterStepFacts, LinkParts DEF UpdaterTypeOK, UpdaterAgrees
  <1>5. StopAndWait(e)' /\ Progress(e)'
    BY <1>1, <1>2, <1>3, SamePacket, LinkParts DEF Answering, Progress
  <1> QED BY <1>1, <1>4, <1>5, UpdaterStepFacts, LinkFromParts

-----------------------------------------------------------------------------
(* The channel.  Only the updater's radio and the edge's ever send.        *)
LEMMA WhoSends ==
    ASSUME LinkInv, NEW e \in Edge, NEW n \in Node, Transmitting(n)
    PROVE  n = e \/ n = Sender
  BY LinkTypes, LinkParts DEF Bystanders, Transmitting

LEMMA HangKeepsLink ==
    ASSUME LinkInv, NEW e \in Edge, NEW n \in Node, Hang(n) PROVE LinkInv'
  <1> DEFINE r == [radio[n] EXCEPT !.hung = TRUE]
  <1>1. /\ Transmitting(n) /\ TransmitHang(n) /\ UNCHANGED edgeVars
        /\ upc' = upc /\ packet' = packet /\ edge' = edge /\ asked' = asked
        /\ radio' = [radio EXCEPT ![n] = r]
    BY DEF Hang, TransmitHang, edgeVars, updaterVars
  <1>2. /\ r.mode = radio[n].mode /\ r.rxdone = radio[n].rxdone
        /\ r.txdone = radio[n].txdone /\ r.fifo = radio[n].fifo /\ r.hung
        /\ r \in RadioState
    BY LinkTypes DEF RadioState
  <1> HIDE DEF r
  <1>3. CASE n = e
    <2>1. radio' = [radio EXCEPT ![e] = r] /\ edge' = [edge EXCEPT ![e] = edge[e]]
      BY <1>1, <1>3, LinkTypes
    <2>2. QuietStep(e)
      <3>1. /\ r.hung /\ r.mode = radio[e].mode /\ r.rxdone = radio[e].rxdone
            /\ r.fifo = radio[e].fifo
        BY <1>2, <1>3
      <3>2. OneAtATime(e)
        BY LinkParts
      <3> QED BY <1>1, <2>1, <3>1, <3>2, QuietStepFrom DEF Pending, OneAtATime
    <2>3. ListenerInv'
      BY <1>1, LinkParts, TransmitHangIsGood DEF GoodStep
    <2> QED BY <1>1, <2>2, <2>3, QuietStepKeepsLink DEF updaterVars
  <1>4. CASE n = Sender
    <2>1. radio' = [radio EXCEPT ![Sender] = r]
      BY <1>1, <1>4
    <2>2. UpdaterTypeOK' /\ UpdaterAgrees(radio[Sender])'
      BY <1>1, <1>2, <1>4, <2>1, UpdaterStepFacts, LinkParts
         DEF UpdaterTypeOK, UpdaterAgrees, Packet
    <2>3. StopAndWait(e)' /\ Progress(e)'
      BY <1>1, <1>2, <1>4, <2>1, SamePacket, LinkParts DEF StopAndWait, Progress
    <2> QED BY <1>1, <1>2, <2>1, <2>2, <2>3, UpdaterStepFacts, LinkFromParts
  <1> QED BY <1>1, <1>3, <1>4, WhoSends

(* The end of a packet starts an answer, or nothing.                       *)
LEMMA PacketEndKeepsLink ==
    ASSUME LinkInv, NEW e \in Edge, Transmitting(Sender),
           NEW hearers \in SUBSET Listening(Sender), NEW frame \in Heard(radio[Sender].fifo),
           EndTransmission(Sender, hearers, frame), UNCHANGED <<edgeVars, updaterVars>>,
           ListenerInv'
    PROVE  LinkInv'
  <1>1. /\ upc' = upc /\ packet' = packet /\ edge' = edge /\ asked' = asked
    BY DEF edgeVars, updaterVars
  <1>2. /\ radio[Sender].mode = "tx" /\ upc = "wait_tx" /\ ~radio[Sender].rxdone
        /\ frame \in Heard(Packet(packet)) /\ ~Answering(e)
    BY LinkParts DEF Transmitting, UpdaterAgrees, StopAndWait
  <1>3. /\ radio'[Sender].mode = "standby" /\ radio'[Sender].txdone
        /\ ~radio'[Sender].rxdone
    BY <1>2, LinkTypes DEF EndTransmission, RadioState
  <1>4. \A n \in Node \ {Sender} :
           /\ radio'[n].mode = radio[n].mode /\ radio'[n].hung = radio[n].hung
           /\ radio'[n].rxdone # radio[n].rxdone => radio'[n].fifo = frame
           /\ radio[n].rxdone => radio'[n].rxdone
    BY LinkTypes DEF EndTransmission, RadioState
  <1>5. Pending(e)' => radio'[e].fifo = frame
    BY <1>1, <1>2, <1>4, LinkTypes DEF Pending, Answering
  <1>6. ~Transmitting(e)'
    BY <1>2, <1>4, LinkTypes DEF Transmitting, Answering
  <1>7. UpdaterTypeOK' /\ UpdaterAgrees(radio[Sender])'
    BY <1>1, <1>2, <1>3, LinkParts DEF UpdaterTypeOK, UpdaterAgrees
  <1>8. Bystanders'
    BY <1>4, LinkParts DEF Bystanders
  <1>9. StopAndWait(e)'
    <2>1. Heard(Packet(packet))' = Heard(Packet(packet))
      BY <1>1 DEF Heard, Packet
    <2> QED BY <1>1, <1>2, <1>3, <1>5, <1>6, <2>1 DEF StopAndWait, Answering
  <1>10. OneAtATime(e)'
    BY <1>1, <1>4, LinkParts, LinkTypes DEF OneAtATime, RadioState
  <1>11. Progress(e)'
    BY <1>1, LinkParts DEF Progress, Asked
  <1> QED BY <1>7, <1>8, <1>9, <1>10, <1>11, LinkFromParts

(* The end of a reply is heard by the updater, or by nobody.               *)
LEMMA ReplyEndKeepsLink ==
    ASSUME LinkInv, NEW e \in Edge, Transmitting(e),
           NEW hearers \in SUBSET Listening(e), NEW frame \in Heard(radio[e].fifo),
           EndTransmission(e, hearers, frame), UNCHANGED <<edgeVars, updaterVars>>,
           ListenerInv'
    PROVE  LinkInv'
  <1>1. /\ upc' = upc /\ packet' = packet /\ edge' = edge /\ asked' = asked
    BY DEF edgeVars, updaterVars
  <1>2. /\ radio[e].mode = "tx" /\ Asked(e, packet)
        /\ upc \in {"wait_tx", "clear_tx", "listen"} /\ radio[Sender].mode # "tx"
    BY LinkParts DEF Transmitting, StopAndWait, Answering
  <1>3. radio'[e].mode = "standby" /\ radio'[e].rxdone = radio[e].rxdone
    BY LinkTypes DEF EndTransmission, RadioState
  <1>4. \A n \in Node \ {e} :
           radio'[n].mode = radio[n].mode /\ radio'[n].txdone = radio[n].txdone
    BY LinkTypes DEF EndTransmission, RadioState
  <1>5. radio'[Sender].rxdone => radio[Sender].rxdone \/ radio[Sender].mode = "rx"
    BY LinkTypes DEF EndTransmission, Listening
  <1>6. ~Answering(e)'
    BY <1>3 DEF Answering, Pending, Transmitting
  <1>7. UpdaterTypeOK' /\ UpdaterAgrees(radio[Sender])'
    BY <1>1, <1>2, <1>4, <1>5, LinkParts, LinkTypes DEF UpdaterTypeOK, UpdaterAgrees
  <1>8. Bystanders'
    BY <1>4, LinkParts, LinkTypes DEF Bystanders
  <1>9. StopAndWait(e)'
    BY <1>1, <1>2, <1>6 DEF StopAndWait, Answering, Asked
  <1>10. OneAtATime(e)'
    BY <1>1, <1>2, <1>3, LinkParts DEF OneAtATime
  <1>11. Progress(e)'
    BY <1>1, LinkParts DEF Progress, Asked
  <1> QED BY <1>7, <1>8, <1>9, <1>10, <1>11, LinkFromParts

LEMMA EndKeepsLink ==
    ASSUME LinkInv, NEW e \in Edge, NEW n \in Node, End(n) PROVE LinkInv'
  <1>1. TransmitEnd(n) /\ Transmitting(n) /\ UNCHANGED <<edgeVars, updaterVars>>
    BY DEF End, TransmitEnd
  <1>2. PICK hearers \in SUBSET Listening(n), frame \in Heard(radio[n].fifo) :
           EndTransmission(n, hearers, frame)
    BY <1>1 DEF TransmitEnd
  <1>3. ListenerInv'
    BY <1>1, LinkParts, TransmitEndIsGood DEF GoodStep
  <1>4. n = e \/ n = Sender
    BY <1>1, WhoSends
  <1> QED BY <1>1, <1>2, <1>3, <1>4, PacketEndKeepsLink, ReplyEndKeepsLink

-----------------------------------------------------------------------------
LEMMA InitLink == OneEdge /\ Init => LinkInv
  <1> SUFFICES ASSUME OneEdge, Init PROVE LinkInv
    OBVIOUS
  <1>1. PICK e \in Edge : Edge = {e} /\ UpdateId[e] = SenderId
    BY DEF OneEdge
  <1> DEFINE r == [mode |-> "rx", hung |-> FALSE, rxdone |-> FALSE, txdone |-> FALSE,
                   fifo |-> Packet(0)]
  <1>2. radio = [n \in Node |-> r] /\ upc = "send" /\ packet = 0 /\ EdgeInit
    BY DEF Init, UpdaterInit
  <1>3. Packet(0) \in Frame
    BY PacketAssumption, PacketsAreFrames
  <1>4. RadioTypeOK /\ EdgeTypeOK
    BY <1>2, <1>3 DEF RadioTypeOK, Mode, EdgeTypeOK, EdgeInit, EdgePC
  <1>5. /\ edge[e] = [pc |-> "poll", flags |-> {}, tracker |-> {}, fresh |-> TRUE,
                      lag |-> FALSE]
        /\ \A s \in Slot : asked[e][s] = "unasked"
        /\ e \in Node /\ Sender \in Node /\ radio[e] = r /\ radio[Sender] = r
    BY <1>2, EdgeAssumption, SenderAssumption DEF EdgeInit
  <1>6. ListenerInv
    BY <1>1, <1>4, <1>5
       DEF ListenerInv, Agrees, EndAnnounced, CopyIsTrue, NothingHeard, WatchIsFair
  <1>7. UpdaterTypeOK /\ UpdaterAgrees(radio[Sender]) /\ Bystanders
    BY <1>2, <1>5, PacketAssumption DEF UpdaterTypeOK, UpdaterAgrees, Bystanders
  <1>8. StopAndWait(e) /\ OneAtATime(e) /\ Progress(e)
    BY <1>2, <1>5
       DEF StopAndWait, Answering, Pending, Transmitting, OneAtATime, Progress
  <1> QED BY <1>1, <1>6, <1>7, <1>8 DEF LinkInv

LEMMA LinkStep == LinkInv /\ [Next]_vars => LinkInv'
  <1> SUFFICES ASSUME LinkInv, [Next]_vars PROVE LinkInv'
    OBVIOUS
  <1>1. PICK e \in Edge : Edge = {e}
    BY DEF LinkInv, OneEdge
  <1>2. CASE UpdaterStep
    BY <1>2, SendPacketKeepsLink, AllSentKeepsLink, PacketSentKeepsLink, ClearTxKeepsLink,
       HearReplyKeepsLink, ReplyClearedKeepsLink, AdvanceKeepsLink, TimeoutKeepsLink
       DEF UpdaterStep, Send
  <1>3. CASE \E d \in Edge : EdgeStep(d) \/ ((Lag(d) \/ Silence(d)) /\ UNCHANGED updaterVars)
    BY <1>3, EdgeStepKeepsLink DEF EdgeStep
  <1>4. CASE \E n \in Node : End(n) \/ Hang(n)
    BY <1>4, EndKeepsLink, HangKeepsLink
  <1>5. CASE UNCHANGED vars
    <2>1. /\ radio' = [radio EXCEPT ![e] = radio[e]] /\ edge' = [edge EXCEPT ![e] = edge[e]]
          /\ asked' = asked /\ UNCHANGED updaterVars /\ ListenerInv'
      BY <1>5, LinkTypes, LinkParts
         DEF vars, edgeVars, ListenerInv, RadioTypeOK, EdgeTypeOK, Agrees, EndAnnounced,
             CopyIsTrue, NothingHeard, WatchIsFair
    <2>2. QuietStep(e)
      BY <2>1, LinkParts, QuietStepFrom DEF Transmitting, Pending, OneAtATime
    <2> QED BY <2>1, <2>2, QuietStepKeepsLink
  <1> QED BY <1>2, <1>3, <1>4, <1>5 DEF Next

(* With one edge, what is on the air at any moment is the current packet   *)
(* or the reply to it (main.cpp:210-281, update.c:158-218).                *)
THEOREM LinkInvariance == OneEdge /\ Spec => []LinkInv
  BY InitLink, LinkStep, PTL DEF Spec

(* The states of both programs and both radios keep their types: every     *)
(* packet of the image fits the edge's table of pages.                     *)
THEOREM LinkTypeCorrect == OneEdge /\ Spec => []TypeOK
  <1>1. LinkInv => TypeOK
    BY DEF LinkInv, ListenerInv, TypeOK
  <1> QED BY <1>1, LinkInvariance, PTL

(* No packet is left behind that the edge has not been asked to write, for *)
(* images of any length; where the counter has wrapped, of those it has    *)
(* counted since (main.cpp:254-279, update.c:48-64).                       *)
THEOREM NoneSkipped == OneEdge /\ Spec => []NoPacketSkipped
  <1>1. LinkInv => NoPacketSkipped
    BY DEF LinkInv, OneEdge, Progress, Asked, NoPacketSkipped
  <1> QED BY <1>1, LinkInvariance, PTL

(* The updater prints "Updated" only when the edge has been asked to write *)
(* every packet of the image (main.cpp:210-228, 283-285).                  *)
THEOREM DoneMeansComplete == OneEdge /\ Spec => []UpdateComplete
  <1>1. LinkInv => UpdateComplete
    <2> SUFFICES ASSUME LinkInv, upc = "done", NEW p \in 0 .. LastPacket
                 PROVE  \E e \in Edge : asked[e][p] # "unasked"
      BY DEF UpdateComplete
    <2>1. PICK e \in Edge : Edge = {e}
      BY DEF LinkInv, OneEdge
    <2>2. packet > LastPacket
      BY LinkParts DEF Progress
    <2>3. p \in 0 .. packet - 1
      BY <2>1, <2>2, LinkTypes
    <2> QED BY <2>1, <2>3, LinkParts DEF Progress, Asked
  <1> QED BY <1>1, LinkInvariance, PTL

(* A lone edge never writes a page it was sent no data for: it hears no    *)
(* reply of another (update.c:48-53).                                      *)
THEOREM NoStackPages == OneEdge /\ Spec => []PagesCarryData
  <1>1. LinkInv => PagesCarryData
    BY DEF LinkInv, Progress, PagesCarryData
  <1> QED BY <1>1, LinkInvariance, PTL

-----------------------------------------------------------------------------
(* What each step means for the transfer.                                  *)
LEMMA UpdaterTransfers ==
    ASSUME LinkInv, NEW e \in Edge, TheEdge = e, UpdaterStep
    PROVE  [Transfer!Next]_(Transfer!vars)
  <1>1. asked' = asked
    BY DEF UpdaterStep, edgeVars
  <1>2. CASE SendPacket \/ PacketSent \/ ClearTx \/ HearReply \/ ReplyCleared \/ Timeout
    BY <1>1, <1>2
       DEF SendPacket, PacketSent, ClearTx, HearReply, ReplyCleared, Timeout,
           Transfer!vars, TheEdge
  <1>3. CASE AllSent
    BY <1>1, <1>3 DEF AllSent, Transfer!Next, Transfer!Finish, TheEdge
  <1>4. CASE Advance
    <2>1. upc = "delay" /\ upc' = "send" /\ packet' = NextPacket
      BY <1>4 DEF Advance
    <2>2. Asked(e, packet) /\ packet <= LastPacket
      BY <2>1, LinkParts DEF Progress
    <2> QED BY <1>1, <2>1, <2>2
            DEF Transfer!Next, Transfer!Proceed, Transfer!Sending, NextPacket, Asked, TheEdge
  <1> QED BY <1>2, <1>3, <1>4 DEF UpdaterStep, Send, SenderTimeout

LEMMA EdgeTransfers ==
    ASSUME LinkInv, NEW e \in Edge, TheEdge = e, ListenUpdate(e) \/ Lag(e) \/ Silence(e),
           UNCHANGED updaterVars
    PROVE  [Transfer!Next]_(Transfer!vars)
  <1>1. upc' = upc /\ packet' = packet
    BY DEF updaterVars
  <1>2. CASE QuietStep(e)
    BY <1>1, <1>2 DEF QuietStep, Transfer!vars, TheEdge
  <1>3. CASE UpdateSlot(e)
    <2>1. PICK what \in {"firmware", "garbled"} :
             asked'[e] = [asked[e] EXCEPT ![packet] = what]
      BY <1>3, UpdateSlotFacts
    <2> QED BY <1>1, <1>3, <2>1, UpdateSlotFacts
            DEF Transfer!Next, Transfer!Take, Transfer!Sending
  <1> QED BY <1>2, <1>3, EdgeStepKinds

LEMMA TransferStep == LinkInv /\ [Next]_vars => [Transfer!Next]_(Transfer!vars)
  <1> SUFFICES ASSUME LinkInv, [Next]_vars PROVE [Transfer!Next]_(Transfer!vars)
    OBVIOUS
  <1>1. PICK e \in Edge : Edge = {e}
    BY DEF LinkInv, OneEdge
  <1>2. TheEdge = e
    BY <1>1 DEF TheEdge
  <1>3. CASE UpdaterStep
    BY <1>2, <1>3, UpdaterTransfers
  <1>4. CASE \E d \in Edge : EdgeStep(d) \/ ((Lag(d) \/ Silence(d)) /\ UNCHANGED updaterVars)
    BY <1>1, <1>2, <1>4, EdgeTransfers DEF EdgeStep
  <1>5. CASE (\E n \in Node : End(n) \/ Hang(n)) \/ UNCHANGED vars
    BY <1>5 DEF End, Hang, edgeVars, updaterVars, vars, Transfer!vars, TheEdge
  <1> QED BY <1>3, <1>4, <1>5 DEF Next

(* With one edge the update transfers the image one packet at a time, in   *)
(* order (main.cpp:249-281, update.c:45-64).                               *)
THEOREM LinkTransfers == OneEdge /\ Spec => ImplementsTransfer
  <1>1. OneEdge /\ Init => Transfer!Init
    BY DEF OneEdge, Init, UpdaterInit, EdgeInit, Transfer!Init, TheEdge
  <1> QED BY <1>1, TransferStep, LinkInvariance, PTL
          DEF Spec, ImplementsTransfer, Transfer!Spec
=============================================================================
