--------------------------- MODULE ListenerProofs ---------------------------
(***************************************************************************)
(* Proofs about ListenerEnv, for every set of edges and every set of       *)
(* frames, from the lemmas of EdgeProofs about the edges' own steps.       *)
(***************************************************************************)
EXTENDS ListenerEnv, EdgeProofs

LEMMA MasterSendIsGood ==
    ASSUME ListenerInv, NEW frame \in Frame, MasterSend(frame) PROVE GoodStep
  <1> DEFINE r == [radio[Master] EXCEPT !.fifo = frame, !.mode = "tx"]
  <1>1. /\ radio' = [radio EXCEPT ![Master] = r]
        /\ edge' = edge /\ asked' = asked
    BY DEF MasterSend, SX1276_send_message, edgeVars
  <1>2. radio \in [Node -> RadioState] /\ Master \in Node /\ radio[Master] \in RadioState
    BY MasterAssumption DEF ListenerInv, RadioTypeOK, RadioState
  <1>3. r \in RadioState
    BY <1>2 DEF RadioState, Mode
  <1>4. radio' \in [Node -> RadioState]
    BY <1>1, <1>2, <1>3
  <1>5. \A e \in Edge : radio'[e] = radio[e]
    BY <1>1, <1>2, EdgeAssumption, MasterAssumption
  <1>6. \A e \in Edge : Agrees(radio'[e], edge[e]) /\ NotCut(radio[e], radio'[e])
    BY <1>5 DEF ListenerInv, NotCut
  <1> QED BY <1>1, <1>4, <1>6, ChannelStepIsGood

-----------------------------------------------------------------------------
LEMMA InitListener == Init => ListenerInv
  <1> SUFFICES ASSUME Init PROVE ListenerInv
    OBVIOUS
  <1>1. PICK frame \in Frame :
           radio = [n \in Node |-> [mode |-> IF n = Master THEN "standby" ELSE "rx",
                                    hung |-> FALSE, rxdone |-> FALSE,
                                    txdone |-> FALSE, fifo |-> frame]]
    BY DEF Init
  <1>2. RadioTypeOK
    BY <1>1 DEF RadioTypeOK, Mode
  <1>3. EdgeInit
    BY DEF Init
  <1>4. EdgeTypeOK
    BY <1>3 DEF EdgeTypeOK, EdgeInit, EdgePC
  <1>5. ASSUME NEW e \in Edge PROVE Agrees(radio[e], edge[e])
    <2>1. radio[e] = [mode |-> "rx", hung |-> FALSE, rxdone |-> FALSE, txdone |-> FALSE,
                      fifo |-> frame]
      BY <1>1, EdgeAssumption, MasterAssumption
    <2>2. edge[e].pc = "poll" /\ edge[e].flags = {} /\ ~edge[e].lag
      BY <1>3 DEF EdgeInit
    <2> QED BY <2>1, <2>2
            DEF Agrees, EndAnnounced, CopyIsTrue, NothingHeard, WatchIsFair
  <1> QED BY <1>2, <1>4, <1>5 DEF ListenerInv, TypeOK

LEMMA StepListener == ListenerInv /\ [Next]_vars => GoodStep
  <1> SUFFICES ASSUME ListenerInv, [Next]_vars PROVE GoodStep
    OBVIOUS
  <1>1. CASE \E e \in Edge : ListenUpdate(e) \/ Lag(e) \/ Silence(e)
    BY <1>1, EdgeStepRespects, OwnStepIsGood
  <1>2. CASE \E frame \in Frame : MasterSend(frame)
    BY <1>2, MasterSendIsGood
  <1>3. CASE Channel
    BY <1>3, TransmitEndIsGood, TransmitHangIsGood DEF Channel
  <1>4. CASE UNCHANGED vars
    <2>1. radio' \in [Node -> RadioState] /\ radio' = radio /\ edge' = edge
          /\ asked' = asked
      BY <1>4 DEF vars, edgeVars, ListenerInv, RadioTypeOK, RadioState
    <2>2. \A e \in Edge : Agrees(radio'[e], edge[e]) /\ NotCut(radio[e], radio'[e])
      BY <2>1 DEF ListenerInv, NotCut
    <2> QED BY <2>1, <2>2, ChannelStepIsGood
  <1> QED BY <1>1, <1>2, <1>3, <1>4 DEF Next

(* At every moment each edge's place in listen_update and its copy of the  *)
(* flags agree with the state of its radio (update.c:158-218).             *)
THEOREM ListenerInvariance == Spec => []ListenerInv
  <1>1. ListenerInv /\ [Next]_vars => ListenerInv'
    BY StepListener DEF GoodStep
  <1> QED BY <1>1, InitListener, PTL DEF Spec

(* The radios, the program's state and what was asked keep their types:    *)
(* no command, reply or damaged frame leads out of them (update.c:37-122). *)
THEOREM ListenerTypeCorrect == Spec => []TypeOK
  <1>1. ListenerInv => TypeOK
    BY DEF ListenerInv, TypeOK
  <1> QED BY <1>1, ListenerInvariance, PTL

(* An edge that polls a radio standing by finds the end of the reply, for  *)
(* any traffic of any number of edges (update.c:161-183).                  *)
THEOREM EndIsSeen == Spec => []EndOfReplySeen
  <1>1. ListenerInv => EndOfReplySeen
    BY DEF ListenerInv, Agrees, EndAnnounced, EndOfReplySeen
  <1> QED BY <1>1, ListenerInvariance, PTL

(* No reply is cut off, neither by the stale copy of the flags nor by the  *)
(* watch over a hanging radio (update.c:161-194).                          *)
THEOREM RepliesComplete == Spec => ReplyNotCut
  <1>1. GoodStep => [\A e \in Edge : Transmitting(e) =>
                      \/ radio'[e].mode = "tx"
                      \/ radio'[e].mode = "standby" /\ radio'[e].txdone]_<<radio, edgeVars>>
    BY DEF GoodStep, NotCut, Transmitting
  <1> QED BY <1>1, StepListener, ListenerInvariance, PTL DEF Spec, ReplyNotCut
=============================================================================
