---------------------------- MODULE ListenerEnv ----------------------------
(***************************************************************************)
(* The edges' listener among arbitrary traffic: a master that sends any    *)
(* frame at any time, the update's four commands and others.               *)
(***************************************************************************)
EXTENDS Listener

CONSTANT Master

ASSUME MasterAssumption == Master \in Node \ Edge

vars == <<radio, edgeVars>>

TypeOK == RadioTypeOK /\ EdgeTypeOK

Init ==
    \E frame \in Frame :
        /\ radio = [n \in Node |-> [mode |-> IF n = Master THEN "standby" ELSE "rx",
                                    hung |-> FALSE, rxdone |-> FALSE,
                                    txdone |-> FALSE, fifo |-> frame]]
        /\ EdgeInit

MasterSend(frame) ==
    /\ radio[Master].mode = "standby"
    /\ radio' = [radio EXCEPT ![Master] = SX1276_send_message(@, frame)]
    /\ UNCHANGED edgeVars

Channel == \E n \in Node : (TransmitEnd(n) \/ TransmitHang(n)) /\ UNCHANGED edgeVars

Next ==
    \/ \E e \in Edge : ListenUpdate(e) \/ Lag(e) \/ Silence(e)
    \/ \E frame \in Frame : MasterSend(frame)
    \/ Channel

(* The processors run, and a transmission that does not hang ends.         *)
Spec ==
    /\ Init /\ [][Next]_vars
    /\ \A e \in Edge : WF_vars(ListenUpdate(e)) /\ WF_vars(Lag(e))
    /\ \A n \in Node : WF_vars(TransmitEnd(n) /\ UNCHANGED edgeVars)
=============================================================================
