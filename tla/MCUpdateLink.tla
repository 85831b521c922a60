---------------------------- MODULE MCUpdateLink ----------------------------
(***************************************************************************)
(* One updater and one or two edges for TLC.  LastPacket is 2 with one     *)
(* edge and 1 with two; the counter wraps above it.                        *)
(***************************************************************************)
EXTENDS UpdateLink

CONSTANTS e1, e2

MCOneEdge == {e1}
MCTwoEdges == {e1, e2}
MCNode == Edge \cup {Sender}
MCUpdateId == [e \in Edge |-> SenderId]
MCSlot == 0 .. PacketValues - 1

MCFrame ==
    {[id |-> SenderId, cmd |-> 1, byte2 |-> n, body |-> b] :
        n \in MCSlot, b \in {"none", "firmware", "garbled"}}
=============================================================================
