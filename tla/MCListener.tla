----------------------------- MODULE MCListener -----------------------------
(***************************************************************************)
(* One edge and a master for TLC.  Frames: one for each command and one    *)
(* that is no command, for the edge's update id and for another one, and   *)
(* the replies the edge can give.                                          *)
(***************************************************************************)
EXTENDS ListenerEnv

CONSTANT e1

MCEdge == {e1}
MCNode == {e1, Master}
MCUpdateId == [e \in MCEdge |-> 123]
MCSlot == {0, 1}

F(id, cmd, byte2, body) == [id |-> id, cmd |-> cmd, byte2 |-> byte2, body |-> body]

MCFrame ==
    {F(123, 1, 0, "firmware"), F(123, 1, 0, "garbled"), F(123, 1, 1, "none"),
     F(123, 2, 0, "none"), F(123, 2, 2, "none"), F(123, 3, 1, "none"),
     F(123, 4, 1, "none"), F(123, 9, 0, "none"), F(0, 1, 0, "none")}
=============================================================================
