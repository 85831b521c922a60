----------------------------- MODULE UpdateLink -----------------------------
(***************************************************************************)
(* An update over the air: the updater of updater/main.cpp and the edges   *)
(* of boot/update.c on one channel.                                        *)
(***************************************************************************)
EXTENDS Listener, Updater

CONSTANT
    Timely      \* replies last longer than the updater takes to listen, and
                \* come within its 2000, when they come

ASSUME TimelyAssumption == Timely \in BOOLEAN

(* The updater is a board of its own, and what it sends are frames.        *)
ASSUME SenderIsNoEdge == Sender \notin Edge
ASSUME PacketsAreFrames ==
    \A p \in 0 .. PacketValues - 1 : p <= LastPacket => Packet(p) \in Frame

vars == <<radio, edgeVars, updaterVars>>

TypeOK == RadioTypeOK /\ EdgeTypeOK /\ UpdaterTypeOK

Init ==
    /\ radio = [n \in Node |-> [mode |-> "rx", hung |-> FALSE, rxdone |-> FALSE,
                                txdone |-> FALSE, fifo |-> Packet(0)]]
    /\ EdgeInit
    /\ UpdaterInit

(* An answer to what was sent is still to come: an edge is about to read   *)
(* it, is sending, or has been heard.  Writing a page takes milliseconds,  *)
(* so that 2000 cannot pass meanwhile.                                     *)
AnswerOutstanding ==
    \/ radio[Sender].rxdone
    \/ \E e \in Edge :
          \/ Transmitting(e)
          \/ /\ radio[e].rxdone
             /\ radio[e].fifo.id = UpdateId[e]
             /\ edge[e].pc \notin {"rx_clear", "rx_spin", "reboot", "away"}

SenderTimeout ==
    /\ Timeout
    /\ Timely => upc = "listen" /\ ~AnswerOutstanding

UpdaterStep == (Send \/ SenderTimeout) /\ UNCHANGED edgeVars

EdgeStep(e) == ListenUpdate(e) /\ UNCHANGED updaterVars

TurningAround == upc = "wait_tx" /\ radio[Sender].txdone

MayEnd(n) == Timely /\ n \in Edge => ~TurningAround

End(n) == MayEnd(n) /\ TransmitEnd(n) /\ UNCHANGED <<edgeVars, updaterVars>>
EndWell(n) == MayEnd(n) /\ TransmitWell(n) /\ UNCHANGED <<edgeVars, updaterVars>>
Hang(n) == TransmitHang(n) /\ UNCHANGED <<edgeVars, updaterVars>>

Next ==
    \/ UpdaterStep
    \/ \E e \in Edge : EdgeStep(e)
    \/ \E e \in Edge : (Lag(e) \/ Silence(e)) /\ UNCHANGED updaterVars
    \/ \E n \in Node : End(n) \/ Hang(n)

(* The processors run; a frame sent again and again is heard at last.      *)
Spec ==
    /\ Init /\ [][Next]_vars
    /\ WF_vars(UpdaterStep)
    /\ \A e \in Edge :
          WF_vars(EdgeStep(e)) /\ WF_vars(Lag(e) /\ UNCHANGED updaterVars)
    /\ \A n \in Node : WF_vars(End(n)) /\ SF_vars(EndWell(n))

-----------------------------------------------------------------------------
(* The updater leaves a packet behind only when some edge has been asked   *)
(* to write it (main.cpp:254-279, update.c:48-64).                         *)
NoPacketSkipped ==
    \A p \in 0 .. packet - 1 : \E e \in Edge : asked[e][p] # "unasked"

(* "Updated with firmware" is printed only when every packet of the image, *)
(* the incomplete one at its end too, has reached some edge                *)
(* (main.cpp:210-228, 283-285).                                            *)
UpdateComplete ==
    upc = "done" =>
        \A p \in 0 .. LastPacket : \E e \in Edge : asked[e][p] # "unasked"

(* No edge writes a page that came without data: the replies of the edges  *)
(* look like commands (update.c:48-53).                                    *)
PagesCarryData == \A e \in Edge : \A s \in Slot : asked[e][s] # "stack"

(* A lone edge is only ever asked to write the current packet, and the     *)
(* updater goes on only once it has been: a reply that came late, a frame  *)
(* heard twice or one sent again disorders nothing, though a reply does not*)
(* say which packet it answers (main.cpp:249-281, update.c:45-64).         *)
TheEdge == CHOOSE e \in Edge : TRUE

Transfer ==
    INSTANCE PacketTransfer WITH taken <- asked[TheEdge], done <- upc = "done"

ImplementsTransfer == Transfer!Spec

(* As long as no edge is silenced or hangs again and again, an update      *)
(* comes to its end (main.cpp:210-281).  The slot takes images of up to    *)
(* 0x1C000 bytes (memory-mappings-j17.ld:12); a counter of one byte never  *)
(* passes the last packet of one of 255 * 64 bytes or more.                *)
UpdateFinishes ==
    \/ []<>(upc = "done")
    \/ []<>(\E e \in Edge : ~edge[e].fresh \/ radio[e].hung)
=============================================================================
