----------------------------- MODULE BootPolicy -----------------------------
(***************************************************************************)
(* What a boot loader with a retry budget promises, whatever its code      *)
(* looks like: it hands over only to a trusted image and only while the    *)
(* budget lasts, it spends one unit of the budget on every hand-over and   *)
(* on every failure, only the application (or the loss of power) restores  *)
(* the budget, and a request for the updater is honoured exactly once.     *)
(* Boot.tla is shown to implement it.                                      *)
(***************************************************************************)
EXTENDS Naturals

CONSTANT Budget        \* the last value of `tries' at which booting is tried

VARIABLES
    where,      \* what the processor is doing
    tries,      \* hand-overs and failures since the budget was restored
    trusted,    \* the image in flash passes every check
    requested   \* the application has asked for the updater

vars == <<where, tries, trusted, requested>>

Init ==
    /\ where = "deciding"
    /\ tries = 0
    /\ trusted \in BOOLEAN
    /\ requested = FALSE

MayBoot == where = "deciding" /\ ~requested /\ tries <= Budget

Launch ==
    /\ MayBoot
    /\ trusted
    /\ where' = "running"
    /\ tries' = tries + 1
    /\ UNCHANGED <<trusted, requested>>

Fail ==
    /\ MayBoot
    /\ tries' = tries + 1
    /\ UNCHANGED <<where, trusted, requested>>

Update ==
    /\ where = "deciding"
    /\ requested \/ tries > Budget
    /\ where' = "updating"
    /\ requested' = FALSE
    /\ UNCHANGED <<tries, trusted>>

Forgive ==
    /\ where = "running"
    /\ tries' = 0
    /\ UNCHANGED <<where, trusted, requested>>

(* The application gives the budget back before it asks for the updater.   *)
Ask ==
    /\ where = "running"
    /\ tries = 0
    /\ requested' = TRUE
    /\ UNCHANGED <<where, tries, trusted>>

(* Only an untrusted image can stop the loader itself.                     *)
Die ==
    /\ \/ where \in {"running", "updating"}
       \/ where = "deciding" /\ ~trusted
    /\ where' = "dead"
    /\ UNCHANGED <<tries, trusted, requested>>

(* A restart may cut an update short.                                      *)
ImageAtRestart == trusted' \in IF where = "updating" THEN BOOLEAN ELSE {trusted}

Restart ==
    /\ where' = "deciding"
    /\ ImageAtRestart
    /\ UNCHANGED <<tries, requested>>

PowerUp ==
    /\ where' = "deciding"
    /\ ImageAtRestart
    /\ tries' = 0
    /\ requested' = FALSE

Reflash ==
    /\ where' = "deciding"
    /\ trusted' \in BOOLEAN
    /\ UNCHANGED <<tries, requested>>

(* The updater changes the image under its feet.                           *)
Rewrite ==
    /\ where = "updating"
    /\ trusted' \in BOOLEAN
    /\ UNCHANGED <<where, tries, requested>>

Next ==
    \/ Launch \/ Fail \/ Update \/ Forgive \/ Ask
    \/ Die \/ Restart \/ PowerUp \/ Reflash \/ Rewrite

Spec == Init /\ [][Next]_vars
=============================================================================
