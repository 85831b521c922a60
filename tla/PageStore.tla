------------------------------ MODULE PageStore ------------------------------
(***************************************************************************)
(* What framework/flash.c promises of the pages it keeps: a call updates   *)
(* one page of a row, keeping the row's others, whatever the page held     *)
(* (flash.c:75-77, flash.c:114), in one step and before it returns; a      *)
(* failure of power loses at most one row.  Flash.tla says how much of     *)
(* this the code keeps.                                                    *)
(***************************************************************************)
CONSTANTS
    PageIds,    \* the pages
    Row,        \* the first page of each page's row
    Bits,       \* the bits of a page
    Payload,    \* what may be stored
    NoPage

VARIABLES
    kept,       \* what each page holds
    ready,      \* the driver is configured
    call,       \* "none", "wipe", "put" before the page is stored or "stored"
    page, data  \* the arguments

vars == <<kept, ready, call, page, data>>

Init ==
    /\ kept \in [PageIds -> SUBSET Bits]
    /\ ready = FALSE
    /\ call = "none" /\ page = NoPage /\ data = {}

Return == call' = "none" /\ page' = NoPage /\ data' = {}

Configure ==
    /\ call = "none"
    /\ ready' = TRUE
    /\ UNCHANGED <<kept, call, page, data>>

BeginWipe ==
    /\ call = "none"
    /\ call' = "wipe"
    /\ UNCHANGED <<kept, ready, page, data>>

WipeRow ==
    /\ call = "wipe" /\ ready
    /\ \E first \in PageIds :
          kept' = [q \in PageIds |-> IF Row[q] = Row[first] THEN Bits ELSE kept[q]]
    /\ UNCHANGED <<ready, call, page, data>>

EndWipe ==
    /\ call = "wipe"
    /\ ready => \A q \in PageIds : kept[q] = Bits
    /\ Return
    /\ UNCHANGED <<kept, ready>>

BeginPut ==
    /\ call = "none"
    /\ call' = "put"
    /\ page' \in PageIds /\ data' \in Payload[page']
    /\ UNCHANGED <<kept, ready>>

Put ==
    /\ call = "put" /\ ready
    /\ kept' = [kept EXCEPT ![page] = data]
    /\ call' = "stored"
    /\ UNCHANGED <<ready, page, data>>

EndPut ==
    /\ call = "stored" \/ (call = "put" /\ ~ready)
    /\ Return
    /\ UNCHANGED <<kept, ready>>

(* The pages that change lie in one row.                                   *)
Fail ==
    /\ kept' \in [PageIds -> SUBSET Bits]
    /\ \A p, q \in PageIds :
          kept'[p] # kept[p] /\ kept'[q] # kept[q] => Row[p] = Row[q]
    /\ ready' = FALSE
    /\ Return

Next ==
    \/ Configure \/ BeginWipe \/ WipeRow \/ EndWipe
    \/ BeginPut \/ Put \/ EndPut \/ Fail

Spec == Init /\ [][Next]_vars
=============================================================================
