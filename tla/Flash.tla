------------------------------- MODULE Flash -------------------------------
(***************************************************************************)
(* framework/flash.c over the NVM driver (ASF nvm.c): the calls that the   *)
(* updater makes, one driver operation per step, against a controller that *)
(* finishes its command later and may lose power in the middle of it.      *)
(*                                                                         *)
(* Flash is counted in pages.  A page holds a set of bits that read as 1:  *)
(* erasing sets them all, programming can only clear some.                 *)
(***************************************************************************)
EXTENDS Naturals, FiniteSets

CONSTANTS
    RowPages,      \* NVMCTRL_ROW_PAGES
    NumRows,       \* rows of flash
    AppRow,        \* the row of __approm_start__, and the 64 of update.c:50
    PageIds,       \* the arguments of update_page
    Bits,          \* the bits of a page
    Firmware,      \* the page that goes with each page id
    Payload,       \* what may come with it: the page, or a damaged one
    InitialFlash   \* what the flash may hold at first

Page == 0 .. NumRows * RowPages - 1
Content == SUBSET Bits

ASSUME GeometryAssumption ==
    /\ RowPages \in Nat \ {0} /\ NumRows \in Nat /\ AppRow \in 1 .. NumRows
ASSUME FirmwareAssumption ==
    /\ Firmware \in [PageIds -> Content]
    /\ Payload \in [PageIds -> SUBSET Content]
    /\ \A page \in PageIds : Firmware[page] \in Payload[page]
ASSUME InitialFlashAssumption == InitialFlash \subseteq [Page -> Content]

(* update_page takes its argument for the number of a row, and writes the  *)
(* row whose number is the argument's rounded down.                        *)
root_page(page) == page - (page % RowPages)

(* Both rows stay inside the application's: 64 is a multiple of 4, and 319 *)
(* is less than 512 (update.c:50).                                         *)
ASSUME PageIdsAssumption ==
    \A page \in PageIds :
        /\ page \in AppRow .. NumRows - 1
        /\ root_page(page) \in AppRow .. NumRows - 1
        /\ page % RowPages \in 0 .. RowPages - 1

RowOf(row) == row * RowPages .. row * RowPages + RowPages - 1

(* Where update_page leaves its argument's data.                           *)
Place(page) == root_page(page) * RowPages + (page % RowPages)

NoCommand == [op |-> "none", page |-> 0, data |-> {}]
NoPage == 0
ZeroCache == [k \in 0 .. RowPages - 1 |-> {}]

VARIABLES
    flash,
    configured,  \* nvm_set_config has filled in the driver's _nvm_dev
    cmd,         \* the controller's command in progress
    pc,          \* the step of flash.c about to be taken
    i,           \* the loop counter of erase_application or update_page
    page, data,  \* update_page's arguments while it runs
    buffers,     \* page_buffers
    erased,      \* history: the last erase_application has run to its end
    spoiled,     \* history: pages that came damaged since it began
    held         \* history: pages updated since, and not hit by a power loss

history == <<erased, spoiled, held>>
device == <<flash, configured, cmd>>
args == <<page, data>>
vars == <<device, pc, i, args, buffers, history>>

TypeOK ==
    /\ flash \in [Page -> Content]
    /\ configured \in BOOLEAN
    /\ cmd \in [op : {"none", "erase", "program"}, page : Page, data : Content]
    /\ pc \in {"idle", "erase_app", "erase_app_wait",
               "read", "erase", "erase_wait", "write"}
    /\ i \in 0 .. (IF RowPages > NumRows THEN RowPages ELSE NumRows)
    /\ page \in PageIds \cup {NoPage} /\ data \in Content
    /\ buffers \in [0 .. RowPages - 1 -> Content]
    /\ erased \in BOOLEAN
    /\ spoiled \subseteq PageIds
    /\ held \subseteq PageIds

Init ==
    /\ flash \in InitialFlash
    /\ configured = FALSE
    /\ cmd = NoCommand
    /\ pc = "idle"
    /\ i = 0
    /\ page = NoPage /\ data = {}
    /\ buffers = ZeroCache
    /\ erased = FALSE
    /\ spoiled = {}
    /\ held = {}
-----------------------------------------------------------------------------
(* A call returns: its locals are gone.                                    *)
Return ==
    /\ pc' = "idle"
    /\ i' = 0
    /\ page' = NoPage /\ data' = {}
    /\ buffers' = ZeroCache

(* The driver.  Until nvm_set_config has run, its idea of the flash is     *)
(* zero pages of zero bytes.                                               *)
nvm_is_ready == cmd.op = "none"

(* Mutant: the driver knows the size of its flash without being told.      *)
LimitOfDevice == NumRows * RowPages

Limit == IF configured THEN NumRows * RowPages ELSE 0

(* The address checks of nvm_erase_row, and those of nvm_read_buffer and   *)
(* nvm_write_buffer, which compare the length with the page size as well.  *)
MayErase(p) == p <= Limit
MayTransfer(p) == p <= Limit /\ configured

EraseRow(row) == cmd' = [op |-> "erase", page |-> row * RowPages, data |-> {}]
WritePage(p, d) == cmd' = [op |-> "program", page |-> p, data |-> d]

(* config_nvm: a busy controller is refused, and nobody looks.             *)
ConfigNvm ==
    /\ pc = "idle"
    /\ nvm_is_ready
    /\ configured' = TRUE
    /\ UNCHANGED <<flash, cmd, pc, i, args, buffers, history>>
-----------------------------------------------------------------------------
(* erase_application: the rows of the application one by one, passing over *)
(* those the driver refuses.                                               *)
EraseApplication ==
    /\ pc = "idle"
    /\ pc' = "erase_app"
    /\ i' = 0
    /\ erased' = FALSE
    /\ spoiled' = {}
    /\ held' = {}
    /\ UNCHANGED <<device, args, buffers>>

(* Mutant: the loop goes on to the row whose number is NVM_SIZE.           *)
EraseAppRowPastEnd ==
    LET row == AppRow + i IN
    /\ pc = "erase_app"
    /\ row <= NumRows
    /\ IF MayErase(row * RowPages)
       THEN nvm_is_ready /\ EraseRow(row) /\ pc' = "erase_app_wait" /\ UNCHANGED i
       ELSE i' = i + 1 /\ UNCHANGED <<cmd, pc>>
    /\ UNCHANGED <<flash, configured, args, buffers, history>>

(* Mutant: the row is tried until the driver accepts it.                   *)
EraseAppRowInsist ==
    LET row == AppRow + i IN
    /\ pc = "erase_app"
    /\ row < NumRows
    /\ IF MayErase(row * RowPages)
       THEN nvm_is_ready /\ EraseRow(row) /\ pc' = "erase_app_wait"
       ELSE UNCHANGED <<cmd, pc>>
    /\ UNCHANGED <<flash, configured, i, args, buffers, history>>

EraseAppRow ==
    LET row == AppRow + i IN
    /\ pc = "erase_app"
    /\ row < NumRows
    /\ IF MayErase(row * RowPages)
       THEN nvm_is_ready /\ EraseRow(row) /\ pc' = "erase_app_wait" /\ UNCHANGED i
       ELSE i' = i + 1 /\ UNCHANGED <<cmd, pc>>
    /\ UNCHANGED <<flash, configured, args, buffers, history>>

EraseAppWait ==
    /\ pc = "erase_app_wait"
    /\ nvm_is_ready
    /\ i' = i + 1
    /\ pc' = "erase_app"
    /\ UNCHANGED <<device, args, buffers, history>>

EraseAppDone ==
    /\ pc = "erase_app"
    /\ AppRow + i = NumRows
    /\ Return
    /\ erased' = configured
    /\ UNCHANGED <<device, spoiled, held>>
-----------------------------------------------------------------------------
(* update_page: cache the root row, replace one page of the cache, erase,  *)
(* write the cache back.  Errors other than STATUS_BUSY are passed over.   *)
UpdatePage ==
    /\ pc = "idle"
    /\ page' \in PageIds /\ data' \in Payload[page']
    /\ pc' = "read"
    /\ i' = 0
    /\ buffers' = ZeroCache
    /\ spoiled' = IF data' = Firmware[page'] THEN spoiled ELSE spoiled \cup {page'}
    /\ UNCHANGED <<device, erased, held>>

Root == root_page(page) * RowPages

ReadPage ==
    /\ pc = "read"
    /\ i < RowPages
    /\ IF MayTransfer(Root + i)
       THEN nvm_is_ready /\ buffers' = [buffers EXCEPT ![i] = flash[Root + i]]
       ELSE UNCHANGED buffers
    /\ i' = i + 1
    /\ UNCHANGED <<device, pc, args, history>>

(* Mutant: the row is cached up to the page that is replaced only.         *)
LoadPageEarly ==
    /\ pc = "read"
    /\ i = page % RowPages
    /\ buffers' = [buffers EXCEPT ![page % RowPages] = data]
    /\ i' = 0
    /\ pc' = "erase"
    /\ UNCHANGED <<device, args, history>>

LoadPage ==
    /\ pc = "read"
    /\ i = RowPages
    /\ buffers' = [buffers EXCEPT ![page % RowPages] = data]
    /\ i' = 0
    /\ pc' = "erase"
    /\ UNCHANGED <<device, args, history>>

(* Mutant: the row erased is always the one before the argument's.         *)
EraseUpdatedRowBelow ==
    /\ pc = "erase"
    /\ IF MayErase((page - 1) * RowPages)
       THEN nvm_is_ready /\ EraseRow(page - 1) /\ pc' = "erase_wait"
       ELSE UNCHANGED cmd /\ pc' = "write"
    /\ UNCHANGED <<flash, configured, i, args, buffers, history>>

(* nvm_erase_row(page_address), the row the argument names, not its root.  *)
EraseUpdatedRow ==
    /\ pc = "erase"
    /\ IF MayErase(page * RowPages)
       THEN nvm_is_ready /\ EraseRow(page) /\ pc' = "erase_wait"
       ELSE UNCHANGED cmd /\ pc' = "write"
    /\ UNCHANGED <<flash, configured, i, args, buffers, history>>

EraseWait ==
    /\ pc = "erase_wait"
    /\ nvm_is_ready
    /\ pc' = "write"
    /\ UNCHANGED <<device, i, args, buffers, history>>

(* The driver returns as soon as the page is in the controller's buffer.   *)
WriteBack ==
    /\ pc = "write"
    /\ i < RowPages
    /\ IF MayTransfer(Root + i)
       THEN nvm_is_ready /\ WritePage(Root + i, buffers[i])
       ELSE UNCHANGED cmd
    /\ i' = i + 1
    /\ UNCHANGED <<flash, configured, pc, args, buffers, history>>

UpdateDone ==
    /\ pc = "write"
    /\ i = RowPages
    /\ Return
    /\ held' = IF configured THEN held \cup {page} ELSE held
    /\ UNCHANGED <<device, erased, spoiled>>
-----------------------------------------------------------------------------
(* The controller completes its command.                                   *)
Erased(row) == [p \in Page |-> IF p \in row THEN Bits ELSE flash[p]]
Programmed(p, d) == [flash EXCEPT ![p] = @ \cap d]

CommandRow == cmd.page .. cmd.page + RowPages - 1

Finish ==
    /\ ~nvm_is_ready
    /\ flash' = IF cmd.op = "erase" THEN Erased(CommandRow)
                ELSE Programmed(cmd.page, cmd.data)
    /\ cmd' = NoCommand
    /\ UNCHANGED <<configured, pc, i, args, buffers, history>>

(* Power is lost: a command in progress has set, or cleared, any of the    *)
(* bits it was to; the RAM is gone.                                        *)
Torn ==
    IF cmd.op = "erase"
    THEN {[p \in Page |-> IF p \in CommandRow THEN flash[p] \cup extra[p - cmd.page]
                          ELSE flash[p]] :
             extra \in [0 .. RowPages - 1 -> Content]}
    ELSE IF cmd.op = "program"
    THEN {[flash EXCEPT ![cmd.page] = (@ \cap cmd.data) \cup kept] :
             kept \in SUBSET flash[cmd.page]}
    ELSE {flash}

(* The row that holds q is being rewritten, or its last page still is, the *)
(* call that asked for it having returned.                                 *)
InFlight(q) ==
    \/ pc # "idle" /\ root_page(q) = root_page(page)
    \/ cmd.op # "none" /\ cmd.page \in RowOf(root_page(q))

PowerLoss ==
    /\ flash' \in Torn
    /\ configured' = FALSE
    /\ cmd' = NoCommand
    /\ Return
    /\ held' = {q \in held : ~InFlight(q)}
    /\ UNCHANGED <<erased, spoiled>>

Update ==
    UpdatePage \/ ReadPage \/ LoadPage \/ EraseUpdatedRow \/ EraseWait
    \/ WriteBack \/ UpdateDone
EraseApp == EraseApplication \/ EraseAppRow \/ EraseAppWait \/ EraseAppDone

Next == ConfigNvm \/ EraseApp \/ Update \/ Finish \/ PowerLoss

(* A call that has started goes on, and so does the controller.            *)
Spec ==
    /\ Init /\ [][Next]_vars
    /\ WF_vars(Finish)
    /\ WF_vars(EraseAppRow \/ EraseAppWait \/ EraseAppDone)
    /\ WF_vars(ReadPage \/ LoadPage \/ EraseUpdatedRow \/ EraseWait
               \/ WriteBack \/ UpdateDone)
-----------------------------------------------------------------------------
(* No call, however it is cut short, changes a page of the bootloader      *)
(* (update.c:50, flash.c:91, flash.c:118).                                 *)
BootRows == UNION {RowOf(row) : row \in 0 .. AppRow - 1}
BootRowsUntouched == [][\A p \in BootRows : flash'[p] = flash[p]]_vars

(* After an erase, pages may come in any order and as often as the link    *)
(* repeats them, and power may fail at any of them: every page updated,    *)
(* never with damaged data, and not in the row being written at a failure  *)
(* is in its place, and one that was is there again as soon as it is sent  *)
(* again, whatever has happened to the others (flash.c:81-136).            *)
HeldPacketsInPlace ==
    erased => \A q \in held \ spoiled : ~InFlight(q) => flash[Place(q)] = Firmware[q]

(* Without config_nvm, which no program of the repository calls, no call   *)
(* changes the flash (nvm.c:446-463, nvm.c:634).                           *)
UnconfiguredIsInert == [][~configured => flash' = flash]_vars

(* A call returns: no loop on STATUS_BUSY lasts, as long as power does.    *)
CallsReturn == pc # "idle" ~> pc = "idle"
-----------------------------------------------------------------------------
(* The row of the page being updated has been erased for it, which happens *)
(* where the page is the first of its row, and is being written back.      *)
Rewriting ==
    /\ configured /\ page = root_page(page)
    /\ pc = "write" \/ (pc = "erase_wait" /\ nvm_is_ready)

InCache(q) == Rewriting /\ root_page(q) = page /\ q % RowPages >= i

(* Where a page is: in the flash, on its way there, or in the cache of its *)
(* row.                                                                    *)
ContentOf(q) ==
    IF InCache(q) THEN buffers[q % RowPages]
    ELSE IF cmd.op = "program" /\ cmd.page = Place(q)
    THEN flash[Place(q)] \cap cmd.data
    ELSE flash[Place(q)]

Kept == [q \in PageIds |-> ContentOf(q)]
Roots == [q \in PageIds |-> root_page(q)]

Stored == Rewriting \/ (configured /\ pc = "write" /\ i > page % RowPages)

Call ==
    IF pc = "idle" THEN "none"
    ELSE IF pc \in {"erase_app", "erase_app_wait"} THEN "wipe"
    ELSE IF Stored THEN "stored" ELSE "put"

Pages ==
    INSTANCE PageStore WITH
        Row <- Roots, kept <- Kept, ready <- configured, call <- Call

(* The code departs from PageStore in one place: update_page erases the    *)
(* row its argument names, which is the one it rewrites only where the     *)
(* page is the first of its row.  Another page is programmed over what is  *)
(* there, and cannot get back a bit that is cleared.                       *)
Overwrite ==
    /\ Call = "put" /\ Call' = "stored" /\ configured
    /\ page # root_page(page) /\ ~(data \subseteq Kept[page])
    /\ \A q \in PageIds \ {page} : Kept'[q] = Kept[q]
    /\ UNCHANGED <<configured, page, data>>

(* "Update one page in a row while keeping the other three pages data"     *)
(* (flash.c:76): whatever lies in the flash, and with page contents on     *)
(* their way through the cache and the controller, each call stores one    *)
(* page, once, has done so when it returns, and leaves the others alone,   *)
(* and a failure of power costs the pages of one row.  Of the page itself  *)
(* nothing is said where it is put over cleared bits in a row that the     *)
(* call has not erased.                                                    *)
StoresPagesUnlessOverwriting ==
    Pages!Init /\ [][Pages!Next \/ Overwrite]_(Pages!vars)
-----------------------------------------------------------------------------
(* flash.c:207-208: "page_number = (row_number * 4) + page_pos_in_row;     *)
(* page_address = page_number * page_size": page n of the image lies n     *)
(* pages after the start of the application, where verify.c reads it.      *)
ImageContiguous ==
    erased /\ pc = "idle" /\ nvm_is_ready =>
        \A q \in held \ spoiled : flash[AppRow * RowPages + (q - AppRow)] = Firmware[q]
=============================================================================
