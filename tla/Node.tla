-------------------------------- MODULE Node --------------------------------
(***************************************************************************)
(* One node with its flash: the boot loader of Boot.tla, whose slot is now *)
(* what Flash.tla's controller has made of the application's rows, and the *)
(* commands of boot/update.c that write them, one page at a time, with     *)
(* pages that arrive damaged and resets that fall in the middle of a       *)
(* write.  Boot's own view of the slot, an image with four verdicts, is    *)
(* computed from the pages.                                                *)
(***************************************************************************)
EXTENDS Naturals, FiniteSets

CONSTANTS
    MaxBootAttempts, AppId, AppRom, NoVector, Vectors, GarbageBytes, \* Boot
    RowPages, NumRows, AppRow, PageIds, Bits, Firmware, Payload,     \* Flash
    InitialFlash,
    Magic,      \* first pages that start with IMAGE_MAGIC
    Sized,      \* first pages whose data_size ends inside the flash
    VectorIn,   \* hdr->vector_addr of each first page
    CrcMatch,   \* contents of the slot whose crc field is that of their data
    Signed      \* contents of the slot that carry a valid signature

VARIABLES
    pc, shm, hdr, crc, ecdsa, vtor, launches, registered,   \* Boot
    flash, configured, cmd, call, i, page, data, buffers,   \* Flash
    erased, spoiled, held

loaderVars == <<pc, shm, hdr, crc, ecdsa, vtor, launches, registered>>
storeVars == <<flash, configured, cmd, call, i, page, data, buffers,
               erased, spoiled, held>>
vars == <<loaderVars, storeVars>>

(* The pages from __approm_start__ on.  The first has the header; as many  *)
(* of them as its data_size says are the image.                            *)
AppHeader == flash[AppRow * RowPages]
AppImage == [p \in AppRow * RowPages .. NumRows * RowPages - 1 |-> flash[p]]

Slot ==
    [magic  |-> AppHeader \in Magic,
     fits   |-> AppHeader \in Sized,
     crc    |-> AppImage \in CrcMatch,
     sig    |-> AppImage \in Signed,
     vector |-> VectorIn[AppHeader]]

Loader == INSTANCE Boot WITH slot <- Slot
Store == INSTANCE Flash WITH pc <- call

(* What Boot.tla and Flash.tla assume of their constants.                  *)
ASSUME LoaderAssumption ==
    /\ MaxBootAttempts \in 0 .. 254
    /\ AppId \in Loader!Byte
    /\ AppRom \in Nat /\ AppRom % 2 = 0 /\ AppRom >= 2
    /\ Vectors \subseteq Nat /\ NoVector \in Nat
    /\ GarbageBytes \subseteq Loader!Byte
ASSUME StoreAssumption ==
    /\ RowPages \in Nat \ {0} /\ NumRows \in Nat /\ AppRow \in 1 .. NumRows - 1
    /\ Firmware \in [PageIds -> Store!Content]
    /\ Payload \in [PageIds -> SUBSET Store!Content]
    /\ \A p \in PageIds : Firmware[p] \in Payload[p]
    /\ InitialFlash \subseteq [Store!Page -> Store!Content]
    /\ \A p \in PageIds :
          /\ p \in AppRow .. NumRows - 1
          /\ Store!root_page(p) \in AppRow .. NumRows - 1
          /\ p % RowPages \in 0 .. RowPages - 1

ASSUME ImagesAssumption ==
    /\ Magic \subseteq Store!Content /\ Sized \subseteq Store!Content
    /\ VectorIn \in [Store!Content -> Vectors \cup {NoVector}]

Init ==
    /\ Store!Init
    /\ Loader!Init

-----------------------------------------------------------------------------
(* No call of flash.c is running and the controller has finished.          *)
Quiescent == call = "idle" /\ Store!nvm_is_ready

(* Outside the listener nothing touches the flash.                         *)
Run ==
    /\ pc \notin Loader!SoftReset \cup {"listen"}
    /\ UNCHANGED storeVars
    /\ Loader!Cpu

(* Commands 1 and 3 of update.c, and whoever calls config_nvm.             *)
Command ==
    /\ pc = "listen"
    /\ Store!ConfigNvm \/ Store!EraseApplication \/ Store!UpdatePage
    /\ UNCHANGED loaderVars

FlashCall ==
    /\ pc = "listen"
    /\ \/ Store!EraseAppRow \/ Store!EraseAppWait \/ Store!EraseAppDone
       \/ Store!ReadPage \/ Store!LoadPage \/ Store!EraseUpdatedRow
       \/ Store!EraseWait \/ Store!WriteBack \/ Store!UpdateDone
    /\ UNCHANGED loaderVars

(* The controller does not ask what the processor is at.                   *)
ControllerFinishes ==
    /\ Store!Finish
    /\ UNCHANGED loaderVars

(* Mutant: the listener is left with a command still in the controller.    *)
StopListeningAtOnce ==
    /\ UNCHANGED storeVars
    /\ Loader!ListenTimeout

(* 60000 of silence, and the loop of main after it.  They, and the 1000    *)
(* before command 4 resets the node, outlast the controller.               *)
StopListening ==
    /\ Quiescent
    /\ UNCHANGED storeVars
    /\ Loader!ListenTimeout

(* Mutant: the controller's command survives the reset.                    *)
ResetSparesController ==
    /\ UNCHANGED storeVars
    /\ Loader!ResetPin \/ Loader!PowerCycle

(* A reset cuts the controller's command short, like a loss of power, and  *)
(* the start code clears the driver's record of the flash.                 *)
ResetWhenever ==
    /\ Store!PowerLoss
    /\ Loader!ResetPin \/ Loader!PowerCycle

RebootCommand ==
    /\ Quiescent
    /\ Store!PowerLoss
    /\ Loader!RebootCommand

SystemReset ==
    /\ Store!PowerLoss
    /\ Loader!SystemReset

(* A listener that hangs with the controller at work leaves the flash as   *)
(* one that hangs after it.                                                *)
HangUp ==
    /\ Quiescent
    /\ UNCHANGED storeVars
    /\ Loader!HangUp

Cpu == Run \/ FlashCall \/ ControllerFinishes \/ StopListening \/ SystemReset
Disturb == Command \/ ResetWhenever \/ RebootCommand \/ HangUp

Next == Cpu \/ Disturb

(* The processor and the controller go on; commands need not come.         *)
Spec == Init /\ [][Next]_vars /\ WF_vars(Cpu)

-----------------------------------------------------------------------------
TypeOK == Loader!TypeOK /\ Store!TypeOK

(* What runs is, byte for byte, an image that was signed: not half an      *)
(* update, not one that arrived damaged, not one whose last page the       *)
(* controller was still writing (main.c:52-61, update.c:50-51,             *)
(* micro-driver-sx1276.c:126: the radio lets damaged payloads through).    *)
RunsSignedCode ==
    pc \in Loader!Verified \cup Loader!Running =>
        AppImage \in Signed /\ AppImage \in CrcMatch /\ Quiescent

(* The loader, as Boot.tla has it, is what this node's loader does: its    *)
(* flash changes under the listener or by a reset there, never while an    *)
(* image is verified or has been started (main.c:41-83).                   *)
ImplementsBoot == Loader!Init /\ [][Loader!Next]_(Loader!vars)

(* Left alone with a slot the loader refuses, the node is ready for the    *)
(* next update over and over, unless it hangs: whether the last one was    *)
(* cut short, came damaged, was never begun because nothing configured the *)
(* driver, or came whole but longer than a row, and so lies where verify.c *)
(* does not read it.  The calls of flash.c have ended and the controller   *)
(* is done (main.c:43-83, update.c:89-101, flash.c:24-136).                *)
RefusedSlotListens ==
    <>[][~Disturb]_vars =>
        \/ <>[](pc = "hung") \/ <>[]Loader!Trusted(Slot)
        \/ []<>(pc = "listen" /\ Quiescent)
=============================================================================
