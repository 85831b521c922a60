----------------------------- MODULE NodeProofs -----------------------------
(***************************************************************************)
(* Proofs about Node, for every geometry of the flash, every set of images *)
(* and payloads: the boot loader and the flash writer together.  The       *)
(* invariants of BootProofs and FlashProofs hold of the two parts, since   *)
(* every step of the node is a step of each; what is new is between them.  *)
(***************************************************************************)
EXTENDS Node, TLAPS

L == INSTANCE BootProofs WITH slot <- Slot
S == INSTANCE FlashProofs WITH pc <- call

(* The controller works, and a call of flash.c runs, under the listener    *)
(* only.                                                                   *)
Attended == pc # "listen" => Quiescent

NodeInv == L!Inv /\ S!FlashInv /\ Attended

-----------------------------------------------------------------------------
(* L and Loader are the same module, and so are S and Store.               *)
LEMMA LoaderIsL ==
    /\ Loader!Init <=> L!Init
    /\ [Loader!Next]_(Loader!vars) <=> [L!Next]_(L!vars)
    /\ Loader!TypeOK <=> L!TypeOK
    /\ Loader!VerifiedLaunch <=> L!VerifiedLaunch
    /\ Loader!LockedOut <=> L!LockedOut
    /\ Loader!LockedOut' <=> L!LockedOut'
  BY
    DEF L!locals, Loader!locals, L!Image, Loader!Image, L!Trusted, Loader!Trusted,
        L!TableBase, Loader!TableBase, L!VectorAccepted, Loader!VectorAccepted,
        L!AppTable, Loader!AppTable, L!BootTable, Loader!BootTable,
        L!image_get_header, Loader!image_get_header, L!Loading, Loader!Loading,
        L!Verified, Loader!Verified, L!Running, Loader!Running, L!Updating,
        Loader!Updating, L!SoftReset, Loader!SoftReset, L!PC, Loader!PC,
        L!PowerUpMemory, Loader!PowerUpMemory, L!Init, Loader!Init, L!ResetCore,
        Loader!ResetCore, L!SharedMemoryInit, Loader!SharedMemoryInit, L!TryApp,
        Loader!TryApp, L!FindHeader, Loader!FindHeader, L!EnterUpdater,
        Loader!EnterUpdater, L!Readable, Loader!Readable, L!Fault, Loader!Fault,
        L!CrcVerification, Loader!CrcVerification, L!SecurityVerification,
        Loader!SecurityVerification, L!CheckVerdicts, Loader!CheckVerdicts,
        L!AppStart, Loader!AppStart, L!CountLaunch, Loader!CountLaunch, L!JumpToApp,
        Loader!JumpToApp, L!CountFailure, Loader!CountFailure, L!SystemReset,
        Loader!SystemReset, L!InitUpdate, Loader!InitUpdate, L!ListenTimeout,
        Loader!ListenTimeout, L!AppEntry, Loader!AppEntry, L!AppClearCounter,
        Loader!AppClearCounter, L!AppRequestDfu, Loader!AppRequestDfu,
        L!AppSetUpdateId, Loader!AppSetUpdateId, L!Cpu, Loader!Cpu, L!SlotAtReset,
        Loader!SlotAtReset, L!ResetPin, Loader!ResetPin, L!PowerCycle,
        Loader!PowerCycle, L!Reprogram, Loader!Reprogram, L!RebootCommand,
        Loader!RebootCommand, L!UpdateWrites, Loader!UpdateWrites, L!HangUp,
        Loader!HangUp, L!Disturb, Loader!Disturb, L!Next, Loader!Next,
        L!VerifiedLaunch, Loader!VerifiedLaunch, L!Byte, Loader!Byte,
        L!DFU_REQUESTED, Loader!DFU_REQUESTED, L!shared_memory_t,
        Loader!shared_memory_t, L!shared_memory_init, Loader!shared_memory_init,
        L!shared_memory_set_flag, Loader!shared_memory_set_flag,
        L!shared_memory_is_dfu_requested, Loader!shared_memory_is_dfu_requested,
        L!shared_memory_set_dfu_requested, Loader!shared_memory_set_dfu_requested,
        L!shared_memory_increment_boot_counter,
        Loader!shared_memory_increment_boot_counter,
        L!shared_memory_clear_boot_counter, Loader!shared_memory_clear_boot_counter,
        L!shared_memory_set_update_id, Loader!shared_memory_set_update_id, L!vars,
        Loader!vars, L!history, Loader!history, L!TypeOK, Loader!TypeOK, L!LockedOut,
        Loader!LockedOut, L!Tries, Loader!Tries

LEMMA StoreIsS ==
    /\ Store!Init <=> S!Init
    /\ [Store!Next]_(Store!vars) <=> [S!Next]_(S!vars)
    /\ Store!TypeOK <=> S!TypeOK
    /\ Store!HeldPacketsInPlace <=> S!HeldPacketsInPlace
    /\ Store!BootRows = S!BootRows
  BY
    DEF S!Page, Store!Page, S!Content, Store!Content, S!root_page, Store!root_page,
        S!RowOf, Store!RowOf, S!NoCommand, Store!NoCommand, S!NoPage, Store!NoPage,
        S!ZeroCache, Store!ZeroCache, S!history, Store!history, S!device,
        Store!device, S!args, Store!args, S!vars, Store!vars, S!Init, Store!Init,
        S!Return, Store!Return, S!nvm_is_ready, Store!nvm_is_ready, S!Limit,
        Store!Limit, S!MayErase, Store!MayErase, S!MayTransfer, Store!MayTransfer,
        S!EraseRow, Store!EraseRow, S!WritePage, Store!WritePage, S!ConfigNvm,
        Store!ConfigNvm, S!EraseApplication, Store!EraseApplication, S!EraseAppRow,
        Store!EraseAppRow, S!EraseAppWait, Store!EraseAppWait, S!EraseAppDone,
        Store!EraseAppDone, S!UpdatePage, Store!UpdatePage, S!Root, Store!Root,
        S!ReadPage, Store!ReadPage, S!LoadPage, Store!LoadPage, S!EraseUpdatedRow,
        Store!EraseUpdatedRow, S!EraseWait, Store!EraseWait, S!WriteBack,
        Store!WriteBack, S!UpdateDone, Store!UpdateDone, S!Erased, Store!Erased,
        S!Programmed, Store!Programmed, S!CommandRow, Store!CommandRow, S!Finish,
        Store!Finish, S!Torn, Store!Torn, S!PowerLoss, Store!PowerLoss, S!Update,
        Store!Update, S!EraseApp, Store!EraseApp, S!Next, Store!Next, S!InFlight,
        Store!InFlight, S!HeldPacketsInPlace, Store!HeldPacketsInPlace, S!Place,
        Store!Place, S!TypeOK, Store!TypeOK, S!BootRows,
        Store!BootRows

LEMMA StoreIsSNext == S!TypeOK' => Store!TypeOK'
  BY DEF S!TypeOK, Store!TypeOK, S!Content, Store!Content, S!Page, Store!Page, S!NoPage,
         Store!NoPage

LEMMA LoaderKeepsInv == L!Inv /\ [Loader!Next]_(Loader!vars) => L!Inv'
  <1>1. L!Inv /\ [L!Next]_(L!vars) => L!Inv'
    BY LoaderAssumption, L!StepInv DEF Loader!Byte, L!Byte
  <1> QED BY <1>1, LoaderIsL

LEMMA LoaderInit == Loader!Init => L!Inv
  <1>1. L!Init => L!Inv
    BY LoaderAssumption, L!InitInv DEF Loader!Byte, L!Byte
  <1> QED BY <1>1, LoaderIsL

LEMMA StoreKeepsInv == S!FlashInv /\ [Store!Next]_(Store!vars) => S!FlashInv'
  <1>1. S!FlashInv /\ [S!Next]_(S!vars) => S!FlashInv'
    BY StoreAssumption, S!FlashInvStep
       DEF Store!Content, Store!Page, Store!root_page, S!Content, S!Page, S!root_page
  <1> QED BY <1>1, StoreIsS

LEMMA StoreInit == Store!Init => S!FlashInv
  <1>1. S!Init => S!FlashInv
    BY StoreAssumption, S!FlashInvInit
       DEF Store!Content, Store!Page, Store!root_page, S!Content, S!Page, S!root_page
  <1> QED BY <1>1, StoreIsS

LEMMA HeldInNode == NodeInv => Store!HeldPacketsInPlace
  <1>1. NodeInv => S!HeldPacketsInPlace
    BY StoreAssumption, S!HeldFromInv
       DEF NodeInv, Store!Content, Store!Page, Store!root_page, S!Content, S!Page,
           S!root_page
  <1> QED BY <1>1, StoreIsS

-----------------------------------------------------------------------------
(* The application's first page exists, and what the loader reads is an    *)
(* image, whatever the flash holds.                                        *)
LEMMA AppHeaderExists == AppRow * RowPages \in Store!Page
  <1>1. AppRow \in 0 .. NumRows - 1 /\ 0 \in 0 .. RowPages - 1
    BY StoreAssumption
  <1>2. AppRow * RowPages \in S!Page
    BY <1>1, StoreAssumption, S!RowPagesExist
       DEF Store!Content, Store!Page, Store!root_page, S!Content, S!Page, S!root_page
  <1> QED BY <1>2 DEF Store!Page, S!Page

LEMMA SlotIsImageNext == Store!TypeOK' => Slot' \in Loader!Image
  <1> SUFFICES ASSUME Store!TypeOK' PROVE Slot' \in Loader!Image
    OBVIOUS
  <1>1. AppHeader' \in Store!Content
    BY AppHeaderExists DEF Store!TypeOK, AppHeader
  <1>2. VectorIn[AppHeader'] \in Vectors \cup {NoVector}
    BY <1>1, ImagesAssumption
  <1> QED BY <1>2 DEF Slot, Loader!Image

LEMMA SameSlot == UNCHANGED flash => UNCHANGED Slot
  BY DEF Slot, AppHeader, AppImage

-----------------------------------------------------------------------------
(* Every step of the node is a step of flash.c, its controller or the      *)
(* power, or leaves them alone.                                            *)
LEMMA NodeStepsStore == [Next]_vars => [Store!Next]_(Store!vars)
  <1> SUFFICES ASSUME [Next]_vars PROVE [Store!Next]_(Store!vars)
    OBVIOUS
  <1>1. UNCHANGED storeVars => UNCHANGED Store!vars
    BY DEF storeVars, Store!vars, Store!device, Store!args, Store!history
  <1>2. CASE Run \/ StopListening \/ HangUp \/ UNCHANGED vars
    BY <1>1, <1>2 DEF Run, StopListening, HangUp, vars
  <1>3. CASE Command
    BY <1>3 DEF Command, Store!Next, Store!EraseApp, Store!Update
  <1>4. CASE FlashCall
    BY <1>4 DEF FlashCall, Store!Next, Store!EraseApp, Store!Update
  <1>5. CASE ControllerFinishes \/ ResetWhenever \/ RebootCommand \/ SystemReset
    BY <1>5 DEF ControllerFinishes, ResetWhenever, RebootCommand, SystemReset, Store!Next
  <1> QED BY <1>2, <1>3, <1>4, <1>5 DEF Next, Cpu, Disturb

(* The calls and commands of flash.c do not write: the controller does.    *)
LEMMA CallsLeaveFlash ==
    Command \/ FlashCall => UNCHANGED flash
  BY DEF Command, FlashCall, Store!ConfigNvm, Store!EraseApplication, Store!UpdatePage,
         Store!EraseAppRow, Store!EraseAppWait, Store!EraseAppDone, Store!ReadPage,
         Store!LoadPage, Store!EraseUpdatedRow, Store!EraseWait, Store!WriteBack,
         Store!UpdateDone, Store!device

(* Nor does a loss of power, when there is nothing to cut short.           *)
LEMMA QuietLossLeavesFlash ==
    Store!nvm_is_ready /\ Store!PowerLoss => UNCHANGED flash
  BY DEF Store!nvm_is_ready, Store!PowerLoss, Store!Torn

(* Every step of the node is one that Boot allows: the slot changes only   *)
(* under the listener, the rest by the loader's own steps.                 *)
LEMMA NodeStepsLoader ==
    ASSUME NodeInv, S!FlashInv', [Next]_vars PROVE [Loader!Next]_(Loader!vars)
  <1>1. Store!TypeOK'
    BY StoreIsSNext DEF S!FlashInv, S!Shape
  <1>2. UNCHANGED <<loaderVars, flash>> => UNCHANGED Loader!vars
    BY SameSlot DEF loaderVars, Loader!vars, Loader!locals, Loader!history
  <1>3. CASE Run
    BY <1>3 DEF Run, Loader!Next
  <1>4. CASE Command \/ FlashCall
    BY <1>2, <1>4, CallsLeaveFlash DEF Command, FlashCall
  <1>5. CASE ControllerFinishes
    <2>1. pc = "listen" /\ UNCHANGED loaderVars
      BY <1>5 DEF ControllerFinishes, Store!Finish, NodeInv, Attended, Quiescent
    <2>2. CASE Slot' = Slot
      BY <2>1, <2>2 DEF loaderVars, Loader!vars, Loader!locals, Loader!history
    <2>3. CASE Slot' # Slot
      BY <1>1, <2>1, <2>3, SlotIsImageNext
         DEF loaderVars, Loader!locals, Loader!history, Loader!Next, Loader!Disturb,
             Loader!UpdateWrites
    <2> QED BY <2>2, <2>3
  <1>6. CASE StopListening \/ SystemReset
    BY <1>6 DEF StopListening, SystemReset, Loader!Next, Loader!Cpu
  <1>7. CASE ResetWhenever \/ RebootCommand \/ HangUp
    BY <1>7 DEF ResetWhenever, RebootCommand, HangUp, Loader!Next, Loader!Disturb
  <1>8. CASE UNCHANGED vars
    BY <1>2, <1>8 DEF vars, storeVars
  <1> QED BY <1>3, <1>4, <1>5, <1>6, <1>7, <1>8 DEF Next, Cpu, Disturb

(* The reset of the composition is a step of both at once, and neither     *)
(* keeps an outcome from the other: whatever page a cut command leaves     *)
(* behind, the loader's model has a reset to that slot, and one that finds *)
(* the slot as it was when the loader itself was at work                   *)
(* (load_app.c:22-48, flash.c:24-136).                                     *)
THEOREM ResetsFree ==
    NodeInv /\ Store!PowerLoss =>
        Loader!SlotAtReset /\ (pc \in Loader!SoftReset => UNCHANGED Slot)
  <1> SUFFICES ASSUME NodeInv, Store!PowerLoss
               PROVE  Loader!SlotAtReset /\ (pc \in Loader!SoftReset => UNCHANGED Slot)
    OBVIOUS
  <1>1. CASE pc = "listen"
    <2>1. S!FlashInv'
      BY StoreKeepsInv DEF NodeInv, Store!Next
    <2>2. Slot' \in Loader!Image
      BY <2>1, StoreIsSNext, SlotIsImageNext DEF S!FlashInv, S!Shape
    <2> QED BY <1>1, <2>2 DEF Loader!SlotAtReset, Loader!SoftReset
  <1>2. CASE pc # "listen"
    <2>1. UNCHANGED Slot
      BY <1>2, QuietLossLeavesFlash, SameSlot DEF NodeInv, Attended, Quiescent
    <2> QED BY <1>2, <2>1 DEF Loader!SlotAtReset
  <1> QED BY <1>1, <1>2

(* The listener is the only one to call flash.c, and whoever leaves it     *)
(* waits for the controller or stops it.                                   *)
LEMMA AttendedStep == NodeInv /\ [Next]_vars => Attended'
  <1> SUFFICES ASSUME NodeInv, [Next]_vars PROVE Attended'
    OBVIOUS
  <1> USE DEF Quiescent, Store!nvm_is_ready, Attended, NodeInv
  <1>1. CASE Run
    BY <1>1 DEF Run, storeVars
  <1>2. CASE Command \/ FlashCall
    BY <1>2 DEF Command, FlashCall, loaderVars
  <1>3. CASE ControllerFinishes
    BY <1>3 DEF ControllerFinishes, Store!Finish, loaderVars
  <1>4. CASE StopListening \/ HangUp
    BY <1>4 DEF StopListening, HangUp, storeVars
  <1>5. CASE ResetWhenever \/ RebootCommand \/ SystemReset
    BY <1>5 DEF ResetWhenever, RebootCommand, SystemReset, Store!PowerLoss, Store!Return,
                Store!NoCommand
  <1>6. CASE UNCHANGED vars
    BY <1>6 DEF vars, storeVars, loaderVars
  <1> QED BY <1>1, <1>2, <1>3, <1>4, <1>5, <1>6 DEF Next, Cpu, Disturb

-----------------------------------------------------------------------------
LEMMA NodeInit == Init => NodeInv
  <1> SUFFICES ASSUME Init PROVE NodeInv
    OBVIOUS
  <1>1. Attended
    BY DEF Init, Store!Init, Store!NoCommand, Attended, Quiescent, Store!nvm_is_ready
  <1> QED BY <1>1, StoreInit, LoaderInit DEF Init, NodeInv

LEMMA NodeStep == NodeInv /\ [Next]_vars => NodeInv' /\ [Loader!Next]_(Loader!vars)
  <1> SUFFICES ASSUME NodeInv, [Next]_vars
               PROVE  NodeInv' /\ [Loader!Next]_(Loader!vars)
    OBVIOUS
  <1>1. S!FlashInv'
    BY NodeStepsStore, StoreKeepsInv DEF NodeInv
  <1>2. [Loader!Next]_(Loader!vars)
    BY <1>1, NodeStepsLoader
  <1>3. L!Inv'
    BY <1>2, LoaderKeepsInv DEF NodeInv
  <1> QED BY <1>1, <1>2, <1>3, AttendedStep DEF NodeInv

(* The loader's invariant, the flash's, and that the controller is quiet   *)
(* outside the listener hold together in every reachable state.            *)
THEOREM NodeInvariance == Spec => []NodeInv
  BY NodeInit, NodeStep, PTL DEF Spec

(* The loader's state and the store's keep their types together, with the  *)
(* slot that is computed from the flash (main.c:46-83, flash.c:24-136).    *)
THEOREM NodeTypeCorrect == Spec => []TypeOK
  <1>1. NodeInv => TypeOK
    BY LoaderIsL, StoreIsS DEF NodeInv, L!Inv, S!FlashInv, S!Shape, TypeOK
  <1> QED BY <1>1, NodeInvariance, PTL

(* What the loader starts and what runs is a signed image, and the         *)
(* controller has finished with it, whatever pages arrived damaged and     *)
(* whenever the power failed (main.c:52-61, update.c:50-51).               *)
THEOREM OnlySignedCodeRuns == Spec => []RunsSignedCode
  <1>1. ASSUME NodeInv, pc \in Loader!Verified \cup Loader!Running
        PROVE  AppImage \in Signed /\ AppImage \in CrcMatch /\ Quiescent
    <2>1. Loader!Trusted(Slot)
      BY <1>1, LoaderIsL DEF NodeInv, L!Inv, L!VerdictsHold, Loader!VerifiedLaunch
    <2>2. AppImage \in Signed /\ AppImage \in CrcMatch
      BY <2>1 DEF Loader!Trusted, Slot
    <2>3. pc # "listen"
      BY <1>1 DEF Loader!Verified, Loader!Running
    <2> QED BY <1>1, <2>2, <2>3 DEF NodeInv, Attended
  <1>2. NodeInv => RunsSignedCode
    BY <1>1 DEF RunsSignedCode
  <1> QED BY <1>2, NodeInvariance, PTL

(* The node's loader is the one of Boot.tla: writes and cut writes change  *)
(* the slot under the listener only (main.c:41-83).                        *)
THEOREM NodeImplementsBoot == Spec => ImplementsBoot
  <1>1. Init => Loader!Init
    BY DEF Init
  <1> QED BY <1>1, NodeInvariance, NodeStep, PTL DEF Spec, ImplementsBoot

(* What the flash writer promises alone it keeps inside the node: no page  *)
(* that was taken is lost, whatever the loader and the resets do meanwhile *)
(* (flash.c:74-136).                                                       *)
THEOREM NodeKeepsPages == Spec => []Store!HeldPacketsInPlace
  BY HeldInNode, NodeInvariance, PTL

(* Nothing the node does, no command, reset or cut write, changes a page   *)
(* of the boot loader itself: the node always has a loader to come back to *)
(* (update.c:47-101, flash.c:24-136).                                      *)
THEOREM NodeSparesLoader == Spec => [][\A p \in Store!BootRows : flash'[p] = flash[p]]_flash
  <1>1. ASSUME NodeInv, [Next]_vars, NEW p \in Store!BootRows PROVE flash'[p] = flash[p]
    <2>1. [S!Next]_(S!vars) /\ S!Shape /\ p \in S!BootRows
      BY <1>1, NodeStepsStore, StoreIsS DEF NodeInv, S!FlashInv
    <2> QED BY <2>1, StoreAssumption, S!BootRowsStep
            DEF Store!Content, Store!Page, Store!root_page, S!Content, S!Page, S!root_page
  <1>2. NodeInv /\ [Next]_vars => [\A p \in Store!BootRows : flash'[p] = flash[p]]_flash
    BY <1>1
  <1> QED BY <1>2, NodeInvariance, PTL DEF Spec

(* Nor does an update, complete or cut short, give a locked-out node its   *)
(* budget back: only the loss of power does (main.c:43, update.c:89-101).  *)
THEOREM UpdatesDoNotUnlock ==
    Spec => [][Loader!LockedOut /\ ~Loader!LockedOut' => ~shm'.initialised]_vars
  <1>1. NodeInv /\ [Next]_vars =>
           (Loader!LockedOut /\ ~Loader!LockedOut' => ~shm'.initialised)
    <2> SUFFICES ASSUME NodeInv, [Next]_vars
                 PROVE  Loader!LockedOut /\ ~Loader!LockedOut' => ~shm'.initialised
      OBVIOUS
    <2>1. L!Inv /\ [L!Next]_(L!vars)
      BY NodeStep, LoaderIsL DEF NodeInv
    <2>2. L!LockedOut /\ ~L!LockedOut' => ~shm'.initialised
      BY <2>1, LoaderAssumption, L!LockoutStep DEF Loader!Byte, L!Byte
    <2> QED BY <2>2, LoaderIsL
  <1> QED BY <1>1, NodeInvariance, PTL DEF Spec
=============================================================================
