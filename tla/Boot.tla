-------------------------------- MODULE Boot --------------------------------
(***************************************************************************)
(* One node from reset to reset: boot/main.c, boot/load_app.c,             *)
(* framework/image.c and the two checks of boot/verify.c, followed by the  *)
(* application of app/main.cpp, which hands the node back to the updater.  *)
(* The node may be reset, lose its power or be reprogrammed between any    *)
(* two steps.  `pc' names the step about to be taken.                      *)
(*                                                                         *)
(* Addresses are counted in units of 128 bytes, the size of image_hdr_t    *)
(* (half of what SCB_VTOR_TBLOFF_Msk keeps).                               *)
(***************************************************************************)
EXTENDS SharedMemory

CONSTANTS
    MaxBootAttempts,  \* MAX_BOOT_ATTEMPTS
    AppId,            \* the update id the application stores
    AppRom,           \* __approm_start__
    NoVector,         \* hdr->vector_addr of an image that never was linked
    Vectors,          \* the values of hdr->vector_addr in the images tried
    GarbageBytes      \* what a byte of RAM may hold after a cold power-up

ASSUME MaxBootAttemptsAssumption == MaxBootAttempts \in 0 .. 254
ASSUME AppIdAssumption == AppId \in Byte
ASSUME AppRomAssumption == AppRom \in Nat /\ AppRom % 2 = 0 /\ AppRom >= 2
ASSUME VectorsAssumption == Vectors \subseteq Nat /\ NoVector \in Nat
ASSUME GarbageBytesAssumption == GarbageBytes \subseteq Byte

VARIABLES
    pc,
    shm,         \* the shared RAM record
    slot,        \* the image in the application's flash
    hdr,         \* main's hdr: the header in the slot, or NULL
    crc, ecdsa,  \* main's locals: the verdicts of the two checks
    vtor,        \* SCB->VTOR
    launches,    \* history: jumps since power-up or the last cleared counter
    registered   \* history: the application has stored its id since power-up

locals == <<hdr, crc, ecdsa>>
history == <<launches, registered>>
vars == <<pc, shm, slot, locals, vtor, history>>

-----------------------------------------------------------------------------
(* The image: what the header and the code behind it make the checks see.  *)
(* fits: header plus data_size bytes lie inside the flash.                 *)
Image ==
    [magic : BOOLEAN, fits : BOOLEAN, crc : BOOLEAN, sig : BOOLEAN,
     vector : Vectors \cup {NoVector}]

Trusted(img) == img.magic /\ img.fits /\ img.crc /\ img.sig

(* `address & SCB_VTOR_TBLOFF_Msk'.                                        *)
TableBase(address) == address - (address % 2)

(* app_start's two tests: there is an application, and the address minus   *)
(* the header has no bit outside the mask.                                 *)
VectorAccepted(address) ==
    /\ address # NoVector
    /\ address >= 1
    /\ TableBase(address - 1) = address - 1

(* Where application.ld puts the vector table: right after the header.     *)
AppTable == AppRom + 1
BootTable == 0

image_get_header == IF slot.magic THEN "slot" ELSE "NULL"

-----------------------------------------------------------------------------
Loading == {"crc", "ecdsa", "check", "start", "count"}
Verified == {"start", "count", "jump"}
Running == {"app", "app_clear", "app_dfu", "app_id", "app_reset"}
Updating == {"init_update", "listen", "give_up"}
SoftReset == {"retry_reset", "give_up", "app_reset"}
PC == {"reset", "decide", "retry", "hung"}
         \cup Loading \cup Verified \cup Running \cup Updating \cup SoftReset

TypeOK ==
    /\ pc \in PC
    /\ shm \in shared_memory_t
    /\ slot \in Image
    /\ hdr \in {"slot", "NULL"}
    /\ crc \in BOOLEAN /\ ecdsa \in BOOLEAN
    /\ vtor \in Nat
    /\ launches \in Nat
    /\ registered \in BOOLEAN

(* A cold power-up leaves anything in the RAM but the marker.              *)
PowerUpMemory ==
    [initialised : {FALSE}, flags : SUBSET {DFU_REQUESTED},
     boot_counter : GarbageBytes, update_id : GarbageBytes]

Init ==
    /\ pc = "reset"
    /\ shm \in PowerUpMemory
    /\ slot \in Image
    /\ hdr = "NULL" /\ crc = FALSE /\ ecdsa = FALSE
    /\ vtor = BootTable
    /\ launches = 0
    /\ registered = FALSE

(* Everything but the shared RAM and the flash starts afresh.              *)
ResetCore ==
    /\ pc' = "reset"
    /\ hdr' = "NULL" /\ crc' = FALSE /\ ecdsa' = FALSE
    /\ vtor' = BootTable
-----------------------------------------------------------------------------
(* main, up to its decision.                                               *)
SharedMemoryInit ==
    /\ pc = "reset"
    /\ shm' = shared_memory_init(shm)
    /\ pc' = "decide"
    /\ UNCHANGED <<slot, locals, vtor, history>>

TryApp ==
    ~shared_memory_is_dfu_requested(shm) /\ shm.boot_counter <= MaxBootAttempts

FindHeader ==
    /\ pc = "decide"
    /\ TryApp
    /\ hdr' = image_get_header
    /\ pc' = "crc"
    /\ UNCHANGED <<shm, slot, crc, ecdsa, vtor, history>>

(* Mutant: the request is not cleared.                                     *)
EnterUpdaterKeepsFlag ==
    /\ pc = "decide"
    /\ ~TryApp
    /\ pc' = "init_update"
    /\ UNCHANGED <<shm, slot, locals, vtor, history>>

(* Mutant: entering the updater restores the budget.                       *)
EnterUpdaterForgives ==
    /\ pc = "decide"
    /\ ~TryApp
    /\ shm' = shared_memory_clear_boot_counter(
                 shared_memory_set_dfu_requested(shm, FALSE))
    /\ pc' = "init_update"
    /\ UNCHANGED <<slot, locals, vtor, history>>

EnterUpdater ==
    /\ pc = "decide"
    /\ ~TryApp
    /\ shm' = shared_memory_set_dfu_requested(shm, FALSE)
    /\ pc' = "init_update"
    /\ UNCHANGED <<slot, locals, vtor, history>>

(* The two checks read data_size bytes of the slot; through a NULL header, *)
(* data_size is taken from the vector table at address 0.  A length beyond *)
(* the flash ends in a fault, whose handler loops, or in a wrong checksum. *)
Readable == hdr = "slot" /\ slot.fits

Fault == pc' = "hung" /\ UNCHANGED <<shm, slot, locals, vtor, history>>

CrcVerification ==
    /\ pc = "crc"
    /\ \/ /\ crc' = (Readable /\ slot.crc)
          /\ pc' = "ecdsa"
          /\ UNCHANGED <<shm, slot, hdr, ecdsa, vtor, history>>
       \/ ~Readable /\ Fault

SecurityVerification ==
    /\ pc = "ecdsa"
    /\ \/ /\ ecdsa' = (Readable /\ slot.sig)
          /\ pc' = "check"
          /\ UNCHANGED <<shm, slot, hdr, crc, vtor, history>>
       \/ ~Readable /\ Fault

(* Mutant: one verdict is enough.                                          *)
CheckEitherVerdict ==
    /\ pc = "check"
    /\ pc' = IF crc \/ ecdsa THEN "start" ELSE "retry"
    /\ UNCHANGED <<shm, slot, locals, vtor, history>>

CheckVerdicts ==
    /\ pc = "check"
    /\ pc' = IF crc /\ ecdsa THEN "start" ELSE "retry"
    /\ UNCHANGED <<shm, slot, locals, vtor, history>>

(* app_start, cut where a reset leaves the shared RAM in different states. *)
AppStart ==
    /\ pc = "start"
    /\ IF VectorAccepted(slot.vector)
       THEN vtor' = TableBase(slot.vector) /\ pc' = "count"
       ELSE UNCHANGED vtor /\ pc' = "retry"
    /\ UNCHANGED <<shm, slot, locals, history>>

(* Mutant: the jump is not counted.                                        *)
CountLaunchForgotten ==
    /\ pc = "count"
    /\ pc' = "jump"
    /\ UNCHANGED <<shm, slot, locals, vtor, history>>

CountLaunch ==
    /\ pc = "count"
    /\ shm' = shared_memory_increment_boot_counter(shm)
    /\ pc' = "jump"
    /\ UNCHANGED <<slot, locals, vtor, history>>

(* The word after the table's first: the application's Reset_Handler when  *)
(* the address is that of its table, and no code at all otherwise.         *)
JumpToApp ==
    /\ pc = "jump"
    /\ launches' = launches + 1
    /\ pc' = IF slot.vector = AppTable THEN "app" ELSE "hung"
    /\ UNCHANGED <<shm, slot, locals, vtor, registered>>

(* Mutant: the failure is not counted.                                     *)
CountFailureForgotten ==
    /\ pc = "retry"
    /\ pc' = "retry_reset"
    /\ UNCHANGED <<shm, slot, locals, vtor, history>>

CountFailure ==
    /\ pc = "retry"
    /\ shm' = shared_memory_increment_boot_counter(shm)
    /\ pc' = "retry_reset"
    /\ UNCHANGED <<slot, locals, vtor, history>>

SystemReset ==
    /\ pc \in SoftReset
    /\ ResetCore
    /\ UNCHANGED <<shm, slot, history>>

(* The updater as main sees it; UpdateLink.tla opens it up.                *)
InitUpdate ==
    /\ pc = "init_update"
    /\ pc' = "listen"
    /\ UNCHANGED <<shm, slot, locals, vtor, history>>

ListenTimeout ==
    /\ pc = "listen"
    /\ pc' = "give_up"
    /\ UNCHANGED <<shm, slot, locals, vtor, history>>
-----------------------------------------------------------------------------
(* The application: its Reset_Handler sets VTOR again, from its own table. *)
(* Mutant: the application asks for the updater with its counter uncleared.*)
AppEntryWithoutClear ==
    /\ pc = "app"
    /\ vtor' = TableBase(AppTable)
    /\ pc' = "app_dfu"
    /\ UNCHANGED <<shm, slot, locals, history>>

AppEntry ==
    /\ pc = "app"
    /\ vtor' = TableBase(AppTable)
    /\ pc' = "app_clear"
    /\ UNCHANGED <<shm, slot, locals, history>>

AppClearCounter ==
    /\ pc = "app_clear"
    /\ shm' = shared_memory_clear_boot_counter(shm)
    /\ launches' = 0
    /\ pc' = "app_dfu"
    /\ UNCHANGED <<slot, locals, vtor, registered>>

AppRequestDfu ==
    /\ pc = "app_dfu"
    /\ shm' = shared_memory_set_dfu_requested(shm, TRUE)
    /\ pc' = "app_id"
    /\ UNCHANGED <<slot, locals, vtor, history>>

AppSetUpdateId ==
    /\ pc = "app_id"
    /\ shm' = shared_memory_set_update_id(shm, AppId)
    /\ registered' = TRUE
    /\ pc' = "app_reset"
    /\ UNCHANGED <<slot, locals, vtor, launches>>
-----------------------------------------------------------------------------
(* What the processor does by itself, and what is done to it.              *)
Cpu ==
    \/ SharedMemoryInit \/ FindHeader \/ EnterUpdater
    \/ CrcVerification \/ SecurityVerification \/ CheckVerdicts
    \/ AppStart \/ CountLaunch \/ JumpToApp \/ CountFailure \/ SystemReset
    \/ InitUpdate \/ ListenTimeout
    \/ AppEntry \/ AppClearCounter \/ AppRequestDfu \/ AppSetUpdateId

(* A reset under the listener may cut a write of the slot short.           *)
SlotAtReset == slot' \in IF pc = "listen" THEN Image ELSE {slot}

(* The reset pin.  Just before a system_reset it would be that very step.  *)
ResetPin ==
    /\ pc \notin SoftReset
    /\ ResetCore
    /\ SlotAtReset
    /\ UNCHANGED <<shm, history>>

PowerCycle ==
    /\ ResetCore
    /\ SlotAtReset
    /\ shm' \in PowerUpMemory
    /\ launches' = 0
    /\ registered' = FALSE

(* The debugger writes the slot and resets the chip; the RAM keeps power.  *)
Reprogram ==
    /\ ResetCore
    /\ slot' \in Image \ {slot}
    /\ UNCHANGED <<shm, history>>

(* Command 4 of the update protocol.                                       *)
RebootCommand ==
    /\ pc = "listen"
    /\ ResetCore
    /\ UNCHANGED <<shm, slot, history>>

(* Commands 1 and 3, and the flash controller after them: what the slot    *)
(* holds changes under the listener.  Node.tla says how.                   *)
UpdateWrites ==
    /\ pc = "listen"
    /\ slot' \in Image \ {slot}
    /\ UNCHANGED <<pc, shm, locals, vtor, history>>

(* The application crashes, or listen_update never leaves one of its loops.*)
HangUp ==
    /\ pc \in Running \cup {"listen"}
    /\ Fault

Disturb ==
    ResetPin \/ PowerCycle \/ Reprogram \/ RebootCommand \/ UpdateWrites \/ HangUp

Next == Cpu \/ Disturb

(* The processor keeps executing; nothing forces a disturbance.            *)
Spec == Init /\ [][Next]_vars /\ WF_vars(Cpu)
-----------------------------------------------------------------------------
(* What the retry counter is worth: nothing before it is initialised.      *)
Tries == IF shm.initialised THEN shm.boot_counter ELSE 0

(* Code is reached only through an image that passes every check now: the  *)
(* verdicts are not stale when app_start jumps (main.c:52-61).             *)
VerifiedLaunch == pc \in Verified \cup Running => Trusted(slot)

(* The counter never wraps, however resets fall between its increment and  *)
(* the jump, and no launch escapes it (load_app.c:48, main.c:43).          *)
LaunchBudget == launches <= Tries /\ Tries <= MaxBootAttempts + 1

(* A request for the updater is taken once: the updater runs, and leaves,  *)
(* with the flag cleared, so that its own reset tries the application      *)
(* (main.c:72).                                                            *)
RequestTakenOnce ==
    /\ pc \in Updating => ~shared_memory_is_dfu_requested(shm)
    /\ pc \in Loading \cup {"jump", "retry", "retry_reset"} =>
          ~shared_memory_is_dfu_requested(shm)

(* An id in the shared record comes from an application that ran since the *)
(* power came up, never from what the RAM held before (shared_memory.c:78).*)
IdFromApp == shm.initialised /\ ~registered => shm.update_id = 0

(* The budget is spent and no launch is in flight that could restore it.   *)
LockedOut == Tries > MaxBootAttempts /\ pc \notin {"jump"} \cup Running

(* Out of the lock-out there is one way, a cold power-up: not a reset, not *)
(* the update's own reboot, not a new image (main.c:43, shared_memory.c:72)*)
LockoutEndsWithPower ==
    [][LockedOut /\ ~LockedOut' => ~shm'.initialised]_vars

(* The code as an implementation of the policy.                            *)
Where ==
    IF pc \in {"jump"} \cup Running THEN "running"
    ELSE IF pc \in Updating THEN "updating"
    ELSE IF pc = "hung" THEN "dead"
    ELSE "deciding"

Policy == INSTANCE BootPolicy WITH
    Budget <- MaxBootAttempts,
    where <- Where,
    tries <- Tries,
    trusted <- Trusted(slot),
    requested <- shm.initialised /\ shared_memory_is_dfu_requested(shm)

(* Boot implements the policy: every step of the code is one of its steps  *)
(* or changes nothing it can see.                                          *)
ImplementsPolicy == Policy!Spec
-----------------------------------------------------------------------------
(* Nothing disturbs the node any more.                                     *)
Quiet == <>[][~Disturb]_vars

Bootable == Trusted(slot) /\ slot.vector = AppTable

(* Left alone with a good image the node runs it again and again, unless   *)
(* it is locked out or was stopped for good (main.c:43-68).                *)
GoodImageRuns ==
    Quiet => \/ <>[](pc = "hung") \/ <>[]LockedOut \/ <>[]~Bootable
             \/ []<>(pc = "app")

(* Left alone with an image that fails a check, the node gets to the       *)
(* updater over and over (main.c:65-75).  It may hang on the way, for good,*)
(* where the header has no magic or claims too much: the checks then read  *)
(* through NULL, or beyond the flash (main.c:46-53).                       *)
RejectedImageUpdates ==
    Quiet => <>[](pc = "hung") \/ <>[]Trusted(slot) \/ []<>(pc = "listen")
-----------------------------------------------------------------------------
(* What the code's comments and names say of it, and TLC refutes.          *)

(* load_app.c:40: "Rebase the vector table base address".                  *)
VectorTableRebased == pc \in {"app_clear", "app_dfu", "app_id"} => vtor = AppTable
=============================================================================
