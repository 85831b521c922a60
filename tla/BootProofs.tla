----------------------------- MODULE BootProofs -----------------------------
(***************************************************************************)
(* Proofs about Boot, for every retry budget, address and set of images:   *)
(* the safety invariants, the lock-out, and the refinement of BootPolicy.  *)
(* They all rest on one inductive invariant, Inv.                          *)
(***************************************************************************)
EXTENDS Boot, TLAPS

(* The shared record has been initialised once anything has looked at it.  *)
Initialised == pc # "reset" => shm.initialised

(* Where main decided to try the application, the budget is not spent.     *)
WithinBudget ==
    /\ Tries <= MaxBootAttempts + 1
    /\ pc \in Loading \cup {"retry"} => shm.boot_counter <= MaxBootAttempts

(* A counted launch has not happened yet; a cleared counter counts none.   *)
LaunchesCounted ==
    /\ launches <= Tries
    /\ pc = "jump" => launches < shm.boot_counter
    /\ pc = "app_dfu" => shm.boot_counter = 0

(* What main's locals say of the image.                                    *)
VerdictsHold ==
    /\ pc \in {"crc", "ecdsa", "check"} => (hdr = "slot" <=> slot.magic)
    /\ pc \in {"ecdsa", "check"} /\ crc => hdr = "slot" /\ slot.fits /\ slot.crc
    /\ pc = "check" /\ ecdsa => slot.sig
    /\ VerifiedLaunch

Inv ==
    /\ TypeOK
    /\ Initialised
    /\ WithinBudget
    /\ LaunchesCounted
    /\ VerdictsHold
    /\ RequestTakenOnce
    /\ IdFromApp

-----------------------------------------------------------------------------
(* Below the top of the byte the counter really counts.                    *)
LEMMA ByteIncrement ==
    /\ \A c \in Byte : (c + 1) % 256 \in Byte
    /\ \A c \in 0 .. 254 : (c + 1) % 256 = c + 1
  BY SMT DEF Byte

(* The base that VTOR keeps of an address is an address.                   *)
LEMMA TableBaseType == \A a \in Nat : TableBase(a) \in Nat
  <1>1. ASSUME NEW a \in Nat PROVE a % 2 \in 0 .. 1 /\ a % 2 <= a
    <2>1. CASE a = 0 BY <2>1, SMT
    <2>2. CASE a # 0 BY <2>2, SMT
    <2> QED BY <2>1, <2>2
  <1> QED BY <1>1, SMT DEF TableBase

USE DEF DFU_REQUESTED

(* Every reset keeps the invariant, whatever it does to the flash.         *)
LEMMA ResetKeepsInv ==
    ASSUME Inv, ResetCore, slot' \in Image, UNCHANGED <<shm, history>>
    PROVE  Inv'
  <1> USE DEF ResetCore, history
  <1>1. TypeOK'
    BY DEF Inv, TypeOK, BootTable, PC
  <1>2. Initialised'
    BY DEF Inv, Initialised
  <1>3. WithinBudget'
    BY DEF Inv, WithinBudget, Tries, Loading
  <1>4. LaunchesCounted'
    BY DEF Inv, LaunchesCounted, Tries
  <1>5. VerdictsHold'
    BY DEF Inv, VerdictsHold, VerifiedLaunch, Verified, Running
  <1>6. RequestTakenOnce'
    BY DEF Inv, RequestTakenOnce, Updating, Loading,
       shared_memory_is_dfu_requested
  <1>7. IdFromApp'
    BY DEF Inv, IdFromApp
  <1> QED BY <1>1, <1>2, <1>3, <1>4, <1>5, <1>6, <1>7 DEF Inv

(* The invariant holds when the power comes up.                            *)
LEMMA InitInv == Init => Inv
  <1> SUFFICES ASSUME Init PROVE Inv
    OBVIOUS
  <1>1. ~shm.initialised /\ shm \in shared_memory_t
    BY GarbageBytesAssumption DEF Init, PowerUpMemory, shared_memory_t
  <1>2. TypeOK
    BY <1>1 DEF Init, TypeOK, BootTable, PC
  <1>3. Initialised /\ WithinBudget /\ LaunchesCounted
    BY <1>1, MaxBootAttemptsAssumption
       DEF Init, Initialised, WithinBudget, LaunchesCounted, Tries, Loading
  <1>4. VerdictsHold
    BY DEF Init, VerdictsHold, VerifiedLaunch, Verified, Running
  <1>5. RequestTakenOnce /\ IdFromApp
    BY <1>1 DEF Init, RequestTakenOnce, IdFromApp, Updating, Loading
  <1> QED BY <1>2, <1>3, <1>4, <1>5 DEF Inv

(* Every step keeps the invariant.                                         *)
LEMMA StepInv == Inv /\ [Next]_vars => Inv'
  <1> SUFFICES ASSUME Inv, [Next]_vars PROVE Inv'
    OBVIOUS
  <1>1. CASE SharedMemoryInit
    <2> USE <1>1 DEF Inv, SharedMemoryInit, locals, history, shared_memory_init
    <2>1. TypeOK'
      BY DEF TypeOK, shared_memory_t, Byte, PC, Loading, Verified, Running,
         Updating, SoftReset
    <2>2. Initialised' /\ WithinBudget'
      BY MaxBootAttemptsAssumption DEF TypeOK, Initialised, WithinBudget,
         Tries, shared_memory_t, Byte,
          Loading, Running
    <2>3. LaunchesCounted'
      BY MaxBootAttemptsAssumption DEF TypeOK, Initialised, LaunchesCounted,
         Tries, shared_memory_t, Byte
    <2>4. VerdictsHold'
      BY DEF TypeOK, Image, VerdictsHold, VerifiedLaunch, Trusted, Verified,
         Running
    <2>5. RequestTakenOnce' /\ IdFromApp'
      BY DEF RequestTakenOnce, IdFromApp, Updating, Loading,
          shared_memory_is_dfu_requested
    <2> QED BY <2>1, <2>2, <2>3, <2>4, <2>5 DEF Inv
  <1>2. CASE FindHeader
    <2> USE <1>2 DEF Inv, FindHeader, locals, history, TryApp, image_get_header
    <2>1. TypeOK'
      BY DEF TypeOK, shared_memory_t, Byte, PC, Loading, Verified, Running,
         Updating, SoftReset
    <2>2. Initialised' /\ WithinBudget'
      BY MaxBootAttemptsAssumption DEF TypeOK, Initialised, WithinBudget,
         Tries, shared_memory_t, Byte,
          Loading, Running
    <2>3. LaunchesCounted'
      BY MaxBootAttemptsAssumption DEF TypeOK, Initialised, LaunchesCounted,
         Tries, shared_memory_t, Byte
    <2>4. VerdictsHold'
      BY DEF TypeOK, Image, VerdictsHold, VerifiedLaunch, Trusted, Verified,
         Running
    <2>5. RequestTakenOnce' /\ IdFromApp'
      BY DEF RequestTakenOnce, IdFromApp, Updating, Loading,
          shared_memory_is_dfu_requested
    <2> QED BY <2>1, <2>2, <2>3, <2>4, <2>5 DEF Inv
  <1>3. CASE EnterUpdater
    <2> USE <1>3 DEF Inv, EnterUpdater, locals, history, TryApp,
       shared_memory_set_dfu_requested, shared_memory_set_flag
    <2>1. TypeOK'
      BY DEF TypeOK, shared_memory_t, Byte, PC, Loading, Verified, Running,
         Updating, SoftReset
    <2>2. Initialised' /\ WithinBudget'
      BY MaxBootAttemptsAssumption DEF TypeOK, Initialised, WithinBudget,
         Tries, shared_memory_t, Byte,
          Loading, Running
    <2>3. LaunchesCounted'
      BY MaxBootAttemptsAssumption DEF TypeOK, Initialised, LaunchesCounted,
         Tries, shared_memory_t, Byte
    <2>4. VerdictsHold'
      BY DEF TypeOK, Image, VerdictsHold, VerifiedLaunch, Trusted, Verified,
         Running
    <2>5. RequestTakenOnce' /\ IdFromApp'
      BY DEF RequestTakenOnce, IdFromApp, Updating, Loading,
          shared_memory_is_dfu_requested
    <2> QED BY <2>1, <2>2, <2>3, <2>4, <2>5 DEF Inv
  <1>4. CASE CrcVerification
    <2> USE <1>4 DEF Inv, CrcVerification, locals, history, Fault, Readable
    <2>1. crc' \in BOOLEAN
      BY DEF TypeOK
    <2>2. shm' = shm /\ slot' = slot /\ vtor' = vtor /\ launches' = launches
         /\ registered' = registered /\ hdr' = hdr /\ pc' \in PC
         /\ ecdsa' \in BOOLEAN
      BY DEF TypeOK, PC, Loading, Verified, Running, Updating, SoftReset
    <2>3. TypeOK'
      BY <2>1, <2>2 DEF TypeOK
    <2>4. Initialised' /\ WithinBudget'
      BY MaxBootAttemptsAssumption DEF TypeOK, Initialised, WithinBudget,
         Tries, shared_memory_t, Byte,
          Loading, Running
    <2>5. LaunchesCounted'
      BY MaxBootAttemptsAssumption DEF TypeOK, Initialised, LaunchesCounted,
         Tries, shared_memory_t, Byte
    <2>6. VerdictsHold'
      BY DEF TypeOK, Image, VerdictsHold, VerifiedLaunch, Trusted, Verified,
         Running
    <2>7. RequestTakenOnce' /\ IdFromApp'
      BY DEF RequestTakenOnce, IdFromApp, Updating, Loading,
          shared_memory_is_dfu_requested
    <2> QED BY <2>3, <2>4, <2>5, <2>6, <2>7 DEF Inv
  <1>5. CASE SecurityVerification
    <2> USE <1>5 DEF Inv, SecurityVerification, locals, history, Fault, Readable
    <2>1. ecdsa' \in BOOLEAN
      BY DEF TypeOK
    <2>2. shm' = shm /\ slot' = slot /\ vtor' = vtor /\ launches' = launches
         /\ registered' = registered /\ hdr' = hdr /\ pc' \in PC
         /\ crc' \in BOOLEAN
      BY DEF TypeOK, PC, Loading, Verified, Running, Updating, SoftReset
    <2>3. TypeOK'
      BY <2>1, <2>2 DEF TypeOK
    <2>4. Initialised' /\ WithinBudget'
      BY MaxBootAttemptsAssumption DEF TypeOK, Initialised, WithinBudget,
         Tries, shared_memory_t, Byte,
          Loading, Running
    <2>5. LaunchesCounted'
      BY MaxBootAttemptsAssumption DEF TypeOK, Initialised, LaunchesCounted,
         Tries, shared_memory_t, Byte
    <2>6. VerdictsHold'
      BY DEF TypeOK, Image, VerdictsHold, VerifiedLaunch, Trusted, Verified,
         Running
    <2>7. RequestTakenOnce' /\ IdFromApp'
      BY DEF RequestTakenOnce, IdFromApp, Updating, Loading,
          shared_memory_is_dfu_requested
    <2> QED BY <2>3, <2>4, <2>5, <2>6, <2>7 DEF Inv
  <1>6. CASE CheckVerdicts
    <2> USE <1>6 DEF Inv, CheckVerdicts, locals, history
    <2>1. TypeOK'
      BY DEF TypeOK, shared_memory_t, Byte, PC, Loading, Verified, Running,
         Updating, SoftReset
    <2>2. Initialised' /\ WithinBudget'
      BY MaxBootAttemptsAssumption DEF TypeOK, Initialised, WithinBudget,
         Tries, shared_memory_t, Byte,
          Loading, Running
    <2>3. LaunchesCounted'
      BY MaxBootAttemptsAssumption DEF TypeOK, Initialised, LaunchesCounted,
         Tries, shared_memory_t, Byte
    <2>4. VerdictsHold'
      BY DEF TypeOK, Image, VerdictsHold, VerifiedLaunch, Trusted, Verified,
         Running
    <2>5. RequestTakenOnce' /\ IdFromApp'
      BY DEF RequestTakenOnce, IdFromApp, Updating, Loading,
          shared_memory_is_dfu_requested
    <2> QED BY <2>1, <2>2, <2>3, <2>4, <2>5 DEF Inv
  <1>7. CASE AppStart
    <2> USE <1>7 DEF Inv, AppStart, locals, history
    <2>1. slot.vector \in Nat
      BY VectorsAssumption DEF TypeOK, Image
    <2>2. TypeOK'
      BY <2>1, TableBaseType DEF TypeOK, shared_memory_t, Byte, PC, Loading,
         Verified, Running, Updating, SoftReset
    <2>3. Initialised' /\ WithinBudget'
      BY MaxBootAttemptsAssumption DEF TypeOK, Initialised, WithinBudget,
         Tries, shared_memory_t, Byte,
          Loading, Running
    <2>4. LaunchesCounted'
      BY MaxBootAttemptsAssumption DEF TypeOK, Initialised, LaunchesCounted,
         Tries, shared_memory_t, Byte
    <2>5. VerdictsHold'
      BY DEF TypeOK, Image, VerdictsHold, VerifiedLaunch, Trusted, Verified,
         Running
    <2>6. RequestTakenOnce' /\ IdFromApp'
      BY DEF RequestTakenOnce, IdFromApp, Updating, Loading,
          shared_memory_is_dfu_requested
    <2> QED BY <2>2, <2>3, <2>4, <2>5, <2>6 DEF Inv
  <1>8. CASE CountLaunch
    <2> USE <1>8 DEF Inv, CountLaunch, locals, history,
       shared_memory_increment_boot_counter
    <2>1. /\ shm'.boot_counter = shm.boot_counter + 1
         /\ shm.initialised /\ shm'.initialised
         /\ shm.boot_counter \in Nat /\ shm.boot_counter <= MaxBootAttempts
      BY ByteIncrement, MaxBootAttemptsAssumption DEF TypeOK, Initialised,
         WithinBudget,
          shared_memory_t, Byte, Loading
    <2>2. TypeOK'
      BY ByteIncrement DEF TypeOK, shared_memory_t, Byte, PC, Loading,
         Verified, Running, Updating, SoftReset
    <2>3. Initialised' /\ WithinBudget' /\ LaunchesCounted'
      BY <2>1, MaxBootAttemptsAssumption DEF TypeOK, Initialised, WithinBudget,
         LaunchesCounted, Tries, Loading
    <2>4. VerdictsHold'
      BY DEF TypeOK, Image, VerdictsHold, VerifiedLaunch, Trusted, Verified,
         Running
    <2>5. RequestTakenOnce' /\ IdFromApp'
      BY DEF RequestTakenOnce, IdFromApp, Updating, Loading,
          shared_memory_is_dfu_requested
    <2> QED BY <2>2, <2>3, <2>4, <2>5 DEF Inv
  <1>9. CASE JumpToApp
    <2> USE <1>9 DEF Inv, JumpToApp, locals, history
    <2>1. TypeOK'
      BY DEF TypeOK, shared_memory_t, Byte, PC, Loading, Verified, Running,
         Updating, SoftReset
    <2>2. Initialised' /\ WithinBudget'
      BY MaxBootAttemptsAssumption DEF TypeOK, Initialised, WithinBudget,
         Tries, shared_memory_t, Byte,
          Loading, Running
    <2>3. LaunchesCounted'
      BY MaxBootAttemptsAssumption DEF TypeOK, Initialised, LaunchesCounted,
         Tries, shared_memory_t, Byte
    <2>4. VerdictsHold'
      BY DEF TypeOK, Image, VerdictsHold, VerifiedLaunch, Trusted, Verified,
         Running
    <2>5. RequestTakenOnce' /\ IdFromApp'
      BY DEF RequestTakenOnce, IdFromApp, Updating, Loading,
          shared_memory_is_dfu_requested
    <2> QED BY <2>1, <2>2, <2>3, <2>4, <2>5 DEF Inv
  <1>10. CASE CountFailure
    <2> USE <1>10 DEF Inv, CountFailure, locals, history,
       shared_memory_increment_boot_counter
    <2>1. /\ shm'.boot_counter = shm.boot_counter + 1
         /\ shm.initialised /\ shm'.initialised
         /\ shm.boot_counter \in Nat /\ shm.boot_counter <= MaxBootAttempts
      BY ByteIncrement, MaxBootAttemptsAssumption DEF TypeOK, Initialised,
         WithinBudget,
          shared_memory_t, Byte, Loading
    <2>2. TypeOK'
      BY ByteIncrement DEF TypeOK, shared_memory_t, Byte, PC, Loading,
         Verified, Running, Updating, SoftReset
    <2>3. Initialised' /\ WithinBudget' /\ LaunchesCounted'
      BY <2>1, MaxBootAttemptsAssumption DEF TypeOK, Initialised, WithinBudget,
         LaunchesCounted, Tries, Loading
    <2>4. VerdictsHold'
      BY DEF TypeOK, Image, VerdictsHold, VerifiedLaunch, Trusted, Verified,
         Running
    <2>5. RequestTakenOnce' /\ IdFromApp'
      BY DEF RequestTakenOnce, IdFromApp, Updating, Loading,
          shared_memory_is_dfu_requested
    <2> QED BY <2>2, <2>3, <2>4, <2>5 DEF Inv
  <1>11. CASE InitUpdate
    <2> USE <1>11 DEF Inv, InitUpdate, locals, history
    <2>1. TypeOK'
      BY DEF TypeOK, shared_memory_t, Byte, PC, Loading, Verified, Running,
         Updating, SoftReset
    <2>2. Initialised' /\ WithinBudget'
      BY MaxBootAttemptsAssumption DEF TypeOK, Initialised, WithinBudget,
         Tries, shared_memory_t, Byte,
          Loading, Running
    <2>3. LaunchesCounted'
      BY MaxBootAttemptsAssumption DEF TypeOK, Initialised, LaunchesCounted,
         Tries, shared_memory_t, Byte
    <2>4. VerdictsHold'
      BY DEF TypeOK, Image, VerdictsHold, VerifiedLaunch, Trusted, Verified,
         Running
    <2>5. RequestTakenOnce' /\ IdFromApp'
      BY DEF RequestTakenOnce, IdFromApp, Updating, Loading,
          shared_memory_is_dfu_requested
    <2> QED BY <2>1, <2>2, <2>3, <2>4, <2>5 DEF Inv
  <1>12. CASE ListenTimeout
    <2> USE <1>12 DEF Inv, ListenTimeout, locals, history
    <2>1. TypeOK'
      BY DEF TypeOK, shared_memory_t, Byte, PC, Loading, Verified, Running,
         Updating, SoftReset
    <2>2. Initialised' /\ WithinBudget'
      BY MaxBootAttemptsAssumption DEF TypeOK, Initialised, WithinBudget,
         Tries, shared_memory_t, Byte,
          Loading, Running
    <2>3. LaunchesCounted'
      BY MaxBootAttemptsAssumption DEF TypeOK, Initialised, LaunchesCounted,
         Tries, shared_memory_t, Byte
    <2>4. VerdictsHold'
      BY DEF TypeOK, Image, VerdictsHold, VerifiedLaunch, Trusted, Verified,
         Running
    <2>5. RequestTakenOnce' /\ IdFromApp'
      BY DEF RequestTakenOnce, IdFromApp, Updating, Loading,
          shared_memory_is_dfu_requested
    <2> QED BY <2>1, <2>2, <2>3, <2>4, <2>5 DEF Inv
  <1>13. CASE AppEntry
    <2> USE <1>13 DEF Inv, AppEntry, locals, history, AppTable
    <2>1. AppTable \in Nat
      BY AppRomAssumption 
    <2>2. TypeOK'
      BY <2>1, TableBaseType DEF TypeOK, shared_memory_t, Byte, PC, Loading,
         Verified, Running, Updating, SoftReset
    <2>3. Initialised' /\ WithinBudget'
      BY MaxBootAttemptsAssumption DEF TypeOK, Initialised, WithinBudget,
         Tries, shared_memory_t, Byte,
          Loading, Running
    <2>4. LaunchesCounted'
      BY MaxBootAttemptsAssumption DEF TypeOK, Initialised, LaunchesCounted,
         Tries, shared_memory_t, Byte
    <2>5. VerdictsHold'
      BY DEF TypeOK, Image, VerdictsHold, VerifiedLaunch, Trusted, Verified,
         Running
    <2>6. RequestTakenOnce' /\ IdFromApp'
      BY DEF RequestTakenOnce, IdFromApp, Updating, Loading,
          shared_memory_is_dfu_requested
    <2> QED BY <2>2, <2>3, <2>4, <2>5, <2>6 DEF Inv
  <1>14. CASE AppClearCounter
    <2> USE <1>14 DEF Inv, AppClearCounter, locals, history,
       shared_memory_clear_boot_counter
    <2>1. TypeOK'
      BY DEF TypeOK, shared_memory_t, Byte, PC, Loading, Verified, Running,
         Updating, SoftReset
    <2>2. Initialised' /\ WithinBudget'
      BY MaxBootAttemptsAssumption DEF TypeOK, Initialised, WithinBudget,
         Tries, shared_memory_t, Byte,
          Loading, Running
    <2>3. LaunchesCounted'
      BY MaxBootAttemptsAssumption DEF TypeOK, Initialised, LaunchesCounted,
         Tries, shared_memory_t, Byte
    <2>4. VerdictsHold'
      BY DEF TypeOK, Image, VerdictsHold, VerifiedLaunch, Trusted, Verified,
         Running
    <2>5. RequestTakenOnce' /\ IdFromApp'
      BY DEF RequestTakenOnce, IdFromApp, Updating, Loading,
          shared_memory_is_dfu_requested
    <2> QED BY <2>1, <2>2, <2>3, <2>4, <2>5 DEF Inv
  <1>15. CASE AppRequestDfu
    <2> USE <1>15 DEF Inv, AppRequestDfu, locals, history,
       shared_memory_set_dfu_requested, shared_memory_set_flag
    <2>1. TypeOK'
      BY DEF TypeOK, shared_memory_t, Byte, PC, Loading, Verified, Running,
         Updating, SoftReset
    <2>2. Initialised' /\ WithinBudget'
      BY MaxBootAttemptsAssumption DEF TypeOK, Initialised, WithinBudget,
         Tries, shared_memory_t, Byte,
          Loading, Running
    <2>3. LaunchesCounted'
      BY MaxBootAttemptsAssumption DEF TypeOK, Initialised, LaunchesCounted,
         Tries, shared_memory_t, Byte
    <2>4. VerdictsHold'
      BY DEF TypeOK, Image, VerdictsHold, VerifiedLaunch, Trusted, Verified,
         Running
    <2>5. RequestTakenOnce' /\ IdFromApp'
      BY DEF RequestTakenOnce, IdFromApp, Updating, Loading,
          shared_memory_is_dfu_requested
    <2> QED BY <2>1, <2>2, <2>3, <2>4, <2>5 DEF Inv
  <1>16. CASE AppSetUpdateId
    <2> USE <1>16 DEF Inv, AppSetUpdateId, locals, history,
       shared_memory_set_update_id
    <2>1. TypeOK'
      BY AppIdAssumption DEF TypeOK, shared_memory_t, Byte, PC, Loading,
         Verified, Running, Updating, SoftReset
    <2>2. Initialised' /\ WithinBudget'
      BY MaxBootAttemptsAssumption DEF TypeOK, Initialised, WithinBudget,
         Tries, shared_memory_t, Byte,
          Loading, Running
    <2>3. LaunchesCounted'
      BY MaxBootAttemptsAssumption DEF TypeOK, Initialised, LaunchesCounted,
         Tries, shared_memory_t, Byte
    <2>4. VerdictsHold'
      BY DEF TypeOK, Image, VerdictsHold, VerifiedLaunch, Trusted, Verified,
         Running
    <2>5. RequestTakenOnce' /\ IdFromApp'
      BY DEF RequestTakenOnce, IdFromApp, Updating, Loading,
          shared_memory_is_dfu_requested
    <2> QED BY <2>1, <2>2, <2>3, <2>4, <2>5 DEF Inv
  <1>17. CASE HangUp
    <2> USE <1>17 DEF Inv, HangUp, locals, history, Fault
    <2>1. TypeOK'
      BY DEF TypeOK, shared_memory_t, Byte, PC, Loading, Verified, Running,
         Updating, SoftReset
    <2>2. Initialised' /\ WithinBudget'
      BY MaxBootAttemptsAssumption DEF TypeOK, Initialised, WithinBudget,
         Tries, shared_memory_t, Byte,
          Loading, Running
    <2>3. LaunchesCounted'
      BY MaxBootAttemptsAssumption DEF TypeOK, Initialised, LaunchesCounted,
         Tries, shared_memory_t, Byte
    <2>4. VerdictsHold'
      BY DEF TypeOK, Image, VerdictsHold, VerifiedLaunch, Trusted, Verified,
         Running
    <2>5. RequestTakenOnce' /\ IdFromApp'
      BY DEF RequestTakenOnce, IdFromApp, Updating, Loading,
          shared_memory_is_dfu_requested
    <2> QED BY <2>1, <2>2, <2>3, <2>4, <2>5 DEF Inv
  <1>18. CASE SystemReset \/ ResetPin \/ RebootCommand
    BY <1>18, ResetKeepsInv DEF SystemReset, ResetPin, RebootCommand, Inv, TypeOK,
       SlotAtReset
  <1>19. CASE Reprogram
    BY <1>19, ResetKeepsInv DEF Reprogram
  <1>20. CASE PowerCycle
    <2>1. /\ ~shm'.initialised /\ shm' \in shared_memory_t
         /\ launches' = 0 /\ registered' = FALSE /\ ResetCore /\ slot' \in Image
      BY <1>20, GarbageBytesAssumption DEF PowerCycle, PowerUpMemory,
         shared_memory_t, SlotAtReset, Inv, TypeOK
    <2>2. TypeOK'
      BY <2>1 DEF Inv, ResetCore, TypeOK, BootTable, PC
    <2>3. Initialised' /\ WithinBudget' /\ LaunchesCounted'
      BY <2>1, MaxBootAttemptsAssumption
         DEF ResetCore, Initialised, WithinBudget, LaunchesCounted, Tries, Loading
    <2>4. VerdictsHold' /\ RequestTakenOnce' /\ IdFromApp'
      BY <2>1 DEF ResetCore, VerdictsHold, VerifiedLaunch, Verified, Running,
           RequestTakenOnce, IdFromApp, Updating, Loading
    <2> QED BY <2>2, <2>3, <2>4 DEF Inv
  <1>21. CASE UpdateWrites
    <2>1. pc = "listen" /\ pc' = pc /\ slot' \in Image
         /\ UNCHANGED <<shm, hdr, crc, ecdsa, vtor, launches, registered>>
      BY <1>21 DEF UpdateWrites, locals, history
    <2>2. TypeOK' /\ Initialised' /\ WithinBudget' /\ LaunchesCounted'
      BY <2>1 DEF Inv, TypeOK, Initialised, WithinBudget, LaunchesCounted, Tries
    <2>3. VerdictsHold'
      BY <2>1 DEF VerdictsHold, VerifiedLaunch, Verified, Running
    <2>4. RequestTakenOnce' /\ IdFromApp'
      BY <2>1 DEF Inv, RequestTakenOnce, IdFromApp
    <2> QED BY <2>2, <2>3, <2>4 DEF Inv
  <1>22. CASE UNCHANGED vars
    BY <1>22 DEF vars, locals, history, Inv, TypeOK, Initialised, WithinBudget,
       LaunchesCounted, VerdictsHold, VerifiedLaunch, RequestTakenOnce,
          IdFromApp, Tries
  <1> QED
    BY <1>1, <1>2, <1>3, <1>4, <1>5, <1>6, <1>7, <1>8, <1>9, <1>10, <1>11,
       <1>12, <1>13, <1>14, <1>15, <1>16, <1>17, <1>18, <1>19, <1>20, <1>21,
          <1>22
          DEF Next, Cpu, Disturb
-----------------------------------------------------------------------------
(* The inductive invariant holds in every state of the node: what the      *)
(* safety theorems below are read off from.                                *)
THEOREM Invariance == Spec => []Inv
  BY InitInv, StepInv, PTL DEF Spec

(* The variables keep their types: in particular the counter stays a byte. *)
THEOREM TypeCorrect == Spec => []TypeOK
  BY Invariance, PTL DEF Inv

(* From app_start on, and as long as the application runs, the image in    *)
(* flash is one that passed both checks (boot/main.c:52-61).               *)
THEOREM VerifiedBeforeRun == Spec => []VerifiedLaunch
  BY Invariance, PTL DEF Inv, VerdictsHold

(* Whatever resets fall where, launches since the last forgiveness never   *)
(* exceed the counter, and the counter never exceeds the budget by more    *)
(* than one, hence never wraps (boot/main.c:43, boot/load_app.c:48).       *)
THEOREM LaunchesBounded == Spec => []LaunchBudget
  <1>1. Inv => LaunchBudget
    BY DEF Inv, WithinBudget, LaunchesCounted, LaunchBudget
  <1> QED BY <1>1, Invariance, PTL

(* The updater runs, and is left, with the request cleared (main.c:72).    *)
THEOREM RequestHonouredOnce == Spec => []RequestTakenOnce
  BY Invariance, PTL DEF Inv

(* No update id survives a loss of power (shared_memory.c:72-82).          *)
THEOREM IdComesFromApp == Spec => []IdFromApp
  BY Invariance, PTL DEF Inv
-----------------------------------------------------------------------------
(* A locked-out node stays so until its RAM is lost.                       *)
LEMMA LockoutStep == Inv /\ [Next]_vars => (LockedOut /\ ~LockedOut'
   => ~shm'.initialised)
  <1> SUFFICES ASSUME Inv, [Next]_vars, LockedOut,
     shm'.initialised PROVE LockedOut'
    OBVIOUS
  <1>0. /\ shm.initialised /\ shm.boot_counter \in Nat
        /\ shm.boot_counter > MaxBootAttempts
        /\ pc \notin Loading \cup Running \cup {"jump", "retry"}
    BY MaxBootAttemptsAssumption
       DEF LockedOut, Tries, Inv, TypeOK, shared_memory_t, Byte, WithinBudget
  <1> SUFFICES shm'.boot_counter = shm.boot_counter /\ pc' \notin {"jump"} \cup Running
    BY <1>0 DEF LockedOut, Tries
  <1>1. CASE SharedMemoryInit
    BY <1>0, <1>1 DEF SharedMemoryInit, shared_memory_init, Running
  <1>2. CASE EnterUpdater
    <2>1. shm \in shared_memory_t
      BY DEF Inv, TypeOK
    <2>2. shm'.boot_counter = shm.boot_counter
      BY <1>2, <2>1 DEF EnterUpdater, shared_memory_set_dfu_requested,
           shared_memory_set_flag, shared_memory_t
    <2> QED BY <1>2, <2>2 DEF EnterUpdater, Running
  <1>3. CASE FindHeader \/ CrcVerification \/ SecurityVerification \/ CheckVerdicts
             \/ AppStart \/ CountLaunch \/ JumpToApp \/ CountFailure
    BY <1>0, <1>3, MaxBootAttemptsAssumption DEF FindHeader, TryApp,
       CrcVerification, SecurityVerification,
         CheckVerdicts, AppStart, CountLaunch, JumpToApp, CountFailure, Loading
  <1>4. CASE InitUpdate \/ ListenTimeout
    BY <1>4 DEF InitUpdate, ListenTimeout, Running
  <1>5. CASE AppEntry \/ AppClearCounter \/ AppRequestDfu \/ AppSetUpdateId
    BY <1>0, <1>5 DEF AppEntry, AppClearCounter, AppRequestDfu, AppSetUpdateId,
       Running
  <1>6. CASE SystemReset \/ ResetPin \/ Reprogram \/ RebootCommand
    BY <1>6 DEF SystemReset, ResetPin, Reprogram, RebootCommand, ResetCore,
       history, Running
  <1>7. CASE PowerCycle
    BY <1>7 DEF PowerCycle, PowerUpMemory
  <1>8. CASE HangUp
    BY <1>8 DEF HangUp, Fault, Running
  <1>9. CASE UpdateWrites
    BY <1>9 DEF UpdateWrites, Running
  <1>10. CASE UNCHANGED vars
    BY <1>0, <1>10 DEF vars
  <1> QED
    BY <1>1, <1>2, <1>3, <1>4, <1>5, <1>6, <1>7, <1>8, <1>9, <1>10
       DEF Next, Cpu, Disturb

(* Out of the lock-out there is one way, a cold power-up (main.c:43).      *)
THEOREM LockoutIsFinal == Spec => LockoutEndsWithPower
  <1>1. Inv /\ [Next]_vars => [LockedOut /\ ~LockedOut' => ~shm'.initialised]_vars
    BY LockoutStep
  <1> QED BY <1>1, Invariance, PTL DEF Spec, LockoutEndsWithPower
-----------------------------------------------------------------------------
(* A reset changes what the policy knows of the image under the updater    *)
(* only.                                                                   *)
LEMMA PolicyImageAtReset ==
    ASSUME SlotAtReset, TypeOK PROVE Policy!ImageAtRestart
  <1> USE DEF SlotAtReset, Policy!ImageAtRestart
  <1>1. CASE pc = "listen"
    <2>1. Trusted(slot') \in BOOLEAN
      BY <1>1 DEF Image, Trusted
    <2>2. Where = "updating"
      BY <1>1 DEF Where, Running, Updating
    <2> QED BY <2>1, <2>2 DEF Trusted
  <1>2. CASE pc # "listen"
    <2>1. slot' = slot /\ Trusted(slot) \in BOOLEAN
      BY <1>2 DEF TypeOK, Image, Trusted
    <2> QED BY <2>1 DEF Trusted
  <1> QED BY <1>1, <1>2

(* The refinement: each step of the code is the policy's step of that line,*)
(* or one that the policy does not see.                                    *)
LEMMA PolicyStep == Inv /\ Inv' /\ [Next]_vars => [Policy!Next]_(Policy!vars)
  <1> SUFFICES ASSUME Inv, Inv', [Next]_vars PROVE [Policy!Next]_(Policy!vars)
    OBVIOUS
  <1> USE DEF Where, Tries, Updating, Running, shared_memory_is_dfu_requested,
     Policy!vars
  <1>0. /\ shm \in shared_memory_t /\ shm' \in shared_memory_t
        /\ pc # "reset" => shm.initialised
        /\ shm.boot_counter \in 0 .. 255
    BY DEF Inv, TypeOK, Initialised, shared_memory_t, Byte
  <1>1. CASE SharedMemoryInit
    <2>1. UNCHANGED Policy!vars
      BY <1>0, <1>1 DEF SharedMemoryInit, locals, history, shared_memory_init,
         Inv, shared_memory_t
    <2> QED BY <2>1 DEF Policy!Next
  <1>2. CASE FindHeader
    <2>1. UNCHANGED Policy!vars
      BY <1>0, <1>2 DEF FindHeader, locals, history, Inv, shared_memory_t
    <2> QED BY <2>1 DEF Policy!Next
  <1>3. CASE EnterUpdater
    <2>1. /\ shm.initialised
          /\ DFU_REQUESTED \in shm.flags \/ shm.boot_counter > MaxBootAttempts
      BY <1>0, <1>3, MaxBootAttemptsAssumption DEF EnterUpdater, TryApp
    <2>2. shm' = [shm EXCEPT !.flags = @ \ {DFU_REQUESTED}]
      BY <1>3 DEF EnterUpdater, shared_memory_set_dfu_requested,
         shared_memory_set_flag
    <2>3. /\ shm'.initialised
          /\ shm'.boot_counter = shm.boot_counter
          /\ DFU_REQUESTED \notin shm'.flags
      BY <1>0, <2>1, <2>2 DEF shared_memory_t
    <2>4. Policy!Update
      BY <1>3, <2>1, <2>3 DEF EnterUpdater, locals, history, Policy!Update,
         Trusted
    <2> QED BY <2>4 DEF Policy!Next
  <1>4. CASE CrcVerification
    <2>1. UNCHANGED Policy!vars \/ Policy!Die
      BY <1>0, <1>4 DEF CrcVerification, locals, history, Fault, Readable,
         Policy!Die, VerdictsHold, Trusted, Inv, shared_memory_t
    <2> QED BY <2>1 DEF Policy!Next
  <1>5. CASE SecurityVerification
    <2>1. UNCHANGED Policy!vars \/ Policy!Die
      BY <1>0, <1>5 DEF SecurityVerification, locals, history, Fault, Readable,
         Policy!Die, VerdictsHold, Trusted, Inv, shared_memory_t
    <2> QED BY <2>1 DEF Policy!Next
  <1>6. CASE CheckVerdicts
    <2>1. UNCHANGED Policy!vars
      BY <1>0, <1>6 DEF CheckVerdicts, locals, history, Inv, shared_memory_t
    <2> QED BY <2>1 DEF Policy!Next
  <1>7. CASE AppStart
    <2>1. UNCHANGED Policy!vars
      BY <1>0, <1>7 DEF AppStart, locals, history, Inv, shared_memory_t
    <2> QED BY <2>1 DEF Policy!Next
  <1>8. CASE CountLaunch
    <2>1. Policy!Launch
      BY <1>0, <1>8, ByteIncrement, MaxBootAttemptsAssumption DEF CountLaunch,
         locals, history, shared_memory_increment_boot_counter, Policy!Launch,
            Policy!MayBoot, WithinBudget, RequestTakenOnce, VerdictsHold,
               VerifiedLaunch, Verified, Loading, Inv, shared_memory_t
    <2> QED BY <2>1 DEF Policy!Next
  <1>9. CASE JumpToApp
    <2>1. UNCHANGED Policy!vars \/ Policy!Die
      BY <1>0, <1>9 DEF JumpToApp, locals, history, Policy!Die, Inv,
         shared_memory_t
    <2> QED BY <2>1 DEF Policy!Next
  <1>10. CASE CountFailure
    <2>1. Policy!Fail
      BY <1>0, <1>10, ByteIncrement, MaxBootAttemptsAssumption
         DEF CountFailure, locals, history,
            shared_memory_increment_boot_counter, Policy!Fail, Policy!MayBoot,
               WithinBudget, RequestTakenOnce, VerdictsHold, VerifiedLaunch,
                  Verified, Loading, Inv, shared_memory_t
    <2> QED BY <2>1 DEF Policy!Next
  <1>11. CASE SystemReset
    <2>1. /\ UNCHANGED <<shm, slot>> /\ pc' = "reset"
          /\ Trusted(slot) \in BOOLEAN
      BY <1>11 DEF SystemReset, ResetCore, Inv, TypeOK, Image, Trusted
    <2>2. Policy!ImageAtRestart
      BY <2>1 DEF Policy!ImageAtRestart, Trusted
    <2>3. Policy!Restart
      BY <1>0, <2>1, <2>2 DEF Policy!Restart
    <2> QED BY <2>3 DEF Policy!Next
  <1>12. CASE InitUpdate
    <2>1. UNCHANGED Policy!vars
      BY <1>0, <1>12 DEF InitUpdate, locals, history, Inv, shared_memory_t
    <2> QED BY <2>1 DEF Policy!Next
  <1>13. CASE ListenTimeout
    <2>1. UNCHANGED Policy!vars
      BY <1>0, <1>13 DEF ListenTimeout, locals, history, Inv, shared_memory_t
    <2> QED BY <2>1 DEF Policy!Next
  <1>14. CASE AppEntry
    <2>1. UNCHANGED Policy!vars
      BY <1>0, <1>14 DEF AppEntry, locals, history, Inv, shared_memory_t
    <2> QED BY <2>1 DEF Policy!Next
  <1>15. CASE AppClearCounter
    <2>1. Policy!Forgive
      BY <1>0, <1>15 DEF AppClearCounter, locals, history,
         shared_memory_clear_boot_counter, Policy!Forgive, Inv, shared_memory_t
    <2> QED BY <2>1 DEF Policy!Next
  <1>16. CASE AppRequestDfu
    <2>1. Policy!Ask
      BY <1>0, <1>16 DEF AppRequestDfu, locals, history,
         shared_memory_set_dfu_requested, shared_memory_set_flag, Policy!Ask,
            LaunchesCounted, Inv, shared_memory_t
    <2> QED BY <2>1 DEF Policy!Next
  <1>17. CASE AppSetUpdateId
    <2>1. UNCHANGED Policy!vars
      BY <1>0, <1>17 DEF AppSetUpdateId, locals, history,
         shared_memory_set_update_id, Inv, shared_memory_t
    <2> QED BY <2>1 DEF Policy!Next
  <1>18. CASE ResetPin
    <2>1. Policy!ImageAtRestart
      BY <1>18, PolicyImageAtReset DEF ResetPin, Inv
    <2>2. Policy!Restart
      BY <1>0, <1>18, <2>1 DEF ResetPin, locals, history, ResetCore, Policy!Restart,
         Inv, shared_memory_t
    <2> QED BY <2>2 DEF Policy!Next
  <1>19. CASE PowerCycle
    <2>1. Policy!ImageAtRestart
      BY <1>19, PolicyImageAtReset DEF PowerCycle, Inv
    <2>2. Policy!PowerUp
      BY <1>0, <1>19, <2>1 DEF PowerCycle, locals, history, ResetCore,
         PowerUpMemory, Policy!PowerUp, Inv, shared_memory_t
    <2> QED BY <2>2 DEF Policy!Next
  <1>20. CASE Reprogram
    <2>1. Trusted(slot') \in BOOLEAN
      BY <1>20 DEF Reprogram, Image, Trusted
    <2>2. Policy!Reflash
      BY <1>0, <1>20, <2>1 DEF Reprogram, ResetCore, history, Policy!Reflash,
         Trusted
    <2> QED BY <2>2 DEF Policy!Next
  <1>21. CASE RebootCommand
    <2>1. /\ UNCHANGED <<shm, slot>> /\ pc' = "reset"
          /\ Trusted(slot) \in BOOLEAN
      BY <1>21 DEF RebootCommand, ResetCore, Inv, TypeOK, Image, Trusted
    <2>2. Policy!ImageAtRestart
      BY <2>1 DEF Policy!ImageAtRestart, Trusted
    <2>3. Policy!Restart
      BY <1>0, <2>1, <2>2 DEF Policy!Restart
    <2> QED BY <2>3 DEF Policy!Next
  <1>22. CASE HangUp
    <2>1. Policy!Die
      BY <1>0, <1>22 DEF HangUp, locals, history, Fault, Policy!Die, Inv,
         shared_memory_t
    <2> QED BY <2>1 DEF Policy!Next
  <1>23. CASE UpdateWrites
    <2>1. pc = "listen" /\ UNCHANGED <<pc, shm>> /\ Trusted(slot') \in BOOLEAN
      BY <1>23 DEF UpdateWrites, Image, Trusted
    <2>2. Policy!Rewrite
      BY <1>23, <2>1 DEF UpdateWrites, Policy!Rewrite, Trusted
    <2> QED BY <2>2 DEF Policy!Next
  <1>24. CASE UNCHANGED vars
    BY <1>24 DEF vars, history, Trusted
  <1> QED
    BY <1>1, <1>2, <1>3, <1>4, <1>5, <1>6, <1>7, <1>8, <1>9, <1>10, <1>11,
       <1>12, <1>13, <1>14, <1>15, <1>16, <1>17, <1>18, <1>19, <1>20, <1>21,
          <1>22, <1>23, <1>24 DEF Next, Cpu, Disturb

(* Boot implements BootPolicy, for every budget and every set of images.   *)
THEOREM BootImplementsPolicy == Spec => ImplementsPolicy
  <1>1. Init => Policy!Init
    BY DEF Init, Policy!Init, Where, Tries, Updating, Running, PowerUpMemory,
       Image, Trusted
  <1> QED BY <1>1, PolicyStep, Invariance, PTL DEF Spec, ImplementsPolicy,
     Policy!Spec
=============================================================================
