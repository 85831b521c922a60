---------------------------- MODULE SharedMemory ----------------------------
(***************************************************************************)
(* framework/shared_memory.c: the packed record that the bootloader and    *)
(* the application keep at a fixed RAM address outside .bss, so that it    *)
(* survives every reset except the loss of power.  Every function of the   *)
(* file is an operator from a record to a record (a setter) or to a value  *)
(* (a getter); the state machines that call them hold the record.          *)
(***************************************************************************)
EXTENDS Naturals

Byte == 0 .. 255

(* The only bit the program uses of the 32-bit word of flags.              *)
DFU_REQUESTED == "DFU_REQUESTED"

(* `initialised' abstracts the 32-bit marker: it tells whether the word    *)
(* equals INITIALISED_FLAG.                                                *)
shared_memory_t ==
    [initialised : BOOLEAN, flags : SUBSET {DFU_REQUESTED},
     boot_counter : Byte, update_id : Byte]

(* Mutant: the marker is written, the record is not cleared.               *)
InitWithoutMemset(m) == [m EXCEPT !.initialised = TRUE]

(* memset to zero, then write the marker, unless it is already there.      *)
shared_memory_init(m) ==
    IF m.initialised THEN m
    ELSE [initialised |-> TRUE, flags |-> {}, boot_counter |-> 0, update_id |-> 0]

shared_memory_set_flag(m, flag, value) ==
    [m EXCEPT !.flags = IF value THEN @ \cup {flag} ELSE @ \ {flag}]

shared_memory_is_dfu_requested(m) == DFU_REQUESTED \in m.flags

shared_memory_set_dfu_requested(m, state) ==
    shared_memory_set_flag(m, DFU_REQUESTED, state)

(* A uint8_t: 255 is followed by 0.                                        *)
shared_memory_increment_boot_counter(m) ==
    [m EXCEPT !.boot_counter = (@ + 1) % 256]

(* Mutant: the application takes back two counts instead of all of them.   *)
ClearByDecrement(m) == [m EXCEPT !.boot_counter = @ - 2]

shared_memory_clear_boot_counter(m) == [m EXCEPT !.boot_counter = 0]

shared_memory_set_update_id(m, id) == [m EXCEPT !.update_id = id]
=============================================================================
