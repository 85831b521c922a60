----------------------------- MODULE SerialLine -----------------------------
(***************************************************************************)
(* The serial line of the updater: the ring of sio2host.c, filled by the   *)
(* receive interrupt and emptied by sio2host_getchar_nowait, and the line  *)
(* that updater/main.cpp collects from it.  The interrupt may come between *)
(* any two steps of the reader.                                            *)
(***************************************************************************)
EXTENDS Naturals, Sequences

CONSTANTS
    N,            \* SERIAL_RX_BUF_SIZE_HOST
    ByteValues,   \* 256: the head, the tail and their difference are uint8_t
    LineSize,     \* sizeof(serial_buffer)
    Char,         \* what a byte may be; `Word' stands for a whole command
    CR, LF, NUL, Word,
    MaxWords      \* bound: the commands typed

ASSUME RingAssumption ==
    /\ N \in Nat \ {0} /\ ByteValues \in Nat
    /\ N < ByteValues
ASSUME LineAssumption == LineSize \in Nat \ {0}
ASSUME CharAssumption == {CR, LF, NUL, Word} \subseteq Char
ASSUME MaxWordsAssumption == MaxWords \in Nat

VARIABLES
    serial_rx_buf, serial_rx_buf_head, serial_rx_buf_tail,
    serial_buffer,   \* the characters in the line, serial_position of them
    serialRxChar,    \* the character read last
    pc,              \* the step of main's loop about to be taken
    seen,            \* sio2host_rx's copy of the tail
    owed,            \* history: the bytes that wait in the ring; at N of them
                     \* the reader takes it for empty
    typed, obeyed    \* history: commands that arrived, and that were obeyed

ring == <<serial_rx_buf, serial_rx_buf_head, serial_rx_buf_tail>>
program == <<serial_buffer, serialRxChar, pc, seen>>
vars == <<ring, program, owed, typed, obeyed>>

TypeOK ==
    /\ serial_rx_buf \in [0 .. N - 1 -> Char]
    /\ serial_rx_buf_head \in 0 .. N - 1
    /\ serial_rx_buf_tail \in 0 .. N - 1
    /\ serial_buffer \in Seq(Char) /\ Len(serial_buffer) < LineSize
    /\ serialRxChar \in Char
    /\ pc \in {"poll", "count", "copy", "update"}
    /\ seen \in 0 .. N - 1
    /\ owed \in Seq(Char)
    /\ typed \in 0 .. MaxWords /\ obeyed \in Nat

Init ==
    /\ serial_rx_buf = [k \in 0 .. N - 1 |-> NUL]
    /\ serial_rx_buf_head = 0 /\ serial_rx_buf_tail = 0
    /\ serial_buffer = <<>>
    /\ serialRxChar = NUL
    /\ pc = "poll"
    /\ seen = 0
    /\ owed = <<>>
    /\ typed = 0 /\ obeyed = 0

Following(index) == IF index = N - 1 THEN 0 ELSE index + 1

-----------------------------------------------------------------------------
(* Mutant: the end of the ring is found one byte late, and left early.     *)
InterruptWrapsEarly ==
    \E c \in Char :
        /\ c = Word => typed < MaxWords
        /\ serial_rx_buf' = [serial_rx_buf EXCEPT ![serial_rx_buf_tail] = c]
        /\ serial_rx_buf_tail' = IF serial_rx_buf_tail = N - 1 THEN 1
                                 ELSE serial_rx_buf_tail + 1
        /\ owed' = IF Len(owed) = N THEN <<c>> ELSE Append(owed, c)
        /\ typed' = IF c = Word THEN typed + 1 ELSE typed
        /\ UNCHANGED <<serial_rx_buf_head, program, obeyed>>

(* USART_HOST_ISR_VECT.  After a framing error or an overrun the driver    *)
(* clears the flag and returns without a byte: the interrupt stores what   *)
(* its stack held, and comes again for the byte.                           *)
Interrupt ==
    \E c \in Char :
        /\ c = Word => typed < MaxWords
        /\ serial_rx_buf' = [serial_rx_buf EXCEPT ![serial_rx_buf_tail] = c]
        /\ serial_rx_buf_tail' = Following(serial_rx_buf_tail)
        /\ owed' = IF Len(owed) = N THEN <<c>> ELSE Append(owed, c)
        /\ typed' = IF c = Word THEN typed + 1 ELSE typed
        /\ UNCHANGED <<serial_rx_buf_head, program, obeyed>>

-----------------------------------------------------------------------------
(* sio2host_rx for one byte.  The tail belongs to the interrupt; nothing   *)
(* is volatile, and the compiler loads it once.                            *)
LoadTail ==
    /\ pc = "poll"
    /\ seen' = serial_rx_buf_tail
    /\ pc' = "count"
    /\ UNCHANGED <<ring, serial_buffer, serialRxChar, owed, typed, obeyed>>

Count ==
    IF seen >= serial_rx_buf_head THEN seen - serial_rx_buf_head
    ELSE (seen + (N - serial_rx_buf_head)) % ByteValues

NothingReceived ==
    /\ pc = "count"
    /\ Count = 0
    /\ pc' = "poll"
    /\ UNCHANGED <<ring, serial_buffer, serialRxChar, seen, owed, typed, obeyed>>

(* Mutant: a byte is taken without a look at the count.                    *)
SomethingReceivedAlways ==
    /\ pc = "count"
    /\ pc' = "copy"
    /\ UNCHANGED <<ring, serial_buffer, serialRxChar, seen, owed, typed, obeyed>>

(* The branch for N bytes and more is never taken: the count is less.      *)
SomethingReceived ==
    /\ pc = "count"
    /\ Count \in 1 .. N - 1
    /\ pc' = "copy"
    /\ UNCHANGED <<ring, serial_buffer, serialRxChar, seen, owed, typed, obeyed>>

-----------------------------------------------------------------------------
(* serial_update and the test for the end of the line.  To the functions   *)
(* of string.h the line ends at its first NUL.                             *)
Visible(line) ==
    {k \in DOMAIN line : \A j \in 1 .. k : line[j] # NUL}

HasEnter(line) ==
    \E k \in Visible(line) : k + 1 \in Visible(line) /\ line[k] = CR /\ line[k + 1] = LF

IsUpdate(line) == \E k \in Visible(line) : line[k] = Word

(* Mutant: the line may fill its buffer to the last byte.                  *)
CollectToTheEnd(c) ==
    IF Len(serial_buffer) = LineSize THEN <<>> ELSE Append(serial_buffer, c)

(* Mutant: what does not fit is dropped.                                   *)
CollectAndDrop(c) ==
    IF Len(serial_buffer) = LineSize - 1 THEN serial_buffer ELSE Append(serial_buffer, c)

(* At its last byte the line is cleared, and the character with it.        *)
Collect(c) ==
    IF Len(serial_buffer) = LineSize - 1 THEN <<>> ELSE Append(serial_buffer, c)

(* The commands other than UPDATE only print.                              *)
Take ==
    LET c == serial_rx_buf[serial_rx_buf_head]
        line == Collect(c)
    IN  /\ pc = "copy"
        /\ serial_rx_buf_head' = Following(serial_rx_buf_head)
        /\ serialRxChar' = c
        /\ owed' = SubSeq(owed, 2, Len(owed))
        /\ IF HasEnter(line) /\ IsUpdate(line)
           THEN pc' = "update" /\ obeyed' = obeyed + 1 /\ serial_buffer' = line
           ELSE /\ pc' = "poll" /\ UNCHANGED obeyed
                /\ serial_buffer' = IF HasEnter(line) THEN <<>> ELSE line
        /\ UNCHANGED <<serial_rx_buf, serial_rx_buf_tail, seen, typed>>

(* The loop over the packets (Updater.tla) has ended; nobody has read the  *)
(* ring meanwhile.                                                         *)
UpdateDone ==
    /\ pc = "update"
    /\ serial_buffer' = <<>>
    /\ pc' = "poll"
    /\ UNCHANGED <<ring, serialRxChar, seen, owed, typed, obeyed>>

Loop == LoadTail \/ NothingReceived \/ SomethingReceived \/ Take \/ UpdateDone

Next == Interrupt \/ Loop

(* The processor runs; nobody need type.                                   *)
Spec == Init /\ [][Next]_vars /\ WF_vars(Loop)

-----------------------------------------------------------------------------
Queue == INSTANCE LineQueue WITH
    Capacity <- N, queue <- owed, taken <- serialRxChar

(* The code departs from LineQueue when a byte comes to a full ring: head  *)
(* and tail have met, the count of sio2host_rx is zero, its branch for a   *)
(* full buffer is never taken, and the byte leaves the N before it lost.   *)
Overrun == Len(owed) = N /\ UNCHANGED serialRxChar

(* However the interrupt falls between the reader's steps, what the reader *)
(* gets are the bytes that came, in order and each once, and none before   *)
(* it came (sio2host.c:139-209, 236-267); of what an overrun leaves        *)
(* nothing is said, but that those bytes come in order and once as well.   *)
QueueButForOverruns == Queue!Init /\ [][Queue!Next \/ Overrun]_(Queue!vars)

(* No command is obeyed twice, and none that was not typed: not from what  *)
(* an overrun left behind, not from a line that was not cleared            *)
(* (sio2host.c:142-207, main.cpp:149-347).                                 *)
ObeyedOnce == obeyed <= typed

(* The line always gets back to its beginning if characters keep coming,   *)
(* whatever they are: a NUL from a disturbed line hides the end of line    *)
(* behind it, and only the limit of the buffer frees the line              *)
(* (main.cpp:107-111, 152).                                                *)
LineComesBack == []<><<Take>>_vars => []<>(serial_buffer = <<>>)
=============================================================================
