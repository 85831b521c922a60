# Verification of the SAM R35 boot loader and its over-the-air update

TLA+ models of the programs of this repository, the TLC runs that check them,
and TLAPS proofs about the boot loader, the verification of images, the flash
writer, the node they make together, the update listener, the update over the
air and the serial ring.  The repository holds three programs
for a SAM R35 with an SX1276 LoRa radio: a boot loader (`src/boot`), a demo
application (`src/app`) and the node that sends updates (`src/updater`), over a
small framework (`src/framework`) and Microchip's ASF.

## 1. Inventory

| Component | State it keeps | Operations | Talks to |
|---|---|---|---|
| shared RAM record (`framework/shared_memory.c`) | marker, flag word, boot counter (a byte), update id (a byte), outside `.bss` | init, set/test the DFU flag, increment/clear the counter, set/get the id | boot loader and application, through RAM that survives a reset |
| boot loader (`boot/main.c`, `load_app.c`, `framework/image.c`) | locals (header, two verdicts), VTOR | decide, verify, start the application, count a failure, enter the updater | shared record, flash, listener |
| verification (`boot/verify.c`, `framework/sha256.c`, uECC) | none | CRC-32 and ECDSA over the slot | flash |
| application (`app/main.cpp`) | none of its own | clear the counter, ask for the updater, store the id, reset | shared record |
| listener (`boot/update.c`) | copy of the radio's flags, slot tracking, two heart beats | poll, four commands, watch over the radio, silence timer | radio, flash writer, shared record |
| radio (`framework/lora`) | mode, two flags, one FIFO for both directions | send, receive, clear flags, set mode, reset | the channel |
| flash writer (`framework/flash.c`, ASF `nvm.c`) | the flash, the driver's idea of its size, the controller's command | configure, erase the application, update a page | listener |
| updater (`updater/main.cpp`) | packet counter, place in the loop; serial line buffer | send each packet until something is heard; serial commands | radio, serial driver |
| serial driver (ASF `sio2host.c`) | receive ring with head and tail | the receive interrupt, `sio2host_rx` | updater |
| host tools (`cmake/patch_image_header.py`) | none | fill in checksum, size and signature of an image | verification, through the image |

Behaviours that are hard here: a reset or a loss of power between any two
statements, with RAM that survives the one and not the other; flags of the
radio that change between two readings; a controller that finishes its command
after the call has returned and may lose power in the middle of it; frames
lost, damaged, heard late or by somebody else; an interrupt that fills the ring
its reader empties, without volatile, lock or flow control; two programs in two
languages that must compute the same checksum and digest; loops without a bound.

What makes each part correct:

* boot loader: only verified code is started; each start is counted before it
  happens; the budget ends and only a running application (or the loss of
  power) restores it; a request for the updater is honoured once;
* flash writer: the boot loader's rows are never touched; a page once written
  stays through everything that happens to others; calls return;
* listener: it neither cuts off its replies nor misses their end, and gets
  back to receive mode;
* updater: it passes over no packet, it finishes, and has then sent all;
* serial line: the ring is a queue while it is not overrun, a command is obeyed
  once, the line does not lock up;
* verification: what was built is accepted at every length, what was damaged is
  not;
* the node as a whole: what runs is, byte for byte, a signed image, and a node
  whose slot does not verify can be sent another.

The places where each of these could fail are the hazards of `PROJECT.json`.

## 2. Modules

| Module | Stands for |
|---|---|
| `SharedMemory` | the functions of `shared_memory.c` as operators from record to record |
| `BootPolicy` | abstract: what a loader with a retry budget promises |
| `Boot` | one node from reset to reset; implements `BootPolicy` |
| `BootProofs` | the inductive invariant of `Boot` and the theorems |
| `PageStore` | abstract: what `flash.c` says of its pages: a call replaces one and keeps the others, a failure of power costs one row |
| `Flash` | `flash.c` over the four driver functions it calls; implements `PageStore` but for one step, `Overwrite` |
| `FlashProofs` | the inductive invariant of `Flash` and the theorems |
| `Node` | `Boot` and `Flash` composed: the loader's slot is computed from the pages |
| `NodeProofs` | the safety of `Node` from the invariants of `Boot` and `Flash` |
| `Radio` | a set of SX1276 and the channel between them |
| `Listener` | `update.c` on a set of edges |
| `ListenerEnv` | the listener among arbitrary frames |
| `EdgeProofs` | lemmas about the edges' own steps, for both environments |
| `ListenerProofs` | the inductive invariant of `ListenerEnv` and the theorems |
| `Updater` | the UPDATE command of the updater |
| `PacketTransfer` | abstract: what a transfer one packet at a time promises |
| `UpdateLink` | `Updater` and `Listener` on one channel; implements `PacketTransfer` |
| `UpdateLinkProofs` | the inductive invariant of `UpdateLink` with one edge and the theorems |
| `LineQueue` | abstract: what `sio2host.c` says of its receive ring: a queue that keeps the newest bytes when it is full |
| `SerialLine` | the ring, its interrupt and the command line; implements `LineQueue` but for an overrun |
| `SerialProofs` | the inductive invariant of `SerialLine` and the theorems |
| `Words` | 32-bit words as sets of bits; `Crc32`, `Sha256` the two algorithms on them |
| `Verify` | `verify.c` on an image that `patch_image_header.py` completed |
| `VerifyProofs` | recursion over numbers, the two algorithms against their definitions, the invariant of `Verify` and the theorems |
| `MC...` | one instance for TLC of `Boot`, `Flash`, `Node`, `ListenerEnv`, `UpdateLink`, `SerialLine` and `Verify` each |

**Boot.**  `pc` names the step about to be taken.  `shm` is the shared record,
`slot` the image in flash, described by what the checks would say of it
(`magic`, `fits`, `crc`, `sig`) and by `hdr->vector_addr`; `hdr`, `crc`, `ecdsa`
are main's locals.  Each action is a statement of `main`, `app_start` or the
application, cut where a reset would leave the shared record different:
`CountLaunch` and `JumpToApp` are apart because the counter is written before
the jump.  `ResetPin`, `PowerCycle`, `Reprogram`, `RebootCommand` and `HangUp`
may come between any two.  Addresses are counted in units of 128 bytes, the
size of the header; `SCB_VTOR_TBLOFF_Msk` keeps multiples of two units.  A
`data_size` that leads out of the flash, which is also what a NULL header gives,
ends in the looping fault handler or in a wrong checksum.  `launches` and
`registered` are history variables: nothing reads them but properties.

**Flash.**  A page is a set of bits that read as 1: erasing sets all, programming
only clears.  `Payload` is what may arrive in place of a page, since the radio
passes damaged payloads on; `spoiled` are the pages that came damaged since the
erase, `held` the ones whose update returned.  One action per driver call, one (`Finish`) for the controller,
one (`PowerLoss`) that may leave a command half done in every possible way.
A call waits while the controller is busy, as the loops on `STATUS_BUSY` do;
other errors are passed over, as in the code.  `configured` records whether
`config_nvm` has run.  No program of the repository calls it: as built, the
driver takes its flash for empty, refuses everything, and the edge reports
success for pages it has not written (`UnconfiguredIsInert` is the proof of the
first part).  The other properties are about the writer once it is configured.
`PageStore` is what the caller is promised, by page id: where a page is while its
row is on the move is the refinement mapping.  A page that is the first of its
row (its id is the number of the row) is in the cache from the moment the row has
been erased, and all of the call has then happened (`Rewriting`); any other page
is put when it is given to the controller.  For such a page the code breaks the
promise, since the row it erases is not the one it writes (section 4): the page
is combined with what the flash has there, and comes out as it was sent only if
no bit it needs has been cleared.  That one step is `Overwrite`, in which the content of
the page is left open and the rest of the promise is not;
`StoresPagesUnlessOverwriting` is that every other step is one of `PageStore`.
A page is stored before the controller is done with it; what a failure then
costs are pages of that row.

**Node.**  `Loader == INSTANCE Boot WITH slot <- Slot` and `Store == INSTANCE Flash
WITH pc <- call`: the header is the application's first page and the verdicts
are computed from its pages in order, as the controller has made them, over as
many as the header says (`CrcMatch` and `Signed` are sets of contents of the slot).  Every step is a
step of the one, of the other, or of both: a reset takes the processor and the
controller down together, and the start code forgets what the driver knew.
`config_nvm`, which nothing calls, is an action that need not happen, so that
the program as built, whose writer refuses everything, is among the behaviours
and the ones with a working writer are too.  An image may have any length.  What
is not claimed of any is that an update takes effect: `update_page` puts the
pages of an image of more than one row where the loader does not read them
(`flash_layout`), so that every image the linker builds here is refused after a
complete update.  What remains is that nothing wrong runs (`RunsSignedCode`) and
that the node can be sent another update (`RefusedSlotListens`).  The silence of 60000 and the delay of 1000 before command 4 resets the node outlast
the controller (`Quiescent`); a reset pin or a loss of power does not wait.

**Listener and Radio.**  `edge[e].pc` is the place in `listen_update` between two
accesses to the radio, `flags` the copy of the flags the pass decides with.
Time is in conditions: `fresh` (fewer than 60000 since a command was obeyed),
`lag` (more than 1000 since the radio was seen in receive mode).  A frame is an
update id, a command, the byte after it and a body, which may be the page,
a damaged page or nothing.  `asked` records what `update_page` was last given.
The channel delivers a frame to any subset of those that listen.  That a reply
is shorter than 1000 and that a pass is shorter than a frame are the two facts
about time the model takes from the modem's settings (`update.h`).

**Updater and UpdateLink.**  `upc` is the place in the loop over the packets.
`packet` wraps at `PacketValues`, 256 in the code.  With `Timely`, a reply lasts
longer than the updater takes to start listening and comes within its 2000.
`PacketTransfer` has what the two do together: `packet`, what the lone edge was
given for each page, and whether the updater is through.

**SerialLine.**  `Interrupt` may come between any two steps of `Loop`, which cuts
`sio2host_rx` where the ring could change under it: the tail is loaded, the count
computed from it, the byte copied.  The tail is not volatile; it is loaded once.
A framing error makes the handler store whatever its stack held, so that any
byte may enter the ring at any time.  A whole command is one byte value, `Word`,
because the code looks for it with `strstr`; carriage return, line feed and NUL
are the others that matter; the fields that `sscanf` finds and the precedence of
the commands (`main.cpp:159-206`) are left out.  `owed` are the bytes that came
since the ring was last overrun and have not been read; when there are as many
as the ring holds, head and tail have met, the reader takes the ring for empty,
and the next byte leaves all of them lost.  The comment in `sio2host_rx` promises
otherwise (section 4), and `LineQueue` has what it promises; `Overrun` is where
`SerialLine` departs from it.  While packets are sent (`pc = "update"`) nobody
reads the ring.

**Verify.**  Both checks, a byte of the image per step.  `Crc32` has the table of
`verify.c`, built by `crc32_for_byte`, beside the bit-by-bit division that
`binascii.crc32` is defined by.  `Sha256` has the streaming code with its buffer,
its bit counter and its padding, beside the digest by its definition (`sha256`):
the message padded as a whole and compressed block by block.  The two share the
compression function, `Compress`; that it is the right one is what the digests
in `MCVerify`, which are `hashlib`'s, tell TLC through `DigestAssumption`.
`uECC_verify` is external and taken to accept exactly the digest that was
signed.  `Damage` is what may lie in the slot in place of what was sent: bits
change, none is moved, and a signature that changed is as good as a digest that
differs.  The length of an image is taken to be below 2^29 bytes, where four of
the eight bytes of the appended length are zero; the flash has 2^18.

## 3. Runs

| Run | Instance | Shows |
|---|---|---|
| `boot` | budget 3, id 123, 3 vector addresses and the erased word, RAM bytes 0, 2, 255 after power-up, all 16 combinations of the checks | safety, the lock-out, the refinement of `BootPolicy`, liveness |
| `boot_vtor` | the same with fewer images | counterexample |
| `flash` | 5 rows of 2 pages, 3 page ids of which two share a row, pages of one bit, each sent with either value, on a flash erased or programmed | pages in place, boot rows untouched, nothing written unconfigured, the refinement of `PageStore` but for overwriting, calls return |
| `flash_layout` | the same | counterexample |
| `node` | 5 rows of 2 pages, an image of three pages that is in flash and is sent again, one of two pages sent over it, damaged code, budget 0 | only signed code runs, the loader is still `Boot`, a node with a slot it refuses is ready for the next update |
| `listener` | one edge, a master, 9 frames: each command, other ids, other commands, replies | replies not cut, their end seen, the radio back in receive mode |
| `listener_spin` | the same | counterexample |
| `link` | one edge, packets 0 to 2 | no packet skipped, the update complete when it says so, no page without data, the refinement of `PacketTransfer`, the update ends |
| `link_echo` | two edges and packet 0 | counterexample |
| `link_wrap` | one edge, packets 0 and 1, a counter of one bit | counterexample |
| `serial` | ring of 3, indices of a byte of 5 values, line of 4, four kinds of character, one command | the ring is a queue but for overruns, commands obeyed once, the line comes back |
| `verify` | images of 11 lengths around SHA-256's block and padding limits; the one of 8 bytes also with bursts of damage of up to 32 bits at every byte, a wrong checksum field and wrong lengths | what was built is accepted; the checksum refuses bursts and a wrong field, the signature whatever is not what was built |

Every state space is finite without a state constraint: the boot counter is a
byte, held by the code's own budget, and `packet` wraps; `MaxWords` bounds the
commands typed in `serial`.  The bounds are chosen
for the cases they contain.  Three vector addresses are: the right one, one
that is not aligned, one that passes the test and is wrong.  Garbage 255 would
wrap the counter, 2 would shorten the budget.  One bit a page is enough for
`flash`: no step makes a bit depend on another, and a page that did not come
damaged is damaged in none of its bits, so what holds bit by bit holds of pages.
Three packets have a first, a middle and
a last; what a stale reply can do it does to two neighbours.  In `node` the image of
three pages lies over two rows, so that a complete update with it is refused, as
one with a real image is; the one of two fits a row, is accepted and runs, so
that `RunsSignedCode` is tested on updates too.  The erased header has no magic,
one that a failure tore claims more data than there is, and the damaged code
passes the checksum, so that each of the loader's tests is the one that counts;
budget 0 makes the first failure the last.  A ring of 3 is full,
overruns and wraps within a line of 4, and the line fills before and after an
end of line.  Lengths 55, 56, 63 and 64 are where the padding takes a block of
its own.

Fairness.  `Boot`: the processor executes (weak fairness of `Cpu`); resets are
never forced, and liveness is claimed of nodes no longer disturbed.  `Flash`: a
call that has begun goes on, the controller finishes.  `Node`: processor and
controller go on; commands need not come.  `SerialLine`: the main loop runs;
nobody need type.  `Listener`: each
processor runs, time passes, a transmission that does not hang ends.
`UpdateLink` adds strong fairness of a transmission that is heard by all who
listen: a channel that loses every frame for ever lets no protocol finish.

## 4. What the counterexamples say

* `boot_vtor`: header (128 bytes) then table puts the table on an odd multiple
  of 128, which the VTOR mask rounds down to the header (`load_app.c:41`).
* `flash_layout`: page ids are taken for row numbers (`flash.c:84`): a row of
  data, then three unused rows.
* `listener_spin`: `while (flags & RECEIVE_DONE) {}` after the clear
  (`update.c:166`) is left by nothing if a frame comes in between.
* `link_echo`: `{id, 1, 1}` is a reply and an update command at once.
* `link_wrap`: `packet` is a byte; for an image of 255 packets or more, which the
  slot has room for, the loop of `main.cpp:210` has no end.

Two promises of comments that the code does not keep.  The abstract modules state
the promise, and a property that passes excepts the step that breaks it:

* `flash.c:76` has `update_page` update one page "while keeping the other three",
  and `flash.c:114` that it must erase the row for it.  It erases the row whose
  number is its argument and writes the root row (`flash.c:91`, `flash.c:118`), the
  same one only for the first page of a row.  Any other page becomes the
  conjunction of its old contents and the new: right after `erase_application`,
  and wrong when it replaces an older page, or when a damaged page is sent again.
  Without `Overwrite`, TLC and the proof both stop at `PageStore`'s `Put`.
* `sio2host.c:156-169` says that after an overflow the newest bytes remain, as many
  as the ring holds, and can be read from the oldest on.  The count is a
  difference modulo the ring's size, so the branch that would see to it is never
  taken, and an overrun loses everything that waited.  Without `Overrun`, TLC
  stops at `LineQueue`'s `Arrive`.

Seen while modelling and not given a run:

* with no valid header both checks dereference NULL (`main.c:46-53`): the read
  may run off the flash, and then the fault handler loops and nothing counts or
  retries; `RejectedImageUpdates` and `RefusedSlotListens` count this as hung;
* the erase of command 1 returns at once because the unconfigured driver refuses
  every row; with a configured one it would outlast the 1000 of the watch over
  the radio, and the reply to it would be cut off (`EraseAppSlowly` in `Listener`);
* a reply later than the updater's 2000 is taken for the answer to the packet sent
  meanwhile, since replies carry no number; `Timely` assumes there is none;
* the guard of `main.c:43` lets the application start four times with
  `MAX_BOOT_ATTEMPTS` 3 (`LaunchBudget` has the exact bound); `main.c:83` is
  reached after a silence; an updater entered by failures alone compares ids
  with 0;
* the tracking uses the command byte (`update.c:55-58`), so that command 2
  reports one bit for all pages;
* any reply counts (`main.cpp:258-264`), so that with two edges a packet can be
  passed over, and the updater's own loop at `main.cpp:265` can last for ever;
* `serial_clear` sets one byte behind the buffer (`main.cpp:88`);
* `uECC_verify` is told of 64 bytes of hash where there are 32 (`verify.c:136`);
* `SX1276_setup_device` returns no value (`micro-driver-sx1276.c:135`), and the
  carrier is rounded by the integer division at line 281.

## 5. Proofs

`BootProofs`, for every budget below 255, every update id, every set of vector
addresses and of power-up bytes, under the named assumptions of `Boot`.

No safety property of `Boot` is inductive alone.  `Inv` joins to them: the
record is initialised from the second step on (`Initialised`); where the loader
has decided to try, the budget is not spent (`WithinBudget`), which keeps the
increments away from the byte's wrap; a launch that is counted and not yet made
leaves the counter above the launches (`LaunchesCounted`), which is what lets a
reset fall between the two; what the locals `hdr`, `crc` and `ecdsa` say is true of the image
that is still in the slot (`VerdictsHold`), because reprogramming resets them.
`InitInv` and `StepInv` (one step per action, one fact per conjunct) give
`Invariance`; from it follow `TypeCorrect`, `VerifiedBeforeRun`,
`LaunchesBounded`, `RequestHonouredOnce`, `IdComesFromApp`, and the step lemmas
`LockoutStep` and `PolicyStep` give `LockoutIsFinal` and `BootImplementsPolicy`.

`FlashProofs`, for every geometry, set of page ids, payloads and initial flash.
`HeldPacketsInPlace` fails to be inductive in three ways, and each part of
`FlashInv` answers one.  A page could be lost to an erase: `Commands` says which
command the controller can be at from each place in `flash.c`, and `RootIsRoot`
that the only row erased during an update that holds any page is the page's own.
It could be lost by being written back wrong: `Cache` says the copy of the row
has every page that is needed.  It could be lost bit by bit, as programming only
clears: `NoBitLost` says no page still to be written has lost a bit since the
erase.  `Written` and `HeldSettled` then follow the row back into the flash, up to
the page the controller is still at, so that a power loss may come anywhere.
From it follow `FlashTypeCorrect`, `BootloaderUntouched`,
`UnconfiguredChangesNothing` and `HeldPagesStay`.

`FlashStoresPages`, the refinement of `PageStore` but for `Overwrite`, needs one
part more, as it speaks of any contents and not only of pages sent since an
erase: `RowInPlace`, that what is still to be written back equals what the row
holds, or that the row has been erased.  `RowErased` has the two cases of the
erase (`page` is its own root row, or no page's), `WriteBackMoves` that writing
a page back changes nothing but the page being put (which becomes its old
contents and the new combined, so that it is put as it was sent exactly where
`Overwrite` is not), `FailureInOneRow` that a failure reaches the row being
rewritten or the controller's.  `EraseAppRefines`, `UpdateRefines`,
`FinishRefines` and `PowerLossRefines` are the steps.

`ListenerProofs`, for every set of edges, of frames (closed under damage and
reply, `FrameAssumption`) and of radios that may hang.  `Agrees` relates an
edge's place in `listen_update`, its copy of the flags and its watch to the state
of its radio: the end of a reply is announced until the pass that handles it;
the copy mentions it only where the radio has been standing by since; a radio
that does not listen has heard nothing; and the time it was last seen listening
is recent during a reply.  Each edge's step and each channel step keeps it and
cuts no reply (`GoodStep`), whence `ListenerTypeCorrect`, `EndIsSeen` and
`RepliesComplete`.

`SerialProofs`, for every size of ring and line with fewer places in the ring
than a byte has values.  `RingHolds` says that the bytes that wait lie in the
ring from the head on, in order; `ReaderKnows` that a tail once read stays good
news until the byte is taken, which is why the interrupt may come anywhere, and
is where an overrun between the two loads would matter.  From them `RingIsQueue`
(the refinement of `LineQueue` but for overruns) and `CommandsObeyedOnce`, which counts the
commands in the ring, the line and behind them.

`NodeProofs`, for every geometry, set of images, signatures, payloads and
power-up bytes, under `LoaderAssumption` and `StoreAssumption`, which are
`Boot`'s and `Flash`'s own (with at least one row for the application), and
`ImagesAssumption`.  The
lemmas of `BootProofs` and `FlashProofs` are used as they are, through
`L == INSTANCE BootProofs` and `S == INSTANCE FlashProofs`: every step of the node
is a step of `Flash` or leaves its state alone (`NodeStepsStore`), and a step of
`Boot` likewise (`NodeStepsLoader`).  The second needs `NodeInv`: `Boot` lets its
slot change under the listener only, so the controller must be quiet everywhere
else (`Attended`), and any flash must read as an image (`SlotIsImageNext`).  So
both invariants hold at once, and from them `NodeTypeCorrect`,
`OnlySignedCodeRuns`, `NodeImplementsBoot`, `NodeKeepsPages`, `NodeSparesLoader` and `UpdatesDoNotUnlock`.  An action of a
composition could also forbid what one of its parts does; `ResetsFree` shows that
the resets, where it matters, do not: every state in which a cut command can
leave the flash has its reset in `Boot`.

`UpdateLinkProofs`, for every length of the image, every range of the counter,
every set of frames closed as above and any fault of the radios, under
`SenderIsNoEdge`, `PacketsAreFrames` and, as the hypothesis `OneEdge` of each
theorem, that there is one edge, that it is the one called by the id the updater
sends, and `Timely`.  With two edges the properties are false (`link_echo`), and
with replies that may come late too, since any reply counts for the packet at
hand.  `LinkInv` says why they hold of one: while the edge has something to
answer or is answering, the updater neither sends nor has heard (`StopAndWait`),
what waits in the edge's radio is the current packet or that packet damaged,
and by the time a reply is on the air that page has been asked for; the edge
takes one message at a time (`OneAtATime`, with `ListenerInv` from `EdgeProofs`:
otherwise a second packet could be lost to the flag that is cleared for the
first); and nothing else sends (`Bystanders`).  Of the edge's steps only
`UpdateSlot` begins a reply, and the others are `QuietStep`s.  From it follow
`LinkTypeCorrect`, `NoneSkipped`, `DoneMeansComplete`, `NoStackPages` and
`LinkTransfers`.  Where the counter wraps, at images of 255 * 64 bytes and more, the
updater never reports success and `DoneMeansComplete` says nothing; `link_wrap` is
about that.  TLC has found `LinkInv` true of every state of `link`.

`VerifyProofs`, for every set of images of any length, every byte behind them and
whatever the stack held.  The prover cannot instantiate the library's induction
theorems, which take an operator.  `WFMin`, that a set has minimal elements, takes
none: with it `Smallest`, `Induction` over sets of numbers and `Recursion` (there is
a function that starts at a value and goes on by steps) are proved here, and
from these that each recursive definition of `Crc32` and `Sha256` says what it
seems to (`ReductionsDef`, `DivideBitsDef`, `DivisionDef`, `ChainDef`).

For the checksum, `TableDividesByte`: one look at the table of `verify.c`, from a
remainder of 0 and with an inverted top byte, is eight bits of the division from
a register of ones, complemented.  `BurstChangesCrc`: the difference of the two
divisions, with the damage still ahead added to it, moves on alike whatever the
messages are, and cannot vanish once the 32 bits are within the register.  For
the digest, `HashUpdates` and `HashEnds`: the context is always that of the full
blocks compressed and the rest waiting, and both ways of `sha256_final` append
the padding of the whole message, so that nothing of `Junk` reaches the digest.

`VerifyInv` puts these together: what the two loops have at the i-th byte is what
the definitions have there.  The same invariant, with what `Hashed` says of the
buffer written out, was found true by TLC of every state of `verify`.  From it
follow `BuiltIsAcceptedHolds`, which rests on `DigestAssumption` (`hashlib` computes
SHA-256); `DamageIsRejectedHolds`, which assumes nothing of the checksum; and
`DamageIsNotSignedHolds`, which rests on `CollisionAssumption`: damage does not happen
on a second message with the same digest.  Nothing of the kind can be proved of
SHA-256; TLC evaluates it for the damage in the run.  What is not proved is that
`Compress` is FIPS 180-4's: its rounds are constants and additions with nothing
to state them against.

Model-checked only: all liveness, which is out of the prover's reach.

## 6. Not modelled

* ECDSA: uECC is a submodule that is not in the tree; its verdict is an
  assumption of `Verify`.
* Modem parameters, SPI, ports, clocks, printing: no state the programs decide on.
* The updater's other serial commands (they only print), how `sscanf` and
  `strstr` find a command in the line.
* Parts under `#if 0` (`flash.c:58-72`, `flash.c:138-251`).
* Keys, embedded images and the conversion of an image to an array: data.
* CMSIS and the rest of ASF: EEPROM emulator, fuses, event and clock drivers.
  These are about 130 of the repository's 133 thousand lines, headers and
  drivers of the vendor that the programs do not call or whose effect is a
  register's.  The programs' own code is some 3 thousand lines, and it is of
  these that the modules model what keeps state.
* The value of the RTC: differences of a 32-bit counter are right across a wrap.

## 7. Plan

Order: the most important behaviour first.

1. `SharedMemory`, `BootPolicy`, `Boot`, `BootProofs` - done.
2. `Flash` - done; 3. `Radio`, `Listener`, `ListenerEnv` - done;
   4. `Updater`, `UpdateLink` - done.
5. `FlashProofs` - done.
6. `PageStore`, and its implementation by `Flash` in `FlashProofs` - done.
7. `ListenerProofs` - done; 8. `Verify` - done; 9. `SerialLine`, `SerialProofs` - done;
   10. `Node` - done; 11. the packet counter's wrap - done.
12. `NodeProofs`, `EdgeProofs`, `PacketTransfer`, `UpdateLinkProofs` - done.
13. `VerifyProofs` - done.

Left: `PageStore` and `LineQueue` as runs that TLC refutes, beside the restricted
properties of section 4; the listener over a configured writer.
