# TLA+ models of the boot path, the debug link and the device software of Task 3

The repository builds a small RISC-V system on chip (Ibex and OpenTitan cores)
and simulates it with Verilator. What it contributes of its own is

* a boot loader that reads an image from a SPI flash, checks it, copies it to
  SRAM and runs it (`Task_3/sw/bootloader.c`; an earlier version with the same
  job is `Task_3/sw/simulate_flash.c`, the one `Task_3/README.md` describes);
* a simulated flash (`Task_3/dv/spiflash.v`), reached through OpenTitan's SPI host;
* a debug link: OpenOCD talks over TCP (`Task_3/dv/tcp_server`) to an
  interpreter (`Task_3/dv/jtagdpi`) that moves the JTAG pins.

It also carries OpenTitan's device software in `Task_3/sw/device`, which is by far
the largest part of its C code. Most of that is register access, generated headers
and tests; what has a state machine worth a model is the silicon creator's code that
must survive power cuts and a bad line: the boot data log, ownership transfer with
the ROM_EXT's boot services, and serial rescue.

This directory models the three parts above and those three subsystems, checks the
models with TLC and proves the central facts about all but serial rescue with TLAPS.

## Inventory

| component | state | operations | talks to |
|---|---|---|---|
| `bootloader.c` `main` | header words, loop index, SRAM region, host enabled | set-up, three header reads, magic / size check, copy, CRC check, jump, panic | driver, flash, UART |
| `bootloader.c` CRC | table, register | build the table, one byte, finish | `mkflash.py`, which stored the other CRC |
| `bootloader.c` SPI driver | none of its own (polls STATUS) | reset, enable, put a TX word, issue a command, wait, take an RX word | SPI host |
| `simulate_flash.c` | as above, and `_debug_wait` | the same with other checks and fewer waits | debugger, driver |
| SPI host (vendored) | command, TX and RX queues, segment FSM, chip select, error bits | start / clock / finish a segment, deliver a word | driver, flash |
| `spiflash.v` | shift register, counters, opcode, address, mode, drivers | edges of `csb` and `clk` | SPI host |
| `tcp_server.c` ring | `rptr`, `wptr`, bytes | put, get, full, empty | two threads |
| `tcp_server.c` server | `sfd`, `cfd`, `socket_run` | the socket thread's loop; read, write, close, client_close | clients, `jtagdpi.c` |
| `jtagdpi.c` | pins, one command of lookahead | one tick per command | ring, TAP |
| `boot_data.c` | two flash info pages of entries | read, write (append, check, invalidate), default, version 1 conversion | flash controller, ROM, ROM_EXT |
| `lib/ownership` | two owner pages, their RAM copies and statuses, the ownership state and nonce in the boot data, the OwnerSecret page | init (repair the backup, update by version), unlock, activate, lock down | boot data, ROM_EXT |
| `rom_ext.c` | RAM copy of the boot data, keyring, request in retention RAM | boot services, choice of the slot, write boot data and reboot | ownership, rescue, the owner's firmware |
| `lib/rescue` | mode, frame, buffer, flash offset; the sender's block and error counts | XMODEM in both directions, mode commands, flash a slot, stage data | host over a serial line, flash, retention RAM |
| UART driver, start-up code, SoC wiring, crossbar, `Task_2`, scripts | | | not modelled, see the end |

What is hard about them:

* **Two threads and no lock.** The ring and `cfd` are plain memory shared by the
  simulation thread and the socket thread.
* **CPU against SPI host.** The driver sees only STATUS, and a command still in
  the queue reads as "ready and not active"; the next register access races it.
* **Restarts.** The debugger restarts the program at any instruction without
  resetting the SoC: the host keeps its queues and the flash its dummy count.
* **Boundaries.** Sizes at and beyond the load region, sizes of broken words, the
  stack at the top of the same region, the ring's spare slot, the 24-bit address.
* **Everything polls.** Each wait is a loop without a limit.
* **Power cuts between flash operations.** A boot data update is four or five
  operations, an ownership transfer four and a boot data update after them. Each
  may fail, or be the last one of this boot, and the next boot starts from what it
  finds.
* **Requests that come again.** A request stays in retention RAM until its reply
  replaces it; a cut runs it again over pages it has already changed.
* **A line that loses and damages.** XMODEM has one acknowledgement and one timeout
  for every fault; either end may be one block ahead of what the other believes.

The `hazards` list of `PROJECT.json` has each of these at its line.

What makes the components correct: the ring is a FIFO and puts return; the
interpreter answers like a serial one; the server forgets no client but through a 'Q'
that races with the next one, and can be shut down; a flash read returns the memory; the boot runs exactly the good images and
only what it has verified; the CRC is the one that was stored. The boot data is an
atomic cell; a configuration is installed only by who may, an owned chip keeps its
owner through cuts and failing flash operations (with three exceptions, named below) and
runs only firmware of the owner in page 0; what rescue acknowledges is in the flash, what
it sends arrives, and it never hangs.

## Modules

| module | models | role |
|---|---|---|
| `ByteFifo` | what a ring promises | abstract specification |
| `TcpBuf` | the ring, one step per memory access of the compiled code | implements `ByteFifo` |
| `TcpBufProofs` | | theorems about `TcpBuf` |
| `TcpServer` | socket thread, simulation thread, clients | |
| `TcpServerProofs` | | theorems about `TcpServer` |
| `JtagDpi` | the interpreter, on the queues that the rings are | uses what `TcpBuf` shows |
| `JtagDpiProofs` | | theorems about `JtagDpi` |
| `BootSpec` | what a boot promises | abstract specification |
| `Bootloader` | `main` of `bootloader.c` | implements `BootSpec` |
| `SimulateFlash` | `main` of `simulate_flash.c` | extends `Bootloader`, implements `BootSpec` |
| `BootloaderProofs` | | theorems about `Bootloader` and `SimulateFlash` |
| `Crc32`, `Crc32Proofs` | table-driven CRC beside the bit-serial one | |
| `SpiFlash` | `spiflash.v` as operators on a register record | used by the next two |
| `FlashProtocol` | the flash with a master that keeps to its protocol | |
| `FlashRead` | driver + SPI host + flash | composition |
| `FlashReadProofs` | | theorems about `FlashRead` and `FlashProtocol` |
| `BootDataSpec` | what reading and writing the boot data promise | abstract specification |
| `BootData` | `boot_data.c` over flash operations that fail | implements `BootDataSpec` |
| `BootDataProofs` | | theorems about `BootData` |
| `OwnerBlock` | the rules of `lib/ownership`: validity of pages, keys, requests | operators |
| `RomExt` | `ownership_init`, the boot services and the choice of the slot, boot after boot | composes `OwnerBlock` with the cell of `BootDataSpec` |
| `RomExtProofs` | | theorems about `RomExt` |
| `XModem` | `xmodem.c` as step functions | operators |
| `Rescue` | `rescue.c` and `rescue_xmodem.c`, the line, the host | both ends use `XModem` |
| `MC*` | | small instances |

### How state and actions correspond to the code

**TcpBuf.** `rptr`, `wptr`, `buf` are the fields of `struct tcp_buf`. The code has
data races, so the model is of the object code: Verilator compiles the DPI sources
with `-Os`, and at `-Os` and `-O2` gcc loads both pointers once in `put_byte`, and
if the ring is full branches to itself ("spin"); `get_byte` stores `rptr + 1`, not
wrapped, then loads the byte, then stores the wrapped pointer. Each access is an
action (`PutTest`, `PutStore`, `PutPublish`; `GetTest`, `GetBump`, `GetLoad`,
`GetWrap`). At `-O0` the loop of `put_byte` would look again. `ChecksFull` tells the two rings apart: the socket
thread tests `is_full` before it puts (`buf_in`), `tcp_server_write` does not.
Stores become visible in program order (the host is x86).

**TcpServer.** A descriptor is a small number, the lowest free one is given out,
0 is "none". Every use of `ctx->cfd` by the socket thread is a step; so are the
test, the `close` and the store of `tcp_server_client_close` on the simulation
thread. On the socket thread these three are one step: the other thread's accesses
in between lead to states that are also reached around it. `quit` counts the
closes of the simulation thread. The rings are
counters, since `TcpBuf` covers their inside. A client that leaves with nothing
unread closes the stream (a first send succeeds, a later one gives EPIPE); one that
leaves with something unread resets it (ECONNRESET). `EINTR`, failures of `fcntl`,
and a `cfd` that changes between the three reads in the `FD_SET` lines are left
out; all failures of `start` are one.

**JtagDpi.** One action per kind of command of `update_jtag_signals`. `tdo` counts
the falling edges of TCK, so every answer shows which bit it is. The reference it is
compared with is read off `sent`, the commands in the order they were sent: the pins
before the k-th are those of the last write and reset (`PinsBefore`), the bit is the
number of falls (`FallsBefore`), the place of its answer the number of reads
(`ReadsBefore`). A byte that is no
command exits the simulator and is not sent. `out` counts the answers in `buf_out`, of
`RingMax` places: `tcp_server_write` is an append while there is room and never returns
from a full ring (`TickSpins`, `spinning`), which is what `TcpBuf` shows of an unchecked
put. The socket thread takes answers out (`SocketSends`), when it likes.

**Bootloader.** One action per statement group of `main`; `flash_read_word` is one
step, which `Glitch = TRUE` lets return any word. `sram` is the load region.
`StackOffset` is where the stack begins in it (`link.ld`: 0xF000 of 0x10000); a
store beyond it leads to "smashed", after which nothing is promised: `BootSpec` calls that
boot "lost", and allows it only for accepted images that do not fit below the stack
(`Room`). UART output is reduced to the panic message.

**SimulateFlash.** Reuses the copy, CRC and jump of `Bootloader`, which are the
same statements there, and has its own set-up, header checks and debug wait. It is linked
by the same `link.ld`, so its stack is in the same place.

**Crc32.** A word is the set of its one bits; `W`, `POLY` are parameters. The two
CRCs run in step over the copy and over what was programmed.

**SpiFlash / FlashProtocol.** Each `always` block is an operator from record to
record; blocking assignments become nested updates. `CsbLow` gives both orders of
the two blocks that wake together. `FlashProtocol` plays a master bit by bit; it
does not give up during dummy clocks, because the flash does not forget them (see
`FlashRead` for what the real driver does about that).

**FlashRead.** `Host` is the SPI host: `Start` takes a command, `Clock` is one
period of sck with both sides sampling, `Finish` ends a segment, `DeliverRx` moves
a merged word to the RX queue. `Cpu` is the driver, one action per register access
that matters (polls that change nothing are guards). `driver` is the program that
was loaded: `simulate_flash.c` does not wait before a command and does not wait for
RXEMPTY. `Prompt` says that the host's internal moves which take no bus clock happen
before the next register access. For `bootloader.c` nothing is assumed about
relative speed. For `simulate_flash.c` it is, and needed: with `(1u >> 24) & status` its wait is void, and what saves it is that
a TL-UL access takes longer than the hop from queue to FSM, and that the trail and
idle times it configures (15 periods, divider 24) keep ACTIVE up until the word has
arrived.

**BootData.** `flash` is the two pages; an entry is its digest, its `is_valid` words
and the rest. `todo` is the list of flash operations the call under way still has to
make, so each is a step; `CutShort` is an operation that fails or a reset in it, and
leaves the target as it was, done, or torn; an erase leaves each entry of the page
as it was, blank, torn, or with its `is_valid` words erased again. `Unreported` is
programming that did not take and returned no error, the case the code's read-back
is for; an erase is not read back, so a failing one is taken to be reported (without
that, an old entry behind the new one in a page that was not erased outlives it).
SHA-256 is taken to be injective. The permissions and
the hardened double checks are left out. One action, `boot_data_write`, is the search and
the choice of the operations, which touch no flash.

**OwnerBlock, RomExt.** A key is the party that holds it and a signature its signer;
a configuration keeps the fields the ownership code decides on. `pc` follows
`rom_ext_start`: "init" is `ownership_init`, "svc" the boot services, "boot" the
choice, then "run", "rescue" or "halt". Operations on the owner pages are in `todo`
as above. `boot_data_write` is one step that may not take effect, which is what
`BootDataSpec` allows. `owner_page`, `owner_page_valid` and `ram` are the copies in
main RAM, `msg` is the request in retention RAM. An operation on an owner page that fails or is
cut short (`PageAfter`) leaves the page as it was, done, bad, or *torn*: the old or the new
configuration with its signature but without its seal, which is the last field of
`owner_block_t`. `ownership_seal_page` may fail, and the page is then written without a
seal, because `ownership_activate.c:24` does not look at the result. Any page may be lost
between two boots (`PageLost`). The environment leaves any request with any nonce seen so
far; where `ownership_pages_lockdown` lets it, it writes page 1 with a signed
configuration, with one this chip sealed earlier (page 0 can be read, so `past` can be
replayed) or with anything else; it wakes the chip from sleep, or cuts power.
`installed`, `past` and `exposed` are history variables. `exposed` becomes true at three
faults after which the code cannot know better: a seal that failed unnoticed, an abort
granted while page 0 is not sealed, and the loss of a sealed page without a copy. The flash
and info protections of a configuration, the ISFB and DICE code, and the owner
firmware's verification beyond version and key are left out.

**XModem, Rescue.** Data is counted in units of 128 bytes. A message is what an end
reads in one go: a character, a frame, or a whole mode command. A frame carries what
the line did to it. `dev` holds `rescue_state_t` and the read `protocol` is blocked
in ("recv", or "send" inside `xmodem_send`, or "baud"). The host is not in the
repository: it uploads with the steps of `xmodem_send` and downloads with those of
`xmodem_recv_frame`. `LineFault` drops or damages what is next to be read, at any
time and without a bound. Assumed: a damaged control character is never taken for
another one (XMODEM protects none of them); a boot takes longer than a host at
work needs to read what had reached it; a host asks for a mode when it has read all
that was on the line. If `RESQ` is not in the owner's command
list, `state->mode` is not initialised and starts with any value. The `KLBR` command
of development builds and the baud rate itself are left out.

## Runs

| run | bounds | shows |
|---|---|---|
| `tcpbuf` | ring of 3, two byte values | `buf_in` is a FIFO, no slot race, a checked put never spins, puts return |
| `tcpserver` | 2 clients, 2 bytes each, ring of 2, 'Q' at any command | each 'Q' loses at most one connection and nothing else loses any; shutdown ends although both threads close |
| `jtagdpi` | 5 commands of 7 kinds, `buf_out` of 2 | same answers and pins as a serial interpreter; nothing is left undone unless a debugger overruns `buf_out` |
| `boot_image` | 3-word region, stack at word 2, sizes 0 to 4 words, right and wrong headers | the outcome is that of `BootSpec`: only accepted images that reach the stack are lost; only verified code runs |
| `boot_stack` | sizes up to the region | **violation**: the copy reaches the stack |
| `simulate_flash` | the same region and stack, and a size of broken words | below the stack it boots exactly good whole-word images; never calls an intact one corrupt |
| `crc32` | 32 bits, the real polynomial, messages up to 2 bytes, and the README's example | agrees with the definition; one wrong byte is seen |
| `flash_protocol` | 3 addresses with the wrap, 3 bytes | every bit of every read mode |
| `flash_read` | both drivers, 2 addresses, 2 restarts, queues of the real depth | reads are right after restarts, for `bootloader.c` at any relative speed |
| `boot_data` | 2 entries per page, counters to 5, a version 1 entry or blank pages at the start; any number of cuts | the log is one atomic cell; the page search never meets two entries with one counter |
| `rom_ext` | 2 owners and the silicon creator, 4 configurations (one does not parse), 2 images, 2 nonces, 2 faults | until one of the three faults no configuration is installed against the rules and an owned chip keeps its owner; with or without them it runs only firmware of the owner in page 0 and regains its backup |
| `rescue` | frames of 1 and 3 units, 6-unit buffer, 2 pages, 11 jobs of which the host does 2, 2 boots, any number of line faults, a failing flash operation at each step | acknowledged data is stored once and in order; a finished download is exact; every transfer ends |

Why the bounds are enough. A ring of 3 wraps, fills, empties and has both
threads at the same slot; its behaviour depends only on pointer differences, and
the proofs remove the bound and cover `buf_out` as well. Two clients are one that is there and one that comes.
Five commands hold a rise, its 'R', a fall and a second rise; the lookahead is one
command deep. A `buf_out` of two fills with answers of both kinds, looked ahead and
not. Three words have a first, a middle and a last one, and the last is the stack: an image
of two words fits, one of three is accepted and does not, one of four is refused. Two restarts let
one interrupt the recovery from the other. The MC checksum has two bits, so wrong
images do pass and the properties cannot lean on its strength. Five counters at
two entries a page fill page 0, move to page 1 and come back to a page that holds old
entries. Two faults let one cut the repair of another; two nonces cover an unlock and
the activation after it, with stale ones beside the current. Thirteen units are
one block more than the region has, seven end in a padded block, and two jobs let the
second meet what the first left in the line, the buffer and the flash. `Retries` and
`MaxErrors` are 2 where the code has 30 and its own limit: only that they are reached
matters. `MaxPrompts` bounds the start characters that wait in the line.

`CHECK_DEADLOCK FALSE` is used where the environment stops at its bound and then
nothing is left to do: `jtagdpi` (after `MaxCmds`), `boot_data` (at `MaxCounter`),
`rom_ext` and `rescue` (at `MaxBoots`). Every other specification has an explicit
stuttering step where the program rests.

### Fairness

* `TcpBuf`, `TcpServer`: both are POSIX threads that keep being scheduled, so their
  steps are weakly fair. No caller is forced to put, no client to connect, send or
  leave. `TcpServer` assumes a connected client reads what it is sent: `put_byte`
  retries EAGAIN for ever, and without it shutdown can hang (a listed hazard).
* `JtagDpi`: the tick is called every clock of the simulation. Nothing is assumed of the
  socket thread, which may never empty `buf_out`.
* `Bootloader`, `SimulateFlash`, `FlashRead`: the processor executes and the hardware
  is clocked. The debugger is never forced to release a waiting program.
* `RomExt`: the processor runs the boot to its end, and a chip that shut down is
  reset. Nothing is assumed of the owner's firmware or the rescue host.
* `Rescue`: device and host keep running and their reads time out, which is a step
  of theirs when the line is empty. The line is under no obligation to deliver.

## Findings

`boot_stack`: `bootloader.c` accepts images that overwrite its own stack; the README
calls the load region safely above it.

## Observations

Behaviours that are in the models and that no run is about:

* `tcp_server.c:262`, `:289`: a client that leaves with answers unread resets the
  connection, which the assertions there take for impossible; the simulation aborts.
* `TcpBuf` with `ChecksFull = FALSE` violates `PutReturns`: in an optimised build
  `tcp_server_write` on a full ring never returns, even if the reader makes room.
* A 'Q' that races with the socket thread: the simulation thread's `cfd = 0` can land
  after the socket thread has accepted the next client. That connection stays open
  with nobody knowing of it, and a further one is accepted beside it, where the comment at
  `tcp_server.c:200` says "Enforce a single concurrent connection". `OrphansBounded` says
  that this is the only loss and that each 'Q' costs at most one.
* `jtagdpi.c:135`: a debugger that asks for more answers than `buf_out` holds while the socket
  thread is behind stops the simulation for good (`Drains`, `SpinsOnlyOverrun`).
* The end of a client's stream is read like an empty stream, so `cfd` stays taken
  and the next client is turned away until a send fails.
* `bootloader.c:384` accepts sizes that are not whole words, which `Task_3/README.md`
  excludes (793, 797), and then reports an intact image as corrupt.
  `simulate_flash.c` has the missing test (`CrcBadMeansCorrupt`). `CrcBadIsCorruptOrBroken`
  says that there is no other such case.
* A NewVersion update cut after page 1 is sealed leaves both pages sealed and
  different. `locked_owner_init` (`ownership.c:96`) then has "nothing to do": the chip
  goes on with the old configuration and neither page has a backup, where the
  comment at 223 says "Make sure page0 and page1 are identical and fix if not".
  `BackupRestored` starts from one sealed page, with no new version in the other, and asks for
  two *equal* ones; `LockedNeverLost` excepts the loss of a page without a copy.
* An activation cut in the write or the erase of page 0 can leave that page signed but not sealed.
  `unlock_abort` asks only for the key of page 0, so it may be granted then, and the
  chip is locked on it. The next boot copies page 1 over page 0, whoever's it is, or
  goes to Recovery. This is the second fault of `exposed`.
* `ownership_activate.c:24` does not look at the result of `ownership_seal_page`, and writes a page
  that may not be sealed to both slots. (An error of the KMAC in the check of a seal is
  not in the model.)
* A page this chip sealed for an earlier owner can be read from page 0 and be written back to
  page 1 later, wherever page 1 may be written (also by a locked owner whose update mode goes
  by version), and is "Sealed" again. It cannot be installed through that alone, but both
  pages are then sealed and differ, and the loss of page 0 brings the earlier owner
  back (the third fault).
* `ownership_activate.c:27` changes the minimum security version in RAM before the pages are
  written; if a flash operation then fails, the rest of that boot goes by the new one.
* `rom_ext.c:505` says that the check of MinBl0SecVer "prevents a malicious MinBl0SecVer request
  from making the chip un-bootable". While the chip is unlocked the keys of page 1
  count too: a version accepted for the next owner's image remains after an abort, and
  no image of the owner who is back verifies. The instance of `rom_ext` reaches this.
* In Recovery with a page 0 that cannot be read, `ownership_key_validate` takes the
  key algorithm from that page (`ownership_key.c:58`) and refuses the silicon
  creator's unlock as well.
* `rescue.c:101` says that REBO is always allowed; `rescue_send_handler` (175)
  refuses the mode unless the owner lists it. The chip ends the protocol either way.
* `rescue_xmodem.c:91`: if RESQ is not in the owner's list, the mode is whatever the stack
  held, and a download does not bring the mode back to RESQ.
* A chip that resets during the first block of an upload to slot B comes back in
  mode RESQ and takes the repeated first frame: the image goes to slot A.
  `AckedIsStored` asks for a slot, not for the one that was named, so it does not
  catch this.
* `xmodem_send_finish` (`xmodem.c:182`) does not look at the answer to EOF, so a sender
  reports success although the padded last block may not have been written.

## Proofs

All theorems hold for every value of the constants that satisfies the named
`ASSUME`s, which TLC evaluates in the runs. Each proof has the same shape: an
inductive invariant, mostly called `IInv` (checked with TLC before it was proved), one lemma per
action or group of actions, and a last step that combines them.

**TcpBufProofs** (from `BufAssumption`: some byte, a ring of at least two). The
inductive invariant adds to `TypeOK` where each thread's local pointer stands
relative to the shared ones: a getter past its test owns a non-empty ring, `rptr` is
unwrapped exactly in "load" and "wrap", and a putter past its test still sees
room, because the other thread only makes more. From it: `TypeCorrect`,
`LateLoadIsSafe` (the spare slot protects the late load), `CheckedPutIsSafe` (the
second test agrees with the first) and `RingIsFifo`, that each step of the ring is a
step of `ByteFifo` or a stutter under the mapping `Content`, in which a byte being
loaded is still in the queue. None is inductive alone: the safety of the load rests
on what the putter saw before the getter moved.

**TcpServerProofs** (from `ServerAssumption`). `LossBounded` is `OrphansBounded`, and
`ShutDownLeavesFew` says what is open once the context is freed: at most one connection for each
close by the simulation thread, none if there was no 'Q'. Both threads write `cfd` in every
behaviour considered. The invariant counts: a close under way on the simulation
thread (`Owed`) holds the place of the one connection its store of 0 may cover, and
every other step takes connections from the orphans or leaves them, `accept` because
it stores only when `cfd` is 0. Any number of clients, bytes and ring size.

**JtagDpiProofs** (from `JtagAssumption`). `IInv` counts the commands that have been
carried out (`Carried`: all but the socket's and the buffered one), says that those
waiting are the rest of `sent` in order (`Waiting`), and that pins, TDO, answers and
connection are those of a serial interpreter after that many (`Serial`). Each tick is
one serial step (`SerialStep`), or two when a read is answered ahead: that the second is
right rests on a rising edge being no falling one, so TDO cannot have changed. A
send leaves the reference for the earlier commands as it was (`LongerHistory`), for
which the last command of a kind must be known to exist (`HistoryOK`). From it:
`TypeCorrect`, `AnswersAreSerial`, `AllCarriedOut`, for any mix and number of commands.
`SpinsOnlyOverrun` is the safety half of `Drains`: a tick that does not return had an answer
to give that is not among those given yet, so with a full ring the debugger has asked for
at least one more than it holds.

**BootloaderProofs** (from `BootAssumption`). `IInv` is `TypeOK` with what each
control point has established (magic right after its check, CRC right at the
hand-off). It gives `TypeCorrect` and `OnlyVerifiedRuns`, on any bus.
`BootImplements` assumes a bus that does not err and images of whole words, of any size and
wherever the stack is (`Faithful`): every step refines `BootSpec`, and what is checked is the
flash's payload. Its invariant adds that the words copied so far are those of the flash and that
none is beyond the stack (`BelowStack`), so "smashed" is reached only with an accepted image
that does not fit, and a hand-off only with one that does. `CrcBadIsCorruptOrBroken` drops the
whole words: whatever the size, a CRC panic means a damaged image or a size of broken words.

For `simulate_flash.c` the same module has the same results, from the same
copy and verify lemmas. `SimOnlyVerifiedRuns` is on any bus.
`SimBootImplements` and `SimCrcBadIsCorruption` assume only a bus that does not err: images have
any size, because this program refuses those of broken words. That is the difference between
the two programs, as theorems.

**Crc32Proofs** (from `CrcAssumption`: at least 8 bits, a constant term). The
argument is algebra on the bit step: it is linear over xor, eight of them on a word
whose low byte is clear are a shift, so a table step is eight bit steps of
the xor, and so is a byte of the definition. `IntactImagePasses` is the invariant
that both registers agree while the copies do; `OneWrongByteRefused` adds that the bit
step is injective when the polynomial has its top bit, so registers that differ once
stay different.

**BootDataProofs** (from `BootDataAssumption`), for pages of any size and any number
of writes and cuts. Neither `CountersDiffer` nor the refinement is inductive: an
invalidated entry is harmless until an erase that is cut short erases its `is_valid`
words again and makes it readable. So the invariant is about *whole* entries, valid or
not: they are in the order of their counters (`Ordered`), and there is none, or the one
with the greatest counter is valid and in a page without gaps (`Log`). While a write is
under way (`Writing`) it has either not taken effect, and the predecessor is still the
newest and not in the page to be erased, or it has, and only an older entry is still to be
invalidated. `ReadsNewest` connects this with the searches of the code, which are
minima and maxima over indices: they exist by well-founded induction on the naturals
(`WFMin`). `LogIsAtomic` is the refinement `AtomicRefinement`; `CountersAlwaysDiffer` and
`TypeCorrect` follow from the invariant.

**RomExtProofs** (from `RomExtAssumption`), for any owners, configurations, images,
requests, faults and boots. The invariant has two halves. `TInv`, the types and what they
rest on, holds in every history and gives `TypeCorrect`. `SInv` holds until `exposed`:
a sealed page 0 is what was installed last (`PageZero`); an owned chip whose page 0 is not sealed has
a sealed page 1, with the same configuration or one that may follow it (`Backup`); how the
RAM copies of the boot data and of the pages may differ from the flash at each place
of the boot (`RamState`, `RamPages`); and what the operations under way rest on
(`UnderWay`: the page not being rewritten is sealed with what is being written). It gives
the action properties `OnlyPermitted` (a rewrite that is repeated after a cut is still
permitted, because `Successor` is what `Backup` keeps) and `NeverLost`. Torn and replayed
pages, failing operations and cuts are all covered; the three faults are not. In the
instance of `rom_ext` each of them, left out of `exposed`, breaks `LockedNeverLost`, and the
last two break `ConfigPermitted` as well.

**FlashReadProofs**, first part: `FlashRead`, from `ReadAssumption` (addresses of whole
words in the flash, whose content is bytes; queues of any depth but 0), for any number of
restarts. `IInv` is `TypeOK` and a description of the whole system by a few numbers: where
the host is (at rest, in clock n of a command, holding the chip select between two, or
with a segment over), how many commands of the script the host has begun and how many
accesses of it the driver has made. The queues are then windows of that
script, and the flash is in the phase these numbers name (`WakeUp`, `Opcode`,
`Address`, `Dummy`, `Data`, each after n clocks). The hard case is a restart in the dummy
clocks of a read: the flash keeps the rest of the count (`spiflash.v` resets it nowhere),
and the power-up command of the next run is eaten by it (`Eaten`, beside `Heard`). The
invariant says why that does no harm: the flash is awake then, and eight clocks are
enough to use the count up, so the read that follows begins clean. From it: `TypeCorrect`,
`ReadsAreRight` (every word either driver returns is the flash's), `NoErrorRaised`,
`LinesAreSafe`. For `bootloader.c` this is at every relative speed, for
`simulate_flash.c` with the prompt host described above.

**FlashReadProofs**, second part: `FlashProtocol`, from `ProtocolAssumption` (addresses in
the flash, content of bytes, reads of any length but 0). `ProtocolInv` says where the flash is
after e edges of a transaction: `OpcodeIn` up to the last bit of the opcode, then `ReadState`
for a read and `OrderIn` for the others. `Got(c, e)` counts the bits shifted since the
opcode and `Left(c, e)` the dummy clocks to go; the byte and bit counters of the flash
are its quotient and remainder by 8, the buffer has the first bits of a header byte at
its low end (`BitsAreIn`) or the bits of a memory byte not yet sent at its high end
(`BitsAreOut`), and `LinesAt` says who drives. `Advance` is the step they share: shifting
the lanes of any of the four reads moves from `Got` to `Got` plus its width, through the
ends of bytes, the completed address, the mode byte and the fetches. The ddr read
has lemmas of its own for each phase, since it shifts at the falls too and turns its lines
round half a clock after the opcode. `NoneLeft` is why the master may give up where
it does: no dummy clock is left there, so the next transaction starts clean. From it:
`EveryBitIsRight` (`DataRight`) and `LinesNeverClash` (`NoConflict`), for every content,
address and length, and after any history of transactions, completed or given up.

Only model-checked:

* liveness (`PutReturns`, `CloseReturns`, `Drains`, `ReleasedBootEnds`,
  `ReadReturns`, `BackupRestored`, `TransferEnds`) and the fair part of the refinements
  of `BootSpec` and `ByteFifo`: TLAPS 1.4.5 has no support for fairness and ENABLED;
* `LockedRunsOwners`, which also speaks of the boots after the three faults of `exposed`;
* the concrete checksum of the README's example (`SampleCrc`), which is evaluation;
* `AckedIsStored` and `DownloadExact` of `Rescue`. They are not theorems for every value
  of the constants. A frame number is one byte (`xmodem.c`), so a chip that resets while the
  host is at a block that is 1 modulo 256 takes that block for the first: `AckedIsStored`
  holds for images of at most 256 blocks, and the run has far fewer. If the owner's list
  lacks `RESQ`, a chip that resets in a download comes back in a mode that is
  not initialised, and with two modes that send, the two halves may come from different data:
  `DownloadExact` needs a list with `RESQ` or with one such mode, as in the run.

A bus that errs (`Glitch = TRUE`) is covered by the theorems; no run has it.

## Plan

Done: the ring, the boot with its CRC, and the flash path, each with its
composition; the interpreter and the server; the boot data, ownership and rescue of
the device software; proofs of all safety properties of the runs but four. What
would come next, in this order:

1. `FlashRead` under `Bootloader`: a refinement from the register accesses to one
   read, so that the boot's atomic read is shown and not assumed. `ReadsAreRight` is its
   safety part.
2. The ROM's bootstrap (`lib/bootstrap.c`) and the ROM's choice between the ROM_EXT
   slots, on top of `BootDataSpec`.
3. Bytes tagged with their connection in `TcpServer`, to state what a new debugger
   may see of the last one; compose with `JtagDpi`.
4. XIP in `FlashProtocol` (mode byte A5), with both orders of the `always` blocks.
5. `Rescue` with images below 256 blocks as an assumption, and its proof (the frame
   number of each end modulo what is in the line).

## Not modelled

* UART driver and demo application: one polled register per character.
* `boot.S`, `link.ld`: straight-line code; the layout enters as `StackOffset`. (The
  loop that clears .bss runs one word past its end, which is harmless there.)
* `soc_mod.sv`, `top_verilator.*`, crossbar: wiring and generated code.
* Ibex, riscv-dbg and the other OpenTitan cores: third-party; the SPI host is modelled
  as far as the drivers use it.
* The rest of `sw/device`: the DIFs and drivers are one register access after another,
  the headers and test suites are generated or straight-line, `manuf` and `lib/cert`
  provision and encode, and the cryptographic library computes. The repository
  builds none of it. The modelled share of the whole tree is small for that reason.
* `lib/bootstrap.c` and `rom/rom.c`: see the plan.
* `Task_2`: an earlier exercise that prints a greeting.
* `vendor.py`, `debug.sh`: tools.
