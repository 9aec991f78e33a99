# probe-rs: a TLA+ model of its core

probe-rs talks to a microcontroller through a debug probe: it connects to the
target's debug ports, controls its cores, programs its flash and exchanges data
with the running firmware over RTT. This project models the parts of the library
where steps of several actors interleave, where transfers fail or are retried,
and where something the host remembers may no longer be true of the target. The
modules are checked by TLC on small instances; for nine of them the safety properties that the runs
check are also proved with TLAPS, for every value of the constants (see *Proofs*).

All paths below are relative to `probe-rs/src/` unless they start with another
top-level directory of the repository.

## The system

### Parts, their state and their operations

| Part | Source | State | Operations |
|---|---|---|---|
| RTT channels | `rtt/channel.rs` | host: buffer address, size; target RAM: ring buffer, write and read offset, mode | `read`, `peek`, `write`, `set_mode` |
| RTT control block | `rtt.rs`, `rtt/channels.rs` | address of the block, list of channels | attach (scan, validate) |
| RTT clients | `bin/probe-rs/util/rtt.rs`, `rtthost/` | decoders, input waiting to be sent | poll, push |
| Flash builder | `flashing/builder.rs` | map of staged blocks | `add_data`, `build_sectors_and_pages` |
| Flash algorithm | `flashing/flash_algorithm.rs` | geometry of the flash, blob | enumerate sectors and pages, assemble |
| Flasher | `flashing/flasher.rs` | operation under way, page buffer in use; target: core, registers, RAM, flash | erase chip, erase, fill, program (one or two buffers), wait |
| Flash loader | `flashing/loader.rs`, `erase.rs`, `download.rs` | staged data, grouping by algorithm and core | `add_data`, `commit`, `erase_all`, `erase_sectors` |
| SWD transfers | `probe/arm_debug_interface.rs` | batch of transfers, retries; target: transaction under way, RDBUFF, sticky flags | register and block reads and writes |
| ARM debug interface | `architecture/arm/communication_interface.rs`, `sequences.rs`, `ap/mod.rs` | current debug port, SELECT cache per debug port, known access ports | initialise, select, read and write registers, drop |
| ARM memory access | `architecture/arm/memory/`, `ap/memory_ap/` | CSW and TAR of the access port | aligned and unaligned accesses |
| Cores | `core.rs`, `architecture/arm/core/`, `architecture/riscv/`, `architecture/xtensa/` | cached run state, breakpoints, register caches | halt, run, step, reset, breakpoints |
| Session | `session.rs` | cores, interfaces | attach, reset, erase, drop |
| Probes | `probe/*` | USB link, scan chain | protocol of each probe |
| Test runner | `bin/probe-rs/cmd/run/`, `semihosting.rs` | run under way, its time, decision of the halt handler; core driver: decoded call | run until a decision, time-out or CTRL + C; list and run tests |
| Servers | `gdb_server/`, `bin/probe-rs/cmd/dap_server/` | client session, poll loop | requests, events |
| Debug information | `debug/` | DWARF units, variable cache | unwinding, stepping, variables |
| Targets | `config/`, `probe-rs-target/` | chip descriptions | lookup |

`PROJECT.json` lists every component with what is modelled of it and why the rest
is not.

### How the parts interact

A flash download stages data in the *loader*, which splits it over *builders* by
memory region and groups regions by flash algorithm and core. For each group a
*flasher* loads an algorithm into RAM and calls its routines by writing core
registers and resuming the core. Each of these accesses becomes reads and writes
of a memory access port; the *ARM debug interface* selects the debug port, access
port and bank, and the *SWD transfer layer* turns the access into batches on the
wire. *RTT* uses the same memory accesses, but while the core is running: the
firmware is the other end of its ring buffers.

A debugger works on a *core*. `Core` (`core.rs`) passes each operation to the driver of the
core's architecture, which turns it into a sequence of accesses through the probe. On ARMv7-A,
ARMv8-A, RISC-V without a system bus and Xtensa there is no other way to the core's memory and
most of its registers than to make the core execute instructions that use one or two of its own
registers; the drivers save these, put them back and remember what they saw.

### What is hard

* **Two writers, one memory.** RTT rings and the page buffers of double-buffered
  programming are accessed by the host while the core runs.
* **Stale knowledge.** RTT offsets are read once per call; the SELECT cache is
  believed for the life of the interface; the result of a page is examined when the
  next one is ready.
* **Failures in the middle.** Any transfer may fail before or after it had its
  effect; a flash routine may fail, hang or lock up the core; the target may reset
  itself.
* **Pipelining.** A posted read is answered one transfer later, a buffered write
  is acknowledged before it is performed, and a WAIT turns the rest of the batch
  into FAULTs.
* **Borrowed registers.** A driver that reads memory through the core's own registers has
  to give them back before the program goes on, on every path, errors included.
* **A core that moves by itself.** The program may reach a breakpoint between any two
  accesses of the host; a driver that remembers whether the core is halted may be wrong.
* **A program that answers back.** Under `probe-rs run` the program decides when it prints, calls,
  exits, crashes or resets itself; the host polls, with a time-out, what a reset does not erase.
* **Order nobody chose.** Groups of regions are flashed in the order of a hash map.

The hazards are listed with their lines in `PROJECT.json`, each with the properties
that would notice it, or a note why none does.

## The modules

| Module | Models | Used by |
|---|---|---|
| `RttRing` | ring arithmetic of `channel.rs` (`readable_contiguous`, `writable_contiguous`, wrapping) | `RttUp`, `RttDown` |
| `ByteFifo` | abstract specification: a bounded queue of bytes, published at one end and taken at the other | refined by `RttUp`, `RttDown` |
| `RttUp` | one up channel: firmware against `UpChannel::read`/`peek`/`set_mode`, target resets | `MCRttUp`, `Rtt_proofs` |
| `RttDown` | one down channel: `DownChannel::write` under rtthost's loop, against the firmware | `MCRttDown`, `Rtt_proofs` |
| `FlashLayout` | pure: sectors, pages, blocks and fills of staged data | `FlashBuilder`, `MCFlasher` |
| `FlashBuilder` | `add_data` in any order over any geometry | `MCFlashBuilder`, `Flash_proofs` |
| `Flasher` | the host driving flash routines on the core | `MCFlasher` (its plans come from `FlashLayout`), `Flasher_proofs` |
| `FlashLoader` | `commit`, `erase_all` and `erase_sectors` over all memories of a target | `MCFlashLoader`, `Flash_proofs` |
| `DapTransfer` | SWD accesses with a slow access port | `MCDapTransfer`, `DapTransfer_proofs` |
| `ArmSelect` | SELECT caches, multidrop switching, enumeration of access ports | `MCArmSelect`, `ArmSelect_proofs` |
| `CoreAccess` | a core, its registers, memory and breakpoint units; accesses that may fail, and handlers made of them | all core modules |
| `CortexM`, `ArmV7a`, `ArmV8a`, `RiscV`, `XtensaCore` | one driver each: pure operators from a state to the outcomes of each operation | `DebugCore` |
| `HeldCore` | abstract specification: what a debugger may rely on about a core it holds | refined by `DebugCore` |
| `DebugCore` | `Core` and `Session` over any driver, with a program that stops when it likes | `MCDebugCore`, `DebugCore_lemmas` and `DebugCore_proofs` |
| `RunLoop` | `probe-rs run`: `run_until`, its two modes, semihosting, attaching to and polling RTT, against a program that does what it likes | `MCRunLoop`, `RunLoop_proofs` |

Definitions called `Slip...` are small programming errors in the definition
that follows them; no specification uses them. Each property is known to fail when
the definition is exchanged for its slip, which `PROJECT.json` records.

### How state and actions correspond to the code

**RttUp.** `buf`, `wr`, `rd` and `mode` are the descriptor and buffer in target RAM
(`channel.rs` 29-52). The local variables of `read_core` are `hw`, `hr`, `hcount`,
`hroom`; `hpc` is the place in the call. `ReadPointers` is one block read, so it sees
both offsets together; the bytes of a chunk are copied one by one because the core is
not halted. A byte is its number in the stream the firmware sent: a lost, repeated or
overwritten one is a gap. The firmware (`TargetBegin`, `TargetPut`, `TargetPublish`) is
external: it is modelled from the offsets and modes that `channel.rs` documents, with
bytes visible in the buffer before they are published. `TargetReset` sets the offsets
to zero and keeps the RAM, as a start-up that initialises the descriptor does. An access of the host
fails before its effect (`AccessFails`) or with only its answer lost (`AnswerLost`): the write of the read
offset (`channel.rs` 236) then gives up bytes that no caller gets, which `missed` records.

**RttDown.** The mirror image, with the client: rtthost keeps what `write` did not
accept and ends on an error (`main.rs` 246-249). A write whose last access, the write of the write offset (`channel.rs`
333), took effect although its answer was lost has published bytes that are still in the client's buffer
(`unsure`); as rtthost ends there, they are not sent again. cargo-embed's terminal keeps its line after an error and sends
it again with the next one (`rttui/tab.rs` 115), whatever was published; it is not modelled. The firmware copies bytes out before it gives their room
back. One proof module extends both channels: the names that they would share begin with `Down` here (`DownSpec`), or
speak of the input (`InputFifo`).

**FlashLayout, FlashBuilder.** Addresses are small integers. `data` maps the start of
a block to its length; `AddData` is `add_data` with its merging. Sectors and pages are
enumerated as `iter_sectors` and `iter_pages` do, each with its own stride, and looked up
again with `sector_info` and `page_info`. The loop of `iter_sectors` is the recursive function
`Walk`, which gives the sectors from an offset on.

**Flasher.** One action per routine call, wait and page-buffer word of the host; the
target's routine changes one byte of flash per step. A word in a page buffer is the
address it is meant for with its value, so a page programmed from the wrong buffer is
seen. The stages are those of `program` (fill, erase, program), each a run with `init`
and `uninit`; a fill has a run of its own. A chip erase is the algorithm's, or the chip's own
debug sequence (`SequenceErase`), after which the algorithm is loaded and the core reset again. Faults: a routine that fails, hangs (the
time-out then races with its return) or locks up, and a probe error at any access.

**FlashLoader.** A cell is a sector or a block of RAM, with the content "old", "erased",
"new" (what was staged for it) or "junk" (the algorithm was loaded there). `Start` groups
the regions; `NextGroup` picks any group, as a hash map may; the flash itself is
what `Flasher` and `FlashLayout` say, summarised per cell, so a failing run leaves any subset
of the work done.

**DapTransfer.** `Wire` is one transfer of the batch `perform_transfers` builds, with the
target's answer. `Complete` is the access port finishing the transaction it accepted,
at any later time. `Status` and `Value` are the mapping of responses back to transfers
(lines 490-503); `RetryAfterWait`, `FailWithFault` and `AfterNack` are the error paths of
the register and block functions. An answer that is not received hides whether the
transfer took place. The accesses to ABORT and CTRL/STAT within an error path are
assumed to succeed.

**ArmSelect.** `cache`, `known` and `infos` are `DpState`s; `current` is `current_dp`;
`connected`, `select` and `powered` are the target's. `phase` is the place in `select_dp`:
"stop" and "off" (`debug_port_stop`), "connect" (`debug_port_connect` or, failing that, the
set-up sequence), "abort", "zero", "power", "ctrl" (`debug_port_start` and the access
that follows it), "scan" and "info" (enumeration), then "user" for the access itself. An access
that needs another SELECT value first takes `Select`, which changes the cache and then
writes, as the code does. Every transfer may fail, before or after having its effect.

**CoreAccess and the drivers.** A handler of a driver is a function from a state `m` of the
target and the driver to its *outcomes*: a new state, whether it succeeded, and a value. The
operator `Then` is the `?` of the source. `Access(m, n, v)` is one access through the probe: it
takes m to n and gives v, or fails with or without having done so. Registers are two that the
drivers work with (`s0` and `s1`: r0 and r1, x0 and x1, s0 and s1, a3), the program counter and one
that can only be reached through the others (`f`). A register holds what the program left in it
(`Own`, a new one each time it runs), what the debugger wrote (`User`) or something the driver
put there (`Address`, `Data`, `Junk`), so that a register that is not given back is seen when the
program goes on with it. Memory is two words of two lanes: reads of a word, of a lane
through its word, of a block; writes likewise. What one driver has of its own is in fields of
`m`: the register cache and current state of the A-profile drivers, the program buffer and its
cache of the RISC-V debug module, the saved registers and the remembered halt state of Xtensa, DFSR and the
masked interrupts of Cortex-M. The operators have the names of the functions they translate
(`PrepareForClobber`, `SetupProgramBuffer`, `WriteBack`, ...).

**DebugCore.** Each operation of a debugger is one step with any of the outcomes of its handler;
`CoreStops` is the program stopping by itself (a breakpoint unit or a breakpoint instruction),
between operations here and within them where a driver polls (`Poll`, `AwaitCoreHalted`).
`told` is what the debugger knows: it works with registers of a core it was told is halted.
`ClearBreakpoints` and `Detach` are the session's `halted_access` around
`clear_all_hw_breakpoints`, and its drop. Which registers an operation that *fails* may leave
spoilt is said per architecture (`Fragile`): none on ARM, the scratch registers elsewhere.
A core that is resumed at a breakpoint may stop again where it is (`StopsAgain`): on ARMv7-A and ARMv8-A wherever the driver
lets it run, for it disables no comparator; on RISC-V at an `ebreak` that is left to a single step or a run. `StepsAndRunsGoOn`
says for which stops the drivers do move on. The value and the control register of an A-profile breakpoint unit are
written by two accesses, and a failure between them leaves it half-written (`HalfWritten`).

**RunLoop.** `host.at` is the place in `run_until`: "halt", "catch" (vector catches), "resume",
"attach", then the loop of "check" (`core.status()` and the halt handler), "poll" and "timer", and
"return"; "reset" is the reset of `run_test` before it. `host.decided` is what the handler returned,
`host.reason` what `run_until` will return: an error, a time-out, CTRL + C, or the decision. The
closures are `NormalHandler`, `ListHandler` and `TestHandler`; "refused" stands for their `Err`. The program is external:
`core.call` is the call it waits at, `core.op` what is in the register of the operation (the call itself, or
the answer that has replaced it), `core.told` the command line it was given. The up channel is a
queue of pieces, as `RttUp` shows. Two of them make a defmt frame, or a character of text whose number is in
`setup.wide`; any other piece of text is a character (`Joined`). Each poll decodes anew (`util/rtt.rs` 365 and 400), so only frames
and characters that a poll finds whole are printed (`Printed`). `stream.out` is what was printed of this boot and `stream.lost` notes
that a poll cut a frame or a character, or failed in a way that loses data or gives up. `StacktraceFails` is the error of
`print_stacktrace`, which takes the place of what would have been returned (358). A reset keeps the RAM: the control block and old output
(pieces 0) are there until the program initialises them. `core.wild` marks a program that reset itself
without being caught. A poll is one step here; its race with the firmware is the subject of `RttUp`. `late` is the time-out, which
may strike whenever the clock runs.

**What `Careful` leaves out.** Some histories in which the drivers misbehave are known (they are listed
under *Further disagreements*). With `Careful = TRUE` the operator `Unless` leaves exactly these
out, each at the line where it begins, so that the runs say what holds of all others: on ARM, a scratch
register that is in the cache but not marked as written when it is clobbered, a write-back
that clobbers an unsaved one, a reset that fails half-way, and
`reset_and_halt` with the floating-point count of ARMv7-A; on ARMv8-A, a memory access to a core
that has stopped without the driver having noticed; on RISC-V, a program buffer that differs from
its cache, the error of a block read that is not looked at, a failing step over a trigger, and a second
step at a breakpoint instruction; on Xtensa, a failing memory access that leaves the scratch register
listed as saved, a reset with an out-of-date halt state, units found in use at attach and a unit whose setting failed; on
Cortex-M, disabling breakpoints that took effect although it failed, and a halt reason lost
between its clearing and its reading. With `Careful = FALSE` in
`MCDebugCore.cfg` TLC runs into them within a few steps: `Contract` and `AnswersAreTrue`, for one, then fail.

## Runs

| Run | Question | Bounds |
|---|---|---|
| `rtt_up` | Are the bytes read the next ones sent, none lost or overwritten, whatever the firmware does during the copy; do they all arrive; is the channel a FIFO? | 3-byte ring, messages and buffers of 1 and 3 bytes, 4 bytes sent, one failing access, one reset |
| `rtt_down` | Does typed input arrive once and in order, and are unread bytes left alone? | 4-byte ring, input of 1, 2 and 4 bytes, 8 in all, one failing access |
| `flash_layout` | Is what is staged what was added; is it programmed once, erased before, and everything else left or restored? | 8 addresses, 5 geometries, blocks up to 5 bytes, 3 of them |
| `flasher` | Is Ok only returned with the data in flash; does flash only change as planned, also in failures; are buffers, calls and events in order; does it return? | 2 sectors of 2 pages of 2 bytes, 4 sets of data, all options, all faults |
| `flasher_keep` | (violation) is what is not written kept when that is asked for, also with a chip erase? | the same, chip erase only, no faults |
| `flash_loader` | Does Ok mean written for every order of groups; is nothing flashed erased again; is nothing else changed? | 6 targets shaped like those in `targets/`, one failing operation |
| `flash_loader_shared` | (violation) the same for two cores that name one algorithm | a target like STM32H745 |
| `dap_transfer` | Do words arrive in order and reads return their own words, with WAIT, FAULT and lost answers; does every access return? | blocks of up to 3 words, 3 retries, two operations, one fault |
| `arm_select` | Does an access reach its register on a powered debug port; are the access ports listed completely? | 2 debug ports with 2 and 1 access ports, 2 banks, one failing transfer |
| `arm_return` | (violation) Is that also so after returning to a debug port? | same, no failing transfer |
| `debug_cores` | Do scratch registers, caches and temporary halts show? Are answers true, do writes land where they should, do steps and runs go on, are the breakpoints those that were set? | Cortex-M, ARMv7-A, ARMv8-A in both execution states, RISC-V with and without a system bus, Xtensa; 2 breakpoint units, 1 or 2 addresses, one failing access |
| `run_loop` | Is all output printed before the verdict but for what polls lose, does the verdict belong to its test, is every semihosting call answered, does the runner end? | 7 setups over 3 architectures and both modes, 2 tests, 2 pieces of output and 2 calls in a boot, 2 attempts to poll, 2 failing accesses |

**Why the bounds suffice.** A ring of 3 or 4 bytes is full, empty and wraps, and a message
or a buffer of each run is longer and shorter than what fits. Two operations make what
the first leaves behind (sticky flags, a transaction under way, RDBUFF) meet the second.
Two sectors of two pages give a page that shares its sector with data, one that does not, and
double buffering with both buffers in use and a third page to reuse the first. Two debug
ports suffice for stale caches: leaving one, using the other and coming back.
With two breakpoint units and two addresses the units may all be in use, an address may be set
again, and clearing one leaves the other; the drivers treat units alike. Two words of two lanes
give a lane in the first half of a word, in the second and a neighbour to spoil. The read
registers are one that is read directly and one that needs a scratch register. Any number
of operations may follow each other: these runs have no bound but the failing accesses.
The `VIEW` of `MCDebugCore` merges states that differ in what the last operation was and
in which of two fresh sets of values the program left: no action reads the former, and the
latter may change places; `Settled` leaves out what the RISC-V program buffer and its cache hold
when they agree, for then no outcome depends on it.
The geometries in `MCFlashBuilder` have pages smaller than, equal to and larger
than a sector, groups of different sectors, a region that is part of the flash, and a
flash that does not begin at 0. The number of bytes sent, operations and faults are bounds
of the model (`Max...`), not of the code; where a run stops at them, deadlock is not checked.
The proofs below hold for any value of them. In `run_loop` two calls in a boot are the request for the
command line and an exit, or any other pair; two pieces are one defmt frame or one character of text, whole or cut, or two characters; two faults
exhaust the attempts to poll; with two tests each kind of run follows another.

**Fairness.** `RttUp` and `RttDown` assume that the firmware goes on running, that a call of the
host ends, and that the polling loops keep calling (`read` strongly fair, because calls
of `peek` and `set_mode` may come in between). A failing access may happen any time but only
finitely often. `Flasher` assumes only that the host, a single thread, goes on: `Finishes` holds
although a routine may never return, because every wait has a deadline (the time-out is
one of the host's steps). `DapTransfer` assumes the same of the host and nothing of the
access port: `Returns` rests on the bounded number of retries. `RunLoop` assumes that `probe-rs run`, a
single thread that sleeps at most 100 ms per round, goes on and that time passes; nothing of the program. In normal mode
there is no time-out, so that `RunComesToAnEnd` speaks there only of a program that has called exit.

**Refinement.** `rtt_up` and `rtt_down` check that the ring with its offsets implements
`ByteFifo`, with the published, unread bytes as the queue. For the up channel a target reset
empties the queue, which `ByteFifo` does not have; the refinement therefore covers all other
steps, and stops with a reset in the middle of a call. A read of which only the last answer is lost
is `Lose` of the abstract queue: it takes bytes and hands none over. `FifoSpec` allows that only in a step that
counts a failing access. That no access fails on the way back is nothing the code could know; what the property
says is that nothing else ever loses a byte, and that nothing is repeated or reordered even then.

## What the runs found

Each of these is a `violation` run: TLC's counterexample is the behaviour of the code.

* `flash_loader_shared`: algorithms are chip-erased once per algorithm *and core*
  (`loader.rs` 406); the comment there (376-380) gives the reason for once per algorithm. With
  one algorithm for two cores' banks the second erase wipes the first bank.
* `flasher_keep`: with a chip erase the flash is erased (`loader.rs` 454) before the fills are read
  (`flasher.rs` 321), so with `keep_unwritten_bytes` what was not written comes back erased. `download.rs` 144-145
  says: "erased portions of the flash that are not overwritten by the ELF data are restored afterwards, such that
  the old contents are untouched." `OkMeansWritten` therefore leaves these plans to `UnwrittenIsKept`, but for their data.
* `arm_return`: returning to a debug port runs `debug_port_connect` and `debug_port_start`,
  which zero SELECT, but its cache still holds the last selection; an access to that
  selection goes to access port 0, bank 0.

### Further disagreements

Met while modelling; no run shows them. What the cores do is in the model, left out with `Careful`; so are the run loop's
losses and overwritten decisions, and the retries:

* A page that the end of a region cuts is skipped (`flashing/builder.rs` 308): data in it is erased and
  not programmed, and the result is Ok, while `FlashLoader::commit` "Writes all the stored data chunks
  to flash." (`loader.rs` 331). The EFM32GG11B target has such a region. The geometries of `flash_layout` have none.
* Data for an alias region is accepted and never written (`loader.rs` 387), against the same promise;
  without `verify` the result is Ok.
* When a read of RDBUFF ends a batch of writes and gets WAIT (`arm_debug_interface.rs` 494), the last write,
  which was accepted, is sent again; memory accesses through an auto-incrementing TAR then write a
  word twice. `WritesInOrder` allows it.

* `push_rtt` (`bin/probe-rs/util/rtt.rs` 480) drops the number of bytes accepted and the terminal
  clears its input line: with a full buffer the rest is lost. rtthost does this right.
* A block access that meets a FAULT leaves the sticky flags set (`arm_debug_interface.rs` 1066, 1247).
* A block access that has used its retries returns Ok (`arm_debug_interface.rs` 1076, 1260), with values that were never read,
  though it is to "Read multiple values" (`architecture/arm/traits.rs` 80).
  `OkIsClean` is stated without it.
* With double buffering the event for a page is emitted before the page is programmed
  (`flasher.rs` 485), and an algorithm without Init starts by examining an r0 that no routine
  has set (476, 488).
* A failing routine skips `uninit` (`flasher.rs` 258-289); chip erase emits its events before
  `Initialized`.
* A `DpState` is inserted before its start sequence succeeded
  (`communication_interface.rs` 534); a failed switch leaves no debug port connected, and every
  later switch fails stopping the old one (516).
* A RISC-V core that stopped at a breakpoint instruction is stepped over it by
  moving the program counter, without executing anything (`riscv/mod.rs` 341-352). What it
  remembers of the stop is not cleared, so the next step does the same, past an instruction that is none:
  `core.rs` says "Steps one instruction and then enters halted state again."
* A step of an ARMv7-A or ARMv8-A core neither disables a comparator at the program counter nor
  advances past a breakpoint instruction there (`armv7a.rs` 464-513, `armv8a.rs` 934-959), so a core that stopped at one
  stops there again, and the step returns Ok with nothing executed.
* ARMv7-A and ARMv8-A: `prepare_for_clobber` (`armv7a.rs` 282-292) leaves a register that is in the cache as it is, so one that was
  only read is not written back after it was clobbered, although it is there to "Save r<n> if needed before it gets clobbered".
* ARMv7-A and ARMv8-A: writing back the program counter or a floating-point
  register clobbers r0 and r1 without saving them; a reset leaves the remembered state "halted", so
  the next `halt` does nothing; a step that fails leaves its breakpoint armed, and a failure between the two
  registers of a unit leaves it enabled at another address; a reset that
  fails leaves the old cache. ARMv7-A: `reset_and_halt` forgets the number of floating-point registers, writes to FPSCR are lost.
* ARMv8-A: a memory access to a core that stopped by itself, which the driver has not noticed, resumes it; and a read-modify-write of part of a
  word lets the core run between the read and the write.
* RISC-V: the cache of the program buffer is believed after the scheduled writes have failed
  (`riscv/communication_interface.rs` 761-795, "Program buffer is up-to-date, skipping write."): `halt` fails once and then returns a wrong program counter.
* RISC-V: that cache also takes a prefix for the whole; a block read through the program buffer does not look at the error of
  its last words (923-1003); `sberror` is never cleared; a failed step at a trigger leaves triggers
  disabled; after an error a core that was halted for an access stays halted, and the request to halt stays after `reset_and_halt`.
* Xtensa: `reset_and_halt` believes an old halt state; a memory access that fails leaves the scratch register
  listed as saved, so later ones do not save it; faults of injected instructions are
  not looked at; clearing a breakpoint does not write the mask while breakpoints are not enabled, so that
  breakpoints found at attach stay, although `clear_all_hw_breakpoints` clears them "regardless if they are set
  by probe-rs" (`core.rs` 668-671).
* Cortex-M: interrupts masked for a step stay masked over a reset; `enable_vector_catch` writes DHCSR without its
  key; DFSR is cleared before the reason that was read from it is safe; a failed step leaves breakpoints disabled.

* `probe-rs run`: when a handler has decided and the time-out has passed in the same round, the time-out
  wins (`run/mod.rs` 324-328): a test that exited, or an unexpected stop, is reported as timed out, although "If the predicate
  returns `Ok(Some(r))` the run loop returns `Ok(ReturnReason::Predicate(r))`" and likewise for `Err` (224-226).
* A defmt frame cut by a poll is not printed, for each poll decodes anew (`util/rtt.rs` 400); a character of text
  that is cut becomes a replacement character (365). `run/mod.rs` says: "so we flush all messages the core printed before halting" (302-304).
  So it is after a poll that fails when its write-back took effect and is tried again, and after one that gives up, which is no error (312-326).
* After a time-out or CTRL + C there is no last poll: what is left in the channel is printed in the next run. CTRL + C in the
  round of a decision is forgotten.
* A program that waits at a semihosting call before `run_until` has begun is resumed past it without the
  handler seeing it (`run/mod.rs` 258); one that calls before it initialises RTT waits until the attaching has
  failed (273). A control block found between its magic number and its channels is an error that is not retried (`util/rtt.rs` 574).
* A test that resets itself where no vector catch holds it keeps the time and the hand-shake of its first boot: an exit
  call before it asks for its command line again counts as its verdict.
* RISC-V: `probe-rs run` never enables hardware breakpoints, without which `step` leaves a semihosting breakpoint instruction to a
  single step (`riscv/mod.rs` 336-376). Where the hart stops at the instruction again the call is decoded a second time, from a register that
  holds the answer, although "We only want to decode the semihosting command once" (146). The model allows both.

## Proofs

Eight modules hold proofs, checked with no step left open. They state every invariant that the passing runs check, and of all
modules but `DebugCore` every action property and refinement as well. Each rests on an inductive invariant,
which holds in the initial states and is kept by every step; TLC agrees with it on the instance of the run.

**`Rtt_proofs`**, of the up channel, for every ring size, message and buffer length, number of bytes, faults
and resets:

* `ReadsAreInOrder`: `Spec => []CopiedInOrder`,
* `NothingIsLost`: `Spec => []NoLossNoOverwrite`,
* `OffsetsInBuffer`: `Spec => []OffsetsStayValid`,
* `UpIsFifo`: `Spec => FifoSpec`: the up channel implements `ByteFifo`.

None of the three invariants is inductive. That a copied byte is right depends on the snapshot of the
write offset still lying within what is published (`SnapshotStaysPublished`) and on the
firmware's unpublished bytes not running into unread ones (`UnpublishedBytesFollow`). The
invariant `IndInv` joins these to the properties; the ring is handled through distances from
the read offset (`Ahead`), with lemmas on how advancing an offset and moving the origin
change them. All of it is stated up to a reset in the middle of a call (`torn`), which the
code does not detect. The refinement needs two facts more: what is stored is the bytes that follow
those that have left the ring (`StoredFollows`), and there is something to hand over when the read offset is written
(`TakesSome`), so that a write-back takes, one without an answer loses, a publication appends, and every other step is a
stutter.

**`Rtt_proofs`**, of the down channel, for every ring size, any input and any number of failing accesses:

* `InputHasNoGap`: `DownSpec => []NoGap`,
* `InputIsNotOverwritten`: `DownSpec => UnreadBytesUntouched` (an action property),
* `DownIsFifo`: `DownSpec => InputFifoSpec`: the down channel implements `ByteFifo`.

The call checks the room once and copies for as long as it likes, while the firmware gives room
back. The invariant says that what the call took for free is still free: by the read offset it
saw there is room for the bytes written so far and for the chunk, and the true read offset has only moved
away from them (`CallKeepsRoom`). With it, a copied byte lands outside the unread ones, and
the write-back appends exactly the bytes behind them (`RingHoldsUnread`). That nothing is published twice needs that a
call runs only while no write has failed (`NothingUnsure`). The refinement has
three kinds of steps: a write-back that wrote something publishes, also when the client never learns of it (`WriteBackPublishes`), a
release takes (`ReleaseTakes`), and all others leave what is stored alone, the copying of a byte because
of the invariant.

**`Flash_proofs`**, of the builder (`BuilderSpec`), for blocks of any size, at any address and in any order:

* `StagesWhatIsAccepted`: `BuilderSpec => []StagedExactly`,
* `ErasesNothingElse`: `BuilderSpec => []NothingElseErased`,

and, `ASSUME \A f \in Flashes : Fits(f)`,

* `ProgramsWhatIsStaged`: `BuilderSpec => []DataIsProgrammed`,
* `RestoresWhatIsErased`: `BuilderSpec => []ErasedIsRestored`,
* `LayoutsServeTheFlasher`: the layout is what `Flasher` takes for granted (`PlansAssumption`), if the data lies
  in the region.

The invariant (`IsData`) is that the staged blocks have at least one byte and are disjoint. From it, looking at the last block
that begins before a range and the first behind suffices to find an overlap, as `add_data` and
`data_in_range` do (`HasDataIs`), and the fills of a page are what its blocks leave (`PageFillsAre`).
`iter_sectors` is walked by induction on the bytes that remain (`WalkIs`): in a flash that fits every byte is
in one sector, the one that `sector_info` finds (`SectorsTile`), and likewise for pages (`PagesTile`). `Fits` says that each
group is a whole number of sectors, that the flash starts on a page, that pages and sectors contain
each other or are apart, and that the region cuts none of them. Nothing in the code
checks it, and where it is wrong the code is (*Further disagreements*); TLC evaluates that all
geometries of `flash_layout` fit, and that an uneven one does not.

**`Flasher_proofs`**, for every layout, page size, set of options and every fault at any moment:

* `BufferIsLeftAlone`: `Spec => []BufferHoldsPage`,
* `OkIsWritten`: `Spec => []OkMeansWritten`,
* `ResultTellsTheTruth`: `Spec => []ResultIsHonest`,
* `ChangesStayPlanned`: `Spec => FlashChangesAsPlanned` (an action property).

The invariant follows the host and the core together: which stages and ranges are left (`Queue`), at which places
of the host the core may be running, which with two buffers includes the loading of the other one (`Flow`), which routine it
runs for which range, and that r0 is 0 only when it did all its work (`Runs`), what the buffer being loaded
holds (`Loading`). What flash holds is stated per stage: erased behind the erasing, and as `Goal` says behind the
programming, apart from the pages that are left and the one that the core programs or has programmed last.
`PlansAssumption` is what the flasher takes for granted of a layout. `LayoutsServeTheFlasher` proves it
of what the builder makes, and TLC evaluates it on the plans of the run, which `FlashLayout` makes.

**`Flash_proofs`**, of the loader, for every target, data and choice of operations, any order of the groups and any failures:

* `ChangesAreAskedFor`: `Spec => OnlyAskedForIsChanged` (an action property),
* `FlashedStays`: `ASSUME Apart PROVE Spec => FlashedContentsStay` (an action property),
* `OkIsDone`: `ASSUME Apart PROVE Spec => []OkMeansDone`.

The invariant splits the regions of an operation into those whose turn is over and those `Waiting`: what is new
lies in the former (`NewIsDone`), what was staged for them is there (`Placed`), and after a chip erase what is
to be programmed is erased (`Erased`). `Placed` is not kept by a chip erase that reaches another
group's regions. That none does is the hypothesis `Apart` (`GroupsApart` of each target); nothing in
the code ensures it, and `flash_loader_shared` is the counterexample. TLC evaluates that it is true of all
targets of `flash_loader` and false of the shared one.

**`DapTransfer_proofs`**, for every length, number of retries and sequence of accesses, any number of bus errors and
lost responses, and an access port as slow as it likes:

* `WritesStayInOrder`: `Spec => []WritesInOrder`,
* `ReadsStayInOrder`: `Spec => []ReadsInOrder`,
* `OkLeavesNothing`: `Spec => []OkIsClean`.

The responses of a batch are heard before any is looked at, so that the invariant says what a batch half
sent means: from the first WAIT or FAULT on a sticky flag is set and nothing is accepted
(`Batch`); the word that memory gets next is 1 further than the last, the same one only after a retry, and more
than 1 further only if a response was lost (`WordsFollow`, `PendingFollows`, `Gaps`); how far a write is after
k accepted transfers (`SentSoFar`); and that the value in RDBUFF is one ahead of those returned
(`ValuesFollow`, `BufferAhead`), which is what the code relies on when it takes the answer of a read from the next
transfer.

**`ArmSelect_proofs`**, for every set of debug ports, access ports and banks, and any number
of failing transfers:

* `AccessesAreRight`: `Spec => []AccessReachesItsRegister`,
* `AccessesArePowered`: `Spec => []AccessIsPowered`,
* `ListsAreComplete`: `Spec => []InfosAreComplete`.

The invariant says that SELECT equals its cache on the current debug port (`CacheIsExact`)
outside of a switch, that the debug port connected is the current one, that a debug port
without a state has a zero cache (`UnknownIsZero`), that the start sequence, which writes
SELECT past the cache, meets a zero cache (`StartsAtZero`), and that a started port is
powered. A failing step need not keep any of it on the debug ports it concerns: it puts them
into `failedOn` or `cut`. The lemma `FailStepKeeps` does this once for all failing steps,
whatever they left in SELECT. The exclusion of `returned` cannot be dropped: `arm_return`
is the counterexample. The list of access ports needs a second invariant (`ListInv`): a debug port without a
state has no list, and during its first start and the enumeration SELECT equals the cache even where a step
has failed, for an enumeration that an error cut short goes on to the descriptions of what it
found, and the next access selects anew because the cache holds another access port.

**`RunLoop_proofs`**, for any tests, set-ups, number of messages, calls, retries and faults:

* `TypesHold`: `Spec => []TypeOK`,
* `DecidedAfterTheStream`: `Spec => []ReturnsHaltedAndFlushed`,
* `VerdictsAreTheTests`: `Spec => VerdictIsTheTests` (an action property),
* `CallsHaveAnswers`: `Spec => CallsAreAnswered` (an action property).

The invariant says that only a halted core is at a call and that the driver remembers a command only from a
decision to the next start (`CoreStops`); that what was decided is of the call at which the core stopped, and
that in a test run this is the call of a program that was told this test (`Decides`, `Asks`); and that the channel
holds the last pieces sent, or old ones, while what is printed is the pieces before those, as far as
they make whole frames and characters (`Queued`, `Streamed`).

**`DebugCore_proofs`**, on the lemmas of `DebugCore_lemmas`, for all five drivers, any number of breakpoint units and of failing accesses, any registers and
addresses, and, `ASSUME Careful` (the histories of known flaws left out),

* `HaltedMeansHalted`: `Spec => []HaltedIsHalted`,
* `WritesOnlyLand`: `Spec => WritesLand` (an action property),
* `LeavesRunning`: `Spec => LeftRunning` (an action property).

`HaltedIsHalted` is not inductive: the next operation may only be trusted if the driver's own record of the core is in
order. `CoreInv` adds that (`Good`), for each driver what it relies on: on ARMv7-A and ARMv8-A, that the register cache is empty while
the core runs, for a write-back to a running core would be lost; on Cortex-M, that breakpoints it considers
enabled are, and that the program counter is not where the program will next be; on RISC-V, that the program buffer ends in
an `ebreak` or in the instruction that advances the address; on Xtensa, that a core it believes halted is. None of this speaks of
one operation alone: each has to leave it there on every path, the failing ones included.

An operation of a driver is a sequence of accesses, any of which may fail, so the lemmas say what an
operation may do as a relation between the target before and after, from the narrowest to the widest: nothing that
the debugger could see moves (`Quiet`, `Same`), the core may stop by itself (`Holds`), memory may change
(`Stores`), the core may run or be reset (`Moves`). Each relation composes with itself and with the narrower ones, so that an operation is
followed access by access. From the five drivers three statements are drawn that `Core` and `Session` need: an operation
leaves the core as it found it (`Clears`), but for memory (`Tends`), or ends with it halted. The lemmas on memory (`Writes`)
follow the read-modify-write of part of a word and the loop over words, through the scratch
registers and over temporary halts. What comes of every action is one formula, `Follows`: the invariant and both action properties.

All three are about the histories that `Careful` leaves: it cannot be dropped from the first two, for TLC finds the flaws listed above in both, a reset of Xtensa with an out-of-date
halt state in the first, one on RISC-V in the second. Of `LeftRunning` it finds no
counterexample with `Careful = FALSE`, but the proof uses the invariant.

**What the proofs rest on.** The assumptions on the constants (`SizeAssumption`, `FaultsAssumption`, `InputAssumption`, `LensAssumption`, `BoundsAssumption`,
`FirstAssumption`, `TestsAssumption`, `TargetsAssumption`, `FlashesAssumption`, `PlansAssumption`, `NumUnitsAssumption`,
`ArchesAssumption`, `RegsAssumption`, `LanesAssumption`, ...), which TLC
evaluates in the runs, and the hypotheses `Apart`, `Fits` and `Careful` where a theorem states them. Type
correctness is a conjunct of every inductive invariant, except in `FlashBuilder`, whose `IsData` takes its place.
Where a definition of the model is a recursive function (`Keep` of `RunLoop`, `Walk` of `FlashLayout`, `EachUnit` of `CoreAccess`), what it gives is proved
by taking the least number for which it would be wrong (`LeastElement`, `AllOfThem`, `UnitByUnit`); these are
functions, and not folds or `SelectSeq`, for that reason.

**Only model-checked.** The liveness properties (`EverythingArrives`, `InputArrives`, `Finishes`, `Returns`, `RunComesToAnEnd`),
which the prover cannot treat, and four properties of `DebugCore`: that its steps implement `HeldCore` (`Contract`), `AnswersAreTrue`,
`StepsAndRunsGoOn` and `BreakpointsAreThoseSet`. They ask for the values of registers, which a driver keeps in several
places at once (in the core, in a cache, saved while a scratch register is in use), and for those of breakpoint
units; the relations of `DebugCore_proofs` say which fields may change, and of registers only on Cortex-M what they become.
The drivers are built from operators with operator parameters (`Then`, `EachUnit`), which the prover takes only when
each use of them is given a name of its own; that is what most of the definitions inside those proofs are for.

## Plan

Done: the RTT rings, flash layout, flasher, loader, SWD transfers, SELECT caches, and the cores of five
architectures under a debugger, and `probe-rs run`, with the runs above and the proofs. Left, in this order:

1. *Scanning for the RTT control block* (`rtt.rs`) and the other clients of RTT: cargo-embed's
   terminal, the debug adapter.
2. *More clients of `DebugCore`*: the GDB server's polling, stepping by source line.
3. *Memory access port*: unaligned accesses and TAR wrap-around against a reference definition;
   then cores whose memory is reached through it.
4. *CMSIS-DAP batching* and *JTAG scan chains*, and the deferred queues of the RISC-V and Xtensa
   transports.
5. `Flasher` as a refinement of the per-cell steps of `FlashLoader`.
6. The rest of the theorems about `DebugCore`: that its steps implement `HeldCore`, driver by driver.

## Not modelled

Image formats, chip descriptions, DWARF evaluation, display, USB protocols of probes, and vendor
sequences: data or I/O rather than interaction; the components list gives the reason for
each. ADIv6, JTAG and the line reset of a multidrop target are left out of the ARM modules.
Registers are modelled only as far as a property tells them apart. Real time appears as a
time-out that may strike at any moment of a wait.

## Running the checks

    tlc -config MCArmSelect.cfg MCArmSelect.tla      # one run; PROJECT.json lists all
    tlapm ArmSelect_proofs.tla                       # one proof module
