# A TLA+ development of difftest / DifuzzRTL

The repository compares a RISC-V core simulated from Verilog with the Spike ISA
simulator. `run_difftest.py` does it for given ELF files; DifuzzRTL does it in a loop over
generated programs, on one core or on many. This directory holds TLA+ models of the
adapter and the fuzzer and of the simulator that serves as the reference, the TLC runs that
check them, and TLAPS proofs about them. Paths below are relative to `src/`; `Fuzzer/` stands
for `difuzz-rtl/Fuzzer/`, `spike/` for `Fuzzer/ISASim/riscv-isa-sim/`.

## 1. The system

| component | source | state | operations | talks to |
|---|---|---|---|---|
| TileLink adapter | `Fuzzer/RTLSim/src/adapters/tilelink/` | memory dictionary, `block_perm` directory, free lists of grant sinks and probe sources, callback slots, reservations, B and D queues, `ongoing_tlc`, pending host probe | seven coroutines: monitors of ports A, C, E, drivers of B and D, `data_retriever`, `host_interface`; `start`, `stop`, `probe_block` | the tile through five ports, the host through the memory dictionary |
| tile (device under test) | Verilog, external | cache lines, outstanding requests | Acquire, Release, uncached requests, answers to probes | the adapter |
| RTL host, tile adapter | `Fuzzer/RTLSim/host.py`, `tile_adapter.py`, `tile_reader.py` | memory, cycle count, interrupt to assert | `run_test`: load, reset, start, poll `tohost`, stop, classify, dump signature | adapter, fuzzer |
| multicore sessions | `Fuzzer/DifuzzRTL.py`, `Fuzzer.py`, `src/multicore_manager.py`, `src/utils.py` | two shared counters, four semaphores, process states, coverage map and log, record files | fork, wait, kill; read/write a number, set/get a state, merge coverage | processes through SysV IPC and files |
| ISA host, timeout | `Fuzzer/ISASim/host.py`, `src/utils.py` | stop code shared with a timer thread | run Spike, kill it after one second | fuzzer |
| mutator, words | `Fuzzer/src/mutator.py`, `word.py`, `inst_generator.py` | corpus, phase, data seeds, labels | generate, mutate, merge, make nops | fuzzer, minimizer |
| preprocessor | `Fuzzer/src/preprocessor.py` | files of a slot | assemble, retry a killed compiler, interrupt files | fuzzer |
| signature checker | `Fuzzer/src/signature_checker.py`, `signature_compare.py` | signature files | read, normalise CSRs, compare | fuzzer, pipeline |
| minimizer | `Fuzzer/Minimizer.py` | masks, minimal input | slice the list, try windows of nops | mutator, hosts |
| pipeline | `run_difftest.py`, `rtl_runner.py`, `spike_runner.py`, `rtl_input.py`, `Fuzzer/single_program_test.py` | output directory, result files | wrap, run Spike, run RTL, compare, summarise | all of the above |
| ELF utilities | `elf_utils.py`, `elf_wrapper.py` | none | memory dictionary, hex image, Spike memory map, wrapping | pipeline |
| hart, MMU | `spike/riscv/processor.cc`, `execute.cc`, `mmu.cc`, `mmu.h`, `sim.cc`, `insns/` | CSRs, pc, TLB, instruction cache, load reservation, PMP, triggers | `step` and its two loops, fetch, load, store, AMO, LR/SC, walk, traps, interrupts, CSR access, turns of `sim_t` | memory, devices, debug module |
| devices | `spike/riscv/clint.cc`, `devices.cc`, `sim.cc` | `mtime`, `mtimecmp`, `msip`, the interrupts a test case asks for | MMIO load and store, time, `psint` | harts |
| debug module, JTAG | `spike/riscv/debug_module.cc`, `jtag_dtm.cc`, `debug_rom/` | DMI registers, abstract program, flags and mailboxes of the ROM, system bus, TAP | scans, DMI reads and writes, abstract commands, autoexec, halt groups, resets | harts through the ROM |
| device tree library | `spike/fdt/` | a blob: header, reserve map, structure, strings | read, write sequentially, edit, pack, overlay | `dts.cc` |
| SoftFloat | `spike/softfloat/` | rounding mode, flags | arithmetic, conversion, comparison, estimates in four formats | instructions of the simulator |
| vector unit | `spike/riscv/decode.h`, `processor.cc`, `insns/v*.h` | register file, `vtype`, `vl`, `vstart`, `vxrm`, `vxsat` | configure, integer, fixed point, mask, permutation, floating point, loads, stores, AMOs | MMU, SoftFloat |

The simulator under `spike/` is a fork: it is changed to behave as Rocket does (the psint
interrupts, CSR masks, the signature) and every verdict of the fuzzer rests on it, so its
control logic is modelled beside the fuzzer's. The FIRRTL compiler, templates, generated
Verilog and test programs are not.

**What is hard.** The adapter's coroutines are resumed by the same clock edge in no fixed
order and share Python objects; probes, voluntary releases and grants of one block cross;
data is read when a message is queued and permissions change when it is sent; the adapter
object survives from one program to the next. The fuzzing processes share counters, an
array and files under semaphores that a dying process does not give back; a timer thread
writes the stop code whenever it likes; a session may be killed and started again on the
same directory. In the simulator, host pointers cached by the TLB and the instruction cache
outlive changes of the state that justified them; `minstret` is only brought up to date when a
loop is left; a debugger, the debug ROM and an abstract program share two scratch registers over
many steps; tree edits move blocks whose offsets sit in several headers; vector loops overwrite
registers they still have to read and are resumed after a fault; floating-point results are
right or wrong by one bit that was or was not kept. `PROJECT.json` lists these hazards at their
lines.

**What makes each part correct.**

* adapter: no store is lost, data sent to the tile is current, the directory is never
  behind the tile, ids (sources, sinks) are used by one transaction at a time, no assertion
  fails, every request and the final retrieval complete;
* host: memory is complete when the signature is read; `tohost` is noticed;
* sessions: processes do not share a slot, records get ids of their own, an abnormal end
  is noticed, coverage does not shrink, sessions end;
* ISA timeout: a timeout is reported as a timeout, of the test that caused it;
* mutator: every entry it names has its data, jumps go forward, lengths stay in bounds;
* checker: equal architectural states compare equal, different ones do not;
* minimizer: slices partition the list, windows the mask, and the result still mismatches;
* pipeline: a verdict is about this test's files, and every file gets exactly one;
* hart: caches are invisible, the instruction count is exact when it is read, a
  store-conditional succeeds only if nothing was stored since, locks hold, privilege rises only
  through a trap;
* debug module: the registers of a halted hart survive commands, *halted* is true of the hart,
  a command that is no longer busy has been executed or reported;
* device tree: every call is an edit of the tree or leaves it as it was, and every query tells
  what the tree is;
* SoftFloat: the exact result rounded once, with the flags IEEE 754 asks for;
* vector unit: as if the sources were read before the first write, and as if there had been no
  fault.

## 2. Modules

| module | models | composed from |
|---|---|---|
| `TLAdapter` | `adapter.py`, `utils.py`, `definitions.py` | |
| `Tile` | the device under test at its ports (external) | `TLAdapter` |
| `TileSystem` | host loop + adapter + tile, one or several runs; the properties | `Tile` |
| `MCTileSystem` | tiles and programs of the TLC runs | `TileSystem` |
| `TileSystemProofs` | type correctness | `TileSystem`, `TLAPS` |
| `ProbeProofs` | life cycle of probe sources | `TileSystemProofs` |
| `SinkProofs` | grant sinks, transactions in progress, host probes | `ProbeProofs` |
| `CoherenceProofs` | directory and cache, stores through the cache | `SinkProofs` |
| `RetrievalProofs` | data of answers, retrieval, uncached writes, exceptions | `CoherenceProofs` |
| `Multicore` | `DifuzzRTL.py`, `Fuzzer.py`, `multicore_manager.py`, part of `utils.py` | |
| `MulticoreProofs` | slots, semaphores, states, records, coverage | `Multicore`, `TLAPS` |
| `Binding` | no code: `Let`, `Fn`, `Fn2` bind a value or a recursive function to a variable | |
| `Mmu` | `mmu.cc`, `mmu.h`: walk, PMP, TLB, instruction cache, triggers, reservations | |
| `Hart` | `processor.cc`, `insns/`: CSRs, traps, interrupts, instructions | `Mmu` |
| `HartSystem` | `execute.cc`, `sim.cc`, `clint.cc`: loops of `step`, turns, devices; the properties | `Hart` |
| `MCHart` | sessions of the TLC runs | `HartSystem` |
| `HartProofs` | instruction count, reservations, single steps, PMP locks, privilege | `HartSystem`, `TLAPS` |
| `DebugModule` | `debug_module.cc`, `jtag_dtm.cc`: registers, commands, transport | |
| `DebugSystem` | debugger + transport + module + harts in the debug ROM; the properties | `DebugModule` |
| `MCDebug` | debuggers of the TLC run | `DebugSystem` |
| `DebugProofs` | halted state, registers, end of commands | `DebugSystem`, `TLAPS` |
| `Fdt`, `FdtWrite`, `FdtOverlay` | `fdt.c`, `fdt_ro.c`, `fdt_addresses.c`; `fdt_sw.c`, `fdt_rw.c`, `fdt_wip.c`, `fdt_empty_tree.c`; `fdt_overlay.c` | each the one before |
| `FdtTree` | abstract specification: a tree and its edits | |
| `FdtSystem` | a client that builds, edits and overlays a tree; the refinement | `FdtOverlay`, `FdtTree` |
| `MCFdt` | names, values and overlays of the TLC run | `FdtSystem` |
| `SoftFloat`, `FloatArith`, `Float128`, `FloatConv` | `softfloat/` | each the one before |
| `FloatRef` | reference definitions: exact results, rounded once | `FloatConv` |
| `Vector`, `VectorInt`, `VectorFp`, `VectorMem` | `decode.h`, `insns/v*.h` | `FloatConv`, then each the one before |
| `VectorSystem` | configure, issue, fault, resume; the properties | `VectorMem` |
| `MCDatapath` | small formats, operands and instructions of the TLC run | `FloatRef`, `VectorSystem` |

`PROJECT.json` gives the lines of the code that each definition stands for; a helper whose lines
lie within those of the definition that uses it is not listed by itself.

### TLAdapter, Tile, TileSystem

cocotb is cooperative: what a coroutine does between two awaits is one action. An action of
`a_port_monitor` is the whole handling of one beat with a given opcode, including the
directory entry it creates; `cProbeAck` is the whole last beat: the word written, the
directory update, the callback, the release of the source, the reservation that release
runs. The order of two coroutines on one clock edge is not fixed, so actions interleave
freely.

Variables carry the names of the attributes (`drive`, `retrieve`, `memory`, `block_perm`,
`d_sinks`, `ongoing_tlc`, `d_queue`). `pb` groups what `retrieveBlock` touches: `b_srcs`
(`free`, and the reservations `events`), `b_callback` (`c_map`), `b_queue` (`queue`), and
whether their assertions failed (`dup`, `bad`). `a_mon` and `c_count` are the local variables
of the two monitors. `err` is the exception that ended the simulation: failed assertions,
missing methods and unbound names of the code are reached, not assumed away. The ports
`a_ch` .. `e_ch` hold the message that is held valid.

Data: an address is its 64-byte block, a block is `Beats` words, a word is the number of the
store that wrote it, so memory shows which version of a block it holds. The source of an A or
C request is its block (the tile has at most one of a kind per block). A burst on D is one
message whose words are fixed when it is queued, as in `get_d_messages`; A and C bursts are
taken beat by beat, because the monitors count beats and other coroutines run in between.
Left out: masks and sizes, the results of atomics, the nop word for unmapped addresses,
debug output.

`Tile` is external and states what the adapter may rely on: TileLink's rules for one agent,
listed at the head of the module. `TileSystem` adds `run_test`: `poll` is the branch at
`i % 100 == 0`, `timeout` the end of the loop, both possible at any time (no assumption on
speed); `stop` and `finish` are the two halves of `tileAdapter.stop`; `runTest` starts a run
and resets exactly what `start` and `drive_input` reset.

### Multicore

One step per operation another process can see: `P`, `V`, a shared read or write, a file.
`read_num`/`write_num`/save are three steps, `set_state` two (it rewrites the whole array),
`store_covmap` three (read under the semaphore, truncate, write and log). The test itself is
its outcome. `lateTimer` is the thread of `isa_timeout` that fired before `timer.cancel()`: the other
properties hold with it, and none flags the test it drops or the session it aborts.
`crash` kills a process at any step with what it holds; `abort` is the killing in
`wait_check`; `restart` is a new session on the same directory, with counters taken from the
number of files. `RECORD=1` is assumed. `lost`, `killed`, `overwritten` are history variables.
Left out: the iter column, illegal-memory records, the leak of IPC objects (`remove` forgets
`state_sem`, an abort removes nothing), the minimizers forked at the end.

### Mmu, Hart, HartSystem

The state of a hart `h` is `state_t`, `mm` its `mmu_t`, `mem` the memory of eight-byte words
`[f, ppn]`: a page-table entry is a word like any other, so a program can edit the table it runs
under. A function of the code that can throw returns the trap. One action is one pass of the
inner loop of `processor_t::step` up to the next point where the code can leave it, with the
trap it takes; `fast` and slow loop, the serialisation of CSR instructions
(`PC_SERIALIZE_BEFORE`), `wfi` and the end of a turn are ways out of the loop as in the code.
The *session* chosen by `Init` says which instructions may be found at an address (one is fixed
when it is first executed), which interrupts `psint` asks for, what the debugger may do between
turns, and how many instructions are executed (`fuel`).
Bounds of the data: 16-byte pages, one index bit per level of Sv39 and Sv48, 9-bit addresses. Sizes of accesses,
alignment, PMP matching modes and granularity are kept. `hist` remembers what the properties compare with: instructions retired, the word of a
reservation, what is left of a single step, whether a fence is due (`fenced`), whether a trap came between the
serialization of an instruction and the instruction (`stale`).
Left out: the hypervisor extension, which is off unless `--isa` asks for it; registers whose
value decides nothing; `mmio` plug-ins.

### DebugModule, DebugSystem

The state is one record `s`, and each member function maps it to its next value. An abstract
program is a sequence of moves between places of the hart (registers, scratch CSRs, data words),
compiled by `perform_abstract_command` as in the code; the ROM's park loop is executed one
instruction at a time per hart and interleaves with scans of the debugger. The harts touch
nothing of the TAP, so a scan is one step. An *impatient* debugger does not leave the transport
the cycles it asks for.

A system-bus access meets a refused address, a page walk or a TLB hit (`BusAnswers`). `sb_read`
catches the access fault alone and `sb_write` nothing: a refused store, a misaligned store and a
misaligned load that walks throw what nobody catches, the simulator ends (`dm.ended`) and only
`stopped` is left.

### Binding

TLC keeps its statistics in a tree with a node for every expression, in which an operator is
repeated at each call and a LET definition at each use. The functions of the simulator call one
another a dozen levels deep and the tree outgrows any memory. `Let(v, LAMBDA x : e)` is
`LET x == v IN e` with `x` a bound variable, and `Fn`, `Fn2` do the same for recursive functions.

### Fdt, FdtWrite, FdtOverlay, FdtTree, FdtSystem

A blob is an array of bytes in the layout of the format, with the sizes scaled: a byte of 4
bits, an `fdt32_t` of two bytes. Offsets, padding, `FDT_NOP`, sharing of strings by suffix and
the sizes in the header are computed as the code does. The loops of the library are recursive
operators, and a function with many early returns is a chain of operators, one per value it
computes, in the order of the code. A writer returns `[f, ret]`: the blob as
it is left, also on failure. `FdtTree` knows nodes and properties only. `FdtSystem` maps a blob
to the tree a walk over its bytes finds (written over the format, not with the library's
queries), and `last` is the last call with its arguments and what it returned. `Edits` is
`FdtTree!Spec` under that mapping. A step of `FdtTree` is tied to the call that was made: one
that returns success has changed exactly the node and the property it names, in the way
`libfdt.h` says (`Done`), and `fdt_add_subnode` returns where the new node is; one that returns
an error had a reason for that error (`Refusal`: the node or property is missing, there already or
of another length; `mayFail`: want of room) and has left the tree as it was.

### SoftFloat .. FloatRef

The library repeats each algorithm per format with the widths folded into constants; here a
format is a record of widths and an algorithm is written once, with the shifts, guard bits and
corrections of the code. The functions of the library are instances. Every operation takes the
rounding mode and returns the pattern and the flags. Where the code starts from an approximate
reciprocal the model takes the error of the estimate as an argument; the results must not
depend on it within the bound the code's comments and tables give.

### Vector .. VectorSystem

A unit `u` is the register file as bytes plus the vector CSRs; an instruction `x` is a record. The
checks (`require_*`, overlap of groups) and the loop macros of `decode.h` are operators with the
same names, and an instruction is a loop applied to its element operation. A loop reads and
writes the file element by element. With `x.frozen` the sources are read before the first write:
what that leaves is kept in the history variable `ideal`, which `InPlaceExact` compares with.
`Vsetvl` configures the unit, `Issue` executes an
instruction up to its end or to an unmapped page, `Resume` is the handler that maps the page and
executes it again from `vstart`.

## 3. Runs

| run | cfg | bounds | what it shows |
|---|---|---|---|
| `coherence` | `MCCoherence` | 2 blocks, 2 sinks, 1 source, 2 beats, 1 store per block | the core safety properties with caching, eviction, fetching, host probes and retrieval interleaved |
| `mixed` | `MCMixed` | 1 sink; bursts, atomics, hints, AcquirePerm on a cached block, every uncached request on another | the bookkeeping holds even on the paths that end in an exception; acknowledged writes of the uncached block are in memory |
| `liveness` | `MCLiveness` | 1 block in use, `FairSpec` | retrieval ends, `tohost` is seen, Acquires are granted |
| `reruns` | `MCReruns` | 2 runs, 2 images, 1 block in use, 2 stores, unaligned `tohost` | a second run on the same adapter object is still safe; data sent to the tile is whole and current although the `ongoing_tlc` guard never applies |
| `rerun_probe` | `MCRerunProbe` | as `reruns` | **violation**: see below |
| `multicore` | `MCMulticore` | 2 cores, 4 processes, 1 test each, 1 crash | slots, states, coverage |
| `sessions` | `MCSessions` | 2 cores, 2 sessions of 2 processes, 1 crash, `FairSpec` | record ids, termination |
| `hart` | `MCHart` | 2 harts, 8 pages of 16 bytes, 2 TLB slots, 8 cache lines, 3 PMP entries, 2 triggers, turns of 3 | transparency of the caches, `minstret`, LR/SC, single step, PMP locks, privilege |
| `serialized` | `MCSerialized` | as `hart`, one session of one hart | **violation**: see below |
| `debug` | `MCDebug` | 2 harts, 2 values, 1 reset, patient and impatient debuggers, one on the system bus | registers, halted state, end of commands |
| `fdt` | `MCFdt` | blobs of 30 to 44 bytes, 6 calls of the writer, 2 edits, overlays of 126 bytes; `VIEW` leaves out the arguments of the last call | refinement of `FdtTree`, queries, overlays |
| `datapath` | `MCDatapath` | formats of 5 to 26 bits; vector registers of 4 two-bit bytes, elements of 1, 2, 4, LMUL 1/2, 1, 2, `vl` up to 8, one register file and one memory image; pages 1 and 3, pages 2 and 4 or none unmapped | SoftFloat and the vector unit against reference definitions |

Why the bounds are enough. One probe source is the code's own number and is where
reservations matter; with two blocks a request, a host probe and the retrieval can all want
it at once. Two beats are the fewest for which a burst can be interrupted. Two stores per
block tell a stale version from a torn one. One sink makes the free list run empty. Two cores
give two processes in every critical section, four processes reuse each slot, two sessions
are one restart. `SinkSymmetry` is used only for safety: sinks are interchangeable.
Two TLB slots and two pages that share one make entries replace each other; a turn of three
instructions ends between a load-reserved and its store-conditional; three PMP entries are the
fewest with a locked range above an unlocked address register. A blob of 30 bytes runs full in
the middle of every kind of edit and 44 does not. The algorithms of SoftFloat depend on relations
between widths (guard bits, words twice the significand, integers as wide as a format), which the
small formats keep. Registers of four elements with groups of
two are the smallest in which every allowed overlap of widening, narrowing and masked operands
occurs.

Properties worth a second look:

* `ProbeSources`: a probe source is free, or held by exactly one probe between queue and
  ProbeAck, whose callback is registered; no reservation waits beside a free source. It
  rests on the order *callback, then release* in `c_port_monitor`.
* `TrunkTracked`, `NoStoreLost`: the directory may say Trunk when the tile has given the block
  up (a report on its way), never the reverse; what is not Trunk is current in memory.
* `DataCurrent`: reading data at queue time is sound because a queued Grant excludes stores.
* `RetrievalComplete`: the list of blocks is taken once, yet every store made before `stop()`
  is in memory at the end, whatever the tile acquires meanwhile.
* `HostProbeOutsideGrant`: `ongoing_tlc` is what keeps a host probe from overtaking a Grant.
* `StopNoticed`: a process's abnormal state is neither erased by another `set_state` nor seen
  under a reused slot.
* `SessionEnds`: the only way to hang is that a process died inside a critical section; the
  same run contains the hang through a coverage map left truncated by a killed session.
* `RecordsKept` and `RecordsDense` hold up to the first killed session. After one, a gap in the
  ids makes the next session overwrite records; the runs contain such behaviours.
* `CachesTransparent`: every tag of the TLB and line of the instruction cache says what the walk and
  the PMP would say now. A hart is excepted from a change of its page tables to its next fence.
* `InstretExact`: a program never reads a stale or twice-counted `minstret`, on any way out of the
  two loops of `step`, unless a trap has overtaken an instruction for which the pipe was serialized
  (`hist[c].stale`; see the finding `serialized`). `StepOne` makes the same exception: a hart whose
  `serialized` is left over is not stopped after its step.
* `PrivilegeGated`: a hart that gains privilege has just entered a handler or debug mode. A trigger
  whose timing is *after* reports the instruction that follows the one it stopped.
* `RegistersIntact`: while no exception is reported, the registers of a halted hart are what the
  debugger and the program made them, through every abstract command and program buffer.
* `CommandSettles`: busy is not cleared before the hart is back in the ROM with the program done,
  and a read of a register that exists has delivered it by then, also if other commands were
  refused in between.
* `Edits`, `QueriesAgree`: see `FdtSystem` above.
* `FaultOnlyFirst`: a trap exactly when element 0 misses, otherwise `vl` cut to exactly the first
  element that misses; before it everything is loaded, after it nothing.
* `FixedPointCorrect`: `vsadd`, `vssub`, `vaadd`, `vasub` and their unsigned forms, `vsmul`, the
  rounding shifts, `vnclip`, high halves, division and remainder against exact integers, in every
  `vxrm`; every pair of patterns for elements of 1 and 2 bytes, boundary patterns for 4.
* `InPlaceExact`, `RestartExact`: every overlap the operand checks accept is harmless, and a load or
  store interrupted by page faults ends with the file and the memory of one that was not.

**Finding (`rerun_probe`).** `start()` does not reset `probe`, `probe_en`, `probe_addr`. A
probe of `tohost` left pending at the end of one run is executed in the next; if the next
program's image lacks that block, the assertion at `adapter.py:741` fails. For the same reason
`TohostSeen` is stated for one run: a host probe unanswered when driving stops leaves
`probe_en` at 0 for good.

**Finding (`serialized`).** `PC_SERIALIZE_BEFORE` sets `state.serialized` (`execute.cc:232`) and leaves
the loop, so that `minstret` is up to date when the instruction is started again; only `validate_csr`
clears the flag. An interrupt taken in between, by `take_pending_interrupt` or by `psint`, enters its handler with the
flag set. The handler's first access to a CSR is then executed at once, with the instructions the
handler has retired still in the local `instret`: a read of `minstret` is behind, although the comment
at `processor.h:216` says of the flag "whether timer CSRs are in a well-defined state". The
attempted proof of `InstretExact` met it: the invariant that `serialized` is set only for the
instruction that comes next is not inductive. The run has a hart that raises its own software
interrupt just before it reads `minstret`.

Deadlock is checked in the tile runs: `ended` is the only state in which nothing more
happens. It is off for `Multicore`, where sessions end and where a lost semaphore stops them; for
`hart`, `serialized` and `fdt`, whose sessions end when their fuel or their calls are used up; and for
`datapath`, where a case is computed and the behaviour is over. In `debug` a debugger may always
scan again until an uncaught exception has ended the simulator (`stopped`), so it is checked.

### Where the code surprised

Met while modelling the simulator; no doc or test of the repository speaks of them, so they are
not findings. The runs keep outside them, by a condition stated at the property.

* `mmu.cc:209`: load, store and fetch tags of a TLB slot share one `tlb_data`. An access under
  MPRV to the page that is being executed replaces the data behind the fetch tag.
* `mmu.h`: a TLB hit of a load returns before the alignment check of the slow path.
* `processor.cc:1250`: a write of `tdata2` does not call `trigger_updated`, so the TLB keeps
  entries filled while no trigger looked at the page.
* `execute.cc:342`: the retry after a trigger match can throw out of `step`.
* `debug_module.cc:571`: a command written while another is busy is refused, but the register is
  overwritten.
* `debug_rom.S:49`: the exception handler restores `s0` from `dscratch0`. A command that writes `s0`
  and then runs a program buffer that faults loses its write. The proof of `RegistersIntact` met it;
  `KeepsS0` in `DebugProofs` is the condition under which no register is lost.
* `decode.h:1818`: `VI_AMO` does not keep `vstart`; a fault in the middle repeats AMOs that are
  done. `decode.h:500`: a segment load checks only one register of its group against the index.
* `vrem.vv` shifts 1 as an `int` by up to 63 places, which is undefined.
* `fdt_overlay.c`: an overlay that gives a node of the base tree a new phandle leaves references
  to the old one; a failure halfway leaves both blobs damaged, as its comment says.

### Fairness

Every coroutine and the host loop look at their ports on every clock edge. Weak fairness is
used for what stays possible until done (monitors, drivers, retriever, `poll`, `finish`, the
tile taking D messages); strong fairness where another actor can take the condition away
between two edges and give it back: `hostInterface` (a Grant of the block in progress),
`tileProbe` (port C in use), `stop` (A or C valid again). The tile need not issue anything,
and `timeout` need not happen. In `Multicore` each process and the parent are weakly fair; a
process makes finitely many `P`s, so stronger fairness of the semaphores is not needed. The
properties of the simulator are safety properties and assume none.

## 4. Proofs

The theorems hold for every value of the constants: any set of blocks, sinks, sources and
programs, any number of beats, Mshrs, stores, runs, processes, crashes, harts, words and sessions of a
debugger. They rest on the named assumptions of the modules, which TLC evaluates in every run,
and on the conditions named below, which are hypotheses of the theorem itself.

*Adapter and tile.* `TypeOK` is inductive as it stands because it contains the one relation between
ports and locals that the indexing of memory needs: `c_count` equals the beat on port C. Each
further invariant says where a thing is, and rests on the ones before it.

| theorem | inductive invariant |
|---|---|
| `TypeCorrect` | `TypeOK` |
| `ProbeSourcesSound` | the probe side `q`, the sources in flight, and a set `held` of sources that `c_port_monitor` has called back and not yet released; only with `held` is each half of `ackSource` a step from invariant to invariant |
| `SinksHeldOnce` | `SinkInv`: free, or in exactly one of callback, reservation, D queue, D port, E port |
| `BooksAreSound` | `OngoingInv`: every grant that is queued, on the port or being acknowledged is recorded in `ongoing_tlc` |
| `HostProbesOutsideGrants` | the same, given that `tohost` starts a block (`TohostAligned`; `link.ld` aligns `.tohost`) |
| `TrunkIsTracked` | `AcquireInv` (at most one Acquire of a block is anywhere, and only while the tile waits) and `TrunkInv` (a report that gives a block up finds TRUNK recorded and no grant of it under way) |
| `NoStoreIsLost` | `DirtyInv`, `StoreInv`: no grant, answer or callback carries an older version than memory when the directory says so |
| `RetrievalIsComplete` | `MatchInv` (a probe and its callback are about one block), `MemoryInv`, `PhaseInv`, `ChainInv` (blocks left to retrieve, one probe at a time); `CachedOnly = Blocks` |
| `WritesAreApplied` | `AccessInv`, `DeviceInv`, `MonInv`, `AppliedInv`; the tile asks for permission only to blocks it also acquires |
| `DataIsCurrent` | `FreshInv`; `CachedOnly = Blocks` |
| `NoCoroutineDies` | `RequestInv`, `TohostInv`, `MshrInv`: the tile acquires, releases, gets and hints (`PlainTile`), sinks outnumber its Mshrs (`EnoughSinks`; the code has four sinks), every program loads the `tohost` blocks (`SharedTohost`) |

`CachedOnly = Blocks` says that the tile stores through its cache; an uncached write races with the
probes by design, and the runs check the general property on instances. `NoException` is false
without its conditions: `mixed` contains the exceptions, `rerun_probe` the one of `SharedTohost`.

*Sessions* (`MulticoreProofs`). `SlotInv`: a process owns its slot from the fork until `check_state`
gives it back, and `proc_pid_arr` lists exactly the owners. `MutexInv`: a semaphore at 1 is held
by nobody. `StatesInv`: between reading the array of states and writing it back nobody else
writes, so no abnormal state is erased. `RecordInv`: ids below the counter are saved or in the
hands of the process that took them. `CoverageInv`: what is logged is in the merged map or
with the process that merges. They give `MulticoreTypes`, `SlotsExclusive`, `MutualExclusion`, `StopsNoticed`,
`RecordsAreKept`, `RecordsAreDense` and the action property `CoverageOnlyGrows`.

*Debugger* (`DebugProofs`). What an access does is reduced to three kinds (`DebuggerEffect`): quiet,
the start of a command, a write of `dmcontrol`; what a hart does to `HartEffect`. `HaltInv` gives
`HaltedIsTrue`. `GoInv` relates the GO flag, the place of the hart, busy and `completed`: it is what
makes a clock that clears busy find the program done. `RegInv` says for every move of every
abstract program where each register is (`Executing`): in itself, in data, in `s0` or in a scratch
register. `MovesKeep` proves it move by move, `TrapsOnlyAbsent` that the floating-point unit is on when one
of its registers is moved. They give `RegistersAreIntact` and the action property `CommandsSettle`, both under
`KeepsS0`: a debugger does not write `s0` in a command that also runs a program buffer that faults.
Without it `RegistersIntact` is false (see above).

*Harts* (`HartProofs`). The instruction set is met once, from the inside out. `Written` says what a
write of a CSR may change, `Trapped` and `Gated` what `take_trap` does, `Access` what a load, store, AMO or fetch does to the
port, and `Executes` what any instruction does to a hart: it keeps the types and the locked entries, does not raise the mode,
serializes the pipe before a CSR access and clears the flag after it, touches the reservation only
by LR and SC. `Concludes` carries that through the ways out of the two loops of `step` (retired, trap,
WFI, before and after a serialized instruction, trigger, restart) to `Holds`, which is all the
invariants need. `Typed` describes a record by the fields the properties depend on and holds of every
session. `LockedKept` and `PrivilegeGated` follow from it step by step. The other three need more:

| theorem | inductive invariant, besides `Typed` |
|---|---|
| `HartScAtomic` | `ScInv`: a hart holds a reservation in its own turn only, and for the word its last load-reserved was about |
| `HartInstretExact` | `SerialInv`: `serialized` is set only for the hart whose turn it is, for the CSR access it starts next, and before anything was retired in the loop; `ExactInv`: `minstret`, with the local `instret` inside the loop, is the number retired |
| `HartStepOne` | `SerialInv`, and `StepInv`: a hart that has used up its step is at `STEP_STEPPED` and not serialized, and a hart that is stepping is in the slow loop |

Without `SerialInv` neither count is inductive: a CSR write sets `minstret` to its value less one, and
that is right only if nothing is waiting in `instret`. The constants are arbitrary but for
`WordAssumption`, `PmpAssumption` (the PMP in use is not larger than the registers), `InterleaveAssumption`
(a turn is not empty) and `SessionsAssumption` (there is a hart, instructions are 2 or 4 bytes long
and write words to word registers). TLC checked each part of the invariant on the sessions of `hart`
before it was proved.

Clocks in Run-Test/Idle are a recursive function of their number. The library's induction theorems
take an operator the provers cannot instantiate; `SetInduction` is induction for a property
given as a set, from the well-foundedness of the natural numbers, and is enough.

Only model-checked: liveness (fairness and ENABLED are out of the prover's reach);
`CachesTransparent`, which compares the caches with a page walk, a recursive function over levels,
and with PMP ranges made of powers of two and remainders by variable sizes; the tree library, SoftFloat and
the vector unit. What the last three compute rests on RECURSIVE operators or on recursive
functions over bits, elements and bytes that are not unfolded by the provers; `InPlaceExact` to
`EstimatesAccurate` and `QueriesAgree` are checked on the instances of section 3. There the first
operand of a scalar operation is every pattern of a small format and the others are patterns around
the boundaries of theirs; the elements of the fixed-point operations are as listed above; the other
vector instructions run on one register file and one memory image, with every choice of registers
listed in `MCDatapath`.

## 5. Plan

1. *Done*: `TLAdapter`, `Tile`, `TileSystem`, `Multicore`; first theorems.
2. *Done*: the simulator: hart and MMU, debug module, device tree library with its abstract
   specification, SoftFloat, vector unit.
3. `IsaTimer`: timer thread, Spike and `run_isa_test` of one process, the kill before the stop
   code is set, the late kill of the next test's Spike, the `isa_timeout` directory.
4. `Pipeline`: stages of `run_single_difftest` with `rtl_runner`, `spike_runner`,
   `single_program_test` and the host's classification; result files that survive in a reused
   directory; one verdict per file.
5. `Mutator`: corpus, phases, data seeds, labels and forward jumps; then `Minimizer`: slices,
   windows, masks; `Signature` and `MemoryImage` as operators.
6. *Done*: theorems for the adapter, the sessions, the debug module and the harts.
7. `CachesTransparent` as a theorem, if the walk and the PMP can be replaced by uninterpreted
   functions of the state they read.

Hazards of the parts in 3 to 5, besides those in `PROJECT.json`: `tohost` written in the last 99
cycles is not polled (`RTLSim/host.py:244`); the iter column of the coverage log is taken at boot
(`multicore_manager.py:214`); illegal-memory inputs are named by a counter per process
(`Fuzzer.py:137`); `add_data` recycles data seeds that corpus entries still name (`mutator.py:115`);
`break` leaves only the innermost loop of the minimizer (`Minimizer.py:153`), and its processes race
to create a directory (`Minimizer.py:74`).

### Not modelled

* `spike/fesvr`, `spike/spike_main`: system calls of the host, sockets, ELF files, options, cache
  statistics; I/O around the machine. `dtm.cc` drives hardware the repository never attaches.
* the disassembler, `encoding.h`, `debug_defines.h`: text and generated constants; the models use
  the names.
* scalar integer instructions of `insns/` that only compute a result: the differences between them
  are one C operator each.
* the hypervisor extension, the commit log, `rocc`, the extended-precision half of SoftFloat that
  RISC-V does not use.
* ELF parsing, generated assembly, log texts, the option parser, vendored compilers, maintenance
  scripts, templates and programs under test.
