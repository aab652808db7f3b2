# TLA+ models of Gandul and of its harness

This directory holds TLA+ modules that model the hardware of this repository and
the job runner that builds and simulates it, the TLC configurations that check
them, and proofs that TLAPS checks.
Paths are relative to the root of the repository (`src/` in `PROJECT.json`).

The repository contains four RISC-V cores of growing ambition (`rtl/rv_pa1`,
`rv_pa2`, `rv_pa3`, `rtl/gandul`), the blocks they share (`rtl/common`), a
golden model for co-simulation (`cosim`), a Rust job runner (`harness`) and a
UVM example (`fifo_uvm`). Gandul is the current core: an in-order front end,
three functional units that complete out of order, a reorder buffer, a store
buffer that drains committed stores in the background, write-back or
write-through caches and one memory port. What is hard in it is what happens
*between* these blocks in one clock cycle, and that is what is modelled first.
The harness (`harness/src`) turns `harness.lua` into jobs, the jobs into a build
graph for ninja, and the logs of the simulations into a report. What is hard in it
is that it runs again and again over the same files, between edits, failures and
interrupts, and that it tells ninja only a part of what the commands read.

## 1. Inventory

| Part | State | Operations | Talks to |
|---|---|---|---|
| store buffer, `rtl/common/store_buffer.sv` | slots (allocated, valid, committed, address, data, width), head, tail and commit pointers, count, IDLE/DRAIN | allocate (decode), execute (4m), commit (reorder buffer), drain (cache port), flush (trap), age-ordered search (loads) | decode, stage 4m, reorder buffer, arbiter |
| reorder buffer, `rtl/common/rob.sv` | entries, head, tail | issue, complete on three ports, commit, trap, operand lookup (CAM) | decode, the units, store buffer, register file, CSRs |
| back end of the pipeline, `rtl/gandul/gandul.sv`, `stage_2d.sv`, `stage_3e.sv`, `stage_4m.sv`, `muldiv_fu.sv`, `csr_fu.sv` | pipeline registers, the muldiv and CSR delay lines | dispatch, stall, squash, commit permission, trap | everything |
| load/drain arbiter, `rtl/common/dcache_arbitrer.sv` | IDLE, SERVING_LD, SERVING_SB | grant, wait for the cache | stage 4m, store buffer, data cache |
| data cache, `rtl/common/dcache_engine_wb.sv`, `dcache_engine_wt.sv`, `dcache_controller.sv` | lines, tags, valid and dirty bits, IDLE/READ/EVICT | hit, refill, eviction, write, bypass | arbiter, memory arbiter |
| instruction cache, `rtl/common/icache.sv`, `icache_controller.sv` | lines, tags, IDLE/WAIT_READ | hit, refill | fetch, memory arbiter |
| memory side, `rtl/common/memory_arbitrer.sv`, `memory_controller.sv`, `valid_delayer.sv`, `sram.sv`, `rtl/gandul/soc.sv` | IDLE/SERVING_D/SERVING_I, a delay line | grant, delayed answer | both caches |
| front end, `rtl/gandul/gandul.sv:264-374, 642-709`, `rtl/common/branch_predictor.sv` | pc, pending jump, pending trap, predictor tables | fetch, predict, redirect, squash | instruction cache, stage 3e, reorder buffer |
| forwarding unit, `rtl/gandul/fwd_unit.sv`; register file | register values | bypass, stall on an unready operand | decode, units, reorder buffer |
| CSR file, `rtl/gandul/csr_regfile.sv` | mepc, mtvec, mcause and others | read/write, trap capture | CSR unit, reorder buffer |
| data path algorithms, `alu.sv`, `rv_decoder.sv`, `sign_extender.sv`, `rv_branch_compare.sv` | none | combinational | stages |
| earlier cores, `rtl/rv_pa1`, `rv_pa2`, `rv_pa3` | pipeline registers | in-order pipelines with hazard and forwarding units | - |
| golden model, `cosim/cosim` | registers, memory, pc | step one instruction, compare | test bench at commit |
| FIFO example, `fifo_uvm` | a queue | push, pop | its test bench |
| configuration of the harness, `harness/src/core.rs`, `lua_engine.rs`, `setup_config` of `main.rs` | tools, simulators, suites, test benches, parameter sets, experiments, tasks, hooks | the functions `harness.lua` calls | job resolution |
| job resolution, `silo.rs`, `hw.rs`, `sw.rs`, `sim.rs` | the generated files: `resolved.f`, `harness_params.svh`, `top.f`, `run.sh` | resolve hardware, suites, simulations | `ninja.rs`, the commands |
| build graph, `ninja.rs`, and ninja | `build.ninja`, `.ninja_log`, all outputs | generate; ninja plans, starts, finishes and gives up on commands | the commands |
| commands of the harness, `main.rs`, `cli.rs` | the command line, its targets | gen, list, simulate, compile, analyze, clean | everything above |
| report, `analysis.rs` | the logs it read | status, banner, baseline | the user |

### What is hard here, and what makes each part correct

* **Store buffer.** Four operations can hit the ring in one cycle, at any
  position of three pointers that wrap, with a counter kept separately. A trap
  truncates the ring and stops the draining state machine although the arbiter
  may still be waiting for the cache on behalf of the head. Correct means: the
  pointers, the counter and the flags tell one story; only committed stores
  reach the cache, in program order, none lost and none twice with effect; a load
  sees exactly the stores before it.
* **Reorder buffer.** Entries are reused; completions arrive out of order and
  name an entry by number; an issue can coincide with a trap. Correct means: an
  in-order window, whatever the order of completions.
* **Back end.** Each block decides with the others' combinational outputs of the
  same cycle. Correct means: each unfinished instruction is in exactly one unit;
  store buffer slots, taken at decode and named at completion, follow program
  order; the age tag a load took at decode still means the same stores when it
  is used; traps are precise; fences wait for earlier stores; the oldest
  instruction eventually leaves.
* **Arbiter and caches.** A request is held while the cache works on it; a refill
  uses the request's address again when it arrives; two caches share a memory port
  whose answers carry no owner. Correct means: requests are stable until they are
  answered, each cache is invisible to its client, and neither starves.
* **Front end.** A misprediction or a trap may come while the instruction cache
  serves a miss: its answer belongs to an abandoned path, and so may what decode
  holds, for as long as decode stalls. Correct means: what reaches the execute
  stages is the path the program takes.
* **Harness.** Every command loads the configuration again, resolves *all*
  experiments, rewrites every generated file and only then looks at what was
  asked. ninja runs commands in parallel, goes on after failures, and its result is
  ignored. Correct means: whatever happened before, a reported result comes from
  the present sources and configuration; parallel commands never touch each other's
  files; a failure takes with it only what needs it, and never becomes a pass; a
  compile makes everything a run needs; a clean of one experiment leaves the others.
* **Operands.** An operand may be taken from the wrong producer.

`PROJECT.json` lists these as hazards, each at its line, with the properties that
cover it or the reason none does yet.

## 2. Modules

One step of a hardware model is **one clock cycle**. A block's `always_ff` processes
are an operator that takes the values of the block's input ports in that cycle
(`CycleStep`, `FlushStep`, `RobStep`); its combinational outputs are operators of
the same name as the signals. A module closed on its own lets its environment
present every value the ports may carry; `Backend` conjoins the blocks' steps and
passes them each other's outputs.

| Module | Models | State and actions |
|---|---|---|
| `StoreBuffer` | `store_buffer.sv` | the six registers of the RTL; `CycleStep` (the branch without flush: `DataPath` for pointers, count and slots, `Fsm` for the draining state machine), `FlushStep` (the branch with flush); `Matches`, `ld_hit`, `ld_stall`, `ld_data` for the forwarding search |
| `StoreQueue` | the promise of the store buffer: a queue of stores in front of a memory | `Step`, `Discard`; `WrittenAll`, the memory a sequence of stores defines |
| `StoreForwarding` | the store buffer with one load in flight and the memory behind the drain port (`stage_4m.sv:90-218`, `dcache_arbitrer.sv`) | `LoadCycle`, `LoadFlush`; refinement mapping `Queue`, `NCommitted` |
| `Rob` | `rob.sv` without results and operand lookup | `RobStep` |
| `CommitWindow` | the promise of the reorder buffer: a window of instructions in program order | `Retire`, `Trap` |
| `Backend` | decode, the three units, the reorder and store buffers, the arbiter, and the stall, squash and permission logic of `gandul.sv:88-262, 436-583` | `BCycle`, in one of three shapes: `TrapCycle`, `StallCycle`, `FlowCycle`; it `EXTENDS` `StoreBuffer`, whose `CycleStep` and `FlushStep` it conjoins, and takes the reorder buffer by `INSTANCE` (`R!RobStep`). `BInit`, `BNext`, `BSpec` and `BTypeOK` are its own |
| `FrontEnd` | `gandul.sv:88-120, 264-445, 642-706`, the parts of `stage_2d.sv` that squash and raise exceptions, `branch_predictor.sv` | `Cycle`; `PendingJump`, `NextPc`, `s_1f_d`, `Noop2d`, `s_2d_d` and `BpStep` for the registers |
| `CacheSets` | what the three cache engines share: sets, ways, hits, replacement | operators only |
| `DataCache` | `dcache_engine_wb.sv` and `dcache_engine_wt.sv`; `policy` says which one was built | `DataCacheStep`, one disjunct per transition of the two state machines |
| `InstrCache` | `icache.sv` | `InstrCacheStep` |
| `MemoryPort` | `memory_arbitrer.sv`, `valid_delayer.sv`, `sram.sv` | `PortStep` |
| `DataMemory` | the promise of the data cache: a memory that answers one request at a time | `Apply`, `Answer` |
| `MemorySide` | both caches on the port (`soc.sv`, `gandul.sv:332-354`) with a core that holds its requests | `Next`; refinement mapping `Image` |
| `MCStoreForwarding` | - | a view for TLC that forgets the stale payload of slots whose store is not valid |
| `MCBackend` | - | instruction mixes for TLC; `SpacedSpec`; the same view for `Backend` |
| `MCFrontEnd` | - | a program for TLC |
| `MCMemorySide` | - | lines and accesses for TLC |
| `StoreBufferProofs` | - | proofs about `StoreBuffer`: the ring |
| `StoreForwardingProofs` | - | proofs about `StoreForwarding`: what loads return, the queue |
| `MemorySideProofs` | - | proofs about `MemorySide`, beginning with what filling and writing a way makes of the lines of a cache |
| `FrontEndProofs` | - | proofs about `FrontEnd` |
| `BackendProofs` | - | proofs about `Backend`: entries, units, the window |
| `BackendSlotProofs` | - | proofs about `Backend`: slots, traps, fences, loads |

One step of the harness model is one thing that can be interrupted or raced: a
command starts, resolves, decides what to ask of ninja, analyses; ninja starts or
ends one command; the user edits a file or presses ctrl-C. Resolution, generation
and analysis are functions of their inputs, so they are operators.

| Module | Models | State and actions |
|---|---|---|
| `Silo` | `silo.rs` | operators: directories as sequences of their parts |
| `HarnessConfig` | `core.rs`, `lua_engine.rs`, `setup_config` | operators: one per function of the `harness` table, folded over a script |
| `HarnessJobs` | `hw.rs`, `sw.rs`, `sim.rs`, `resolve_all_jobs` | operators: the jobs of a configuration and the files resolving writes |
| `NinjaFile` | `ninja.rs` | operators: rules, edges, `generate` |
| `Ninja` | ninja, from how `run_ninja` calls it (external) | `disk`, `build_ninja`, `ninja_log`, `todo`, `running`, `failed`, `keep_going`; `EdgeStart`, `EdgeSucceeds`, `EdgeFails`, `Killed` |
| `Report` | `analysis.rs` | operators: which logs count, status, banner, baseline |
| `Harness` | `main.rs`, `cli.rs`, composing all of the above | `harness_lua`, `pc`, `cmd`, `config`, `targets`, `report`, `outcome`; `Load`, `CleanAll`, `resolve_all_jobs`, then `Gen`, `List`, `NotFound`, `Simulate`, `Compile`, `Analyze`, `NothingToDo` or `Clean`, then `NinjaBegins`, `NinjaWorks`, `NinjaFails`, `NinjaEnds`, `run_analysis`; `EditSource`, `EditScript`, `Interrupt` |
| `MCHarness` | - | a `harness.lua` in three versions, and the absent one; it extends the proofs to check their invariant |
| `HarnessProofs` | - | proofs about `Harness` and the ninja in it: parallel commands, failures, cleaning, types, what names make of the build graph |
| `HarnessReportProofs` | - | proofs about `Harness`: that what it reports is current |

How the data are abstracted:

* An address is a word and a set of byte lanes. The store buffer compares word
  addresses and byte enables (`store_buffer.sv:194-223`); `ByteEnables` are the
  naturally aligned runs of lanes the widths produce. One or two lanes and one word are enough: a
  different word is simply never a match, and two lanes give full cover, partial
  overlap in both directions and disjointness.
* A store's data is one value for all of its lanes. A load returns per lane what
  memory or the covering store has there; shifting and sign extension
  (`stage_4m.sv:202-210`) are not modelled.
* An instruction of `Backend` is its operation, its access and where it excepts:
  never, at fetch, at decode, or late (a misaligned access in 4m, a division by
  zero). Which of these it is does not depend on the pipeline, so it is part of
  the instruction. Operands and results are absent: an operand hazard is one of
  the reasons stage 2d may hold a bubble, and any cycle may bring a bubble.
* The data cache behind `Backend` answers a request in any cycle, or not yet. It
  is ready when nothing is asked. What it stores is in `StoreForwarding`'s
  `cache`: loads and drains go through the same cache, so its misses are
  invisible to both.
* `ld_stall_o` is computed whether or not a load is in stage 4m, and
  `drain_needed` takes it unqualified. Without a load its value depends on
  don't-care signals: `Urgencies` takes any value.

* A pc of `FrontEnd` counts instructions. The program says where its jumps and
  branches may go; how one resolves matters only in the cycle in which it leaves
  stage 3e, and is an input of that cycle. Decode stalls for any reason at any time.
  Where the ROB commits an exception is an input too, restricted to what it can do:
  only with an excepting instruction in the back end (`doomed`).
* `due`, `doomed` and `raised` of `FrontEnd` are history variables: the
  instruction that should come next, whether an instruction in the back end
  excepts, and the last illegal instruction decode refused.
* A line of the caches is an address without its byte offset, a way's tag together
  with its set is a line, and the parts of a line stand for what byte masks tell
  apart. Fields that no one reads (an invalid way's, the data of a read request) have the
  value `None`.

In the models of the harness:

* A file's content is the set of all that went into it: versions of sources,
  generated text, commands. A stale output is one whose set is not what making it
  now, from nothing, would give (`Expected`). What a command *opens* is kept apart
  from what `build.ninja` *says* it needs: a simulator follows `top.f` to
  `resolved.f` and nested file lists, `run.sh` opens what its variables name.
* ninja refuses a file with two edges for an output, an edge without one, or two rules of a
  name (`Accepts`), and one in which something wanted needs itself (`Circular`).
* There are no times. Every output remembers which of its inputs changed since the
  command that made it began, which is what ninja compares (it records the start
  of a command as the time of its outputs).
* A path is a sequence of parts. A filter that looks *inside* a path finds a part,
  or a part that the constant `Within` says contains it; `--sw` is a plain text
  instead of a regular expression. A script is the sequence of calls it makes; of a
  command line template only the variables that occur in it are kept.
* Files are written by resolution in one step, without a crash between two of
  them: each command writes them all again before it uses any. A panic (an unknown
  tool or simulator) and an unwritable directory are left out.

`overrun` in `Backend` is a history variable, not hardware: it records that a
trap found all DEPTH slots committed (section 5, first item). The model stops
following such an execution, in `Halted`, because every state after it has lost
stores; the properties about slots exempt it explicitly. `FULL_FLUSH` plays the
same part in `StoreBuffer`.

## 3. What the runs check

Deadlock is checked in every run but `harness`, which stops when its commands are used up.

| Run | Question | Bounds |
|---|---|---|
| `forwarding_lanes` | What do loads return and when do they wait, with partial overlaps, and wherever the age check wraps? `LoadSeesProgramOrder`, `LoadWaitsOnlyForPartialOverlap` | 3 slots, 2 lanes, 2 data values: two older stores are the fewest that can both touch a load's bytes and differ; the ring turns, so tags lie on either side of the head |
| `forwarding_wrap` | Do pointers, count, flags and state machine agree (`Ring`, `CommittedStoresStay`)? Is the ring a queue that memory sees exactly the committed stores of, in order? `ImplementsStoreQueue` | 4 slots, threshold 3, one lane: every relative position of the three pointers; the proofs of section 4 cover every depth |
| `backend_mem` | Loads, stores, exceptions of decode and of fetch, which are issued in any cycle, also in that of a trap, through the whole back end: `StoresHoldSlotsInOrder`, `LoadSearchesOlderStores`, `TrapIsPrecise`. Does what the cache is shown stay until it is answered, from its first cycle, whatever traps, drains or is flushed meanwhile: a load (`LoadRequestStable`), a store (`StoreRequestStable`)? | 4 slots, threshold 1, which two parameter sets of `harness.lua` use, 4 entries: as many slots as entries, as in the configured core. The entries hold three instructions, the fewest that let a trap meet a load at the cache: an exception, the load, and an older instruction that holds the exception up. Two words: loads and stores are of the one, slots hold the other at reset, so that a request for the wrong slot or for a cleared one shows |
| `backend_mix` | Stores around fences while the three units complete out of order and muldiv and 4m except: `OneOwnerEach`, `FenceFollowsStores`; is the reorder buffer an in-order window (`ImplementsCommitWindow`); and does the back end drive the store buffer only as `StoreBuffer` assumes? `ImplementsStoreBuffer` | 2 slots, 4 entries, muldiv delay 2: enough for a younger instruction to complete in each of the other units first, and for a robid to be given again while what a trap squashed would still be in a unit |
| `backend_live` | Does the oldest instruction always leave (`HeadRetires`), and does a buffer at its threshold drain (`ThresholdDrains`)? | 2 slots, 2 lanes, 3 entries |
| `front_end` | Do the execute stages receive the program's path, whatever was predicted (`ExecutesProgram`)? Are illegal instructions refused only on it (`RaisesInOrder`), and does fetch go on (`FetchProgresses`)? | a program of 8 instructions with three branches, a jump with three targets, one to a misaligned address and a trap handler that may run into an illegal instruction; two predictor entries, shared by several of them |
| `memory_side` | Are both caches invisible to their clients (`ImplementsDataMemory`, `LoadReturnsImage`, `FetchReturnsCode`), is a line in one way at most (`OneCopy`), is a clean copy what memory holds (`CleanIsMemory`), does the port serve one request at a time (`PortServesOne`), is every request answered in bounded time (`RequestsAnswered`)? Both policies in one run | 2 ways and 2 sets as configured, 3 lines of data and 3 of code for one set, so that every refill may evict, and one more line of data; delay 2 |
| `harness` | Does a report come from the present sources (`ReportIsCurrent`), does a compile make all a run needs (`CompileIsEnough`), is ninja told enough order (`TellsOrder`), do parallel commands keep apart (`NoReadWhileWritten`), is `build.ninja` accepted (`NinjaAccepts`), does a failure take only its dependents along (`KeepsGoing`), what does "ALL TESTS PASSED!" mean (`GreenMeansPassed`), is the baseline the one asked for (`BaselineIsTheAsked`), what does a clean leave (`CleanKeepsOthers`)? Do the scripts meet what the proofs of section 4 ask of them, and does their inductive invariant hold in every state (`ResultsInv`)? | four events, each a command of twelve, an edit, a failing command or an interrupt, and two jobs; two experiments on shared hardware, two parameter sets whose names nest, one program, one task |
| `full_flush`, `fence_deadlock`, `full_rob_deadlock`, `lost_trap` | the four findings of section 5 | the two deadlocks are shown with the configured 8 slots or 8 entries |

`backend_mem` rests on DEPTH >= N_ENTRIES, which all parameter sets of
`harness.lua` satisfy (8 and 8). With fewer slots than entries the age tag of a
load can come to equal `head_ptr` while the buffer is full, which
`store_buffer.sv:211` reads as "nothing is older": `LoadSearchesOlderStores` then
fails. `StoreForwarding` states the same limit as `load.older < DEPTH`.

`ImplementsStoreBuffer` is what makes the results about `StoreBuffer`, with its
own generous environment, results about the core.

Three commands and a mishap are what a stale result takes: a command that makes
the file, an edit, a command that changes something around it (another experiment,
a clean, a broken configuration), one that reports. Two commands and two mishaps
meet in each of their orders, such as an edit during an interrupted build. A graph of one program has each kind of edge,
each kind of dependency between them, and edges that ninja can run at once. The
sources that are edited are one of each kind the graph knows: a task's, a
program's, one reached through a nested file list.

### Fairness

`BSpec` has no fairness; safety runs use it. The liveness run uses
weak fairness of `Running`, since the clock ticks for ever, and of
`CacheAnswers`: whatever the cache is asked, it answers in finite time. That is
justified by `memory_side`, which shows that every request is answered in bounded time. Nothing is
assumed of the front end: it may hold bubbles for ever. `ThresholdDrains` is
conditional on `LoadsPause`, because the arbiter prefers loads
(`dcache_arbitrer.sv:61-69`) and an unbroken stream of misses would starve the
drain; the code promises no more.

`FrontEnd` assumes weak fairness of `Unhindered`, a cycle in which the instruction
cache answers and nothing stalls decode, and of `Traps`, the commit of an exception
while an instruction in the back end excepts. That such cycles recur is what the other
models show: the cache holds its answer while decode stalls, since pc does not
move, and the back end drains, and comes to the instruction that excepts, whatever the
front end does (`HeadRetires`, with the exceptions of section 5). Neither traps
nor mispredictions are assumed to be rare.

`Harness` has no fairness and no liveness property: a simulation may run for ever.

`MemorySide` needs no fairness. The two conjuncts of `RequestsAnswered` say that a bound
on the cycles a request still has to wait (`DataWait`, `FetchWait`) falls in every
cycle without an answer: a liveness property in the form of a safety property,
and the latency it implies. They are what justifies `CacheAnswers`.

`SpacedSpec` restricts the programs, not the hardware: no store is decoded while
a fence is in flight. Without the restriction `HeadRetires` fails (section 5).
The late exceptions that cause the other deadlocks (section 5) are not part of its mix.

## 4. What is proved

Every theorem holds for every value of the constants that the named assumptions of the
modules allow. TLC checks those assumptions on each run.

| Component | Theorem (module) | Says |
|---|---|---|
| store buffer | `RingInvariant`, `OnlyCommittedDrainInvariant`, `CommittedStoresStayTheorem`, `AgeCheck` (`StoreBufferProofs`) | `Ring`, `CommittedStoresStay`; that what the cache is shown is committed; the RTL's comparison of indices selects the n oldest slots |
| | `LoadSeesTheorem`, `LoadWaitsTheorem`, `ImplementsQueue`, `WrittenOneByOne` (`StoreForwardingProofs`) | `LoadSeesProgramOrder`, `LoadWaitsOnlyForPartialOverlap`; the ring implements `StoreQueue`; what the memory that `LoadSeesProgramOrder` speaks of is |
| reorder buffer | `ImplementsWindow` (`BackendProofs`) | it implements `CommitWindow` |
| back end | `OneOwnerEachInvariant` (`BackendProofs`) | `OneOwnerEach` |
| | `BackendTypeCorrect`, `SlotsInOrder`, `LoadsSearchOlderStores`, `TrapsArePrecise`, `FencesFollowStores`, `LoadRequestsStable`, `StoreRequestsStable`, `ImplementsBuffer` (`BackendSlotProofs`) | all the other safety properties of the runs; each cycle is one of `StoreBuffer` with legal requests |
| front end | `TypeCorrect`, `ExecutesProgramInvariant`, `RaisesInOrderInvariant` (`FrontEndProofs`) | all safety properties |
| memory side | `TypeCorrect`, `OneCopyInvariant`, `CleanIsMemoryInvariant`, `LoadReturnsImageInvariant`, `FetchReturnsCodeInvariant`, `PortServesOneTheorem`, `Implementation`, `RequestsAnsweredTheorem` (`MemorySideProofs`) | all properties, among them the refinement of `DataMemory` and the bound on the wait |
| harness | `TypeCorrect`, `CommandsKeepApart`, `NinjaKeepsGoing`, `CleanLeavesOthers` (`HarnessProofs`) | `TypeOK`, `NoReadWhileWritten` given `TellsOrder`, `KeepsGoing`, `CleanKeepsOthers` |
| | `NinjaTakesIt`, `OrderIsTold` (`HarnessProofs`) | `NinjaAccepts`, `TellsOrder` and with it `NoReadWhileWritten`, given conditions on names |
| | `ReportsAreCurrent`, `GreenIsTrue`, `CompiledIsCurrent`, `ResultsInvariant` (`HarnessReportProofs`) | `ReportIsCurrent`, `GreenMeansPassed`, `CompileIsEnough` and the invariant `ResultsInv` behind them, given `Traceable` |
| | `LogIsFaithful`, `MadeIsFresh`, `ResolvingRemakes` (`HarnessReportProofs`) | ninja's log is to be believed (`FaithfulInv`); what ninja made is current while it still works (`MadeInv`); every hardware and simulation edge is made again by each command |

Some hypotheses go beyond the assumptions of the modules:

* `~FULL_FLUSH` in `StoreBufferProofs` (but for `AgeCheck`) and `StoreForwardingProofs`
  (but for `WrittenOneByOne`): no trap finds every slot committed. Without it the
  statements are false (section 5, first item). `Backend` does meet such a trap, and stops there
  (`overrun`): its theorems need no such hypothesis.
* `~TRAP_ON_ANSWER` for the two properties of `FrontEndProofs`, for the same reason
  (fourth item of section 5).
* `DEPTH >= N_ENTRIES` for `LoadsSearchOlderStores`. All parameter sets of
  `harness.lua:284-288` have 8 and 8; with fewer slots it is false (section 3).
* `TellsOrder` in `CommandsKeepApart`. It speaks of one generated graph, not of time:
  whether it holds depends on the names and inputs in `harness.lua`.
* The remaining ones speak of `harness.lua` and of the graphs generated from it, not of
  time. Together they are `Scripts`; `ResultsInv` contains it, so that the run `harness`
  evaluates it on its four versions of `harness.lua`.
  * `NamedApart` in `NinjaTakesIt` and `OrderIsTold`: names that make a directory, or a file in
    one, are given once (tasks, experiments, the parameter sets, simulators and suites of an
    experiment, the paths of a suite's programs, the outputs of a tool's actions); whatever makes
    something says what; no task has its outputs where jobs have theirs (`TasksApart`); no rule
    of a task has the name of another. Otherwise ninja may refuse the file: it does if a suite is
    listed twice in an experiment, or if two tasks share a name.
  * `OpensTold` in `OrderIsTold`: no file list names behind `-f` what a command makes, and of such
    files the variables of a tool action name only its inputs and outputs. ninja is told of neither
    (`hw.rs:81`, `sw.rs:92`).
  * `Traceable` in all of `HarnessReportProofs` but `ResolvingRemakes`. It asks that ninja accepts
    each graph, that the graph tells the order (`OrderTold`) and has no cycle; that no file is a source, a
    file of resolution and an output at once; and of each task and each tool action that
    either ninja is told of every file its command opens (`Tracks`), or resolving writes an
    input of it or of what it needs. The untracked linker script of section 5 is a `Tracks`
    that fails, and with it `ReportIsCurrent`. `Tracks` also asks that under any two versions of
    the script the same command opens the same files: ninja compares the text of commands,
    and cannot tell two that read alike.
  * `NamesDiffer` in `CompiledIsCurrent`: two experiments of one name resolve to two
    sets of jobs, of which `compile` takes the hardware of the first (`main.rs:73`).
  * `BuildDirIsOne` in `GreenIsTrue`, a build directory of one part: `run_analysis` takes the third
    part of a log's path for the experiment (`analysis.rs:57`), which it is at this depth only.

### The arguments

**The ring** (`StoreBufferProofs`). `OnlyCommittedDrain` and `CommittedStoresStay` are
not inductive: that the slot after the head is committed when the state machine stays
in DRAIN after a pop, and that an allocation never hits a committed slot, depend on
where the pointers are. `IInv` is `TypeOK` with `Ring`, which describes every slot by its
distance from the head: a committed run, then a speculative run up to `tail_ptr`,
then free slots. Slots are addressed as `Slot(k)`, k places after the head;
`PointersAdvance` shows what an increment does to that address, `WrapInjective` that
distances below DEPTH name different slots. `AfterCycle` says what a cycle makes of
one slot, `CycleRingOf` does the count, with the number of committed slots
changing by commit and pop. `FlushRingOf` goes through a flush, where `~AllCommitted` gives that
`commit_ptr = head_ptr` means an empty, not a full, buffer. `CommittedCount` ties the run
to the number of committed slots.

**Loads** (`StoreForwardingProofs`). `FInv` adds to the ring that a load's tag is still
the slot `load.older` places after the head, however often the head moved since, that
all committed stores are older than the load, and that the arbiter serves the buffer only
while it holds a committed store. Then `SearchOrder` shows that the search from the tag
backwards meets the older stores, youngest first, before the slots `AgeCheck` excludes,
so its first match is the youngest older store that touches the load's bytes (`MatchIs`).
The queue refinement goes place by place: `ContentAfterCycle` and `QueueAfterCycle` say
what a cycle makes of the k-th store, `SequenceStep` that a sequence with these
elements is the one `StoreQueue` steps to; a flush cuts the sequence off (`FlushDiscards`).

**Ownership** (`BackendProofs`). `OwnerInv` puts entries that wait and tokens in the
units into one-to-one correspondence. Entries are counted from the head (`Age`), tokens by the place they are
at (`Units`); a cycle brings at most one token and moves the others by one place. That two completion
ports never write one entry (`EntryAfter`) follows from it, and with it that the
entries, read from head to tail, form the window of `CommitWindow` (`WindowNext`).

**Slots** (`BackendSlotProofs`). A store's slot is given at decode, carried by its token,
named when it completes and used when it commits. `SlotInv` says which slot it is at each of
these times: the one `Rank` places after `commit_ptr`, where `Rank` counts the older
stores in the reorder buffer. From an instruction on that is known to except (`Known`)
this fails, because such a store may hold a slot without counting as a store; what
comes after is `Doomed`, the trap will squash it, and the invariant exempts it. The number of slots in use is bounded by the
instructions that can hold one (`Holders`). `ArbInv` says that the arbiter serves
only what is still asked. All but one of the properties follow from `SlotInv`; a load that is
answered has the right tag by `LoadInv`: with DEPTH >= N_ENTRIES a buffer can be full only
with committed stores in it, so it drains, and a load whose tag has become ambiguous
waits until it is not.

**Both caches** (`MemorySideProofs`). `IInv` says of each state machine what its state
promises: what is being asked, for whom, and that the line asked for is not cached
meanwhile. Memory is only written with the cached copy of a line
(`MemoryTakesCopies`), so the image of memory that the core sees changes with the data
cache alone; each cycle either leaves it or applies the answered request, which is the refinement of
`DataMemory`. What the port waits for is counted in turns, and `TurnsOutweigh` makes the bound fall
whichever client is served.

**The path** (`FrontEndProofs`). `FlowInv` follows the program backwards: what decode
will hand over next is what is due, or what the instruction in stage 3e is predicted to
go on with; fetch, or a buffered jump, goes on with what the instruction in decode is
predicted to go on with. `PendingInv` is where a lost trap would break it: while a jump is buffered,
decode is squashed and nothing is in flight before it.

**Parallel commands** (`CommandsKeepApart`). That two running commands share no file
follows from what ninja checked when it started the later one, which by then may be long
ago: `OrderInv` keeps it, saying that of the edges a running command needs only itself
is still to be made. It survives because an edge is started only from `todo`, so that the union
of `todo` and the running edges only shrinks (`FewerEdges`), and because no other action touches
either while ninja works.

**Failures** (`NinjaKeepsGoing`). When ninja ends, no edge left is ready. Of the edges
left that need no failed one, some needs none of the others (`FirstOfEdges`): it
would be ready (`FinishedBlocked`). That needs `Upstream` to be what its name says, the
least set closed under producers, although it is computed in as many rounds as there are edges:
each round that adds something adds an edge, so the last adds nothing (`StepsStop`, `UpstreamLeast`).
It also needs that nothing wanted needs itself, which ninja refuses. `KeepInv` carries this
over the commands.

**Cleaning** (`CleanLeavesOthers`). Each directory the harness makes is `Below` the build
directory under the name of its kind and, for a simulation, of its experiment
(`HardwareBelow`, `SoftwareBelow`, `SimulationBelow`). Two that differ in either are apart
(`BelowApart`): neither is a prefix of what the other holds. `CleanedBelow` says so of
whatever the filters choose.

**Names** (`NinjaTakesIt`, `OrderIsTold`). Two edges that make one file must be shown to be the
same edge. Each output is `Append(dir, file)`, so two equal outputs have equal directories
(`AppendSame`), and a directory determines its job: the parts of its path are the names of the
test bench, parameter set and simulator, of the suite and program, or of the experiment and all of these
(`HardwareDir`, `SoftwareDir`, `SimulationDirSame`), and after as many parts the
rest is the program's path, which may have any length (`SplitSame`). Names given once then make
equal jobs of jobs with equal directories (`HardwareSame`, `SoftwareSame`). Simulations need more, because
each has an edge of its own even if two are equal: the lists they are joined from, by
experiment, hardware, suite and program, must not hold one directory twice, which
`FlattenFacts` carries through the joins from `DirsDiffer` of each row and `RowsApart` of
different ones (`SimsWithDiffer`, `SimulationsDiffer`, `AllSimulationsDiffer`). Hardware, software and
simulations lie in three directories (`InKind`), and tasks in none of them (`EdgesOfOneFile`). For the
order, whatever a command opens and another makes is one of its inputs (`OpensAreInputs`):
what `run.sh` takes as arguments are artifacts of the jobs it depends on (`ArgsAreDependencies`), and generated
files are made by no command (`ScriptNotMade`). An input that is made is upstream by definition.

**Types of the harness** (`TypeCorrect`). Not only types: that no source is ever removed needs the
previous argument once more, for clean and for the logs an interrupt removes (`StepSourcesKept`,
`SimulatesBelow`), and `SourcesAssumption`, that no source lies in a build directory.

**Current results** (`ReportsAreCurrent`, `GreenIsTrue`, `CompiledIsCurrent`). The properties
speak of the end of a command, and are far from inductive: a
log, an output and its record may stem from any earlier version of the script. `ReportInv` has
three layers. `FaithfulInv` is about the past: if ninja, by its log, would not make an
output again, and its edge is tracked, then the output holds what its command would write now.
It holds under *every* version of the script, since nobody knows which the next command
loads, and survives edits because an edit marks what depends on the file, running
commands included (`Overtaken`). Outputs of edges that are not tracked are covered by `StaleInv`:
when resolving is done, whatever has an input that was written is out of date. `ResolvingRemakes` shows that
this takes in each hardware and each simulation edge, since `resolved.f`, `harness_params.svh`
and `top.f` are inputs of the hardware, and the hardware's outputs those of simulations: the sources a
simulator finds behind file lists need not be told. `MadeInv` is about the present: from when ninja
begins, whatever is wanted and not left to make has nothing left behind it and
is `Fresh`, that is, holds what its command would write now; a running command has read what is
there. It needs `OrderTold` (what a command opens is made before), acyclicity and
that outputs belong to one edge. When ninja has ended, `FreshIsExpected` follows the edges upstream: a set of files each of which
holds what its command would write from the others, sources and generated files included, holds
what would be made from nothing (`Expected`). The rest is bookkeeping: the targets are logs of the experiment
(`TargetsInv`), the report is what was printed (`AnalysedInv`), what a compile
asks for is what the simulations open (`SimulationOpens`, `CompileInv`), with `KeepInv` for
what failed. `ResultsInv` is all of this with the hypotheses, as one formula that TLC checks too.

Recursive definitions, here functions and folds over sequences, are reasoned about by `Counting`:
a set of numbers that contains 0 and with n also n+1 contains all up to N, from the
well-foundedness of strict inclusion. The induction theorems of the library, which take an operator as
parameter, are out of the prover's reach.

### What is only model-checked

* Liveness: `HeadRetires`, `ThresholdDrains`, `FetchProgresses`. The prover does not reason about
  fairness. Their finite counterpart for the memory side, `RequestsAnswered`, is proved.
* `BaselineIsTheAsked`: it depends on the order of names in `harness.lua`, and is false of some (a
  parameter set listed after one whose name contains it). The baseline is the first of a
  list filtered by `SelectSeq`, whose definition is recursive and out of the prover's reach.
* That the scripts of this repository satisfy `Scripts`: the run evaluates it on small ones, built
  from the same calls.
* The refuted properties of section 5.

## 5. Where the code and its words disagree

1. **A trap can empty a full store buffer** (`full_flush`,
   `store_buffer.sv:113-118`). The flush recomputes the count from
   `commit_ptr` and `head_ptr`. When all DEPTH slots are committed the pointers
   are equal and the count becomes 0, while the comments at lines 102-105 promise
   that only speculative entries go. It takes DEPTH committed stores that have not drained,
   for instance behind a long miss, and then a trap.
2. **A fence can wait for a store that waits for it** (`fence_deadlock`,
   `gandul.sv:109`). The fence is committed when the store buffer is *empty*; a
   younger store that has been decoded holds a slot and cannot drain before it is
   committed, behind the fence.
3. **A trap can wait for room that only it can make** (`full_rob_deadlock`,
   `gandul.sv:110`). `rob_can_commit_xcpt` includes the reorder buffer being
   ready for an issue. With 8 entries and a muldiv delay of 6 a division by zero
   is overtaken by enough instructions to fill the buffer.
4. **A trap can be lost** (`lost_trap`, `gandul.sv:316`). When the instruction cache
   answers and a jump is buffered, pc takes the buffered target; a redirect requested in
   that very cycle is neither taken nor buffered. If it is the reorder buffer's trap, the
   pipeline is squashed and fetch goes on at the target of a branch that should
   not have been executed. The run `front_end` excludes just this coincidence
   (`TRAP_ON_ANSWER = FALSE`).

Two more were met and have no run of their own:

* **A trap can wait for a younger load** (`gandul.sv:110`, `stage_4m.sv:216`).
  While a load waits for a partly overlapping store to drain no exception is
  committed. If an older instruction is the one that excepts, the store is never
  committed. `HeadRetires` fails on the mix of a division by zero, a store to one
  byte and a load of the half-word around it.
* **A fetch exception is raised on an abandoned path** (`stage_2d.sv:76`,
  `gandul.sv:357`). `xcpt_2d_o` takes the exception of a fetched instruction
  without looking at `noop_i` and `noop_q`, and `trap_valid_1f` looks at
  `misprediction` but not at `rob_trap_valid`. A misaligned address fetched in the
  cycle in which an older instruction traps, or held in decode while it is
  squashed, still enters the reorder buffer as an exception and traps a second
  time, from within the handler. `RaisesInOrder` holds of illegal
  instructions only; extended to fetch exceptions it fails on the program of
  the run `front_end`.

In the harness, met while modelling and without a run of their own:

* **"ALL TESTS PASSED!" does not mean that all tests ran** (`main.rs:96`,
  `analysis.rs:36-38, 111`). The result of ninja is thrown away, and the
  analysis skips logs that are not there: if the build of one program fails, the
  others pass and the banner is green. A log of an earlier run is counted as if it
  were of this one. The exit code is 0 in either case, and in `compile` even the
  error that `run_ninja` raises is dropped (`main.rs:133`). `GreenMeansPassed` is
  therefore conditional on `failed = {}`.
* **Everything is rebuilt** (`hw.rs:61-98`). `harness/README.md:21` says that only
  changed components are rebuilt, but each command writes `harness_params.svh`,
  `resolved.f` and `top.f` again, so each hardware configuration the targets need is
  compiled and simulated again. It is also what keeps results current: ninja is not
  told of the sources in nested file lists, nor of `run.sh`. The mutant
  `WritesChanged`, which leaves unchanged files alone, violates `ReportIsCurrent`.
* **Exact matches are not exact.** `cli.rs:37` calls `--hw` an exact match;
  `simulate`, `analyze` and `clean` look for it inside a name (`main.rs:84, 158`), so
  that `base` also takes `base_wt`. `clean` ignores `--sim` for simulations, and for hardware
  it ignores the experiment: cleaning one experiment removes the hardware of all.
* **Untracked inputs.** A file that a command opens, that `build.ninja` does not name and
  that the harness does not write is never noticed: the linker script behind
  `$ld`, a file a program includes. Programs stay linked as they were.
* **`sw_deps` go to the action called `link`**, whatever its position; the comment at
  `sw.rs:102` says the first.

## 6. Not modelled, and the plan

`PROJECT.json` gives every component's status. In order of importance:

1. **Operands.** Results in `Rob`, the CAM lookup, the forwarding unit and the
   register file; property: every operand is the value of its youngest older
   producer. CSRs and trap capture with it.
2. **Pure algorithms.** Decoder, ALU, byte masks and sign extension against
   reference definitions.
3. **Around the core.** Hazard units of `rv_pa2` and `rv_pa3`, the FIFO example
   and the golden model's step.

Left out for good: RTL test benches and simulator glue (`tb`, `sim`), test
programs, tool chains and wave-viewer layouts; of the harness, what only prints
(tables, waveform paths, cycle counts and speedups, shell completions) and the
pure helpers of the Lua table (`list_files`, `abspath`, `pwd`). `detect_proj_root`
and `discovery.rs` are not called by anything.
