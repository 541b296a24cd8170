# Verification of the Raspberry Pi CPU emulator

TLA+ models of the CPU emulator driver, the trace collector driver and the
userspace programs (assembler, execution client, cache simulator) of this repository, TLC configurations that check them on small
instances, and TLAPS proofs of their main invariants. Paths below are relative to
`src/`.

## 1. The system

| Part | State | Operations | Talks to |
|---|---|---|---|
| CPU driver, control (`cpu_driver/cpu_emulator_driver.c`) | atomics `cpu_running`, `cpu_paused`, `step_count`; wait queue `exec_wq` | `run_irq_thread`, `pause_irq_thread`, `step_irq_thread`, `cpu_open`, the wait in `cpu_read` | GPIO lines by interrupts, clients by system calls |
| CPU driver, execution (same file) | per open file: registers, pc, flags, pending transfer, pending instruction | `cpu_write`, `cpu_read`, `execute_instruction` | the client that issues instructions; LEDs and devices |
| Execution client (`userspace/src/cpu_emulator_userspace.c`) | `memory[]`, the next instruction, the driver's last answer | `run` | both devices |
| Trace collector (`trace_collector_driver/trace_collector_driver.c`) | list of chunks, write and read positions, a mutex | `trace_write`, `trace_read`, load, unload | client (writes), cache simulator (reads) |
| Module load and unload (both drivers) | interrupt lines, device number, cdev, class, device | `cpu_init`, `cpu_exit`, `trace_init`, `trace_exit` | kernel |
| Assembler (`userspace/src/assembler.c`) | label table, growing instruction array | two passes, `store_machine_code` | fills `memory[]` |
| Cache simulator (`userspace/src/cache_simulator.c`) | up to three cache levels, the trace | `load_traces`, `cache_access`, replacement | reads `/dev/trace_collector` |
| `main` | | assemble, store, run, simulate | |

The hard parts: three interrupt threads, openers and readers share three atomics
without a lock; an instruction that touches memory is split over several system
calls of two processes' worth of state; the trace list is walked by a reader while
writers extend it; every call may fail half-way. `PROJECT.json` lists these
hazards line by line.

What makes each part correct:

- control: a paused CPU executes no more than the presses allow; the flags follow
  the switches; nobody sleeps through a wake-up;
- execution: driver and client together behave like one machine; accesses stay in
  `memory[]`; branches follow the last comparison;
- trace collector: one log, handed out once and in order, no entry that was never
  written, no path that keeps the mutex;
- load and unload: what is acquired is given back;
- assembler: machine code says what its line says, branches reach their labels,
  the arrays have room for every instruction and the HALT;
- cache simulator: what is simulated has no gap, the figures add up, each policy
  keeps the lines it should.

## 2. Modules

### CpuControl

State: the level of each line, the latched edges (`pend`), the position of each
interrupt thread (`thr`) and client (`pc`), the three atomics, `cpu_open`'s `val`,
and `awake`, whether a queued waiter was woken. Every atomic access, GPIO read and
wake-up is an action, so they interleave as they do in the kernel; only the
acknowledgement of an edge and the handler's first read are one step (an edge in
between would run the handler once more with the same level).
`wait_event_interruptible` is modelled by what it does: queue, evaluate the
condition one `atomic_read` at a time, sleep unless woken since queueing. The rest
is history: what happened in the current pause (`tokens`, `inflight`, `done`), why
a client passed the wait (`via`), and whether a reading of the pause switch was
overtaken by an edge (`moved`, `stale`).

A GPIO read returns the level or a code of `GpioErrors`, because the code treats
the error differently everywhere: it counts as "on" in the handlers, fails
`cpu_open` for the run switch, and is stored in `cpu_paused` for the pause switch.

### TraceBuffer and TraceLog

`TraceBuffer` has the fields of `trace_buffer`, the chunk list as a sequence of
sequences (each as long as the chunk's `count`; an entry past it is `Uninit`), the
mutex, and the locals of each call. `trace_write` is the actions WriteCall to
WriteUnlock, `trace_read` is ReadCall to ReadUnlock; `kmalloc` may fail
(PushNoMem), `copy_to_user` may fail (ReadFault). `Reload` is unload and load.
`TraceLog` is what the device promises: a log and the number of entries handed
out, each read an atomic step that a fault may cut short; `FullBatch` adds that
nothing else does. The refinement mapping counts entries as taken when
the read returns (`Taken`).

### Words, CpuIsa, Memory, Emulator, CpuSpec

`Words` has numbers in digits: powers, the number with given digits, a digit of a
number. The loops over bytes and the bitwise operators are written with them, as
recursive functions, because the prover knows nothing of `2^n`; `MCEmulator`
compares them with `^` and with the module Bitwise. `CpuIsa` is `execute_instruction` as operators over words of any width (64 bits in
the code): wrapping arithmetic, the cast to signed, the u8 in which the input level
is stored. `Memory` has the byte memory, little-endian words, instruction fetch and
`store_machine_code`. `Emulator` is one run of a program: the loop of `run()` and
the driver's `cpu_write` and `cpu_read`, with every call that can fail, the
registers that are not checked (`oops` stands for a NULL dereference in the
kernel) and a fetch outside of `memory[]` (`crash`; what such a fetch returns in
the C program is undefined, the model stops there, and so does the machine of
CpuSpec). The wait in `cpu_read` is
CpuControl's subject; here it only may be ended by a signal.

`CpuSpec` is the machine a programmer sees: one step per instruction, loads and
stores and trace entries included. It is written independently of `CpuIsa` where
control flow, flags and addressing are concerned and shares the word arithmetic.

### ModuleLoad

The acquisitions of both init functions in order, any of which may fail, and what
each failure gives back. `class_create` and `device_create` fail with an error
pointer (kernel interface, external).

### Assembler

`parse_assembly` and `main`. The source file is a sequence of lines, a line being
what one `fgets` returns: empty (blank or only a comment), a label, or an
instruction with its mnemonic, its words and whether a space follows the last one
(as before most comments). A word is what its characters denote: a register, an
address in brackets, a number, or a name. The last line may or may not end with a
newline, which decides whether the loops run once more (`Iterations`).

One action is one iteration of a pass. FirstPass fills the label table (the last
definition wins). An iteration of the second pass first makes room (`Grown`), then
skips the line (SkipLine) or splits and parses it (ParseLine): `split_by_char`
finds a single operand in the second or in the third part depending on the
trailing space, and `parse_line` has the defaults, the modes and the order of
assignments of the code. Every allocation may fail: some failures are reported
(`failed`), some dereference NULL (`crash`), and a failing `substring` looks like
a missing operand and yields another instruction (`damaged`, history). Then the
phases of `main`: store, run (Emulator), free, simulate (CacheSim). `HandsOverProgram`
joins the two modules: whatever was damaged on the way, what is run has one
instruction for each line of an instruction, in the order of the lines and with the
text of its line; the fields fit, and memory holds the program and the HALT and is
zero elsewhere, as Emulator's `ProgramsAssumption` and `Init` have it. What a
damaged instruction itself says is left to `parse_line`.

### CacheSim

`run_cache_sim`: the dialogue (one action per question; an invalid number is
stored and asked for again; at the end of input the loop never ends, `spin`),
`load_traces` over batches of any length with a growing array, and the simulation,
one action per access, through the levels it reaches. Shifts and masks by powers
of two are divisions and remainders. `lost` (what a failing `realloc` threw away)
and `seen` (the lines looked up in each level) are history. What the batches
contain is TraceLog's promise. `MinMisses` is the reference for the replacement
policies: the fewest misses over all choices of victims, by recursion over the
lines still to come and the set of lines present.

## 3. Runs

| Run | Result | What it shows |
|---|---|---|
| `control_one` | pass | with failing GPIO reads: ranges, the client's step budget, the tick branch means "running", no lost wake-up |
| `control_two` | pass | step budget and switch coherence with two racing clients, and their inductive forms; a sleeper whose condition holds has a wake-up coming |
| `control_total` | violation | one press, two readers, two instructions |
| `control_start` | violation | `cpu_open` undoes a run switch turned on while it runs |
| `trace` | pass | chunk list, mutex, no uninitialised entry, full batches, refinement of TraceLog, every call returns, all with failures |
| `emulator` | pass | driver and client stay in step whatever fails; loads and stores in bounds, and a program that fits only left by a branch; JE, JG, JL against the words compared; refinement of CpuSpec by every program, up to a failed call |
| `emulator_null` | violation | NULL register dereferenced |
| `load_clean` | pass | unloaded modules hold nothing (or, after a failed `chrdev_init`, all interrupt lines) |
| `load_report` | violation | failing `class_create` or `device_create` not reported |
| `cache` | pass | accepted parameters are usable, traces without a gap, figures add up, sets well formed, LRU against its definition, no level better than the best choice of victims, the optimal policy as good as that in one set |
| `cache_opt` | violation | with two sets the optimal policy is not optimal |
| `assembler` | pass | room in the arrays, what is fetched against what was assembled, machine code against the line, branches against labels, one instruction in memory for each instruction line whatever was damaged, crashes only on an operation without operands |

A violation run states what a comment, a message or the README of the repository
says and shows a behaviour of the code that does not; `PROJECT.json` quotes the
line. Three smaller disagreements appear as conditions of passing properties:
`AccessInBounds` limits crashes to far branches only for programs that
`store_machine_code` accepts, since one that is "Not enough memory to store
instructions" (`assembler.c:534`) runs all the same; `BranchesFollowCompare` orders words whose difference is representable, since
a CMP that overflows sets no flag although `README.md:27` lists `OF`; and a step
token may outlive its pause, which the budget of the next pause includes, so the
comment "We got through because of a step press" (`cpu_emulator_driver.c:690`) does
not always hold.

In the assembler, `DecodesAsWritten` is about lines that have a form in the
instruction set. Others are assembled without a message: a store of a number
(`MOV [a], 1`) becomes a store of the register with that number, an instruction on
the line of a label is dropped, a label that is not defined gives a branch out of
memory (`BranchesReachLabels` states it), and an operation alone on its line, such
as `HALT`, crashes the assembler.

### Bounds

- `MaxEdges` counts changes of a line (presses and releases alike): 4 with one
  client are pause, press, release and a second press, or a pause with a press left
  over, its end and the next pause; 3 with two clients give every race of both with
  a run, a pause and a step edge; the lines start at any level, so `control_start`
  needs 1.
- Chunks of 2 entries, up to 4 entries, reads of 1 or 3: a read ends inside a
  chunk, at its end, and in the next chunk; a chunk is exhausted before and after
  it has a successor. Entries are two model values, so order is visible.
- Bytes of 6 bits and words of 2 bytes (Emulator, Assembler): opcodes fit a byte,
  addresses fit a word, and a word still takes several bytes. 28 bytes of memory
  hold the longest program of the emulator run and a data word below `MMIO_START`.
  Programs are all pairs from a repertoire with every opcode, mode and error,
  triples from a smaller one, comparisons of words at both ends of the signed and
  unsigned range, a program too large for memory and one that branches to an
  undefined label; `MaxIssued` = 5 instructions lets loops return.
- Assembler: all files of up to 5 lines from two labels, two branches (one with a
  trailing space), an instruction and an empty line; and every mnemonic with up to
  two words of eight. Arrays start at 2 entries and grow twice; four instructions,
  the HALT included, still fit into memory, five do not.
- CacheSim: lines of 2 bytes, up to 2 ways, a first level of up to two sets of two
  ways and up to two more levels of one set of two ways or two of one; traces of up
  to 6 accesses, the shortest in which a wrong optimal victim costs a miss (up to 5
  with three levels, `MaxTracesForThree`), to 4 lines. Three of them share a set of
  the first level: it replaces lines while accesses to the other set come between,
  and all four compete in a level of one set. Traces are read in batches of 1 or 2
  into an array that starts at 2 and grows twice.
- `MaxLoads` = 3 per module: load, failing load, load again.

TLC does not check deadlock in Emulator, Assembler and CacheSim (the program ends)
and ModuleLoad (the bound on loads). Everywhere else it does.

### Fairness

`CpuControl`: weak fairness of each interrupt thread and of each client's steps
inside the driver, since the kernel schedules runnable threads; none for the user
or for the userspace program (opening, reading, closing, signals, switches).
`TraceBuffer`: strong fairness of taking the mutex, because a kernel mutex hands
over to a waiter, and weak fairness of its holder; none for making calls.

`NoLostWakeup` is checked for one client. A second client's `cpu_open` changes
`cpu_running` and `cpu_paused` without waking the queue, so with two clients a
sleeper may miss it until the next edge; the code has no statement about several
clients to hold this against. `SleepersHaveWaker` says that nothing else can go
wrong: for any number of clients, a sleeper whose condition holds has a handler
about to wake it, unless a `cpu_open` wrote the flags since the last wake-up.

## 4. Proofs

Every safety property of a passing run is a theorem about the
specification, for every value of the constants that the modules' assumptions
allow, and so are both refinements. Each proof has the same plan: an inductive
invariant, a lemma per action (or group of actions) that keeps it, and the theorem
from these by temporal logic.

`CpuControlProofs` (any set of clients, any number of edges):

- `TypeCorrect`: `Spec => []TypeOK`, with `cpu_running` in {0, 1} although GPIO
  reads may return error codes.
- `StepBudgetHolds`, `BudgetInvHolds`: StepBudget is not inductive: it says
  nothing of readers between the wait and the execution. `BudgetInv` adds that
  what is left of each client's budget covers the tokens still in `step_count`,
  one instruction for a reader past the wait, and one more than `step_count` for
  a reader past the token test. It holds per client and not for all together,
  which is what `control_total` shows.
- `PauseCoherentHolds`, `PauseInvHolds`: from `GpioErrors = {}`. `PauseInv` adds
  that what a handler or an opener is about to store is the level of the switch,
  unless an edge is latched or has overtaken the opener. (An error code is stored
  like a level, so with failing reads the property is false.)
- `SleepersHaveWakerHolds`: `Stuck` covers, besides a sleeper, a reader about to
  sleep on a reading of `cpu_paused` that is out of date; with it the invariant is
  inductive.
- `DelayMeansRunningHolds`: from a single client, which is what makes it true:
  another reader may take the token between the wait and the branch. `DelayInv`
  adds that a reader let through by a token still has it.

`TraceBufferProofs` (any processes, entries, chunk size, read sizes):

- `TypeCorrect`, `MutualExclusionHolds`, `ChunkShapeHolds`, `NoUninitReadHolds`
  are the parts of `SafeInv`, inductive only together: a reader moves to the next
  chunk without looking at its count (NoUninitRead), which is right because only
  the last chunk can be empty and only during a push (ChunkShape), and a push
  excludes a reader (MutualExclusion); the entries it returns are then real ones
  (TypeOK).
- `LogIsChunksHolds`, `BatchIsNextHolds`, `FullBatchHolds` are the parts of
  `DataInv`, together with `WantShape` (how much a reader still wants): the entry
  at a read position is found by division of the position by the chunk size, which
  needs all earlier chunks to be full.
- `ImplementsLogHolds`: the device implements TraceLog. Only the return of a read,
  the push and the reload are steps of the log; everything else stutters.

`WordsProofs` has what the next two need of numbers: the least element of a set of
naturals and induction over sets (`SetInduction`; induction over a formula is out
of the prover's reach, over the set of numbers that satisfy it is not), the laws of
powers, quotients, and that a number is made of its digits (`DigitsOfNumber`).
`MemoryProofs` has memory: a word that is written is read back, and
`FetchesWhatIsStored`: each instruction that `store_machine_code` stored is fetched
at its address, for any widths.

`EmulatorProofs` (any programs, inputs, widths and address map):

- `EmulatorTypes`, `DriverClientAgreeHolds`, `AccessInBoundsHolds` from `RunInv`.
  The types need every case of `execute_instruction` to give back a CPU
  (`ExecIsOK`). DriverClientAgree speaks of one phase; `PcAgrees` (the client's
  copy of the pc is the driver's while the run lasts) and `SentIsFetched` (what is
  sent is what memory holds at that pc) carry it around the loop. `Reaches` has
  the addresses still to be used; `NextFits` is the arithmetic of the instruction
  just past the program.
- `BranchesFollowCompareHolds`: `FlagsInv` relates the flags to the words of the
  last CMP; `SignedDiffIs` is the arithmetic of the wrapped difference.
- `ImplementsMachineHolds`: the refinement of CpuSpec. `BarRegs`, `BarMem` and
  `BarLog` are the machine's registers, memory and log. An Exec is the machine's
  step, one lemma per instruction (`ComputeStep` to `OutputStep`, `MachineLoads`,
  `MachineStores`, `MachineHalts`), or its end (`MachineStops`, with `IllegalIs`:
  what the driver refuses is not legal for the machine either); the client's steps
  that follow do what the machine counts as done (`ClientServes`). `MachineInv`
  adds that the flags are one of the three combinations of a CMP, since the
  machine's branches look at all flags and the driver's at one or two.

`AssemblerProofs` (any source files):

- `ArraysAlwaysHold` from `RoomInv`: while a pass runs there is room for one more
  instruction than have been read, since the array grows before a line is read.
- `OnlyBareOperationsCrashHolds`.
- `DecodesAsWrittenHolds`, `BranchesReachLabelsHolds` from `ProgramInv`: each
  label's address is the number of instruction lines before its last definition
  among the lines read, each instruction comes from the line its text names, and
  the n-th instruction from the n-th instruction line.
- `FetchesStoredHolds`, `HandsOverProgramHolds`: `CodeInv` adds that all parts of an
  instruction fit their bytes, whichever allocations fail, that the HALT is the last
  one, and that memory was all zero before; the rest is `FetchesWhatIsStored`. The
  address of a label fits a word only if the program fits in memory (`CodeFits`).
  That each instruction stands for its own line comes from `ProgramInv`, and
  `InstrLinesCount` counts the lines.

`CacheSimProofs` (any line sizes that are powers of two, any answers and traces):

- `AcceptedIsUsableHolds` from `Config`: what has been accepted so far satisfies
  the tests of its questions; a level's size then leaves a power of two of sets.
- `TracesHaveNoGapHolds` from `LoadInv`: doubling once per batch is enough because
  a batch is never longer than the array.
- `ReportAddsUpHolds` from `CountInv`.
- `SetsWellFormedHolds` from `SetInv`, `LruKeepsRecentHolds` from `LruInv`: the
  time of use of each line orders the lines of a set as the last positions at which
  they were looked up; the victim is then the line that falls out of the most
  recent ones.
- `NoLevelBeatsOptimalHolds` from `BeatInv`: whatever lines are still to come, the
  best choices on the whole miss no more often than this level has and the best
  choices from the lines that it holds now will. An access either finds its line, or
  brings it in and gives up at most one other (`OneWrite`, `AccessHeld`); no such
  choice, needed or not, does better than the least that MinMisses takes
  (`AnyChoice`).
- `OptimalInOneSetHolds` from `OptInv`: the misses counted and the fewest still to
  come, from the lines held, add up to the fewest of the whole trace. That holds at
  each step because the line used last is the best one to give up (`BestStep`),
  and `find_optimal_victim` takes it (`VictimUsedLast`). The argument is an exchange
  (`Exchange`): of two sets of lines that differ in one, the set whose line is used
  sooner has no more misses still to come, and one line more never adds a miss
  (`More`). Both are inductions from the end of the trace, over the set of positions
  from which the claim holds for all sets of lines (`SetInduction`).

`ModuleLoadProofs`: `CleanWhenUnloadedHolds` for any number of loads, from what
each driver holds at each step of its plan (`CpuInv`, `TraceInv`).

Assumptions are those of the modules, and TLC evaluates them on every run:
`GpioErrors` are negative numbers; chunk and read sizes are positive; `NoProc` and
`Uninit` differ from every process and entry; a byte has at least six bits (the
opcodes go up to 36) and a word at least one byte; device addresses are distinct
words from `MMIO_START` on; memory has room for a word at every address below
`MMIO_START` and for one instruction; a word can address an instruction more than
memory has (assembler only, where an undefined label must point outside); programs
are sequences of instructions and files sequences of lines; the first capacity is
at least 2 (assembler) or a batch (cache simulator); every line size times the
greatest associativity is an accepted size.

Only model-checked: the liveness properties `NoLostWakeup` and `EveryCallReturns`
(fairness and ENABLED are outside of what the prover does here). That the recursive
functions of `Words` are `2^n` and Bitwise's operators is compared on small numbers
by `MCEmulator`. The properties of the violation runs are false.

## 5. Not modelled

- `uthash.h` (vendored), Makefiles, `run.sh` (its rmmod/insmod sequence is a
  behaviour of ModuleLoad), log messages and tables.
- Timing: `pause()`, `msleep` and the clock speed are steps without duration.
- `memory_order` subtleties: the atomics are sequentially consistent in the model;
  none of the properties depends on two of them being seen out of order.
- The `int` in which the client keeps an instruction's index: a pc beyond it is
  outside of `memory[]` already.
- Several clients executing instructions on one open file.
- Characters: lines longer than `MAX_LEN` (the rest is a line of its own in both
  passes), label names longer than 63 characters (cut when stored, so such a label
  is never found), the conversion of digits, and the path that `main` builds.
- The width of the cache simulator's timer and counts: a trace that wraps 32 bits
  does not fit into the memory of the device.

## 6. What could follow

1. CacheSim: the optimal policy as it would be with a victim search per set, next to
   the code's, to count the misses that the search over all sets costs.
2. CpuControl: which of the agreements between flags and switches survive a second
   client's `cpu_open`, for each kind of GPIO error.
3. Emulator: several clients on one open file.
