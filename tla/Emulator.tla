------------------------------ MODULE Emulator ------------------------------
(***************************************************************************)
(* One run of a program: the execution client (run() of                    *)
(* cpu_emulator_userspace.c) and its conversation with the CPU driver      *)
(* (cpu_open, cpu_write, cpu_read) and the trace collector.  The driver    *)
(* keeps registers and pc, the client keeps memory: an instruction that    *)
(* touches memory takes a read, a write and a trace call, and any of the   *)
(* calls may fail.  The run/pause/step gate inside cpu_read is the subject *)
(* of CpuControl; here it only delays, and a signal may end the wait.      *)
(***************************************************************************)
EXTENDS Memory

CONSTANTS
  Programs,  \* the assembled programs, without their final HALT
  Inputs,    \* what gpiod_get_value(input_dev) may return
  MayFail,   \* whether calls may fail and signals may arrive
  MaxIssued  \* bound: instructions the client sends to the driver

ASSUME ProgramsAssumption == Programs \subseteq Seq(Instruction)
ASSUME InputsAssumption == Inputs \subseteq Int
ASSUME BoundsAssumption == MayFail \in BOOLEAN /\ MaxIssued \in Nat

VARIABLES
  \* The driver: cpu_context of the open file, and the devices.
  cpu,
  pending_instruction,
  leds,
  output_dev,
  \* The client.
  memory,
  count,      \* number of instructions, HALT included
  write_buf,  \* write_buf.instruction: what is sent next
  read_buf,
  i,          \* index of the instruction being executed
  phase,
  \* The trace collector: the accesses it has stored (see TraceBuffer).
  trace,
  issued,     \* instructions sent so far
  failed,     \* history: some call has failed, or a signal ended the run
  compared    \* history: the two words of the last CMP

driver == <<cpu, pending_instruction, leds, output_dev>>
client == <<memory, count, write_buf, read_buf, i>>
history == <<failed, compared>>
vars == <<driver, client, phase, trace, issued, history>>

Phases == {"closed", "issue", "exec", "load", "loadTrace", "store", "fetch",
           "halted", "broken", "failed", "killed", "oops", "crash"}

NoCompare == <<>>
NoInstr    == [opcode |-> 0, mode |-> 0, operand1 |-> 0, operand2 |-> 0]

ReadValue == [pc : Word, mem_addr : Word, val : Word,
              exec_return : {EXEC_SUCCESS, EXEC_HALT, EXEC_PENDING_MEM_READ,
                             EXEC_PENDING_MEM_WRITE, EXEC_PENDING_MMIO_READ}]

Init ==
  /\ cpu = ZeroCpu
  /\ pending_instruction = NoInstr
  /\ leds = [r \in Regs |-> FALSE]
  /\ output_dev = 0
  /\ \E prog \in Programs :
       /\ memory = store_machine_code(Memory0, Append(prog, halt_instr))
       /\ count = Len(prog) + 1
  /\ write_buf = NoInstr
  /\ read_buf = [pc |-> 0, mem_addr |-> 0, val |-> 0, exec_return |-> EXEC_SUCCESS]
  /\ i = 0
  /\ phase = "closed"
  /\ trace = <<>>
  /\ issued = 0
  /\ failed = FALSE
  /\ compared = NoCompare

-----------------------------------------------------------------------------
Go(from, to) == phase = from /\ phase' = to

Failure == MayFail /\ failed' = TRUE

\* write(fd_cache_sim): the entry is stored, or the failure is ignored.
Record(addr, type) ==
  \/ trace' = Append(trace, mem_access(addr, type)) /\ UNCHANGED failed
  \/ Failure /\ UNCHANGED trace

\* Both devices are opened and the first instruction is fetched.
Open ==
  /\ Go("closed", "issue")
  /\ write_buf' = fetch_next(memory, 0)
  /\ Record(0, READ)
  /\ UNCHANGED <<driver, memory, count, read_buf, i, issued, compared>>

OpenFails ==
  /\ Failure
  /\ Go("closed", "failed")
  /\ UNCHANGED <<driver, client, trace, issued, compared>>

\* The loop's write: cpu_write with is_instruction set.
Issue ==
  /\ issued < MaxIssued
  /\ issued' = issued + 1
  /\ Go("issue", "exec")
  /\ i' = read_buf.pc \div INSTR_SIZE
  /\ pending_instruction' = write_buf
  /\ UNCHANGED <<cpu, leds, output_dev, memory, count, write_buf, read_buf, trace, history>>

IssueFails ==
  /\ Failure
  /\ Go("issue", "broken")
  /\ i' = read_buf.pc \div INSTR_SIZE
  /\ UNCHANGED <<driver, memory, count, write_buf, read_buf, trace, issued, compared>>

-----------------------------------------------------------------------------
(***************************************************************************)
(* The loop's read: cpu_read executes the pending instruction.             *)
(***************************************************************************)

\* read_value: val is filled in for a pending store and for an input.
Result(o) ==
  [pc |-> o.cpu.pc,
   mem_addr |-> IF o.ret \in {EXEC_PENDING_MEM_READ, EXEC_PENDING_MEM_WRITE}
                THEN o.cpu.pending_mem_addr ELSE 0,
   val |-> CASE o.ret = EXEC_PENDING_MEM_WRITE -> o.cpu.regs[o.cpu.pending_reg_idx]
             [] o.ret = EXEC_PENDING_MMIO_READ -> o.cpu.pending_mmio_read
             [] OTHER -> 0,
   exec_return |-> o.ret]

\* Mutant: an off-by-one in the comparison with the count.
DispatchLate(o) ==
  IF i > count THEN "broken"
  ELSE CASE o.ret = EXEC_HALT -> "halted"
         [] o.ret = EXEC_PENDING_MEM_READ -> "load"
         [] o.ret = EXEC_PENDING_MEM_WRITE -> "store"
         [] OTHER -> "fetch"

\* Where the client goes on: the count is only compared after the execution.
Dispatch(o) ==
  IF i >= count THEN "broken"
  ELSE CASE o.ret = EXEC_HALT -> "halted"
         [] o.ret = EXEC_PENDING_MEM_READ -> "load"
         [] o.ret = EXEC_PENDING_MEM_WRITE -> "store"
         [] OTHER -> "fetch"

\* The register of a pending store is dereferenced without the check for NULL.
BadStore(o) == o.ret = EXEC_PENDING_MEM_WRITE /\ o.cpu.pending_reg_idx \notin Regs

Driver(o) ==
  /\ cpu' = o.cpu
  /\ output_dev' = o.out
  /\ leds' = set_diodes(o.cpu, cpu)
  /\ compared' = IF pending_instruction.opcode = CMP /\ o.ret = EXEC_SUCCESS
                 THEN <<cpu.regs[pending_instruction.operand1], Source(cpu, pending_instruction)>>
                 ELSE compared
  /\ UNCHANGED pending_instruction

Outcomes == {execute_instruction(cpu, pending_instruction, v, output_dev) : v \in Inputs}

Exec ==
  /\ phase = "exec"
  /\ \E o \in Outcomes :
       /\ o.ret # EINVAL /\ ~BadStore(o)
       /\ Driver(o)
       /\ read_buf' = Result(o)
       /\ phase' = Dispatch(o)
  /\ UNCHANGED <<memory, count, write_buf, i, trace, issued, failed>>

\* -EINVAL: read() fails and the loop ends.  So does a result that cannot be
\* copied to the client, after the instruction was executed.
ExecFails ==
  /\ Go("exec", "broken")
  /\ \E o \in Outcomes :
       /\ ~BadStore(o)
       /\ \/ o.ret = EINVAL /\ UNCHANGED failed
          \/ Failure
       /\ Driver(o)
  /\ UNCHANGED <<client, trace, issued>>

ExecOops ==
  /\ Go("exec", "oops")
  /\ \E o \in Outcomes : BadStore(o) /\ Driver(o)
  /\ UNCHANGED <<client, trace, issued, failed>>

\* A signal ends the wait; the client has no handlers.
Killed ==
  /\ Failure
  /\ Go("exec", "killed")
  /\ UNCHANGED <<driver, client, trace, issued, compared>>

-----------------------------------------------------------------------------
(***************************************************************************)
(* The client services the result.                                         *)
(***************************************************************************)

\* EXEC_PENDING_MEM_READ: cpu_write stores the word in the pending register.
LoadWord ==
  LET idx == cpu.pending_reg_idx
      new == [cpu EXCEPT !.regs[idx] = read_from_memory(memory, read_buf.mem_addr)]
  IN
  /\ idx \in Regs
  /\ Go("load", "loadTrace")
  /\ cpu' = new
  /\ leds' = set_diodes(new, cpu)
  /\ UNCHANGED <<pending_instruction, output_dev, client, trace, issued, history>>

\* That cpu_write fails: the client does not look at its result.
LoadLost ==
  /\ Failure
  /\ Go("load", "loadTrace")
  /\ UNCHANGED <<driver, client, trace, issued, compared>>

LoadOops ==
  /\ cpu.pending_reg_idx \notin Regs
  /\ Go("load", "oops")
  /\ UNCHANGED <<driver, client, trace, issued, history>>

LoadTrace ==
  /\ Go("loadTrace", "fetch")
  /\ Record(read_buf.mem_addr, READ)
  /\ UNCHANGED <<driver, client, issued, compared>>

\* EXEC_PENDING_MEM_WRITE
StoreWord ==
  /\ Go("store", "fetch")
  /\ memory' = write_to_memory(memory, read_buf.mem_addr, read_buf.val)
  /\ Record(read_buf.mem_addr, WRITE)
  /\ UNCHANGED <<driver, count, write_buf, read_buf, i, issued, compared>>

\* Mutant: the client follows its own index instead of the driver's pc.
FetchSequential ==
  /\ CanFetch(read_buf.pc)
  /\ Go("fetch", "issue")
  /\ write_buf' = fetch_next(memory, (i + 1) * INSTR_SIZE)
  /\ Record(read_buf.pc, READ)
  /\ UNCHANGED <<driver, memory, count, read_buf, i, issued, compared>>

\* The next instruction.
Fetch ==
  /\ CanFetch(read_buf.pc)
  /\ Go("fetch", "issue")
  /\ write_buf' = fetch_next(memory, read_buf.pc)
  /\ Record(read_buf.pc, READ)
  /\ UNCHANGED <<driver, memory, count, read_buf, i, issued, compared>>

\* The pc is outside of memory[].
FetchCrash ==
  /\ ~CanFetch(read_buf.pc)
  /\ Go("fetch", "crash")
  /\ UNCHANGED <<driver, client, trace, issued, history>>

Next ==
  \/ Open \/ OpenFails \/ Issue \/ IssueFails
  \/ Exec \/ ExecFails \/ ExecOops \/ Killed
  \/ LoadWord \/ LoadLost \/ LoadOops \/ LoadTrace \/ StoreWord
  \/ Fetch \/ FetchCrash

Spec == Init /\ [][Next]_vars

-----------------------------------------------------------------------------
(***************************************************************************)
(* Properties.                                                             *)
(***************************************************************************)

\* Every variable stays in its range.
TypeOK ==
  /\ cpu \in Cpu
  /\ pending_instruction \in Instruction
  /\ leds \in [Regs -> BOOLEAN]
  /\ output_dev \in {0, 1}
  /\ memory \in [Addr -> Byte]
  /\ count \in Nat
  /\ write_buf \in Instruction
  /\ read_buf \in ReadValue
  /\ i \in Nat /\ issued \in Nat
  /\ phase \in Phases
  /\ failed \in BOOLEAN
  /\ compared = NoCompare \/ compared \in Word \X Word
  /\ trace \in Seq([addr : Word, type : {READ, WRITE}])

\* The instruction the driver is about to execute is the one that memory holds
\* at the driver's own pc, whatever failed before: client and driver never drift
\* apart, and a store into the code is seen by the next fetch.
DriverClientAgree ==
  phase = "exec" => /\ i = cpu.pc \div INSTR_SIZE
                    /\ pending_instruction = fetch_next(memory, cpu.pc)

\* Every load and store is inside of memory[], because only addresses below
\* MMIO_START are left to the client.  A program that store_machine_code accepted
\* does not run off the end of memory[] by itself: the instruction just past it is
\* fetched and executed before the count is compared, and the size check allows for
\* that one.  Only a branch to an address outside of memory ends in a crash (or
\* a branch so far that its target wraps to a pc between two instructions).
Fits == count * INSTR_SIZE + INSTR_SIZE <= MEM_SIZE

FarBranch ==
  /\ pending_instruction.opcode \in {JMP, JE, JG, JL}
  /\ read_buf.pc = (pending_instruction.operand2 * INSTR_SIZE) % WordMod

AccessInBounds ==
  /\ phase \in {"load", "store"} => read_buf.mem_addr + WordBytes <= MEM_SIZE
  /\ Fits /\ phase = "crash" => FarBranch \/ read_buf.pc % INSTR_SIZE # 0

Doomed == phase = "load" /\ cpu.pending_reg_idx \notin Regs

Owed ==
  LET next == IF CanFetch(read_buf.pc) THEN <<mem_access(read_buf.pc, READ)>> ELSE <<>> IN
  CASE phase \in {"load", "loadTrace"} /\ ~Doomed -> <<mem_access(read_buf.mem_addr, READ)>> \o next
    [] phase = "store" -> <<mem_access(read_buf.mem_addr, WRITE)>> \o next
    [] phase = "fetch" -> next
    [] OTHER -> <<>>

Status ==
  CASE phase = "closed" -> "ready"
    [] phase = "halted" -> "halted"
    [] Doomed \/ phase \in {"broken", "failed", "killed", "oops", "crash"} -> "stopped"
    [] OTHER -> "running"

Machine == INSTANCE CpuSpec WITH
  regs <- IF phase = "load" /\ ~Doomed
          THEN [cpu.regs EXCEPT ![cpu.pending_reg_idx] = read_from_memory(memory, read_buf.mem_addr)]
          ELSE cpu.regs,
  pc <- cpu.pc,
  fr <- cpu.fr,
  mem <- IF phase = "store" THEN write_to_memory(memory, read_buf.mem_addr, read_buf.val) ELSE memory,
  out <- output_dev,
  log <- trace \o Owed,
  size <- count,
  status <- Status

\* The client and the driver together implement the machine of CpuSpec, for every
\* program and up to the first call that fails.
\* The machine's step happens when cpu_read returns; a load, store or trace entry
\* that the client still owes is counted as done.
ImplementsMachine ==
  Machine!Init /\ [][failed' \/ Machine!Next]_(Machine!specVars)

\* The exact difference of two words fits in a signed word.
Representable(a, b) ==
  LET d == Signed(a) - Signed(b) IN -WordMod <= 2 * d /\ 2 * d < WordMod

\* However long ago the CMP was, and whatever was computed since, exactly one of
\* JE, JG and JL is taken; JE iff the words were equal; and JG or JL as the words
\* were ordered as signed numbers, when their difference is representable.
BranchesFollowCompare ==
  compared # NoCompare =>
    LET a == compared[1]
        b == compared[2]
        taken == {op \in {JE, JG, JL} : Taken(op, cpu.fr)}
    IN /\ \E op \in {JE, JG, JL} : taken = {op}
       /\ JE \in taken <=> a = b
       /\ Representable(a, b) => (JG \in taken <=> Signed(a) > Signed(b))

\* An invalid register is an error of the instruction: it ends the run and is not
\* dereferenced.
NoNullRegister == phase # "oops"
=============================================================================
