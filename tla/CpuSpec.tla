------------------------------ MODULE CpuSpec -------------------------------
(***************************************************************************)
(* What the CPU emulator promises to the program it runs: a machine that   *)
(* fetches, executes and traces one instruction in one step, loads and     *)
(* stores included.  The split of an instruction between the driver and    *)
(* the client, and the order of their calls, is not visible here.          *)
(***************************************************************************)
EXTENDS Memory

CONSTANTS
  Programs,  \* the assembled programs, without their final HALT
  Inputs     \* what a read of the input device may return

VARIABLES
  regs, pc, fr,
  mem,
  out,      \* level of the output device
  log,      \* the memory accesses, in order
  size,     \* number of instructions of the program
  status    \* "ready", "running", "halted" or "stopped"

specVars == <<regs, pc, fr, mem, out, log, size, status>>

Halt == [opcode |-> MOV, mode |-> DIRECT_STORE, operand1 |-> 0, operand2 |-> MMIO_HALT]

Init ==
  /\ \E prog \in Programs :
       /\ mem = store_machine_code(Memory0, Append(prog, Halt))
       /\ size = Len(prog) + 1
  /\ regs = [r \in Regs |-> 0]
  /\ pc = 0
  /\ fr = {}
  /\ out = 0
  /\ log = <<>>
  /\ status = "ready"

Start ==
  /\ status = "ready"
  /\ \/ status' = "running" /\ log' = <<mem_access(0, READ)>>
     \/ status' = "stopped" /\ UNCHANGED log
  /\ UNCHANGED <<regs, pc, fr, mem, out, size>>

-----------------------------------------------------------------------------
Instr == fetch_next(mem, pc)

\* The pc is on one of the program's instructions, and that is in memory.
InProgram == CanFetch(pc) /\ pc \div INSTR_SIZE < size

\* The access that fetches the instruction at p, if memory goes that far.
Fetching(p) == IF CanFetch(p) THEN <<mem_access(p, READ)>> ELSE <<>>

\* Continue at pc p after the data accesses in the sequence a.
GoOn(p, a) ==
  /\ pc' = p % WordMod
  /\ log' = log \o a \o Fetching(p % WordMod)
  /\ UNCHANGED <<size, status>>

FallThrough(a) == GoOn(pc + INSTR_SIZE, a)

Set(r, v) == regs' = [regs EXCEPT ![r] = v]

Operand == IF Instr.mode = IMMEDIATE THEN Instr.operand2 ELSE regs[Instr.operand2]

Compute ==
  /\ TwoOperands(Instr)
  /\ Instr.opcode \in {ADD, SUB, AND, OR, MOV}
  /\ Set(Instr.operand1, Alu(Instr.opcode, regs[Instr.operand1], Operand))
  /\ FallThrough(<<>>)
  /\ UNCHANGED <<fr, mem, out>>

Negate ==
  /\ Instr.opcode = NOT /\ Instr.mode = REGISTER /\ Instr.operand2 \in Regs
  /\ Set(Instr.operand2, -1 - regs[Instr.operand2] + WordMod)
  /\ FallThrough(<<>>)
  /\ UNCHANGED <<fr, mem, out>>

Compare ==
  /\ Instr.opcode = CMP /\ TwoOperands(Instr)
  /\ LET d == SignedDiff(regs[Instr.operand1], Operand) IN
       fr' = IF d = 0 THEN {"ZF"} ELSE IF d < 0 THEN {"SF", "CF"} ELSE {}
  /\ FallThrough(<<>>)
  /\ UNCHANGED <<regs, mem, out>>

\* The flags a branch tests are those of the last CMP.
Branch ==
  /\ Instr.opcode \in {JMP, JE, JG, JL}
  /\ LET taken == \/ Instr.opcode = JMP
                  \/ Instr.opcode = JE /\ fr = {"ZF"}
                  \/ Instr.opcode = JG /\ fr = {}
                  \/ Instr.opcode = JL /\ fr = {"SF", "CF"}
     IN GoOn(IF taken THEN Instr.operand2 * INSTR_SIZE ELSE pc + INSTR_SIZE, <<>>)
  /\ UNCHANGED <<regs, fr, mem, out>>

\* Direct addressing: memory below MMIO_START, devices above it.
Direct(mode) == Instr.opcode = MOV /\ Instr.mode = mode /\ Instr.operand1 \in Regs

Load ==
  /\ Direct(DIRECT_LOAD) /\ Instr.operand2 < MMIO_START
  /\ Set(Instr.operand1, read_from_memory(mem, Instr.operand2))
  /\ FallThrough(<<mem_access(Instr.operand2, READ)>>)
  /\ UNCHANGED <<fr, mem, out>>

Store ==
  /\ Direct(DIRECT_STORE) /\ Instr.operand2 < MMIO_START
  /\ mem' = write_to_memory(mem, Instr.operand2, regs[Instr.operand1])
  /\ FallThrough(<<mem_access(Instr.operand2, WRITE)>>)
  /\ UNCHANGED <<regs, fr, out>>

Input ==
  /\ Direct(DIRECT_LOAD) /\ Instr.operand2 = MMIO_INPUT
  /\ \E v \in Inputs : Set(Instr.operand1, v % ByteMod)
  /\ FallThrough(<<>>)
  /\ UNCHANGED <<fr, mem, out>>

Output ==
  /\ Direct(DIRECT_STORE) /\ Instr.operand2 = MMIO_OUTPUT
  /\ regs[Instr.operand1] \in {0, 1}
  /\ out' = regs[Instr.operand1]
  /\ FallThrough(<<>>)
  /\ UNCHANGED <<regs, fr, mem>>

Legal ==
  Compute \/ Negate \/ Compare \/ Branch \/ Load \/ Store \/ Input \/ Output

\* HALT, on the address alone: no register takes part.
HaltStep ==
  /\ Instr.opcode = MOV /\ Instr.mode = DIRECT_STORE /\ Instr.operand2 = MMIO_HALT
  /\ status' = "halted"
  /\ UNCHANGED <<regs, pc, fr, mem, out, log, size>>

IsLegal ==
  \/ TwoOperands(Instr) /\ Instr.opcode \in {ADD, SUB, AND, OR, MOV, CMP}
  \/ Instr.opcode = NOT /\ Instr.mode = REGISTER /\ Instr.operand2 \in Regs
  \/ Instr.opcode \in {JMP, JE, JG, JL}
  \/ Direct(DIRECT_LOAD) /\ (Instr.operand2 < MMIO_START \/ Instr.operand2 = MMIO_INPUT)
  \/ Direct(DIRECT_STORE)
       /\ \/ Instr.operand2 < MMIO_START
          \/ Instr.operand2 = MMIO_OUTPUT /\ regs[Instr.operand1] \in {0, 1}
  \/ Instr.opcode = MOV /\ Instr.mode = DIRECT_STORE /\ Instr.operand2 = MMIO_HALT

\* The run ends without HALT only on an instruction that is not legal, or when
\* the pc has left the program.  What that instruction does to the CPU is not
\* promised, but it is neither traced nor given access to memory.
Stop ==
  /\ ~InProgram \/ ~IsLegal
  /\ status' = "stopped"
  /\ UNCHANGED <<mem, log, size>>

Next == Start \/ (status = "running" /\ ((InProgram /\ (Legal \/ HaltStep)) \/ Stop))

Spec == Init /\ [][Next]_specVars
=============================================================================
