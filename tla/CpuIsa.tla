------------------------------- MODULE CpuIsa -------------------------------
(***************************************************************************)
(* The instruction set of the CPU emulator: execute_instruction and its    *)
(* helpers (cpu_emulator_driver.c) over the instruction format of          *)
(* cpu_uapi.h.  Words are the naturals below WordMod (u64 in the driver);  *)
(* the constants give the width of a byte and of a word, and the map of    *)
(* the address space.                                                      *)
(***************************************************************************)
EXTENDS Words

CONSTANTS
  ByteBits,     \* 8
  WordBytes,    \* 8: sizeof(u64)
  MMIO_START,   \* 0xFFF0
  MMIO_INPUT,   \* 0xFFFD
  MMIO_OUTPUT,  \* 0xFFFE
  MMIO_HALT     \* 0xFFFF

ByteMod == Power(2, ByteBits)
WordMod == Power(2, ByteBits * WordBytes)
Word == 0..(WordMod - 1)
Byte == 0..(ByteMod - 1)

ASSUME WidthAssumption == ByteBits \in Nat /\ WordBytes \in Nat \ {0} /\ ByteBits >= 6
ASSUME MapAssumption ==
  /\ {MMIO_INPUT, MMIO_OUTPUT, MMIO_HALT} \subseteq MMIO_START..(WordMod - 1)
  /\ MMIO_INPUT # MMIO_OUTPUT /\ MMIO_OUTPUT # MMIO_HALT /\ MMIO_INPUT # MMIO_HALT

\* Opcodes.
ADD == 0
SUB == 1
AND == 2
OR  == 3
NOT == 4
MOV == 16
CMP == 32
JMP == 33
JE  == 34
JG  == 35
JL  == 36

\* Addressing modes.
IMMEDIATE    == 0
REGISTER     == 1
DIRECT_LOAD  == 2
DIRECT_STORE == 3
LABEL        == 4

\* Execution results.
EXEC_SUCCESS           == 0
EXEC_HALT              == -1
EXEC_PENDING_MEM_READ  == 1
EXEC_PENDING_MEM_WRITE == 2
EXEC_PENDING_MMIO_READ == 3
EINVAL                 == -22

\* opcode, mode and operand1 take a byte each, operand2 a word.
INSTR_SIZE == 3 + WordBytes

Instruction == [opcode : Byte, mode : Byte, operand1 : Byte, operand2 : Word]

Regs == 0..3

\* my_cpu; fr holds the names of the flags that are set.
Cpu == [regs : [Regs -> Word], pc : Word, fr : SUBSET {"ZF", "SF", "CF"},
        pending_mem_addr : Word, pending_reg_idx : Byte, pending_mmio_read : Byte]

ZeroCpu == [regs |-> [r \in Regs |-> 0], pc |-> 0, fr |-> {},
            pending_mem_addr |-> 0, pending_reg_idx |-> 0, pending_mmio_read |-> 0]

-----------------------------------------------------------------------------
(***************************************************************************)
(* Arithmetic of words.                                                    *)
(***************************************************************************)

\* The positions of the ones of a word, and the word of a set of positions.
Positions == 0..(ByteBits * WordBytes - 1)
Ones(w) == {i \in Positions : Digit(2, w, i) = 1}
OfOnes(S) == Digits(2, ByteBits * WordBytes, [i \in Positions |-> IF i \in S THEN 1 ELSE 0])

\* The cast (s64), and the wrapping difference of two words as an s64.
Signed(w) == IF 2 * w < WordMod THEN w ELSE w - WordMod
SignedDiff(a, b) == Signed((a - b) % WordMod)

Alu(op, a, b) ==
  CASE op = ADD -> (a + b) % WordMod
    [] op = SUB -> (a - b) % WordMod
    [] op = AND -> OfOnes(Ones(a) \cap Ones(b))
    [] op = OR  -> OfOnes(Ones(a) \cup Ones(b))
    [] op = MOV -> b

\* Mutant: a zero difference sets the sign flag too.
handle_compare_inclusive(fr, result) ==
  (fr \ {"ZF", "SF", "CF"})
    \cup (IF result = 0 THEN {"ZF"} ELSE {})
    \cup (IF result <= 0 THEN {"SF", "CF"} ELSE {})

\* ZF, SF and CF are set or cleared by the difference; others are kept.
handle_compare(fr, result) ==
  (fr \ {"ZF", "SF", "CF"})
    \cup (IF result = 0 THEN {"ZF"} ELSE {})
    \cup (IF result < 0 THEN {"SF", "CF"} ELSE {})

\* Mutant: JG does not look at the zero flag.
TakenGreaterEqual(op, fr) ==
  \/ op = JMP
  \/ op = JE /\ "ZF" \in fr
  \/ op = JG /\ "SF" \notin fr
  \/ op = JL /\ "SF" \in fr

\* Whether a branch is taken.
Taken(op, fr) ==
  \/ op = JMP
  \/ op = JE /\ "ZF" \in fr
  \/ op = JG /\ "SF" \notin fr /\ "ZF" \notin fr
  \/ op = JL /\ "SF" \in fr

-----------------------------------------------------------------------------
(***************************************************************************)
(* execute_instruction.  input is the level (or the error code) that       *)
(* gpiod_get_value returns, out the level of the output device.            *)
(***************************************************************************)

Outcome(cpu, ret, out) == [cpu |-> cpu, ret |-> ret, out |-> out]

is_mmio(addr) == addr >= MMIO_START

\* The next instruction, in a word that wraps.
NextPc(cpu) == (cpu.pc + INSTR_SIZE) % WordMod

\* get_register succeeds on the registers an instruction with a destination uses.
TwoOperands(i) ==
  /\ i.operand1 \in Regs
  /\ i.mode = IMMEDIATE \/ (i.mode = REGISTER /\ i.operand2 \in Regs)

Source(cpu, i) == IF i.mode = IMMEDIATE THEN i.operand2 ELSE cpu.regs[i.operand2]

Illegal(cpu, out) == Outcome(cpu, EINVAL, out)

\* ADD, SUB, AND, OR, and MOV between registers or from an immediate.
ExecCompute(cpu, i, out) ==
  Outcome([cpu EXCEPT !.pc = NextPc(cpu),
                      !.regs[i.operand1] = Alu(i.opcode, @, Source(cpu, i))],
          EXEC_SUCCESS, out)

\* NOT names its register in operand2.
ExecNot(cpu, i, out) ==
  IF i.mode = REGISTER /\ i.operand2 \in Regs
  THEN Outcome([cpu EXCEPT !.pc = NextPc(cpu), !.regs[i.operand2] = WordMod - 1 - @],
               EXEC_SUCCESS, out)
  ELSE Illegal(cpu, out)

ExecCmp(cpu, i, out) ==
  LET diff == SignedDiff(cpu.regs[i.operand1], Source(cpu, i)) IN
  Outcome([cpu EXCEPT !.pc = NextPc(cpu), !.fr = handle_compare(@, diff)], EXEC_SUCCESS, out)

\* operand2 is the index of an instruction.
ExecBranch(cpu, i, out) ==
  LET target == IF Taken(i.opcode, cpu.fr) THEN (i.operand2 * INSTR_SIZE) % WordMod ELSE NextPc(cpu)
  IN Outcome([cpu EXCEPT !.pc = target], EXEC_SUCCESS, out)

\* A direct load or store below MMIO_START is left to the client.
Defer(cpu, i, ret, out) ==
  Outcome([cpu EXCEPT !.pc = NextPc(cpu), !.pending_mem_addr = i.operand2,
                      !.pending_reg_idx = i.operand1], ret, out)

\* Mutant: the level is not narrowed to a byte.
MmioValueWide(input) == input

\* The level is stored in a u8: an error code is just another value.
MmioValue(input) == input % ByteMod

ExecLoad(cpu, i, input, out) ==
  CASE ~is_mmio(i.operand2) -> Defer(cpu, i, EXEC_PENDING_MEM_READ, out)
    [] i.operand2 = MMIO_INPUT /\ i.operand1 \in Regs ->
         Outcome([cpu EXCEPT !.pc = NextPc(cpu), !.regs[i.operand1] = MmioValue(input),
                             !.pending_mmio_read = MmioValue(input)],
                 EXEC_PENDING_MMIO_READ, out)
    [] OTHER -> Illegal(cpu, out)

\* HALT leaves the pc; the output device takes 0 and 1.
ExecStore(cpu, i, out) ==
  CASE ~is_mmio(i.operand2) -> Defer(cpu, i, EXEC_PENDING_MEM_WRITE, out)
    [] i.operand2 = MMIO_HALT -> Outcome(cpu, EXEC_HALT, out)
    [] i.operand2 = MMIO_OUTPUT /\ i.operand1 \in Regs /\ cpu.regs[i.operand1] \in {0, 1} ->
         Outcome([cpu EXCEPT !.pc = NextPc(cpu)], EXEC_SUCCESS, cpu.regs[i.operand1])
    [] OTHER -> Illegal(cpu, out)

execute_instruction(cpu, i, input, out) ==
  CASE i.opcode \in {ADD, SUB, AND, OR, MOV} /\ TwoOperands(i) -> ExecCompute(cpu, i, out)
    [] i.opcode = NOT -> ExecNot(cpu, i, out)
    [] i.opcode = CMP /\ TwoOperands(i) -> ExecCmp(cpu, i, out)
    [] i.opcode \in {JMP, JE, JG, JL} -> ExecBranch(cpu, i, out)
    [] i.opcode = MOV /\ i.mode = DIRECT_LOAD -> ExecLoad(cpu, i, input, out)
    [] i.opcode = MOV /\ i.mode = DIRECT_STORE -> ExecStore(cpu, i, out)
    [] OTHER -> Illegal(cpu, out)

\* set_diodes: a LED is lit when its register differs from before.
set_diodes(current, prev) == [r \in Regs |-> current.regs[r] # prev.regs[r]]
=============================================================================
