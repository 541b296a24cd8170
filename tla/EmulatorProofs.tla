--------------------------- MODULE EmulatorProofs ---------------------------
(***************************************************************************)
(* Theorems about Emulator, for any programs, inputs, widths of bytes and  *)
(* words, and map of the address space.                                    *)
(***************************************************************************)
EXTENDS Emulator, MemoryProofs

-----------------------------------------------------------------------------
(***************************************************************************)
(* The instruction set.                                                    *)
(***************************************************************************)

LEMMA OnesAreWord ==
  ASSUME NEW S
  PROVE  OfOnes(S) \in Word
<1> DEFINE n == ByteBits * WordBytes
           d == [k \in Positions |-> IF k \in S THEN 1 ELSE 0]
<1>1. n \in Nat /\ 2 \in Nat \ {0}
  BY WidthAssumption
<1>2. \A k \in 0..(n - 1) : d[k] \in 0..(2 - 1)
  BY <1>1 DEF Positions
<1> HIDE DEF d, n
<1>3. Digits(2, n, d) \in 0..(Power(2, n) - 1)
  BY <1>1, <1>2, DigitsRange
<1> QED
  BY <1>3 DEF OfOnes, Word, WordMod, n, d

LEMMA AluIsWord ==
  ASSUME NEW op \in {ADD, SUB, AND, OR, MOV}, NEW a \in Word, NEW b \in Word
  PROVE  Alu(op, a, b) \in Word
<1>1. a \in Int /\ b \in Int /\ a + b \in Int /\ a - b \in Int
  BY Widths DEF Word
<1>2. (a + b) % WordMod \in Word /\ (a - b) % WordMod \in Word
  BY <1>1, WrapsToWord
<1>3. OfOnes(Ones(a) \cap Ones(b)) \in Word /\ OfOnes(Ones(a) \cup Ones(b)) \in Word
  BY OnesAreWord
<1>4. Alu(op, a, b) \in {(a + b) % WordMod, (a - b) % WordMod,
                         OfOnes(Ones(a) \cap Ones(b)), OfOnes(Ones(a) \cup Ones(b)), b}
  BY DEF Alu, ADD, SUB, AND, OR, MOV
<1> QED
  BY <1>2, <1>3, <1>4

\* The result of an instruction, one case of execute_instruction at a time.
LEMMA ExecCases ==
  ASSUME NEW c, NEW instr, NEW input, NEW out, NEW o,
         o = execute_instruction(c, instr, input, out)
  PROVE  \/ /\ instr.opcode \in {ADD, SUB, AND, OR, MOV} /\ TwoOperands(instr)
            /\ o = ExecCompute(c, instr, out)
         \/ instr.opcode = NOT /\ o = ExecNot(c, instr, out)
         \/ instr.opcode = CMP /\ TwoOperands(instr) /\ o = ExecCmp(c, instr, out)
         \/ instr.opcode \in {JMP, JE, JG, JL} /\ o = ExecBranch(c, instr, out)
         \/ instr.opcode = MOV /\ instr.mode = DIRECT_LOAD /\ o = ExecLoad(c, instr, input, out)
         \/ instr.opcode = MOV /\ instr.mode = DIRECT_STORE /\ o = ExecStore(c, instr, out)
         \/ /\ \/ instr.opcode \in {ADD, SUB, AND, OR, CMP} /\ ~TwoOperands(instr)
               \/ /\ instr.opcode = MOV /\ ~TwoOperands(instr)
                  /\ instr.mode \notin {DIRECT_LOAD, DIRECT_STORE}
               \/ instr.opcode \notin {ADD, SUB, AND, OR, NOT, MOV, CMP, JMP, JE, JG, JL}
            /\ o = Illegal(c, out)
<1>1. instr.mode \in {DIRECT_LOAD, DIRECT_STORE} => ~TwoOperands(instr)
  BY DEF TwoOperands, DIRECT_LOAD, DIRECT_STORE, IMMEDIATE, REGISTER
<1> QED
  BY <1>1 DEF execute_instruction, ADD, SUB, AND, OR, NOT, MOV, CMP, JMP, JE, JG, JL,
              DIRECT_LOAD, DIRECT_STORE

\* What every instruction does to the CPU, to the output device and to the result.
ExecOK(c, instr, o) ==
  /\ o.cpu \in Cpu
  /\ o.out \in {0, 1}
  /\ o.ret \in {EXEC_SUCCESS, EXEC_HALT, EXEC_PENDING_MEM_READ, EXEC_PENDING_MEM_WRITE,
                EXEC_PENDING_MMIO_READ, EINVAL}
  /\ o.ret \in {EXEC_PENDING_MEM_READ, EXEC_PENDING_MEM_WRITE} => o.cpu.pending_mem_addr < MMIO_START
  /\ \/ o.cpu.pc = NextPc(c)
     \/ instr.opcode \in {JMP, JE, JG, JL} /\ o.cpu.pc = (instr.operand2 * INSTR_SIZE) % WordMod
     \/ o.ret \in {EINVAL, EXEC_HALT}
  /\ IF instr.opcode = CMP /\ o.ret = EXEC_SUCCESS
     THEN /\ instr.operand1 \in Regs
          /\ Source(c, instr) \in Word
          /\ o.cpu.fr = handle_compare(c.fr, SignedDiff(c.regs[instr.operand1], Source(c, instr)))
     ELSE o.cpu.fr = c.fr

LEMMA CpuParts ==
  ASSUME NEW c \in Cpu, NEW instr \in Instruction
  PROVE  /\ NextPc(c) \in Word
         /\ instr.operand1 \in Byte /\ instr.operand2 \in Word
         /\ TwoOperands(instr) => instr.operand1 \in Regs /\ Source(c, instr) \in Word
         /\ \A r \in Regs : c.regs[r] \in Word
<1>1. NextPc(c) \in Word
  <2>1. c.pc + INSTR_SIZE \in Int
    BY Widths DEF Cpu, Word
  <2> QED
    BY <2>1, WrapsToWord DEF NextPc
<1>2. instr.operand1 \in Byte /\ instr.operand2 \in Word /\ \A r \in Regs : c.regs[r] \in Word
  BY DEF Cpu, Instruction
<1>3. TwoOperands(instr) => instr.operand1 \in Regs /\ Source(c, instr) \in Word
  BY <1>2 DEF TwoOperands, Source
<1> QED
  BY <1>1, <1>2, <1>3

\* A register that is given a word leaves a CPU.
LEMMA SetRegister ==
  ASSUME NEW c \in Cpu, NEW r, NEW v \in Word, NEW p \in Word
  PROVE  [c EXCEPT !.pc = p, !.regs[r] = v] \in Cpu
<1>1. [c.regs EXCEPT ![r] = v] \in [Regs -> Word]
  BY DEF Cpu
<1>2. [c EXCEPT !.pc = p, !.regs[r] = v] = [c EXCEPT !.pc = p, !.regs = [c.regs EXCEPT ![r] = v]]
  BY DEF Cpu
<1> QED
  BY <1>1, <1>2 DEF Cpu

LEMMA ComputeOK ==
  ASSUME NEW c \in Cpu, NEW instr \in Instruction, NEW out \in {0, 1},
         instr.opcode \in {ADD, SUB, AND, OR, MOV}, TwoOperands(instr)
  PROVE  ExecOK(c, instr, ExecCompute(c, instr, out))
<1>1. PICK v \in Word : v = Alu(instr.opcode, c.regs[instr.operand1], Source(c, instr))
  BY CpuParts, AluIsWord
<1>2. PICK p \in Word : p = NextPc(c)
  BY CpuParts
<1> DEFINE n == [c EXCEPT !.pc = p, !.regs[instr.operand1] = v]
<1>3. n \in Cpu
  BY SetRegister
<1>4. ExecCompute(c, instr, out) = Outcome(n, EXEC_SUCCESS, out)
  BY <1>1, <1>2 DEF ExecCompute
<1>5. n.pc = p /\ n.fr = c.fr
  BY DEF Cpu
<1> HIDE DEF n
<1>6. instr.opcode # CMP
  BY DEF ADD, SUB, AND, OR, MOV, CMP
<1> QED
  BY <1>2, <1>3, <1>4, <1>5, <1>6
  DEF ExecOK, Outcome, EXEC_SUCCESS, EXEC_PENDING_MEM_READ, EXEC_PENDING_MEM_WRITE

LEMMA IllegalOK ==
  ASSUME NEW c \in Cpu, NEW instr, NEW out \in {0, 1}
  PROVE  ExecOK(c, instr, Illegal(c, out))
BY DEF ExecOK, Illegal, Outcome, EXEC_SUCCESS, EXEC_PENDING_MEM_READ, EXEC_PENDING_MEM_WRITE, EINVAL

LEMMA NotOK ==
  ASSUME NEW c \in Cpu, NEW instr \in Instruction, NEW out \in {0, 1}, instr.opcode = NOT
  PROVE  ExecOK(c, instr, ExecNot(c, instr, out))
<1>1. CASE instr.mode = REGISTER /\ instr.operand2 \in Regs
  <2>1. PICK v \in Word : v = WordMod - 1 - c.regs[instr.operand2]
    <3>1. c.regs[instr.operand2] \in Word
      BY <1>1, CpuParts
    <3>2. WordMod - 1 - c.regs[instr.operand2] \in Word
      BY <3>1, Widths DEF Word
    <3> QED
      BY <3>2
  <2>2. PICK p \in Word : p = NextPc(c)
    BY CpuParts
  <2> DEFINE n == [c EXCEPT !.pc = p, !.regs[instr.operand2] = v]
  <2>3. n \in Cpu
    BY SetRegister
  <2>4. ExecNot(c, instr, out) = Outcome(n, EXEC_SUCCESS, out)
    BY <1>1, <2>1, <2>2 DEF ExecNot
  <2>5. n.pc = p /\ n.fr = c.fr
    BY DEF Cpu
  <2> HIDE DEF n
  <2>6. instr.opcode # CMP
    BY DEF NOT, CMP
  <2> QED
    BY <2>2, <2>3, <2>4, <2>5, <2>6
    DEF ExecOK, Outcome, EXEC_SUCCESS, EXEC_PENDING_MEM_READ, EXEC_PENDING_MEM_WRITE
<1>2. CASE ~(instr.mode = REGISTER /\ instr.operand2 \in Regs)
  <2>1. ExecNot(c, instr, out) = Illegal(c, out)
    BY <1>2 DEF ExecNot
  <2> QED
    BY <2>1, IllegalOK
<1> QED
  BY <1>1, <1>2

LEMMA CmpOK ==
  ASSUME NEW c \in Cpu, NEW instr \in Instruction, NEW out \in {0, 1},
         instr.opcode = CMP, TwoOperands(instr)
  PROVE  ExecOK(c, instr, ExecCmp(c, instr, out))
<1>1. PICK p \in Word : p = NextPc(c)
  BY CpuParts
<1>2. PICK f : f = handle_compare(c.fr, SignedDiff(c.regs[instr.operand1], Source(c, instr)))
  OBVIOUS
<1>3. f \subseteq {"ZF", "SF", "CF"}
  <2>1. c.fr \subseteq {"ZF", "SF", "CF"}
    BY DEF Cpu
  <2> QED
    BY <1>2, <2>1 DEF handle_compare
<1> DEFINE n == [c EXCEPT !.pc = p, !.fr = f]
<1>4. n \in Cpu /\ n.pc = p /\ n.fr = f
  BY <1>3 DEF Cpu
<1>5. ExecCmp(c, instr, out) = Outcome(n, EXEC_SUCCESS, out)
  BY <1>1, <1>2 DEF ExecCmp
<1> HIDE DEF n
<1>6. instr.operand1 \in Regs /\ Source(c, instr) \in Word
  BY CpuParts
<1> QED
  BY <1>1, <1>2, <1>4, <1>5, <1>6
  DEF ExecOK, Outcome, EXEC_SUCCESS, EXEC_PENDING_MEM_READ, EXEC_PENDING_MEM_WRITE

LEMMA BranchOK ==
  ASSUME NEW c \in Cpu, NEW instr \in Instruction, NEW out \in {0, 1},
         instr.opcode \in {JMP, JE, JG, JL}
  PROVE  ExecOK(c, instr, ExecBranch(c, instr, out))
<1>1. PICK t \in Word : t = (instr.operand2 * INSTR_SIZE) % WordMod
  <2>1. instr.operand2 * INSTR_SIZE \in Int
    <3>1. instr.operand2 \in Int /\ INSTR_SIZE \in Int
      BY CpuParts, Widths DEF Word
    <3> QED
      BY <3>1
  <2> QED
    BY <2>1, WrapsToWord
<1>2. PICK p \in Word : p = IF Taken(instr.opcode, c.fr) THEN t ELSE NextPc(c)
  BY CpuParts
<1> DEFINE n == [c EXCEPT !.pc = p]
<1>3. n \in Cpu /\ n.pc = p /\ n.fr = c.fr
  BY DEF Cpu
<1>4. ExecBranch(c, instr, out) = Outcome(n, EXEC_SUCCESS, out)
  BY <1>1, <1>2 DEF ExecBranch
<1> HIDE DEF n
<1>5. instr.opcode # CMP
  BY DEF JMP, JE, JG, JL, CMP
<1> QED
  BY <1>1, <1>2, <1>3, <1>4, <1>5
  DEF ExecOK, Outcome, EXEC_SUCCESS, EXEC_PENDING_MEM_READ, EXEC_PENDING_MEM_WRITE

LEMMA DeferOK ==
  ASSUME NEW c \in Cpu, NEW instr \in Instruction, NEW out \in {0, 1}, instr.opcode = MOV,
         ~is_mmio(instr.operand2), NEW ret \in {EXEC_PENDING_MEM_READ, EXEC_PENDING_MEM_WRITE}
  PROVE  ExecOK(c, instr, Defer(c, instr, ret, out))
<1>1. PICK p \in Word : p = NextPc(c)
  BY CpuParts
<1>2. PICK a \in Word, r \in Byte : a = instr.operand2 /\ r = instr.operand1
  BY CpuParts
<1> DEFINE n == [c EXCEPT !.pc = p, !.pending_mem_addr = a, !.pending_reg_idx = r]
<1>3. n \in Cpu /\ n.pc = p /\ n.fr = c.fr /\ n.pending_mem_addr = a
  BY DEF Cpu
<1>4. Defer(c, instr, ret, out) = Outcome(n, ret, out)
  BY <1>1, <1>2 DEF Defer
<1>5. a < MMIO_START
  BY <1>2, Widths, MemAssumption DEF is_mmio, Word
<1> HIDE DEF n
<1>6. instr.opcode # CMP
  BY DEF MOV, CMP
<1> QED
  BY <1>1, <1>3, <1>4, <1>5, <1>6 DEF ExecOK, Outcome

LEMMA LoadOK ==
  ASSUME NEW c \in Cpu, NEW instr \in Instruction, NEW input \in Int, NEW out \in {0, 1},
         instr.opcode = MOV
  PROVE  ExecOK(c, instr, ExecLoad(c, instr, input, out))
<1>1. CASE ~is_mmio(instr.operand2)
  <2>1. ExecLoad(c, instr, input, out) = Defer(c, instr, EXEC_PENDING_MEM_READ, out)
    <3>1. MMIO_INPUT >= MMIO_START
      BY MapAssumption, MemAssumption, Widths
    <3>2. instr.operand2 # MMIO_INPUT
      BY <1>1, <3>1 DEF is_mmio
    <3> QED
      BY <1>1, <3>2 DEF ExecLoad
  <2> QED
    BY <1>1, <2>1, DeferOK
<1>2. CASE is_mmio(instr.operand2) /\ instr.operand2 = MMIO_INPUT /\ instr.operand1 \in Regs
  <2>1. PICK p \in Word : p = NextPc(c)
    BY CpuParts
  <2>2. PICK v \in Byte : v = MmioValue(input)
    <3>1. PICK b \in Nat \ {0} : b = ByteMod
      BY Widths
    <3>2. input % b \in 0..(b - 1)
      OBVIOUS
    <3>3. MmioValue(input) \in Byte
      BY <3>1, <3>2 DEF MmioValue, Byte
    <3> QED
      BY <3>3
  <2> DEFINE m == [c EXCEPT !.pc = p, !.regs[instr.operand1] = v]
             n == [m EXCEPT !.pending_mmio_read = v]
  <2>3. m \in Cpu /\ m.pc = p /\ m.fr = c.fr
    <3>1. v \in Word
      BY ByteIsWord
    <3>2. m \in Cpu
      BY <3>1, SetRegister
    <3>3. m.pc = p /\ m.fr = c.fr
      BY DEF Cpu
    <3> QED
      BY <3>2, <3>3
  <2>4. n = [c EXCEPT !.pc = p, !.regs[instr.operand1] = v, !.pending_mmio_read = v]
    BY DEF Cpu
  <2>5. ExecLoad(c, instr, input, out) = Outcome(n, EXEC_PENDING_MMIO_READ, out)
    BY <1>2, <2>1, <2>2, <2>4 DEF ExecLoad
  <2> HIDE DEF m
  <2>6. n \in Cpu /\ n.pc = p /\ n.fr = c.fr
    BY <2>3 DEF Cpu
  <2> HIDE DEF n
  <2>7. instr.opcode # CMP
    BY DEF MOV, CMP
  <2> QED
    BY <2>1, <2>5, <2>6, <2>7
    DEF ExecOK, Outcome, EXEC_PENDING_MMIO_READ, EXEC_PENDING_MEM_READ, EXEC_PENDING_MEM_WRITE
<1>3. CASE is_mmio(instr.operand2) /\ ~(instr.operand2 = MMIO_INPUT /\ instr.operand1 \in Regs)
  <2>1. ExecLoad(c, instr, input, out) = Illegal(c, out)
    BY <1>3 DEF ExecLoad
  <2> QED
    BY <2>1, IllegalOK
<1> QED
  BY <1>1, <1>2, <1>3

\* The addresses of the devices are apart from memory and from each other.
LEMMA Devices ==
  /\ is_mmio(MMIO_INPUT) /\ is_mmio(MMIO_OUTPUT) /\ is_mmio(MMIO_HALT)
  /\ MMIO_INPUT # MMIO_OUTPUT /\ MMIO_OUTPUT # MMIO_HALT /\ MMIO_INPUT # MMIO_HALT
  /\ MMIO_HALT \in Word
BY MapAssumption, MemAssumption, Widths DEF is_mmio, Word

\* The cases of a store.
LEMMA StoreCases ==
  ASSUME NEW c, NEW instr, NEW out
  PROVE  LET o == ExecStore(c, instr, out) IN
         \/ ~is_mmio(instr.operand2) /\ o = Defer(c, instr, EXEC_PENDING_MEM_WRITE, out)
         \/ instr.operand2 = MMIO_HALT /\ o = Outcome(c, EXEC_HALT, out)
         \/ /\ instr.operand2 = MMIO_OUTPUT /\ instr.operand1 \in Regs /\ c.regs[instr.operand1] \in {0, 1}
            /\ o = Outcome([c EXCEPT !.pc = NextPc(c)], EXEC_SUCCESS, c.regs[instr.operand1])
         \/ /\ is_mmio(instr.operand2) /\ instr.operand2 # MMIO_HALT
            /\ ~(instr.operand2 = MMIO_OUTPUT /\ instr.operand1 \in Regs /\ c.regs[instr.operand1] \in {0, 1})
            /\ o = Illegal(c, out)
<1>1. instr.operand2 \in {MMIO_HALT, MMIO_OUTPUT} => is_mmio(instr.operand2)
  BY Devices
<1>2. MMIO_OUTPUT # MMIO_HALT
  BY Devices
<1> QED
  BY <1>1, <1>2 DEF ExecStore

LEMMA StoreOK ==
  ASSUME NEW c \in Cpu, NEW instr \in Instruction, NEW out \in {0, 1}, instr.opcode = MOV
  PROVE  ExecOK(c, instr, ExecStore(c, instr, out))
<1>0. instr.opcode # CMP
  BY DEF MOV, CMP
<1>1. PICK o : o = ExecStore(c, instr, out)
  OBVIOUS
<1>2. CASE ~is_mmio(instr.operand2) /\ o = Defer(c, instr, EXEC_PENDING_MEM_WRITE, out)
  BY <1>1, <1>2, DeferOK
<1>3. CASE o = Outcome(c, EXEC_HALT, out)
  BY <1>0, <1>1, <1>3 DEF ExecOK, Outcome, EXEC_HALT, EXEC_SUCCESS, EXEC_PENDING_MEM_READ,
                          EXEC_PENDING_MEM_WRITE
<1>4. CASE /\ c.regs[instr.operand1] \in {0, 1}
           /\ o = Outcome([c EXCEPT !.pc = NextPc(c)], EXEC_SUCCESS, c.regs[instr.operand1])
  <2>1. PICK p \in Word : p = NextPc(c)
    BY CpuParts
  <2> DEFINE n == [c EXCEPT !.pc = p]
  <2>2. n \in Cpu /\ n.pc = p /\ n.fr = c.fr
    BY DEF Cpu
  <2>3. o = Outcome(n, EXEC_SUCCESS, c.regs[instr.operand1])
    BY <1>4, <2>1
  <2> HIDE DEF n
  <2> QED
    BY <1>0, <1>1, <1>4, <2>1, <2>2, <2>3
    DEF ExecOK, Outcome, EXEC_SUCCESS, EXEC_PENDING_MEM_READ, EXEC_PENDING_MEM_WRITE
<1>5. CASE o = Illegal(c, out)
  BY <1>1, <1>5, IllegalOK
<1> QED
  BY <1>1, <1>2, <1>3, <1>4, <1>5, StoreCases

\* execute_instruction, whatever the instruction is.
LEMMA ExecIsOK ==
  ASSUME NEW c \in Cpu, NEW instr \in Instruction, NEW input \in Int, NEW out \in {0, 1}
  PROVE  ExecOK(c, instr, execute_instruction(c, instr, input, out))
<1>1. PICK o : o = execute_instruction(c, instr, input, out)
  OBVIOUS
<1>2. ExecOK(c, instr, o)
  BY <1>1, ExecCases, ComputeOK, NotOK, CmpOK, BranchOK, LoadOK, StoreOK, IllegalOK
<1> QED
  BY <1>1, <1>2

-----------------------------------------------------------------------------
(***************************************************************************)
(* Client and driver.                                                      *)
(***************************************************************************)

Live == {"closed", "issue", "exec", "load", "loadTrace", "store", "fetch"}
Executed == {"load", "loadTrace", "store", "fetch", "crash"}

\* While the run lasts, the client's copy of the pc is the driver's.
PcAgrees == phase \in Live => read_buf.pc = cpu.pc

\* What is sent, or has been sent, is what memory holds at that pc.
SentIsFetched ==
  /\ phase = "closed" => read_buf.pc = 0
  /\ phase \in {"issue", "exec"} =>
       CanFetch(read_buf.pc) /\ write_buf = fetch_next(memory, read_buf.pc)
  /\ phase = "exec" => pending_instruction = write_buf /\ i = read_buf.pc \div INSTR_SIZE

\* The addresses that the client is going to use.
Reaches ==
  /\ phase \in {"load", "store"} => read_buf.mem_addr + WordBytes <= MEM_SIZE
  /\ Fits /\ phase \in Executed =>
       CanFetch(read_buf.pc) \/ FarBranch \/ read_buf.pc % INSTR_SIZE # 0
  /\ phase = "crash" => ~CanFetch(read_buf.pc)

\* The inductive invariant.
RunInv == TypeOK /\ PcAgrees /\ SentIsFetched /\ Reaches

Access == [addr : Word, type : {READ, WRITE}]

LEMMA RecordTypes ==
  ASSUME TypeOK, NEW a \in Word, NEW t \in {READ, WRITE}, Record(a, t)
  PROVE  trace' \in Seq(Access) /\ failed' \in BOOLEAN
<1>1. trace \in Seq(Access) /\ failed \in BOOLEAN
  BY DEF TypeOK, Access
<1>2. mem_access(a, t) \in Access
  BY DEF mem_access, Access
<1>3. failed' \in BOOLEAN
  <2>1. failed' = failed \/ failed' = TRUE
    BY DEF Record, Failure
  <2> QED
    BY <1>1, <2>1
<1>4. trace' = trace \/ trace' = Append(trace, mem_access(a, t))
  BY DEF Record
<1>5. trace' \in Seq(Access)
  <2>1. Append(trace, mem_access(a, t)) \in Seq(Access)
    BY <1>1, <1>2
  <2> QED
    BY <1>1, <1>4, <2>1
<1> QED
  BY <1>3, <1>5

LEMMA RunInit == Init => RunInv
<1> SUFFICES ASSUME Init
             PROVE  RunInv
  OBVIOUS
<1>1. 0 \in Byte /\ 0 \in Word
  BY ByteIsWord
<1>2. PICK prog \in Programs :
        memory = store_machine_code(Memory0, Append(prog, halt_instr)) /\ count = Len(prog) + 1
  BY DEF Init
<1>3. prog \in Seq(Instruction)
  BY ProgramsAssumption
<1>4. halt_instr \in Instruction
  <2>1. MOV \in Byte /\ DIRECT_STORE \in Byte
    BY Widths, ByteHolds64 DEF MOV, DIRECT_STORE, Byte
  <2> QED
    BY <1>1, <2>1, Devices DEF halt_instr, Instruction
<1>5. Append(prog, halt_instr) \in Seq(Instruction) /\ count \in Nat
  BY <1>2, <1>3, <1>4
<1>6. Memory0 \in [Addr -> Byte]
  BY <1>1 DEF Memory0
<1>7. memory \in [Addr -> Byte]
  BY <1>2, <1>5, <1>6, StoreIsMemory
<1>8. cpu \in Cpu /\ pending_instruction \in Instruction /\ write_buf \in Instruction
  BY <1>1 DEF Init, ZeroCpu, Cpu, NoInstr, Instruction
<1>9. read_buf \in ReadValue
  BY <1>1 DEF Init, ReadValue
<1>10. leds \in [Regs -> BOOLEAN] /\ failed \in BOOLEAN /\ compared = NoCompare
  BY DEF Init
<1>11. trace \in Seq([addr : Word, type : {READ, WRITE}]) /\ phase \in Phases
       /\ output_dev \in {0, 1} /\ i \in Nat /\ issued \in Nat
  BY DEF Init, Phases
<1>12. TypeOK
  BY <1>5, <1>7, <1>8, <1>9, <1>10, <1>11 DEF TypeOK
<1> QED
  BY <1>12 DEF Init, RunInv, PcAgrees, SentIsFetched, Reaches, Executed, ZeroCpu

\* Nothing but the phase matters to what is not a step of the run.
LEMMA EndStep ==
  ASSUME RunInv, UNCHANGED <<cpu, pending_instruction, leds, output_dev, memory, count, write_buf,
                             read_buf, trace, issued, compared>>,
         i' \in Nat, failed' \in BOOLEAN, phase' \in {"broken", "failed", "killed", "oops"}
  PROVE  RunInv'
<1>1. TypeOK'
  BY DEF RunInv, TypeOK, Phases
<1> QED
  BY <1>1 DEF RunInv, PcAgrees, SentIsFetched, Reaches, Live, Executed

LEMMA OpenStep ==
  ASSUME RunInv, Open \/ OpenFails
  PROVE  RunInv'
<1>0. TypeOK /\ 0 \in Word
  BY ByteIsWord DEF RunInv
<1>1. CASE Open
  <2>1. /\ phase = "closed" /\ phase' = "issue" /\ write_buf' = fetch_next(memory, 0)
        /\ Record(0, READ)
        /\ UNCHANGED <<cpu, pending_instruction, leds, output_dev, memory, count, read_buf, i, issued, compared>>
    BY <1>1 DEF Open, Go, driver
  <2>2. read_buf.pc = 0 /\ cpu.pc = 0
    BY <2>1 DEF RunInv, SentIsFetched, PcAgrees, Live
  <2>3. CanFetch(0)
    BY Widths, MemAssumption DEF CanFetch
  <2>4. write_buf' \in Instruction
    BY <1>0, <2>1, <2>3, FetchIsInstruction DEF TypeOK, CanFetch
  <2>5. trace' \in Seq(Access) /\ failed' \in BOOLEAN
    BY <1>0, <2>1, RecordTypes
  <2>6. TypeOK'
    BY <1>0, <2>1, <2>4, <2>5 DEF TypeOK, Access, Phases
  <2> QED
    BY <2>1, <2>2, <2>3, <2>6 DEF RunInv, PcAgrees, SentIsFetched, Reaches, Live, Executed
<1>2. CASE OpenFails
  BY <1>0, <1>2, EndStep DEF OpenFails, Failure, Go, driver, client, TypeOK
<1> QED
  BY <1>1, <1>2

LEMMA IssueStep ==
  ASSUME RunInv, Issue \/ IssueFails
  PROVE  RunInv'
<1>0. TypeOK
  BY DEF RunInv
<1>1. read_buf.pc \div INSTR_SIZE \in Nat
  <2>1. PICK p \in Nat, s \in Nat \ {0} : p = read_buf.pc /\ s = INSTR_SIZE
    BY <1>0, Widths DEF TypeOK, ReadValue, Word
  <2>2. p \div s \in Nat
    OBVIOUS
  <2> QED
    BY <2>1, <2>2
<1>2. CASE Issue
  <2>1. /\ phase = "issue" /\ phase' = "exec" /\ i' = read_buf.pc \div INSTR_SIZE
        /\ pending_instruction' = write_buf /\ issued' = issued + 1
        /\ UNCHANGED <<cpu, leds, output_dev, memory, count, write_buf, read_buf, trace, failed, compared>>
    BY <1>2 DEF Issue, Go, history
  <2>2. TypeOK'
    BY <1>0, <1>1, <2>1 DEF TypeOK, Phases
  <2> QED
    BY <2>1, <2>2 DEF RunInv, PcAgrees, SentIsFetched, Reaches, Live, Executed
<1>3. CASE IssueFails
  BY <1>0, <1>1, <1>3, EndStep DEF IssueFails, Failure, Go, driver
<1> QED
  BY <1>2, <1>3

\* After an instruction of a program that fits, there is another one in memory: the
\* one just past the program at the latest.
LEMMA NextFits ==
  ASSUME NEW p \in Word, NEW n \in Nat, p \div INSTR_SIZE < n, n * INSTR_SIZE + INSTR_SIZE <= MEM_SIZE,
         ((p + INSTR_SIZE) % WordMod) % INSTR_SIZE = 0
  PROVE  CanFetch((p + INSTR_SIZE) % WordMod)
<1>1. PICK s \in Nat \ {0}, W \in Nat \ {0}, m \in Nat :
        s = INSTR_SIZE /\ W = WordMod /\ m = MEM_SIZE /\ s <= m
  BY Widths, MemAssumption
<1>2. p \in Nat /\ p < W
  BY <1>1 DEF Word
<1>3. PICK q \in Nat, r \in 0..(W - 1) : p + s = W * q + r /\ r = (p + s) % W
  <2>1. PICK v \in Nat : v = p + s
    BY <1>2
  <2>2. \E q \in Nat, r \in 0..(W - 1) : v = W * q + r /\ q = v \div W /\ r = v % W
    BY <1>1, QuotientExists, Zenon
  <2> QED
    BY <2>1, <2>2, Zenon
<1>4. r % s = 0 /\ n * s + s <= m /\ p \div s < n
  BY <1>1, <1>3
<1>5. CASE q = 0
  <2>1. r = p + s
    <3>1. W * q = 0
      BY <1>5
    <3> QED
      BY <1>2, <1>3, <3>1
  <2>2. PICK k \in Nat : r = s * k
    <3>1. PICK k \in Nat, e \in 0..(s - 1) : r = s * k + e /\ e = r % s
      <4>1. r \in Nat
        OBVIOUS
      <4>2. \E k \in Nat, e \in 0..(s - 1) : r = s * k + e /\ k = r \div s /\ e = r % s
        BY <1>1, <4>1, QuotientExists, Zenon
      <4> QED
        BY <4>2, Zenon
    <3>2. PICK x \in Nat : x = s * k
      OBVIOUS
    <3>3. r = x
      BY <1>4, <3>1, <3>2
    <3> QED
      BY <3>2, <3>3
  <2>3. k >= 1
    <3> SUFFICES ASSUME k = 0
                 PROVE  FALSE
      OBVIOUS
    <3>1. s * k = 0
      OBVIOUS
    <3> QED
      BY <1>2, <2>1, <2>2, <3>1
  <2>4. p = s * (k - 1) + 0 /\ k - 1 \in Nat /\ 0 \in 0..(s - 1)
    <3>1. s * (k - 1) = s * k - s
      BY <2>3
    <3> QED
      BY <1>2, <2>1, <2>2, <2>3, <3>1
  <2>5. p \div s = k - 1
    BY <1>2, <2>4, QuotientIs
  <2>6. PICK d \in Nat : n = k + d
    <3>1. n - k \in Nat /\ n = k + (n - k)
      BY <1>4, <2>5
    <3> QED
      BY <3>1
  <2>7. n * s = s * k + d * s /\ d * s \in Nat
    BY <2>6
  <2>8. r + s <= m
    BY <1>4, <2>2, <2>7
  <2> QED
    BY <1>1, <1>3, <2>8 DEF CanFetch
<1>6. CASE q >= 1
  <2>1. W * q >= W /\ W * q \in Nat
    BY <1>6
  <2>2. r < s
    BY <1>2, <1>3, <2>1
  <2>3. r = s * 0 + r /\ r \in 0..(s - 1) /\ r \in Nat /\ 0 \in Nat
    BY <2>2
  <2>4. r % s = r
    BY <2>3, QuotientIs
  <2>5. r + s <= m
    BY <1>1, <1>4, <2>4
  <2> QED
    BY <1>1, <1>3, <2>5 DEF CanFetch
<1> QED
  BY <1>5, <1>6

LEMMA DriverStep ==
  ASSUME TypeOK, NEW o \in Outcomes, Driver(o)
  PROVE  /\ ExecOK(cpu, pending_instruction, o)
         /\ cpu' = o.cpu /\ cpu' \in Cpu /\ output_dev' \in {0, 1} /\ leds' \in [Regs -> BOOLEAN]
         /\ compared' = NoCompare \/ compared' \in Word \X Word
         /\ pending_instruction' = pending_instruction
<1>1. PICK v \in Inputs : o = execute_instruction(cpu, pending_instruction, v, output_dev)
  BY DEF Outcomes
<1>2. ExecOK(cpu, pending_instruction, o)
  BY <1>1, InputsAssumption, ExecIsOK DEF TypeOK
<1>3. cpu' = o.cpu /\ cpu' \in Cpu /\ output_dev' \in {0, 1}
  BY <1>2 DEF Driver, ExecOK
<1>4. leds' \in [Regs -> BOOLEAN]
  BY DEF Driver, set_diodes
<1>5. compared' = NoCompare \/ compared' \in Word \X Word
  <2>1. CASE pending_instruction.opcode = CMP /\ o.ret = EXEC_SUCCESS
    <3>1. compared' = <<cpu.regs[pending_instruction.operand1], Source(cpu, pending_instruction)>>
      BY <2>1 DEF Driver
    <3>2. cpu.regs[pending_instruction.operand1] \in Word /\ Source(cpu, pending_instruction) \in Word
      BY <1>2, <2>1 DEF ExecOK, TypeOK, Cpu
    <3> QED
      BY <3>1, <3>2
  <2>2. CASE ~(pending_instruction.opcode = CMP /\ o.ret = EXEC_SUCCESS)
    <3>1. compared' = compared
      BY <2>2 DEF Driver
    <3> QED
      BY <3>1 DEF TypeOK
  <2> QED
    BY <2>1, <2>2
<1> QED
  BY <1>2, <1>3, <1>4, <1>5 DEF Driver

LEMMA ResultType ==
  ASSUME NEW instr, NEW c, NEW o, ExecOK(c, instr, o), o.ret # EINVAL, ~BadStore(o)
  PROVE  /\ Result(o) \in ReadValue
         /\ Result(o).pc = o.cpu.pc
         /\ o.ret \in {EXEC_PENDING_MEM_READ, EXEC_PENDING_MEM_WRITE} =>
              Result(o).mem_addr = o.cpu.pending_mem_addr
<1>1. /\ o.cpu.pc \in Word /\ o.cpu.pending_mem_addr \in Word /\ 0 \in Word
      /\ o.cpu.pending_mmio_read \in Word
      /\ o.ret = EXEC_PENDING_MEM_WRITE => o.cpu.regs[o.cpu.pending_reg_idx] \in Word
  BY ByteIsWord DEF ExecOK, Cpu, BadStore
<1>2. PICK a \in Word : a = IF o.ret \in {EXEC_PENDING_MEM_READ, EXEC_PENDING_MEM_WRITE}
                            THEN o.cpu.pending_mem_addr ELSE 0
  BY <1>1
<1>3. PICK v \in Word : v = CASE o.ret = EXEC_PENDING_MEM_WRITE -> o.cpu.regs[o.cpu.pending_reg_idx]
                              [] o.ret = EXEC_PENDING_MMIO_READ -> o.cpu.pending_mmio_read
                              [] OTHER -> 0
  BY <1>1 DEF EXEC_PENDING_MEM_WRITE, EXEC_PENDING_MMIO_READ
<1>4. Result(o) = [pc |-> o.cpu.pc, mem_addr |-> a, val |-> v, exec_return |-> o.ret]
  BY <1>2, <1>3, Zenon DEF Result
<1>5. o.ret \in {EXEC_SUCCESS, EXEC_HALT, EXEC_PENDING_MEM_READ, EXEC_PENDING_MEM_WRITE,
                 EXEC_PENDING_MMIO_READ}
  BY DEF ExecOK
<1> QED
  BY <1>1, <1>2, <1>4, <1>5 DEF ReadValue

LEMMA DispatchIs ==
  ASSUME NEW o
  PROVE  /\ Dispatch(o) \in {"broken", "halted", "load", "store", "fetch"}
         /\ Dispatch(o) = "load" => o.ret = EXEC_PENDING_MEM_READ
         /\ Dispatch(o) = "store" => o.ret = EXEC_PENDING_MEM_WRITE
         /\ Dispatch(o) \in {"load", "store", "fetch"} => ~(i >= count) /\ o.ret # EXEC_HALT
BY DEF Dispatch, EXEC_HALT, EXEC_PENDING_MEM_READ, EXEC_PENDING_MEM_WRITE

LEMMA ExecStep ==
  ASSUME RunInv, Exec
  PROVE  RunInv'
<1>0. TypeOK
  BY DEF RunInv
<1>1. PICK o \in Outcomes : /\ phase = "exec" /\ o.ret # EINVAL /\ ~BadStore(o)
                            /\ Driver(o) /\ read_buf' = Result(o) /\ phase' = Dispatch(o)
                            /\ UNCHANGED <<memory, count, write_buf, i, trace, issued, failed>>
  BY DEF Exec
<1>2. /\ ExecOK(cpu, pending_instruction, o)
      /\ cpu' = o.cpu /\ cpu' \in Cpu /\ output_dev' \in {0, 1} /\ leds' \in [Regs -> BOOLEAN]
      /\ compared' = NoCompare \/ compared' \in Word \X Word
      /\ pending_instruction' = pending_instruction
  BY <1>0, <1>1, DriverStep
<1>3. /\ read_buf' \in ReadValue /\ read_buf'.pc = o.cpu.pc
      /\ o.ret \in {EXEC_PENDING_MEM_READ, EXEC_PENDING_MEM_WRITE} =>
           read_buf'.mem_addr = o.cpu.pending_mem_addr
  BY <1>1, <1>2, ResultType
<1>4. /\ phase' \in {"broken", "halted", "load", "store", "fetch"}
      /\ phase' = "load" => o.ret = EXEC_PENDING_MEM_READ
      /\ phase' = "store" => o.ret = EXEC_PENDING_MEM_WRITE
      /\ phase' \in {"load", "store", "fetch"} => ~(i >= count) /\ o.ret # EXEC_HALT
  BY <1>1, DispatchIs
<1>5. TypeOK'
  BY <1>0, <1>1, <1>2, <1>3, <1>4 DEF TypeOK, Phases
<1>6. PcAgrees' /\ SentIsFetched'
  BY <1>2, <1>3, <1>4 DEF PcAgrees, SentIsFetched
<1>7. phase' \in {"load", "store"} => read_buf'.mem_addr + WordBytes <= MEM_SIZE
  <2> SUFFICES ASSUME phase' \in {"load", "store"}
               PROVE  read_buf'.mem_addr + WordBytes <= MEM_SIZE
    OBVIOUS
  <2>1. read_buf'.mem_addr < MMIO_START /\ read_buf'.mem_addr \in Word
    BY <1>2, <1>3, <1>4 DEF ExecOK, Cpu
  <2> QED
    BY <2>1, WidthAssumption, MemAssumption, Widths DEF Word
<1>8. ASSUME Fits', phase' \in Executed, ~FarBranch', ~(read_buf'.pc % INSTR_SIZE # 0)
      PROVE  CanFetch(read_buf'.pc)
  <2>1. ~(i >= count) /\ o.ret \notin {EINVAL, EXEC_HALT}
    BY <1>1, <1>4, <1>8 DEF Executed
  <2>2. o.cpu.pc = NextPc(cpu)
    <3>1. \/ o.cpu.pc = NextPc(cpu)
          \/ /\ pending_instruction.opcode \in {JMP, JE, JG, JL}
             /\ o.cpu.pc = (pending_instruction.operand2 * INSTR_SIZE) % WordMod
      BY <1>2, <2>1 DEF ExecOK
    <3> QED
      BY <1>2, <1>3, <1>8, <3>1 DEF FarBranch
  <2>3. i = cpu.pc \div INSTR_SIZE /\ cpu.pc \in Word /\ count \in Nat /\ i \in Nat
    BY <1>0, <1>1 DEF RunInv, SentIsFetched, PcAgrees, Live, TypeOK, Cpu
  <2>4. cpu.pc \div INSTR_SIZE < count
    <3>1. i < count
      BY <2>1, <2>3
    <3> QED
      BY <2>3, <3>1
  <2>5. count * INSTR_SIZE + INSTR_SIZE <= MEM_SIZE
    BY <1>1, <1>8 DEF Fits
  <2>6. ((cpu.pc + INSTR_SIZE) % WordMod) % INSTR_SIZE = 0
    BY <1>3, <1>8, <2>2 DEF NextPc
  <2>7. CanFetch((cpu.pc + INSTR_SIZE) % WordMod)
    BY <2>3, <2>4, <2>5, <2>6, NextFits
  <2> QED
    BY <1>3, <2>2, <2>7 DEF NextPc
<1>9. Reaches'
  <2>1. phase' # "crash"
    BY <1>4
  <2>2. CanFetch(read_buf.pc)' = CanFetch(read_buf'.pc)
    BY DEF CanFetch
  <2> QED
    BY <1>7, <1>8, <2>1, <2>2 DEF Reaches
<1> QED
  BY <1>5, <1>6, <1>9 DEF RunInv

LEMMA ExecEnds ==
  ASSUME RunInv, ExecFails \/ ExecOops \/ Killed
  PROVE  RunInv'
<1>0. TypeOK
  BY DEF RunInv
<1>1. CASE ExecFails \/ ExecOops
  <2>1. PICK o \in Outcomes : /\ Driver(o) /\ phase' \in {"broken", "oops"}
                              /\ failed' = failed \/ failed' = TRUE
                              /\ UNCHANGED <<memory, count, write_buf, read_buf, i, trace, issued>>
    BY <1>1 DEF ExecFails, ExecOops, Go, Failure, client
  <2>2. /\ cpu' \in Cpu /\ output_dev' \in {0, 1} /\ leds' \in [Regs -> BOOLEAN]
        /\ compared' = NoCompare \/ compared' \in Word \X Word
        /\ pending_instruction' = pending_instruction
    BY <1>0, <2>1, DriverStep
  <2>3. failed' \in BOOLEAN
    BY <1>0, <2>1 DEF TypeOK
  <2>4. TypeOK'
    BY <1>0, <2>1, <2>2, <2>3 DEF TypeOK, Phases
  <2> QED
    BY <2>1, <2>4 DEF RunInv, PcAgrees, SentIsFetched, Reaches, Live, Executed
<1>2. CASE Killed
  BY <1>0, <1>2, EndStep DEF Killed, Failure, Go, driver, client, TypeOK
<1> QED
  BY <1>1, <1>2

LEMMA LoadStep ==
  ASSUME RunInv, LoadWord \/ LoadLost \/ LoadOops \/ LoadTrace
  PROVE  RunInv'
<1>0. TypeOK
  BY DEF RunInv
<1>1. CASE LoadWord
  <2>1. PICK v : v = read_from_memory(memory, read_buf.mem_addr)
    OBVIOUS
  <2> DEFINE new == [cpu EXCEPT !.regs[cpu.pending_reg_idx] = v]
  <2>2. /\ phase = "load" /\ phase' = "loadTrace" /\ cpu' = new /\ leds' = set_diodes(new, cpu)
        /\ UNCHANGED <<pending_instruction, output_dev, memory, count, write_buf, read_buf, i, trace,
                       issued, failed, compared>>
    BY <1>1, <2>1 DEF LoadWord, Go, client, history
  <2>3. v \in Word
    <3>1. read_buf.mem_addr \in Nat /\ read_buf.mem_addr + WordBytes <= MEM_SIZE
      BY <1>0, <2>2, Widths DEF RunInv, Reaches, TypeOK, ReadValue, Word
    <3> QED
      BY <1>0, <2>1, <3>1, ReadIsWord DEF TypeOK
  <2>4. new \in Cpu /\ new.pc = cpu.pc
    <3>1. [cpu.regs EXCEPT ![cpu.pending_reg_idx] = v] \in [Regs -> Word]
      BY <1>0, <2>3 DEF TypeOK, Cpu
    <3>2. new = [cpu EXCEPT !.regs = [cpu.regs EXCEPT ![cpu.pending_reg_idx] = v]]
      BY <1>0 DEF TypeOK, Cpu
    <3> QED
      BY <1>0, <3>1, <3>2 DEF TypeOK, Cpu
  <2> HIDE DEF new
  <2>5. leds' \in [Regs -> BOOLEAN]
    BY <2>2 DEF set_diodes
  <2>6. TypeOK'
    BY <1>0, <2>2, <2>4, <2>5 DEF TypeOK, Phases
  <2> QED
    BY <2>2, <2>4, <2>6
    DEF RunInv, PcAgrees, SentIsFetched, Reaches, Live, Executed, Fits, FarBranch, CanFetch
<1>2. CASE LoadLost
  <2>1. /\ phase = "load" /\ phase' = "loadTrace" /\ failed' = TRUE
        /\ UNCHANGED <<cpu, pending_instruction, leds, output_dev, memory, count, write_buf, read_buf, i,
                       trace, issued, compared>>
    BY <1>2 DEF LoadLost, Go, Failure, driver, client
  <2>2. TypeOK'
    BY <1>0, <2>1 DEF TypeOK, Phases
  <2> QED
    BY <2>1, <2>2
    DEF RunInv, PcAgrees, SentIsFetched, Reaches, Live, Executed, Fits, FarBranch, CanFetch
<1>3. CASE LoadOops
  BY <1>0, <1>3, EndStep DEF LoadOops, Go, driver, client, history, TypeOK
<1>4. CASE LoadTrace
  <2>1. /\ phase = "loadTrace" /\ phase' = "fetch" /\ Record(read_buf.mem_addr, READ)
        /\ UNCHANGED <<cpu, pending_instruction, leds, output_dev, memory, count, write_buf, read_buf, i,
                       issued, compared>>
    BY <1>4 DEF LoadTrace, Go, driver, client
  <2>2. trace' \in Seq(Access) /\ failed' \in BOOLEAN
    BY <1>0, <2>1, RecordTypes DEF TypeOK, ReadValue
  <2>3. TypeOK'
    BY <1>0, <2>1, <2>2 DEF TypeOK, Phases, Access
  <2> QED
    BY <2>1, <2>3
    DEF RunInv, PcAgrees, SentIsFetched, Reaches, Live, Executed, Fits, FarBranch, CanFetch
<1> QED
  BY <1>1, <1>2, <1>3, <1>4

LEMMA StoreStep ==
  ASSUME RunInv, StoreWord
  PROVE  RunInv'
<1>0. TypeOK
  BY DEF RunInv
<1>1. /\ phase = "store" /\ phase' = "fetch" /\ Record(read_buf.mem_addr, WRITE)
      /\ memory' = write_to_memory(memory, read_buf.mem_addr, read_buf.val)
      /\ UNCHANGED <<cpu, pending_instruction, leds, output_dev, count, write_buf, read_buf, i,
                     issued, compared>>
  BY DEF StoreWord, Go, driver
<1>2. trace' \in Seq(Access) /\ failed' \in BOOLEAN
  BY <1>0, <1>1, RecordTypes DEF TypeOK, ReadValue
<1>3. memory' \in [Addr -> Byte]
  <2>1. read_buf.mem_addr \in Nat /\ read_buf.val \in Word
    BY <1>0, Widths DEF TypeOK, ReadValue, Word
  <2> QED
    BY <1>0, <1>1, <2>1, WriteIsMemory DEF TypeOK
<1>4. TypeOK'
  BY <1>0, <1>1, <1>2, <1>3 DEF TypeOK, Phases, Access
<1> QED
  BY <1>1, <1>4
  DEF RunInv, PcAgrees, SentIsFetched, Reaches, Live, Executed, Fits, FarBranch, CanFetch

LEMMA FetchStep ==
  ASSUME RunInv, Fetch \/ FetchCrash
  PROVE  RunInv'
<1>0. TypeOK
  BY DEF RunInv
<1>1. CASE Fetch
  <2>1. /\ phase = "fetch" /\ phase' = "issue" /\ Record(read_buf.pc, READ) /\ CanFetch(read_buf.pc)
        /\ write_buf' = fetch_next(memory, read_buf.pc)
        /\ UNCHANGED <<cpu, pending_instruction, leds, output_dev, memory, count, read_buf, i,
                       issued, compared>>
    BY <1>1 DEF Fetch, Go, driver
  <2>2. trace' \in Seq(Access) /\ failed' \in BOOLEAN
    BY <1>0, <2>1, RecordTypes DEF TypeOK, ReadValue
  <2>3. write_buf' \in Instruction
    <3>1. read_buf.pc \in Nat /\ read_buf.pc + INSTR_SIZE <= MEM_SIZE
      BY <1>0, <2>1, Widths DEF TypeOK, ReadValue, Word, CanFetch
    <3> QED
      BY <1>0, <2>1, <3>1, FetchIsInstruction DEF TypeOK
  <2>4. TypeOK'
    BY <1>0, <2>1, <2>2, <2>3 DEF TypeOK, Phases, Access
  <2>5. CanFetch(read_buf.pc)' /\ fetch_next(memory, read_buf.pc)' = fetch_next(memory, read_buf.pc)
    BY <2>1 DEF CanFetch, fetch_next, read_from_memory
  <2> QED
    BY <2>1, <2>4, <2>5 DEF RunInv, PcAgrees, SentIsFetched, Reaches, Live, Executed
<1>2. CASE FetchCrash
  <2>1. /\ phase = "fetch" /\ phase' = "crash" /\ ~CanFetch(read_buf.pc)
        /\ UNCHANGED <<cpu, pending_instruction, leds, output_dev, memory, count, write_buf, read_buf, i,
                       trace, issued, failed, compared>>
    BY <1>2 DEF FetchCrash, Go, driver, client, history
  <2>2. TypeOK'
    BY <1>0, <2>1 DEF TypeOK, Phases
  <2> QED
    BY <2>1, <2>2
    DEF RunInv, PcAgrees, SentIsFetched, Reaches, Live, Executed, Fits, FarBranch, CanFetch
<1> QED
  BY <1>1, <1>2

LEMMA RunStep == RunInv /\ [Next]_vars => RunInv'
<1> SUFFICES ASSUME RunInv, [Next]_vars
             PROVE  RunInv'
  OBVIOUS
<1>1. CASE UNCHANGED vars
  BY <1>1 DEF vars, driver, client, history, RunInv, TypeOK, PcAgrees, SentIsFetched, Reaches,
              Fits, FarBranch, CanFetch, fetch_next, read_from_memory
<1> QED
  BY <1>1, OpenStep, IssueStep, ExecStep, ExecEnds, LoadStep, StoreStep, FetchStep DEF Next

LEMMA RunInvHolds == Spec => []RunInv
  BY RunInit, RunStep, PTL DEF Spec

\* Type correctness of client and driver: registers, memory, the pc and every word
\* and byte that they exchange keep their width, whatever the program does.
THEOREM EmulatorTypes == Spec => []TypeOK
<1>1. RunInv => TypeOK
  BY DEF RunInv
<1> QED
  BY <1>1, RunInvHolds, PTL

\* For any program and any calls that fail: what cpu_read is about to execute is
\* what the client's memory holds at the driver's pc.
THEOREM DriverClientAgreeHolds == Spec => []DriverClientAgree
<1>1. RunInv => DriverClientAgree
  <2> SUFFICES ASSUME RunInv, phase = "exec"
               PROVE  i = cpu.pc \div INSTR_SIZE /\ pending_instruction = fetch_next(memory, cpu.pc)
    BY DEF DriverClientAgree
  <2> QED
    BY DEF RunInv, PcAgrees, SentIsFetched, Live
<1> QED
  BY <1>1, RunInvHolds, PTL

\* For any program: the client's loads and stores stay inside of memory[], and one
\* that fits in memory is only left by a branch to an address outside of it.
THEOREM AccessInBoundsHolds == Spec => []AccessInBounds
<1>1. RunInv => AccessInBounds
  BY DEF RunInv, Reaches, AccessInBounds, Executed
<1> QED
  BY <1>1, RunInvHolds, PTL

-----------------------------------------------------------------------------
(***************************************************************************)
(* Comparisons.                                                            *)
(***************************************************************************)

\* The difference of two words in a word, and as a signed number.
LEMMA DifferenceIs ==
  ASSUME NEW W \in Nat \ {0}, NEW a \in 0..(W - 1), NEW b \in 0..(W - 1)
  PROVE  (a - b) % W = IF a >= b THEN a - b ELSE a - b + W
<1>1. CASE a >= b
  <2>1. a - b = W * 0 + (a - b) /\ a - b \in 0..(W - 1) /\ a - b \in Nat /\ 0 \in Nat
    BY <1>1
  <2>2. PICK d \in Nat : d = a - b
    BY <2>1
  <2>3. d % W = d
    BY <2>1, <2>2, QuotientIs
  <2> QED
    BY <1>1, <2>2, <2>3
<1>2. CASE a < b
  <2>1. PICK d \in 1..(W - 1) : d = b - a
    BY <1>2
  <2>2. (-d) % W = W - d
    OBVIOUS
  <2>3. a - b = -d /\ a - b + W = W - d /\ ~(a >= b)
    BY <1>2, <2>1
  <2> QED
    BY <2>2, <2>3
<1> QED
  BY <1>1, <1>2

\* The sign of the wrapped difference is that of the exact one, where that is
\* representable; the wrapped difference is zero exactly for equal words.
LEMMA SignedDiffIs ==
  ASSUME NEW a \in Word, NEW b \in Word
  PROVE  /\ SignedDiff(a, b) \in Int
         /\ SignedDiff(a, b) = 0 <=> a = b
         /\ Representable(a, b) => SignedDiff(a, b) = Signed(a) - Signed(b)
<1>1. PICK W \in Nat \ {0} : W = WordMod /\ a \in 0..(W - 1) /\ b \in 0..(W - 1)
  BY Widths DEF Word
<1>2. (a - b) % W = IF a >= b THEN a - b ELSE a - b + W
  BY <1>1, DifferenceIs
<1>3. PICK d \in Int : d = (a - b) % W /\ d = IF a >= b THEN a - b ELSE a - b + W
  BY <1>1, <1>2
<1>4. SignedDiff(a, b) = IF 2 * d < W THEN d ELSE d - W
  BY <1>1, <1>3 DEF SignedDiff, Signed
<1>5. /\ Signed(a) = IF 2 * a < W THEN a ELSE a - W
      /\ Signed(b) = IF 2 * b < W THEN b ELSE b - W
  BY <1>1 DEF Signed
<1>6. Representable(a, b) <=> -W <= 2 * (Signed(a) - Signed(b)) /\ 2 * (Signed(a) - Signed(b)) < W
  BY <1>1 DEF Representable
<1> QED
  BY <1>1, <1>3, <1>4, <1>5, <1>6

\* The flags are those of the last CMP.
FlagsInv ==
  compared # NoCompare =>
    cpu.fr = handle_compare({}, SignedDiff(compared[1], compared[2]))

LEMMA FlagsStep == RunInv /\ FlagsInv /\ [Next]_vars => FlagsInv'
<1> SUFFICES ASSUME RunInv, FlagsInv, [Next]_vars
             PROVE  FlagsInv'
  OBVIOUS
<1>0. TypeOK
  BY DEF RunInv
<1>1. ASSUME NEW o \in Outcomes, Driver(o)
      PROVE  FlagsInv'
  <2>1. ExecOK(cpu, pending_instruction, o) /\ cpu' = o.cpu
    BY <1>0, <1>1, DriverStep
  <2>2. CASE pending_instruction.opcode = CMP /\ o.ret = EXEC_SUCCESS
    <3>1. PICK a, b : a = cpu.regs[pending_instruction.operand1] /\ b = Source(cpu, pending_instruction)
      OBVIOUS
    <3>2. compared' = <<a, b>>
      BY <1>1, <2>2, <3>1 DEF Driver
    <3>3. cpu'.fr = handle_compare(cpu.fr, SignedDiff(a, b))
      BY <2>1, <2>2, <3>1 DEF ExecOK
    <3>4. cpu.fr \subseteq {"ZF", "SF", "CF"}
      BY <1>0 DEF TypeOK, Cpu
    <3>5. handle_compare(cpu.fr, SignedDiff(a, b)) = handle_compare({}, SignedDiff(a, b))
      BY <3>4 DEF handle_compare
    <3> QED
      BY <3>2, <3>3, <3>5 DEF FlagsInv
  <2>3. CASE ~(pending_instruction.opcode = CMP /\ o.ret = EXEC_SUCCESS)
    <3>1. compared' = compared /\ cpu'.fr = cpu.fr
      BY <1>1, <2>1, <2>3 DEF Driver, ExecOK
    <3> QED
      BY <3>1 DEF FlagsInv
  <2> QED
    BY <2>2, <2>3
<1>2. CASE Exec \/ ExecFails \/ ExecOops
  BY <1>1, <1>2 DEF Exec, ExecFails, ExecOops
<1>3. CASE LoadWord
  <2>1. cpu'.fr = cpu.fr /\ compared' = compared
    BY <1>0, <1>3 DEF LoadWord, history, TypeOK, Cpu
  <2> QED
    BY <2>1 DEF FlagsInv
<1>4. CASE \/ Open \/ OpenFails \/ Issue \/ IssueFails \/ Killed \/ LoadLost \/ LoadOops \/ LoadTrace
           \/ StoreWord \/ Fetch \/ FetchCrash \/ UNCHANGED vars
  <2>1. cpu' = cpu /\ compared' = compared
    BY <1>4 DEF Open, OpenFails, Issue, IssueFails, Killed, LoadLost, LoadOops, LoadTrace, StoreWord,
                Fetch, FetchCrash, driver, history, vars
  <2> QED
    BY <2>1 DEF FlagsInv
<1> QED
  BY <1>2, <1>3, <1>4 DEF Next

\* For any program, long after a CMP: exactly one of JE, JG and JL would be taken,
\* and it is the one that the two words, compared as s64, ask for.
THEOREM BranchesFollowCompareHolds == Spec => []BranchesFollowCompare
<1>1. Init => FlagsInv
  BY DEF Init, FlagsInv
<1>2. RunInv /\ FlagsInv => BranchesFollowCompare
  <2> SUFFICES ASSUME RunInv, FlagsInv, compared # NoCompare
               PROVE  LET a == compared[1]
                          b == compared[2]
                          taken == {op \in {JE, JG, JL} : Taken(op, cpu.fr)}
                      IN /\ \E op \in {JE, JG, JL} : taken = {op}
                         /\ JE \in taken <=> a = b
                         /\ Representable(a, b) => (JG \in taken <=> Signed(a) > Signed(b))
    BY DEF BranchesFollowCompare
  <2>1. PICK a \in Word, b \in Word : a = compared[1] /\ b = compared[2]
    BY DEF RunInv, TypeOK
  <2>2. PICK d \in Int : /\ d = SignedDiff(a, b) /\ (d = 0 <=> a = b)
                         /\ Representable(a, b) => d = Signed(a) - Signed(b)
    BY SignedDiffIs
  <2>3. /\ "ZF" \in cpu.fr <=> d = 0
        /\ "SF" \in cpu.fr <=> d < 0
    BY <2>1, <2>2 DEF FlagsInv, handle_compare
  <2>4. /\ Taken(JE, cpu.fr) <=> d = 0
        /\ Taken(JG, cpu.fr) <=> d > 0
        /\ Taken(JL, cpu.fr) <=> d < 0
    BY <2>3 DEF Taken, JMP, JE, JG, JL
  <2>5. Signed(a) \in Int /\ Signed(b) \in Int
    BY Widths DEF Signed, Word
  <2>6. JE # JG /\ JE # JL /\ JG # JL
    BY DEF JE, JG, JL
  <2> DEFINE taken == {op \in {JE, JG, JL} : Taken(op, cpu.fr)}
  <2>7. CASE d = 0
    <3>1. taken = {JE}
      BY <2>2, <2>4, <2>6, <2>7
    <3> QED
      BY <2>1, <2>2, <2>5, <2>6, <2>7, <3>1
  <2>8. CASE d > 0
    <3>1. taken = {JG}
      BY <2>2, <2>4, <2>6, <2>8
    <3> QED
      BY <2>1, <2>2, <2>5, <2>6, <2>8, <3>1
  <2>9. CASE d < 0
    <3>1. taken = {JL}
      BY <2>2, <2>4, <2>6, <2>9
    <3> QED
      BY <2>1, <2>2, <2>5, <2>6, <2>9, <3>1
  <2> QED
    BY <2>2, <2>7, <2>8, <2>9
<1> QED
  BY <1>1, <1>2, FlagsStep, RunInvHolds, PTL DEF Spec

-----------------------------------------------------------------------------
(***************************************************************************)
(* Client and driver implement the machine of CpuSpec.  The operators of   *)
(* the instruction set and of memory are the same there as here.           *)
(***************************************************************************)

LEMMA SameConstants ==
  /\ Machine!WordMod = WordMod /\ Machine!ByteMod = ByteMod /\ Machine!INSTR_SIZE = INSTR_SIZE
  /\ Machine!Regs = Regs /\ Machine!Addr = Addr /\ Machine!Halt = halt_instr
  /\ Machine!ADD = ADD /\ Machine!SUB = SUB /\ Machine!AND = AND /\ Machine!OR = OR
  /\ Machine!NOT = NOT /\ Machine!MOV = MOV /\ Machine!CMP = CMP
  /\ Machine!JMP = JMP /\ Machine!JE = JE /\ Machine!JG = JG /\ Machine!JL = JL
  /\ Machine!IMMEDIATE = IMMEDIATE /\ Machine!REGISTER = REGISTER
  /\ Machine!DIRECT_LOAD = DIRECT_LOAD /\ Machine!DIRECT_STORE = DIRECT_STORE
  /\ Machine!READ = READ /\ Machine!WRITE = WRITE
BY DEF Machine!WordMod, WordMod, Machine!ByteMod, ByteMod, Machine!INSTR_SIZE, INSTR_SIZE,
       Machine!Power, Power, Machine!Regs, Regs, Machine!Addr, Addr, Machine!Halt, halt_instr,
       Machine!ADD, ADD, Machine!SUB, SUB, Machine!AND, AND, Machine!OR, OR, Machine!NOT, NOT,
       Machine!MOV, MOV, Machine!CMP, CMP, Machine!JMP, JMP, Machine!JE, JE, Machine!JG, JG,
       Machine!JL, JL, Machine!IMMEDIATE, IMMEDIATE, Machine!REGISTER, REGISTER,
       Machine!DIRECT_LOAD, DIRECT_LOAD, Machine!DIRECT_STORE, DIRECT_STORE,
       Machine!READ, READ, Machine!WRITE, WRITE

LEMMA SameAlu ==
  ASSUME NEW op, NEW a, NEW b
  PROVE  Machine!Alu(op, a, b) = Alu(op, a, b) /\ Machine!SignedDiff(a, b) = SignedDiff(a, b)
<1>1. Machine!Alu(op, a, b) = Alu(op, a, b)
  BY SameConstants
  DEF Machine!Alu, Alu, Machine!Ones, Ones, Machine!OfOnes, OfOnes, Machine!Positions, Positions,
      Machine!Digits, Digits, Machine!Digit, Digit, Machine!Power, Power
<1>2. Machine!SignedDiff(a, b) = SignedDiff(a, b)
  BY SameConstants DEF Machine!SignedDiff, SignedDiff, Machine!Signed, Signed
<1> QED
  BY <1>1, <1>2

LEMMA SameMemory ==
  ASSUME NEW m, NEW a, NEW v
  PROVE  /\ Machine!read_from_memory(m, a) = read_from_memory(m, a)
         /\ Machine!write_to_memory(m, a, v) = write_to_memory(m, a, v)
         /\ Machine!fetch_next(m, a) = fetch_next(m, a)
         /\ Machine!CanFetch(a) <=> CanFetch(a)
         /\ Machine!mem_access(a, v) = mem_access(a, v)
<1>1. \A x, y : Machine!read_from_memory(x, y) = read_from_memory(x, y)
  BY SameConstants DEF Machine!read_from_memory, read_from_memory, Machine!Digits, Digits
<1>2. \A k : Machine!WordAt(v, k) = WordAt(v, k)
  BY SameConstants DEF Machine!WordAt, WordAt, Machine!Digit, Digit, Machine!Power, Power
<1>3. Machine!write_to_memory(m, a, v) = write_to_memory(m, a, v)
  BY <1>2, SameConstants DEF Machine!write_to_memory, write_to_memory
<1>4. Machine!fetch_next(m, a) = fetch_next(m, a)
  BY <1>1 DEF Machine!fetch_next, fetch_next
<1>5. Machine!CanFetch(a) <=> CanFetch(a)
  BY SameConstants DEF Machine!CanFetch, CanFetch
<1>6. Machine!mem_access(a, v) = mem_access(a, v)
  BY DEF Machine!mem_access, mem_access
<1> QED
  BY <1>1, <1>3, <1>4, <1>5, <1>6

LEMMA SameStore ==
  ASSUME NEW s
  PROVE  Machine!store_machine_code(Machine!Memory0, s) = store_machine_code(Memory0, s)
<1>1. Machine!Memory0 = Memory0
  BY SameConstants DEF Machine!Memory0, Memory0
<1>2. \A x, k : Machine!Encode(x, k) = Encode(x, k)
  <2>1. \A v, k : Machine!WordAt(v, k) = WordAt(v, k)
    BY SameConstants DEF Machine!WordAt, WordAt, Machine!Digit, Digit, Machine!Power, Power
  <2> QED
    BY <2>1 DEF Machine!Encode, Encode
<1> QED
  BY <1>1, <1>2, SameConstants DEF Machine!store_machine_code, store_machine_code

LEMMA SameTwoOperands ==
  ASSUME NEW instr
  PROVE  Machine!TwoOperands(instr) <=> TwoOperands(instr)
BY SameConstants DEF Machine!TwoOperands, TwoOperands

\* The machine's registers, memory and log.
BarRegs ==
  IF phase = "load" /\ ~Doomed
  THEN [cpu.regs EXCEPT ![cpu.pending_reg_idx] = read_from_memory(memory, read_buf.mem_addr)]
  ELSE cpu.regs
BarMem == IF phase = "store" THEN write_to_memory(memory, read_buf.mem_addr, read_buf.val) ELSE memory
BarLog == trace \o Owed

\* The access that fetches the instruction at p.
FetchLog(p) == IF CanFetch(p) THEN <<mem_access(p, READ)>> ELSE <<>>

\* What the refinement needs beyond RunInv.
MachineInv ==
  /\ phase = "closed" => trace = <<>>
  /\ cpu.fr \in {{}, {"ZF"}, {"SF", "CF"}}

LEMMA FetchLogIs ==
  ASSUME NEW p
  PROVE  Machine!Fetching(p) = FetchLog(p)
BY SameMemory, SameConstants DEF Machine!Fetching, FetchLog

\* Before an instruction is executed, the machine's state is the driver's and the
\* client's, and its next instruction is the pending one.
LEMMA AtExec ==
  ASSUME RunInv, phase = "exec"
  PROVE  /\ BarRegs = cpu.regs /\ BarMem = memory /\ BarLog = trace /\ Status = "running"
         /\ Machine!Instr = pending_instruction
         /\ Machine!InProgram <=> ~(i >= count)
<1>1. TypeOK /\ trace \in Seq(Access)
  BY DEF RunInv, TypeOK, Access
<1>2. BarRegs = cpu.regs /\ BarMem = memory /\ Status = "running" /\ Owed = <<>>
  BY DEF BarRegs, BarMem, Status, Owed, Doomed
<1>3. BarLog = trace
  BY <1>1, <1>2 DEF BarLog
<1>4. cpu.pc = read_buf.pc /\ CanFetch(cpu.pc)
      /\ pending_instruction = fetch_next(memory, cpu.pc) /\ i = cpu.pc \div INSTR_SIZE
  BY DEF RunInv, PcAgrees, SentIsFetched, Live
<1>5. Machine!Instr = pending_instruction
  <2>1. Machine!Instr = Machine!fetch_next(BarMem, cpu.pc)
    BY DEF Machine!Instr, BarMem
  <2> QED
    BY <1>2, <1>4, <2>1, SameMemory
<1>6. Machine!InProgram <=> ~(i >= count)
  <2>1. Machine!InProgram <=> CanFetch(cpu.pc) /\ cpu.pc \div INSTR_SIZE < count
    BY SameMemory, SameConstants DEF Machine!InProgram
  <2>2. i < count <=> ~(i >= count)
    BY <1>1 DEF TypeOK
  <2> QED
    BY <1>4, <2>1, <2>2
<1> QED
  BY <1>2, <1>3, <1>5, <1>6

\* The machine's state after a step of the client or the driver, phase by phase.
LEMMA AfterFetchPhase ==
  ASSUME phase' = "fetch"
  PROVE  /\ BarRegs' = cpu'.regs /\ BarMem' = memory' /\ Status' = "running"
         /\ BarLog' = trace' \o FetchLog(read_buf'.pc)
<1>1. BarRegs' = cpu'.regs /\ BarMem' = memory' /\ Status' = "running"
  BY DEF BarRegs, BarMem, Status, Doomed
<1>2. Owed' = FetchLog(read_buf'.pc)
  BY DEF Owed, FetchLog, CanFetch, Doomed
<1> QED
  BY <1>1, <1>2 DEF BarLog

LEMMA AfterEnd ==
  ASSUME \/ phase' \in {"halted", "broken", "failed", "killed", "oops", "crash"}
         \/ phase' = "load" /\ Doomed',
         trace' \in Seq(Access)
  PROVE  /\ BarRegs' = cpu'.regs /\ BarMem' = memory' /\ BarLog' = trace'
         /\ Status' = IF phase' = "halted" THEN "halted" ELSE "stopped"
<1>1. BarRegs' = cpu'.regs /\ BarMem' = memory' /\ Owed' = <<>>
  BY DEF BarRegs, BarMem, Owed, Doomed
<1>2. BarLog' = trace'
  BY <1>1 DEF BarLog
<1>3. Status' = IF phase' = "halted" THEN "halted" ELSE "stopped"
  BY DEF Status, Doomed
<1> QED
  BY <1>1, <1>2, <1>3

\* An instruction that is executed in the driver alone, at its end.
LEMMA MachineGoesOn ==
  ASSUME RunInv, phase = "exec", phase' = "fetch", UNCHANGED <<trace, memory, count>>,
         read_buf'.pc = cpu'.pc, NEW p, cpu'.pc = p % WordMod
  PROVE  Machine!GoOn(p, <<>>) /\ UNCHANGED BarMem /\ BarRegs' = cpu'.regs
<1>1. trace \in Seq(Access)
  BY DEF RunInv, TypeOK, Access
<1>2. /\ BarMem' = BarMem /\ BarRegs' = cpu'.regs /\ Status' = Status
      /\ BarLog = trace /\ BarLog' = trace \o FetchLog(p % WordMod)
  BY AtExec, AfterFetchPhase
<1>3. BarLog \o <<>> = trace
  BY <1>1, <1>2
<1>4. BarLog' = (BarLog \o <<>>) \o Machine!Fetching(p % WordMod)
  BY <1>2, <1>3, FetchLogIs
<1>5. Machine!GoOn(p, <<>>)
  BY <1>2, <1>4, SameConstants DEF Machine!GoOn, BarLog
<1> QED
  BY <1>2, <1>5

\* The driver has executed an instruction, and the client goes on to the next one.
InDriver(o) ==
  /\ phase = "exec" /\ phase' = "fetch"
  /\ UNCHANGED <<trace, memory, count>>
  /\ cpu' = o.cpu /\ output_dev' = o.out
  /\ read_buf'.pc = cpu'.pc

LEMMA SameOperand ==
  ASSUME RunInv, phase = "exec"
  PROVE  Machine!Operand = Source(cpu, pending_instruction)
<1>1. Machine!Operand = IF pending_instruction.mode = IMMEDIATE THEN pending_instruction.operand2
                        ELSE BarRegs[pending_instruction.operand2]
  BY AtExec, SameConstants DEF Machine!Operand, BarRegs
<1> QED
  BY <1>1, AtExec DEF Source

LEMMA ComputeStep ==
  ASSUME RunInv, NEW o, InDriver(o), TwoOperands(pending_instruction),
         pending_instruction.opcode \in {ADD, SUB, AND, OR, MOV},
         o = ExecCompute(cpu, pending_instruction, output_dev)
  PROVE  Machine!Compute
<1> DEFINE r == pending_instruction.operand1
<1>1. PICK v : v = Alu(pending_instruction.opcode, cpu.regs[r], Source(cpu, pending_instruction))
  OBVIOUS
<1>2. cpu \in Cpu
  BY DEF RunInv, TypeOK
<1>3. cpu' = [cpu EXCEPT !.pc = NextPc(cpu), !.regs[r] = v] /\ output_dev' = output_dev
  BY <1>1 DEF InDriver, ExecCompute, Outcome
<1>4. /\ cpu'.pc = (cpu.pc + INSTR_SIZE) % WordMod /\ cpu'.fr = cpu.fr
      /\ cpu'.regs = [cpu.regs EXCEPT ![r] = v]
  BY <1>2, <1>3 DEF Cpu, NextPc
<1>5. Machine!GoOn(cpu.pc + INSTR_SIZE, <<>>) /\ BarMem' = BarMem /\ BarRegs' = cpu'.regs
  BY <1>4, MachineGoesOn DEF InDriver
<1>6. BarRegs = cpu.regs /\ Machine!Instr = pending_instruction
  BY AtExec DEF InDriver
<1>7. Machine!FallThrough(<<>>)
  BY <1>5, SameConstants DEF Machine!FallThrough
<1>8. Machine!Alu(pending_instruction.opcode, BarRegs[r], Machine!Operand) = v
  BY <1>1, <1>6, SameAlu, SameOperand DEF InDriver
<1>9. BarRegs' = [BarRegs EXCEPT ![r] = v]
  BY <1>4, <1>5, <1>6
<1>10. Machine!Set(r, v)
  BY <1>9 DEF Machine!Set, BarRegs
<1>11. Machine!TwoOperands(pending_instruction)
       /\ pending_instruction.opcode \in {Machine!ADD, Machine!SUB, Machine!AND, Machine!OR, Machine!MOV}
  BY SameTwoOperands, SameConstants
<1>12. Machine!Set(Machine!Instr.operand1,
          Machine!Alu(Machine!Instr.opcode, BarRegs[Machine!Instr.operand1], Machine!Operand))
  BY <1>6, <1>8, <1>10
<1> QED
  BY <1>3, <1>4, <1>5, <1>6, <1>7, <1>11, <1>12 DEF Machine!Compute, BarRegs, BarMem

LEMMA NegateStep ==
  ASSUME RunInv, NEW o, InDriver(o), pending_instruction.opcode = NOT,
         o = ExecNot(cpu, pending_instruction, output_dev), o.ret # EINVAL
  PROVE  Machine!Negate
<1> DEFINE r == pending_instruction.operand2
<1>1. pending_instruction.mode = REGISTER /\ r \in Regs
  BY DEF ExecNot, Illegal, Outcome
<1>2. cpu \in Cpu
  BY DEF RunInv, TypeOK
<1>3. PICK v : v = WordMod - 1 - cpu.regs[r]
  OBVIOUS
<1>4. cpu' = [cpu EXCEPT !.pc = NextPc(cpu), !.regs[r] = v] /\ output_dev' = output_dev
  BY <1>1, <1>3 DEF InDriver, ExecNot, Outcome
<1>5. /\ cpu'.pc = (cpu.pc + INSTR_SIZE) % WordMod /\ cpu'.fr = cpu.fr
      /\ cpu'.regs = [cpu.regs EXCEPT ![r] = v]
  BY <1>2, <1>4 DEF Cpu, NextPc
<1>6. Machine!GoOn(cpu.pc + INSTR_SIZE, <<>>) /\ BarMem' = BarMem /\ BarRegs' = cpu'.regs
  BY <1>5, MachineGoesOn DEF InDriver
<1>7. BarRegs = cpu.regs /\ Machine!Instr = pending_instruction
  BY AtExec DEF InDriver
<1>8. Machine!FallThrough(<<>>)
  BY <1>6, SameConstants DEF Machine!FallThrough
<1>9. -1 - BarRegs[r] + Machine!WordMod = v
  <2>1. cpu.regs[r] \in Int /\ WordMod \in Int
    BY <1>1, <1>2, Widths DEF Cpu, Word
  <2> QED
    BY <1>3, <1>7, <2>1, SameConstants
<1>10. BarRegs' = [BarRegs EXCEPT ![r] = v]
  BY <1>5, <1>6, <1>7
<1>11. Machine!Set(r, v)
  BY <1>10 DEF Machine!Set, BarRegs
<1>12. Machine!Set(Machine!Instr.operand2, -1 - BarRegs[Machine!Instr.operand2] + Machine!WordMod)
  BY <1>7, <1>9, <1>11
<1> QED
  BY <1>1, <1>4, <1>5, <1>6, <1>7, <1>8, <1>12, SameConstants DEF Machine!Negate, BarRegs, BarMem

LEMMA CompareStep ==
  ASSUME RunInv, NEW o, InDriver(o), pending_instruction.opcode = CMP,
         TwoOperands(pending_instruction), o = ExecCmp(cpu, pending_instruction, output_dev)
  PROVE  Machine!Compare
<1>1. PICK d : d = SignedDiff(cpu.regs[pending_instruction.operand1], Source(cpu, pending_instruction))
  OBVIOUS
<1>2. cpu \in Cpu
  BY DEF RunInv, TypeOK
<1>3. PICK f : f = handle_compare(cpu.fr, d)
  OBVIOUS
<1>4. cpu' = [cpu EXCEPT !.pc = NextPc(cpu), !.fr = f] /\ output_dev' = output_dev
  BY <1>1, <1>3 DEF InDriver, ExecCmp, Outcome
<1>5. cpu'.pc = (cpu.pc + INSTR_SIZE) % WordMod /\ cpu'.fr = f /\ cpu'.regs = cpu.regs
  BY <1>2, <1>4 DEF Cpu, NextPc
<1>6. d \in Int
  <2>1. cpu.regs[pending_instruction.operand1] \in Word /\ Source(cpu, pending_instruction) \in Word
    BY <1>2, CpuParts DEF RunInv, TypeOK
  <2> QED
    BY <1>1, <2>1, SignedDiffIs
<1>7. f = IF d = 0 THEN {"ZF"} ELSE IF d < 0 THEN {"SF", "CF"} ELSE {}
  <2>1. cpu.fr \subseteq {"ZF", "SF", "CF"}
    BY <1>2 DEF Cpu
  <2>2. d = 0 => ~(d < 0)
    BY <1>6
  <2> QED
    BY <1>3, <2>1, <2>2 DEF handle_compare
<1>8. Machine!GoOn(cpu.pc + INSTR_SIZE, <<>>) /\ BarMem' = BarMem /\ BarRegs' = cpu'.regs
  BY <1>5, MachineGoesOn DEF InDriver
<1>9. BarRegs = cpu.regs /\ Machine!Instr = pending_instruction
  BY AtExec DEF InDriver
<1>10. Machine!FallThrough(<<>>)
  BY <1>8, SameConstants DEF Machine!FallThrough
<1>11. Machine!SignedDiff(BarRegs[Machine!Instr.operand1], Machine!Operand) = d
  BY <1>1, <1>9, SameAlu, SameOperand DEF InDriver
<1>12. Machine!Instr.opcode = Machine!CMP /\ Machine!TwoOperands(Machine!Instr)
  BY <1>9, SameTwoOperands, SameConstants
<1> QED
  BY <1>4, <1>5, <1>7, <1>8, <1>9, <1>10, <1>11, <1>12 DEF Machine!Compare, BarRegs, BarMem

\* The machine's branches look at all of the flags, the driver's at one or two.
LEMMA BranchStep ==
  ASSUME RunInv, MachineInv, NEW o, InDriver(o), pending_instruction.opcode \in {JMP, JE, JG, JL},
         o = ExecBranch(cpu, pending_instruction, output_dev)
  PROVE  Machine!Branch
<1> DEFINE op == pending_instruction.opcode
<1>1. PICK p : p = IF Taken(op, cpu.fr) THEN pending_instruction.operand2 * INSTR_SIZE
                   ELSE cpu.pc + INSTR_SIZE
  OBVIOUS
<1>2. cpu \in Cpu
  BY DEF RunInv, TypeOK
<1>3. cpu' = [cpu EXCEPT !.pc = p % WordMod] /\ output_dev' = output_dev
  BY <1>1 DEF InDriver, ExecBranch, Outcome, NextPc
<1>4. cpu'.pc = p % WordMod /\ cpu'.fr = cpu.fr /\ cpu'.regs = cpu.regs
  BY <1>2, <1>3 DEF Cpu
<1>5. Machine!GoOn(p, <<>>) /\ BarMem' = BarMem /\ BarRegs' = cpu'.regs
  BY <1>4, MachineGoesOn DEF InDriver
<1>6. BarRegs = cpu.regs /\ Machine!Instr = pending_instruction
  BY AtExec DEF InDriver
<1>7. Taken(op, cpu.fr) <=> \/ op = JMP
                            \/ op = JE /\ cpu.fr = {"ZF"}
                            \/ op = JG /\ cpu.fr = {}
                            \/ op = JL /\ cpu.fr = {"SF", "CF"}
  BY DEF MachineInv, Taken
<1> DEFINE taken == \/ op = Machine!JMP
                    \/ op = Machine!JE /\ cpu.fr = {"ZF"}
                    \/ op = Machine!JG /\ cpu.fr = {}
                    \/ op = Machine!JL /\ cpu.fr = {"SF", "CF"}
<1>8. Machine!GoOn(IF taken THEN pending_instruction.operand2 * Machine!INSTR_SIZE
                   ELSE cpu.pc + Machine!INSTR_SIZE, <<>>)
  <2>1. taken <=> Taken(op, cpu.fr)
    BY <1>7, SameConstants
  <2>2. p = IF taken THEN pending_instruction.operand2 * Machine!INSTR_SIZE
            ELSE cpu.pc + Machine!INSTR_SIZE
    BY <1>1, <2>1, SameConstants
  <2> HIDE DEF taken
  <2> QED
    BY <1>5, <2>2
<1>9. Machine!Instr.opcode \in {Machine!JMP, Machine!JE, Machine!JG, Machine!JL}
  BY <1>6, SameConstants
<1> QED
  BY <1>3, <1>4, <1>5, <1>6, <1>8, <1>9 DEF Machine!Branch, BarRegs, BarMem

LEMMA SameDirect ==
  ASSUME RunInv, phase = "exec", NEW mode
  PROVE  Machine!Direct(mode) <=> /\ pending_instruction.opcode = MOV /\ pending_instruction.mode = mode
                                  /\ pending_instruction.operand1 \in Regs
BY AtExec, SameConstants DEF Machine!Direct

LEMMA BelowDevices ==
  ASSUME NEW a \in Word
  PROVE  ~is_mmio(a) <=> a < MMIO_START
BY Widths, MemAssumption DEF is_mmio, Word

LEMMA LoadCases ==
  ASSUME NEW c, NEW instr, NEW input, NEW out
  PROVE  LET o == ExecLoad(c, instr, input, out) IN
         \/ ~is_mmio(instr.operand2) /\ o = Defer(c, instr, EXEC_PENDING_MEM_READ, out)
         \/ /\ instr.operand2 = MMIO_INPUT /\ instr.operand1 \in Regs
            /\ o = Outcome([c EXCEPT !.pc = NextPc(c), !.regs[instr.operand1] = MmioValue(input),
                                     !.pending_mmio_read = MmioValue(input)],
                           EXEC_PENDING_MMIO_READ, out)
         \/ /\ is_mmio(instr.operand2) /\ ~(instr.operand2 = MMIO_INPUT /\ instr.operand1 \in Regs)
            /\ o = Illegal(c, out)
<1>1. is_mmio(MMIO_INPUT)
  BY Devices
<1> QED
  BY <1>1 DEF ExecLoad

\* The result code of an outcome, and what is pending after a deferred access.
LEMMA Returned ==
  ASSUME NEW c \in Cpu, NEW instr, NEW ret, NEW out
  PROVE  /\ Outcome(c, ret, out) = [cpu |-> c, ret |-> ret, out |-> out]
         /\ Outcome(c, ret, out).ret = ret /\ Illegal(c, out).ret = EINVAL
         /\ Defer(c, instr, ret, out).ret = ret
         /\ Defer(c, instr, ret, out).cpu.pending_reg_idx = instr.operand1
BY DEF Outcome, Illegal, Defer, Cpu

LEMMA InputStep ==
  ASSUME RunInv, NEW o, InDriver(o), NEW input \in Inputs, pending_instruction.opcode = MOV,
         pending_instruction.mode = DIRECT_LOAD, o.ret \notin {EINVAL, EXEC_PENDING_MEM_READ},
         o = ExecLoad(cpu, pending_instruction, input, output_dev)
  PROVE  Machine!Input
<1> DEFINE r == pending_instruction.operand1
<1>1. PICK v : v = input % ByteMod
  OBVIOUS
<1>2. cpu \in Cpu
  BY DEF RunInv, TypeOK
<1>3. /\ pending_instruction.operand2 = MMIO_INPUT /\ r \in Regs
      /\ o = Outcome([cpu EXCEPT !.pc = NextPc(cpu), !.regs[r] = v, !.pending_mmio_read = v],
                     EXEC_PENDING_MMIO_READ, output_dev)
  <2>1. /\ Illegal(cpu, output_dev).ret = EINVAL
        /\ Defer(cpu, pending_instruction, EXEC_PENDING_MEM_READ, output_dev).ret = EXEC_PENDING_MEM_READ
    BY <1>2, Returned
  <2>2. MmioValue(input) = v
    BY <1>1 DEF MmioValue
  <2> QED
    BY <2>1, <2>2, LoadCases
<1>4. /\ cpu' = [cpu EXCEPT !.pc = NextPc(cpu), !.regs[r] = v, !.pending_mmio_read = v]
      /\ output_dev' = output_dev
  BY <1>3 DEF InDriver, Outcome
<1>5. /\ cpu'.pc = (cpu.pc + INSTR_SIZE) % WordMod /\ cpu'.fr = cpu.fr
      /\ cpu'.regs = [cpu.regs EXCEPT ![r] = v]
  BY <1>2, <1>4 DEF Cpu, NextPc
<1>6. Machine!GoOn(cpu.pc + INSTR_SIZE, <<>>) /\ BarMem' = BarMem /\ BarRegs' = cpu'.regs
  BY <1>5, MachineGoesOn DEF InDriver
<1>7. BarRegs = cpu.regs /\ Machine!Instr = pending_instruction /\ Machine!Direct(Machine!DIRECT_LOAD)
  BY <1>3, AtExec, SameDirect, SameConstants DEF InDriver
<1>8. Machine!FallThrough(<<>>)
  BY <1>6, SameConstants DEF Machine!FallThrough
<1>9. BarRegs' = [BarRegs EXCEPT ![r] = v]
  BY <1>5, <1>6, <1>7
<1>10. Machine!Set(Machine!Instr.operand1, input % Machine!ByteMod)
  BY <1>1, <1>7, <1>9, SameConstants DEF Machine!Set, BarRegs
<1> QED
  BY <1>3, <1>4, <1>5, <1>6, <1>7, <1>8, <1>10 DEF Machine!Input, BarRegs, BarMem

LEMMA OutputStep ==
  ASSUME RunInv, NEW o, InDriver(o), pending_instruction.opcode = MOV,
         pending_instruction.mode = DIRECT_STORE, o = ExecStore(cpu, pending_instruction, output_dev),
         o.ret \notin {EINVAL, EXEC_PENDING_MEM_WRITE, EXEC_HALT}
  PROVE  Machine!Output
<1> DEFINE r == pending_instruction.operand1
<1>2. cpu \in Cpu
  BY DEF RunInv, TypeOK
<1>1. /\ pending_instruction.operand2 = MMIO_OUTPUT /\ r \in Regs /\ cpu.regs[r] \in {0, 1}
      /\ o = Outcome([cpu EXCEPT !.pc = NextPc(cpu)], EXEC_SUCCESS, cpu.regs[r])
  <2>1. /\ Illegal(cpu, output_dev).ret = EINVAL
        /\ Outcome(cpu, EXEC_HALT, output_dev).ret = EXEC_HALT
        /\ Defer(cpu, pending_instruction, EXEC_PENDING_MEM_WRITE, output_dev).ret = EXEC_PENDING_MEM_WRITE
    BY <1>2, Returned
  <2> QED
    BY <2>1, StoreCases
<1>3. cpu' = [cpu EXCEPT !.pc = NextPc(cpu)] /\ output_dev' = cpu.regs[r]
  BY <1>1 DEF InDriver, Outcome
<1>4. cpu'.pc = (cpu.pc + INSTR_SIZE) % WordMod /\ cpu'.fr = cpu.fr /\ cpu'.regs = cpu.regs
  BY <1>2, <1>3 DEF Cpu, NextPc
<1>5. Machine!GoOn(cpu.pc + INSTR_SIZE, <<>>) /\ BarMem' = BarMem /\ BarRegs' = cpu'.regs
  BY <1>4, MachineGoesOn DEF InDriver
<1>6. BarRegs = cpu.regs /\ Machine!Instr = pending_instruction /\ Machine!Direct(Machine!DIRECT_STORE)
  BY <1>1, AtExec, SameDirect, SameConstants DEF InDriver
<1>7. Machine!FallThrough(<<>>)
  BY <1>5, SameConstants DEF Machine!FallThrough
<1> QED
  BY <1>1, <1>3, <1>4, <1>5, <1>6, <1>7 DEF Machine!Output, BarRegs, BarMem

\* An instruction that ends the run is none that the machine promises to execute.
LEMMA IllegalIs ==
  ASSUME RunInv, phase = "exec", NEW o \in Outcomes,
         \/ o.ret = EINVAL
         \/ /\ o.ret \in {EXEC_PENDING_MEM_READ, EXEC_PENDING_MEM_WRITE}
            /\ o.cpu.pending_reg_idx \notin Regs
  PROVE  ~Machine!IsLegal
<1> DEFINE instr == pending_instruction
<1>1. PICK v \in Inputs : o = execute_instruction(cpu, instr, v, output_dev)
  BY DEF Outcomes
<1>2. cpu \in Cpu /\ instr.operand2 \in Word
  BY DEF RunInv, TypeOK, Instruction
<1>3. Machine!IsLegal <=>
        \/ TwoOperands(instr) /\ instr.opcode \in {ADD, SUB, AND, OR, MOV, CMP}
        \/ instr.opcode = NOT /\ instr.mode = REGISTER /\ instr.operand2 \in Regs
        \/ instr.opcode \in {JMP, JE, JG, JL}
        \/ /\ instr.opcode = MOV /\ instr.mode = DIRECT_LOAD /\ instr.operand1 \in Regs
           /\ ~is_mmio(instr.operand2) \/ instr.operand2 = MMIO_INPUT
        \/ /\ instr.opcode = MOV /\ instr.mode = DIRECT_STORE /\ instr.operand1 \in Regs
           /\ \/ ~is_mmio(instr.operand2)
              \/ instr.operand2 = MMIO_OUTPUT /\ cpu.regs[instr.operand1] \in {0, 1}
        \/ instr.opcode = MOV /\ instr.mode = DIRECT_STORE /\ instr.operand2 = MMIO_HALT
  <2>1. Machine!Instr = instr /\ BarRegs = cpu.regs
    BY AtExec
  <2>2. ~is_mmio(instr.operand2) <=> instr.operand2 < MMIO_START
    BY <1>2, BelowDevices
  <2>3. Machine!Direct(Machine!DIRECT_LOAD) <=> /\ instr.opcode = MOV /\ instr.mode = DIRECT_LOAD
                                                /\ instr.operand1 \in Regs
    BY SameDirect, SameConstants
  <2>4. Machine!Direct(Machine!DIRECT_STORE) <=> /\ instr.opcode = MOV /\ instr.mode = DIRECT_STORE
                                                 /\ instr.operand1 \in Regs
    BY SameDirect, SameConstants
  <2>5. Machine!TwoOperands(instr) <=> TwoOperands(instr)
    BY SameTwoOperands
  <2> HIDE DEF instr
  <2> QED
    BY <2>1, <2>2, <2>3, <2>4, <2>5, SameConstants DEF Machine!IsLegal, BarRegs
<1>4. /\ \A ret : Outcome(cpu, ret, output_dev).ret = ret
      /\ Illegal(cpu, output_dev).ret = EINVAL
      /\ \A ret : /\ Defer(cpu, instr, ret, output_dev).ret = ret
                  /\ Defer(cpu, instr, ret, output_dev).cpu.pending_reg_idx = instr.operand1
  BY <1>2, Returned
<1>5. CASE instr.opcode \in {ADD, SUB, AND, OR, MOV} /\ TwoOperands(instr) /\ o = ExecCompute(cpu, instr, output_dev)
  BY <1>5 DEF ExecCompute, Outcome, EXEC_SUCCESS, EINVAL, EXEC_PENDING_MEM_READ, EXEC_PENDING_MEM_WRITE
<1>6. CASE instr.opcode = NOT /\ o = ExecNot(cpu, instr, output_dev)
  <2>1. ~(instr.mode = REGISTER /\ instr.operand2 \in Regs)
    BY <1>6 DEF ExecNot, Outcome, EXEC_SUCCESS, EINVAL, EXEC_PENDING_MEM_READ, EXEC_PENDING_MEM_WRITE
  <2> QED
    BY <1>3, <1>6, <2>1 DEF ADD, SUB, AND, OR, MOV, CMP, JMP, JE, JG, JL, NOT
<1>7. CASE instr.opcode = CMP /\ TwoOperands(instr) /\ o = ExecCmp(cpu, instr, output_dev)
  BY <1>7 DEF ExecCmp, Outcome, EXEC_SUCCESS, EINVAL, EXEC_PENDING_MEM_READ, EXEC_PENDING_MEM_WRITE
<1>8. CASE instr.opcode \in {JMP, JE, JG, JL} /\ o = ExecBranch(cpu, instr, output_dev)
  BY <1>8 DEF ExecBranch, Outcome, EXEC_SUCCESS, EINVAL, EXEC_PENDING_MEM_READ, EXEC_PENDING_MEM_WRITE
<1>9. instr.opcode = MOV => instr.opcode # NOT /\ instr.opcode \notin {JMP, JE, JG, JL}
  BY DEF MOV, NOT, JMP, JE, JG, JL
<1>10. instr.mode \in {DIRECT_LOAD, DIRECT_STORE} => ~TwoOperands(instr) /\ DIRECT_LOAD # DIRECT_STORE
  BY DEF TwoOperands, DIRECT_LOAD, DIRECT_STORE, IMMEDIATE, REGISTER
<1>11. CASE instr.opcode = MOV /\ instr.mode = DIRECT_LOAD /\ o = ExecLoad(cpu, instr, v, output_dev)
  <2>1. \/ ~is_mmio(instr.operand2) /\ instr.operand1 \notin Regs
        \/ is_mmio(instr.operand2) /\ ~(instr.operand2 = MMIO_INPUT /\ instr.operand1 \in Regs)
    <3>1. CASE /\ ~is_mmio(instr.operand2)
               /\ o = Defer(cpu, instr, EXEC_PENDING_MEM_READ, output_dev)
      BY <1>4, <3>1 DEF EINVAL, EXEC_PENDING_MEM_READ
    <3>2. o.ret # EXEC_PENDING_MMIO_READ
      BY DEF EINVAL, EXEC_PENDING_MEM_READ, EXEC_PENDING_MEM_WRITE, EXEC_PENDING_MMIO_READ
    <3>3. \A c, ret, out : Outcome(c, ret, out).ret = ret
      BY DEF Outcome
    <3>4. CASE \E c : o = Outcome(c, EXEC_PENDING_MMIO_READ, output_dev)
      BY <3>2, <3>3, <3>4
    <3>5. \/ ~is_mmio(instr.operand2) /\ o = Defer(cpu, instr, EXEC_PENDING_MEM_READ, output_dev)
          \/ \E c : o = Outcome(c, EXEC_PENDING_MMIO_READ, output_dev)
          \/ is_mmio(instr.operand2) /\ ~(instr.operand2 = MMIO_INPUT /\ instr.operand1 \in Regs)
      BY <1>11, LoadCases
    <3> QED
      BY <3>1, <3>4, <3>5
  <2> QED
    BY <1>3, <1>9, <1>10, <1>11, <2>1
<1>12. CASE instr.opcode = MOV /\ instr.mode = DIRECT_STORE /\ o = ExecStore(cpu, instr, output_dev)
  <2>1. \/ ~is_mmio(instr.operand2) /\ instr.operand1 \notin Regs
        \/ /\ is_mmio(instr.operand2) /\ instr.operand2 # MMIO_HALT
           /\ ~(instr.operand2 = MMIO_OUTPUT /\ instr.operand1 \in Regs /\ cpu.regs[instr.operand1] \in {0, 1})
    <3>1. CASE /\ ~is_mmio(instr.operand2)
               /\ o = Defer(cpu, instr, EXEC_PENDING_MEM_WRITE, output_dev)
      BY <1>4, <3>1 DEF EINVAL, EXEC_PENDING_MEM_WRITE
    <3>2. o.ret # EXEC_HALT /\ o.ret # EXEC_SUCCESS
      BY DEF EINVAL, EXEC_PENDING_MEM_READ, EXEC_PENDING_MEM_WRITE, EXEC_HALT, EXEC_SUCCESS
    <3> QED
      BY <1>12, <3>1, <3>2, StoreCases DEF Outcome
  <2>2. is_mmio(MMIO_HALT)
    BY Devices
  <2> QED
    BY <1>3, <1>9, <1>10, <1>12, <2>1, <2>2
<1>13. CASE \/ instr.opcode \in {ADD, SUB, AND, OR, CMP} /\ ~TwoOperands(instr)
            \/ /\ instr.opcode = MOV /\ ~TwoOperands(instr)
               /\ instr.mode \notin {DIRECT_LOAD, DIRECT_STORE}
            \/ instr.opcode \notin {ADD, SUB, AND, OR, NOT, MOV, CMP, JMP, JE, JG, JL}
  BY <1>3, <1>13 DEF ADD, SUB, AND, OR, MOV, CMP, JMP, JE, JG, JL, NOT
<1> QED
  BY <1>1, <1>5, <1>6, <1>7, <1>8, <1>11, <1>12, <1>13, ExecCases

\* The instructions that HALT and that leave an access to the client.
LEMMA ReturnCases ==
  ASSUME TypeOK, NEW o \in Outcomes
  PROVE  LET instr == pending_instruction IN
         /\ o.ret = EXEC_HALT =>
              /\ instr.opcode = MOV /\ instr.mode = DIRECT_STORE /\ instr.operand2 = MMIO_HALT
              /\ o = Outcome(cpu, EXEC_HALT, output_dev)
         /\ o.ret \in {EXEC_PENDING_MEM_READ, EXEC_PENDING_MEM_WRITE} =>
              /\ instr.opcode = MOV /\ ~is_mmio(instr.operand2)
              /\ instr.mode = IF o.ret = EXEC_PENDING_MEM_READ THEN DIRECT_LOAD ELSE DIRECT_STORE
              /\ o = Defer(cpu, instr, o.ret, output_dev)
<1> DEFINE instr == pending_instruction
           Special == {EXEC_HALT, EXEC_PENDING_MEM_READ, EXEC_PENDING_MEM_WRITE}
<1> SUFFICES ASSUME o.ret \in Special
             PROVE  \/ /\ o.ret = EXEC_HALT
                       /\ instr.opcode = MOV /\ instr.mode = DIRECT_STORE /\ instr.operand2 = MMIO_HALT
                       /\ o = Outcome(cpu, EXEC_HALT, output_dev)
                    \/ /\ o.ret \in {EXEC_PENDING_MEM_READ, EXEC_PENDING_MEM_WRITE}
                       /\ instr.opcode = MOV /\ ~is_mmio(instr.operand2)
                       /\ instr.mode = IF o.ret = EXEC_PENDING_MEM_READ THEN DIRECT_LOAD ELSE DIRECT_STORE
                       /\ o = Defer(cpu, instr, o.ret, output_dev)
  BY DEF EXEC_HALT, EXEC_PENDING_MEM_READ, EXEC_PENDING_MEM_WRITE
<1>1. PICK v \in Inputs : o = execute_instruction(cpu, instr, v, output_dev)
  BY DEF Outcomes
<1>2. \A c, ret, out : Outcome(c, ret, out).ret = ret
  BY DEF Outcome
<1>3. /\ EINVAL \notin Special /\ EXEC_SUCCESS \notin Special /\ EXEC_PENDING_MMIO_READ \notin Special
      /\ EXEC_PENDING_MEM_READ # EXEC_PENDING_MEM_WRITE
  BY DEF EINVAL, EXEC_SUCCESS, EXEC_PENDING_MMIO_READ, EXEC_HALT, EXEC_PENDING_MEM_READ, EXEC_PENDING_MEM_WRITE
<1> HIDE DEF Special
<1>4. \A c : o # Outcome(c, EXEC_SUCCESS, output_dev) /\ o # Outcome(c, EXEC_PENDING_MMIO_READ, output_dev)
  BY <1>2, <1>3
<1>5. o # Illegal(cpu, output_dev)
  BY <1>2, <1>3 DEF Illegal
<1>6. /\ o # ExecCompute(cpu, instr, output_dev) /\ o # ExecCmp(cpu, instr, output_dev)
      /\ o # ExecBranch(cpu, instr, output_dev)
  BY <1>4 DEF ExecCompute, ExecCmp, ExecBranch
<1>7. o # ExecNot(cpu, instr, output_dev)
  BY <1>4, <1>5 DEF ExecNot
<1>8. \A ret : Defer(cpu, instr, ret, output_dev).ret = ret
  BY <1>2 DEF Defer
<1>9. CASE instr.opcode = MOV /\ instr.mode = DIRECT_LOAD /\ o = ExecLoad(cpu, instr, v, output_dev)
  <2>1. /\ ~is_mmio(instr.operand2)
        /\ o = Defer(cpu, instr, EXEC_PENDING_MEM_READ, output_dev)
    BY <1>4, <1>5, <1>9, LoadCases
  <2>2. o.ret = EXEC_PENDING_MEM_READ
    BY <1>8, <2>1
  <2> QED
    BY <1>9, <2>1, <2>2
<1>10. CASE instr.opcode = MOV /\ instr.mode = DIRECT_STORE /\ o = ExecStore(cpu, instr, output_dev)
  <2>1. \/ ~is_mmio(instr.operand2) /\ o = Defer(cpu, instr, EXEC_PENDING_MEM_WRITE, output_dev)
        \/ instr.operand2 = MMIO_HALT /\ o = Outcome(cpu, EXEC_HALT, output_dev)
        \/ \E c, w : o = Outcome(c, EXEC_SUCCESS, w)
    BY <1>5, <1>10, StoreCases
  <2>2. ~\E c, w : o = Outcome(c, EXEC_SUCCESS, w)
    BY <1>2, <1>3
  <2>3. CASE ~is_mmio(instr.operand2) /\ o = Defer(cpu, instr, EXEC_PENDING_MEM_WRITE, output_dev)
    <3>1. o.ret = EXEC_PENDING_MEM_WRITE
      BY <1>8, <2>3
    <3> QED
      BY <1>3, <1>10, <2>3, <3>1
  <2>4. CASE instr.operand2 = MMIO_HALT /\ o = Outcome(cpu, EXEC_HALT, output_dev)
    BY <1>2, <1>10, <2>4
  <2> QED
    BY <2>1, <2>2, <2>3, <2>4
<1> QED
  BY <1>1, <1>5, <1>6, <1>7, <1>9, <1>10, ExecCases

\* The machine's log when the client still owes an access to address a.
LEMMA OwedLog ==
  ASSUME RunInv, NEW a \in Word, NEW t \in {READ, WRITE}, NEW p \in Word
  PROVE  trace \o (<<mem_access(a, t)>> \o FetchLog(p)) = (trace \o <<mem_access(a, t)>>) \o FetchLog(p)
<1>1. trace \in Seq(Access)
  BY DEF RunInv, TypeOK, Access
<1>2. mem_access(a, t) \in Access /\ mem_access(p, READ) \in Access
  BY DEF mem_access, Access
<1>3. <<mem_access(a, t)>> \in Seq(Access) /\ FetchLog(p) \in Seq(Access)
  BY <1>2 DEF FetchLog
<1> QED
  BY <1>1, <1>3, ConcatAssociative

\* The step Exec, for the outcome o.
Executes(o) ==
  /\ phase = "exec" /\ o.ret # EINVAL /\ ~BadStore(o)
  /\ Driver(o)
  /\ read_buf' = Result(o) /\ phase' = Dispatch(o)
  /\ UNCHANGED <<memory, count, write_buf, i, trace, issued, failed>>

\* After an instruction that is left to the client.
LEMMA Deferred ==
  ASSUME RunInv, NEW o \in Outcomes, Executes(o), phase' \in {"load", "store"}
  PROVE  LET instr == pending_instruction IN
         /\ instr.opcode = MOV /\ instr.operand2 < MMIO_START
         /\ instr.mode = IF phase' = "load" THEN DIRECT_LOAD ELSE DIRECT_STORE
         /\ cpu'.pc = (cpu.pc + INSTR_SIZE) % WordMod /\ cpu'.pc \in Word /\ cpu'.regs = cpu.regs
         /\ cpu'.fr = cpu.fr /\ cpu'.pending_reg_idx = instr.operand1 /\ output_dev' = output_dev
         /\ read_buf'.pc = cpu'.pc /\ read_buf'.mem_addr = instr.operand2
         /\ phase' = "store" => instr.operand1 \in Regs /\ read_buf'.val = cpu.regs[instr.operand1]
<1> DEFINE instr == pending_instruction
<1>0. TypeOK /\ cpu \in Cpu /\ instr.operand2 \in Word
  BY DEF RunInv, TypeOK, Instruction
<1>1. o.ret = IF phase' = "load" THEN EXEC_PENDING_MEM_READ ELSE EXEC_PENDING_MEM_WRITE
  BY DispatchIs DEF Executes
<1>2. /\ instr.opcode = MOV /\ ~is_mmio(instr.operand2)
      /\ instr.mode = IF phase' = "load" THEN DIRECT_LOAD ELSE DIRECT_STORE
      /\ o = Defer(cpu, instr, o.ret, output_dev)
  BY <1>0, <1>1, ReturnCases DEF EXEC_PENDING_MEM_READ, EXEC_PENDING_MEM_WRITE
<1>3. PICK n : n = [cpu EXCEPT !.pc = NextPc(cpu), !.pending_mem_addr = instr.operand2,
                               !.pending_reg_idx = instr.operand1]
  OBVIOUS
<1>4. o.cpu = n /\ o.out = output_dev
  BY <1>2, <1>3 DEF Defer, Outcome
<1>5. /\ n.pc = (cpu.pc + INSTR_SIZE) % WordMod /\ n.regs = cpu.regs /\ n.fr = cpu.fr
      /\ n.pending_mem_addr = instr.operand2 /\ n.pending_reg_idx = instr.operand1
  BY <1>0, <1>3 DEF Cpu, NextPc
<1>6. cpu' = n /\ output_dev' = output_dev /\ ExecOK(cpu, instr, o) /\ cpu' \in Cpu
  BY <1>0, <1>4, DriverStep DEF Executes, Driver
<1>7. read_buf'.pc = n.pc /\ read_buf'.mem_addr = instr.operand2
  <2>1. Result(o).pc = o.cpu.pc /\ Result(o).mem_addr = o.cpu.pending_mem_addr
    BY <1>1, <1>6, ResultType DEF Executes
  <2> QED
    BY <1>4, <1>5, <2>1 DEF Executes
<1>8. ASSUME phase' = "store"
      PROVE  instr.operand1 \in Regs /\ read_buf'.val = cpu.regs[instr.operand1]
  <2>1. o.ret = EXEC_PENDING_MEM_WRITE
    BY <1>1, <1>8
  <2>2. instr.operand1 \in Regs
    BY <1>4, <1>5, <2>1 DEF Executes, BadStore
  <2>3. Result(o).val = o.cpu.regs[o.cpu.pending_reg_idx]
    BY <2>1 DEF Result, EXEC_PENDING_MEM_WRITE, EXEC_PENDING_MMIO_READ
  <2> QED
    BY <1>4, <1>5, <2>2, <2>3 DEF Executes
<1>9. instr.operand2 < MMIO_START
  BY <1>0, <1>2, BelowDevices
<1>10. cpu'.pc \in Word
  BY <1>6 DEF Cpu
<1> QED
  BY <1>2, <1>5, <1>6, <1>7, <1>8, <1>9, <1>10

LEMMA MachineLoads ==
  ASSUME RunInv, NEW o \in Outcomes, Executes(o), phase' = "load", ~Doomed'
  PROVE  Machine!Load
<1> DEFINE instr == pending_instruction
           p == cpu.pc + INSTR_SIZE
<1>1. /\ instr.opcode = MOV /\ instr.operand2 < MMIO_START /\ instr.mode = DIRECT_LOAD
      /\ cpu'.pc = p % WordMod /\ cpu'.pc \in Word /\ cpu'.regs = cpu.regs
      /\ cpu'.fr = cpu.fr /\ cpu'.pending_reg_idx = instr.operand1 /\ output_dev' = output_dev
      /\ read_buf'.pc = cpu'.pc /\ read_buf'.mem_addr = instr.operand2
  BY Deferred
<1>2. phase = "exec" /\ memory' = memory /\ trace' = trace /\ count' = count
  BY DEF Executes
<1>3. instr.operand2 \in Word /\ instr.operand1 \in Regs
  BY <1>1 DEF RunInv, TypeOK, Instruction, Doomed
<1>4. /\ BarRegs = cpu.regs /\ BarMem = memory /\ BarLog = trace /\ Status = "running"
      /\ Machine!Instr = instr
  BY <1>2, AtExec
<1>5. PICK v : v = read_from_memory(memory, instr.operand2)
  OBVIOUS
<1>6. BarRegs' = [BarRegs EXCEPT ![instr.operand1] = v]
  <2>1. BarRegs' = [cpu'.regs EXCEPT ![cpu'.pending_reg_idx] = read_from_memory(memory, read_buf.mem_addr)']
    BY DEF BarRegs
  <2>2. read_from_memory(memory, read_buf.mem_addr)' = v
    BY <1>1, <1>2, <1>5 DEF read_from_memory
  <2> QED
    BY <1>1, <1>4, <2>1, <2>2
<1>7. BarMem' = BarMem /\ Status' = Status
  BY <1>2, <1>4 DEF BarMem, Status
<1>8. BarLog' = (BarLog \o <<mem_access(instr.operand2, READ)>>) \o FetchLog(p % WordMod)
  <2>1. Owed' = <<mem_access(instr.operand2, READ)>> \o FetchLog(p % WordMod)
    BY <1>1 DEF Owed, FetchLog, CanFetch, mem_access
  <2>2. BarLog' = trace \o (<<mem_access(instr.operand2, READ)>> \o FetchLog(p % WordMod))
    BY <1>2, <2>1 DEF BarLog
  <2> QED
    BY <1>1, <1>3, <1>4, <2>2, OwedLog
<1>9. Machine!FallThrough(<<Machine!mem_access(Machine!Instr.operand2, Machine!READ)>>)
  <2>1. Machine!mem_access(Machine!Instr.operand2, Machine!READ) = mem_access(instr.operand2, READ)
    BY <1>4, SameMemory, SameConstants
  <2>2. BarLog' = (BarLog \o <<mem_access(instr.operand2, READ)>>) \o Machine!Fetching(p % WordMod)
    BY <1>8, FetchLogIs
  <2> QED
    BY <1>1, <1>2, <1>7, <2>1, <2>2, SameConstants DEF Machine!FallThrough, Machine!GoOn, BarLog
<1>10. Machine!Direct(Machine!DIRECT_LOAD)
  BY <1>1, <1>2, <1>3, SameDirect, SameConstants
<1>11. Machine!Set(Machine!Instr.operand1, Machine!read_from_memory(BarMem, Machine!Instr.operand2))
  BY <1>4, <1>5, <1>6, SameMemory DEF Machine!Set, BarRegs
<1> QED
  BY <1>1, <1>4, <1>7, <1>9, <1>10, <1>11 DEF Machine!Load, BarRegs, BarMem

LEMMA MachineStores ==
  ASSUME RunInv, NEW o \in Outcomes, Executes(o), phase' = "store"
  PROVE  Machine!Store
<1> DEFINE instr == pending_instruction
           p == cpu.pc + INSTR_SIZE
<1>1. /\ instr.opcode = MOV /\ instr.operand2 < MMIO_START /\ instr.mode = DIRECT_STORE
      /\ cpu'.pc = p % WordMod /\ cpu'.pc \in Word /\ cpu'.regs = cpu.regs
      /\ cpu'.fr = cpu.fr /\ output_dev' = output_dev
      /\ read_buf'.pc = cpu'.pc /\ read_buf'.mem_addr = instr.operand2
      /\ instr.operand1 \in Regs /\ read_buf'.val = cpu.regs[instr.operand1]
  BY Deferred
<1>2. phase = "exec" /\ memory' = memory /\ trace' = trace /\ count' = count
  BY DEF Executes
<1>3. instr.operand2 \in Word
  BY DEF RunInv, TypeOK, Instruction
<1>4. /\ BarRegs = cpu.regs /\ BarMem = memory /\ BarLog = trace /\ Status = "running"
      /\ Machine!Instr = instr
  BY <1>2, AtExec
<1>5. BarRegs' = BarRegs /\ Status' = Status
  BY <1>1, <1>4 DEF BarRegs, Status, Doomed
<1>6. BarMem' = write_to_memory(memory, instr.operand2, cpu.regs[instr.operand1])
  <2>1. BarMem' = write_to_memory(memory, read_buf.mem_addr, read_buf.val)'
    BY DEF BarMem
  <2> QED
    BY <1>1, <1>2, <2>1 DEF write_to_memory
<1>7. BarLog' = (BarLog \o <<mem_access(instr.operand2, WRITE)>>) \o FetchLog(p % WordMod)
  <2>1. Owed' = <<mem_access(instr.operand2, WRITE)>> \o FetchLog(p % WordMod)
    BY <1>1 DEF Owed, FetchLog, CanFetch, mem_access, Doomed
  <2>2. BarLog' = trace \o (<<mem_access(instr.operand2, WRITE)>> \o FetchLog(p % WordMod))
    BY <1>2, <2>1 DEF BarLog
  <2> QED
    BY <1>1, <1>3, <1>4, <2>2, OwedLog
<1>8. Machine!FallThrough(<<Machine!mem_access(Machine!Instr.operand2, Machine!WRITE)>>)
  <2>1. Machine!mem_access(Machine!Instr.operand2, Machine!WRITE) = mem_access(instr.operand2, WRITE)
    BY <1>4, SameMemory, SameConstants
  <2>2. BarLog' = (BarLog \o <<mem_access(instr.operand2, WRITE)>>) \o Machine!Fetching(p % WordMod)
    BY <1>7, FetchLogIs
  <2> QED
    BY <1>1, <1>2, <1>5, <2>1, <2>2, SameConstants DEF Machine!FallThrough, Machine!GoOn, BarLog
<1>9. Machine!Direct(Machine!DIRECT_STORE)
  BY <1>1, <1>2, SameDirect, SameConstants
<1>10. BarMem' = Machine!write_to_memory(BarMem, Machine!Instr.operand2, BarRegs[Machine!Instr.operand1])
  BY <1>4, <1>6, SameMemory
<1> QED
  BY <1>1, <1>4, <1>5, <1>8, <1>9, <1>10 DEF Machine!Store, BarRegs, BarMem

\* A run that ends without HALT.
LEMMA MachineStops ==
  ASSUME RunInv, phase = "exec", UNCHANGED <<memory, trace, count>>,
         \/ phase' \in {"broken", "oops"}
         \/ phase' = "load" /\ Doomed',
         ~Machine!InProgram \/ ~Machine!IsLegal
  PROVE  Machine!Next
<1>1. trace' \in Seq(Access)
  BY DEF RunInv, TypeOK, Access
<1>2. BarMem' = memory' /\ BarLog' = trace' /\ Status' = "stopped"
  BY <1>1, AfterEnd
<1>3. BarMem = memory /\ BarLog = trace /\ Status = "running"
  BY AtExec
<1>4. Machine!Stop
  BY <1>2, <1>3 DEF Machine!Stop, BarMem, BarLog
<1> QED
  BY <1>3, <1>4 DEF Machine!Next

LEMMA MachineHalts ==
  ASSUME RunInv, NEW o \in Outcomes, Executes(o), phase' = "halted"
  PROVE  Machine!HaltStep
<1>1. o.ret = EXEC_HALT /\ TypeOK
  BY DEF Executes, Dispatch, RunInv
<1>2. /\ pending_instruction.opcode = MOV /\ pending_instruction.mode = DIRECT_STORE
      /\ pending_instruction.operand2 = MMIO_HALT /\ o = Outcome(cpu, EXEC_HALT, output_dev)
  BY <1>1, ReturnCases
<1>3. cpu' = cpu /\ output_dev' = output_dev
  BY <1>2 DEF Executes, Driver, Outcome
<1>4. trace' \in Seq(Access)
  BY <1>1 DEF Executes, TypeOK, Access
<1>5. BarRegs' = cpu'.regs /\ BarMem' = memory' /\ BarLog' = trace' /\ Status' = "halted"
  BY <1>4, AfterEnd
<1>6. BarRegs = cpu.regs /\ BarMem = memory /\ BarLog = trace /\ Machine!Instr = pending_instruction
  BY AtExec DEF Executes
<1>7. memory' = memory /\ trace' = trace /\ count' = count
  BY DEF Executes
<1> QED
  BY <1>2, <1>3, <1>5, <1>6, <1>7, SameConstants DEF Machine!HaltStep, BarRegs, BarMem, BarLog

\* The instructions that the driver executes alone.
LEMMA MachineComputes ==
  ASSUME RunInv, MachineInv, NEW o \in Outcomes, Executes(o), phase' = "fetch"
  PROVE  Machine!Legal
<1> DEFINE instr == pending_instruction
<1>1. PICK v \in Inputs : o = execute_instruction(cpu, instr, v, output_dev)
  BY DEF Outcomes
<1>2. o.ret \notin {EINVAL, EXEC_HALT, EXEC_PENDING_MEM_READ, EXEC_PENDING_MEM_WRITE}
  BY DEF Executes, Dispatch
<1>3. InDriver(o)
  <2>1. ExecOK(cpu, instr, o)
    BY DriverStep DEF RunInv, Executes
  <2>2. Result(o).pc = o.cpu.pc
    BY <2>1, ResultType DEF Executes
  <2> QED
    BY <2>2 DEF InDriver, Executes, Driver
<1>4. o # Illegal(cpu, output_dev)
  BY <1>2 DEF Illegal, Outcome
<1>5. \/ Machine!Compute \/ Machine!Negate \/ Machine!Compare \/ Machine!Branch
      \/ Machine!Input \/ Machine!Output
  BY <1>1, <1>2, <1>3, <1>4, ExecCases, ComputeStep, NegateStep, CompareStep, BranchStep, InputStep,
     OutputStep
<1> QED
  BY <1>5 DEF Machine!Legal

LEMMA MachineExecutes ==
  ASSUME RunInv, MachineInv, Exec
  PROVE  Machine!Next
<1>1. PICK o \in Outcomes : Executes(o)
  BY DEF Exec, Executes
<1>2. phase = "exec" /\ UNCHANGED <<memory, trace, count>>
  BY <1>1 DEF Executes
<1>3. Status = "running" /\ (Machine!InProgram <=> ~(i >= count))
  BY <1>2, AtExec
<1>4. phase' \in {"broken", "halted", "load", "store", "fetch"}
      /\ (phase' \in {"load", "store", "fetch"} => ~(i >= count))
  BY <1>1, DispatchIs DEF Executes
<1>5. CASE phase' = "broken"
  <2>1. i >= count
    BY <1>1, <1>5 DEF Executes, Dispatch
  <2> QED
    BY <1>2, <1>3, <1>5, <2>1, MachineStops
<1>6. CASE phase' = "halted"
  <2>1. Machine!InProgram
    BY <1>1, <1>3, <1>6 DEF Executes, Dispatch
  <2> QED
    BY <1>1, <1>3, <1>6, <2>1, MachineHalts DEF Machine!Next
<1>7. CASE phase' = "load" /\ Doomed'
  <2>1. o.ret = EXEC_PENDING_MEM_READ /\ o.cpu.pending_reg_idx \notin Regs
    BY <1>1, <1>7, DispatchIs DEF Executes, Driver, Doomed
  <2>2. ~Machine!IsLegal
    BY <1>2, <2>1, IllegalIs
  <2> QED
    BY <1>2, <1>7, <2>2, MachineStops
<1>8. CASE (phase' = "load" /\ ~Doomed') \/ phase' \in {"store", "fetch"}
  <2>1. Machine!Load \/ Machine!Store \/ Machine!Legal
    BY <1>1, <1>8, MachineLoads, MachineStores, MachineComputes
  <2>2. Machine!Legal
    BY <2>1 DEF Machine!Legal
  <2>3. Machine!InProgram
    BY <1>3, <1>4, <1>8
  <2> QED
    BY <1>3, <2>2, <2>3 DEF Machine!Next
<1> QED
  BY <1>4, <1>5, <1>6, <1>7, <1>8

LEMMA MachineFails ==
  ASSUME RunInv, ExecFails \/ ExecOops, ~failed'
  PROVE  Machine!Next
<1>1. PICK o \in Outcomes : \/ o.ret = EINVAL
                            \/ BadStore(o)
  BY DEF ExecFails, ExecOops, Failure
<1>2. phase = "exec" /\ phase' \in {"broken", "oops"} /\ UNCHANGED <<memory, trace, count>>
  BY DEF ExecFails, ExecOops, Go, client
<1>3. ~Machine!IsLegal
  BY <1>1, <1>2, IllegalIs DEF BadStore
<1> QED
  BY <1>2, <1>3, MachineStops

\* What the machine sees.
LEMMA MachineVars ==
  /\ Machine!specVars = <<BarRegs, cpu.pc, cpu.fr, BarMem, output_dev, BarLog, count, Status>>
  /\ Machine!specVars' = <<BarRegs', cpu'.pc, cpu'.fr, BarMem', output_dev', BarLog', count', Status'>>
BY DEF Machine!specVars, BarRegs, BarMem, BarLog

\* An access that is recorded and no longer owed.
LEMMA Recorded ==
  ASSUME RunInv, NEW a \in Word, NEW t \in {READ, WRITE}, Record(a, t), ~failed'
  PROVE  /\ trace' = trace \o <<mem_access(a, t)>>
         /\ \A p \in Word : trace' \o FetchLog(p) = trace \o (<<mem_access(a, t)>> \o FetchLog(p))
         /\ trace' \o <<>> = trace'
<1>1. trace \in Seq(Access)
  BY DEF RunInv, TypeOK, Access
<1>2. mem_access(a, t) \in Access
  BY DEF mem_access, Access
<1>3. trace' = Append(trace, mem_access(a, t))
  BY DEF Record, Failure
<1>4. trace' = trace \o <<mem_access(a, t)>> /\ trace' \in Seq(Access)
  BY <1>1, <1>2, <1>3
<1>5. trace' \o <<>> = trace'
  BY <1>4
<1> QED
  BY <1>4, <1>5, OwedLog

LEMMA MachineStarts ==
  ASSUME RunInv, MachineInv, Open, ~failed'
  PROVE  Machine!Next
<1>1. /\ phase = "closed" /\ phase' = "issue" /\ Record(0, READ)
      /\ UNCHANGED <<cpu, output_dev, memory, count, read_buf>>
  BY DEF Open, Go, driver
<1>2. 0 \in Word /\ trace = <<>>
  BY <1>1, ByteIsWord DEF MachineInv
<1>3. trace' = <<mem_access(0, READ)>> /\ trace' \o <<>> = trace'
  <2>1. trace' = trace \o <<mem_access(0, READ)>> /\ trace' \o <<>> = trace'
    BY <1>1, <1>2, Recorded
  <2>2. \A x : <<>> \o <<x>> = <<x>>
    OBVIOUS
  <2> QED
    BY <1>2, <2>1, <2>2
<1>4. BarRegs' = BarRegs /\ BarMem' = BarMem
  BY <1>1 DEF BarRegs, BarMem
<1>5. Status = "ready" /\ Status' = "running" /\ Owed' = <<>>
  BY <1>1 DEF Status, Owed, Doomed
<1>6. BarLog' = <<mem_access(0, READ)>>
  BY <1>3, <1>5 DEF BarLog
<1>7. BarLog' = <<Machine!mem_access(0, Machine!READ)>>
  BY <1>6, SameMemory, SameConstants
<1>8. Machine!Start
  BY <1>1, <1>4, <1>5, <1>7 DEF Machine!Start, BarRegs, BarMem, BarLog
<1> QED
  BY <1>8 DEF Machine!Next

\* The client's steps after an instruction do what the machine counts as done.
LEMMA ClientServes ==
  ASSUME RunInv, LoadWord \/ LoadOops \/ LoadTrace \/ StoreWord \/ Fetch, ~failed'
  PROVE  UNCHANGED Machine!specVars
<1>0. TypeOK /\ cpu \in Cpu /\ read_buf.pc \in Word /\ read_buf.mem_addr \in Word
  BY DEF RunInv, TypeOK, ReadValue
<1>1. CASE LoadWord
  <2>1. PICK v : v = read_from_memory(memory, read_buf.mem_addr)
    OBVIOUS
  <2>2. /\ phase = "load" /\ phase' = "loadTrace" /\ cpu.pending_reg_idx \in Regs
        /\ cpu' = [cpu EXCEPT !.regs[cpu.pending_reg_idx] = v]
        /\ UNCHANGED <<output_dev, memory, count, read_buf, trace>>
    BY <1>1, <2>1 DEF LoadWord, Go, client
  <2>3. cpu'.regs = [cpu.regs EXCEPT ![cpu.pending_reg_idx] = v] /\ cpu'.pc = cpu.pc /\ cpu'.fr = cpu.fr
    BY <1>0, <2>2 DEF Cpu
  <2>4. BarRegs = cpu'.regs /\ BarRegs' = cpu'.regs /\ BarMem' = BarMem
    BY <2>1, <2>2, <2>3 DEF BarRegs, BarMem, Doomed
  <2>5. Status' = Status /\ Owed' = Owed
    BY <2>2 DEF Status, Owed, Doomed, CanFetch, mem_access
  <2> QED
    BY <2>2, <2>3, <2>4, <2>5, MachineVars DEF BarLog
<1>2. CASE LoadOops
  <2>1. /\ phase = "load" /\ phase' = "oops" /\ Doomed
        /\ UNCHANGED <<cpu, output_dev, memory, count, read_buf, trace>>
    BY <1>2 DEF LoadOops, Go, driver, client, Doomed
  <2>2. BarRegs' = BarRegs /\ BarMem' = BarMem
    BY <2>1 DEF BarRegs, BarMem
  <2>3. Status' = Status /\ Owed' = Owed
    BY <2>1 DEF Status, Owed
  <2> QED
    BY <2>1, <2>2, <2>3, MachineVars DEF BarLog
<1>3. CASE LoadTrace
  <2>1. /\ phase = "loadTrace" /\ phase' = "fetch" /\ Record(read_buf.mem_addr, READ)
        /\ UNCHANGED <<cpu, output_dev, memory, count, read_buf>>
    BY <1>3 DEF LoadTrace, Go, driver, client
  <2>2. BarRegs' = BarRegs /\ BarMem' = BarMem /\ Status' = Status
    BY <2>1 DEF BarRegs, BarMem, Status, Doomed
  <2>3. Owed = <<mem_access(read_buf.mem_addr, READ)>> \o FetchLog(read_buf.pc)
    BY <2>1 DEF Owed, FetchLog, Doomed
  <2>4. BarLog' = trace' \o FetchLog(read_buf.pc)
    BY <2>1, AfterFetchPhase
  <2>5. BarLog' = BarLog
    BY <1>0, <2>1, <2>3, <2>4, Recorded DEF BarLog
  <2> QED
    BY <2>1, <2>2, <2>5, MachineVars
<1>4. CASE StoreWord
  <2>1. /\ phase = "store" /\ phase' = "fetch" /\ Record(read_buf.mem_addr, WRITE)
        /\ memory' = write_to_memory(memory, read_buf.mem_addr, read_buf.val)
        /\ UNCHANGED <<cpu, output_dev, count, read_buf>>
    BY <1>4 DEF StoreWord, Go, driver
  <2>2. BarRegs' = BarRegs /\ BarMem' = BarMem /\ Status' = Status
    BY <2>1 DEF BarRegs, BarMem, Status, Doomed
  <2>3. Owed = <<mem_access(read_buf.mem_addr, WRITE)>> \o FetchLog(read_buf.pc)
    BY <2>1 DEF Owed, FetchLog, Doomed
  <2>4. BarLog' = trace' \o FetchLog(read_buf.pc)
    BY <2>1, AfterFetchPhase
  <2>5. BarLog' = BarLog
    BY <1>0, <2>1, <2>3, <2>4, Recorded DEF BarLog
  <2> QED
    BY <2>1, <2>2, <2>5, MachineVars
<1>5. CASE Fetch
  <2>1. /\ phase = "fetch" /\ phase' = "issue" /\ Record(read_buf.pc, READ) /\ CanFetch(read_buf.pc)
        /\ UNCHANGED <<cpu, output_dev, memory, count, read_buf>>
    BY <1>5 DEF Fetch, Go, driver
  <2>2. BarRegs' = BarRegs /\ BarMem' = BarMem /\ Status' = Status
    BY <2>1 DEF BarRegs, BarMem, Status, Doomed
  <2>3. Owed = <<mem_access(read_buf.pc, READ)>> /\ Owed' = <<>>
    BY <2>1 DEF Owed, Doomed
  <2>4. BarLog' = BarLog
    BY <1>0, <2>1, <2>3, Recorded DEF BarLog
  <2> QED
    BY <2>1, <2>2, <2>4, MachineVars
<1> QED
  BY <1>1, <1>2, <1>3, <1>4, <1>5

\* A pc outside of memory: the machine's run ends where the client crashes.
LEMMA MachineCrashes ==
  ASSUME RunInv, FetchCrash
  PROVE  Machine!Next
<1>1. /\ phase = "fetch" /\ phase' = "crash" /\ ~CanFetch(read_buf.pc)
      /\ UNCHANGED <<cpu, output_dev, memory, count, read_buf, trace>>
  BY DEF FetchCrash, Go, driver, client
<1>2. cpu.pc = read_buf.pc
  BY <1>1 DEF RunInv, PcAgrees, Live
<1>3. ~Machine!InProgram
  BY <1>1, <1>2, SameMemory DEF Machine!InProgram
<1>4. Status = "running" /\ Status' = "stopped" /\ Owed = <<>> /\ Owed' = <<>>
  BY <1>1 DEF Status, Owed, Doomed
<1>5. BarMem' = BarMem /\ BarLog' = BarLog
  BY <1>1, <1>4 DEF BarMem, BarLog
<1>6. Machine!Stop
  BY <1>1, <1>3, <1>4, <1>5 DEF Machine!Stop, BarMem, BarLog
<1> QED
  BY <1>4, <1>6 DEF Machine!Next

LEMMA MachineInitial == Init => Machine!Init
<1> SUFFICES ASSUME Init
             PROVE  Machine!Init
  OBVIOUS
<1>1. PICK prog \in Programs :
        memory = store_machine_code(Memory0, Append(prog, halt_instr)) /\ count = Len(prog) + 1
  BY DEF Init
<1>2. memory = Machine!store_machine_code(Machine!Memory0, Append(prog, Machine!Halt))
  BY <1>1, SameStore, SameConstants
<1>3. phase = "closed" /\ trace = <<>> /\ cpu = ZeroCpu /\ output_dev = 0
  BY DEF Init
<1>4. BarRegs = [r \in Machine!Regs |-> 0] /\ cpu.pc = 0 /\ cpu.fr = {}
  BY <1>3, SameConstants DEF BarRegs, ZeroCpu
<1>5. BarMem = memory /\ Status = "ready" /\ Owed = <<>>
  BY <1>3 DEF BarMem, Status, Owed, Doomed
<1>6. BarLog = <<>>
  BY <1>3, <1>5 DEF BarLog
<1> QED
  BY <1>1, <1>2, <1>3, <1>4, <1>5, <1>6 DEF Machine!Init, BarRegs, BarMem, BarLog

\* Every step is one of the machine, a stutter, or the failure of a call.
LEMMA MachineStep == RunInv /\ MachineInv /\ [Next]_vars => failed' \/ [Machine!Next]_(Machine!specVars)
<1> SUFFICES ASSUME RunInv, MachineInv, [Next]_vars, ~failed'
             PROVE  Machine!Next \/ UNCHANGED Machine!specVars
  OBVIOUS
<1>1. CASE Open
  BY <1>1, MachineStarts
<1>2. CASE Exec
  BY <1>2, MachineExecutes
<1>3. CASE ExecFails \/ ExecOops
  BY <1>3, MachineFails
<1>4. CASE LoadWord \/ LoadOops \/ LoadTrace \/ StoreWord \/ Fetch
  BY <1>4, ClientServes
<1>5. CASE FetchCrash
  BY <1>5, MachineCrashes
<1>6. CASE Issue
  <2>1. /\ phase = "issue" /\ phase' = "exec"
        /\ UNCHANGED <<cpu, output_dev, memory, count, read_buf, trace>>
    BY <1>6 DEF Issue, Go
  <2>2. BarRegs' = BarRegs /\ BarMem' = BarMem /\ Status' = Status /\ Owed' = Owed
    BY <2>1 DEF BarRegs, BarMem, Status, Owed, Doomed
  <2> QED
    BY <2>1, <2>2, MachineVars DEF BarLog
<1>7. CASE OpenFails \/ IssueFails \/ Killed \/ LoadLost
  BY <1>7 DEF OpenFails, IssueFails, Killed, LoadLost, Failure
<1>8. CASE UNCHANGED vars
  <2>1. UNCHANGED <<phase, cpu, output_dev, memory, count, read_buf, trace>>
    BY <1>8 DEF vars, driver, client
  <2>2. BarRegs' = BarRegs /\ BarMem' = BarMem /\ Status' = Status /\ Owed' = Owed
    BY <2>1 DEF BarRegs, BarMem, Status, Owed, Doomed, read_from_memory, write_to_memory,
                CanFetch, mem_access
  <2> QED
    BY <2>1, <2>2, MachineVars DEF BarLog
<1> QED
  BY <1>1, <1>2, <1>3, <1>4, <1>5, <1>6, <1>7, <1>8 DEF Next

LEMMA MachineInvStep == RunInv /\ MachineInv /\ [Next]_vars => MachineInv'
<1> SUFFICES ASSUME RunInv, MachineInv, [Next]_vars
             PROVE  MachineInv'
  OBVIOUS
<1>0. TypeOK /\ cpu \in Cpu
  BY DEF RunInv, TypeOK
<1>1. phase' = "closed" => phase = "closed" /\ trace' = trace
  <2>1. CASE Next
    <3>1. phase' # "closed"
      BY <2>1, DispatchIs DEF Next, Open, OpenFails, Issue, IssueFails, Exec, ExecFails, ExecOops, Killed,
                              LoadWord, LoadLost, LoadOops, LoadTrace, StoreWord, Fetch, FetchCrash, Go
    <3> QED
      BY <3>1
  <2>2. CASE UNCHANGED vars
    BY <2>2 DEF vars
  <2> QED
    BY <2>1, <2>2
<1>2. cpu'.fr \in {{}, {"ZF"}, {"SF", "CF"}}
  <2>1. ASSUME NEW o \in Outcomes, Driver(o)
        PROVE  cpu'.fr \in {{}, {"ZF"}, {"SF", "CF"}}
    <3>1. ExecOK(cpu, pending_instruction, o) /\ cpu' = o.cpu
      BY <1>0, <2>1, DriverStep
    <3>2. CASE pending_instruction.opcode = CMP /\ o.ret = EXEC_SUCCESS
      <4>1. /\ pending_instruction.operand1 \in Regs /\ Source(cpu, pending_instruction) \in Word
            /\ cpu'.fr = handle_compare(cpu.fr, SignedDiff(cpu.regs[pending_instruction.operand1],
                                                           Source(cpu, pending_instruction)))
        BY <3>1, <3>2 DEF ExecOK
      <4>2. cpu.regs[pending_instruction.operand1] \in Word
        BY <1>0, <4>1 DEF Cpu
      <4>3. PICK d \in Int : cpu'.fr = handle_compare(cpu.fr, d)
        BY <4>1, <4>2, SignedDiffIs
      <4>4. cpu.fr \subseteq {"ZF", "SF", "CF"} /\ ~(d = 0 /\ d < 0)
        BY <1>0 DEF Cpu
      <4> QED
        BY <4>3, <4>4 DEF handle_compare
    <3>3. CASE ~(pending_instruction.opcode = CMP /\ o.ret = EXEC_SUCCESS)
      BY <3>1, <3>3 DEF ExecOK, MachineInv
    <3> QED
      BY <3>2, <3>3
  <2>2. CASE Exec \/ ExecFails \/ ExecOops
    BY <2>1, <2>2 DEF Exec, ExecFails, ExecOops
  <2>3. CASE LoadWord
    <3>1. cpu'.fr = cpu.fr
      BY <1>0, <2>3 DEF LoadWord, Cpu
    <3> QED
      BY <3>1 DEF MachineInv
  <2>4. CASE \/ Open \/ OpenFails \/ Issue \/ IssueFails \/ Killed \/ LoadLost \/ LoadOops \/ LoadTrace
             \/ StoreWord \/ Fetch \/ FetchCrash \/ UNCHANGED vars
    <3>1. cpu' = cpu
      BY <2>4 DEF Open, OpenFails, Issue, IssueFails, Killed, LoadLost, LoadOops, LoadTrace, StoreWord,
                  Fetch, FetchCrash, driver, vars
    <3> QED
      BY <3>1 DEF MachineInv
  <2> QED
    BY <2>2, <2>3, <2>4 DEF Next
<1> QED
  BY <1>1, <1>2 DEF MachineInv

\* For any program and inputs, up to the first call that fails: the client and the
\* driver, with their calls in any order that the code allows, behave as one machine
\* that fetches, executes and traces an instruction in one step.
THEOREM ImplementsMachineHolds == Spec => ImplementsMachine
<1>1. Init => Machine!Init /\ MachineInv
  BY MachineInitial DEF Init, MachineInv, ZeroCpu
<1>2. Spec => []MachineInv
  BY <1>1, MachineInvStep, RunInvHolds, PTL DEF Spec
<1>3. RunInv /\ MachineInv /\ [Next]_vars => [failed' \/ Machine!Next]_(Machine!specVars)
  BY MachineStep
<1> QED
  BY <1>1, <1>2, <1>3, RunInvHolds, PTL DEF Spec, ImplementsMachine
=============================================================================
