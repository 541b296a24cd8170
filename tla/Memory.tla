------------------------------- MODULE Memory -------------------------------
(***************************************************************************)
(* The simulated memory of the execution client                            *)
(* (cpu_emulator_userspace.c) and the loading of a program into it         *)
(* (store_machine_code of assembler.c).  Memory is a function from         *)
(* addresses to bytes; words are stored little endian.                     *)
(***************************************************************************)
EXTENDS CpuIsa, Sequences

CONSTANT MEM_SIZE  \* 0x10000

\* MEM_SIZE leaves room for a word at every address below MMIO_START, and for an
\* instruction at address 0.
ASSUME MemAssumption ==
  /\ MEM_SIZE \in Nat /\ MMIO_START \in Nat
  /\ MMIO_START + WordBytes - 1 <= MEM_SIZE /\ INSTR_SIZE <= MEM_SIZE

Addr == 0..(MEM_SIZE - 1)
Memory0 == [a \in Addr |-> 0]

read_from_memory(mem, address) ==
  Digits(ByteMod, WordBytes, [k \in 0..(WordBytes - 1) |-> mem[address + k]])

WordAt(v, k) == Digit(ByteMod, v, k)

write_to_memory(mem, address, value) ==
  [a \in Addr |-> IF a \in address..(address + WordBytes - 1)
                  THEN WordAt(value, a - address) ELSE mem[a]]

\* There is an instruction's worth of memory at this pc.
CanFetch(pc) == pc + INSTR_SIZE <= MEM_SIZE

fetch_next(mem, pc) ==
  [opcode   |-> mem[pc],
   mode     |-> mem[pc + 1],
   operand1 |-> mem[pc + 2],
   operand2 |-> read_from_memory(mem, pc + 3)]

\* Mutant: the operand is stored with its high byte first.
EncodeBigEndian(i, k) ==
  CASE k = 0 -> i.opcode
    [] k = 1 -> i.mode
    [] k = 2 -> i.operand1
    [] k > 2 -> WordAt(i.operand2, WordBytes - 1 - (k - 3))

\* The bytes of an instruction.
Encode(i, k) ==
  CASE k = 0 -> i.opcode
    [] k = 1 -> i.mode
    [] k = 2 -> i.operand1
    [] k > 2 -> WordAt(i.operand2, k - 3)

\* parse_assembly's last instruction.
halt_instr == [opcode |-> MOV, mode |-> DIRECT_STORE, operand1 |-> 0, operand2 |-> MMIO_HALT]

\* A program that does not fit is not stored; the client runs all the same.
store_machine_code(mem, instructions) ==
  IF Len(instructions) * INSTR_SIZE + INSTR_SIZE > MEM_SIZE
  THEN mem
  ELSE [a \in Addr |-> IF a \div INSTR_SIZE < Len(instructions)
                       THEN Encode(instructions[a \div INSTR_SIZE + 1], a % INSTR_SIZE)
                       ELSE mem[a]]

\* mem_access.type
READ  == 0
WRITE == 1
mem_access(addr, type) == [addr |-> addr, type |-> type]
=============================================================================
