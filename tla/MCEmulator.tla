----------------------------- MODULE MCEmulator -----------------------------
(***************************************************************************)
(* TLC instances of Emulator: every program of a few instructions from a   *)
(* small repertoire that has each opcode, mode and error.  A byte has 6    *)
(* bits and a word 2 bytes, so an instruction takes 5 bytes.               *)
(***************************************************************************)
EXTENDS Emulator, SequencesExt
LOCAL INSTANCE Bitwise

\* Digits, bits and powers against their usual definitions.
ASSUME
  /\ \A n \in 0..12 : Power(2, n) = 2^n
  /\ \A a, b \in 0..20 : Alu(AND, a, b) = a & b /\ Alu(OR, a, b) = a | b

\* A word past every program that fits.
Data == MMIO_START - 4

I(op, m, r, x) == [opcode |-> op, mode |-> m, operand1 |-> r, operand2 |-> x]

Arithmetic ==
  {I(MOV, IMMEDIATE, 0, 1), I(MOV, REGISTER, 1, 0), I(ADD, REGISTER, 0, 1),
   I(SUB, IMMEDIATE, 0, 2), I(AND, IMMEDIATE, 1, 3), I(OR, REGISTER, 1, 0),
   I(NOT, REGISTER, 255 % ByteMod, 0)}

Control ==
  {I(CMP, IMMEDIATE, 0, 0), I(CMP, REGISTER, 1, 0),
   I(JMP, LABEL, 63, 2), I(JE, LABEL, 63, 2), I(JG, LABEL, 63, 0), I(JL, LABEL, 63, 2)}

Transfers ==
  {I(MOV, DIRECT_LOAD, 1, Data), I(MOV, DIRECT_STORE, 0, Data),
   I(MOV, DIRECT_LOAD, 2, 1), I(MOV, DIRECT_STORE, 0, 2 * INSTR_SIZE),
   I(MOV, DIRECT_LOAD, 0, MMIO_INPUT), I(MOV, DIRECT_STORE, 0, MMIO_OUTPUT)}

\* No such register; no such device; no such mode; no such opcode.
BadInstrs ==
  {I(MOV, DIRECT_STORE, 5, Data), I(MOV, DIRECT_LOAD, 5, Data),
   I(MOV, DIRECT_LOAD, 0, MMIO_START), I(ADD, DIRECT_LOAD, 0, 0), I(5, REGISTER, 0, 0)}

Repertoire == Arithmetic \cup Control \cup Transfers \cup BadInstrs

TwoInstructions == TupleOf(Repertoire, 2)

\* With HALT, too many for the memory of the instances.
TooLarge == {[n \in 1..4 |-> I(MOV, IMMEDIATE, 0, 1)]}

\* A write, a comparison, a transfer or a branch, in any order, thrice.
Core ==
  {I(MOV, IMMEDIATE, 0, 1), I(SUB, IMMEDIATE, 0, 2), I(CMP, REGISTER, 1, 0),
   I(JE, LABEL, 63, 2), I(JG, LABEL, 63, 3), I(JL, LABEL, 63, 0),
   I(MOV, DIRECT_LOAD, 1, Data), I(MOV, DIRECT_STORE, 0, Data),
   I(MOV, DIRECT_STORE, 0, 3 * INSTR_SIZE)}

\* Comparisons around the ends of the signed and the unsigned range.
Ends == {0, 1, WordMod \div 2 - 1, WordMod \div 2, WordMod \div 2 + 1, WordMod - 1}
Comparisons ==
  {<<I(MOV, IMMEDIATE, 0, a), I(CMP, IMMEDIATE, 0, b), I(SUB, IMMEDIATE, 0, 1)>> : a, b \in Ends}

\* A branch to a label that is not defined.
NoLabel == {<<I(JMP, LABEL, 63, WordMod - 1)>>}

AllPrograms == TwoInstructions \cup TooLarge \cup NoLabel \cup TupleOf(Core, 3) \cup Comparisons

Levels == {0, 1}
LevelsAndError == {0, 1, -5}
=============================================================================
