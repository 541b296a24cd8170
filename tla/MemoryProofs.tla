---------------------------- MODULE MemoryProofs ----------------------------
(***************************************************************************)
(* Lemmas about the words, the memory and the instructions, for any width  *)
(* of a byte and of a word and any map of the address space.               *)
(***************************************************************************)
EXTENDS Memory, WordsProofs, SequenceTheorems, TLAPS

-----------------------------------------------------------------------------
(***************************************************************************)
(* Widths.                                                                 *)
(***************************************************************************)

\* A word is WordBytes digits, a byte each.
LEMMA Widths ==
  /\ ByteMod \in Nat \ {0} /\ WordMod \in Nat \ {0}
  /\ WordMod = Power(ByteMod, WordBytes)
  /\ INSTR_SIZE \in Nat /\ INSTR_SIZE = 3 + WordBytes /\ INSTR_SIZE > 3
<1>1. ByteBits \in Nat /\ WordBytes \in Nat /\ WordBytes > 0 /\ ByteBits * WordBytes \in Nat
  BY WidthAssumption
<1>2. 2 \in Nat \ {0}
  OBVIOUS
<1>3. ByteMod \in Nat \ {0} /\ WordMod \in Nat \ {0}
  BY <1>1, <1>2, PowerType DEF ByteMod, WordMod
<1>4. WordMod = Power(ByteMod, WordBytes)
  BY <1>1, <1>2, PowerPower DEF ByteMod, WordMod
<1> QED
  BY <1>1, <1>3, <1>4 DEF INSTR_SIZE

\* Six bits are enough for every opcode and mode, and for a byte of all ones.
LEMMA ByteHolds64 == 64 <= ByteMod
<1>1. 2 \in Nat \ {0} /\ 0 \in Nat /\ 1 \in Nat /\ 3 \in Nat
  OBVIOUS
<1>2. Power(2, 1) = 2
  <2>1. Power(2, 0 + 1) = 2 * Power(2, 0) /\ Power(2, 0) = 1
    BY <1>1, PowerStep
  <2> QED
    BY <2>1
<1>3. Power(2, 3) = 8
  <2>1. Power(2, 1 + 1) = 2 * 2
    BY <1>1, <1>2, PowerStep
  <2>2. Power(2, 2 + 1) = 2 * 4
    BY <2>1, PowerStep
  <2> QED
    BY <2>2
<1>4. Power(2, 3 + 3) = 8 * 8
  BY <1>1, <1>3, PowerPlus
<1>5. PICK m \in Nat : ByteBits = 6 + m
  <2>1. ByteBits - 6 \in Nat /\ ByteBits = 6 + (ByteBits - 6)
    BY WidthAssumption
  <2> QED
    BY <2>1
<1>6. PICK x \in Nat \ {0} : x = Power(2, m)
  BY <1>1, PowerType
<1>7. ByteMod = 64 * x
  BY <1>1, <1>4, <1>5, <1>6, PowerPlus DEF ByteMod
<1> QED
  BY <1>7

\* A byte is a word.
LEMMA ByteIsWord == ByteMod <= WordMod /\ Byte \subseteq Word /\ 0 \in Byte
<1>1. PICK n \in Nat : WordBytes = n + 1
  <2>1. WordBytes - 1 \in Nat /\ WordBytes = (WordBytes - 1) + 1
    BY WidthAssumption
  <2> QED
    BY <2>1
<1>2. PICK b \in Nat \ {0} : b = ByteMod
  BY Widths
<1>3. PICK x \in Nat \ {0} : x = Power(b, n)
  BY PowerType
<1>4. WordMod = b * x
  BY <1>1, <1>2, <1>3, Widths, PowerStep
<1>5. b <= b * x
  OBVIOUS
<1>6. ByteMod <= WordMod
  BY <1>2, <1>4, <1>5
<1> QED
  BY <1>6, Widths DEF Byte, Word

\* What wraps in a word is a word.
LEMMA WrapsToWord ==
  ASSUME NEW x \in Int
  PROVE  x % WordMod \in Word
<1>1. PICK m \in Nat \ {0} : m = WordMod
  BY Widths
<1>2. x % m \in 0..(m - 1)
  OBVIOUS
<1> QED
  BY <1>1, <1>2 DEF Word

-----------------------------------------------------------------------------
(***************************************************************************)
(* Memory.                                                                 *)
(***************************************************************************)

LEMMA WordAtIsByte ==
  ASSUME NEW v \in Word, NEW k \in Nat
  PROVE  WordAt(v, k) \in Byte
<1>1. v \in Nat
  BY Widths DEF Word
<1> QED
  BY <1>1, Widths, DigitRange DEF WordAt, Byte

LEMMA ReadIsWord ==
  ASSUME NEW mem \in [Addr -> Byte], NEW a \in Nat, a + WordBytes <= MEM_SIZE
  PROVE  read_from_memory(mem, a) \in Word
<1> DEFINE d == [k \in 0..(WordBytes - 1) |-> mem[a + k]]
<1>1. WordBytes \in Nat /\ MEM_SIZE \in Nat
  BY WidthAssumption, MemAssumption
<1>2. \A k \in 0..(WordBytes - 1) : d[k] \in 0..(ByteMod - 1)
  BY <1>1 DEF Addr, Byte
<1> HIDE DEF d
<1>3. Digits(ByteMod, WordBytes, d) \in 0..(Power(ByteMod, WordBytes) - 1)
  BY <1>1, <1>2, Widths, DigitsRange
<1> QED
  BY <1>3, Widths DEF read_from_memory, Word, d

\* The bytes of a word, read back.
LEMMA ReadsBack ==
  ASSUME NEW mem, NEW a, NEW v \in Word,
         \A k \in 0..(WordBytes - 1) : mem[a + k] = WordAt(v, k)
  PROVE  read_from_memory(mem, a) = v
<1> DEFINE d == [k \in 0..(WordBytes - 1) |-> mem[a + k]]
<1>1. WordBytes \in Nat
  BY WidthAssumption
<1>2. \A k \in 0..(WordBytes - 1) : d[k] = Digit(ByteMod, v, k)
  BY DEF WordAt
<1>3. v \in 0..(Power(ByteMod, WordBytes) - 1)
  BY Widths DEF Word
<1> HIDE DEF d
<1>4. Digits(ByteMod, WordBytes, d) = v
  BY <1>1, <1>2, <1>3, Widths, DigitsOfNumber
<1> QED
  BY <1>4 DEF read_from_memory, d

LEMMA WriteIsMemory ==
  ASSUME NEW mem \in [Addr -> Byte], NEW a \in Nat, NEW v \in Word
  PROVE  write_to_memory(mem, a, v) \in [Addr -> Byte]
<1>1. WordBytes \in Nat /\ MEM_SIZE \in Nat
  BY WidthAssumption, MemAssumption
<1>2. ASSUME NEW x \in Addr
      PROVE  (IF x \in a..(a + WordBytes - 1) THEN WordAt(v, x - a) ELSE mem[x]) \in Byte
  <2>1. CASE x \in a..(a + WordBytes - 1)
    <3>1. x - a \in Nat
      BY <1>1, <2>1 DEF Addr
    <3> QED
      BY <2>1, <3>1, WordAtIsByte
  <2>2. CASE ~(x \in a..(a + WordBytes - 1))
    BY <2>2
  <2> QED
    BY <2>1, <2>2
<1> QED
  BY <1>2 DEF write_to_memory

LEMMA FetchIsInstruction ==
  ASSUME NEW mem \in [Addr -> Byte], NEW pc \in Nat, pc + INSTR_SIZE <= MEM_SIZE
  PROVE  fetch_next(mem, pc) \in Instruction
<1>1. WordBytes \in Nat /\ WordBytes > 0 /\ MEM_SIZE \in Nat /\ INSTR_SIZE = 3 + WordBytes
  BY WidthAssumption, MemAssumption, Widths
<1>2. pc \in Addr /\ pc + 1 \in Addr /\ pc + 2 \in Addr
  BY <1>1 DEF Addr
<1>3. read_from_memory(mem, pc + 3) \in Word
  <2>1. pc + 3 \in Nat /\ (pc + 3) + WordBytes <= MEM_SIZE
    BY <1>1
  <2> QED
    BY <2>1, ReadIsWord
<1> QED
  BY <1>2, <1>3 DEF fetch_next, Instruction

LEMMA EncodeIsByte ==
  ASSUME NEW instr \in Instruction, NEW k \in Nat
  PROVE  Encode(instr, k) \in Byte
<1>1. instr.opcode \in Byte /\ instr.mode \in Byte /\ instr.operand1 \in Byte /\ instr.operand2 \in Word
  BY DEF Instruction
<1>2. CASE k <= 2
  BY <1>1, <1>2 DEF Encode
<1>3. CASE k > 2
  <2>1. k - 3 \in Nat
    BY <1>3
  <2>2. Encode(instr, k) = WordAt(instr.operand2, k - 3)
    BY <1>3 DEF Encode
  <2> QED
    BY <1>1, <2>1, <2>2, WordAtIsByte
<1> QED
  BY <1>2, <1>3

LEMMA StoreIsMemory ==
  ASSUME NEW mem \in [Addr -> Byte], NEW instrs \in Seq(Instruction)
  PROVE  store_machine_code(mem, instrs) \in [Addr -> Byte]
<1>1. PICK s \in Nat \ {0} : s = INSTR_SIZE
  BY Widths
<1>2. MEM_SIZE \in Nat /\ Len(instrs) \in Nat
  BY MemAssumption
<1>3. ASSUME NEW a \in Addr, a \div s < Len(instrs)
      PROVE  Encode(instrs[a \div s + 1], a % s) \in Byte
  <2>1. a \in Nat
    BY <1>2 DEF Addr
  <2>2. a \div s \in Nat /\ a % s \in Nat
    BY <2>1
  <2>3. a \div s + 1 \in 1..Len(instrs)
    BY <1>2, <1>3, <2>2
  <2>4. instrs[a \div s + 1] \in Instruction
    BY <2>3
  <2> QED
    BY <2>2, <2>4, EncodeIsByte
<1> QED
  BY <1>1, <1>3 DEF store_machine_code

\* What the client fetches is what was stored: the bytes of instruction n are
\* where the pc of instruction n points, and make the same instruction again.
LEMMA FetchesWhatIsStored ==
  ASSUME NEW mem, NEW instrs \in Seq(Instruction), NEW n \in 1..Len(instrs),
         Len(instrs) * INSTR_SIZE + INSTR_SIZE <= MEM_SIZE
  PROVE  fetch_next(store_machine_code(mem, instrs), (n - 1) * INSTR_SIZE) = instrs[n]
<1> DEFINE M == store_machine_code(mem, instrs)
<1>1. PICK s \in Nat : s = INSTR_SIZE /\ s = 3 + WordBytes /\ s > 3
  BY Widths
<1>2. PICK len \in Nat : len = Len(instrs)
  OBVIOUS
<1>3. MEM_SIZE \in Nat /\ WordBytes \in Nat
  BY WidthAssumption, MemAssumption
<1>4. n \in Nat /\ n - 1 \in Nat /\ n <= len
  BY <1>2
<1>5. PICK at \in Nat : at = (n - 1) * s
  BY <1>4
<1>6. len * s + s <= MEM_SIZE /\ len * s \in Nat
  BY <1>1, <1>2
<1>7. at + s <= MEM_SIZE
  <2>1. (len - n) * s >= 0 /\ (len - n) * s \in Int
    BY <1>4
  <2>2. len * s = (len - n) * s + n * s
    BY <1>4
  <2>3. n * s = at + s
    BY <1>4, <1>5
  <2> QED
    BY <1>3, <1>6, <2>1, <2>2, <2>3
<1>8. ASSUME NEW k \in 0..(s - 1)
      PROVE  M[at + k] = Encode(instrs[n], k)
  <2>1. at + k \in Addr /\ at + k \in Nat
    BY <1>3, <1>7 DEF Addr
  <2>2. at + k = s * (n - 1) + k /\ s \in Nat \ {0} /\ k \in 0..(s - 1)
    BY <1>1, <1>4, <1>5
  <2>3. (at + k) \div s = n - 1 /\ (at + k) % s = k
    BY <1>4, <2>1, <2>2, QuotientIs
  <2>4. (n - 1) + 1 = n /\ n - 1 < len
    BY <1>4
  <2>5. M = [a \in Addr |-> IF a \div s < len THEN Encode(instrs[a \div s + 1], a % s)
                            ELSE mem[a]]
    <3>1. ~(len * s + s > MEM_SIZE)
      BY <1>3, <1>6
    <3> QED
      BY <1>1, <1>2, <3>1, Zenon DEF store_machine_code
  <2> HIDE DEF M
  <2>6. M[at + k] = IF (at + k) \div s < len THEN Encode(instrs[(at + k) \div s + 1], (at + k) % s)
                    ELSE mem[at + k]
    BY <2>1, <2>5
  <2> QED
    BY <2>3, <2>4, <2>6
<1> HIDE DEF M
<1>9. instrs[n] \in Instruction
  OBVIOUS
<1>10. PICK instr \in Instruction : instr = instrs[n]
  BY <1>9
<1>11. M[at] = instr.opcode /\ M[at + 1] = instr.mode /\ M[at + 2] = instr.operand1
  <2>1. 0 \in 0..(s - 1) /\ 1 \in 0..(s - 1) /\ 2 \in 0..(s - 1) /\ at + 0 = at
    BY <1>1
  <2>2. M[at] = Encode(instr, 0) /\ M[at + 1] = Encode(instr, 1) /\ M[at + 2] = Encode(instr, 2)
    BY <1>8, <1>10, <2>1
  <2> QED
    BY <2>2 DEF Encode
<1>12. read_from_memory(M, at + 3) = instr.operand2
  <2>1. ASSUME NEW k \in 0..(WordBytes - 1)
        PROVE  M[(at + 3) + k] = WordAt(instr.operand2, k)
    <3>1. 3 + k \in 0..(s - 1) /\ (at + 3) + k = at + (3 + k) /\ 3 + k > 2 /\ (3 + k) - 3 = k
      BY <1>1, <1>3
    <3>2. M[(at + 3) + k] = Encode(instr, 3 + k)
      BY <1>8, <1>10, <3>1
    <3>3. Encode(instr, 3 + k) = WordAt(instr.operand2, k)
      BY <3>1 DEF Encode
    <3> QED
      BY <3>2, <3>3
  <2>2. instr.operand2 \in Word
    BY DEF Instruction
  <2> QED
    BY <2>1, <2>2, ReadsBack
<1>13. fetch_next(M, at) = instr
  BY <1>11, <1>12 DEF fetch_next, Instruction
<1> QED
  BY <1>1, <1>5, <1>10, <1>13 DEF M
=============================================================================
