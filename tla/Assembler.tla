----------------------------- MODULE Assembler ------------------------------
(***************************************************************************)
(* The assembler (assembler.c) and main (main.c): parse_assembly reads the *)
(* source file twice, once for the labels and once for the instructions,   *)
(* main stores the program in the simulated memory, runs it (Emulator) and *)
(* starts the cache simulation (CacheSim).                                 *)
(*                                                                         *)
(* A line is what one fgets returns, classified by is_empty, by            *)
(* remove_comment and by the search for a colon; a word of a line is what  *)
(* the strings of the source denote.                                       *)
(***************************************************************************)
EXTENDS Memory, FiniteSetsExt

CONSTANTS
  Files,            \* the source files: sequences of lines
  INITIAL_CAPACITY  \* 4

UINT8_MAX  == ByteMod - 1
UINT64_MAX == WordMod - 1

ASSUME CapacityAssumption == INITIAL_CAPACITY \in Nat /\ INITIAL_CAPACITY >= 2

\* A word can address more than the memory, by one instruction at least.
ASSUME AddressAssumption == MEM_SIZE + INSTR_SIZE <= WordMod

(***************************************************************************)
(* Words and lines.                                                        *)
(***************************************************************************)

Reg(n)  == [kind |-> "reg", val |-> n]   \* R0 .. R3
At(a) == [kind |-> "addr", val |-> a] \* [a], in hexadecimal
Num(v)  == [kind |-> "int", val |-> v]   \* what parse_int accepts
Name(n) == [kind |-> "name", val |-> n]  \* anything else
NULL    == [kind |-> "NULL", val |-> 0]

\* Blank, or a comment alone.
EmptyLine == [kind |-> "empty"]

\* What stands before the colon; what follows it on the line is never read.
LabelLine(key) == [kind |-> "label", key |-> key]

\* operation is a mnemonic; trailing says that a space follows the last word, as it
\* does in front of most comments.
InstrLine(operation, words, trailing) ==
  [kind |-> "instr", operation |-> operation, words |-> words, trailing |-> trailing]

SourceWord == [kind : {"reg"}, val : Regs] \cup [kind : {"addr", "int", "name"}, val : Word]

SourceLine ==
  {EmptyLine} \cup {LabelLine(key) : key \in SourceWord}
    \cup [kind : {"instr"}, operation : STRING, words : Seq(SourceWord), trailing : BOOLEAN]

ASSUME FilesAssumption == Files \subseteq Seq(SourceLine)

VARIABLES
  phase,
  file,              \* the lines of the source file
  final_newline,     \* the last of them ends with a newline
  pos,               \* lines read in the current pass
  labels,            \* the hash table: from keys to addresses
  line_number,
  instructions,
  instruction_text,  \* for each instruction, the number of the line it shows
  capacity,          \* of both arrays
  memory,
  \* History:
  damaged            \* the instructions some part of which could not be allocated; 0 stands
                     \* for a label

source == <<file, final_newline>>
arrays == <<instructions, instruction_text, capacity, damaged>>
vars == <<phase, source, pos, labels, line_number, arrays, memory>>

Init ==
  /\ phase = "open"
  /\ file \in Files /\ final_newline \in BOOLEAN
  /\ pos = 0
  /\ labels = <<>>
  /\ line_number = 0
  /\ instructions = <<>> /\ instruction_text = <<>> /\ capacity = 0
  /\ memory = Memory0
  /\ damaged = {}

\* feof is only true after a read that met the end of the file: one more iteration
\* follows the last line when it ends with a newline.
Iterations == Len(file) + (IF final_newline \/ file = <<>> THEN 1 ELSE 0)

\* The line of this iteration, if fgets returns one.
Line == IF pos < Len(file) THEN file[pos + 1] ELSE EmptyLine

Fail(p) ==
  /\ phase' = p
  /\ UNCHANGED <<source, pos, labels, line_number, arrays, memory>>

Open ==
  /\ phase = "open"
  /\ phase' = "first"
  /\ UNCHANGED <<source, pos, labels, line_number, arrays, memory>>

OpenFails == phase = "open" /\ Fail("failed")

-----------------------------------------------------------------------------
(***************************************************************************)
(* The first pass.                                                         *)
(***************************************************************************)

\* A key that is already there gets the new value.
put(key, value) ==
  [k \in DOMAIN labels \cup {key} |-> IF k = key THEN value ELSE labels[k]]

\* Mutant: a label's line counts as an instruction.
CountLabelToo(line) == IF line.kind = "empty" THEN 0 ELSE 1

\* By how much a line advances line_number.
Count(line) == IF line.kind = "instr" THEN 1 ELSE 0

FirstPass ==
  /\ phase = "first" /\ pos < Iterations
  /\ pos' = pos + 1
  /\ labels' = IF Line.kind = "label" THEN put(Line.key, line_number) ELSE labels
  /\ line_number' = line_number + Count(Line)
  /\ UNCHANGED <<phase, source, arrays, memory>>

\* The new entry of the hash table is used without a test.
PutFails ==
  /\ phase = "first" /\ pos < Iterations
  /\ Line.kind = "label" /\ Line.key \notin DOMAIN labels
  /\ phase' = "crash"
  /\ damaged' = damaged \cup {0}
  /\ UNCHANGED <<source, pos, labels, line_number, instructions, instruction_text, capacity, memory>>

Rewind ==
  /\ phase = "first" /\ pos = Iterations
  /\ phase' = "second" /\ pos' = 0 /\ line_number' = 0
  /\ UNCHANGED <<source, labels, arrays, memory>>

-----------------------------------------------------------------------------
(***************************************************************************)
(* parse_line.                                                             *)
(***************************************************************************)

Opcodes ==
  [ADD |-> ADD, SUB |-> SUB, AND |-> AND, OR |-> OR, NOT |-> NOT, MOV |-> MOV, CMP |-> CMP,
   JMP |-> JMP, JE |-> JE, JG |-> JG, JL |-> JL]

Branches == {"JMP", "JE", "JG", "JL"}

\* Mutant: a single operand is always found in the second part.
split_by_char_single(line) ==
  LET w == line.words IN
  [operation |-> w = <<>> => line.trailing,
   operand1  |-> IF Len(w) >= 2 THEN w[1] ELSE NULL,
   operand2  |-> IF Len(w) >= 2 THEN w[2] ELSE IF Len(w) = 1 /\ ~line.trailing THEN w[1] ELSE NULL]

\* A part ends at a space, only the third one at the end of the line as well: a
\* single operand is the second part if a space follows it and the third if not,
\* and an operation alone at the end of its line is not found at all.  operation
\* says whether it was found.
split_by_char(line) ==
  LET w == line.words IN
  [operation |-> w = <<>> => line.trailing,
   operand1  |-> IF Len(w) >= 2 \/ (Len(w) = 1 /\ line.trailing) THEN w[1] ELSE NULL,
   operand2  |-> IF Len(w) >= 2 THEN w[2]
                 ELSE IF Len(w) = 1 /\ ~line.trailing THEN w[1] ELSE NULL]

\* The parts when the allocations of substring that lost names fail.
Split(line, lost) ==
  LET parts == split_by_char(line) IN
  [operation |-> parts.operation /\ "operation" \notin lost,
   operand1  |-> IF "operand1" \in lost THEN NULL ELSE parts.operand1,
   operand2  |-> IF "operand2" \in lost THEN NULL ELSE parts.operand2]

\* strcmp, strlen or the lookup of a label is called with NULL.
ParseCrashes(parts) ==
  ~parts.operation \/ (parts.operand1 = NULL /\ parts.operand2 = NULL)

\* The address of a label; the default stays when there is none.
get(key) == IF key \in DOMAIN labels THEN labels[key] ELSE UINT64_MAX

\* The default values, the opcode, and the modes that the opcode fixes.
Start(operation) ==
  [opcode   |-> IF operation \in DOMAIN Opcodes THEN Opcodes[operation] ELSE UINT8_MAX,
   mode     |-> IF operation \in Branches THEN LABEL
                ELSE IF operation = "NOT" THEN REGISTER ELSE UINT8_MAX,
   operand1 |-> UINT8_MAX,
   operand2 |-> UINT64_MAX]

SecondOperand(instr, w) ==
  CASE w.kind = "reg"  -> [instr EXCEPT !.operand2 = w.val]
    [] w.kind = "addr" -> [instr EXCEPT !.operand2 = w.val, !.mode = DIRECT_LOAD]
    [] w.kind = "int"  -> [instr EXCEPT !.operand2 = w.val, !.mode = IMMEDIATE]
    [] OTHER           -> instr

\* Mutant: the address overwrites the source before it is moved.
FirstOperandSwapped(instr, w) ==
  CASE w.kind = "reg"  -> [instr EXCEPT !.operand1 = w.val]
    [] w.kind = "addr" -> [instr EXCEPT !.mode = DIRECT_STORE, !.operand2 = w.val,
                                        !.operand1 = w.val % ByteMod]
    [] OTHER           -> instr

\* A store takes its source, whatever it is, into a byte, and its address into
\* operand2.
FirstOperand(instr, w) ==
  CASE w.kind = "reg"  -> [instr EXCEPT !.operand1 = w.val]
    [] w.kind = "addr" -> [instr EXCEPT !.mode = DIRECT_STORE, !.operand2 = w.val,
                                        !.operand1 = instr.operand2 % ByteMod]
    [] OTHER           -> instr

DefaultMode(instr) ==
  IF instr.mode = UINT8_MAX THEN [instr EXCEPT !.mode = REGISTER] ELSE instr

\* A missing second operand is a copy of the first, unless the copy cannot be
\* allocated.
parse_line(operation, parts, copied) ==
  LET start  == Start(operation)
      word   == IF parts.operand2 = NULL THEN parts.operand1 ELSE parts.operand2
      second == SecondOperand(start, word)
  IN CASE operation \in Branches ->
            [start EXCEPT !.operand2 =
               get(IF parts.operand1 = NULL THEN parts.operand2 ELSE parts.operand1)]
       [] operation \notin Branches /\ parts.operand2 = NULL /\ ~copied -> start
       [] OTHER -> IF parts.operand1 = NULL THEN second
                   ELSE DefaultMode(FirstOperand(second, parts.operand1))

-----------------------------------------------------------------------------
(***************************************************************************)
(* The second pass: an iteration first makes room, then reads and parses.  *)
(***************************************************************************)

\* Mutant: the arrays grow when they are full.
MustGrowFull == Len(instructions) = capacity

\* capacity - 1 is the largest size_t while the capacity is 0.
MustGrow == capacity = 0 \/ Len(instructions) = capacity - 1

Grown == IF ~MustGrow THEN capacity
         ELSE IF capacity = 0 THEN INITIAL_CAPACITY ELSE 2 * capacity

Iterating == phase = "second" /\ pos < Iterations

\* The end of the file, an empty line or a label.
SkipLine ==
  /\ Iterating /\ Line.kind # "instr"
  /\ pos' = pos + 1
  /\ capacity' = Grown
  /\ UNCHANGED <<phase, source, labels, line_number, instructions, instruction_text, damaged, memory>>

\* Mutant: a line some part of which could not be allocated is passed over.
ParseLineUndamaged(lost, copied) ==
  /\ Iterating /\ Line.kind = "instr"
  /\ ~ParseCrashes(Split(Line, lost))
  /\ pos' = pos + 1
  /\ capacity' = Grown
  /\ IF lost = {} /\ copied
     THEN /\ instruction_text' = Append(instruction_text, pos + 1)
          /\ instructions' = Append(instructions, parse_line(Line.operation, Split(Line, lost), copied))
     ELSE UNCHANGED <<instruction_text, instructions>>
  /\ UNCHANGED <<phase, source, labels, line_number, damaged, memory>>

ParseLine(lost, copied) ==
  LET parts == Split(Line, lost) IN
  /\ Iterating /\ Line.kind = "instr"
  /\ ~ParseCrashes(parts)
  /\ pos' = pos + 1
  /\ capacity' = Grown
  /\ instruction_text' = Append(instruction_text, pos + 1)
  /\ instructions' = Append(instructions, parse_line(Line.operation, parts, copied))
  /\ damaged' = IF lost = {} /\ copied THEN damaged ELSE damaged \cup {Len(instructions) + 1}
  /\ UNCHANGED <<phase, source, labels, line_number, memory>>

\* A part that parse_line takes for granted is missing, or remove_newline's copy is.
LineCrashes(lost) ==
  /\ Iterating /\ Line.kind = "instr"
  /\ "text" \in lost \/ ParseCrashes(Split(Line, lost))
  /\ phase' = "crash"
  /\ damaged' = IF lost = {} THEN damaged ELSE damaged \cup {Len(instructions) + 1}
  /\ UNCHANGED <<source, pos, labels, line_number, instructions, instruction_text, capacity, memory>>

\* One of the two reallocs, or the allocation of the text, fails.
AllocFails ==
  /\ Iterating
  /\ MustGrow \/ Line.kind = "instr"
  /\ Fail("failed")

\* After the loop: the HALT instruction and its text, which shows no line of the file.
AppendHalt ==
  /\ phase = "second" /\ pos = Iterations
  /\ phase' = "assembled"
  /\ instruction_text' = Append(instruction_text, Len(file) + 1)
  /\ instructions' = Append(instructions, halt_instr)
  /\ labels' = <<>>
  /\ UNCHANGED <<source, pos, line_number, capacity, damaged, memory>>

HaltAllocFails == phase = "second" /\ pos = Iterations /\ Fail("failed")

SecondPass ==
  \/ SkipLine \/ AllocFails \/ AppendHalt \/ HaltAllocFails
  \/ \E lost \in SUBSET {"operation", "operand1", "operand2"}, copied \in BOOLEAN :
       ParseLine(lost, copied)
  \/ \E lost \in SUBSET {"operation", "operand1", "operand2", "text"} : LineCrashes(lost)

-----------------------------------------------------------------------------
(***************************************************************************)
(* main.                                                                   *)
(***************************************************************************)

Store ==
  /\ phase = "assembled"
  /\ phase' = "run"
  /\ memory' = store_machine_code(memory, instructions)
  /\ UNCHANGED <<source, pos, labels, line_number, arrays>>

\* run() fails only before its loop: a device or a buffer is missing.
RunFails == phase = "run" /\ Fail("failed")

\* run() succeeds, whatever happened in its loop; what parse_assembly allocated is
\* freed and the cache simulation begins.
RunReturns ==
  /\ phase = "run"
  /\ phase' = "cache"
  /\ instructions' = <<>> /\ instruction_text' = <<>> /\ damaged' = {}
  /\ UNCHANGED <<source, pos, labels, line_number, capacity, memory>>

CacheSimulated == phase = "cache" /\ Fail("succeeded")

Next ==
  \/ Open \/ OpenFails
  \/ FirstPass \/ PutFails \/ Rewind
  \/ SecondPass
  \/ Store \/ RunFails \/ RunReturns \/ CacheSimulated

Spec == Init /\ [][Next]_vars

-----------------------------------------------------------------------------
(***************************************************************************)
(* Properties.                                                             *)
(***************************************************************************)

\* The arrays of instructions and of texts, which grow before a line is read, have
\* room for every instruction and for the HALT that follows the last one.
ArraysHold == Len(instructions) <= capacity

\* There is a program, and memory has room for it.
Assembled ==
  phase \in {"assembled", "run"} /\ (Len(instructions) + 1) * INSTR_SIZE <= MEM_SIZE

\* What the execution client fetches as the n-th instruction.
Fetched(n) == fetch_next(memory, (n - 1) * INSTR_SIZE)

\* The source lines that were parsed as they stand.
Sound == {n \in DOMAIN instructions : instruction_text[n] \in DOMAIN file} \ damaged
LineOf(n) == file[instruction_text[n]]

\* The operands that execute_instruction takes from an instruction, in the order in
\* which they are written.
Operands(instr) ==
  IF instr.opcode = NOT THEN <<Reg(instr.operand2)>>
  ELSE CASE instr.mode = REGISTER     -> <<Reg(instr.operand1), Reg(instr.operand2)>>
         [] instr.mode = IMMEDIATE    -> <<Reg(instr.operand1), Num(instr.operand2)>>
         [] instr.mode = DIRECT_LOAD  -> <<Reg(instr.operand1), At(instr.operand2)>>
         [] instr.mode = DIRECT_STORE -> <<At(instr.operand2), Reg(instr.operand1)>>
         [] OTHER                     -> <<>>

Kinds(line) == [k \in DOMAIN line.words |-> line.words[k].kind]

\* The lines that have a form the instruction set knows.
WellFormed(line) ==
  \/ line.operation = "NOT" /\ Kinds(line) = <<"reg">>
  \/ /\ line.operation \in {"ADD", "SUB", "AND", "OR", "MOV", "CMP"}
     /\ Kinds(line) \in {<<"reg", "reg">>, <<"reg", "int">>}
  \/ line.operation = "MOV" /\ Kinds(line) \in {<<"reg", "addr">>, <<"addr", "reg">>}

\* As long as allocations succeed, the only line the assembler crashes on is one
\* with an operation and nothing else.
OnlyBareOperationsCrash ==
  phase = "crash" /\ damaged = {} => Line.kind = "instr" /\ Line.words = <<>>

\* What the client fetches from memory is what parse_line produced: the bytes that
\* store_machine_code writes and those that fetch_next puts together agree.
FetchesStored ==
  phase = "run" /\ Assembled => \A n \in DOMAIN instructions : Fetched(n) = instructions[n]

\* The lines that hold an instruction.
InstrLines == {m \in DOMAIN file : file[m].kind = "instr"}

\* Line m holds the n-th instruction of the file.
IsInstr(m, n) == m \in InstrLines /\ Cardinality({k \in InstrLines : k <= m}) = n

\* main hands over to the client what Emulator starts from, whichever allocations
\* failed: as many instructions as the file holds, their fields fit, and the text that
\* run() shows with each is that of its line; memory is what Emulator's Init says.
HandsOverProgram ==
  phase = "run" /\ Assembled =>
    LET prog == SubSeq(instructions, 1, Len(instructions) - 1) IN
    /\ prog \in Seq(Instruction)
    /\ Len(prog) = Cardinality(InstrLines)
    /\ \A n \in DOMAIN prog : IsInstr(instruction_text[n], n)
    /\ memory = store_machine_code(Memory0, Append(prog, halt_instr))

\* An instruction says what a line says.
Decodes(instr, line) ==
  /\ instr.opcode = Opcodes[line.operation]
  /\ instr.mode # UINT8_MAX
  /\ Operands(instr) = line.words

\* What the driver reads in the instruction of a well-formed line is what the line
\* says, with or without a space after its last word.
DecodesAsWritten ==
  Assembled => \A n \in Sound : WellFormed(LineOf(n)) => Decodes(instructions[n], LineOf(n))

\* The lines that define a label, and the lines after line d that hold an
\* instruction, the HALT included.
Definitions(key) == {d \in DOMAIN file : file[d].kind = "label" /\ file[d].key = key}
InstrAfter(d) == {m \in (d + 1)..Len(file) : file[m].kind = "instr"} \cup {Len(file) + 1}

\* The pc after a branch that is taken.
TargetPc(instr) == (instr.operand2 * INSTR_SIZE) % WordMod

\* The two passes agree on what an instruction is: a branch goes to the first
\* instruction after the last definition of its label, the HALT when there is none,
\* and a branch to a label that is not defined goes outside of memory.
BranchesReachLabels ==
  Assembled =>
    \A n \in Sound :
      LET defs == Definitions(LineOf(n).words[1]) IN
      LineOf(n).operation \in Branches =>
        IF defs = {} THEN TargetPc(instructions[n]) >= MEM_SIZE
        ELSE \E t \in DOMAIN instructions :
               /\ TargetPc(instructions[n]) = (t - 1) * INSTR_SIZE
               /\ instruction_text[t] = Min(InstrAfter(Max(defs)))
=============================================================================
