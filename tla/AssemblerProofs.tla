-------------------------- MODULE AssemblerProofs ---------------------------
(***************************************************************************)
(* Theorems about Assembler, for any source files, initial capacity,       *)
(* memory size and widths of bytes and words.                              *)
(***************************************************************************)
EXTENDS Assembler, MemoryProofs, FiniteSetTheorems, TLAPS

-----------------------------------------------------------------------------
(***************************************************************************)
(* The arrays.                                                             *)
(***************************************************************************)

Phases ==
  {"open", "first", "second", "assembled", "run", "cache", "succeeded", "failed", "crash"}

\* The variables that the arrays depend on.
ShapeOK ==
  /\ phase \in Phases
  /\ file \in Seq(SourceLine) /\ final_newline \in BOOLEAN
  /\ pos \in Nat /\ pos <= Iterations
  /\ capacity \in Nat
  /\ DOMAIN instructions = 1..Len(instructions) /\ Len(instructions) \in Nat
  /\ DOMAIN instruction_text = 1..Len(instructions) /\ Len(instruction_text) = Len(instructions)

\* Every line read grew the arrays before it, so there is one free entry: for the
\* next instruction, or for HALT.  Before the first iteration there is none.
RoomInv ==
  /\ ShapeOK
  /\ Len(instructions) <= capacity
  /\ phase \in {"open", "first"} => Len(instructions) = 0
  /\ phase = "second" => IF pos = 0 THEN Len(instructions) = 0 ELSE Len(instructions) < capacity

\* A pass has at least one iteration, an empty file included.
LEMMA OneIteration ==
  ASSUME file \in Seq(SourceLine), final_newline \in BOOLEAN
  PROVE  /\ Iterations \in Nat \ {0}
         /\ Len(file) \in Nat
         /\ Iterations \in {Len(file), Len(file) + 1}
PROOF
  <1>1. Len(file) \in Nat /\ (file # <<>> => Len(file) # 0)
    OBVIOUS
  <1> QED
    BY <1>1 DEF Iterations

\* After the test at the head of an iteration there is room for one more.
LEMMA GrownHasRoom ==
  ASSUME capacity \in Nat, Len(instructions) \in Nat, Len(instructions) <= capacity,
         Len(instructions) = 0 \/ Len(instructions) < capacity
  PROVE  Grown \in Nat /\ Len(instructions) + 1 < Grown
PROOF
  BY CapacityAssumption DEF Grown, MustGrow

\* What appending does to a sequence of anything.
LEMMA AppendShape ==
  ASSUME NEW s, NEW e, DOMAIN s = 1..Len(s), Len(s) \in Nat
  PROVE  /\ Len(Append(s, e)) = Len(s) + 1
         /\ DOMAIN Append(s, e) = 1..(Len(s) + 1)
         /\ Append(s, e)[Len(s) + 1] = e
         /\ \A k \in 1..Len(s) : Append(s, e)[k] = s[k]
PROOF
  OBVIOUS

\* RoomInv is inductive.
LEMMA RoomStep ==
  ASSUME RoomInv, [Next]_vars
  PROVE  RoomInv'
PROOF
  <1> USE DEF ShapeOK, source, arrays
  <1>0. /\ RoomInv /\ ShapeOK /\ Iterations \in Nat \ {0}
        /\ (source' = source => Iterations' = Iterations)
    BY OneIteration DEF RoomInv, Iterations
  <1>1. CASE Open \/ OpenFails \/ PutFails \/ AllocFails \/ HaltAllocFails
    BY <1>0, <1>1 DEF RoomInv, Open, OpenFails, PutFails, AllocFails, HaltAllocFails, Fail, Phases
  <1>2. CASE FirstPass
    BY <1>0, <1>2 DEF RoomInv, FirstPass
  <1>3. CASE Rewind
    BY <1>0, <1>3 DEF RoomInv, Rewind, Phases
  <1>4. CASE SkipLine
    <2>1. Grown \in Nat /\ Len(instructions) + 1 < Grown
      BY <1>0, <1>4, GrownHasRoom DEF SkipLine, Iterating, RoomInv
    <2> QED
      BY <1>0, <1>4, <2>1 DEF RoomInv, SkipLine, Iterating
  <1>5. ASSUME NEW lost, NEW copied, ParseLine(lost, copied) PROVE RoomInv'
    <2> DEFINE i == parse_line(Line.operation, Split(Line, lost), copied)
    <2>1. /\ phase = "second" /\ phase' = phase /\ source' = source
          /\ pos < Iterations /\ pos' = pos + 1 /\ capacity' = Grown
          /\ instructions' = Append(instructions, i)
          /\ instruction_text' = Append(instruction_text, pos + 1)
      BY <1>5 DEF ParseLine, Iterating
    <2> HIDE DEF i
    <2>2. Grown \in Nat /\ Len(instructions) + 1 < Grown
      BY <1>0, <2>1, GrownHasRoom DEF RoomInv
    <2>3. /\ Len(instructions') = Len(instructions) + 1
          /\ DOMAIN instructions' = 1..(Len(instructions) + 1)
          /\ Len(instruction_text') = Len(instructions) + 1
          /\ DOMAIN instruction_text' = 1..(Len(instructions) + 1)
      BY <1>0, <2>1, AppendShape
    <2> QED
      BY <1>0, <2>1, <2>2, <2>3 DEF RoomInv
  <1>6. ASSUME NEW lost, LineCrashes(lost) PROVE RoomInv'
    BY <1>0, <1>6 DEF RoomInv, LineCrashes, Phases
  <1>7. CASE AppendHalt
    <2>1. /\ phase = "second" /\ phase' = "assembled" /\ source' = source
          /\ pos = Iterations /\ pos' = pos /\ capacity' = capacity
          /\ instructions' = Append(instructions, halt_instr)
          /\ instruction_text' = Append(instruction_text, Len(file) + 1)
      BY <1>7 DEF AppendHalt
    <2>2. Len(instructions) < capacity
      BY <1>0, <2>1 DEF RoomInv
    <2>3. /\ Len(instructions') = Len(instructions) + 1
          /\ DOMAIN instructions' = 1..(Len(instructions) + 1)
          /\ Len(instruction_text') = Len(instructions) + 1
          /\ DOMAIN instruction_text' = 1..(Len(instructions) + 1)
      BY <1>0, <2>1, AppendShape
    <2> QED
      BY <1>0, <2>1, <2>2, <2>3 DEF RoomInv, Phases
  <1>8. CASE Store \/ RunFails \/ CacheSimulated
    BY <1>0, <1>8 DEF RoomInv, Store, RunFails, CacheSimulated, Fail, Phases
  <1>9. CASE RunReturns
    BY <1>0, <1>9 DEF RoomInv, RunReturns, Phases
  <1>10. CASE UNCHANGED vars
    BY <1>0, <1>10 DEF RoomInv, vars
  <1> QED
    BY <1>1, <1>2, <1>3, <1>4, <1>5, <1>6, <1>7, <1>8, <1>9, <1>10 DEF Next, SecondPass

\* RoomInv holds in every state.
LEMMA RoomInvHolds == Spec => []RoomInv
PROOF
  <1>1. Init => RoomInv
    BY FilesAssumption, OneIteration DEF Init, RoomInv, ShapeOK, Phases
  <1>2. RoomInv /\ [Next]_vars => RoomInv'
    BY RoomStep
  <1> QED
    BY <1>1, <1>2, PTL DEF Spec

\* parse_assembly never writes past the arrays it allocates, the HALT it adds after
\* the last line included, for any source file and any initial capacity of two or
\* more: growing before a line is read leaves room for two.
THEOREM ArraysAlwaysHold == Spec => []ArraysHold
PROOF
  <1>1. RoomInv => ArraysHold
    BY DEF RoomInv, ArraysHold
  <1> QED
    BY <1>1, RoomInvHolds, PTL

-----------------------------------------------------------------------------
(***************************************************************************)
(* The lines that crash the assembler.                                     *)
(***************************************************************************)

\* What a line of a source file is.
LEMMA LineShape ==
  ASSUME ShapeOK
  PROVE  /\ Line.kind \in {"empty", "label", "instr"}
         /\ Line.kind = "instr" =>
              /\ Line.words \in Seq(SourceWord)
              /\ Line.trailing \in BOOLEAN
              /\ pos < Len(file) /\ Line = file[pos + 1]
PROOF
  <1>1. CASE pos < Len(file)
    <2>1. Line = file[pos + 1] /\ pos + 1 \in 1..Len(file)
      BY <1>1 DEF Line, ShapeOK
    <2>2. file[pos + 1] \in SourceLine
      BY <2>1 DEF ShapeOK
    <2>3. CASE Line = EmptyLine
      BY <2>3 DEF EmptyLine
    <2>4. ASSUME NEW key, Line = LabelLine(key) PROVE Line.kind = "label"
      BY <2>4 DEF LabelLine
    <2>5. CASE Line \in [kind : {"instr"}, operation : STRING, words : Seq(SourceWord), trailing : BOOLEAN]
      BY <1>1, <2>1, <2>5
    <2> QED
      BY <2>1, <2>2, <2>3, <2>4, <2>5 DEF SourceLine
  <1>2. CASE ~(pos < Len(file))
    BY <1>2 DEF Line, EmptyLine
  <1> QED
    BY <1>1, <1>2

\* With every allocation made, parse_line finds the parts it needs in a line that
\* has an operand.
LEMMA PartsFound ==
  ASSUME NEW line, line.words \in Seq(SourceWord), line.words # <<>>, line.trailing \in BOOLEAN
  PROVE  ~ParseCrashes(Split(line, {}))
PROOF
  <1> DEFINE w == line.words
             parts == Split(line, {})
  <1>1. (Len(w) = 1 \/ Len(w) >= 2) /\ w[1] \in SourceWord
    <2>1. Len(w) \in Nat /\ Len(w) # 0 /\ w[1] \in SourceWord
      OBVIOUS
    <2>2. \A n \in Nat : n # 0 => n = 1 \/ n >= 2
      OBVIOUS
    <2> QED
      BY <2>1, <2>2
  <1>2. w[1] # NULL
    BY <1>1 DEF SourceWord, NULL
  <1>3. /\ parts.operation <=> (w = <<>> => line.trailing)
        /\ parts.operand1 = IF Len(w) >= 2 \/ (Len(w) = 1 /\ line.trailing) THEN w[1] ELSE NULL
        /\ parts.operand2 = IF Len(w) >= 2 THEN w[2]
                            ELSE IF Len(w) = 1 /\ ~line.trailing THEN w[1] ELSE NULL
    BY DEF Split, split_by_char
  <1>4. parts.operation
    BY <1>3
  <1>5. parts.operand1 # NULL \/ parts.operand2 # NULL
    <2> HIDE DEF w, parts
    <2>1. CASE Len(w) >= 2 \/ (Len(w) = 1 /\ line.trailing)
      BY <1>2, <1>3, <2>1
    <2>2. CASE Len(w) = 1 /\ ~line.trailing
      BY <1>2, <1>3, <2>2
    <2> QED
      BY <1>1, <2>1, <2>2
  <1> QED
    BY <1>4, <1>5 DEF ParseCrashes

\* As long as its allocations succeed, parse_assembly only crashes on an operation
\* that stands alone at the end of its line or in front of a comment.
THEOREM OnlyBareOperationsCrashHolds == Spec => []OnlyBareOperationsCrash
PROOF
  <1>1. Init => OnlyBareOperationsCrash
    BY DEF Init, OnlyBareOperationsCrash
  <1>2. RoomInv /\ OnlyBareOperationsCrash /\ [Next]_vars => OnlyBareOperationsCrash'
    <2> SUFFICES ASSUME RoomInv, OnlyBareOperationsCrash, [Next]_vars
                 PROVE  OnlyBareOperationsCrash'
      OBVIOUS
    <2>1. CASE Open \/ OpenFails \/ FirstPass \/ Rewind \/ Store \/ RunFails \/ RunReturns \/ CacheSimulated
      BY <2>1 DEF OnlyBareOperationsCrash, Open, OpenFails, FirstPass, Rewind, Store, RunFails,
                  RunReturns, CacheSimulated, Fail
    <2>2. CASE PutFails
      BY <2>2 DEF OnlyBareOperationsCrash, PutFails
    <2>3. CASE SkipLine \/ AllocFails \/ AppendHalt \/ HaltAllocFails
      BY <2>3 DEF OnlyBareOperationsCrash, SkipLine, AllocFails, AppendHalt, HaltAllocFails, Fail,
                  Iterating
    <2>4. ASSUME NEW lost, NEW copied, ParseLine(lost, copied) PROVE OnlyBareOperationsCrash'
      BY <2>4 DEF OnlyBareOperationsCrash, ParseLine, Iterating
    <2>5. ASSUME NEW lost, LineCrashes(lost), damaged' = {}
          PROVE  Line.kind = "instr" /\ Line.words = <<>> /\ Line' = Line
      <3>1. Line.kind = "instr" /\ ("text" \in lost \/ ParseCrashes(Split(Line, lost)))
        BY <2>5 DEF LineCrashes
      <3>2. lost = {}
        BY <2>5 DEF LineCrashes
      <3>3. ParseCrashes(Split(Line, {}))
        BY <3>1, <3>2
      <3>4. Line.words \in Seq(SourceWord) /\ Line.trailing \in BOOLEAN
        BY <3>1, LineShape DEF RoomInv
      <3>5. Line.words = <<>>
        BY <3>3, <3>4, PartsFound
      <3>6. Line' = Line
        BY <2>5 DEF LineCrashes, Line, source
      <3> QED
        BY <3>1, <3>5, <3>6
    <2>6. ASSUME NEW lost, LineCrashes(lost) PROVE OnlyBareOperationsCrash'
      BY <2>5, <2>6 DEF OnlyBareOperationsCrash
    <2>7. CASE UNCHANGED vars
      BY <2>7 DEF OnlyBareOperationsCrash, vars, arrays, source, Line
    <2> QED
      BY <2>1, <2>2, <2>3, <2>4, <2>6, <2>7 DEF Next, SecondPass
  <1> QED
    BY <1>1, <1>2, RoomInvHolds, PTL DEF Spec

-----------------------------------------------------------------------------
(***************************************************************************)
(* Labels and branches.                                                    *)
(***************************************************************************)

\* The instructions among the first k lines, and their number: the address of a
\* label that stands after line k.
InstrUpTo(k) == {m \in 1..k : file[m].kind = "instr"}
Before(k) == Cardinality(InstrUpTo(k))

\* A line adds to the number what the first pass adds to line_number.
LEMMA BeforeNext ==
  ASSUME NEW k \in Nat
  PROVE  /\ Before(0) = 0
         /\ IsFiniteSet(InstrUpTo(k)) /\ Before(k) \in Nat
         /\ Before(k + 1) = Before(k) + Count(file[k + 1])
PROOF
  <1>1. InstrUpTo(0) = {}
    BY DEF InstrUpTo
  <1>2. IsFiniteSet(1..k)
    BY FS_Interval
  <1>3. InstrUpTo(k) \in SUBSET (1..k)
    BY DEF InstrUpTo
  <1>4. IsFiniteSet(InstrUpTo(k))
    BY <1>2, <1>3, FS_Subset
  <1>5. Before(k) \in Nat
    BY <1>4, FS_CardinalityType DEF Before
  <1>6. CASE file[k + 1].kind = "instr"
    <2>1. InstrUpTo(k + 1) = InstrUpTo(k) \cup {k + 1} /\ k + 1 \notin InstrUpTo(k)
      BY <1>6 DEF InstrUpTo
    <2>2. Before(k + 1) = Before(k) + 1
      BY <1>4, <2>1, FS_AddElement DEF Before
    <2> QED
      BY <1>1, <1>4, <1>5, <1>6, <2>2, FS_EmptySet DEF Before, Count
  <1>7. CASE file[k + 1].kind # "instr"
    <2>1. InstrUpTo(k + 1) = InstrUpTo(k)
      BY <1>7 DEF InstrUpTo
    <2> QED
      BY <1>1, <1>4, <1>5, <1>7, <2>1, FS_EmptySet DEF Before, Count
  <1> QED
    BY <1>6, <1>7

\* The number never shrinks, and an instruction has a number of its own.
LEMMA BeforeOrder ==
  ASSUME NEW j \in Nat, NEW k \in Nat, j <= k
  PROVE  /\ Before(j) \in Nat /\ Before(k) \in Nat /\ Before(j) <= Before(k)
         /\ j < k /\ file[k].kind = "instr" => Before(j) < Before(k)
         /\ (\A m \in (j + 1)..k : file[m].kind # "instr") => Before(j) = Before(k)
PROOF
  <1>1. IsFiniteSet(InstrUpTo(k)) /\ Before(j) \in Nat /\ Before(k) \in Nat
    BY BeforeNext
  <1>2. InstrUpTo(j) \in SUBSET InstrUpTo(k)
    BY DEF InstrUpTo
  <1>3. Before(j) <= Before(k) /\ (Before(k) = Before(j) => InstrUpTo(k) = InstrUpTo(j))
    BY <1>1, <1>2, FS_Subset DEF Before
  <1>4. ASSUME j < k, file[k].kind = "instr" PROVE Before(j) # Before(k)
    <2>1. k \in InstrUpTo(k) /\ k \notin InstrUpTo(j)
      BY <1>4 DEF InstrUpTo
    <2> QED
      BY <1>3, <2>1
  <1>5. ASSUME \A m \in (j + 1)..k : file[m].kind # "instr" PROVE Before(j) = Before(k)
    <2>1. InstrUpTo(k) = InstrUpTo(j)
      BY <1>5 DEF InstrUpTo
    <2> QED
      BY <2>1 DEF Before
  <1> QED
    BY <1>1, <1>3, <1>4, <1>5

\* v is the address of the last definition of the label in the first k lines.
LastDefinition(key, k, v) ==
  \E d \in Definitions(key) :
    /\ d <= k
    /\ \A e \in Definitions(key) : e <= k => e <= d
    /\ v = Before(d)

\* The hash table after a first pass over k lines.
LabelsAre(k) ==
  \A key \in SourceWord :
    IF \E d \in Definitions(key) : d <= k
    THEN key \in DOMAIN labels /\ LastDefinition(key, k, labels[key])
    ELSE key \notin DOMAIN labels

\* A line that defines no label leaves the table right.
LEMMA LabelsKept ==
  ASSUME NEW k \in Nat, LabelsAre(k), k + 1 \in DOMAIN file, file[k + 1].kind # "label",
         DOMAIN file \subseteq Nat
  PROVE  LabelsAre(k + 1)
PROOF
  <1>1. \A key : \A d \in Definitions(key) : d \in Nat /\ (d <= k + 1 <=> d <= k)
    BY DEF Definitions
  <1> QED
    BY <1>1 DEF LabelsAre, LastDefinition

\* A line that defines a label gives it the number of the instructions before it.
LEMMA LabelPut ==
  ASSUME NEW k \in Nat, LabelsAre(k), k + 1 \in DOMAIN file, file[k + 1].kind = "label",
         file' = file, labels' = put(file[k + 1].key, Before(k)),
         DOMAIN file \subseteq Nat
  PROVE  LabelsAre(k + 1)'
PROOF
  <1> DEFINE new == file[k + 1].key
  <1>1. \A key : Definitions(key)' = Definitions(key) /\ \A d \in Definitions(key) : d \in Nat
    BY DEF Definitions
  <1>2. \A j : Before(j)' = Before(j)
    BY DEF Before, InstrUpTo
  <1>3. Before(k + 1) = Before(k)
    BY BeforeNext, SMTT(30) DEF Count
  <1>4. k + 1 \in Definitions(new) /\ \A key : key # new => k + 1 \notin Definitions(key)
    BY DEF Definitions
  <1>5. ASSUME NEW key \in SourceWord
        PROVE  IF \E d \in Definitions(key) : d <= k + 1
               THEN key \in DOMAIN labels' /\ LastDefinition(key, k + 1, labels[key])'
               ELSE key \notin DOMAIN labels'
    <2>1. CASE key = new
      <3>1. key \in DOMAIN labels' /\ labels'[key] = Before(k + 1)
        BY <1>3, <2>1 DEF put
      <3>2. \A e \in Definitions(key) : e <= k + 1 => e <= k + 1
        OBVIOUS
      <3>3. k + 1 \in Definitions(key)' /\ k + 1 <= k + 1
        BY <1>1, <1>4, <2>1
      <3>4. LastDefinition(key, k + 1, labels[key])'
        BY <1>1, <1>2, <3>1, <3>3 DEF LastDefinition
      <3> QED
        BY <1>1, <3>1, <3>3, <3>4
    <2>2. CASE key # new
      <3>1. \A d \in Definitions(key) : d <= k + 1 <=> d <= k
        BY <1>1, <1>4, <2>2
      <3>2. /\ key \in DOMAIN labels' <=> key \in DOMAIN labels
            /\ key \in DOMAIN labels => labels'[key] = labels[key]
        BY <2>2 DEF put
      <3>3. CASE \E d \in Definitions(key) : d <= k
        <4>1. key \in DOMAIN labels /\ LastDefinition(key, k, labels[key])
          BY <3>3 DEF LabelsAre
        <4>2. PICK d \in Definitions(key) :
                /\ d <= k
                /\ \A e \in Definitions(key) : e <= k => e <= d
                /\ labels[key] = Before(d)
          BY <4>1 DEF LastDefinition
        <4>3. LastDefinition(key, k + 1, labels[key])'
          BY <1>1, <1>2, <3>1, <3>2, <4>1, <4>2 DEF LastDefinition
        <4> QED
          BY <3>1, <3>2, <3>3, <4>1, <4>3
      <3>4. CASE ~\E d \in Definitions(key) : d <= k
        BY <3>1, <3>2, <3>4 DEF LabelsAre
      <3> QED
        BY <3>3, <3>4
    <2> QED
      BY <2>1, <2>2
  <1> QED
    BY <1>1, <1>5 DEF LabelsAre

\* The lines read in this pass.
LinesRead == IF pos < Len(file) THEN pos ELSE Len(file)

\* v is the address of the label, or the default if the file does not define it.
Target(key, v) ==
  IF Definitions(key) = {} THEN v = UINT64_MAX ELSE LastDefinition(key, Len(file), v)

\* A branch has its target in operand2.
Resolved(n) ==
  n \notin damaged /\ LineOf(n).operation \in Branches =>
    \E key \in SourceWord : \E v :
      key = LineOf(n).words[1] /\ v = instructions[n].operand2 /\ Target(key, v)

\* A line that the instruction set knows has become the instruction it says.
Decoded(n) ==
  n \notin damaged /\ WellFormed(LineOf(n)) => Decodes(instructions[n], LineOf(n))

\* The first k instructions are the first k that the file holds.
TextsAre(k) ==
  \A n \in 1..k :
    /\ instruction_text[n] \in 1..Len(file)
    /\ LineOf(n).kind = "instr"
    /\ Before(instruction_text[n]) = n
    /\ Resolved(n)
    /\ Decoded(n)

\* The inductive invariant, on top of RoomInv: what each pass has counted is the
\* number of instructions in the lines it has read, the table of labels is that of
\* those lines, and the instructions so far are those of the lines.
ProgramInv ==
  /\ phase = "open" => pos = 0 /\ labels = <<>> /\ line_number = 0
  /\ phase = "first" => LabelsAre(LinesRead) /\ line_number = Before(LinesRead)
  /\ phase = "second" =>
       /\ LabelsAre(Len(file))
       /\ Len(instructions) = Before(LinesRead)
       /\ TextsAre(Len(instructions))
  /\ phase \in {"assembled", "run"} =>
       /\ Len(instructions) = Before(Len(file)) + 1
       /\ instruction_text[Len(instructions)] = Len(file) + 1
       /\ TextsAre(Before(Len(file)))

\* A line read adds to the number of instructions what Count says of it; the read
\* that meets the end of the file adds nothing.
LEMMA ReadNext ==
  ASSUME ShapeOK, file' = file, pos' = pos + 1
  PROVE  /\ LinesRead \in Nat /\ LinesRead <= Len(file)
         /\ pos < Len(file) =>
              /\ LinesRead = pos /\ LinesRead' = pos + 1
              /\ pos + 1 \in DOMAIN file /\ Line = file[pos + 1]
         /\ ~(pos < Len(file)) => LinesRead = Len(file) /\ LinesRead' = Len(file) /\ Line = EmptyLine
         /\ Before(LinesRead)' = Before(LinesRead) + Count(Line)
         /\ DOMAIN file = 1..Len(file) /\ Len(file) \in Nat
PROOF
  <1>1. pos \in Nat /\ Len(file) \in Nat /\ DOMAIN file = 1..Len(file)
    BY DEF ShapeOK
  <1>2. \A j : Before(j)' = Before(j)
    BY DEF Before, InstrUpTo
  <1>3. CASE pos < Len(file)
    <2>1. LinesRead = pos /\ LinesRead' = pos + 1
      BY <1>1, <1>3 DEF LinesRead
    <2>2. Before(LinesRead)' = Before(pos + 1)
      BY <1>2, <2>1 DEF Before, InstrUpTo
    <2>3. Line = file[pos + 1] /\ pos + 1 \in 1..Len(file)
      BY <1>1, <1>3 DEF Line
    <2>4. Before(pos + 1) = Before(pos) + Count(file[pos + 1])
      BY <1>1, BeforeNext
    <2>5. Before(LinesRead)' = Before(LinesRead) + Count(Line)
      BY <2>1, <2>2, <2>3, <2>4
    <2>6. LinesRead \in Nat /\ LinesRead <= Len(file)
      BY <1>1, <1>3, <2>1
    <2> QED
      BY <1>1, <1>3, <2>1, <2>3, <2>5, <2>6, Zenon
  <1>4. CASE ~(pos < Len(file))
    <2>1. LinesRead = Len(file) /\ LinesRead' = Len(file) /\ Line = EmptyLine /\ Count(Line) = 0
      <3>1. ~(pos + 1 < Len(file))
        BY <1>1, <1>4
      <3>2. LinesRead = Len(file) /\ LinesRead' = Len(file)
        BY <1>4, <3>1 DEF LinesRead
      <3>3. Line = EmptyLine
        BY <1>4 DEF Line
      <3>4. Count(EmptyLine) = 0
        BY DEF Count, EmptyLine
      <3> QED
        BY <3>2, <3>3, <3>4
    <2>2. Before(LinesRead)' = Before(LinesRead)
      BY <2>1 DEF Before, InstrUpTo
    <2>3. Before(LinesRead) \in Nat
      BY <1>1, <2>1, BeforeNext
    <2>4. Before(LinesRead)' = Before(LinesRead) + Count(Line)
      BY <2>1, <2>2, <2>3
    <2>5. LinesRead \in Nat /\ LinesRead <= Len(file)
      BY <1>1, <2>1
    <2> QED
      BY <1>1, <1>4, <2>1, <2>4, <2>5, Zenon
  <1> QED
    BY <1>3, <1>4

\* The table does not change with what it does not depend on.
LEMMA LabelsFrame ==
  ASSUME NEW k, LabelsAre(k), UNCHANGED <<file, labels>>
  PROVE  LabelsAre(k)'
PROOF
  BY DEF LabelsAre, LastDefinition, Definitions, Before, InstrUpTo

\* The first pass keeps line_number and the table right.
LEMMA FirstPassStep ==
  ASSUME RoomInv, ProgramInv, FirstPass
  PROVE  ProgramInv'
PROOF
  <1>1. /\ phase = "first" /\ phase' = "first" /\ file' = file /\ pos' = pos + 1
        /\ line_number' = line_number + Count(Line)
        /\ labels' = IF Line.kind = "label" THEN put(Line.key, line_number) ELSE labels
        /\ LabelsAre(LinesRead) /\ line_number = Before(LinesRead)
    BY DEF FirstPass, ProgramInv, source
  <1>2. ShapeOK
    BY DEF RoomInv
  <1>3. line_number' = Before(LinesRead)'
    BY <1>1, <1>2, ReadNext
  <1>4. PICK k \in Nat : k = LinesRead
    BY <1>1, <1>2, ReadNext
  <1>5. DOMAIN file \subseteq Nat
    BY <1>2 DEF ShapeOK
  <1>6. LabelsAre(LinesRead)'
    <2>1. CASE ~(pos < Len(file))
      <3>1. LinesRead' = k /\ labels' = labels
        BY <1>1, <1>2, <1>4, <2>1, ReadNext DEF EmptyLine
      <3>2. LabelsAre(k)'
        BY <1>1, <1>4, <3>1, LabelsFrame
      <3> QED
        BY <3>1, <3>2 DEF LabelsAre, LastDefinition
    <2>2. CASE pos < Len(file) /\ Line.kind # "label"
      <3>1. /\ LinesRead' = k + 1 /\ labels' = labels
            /\ k + 1 \in DOMAIN file /\ file[k + 1].kind # "label"
        BY <1>1, <1>2, <1>4, <2>2, ReadNext
      <3>2. LabelsAre(k + 1)
        BY <1>1, <1>4, <1>5, <3>1, LabelsKept
      <3>3. LabelsAre(k + 1)'
        BY <1>1, <3>1, <3>2, LabelsFrame
      <3> QED
        BY <3>1, <3>3 DEF LabelsAre, LastDefinition
    <2>3. CASE pos < Len(file) /\ Line.kind = "label"
      <3>1. /\ LinesRead' = k + 1
            /\ k + 1 \in DOMAIN file /\ file[k + 1].kind = "label"
            /\ Line = file[k + 1]
        BY <1>1, <1>2, <1>4, <2>3, ReadNext
      <3>2. labels' = put(file[k + 1].key, Before(k))
        BY <1>1, <1>4, <2>3, <3>1
      <3>3. LabelsAre(k + 1)'
        BY <1>1, <1>4, <1>5, <3>1, <3>2, LabelPut
      <3> QED
        BY <3>1, <3>3 DEF LabelsAre, LastDefinition
    <2> QED
      BY <2>1, <2>2, <2>3
  <1> QED
    BY <1>1, <1>3, <1>6 DEF ProgramInv

\* The target of a label depends on the file alone.
LEMMA TargetFrame ==
  ASSUME file' = file
  PROVE  \A key, v : Target(key, v) <=> Target(key, v)'
PROOF
  <1>1. \A j : Before(j)' = Before(j)
    BY DEF Before, InstrUpTo
  <1>2. \A key : Definitions(key)' = Definitions(key)
    BY DEF Definitions
  <1> QED
    BY <1>1, <1>2 DEF Target, LastDefinition

\* What is known of the first k instructions does not change with what comes later.
LEMMA TextsFrame ==
  ASSUME NEW k, TextsAre(k), file' = file,
         \A n \in 1..k : /\ instructions'[n] = instructions[n]
                         /\ instruction_text'[n] = instruction_text[n]
                         /\ n \in damaged => n \in damaged'
  PROVE  TextsAre(k)'
PROOF
  <1> SUFFICES ASSUME NEW n \in 1..k
               PROVE  /\ instruction_text'[n] \in 1..Len(file)'
                      /\ LineOf(n)'.kind = "instr"
                      /\ Before(instruction_text[n])' = n
                      /\ Resolved(n)'
                      /\ Decoded(n)'
    BY DEF TextsAre
  <1>1. /\ instruction_text[n] \in 1..Len(file)
        /\ LineOf(n).kind = "instr"
        /\ Before(instruction_text[n]) = n
        /\ Resolved(n)
        /\ Decoded(n)
    BY DEF TextsAre
  <1>2. /\ LineOf(n)' = LineOf(n) /\ instructions'[n] = instructions[n]
        /\ instruction_text'[n] = instruction_text[n]
        /\ n \in damaged => n \in damaged'
    BY DEF LineOf
  <1>3. Before(instruction_text[n])' = Before(instruction_text[n])
    BY <1>2 DEF Before, InstrUpTo
  <1>4. Resolved(n)'
    BY <1>1, <1>2, TargetFrame DEF Resolved
  <1>5. Decoded(n)'
    BY <1>1, <1>2 DEF Decoded
  <1> QED
    BY <1>1, <1>2, <1>3, <1>4, <1>5

\* A line that was parsed as it stands makes a branch to its first operand.
LEMMA BranchParsed ==
  ASSUME NEW line, line.words \in Seq(SourceWord), line.trailing \in BOOLEAN,
         ~ParseCrashes(Split(line, {})), line.operation \in Branches
  PROVE  /\ line.words[1] \in SourceWord
         /\ parse_line(line.operation, Split(line, {}), TRUE).operand2 = get(line.words[1])
PROOF
  <1> DEFINE w == line.words
             parts == Split(line, {})
  <1>1. /\ parts.operand1 = IF Len(w) >= 2 \/ (Len(w) = 1 /\ line.trailing) THEN w[1] ELSE NULL
        /\ parts.operand2 = IF Len(w) >= 2 THEN w[2]
                            ELSE IF Len(w) = 1 /\ ~line.trailing THEN w[1] ELSE NULL
    BY DEF Split, split_by_char
  <1>2. w # <<>>
    BY <1>1 DEF ParseCrashes
  <1>3. (Len(w) = 1 \/ Len(w) >= 2) /\ w[1] \in SourceWord
    <2>1. Len(w) \in Nat /\ Len(w) # 0 /\ w[1] \in SourceWord
      BY <1>2
    <2>2. \A n \in Nat : n # 0 => n = 1 \/ n >= 2
      OBVIOUS
    <2> QED
      BY <2>1, <2>2
  <1>4. w[1] # NULL
    BY <1>3 DEF SourceWord, NULL
  <1>5. (IF parts.operand1 = NULL THEN parts.operand2 ELSE parts.operand1) = w[1]
    <2> HIDE DEF w, parts
    <2>1. CASE Len(w) >= 2 \/ (Len(w) = 1 /\ line.trailing)
      BY <1>1, <1>4, <2>1
    <2>2. CASE Len(w) = 1 /\ ~line.trailing
      BY <1>1, <1>4, <2>2
    <2> QED
      BY <1>3, <2>1, <2>2
  <1>6. parse_line(line.operation, parts, TRUE)
          = [Start(line.operation) EXCEPT !.operand2 =
               get(IF parts.operand1 = NULL THEN parts.operand2 ELSE parts.operand1)]
    BY DEF parse_line
  <1>7. parse_line(line.operation, parts, TRUE).operand2
          = get(IF parts.operand1 = NULL THEN parts.operand2 ELSE parts.operand1)
    BY <1>6 DEF Start
  <1> QED
    BY <1>3, <1>5, <1>7

\* The parts of a line with one operand, which is the second part or the third, and
\* of a line with two.
LEMMA PartsOf ==
  ASSUME NEW line, line.words \in Seq(SourceWord), line.trailing \in BOOLEAN
  PROVE  LET w == line.words
             parts == Split(line, {}) IN
         /\ Len(w) = 1 =>
              \/ parts.operand1 = w[1] /\ parts.operand2 = NULL
              \/ parts.operand1 = NULL /\ parts.operand2 = w[1]
         /\ Len(w) = 2 => parts.operand1 = w[1] /\ parts.operand2 = w[2]
PROOF
  BY DEF Split, split_by_char

\* A word is not NULL, and is made of its kind and its value.
LEMMA WordShape ==
  ASSUME NEW w \in SourceWord
  PROVE  /\ w # NULL
         /\ w.kind = "reg" => w = Reg(w.val) /\ w.val \in Regs
         /\ w.kind = "addr" => w = At(w.val)
         /\ w.kind = "int" => w = Num(w.val)
PROOF
  BY DEF SourceWord, NULL, Reg, At, Num

\* A register's number is the same in a byte.
LEMMA RegInByte ==
  ASSUME NEW r \in Regs
  PROVE  r % ByteMod = r
PROOF
  <1>1. PICK b \in Nat : b = ByteMod /\ 64 <= b
    BY Widths, ByteHolds64
  <1>2. r \in Nat /\ r < b
    BY <1>1 DEF Regs
  <1> QED
    BY <1>1, <1>2

\* The modes are not the byte that stands for a missing one.
LEMMA ModesAreModes ==
  UINT8_MAX \notin {REGISTER, IMMEDIATE, DIRECT_LOAD, DIRECT_STORE}
PROOF
  <1>1. 36 < UINT8_MAX /\ UINT8_MAX \in Int
    BY Widths, ByteHolds64 DEF UINT8_MAX
  <1> QED
    BY <1>1 DEF REGISTER, IMMEDIATE, DIRECT_LOAD, DIRECT_STORE

\* The operands of an instruction, mode by mode.
LEMMA OperandsOf ==
  ASSUME NEW i, i.opcode # NOT
  PROVE  /\ i.mode = REGISTER => Operands(i) = <<Reg(i.operand1), Reg(i.operand2)>>
         /\ i.mode = IMMEDIATE => Operands(i) = <<Reg(i.operand1), Num(i.operand2)>>
         /\ i.mode = DIRECT_LOAD => Operands(i) = <<Reg(i.operand1), At(i.operand2)>>
         /\ i.mode = DIRECT_STORE => Operands(i) = <<At(i.operand2), Reg(i.operand1)>>
PROOF
  BY DEF Operands, REGISTER, IMMEDIATE, DIRECT_LOAD, DIRECT_STORE

\* A line of a form that the instruction set knows, with every allocation made,
\* becomes an instruction that says what the line says.
LEMMA WellFormedParsed ==
  ASSUME NEW line, line.words \in Seq(SourceWord), line.trailing \in BOOLEAN, WellFormed(line)
  PROVE  Decodes(parse_line(line.operation, Split(line, {}), TRUE), line)
PROOF
  <1> DEFINE op == line.operation
             w == line.words
             parts == Split(line, {})
             instr == parse_line(op, parts, TRUE)
             start == [opcode |-> Opcodes[op], mode |-> IF op = "NOT" THEN REGISTER ELSE UINT8_MAX,
                       operand1 |-> UINT8_MAX, operand2 |-> UINT64_MAX]
  <1> SUFFICES Decodes(instr, line)
    OBVIOUS
  <1>1. op \in {"ADD", "SUB", "AND", "OR", "NOT", "MOV", "CMP"}
    BY DEF WellFormed
  <1>2. op \notin Branches /\ op \in DOMAIN Opcodes
    BY <1>1 DEF Branches, Opcodes
  <1>3. Start(op) = start
    BY <1>2 DEF Start
  <1>4. Opcodes[op] = NOT <=> op = "NOT"
    BY <1>1 DEF Opcodes, ADD, SUB, AND, OR, NOT, MOV, CMP
  <1>5. CASE op = "NOT" /\ Kinds(line) = <<"reg">>
    <2>1. Len(w) = 1 /\ w[1] \in SourceWord /\ w[1].kind = "reg"
      BY <1>5 DEF Kinds
    <2>2. w[1] # NULL /\ w[1] = Reg(w[1].val) /\ w = <<w[1]>>
      BY <2>1, WordShape
    <2>3. \/ parts.operand1 = w[1] /\ parts.operand2 = NULL
          \/ parts.operand1 = NULL /\ parts.operand2 = w[1]
      BY <2>1, PartsOf
    <2>4. SecondOperand(start, w[1]) = [start EXCEPT !.operand2 = w[1].val]
      BY <2>1 DEF SecondOperand
    <2>5. instr = IF parts.operand1 = NULL THEN SecondOperand(start, w[1])
                  ELSE DefaultMode(FirstOperand(SecondOperand(start, w[1]), w[1]))
      BY <1>2, <1>3, <2>2, <2>3 DEF parse_line
    <2>6. FirstOperand(SecondOperand(start, w[1]), w[1])
            = [SecondOperand(start, w[1]) EXCEPT !.operand1 = w[1].val]
      BY <2>1 DEF FirstOperand
    <2> DEFINE second == SecondOperand(start, w[1])
    <2>7. instr.opcode = Opcodes[op] /\ instr.mode = REGISTER /\ instr.operand2 = w[1].val
      <3>1. second = [opcode |-> Opcodes[op], mode |-> REGISTER, operand1 |-> UINT8_MAX,
                      operand2 |-> w[1].val]
        BY <1>5, <2>4
      <3>2. FirstOperand(second, w[1]) = [opcode |-> Opcodes[op], mode |-> REGISTER,
                                          operand1 |-> w[1].val, operand2 |-> w[1].val]
        BY <2>6, <3>1
      <3>3. DefaultMode(FirstOperand(second, w[1])) = FirstOperand(second, w[1])
        BY <3>2, ModesAreModes DEF DefaultMode
      <3> HIDE DEF instr, second
      <3>4. instr = second \/ instr = FirstOperand(second, w[1])
        BY <2>5, <3>3 DEF second
      <3> QED
        BY <3>1, <3>2, <3>4
    <2> HIDE DEF instr
    <2>8. Operands(instr) = <<Reg(w[1].val)>>
      BY <1>4, <1>5, <2>7 DEF Operands
    <2> QED
      BY <2>2, <2>7, <2>8, ModesAreModes DEF Decodes
  <1>6. CASE op # "NOT"
    <2>1. \/ Kinds(line) \in {<<"reg", "reg">>, <<"reg", "int">>}
          \/ op = "MOV" /\ Kinds(line) \in {<<"reg", "addr">>, <<"addr", "reg">>}
      BY <1>6 DEF WellFormed
    <2>2. /\ Len(w) = 2 /\ w[1] \in SourceWord /\ w[2] \in SourceWord
          /\ Kinds(line)[1] = w[1].kind /\ Kinds(line)[2] = w[2].kind
      <3>1. DOMAIN Kinds(line) = 1..Len(w) /\ Len(w) \in Nat
        BY DEF Kinds
      <3>2. DOMAIN Kinds(line) = 1..2
        BY <2>1
      <3>3. Len(w) = 2
        BY <3>1, <3>2
      <3> QED
        BY <3>3 DEF Kinds
    <2>3. \/ w[1].kind = "reg" /\ w[2].kind \in {"reg", "int", "addr"}
          \/ w[1].kind = "addr" /\ w[2].kind = "reg"
      BY <2>1, <2>2
    <2>4. w[1] # NULL /\ w[2] # NULL /\ w = <<w[1], w[2]>>
      BY <2>2, WordShape
    <2>5. parts.operand1 = w[1] /\ parts.operand2 = w[2]
      BY <2>2, PartsOf
    <2> DEFINE second == SecondOperand(start, w[2])
    <2>6. instr = DefaultMode(FirstOperand(second, w[1]))
      BY <1>2, <1>3, <2>4, <2>5 DEF parse_line
    <2>7. start.mode = UINT8_MAX /\ start.opcode = Opcodes[op] /\ Opcodes[op] # NOT
      BY <1>4, <1>6
    <2>8. /\ second.opcode = start.opcode /\ second.operand2 = w[2].val
          /\ second.mode = CASE w[2].kind = "reg" -> UINT8_MAX
                             [] w[2].kind = "addr" -> DIRECT_LOAD
                             [] w[2].kind = "int" -> IMMEDIATE
          /\ second = [opcode |-> second.opcode, mode |-> second.mode,
                       operand1 |-> second.operand1, operand2 |-> second.operand2]
      BY <2>3, <2>7 DEF SecondOperand
    <2> HIDE DEF second, start, parts, instr
    <2>9. CASE w[1].kind = "reg"
      <3>1. FirstOperand(second, w[1]) = [second EXCEPT !.operand1 = w[1].val]
        BY <2>9 DEF FirstOperand
      <3>2. /\ instr.opcode = second.opcode /\ instr.operand1 = w[1].val
            /\ instr.operand2 = w[2].val
            /\ instr.mode = IF second.mode = UINT8_MAX THEN REGISTER ELSE second.mode
        BY <2>6, <2>8, <3>1 DEF DefaultMode
      <3>3. w[1] = Reg(w[1].val)
        BY <2>2, <2>9, WordShape
      <3>4. instr.opcode # NOT
        BY <2>7, <2>8, <3>2
      <3>5. CASE w[2].kind = "reg"
        <4>1. instr.mode = REGISTER /\ w[2] = Reg(w[2].val)
          BY <2>2, <2>8, <3>2, <3>5, WordShape
        <4>2. Operands(instr) = <<Reg(w[1].val), Reg(w[2].val)>>
          BY <3>2, <3>4, <4>1, OperandsOf
        <4> QED
          BY <2>4, <2>7, <2>8, <3>2, <3>3, <4>1, <4>2, ModesAreModes DEF Decodes
      <3>6. CASE w[2].kind = "int"
        <4>1. instr.mode = IMMEDIATE /\ w[2] = Num(w[2].val)
          BY <2>2, <2>8, <3>2, <3>6, WordShape, ModesAreModes
        <4>2. Operands(instr) = <<Reg(w[1].val), Num(w[2].val)>>
          BY <3>2, <3>4, <4>1, OperandsOf
        <4> QED
          BY <2>4, <2>7, <2>8, <3>2, <3>3, <4>1, <4>2, ModesAreModes DEF Decodes
      <3>7. CASE w[2].kind = "addr"
        <4>1. instr.mode = DIRECT_LOAD /\ w[2] = At(w[2].val)
          BY <2>2, <2>8, <3>2, <3>7, WordShape, ModesAreModes
        <4>2. Operands(instr) = <<Reg(w[1].val), At(w[2].val)>>
          BY <3>2, <3>4, <4>1, OperandsOf
        <4> QED
          BY <2>4, <2>7, <2>8, <3>2, <3>3, <4>1, <4>2, ModesAreModes DEF Decodes
      <3> QED
        BY <2>3, <2>9, <3>5, <3>6, <3>7
    <2>10. CASE w[1].kind = "addr" /\ w[2].kind = "reg"
      <3>1. w[2] = Reg(w[2].val) /\ w[2].val % ByteMod = w[2].val /\ w[1] = At(w[1].val)
        BY <2>2, <2>10, WordShape, RegInByte
      <3>2. FirstOperand(second, w[1])
              = [second EXCEPT !.mode = DIRECT_STORE, !.operand2 = w[1].val,
                               !.operand1 = second.operand2 % ByteMod]
        BY <2>10 DEF FirstOperand
      <3>3. /\ instr.opcode = second.opcode /\ instr.operand1 = w[2].val
            /\ instr.operand2 = w[1].val /\ instr.mode = DIRECT_STORE
        BY <2>6, <2>8, <3>1, <3>2, ModesAreModes DEF DefaultMode
      <3>4. Operands(instr) = <<At(w[1].val), Reg(w[2].val)>>
        <4>1. instr.opcode # NOT
          BY <2>7, <2>8, <3>3
        <4> QED
          BY <3>3, <4>1, OperandsOf
      <3> QED
        BY <2>4, <2>7, <2>8, <3>1, <3>3, <3>4, ModesAreModes DEF Decodes
    <2> QED
      BY <2>3, <2>9, <2>10
  <1> QED
    BY <1>5, <1>6 DEF WellFormed

\* A parsed line is the next instruction, and a branch gets the target of its label.
LEMMA ParseLineStep ==
  ASSUME RoomInv, ProgramInv, NEW lost, NEW copied \in BOOLEAN, ParseLine(lost, copied)
  PROVE  ProgramInv'
PROOF
  <1> DEFINE i == parse_line(Line.operation, Split(Line, lost), copied)
             l == Len(instructions)
  <1>1. /\ phase = "second" /\ phase' = "second" /\ file' = file /\ labels' = labels
        /\ pos' = pos + 1 /\ Line.kind = "instr" /\ ~ParseCrashes(Split(Line, lost))
        /\ instruction_text' = Append(instruction_text, pos + 1)
        /\ instructions' = Append(instructions, i)
        /\ damaged' = IF lost = {} /\ copied THEN damaged ELSE damaged \cup {l + 1}
        /\ LabelsAre(Len(file)) /\ l = Before(LinesRead) /\ TextsAre(l)
    BY DEF ParseLine, Iterating, ProgramInv, source
  <1>2. /\ ShapeOK /\ l \in Nat
        /\ DOMAIN instructions = 1..l /\ DOMAIN instruction_text = 1..l /\ Len(instruction_text) = l
    BY DEF RoomInv, ShapeOK
  <1>3. /\ Line.words \in Seq(SourceWord) /\ Line.trailing \in BOOLEAN
        /\ pos < Len(file) /\ Line = file[pos + 1] /\ pos + 1 \in 1..Len(file)
    BY <1>1, <1>2, LineShape DEF ShapeOK
  <1>4. l + 1 = Before(LinesRead)' /\ LinesRead' = pos + 1
    BY <1>1, <1>2, <1>3, ReadNext DEF Count
  <1> HIDE DEF i
  <1>5. /\ Len(instructions') = l + 1 /\ instructions'[l + 1] = i
        /\ instruction_text'[l + 1] = pos + 1
        /\ \A n \in 1..l : /\ instructions'[n] = instructions[n]
                           /\ instruction_text'[n] = instruction_text[n]
    BY <1>1, <1>2, AppendShape
  <1>6. LabelsAre(Len(file))'
    <2>1. PICK k : k = Len(file)
      OBVIOUS
    <2>2. LabelsAre(k)'
      BY <1>1, <2>1, LabelsFrame
    <2> QED
      BY <1>1, <2>1, <2>2 DEF LabelsAre, LastDefinition
  <1>7. PICK k \in Nat : k = l
    BY <1>2
  <1>8. TextsAre(k)'
    BY <1>1, <1>5, <1>7, TextsFrame
  <1>9. /\ instruction_text'[k + 1] \in 1..Len(file)'
        /\ LineOf(k + 1)' = Line
        /\ Before(instruction_text[k + 1])' = k + 1
    <2>1. instruction_text'[k + 1] = pos + 1
      BY <1>5, <1>7
    <2>2. LineOf(k + 1)' = Line
      BY <1>1, <1>3, <2>1 DEF LineOf
    <2>3. Before(instruction_text[k + 1])' = Before(LinesRead)'
      BY <1>4, <2>1 DEF Before, InstrUpTo
    <2> QED
      BY <1>1, <1>3, <1>4, <1>7, <2>1, <2>2, <2>3
  <1>10. Resolved(k + 1)'
    <2> SUFFICES ASSUME k + 1 \notin damaged', LineOf(k + 1)'.operation \in Branches
                 PROVE  \E key \in SourceWord : \E v :
                          key = LineOf(k + 1)'.words[1] /\ v = instructions'[k + 1].operand2 /\ Target(key, v)'
      BY DEF Resolved
    <2>1. lost = {} /\ copied = TRUE
      BY <1>1, <1>7
    <2>2. Line.words[1] \in SourceWord /\ i.operand2 = get(Line.words[1])
      BY <1>1, <1>3, <1>9, <2>1, BranchParsed DEF i
    <2>3. PICK key \in SourceWord : key = Line.words[1]
      BY <2>2
    <2>4. Target(key, get(key))
      <3>1. \A d \in Definitions(key) : d <= Len(file)
        BY <1>2 DEF Definitions, ShapeOK
      <3>2. CASE Definitions(key) = {}
        BY <1>1, <3>2 DEF Target, LabelsAre, get
      <3>3. CASE Definitions(key) # {}
        BY <1>1, <3>1, <3>3 DEF Target, LabelsAre, get
      <3> QED
        BY <3>2, <3>3
    <2>5. PICK v : v = get(key)
      OBVIOUS
    <2>6. Target(key, v)'
      BY <1>1, <2>4, <2>5, TargetFrame
    <2>7. instructions'[k + 1] = i
      BY <1>5, <1>7
    <2> QED
      BY <1>9, <2>2, <2>3, <2>5, <2>6, <2>7
  <1>11. Decoded(k + 1)'
    <2> SUFFICES ASSUME k + 1 \notin damaged', WellFormed(Line)
                 PROVE  Decodes(i, Line)
      BY <1>5, <1>7, <1>9 DEF Decoded
    <2>1. lost = {} /\ copied = TRUE
      BY <1>1, <1>7
    <2> QED
      BY <1>3, <2>1, WellFormedParsed DEF i
  <1>12. TextsAre(k + 1)'
    <2> SUFFICES ASSUME NEW n \in 1..(k + 1)
                 PROVE  /\ instruction_text'[n] \in 1..Len(file)'
                        /\ LineOf(n)'.kind = "instr"
                        /\ Before(instruction_text[n])' = n
                        /\ Resolved(n)'
                        /\ Decoded(n)'
      BY DEF TextsAre
    <2>1. CASE n \in 1..k
      BY <1>8, <2>1 DEF TextsAre
    <2>2. CASE n = k + 1
      BY <1>1, <1>9, <1>10, <1>11, <2>2
    <2> QED
      BY <1>7, <2>1, <2>2
  <1>13. TextsAre(Len(instructions))'
    BY <1>5, <1>7, <1>12 DEF TextsAre
  <1> QED
    BY <1>1, <1>4, <1>5, <1>6, <1>13 DEF ProgramInv

\* Every step keeps ProgramInv.
LEMMA ProgramStep ==
  ASSUME RoomInv, ProgramInv, [Next]_vars
  PROVE  ProgramInv'
PROOF
  <1> USE DEF source, arrays
  <1>0. ShapeOK /\ Len(file) \in Nat /\ Before(Len(file)) \in Nat /\ Before(0) = 0
    <2>1. ShapeOK /\ Len(file) \in Nat
      BY DEF RoomInv, ShapeOK
    <2> QED
      BY <2>1, BeforeNext
  <1>1. ASSUME phase' \notin {"open", "first", "second", "assembled", "run"} PROVE ProgramInv'
    BY <1>1 DEF ProgramInv
  <1>2. CASE OpenFails \/ PutFails \/ AllocFails \/ HaltAllocFails \/ RunFails \/ RunReturns \/ CacheSimulated
    BY <1>1, <1>2 DEF OpenFails, PutFails, AllocFails, HaltAllocFails, RunFails, RunReturns,
                      CacheSimulated, Fail
  <1>3. ASSUME NEW lost, LineCrashes(lost) PROVE ProgramInv'
    BY <1>1, <1>3 DEF LineCrashes
  <1>4. CASE Open
    <2>1. /\ phase' = "first" /\ pos' = 0 /\ labels' = <<>> /\ line_number' = 0 /\ file' = file
      BY <1>4 DEF Open, ProgramInv
    <2>2. LinesRead' = 0
      BY <1>0, <2>1 DEF LinesRead
    <2>3. Before(LinesRead)' = Before(0)
      BY <2>1, <2>2 DEF Before, InstrUpTo
    <2>4. \A key : \A d \in Definitions(key)' : d \in Nat \ {0}
      BY <1>0, <2>1 DEF Definitions, ShapeOK
    <2>5. LabelsAre(LinesRead)'
      BY <2>1, <2>2, <2>4 DEF LabelsAre
    <2> QED
      BY <1>0, <2>1, <2>3, <2>5 DEF ProgramInv
  <1>5. CASE FirstPass
    BY <1>5, FirstPassStep
  <1>6. CASE Rewind
    <2>1. /\ phase = "first" /\ phase' = "second" /\ pos = Iterations /\ pos' = 0
          /\ file' = file /\ labels' = labels /\ instructions' = instructions
          /\ Len(instructions) = 0
      BY <1>6 DEF Rewind, RoomInv
    <2>2. LinesRead = Len(file) /\ LinesRead' = 0
      BY <1>0, <2>1, OneIteration DEF LinesRead, ShapeOK
    <2>3. Before(LinesRead)' = Before(0)
      BY <2>1, <2>2 DEF Before, InstrUpTo
    <2>4. PICK k : k = Len(file)
      OBVIOUS
    <2>5. LabelsAre(k)'
      BY <2>1, <2>2, <2>4, LabelsFrame DEF ProgramInv
    <2>6. LabelsAre(Len(file))'
      BY <2>1, <2>4, <2>5 DEF LabelsAre, LastDefinition
    <2>7. TextsAre(Len(instructions))'
      BY <2>1 DEF TextsAre
    <2> QED
      BY <1>0, <2>1, <2>3, <2>6, <2>7 DEF ProgramInv
  <1>7. CASE SkipLine
    <2>1. /\ phase = "second" /\ phase' = "second" /\ file' = file /\ labels' = labels
          /\ pos' = pos + 1 /\ Line.kind # "instr"
          /\ UNCHANGED <<instructions, instruction_text, damaged>>
          /\ LabelsAre(Len(file)) /\ Len(instructions) = Before(LinesRead)
          /\ TextsAre(Len(instructions))
      BY <1>7 DEF SkipLine, Iterating, ProgramInv
    <2>2. Before(LinesRead)' = Len(instructions)
      <3>1. Before(LinesRead)' = Before(LinesRead) + Count(Line) /\ Count(Line) = 0
        BY <1>0, <2>1, ReadNext DEF Count
      <3>2. Before(LinesRead) \in Nat
        BY <2>1 DEF RoomInv, ShapeOK
      <3> QED
        BY <2>1, <3>1, <3>2
    <2>3. PICK k, n : k = Len(file) /\ n = Len(instructions)
      OBVIOUS
    <2>4. LabelsAre(k)' /\ TextsAre(n)'
      BY <2>1, <2>3, LabelsFrame, TextsFrame
    <2>5. LabelsAre(Len(file))' /\ TextsAre(Len(instructions))'
      BY <2>1, <2>3, <2>4 DEF LabelsAre, LastDefinition, TextsAre
    <2> QED
      BY <2>1, <2>2, <2>5 DEF ProgramInv
  <1>8. ASSUME NEW lost, NEW copied \in BOOLEAN, ParseLine(lost, copied) PROVE ProgramInv'
    BY <1>8, ParseLineStep
  <1>9. CASE AppendHalt
    <2> DEFINE l == Len(instructions)
    <2>1. /\ phase = "second" /\ phase' = "assembled" /\ file' = file /\ damaged' = damaged
          /\ pos = Iterations
          /\ instructions' = Append(instructions, halt_instr)
          /\ instruction_text' = Append(instruction_text, Len(file) + 1)
          /\ l = Before(LinesRead) /\ TextsAre(l)
      BY <1>9 DEF AppendHalt, ProgramInv
    <2>2. LinesRead = Len(file)
      BY <1>0, <2>1, OneIteration DEF LinesRead, ShapeOK
    <2>3. /\ Len(instructions') = l + 1 /\ instruction_text'[l + 1] = Len(file) + 1
          /\ \A n \in 1..l : /\ instructions'[n] = instructions[n]
                             /\ instruction_text'[n] = instruction_text[n]
      BY <1>0, <2>1, AppendShape DEF ShapeOK
    <2>4. PICK k : k = l
      OBVIOUS
    <2>5. TextsAre(k)'
      BY <2>1, <2>3, <2>4, TextsFrame
    <2>6. Before(Len(file))' = k
      BY <2>1, <2>2, <2>4 DEF Before, InstrUpTo
    <2>7. TextsAre(Before(Len(file)))'
      BY <2>5, <2>6 DEF TextsAre
    <2> QED
      BY <2>1, <2>3, <2>4, <2>6, <2>7 DEF ProgramInv
  <1>10. CASE Store \/ UNCHANGED vars
    <2>1. /\ UNCHANGED <<file, pos, labels, line_number, instructions, instruction_text, damaged>>
          /\ \/ phase' = phase
             \/ phase = "assembled" /\ phase' = "run"
      BY <1>10 DEF Store, vars
    <2>2. LinesRead' = LinesRead /\ \A j : Before(j)' = Before(j)
      BY <2>1 DEF LinesRead, Before, InstrUpTo
    <2>3. Before(LinesRead)' = Before(LinesRead) /\ Before(Len(file))' = Before(Len(file))
      BY <2>1, <2>2 DEF Before, InstrUpTo
    <2>4. \A k : (LabelsAre(k) => LabelsAre(k)') /\ (TextsAre(k) => TextsAre(k)')
      BY <2>1, LabelsFrame, TextsFrame
    <2>5. /\ LabelsAre(LinesRead) => LabelsAre(LinesRead)'
          /\ LabelsAre(Len(file)) => LabelsAre(Len(file))'
          /\ TextsAre(Len(instructions)) => TextsAre(Len(instructions))'
          /\ TextsAre(Before(Len(file))) => TextsAre(Before(Len(file)))'
      <3>1. PICK k1, k2, k3, k4 :
              k1 = LinesRead /\ k2 = Len(file) /\ k3 = Len(instructions) /\ k4 = Before(Len(file))
        OBVIOUS
      <3>2. LabelsAre(k1)' => LabelsAre(LinesRead)'
        BY <2>2, <3>1 DEF LabelsAre, LastDefinition
      <3>3. LabelsAre(k2)' => LabelsAre(Len(file))'
        BY <2>1, <3>1 DEF LabelsAre, LastDefinition
      <3>4. TextsAre(k3)' => TextsAre(Len(instructions))'
        BY <2>1, <3>1 DEF TextsAre
      <3>5. TextsAre(k4)' => TextsAre(Before(Len(file)))'
        BY <2>3, <3>1 DEF TextsAre
      <3> QED
        BY <2>4, <3>1, <3>2, <3>3, <3>4, <3>5
    <2> QED
      BY <2>1, <2>3, <2>5 DEF ProgramInv
  <1> QED
    BY <1>2, <1>3, <1>4, <1>5, <1>6, <1>7, <1>8, <1>9, <1>10 DEF Next, SecondPass

\* A remainder is what is left of a multiple.
LEMMA Remainder ==
  ASSUME NEW w \in Nat \ {0}, NEW q \in Int, NEW r \in 0..(w - 1)
  PROVE  (w * q + r) % w = r
PROOF
  OBVIOUS

\* ProgramInv holds in every state.
LEMMA ProgramInvHolds == Spec => []ProgramInv
PROOF
  <1>1. Init => ProgramInv
    BY DEF Init, ProgramInv
  <1>2. RoomInv /\ ProgramInv /\ [Next]_vars => ProgramInv'
    BY ProgramStep
  <1> QED
    BY <1>1, <1>2, RoomInvHolds, PTL DEF Spec

\* The pc after a branch to an instruction of a program that fits in memory, and
\* after a branch to no label: the product wraps to a pc outside of memory.
LEMMA TargetArithmetic ==
  ASSUME NEW t \in Nat, NEW n \in Nat, t <= n, n * INSTR_SIZE <= MEM_SIZE
  PROVE  /\ (t * INSTR_SIZE) % WordMod = t * INSTR_SIZE
         /\ (UINT64_MAX * INSTR_SIZE) % WordMod >= MEM_SIZE
PROOF
  <1> DEFINE I == INSTR_SIZE
             W == WordMod
  <1>1. I \in Nat \ {0} /\ MEM_SIZE \in Nat
    BY Widths, MemAssumption
  <1>3. W \in Int
    BY Widths
  <1>4. MEM_SIZE + I <= W
    BY AddressAssumption
  <1>5. UINT64_MAX = W - 1
    BY DEF UINT64_MAX
  <1> HIDE DEF I, W
  <1>6. W \in Nat /\ I <= W /\ MEM_SIZE < W
    BY <1>1, <1>3, <1>4
  <1>7. t * I \in Nat /\ t * I <= n * I
    BY <1>1
  <1>8. (t * I) % W = t * I
    BY <1>1, <1>6, <1>7 DEF I
  <1>9. (W - 1) * I = W * (I - 1) + (W - I)
    BY <1>1, <1>6
  <1>10. ((W - 1) * I) % W = W - I
    <2>1. W \in Nat \ {0} /\ I - 1 \in Int /\ W - I \in 0..(W - 1)
      BY <1>1, <1>6
    <2>2. (W * (I - 1) + (W - I)) % W = W - I
      BY <2>1, Remainder
    <2> QED
      BY <1>9, <2>2
  <1>11. W - I >= MEM_SIZE
    BY <1>1, <1>3, <1>4
  <1> QED
    BY <1>5, <1>8, <1>10, <1>11 DEF I, W

\* The line of an instruction is the first one after line d if its number is the
\* next one after those up to line d; HALT comes after all lines.
LEMMA NextInstruction ==
  ASSUME ShapeOK, NEW d \in 1..Len(file), NEW m \in 1..(Len(file) + 1),
         \/ m \in 1..Len(file) /\ file[m].kind = "instr" /\ Before(m) = Before(d) + 1
         \/ m = Len(file) + 1 /\ Before(d) = Before(Len(file))
  PROVE  m = Min(InstrAfter(d))
PROOF
  <1>0. Len(file) \in Nat /\ d \in Nat /\ m \in Nat
    BY DEF ShapeOK
  <1>1. m \in InstrAfter(d)
    <2>1. CASE m \in 1..Len(file) /\ file[m].kind = "instr" /\ Before(m) = Before(d) + 1
      <3>1. ~(m <= d)
        BY <1>0, <2>1, BeforeOrder
      <3> QED
        BY <1>0, <2>1, <3>1 DEF InstrAfter
    <2>2. CASE m = Len(file) + 1
      BY <2>2 DEF InstrAfter
    <2> QED
      BY <2>1, <2>2
  <1>2. ASSUME NEW x \in InstrAfter(d) PROVE m <= x
    <2>1. x = Len(file) + 1 \/ (x \in (d + 1)..Len(file) /\ file[x].kind = "instr")
      BY DEF InstrAfter
    <2>2. CASE x = Len(file) + 1
      BY <1>0, <2>2
    <2>3. CASE x \in (d + 1)..Len(file) /\ file[x].kind = "instr"
      <3>1. x \in Nat /\ d < x /\ d <= x /\ x <= Len(file)
        BY <1>0, <2>3
      <3>2. Before(d) < Before(x) /\ Before(x) <= Before(Len(file))
        <4>1. Before(d) < Before(x)
          BY <1>0, <2>3, <3>1, BeforeOrder
        <4>2. Before(x) <= Before(Len(file))
          BY <1>0, <3>1, BeforeOrder
        <4> QED
          BY <4>1, <4>2
      <3>3. Before(d) \in Nat /\ Before(x) \in Nat
        BY <1>0, <3>1, BeforeNext
      <3>4. CASE m = Len(file) + 1 /\ Before(d) = Before(Len(file))
        BY <3>2, <3>3, <3>4
      <3>5. CASE m \in 1..Len(file) /\ file[m].kind = "instr" /\ Before(m) = Before(d) + 1
        <4>1. ASSUME x < m PROVE Before(x) < Before(m)
          <5>1. x <= m
            BY <1>0, <3>1, <4>1
          <5> QED
            BY <1>0, <3>1, <3>5, <4>1, <5>1, BeforeOrder
        <4> QED
          BY <1>0, <3>1, <3>2, <3>3, <3>5, <4>1
      <3> QED
        BY <3>4, <3>5
    <2> QED
      BY <2>1, <2>2, <2>3
  <1>3. \A x \in InstrAfter(d) : (\A y \in InstrAfter(d) : x <= y) => x = m
    <2>1. \A x \in InstrAfter(d) : x \in Nat
      BY <1>0 DEF InstrAfter
    <2> QED
      BY <1>0, <1>1, <1>2, <2>1
  <1> QED
    BY <1>1, <1>2, <1>3 DEF Min

\* An instruction that was parsed as its line stands is not the HALT at the end.
LEMMA SoundIsParsed ==
  ASSUME RoomInv, ProgramInv, Assembled, NEW n \in Sound
  PROVE  n \in 1..Before(Len(file)) /\ n \notin damaged /\ TextsAre(Before(Len(file)))
PROOF
  <1> DEFINE l == Len(instructions)
  <1>1. l \in Nat /\ DOMAIN instructions = 1..l /\ Len(file) \in Nat /\ DOMAIN file = 1..Len(file)
    BY DEF RoomInv, ShapeOK
  <1>2. /\ l = Before(Len(file)) + 1 /\ instruction_text[l] = Len(file) + 1
        /\ TextsAre(Before(Len(file))) /\ Before(Len(file)) \in Nat
    BY <1>1, BeforeNext DEF Assembled, ProgramInv
  <1>3. n \in 1..l /\ instruction_text[n] \in 1..Len(file) /\ n \notin damaged
    BY <1>1 DEF Sound
  <1>4. n # l
    BY <1>1, <1>2, <1>3
  <1> QED
    BY <1>1, <1>2, <1>3, <1>4

\* For any source file: every line of a form that the instruction set knows, parsed
\* while allocations succeed, becomes the instruction that it says.
THEOREM DecodesAsWrittenHolds == Spec => []DecodesAsWritten
PROOF
  <1>1. RoomInv /\ ProgramInv => DecodesAsWritten
    <2> SUFFICES ASSUME RoomInv, ProgramInv, Assembled, NEW n \in Sound, WellFormed(LineOf(n))
                 PROVE  Decodes(instructions[n], LineOf(n))
      BY DEF DecodesAsWritten
    <2>1. n \in 1..Before(Len(file)) /\ n \notin damaged /\ TextsAre(Before(Len(file)))
      BY SoundIsParsed
    <2> QED
      BY <2>1 DEF TextsAre, Decoded
  <1> QED
    BY <1>1, RoomInvHolds, ProgramInvHolds, PTL

\* For any source file: the two passes of parse_assembly agree on the number of
\* every instruction, so a branch goes to the first instruction after the last
\* definition of its label, and a branch to an undefined label leaves memory.
THEOREM BranchesReachLabelsHolds == Spec => []BranchesReachLabels
PROOF
  <1>1. RoomInv /\ ProgramInv => BranchesReachLabels
    <2> DEFINE l == Len(instructions)
    <2> SUFFICES ASSUME RoomInv, ProgramInv, Assembled, NEW n \in Sound,
                        LineOf(n).operation \in Branches
                 PROVE  LET defs == Definitions(LineOf(n).words[1]) IN
                        IF defs = {} THEN TargetPc(instructions[n]) >= MEM_SIZE
                        ELSE \E t \in DOMAIN instructions :
                               /\ TargetPc(instructions[n]) = (t - 1) * INSTR_SIZE
                               /\ instruction_text[t] = Min(InstrAfter(Max(defs)))
      BY DEF BranchesReachLabels
    <2>1. /\ ShapeOK /\ l \in Nat /\ DOMAIN instructions = 1..l
          /\ Len(file) \in Nat /\ DOMAIN file = 1..Len(file)
      BY DEF RoomInv, ShapeOK
    <2>2. /\ l = Before(Len(file)) + 1 /\ instruction_text[l] = Len(file) + 1
          /\ TextsAre(Before(Len(file)))
          /\ (l + 1) * INSTR_SIZE <= MEM_SIZE
          /\ Before(Len(file)) \in Nat
      BY <2>1, BeforeNext DEF Assembled, ProgramInv
    <2>3. n \in 1..Before(Len(file)) /\ n \notin damaged
      BY SoundIsParsed
    <2>4. PICK key \in SourceWord :
            key = LineOf(n).words[1] /\ Target(key, instructions[n].operand2)
      BY <2>2, <2>3 DEF TextsAre, Resolved
    <2>5. CASE Definitions(key) = {}
      <3>1. instructions[n].operand2 = UINT64_MAX
        BY <2>4, <2>5 DEF Target
      <3>2. TargetPc(instructions[n]) >= MEM_SIZE
        BY <2>1, <2>2, <3>1, TargetArithmetic DEF TargetPc
      <3> QED
        BY <2>4, <2>5, <3>2
    <2>6. CASE Definitions(key) # {}
      <3>1. PICK d \in Definitions(key) :
              /\ \A e \in Definitions(key) : e <= Len(file) => e <= d
              /\ instructions[n].operand2 = Before(d)
        BY <2>4, <2>6 DEF Target, LastDefinition
      <3>2. \A e \in Definitions(key) : e \in 1..Len(file)
        BY <2>1 DEF Definitions
      <3>3. Max(Definitions(key)) = d
        <4>1. \A e \in Definitions(key) : d >= e
          BY <2>1, <3>1, <3>2
        <4>2. \A x \in Definitions(key) : (\A y \in Definitions(key) : x >= y) => x = d
          BY <2>1, <3>2, <4>1
        <4> QED
          BY <4>1, <4>2 DEF Max
      <3> DEFINE t == Before(d) + 1
      <3>4. Before(d) \in Nat /\ Before(d) <= Before(Len(file)) /\ d \in 1..Len(file)
        BY <2>1, <3>2, BeforeOrder
      <3>5. t \in 1..l
        BY <2>2, <3>4
      <3>6. TargetPc(instructions[n]) = (t - 1) * INSTR_SIZE
        <4>1. Before(d) <= l + 1 /\ l + 1 \in Nat /\ t - 1 = Before(d)
          BY <2>1, <2>2, <3>4
        <4>2. (Before(d) * INSTR_SIZE) % WordMod = Before(d) * INSTR_SIZE
          BY <2>2, <3>4, <4>1, TargetArithmetic
        <4> QED
          BY <3>1, <4>1, <4>2 DEF TargetPc
      <3>7. instruction_text[t] = Min(InstrAfter(d))
        <4>1. CASE t = l
          <5>1. instruction_text[t] = Len(file) + 1 /\ Before(d) = Before(Len(file))
            BY <2>2, <3>4, <4>1
          <5>2. Len(file) + 1 \in 1..(Len(file) + 1)
            BY <2>1
          <5> QED
            BY <2>1, <3>4, <5>1, <5>2, NextInstruction
        <4>2. CASE t # l
          <5>1. t \in 1..Before(Len(file))
            BY <2>2, <3>4, <4>2
          <5>2. /\ instruction_text[t] \in 1..Len(file)
                /\ file[instruction_text[t]].kind = "instr"
                /\ Before(instruction_text[t]) = t
            BY <2>2, <5>1 DEF TextsAre, LineOf
          <5>3. instruction_text[t] \in 1..(Len(file) + 1)
            BY <2>1, <5>2
          <5> QED
            BY <2>1, <3>4, <5>2, <5>3, NextInstruction
        <4> QED
          BY <4>1, <4>2
      <3> HIDE DEF t
      <3> QED
        BY <2>1, <2>4, <2>6, <3>3, <3>5, <3>6, <3>7
    <2> QED
      BY <2>5, <2>6
  <1> QED
    BY <1>1, RoomInvHolds, ProgramInvHolds, PTL

-----------------------------------------------------------------------------
(***************************************************************************)
(* What is stored is what is fetched.                                      *)
(***************************************************************************)

\* The instructions that parse_line makes: operand2 is a word, or the address of
\* a label, which is no greater than the number of instructions.
Code == [opcode : Byte, mode : Byte, operand1 : Byte, operand2 : Word \cup 0..Before(Len(file))]

\* The inductive invariant, on top of RoomInv and ProgramInv.
CodeInv ==
  /\ instructions \in Seq(Code)
  /\ phase \in {"open", "first", "second", "assembled"} => memory = Memory0
  /\ phase \in {"assembled", "run"} => \E prog \in Seq(Code) : instructions = Append(prog, halt_instr)
  /\ phase = "run" => memory = store_machine_code(Memory0, instructions)

\* Every opcode, mode and default value fits in its field.
LEMMA StartIsCode ==
  ASSUME NEW operation
  PROVE  /\ Start(operation) \in Code
         /\ REGISTER \in Byte /\ DIRECT_LOAD \in Byte /\ DIRECT_STORE \in Byte /\ IMMEDIATE \in Byte
         /\ Regs \subseteq Byte /\ Regs \subseteq Word /\ MOV \in Byte
PROOF
  <1>1. 0..63 \subseteq Byte /\ UINT8_MAX \in Byte
    BY Widths, ByteHolds64 DEF Byte, UINT8_MAX
  <1>2. UINT64_MAX \in Word
    BY Widths DEF Word, UINT64_MAX
  <1>3. ASSUME operation \in DOMAIN Opcodes PROVE Opcodes[operation] \in 0..63
    BY <1>3 DEF Opcodes, ADD, SUB, AND, OR, NOT, MOV, CMP, JMP, JE, JG, JL
  <1>4. LABEL \in Byte /\ REGISTER \in Byte /\ DIRECT_LOAD \in Byte /\ DIRECT_STORE \in Byte
        /\ IMMEDIATE \in Byte /\ MOV \in Byte
    BY <1>1 DEF LABEL, REGISTER, DIRECT_LOAD, DIRECT_STORE, IMMEDIATE, MOV
  <1>5. Regs \subseteq Byte /\ Regs \subseteq Word
    <2>1. Regs \subseteq 0..63
      BY DEF Regs
    <2> QED
      BY <1>1, <2>1, ByteIsWord
  <1>6. (IF operation \in DOMAIN Opcodes THEN Opcodes[operation] ELSE UINT8_MAX) \in Byte
    BY <1>1, <1>3
  <1>7. (IF operation \in Branches THEN LABEL
         ELSE IF operation = "NOT" THEN REGISTER ELSE UINT8_MAX) \in Byte
    BY <1>1, <1>4
  <1>8. Start(operation) \in Code
    BY <1>1, <1>2, <1>6, <1>7 DEF Start, Code
  <1> QED
    BY <1>4, <1>5, <1>8

\* An operand keeps every field in its range.
LEMMA OperandsAreCode ==
  ASSUME NEW instr \in Code, NEW w \in SourceWord
  PROVE  SecondOperand(instr, w) \in Code /\ DefaultMode(instr) \in Code
PROOF
  <1>1. \/ w.kind = "reg" /\ w.val \in Regs
        \/ w.kind \in {"addr", "int", "name"} /\ w.val \in Word
    BY DEF SourceWord
  <1>2. w.val \in Word \cup 0..Before(Len(file))
    BY <1>1, StartIsCode
  <1>3. SecondOperand(instr, w) \in Code
    BY <1>1, <1>2, StartIsCode DEF SecondOperand, Code
  <1>4. DefaultMode(instr) \in Code
    BY StartIsCode DEF DefaultMode, Code
  <1> QED
    BY <1>3, <1>4

LEMMA FirstIsCode ==
  ASSUME NEW instr \in Code, NEW w \in SourceWord, Before(Len(file)) \in Nat
  PROVE  FirstOperand(instr, w) \in Code
PROOF
  <1>1. \/ w.kind = "reg" /\ w.val \in Regs
        \/ w.kind \in {"addr", "int", "name"} /\ w.val \in Word
    BY DEF SourceWord
  <1>2. instr.operand2 \in Nat
    BY Widths DEF Code, Word
  <1>3. instr.operand2 % ByteMod \in Byte
    <2>1. PICK b \in Nat \ {0}, x \in Nat : b = ByteMod /\ x = instr.operand2
      BY <1>2, Widths
    <2>2. x % b \in 0..(b - 1)
      OBVIOUS
    <2> QED
      BY <2>1, <2>2 DEF Byte
  <1>4. CASE w.kind = "reg"
    BY <1>1, <1>4, StartIsCode DEF FirstOperand, Code
  <1>5. CASE w.kind = "addr"
    <2>1. FirstOperand(instr, w)
            = [instr EXCEPT !.mode = DIRECT_STORE, !.operand2 = w.val,
                            !.operand1 = instr.operand2 % ByteMod]
      BY <1>5 DEF FirstOperand
    <2>2. PICK x \in Byte : x = instr.operand2 % ByteMod
      BY <1>3
    <2> QED
      BY <1>1, <1>5, <2>1, <2>2, StartIsCode DEF Code
  <1>6. CASE w.kind # "reg" /\ w.kind # "addr"
    BY <1>6 DEF FirstOperand
  <1> QED
    BY <1>4, <1>5, <1>6

\* The address of a label is the number of the instructions before some line.
LEMMA AddressIsCode ==
  ASSUME ShapeOK, LabelsAre(Len(file)), NEW key \in SourceWord
  PROVE  get(key) \in Word \cup 0..Before(Len(file))
PROOF
  <1>1. Len(file) \in Nat /\ DOMAIN file = 1..Len(file)
    BY DEF ShapeOK
  <1>2. CASE \E d \in Definitions(key) : d <= Len(file)
    <2>1. key \in DOMAIN labels /\ LastDefinition(key, Len(file), labels[key])
      BY <1>2 DEF LabelsAre
    <2>2. PICK d \in Definitions(key) : d <= Len(file) /\ labels[key] = Before(d)
      BY <2>1 DEF LastDefinition
    <2>3. d \in Nat
      BY <1>1 DEF Definitions
    <2>4. Before(d) \in Nat /\ Before(Len(file)) \in Nat /\ Before(d) <= Before(Len(file))
      BY <1>1, <2>2, <2>3, BeforeOrder
    <2> QED
      BY <2>1, <2>2, <2>4 DEF get
  <1>3. CASE ~(\E d \in Definitions(key) : d <= Len(file))
    <2>1. get(key) = UINT64_MAX
      BY <1>3 DEF LabelsAre, get
    <2> QED
      BY <2>1, Widths DEF UINT64_MAX, Word
  <1> QED
    BY <1>2, <1>3

\* parse_line makes code, whatever allocations fail.
LEMMA ParsedIsCode ==
  ASSUME ShapeOK, LabelsAre(Len(file)), NEW operation, NEW copied \in BOOLEAN,
         NEW parts, parts.operand1 \in SourceWord \cup {NULL}, parts.operand2 \in SourceWord \cup {NULL},
         ~ParseCrashes(parts)
  PROVE  parse_line(operation, parts, copied) \in Code
PROOF
  <1> DEFINE start == Start(operation)
             word == IF parts.operand2 = NULL THEN parts.operand1 ELSE parts.operand2
             second == SecondOperand(start, word)
             key == IF parts.operand1 = NULL THEN parts.operand2 ELSE parts.operand1
  <1>0. Before(Len(file)) \in Nat
    BY BeforeNext DEF ShapeOK
  <1>1. word \in SourceWord /\ key \in SourceWord
    BY DEF ParseCrashes
  <1>2. start \in Code
    BY StartIsCode
  <1> HIDE DEF start, word, key
  <1>3. second \in Code
    BY <1>1, <1>2, OperandsAreCode
  <1> HIDE DEF second
  <1>4. CASE operation \in Branches
    <2>1. parse_line(operation, parts, copied) = [start EXCEPT !.operand2 = get(key)]
      BY <1>4 DEF parse_line, start, key
    <2>2. PICK a \in Word \cup 0..Before(Len(file)) : a = get(key)
      BY <1>1, AddressIsCode
    <2> QED
      BY <1>2, <2>1, <2>2 DEF Code
  <1>5. CASE operation \notin Branches /\ parts.operand2 = NULL /\ ~copied
    <2>1. parse_line(operation, parts, copied) = start
      BY <1>5 DEF parse_line, start
    <2> QED
      BY <1>2, <2>1
  <1>6. CASE operation \notin Branches /\ ~(parts.operand2 = NULL /\ ~copied)
    <2>1. parse_line(operation, parts, copied)
            = IF parts.operand1 = NULL THEN second
              ELSE DefaultMode(FirstOperand(second, parts.operand1))
      BY <1>6 DEF parse_line, start, word, second
    <2>2. CASE parts.operand1 = NULL
      BY <1>3, <2>1, <2>2
    <2>3. CASE parts.operand1 # NULL
      <3>1. parts.operand1 \in SourceWord
        BY <2>3
      <3>2. PICK f \in Code : f = FirstOperand(second, parts.operand1)
        BY <1>0, <1>3, <3>1, FirstIsCode
      <3>3. DefaultMode(f) \in Code
        BY <3>1, <3>2, OperandsAreCode
      <3> QED
        BY <2>1, <2>3, <3>2, <3>3
    <2> QED
      BY <2>2, <2>3
  <1> QED
    BY <1>4, <1>5, <1>6

\* Every step keeps CodeInv.
LEMMA CodeStep ==
  ASSUME RoomInv, ProgramInv, CodeInv, [Next]_vars
  PROVE  CodeInv'
PROOF
  <1>0. ShapeOK /\ instructions \in Seq(Code) /\ Len(file) \in Nat /\ Before(Len(file)) \in Nat
    <2>1. ShapeOK /\ Len(file) \in Nat /\ Before(Len(file)) \in Nat
      BY BeforeNext DEF RoomInv, ShapeOK
    <2> QED
      BY <2>1 DEF CodeInv
  <1>1. file' = file => Code' = Code
    BY DEF Code, Before, InstrUpTo
  <1>2. file' = file
    BY DEF Next, SecondPass, Open, OpenFails, FirstPass, PutFails, Rewind, SkipLine, ParseLine,
           LineCrashes, AllocFails, AppendHalt, HaltAllocFails, Store, RunFails, RunReturns,
           CacheSimulated, Fail, vars, source
  <1>3. ASSUME NEW lost, NEW copied \in BOOLEAN, ParseLine(lost, copied) PROVE CodeInv'
    <2> DEFINE parts == Split(Line, lost)
    <2>1. /\ phase = "second" /\ phase' = phase
          /\ Line.kind = "instr" /\ ~ParseCrashes(parts) /\ memory' = memory
          /\ instructions' = Append(instructions, parse_line(Line.operation, parts, copied))
      BY <1>3 DEF ParseLine, Iterating
    <2>2. Line.words \in Seq(SourceWord) /\ Line.trailing \in BOOLEAN
      BY <1>0, <2>1, LineShape
    <2>3. parts.operand1 \in SourceWord \cup {NULL} /\ parts.operand2 \in SourceWord \cup {NULL}
      <3> DEFINE w == Line.words
      <3>1. /\ \/ parts.operand1 = NULL
               \/ Len(w) >= 1 /\ parts.operand1 = w[1]
            /\ \/ parts.operand2 = NULL
               \/ Len(w) >= 1 /\ parts.operand2 = w[1]
               \/ Len(w) >= 2 /\ parts.operand2 = w[2]
        BY <2>2 DEF Split, split_by_char
      <3>2. Len(w) \in Nat /\ \A n \in 1..Len(w) : w[n] \in SourceWord
        BY <2>2
      <3>3. /\ Len(w) >= 1 => w[1] \in SourceWord
            /\ Len(w) >= 2 => w[2] \in SourceWord
        BY <3>2
      <3> HIDE DEF parts, w
      <3> QED
        BY <3>1, <3>3
    <2>4. LabelsAre(Len(file))
      BY <2>1 DEF ProgramInv
    <2> HIDE DEF parts
    <2>5. PICK instr \in Code : instr = parse_line(Line.operation, parts, copied)
      BY <1>0, <2>1, <2>3, <2>4, ParsedIsCode
    <2>6. instructions' \in Seq(Code)
      BY <1>0, <2>1, <2>5
    <2> QED
      BY <1>1, <1>2, <2>1, <2>6 DEF CodeInv
  <1>4. CASE AppendHalt
    <2>1. /\ phase = "second" /\ phase' = "assembled" /\ memory' = memory
          /\ instructions' = Append(instructions, halt_instr)
      BY <1>4 DEF AppendHalt
    <2>2. MMIO_HALT \in Word
      BY MapAssumption, MemAssumption, Widths DEF Word
    <2>3. halt_instr \in Code
      BY <2>2, StartIsCode, ByteIsWord DEF Code, halt_instr
    <2>4. instructions' \in Seq(Code)
      BY <1>0, <2>1, <2>3
    <2> QED
      BY <1>1, <1>2, <2>1, <2>4 DEF CodeInv
  <1>5. CASE Store
    BY <1>0, <1>1, <1>2, <1>5 DEF Store, arrays, CodeInv
  <1>6. CASE RunReturns
    BY <1>1, <1>2, <1>6 DEF RunReturns, CodeInv
  <1>7. CASE Open \/ OpenFails \/ FirstPass \/ PutFails \/ Rewind \/ SkipLine \/ AllocFails
             \/ HaltAllocFails \/ RunFails \/ CacheSimulated \/ UNCHANGED vars
             \/ \E lost : LineCrashes(lost)
    <2>1. /\ instructions' = instructions
          /\ phase' \in {"open", "first", "second"} =>
               phase \in {"open", "first", "second"} /\ memory' = memory
          /\ phase' \in {"assembled", "run"} => phase' = phase /\ memory' = memory
      BY <1>7 DEF Open, OpenFails, FirstPass, PutFails, Rewind, SkipLine, LineCrashes, AllocFails,
                  HaltAllocFails, RunFails, CacheSimulated, Fail, vars, arrays, Iterating
    <2> QED
      BY <1>0, <1>1, <1>2, <2>1 DEF CodeInv
  <1> QED
    BY <1>3, <1>4, <1>5, <1>6, <1>7 DEF Next, SecondPass

\* CodeInv and the invariants that it rests on hold in every state.
LEMMA CodeInvHolds == Spec => [](RoomInv /\ ProgramInv /\ CodeInv)
PROOF
  <1>1. Init => CodeInv
    BY DEF Init, CodeInv
  <1>2. RoomInv /\ ProgramInv /\ CodeInv /\ [Next]_vars => CodeInv'
    BY CodeStep
  <1> QED
    BY <1>1, <1>2, RoomInvHolds, ProgramInvHolds, PTL DEF Spec

\* The instructions of a program that fits in memory fit in their fields: no label
\* is further than an address can be.
LEMMA CodeFits ==
  ASSUME RoomInv, ProgramInv, phase = "run", Assembled
  PROVE  /\ Code \subseteq Instruction
         /\ Len(instructions) \in Nat
         /\ Len(instructions) * INSTR_SIZE + INSTR_SIZE <= MEM_SIZE
PROOF
  <1>1. PICK l \in Nat : l = Len(instructions) /\ l = Before(Len(file)) + 1
    BY DEF RoomInv, ShapeOK, ProgramInv
  <1>2. PICK s \in Nat : s = INSTR_SIZE /\ s > 3
    BY Widths
  <1>3. l * s + s <= MEM_SIZE /\ l * s \in Nat /\ l <= l * s
    <2>1. (l + 1) * s <= MEM_SIZE /\ (l + 1) * s = l * s + s
      BY <1>1, <1>2 DEF Assembled
    <2> QED
      BY <1>1, <1>2, <2>1
  <1>4. Before(Len(file)) \in Nat /\ Before(Len(file)) < WordMod
    <2>1. Before(Len(file)) \in Nat
      BY BeforeNext DEF RoomInv, ShapeOK
    <2>2. WordMod \in Nat /\ MEM_SIZE \in Nat /\ MEM_SIZE + s <= WordMod
      BY <1>2, Widths, AddressAssumption, MemAssumption
    <2> QED
      BY <1>1, <1>3, <2>1, <2>2
  <1>5. 0..Before(Len(file)) \subseteq Word
    BY <1>4, Widths DEF Word
  <1>6. Code \subseteq Instruction
    BY <1>5 DEF Code, Instruction
  <1> QED
    BY <1>1, <1>2, <1>3, <1>6

\* For any source file and any widths: the client fetches, as the n-th instruction
\* of a program that fits in memory, exactly what parse_line produced for it.
THEOREM FetchesStoredHolds == Spec => []FetchesStored
PROOF
  <1>1. RoomInv /\ ProgramInv /\ CodeInv => FetchesStored
    <2> SUFFICES ASSUME RoomInv, ProgramInv, CodeInv, phase = "run", Assembled,
                        NEW n \in DOMAIN instructions
                 PROVE  Fetched(n) = instructions[n]
      BY DEF FetchesStored
    <2>1. /\ Code \subseteq Instruction
          /\ Len(instructions) * INSTR_SIZE + INSTR_SIZE <= MEM_SIZE
      BY CodeFits
    <2>2. instructions \in Seq(Instruction) /\ n \in 1..Len(instructions)
      BY <2>1 DEF CodeInv
    <2>3. fetch_next(store_machine_code(Memory0, instructions), (n - 1) * INSTR_SIZE) = instructions[n]
      BY <2>1, <2>2, FetchesWhatIsStored
    <2> QED
      BY <2>3 DEF Fetched, CodeInv
  <1> QED
    BY <1>1, CodeInvHolds, PTL

\* Taking its last element off a sequence that was appended to.
LEMMA FrontOfAppend ==
  ASSUME NEW S, NEW p \in Seq(S), NEW e
  PROVE  SubSeq(Append(p, e), 1, Len(Append(p, e)) - 1) = p
PROOF
  <1>1. Len(p) \in Nat /\ p = [k \in 1..Len(p) |-> p[k]]
    OBVIOUS
  <1>2. /\ Len(Append(p, e)) = Len(p) + 1
        /\ \A k \in 1..Len(p) : Append(p, e)[k] = p[k]
    BY <1>1, AppendShape
  <1>3. SubSeq(Append(p, e), 1, Len(p)) = [k \in 1..Len(p) |-> Append(p, e)[k]]
    BY <1>1
  <1> QED
    BY <1>1, <1>2, <1>3

\* The lines that hold an instruction, and those up to one of them, are counted by
\* Before.
LEMMA InstrLinesCount ==
  ASSUME file \in Seq(SourceLine)
  PROVE  /\ Cardinality(InstrLines) = Before(Len(file))
         /\ \A m \in 1..Len(file) : file[m].kind = "instr" => IsInstr(m, Before(m))
PROOF
  <1>1. DOMAIN file = 1..Len(file) /\ Len(file) \in Nat
    OBVIOUS
  <1>2. InstrLines = InstrUpTo(Len(file))
    BY <1>1 DEF InstrLines, InstrUpTo
  <1>3. ASSUME NEW m \in 1..Len(file)
        PROVE  {k \in InstrLines : k <= m} = InstrUpTo(m)
    BY <1>1 DEF InstrLines, InstrUpTo
  <1>4. ASSUME NEW m \in 1..Len(file), file[m].kind = "instr"
        PROVE  IsInstr(m, Before(m))
    <2>1. m \in InstrLines
      BY <1>1, <1>4 DEF InstrLines
    <2> QED
      BY <1>3, <1>4, <2>1 DEF IsInstr, Before
  <1> QED
    BY <1>2, <1>4 DEF Before

\* For any source file and any widths, whichever allocations fail: what the client
\* is given to run is a program of the kind that Emulator assumes, with one
\* instruction for each line that holds one, each beside the text of its line, stored
\* where and as Emulator's Init says, if it fits in memory.
THEOREM HandsOverProgramHolds == Spec => []HandsOverProgram
PROOF
  <1>1. RoomInv /\ ProgramInv /\ CodeInv => HandsOverProgram
    <2> SUFFICES ASSUME RoomInv, ProgramInv, CodeInv, phase = "run", Assembled
                 PROVE  LET prog == SubSeq(instructions, 1, Len(instructions) - 1) IN
                        /\ prog \in Seq(Instruction)
                        /\ Len(prog) = Cardinality(InstrLines)
                        /\ \A n \in DOMAIN prog : IsInstr(instruction_text[n], n)
                        /\ memory = store_machine_code(Memory0, Append(prog, halt_instr))
      BY DEF HandsOverProgram
    <2>1. PICK p \in Seq(Code) : instructions = Append(p, halt_instr)
      BY DEF CodeInv
    <2>2. p \in Seq(Instruction)
      BY <2>1, CodeFits
    <2>3. SubSeq(instructions, 1, Len(instructions) - 1) = p
      BY <2>1, FrontOfAppend
    <2>4. Len(p) \in Nat /\ DOMAIN p = 1..Len(p) /\ Len(instructions) = Len(p) + 1
      BY <2>1
    <2>5. Before(Len(file)) \in Nat /\ file \in Seq(SourceLine)
      BY BeforeNext DEF RoomInv, ShapeOK
    <2>6. Len(p) = Before(Len(file)) /\ TextsAre(Before(Len(file)))
      BY <2>4, <2>5 DEF ProgramInv
    <2>7. ASSUME NEW n \in DOMAIN p
          PROVE  IsInstr(instruction_text[n], n)
      <3>1. /\ instruction_text[n] \in 1..Len(file)
            /\ file[instruction_text[n]].kind = "instr"
            /\ Before(instruction_text[n]) = n
        BY <2>4, <2>6, <2>7 DEF TextsAre, LineOf
      <3> QED
        BY <2>5, <3>1, InstrLinesCount
    <2>8. Len(p) = Cardinality(InstrLines)
      BY <2>5, <2>6, InstrLinesCount
    <2>9. memory = store_machine_code(Memory0, Append(p, halt_instr))
      BY <2>1 DEF CodeInv
    <2> QED
      BY <2>2, <2>3, <2>7, <2>8, <2>9
  <1> QED
    BY <1>1, CodeInvHolds, PTL
=============================================================================
