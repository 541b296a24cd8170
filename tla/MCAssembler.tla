---------------------------- MODULE MCAssembler -----------------------------
(***************************************************************************)
(* TLC instance of Assembler: every short file of labels, branches, empty  *)
(* lines and one other instruction, and every pair of lines of any form.   *)
(***************************************************************************)
EXTENDS Assembler

Seqs(S, n) == UNION {[1..k -> S] : k \in 0..n}

a == Name(1)
b == Name(2)

\* Files where the order of the lines matters.
Control ==
  {EmptyLine, LabelLine(a), LabelLine(b),
   InstrLine("JMP", <<a>>, FALSE), InstrLine("JE", <<b>>, TRUE),
   InstrLine("NOT", <<Reg(1)>>, FALSE)}

Words == {Reg(0), Reg(3), Num(0), Num(500), At(0), At(18), At(20), a}

\* Every form of line, well formed or not; "SHL" stands for an unknown operation.
Forms ==
  {InstrLine(op, words, trailing) :
     op \in DOMAIN Opcodes \cup {"SHL"}, words \in Seqs(Words, 2), trailing \in BOOLEAN}

AnyFile ==
  Seqs(Control, 5) \cup {<<x>> : x \in Forms} \cup {<<LabelLine(a), x>> : x \in Forms}
=============================================================================
