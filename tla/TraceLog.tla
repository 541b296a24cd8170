------------------------------ MODULE TraceLog ------------------------------
(***************************************************************************)
(* What /dev/trace_collector promises: one log of memory accesses, handed  *)
(* out in order and once, in batches that no other call interleaves.  A    *)
(* fault while a batch is copied to the caller may cut it short.           *)
(***************************************************************************)
EXTENDS Integers, Sequences

CONSTANTS
  Procs,     \* processes that use the device
  Entry,     \* the accesses they record (mem_access)
  Requests   \* how many entries a read may ask for

VARIABLES
  log,     \* the entries recorded since the module was loaded
  taken,   \* how many of them were handed out
  ask,     \* what each process is asking for (0: it is not reading)
  result   \* the batch that the last read handed out

logVars == <<log, taken, ask, result>>

MinOf(a, b) == IF a < b THEN a ELSE b

Init ==
  /\ log = <<>>
  /\ taken = 0
  /\ ask = [p \in Procs |-> 0]
  /\ result = <<>>

Push(e) ==
  /\ log' = Append(log, e)
  /\ UNCHANGED <<taken, ask, result>>

Ask(p, n) ==
  /\ ask[p] = 0
  /\ ask' = [ask EXCEPT ![p] = n]
  /\ UNCHANGED <<log, taken, result>>

Read(p) ==
  /\ ask[p] # 0
  /\ ask' = [ask EXCEPT ![p] = 0]
  /\ \E k \in 0..MinOf(ask[p], Len(log) - taken) :
       /\ result' = SubSeq(log, taken + 1, taken + k)
       /\ taken' = taken + k
  /\ UNCHANGED log

\* The module is unloaded and loaded again.
Clear ==
  /\ log' = <<>>
  /\ taken' = 0
  /\ UNCHANGED <<ask, result>>

Next ==
  \/ \E e \in Entry : Push(e)
  \/ \E p \in Procs, n \in Requests : Ask(p, n)
  \/ \E p \in Procs : Read(p)
  \/ Clear

Spec == Init /\ [][Next]_logVars
=============================================================================
