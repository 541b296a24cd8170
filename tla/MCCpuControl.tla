---------------------------- MODULE MCCpuControl ----------------------------
(***************************************************************************)
(* TLC instances of CpuControl: one or two clients of /dev/cpu_emulator,   *)
(* GPIO reads that succeed or may fail.                                    *)
(***************************************************************************)
EXTENDS CpuControl, FiniteSets, Functions, TLC

NoGpioErrors == {}
EIO == {-5}

Symmetry == Permutations(Clients)

\* The step button advances execution by one instruction: all clients together
\* execute no more instructions in a pause than there were presses, besides
\* those already past the gate.
TotalStepBudget == SumFunction(done) <= tokens + Cardinality(inflight)
=============================================================================
