----------------------------- MODULE MCCacheSim -----------------------------
(***************************************************************************)
(* TLC instances of CacheSim: every accepted configuration of up to three  *)
(* small levels, every trace of a few accesses, with reads of every length *)
(* and an array of traces that has to grow twice.                          *)
(***************************************************************************)
EXTENDS CacheSim

\* Two sets of two lines fit in the first level, two lines in the others.
SmallSizes == <<8, 4, 4>>

\* A third level multiplies the configurations: its traces are one access shorter.
MaxTracesForThree == 5

ShorterForThree == num_lvls = 3 => Len(traces) <= MaxTracesForThree
=============================================================================
