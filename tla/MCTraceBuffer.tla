--------------------------- MODULE MCTraceBuffer ----------------------------
(***************************************************************************)
(* TLC instance of TraceBuffer: chunks of two entries, logs that reach     *)
(* into a third chunk, reads that stop inside, at and across a boundary.   *)
(***************************************************************************)
EXTENDS TraceBuffer

\* One entry, and one more than a chunk holds.
InsideAndAcross == {1, CHUNK_SIZE + 1}
=============================================================================
