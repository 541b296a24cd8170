---------------------------- MODULE TraceBuffer -----------------------------
(***************************************************************************)
(* The trace collector driver (trace_collector_driver.c): g_buffer, a list *)
(* of chunks of CHUNK_SIZE entries with a write and a read position, used  *)
(* by concurrent trace_write and trace_read calls under g_buffer.lock.     *)
(* Chunks are numbered from 1 in list order; 0 stands for NULL.            *)
(***************************************************************************)
EXTENDS Integers, Sequences

CONSTANTS
  Procs,      \* processes that use the device
  NoProc,     \* the owner of a free mutex
  Entry,      \* the accesses they record (mem_access)
  Uninit,     \* what an entry of a fresh kmalloc'ed chunk holds
  Requests,   \* max_entries of a read: len / sizeof(mem_access)
  CHUNK_SIZE,
  MaxEntries  \* bound: no write is called once the log is this long

ASSUME ProcsAssumption == NoProc \notin Procs
ASSUME EntryAssumption == Uninit \notin Entry
ASSUME RequestsAssumption == Requests \subseteq Nat \ {0}
ASSUME ChunkAssumption == CHUNK_SIZE \in Nat \ {0}

PcStates == {"idle", "wlock", "push", "wunlock", "rlock", "seek", "copy", "runlock"}

\* Inside the critical section, and inside that of trace_read.
Locked  == {"push", "wunlock", "seek", "copy", "runlock"}
Reading == {"seek", "copy", "runlock"}

VARIABLES
  chunks,       \* the list: the entries of each chunk, up to its count
  total_count,
  write_chunk,
  read_chunk,
  read_offset,
  lock,         \* the process that holds the mutex
  pc,           \* where each process is
  arg,          \* trace_write's entry
  want,         \* trace_read's max_entries
  got,          \* what trace_read has copied to user memory so far
  result,       \* history: the batch that the last trace_read to return was given
  log           \* history: every entry stored since the module was loaded

buffer == <<chunks, total_count, write_chunk, read_chunk, read_offset>>
vars == <<buffer, lock, pc, arg, want, got, result, log>>

-----------------------------------------------------------------------------
\* trace_buffer_init, on module load.
Init ==
  /\ chunks = <<>>
  /\ total_count = 0
  /\ write_chunk = 0
  /\ read_chunk = 0
  /\ read_offset = 0
  /\ lock = NoProc
  /\ pc = [p \in Procs |-> "idle"]
  /\ arg = [p \in Procs |-> Uninit]
  /\ want = [p \in Procs |-> 0]
  /\ got = [p \in Procs |-> <<>>]
  /\ result = <<>>
  /\ log = <<>>

Go(p, from, to) ==
  /\ pc[p] = from
  /\ pc' = [pc EXCEPT ![p] = to]

\* mutex_lock and mutex_unlock of g_buffer.lock, on the way between two places.
Lock(p, from, to) ==
  /\ lock = NoProc
  /\ lock' = p
  /\ Go(p, from, to)

Unlock(p, from) ==
  /\ lock' = NoProc
  /\ Go(p, from, "idle")

-----------------------------------------------------------------------------
(***************************************************************************)
(* trace_write and trace_buffer_push.  A short buffer or a failing         *)
(* copy_from_user returns before anything changes.                         *)
(***************************************************************************)

\* Mutant: the entry is not copied from user memory.
WriteCallNoCopy(p, e) ==
  /\ Len(log) < MaxEntries
  /\ Go(p, "idle", "wlock")
  /\ UNCHANGED <<buffer, lock, arg, want, got, result, log>>

WriteCall(p, e) ==
  /\ Len(log) < MaxEntries
  /\ Go(p, "idle", "wlock")
  /\ arg' = [arg EXCEPT ![p] = e]
  /\ UNCHANGED <<buffer, lock, want, got, result, log>>

WriteLock(p) ==
  /\ Lock(p, "wlock", "push")
  /\ UNCHANGED <<buffer, arg, want, got, result, log>>

\* Mutant: a chunk counts as full one entry too early.
NeedsChunkEarly == write_chunk # 0 => Len(chunks[write_chunk]) >= CHUNK_SIZE - 1

NeedsChunk == write_chunk # 0 => Len(chunks[write_chunk]) = CHUNK_SIZE

\* A new empty chunk is linked; the first one is also where reading starts.
PushGrow(p) ==
  /\ pc[p] = "push"
  /\ NeedsChunk
  /\ chunks' = Append(chunks, <<>>)
  /\ write_chunk' = Len(chunks) + 1
  /\ \/ read_chunk = 0 /\ read_chunk' = Len(chunks) + 1 /\ read_offset' = 0
     \/ read_chunk # 0 /\ UNCHANGED <<read_chunk, read_offset>>
  /\ UNCHANGED <<total_count, lock, pc, arg, want, got, result, log>>

\* Mutant: trace_write tries again when memory is short.
PushNoMemRetry(p) ==
  /\ NeedsChunk
  /\ Go(p, "push", "wlock")
  /\ lock' = NoProc
  /\ UNCHANGED <<buffer, arg, want, got, result, log>>

\* kmalloc fails: -ENOMEM.
PushNoMem(p) ==
  /\ NeedsChunk
  /\ Go(p, "push", "wunlock")
  /\ UNCHANGED <<buffer, lock, arg, want, got, result, log>>

\* Mutant: the entry is stored but not counted.
PushStoreUncounted(p) ==
  /\ ~NeedsChunk
  /\ Go(p, "push", "wunlock")
  /\ chunks' = [chunks EXCEPT ![write_chunk] = Append(@, arg[p])]
  /\ log' = Append(log, arg[p])
  /\ UNCHANGED <<total_count, write_chunk, read_chunk, read_offset, lock, arg, want, got, result>>

PushStore(p) ==
  /\ ~NeedsChunk
  /\ Go(p, "push", "wunlock")
  /\ chunks' = [chunks EXCEPT ![write_chunk] = Append(@, arg[p])]
  /\ total_count' = total_count + 1
  /\ log' = Append(log, arg[p])
  /\ UNCHANGED <<write_chunk, read_chunk, read_offset, lock, arg, want, got, result>>

WriteUnlock(p) ==
  /\ Unlock(p, "wunlock")
  /\ arg' = [arg EXCEPT ![p] = Uninit]
  /\ UNCHANGED <<buffer, want, got, result, log>>

-----------------------------------------------------------------------------
(***************************************************************************)
(* trace_read.  A short buffer returns before anything changes.            *)
(***************************************************************************)

ReadCall(p, n) ==
  /\ Go(p, "idle", "rlock")
  /\ want' = [want EXCEPT ![p] = n]
  /\ UNCHANGED <<buffer, lock, arg, got, result, log>>

\* Mutant: trace_read does not take the mutex.
ReadLockFree(p) ==
  /\ Go(p, "rlock", "seek")
  /\ UNCHANGED <<buffer, lock, arg, want, got, result, log>>

ReadLock(p) ==
  /\ Lock(p, "rlock", "seek")
  /\ UNCHANGED <<buffer, arg, want, got, result, log>>

\* Mutant: an off-by-one at the end of a chunk.
ExhaustedLate == read_chunk # 0 /\ read_offset > Len(chunks[read_chunk])

Exhausted == read_chunk # 0 /\ read_offset >= Len(chunks[read_chunk])

\* Mutant: the loop ends at the end of any chunk.
ReadDoneEarly(p) ==
  /\ \/ Len(got[p]) >= want[p]
     \/ read_chunk = 0
     \/ Exhausted
  /\ Go(p, "seek", "runlock")
  /\ UNCHANGED <<buffer, lock, arg, want, got, result, log>>

\* The loop ends: enough was copied, or the buffer has nothing more.
ReadDone(p) ==
  /\ \/ Len(got[p]) >= want[p]
     \/ read_chunk = 0
     \/ Exhausted /\ read_chunk = Len(chunks)
  /\ Go(p, "seek", "runlock")
  /\ UNCHANGED <<buffer, lock, arg, want, got, result, log>>

\* Mutant: the offset is not reset when the reader moves to the next chunk.
ReadSeekKeepOffset(p) ==
  /\ Len(got[p]) < want[p]
  /\ read_chunk # 0
  /\ \/ ~Exhausted /\ UNCHANGED <<read_chunk, read_offset>>
     \/ Exhausted /\ read_chunk # Len(chunks) /\ read_chunk' = read_chunk + 1 /\ UNCHANGED read_offset
  /\ Go(p, "seek", "copy")
  /\ UNCHANGED <<chunks, total_count, write_chunk, lock, arg, want, got, result, log>>

\* The next entry is in this chunk, or in the next one at offset 0.
ReadSeek(p) ==
  /\ Len(got[p]) < want[p]
  /\ read_chunk # 0
  /\ \/ ~Exhausted /\ UNCHANGED <<read_chunk, read_offset>>
     \/ Exhausted /\ read_chunk # Len(chunks) /\ read_chunk' = read_chunk + 1 /\ read_offset' = 0
  /\ Go(p, "seek", "copy")
  /\ UNCHANGED <<chunks, total_count, write_chunk, lock, arg, want, got, result, log>>

\* entries[i] of chunk k, which was never written if it is past the count.
EntryAt(k, i) == IF i < Len(chunks[k]) THEN chunks[k][i + 1] ELSE Uninit

ReadCopy(p) ==
  /\ Go(p, "copy", "seek")
  /\ got' = [got EXCEPT ![p] = Append(@, EntryAt(read_chunk, read_offset))]
  /\ read_offset' = read_offset + 1
  /\ UNCHANGED <<chunks, total_count, write_chunk, read_chunk, lock, arg, want, result, log>>

\* The bytes copied so far are returned (-EFAULT if there are none).
Return(p) ==
  /\ result' = got[p]
  /\ got' = [got EXCEPT ![p] = <<>>]
  /\ want' = [want EXCEPT ![p] = 0]

\* Mutant: the failing path gives up the entry it did not copy.
ReadFaultConsumes(p) ==
  /\ Unlock(p, "copy")
  /\ Return(p)
  /\ read_offset' = read_offset + 1
  /\ UNCHANGED <<chunks, total_count, write_chunk, read_chunk, arg, log>>

\* copy_to_user fails: this path has an unlock and a return of its own.
ReadFault(p) ==
  /\ Unlock(p, "copy")
  /\ Return(p)
  /\ UNCHANGED <<buffer, arg, log>>

ReadUnlock(p) ==
  /\ Unlock(p, "runlock")
  /\ Return(p)
  /\ UNCHANGED <<buffer, arg, log>>

-----------------------------------------------------------------------------
\* trace_exit (trace_buffer_free) and a new load.  The module cannot be removed
\* while a call is in progress.
Reload ==
  /\ \A p \in Procs : pc[p] = "idle"
  /\ chunks' = <<>>
  /\ total_count' = 0
  /\ write_chunk' = 0
  /\ read_chunk' = 0
  /\ read_offset' = 0
  /\ log' = <<>>
  /\ UNCHANGED <<lock, pc, arg, want, got, result>>

Acquire(p) == WriteLock(p) \/ ReadLock(p)

\* What the holder of the lock does.
Advance(p) ==
  \/ PushGrow(p) \/ PushNoMem(p) \/ PushStore(p) \/ WriteUnlock(p)
  \/ ReadDone(p) \/ ReadSeek(p) \/ ReadCopy(p) \/ ReadFault(p) \/ ReadUnlock(p)

Call(p) == (\E e \in Entry : WriteCall(p, e)) \/ (\E n \in Requests : ReadCall(p, n))

Next == Reload \/ \E p \in Procs : Call(p) \/ Acquire(p) \/ Advance(p)

Spec == Init /\ [][Next]_vars

\* The kernel's mutex hands over to a waiter, and system calls are scheduled.
Fairness == \A p \in Procs : SF_vars(Acquire(p)) /\ WF_vars(Advance(p))

FairSpec == Spec /\ Fairness

-----------------------------------------------------------------------------
(***************************************************************************)
(* Properties.                                                             *)
(***************************************************************************)

\* Every variable stays in its range, and the locals of a call are set when the
\* call uses them; no entry handed to a reader is one that was never written.
TypeOK ==
  /\ chunks \in Seq(Seq(Entry))
  /\ total_count \in Nat
  /\ write_chunk \in Nat /\ read_chunk \in Nat /\ read_offset \in Nat
  /\ lock \in Procs \cup {NoProc}
  /\ pc \in [Procs -> PcStates]
  /\ arg \in [Procs -> Entry \cup {Uninit}]
  /\ \A p \in Procs : pc[p] \in {"wlock", "push"} => arg[p] \in Entry
  /\ want \in [Procs -> Requests \cup {0}]
  /\ \A p \in Procs : pc[p] \in {"idle", "wlock", "push", "wunlock", "rlock"} => got[p] = <<>>
  /\ got \in [Procs -> Seq(Entry)]
  /\ result \in Seq(Entry)
  /\ log \in Seq(Entry)

\* Everybody inside a critical section of trace_write or trace_read holds the
\* mutex, so no two calls are in one at the same time.
MutualExclusion == \A p \in Procs : pc[p] \in Locked <=> lock = p

\* The chunk list: writes go to the last chunk, every earlier chunk is full, a
\* chunk is empty only between its allocation and the store that follows it
\* under the same lock, and the read position is inside the list.
ChunkShape ==
  /\ write_chunk = Len(chunks)
  /\ read_chunk <= Len(chunks)
  /\ read_chunk = 0 <=> Len(chunks) = 0
  /\ \A k \in 1..Len(chunks) :
       /\ k < Len(chunks) => Len(chunks[k]) = CHUNK_SIZE
       /\ Len(chunks[k]) <= CHUNK_SIZE
       /\ Len(chunks[k]) = 0 => k = Len(chunks) /\ \E p \in Procs : pc[p] = "push"
  /\ read_chunk # 0 => read_offset <= Len(chunks[read_chunk])

\* Nobody reads an entry that was not written: after trace_read moved to the next
\* chunk it reads entry 0 without looking at that chunk's count.
NoUninitRead ==
  \A p \in Procs : pc[p] = "copy" => read_chunk # 0 /\ read_offset < Len(chunks[read_chunk])

\* The entries in the chunks are those of the log, and total_count counts them.
\* (Chunk k holds entries (k-1)*CHUNK_SIZE + 1 and on.)
Base(k) == (k - 1) * CHUNK_SIZE

LogIsChunks ==
  /\ total_count = Len(log)
  /\ Len(log) = IF chunks = <<>> THEN 0 ELSE Base(Len(chunks)) + Len(chunks[Len(chunks)])
  /\ \A k \in 1..Len(chunks) : \A i \in 1..Len(chunks[k]) : chunks[k][i] = log[Base(k) + i]

\* The position of the next entry to read, and the number of entries that reads
\* which have returned took: those of a read under way are not taken yet.
Pos == IF read_chunk = 0 THEN 0 ELSE Base(read_chunk) + read_offset

Taken == IF lock = NoProc THEN Pos ELSE Pos - Len(got[lock])

\* What a read has copied so far is the next part of the log.
BatchIsNext ==
  \A p \in Procs : pc[p] \in Reading =>
    /\ Len(got[p]) <= want[p]
    /\ Len(got[p]) <= Pos
    /\ Pos <= Len(log)
    /\ \A i \in 1..Len(got[p]) : got[p][i] = log[Pos - Len(got[p]) + i]

\* A read whose loop ends without a fault has all that it asked for or all that the
\* log has: the end of a chunk, or a position left at the end of what was then the
\* last chunk, does not cut it short.
FullBatch ==
  \A p \in Procs : pc[p] = "runlock" => Len(got[p]) = want[p] \/ Pos = Len(log)

\* trace_write and trace_read implement the log: each entry stored is handed out
\* once and in order, and every batch is contiguous.
Log == INSTANCE TraceLog WITH taken <- Taken, ask <- want

ImplementsLog == Log!Spec

\* Every call returns, whatever fails on its way: no path keeps the mutex.
EveryCallReturns == \A p \in Procs : pc[p] # "idle" ~> pc[p] = "idle"
=============================================================================
