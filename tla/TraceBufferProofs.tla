------------------------- MODULE TraceBufferProofs --------------------------
(***************************************************************************)
(* Theorems about TraceBuffer, for any processes, entries, chunk size and  *)
(* read sizes.                                                             *)
(***************************************************************************)
EXTENDS TraceBuffer, SequenceTheorems, TLAPS

\* The chunk list after an entry is stored in chunk k.
Stored(cs, k, e) == [cs EXCEPT ![k] = Append(@, e)]

\* Storing an entry makes one chunk longer by one and leaves the others alone.
LEMMA StoreEntry ==
  ASSUME NEW cs \in Seq(Seq(Entry)), NEW k \in 1..Len(cs), NEW e \in Entry
  PROVE  /\ Stored(cs, k, e) \in Seq(Seq(Entry))
         /\ Len(Stored(cs, k, e)) = Len(cs)
         /\ \A j \in 1..Len(cs) :
              Len(Stored(cs, k, e)[j]) = IF j = k THEN Len(cs[j]) + 1 ELSE Len(cs[j])
PROOF
  <1> DEFINE c == Append(cs[k], e)
  <1>1. cs[k] \in Seq(Entry)
    OBVIOUS
  <1>2. c \in Seq(Entry) /\ Len(c) = Len(cs[k]) + 1
    BY <1>1
  <1>3. Stored(cs, k, e) = [cs EXCEPT ![k] = c]
    BY DEF Stored
  <1> HIDE DEF c
  <1>4. /\ [cs EXCEPT ![k] = c] \in Seq(Seq(Entry))
        /\ Len([cs EXCEPT ![k] = c]) = Len(cs)
        /\ \A j \in 1..Len(cs) : [cs EXCEPT ![k] = c][j] = IF j = k THEN c ELSE cs[j]
    BY <1>2, ExceptSeq
  <1> QED
    BY <1>2, <1>3, <1>4

\* The inductive invariant.  TypeOK needs the rest: what a reader is handed has
\* been written, which holds because nobody can push between its seek and copy.
SafeInv == TypeOK /\ MutualExclusion /\ ChunkShape /\ NoUninitRead

\* Every step keeps the variables in their ranges.
LEMMA StepTypes ==
  ASSUME SafeInv, [Next]_vars
  PROVE  TypeOK'
PROOF
  <1> USE ProcsAssumption, EntryAssumption, RequestsAssumption, ChunkAssumption
      DEF SafeInv, TypeOK, PcStates, buffer, Go, Lock, Unlock
  <1>1. CASE Reload
    BY <1>1 DEF Reload
  <1>2. ASSUME NEW p \in Procs, Call(p) \/ Acquire(p) \/ Advance(p) PROVE TypeOK'
    <2>1. ASSUME NEW e \in Entry, WriteCall(p, e) PROVE TypeOK'
      BY <2>1 DEF WriteCall
    <2>2. ASSUME NEW n \in Requests, ReadCall(p, n) PROVE TypeOK'
      BY <2>2 DEF ReadCall
    <2>3. CASE WriteLock(p)
      BY <2>3 DEF WriteLock
    <2>4. CASE ReadLock(p)
      BY <2>4 DEF ReadLock
    <2>5. CASE PushGrow(p)
      BY <2>5 DEF PushGrow
    <2>6. CASE PushNoMem(p)
      BY <2>6 DEF PushNoMem
    <2>7. CASE PushStore(p)
      <3>1. write_chunk \in 1..Len(chunks) /\ arg[p] \in Entry
        BY <2>7 DEF PushStore, NeedsChunk, ChunkShape
      <3>2. chunks' = Stored(chunks, write_chunk, arg[p])
        BY <2>7 DEF PushStore, Stored
      <3>3. chunks' \in Seq(Seq(Entry))
        BY <3>1, <3>2, StoreEntry
      <3>4. log' \in Seq(Entry)
        BY <2>7, <3>1 DEF PushStore
      <3>5. /\ pc[p] = "push"
            /\ pc' = [pc EXCEPT ![p] = "wunlock"]
            /\ total_count' = total_count + 1
            /\ UNCHANGED <<write_chunk, read_chunk, read_offset, lock, arg, want, got, result>>
        BY <2>7 DEF PushStore
      <3> QED
        BY <3>3, <3>4, <3>5
    <2>8. CASE WriteUnlock(p)
      BY <2>8 DEF WriteUnlock
    <2>9. CASE ReadDone(p)
      BY <2>9 DEF ReadDone
    <2>10. CASE ReadSeek(p)
      BY <2>10 DEF ReadSeek
    <2>11. CASE ReadCopy(p)
      <3>1. read_chunk \in 1..Len(chunks) /\ read_offset < Len(chunks[read_chunk])
        BY <2>11 DEF ReadCopy, NoUninitRead, ChunkShape
      <3>2. chunks[read_chunk] \in Seq(Entry)
        BY <3>1
      <3>3. EntryAt(read_chunk, read_offset) \in Entry
        BY <3>1, <3>2 DEF EntryAt
      <3>4. got' \in [Procs -> Seq(Entry)]
        BY <2>11, <3>3 DEF ReadCopy
      <3> QED
        BY <2>11, <3>4 DEF ReadCopy
    <2>12. CASE ReadFault(p)
      BY <2>12 DEF ReadFault, Return
    <2>13. CASE ReadUnlock(p)
      BY <2>13 DEF ReadUnlock, Return
    <2> QED
      BY <1>2, <2>1, <2>2, <2>3, <2>4, <2>5, <2>6, <2>7, <2>8, <2>9, <2>10, <2>11,
         <2>12, <2>13 DEF Call, Acquire, Advance
  <1>3. CASE UNCHANGED vars
    BY <1>3 DEF vars
  <1> QED
    BY <1>1, <1>2, <1>3 DEF Next

\* Every step keeps the critical sections apart.
LEMMA StepMutex ==
  ASSUME SafeInv, [Next]_vars
  PROVE  MutualExclusion'
PROOF
  <1> USE ProcsAssumption
      DEF SafeInv, TypeOK, MutualExclusion, PcStates, Locked, Go, Lock, Unlock
  <1>1. CASE Reload
    BY <1>1 DEF Reload
  <1>2. ASSUME NEW p \in Procs, Call(p) PROVE MutualExclusion'
    BY <1>2 DEF Call, WriteCall, ReadCall
  <1>3. ASSUME NEW p \in Procs, Acquire(p) PROVE MutualExclusion'
    BY <1>3 DEF Acquire, WriteLock, ReadLock
  <1>4. ASSUME NEW p \in Procs, PushGrow(p) \/ PushNoMem(p) \/ PushStore(p) \/ WriteUnlock(p)
        PROVE  MutualExclusion'
    BY <1>4 DEF PushGrow, PushNoMem, PushStore, WriteUnlock
  <1>5. ASSUME NEW p \in Procs, ReadDone(p) \/ ReadSeek(p) \/ ReadCopy(p)
        PROVE  MutualExclusion'
    BY <1>5 DEF ReadDone, ReadSeek, ReadCopy
  <1>6. ASSUME NEW p \in Procs, ReadFault(p) \/ ReadUnlock(p) PROVE MutualExclusion'
    BY <1>6 DEF ReadFault, ReadUnlock
  <1>7. CASE UNCHANGED vars
    BY <1>7 DEF vars
  <1> QED
    BY <1>1, <1>2, <1>3, <1>4, <1>5, <1>6, <1>7 DEF Next, Advance

\* Every step keeps the shape of the chunk list and the read position inside it.
LEMMA StepShape ==
  ASSUME SafeInv, [Next]_vars
  PROVE  ChunkShape'
PROOF
  <1> USE ProcsAssumption, ChunkAssumption
      DEF SafeInv, TypeOK, ChunkShape, PcStates, buffer, Go, Lock, Unlock
  <1>1. CASE Reload
    BY <1>1 DEF Reload
  <1>2. ASSUME NEW p \in Procs, Call(p) \/ Acquire(p) \/ Advance(p) PROVE ChunkShape'
    <2>1. CASE Call(p)
      BY <2>1 DEF Call, WriteCall, ReadCall
    <2>2. CASE Acquire(p)
      BY <2>2 DEF Acquire, WriteLock, ReadLock
    <2>3. CASE PushGrow(p)
      <3>1. Len(chunks') = Len(chunks) + 1 /\ Len(chunks'[Len(chunks) + 1]) = 0
        BY <2>3 DEF PushGrow
      <3>2. \A k \in 1..Len(chunks) : chunks'[k] = chunks[k] /\ Len(chunks[k]) = CHUNK_SIZE
        BY <2>3 DEF PushGrow, NeedsChunk
      <3>3. /\ pc' = pc /\ pc[p] = "push"
            /\ write_chunk' = Len(chunks) + 1
            /\ \/ read_chunk = 0 /\ read_chunk' = Len(chunks) + 1 /\ read_offset' = 0
               \/ read_chunk # 0 /\ UNCHANGED <<read_chunk, read_offset>>
        BY <2>3 DEF PushGrow
      <3>4. \A k \in 1..Len(chunks') :
              /\ k < Len(chunks') => Len(chunks'[k]) = CHUNK_SIZE
              /\ Len(chunks'[k]) <= CHUNK_SIZE
              /\ Len(chunks'[k]) = 0 => k = Len(chunks')
        <4> TAKE k \in 1..Len(chunks')
        <4>0. Len(chunks) \in Nat
          OBVIOUS
        <4> HIDE DEF SafeInv, TypeOK, ChunkShape
        <4>1. CASE k = Len(chunks) + 1
          BY <3>1, <4>0, <4>1
        <4>2. CASE k # Len(chunks) + 1
          BY <3>1, <3>2, <4>0, <4>2
        <4> QED
          BY <4>1, <4>2
      <3>5. read_chunk' # 0 => read_offset' <= Len(chunks'[read_chunk'])
        <4>1. CASE read_chunk = 0
          BY <3>1, <3>3, <4>1
        <4>2. CASE read_chunk # 0
          BY <3>2, <3>3, <4>2
        <4> QED
          BY <4>1, <4>2
      <3>6. \E q \in Procs : pc'[q] = "push"
        BY <3>3
      <3>7. /\ write_chunk' = Len(chunks')
            /\ read_chunk' <= Len(chunks')
            /\ read_chunk' = 0 <=> Len(chunks') = 0
        BY <3>1, <3>3
      <3> QED
        BY <3>4, <3>5, <3>6, <3>7
    <2>4. CASE PushNoMem(p)
      <3>1. \A k \in 1..Len(chunks) : Len(chunks[k]) = CHUNK_SIZE
        BY <2>4 DEF PushNoMem, NeedsChunk
      <3> QED
        BY <2>4, <3>1 DEF PushNoMem
    <2>5. CASE PushStore(p)
      <3>1. write_chunk \in 1..Len(chunks) /\ arg[p] \in Entry
        BY <2>5 DEF PushStore, NeedsChunk
      <3>2. chunks' = Stored(chunks, write_chunk, arg[p])
        BY <2>5 DEF PushStore, Stored
      <3>3. /\ Len(chunks') = Len(chunks)
            /\ \A k \in 1..Len(chunks) :
                 Len(chunks'[k]) = IF k = write_chunk THEN Len(chunks[k]) + 1 ELSE Len(chunks[k])
        <4> HIDE DEF ChunkShape
        <4>1. chunks \in Seq(Seq(Entry))
          OBVIOUS
        <4>2. /\ Len(Stored(chunks, write_chunk, arg[p])) = Len(chunks)
              /\ \A k \in 1..Len(chunks) :
                   Len(Stored(chunks, write_chunk, arg[p])[k])
                     = IF k = write_chunk THEN Len(chunks[k]) + 1 ELSE Len(chunks[k])
          <5> HIDE DEF SafeInv
          <5> QED
            BY <3>1, <4>1, StoreEntry
        <4> QED
          BY <3>2, <4>2
      <3>4. Len(chunks[write_chunk]) < CHUNK_SIZE
        BY <2>5, <3>1 DEF PushStore, NeedsChunk
      <3>5. UNCHANGED <<write_chunk, read_chunk, read_offset>>
        BY <2>5 DEF PushStore
      <3>6. \A k \in 1..Len(chunks) : k # write_chunk => Len(chunks[k]) = CHUNK_SIZE
        OBVIOUS
      <3>7. \A k \in 1..Len(chunks) : Len(chunks[k]) \in Nat
        OBVIOUS
      <3>8. \A k \in 1..Len(chunks) : Len(chunks'[k]) # 0 /\ Len(chunks'[k]) <= CHUNK_SIZE
        <4> TAKE k \in 1..Len(chunks)
        <4>1. CASE k = write_chunk
          <5>1. Len(chunks'[k]) = Len(chunks[k]) + 1
            BY <3>3, <4>1
          <5>2. Len(chunks[k]) \in Nat /\ Len(chunks[k]) < CHUNK_SIZE
            BY <3>4, <3>7, <4>1
          <5> QED
            BY <5>1, <5>2
        <4>2. CASE k # write_chunk
          BY <3>3, <3>6, <4>2
        <4> QED
          BY <4>1, <4>2
      <3>9. \A k \in 1..Len(chunks) : k < Len(chunks) => Len(chunks'[k]) = CHUNK_SIZE
        BY <3>3, <3>6
      <3>10. ASSUME read_chunk # 0 PROVE read_offset <= Len(chunks'[read_chunk])
        <4>1. read_chunk \in 1..Len(chunks) /\ read_offset <= Len(chunks[read_chunk])
          BY <3>10
        <4>2. Len(chunks[read_chunk]) <= Len(chunks'[read_chunk])
          BY <3>3, <3>7, <4>1
        <4>3. Len(chunks'[read_chunk]) \in Nat
          BY <3>3, <3>7, <4>1
        <4> QED
          BY <3>7, <4>1, <4>2, <4>3
      <3> QED
        BY <3>3, <3>5, <3>8, <3>9, <3>10
    <2>6. CASE WriteUnlock(p)
      BY <2>6 DEF WriteUnlock
    <2>7. CASE ReadDone(p)
      BY <2>7 DEF ReadDone
    <2>8. CASE ReadSeek(p)
      BY <2>8 DEF ReadSeek, Exhausted
    <2>9. CASE ReadCopy(p)
      BY <2>9 DEF ReadCopy, NoUninitRead
    <2>10. CASE ReadFault(p) \/ ReadUnlock(p)
      BY <2>10 DEF ReadFault, ReadUnlock
    <2> QED
      BY <1>2, <2>1, <2>2, <2>3, <2>4, <2>5, <2>6, <2>7, <2>8, <2>9, <2>10 DEF Advance
  <1>3. CASE UNCHANGED vars
    BY <1>3 DEF vars
  <1> QED
    BY <1>1, <1>2, <1>3 DEF Next

\* Only one call is inside a critical section.
LEMMA OneInside ==
  ASSUME SafeInv, NEW p \in Procs, NEW q \in Procs, pc[p] \in Locked, pc[q] \in Locked
  PROVE  p = q
PROOF
  BY DEF SafeInv, MutualExclusion

\* Every step keeps readers on entries that were written.  A reader that moves to
\* the next chunk finds an entry there: a chunk is empty only while its writer is
\* pushing, and then the reader does not have the mutex.
LEMMA StepNoUninit ==
  ASSUME SafeInv, [Next]_vars
  PROVE  NoUninitRead'
PROOF
  <1> USE DEF NoUninitRead, Go, Lock, Unlock, buffer
  <1>0. TypeOK /\ NoUninitRead
    BY DEF SafeInv
  <1>1. CASE Reload
    BY <1>1 DEF Reload
  <1>2. ASSUME NEW p \in Procs, Call(p) \/ Acquire(p) PROVE NoUninitRead'
    BY <1>0, <1>2 DEF TypeOK, Call, Acquire, WriteCall, ReadCall, WriteLock, ReadLock
  <1>3. ASSUME NEW p \in Procs, PushGrow(p) \/ PushStore(p) PROVE NoUninitRead'
    <2>1. pc[p] = "push"
      BY <1>3 DEF PushGrow, PushStore
    <2>2. \A q \in Procs : pc[q] # "copy"
      BY <2>1, OneInside DEF Locked
    <2>3. pc' = pc \/ pc' = [pc EXCEPT ![p] = "wunlock"]
      BY <1>3 DEF PushGrow, PushStore
    <2>4. \A q \in Procs : pc'[q] # "copy"
      BY <1>0, <2>2, <2>3 DEF TypeOK
    <2> QED
      BY <2>4
  <1>4. ASSUME NEW p \in Procs, PushNoMem(p) \/ WriteUnlock(p) \/ ReadDone(p)
        PROVE  NoUninitRead'
    BY <1>0, <1>4 DEF TypeOK, PushNoMem, WriteUnlock, ReadDone
  <1>5. ASSUME NEW p \in Procs, ReadSeek(p) PROVE NoUninitRead'
    <2>1. pc[p] = "seek" /\ \A q \in Procs : pc[q] # "push"
      BY <1>5, OneInside DEF ReadSeek, Locked
    <2>2. read_chunk \in 1..Len(chunks) /\ chunks \in Seq(Seq(Entry)) /\ read_offset \in Nat
      BY <1>5 DEF ReadSeek, SafeInv, TypeOK, ChunkShape
    <2>3. CASE ~Exhausted /\ UNCHANGED <<read_chunk, read_offset>>
      BY <1>5, <2>2, <2>3 DEF ReadSeek, Exhausted
    <2>4. CASE Exhausted /\ read_chunk # Len(chunks) /\ read_chunk' = read_chunk + 1 /\ read_offset' = 0
      <3>1. read_chunk + 1 \in 1..Len(chunks)
        BY <2>2, <2>4
      <3>2. Len(chunks[read_chunk + 1]) # 0
        BY <2>1, <3>1 DEF SafeInv, ChunkShape
      <3>3. Len(chunks[read_chunk + 1]) \in Nat
        BY <2>2, <3>1
      <3>4. chunks' = chunks
        BY <1>5 DEF ReadSeek
      <3> QED
        BY <2>2, <2>4, <3>2, <3>3, <3>4
    <2> QED
      BY <1>5, <2>3, <2>4 DEF ReadSeek
  <1>6. ASSUME NEW p \in Procs, ReadCopy(p) PROVE NoUninitRead'
    <2>1. pc[p] = "copy" /\ pc' = [pc EXCEPT ![p] = "seek"]
      BY <1>6 DEF ReadCopy
    <2>2. \A q \in Procs : pc'[q] # "copy"
      BY <1>0, <2>1, OneInside DEF TypeOK, Locked
    <2> QED
      BY <2>2
  <1>7. ASSUME NEW p \in Procs, ReadFault(p) \/ ReadUnlock(p) PROVE NoUninitRead'
    BY <1>0, <1>7 DEF TypeOK, ReadFault, ReadUnlock
  <1>8. CASE UNCHANGED vars
    BY <1>0, <1>8 DEF vars
  <1> QED
    BY <1>1, <1>2, <1>3, <1>4, <1>5, <1>6, <1>7, <1>8 DEF Next, Advance

\* The inductive invariant holds in every state.
LEMMA SafeInvHolds == Spec => []SafeInv
PROOF
  <1>1. Init => SafeInv
    BY ProcsAssumption, EntryAssumption, RequestsAssumption, ChunkAssumption
    DEF Init, SafeInv, TypeOK, MutualExclusion, ChunkShape, NoUninitRead, PcStates, Locked
  <1>2. SafeInv /\ [Next]_vars => SafeInv'
    BY StepTypes, StepMutex, StepShape, StepNoUninit DEF SafeInv
  <1> QED
    BY <1>1, <1>2, PTL DEF Spec

\* The variables keep their ranges, and no entry a trace_read returned was never
\* written, for any number of processes and any chunk and read sizes.
THEOREM TypeCorrect == Spec => []TypeOK
PROOF
  BY SafeInvHolds, PTL DEF SafeInv

\* g_buffer.lock keeps the critical sections of trace_write and trace_read apart,
\* on every path out of them.
THEOREM MutualExclusionHolds == Spec => []MutualExclusion
PROOF
  BY SafeInvHolds, PTL DEF SafeInv

\* The chunk list of trace_buffer_push keeps its shape, failing kmallocs included.
THEOREM ChunkShapeHolds == Spec => []ChunkShape
PROOF
  BY SafeInvHolds, PTL DEF SafeInv

\* trace_read never copies an entry that was not written, although it does not
\* look at the count of the chunk it moves to.
THEOREM NoUninitReadHolds == Spec => []NoUninitRead
PROOF
  BY SafeInvHolds, PTL DEF SafeInv

-----------------------------------------------------------------------------
(***************************************************************************)
(* TraceBuffer implements TraceLog: what the chunks hold is the log, what  *)
(* a reader has copied is the next part of it, and every step of the       *)
(* driver is a step of the log or changes nothing there.                   *)
(***************************************************************************)

\* Chunk k + 1 begins where a full chunk k ends.
LEMMA BaseNext ==
  ASSUME NEW k \in Nat
  PROVE  Base(k) \in Int /\ Base(k + 1) = Base(k) + CHUNK_SIZE
PROOF
  <1>1. (k - 1) * CHUNK_SIZE \in Int /\ k * CHUNK_SIZE = (k - 1) * CHUNK_SIZE + CHUNK_SIZE
    BY ChunkAssumption
  <1>2. (k + 1) - 1 = k
    OBVIOUS
  <1> QED
    BY <1>1, <1>2 DEF Base

\* A chunk ends before any later one begins.
LEMMA BaseOrder ==
  ASSUME NEW j \in Nat, NEW k \in Nat, j < k
  PROVE  Base(j) + CHUNK_SIZE <= Base(k)
PROOF
  <1> DEFINE d == k - j - 1
  <1>1. d \in Nat /\ k - 1 = j + d
    OBVIOUS
  <1>2. Base(k) = j * CHUNK_SIZE + d * CHUNK_SIZE
    BY <1>1, ChunkAssumption DEF Base
  <1>3. d * CHUNK_SIZE >= 0 /\ d * CHUNK_SIZE \in Int /\ j * CHUNK_SIZE \in Int
    BY <1>1, ChunkAssumption
  <1>4. Base(j) \in Int /\ Base(j + 1) = Base(j) + CHUNK_SIZE /\ Base(j + 1) = j * CHUNK_SIZE
    BY BaseNext DEF Base
  <1> QED
    BY <1>2, <1>3, <1>4, ChunkAssumption

\* The first chunk begins at 0, and no chunk before it.
LEMMA BaseFirst ==
  /\ Base(1) = 0
  /\ \A k \in Nat \ {0} : Base(k) \in Nat
PROOF
  <1>1. ASSUME NEW k \in Nat \ {0} PROVE (k - 1) * CHUNK_SIZE \in Nat
    BY ChunkAssumption
  <1>2. 0 * CHUNK_SIZE = 0
    BY ChunkAssumption
  <1> QED
    BY <1>1, <1>2 DEF Base

-----------------------------------------------------------------------------
\* What a call is asking for: something from its trace_read call to its return. A
\* reader about to copy an entry has room for it.
WantShape ==
  /\ \A p \in Procs : want[p] # 0 <=> pc[p] \in {"rlock"} \cup Reading
  /\ \A p \in Procs : pc[p] = "copy" => Len(got[p]) < want[p]

\* The inductive invariant, on top of SafeInv.
DataInv == LogIsChunks /\ WantShape /\ BatchIsNext /\ FullBatch

\* The facts of the two invariants about the data that the proofs below use.
LEMMA Types ==
  ASSUME SafeInv
  PROVE  /\ chunks \in Seq(Seq(Entry)) /\ Len(chunks) \in Nat
         /\ \A k \in 1..Len(chunks) :
              /\ chunks[k] \in Seq(Entry)
              /\ Len(chunks[k]) \in Nat
              /\ Len(chunks[k]) <= CHUNK_SIZE
              /\ k < Len(chunks) => Len(chunks[k]) = CHUNK_SIZE
         /\ log \in Seq(Entry) /\ Len(log) \in Nat
         /\ read_offset \in Nat /\ total_count \in Nat
         /\ write_chunk = Len(chunks)
         /\ read_chunk = 0 <=> Len(chunks) = 0
         /\ read_chunk # 0 => read_chunk \in 1..Len(chunks) /\ read_offset <= Len(chunks[read_chunk])
         /\ CHUNK_SIZE \in Nat \ {0}
         /\ chunks = <<>> <=> Len(chunks) = 0
PROOF
  BY ChunkAssumption DEF SafeInv, TypeOK, ChunkShape

\* The read position is inside the log.
LEMMA PosInLog ==
  ASSUME SafeInv, LogIsChunks
  PROVE  Pos \in Nat /\ Pos <= Len(log)
PROOF
  <1> DEFINE n == Len(chunks)
             r == read_chunk
  <1>1. CASE r = 0
    BY <1>1, Types DEF Pos
  <1>2. CASE r # 0
    <2>1. /\ r \in 1..n /\ n \in Nat \ {0} /\ chunks # <<>>
          /\ read_offset \in Nat /\ Len(chunks[r]) \in Nat /\ Len(chunks[n]) \in Nat
          /\ read_offset <= Len(chunks[r]) /\ Len(chunks[r]) <= CHUNK_SIZE
      BY <1>2, Types
    <2>2. Len(log) = Base(n) + Len(chunks[n]) /\ Pos = Base(r) + read_offset
      BY <1>2, <2>1 DEF LogIsChunks, Pos
    <2>3. Base(r) \in Nat /\ Base(n) \in Nat
      BY <2>1, BaseFirst
    <2>4. CASE r = n
      BY <2>1, <2>2, <2>3, <2>4
    <2>5. CASE r # n
      <3>1. Base(r) + CHUNK_SIZE <= Base(n)
        BY <2>1, <2>5, BaseOrder
      <3> QED
        BY <2>1, <2>2, <2>3, <3>1, ChunkAssumption
    <2> QED
      BY <2>4, <2>5
  <1> QED
    BY <1>1, <1>2

\* Every step keeps the chunks and the log the same.
LEMMA StepLog ==
  ASSUME SafeInv, LogIsChunks, [Next]_vars
  PROVE  LogIsChunks'
PROOF
  <1> DEFINE n == Len(chunks)
  <1>1. CASE Reload
    BY <1>1 DEF Reload, LogIsChunks
  <1>2. ASSUME UNCHANGED <<chunks, total_count, log>> PROVE LogIsChunks'
    BY <1>2 DEF LogIsChunks
  <1>3. ASSUME NEW p \in Procs, PushGrow(p) PROVE LogIsChunks'
    <2>1. /\ chunks' = Append(chunks, <<>>)
          /\ UNCHANGED <<total_count, log>>
      BY <1>3 DEF PushGrow
    <2>2. /\ Len(chunks') = n + 1 /\ chunks' # <<>> /\ n \in Nat
          /\ \A k \in 1..n : chunks'[k] = chunks[k]
          /\ Len(chunks'[n + 1]) = 0
      BY <2>1, Types
    <2>3. Len(log) = Base(n + 1)
      <3>1. CASE n = 0
        BY <3>1, Types, BaseFirst DEF LogIsChunks
      <3>2. CASE n # 0
        <4>1. Len(chunks[n]) = CHUNK_SIZE
          BY <1>3, <3>2, Types DEF PushGrow, NeedsChunk
        <4> QED
          BY <3>2, <4>1, Types, BaseNext DEF LogIsChunks
      <3> QED
        BY <3>1, <3>2
    <2>4. ASSUME NEW k \in 1..(n + 1), NEW i \in 1..Len(chunks'[k])
          PROVE  chunks'[k][i] = log[Base(k) + i]
      <3>1. CASE k = n + 1
        BY <2>2, <3>1
      <3>2. CASE k # n + 1
        BY <2>2, <3>2 DEF LogIsChunks
      <3> QED
        BY <3>1, <3>2
    <2>5. Base(n + 1) + Len(chunks'[n + 1]) = Len(log)
      BY <2>2, <2>3, Types
    <2> QED
      BY <2>1, <2>2, <2>4, <2>5 DEF LogIsChunks
  <1>4. ASSUME NEW p \in Procs, PushStore(p) PROVE LogIsChunks'
    <2> DEFINE e == arg[p]
    <2>1. /\ chunks' = Stored(chunks, n, e)
          /\ log' = Append(log, e)
          /\ total_count' = total_count + 1
          /\ n \in 1..n /\ e \in Entry
          /\ Len(chunks[n]) < CHUNK_SIZE
      <3>1. write_chunk = n /\ n # 0 /\ n \in Nat /\ Len(chunks[n]) # CHUNK_SIZE
        BY <1>4, Types DEF PushStore, NeedsChunk
      <3>2. n \in 1..n /\ Len(chunks[n]) < CHUNK_SIZE
        BY <3>1, Types
      <3>3. e \in Entry
        BY <1>4 DEF PushStore, Go, SafeInv, TypeOK
      <3> QED
        BY <1>4, <3>1, <3>2, <3>3 DEF PushStore, Stored
    <2>2. /\ Len(chunks') = n /\ chunks' # <<>>
          /\ \A k \in 1..n : k # n => chunks'[k] = chunks[k]
          /\ chunks'[n] = Append(chunks[n], e)
      BY <2>1, Types, ExceptSeq DEF Stored
    <2>3. /\ Len(log') = Len(log) + 1 /\ Len(log) \in Nat
          /\ log'[Len(log) + 1] = e
          /\ \A j \in 1..Len(log) : log'[j] = log[j]
      BY <2>1, Types
    <2>4. /\ Len(chunks'[n]) = Len(chunks[n]) + 1
          /\ chunks'[n][Len(chunks[n]) + 1] = e
          /\ \A i \in 1..Len(chunks[n]) : chunks'[n][i] = chunks[n][i]
          /\ Len(chunks[n]) \in Nat
      BY <2>1, <2>2, Types
    <2>5. Len(log) = Base(n) + Len(chunks[n]) /\ Base(n) \in Nat
      BY <2>1, Types, BaseFirst DEF LogIsChunks
    <2>6. ASSUME NEW k \in 1..n, NEW i \in 1..Len(chunks'[k])
          PROVE  chunks'[k][i] = log'[Base(k) + i]
      <3>1. CASE k # n
        <4>1. i \in 1..Len(chunks[k]) /\ chunks'[k][i] = chunks[k][i] /\ Len(chunks[k]) = CHUNK_SIZE
          BY <2>2, <3>1, Types
        <4>2. chunks[k][i] = log[Base(k) + i]
          BY <4>1 DEF LogIsChunks
        <4>3. Base(k) \in Nat /\ Base(k) + CHUNK_SIZE <= Base(n)
          BY <2>1, <3>1, BaseFirst, BaseOrder
        <4>4. Base(k) + i \in 1..Len(log)
          <5>1. i \in Nat /\ 1 <= i /\ i <= CHUNK_SIZE
            BY <4>1
          <5> QED
            BY <2>4, <2>5, <4>3, <5>1, ChunkAssumption
        <4> QED
          BY <2>3, <4>1, <4>2, <4>4
      <3>2. CASE k = n /\ i # Len(chunks[n]) + 1
        <4>1. i \in 1..Len(chunks[n])
          BY <2>4, <3>2
        <4>2. chunks[n][i] = log[Base(n) + i]
          BY <2>1, <4>1 DEF LogIsChunks
        <4>3. Base(n) + i \in 1..Len(log)
          BY <2>4, <2>5, <4>1
        <4> QED
          BY <2>3, <2>4, <3>2, <4>1, <4>2, <4>3
      <3>3. CASE k = n /\ i = Len(chunks[n]) + 1
        <4>1. Base(n) + i = Len(log) + 1
          BY <2>4, <2>5, <3>3
        <4> QED
          BY <2>3, <2>4, <3>3, <4>1
      <3> QED
        BY <3>1, <3>2, <3>3
    <2>7. total_count' = Len(log')
      BY <2>1, <2>3 DEF LogIsChunks
    <2>8. Len(log') = Base(n) + Len(chunks'[n])
      BY <2>3, <2>4, <2>5
    <2> QED
      BY <2>2, <2>6, <2>7, <2>8 DEF LogIsChunks
  <1>5. ASSUME NEW p \in Procs, Call(p) \/ Acquire(p) \/ Advance(p) PROVE LogIsChunks'
    <2>1. CASE Call(p) \/ Acquire(p)
      BY <1>2, <2>1 DEF Call, WriteCall, ReadCall, Acquire, WriteLock, ReadLock, buffer
    <2>2. CASE PushNoMem(p) \/ WriteUnlock(p) \/ ReadFault(p) \/ ReadUnlock(p)
      BY <1>2, <2>2 DEF PushNoMem, WriteUnlock, ReadFault, ReadUnlock, buffer
    <2>3. CASE ReadDone(p) \/ ReadSeek(p) \/ ReadCopy(p)
      BY <1>2, <2>3 DEF ReadDone, ReadSeek, ReadCopy, buffer
    <2> QED
      BY <1>3, <1>4, <1>5, <2>1, <2>2, <2>3 DEF Advance
  <1>6. CASE UNCHANGED vars
    BY <1>2, <1>6 DEF vars, buffer
  <1> QED
    BY <1>1, <1>5, <1>6 DEF Next

-----------------------------------------------------------------------------
\* Moving on to the next chunk does not move the position: the chunk left is full.
LEMMA SeekKeepsPos ==
  ASSUME SafeInv, NEW p \in Procs, ReadSeek(p)
  PROVE  Pos' = Pos
PROOF
  <1> DEFINE r == read_chunk
  <1>1. CASE ~Exhausted /\ UNCHANGED <<read_chunk, read_offset>>
    BY <1>1 DEF Pos
  <1>2. CASE Exhausted /\ r # Len(chunks) /\ read_chunk' = r + 1 /\ read_offset' = 0
    <2>1. r \in Nat \ {0} /\ read_offset = CHUNK_SIZE
      BY <1>2, Types DEF Exhausted
    <2>2. Base(r + 1) = Base(r) + CHUNK_SIZE /\ Base(r) \in Int
      BY <2>1, BaseNext
    <2>3. r + 1 # 0 /\ Base(r + 1) + 0 = Base(r + 1)
      BY <2>1, <2>2, ChunkAssumption
    <2> QED
      BY <1>2, <2>1, <2>2, <2>3 DEF Pos
  <1> QED
    BY <1>1, <1>2 DEF ReadSeek

\* Copying an entry takes the one of the log that is next.
LEMMA CopyTakesNext ==
  ASSUME SafeInv, LogIsChunks, NEW p \in Procs, ReadCopy(p)
  PROVE  /\ Pos \in Nat /\ Pos + 1 <= Len(log)
         /\ Pos' = Pos + 1
         /\ EntryAt(read_chunk, read_offset) = log[Pos + 1]
PROOF
  <1> DEFINE r == read_chunk
             n == Len(chunks)
  <1>1. r # 0 /\ read_offset < Len(chunks[r])
    BY DEF SafeInv, NoUninitRead, ReadCopy, Go
  <1>2. /\ r \in 1..n /\ n \in Nat \ {0} /\ chunks # <<>>
        /\ read_offset \in Nat /\ Len(chunks[r]) \in Nat /\ Len(chunks[n]) \in Nat
        /\ Len(chunks[r]) <= CHUNK_SIZE
    BY <1>1, Types
  <1>3. Base(r) \in Nat /\ Base(n) \in Nat /\ Pos = Base(r) + read_offset
    BY <1>1, <1>2, BaseFirst DEF Pos
  <1>4. Pos' = Pos + 1
    BY <1>1, <1>2, <1>3 DEF ReadCopy, Pos
  <1>5. EntryAt(r, read_offset) = log[Pos + 1]
    <2>1. read_offset + 1 \in 1..Len(chunks[r])
      BY <1>1, <1>2
    <2>2. chunks[r][read_offset + 1] = log[Base(r) + (read_offset + 1)]
      BY <1>2, <2>1 DEF LogIsChunks
    <2>3. Base(r) + (read_offset + 1) = Pos + 1
      BY <1>2, <1>3
    <2> QED
      BY <1>1, <2>2, <2>3 DEF EntryAt
  <1>6. Pos + 1 <= Len(log)
    <2>1. Len(log) = Base(n) + Len(chunks[n])
      BY <1>2 DEF LogIsChunks
    <2>2. CASE r = n
      BY <1>1, <1>2, <1>3, <2>1, <2>2
    <2>3. CASE r # n
      <3>1. Base(r) + CHUNK_SIZE <= Base(n)
        BY <1>2, <2>3, BaseOrder
      <3> QED
        BY <1>1, <1>2, <1>3, <2>1, <3>1, ChunkAssumption
    <2> QED
      BY <2>2, <2>3
  <1> QED
    BY <1>2, <1>3, <1>4, <1>5, <1>6

\* Every step keeps want set exactly while a read is under way.
LEMMA StepWant ==
  ASSUME SafeInv, WantShape, [Next]_vars
  PROVE  WantShape'
PROOF
  <1> USE DEF WantShape, Reading, Go, Lock, Unlock
  <1>0. pc \in [Procs -> PcStates] /\ want \in [Procs -> Requests \cup {0}] /\ got \in [Procs -> Seq(Entry)]
    BY DEF SafeInv, TypeOK
  <1>1. CASE Reload
    BY <1>1 DEF Reload
  <1>2. ASSUME NEW p \in Procs, Call(p) PROVE WantShape'
    BY <1>0, <1>2, RequestsAssumption DEF Call, WriteCall, ReadCall
  <1>3. ASSUME NEW p \in Procs, Acquire(p) PROVE WantShape'
    BY <1>0, <1>3 DEF Acquire, WriteLock, ReadLock
  <1>4. ASSUME NEW p \in Procs, PushGrow(p) \/ PushNoMem(p) \/ PushStore(p) \/ WriteUnlock(p)
        PROVE  WantShape'
    BY <1>0, <1>4 DEF PushGrow, PushNoMem, PushStore, WriteUnlock
  <1>5. ASSUME NEW p \in Procs, ReadDone(p) \/ ReadSeek(p) PROVE WantShape'
    BY <1>0, <1>5 DEF ReadDone, ReadSeek
  <1>6. ASSUME NEW p \in Procs, ReadCopy(p) PROVE WantShape'
    BY <1>0, <1>6 DEF ReadCopy
  <1>7. ASSUME NEW p \in Procs, ReadFault(p) \/ ReadUnlock(p) PROVE WantShape'
    BY <1>0, <1>7 DEF ReadFault, ReadUnlock, Return
  <1>8. CASE UNCHANGED vars
    BY <1>8 DEF vars
  <1> QED
    BY <1>1, <1>2, <1>3, <1>4, <1>5, <1>6, <1>7, <1>8 DEF Next, Advance

\* What BatchIsNext and FullBatch say of one reader.
Batch(p) ==
  /\ Len(got[p]) <= want[p]
  /\ Len(got[p]) <= Pos
  /\ Pos <= Len(log)
  /\ \A i \in 1..Len(got[p]) : got[p][i] = log[Pos - Len(got[p]) + i]
  /\ pc[p] = "runlock" => Len(got[p]) = want[p] \/ Pos = Len(log)

\* Every step leaves each reader with the next part of the log: others do not touch
\* its batch, and nobody pushes or moves the position while it is reading.
LEMMA StepBatch ==
  ASSUME SafeInv, DataInv, [Next]_vars, NEW q \in Procs, pc'[q] \in Reading
  PROVE  Batch(q)'
PROOF
  <1>0. /\ pc \in [Procs -> PcStates] /\ want \in [Procs -> Nat]
        /\ got \in [Procs -> Seq(Entry)]
        /\ \A p \in Procs : want[p] \in Nat /\ got[p] \in Seq(Entry) /\ Len(got[p]) \in Nat
        /\ Pos \in Nat /\ Pos <= Len(log) /\ Len(log) \in Nat
        /\ pc[q] \in Reading => Batch(q)
    <2>1. Requests \cup {0} \subseteq Nat
      BY RequestsAssumption
    <2>2. want \in [Procs -> Nat]
      BY <2>1 DEF SafeInv, TypeOK
    <2>3. Pos \in Nat /\ Pos <= Len(log)
      BY PosInLog DEF DataInv
    <2>4. pc[q] \in Reading => Batch(q)
      BY DEF DataInv, BatchIsNext, FullBatch, Batch
    <2> QED
      BY <2>2, <2>3, <2>4 DEF SafeInv, TypeOK
  <1>1. \A p \in Procs : pc[p] \in Locked /\ pc[q] \in Reading => p = q
    BY OneInside DEF Locked, Reading
  <1>2. ASSUME pc[q] \in Reading, pc'[q] = pc[q], got'[q] = got[q], want'[q] = want[q],
               UNCHANGED <<read_chunk, read_offset, log>>
        PROVE  Batch(q)'
    BY <1>0, <1>2 DEF Batch, Pos
  <1>3. CASE Reload
    BY <1>3 DEF Reload, Reading
  <1>4. ASSUME NEW p \in Procs, Call(p) \/ WriteLock(p) \/ PushNoMem(p) \/ WriteUnlock(p)
        PROVE  Batch(q)'
    <2>1. q # p /\ pc'[q] = pc[q] /\ got'[q] = got[q] /\ want'[q] = want[q]
      BY <1>0, <1>4
      DEF Call, WriteCall, ReadCall, WriteLock, PushNoMem, WriteUnlock, Go, Lock, Unlock, Reading
    <2>2. UNCHANGED <<read_chunk, read_offset, log>>
      BY <1>4 DEF Call, WriteCall, ReadCall, WriteLock, PushNoMem, WriteUnlock, buffer
    <2> QED
      BY <1>2, <2>1, <2>2
  <1>5. ASSUME NEW p \in Procs, ReadLock(p) PROVE Batch(q)'
    <2>1. UNCHANGED <<read_chunk, read_offset, log, got, want>> /\ pc' = [pc EXCEPT ![p] = "seek"]
      BY <1>5 DEF ReadLock, Lock, Go, buffer
    <2>2. CASE q = p
      <3>1. got[p] = <<>> /\ pc'[p] = "seek" /\ want[p] \in Nat
        <4>1. pc[p] = "rlock"
          BY <1>5 DEF ReadLock, Lock, Go
        <4>2. got[p] = <<>>
          BY <4>1 DEF SafeInv, TypeOK
        <4> QED
          BY <1>0, <2>1, <4>2
      <3>2. Pos' = Pos
        BY <2>1 DEF Pos
      <3> QED
        BY <1>0, <2>1, <2>2, <3>1, <3>2 DEF Batch
    <2>3. CASE q # p
      BY <1>0, <1>2, <2>1, <2>3
    <2> QED
      BY <2>2, <2>3
  <1>6. ASSUME NEW p \in Procs, PushGrow(p) \/ PushStore(p) PROVE Batch(q)'
    <2>1. pc[p] = "push" /\ (pc' = pc \/ pc' = [pc EXCEPT ![p] = "wunlock"])
      BY <1>6 DEF PushGrow, PushStore, Go
    <2>2. pc[q] \in Reading
      BY <1>0, <2>1 DEF Reading
    <2> QED
      BY <1>1, <2>1, <2>2 DEF Locked, Reading
  <1>7. ASSUME NEW p \in Procs, ReadDone(p) PROVE Batch(q)'
    <2>1. /\ pc[p] = "seek" /\ pc' = [pc EXCEPT ![p] = "runlock"]
          /\ UNCHANGED <<read_chunk, read_offset, log, got, want>>
      BY <1>7 DEF ReadDone, Go, buffer
    <2>2. q = p /\ pc[q] = "seek"
      BY <1>0, <1>1, <2>1 DEF Locked, Reading
    <2>3. Len(got[p]) = want[p] \/ Pos = Len(log)
      <3>1. CASE Len(got[p]) >= want[p]
        BY <1>0, <2>2, <3>1 DEF Batch, Reading
      <3>2. CASE read_chunk = 0
        BY <3>2, Types DEF Pos, DataInv, LogIsChunks
      <3>3. CASE Exhausted /\ read_chunk = Len(chunks)
        BY <3>3, Types DEF Exhausted, Pos, DataInv, LogIsChunks
      <3> QED
        BY <1>7, <3>1, <3>2, <3>3 DEF ReadDone
    <2>4. Pos' = Pos
      BY <2>1 DEF Pos
    <2> QED
      BY <1>0, <2>1, <2>2, <2>3, <2>4 DEF Batch, Reading
  <1>8. ASSUME NEW p \in Procs, ReadSeek(p) PROVE Batch(q)'
    <2>1. /\ pc[p] = "seek" /\ pc' = [pc EXCEPT ![p] = "copy"]
          /\ UNCHANGED <<log, got, want>>
      BY <1>8 DEF ReadSeek, Go
    <2>2. q = p /\ pc[q] = "seek" /\ pc'[q] = "copy"
      BY <1>0, <1>1, <2>1 DEF Locked, Reading
    <2>3. Pos' = Pos
      BY <1>8, SeekKeepsPos
    <2> QED
      BY <1>0, <2>1, <2>2, <2>3 DEF Batch, Reading
  <1>9. ASSUME NEW p \in Procs, ReadCopy(p) PROVE Batch(q)'
    <2> DEFINE g == got[p]
               e == EntryAt(read_chunk, read_offset)
    <2>1. /\ pc[p] = "copy" /\ pc' = [pc EXCEPT ![p] = "seek"]
          /\ got' = [got EXCEPT ![p] = Append(g, e)]
          /\ UNCHANGED <<log, want>>
      BY <1>9 DEF ReadCopy, Go
    <2>2. q = p /\ pc[q] = "copy" /\ pc'[q] = "seek" /\ Batch(p)
      BY <1>0, <1>1, <2>1 DEF Locked, Reading
    <2>3. Pos' = Pos + 1 /\ Pos + 1 <= Len(log) /\ e = log[Pos + 1]
      BY <1>9, CopyTakesNext DEF DataInv
    <2> HIDE DEF e
    <2>4. g \in Seq(Entry) /\ Len(g) \in Nat /\ got'[p] = Append(g, e)
      BY <1>0, <2>1
    <2>5. /\ Len(got'[p]) = Len(g) + 1
          /\ got'[p][Len(g) + 1] = e
          /\ \A i \in 1..Len(g) : got'[p][i] = g[i]
      <3> HIDE DEF g
      <3> QED
        BY <2>4
    <2>6. Len(g) < want[p] /\ want[p] \in Nat
      BY <1>0, <2>1 DEF DataInv, WantShape
    <2>7. ASSUME NEW i \in 1..(Len(g) + 1)
          PROVE  got'[p][i] = log[Pos + 1 - (Len(g) + 1) + i]
      <3>1. CASE i = Len(g) + 1
        <4>1. Pos + 1 - (Len(g) + 1) + i = Pos + 1
          BY <1>0, <2>4, <3>1
        <4> QED
          BY <2>3, <2>5, <3>1, <4>1
      <3>2. CASE i # Len(g) + 1
        <4>1. i \in 1..Len(g) /\ Pos + 1 - (Len(g) + 1) + i = Pos - Len(g) + i
          BY <1>0, <2>4, <3>2
        <4> QED
          BY <2>2, <2>5, <4>1 DEF Batch
      <3> QED
        BY <3>1, <3>2
    <2>8. Len(g) <= Pos
      BY <2>2 DEF Batch
    <2>9. Len(g) + 1 <= want[p] /\ Len(g) + 1 <= Pos + 1
      BY <1>0, <2>4, <2>6, <2>8
    <2> QED
      <3>1. /\ Len(got'[q]) <= want'[q] /\ Len(got'[q]) <= Pos' /\ Pos' <= Len(log')
            /\ pc'[q] # "runlock"
        BY <2>1, <2>2, <2>3, <2>5, <2>9
      <3>2. \A i \in 1..Len(got'[q]) : got'[q][i] = log'[Pos' - Len(got'[q]) + i]
        <4> TAKE i \in 1..Len(got'[q])
        <4>1. i \in 1..(Len(g) + 1)
          BY <2>2, <2>5
        <4>2. Pos' - Len(got'[q]) + i = Pos + 1 - (Len(g) + 1) + i
          <5>1. Pos' = Pos + 1 /\ Len(got'[q]) = Len(g) + 1
            BY <2>2, <2>3, <2>5
          <5>2. Pos \in Nat /\ Len(g) \in Nat /\ i \in Nat
            BY <1>0, <2>4, <4>1
          <5> QED
            BY <5>1, <5>2
        <4>3. got'[p][i] = log[Pos + 1 - (Len(g) + 1) + i]
          BY <2>7, <4>1
        <4> QED
          BY <2>1, <2>2, <4>2, <4>3
      <3> QED
        BY <3>1, <3>2 DEF Batch
  <1>10. ASSUME NEW p \in Procs, ReadFault(p) \/ ReadUnlock(p) PROVE Batch(q)'
    <2>1. pc[p] \in Locked /\ pc' = [pc EXCEPT ![p] = "idle"]
      BY <1>10 DEF ReadFault, ReadUnlock, Unlock, Go, Locked
    <2>2. q # p /\ pc[q] \in Reading
      BY <1>0, <2>1 DEF Reading
    <2> QED
      BY <1>1, <2>1, <2>2
  <1>11. CASE UNCHANGED vars
    BY <1>2, <1>11 DEF vars, buffer
  <1> QED
    BY <1>3, <1>4, <1>5, <1>6, <1>7, <1>8, <1>9, <1>10, <1>11 DEF Next, Acquire, Advance

\* DataInv holds in every state.
LEMMA DataInvHolds == Spec => []DataInv
PROOF
  <1>1. Init => DataInv
    BY DEF Init, DataInv, LogIsChunks, WantShape, BatchIsNext, FullBatch, Reading
  <1>2. SafeInv /\ DataInv /\ [Next]_vars => DataInv'
    <2> SUFFICES ASSUME SafeInv, DataInv, [Next]_vars PROVE DataInv'
      OBVIOUS
    <2>1. LogIsChunks' /\ WantShape'
      BY StepLog, StepWant DEF DataInv
    <2>2. \A q \in Procs : pc'[q] \in Reading => Batch(q)'
      BY StepBatch
    <2>3. BatchIsNext'
      BY <2>2 DEF Batch, BatchIsNext
    <2>4. FullBatch'
      BY <2>2 DEF Batch, FullBatch, Reading
    <2> QED
      BY <2>1, <2>3, <2>4 DEF DataInv
  <1> QED
    BY <1>1, <1>2, SafeInvHolds, PTL DEF Spec

\* Every entry trace_buffer_push stored is in the chunk and at the place its order
\* gives it, and total_count counts them all.
THEOREM LogIsChunksHolds == Spec => []LogIsChunks
PROOF
  BY DataInvHolds, PTL DEF DataInv

\* What a trace_read under way has copied is the part of the log that follows what
\* earlier reads took, without a gap or an entry twice.
THEOREM BatchIsNextHolds == Spec => []BatchIsNext
PROOF
  BY DataInvHolds, PTL DEF DataInv

\* A trace_read that ends its loop has all it asked for, or all there is: it is
\* never cut short at the end of a chunk.
THEOREM FullBatchHolds == Spec => []FullBatch
PROOF
  BY DataInvHolds, PTL DEF DataInv

-----------------------------------------------------------------------------
\* A batch that is the next part of the log is the subsequence TraceLog hands out.
LEMMA BatchIsSubSeq ==
  ASSUME NEW s \in Seq(Entry), NEW l \in Seq(Entry), NEW t \in Nat,
         t + Len(s) <= Len(l),
         \A i \in 1..Len(s) : s[i] = l[t + i]
  PROVE  s = SubSeq(l, t + 1, t + Len(s))
PROOF
  <1> DEFINE u == SubSeq(l, t + 1, t + Len(s))
  <1>1. Len(s) \in Nat /\ Len(l) \in Nat
    OBVIOUS
  <1>2. \A i \in (t + 1)..(t + Len(s)) : l[i] \in Entry
    BY <1>1
  <1>3. t + 1 \in Int /\ t + Len(s) \in Int
    BY <1>1
  <1>4. /\ u \in Seq(Entry)
        /\ Len(u) = IF t + 1 <= t + Len(s) THEN (t + Len(s)) - (t + 1) + 1 ELSE 0
        /\ \A i \in 1..((t + Len(s)) - (t + 1) + 1) : u[i] = l[(t + 1) + i - 1]
    BY <1>2, <1>3, SubSeqProperties
  <1>5. Len(u) = Len(s)
    BY <1>1, <1>4
  <1>6. ASSUME NEW i \in 1..Len(s) PROVE u[i] = s[i]
    <2>1. i \in 1..((t + Len(s)) - (t + 1) + 1) /\ (t + 1) + i - 1 = t + i
      BY <1>1
    <2> QED
      BY <1>4, <2>1
  <1> HIDE DEF u
  <1>7. u = s
    BY <1>4, <1>5, <1>6, SeqEqual
  <1> QED
    BY <1>7 DEF u

\* The number of entries taken, seen by a call that holds the mutex.
LEMMA HolderTaken ==
  ASSUME SafeInv, NEW p \in Procs, pc[p] \in Locked
  PROVE  lock = p /\ p # NoProc /\ Taken = Pos - Len(got[p])
PROOF
  BY ProcsAssumption DEF SafeInv, MutualExclusion, Taken

\* A step of a call is a step of the log, or leaves it as it is.
LEMMA CallStep ==
  ASSUME SafeInv, DataInv, NEW p \in Procs, Call(p) \/ Acquire(p) \/ Advance(p)
  PROVE  [Log!Next]_(Log!logVars)
PROOF
  <1> USE DEF Log!logVars
  <1>0. /\ pc \in [Procs -> PcStates] /\ want \in [Procs -> Requests \cup {0}]
        /\ got \in [Procs -> Seq(Entry)] /\ Pos \in Nat /\ Pos <= Len(log)
        /\ log \in Seq(Entry) /\ Len(log) \in Nat
    BY PosInLog DEF SafeInv, TypeOK, DataInv
  <1>1. ASSUME NEW e \in Entry, WriteCall(p, e) PROVE UNCHANGED Log!logVars
    BY <1>1 DEF WriteCall, buffer, Taken, Pos
  <1>2. ASSUME NEW n \in Requests, ReadCall(p, n) PROVE Log!Ask(p, n)
    <2>1. want[p] = 0
      BY <1>0, <1>2 DEF ReadCall, Go, DataInv, WantShape, Reading
    <2>2. want' = [want EXCEPT ![p] = n] /\ log' = log /\ result' = result /\ Taken' = Taken
      BY <1>2 DEF ReadCall, buffer, Taken, Pos
    <2> QED
      BY <2>1, <2>2 DEF Log!Ask
  <1>3. CASE Acquire(p)
    <2>1. /\ lock = NoProc /\ lock' = p /\ p # NoProc /\ got[p] = <<>>
          /\ UNCHANGED <<chunks, read_chunk, read_offset, got, log, want, result>>
      <3>1. pc[p] \in {"wlock", "rlock"}
        BY <1>3 DEF Acquire, WriteLock, ReadLock, Lock, Go
      <3>2. got[p] = <<>>
        BY <3>1 DEF SafeInv, TypeOK
      <3> QED
        BY <1>3, <3>2, ProcsAssumption DEF Acquire, WriteLock, ReadLock, Lock, buffer
    <2>2. Taken = Pos /\ Taken' = Pos' - Len(got[p]) /\ Pos' = Pos
      BY <2>1 DEF Taken, Pos
    <2>3. Len(got[p]) = 0
      BY <2>1
    <2>4. Taken' = Taken
      BY <1>0, <2>2, <2>3
    <2> QED
      BY <2>1, <2>4
  <1>4. CASE PushGrow(p)
    <2>1. UNCHANGED <<lock, got, log, want, result>>
      BY <1>4 DEF PushGrow
    <2>2. Pos' = Pos
      <3>1. CASE read_chunk = 0
        <4>1. read_chunk' = 1 /\ read_offset' = 0
          BY <1>4, <3>1, Types DEF PushGrow
        <4>2. Pos = 0 /\ Pos' = Base(1) + 0
          BY <3>1, <4>1 DEF Pos
        <4> QED
          BY <4>2, BaseFirst
      <3>2. CASE read_chunk # 0
        BY <1>4, <3>2 DEF PushGrow, Pos
      <3> QED
        BY <3>1, <3>2
    <2>3. Taken' = Taken
      BY <2>1, <2>2 DEF Taken
    <2> QED
      BY <2>1, <2>3
  <1>5. CASE PushNoMem(p) \/ ReadDone(p)
    BY <1>5 DEF PushNoMem, ReadDone, buffer, Taken, Pos
  <1>6. CASE PushStore(p)
    <2>1. /\ log' = Append(log, arg[p])
          /\ UNCHANGED <<lock, got, want, result, read_chunk, read_offset>>
      BY <1>6 DEF PushStore
    <2>2. arg[p] \in Entry
      BY <1>6 DEF PushStore, Go, SafeInv, TypeOK
    <2>3. Taken' = Taken
      BY <2>1 DEF Taken, Pos
    <2> QED
      BY <2>1, <2>2, <2>3 DEF Log!Next, Log!Push
  <1>7. CASE WriteUnlock(p)
    <2>1. /\ pc[p] = "wunlock" /\ lock' = NoProc
          /\ UNCHANGED <<got, want, result, log, read_chunk, read_offset>>
      BY <1>7 DEF WriteUnlock, Unlock, Go, buffer
    <2>2. got[p] = <<>>
      BY <2>1 DEF SafeInv, TypeOK
    <2>3. Taken = Pos - Len(got[p])
      BY <2>1, HolderTaken DEF Locked
    <2>4. Taken' = Pos
      BY <2>1 DEF Taken, Pos
    <2>5. Len(got[p]) = 0
      BY <2>2
    <2>6. Taken' = Taken
      BY <1>0, <2>3, <2>4, <2>5
    <2> QED
      BY <2>1, <2>6
  <1>8. CASE ReadSeek(p)
    <2>1. UNCHANGED <<lock, got, want, result, log>>
      BY <1>8 DEF ReadSeek
    <2>2. Taken' = Taken
      BY <1>8, <2>1, SeekKeepsPos DEF Taken
    <2> QED
      BY <2>1, <2>2
  <1>9. CASE ReadCopy(p)
    <2> DEFINE e == EntryAt(read_chunk, read_offset)
    <2>1. /\ pc[p] = "copy" /\ got' = [got EXCEPT ![p] = Append(got[p], e)]
          /\ UNCHANGED <<lock, want, result, log>>
      BY <1>9 DEF ReadCopy, Go
    <2> HIDE DEF e
    <2>2. lock = p /\ p # NoProc /\ Taken = Pos - Len(got[p])
      BY <2>1, HolderTaken DEF Locked
    <2>3. Pos' = Pos + 1
      BY <1>9, CopyTakesNext DEF DataInv
    <2>4. Len(got[p]) \in Nat /\ Len(got'[p]) = Len(got[p]) + 1
      BY <1>0, <2>1
    <2>5. Taken' = Pos' - Len(got'[p])
      BY <2>1, <2>2 DEF Taken
    <2>6. Taken' = (Pos + 1) - (Len(got[p]) + 1)
      BY <2>3, <2>4, <2>5
    <2>7. Taken' = Taken
      BY <1>0, <2>2, <2>4, <2>6
    <2> QED
      BY <2>1, <2>7
  <1>10. CASE ReadFault(p) \/ ReadUnlock(p)
    <2> DEFINE g == got[p]
               t == Pos - Len(g)
    <2>1. /\ pc[p] \in Reading /\ lock' = NoProc
          /\ result' = g
          /\ want' = [want EXCEPT ![p] = 0]
          /\ UNCHANGED <<log, read_chunk, read_offset>>
      BY <1>10 DEF ReadFault, ReadUnlock, Unlock, Go, Return, buffer, Reading
    <2>2. want[p] # 0 /\ want[p] \in Nat
      <3>1. want[p] # 0
        BY <2>1 DEF DataInv, WantShape
      <3>2. want[p] \in Requests \cup {0}
        BY <1>0
      <3> QED
        BY <3>1, <3>2, RequestsAssumption
    <2>3. /\ Len(g) <= want[p] /\ Len(g) <= Pos
          /\ \A i \in 1..Len(g) : g[i] = log[Pos - Len(g) + i]
      BY <2>1 DEF DataInv, BatchIsNext
    <2>4. Taken = t /\ Taken' = Pos
      <3>1. Taken = t
        BY <2>1, HolderTaken DEF Locked, Reading
      <3>2. Taken' = Pos
        BY <2>1 DEF Taken, Pos
      <3> QED
        BY <3>1, <3>2
    <2>5. g \in Seq(Entry) /\ Len(g) \in Nat
      BY <1>0
    <2> HIDE DEF g
    <2>6. t \in Nat /\ t + Len(g) = Pos /\ Len(g) <= Len(log) - t
      BY <1>0, <2>3, <2>5
    <2> HIDE DEF t
    <2>7. g = SubSeq(log, t + 1, t + Len(g))
      <3>1. \A i \in 1..Len(g) : g[i] = log[t + i]
        BY <2>3 DEF t
      <3>2. t + Len(g) <= Len(log)
        BY <1>0, <2>6
      <3> QED
        BY <1>0, <2>5, <2>6, <3>1, <3>2, BatchIsSubSeq
    <2>8. Len(g) \in 0..Log!MinOf(want[p], Len(log) - Taken)
      BY <1>0, <2>2, <2>3, <2>4, <2>5, <2>6 DEF Log!MinOf
    <2>9. result' = SubSeq(log, Taken + 1, Taken + Len(g)) /\ Taken' = Taken + Len(g)
      BY <2>1, <2>4, <2>6, <2>7
    <2>10. Log!Read(p)
      BY <2>1, <2>2, <2>8, <2>9 DEF Log!Read
    <2> QED
      BY <2>10 DEF Log!Next
  <1> QED
    BY <1>1, <1>2, <1>3, <1>4, <1>5, <1>6, <1>7, <1>8, <1>9, <1>10 DEF Call, Advance, Log!Next

\* trace_write and trace_read, with their failing paths and the chunks underneath,
\* implement one log: every entry is handed out once, in order, in batches that are
\* contiguous, for any number of processes and any chunk and read sizes.
THEOREM ImplementsLogHolds == Spec => ImplementsLog
PROOF
  <1>1. Init => Log!Init
    BY DEF Init, Log!Init, Taken, Pos
  <1>2. SafeInv /\ DataInv /\ [Next]_vars => [Log!Next]_(Log!logVars)
    <2> SUFFICES ASSUME SafeInv, DataInv, [Next]_vars PROVE [Log!Next]_(Log!logVars)
      OBVIOUS
    <2>1. CASE Reload
      <3>1. lock = NoProc
        BY <2>1 DEF Reload, SafeInv, TypeOK, MutualExclusion, Locked
      <3>2. Log!Clear
        BY <2>1, <3>1 DEF Reload, Log!Clear, Taken, Pos
      <3> QED
        BY <3>2 DEF Log!Next
    <2>2. ASSUME NEW p \in Procs, Call(p) \/ Acquire(p) \/ Advance(p)
          PROVE  [Log!Next]_(Log!logVars)
      BY <2>2, CallStep
    <2>3. CASE UNCHANGED vars
      BY <2>3 DEF vars, buffer, Log!logVars, Taken, Pos
    <2> QED
      BY <2>1, <2>2, <2>3 DEF Next
  <1> QED
    BY <1>1, <1>2, SafeInvHolds, DataInvHolds, PTL DEF Spec, ImplementsLog, Log!Spec
=============================================================================
