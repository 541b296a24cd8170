CONSTANTS
  p1 = p1
  p2 = p2
  Procs = {p1, p2}
  NoProc = NoProc
  e1 = e1
  e2 = e2
  Entry = {e1, e2}
  Uninit = Uninit
  Requests <- InsideAndAcross
  CHUNK_SIZE = 2
  MaxEntries = 4
SPECIFICATION FairSpec
INVARIANTS TypeOK MutualExclusion ChunkShape NoUninitRead LogIsChunks BatchIsNext FullBatch
PROPERTY ImplementsLog EveryCallReturns
