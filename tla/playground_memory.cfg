\* Two datasets: partial failures, and flushes while a dataset is memorized.
SPECIFICATION Spec
CONSTANTS
  Faces = {f1}
  Anonymous = anon
  Datasets = {d1, d2}
  Tasks = {t1, t2}
  TurnThreshold = 1
  TokenThreshold = 3
  MaxRetries = 0
  Shared = TRUE
  MaxMessages = 2
SYMMETRY SessionSymmetry
CONSTRAINT KnownSpeakers
INVARIANTS
  TypeOK
  FlushedOnce
  MemorizedOrExcused
