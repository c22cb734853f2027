\* One dataset and a longer conversation, with what must eventually happen.
SPECIFICATION FairSpec
CONSTANTS
  Faces = {}
  Anonymous = anon
  Datasets = {d1}
  Tasks = {t1}
  TurnThreshold = 2
  TokenThreshold = 2
  MaxRetries = 1
  Shared = FALSE
  MaxMessages = 3
INVARIANTS
  CountersMatchBuffer
  QuietMessagesReachMemory
PROPERTIES
  FlushEnds
  DatasetsAreReleased
