\* One run or deletion at a time, an item that two datasets share, item errors
\* collected, crashes anywhere.
SPECIFICATION Spec
CONSTANTS
  Runs = {r1}
  Items = {i1}
  Datasets = {d1, d2}
  NoDataset = none
  BatchSize = 1
  Serial = TRUE
  RaiseErrors = FALSE
  Incremental = {TRUE, FALSE}
  Isolated = TRUE
  Deletions = {"dataset", "data"}
SYMMETRY Symmetry
CONSTRAINT OneAtATime
INVARIANTS
  SequentialAddLinks
  SequentialMemorizeCovers
PROPERTY MarkedIsSkipped
