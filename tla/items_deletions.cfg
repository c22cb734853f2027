\* Two runs of an item beside deletions of every kind, on a shared graph.
SPECIFICATION Spec
CONSTANTS
  Runs = {r1, r2}
  Items = {i1}
  Datasets = {d1}
  NoDataset = none
  BatchSize = 1
  Serial = FALSE
  RaiseErrors = TRUE
  Incremental = {TRUE}
  Isolated = FALSE
  Deletions = {"document", "data", "dataset"}
SYMMETRY Symmetry
INVARIANTS
  TypeOK
  MarksAreEarned
