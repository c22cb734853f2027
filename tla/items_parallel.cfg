\* Two runs over two items in parallel, item errors raised while siblings go on.
SPECIFICATION Spec
CONSTANTS
  Runs = {r1, r2}
  Items = {i1, i2}
  Datasets = {d1}
  NoDataset = none
  BatchSize = 2
  Serial = FALSE
  RaiseErrors = TRUE
  Incremental = {TRUE}
  Isolated = TRUE
  Deletions = {}
SYMMETRY Symmetry
INVARIANTS
  CompletedRunOwesNothing
