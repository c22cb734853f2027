\* Concurrent add() and memorize() calls, blocking and background, cached and
\* uncached, item errors collected, with cancellations, dismissals and crashes.
SPECIFICATION Spec
CONSTANTS
  Calls = {c1, c2}
  Items = {i1, i2}
  Ops = {"add", "memorize"}
  Modes = {"ignore"}
  Backgrounds = {TRUE, FALSE}
  Caches = {TRUE, FALSE}
  RaiseErrors = FALSE
  MaxStray = 2
SYMMETRY CallItemSymmetry
CONSTRAINT StraysAlone
INVARIANTS
  TypeOK
  CompletedCoversBatch
  StartedHasOwner
  CompletedIsCurrent
