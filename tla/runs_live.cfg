\* Callers that ingest the one item over and over in conflict mode error, item
\* errors raised, with cancellations, dismissals and crashes.
SPECIFICATION FairSpec
CONSTANTS
  Calls = {c1, c2}
  Items = {i1}
  Ops = {"ingest"}
  Modes = {"error"}
  Backgrounds = {FALSE}
  Caches = {TRUE}
  RaiseErrors = TRUE
  MaxStray = 1
INVARIANTS
  ErrorModeIsExclusive
  SequentialIngestIsHonest
PROPERTY EventuallyMemorized
