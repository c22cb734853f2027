\* Two concurrent ingest() calls with the default conflict mode, undisturbed.
SPECIFICATION QuietSpec
CONSTANTS
  Calls = {c1, c2}
  Items = {i1, i2}
  Ops = {"ingest"}
  Modes = {"warn"}
  Backgrounds = {FALSE}
  Caches = {TRUE}
  RaiseErrors = TRUE
  MaxStray = 1
INVARIANT IngestCompletedIsQueryable
