SPECIFICATION Spec
CONSTANTS
    Files = {1, 2, 3}
    TextsOf <- MCTextsOf
    Absent = Absent
    Torn = Torn
    ChunkSize = 2
    MaxTargets = 2
    MaxCommits = 3
    MaxRuns = 2
INVARIANTS TypeOK RebuildIsExact SyncMakesNodesCurrent ResolvedCallsAreTrue
PROPERTY ShowsWhatItReads
CHECK_DEADLOCK FALSE
