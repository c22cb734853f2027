SPECIFICATION MCSpec
CONSTANTS
    SessionIds = {"s1", "s2", "s3"}
    Users = {"u1", "u2"}
    Languages = {"zh", "en"}
    Installed = {"zh"}
    Closed = Closed
    Ttl = 1
    MaxSessions = 3
    MaxTime = 2
    Requests = {"r1", "r2"}
    Datasets = {"d1"}
    Hashes = {"h1", "h2"}
    Arriving = {"h2"}
    Nothing = Nothing
    PruneRequests = {"p1", "p2", "p3"}
    Workers = {"w1", "w2"}
    WorkerOf <- MCWorkerOf
    Free = Free
    Signatures = {"a", "b"}
    Batches = {"b1", "b2"}
    Width = 2
    MaxBatches = 3
    BackgroundCalls = {"c1", "c2"}
    RunIds = {"d1", "d2"}
    DatasetsOf <- MCDatasetsOf
    Clients = {"k1", "k2"}
    NoQueue = NoQueue
INVARIANTS ServicesTypeOK ContextIsOneSpeaker OrderIsByUse
    SyncedDatasetsMeet UploadClaimsHold OverlapNeedsALostLock
    DeprecatedHasSuccessor
PROPERTIES ClosedStaysClosed SubscriberHearsTheEnd
CHECK_DEADLOCK FALSE
