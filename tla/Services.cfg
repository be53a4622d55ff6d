\* The services of a worker, one at a time.
\* A part may come to its end, and then nothing is left to do.
SPECIFICATION ServicesSpec
CONSTANTS
    Workers = {w1}
    Admins = {a1, a2}
    Flags <- CragFlags
    Requires <- CragRequires
    Payloads <- RacingPayloads
    Seed <- CragSeed
    MaxClock = 3
    Overlap = "transactions"
    Getters <- AllGetters
    Needs <- Graph
    Kept <- Cached
    Shared <- Stateful
    Fallible <- Connecting
    Preloaded <- Warmed
    Threads = {"request", "poller"}
    Entries <- FirstCalls
    Totals = {1, 3, 6}
    MaxAttempts = {1, 2, 3}
    ClientTimeout = 4
    BackoffUnit = 2
    EmbedCallers = {"c1", "c2"}
    EmbedTexts = {"x", "y"}
    EmbedModels = {"small", "large"}
    MaxTexts = 2
    EmbedAttempts = 2
    Calls = {"q1", "q2", "q3"}
    Limit = 2
    Window = 4
    MaxStall = 1
    MaxTime = 7
    MetricThreads = {"t1", "t2"}
    Sampled <- Observed
    WindowSize = 2
    MaxRecords = 3
    CacheWorkers = {"A", "B"}
    CacheThreads = {"c1", "c2", "c3"}
    WorkerOf <- Placed
    MaxAbandoned = 1
    Files = {"f1", "f2"}
    Uploads = {"u1"}
    MaxRuns = 4
INVARIANTS AlwaysApplicable AuditExplainsRow WiredOnce DeadlineKept EmbedsEach LimitKept SnapshotIsTrue GateHolds
PROPERTIES PollMissesOnlyOvertaken ServedStaysComplete
CHECK_DEADLOCK FALSE
