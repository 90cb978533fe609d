CONSTANTS
    Submissions = {s1, s2}
    Keys = {k1}
    Agencies = {a1}
    Partitions = {q1}
    q1 = q1
    PartitionOf <- MCPartitionOf
    None = None
    Procs = {p1}
    Faults = {"crash"}
    StartModes <- Healthy
    MaxCrashes = 1
    Workers = {w1}
    Concurrency = 1
    MaxPoll = 2
    MaxRetries = 3
    WorkerFaults = {"crash", "stop", "rebalance"}
    StartPools <- WithDatabase
    MaxDisruptions = 1
SPECIFICATION FairPipeline
CHECK_DEADLOCK FALSE
INVARIANTS
    QueuedIsWaiting
PROPERTIES
    AdmittedIsAnswered
    PublishedIsProcessed
