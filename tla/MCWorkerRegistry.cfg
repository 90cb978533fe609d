\* One worker that runs two records at once and stops, crashes or is rebalanced at any
\* moment, with or without its database, while statements fail.
CONSTANTS
    Submissions = {s1}
    Keys = {k}
    Agencies = {a1}
    Partitions = {q1}
    a1 = a1
    k = k
    q1 = q1
    s1 = s1
    PartitionOf <- MCPartitionOf
    None = None
    Workers = {w1}
    Ids = {w1}
    IdOf <- OwnIds
    Concurrency = 2
    MaxPoll = 2
    MaxRetries = 3
    WorkerFaults = {"crash", "stop", "rebalance", "db"}
    StartPools = {TRUE, FALSE}
    MaxDisruptions = 1
    Table <- MCTable
    Topic <- MCTopic
SPECIFICATION RegistrySpec
CHECK_DEADLOCK FALSE
INVARIANTS
    RegistryTypeOK
    CompletedHasResult
    WorkIsTold
