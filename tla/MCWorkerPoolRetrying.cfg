CONSTANTS
    Submissions = {s1}
    Keys = {k}
    Agencies = {a1}
    Partitions = {q1}
    a1 = a1
    a2 = a2
    k = k
    q1 = q1
    q2 = q2
    s1 = s1
    s2 = s2
    PartitionOf <- OnePartition
    None = None
    Workers = {w1}
    Concurrency = 1
    MaxPoll = 1
    MaxRetries = 3
    WorkerFaults = {"db"}
    StartPools <- WithDatabase
    MaxDisruptions = 0
    Table <- OneDocumentTable
    Topic <- OneDocumentTopic
SPECIFICATION Spec
SYMMETRY Symmetry
CHECK_DEADLOCK FALSE
INVARIANTS
    RetryingIsDue
