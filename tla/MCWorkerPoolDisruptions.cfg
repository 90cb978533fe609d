CONSTANTS
    Submissions = {s1, s2}
    Keys = {k}
    Agencies = {a1, a2}
    Partitions = {q1, q2}
    a1 = a1
    a2 = a2
    k = k
    q1 = q1
    q2 = q2
    s1 = s1
    s2 = s2
    PartitionOf <- MCPartitionOf
    None = None
    Workers = {w1, w2}
    Concurrency = 1
    MaxPoll = 2
    MaxRetries = 3
    WorkerFaults = {"crash", "stop", "rebalance", "broker"}
    StartPools <- WithDatabase
    MaxDisruptions = 1
    Table <- TwoAgencyTable
    Topic <- TwoAgencyTopic
SPECIFICATION Spec
SYMMETRY Symmetry
CHECK_DEADLOCK FALSE
INVARIANTS
    CommittedIsHandled
    PositionsInOrder
PROPERTIES
    CommitsMoveForward
