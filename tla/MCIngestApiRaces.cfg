CONSTANTS
    Submissions = {s1, s2, s3}
    Keys = {k1, k2}
    Agencies = {a1, a2}
    Partitions = {q1, q2}
    PartitionOf <- MCPartitionOf
    None = None
    Procs = {p1, p2}
    Faults = {"crash"}
    StartModes <- Healthy
    MaxCrashes = 1
SPECIFICATION Spec
SYMMETRY Symmetry
CHECK_DEADLOCK FALSE
INVARIANTS
    TypeOK
    SequenceDense
    NumberStillFree
    PublishedOnce
    PhantomHasTwin
