CONSTANTS
    Submissions = {s1, s2}
    Keys = {k1, k2}
    Agencies = {a1, a2}
    Partitions = {q1, q2}
    PartitionOf <- MCPartitionOf
    None = None
    Procs = {p1, p2}
    Faults = {"db", "broker", "crash"}
    StartModes <- AnyMode
    MaxCrashes = 1
SPECIFICATION Spec
SYMMETRY Symmetry
CHECK_DEADLOCK FALSE
INVARIANTS
    PublishedIsCommitted
    AcceptedOncePerKey
    OneDocumentPerKey
PROPERTIES
    AcceptedNamesARow
    LedgerSpec
    AnswerIsFindable
