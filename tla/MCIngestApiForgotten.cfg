CONSTANTS
    Submissions = {s1, s2}
    Keys = {k1}
    Agencies = {a1}
    Partitions = {q1}
    PartitionOf <- MCPartitionOf
    None = None
    Procs = {p1}
    Faults = {"broker"}
    StartModes <- Healthy
    MaxCrashes = 0
SPECIFICATION Spec
SYMMETRY Symmetry
CHECK_DEADLOCK FALSE
INVARIANTS
    DuplicateIsQueued
