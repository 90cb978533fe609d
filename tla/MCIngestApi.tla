---------------------------- MODULE MCIngestApi ----------------------------
(* Small instances of IngestApi for TLC. *)
EXTENDS IngestApi, TLC

\* Every partition carries the records of some agency.
MCPartitionOf ==
    CHOOSE f \in [Agencies -> Partitions] : \A q \in Partitions : \E a \in Agencies : f[a] = q

Healthy == {[db |-> TRUE, kafka |-> TRUE]}

Symmetry == Permutations(Submissions) \union Permutations(Keys)
                \union Permutations(Procs)

=============================================================================
