---------------------------- MODULE MCStatusApi ----------------------------
(* A small instance of StatusApi for TLC. *)
EXTENDS StatusApi, TLC

\* Every partition carries the records of some agency.
MCPartitionOf ==
    CHOOSE f \in [Agencies -> Partitions] : \A q \in Partitions : \E a \in Agencies : f[a] = q

AnyMode == [db: BOOLEAN, kafka: BOOLEAN]

Symmetry == Permutations(Submissions) \union Permutations(Keys)
                \union Permutations(Procs)

=============================================================================
