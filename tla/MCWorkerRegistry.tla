-------------------------- MODULE MCWorkerRegistry --------------------------
(* A small instance of WorkerRegistry for TLC. *)
EXTENDS WorkerRegistry, TLC

CONSTANTS s1, q1, a1, k

MCPartitionOf == (a1 :> q1)

\* One document, whose batch the producer has repeated, and a record that a process
\* without a database has made up.
MCTable == (s1 :> [key |-> k, agency |-> a1, seq |-> 1, status |-> "QUEUED", retries |-> 0])
MCTopic == (q1 :> <<Doc(s1), Doc(s1), Local(s1)>>)

\* WORKER_ID is set for each container.
OwnIds == [w \in Workers |-> w]

=============================================================================
