---------------------------- MODULE MCWorkerPool ----------------------------
(* Small instances of WorkerPool for TLC: what the API left in the table and *)
(* in the topic is fixed, one agency per partition.                          *)
EXTENDS WorkerPool, TLC

CONSTANTS s1, s2, q1, q2, a1, a2, k

MCPartitionOf == (a1 :> q1) @@ (a2 :> q2)
OnePartition == (a1 :> q1)

Queued(a, n) == [key |-> k, agency |-> a, seq |-> n, status |-> "QUEUED", retries |-> 0]

\* Two agencies, one document published twice (a batch the broker repeated).
TwoAgencyTable == (s1 :> Queued(a1, 1)) @@ (s2 :> Queued(a2, 1))
TwoAgencyTopic == (q1 :> <<Doc(s1), Doc(s1)>>) @@ (q2 :> <<Doc(s2)>>)

OneDocumentTable == (s1 :> Queued(a1, 1))
OneDocumentTopic == (q1 :> <<Doc(s1)>>)

WithDatabase == {TRUE}

Symmetry == Permutations(Workers)

=============================================================================
