----------------------------- MODULE MCPipeline -----------------------------
(* Small instances of Pipeline for TLC. *)
EXTENDS Pipeline, TLC

CONSTANT q1

MCPartitionOf == [a \in Agencies |-> q1]
Healthy == {[db |-> TRUE, kafka |-> TRUE]}
WithDatabase == {TRUE}

Symmetry == Permutations(Submissions) \union Permutations(Keys) \union Permutations(Workers)

=============================================================================
