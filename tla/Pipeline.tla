------------------------------ MODULE Pipeline ------------------------------
(***************************************************************************)
(* The API and the workers together: they share the table documents and    *)
(* the topic, and nothing else.                                            *)
(***************************************************************************)
EXTENDS IngestApi

CONSTANTS Workers, Concurrency, MaxPoll, MaxRetries, WorkerFaults, StartPools, MaxDisruptions

\* What WorkerPool assumes of its constants.
ASSUME WorkerFaultsAreKnown == WorkerFaults \subseteq {"db", "broker", "crash", "stop", "rebalance"}
ASSUME StartPoolsAreFlags == StartPools \subseteq BOOLEAN
ASSUME LimitsArePositive == Concurrency \in Nat \ {0} /\ MaxPoll \in Nat \ {0}
ASSUME MaxRetriesIsNat == MaxRetries \in Nat
ASSUME MaxDisruptionsIsNat == MaxDisruptions \in Nat
ASSUME NoneIsNoWorker == None \notin Workers
ASSUME PartitionsAreFinite == IsFiniteSet(Partitions)

VARIABLES
    results, owner, position, committed, group, loop, pool, draining, tasks, disruptions

NoDocuments == [s \in Submissions |-> None]
EmptyTopic == [q \in Partitions |-> <<>>]

Pool == INSTANCE WorkerPool WITH Table <- NoDocuments, Topic <- EmptyTopic

poolVars == <<results, owner, position, committed, group, loop, pool, draining, tasks,
              disruptions>>
allVars == <<vars, poolVars>>

PipelineInit == Init /\ Pool!PoolInit

PipelineNext ==
    \/ ApiNext /\ UNCHANGED poolVars
    \/ Pool!PoolNext /\ UNCHANGED apiVars

PipelineSpec == PipelineInit /\ [][PipelineNext]_allVars

\* The API: the event loop runs every task that can run, PostgreSQL serves the
\* queue of a lock, and the producer's sender task drains its batches.  The
\* workers: when none is left one is started again (by the operator: the compose
\* file has no restart policy), the group reassigns the partitions of lost
\* members, and each event loop runs its tasks and its loop.
PipelineFairness ==
    /\ \A s \in Submissions : WF_allVars(Handle(s) /\ UNCHANGED poolVars)
    /\ \A p \in Procs, q \in Partitions : WF_allVars(Flush(p, q) /\ UNCHANGED poolVars)
    /\ WF_allVars(Pool!Rebalance /\ UNCHANGED <<apiVars, disruptions>>)
    /\ WF_allVars(Pool!Live = {} /\ \E w \in Workers : Pool!Start(w) /\ UNCHANGED apiVars)
    /\ \A w \in Workers :
          /\ WF_allVars(Pool!Run(w) /\ UNCHANGED apiVars)
          /\ WF_allVars((Pool!ClosePool(w) \/ Pool!Exit(w)) /\ UNCHANGED apiVars)
          /\ WF_allVars((\E t \in Pool!TasksOf(w) : Pool!Step(t)) /\ UNCHANGED apiVars)

FairPipeline == PipelineSpec /\ PipelineFairness

-----------------------------------------------------------------------------
(* Properties *)

\* A record that names no row has reached the topic: its handle_record raises, which ends
\* the gather of its batch before the documents beside it are done.
FallbackPublished == \E q \in Partitions : \E i \in DOMAIN log[q] : log[q][i].kind = "local"

\* A document that no worker has started yet keeps waiting in the topic: QUEUED with
\* a record already passed by the group means that its result exists.
QueuedIsWaiting ==
    ~FallbackPublished =>
        \A d \in Stored(documents) :
            documents[d].status = "QUEUED" /\ InLog(Doc(d), PartitionOf[documents[d].agency]) =>
                d \in results \/ Pool!StillDue(d)

\* A document with a record in the topic eventually has its result, whatever its client was
\* told and whoever crashes, stops or is rebalanced before and after the record is read.
PublishedIsProcessed ==
    \A s \in Submissions : InLog(Doc(s), PartitionFor(s)) ~> s \in results \/ FallbackPublished

=============================================================================
