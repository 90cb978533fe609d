----------------------------- MODULE WorkerPool -----------------------------
(***************************************************************************)
(* The workers: WorkerBatchConsumer (worker/src/consumer.py), the          *)
(* MinimalProcessingHandler it calls (processor.py) and the result         *)
(* repository, run by several containers in one Kafka consumer group.      *)
(*                                                                         *)
(* A worker's loop polls a batch, starts one handle_record task per record *)
(* and waits for all of them (asyncio.gather without return_exceptions),   *)
(* then commits its positions.  A task passes                              *)
(*                                                                         *)
(*   waiting -> consume -> check -> mark -> save -> (gone)                 *)
(*                                                                         *)
(* and on an exception retry -> report.  An exception out of report ends   *)
(* the gather early: the other tasks go on, no longer awaited.             *)
(***************************************************************************)
EXTENDS DocumentTable

CONSTANTS
    Workers,
    Concurrency,    \* WORKER_CONCURRENCY: permits of the shared semaphore
    MaxPoll,        \* KAFKA_MAX_POLL_RECORDS
    MaxRetries,     \* PROCESSING_MAX_RETRIES
    WorkerFaults,   \* which failures the environment may inject
    StartPools,     \* can a starting worker reach PostgreSQL?
    MaxDisruptions, \* bound on crashes, shutdowns and unprompted rebalances
    Table, Topic    \* what the API has left in the table and in the topic

ASSUME WorkerFaultsAreKnown == WorkerFaults \subseteq {"db", "broker", "crash", "stop", "rebalance"}
ASSUME StartPoolsAreFlags == StartPools \subseteq BOOLEAN
ASSUME LimitsArePositive == Concurrency \in Nat \ {0} /\ MaxPoll \in Nat \ {0}
ASSUME MaxRetriesIsNat == MaxRetries \in Nat
ASSUME MaxDisruptionsIsNat == MaxDisruptions \in Nat
ASSUME NoneIsNoWorker == None \notin Workers
ASSUME TableIsATable == Table \in [Submissions -> Row \union {None}]
ASSUME TopicIsATopic == Topic \in [Partitions -> Seq(Jobs)]
ASSUME PartitionsAreFinite == IsFiniteSet(Partitions)

\* What the API leaves: rows nobody has worked on yet, and (PublishedIsCommitted of
\* IngestApi) no record of a document without its row.
ASSUME TableIsQueued == \A d \in Stored(Table) : Table[d].status = "QUEUED"
ASSUME TopicIsCommitted ==
    \A q \in Partitions : \A i \in DOMAIN Topic[q] :
        Topic[q][i].kind = "document" => Topic[q][i].of \in Stored(Table)

VARIABLES
    documents,      \* the table documents
    results,        \* documents that have a row in processing_results
    log,            \* the topic, per partition
    owner,          \* the group member each partition is assigned to
    position,       \* the fetch position of that member, per partition
    committed,      \* the group's committed offset, per partition
    loop,           \* where each worker's _consume_loop stands; "down" without process
    pool,           \* repository.pool of each worker: "open", "closing" or "none"
    draining,       \* has stop() been called (self.running is False)?
    tasks,          \* the handle_record tasks of all workers
    group,          \* the members of the current generation
    disruptions

groupVars == <<owner, position, committed, group>>
workerVars == <<loop, pool, draining, tasks, disruptions>>
poolVars == <<results, groupVars, workerVars>>
vars == <<documents, log, poolVars>>

Live == {w \in Workers : loop[w] # "down"}
Members == {w \in Live : ~draining[w]}
Owned(w) == {q \in Partitions : owner[q] = w}
TasksOf(w) == {t \in tasks : t.worker = w}
Awaited(w) == {t \in TasksOf(w) : t.awaited}

\* Tasks that hold a permit of their worker's semaphore.
Running(w) == {t \in TasksOf(w) : t.pc # "waiting"}
JobOf(t) == log[t.part][t.at]

TaskSteps == {"waiting", "consume", "check", "mark", "save", "retry", "report"}
Task == [worker: Workers, part: Partitions, at: Nat \ {0}, copy: Nat, pc: TaskSteps,
         awaited: BOOLEAN]

\* Type correctness: whoever runs handle_record runs it for a record that exists.
TypeOK ==
    /\ documents \in [Submissions -> Row \union {None}]
    /\ results \in SUBSET Submissions
    /\ log \in [Partitions -> Seq(Jobs)]
    /\ owner \in [Partitions -> Workers \union {None}]
    /\ position \in [Partitions -> Nat]
    /\ committed \in [Partitions -> Nat]
    /\ loop \in [Workers -> {"down", "poll", "gather", "commit", "backoff"}]
    /\ pool \in [Workers -> {"open", "closing", "none"}]
    /\ draining \in [Workers -> BOOLEAN]
    /\ tasks \subseteq Task
    /\ \A t \in tasks : t.at \in DOMAIN log[t.part]
    /\ group \subseteq Workers
    /\ disruptions \in 0..MaxDisruptions

PoolInit ==
    /\ results = {}
    /\ owner = [q \in Partitions |-> None]
    /\ position = [q \in Partitions |-> 0]
    /\ committed = [q \in Partitions |-> 0]
    /\ loop = [w \in Workers |-> "down"]
    /\ pool = [w \in Workers |-> "none"]
    /\ draining = [w \in Workers |-> FALSE]
    /\ tasks = {}
    /\ group = {}
    /\ disruptions = 0

Init == PoolInit /\ documents = Table /\ log = Topic

-----------------------------------------------------------------------------
(* Worker processes and the consumer group *)

Leave(w) ==
    /\ owner' = [q \in Partitions |-> IF owner[q] = w THEN None ELSE owner[q]]
    /\ group' = group \ {w}
    /\ UNCHANGED <<position, committed>>

Disrupt(kind) ==
    /\ kind \in WorkerFaults
    /\ disruptions < MaxDisruptions
    /\ disruptions' = disruptions + 1

\* start(): a failing database connection is only logged, and the consumer runs
\* without a pool; the broker is retried until it answers.
Start(w) ==
    /\ loop[w] = "down"
    /\ \E connected \in StartPools :
          pool' = [pool EXCEPT ![w] = IF connected THEN "open" ELSE "none"]
    /\ loop' = [loop EXCEPT ![w] = "poll"]
    /\ draining' = [draining EXCEPT ![w] = FALSE]
    /\ UNCHANGED <<documents, results, log, groupVars, tasks, disruptions>>

\* Mutant: after a rebalance a member reads from the earliest offset.
RebalanceToEarliest ==
    /\ \/ /\ group # Members \/ \E q \in Partitions : owner[q] = None
          /\ UNCHANGED disruptions
       \/ Disrupt("rebalance")
    /\ Members # {}
    /\ owner' \in [Partitions -> Members]
    /\ position' = [q \in Partitions |-> 0]
    /\ group' = Members
    /\ UNCHANGED <<documents, results, log, committed, loop, pool, draining, tasks>>

\* The group assigns every partition to a live member, whose position starts at
\* the committed offset; tasks already running are not told.  It happens when
\* members come or go, and may happen at any other time (a missed heartbeat).
Rebalance ==
    /\ \/ /\ group # Members \/ \E q \in Partitions : owner[q] = None
          /\ UNCHANGED disruptions
       \/ Disrupt("rebalance")
    /\ Members # {}
    /\ owner' \in [Partitions -> Members]
    /\ position' = committed
    /\ group' = Members
    /\ UNCHANGED <<documents, results, log, committed, loop, pool, draining, tasks>>

\* The process is killed: its session ends, and nobody reads its partitions until
\* the group rebalances.
Crash(w) ==
    /\ Disrupt("crash")
    /\ loop[w] # "down"
    /\ loop' = [loop EXCEPT ![w] = "down"]
    /\ pool' = [pool EXCEPT ![w] = "none"]
    /\ draining' = [draining EXCEPT ![w] = FALSE]
    /\ tasks' = tasks \ TasksOf(w)
    /\ Leave(w)
    /\ UNCHANGED <<documents, results, log>>

\* SIGTERM runs stop() beside the loop: it leaves the group, tells the table that it
\* drains and closes the pool, all while tasks go on.
StopConsumer(w) ==
    /\ Disrupt("stop")
    /\ w \in Members
    /\ draining' = [draining EXCEPT ![w] = TRUE]
    /\ Leave(w)
    /\ UNCHANGED <<documents, results, log, loop, pool, tasks>>

\* When one of the two statements of stop() raises, the pool is left open.  Otherwise
\* close() waits for the statements that run and refuses new ones.
SignOff(w) ==
    /\ draining[w]
    /\ pool[w] = "open"
    /\ pool' = [pool EXCEPT ![w] = "closing"]
    /\ UNCHANGED <<documents, log, results, groupVars, loop, draining, tasks, disruptions>>

ClosePool(w) ==
    /\ pool[w] = "closing"
    /\ pool' = [pool EXCEPT ![w] = "none"]
    /\ UNCHANGED <<documents, log, results, groupVars, loop, draining, tasks, disruptions>>

\* The loop ends once its gather is over; tasks that nobody awaits are cancelled
\* with the event loop.
Exit(w) ==
    /\ draining[w]
    /\ loop[w] \in {"poll", "commit", "backoff"}
    /\ loop' = [loop EXCEPT ![w] = "down"]
    /\ draining' = [draining EXCEPT ![w] = FALSE]
    /\ pool' = [pool EXCEPT ![w] = "none"]
    /\ tasks' = tasks \ TasksOf(w)
    /\ UNCHANGED <<documents, results, log, groupVars, disruptions>>

-----------------------------------------------------------------------------
(* The loop of a worker *)

\* Mutant: the position may pass the end of the partition.
FetchablePastEnd(w, q) == IF owner[q] = w THEN Len(log[q]) + 1 - position[q] ELSE 0

Fetchable(w, q) == IF owner[q] = w THEN Len(log[q]) - position[q] ELSE 0

\* Tells apart the tasks of a record that is delivered again.
FreeCopy(q, i) ==
    LET used == {t.copy : t \in {u \in tasks : u.part = q /\ u.at = i}}
    IN  CHOOSE n \in 0 .. Cardinality(used) : n \notin used

NewTask(w, q, i) ==
    [worker |-> w, part |-> q, at |-> i, copy |-> FreeCopy(q, i), pc |-> "waiting",
     awaited |-> TRUE]

\* One handle_record per record taken after the current positions.
Batch(w, take) ==
    UNION {{NewTask(w, q, position[q] + i) : i \in 1..take[q]} : q \in Partitions}

\* getmany returns at most MaxPoll records of the partitions it owns, and moves
\* their positions.  (An empty poll changes nothing.)
Poll(w) ==
    /\ loop[w] = "poll"
    /\ ~draining[w]
    /\ \E take \in [Partitions -> 0..MaxPoll] :
          /\ \A q \in Partitions : take[q] > 0 => take[q] <= Fetchable(w, q)
          /\ Cardinality(Batch(w, take)) \in 1..MaxPoll
          /\ position' = [q \in Partitions |-> position[q] + take[q]]
          /\ tasks' = tasks \union Batch(w, take)
    /\ loop' = [loop EXCEPT ![w] = "gather"]
    /\ UNCHANGED <<documents, results, log, owner, committed, group, pool, draining, disruptions>>

\* Mutant: the tasks are started but not awaited.
GatherNothing(w) ==
    /\ loop[w] = "gather"
    /\ loop' = [loop EXCEPT ![w] = "commit"]
    /\ UNCHANGED <<documents, log, results, groupVars, pool, draining, tasks, disruptions>>

Gathered(w) ==
    /\ loop[w] = "gather"
    /\ Awaited(w) = {}
    /\ loop' = [loop EXCEPT ![w] = "commit"]
    /\ UNCHANGED <<documents, log, results, groupVars, pool, draining, tasks, disruptions>>

\* Mutant: one past the position is committed.
CommitNext(w) ==
    /\ loop[w] = "commit"
    /\ ~draining[w]
    /\ committed' = [q \in Partitions |-> IF owner[q] = w THEN position[q] + 1 ELSE committed[q]]
    /\ loop' = [loop EXCEPT ![w] = "poll"]
    /\ UNCHANGED <<documents, results, log, owner, position, group, pool, draining, tasks, disruptions>>

\* consumer.commit(): the positions of what is assigned now.
Commit(w) ==
    /\ loop[w] = "commit"
    /\ ~draining[w]
    /\ committed' = [q \in Partitions |-> IF owner[q] = w THEN position[q] ELSE committed[q]]
    /\ loop' = [loop EXCEPT ![w] = "poll"]
    /\ UNCHANGED <<documents, results, log, owner, position, group, pool, draining, tasks, disruptions>>

CommitFails(w) ==
    /\ "broker" \in WorkerFaults
    /\ loop[w] = "commit"
    /\ loop' = [loop EXCEPT ![w] = "backoff"]
    /\ UNCHANGED <<documents, log, results, groupVars, pool, draining, tasks, disruptions>>

\* After an exception the loop sleeps a second and polls on: its positions stay
\* where they are.
Resume(w) ==
    /\ loop[w] = "backoff"
    /\ loop' = [loop EXCEPT ![w] = "poll"]
    /\ UNCHANGED <<documents, log, results, groupVars, pool, draining, tasks, disruptions>>

-----------------------------------------------------------------------------
(* handle_record and process_event *)

HasPool(t) == pool[t.worker] # "none"

\* Can a statement of task t raise, and can it succeed?
MayFail(t) == "db" \in WorkerFaults \/ pool[t.worker] = "closing"
MaySucceed(t) == pool[t.worker] = "open"

\* Only document ids survive uuid.UUID(...).
Nameable(t) == JobOf(t).kind = "document"

Advance(t, step) == tasks' = (tasks \ {t}) \union {[t EXCEPT !.pc = step]}
Finish(t) == tasks' = tasks \ {t}
LoopsGoOn == UNCHANGED <<log, groupVars, loop, pool, draining, disruptions>>
NoEffect == UNCHANGED <<documents, results>>

SetStatus(d, status) == documents' = [documents EXCEPT ![d].status = status]

\* Mutant: the semaphore lets one task too many in.
BeginPastPermits(t) ==
    /\ t.pc = "waiting"
    /\ Cardinality(Running(t.worker)) <= Concurrency
    /\ Advance(t, "consume")
    /\ NoEffect /\ LoopsGoOn

Begin(t) ==
    /\ t.pc = "waiting"
    /\ Cardinality(Running(t.worker)) < Concurrency
    /\ Advance(t, "consume")
    /\ NoEffect /\ LoopsGoOn

\* Without a pool every mark_... returns at once and the record counts as done.
PassUnrecorded(t) ==
    /\ t.pc \in {"consume", "check", "mark", "save", "retry", "report"}
    /\ ~HasPool(t)
    /\ Finish(t)
    /\ NoEffect /\ LoopsGoOn

\* The KAFKA_CONSUMED event, then has_completed: exceptions of both are caught
\* by handle_record, outside the try of process_event.
Consume(t) ==
    /\ t.pc = "consume"
    /\ Nameable(t) /\ MaySucceed(t)
    /\ Advance(t, "check")
    /\ NoEffect /\ LoopsGoOn

SkipCompleted(t) ==
    /\ t.pc = "check"
    /\ MaySucceed(t)
    /\ JobOf(t).of \in results
    /\ Finish(t)
    /\ NoEffect /\ LoopsGoOn

Check(t) ==
    /\ t.pc = "check"
    /\ MaySucceed(t)
    /\ JobOf(t).of \notin results
    /\ Advance(t, "mark")
    /\ NoEffect /\ LoopsGoOn

FailEarly(t) ==
    /\ HasPool(t)
    /\ \/ t.pc \in {"consume", "check"} /\ MayFail(t)
       \/ t.pc = "consume" /\ ~Nameable(t)
    /\ Advance(t, "report")
    /\ NoEffect /\ LoopsGoOn

\* mark_processing_started, whatever the status was.
StartProcessing(t) ==
    SetStatus(JobOf(t).of, "PROCESSING") /\ UNCHANGED results

\* Mutant: the status is written without the result.
SaveStatusOnly(t) == SetStatus(JobOf(t).of, "COMPLETED") /\ UNCHANGED results

\* save_result: the result (unless there is one) and the status, in one transaction.
SaveResult(t) ==
    /\ results' = results \union {JobOf(t).of}
    /\ SetStatus(JobOf(t).of, "COMPLETED")

Mark(t) ==
    /\ t.pc = "mark"
    /\ MaySucceed(t)
    /\ StartProcessing(t)
    /\ Advance(t, "save")
    /\ LoopsGoOn

Save(t) ==
    /\ t.pc = "save"
    /\ MaySucceed(t)
    /\ SaveResult(t)
    /\ Finish(t)
    /\ LoopsGoOn

\* Inside the try: the transaction, or the append_event after it, raises.
FailProcessing(t) ==
    /\ MayFail(t)
    /\ \/ t.pc \in {"mark", "save"} /\ HasPool(t) /\ NoEffect
       \/ t.pc = "mark" /\ StartProcessing(t)
       \/ t.pc = "save" /\ SaveResult(t)
    /\ Advance(t, "retry")
    /\ LoopsGoOn

\* The payload of a record never carries a retry_count, so this is always the first.
RetryCount == 1

RecordFailure(t) ==
    documents' = [documents EXCEPT
        ![JobOf(t).of].status = IF RetryCount < MaxRetries THEN "RETRYING" ELSE "FAILED",
        ![JobOf(t).of].retries = RetryCount]

\* mark_retry or mark_failed; process_event re-raises either way, also when the
\* bookkeeping itself raises.
Retry(t) ==
    /\ t.pc = "retry"
    /\ HasPool(t)
    /\ \/ RecordFailure(t)
       \/ MayFail(t) /\ UNCHANGED documents
    /\ UNCHANGED results
    /\ Advance(t, "report")
    /\ LoopsGoOn

\* The except branch of handle_record appends PROCESSING_FAILED and swallows the
\* exception.
Report(t) ==
    /\ t.pc = "report"
    /\ Nameable(t) /\ MaySucceed(t)
    /\ Finish(t)
    /\ NoEffect /\ LoopsGoOn

\* That append_event raises in turn: the exception leaves handle_record and ends
\* the gather, without waiting for the other tasks.
Escape(t) ==
    /\ t.pc = "report"
    /\ HasPool(t)
    /\ \/ MayFail(t)
       \/ ~Nameable(t)
    /\ IF t.awaited
       THEN /\ tasks' = {[u EXCEPT !.awaited = @ /\ u.worker # t.worker] : u \in tasks \ {t}}
            /\ loop' = [loop EXCEPT ![t.worker] = "backoff"]
       ELSE Finish(t) /\ UNCHANGED loop
    /\ NoEffect
    /\ UNCHANGED <<log, groupVars, pool, draining, disruptions>>

-----------------------------------------------------------------------------
Process(t) ==
    \/ Consume(t) \/ SkipCompleted(t) \/ Check(t) \/ FailEarly(t) \/ PassUnrecorded(t)
    \/ Mark(t) \/ Save(t) \/ FailProcessing(t) \/ Retry(t) \/ Report(t) \/ Escape(t)

Step(t) == Begin(t) \/ Process(t)

Run(w) == Poll(w) \/ Gathered(w) \/ Commit(w) \/ CommitFails(w) \/ Resume(w)

Shutdown(w) == StopConsumer(w) \/ SignOff(w) \/ ClosePool(w) \/ Exit(w)

PoolNext ==
    \/ Rebalance
    \/ \E w \in Workers : Start(w) \/ Crash(w) \/ Shutdown(w) \/ Run(w)
    \/ \E t \in tasks : Step(t)

Spec == Init /\ [][PoolNext]_vars

-----------------------------------------------------------------------------
(* Properties *)

\* Has the group's committed offset passed record i of partition q?
Passed(q, i) == i <= committed[q]

RecordsOf(d) ==
    UNION {{<<q, i>> : i \in {j \in DOMAIN log[q] : log[q][j] = Doc(d)}} : q \in Partitions}

\* Some record of d is still to be delivered, or a task works on one.
StillDue(d) ==
    \/ \E r \in RecordsOf(d) : ~Passed(r[1], r[2])
    \/ \E t \in tasks : JobOf(t) = Doc(d)

\* A document is COMPLETED only with its result in processing_results, whatever
\* statement fails and whoever else works on it.
CompletedHasResult ==
    \A d \in Stored(documents) : documents[d].status = "COMPLETED" => d \in results

\* An offset is committed only when every document before it has its result or
\* its final failure: no batch is committed over work in flight.
CommittedIsHandled ==
    \A q \in Partitions : \A i \in DOMAIN log[q] :
        Passed(q, i) /\ log[q][i].kind = "document" =>
            LET d == log[q][i].of IN d \in results \/ documents[d].status = "FAILED"

\* The fetch position never falls behind the committed offset, and the group never
\* commits past the end of a partition.
PositionsInOrder ==
    \A q \in Partitions : committed[q] <= position[q] /\ position[q] <= Len(log[q])

\* No rebalance or late commit of a former owner moves a committed offset back.
CommitsMoveForward ==
    [][\A q \in Partitions : committed'[q] >= committed[q]]_vars

\* DESIGN_DOCUMENT.md:130: "Retries failures up to the configured maximum of 3
\* attempts": a document left in RETRYING is still going to be delivered.
RetryingIsDue ==
    \A d \in Stored(documents) : documents[d].status = "RETRYING" => StillDue(d)

=============================================================================
