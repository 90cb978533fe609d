# A TLA+ model of the high-throughput ingestion service

Audit reports are posted to a FastAPI service, numbered and stored in
PostgreSQL, their bytes kept in a content-addressed blob store, announced in a
Kafka topic, and processed by a consumer group of workers. This directory
models the parts that make those promises (`src/api`, `src/worker`,
`src/database`), the dashboard process with its load tests and batches, and the
console page that polls it (`src/dashboard`), checks small instances of them
with TLC and proves most of the safety properties with TLAPS for every size of
the system.

To check a run: `tlc -config MCIngestApiRaces.cfg MCIngestApi` (each `.cfg`
belongs to the `MC` module whose name it starts with). To check the proofs:
`tlapm IngestApiProofs.tla`, and likewise the other `...Proofs` modules.

## 1. Inventory

| Component | State | Operations | What makes it hard |
|---|---|---|---|
| Ingestion handler, `api/src/main.py`, `repository.py` | rows of `documents`, an advisory lock per agency, `local_idemp_cache` per process, the local variables of every request | `ingest_audit_report`, `create_or_get`, `update_document_metadata`, `append_event`, `lifespan` | two uvicorn processes interleave at every `await`; commit and send are not atomic; any exception of the repository falls back to process-local caches |
| Event producer, `producer.py` | the accumulator of aiokafka, the mock mode | `send_audit_event` | a send that raises with its record buffered, repeated batches, a process that dies with records buffered |
| Admission control, `limiter.py` | `current_limit`, `in_flight`, token buckets, per process | `acquire`, `release`, `check_agency_limit` | slots must return on every early exit; arithmetic at the boundaries |
| Blob store, `storage.py` | the blob directory, the MinIO bucket | `save_document` | several processes write one file; uploads fail half-way |
| Worker consumer, `worker/src/consumer.py` | fetch positions, running tasks, the consume loop, `draining` | `_consume_loop`, `handle_record`, `start`, `stop` | concurrent tasks under one `gather`; rebalances between poll and commit; shutdown beside the loop |
| Processor, `processor.py`, `repository.py` | `documents.status`, `processing_results` | `process_event`, `mark_...`, `save_result` | two deliveries of one record at once; the retry path |
| Dashboard load tests, `dashboard/src/app.py` | `performance_tests` in memory, rows of `load_test_runs`, the counters of a burst | `start_performance_test`, `run_performance_test`, `_run_timed_burst` | a test lives in two places; `gather` over many requests; failing UPDATEs; tasks forgotten on restart |
| Dashboard batches, `app.py` | `batches` in memory | `start_batch`, `send_reports` | a request is given up on and served all the same |
| Console, load test page, `static/app.js` | the buttons, `state.testPollInterval`, the timers, open requests, the result box | clicks, `pollTestRun`, `resetLoadTestControls` | intervals that overlap and cannot be cleared any more; late and lost answers; a dashboard that forgets |
| Worker registry, `consumer.py`, `repository.py` | `worker_status`, `current_state`, `current_document_id`, `active_jobs` | `register_worker`, `heartbeat_worker`, `stop` | attributes shared by concurrent tasks; an UPDATE that lands after its task was cancelled |
| Job status, `main.py` | `local_job_cache` per process | `get_job_status` | which process can answer for which job |
| Health, metrics and telemetry endpoints, analyzer, scripts | none | read-only queries, scoring | little |

How they interact: a request passes admission control, the blob store,
`create_or_get`, the producer, and then updates its row. The API and the
workers share exactly two things, the table `documents` and the topic; workers
share the consumer group (owners, positions, committed offsets) among
themselves. The dashboard uses the API as any client does; the console knows the
dashboard only through its endpoints. `PROJECT.json` lists every component, the hazards with their source
lines, and the properties that stand against each hazard.

What correctness means for each:

- **handler**: an agency's documents are numbered 1..n; all that clients are told
  and the topic holds of an idempotency key names one document, and that document
  has a row; the lock is never left behind; every admitted request is answered;
- **admission**: slots neither leak nor double, the window of every agency stays
  within burst plus refill, an idle process takes requests;
- **blob store**: files are whole, returned paths lead to the bytes;
- **workers**: COMPLETED implies a result, no offset is committed over work in
  flight, offsets never move back, every document with a record in the topic is
  processed;
- **registry**: a worker tells of work it does;
- **job status**: every job id a client is given can be looked up where it was
  given;
- **load tests**: a verdict covers every request, PASS is earned, what GET tells
  only moves forward and a final state stands, every test ends;
- **batches**: never more counted than the API took, every batch ends;
- **console**: the controls come back, the verdict shown is the verdict told, the
  watch of a test ends.

## 2. Modules and their correspondence to the code

| Module | Models | Extends / instantiates |
|---|---|---|
| `DocumentTable` | the table's rows, its UNIQUE constraints, `MAX + 1`, job ids, records | |
| `IngestApi` | the handler from `create_or_get` to the reply, and the producer | `DocumentTable`; `IdempotentLedger` (refinement) |
| `IdempotentLedger` | abstract specification of `create_or_get`: each new key is appended once to its agency's ledger | |
| `WorkerPool` | workers and their consumer group | `DocumentTable` |
| `Pipeline` | API and workers over one table and one topic, with fairness | `IngestApi`, instance of `WorkerPool` |
| `Admission` | both limiters and the handler's use of them | |
| `BlobStore` | `save_document` | |
| `StatusApi` | `get_job_status` over the rows and the cached job ids | `IngestApi` |
| `WorkerRegistry` | what workers write about themselves | `WorkerPool` |
| `TestService` | abstract specification of `GET /api/performance-tests/{id}`: what is told of a test | |
| `LoadTest` | the dashboard's load tests | `TestService` (refinement) |
| `Batches` | the dashboard's batches | |
| `Dashboard` | both in one process, with restarts | `LoadTest`, instance of `Batches` |
| `Console` | the load test page of one browser tab | `TestService`, as the dashboard it talks to |
| `MC...` | the instances for TLC | |
| `IngestApiProofs` | lemmas and theorems of the table, the handler, the job cache and the ledger | `StatusApi` |
| `WorkerPoolProofs`, `RegistryProofs` | of the workers, and of what they tell about themselves | `WorkerPool`; `WorkerRegistry` |
| `PipelineProofs` | of the two together | `Pipeline`, `IngestApiProofs`, instance of `WorkerPoolProofs` |
| `AdmissionProofs`, `BlobStoreProofs`, `DashboardProofs`, `ConsoleProofs` | of the module each is named after | |

**Granularity.** Python code between two `await`s that touch shared state runs
without interruption within a process; a statement of PostgreSQL is atomic; a
transaction takes effect at its commit. So each `await` that reads or writes
shared state ends an action, and everything up to it belongs to the action.

**IngestApi.** `pc[s]` is where submission `s` stands: `select`, `lock`,
`number`, `insert` are the four statements of `create_or_get`
(repository.py:67-76), `publish` is the call of `send_audit_event`, `record` the
UPDATE of the metadata with the two events after it, `respond` the reply. With a
broker a handler ends at `publish`: the `send` of aiokafka 0.11.0 that producer.py:74
awaits returns a Future as soon as the record is buffered (`send_and_wait` is
what waits for the broker), producer.py:80 reads `metadata.topic` of it, a Future
has no such attribute, and the exception goes to the global handler, which
answers 429. The record stays buffered and is written later. So `Publish`
buffers and fails, `record` and `respond` with ACCEPTED are reached in mock mode
only (`PublishNowhere`), and `PublishFails` is a `send` that raises by itself,
with nothing buffered. `Insert` is INSERT plus COMMIT, which also
releases the advisory lock. The failure actions are `TransactionFails` (a
statement raises and all is rolled back), `CommitUnacknowledged` (the commit
takes effect, the handler sees an exception), `InsertConflicts` (the UNIQUE
constraint): all three enter `Fallback`, the `except` branch at main.py:300.
`RecordFails` and `RecordRejectsLocal` end in the global exception handler,
too. `Crash` drops what a process holds in memory,
`Start` chooses what the process can reach: `lifespan` decides once whether it
runs with a database and with a broker. `Flush`, `FlushAgain` and `Expire` are
the sender task of aiokafka. Submissions identify rows, because each row's UUID
is drawn by the one submission that inserts it.

**WorkerPool.** `loop[w]` is where `_consume_loop` stands, `tasks` the running
`handle_record` tasks of all workers. `Escape` is an exception that leaves
`handle_record`: `asyncio.gather` without `return_exceptions` stops waiting, so
the other tasks go on with `awaited = FALSE`. `StopConsumer` is the SIGTERM
handler, which runs beside the loop: it leaves the group and starts to close the
pool (`closing`: running statements finish or fail, new ones are refused);
`ClosePool` finishes that. `Rebalance` gives every partition to a live member
and resets its position to the committed offset. `FreeCopy` only tells apart the
tasks of a record that is delivered again.

**Pipeline** interleaves `ApiNext` and `PoolNext` over one `documents` and one
`log`, so that a worker may finish a document before its client has tried again
and been told of it. What it says of the workers' progress holds as long as
no made-up record has reached the topic (`FallbackPublished`), for the reason
given in section 6.

**Admission** counts time in ticks, tokens in units and the limit in fractions
of a slot, so that the floating-point arithmetic becomes exact. The smoothed
round-trip time enters only through its comparison with the target: every
release may find it below or above. `SetBack` is a correction of the clock that
`time.time()` reads before the lock of the buckets: the same time may then refill
a bucket twice, and `WindowBound` counts the time that clocks have shown.
`Observe` starts a window of an observer and belongs to no code.

**BlobStore** has one step per file operation: `OpenTemporary` creates the
temporary file, empty; `WriteTemporary` fills it; `Replace` moves whatever it
holds to the final name, atomically. `temp` is what each temporary file holds;
`Tmp` is its name, which a uuid makes the request's own. `unwritten` remembers the
requests whose local write failed, because the code swallows that. A power
failure that loses what the kernel has not yet written is not modelled.

**LoadTest.** `task[t]` is where a test stands: `insert` in the POST handler,
then the background task with one label per `await` (`begin`, `mark`, `burst`,
`persist`, `failed`). The nested functions of the burst share its counters
(`tally`); `open` are the requests `gather` waits for. `Gathered` is everything
from the last answer to the next `await`: statistics, verdict and the update of
the entry in memory. `RequestRaises` is an exception `send_single` does not
catch, and `GatherRaises` the `except` at app.py:368, which does not wait for
the other requests. Each statement may fail before or after it took effect
(`InsertFails`, `PersistFails`, the second disjuncts of `MarkRunning` and
`PersistFailure`). `Persist` leaves the row alone when nothing was answered: the
percentiles are then None and the columns NOT NULL. The pace of the requests is
left out, and a p95 latency is only on time or not.

**TestService and Console.** What the dashboard tells of a test has a rank:
preparing, running, final. `Tell` raises the rank in memory, `Store` copies what
memory tells into the row, `Restart` leaves the row only, and `Get` is the GET
handler: memory first, then the table. `LoadTest` implements it under the mapping
at its end (`Stage`, `Offered`), so `Console` can use it in place of the whole
dashboard, with `Outcomes` for the final entries. In `Console` every callback
of app.js runs to its next await. `interval` is `state.testPollInterval`, which
knows the newest interval only; `live` are the intervals that still fire.
`Tick`, `Answer`, `Lose` and `Arrive...` are the life of one GET; `Arrive...` is
everything the callback does after its await, for each answer. `threw` marks the one
exception that matters: `updatePerformanceScorecard` on a p95 of null.

**Batches.** One action per await of `send_reports`. `Take` and `Refuse` belong to
the API; `PostFails` is the timeout or broken connection, and a request whose
client is gone is `adrift`: the API may still take it (`TakeLate`).

**WorkerRegistry** adds to each action of `WorkerPool` what it does to the
attributes of the worker. A heartbeat reads them in `Beat` and writes them in
`BeatLands`. `stop()` cancels the task and does not await it (consumer.py:230), and
the UPDATE under way has a connection of its own: it may land after the row is
marked DRAINING, or fail, as long as the pool has not taken the connection back
(`CloseConnections`), and after a crash as well (`CrashUnnoticed`). `IdOf` gives
each container its `WORKER_ID`.

**StatusApi.** `local_job_cache` is filled by the handler (`jobCache` of `IngestApi`,
`Remember`) and gone with its process; the endpoint itself changes nothing and is
the operator `GetJob`.

Abstractions. Columns that no decision reads (names, checksums, offsets,
timestamps) are left out. `processing_events` is reduced to the failures of its
statements. In `IngestApi` the limiters, the size check and the blob store are
one action `TurnAway`; they have their own modules. A batch of the producer is
written record by record. What `aiokafka`'s `send` returns is taken from version
0.11.0, which api/requirements.txt pins; no test of the repository runs it against
a broker.

## 3. Runs

| Run | Question | Bounds |
|---|---|---|
| `MCIngestApiRaces` | Do numbering, locking and publication survive every interleaving and a crash? | 3 submissions, 2 keys, 2 agencies on 2 partitions, 2 processes, 1 crash |
| `MCStatusApi` | Does all that is said of a key name one document, and what does ACCEPTED guarantee, when statements, commits, sends and processes fail and a process may lack database or broker? Does the handler implement the ledger? Can every job id be looked up? | 2 submissions, 2 keys, 2 agencies on 2 partitions, 2 processes in all modes, 1 crash |
| `MCIngestApiForgotten` | Is a document that the retry is told is queued ever published? (No, section 6.) | 2 submissions, 1 process |
| `MCIngestApiRefused` | With a healthy broker, is the client of a published document told 202? (No.) | 2 submissions, 1 process |
| `MCWorkerPoolDisruptions` | Do offsets stay right when a crash, shutdown, rebalance or failing commit comes at any moment? | 2 workers with a permit each, 2 partitions, a document with two records, 1 disruption |
| `MCWorkerPoolRetrying` | Is a RETRYING document retried? (No.) | 1 worker, 1 record |
| `MCWorkerRegistry` | Does a worker tell the truth about its work, and does COMPLETED mean a result, while statements fail and a document is delivered twice? | 1 worker with 2 permits, a document with two records and a made-up job, 1 disruption |
| `MCPipelineLive` | Is every admitted request answered and every published document processed? Is a QUEUED document with a record never forgotten? | 2 submissions of one key, 1 API crash, 1 worker disruption |
| `MCAdmission` | Limits, slots and tokens | 4 requests for at most 3 slots, 7 ticks (two refill periods), burst 2, 1 setback of the clock |
| `MCBlobStore` | Whole and readable files | 3 requests, 2 blobs, 2 processes |
| `MCDashboard` | What is a verdict worth, in memory and in the table, does the load test implement `TestService`, and do tests and batches end? | a test of 4 requests and a batch of 2 reports, all answers and failures, 1 restart with or without database |
| `MCConsole` | Do the controls come back, does the verdict stand, does polling end? | 2 tests, one open GET per interval, three outcomes, 1 restart of the dashboard |

Why the bounds are enough to be interesting. Races on a key need two
submissions, a race on a number while a key repeats needs three; two processes
separate what is shared (table, topic) from what is not (caches, buffers). Two
agencies with a partition each show a record in the wrong partition or a number
from the wrong agency. One crash suffices to lose a lock holder, a buffered
record or an unacknowledged one. For the workers, one repeated record gives two
concurrent deliveries of a document to one or two workers, and the batch limit
lets one batch span both partitions. In `MCAdmission` there are more requests
than slots, the burst empties and refills, and the limit reaches both of its
ends. In `MCWorkerRegistry` two permits let two tasks overwrite each other's
attributes and the two records give two deliveries of one document at once; one
disruption stops the worker, kills it or takes its partition, and the made-up
job gives a heartbeat that cannot be written and a task that escapes its gather. In `MCDashboard` four
requests are the least for which three in four can be accepted with one
rejected; a batch of two can have one report taken and one adrift. In
`MCConsole` two tests are what it takes for an answer of the old one to meet the
interval of the new one, and for an interval nobody can clear; a second open GET
of the same interval would only deliver an older answer of a test whose answers
move forward. What small bounds cannot show is what section 5 proves.

`CHECK_DEADLOCK FALSE` is set where the system really may stop: all submissions
answered, all workers down. `MCAdmission` never stops, since a process can
always restart, and checks for deadlock.

Symmetry is used in safety runs only, over sets whose members nothing in the
configuration tells apart.

## 4. Fairness

`MCDashboard` assumes that a load test or a batch which can take a step eventually
does (`DashboardFairness`): the event loop runs ready tasks, and a request that
hears nothing ends with its timeout (10 seconds for a test, app.py:468; 20 for a
batch, app.py:142). Nothing is assumed of failures, restarts or new tests.

`MCConsole` assumes (`ConsoleFairness`) that tests go on, which is what `TestEnds`
says of the dashboard; that an interval that lives fires and an answer that has
arrived is handled, which the browser's event loop does; and, strongly, that the
GET of an interval is answered again and again unless it is no longer sent: a
request repeated every second is not lost each time. Nothing is assumed of
clicks.

`MCPipelineLive` assumes `PipelineFairness`:

- every handler that can take a step eventually does: the event loop runs ready
  tasks, PostgreSQL serves a lock's queue. A blocked `TakeLock` needs only weak
  fairness here because in this instance the lock is not passed around for ever
  (each submission takes it once);
- the sender task of the producer writes what is buffered;
- the group rebalances when members come or go (not the unprompted rebalances,
  which `disruptions` excludes from the fair action);
- a worker's loop, its shutdown and its tasks run; `\E t` expresses that *some*
  task of a worker runs, and each of them has finitely many steps;
- when no worker is left one is started. No code does this and the compose file
  has no restart policy: it is what the operator is assumed to do.

There is no fairness on crashes, failures, requests, restarts of the API, or
`Start` of a second worker.

The liveness run has no failing statements: with them a document may end in
RETRYING for ever, which is the finding of `MCWorkerPoolRetrying`, and a
published document is then not processed. Nor does a batch of that run go on
after its gather was abandoned: what such a batch does to the permits of the
worker is in `MCWorkerRegistry`, which has no liveness property.

## 5. Proofs

TLAPS checks these theorems for every value of the constants that meets the
named assumptions (any number of submissions, keys, agencies, processes,
workers, any limits, every set of faults).

| Theorem | Module | Statement |
|---|---|---|
| `TypesHold` | `IngestApiProofs`, `WorkerPoolProofs`, `AdmissionProofs`, `BlobStoreProofs` | `[]TypeOK` |
| `LockDisciplineHolds`, `NumberStillFreeHolds`, `SequenceDenseHolds` | `IngestApiProofs` | the numbering of documents |
| `PublishedIsCommittedHolds`, `AcceptedOncePerKeyHolds`, `OneDocumentPerKeyHolds`, `AcceptedNamesARowHolds` | `IngestApiProofs` | records, rows and replies, whatever fails |
| `PublishedOnceHolds`, `PhantomHasTwinHolds` | `IngestApiProofs` | no record twice, no made-up job without a twin; each under the faults it names |
| `AnswerIsFindableHolds` | `IngestApiProofs` | every job id given to a client can be looked up |
| `ImplementsLedger` | `IngestApiProofs` | `Spec => LedgerSpec`, the refinement |
| `PositionsInOrderHolds`, `CommitsMoveForwardHold`, `CompletedHasResultHolds` | `WorkerPoolProofs` | offsets and results |
| `CommittedIsHandledHolds` | `WorkerPoolProofs` | nothing is committed over work in flight, while no statement fails |
| `RegistryTypesHold`, `WorkIsToldHolds`, `CompletedHasResultInRegistry` | `RegistryProofs` | what a worker tells of its work |
| `SequenceDenseInPipeline`, `PublishedIsCommittedInPipeline`, `AcceptedOncePerKeyInPipeline`, `OneDocumentPerKeyInPipeline`, `LedgerSpecInPipeline` | `PipelineProofs` | the API beside its workers |
| `CompletedHasResultInPipeline`, `PositionsInOrderInPipeline`, `CommitsMoveForwardInPipeline` | `PipelineProofs` | the workers beside the API |
| `QueuedIsWaitingHolds` | `PipelineProofs` | a QUEUED document whose record is in the topic is not forgotten, while the workers' statements succeed |
| `PublishedIsDueHolds` | `PipelineProofs` | a document with a record in the topic has its result or is still due, whatever fails in the API |
| `WindowBoundHolds`, `BudgetHolds`, `InFlightIsExactHolds`, `InFlightBoundedHolds`, `IdleTakesRequestsHolds` | `AdmissionProofs` | the limiters |
| `WholeFilesHold`, `SavedIsReadableHolds` | `BlobStoreProofs` | the blob store |
| `DashboardTypesHold`, `CompletedTestsAreWhole`, `PassesAreEarned`, `BatchesAreCounted` | `DashboardProofs` | verdicts and counters |
| `DashboardIsAService` | `DashboardProofs` | `DashboardSpec => ServiceSpec`, the refinement |
| `ConsoleTypesHold`, `ControlsComeBackHolds`, `VerdictStandsHolds` | `ConsoleProofs` | the load test page |

Assumptions: the constants are of their kinds (fault sets are known faults,
bounds are naturals, `None` is none of the values it stands beside); each is an
ASSUME of the module that declares the constant, and TLC evaluates it. For the
limiters, `MinLimit >= 1`, `2 * MinLimit <= MaxLimit` and `beta <= 1`, as
the defaults of limiter.py satisfy. For the workers, that the number of
partitions is finite, that the rows of the API start QUEUED, and
`TopicIsCommitted`, that a record of a document has its row, which is what
`PublishedIsCommittedHolds` proves of the API; in `Pipeline` the topic starts
empty and nothing is assumed of it.

Five theorems have a hypothesis of their own, because without it the property is
false of the code. Each is met by the run that checks the property, and
`MCPipelineLive` meets that of `PublishedIsDueHolds`.

| Theorem | Hypothesis | What breaks it otherwise |
|---|---|---|
| `PublishedOnceHolds` | the broker does not fail (`"broker"` is no fault) | a batch whose acknowledgement is lost is written again (`FlushAgain`) |
| `PhantomHasTwinHolds` | `DatabaseAnswers`: no process starts without database, no statement fails | any exception of the repository sends the handler to its caches |
| `CommittedIsHandledHolds` | `NoStatementFails` and `TopicHasNoFallback` | an exception ends the gather early and the commit follows: section 6 |
| `QueuedIsWaitingHolds` | `WorkersReachTables`: the workers' statements succeed and every worker starts with its pool | the same, and the worker without a pool |
| `PublishedIsDueHolds` | `WorkersReachTables` | the same |

Arguments.

- *Numbering* (`CreateInv`). `SequenceDense` alone is not inductive: an insert
  keeps it only if its number is still the next one. `NumberStillFree` says so,
  and is kept because whoever has a number holds the agency's lock
  (`LockDiscipline`) until the row is committed or the transaction is gone.
  `NotYetInserted` excludes a second insert of one submission. The maximum of
  a set is handled by the lemmas at the head of `IngestApiProofs`: the maximum of `1..n` is `n`, and
  an insert of `n + 1` turns `1..n` into `1..n + 1`.
- *Publication* (`ReplyInv`) adds what the handler may rely on after each await:
  a buffered or published record of a document has its row
  (`BufferedIsCommitted`), only a real document id gets past the UPDATE
  (`RecordedIsDocument`), rows say what their submissions asked for, and an
  accepted document is the submission's own row (`AcceptedIsOwn`). With the
  UNIQUE constraint (`NoKeyTwice`) there is one accepted document per key. For
  `OneDocumentPerKey`, `RepliesNameRows` says of every document named in a reply
  that it has a row with the key the reply answers.
- *No record twice* (`OnceInv`). A job id is in the topic or in a buffer at most
  once, and not at all while its submission can still send it. With a broker that
  answers, the only way to a second record would be a second send by the same
  handler or a send of the same id by another one.
- *Made-up jobs* (`PhantomInv`). With a database that answers, a handler leaves
  `create_or_get` for its caches only through the UNIQUE constraint, so at that
  moment another submission has the row of the key (`TwinOf`). Rows are never
  deleted, so the twin is still there when the reply goes out.
- *Job ids* (`CacheInv`). An id is remembered in the process that answers with it,
  before the reply and until the process dies; ids of documents have rows.
- *Refinement*. The ledger of an agency is the sequence of keys in the order of
  their numbers; by `CreateInv` an insert appends at the end and no other step
  changes it, in particular not the UPDATEs of a status.
- *Workers* (`OffsetInv`, `TasksInv`). A commit copies a position that is not
  behind; a rebalance copies the committed offset back into the position;
  reading stops at the end of the partition. For the results, tasks that write
  hold the name of a document (`TasksOK`), whose row exists, and each write
  keeps COMPLETED bound to the result (`RowsOK`).
- *Committed work* (`HandledInv`). `CommittedIsHandled` speaks of offsets below
  `committed`; what has to be known is the fate of every record below `position`.
  Each has its result, or is under way in a batch that the owner of the partition
  still awaits (`UnderWay`), so that the loop can reach its commit only when
  the results are there. A crash, a stop or a rebalance throws the tasks away but
  also the position, back to the committed offset. That no task escapes its gather
  is where the hypotheses enter.
- *Registry* (`RegistryInv`). `active_jobs` is the cardinality of the set of tasks
  holding a permit, so that each step must be shown to add or remove exactly one
  member: `TasksApart` says that a record and the number of its copy identify a
  task of a worker and that only a worker that is up has tasks. `ToldInv` adds
  that the document named is one that a task is working on, when there is one.
- *Pipeline* (`PipelineInv`). The invariants of the two sides, each shown to survive
  the steps of the other: the workers only change a status and a retry count, which
  no conjunct of `ReplyInv` reads, and the API only adds rows, appends to the topic and
  writes QUEUED. The lemmas of `WorkerPoolProofs` are used through an instance
  (`PP`) for the workers' own steps. `HandledInv` is carried along as long as no
  made-up record is published (`CleanInv`). By the lemma `RecordIsDue` a record in
  the topic then has its result or is still due, which gives `QueuedIsWaiting`
  and `PublishedIsDue`. The latter is the safety half of `PublishedIsProcessed`,
  for every size and with every fault of the API; TLC adds only that what is due
  gets done.
- *Limiters* (`BucketInv`, `SlotInv`). `WindowBound` is not inductive: a full
  bucket at the end of a window would admit another burst. `Budget` counts the
  tokens in hand against the window, too.
- *Blob store* (`BlobInv`). A rename keeps files whole only if what it moves is
  whole: `WrittenFirst` says that a request about to rename has filled its own
  temporary file, and no other request can reopen it, because names differ
  (`Tmp`). With one temporary name per checksum the invariant fails. A request at
  its upload has replaced the file or recorded the failure.
- *Dashboard* (`LoadInv`, `BatchesInv`). That a completed test is whole is not
  inductive: the invariant ties the label of the task to what memory and row say
  (`MemoryFollows`, `RowFollows`), says that answers and open requests add up to
  the requests sent as long as none has raised (`Accounted`), and that a test told
  COMPLETED has left its burst, so that nothing it was concluded from changes any
  more (`Settled`, which keeps for PASS the very condition `Pass`). `Linked` says
  that a task with a statement to run has a pool. For the refinement every step
  of a test is one of four things it may do to what is shown: `Launch`, a `Tell`
  of higher rank, a `Store` of what memory tells, an `End`, or nothing. A batch
  counts a report after the API took it: between the two it is in the sender's
  hands (`sender[b] = "taken"`), which `BatchInv` adds to the balance.

- *Console* (`ConsoleInv`). `VerdictStands` compares what is shown with what the
  dashboard tells now, so the invariant is about answers on their way: a final
  answer agrees with whatever the dashboard tells of its test from then on
  (`Stands`), through memory, the row, and a restart that leaves only the row
  (`ServiceInv`); `PageInv` says so of every answer that has arrived and of
  the box. `ControlsComeBack` is inductive once `ControlTypes` says that the handle
  of the page names an interval that fires and that only tests whose POST was
  answered have one.

Only model-checked: the liveness properties `AdmittedIsAnswered`,
`PublishedIsProcessed`, `TestEnds`, `BatchEnds` and `WatchEnds`. Liveness
under fairness and ENABLED are outside the prover's reach, as is induction over
recursively defined data; no module needs recursion. The properties of the three
violation runs are false of the code and have no theorem. Every other property of a run is a theorem.

## 6. Disagreements between code and documents

Three runs expect a violation; `PROJECT.json` quotes the documents.

- `DuplicateIsQueued`: a send that fails leaves a committed row; the client's
  retry is told that the document is queued, and nothing ever publishes it.
- `PublishedIsAccepted`: with a broker every new submission is answered 429 though
  its record is published (producer.py:80, section 2). README.md:27 promises 202,
  README.md:29 keeps 429 for saturation, and tests/test_idempotency.py:31 asserts
  202, in a process without a broker.
- `RetryingIsDue`: RETRYING is only a word in the row; the exception is
  swallowed, the offset committed, and the record not delivered again.

Seen in the source, and partly in the models, but without a run of their own:

- *Handler.* The UPDATE to QUEUED and the two events after it (main.py:356-381) run
  in mock mode only, where there is nothing to be queued in. Two racing
  submissions of a key can put two records in the topic,
  where docs/RESULTS_AND_ANALYSIS.md:19 says that duplicates return the existing
  job "without re-queueing": the loser's INSERT raises,
  the `except` at main.py:300 falls back to a cache that does not know the key,
  and a made-up `job-...` id is published before the send raises
  (`PhantomHasTwin` says that this is the only way). The advisory lock of an
  agency ends with the commit and the send comes after (main.py:350), so two of
  its documents may be published in the other order, where README.md:32 promises
  "preserving agency sequence ordering". An ACCEPTED reply is said to be durable
  (dashboard/src/app.py:149), while the mock mode (producer.py:86) accepts without
  a broker and the cache fallback (main.py:302) without a database.
- *Job status.* A job answered from the cache is QUEUED for ever, a made-up one
  whatever happened to its record (`AnswerIsFindable` asks only that it is found).
- *Limits.* Buckets and limits are per process although README.md:114 gives one
  figure, so the whole API admits up to as many windows as it has processes; the
  documented ceiling of 250 is read by no code (limiter.py:72).
- *Blob store.* A retried upload finds the local file and never uploads
  (storage.py:51); a failed local write is swallowed (storage.py:59), so that the
  path returned may name no file: `SavedIsReadable` exempts these requests.
- *Workers.* A made-up record makes the statement in the `except` branch of
  `handle_record` raise (consumer.py:207), since its id is no uuid. That ends the gather of the batch, and the
  commit that follows passes the documents beside it while their tasks still run.
  A worker without a database commits what it has not processed
  (processor.py:32); a second delivery may set a COMPLETED row back to PROCESSING
  (processor.py:120), and if it crashes there, the next one finds the result and
  leaves the row PROCESSING; a failing statement in `stop()` leaves the pool open.
- *Registry.* The task that ends first sets IDLE while others go on
  (consumer.py:201); a crashed worker stays ACTIVE; a worker whose registration
  failed works unseen, because heartbeats only update; a heartbeat that lands
  after the DRAINING of consumer.py:235 leaves a stopped worker ACTIVE, and with a
  shared `WORKER_ID` (docker-compose.yml:151) that of another container does so at
  any time.
- *Load tests.* The result of a test without a single answer cannot be stored
  (app.py:359), and after a restart the row of an interrupted test stays
  RUNNING, where docs/RESULTS_AND_ANALYSIS.md:65 says that results are persisted; a
  redirect counts as accepted (app.py:484), and as a transport failure in
  `classify_load_test_status`; counters are not shown while a test runs
  (docs/RESULTS_AND_ANALYSIS.md:64 says they are), because the entry is
  updated when `gather` is done.
- *Console.* A late answer of an old test clears the interval of the newer one. A
  click on stop while the POST is open lets polling begin after "canceled", and
  another start then leaks that interval until its test ends; that of a
  test the dashboard has forgotten polls a 404 for ever. A test without
  percentiles leaves the controls to the stop button (`threw`). A late RUNNING
  answer can replace a verdict by "in progress". Stop ends the polling, not the
  test. The answer from memory has `actual_duration` where the page reads
  `actual_duration_seconds`.

## 7. Not modelled

The other pages of the console render what they fetch and keep no state between
callbacks. The telemetry, health and metrics endpoints aggregate figures of other
services and change nothing; `trigger_burst` posts a burst and counts its
answers without remembering them. The benchmark analyzer is pure scoring that the
Kafka path does not call. The scripts are command-line tools outside the system.
Making sample reports, the parsing of bodies and the layout of events are data the
properties do not tell apart. Time inside the handler (timeouts of `asyncpg` and
`aiokafka`) appears as the failures those timeouts cause.

## 8. Plan

Done: `DocumentTable`, `IngestApi`, `IdempotentLedger`, `StatusApi`; `WorkerPool`,
`WorkerRegistry`, `Pipeline`; `Admission`, `BlobStore`; `TestService`, `LoadTest`,
`Batches`, `Dashboard`, `Console`; their runs; the theorems of section 5.

Also proved since: every safety invariant that a run checks, the registry and the
console, and the components' theorems carried over to `PipelineSpec`.

Left, in this order:

1. `AcceptedNamesARow` for `PipelineSpec`, and the job ids of `StatusApi` beside
   workers that move the status on.
2. `WorkIsTold` beside the API, as part of one specification of the whole
   deployment, and a property of the permits that an abandoned batch still holds.
3. The safety half of the other liveness runs: what must be true of a state in
   which nothing but the environment can move (an admitted request answered, a
   test or a batch concluded), stated without ENABLED.
