----------------------------- MODULE IngestApi -----------------------------
(***************************************************************************)
(* The ingestion API: ingest_audit_report of api/src/main.py with the      *)
(* repository and the producer it calls, run by several uvicorn processes  *)
(* that share one PostgreSQL table and one Kafka topic.                    *)
(*                                                                         *)
(* Every `await` of the handler that touches shared state ends a step, so  *)
(* the steps of concurrent submissions interleave exactly where the event  *)
(* loop, or another process, can run.  A submission passes                 *)
(*                                                                         *)
(*   idle -> select -> lock -> number -> insert      create_or_get         *)
(*        -> publish                                 send_audit_event      *)
(*        -> record -> respond -> done               metadata, the reply   *)
(*                                                                         *)
(* and leaves early with a 200, 413 or 429.  With a broker it never gets   *)
(* past publish: send_audit_event buffers the record and raises, so record *)
(* and respond belong to the mock mode.  The admission control and the     *)
(* blob store in front of create_or_get have modules of their own; here    *)
(* they either let a submission through or turn it away.                   *)
(***************************************************************************)
EXTENDS DocumentTable

CONSTANTS
    Procs,          \* uvicorn worker processes: each has its own caches
    Faults,         \* which failures the environment may inject
    StartModes,     \* what a starting process can find available
    MaxCrashes      \* bound on the crashes of a behaviour

ASSUME FaultsAreKnown == Faults \subseteq {"db", "broker", "crash"}
ASSUME StartModesAreModes == StartModes \subseteq [db: BOOLEAN, kafka: BOOLEAN]
ASSUME NoneIsNoMode == None \notin [db: BOOLEAN, kafka: BOOLEAN]
ASSUME MaxCrashesIsNat == MaxCrashes \in Nat

VARIABLES
    pc,             \* where each submission stands in the handler
    call,           \* what each submission asks, and which process serves it
    seq,            \* job_state["sequence_number"], 0 before it is assigned
    job,            \* the handler's local job_id
    reply,          \* the HTTP reply, once sent
    lock,           \* holder of each agency's transaction-level advisory lock
    documents,      \* the table: row inserted by each submission, or None
    mode,           \* [db, kafka]: repository.pool / producer._connected; None when down
    idempCache,     \* local_idemp_cache of each process
    jobCache,       \* the job ids in local_job_cache of each process
    buffer,         \* each producer's accumulator, per partition
    log,            \* the topic, per partition
    crashes

apiVars == <<pc, call, seq, job, reply, lock, mode, idempCache, jobCache, buffer, crashes>>
vars == <<apiVars, documents, log>>

Call == [proc: Procs, key: Keys, agency: Agencies]
Active == {"select", "lock", "number", "insert", "publish", "record", "respond"}
Reply == [code: {200, 202, 429, 413}, job: Jobs \union {None}]

InFlight == {s \in Submissions : pc[s] \in Active}
On(p) == {s \in InFlight : call[s].proc = p}
Proc(s) == call[s].proc
PartitionFor(s) == PartitionOf[call[s].agency]
HasDb(s) == mode[Proc(s)].db
HasKafka(s) == mode[Proc(s)].kafka

\* Type correctness: every variable of the handler, of the table and of the producer.
TypeOK ==
    /\ pc \in [Submissions -> Active \union {"idle", "done", "lost"}]
    /\ call \in [Submissions -> Call]
    /\ seq \in [Submissions -> Nat]
    /\ job \in [Submissions -> Jobs \union {None}]
    /\ reply \in [Submissions -> Reply \union {None}]
    /\ lock \in [Agencies -> Submissions \union {None}]
    /\ documents \in [Submissions -> Row \union {None}]
    /\ mode \in [Procs -> [db: BOOLEAN, kafka: BOOLEAN] \union {None}]
    /\ idempCache \in [Procs -> [Keys -> Submissions \union {None}]]
    /\ jobCache \in [Procs -> SUBSET Jobs]
    /\ buffer \in [Procs -> [Partitions -> Seq(Jobs)]]
    /\ log \in [Partitions -> Seq(Jobs)]
    /\ crashes \in 0..MaxCrashes

Init ==
    /\ pc = [s \in Submissions |-> "idle"]
    /\ call \in [Submissions -> Call]
    /\ seq = [s \in Submissions |-> 0]
    /\ job = [s \in Submissions |-> None]
    /\ reply = [s \in Submissions |-> None]
    /\ lock = [a \in Agencies |-> None]
    /\ documents = [s \in Submissions |-> None]
    /\ mode = [p \in Procs |-> None]
    /\ idempCache = [p \in Procs |-> [k \in Keys |-> None]]
    /\ jobCache = [p \in Procs |-> {}]
    /\ buffer = [p \in Procs |-> [q \in Partitions |-> <<>>]]
    /\ log = [q \in Partitions |-> <<>>]
    /\ crashes = 0

-----------------------------------------------------------------------------
(* Processes *)

\* lifespan: connect to what is reachable; a failure leaves the process in the
\* cache-only mode (db) or in the mock mode (kafka) until it is restarted.
Start(p) ==
    /\ mode[p] = None
    /\ \E m \in StartModes : mode' = [mode EXCEPT ![p] = m]
    /\ UNCHANGED <<pc, call, seq, job, reply, lock, documents, idempCache, jobCache, buffer, log, crashes>>

\* A process dies: its transactions roll back, its caches and its unsent
\* records are gone, its clients get no reply.
Crash(p) ==
    /\ "crash" \in Faults
    /\ crashes < MaxCrashes
    /\ mode[p] # None
    /\ crashes' = crashes + 1
    /\ mode' = [mode EXCEPT ![p] = None]
    /\ pc' = [s \in Submissions |-> IF s \in On(p) THEN "lost" ELSE pc[s]]
    /\ lock' = [a \in Agencies |-> IF lock[a] \in On(p) THEN None ELSE lock[a]]
    /\ idempCache' = [idempCache EXCEPT ![p] = [k \in Keys |-> None]]
    /\ jobCache' = [jobCache EXCEPT ![p] = {}]
    /\ buffer' = [buffer EXCEPT ![p] = [q \in Partitions |-> <<>>]]
    /\ UNCHANGED <<call, seq, job, reply, documents, log>>

\* lifespan teardown: uvicorn drains the requests first, and the producer's stop
\* flushes what it has buffered.
Stop(p) ==
    /\ mode[p] # None
    /\ On(p) = {}
    /\ \A q \in Partitions : buffer[p][q] = <<>>
    /\ mode' = [mode EXCEPT ![p] = None]
    /\ idempCache' = [idempCache EXCEPT ![p] = [k \in Keys |-> None]]
    /\ jobCache' = [jobCache EXCEPT ![p] = {}]
    /\ UNCHANGED <<pc, call, seq, job, reply, lock, documents, buffer, log, crashes>>

-----------------------------------------------------------------------------
(* Steps of the handler.  Each names in its UNCHANGED what it leaves alone. *)

Goto(s, label) == pc' = [pc EXCEPT ![s] = label]

Finish(s, code, id) ==
    /\ Goto(s, "done")
    /\ reply' = [reply EXCEPT ![s] = [code |-> code, job |-> id]]

\* Mutant: an exception surfaces as a server error.
FailsWith500(s) == Finish(s, 500, None)

\* global_exception_handler: any exception becomes a 429.
Fails(s) == Finish(s, 429, None)

\* Mutant: a session-level advisory lock, which no commit or rollback releases.
KeepLock(s) == UNCHANGED lock

\* The end of a transaction releases its advisory locks.
Unlock(s) == lock' = [a \in Agencies |-> IF lock[a] = s THEN None ELSE lock[a]]

\* Turned away by the concurrency limiter, the token bucket, the size check or
\* a failing blob store, before anything durable happens.
TurnAway(s) ==
    /\ pc[s] = "idle"
    /\ mode[Proc(s)] # None
    /\ \E code \in {413, 429} : Finish(s, code, None)
    /\ UNCHANGED <<call, seq, job, lock, documents, mode, idempCache, jobCache, buffer, log, crashes>>

\* Mutant: the job of a row is not cached, for it can be read from the table.
RememberMadeUp(s, id) ==
    jobCache' = [jobCache EXCEPT ![Proc(s)] = @ \union ({id} \intersect {Local(s)})]

\* local_job_cache[job_id] = job_state
Remember(s, id) == jobCache' = [jobCache EXCEPT ![Proc(s)] = @ \union {id}]

\* The caches take over: without a pool, and on any exception of create_or_get.
Fallback(s) ==
    LET p == Proc(s)
        k == call[s].key
    IN  \/ /\ idempCache[p][k] # None
           /\ Finish(s, 200, Local(idempCache[p][k]))
           /\ job' = [job EXCEPT ![s] = Local(idempCache[p][k])]
           /\ UNCHANGED <<idempCache, jobCache>>
        \/ /\ idempCache[p][k] = None
           /\ Goto(s, "publish")
           /\ job' = [job EXCEPT ![s] = Local(s)]
           /\ idempCache' = [idempCache EXCEPT ![p][k] = s]
           /\ Remember(s, Local(s))
           /\ UNCHANGED reply

Admit(s) ==
    /\ pc[s] = "idle"
    /\ mode[Proc(s)] # None
    /\ IF HasDb(s)
       THEN Goto(s, "select") /\ UNCHANGED <<job, reply, idempCache, jobCache>>
       ELSE Fallback(s)
    /\ UNCHANGED <<call, seq, lock, documents, mode, buffer, log, crashes>>

\* A statement of create_or_get raises and the transaction rolls back.
AtDatabase == {"select", "lock", "number", "insert"}

TransactionFails(s) ==
    /\ "db" \in Faults
    /\ pc[s] \in AtDatabase
    /\ Fallback(s)
    /\ Unlock(s)
    /\ UNCHANGED <<call, seq, documents, mode, buffer, log, crashes>>

\* Mutant: a duplicate is published again.
FindExistingAndRequeue(s) ==
    /\ pc[s] = "select"
    /\ \E d \in HoldersOf(documents, call[s].key) :
          /\ job' = [job EXCEPT ![s] = Doc(d)]
          /\ Remember(s, Doc(d))
    /\ Goto(s, "publish")
    /\ UNCHANGED <<call, seq, reply, lock, documents, mode, idempCache, buffer, log, crashes>>

\* The key has a row: the handler answers 200 with that row's id.
FindExisting(s) ==
    /\ pc[s] = "select"
    /\ \E d \in HoldersOf(documents, call[s].key) :
          /\ Finish(s, 200, Doc(d))
          /\ job' = [job EXCEPT ![s] = Doc(d)]
          /\ Remember(s, Doc(d))
    /\ UNCHANGED <<call, seq, lock, documents, mode, idempCache, buffer, log, crashes>>

FindNone(s) ==
    /\ pc[s] = "select"
    /\ HoldersOf(documents, call[s].key) = {}
    /\ Goto(s, "lock")
    /\ UNCHANGED <<call, seq, job, reply, lock, documents, mode, idempCache, jobCache, buffer, log, crashes>>

\* Mutant: the lock is not waited for.
TakeLockAnyway(s) ==
    /\ pc[s] = "lock"
    /\ lock' = [lock EXCEPT ![call[s].agency] = s]
    /\ Goto(s, "number")
    /\ UNCHANGED <<call, seq, job, reply, documents, mode, idempCache, jobCache, buffer, log, crashes>>

\* Mutant: pg_try_advisory_xact_lock, giving up when the agency is busy.
TryLock(s) ==
    /\ pc[s] = "lock"
    /\ IF lock[call[s].agency] = None
       THEN /\ lock' = [lock EXCEPT ![call[s].agency] = s]
            /\ Goto(s, "number")
            /\ UNCHANGED <<job, reply, idempCache, jobCache>>
       ELSE Fallback(s) /\ UNCHANGED lock
    /\ UNCHANGED <<call, seq, documents, mode, buffer, log, crashes>>

\* pg_advisory_xact_lock(hashtext(agency_id)) blocks until the lock is free.
TakeLock(s) ==
    /\ pc[s] = "lock"
    /\ lock[call[s].agency] = None
    /\ lock' = [lock EXCEPT ![call[s].agency] = s]
    /\ Goto(s, "number")
    /\ UNCHANGED <<call, seq, job, reply, documents, mode, idempCache, jobCache, buffer, log, crashes>>

Number(s) ==
    /\ pc[s] = "number"
    /\ seq' = [seq EXCEPT ![s] = NextSequence(documents, call[s].agency)]
    /\ Goto(s, "insert")
    /\ UNCHANGED <<call, job, reply, lock, documents, mode, idempCache, jobCache, buffer, log, crashes>>

NewRow(s) == [key |-> call[s].key, agency |-> call[s].agency, seq |-> seq[s],
              status |-> "QUEUED", retries |-> 0]

\* Mutant: the table has no UNIQUE constraint.
AlwaysInsertable(s) == TRUE

Insertable(s) == ~Conflicts(documents, call[s].key, call[s].agency, seq[s])

\* INSERT and COMMIT; the commit releases the advisory lock.
Insert(s) ==
    /\ pc[s] = "insert"
    /\ Insertable(s)
    /\ documents' = [documents EXCEPT ![s] = NewRow(s)]
    /\ job' = [job EXCEPT ![s] = Doc(s)]
    /\ Remember(s, Doc(s))
    /\ Goto(s, "publish")
    /\ Unlock(s)
    /\ UNCHANGED <<call, seq, reply, mode, idempCache, buffer, log, crashes>>

\* UniqueViolationError: another submission of the key committed since FindNone.
InsertConflicts(s) ==
    /\ pc[s] = "insert"
    /\ ~Insertable(s)
    /\ Fallback(s)
    /\ Unlock(s)
    /\ UNCHANGED <<call, seq, documents, mode, buffer, log, crashes>>

\* The commit takes effect but its acknowledgement is lost: the handler sees an
\* exception although the row is there.
CommitUnacknowledged(s) ==
    /\ "db" \in Faults
    /\ pc[s] = "insert"
    /\ Insertable(s)
    /\ documents' = [documents EXCEPT ![s] = NewRow(s)]
    /\ Fallback(s)
    /\ Unlock(s)
    /\ UNCHANGED <<call, seq, mode, buffer, log, crashes>>

-----------------------------------------------------------------------------
(* Publishing *)

\* Mutant: the record carries the document id drawn for the row, row or no row.
PublishDocumentId(s) ==
    /\ pc[s] = "publish"
    /\ HasKafka(s)
    /\ buffer' = [buffer EXCEPT ![Proc(s)][PartitionFor(s)] = Append(@, Doc(s))]
    /\ Fails(s)
    /\ UNCHANGED <<call, seq, job, lock, documents, mode, idempCache, jobCache, log, crashes>>

\* send returns a Future as soon as the record is in the producer's accumulator, and
\* send_audit_event reads the topic of the record from it: a Future has none, so it raises
\* with the record buffered.  The record is written later, by a Flush.
Publish(s) ==
    /\ pc[s] = "publish"
    /\ HasKafka(s)
    /\ buffer' = [buffer EXCEPT ![Proc(s)][PartitionFor(s)] = Append(@, job[s])]
    /\ Fails(s)
    /\ UNCHANGED <<call, seq, job, lock, documents, mode, idempCache, jobCache, log, crashes>>

\* Mock mode: nothing is sent, the handler is told offset -1.
PublishNowhere(s) ==
    /\ pc[s] = "publish"
    /\ ~HasKafka(s)
    /\ Goto(s, "record")
    /\ UNCHANGED <<call, seq, job, reply, lock, documents, mode, idempCache, jobCache, buffer, log, crashes>>

\* send itself raises (no metadata, no room in the accumulator): nothing is buffered.
PublishFails(s) ==
    /\ "broker" \in Faults
    /\ pc[s] = "publish"
    /\ HasKafka(s)
    /\ Fails(s)
    /\ UNCHANGED <<call, seq, job, lock, documents, mode, idempCache, jobCache, buffer, log, crashes>>

InLog(id, q) == \E i \in DOMAIN log[q] : log[q][i] = id

\* The producer writes the oldest record of a batch to its partition.
Flush(p, q) ==
    /\ buffer[p][q] # <<>>
    /\ log' = [log EXCEPT ![q] = Append(@, Head(buffer[p][q]))]
    /\ buffer' = [buffer EXCEPT ![p][q] = Tail(@)]
    /\ UNCHANGED <<pc, call, seq, job, reply, lock, documents, mode, idempCache, jobCache, crashes>>

\* The producer is not idempotent: a batch whose acknowledgement is lost is
\* written again (once per record here).
FlushAgain(p, q) ==
    /\ "broker" \in Faults
    /\ buffer[p][q] # <<>>
    /\ ~InLog(Head(buffer[p][q]), q)
    /\ log' = [log EXCEPT ![q] = Append(@, Head(buffer[p][q]))]
    /\ UNCHANGED <<apiVars, documents>>

\* Nobody waits for a buffered record: when its batch expires, it is gone.
Expire(p, q) ==
    /\ "broker" \in Faults
    /\ buffer[p][q] # <<>>
    /\ buffer' = [buffer EXCEPT ![p][q] = Tail(@)]
    /\ UNCHANGED <<pc, call, seq, job, reply, lock, documents, mode, idempCache, jobCache, log, crashes>>

-----------------------------------------------------------------------------
(* After publishing *)

\* update_document_metadata(status="QUEUED"), whatever the status is by now.
Requeue(s) ==
    documents' = [documents EXCEPT ![job[s].of].status = "QUEUED"]

Record(s) ==
    /\ pc[s] = "record"
    /\ HasDb(s)
    /\ job[s].kind = "document"
    /\ Requeue(s)
    /\ Goto(s, "respond")
    /\ UNCHANGED <<call, seq, job, reply, lock, mode, idempCache, jobCache, buffer, log, crashes>>

\* Mutant: a made-up id is skipped instead of raising.
RecordToleratesLocal(s) ==
    /\ pc[s] = "record"
    /\ HasDb(s)
    /\ job[s].kind = "local"
    /\ Goto(s, "respond")
    /\ UNCHANGED <<call, seq, job, reply, lock, documents, mode, idempCache, jobCache, buffer, log, crashes>>

\* uuid.UUID("job-...") raises ValueError.
RecordRejectsLocal(s) ==
    /\ pc[s] = "record"
    /\ HasDb(s)
    /\ job[s].kind = "local"
    /\ Fails(s)
    /\ UNCHANGED <<call, seq, job, lock, documents, mode, idempCache, jobCache, buffer, log, crashes>>

RecordSkipped(s) ==
    /\ pc[s] = "record"
    /\ ~HasDb(s)
    /\ Goto(s, "respond")
    /\ UNCHANGED <<call, seq, job, reply, lock, documents, mode, idempCache, jobCache, buffer, log, crashes>>

\* The UPDATE, or one of the two append_event calls after it, raises.
RecordFails(s) ==
    /\ "db" \in Faults
    /\ pc[s] \in {"record", "respond"}
    /\ HasDb(s)
    /\ \/ pc[s] = "record" /\ job[s].kind = "document" /\ (Requeue(s) \/ UNCHANGED documents)
       \/ pc[s] = "respond" /\ UNCHANGED documents
    /\ Fails(s)
    /\ UNCHANGED <<call, seq, job, lock, mode, idempCache, jobCache, buffer, log, crashes>>

Respond(s) ==
    /\ pc[s] = "respond"
    /\ Finish(s, 202, job[s])
    /\ UNCHANGED <<call, seq, job, lock, documents, mode, idempCache, jobCache, buffer, log, crashes>>

-----------------------------------------------------------------------------
\* create_or_get, and the except branch around it
CreateOrGet(s) ==
    \/ FindExisting(s) \/ FindNone(s) \/ TakeLock(s) \/ Number(s)
    \/ Insert(s) \/ InsertConflicts(s) \/ CommitUnacknowledged(s) \/ TransactionFails(s)

SendAuditEvent(s) == Publish(s) \/ PublishNowhere(s) \/ PublishFails(s)

Conclude(s) ==
    Record(s) \/ RecordRejectsLocal(s) \/ RecordSkipped(s) \/ RecordFails(s) \/ Respond(s)

Handle(s) == CreateOrGet(s) \/ SendAuditEvent(s) \/ Conclude(s)

Producer(p, q) == Flush(p, q) \/ FlushAgain(p, q) \/ Expire(p, q)

ApiNext ==
    \/ \E p \in Procs : Start(p) \/ Stop(p) \/ Crash(p)
    \/ \E s \in Submissions : TurnAway(s) \/ Admit(s) \/ Handle(s)
    \/ \E p \in Procs, q \in Partitions : Producer(p, q)

Spec == Init /\ [][ApiNext]_vars

-----------------------------------------------------------------------------
(* Properties *)

Answered(s, code) == reply[s] # None /\ reply[s].code = code

\* The advisory lock of an agency is held exactly by the submission between
\* taking it and the end of its transaction, whatever ends the transaction:
\* commit, unique violation, lost connection or process crash.
LockDiscipline ==
    \A s \in Submissions, a \in Agencies :
        lock[a] = s <=> pc[s] \in {"number", "insert"} /\ call[s].agency = a

\* Each agency's documents are numbered 1, 2, .., n without gap or repetition,
\* although numbers are computed by MAX + 1 in concurrent transactions that may
\* roll back after taking one.
SequenceDense ==
    /\ \A a \in Agencies :
          SequencesOf(documents, a) = 1 .. (NextSequence(documents, a) - 1)
    /\ \A s, t \in Stored(documents) :
          documents[s].agency = documents[t].agency /\ documents[s].seq = documents[t].seq
              => s = t

\* The number a transaction is about to insert is still the agency's next one:
\* UNIQUE(agency_id, sequence_number) never fires, an insert can only conflict
\* on the idempotency key.
NumberStillFree ==
    \A s \in Submissions :
        pc[s] = "insert" => seq[s] = NextSequence(documents, call[s].agency)

\* A record that names a document is written only after the row is committed,
\* and to the partition of the row's agency.
PublishedIsCommitted ==
    \A q \in Partitions : \A i \in DOMAIN log[q] :
        log[q][i].kind = "document" =>
            LET row == documents[log[q][i].of]
            IN  row # None /\ PartitionOf[row.agency] = q

\* No retry, duplicate or restart makes the API publish a document again, as
\* long as the broker does not repeat a batch.
PublishedOnce ==
    \A q, r \in Partitions : \A i \in DOMAIN log[q], j \in DOMAIN log[r] :
        log[q][i] = log[r][j] => <<q, i>> = <<r, j>>

Accepts(s) == pc[s] = "respond" /\ reply'[s] # reply[s] /\ reply'[s].code = 202

\* At most one document is ever ACCEPTED for an idempotency key, whichever of the
\* submissions failed half-way, and whatever their processes can reach.
AcceptedOncePerKey ==
    \A s, t \in Submissions :
        /\ Answered(s, 202) /\ Answered(t, 202) /\ call[s].key = call[t].key
        /\ reply[s].job.kind = "document" /\ reply[t].job.kind = "document"
        => s = t

\* All that is ever said of a key names one document: the records in the topic and the
\* replies to every submission of the key, the 429 that hid a record, its retries in other
\* processes and the batches that the broker repeats.
NamedFor(k) ==
    {d \in Submissions : call[d].key = k /\ \E q \in Partitions : InLog(Doc(d), q)}
        \union {d \in Submissions :
                   \E s \in Submissions : call[s].key = k /\ reply[s] # None /\ reply[s].job = Doc(d)}

OneDocumentPerKey == \A k \in Keys : \A d, e \in NamedFor(k) : d = e

\* While the database answers, a made-up "job-" record is published only for a
\* key that has a row: the race that creates it loses no document.
PhantomHasTwin ==
    \A q \in Partitions : \A i \in DOMAIN log[q] :
        log[q][i].kind = "local" => HoldersOf(documents, call[log[q][i].of].key) # {}

\* A process that has a database never tells a client ACCEPTED for a job id that
\* names no row, whatever failed on the way and however it fell back.
AcceptedNamesARow ==
    [][\A s \in Submissions :
          Accepts(s) /\ HasDb(s) => reply'[s].job = Doc(s) /\ documents[s] # None]_vars

\* Every admitted submission is answered, or dies with its process.
AdmittedIsAnswered ==
    \A s \in Submissions : pc[s] \in Active ~> pc[s] \in {"done", "lost"}

\* create_or_get implements the ledger that numbers each new key once.
LedgerOf(table) ==
    [a \in Agencies |->
        [n \in 1 .. (NextSequence(table, a) - 1) |->
            table[CHOOSE s \in Stored(table) : table[s].agency = a /\ table[s].seq = n].key]]

Ledger == INSTANCE IdempotentLedger WITH ledger <- LedgerOf(documents)
LedgerSpec == Ledger!Spec

\* What the program and its documentation say, each checked in a run of its own.

\* README.md:27: "New submissions return `202 Accepted` and are processed asynchronously.":
\* a submission whose document is in the topic has been told ACCEPTED, or waits for it.
PublishedIsAccepted ==
    \A s \in Submissions :
        reply[s] # None /\ (\E q \in Partitions : InLog(Doc(s), q)) => Answered(s, 202)

\* main.py:329: "Identical document already ingested and queued/processed.":
\* the document a 200 names is in the topic, or some handler is still about to
\* put it there.
DuplicateIsQueued ==
    \A s \in Submissions :
        Answered(s, 200) =>
            \/ \E q \in Partitions : InLog(reply[s].job, q)
            \/ \E p \in Procs, q \in Partitions : \E i \in DOMAIN buffer[p][q] :
                   buffer[p][q][i] = reply[s].job
            \/ \E t \in InFlight : job[t] = reply[s].job

=============================================================================
