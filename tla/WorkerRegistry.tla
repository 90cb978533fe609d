--------------------------- MODULE WorkerRegistry ---------------------------
(***************************************************************************)
(* What the workers tell about themselves: register_worker and             *)
(* heartbeat_worker (worker/src/repository.py), the heartbeat task of      *)
(* WorkerBatchConsumer, and the attributes its handle_record tasks share.  *)
(*                                                                         *)
(* A heartbeat reads the attributes when it calls the repository and       *)
(* writes them when its UPDATE runs, with any steps of the worker in       *)
(* between.  stop() cancels the task without awaiting it, so the UPDATE    *)
(* may also run after the row says DRAINING.  Several workers may share    *)
(* an identity, and then one row.                                          *)
(***************************************************************************)
EXTENDS WorkerPool

CONSTANTS
    Ids,            \* values of WORKER_ID
    IdOf            \* the identity each container runs under

ASSUME IdsAreAssigned == IdOf \in [Workers -> Ids]

VARIABLES
    worker_status,  \* the table: a row [status, state, job] for each id, or None
    current_state,
    current_document_id,
    active_jobs,
    beat            \* the heartbeat each worker has under way: [state, job], or None

registryVars == <<worker_status, current_state, current_document_id, active_jobs, beat>>
allVars == <<vars, registryVars>>

Told == [state: {"IDLE", "PROCESSING"}, job: Jobs \union {None}]
WorkerRow == [status: {"ACTIVE", "DRAINING"}, state: {"IDLE", "PROCESSING"},
              job: Jobs \union {None}]

\* Type correctness: worker_status holds known states, and active_jobs never exceeds the
\* permits of handle_record or falls below zero.
RegistryTypeOK ==
    /\ TypeOK
    /\ worker_status \in [Ids -> WorkerRow \union {None}]
    /\ current_state \in [Workers -> {"IDLE", "PROCESSING"}]
    /\ current_document_id \in [Workers -> Jobs \union {None}]
    /\ active_jobs \in [Workers -> 0..Concurrency]
    /\ beat \in [Workers -> Told \union {None}]

RegistryInit ==
    /\ Init
    /\ worker_status = [i \in Ids |-> None]
    /\ current_state = [w \in Workers |-> "IDLE"]
    /\ current_document_id = [w \in Workers |-> None]
    /\ active_jobs = [w \in Workers |-> 0]
    /\ beat = [w \in Workers |-> None]

-----------------------------------------------------------------------------
(* The attributes of a worker *)

Tell(w, state, job) ==
    /\ current_state' = [current_state EXCEPT ![w] = state]
    /\ current_document_id' = [current_document_id EXCEPT ![w] = job]

\* A process starts with nothing to tell, and takes it along when it ends.
Blank(w) ==
    /\ Tell(w, "IDLE", None)
    /\ active_jobs' = [active_jobs EXCEPT ![w] = 0]

\* handle_record enters with its permit, and leaves through its finally branch.
Enter(t) ==
    /\ Tell(t.worker, "PROCESSING", JobOf(t))
    /\ active_jobs' = [active_jobs EXCEPT ![t.worker] = @ + 1]
    /\ UNCHANGED <<worker_status, beat>>

\* Mutant: without the finally an exception out of the except branch leaves the job counted.
ExitTaskUnlessEscaped(t) ==
    /\ IF t.pc = "report" /\ MayFail(t) THEN UNCHANGED <<current_state, current_document_id, active_jobs>>
       ELSE /\ Tell(t.worker, "IDLE", None)
            /\ active_jobs' = [active_jobs EXCEPT ![t.worker] = IF @ = 0 THEN 0 ELSE @ - 1]
    /\ UNCHANGED <<worker_status, beat>>

ExitTask(t) ==
    /\ Tell(t.worker, "IDLE", None)
    /\ active_jobs' = [active_jobs EXCEPT ![t.worker] = IF @ = 0 THEN 0 ELSE @ - 1]
    /\ UNCHANGED <<worker_status, beat>>

-----------------------------------------------------------------------------
(* The rows *)

Put(w, status, state, job) ==
    worker_status' = [worker_status EXCEPT ![IdOf[w]] = [status |-> status, state |-> state, job |-> job]]

\* An UPDATE changes the row if there is one.
Rewrite(w, status, state, job) ==
    IF worker_status[IdOf[w]] = None THEN UNCHANGED worker_status ELSE Put(w, status, state, job)

\* start(): registers with the pool it got; a failing registration is only logged.
StartAndRegister(w) ==
    /\ Start(w)
    /\ \/ pool'[w] = "open" /\ Put(w, "ACTIVE", "IDLE", None)
       \/ /\ pool'[w] = "none" \/ "db" \in WorkerFaults
          /\ UNCHANGED worker_status
    /\ Blank(w)
    /\ UNCHANGED beat

\* The heartbeat task calls heartbeat_worker.
Beat(w) ==
    /\ w \in Members
    /\ pool[w] # "none"
    /\ beat[w] = None
    /\ beat' = [beat EXCEPT ![w] = [state |-> current_state[w], job |-> current_document_id[w]]]
    /\ UNCHANGED <<worker_status, current_state, current_document_id, active_jobs>>
    /\ UNCHANGED vars

\* Only document ids survive uuid.UUID(...): of a made-up job id no heartbeat tells.
Tellable(w) == beat[w].job \in {None} \union {Doc(s) : s \in Submissions}

BeatLands(w) ==
    /\ beat[w] # None
    /\ Tellable(w)
    /\ Rewrite(w, "ACTIVE", beat[w].state, beat[w].job)
    /\ beat' = [beat EXCEPT ![w] = None]
    /\ UNCHANGED <<current_state, current_document_id, active_jobs>>
    /\ UNCHANGED vars

\* It raises, or is cancelled before the statement has taken effect.
BeatFails(w) ==
    /\ beat[w] # None
    /\ "db" \in WorkerFaults \/ ~Tellable(w) \/ w \notin Members
    /\ beat' = [beat EXCEPT ![w] = None]
    /\ UNCHANGED <<worker_status, current_state, current_document_id, active_jobs>>
    /\ UNCHANGED vars

\* A process dies; the UPDATE it has sent may still run.
CrashUnnoticed(w) ==
    /\ Crash(w)
    /\ Blank(w)
    /\ UNCHANGED <<worker_status, beat>>

\* stop() cancels the heartbeat task and does not wait for it.
StopHeartbeat(w) == StopConsumer(w) /\ UNCHANGED registryVars

SayDraining(w) ==
    /\ SignOff(w)
    /\ Rewrite(w, "DRAINING", "IDLE", None)
    /\ UNCHANGED <<current_state, current_document_id, active_jobs, beat>>

\* The statement takes effect, but it or the event after it raises: the pool stays open.
SayDrainingFails(w) ==
    /\ "db" \in WorkerFaults
    /\ draining[w] /\ pool[w] = "open"
    /\ Rewrite(w, "DRAINING", "IDLE", None)
    /\ UNCHANGED <<current_state, current_document_id, active_jobs, beat>>
    /\ UNCHANGED vars

\* close() waits for the connection of the heartbeat, too.
CloseConnections(w) ==
    /\ ClosePool(w)
    /\ beat[w] = None
    /\ UNCHANGED registryVars

\* main() calls stop() once more when start() has returned.
ExitProcess(w) ==
    /\ Exit(w)
    /\ \/ pool[w] = "open" /\ Rewrite(w, "DRAINING", "IDLE", None)
       \/ /\ pool[w] # "open" \/ "db" \in WorkerFaults
          /\ UNCHANGED worker_status
    /\ Blank(w)
    /\ UNCHANGED beat

-----------------------------------------------------------------------------
\* Is the handle_record of task t still running after the step?
GoesOn(t) == \E u \in tasks' : [u EXCEPT !.pc = t.pc, !.awaited = t.awaited] = t

TaskStep(t) ==
    \/ Begin(t) /\ Enter(t)
    \/ Process(t) /\ GoesOn(t) /\ UNCHANGED registryVars
    \/ Process(t) /\ ~GoesOn(t) /\ ExitTask(t)

WorkerStep(w) ==
    \/ StartAndRegister(w) \/ CrashUnnoticed(w)
    \/ StopHeartbeat(w) \/ SayDraining(w) \/ SayDrainingFails(w) \/ ExitProcess(w)
    \/ Beat(w) \/ BeatLands(w) \/ BeatFails(w)
    \/ CloseConnections(w)
    \/ Run(w) /\ UNCHANGED registryVars

RegistryNext ==
    \/ Rebalance /\ UNCHANGED registryVars
    \/ \E w \in Workers : WorkerStep(w)
    \/ \E t \in tasks : TaskStep(t)

RegistrySpec == RegistryInit /\ [][RegistryNext]_allVars

-----------------------------------------------------------------------------
(* Properties *)

\* active_jobs counts the tasks that hold a permit, those that nobody awaits any more
\* included; a worker that says PROCESSING has such a task, for the document it names.  (The
\* converse fails: the task that ends first sets IDLE while others go on.)
WorkIsTold ==
    \A w \in Workers :
        /\ active_jobs[w] = Cardinality(Running(w))
        /\ current_state[w] = "PROCESSING" => current_document_id[w] # None
        /\ current_document_id[w] # None =>
              \E t \in Running(w) : JobOf(t) = current_document_id[w]

=============================================================================
