-------------------------- MODULE WorkerPoolProofs --------------------------
(***************************************************************************)
(* Theorems about WorkerPool, for any number of workers, partitions and    *)
(* records, any limits, and whatever fails.                                *)
(***************************************************************************)
EXTENDS WorkerPool, FiniteSetTheorems, TLAPS

-----------------------------------------------------------------------------
(* Offsets *)

OffsetInv ==
    /\ log \in [Partitions -> Seq(Jobs)]
    /\ position \in [Partitions -> Nat]
    /\ committed \in [Partitions -> Nat]
    /\ PositionsInOrder

\* The steps that move an offset.
LEMMA OffsetSteps ==
    ASSUME [PoolNext]_vars
    PROVE  /\ UNCHANGED log
           /\ \/ UNCHANGED <<position, committed>>
              \/ Rebalance
              \/ \E w \in Workers : Poll(w) \/ Commit(w)
<1> USE DEF groupVars, workerVars, poolVars
<1>1. ASSUME NEW t \in tasks, Step(t)
      PROVE  UNCHANGED <<log, position, committed>>
  BY <1>1 DEF Step, Begin, Process, Consume, SkipCompleted, Check, FailEarly, PassUnrecorded, Mark,
              Save, FailProcessing, Retry, Report, Escape, LoopsGoOn
<1>2. ASSUME NEW w \in Workers, Start(w) \/ Crash(w) \/ Shutdown(w)
      PROVE  UNCHANGED <<log, position, committed>>
  BY <1>2 DEF Start, Crash, Shutdown, StopConsumer, SignOff, ClosePool, Exit, Leave
<1>3. ASSUME NEW w \in Workers, Run(w)
      PROVE  UNCHANGED log /\ (Poll(w) \/ Commit(w) \/ UNCHANGED <<position, committed>>)
  BY <1>3 DEF Run, Poll, Commit, Gathered, CommitFails, Resume
<1>4. Rebalance => UNCHANGED log
  BY DEF Rebalance
<1>5. UNCHANGED vars => UNCHANGED <<log, position, committed>>
  BY DEF vars
<1> QED
  BY <1>1, <1>2, <1>3, <1>4, <1>5 DEF PoolNext

LEMMA OffsetInvInit == Init => OffsetInv
BY TopicIsATopic DEF Init, PoolInit, OffsetInv, PositionsInOrder

\* Each of the three steps, at one partition.
LEMMA OffsetsMoveForward ==
    ASSUME OffsetInv, [PoolNext]_vars
    PROVE  /\ position' \in [Partitions -> Nat] /\ committed' \in [Partitions -> Nat]
           /\ \A q \in Partitions :
                 committed[q] <= committed'[q] /\ committed'[q] <= position'[q]
                     /\ position'[q] <= Len(log[q])
<1> USE DEF OffsetInv
<1>0. \A q \in Partitions : committed[q] <= position[q] /\ position[q] <= Len(log[q])
  BY DEF PositionsInOrder
<1>1. CASE UNCHANGED <<position, committed>>
  BY <1>0, <1>1
<1>2. CASE Rebalance
  BY <1>0, <1>2 DEF Rebalance
<1>3. ASSUME NEW w \in Workers, Commit(w)
      PROVE  /\ position' \in [Partitions -> Nat] /\ committed' \in [Partitions -> Nat]
             /\ \A q \in Partitions :
                   committed[q] <= committed'[q] /\ committed'[q] <= position'[q]
                       /\ position'[q] <= Len(log[q])
  BY <1>0, <1>3 DEF Commit
<1>4. ASSUME NEW w \in Workers, Poll(w)
      PROVE  /\ position' \in [Partitions -> Nat] /\ committed' \in [Partitions -> Nat]
             /\ \A q \in Partitions :
                   committed[q] <= committed'[q] /\ committed'[q] <= position'[q]
                       /\ position'[q] <= Len(log[q])
  <2>1. UNCHANGED committed
    BY <1>4 DEF Poll
  <2>2. PICK take \in [Partitions -> 0 .. MaxPoll] :
            /\ \A q \in Partitions : take[q] > 0 => take[q] <= Fetchable(w, q)
            /\ position' = [q \in Partitions |-> position[q] + take[q]]
    BY <1>4 DEF Poll
  <2>3. ASSUME NEW q \in Partitions
        PROVE  take[q] \in Nat /\ (take[q] = 0 \/ take[q] <= Len(log[q]) - position[q])
    <3>1. take[q] \in Nat
      BY <2>2, LimitsArePositive
    <3>2. Fetchable(w, q) = Len(log[q]) - position[q] \/ Fetchable(w, q) = 0
      BY DEF Fetchable
    <3> QED
      BY <2>2, <3>1, <3>2
  <2>4. ASSUME NEW q \in Partitions
        PROVE  /\ position'[q] = position[q] + take[q] /\ committed'[q] = committed[q]
               /\ Len(log[q]) \in Nat /\ position[q] \in Nat /\ committed[q] \in Nat
    BY <2>1, <2>2
  <2>5. position' \in [Partitions -> Nat]
    BY <2>2, <2>3, <2>4
  <2>6. committed' \in [Partitions -> Nat]
    BY <2>1
  <2>7. ASSUME NEW q \in Partitions
        PROVE  /\ committed[q] <= committed'[q] /\ committed'[q] <= position'[q]
               /\ position'[q] <= Len(log[q])
    <3>1. committed[q] <= position[q] /\ position[q] <= Len(log[q])
      BY <1>0
    <3>2. take[q] \in Nat /\ (take[q] = 0 \/ take[q] <= Len(log[q]) - position[q])
      BY <2>3
    <3>3. /\ position'[q] = position[q] + take[q] /\ committed'[q] = committed[q]
          /\ Len(log[q]) \in Nat /\ position[q] \in Nat /\ committed[q] \in Nat
      BY <2>4
    <3> HIDE DEF OffsetInv
    <3> QED
      BY <3>1, <3>2, <3>3
  <2> QED
    BY <2>5, <2>6, <2>7
<1> QED
  BY <1>1, <1>2, <1>3, <1>4, OffsetSteps

LEMMA OffsetInvStep == OffsetInv /\ [PoolNext]_vars => OffsetInv'
BY OffsetsMoveForward, OffsetSteps DEF OffsetInv, PositionsInOrder

\* The group never commits past its fetch position, nor past the end of a partition,
\* whoever owned the partition when the batch was read.
THEOREM PositionsInOrderHolds == Spec => []PositionsInOrder
<1>1. OffsetInv => PositionsInOrder
  BY DEF OffsetInv
<1> QED
  BY OffsetInvInit, OffsetInvStep, <1>1, PTL DEF Spec

\* A committed offset never moves back: a rebalance restarts reading at the committed
\* offset, and a former owner commits nothing any more.
THEOREM CommitsMoveForwardHold == Spec => CommitsMoveForward
<1>1. OffsetInv /\ [PoolNext]_vars => [\A q \in Partitions : committed'[q] >= committed[q]]_vars
  <2> SUFFICES ASSUME OffsetInv, [PoolNext]_vars, NEW q \in Partitions
               PROVE  committed'[q] >= committed[q]
    OBVIOUS
  <2> QED
    BY OffsetsMoveForward DEF OffsetInv
<1> QED
  BY OffsetInvInit, OffsetInvStep, <1>1, PTL DEF Spec, CommitsMoveForward

-----------------------------------------------------------------------------
(* Tasks and rows *)

Tables == [Submissions -> Row \union {None}]

\* The steps of a task that name a document in a statement of their own.
AtDocument == {"check", "mark", "save", "retry"}

\* Tasks work on records that exist, and a task writes only what a record names.
TasksOK ==
    /\ IsFiniteSet(tasks) /\ tasks \subseteq Task
    /\ \A t \in tasks :
          t.at \in DOMAIN log[t.part] /\ (t.pc \in AtDocument => Nameable(t))

RowsOK ==
    /\ documents \in Tables
    /\ results \subseteq Submissions
    /\ \A q \in Partitions : \A i \in DOMAIN log[q] :
          log[q][i].kind = "document" => documents[log[q][i].of] # None
    /\ CompletedHasResult

TasksInv ==
    /\ log \in [Partitions -> Seq(Jobs)]
    /\ position \in [Partitions -> Nat]
    /\ TasksOK
    /\ RowsOK

LEMMA TasksInvInit == Init => TasksInv
<1> SUFFICES ASSUME Init PROVE TasksInv
  OBVIOUS
<1>1. /\ documents \in Tables /\ results \subseteq Submissions /\ log \in [Partitions -> Seq(Jobs)]
      /\ position \in [Partitions -> Nat]
  BY TableIsATable, TopicIsATopic DEF Init, PoolInit, Tables
<1>2. \A q \in Partitions : \A i \in DOMAIN log[q] :
          log[q][i].kind = "document" => documents[log[q][i].of] # None
  BY TopicIsCommitted DEF Init, Stored
<1>3. tasks = {} /\ IsFiniteSet(tasks)
  BY FS_EmptySet DEF Init, PoolInit
<1>4. CompletedHasResult
  BY TableIsQueued DEF Init, CompletedHasResult
<1> QED
  BY <1>1, <1>2, <1>3, <1>4 DEF TasksInv, TasksOK, RowsOK

LEMMA FiniteImage ==
    ASSUME NEW S, IsFiniteSet(S), NEW f, DOMAIN f = S
    PROVE  IsFiniteSet({f[x] : x \in S})
<1> DEFINE T == {f[x] : x \in S}
           g == [x \in S |-> f[x]]
<1>1. g \in Surjection(S, T)
  BY DEF Surjection
<1> QED
  BY <1>1, FS_Surjection

\* There is always a copy number that no task of the record uses.
LEMMA FreeCopyIsFree ==
    ASSUME IsFiniteSet(tasks), NEW q, NEW i
    PROVE  /\ FreeCopy(q, i) \in Nat
           /\ \A u \in tasks : u.part = q /\ u.at = i => u.copy # FreeCopy(q, i)
<1> DEFINE these == {u \in tasks : u.part = q /\ u.at = i}
           used == {t.copy : t \in these}
<1>1. IsFiniteSet(these)
  BY FS_Subset
<1>2. IsFiniteSet(used) /\ Cardinality(used) \in Nat
  <2> DEFINE f == [t \in these |-> t.copy]
  <2>1. used = {f[t] : t \in these} /\ DOMAIN f = these
    OBVIOUS
  <2> HIDE DEF used, f
  <2> QED
    BY <1>1, <2>1, FiniteImage, FS_CardinalityType
<1> HIDE DEF used
<1>3. \E n \in 0 .. Cardinality(used) : n \notin used
  <2> SUFFICES ASSUME 0 .. Cardinality(used) \subseteq used PROVE FALSE
    OBVIOUS
  <2>1. Cardinality(0 .. Cardinality(used)) = Cardinality(used) + 1
    BY <1>2, FS_Interval
  <2>2. Cardinality(0 .. Cardinality(used)) <= Cardinality(used)
    BY <1>2, FS_Subset
  <2> QED
    BY <1>2, <2>1, <2>2
<1>4. FreeCopy(q, i) = CHOOSE n \in 0 .. Cardinality(used) : n \notin used
  BY DEF FreeCopy, used
<1>5. FreeCopy(q, i) \in Nat /\ FreeCopy(q, i) \notin used
  BY <1>2, <1>3, <1>4
<1> QED
  BY <1>5 DEF used

\* A batch is a finite set of new tasks of records that exist.
LEMMA BatchOfTasks ==
    ASSUME TasksInv, NEW w \in Workers, NEW take \in [Partitions -> 0 .. MaxPoll],
           \A q \in Partitions : take[q] > 0 => take[q] <= Fetchable(w, q)
    PROVE  /\ IsFiniteSet(Batch(w, take)) /\ Batch(w, take) \subseteq Task
           /\ \A t \in Batch(w, take) : t.at \in DOMAIN log[t.part] /\ t.pc = "waiting"
<1> DEFINE Part(q) == {NewTask(w, q, position[q] + i) : i \in 1 .. take[q]}
<1>1. ASSUME NEW q \in Partitions
      PROVE  IsFiniteSet(Part(q))
  <2>1. take[q] \in Int
    BY LimitsArePositive
  <2>2. IsFiniteSet(1 .. take[q])
    BY <2>1, FS_Interval
  <2> DEFINE f == [i \in 1 .. take[q] |-> NewTask(w, q, position[q] + i)]
  <2>3. Part(q) = {f[i] : i \in 1 .. take[q]} /\ DOMAIN f = 1 .. take[q]
    OBVIOUS
  <2> HIDE DEF Part, f
  <2> QED
    BY <2>2, <2>3, FiniteImage
<1>2. ASSUME NEW q \in Partitions, NEW i \in 1 .. take[q]
      PROVE  /\ NewTask(w, q, position[q] + i) \in Task
             /\ NewTask(w, q, position[q] + i).at \in DOMAIN log[q]
             /\ NewTask(w, q, position[q] + i).part = q
             /\ NewTask(w, q, position[q] + i).pc = "waiting"
  <2>1. /\ position[q] \in Nat /\ log[q] \in Seq(Jobs) /\ take[q] \in Nat /\ i \in Nat \ {0}
        /\ i <= take[q]
    BY LimitsArePositive DEF TasksInv, TasksOK
  <2>2. position[q] + i \in DOMAIN log[q]
    <3>1. take[q] <= Fetchable(w, q)
      BY <2>1
    <3>2. take[q] <= Len(log[q]) - position[q]
      BY <2>1, <3>1 DEF Fetchable
    <3> QED
      BY <2>1, <3>2
  <2>3. position[q] + i \in Nat \ {0}
    BY <2>1
  <2>4. FreeCopy(q, position[q] + i) \in Nat
    BY FreeCopyIsFree DEF TasksInv, TasksOK
  <2> QED
    BY <2>2, <2>3, <2>4 DEF NewTask, Task, TaskSteps
<1>3. Batch(w, take) = UNION {Part(q) : q \in Partitions}
  BY DEF Batch
<1>4. IsFiniteSet({Part(q) : q \in Partitions})
  <2> DEFINE f == [q \in Partitions |-> Part(q)]
  <2>1. {Part(q) : q \in Partitions} = {f[q] : q \in Partitions} /\ DOMAIN f = Partitions
    OBVIOUS
  <2>2. IsFiniteSet({f[q] : q \in Partitions})
    <3> HIDE DEF f
    <3> QED
      BY <2>1, PartitionsAreFinite, FiniteImage
  <2> QED
    BY <2>1, <2>2, Zenon
<1>5. \A S \in {Part(q) : q \in Partitions} : IsFiniteSet(S)
  BY <1>1
<1>6. IsFiniteSet(Batch(w, take))
  BY <1>3, <1>4, <1>5, FS_UNION
<1>7. ASSUME NEW t \in Batch(w, take)
      PROVE  t \in Task /\ t.at \in DOMAIN log[t.part] /\ t.pc = "waiting"
  <2>1. PICK q \in Partitions : \E i \in 1 .. take[q] : t = NewTask(w, q, position[q] + i)
    BY <1>3, <1>7
  <2> QED
    BY <1>2, <2>1
<1> QED
  BY <1>6, <1>7

LEMMA PollKeepsTasks ==
    ASSUME TasksInv, NEW w \in Workers, Poll(w)
    PROVE  TasksOK'
<1>1. PICK take \in [Partitions -> 0 .. MaxPoll] :
          /\ \A q \in Partitions : take[q] > 0 => take[q] <= Fetchable(w, q)
          /\ tasks' = tasks \union Batch(w, take)
  BY DEF Poll
<1>2. /\ IsFiniteSet(Batch(w, take)) /\ Batch(w, take) \subseteq Task
      /\ \A t \in Batch(w, take) : t.at \in DOMAIN log[t.part] /\ t.pc = "waiting"
  BY <1>1, BatchOfTasks
<1>3. IsFiniteSet(tasks')
  BY <1>1, <1>2, FS_Union DEF TasksInv, TasksOK
<1>4. UNCHANGED log
  BY DEF Poll
<1> QED
  BY <1>1, <1>2, <1>3, <1>4 DEF TasksInv, TasksOK, AtDocument, Nameable, JobOf

\* Tasks that go on, stop, or are no longer awaited.
LEMMA FewerTasks ==
    ASSUME TasksInv, UNCHANGED log, tasks' \subseteq tasks
    PROVE  TasksOK'
<1>1. IsFiniteSet(tasks')
  BY FS_Subset DEF TasksInv, TasksOK
<1> QED
  BY <1>1 DEF TasksInv, TasksOK, Nameable, JobOf

LEMMA AdvanceKeepsTasks ==
    ASSUME TasksInv, UNCHANGED log, NEW t \in tasks, NEW step \in TaskSteps,
           step \in AtDocument => Nameable(t), Advance(t, step)
    PROVE  TasksOK'
<1> DEFINE u == [t EXCEPT !.pc = step]
<1>1. t \in Task /\ t.at \in DOMAIN log[t.part]
  BY DEF TasksInv, TasksOK
<1>2. u \in Task /\ u.at = t.at /\ u.part = t.part /\ u.pc = step
  BY <1>1 DEF Task
<1> HIDE DEF u
<1>3. tasks' = (tasks \ {t}) \union {u}
  BY DEF Advance, u
<1>4. IsFiniteSet(tasks')
  <2>1. IsFiniteSet(tasks \ {t}) /\ IsFiniteSet({u})
    BY FS_Subset, FS_Singleton DEF TasksInv, TasksOK
  <2> QED
    BY <1>3, <2>1, FS_Union
<1>5. tasks' \subseteq Task
  BY <1>2, <1>3 DEF TasksInv, TasksOK
<1>6. ASSUME NEW v \in tasks'
      PROVE  v.at \in DOMAIN log[v.part] /\ (v.pc \in AtDocument => Nameable(v))
  BY <1>1, <1>2, <1>3, <1>6 DEF TasksInv, TasksOK, Nameable, JobOf
<1>7. \A v \in tasks' : Nameable(v)' <=> Nameable(v)
  BY DEF Nameable, JobOf
<1> QED
  BY <1>4, <1>5, <1>6, <1>7 DEF TasksOK

LEMMA EscapeKeepsTasks ==
    ASSUME TasksInv, NEW t \in tasks, Escape(t)
    PROVE  TasksOK'
<1>1. UNCHANGED log
  BY DEF Escape
<1>2. CASE ~t.awaited
  BY <1>1, <1>2, FewerTasks DEF Escape, Finish
<1>3. CASE t.awaited
  <2> DEFINE f == [u \in tasks \ {t} |-> [u EXCEPT !.awaited = @ /\ u.worker # t.worker]]
  <2>1. tasks' = {f[u] : u \in tasks \ {t}} /\ DOMAIN f = tasks \ {t}
    BY <1>3 DEF Escape
  <2>2. ASSUME NEW u \in tasks \ {t}
        PROVE  /\ f[u] \in Task /\ f[u].at = u.at /\ f[u].part = u.part /\ f[u].pc = u.pc
               /\ u.at \in DOMAIN log[u.part] /\ (u.pc \in AtDocument => Nameable(u))
    <3>1. u \in Task /\ u.at \in DOMAIN log[u.part] /\ (u.pc \in AtDocument => Nameable(u))
      BY DEF TasksInv, TasksOK
    <3>2. (u.awaited /\ u.worker # t.worker) \in BOOLEAN
      BY <3>1 DEF Task
    <3>3. f[u] = [u EXCEPT !.awaited = u.awaited /\ u.worker # t.worker]
      OBVIOUS
    <3> HIDE DEF f
    <3> QED
      BY <3>1, <3>2, <3>3 DEF Task
  <2> HIDE DEF f
  <2>3. IsFiniteSet(tasks \ {t})
    BY FS_Subset DEF TasksInv, TasksOK
  <2>4. IsFiniteSet(tasks')
    BY <2>1, <2>3, FiniteImage
  <2> QED
    BY <1>1, <2>1, <2>2, <2>4 DEF TasksOK, Nameable, JobOf
<1> QED
  BY <1>2, <1>3

\* A statement that overwrites one row.
LEMMA RewriteKeepsRows ==
    ASSUME TasksInv, UNCHANGED log, NEW d \in Submissions, NEW row \in Row,
           documents' = [documents EXCEPT ![d] = row],
           results \subseteq results', results' \subseteq Submissions,
           row.status = "COMPLETED" => d \in results'
    PROVE  RowsOK'
<1>1. documents \in Tables /\ documents' \in Tables
  BY DEF TasksInv, RowsOK, Tables
<1>2. row # None
  BY NoneIsNoRow
<1>3. \A e \in Submissions : documents'[e] = IF e = d THEN row ELSE documents[e]
  BY <1>1 DEF Tables
<1>4. \A e \in Submissions : documents[e] # None => documents'[e] # None
  BY <1>2, <1>3
<1>5. CompletedHasResult'
  BY <1>3 DEF TasksInv, RowsOK, CompletedHasResult, Stored
<1>6. \A q \in Partitions : \A i \in DOMAIN log[q] : log[q][i] \in Jobs
  BY DEF TasksInv
<1>7. \A q \in Partitions : \A i \in DOMAIN log[q] :
          log[q][i].kind = "document" => documents'[log[q][i].of] # None
  BY <1>4, <1>6 DEF TasksInv, RowsOK, Jobs
<1> QED
  BY <1>1, <1>5, <1>7 DEF RowsOK

\* A statement that writes no row.
LEMMA SameRows ==
    ASSUME TasksInv, UNCHANGED <<log, documents, results>>
    PROVE  RowsOK'
BY DEF TasksInv, RowsOK, CompletedHasResult, Stored

\* The row a task names exists, and overwriting its status leaves a row.
LEMMA NamedRow ==
    ASSUME TasksInv, NEW t \in tasks, t.pc \in AtDocument
    PROVE  JobOf(t).of \in Submissions /\ documents[JobOf(t).of] \in Row
<1>1. t \in Task /\ t.at \in DOMAIN log[t.part] /\ Nameable(t)
  BY DEF TasksInv, TasksOK
<1>2. t.part \in Partitions
  BY <1>1 DEF Task
<1>3. JobOf(t) \in Jobs
  BY <1>1, <1>2 DEF JobOf, TasksInv
<1>4. JobOf(t).of \in Submissions
  BY <1>3 DEF Jobs
<1>5. documents[JobOf(t).of] # None
  BY <1>1, <1>2 DEF TasksInv, RowsOK, Nameable, JobOf
<1> QED
  BY <1>4, <1>5 DEF TasksInv, RowsOK, Tables

LEMMA StatusKeepsRows ==
    ASSUME TasksInv, UNCHANGED log, NEW t \in tasks, t.pc \in AtDocument,
           StartProcessing(t) \/ SaveResult(t) \/ (RecordFailure(t) /\ UNCHANGED results)
    PROVE  RowsOK'
<1> DEFINE d == JobOf(t).of
<1>1. d \in Submissions /\ documents[d] \in Row
  BY NamedRow
<1>2. documents \in Tables /\ results \subseteq Submissions
  BY DEF TasksInv, RowsOK
<1> HIDE DEF d
<1>3. CASE StartProcessing(t)
  <2> DEFINE row == [documents[d] EXCEPT !.status = "PROCESSING"]
  <2>1. row \in Row /\ row.status # "COMPLETED"
    BY <1>1 DEF Row, Status
  <2>2. documents' = [documents EXCEPT ![d] = row]
    BY <1>3 DEF StartProcessing, SetStatus, d
  <2>3. UNCHANGED results
    BY <1>3 DEF StartProcessing
  <2> HIDE DEF row
  <2> QED
    BY <1>1, <1>2, <2>1, <2>2, <2>3, RewriteKeepsRows
<1>4. CASE SaveResult(t)
  <2> DEFINE row == [documents[d] EXCEPT !.status = "COMPLETED"]
  <2>1. row \in Row
    BY <1>1 DEF Row, Status
  <2>2. documents' = [documents EXCEPT ![d] = row]
    BY <1>4 DEF SaveResult, SetStatus, d
  <2>3. results' = results \union {d}
    BY <1>4 DEF SaveResult, d
  <2> HIDE DEF row
  <2> QED
    BY <1>1, <1>2, <2>1, <2>2, <2>3, RewriteKeepsRows
<1>5. CASE RecordFailure(t) /\ UNCHANGED results
  <2> DEFINE status == IF RetryCount < MaxRetries THEN "RETRYING" ELSE "FAILED"
             row == [documents[d] EXCEPT !.status = status, !.retries = RetryCount]
  <2>1. row \in Row /\ row.status # "COMPLETED"
    BY <1>1 DEF Row, Status, RetryCount
  <2>2. documents' = [documents EXCEPT ![d] = row]
    BY <1>5 DEF RecordFailure, d
  <2> HIDE DEF row
  <2> QED
    BY <1>1, <1>2, <1>5, <2>1, <2>2, RewriteKeepsRows
<1> QED
  BY <1>3, <1>4, <1>5

LEMMA StepKeepsTasks ==
    ASSUME TasksInv, NEW t \in tasks, Step(t)
    PROVE  UNCHANGED log /\ TasksOK'
<1>0. UNCHANGED log
  BY DEF Step, Begin, Process, Consume, SkipCompleted, Check, FailEarly, PassUnrecorded, Mark,
         Save, FailProcessing, Retry, Report, Escape, LoopsGoOn
<1>1. t.pc \in AtDocument => Nameable(t)
  BY DEF TasksInv, TasksOK
<1>2. ASSUME NEW step \in {"consume", "report"}, Advance(t, step)
      PROVE  TasksOK'
  BY <1>0, <1>2, AdvanceKeepsTasks DEF TaskSteps, AtDocument
<1>3. ASSUME NEW step \in {"check", "mark", "save", "retry"}, Nameable(t), Advance(t, step)
      PROVE  TasksOK'
  BY <1>0, <1>3, AdvanceKeepsTasks DEF TaskSteps
<1>4. Finish(t) => TasksOK'
  BY <1>0, FewerTasks DEF Finish
<1>5. CASE Begin(t) \/ FailEarly(t) \/ Retry(t)
  BY <1>0, <1>2, <1>5 DEF Begin, FailEarly, Retry
<1>6. CASE Consume(t) \/ Check(t) \/ Mark(t) \/ FailProcessing(t)
  BY <1>0, <1>1, <1>3, <1>6 DEF Consume, Check, Mark, FailProcessing, AtDocument
<1>7. CASE PassUnrecorded(t) \/ SkipCompleted(t) \/ Save(t) \/ Report(t)
  BY <1>0, <1>4, <1>7 DEF PassUnrecorded, SkipCompleted, Save, Report
<1>8. CASE Escape(t)
  BY <1>0, <1>8, EscapeKeepsTasks
<1> QED
  BY <1>0, <1>5, <1>6, <1>7, <1>8 DEF Step, Process

LEMMA StepKeepsRows ==
    ASSUME TasksInv, NEW t \in tasks, Step(t)
    PROVE  RowsOK'
<1>0. UNCHANGED log
  BY StepKeepsTasks
<1>1. CASE NoEffect
  BY <1>0, <1>1, SameRows DEF NoEffect
<1>2. CASE Mark(t) \/ Save(t)
  BY <1>0, <1>2, StatusKeepsRows DEF Mark, Save, AtDocument
<1>3. CASE FailProcessing(t)
  BY <1>0, <1>1, <1>3, StatusKeepsRows DEF FailProcessing, AtDocument
<1>4. CASE Retry(t)
  BY <1>0, <1>4, SameRows, StatusKeepsRows DEF Retry, AtDocument
<1> QED
  BY <1>1, <1>2, <1>3, <1>4
     DEF Step, Begin, Process, Consume, SkipCompleted, Check, FailEarly, PassUnrecorded, Report,
         Escape

\* A worker inserts and removes no row, and changes nothing that a row is found by.
NameKept(d) ==
    /\ documents'[d] = None <=> documents[d] = None
    /\ documents[d] # None =>
          /\ documents'[d].key = documents[d].key
          /\ documents'[d].agency = documents[d].agency
          /\ documents'[d].seq = documents[d].seq

LEMMA StatementKeepsNames ==
    ASSUME TasksInv, NEW t \in tasks, t.pc \in AtDocument,
           StartProcessing(t) \/ SaveResult(t) \/ RecordFailure(t),
           NEW e \in Submissions
    PROVE  NameKept(e)
<1> DEFINE d == JobOf(t).of
<1>1. d \in Submissions /\ documents[d] \in Row
  BY NamedRow
<1>2. documents \in Tables
  BY DEF TasksInv, RowsOK
<1> HIDE DEF d
<1>3. PICK row \in Row :
          /\ documents' = [documents EXCEPT ![d] = row]
          /\ row.key = documents[d].key /\ row.agency = documents[d].agency
          /\ row.seq = documents[d].seq
  <2>1. ASSUME NEW status \in Status
        PROVE  LET row == [documents[d] EXCEPT !.status = status]
               IN  row \in Row /\ row.key = documents[d].key /\ row.agency = documents[d].agency
                       /\ row.seq = documents[d].seq
    BY <1>1 DEF Row
  <2>2. CASE StartProcessing(t)
    BY <2>1, <2>2 DEF StartProcessing, SetStatus, d, Status
  <2>3. CASE SaveResult(t)
    BY <2>1, <2>3 DEF SaveResult, SetStatus, d, Status
  <2>4. CASE RecordFailure(t)
    <3> DEFINE status == IF RetryCount < MaxRetries THEN "RETRYING" ELSE "FAILED"
               row == [documents[d] EXCEPT !.status = status, !.retries = RetryCount]
    <3>1. /\ row \in Row /\ row.key = documents[d].key /\ row.agency = documents[d].agency
          /\ row.seq = documents[d].seq
      BY <1>1 DEF Row, Status, RetryCount
    <3>2. documents' = [documents EXCEPT ![d] = row]
      BY <2>4 DEF RecordFailure, d
    <3> HIDE DEF row
    <3> QED
      BY <3>1, <3>2
  <2> QED
    BY <2>2, <2>3, <2>4
<1> QED
  BY <1>1, <1>2, <1>3, NoneIsNoRow DEF NameKept, Tables

LEMMA WorkersKeepNames ==
    ASSUME TasksInv, [PoolNext]_vars, NEW d \in Submissions
    PROVE  NameKept(d)
<1>1. ASSUME NEW t \in tasks, Step(t)
      PROVE  NameKept(d)
  <2>1. CASE UNCHANGED documents
    BY <2>1 DEF NameKept
  <2>2. CASE t.pc \in AtDocument /\ (StartProcessing(t) \/ SaveResult(t) \/ RecordFailure(t))
    BY <2>2, StatementKeepsNames
  <2> QED
    BY <1>1, <2>1, <2>2
       DEF Step, Begin, Process, Consume, SkipCompleted, Check, FailEarly, PassUnrecorded, Mark,
           Save, FailProcessing, Retry, Report, Escape, NoEffect, AtDocument
<1>2. CASE UNCHANGED documents
  BY <1>2 DEF NameKept
<1>3. ASSUME NEW w \in Workers, Start(w) \/ Crash(w) \/ Shutdown(w) \/ Run(w)
      PROVE  UNCHANGED documents
  BY <1>3 DEF Start, Crash, Shutdown, StopConsumer, SignOff, ClosePool, Exit, Run, Poll, Gathered,
              Commit, CommitFails, Resume
<1>4. Rebalance \/ UNCHANGED vars => UNCHANGED documents
  BY DEF Rebalance, vars
<1> QED
  BY <1>1, <1>2, <1>3, <1>4 DEF PoolNext

LEMMA TasksInvStep == TasksInv /\ OffsetInv /\ [PoolNext]_vars => (TasksInv /\ OffsetInv)'
<1> SUFFICES ASSUME TasksInv, OffsetInv, [PoolNext]_vars
             PROVE  (TasksInv /\ OffsetInv)'
  OBVIOUS
<1>1. OffsetInv' /\ UNCHANGED log
  BY OffsetInvStep, OffsetSteps
<1>2. log' \in [Partitions -> Seq(Jobs)] /\ position' \in [Partitions -> Nat]
  BY <1>1 DEF OffsetInv
<1>3. ASSUME NEW t \in tasks, Step(t)
      PROVE  TasksOK' /\ RowsOK'
  BY <1>3, StepKeepsTasks, StepKeepsRows
<1>4. ASSUME NEW w \in Workers, Poll(w)
      PROVE  TasksOK' /\ RowsOK'
  BY <1>1, <1>4, PollKeepsTasks, SameRows DEF Poll
<1>5. ASSUME UNCHANGED <<documents, results>>, tasks' \subseteq tasks
      PROVE  TasksOK' /\ RowsOK'
  BY <1>1, <1>5, FewerTasks, SameRows
<1>6. ASSUME NEW w \in Workers, Start(w) \/ Crash(w) \/ Shutdown(w) \/ Run(w), ~Poll(w)
      PROVE  UNCHANGED <<documents, results>> /\ tasks' \subseteq tasks
  BY <1>6 DEF Start, Crash, Shutdown, StopConsumer, SignOff, ClosePool, Exit, Run, Gathered, Commit,
              CommitFails, Resume
<1>7. Rebalance \/ UNCHANGED vars => UNCHANGED <<documents, results>> /\ tasks' \subseteq tasks
  BY DEF Rebalance, vars, poolVars, workerVars
<1>8. TasksOK' /\ RowsOK'
  BY <1>3, <1>4, <1>5, <1>6, <1>7 DEF PoolNext
<1> QED
  BY <1>1, <1>2, <1>8 DEF TasksInv

\* A document is COMPLETED only with its result: the two are written in one transaction,
\* and a statement of another task that fails or comes late can only take the status away.
THEOREM CompletedHasResultHolds == Spec => []CompletedHasResult
<1>1. TasksInv => CompletedHasResult
  BY DEF TasksInv, RowsOK
<1> QED
  BY TasksInvInit, TasksInvStep, OffsetInvInit, <1>1, PTL DEF Spec

-----------------------------------------------------------------------------
(* Types *)

\* What the loops, the pools and the group are made of.
PoolTypes ==
    /\ owner \in [Partitions -> Workers \union {None}]
    /\ loop \in [Workers -> {"down", "poll", "gather", "commit", "backoff"}]
    /\ pool \in [Workers -> {"open", "closing", "none"}]
    /\ draining \in [Workers -> BOOLEAN]
    /\ group \subseteq Workers
    /\ disruptions \in 0 .. MaxDisruptions

LEMMA PoolTypesInit == Init => PoolTypes
BY MaxDisruptionsIsNat DEF Init, PoolInit, PoolTypes

LEMMA PoolTypesStep == TasksInv /\ PoolTypes /\ [PoolNext]_vars => PoolTypes'
<1> SUFFICES ASSUME TasksInv, PoolTypes, [PoolNext]_vars
             PROVE  PoolTypes'
  OBVIOUS
<1> USE DEF PoolTypes
<1>1. ASSUME NEW w \in Workers, Start(w)
      PROVE  PoolTypes'
  BY <1>1, StartPoolsAreFlags DEF Start, groupVars
<1>2. ASSUME NEW w \in Workers, Crash(w)
      PROVE  PoolTypes'
  BY <1>2, MaxDisruptionsIsNat DEF Crash, Disrupt, Leave
<1>3. ASSUME NEW w \in Workers, StopConsumer(w)
      PROVE  PoolTypes'
  BY <1>3, MaxDisruptionsIsNat DEF StopConsumer, Disrupt, Leave
<1>4. ASSUME NEW w \in Workers, SignOff(w) \/ ClosePool(w) \/ Exit(w)
      PROVE  PoolTypes'
  BY <1>4 DEF SignOff, ClosePool, Exit, groupVars
<1>5. ASSUME NEW w \in Workers, Run(w)
      PROVE  PoolTypes'
  BY <1>5 DEF Run, Poll, Gathered, Commit, CommitFails, Resume, groupVars
<1>6. ASSUME NEW t \in tasks, Step(t)
      PROVE  PoolTypes'
  <2>1. CASE Escape(t)
    BY <2>1 DEF Escape, groupVars
  <2>2. CASE ~Escape(t)
    BY <1>6, <2>2 DEF Step, Begin, Process, Consume, SkipCompleted, Check, FailEarly,
                      PassUnrecorded, Mark, Save, FailProcessing, Retry, Report, LoopsGoOn, groupVars
  <2> QED
    BY <2>1, <2>2
<1>7. CASE Rebalance
  BY <1>7, MaxDisruptionsIsNat DEF Rebalance, Disrupt, Members, Live
<1>8. CASE UNCHANGED vars
  BY <1>8 DEF vars, poolVars, groupVars, workerVars
<1> QED
  BY <1>1, <1>2, <1>3, <1>4, <1>5, <1>6, <1>7, <1>8 DEF PoolNext, Shutdown

\* No step takes a worker, a task, an offset or a row out of its domain; in particular every
\* task works on a record that exists, also after rebalances and escaped exceptions.
THEOREM TypesHold == Spec => []TypeOK
<1>1. TasksInv /\ OffsetInv /\ PoolTypes => TypeOK
  BY DEF TasksInv, TasksOK, RowsOK, Tables, OffsetInv, PoolTypes, TypeOK
<1> QED
  BY TasksInvInit, TasksInvStep, OffsetInvInit, PoolTypesInit, PoolTypesStep, <1>1, PTL DEF Spec

-----------------------------------------------------------------------------
(* Nothing is committed over work in flight *)

\* PostgreSQL answers every statement, and was there when the workers started.
NoStatementFails == "db" \notin WorkerFaults /\ StartPools \subseteq {TRUE}

\* The API had its database too: every record names a document.
TopicHasNoFallback ==
    \A q \in Partitions : \A i \in DOMAIN Topic[q] : Topic[q][i].kind = "document"

Answered(q, i) == log[q][i].of \in results

\* The owner of q still waits for its task of record i.
UnderWay(q, i) ==
    /\ loop[owner[q]] = "gather"
    /\ \E t \in tasks : t.worker = owner[q] /\ t.part = q /\ t.at = i /\ t.awaited

OwnersAreMembers == \A q \in Partitions : owner[q] # None => owner[q] \in Members

\* Statements fail only at a worker that closes its pool, and such a worker has left.
MembersGoWell ==
    /\ \A w \in Members : pool[w] = "open"
    /\ \A t \in tasks :
          /\ loop[t.worker] # "down"
          /\ t.worker \in Members => t.pc \notin {"retry", "report"}

HandledInv ==
    /\ OwnersAreMembers
    /\ MembersGoWell
    /\ \A q \in Partitions : \A i \in DOMAIN log[q] :
          /\ log[q][i].kind = "document"
          /\ Passed(q, i) => Answered(q, i)
          /\ owner[q] # None /\ i <= position[q] => Answered(q, i) \/ UnderWay(q, i)

LEMMA HandledInvInit ==
    ASSUME TopicHasNoFallback, Init
    PROVE  HandledInv
<1>1. /\ log = Topic /\ owner = [q \in Partitions |-> None] /\ tasks = {}
      /\ committed = [q \in Partitions |-> 0] /\ Members = {}
  BY DEF Init, PoolInit, Members, Live
<1>2. ASSUME NEW q \in Partitions, NEW i \in DOMAIN log[q]
      PROVE  log[q][i].kind = "document" /\ ~Passed(q, i) /\ owner[q] = None
  <2>1. i \in Nat \ {0}
    BY <1>1, TopicIsATopic
  <2> QED
    BY <1>1, <1>2, <2>1 DEF TopicHasNoFallback, Passed
<1> QED
  BY <1>1, <1>2 DEF HandledInv, OwnersAreMembers, MembersGoWell

\* At a member no statement raises: a task of a member goes on towards its result.
LEMMA TaskOfMember ==
    ASSUME NoStatementFails, TasksInv, HandledInv, NEW t \in tasks, Step(t),
           t.worker \in Members
    PROVE  /\ UNCHANGED loop
           /\ \/ \E step \in {"consume", "check", "mark", "save"} : Advance(t, step)
              \/ Finish(t) /\ JobOf(t).of \in results'
<1>1. pool[t.worker] = "open" /\ t.pc \notin {"retry", "report"}
  BY DEF HandledInv, MembersGoWell
<1>2. HasPool(t) /\ ~MayFail(t)
  BY <1>1 DEF HasPool, MayFail, NoStatementFails
<1>3. t \in Task /\ t.at \in DOMAIN log[t.part]
  BY DEF TasksInv, TasksOK
<1>4. Nameable(t)
  BY <1>3 DEF HandledInv, Nameable, JobOf, Task
<1>5. Begin(t) \/ Consume(t) \/ SkipCompleted(t) \/ Check(t) \/ Mark(t) \/ Save(t)
  BY <1>1, <1>2, <1>4 DEF Step, Process, FailEarly, PassUnrecorded, FailProcessing, Retry, Report,
                          Escape
<1>6. UNCHANGED loop
  BY <1>5 DEF Begin, Consume, SkipCompleted, Check, Mark, Save, LoopsGoOn
<1>7. CASE Begin(t) \/ Consume(t) \/ Check(t) \/ Mark(t)
  BY <1>6, <1>7 DEF Begin, Consume, Check, Mark
<1>8. CASE SkipCompleted(t) \/ Save(t)
  BY <1>6, <1>8 DEF SkipCompleted, Save, SaveResult, NoEffect
<1> QED
  BY <1>5, <1>7, <1>8

\* What a step of any task leaves alone.
LEMMA TaskStepFrame ==
    ASSUME NEW t \in tasks, Step(t)
    PROVE  /\ UNCHANGED <<log, owner, position, committed, group, pool, draining>>
           /\ results \subseteq results'
           /\ UNCHANGED loop \/ loop' = [loop EXCEPT ![t.worker] = "backoff"]
           /\ \/ Finish(t)
              \/ \E step \in TaskSteps : Advance(t, step)
              \/ tasks' = {[u EXCEPT !.awaited = @ /\ u.worker # t.worker] : u \in tasks \ {t}}
<1> USE DEF groupVars
<1>1. CASE Begin(t) \/ Consume(t) \/ Check(t) \/ FailEarly(t)
  BY <1>1 DEF Begin, Consume, Check, FailEarly, LoopsGoOn, NoEffect, TaskSteps
<1>2. CASE Mark(t) \/ FailProcessing(t) \/ Retry(t)
  BY <1>2 DEF Mark, FailProcessing, Retry, StartProcessing, SaveResult, LoopsGoOn, NoEffect, TaskSteps
<1>3. CASE PassUnrecorded(t) \/ SkipCompleted(t) \/ Save(t) \/ Report(t)
  BY <1>3 DEF PassUnrecorded, SkipCompleted, Save, Report, SaveResult, LoopsGoOn, NoEffect
<1>4. CASE Escape(t)
  BY <1>4 DEF Escape, NoEffect
<1> QED
  BY <1>1, <1>2, <1>3, <1>4 DEF Step, Process

LEMMA TaskStepKeepsHandled ==
    ASSUME NoStatementFails, TasksInv, PoolTypes, HandledInv, NEW t \in tasks, Step(t)
    PROVE  HandledInv'
<1>0. /\ t \in Task /\ t.worker \in Workers /\ tasks \subseteq Task
      /\ loop \in [Workers -> {"down", "poll", "gather", "commit", "backoff"}]
  BY DEF TasksInv, TasksOK, Task, PoolTypes
<1>1. /\ UNCHANGED <<log, owner, position, committed, pool, draining>>
      /\ results \subseteq results'
      /\ UNCHANGED loop \/ loop' = [loop EXCEPT ![t.worker] = "backoff"]
  BY TaskStepFrame
<1>2. loop[t.worker] # "down"
  BY DEF HandledInv, MembersGoWell
<1>3. \A w \in Workers : loop'[w] = "down" <=> loop[w] = "down"
  BY <1>0, <1>1, <1>2
<1>4. Members' = Members
  BY <1>1, <1>3 DEF Members, Live
<1>5. \A w \in Members : loop'[w] = loop[w]
  <2>1. \A w \in Members : w # t.worker => loop'[w] = loop[w]
    BY <1>0, <1>1 DEF Members, Live
  <2>2. t.worker \in Members => UNCHANGED loop
    BY TaskOfMember
  <2> QED
    BY <2>1, <2>2
<1>6. ASSUME NEW u \in tasks'
      PROVE  \E v \in tasks : /\ u.worker = v.worker
                              /\ \/ u.pc = v.pc
                                 \/ v = t /\ (t.worker \in Members => u.pc \notin {"retry", "report"})
  <2>1. CASE Finish(t)
    BY <2>1, <1>6 DEF Finish
  <2>2. ASSUME NEW step \in TaskSteps, Advance(t, step)
        PROVE  \E v \in tasks : /\ u.worker = v.worker
                                /\ \/ u.pc = v.pc
                                   \/ v = t /\ (t.worker \in Members => u.pc \notin {"retry", "report"})
    <3>1. CASE u \in tasks
      BY <3>1
    <3>2. CASE u = [t EXCEPT !.pc = step]
      <4>1. u.worker = t.worker /\ u.pc = step
        BY <1>0, <3>2 DEF Task
      <4>2. t.worker \in Members => step \notin {"retry", "report"}
        <5> SUFFICES ASSUME t.worker \in Members PROVE step \notin {"retry", "report"}
          OBVIOUS
        <5>1. PICK s \in {"consume", "check", "mark", "save"} :
                  Advance(t, s) \/ Finish(t)
          BY TaskOfMember
        <5>2. [t EXCEPT !.pc = step] \in tasks' /\ [t EXCEPT !.pc = step].pc = step
          BY <1>0, <2>2 DEF Advance, Task
        <5>3. [t EXCEPT !.pc = step] \in tasks \/ step = s
          BY <5>1, <5>2, <1>0 DEF Advance, Finish, Task
        <5> QED
          BY <5>1, <5>2, <5>3, <1>0 DEF HandledInv, MembersGoWell, Task
      <4> QED
        BY <4>1, <4>2
    <3> QED
      BY <2>2, <1>6, <3>1, <3>2 DEF Advance
  <2>3. CASE tasks' = {[v EXCEPT !.awaited = @ /\ v.worker # t.worker] : v \in tasks \ {t}}
    <3>1. PICK v \in tasks \ {t} : u = [v EXCEPT !.awaited = @ /\ v.worker # t.worker]
      BY <2>3, <1>6
    <3>2. u.worker = v.worker /\ u.pc = v.pc
      BY <3>1, <1>0 DEF Task
    <3> QED
      BY <3>2
  <2> QED
    BY <2>1, <2>2, <2>3, TaskStepFrame
<1>7. MembersGoWell'
  <2>1. \A w \in Members' : pool'[w] = "open"
    BY <1>1, <1>4 DEF HandledInv, MembersGoWell
  <2>2. ASSUME NEW u \in tasks'
        PROVE  loop'[u.worker] # "down" /\ (u.worker \in Members' => u.pc \notin {"retry", "report"})
    <3>1. PICK v \in tasks : /\ u.worker = v.worker
                             /\ \/ u.pc = v.pc
                                \/ v = t /\ (t.worker \in Members => u.pc \notin {"retry", "report"})
      BY <1>6
    <3>2. v.worker \in Workers
      BY <1>0 DEF Task
    <3> QED
      BY <1>3, <1>4, <3>1, <3>2 DEF HandledInv, MembersGoWell
  <2> QED
    BY <2>1, <2>2 DEF MembersGoWell
<1>8. ASSUME NEW q \in Partitions, NEW i \in DOMAIN log[q], owner[q] # None, UnderWay(q, i)
      PROVE  Answered(q, i)' \/ UnderWay(q, i)'
  <2>1. PICK v \in tasks : v.worker = owner[q] /\ v.part = q /\ v.at = i /\ v.awaited
    BY <1>8 DEF UnderWay
  <2>2. owner[q] \in Members /\ loop'[owner[q]] = "gather"
    BY <1>5, <1>8 DEF HandledInv, OwnersAreMembers, UnderWay
  <2>3. CASE v = t
    <3>1. CASE Finish(t) /\ JobOf(t).of \in results'
      BY <1>1, <2>1, <2>3, <3>1 DEF JobOf, Answered
    <3>2. ASSUME NEW step, Advance(t, step)
          PROVE  UnderWay(q, i)'
      <4> DEFINE u == [t EXCEPT !.pc = step]
      <4>1. u \in tasks' /\ u.worker = t.worker /\ u.part = t.part /\ u.at = t.at
            /\ u.awaited = t.awaited
        BY <3>2, <1>0 DEF Advance, Task
      <4> QED
        BY <1>1, <2>1, <2>2, <2>3, <4>1 DEF UnderWay
    <3> QED
      BY <2>1, <2>2, <2>3, <3>1, <3>2, TaskOfMember
  <2>4. CASE v # t
    <3>1. v \in tasks'
      <4>1. CASE Finish(t) \/ \E step : Advance(t, step)
        BY <2>4, <4>1 DEF Finish, Advance
      <4>2. CASE tasks' = {[u EXCEPT !.awaited = @ /\ u.worker # t.worker] : u \in tasks \ {t}}
        <5>1. CASE t.worker \in Members
          <6>1. PICK step : Advance(t, step) \/ Finish(t)
            BY <5>1, TaskOfMember
          <6> QED
            BY <2>4, <6>1 DEF Finish, Advance
        <5>2. CASE t.worker \notin Members
          <6>1. v.worker # t.worker /\ v \in Task
            BY <1>0, <2>1, <2>2, <5>2
          <6>2. [v EXCEPT !.awaited = @ /\ v.worker # t.worker] = v
            BY <2>1, <6>1 DEF Task
          <6> QED
            BY <2>4, <4>2, <6>2
        <5> QED
          BY <5>1, <5>2
      <4> QED
        BY <4>1, <4>2, TaskStepFrame
    <3> QED
      BY <1>1, <2>1, <2>2, <3>1 DEF UnderWay
  <2> QED
    BY <2>3, <2>4
<1>9. OwnersAreMembers'
  BY <1>1, <1>4 DEF HandledInv, OwnersAreMembers
<1> QED
  BY <1>1, <1>7, <1>8, <1>9 DEF HandledInv, Answered, Passed

\* A worker that leaves the group, or has left it: its partitions are nobody's, and the
\* tasks of the others are left alone.
LEMMA LeavingKeepsHandled ==
    ASSUME TasksInv, HandledInv, UNCHANGED <<log, results, position, committed>>,
           NEW w \in Workers, Members' = Members \ {w},
           \A q \in Partitions : owner'[q] = IF owner[q] = w THEN None ELSE owner[q],
           \A v \in Workers \ {w} : loop'[v] = loop[v] /\ pool'[v] = pool[v],
           tasks' \subseteq tasks, \A t \in tasks : t.worker # w => t \in tasks',
           \A t \in tasks' : t.worker = w => loop'[w] # "down"
    PROVE  HandledInv'
<1>1. \A v \in Members' : v \in Workers \ {w} /\ v \in Members
  BY DEF Members, Live
<1>2. OwnersAreMembers'
  BY DEF HandledInv, OwnersAreMembers
<1>3. MembersGoWell'
  <2>1. \A v \in Members' : pool'[v] = "open"
    BY <1>1 DEF HandledInv, MembersGoWell
  <2>2. ASSUME NEW t \in tasks'
        PROVE  loop'[t.worker] # "down" /\ (t.worker \in Members' => t.pc \notin {"retry", "report"})
    <3>1. t \in tasks /\ t.worker \in Workers
      BY DEF TasksInv, TasksOK, Task
    <3> QED
      BY <1>1, <3>1 DEF HandledInv, MembersGoWell
  <2> QED
    BY <2>1, <2>2 DEF MembersGoWell
<1>4. ASSUME NEW q \in Partitions, NEW i \in DOMAIN log[q], owner'[q] # None, i <= position[q]
      PROVE  Answered(q, i)' \/ UnderWay(q, i)'
  <2>1. owner'[q] = owner[q] /\ owner[q] # w /\ owner[q] # None /\ owner[q] \in Workers
    BY <1>4 DEF HandledInv, OwnersAreMembers, Members, Live
  <2>2. Answered(q, i) \/ UnderWay(q, i)
    BY <1>4, <2>1 DEF HandledInv
  <2>3. UnderWay(q, i) => UnderWay(q, i)'
    BY <2>1 DEF UnderWay
  <2> QED
    BY <2>2, <2>3 DEF Answered
<1> QED
  BY <1>2, <1>3, <1>4 DEF HandledInv, Answered, Passed

LEMMA WorkerLeaves ==
    ASSUME TasksInv, PoolTypes, HandledInv, NEW w \in Workers, Crash(w) \/ Shutdown(w)
    PROVE  HandledInv'
<1>0. /\ \A t \in tasks : t \in Task /\ loop[t.worker] # "down"
      /\ owner \in [Partitions -> Workers \union {None}]
      /\ loop \in [Workers -> {"down", "poll", "gather", "commit", "backoff"}]
      /\ pool \in [Workers -> {"open", "closing", "none"}] /\ draining \in [Workers -> BOOLEAN]
  BY DEF HandledInv, MembersGoWell, TasksInv, TasksOK, PoolTypes
<1>1. \A q \in Partitions : owner[q] = w => w \in Members
  BY NoneIsNoWorker DEF HandledInv, OwnersAreMembers
<1>2. CASE Crash(w)
  <2>1. Members' = Members \ {w}
    BY <1>0, <1>2 DEF Crash, Members, Live
  <2>2. UNCHANGED <<log, results, position, committed>>
    BY <1>2 DEF Crash, Leave
  <2>3. /\ \A q \in Partitions : owner'[q] = IF owner[q] = w THEN None ELSE owner[q]
        /\ \A v \in Workers \ {w} : loop'[v] = loop[v] /\ pool'[v] = pool[v]
    BY <1>0, <1>2 DEF Crash, Leave
  <2>4. tasks' = {t \in tasks : t.worker # w}
    BY <1>2 DEF Crash, TasksOf
  <2> QED
    BY <2>1, <2>2, <2>3, <2>4, LeavingKeepsHandled
<1>3. CASE StopConsumer(w)
  <2>1. Members' = Members \ {w}
    BY <1>0, <1>3 DEF StopConsumer, Members, Live
  <2>2. UNCHANGED <<log, results, position, committed, loop, pool, tasks>>
    BY <1>3 DEF StopConsumer, Leave
  <2>3. \A q \in Partitions : owner'[q] = IF owner[q] = w THEN None ELSE owner[q]
    BY <1>0, <1>3 DEF StopConsumer, Leave
  <2> QED
    BY <1>0, <2>1, <2>2, <2>3, LeavingKeepsHandled
<1>4. CASE SignOff(w) \/ ClosePool(w)
  <2>1. w \notin Members
    BY <1>4 DEF SignOff, ClosePool, Members, HandledInv, MembersGoWell
  <2>2. UNCHANGED <<log, results, position, committed, owner, loop, draining, tasks>>
    BY <1>4 DEF SignOff, ClosePool, groupVars
  <2>3. Members' = Members \ {w}
    BY <2>1, <2>2 DEF Members, Live
  <2>4. \A v \in Workers \ {w} : pool'[v] = pool[v]
    BY <1>0, <1>4 DEF SignOff, ClosePool
  <2> QED
    BY <1>0, <1>1, <2>1, <2>2, <2>3, <2>4, LeavingKeepsHandled
<1>5. CASE Exit(w)
  <2>1. Members' = Members \ {w} /\ w \notin Members
    BY <1>0, <1>5 DEF Exit, Members, Live
  <2>2. UNCHANGED <<log, results, position, committed, owner>>
    BY <1>5 DEF Exit, groupVars
  <2>3. \A v \in Workers \ {w} : loop'[v] = loop[v] /\ pool'[v] = pool[v]
    BY <1>0, <1>5 DEF Exit
  <2>4. tasks' = {t \in tasks : t.worker # w}
    BY <1>5 DEF Exit, TasksOf
  <2> QED
    BY <1>1, <2>1, <2>2, <2>3, <2>4, LeavingKeepsHandled
<1> QED
  BY <1>2, <1>3, <1>4, <1>5 DEF Shutdown

LEMMA StartKeepsHandled ==
    ASSUME NoStatementFails, TasksInv, PoolTypes, HandledInv, NEW w \in Workers, Start(w)
    PROVE  HandledInv'
<1>0. /\ \A t \in tasks : t \in Task /\ loop[t.worker] # "down"
      /\ loop \in [Workers -> {"down", "poll", "gather", "commit", "backoff"}]
      /\ pool \in [Workers -> {"open", "closing", "none"}] /\ draining \in [Workers -> BOOLEAN]
  BY DEF HandledInv, MembersGoWell, TasksInv, TasksOK, PoolTypes
<1>1. UNCHANGED <<log, results, owner, position, committed, tasks>> /\ loop[w] = "down"
  BY DEF Start, groupVars
<1>2. Members' = Members \union {w} /\ w \notin Members
  BY <1>0 DEF Start, Members, Live
<1>3. /\ \A v \in Workers \ {w} : loop'[v] = loop[v] /\ pool'[v] = pool[v]
      /\ pool'[w] = "open"
  BY <1>0 DEF Start, NoStatementFails
<1>4. \A t \in tasks : t.worker # w /\ t.worker \in Workers
  BY <1>0, <1>1 DEF Task
<1>5. MembersGoWell'
  BY <1>1, <1>2, <1>3, <1>4 DEF HandledInv, MembersGoWell, Members, Live
<1>6. OwnersAreMembers'
  BY <1>1, <1>2 DEF HandledInv, OwnersAreMembers
<1>7. ASSUME NEW q \in Partitions, NEW i \in DOMAIN log[q], owner[q] # None, UnderWay(q, i)
      PROVE  UnderWay(q, i)'
  <2>1. owner[q] \in Workers \ {w}
    BY <1>2, <1>7 DEF HandledInv, OwnersAreMembers, Members, Live
  <2> QED
    BY <1>1, <1>3, <1>7, <2>1 DEF UnderWay
<1> QED
  BY <1>1, <1>5, <1>6, <1>7 DEF HandledInv, Answered, Passed

LEMMA RebalanceKeepsHandled ==
    ASSUME HandledInv, Rebalance
    PROVE  HandledInv'
<1>1. UNCHANGED <<log, results, committed, loop, pool, draining, tasks>> /\ Members' = Members
  BY DEF Rebalance, Members, Live
<1>2. OwnersAreMembers' /\ position' = committed
  BY <1>1 DEF Rebalance, OwnersAreMembers
<1>3. MembersGoWell'
  BY <1>1 DEF HandledInv, MembersGoWell
<1> QED
  BY <1>1, <1>2, <1>3 DEF HandledInv, Answered, Passed

\* What w has read of its partitions is answered when it does not wait for a task.
LEMMA ReadIsAnswered ==
    ASSUME HandledInv, NEW w \in Workers, loop[w] # "gather" \/ Awaited(w) = {},
           NEW q \in Partitions, owner[q] = w, NEW i \in DOMAIN log[q], i <= position[q]
    PROVE  Answered(q, i)
<1>1. ~UnderWay(q, i)
  BY DEF UnderWay, Awaited, TasksOf
<1> QED
  BY <1>1, NoneIsNoWorker DEF HandledInv

\* The loop of w goes on while its tasks stay as they are.
LEMMA LoopKeepsHandled ==
    ASSUME PoolTypes, HandledInv, NEW w \in Workers,
           Gathered(w) \/ Commit(w) \/ CommitFails(w) \/ Resume(w)
    PROVE  HandledInv'
<1>1. UNCHANGED <<log, results, owner, position, pool, draining, tasks>>
  BY DEF Gathered, Commit, CommitFails, Resume, groupVars
<1>2. /\ loop[w] # "down" /\ loop'[w] # "down"
      /\ \A v \in Workers \ {w} : loop'[v] = loop[v]
      /\ loop[w] # "gather" \/ Awaited(w) = {}
  BY DEF Gathered, Commit, CommitFails, Resume, PoolTypes
<1>3. Members' = Members
  BY <1>1, <1>2 DEF Members, Live
<1>4. OwnersAreMembers'
  BY <1>1, <1>3 DEF HandledInv, OwnersAreMembers
<1>5. MembersGoWell'
  <2>1. \A t \in tasks : loop'[t.worker] # "down"
    <3>1. \A t \in tasks : loop[t.worker] # "down"
      BY DEF HandledInv, MembersGoWell
    <3>2. \E to : loop' = [loop EXCEPT ![w] = to]
      BY DEF Gathered, Commit, CommitFails, Resume
    <3> QED
      BY <1>2, <3>1, <3>2 DEF PoolTypes
  <2> QED
    BY <1>1, <1>3, <2>1 DEF HandledInv, MembersGoWell
<1>6. ASSUME NEW q \in Partitions, NEW i \in DOMAIN log[q], Passed(q, i)'
      PROVE  Answered(q, i)
  <2>1. CASE Passed(q, i)
    BY <2>1 DEF HandledInv
  <2>2. CASE ~Passed(q, i)
    <3>1. Commit(w)
      BY <1>6, <2>2 DEF Passed, Gathered, CommitFails, Resume, groupVars
    <3>2. owner[q] = w /\ i <= position[q]
      BY <1>6, <2>2, <3>1 DEF Passed, Commit
    <3> QED
      BY <1>2, <3>2, ReadIsAnswered
  <2> QED
    BY <2>1, <2>2
<1>7. ASSUME NEW q \in Partitions, NEW i \in DOMAIN log[q], owner[q] # None, i <= position[q]
      PROVE  Answered(q, i) \/ UnderWay(q, i)'
  <2>1. CASE owner[q] = w
    BY <1>2, <1>7, <2>1, ReadIsAnswered
  <2>2. CASE owner[q] # w
    <3>1. owner[q] \in Workers \ {w}
      BY <1>7, <2>2 DEF HandledInv, OwnersAreMembers, Members, Live
    <3> QED
      BY <1>1, <1>2, <1>7, <3>1 DEF HandledInv, UnderWay
  <2> QED
    BY <2>1, <2>2
<1> QED
  BY <1>1, <1>4, <1>5, <1>6, <1>7 DEF HandledInv, Answered

LEMMA PollKeepsHandled ==
    ASSUME TasksInv, PoolTypes, HandledInv, NEW w \in Workers, Poll(w)
    PROVE  HandledInv'
<1>1. PICK take \in [Partitions -> 0 .. MaxPoll] :
          /\ \A q \in Partitions : take[q] > 0 => take[q] <= Fetchable(w, q)
          /\ position' = [q \in Partitions |-> position[q] + take[q]]
          /\ tasks' = tasks \union Batch(w, take)
  BY DEF Poll
<1>2. /\ UNCHANGED <<log, results, owner, committed, pool, draining>>
      /\ loop[w] = "poll" /\ loop' = [loop EXCEPT ![w] = "gather"] /\ w \in Members
  BY DEF Poll, Members, Live
<1>3. Members' = Members
  BY <1>2 DEF Members, Live, PoolTypes
<1>4. OwnersAreMembers'
  BY <1>2, <1>3 DEF HandledInv, OwnersAreMembers
<1>5. ASSUME NEW t \in Batch(w, take)
      PROVE  t.worker = w /\ t.pc = "waiting"
  <2>1. PICK q \in Partitions : \E i \in 1 .. take[q] : t = NewTask(w, q, position[q] + i)
    BY <1>5 DEF Batch
  <2> QED
    BY <2>1 DEF NewTask
<1>6. MembersGoWell'
  <2>1. \A v \in Workers : loop[v] # "down" => loop'[v] # "down"
    BY <1>2 DEF PoolTypes
  <2>2. \A t \in tasks : t.worker \in Workers
    BY DEF TasksInv, TasksOK, Task
  <2> QED
    BY <1>1, <1>2, <1>3, <1>5, <2>1, <2>2 DEF HandledInv, MembersGoWell, PoolTypes
<1>7. ASSUME NEW q \in Partitions, NEW i \in DOMAIN log[q], owner[q] # None, i <= position'[q]
      PROVE  Answered(q, i) \/ UnderWay(q, i)'
  <2>0. i \in Nat \ {0} /\ position[q] \in Nat /\ take[q] \in Nat
    BY LimitsArePositive DEF TasksInv
  <2>1. CASE owner[q] = w
    <3>1. CASE i <= position[q]
      BY <1>2, <2>1, <3>1, ReadIsAnswered
    <3>2. CASE i > position[q]
      <4> DEFINE n == i - position[q]
      <4>1. n \in 1 .. take[q] /\ position[q] + n = i
        BY <1>1, <1>7, <2>0, <3>2
      <4> HIDE DEF n
      <4>2. NewTask(w, q, i) \in Batch(w, take)
        BY <4>1 DEF Batch
      <4>3. loop'[w] = "gather"
        BY <1>2 DEF PoolTypes
      <4> QED
        BY <1>1, <1>2, <2>1, <4>2, <4>3 DEF UnderWay, NewTask
    <3> QED
      BY <2>0, <3>1, <3>2
  <2>2. CASE owner[q] # w
    <3>1. owner[q] \in Workers \ {w}
      BY <1>7, <2>2 DEF HandledInv, OwnersAreMembers, Members, Live
    <3>2. take[q] = 0
      BY <1>1, <2>0, <2>2 DEF Fetchable
    <3>3. Answered(q, i) \/ UnderWay(q, i)
      BY <1>1, <1>7, <2>0, <3>2 DEF HandledInv
    <3>4. loop'[owner[q]] = loop[owner[q]]
      BY <1>2, <3>1 DEF PoolTypes
    <3> QED
      BY <1>1, <1>2, <3>3, <3>4 DEF UnderWay
  <2> QED
    BY <2>1, <2>2
<1> QED
  BY <1>2, <1>4, <1>6, <1>7 DEF HandledInv, Answered, Passed

LEMMA HandledInvStep ==
    ASSUME NoStatementFails, TasksInv, PoolTypes, HandledInv, [PoolNext]_vars
    PROVE  HandledInv'
<1>1. CASE Rebalance
  BY <1>1, RebalanceKeepsHandled
<1>2. ASSUME NEW w \in Workers, Start(w) \/ Crash(w) \/ Shutdown(w)
      PROVE  HandledInv'
  BY <1>2, StartKeepsHandled, WorkerLeaves
<1>3. ASSUME NEW w \in Workers, Run(w)
      PROVE  HandledInv'
  BY <1>3, PollKeepsHandled, LoopKeepsHandled DEF Run
<1>4. ASSUME NEW t \in tasks, Step(t)
      PROVE  HandledInv'
  BY <1>4, TaskStepKeepsHandled
<1>5. CASE UNCHANGED vars
  BY <1>5 DEF vars, poolVars, groupVars, workerVars, HandledInv, OwnersAreMembers, MembersGoWell,
              Members, Live, Answered, UnderWay, Passed
<1> QED
  BY <1>1, <1>2, <1>3, <1>4, <1>5 DEF PoolNext

\* While PostgreSQL answers, no offset is committed before every document below it has its
\* result: not when workers crash or are stopped with tasks in flight, not when partitions
\* move to another worker, not when commits fail.  (A record of a fallback job would end the
\* gather of its batch early, and the documents beside it would be committed unfinished.)
THEOREM CommittedIsHandledHolds ==
    ASSUME NoStatementFails, TopicHasNoFallback
    PROVE  Spec => []CommittedIsHandled
<1>1. HandledInv => CommittedIsHandled
  BY DEF HandledInv, CommittedIsHandled, Answered
<1>2. Init => HandledInv
  BY HandledInvInit
<1>3. TasksInv /\ PoolTypes /\ HandledInv /\ [PoolNext]_vars => HandledInv'
  BY HandledInvStep
<1> QED
  BY TasksInvInit, TasksInvStep, OffsetInvInit, PoolTypesInit, PoolTypesStep, <1>1, <1>2, <1>3, PTL
     DEF Spec

=============================================================================
