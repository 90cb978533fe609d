--------------------------- MODULE RegistryProofs ---------------------------
(***************************************************************************)
(* Theorems about WorkerRegistry, for any number of workers, permits and   *)
(* records, whatever fails: what a worker tells of itself, and what the    *)
(* table worker_status keeps of it.                                        *)
(***************************************************************************)
EXTENDS WorkerPoolProofs, WorkerRegistry

-----------------------------------------------------------------------------
(* Tasks *)

\* A task is told apart by its record and its copy, and runs at a worker that is up.
TasksApart ==
    /\ \A t, u \in tasks : t.part = u.part /\ t.at = u.at /\ t.copy = u.copy => t = u
    /\ \A t \in tasks : loop[t.worker] # "down"

\* A step of the registry is a step of the pool.
LEMMA PoolSteps ==
    ASSUME [RegistryNext]_allVars
    PROVE  [PoolNext]_vars
<1>1. ASSUME NEW w \in Workers, WorkerStep(w)
      PROVE  PoolNext \/ UNCHANGED vars
  BY <1>1 DEF WorkerStep, StartAndRegister, CrashUnnoticed, StopHeartbeat, SayDraining,
              SayDrainingFails, ExitProcess, CloseConnections, Beat, BeatLands, BeatFails,
              PoolNext, Shutdown
<1>2. ASSUME NEW t \in tasks, TaskStep(t)
      PROVE  PoolNext
  BY <1>2 DEF TaskStep, PoolNext, Step
<1>3. CASE UNCHANGED allVars
  BY <1>3 DEF allVars
<1> QED
  BY <1>1, <1>2, <1>3 DEF RegistryNext, PoolNext

\* A step other than Poll leaves a worker's tasks waiting, running or gone.
LEMMA BatchIsNew ==
    ASSUME TasksInv, NEW w \in Workers, NEW take \in [Partitions -> 0 .. MaxPoll],
           NEW t \in Batch(w, take), NEW u \in tasks \union Batch(w, take),
           t.part = u.part, t.at = u.at, t.copy = u.copy
    PROVE  t = u /\ t.worker = w
<1>1. PICK q \in Partitions : \E i \in 1 .. take[q] : t = NewTask(w, q, position[q] + i)
  BY DEF Batch
<1>2. PICK i \in 1 .. take[q] : t = NewTask(w, q, position[q] + i)
  BY <1>1
<1>3. t.part = q /\ t.at = position[q] + i /\ t.copy = FreeCopy(q, position[q] + i) /\ t.worker = w
  BY <1>2 DEF NewTask
<1>4. u \notin tasks
  BY <1>3, FreeCopyIsFree DEF TasksInv, TasksOK
<1>5. PICK r \in Partitions : \E j \in 1 .. take[r] : u = NewTask(w, r, position[r] + j)
  BY <1>4 DEF Batch
<1>6. PICK j \in 1 .. take[r] : u = NewTask(w, r, position[r] + j)
  BY <1>5
<1>7. u.part = r /\ u.at = position[r] + j
  BY <1>6 DEF NewTask
<1> QED
  BY <1>2, <1>3, <1>6, <1>7

LEMMA PollKeepsApart ==
    ASSUME TasksInv, PoolTypes, TasksApart, NEW w \in Workers, Poll(w)
    PROVE  TasksApart'
<1>1. PICK take \in [Partitions -> 0 .. MaxPoll] :
          /\ \A q \in Partitions : take[q] > 0 => take[q] <= Fetchable(w, q)
          /\ tasks' = tasks \union Batch(w, take)
  BY DEF Poll
<1>2. ASSUME NEW t \in tasks', NEW u \in tasks', t.part = u.part, t.at = u.at, t.copy = u.copy
      PROVE  t = u
  BY <1>1, <1>2, BatchIsNew DEF TasksApart
<1>3. loop' = [loop EXCEPT ![w] = "gather"]
  BY DEF Poll
<1>4. ASSUME NEW t \in tasks'
      PROVE  loop'[t.worker] # "down"
  <2>1. CASE t \in tasks
    <3>1. t.worker \in Workers
      BY <2>1 DEF TasksInv, TasksOK, Task
    <3> QED
      BY <1>3, <2>1, <3>1 DEF TasksApart, PoolTypes
  <2>2. CASE t \in Batch(w, take)
    <3>1. t.worker = w
      BY <2>2, BatchIsNew
    <3> QED
      BY <1>3, <3>1 DEF PoolTypes
  <2> QED
    BY <1>1, <2>1, <2>2
<1> QED
  BY <1>2, <1>4 DEF TasksApart

\* The task v of the next state continues u, which keeps its place if it is not t.
Continues(t, u, v) ==
    /\ v.worker = u.worker /\ v.part = u.part /\ v.at = u.at /\ v.copy = u.copy
    /\ u # t => v.pc = u.pc

LEMMA StepContinues ==
    ASSUME TasksInv, NEW t \in tasks, Step(t)
    PROVE  \E f : /\ \A u \in tasks : Continues(t, u, f[u])
                  /\ tasks' \subseteq {f[u] : u \in tasks}
<1>1. tasks \subseteq Task
  BY DEF TasksInv, TasksOK
<1>2. CASE Finish(t)
  <2> DEFINE f == [u \in tasks |-> u]
  <2>1. tasks' \subseteq {f[u] : u \in tasks}
    BY <1>2 DEF Finish
  <2>2. \A u \in tasks : Continues(t, u, f[u])
    BY DEF Continues
  <2> QED
    BY <2>1, <2>2
<1>3. ASSUME NEW step \in TaskSteps, Advance(t, step)
      PROVE  \E f : /\ \A u \in tasks : Continues(t, u, f[u])
                    /\ tasks' \subseteq {f[u] : u \in tasks}
  <2> DEFINE next == [t EXCEPT !.pc = step]
             f == [u \in tasks |-> IF u = t THEN next ELSE u]
  <2>1. Continues(t, t, next)
    BY <1>1 DEF Continues, Task
  <2>2. tasks' = (tasks \ {t}) \union {next}
    BY <1>3 DEF Advance
  <2> HIDE DEF next
  <2>3. \A u \in tasks : Continues(t, u, f[u])
    BY <2>1 DEF Continues
  <2>4. \A u \in tasks : f[u] = IF u = t THEN next ELSE u
    OBVIOUS
  <2> HIDE DEF f
  <2>5. tasks' \subseteq {f[u] : u \in tasks}
    BY <2>2, <2>4
  <2> QED
    BY <2>3, <2>5
<1>4. CASE tasks' = {[u EXCEPT !.awaited = @ /\ u.worker # t.worker] : u \in tasks \ {t}}
  <2> DEFINE f == [u \in tasks |-> [u EXCEPT !.awaited = @ /\ u.worker # t.worker]]
  <2>1. \A u \in tasks : Continues(t, u, f[u])
    BY <1>1 DEF Continues, Task
  <2>2. tasks' \subseteq {f[u] : u \in tasks}
    BY <1>4
  <2> HIDE DEF f
  <2> QED
    BY <2>1, <2>2
<1> QED
  BY <1>2, <1>3, <1>4, TaskStepFrame

LEMMA StepKeepsApart ==
    ASSUME TasksInv, PoolTypes, TasksApart, NEW t \in tasks, Step(t)
    PROVE  TasksApart'
<1>1. PICK f : /\ \A u \in tasks : Continues(t, u, f[u])
               /\ tasks' \subseteq {f[u] : u \in tasks}
  BY StepContinues
<1>2. \A v \in tasks' : \E u \in tasks : v = f[u] /\ Continues(t, u, v)
  BY <1>1
<1>3. ASSUME NEW v \in tasks', NEW w \in tasks', v.part = w.part, v.at = w.at, v.copy = w.copy
      PROVE  v = w
  <2>1. PICK u \in tasks : v = f[u] /\ Continues(t, u, v)
    BY <1>2
  <2>2. PICK x \in tasks : w = f[x] /\ Continues(t, x, w)
    BY <1>2
  <2>3. u = x
    BY <1>3, <2>1, <2>2 DEF Continues, TasksApart
  <2> QED
    BY <2>1, <2>2, <2>3
<1>4. ASSUME NEW v \in tasks'
      PROVE  loop'[v.worker] # "down"
  <2>1. PICK u \in tasks : v.worker = u.worker
    BY <1>2 DEF Continues
  <2>2. u.worker \in Workers /\ loop[u.worker] # "down"
    BY DEF TasksInv, TasksOK, Task, TasksApart
  <2>3. UNCHANGED loop \/ loop' = [loop EXCEPT ![t.worker] = "backoff"]
    BY TaskStepFrame
  <2> QED
    BY <2>1, <2>2, <2>3 DEF PoolTypes
<1> QED
  BY <1>3, <1>4 DEF TasksApart

\* A worker that goes down takes its tasks along.
LEMMA WorkerKeepsApart ==
    ASSUME TasksInv, PoolTypes, TasksApart, NEW w \in Workers,
           Start(w) \/ Crash(w) \/ Shutdown(w) \/ Run(w), ~Poll(w)
    PROVE  TasksApart'
<1>1. \/ UNCHANGED tasks /\ (UNCHANGED loop \/ \E to : to # "down" /\ loop' = [loop EXCEPT ![w] = to])
      \/ tasks' = tasks \ TasksOf(w) /\ loop' = [loop EXCEPT ![w] = "down"]
  BY DEF Start, Crash, Shutdown, StopConsumer, SignOff, ClosePool, Exit, Run, Gathered, Commit,
         CommitFails, Resume
<1>2. tasks' \subseteq tasks
  BY <1>1
<1>3. ASSUME NEW t \in tasks'
      PROVE  loop'[t.worker] # "down"
  <2>1. t \in tasks /\ t.worker \in Workers /\ loop[t.worker] # "down"
    BY <1>2 DEF TasksInv, TasksOK, Task, TasksApart
  <2>2. CASE UNCHANGED tasks /\ (UNCHANGED loop \/ \E to : to # "down" /\ loop' = [loop EXCEPT ![w] = to])
    BY <2>1, <2>2 DEF PoolTypes
  <2>3. CASE tasks' = tasks \ TasksOf(w) /\ loop' = [loop EXCEPT ![w] = "down"]
    <3>1. t.worker # w
      BY <2>1, <2>3 DEF TasksOf
    <3> QED
      BY <2>1, <2>3, <3>1 DEF PoolTypes
  <2> QED
    BY <1>1, <2>2, <2>3
<1> QED
  BY <1>2, <1>3 DEF TasksApart

LEMMA TasksApartStep == TasksInv /\ PoolTypes /\ TasksApart /\ [PoolNext]_vars => TasksApart'
<1> SUFFICES ASSUME TasksInv, PoolTypes, TasksApart, [PoolNext]_vars
             PROVE  TasksApart'
  OBVIOUS
<1>1. ASSUME NEW w \in Workers, Start(w) \/ Crash(w) \/ Shutdown(w) \/ Run(w)
      PROVE  TasksApart'
  BY <1>1, PollKeepsApart, WorkerKeepsApart
<1>2. Rebalance \/ UNCHANGED vars => UNCHANGED <<tasks, loop>>
  BY DEF Rebalance, vars, poolVars, workerVars
<1>3. UNCHANGED <<tasks, loop>> => TasksApart'
  BY DEF TasksApart
<1> QED
  BY <1>1, <1>2, <1>3, StepKeepsApart DEF PoolNext

-----------------------------------------------------------------------------
(* Permits *)

\* A task that holds a permit goes on with it, or is gone.
Ends(t) ==
    \/ Finish(t)
    \/ tasks' = {[u EXCEPT !.awaited = @ /\ u.worker # t.worker] : u \in tasks \ {t}}

\* GoesOn tells the two apart.
LEMMA ProcessGoesOnOrEnds ==
    ASSUME TasksInv, TasksApart, NEW t \in tasks, Process(t)
    PROVE  /\ t.pc # "waiting"
           /\ GoesOn(t) => \E step \in TaskSteps \ {"waiting"} : Advance(t, step)
           /\ ~GoesOn(t) => Ends(t)
<1>1. tasks \subseteq Task
  BY DEF TasksInv, TasksOK
<1>2. t.pc # "waiting"
  BY DEF Process, Consume, SkipCompleted, Check, FailEarly, PassUnrecorded, Mark, Save,
         FailProcessing, Retry, Report, Escape
<1>3. Ends(t) \/ \E step \in TaskSteps \ {"waiting"} : Advance(t, step)
  BY DEF Process, Consume, SkipCompleted, Check, FailEarly, PassUnrecorded, Mark, Save,
         FailProcessing, Retry, Report, Escape, Ends, TaskSteps
<1>4. ASSUME NEW step, Advance(t, step)
      PROVE  GoesOn(t)
  <2> DEFINE u == [t EXCEPT !.pc = step]
  <2>1. u \in tasks'
    BY <1>4 DEF Advance
  <2>2. [u EXCEPT !.pc = t.pc, !.awaited = t.awaited] = t
    BY <1>1 DEF Task
  <2> QED
    BY <2>1, <2>2 DEF GoesOn
<1>5. ASSUME Ends(t)
      PROVE  ~GoesOn(t)
  <2> SUFFICES ASSUME NEW u \in tasks', [u EXCEPT !.pc = t.pc, !.awaited = t.awaited] = t
               PROVE  FALSE
    BY DEF GoesOn
  <2>1. PICK v \in tasks \ {t} : u.part = v.part /\ u.at = v.at /\ u.copy = v.copy /\ u \in Task
    <3>1. CASE Finish(t)
      BY <1>1, <3>1 DEF Finish
    <3>2. CASE tasks' = {[v EXCEPT !.awaited = @ /\ v.worker # t.worker] : v \in tasks \ {t}}
      <4>1. PICK v \in tasks \ {t} : u = [v EXCEPT !.awaited = @ /\ v.worker # t.worker]
        BY <3>2
      <4>2. v \in Task
        BY <1>1
      <4>3. u \in Task /\ u.part = v.part /\ u.at = v.at /\ u.copy = v.copy
        BY <4>1, <4>2 DEF Task
      <4> QED
        BY <4>3
    <3> QED
      BY <1>5, <3>1, <3>2 DEF Ends
  <2>2. t.part = u.part /\ t.at = u.at /\ t.copy = u.copy
    BY <2>1 DEF Task
  <2> QED
    BY <2>1, <2>2 DEF TasksApart
<1> QED
  BY <1>2, <1>3, <1>4, <1>5

LEMMA RunningIsFinite ==
    ASSUME TasksInv, NEW w
    PROVE  IsFiniteSet(Running(w)) /\ Cardinality(Running(w)) \in Nat
<1>1. Running(w) \in SUBSET tasks
  BY DEF Running, TasksOf
<1> QED
  BY <1>1, FS_Subset, FS_CardinalityType DEF TasksInv, TasksOK

\* A task that begins takes one permit of its worker.
LEMMA BeginTakesAPermit ==
    ASSUME TasksInv, TasksApart, NEW t \in tasks, Begin(t), NEW w \in Workers
    PROVE  Cardinality(Running(w)') =
               IF w = t.worker THEN Cardinality(Running(w)) + 1 ELSE Cardinality(Running(w))
<1> DEFINE u == [t EXCEPT !.pc = "consume"]
<1>1. t \in Task /\ t.pc = "waiting"
  BY DEF TasksInv, TasksOK, Begin
<1>2. u.worker = t.worker /\ u.pc = "consume" /\ u # t /\ u \notin tasks
  <2>1. /\ u.worker = t.worker /\ u.pc = "consume" /\ u.part = t.part /\ u.at = t.at
        /\ u.copy = t.copy
    BY <1>1 DEF Task
  <2> QED
    BY <1>1, <2>1 DEF TasksApart
<1>3. tasks' = (tasks \ {t}) \union {u}
  BY DEF Begin, Advance
<1> HIDE DEF u
<1>4. CASE w = t.worker
  <2>1. Running(w)' = Running(w) \union {u} /\ u \notin Running(w)
    BY <1>1, <1>2, <1>3, <1>4 DEF Running, TasksOf
  <2> QED
    BY <1>4, <2>1, RunningIsFinite, FS_AddElement
<1>5. CASE w # t.worker
  BY <1>2, <1>3, <1>5 DEF Running, TasksOf
<1> QED
  BY <1>4, <1>5

\* A task that goes on keeps its permit.
LEMMA GoingOnKeepsPermits ==
    ASSUME TasksInv, TasksApart, NEW t \in tasks, t.pc # "waiting",
           NEW step \in TaskSteps \ {"waiting"}, Advance(t, step), NEW w \in Workers
    PROVE  /\ Cardinality(Running(w)') = Cardinality(Running(w))
           /\ \A u \in Running(w) : \E v \in Running(w)' : v.part = u.part /\ v.at = u.at
<1> DEFINE next == [t EXCEPT !.pc = step]
<1>1. t \in Task
  BY DEF TasksInv, TasksOK
<1>2. /\ next.worker = t.worker /\ next.pc = step /\ next.part = t.part /\ next.at = t.at
      /\ next.copy = t.copy
  BY <1>1 DEF Task
<1>3. tasks' = (tasks \ {t}) \union {next}
  BY DEF Advance
<1> HIDE DEF next
<1>4. next \notin tasks \ {t}
  BY <1>2 DEF TasksApart
<1>5. CASE w = t.worker
  <2> DEFINE rest == Running(w) \ {t}
  <2>1. Running(w)' = rest \union {next} /\ next \notin rest /\ t \in Running(w)
    BY <1>2, <1>3, <1>4, <1>5 DEF Running, TasksOf
  <2>2. IsFiniteSet(rest) /\ Cardinality(rest) = Cardinality(Running(w)) - 1
    BY <2>1, RunningIsFinite, FS_RemoveElement
  <2>3. Cardinality(rest \union {next}) = Cardinality(rest) + 1
    BY <2>1, <2>2, FS_AddElement
  <2>4. Cardinality(Running(w)') = Cardinality(Running(w))
    BY <2>1, <2>2, <2>3, RunningIsFinite
  <2>5. ASSUME NEW u \in Running(w)
        PROVE  \E v \in Running(w)' : v.part = u.part /\ v.at = u.at
    BY <1>2, <2>1
  <2> QED
    BY <2>4, <2>5
<1>6. CASE w # t.worker
  <2>1. Running(w)' = Running(w)
    BY <1>2, <1>3, <1>6 DEF Running, TasksOf
  <2> QED
    BY <2>1
<1> QED
  BY <1>5, <1>6

\* A task that ends gives its permit back, also when its exception ends the gather of others.
LEMMA EndingReturnsThePermit ==
    ASSUME TasksInv, TasksApart, NEW t \in tasks, t.pc # "waiting", Ends(t), NEW w \in Workers
    PROVE  IF w = t.worker
           THEN /\ Cardinality(Running(w)) \in Nat \ {0}
                /\ Cardinality(Running(w)') = Cardinality(Running(w)) - 1
           ELSE Running(w)' = Running(w)
<1>1. tasks \subseteq Task
  BY DEF TasksInv, TasksOK
<1>2. w = t.worker => t \in Running(w)
  BY DEF Running, TasksOf
<1>3. w = t.worker => /\ Cardinality(Running(w)) \in Nat \ {0}
                      /\ IsFiniteSet(Running(w) \ {t})
                      /\ Cardinality(Running(w) \ {t}) = Cardinality(Running(w)) - 1
  <2> SUFFICES ASSUME w = t.worker
               PROVE  /\ Cardinality(Running(w)) \in Nat \ {0}
                      /\ IsFiniteSet(Running(w) \ {t})
                      /\ Cardinality(Running(w) \ {t}) = Cardinality(Running(w)) - 1
    OBVIOUS
  <2>1. IsFiniteSet(Running(w)) /\ Cardinality(Running(w)) \in Nat
    BY RunningIsFinite
  <2>2. /\ IsFiniteSet(Running(w) \ {t})
        /\ Cardinality(Running(w) \ {t}) = Cardinality(Running(w)) - 1
    BY <1>2, <2>1, FS_RemoveElement
  <2>3. Cardinality(Running(w) \ {t}) \in Nat
    BY <2>2, FS_CardinalityType
  <2> QED
    BY <2>1, <2>2, <2>3
<1>4. CASE Finish(t)
  <2>1. Running(w)' = Running(w) \ {t}
    BY <1>4 DEF Finish, Running, TasksOf
  <2>2. w # t.worker => Running(w) \ {t} = Running(w)
    BY DEF Running, TasksOf
  <2> QED
    BY <1>3, <2>1, <2>2
<1>5. CASE tasks' = {[u EXCEPT !.awaited = @ /\ u.worker # t.worker] : u \in tasks \ {t}}
  <2> DEFINE f == [u \in tasks |-> [u EXCEPT !.awaited = @ /\ u.worker # t.worker]]
             S == Running(w) \ {t}
             g == [u \in S |-> f[u]]
  <2>1. tasks' = {f[u] : u \in tasks \ {t}}
    BY <1>5
  <2>2. ASSUME NEW u \in tasks
        PROVE  /\ f[u].worker = u.worker /\ f[u].part = u.part /\ f[u].at = u.at
               /\ f[u].copy = u.copy /\ f[u].pc = u.pc
               /\ u.worker # t.worker => f[u] = u
    <3>1. u \in Task
      BY <1>1
    <3>2. u.worker # t.worker => [u EXCEPT !.awaited = @ /\ u.worker # t.worker] = u
      BY <3>1 DEF Task
    <3>3. f[u] = [u EXCEPT !.awaited = @ /\ u.worker # t.worker]
      OBVIOUS
    <3> HIDE DEF f
    <3> QED
      BY <3>1, <3>2, <3>3 DEF Task
  <2> HIDE DEF f
  <2>3. Running(w)' = {f[u] : u \in S}
    BY <2>1, <2>2 DEF Running, TasksOf
  <2>4. CASE w # t.worker
    BY <2>1, <2>2, <2>4 DEF Running, TasksOf
  <2>5. CASE w = t.worker
    <3>1. S \subseteq tasks
      BY DEF Running, TasksOf
    <3>2. \A u, v \in S : g[u] = g[v] => u = v
      BY <2>2, <3>1 DEF TasksApart
    <3>3. g \in Bijection(S, Running(w)')
      <4>1. g \in [S -> Running(w)']
        BY <2>3
      <4>2. \A v \in Running(w)' : \E u \in S : g[u] = v
        BY <2>3
      <4> HIDE DEF g, S
      <4> QED
        BY <3>2, <4>1, <4>2 DEF Bijection, Injection, Surjection, IsInjective
    <3>4. Cardinality(Running(w)') = Cardinality(S)
      <4> HIDE DEF g, S
      <4>1. ExistsBijection(S, Running(w)')
        BY <3>3 DEF ExistsBijection
      <4> QED
        BY <1>3, <2>5, <4>1, FS_Bijection DEF S
    <3> QED
      BY <1>3, <2>5, <3>4
  <2> QED
    BY <2>4, <2>5
<1> QED
  BY <1>4, <1>5 DEF Ends

\* No step but those of a task and the end of a process changes who holds a permit.
LEMMA OthersKeepPermits ==
    ASSUME TasksInv, NEW w \in Workers, Start(w) \/ StopConsumer(w) \/ SignOff(w) \/ ClosePool(w) \/ Run(w),
           NEW v \in Workers
    PROVE  Running(v)' = Running(v)
<1>1. CASE Poll(w)
  <2>1. PICK take \in [Partitions -> 0 .. MaxPoll] :
            /\ \A q \in Partitions : take[q] > 0 => take[q] <= Fetchable(w, q)
            /\ tasks' = tasks \union Batch(w, take)
    BY <1>1 DEF Poll
  <2>2. \A t \in Batch(w, take) : t.pc = "waiting"
    BY <2>1, BatchOfTasks
  <2> QED
    BY <2>1, <2>2 DEF Running, TasksOf
<1>2. CASE UNCHANGED tasks
  BY <1>2 DEF Running, TasksOf
<1> QED
  BY <1>1, <1>2 DEF Start, StopConsumer, SignOff, ClosePool, Run, Gathered, Commit, CommitFails, Resume

LEMMA EndingFreesPermits ==
    ASSUME NEW w \in Workers, Crash(w) \/ Exit(w), NEW v \in Workers
    PROVE  Running(v)' = IF v = w THEN {} ELSE Running(v)
<1>1. tasks' = tasks \ TasksOf(w)
  BY DEF Crash, Exit
<1> QED
  BY <1>1 DEF Running, TasksOf

-----------------------------------------------------------------------------
(* What a worker tells *)

ToldInv ==
    /\ current_state \in [Workers -> {"IDLE", "PROCESSING"}]
    /\ current_document_id \in [Workers -> Jobs \union {None}]
    /\ active_jobs \in [Workers -> 0 .. Concurrency]
    /\ WorkIsTold

LEMMA SameJobsAreTold ==
    ASSUME ToldInv, UNCHANGED <<log, current_state, current_document_id, active_jobs>>,
           \A w \in Workers :
               /\ Cardinality(Running(w)') = Cardinality(Running(w))
               /\ \A u \in Running(w) : \E v \in Running(w)' : v.part = u.part /\ v.at = u.at
    PROVE  ToldInv'
<1>1. ASSUME NEW w \in Workers, current_document_id[w] # None
      PROVE  \E v \in Running(w)' : JobOf(v)' = current_document_id[w]
  <2>1. PICK u \in Running(w) : JobOf(u) = current_document_id[w]
    BY <1>1 DEF ToldInv, WorkIsTold
  <2>2. PICK v \in Running(w)' : v.part = u.part /\ v.at = u.at
    OBVIOUS
  <2> QED
    BY <2>1, <2>2 DEF JobOf
<1>2. WorkIsTold'
  BY <1>1 DEF ToldInv, WorkIsTold
<1> QED
  BY <1>2 DEF ToldInv

\* A process that starts or ends has no task and tells of none.
LEMMA BlankIsTold ==
    ASSUME ToldInv, UNCHANGED log, NEW w \in Workers, Blank(w),
           \A v \in Workers : Running(v)' = IF v = w THEN {} ELSE Running(v)
    PROVE  ToldInv'
<1>1. /\ current_state' = [current_state EXCEPT ![w] = "IDLE"]
      /\ current_document_id' = [current_document_id EXCEPT ![w] = None]
      /\ active_jobs' = [active_jobs EXCEPT ![w] = 0]
  BY DEF Blank, Tell
<1>2. 0 \in 0 .. Concurrency
  BY LimitsArePositive
<1>3. /\ current_state' \in [Workers -> {"IDLE", "PROCESSING"}]
      /\ current_document_id' \in [Workers -> Jobs \union {None}]
      /\ active_jobs' \in [Workers -> 0 .. Concurrency]
  BY <1>1, <1>2 DEF ToldInv
<1>4. ASSUME NEW v \in Workers
      PROVE  /\ active_jobs'[v] = Cardinality(Running(v)')
             /\ current_state'[v] = "PROCESSING" => current_document_id'[v] # None
             /\ current_document_id'[v] # None =>
                   \E t \in Running(v)' : JobOf(t)' = current_document_id'[v]
  <2>1. CASE v = w
    <3>1. active_jobs'[v] = 0 /\ current_state'[v] = "IDLE" /\ current_document_id'[v] = None
      BY <1>1, <2>1 DEF ToldInv
    <3>2. Cardinality(Running(v)') = 0
      BY <2>1, FS_EmptySet
    <3> QED
      BY <3>1, <3>2
  <2>2. CASE v # w
    <3>1. /\ active_jobs'[v] = active_jobs[v] /\ current_state'[v] = current_state[v]
          /\ current_document_id'[v] = current_document_id[v]
      BY <1>1, <2>2 DEF ToldInv
    <3>2. \A t : JobOf(t)' = JobOf(t)
      BY DEF JobOf
    <3> QED
      BY <2>2, <3>1, <3>2 DEF ToldInv, WorkIsTold
  <2> QED
    BY <2>1, <2>2
<1>5. WorkIsTold'
  BY <1>4 DEF WorkIsTold
<1> QED
  BY <1>3, <1>5 DEF ToldInv

\* The permit taken is the job counted, and its document is the one named.
LEMMA EnteringIsTold ==
    ASSUME TasksInv, TasksApart, ToldInv, NEW t \in tasks, Begin(t), Enter(t)
    PROVE  ToldInv'
<1> DEFINE w == t.worker
           next == [t EXCEPT !.pc = "consume"]
<1>0. t \in Task /\ t.part \in Partitions /\ t.at \in DOMAIN log[t.part] /\ w \in Workers
  BY DEF TasksInv, TasksOK, Task
<1>1. UNCHANGED log /\ JobOf(t) \in Jobs
  BY <1>0 DEF Begin, LoopsGoOn, JobOf, TasksInv
<1>2. next \in Running(w)' /\ JobOf(next)' = JobOf(t)
  <2>1. next.worker = w /\ next.pc = "consume" /\ next.part = t.part /\ next.at = t.at
    BY <1>0 DEF Task
  <2>2. next \in tasks'
    BY DEF Begin, Advance
  <2> QED
    BY <1>1, <2>1, <2>2 DEF Running, TasksOf, JobOf
<1> HIDE DEF next
<1>3. \A v \in Workers : Cardinality(Running(v)') =
                             IF v = w THEN Cardinality(Running(v)) + 1 ELSE Cardinality(Running(v))
  BY BeginTakesAPermit
<1>4. \A v \in Workers : v # w => Running(v) \subseteq Running(v)'
  BY DEF Begin, Advance, Running, TasksOf
<1>5. Cardinality(Running(w)) < Concurrency
  BY DEF Begin
<1> HIDE DEF w
<1>6. /\ current_state' = [current_state EXCEPT ![w] = "PROCESSING"]
      /\ current_document_id' = [current_document_id EXCEPT ![w] = JobOf(t)]
      /\ active_jobs' = [active_jobs EXCEPT ![w] = @ + 1]
  BY DEF Enter, Tell, w
<1>7. active_jobs[w] = Cardinality(Running(w)) /\ active_jobs[w] + 1 \in 0 .. Concurrency
  BY <1>0, <1>5, LimitsArePositive DEF ToldInv, WorkIsTold
<1>8. /\ current_state' \in [Workers -> {"IDLE", "PROCESSING"}]
      /\ current_document_id' \in [Workers -> Jobs \union {None}]
      /\ active_jobs' \in [Workers -> 0 .. Concurrency]
  BY <1>1, <1>6, <1>7 DEF ToldInv
<1>9. ASSUME NEW v \in Workers
      PROVE  /\ active_jobs'[v] = Cardinality(Running(v)')
             /\ current_state'[v] = "PROCESSING" => current_document_id'[v] # None
             /\ current_document_id'[v] # None =>
                   \E u \in Running(v)' : JobOf(u)' = current_document_id'[v]
  <2>1. CASE v = w
    <3>1. active_jobs'[v] = active_jobs[v] + 1 /\ current_document_id'[v] = JobOf(t)
      BY <1>6, <2>1 DEF ToldInv
    <3> QED
      BY <1>1, <1>2, <1>3, <1>7, <2>1, <3>1, NoneIsNoJob
  <2>2. CASE v # w
    <3>1. /\ active_jobs'[v] = active_jobs[v] /\ current_state'[v] = current_state[v]
          /\ current_document_id'[v] = current_document_id[v]
      BY <1>6, <2>2 DEF ToldInv
    <3>2. \A u : JobOf(u)' = JobOf(u)
      BY <1>1 DEF JobOf
    <3> QED
      BY <1>3, <1>4, <2>2, <3>1, <3>2 DEF ToldInv, WorkIsTold
  <2> QED
    BY <2>1, <2>2
<1>10. WorkIsTold'
  BY <1>9 DEF WorkIsTold
<1> QED
  BY <1>8, <1>10 DEF ToldInv

\* The finally branch runs with every task that ends, also with one that raises.
LEMMA ExitIsTold ==
    ASSUME TasksInv, TasksApart, ToldInv, UNCHANGED log, NEW t \in tasks, t.pc # "waiting",
           Ends(t), ExitTask(t)
    PROVE  ToldInv'
<1> DEFINE w == t.worker
<1>0. w \in Workers
  BY DEF TasksInv, TasksOK, Task
<1>1. \A v \in Workers : IF v = w
                         THEN /\ Cardinality(Running(v)) \in Nat \ {0}
                              /\ Cardinality(Running(v)') = Cardinality(Running(v)) - 1
                         ELSE Running(v)' = Running(v)
  BY EndingReturnsThePermit
<1> HIDE DEF w
<1>2. /\ current_state' = [current_state EXCEPT ![w] = "IDLE"]
      /\ current_document_id' = [current_document_id EXCEPT ![w] = None]
      /\ active_jobs' = [active_jobs EXCEPT ![w] = IF @ = 0 THEN 0 ELSE @ - 1]
  BY DEF ExitTask, Tell, w
<1>3. /\ active_jobs[w] = Cardinality(Running(w)) /\ active_jobs[w] \in 0 .. Concurrency
      /\ active_jobs[w] # 0
  BY <1>0, <1>1 DEF ToldInv, WorkIsTold
<1>4. active_jobs[w] - 1 \in 0 .. Concurrency
  BY <1>3, LimitsArePositive
<1>5. active_jobs' = [active_jobs EXCEPT ![w] = active_jobs[w] - 1]
  BY <1>2, <1>3
<1>6. /\ current_state' \in [Workers -> {"IDLE", "PROCESSING"}]
      /\ current_document_id' \in [Workers -> Jobs \union {None}]
      /\ active_jobs' \in [Workers -> 0 .. Concurrency]
  BY <1>2, <1>4, <1>5 DEF ToldInv
<1>7. ASSUME NEW v \in Workers
      PROVE  /\ active_jobs'[v] = Cardinality(Running(v)')
             /\ current_state'[v] = "PROCESSING" => current_document_id'[v] # None
             /\ current_document_id'[v] # None =>
                   \E u \in Running(v)' : JobOf(u)' = current_document_id'[v]
  <2>1. CASE v = w
    <3>1. /\ active_jobs'[v] = active_jobs[v] - 1 /\ current_state'[v] = "IDLE"
          /\ current_document_id'[v] = None
      BY <1>2, <1>5, <2>1 DEF ToldInv
    <3> QED
      BY <1>1, <1>3, <2>1, <3>1
  <2>2. CASE v # w
    <3>1. /\ active_jobs'[v] = active_jobs[v] /\ current_state'[v] = current_state[v]
          /\ current_document_id'[v] = current_document_id[v]
      BY <1>2, <2>2 DEF ToldInv
    <3>2. \A u : JobOf(u)' = JobOf(u)
      BY DEF JobOf
    <3> QED
      BY <1>1, <2>2, <3>1, <3>2 DEF ToldInv, WorkIsTold
  <2> QED
    BY <2>1, <2>2
<1>8. WorkIsTold'
  BY <1>7 DEF WorkIsTold
<1> QED
  BY <1>6, <1>8 DEF ToldInv

LEMMA TaskStepIsTold ==
    ASSUME TasksInv, TasksApart, ToldInv, UNCHANGED log, NEW t \in tasks, TaskStep(t)
    PROVE  ToldInv'
<1>1. CASE Begin(t) /\ Enter(t)
  BY <1>1, EnteringIsTold
<1>2. CASE Process(t) /\ GoesOn(t) /\ UNCHANGED registryVars
  <2>1. PICK step \in TaskSteps \ {"waiting"} : t.pc # "waiting" /\ Advance(t, step)
    BY <1>2, ProcessGoesOnOrEnds
  <2>2. \A w \in Workers :
            /\ Cardinality(Running(w)') = Cardinality(Running(w))
            /\ \A u \in Running(w) : \E v \in Running(w)' : v.part = u.part /\ v.at = u.at
    BY <2>1, GoingOnKeepsPermits
  <2>3. UNCHANGED <<current_state, current_document_id, active_jobs>>
    BY <1>2 DEF registryVars
  <2> QED
    BY <2>2, <2>3, SameJobsAreTold
<1>3. CASE Process(t) /\ ~GoesOn(t) /\ ExitTask(t)
  BY <1>3, ProcessGoesOnOrEnds, ExitIsTold
<1> QED
  BY <1>1, <1>2, <1>3 DEF TaskStep

LEMMA WorkerStepIsTold ==
    ASSUME TasksInv, TasksApart, ToldInv, UNCHANGED log, NEW w \in Workers, WorkerStep(w)
    PROVE  ToldInv'
<1>0. UNCHANGED <<current_state, current_document_id, active_jobs>>
      /\ (\A v \in Workers : Running(v)' = Running(v)) => ToldInv'
  <2> SUFFICES ASSUME UNCHANGED <<current_state, current_document_id, active_jobs>>,
                      \A v \in Workers : Running(v)' = Running(v)
               PROVE  ToldInv'
    OBVIOUS
  <2> QED
    BY SameJobsAreTold
<1>1. CASE StartAndRegister(w)
  <2>1. Start(w) /\ Blank(w)
    BY <1>1 DEF StartAndRegister
  <2>2. Running(w) = {}
    BY <2>1 DEF Start, Running, TasksOf, TasksApart
  <2>3. \A v \in Workers : Running(v)' = IF v = w THEN {} ELSE Running(v)
    BY <2>1, <2>2, OthersKeepPermits
  <2> QED
    BY <2>1, <2>3, BlankIsTold
<1>2. CASE CrashUnnoticed(w) \/ ExitProcess(w)
  <2>1. (Crash(w) \/ Exit(w)) /\ Blank(w)
    BY <1>2 DEF CrashUnnoticed, ExitProcess
  <2> QED
    BY <2>1, EndingFreesPermits, BlankIsTold
<1>3. CASE StopHeartbeat(w) \/ SayDraining(w) \/ CloseConnections(w) \/ (Run(w) /\ UNCHANGED registryVars)
  <2>1. /\ StopConsumer(w) \/ SignOff(w) \/ ClosePool(w) \/ Run(w)
        /\ UNCHANGED <<current_state, current_document_id, active_jobs>>
    BY <1>3 DEF StopHeartbeat, SayDraining, CloseConnections, registryVars
  <2> QED
    BY <1>0, <2>1, OthersKeepPermits
<1>4. CASE SayDrainingFails(w) \/ Beat(w) \/ BeatLands(w) \/ BeatFails(w)
  <2>1. UNCHANGED tasks /\ UNCHANGED <<current_state, current_document_id, active_jobs>>
    BY <1>4 DEF SayDrainingFails, Beat, BeatLands, BeatFails, vars, poolVars, workerVars
  <2> QED
    BY <1>0, <2>1 DEF Running, TasksOf
<1> QED
  BY <1>1, <1>2, <1>3, <1>4 DEF WorkerStep

LEMMA ToldInvStep ==
    ASSUME TasksInv, OffsetInv, TasksApart, ToldInv, [RegistryNext]_allVars
    PROVE  ToldInv'
<1>1. UNCHANGED log
  BY PoolSteps, OffsetSteps
<1>2. CASE (Rebalance /\ UNCHANGED registryVars) \/ UNCHANGED allVars
  <2>1. UNCHANGED tasks /\ UNCHANGED <<current_state, current_document_id, active_jobs>>
    BY <1>2 DEF Rebalance, allVars, registryVars, vars, poolVars, workerVars
  <2>2. \A v \in Workers : Running(v)' = Running(v)
    BY <2>1 DEF Running, TasksOf
  <2> QED
    BY <1>1, <2>1, <2>2, SameJobsAreTold
<1> QED
  BY <1>1, <1>2, TaskStepIsTold, WorkerStepIsTold DEF RegistryNext

-----------------------------------------------------------------------------
(* The table worker_status *)

\* Rows and heartbeats hold what register_worker and heartbeat_worker are told.
BeatsInv ==
    /\ worker_status \in [Ids -> WorkerRow \union {None}]
    /\ beat \in [Workers -> Told \union {None}]

LEMMA PutKeepsRows ==
    ASSUME worker_status \in [Ids -> WorkerRow \union {None}], NEW w \in Workers,
           NEW status \in {"ACTIVE", "DRAINING"}, NEW state \in {"IDLE", "PROCESSING"},
           NEW job \in Jobs \union {None}, Put(w, status, state, job) \/ Rewrite(w, status, state, job)
    PROVE  worker_status' \in [Ids -> WorkerRow \union {None}]
<1>1. [status |-> status, state |-> state, job |-> job] \in WorkerRow
  BY DEF WorkerRow
<1>2. IdOf[w] \in Ids
  BY IdsAreAssigned
<1> QED
  BY <1>1, <1>2 DEF Put, Rewrite

\* A heartbeat writes what it has read.
LEMMA BeatKeepsRows ==
    ASSUME BeatsInv, NEW w \in Workers, beat[w] # None,
           Rewrite(w, "ACTIVE", beat[w].state, beat[w].job)
    PROVE  worker_status' \in [Ids -> WorkerRow \union {None}]
<1>1. beat[w].state \in {"IDLE", "PROCESSING"} /\ beat[w].job \in Jobs \union {None}
  BY DEF BeatsInv, Told
<1> QED
  BY <1>1, PutKeepsRows DEF BeatsInv

LEMMA WorkerStepKeepsBeats ==
    ASSUME ToldInv, BeatsInv, NEW w \in Workers, WorkerStep(w)
    PROVE  BeatsInv'
<1> USE DEF BeatsInv
<1>1. CASE StartAndRegister(w) \/ SayDraining(w) \/ SayDrainingFails(w) \/ ExitProcess(w)
  <2>1. UNCHANGED beat
    BY <1>1 DEF StartAndRegister, SayDraining, SayDrainingFails, ExitProcess
  <2>2. worker_status' \in [Ids -> WorkerRow \union {None}]
    BY <1>1, PutKeepsRows DEF StartAndRegister, SayDraining, SayDrainingFails, ExitProcess
  <2> QED
    BY <2>1, <2>2
<1>2. CASE Beat(w)
  <2>1. UNCHANGED worker_status
        /\ beat' = [beat EXCEPT ![w] = [state |-> current_state[w], job |-> current_document_id[w]]]
    BY <1>2 DEF Beat
  <2>2. [state |-> current_state[w], job |-> current_document_id[w]] \in Told
    BY DEF ToldInv, Told
  <2> QED
    BY <2>1, <2>2
<1>3. CASE BeatLands(w) \/ BeatFails(w)
  <2>1. beat' = [beat EXCEPT ![w] = None]
    BY <1>3 DEF BeatLands, BeatFails
  <2>2. worker_status' \in [Ids -> WorkerRow \union {None}]
    BY <1>3, BeatKeepsRows DEF BeatLands, BeatFails
  <2> QED
    BY <2>1, <2>2
<1>4. CASE \/ CrashUnnoticed(w) \/ StopHeartbeat(w) \/ CloseConnections(w)
           \/ Run(w) /\ UNCHANGED registryVars
  BY <1>4 DEF CrashUnnoticed, StopHeartbeat, CloseConnections, registryVars
<1> QED
  BY <1>1, <1>2, <1>3, <1>4 DEF WorkerStep

LEMMA BeatsInvStep ==
    ASSUME ToldInv, BeatsInv, [RegistryNext]_allVars
    PROVE  BeatsInv'
<1>1. UNCHANGED <<worker_status, beat>> => BeatsInv'
  BY DEF BeatsInv
<1>2. ASSUME NEW t \in tasks, TaskStep(t)
      PROVE  UNCHANGED <<worker_status, beat>>
  BY <1>2 DEF TaskStep, Enter, ExitTask, registryVars
<1> QED
  BY <1>1, <1>2, WorkerStepKeepsBeats DEF RegistryNext, registryVars, allVars

-----------------------------------------------------------------------------
(* The theorems *)

RegistryInv ==
    /\ TasksInv /\ OffsetInv /\ PoolTypes /\ TasksApart
    /\ ToldInv /\ BeatsInv

LEMMA RegistryInvInit == RegistryInit => RegistryInv
<1> SUFFICES ASSUME RegistryInit PROVE RegistryInv
  OBVIOUS
<1>1. Init /\ tasks = {} /\ loop = [w \in Workers |-> "down"]
  BY DEF RegistryInit, Init, PoolInit
<1>2. TasksInv /\ OffsetInv /\ PoolTypes /\ TasksApart
  BY <1>1, TasksInvInit, OffsetInvInit, PoolTypesInit DEF TasksApart
<1>3. \A w \in Workers : Running(w) = {}
  BY <1>1 DEF Running, TasksOf
<1>4. Cardinality({}) = 0 /\ 0 \in 0 .. Concurrency
  BY FS_EmptySet, LimitsArePositive
<1>5. ToldInv
  BY <1>3, <1>4 DEF RegistryInit, ToldInv, WorkIsTold
<1>6. BeatsInv
  BY DEF RegistryInit, BeatsInv
<1> QED
  BY <1>2, <1>5, <1>6 DEF RegistryInv

LEMMA RegistryInvStep == RegistryInv /\ [RegistryNext]_allVars => RegistryInv'
<1> SUFFICES ASSUME RegistryInv, [RegistryNext]_allVars PROVE RegistryInv'
  OBVIOUS
<1>1. [PoolNext]_vars
  BY PoolSteps
<1>2. (TasksInv /\ OffsetInv)' /\ PoolTypes' /\ TasksApart'
  BY <1>1, TasksInvStep, PoolTypesStep, TasksApartStep DEF RegistryInv
<1>3. ToldInv' /\ BeatsInv'
  BY ToldInvStep, BeatsInvStep DEF RegistryInv
<1> QED
  BY <1>2, <1>3 DEF RegistryInv

LEMMA RegistryInvHolds == RegistrySpec => []RegistryInv
BY RegistryInvInit, RegistryInvStep, PTL DEF RegistrySpec

\* No process counts more jobs than it has permits, or fewer than none, and worker_status
\* holds only states that register_worker and heartbeat_worker write.
THEOREM RegistryTypesHold == RegistrySpec => []RegistryTypeOK
<1>1. RegistryInv => RegistryTypeOK
  BY DEF RegistryInv, TasksInv, TasksOK, RowsOK, Tables, OffsetInv, PoolTypes, TypeOK, ToldInv,
         BeatsInv, RegistryTypeOK
<1> QED
  BY RegistryInvHolds, <1>1, PTL

\* active_jobs is exact: every handle_record that took a permit is counted until its finally
\* branch, also one whose gather has been given up; and the document a worker names is one
\* it works on.
THEOREM WorkIsToldHolds == RegistrySpec => []WorkIsTold
<1>1. RegistryInv => WorkIsTold
  BY DEF RegistryInv, ToldInv
<1> QED
  BY RegistryInvHolds, <1>1, PTL

\* What the workers promise of documents holds as well with the heartbeats beside it.
THEOREM CompletedHasResultInRegistry == RegistrySpec => []CompletedHasResult
<1>1. RegistryInv => CompletedHasResult
  BY DEF RegistryInv, TasksInv, RowsOK
<1> QED
  BY RegistryInvHolds, <1>1, PTL

=============================================================================
