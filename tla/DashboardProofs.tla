-------------------------- MODULE DashboardProofs ---------------------------
(***************************************************************************)
(* Theorems about the dashboard: its load tests and its batches, for any   *)
(* number and size of them and whatever faults the environment injects.    *)
(***************************************************************************)
EXTENDS Dashboard, TLAPS

-----------------------------------------------------------------------------
(* What ties the task of a load test to its entry and its row *)

NewEntry == [status |-> "PREPARING", result |-> "PENDING"]
RunningEntry == [status |-> "RUNNING", result |-> "PENDING"]
FailedEntry == [status |-> "FAILED", result |-> "FAIL"]

MemoryFollows(t) ==
    /\ task[t] \in {"idle", "lost"} => memory[t] = None
    /\ task[t] \in {"insert", "begin"} => memory[t] = NewEntry
    /\ task[t] \in {"mark", "burst"} => memory[t] = RunningEntry
    /\ task[t] = "persist" => memory[t] # None /\ memory[t].status = "COMPLETED"
    /\ task[t] = "failed" => memory[t] = FailedEntry
    /\ task[t] = "ended" /\ memory[t] # None => memory[t].status \in {"COMPLETED", "FAILED"}
    /\ memory[t] # None => (memory[t].result # "PENDING" <=> memory[t].status \in {"COMPLETED", "FAILED"})
    /\ memory[t] # None /\ memory[t].result = "PASS" => memory[t].status = "COMPLETED"

RowFollows(t) ==
    /\ task[t] \in {"idle", "insert"} => row[t] = None
    /\ task[t] \in {"begin", "mark", "burst", "persist", "failed"} /\ row[t] # None =>
          row[t].status \in {"PREPARING", "RUNNING"} /\ row[t].result = "PENDING"
    /\ row[t] # None /\ row[t].result = "PASS" => row[t].status = "COMPLETED"

\* gather waits for the requests nobody has heard of; an exception escapes the counters.
Accounted(t) ==
    /\ Sum(tally[t]) + open[t] <= sent[t]
    /\ ~raised[t] => Sum(tally[t]) + open[t] = sent[t]

Whole(t) == sent[t] = Target /\ open[t] = 0 /\ Sum(tally[t]) = Target

\* A completed test is past its burst, so nothing it tells of changes any more.
Settled(t) ==
    /\ memory[t] # None /\ memory[t].status = "COMPLETED" =>
          Whole(t) /\ task[t] \in {"persist", "ended"}
    /\ row[t] # None /\ row[t].status = "COMPLETED" =>
          /\ Whole(t) /\ task[t] \in {"ended", "lost"}
          /\ row[t].counts = [b \in Stored |-> tally[t][b]]
    /\ Passed(t) => (\E onTime \in BOOLEAN : Pass(t, onTime)) /\ task[t] # "burst"

\* Only a restart replaces the pool, and no task outlives it.
Linked(t) == task[t] \in {"insert", "mark", "persist", "failed"} => connected

TestInv(t) == MemoryFollows(t) /\ RowFollows(t) /\ Accounted(t) /\ Settled(t) /\ Linked(t)

LoadInv == TypeOK /\ \A t \in Tests : TestInv(t)

\* Nothing of test t changes.
Same(t) ==
    /\ task'[t] = task[t] /\ memory'[t] = memory[t] /\ row'[t] = row[t]
    /\ sent'[t] = sent[t] /\ open'[t] = open[t] /\ tally'[t] = tally[t] /\ raised'[t] = raised[t]
    /\ connected' = connected

LEMMA SameTest == ASSUME NEW t, Same(t), TestInv(t) PROVE TestInv(t)'
BY DEF Same, TestInv, MemoryFollows, RowFollows, Accounted, Settled, Linked, Whole, Passed, Pass,
   Answered, Sum

\* Type correctness leaves each counter a number.
LEMMA Counters ==
    ASSUME TypeOK, NEW t \in Tests
    PROVE  /\ sent[t] \in 0..Target /\ open[t] \in 0..Target /\ raised[t] \in BOOLEAN
           /\ tally[t] \in [Buckets -> 0..Target]
           /\ Sum(tally[t]) \in Nat
           /\ \A b \in Buckets : tally[t][b] <= Sum(tally[t])
<1>1. \A b \in Buckets : tally[t][b] \in Nat
  BY TargetIsPositive DEF TypeOK
<1> QED
  BY <1>1, TargetIsPositive DEF TypeOK, Sum, Buckets

-----------------------------------------------------------------------------
(* The steps of a load test *)

LEMMA LoadInvInit == Init => LoadInv
<1> SUFFICES ASSUME Init PROVE LoadInv
  OBVIOUS
<1>1. TypeOK
  BY TargetIsPositive, MaxRestartsIsNat, PoolsAreFlags
     DEF Init, TypeOK, NoAnswers, Running
<1>2. ASSUME NEW t \in Tests
      PROVE  TestInv(t)
  <2>1. Sum(NoAnswers) = 0
    BY DEF Sum, NoAnswers, Buckets
  <2> QED
    BY <1>2, <2>1 DEF Init, TestInv, MemoryFollows, RowFollows, Accounted, Settled, Linked, Passed
<1> QED
  BY <1>1, <1>2 DEF LoadInv

\* A step of one test, inside its own indices.
StepOf(t) == StartTest(t) \/ RunTest(t)

\* An answer is counted in one bucket.
LEMMA HearCounts ==
    ASSUME TypeOK, NEW t \in Tests, NEW response \in Responses, Hear(t, response)
    PROVE  /\ \E b \in Buckets : tally' = [tally EXCEPT ![t] = [tally[t] EXCEPT ![b] = tally[t][b] + 1]]
           /\ Sum(tally'[t]) = Sum(tally[t]) + 1
<1> DEFINE b == BucketOf(response)
<1>1. b \in Buckets
  <2>1. response \in Classes
    BY ResponsesAreKnown
  <2> QED
    BY <2>1 DEF BucketOf, Buckets, Classes
<1>2. tally' = [tally EXCEPT ![t] = [tally[t] EXCEPT ![b] = tally[t][b] + 1]]
  BY DEF Hear
<1> HIDE DEF b
<1>3. /\ tally'[t] = [tally[t] EXCEPT ![b] = tally[t][b] + 1]
      /\ tally[t] \in [Buckets -> Nat]
  BY <1>2, TargetIsPositive DEF TypeOK
<1>4. Sum(tally'[t]) = Sum(tally[t]) + 1
  BY <1>1, <1>3 DEF Sum, Buckets
<1> QED
  BY <1>1, <1>2, <1>4

LEMMA TypeStep ==
    ASSUME TypeOK, NEW t \in Tests, StepOf(t), TestInv(t)
    PROVE  TypeOK'
<1>0. /\ sent[t] \in 0..Target /\ open[t] \in 0..Target /\ Target \in Nat
      /\ tally[t] \in [Buckets -> 0..Target] /\ Sum(tally[t]) \in Nat
      /\ \A b \in Buckets : tally[t][b] <= Sum(tally[t])
      /\ Sum(tally[t]) + open[t] <= sent[t]
  BY Counters, TargetIsPositive DEF TestInv, Accounted
<1>1. CASE Launch(t) \/ Begin(t)
  BY <1>1 DEF Launch, Begin, TypeOK, Remember, Goto, SameRun, burstVars, Entry, Status, Verdict, Running
<1>2. CASE InsertRow(t) \/ InsertFails(t)
  <2>1. NewRow \in Row
    BY <1>0 DEF NewRow, Row, Status, Verdict
  <2> QED
    BY <1>2, <2>1 DEF InsertRow, InsertFails, TypeOK, Goto, SameRun, burstVars, Running
<1>3. CASE MarkRunning(t)
  <2>1. row[t] # None => [row[t] EXCEPT !.status = "RUNNING"] \in Row
    BY DEF TypeOK, Row, Status
  <2>2. row' \in [Tests -> Row \union {None}]
    BY <1>3, <2>1 DEF MarkRunning, Update, TypeOK
  <2> QED
    BY <1>3, <2>2 DEF MarkRunning, TypeOK, Goto, SameRun, burstVars, Running
<1>4. CASE Send(t)
  BY <1>0, <1>4 DEF Send, TypeOK, SameRun
<1>5. ASSUME NEW response \in Responses, Hear(t, response)
      PROVE  TypeOK'
  <2>1. PICK b \in Buckets : tally' = [tally EXCEPT ![t] = [tally[t] EXCEPT ![b] = tally[t][b] + 1]]
    BY <1>5, HearCounts
  <2>2. tally[t][b] + 1 \in 0..Target /\ open[t] - 1 \in 0..Target
    BY <1>0, <1>5 DEF Hear
  <2>3. [tally[t] EXCEPT ![b] = tally[t][b] + 1] \in [Buckets -> 0..Target]
    BY <1>0, <2>2
  <2>4. tally' \in [Tests -> [Buckets -> 0..Target]]
    BY <2>1, <2>3 DEF TypeOK
  <2> QED
    BY <1>5, <2>2, <2>4 DEF Hear, TypeOK, SameRun
<1>6. CASE RequestRaises(t)
  BY <1>0, <1>6 DEF RequestRaises, TypeOK, SameRun
<1>7. CASE Gathered(t) \/ GatherRaises(t)
  <2>1. \E entry \in Entry : memory' = [memory EXCEPT ![t] = entry]
    BY <1>7 DEF Gathered, GatherRaises, Conclude, Remember, Entry, Status, Verdict
  <2> QED
    BY <1>7, <2>1 DEF Gathered, GatherRaises, Conclude, TypeOK, Goto, SameRun, burstVars, Running
<1>8. CASE Persist(t) \/ PersistFails(t)
  <2>1. memory[t] # None
    BY <1>8 DEF TestInv, MemoryFollows, Persist, PersistFails
  <2>2. ResultRow(t) \in Row
    BY <1>0, <2>1 DEF ResultRow, Row, TypeOK, Entry, Status, Stored, Buckets
  <2>3. row' = row \/ row' = [row EXCEPT ![t] = ResultRow(t)]
    BY <1>8 DEF Persist, PersistFails, Update
  <2> QED
    BY <1>8, <2>2, <2>3 DEF Persist, PersistFails, TypeOK, Goto, SameRun, burstVars, Running
<1>9. CASE PersistFailure(t)
  BY <1>9 DEF PersistFailure, Update, TypeOK, Goto, SameRun, burstVars, Running, Row, Status, Verdict
<1> QED
  BY <1>1, <1>2, <1>3, <1>4, <1>5, <1>6, <1>7, <1>8, <1>9
     DEF StepOf, StartTest, RunTest, RunTimedBurst

LEMMA OthersRest ==
    ASSUME TypeOK, NEW t \in Tests, StepOf(t), NEW u \in Tests \ {t}
    PROVE  Same(u)
<1>1. ASSUME NEW response, Hear(t, response)
      PROVE  Same(u)
  BY <1>1 DEF Hear, TypeOK, Same, SameRun
<1> QED
  BY <1>1 DEF StepOf, StartTest, RunTest, RunTimedBurst, Launch, InsertRow, InsertFails, Begin,
     MarkRunning, Send, RequestRaises, Gathered, GatherRaises, Conclude, Persist, PersistFails,
     PersistFailure, Update, Remember, Goto, SameRun, burstVars, Same, TypeOK

\* The step of a test keeps what ties its task, its entry and its row together.
LEMMA OwnStep ==
    ASSUME TypeOK, NEW t \in Tests, StepOf(t), TestInv(t)
    PROVE  TestInv(t)'
<1> USE DEF TestInv
<1>0. Linked(t)'
  <2>1. /\ connected' = connected
        /\ task'[t] \in {"insert", "mark", "persist", "failed"} /\ task'[t] # task[t] => connected
    BY DEF StepOf, StartTest, RunTest, RunTimedBurst, Launch, InsertRow, InsertFails, Begin,
     MarkRunning, Send, Hear, RequestRaises, Gathered, GatherRaises, Conclude, Persist, PersistFails,
     PersistFailure, Goto, SameRun, TypeOK
  <2> QED
    BY <2>1 DEF Linked
<1>1. CASE Launch(t) \/ InsertRow(t) \/ InsertFails(t) \/ Begin(t)
  <2>1. UNCHANGED burstVars
    BY <1>1 DEF Launch, InsertRow, InsertFails, Begin
  <2>2. MemoryFollows(t)'
    BY <1>1 DEF Launch, InsertRow, InsertFails, Begin, Goto, Remember, MemoryFollows, TypeOK,
       NewEntry, RunningEntry, FailedEntry
  <2>3. RowFollows(t)'
    BY <1>1 DEF Launch, InsertRow, InsertFails, Begin, Goto, NewRow, RowFollows, TypeOK
  <2>4. Accounted(t)'
    BY <2>1 DEF burstVars, Accounted
  <2>5. Settled(t)'
    BY <1>1, <2>1 DEF Launch, InsertRow, InsertFails, Begin, Goto, Remember, NewRow, MemoryFollows,
       RowFollows, Settled, Passed, Pass, Answered, Whole, burstVars, TypeOK, NewEntry
  <2> QED
    BY <1>0, <2>2, <2>3, <2>4, <2>5
<1>2. CASE MarkRunning(t)
  <2>1. /\ task[t] = "mark" /\ task'[t] = "burst" /\ memory' = memory /\ UNCHANGED burstVars
        /\ \/ row'[t] = row[t]
           \/ row[t] # None /\ row'[t] = [row[t] EXCEPT !.status = "RUNNING"]
    BY <1>2 DEF MarkRunning, Update, Goto, TypeOK
  <2>2. memory[t] = RunningEntry
    BY <2>1 DEF MemoryFollows
  <2>3. row'[t] # None => row'[t].status \in {"PREPARING", "RUNNING"} /\ row'[t].result = "PENDING"
    BY <2>1 DEF RowFollows, TypeOK, Row
  <2>4. MemoryFollows(t)'
    BY <2>1, <2>2 DEF MemoryFollows, RunningEntry
  <2>5. RowFollows(t)'
    BY <2>1, <2>3 DEF RowFollows
  <2>6. Accounted(t)' /\ Settled(t)'
    BY <2>1, <2>2, <2>3 DEF Accounted, Settled, Passed, burstVars, RunningEntry
  <2> QED
    BY <1>0, <2>4, <2>5, <2>6
<1>3. CASE RunTimedBurst(t)
  <2>1. /\ task[t] = "burst" /\ task' = task /\ memory' = memory /\ row' = row
    BY <1>3 DEF RunTimedBurst, Send, Hear, RequestRaises
  <2>2. Accounted(t)'
    <3>0. /\ sent[t] \in Nat /\ open[t] \in Nat /\ Sum(tally[t]) \in Nat /\ raised[t] \in BOOLEAN
      BY Counters, TargetIsPositive
    <3>1. CASE Send(t)
      <4>1. /\ sent'[t] = sent[t] + 1 /\ open'[t] = open[t] + 1
            /\ tally' = tally /\ raised' = raised
        BY <3>1 DEF Send, TypeOK
      <4> QED
        BY <3>0, <4>1 DEF Accounted
    <3>2. ASSUME NEW response \in Responses, Hear(t, response)
          PROVE  Accounted(t)'
      <4>1. /\ sent' = sent /\ open'[t] = open[t] - 1 /\ raised' = raised
        BY <3>2 DEF Hear, TypeOK
      <4>2. Sum(tally'[t]) = Sum(tally[t]) + 1
        BY <3>2, HearCounts
      <4> QED
        BY <3>0, <4>1, <4>2 DEF Accounted
    <3>3. CASE RequestRaises(t)
      BY <3>0, <3>3 DEF RequestRaises, Accounted, TypeOK
    <3> QED
      BY <1>3, <3>1, <3>2, <3>3 DEF RunTimedBurst
  <2>3. MemoryFollows(t)' /\ RowFollows(t)'
    BY <2>1 DEF MemoryFollows, RowFollows
  <2>4. Settled(t)'
    BY <2>1 DEF MemoryFollows, RowFollows, Settled, Passed, RunningEntry
  <2> QED
    BY <1>0, <2>2, <2>3, <2>4
<1>4. CASE Gathered(t)
  <2>1. PICK onTime \in BOOLEAN :
            memory'[t] = [status |-> "COMPLETED", result |-> IF Pass(t, onTime) THEN "PASS" ELSE "FAIL"]
    BY <1>4 DEF Gathered, Conclude, Remember, TypeOK
  <2>2. /\ task[t] = "burst" /\ task'[t] \in {"persist", "ended"} /\ row' = row
        /\ UNCHANGED burstVars /\ sent[t] = Target /\ open[t] = 0 /\ ~raised[t]
    BY <1>4 DEF Gathered, Conclude, Goto, TypeOK
  <2>3. Sum(tally[t]) = Target
    BY <2>2, Counters DEF Accounted
  <2>4. MemoryFollows(t)'
    BY <2>1, <2>2, NoneIsNoEntry DEF MemoryFollows, Entry, Status, Verdict
  <2>5. RowFollows(t)' /\ Accounted(t)'
    BY <2>2 DEF RowFollows, Accounted, burstVars
  <2>6. Settled(t)'
    BY <2>1, <2>2, <2>3 DEF Settled, RowFollows, Whole, Passed, Pass, Answered, burstVars
  <2> QED
    BY <1>0, <2>4, <2>5, <2>6
<1>5. CASE GatherRaises(t)
  <2>1. /\ task[t] = "burst" /\ task'[t] \in {"failed", "ended"} /\ row' = row
        /\ UNCHANGED burstVars /\ memory'[t] = FailedEntry
    BY <1>5 DEF GatherRaises, Remember, Goto, TypeOK, FailedEntry
  <2> QED
    BY <1>0, <2>1 DEF MemoryFollows, RowFollows, Accounted, Settled, Passed, FailedEntry, burstVars
<1>6. CASE Persist(t) \/ PersistFails(t)
  <2>1. /\ task[t] = "persist" /\ task'[t] = "ended" /\ memory' = memory /\ UNCHANGED burstVars
        /\ \/ row'[t] = row[t]
           \/ row'[t] = ResultRow(t)
    BY <1>6 DEF Persist, PersistFails, Update, Goto, TypeOK
  <2>2. memory[t] # None /\ memory[t].status = "COMPLETED" /\ Whole(t)
    BY <2>1 DEF MemoryFollows, Settled
  <2>3. MemoryFollows(t)' /\ RowFollows(t)' /\ Accounted(t)'
    BY <2>1, <2>2 DEF MemoryFollows, RowFollows, Accounted, burstVars, ResultRow
  <2>4. Settled(t)'
    BY <2>1, <2>2 DEF Settled, RowFollows, Passed, ResultRow, Whole, Pass, Answered, burstVars
  <2> QED
    BY <1>0, <2>3, <2>4
<1>7. CASE PersistFailure(t)
  <2>1. /\ task[t] = "failed" /\ task'[t] = "ended" /\ memory' = memory /\ UNCHANGED burstVars
        /\ \/ row'[t] = row[t]
           \/ row[t] # None /\ row'[t] = [row[t] EXCEPT !.status = "FAILED", !.result = "FAIL"]
    BY <1>7 DEF PersistFailure, Update, Goto, TypeOK
  <2>2. memory[t] = FailedEntry
    BY <2>1 DEF MemoryFollows
  <2>3. row'[t] # None => row'[t].status # "COMPLETED" /\ row'[t].result # "PASS"
    BY <2>1 DEF RowFollows, TypeOK, Row
  <2>4. MemoryFollows(t)' /\ RowFollows(t)' /\ Accounted(t)'
    BY <2>1, <2>2, <2>3 DEF MemoryFollows, RowFollows, Accounted, burstVars, FailedEntry
  <2>5. Settled(t)'
    BY <2>1, <2>2, <2>3 DEF Settled, Passed, FailedEntry, burstVars
  <2> QED
    BY <1>0, <2>4, <2>5
<1> QED
  BY <1>1, <1>2, <1>3, <1>4, <1>5, <1>6, <1>7 DEF StepOf, StartTest, RunTest

LEMMA RestartStep == LoadInv /\ Restart => LoadInv'
<1> SUFFICES ASSUME LoadInv, Restart PROVE LoadInv'
  OBVIOUS
<1>1. TypeOK'
  BY MaxRestartsIsNat, PoolsAreFlags DEF LoadInv, Restart, TypeOK, burstVars, Running
<1>2. ASSUME NEW t \in Tests
      PROVE  TestInv(t)'
  <2>1. /\ memory'[t] = None /\ row'[t] = row[t] /\ UNCHANGED burstVars
        /\ task'[t] = IF task[t] \in Running THEN "lost" ELSE task[t]
    BY DEF LoadInv, Restart, TypeOK
  <2>2. TestInv(t)
    BY DEF LoadInv
  <2>3. task[t] \in Running \union {"idle", "ended", "lost"}
    BY DEF LoadInv, TypeOK
  <2>4. MemoryFollows(t)' /\ RowFollows(t)' /\ Accounted(t)'
    BY <2>1, <2>2, <2>3 DEF TestInv, MemoryFollows, RowFollows, Accounted, burstVars, Running
  <2>5. Settled(t)'
    BY <2>1, <2>2, <2>3 DEF TestInv, Settled, Passed, Pass, Answered, Whole, burstVars, Running
  <2>6. Linked(t)'
    BY <2>1, <2>3 DEF Linked, Running
  <2> QED
    BY <2>4, <2>5, <2>6 DEF TestInv
<1> QED
  BY <1>1, <1>2 DEF LoadInv

LEMMA LoadInvStep == LoadInv /\ [Next]_vars => LoadInv'
<1> SUFFICES ASSUME LoadInv, [Next]_vars PROVE LoadInv'
  OBVIOUS
<1>1. ASSUME NEW t \in Tests, StepOf(t)
      PROVE  LoadInv'
  BY <1>1, TypeStep, OwnStep, OthersRest, SameTest DEF LoadInv
<1>2. CASE UNCHANGED vars
  <2>1. \A t \in Tests : Same(t)
    BY <1>2 DEF vars, burstVars, Same
  <2> QED
    BY <1>2, <2>1, SameTest DEF LoadInv, vars, burstVars, TypeOK
<1> QED
  BY <1>1, <1>2, RestartStep DEF Next, StepOf

-----------------------------------------------------------------------------
(* A load test is what TestService says of it *)

\* The variables of the abstract service.
Stages == [t \in Tests |-> Stage(task[t])]
Memories == [t \in Tests |-> Offered(t, memory[t])]
Rows == [t \in Tests |-> Offered(t, row[t])]

LEMMA OfferedEntries ==
    ASSUME LoadInv, NEW t \in Tests
    PROVE  /\ memory[t] # None => Offered(t, memory[t]) # None
           /\ row[t] # None => Offered(t, row[t]) # None
<1>1. ASSUME NEW entry, entry # None, entry.status \in Status, entry.result \in Verdict
      PROVE  Offered(t, entry) # None
  <2>1. (entry.status = "COMPLETED" /\ Answered(t)) \in BOOLEAN
    OBVIOUS
  <2>2. [status |-> entry.status, result |-> entry.result,
         measured |-> entry.status = "COMPLETED" /\ Answered(t)] \in Told
    BY <1>1, <2>1 DEF Told
  <2> QED
    BY <1>1, <2>2, NoneIsNoEntry DEF Offered
<1> QED
  BY <1>1 DEF LoadInv, TypeOK, Entry, Row

\* What a test shows depends on nothing but the test.
LEMMA SameIsOffered ==
    ASSUME NEW u \in Tests, Same(u)
    PROVE  Stages'[u] = Stages[u] /\ Memories'[u] = Memories[u] /\ Rows'[u] = Rows[u]
BY DEF Same, Stages, Memories, Rows, Offered, Answered

LEMMA OnlyOne ==
    ASSUME LoadInv, NEW t \in Tests, StepOf(t)
    PROVE  /\ Stages' = [Stages EXCEPT ![t] = Stages'[t]]
           /\ Memories' = [Memories EXCEPT ![t] = Memories'[t]]
           /\ Rows' = [Rows EXCEPT ![t] = Rows'[t]]
<1>1. \A u \in Tests \ {t} : Stages'[u] = Stages[u] /\ Memories'[u] = Memories[u] /\ Rows'[u] = Rows[u]
  BY OthersRest, SameIsOffered DEF LoadInv
<1> QED
  BY <1>1 DEF Stages, Memories, Rows

LEMMA EntriesAreSome == NewEntry # None /\ RunningEntry # None /\ FailedEntry # None
BY NoneIsNoEntry DEF NewEntry, RunningEntry, FailedEntry, Entry, Status, Verdict

FailedOutcome == [status |-> "FAILED", result |-> "FAIL", measured |-> FALSE]

\* What a test that has not completed shows, in this state and in the next one.
LEMMA OfferedPending ==
    ASSUME NEW t
    PROVE  /\ /\ Offered(t, NewEntry) = Service!Preparing
              /\ Offered(t, RunningEntry) = Service!UnderWay
              /\ Offered(t, FailedEntry) = FailedOutcome
           /\ /\ Offered(t, NewEntry)' = Service!Preparing
              /\ Offered(t, RunningEntry)' = Service!UnderWay
              /\ Offered(t, FailedEntry)' = FailedOutcome
BY EntriesAreSome
   DEF Offered, NewEntry, RunningEntry, FailedEntry, FailedOutcome, Service!Preparing, Service!UnderWay

\* PREPARING, RUNNING, final: the order in which a test shows them.
LEMMA Ranks ==
    /\ Service!Rank(Service!Preparing) = 1 /\ Service!Rank(Service!UnderWay) = 2
    /\ \A entry \in FinalEntries : Service!Rank(entry) = 3
<1>1. \A entry \in FinalEntries : entry # Service!Preparing /\ entry # Service!UnderWay
  BY DEF FinalEntries, Service!Preparing, Service!UnderWay
<1>2. Service!Preparing # Service!UnderWay
  BY DEF Service!Preparing, Service!UnderWay
<1> QED
  BY <1>1, <1>2 DEF Service!Rank

LEMMA NewRowIsRow == NewRow \in Row
BY TargetIsPositive DEF NewRow, Row, Status, Verdict

LEMMA ResultRowIsRow ==
    ASSUME TypeOK, NEW t \in Tests, memory[t] # None
    PROVE  ResultRow(t) \in Row
BY DEF ResultRow, Row, TypeOK, Entry, Status, Stored, Buckets

LEMMA ServiceStep ==
    ASSUME LoadInv, LoadInv', NEW t \in Tests, StepOf(t)
    PROVE  [Service!Next]_(Service!vars)
<1>1. /\ Stages' = [Stages EXCEPT ![t] = Stages'[t]]
      /\ Memories' = [Memories EXCEPT ![t] = Memories'[t]]
      /\ Rows' = [Rows EXCEPT ![t] = Rows'[t]]
      /\ UNCHANGED <<connected, restarts>>
  <2>1. UNCHANGED <<connected, restarts>>
    BY DEF StepOf, StartTest, RunTest, RunTimedBurst, Launch, InsertRow, InsertFails, Begin, SameRun,
     MarkRunning, Send, Hear, RequestRaises, Gathered, GatherRaises, Conclude, Persist, PersistFails,
     PersistFailure
  <2> QED
    BY <2>1, OnlyOne
<1>2. /\ Stages[t] = Stage(task[t]) /\ Stages'[t] = Stage(task'[t])
      /\ Memories[t] = Offered(t, memory[t]) /\ Memories'[t] = Offered(t, memory[t])'
      /\ Rows[t] = Offered(t, row[t]) /\ Rows'[t] = Offered(t, row[t])'
  BY DEF Stages, Memories, Rows
<1>3. TestInv(t) /\ TestInv(t)' /\ TypeOK /\ TypeOK'
  BY DEF LoadInv
\* The four things a test may do, as changes of what it shows.
<1>4. ASSUME Stages[t] = "idle", Stages'[t] = "running",
             Memories'[t] = Service!Preparing, Rows'[t] = Rows[t]
      PROVE  Service!Launch(t)
  BY <1>1, <1>4 DEF Service!Launch, Stages, Memories, Rows
<1>5. ASSUME NEW entry \in Service!Entries, Stages[t] = "running",
             Service!Rank(entry) > Service!Rank(Memories[t]),
             Memories'[t] = entry, Rows'[t] = Rows[t],
             \/ Stages'[t] = "running"
             \/ entry.status \in {"COMPLETED", "FAILED"} /\ Stages'[t] = "over"
      PROVE  Service!Tell(t)
  BY <1>1, <1>5 DEF Service!Tell, Service!MayEnd, Service!Final, Stages, Memories, Rows
<1>6. ASSUME connected, Stages[t] = "running",
             Rows[t] # None \/ Memories[t] = Service!Preparing,
             Memories[t].status = "COMPLETED" => Memories[t].measured,
             Memories'[t] = Memories[t], Rows'[t] = Memories[t],
             \/ Stages'[t] = "running"
             \/ Memories[t].status \in {"COMPLETED", "FAILED"} /\ Stages'[t] = "over"
      PROVE  Service!Store(t)
  <2>1. Memories' = Memories
    BY <1>1, <1>6 DEF Memories
  <2>2. Service!MayEnd(t, Memories[t])
    BY <1>1, <1>6 DEF Service!MayEnd, Service!Final, Stages, Memories
  <2>3. Rows' = [Rows EXCEPT ![t] = Memories[t]]
    BY <1>1, <1>6
  <2> QED
    BY <1>1, <1>6, <2>1, <2>2, <2>3 DEF Service!Store, Stages, Memories, Rows
<1>7. ASSUME Stages[t] = "running", Stages'[t] = "over",
             Memories[t].status \in {"COMPLETED", "FAILED"},
             Memories'[t] = Memories[t], Rows'[t] = Rows[t]
      PROVE  Service!End(t)
  BY <1>1, <1>7 DEF Service!End, Service!Final, Stages, Memories, Rows
<1>8. ASSUME Stages'[t] = Stages[t], Memories'[t] = Memories[t], Rows'[t] = Rows[t]
      PROVE  UNCHANGED Service!vars
  BY <1>1, <1>8 DEF Service!vars, Stages, Memories, Rows
<1>9. SUFFICES Service!Launch(t) \/ Service!Tell(t) \/ Service!Store(t) \/ Service!End(t)
                  \/ UNCHANGED Service!vars
  BY DEF Service!Next
<1>10. CASE Launch(t)
  <2>1. /\ task[t] = "idle" /\ task'[t] \in {"insert", "begin"} /\ memory'[t] = NewEntry
        /\ row' = row /\ tally' = tally
    BY <1>3, <1>10 DEF Launch, Goto, Remember, NewEntry, TypeOK, burstVars
  <2> QED
    BY <1>2, <1>4, <2>1, OfferedPending DEF Stage, Running, Offered, Answered
<1>11. CASE InsertRow(t) \/ InsertFails(t)
  <2>1. /\ task[t] = "insert" /\ task'[t] = "begin" /\ memory' = memory /\ tally' = tally
        /\ memory[t] = NewEntry /\ row'[t] \in {row[t], NewRow} /\ connected
    BY <1>3, <1>11 DEF InsertRow, InsertFails, Goto, TypeOK, burstVars, TestInv, MemoryFollows, Linked
  <2>2. Offered(t, NewRow)' = Service!Preparing
    BY NoneIsNoEntry, NewRowIsRow DEF Offered, NewRow, Service!Preparing
  <2>3. /\ Stages[t] = "running" /\ Stages'[t] = "running"
        /\ Memories[t] = Service!Preparing /\ Memories'[t] = Service!Preparing
    BY <1>2, <2>1, OfferedPending DEF Stage, Running
  <2>4. CASE row'[t] = NewRow
    <3>1. Rows'[t] = Service!Preparing
      BY <1>2, <2>2, <2>4 DEF Offered, Answered
    <3>2. Service!Preparing.status = "PREPARING"
      BY DEF Service!Preparing
    <3> QED
      BY <1>6, <2>1, <2>3, <3>1, <3>2
  <2>5. CASE row'[t] = row[t]
    BY <1>2, <1>8, <2>1, <2>3, <2>5 DEF Offered, Answered
  <2> QED
    BY <2>1, <2>4, <2>5
<1>12. CASE Begin(t)
  <2>1. /\ task[t] = "begin" /\ task'[t] \in {"mark", "burst"} /\ memory[t] = NewEntry
        /\ memory'[t] = RunningEntry /\ row' = row /\ tally' = tally
    BY <1>3, <1>12 DEF Begin, Goto, Remember, RunningEntry, TypeOK, burstVars, TestInv, MemoryFollows
  <2>2. /\ Stages[t] = "running" /\ Stages'[t] = "running"
        /\ Memories[t] = Service!Preparing /\ Memories'[t] = Service!UnderWay
        /\ Rows'[t] = Rows[t]
    BY <1>2, <2>1, OfferedPending DEF Stage, Running, Offered, Answered
  <2> QED
    BY <1>5, <2>2, Ranks DEF Service!Entries
<1>13. CASE MarkRunning(t)
  <2>1. /\ task[t] = "mark" /\ task'[t] = "burst" /\ memory' = memory /\ tally' = tally
        /\ memory[t] = RunningEntry /\ connected
        /\ \/ row'[t] = row[t]
           \/ row[t] # None /\ row'[t] = [row[t] EXCEPT !.status = "RUNNING"]
    BY <1>3, <1>13 DEF MarkRunning, Update, Goto, TypeOK, burstVars, TestInv, MemoryFollows, Linked
  <2>2. /\ Stages[t] = "running" /\ Stages'[t] = "running"
        /\ Memories[t] = Service!UnderWay /\ Memories'[t] = Service!UnderWay
    BY <1>2, <2>1, OfferedPending DEF Stage, Running
  <2>3. CASE row[t] # None /\ row'[t] = [row[t] EXCEPT !.status = "RUNNING"]
    <3>1. row'[t].status = "RUNNING" /\ row'[t].result = "PENDING" /\ row'[t] # None
      <4>1. row[t] \in Row /\ row[t].result = "PENDING"
        BY <1>3, <2>1, <2>3 DEF TypeOK, TestInv, RowFollows
      <4>2. row'[t] \in Row
        BY <2>3, <4>1 DEF Row, Status
      <4> QED
        BY <2>3, <4>1, <4>2, NoneIsNoEntry DEF Row
    <3>2. Rows'[t] = Service!UnderWay
      BY <1>2, <3>1 DEF Offered, Service!UnderWay
    <3>3. Rows[t] # None
      BY <1>2, <2>3, OfferedEntries
    <3> QED
      BY <1>6, <2>1, <2>2, <3>2, <3>3 DEF Service!UnderWay
  <2>4. CASE row'[t] = row[t]
    BY <1>2, <1>8, <2>1, <2>2, <2>4 DEF Offered, Answered
  <2> QED
    BY <2>1, <2>3, <2>4
<1>14. CASE RunTimedBurst(t)
  <2>1. /\ task[t] = "burst" /\ task' = task /\ memory' = memory /\ row' = row
    BY <1>14 DEF RunTimedBurst, Send, Hear, RequestRaises
  <2>2. memory[t] = RunningEntry /\ (row[t] # None => row[t].status # "COMPLETED")
    BY <1>3, <2>1 DEF TestInv, MemoryFollows, RowFollows
  <2> QED
    BY <1>2, <1>8, <2>1, <2>2, OfferedPending DEF Offered
<1>15. CASE Gathered(t)
  <2>1. PICK onTime \in BOOLEAN :
            memory'[t] = [status |-> "COMPLETED", result |-> IF Pass(t, onTime) THEN "PASS" ELSE "FAIL"]
    BY <1>3, <1>15 DEF Gathered, Conclude, Remember, TypeOK
  <2>2. /\ task[t] = "burst" /\ task'[t] \in {"persist", "ended"} /\ row' = row /\ tally' = tally
        /\ memory[t] = RunningEntry
    BY <1>3, <1>15 DEF Gathered, Conclude, Goto, TypeOK, burstVars, TestInv, MemoryFollows
  <2>3. memory'[t] # None
    BY <2>1, NoneIsNoEntry DEF Entry, Status, Verdict
  <2>4. Memories'[t].status = "COMPLETED" /\ Memories'[t] \in FinalEntries
    <3>1. Answered(t)' = Answered(t)
      BY <2>2 DEF Answered
    <3>2. /\ memory'[t].status = "COMPLETED" /\ memory'[t].result \in {"PASS", "FAIL"}
          /\ memory'[t].result = "PASS" => Answered(t)
      BY <2>1 DEF Pass
    <3>3. CASE Answered(t)
      <4>1. Memories'[t] = [status |-> "COMPLETED", result |-> memory'[t].result, measured |-> TRUE]
        BY <1>2, <2>3, <3>1, <3>2, <3>3 DEF Offered
      <4>2. CASE memory'[t].result = "PASS"
        BY <4>1, <4>2 DEF FinalEntries
      <4>3. CASE memory'[t].result = "FAIL"
        BY <4>1, <4>3 DEF FinalEntries
      <4> QED
        BY <3>2, <4>1, <4>2, <4>3
    <3>4. CASE ~Answered(t)
      <4>1. Memories'[t] = [status |-> "COMPLETED", result |-> "FAIL", measured |-> FALSE]
        BY <1>2, <2>3, <3>1, <3>2, <3>4 DEF Offered
      <4> QED
        BY <4>1 DEF FinalEntries
    <3> QED
      BY <3>3, <3>4
  <2>5. Memories[t] = Service!UnderWay /\ Stages[t] = "running" /\ Rows'[t] = Rows[t]
    BY <1>2, <2>2, OfferedPending DEF Stage, Running, Offered, Answered
  <2>6. Stages'[t] \in {"running", "over"}
    BY <1>2, <2>2 DEF Stage, Running
  <2> QED
    BY <1>5, <2>4, <2>5, <2>6, Ranks DEF Service!Entries
<1>16. CASE GatherRaises(t)
  <2>1. /\ task[t] = "burst" /\ task'[t] \in {"failed", "ended"} /\ row' = row /\ tally' = tally
        /\ memory[t] = RunningEntry /\ memory'[t] = FailedEntry
    BY <1>3, <1>16 DEF GatherRaises, Remember, Goto, TypeOK, FailedEntry, burstVars, TestInv,
       MemoryFollows
  <2>2. /\ Memories[t] = Service!UnderWay /\ Stages[t] = "running" /\ Rows'[t] = Rows[t]
        /\ Memories'[t] = FailedOutcome
    BY <1>2, <2>1, OfferedPending DEF Stage, Running, Offered, Answered
  <2>3. Stages'[t] \in {"running", "over"}
    BY <1>2, <2>1 DEF Stage, Running
  <2>4. FailedOutcome \in FinalEntries /\ FailedOutcome.status = "FAILED"
    BY DEF FailedOutcome, FinalEntries
  <2> QED
    BY <1>5, <2>2, <2>3, <2>4, Ranks DEF Service!Entries
<1>17. CASE Persist(t) \/ PersistFails(t)
  <2>1. /\ task[t] = "persist" /\ task'[t] = "ended" /\ memory' = memory /\ tally' = tally /\ connected
        /\ memory[t] # None /\ memory[t].status = "COMPLETED"
        /\ \/ row'[t] = row[t]
           \/ row[t] # None /\ Answered(t) /\ row'[t] = ResultRow(t)
    BY <1>3, <1>17 DEF Persist, PersistFails, Update, Goto, TypeOK, burstVars, TestInv, MemoryFollows,
       Linked
  <2>2. Stages[t] = "running" /\ Stages'[t] = "over" /\ Memories'[t] = Memories[t]
    BY <1>2, <2>1 DEF Stage, Running, Offered, Answered
  <2>3. Memories[t].status = "COMPLETED"
    BY <1>2, <2>1 DEF Offered
  <2>4. CASE row'[t] = row[t]
    <3>1. Rows'[t] = Rows[t]
      BY <1>2, <2>1, <2>4 DEF Offered, Answered
    <3> QED
      BY <1>7, <2>2, <2>3, <3>1
  <2>5. CASE row[t] # None /\ Answered(t) /\ row'[t] = ResultRow(t)
    <3>1. Rows[t] # None
      BY <1>2, <2>5, OfferedEntries
    <3>2. row'[t] # None
      BY <1>3, <2>1, <2>5, ResultRowIsRow, NoneIsNoEntry
    <3>3. Answered(t)' = Answered(t)
      BY <2>1 DEF Answered
    <3>4. Rows'[t] = Memories[t] /\ Memories[t].measured
      <4>1. Memories[t] = [status |-> "COMPLETED", result |-> memory[t].result, measured |-> TRUE]
        BY <1>2, <2>1, <2>5 DEF Offered
      <4>2. row'[t].status = "COMPLETED" /\ row'[t].result = memory[t].result
        BY <2>5 DEF ResultRow
      <4>3. Rows'[t] = [status |-> "COMPLETED", result |-> memory[t].result, measured |-> TRUE]
        BY <1>2, <2>5, <3>2, <3>3, <4>2 DEF Offered
      <4> QED
        BY <4>1, <4>3
    <3> QED
      BY <1>6, <2>1, <2>2, <2>3, <3>1, <3>4
  <2> QED
    BY <2>1, <2>4, <2>5
<1>18. CASE PersistFailure(t)
  <2>1. /\ task[t] = "failed" /\ task'[t] = "ended" /\ memory' = memory /\ tally' = tally /\ connected
        /\ memory[t] = FailedEntry
        /\ \/ row'[t] = row[t]
           \/ row[t] # None /\ row'[t] = [row[t] EXCEPT !.status = "FAILED", !.result = "FAIL"]
    BY <1>3, <1>18 DEF PersistFailure, Update, Goto, TypeOK, burstVars, TestInv, MemoryFollows, Linked
  <2>2. /\ Stages[t] = "running" /\ Stages'[t] = "over"
        /\ Memories[t] = FailedOutcome /\ Memories'[t] = FailedOutcome
    BY <1>2, <2>1, OfferedPending DEF Stage, Running
  <2>3. CASE row'[t] = row[t]
    <3>1. Rows'[t] = Rows[t]
      BY <1>2, <2>1, <2>3 DEF Offered, Answered
    <3> QED
      BY <1>7, <2>2, <3>1 DEF FailedOutcome
  <2>4. CASE row[t] # None /\ row'[t] = [row[t] EXCEPT !.status = "FAILED", !.result = "FAIL"]
    <3>1. Rows[t] # None
      BY <1>2, <2>4, OfferedEntries
    <3>2. row'[t] # None /\ row'[t].status = "FAILED" /\ row'[t].result = "FAIL"
      <4>1. row[t] \in Row
        BY <1>3, <2>4 DEF TypeOK
      <4>2. row'[t] \in Row
        BY <2>4, <4>1 DEF Row, Status, Verdict
      <4> QED
        BY <2>4, <4>1, <4>2, NoneIsNoEntry DEF Row
    <3>3. Rows'[t] = FailedOutcome
      BY <1>2, <3>2 DEF Offered, FailedOutcome
    <3> QED
      BY <1>6, <2>1, <2>2, <3>1, <3>3 DEF FailedOutcome
  <2> QED
    BY <2>1, <2>3, <2>4
<1> QED
  BY <1>10, <1>11, <1>12, <1>13, <1>14, <1>15, <1>16, <1>17, <1>18 DEF StepOf, StartTest, RunTest

LEMMA ServiceRestart == LoadInv /\ Restart => Service!Restart
<1> SUFFICES ASSUME LoadInv, Restart PROVE Service!Restart
  OBVIOUS
<1>1. Memories' = [t \in Tests |-> None]
  BY DEF Restart, Memories, Offered
<1>2. Rows' = Rows
  BY DEF Restart, Rows, Offered, Answered, burstVars
<1>3. Stages' = [t \in Tests |-> IF Stages[t] = "running" THEN "over" ELSE Stages[t]]
  <2>1. ASSUME NEW t \in Tests
        PROVE  Stage(task[t])' = IF Stage(task[t]) = "running" THEN "over" ELSE Stage(task[t])
    BY DEF LoadInv, TypeOK, Restart, Stage, Running
  <2> QED
    BY <2>1 DEF Stages
<1> QED
  BY <1>1, <1>2, <1>3 DEF Restart, Service!Restart, Stages, Memories, Rows

LEMMA ServiceInit == Init => Service!Init
<1> SUFFICES ASSUME Init PROVE Service!Init
  OBVIOUS
<1>1. Stages = [t \in Tests |-> "idle"]
  BY DEF Init, Stages, Stage, Running
<1>2. Memories = [t \in Tests |-> None]
  BY DEF Init, Memories, Offered
<1>3. Rows = [t \in Tests |-> None]
  BY DEF Init, Rows, Offered
<1> QED
  BY <1>1, <1>2, <1>3 DEF Init, Service!Init, Stages, Memories, Rows

LEMMA ServiceNext == LoadInv /\ LoadInv' /\ [Next]_vars => [Service!Next]_(Service!vars)
<1> SUFFICES ASSUME LoadInv, LoadInv', [Next]_vars PROVE [Service!Next]_(Service!vars)
  OBVIOUS
<1>1. CASE UNCHANGED vars
  BY <1>1 DEF vars, burstVars, Service!vars, Offered, Answered
<1>2. CASE Restart
  BY <1>2, ServiceRestart DEF Service!Next
<1> QED
  BY <1>1, <1>2, ServiceStep DEF Next, StepOf

-----------------------------------------------------------------------------
(* Batches *)

\* The report under way is counted by the API before it is by the batch.
BatchInv(b) ==
    /\ sender[b] \in {"idle", "lost"} => batches[b] = None
    /\ sender[b] = "idle" => taken[b] = 0 /\ adrift[b] = 0
    /\ sender[b] = "created" => batches[b] =
          [status |-> "PREPARING", accepted |-> 0, completed |-> 0, errors |-> 0]
    /\ sender[b] \in {"posting", "taken", "refused", "last"} =>
          batches[b] # None /\ batches[b].status = "RUNNING"
    /\ sender[b] \in {"posting", "taken", "refused"} => Desk!Handled(batches[b]) < Size
    /\ sender[b] = "last" => Desk!Handled(batches[b]) = Size
    /\ sender[b] = "ended" /\ batches[b] # None =>
          /\ Desk!Handled(batches[b]) = Size
          /\ batches[b].status = Desk!FinalStatus(batches[b])
    /\ batches[b] # None =>
          /\ batches[b].accepted = batches[b].completed
          /\ batches[b].accepted <= taken[b] - (IF sender[b] = "taken" THEN 1 ELSE 0)
          /\ taken[b] + adrift[b] <= Desk!Handled(batches[b]) + (IF sender[b] = "taken" THEN 1 ELSE 0)
    /\ taken[b] + adrift[b] <= Size

BatchesInv == Desk!BatchTypeOK /\ \A b \in Uploads : BatchInv(b)

LEMMA BatchesInvInit == Desk!BatchInit => BatchesInv
<1> SUFFICES ASSUME Desk!BatchInit PROVE BatchesInv
  OBVIOUS
<1>1. Desk!BatchTypeOK
  BY SizeIsPositive DEF Desk!BatchInit, Desk!BatchTypeOK
<1>2. ASSUME NEW b \in Uploads PROVE BatchInv(b)
  BY SizeIsPositive DEF Desk!BatchInit, BatchInv
<1> QED
  BY <1>1, <1>2 DEF BatchesInv

\* One batch is nobody else's business.
LEMMA SameBatch ==
    ASSUME NEW b, BatchInv(b),
           sender'[b] = sender[b], batches'[b] = batches[b],
           taken'[b] = taken[b], adrift'[b] = adrift[b]
    PROVE  BatchInv(b)'
BY DEF BatchInv, Desk!Handled, Desk!FinalStatus

BatchStepOf(b) == Desk!StartBatch(b) \/ Desk!RunBatch(b) \/ Desk!TakeLate(b)

LEMMA OtherBatchesRest ==
    ASSUME Desk!BatchTypeOK, NEW b \in Uploads, NEW c \in Uploads \ {b}, BatchStepOf(b)
    PROVE  /\ sender'[c] = sender[c] /\ batches'[c] = batches[c]
           /\ taken'[c] = taken[c] /\ adrift'[c] = adrift[c]
BY DEF BatchStepOf, Desk!StartBatch, Desk!RunBatch, Desk!TakeLate, Desk!SendReports, Desk!Take,
   Desk!Refuse, Desk!HearTaken, Desk!HearRefused, Desk!PostFails, Desk!EndBatch, Desk!Advance,
   Desk!Proceed, Desk!BatchTypeOK

LEMMA OwnBatchStep ==
    ASSUME Desk!BatchTypeOK, NEW b \in Uploads, BatchInv(b), BatchStepOf(b)
    PROVE  Desk!BatchTypeOK' /\ BatchInv(b)'
<1>0. /\ Size \in Nat \ {0} /\ taken[b] \in 0..Size /\ adrift[b] \in 0..Size
      /\ batches[b] \in Desk!Batch \union {None}
      /\ batches[b] \in Desk!Batch <=> batches[b] # None
      /\ batches[b] # None => /\ batches[b].accepted \in 0..Size /\ batches[b].completed \in 0..Size
                              /\ batches[b].errors \in 0..Size
  BY SizeIsPositive, NoneIsNoBatch DEF Desk!BatchTypeOK, Desk!Batch
<1>1. CASE Desk!StartBatch(b)
  <2>1. Desk!BatchTypeOK'
    BY <1>0, <1>1 DEF Desk!StartBatch, Desk!Proceed, Desk!BatchTypeOK, Desk!Batch, Desk!BatchStatus,
       Desk!Sending
  <2> QED
    BY <1>0, <1>1, <2>1 DEF Desk!StartBatch, Desk!Proceed, Desk!BatchTypeOK, BatchInv, Desk!Handled
<1>2. CASE \/ Desk!SendReports(b) \/ Desk!Refuse(b) \/ Desk!EndBatch(b)
  <2>1. batches[b] \in Desk!Batch /\ batches[b] # None
    BY <1>0, <1>2, SizeIsPositive DEF Desk!Batch, Desk!BatchStatus, BatchInv, Desk!SendReports, Desk!Refuse, Desk!EndBatch
  <2>2. Desk!BatchTypeOK'
    BY <1>2, <2>1 DEF Desk!SendReports, Desk!Refuse, Desk!EndBatch, Desk!Proceed, Desk!BatchTypeOK,
       Desk!Batch, Desk!BatchStatus, Desk!Sending, Desk!FinalStatus
  <2>3. CASE Desk!SendReports(b)
    <3>1. /\ sender[b] = "created" /\ sender'[b] = "posting" /\ taken' = taken /\ adrift' = adrift
          /\ batches'[b] = [batches[b] EXCEPT !.status = "RUNNING"]
      BY <2>3 DEF Desk!SendReports, Desk!Proceed, Desk!BatchTypeOK
    <3>2. batches'[b] # None /\ batches'[b].status = "RUNNING" /\ Desk!Handled(batches'[b]) = 0
          /\ batches'[b].accepted = 0 /\ batches'[b].completed = 0
      BY <2>1, <2>2, <3>1, NoneIsNoBatch DEF BatchInv, Desk!Handled, Desk!Batch, Desk!BatchTypeOK,
         Desk!BatchStatus
    <3> QED
      BY <1>0, <2>1, <2>2, <3>1, <3>2 DEF BatchInv, Desk!Handled
  <2>4. CASE Desk!Refuse(b)
    BY <1>0, <2>1, <2>2, <2>4 DEF Desk!Refuse, Desk!Proceed, Desk!BatchTypeOK, BatchInv, Desk!Handled
  <2>5. CASE Desk!EndBatch(b)
    <3>1. /\ sender[b] = "last" /\ sender'[b] = "ended" /\ taken' = taken /\ adrift' = adrift
          /\ batches'[b] = [batches[b] EXCEPT !.status = Desk!FinalStatus(batches[b])]
      BY <2>5 DEF Desk!EndBatch, Desk!Proceed, Desk!BatchTypeOK
    <3>2. /\ batches'[b].accepted = batches[b].accepted /\ batches'[b].errors = batches[b].errors
          /\ batches'[b].completed = batches[b].completed
          /\ batches'[b].status = Desk!FinalStatus(batches[b])
      BY <2>1, <3>1 DEF Desk!Batch
    <3> QED
      BY <1>0, <2>1, <2>2, <3>1, <3>2 DEF BatchInv, Desk!Handled, Desk!FinalStatus
  <2> QED
    BY <1>2, <2>3, <2>4, <2>5
<1>3. CASE Desk!Take(b) \/ Desk!TakeLate(b)
  <2>1. taken[b] + adrift[b] <= Size /\ (sender[b] = "posting" => taken[b] + adrift[b] < Size)
    BY <1>0 DEF BatchInv, Desk!Handled, Desk!Batch
  <2>2. Desk!BatchTypeOK'
    BY <1>0, <1>3, <2>1 DEF Desk!Take, Desk!TakeLate, Desk!Proceed, Desk!BatchTypeOK, Desk!Sending
  <2> QED
    BY <1>0, <1>3, <2>1, <2>2 DEF Desk!Take, Desk!TakeLate, Desk!Proceed,
       Desk!BatchTypeOK, Desk!Batch, BatchInv, Desk!Handled, Desk!FinalStatus
<1>4. CASE Desk!HearTaken(b) \/ Desk!HearRefused(b) \/ Desk!PostFails(b)
  <2>0. sender[b] \in {"posting", "taken", "refused"}
    BY <1>4 DEF Desk!HearTaken, Desk!HearRefused, Desk!PostFails
  <2>1. batches[b] \in Desk!Batch /\ batches[b] # None /\ batches[b].status = "RUNNING" /\ Desk!Handled(batches[b]) < Size
    BY <1>0, <2>0 DEF BatchInv
  <2>2. PICK batch \in Desk!Batch :
           /\ batches' = [batches EXCEPT ![b] = batch]
           /\ batch.status = "RUNNING"
           /\ Desk!Handled(batch) = Desk!Handled(batches[b]) + 1
           /\ batch.accepted = batch.completed
           /\ batch.accepted <= taken[b]
           /\ sender' = [sender EXCEPT ![b] = IF Desk!Handled(batch) < Size THEN "posting" ELSE "last"]
    <3>1. CASE Desk!HearTaken(b)
      <4> DEFINE batch == [batches[b] EXCEPT !.accepted = @ + 1, !.completed = @ + 1]
      <4>1. batch \in Desk!Batch /\ Desk!Handled(batch) = Desk!Handled(batches[b]) + 1
        <5>1. batches[b].accepted = batches[b].completed /\ batches[b].accepted + 1 \in 0..Size
          BY <1>0, <2>0, <2>1 DEF BatchInv, Desk!Handled
        <5>2. /\ batch \in Desk!Batch /\ batch.errors = batches[b].errors
              /\ batch.accepted = batches[b].accepted + 1
          BY <2>1, <5>1 DEF Desk!Batch
        <5> QED
          BY <1>0, <2>1, <5>2 DEF Desk!Handled
      <4>2. batch.accepted = batch.completed /\ batch.accepted <= taken[b] /\ batch.status = "RUNNING"
        BY <1>0, <2>0, <2>1, <3>1 DEF BatchInv, Desk!Batch, Desk!HearTaken
      <4> QED
        BY <3>1, <4>1, <4>2 DEF Desk!HearTaken, Desk!Advance, Desk!Proceed
    <3>2. CASE Desk!HearRefused(b) \/ Desk!PostFails(b)
      <4> DEFINE batch == [batches[b] EXCEPT !.errors = @ + 1]
      <4>1. batch \in Desk!Batch /\ Desk!Handled(batch) = Desk!Handled(batches[b]) + 1
        <5>1. batches[b].errors + 1 \in 0..Size
          BY <1>0, <2>1 DEF Desk!Handled
        <5>2. batch \in Desk!Batch /\ batch.accepted = batches[b].accepted /\ batch.errors = batches[b].errors + 1
          BY <2>1, <5>1 DEF Desk!Batch
        <5> QED
          BY <1>0, <2>1, <5>2 DEF Desk!Handled
      <4>2. batch.accepted = batch.completed /\ batch.accepted <= taken[b] /\ batch.status = "RUNNING"
        BY <1>0, <2>0, <2>1 DEF BatchInv, Desk!Batch
      <4> QED
        BY <3>2, <4>1, <4>2 DEF Desk!HearRefused, Desk!PostFails, Desk!Advance, Desk!Proceed
    <3> QED
      BY <1>4, <3>1, <3>2
  <2>3. /\ taken' = taken
        /\ adrift' \in {adrift, [adrift EXCEPT ![b] = adrift[b] + 1]}
        /\ adrift' # adrift => sender[b] = "posting"
    BY <1>4 DEF Desk!HearTaken, Desk!HearRefused, Desk!PostFails, Desk!BatchTypeOK
  <2>4. taken[b] + adrift'[b] <= Desk!Handled(batches[b]) + 1 /\ adrift'[b] \in 0..Size
    BY <1>0, <2>0, <2>1, <2>3 DEF BatchInv, Desk!Batch, Desk!Handled, Desk!BatchTypeOK
  <2>5. Desk!BatchTypeOK'
    BY <1>0, <2>0, <2>2, <2>3, <2>4 DEF Desk!BatchTypeOK, Desk!Sending
  <2>6. batches'[b] = batch /\ batch # None /\ taken'[b] = taken[b] /\ Desk!Handled(batch) <= Size
        /\ Desk!Handled(batch) \in Nat
        /\ sender'[b] = IF Desk!Handled(batch) < Size THEN "posting" ELSE "last"
    BY <1>0, <2>1, <2>2, <2>3, NoneIsNoBatch DEF Desk!BatchTypeOK, Desk!Batch, Desk!Handled, BatchInv
  <2> QED
    BY <1>0, <2>1, <2>2, <2>4, <2>5, <2>6 DEF BatchInv, Desk!Batch, Desk!Handled
<1> QED
  BY <1>1, <1>2, <1>3, <1>4 DEF BatchStepOf, Desk!RunBatch

LEMMA ForgetBatchesStep == BatchesInv /\ Desk!ForgetBatches => BatchesInv'
<1> SUFFICES ASSUME BatchesInv, Desk!ForgetBatches PROVE BatchesInv'
  OBVIOUS
<1>1. ASSUME NEW b \in Uploads
      PROVE  /\ sender'[b] \in {"idle", "ended", "lost"} /\ batches'[b] = None /\ taken'[b] = taken[b]
             /\ sender'[b] = "idle" => adrift'[b] = adrift[b] /\ sender[b] = "idle"
             /\ adrift'[b] \in Nat /\ taken[b] \in 0..Size /\ taken[b] + adrift'[b] <= Size
  <2>1. /\ Size \in Nat /\ taken[b] \in 0..Size /\ adrift[b] \in 0..Size /\ BatchInv(b)
        /\ sender[b] \in Desk!Sending \union {"idle", "ended", "lost"}
    BY SizeIsPositive DEF BatchesInv, Desk!BatchTypeOK
  <2>2. sender[b] = "posting" => taken[b] + adrift[b] + 1 <= Size
    <3>1. sender[b] = "posting" => /\ batches[b] # None /\ Desk!Handled(batches[b]) < Size
                                  /\ taken[b] + adrift[b] <= Desk!Handled(batches[b]) + 0
      BY <2>1 DEF BatchInv
    <3>2. batches[b] # None => Desk!Handled(batches[b]) \in Nat
      BY <2>1 DEF BatchesInv, Desk!BatchTypeOK, Desk!Batch, Desk!Handled
    <3> QED
      BY <2>1, <3>1, <3>2
  <2>3. /\ adrift'[b] = IF sender[b] = "posting" THEN adrift[b] + 1 ELSE adrift[b]
        /\ sender'[b] = IF sender[b] \in Desk!Sending THEN "lost" ELSE sender[b]
        /\ batches'[b] = None /\ taken' = taken
    BY DEF Desk!ForgetBatches
  <2>4. taken[b] + adrift[b] <= Size
    BY <2>1 DEF BatchInv
  <2> QED
    BY <2>1, <2>2, <2>3, <2>4 DEF Desk!Sending
<1>2. Desk!BatchTypeOK'
  <2>1. /\ DOMAIN sender' = Uploads /\ DOMAIN adrift' = Uploads
        /\ sender' = [b \in Uploads |-> sender'[b]] /\ adrift' = [b \in Uploads |-> adrift'[b]]
        /\ batches' = [b \in Uploads |-> None] /\ taken' = taken
    BY DEF Desk!ForgetBatches
  <2>2. \A b \in Uploads : adrift'[b] \in 0..Size
    BY <1>1, SizeIsPositive
  <2> QED
    BY <1>1, <2>1, <2>2 DEF BatchesInv, Desk!BatchTypeOK
<1>3. ASSUME NEW b \in Uploads PROVE BatchInv(b)'
  BY <1>1, <1>3 DEF BatchInv, BatchesInv
<1> QED
  BY <1>2, <1>3 DEF BatchesInv

LEMMA BatchesInvStep == BatchesInv /\ [Desk!BatchNext]_deskVars => BatchesInv'
<1> SUFFICES ASSUME BatchesInv, [Desk!BatchNext]_deskVars PROVE BatchesInv'
  OBVIOUS
<1>1. CASE UNCHANGED deskVars
  BY <1>1, SameBatch DEF deskVars, BatchesInv, Desk!BatchTypeOK
<1>2. ASSUME NEW b \in Uploads, BatchStepOf(b) PROVE BatchesInv'
  <2>1. Desk!BatchTypeOK' /\ BatchInv(b)'
    BY <1>2, OwnBatchStep DEF BatchesInv
  <2>2. ASSUME NEW c \in Uploads \ {b} PROVE BatchInv(c)'
    <3>1. /\ sender'[c] = sender[c] /\ batches'[c] = batches[c]
          /\ taken'[c] = taken[c] /\ adrift'[c] = adrift[c]
      BY <1>2, <2>2, OtherBatchesRest DEF BatchesInv
    <3> QED
      BY <2>2, <3>1, SameBatch DEF BatchesInv
  <2> QED
    BY <2>1, <2>2 DEF BatchesInv
<1> QED
  BY <1>1, <1>2 DEF Desk!BatchNext, BatchStepOf

-----------------------------------------------------------------------------
(* The dashboard *)

DashboardInv == LoadInv /\ BatchesInv

LEMMA DashboardInvHolds == DashboardSpec => []DashboardInv
<1>1. DashboardInit => DashboardInv
  BY LoadInvInit, BatchesInvInit DEF DashboardInit, DashboardInv
<1>2. DashboardInv /\ [DashboardNext]_dashboardVars => DashboardInv'
  <2> SUFFICES ASSUME DashboardInv, [DashboardNext]_dashboardVars PROVE DashboardInv'
    OBVIOUS
  <2>1. [Next]_vars
    BY DEF DashboardNext, dashboardVars, LoadTestStep, BatchStep, RestartDashboard, Next
  <2>2. [Desk!BatchNext]_deskVars \/ Desk!ForgetBatches
    BY DEF DashboardNext, dashboardVars, LoadTestStep, BatchStep, RestartDashboard
  <2> QED
    BY <2>1, <2>2, LoadInvStep, BatchesInvStep, ForgetBatchesStep DEF DashboardInv
<1> QED
  BY <1>1, <1>2, PTL DEF DashboardSpec

\* Every variable of the dashboard keeps its type, whatever fails: no counter of a burst or a
\* batch of app.py ever exceeds the requests it was started with.
THEOREM DashboardTypesHold == DashboardSpec => []DashboardTypeOK
<1>1. DashboardInv => DashboardTypeOK
  BY DEF DashboardInv, LoadInv, BatchesInv, DashboardTypeOK
<1> QED
  BY <1>1, DashboardInvHolds, PTL

\* run_performance_test concludes from all the answers: whoever is told COMPLETED, from memory
\* or from the row, is told of a burst in which every request is accounted for.
THEOREM CompletedTestsAreWhole == DashboardSpec => []CompletedIsWhole
<1>1. LoadInv => CompletedIsWhole
  BY DEF LoadInv, TestInv, Settled, CompletedIsWhole, Completed, Whole
<1> QED
  BY <1>1, DashboardInvHolds, PTL DEF DashboardInv

\* determine_test_result gives PASS only to a burst without a failure and with three in four
\* requests accepted, and no later answer, restart or failing UPDATE takes that basis away.
THEOREM PassesAreEarned == DashboardSpec => []PassIsEarned
<1>1. ASSUME LoadInv, NEW t \in Tests, Passed(t)
      PROVE  /\ Sum(tally[t]) = tally[t]["accepted_202"] + tally[t]["rejected_429"]
                                   + tally[t]["rejected_4xx"]
             /\ 4 * tally[t]["accepted_202"] >= 3 * Target
  <2>1. PICK onTime \in BOOLEAN : Pass(t, onTime)
    BY <1>1 DEF LoadInv, TestInv, Settled
  <2>2. \A b \in Buckets : tally[t][b] \in Nat
    BY <1>1, TargetIsPositive DEF LoadInv, TypeOK
  <2>3. /\ tally[t]["failed_5xx"] = 0 /\ tally[t]["failed_timeout"] = 0
        /\ tally[t]["failed_transport"] = 0 /\ sent[t] = Target
        /\ 4 * tally[t]["accepted_202"] >= 3 * sent[t]
    BY <2>1 DEF Pass
  <2> QED
    BY <2>2, <2>3 DEF Sum, Buckets
<1>2. LoadInv => PassIsEarned
  BY <1>1 DEF PassIsEarned
<1> QED
  BY <1>2, DashboardInvHolds, PTL DEF DashboardInv

\* send_reports never counts more than the API took: COMPLETED means the whole batch was taken.
THEOREM BatchesAreCounted == DashboardSpec => []BatchIsCounted
<1>1. ASSUME BatchesInv, NEW b \in Uploads, batches[b] # None
      PROVE  /\ batches[b].accepted = batches[b].completed
             /\ batches[b].accepted <= taken[b]
             /\ batches[b].status \in {"COMPLETED", "COMPLETED_WITH_ERRORS"} =>
                   Desk!Handled(batches[b]) = Size
             /\ batches[b].status = "COMPLETED" => taken[b] = Size
  <2>1. /\ Size \in Nat \ {0} /\ taken[b] \in 0..Size /\ adrift[b] \in 0..Size /\ BatchInv(b)
        /\ sender[b] \in Desk!Sending \union {"idle", "ended", "lost"}
        /\ batches[b].accepted \in 0..Size /\ batches[b].errors \in 0..Size
    BY <1>1, SizeIsPositive DEF BatchesInv, Desk!BatchTypeOK, Desk!Batch
  <2>2. batches[b].accepted = batches[b].completed /\ batches[b].accepted <= taken[b]
    BY <1>1, <2>1 DEF BatchInv
  <2>3. batches[b].status \in {"COMPLETED", "COMPLETED_WITH_ERRORS"} => sender[b] = "ended"
    BY <1>1, <2>1 DEF BatchInv, Desk!Sending
  <2>4. sender[b] = "ended" => /\ Desk!Handled(batches[b]) = Size
                              /\ batches[b].status = Desk!FinalStatus(batches[b])
    BY <1>1, <2>1 DEF BatchInv
  <2>5. batches[b].status = "COMPLETED" => batches[b].errors = 0
    BY <2>3, <2>4 DEF Desk!FinalStatus
  <2> QED
    BY <2>1, <2>2, <2>3, <2>4, <2>5 DEF Desk!Handled
<1>2. BatchesInv => BatchIsCounted
  <2> SUFFICES ASSUME BatchesInv PROVE BatchIsCounted
    OBVIOUS
  <2>1. \A b \in Uploads : taken[b] + adrift[b] <= Size
    BY DEF BatchesInv, BatchInv
  <2> QED
    BY <1>1, <2>1 DEF BatchIsCounted, Desk!BatchIsCounted
<1> QED
  BY <1>2, DashboardInvHolds, PTL DEF DashboardInv

\* Whatever fails between run_performance_test, its row and a restart, what GET tells of a test
\* moves forward and a final state stands: the dashboard implements TestService.
THEOREM DashboardIsAService == DashboardSpec => ServiceSpec
<1>1. DashboardInit => Service!Init
  BY ServiceInit DEF DashboardInit
<1>2. DashboardInv /\ DashboardInv' /\ [DashboardNext]_dashboardVars => [Service!Next]_(Service!vars)
  <2> SUFFICES ASSUME DashboardInv, DashboardInv', [DashboardNext]_dashboardVars
               PROVE  [Service!Next]_(Service!vars)
    OBVIOUS
  <2>1. [Next]_vars
    BY DEF DashboardNext, dashboardVars, LoadTestStep, BatchStep, RestartDashboard, Next
  <2> QED
    BY <2>1, ServiceNext DEF DashboardInv
<1> QED
  BY <1>1, <1>2, DashboardInvHolds, PTL DEF DashboardSpec, ServiceSpec, Service!Spec

=============================================================================
