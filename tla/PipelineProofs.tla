--------------------------- MODULE PipelineProofs ---------------------------
(***************************************************************************)
(* Theorems about the API and the workers together.  What was proved of    *)
(* each side alone is carried over: the invariants of the API survive      *)
(* every statement of a worker, those of the workers survive every step of *)
(* the API, which writes to the topic and to the table while they run.     *)
(*                                                                         *)
(* PP is the workers of Pipeline (Pool) together with their lemmas.        *)
(***************************************************************************)
EXTENDS Pipeline, IngestApiProofs

PP == INSTANCE WorkerPoolProofs WITH Table <- NoDocuments, Topic <- EmptyTopic

-----------------------------------------------------------------------------
(* The workers of Pipeline are those of WorkerPoolProofs *)

LEMMA EmptyTableAndTopic ==
    /\ NoDocuments \in [Submissions -> PP!Row \union {None}]
    /\ EmptyTopic \in [Partitions -> Seq(PP!Jobs)]
    /\ PP!Stored(NoDocuments) = {}
    /\ \A q \in Partitions : DOMAIN EmptyTopic[q] = {}
BY DEF NoDocuments, EmptyTopic, PP!Stored

\* What WorkerPool assumes, of the constants that Pipeline gives it.
LEMMA Assumptions ==
    /\ WorkerFaults \subseteq {"db", "broker", "crash", "stop", "rebalance"}
    /\ StartPools \subseteq BOOLEAN
    /\ Concurrency \in Nat \ {0} /\ MaxPoll \in Nat \ {0}
    /\ MaxRetries \in Nat
    /\ MaxDisruptions \in Nat
    /\ None \notin Workers /\ None \notin Submissions
    /\ None \notin PP!Row /\ None \notin PP!Jobs
    /\ PartitionOf \in [Agencies -> Partitions]
    /\ PP!IsFiniteSet(Partitions)
    /\ NoDocuments \in [Submissions -> PP!Row \union {None}]
    /\ EmptyTopic \in [Partitions -> Seq(PP!Jobs)]
    /\ \A d \in PP!Stored(NoDocuments) : NoDocuments[d].status = "QUEUED"
    /\ \A q \in Partitions : \A i \in DOMAIN EmptyTopic[q] :
          EmptyTopic[q][i].kind = "document" => EmptyTopic[q][i].of \in PP!Stored(NoDocuments)
<1>1. PP!IsFiniteSet(Partitions)
  BY PartitionsAreFinite DEF PP!IsFiniteSet, IsFiniteSet
<1>2. None \notin PP!Row /\ None \notin PP!Jobs
  BY NoneIsNoRow, NoneIsNoJob DEF PP!Row, PP!Status, Row, Status, PP!Jobs, Jobs
<1>3. /\ WorkerFaults \subseteq {"db", "broker", "crash", "stop", "rebalance"}
      /\ StartPools \subseteq BOOLEAN
      /\ Concurrency \in Nat \ {0} /\ MaxPoll \in Nat \ {0}
      /\ MaxRetries \in Nat
      /\ MaxDisruptions \in Nat
      /\ None \notin Workers /\ None \notin Submissions
      /\ PartitionOf \in [Agencies -> Partitions]
  BY WorkerFaultsAreKnown, StartPoolsAreFlags, LimitsArePositive, MaxRetriesIsNat,
     MaxDisruptionsIsNat, NoneIsNoWorker, NoneIsNoSubmission, PartitionOfIsTotal
<1> QED
  BY <1>1, <1>2, <1>3, EmptyTableAndTopic

LEMMA SameSteps == Pool!PoolNext <=> PP!PoolNext
BY
   DEF Pool!Live, PP!Live, Pool!Members, PP!Members, Pool!Owned, PP!Owned, Pool!TasksOf,
       PP!TasksOf, Pool!Awaited, PP!Awaited, Pool!Running, PP!Running, Pool!JobOf, PP!JobOf,
       Pool!Leave, PP!Leave, Pool!Disrupt, PP!Disrupt, Pool!Start, PP!Start, Pool!Rebalance,
       PP!Rebalance, Pool!Crash, PP!Crash, Pool!StopConsumer, PP!StopConsumer, Pool!SignOff,
       PP!SignOff, Pool!ClosePool, PP!ClosePool, Pool!Exit, PP!Exit, Pool!Fetchable,
       PP!Fetchable, Pool!FreeCopy, PP!FreeCopy, Pool!NewTask, PP!NewTask, Pool!Batch, PP!Batch,
       Pool!Poll, PP!Poll, Pool!Gathered, PP!Gathered, Pool!Commit, PP!Commit, Pool!CommitFails,
       PP!CommitFails, Pool!Resume, PP!Resume, Pool!HasPool, PP!HasPool, Pool!MayFail,
       PP!MayFail, Pool!MaySucceed, PP!MaySucceed, Pool!Nameable, PP!Nameable, Pool!Advance,
       PP!Advance, Pool!Finish, PP!Finish, Pool!LoopsGoOn, PP!LoopsGoOn, Pool!NoEffect,
       PP!NoEffect, Pool!SetStatus, PP!SetStatus, Pool!Begin, PP!Begin, Pool!PassUnrecorded,
       PP!PassUnrecorded, Pool!Consume, PP!Consume, Pool!SkipCompleted, PP!SkipCompleted,
       Pool!Check, PP!Check, Pool!FailEarly, PP!FailEarly, Pool!StartProcessing,
       PP!StartProcessing, Pool!SaveResult, PP!SaveResult, Pool!Mark, PP!Mark, Pool!Save,
       PP!Save, Pool!FailProcessing, PP!FailProcessing, Pool!RetryCount, PP!RetryCount,
       Pool!RecordFailure, PP!RecordFailure, Pool!Retry, PP!Retry, Pool!Report, PP!Report,
       Pool!Escape, PP!Escape, Pool!Process, PP!Process, Pool!Step, PP!Step, Pool!Run, PP!Run,
       Pool!Shutdown, PP!Shutdown, Pool!PoolNext, PP!PoolNext, Pool!groupVars, PP!groupVars,
       Pool!workerVars, PP!workerVars, Pool!poolVars, PP!poolVars, Pool!vars, PP!vars,
       Pool!IsFiniteSet, PP!IsFiniteSet, Pool!Cardinality, PP!Cardinality, Pool!Doc, PP!Doc

LEMMA SameInit == PipelineInit => PP!Init
BY DEF PipelineInit, Init, Pool!PoolInit, PP!Init, PP!PoolInit, NoDocuments, EmptyTopic

LEMMA SameTables == Row = PP!Row /\ Jobs = PP!Jobs /\ Tables = PP!Tables
BY DEF Row, PP!Row, Status, PP!Status, Jobs, PP!Jobs, Tables, PP!Tables

LEMMA WorkersStartWell ==
    PP!Init => PP!TasksInv /\ PP!OffsetInv /\ PP!PoolTypes
BY PP!TasksInvInit, PP!OffsetInvInit, PP!PoolTypesInit, Assumptions

LEMMA WorkersGoOnWell ==
    PP!TasksInv /\ PP!OffsetInv /\ PP!PoolTypes /\ [PP!PoolNext]_(PP!vars)
        => (PP!TasksInv /\ PP!OffsetInv /\ PP!PoolTypes)'
BY PP!TasksInvStep, PP!PoolTypesStep, Assumptions

LEMMA WorkersKeepRows ==
    ASSUME PP!TasksInv, [PP!PoolNext]_(PP!vars)
    PROVE  UNCHANGED log /\ \A d \in Submissions : PP!NameKept(d)
BY PP!WorkersKeepNames, PP!OffsetSteps, Assumptions

LEMMA CommitsGoForward ==
    ASSUME PP!OffsetInv, [PP!PoolNext]_(PP!vars), NEW q \in Partitions
    PROVE  committed'[q] >= committed[q]
BY PP!OffsetsMoveForward, Assumptions DEF PP!OffsetInv

LEMMA HandledGoesOn ==
    ASSUME PP!NoStatementFails, PP!TasksInv, PP!PoolTypes, PP!HandledInv,
           [PP!PoolNext]_(PP!vars)
    PROVE  PP!HandledInv'
BY PP!HandledInvStep, Assumptions

LEMMA HandledStarts == PP!Init => PP!HandledInv
<1>1. PP!TopicHasNoFallback
  BY EmptyTableAndTopic DEF PP!TopicHasNoFallback
<1> QED
  BY <1>1, PP!HandledInvInit, Assumptions

-----------------------------------------------------------------------------
(* The workers under the steps of the API *)

WorkersInv == PP!TasksInv /\ PP!OffsetInv /\ PP!PoolTypes

\* The API writes no result and no COMPLETED.
LEMMA ApiCompletesNothing ==
    ASSUME CreateInv, [ApiNext]_vars, NEW d \in Submissions, documents'[d] # None,
           documents'[d].status = "COMPLETED"
    PROVE  documents[d] # None /\ documents[d].status = "COMPLETED"
<1>0. documents \in Tables /\ documents' \in Tables
  BY TypesStep DEF CreateInv, TypeOK, Tables
<1>1. ASSUME NEW s \in Submissions, Inserts(s)
      PROVE  documents'[d] = documents[d]
  BY <1>0, <1>1 DEF Inserts, NewRow, Tables
<1>2. ASSUME NEW s \in Submissions, Requeues(s)
      PROVE  documents'[d] = documents[d]
  <2>1. documents[s] \in Row
    BY <1>0, <1>2 DEF Requeues, Tables
  <2>2. [documents[s] EXCEPT !.status = "QUEUED"].status = "QUEUED"
    BY <2>1 DEF Row
  <2> QED
    BY <1>0, <1>2, <2>2 DEF Requeues, Tables
<1> QED
  BY <1>1, <1>2, TableSteps

LEMMA ApiKeepsWorkers ==
    ASSUME ReplyInv, WorkersInv, [ApiNext]_vars, UNCHANGED poolVars
    PROVE  WorkersInv'
<1> USE DEF poolVars
<1>0. CreateInv /\ TypeOK /\ TypeOK' /\ PublishedIsCommitted'
  BY ReplyInvStep, TypesStep DEF ReplyInv, CreateInv
<1>1. /\ log' \in [Partitions -> Seq(PP!Jobs)] /\ documents' \in PP!Tables
      /\ log \in [Partitions -> Seq(Jobs)] /\ log' \in [Partitions -> Seq(Jobs)]
  BY <1>0, SameTables DEF TypeOK, Tables
<1>2. \A q \in Partitions :
          /\ Len(log[q]) <= Len(log'[q])
          /\ \A i \in DOMAIN log[q] : i \in DOMAIN log'[q] /\ log'[q][i] = log[q][i]
  BY <1>0, LogGrows
<1>3. PP!OffsetInv'
  <2>1. position \in [Partitions -> Nat] /\ committed \in [Partitions -> Nat] /\ PP!PositionsInOrder
    BY DEF WorkersInv, PP!OffsetInv
  <2>2. PP!PositionsInOrder'
    <3> SUFFICES ASSUME NEW q \in Partitions
                 PROVE  committed'[q] <= position'[q] /\ position'[q] <= Len(log'[q])
      BY DEF PP!PositionsInOrder
    <3>1. /\ position'[q] = position[q] /\ committed'[q] = committed[q]
          /\ committed[q] <= position[q] /\ position[q] <= Len(log[q])
          /\ position[q] \in Nat /\ Len(log[q]) \in Nat /\ Len(log'[q]) \in Nat
      BY <1>1, <2>1 DEF PP!PositionsInOrder
    <3> QED
      BY <1>2, <3>1
  <2> QED
    BY <1>1, <2>1, <2>2 DEF PP!OffsetInv
<1>4. PP!TasksOK'
  <2>1. /\ PP!IsFiniteSet(tasks) /\ tasks \subseteq PP!Task /\ UNCHANGED tasks
        /\ \A t \in tasks : /\ t.part \in Partitions /\ t.at \in DOMAIN log[t.part]
                            /\ t.pc \in PP!AtDocument => log[t.part][t.at].kind = "document"
    BY DEF WorkersInv, PP!TasksInv, PP!TasksOK, PP!Task, PP!Nameable, PP!JobOf
  <2>2. PP!IsFiniteSet(tasks)'
    BY <2>1
  <2> QED
    BY <1>2, <2>1, <2>2 DEF PP!TasksOK, PP!Nameable, PP!JobOf
<1>5. PP!RowsOK'
  <2>1. /\ results \subseteq Submissions /\ UNCHANGED results
        /\ \A d \in Submissions : documents[d] # None /\ documents[d].status = "COMPLETED" => d \in results
    BY DEF WorkersInv, PP!TasksInv, PP!RowsOK, PP!CompletedHasResult, PP!Stored
  <2>2. PP!CompletedHasResult'
    BY <1>0, <2>1, ApiCompletesNothing DEF PP!CompletedHasResult, PP!Stored
  <2>3. ASSUME NEW q \in Partitions, NEW i \in DOMAIN log'[q], log'[q][i].kind = "document"
        PROVE  documents'[log'[q][i].of] # None
    BY <1>0, <2>3 DEF PublishedIsCommitted
  <2> QED
    BY <1>1, <2>1, <2>2, <2>3 DEF PP!RowsOK
<1>6. PP!TasksInv'
  BY <1>1, <1>4, <1>5 DEF WorkersInv, PP!TasksInv
<1>7. PP!PoolTypes'
  BY DEF WorkersInv, PP!PoolTypes
<1> QED
  BY <1>3, <1>6, <1>7 DEF WorkersInv

\* A record that the API appends is past every position, so nobody has passed it yet.
LEMMA ApiKeepsHandled ==
    ASSUME TypeOK, TypeOK', PP!OffsetInv, PP!HandledInv, ~FallbackPublished',
           [ApiNext]_vars, UNCHANGED poolVars
    PROVE  PP!HandledInv'
<1> USE DEF poolVars
<1>1. PP!OwnersAreMembers' /\ PP!MembersGoWell'
  BY DEF PP!HandledInv, PP!OwnersAreMembers, PP!MembersGoWell, PP!Members, PP!Live
<1>2. ASSUME NEW q \in Partitions, NEW i \in DOMAIN log'[q]
      PROVE  /\ log'[q][i].kind = "document"
             /\ PP!Passed(q, i)' => PP!Answered(q, i)'
             /\ owner'[q] # None /\ i <= position'[q] => PP!Answered(q, i)' \/ PP!UnderWay(q, i)'
  <2>1. /\ log[q] \in Seq(Jobs) /\ log'[q] \in Seq(Jobs) /\ log'[q][i] \in Jobs
        /\ i \in Nat /\ i >= 1
    BY DEF TypeOK
  <2>2. log'[q][i].kind = "document"
    BY <2>1 DEF FallbackPublished, Jobs
  <2>3. CASE i \in DOMAIN log[q]
    <3>1. log'[q][i] = log[q][i]
      BY <2>3, LogGrows
    <3> QED
      BY <2>2, <2>3, <3>1 DEF PP!HandledInv, PP!Passed, PP!Answered, PP!UnderWay
  <2>4. CASE i \notin DOMAIN log[q]
    <3>1. /\ committed[q] <= position[q] /\ position[q] <= Len(log[q])
          /\ committed[q] \in Nat /\ position[q] \in Nat
      BY DEF PP!OffsetInv, PP!PositionsInOrder
    <3>2. i > Len(log[q])
      BY <2>1, <2>4
    <3>3. ~(i <= committed[q]) /\ ~(i <= position[q])
      BY <2>1, <3>1, <3>2
    <3> QED
      BY <2>2, <3>3 DEF PP!Passed
  <2> QED
    BY <2>3, <2>4
<1> QED
  BY <1>1, <1>2 DEF PP!HandledInv

-----------------------------------------------------------------------------
(* The API under the steps of the workers *)

\* A worker leaves alone what the API decides by: which rows there are, their keys, their
\* agencies and their numbers.
LEMMA WorkersKeepApi ==
    ASSUME ReplyInv, UNCHANGED <<apiVars, log>>, documents' \in Tables,
           \A d \in Submissions : PP!NameKept(d)
    PROVE  ReplyInv'
<1> USE DEF apiVars
<1>1. \A d \in Submissions :
          /\ documents'[d] = None <=> documents[d] = None
          /\ documents[d] # None =>
                /\ documents'[d].key = documents[d].key
                /\ documents'[d].agency = documents[d].agency
                /\ documents'[d].seq = documents[d].seq
  BY DEF PP!NameKept
<1>2. /\ TypeOK /\ LockDiscipline /\ NotYetInserted /\ JobIsOwn /\ CreateInv /\ RunsInMode
      /\ RecordedIsDocument /\ RowsMatchCalls /\ NoKeyTwice /\ BufferedIsCommitted
      /\ PublishedIsCommitted /\ AcceptedIsOwn
  BY DEF ReplyInv, CreateInv
<1>3. TypeOK'
  BY <1>2 DEF TypeOK, Tables
<1>4. LockDiscipline'
  BY <1>2 DEF LockDiscipline
<1>5. NotYetInserted' /\ JobIsOwn'
  BY <1>1, <1>2 DEF NotYetInserted, JobIsOwn
<1>6. Dense' /\ NoNumberTwice' /\ NumberStillFree'
  <2>1. /\ Dense' /\ NoNumberTwice'
        /\ \A t \in Submissions :
              pc[t] = "insert" => seq[t] = NextSequence(documents, call[t].agency)'
    BY <1>1, <1>2, SameRowsSameNumbering
  <2> QED
    BY <2>1 DEF NumberStillFree
<1>7. RunsInMode' /\ RecordedIsDocument'
  BY <1>2 DEF RunsInMode, RecordedIsDocument, HasDb, Proc
<1>8. RowsMatchCalls'
  BY <1>1, <1>2 DEF RowsMatchCalls
<1>9. NoKeyTwice'
  BY <1>1, <1>2 DEF NoKeyTwice, Stored
<1>10. ASSUME NEW id \in Jobs, NEW q \in Partitions, Committed(id, q)
       PROVE  Committed(id, q)'
  BY <1>1, <1>10 DEF Committed, Jobs
<1>11. BufferedIsCommitted'
  <2> SUFFICES ASSUME NEW p \in Procs, NEW q \in Partitions, NEW i \in DOMAIN buffer[p][q]
               PROVE  Committed(buffer[p][q][i], q)'
    BY DEF BufferedIsCommitted
  <2>1. buffer[p][q][i] \in Jobs /\ Committed(buffer[p][q][i], q)
    BY <1>2 DEF TypeOK, BufferedIsCommitted
  <2> QED
    BY <1>10, <2>1 DEF Committed
<1>12. PublishedIsCommitted'
  <2> SUFFICES ASSUME NEW q \in Partitions, NEW i \in DOMAIN log[q]
               PROVE  Committed(log[q][i], q)'
    BY DEF PublishedIsCommitted, Committed
  <2>1. log[q][i] \in Jobs /\ Committed(log[q][i], q)
    BY <1>2 DEF TypeOK, PublishedIsCommitted, Committed
  <2> QED
    BY <1>10, <2>1 DEF Committed
<1>13. AcceptedIsOwn'
  BY <1>1, <1>2 DEF AcceptedIsOwn, Answered
<1> QED
  BY <1>3, <1>4, <1>5, <1>6, <1>7, <1>8, <1>9, <1>11, <1>12, <1>13 DEF ReplyInv, CreateInv

-----------------------------------------------------------------------------
(* Both together *)

PipelineInv == ReplyInv /\ WorkersInv

LEMMA PipelineInvInit == PipelineInit => PipelineInv
BY SameInit, WorkersStartWell, ReplyInvInit DEF PipelineInit, PipelineInv, WorkersInv

\* A step of the composition is a step of one of the two, and the other one's variables stay.
LEMMA StepOfOneSide ==
    ASSUME [PipelineNext]_allVars
    PROVE  \/ [ApiNext]_vars /\ UNCHANGED poolVars
           \/ [PP!PoolNext]_(PP!vars) /\ UNCHANGED apiVars
BY SameSteps DEF PipelineNext, allVars

LEMMA PipelineInvStep ==
    ASSUME PipelineInv, [PipelineNext]_allVars
    PROVE  PipelineInv'
<1>1. CASE [ApiNext]_vars /\ UNCHANGED poolVars
  BY <1>1, ReplyInvStep, ApiKeepsWorkers DEF PipelineInv
<1>2. CASE [PP!PoolNext]_(PP!vars) /\ UNCHANGED apiVars
  <2>1. WorkersInv'
    BY <1>2, WorkersGoOnWell DEF PipelineInv, WorkersInv
  <2>2. UNCHANGED log /\ \A d \in Submissions : PP!NameKept(d)
    BY <1>2, WorkersKeepRows DEF PipelineInv, WorkersInv
  <2>3. documents' \in Tables
    BY <2>1, SameTables DEF WorkersInv, PP!TasksInv, PP!RowsOK
  <2> QED
    BY <1>2, <2>1, <2>2, <2>3, WorkersKeepApi DEF PipelineInv
<1> QED
  BY <1>1, <1>2, StepOfOneSide

LEMMA PipelineInvHolds == PipelineSpec => []PipelineInv
BY PipelineInvInit, PipelineInvStep, PTL DEF PipelineSpec

LEMMA PartitionsOfRows ==
    ASSUME TypeOK, NEW d \in Stored(documents)
    PROVE  PartitionOf[documents[d].agency] \in Partitions
BY PartitionOfIsTotal DEF TypeOK, Stored, Row

-----------------------------------------------------------------------------
(* Theorems of the composition *)

\* The numbers of an agency stay 1..n while workers rewrite the rows that carry them.
THEOREM SequenceDenseInPipeline == PipelineSpec => []SequenceDense
<1>1. PipelineInv => SequenceDense
  BY CreateInvIsDense DEF PipelineInv, ReplyInv
<1> QED
  BY PipelineInvHolds, <1>1, PTL

\* A worker that reads a record of a document finds the row it names, at any time.
THEOREM PublishedIsCommittedInPipeline == PipelineSpec => []PublishedIsCommitted
<1>1. PipelineInv => PublishedIsCommitted
  BY DEF PipelineInv, ReplyInv
<1> QED
  BY PipelineInvHolds, <1>1, PTL

\* One document is accepted for a key, also while the workers rewrite the rows that hold it.
THEOREM AcceptedOncePerKeyInPipeline == PipelineSpec => []AcceptedOncePerKey
<1>1. PipelineInv => AcceptedOncePerKey
  BY AcceptedOnce DEF PipelineInv
<1> QED
  BY PipelineInvHolds, <1>1, PTL

\* What is told and published of a key names one document, also while the workers rewrite
\* the rows.
THEOREM OneDocumentPerKeyInPipeline == PipelineSpec => []OneDocumentPerKey
<1>1. PipelineInit => RepliesNameRows
  BY DEF PipelineInit, Init, RepliesNameRows
<1>2. PipelineInv /\ RepliesNameRows /\ [PipelineNext]_allVars => RepliesNameRows'
  <2> SUFFICES ASSUME PipelineInv, RepliesNameRows, [PipelineNext]_allVars
               PROVE  RepliesNameRows'
    OBVIOUS
  <2>1. CASE [ApiNext]_vars
    BY <2>1, RepliesNameRowsStep DEF PipelineInv
  <2>2. CASE [PP!PoolNext]_(PP!vars) /\ UNCHANGED apiVars
    <3>1. \A d \in Submissions : documents[d] # None => documents'[d] # None
      BY <2>2, WorkersKeepRows DEF PP!NameKept, PipelineInv, WorkersInv
    <3>2. UNCHANGED <<reply, call>> /\ TypeOK
      BY <2>2 DEF apiVars, PipelineInv, ReplyInv, CreateInv
    <3> SUFFICES ASSUME NEW s \in Submissions, reply[s] # None
                 PROVE  Named(s, reply[s].job)'
      BY <3>2 DEF RepliesNameRows
    <3>3. Named(s, reply[s].job) /\ (reply[s].job # None => reply[s].job \in Jobs)
      BY <3>2 DEF RepliesNameRows, TypeOK, Reply
    <3> QED
      BY <3>1, <3>2, <3>3 DEF Named, Jobs
  <2> QED
    BY <2>1, <2>2, StepOfOneSide
<1>3. PipelineInv /\ RepliesNameRows => OneDocumentPerKey
  BY OneNamed DEF PipelineInv
<1> QED
  BY PipelineInvHolds, <1>1, <1>2, <1>3, PTL DEF PipelineSpec

\* A committed offset moves forward only, also while the API appends to the partition.
THEOREM CommitsMoveForwardInPipeline ==
    PipelineSpec => [][\A q \in Partitions : committed'[q] >= committed[q]]_allVars
<1>1. PipelineInv /\ [PipelineNext]_allVars =>
          [\A q \in Partitions : committed'[q] >= committed[q]]_allVars
  <2> SUFFICES ASSUME PipelineInv, [PipelineNext]_allVars, NEW q \in Partitions
               PROVE  committed'[q] >= committed[q]
    OBVIOUS
  <2>1. PP!OffsetInv
    BY DEF PipelineInv, WorkersInv
  <2>2. committed[q] \in Nat
    BY <2>1 DEF PP!OffsetInv
  <2>3. CASE UNCHANGED poolVars
    BY <2>2, <2>3 DEF poolVars
  <2>4. CASE [PP!PoolNext]_(PP!vars)
    BY <2>1, <2>4, CommitsGoForward
  <2> QED
    BY <2>3, <2>4, StepOfOneSide
<1> QED
  BY PipelineInvHolds, <1>1, PTL DEF PipelineSpec

\* A document is COMPLETED only with its result, also while the API inserts rows and sets
\* others back to QUEUED.
THEOREM CompletedHasResultInPipeline == PipelineSpec => []Pool!CompletedHasResult
<1>1. PipelineInv => Pool!CompletedHasResult
  BY DEF PipelineInv, WorkersInv, PP!TasksInv, PP!RowsOK, PP!CompletedHasResult, PP!Stored,
         Pool!CompletedHasResult, Pool!Stored
<1> QED
  BY PipelineInvHolds, <1>1, PTL

\* The group never commits past what it has read, nor reads past the end of a partition that
\* the API is writing to.
THEOREM PositionsInOrderInPipeline == PipelineSpec => []Pool!PositionsInOrder
<1>1. PipelineInv => Pool!PositionsInOrder
  BY DEF PipelineInv, WorkersInv, PP!OffsetInv, PP!PositionsInOrder, Pool!PositionsInOrder
<1> QED
  BY PipelineInvHolds, <1>1, PTL

\* While the workers' statements succeed and no record without a row is in the topic, what the
\* group has passed has its result.
CleanInv == ~FallbackPublished => PP!HandledInv

LEMMA CleanInvStep ==
    ASSUME PP!NoStatementFails, PipelineInv, CleanInv, [PipelineNext]_allVars
    PROVE  CleanInv'
<1>1. CASE [ApiNext]_vars /\ UNCHANGED poolVars
  <2>1. TypeOK /\ TypeOK'
    BY <1>1, TypesStep DEF PipelineInv, ReplyInv, CreateInv
  <2>2. FallbackPublished => FallbackPublished'
    BY <1>1, <2>1, LogGrows DEF FallbackPublished
  <2> QED
    BY <1>1, <2>1, <2>2, ApiKeepsHandled DEF CleanInv, PipelineInv, WorkersInv
<1>2. CASE [PP!PoolNext]_(PP!vars) /\ UNCHANGED apiVars
  <2>1. UNCHANGED log
    BY <1>2, WorkersKeepRows DEF PipelineInv, WorkersInv
  <2>2. FallbackPublished' <=> FallbackPublished
    BY <2>1 DEF FallbackPublished
  <2> QED
    BY <1>2, <2>2, HandledGoesOn DEF CleanInv, PipelineInv, WorkersInv
<1> QED
  BY <1>1, <1>2, StepOfOneSide

\* Then a document with a record in the topic has its result or is still due.
LEMMA RecordIsDue ==
    ASSUME PP!HandledInv, NEW d, NEW q \in Partitions, InLog(Doc(d), q)
    PROVE  d \in results \/ Pool!StillDue(d)
<1>1. PICK i \in DOMAIN log[q] : log[q][i] = Doc(d)
  BY DEF InLog
<1>2. CASE PP!Passed(q, i)
  BY <1>1, <1>2 DEF PP!HandledInv, PP!Answered, Doc
<1>3. CASE ~PP!Passed(q, i)
  <2>1. <<q, i>> \in Pool!RecordsOf(d)
    BY <1>1 DEF Pool!RecordsOf, Pool!Doc, Doc
  <2>2. ~Pool!Passed(q, i)
    BY <1>3 DEF PP!Passed, Pool!Passed
  <2> QED
    BY <2>1, <2>2 DEF Pool!StillDue
<1> QED
  BY <1>2, <1>3

\* What the two theorems below ask of the workers: PostgreSQL answers them.
WorkersReachTables == "db" \notin WorkerFaults /\ StartPools \subseteq {TRUE}

LEMMA CleanInvHolds == WorkersReachTables => (PipelineSpec => []CleanInv)
<1> SUFFICES ASSUME WorkersReachTables PROVE PipelineSpec => []CleanInv
  OBVIOUS
<1>1. PP!NoStatementFails
  BY DEF PP!NoStatementFails, WorkersReachTables
<1>2. PipelineInit => CleanInv
  BY SameInit, HandledStarts DEF CleanInv
<1>3. PipelineInv /\ CleanInv /\ [PipelineNext]_allVars => CleanInv'
  BY <1>1, CleanInvStep
<1> QED
  BY PipelineInvHolds, <1>2, <1>3, PTL DEF PipelineSpec

\* No queued document is forgotten once its record is in the topic: while PostgreSQL answers
\* the workers, it has its result, or a record the group has not passed, or a task that
\* works on it; whichever worker crashes, is stopped or loses its partitions, while the API
\* crashes, restarts, loses its broker or its database and goes on writing to the topic.
THEOREM QueuedIsWaitingHolds ==
    ASSUME WorkersReachTables
    PROVE  PipelineSpec => []QueuedIsWaiting
<1>1. PipelineInv /\ CleanInv => QueuedIsWaiting
  <2> SUFFICES ASSUME PipelineInv, PP!HandledInv, NEW d \in Stored(documents),
                      NEW q \in Partitions, InLog(Doc(d), q)
               PROVE  d \in results \/ Pool!StillDue(d)
    BY PartitionsOfRows DEF CleanInv, QueuedIsWaiting, PipelineInv, ReplyInv, CreateInv
  <2> QED
    BY RecordIsDue
<1> QED
  BY PipelineInvHolds, CleanInvHolds, <1>1, PTL

\* What the topic holds of a document is not lost, whatever its row says and its client was
\* told: the safety half of PublishedIsProcessed.
PublishedIsDue ==
    ~FallbackPublished =>
        \A s \in Submissions :
            InLog(Doc(s), PartitionFor(s)) => s \in results \/ Pool!StillDue(s)

\* No published document is lost between the send of POST /ingest, which tells the client 429,
\* and the workers, whatever the API loses and whichever worker crashes, stops or is
\* rebalanced, as long as PostgreSQL answers the workers.
THEOREM PublishedIsDueHolds ==
    ASSUME WorkersReachTables
    PROVE  PipelineSpec => []PublishedIsDue
<1>1. PipelineInv /\ CleanInv => PublishedIsDue
  <2> SUFFICES ASSUME PipelineInv, PP!HandledInv, NEW s \in Submissions,
                      InLog(Doc(s), PartitionFor(s))
               PROVE  s \in results \/ Pool!StillDue(s)
    BY DEF CleanInv, PublishedIsDue
  <2>1. PartitionFor(s) \in Partitions
    BY PartitionOfIsTotal DEF PipelineInv, ReplyInv, CreateInv, PartitionFor, TypeOK, Call
  <2> QED
    BY <2>1, RecordIsDue
<1> QED
  BY PipelineInvHolds, CleanInvHolds, <1>1, PTL

\* Also with workers that rewrite its rows the table implements the ledger: what a worker writes
\* is a stuttering step of it.
THEOREM LedgerSpecInPipeline == PipelineSpec => LedgerSpec
<1>1. PipelineInit => Ledger!Init
  BY LedgerInit DEF PipelineInit
<1>2. ASSUME PipelineInv, PipelineInv', [PipelineNext]_allVars
      PROVE  [Ledger!Next]_(LedgerOf(documents))
  <2>0. CreateInv /\ CreateInv'
    BY <1>2 DEF PipelineInv, ReplyInv
  <2>1. CASE [ApiNext]_vars /\ UNCHANGED poolVars
    BY <1>2, <2>0, <2>1, LedgerStep DEF PipelineInv
  <2>2. CASE [PP!PoolNext]_(PP!vars) /\ UNCHANGED apiVars
    <3>1. \A d \in Submissions : PP!NameKept(d)
      BY <1>2, <2>2, WorkersKeepRows DEF PipelineInv, WorkersInv
    <3>2. \A t \in Submissions :
              /\ documents'[t] = None <=> documents[t] = None
              /\ documents'[t] # None => /\ documents'[t].agency = documents[t].agency
                                         /\ documents'[t].seq = documents[t].seq
                                         /\ documents'[t].key = documents[t].key
      BY <3>1 DEF PP!NameKept
    <3>3. /\ documents \in Tables /\ Numbered(documents)
          /\ documents' \in Tables /\ Numbered(documents')
      BY <2>0, TableIsNumbered DEF Numbered, CreateInv, TypeOK, Tables, Dense, NoNumberTwice
    <3>4. LedgerOf(documents') = LedgerOf(documents)
      <4>1. ASSUME NEW after \in Tables, Numbered(after),
                   \A t \in Submissions :
                       /\ after[t] = None <=> documents[t] = None
                       /\ after[t] # None => /\ after[t].agency = documents[t].agency
                                             /\ after[t].seq = documents[t].seq
                                             /\ after[t].key = documents[t].key
            PROVE  LedgerOf(after) = LedgerOf(documents)
        BY <3>3, <4>1, LedgerAfterUpdate
      <4> QED
        BY <3>2, <3>3, <4>1
    <3> QED
      BY <3>4
  <2> QED
    BY <1>2, <2>1, <2>2, StepOfOneSide
<1>3. PipelineInv /\ [PipelineNext]_allVars => PipelineInv'
  BY PipelineInvStep
<1> QED
  BY PipelineInvInit, <1>1, <1>2, <1>3, PTL DEF PipelineSpec, LedgerSpec, Ledger!Spec

=============================================================================
