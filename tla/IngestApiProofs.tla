-------------------------- MODULE IngestApiProofs ---------------------------
(***************************************************************************)
(* Theorems about IngestApi, for any number of submissions, keys,          *)
(* agencies, partitions and processes, and whatever fails.                 *)
(*                                                                         *)
(* The numbering of documents rests on one inductive invariant, CreateInv: *)
(* an agency's numbers are 1..n; whoever has computed n + 1 holds the      *)
(* agency's lock until its row is committed or its transaction is gone,    *)
(* so nobody else can have inserted in between.  What is published and     *)
(* answered rests on ReplyInv, and so does the refinement of the ledger.   *)
(***************************************************************************)
EXTENDS StatusApi, TLAPS

-----------------------------------------------------------------------------
(* The operators of DocumentTable *)

Tables == [Submissions -> Row \union {None}]

\* MAX of a dense numbering is its length (0 when there is none).
LEMMA MaxOfInterval ==
    ASSUME NEW n \in Nat
    PROVE  Max((1 .. n) \union {0}) = n
<1> DEFINE S == (1 .. n) \union {0}
<1>1. n \in S /\ \A y \in S : n >= y
  OBVIOUS
<1>2. \A x \in S : (\A y \in S : x >= y) => x = n
  OBVIOUS
<1> QED
  BY <1>1, <1>2 DEF Max

\* MAX + 1 continues a dense numbering.
LEMMA NextOfDense ==
    ASSUME NEW table, NEW a \in Agencies, NEW n \in Nat, SequencesOf(table, a) = 1 .. n
    PROVE  NextSequence(table, a) = n + 1
BY MaxOfInterval DEF NextSequence

\* An insertion adds one number, to the agency of the row.
LEMMA SequencesAfterInsert ==
    ASSUME NEW table \in Tables, NEW after \in Tables, NEW s \in Submissions, NEW a \in Agencies,
           table[s] = None, after[s] # None,
           \A t \in Submissions \ {s} : after[t] = table[t]
    PROVE  SequencesOf(after, a) =
               SequencesOf(table, a) \union (IF after[s].agency = a THEN {after[s].seq} ELSE {})
<1> DEFINE Of(tab) == {t \in Stored(tab) : tab[t].agency = a}
<1>1. Of(after) = Of(table) \union (IF after[s].agency = a THEN {s} ELSE {})
  BY DEF Stored
<1>2. \A t \in Of(table) : after[t] = table[t]
  BY DEF Stored
<1> HIDE DEF Of
<1>3. {after[t].seq : t \in Of(after)} =
          {table[t].seq : t \in Of(table)} \union (IF after[s].agency = a THEN {after[s].seq} ELSE {})
  BY <1>1, <1>2
<1> QED
  BY <1>3 DEF SequencesOf, Of

\* What a row is numbered, and for whom, does not depend on its status.
LEMMA SequencesAfterUpdate ==
    ASSUME NEW table \in Tables, NEW after \in Tables, NEW a \in Agencies,
           \A t \in Submissions :
               /\ after[t] = None <=> table[t] = None
               /\ after[t] # None => after[t].agency = table[t].agency /\ after[t].seq = table[t].seq
    PROVE  SequencesOf(after, a) = SequencesOf(table, a)
<1>1. Stored(after) = Stored(table)
  BY DEF Stored
<1>2. \A t \in Stored(table) : after[t].agency = table[t].agency /\ after[t].seq = table[t].seq
  BY <1>1 DEF Stored
<1> QED
  BY <1>1, <1>2 DEF SequencesOf

-----------------------------------------------------------------------------
(* The inductive invariant *)

BeforeCommit == {"idle", "select", "lock", "number", "insert"}
AfterCommit == {"publish", "record", "respond"}

\* A submission inserts at most once.
NotYetInserted ==
    \A s \in Submissions : pc[s] \in BeforeCommit => documents[s] = None

\* What a handler goes on to publish is the row it inserted or an id it made up.
JobIsOwn ==
    \A s \in Submissions : pc[s] \in AfterCommit =>
        \/ job[s] = Doc(s) /\ documents[s] # None
        \/ job[s] = Local(s)

Dense ==
    \A a \in Agencies : \E n \in Nat : SequencesOf(documents, a) = 1 .. n

NoNumberTwice ==
    \A s, t \in Stored(documents) :
        documents[s].agency = documents[t].agency /\ documents[s].seq = documents[t].seq
            => s = t

CreateInv ==
    /\ TypeOK
    /\ LockDiscipline
    /\ NotYetInserted
    /\ JobIsOwn
    /\ Dense
    /\ NoNumberTwice
    /\ NumberStillFree

LEMMA JobsOf == \A s \in Submissions : Doc(s) \in Jobs /\ Local(s) \in Jobs
BY DEF Jobs, Doc, Local

LEMMA NextIsPositive ==
    ASSUME Dense, NEW a \in Agencies
    PROVE  NextSequence(documents, a) \in Nat \ {0}
BY NextOfDense DEF Dense

-----------------------------------------------------------------------------
LEMMA CreateInvInit == Init => CreateInv
<1> SUFFICES ASSUME Init PROVE CreateInv
  OBVIOUS
<1>1. TypeOK
  BY MaxCrashesIsNat DEF Init, TypeOK
<1>2. LockDiscipline
  BY NoneIsNoSubmission DEF Init, LockDiscipline
<1>3. NotYetInserted /\ JobIsOwn /\ NumberStillFree
  BY DEF Init, NotYetInserted, JobIsOwn, NumberStillFree, AfterCommit
<1>4. \A a \in Agencies : SequencesOf(documents, a) = 1 .. 0
  BY DEF Init, SequencesOf, Stored
<1>5. Dense /\ NoNumberTwice
  BY <1>4 DEF Init, Dense, NoNumberTwice, Stored
<1> QED
  BY <1>1, <1>2, <1>3, <1>5 DEF CreateInv

LEMMA FallbackMoves ==
    ASSUME TypeOK, NEW s \in Submissions, Fallback(s)
    PROVE  /\ \A t \in Submissions \ {s} : pc'[t] = pc[t] /\ job'[t] = job[t]
           /\ \/ pc'[s] = "done"
              \/ pc'[s] = "publish" /\ job'[s] = Local(s)
<1> DEFINE c == idempCache[Proc(s)][call[s].key]
<1>1. CASE c # None
  <2>1. Finish(s, 200, Local(c)) /\ job' = [job EXCEPT ![s] = Local(c)]
    BY <1>1 DEF Fallback
  <2> QED
    BY <2>1 DEF Finish, Goto, TypeOK
<1>2. CASE c = None
  <2>1. Goto(s, "publish") /\ job' = [job EXCEPT ![s] = Local(s)]
    BY <1>2 DEF Fallback
  <2> QED
    BY <2>1 DEF Goto, TypeOK
<1> QED
  BY <1>1, <1>2

\* The three ways in which a step may write the table: not at all, by inserting the
\* row of a submission whose transaction commits, or by setting a status back.
Inserts(s) ==
    /\ pc[s] = "insert" /\ pc'[s] \notin BeforeCommit
    /\ Insertable(s)
    /\ documents' = [documents EXCEPT ![s] = NewRow(s)]

Requeues(s) ==
    /\ documents[s] # None
    /\ documents' = [documents EXCEPT ![s].status = "QUEUED"]

LEMMA TableSteps ==
    ASSUME CreateInv, [ApiNext]_vars
    PROVE  \/ UNCHANGED documents
           \/ \E s \in Submissions : Inserts(s) \/ Requeues(s)
<1>1. ASSUME NEW s \in Submissions, Handle(s)
      PROVE  UNCHANGED documents \/ Inserts(s) \/ Requeues(s)
  <2>1. CASE CreateOrGet(s)
    <3>1. CASE Insert(s)
      BY <3>1 DEF Insert, Inserts, Goto, BeforeCommit, CreateInv, TypeOK
    <3>2. CASE CommitUnacknowledged(s)
      BY <3>2, FallbackMoves DEF CommitUnacknowledged, Inserts, BeforeCommit, CreateInv
    <3> QED
      BY <2>1, <3>1, <3>2 DEF CreateOrGet, FindExisting, FindNone, TakeLock, Number,
                              InsertConflicts, TransactionFails
  <2>2. CASE SendAuditEvent(s)
    BY <2>2 DEF SendAuditEvent, Publish, PublishNowhere, PublishFails
  <2>3. ASSUME pc[s] = "record", job[s].kind = "document", Requeue(s)
        PROVE  Requeues(s)
    <3>1. job[s] = Doc(s) /\ documents[s] # None
      <4>1. JobIsOwn
        BY DEF CreateInv
      <4>2. Local(s).kind = "local"
        BY DEF Local
      <4> QED
        BY <2>3, <4>1, <4>2 DEF JobIsOwn, AfterCommit
    <3> QED
      BY <2>3, <3>1 DEF Requeue, Requeues, Doc
  <2>4. CASE Conclude(s)
    BY <2>3, <2>4 DEF Conclude, Record, RecordRejectsLocal, RecordSkipped, RecordFails, Respond
  <2> QED
    BY <1>1, <2>1, <2>2, <2>4 DEF Handle
<1>2. ASSUME NEW s \in Submissions, TurnAway(s) \/ Admit(s)
      PROVE  UNCHANGED documents
  BY <1>2 DEF TurnAway, Admit
<1>3. ASSUME NEW p \in Procs, Start(p) \/ Stop(p) \/ Crash(p)
      PROVE  UNCHANGED documents
  BY <1>3 DEF Start, Stop, Crash
<1>4. ASSUME NEW p \in Procs, NEW q \in Partitions, Producer(p, q)
      PROVE  UNCHANGED documents
  BY <1>4 DEF Producer, Flush, FlushAgain, Expire
<1>5. CASE UNCHANGED vars
  BY <1>5 DEF vars
<1> QED
  BY <1>1, <1>2, <1>3, <1>4, <1>5 DEF ApiNext

LEMMA TableStaysTyped ==
    ASSUME CreateInv,
           UNCHANGED documents \/ \E s \in Submissions : Inserts(s) \/ Requeues(s)
    PROVE  documents' \in [Submissions -> Row \union {None}]
<1>1. ASSUME NEW s \in Submissions, Inserts(s)
      PROVE  documents' \in [Submissions -> Row \union {None}]
  <2>1. call[s] \in Call
    BY DEF CreateInv, TypeOK
  <2>2. seq[s] \in Nat \ {0}
    BY <1>1, <2>1, NextIsPositive DEF Inserts, CreateInv, NumberStillFree, Call
  <2>3. NewRow(s) \in Row
    BY <2>1, <2>2 DEF NewRow, Row, Status, Call
  <2> QED
    BY <1>1, <2>3 DEF Inserts, CreateInv, TypeOK
<1>2. ASSUME NEW s \in Submissions, Requeues(s)
      PROVE  documents' \in [Submissions -> Row \union {None}]
  <2>1. [documents[s] EXCEPT !.status = "QUEUED"] \in Row
    BY <1>2 DEF Requeues, CreateInv, TypeOK, Row, Status
  <2> QED
    BY <1>2, <2>1 DEF Requeues, CreateInv, TypeOK
<1> QED
  BY <1>1, <1>2 DEF CreateInv, TypeOK

-----------------------------------------------------------------------------
(* Types *)

LEMMA FinishTypes ==
    ASSUME TypeOK, NEW s \in Submissions, NEW code \in {200, 202, 429, 413},
           NEW id \in Jobs \union {None}, Finish(s, code, id)
    PROVE  /\ pc' \in [Submissions -> Active \union {"idle", "done", "lost"}]
           /\ reply' \in [Submissions -> Reply \union {None}]
BY DEF Finish, Goto, TypeOK, Reply

LEMMA RememberTypes ==
    ASSUME TypeOK, NEW s \in Submissions, NEW id \in Jobs, Remember(s, id)
    PROVE  jobCache' \in [Procs -> SUBSET Jobs]
BY DEF Remember, TypeOK

LEMMA FallbackTypes ==
    ASSUME TypeOK, NEW s \in Submissions, Fallback(s)
    PROVE  /\ pc' \in [Submissions -> Active \union {"idle", "done", "lost"}]
           /\ job' \in [Submissions -> Jobs \union {None}]
           /\ reply' \in [Submissions -> Reply \union {None}]
           /\ idempCache' \in [Procs -> [Keys -> Submissions \union {None}]]
           /\ jobCache' \in [Procs -> SUBSET Jobs]
<1>1. Proc(s) \in Procs /\ call[s].key \in Keys
  BY DEF TypeOK, Call, Proc
<1> DEFINE c == idempCache[Proc(s)][call[s].key]
<1>2. CASE c # None
  <2>1. c \in Submissions
    BY <1>1, <1>2 DEF TypeOK
  <2>2. /\ Finish(s, 200, Local(c))
        /\ job' = [job EXCEPT ![s] = Local(c)]
        /\ UNCHANGED <<idempCache, jobCache>>
    BY <1>2 DEF Fallback
  <2>3. Local(c) \in Jobs
    BY <2>1, JobsOf
  <2> QED
    BY <2>2, <2>3, FinishTypes DEF TypeOK
<1>3. CASE c = None
  <2>1. /\ Goto(s, "publish")
        /\ job' = [job EXCEPT ![s] = Local(s)]
        /\ idempCache' = [idempCache EXCEPT ![Proc(s)][call[s].key] = s]
        /\ UNCHANGED reply
        /\ Remember(s, Local(s))
    BY <1>3 DEF Fallback
  <2>2. Local(s) \in Jobs
    BY JobsOf
  <2> QED
    BY <1>1, <2>1, <2>2, RememberTypes DEF Goto, Active, TypeOK
<1> QED
  BY <1>2, <1>3

LEMMA UnlockTypes ==
    ASSUME TypeOK, NEW s \in Submissions, Unlock(s)
    PROVE  lock' \in [Agencies -> Submissions \union {None}]
BY DEF Unlock, TypeOK

LEMMA TypesStep == CreateInv /\ [ApiNext]_vars => TypeOK'
<1> SUFFICES ASSUME CreateInv, [ApiNext]_vars PROVE TypeOK'
  OBVIOUS
<1> USE DEF apiVars
<1>0. TypeOK
  BY DEF CreateInv
<1>1. documents' \in [Submissions -> Row \union {None}]
  BY TableSteps, TableStaysTyped
<1>2. ASSUME NEW p \in Procs, Start(p)
      PROVE  TypeOK'
  BY <1>0, <1>1, <1>2, StartModesAreModes DEF Start, TypeOK
<1>3. ASSUME NEW p \in Procs, Crash(p)
      PROVE  TypeOK'
  BY <1>0, <1>1, <1>3, MaxCrashesIsNat DEF Crash, TypeOK
<1>4. ASSUME NEW p \in Procs, Stop(p)
      PROVE  TypeOK'
  BY <1>0, <1>1, <1>4 DEF Stop, TypeOK
<1>5. ASSUME NEW s \in Submissions, TurnAway(s)
      PROVE  TypeOK'
  BY <1>0, <1>1, <1>5, FinishTypes DEF TurnAway, TypeOK
<1>6. ASSUME NEW s \in Submissions, Admit(s)
      PROVE  TypeOK'
  BY <1>0, <1>1, <1>6, FallbackTypes DEF Admit, Goto, Active, TypeOK
<1>7. ASSUME NEW s \in Submissions, FindExisting(s)
      PROVE  TypeOK'
  BY <1>0, <1>1, <1>7, FinishTypes, RememberTypes, JobsOf DEF FindExisting, HoldersOf, Stored, TypeOK
<1>8. ASSUME NEW s \in Submissions, FindNone(s)
      PROVE  TypeOK'
  BY <1>0, <1>1, <1>8 DEF FindNone, Goto, Active, TypeOK
<1>9. ASSUME NEW s \in Submissions, TakeLock(s)
      PROVE  TypeOK'
  BY <1>0, <1>1, <1>9 DEF TakeLock, Goto, Active, TypeOK
<1>10. ASSUME NEW s \in Submissions, Number(s)
       PROVE  TypeOK'
  <2>1. NextSequence(documents, call[s].agency) \in Nat
    BY <1>0, NextIsPositive DEF CreateInv, TypeOK, Call
  <2> QED
    BY <1>0, <1>1, <1>10, <2>1 DEF Number, Goto, Active, TypeOK
<1>11. ASSUME NEW s \in Submissions, Insert(s)
       PROVE  TypeOK'
  BY <1>0, <1>1, <1>11, UnlockTypes, RememberTypes, JobsOf DEF Insert, Goto, Active, TypeOK
<1>12. ASSUME NEW s \in Submissions,
              InsertConflicts(s) \/ CommitUnacknowledged(s) \/ TransactionFails(s)
       PROVE  TypeOK'
  BY <1>0, <1>1, <1>12, UnlockTypes, FallbackTypes
     DEF InsertConflicts, CommitUnacknowledged, TransactionFails, TypeOK
<1>13. ASSUME NEW s \in Submissions, Publish(s)
       PROVE  TypeOK'
  <2>1. job[s] \in Jobs
    BY <1>13, JobsOf DEF Publish, CreateInv, JobIsOwn, AfterCommit
  <2>2. Proc(s) \in Procs /\ PartitionFor(s) \in Partitions
    BY <1>0, PartitionOfIsTotal DEF TypeOK, Call, Proc, PartitionFor
  <2>3. buffer' \in [Procs -> [Partitions -> Seq(Jobs)]]
    BY <1>0, <1>13, <2>1, <2>2 DEF Publish, TypeOK
  <2> QED
    BY <1>0, <1>1, <1>13, <2>3, FinishTypes DEF Publish, Fails, TypeOK
<1>14. ASSUME NEW s \in Submissions,
              PublishNowhere(s) \/ RecordSkipped(s) \/ Record(s)
       PROVE  TypeOK'
  BY <1>0, <1>1, <1>14 DEF PublishNowhere, RecordSkipped, Record, Goto, Active, TypeOK
<1>15. ASSUME NEW s \in Submissions,
              PublishFails(s) \/ RecordRejectsLocal(s) \/ RecordFails(s)
       PROVE  TypeOK'
  BY <1>0, <1>1, <1>15, FinishTypes DEF PublishFails, RecordRejectsLocal, RecordFails, Fails, TypeOK
<1>16. ASSUME NEW s \in Submissions, Respond(s)
       PROVE  TypeOK'
  BY <1>0, <1>1, <1>16, FinishTypes DEF Respond, TypeOK
<1>17. ASSUME NEW p \in Procs, NEW q \in Partitions, Flush(p, q)
       PROVE  TypeOK'
  <2>1. /\ buffer[p][q] \in Seq(Jobs) /\ log[q] \in Seq(Jobs)
        /\ Head(buffer[p][q]) \in Jobs /\ Tail(buffer[p][q]) \in Seq(Jobs)
    BY <1>0, <1>17 DEF Flush, TypeOK
  <2>2. Append(log[q], Head(buffer[p][q])) \in Seq(Jobs)
    BY <2>1
  <2> QED
    BY <1>0, <1>1, <1>17, <2>1, <2>2 DEF Flush, TypeOK
<1>18. ASSUME NEW p \in Procs, NEW q \in Partitions, FlushAgain(p, q)
       PROVE  TypeOK'
  <2>1. Append(log[q], Head(buffer[p][q])) \in Seq(Jobs)
    BY <1>0, <1>18 DEF FlushAgain, TypeOK
  <2> QED
    BY <1>0, <1>1, <1>18, <2>1 DEF FlushAgain, TypeOK
<1>19. ASSUME NEW p \in Procs, NEW q \in Partitions, Expire(p, q)
       PROVE  TypeOK'
  <2>1. Tail(buffer[p][q]) \in Seq(Jobs)
    BY <1>0, <1>19 DEF Expire, TypeOK
  <2> QED
    BY <1>0, <1>1, <1>19, <2>1 DEF Expire, TypeOK
<1>20. CASE UNCHANGED vars
  BY <1>0, <1>1, <1>20 DEF vars, TypeOK
<1> QED
  BY <1>2, <1>3, <1>4, <1>5, <1>6, <1>7, <1>8, <1>9, <1>10, <1>11, <1>12, <1>13, <1>14, <1>15,
     <1>16, <1>17, <1>18, <1>19, <1>20
     DEF ApiNext, Handle, CreateOrGet, SendAuditEvent, Conclude, Producer

-----------------------------------------------------------------------------
(* What a step may do to one submission t, whoever takes the step *)

Moves(t) ==
    /\ pc'[t] \in BeforeCommit => pc[t] \in BeforeCommit
    /\ pc'[t] \in AfterCommit =>
          \/ pc[t] \in AfterCommit /\ job'[t] = job[t]
          \/ pc[t] \in BeforeCommit /\ job'[t] = Local(t)
          \/ pc[t] \in BeforeCommit /\ job'[t] = Doc(t) /\ documents'[t] # None
    /\ pc'[t] = "insert" =>
          \/ pc[t] = "insert" /\ seq'[t] = seq[t]
          \/ /\ pc[t] = "number" /\ UNCHANGED documents
             /\ seq'[t] = NextSequence(documents, call[t].agency)

LEMMA EverySubmissionMoves ==
    ASSUME CreateInv, [ApiNext]_vars
    PROVE  (\A t \in Submissions : Moves(t)) /\ UNCHANGED call
<1> USE DEF apiVars, BeforeCommit, AfterCommit
<1>0. TypeOK
  BY DEF CreateInv
<1>t. \A s \in Submissions : pc[s] = "insert" => NewRow(s) # None
  BY NoneIsNoRow, <1>0, NextIsPositive
     DEF CreateInv, TypeOK, NumberStillFree, NewRow, Row, Status, Call
<1>1. ASSUME NEW t \in Submissions, UNCHANGED <<pc, job, seq>>
      PROVE  Moves(t)
  BY <1>1 DEF Moves
<1>2. ASSUME NEW p \in Procs, Crash(p), NEW t \in Submissions
      PROVE  Moves(t)
  BY <1>2, <1>0 DEF Crash, Moves, TypeOK
<1>3. ASSUME NEW s \in Submissions, Handle(s) \/ TurnAway(s) \/ Admit(s), NEW t \in Submissions
      PROVE  Moves(t)
  <2>1. CASE Admit(s)
    BY <2>1, <1>0, FallbackMoves DEF Admit, Goto, Moves, TypeOK
  <2>2. CASE TurnAway(s)
    BY <2>2, <1>0 DEF TurnAway, Finish, Goto, Moves, TypeOK
  <2>3. CASE FindExisting(s)
    BY <2>3, <1>0 DEF FindExisting, Finish, Goto, Moves, TypeOK
  <2>4. CASE FindNone(s) \/ TakeLock(s)
    BY <2>4, <1>0 DEF FindNone, TakeLock, Goto, Moves, TypeOK
  <2>5. CASE Number(s)
    BY <2>5, <1>0 DEF Number, Goto, Moves, TypeOK
  <2>6. CASE Insert(s)
    BY <2>6, <1>0, <1>t DEF Insert, Goto, Moves, TypeOK
  <2>7. CASE InsertConflicts(s) \/ CommitUnacknowledged(s) \/ TransactionFails(s)
    <3>1. pc[s] \in BeforeCommit /\ Fallback(s) /\ UNCHANGED <<call, seq>>
      BY <2>7 DEF InsertConflicts, CommitUnacknowledged, TransactionFails, AtDatabase
    <3> QED
      BY <3>1, <1>0, FallbackMoves DEF Moves, TypeOK
  <2>8. CASE SendAuditEvent(s)
    BY <2>8, <1>0 DEF SendAuditEvent, Publish, PublishNowhere, PublishFails, Fails,
                      Finish, Goto, Moves, TypeOK
  <2>9. CASE Conclude(s)
    BY <2>9, <1>0 DEF Conclude, Record, RecordRejectsLocal, RecordSkipped, RecordFails, Respond,
                      Fails, Finish, Goto, Moves, TypeOK
  <2> QED
    BY <1>3, <2>1, <2>2, <2>3, <2>4, <2>5, <2>6, <2>7, <2>8, <2>9 DEF Handle, CreateOrGet
<1>4. UNCHANGED call
  BY DEF ApiNext, Start, Stop, Crash, TurnAway, Admit, Handle, CreateOrGet, FindExisting, FindNone,
         TakeLock, Number, Insert, InsertConflicts, CommitUnacknowledged, TransactionFails,
         SendAuditEvent, Publish, PublishNowhere, PublishFails, Conclude, Record,
         RecordRejectsLocal, RecordSkipped, RecordFails, Respond, Producer, Flush, FlushAgain,
         Expire, vars
<1>5. ((\E p \in Procs : Start(p) \/ Stop(p)) \/ (\E p \in Procs, q \in Partitions : Producer(p, q))
          \/ UNCHANGED vars) => UNCHANGED <<pc, job, seq>>
  BY DEF Start, Stop, Producer, Flush, FlushAgain, Expire, vars
<1> QED
  BY <1>1, <1>2, <1>3, <1>4, <1>5 DEF ApiNext

-----------------------------------------------------------------------------
(* The advisory locks *)

UnderLock == {"number", "insert"}

\* A step that neither takes nor ends anybody's transaction.
LEMMA LocksKept ==
    ASSUME LockDiscipline, UNCHANGED <<lock, call>>,
           \A t \in Submissions : pc'[t] \in UnderLock <=> pc[t] \in UnderLock
    PROVE  LockDiscipline'
BY DEF LockDiscipline, UnderLock

\* The end of a transaction, whichever way.
LEMMA LocksReleased ==
    ASSUME LockDiscipline, TypeOK, NEW s \in Submissions, Unlock(s), UNCHANGED call,
           pc'[s] \notin UnderLock,
           \A t \in Submissions \ {s} : pc'[t] = pc[t]
    PROVE  LockDiscipline'
BY NoneIsNoSubmission DEF LockDiscipline, UnderLock, Unlock, TypeOK

LEMMA LockStep == CreateInv /\ [ApiNext]_vars => LockDiscipline'
<1> SUFFICES ASSUME CreateInv, [ApiNext]_vars PROVE LockDiscipline'
  OBVIOUS
<1> USE DEF apiVars, UnderLock
<1>0. TypeOK /\ LockDiscipline
  BY DEF CreateInv
<1>1. ASSUME NEW s \in Submissions, Admit(s) \/ TurnAway(s)
      PROVE  LockDiscipline'
  <2>1. UNCHANGED <<lock, call>>
    BY <1>1 DEF Admit, TurnAway
  <2>2. CASE TurnAway(s)
    BY <2>1, <2>2, <1>0, LocksKept DEF TurnAway, Finish, Goto, TypeOK
  <2>3. CASE Admit(s)
    BY <2>1, <2>3, <1>0, LocksKept, FallbackMoves DEF Admit, Goto, TypeOK
  <2> QED
    BY <1>1, <2>2, <2>3
<1>2. ASSUME NEW s \in Submissions, FindExisting(s)
      PROVE  LockDiscipline'
  BY <1>2, <1>0, LocksKept DEF FindExisting, Finish, Goto, TypeOK
<1>3. ASSUME NEW s \in Submissions, FindNone(s) \/ Number(s)
      PROVE  LockDiscipline'
  BY <1>3, <1>0, LocksKept DEF FindNone, Number, Goto, TypeOK
<1>4. ASSUME NEW s \in Submissions, TakeLock(s)
      PROVE  LockDiscipline'
  BY <1>4, <1>0, NoneIsNoSubmission DEF TakeLock, Goto, LockDiscipline, TypeOK
<1>5. ASSUME NEW s \in Submissions, Insert(s)
      PROVE  LockDiscipline'
  BY <1>5, <1>0, LocksReleased DEF Insert, Goto, TypeOK
<1>6. ASSUME NEW s \in Submissions,
             InsertConflicts(s) \/ CommitUnacknowledged(s) \/ TransactionFails(s)
      PROVE  LockDiscipline'
  <2>1. Fallback(s) /\ Unlock(s) /\ UNCHANGED call
    BY <1>6 DEF InsertConflicts, CommitUnacknowledged, TransactionFails
  <2> QED
    BY <2>1, <1>0, FallbackMoves, LocksReleased
<1>7. ASSUME NEW s \in Submissions, SendAuditEvent(s)
      PROVE  LockDiscipline'
  BY <1>7, <1>0, LocksKept
     DEF SendAuditEvent, Publish, PublishNowhere, PublishFails, Fails, Finish, Goto, TypeOK
<1>8. ASSUME NEW s \in Submissions, Conclude(s)
      PROVE  LockDiscipline'
  BY <1>8, <1>0, LocksKept
     DEF Conclude, Record, RecordRejectsLocal, RecordSkipped, RecordFails, Respond, Fails, Finish,
         Goto, TypeOK
<1>9. ASSUME NEW p \in Procs, Crash(p)
      PROVE  LockDiscipline'
  <2>1. /\ \A t \in Submissions : pc'[t] = IF t \in On(p) THEN "lost" ELSE pc[t]
        /\ \A a \in Agencies : lock'[a] = IF lock[a] \in On(p) THEN None ELSE lock[a]
        /\ UNCHANGED call
    BY <1>9 DEF Crash
  <2>2. On(p) \subseteq Submissions
    BY DEF On, InFlight
  <2> QED
    BY <2>1, <2>2, <1>0, NoneIsNoSubmission DEF LockDiscipline
<1>10. CASE UNCHANGED <<lock, call, pc>>
  BY <1>10, <1>0, LocksKept
<1>11. ((\E p \in Procs : Start(p) \/ Stop(p)) \/ (\E p \in Procs, q \in Partitions : Producer(p, q))
          \/ UNCHANGED vars) => UNCHANGED <<lock, call, pc>>
  BY DEF Start, Stop, Producer, Flush, FlushAgain, Expire, vars
<1> QED
  BY <1>1, <1>2, <1>3, <1>4, <1>5, <1>6, <1>7, <1>8, <1>9, <1>10, <1>11
     DEF ApiNext, Handle, CreateOrGet

-----------------------------------------------------------------------------
(* The numbering *)

\* A row appears only where its submission has left its transaction, and stays.
LEMMA RowsStep ==
    ASSUME CreateInv, [ApiNext]_vars
    PROVE  NotYetInserted' /\ JobIsOwn'
<1>1. /\ \A t \in Submissions : Moves(t)
      /\ documents \in Tables /\ documents' \in Tables
      /\ NotYetInserted /\ JobIsOwn
  BY EverySubmissionMoves, TypesStep DEF CreateInv, TypeOK, Tables
<1>2. \A t \in Submissions : documents[t] # None => documents'[t] # None
  <2>1. ASSUME NEW s \in Submissions, Inserts(s), NEW t \in Submissions, documents[t] # None
        PROVE  documents'[t] # None
    BY <1>1, <2>1 DEF Inserts, NotYetInserted, BeforeCommit, Tables
  <2>2. ASSUME NEW s \in Submissions, Requeues(s), NEW t \in Submissions, documents[t] # None
        PROVE  documents'[t] # None
    <3>1. documents'[t] = documents[t] \/ (t = s /\ documents'[s] = [documents[s] EXCEPT !.status = "QUEUED"])
      BY <1>1, <2>2 DEF Requeues, Tables
    <3>2. documents[s] \in Row => [documents[s] EXCEPT !.status = "QUEUED"] \in Row
      BY DEF Row, Status
    <3> QED
      BY <1>1, <2>2, <3>1, <3>2, NoneIsNoRow DEF Requeues, Tables
  <2> QED
    BY <2>1, <2>2, TableSteps
<1>3. \A t \in Submissions : pc'[t] \in BeforeCommit => (documents[t] = None => documents'[t] = None)
  BY <1>1, TableSteps DEF Inserts, Requeues, Tables
<1>4. NotYetInserted'
  BY <1>1, <1>3 DEF NotYetInserted, Moves
<1>5. JobIsOwn'
  BY <1>1, <1>2 DEF JobIsOwn, Moves
<1> QED
  BY <1>4, <1>5

\* The committing submission extends its agency's numbering by one, and holds the
\* lock that every other submission with a number of that agency would have to hold.
LEMMA InsertKeepsNumbering ==
    ASSUME CreateInv, TypeOK', UNCHANGED call, NEW s \in Submissions, Inserts(s)
    PROVE  /\ Dense' /\ NoNumberTwice'
           /\ \A t \in Submissions \ {s} :
                 pc[t] = "insert" => seq[t] = NextSequence(documents, call[t].agency)'
<1> DEFINE a == call[s].agency
           row == NewRow(s)
<1>1. /\ documents \in Tables /\ documents' \in Tables /\ a \in Agencies
      /\ documents[s] = None /\ documents' = [documents EXCEPT ![s] = row] /\ documents'[s] = row
      /\ call \in [Submissions -> Call]
  BY DEF CreateInv, TypeOK, Tables, Inserts, NotYetInserted, BeforeCommit, Call
<1>2. seq[s] = NextSequence(documents, a)
  BY DEF Inserts, CreateInv, NumberStillFree
<1>3. row.agency = a /\ row.seq = seq[s]
  BY DEF NewRow
<1>4. row \in Row
  <2>1. row.seq \in Nat \ {0}
    BY <1>1, <1>2, <1>3, NextIsPositive DEF CreateInv
  <2> QED
    BY <1>1, <1>3, <2>1 DEF NewRow, Row, Status, Call
<1> HIDE DEF row, a
<1>5. ASSUME NEW c \in Agencies
      PROVE  SequencesOf(documents, c)' =
                 SequencesOf(documents, c) \union (IF c = a THEN {row.seq} ELSE {})
  <2>1. /\ documents \in Tables /\ documents' \in Tables
        /\ documents[s] = None /\ documents'[s] # None
        /\ \A t \in Submissions \ {s} : documents'[t] = documents[t]
    BY <1>1, <1>4, NoneIsNoRow DEF Tables
  <2>2. ASSUME NEW f \in Tables, f[s] # None, \A t \in Submissions \ {s} : f[t] = documents[t]
        PROVE  SequencesOf(f, c) =
            SequencesOf(documents, c) \union (IF f[s].agency = c THEN {f[s].seq} ELSE {})
    BY <2>1, <2>2, SequencesAfterInsert
  <2>3. SequencesOf(documents', c) =
            SequencesOf(documents, c) \union (IF documents'[s].agency = c THEN {documents'[s].seq} ELSE {})
    BY <2>1, <2>2
  <2> QED
    BY <1>1, <1>3, <2>3
<1>6. Dense'
  <2> SUFFICES ASSUME NEW c \in Agencies
               PROVE  \E n \in Nat : SequencesOf(documents, c)' = 1 .. n
    BY DEF Dense
  <2>1. PICK n \in Nat : SequencesOf(documents, c) = 1 .. n
    BY DEF CreateInv, Dense
  <2>2. CASE c = a
    <3>1. row.seq = n + 1
      BY <1>1, <1>2, <1>3, <2>1, <2>2, NextOfDense
    <3>2. (1 .. n) \union {n + 1} = 1 .. (n + 1)
      OBVIOUS
    <3>3. SequencesOf(documents, c)' = 1 .. (n + 1)
      BY <1>5, <2>1, <2>2, <3>1, <3>2
    <3> QED
      BY <3>3
  <2>3. CASE c # a
    BY <1>5, <2>1, <2>3
  <2> QED
    BY <2>2, <2>3
<1>7. row.seq \notin SequencesOf(documents, a)
  <2>1. PICK n \in Nat : SequencesOf(documents, a) = 1 .. n
    BY <1>1 DEF CreateInv, Dense
  <2> QED
    BY <1>1, <1>2, <1>3, <2>1, NextOfDense
<1>8. NoNumberTwice'
  <2>1. NoNumberTwice
    BY DEF CreateInv
  <2>2. Stored(documents)' = Stored(documents) \union {s}
    BY <1>1, <1>4, NoneIsNoRow DEF Stored, Tables
  <2>3. \A t \in Stored(documents) : documents'[t] = documents[t] /\ t # s
    BY <1>1 DEF Stored, Tables
  <2>4. \A t \in Stored(documents) : ~(documents[t].agency = a /\ documents[t].seq = row.seq)
    BY <1>7 DEF SequencesOf
  <2> SUFFICES ASSUME NEW t \in Stored(documents'), NEW u \in Stored(documents'),
                      documents'[t].agency = documents'[u].agency,
                      documents'[t].seq = documents'[u].seq
               PROVE  t = u
    BY DEF NoNumberTwice
  <2>5. CASE t # s /\ u # s
    BY <2>1, <2>2, <2>3, <2>5 DEF NoNumberTwice
  <2>6. CASE t = s \/ u = s
    BY <1>1, <1>3, <2>2, <2>3, <2>4, <2>6
  <2> QED
    BY <2>5, <2>6
<1>9. ASSUME NEW t \in Submissions \ {s}, pc[t] = "insert"
      PROVE  seq[t] = NextSequence(documents, call[t].agency)'
  <2>1. call[t].agency \in Agencies
    BY <1>1 DEF Call
  <2>2. call[t].agency # a
    <3>1. lock[a] = s
      BY <1>1 DEF a, Inserts, CreateInv, LockDiscipline
    <3>2. lock[call[t].agency] = t
      BY <1>9, <2>1 DEF CreateInv, LockDiscipline
    <3> QED
      BY <3>1, <3>2
  <2>3. SequencesOf(documents, call[t].agency)' = SequencesOf(documents, call[t].agency)
    BY <1>5, <2>1, <2>2
  <2>4. NextSequence(documents, call[t].agency)' = NextSequence(documents, call[t].agency)
    BY <2>3 DEF NextSequence
  <2> QED
    BY <1>9, <2>4 DEF CreateInv, NumberStillFree
<1> QED
  BY <1>6, <1>8, <1>9

\* What changes no row's agency or number touches no numbering.
LEMMA SameRowsSameNumbering ==
    ASSUME CreateInv, documents' \in Tables, UNCHANGED call,
           \A t \in Submissions :
               /\ documents'[t] = None <=> documents[t] = None
               /\ documents'[t] # None => /\ documents'[t].agency = documents[t].agency
                                          /\ documents'[t].seq = documents[t].seq
    PROVE  /\ Dense' /\ NoNumberTwice'
           /\ \A t \in Submissions :
                 pc[t] = "insert" => seq[t] = NextSequence(documents, call[t].agency)'
<1>1. /\ documents \in Tables /\ documents' \in Tables /\ call \in [Submissions -> Call]
      /\ Dense /\ NoNumberTwice /\ NumberStillFree
  BY DEF CreateInv, TypeOK, Tables
<1>2. \A t \in Submissions :
          /\ documents'[t] = None <=> documents[t] = None
          /\ documents'[t] # None => /\ documents'[t].agency = documents[t].agency
                                     /\ documents'[t].seq = documents[t].seq
  OBVIOUS
<1>3. ASSUME NEW c \in Agencies
      PROVE  SequencesOf(documents, c)' = SequencesOf(documents, c)
  <2>1. ASSUME NEW f \in Tables,
               \A t \in Submissions :
                   /\ f[t] = None <=> documents[t] = None
                   /\ f[t] # None => f[t].agency = documents[t].agency /\ f[t].seq = documents[t].seq
        PROVE  SequencesOf(f, c) = SequencesOf(documents, c)
    BY <1>1, <2>1, SequencesAfterUpdate
  <2> QED
    BY <1>1, <1>2, <2>1
<1>4. Dense'
  BY <1>1, <1>3 DEF Dense
<1>5. NoNumberTwice'
  BY <1>1, <1>2 DEF NoNumberTwice, Stored
<1>6. ASSUME NEW t \in Submissions, pc[t] = "insert"
      PROVE  seq[t] = NextSequence(documents, call[t].agency)'
  <2>1. call[t].agency \in Agencies
    BY <1>1 DEF Call
  <2>2. NextSequence(documents, call[t].agency)' = NextSequence(documents, call[t].agency)
    BY <1>3, <2>1 DEF NextSequence
  <2> QED
    BY <1>1, <1>6, <2>2 DEF NumberStillFree
<1> QED
  BY <1>4, <1>5, <1>6

\* A change of status is such a change.
LEMMA RequeueKeepsNumbering ==
    ASSUME CreateInv, TypeOK', UNCHANGED call,
           UNCHANGED documents \/ \E s \in Submissions : Requeues(s)
    PROVE  /\ Dense' /\ NoNumberTwice'
           /\ \A t \in Submissions :
                 pc[t] = "insert" => seq[t] = NextSequence(documents, call[t].agency)'
<1>1. documents \in Tables /\ documents' \in Tables
  BY DEF CreateInv, TypeOK, Tables
<1>2. \A t \in Submissions :
          /\ documents'[t] = None <=> documents[t] = None
          /\ documents'[t] # None => /\ documents'[t].agency = documents[t].agency
                                     /\ documents'[t].seq = documents[t].seq
  <2>1. ASSUME NEW s \in Submissions, Requeues(s), NEW t \in Submissions
        PROVE  /\ documents'[t] = None <=> documents[t] = None
               /\ documents'[t] # None => /\ documents'[t].agency = documents[t].agency
                                          /\ documents'[t].seq = documents[t].seq
    <3>1. CASE t # s
      BY <1>1, <2>1, <3>1 DEF Requeues, Tables
    <3>2. CASE t = s
      <4>1. documents'[s] = [documents[s] EXCEPT !.status = "QUEUED"] /\ documents[s] # None
        BY <1>1, <2>1 DEF Requeues, Tables
      <4>2. documents[s] \in Row
        BY <1>1, <4>1 DEF Tables
      <4>3. documents'[s] # None
        BY <4>1, <4>2, NoneIsNoRow DEF Row, Status
      <4> QED
        BY <3>2, <4>1, <4>2, <4>3 DEF Row
    <3> QED
      BY <3>1, <3>2
  <2> QED
    BY <2>1
<1> QED
  BY <1>1, <1>2, SameRowsSameNumbering

LEMMA CreateInvStep == CreateInv /\ [ApiNext]_vars => CreateInv'
<1> SUFFICES ASSUME CreateInv, [ApiNext]_vars PROVE CreateInv'
  OBVIOUS
<1>1. TypeOK' /\ LockDiscipline' /\ NotYetInserted' /\ JobIsOwn'
  BY TypesStep, LockStep, RowsStep
<1>2. (\A t \in Submissions : Moves(t)) /\ UNCHANGED call
  BY EverySubmissionMoves
<1>3. ASSUME NEW s \in Submissions, Inserts(s)
      PROVE  Dense' /\ NoNumberTwice' /\ NumberStillFree'
  <2>1. /\ Dense' /\ NoNumberTwice'
        /\ \A t \in Submissions \ {s} :
              pc[t] = "insert" => seq[t] = NextSequence(documents, call[t].agency)'
    BY <1>1, <1>2, <1>3, InsertKeepsNumbering
  <2>2. documents' # documents
    <3>1. documents[s] = None /\ documents \in Tables
      BY <1>3 DEF Inserts, CreateInv, TypeOK, Tables, NotYetInserted, BeforeCommit
    <3>2. documents'[s] # None
      BY <1>3, <3>1, NoneIsNoRow, <1>1, <1>2, NextIsPositive
         DEF Inserts, Tables, NewRow, Row, Status, CreateInv, TypeOK, NumberStillFree, Call
    <3> QED
      BY <3>1, <3>2
  <2>3. NumberStillFree'
    <3> SUFFICES ASSUME NEW t \in Submissions, pc'[t] = "insert"
                 PROVE  seq'[t] = NextSequence(documents, call[t].agency)'
      BY <1>2 DEF NumberStillFree
    <3>1. t # s /\ pc[t] = "insert" /\ seq'[t] = seq[t]
      BY <1>2, <1>3, <2>2 DEF Moves, Inserts, BeforeCommit
    <3> QED
      BY <2>1, <3>1
  <2> QED
    BY <2>1, <2>3
<1>4. ASSUME UNCHANGED documents \/ \E s \in Submissions : Requeues(s)
      PROVE  Dense' /\ NoNumberTwice' /\ NumberStillFree'
  <2>1. /\ Dense' /\ NoNumberTwice'
        /\ \A t \in Submissions :
              pc[t] = "insert" => seq[t] = NextSequence(documents, call[t].agency)'
    BY <1>1, <1>2, <1>4, RequeueKeepsNumbering
  <2>2. NumberStillFree'
    <3> SUFFICES ASSUME NEW t \in Submissions, pc'[t] = "insert"
                 PROVE  seq'[t] = NextSequence(documents, call[t].agency)'
      BY <1>2 DEF NumberStillFree
    <3>1. CASE pc[t] = "insert" /\ seq'[t] = seq[t]
      BY <2>1, <3>1
    <3>2. CASE UNCHANGED documents /\ seq'[t] = NextSequence(documents, call[t].agency)
      <4>1. NextSequence(documents, call[t].agency)' = NextSequence(documents, call[t].agency)
        BY <1>2, <3>2 DEF NextSequence, SequencesOf, Stored
      <4> QED
        BY <3>2, <4>1
    <3> QED
      BY <1>2, <3>1, <3>2 DEF Moves
  <2> QED
    BY <2>1, <2>2
<1> QED
  BY <1>1, <1>3, <1>4, TableSteps DEF CreateInv

LEMMA CreateInvHolds == Spec => []CreateInv
BY CreateInvInit, CreateInvStep, PTL DEF Spec

\* Types, for any mix of submissions, crashes and failures.
THEOREM TypesHold == Spec => []TypeOK
<1>1. CreateInv => TypeOK
  BY DEF CreateInv
<1> QED
  BY CreateInvHolds, <1>1, PTL

\* The advisory lock protects an agency exactly while a transaction numbers a row of
\* it: no path out of the transaction leaves the lock behind or loses it early.
THEOREM LockDisciplineHolds == Spec => []LockDiscipline
<1>1. CreateInv => LockDiscipline
  BY DEF CreateInv
<1> QED
  BY CreateInvHolds, <1>1, PTL

\* No number that a transaction has computed is ever taken by another one.
THEOREM NumberStillFreeHolds == Spec => []NumberStillFree
<1>1. CreateInv => NumberStillFree
  BY DEF CreateInv
<1> QED
  BY CreateInvHolds, <1>1, PTL

LEMMA CreateInvIsDense == CreateInv => SequenceDense
<1> SUFFICES ASSUME CreateInv, NEW a \in Agencies
             PROVE  SequencesOf(documents, a) = 1 .. (NextSequence(documents, a) - 1)
  BY DEF SequenceDense, CreateInv, NoNumberTwice
<1>1. PICK n \in Nat : SequencesOf(documents, a) = 1 .. n
  BY DEF CreateInv, Dense
<1>2. NextSequence(documents, a) - 1 = n
  BY <1>1, NextOfDense
<1> QED
  BY <1>1, <1>2

\* Every agency's documents are numbered 1..n without gap or repetition, however many
\* processes number them and whatever rolls back, crashes or goes unacknowledged.
THEOREM SequenceDenseHolds == Spec => []SequenceDense
BY CreateInvHolds, CreateInvIsDense, PTL

-----------------------------------------------------------------------------
(* What is published, and what the clients are told *)

\* A request is served by a process that runs, so its mode cannot change under it.
RunsInMode ==
    \A s \in Submissions : pc[s] \in Active => mode[Proc(s)] # None

\* With a database only a real document id gets past the UPDATE of the metadata.
RecordedIsDocument ==
    \A s \in Submissions : pc[s] = "respond" /\ HasDb(s) => job[s] = Doc(s)

\* A row says what its submission asked for, and no two rows have one key.
RowsMatchCalls ==
    \A s \in Submissions : documents[s] # None =>
        documents[s].key = call[s].key /\ documents[s].agency = call[s].agency

NoKeyTwice ==
    \A s, t \in Stored(documents) : documents[s].key = documents[t].key => s = t

\* What a record that names a document must find in the table.
Committed(id, q) ==
    id.kind = "document" =>
        documents[id.of] # None /\ PartitionOf[documents[id.of].agency] = q

BufferedIsCommitted ==
    \A p \in Procs, q \in Partitions : \A i \in DOMAIN buffer[p][q] : Committed(buffer[p][q][i], q)

AcceptedIsOwn ==
    \A s \in Submissions :
        Answered(s, 202) /\ reply[s].job.kind = "document" =>
            reply[s].job = Doc(s) /\ documents[s] # None

ReplyInv ==
    /\ CreateInv
    /\ RunsInMode /\ RecordedIsDocument
    /\ RowsMatchCalls /\ NoKeyTwice
    /\ BufferedIsCommitted /\ PublishedIsCommitted
    /\ AcceptedIsOwn

LEMMA ReplyInvInit == Init => ReplyInv
<1> SUFFICES ASSUME Init PROVE ReplyInv
  OBVIOUS
<1>1. CreateInv
  BY CreateInvInit
<1>2. RunsInMode /\ RecordedIsDocument
  BY DEF Init, RunsInMode, RecordedIsDocument, Active
<1>3. RowsMatchCalls /\ NoKeyTwice
  BY DEF Init, RowsMatchCalls, NoKeyTwice, Stored
<1>4. BufferedIsCommitted /\ PublishedIsCommitted
  BY DEF Init, BufferedIsCommitted, PublishedIsCommitted
<1>5. AcceptedIsOwn
  BY DEF Init, AcceptedIsOwn, Answered
<1> QED
  BY <1>1, <1>2, <1>3, <1>4, <1>5 DEF ReplyInv

-----------------------------------------------------------------------------
(* The rows *)

\* Every row keeps its key and agency, and a new one takes them from its submission.
LEMMA RowsKept ==
    ASSUME CreateInv, [ApiNext]_vars
    PROVE  \A t \in Submissions :
               /\ documents[t] # None =>
                     /\ documents'[t] # None
                     /\ documents'[t].key = documents[t].key
                     /\ documents'[t].agency = documents[t].agency
               /\ documents[t] = None /\ documents'[t] # None =>
                     /\ Insertable(t)
                     /\ documents'[t].key = call[t].key
                     /\ documents'[t].agency = call[t].agency
               /\ documents[t] = None /\ documents'[t] # None =>
                     \A u \in Submissions \ {t} : documents'[u] = documents[u]
<1>0. documents \in Tables /\ documents' \in Tables /\ NotYetInserted
  BY TypesStep DEF CreateInv, TypeOK, Tables
<1>1. ASSUME NEW s \in Submissions, Inserts(s)
      PROVE  /\ documents[s] = None /\ documents'[s] = NewRow(s) /\ Insertable(s)
             /\ \A u \in Submissions \ {s} : documents'[u] = documents[u]
  BY <1>0, <1>1 DEF Inserts, Tables, NotYetInserted, BeforeCommit
<1>2. ASSUME NEW s \in Submissions, Requeues(s)
      PROVE  /\ documents[s] # None /\ documents'[s] # None
             /\ documents'[s].key = documents[s].key /\ documents'[s].agency = documents[s].agency
             /\ \A u \in Submissions \ {s} : documents'[u] = documents[u]
  <2>1. documents'[s] = [documents[s] EXCEPT !.status = "QUEUED"] /\ documents[s] \in Row
    BY <1>0, <1>2 DEF Requeues, Tables
  <2>2. documents'[s] \in Row
    BY <2>1 DEF Row, Status
  <2> QED
    BY <1>0, <1>2, <2>1, <2>2, NoneIsNoRow DEF Requeues, Tables, Row
<1>3. CASE UNCHANGED documents
  BY <1>3
<1>4. ASSUME NEW s \in Submissions, Inserts(s), NEW t \in Submissions
      PROVE  /\ documents[t] # None => documents'[t] = documents[t]
             /\ documents[t] = None /\ documents'[t] # None =>
                   t = s /\ documents'[t] = NewRow(t) /\ Insertable(t)
  BY <1>1, <1>4
<1>5. ASSUME NEW s \in Submissions, Inserts(s)
      PROVE  NewRow(s).key = call[s].key /\ NewRow(s).agency = call[s].agency
  BY DEF NewRow
<1> QED
  BY <1>1, <1>2, <1>3, <1>4, <1>5, TableSteps

LEMMA RowsStayDistinct ==
    ASSUME ReplyInv, [ApiNext]_vars
    PROVE  RowsMatchCalls' /\ NoKeyTwice'
<1>1. CreateInv /\ RowsMatchCalls /\ NoKeyTwice
  BY DEF ReplyInv
<1>2. UNCHANGED call
  BY <1>1, EverySubmissionMoves
<1>3. RowsMatchCalls'
  BY <1>1, <1>2, RowsKept DEF RowsMatchCalls
<1>4. NoKeyTwice'
  <2> SUFFICES ASSUME NEW s \in Submissions, NEW t \in Submissions,
                      documents'[s] # None, documents'[t] # None,
                      documents'[s].key = documents'[t].key, s # t
               PROVE  FALSE
    BY DEF NoKeyTwice, Stored
  <2>1. documents'[s].key = call[s].key /\ documents'[t].key = call[t].key
    BY <1>2, <1>3 DEF RowsMatchCalls
  <2>2. CASE documents[s] # None /\ documents[t] # None
    BY <1>1, <2>2, RowsKept DEF NoKeyTwice, Stored
  <2>3. CASE documents[s] = None
    <3>1. Insertable(s) /\ documents'[t] = documents[t]
      BY <1>1, <2>3, RowsKept
    <3> QED
      BY <2>1, <3>1 DEF Insertable, Conflicts, Stored
  <2>4. CASE documents[t] = None
    <3>1. Insertable(t) /\ documents'[s] = documents[s]
      BY <1>1, <2>4, RowsKept
    <3> QED
      BY <2>1, <3>1 DEF Insertable, Conflicts, Stored
  <2> QED
    BY <2>2, <2>3, <2>4
<1> QED
  BY <1>3, <1>4

-----------------------------------------------------------------------------
(* The topic *)

\* A record once written stays.
LEMMA LogGrows ==
    ASSUME TypeOK, [ApiNext]_vars, NEW q \in Partitions
    PROVE  /\ Len(log[q]) <= Len(log'[q])
           /\ \A i \in DOMAIN log[q] : i \in DOMAIN log'[q] /\ log'[q][i] = log[q][i]
<1> USE DEF apiVars
<1>1. ASSUME NEW p \in Procs, NEW r \in Partitions, Flush(p, r) \/ FlushAgain(p, r)
      PROVE  /\ Len(log[q]) <= Len(log'[q])
             /\ \A i \in DOMAIN log[q] : i \in DOMAIN log'[q] /\ log'[q][i] = log[q][i]
  <2>1. /\ log[q] \in Seq(Jobs) /\ Head(buffer[p][r]) \in Jobs
        /\ log' = [log EXCEPT ![r] = Append(@, Head(buffer[p][r]))]
    BY <1>1 DEF Flush, FlushAgain, TypeOK
  <2>2. log'[q] = log[q] \/ log'[q] = Append(log[q], Head(buffer[p][r]))
    BY <2>1 DEF TypeOK
  <2> QED
    BY <2>1, <2>2
<1>2. CASE UNCHANGED log
  <2>1. log[q] \in Seq(Jobs)
    BY DEF TypeOK
  <2> QED
    BY <1>2, <2>1
<1>3. \/ UNCHANGED log
      \/ \E p \in Procs, r \in Partitions : Flush(p, r) \/ FlushAgain(p, r)
  BY DEF ApiNext, Start, Stop, Crash, TurnAway, Admit, Handle, CreateOrGet, FindExisting, FindNone,
         TakeLock, Number, Insert, InsertConflicts, CommitUnacknowledged, TransactionFails,
         SendAuditEvent, Publish, PublishNowhere, PublishFails, Conclude, Record,
         RecordRejectsLocal, RecordSkipped, RecordFails, Respond, Producer, Expire, vars
<1> QED
  BY <1>1, <1>2, <1>3

\* What was committed stays so.
LEMMA CommittedStays ==
    ASSUME CreateInv, [ApiNext]_vars, NEW id \in Jobs, NEW q \in Partitions, Committed(id, q)
    PROVE  Committed(id, q)'
BY RowsKept DEF Committed, Jobs

\* Where the contents of the buffers and of the topic come from.
LEMMA BufferSteps ==
    ASSUME CreateInv, [ApiNext]_vars, NEW p \in Procs, NEW q \in Partitions,
           NEW i \in DOMAIN buffer'[p][q]
    PROVE  \/ \E j \in DOMAIN buffer[p][q] : buffer'[p][q][i] = buffer[p][q][j]
           \/ \E s \in Submissions :
                 pc[s] = "publish" /\ q = PartitionFor(s) /\ buffer'[p][q][i] = job[s]
<1> USE DEF apiVars
<1>0. TypeOK /\ TypeOK' /\ buffer[p][q] \in Seq(Jobs)
  BY TypesStep DEF CreateInv, TypeOK
<1>1. ASSUME NEW s \in Submissions, Publish(s)
      PROVE  \/ \E j \in DOMAIN buffer[p][q] : buffer'[p][q][i] = buffer[p][q][j]
             \/ \E t \in Submissions :
                   pc[t] = "publish" /\ q = PartitionFor(t) /\ buffer'[p][q][i] = job[t]
  <2>1. /\ job[s] \in Jobs /\ Proc(s) \in Procs /\ PartitionFor(s) \in Partitions
    BY <1>0, <1>1, JobsOf, PartitionOfIsTotal
       DEF Publish, CreateInv, JobIsOwn, AfterCommit, TypeOK, Call, Proc, PartitionFor
  <2>2. \/ buffer'[p][q] = buffer[p][q]
        \/ q = PartitionFor(s) /\ buffer'[p][q] = Append(buffer[p][q], job[s])
    BY <1>0, <1>1, <2>1 DEF Publish, TypeOK
  <2>3. CASE buffer'[p][q] = buffer[p][q]
    BY <2>3
  <2>4. CASE q = PartitionFor(s) /\ buffer'[p][q] = Append(buffer[p][q], job[s])
    <3>1. CASE i \in DOMAIN buffer[p][q]
      BY <1>0, <2>1, <2>4, <3>1
    <3>2. CASE i \notin DOMAIN buffer[p][q]
      <4>1. i = Len(buffer[p][q]) + 1
        BY <1>0, <2>1, <2>4, <3>2
      <4> QED
        BY <1>0, <1>1, <2>1, <2>4, <4>1 DEF Publish
    <3> QED
      BY <3>1, <3>2
  <2> QED
    BY <2>2, <2>3, <2>4
<1>2. ASSUME NEW x \in Procs, NEW r \in Partitions, Flush(x, r) \/ Expire(x, r)
      PROVE  \E j \in DOMAIN buffer[p][q] : buffer'[p][q][i] = buffer[p][q][j]
  <2>1. \/ buffer'[p][q] = buffer[p][q]
        \/ buffer[p][q] # <<>> /\ buffer'[p][q] = Tail(buffer[p][q])
    <3>1. buffer' = [buffer EXCEPT ![x][r] = Tail(@)] /\ buffer[x][r] # <<>>
      BY <1>2 DEF Flush, Expire
    <3>2. CASE x = p /\ r = q
      BY <1>0, <3>1, <3>2 DEF TypeOK
    <3>3. CASE x # p \/ r # q
      BY <1>0, <3>1, <3>3 DEF TypeOK
    <3> QED
      BY <3>2, <3>3
  <2>2. CASE buffer[p][q] # <<>> /\ buffer'[p][q] = Tail(buffer[p][q])
    <3>1. i + 1 \in DOMAIN buffer[p][q] /\ buffer'[p][q][i] = buffer[p][q][i + 1]
      BY <1>0, <2>2
    <3> QED
      BY <3>1
  <2> QED
    BY <2>1, <2>2
<1>3. ASSUME NEW x \in Procs, Crash(x)
      PROVE  \E j \in DOMAIN buffer[p][q] : buffer'[p][q][i] = buffer[p][q][j]
  <2>1. buffer'[p][q] = buffer[p][q] \/ buffer'[p][q] = <<>>
    BY <1>0, <1>3 DEF Crash, TypeOK
  <2> QED
    BY <2>1
<1>4. CASE UNCHANGED buffer
  BY <1>4
<1>5. \/ UNCHANGED buffer
      \/ \E s \in Submissions : Publish(s)
      \/ \E x \in Procs, r \in Partitions : Flush(x, r) \/ Expire(x, r)
      \/ \E x \in Procs : Crash(x)
  BY DEF ApiNext, Start, Stop, TurnAway, Admit, Handle, CreateOrGet, FindExisting, FindNone,
         TakeLock, Number, Insert, InsertConflicts, CommitUnacknowledged, TransactionFails,
         SendAuditEvent, PublishNowhere, PublishFails, Conclude, Record,
         RecordRejectsLocal, RecordSkipped, RecordFails, Respond, Producer, FlushAgain, vars
<1> QED
  BY <1>1, <1>2, <1>3, <1>4, <1>5

LEMMA LogSteps ==
    ASSUME TypeOK, [ApiNext]_vars, NEW q \in Partitions, NEW i \in DOMAIN log'[q]
    PROVE  \/ i \in DOMAIN log[q] /\ log'[q][i] = log[q][i]
           \/ \E p \in Procs : \E j \in DOMAIN buffer[p][q] : log'[q][i] = buffer[p][q][j]
<1> USE DEF apiVars
<1>1. ASSUME NEW p \in Procs, NEW r \in Partitions, Flush(p, r) \/ FlushAgain(p, r)
      PROVE  \/ i \in DOMAIN log[q] /\ log'[q][i] = log[q][i]
             \/ \E x \in Procs : \E j \in DOMAIN buffer[x][q] : log'[q][i] = buffer[x][q][j]
  <2>1. /\ log[q] \in Seq(Jobs) /\ buffer[p][r] \in Seq(Jobs) /\ buffer[p][r] # <<>>
        /\ log' = [log EXCEPT ![r] = Append(@, Head(buffer[p][r]))]
    BY <1>1 DEF Flush, FlushAgain, TypeOK
  <2>2. Head(buffer[p][r]) = buffer[p][r][1] /\ 1 \in DOMAIN buffer[p][r]
            /\ Head(buffer[p][r]) \in Jobs
    BY <2>1
  <2>3. CASE r = q
    <3>1. log'[q] = Append(log[q], Head(buffer[p][r]))
      BY <2>1, <2>3 DEF TypeOK
    <3>2. CASE i = Len(log[q]) + 1
      BY <2>1, <2>2, <2>3, <3>1, <3>2
    <3>3. CASE i # Len(log[q]) + 1
      BY <2>1, <2>2, <3>1, <3>3
    <3> QED
      BY <3>2, <3>3
  <2>4. CASE r # q
    BY <2>1, <2>4 DEF TypeOK
  <2> QED
    BY <2>3, <2>4
<1>2. CASE UNCHANGED log
  BY <1>2
<1>3. \/ UNCHANGED log
      \/ \E p \in Procs, r \in Partitions : Flush(p, r) \/ FlushAgain(p, r)
  BY DEF ApiNext, Start, Stop, Crash, TurnAway, Admit, Handle, CreateOrGet, FindExisting, FindNone,
         TakeLock, Number, Insert, InsertConflicts, CommitUnacknowledged, TransactionFails,
         SendAuditEvent, Publish, PublishNowhere, PublishFails, Conclude, Record,
         RecordRejectsLocal, RecordSkipped, RecordFails, Respond, Producer, Expire, vars
<1> QED
  BY <1>1, <1>2, <1>3

LEMMA PublicationStep ==
    ASSUME ReplyInv, [ApiNext]_vars
    PROVE  BufferedIsCommitted' /\ PublishedIsCommitted'
<1>1. /\ CreateInv /\ TypeOK /\ TypeOK' /\ JobIsOwn
      /\ RowsMatchCalls /\ BufferedIsCommitted /\ PublishedIsCommitted
  BY TypesStep DEF ReplyInv, CreateInv
<1>2. ASSUME NEW s \in Submissions, pc[s] = "publish"
      PROVE  job[s] \in Jobs /\ Committed(job[s], PartitionFor(s))
  <2>1. (job[s] = Doc(s) /\ documents[s] # None) \/ job[s] = Local(s)
    BY <1>1, <1>2 DEF JobIsOwn, AfterCommit
  <2>2. /\ Doc(s).kind = "document" /\ Doc(s).of = s /\ Local(s).kind = "local"
    BY DEF Doc, Local
  <2> QED
    BY <1>1, <2>1, <2>2, JobsOf DEF Committed, RowsMatchCalls, PartitionFor
<1>3. ASSUME NEW p \in Procs, NEW q \in Partitions, NEW i \in DOMAIN buffer[p][q]
      PROVE  buffer[p][q][i] \in Jobs /\ Committed(buffer[p][q][i], q)
  BY <1>1 DEF TypeOK, BufferedIsCommitted
<1>4. ASSUME NEW q \in Partitions, NEW i \in DOMAIN log[q]
      PROVE  log[q][i] \in Jobs /\ Committed(log[q][i], q)
  BY <1>1 DEF TypeOK, PublishedIsCommitted, Committed
<1>5. BufferedIsCommitted'
  <2> SUFFICES ASSUME NEW p \in Procs, NEW q \in Partitions, NEW i \in DOMAIN buffer'[p][q]
               PROVE  Committed(buffer[p][q][i], q)'
    BY DEF BufferedIsCommitted
  <2>1. \E id \in Jobs : id = buffer'[p][q][i] /\ Committed(id, q)
    BY <1>1, <1>2, <1>3, BufferSteps
  <2>2. PICK id \in Jobs : id = buffer'[p][q][i] /\ Committed(id, q)
    BY <2>1
  <2>3. Committed(id, q)'
    BY <1>1, <2>2, CommittedStays
  <2> QED
    BY <2>2, <2>3 DEF Committed
<1>6. PublishedIsCommitted'
  <2> SUFFICES ASSUME NEW q \in Partitions, NEW i \in DOMAIN log'[q]
               PROVE  Committed(log[q][i], q)'
    BY DEF PublishedIsCommitted, Committed
  <2>1. \E id \in Jobs : id = log'[q][i] /\ Committed(id, q)
    BY <1>1, <1>3, <1>4, LogSteps
  <2>2. PICK id \in Jobs : id = log'[q][i] /\ Committed(id, q)
    BY <2>1
  <2>3. Committed(id, q)'
    BY <1>1, <2>2, CommittedStays
  <2> QED
    BY <2>2, <2>3 DEF Committed
<1> QED
  BY <1>5, <1>6

-----------------------------------------------------------------------------
(* The process behind a request *)

\* How the mode of a process and the position of its requests may change together.
LEMMA ModesKept ==
    ASSUME ReplyInv, [ApiNext]_vars, NEW t \in Submissions, pc'[t] \in Active
    PROVE  /\ mode'[Proc(t)'] = mode[Proc(t)] /\ mode[Proc(t)] # None
           /\ Proc(t)' = Proc(t) /\ PartitionFor(t)' = PartitionFor(t)
           /\ pc[t] \in Active \/ pc[t] = "idle"
<1> USE DEF apiVars
<1>0. TypeOK /\ RunsInMode /\ UNCHANGED call
  BY EverySubmissionMoves DEF ReplyInv, CreateInv
<1>1. Proc(t)' = Proc(t) /\ PartitionFor(t)' = PartitionFor(t) /\ Proc(t) \in Procs
  BY <1>0 DEF Proc, PartitionFor, TypeOK, Call
<1>2. ASSUME NEW p \in Procs, Start(p) \/ Stop(p)
      PROVE  mode'[Proc(t)] = mode[Proc(t)] /\ pc[t] \in Active
  BY <1>0, <1>1, <1>2 DEF Start, Stop, On, InFlight, RunsInMode, TypeOK, Proc
<1>3. ASSUME NEW p \in Procs, Crash(p)
      PROVE  mode'[Proc(t)] = mode[Proc(t)] /\ pc[t] \in Active
  <2>1. pc'[t] = IF t \in On(p) THEN "lost" ELSE pc[t]
    BY <1>3 DEF Crash
  <2>2. t \notin On(p) /\ pc[t] \in Active
    BY <2>1 DEF Active
  <2>3. Proc(t) # p
    BY <2>2 DEF On, InFlight, Proc
  <2> QED
    BY <1>0, <1>1, <1>3, <2>2, <2>3 DEF Crash, TypeOK
<1>4. ASSUME NEW s \in Submissions, Handle(s) \/ TurnAway(s) \/ Admit(s)
      PROVE  UNCHANGED mode /\ mode[Proc(t)] # None /\ (pc[t] \in Active \/ pc[t] = "idle")
  <2>1. UNCHANGED mode
    BY <1>4 DEF Handle, CreateOrGet, SendAuditEvent, Conclude, TurnAway, Admit, FindExisting,
                FindNone, TakeLock, Number, Insert, InsertConflicts, CommitUnacknowledged,
                TransactionFails, Publish, PublishNowhere, PublishFails, Record,
                RecordRejectsLocal, RecordSkipped, RecordFails, Respond
  <2>2. CASE pc[t] \in Active
    BY <1>0, <2>1, <2>2 DEF RunsInMode
  <2>3. CASE pc[t] \notin Active
    <3>1. t = s /\ (TurnAway(s) \/ Admit(s))
      BY <1>0, <1>4, <2>3
         DEF Handle, CreateOrGet, SendAuditEvent, Conclude, TurnAway, Admit, FindExisting,
             FindNone, TakeLock, Number, Insert, InsertConflicts, CommitUnacknowledged,
             TransactionFails, AtDatabase, Publish, PublishNowhere, PublishFails,
             Record, RecordRejectsLocal, RecordSkipped, RecordFails, Respond, Fallback, Fails,
             Finish, Goto, Active, TypeOK
    <3> QED
      BY <2>1, <3>1 DEF TurnAway, Admit
  <2> QED
    BY <2>1, <2>2, <2>3
<1>5. CASE UNCHANGED <<mode, pc>>
  BY <1>0, <1>1, <1>5 DEF RunsInMode
<1>6. ((\E p \in Procs, q \in Partitions : Producer(p, q)) \/ UNCHANGED vars) => UNCHANGED <<mode, pc>>
  BY DEF Producer, Flush, FlushAgain, Expire, vars
<1> QED
  BY <1>0, <1>1, <1>2, <1>3, <1>4, <1>5, <1>6 DEF ApiNext, RunsInMode

\* The only ways past the UPDATE and to a reply.
Arrivals(t) ==
    /\ pc'[t] = "respond" =>
          \/ pc[t] = "respond"
          \/ pc[t] = "record" /\ (~HasDb(t) \/ job[t].kind = "document")
    /\ \/ reply'[t] = reply[t]
       \/ reply'[t].code # 202
       \/ pc[t] = "respond" /\ reply'[t] = [code |-> 202, job |-> job[t]]

LEMMA EverySubmissionArrives ==
    ASSUME TypeOK, [ApiNext]_vars, NEW t \in Submissions
    PROVE  Arrivals(t)
<1> USE DEF apiVars, AfterCommit
<1>1. CASE UNCHANGED <<pc, reply>>
  BY <1>1 DEF Arrivals
<1>2. ASSUME NEW p \in Procs, Crash(p)
      PROVE  Arrivals(t)
  BY <1>2 DEF Crash, Arrivals
<1>3. ASSUME NEW s \in Submissions, Fallback(s)
      PROVE  Arrivals(t)
  <2>1. \/ \E id : Finish(s, 200, id)
        \/ Goto(s, "publish") /\ UNCHANGED reply
    BY <1>3 DEF Fallback
  <2> QED
    BY <2>1 DEF Finish, Goto, Arrivals, TypeOK
<1>4. ASSUME NEW s \in Submissions, Admit(s) \/ TurnAway(s) \/ CreateOrGet(s)
      PROVE  Arrivals(t)
  <2>1. \/ Fallback(s)
        \/ \E code \in {200, 413, 429} : \E id : Finish(s, code, id)
        \/ \E label \in {"select", "lock", "number", "insert", "publish"} : Goto(s, label) /\ UNCHANGED reply
    BY <1>4 DEF Admit, TurnAway, CreateOrGet, FindExisting, FindNone, TakeLock, Number, Insert,
                InsertConflicts, CommitUnacknowledged, TransactionFails
  <2> QED
    BY <2>1, <1>3 DEF Finish, Goto, Arrivals, TypeOK
<1>5. ASSUME NEW s \in Submissions, SendAuditEvent(s)
      PROVE  Arrivals(t)
  BY <1>5 DEF SendAuditEvent, Publish, PublishNowhere, PublishFails, Fails, Finish,
              Goto, Arrivals, TypeOK
<1>6. ASSUME NEW s \in Submissions, Conclude(s)
      PROVE  Arrivals(t)
  BY <1>6 DEF Conclude, Record, RecordRejectsLocal, RecordSkipped, RecordFails, Respond, Fails,
              Finish, Goto, Arrivals, TypeOK
<1>7. ((\E p \in Procs : Start(p) \/ Stop(p)) \/ (\E p \in Procs, q \in Partitions : Producer(p, q))
          \/ UNCHANGED vars) => UNCHANGED <<pc, reply>>
  BY DEF Start, Stop, Producer, Flush, FlushAgain, Expire, vars
<1> QED
  BY <1>1, <1>2, <1>4, <1>5, <1>6, <1>7 DEF ApiNext, Handle

LEMMA ReplyInvStep == ReplyInv /\ [ApiNext]_vars => ReplyInv'
<1> SUFFICES ASSUME ReplyInv, [ApiNext]_vars PROVE ReplyInv'
  OBVIOUS
<1>0. /\ CreateInv /\ TypeOK /\ TypeOK' /\ JobIsOwn
      /\ RunsInMode /\ RecordedIsDocument /\ AcceptedIsOwn
  BY TypesStep DEF ReplyInv, CreateInv
<1>1. CreateInv'
  BY <1>0, CreateInvStep
<1>2. RunsInMode'
  BY ModesKept DEF RunsInMode
<1>3. \A t \in Submissions : Moves(t) /\ Arrivals(t)
  BY <1>0, EverySubmissionMoves, EverySubmissionArrives
<1>4. RecordedIsDocument'
  <2> SUFFICES ASSUME NEW t \in Submissions, pc'[t] = "respond", HasDb(t)'
               PROVE  job'[t] = Doc(t)
    BY DEF RecordedIsDocument
  <2>1. HasDb(t)
    BY ModesKept DEF HasDb, Active
  <2>2. \/ pc[t] = "respond"
        \/ pc[t] = "record" /\ job[t].kind = "document"
    BY <1>3, <2>1 DEF Arrivals
  <2>3. job'[t] = job[t]
    BY <1>3, <2>2 DEF Moves, AfterCommit, BeforeCommit
  <2>4. Local(t).kind # "document"
    BY DEF Local
  <2> QED
    BY <1>0, <2>1, <2>2, <2>3, <2>4 DEF RecordedIsDocument, JobIsOwn, AfterCommit
<1>5. AcceptedIsOwn'
  <2> SUFFICES ASSUME NEW t \in Submissions, Answered(t, 202)', reply'[t].job.kind = "document"
               PROVE  reply'[t].job = Doc(t) /\ documents'[t] # None
    BY DEF AcceptedIsOwn
  <2>1. documents[t] # None => documents'[t] # None
    BY <1>0, RowsKept
  <2>2. CASE reply'[t] = reply[t]
    BY <1>0, <2>1, <2>2 DEF AcceptedIsOwn, Answered
  <2>3. CASE pc[t] = "respond" /\ reply'[t] = [code |-> 202, job |-> job[t]]
    <3>1. (job[t] = Doc(t) /\ documents[t] # None) \/ job[t] = Local(t)
      BY <1>0, <2>3 DEF JobIsOwn, AfterCommit
    <3>2. Local(t).kind # "document"
      BY DEF Local
    <3> QED
      BY <2>1, <2>3, <3>1, <3>2
  <2> QED
    BY <1>3, <2>2, <2>3 DEF Arrivals, Answered
<1> QED
  BY <1>1, <1>2, <1>4, <1>5, RowsStayDistinct, PublicationStep DEF ReplyInv

LEMMA ReplyInvHolds == Spec => []ReplyInv
BY ReplyInvInit, ReplyInvStep, PTL DEF Spec

\* A record that names a document is in the topic only after the row is in the table,
\* in the partition of the row's agency, whatever crashed or was retried.
THEOREM PublishedIsCommittedHolds == Spec => []PublishedIsCommitted
<1>1. ReplyInv => PublishedIsCommitted
  BY DEF ReplyInv
<1> QED
  BY ReplyInvHolds, <1>1, PTL

LEMMA AcceptedOnce == ReplyInv => AcceptedOncePerKey
<1> SUFFICES ASSUME ReplyInv, NEW s \in Submissions, NEW t \in Submissions,
                    Answered(s, 202), Answered(t, 202), call[s].key = call[t].key,
                    reply[s].job.kind = "document", reply[t].job.kind = "document"
             PROVE  s = t
  BY DEF AcceptedOncePerKey
<1>1. documents[s] # None /\ documents[t] # None
  BY DEF ReplyInv, AcceptedIsOwn
<1>2. documents[s].key = documents[t].key
  BY <1>1 DEF ReplyInv, RowsMatchCalls
<1> QED
  BY <1>1, <1>2 DEF ReplyInv, NoKeyTwice, Stored

\* One ACCEPTED document per idempotency key, for any number of racing or retried
\* submissions.
THEOREM AcceptedOncePerKeyHolds == Spec => []AcceptedOncePerKey
BY ReplyInvHolds, AcceptedOnce, PTL

\* A process with a database answers ACCEPTED only with the id of the row that this
\* very submission has inserted.
THEOREM AcceptedNamesARowHolds == Spec => AcceptedNamesARow
<1>1. ASSUME ReplyInv, [ApiNext]_vars, NEW s \in Submissions, Accepts(s), HasDb(s)
      PROVE  reply'[s].job = Doc(s) /\ documents[s] # None
  <2>1. Arrivals(s)
    BY <1>1, EverySubmissionArrives DEF ReplyInv, CreateInv
  <2>2. reply'[s].job = job[s] /\ job[s] = Doc(s)
    BY <1>1, <2>1 DEF Arrivals, Accepts, ReplyInv, RecordedIsDocument
  <2>3. Doc(s) # Local(s)
    BY DEF Doc, Local
  <2> QED
    BY <1>1, <2>2, <2>3 DEF Accepts, ReplyInv, CreateInv, JobIsOwn, AfterCommit
<1>2. ReplyInv /\ [ApiNext]_vars =>
          [\A s \in Submissions :
              Accepts(s) /\ HasDb(s) => reply'[s].job = Doc(s) /\ documents[s] # None]_vars
  BY <1>1
<1> QED
  BY ReplyInvHolds, <1>2, PTL DEF Spec, AcceptedNamesARow

-----------------------------------------------------------------------------
(* One document for each key *)

\* A reply names a document only after its row is there, and only of the key it asked for.
Named(s, id) ==
    id # None /\ id.kind = "document" =>
        documents[id.of] # None /\ call[id.of].key = call[s].key

RepliesNameRows == \A s \in Submissions : reply[s] # None => Named(s, reply[s].job)

\* What a step may reply: nothing, a made-up id, the holder of the key, or the own row.
Replies(t) ==
    \/ reply'[t] = reply[t]
    \/ reply'[t].job = None
    \/ reply'[t].job.kind = "local"
    \/ \E d \in HoldersOf(documents, call[t].key) : reply'[t].job = Doc(d)
    \/ pc[t] = "respond" /\ reply'[t].job = job[t]

LEMMA EveryReply ==
    ASSUME TypeOK, [ApiNext]_vars, NEW t \in Submissions
    PROVE  Replies(t)
<1> USE DEF apiVars
<1>1. CASE UNCHANGED reply
  BY <1>1 DEF Replies
<1>2. ASSUME NEW s \in Submissions, Fallback(s)
      PROVE  Replies(t)
  <2>1. \/ UNCHANGED reply
        \/ \E d : reply' = [reply EXCEPT ![s] = [code |-> 200, job |-> Local(d)]]
    BY <1>2 DEF Fallback, Finish
  <2> QED
    BY <2>1 DEF Local, Replies, TypeOK
<1>3. ASSUME NEW s \in Submissions, NEW code, Finish(s, code, None)
      PROVE  Replies(t)
  BY <1>3 DEF Finish, Replies, TypeOK
<1>4. ASSUME NEW s \in Submissions, FindExisting(s)
      PROVE  Replies(t)
  BY <1>4 DEF FindExisting, Finish, Replies, TypeOK
<1>5. ASSUME NEW s \in Submissions, Respond(s)
      PROVE  Replies(t)
  BY <1>5 DEF Respond, Finish, Replies, TypeOK
<1>6. \/ UNCHANGED reply
      \/ \E s \in Submissions :
            \/ Fallback(s) \/ FindExisting(s) \/ Respond(s)
            \/ \E code : Finish(s, code, None)
  BY DEF ApiNext, Start, Stop, Crash, TurnAway, Admit, Handle, CreateOrGet, FindNone, TakeLock,
         Number, Insert, InsertConflicts, CommitUnacknowledged, TransactionFails, SendAuditEvent,
         Publish, PublishNowhere, PublishFails, Conclude, Record, RecordRejectsLocal,
         RecordSkipped, RecordFails, Fails, Producer, Flush, FlushAgain, Expire, vars
<1> QED
  BY <1>1, <1>2, <1>3, <1>4, <1>5, <1>6

LEMMA RepliesNameRowsStep ==
    ASSUME ReplyInv, RepliesNameRows, [ApiNext]_vars
    PROVE  RepliesNameRows'
<1> SUFFICES ASSUME NEW t \in Submissions, reply'[t] # None, NEW id, id = reply'[t].job
             PROVE  Named(t, id)'
  BY DEF RepliesNameRows, Named
<1>0. TypeOK /\ CreateInv /\ JobIsOwn /\ UNCHANGED call
  BY EverySubmissionMoves DEF ReplyInv, CreateInv
<1>1. \A d \in Submissions : documents[d] # None => documents'[d] # None
  BY <1>0, RowsKept
<1>2. CASE reply'[t] = reply[t]
  <2>1. Named(t, id) /\ (id # None => id \in Jobs)
    BY <1>0, <1>2 DEF RepliesNameRows, TypeOK, Reply
  <2> QED
    BY <1>0, <1>1, <2>1 DEF Named, Jobs
<1>3. CASE id = None \/ id.kind = "local"
  BY <1>3 DEF Named
<1>4. ASSUME NEW d \in HoldersOf(documents, call[t].key), id = Doc(d)
      PROVE  Named(t, id)'
  <2>1. d \in Submissions /\ documents[d] # None /\ documents[d].key = call[t].key
    BY DEF HoldersOf, Stored
  <2>2. call[d].key = call[t].key
    BY <2>1 DEF ReplyInv, RowsMatchCalls
  <2> QED
    BY <1>0, <1>1, <1>4, <2>1, <2>2 DEF Named, Doc
<1>5. CASE pc[t] = "respond" /\ id = job[t]
  <2>1. (job[t] = Doc(t) /\ documents[t] # None) \/ job[t] = Local(t)
    BY <1>0, <1>5 DEF JobIsOwn, AfterCommit
  <2> QED
    BY <1>0, <1>1, <1>5, <2>1 DEF Named, Doc, Local
<1> QED
  BY <1>0, <1>2, <1>3, <1>4, <1>5, EveryReply DEF Replies

LEMMA OneNamed == ReplyInv /\ RepliesNameRows => OneDocumentPerKey
<1> SUFFICES ASSUME ReplyInv, RepliesNameRows, NEW k \in Keys,
                    NEW d \in NamedFor(k), NEW e \in NamedFor(k)
             PROVE  d = e
  BY DEF OneDocumentPerKey
<1>1. ASSUME NEW c \in NamedFor(k)
      PROVE  c \in Submissions /\ documents[c] # None /\ documents[c].key = k
  <2>1. c \in Submissions /\ documents[c] # None /\ call[c].key = k
    <3>1. CASE c \in Submissions /\ call[c].key = k /\ \E q \in Partitions : InLog(Doc(c), q)
      <4>1. PICK q \in Partitions : \E i \in DOMAIN log[q] : log[q][i] = Doc(c)
        BY <3>1 DEF InLog
      <4>2. Doc(c).kind = "document" /\ Doc(c).of = c
        BY DEF Doc
      <4> QED
        BY <3>1, <4>1, <4>2 DEF ReplyInv, PublishedIsCommitted
    <3>2. ASSUME NEW s \in Submissions, c \in Submissions, call[s].key = k,
                 reply[s] # None, reply[s].job = Doc(c)
          PROVE  documents[c] # None /\ call[c].key = k
      <4>1. Doc(c) # None /\ Doc(c).kind = "document" /\ Doc(c).of = c
        BY <3>2, NoneIsNoJob, JobsOf DEF Doc
      <4> QED
        BY <3>2, <4>1 DEF RepliesNameRows, Named
    <3> QED
      BY <1>1, <3>1, <3>2 DEF NamedFor
  <2> QED
    BY <2>1 DEF ReplyInv, RowsMatchCalls
<1> QED
  BY <1>1 DEF ReplyInv, NoKeyTwice, Stored

\* All that clients are told and all that is published of a key names one document, for any
\* number of racing, failing or retried submissions and whatever the broker repeats.
THEOREM OneDocumentPerKeyHolds == Spec => []OneDocumentPerKey
<1>1. Init => RepliesNameRows
  BY DEF Init, RepliesNameRows
<1>2. ReplyInv /\ RepliesNameRows /\ [ApiNext]_vars => RepliesNameRows'
  BY RepliesNameRowsStep
<1> QED
  BY <1>1, <1>2, ReplyInvHolds, OneNamed, PTL DEF Spec

-----------------------------------------------------------------------------
(* No record is published twice *)

\* Nothing of s has been handed to a producer yet.
Unsent == BeforeCommit \union {"publish"}

Untraced(s) ==
    /\ \A p \in Procs, q \in Partitions : \A i \in DOMAIN buffer[p][q] : buffer[p][q][i].of # s
    /\ \A q \in Partitions : \A i \in DOMAIN log[q] : log[q][i].of # s

\* A submission has one record at most, in one buffer or in one partition of the topic.
BufferedOnce ==
    \A p, x \in Procs, q, r \in Partitions :
        \A i \in DOMAIN buffer[p][q], j \in DOMAIN buffer[x][r] :
            buffer[p][q][i].of = buffer[x][r][j].of => p = x /\ q = r /\ i = j

LoggedOnce ==
    \A q, r \in Partitions : \A i \in DOMAIN log[q], j \in DOMAIN log[r] :
        log[q][i].of = log[r][j].of => q = r /\ i = j

BufferedOrLogged ==
    \A p \in Procs, q, r \in Partitions : \A i \in DOMAIN buffer[p][q], j \in DOMAIN log[r] :
        buffer[p][q][i].of # log[r][j].of

OnceInv ==
    /\ \A s \in Submissions : pc[s] \in Unsent => Untraced(s)
    /\ BufferedOnce /\ LoggedOnce /\ BufferedOrLogged

LEMMA OnceInvInit == Init => OnceInv
BY DEF Init, OnceInv, Untraced, BufferedOnce, LoggedOnce, BufferedOrLogged

\* Submissions only leave the states before the send, and a record only comes from one.
LEMMA PublishKeepsOnce ==
    ASSUME CreateInv, OnceInv, NEW s \in Submissions, Publish(s)
    PROVE  OnceInv'
<1> DEFINE p0 == Proc(s)
           q0 == PartitionFor(s)
           b == buffer[p0][q0]
<1>1. /\ pc[s] = "publish" /\ job[s] \in Jobs /\ job[s].of = s /\ Untraced(s)
      /\ p0 \in Procs /\ q0 \in Partitions /\ b \in Seq(Jobs)
  <2>1. job[s] = Doc(s) \/ job[s] = Local(s)
    BY DEF Publish, CreateInv, JobIsOwn, AfterCommit
  <2>2. Doc(s).of = s /\ Local(s).of = s
    BY DEF Doc, Local
  <2>3. p0 \in Procs /\ q0 \in Partitions
    BY PartitionOfIsTotal DEF CreateInv, TypeOK, Call, Proc, PartitionFor
  <2> QED
    BY <2>1, <2>2, <2>3, JobsOf DEF Publish, OnceInv, Unsent, CreateInv, TypeOK
<1>2. /\ buffer \in [Procs -> [Partitions -> Seq(Jobs)]]
      /\ buffer' = [buffer EXCEPT ![p0][q0] = Append(@, job[s])]
      /\ UNCHANGED log /\ pc' = [pc EXCEPT ![s] = "done"]
      /\ pc \in [Submissions -> Active \union {"idle", "done", "lost"}]
  BY DEF Publish, Fails, Finish, Goto, CreateInv, TypeOK
<1> HIDE DEF p0, q0, b
<1>3. buffer'[p0][q0] = Append(b, job[s]) /\ b = buffer[p0][q0]
  BY <1>1, <1>2 DEF b
<1>4. ASSUME NEW p \in Procs, NEW q \in Partitions, p # p0 \/ q # q0
      PROVE  buffer'[p][q] = buffer[p][q]
  BY <1>1, <1>2, <1>4
<1>5. \A i \in DOMAIN Append(b, job[s]) :
          \/ i \in DOMAIN b /\ Append(b, job[s])[i] = b[i]
          \/ i = Len(b) + 1 /\ Append(b, job[s])[i] = job[s]
  BY <1>1
<1>6. ASSUME NEW p \in Procs, NEW q \in Partitions, NEW i \in DOMAIN buffer'[p][q]
      PROVE  \/ i \in DOMAIN buffer[p][q] /\ buffer'[p][q][i] = buffer[p][q][i]
             \/ p = p0 /\ q = q0 /\ i = Len(b) + 1 /\ buffer'[p][q][i].of = s
  BY <1>1, <1>3, <1>4, <1>5
<1>7. BufferedOnce' /\ BufferedOrLogged' /\ LoggedOnce'
  <2>1. BufferedOnce'
    <3> SUFFICES ASSUME NEW p \in Procs, NEW x \in Procs, NEW q \in Partitions, NEW r \in Partitions,
                        NEW i \in DOMAIN buffer'[p][q], NEW j \in DOMAIN buffer'[x][r],
                        buffer'[p][q][i].of = buffer'[x][r][j].of
                 PROVE  p = x /\ q = r /\ i = j
      BY DEF BufferedOnce
    <3>1. CASE i \in DOMAIN buffer[p][q] /\ buffer'[p][q][i] = buffer[p][q][i]
      BY <1>1, <1>6, <3>1 DEF OnceInv, Untraced, BufferedOnce
    <3>2. CASE j \in DOMAIN buffer[x][r] /\ buffer'[x][r][j] = buffer[x][r][j]
      BY <1>1, <1>6, <3>2 DEF OnceInv, Untraced, BufferedOnce
    <3> QED
      BY <1>6, <3>1, <3>2
  <2>2. BufferedOrLogged'
    BY <1>1, <1>2, <1>6 DEF OnceInv, Untraced, BufferedOrLogged
  <2>3. LoggedOnce'
    BY <1>2 DEF OnceInv, LoggedOnce
  <2> QED
    BY <2>1, <2>2, <2>3
<1>8. ASSUME NEW t \in Submissions, pc'[t] \in Unsent
      PROVE  Untraced(t)'
  <2>1. t # s /\ Untraced(t)
    BY <1>2, <1>8 DEF Unsent, BeforeCommit, OnceInv
  <2> QED
    BY <1>2, <1>6, <2>1 DEF Untraced
<1> QED
  BY <1>7, <1>8 DEF OnceInv

LEMMA FlushKeepsOnce ==
    ASSUME CreateInv, OnceInv, NEW p0 \in Procs, NEW q0 \in Partitions, Flush(p0, q0)
    PROVE  OnceInv'
<1> DEFINE b == buffer[p0][q0]
           l == log[q0]
<1>1. /\ buffer \in [Procs -> [Partitions -> Seq(Jobs)]] /\ log \in [Partitions -> Seq(Jobs)]
      /\ b \in Seq(Jobs) /\ b # <<>> /\ l \in Seq(Jobs)
      /\ log' = [log EXCEPT ![q0] = Append(@, Head(b))]
      /\ buffer' = [buffer EXCEPT ![p0][q0] = Tail(@)]
      /\ UNCHANGED pc
  BY DEF Flush, CreateInv, TypeOK
<1>2. buffer'[p0][q0] = Tail(b) /\ log'[q0] = Append(l, Head(b))
  BY <1>1
<1>3. \A p \in Procs, q \in Partitions : p # p0 \/ q # q0 => buffer'[p][q] = buffer[p][q]
  BY <1>1
<1>4. \A q \in Partitions : q # q0 => log'[q] = log[q]
  BY <1>1
<1>5. b = buffer[p0][q0] /\ l = log[q0]
  OBVIOUS
<1> HIDE DEF b, l
<1>6. \A i \in DOMAIN Tail(b) : i \in Int /\ i # 0 /\ i + 1 \in DOMAIN b /\ Tail(b)[i] = b[i + 1]
  BY <1>1
<1>7. /\ 1 \in DOMAIN b /\ Head(b) = b[1] /\ b[1] \in Jobs
      /\ \A i \in DOMAIN Append(l, Head(b)) :
            \/ i \in DOMAIN l /\ Append(l, Head(b))[i] = l[i]
            \/ i = Len(l) + 1 /\ Append(l, Head(b))[i] = b[1]
  BY <1>1
<1>8. ASSUME NEW p \in Procs, NEW q \in Partitions, NEW i \in DOMAIN buffer'[p][q]
      PROVE  \/ p = p0 /\ q = q0 /\ i # 0 /\ i \in Int /\ i + 1 \in DOMAIN b /\ buffer'[p][q][i] = b[i + 1]
             \/ (p # p0 \/ q # q0) /\ i \in DOMAIN buffer[p][q] /\ buffer'[p][q][i] = buffer[p][q][i]
  BY <1>2, <1>3, <1>6
<1>9. ASSUME NEW q \in Partitions, NEW i \in DOMAIN log'[q]
      PROVE  \/ i \in DOMAIN log[q] /\ log'[q][i] = log[q][i]
             \/ q = q0 /\ i = Len(l) + 1 /\ log'[q][i] = b[1]
  BY <1>2, <1>4, <1>5, <1>7
<1>10. \A i, j \in Int : i + 1 = j + 1 => i = j
  OBVIOUS
<1>11. \A i \in Int : i + 1 = 1 => i = 0
  OBVIOUS
<1>12. BufferedOnce'
  <2> SUFFICES ASSUME NEW p \in Procs, NEW x \in Procs, NEW q \in Partitions, NEW r \in Partitions,
                      NEW i \in DOMAIN buffer'[p][q], NEW j \in DOMAIN buffer'[x][r],
                      buffer'[p][q][i].of = buffer'[x][r][j].of
               PROVE  p = x /\ q = r /\ i = j
    BY DEF BufferedOnce
  <2>1. PICK k \in DOMAIN buffer[p][q] :
            /\ buffer'[p][q][i] = buffer[p][q][k] /\ i \in Int
            /\ k = IF p = p0 /\ q = q0 THEN i + 1 ELSE i
    BY <1>1, <1>5, <1>8
  <2>2. PICK m \in DOMAIN buffer[x][r] :
            /\ buffer'[x][r][j] = buffer[x][r][m] /\ j \in Int
            /\ m = IF x = p0 /\ r = q0 THEN j + 1 ELSE j
    BY <1>1, <1>5, <1>8
  <2>3. p = x /\ q = r /\ k = m
    BY <2>1, <2>2 DEF OnceInv, BufferedOnce
  <2> QED
    BY <1>10, <2>1, <2>2, <2>3
<1>13. LoggedOnce'
  BY <1>5, <1>7, <1>9 DEF OnceInv, LoggedOnce, BufferedOrLogged
<1>14. BufferedOrLogged'
  BY <1>5, <1>7, <1>8, <1>9, <1>11 DEF OnceInv, BufferedOnce, BufferedOrLogged
<1>15. ASSUME NEW t \in Submissions, pc'[t] \in Unsent
       PROVE  Untraced(t)'
  BY <1>1, <1>5, <1>7, <1>8, <1>9, <1>15 DEF OnceInv, Untraced
<1> QED
  BY <1>12, <1>13, <1>14, <1>15 DEF OnceInv

LEMMA OnceInvStep ==
    ASSUME "broker" \notin Faults, CreateInv, OnceInv, [ApiNext]_vars
    PROVE  OnceInv'
<1> USE DEF apiVars
<1>0. TypeOK
  BY DEF CreateInv
<1>1. ASSUME NEW t \in Submissions, pc'[t] \in Unsent
      PROVE  pc[t] \in Unsent
  <2>1. CASE pc'[t] \in BeforeCommit
    BY <2>1, EverySubmissionMoves DEF Moves, Unsent
  <2>2. CASE pc'[t] = "publish"
    <3>1. ASSUME NEW s \in Submissions, SendAuditEvent(s) \/ Conclude(s) \/ TurnAway(s)
          PROVE  pc[t] = "publish"
      BY <1>0, <2>2, <3>1
         DEF SendAuditEvent, Publish, PublishNowhere, PublishFails, Conclude, Record,
             RecordRejectsLocal, RecordSkipped, RecordFails, Respond, Fails, Finish, Goto, TurnAway,
             TypeOK
    <3>2. ASSUME NEW s \in Submissions, Admit(s) \/ CreateOrGet(s)
          PROVE  pc[t] \in Unsent
      <4>1. pc[s] \in BeforeCommit
        BY <3>2 DEF Admit, CreateOrGet, FindExisting, FindNone, TakeLock, Number, Insert,
                    InsertConflicts, CommitUnacknowledged, TransactionFails, AtDatabase, BeforeCommit
      <4>2. CASE t # s
        <5>1. pc'[t] = pc[t]
          BY <1>0, <3>2, <4>2, FallbackMoves
             DEF Admit, CreateOrGet, FindExisting, FindNone, TakeLock, Number, Insert,
                 InsertConflicts, CommitUnacknowledged, TransactionFails, Finish, Goto, TypeOK
        <5> QED
          BY <2>2, <5>1 DEF Unsent
      <4> QED
        BY <4>1, <4>2 DEF Unsent
    <3>3. ASSUME NEW p \in Procs, Start(p) \/ Stop(p) \/ Crash(p)
          PROVE  pc[t] = "publish"
      BY <2>2, <3>3 DEF Start, Stop, Crash
    <3>4. ASSUME NEW p \in Procs, NEW q \in Partitions, Producer(p, q)
          PROVE  pc[t] = "publish"
      BY <2>2, <3>4 DEF Producer, Flush, FlushAgain, Expire
    <3>5. CASE UNCHANGED vars
      BY <2>2, <3>5 DEF vars, Unsent
    <3>6. "publish" \in Unsent
      BY DEF Unsent
    <3>7. CASE ApiNext
      BY <3>1, <3>2, <3>3, <3>4, <3>6, <3>7 DEF ApiNext, Handle
    <3> QED
      BY <3>5, <3>6, <3>7
  <2> QED
    BY <1>1, <2>1, <2>2 DEF Unsent
<1>2. ASSUME UNCHANGED <<buffer, log>>
      PROVE  OnceInv'
  BY <1>1, <1>2 DEF OnceInv, Untraced, BufferedOnce, LoggedOnce, BufferedOrLogged
<1>3. ASSUME NEW p \in Procs, Crash(p)
      PROVE  OnceInv'
  <2>1. /\ \A x \in Procs, q \in Partitions : buffer'[x][q] = IF x = p THEN <<>> ELSE buffer[x][q]
        /\ UNCHANGED log
    BY <1>0, <1>3 DEF Crash, TypeOK
  <2> QED
    BY <1>1, <2>1 DEF OnceInv, Untraced, BufferedOnce, LoggedOnce, BufferedOrLogged
<1>4. \/ UNCHANGED <<buffer, log>>
      \/ \E s \in Submissions : Publish(s)
      \/ \E p \in Procs, q \in Partitions : Flush(p, q)
      \/ \E p \in Procs : Crash(p)
  BY DEF ApiNext, Start, Stop, TurnAway, Admit, Handle, CreateOrGet, FindExisting, FindNone,
         TakeLock, Number, Insert, InsertConflicts, CommitUnacknowledged, TransactionFails,
         SendAuditEvent, PublishNowhere, PublishFails, Conclude, Record,
         RecordRejectsLocal, RecordSkipped, RecordFails, Respond, Producer, FlushAgain, Expire, vars
<1> QED
  BY <1>2, <1>3, <1>4, PublishKeepsOnce, FlushKeepsOnce

\* No retry, duplicate or crash publishes a record a second time: with a broker that repeats
\* no batch, the topic holds at most one record of each submission.
THEOREM PublishedOnceHolds ==
    ASSUME "broker" \notin Faults
    PROVE  Spec => []PublishedOnce
<1>1. OnceInv => PublishedOnce
  BY DEF OnceInv, LoggedOnce, PublishedOnce
<1>2. CreateInv /\ OnceInv /\ [ApiNext]_vars => OnceInv'
  BY OnceInvStep
<1> QED
  BY CreateInvHolds, OnceInvInit, <1>1, <1>2, PTL DEF Spec

-----------------------------------------------------------------------------
(* The made-up ids of the race *)

\* The key that t asks for has a row.
HasTwin(t) ==
    \E d \in Submissions : documents[d] # None /\ documents[d].key = call[t].key

\* What a job id that names no row needs.
TwinOf(id) == id.kind = "local" => HasTwin(id.of)

EveryProcessHasDb == \A p \in Procs : mode[p] # None => mode[p].db

PhantomInv ==
    /\ EveryProcessHasDb
    /\ \A t \in Submissions : pc[t] \in AfterCommit => TwinOf(job[t])
    /\ \A p \in Procs, q \in Partitions : \A i \in DOMAIN buffer[p][q] : TwinOf(buffer[p][q][i])
    /\ \A q \in Partitions : \A i \in DOMAIN log[q] : TwinOf(log[q][i])

\* What the environment must not do: fail a statement, or let a process start without it.
DatabaseAnswers == "db" \notin Faults /\ \A m \in StartModes : m.db

LEMMA PhantomInvInit == Init => PhantomInv
BY DEF Init, PhantomInv, EveryProcessHasDb, AfterCommit

\* lifespan decides once what a process runs with.
LEMMA OnlyLifecycleChangesModes ==
    ASSUME [ApiNext]_vars
    PROVE  \/ UNCHANGED mode
           \/ \E p \in Procs : Start(p) \/ Stop(p) \/ Crash(p)
BY DEF ApiNext, TurnAway, Admit, Handle, CreateOrGet, FindExisting, FindNone,
       TakeLock, Number, Insert, InsertConflicts, CommitUnacknowledged, TransactionFails,
       SendAuditEvent, Publish, PublishNowhere, PublishFails, Conclude, Record,
       RecordRejectsLocal, RecordSkipped, RecordFails, Respond, Producer, Flush, FlushAgain,
       Expire, vars, apiVars

LEMMA TwinStays ==
    ASSUME CreateInv, [ApiNext]_vars, NEW t \in Submissions, HasTwin(t)
    PROVE  HasTwin(t)'
<1>1. PICK d \in Submissions : documents[d] # None /\ documents[d].key = call[t].key
  BY DEF HasTwin
<1>2. documents'[d] # None /\ documents'[d].key = documents[d].key /\ UNCHANGED call
  BY <1>1, RowsKept, EverySubmissionMoves
<1> QED
  BY <1>1, <1>2 DEF HasTwin

\* The number is still free, so what the insertion conflicts with is a row of the key.
LEMMA ConflictIsTwin ==
    ASSUME CreateInv, NEW s \in Submissions, InsertConflicts(s)
    PROVE  HasTwin(s)
<1> DEFINE a == call[s].agency
<1>1. a \in Agencies /\ pc[s] = "insert" /\ seq[s] = NextSequence(documents, a)
  BY DEF InsertConflicts, CreateInv, TypeOK, Call, NumberStillFree
<1>2. PICK n \in Nat : SequencesOf(documents, a) = 1 .. n
  BY <1>1 DEF CreateInv, Dense
<1>3. seq[s] \notin SequencesOf(documents, a)
  BY <1>1, <1>2, NextOfDense
<1>4. PICK d \in Stored(documents) :
          \/ documents[d].key = call[s].key
          \/ documents[d].agency = a /\ documents[d].seq = seq[s]
  BY DEF InsertConflicts, Insertable, Conflicts
<1>5. documents[d].key = call[s].key
  BY <1>3, <1>4 DEF SequencesOf
<1> QED
  BY <1>4, <1>5 DEF HasTwin, Stored

\* With a database that answers, only that conflict makes an id up.
LEMMA MadeUpHasTwin ==
    ASSUME DatabaseAnswers, CreateInv, EveryProcessHasDb, [ApiNext]_vars, NEW t \in Submissions,
           pc[t] \in BeforeCommit, pc'[t] \in AfterCommit
    PROVE  job'[t] = Doc(t) \/ HasTwin(t)
<1> USE DEF apiVars
<1>0. TypeOK
  BY DEF CreateInv
<1>1. pc'[t] # pc[t]
  BY DEF BeforeCommit, AfterCommit
<1>2. ASSUME NEW s \in Submissions, Admit(s)
      PROVE  FALSE
  <2>1. HasDb(s) /\ Goto(s, "select")
    BY <1>0, <1>2 DEF Admit, EveryProcessHasDb, HasDb, Proc, TypeOK, Call
  <2> QED
    BY <1>0, <1>1, <2>1 DEF Goto, TypeOK, AfterCommit
<1>3. ASSUME NEW s \in Submissions, InsertConflicts(s)
      PROVE  HasTwin(t)
  <2>1. t = s
    BY <1>0, <1>1, <1>3, FallbackMoves DEF InsertConflicts
  <2> QED
    BY <1>3, <2>1, ConflictIsTwin
<1>4. ASSUME NEW s \in Submissions, CreateOrGet(s), ~InsertConflicts(s)
      PROVE  job'[t] = Doc(t)
  BY <1>0, <1>1, <1>4
     DEF CreateOrGet, FindExisting, FindNone, TakeLock, Number, Insert, CommitUnacknowledged,
         TransactionFails, DatabaseAnswers, Finish, Goto, TypeOK, AfterCommit
<1>5. ASSUME NEW s \in Submissions, SendAuditEvent(s) \/ Conclude(s) \/ TurnAway(s)
      PROVE  FALSE
  BY <1>0, <1>1, <1>5
     DEF SendAuditEvent, Publish, PublishNowhere, PublishFails, Conclude, Record,
         RecordRejectsLocal, RecordSkipped, RecordFails, Respond, Fails, Finish, Goto, TurnAway,
         TypeOK, BeforeCommit, AfterCommit
<1>6. ASSUME NEW p \in Procs, Start(p) \/ Stop(p) \/ Crash(p)
      PROVE  FALSE
  BY <1>1, <1>6 DEF Start, Stop, Crash, AfterCommit
<1>7. ASSUME NEW p \in Procs, NEW q \in Partitions, Producer(p, q)
      PROVE  FALSE
  BY <1>1, <1>7 DEF Producer, Flush, FlushAgain, Expire
<1>8. CASE UNCHANGED vars
  BY <1>1, <1>8 DEF vars
<1> QED
  BY <1>2, <1>3, <1>4, <1>5, <1>6, <1>7, <1>8 DEF ApiNext, Handle

LEMMA PhantomInvStep ==
    ASSUME DatabaseAnswers, CreateInv, PhantomInv, [ApiNext]_vars
    PROVE  PhantomInv'
<1> USE DEF apiVars
<1>0. TypeOK /\ TypeOK' /\ EveryProcessHasDb /\ JobIsOwn
  BY TypesStep DEF CreateInv, PhantomInv
<1>1. EveryProcessHasDb'
  <2>1. ASSUME NEW p \in Procs, Start(p)
        PROVE  EveryProcessHasDb'
    BY <1>0, <2>1 DEF Start, EveryProcessHasDb, DatabaseAnswers, TypeOK
  <2>2. ASSUME NEW p \in Procs, Stop(p) \/ Crash(p)
        PROVE  EveryProcessHasDb'
    BY <1>0, <2>2 DEF Stop, Crash, EveryProcessHasDb, TypeOK
  <2>3. CASE UNCHANGED mode
    BY <1>0, <2>3 DEF EveryProcessHasDb
  <2> QED
    BY <2>1, <2>2, <2>3, OnlyLifecycleChangesModes
<1>2. ASSUME NEW id \in Jobs, TwinOf(id)
      PROVE  TwinOf(id)'
  BY <1>2, TwinStays DEF TwinOf, Jobs
<1>3. ASSUME NEW t \in Submissions, pc[t] \in AfterCommit
      PROVE  job[t] \in Jobs /\ TwinOf(job[t])
  BY <1>0, <1>3, JobsOf DEF JobIsOwn, PhantomInv
<1>4. ASSUME NEW t \in Submissions, pc'[t] \in AfterCommit
      PROVE  TwinOf(job[t])'
  <2>1. CASE pc[t] \in AfterCommit /\ job'[t] = job[t]
    BY <1>2, <1>3, <2>1 DEF TwinOf
  <2>2. CASE pc[t] \in BeforeCommit
    <3>1. job'[t] = Doc(t) \/ (job'[t] = Local(t) /\ HasTwin(t))
      BY <1>0, <1>4, <2>2, MadeUpHasTwin, EverySubmissionMoves DEF Moves, BeforeCommit, AfterCommit
    <3> QED
      BY <3>1, TwinStays DEF TwinOf, Doc, Local
  <2> QED
    BY <1>4, <2>1, <2>2, EverySubmissionMoves DEF Moves
<1>5. ASSUME NEW p \in Procs, NEW q \in Partitions, NEW i \in DOMAIN buffer[p][q]
      PROVE  buffer[p][q][i] \in Jobs /\ TwinOf(buffer[p][q][i])
  BY <1>0 DEF TypeOK, PhantomInv
<1>6. ASSUME NEW q \in Partitions, NEW i \in DOMAIN log[q]
      PROVE  log[q][i] \in Jobs /\ TwinOf(log[q][i])
  BY <1>0 DEF TypeOK, PhantomInv
<1>7. ASSUME NEW p \in Procs, NEW q \in Partitions, NEW i \in DOMAIN buffer'[p][q]
      PROVE  TwinOf(buffer[p][q][i])'
  <2>1. PICK id \in Jobs : id = buffer'[p][q][i] /\ TwinOf(id)
    BY <1>3, <1>5, BufferSteps DEF AfterCommit
  <2> QED
    BY <1>2, <2>1 DEF TwinOf
<1>8. ASSUME NEW q \in Partitions, NEW i \in DOMAIN log'[q]
      PROVE  TwinOf(log[q][i])'
  <2>1. PICK id \in Jobs : id = log'[q][i] /\ TwinOf(id)
    BY <1>0, <1>5, <1>6, LogSteps
  <2> QED
    BY <1>2, <2>1 DEF TwinOf
<1> QED
  BY <1>1, <1>4, <1>7, <1>8 DEF PhantomInv

\* As long as the database answers, no made-up id reaches the topic for a key that has no
\* row: what the race between two submissions of one key loses is never the document.
THEOREM PhantomHasTwinHolds ==
    ASSUME DatabaseAnswers
    PROVE  Spec => []PhantomHasTwin
<1>1. PhantomInv => PhantomHasTwin
  BY DEF PhantomInv, TwinOf, HasTwin, PhantomHasTwin, HoldersOf, Stored
<1>2. CreateInv /\ PhantomInv /\ [ApiNext]_vars => PhantomInv'
  BY PhantomInvStep
<1> QED
  BY CreateInvHolds, PhantomInvInit, <1>1, <1>2, PTL DEF Spec

-----------------------------------------------------------------------------
(* The status of what was answered *)

\* Every id that a process may still give to a client is in its local_job_cache.
JobsAreCached ==
    \A t \in Submissions : pc[t] \in AfterCommit => job[t] \in jobCache[Proc(t)]

DuplicatesAreCached ==
    \A p \in Procs, k \in Keys :
        idempCache[p][k] # None => Local(idempCache[p][k]) \in jobCache[p]

CacheInv == JobsAreCached /\ DuplicatesAreCached

LEMMA CacheInvInit == Init => CacheInv
BY DEF Init, CacheInv, JobsAreCached, DuplicatesAreCached, AfterCommit

LEMMA RememberAdds ==
    ASSUME TypeOK, NEW s \in Submissions, NEW id, Remember(s, id)
    PROVE  /\ \A p \in Procs : jobCache[p] \subseteq jobCache'[p]
           /\ id \in jobCache'[Proc(s)]
<1>1. Proc(s) \in Procs
  BY DEF TypeOK, Call, Proc
<1> QED
  BY <1>1 DEF Remember, TypeOK

LEMMA FallbackCaches ==
    ASSUME TypeOK, CacheInv, NEW s \in Submissions, Fallback(s), UNCHANGED call
    PROVE  CacheInv'
<1> DEFINE p0 == Proc(s)
           k0 == call[s].key
<1>1. /\ p0 \in Procs /\ k0 \in Keys
      /\ \A t \in Submissions : Proc(t)' = Proc(t) /\ Proc(t) \in Procs
  BY DEF TypeOK, Call, Proc
<1>2. CASE idempCache[p0][k0] # None
  <2>1. /\ Finish(s, 200, Local(idempCache[p0][k0]))
        /\ UNCHANGED <<idempCache, jobCache>>
    BY <1>2 DEF Fallback
  <2>2. \A t \in Submissions : pc'[t] \in AfterCommit =>
            pc[t] \in AfterCommit /\ t # s
    BY <2>1 DEF Finish, Goto, TypeOK, AfterCommit
  <2>3. \A t \in Submissions \ {s} : job'[t] = job[t]
    BY FallbackMoves
  <2> QED
    BY <1>1, <2>1, <2>2, <2>3 DEF CacheInv, JobsAreCached, DuplicatesAreCached
<1>3. CASE idempCache[p0][k0] = None
  <2>1. /\ Goto(s, "publish") /\ Remember(s, Local(s))
        /\ job' = [job EXCEPT ![s] = Local(s)]
        /\ idempCache' = [idempCache EXCEPT ![p0][k0] = s]
    BY <1>3 DEF Fallback
  <2>2. /\ \A p \in Procs : jobCache[p] \subseteq jobCache'[p]
        /\ Local(s) \in jobCache'[p0]
    BY <2>1, RememberAdds
  <2>3. \A t \in Submissions \ {s} : pc'[t] = pc[t] /\ job'[t] = job[t]
    BY FallbackMoves
  <2>4. job'[s] = Local(s)
    BY <2>1 DEF TypeOK
  <2>5. JobsAreCached'
    <3> SUFFICES ASSUME NEW t \in Submissions, pc'[t] \in AfterCommit
                 PROVE  job'[t] \in jobCache'[Proc(t)]
      BY <1>1 DEF JobsAreCached
    <3>1. CASE t = s
      BY <2>2, <2>4, <3>1
    <3>2. CASE t # s
      BY <1>1, <2>2, <2>3, <3>2 DEF CacheInv, JobsAreCached
    <3> QED
      BY <3>1, <3>2
  <2>6. ASSUME NEW p \in Procs, NEW k \in Keys, idempCache'[p][k] # None
        PROVE  Local(idempCache'[p][k]) \in jobCache'[p]
    <3>1. CASE p = p0 /\ k = k0
      BY <1>1, <2>1, <2>2, <3>1 DEF TypeOK
    <3>2. CASE p # p0 \/ k # k0
      <4>1. idempCache'[p][k] = idempCache[p][k]
        BY <1>1, <2>1, <3>2 DEF TypeOK
      <4> QED
        BY <2>2, <2>6, <4>1 DEF CacheInv, DuplicatesAreCached
    <3> QED
      BY <3>1, <3>2
  <2> QED
    BY <2>5, <2>6 DEF CacheInv, DuplicatesAreCached
<1> QED
  BY <1>2, <1>3

LEMMA CacheInvStep ==
    ASSUME CreateInv, CacheInv, [ApiNext]_vars
    PROVE  CacheInv'
<1> USE DEF apiVars
<1>0. TypeOK /\ UNCHANGED call
  BY EverySubmissionMoves DEF CreateInv
<1>1. \A t \in Submissions : Proc(t)' = Proc(t) /\ Proc(t) \in Procs
  BY <1>0 DEF TypeOK, Call, Proc
<1>2. ASSUME UNCHANGED idempCache, \A p \in Procs : jobCache[p] \subseteq jobCache'[p],
             \A t \in Submissions : pc'[t] \in AfterCommit =>
                 \/ pc[t] \in AfterCommit /\ job'[t] = job[t]
                 \/ job'[t] \in jobCache'[Proc(t)]
      PROVE  CacheInv'
  BY <1>1, <1>2 DEF CacheInv, JobsAreCached, DuplicatesAreCached
<1>3. ASSUME NEW s \in Submissions, Admit(s) \/ CreateOrGet(s)
      PROVE  CacheInv'
  <2>1. CASE Fallback(s)
    BY <1>0, <2>1, FallbackCaches
  <2>2. CASE FindExisting(s)
    <3>1. PICK d \in Submissions : Remember(s, Doc(d)) /\ Finish(s, 200, Doc(d)) /\ job' = [job EXCEPT ![s] = Doc(d)]
      BY <2>2 DEF FindExisting, HoldersOf, Stored
    <3>2. \A t \in Submissions : pc'[t] \in AfterCommit => pc[t] \in AfterCommit /\ job'[t] = job[t]
      BY <1>0, <3>1 DEF Finish, Goto, TypeOK, AfterCommit
    <3> QED
      BY <1>0, <1>2, <2>2, <3>1, <3>2, RememberAdds DEF FindExisting
  <2>3. CASE Insert(s)
    <3>1. Remember(s, Doc(s)) /\ job' = [job EXCEPT ![s] = Doc(s)] /\ Goto(s, "publish") /\ UNCHANGED idempCache
      BY <2>3 DEF Insert
    <3>2. job'[s] = Doc(s) /\ \A t \in Submissions \ {s} : job'[t] = job[t] /\ pc'[t] = pc[t]
      BY <1>0, <3>1 DEF Goto, TypeOK
    <3> QED
      BY <1>0, <1>2, <3>1, <3>2, RememberAdds
  <2>4. ASSUME Goto(s, "select") \/ Goto(s, "lock") \/ Goto(s, "number") \/ Goto(s, "insert"),
               UNCHANGED <<job, idempCache, jobCache>>
        PROVE  CacheInv'
    BY <1>0, <1>2, <2>4 DEF Goto, TypeOK, AfterCommit
  <2>5. \/ Fallback(s) \/ FindExisting(s) \/ Insert(s)
        \/ /\ Goto(s, "select") \/ Goto(s, "lock") \/ Goto(s, "number") \/ Goto(s, "insert")
           /\ UNCHANGED <<job, idempCache, jobCache>>
    BY <1>3 DEF Admit, CreateOrGet, FindNone, TakeLock, Number, InsertConflicts,
                CommitUnacknowledged, TransactionFails
  <2> QED
    BY <2>1, <2>2, <2>3, <2>4, <2>5
<1>4. ASSUME NEW s \in Submissions, SendAuditEvent(s) \/ Conclude(s) \/ TurnAway(s)
      PROVE  CacheInv'
  <2>1. UNCHANGED <<job, idempCache, jobCache>>
    BY <1>4 DEF SendAuditEvent, Publish, PublishNowhere, PublishFails, Conclude, Record,
                RecordRejectsLocal, RecordSkipped, RecordFails, Respond, TurnAway
  <2>2. \A t \in Submissions : pc'[t] \in AfterCommit => pc[t] \in AfterCommit
    BY <1>0, <1>4
       DEF SendAuditEvent, Publish, PublishNowhere, PublishFails, Conclude, Record,
           RecordRejectsLocal, RecordSkipped, RecordFails, Respond, Fails, Finish, Goto, TurnAway,
           TypeOK, AfterCommit
  <2> QED
    BY <1>2, <2>1, <2>2
<1>5. ASSUME NEW p \in Procs, Stop(p) \/ Crash(p)
      PROVE  CacheInv'
  <2>1. /\ \A x \in Procs \ {p} : idempCache'[x] = idempCache[x] /\ jobCache'[x] = jobCache[x]
        /\ \A k \in Keys : idempCache'[p][k] = None
        /\ UNCHANGED job
    BY <1>0, <1>5 DEF Stop, Crash, TypeOK
  <2>2. \A t \in Submissions : pc'[t] \in AfterCommit => pc[t] \in AfterCommit /\ Proc(t) # p
    BY <1>5 DEF Stop, Crash, On, InFlight, Active, AfterCommit, Proc
  <2> QED
    BY <1>1, <2>1, <2>2 DEF CacheInv, JobsAreCached, DuplicatesAreCached
<1>6. CASE UNCHANGED <<pc, job, idempCache, jobCache>>
  BY <1>2, <1>6
<1>7. ((\E p \in Procs : Start(p)) \/ (\E p \in Procs, q \in Partitions : Producer(p, q))
          \/ UNCHANGED vars) => UNCHANGED <<pc, job, idempCache, jobCache>>
  BY DEF Start, Producer, Flush, FlushAgain, Expire, vars
<1> QED
  BY <1>3, <1>4, <1>5, <1>6, <1>7 DEF ApiNext, Handle

\* What a new reply names is cached by its process, and has a row if it is a document.
LEMMA RepliesAreKnown ==
    ASSUME CreateInv, CacheInv, [ApiNext]_vars, NEW s \in Submissions,
           reply'[s] # reply[s], reply'[s].job # None
    PROVE  /\ reply'[s].job \in jobCache'[Proc(s)]
           /\ reply'[s].job.kind = "document" =>
                 reply'[s].job.of \in Submissions /\ documents'[reply'[s].job.of] # None
<1> USE DEF apiVars
<1>0. TypeOK /\ JobIsOwn /\ Proc(s) \in Procs /\ call[s].key \in Keys
  BY DEF CreateInv, TypeOK, Call, Proc
<1>1. \A d \in Submissions : documents[d] # None => documents'[d] # None
  BY RowsKept
<1>2. ASSUME NEW t \in Submissions, NEW code, NEW id, Finish(t, code, id)
      PROVE  t = s /\ reply'[s].job = id
  BY <1>0, <1>2 DEF Finish, TypeOK
<1>3. ASSUME NEW t \in Submissions, Fallback(t)
      PROVE  reply'[s].job \in jobCache'[Proc(s)] /\ reply'[s].job.kind # "document"
  <2> DEFINE c == idempCache[Proc(t)][call[t].key]
  <2>1. c # None /\ Finish(t, 200, Local(c)) /\ UNCHANGED jobCache
    BY <1>3 DEF Fallback
  <2>2. t = s /\ reply'[s].job = Local(c)
    BY <1>2, <2>1
  <2> QED
    BY <1>0, <2>1, <2>2 DEF CacheInv, DuplicatesAreCached, Local
<1>4. ASSUME NEW t \in Submissions, FindExisting(t)
      PROVE  /\ reply'[s].job \in jobCache'[Proc(s)]
             /\ reply'[s].job.of \in Submissions /\ documents'[reply'[s].job.of] # None
  <2>1. PICK d \in Submissions : Remember(t, Doc(d)) /\ Finish(t, 200, Doc(d)) /\ documents[d] # None
    BY <1>4 DEF FindExisting, HoldersOf, Stored
  <2>2. t = s /\ reply'[s].job = Doc(d) /\ Doc(d) \in jobCache'[Proc(t)]
    BY <1>0, <1>2, <2>1, RememberAdds
  <2> QED
    BY <1>1, <2>1, <2>2 DEF Doc
<1>5. ASSUME NEW t \in Submissions, Respond(t)
      PROVE  /\ reply'[s].job \in jobCache'[Proc(s)]
             /\ reply'[s].job.kind = "document" =>
                   reply'[s].job.of \in Submissions /\ documents'[reply'[s].job.of] # None
  <2>1. t = s /\ reply'[s].job = job[s] /\ UNCHANGED jobCache /\ pc[s] \in AfterCommit
    BY <1>2, <1>5 DEF Respond, AfterCommit
  <2>2. (job[s] = Doc(s) /\ documents[s] # None) \/ job[s] = Local(s)
    BY <1>0, <2>1 DEF JobIsOwn
  <2> QED
    BY <1>1, <2>1, <2>2 DEF CacheInv, JobsAreCached, Doc, Local
<1>6. ASSUME NEW t \in Submissions, TurnAway(t) \/ Admit(t) \/ Handle(t)
      PROVE  Fallback(t) \/ FindExisting(t) \/ Respond(t)
  <2>1. \A code : ~Finish(t, code, None)
    BY <1>2
  <2>2. CASE TurnAway(t) \/ Admit(t)
    BY <2>1, <2>2 DEF TurnAway, Admit
  <2>3. CASE CreateOrGet(t)
    BY <2>3 DEF CreateOrGet, FindNone, TakeLock, Number, Insert, InsertConflicts,
                CommitUnacknowledged, TransactionFails
  <2>4. CASE SendAuditEvent(t) \/ Conclude(t)
    BY <2>1, <2>4 DEF SendAuditEvent, Publish, PublishNowhere, PublishFails, Conclude,
                      Record, RecordRejectsLocal, RecordSkipped, RecordFails, Fails
  <2> QED
    BY <1>6, <2>2, <2>3, <2>4 DEF Handle
<1>7. \E t \in Submissions : TurnAway(t) \/ Admit(t) \/ Handle(t)
  BY DEF ApiNext, Start, Stop, Crash, Producer, Flush, FlushAgain, Expire, vars
<1> QED
  BY <1>3, <1>4, <1>5, <1>6, <1>7

\* The status_url of every reply works: the process that answered finds the job whether or
\* not it can read the database, and a document is found by every process that can.
THEOREM AnswerIsFindableHolds == Spec => AnswerIsFindable
<1>1. ASSUME CreateInv, CacheInv, [ApiNext]_vars, NEW s \in Submissions,
             reply'[s] # reply[s], reply'[s].job # None,
             NEW p \in Procs, mode'[p] # None, NEW readable \in BOOLEAN,
             \/ p = Proc(s)
             \/ mode'[p].db /\ readable /\ reply'[s].job.kind = "document"
      PROVE  GetJob(p, reply[s].job, readable)' # None
  <2> DEFINE id == reply'[s].job
  <2>1. /\ id \in jobCache'[Proc(s)]
        /\ id.kind = "document" => id.of \in Submissions /\ documents'[id.of] # None
    BY <1>1, RepliesAreKnown
  <2>2. id.kind = "document" => documents'[id.of].status # None
    BY <1>1, <2>1, TypesStep, NoneIsNoStatus DEF TypeOK, Row
  <2>3. "QUEUED" # None
    BY NoneIsNoStatus DEF Status
  <2> QED
    BY <1>1, <2>1, <2>2, <2>3 DEF GetJob
<1>2. CreateInv /\ CacheInv /\ [ApiNext]_vars =>
          [\A s \in Submissions :
              reply'[s] # reply[s] /\ reply'[s].job # None =>
                  \A p \in {q \in Procs : mode'[q] # None}, readable \in BOOLEAN :
                      \/ p = Proc(s)
                      \/ mode'[p].db /\ readable /\ reply'[s].job.kind = "document"
                      => GetJob(p, reply[s].job, readable)' # None]_vars
  BY <1>1
<1>3. CreateInv /\ CacheInv /\ [ApiNext]_vars => CacheInv'
  BY CacheInvStep
<1> QED
  BY CreateInvHolds, CacheInvInit, <1>2, <1>3, PTL DEF Spec, AnswerIsFindable

-----------------------------------------------------------------------------
(* The ledger: read agency by agency in the order of their numbers, the rows of the table
   are a ledger of keys that only grows at its end and never repeats a key. *)

\* A table whose numbers are 1..n in each agency.
Numbered(table) ==
    /\ \A a \in Agencies : \E n \in Nat : SequencesOf(table, a) = 1 .. n
    /\ \A s, t \in Stored(table) :
          table[s].agency = table[t].agency /\ table[s].seq = table[t].seq => s = t

Height(table, a) == NextSequence(table, a) - 1

LEMMA HeightOfNumbered ==
    ASSUME NEW table \in Tables, Numbered(table), NEW a \in Agencies
    PROVE  Height(table, a) \in Nat /\ SequencesOf(table, a) = 1 .. Height(table, a)
<1>1. PICK n \in Nat : SequencesOf(table, a) = 1 .. n
  BY DEF Numbered
<1>2. Height(table, a) = n
  BY <1>1, NextOfDense DEF Height
<1> QED
  BY <1>1, <1>2

\* Entry n of an agency's ledger is the key of the row with that number.
LEMMA LedgerEntries ==
    ASSUME NEW table \in Tables, Numbered(table), NEW a \in Agencies
    PROVE  /\ LedgerOf(table)[a] \in Seq(Keys)
           /\ Len(LedgerOf(table)[a]) = Height(table, a)
           /\ \A s \in Stored(table) : table[s].agency = a =>
                 /\ table[s].seq \in 1 .. Height(table, a)
                 /\ LedgerOf(table)[a][table[s].seq] = table[s].key
           /\ \A n \in 1 .. Height(table, a) :
                 \E s \in Stored(table) : table[s].agency = a /\ table[s].seq = n
<1> DEFINE At(n) == CHOOSE s \in Stored(table) : table[s].agency = a /\ table[s].seq = n
<1>1. Height(table, a) \in Nat /\ SequencesOf(table, a) = 1 .. Height(table, a)
  BY HeightOfNumbered
<1>2. \A n \in 1 .. Height(table, a) :
          \E s \in Stored(table) : table[s].agency = a /\ table[s].seq = n
  BY <1>1 DEF SequencesOf
<1>3. \A n \in 1 .. Height(table, a) :
          At(n) \in Stored(table) /\ table[At(n)].agency = a /\ table[At(n)].seq = n
  BY <1>2
<1>4. LedgerOf(table)[a] = [n \in 1 .. Height(table, a) |-> table[At(n)].key]
  BY DEF LedgerOf, Height
<1>5. \A s \in Stored(table) : table[s].key \in Keys
  BY DEF Stored, Tables, Row
<1> HIDE DEF At
<1>6. LedgerOf(table)[a] \in [1 .. Height(table, a) -> Keys]
  BY <1>3, <1>4, <1>5
<1>7. LedgerOf(table)[a] \in Seq(Keys) /\ Len(LedgerOf(table)[a]) = Height(table, a)
  BY <1>1, <1>6
<1>8. ASSUME NEW s \in Stored(table), table[s].agency = a
      PROVE  /\ table[s].seq \in 1 .. Height(table, a)
             /\ LedgerOf(table)[a][table[s].seq] = table[s].key
  <2>1. table[s].seq \in 1 .. Height(table, a)
    BY <1>1, <1>8 DEF SequencesOf
  <2>2. At(table[s].seq) = s
    BY <1>3, <1>8, <2>1 DEF Numbered
  <2> QED
    BY <1>4, <2>1, <2>2
<1> QED
  BY <1>2, <1>7, <1>8

\* The ledger of a table depends on agencies, numbers and keys only.
LEMMA LedgerAfterUpdate ==
    ASSUME NEW table \in Tables, NEW after \in Tables, Numbered(table), Numbered(after),
           \A t \in Submissions :
               /\ after[t] = None <=> table[t] = None
               /\ after[t] # None => /\ after[t].agency = table[t].agency
                                     /\ after[t].seq = table[t].seq
                                     /\ after[t].key = table[t].key
    PROVE  LedgerOf(after) = LedgerOf(table)
<1>1. Stored(after) = Stored(table)
  BY DEF Stored
<1>2. \A t \in Stored(table) : /\ after[t].agency = table[t].agency /\ after[t].seq = table[t].seq
                              /\ after[t].key = table[t].key
  BY <1>1 DEF Stored
<1>3. ASSUME NEW a \in Agencies
      PROVE  LedgerOf(after)[a] = LedgerOf(table)[a]
  <2>1. SequencesOf(after, a) = SequencesOf(table, a)
    BY <1>1, <1>2 DEF SequencesOf
  <2>2. Height(after, a) = Height(table, a)
    BY <2>1 DEF Height, NextSequence
  <2>3. /\ LedgerOf(after)[a] \in Seq(Keys) /\ LedgerOf(table)[a] \in Seq(Keys)
        /\ Len(LedgerOf(after)[a]) = Len(LedgerOf(table)[a])
        /\ Len(LedgerOf(table)[a]) = Height(table, a)
    BY <2>2, LedgerEntries
  <2>4. ASSUME NEW n \in 1 .. Height(table, a)
        PROVE  LedgerOf(after)[a][n] = LedgerOf(table)[a][n]
    <3>1. PICK s \in Stored(table) : table[s].agency = a /\ table[s].seq = n
      BY LedgerEntries
    <3>2. LedgerOf(table)[a][n] = table[s].key
      BY <3>1, LedgerEntries
    <3>3. s \in Stored(after) /\ after[s].agency = a /\ after[s].seq = n
      BY <1>1, <1>2, <3>1
    <3>4. \A t \in Stored(after) :
              after[t].agency = a => LedgerOf(after)[a][after[t].seq] = after[t].key
      BY LedgerEntries
    <3>5. LedgerOf(after)[a][n] = after[s].key
      BY <3>3, <3>4
    <3> QED
      BY <1>2, <3>1, <3>2, <3>5
  <2> QED
    BY <2>3, <2>4
<1> QED
  BY <1>3 DEF LedgerOf

\* A new row at the end of an agency's numbering is a new entry of its ledger.
LEMMA LedgerAfterInsert ==
    ASSUME NEW table \in Tables, NEW after \in Tables, Numbered(table), Numbered(after),
           NEW s \in Submissions, table[s] = None, after[s] # None,
           \A t \in Submissions \ {s} : after[t] = table[t],
           after[s].seq = NextSequence(table, after[s].agency)
    PROVE  LedgerOf(after) =
               [LedgerOf(table) EXCEPT ![after[s].agency] = Append(@, after[s].key)]
<1> DEFINE b == after[s].agency
           k == after[s].key
<1>1. b \in Agencies /\ k \in Keys /\ s \in Stored(after) /\ after[s].seq = Height(table, b) + 1
  <2>1. after[s] \in Row
    BY DEF Tables
  <2>2. Height(table, b) \in Nat /\ b \in Agencies
    BY <2>1, HeightOfNumbered DEF Row
  <2>3. Height(table, b) + 1 = NextSequence(table, b)
    <3>1. PICK n \in Nat : SequencesOf(table, b) = 1 .. n
      BY <2>2 DEF Numbered
    <3>2. NextSequence(table, b) = n + 1
      BY <2>2, <3>1, NextOfDense
    <3> QED
      BY <3>2 DEF Height
  <2> QED
    BY <2>1, <2>2, <2>3 DEF Row, Stored
<1>2. \A t \in Stored(table) : t \in Stored(after) /\ after[t] = table[t]
  BY DEF Stored
<1>3. ASSUME NEW a \in Agencies
      PROVE  SequencesOf(after, a) =
                 SequencesOf(table, a) \union (IF a = b THEN {after[s].seq} ELSE {})
  BY SequencesAfterInsert
<1>4. ASSUME NEW a \in Agencies
      PROVE  Height(after, a) = IF a = b THEN Height(table, a) + 1 ELSE Height(table, a)
  <2>1. PICK n \in Nat : SequencesOf(table, a) = 1 .. n
    BY DEF Numbered
  <2>2. Height(table, a) = n
    BY <2>1, NextOfDense DEF Height
  <2>3. CASE a = b
    <3>1. SequencesOf(after, a) = 1 .. (n + 1)
      <4>1. after[s].seq = n + 1
        BY <1>1, <2>2, <2>3
      <4>2. SequencesOf(after, a) = (1 .. n) \union {n + 1}
        BY <1>3, <2>1, <2>3, <4>1
      <4>3. (1 .. n) \union {n + 1} = 1 .. (n + 1)
        OBVIOUS
      <4> QED
        BY <4>2, <4>3
    <3>2. NextSequence(after, a) = n + 2
      BY <3>1, NextOfDense
    <3> QED
      BY <2>2, <2>3, <3>2 DEF Height
  <2>4. CASE a # b
    <3>1. SequencesOf(after, a) = 1 .. n
      BY <1>3, <2>1, <2>4
    <3>2. NextSequence(after, a) = n + 1
      BY <3>1, NextOfDense
    <3> QED
      BY <2>2, <2>4, <3>2 DEF Height
  <2> QED
    BY <2>3, <2>4
<1>5. ASSUME NEW a \in Agencies, NEW n \in 1 .. Height(table, a)
      PROVE  LedgerOf(after)[a][n] = LedgerOf(table)[a][n]
  <2>1. PICK t \in Stored(table) : table[t].agency = a /\ table[t].seq = n
    BY LedgerEntries
  <2>2. LedgerOf(table)[a][n] = table[t].key
    BY <2>1, LedgerEntries
  <2>3. t \in Stored(after) /\ after[t].agency = a /\ after[t].seq = n
    BY <1>2, <2>1
  <2>4. \A u \in Stored(after) :
            after[u].agency = a => LedgerOf(after)[a][after[u].seq] = after[u].key
    BY LedgerEntries
  <2>5. LedgerOf(after)[a][n] = after[t].key
    BY <2>3, <2>4
  <2> QED
    BY <1>2, <2>1, <2>2, <2>5
<1>6. ASSUME NEW a \in Agencies
      PROVE  /\ LedgerOf(table)[a] \in Seq(Keys) /\ Len(LedgerOf(table)[a]) = Height(table, a)
             /\ LedgerOf(after)[a] \in Seq(Keys) /\ Len(LedgerOf(after)[a]) = Height(after, a)
  BY LedgerEntries
<1>7. LedgerOf(after)[b] = Append(LedgerOf(table)[b], k)
  <2>1. LedgerOf(after)[b][Height(table, b) + 1] = k
    BY <1>1, LedgerEntries
  <2>2. Len(LedgerOf(after)[b]) = Len(LedgerOf(table)[b]) + 1
    BY <1>1, <1>4, <1>6
  <2>3. \A n \in 1 .. Len(LedgerOf(table)[b]) : LedgerOf(after)[b][n] = LedgerOf(table)[b][n]
    BY <1>1, <1>5, <1>6
  <2>4. LedgerOf(after)[b][Len(LedgerOf(table)[b]) + 1] = k
    BY <1>1, <1>6, <2>1
  <2> HIDE DEF b, k
  <2> QED
    BY <1>1, <1>6, <2>2, <2>3, <2>4
<1>8. ASSUME NEW a \in Agencies, a # b
      PROVE  LedgerOf(after)[a] = LedgerOf(table)[a]
  BY <1>4, <1>5, <1>6, <1>8
<1>9. /\ LedgerOf(after) = [a \in Agencies |-> LedgerOf(after)[a]]
      /\ LedgerOf(table) = [a \in Agencies |-> LedgerOf(table)[a]]
  BY DEF LedgerOf
<1> QED
  BY <1>1, <1>7, <1>8, <1>9

-----------------------------------------------------------------------------
LEMMA TableIsNumbered == CreateInv => documents \in Tables /\ Numbered(documents)
BY DEF CreateInv, TypeOK, Tables, Dense, NoNumberTwice, Numbered

LEMMA LedgerInit == Init => Ledger!Init
<1> SUFFICES ASSUME Init PROVE LedgerOf(documents) = [a \in Agencies |-> <<>>]
  BY DEF Ledger!Init
<1>1. CreateInv
  BY CreateInvInit
<1>2. ASSUME NEW a \in Agencies
      PROVE  LedgerOf(documents)[a] = <<>>
  <2>1. SequencesOf(documents, a) = 1 .. 0
    BY DEF Init, SequencesOf, Stored
  <2>2. Height(documents, a) = 0
    BY <2>1, NextOfDense DEF Height
  <2>3. LedgerOf(documents)[a] \in Seq(Keys) /\ Len(LedgerOf(documents)[a]) = 0
    BY <1>1, <2>2, TableIsNumbered, LedgerEntries
  <2> QED
    BY <2>3
<1> QED
  BY <1>2 DEF LedgerOf

LEMMA LedgerStep ==
    ReplyInv /\ CreateInv' /\ [ApiNext]_vars => [Ledger!Next]_(LedgerOf(documents))
<1> SUFFICES ASSUME ReplyInv, CreateInv', [ApiNext]_vars
             PROVE  \/ LedgerOf(documents)' = LedgerOf(documents)
                    \/ Ledger!Next
  OBVIOUS
<1>1. /\ documents \in Tables /\ Numbered(documents)
      /\ documents' \in Tables /\ Numbered(documents')
  BY TableIsNumbered DEF ReplyInv, Numbered, CreateInv, TypeOK, Tables, Dense, NoNumberTwice
<1>2. ASSUME NEW s \in Submissions, Requeues(s)
      PROVE  LedgerOf(documents)' = LedgerOf(documents)
  <2>1. \A t \in Submissions :
            /\ documents'[t] = None <=> documents[t] = None
            /\ documents'[t] # None => /\ documents'[t].agency = documents[t].agency
                                       /\ documents'[t].seq = documents[t].seq
                                       /\ documents'[t].key = documents[t].key
    <3>1. documents'[s] = [documents[s] EXCEPT !.status = "QUEUED"] /\ documents[s] \in Row
      BY <1>1, <1>2 DEF Requeues, Tables
    <3>2. documents'[s] # None
      BY <3>1, NoneIsNoRow DEF Row, Status
    <3>3. \A t \in Submissions \ {s} : documents'[t] = documents[t]
      BY <1>1, <1>2 DEF Requeues, Tables
    <3> QED
      BY <1>2, <3>1, <3>2, <3>3 DEF Requeues, Row
  <2>2. ASSUME NEW f \in Tables, Numbered(f),
               \A t \in Submissions :
                   /\ f[t] = None <=> documents[t] = None
                   /\ f[t] # None => /\ f[t].agency = documents[t].agency
                                     /\ f[t].seq = documents[t].seq
                                     /\ f[t].key = documents[t].key
        PROVE  LedgerOf(f) = LedgerOf(documents)
    BY <1>1, <2>2, LedgerAfterUpdate
  <2> QED
    BY <1>1, <2>1, <2>2
<1>3. ASSUME NEW s \in Submissions, Inserts(s)
      PROVE  Ledger!Next
  <2>1. /\ documents[s] = None /\ documents'[s] = NewRow(s)
        /\ \A t \in Submissions \ {s} : documents'[t] = documents[t]
        /\ documents'[s] # None
    <3>1. documents[s] = None
      BY <1>3 DEF Inserts, ReplyInv, CreateInv, NotYetInserted, BeforeCommit
    <3>2. /\ documents'[s] = NewRow(s)
          /\ \A t \in Submissions \ {s} : documents'[t] = documents[t]
      BY <1>1, <1>3 DEF Inserts, Tables
    <3>3. call[s].agency \in Agencies /\ call[s].key \in Keys
      BY DEF ReplyInv, CreateInv, TypeOK, Call
    <3>4. seq[s] \in Nat \ {0}
      BY <1>3, <3>3, NextIsPositive DEF Inserts, ReplyInv, CreateInv, NumberStillFree
    <3>5. NewRow(s) \in Row
      BY <3>3, <3>4 DEF NewRow, Row, Status
    <3> QED
      BY <3>1, <3>2, <3>5, NoneIsNoRow
  <2>2. /\ NewRow(s).agency = call[s].agency /\ NewRow(s).key = call[s].key
        /\ NewRow(s).seq = NextSequence(documents, call[s].agency)
    BY <1>3 DEF NewRow, Inserts, ReplyInv, CreateInv, NumberStillFree
  <2>3. call[s].agency \in Agencies /\ call[s].key \in Keys
    BY DEF ReplyInv, CreateInv, TypeOK, Call
  <2>4. ASSUME NEW f \in Tables, Numbered(f), f[s] # None,
               \A t \in Submissions \ {s} : f[t] = documents[t],
               f[s].seq = NextSequence(documents, f[s].agency)
        PROVE  LedgerOf(f) = [LedgerOf(documents) EXCEPT ![f[s].agency] = Append(@, f[s].key)]
    BY <1>1, <2>1, <2>4, LedgerAfterInsert
  <2>5. LedgerOf(documents)' =
            [LedgerOf(documents) EXCEPT ![call[s].agency] = Append(@, call[s].key)]
    BY <1>1, <2>1, <2>2, <2>4
  <2>6. ~Ledger!Recorded(call[s].key)
    <3> SUFFICES ASSUME NEW a \in Agencies, NEW n \in DOMAIN LedgerOf(documents)[a],
                        LedgerOf(documents)[a][n] = call[s].key
                 PROVE  FALSE
      BY DEF Ledger!Recorded
    <3>1. n \in 1 .. Height(documents, a)
      BY <1>1, LedgerEntries
    <3>2. PICK t \in Stored(documents) : documents[t].agency = a /\ documents[t].seq = n
      BY <1>1, <3>1, LedgerEntries
    <3>3. documents[t].key = call[s].key
      BY <1>1, <3>2, LedgerEntries
    <3> QED
      BY <1>3, <3>3 DEF Inserts, Insertable, Conflicts
  <2> QED
    BY <2>3, <2>5, <2>6 DEF Ledger!Next, Ledger!Create
<1>4. CASE UNCHANGED documents
  BY <1>4 DEF LedgerOf, NextSequence, SequencesOf, Stored
<1> QED
  BY <1>2, <1>3, <1>4, TableSteps DEF ReplyInv

\* create_or_get, with everything that can go wrong around it, is a ledger that writes
\* each key once, at the end of its agency's numbering, and never takes it back.
THEOREM ImplementsLedger == Spec => LedgerSpec
<1>1. ReplyInv => CreateInv
  BY DEF ReplyInv
<1> QED
  BY LedgerInit, LedgerStep, ReplyInvHolds, <1>1, PTL DEF Spec, LedgerSpec, Ledger!Spec

=============================================================================
