------------------------------ MODULE LoadTest ------------------------------
(***************************************************************************)
(* The load tests of the dashboard: start_performance_test,                *)
(* run_performance_test and _run_timed_burst of dashboard/src/app.py.      *)
(*                                                                         *)
(* A test lives twice, as an entry of performance_tests in memory and as a *)
(* row of load_test_runs.  The POST handler creates both and starts a      *)
(* background task, which passes                                           *)
(*                                                                         *)
(*   insert -> begin -> mark -> burst -> persist -> ended                  *)
(*                                |----> failed  ---^                      *)
(*                                                                         *)
(* and is lost when the dashboard restarts.  What time does to the pace of *)
(* the requests is left out; a p95 latency is on time or not.              *)
(***************************************************************************)
EXTENDS Integers, FiniteSets

CONSTANTS
    Tests,          \* the POST /api/performance-tests requests of a behaviour
    Target,         \* target_documents
    Responses,      \* what the API and the network may do to one request
    DashFaults,     \* which failures the environment may inject
    Pools,          \* does a starting dashboard reach PostgreSQL?
    MaxRestarts,    \* bound on the restarts of a behaviour
    None

Classes == {"2xx", "429", "4xx", "5xx", "other", "timeout", "transport"}

ASSUME TargetIsPositive == Target \in Nat \ {0}
ASSUME ResponsesAreKnown == Responses \subseteq Classes
ASSUME DashFaultsAreKnown == DashFaults \subseteq {"db", "request", "restart"}
ASSUME PoolsAreFlags == Pools \subseteq BOOLEAN
ASSUME MaxRestartsIsNat == MaxRestarts \in Nat

VARIABLES
    task,           \* where each test's handler or background task stands
    memory,         \* performance_tests: [status, result], or None
    row,            \* load_test_runs: [status, result, counts], or None
    sent,           \* requests the burst has started
    open,           \* ... and has not heard of yet
    tally,          \* status_codes, timeouts and transport_failures of the burst
    raised,         \* has a request raised what send_single does not catch?
    connected,      \* is there a db_pool?
    restarts

burstVars == <<sent, open, tally, raised>>
vars == <<task, memory, row, burstVars, connected, restarts>>

Buckets == {"accepted_202", "rejected_429", "rejected_4xx", "failed_5xx", "failed_timeout",
            "failed_transport"}
Stored == Buckets \ {"failed_transport"}    \* the table has no column for these
NoAnswers == [b \in Buckets |-> 0]

Status == {"PREPARING", "RUNNING", "COMPLETED", "FAILED"}
Verdict == {"PENDING", "PASS", "FAIL"}
Running == {"insert", "begin", "mark", "burst", "persist", "failed"}

Entry == [status: Status, result: Verdict]
Row == [status: Status, result: Verdict, counts: [Stored -> 0..Target]]
Told == [status: Status, result: Verdict, measured: BOOLEAN]

ASSUME NoneIsNoEntry == None \notin Entry /\ None \notin Row /\ None \notin Told

\* Type correctness: no counter of a burst exceeds the requests it was started with.
TypeOK ==
    /\ task \in [Tests -> Running \union {"idle", "ended", "lost"}]
    /\ memory \in [Tests -> Entry \union {None}]
    /\ row \in [Tests -> Row \union {None}]
    /\ sent \in [Tests -> 0..Target]
    /\ open \in [Tests -> 0..Target]
    /\ tally \in [Tests -> [Buckets -> 0..Target]]
    /\ raised \in [Tests -> BOOLEAN]
    /\ connected \in BOOLEAN
    /\ restarts \in 0..MaxRestarts

Init ==
    /\ task = [t \in Tests |-> "idle"]
    /\ memory = [t \in Tests |-> None]
    /\ row = [t \in Tests |-> None]
    /\ sent = [t \in Tests |-> 0]
    /\ open = [t \in Tests |-> 0]
    /\ tally = [t \in Tests |-> NoAnswers]
    /\ raised = [t \in Tests |-> FALSE]
    /\ connected \in Pools
    /\ restarts = 0

-----------------------------------------------------------------------------
(* Starting a test *)

Goto(t, label) == task' = [task EXCEPT ![t] = label]
Remember(t, status, result) ==
    memory' = [memory EXCEPT ![t] = [status |-> status, result |-> result]]
SameRun == UNCHANGED <<connected, restarts>>

Launch(t) ==
    /\ task[t] = "idle"
    /\ Remember(t, "PREPARING", "PENDING")
    /\ Goto(t, IF connected THEN "insert" ELSE "begin")
    /\ UNCHANGED <<row, burstVars>> /\ SameRun

NewRow == [status |-> "PREPARING", result |-> "PENDING", counts |-> [b \in Stored |-> 0]]

InsertRow(t) ==
    /\ task[t] = "insert"
    /\ row' = [row EXCEPT ![t] = NewRow]
    /\ Goto(t, "begin")
    /\ UNCHANGED <<memory, burstVars>> /\ SameRun

\* The INSERT raises, whether or not it took effect: only logged.
InsertFails(t) ==
    /\ "db" \in DashFaults
    /\ task[t] = "insert"
    /\ row' \in {row, [row EXCEPT ![t] = NewRow]}
    /\ Goto(t, "begin")
    /\ UNCHANGED <<memory, burstVars>> /\ SameRun

Begin(t) ==
    /\ task[t] = "begin"
    /\ Remember(t, "RUNNING", "PENDING")
    /\ Goto(t, IF connected THEN "mark" ELSE "burst")
    /\ UNCHANGED <<row, burstVars>> /\ SameRun

\* An UPDATE changes the row if there is one.
Update(t, new) == row' = IF row[t] = None THEN row ELSE [row EXCEPT ![t] = new]

MarkRunning(t) ==
    /\ task[t] = "mark"
    /\ \/ Update(t, [row[t] EXCEPT !.status = "RUNNING"])
       \/ "db" \in DashFaults /\ UNCHANGED row
    /\ Goto(t, "burst")
    /\ UNCHANGED <<memory, burstVars>> /\ SameRun

-----------------------------------------------------------------------------
(* The burst *)

\* Mutant: the loop runs once too often.
SendOneMore(t) ==
    /\ task[t] = "burst"
    /\ sent[t] <= Target
    /\ sent' = [sent EXCEPT ![t] = @ + 1]
    /\ open' = [open EXCEPT ![t] = @ + 1]
    /\ UNCHANGED <<task, memory, row, tally, raised>> /\ SameRun

Send(t) ==
    /\ task[t] = "burst"
    /\ sent[t] < Target
    /\ sent' = [sent EXCEPT ![t] = @ + 1]
    /\ open' = [open EXCEPT ![t] = @ + 1]
    /\ UNCHANGED <<task, memory, row, tally, raised>> /\ SameRun

\* send_single counts whatever is no error, a redirect too, as accepted.
BucketOf(response) ==
    CASE response \in {"2xx", "other"} -> "accepted_202"
      [] response = "429" -> "rejected_429"
      [] response = "4xx" -> "rejected_4xx"
      [] response = "5xx" -> "failed_5xx"
      [] response = "timeout" -> "failed_timeout"
      [] response = "transport" -> "failed_transport"

Hear(t, response) ==
    /\ task[t] = "burst"
    /\ open[t] > 0
    /\ open' = [open EXCEPT ![t] = @ - 1]
    /\ tally' = [tally EXCEPT ![t][BucketOf(response)] = @ + 1]
    /\ UNCHANGED <<task, memory, row, sent, raised>> /\ SameRun

\* An exception that is neither a timeout nor an HTTPError.
RequestRaises(t) ==
    /\ "request" \in DashFaults
    /\ task[t] = "burst"
    /\ open[t] > 0
    /\ open' = [open EXCEPT ![t] = @ - 1]
    /\ raised' = [raised EXCEPT ![t] = TRUE]
    /\ UNCHANGED <<task, memory, row, sent, tally>> /\ SameRun

Answered(t) == \E b \in Buckets \ {"failed_timeout", "failed_transport"} : tally[t][b] > 0

\* Mutant: the verdict looks at the answers only.
PassOfAnswers(t, onTime) ==
    /\ tally[t]["failed_5xx"] = 0
    /\ onTime /\ Answered(t)
    /\ 4 * tally[t]["accepted_202"] >=
          3 * (tally[t]["accepted_202"] + tally[t]["rejected_429"] + tally[t]["rejected_4xx"])

\* determine_test_result; onTime: is the p95 of the answers below 150 ms?
Pass(t, onTime) ==
    /\ sent[t] = Target
    /\ \A b \in {"failed_5xx", "failed_timeout", "failed_transport"} : tally[t][b] = 0
    /\ onTime /\ Answered(t)
    /\ 4 * tally[t]["accepted_202"] >= 3 * sent[t]

Conclude(t) ==
    /\ \E onTime \in BOOLEAN :
          Remember(t, "COMPLETED", IF Pass(t, onTime) THEN "PASS" ELSE "FAIL")
    /\ Goto(t, IF connected THEN "persist" ELSE "ended")
    /\ UNCHANGED <<row, burstVars>> /\ SameRun

\* Mutant: the result is computed when the last request has been sent.
GatherNothing(t) ==
    /\ task[t] = "burst"
    /\ sent[t] = Target
    /\ ~raised[t]
    /\ Conclude(t)

\* Mutant: the burst waits for as many answers as it sent requests.
GatherAnswers(t) ==
    /\ task[t] = "burst"
    /\ sent[t] = Target /\ open[t] = 0 /\ tally[t]["failed_transport"] = 0
    /\ ~raised[t]
    /\ Conclude(t)

\* await asyncio.gather(*tasks), the statistics and the verdict.
Gathered(t) ==
    /\ task[t] = "burst"
    /\ sent[t] = Target /\ open[t] = 0
    /\ ~raised[t]
    /\ Conclude(t)

\* gather raises at the first such exception, without waiting for the others.
GatherRaises(t) ==
    /\ task[t] = "burst"
    /\ sent[t] = Target
    /\ raised[t]
    /\ Remember(t, "FAILED", "FAIL")
    /\ Goto(t, IF connected THEN "failed" ELSE "ended")
    /\ UNCHANGED <<row, burstVars>> /\ SameRun

-----------------------------------------------------------------------------
(* Storing the result *)

ResultRow(t) ==
    [status |-> "COMPLETED", result |-> memory[t].result, counts |-> [b \in Stored |-> tally[t][b]]]

\* The UPDATE raises when no request was answered: the percentiles are None, and the
\* columns NOT NULL.
Persist(t) ==
    /\ task[t] = "persist"
    /\ IF Answered(t) THEN Update(t, ResultRow(t)) ELSE UNCHANGED row
    /\ Goto(t, "ended")
    /\ UNCHANGED <<memory, burstVars>> /\ SameRun

\* Mutant: without the inner try a failing UPDATE makes a completed test FAILED.
PersistFailsLoudly(t) ==
    /\ "db" \in DashFaults
    /\ task[t] = "persist"
    /\ UNCHANGED row \/ (Answered(t) /\ Update(t, ResultRow(t)))
    /\ Remember(t, "FAILED", "FAIL")
    /\ Goto(t, "failed")
    /\ UNCHANGED burstVars /\ SameRun

\* The UPDATE raises, whether or not it took effect: only logged.
PersistFails(t) ==
    /\ "db" \in DashFaults
    /\ task[t] = "persist"
    /\ UNCHANGED row \/ (Answered(t) /\ Update(t, ResultRow(t)))
    /\ Goto(t, "ended")
    /\ UNCHANGED <<memory, burstVars>> /\ SameRun

PersistFailure(t) ==
    /\ task[t] = "failed"
    /\ \/ Update(t, [row[t] EXCEPT !.status = "FAILED", !.result = "FAIL"])
       \/ "db" \in DashFaults /\ UNCHANGED row
    /\ Goto(t, "ended")
    /\ UNCHANGED <<memory, burstVars>> /\ SameRun

-----------------------------------------------------------------------------
\* The dashboard restarts: its memory and its tasks are gone, the rows stay.
Restart ==
    /\ "restart" \in DashFaults
    /\ restarts < MaxRestarts
    /\ restarts' = restarts + 1
    /\ connected' \in Pools
    /\ memory' = [t \in Tests |-> None]
    /\ task' = [t \in Tests |-> IF task[t] \in Running THEN "lost" ELSE task[t]]
    /\ UNCHANGED <<row, burstVars>>

StartTest(t) == Launch(t) \/ InsertRow(t) \/ InsertFails(t)

RunTimedBurst(t) ==
    Send(t) \/ (\E response \in Responses : Hear(t, response)) \/ RequestRaises(t)

RunTest(t) ==
    \/ Begin(t) \/ MarkRunning(t) \/ RunTimedBurst(t)
    \/ Gathered(t) \/ GatherRaises(t)
    \/ Persist(t) \/ PersistFails(t) \/ PersistFailure(t)

Next == (\E t \in Tests : StartTest(t) \/ RunTest(t)) \/ Restart

\* The event loop runs what can run; a request times out after ten seconds.
Fairness == \A t \in Tests : WF_vars(InsertRow(t) \/ InsertFails(t) \/ RunTest(t))

Spec == Init /\ [][Next]_vars /\ Fairness

-----------------------------------------------------------------------------
(* Properties *)

Sum(counts) ==
    counts["accepted_202"] + counts["rejected_429"] + counts["rejected_4xx"]
        + counts["failed_5xx"] + counts["failed_timeout"] + counts["failed_transport"]

Completed(t) ==
    \/ memory[t] # None /\ memory[t].status = "COMPLETED"
    \/ row[t] # None /\ row[t].status = "COMPLETED"

Passed(t) ==
    \/ memory[t] # None /\ memory[t].result = "PASS"
    \/ row[t] # None /\ row[t].result = "PASS"

\* app.py:511: "Do not close the client or persist a result while scheduled requests are
\* still running": the counters of a completed test account for every request, and what
\* the row does not account for are the transport failures.
CompletedIsWhole ==
    \A t \in Tests :
        /\ Completed(t) => open[t] = 0 /\ Sum(tally[t]) = Target
        /\ row[t] # None /\ row[t].status = "COMPLETED" =>
              row[t].counts = [b \in Stored |-> tally[t][b]]

\* Nobody is shown PASS, from memory or from the table, for a test in which a request was
\* lost or failed, or less than three in four were accepted.
PassIsEarned ==
    \A t \in Tests : Passed(t) =>
        /\ Sum(tally[t]) = tally[t]["accepted_202"] + tally[t]["rejected_429"] + tally[t]["rejected_4xx"]
        /\ 4 * tally[t]["accepted_202"] >= 3 * Target

\* GET answers from memory first and from the table afterwards.  Whatever fails, what it
\* tells of a test only moves forward, a row repeats what memory told, and a final state
\* stands: LoadTest implements TestService.
Offered(t, entry) ==
    IF entry = None THEN None
    ELSE [status |-> entry.status, result |-> entry.result,
          measured |-> entry.status = "COMPLETED" /\ Answered(t)]

Stage(label) ==
    CASE label = "idle" -> "idle"
      [] label \in Running -> "running"
      [] label \in {"ended", "lost"} -> "over"

FinalEntries ==
    {[status |-> "COMPLETED", result |-> "PASS", measured |-> TRUE]}
      \union [status : {"COMPLETED"}, result : {"FAIL"}, measured : BOOLEAN]
      \union {[status |-> "FAILED", result |-> "FAIL", measured |-> FALSE]}

Service == INSTANCE TestService WITH
    task <- [t \in Tests |-> Stage(task[t])],
    memory <- [t \in Tests |-> Offered(t, memory[t])],
    row <- [t \in Tests |-> Offered(t, row[t])],
    Outcomes <- FinalEntries

\* LoadTest implements TestService (the mapping above): what GET tells moves forward only.
ServiceSpec == Service!Spec

\* A test that was started ends, however its requests fare, unless the dashboard restarts.
TestEnds == \A t \in Tests : task[t] \in Running ~> task[t] \in {"ended", "lost"}

=============================================================================
