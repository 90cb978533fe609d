---------------------------- MODULE TestService ----------------------------
(***************************************************************************)
(* What GET /api/performance-tests/{id} promises about the load tests of   *)
(* the dashboard, whatever the burst does: an abstract specification.      *)
(*                                                                         *)
(* A test is told from memory while the dashboard remembers it and from    *)
(* its row of load_test_runs afterwards.  What memory tells only moves     *)
(* forward, the row repeats something memory has told, and a final state   *)
(* is told once and for all.  LoadTest implements this specification, and  *)
(* Console is the client that lives on it.                                 *)
(***************************************************************************)
EXTENDS Integers

CONSTANTS
    Tests,          \* the POST /api/performance-tests requests of a behaviour
    Pools,          \* does a starting dashboard reach PostgreSQL?
    MaxRestarts,    \* bound on the restarts of a behaviour
    Outcomes,       \* the final entries a test may come to
    None

\* measured: did any request get an answer, so that there are percentiles?
AllOutcomes ==
    {[status |-> "COMPLETED", result |-> "PASS", measured |-> TRUE]}
      \union [status : {"COMPLETED"}, result : {"FAIL"}, measured : BOOLEAN]
      \union [status : {"FAILED"}, result : {"FAIL"}, measured : {FALSE}]

ASSUME OutcomesArePossible == Outcomes \subseteq AllOutcomes

VARIABLES
    task,           \* "idle", "running" or "over"
    memory,         \* performance_tests: what is told, or None
    row,            \* load_test_runs: what is told, or None
    connected,      \* is there a db_pool?
    restarts

vars == <<task, memory, row, connected, restarts>>

Final == {"COMPLETED", "FAILED"}
Preparing == [status |-> "PREPARING", result |-> "PENDING", measured |-> FALSE]
UnderWay == [status |-> "RUNNING", result |-> "PENDING", measured |-> FALSE]
Entries == {Preparing, UnderWay} \union Outcomes

ASSUME NoneIsNotTold == None \notin Entries

Rank(entry) ==
    CASE entry = Preparing -> 1
      [] entry = UnderWay -> 2
      [] OTHER -> 3

Init ==
    /\ task = [t \in Tests |-> "idle"]
    /\ memory = [t \in Tests |-> None]
    /\ row = [t \in Tests |-> None]
    /\ connected \in Pools
    /\ restarts = 0

\* Mutant: the table is asked first.
GetRowFirst(t) ==
    IF connected /\ row[t] # None THEN row[t] ELSE memory[t]

\* What the GET handler answers; None is a 404.
Get(t) ==
    IF memory[t] # None THEN memory[t]
    ELSE IF connected THEN row[t]
    ELSE None

-----------------------------------------------------------------------------
Launch(t) ==
    /\ task[t] = "idle"
    /\ task' = [task EXCEPT ![t] = "running"]
    /\ memory' = [memory EXCEPT ![t] = Preparing]
    /\ UNCHANGED <<row, connected, restarts>>

\* With a final state the task may be through, or have the row still to write.
MayEnd(t, entry) ==
    \/ UNCHANGED task
    \/ entry.status \in Final /\ task' = [task EXCEPT ![t] = "over"]

Tell(t) ==
    /\ task[t] = "running"
    /\ \E entry \in Entries :
          /\ Rank(entry) > Rank(memory[t])
          /\ memory' = [memory EXCEPT ![t] = entry]
          /\ MayEnd(t, entry)
    /\ UNCHANGED <<row, connected, restarts>>

\* Mutant: the row of a test whose requests all failed is a plain FAILED.
StoreFailure(t) ==
    /\ task[t] = "running"
    /\ connected
    /\ row[t] # None \/ memory[t] = Preparing
    /\ row' = [row EXCEPT ![t] = IF memory[t].result = "FAIL"
                                 THEN [status |-> "FAILED", result |-> "FAIL", measured |-> FALSE]
                                 ELSE memory[t]]
    /\ MayEnd(t, memory[t])
    /\ UNCHANGED <<memory, connected, restarts>>

\* There is nothing to store of a completed test without a percentile.
Store(t) ==
    /\ task[t] = "running"
    /\ connected
    /\ row[t] # None \/ memory[t] = Preparing
    /\ memory[t].status = "COMPLETED" => memory[t].measured
    /\ row' = [row EXCEPT ![t] = memory[t]]
    /\ MayEnd(t, memory[t])
    /\ UNCHANGED <<memory, connected, restarts>>

\* The task is through, whether or not it stored the final state.
End(t) ==
    /\ task[t] = "running"
    /\ memory[t].status \in Final
    /\ task' = [task EXCEPT ![t] = "over"]
    /\ UNCHANGED <<memory, row, connected, restarts>>

\* The dashboard restarts: its memory and its tasks are gone, the rows stay.
Restart ==
    /\ restarts < MaxRestarts
    /\ restarts' = restarts + 1
    /\ connected' \in Pools
    /\ memory' = [t \in Tests |-> None]
    /\ task' = [t \in Tests |-> IF task[t] = "running" THEN "over" ELSE task[t]]
    /\ UNCHANGED row

Next == (\E t \in Tests : Launch(t) \/ Tell(t) \/ Store(t) \/ End(t)) \/ Restart

Spec == Init /\ [][Next]_vars

=============================================================================
