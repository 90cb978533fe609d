----------------------------- MODULE Dashboard -----------------------------
(***************************************************************************)
(* The dashboard process: its load tests and its batches, which share the  *)
(* event loop and are forgotten together when it restarts.                 *)
(***************************************************************************)
EXTENDS LoadTest

CONSTANTS Uploads, Size

ASSUME SizeIsPositive == Size \in Nat \ {0}

VARIABLES batches, sender, taken, adrift

Desk == INSTANCE Batches WITH Absent <- None

ASSUME NoneIsNoBatch == None \notin Desk!Batch

deskVars == <<batches, sender, taken, adrift>>
dashboardVars == <<vars, deskVars>>

\* Type correctness of the whole process: see LoadTest and Batches.
DashboardTypeOK == TypeOK /\ Desk!BatchTypeOK

DashboardInit == Init /\ Desk!BatchInit

\* One handler or task runs at a time, between two of its awaits.
LoadTestStep ==
    /\ \E t \in Tests : StartTest(t) \/ RunTest(t)
    /\ UNCHANGED deskVars

BatchStep == Desk!BatchNext /\ UNCHANGED vars

RestartDashboard == Restart /\ Desk!ForgetBatches

DashboardNext == LoadTestStep \/ BatchStep \/ RestartDashboard

\* The event loop runs what can run; every request is answered or times out.
DashboardFairness ==
    /\ \A t \in Tests : WF_dashboardVars(
          (InsertRow(t) \/ InsertFails(t) \/ RunTest(t)) /\ UNCHANGED deskVars)
    /\ \A b \in Uploads : WF_dashboardVars(Desk!RunBatch(b) /\ UNCHANGED vars)

DashboardSpec == DashboardInit /\ [][DashboardNext]_dashboardVars /\ DashboardFairness

\* See LoadTest and Batches.
BatchIsCounted == Desk!BatchIsCounted
BatchEnds == Desk!BatchEnds

=============================================================================
