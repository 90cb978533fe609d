---------------------------- MODULE MCDashboard ----------------------------
(* A small instance of Dashboard for TLC. *)
EXTENDS Dashboard, TLC

AnyResponse == {"2xx", "429", "4xx", "5xx", "other", "timeout", "transport"}

=============================================================================
