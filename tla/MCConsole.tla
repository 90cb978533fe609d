----------------------------- MODULE MCConsole -----------------------------
(* A small instance of Console for TLC. *)
EXTENDS Console, TLC

\* A test passes, is failed for want of any answer, or breaks off.
ThreeOutcomes ==
    {[status |-> "COMPLETED", result |-> "PASS", measured |-> TRUE],
     [status |-> "COMPLETED", result |-> "FAIL", measured |-> FALSE],
     [status |-> "FAILED", result |-> "FAIL", measured |-> FALSE]}

=============================================================================
