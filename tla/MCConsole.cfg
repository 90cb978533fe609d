\* Two tests, one after the other or at once, each polled by an interval of its own, and a
\* restart of the dashboard.
CONSTANTS
    Tests = {1, 2}
    Pools = {TRUE}
    MaxRestarts = 1
    Outcomes <- ThreeOutcomes
    None = None
SPECIFICATION ConsoleSpec
CHECK_DEADLOCK FALSE
INVARIANTS
    ConsoleTypeOK
    ControlsComeBack
    VerdictStands
PROPERTIES
    WatchEnds
