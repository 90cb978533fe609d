\* A token refills in three ticks, the burst is two tokens; limits of 1 to 3
\* slots with Alpha = 1 and beta = 0.8, more requests than slots, and a clock that is
\* set back once.
CONSTANTS
    Requests = {r1, r2, r3, r4}
    Agencies = {a1}
    Procs = {p1}
    Unit = 3
    Rate = 1
    Burst = 2
    Scale = 5
    MinLimit = 1
    MaxLimit = 3
    Alpha = 1
    BetaNum = 4
    BetaDen = 5
    MaxTime = 7
    MaxSetbacks = 1
SPECIFICATION Spec
SYMMETRY Symmetry
INVARIANTS
    TypeOK
    InFlightIsExact
    InFlightBounded
    IdleTakesRequests
    WindowBound
