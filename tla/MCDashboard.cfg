\* A load test of four requests, so that three in four can be accepted, with every kind of
\* answer and of failure, beside a batch of two reports; the dashboard may restart once,
\* with or without its database.
CONSTANTS
    Tests = {t1}
    Target = 4
    Responses <- AnyResponse
    DashFaults = {"db", "request", "restart"}
    Pools = {TRUE, FALSE}
    MaxRestarts = 1
    Uploads = {b1}
    Size = 2
    None = None
SPECIFICATION DashboardSpec
CHECK_DEADLOCK FALSE
INVARIANTS
    DashboardTypeOK
    CompletedIsWhole
    PassIsEarned
    BatchIsCounted
PROPERTIES
    ServiceSpec
    TestEnds
    BatchEnds
