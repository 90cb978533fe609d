----------------------------- MODULE Admission ------------------------------
(***************************************************************************)
(* Admission control of the ingestion API: AdaptiveConcurrencyLimiter and  *)
(* TokenBucketRateLimiter of api/src/limiter.py, and the way               *)
(* ingest_audit_report passes through them.  Each uvicorn process has      *)
(* limiters of its own.                                                    *)
(*                                                                         *)
(* acquire, check_agency_limit and release never await while they change   *)
(* the state, so each is one step.  Between them a request parses its body *)
(* and does its work, and may leave at any point through the `finally`.    *)
(*                                                                         *)
(* Time advances in ticks, tokens are counted in units (Unit units make a  *)
(* token) and the limit in fractions of a slot (Scale of them make a       *)
(* slot).  The smoothed round-trip time is abstracted to its comparison    *)
(* with the target: each release finds it at most the target, or above.    *)
(***************************************************************************)
EXTENDS Integers, FiniteSets

CONSTANTS
    Requests,       \* connections of a process: each carries one request at a time
    Agencies, Procs,
    Unit,           \* units per token
    Rate,           \* RATE_LIMIT_AGENCY_RATE, in units per tick
    Burst,          \* RATE_LIMIT_AGENCY_BURST, in tokens
    Scale,          \* fractions per slot
    MinLimit, MaxLimit,     \* ADAPTIVE_MIN_LIMIT, ADAPTIVE_MAX_LIMIT, in slots
    Alpha,          \* ADAPTIVE_AIMD_ALPHA, in slots
    BetaNum, BetaDen,       \* ADAPTIVE_AIMD_BETA as a fraction
    MaxTime,        \* bound on the clock
    MaxSetbacks     \* bound on how often the clock is set back

ASSUME RequestsAreFinite == IsFiniteSet(Requests)
ASSUME TokensArePositive == Unit \in Nat \ {0} /\ Rate \in Nat \ {0} /\ Burst \in Nat \ {0}
ASSUME LimitsAreOrdered ==
    /\ Scale \in Nat \ {0} /\ MinLimit \in Nat \ {0} /\ MaxLimit \in Nat
    /\ 2 * MinLimit <= MaxLimit
ASSUME AdaptationIsSane ==
    Alpha \in Nat /\ BetaNum \in Nat /\ BetaDen \in Nat \ {0} /\ BetaNum <= BetaDen
ASSUME TimeIsBounded == MaxTime \in Nat /\ MaxSetbacks \in Nat

VARIABLES
    stage,          \* where each request of each process stands
    limit,          \* current_limit of each process
    inFlight,       \* in_flight of each process
    now,            \* time.time(), the wall clock: it may be set back
    setbacks,
    bucket,         \* _local_buckets of each process; NoBucket before the first check
    elapsed,        \* how far the clock ran since an observer began to count for an agency
    admitted        \* checks each process admitted since then

limiterVars == <<stage, limit, inFlight>>
bucketVars == <<bucket, admitted>>
clockVars == <<now, setbacks, elapsed>>
vars == <<limiterVars, bucketVars, clockVars>>

NoBucket == [tokens |-> -1, last |-> -1]
Bucket == [tokens: 0 .. Burst * Unit, last: Nat]

\* "admitted" holds a slot and has not met its bucket; "checked" still holds it.
Stages == {"out", "admitted", "checked"}

\* Type correctness: the limit of each process stays between its bounds, tokens within the
\* bucket, whatever the requests and the clock do to limiter.py's counters.
TypeOK ==
    /\ stage \in [Procs -> [Requests -> Stages]]
    /\ limit \in [Procs -> (MinLimit * Scale) .. (MaxLimit * Scale)]
    /\ inFlight \in [Procs -> Nat]
    /\ now \in Nat
    /\ setbacks \in Nat
    /\ bucket \in [Procs -> [Agencies -> Bucket \union {NoBucket}]]
    /\ elapsed \in [Agencies -> Nat]
    /\ admitted \in [Procs -> [Agencies -> Nat]]

InitialLimit == 2 * MinLimit * Scale

Init ==
    /\ stage = [p \in Procs |-> [r \in Requests |-> "out"]]
    /\ limit = [p \in Procs |-> InitialLimit]
    /\ inFlight = [p \in Procs |-> 0]
    /\ now = 0
    /\ setbacks = 0
    /\ bucket = [p \in Procs |-> [a \in Agencies |-> NoBucket]]
    /\ elapsed = [a \in Agencies |-> 0]
    /\ admitted = [p \in Procs |-> [a \in Agencies |-> 0]]

-----------------------------------------------------------------------------
(* The adaptive concurrency limiter *)

Least(m, n) == IF m <= n THEN m ELSE n
Most(m, n) == IF m >= n THEN m ELSE n

\* The requests of p between acquire and release.
Holding(p) == {r \in Requests : stage[p][r] # "out"}

HasSlot(p) == inFlight[p] < limit[p] \div Scale

\* (Without a slot the request is answered 429 and nothing changes.)
Acquire(p, r) ==
    /\ stage[p][r] = "out"
    /\ HasSlot(p)
    /\ inFlight' = [inFlight EXCEPT ![p] = @ + 1]
    /\ stage' = [stage EXCEPT ![p][r] = "admitted"]
    /\ UNCHANGED <<limit, bucketVars, clockVars>>

\* Mutant: the limit grows without bound.
GrowUnbounded(p) == limit' = [limit EXCEPT ![p] = @ + Alpha * Scale]

Grow(p) == limit' = [limit EXCEPT ![p] = Least(MaxLimit * Scale, @ + Alpha * Scale)]

\* Mutant: the limit may decay to nothing.
ShrinkUnbounded(p) == limit' = [limit EXCEPT ![p] = (@ * BetaNum) \div BetaDen]

Shrink(p) == limit' = [limit EXCEPT ![p] = Most(MinLimit * Scale, (@ * BetaNum) \div BetaDen)]

\* Mutant: release is not in the finally, and a request that raises before its
\* bucket check (an unreadable body) keeps its slot.
ReleaseWhenChecked(p, r) ==
    /\ stage[p][r] # "out"
    /\ stage' = [stage EXCEPT ![p][r] = "out"]
    /\ IF stage[p][r] = "checked"
       THEN inFlight' = [inFlight EXCEPT ![p] = Most(0, @ - 1)] /\ (Grow(p) \/ Shrink(p))
       ELSE UNCHANGED <<inFlight, limit>>
    /\ UNCHANGED <<bucketVars, clockVars>>

\* The finally of the handler: a reply of any kind, an exception, a lost client.
Release(p, r) ==
    /\ stage[p][r] # "out"
    /\ stage' = [stage EXCEPT ![p][r] = "out"]
    /\ inFlight' = [inFlight EXCEPT ![p] = Most(0, @ - 1)]
    /\ Grow(p) \/ Shrink(p)
    /\ UNCHANGED <<bucketVars, clockVars>>

-----------------------------------------------------------------------------
(* The token bucket *)

\* Mutant: the refill is not capped at the burst capacity.
UncappedRefill(p, a) == bucket[p][a].tokens + Rate * Most(0, now - bucket[p][a].last)

\* Mutant: a clock that was set back takes tokens away again.
RefillBackwards(p, a) ==
    Least(Burst * Unit, bucket[p][a].tokens + Rate * (now - bucket[p][a].last))

\* The tokens of a bucket brought up to date; a clock that was set back adds none.
Refilled(p, a) ==
    Least(Burst * Unit, bucket[p][a].tokens + Rate * Most(0, now - bucket[p][a].last))

Enough(tokens) == tokens >= Unit

Admit(p, a, tokens) ==
    /\ bucket' = [bucket EXCEPT ![p][a] = [tokens |-> tokens - Unit, last |-> now]]
    /\ admitted' = [admitted EXCEPT ![p][a] = @ + 1]

FirstCheck(p, a) ==
    /\ bucket[p][a] = NoBucket
    /\ Admit(p, a, Burst * Unit)

CheckAdmits(p, a) ==
    /\ bucket[p][a] # NoBucket
    /\ Enough(Refilled(p, a))
    /\ Admit(p, a, Refilled(p, a))

CheckRejects(p, a) ==
    /\ bucket[p][a] # NoBucket
    /\ ~Enough(Refilled(p, a))
    /\ bucket' = [bucket EXCEPT ![p][a] = [tokens |-> Refilled(p, a), last |-> now]]
    /\ UNCHANGED admitted

\* check_agency_limit, for the agency that the request's body names.
Check(p, r, a) ==
    /\ stage[p][r] = "admitted"
    /\ stage' = [stage EXCEPT ![p][r] = "checked"]
    /\ FirstCheck(p, a) \/ CheckAdmits(p, a) \/ CheckRejects(p, a)
    /\ UNCHANGED <<limit, inFlight, clockVars>>

-----------------------------------------------------------------------------
\* A process restarts with fresh limiters; what it admitted before is forgotten.
Restart(p) ==
    /\ stage' = [stage EXCEPT ![p] = [r \in Requests |-> "out"]]
    /\ limit' = [limit EXCEPT ![p] = InitialLimit]
    /\ inFlight' = [inFlight EXCEPT ![p] = 0]
    /\ bucket' = [bucket EXCEPT ![p] = [a \in Agencies |-> NoBucket]]
    /\ admitted' = [admitted EXCEPT ![p] = [a \in Agencies |-> 0]]
    /\ UNCHANGED clockVars

\* Not of the code: time passes, the clock of the host is corrected, and an observer
\* starts counting an agency's admissions at any moment.
Tick ==
    /\ now < MaxTime
    /\ now' = now + 1
    /\ elapsed' = [a \in Agencies |-> elapsed[a] + 1]
    /\ UNCHANGED <<limiterVars, bucketVars, setbacks>>

SetBack ==
    /\ setbacks < MaxSetbacks
    /\ setbacks' = setbacks + 1
    /\ \E t \in 0 .. now - 1 : now' = t
    /\ UNCHANGED <<limiterVars, bucketVars, elapsed>>

Observe(a) ==
    /\ elapsed' = [elapsed EXCEPT ![a] = 0]
    /\ admitted' = [p \in Procs |-> [admitted[p] EXCEPT ![a] = 0]]
    /\ UNCHANGED <<limiterVars, bucket, now, setbacks>>

Next ==
    \/ Tick \/ SetBack
    \/ \E a \in Agencies : Observe(a)
    \/ \E p \in Procs : Restart(p)
    \/ \E p \in Procs, r \in Requests :
          Acquire(p, r) \/ Release(p, r) \/ \E a \in Agencies : Check(p, r, a)

Spec == Init /\ [][Next]_vars

-----------------------------------------------------------------------------
(* Properties *)

\* The counter is the number of requests that really hold a slot, after any mix of
\* early returns, exceptions and restarts: slots neither leak nor double.
InFlightIsExact ==
    \A p \in Procs : inFlight[p] = Cardinality(Holding(p))

\* A process never runs more than ADAPTIVE_MAX_LIMIT requests, also right after its
\* limit has shrunk below what is in flight.
InFlightBounded == \A p \in Procs : inFlight[p] <= MaxLimit

\* Shedding never locks a process out: however far the limit has shrunk, a process
\* that runs nothing takes the next request.
IdleTakesRequests == \A p \in Procs : Holding(p) = {} => HasSlot(p)

\* In every window of time a process admits an agency at most its burst plus what
\* refills while the clock runs, wherever the window starts, however the checks are
\* spread over it, and also when the clock is set back and runs through the same time
\* twice.
WindowBound ==
    \A p \in Procs, a \in Agencies :
        admitted[p][a] * Unit <= Burst * Unit + Rate * elapsed[a]

\* What the next check of an agency will find.
Left(p, a) == IF bucket[p][a] = NoBucket THEN Burst * Unit ELSE Refilled(p, a)

\* Why: the tokens in hand count against the window as well.
Budget ==
    \A p \in Procs, a \in Agencies :
        admitted[p][a] * Unit + Left(p, a) <= Burst * Unit + Rate * elapsed[a]

=============================================================================
