-------------------------- MODULE AdmissionProofs ---------------------------
(***************************************************************************)
(* Theorems about Admission, for any number of processes, requests and     *)
(* agencies and any rates and limits that satisfy the module's             *)
(* assumptions.                                                            *)
(***************************************************************************)
EXTENDS Admission, FiniteSetTheorems, TLAPS

-----------------------------------------------------------------------------
(* Arithmetic of the limit *)

\* Shrinking never raises the limit: the factor beta is at most one.
LEMMA ScaledDown ==
    ASSUME NEW n \in Nat
    PROVE  (n * BetaNum) \div BetaDen \in 0 .. n
<1>1. n * BetaNum \in Nat /\ n * BetaNum <= BetaDen * n
  BY AdaptationIsSane, SMTT(30)
<1>2. (n * BetaNum) \div BetaDen <= n
  BY <1>1, AdaptationIsSane, SMTT(30)
<1>3. (n * BetaNum) \div BetaDen \in Nat
  BY <1>1, AdaptationIsSane, SMTT(30)
<1> QED
  BY <1>2, <1>3

\* A limit within its bounds is worth between MinLimit and MaxLimit whole slots.
LEMMA WholeSlots ==
    ASSUME NEW n \in (MinLimit * Scale) .. (MaxLimit * Scale)
    PROVE  n \div Scale \in MinLimit .. MaxLimit
<1>1. n \in Nat /\ n >= MinLimit * Scale /\ n <= MaxLimit * Scale
  BY LimitsAreOrdered, SMTT(30)
<1>2. n \div Scale <= MaxLimit
  BY <1>1, LimitsAreOrdered, SMTT(30)
<1>3. n \div Scale >= MinLimit
  BY <1>1, LimitsAreOrdered, SMTT(30)
<1>4. n \div Scale \in Nat
  BY <1>1, LimitsAreOrdered, SMTT(30)
<1> QED
  BY <1>2, <1>3, <1>4, LimitsAreOrdered

-----------------------------------------------------------------------------
(* Arithmetic of the buckets *)

\* Bringing a bucket up to date keeps it within its capacity and takes nothing away,
\* wherever the clock stands.
LEMMA RefillInRange ==
    ASSUME NEW tokens \in 0 .. Burst * Unit, NEW l \in Nat, NEW t \in Nat
    PROVE  /\ Least(Burst * Unit, tokens + Rate * Most(0, t - l)) \in 0 .. Burst * Unit
           /\ Rate * Most(0, t - l) \in Nat
<1>1. Burst * Unit \in Nat /\ Most(0, t - l) \in Nat
  BY TokensArePositive, SMTT(30) DEF Most
<1>2. Rate * Most(0, t - l) \in Nat
  BY <1>1, TokensArePositive, SMTT(30)
<1> QED
  BY <1>1, <1>2 DEF Least

\* A tick of the clock adds at most one tick's refill to what a bucket holds.
LEMMA TickRefills ==
    ASSUME NEW tokens \in 0 .. Burst * Unit, NEW l \in Nat, NEW t \in Nat, NEW u \in Nat,
           u = t + 1
    PROVE  Least(Burst * Unit, tokens + Rate * Most(0, u - l))
               <= Least(Burst * Unit, tokens + Rate * Most(0, t - l)) + Rate
<1>1. Burst * Unit \in Nat /\ Rate * Most(0, t - l) \in Nat /\ Rate * Most(0, u - l) \in Nat
  <2>1. Burst * Unit \in Nat
    BY TokensArePositive, SMTT(30)
  <2>2. Rate * Most(0, t - l) \in Nat
    BY RefillInRange
  <2>3. Rate * Most(0, u - l) \in Nat
    BY RefillInRange
  <2> QED
    BY <2>1, <2>2, <2>3
<1>2. Rate * Most(0, u - l) <= Rate * Most(0, t - l) + Rate
  <2>1. CASE t >= l
    <3>1. Rate * (u - l) = Rate * (t - l) + Rate
      BY TokensArePositive, SMTT(30)
    <3> QED
      BY <2>1, <3>1, <1>1, TokensArePositive DEF Most
  <2>2. CASE t < l
    <3>1. Most(0, t - l) = 0 /\ Most(0, u - l) = 0
      BY <2>2 DEF Most
    <3> QED
      BY <3>1, TokensArePositive
  <2> QED
    BY <2>1, <2>2
<1> QED
  BY <1>1, <1>2, TokensArePositive DEF Least

\* Setting the clock back adds nothing.
LEMMA SetBackRefillsNothing ==
    ASSUME NEW tokens \in 0 .. Burst * Unit, NEW l \in Nat, NEW t \in Nat, NEW u \in Nat, u <= t
    PROVE  Least(Burst * Unit, tokens + Rate * Most(0, u - l))
               <= Least(Burst * Unit, tokens + Rate * Most(0, t - l))
<1>1. Burst * Unit \in Nat /\ Rate * Most(0, t - l) \in Nat /\ Rate * Most(0, u - l) \in Nat
  <2>1. Burst * Unit \in Nat
    BY TokensArePositive, SMTT(30)
  <2>2. Rate * Most(0, t - l) \in Nat
    BY RefillInRange
  <2>3. Rate * Most(0, u - l) \in Nat
    BY RefillInRange
  <2> QED
    BY <2>1, <2>2, <2>3
<1>2. Most(0, u - l) \in Nat /\ Most(0, t - l) \in Nat /\ Most(0, u - l) <= Most(0, t - l)
  BY DEF Most
<1> HIDE DEF Most
<1>3. Rate * Most(0, u - l) <= Rate * Most(0, t - l)
  BY <1>2, TokensArePositive, SMTT(30)
<1> QED
  BY <1>1, <1>3 DEF Least

-----------------------------------------------------------------------------
(* Types and the token budget *)

BucketInv == TypeOK /\ Budget

\* What the budget says of one bucket.
Within(p, a) == admitted[p][a] * Unit + Left(p, a) <= Burst * Unit + Rate * elapsed[a]

LEMMA BucketInvInit == Init => BucketInv
<1> SUFFICES ASSUME Init PROVE BucketInv
  OBVIOUS
<1>1. InitialLimit \in (MinLimit * Scale) .. (MaxLimit * Scale)
  BY LimitsAreOrdered, SMTT(30) DEF InitialLimit
<1>2. TypeOK
  BY <1>1, LimitsAreOrdered DEF Init, TypeOK, Stages
<1>3. Burst * Unit \in Nat /\ 0 * Unit = 0 /\ Rate * 0 = 0
  BY TokensArePositive, SMTT(30)
<1>4. Budget
  BY <1>3 DEF Init, Budget, Left
<1> QED
  BY <1>2, <1>4 DEF BucketInv

\* What a process could admit at once is at most its burst.
LEMMA LeftInRange ==
    ASSUME TypeOK, NEW p \in Procs, NEW a \in Agencies
    PROVE  /\ Left(p, a) \in 0 .. Burst * Unit
           /\ Burst * Unit \in Nat /\ Unit <= Burst * Unit
           /\ bucket[p][a] # NoBucket =>
                 bucket[p][a].tokens \in 0 .. Burst * Unit /\ bucket[p][a].last \in Nat
<1>1. Burst * Unit \in Nat /\ Unit <= Burst * Unit /\ now \in Nat
  BY TokensArePositive, SMTT(30) DEF TypeOK
<1>2. bucket[p][a] # NoBucket =>
          bucket[p][a].tokens \in 0 .. Burst * Unit /\ bucket[p][a].last \in Nat
  BY DEF TypeOK, Bucket
<1> QED
  BY <1>1, <1>2, RefillInRange DEF Left, Refilled

\* A check, whatever it decides, leaves a bucket in range and within the budget.
LEMMA CheckKeepsBudget ==
    ASSUME BucketInv, NEW p \in Procs, NEW a \in Agencies,
           UNCHANGED <<now, elapsed>>,
           FirstCheck(p, a) \/ CheckAdmits(p, a) \/ CheckRejects(p, a)
    PROVE  /\ bucket' \in [Procs -> [Agencies -> Bucket \union {NoBucket}]]
           /\ admitted' \in [Procs -> [Agencies -> Nat]]
           /\ Budget'
<1> DEFINE n == admitted[p][a]
           Sound(tokens, count) ==
               /\ tokens \in 0 .. Burst * Unit /\ count \in Nat
               /\ count * Unit + tokens <= Burst * Unit + Rate * elapsed[a]
<1>1. /\ n \in Nat /\ now \in Nat /\ Left(p, a) \in 0 .. Burst * Unit
      /\ Burst * Unit \in Nat /\ Unit <= Burst * Unit /\ Unit \in Nat \ {0}
  BY LeftInRange, TokensArePositive DEF BucketInv, TypeOK
<1>2. n * Unit + Left(p, a) <= Burst * Unit + Rate * elapsed[a]
  BY DEF BucketInv, Budget
<1>3. n * Unit \in Nat /\ (n + 1) * Unit = n * Unit + Unit /\ Rate * elapsed[a] \in Nat
  BY <1>1, TokensArePositive, SMTT(30) DEF BucketInv, TypeOK
<1>4. ASSUME NEW tokens, NEW count, Sound(tokens, count),
             bucket' = [bucket EXCEPT ![p][a] = [tokens |-> tokens, last |-> now]],
             admitted' = [admitted EXCEPT ![p][a] = count]
      PROVE  /\ bucket' \in [Procs -> [Agencies -> Bucket \union {NoBucket}]]
             /\ admitted' \in [Procs -> [Agencies -> Nat]]
             /\ Budget'
  <2>1. [tokens |-> tokens, last |-> now] \in Bucket
    BY <1>1, <1>4 DEF Bucket
  <2>2. /\ bucket' \in [Procs -> [Agencies -> Bucket \union {NoBucket}]]
        /\ admitted' \in [Procs -> [Agencies -> Nat]]
    BY <1>4, <2>1 DEF BucketInv, TypeOK
  <2>3. ASSUME NEW x \in Procs, NEW c \in Agencies
        PROVE  Within(x, c)'
    <3>1. CASE x = p /\ c = a
      <4>1. /\ bucket'[x][c] = [tokens |-> tokens, last |-> now]
            /\ admitted'[x][c] = count /\ elapsed'[c] = elapsed[a]
        BY <3>1, <1>4 DEF BucketInv, TypeOK
      <4>2. bucket'[x][c] # NoBucket
        BY <4>1, <1>4, <1>1 DEF NoBucket
      <4>3. now' = now /\ Most(0, now - now) = 0 /\ Rate * 0 = 0
        BY <1>1, TokensArePositive DEF Most
      <4>4. Left(x, c)' = tokens
        BY <4>1, <4>2, <4>3, <1>4, <1>1 DEF Left, Refilled, Least
      <4> QED
        BY <4>1, <4>4, <1>4 DEF Within
    <3>2. CASE ~(x = p /\ c = a)
      <4>1. /\ bucket'[x][c] = bucket[x][c] /\ admitted'[x][c] = admitted[x][c]
            /\ elapsed'[c] = elapsed[c] /\ now' = now
        BY <3>2, <1>4 DEF BucketInv, TypeOK
      <4> QED
        BY <4>1 DEF BucketInv, Budget, Within, Left, Refilled
    <3> QED
      BY <3>1, <3>2
  <2> QED
    BY <2>2, <2>3 DEF Budget, Within
<1>5. CASE FirstCheck(p, a)
  <2>1. Left(p, a) = Burst * Unit
    BY <1>5 DEF FirstCheck, Left
  <2>2. Sound(Burst * Unit - Unit, n + 1)
    BY <2>1, <1>1, <1>2, <1>3
  <2> QED
    BY <2>2, <1>4, <1>5 DEF FirstCheck, Admit, BucketInv, TypeOK
<1>6. bucket[p][a] # NoBucket => Left(p, a) = Refilled(p, a)
  BY DEF Left
<1>7. CASE CheckAdmits(p, a)
  <2>1. Left(p, a) = Refilled(p, a) /\ Refilled(p, a) >= Unit
    BY <1>6, <1>7 DEF CheckAdmits, Enough
  <2>2. Sound(Refilled(p, a) - Unit, n + 1)
    BY <2>1, <1>1, <1>2, <1>3
  <2> QED
    BY <2>2, <1>4, <1>7 DEF CheckAdmits, Admit, BucketInv, TypeOK
<1>8. CASE CheckRejects(p, a)
  <2>1. Sound(Refilled(p, a), n)
    BY <1>1, <1>2, <1>6, <1>8 DEF CheckRejects
  <2>2. admitted' = [admitted EXCEPT ![p][a] = n]
    BY <1>8 DEF CheckRejects, BucketInv, TypeOK
  <2> QED
    BY <2>1, <2>2, <1>4, <1>8 DEF CheckRejects
<1> QED
  BY <1>5, <1>7, <1>8

\* A new limit stays within its bounds.
LEMMA LimitStaysInBounds ==
    ASSUME TypeOK, NEW p \in Procs, Grow(p) \/ Shrink(p)
    PROVE  limit' \in [Procs -> (MinLimit * Scale) .. (MaxLimit * Scale)]
<1>1. /\ limit[p] \in Nat /\ limit[p] >= MinLimit * Scale /\ limit[p] <= MaxLimit * Scale
      /\ MinLimit * Scale \in Nat /\ MaxLimit * Scale \in Nat /\ Alpha * Scale \in Nat
      /\ MinLimit * Scale <= MaxLimit * Scale
  <2>1. /\ MinLimit * Scale \in Nat /\ MaxLimit * Scale \in Nat /\ Alpha * Scale \in Nat
        /\ MinLimit * Scale <= MaxLimit * Scale
    BY LimitsAreOrdered, AdaptationIsSane, SMTT(30)
  <2>2. limit[p] \in (MinLimit * Scale) .. (MaxLimit * Scale)
    BY DEF TypeOK
  <2> QED
    BY <2>1, <2>2
<1>2. CASE Grow(p)
  <2>1. Least(MaxLimit * Scale, limit[p] + Alpha * Scale)
            \in (MinLimit * Scale) .. (MaxLimit * Scale)
    BY <1>1 DEF Least
  <2> QED
    BY <1>2, <2>1 DEF Grow, TypeOK
<1>3. CASE Shrink(p)
  <2>1. (limit[p] * BetaNum) \div BetaDen \in 0 .. limit[p]
    BY <1>1, ScaledDown
  <2>2. Most(MinLimit * Scale, (limit[p] * BetaNum) \div BetaDen)
            \in (MinLimit * Scale) .. (MaxLimit * Scale)
    BY <1>1, <2>1 DEF Most
  <2> QED
    BY <1>3, <2>2 DEF Shrink, TypeOK
<1> QED
  BY <1>2, <1>3

LEMMA BucketInvStep == BucketInv /\ [Next]_vars => BucketInv'
<1> SUFFICES ASSUME BucketInv, [Next]_vars PROVE BucketInv'
  OBVIOUS
<1> USE DEF limiterVars, bucketVars, clockVars
<1>0. ASSUME bucket' = bucket, admitted' = admitted, now' = now, elapsed' = elapsed
      PROVE  Budget'
  BY <1>0 DEF BucketInv, Budget, Left, Refilled
<1>1. ASSUME NEW p \in Procs, NEW r \in Requests, Acquire(p, r)
      PROVE  BucketInv'
  <2>1. TypeOK'
    BY <1>1 DEF Acquire, BucketInv, TypeOK, Stages
  <2>2. Budget'
    BY <1>0, <1>1 DEF Acquire
  <2> QED
    BY <2>1, <2>2 DEF BucketInv
<1>2. ASSUME NEW p \in Procs, NEW r \in Requests, Release(p, r)
      PROVE  BucketInv'
  <2>1. limit' \in [Procs -> (MinLimit * Scale) .. (MaxLimit * Scale)]
    BY <1>2, LimitStaysInBounds DEF Release, BucketInv
  <2>2. inFlight' \in [Procs -> Nat]
    BY <1>2 DEF Release, Most, BucketInv, TypeOK
  <2>3. TypeOK'
    BY <1>2, <2>1, <2>2 DEF Release, BucketInv, TypeOK, Stages
  <2>4. Budget'
    BY <1>0, <1>2 DEF Release
  <2> QED
    BY <2>3, <2>4 DEF BucketInv
<1>3. ASSUME NEW p \in Procs, NEW r \in Requests, NEW a \in Agencies, Check(p, r, a)
      PROVE  BucketInv'
  <2>1. /\ bucket' \in [Procs -> [Agencies -> Bucket \union {NoBucket}]]
        /\ admitted' \in [Procs -> [Agencies -> Nat]]
        /\ Budget'
    BY <1>3, CheckKeepsBudget DEF Check
  <2>2. TypeOK'
    BY <1>3, <2>1 DEF Check, BucketInv, TypeOK, Stages
  <2> QED
    BY <2>1, <2>2 DEF BucketInv
<1>4. ASSUME NEW p \in Procs, Restart(p)
      PROVE  BucketInv'
  <2>1. InitialLimit \in (MinLimit * Scale) .. (MaxLimit * Scale)
    BY LimitsAreOrdered, SMTT(30) DEF InitialLimit
  <2>2. TypeOK'
    BY <1>4, <2>1 DEF Restart, BucketInv, TypeOK, Stages
  <2>3. ASSUME NEW x \in Procs, NEW c \in Agencies
        PROVE  Within(x, c)'
    <3>1. CASE x = p
      <4>1. bucket'[x][c] = NoBucket /\ admitted'[x][c] = 0 /\ elapsed' = elapsed
        BY <1>4, <3>1 DEF Restart, BucketInv, TypeOK
      <4>2. Burst * Unit \in Nat /\ 0 * Unit = 0 /\ Rate * elapsed[c] \in Nat
        BY TokensArePositive, SMTT(30) DEF BucketInv, TypeOK
      <4> QED
        BY <4>1, <4>2 DEF Within, Left
    <3>2. CASE x # p
      <4>1. /\ bucket'[x][c] = bucket[x][c] /\ admitted'[x][c] = admitted[x][c]
            /\ now' = now /\ elapsed' = elapsed
        BY <1>4, <3>2 DEF Restart, BucketInv, TypeOK
      <4> QED
        BY <4>1 DEF BucketInv, Budget, Within, Left, Refilled
    <3> QED
      BY <3>1, <3>2
  <2> QED
    BY <2>2, <2>3 DEF BucketInv, Budget, Within
<1>5. ASSUME NEW a \in Agencies, Observe(a)
      PROVE  BucketInv'
  <2>1. TypeOK'
    BY <1>5 DEF Observe, BucketInv, TypeOK
  <2>2. ASSUME NEW x \in Procs, NEW c \in Agencies
        PROVE  Within(x, c)'
    <3>1. Left(x, c)' = Left(x, c)
      BY <1>5 DEF Observe, Left, Refilled
    <3>2. CASE c = a
      <4>1. admitted'[x][c] = 0 /\ elapsed'[c] = 0
        BY <1>5, <3>2 DEF Observe, BucketInv, TypeOK
      <4>2. 0 * Unit = 0 /\ Rate * 0 = 0 /\ Left(x, c) \in 0 .. Burst * Unit
            /\ Burst * Unit \in Nat
        BY LeftInRange, TokensArePositive DEF BucketInv
      <4> QED
        BY <3>1, <4>1, <4>2 DEF Within
    <3>3. CASE c # a
      <4>1. admitted'[x][c] = admitted[x][c] /\ elapsed'[c] = elapsed[c]
        BY <1>5, <3>3 DEF Observe, BucketInv, TypeOK
      <4> QED
        BY <3>1, <4>1 DEF BucketInv, Budget, Within
    <3> QED
      BY <3>2, <3>3
  <2> QED
    BY <2>1, <2>2 DEF BucketInv, Budget, Within
<1>6. CASE Tick
  <2>1. TypeOK'
    BY <1>6 DEF Tick, BucketInv, TypeOK
  <2>2. ASSUME NEW x \in Procs, NEW c \in Agencies
        PROVE  Within(x, c)'
    <3>1. /\ bucket' = bucket /\ admitted' = admitted
          /\ now' = now + 1 /\ elapsed'[c] = elapsed[c] + 1
          /\ now \in Nat /\ elapsed[c] \in Nat /\ admitted[x][c] \in Nat
      BY <1>6 DEF Tick, BucketInv, TypeOK
    <3>2. Left(x, c)' <= Left(x, c) + Rate /\ Left(x, c)' \in Int
      <4>1. CASE bucket[x][c] = NoBucket
        BY <4>1, <3>1, LeftInRange, TokensArePositive DEF Left, BucketInv
      <4>2. CASE bucket[x][c] # NoBucket
        <5> DEFINE k == bucket[x][c].tokens
                   l == bucket[x][c].last
                   u == now'
        <5>1. k \in 0 .. Burst * Unit /\ l \in Nat /\ u \in Nat /\ u = now + 1
          BY <4>2, <3>1, LeftInRange DEF BucketInv
        <5>2. /\ Left(x, c) = Least(Burst * Unit, k + Rate * Most(0, now - l))
              /\ Left(x, c)' = Least(Burst * Unit, k + Rate * Most(0, u - l))
          BY <4>2, <3>1 DEF Left, Refilled
        <5> HIDE DEF k, l, u
        <5>3. Least(Burst * Unit, k + Rate * Most(0, u - l)) \in 0 .. Burst * Unit
          BY <5>1, RefillInRange
        <5>4. Least(Burst * Unit, k + Rate * Most(0, u - l))
                  <= Least(Burst * Unit, k + Rate * Most(0, now - l)) + Rate
          BY <5>1, <3>1, TickRefills
        <5> QED
          BY <5>2, <5>3, <5>4
      <4> QED
        BY <4>1, <4>2
    <3>3. Rate * (elapsed[c] + 1) = Rate * elapsed[c] + Rate
      BY <3>1, TokensArePositive, SMTT(30)
    <3>4. admitted[x][c] * Unit + Left(x, c) <= Burst * Unit + Rate * elapsed[c]
      BY DEF BucketInv, Budget
    <3>5. /\ Rate * elapsed[c] \in Nat /\ admitted[x][c] * Unit \in Nat
          /\ Burst * Unit \in Nat /\ Rate \in Nat
          /\ Left(x, c) \in Int /\ Left(x, c)' \in Int
      <4>1. Rate * elapsed[c] \in Nat /\ admitted[x][c] * Unit \in Nat
        BY <3>1, TokensArePositive, SMTT(30)
      <4>2. Left(x, c) \in Int
        BY LeftInRange DEF BucketInv
      <4> QED
        BY <4>1, <4>2, <3>2, LeftInRange, TokensArePositive DEF BucketInv
    <3> QED
      BY <3>1, <3>2, <3>3, <3>4, <3>5 DEF Within
  <2> QED
    BY <2>1, <2>2 DEF BucketInv, Budget, Within
<1>7. CASE SetBack
  <2>1. PICK t \in 0 .. now - 1 : now' = t
    BY <1>7 DEF SetBack
  <2>2. t \in Nat /\ t <= now /\ now \in Nat /\ UNCHANGED <<bucketVars, elapsed>>
    BY <1>7, <2>1 DEF SetBack, BucketInv, TypeOK
  <2>3. TypeOK'
    BY <1>7, <2>1, <2>2 DEF SetBack, BucketInv, TypeOK
  <2>4. ASSUME NEW x \in Procs, NEW c \in Agencies
        PROVE  Within(x, c)'
    <3>1. Left(x, c)' <= Left(x, c) /\ Left(x, c)' \in Int
      <4>1. CASE bucket[x][c] = NoBucket
        BY <4>1, <2>2, LeftInRange DEF Left, BucketInv
      <4>2. CASE bucket[x][c] # NoBucket
        <5> DEFINE k == bucket[x][c].tokens
                   l == bucket[x][c].last
        <5>1. k \in 0 .. Burst * Unit /\ l \in Nat
          BY <4>2, LeftInRange DEF BucketInv
        <5>2. /\ Left(x, c) = Least(Burst * Unit, k + Rate * Most(0, now - l))
              /\ Left(x, c)' = Least(Burst * Unit, k + Rate * Most(0, t - l))
          BY <4>2, <2>1, <2>2 DEF Left, Refilled
        <5> HIDE DEF k, l
        <5>3. Least(Burst * Unit, k + Rate * Most(0, t - l)) \in 0 .. Burst * Unit
          BY <5>1, <2>2, RefillInRange
        <5>4. Least(Burst * Unit, k + Rate * Most(0, t - l))
                  <= Least(Burst * Unit, k + Rate * Most(0, now - l))
          BY <5>1, <2>2, SetBackRefillsNothing
        <5> QED
          BY <5>2, <5>3, <5>4
      <4> QED
        BY <4>1, <4>2
    <3>2. /\ admitted[x][c] * Unit + Left(x, c) <= Burst * Unit + Rate * elapsed[c]
          /\ Left(x, c) \in Int /\ Burst * Unit \in Nat
      BY LeftInRange DEF BucketInv, Budget
    <3>3. admitted[x][c] * Unit \in Nat /\ Rate * elapsed[c] \in Nat
      BY TokensArePositive, SMTT(30) DEF BucketInv, TypeOK
    <3> QED
      BY <2>2, <3>1, <3>2, <3>3 DEF Within
  <2> QED
    BY <2>3, <2>4 DEF BucketInv, Budget, Within
<1>8. CASE UNCHANGED vars
  BY <1>0, <1>8 DEF vars, BucketInv, TypeOK
<1> QED
  BY <1>1, <1>2, <1>3, <1>4, <1>5, <1>6, <1>7, <1>8 DEF Next

\* The limits, the counters and the buckets keep their ranges for ever, so no refill
\* or adaptation ever leaves them, for any settings of the limiter.
THEOREM TypesHold == Spec => []TypeOK
<1>1. BucketInv => TypeOK
  BY DEF BucketInv
<1> QED
  BY BucketInvInit, BucketInvStep, <1>1, PTL DEF Spec

\* The token budget: what was admitted in a window and what is left in the bucket
\* never exceed the burst and the refill of the window.
THEOREM BudgetHolds == Spec => []Budget
<1>1. BucketInv => Budget
  BY DEF BucketInv
<1> QED
  BY BucketInvInit, BucketInvStep, <1>1, PTL DEF Spec

\* The rate limit over every window of time, for any rate and burst, also when the clock
\* is set back.
THEOREM WindowBoundHolds == Spec => []WindowBound
<1>1. BucketInv => WindowBound
  <2> SUFFICES ASSUME BucketInv, NEW p \in Procs, NEW a \in Agencies
               PROVE  admitted[p][a] * Unit <= Burst * Unit + Rate * elapsed[a]
    BY DEF WindowBound
  <2>1. Left(p, a) \in 0 .. Burst * Unit /\ Burst * Unit \in Nat
    BY LeftInRange DEF BucketInv
  <2>2. admitted[p][a] * Unit \in Nat /\ Rate * elapsed[a] \in Nat
    BY TokensArePositive, SMTT(30) DEF BucketInv, TypeOK
  <2>3. admitted[p][a] * Unit + Left(p, a) <= Burst * Unit + Rate * elapsed[a]
    BY DEF BucketInv, Budget
  <2> QED
    BY <2>1, <2>2, <2>3
<1> QED
  BY BucketInvInit, BucketInvStep, <1>1, PTL DEF Spec

-----------------------------------------------------------------------------
(* The slots of the concurrency limiter *)

\* The counter and the requests that hold a slot change together.
SlotInv == TypeOK /\ InFlightIsExact /\ InFlightBounded

LEMMA HoldingIsFinite ==
    ASSUME NEW p \in Procs
    PROVE  IsFiniteSet(Holding(p)) /\ Cardinality(Holding(p)) \in Nat
  BY RequestsAreFinite, FS_Subset, FS_CardinalityType DEF Holding

LEMMA SlotInvInit == Init => SlotInv
<1> SUFFICES ASSUME Init PROVE SlotInv
  OBVIOUS
<1>1. TypeOK
  BY BucketInvInit DEF BucketInv
<1>2. \A p \in Procs : Holding(p) = {} /\ inFlight[p] = 0
  BY DEF Init, Holding
<1> QED
  BY <1>1, <1>2, FS_EmptySet, LimitsAreOrdered DEF SlotInv, InFlightIsExact, InFlightBounded

LEMMA SlotInvStep == TypeOK' /\ SlotInv /\ [Next]_vars => SlotInv'
<1> SUFFICES ASSUME TypeOK', SlotInv, [Next]_vars PROVE SlotInv'
  OBVIOUS
<1> USE DEF limiterVars, bucketVars, clockVars
<1> DEFINE Kept(x) == inFlight'[x] = Cardinality(Holding(x)') /\ inFlight'[x] <= MaxLimit
<1>0. ASSUME NEW x \in Procs, inFlight'[x] = inFlight[x], stage'[x] = stage[x]
      PROVE  Kept(x)
  BY <1>0 DEF SlotInv, InFlightIsExact, InFlightBounded, Holding
<1>1. ASSUME NEW p \in Procs, NEW r \in Requests, Acquire(p, r), NEW x \in Procs
      PROVE  Kept(x)
  <2>1. CASE x = p
    <3>1. Holding(p)' = Holding(p) \union {r} /\ r \notin Holding(p)
      BY <1>1 DEF Acquire, Holding, SlotInv, TypeOK
    <3>2. Cardinality(Holding(p)') = Cardinality(Holding(p)) + 1
      BY <3>1, HoldingIsFinite, FS_AddElement
    <3>3. inFlight'[p] = inFlight[p] + 1 /\ inFlight[p] \in Nat
      BY <1>1 DEF Acquire, SlotInv, TypeOK
    <3>4. inFlight[p] < limit[p] \div Scale /\ limit[p] \div Scale \in MinLimit .. MaxLimit
      BY <1>1, WholeSlots DEF Acquire, HasSlot, SlotInv, TypeOK
    <3> QED
      BY <2>1, <3>2, <3>3, <3>4, LimitsAreOrdered DEF SlotInv, InFlightIsExact
  <2>2. CASE x # p
    BY <1>0, <1>1, <2>2 DEF Acquire, SlotInv, TypeOK
  <2> QED
    BY <2>1, <2>2
<1>2. ASSUME NEW p \in Procs, NEW r \in Requests, Release(p, r), NEW x \in Procs
      PROVE  Kept(x)
  <2>1. CASE x = p
    <3>1. Holding(p)' = Holding(p) \ {r} /\ r \in Holding(p)
      BY <1>2 DEF Release, Holding, SlotInv, TypeOK
    <3>2. Cardinality(Holding(p)') = Cardinality(Holding(p)) - 1
      BY <3>1, HoldingIsFinite, FS_RemoveElement
    <3>3. Cardinality(Holding(p)) # 0
      BY <3>1, HoldingIsFinite, FS_EmptySet
    <3>4. inFlight[p] = Cardinality(Holding(p)) /\ inFlight[p] <= MaxLimit
      BY DEF SlotInv, InFlightIsExact, InFlightBounded
    <3>5. inFlight'[p] = inFlight[p] - 1
      <4>1. inFlight[p] \in Nat /\ inFlight[p] # 0
        BY <3>3, <3>4, HoldingIsFinite
      <4>2. inFlight'[p] = Most(0, inFlight[p] - 1)
        BY <1>2 DEF Release, SlotInv, TypeOK
      <4> QED
        BY <4>1, <4>2 DEF Most
    <3> QED
      BY <2>1, <3>2, <3>4, <3>5, HoldingIsFinite, LimitsAreOrdered
  <2>2. CASE x # p
    BY <1>0, <1>2, <2>2 DEF Release, SlotInv, TypeOK
  <2> QED
    BY <2>1, <2>2
<1>3. ASSUME NEW p \in Procs, NEW r \in Requests, NEW a \in Agencies, Check(p, r, a),
             NEW x \in Procs
      PROVE  Kept(x)
  <2>1. Holding(x)' = Holding(x)
    BY <1>3 DEF Check, Holding, SlotInv, TypeOK
  <2> QED
    BY <1>3, <2>1 DEF Check, SlotInv, InFlightIsExact, InFlightBounded
<1>4. ASSUME NEW p \in Procs, Restart(p), NEW x \in Procs
      PROVE  Kept(x)
  <2>1. CASE x = p
    <3>1. Holding(p)' = {} /\ inFlight'[p] = 0
      BY <1>4 DEF Restart, Holding, SlotInv, TypeOK
    <3> QED
      BY <2>1, <3>1, FS_EmptySet, LimitsAreOrdered
  <2>2. CASE x # p
    BY <1>0, <1>4, <2>2 DEF Restart, SlotInv, TypeOK
  <2> QED
    BY <2>1, <2>2
<1>5. CASE UNCHANGED <<stage, inFlight>>
  BY <1>0, <1>5 DEF SlotInv, InFlightIsExact, InFlightBounded
<1>6. (Tick \/ SetBack \/ (\E a \in Agencies : Observe(a)) \/ UNCHANGED vars) => UNCHANGED <<stage, inFlight>>
  BY DEF Tick, SetBack, Observe, vars
<1>7. \A x \in Procs : Kept(x)
  BY <1>0, <1>1, <1>2, <1>3, <1>4, <1>5, <1>6 DEF Next
<1> QED
  BY <1>7 DEF SlotInv, InFlightIsExact, InFlightBounded

\* The concurrency limiter neither leaks nor doubles a slot, on any path through the
\* handler and across restarts.
THEOREM InFlightIsExactHolds == Spec => []InFlightIsExact
<1>1. SlotInv => InFlightIsExact
  BY DEF SlotInv
<1> QED
  BY SlotInvInit, SlotInvStep, TypesHold, <1>1, PTL DEF Spec

\* No process ever runs more than the adaptive maximum.
THEOREM InFlightBoundedHolds == Spec => []InFlightBounded
<1>1. SlotInv => InFlightBounded
  BY DEF SlotInv
<1> QED
  BY SlotInvInit, SlotInvStep, TypesHold, <1>1, PTL DEF Spec

\* A process that runs nothing takes the next request, however far its limit has
\* decayed: the floor is at least one slot.
THEOREM IdleTakesRequestsHolds == Spec => []IdleTakesRequests
<1>1. SlotInv => IdleTakesRequests
  <2> SUFFICES ASSUME SlotInv, NEW p \in Procs, Holding(p) = {}
               PROVE  inFlight[p] < limit[p] \div Scale
    BY DEF IdleTakesRequests, HasSlot
  <2>1. inFlight[p] = 0
    BY FS_EmptySet DEF SlotInv, InFlightIsExact
  <2>2. limit[p] \div Scale \in MinLimit .. MaxLimit
    BY WholeSlots DEF SlotInv, TypeOK
  <2> QED
    BY <2>1, <2>2, LimitsAreOrdered
<1> QED
  BY SlotInvInit, SlotInvStep, TypesHold, <1>1, PTL DEF Spec

=============================================================================
