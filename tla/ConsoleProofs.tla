---------------------------- MODULE ConsoleProofs ----------------------------
(***************************************************************************)
(* Theorems about Console, for any number of load tests, whatever they     *)
(* come to, any order of clicks, answers and losses, and any number of     *)
(* restarts of the dashboard.                                              *)
(***************************************************************************)
EXTENDS Console, TLAPS

-----------------------------------------------------------------------------
(* What the dashboard tells *)

IsFinal(entry) == entry \in Outcomes

\* A test that runs is remembered, one that was never started left nothing, and a final row
\* is what memory told, or what outlived it.
ServiceInv ==
    /\ task \in [Tests -> {"idle", "running", "over"}]
    /\ memory \in [Tests -> Entries \union {None}]
    /\ row \in [Tests -> Entries \union {None}]
    /\ connected \in Pools
    /\ \A t \in Tests :
          /\ task[t] = "running" => memory[t] # None
          /\ task[t] = "idle" => memory[t] = None /\ row[t] = None
          /\ IsFinal(row[t]) => memory[t] = row[t] \/ memory[t] = None

\* What was told of t and is final: nothing else is told of t any more.
Stands(t, entry) ==
    /\ memory[t] = entry \/ (memory[t] = None /\ task[t] = "over")
    /\ IsFinal(row[t]) => row[t] = entry

LEMMA Outcome ==
    ASSUME NEW entry \in Outcomes
    PROVE  /\ entry.status \in Final /\ entry.result \in {"PASS", "FAIL"}
           /\ entry # None /\ entry # Preparing /\ entry # UnderWay /\ Rank(entry) = 3
<1>1. entry \in AllOutcomes
  BY OutcomesArePossible
<1>2. entry.status \in Final /\ entry.result \in {"PASS", "FAIL"}
  <2>1. CASE entry = [status |-> "COMPLETED", result |-> "PASS", measured |-> TRUE]
    BY <2>1 DEF Final
  <2>2. CASE entry \in [status : {"COMPLETED"}, result : {"FAIL"}, measured : BOOLEAN]
    BY <2>2 DEF Final
  <2>3. CASE entry \in [status : {"FAILED"}, result : {"FAIL"}, measured : {FALSE}]
    BY <2>3 DEF Final
  <2> QED
    BY <1>1, <2>1, <2>2, <2>3 DEF AllOutcomes
<1>3. entry # Preparing /\ entry # UnderWay
  BY <1>2 DEF Preparing, UnderWay, Final
<1>4. entry # None
  BY NoneIsNotTold DEF Entries
<1>5. Rank(entry) = 3
  BY <1>3 DEF Rank
<1> QED
  BY <1>2, <1>3, <1>4, <1>5

LEMMA RankIsBounded ==
    ASSUME NEW entry
    PROVE  Rank(entry) \in 1 .. 3
BY DEF Rank

LEMMA EntryIsFinal ==
    ASSUME NEW entry \in Entries
    PROVE  entry.status \in Final <=> IsFinal(entry)
BY Outcome DEF Entries, IsFinal, Final, Preparing, UnderWay

\* The steps of the dashboard.
ServiceStep ==
    \/ \E t \in Tests : Launch(t) \/ Progress(t) \/ Store(t)
    \/ Restart

LEMMA ServiceInvInit == Init => ServiceInv
BY NoneIsNotTold DEF Init, ServiceInv, IsFinal, Entries

\* A test of which a final state is told is not told of again.
LEMMA TellMovesForward ==
    ASSUME NEW t \in Tests, Tell(t)
    PROVE  ~IsFinal(memory[t])
<1>1. PICK entry \in Entries : Rank(entry) > Rank(memory[t])
  BY DEF Tell
<1> QED
  BY <1>1, Outcome, RankIsBounded DEF IsFinal

LEMMA ServiceInvStep ==
    ASSUME ServiceInv, ServiceStep
    PROVE  ServiceInv'
<1> USE DEF ServiceInv
<1>1. ASSUME NEW t \in Tests, Launch(t)
      PROVE  ServiceInv'
  BY <1>1, NoneIsNotTold DEF Launch, Entries, IsFinal
<1>2. ASSUME NEW t \in Tests, Tell(t)
      PROVE  ServiceInv'
  <2>1. PICK entry \in Entries : memory' = [memory EXCEPT ![t] = entry] /\ MayEnd(t, entry)
    BY <1>2 DEF Tell
  <2>2. UNCHANGED <<row, connected>> /\ task[t] = "running" /\ ~IsFinal(memory[t])
    BY <1>2, TellMovesForward DEF Tell
  <2>3. task' = task \/ task' = [task EXCEPT ![t] = "over"]
    BY <2>1 DEF MayEnd
  <2>4. ~IsFinal(row[t])
    BY <2>2
  <2> QED
    BY <2>1, <2>2, <2>3, <2>4, NoneIsNotTold
<1>3. ASSUME NEW t \in Tests, End(t)
      PROVE  ServiceInv'
  BY <1>3 DEF End
<1>4. ASSUME NEW t \in Tests, Store(t)
      PROVE  ServiceInv'
  <2>1. /\ UNCHANGED <<memory, connected>> /\ task[t] = "running" /\ memory[t] # None
        /\ row' = [row EXCEPT ![t] = memory[t]]
        /\ task' = task \/ task' = [task EXCEPT ![t] = "over"]
    BY <1>4 DEF Store, MayEnd
  <2> QED
    BY <2>1
<1>5. ASSUME Restart
      PROVE  ServiceInv'
  BY <1>5 DEF Restart
<1> QED
  BY <1>1, <1>2, <1>3, <1>4, <1>5 DEF ServiceStep, Progress

\* What stands goes on to stand.
LEMMA StandsStep ==
    ASSUME ServiceInv, ServiceStep, NEW u \in Tests, NEW entry \in Outcomes, Stands(u, entry)
    PROVE  Stands(u, entry)'
<1> USE DEF ServiceInv
<1>0. entry # None
  BY Outcome
<1>1. ASSUME NEW t \in Tests, Launch(t)
      PROVE  Stands(u, entry)'
  BY <1>0, <1>1 DEF Launch, Stands
<1>2. ASSUME NEW t \in Tests, Tell(t)
      PROVE  Stands(u, entry)'
  <2>1. CASE u = t
    BY <1>2, <2>1, TellMovesForward DEF Stands, IsFinal, Tell
  <2>2. CASE u # t
    <3>1. memory'[u] = memory[u] /\ task'[u] = task[u] /\ UNCHANGED row
      BY <1>2, <2>2 DEF Tell, MayEnd
    <3> QED
      BY <3>1 DEF Stands
  <2> QED
    BY <2>1, <2>2
<1>3. ASSUME NEW t \in Tests, End(t)
      PROVE  Stands(u, entry)'
  BY <1>3 DEF End, Stands
<1>4. ASSUME NEW t \in Tests, Store(t)
      PROVE  Stands(u, entry)'
  <2>1. /\ UNCHANGED memory /\ task[t] = "running"
        /\ row' = [row EXCEPT ![t] = memory[t]]
        /\ task' = task \/ task' = [task EXCEPT ![t] = "over"]
    BY <1>4 DEF Store, MayEnd
  <2> QED
    BY <2>1 DEF Stands
<1>5. ASSUME Restart
      PROVE  Stands(u, entry)'
  <2>1. memory'[u] = None /\ UNCHANGED row /\ task'[u] = IF task[u] = "running" THEN "over" ELSE task[u]
    BY <1>5 DEF Restart
  <2>2. task[u] # "idle"
    BY <1>0 DEF Stands
  <2> QED
    BY <2>1, <2>2 DEF Stands
<1> QED
  BY <1>1, <1>2, <1>3, <1>4, <1>5 DEF ServiceStep, Progress

\* A final answer stands from the moment it is given.
LEMMA AnswerStands ==
    ASSUME ServiceInv, NEW t \in Tests, IsFinal(Get(t))
    PROVE  Stands(t, Get(t))
<1>1. Get(t) # None
  BY Outcome DEF IsFinal
<1> QED
  BY <1>1, NoneIsNotTold DEF Get, Stands, ServiceInv, IsFinal, Entries

-----------------------------------------------------------------------------
(* The page *)

\* A final answer under way, and the verdict in the box, were told and stand.
PageInv ==
    /\ \A t \in Tests : Arrived(t) /\ IsFinal(fetch[t].answer) => Stands(t, fetch[t].answer)
    /\ box # None =>
          \E entry \in Outcomes :
              /\ box.status = entry.status /\ box.result = entry.result
              /\ Stands(box.test, entry)

\* Only a test whose POST was answered is polled, and the handle names one that is.
ControlTypes ==
    /\ startEnabled \in BOOLEAN
    /\ post \in [Tests -> Pending \union {"none", "done", "failed"}]
    /\ interval \in live \union {None}
    /\ live \subseteq {t \in Tests : post[t] = "done"}
    /\ threw \in BOOLEAN

PageTypes ==
    /\ ControlTypes
    /\ fetch \in [Tests -> Request \union {None}]
    /\ box \in Shown \union {None}

ConsoleInv ==
    /\ ServiceInv
    /\ PageTypes
    /\ PageInv
    /\ ControlsComeBack

LEMMA ConsoleInvInit == ConsoleInit => ConsoleInv
<1> SUFFICES ASSUME ConsoleInit PROVE ConsoleInv
  OBVIOUS
<1>1. ServiceInv
  BY ServiceInvInit DEF ConsoleInit
<1>2. PageTypes /\ PageInv /\ ControlsComeBack
  BY DEF ConsoleInit, PageTypes, ControlTypes, PageInv, Arrived, ControlsComeBack
<1> QED
  BY <1>1, <1>2 DEF ConsoleInv

\* The dashboard is served, or left alone.
LEMMA ServedOrNot ==
    ASSUME [ConsoleNext]_consoleVars
    PROVE  ServiceStep \/ UNCHANGED vars
<1>1. ASSUME NEW t \in Tests, ClickStart(t) \/ PostAnswered(t) \/ PostFails(t) \/ Tick(t) \/ Answer(t)
                              \/ Lose(t) \/ Arrive(t)
      PROVE  UNCHANGED vars
  BY <1>1 DEF ClickStart, PostAnswered, PostFails, Tick, Answer, Lose, Arrive, ArriveNothing,
              ArriveRunning, ArriveCompleted, ArriveFailed
<1>2. ClickStop => UNCHANGED vars
  BY DEF ClickStop
<1>3. ASSUME NEW t \in Tests, LaunchPosted(t)
      PROVE  ServiceStep
  BY <1>3 DEF LaunchPosted, ServiceStep
<1>4. Serve => ServiceStep
  BY DEF Serve, ServiceStep
<1>5. UNCHANGED consoleVars => UNCHANGED vars
  BY DEF consoleVars
<1> QED
  BY <1>1, <1>2, <1>3, <1>4, <1>5 DEF ConsoleNext, Page

LEMMA WhatStands ==
    ASSUME ConsoleInv, [ConsoleNext]_consoleVars
    PROVE  /\ ServiceInv'
           /\ \A t \in Tests : \A entry \in Outcomes : Stands(t, entry) => Stands(t, entry)'
<1>1. CASE ServiceStep
  BY <1>1, ServiceInvStep, StandsStep DEF ConsoleInv
<1>2. CASE UNCHANGED vars
  BY <1>2 DEF ConsoleInv, ServiceInv, Stands, vars
<1> QED
  BY <1>1, <1>2, ServedOrNot

\* What the page shows comes from an answer that has arrived.
LEMMA BoxSteps ==
    ASSUME ConsoleInv, [ConsoleNext]_consoleVars
    PROVE  \/ UNCHANGED box
           \/ box' = None
           \/ \E t \in Tests : /\ Arrived(t) /\ IsFinal(fetch[t].answer)
                               /\ ShowVerdict(t, fetch[t].answer)
<1>1. ASSUME NEW t \in Tests, ClickStart(t) \/ LaunchPosted(t) \/ PostAnswered(t) \/ PostFails(t)
                              \/ Tick(t) \/ Answer(t) \/ Lose(t)
      PROVE  UNCHANGED box \/ box' = None
  BY <1>1 DEF ClickStart, LaunchPosted, PostAnswered, PostFails, Tick, Answer, Lose, ShowNoVerdict
<1>2. ASSUME NEW t \in Tests, ArriveNothing(t) \/ ArriveRunning(t)
      PROVE  UNCHANGED box \/ box' = None
  BY <1>2 DEF ArriveNothing, ArriveRunning, ShowNoVerdict
<1>3. ASSUME NEW t \in Tests, ArriveCompleted(t) \/ ArriveFailed(t)
      PROVE  Arrived(t) /\ IsFinal(fetch[t].answer) /\ ShowVerdict(t, fetch[t].answer)
  BY <1>3 DEF ArriveCompleted, ArriveFailed, IsFinal
<1>4. ClickStop => box' = None
  BY DEF ClickStop, ShowNoVerdict
<1>5. Serve \/ UNCHANGED consoleVars => UNCHANGED box
  BY DEF Serve, consoleVars, pageVars
<1> QED
  BY <1>1, <1>2, <1>3, <1>4, <1>5 DEF ConsoleNext, Page, Arrive

\* A request is open without an answer, or answered with what is told at that moment.
LEMMA FetchSteps ==
    ASSUME ConsoleInv, [ConsoleNext]_consoleVars
    PROVE  \/ UNCHANGED fetch
           \/ \E t \in Tests : fetch' = [fetch EXCEPT ![t] = None]
           \/ \E t \in Tests : fetch' = [fetch EXCEPT ![t] = [answered |-> FALSE, answer |-> None]]
           \/ \E t \in Tests : /\ fetch' = [fetch EXCEPT ![t] = [answered |-> TRUE, answer |-> Get(t)]]
                               /\ UNCHANGED vars
<1>1. ASSUME NEW t \in Tests, ClickStart(t) \/ LaunchPosted(t) \/ PostAnswered(t) \/ PostFails(t)
      PROVE  UNCHANGED fetch
  BY <1>1 DEF ClickStart, LaunchPosted, PostAnswered, PostFails
<1>2. ASSUME NEW t \in Tests, Lose(t) \/ Arrive(t)
      PROVE  fetch' = [fetch EXCEPT ![t] = None]
  BY <1>2 DEF Lose, Arrive, ArriveNothing, ArriveRunning, ArriveCompleted, ArriveFailed, Open
<1>3. ASSUME NEW t \in Tests, Tick(t) \/ Answer(t)
      PROVE  \/ fetch' = [fetch EXCEPT ![t] = [answered |-> FALSE, answer |-> None]]
             \/ /\ fetch' = [fetch EXCEPT ![t] = [answered |-> TRUE, answer |-> Get(t)]]
                /\ UNCHANGED vars
  BY <1>3 DEF Tick, Answer, Open
<1>4. ClickStop \/ Serve \/ UNCHANGED consoleVars => UNCHANGED fetch
  BY DEF ClickStop, Serve, consoleVars, pageVars
<1> QED
  BY <1>1, <1>2, <1>3, <1>4 DEF ConsoleNext, Page

LEMMA PageInvStep ==
    ASSUME ConsoleInv, [ConsoleNext]_consoleVars
    PROVE  PageInv'
<1> USE DEF ConsoleInv
<1>0. /\ ServiceInv'
      /\ \A t \in Tests : \A entry \in Outcomes : Stands(t, entry) => Stands(t, entry)'
  BY WhatStands
<1>1. ASSUME NEW t \in Tests, Arrived(t)', IsFinal(fetch'[t].answer)
      PROVE  Stands(t, fetch[t].answer)'
  <2>1. CASE fetch'[t] = fetch[t]
    <3>1. Arrived(t) /\ IsFinal(fetch[t].answer)
      BY <1>1, <2>1 DEF Arrived
    <3>2. Stands(t, fetch[t].answer)
      BY <3>1 DEF PageInv
    <3>3. PICK entry \in Outcomes : entry = fetch[t].answer
      BY <3>1 DEF IsFinal
    <3>4. Stands(t, entry)'
      BY <1>0, <3>2, <3>3
    <3> QED
      BY <2>1, <3>3, <3>4 DEF Stands
  <2>2. CASE fetch'[t] # fetch[t]
    <3>1. fetch'[t] = [answered |-> TRUE, answer |-> Get(t)] /\ UNCHANGED vars
      <4>1. fetch'[t] # None /\ fetch'[t].answered /\ fetch \in [Tests -> Request \union {None}]
        BY <1>1 DEF Arrived, PageTypes
      <4>2. ASSUME NEW u \in Tests, fetch' = [fetch EXCEPT ![u] = None]
            PROVE  FALSE
        BY <2>2, <4>1, <4>2
      <4>3. ASSUME NEW u \in Tests,
                   fetch' = [fetch EXCEPT ![u] = [answered |-> FALSE, answer |-> None]]
            PROVE  FALSE
        BY <2>2, <4>1, <4>3
      <4>4. PICK u \in Tests : /\ fetch' = [fetch EXCEPT ![u] = [answered |-> TRUE, answer |-> Get(u)]]
                               /\ UNCHANGED vars
        BY <2>2, <4>2, <4>3, FetchSteps
      <4>5. u = t
        BY <2>2, <4>1, <4>4
      <4> QED
        BY <4>1, <4>4, <4>5
    <3>2. IsFinal(Get(t)) /\ fetch'[t].answer = Get(t)
      BY <1>1, <3>1
    <3>3. Stands(t, Get(t))
      BY <3>2, AnswerStands
    <3> QED
      BY <3>1, <3>2, <3>3 DEF Stands, vars
  <2> QED
    BY <2>1, <2>2
<1>2. ASSUME box' # None
      PROVE  \E entry \in Outcomes :
                 /\ box'.status = entry.status /\ box'.result = entry.result
                 /\ Stands(box.test, entry)'
  <2>1. CASE UNCHANGED box
    <3>1. PICK entry \in Outcomes :
              /\ box.status = entry.status /\ box.result = entry.result
              /\ Stands(box.test, entry)
      BY <1>2, <2>1 DEF PageInv
    <3>2. box.test \in Tests
      BY <1>2, <2>1 DEF PageTypes, Shown
    <3>3. memory'[box.test] = entry \/ (memory'[box.test] = None /\ task'[box.test] = "over")
      BY <1>0, <3>1, <3>2 DEF Stands
    <3>4. Stands(box.test, entry)'
      BY <1>0, <2>1, <3>1, <3>2, <3>3 DEF Stands
    <3> QED
      BY <2>1, <3>1, <3>4
  <2>2. ASSUME NEW t \in Tests, Arrived(t), IsFinal(fetch[t].answer), ShowVerdict(t, fetch[t].answer)
        PROVE  \E entry \in Outcomes :
                   /\ box'.status = entry.status /\ box'.result = entry.result
                   /\ Stands(box.test, entry)'
    <3>1. PICK entry \in Outcomes : entry = fetch[t].answer
      BY <2>2 DEF IsFinal
    <3>2. Stands(t, entry)'
      BY <1>0, <2>2, <3>1 DEF IsFinal, PageInv
    <3>3. box'.status = entry.status /\ box'.result = entry.result /\ box'.test = t
      BY <2>2, <3>1 DEF ShowVerdict
    <3> QED
      BY <3>1, <3>2, <3>3 DEF Stands
  <2> QED
    BY <1>2, <2>1, <2>2, BoxSteps
<1> QED
  BY <1>1, <1>2 DEF PageInv

LEMMA ToldIsTyped ==
    ASSUME ServiceInv, NEW t \in Tests
    PROVE  Get(t) \in Entries \union {None}
BY DEF ServiceInv, Get

LEMMA PageTypesStep ==
    ASSUME ConsoleInv, [ConsoleNext]_consoleVars
    PROVE  PageTypes'
<1> USE DEF ConsoleInv, PageTypes, ControlTypes
<1>1. fetch' \in [Tests -> Request \union {None}]
  <2>1. ASSUME NEW t \in Tests, NEW request \in Request \union {None},
               fetch' = [fetch EXCEPT ![t] = request]
        PROVE  fetch' \in [Tests -> Request \union {None}]
    BY <2>1
  <2>2. [answered |-> FALSE, answer |-> None] \in Request
    BY DEF Request
  <2>3. \A t \in Tests : [answered |-> TRUE, answer |-> Get(t)] \in Request
    BY ToldIsTyped DEF Request
  <2> QED
    BY <2>1, <2>2, <2>3, FetchSteps
<1>2. box' \in Shown \union {None}
  <2>1. ASSUME NEW t \in Tests, IsFinal(fetch[t].answer), ShowVerdict(t, fetch[t].answer)
        PROVE  box' \in Shown
    <3>1. fetch[t].answer.status \in Final /\ fetch[t].answer.result \in {"PASS", "FAIL"}
      BY <2>1, Outcome DEF IsFinal
    <3> QED
      BY <2>1, <3>1 DEF ShowVerdict, Shown
  <2> QED
    BY <2>1, BoxSteps
<1>3. ControlTypes'
  <2>1. ASSUME NEW t \in Tests, ClickStart(t)
        PROVE  ControlTypes'
    BY <2>1 DEF ClickStart, PostIs, Pending
  <2>2. ASSUME NEW t \in Tests, LaunchPosted(t)
        PROVE  ControlTypes'
    BY <2>2 DEF LaunchPosted, PostIs, Pending
  <2>3. ASSUME NEW t \in Tests, PostAnswered(t)
        PROVE  ControlTypes'
    BY <2>3 DEF PostAnswered, PostIs, Pending
  <2>4. ASSUME NEW t \in Tests, PostFails(t)
        PROVE  ControlTypes'
    BY <2>4 DEF PostFails, PostIs, Pending, ResetControls
  <2>5. ASSUME NEW t \in Tests, Tick(t) \/ Answer(t) \/ Lose(t) \/ ArriveNothing(t) \/ ArriveRunning(t)
        PROVE  ControlTypes'
    BY <2>5 DEF Tick, Answer, Lose, ArriveNothing, ArriveRunning
  <2>6. ASSUME NEW t \in Tests, ArriveCompleted(t) \/ ArriveFailed(t)
        PROVE  ControlTypes'
    BY <2>6 DEF ArriveCompleted, ArriveFailed, ClearInterval, ResetControls
  <2>7. ClickStop => ControlTypes'
    BY DEF ClickStop, ClearInterval, ResetControls
  <2>8. Serve \/ UNCHANGED consoleVars => ControlTypes'
    BY DEF Serve, consoleVars, pageVars
  <2> QED
    BY <2>1, <2>2, <2>3, <2>4, <2>5, <2>6, <2>7, <2>8 DEF ConsoleNext, Page, Arrive
<1> QED
  BY <1>1, <1>2, <1>3

\* The start button is given back before nobody is left to do it.
LEMMA ControlsStep ==
    ASSUME ConsoleInv, [ConsoleNext]_consoleVars
    PROVE  ControlsComeBack'
<1> USE DEF ConsoleInv, ControlsComeBack, PageTypes, ControlTypes
<1>1. ASSUME NEW t \in Tests, ClickStart(t)
      PROVE  ControlsComeBack'
  BY <1>1 DEF ClickStart, PostIs, Pending
<1>2. ASSUME NEW t \in Tests, LaunchPosted(t)
      PROVE  ControlsComeBack'
  <2>1. post'[t] \in Pending /\ UNCHANGED startEnabled
    BY <1>2 DEF LaunchPosted, PostIs, Pending
  <2> QED
    BY <2>1
<1>3. ASSUME NEW t \in Tests, PostAnswered(t)
      PROVE  ControlsComeBack'
  BY <1>3 DEF PostAnswered
<1>4. ASSUME startEnabled'
      PROVE  ControlsComeBack'
  BY <1>4
<1>5. ASSUME UNCHANGED <<startEnabled, threw, live, post>>
      PROVE  ControlsComeBack'
  BY <1>5
<1>6. ASSUME NEW t \in Tests, Tick(t) \/ Answer(t) \/ Lose(t) \/ ArriveNothing(t) \/ ArriveRunning(t)
      PROVE  ControlsComeBack'
  BY <1>5, <1>6 DEF Tick, Answer, Lose, ArriveNothing, ArriveRunning
<1>7. ASSUME NEW t \in Tests, ArriveCompleted(t) \/ ArriveFailed(t)
      PROVE  ControlsComeBack'
  BY <1>7 DEF ArriveCompleted, ArriveFailed, ResetControls
<1>8. ASSUME NEW t \in Tests, PostFails(t)
      PROVE  ControlsComeBack'
  BY <1>4, <1>8 DEF PostFails, ResetControls
<1>9. ClickStop => ControlsComeBack'
  BY <1>4 DEF ClickStop, ResetControls
<1>10. Serve \/ UNCHANGED consoleVars => ControlsComeBack'
  BY <1>5 DEF Serve, consoleVars, pageVars
<1> QED
  BY <1>1, <1>2, <1>3, <1>6, <1>7, <1>8, <1>9, <1>10 DEF ConsoleNext, Page, Arrive

-----------------------------------------------------------------------------
LEMMA ConsoleInvStep == ConsoleInv /\ [ConsoleNext]_consoleVars => ConsoleInv'
BY WhatStands, PageTypesStep, PageInvStep, ControlsStep DEF ConsoleInv

LEMMA ConsoleInvHolds == ConsoleSpec => []ConsoleInv
BY ConsoleInvInit, ConsoleInvStep, PTL DEF ConsoleSpec

\* Whatever the order of clicks, intervals and answers, the handle names an interval that
\* still fires, and nothing is polled before its POST was answered.
THEOREM ConsoleTypesHold == ConsoleSpec => []ConsoleTypeOK
<1>1. ConsoleInv => ConsoleTypeOK
  BY DEF ConsoleInv, PageTypes, ControlTypes, ConsoleTypeOK
<1> QED
  BY ConsoleInvHolds, <1>1, PTL

\* The start button is disabled only while a POST is open or an interval fires, or after
\* the exception of a test without percentiles.
THEOREM ControlsComeBackHolds == ConsoleSpec => []ControlsComeBack
<1>1. ConsoleInv => ControlsComeBack
  BY DEF ConsoleInv
<1> QED
  BY ConsoleInvHolds, <1>1, PTL

\* The verdict in the box is never contradicted: an answer that was final when it was given
\* stands, in memory or in the row that outlives a restart.
THEOREM VerdictStandsHolds == ConsoleSpec => []VerdictStands
<1>1. ASSUME ConsoleInv
      PROVE  VerdictStands
  <2> SUFFICES ASSUME box # None, Get(box.test) # None, Get(box.test).status \in Final
               PROVE  box.status = Get(box.test).status /\ box.result = Get(box.test).result
    BY DEF VerdictStands
  <2>1. box.test \in Tests
    BY <1>1 DEF ConsoleInv, PageTypes, Shown
  <2>2. PICK entry \in Outcomes : /\ box.status = entry.status /\ box.result = entry.result
                                  /\ Stands(box.test, entry)
    BY <1>1 DEF ConsoleInv, PageInv
  <2>3. Get(box.test) \in Entries
    BY <1>1, <2>1, ToldIsTyped DEF ConsoleInv
  <2>4. IsFinal(Get(box.test))
    BY <2>3, EntryIsFinal
  <2>5. Get(box.test) = entry
    BY <2>2, <2>4 DEF Stands, Get
  <2> QED
    BY <2>2, <2>5
<1> QED
  BY ConsoleInvHolds, <1>1, PTL

=============================================================================
