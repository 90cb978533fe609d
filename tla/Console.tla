------------------------------ MODULE Console ------------------------------
(***************************************************************************)
(* The load test page of the console: the click handlers of                *)
(* setupLoadTestingUI, resetLoadTestControls and pollTestRun of            *)
(* dashboard/src/static/app.js, in one browser tab, against the dashboard  *)
(* that TestService describes.                                             *)
(*                                                                         *)
(* Every callback runs to its next await without interruption; between     *)
(* them the user clicks, intervals fire and answers come in any order.     *)
(* state.testPollInterval names the latest interval only, so intervals     *)
(* that nobody can clear any more may go on firing.                        *)
(***************************************************************************)
EXTENDS TestService, FiniteSets

ASSUME TestsAreNumbered == Tests \subseteq Nat     \* in the order of the clicks

VARIABLES
    startEnabled,   \* is the start button enabled?  The stop button is when it is not
    post,           \* where the POST of each test stands
    interval,       \* state.testPollInterval: the test it polls, or None
    live,           \* tests whose interval has not been cleared
    fetch,          \* the open GET of each interval: [answered, answer], or None
    box,            \* the verdict in load-result-box: [status, test, result], or None
    threw           \* has the callback that last ended a test thrown before its reset?

pageVars == <<startEnabled, post, interval, live, fetch, box, threw>>
consoleVars == <<vars, pageVars>>

Pending == {"sent", "launched"}
Request == [answered: BOOLEAN, answer: Entries \union {None}]
Shown == [status: Final, test: Tests, result: {"PASS", "FAIL"}]

\* Type correctness: the handle names an interval that still fires, and only a test whose POST
\* was answered is polled (pollTestRun of app.js).
ConsoleTypeOK ==
    /\ startEnabled \in BOOLEAN
    /\ post \in [Tests -> Pending \union {"none", "done", "failed"}]
    /\ interval \in live \union {None}
    /\ live \subseteq {t \in Tests : post[t] = "done"}
    /\ fetch \in [Tests -> Request \union {None}]
    /\ box \in Shown \union {None}
    /\ threw \in BOOLEAN

ConsoleInit ==
    /\ Init
    /\ startEnabled = TRUE
    /\ post = [t \in Tests |-> "none"]
    /\ interval = None
    /\ live = {}
    /\ fetch = [t \in Tests |-> None]
    /\ box = None
    /\ threw = FALSE

-----------------------------------------------------------------------------
(* The buttons *)

\* What the box says of no verdict - preparing, in progress, canceled - is one and the same.
ShowNoVerdict == box' = None
ShowVerdict(t, told) == box' = [status |-> told.status, test |-> t, result |-> told.result]
PostIs(t, label) == post' = [post EXCEPT ![t] = label]
ResetControls == startEnabled' = TRUE /\ threw' = FALSE

\* clearInterval(state.testPollInterval), whichever interval that is by now.
ClearInterval == live' = live \ {interval} /\ interval' = None

ClickStart(t) ==
    /\ startEnabled
    /\ post[t] = "none" /\ \A u \in Tests : u < t => post[u] # "none"
    /\ PostIs(t, "sent")
    /\ startEnabled' = FALSE
    /\ ShowNoVerdict
    /\ UNCHANGED <<interval, live, fetch, threw>>
    /\ UNCHANGED vars

\* The dashboard serves the POST.
LaunchPosted(t) ==
    /\ post[t] = "sent"
    /\ Launch(t)
    /\ PostIs(t, "launched")
    /\ UNCHANGED <<startEnabled, interval, live, fetch, box, threw>>

PostAnswered(t) ==
    /\ post[t] = "launched"
    /\ PostIs(t, "done")
    /\ interval' = t
    /\ live' = live \union {t}
    /\ UNCHANGED <<startEnabled, fetch, box, threw>>
    /\ UNCHANGED vars

\* The POST fails, whether or not the dashboard has started the test.
PostFails(t) ==
    /\ post[t] \in Pending
    /\ PostIs(t, "failed")
    /\ ShowNoVerdict
    /\ ResetControls
    /\ UNCHANGED <<interval, live, fetch>>
    /\ UNCHANGED vars

\* Mutant: the handle of the cleared interval is kept.
ClickStopKeepsHandle ==
    /\ ~startEnabled
    /\ live' = live \ {interval} /\ UNCHANGED interval
    /\ ShowNoVerdict
    /\ ResetControls
    /\ UNCHANGED <<post, fetch>>
    /\ UNCHANGED vars

ClickStop ==
    /\ ~startEnabled
    /\ ClearInterval
    /\ ShowNoVerdict
    /\ ResetControls
    /\ UNCHANGED <<post, fetch>>
    /\ UNCHANGED vars

-----------------------------------------------------------------------------
(* Polling *)

Open(t, request) == fetch' = [fetch EXCEPT ![t] = request]

\* An interval fires: its callback asks for the test and awaits the answer.  One open
\* request for each interval is the bound; those of several intervals overlap.
Tick(t) ==
    /\ t \in live /\ fetch[t] = None
    /\ Open(t, [answered |-> FALSE, answer |-> None])
    /\ UNCHANGED <<startEnabled, post, interval, live, box, threw>>
    /\ UNCHANGED vars

\* The dashboard answers with what it tells at this moment.
Answer(t) ==
    /\ fetch[t] # None /\ ~fetch[t].answered
    /\ Open(t, [answered |-> TRUE, answer |-> Get(t)])
    /\ UNCHANGED <<startEnabled, post, interval, live, box, threw>>
    /\ UNCHANGED vars

\* The request or its answer is lost: the catch branch only logs.
Lose(t) ==
    /\ fetch[t] # None /\ ~fetch[t].answered
    /\ Open(t, None)
    /\ UNCHANGED <<startEnabled, post, interval, live, box, threw>>
    /\ UNCHANGED vars

Arrived(t) == fetch[t] # None /\ fetch[t].answered

\* A 404, and a test that has not begun, change no more than the figures of the page.
ArriveNothing(t) ==
    /\ Arrived(t)
    /\ fetch[t].answer \in {None, Preparing}
    /\ Open(t, None)
    /\ UNCHANGED <<startEnabled, post, interval, live, box, threw>>
    /\ UNCHANGED vars

ArriveRunning(t) ==
    /\ Arrived(t)
    /\ fetch[t].answer = UnderWay
    /\ Open(t, None)
    /\ ShowNoVerdict
    /\ UNCHANGED <<startEnabled, post, interval, live, threw>>
    /\ UNCHANGED vars

\* updatePerformanceScorecard throws on a p95 of null, before the controls are reset.
ArriveCompleted(t) ==
    /\ Arrived(t)
    /\ fetch[t].answer \in Outcomes /\ fetch[t].answer.status = "COMPLETED"
    /\ Open(t, None)
    /\ ClearInterval
    /\ ShowVerdict(t, fetch[t].answer)
    /\ IF fetch[t].answer.measured THEN ResetControls
       ELSE threw' = TRUE /\ UNCHANGED startEnabled
    /\ UNCHANGED post
    /\ UNCHANGED vars

\* Mutant: a failed test leaves the controls as they are.
ArriveFailedQuietly(t) ==
    /\ Arrived(t)
    /\ fetch[t].answer \in Outcomes /\ fetch[t].answer.status = "FAILED"
    /\ Open(t, None)
    /\ ClearInterval
    /\ ShowVerdict(t, fetch[t].answer)
    /\ UNCHANGED <<startEnabled, post, threw>>
    /\ UNCHANGED vars

ArriveFailed(t) ==
    /\ Arrived(t)
    /\ fetch[t].answer \in Outcomes /\ fetch[t].answer.status = "FAILED"
    /\ Open(t, None)
    /\ ClearInterval
    /\ ShowVerdict(t, fetch[t].answer)
    /\ ResetControls
    /\ UNCHANGED post
    /\ UNCHANGED vars

Arrive(t) == ArriveNothing(t) \/ ArriveRunning(t) \/ ArriveCompleted(t) \/ ArriveFailed(t)

-----------------------------------------------------------------------------
Progress(t) == Tell(t) \/ End(t)

Serve ==
    /\ \/ \E t \in Tests : Progress(t) \/ Store(t)
       \/ Restart
    /\ UNCHANGED pageVars

Page ==
    \/ \E t \in Tests :
          \/ ClickStart(t) \/ LaunchPosted(t) \/ PostAnswered(t) \/ PostFails(t)
          \/ Tick(t) \/ Answer(t) \/ Lose(t) \/ Arrive(t)
    \/ ClickStop

ConsoleNext == Serve \/ Page

\* Tests end (TestEnds of LoadTest); intervals fire and callbacks run; a request that is
\* repeated every second is not lost every time.
ConsoleFairness ==
    /\ WF_consoleVars((\E t \in Tests : Progress(t)) /\ UNCHANGED pageVars)
    /\ \A t \in Tests :
        /\ WF_consoleVars(Tick(t) \/ Arrive(t))
        /\ SF_consoleVars(Answer(t))

ConsoleSpec == ConsoleInit /\ [][ConsoleNext]_consoleVars /\ ConsoleFairness

-----------------------------------------------------------------------------
(* Properties *)

\* The start button is disabled only while a POST is open or some interval will fire again:
\* no order of clicks, failures and late answers leaves the page without a way on, except
\* the exception of a test without percentiles, where only the stop button helps.
ControlsComeBack ==
    ~startEnabled =>
        threw \/ live # {} \/ \E t \in Tests : post[t] \in Pending

\* The verdict in the box was told by the dashboard, and the dashboard will not tell
\* another: neither a late answer nor the row that outlives a restart contradicts it.
VerdictStands ==
    box # None =>
        LET told == Get(box.test) IN
        told # None /\ told.status \in Final =>
            box.status = told.status /\ box.result = told.result

\* The watch of a test ends - with its result, by the stop button or because another test
\* took its place - unless the dashboard has forgotten the test in a restart.
Forgotten(t) == task[t] = "over" /\ memory[t] = None

WatchEnds == \A t \in Tests : interval = t ~> (interval # t \/ Forgotten(t))

=============================================================================
