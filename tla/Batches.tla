------------------------------ MODULE Batches ------------------------------
(***************************************************************************)
(* The batches of the dashboard: generate_sample_reports, upload_reports,  *)
(* start_batch, send_reports and get_batch of dashboard/src/app.py.        *)
(*                                                                         *)
(* A batch is an entry of the dictionary batches and a background task     *)
(* that submits its reports one after the other.  The ingestion API is     *)
(* external here: it takes or refuses a report, perhaps only after the     *)
(* client has given up waiting for its answer.                             *)
(***************************************************************************)
EXTENDS Integers

CONSTANTS
    Uploads,        \* the requests that start a batch
    Size,           \* reports of a batch: at least one
    Absent          \* no such key in batches

VARIABLES
    batches,        \* batches: [status, accepted, completed, errors], or Absent
    sender,         \* where the task of each batch stands
    taken,          \* reports of the batch the API has taken (never reset)
    adrift          \* requests given up on which the API may still serve

batchVars == <<batches, sender, taken, adrift>>

BatchStatus == {"PREPARING", "RUNNING", "COMPLETED", "COMPLETED_WITH_ERRORS"}
Sending == {"created", "posting", "taken", "refused", "last"}

Batch == [status: BatchStatus, accepted: 0..Size, completed: 0..Size, errors: 0..Size]

\* Type correctness: send_reports never counts or has taken more reports than the batch has.
BatchTypeOK ==
    /\ batches \in [Uploads -> Batch \union {Absent}]
    /\ sender \in [Uploads -> Sending \union {"idle", "ended", "lost"}]
    /\ taken \in [Uploads -> 0..Size]
    /\ adrift \in [Uploads -> 0..Size]

BatchInit ==
    /\ batches = [b \in Uploads |-> Absent]
    /\ sender = [b \in Uploads |-> "idle"]
    /\ taken = [b \in Uploads |-> 0]
    /\ adrift = [b \in Uploads |-> 0]

-----------------------------------------------------------------------------
Proceed(b, label) == sender' = [sender EXCEPT ![b] = label]
Handled(batch) == batch.accepted + batch.errors

StartBatch(b) ==
    /\ sender[b] = "idle"
    /\ batches' = [batches EXCEPT ![b] =
          [status |-> "PREPARING", accepted |-> 0, completed |-> 0, errors |-> 0]]
    /\ Proceed(b, "created")
    /\ UNCHANGED <<taken, adrift>>

\* send_reports runs up to its first await.
SendReports(b) ==
    /\ sender[b] = "created"
    /\ batches' = [batches EXCEPT ![b].status = "RUNNING"]
    /\ Proceed(b, "posting")
    /\ UNCHANGED <<taken, adrift>>

\* The body of the loop ends: the next report is posted, or the client is closed.
Advance(b, batch) ==
    /\ batches' = [batches EXCEPT ![b] = batch]
    /\ Proceed(b, IF Handled(batch) < Size THEN "posting" ELSE "last")

Take(b) ==
    /\ sender[b] = "posting"
    /\ taken' = [taken EXCEPT ![b] = @ + 1]
    /\ Proceed(b, "taken")
    /\ UNCHANGED <<batches, adrift>>

Refuse(b) ==
    /\ sender[b] = "posting"
    /\ Proceed(b, "refused")
    /\ UNCHANGED <<batches, taken, adrift>>

HearTaken(b) ==
    /\ sender[b] = "taken"
    /\ Advance(b, [batches[b] EXCEPT !.accepted = @ + 1, !.completed = @ + 1])
    /\ UNCHANGED <<taken, adrift>>

HearRefused(b) ==
    /\ sender[b] = "refused"
    /\ Advance(b, [batches[b] EXCEPT !.errors = @ + 1])
    /\ UNCHANGED <<taken, adrift>>

\* Mutant: the try is around the loop, and an exception ends it.
PostFailsForAll(b) ==
    /\ sender[b] \in {"posting", "taken", "refused"}
    /\ batches' = [batches EXCEPT ![b].errors = @ + 1]
    /\ Proceed(b, "ended")
    /\ adrift' = [adrift EXCEPT ![b] = IF sender[b] = "posting" THEN @ + 1 ELSE @]
    /\ UNCHANGED taken

\* The answer does not come within 20 seconds, or the connection breaks.
PostFails(b) ==
    /\ sender[b] \in {"posting", "taken", "refused"}
    /\ Advance(b, [batches[b] EXCEPT !.errors = @ + 1])
    /\ adrift' = [adrift EXCEPT ![b] = IF sender[b] = "posting" THEN @ + 1 ELSE @]
    /\ UNCHANGED taken

\* The API comes to a request whose client is gone, or never does.
TakeLate(b) ==
    /\ adrift[b] > 0
    /\ adrift' = [adrift EXCEPT ![b] = @ - 1]
    /\ taken' = [taken EXCEPT ![b] = @ + 1]
    /\ UNCHANGED <<batches, sender>>

\* Mutant: a batch is complete when some report of it was accepted.
FinalOfAccepted(batch) == IF batch.accepted > 0 THEN "COMPLETED" ELSE "COMPLETED_WITH_ERRORS"

FinalStatus(batch) == IF batch.errors = 0 THEN "COMPLETED" ELSE "COMPLETED_WITH_ERRORS"

EndBatch(b) ==
    /\ sender[b] = "last"
    /\ batches' = [batches EXCEPT ![b].status = FinalStatus(batches[b])]
    /\ Proceed(b, "ended")
    /\ UNCHANGED <<taken, adrift>>

\* A restart of the dashboard: batches exist in its memory only.
ForgetBatches ==
    /\ batches' = [b \in Uploads |-> Absent]
    /\ sender' = [b \in Uploads |-> IF sender[b] \in Sending THEN "lost" ELSE sender[b]]
    /\ adrift' = [b \in Uploads |-> IF sender[b] = "posting" THEN adrift[b] + 1 ELSE adrift[b]]
    /\ UNCHANGED taken

RunBatch(b) ==
    \/ SendReports(b)
    \/ Take(b) \/ Refuse(b)
    \/ HearTaken(b) \/ HearRefused(b) \/ PostFails(b)
    \/ EndBatch(b)

BatchNext == \E b \in Uploads : StartBatch(b) \/ RunBatch(b) \/ TakeLate(b)

-----------------------------------------------------------------------------
(* Properties *)

\* app.py:149: "The API has durably accepted this report."  A batch never counts as accepted
\* or completed more than the API took, whatever the network lost; a COMPLETED batch was
\* taken whole, and only a batch whose every report is accounted for is shown as through.
BatchIsCounted ==
    \A b \in Uploads : batches[b] # Absent =>
        LET batch == batches[b] IN
        /\ batch.accepted = batch.completed
        /\ batch.accepted <= taken[b]
        /\ batch.status \in {"COMPLETED", "COMPLETED_WITH_ERRORS"} => Handled(batch) = Size
        /\ batch.status = "COMPLETED" => taken[b] = Size
        /\ taken[b] + adrift[b] <= Size

\* A batch that was started comes to a final status, however its requests fare, unless the
\* dashboard restarts and answers 404 from then on.
BatchEnds ==
    \A b \in Uploads :
        sender[b] \in Sending ~>
            \/ batches[b] = Absent
            \/ batches[b].status \in {"COMPLETED", "COMPLETED_WITH_ERRORS"}

=============================================================================
