----------------------------- MODULE StatusApi -----------------------------
(***************************************************************************)
(* The job status endpoint beside the ingestion handler: get_job_status of *)
(* api/src/main.py.  It only reads the rows and the local_job_cache that   *)
(* the handler fills for it, so it is an operator on the states of         *)
(* IngestApi.                                                              *)
(***************************************************************************)
EXTENDS IngestApi

ASSUME NoneIsNoStatus == None \notin Status

\* What process p answers for a job: the status in its row, else QUEUED from the cache, else
\* None, a 404.  readable: does the SELECT succeed?  Of a made-up id uuid.UUID raises.
GetJob(p, id, readable) ==
    IF mode[p].db /\ readable /\ id.kind = "document" /\ documents[id.of] # None
    THEN documents[id.of].status
    ELSE IF id \in jobCache[p] THEN "QUEUED"
    ELSE None

-----------------------------------------------------------------------------
(* Properties *)

\* The status_url of a reply works: the job id a client is given, be it of a new document, of
\* an earlier one or made up, is found by the process that gave it, whether or not that
\* process can read the database at the moment; a document is found by every process that can.
AnswerIsFindable ==
    [][\A s \in Submissions :
          reply'[s] # reply[s] /\ reply'[s].job # None =>
              \A p \in {q \in Procs : mode'[q] # None}, readable \in BOOLEAN :
                  \/ p = Proc(s)
                  \/ mode'[p].db /\ readable /\ reply'[s].job.kind = "document"
                  => GetJob(p, reply[s].job, readable)' # None]_vars

=============================================================================
