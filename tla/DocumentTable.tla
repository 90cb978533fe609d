--------------------------- MODULE DocumentTable ---------------------------
(***************************************************************************)
(* What the API and the workers share: the rows of the PostgreSQL table    *)
(* `documents`, the job ids that name them, and the Kafka records that     *)
(* carry those ids.                                                        *)
(*                                                                         *)
(* A row is identified by the submission that inserted it (its UUID is     *)
(* fresh, so one submission stands for one document_id).  Columns that no  *)
(* decision of the code reads (file name, checksum, broker coordinates,    *)
(* timestamps) are left out.                                               *)
(***************************************************************************)
EXTENDS Integers, Sequences, FiniteSets, FiniteSetsExt

CONSTANTS
    Submissions,    \* the POST /api/v1/ingest requests of a behaviour
    Keys,           \* idempotency keys (client supplied, or the SHA-256)
    Agencies,
    Partitions,     \* partitions of the topic audit-reports-ingest
    PartitionOf,    \* hash_key_to_partition
    None            \* no row, no owner, no value

ASSUME PartitionOfIsTotal == PartitionOf \in [Agencies -> Partitions]
ASSUME NoneIsNoSubmission == None \notin Submissions

Status == {"QUEUED", "PROCESSING", "RETRYING", "COMPLETED", "FAILED"}

Row == [key: Keys, agency: Agencies, seq: Nat \ {0}, status: Status, retries: Nat]

ASSUME NoneIsNoRow == None \notin Row

\* A job id is either the document_id of the row that submission s inserted,
\* or the "job-<hex>" id the API makes up when it falls back to its caches.
Doc(s) == [kind |-> "document", of |-> s]
Local(s) == [kind |-> "local", of |-> s]
Jobs == [kind: {"document", "local"}, of: Submissions]
ASSUME NoneIsNoJob == None \notin Jobs

Stored(table) == {s \in Submissions : table[s] # None}

SequencesOf(table, a) == {table[s].seq : s \in {t \in Stored(table) : table[t].agency = a}}

\* Mutant: the WHERE agency_id is forgotten.
NextSequenceOfAll(table, a) == Max({table[s].seq : s \in Stored(table)} \union {0}) + 1

\* SELECT COALESCE(MAX(sequence_number), 0) + 1 ... WHERE agency_id = a
NextSequence(table, a) == Max(SequencesOf(table, a) \union {0}) + 1

\* Mutant: the table lacks UNIQUE (idempotency_key).
ConflictsOnSequence(table, k, a, n) ==
    \E s \in Stored(table) : table[s].agency = a /\ table[s].seq = n

\* The two UNIQUE constraints of the table, for a row about to be inserted.
Conflicts(table, k, a, n) ==
    \E s \in Stored(table) :
        \/ table[s].key = k
        \/ table[s].agency = a /\ table[s].seq = n

\* The submission whose row holds key k (SELECT * ... WHERE idempotency_key = k).
HoldersOf(table, k) == {s \in Stored(table) : table[s].key = k}

=============================================================================
