----------------------------- MODULE BlobStore ------------------------------
(***************************************************************************)
(* ContentAddressableStorage of api/src/storage.py: save_document, run by  *)
(* the requests of several API processes that share one local directory    *)
(* and one MinIO bucket.  Within a process only put_object gives way to    *)
(* other requests, but the processes interleave at every file operation.   *)
(* A blob is named by its checksum, a temporary file by checksum and uuid. *)
(* A file that is open for writing holds a part of the bytes.              *)
(***************************************************************************)
EXTENDS Integers, FiniteSets

CONSTANTS
    Requests, Blobs, Procs,
    BlobFaults,     \* which failures the environment may inject
    Reachable,      \* can a starting process reach MinIO?
    None
ASSUME BlobFaultsAreKnown == BlobFaults \subseteq {"disk", "put", "crash"}
ASSUME ReachableIsFlags == Reachable \subseteq BOOLEAN
ASSUME NoneIsNoPath == None \notin {"local", "remote"}

VARIABLES
    pc,             \* where each save_document stands
    call,           \* the blob each request saves, and the process that serves it
    returned,       \* where the returned path points: "local", "remote" or None
    unwritten,      \* the requests whose local write has failed
    temp,           \* tmp/<sha256>_<uuid>.tmp: "absent", "partial" or "whole"
    file,           \* blobs/<sha256>.bin: the same
    bucket,         \* the objects in MinIO
    remote          \* remote_available of each process

vars == <<pc, call, returned, unwritten, temp, file, bucket, remote>>

Contents == {"absent", "partial", "whole"}

\* The stages of save_document before it returns, and how it may end.
Saving == {"open", "write", "replace", "put"}
Stages == Saving \union {"idle", "done", "failed", "lost"}

\* Type correctness: requests, files and the bucket of storage.py are in known states.
TypeOK ==
    /\ pc \in [Requests -> Stages]
    /\ call \in [Requests -> [blob: Blobs, proc: Procs]]
    /\ returned \in [Requests -> {"local", "remote", None}]
    /\ unwritten \in SUBSET Requests
    /\ temp \in [Requests -> Contents]
    /\ file \in [Blobs -> Contents]
    /\ bucket \in SUBSET Blobs
    /\ remote \in [Procs -> BOOLEAN]

\* start() finds MinIO reachable or not, once.
Init ==
    /\ pc = [r \in Requests |-> "idle"]
    /\ call \in [Requests -> [blob: Blobs, proc: Procs]]
    /\ returned = [r \in Requests |-> None]
    /\ unwritten = {}
    /\ temp = [r \in Requests |-> "absent"]
    /\ file = [b \in Blobs |-> "absent"]
    /\ bucket = {}
    /\ remote \in [Procs -> Reachable]

-----------------------------------------------------------------------------
Blob(r) == call[r].blob

\* Mutant: without the uuid every request for a blob writes the same temporary file.
TmpByChecksum(r) == CHOOSE q \in Requests : Blob(q) = Blob(r)

\* The temporary file of each request is its own.
Tmp(r) == r

Goto(r, label) == pc' = [pc EXCEPT ![r] = label]
Return(r, where) == Goto(r, "done") /\ returned' = [returned EXCEPT ![r] = where]

\* The fast path: the file exists, whoever wrote it and whether or not its upload
\* succeeded.
FindFile(r) ==
    /\ pc[r] = "idle"
    /\ file[Blob(r)] # "absent"
    /\ Return(r, "local")
    /\ UNCHANGED <<call, unwritten, temp, file, bucket, remote>>

FindNothing(r) ==
    /\ pc[r] = "idle"
    /\ file[Blob(r)] = "absent"
    /\ Goto(r, "open")
    /\ UNCHANGED <<call, returned, unwritten, temp, file, bucket, remote>>

\* open(tmp_path, "wb") empties a file that is already there.
OpenTemporary(r) ==
    /\ pc[r] = "open"
    /\ temp' = [temp EXCEPT ![Tmp(r)] = "partial"]
    /\ Goto(r, "write")
    /\ UNCHANGED <<call, returned, unwritten, file, bucket, remote>>

\* The bytes are written and the file is closed.
WriteTemporary(r) ==
    /\ pc[r] = "write"
    /\ temp' = [temp EXCEPT ![Tmp(r)] = "whole"]
    /\ Goto(r, "replace")
    /\ UNCHANGED <<call, returned, unwritten, file, bucket, remote>>

\* rename(2) is atomic and moves what the temporary file holds.
Replace(r) ==
    /\ pc[r] = "replace"
    /\ file' = [file EXCEPT ![Blob(r)] = temp[Tmp(r)]]
    /\ temp' = [temp EXCEPT ![Tmp(r)] = "absent"]
    /\ Goto(r, "put")
    /\ UNCHANGED <<call, returned, unwritten, bucket, remote>>

\* except Exception: the temporary file is removed, if that works, and the save goes on.
LocalWriteFails(r) ==
    /\ "disk" \in BlobFaults
    /\ pc[r] \in {"open", "write", "replace"}
    /\ temp' \in {temp, [temp EXCEPT ![Tmp(r)] = "absent"]}
    /\ unwritten' = unwritten \union {r}
    /\ Goto(r, "put")
    /\ UNCHANGED <<call, returned, file, bucket, remote>>

\* Mutant: the object key is returned before the upload.
PutLater(r) ==
    /\ pc[r] = "put"
    /\ remote[call[r].proc]
    /\ Return(r, "remote")
    /\ UNCHANGED <<call, unwritten, temp, file, bucket, remote>>

\* Mutant: the object is named by the request instead of its content.
PutByRequest(r) ==
    /\ pc[r] = "put"
    /\ remote[call[r].proc]
    /\ bucket' = bucket \union {r}
    /\ Return(r, "remote")
    /\ UNCHANGED <<call, unwritten, temp, file, remote>>

Put(r) ==
    /\ pc[r] = "put"
    /\ remote[call[r].proc]
    /\ bucket' = bucket \union {Blob(r)}
    /\ Return(r, "remote")
    /\ UNCHANGED <<call, unwritten, temp, file, remote>>

PutSkipped(r) ==
    /\ pc[r] = "put"
    /\ ~remote[call[r].proc]
    /\ Return(r, "local")
    /\ UNCHANGED <<call, unwritten, temp, file, bucket, remote>>

\* put_object raises: the handler answers 429, the local file stays.
PutFails(r) ==
    /\ "put" \in BlobFaults
    /\ pc[r] = "put"
    /\ remote[call[r].proc]
    /\ Goto(r, "failed")
    /\ UNCHANGED <<call, returned, unwritten, temp, file, bucket, remote>>

\* A process dies and comes back; its temporary files stay.
Restart(p) ==
    /\ "crash" \in BlobFaults
    /\ pc' = [r \in Requests |->
                IF call[r].proc = p /\ pc[r] \in Saving THEN "lost" ELSE pc[r]]
    /\ \E up \in Reachable : remote' = [remote EXCEPT ![p] = up]
    /\ UNCHANGED <<call, returned, unwritten, temp, file, bucket>>

SaveDocument(r) ==
    \/ FindFile(r) \/ FindNothing(r)
    \/ OpenTemporary(r) \/ WriteTemporary(r) \/ Replace(r) \/ LocalWriteFails(r)
    \/ Put(r) \/ PutSkipped(r) \/ PutFails(r)

Next == (\E r \in Requests : SaveDocument(r)) \/ (\E p \in Procs : Restart(p))

Spec == Init /\ [][Next]_vars

-----------------------------------------------------------------------------
(* Properties *)

\* storage.py:42: "Saves document bytes atomically under /blobs/<sha256>.bin": a file
\* under its final name is whole, at every moment another process may look, whichever
\* process fails or dies while it writes the same blob.
WholeFiles == \A b \in Blobs : file[b] # "partial"

\* The path that goes into the row and the record leads to the bytes, also for a
\* request that found the file of another process, one that has crashed or whose
\* upload has failed.  The exception is a request whose own local write failed.
SavedIsReadable ==
    \A r \in Requests :
        /\ returned[r] = "local" => file[Blob(r)] = "whole" \/ r \in unwritten
        /\ returned[r] = "remote" => Blob(r) \in bucket

=============================================================================
