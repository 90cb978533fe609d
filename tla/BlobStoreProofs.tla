-------------------------- MODULE BlobStoreProofs ---------------------------
(***************************************************************************)
(* Theorems about BlobStore, for any number of requests, blobs and         *)
(* processes and whatever faults the environment injects.                  *)
(***************************************************************************)
EXTENDS BlobStore, TLAPS

\* What the return of a path relies on: a request that has passed its rename finds
\* the whole file, unless its own write has failed.
ReplacedOrFailed ==
    \A r \in Requests :
        pc[r] = "put" => file[Blob(r)] = "whole" \/ r \in unwritten

\* What a rename relies on: the request has written and closed its temporary file,
\* and nobody else has opened it since.
WrittenFirst ==
    \A r \in Requests : pc[r] = "replace" => temp[Tmp(r)] = "whole"

BlobInv == TypeOK /\ WrittenFirst /\ WholeFiles /\ ReplacedOrFailed /\ SavedIsReadable

LEMMA BlobInvInit == Init => BlobInv
<1> SUFFICES ASSUME Init PROVE BlobInv
  OBVIOUS
<1>1. TypeOK
  BY ReachableIsFlags DEF Init, TypeOK, Contents, Stages
<1>2. WrittenFirst /\ WholeFiles /\ ReplacedOrFailed
  BY DEF Init, WrittenFirst, WholeFiles, ReplacedOrFailed
<1>3. SavedIsReadable
  BY NoneIsNoPath DEF Init, SavedIsReadable
<1> QED
  BY <1>1, <1>2, <1>3 DEF BlobInv

LEMMA BlobInvStep == BlobInv /\ [Next]_vars => BlobInv'
<1> SUFFICES ASSUME BlobInv, [Next]_vars PROVE BlobInv'
  OBVIOUS
<1> USE DEF BlobInv, Contents, Saving, Stages, Tmp
<1>1. ASSUME NEW r \in Requests, FindFile(r)
      PROVE  BlobInv'
  <2>1. file[Blob(r)] = "whole"
    BY <1>1 DEF FindFile, WholeFiles, TypeOK, Blob
  <2> QED
    BY <1>1, <2>1 DEF FindFile, Return, Goto, TypeOK, WrittenFirst, WholeFiles, ReplacedOrFailed, SavedIsReadable, Blob
<1>2. ASSUME NEW r \in Requests, FindNothing(r) \/ OpenTemporary(r) \/ WriteTemporary(r)
      PROVE  BlobInv'
  BY <1>2 DEF FindNothing, OpenTemporary, WriteTemporary, Goto, TypeOK, WrittenFirst, WholeFiles, ReplacedOrFailed, SavedIsReadable, Blob
<1>3. ASSUME NEW r \in Requests, Replace(r)
      PROVE  BlobInv'
  <2>1. temp[Tmp(r)] = "whole"
    BY <1>3 DEF Replace, WrittenFirst
  <2>2. TypeOK' /\ WholeFiles'
    BY <1>3, <2>1 DEF Replace, Goto, TypeOK, WholeFiles, Blob
  <2>3. \A b \in Blobs : file[b] = "whole" => file'[b] = "whole"
    BY <1>3, <2>1 DEF Replace, TypeOK
  <2>4. file'[Blob(r)] = "whole"
    BY <1>3, <2>1 DEF Replace, TypeOK, Blob
  <2>5. WrittenFirst'
    BY <1>3 DEF Replace, Goto, TypeOK, WrittenFirst
  <2> QED
    BY <1>3, <2>2, <2>3, <2>4, <2>5 DEF Replace, Goto, TypeOK, ReplacedOrFailed, SavedIsReadable, Blob
<1>4. ASSUME NEW r \in Requests, LocalWriteFails(r)
      PROVE  BlobInv'
  BY <1>4 DEF LocalWriteFails, Goto, TypeOK, WrittenFirst, WholeFiles, ReplacedOrFailed, SavedIsReadable, Blob
<1>5. ASSUME NEW r \in Requests, Put(r)
      PROVE  BlobInv'
  BY <1>5 DEF Put, Return, Goto, TypeOK, WrittenFirst, WholeFiles, ReplacedOrFailed, SavedIsReadable, Blob
<1>6. ASSUME NEW r \in Requests, PutSkipped(r)
      PROVE  BlobInv'
  BY <1>6 DEF PutSkipped, Return, Goto, TypeOK, WrittenFirst, WholeFiles, ReplacedOrFailed, SavedIsReadable, Blob
<1>7. ASSUME NEW r \in Requests, PutFails(r)
      PROVE  BlobInv'
  BY <1>7 DEF PutFails, Goto, TypeOK, WrittenFirst, WholeFiles, ReplacedOrFailed, SavedIsReadable, Blob
<1>8. ASSUME NEW p \in Procs, Restart(p)
      PROVE  BlobInv'
  <2>1. TypeOK'
    BY <1>8, ReachableIsFlags DEF Restart, TypeOK
  <2> QED
    BY <1>8, <2>1 DEF Restart, TypeOK, WrittenFirst, WholeFiles, ReplacedOrFailed, SavedIsReadable, Blob
<1>9. CASE UNCHANGED vars
  BY <1>9 DEF vars, TypeOK, WrittenFirst, WholeFiles, ReplacedOrFailed, SavedIsReadable, Blob
<1> QED
  BY <1>1, <1>2, <1>3, <1>4, <1>5, <1>6, <1>7, <1>8, <1>9 DEF Next, SaveDocument

\* Requests, files and processes stay in the states of storage.py, and every path returned
\* is one of the two it has.
THEOREM TypesHold == Spec => []TypeOK
<1>1. BlobInv => TypeOK
  BY DEF BlobInv
<1> QED
  BY BlobInvInit, BlobInvStep, <1>1, PTL DEF Spec

\* No interleaving of processes, crash or failing write leaves a part of a document
\* under its final name: what is renamed was written to the end, by the request that
\* renames it.
THEOREM WholeFilesHold == Spec => []WholeFiles
<1>1. BlobInv => WholeFiles
  BY DEF BlobInv
<1> QED
  BY BlobInvInit, BlobInvStep, <1>1, PTL DEF Spec

\* Every path that save_document has returned keeps leading to the bytes.
THEOREM SavedIsReadableHolds == Spec => []SavedIsReadable
<1>1. BlobInv => SavedIsReadable
  BY DEF BlobInv
<1> QED
  BY BlobInvInit, BlobInvStep, <1>1, PTL DEF Spec

=============================================================================
