---------------------------- MODULE MCBlobStore ----------------------------
(* A small instance of BlobStore for TLC. *)
EXTENDS BlobStore, TLC

Symmetry == Permutations(Requests) \union Permutations(Blobs) \union Permutations(Procs)

=============================================================================
