\* Crashes, failing uploads and local writes, and a MinIO that may be absent.
CONSTANTS
    Requests = {r1, r2, r3}
    Blobs = {b1, b2}
    Procs = {p1, p2}
    BlobFaults = {"disk", "put", "crash"}
    Reachable = {TRUE, FALSE}
    None = None
SPECIFICATION Spec
SYMMETRY Symmetry
CHECK_DEADLOCK FALSE
INVARIANTS
    TypeOK
    WholeFiles
    SavedIsReadable
