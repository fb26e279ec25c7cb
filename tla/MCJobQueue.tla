----------------------------- MODULE MCJobQueue -----------------------------
(* Model checking of JobQueue: which job types meet in an instance.        *)
EXTENDS JobQueue, TLC

UploadKinds   == {"upload", "move"}
DeletionKinds == {"local_delete", "delete", "hydrate_cloudsc"}

PathSymmetry == Permutations(Path)

=============================================================================
