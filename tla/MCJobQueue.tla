----------------------------- MODULE MCJobQueue -----------------------------
(***************************************************************************)
(* Small instances of JobQueue for TLC; the .cfg files choose their sizes. *)
(***************************************************************************)
EXTENDS JobQueue, TLC

\* Jobs are interchangeable, as nothing orders them but their own records, and so are
\* those who call drain() and those who call close().
QueueSymmetry == Permutations(Jobs) \cup Permutations(Drainers) \cup Permutations(Closers)
=============================================================================
