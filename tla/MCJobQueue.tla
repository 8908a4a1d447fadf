------------------------------ MODULE MCJobQueue ------------------------------
(***************************************************************************)
(* Model-checking instances of JobQueue.  Workers are interchangeable, and *)
(* so are jobs: neither is ordered by anything but the feed.  Symmetry is  *)
(* used by the safety runs only.                                           *)
(***************************************************************************)
EXTENDS JobQueue, TLC

Symmetry == Permutations(Worker) \cup Permutations(Job)
=============================================================================
