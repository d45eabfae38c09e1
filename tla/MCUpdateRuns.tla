---------------------------- MODULE MCUpdateRuns ----------------------------
(* UpdateRuns for TLC: two Celery workers are interchangeable.             *)
EXTENDS UpdateRuns, TLC

WorkerSymmetry == Permutations(Workers)
=============================================================================
