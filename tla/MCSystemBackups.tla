-------------------------- MODULE MCSystemBackups --------------------------
(* SystemBackups for TLC: rows, runners and sweepers are interchangeable.  *)
EXTENDS SystemBackups, TLC

Interchangeable ==
  Permutations(Backups) \cup Permutations(Runners) \cup Permutations(Sweepers)
=============================================================================
