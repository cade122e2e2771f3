---------------------------- MODULE MCRunService ----------------------------
(* Two processes on one runs directory.  Nothing tells processes, callers,
   targets and runs apart, so states that differ by a permutation are one. *)
EXTENDS RunService, TLC

Symmetry == Permutations(Processes) \cup Permutations(Clients)
            \cup Permutations(Targets) \cup Permutations(Runs)
=============================================================================
