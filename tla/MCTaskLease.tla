---------------------------- MODULE MCTaskLease ----------------------------
(* Instances of TaskLease for TLC: connections, tasks, actors and worktrees *)
(* are interchangeable, lease ids are ordered.                              *)
EXTENDS TaskLease, TLC

Symmetry ==
  UNION {Permutations(S) : S \in {Tasks, Actors, Worktrees, Clients, Sweepers}}
=============================================================================
