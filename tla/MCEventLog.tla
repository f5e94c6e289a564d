----------------------------- MODULE MCEventLog -----------------------------
(* Instances of EventLog for TLC: the processes and the keys are            *)
(* interchangeable, the ids and the xids are not.                           *)
EXTENDS EventLog, TLC

Symmetry ==
  Permutations(Writers) \union Permutations(Consumers) \union Permutations(Keys)
=============================================================================
