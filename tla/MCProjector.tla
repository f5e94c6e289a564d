---------------------------- MODULE MCProjector ----------------------------
(* Projector for TLC: writers are interchangeable, and no run that uses a    *)
(* symmetry checks liveness.                                                 *)
EXTENDS Projector, TLC

Symmetry == Permutations(Writers)
=============================================================================
