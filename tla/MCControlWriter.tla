--------------------------- MODULE MCControlWriter ---------------------------
(* Small instances of ControlWriter: three calls of run for the safety      *)
(* properties (owner tokens are interchangeable), two for the others.       *)
EXTENDS ControlWriter, TLC

Symmetry == Permutations(Run)
=============================================================================
