---------------------------- MODULE MCBlueGreen ----------------------------
(* Finite instances of BlueGreen. *)
EXTENDS BlueGreenProperties, TLC

Symmetry == Permutations(Hash)
=============================================================================
