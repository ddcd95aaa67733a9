---------------------------- MODULE MCEstablish ----------------------------
(* Establish for TLC: interchangeable calls.                               *)
EXTENDS Establish, TLC

Symmetry == Permutations(Calls)
=============================================================================
