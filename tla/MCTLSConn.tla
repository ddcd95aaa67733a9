----------------------------- MODULE MCTLSConn -----------------------------
(* TLSConn for TLC: interchangeable goroutines.                            *)
EXTENDS TLSConn, TLC

Symmetry == Permutations(Callers)
=============================================================================
