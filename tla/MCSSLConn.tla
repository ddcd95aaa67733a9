----------------------------- MODULE MCSSLConn -----------------------------
(* SSLConn for TLC: interchangeable goroutines and payloads.               *)
EXTENDS SSLConn, TLC

Symmetry == Permutations(Threads) \union Permutations(Bufs)
=============================================================================
