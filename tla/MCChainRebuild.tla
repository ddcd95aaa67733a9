-------------------------- MODULE MCChainRebuild ---------------------------
(* ChainRebuild for TLC: names and key identifiers are interchangeable.    *)
EXTENDS ChainRebuild, TLC

Symmetry == Permutations(Names) \union Permutations(KeyIds)
=============================================================================
