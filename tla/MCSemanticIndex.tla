--------------------------- MODULE MCSemanticIndex ---------------------------
(* The semantic index for TLC: requests are interchangeable.               *)
EXTENDS SemanticIndex, TLC

RequestSymmetry == Permutations(Requests)
=============================================================================
