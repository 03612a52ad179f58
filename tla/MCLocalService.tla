--------------------------- MODULE MCLocalService ---------------------------
(* Instances of LocalService. *)
EXTENDS LocalService, TLC

Alike == Permutations(Versions) \cup Permutations(Configs)
=============================================================================
