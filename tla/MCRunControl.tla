---------------------------- MODULE MCRunControl ----------------------------
(* RunControl for TLC: processes and drafts are interchangeable.           *)
EXTENDS RunControl, TLC

Symmetry == Permutations(Processes) \cup Permutations(Drafts) \cup Permutations(RunIds)
\* Two saves, or one and what handlers of a run do.
FewSaves == drawn < 2 \/ work = 0
=============================================================================
