-------------------------- MODULE MCActivationRun --------------------------
(* ActivationRun with an inventory of a semantic and a manual item, and one *)
(* with nothing in it.                                                      *)
EXTENDS ActivationRun, TLC

CONSTANTS doc, void, judged, routed, s1, s2

MCInventories == {doc, void}
MCStrategies == {s1, s2}
MCSelected == (doc :> {judged, routed}) @@ (void :> {})
MCManual == {routed}
Symmetry == Permutations(MCStrategies)
=============================================================================
