---------------------------- MODULE MCSlackDrain ----------------------------
(* SlackDrain for TLC: requests, channels and runs are interchangeable.    *)
EXTENDS SlackDrain, TLC

Symmetry == Permutations(Requests) \cup Permutations(Channels) \cup Permutations(Runs)
=============================================================================
