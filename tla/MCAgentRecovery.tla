-------------------------- MODULE MCAgentRecovery --------------------------
EXTENDS AgentRecovery, TLC

CONSTANTS s1, l1, a1
OneScope == [l \in {l1} |-> s1]
AgentDismissed == {[actor |-> "agent", sign |-> -1]}
KeysAlike == Permutations(Keys) \cup Permutations(LegacyKeys)
=============================================================================
