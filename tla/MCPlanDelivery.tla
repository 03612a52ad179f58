---------------------------- MODULE MCPlanDelivery ----------------------------
EXTENDS PlanDelivery, TLC

Symmetry == Permutations(Processes)
=============================================================================
