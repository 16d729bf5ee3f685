----------------------------- MODULE MCPlanRun ------------------------------
EXTENDS PlanRun, TLC
CONSTANTS child, root
ChildFirstOrder == {<<child, root>>}
AnyOrder == {<<child, root>>, <<root, child>>}
\* Bound of the run: of all troubles together, two are explored.
FewTroubles == saves + faults + kills + others <= 2
Symmetry == Permutations(Process)
=============================================================================
