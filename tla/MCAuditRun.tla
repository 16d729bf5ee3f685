----------------------------- MODULE MCAuditRun -----------------------------
EXTENDS AuditRun, TLC

\* The processes differ in nothing but their names.
Symmetry == Permutations(Process)
=============================================================================
