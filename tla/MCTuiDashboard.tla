--------------------------- MODULE MCTuiDashboard ---------------------------
(* Two repositories, one of them with a dirty worktree. *)
EXTENDS TuiDashboard

CONSTANTS r1, r2

Lengths == [r \in Repos |-> IF r \in Dirty THEN 1 ELSE 3]
Lists == {<<r>> : r \in Repos \ Dirty} \cup {SetToSeq(Repos)}
=============================================================================
