--------------------------- MODULE SelectedCommit ---------------------------
(***************************************************************************)
(* What the two routes of kog commit --exact-path share: the selection,    *)
(* where the process is, what it reports, and what it read at the start.   *)
(***************************************************************************)
EXTENDS GitCheckout

CONSTANT Selected     \* the --exact-path arguments, the captured paths
ASSUME SelectedAssumption == Selected \subseteq Path /\ Selected # {}

VARIABLES
    pc,
    result,      \* status or blocker printed, "" while running
    base,        \* the commit HEAD was at
    before       \* the index entries read at the start

Unrelated(entries) == [f \in Path \ Selected |-> entries[f]]
Goto(l) == pc' = l /\ UNCHANGED result

KogCommits == {n \in DOMAIN log : log[n].by = "kog"}
=============================================================================
