------------------------- MODULE MCCommitExecution -------------------------
(* Plans of three repositories: 1 and 2 are nested in 3. *)
EXTENDS CommitExecution, TLC

CONSTANTS a, b, c

Inc(S) == [include |-> S, exclude |-> {}]
Exc(S) == [include |-> {}, exclude |-> S]
None == [r \in Repo |-> {}]
Files == [f \in Path |-> Regular]

\* Two items of one nested repository, one of the other, one of the root.
Siblings ==
    [items |-> <<<<Inc({a}), Inc({b})>>, <<Inc({a})>>, <<Inc({a})>>>>,
     deps |-> None, nested |-> <<{}, {}, {1, 2}>>,
     link |-> <<Files, Files, (b :> 1) @@ (c :> 2) @@ Files>>,
     dirty |-> <<{a, b}, {a}, {a}>>, staged |-> None, slow |-> {}, jobs |-> 2]
\* One worker, and something staged that an item does not list.
Staging == [Siblings EXCEPT !.jobs = 1, !.staged = <<{b}, {a}, {}>>]
\* No scope, exclusions, and one repository with an item too many.
Loose == [Siblings EXCEPT !.items = <<<<Exc({b})>>, <<Inc({a}), Inc({})>>, <<Inc({})>>>>]
\* Dependencies in a circle.
Circle == [Siblings EXCEPT !.deps = <<{2}, {1, 3}, {}>>,
                           !.items = <<<<Inc({a})>>, <<Inc({a})>>, <<Inc({a})>>>>]
\* A dependency between repositories that are not nested.
Chain == [Siblings EXCEPT !.deps = <<{2}, {}, {}>>, !.nested = None,
                          !.link = <<Files, Files, Files>>, !.items[3] = <<>>]
\* A gitlink nobody registered next to a listed file.
Stray == [Siblings EXCEPT !.items = <<<<Inc({a})>>, <<>>, <<Inc({a, c})>>>>,
                          !.nested = <<{}, {}, {1}>>,
                          !.link[3] = (b :> 1) @@ (c :> Unregistered) @@ Files]
\* The gitlink alone.
Lonely == [Stray EXCEPT !.items[3] = <<Inc({c})>>, !.nested = None, !.link[3][b] = Regular]
\* A worktree too large for git status.
Large == [Siblings EXCEPT !.slow = {1}]
\* Only the two nested repositories: what they share is the lock recovery.
Contended == [Siblings EXCEPT !.items[3] = <<>>]

NinePlans == {Siblings, Staging, Loose, Circle, Chain, Stray, Lonely, Large, Contended}
\* Two locks and no other fault, or one of each.
Locks(p) == IF p = Contended THEN 2 ELSE 1
Faults(p) == IF p = Contended THEN 0 ELSE 1
=============================================================================
