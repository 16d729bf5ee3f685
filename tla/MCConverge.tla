----------------------------- MODULE MCConverge -----------------------------
(* Small workspaces for kog converge, for TLC. *)
EXTENDS Converge

\* 1 contains 2, and 2 contains 3.
MCChain == 1..3
MCChainParent == [r \in {2, 3} |-> r - 1]

\* A repository r whose branch is at commit r.  What happened in it: a commit
\* 3 + r of the user, and a commit 6 + r that others pushed.
User(r) == 3 + r
Others(r) == 6 + r
First == 10

Mine(how) == how \in {"ahead", "ahead_dirty", "diverged", "diverged_dirty", "detached_ahead",
                     "withheld"}
Theirs(how) == how \in {"behind", "diverged", "diverged_dirty", "stale", "stale_dirty"}
Fetched(how) == how \in {"behind", "diverged", "diverged_dirty"}

HeadOf(how, r) == IF Mine(how) THEN User(r) ELSE r

Workspace(how) ==
    [repo |-> [r \in Repos |->
        [head |-> HeadOf(how[r], r),
         pins |-> [c \in Repos |-> IF c \notin Children(r) THEN 0
                                   ELSE IF how[r] = "ahead" THEN HeadOf(how[c], c) ELSE c],
         base |-> r, basePins |-> [c \in Repos |-> IF c \in Children(r) THEN c ELSE 0],
         seen |-> IF Fetched(how[r]) THEN Others(r) ELSE r,
         unpub |-> IF Mine(how[r]) THEN {User(r)} ELSE {},
         index |-> how[r] = "index",
         content |-> how[r] \in {"content", "ahead_dirty", "stale_dirty", "diverged_dirty"},
         conflict |-> how[r] = "conflict",
         attached |-> how[r] \notin {"detached", "detached_ahead"},
         pushable |-> how[r] # "local", withheld |-> how[r] = "withheld"]],
     remote |-> [r \in Repos |->
        [tip |-> IF Theirs(how[r]) THEN Others(r) ELSE r,
         has |-> {r} \cup IF Theirs(how[r]) THEN {Others(r)} ELSE {},
         pins |-> [c \in Repos |-> IF c \notin Children(r) THEN 0
                                   ELSE IF Theirs(how[r]) /\ Theirs(how[c]) THEN Others(c) ELSE c]]],
     fresh |-> First]

Ways == {"clean", "index", "content", "ahead", "ahead_dirty", "behind", "diverged", "diverged_dirty",
         "stale", "stale_dirty", "conflict", "detached", "local", "withheld"}

\* In which at most two repositories are not clean, and the outer ones have met
\* with less.
Outer == {"clean", "index", "ahead", "stale"}
Middle == Ways \ {"conflict", "local", "ahead_dirty", "stale_dirty", "diverged_dirty"}

Workspaces == {Workspace(how) :
    how \in {h \in [Repos -> Ways] : /\ h[1] \in Outer /\ h[2] \in Middle
                                     /\ \E r \in Repos : h[r] = "clean"}}
=============================================================================
