----------------------------- MODULE MCRepoSync -----------------------------
(* Small repositories for kog sync, for TLC. *)
EXTENDS RepoSync

MCOwn == {"o1", "o2"}
MCForeign == {"f1", "f2"}

\* 1 is staged and 2 not, in one file; 3 is a later save of that file, 4 of
\* another.
MCEdits == 1..4
MCFileOf == <<"a", "a", "a", "b">>

MCChanges == {[index |-> i, tree |-> t] : i \in {{}, {1}}, t \in {{}, {1, 2}}}
SomeChanges == {c \in MCChanges : c.index \subseteq c.tree}

Repositories(heads, commands) ==
    {s \in [command : commands,
            branch : [Branches -> {NoCommit, {}, {"o1"}, {"f1"}}],
            head : heads, at : {{}, {"o2"}, {"o1", "o2"}, {"f1"}},
            tracking : {NoCommit, {}, {"f1"}, {"o1"}}, published : {NoCommit, {"f1"}, {"o1", "f1"}},
            upstream : BOOLEAN, rebasing : {NoCommit, {"o1"}}, change : SomeChanges] :
        /\ s.branch["other"] = (IF s.head = "other" THEN {"o1"} ELSE NoCommit)
        /\ s.head # "detached" => s.branch[s.head] # NoCommit /\ s.at = {} /\ s.rebasing = NoCommit
        /\ s.rebasing # NoCommit => s.branch["target"] = s.rebasing
        /\ s.upstream => s.tracking # NoCommit /\ s.head # "detached"
        /\ s.tracking = NoCommit \/ s.tracking \subseteq s.published
        /\ s.branch["target"] = {"f1"} => "f1" \in s.published}

\* Called on the target branch, on another branch or on a detached HEAD.
MCStarts == Repositories({"target", "other", "detached"}, {"origin-latest", "pre-commit"})
MCLateEdits == {3, 4}
=============================================================================
