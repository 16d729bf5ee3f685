---------------------- MODULE MCRepoOperationScheduler ----------------------
(* Small calls of the scheduler for TLC. *)
EXTENDS RepoOperationScheduler

AllCalls(graphs, explicits, dirs, resolves, jobses, modes) ==
    [deps : graphs, explicitLockKey : explicits, commonDir : dirs,
     resolveGitCommonDirLocks : resolves, jobs : jobses, mode : modes]

NoKeys == {[r \in Repo |-> 0]}

\* A last repository that depends on all others.
Topped(g) == [r \in Repo |-> IF r = N THEN 1..(N - 1) ELSE g[r]]

\* Every graph on three repositories without self loops or foreign paths.
PlainGraphs ==
    {Topped(g) : g \in {f \in [1..(N - 1) -> SUBSET (1..(N - 1))] : \A r \in 1..(N - 1) : r \notin f[r]}}

\* The same graphs with a self loop and a path outside the workspace added.
NoisyGraphs == {[r \in Repo |-> g[r] \cup {0, r}] : g \in PlainGraphs}

\* Two worktrees of one repository and a third repository; a repository
\* whose common directory cannot be resolved.
SharedDirs == {[r \in Repo |-> IF r < 3 THEN N + 1 ELSE N + 2],
               [r \in Repo |-> IF r = 2 THEN N + 2 ELSE N + 1],
               [r \in Repo |-> IF r = 1 THEN 0 ELSE N + 1]}

\* Four repositories: a diamond, two parents with two children each, a chain
\* hanging below a cycle.
WideGraphs == {<<{}, {1}, {1}, {2, 3}>>, <<{}, {}, {1, 2}, {1, 2}>>,
               <<{2}, {1}, {2}, {3}>>, <<{4}, {4}, {2, 4}, {}>>}

MutatingOnly == {"MutatingDependencyWaves"}
NoEdges == {[r \in Repo |-> {}]}
SmallInputs ==
    AllCalls(PlainGraphs, NoKeys, SharedDirs, {TRUE}, {2}, MutatingOnly)
    \cup AllCalls(NoisyGraphs, NoKeys, {[r \in Repo |-> N + 1]}, {TRUE}, {0, 1, 3}, MutatingOnly)
    \cup AllCalls(NoEdges, NoKeys, SharedDirs, {TRUE}, {2}, Modes \ MutatingOnly)
    \cup AllCalls({Topped([r \in Repo |-> {}])}, {[r \in Repo |-> N + 3]}, SharedDirs,
                  {TRUE}, {2}, MutatingOnly)
    \cup AllCalls({Topped([r \in Repo |-> {}])}, NoKeys, {[r \in Repo |-> N + 1]},
                  {FALSE}, {3}, MutatingOnly)
    \cup AllCalls(WideGraphs, NoKeys,
                  {<<5, 5, 6, 6>>, <<5, 6, 6, 5>>, <<5, 6, 7, 8>>}, {TRUE}, {2}, MutatingOnly)
=============================================================================
