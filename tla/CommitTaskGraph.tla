--------------------------- MODULE CommitTaskGraph ---------------------------
(***************************************************************************)
(* BuildRepoCommitRunbooks and BuildCommitTaskGraph: from a commit plan to *)
(* waves of commit tasks.  A task is one commit item of one repository.    *)
(* Repositories are numbered in the order of nodeLess, deeper paths first. *)
(***************************************************************************)
EXTENDS Integers, Sequences, FiniteSets

CONSTANTS
    N,       \* repositories of the workspace
    MaxItems,  \* bound: items of a repository
    Path,    \* paths of a repository
    Plan     \* the plans

ASSUME CountAssumption == N \in Nat /\ MaxItems \in Nat

Repo == 1..N
Regular == 0           \* a path that is a file
Unregistered == N + 1  \* a gitlink nobody registered, of no repository here

\* include and exclude as pathspecs that name paths; both empty is "no scope".
Item == [include : SUBSET Path, exclude : SUBSET Path]
Plans == [items  : [Repo -> Seq(Item)],
          deps   : [Repo -> SUBSET Repo],           \* RepoRecord.dependencies
          nested : [Repo -> SUBSET Repo],           \* repositories below it
          link   : [Repo -> [Path -> 0..(N + 1)]],  \* what a path is
          dirty  : [Repo -> SUBSET Path],           \* changed regular files
          staged : [Repo -> SUBSET Path],           \* those staged already
          slow   : SUBSET Repo,                     \* git status runs out of time
          jobs   : Nat \ {0}]
ASSUME PlanAssumption == Plan \subseteq Plans
ASSUME NestedAssumption ==
    \A p \in Plan : \A r \in Repo :
        /\ Len(p.items[r]) <= MaxItems
        /\ \A c \in p.nested[r] : c < r
        /\ \A f \in Path : p.link[r][f] \in Repo => p.link[r][f] \in p.nested[r]

Scoped(item) == item.include # {} \/ item.exclude # {}

\* A repository with several items of which one has no scope gets no task.
Valid(p, r) == Len(p.items[r]) > 1 => \A i \in DOMAIN p.items[r] : Scoped(p.items[r][i])

AllTasks == Repo \X (1..MaxItems)
Tasks(p) == {t \in AllTasks : Valid(p, t[1]) /\ t[2] \in DOMAIN p.items[t[1]]}

-----------------------------------------------------------------------------
\* Mutant: a parent waits for the first item of a nested repository.
EdgeFromHead(p, s, t) ==
    \/ s[1] = t[1] /\ t[2] = s[2] + 1
    \/ /\ s[1] # t[1] /\ s[2] = 1 /\ t[2] = 1
       /\ t[1] \in p.deps[s[1]] \/ s[1] \in p.nested[t[1]]

\* addEdge: items in order, and a repository's last item before the first one
\* of what depends on it: its recorded parents, and every path above it.
Edge(p, s, t) ==
    \/ s[1] = t[1] /\ t[2] = s[2] + 1
    \/ /\ s[1] # t[1] /\ s[2] = Len(p.items[s[1]]) /\ t[2] = 1
       /\ t[1] \in p.deps[s[1]] \/ s[1] \in p.nested[t[1]]

\* Some tasks wait for each other.
Circular(p) ==
    \E S \in SUBSET Tasks(p) : S # {} /\ \A t \in S : \E s \in S : Edge(p, s, t)

NodeLess(s, t) == s[1] < t[1] \/ (s[1] = t[1] /\ s[2] < t[2])

\* On a cycle the whole plan is run task by task, in the order of nodeLess.
Rank(p, t) == Cardinality({s \in Tasks(p) : NodeLess(s, t)})
Fallback(p) == [k \in 1..Cardinality(Tasks(p)) |-> {t \in Tasks(p) : Rank(p, t) = k - 1}]
=============================================================================
