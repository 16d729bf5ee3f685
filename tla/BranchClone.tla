----------------------------- MODULE BranchClone -----------------------------
(***************************************************************************)
(* The clone that kog converge branches works on: local branches, the      *)
(* branches of the remote and what the clone last saw of them, worktrees;  *)
(* and what the planner computes from it (BranchPlanJsonForRepo).          *)
(*                                                                         *)
(* A commit carries the patches it introduces and who made it; the tip of  *)
(* a branch is the set of commits it reaches and the set of patches that   *)
(* are in its tree.  The two differ: a cherry-pick brings a patch in       *)
(* under another commit, a squash several under one, and an "ours" merge   *)
(* the commits without their patches.                                      *)
(***************************************************************************)
EXTENDS Integers, FiniteSets

CONSTANTS
    Target, Sources,   \* the branch that is converged to, and the others
    Patches,           \* numbers, in the order in which they were written
    FileOf,            \* [Patches -> file]
    Linked             \* the linked worktrees

\* No branch has the name that stands for what is not a branch.
ASSUME BranchAssumption ==
    /\ Target \notin Sources /\ {"detached", "removed", "none"} \cap (Sources \cup {Target}) = {}
    /\ DOMAIN FileOf \subseteq Patches

Branches == Sources \cup {Target}
Worktrees == Linked \cup {"primary"}

Makers == {"author", "replay", "squash", "merge", "ours", "harvest"}
Commit == [patches : SUBSET Patches, by : Makers]
\* NoRef is the tip of a branch there is not; no tree but its has the 0.
Tip == [log : SUBSET Commit, tree : SUBSET (Patches \cup {0})]
NoRef == [log |-> {}, tree |-> {0}]
Refs == [Branches -> Tip]
Worktree == [on : Branches \cup {"detached", "removed"}, at : Tip, edits : SUBSET Patches]

VARIABLES
    ref,         \* refs/heads/*
    tracking,    \* refs/remotes/origin/*, as of the last fetch
    published,   \* the branches of the remote
    upstream,    \* [Branches -> the remote branch it tracks, or "none"]
    worktree,    \* [Worktrees -> Worktree]
    stopped      \* what git left in progress where the target is checked out:
                 \* "none", "conflict", or "empty" (a cherry-pick with a clean tree)
cloneVars == <<ref, tracking, published, upstream, worktree, stopped>>

-----------------------------------------------------------------------------
(* Git                                                                     *)

IsMerge(c) == c.by \in {"merge", "ours"}
IsAncestor(a, b) == a.log \subseteq b.log
Onto(t, commits) ==
    [log |-> t.log \cup commits, tree |-> t.tree \cup UNION {c.patches : c \in commits}]
Made(p, who) == [patches |-> p, by |-> who]

\* git cherry t b: the commits of b that t has neither by id nor by patch.
Beyond(t, b) == {c \in b.log \ t.log : ~IsMerge(c)}
Missing(t, b) == {c \in Beyond(t, b) : \A d \in t.log \ b.log : d.patches # c.patches}

\* A cherry-pick of c stops as empty: its change is already in the tree.
Empty(c, t) == c.patches \subseteq t.tree

\* Every commit of b is in t, by id, by patch or by what it does.
Contains(t, b) ==
    \A c \in b.log \ t.log : IsMerge(c) \/ Empty(c, t)
                             \/ \E d \in t.log : d.patches = c.patches

HeadOf(w) == IF worktree[w].on = "detached" THEN worktree[w].at ELSE ref[worktree[w].on]
On(b) == {w \in Worktrees : worktree[w].on = b}
Live == {w \in Worktrees : worktree[w].on # "removed"}
Clean(w) == worktree[w].edits = {} /\ ~(stopped = "conflict" /\ worktree[w].on = Target)
Checkout(w, b) == worktree' = [worktree EXCEPT ![w].on = b]
Remove(w) == worktree' = [worktree EXCEPT ![w].on = "removed", ![w].edits = {}]

-----------------------------------------------------------------------------
(* The plan                                                                *)

\* A branch is a candidate by its local ref, or by the ref of the remote
\* when there is no local one.
RemoteOnly(b) == ref[b] = NoRef
Candidates == {b \in Sources : ref[b] # NoRef \/ tracking[b] # NoRef}
Source(b) == IF RemoteOnly(b) THEN tracking[b] ELSE ref[b]

HasUpstream(b) == ~RemoteOnly(b) /\ upstream[b] # "none" /\ tracking[upstream[b]] # NoRef
AheadOf(b) == HasUpstream(b) /\ ~IsAncestor(ref[b], tracking[upstream[b]])
BehindOf(b) == HasUpstream(b) /\ ~IsAncestor(tracking[upstream[b]], ref[b])
PublishedSameName(b) == ~RemoteOnly(b) /\ tracking[b] = ref[b]

Merged(b) == IsAncestor(Source(b), ref[Target])

\* DirtyKindBlocksBranchPlan of the repository's own status; such a one
\* postpones the patch proof unless one branch was asked for.
RepoDirty ==
    LET b == worktree["primary"].on
    IN  ~Clean("primary") \/ b = "detached" \/ (AheadOf(b) /\ BehindOf(b))
PatchEquivalent(b, filtered) ==
    /\ filtered \/ ~RepoDirty
    /\ Beyond(ref[Target], Source(b)) # {} /\ Missing(ref[Target], Source(b)) = {}

Overlaps(b) ==
    \E w \in On(b), v \in Live \ On(b) :
        /\ worktree[v].on # "detached"
        /\ {FileOf[e] : e \in worktree[w].edits} \cap {FileOf[e] : e \in worktree[v].edits} # {}

Blockers(b) ==
    {k \in {"ACTIVE_WORKTREE_LEASE"} : On(b) # {}} \cup
    {k \in {"DIRTY_WORKTREE_LEASE"} : \E w \in On(b) : ~Clean(w)} \cup
    {k \in {"DIRTY_WORKTREE"} : RepoDirty} \cup
    {k \in {"STALE_TARGET_BRANCH"} : BehindOf(Target)} \cup
    {k \in {"UNPUSHED_COMMITS"} : /\ ~RemoteOnly(b) /\ ~PublishedSameName(b)
                                  /\ AheadOf(b) \/ (~HasUpstream(b) /\ ~Merged(b))} \cup
    {k \in {"STALE_LOCAL_BRANCH"} : BehindOf(b) /\ upstream[b] # Target}

RetireBlockersForIntegratedBranch(blockers, removeWorktrees, deleteRemote, harvest) ==
    blockers \ ({"UNPUSHED_COMMITS", "DIRTY_WORKTREE"}
                \cup (IF deleteRemote THEN {} ELSE {"STALE_LOCAL_BRANCH"})
                \cup (IF removeWorktrees THEN {"ACTIVE_WORKTREE_LEASE"} ELSE {})
                \cup (IF harvest THEN {"DIRTY_WORKTREE_LEASE"} ELSE {}))
BlockersForNoopProof(blockers) ==
    blockers \ {"ACTIVE_WORKTREE_LEASE", "UNPUSHED_COMMITS", "STALE_LOCAL_BRANCH", "DIRTY_WORKTREE"}
ApplyBlockersForCherryPickBranch(blockers) ==
    blockers \ {"UNPUSHED_COMMITS", "ACTIVE_WORKTREE_LEASE", "DIRTY_WORKTREE"}

\* In a scratch worktree at the target each missing commit comes out empty.
CherryPickNoop(b) == \A c \in Missing(ref[Target], Source(b)) : Empty(c, ref[Target])

\* Mutant: the proof that nothing is left counts any commit it could replay.
AnyPatchIntegrated(b, filtered, noopProof) ==
    \/ Merged(b) \/ PatchEquivalent(b, filtered)
    \/ noopProof /\ BlockersForNoopProof(Blockers(b)) = {}
                 /\ \E c \in Source(b).log : Empty(c, ref[Target])

Integrated(b, filtered, noopProof) ==
    \/ Merged(b) \/ PatchEquivalent(b, filtered)
    \/ noopProof /\ BlockersForNoopProof(Blockers(b)) = {} /\ CherryPickNoop(b)

\* What the plan keeps of a branch.
Planned(b, filtered, noopProof) ==
    LET integrated == Integrated(b, filtered, noopProof)
        blockers == IF integrated
                    THEN RetireBlockersForIntegratedBranch(Blockers(b), TRUE, FALSE, FALSE)
                    ELSE Blockers(b)
    IN  [remoteOnly |-> RemoteOnly(b), merged |-> Merged(b), integrated |-> integrated,
         behind |-> BehindOf(b),
         blockers |-> blockers \cup {k \in {"DIRTY_WORKTREE_OVERLAP"} : Overlaps(b)}]
=============================================================================
