---------------------------- MODULE ConvergePlan ----------------------------
(***************************************************************************)
(* What kog converge decides from a status snapshot: the kind of every     *)
(* repository (BuildRecursiveRepoStatus) and the plan (BuildPlan).         *)
(***************************************************************************)
EXTENDS Integers, FiniteSets, FiniteSetsExt

CONSTANTS
    Repos,          \* 1..n, in the order of the repository ids
    Parent          \* [Repos \ {1} -> Repos]: the containing repository

Root == 1

ASSUME TreeAssumption ==
    /\ IsFiniteSet(Repos) /\ Root \in Repos /\ Repos = 1..Cardinality(Repos)
    /\ Parent \in [Repos \ {Root} -> Repos]
    /\ \A r \in Repos \ {Root} : Parent[r] < r

Children(r) == {c \in Repos \ {Root} : Parent[c] = r}
Nested(r) == r # Root

\* The repositories above one, itself included.
Ancestors[r \in Repos] == {r} \cup IF r = Root THEN {} ELSE Ancestors[Parent[r]]
UpClosure(S) == UNION {Ancestors[r] : r \in S}
Descendants(r) == {d \in Repos \ {r} : r \in Ancestors[d]}

\* Waves: a repository is one wave after the last of those it contains.
Depth(r) == Cardinality(Ancestors[r])
Wave(r) == Max({Depth(d) : d \in Descendants(r) \cup {r}}) - Depth(r)

-----------------------------------------------------------------------------
(* A repository: HEAD and its gitlinks, the newest published commit below  *)
(* HEAD and its gitlinks, the remote-tracking branch, the commits above;   *)
(* what its worktree and index hold; whether a branch with an upstream is  *)
(* checked out; whether its policy allows a push; whether a push of it is  *)
(* left out for what only kog push asks, .gitmodules and a remote that has *)
(* the branch checked out.  Its branch on the remote: the tip, the         *)
(* gitlinks there and all commits it ever had.                             *)
Local == [head : Nat, pins : [Repos -> Nat], base : Nat, basePins : [Repos -> Nat], seen : Nat,
          unpub : SUBSET Nat, index : BOOLEAN, content : BOOLEAN, conflict : BOOLEAN,
          attached : BOOLEAN, pushable : BOOLEAN, withheld : BOOLEAN]
Remote == [tip : Nat, has : SUBSET Nat, pins : [Repos -> Nat]]

(* What git keeps true of repositories s and remotes m, next being the     *)
(* number of the next commit and gone those that a rebase has replaced: a  *)
(* HEAD and what gitlinks pin is published or still here, gitlinks that    *)
(* are published pin what is published, or what is withheld.               *)
Withheld(l) == IF l.withheld THEN l.unpub ELSE {}
Consistent(s, m, next, gone) ==
    /\ s \in [Repos -> Local] /\ m \in [Repos -> Remote] /\ next \in Nat
    /\ \A r \in Repos :
          /\ IsFiniteSet(s[r].unpub)
          /\ \A x \in s[r].unpub \cup m[r].has : x < next
          /\ m[r].tip \in m[r].has /\ s[r].head \in m[r].has \cup s[r].unpub
          /\ s[r].head \in m[r].has => s[r].unpub \subseteq m[r].has
    /\ \A c \in Repos \ {Root} : s[c].attached =>
          /\ s[Parent[c]].pins[c] \in m[c].has \cup gone \cup s[c].unpub
          /\ m[Parent[c]].pins[c] \in m[c].has \cup gone \cup Withheld(s[c])

Ahead(s, r) == s[r].attached /\ s[r].unpub # {}
Behind(s, r) == s[r].attached /\ s[r].seen # s[r].base

\* git status of a repository shows a contained one whose HEAD moved, and one
\* that has changes of its own.
Moved(s, r) == {c \in Children(r) : s[c].head # s[r].pins[c]}
DirtyOwn(s, r) == s[r].index \/ s[r].content \/ s[r].conflict \/ Moved(s, r) # {}
Dirty(s, r) == \E d \in Descendants(r) \cup {r} : DirtyOwn(s, d)

\* The repositories below a dirty gitlink.
DirtyGitlinks(s, r) == {c \in Children(r) : c \in Moved(s, r) \/ Dirty(s, c)}
GitlinkDirty(s, r) == DirtyGitlinks(s, r) # {}

Kind(s, r) ==
    IF s[r].conflict THEN "CONFLICTED"
    ELSE IF s[r].index THEN "INDEX_DIRTY"
    ELSE IF s[r].content /\ GitlinkDirty(s, r) THEN "CONTENT_AND_GITLINK_DIRTY"
    ELSE IF GitlinkDirty(s, r)
         THEN IF \E c \in Children(r) : Dirty(s, c) \/ Ahead(s, c)
              THEN "GITLINK_DIRTY_UNSAFE" ELSE "GITLINK_DIRTY_ONLY"
    ELSE IF s[r].content THEN "CONTENT_DIRTY"
    ELSE IF ~s[r].attached THEN "DETACHED_HEAD"
    ELSE IF Ahead(s, r) THEN IF Behind(s, r) THEN "DIVERGED" ELSE "AHEAD_ONLY"
    ELSE IF Behind(s, r) THEN "BEHIND_ONLY"
    ELSE "CLEAN"

(* A snapshot: what the command knows of the repositories.  The fact       *)
(* SubmoduleCommitUnpushed is of a repository's own commits, or of those   *)
(* of a contained repository below a dirty gitlink.                        *)
Snapshot(s) ==
    [r \in Repos |->
        [kind |-> Kind(s, r), head |-> s[r].head, branch |-> s[r].attached,
         ahead |-> IF s[r].attached THEN Cardinality(s[r].unpub) ELSE 0,
         behind |-> Behind(s, r), gitlinks |-> DirtyGitlinks(s, r), pushable |-> s[r].pushable,
         unpushed |-> Ahead(s, r) \/ (GitlinkDirty(s, r) /\ \E c \in Children(r) : Ahead(s, c))]]

Baselines(look) == [r \in Repos |-> <<look[r].branch, look[r].head, look[r].kind, look[r].ahead>>]

PreflightOnly(look, r) == Nested(r) /\ look[r].kind = "DETACHED_HEAD"
CanPublishLocalMutation(look, r) == look[r].pushable /\ look[r].branch

\* ParentGitlinkPublicationBlocker: a contained repository whose gitlink is
\* dirty and whose HEAD the remote is not known to have.
PublicationBlocked(look, r) ==
    \E c \in look[r].gitlinks :
        ~(look[c].branch /\ look[c].ahead = 0 /\ look[c].kind \in {"CLEAN", "BEHIND_ONLY"})

\* CanRepoConvergeBeforeParent, with ChildrenCanConvergeBeforeParent.
NeedsAction(look, c) == look[c].kind # "CLEAN" \/ look[c].unpushed

\* can: the contained repositories that can.
CanOnceThese(look, r, can) ==
    CASE look[r].kind \in {"CONFLICTED", "DIVERGED"} -> FALSE
      [] look[r].kind \in {"CLEAN", "BEHIND_ONLY"} -> TRUE
      [] look[r].kind = "DETACHED_HEAD" -> PreflightOnly(look, r)
      [] look[r].kind = "AHEAD_ONLY" -> look[r].pushable
      [] look[r].kind = "GITLINK_DIRTY_ONLY" ->
             CanPublishLocalMutation(look, r) /\ ~PublicationBlocked(look, r)
      [] look[r].kind \in {"GITLINK_DIRTY_UNSAFE", "CONTENT_AND_GITLINK_DIRTY"} ->
             /\ CanPublishLocalMutation(look, r)
             /\ \A c \in Children(r) : NeedsAction(look, c) => c \in can
      [] OTHER -> CanPublishLocalMutation(look, r)

CanConverge(look) ==
    LET can[r \in Repos] == CanOnceThese(look, r, {c \in Children(r) : can[c]})
    IN {r \in Repos : can[r]}

\* UnsafeParentCanWaitForChildConverge.
Waits(look, r) ==
    LET acting == {c \in Children(r) : NeedsAction(look, c)} IN
    acting # {} /\ acting \subseteq CanConverge(look)

UnpushedChildren(look, r) == {c \in Children(r) : look[c].unpushed}

-----------------------------------------------------------------------------
(* BuildPlan, as the sets of repositories of its lines.                    *)

\* A repository that is neither left alone nor held up from the start.
Considered(look) ==
    {r \in Repos : look[r].kind \notin {"CONFLICTED", "DIVERGED"} /\ ~PreflightOnly(look, r)}
Free(look) == {r \in Considered(look) : UnpushedChildren(look, r) = {}}

PointerKinds == {"GITLINK_DIRTY_ONLY", "CONTENT_AND_GITLINK_DIRTY"}

ToCommit(look) == {r \in Free(look) :
    \/ look[r].kind \in {"INDEX_DIRTY", "CONTENT_DIRTY"}
    \/ look[r].kind \in PointerKinds /\ ~Waits(look, r) /\ ~PublicationBlocked(look, r)}

ToBlock(look) ==
    {r \in Repos : look[r].kind \in {"CONFLICTED", "DIVERGED"}}
    \cup {r \in Considered(look) : \E c \in UnpushedChildren(look, r) : ~look[c].pushable}
    \cup {r \in Free(look) : look[r].kind = "DETACHED_HEAD"}
    \cup {r \in Free(look) : ~Waits(look, r) /\ look[r].kind = "GITLINK_DIRTY_UNSAFE"}
    \cup {r \in Free(look) : /\ ~Waits(look, r) /\ look[r].kind \in PointerKinds
                             /\ PublicationBlocked(look, r)}

\* The kinds whose line says that the commit is skipped.
Unchanged(look) ==
    {r \in Free(look) : look[r].kind \in {"CLEAN", "AHEAD_ONLY", "BEHIND_ONLY"}}
    \cup {r \in ToCommit(look) : look[r].kind = "GITLINK_DIRTY_ONLY"}

\* The line of a parent whose pointer commit waits for a contained repository.
Waiting(look) ==
    {r \in Considered(look) \ Free(look) : \A c \in UnpushedChildren(look, r) : look[c].pushable}
    \cup {r \in Free(look) : /\ look[r].kind \in {"GITLINK_DIRTY_ONLY", "GITLINK_DIRTY_UNSAFE"}
                             /\ Waits(look, r)}

BuildPlan(look) ==
    LET commit == ToCommit(look)
        firstPush == UNION {UnpushedChildren(look, r) : r \in Considered(look)}
        ahead == {r \in Free(look) : look[r].kind = "AHEAD_ONLY"}
        behind == {r \in Free(look) : look[r].kind = "BEHIND_ONLY"}
    IN [sync |-> behind \cup {r \in commit : look[r].pushable /\ look[r].behind},
        commit |-> commit,
        push |-> {r \in firstPush \cup ahead \cup commit : look[r].pushable},
        blocked |-> ToBlock(look), waiting |-> Waiting(look), unchanged |-> Unchanged(look)]

\* Mutant: a push that is left is no work that is left.
RunnableLocally(p) == p.sync \cup p.commit # {}

Runnable(p) == p.sync \cup p.commit \cup p.push # {}
PlanReferences(p, r) == r \in p.sync \cup p.commit \cup p.push \cup p.waiting

\* RestoreSavedResumeTransportPlan: saved syncs and pushes that are still due.
RestoredSync(look, planned) ==
    {r \in planned : look[r].behind /\ look[r].kind \in {"BEHIND_ONLY", "DIVERGED"}}

Restored(p, look, plannedSync, plannedPush) ==
    [p EXCEPT !.sync = @ \cup RestoredSync(look, plannedSync),
              !.push = @ \cup {r \in plannedPush : look[r].ahead > 0 /\ look[r].pushable}]

-----------------------------------------------------------------------------
(* git                                                                     *)

Pins(s, r) == [c \in Repos |-> IF c \in Children(r) THEN s[c].head ELSE 0]

\* git add -A and git commit; nothing is committed when nothing is staged.
Committed(s, r, new) ==
    IF s[r].index \/ s[r].content \/ Moved(s, r) # {}
    THEN [s[r] EXCEPT !.head = new, !.pins = Pins(s, r), !.index = FALSE, !.content = FALSE,
                      !.unpub = @ \cup {new}]
    ELSE s[r]

\* A rebase leaves out what the remote has already, and merges the gitlinks one
\* by one; of two that changed, one may contain the other, and wins.
Own(l, m) == l.unpub \ m.has
Contested(l, m) ==
    {c \in Repos : Cardinality({l.pins[c], l.basePins[c], m.pins[c]}) = 3}

RebasedPins(l, m) ==
    IF Own(l, m) = {} THEN {m.pins}
    ELSE {p \in [Repos -> {l.pins[c] : c \in Repos} \cup {m.pins[c] : c \in Repos}] :
             \A c \in Repos :
                 IF c \in Contested(l, m) THEN p[c] \in {l.pins[c], m.pins[c]}
                 ELSE p[c] = IF l.pins[c] = l.basePins[c] THEN m.pins[c] ELSE l.pins[c]}

Rebased(l, m, pins, new) ==
    LET onto == [l EXCEPT !.base = m.tip, !.seen = m.tip, !.basePins = m.pins] IN
    IF m.tip = l.base THEN onto
    ELSE IF Own(l, m) = {} THEN [onto EXCEPT !.head = m.tip, !.pins = m.pins, !.unpub = {}]
    ELSE [onto EXCEPT !.head = new, !.pins = pins, !.unpub = {new}]

\* The remote refuses a branch that does not contain its own.
Rejected(l, m) == m.tip # l.base /\ m.tip \notin l.unpub

Published(m, l) == [m EXCEPT !.tip = l.head, !.pins = l.pins, !.has = @ \cup l.unpub]
Tracked(l) == [l EXCEPT !.base = l.head, !.seen = l.head, !.basePins = l.pins, !.unpub = {}]
=============================================================================
