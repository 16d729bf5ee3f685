--------------------------- MODULE BranchLifecycle ---------------------------
(***************************************************************************)
(* kog converge branches apply, retire and recover in one repository: the  *)
(* target is fetched and fast-forwarded, the branches are planned once,    *)
(* and then each is integrated and pushed, or proven integrated and taken  *)
(* away with its worktrees and its remote branch.  A call is a sequence of *)
(* git commands, any of which may fail; between two of them others push to *)
(* any branch of the remote, the people of the clone edit in any worktree, *)
(* and the process may be killed.  Between two calls they also commit and  *)
(* undo what a call has left.                                              *)
(***************************************************************************)
EXTENDS BranchClone

CONSTANTS
    Starts,      \* the clones the first call is given
    Commands,    \* what the operator may ask for
    Theirs,      \* patches others push
    MaxCalls     \* bound on the calls

ASSUME LifecycleAssumption ==
    /\ Theirs \subseteq Patches /\ MaxCalls \in Nat
    /\ \A s \in Starts :
          /\ {s.ref, s.tracking, s.published} \subseteq Refs
          /\ s.upstream \in [Branches -> Branches \cup {"none"}]
          /\ s.worktree \in [Worktrees -> Worktree]
          /\ \A w \in Worktrees : s.worktree[w].on = "removed" => s.worktree[w].edits = {}

VARIABLES
    pc, call, calls,
    plan, todo, cur,
    seen,        \* [Worktrees -> HEAD], as listed before the first branch
    patch,       \* the edits a harvest has read
    from,        \* the worktree it read them in
    before,      \* the target before the branch was integrated
    report,      \* what the result says of each branch so far
    pending      \* the pending operation the last result named

branchVars == <<patch, from, before>>
vars == <<cloneVars, pc, call, calls, plan, todo, cur, seen, branchVars, report, pending>>

Silent == [b \in Sources |-> "none"]
NoCall == [op |-> "none"]
NoPending == [expected |-> NoRef, restore |-> NoRef]
Heads == [w \in Worktrees |-> IF w \in Live THEN HeadOf(w) ELSE NoRef]

Init ==
    /\ \E s \in Starts :
          /\ ref = s.ref /\ tracking = s.tracking /\ published = s.published
          /\ upstream = s.upstream /\ worktree = s.worktree
    /\ stopped = "none"
    /\ pc = "idle" /\ call = NoCall /\ calls = 0
    /\ plan = <<>> /\ todo = {} /\ cur = Target /\ seen = <<>>
    /\ patch = {} /\ from = "primary" /\ before = NoRef
    /\ report = Silent /\ pending = NoPending

\* The process ends, and with it all it knew but the result it has printed.
Ends ==
    /\ pc' = "idle" /\ call' = NoCall /\ UNCHANGED calls
    /\ plan' = <<>> /\ todo' = {} /\ cur' = Target /\ seen' = <<>>
    /\ patch' = {} /\ from' = "primary" /\ before' = NoRef
    /\ report' = Silent

\* The step stays within the call; the clone, the result and the branch's own
\* variables are said by each action.
Within == UNCHANGED <<call, calls, plan, seen>>
Goto(step) == pc' = step /\ UNCHANGED <<todo, cur, report, pending>> /\ Within

\* The loop over the branches: one entry in the result, then the next branch.
Enter(b, word) ==
    /\ report' = [report EXCEPT ![b] = word]
    /\ todo' = todo \ {b} /\ pc' = "branch"
    /\ UNCHANGED <<cur, branchVars>> /\ Within
Done(word) == Enter(cur, word) /\ UNCHANGED pending

-----------------------------------------------------------------------------
(* A call begins, and synchronises the target                              *)

Begin ==
    /\ pc = "idle" /\ calls < MaxCalls /\ stopped # "empty"
    /\ \E c \in Commands :
          /\ c.op = "recover" => pending # NoPending
          /\ call' = c
          /\ pc' = IF c.op = "recover" THEN "recover" ELSE "sync"
    /\ calls' = calls + 1
    /\ UNCHANGED <<cloneVars, plan, todo, cur, seen, branchVars, report, pending>>

\* The worktree the target is checked out in, else the repository's own.
TargetPath == IF On(Target) = {} THEN "primary" ELSE CHOOSE w \in On(Target) : TRUE

\* A synchronisation that fails ends retire; apply plans with what there is.
SyncBlocked ==
    /\ IF call.op = "retire" THEN Ends ELSE Goto("plan") /\ UNCHANGED branchVars
    /\ UNCHANGED pending

\* The worktree is not clean, or git fetch or git checkout fails.
SyncRefused == pc = "sync" /\ SyncBlocked /\ UNCHANGED cloneVars

\* FastForwardTargetWithoutMerge: the target goes to the commit, or already
\* contains it, or they have diverged.
Diverged(a, b) == ~IsAncestor(a, b) /\ ~IsAncestor(b, a)
Forward(t, to) == IF IsAncestor(t, to) THEN to ELSE t

SyncClean ==
    LET at == published[Target]
    IN  /\ pc = "sync" /\ Clean(TargetPath)
        /\ tracking' = published /\ Checkout(TargetPath, Target)
        /\ IF Diverged(ref[Target], at)
           THEN UNCHANGED ref /\ SyncBlocked
           ELSE /\ ref' = [ref EXCEPT ![Target] = Forward(@, at)]
                /\ Goto("plan") /\ UNCHANGED branchVars
        /\ UNCHANGED <<published, upstream, stopped>>

\* Retire leaves a dirty target as it is, when it need not move.
SyncDirty ==
    /\ pc = "sync" /\ ~Clean(TargetPath) /\ call.op = "retire"
    /\ tracking' = published
    /\ IF On(Target) # {} /\ IsAncestor(published[Target], ref[Target])
       THEN Goto("plan") /\ UNCHANGED branchVars
       ELSE SyncBlocked
    /\ UNCHANGED <<ref, published, upstream, worktree, stopped>>

\* BuildBranchPlanJson, once for the whole call.
Plan ==
    /\ pc = "plan"
    /\ plan' = [b \in Candidates |-> Planned(b, call.only # "all", call.op = "retire")]
    /\ todo' = {b \in Candidates : call.only \in {"all", b}}
    /\ seen' = Heads /\ pc' = "branch"
    /\ UNCHANGED <<cloneVars, call, calls, cur, branchVars, report, pending>>

Return ==
    /\ pc = "branch" /\ todo = {}
    /\ IF call.op = "retire" /\ call.only = "all"
       THEN /\ pc' = "detached" /\ todo' = {w \in Worktrees : worktree[w].on = "detached"}
            /\ UNCHANGED <<cur, report, branchVars>> /\ Within
       ELSE Ends
    /\ UNCHANGED <<cloneVars, pending>>

\* git checkout of the target: refused when another worktree has it.
CheckoutTarget(w) == On(Target) \subseteq {w} /\ Checkout(w, Target)

\* git push of the target: refused when the remote has what the target lacks;
\* a push may fail, and may be accepted although it is reported as failed.
PushTarget ==
    IsAncestor(published[Target], ref[Target]) /\ published' = [published EXCEPT ![Target] = ref[Target]]
PushFails == UNCHANGED published \/ PushTarget

-----------------------------------------------------------------------------
(* RunBranchApply                                                          *)

ApplyBlockers(b) ==
    IF call.strategy = "cherry-pick"
    THEN ApplyBlockersForCherryPickBranch(plan[b].blockers)
    ELSE plan[b].blockers

\* The planner's answer, the worktrees of the branch for a cherry-pick, and
\* the target's worktree, which must be where it was listed.
ApplyRefused(b) ==
    \/ ApplyBlockers(b) # {}
    \/ call.strategy = "cherry-pick" /\ \E w \in On(b) : ~Clean(w)
    \/ \E w \in On(Target) : ~Clean(w) \/ HeadOf(w) # seen[w]

ApplySkips ==
    /\ pc = "branch" /\ call.op = "apply"
    /\ \E b \in todo :
          \/ plan[b].merged /\ Enter(b, "merged")
          \/ ~plan[b].merged /\ (ApplyRefused(b) \/ On(Target) = {}) /\ Enter(b, "blocked")
    /\ UNCHANGED <<cloneVars, pending>>

ApplyTakes ==
    /\ pc = "branch" /\ call.op = "apply" /\ call.strategy # "reviewed"
    /\ \E b \in todo : ~plan[b].merged /\ ~ApplyRefused(b) /\ cur' = b
    /\ CheckoutTarget(TargetPath)
    /\ before' = ref[Target] /\ pc' = "integrate"
    /\ UNCHANGED <<ref, tracking, published, upstream, stopped, todo, patch, from,
                   report, pending>> /\ Within

\* What git cherry-pick, and --skip after it when its first stop is an empty
\* commit, can come to.  A second empty commit stops it again; the tree is
\* clean then, which reads as a skip that went well.
Position(c) == CHOOSE p \in c.patches : \A q \in c.patches : p <= q
Replays(t, missing) ==
    LET empty == {c \in missing : Empty(c, t)}
        Before(c) == {d \in missing : Position(d) < Position(c)}
        Skipped(c) == Cardinality(Before(c) \cap empty)
        Upto(cs, how) ==
            [tip |-> Onto(t, {Made(c.patches, "replay") : c \in cs \ empty}), stopped |-> how]
    IN  {Upto(missing, "none") : x \in {y \in {0} : Cardinality(empty) <= 1}}
        \cup {Upto(Before(c), "conflict") : c \in {d \in missing \ empty : Skipped(d) <= 1}}
        \cup {Upto(Before(c), "empty") : c \in {d \in empty : Skipped(d) = 1}}

CherryPick ==
    /\ pc = "integrate" /\ call.strategy = "cherry-pick"
    /\ \E r \in Replays(ref[Target], Missing(ref[Target], Source(cur))) :
          /\ ref' = [ref EXCEPT ![Target] = r.tip] /\ stopped' = r.stopped
          /\ IF r.stopped = "conflict" THEN Done("blocked")
             ELSE IF r.tip = before THEN Done("equivalent")
             ELSE Goto("push") /\ UNCHANGED branchVars
    /\ UNCHANGED <<tracking, published, upstream, worktree>>

\* git merge --no-ff; a conflict is left in the worktree.
Merge ==
    /\ pc = "integrate" /\ call.strategy = "merge"
    /\ \/ /\ ref' = [ref EXCEPT ![Target] =
                        [log |-> @.log \cup Source(cur).log \cup {Made({}, "merge")},
                         tree |-> @.tree \cup Source(cur).tree]]
          /\ Goto("push") /\ UNCHANGED <<stopped, branchVars>>
       \/ stopped' = "conflict" /\ UNCHANGED ref /\ Done("blocked")
    /\ UNCHANGED <<tracking, published, upstream, worktree>>

\* The default strategy only ever fast-forwards.
FastForward ==
    /\ pc = "integrate" /\ call.strategy = "rebase"
    /\ IF IsAncestor(ref[Target], Source(cur))
       THEN /\ ref' = [ref EXCEPT ![Target] = Source(cur)]
            /\ Goto("push") /\ UNCHANGED branchVars
       ELSE UNCHANGED ref /\ Done("blocked")
    /\ UNCHANGED <<tracking, published, upstream, worktree, stopped>>

\* RecordReviewedBranchIntegration: an "ours" merge of the branch, in the
\* primary worktree, that leaves the tree as it is.
RecordReviewed ==
    /\ pc = "branch" /\ call.op = "apply" /\ call.strategy = "reviewed"
    /\ \E b \in todo :
          /\ ~RemoteOnly(b) /\ ~plan[b].merged /\ cur' = b
          /\ \A w \in On(b) \cup {"primary"} : Clean(w)
          /\ ref' = [ref EXCEPT ![Target].log = @ \cup ref[b].log \cup {Made({}, "ours")}]
    /\ CheckoutTarget("primary")
    /\ before' = ref[Target] /\ pc' = "push"
    /\ UNCHANGED <<tracking, published, upstream, stopped, todo, patch, from,
                   report, pending>> /\ Within

\* Git refuses to integrate: what it would write is dirty by now.
IntegrateRefused ==
    /\ pc = "integrate"
    /\ Done("blocked") /\ UNCHANGED cloneVars

\* Mutant: a push that fails is reported, but the branch counts as applied.
PushAnyway ==
    /\ pc = "push"
    /\ PushTarget \/ PushFails
    /\ Done("applied")
    /\ UNCHANGED <<ref, tracking, upstream, worktree, stopped>>

\* A push that fails leaves the integration pending and ends the call.
Push ==
    /\ pc = "push"
    /\ \/ PushTarget /\ Done("applied")
       \/ /\ PushFails
          /\ pending' = [expected |-> ref[Target], restore |-> before]
          /\ Ends
    /\ UNCHANGED <<ref, tracking, upstream, worktree, stopped>>

-----------------------------------------------------------------------------
(* RunBranchRecovery                                                       *)

\* Mutant: the target may have moved since.
RecoverableMoved == On(Target) # {} /\ Clean(TargetPath)

\* In the target's worktree, still at the integrated commit and clean.
Recoverable ==
    On(Target) # {} /\ ref[Target] = pending.expected /\ Clean(TargetPath)

RecoverContinue ==
    /\ pc = "recover" /\ call.how = "continue" /\ Recoverable
    /\ PushTarget \/ PushFails
    /\ Ends /\ UNCHANGED <<ref, tracking, upstream, worktree, stopped, pending>>

RecoverAbort ==
    /\ pc = "recover" /\ call.how = "abort" /\ Recoverable
    /\ IsAncestor(pending.restore, pending.expected)
    /\ ref' = [ref EXCEPT ![Target] = pending.restore]
    /\ Ends /\ UNCHANGED <<tracking, published, upstream, worktree, stopped, pending>>

RecoverRefused ==
    /\ pc = "recover" /\ ~Recoverable
    /\ Ends /\ UNCHANGED <<cloneVars, pending>>

-----------------------------------------------------------------------------
(* RunBranchRetire                                                         *)

RetireBlockers(b) ==
    RetireBlockersForIntegratedBranch(plan[b].blockers, call.removeWorktrees,
                                      call.deleteRemote, call.harvest)

\* What keeps an integrated branch: a blocker of the plan, a remote branch
\* nobody asked to delete, worktrees nobody asked to remove, and the checkout
\* of the repository itself when it is dirty.
Kept(b) ==
    \/ RetireBlockers(b) # {}
    \/ plan[b].remoteOnly /\ ~call.deleteRemote
    \/ On(b) # {} /\ ~call.removeWorktrees
    \/ "primary" \in On(b) /\ ~Clean("primary")
    \/ \E w \in On(b) : ~Clean(w) /\ ~call.harvest

RetireSkips ==
    /\ pc = "branch" /\ call.op = "retire"
    /\ \E b \in todo :
          \/ ~plan[b].integrated /\ Enter(b, IF \A w \in On(b) : Clean(w) THEN "skipped" ELSE "blocked")
          \/ plan[b].integrated /\ Kept(b) /\ Enter(b, "blocked")
    /\ UNCHANGED <<cloneVars, pending>>

RetireTakes ==
    /\ pc = "branch" /\ call.op = "retire"
    /\ \E b \in todo :
          /\ plan[b].integrated /\ ~Kept(b) /\ cur' = b
          /\ \/ plan[b].remoteOnly /\ pc' = "remote" /\ UNCHANGED from
             \/ /\ ~plan[b].remoteOnly
                /\ \/ On(b) = {} /\ pc' = "release" /\ UNCHANGED from
                   \/ \E w \in On(b) :
                         /\ from' = w
                         /\ pc' = IF w = "primary" THEN "handoff"
                                  ELSE IF Clean(w) THEN "release" ELSE "harvest"
    /\ UNCHANGED <<cloneVars, todo, patch, before, report, pending>> /\ Within

\* HarvestDirtyWorktree.  What ends it early leaves the worktree there.
HarvestEnds ==
    IF worktree[from].on = "detached"
    THEN /\ pc' = "detached" /\ todo' = todo \ {from}
         /\ UNCHANGED <<cur, report, branchVars, pending>> /\ Within
    ELSE Done("blocked")

HarvestRead ==
    /\ pc = "harvest"
    /\ \/ /\ Clean("primary") /\ CheckoutTarget("primary")
          /\ patch' = worktree[from].edits
          /\ Goto("commit") /\ UNCHANGED <<from, before>>
       \/ UNCHANGED worktree /\ HarvestEnds
    /\ UNCHANGED <<ref, tracking, published, upstream, stopped>>

\* git apply --index, which refuses what is already there, and git commit; a
\* commit that fails leaves the patch staged in the target.
HarvestCommit ==
    /\ pc = "commit"
    /\ \/ /\ ~(patch \subseteq ref[Target].tree)
          /\ \/ /\ ref' = [ref EXCEPT ![Target] = Onto(@, {Made(patch, "harvest")})]
                /\ Goto("publish") /\ UNCHANGED <<worktree, branchVars>>
             \/ /\ worktree' = [worktree EXCEPT !["primary"].edits = @ \cup patch]
                /\ UNCHANGED ref /\ HarvestEnds
       \/ UNCHANGED <<ref, worktree>> /\ HarvestEnds
    /\ UNCHANGED <<tracking, published, upstream, stopped>>

HarvestPush ==
    /\ pc = "publish"
    /\ \/ PushTarget /\ Goto("forget") /\ UNCHANGED branchVars
       \/ PushFails /\ HarvestEnds
    /\ UNCHANGED <<ref, tracking, upstream, worktree, stopped>>

\* git worktree remove --force.
HarvestRemove ==
    /\ pc = "forget"
    /\ \/ /\ Remove(from) /\ UNCHANGED branchVars
          /\ IF worktree[from].on = "detached"
             THEN /\ pc' = "detached" /\ todo' = todo \ {from}
                  /\ UNCHANGED <<cur, report, pending>> /\ Within
             ELSE Goto("release")
       \/ UNCHANGED worktree /\ HarvestEnds
    /\ UNCHANGED <<ref, tracking, published, upstream, stopped>>

\* The repository itself is on the branch: it takes the target over from the
\* linked worktree that has it.
Handoff ==
    LET others == On(Target)
        untouched == \A w \in others \cup {"primary"} : Clean(w) /\ HeadOf(w) = seen[w]
        released == [w \in Worktrees |->
                        IF w \in others THEN [worktree[w] EXCEPT !.on = "removed"] ELSE worktree[w]]
    IN  /\ pc = "handoff"
        /\ \/ untouched /\ worktree' = [released EXCEPT !["primary"].on = Target]
              /\ Goto("delete") /\ UNCHANGED branchVars
           \/ untouched /\ worktree' = released /\ Done("blocked")   \* git checkout fails
           \/ UNCHANGED worktree /\ Done("blocked")
        /\ UNCHANGED <<ref, tracking, published, upstream, stopped>>

Release ==
    /\ pc = "release"
    /\ \/ On(Target) # {} /\ UNCHANGED worktree /\ Goto("remove") /\ UNCHANGED branchVars
       \/ On(Target) = {} /\ CheckoutTarget("primary") /\ Goto("remove") /\ UNCHANGED branchVars
       \/ On(Target) = {} /\ UNCHANGED worktree /\ Done("blocked")
    /\ UNCHANGED <<ref, tracking, published, upstream, stopped>>

\* RemoveSemanticallyCleanWorktree looks at the worktree once more.
RemoveWorktree ==
    /\ pc = "remove"
    /\ \/ On(cur) = {} /\ UNCHANGED worktree /\ Goto("delete") /\ UNCHANGED branchVars
       \/ \E w \in On(cur) : Clean(w) /\ Remove(w) /\ Goto("delete") /\ UNCHANGED branchVars
       \/ On(cur) # {} /\ UNCHANGED worktree /\ Done("blocked")
    /\ UNCHANGED <<ref, tracking, published, upstream, stopped>>

\* git branch -d, else -D; which of the remote's branches goes with it is
\* looked up first: the one of the same name, by its commit or as upstream.
DeleteLocal ==
    /\ pc = "delete"
    /\ \/ /\ On(cur) = {}
          /\ ref' = [ref EXCEPT ![cur] = NoRef] /\ upstream' = [upstream EXCEPT ![cur] = "none"]
          /\ IF call.deleteRemote /\ (PublishedSameName(cur) \/ (HasUpstream(cur) /\ upstream[cur] = cur))
             THEN Goto("remote") /\ UNCHANGED branchVars
             ELSE Done("retired")
       \/ UNCHANGED <<ref, upstream>> /\ Done("blocked")
    /\ UNCHANGED <<tracking, published, worktree, stopped>>

\* git push --delete.
DeleteRemote ==
    /\ pc = "remote"
    /\ \/ /\ published[cur] # NoRef
          /\ published' = [published EXCEPT ![cur] = NoRef]
          /\ tracking' = [tracking EXCEPT ![cur] = NoRef]
          /\ Done("retired")
       \/ UNCHANGED <<published, tracking>> /\ Done("blocked")
    /\ UNCHANGED <<ref, upstream, worktree, stopped>>

\* EvaluateDetachedWorktree, and the loop over what is checked out detached.
DetachedIntegrated(w) ==
    LET at == worktree[w].at
    IN  IsAncestor(at, ref[Target]) \/ (Beyond(ref[Target], at) # {} /\ Missing(ref[Target], at) = {})

Removable(w) == w # "primary" /\ Clean(w) /\ call.removeWorktrees /\ DetachedIntegrated(w)

RemoveDetached ==
    /\ pc = "detached"
    /\ \E w \in todo : Removable(w) /\ Remove(w) /\ todo' = todo \ {w}
    /\ UNCHANGED <<ref, tracking, published, upstream, stopped, pc, cur, report, branchVars, pending>>
    /\ Within

HarvestDetached ==
    /\ pc = "detached" /\ call.harvest /\ call.removeWorktrees
    /\ \E w \in todo \ {"primary"} : DetachedIntegrated(w) /\ ~Clean(w) /\ from' = w
    /\ pc' = "harvest"
    /\ UNCHANGED <<cloneVars, todo, cur, report, patch, before, pending>>
    /\ Within

\* It stays: not integrated, in use, or git worktree remove fails.
LeaveDetached ==
    /\ pc = "detached"
    /\ \E w \in todo :
          /\ ~(DetachedIntegrated(w) /\ ~Clean(w) /\ call.harvest /\ call.removeWorktrees) \/ w = "primary"
          /\ todo' = todo \ {w}
    /\ UNCHANGED <<cloneVars, pc, cur, report, branchVars, pending>> /\ Within

DetachedDone ==
    /\ pc = "detached" /\ todo = {} /\ pc' = "idle"
    /\ UNCHANGED <<cloneVars, todo, cur, report, branchVars, pending>> /\ Within

-----------------------------------------------------------------------------
(* The people of the clone and others, and a process that is killed        *)

Elsewhere == <<pc, call, calls, plan, todo, cur, seen, branchVars, report, pending>>
AllEdits == UNION {worktree[w].edits : w \in Worktrees}
Committed(refs) == UNION {c.patches : c \in UNION {refs[b].log : b \in Branches}}

Edit ==
    /\ calls < MaxCalls \/ pc # "idle"
    /\ \E w \in Live, e \in DOMAIN FileOf :
          /\ e \notin AllEdits \cup Committed(ref) \cup Committed(published)
          /\ worktree' = [worktree EXCEPT ![w].edits = @ \cup {e}]
    /\ UNCHANGED <<ref, tracking, published, upstream, stopped>> /\ UNCHANGED Elsewhere

Author ==
    /\ pc = "idle" /\ calls < MaxCalls /\ stopped = "none"
    /\ \E w \in Live :
          /\ ~Clean(w)
          /\ LET tip == Onto(HeadOf(w), {Made(worktree[w].edits, "author")})
                 cleaned == [worktree EXCEPT ![w].edits = {}]
             IN  IF worktree[w].on = "detached"
                 THEN worktree' = [cleaned EXCEPT ![w].at = tip] /\ UNCHANGED ref
                 ELSE worktree' = cleaned /\ ref' = [ref EXCEPT ![worktree[w].on] = tip]
    /\ UNCHANGED <<tracking, published, upstream, stopped>> /\ UNCHANGED Elsewhere

\* git merge --abort or git cherry-pick --abort, of a conflict only.
Undo ==
    /\ pc = "idle" /\ stopped = "conflict" /\ stopped' = "none"
    /\ UNCHANGED <<ref, tracking, published, upstream, worktree>> /\ UNCHANGED Elsewhere

OthersPush ==
    /\ \E p \in Theirs, b \in Branches :
          /\ p \notin Committed(published) /\ published[b] # NoRef
          /\ published' = [published EXCEPT ![b] = Onto(@, {Made({p}, "author")})]
    /\ UNCHANGED <<ref, tracking, upstream, worktree, stopped>> /\ UNCHANGED Elsewhere

Kill ==
    /\ pc # "idle"
    /\ Ends /\ UNCHANGED <<cloneVars, pending>>

Command ==
    \/ Begin \/ SyncRefused \/ SyncClean \/ SyncDirty \/ Plan \/ Return
    \/ ApplySkips \/ ApplyTakes \/ CherryPick \/ Merge \/ FastForward \/ IntegrateRefused \/ RecordReviewed \/ Push
    \/ RecoverContinue \/ RecoverAbort \/ RecoverRefused
    \/ RetireSkips \/ RetireTakes \/ HarvestRead \/ HarvestCommit \/ HarvestPush \/ HarvestRemove
    \/ Handoff \/ Release \/ RemoveWorktree \/ DeleteLocal \/ DeleteRemote
    \/ RemoveDetached \/ HarvestDetached \/ LeaveDetached \/ DetachedDone
People == Edit \/ Author \/ Undo \/ OthersPush
Next == Command \/ People \/ Kill

Spec == Init /\ [][Next]_vars

-----------------------------------------------------------------------------
(* Properties                                                              *)

CloneOK ==
    /\ ref \in Refs /\ tracking \in Refs /\ published \in Refs
    /\ upstream \in [Branches -> Branches \cup {"none"}]
    /\ worktree \in [Worktrees -> Worktree]
    /\ stopped \in {"none", "conflict", "empty"}

CallOK ==
    /\ todo \subseteq Sources \cup Worktrees /\ cur \in Branches /\ from \in Worktrees
    /\ patch \subseteq Patches /\ before \in Tip
    /\ pending \in [expected : Tip, restore : Tip]

TypeOK == CloneOK /\ CallOK

Held == AllEdits \cup (UNION {c.patches : c \in UNION {HeadOf(w).log : w \in Live}})
        \cup Committed(ref)

\* What was written to a worktree after a harvest had read it.
Late(w) == IF pc = "forget" /\ w = from THEN worktree[w].edits \ patch ELSE {}

\* converge_cmd.cpp promises that what is taken away was proven integrated: a
\* local branch, a branch of the remote as it was fetched, or a detached
\* worktree goes only when each of its commits is in the target, by id, by
\* patch or by what it does.  Edits that nobody has committed leave the
\* worktrees only when they are in a commit; and a worktree that had some goes
\* only when the target that has them was pushed (HarvestDirtyWorktree,
\* RemoveSemanticallyCleanWorktree).  Two things the code does take away: the
\* branch of the remote that a branch was behind of when it was planned
\* (STALE_LOCAL_BRANCH is no blocker then), and the late edits of a harvest.
OnlyIntegratedDeleted ==
    [][/\ \A b \in Sources :
             /\ ref[b] # NoRef /\ ref'[b] = NoRef => Contains(ref[Target], ref[b])
             /\ published[b] # NoRef /\ published'[b] = NoRef =>
                    plan[b].behind \/ Contains(ref[Target], tracking[b])
       /\ \A w \in Worktrees : worktree'[w].on = "removed" =>
             /\ worktree[w].on = "detached" => Contains(ref[Target], worktree[w].at)
             /\ worktree[w].edits \ Late(w) \subseteq Committed(published)
       /\ AllEdits \subseteq Held' \cup UNION {Late(w) : w \in Worktrees}]_vars

\* A branch reported as applied is in the target of the remote, commit by
\* commit; one reported as merged or equivalent is in the target of the clone.
\* Not so where a cherry-pick has stopped at a second empty commit: the clean
\* tree it leaves is taken for a skip that went well.
AppliedIsPublished ==
    [][\A b \in Sources : report'[b] # report[b] /\ stopped' # "empty" =>
          /\ report'[b] = "applied" => Contains(published'[Target], Source(b))
          /\ report'[b] \in {"merged", "equivalent"} => Contains(ref'[Target], Source(b))]_vars

\* The target never loses a commit but by an abort, and then only what the
\* pending integration had put there: not what people, others or a harvest
\* have added since (RunBranchRecovery, FastForwardTargetWithoutMerge).
TargetLosesOnlyThePending ==
    [][ref[Target].log \ ref'[Target].log \subseteq pending.expected.log \ pending.restore.log]_vars
=============================================================================
