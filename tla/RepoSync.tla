------------------------------ MODULE RepoSync ------------------------------
(***************************************************************************)
(* One repository of kog sync origin-latest (RunNativeOriginLatestSync),   *)
(* and of the detached-HEAD repair that kog sync pre-commit and every      *)
(* commit run first (RunNativePreCommitRepair).                            *)
(*                                                                         *)
(* A commit is the set of patches it is built from, so that an ancestor is *)
(* a subset and a rebase or a cherry-pick is a union; a change of the user *)
(* that is not committed is an edit, in the index, in the worktree or in a *)
(* stash.  Every git command is one step and may fail; between two of them *)
(* the user edits, somebody else uses the stash (it is shared by all the   *)
(* worktrees of a repository), others push, or the process is killed.      *)
(***************************************************************************)
EXTENDS Integers, Sequences, FiniteSets

CONSTANTS
    Own, Foreign,     \* patches of this clone, patches of other people
    Edits,            \* edits of the user
    FileOf,           \* [Edits -> file]
    Starts,           \* the repositories the command is called on
    LateEdits,        \* edits the user may still make while it runs
    ForeignStashes,   \* bound on the stash entries others push meanwhile
    CountMayFail      \* whether git rev-list may fail to count what a detached
                      \* HEAD has more than the remote branch

Commit == SUBSET (Own \cup Foreign)
NoCommit == {"no ref"}
Ref == Commit \cup {NoCommit}
Branches == {"target", "other"}     \* refs/heads; target is plan.targetBranch
Changes == [index : SUBSET Edits, tree : SUBSET Edits]
Entries == [own : BOOLEAN, index : SUBSET Edits, tree : SUBSET Edits]

ASSUME PatchAssumption == "no ref" \notin Own \cup Foreign
ASSUME DisturbanceAssumption ==
    LateEdits \subseteq Edits /\ ForeignStashes \in Nat /\ CountMayFail \in BOOLEAN
ASSUME StartAssumption ==
    /\ Starts \subseteq [command : {"origin-latest", "pre-commit"},
                         branch : [Branches -> Ref], head : Branches \cup {"detached"},
                         at : Commit, tracking : Ref, published : Ref,
                         upstream : BOOLEAN, rebasing : Ref, change : Changes]
    /\ \A s \in Starts :
          /\ s.head # "detached" => s.at = {}
          /\ s.tracking = NoCommit \/ s.tracking \subseteq s.published

VARIABLES
    command,          \* "origin-latest" or "pre-commit"
    pc, result,
    branch, head, at, \* refs/heads/*, what HEAD names, the commit when detached
    backup,           \* the kano/sync-detached-backup-* branches
    tracking,         \* refs/remotes/<remote>/target
    published,        \* the branch on the remote
    upstream,         \* whether the branch has an upstream
    rebasing,         \* the branch tip a stopped rebase will go back to
    change,           \* what git status shows
    stash,
    hasLocalChanges, stashCreated, performedRebase, snapshots, unsafeHead,
    reverted,         \* files whose worktree text undoes what HEAD has
    started           \* ghost: the state at the call, and what others did

refVars == <<branch, head, at, backup>>
remoteVars == <<tracking, published, upstream>>
fileVars == <<change, stash, reverted>>
localVars == <<hasLocalChanges, stashCreated, performedRebase, snapshots, unsafeHead>>
vars == <<command, pc, result, refVars, remoteVars, rebasing, fileVars, localVars, started>>

-----------------------------------------------------------------------------
NoChange == [index |-> {}, tree |-> {}]
HeadCommit == IF head = "detached" THEN at ELSE branch[head]
Dirty == change # NoChange
Files(edits) == {FileOf[e] : e \in edits}
HasRemote == tracking # NoCommit
HasLocal == branch["target"] # NoCommit

Init ==
    \E s \in Starts :
        /\ command = s.command
        /\ pc = "status" /\ result = "none"
        /\ branch = s.branch /\ head = s.head /\ at = s.at
        /\ backup = {}
        /\ tracking = s.tracking /\ published = s.published /\ upstream = s.upstream
        /\ rebasing = s.rebasing
        /\ change = s.change /\ stash = <<>> /\ reverted = {}
        /\ hasLocalChanges = FALSE /\ stashCreated = FALSE
        /\ performedRebase = FALSE /\ snapshots = NoChange /\ unsafeHead = FALSE
        /\ started = [change |-> s.change, head |-> s.head,
                      commits |-> {s.branch[b] : b \in Branches} \cup {s.at}, disturbed |-> FALSE, stashes |-> 0]

Finish(r) == pc' = "done" /\ result' = r
Goto(step) == pc' = step /\ UNCHANGED result

-----------------------------------------------------------------------------
(* runOnePlan                                                              *)

\* The early returns of a plan: sync disabled, a submodule that is not
\* initialised, no remote, a failed authentication probe, no target branch.
Refuse ==
    /\ pc = "status" /\ command = "origin-latest"
    /\ \E r \in {"Skipped", "Blocked", "Failed"} : Finish(r)
    /\ UNCHANGED <<command, refVars, remoteVars, rebasing, fileVars, localVars, started>>

\* git status, and the contents of the files it lists; a status that fails
\* reads as a clean worktree.
ReadStatus ==
    /\ pc = "status" /\ command = "origin-latest"
    /\ \E seen \in {change, NoChange} :
          hasLocalChanges' = (seen # NoChange) /\ snapshots' = seen
    /\ Goto("health")
    /\ UNCHANGED <<command, refVars, remoteVars, rebasing, fileVars,
                   stashCreated, performedRebase, unsafeHead, started>>

\* The blockers of a health scan: an interrupted operation, or a remote
\* that the dry-run fetch cannot reach.
Interrupted == rebasing # NoCommit

\* Mutant: the detached commits are left without a branch.
ScanWithoutBackup ==
    /\ pc = "health" /\ head = "detached" /\ ~Interrupted
    /\ IF Dirty \/ ~HasRemote
       THEN Finish("Blocked") /\ UNCHANGED unsafeHead
       ELSE /\ unsafeHead' = ~(at \subseteq tracking)
            /\ Goto("recover")
    /\ UNCHANGED <<command, refVars, remoteVars, rebasing, fileVars,
                   hasLocalChanges, stashCreated, performedRebase, snapshots, started>>

\* A detached HEAD on a clean tree is put back on the stable branch; commits
\* the remote branch does not have are first given a branch of their own,
\* when they can be counted.
ScanDetached ==
    /\ pc = "health" /\ head = "detached" /\ ~Interrupted
    /\ IF Dirty \/ ~HasRemote
       THEN Finish("Blocked") /\ UNCHANGED <<backup, unsafeHead>>
       ELSE \/ /\ unsafeHead' \in {~(at \subseteq tracking), ~CountMayFail /\ ~(at \subseteq tracking)}
               /\ backup' = backup \cup (IF unsafeHead' THEN {at} ELSE {})
               /\ Goto("recover")
            \/ /\ ~(at \subseteq tracking)          \* git branch fails
               /\ Finish("Blocked") /\ UNCHANGED <<backup, unsafeHead>>
    /\ UNCHANGED <<command, branch, head, at, remoteVars, rebasing, fileVars,
                   hasLocalChanges, stashCreated, performedRebase, snapshots, started>>

ScanBlocked ==
    /\ pc = "health"
    /\ Finish("Blocked")
    /\ UNCHANGED <<command, refVars, remoteVars, rebasing, fileVars, localVars, started>>

\* A branch without an upstream gets one only when it is the target.
ScanAttached ==
    /\ pc = "health" /\ ~Interrupted /\ head # "detached"
    /\ IF upstream \/ (head = "target" /\ HasRemote)
       THEN upstream' = TRUE /\ Goto("stash")
       ELSE Finish("Blocked") /\ UNCHANGED upstream
    /\ UNCHANGED <<command, refVars, tracking, published, rebasing, fileVars, localVars, started>>

(* CheckoutRecoveredBranch: fast-forward the branch to HEAD when it is     *)
(* behind it, else check the branch out, with -f when that is refused;     *)
(* without a local branch, create one at the remote branch.                *)
Landing ==
    IF HasLocal
    THEN IF branch["target"] \subseteq at THEN at ELSE branch["target"]
    ELSE tracking

CheckoutRecoveredBranch ==
    /\ HasLocal \/ HasRemote
    /\ head' = "target" /\ at' = {}
    /\ branch' = [branch EXCEPT !["target"] = Landing]
    /\ \/ UNCHANGED <<change, reverted>>
       \/ /\ Dirty /\ Landing # at                  \* refused: checkout -f
          /\ change' = NoChange /\ reverted' = {}

\* Every checkout is refused: git branch -f may have moved the branch.
StayDetached ==
    /\ branch' \in {branch} \cup
          (IF HasLocal THEN {[branch EXCEPT !["target"] = Landing]} ELSE {})
    /\ UNCHANGED <<head, at, change, reverted>>

Recover ==
    /\ pc = "recover"
    /\ \/ /\ CheckoutRecoveredBranch
          /\ Goto(IF unsafeHead THEN "replay" ELSE "recovered")
       \/ StayDetached /\ Finish("Blocked")
    /\ UNCHANGED <<command, backup, remoteVars, rebasing, stash, localVars, started>>

\* Cherry-pick what the branch lacks; a conflict is aborted.
Replay ==
    /\ pc = "replay"
    /\ \/ /\ branch' = [branch EXCEPT !["target"] = @ \cup UNION backup]
          /\ Goto("recovered")
       \/ /\ ~(UNION backup \subseteq branch["target"])
          /\ Finish("Blocked") /\ UNCHANGED branch
    /\ UNCHANGED <<command, head, at, backup, remoteVars, rebasing, fileVars, localVars, started>>

\* The other blockers of the scan, then the upstream of the repaired branch.
Recovered ==
    /\ pc = "recovered"
    /\ upstream' = (upstream \/ HasRemote)
    /\ \/ Goto("stash")
       \/ Finish("Blocked")
    /\ UNCHANGED <<command, refVars, tracking, published, rebasing, fileVars, localVars, started>>

\* git stash push -u, when the status read at the start was not clean.
Stash ==
    /\ pc = "stash"
    /\ \/ /\ ~hasLocalChanges
          /\ Goto("fetch") /\ UNCHANGED <<change, stash, stashCreated>>
       \/ /\ hasLocalChanges
          /\ stashCreated' = Dirty
          /\ stash' = IF Dirty THEN <<[own |-> TRUE, index |-> change.index, tree |-> change.tree]>> \o stash
                      ELSE stash
          /\ change' = NoChange
          /\ Goto("fetch")
       \/ /\ hasLocalChanges
          /\ Finish("Failed") /\ UNCHANGED <<change, stash, stashCreated>>
    /\ UNCHANGED <<command, refVars, remoteVars, rebasing, reverted, hasLocalChanges,
                   performedRebase, snapshots, unsafeHead, started>>

\* git stash pop --index: the newest entry, whoever made it.  It is refused
\* when a file it holds is dirty, and can conflict with a HEAD that moved.
Popped == [index |-> change.index \cup Head(stash).index,
           tree |-> change.tree \cup Head(stash).tree]
CanPop == stash # <<>> /\ Files(Head(stash).tree) \cap Files(change.tree) = {}

\* Mutant: the entry is dropped although the pop failed.
PopAndDrop(step, r) ==
    \/ /\ CanPop
       /\ change' = Popped /\ stash' = Tail(stash)
       /\ pc' = step /\ result' = r
    \/ Finish("Failed") /\ stash # <<>> /\ stash' = Tail(stash) /\ UNCHANGED change

PopTo(step, r) ==
    \/ /\ CanPop
       /\ change' = Popped /\ stash' = Tail(stash)
       /\ pc' = step /\ result' = r
    \/ Finish("Failed") /\ UNCHANGED <<change, stash>>

\* What a failing step does with the stash before it reports the failure.
FailRestoring ==
    IF stashCreated THEN PopTo("done", "Failed") ELSE Finish("Failed") /\ UNCHANGED <<change, stash>>

Fetch ==
    /\ pc = "fetch"
    /\ \/ /\ tracking' = published
          /\ Goto("checkout") /\ UNCHANGED <<change, stash>>
       \/ /\ FailRestoring /\ UNCHANGED tracking
    /\ UNCHANGED <<command, refVars, published, upstream, rebasing, reverted, localVars, started>>

\* Onto the target: the local branch, or a new one at the remote branch.
Checkout ==
    /\ pc = "checkout"
    /\ \/ /\ HasLocal \/ HasRemote
          /\ branch' = IF HasLocal THEN branch ELSE [branch EXCEPT !["target"] = tracking]
          /\ head' = "target" /\ at' = {}
          /\ Goto("rebase") /\ UNCHANGED <<change, stash>>
       \/ /\ head # "target"
          /\ FailRestoring /\ UNCHANGED <<branch, head, at>>
    /\ UNCHANGED <<command, backup, remoteVars, rebasing, reverted, localVars, started>>

Behind == HasRemote /\ ~(tracking \subseteq HeadCommit)

\* Mutant: a rebase that stopped is not aborted, and the sync goes on.
RebaseUnchecked ==
    /\ pc = "rebase"
    /\ Goto("pop")
    /\ \/ /\ ~Behind
          /\ UNCHANGED <<branch, head, at, rebasing, performedRebase>>
       \/ /\ Behind /\ ~Dirty
          /\ branch' = [branch EXCEPT !["target"] = @ \cup tracking]
          /\ performedRebase' = TRUE
          /\ UNCHANGED <<head, at, rebasing>>
       \/ /\ Behind /\ ~Dirty /\ ~(branch["target"] \subseteq tracking)
          /\ rebasing' = branch["target"]
          /\ head' = "detached" /\ at' = tracking
          /\ UNCHANGED <<branch, performedRebase>>
    /\ UNCHANGED <<command, backup, remoteVars, fileVars, hasLocalChanges, stashCreated,
                   snapshots, unsafeHead, started>>

\* git rebase, only when the remote branch has something new.  A conflict
\* between gitlinks alone is resolved to the published child; any other is
\* aborted, and the abort may fail too.
Rebase ==
    /\ pc = "rebase"
    /\ \/ /\ ~Behind
          /\ Goto("pop")
          /\ UNCHANGED <<branch, head, at, rebasing, change, stash, performedRebase>>
       \/ /\ Behind /\ ~Dirty
          /\ branch' = [branch EXCEPT !["target"] = @ \cup tracking]
          /\ performedRebase' = TRUE
          /\ Goto("pop")
          /\ UNCHANGED <<head, at, rebasing, change, stash>>
       \/ /\ Behind                                \* refused, or aborted
          /\ FailRestoring
          /\ UNCHANGED <<branch, head, at, rebasing, performedRebase>>
       \/ /\ Behind /\ ~Dirty /\ ~(branch["target"] \subseteq tracking)
          /\ rebasing' = branch["target"]          \* the abort failed
          /\ head' = "detached" /\ at' = tracking
          /\ FailRestoring
          /\ UNCHANGED <<branch, performedRebase>>
    /\ UNCHANGED <<command, backup, remoteVars, reverted, hasLocalChanges, stashCreated,
                   snapshots, unsafeHead, started>>

Pop ==
    /\ pc = "pop"
    /\ IF stashCreated THEN PopTo("restore", "none")
       ELSE Finish("Succeeded") /\ UNCHANGED <<change, stash>>
    /\ UNCHANGED <<command, refVars, remoteVars, rebasing, reverted, localVars, started>>

(* RestoreWorkingTreeFileSnapshots: without a rebase the files listed at   *)
(* the start are written back as they were read then.  What the user did   *)
(* to them since is gone, and on another branch so is what that branch has *)
(* in them.                                                                *)
SwitchedBranch ==
    started.head \in Branches \ {"target"} /\ branch[started.head] # branch["target"]

Restore ==
    /\ pc = "restore"
    /\ IF performedRebase
       THEN UNCHANGED <<change, reverted>>
       ELSE /\ change' = [index |-> change.index,
                          tree |-> snapshots.tree \cup
                                   {e \in change.tree : FileOf[e] \notin Files(snapshots.tree)}]
            /\ reverted' \in IF SwitchedBranch THEN SUBSET Files(snapshots.tree) ELSE {{}}
    /\ Finish("Succeeded")
    /\ UNCHANGED <<command, refVars, remoteVars, rebasing, stash, localVars, started>>

-----------------------------------------------------------------------------
(* RunNativePreCommitRepair: a branch is left alone; a detached HEAD is    *)
(* moved to its branch with no backup and whatever the worktree holds,     *)
(* after a fetch whose failure is only a warning.                          *)
RepairFetch ==
    /\ pc = "status" /\ command = "pre-commit"
    /\ \/ head = "detached" /\ tracking' \in {tracking, published} /\ Goto("repair")
       \/ head # "detached" /\ Finish("Succeeded") /\ UNCHANGED tracking
       \/ head = "detached" /\ UNCHANGED tracking      \* no remote; no branch to go to
          /\ \E r \in {"Succeeded", "Failed"} : Finish(r)
    /\ UNCHANGED <<command, refVars, published, upstream, rebasing, fileVars, localVars, started>>

Repair ==
    /\ pc = "repair"
    /\ \/ CheckoutRecoveredBranch /\ Finish("Succeeded")
       \/ StayDetached /\ Finish("Failed")
    /\ UNCHANGED <<command, backup, remoteVars, rebasing, stash, localVars, started>>

-----------------------------------------------------------------------------
(* The others                                                              *)

Running == pc # "done" /\ pc # "killed"

\* The user saves a file in the worktree.
Edit ==
    /\ Running
    /\ \E e \in LateEdits \ (change.tree \cup UNION {stash[i].tree : i \in DOMAIN stash}) :
          change' = [change EXCEPT !.tree = @ \cup {e}]
    /\ started' = [started EXCEPT !.disturbed = TRUE]
    /\ UNCHANGED <<command, pc, result, refVars, remoteVars, rebasing, stash, reverted, localVars>>

\* Somebody stashes in another worktree of the repository.
StashElsewhere ==
    /\ Running /\ started.stashes < ForeignStashes
    /\ stash' = <<[own |-> FALSE, index |-> {}, tree |-> {}]>> \o stash
    /\ started' = [started EXCEPT !.disturbed = TRUE, !.stashes = @ + 1]
    /\ UNCHANGED <<command, pc, result, refVars, remoteVars, rebasing, change, reverted, localVars>>

PushElsewhere ==
    /\ Running /\ published # NoCommit
    /\ \E p \in Foreign \ published : published' = published \cup {p}
    /\ UNCHANGED <<command, pc, result, refVars, tracking, upstream, rebasing, fileVars,
                   localVars, started>>

\* The process is killed, or a timeout of a parent kills it.
Kill ==
    /\ Running
    /\ pc' = "killed"
    /\ UNCHANGED <<command, result, refVars, remoteVars, rebasing, fileVars, localVars, started>>

Work == \/ Refuse \/ ReadStatus \/ ScanDetached \/ ScanBlocked \/ ScanAttached
        \/ Recover \/ Replay \/ Recovered \/ Stash \/ Fetch \/ Checkout \/ Rebase
        \/ Pop \/ Restore \/ RepairFetch \/ Repair

Next == Work \/ Edit \/ StashElsewhere \/ PushElsewhere \/ Kill

Spec == Init /\ [][Next]_vars

-----------------------------------------------------------------------------

\* Every commit somebody could name when the command was called, a detached
\* HEAD included, is still held by a branch, a safety branch, HEAD or the
\* remote branch, as long as those of a detached HEAD can be counted, at every
\* step and wherever the process is killed (runOnePlan lines 3366-3424 and
\* 3566-3672; the pre-commit repair makes no safety branch and is left out).
Refs == {branch[b] : b \in Branches} \cup backup \cup {HeadCommit, rebasing, tracking}

CommitsKept ==
    command = "origin-latest" =>
        \A c \in started.commits \ {NoCommit} : c \cap Own \subseteq UNION Refs

\* What the user had in the index and the worktree when sync was called is in
\* the worktree or in a stash entry, whatever fails or is killed and whoever
\* else edits and stashes meanwhile (lines 3446-3540, 3703-3715). A sync that
\* nobody disturbs ends with the changes as they were, staged and unstaged
\* apart and with nothing added to them, or with the recovery stash in place
\* and a failure reported (docs/guides/current-command-surface.md:618-623).
\* What HEAD has in a file is undone in the worktree by a sync that left
\* another branch and rebased nothing only (lines 2746-2754, 3713-3715), and
\* then in no file but those the user had changed.
OwnStash == \E i \in DOMAIN stash : stash[i].own
LeftBranch == SwitchedBranch /\ ~performedRebase

EditsKept ==
    command = "origin-latest" =>
        /\ started.change.tree \subseteq
               change.tree \cup UNION {stash[i].tree : i \in DOMAIN stash}
        /\ pc = "done" /\ ~started.disturbed =>
               \/ /\ change = started.change /\ ~OwnStash
                  /\ reverted \subseteq IF LeftBranch THEN Files(started.change.tree) ELSE {}
               \/ OwnStash /\ reverted = {} /\ result = "Failed"

\* A sync that reports success has put the repository on the target branch,
\* with everything it fetched below it and no rebase left behind, also when
\* others push while it runs (lines 3566-3675).
SuccessIsCurrent ==
    (command = "origin-latest" /\ result = "Succeeded") =>
        /\ head = "target" /\ rebasing = NoCommit
        /\ HasRemote => tracking \subseteq branch["target"]

-----------------------------------------------------------------------------
(* What is known at each step                                              *)

TypeOK ==
    /\ command \in {"origin-latest", "pre-commit"}
    /\ result \in {"none", "Succeeded", "Failed", "Blocked", "Skipped"}
    /\ branch \in [Branches -> Ref] /\ head \in Branches \cup {"detached"}
    /\ at \in Commit /\ backup \subseteq Commit
    /\ tracking \in Ref /\ published \in Ref /\ rebasing \in Ref
    /\ upstream \in BOOLEAN /\ unsafeHead \in BOOLEAN /\ performedRebase \in BOOLEAN
    /\ hasLocalChanges \in BOOLEAN /\ stashCreated \in BOOLEAN
    /\ change \in Changes /\ snapshots \in Changes /\ stash \in Seq(Entries)
    /\ started \in [change : Changes, head : Branches \cup {"detached"},
                    commits : SUBSET Ref, disturbed : BOOLEAN, stashes : Nat]
    /\ tracking = NoCommit \/ tracking \subseteq published

Scanning == {"status", "health"}
Repairing == {"recover", "replay", "recovered"}
Syncing == {"fetch", "checkout", "rebase", "pop"}

\* Where a step of the sync finds the repository.
Placed ==
    /\ pc \in Scanning \cup Repairing \cup {"stash"} \cup Syncing
                       \cup {"restore", "repair", "done", "killed"}
    /\ pc = "repair" => command = "pre-commit"
    /\ pc = "recover" => head = "detached"
    /\ pc \in Repairing \cup {"stash"} \cup Syncing \cup {"restore"} => rebasing = NoCommit
    /\ pc \in {"replay", "recovered", "stash", "restore"} \cup Syncing => head # "detached"
    /\ pc \in {"replay", "rebase", "pop", "restore"} =>
          head = "target" /\ branch["target"] # NoCommit
    /\ pc \in {"pop", "restore"} => (HasRemote => tracking \subseteq branch["target"])
    /\ pc # "done" => result = "none"

\* The commits of a detached HEAD are safe before it is left.
Safe ==
    command = "origin-latest" /\ ~CountMayFail /\ pc = "recover" =>
        at \in backup \/ at \subseteq tracking

\* Where the changes of the user are, and what is known of them.
Trees(s) == UNION {s[i].tree : i \in DOMAIN s}
Saved == [own |-> TRUE, index |-> started.change.index, tree |-> started.change.tree]

Found ==
    /\ pc \in Scanning => started.change.tree \subseteq change.tree
    /\ pc = "recover" => started.change.tree = {}
    /\ snapshots.tree = {} \/ started.change.tree \subseteq snapshots.tree
    /\ stashCreated => hasLocalChanges
    /\ pc = "restore" => stashCreated
    /\ pc \in Scanning \cup Repairing \cup {"stash"} => ~stashCreated
    /\ pc = "status" => ~hasLocalChanges
    /\ pc # "done" => reverted = {}
    /\ reverted # {} =>
          LeftBranch /\ hasLocalChanges /\ result = "Succeeded" /\ reverted \subseteq Files(snapshots.tree)

Undisturbed ==
    ~started.disturbed =>
        /\ hasLocalChanges => snapshots = started.change
        /\ pc = "recover" => change = NoChange
        /\ pc \in Syncing => (stashCreated <=> stash # <<>>)
        /\ \/ stash = <<>> /\ change = started.change
           \/ /\ stash = <<Saved>> /\ change = NoChange
              /\ pc \in Syncing \cup {"killed"} \/ (pc = "done" /\ result = "Failed")

\* The invariant of a sync. A pre-commit repair is held to its types only.
IInv ==
    /\ TypeOK /\ Placed
    /\ ~CountMayFail => CommitsKept
    /\ command = "origin-latest" =>
          /\ Safe /\ Found /\ Undisturbed
          /\ started.change.tree \subseteq change.tree \cup Trees(stash)
    /\ SuccessIsCurrent
=============================================================================
