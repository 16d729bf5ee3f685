------------------------- MODULE OverlapCheckpoint -------------------------
(***************************************************************************)
(* kog agent-queue checkpoint capture (RunCheckpointCapture), then         *)
(* kog commit --exact-path --overlap-checkpoint (RunCooperativeOverlap-    *)
(* Commit): the work another owner left in the selected files is archived, *)
(* and the caller's later change to the same files is committed alone.     *)
(* Checks that follow one another are a step; others work between steps.   *)
(***************************************************************************)
EXTENDS SelectedCommit

VARIABLES
    captured,            \* per selected path: head, staged and working version
    pinned,              \* refs/kog/checkpoint-snapshots: what they hold
    manifest,            \* the saved manifest
    checkpointRef,       \* refs/kog/checkpoints: the version it holds
    leftover,            \* a task-owned checkpoint checkout was left behind
    final, own, restaged,    \* PreparedOverlap per selected path
    ownIndex, stageIndex,    \* the isolated index, the reconciled index
    recoveryRef          \* refs/kog/recovery: the commit it holds, or 0

captureVars == <<captured, pinned, manifest>>
commitVars == <<checkpointRef, leftover, final, own, restaged, ownIndex, stageIndex,
                recoveryRef>>
vars == <<checkout, pc, result, base, before, captureVars, commitVars>>

Nothing == [f \in Selected |-> Absent]
NoCapture == [head |-> Nothing, staged |-> Nothing, working |-> Nothing]
NoManifest == [base |-> 0, paths |-> NoCapture]

Init ==
    /\ CheckoutInit
    /\ pc = "begin" /\ result = "" /\ base = 0 /\ before = index
    /\ captured = NoCapture /\ pinned = NoCapture /\ manifest = NoManifest
    /\ checkpointRef = Nothing /\ leftover = FALSE
    /\ final = Nothing /\ own = Nothing /\ restaged = Nothing
    /\ ownIndex = index /\ stageIndex = index /\ recoveryRef = 0

Selection(tree) == [f \in Selected |-> tree[f]]

\* Where this process holds index.lock.
Locked == {"seal", "drift6", "drift7", "commit",
           "readback", "drift8", "drift9", "drift10", "reconcile", "readindex"}

\* The command ends; ~ScopedIndexLock gives index.lock back if it is ours.
Stop(r) ==
    /\ pc' = "done" /\ result' = r
    /\ indexLock' = IF pc \in Locked /\ indexLock = "kog" THEN "free" ELSE indexLock

\* HEAD, index and index.lock are as they were read.
Settled == Len(log) = base /\ index = before /\ indexLock = "free"

\* A check: go on where it holds, stop with the blocker where it does not.
Check(from, ok, to, blocker) ==
    /\ pc = from
    /\ \/ ok /\ Goto(to) /\ UNCHANGED indexLock
       \/ ~ok /\ Stop(blocker)
    /\ UNCHANGED <<log, index, work, foreign, edits, base, before, captureVars, commitVars>>

-----------------------------------------------------------------------------
(* checkpoint capture *)

\* index.lock refuses; HEAD and the index entries are read.
CaptureBegin ==
    /\ pc = "begin"
    /\ \/ indexLock # "free" /\ Stop("git_index_lock") /\ UNCHANGED <<base, before>>
       \/ /\ indexLock = "free"
          /\ base' = Len(log) /\ before' = index
          /\ Goto("read") /\ UNCHANGED indexLock
    /\ UNCHANGED <<log, index, work, foreign, edits, captureVars, commitVars>>

\* The entry of HEAD and the staged entry of every path.
CaptureGit ==
    /\ pc = "read"
    /\ captured' = [head |-> Selection(HeadTree), staged |-> Selection(index),
                    working |-> Nothing]
    /\ Goto("readwork")
    /\ UNCHANGED <<checkout, base, before, pinned, manifest, commitVars>>

\* The working file of every path.
CaptureWork ==
    /\ pc = "readwork"
    /\ captured' = [captured EXCEPT !.working = Selection(work)]
    /\ Goto("recheck")
    /\ UNCHANGED <<checkout, base, before, pinned, manifest, commitVars>>

\* Nothing drifted; the files are read again when their blobs are stored.
CaptureRecheck ==
    \/ Check("recheck", Settled, "store", "checkpoint_snapshot_drift")
    \/ Check("store", Selection(work) = captured.working, "pin",
             "checkpoint_snapshot_drift")

\* PinCheckpointSnapshots; on an error some refs may stay.
Pin ==
    /\ pc = "pin"
    /\ \/ pinned' = captured /\ Goto("recheck2") /\ UNCHANGED indexLock
       \/ pinned' \in {pinned, captured} /\ Stop("checkpoint_pin_failed")
    /\ UNCHANGED <<log, index, work, foreign, edits, base, before, captured, manifest,
                   commitVars>>

\* Reference-transaction hooks ran: everything is looked at again.
PinRecheck ==
    \/ Check("recheck2", Settled, "recheck3", "checkpoint_snapshot_drift")
    \/ Check("recheck3", Selection(work) = captured.working, "save",
             "checkpoint_snapshot_drift")

\* Mutant: the manifest is written without pinning the snapshots.
SaveManifestUnpinned ==
    /\ pc = "pin"
    /\ manifest' = [base |-> base, paths |-> captured]
    /\ Goto("saved")
    /\ UNCHANGED <<checkout, base, before, captured, pinned, commitVars>>

\* WriteCheckpointManifest, and the command ends well.
SaveManifest ==
    /\ pc = "save"
    /\ manifest' = [base |-> base, paths |-> captured]
    /\ Goto("saved")
    /\ UNCHANGED <<checkout, base, before, captured, pinned, commitVars>>

-----------------------------------------------------------------------------
(* commit --overlap-checkpoint *)

\* The prefix of RunExactPathCommit; the manifest must be of this HEAD.
CommitBegin ==
    /\ pc = "saved"
    /\ \/ indexLock # "free" /\ Stop("git_index_lock") /\ UNCHANGED <<base, before>>
       \/ /\ indexLock = "free"
          /\ base' = Len(log) /\ before' = index
          /\ IF manifest.base = Len(log) THEN Goto("scope") /\ UNCHANGED indexLock
             ELSE Stop("stale_base_head")
    /\ UNCHANGED <<log, index, work, foreign, edits, captureVars, commitVars>>

\* The selected entries are still the captured ones.
CheckStaged ==
    Check("scope", /\ Selection(index) = manifest.paths.staged
                   /\ Selection(before) = manifest.paths.staged,
          "prepare", "staged_contamination")

\* git merge-file -p current b other, hunk by hunk.
Merge(current, b, other) ==
    {h \in Hunk : IF (h \in current) # (h \in b) THEN h \in current ELSE h \in other}

\* The caller's change since the capture, put on HEAD's version.
OwnVersion(base_, before_, final_) == Merge(final_, before_, base_)

\* Mutant: the replay is not compared with the file.
SeparableAlways(base_, before_, final_) == TRUE

\* Replaying the caller's change on the earlier work gives the file.
Separable(base_, before_, final_) ==
    Merge(before_, base_, OwnVersion(base_, before_, final_)) = final_

\* PrepareOwnOverlap.
Prepare ==
    LET m == manifest.paths
        f1 == Selection(work)
        o == [f \in Selected |-> OwnVersion(m.head[f], m.working[f], f1[f])]
    IN  /\ pc = "prepare"
        /\ \/ /\ \A f \in Selected :
                    /\ Absent \notin {m.head[f], m.staged[f], m.working[f], f1[f]}
                    /\ Separable(m.head[f], m.working[f], f1[f])
              /\ o # m.head
              /\ final' = f1 /\ own' = o
              /\ restaged' = [f \in Selected |-> Merge(m.staged[f], m.head[f], o[f])]
              /\ Goto("drift1") /\ UNCHANGED indexLock
           \/ /\ \/ o = m.head
                 \/ \E f \in Selected :
                       \/ Absent \in {m.head[f], m.staged[f], m.working[f], f1[f]}
                       \/ ~Separable(m.head[f], m.working[f], f1[f])
              /\ Stop("not_separable") /\ UNCHANGED <<final, own, restaged>>
        /\ UNCHANGED <<log, index, work, foreign, edits, base, before, captureVars,
                       checkpointRef, leftover, ownIndex, stageIndex, recoveryRef>>

Drift1 ==
    \/ Check("drift1", Settled, "drift2", "checkpoint_snapshot_drift")
    \/ Check("drift2", Selection(work) = final, "archive", "checkpoint_snapshot_drift")

(***************************************************************************)
(* CreateCheckpointRef: commits of the staged and of the working version   *)
(* in a worktree of their own, then the ref.  A ref or a worktree that an  *)
(* earlier attempt left refuses.  Where a hook or git refuses later, or    *)
(* there was no work to archive, the worktree stays, and perhaps the ref.  *)
(***************************************************************************)
Archive ==
    LET m == manifest.paths
        fails == Stop("checkpoint_commit_failed")
    IN  /\ pc = "archive"
        /\ \/ fails /\ UNCHANGED <<leftover, checkpointRef>>
           \/ /\ checkpointRef = Nothing /\ ~leftover
              /\ fails /\ leftover' = TRUE
              /\ checkpointRef' \in {Nothing, m.working}
           \/ /\ checkpointRef = Nothing /\ ~leftover
              /\ m.working # m.head \/ m.staged # m.head
              /\ checkpointRef' = m.working /\ Goto("drift3")
              /\ UNCHANGED <<leftover, indexLock>>
        /\ UNCHANGED <<log, index, work, foreign, edits, base, before, captureVars,
                       final, own, restaged, ownIndex, stageIndex, recoveryRef>>

Drift3 ==
    \/ Check("drift3", Settled, "drift4", "checkpoint_snapshot_drift")
    \/ Check("drift4", Selection(work) = final, "stage", "checkpoint_snapshot_drift")

\* Mutant: the index takes the committed versions.
StageCommitted ==
    /\ pc = "stage"
    /\ stageIndex' = [f \in Path |-> IF f \in Selected THEN own[f] ELSE index[f]]
    /\ Goto("drift5")
    /\ UNCHANGED <<checkout, base, before, captureVars, checkpointRef, leftover, final,
                   own, restaged, ownIndex, recoveryRef>>

\* A copy of the index takes the rebased staged versions.
StageReconciled ==
    /\ pc = "stage"
    /\ stageIndex' = [f \in Path |-> IF f \in Selected THEN restaged[f] ELSE index[f]]
    /\ IF Unrelated(index) = Unrelated(before)
       THEN Goto("drift5") /\ UNCHANGED indexLock
       ELSE Stop("staged_preservation_failed")
    /\ UNCHANGED <<log, index, work, foreign, edits, base, before, captureVars,
                   checkpointRef, leftover, final, own, restaged, ownIndex, recoveryRef>>

Drift5 == Check("drift5", Settled, "lock", "checkpoint_snapshot_drift")

\* Mutant: index.lock is only looked at.
TakeNoIndexLock == Check("lock", indexLock = "free", "seal", "git_index_lock")

\* ScopedIndexLock: creating the directory index.lock.
TakeIndexLock ==
    /\ pc = "lock"
    /\ \/ indexLock = "free" /\ indexLock' = "kog" /\ Goto("seal")
       \/ indexLock # "free" /\ Stop("git_index_lock")
    /\ UNCHANGED <<log, index, work, foreign, edits, base, before, captureVars, commitVars>>

\* The isolated index: HEAD with the caller's versions; its tree is sealed.
Seal ==
    LET tree == [f \in Path |-> IF f \in Selected THEN own[f] ELSE HeadTree[f]]
    IN  /\ pc = "seal"
        /\ ownIndex' = tree
        /\ IF tree = HeadTree THEN Stop("no_selected_changes")
           ELSE Goto("drift6") /\ UNCHANGED indexLock
        /\ UNCHANGED <<log, index, work, foreign, edits, base, before, captureVars,
                       checkpointRef, leftover, final, own, restaged, stageIndex,
                       recoveryRef>>

Drift6 ==
    \/ Check("drift6", Len(log) = base /\ index = before, "drift7",
             "checkpoint_snapshot_drift")
    \/ Check("drift7", Selection(work) = final, "commit", "checkpoint_snapshot_drift")

(***************************************************************************)
(* git commit with the isolated index.  A hook may refuse, or change that  *)
(* index; a commit killed by the timeout after the branch moved is         *)
(* reported as git_commit_failed too.                                      *)
(***************************************************************************)
Commit ==
    /\ pc = "commit"
    /\ \/ Stop("git_commit_failed") /\ UNCHANGED log
       \/ /\ \E tree \in {ownIndex, [f \in Path |-> work[f]]} :
                log' = Append(log, [tree |-> tree, by |-> "kog"])
          /\ \/ Goto("readback") /\ UNCHANGED indexLock
             \/ Stop("git_commit_failed")
    /\ UNCHANGED <<index, work, foreign, edits, base, before, captureVars, commitVars>>

\* CheckpointRecoveryRequired: the commit is pinned, unless that fails too.
RecoveryRequired ==
    Stop("recovery_required") /\ recoveryRef' \in {recoveryRef, Len(log)}
Recover(ok, to) ==
    \/ ok /\ Goto(to) /\ UNCHANGED <<indexLock, recoveryRef>>
    \/ ~ok /\ RecoveryRequired

\* ExactCommitReadback, then the index entries and the files once more, then
\* the index file and HEAD.
CommitReadback ==
    /\ \/ /\ pc = "readback"
          /\ Recover(Len(log) = base + 1 /\ HeadTree = ownIndex, "drift8")
       \/ pc = "drift8" /\ Recover(index = before, "drift9")
       \/ pc = "drift9" /\ Recover(Selection(work) = final, "drift10")
       \/ pc = "drift10" /\ Recover(index = before /\ Len(log) = base + 1, "reconcile")
    /\ UNCHANGED <<log, index, work, foreign, edits, base, before, captureVars,
                   checkpointRef, leftover, final, own, restaged, ownIndex, stageIndex>>

\* ReplaceFileAtomically puts the reconciled copy in place, unless it fails.
Reconcile ==
    /\ pc = "reconcile"
    /\ \/ index' = stageIndex /\ Goto("readindex") /\ UNCHANGED <<indexLock, recoveryRef>>
       \/ RecoveryRequired /\ UNCHANGED index
    /\ UNCHANGED <<log, work, foreign, edits, base, before, captureVars,
                   checkpointRef, leftover, final, own, restaged, ownIndex, stageIndex>>

\* The entries outside the selection are what they were: committed.
IndexReadback ==
    /\ pc = "readindex"
    /\ IF Unrelated(index) = Unrelated(before)
       THEN Stop("committed") /\ UNCHANGED recoveryRef
       ELSE RecoveryRequired
    /\ UNCHANGED <<log, index, work, foreign, edits, base, before, captureVars,
                   checkpointRef, leftover, final, own, restaged, ownIndex, stageIndex>>

\* A command refuses for a reason that is not the checkout's state (secrets,
\* ignored or binary files, temporary files, an unreadable object), or the
\* caller only asked for --dry-run.
Refuse ==
    /\ pc \in {"read", "readwork", "store", "recheck3", "save", "scope", "prepare",
               "stage", "lock", "seal"}
    /\ Stop("refused")
    /\ UNCHANGED <<log, index, work, foreign, edits, base, before, captureVars, commitVars>>

\* The caller runs the commit again with the same checkpoint.
Retry ==
    /\ pc = "done" /\ manifest # NoManifest /\ result # "committed"
    /\ pc' = "saved" /\ result' = ""
    /\ UNCHANGED <<checkout, base, before, captureVars, commitVars>>

\* kog is killed: index.lock stays.
Kill ==
    /\ pc # "done" /\ pc' = "done" /\ result' = "killed"
    /\ UNCHANGED <<checkout, base, before, captureVars, commitVars>>

\* Somebody removes the index.lock that a killed kog has left.
RemoveLock ==
    /\ pc = "done" /\ indexLock = "kog" /\ indexLock' = "free"
    /\ UNCHANGED <<log, index, work, foreign, edits>>

\* git gives index.lock back while a message is written: a commit begun before
\* kog took the lock may still come, if HEAD is where that commit found it.
LateCommit ==
    /\ indexLock = "kog" /\ Len(log) = base
    /\ foreign < MaxForeign /\ foreign' = foreign + 1
    /\ index # HeadTree
    /\ log' = Append(log, [tree |-> index, by |-> "git"])
    /\ UNCHANGED <<index, work, indexLock, edits>>

Step ==
    \/ CaptureBegin \/ CaptureGit \/ CaptureWork \/ CaptureRecheck \/ Pin \/ PinRecheck
    \/ SaveManifest
    \/ CommitBegin \/ CheckStaged \/ Prepare \/ Drift1 \/ Archive \/ Drift3
    \/ StageReconciled \/ Drift5 \/ TakeIndexLock \/ Seal \/ Drift6 \/ Commit
    \/ CommitReadback \/ Reconcile \/ IndexReadback \/ Refuse \/ Retry \/ Kill

Next ==
    \/ Step
    \/ (Others \/ LateCommit \/ RemoveLock) /\ UNCHANGED <<pc, result, base, before, captureVars, commitVars>>

Spec == Init /\ [][Next]_vars

-----------------------------------------------------------------------------
Selections == [Selected -> Version]
Captures == [head : Selections, staged : Selections, working : Selections]

\* TypeOK: versions stay versions, through the merges too.
TypeOK ==
    /\ CheckoutTypeOK
    /\ before \in Tree /\ ownIndex \in Tree /\ stageIndex \in Tree
    /\ {captured, pinned, manifest.paths} \subseteq Captures
    /\ {checkpointRef, final, own, restaged} \subseteq Selections
    /\ base \in 0..Len(log) /\ manifest.base \in 0..Len(log)
    /\ recoveryRef \in 0..Len(log) /\ leftover \in BOOLEAN

Changed(a, b) == (a \ b) \cup (b \ a)

\* OwnOnly: a commit reported as committed follows the captured HEAD, and holds
\* what the caller changed after the capture, nothing of what others had left
\* in those files, and no other path.
OwnOnly ==
    result = "committed" =>
        \A n \in KogCommits :
            /\ n = manifest.base + 1
            /\ \A f \in Selected :
                   Changed(log[n].tree[f], manifest.paths.head[f])
                       = Changed(final[f], manifest.paths.working[f])
            /\ Unrelated(log[n].tree) = Unrelated(log[n - 1].tree)

\* ArchivedFirst: when the caller's commit exists, the earlier work is held by
\* the checkpoint ref and its versions are pinned.
ArchivedFirst ==
    /\ KogCommits # {} => checkpointRef = manifest.paths.working
    /\ manifest # NoManifest => pinned = manifest.paths

Blockers == {"checkpoint_snapshot_drift", "checkpoint_pin_failed", "staged_contamination",
             "not_separable", "checkpoint_commit_failed", "staged_preservation_failed",
             "no_selected_changes", "refused"}
\* RecoveryHonest: a blocker says that there is no commit of the caller's
\* (except that a git commit that failed may have left one, and what later
\* attempts find); committed and recovery_required say that there is one, and
\* the recovery ref never names another's commit.
RecoveryHonest ==
    /\ result \in Blockers => KogCommits = {}
    /\ result \in {"committed", "recovery_required"} => KogCommits # {}
    /\ recoveryRef \in KogCommits \cup {0}

\* The steps of the capture; of the commit until the earlier work is archived,
\* until there is a commit, and after it.
Capturing == {"begin", "read", "readwork", "recheck", "store", "pin", "recheck2",
              "recheck3", "save"}
Preparing == {"scope", "prepare", "drift1", "drift2", "archive"}
Archived == {"drift3", "drift4", "stage", "drift5", "lock", "seal", "drift6", "drift7",
             "commit"}
After == {"readback", "drift8", "drift9", "drift10", "reconcile", "readindex"}
Places == Capturing \cup {"saved", "done"} \cup Preparing \cup Archived \cup After

\* The versions PrepareOwnOverlap leaves, the tree that is sealed, and the
\* index that is put in place.
Prepared ==
    \A f \in Selected :
        LET head == manifest.paths.head[f]
            working == manifest.paths.working[f]
            staged == manifest.paths.staged[f]
        IN  /\ Absent \notin {head, staged, working, final[f]}
            /\ own[f] = OwnVersion(head, working, final[f])
            /\ Separable(head, working, final[f])
            /\ restaged[f] = Merge(staged, head, own[f])
Sealed == [f \in Path |-> IF f \in Selected THEN own[f] ELSE log[base].tree[f]]
Reconciled == [f \in Path |-> IF f \in Selected THEN restaged[f] ELSE before[f]]

\* What holds of the data when kog is at p: of the command and the lock, of the
\* capture, of the preparation, and of what is committed.
Placed(p) ==
    /\ p \in Places
    /\ p # "done" => result = ""
    /\ p \in Locked => indexLock = "kog"
    /\ p \notin {"begin", "saved", "done"} => base > 0
    /\ p \in Capturing <=> p # "done" /\ manifest = NoManifest
Looked(p) ==
    /\ p \in {"readwork", "recheck"} /\ Len(log) = base =>
           captured.head = Selection(log[base].tree)
    /\ p \in {"store", "pin", "recheck2", "recheck3", "save"} =>
           captured.head = Selection(log[base].tree)
    /\ p \in {"recheck2", "recheck3", "save"} => pinned = captured
Readied(p) ==
    /\ p \in Preparing \cup Archived \cup After => base = manifest.base
    /\ p \in (Preparing \ {"scope"}) \cup Archived \cup After =>
           Selection(before) = manifest.paths.staged
    /\ p \in {"drift1", "drift2", "archive"} \cup Archived \cup After => Prepared
    /\ p \in Archived \cup After => checkpointRef = manifest.paths.working
    /\ p \in {"drift5", "lock"} \cup Locked => stageIndex = Reconciled
Committed(p) ==
    /\ p \in Preparing \cup Archived => KogCommits = {}
    /\ p = "drift6" /\ Len(log) = base => ownIndex = Sealed
    /\ p \in {"drift7", "commit"} \cup After => ownIndex = Sealed
    /\ p \in After => KogCommits = {Len(log)} /\ Len(log) > base
    /\ p \in After \ {"readback"} => Len(log) = base + 1 /\ HeadTree = Sealed
    /\ p \in {"drift9", "drift10", "reconcile"} => index = before
Reached(p) == Placed(p) /\ Looked(p) /\ Readied(p) /\ Committed(p)

\* Kept: what holds wherever kog is.
Kept ==
    /\ manifest # NoManifest =>
           /\ manifest.base > 0
           /\ manifest.paths.head = Selection(log[manifest.base].tree)
    /\ \A n \in KogCommits : manifest.base > 0 /\ n > manifest.base

\* IInv: a checkpoint is of a commit that is still in the branch, the caller's
\* commit can only follow it, and each step finds what earlier checks left.
IInv == TypeOK /\ Kept /\ Reached(pc) /\ OwnOnly /\ ArchivedFirst /\ RecoveryHonest

\* StagingIntentKept: what was staged before the commit, relative to HEAD, is
\* staged after it relative to the new HEAD; the index changes in no other step
\* of kog's, and the files in none.
StagingIntentKept ==
    [][pc' # pc =>
        /\ work' = work
        /\ index' # index => pc = "reconcile"
        /\ pc = "reconcile" /\ pc' = "readindex" =>
              /\ \A f \in Selected :
                     Changed(index'[f], HeadTree[f])
                         = Changed(index[f], log[base].tree[f])
                               \ Changed(own[f], log[base].tree[f])
              /\ Unrelated(index') = Unrelated(index)]_vars
=============================================================================
