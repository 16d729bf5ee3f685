# kano-git (kog): a TLA+ model of its concurrent and recoverable core

`kog` is a command line tool (and a terminal dashboard) that runs git over a
workspace of many repositories: it commits them along a reviewed commit plan,
pushes and syncs them in dependency order, converges branches and worktrees, and
coordinates several agents that work in one repository. The C++ is under
`src/src/cpp/code/systems`; file names below are relative to it. `AQ` stands for
`kano_git_command/commit_plan/private/agent_queue_cmd.cpp`, `CV` for
`kano_git_command/repo_sync/private/converge_cmd.cpp`.

This directory holds the TLA+ modules, the TLC configurations that check them
on small instances, and proofs that TLAPS checks for every instance.

## 1. Inventory

| part | where | state | operations | talks to | what is hard |
|---|---|---|---|---|---|
| repository operation scheduler | `kano_git_core/workspace/private/repo_operation_scheduler.cpp` | waves, indegrees, lock keys in use, slots in use, results, blocked set | layer the graph, run a wave, acquire and release a lock, harvest, report | push, sync, status, foreach: each gives it a worker | threads and a condition variable; worktrees that share a git directory; cycles; failures that must block dependents |
| agent mutation queue | `AQ` 30-1130 | `<git-common-dir>/kano-agent-queue/{mutation.lock, state.json}`: pending items, active batch, receipts | admit, drain, complete, status | every other kog process of the repository, in any worktree; plain git moves HEAD without it | interleaved processes, kills between two steps, HEAD that went stale |
| exact-path commit | `AQ` 2030-2260 | a temporary index, HEAD and the index entries read at the start | one git command after the other | queue lock and state; the index, the branch and the files are shared with editors and plain git | time of check against time of use, a partial failure after the commit |
| overlap checkpoint | `AQ` 1130-2030 | checkpoint manifest, refs under `refs/kog/`, an isolated index, `index.lock` | capture; commit the caller's later change alone | as above, and hooks | eight re-checks of the same state, a commit that cannot be undone, retries, kills |
| commit execution | `commit_plan/private/commit_utils.cpp` 2048-3630, `commit_plan_task_graph.cpp` | task graph, commit waves, staged paths, results | stage a plan item, commit it, harvest | lock recovery, audit sink | items of one repository, parents and children, failures half way |
| commit lock recovery | `commit_plan/private/commit_lock_recovery.cpp` | attempted, succeeded, reason under a mutex | attempt once per run, retry the task | commit workers, other git processes | one worker's answer is used for another's repository; a lock that stops being stale |
| plan admission, rewrite and the commit-push pipeline | `commit_plan/private/commit_push_cmd.cpp`, `commit_plan_execution_admission.cpp`, `commit_plan_source_rewrite.cpp`, `commit_push_post_sync.cpp`, `plan_utils.cpp` | the plan file and its completion stamp, an execution lock per file, an advisory lock, the audit of the run | reserve, admit, clear the stamp, commit, sync, commit again, push, stamp, take the stamp back | commit execution, sync, push, audit; editors and kog's own plan commands save the plan without a lock | the plan changes or is replaced at any moment; a failure after the pushes; a kill in a rewrite |
| push | `repo_sync/private/push_cmd.cpp` | per repository: attempts, remote probe | push, retry, probe | scheduler, remote | a lost answer of the remote, a rejected push |
| sync and pre-commit repair | `repo_sync/private/sync_cmd.cpp` | stash, rebase state, safety branches, snapshots of files | recover a detached HEAD, stash, fetch, check out, rebase, pop, restore | scheduler, discovery; the stash is shared with other worktrees | an interrupted rebase, a stash of somebody else on top, kills between stash and pop |
| converge | `CV` 1037-7834, `workspace/private/status_cmd.cpp` | a resume file: pass, phase, summaries; a snapshot of the workspace | plan, commit, sync and push in phases, another pass, resume | status, commit, sync, push | acting on a snapshot, phases of an interrupted call, gitlinks that pin what is not pushed |
| branch and worktree lifecycle | `CV` 3862-6434 | branches, remote branches, worktrees, a pending operation | apply, retire, recover, harvest | git, the remote | proofs of integration (by id, patch, content), stopped cherry-picks, what people do between two calls and during one |
| operation audit and its reader | `kano_git_command/runtime/private/operation_audit.cpp`, `kano_git_core/audit` | attempt directory: sentinel, frozen input, event stream, receipt, marker | reserve, append, finalize, mark; read and verify | every audited command; any reader at any moment | kills and power losses between two files, a second owner, a reader that looks half way |
| terminal dashboard | `kano_git_command/ui` | the one background operation and its generation, panels, histories by pages | begin, dismiss, cancel, complete, exit | every command, as a background thread | late completions, cancellation, exit while something runs, a repository that moves under a history |
| the rest | shell, configuration, secret and ignore rules, AI providers, export, release, rendering, launchers | little or none | | | text and I/O |

`PROJECT.json` lists every part with its status and, under `hazards`, what is
hard to test, at the line where it bites. What makes each part correct:

- *Scheduler*: worktrees of one repository never run together; no more workers
  than jobs; a mutating worker runs after its dependencies and only if they
  succeeded; everything is reported once and blamed on what failed; the call
  returns.
- *Queue*: its commands are atomic although they are processes that share a
  directory and a file; no item is lost, doubled or reordered; a batch holds no
  conflicting items; kog commits nothing else while a batch is active.
- *Exact-path and overlap commits*: nothing but the selection is committed,
  whatever others do in between; their staged and edited work survives; earlier
  work is archived before it is overlapped; the report says what happened.
- *Commit execution and recovery*: children before parents, nothing outside the
  list, no success that committed nothing, no lock taken from a living git.
- *Plan pipeline*: a completion stamp means that everything was pushed; one run
  works on a plan at a time; a failed run leaves no stamp; nobody's newer plan is
  overwritten.
- *Sync*: no commit and no edit is lost, whatever fails; success means current.
- *Converge*: no remote pointer dangles, the exit code is true, the passes end.
- *Branches*: nothing is deleted that is not in the target, nothing reported is
  unpublished, the target only loses what an abort takes back.
- *Audit*: what verifies is complete and durable; what failed says so.
- *Dashboard*: a result belongs to the operation that is still current, a history
  has no gap, and nothing hangs.

## 2. Modules

    RepoOperationScheduler   <- MCRepoOperationScheduler, ThreadProofs
    QueueRules               the queue's data and rules
      MutationQueue          what the queue promises: atomic admit, drain, complete
      AgentQueue             processes, lock directory, state file; implements MutationQueue
                             <- MCAgentQueue, QueueConvergeProofs
    GitCheckout              branch, index, files, index.lock, and everyone else
      SelectedCommit         what both routes of --exact-path keep
        ExactPathCommit      <- MCExactPathCommit, SelectedCommitProofs
        OverlapCheckpoint    <- MCOverlapCheckpoint, SelectedCommitProofs
    CommitTaskGraph          from a commit plan to waves of tasks
      CommitExecution        workers, staging, lock recovery, audit
                             <- MCCommitExecution, CommitExecutionProofs
    PlanRun                  the pipeline of a plan file <- MCPlanRun, PlanRunProofs
    RepoSync                 sync and repair of one repository
                             <- MCRepoSync, RepoSyncProofs
    ConvergePlan             status kinds and the plan made of them
      Converge               phases, passes, resume
                             <- MCConverge, QueueConvergeProofs
    BranchClone              branches, worktrees, proofs of integration
      BranchLifecycle        apply, retire, recover, harvest
                             <- MCBranchLifecycle, BranchLifecycleProofs
    AuditRun                 one attempt of an audited operation
                             <- MCAuditRun, AuditRunProofs
    TuiDashboard             UI thread, worker, panels <- MCTuiDashboard, ThreadProofs

The names before `<-` model code; `MC...` gives constants to TLC; `...Proofs`
holds theorems. A comment that starts with "Mutant:" marks a definition that
is *not* the code: it is the next definition with a plausible bug, and
`PROJECT.json` says which property must fail with it.

### RepoOperationScheduler

One call of `RunRepoOperationScheduler`. The arguments are the variable `call`,
fixed by `Init`, so that one run covers every graph. Repositories are numbered in
path order, the order of every `std::sort` of the code; the strings of lock keys
and blame become numbers.

| code | here |
|---|---|
| `BuildRepoOperationWaves`, Kahn's loop | `PlanWave`, one iteration of it; `PlanDone` (cycle nodes), `PlanReadOnly` |
| `RunWave`, spawn | `StartWave` |
| `LockCoordinator::Acquire` / `Release` | `Acquire(r)` (guard: the wait condition) / `Release(r)` |
| the serial loop for jobs <= 1 | `BeginSerial(r)` |
| the worker, exceptions included | `ExecuteWorker(r, s)` |
| `results.push_back` under the mutex | `PushResult(r)` |
| join, then the loop over sorted results | `HarvestWave`, with `EmplaceBlame` for `blockedBy.emplace` |
| cycle results, `BuildAggregate` | `ReportCycle`, `HasFailure` |

All threads of a wave are spawned in one step: a thread that is not spawned yet
cannot be told from one that has not entered `Acquire`. `Pending` cannot be
returned by a worker of the repository, the other four statuses can.

### QueueRules, MutationQueue, AgentQueue

A process of `AgentQueue` runs one command at a time and starts over as a new
process. Its steps are the places where something else can come between: create
the lock directory (`Start`), load and check the state (`LoadState`), read HEAD
and decide (`ReadHead`), write (`SaveState`), remove the directory (`Unlock`);
`Prepare` and `GitCommit` stand for the exact-path commit, whose details are in
`ExactPathCommit`. `Crash` is a kill that leaves the directory, `Abandon` every
error path, `RawCommit` plain git. A command that finds the lock taken returns
`queue_locked` without a step. HEAD belongs to a worktree, the queue to all.
`at`, `admissions` and `drains` number what the code stamps with a time.
`Compatible`, `ChunksDoNotOverlap`, `CanBatch` and `AddReceipt` are the code's
pure rules.

### GitCheckout, SelectedCommit, ExactPathCommit, OverlapCheckpoint

`GitCheckout` is the environment: an editor that saves or removes files, and git
commands that take `index.lock`, stage and commit. A version of a file is the
set of hunks it contains, so that merging, separating and comparing versions
means something; `{0}` is a file that does not exist. Hunks stand for changes
that `git merge-file` can tell apart; where it cannot, the code refuses, and so
does the model (`Refuse`).

`SelectedCommit` is what the two routes of `kog commit --exact-path` keep: the
selection, where the process is, what it prints, the commit and the entries that it
read first. `ExactPathCommit` has a step per git command of `RunExactPathCommit`; its
`Init`, `Next` and so on are called `ExactInit`, `ExactNext`, so that one module of
proofs can speak of both routes.
`OverlapCheckpoint` has the capture (`CaptureBegin` to `SaveManifest`) and the
commit of it (`CommitBegin` to `IndexReadback`); each of the eight drift checks is
two steps, since it reads HEAD and index first and the files then. `Commit` may
be refused, may be changed by a hook, or be killed by the 120 s timeout of the
shell executor after the branch moved. `Retry` runs the commit again on the same
manifest, `Kill` leaves `index.lock`. A process that did not create that lock
never frees it; `RemoveLock` is a person who removes what a killed kog left.
`LateCommit` is a `git commit` that had read the index before kog took
`index.lock` and moves the branch after it: git releases that lock while the
message is edited.

### CommitTaskGraph, CommitExecution

One call of `RunCommitNativePlanStage` after admission and safety gates. A plan
gives each repository its items (paths included and excluded), the recorded
dependencies, what lies below it, what each of its paths is (a file, the pointer
to a repository, a gitlink nobody registered), what is changed or staged, and
whether `git status` of its worktree runs out of time.

| code | here |
|---|---|
| `BuildCommitTaskGraph`, Kahn's loop | `PlanWave`, one iteration of it; `PlanDone`, with `Fallback` where tasks wait for each other |
| the wave loop, `std::async`, `active.front().get()` | `StartWave`, `Spawn` (with the audit's `Capture`), `Harvest` |
| `AppendCommitMutationAuditOrReport`, per task or per wave | `AppendEvent` |
| `StageCommitItemForPlan` | `CheckScope`, `Reset`, `Add` with `Pathspec` |
| `CommitSingleRepo` | `Preflight` and `Add` without a scope, `Commit` |
| `MaybeRecoverCommitLockFailure` | `LockFailure` |
| `AttemptCommitLockRecoveryOnce` | `Enter` (mutex, cached answer), `Probe`, `Diagnose`, `RemoveLock`, `Converge`, `GiveUp` |
| other programs | `Take`, `Release` (may stage a path), `Die`, `Age` |
| `PrintCommitSummary`, audit failure | `ExitCode` |

The version of a pointer in the worktree is the number of commits of the
repository it points to, so that "the parent records what its children
committed" is `head = Work` at the end. `Commit` may be refused, be killed
before it moved the branch (its lock stays) or after. `OtherGit` contains the git
processes of the run's own other workers: the probe excludes kog's pid only, so
that a second busy worker can stop the one recovery attempt. `RemoveLock` does not
look again: a lock that replaced the one diagnosed is removed with it, and
`LiveLockKept` therefore speaks of locks the probe could see. Renames in the
index, the path-by-path staging of an exact list, the plumbing commit mode and
`config.lock` are abstracted.

### PlanRun

Several runs of `RunCommitPushPlanFilePipelineImpl` on one plan file, next to
people who save it. The plan's path is a name for a file (`path`); saving by
rename makes it the name of another one, while the execution lock stays with the
old file: the lock's name is made of device and inode. The bytes of a file are a
body, numbered by the saves, and a stamp: nobody's, an old one, or of a run.

| code | here |
|---|---|
| `PlanAuditSink::Reserve` (reads the plan, freezes its bytes) | `Reserve` |
| `AcquirePlanExecutionLock`, its timeout | `TakeLock`, `LockTimeout` |
| `AcquireAuditedPlanExecutionAdmission` (reads the plan again) | `Admit` |
| gates, `ClearCommitPlanExecutionStampForRun` | `Gates`, `Cleared` |
| `RewriteConditionally`: open and lock, compare, write, look again, restore | `Open`, `Write`, `Verify`, `Refuse` |
| the stages, with their audit events | `Commit`, `Sync`, `PostSync` (`GitlinkOnly`, `Amended`), `Push` |
| the stamp, `Finalize`, taking the stamp back | `StampWritten`, `Finalize` with `NotFinal` |
| releasing the lock, the destructor of the audit | `Unlock`, `Destroy` |
| `PromoteTextFileAtomically`, an editor | `Load`, `Save` (into the file, or a new one in its place) |
| other clones, new edits; SIGKILL | `Others`; `Kill` (in a write: torn bytes) |

A write is one step, so only a kill leaves torn bytes, and a write that fails is
restored at once. A kog that dies in a rewrite gives its locks back, since both are
locks of the operating system. The heads of repositories are counters. Each run
has an audit attempt of its own; what an attempt is worth is in `AuditRun`.

### RepoSync

One repository of `kog sync origin-latest` and of the pre-commit repair. A commit is
the set of patches it is built from: an ancestor is a subset, a rebase or a
cherry-pick a union. `ReadStatus`, `ScanDetached`, `ScanBlocked` and `ScanAttached`
are the cases of `RunNativeOriginLatestSync` after the status; `Recover`,
`CheckoutRecoveredBranch`, `StayDetached` and `Recovered` the detached recovery
with its safety branch and the replay of commits; `Stash`, `Fetch`, `Checkout`,
`Rebase`, `Pop` and `Restore` (`RestoreWorkingTreeFileSnapshots`) the git calls, each
of which may fail; `RepairFetch` and `Repair` are `RunNativePreCommitRepair`. Between
any two, `Edit` (the user saves a file), `StashElsewhere` (the stash is shared by all
worktrees of a repository), `PushElsewhere` and `Kill`.

### ConvergePlan, Converge

`ConvergePlan` is pure: `Snapshot` and `Kind` are `BuildRecursiveRepoStatus`,
`BuildPlan` with `ToCommit`, `ToBlock`, `PublicationBlocked` and `Waiting` the planner.
`Converge` is the command: `Begin` and `Resume` decide whether a state file still
fits the workspace (`ChangedUnplanned`, `Rewound`), `BeginPhase` takes the phases of
`kConvergePhases` in order, `CommitRepo`, `Sync` and `Push` go through the repositories of
a phase (`Ready`, `NotNow`, `Skip`), `Delta` and `Final` look again, `Record` writes the
state file, `Decide` stops, goes on or makes another pass (`AnotherPass`), `Finish`
sets the exit code. A mishap is a step that fails or a push that is rejected; the
users edit, others push, `Fetch` happens in a terminal, and `Kill` leaves the state
file. A repository whose push the policies in its directory
withhold (`withheld`) is planned like any other, since the planner knows the policy of
the command only, and skipped without a failure when its turn comes (`PushRefused`). A
run starts in a state of `Starts`, all of which git may be in: `Consistent`
says that a HEAD and what is pinned exist, and that a pointer that is published
points to what is, unless its push is withheld. Two ghosts are for the exit code: `calm.call`, that nothing has got in
the way of this call, and `calm.look`, that nothing has changed since its last look.

### BranchClone, BranchLifecycle

`BranchClone` is the clone and the planner's pure part: a tip is the commits it
reaches and the patches in its tree, which a cherry-pick, a squash or an "ours" merge
tell apart; `Integrated` has the three proofs (ancestry, patch equivalence, content),
`Blockers` and their filters the refusals. `BranchLifecycle` takes one call apart:

| code | here |
|---|---|
| `SyncTargetBranch`, `FastForwardTargetWithoutMerge` | `SyncBlocked`, `SyncClean`, `SyncDirty` |
| `RunBranchApply` | `IntegrateRefused`, `ApplyRefused`, `ApplySkips`, `ApplyTakes`, `CherryPick`, `Merge`, `FastForward`, `RecordReviewed`, `Push` |
| `RunBranchRecovery` | `RecoverContinue`, `RecoverAbort`, `RecoverRefused` |
| `RunBranchRetire` | `RetireSkips`, `RetireTakes`, `Handoff`, `Release`, `RemoveWorktree`, `DeleteLocal`, `DeleteRemote`, `RemoveDetached`, `LeaveDetached` |
| `HarvestDirtyWorktree` | `HarvestRead`, `HarvestCommit`, `HarvestPush`, `HarvestRemove` |
| people and other clones | `Author`, `Undo` between calls; `Edit`, `OthersPush` (to any branch), `Kill` at any time |

### AuditRun

One attempt directory, the processes that are given its run id, and a reader. Of
every file there is what is seen and what a power loss may leave of it (`kept`); a
sync makes the two agree. `Reserve` and `CreateFile` are the reservation in the order
of its files, `Append1` one line of the stream (an action, or the move of a repository
that somebody else made, `repository.reconcile-observed`), `CheckEvents` to
`ClearPending` the publication of the receipt, `MarkSpoiled` and `MarkIncomplete` the
marker. The reader (`OpenRun`, `ProbeIncomplete`, `ProbePending`, `ReadEvidence`,
`ReadFrozen`) looks at one file per step. `Kill`, `PowerLoss`, `Damage` (somebody writes
into the evidence) and `Elsewhere` (heads move) come at any time.

### TuiDashboard

The UI thread runs key handlers, frames and posted completions one at a time, one
worker runs the one operation there may be. `BeginOperation` is
`begin_async_operation` with its refusals, the actions from `Refresh` to `Quit` are key
handlers, `Frame` is a frame (with the exit), `Read` the worker's read and deposit,
`Complete` is `process_async_state`: whether the result is presented (`Presented`,
`CompleteTuiAsyncOperation`), what it does to the histories (`Replaces`, `Appended`,
`Reconciled`) and to the panels. `Batch` is `FetchTuiHistoryBatch`: pages of the anchor's
history. Others commit and remove repositories.

## 3. Runs

| run | what it asks | instance |
|---|---|---|
| `scheduler` | exclusion, order, blame; the call returns | 4 repositories: every dependency graph of three below a fourth, also with self loops and foreign paths, a diamond, two by two, a chain under a cycle; shared git directories, unresolved ones, explicit keys; jobs 0 to 3; both modes |
| `queue` | ledger, conflicts, refinement of `MutationQueue`; the lock is given back | 2 processes, 2 worktrees, 2 ids, 2 admissions with overlapping intents over 2 files and 3 lines, 1 commit, 1 kill or I/O error, receipts cut at 1 |
| `exact_path` | scope on the base, honest report | 1 selected and 1 other file, HEAD with or without it, everything staged or edited, 1 foreign commit, 2 edits |
| `overlap` | own change only, archive first, honest recovery, staging intent | 1 selected file with 2 hunks, 1 other file, 1 foreign commit, 2 edits, any number of kills and retries |
| `commit` | order, scope, report, the meaning of exit code 0, no lock of a living git removed; the run ends | 9 plans of 3 repositories, two nested in the third: two items in a child, one worker and paths staged before, exclusions and no scope, a dependency circle, a chain, a stray gitlink, a lonely one, a slow worktree; 1 foreign lock and 1 fault; or three items and 2 foreign locks |
| `plan` | stamps, exclusion, failed runs, saved plans | 2 runs, a child and its root, 1 save, 1 failed write, 1 kill, 1 push or edit of others, no more than two of these together (`FewTroubles`); 1.8 million states |
| `plan_order` (violation) | a parent's pointer is never published before what it points to | 1 run, either order of the two repositories |
| `sync_repo` | no commit and no edit lost, success is current | on the target branch, on another one or detached, 2 own and 2 foreign patches, 4 edits in 2 files (two of them late), staged and not, 1 stash of somebody else |
| `converge` | no dangling pointer, true exit code; every call ends | a chain of 3 repositories, at least one of them clean, the others in up to 14 states, one of them with its push withheld; 4 passes; 1 mishap; 366 thousand states |
| `branches` | deletion, publication, the target | main and two branches, one linked worktree, 6 patches, 2 calls of 9 commands, recover among them; starts in which the remote is ahead of a branch; edits and pushes of others in the middle of a call; 2.8 million states |
| `audit` | verified evidence, final evidence, explained ends | 2 processes, 1 repository with 3 heads, 3 events, 1 failed write, 1 kill or power loss, 1 change of the evidence; 2.2 million states |
| `dashboard` | anchored histories, late results; nothing hangs | 2 repositories (3 and 1 commits, one dirty), pages of 2, 3 operations, 5 keys, 1 failing read, 1 commit or removal |

Why these bounds are enough to be interesting: a conflict over a lock key needs
two repositories and blame from different waves four; a lost update needs two
processes; a receipt cap of 1 is reached by the second batch; a foreign commit and
a staged neighbour are what the index hazards need, and two edits are one before
the capture and one after it. One save of the plan is enough to make its path mean
another file or to bring a stamped copy back, and the take-back of a stamp needs one
failure after the pushes. A stash of somebody else on top needs one, a pointer that
dangles a parent and a child, and a chain of three a pointer in the middle that must
wait; a pass of converge ends in another one at most twice on such a chain, so that
the cap of 4 (8 in the code) is never what ends it. A pending operation and its
recovery are two calls. A power loss between two files needs one. A result that comes
late needs an operation, a key that dismisses it and a key that begins another. Each
property of a passing run fails for at least one mutant of the code in that same run,
so the instance is large enough to notice.

`CHECK_DEADLOCK FALSE` is in the runs in which the system may really stop: a queue
whose lock directory is orphaned with the bounds used up; runs, calls and attempts
that have ended (`plan`, `plan_order`, `audit`, `sync_repo`, `converge`, `branches`); a
dashboard that was quit. In the commit models there is always somebody who can take
and release `index.lock`, and `overlap` and `exact_path` check deadlock: kog itself
never waits there, it refuses.

### Fairness

- *Scheduler*: weak fairness of the calling thread and of every worker. The
  operating system schedules threads, workers are assumed to return (the shell
  executor kills what does not), and `Release` calls `notify_all`, so that a
  waiter whose condition stays true goes through. The condition may turn false
  again before it does; weak fairness does not promise more, nor is it needed.
- *Queue*: weak fairness of each process that is past `Start`: it runs to its
  end unless killed, since nothing in it waits.
- *Commit execution*: weak fairness of the calling thread and of each worker,
  as for the scheduler; every git command has a time limit. The recovery mutex
  is held once for long and passed through after that, so weak fairness is
  enough. Nothing is assumed of the programs that hold locks.
- *Converge*: weak fairness of the command's next step, for the same reason:
  one thread, git commands with a time limit, no waiting. Nothing is assumed of a
  user who calls it again.
- *Dashboard*: weak fairness of the worker, of posted completions and of frames (the
  event loop). Keys are free. The bounds on keys, commits and failing reads are what
  ends the disturbances: the promise is that nothing hangs once the user waits.
- *The other models* are safety only.

## 4. Proofs

Theorems hold for every value of the constants that the named assumptions allow;
TLC evaluates those assumptions on each run.

*Scheduler* (`ThreadProofs`; `NAssumption`, `InputsAssumption`).
`IInv` is `TypeOK` with four parts. `PlanInv`: waves are disjoint, a wave needs
only earlier ones, and `indegree[r]` is the number of dependencies not planned
yet (this is what makes the counters non-negative and the rest of the loop a
cycle). `ThreadInv`: a live thread belongs to the wave being joined. `LockInv`:
the coordinator holds exactly the keys and slots of the threads between acquire
and release, and a key determines its thread. `ReportInv`: reports are of the
waves entered, less the live threads; a bad result of a harvested wave has
marked its dependents. None of the properties is inductive: `DependencyOrder`
needs to know that what a wave depends on was harvested (`PlanInv`) and had it
failed would have been marked (`ReportInv`). Each step has its lemma. From
`SpecIInv` follow `SchedulerTypes`, `WorktreesAreExclusive`,
`DependenciesFirst`, `EveryRepositoryReported`, `JobsRespected` and
`WavesSeparated`. `ReportTellsTruth` (`BlameIsRight`) needs more: `BlameInv` says of
each unfinished harvest whom it will blame and why. What a report blames stays right
because results only grow, and a repository that the plan could not reach waits, by
the least-element principle over the waves, for a member of a circle.

*Queue* (`QueueConvergeProofs`; `IntentAssumption`, `CommitAssumption`,
`BoundAssumption`, `ReceiptCapAssumption`). `IInv`: whoever created the directory, dead or alive, is
alone behind it (`LockOwner`), so what a process decided on the state that it
loaded still holds of the file (`Decided`). From it `QueueExclusive`, the action
properties `OrphanFreezes` and `ActiveBatchOwns`, and `QueueImplements`: a step
of the processes is one step of `MutationQueue` (the `SaveState`) or none. What the
queue promises is therefore proved of the atomic commands, one lemma each
(`AdmitTells`, `DrainTells`, `CompleteTells`), and carried over: `QueueLedger` (what
the ledger says of an intent is what became of it) and `QueueConflictFree`.

*Exact-path commit* (`SelectedCommitProofs`; `SelectedAssumption` and those of
`GitCheckout`). `ExactInv`: as long as the branch is where kog found it, the
temporary index agrees with it outside the selection; kog has a commit exactly
when it is past the commit step. From it `ExactScope`, `ExactReport`,
`ExactUnrelated`, and `ExactStaleHead`: once the branch has moved before the
second look, no step leads to a commit.

*Overlap checkpoint* (`SelectedCommitProofs` too; the same assumptions). `IInv` is
`TypeOK`, what is kept from step to step (`Kept`), what is known at each step
(`Reached(pc)`) and the three invariants. The lemmas about `Merge` carry the
argument: where the three versions of a file are separable, taking the caller's
change out and putting it on HEAD changes HEAD in exactly the hunks the caller
changed since the capture (`OwnChanges`), and reconciling the index leaves what was
staged by others (`StagedChanges`). From it `OverlapTypes`, `OverlapOwn`,
`OverlapArchived`, `OverlapHonest`, and `OverlapStaging` for the action property.

*Commit execution* (`CommitExecutionProofs`; `CountAssumption`, `PlanAssumption`,
`NestedAssumption`, `BoundAssumption`). The parts of `IInv`, in the order in which they
need each other: `PlanInv` (waves are disjoint, hold every task in the end, and what
precedes a task, also over several edges, is in an earlier wave; on a cycle because
`NodeLess` is an order and what is nested comes first in it), `RunInv` (what is under
way is of the wave being run, all before it is done and audited), `Told` (what a task
committed, returned and wrote down), `RecoveryInv` (who recovers holds the mutex, and
knows of a living lock only what it did not see), `StageInv` (what the index may hold
at each step of a worker: the last commit, what others staged since the scope check,
and what the task may add), and `HeadInv` (what a branch holds is the working tree's
or somebody else's). Two facts carry the argument. Tasks of one repository are never in
the same wave, since each precedes the next (`AloneInWave`), so a worker's index and
log change under it only by other programs. And what a repository points to is not
committed any more once a task of it has started (`WorkStays`), so the pointers that it
stages are still right when the run ends. From `CommitInvariant` follow `CommitTypes`,
`CommitChildFirst`, `CommitScope`, `CommitZero`, `CommitHonest` and, for the action
property `LiveLockKept`, `CommitLiveLock`; `CommitHonest` says of each task by itself
what the audit says of it, though the events of a wave are written when all of it is done.

*Sync* (`RepoSyncProofs`; `PatchAssumption`, `DisturbanceAssumption`,
`StartAssumption`). `IInv` says what holds at each step of the call (`Placed`: no
rebase is stopped, HEAD is on the target where the sync needs it). For `SyncKeepsCommits`
(`CommitsKept`) what the refs hold only grows (`RefsKeep`), and a detached HEAD is left
only when its commit is in a safety branch or below the remote branch (`Safe`); it has
the hypothesis `~CountMayFail`, since a count that fails makes the code skip the safety
branch. For `SyncKeepsEdits` (`EditsKept`) a step knows where the edits are: in the
worktree while the repository is scanned, in what was read with the status if that was
not clean (`Found`), and, as long as nobody else edits or stashes, in the worktree or in
the one entry of the stash (`Undisturbed`). It holds of every start, on another branch
too: what the saved copies undo of the target there (section 5) is in files that the
user had changed, and nothing is undone where the sync did not leave a branch or did
rebase. `SyncSuccess` (`SuccessIsCurrent`) has no hypothesis either. `SyncTypes` holds
of both commands.

*Branch lifecycle* (`BranchLifecycleProofs`; `BranchAssumption`,
`LifecycleAssumption`). `IInv` is the shape of the clone and of the call, and `Place`:
what each step of a call is about, a source branch, a detached worktree or a harvest
for one of them, is really there, which is what keeps a step for a branch from moving
the target. From it `LifecycleTypes` and `TargetIsKept`: the target only moves forward,
but for an abort of exactly the integration that is pending.

`OnlyIntegratedGoes` adds `LossInv`: what the plan found integrated stays so, because
the target only grows during a retire; a branch is fetched and proven before it is
chosen (`Course`); the edits that a harvest has read are in a pushed commit before the
worktree goes. It has no hypothesis: any clone, any history, edits and pushes of others
between any two steps. What the code does take away is named in the property itself: the
remote branch of a branch that was planned as behind it (`plan[b].behind`, `CV` 4792),
what was pushed to a branch after the fetch, since the property compares with the branch
as fetched (`tracking`), and edits made after the harvest's diff (`Late`). Whatever the
plan did not call behind must be proven. `AppliedGoesOut` (`AppliedIsPublished`) adds
`ResultInv`, which follows a reported branch from the cherry-pick to the push, and has no
hypothesis either; the report of a cherry-pick that stopped at a second empty commit is
excused at the step that makes it (`stopped`, `CV` 4458-4471), and the rest of that
behaviour is not.

*Plan pipeline* (`PlanRunProofs`; `RootAssumption`, `StampAssumption`,
`OrderAssumption`, `BoundAssumption`). The lock is of a file, and the path may come to
mean another one, so that `WorksAlone` does not follow from the lock. What makes it
true is that a run compares the plan with what it reserved, and that files can be
numbered like the first body saved in them: the body a run was admitted with tells
that no other file can be its plan (`OwnsPath`, `BodyOf`), and of two runs in charge
the one of the older file has a body older than the newer file (`World`). The other
parts of `IInv`: stamps that are written or about to be are earned (`StampsOf`), a run
in charge has the lock and writes into the locked file only (`LockOf`), a rewrite
changes the stamp only (`JobOf`), and as long as the file holds the run's plan its
stamp is known (`OwnedBy`). From `PlanInvariant` follow `PlanTypes`, `PlanStamp`,
`PlanAlone` and `PlanEdits`, for any number of runs, repositories, saves, failed
writes and kills. `PlanFailed` (`FailedIsUncompleted`) adds `FailInv`: every rewrite
knows the bytes it started from, only the owner of the lock changes the file, a stamp
is taken back only after a write has failed, and what a later run admits has no stamp
of a failed one. The property itself is about at most one failed write, for a second
one, of the write that takes the stamp back, does leave the stamp there.

*Audit* (`AuditRunProofs`; `RepoAssumption`). The reader looks at one file per step, so
none of the three properties is inductive: what it read before must be tied to what is
there later. `IInv` says that an attempt has one owner (`Single`); that every text which
the receipt has, may have after a power loss, or had when the reader read it is empty
or the whole receipt of an owner that observes nothing more (`AllTold`, from
which `AuditTellsAll`); that a marker comes from a refused owner or one that saw a
failure (`Marked`); and, while nobody has damaged the evidence, what is on stable storage
at each stage (`Disk`): before the link no receipt can be there and the sentinel is
durable, after it the receipt may be lost only as long as the sentinel cannot
(`Linked`). From that `AuditIsDurable`, and `AuditFinal` for what `Finalize` called good.
`AuditEndIsExplained` (`EndIsExplained`) has two parts. What has a receipt verifies or is
marked, for any number of failed writes, kills and power losses, and whoever was refused
(`ReceiptIsExplained`). An owner that came to its end has finalized, or a write of it
failed; after one such failure the attempt verifies or is marked incomplete, with or
without a receipt, and this second part adds `EndInv`: once a failure was met, the marker
is written at every stage that ends without a receipt. A second failure may be the one of
the marker itself. It is about what a reader sees while the machine runs; what a power
loss leaves is `AuditIsDurable`. It uses that no repository is named "torn".

*Dashboard* (`ThreadProofs` too; `DashboardAssumption`). `UserIsNotMoved` is the
action property `ResultsDoNotMoveTheUser`. The invariant says of the operation under
way that every surface that was closed since it began is among its dismissed ones
(`ClosedIsDismissed`): it is what a completion asks before it opens anything.
`HistoryAnchored` (`HistoryIsAnchored`) adds `HistoryInv`: the rows of a history are an
interval of the commits of its anchor, and so is what a read under way will bring; the
lemmas about `CommitRows` count the rows of an interval, so that a page that is
appended starts where the last one ended and one that replaces has the same anchor.

*Converge* (`QueueConvergeProofs` too; `TreeAssumption`, `StartsAssumption`,
`BoundsAssumption`): any tree of repositories, each in any state that `Consistent`
allows, any number of mishaps and of passes. Neither invariant is inductive: a push
publishes the parent's pointers without a look at the child, on the word of a plan that
is older and of phases that may have been done by a call that was killed.

The parts of the invariant for `ConvergePublishes`: `PhaseInv` says that what was
completed is the first so many of the nine phases, but for the first sync, which a resume
may reopen (`InOrder`), and the same of the file, which an older call may have left.
`GitInv` is `Consistent`, also for what a rebase has replaced. `ExposureInv` is the
promise of the planner: if the plan may publish a parent and does not push a child of
it, then what the parent pins is published already, and as long as a commit of the
parent may still come, the child has nothing of its own (`CommitComing`). Neither is
promised of a repository whose push is withheld, nor of what pins it. `PushInv` says
that a repository that had its turn in a phase of pushes is published, or failed, or was
refused, and then all above it are held up; with the order of `Wave` (`WaveOfChild`)
this is why a parent is pushed after what it pins. From it `ConvergeDanglesNothing`
(`NoDanglingPointer`).

`ConvergeExitIsTruthful` (`ExitIsTruthful`) adds `LookInv`, that the last look has found
trouble or everything done, and `CalmInv`, that in an undisturbed call nothing fails and
what is blocked is blocked by the repositories as they are. They rest on three facts
about the planner. A plan without a block or a step leaves only repositories that are
done (`NothingToDo`). Where nothing is untouchable everything can converge
(`AllConverge`), and therefore a block means that something is untouchable
(`BlockedByUntouchable`). The theorem excepts a call that ended because its passes
were used up (`OutOfPasses`): that the passes suffice is a matter of counting them
against the depth of the tree and is left to TLC, where the property has no exception.

`Ancestors` and `CanConverge` are recursive functions over the tree. That they satisfy
their recursion, and what follows from it for every repository, is proved from a
repository that would be the least or the deepest to be wrong (`LeastNatural`,
`Deepest`): well-foundedness of the numbers does not need an operator as a parameter,
as induction would.

Only model-checked: liveness (`Termination`, `LockReleased`, `Ends`, `NothingHangs`) and
`ENABLED`, which are out of the prover's reach; that the passes of converge suffice; and
the violation of `plan_order`. No module uses a recursive operator. The scheduler and
the dashboard share a module of proofs, as do the queue and converge, which is why the
second ones have a `DashboardInit` and `DashboardNext`, a `ConvergeInit` and
`ConvergeNext`.

## 5. Findings and known divergences

The one finding that a run shows is `plan_order`:
`docs/guides/cpa-commit-plan-workflow.md:149,153` says that commit-push pushes child
repositories first; `RunCommitPushPlanFilePipelineImpl` pushes them in the order in
which the plan's stages name them, so a plan that names the parent first publishes
its pointer before the commit it points to, and leaves it dangling when the child's
push fails. The run `plan` checks plans that list the child first.

Others that were met while modelling, for which the properties make room (each can be
shown by taking the named exception out, or by adding the named start):

| where | what the code does | what is said | how the models treat it |
|---|---|---|---|
| `AQ` 985 | a stale pending item blocks every batch and no command removes it | admit again after replanning (`agent-mutation-queue.md:42-44`) | `LockReleased` promises the lock, not progress of the queue |
| `AQ` 2189 | a commit by somebody else after the last look becomes the parent of a tree made for the older HEAD, and is undone by the commit | only the declared scope is staged (ibid. 75-76) | `ScopeOnBase` compares with the base; the overlap route compares afterwards and says `recovery_required` |
| `AQ` 365 | overlap of selectors is looked for between neighbours of the sorted list: `a`, `a-b`, `a/x` passes | | selectors are disjoint sets of paths |
| `commit_utils.cpp` 2149 | when none of the listed paths is left, `git add -A` takes everything | exact include staging (`cpa-commit-plan-workflow.md:64-65`) | `ListedScope` excuses a list of nothing but unregistered gitlinks |
| `commit_utils.cpp` 2795 | a refused commit in a worktree whose status runs out of time counts as nothing to commit | the cached diff decides instead (ibid. 69-71) | `ZeroMeansCommitted` excuses it |
| `sync_cmd.cpp` 2900-2926, 3713-3715 | after a switch of branch, saved copies of files are written over the result of the stash pop | changes come back as they were, or a failure is reported (`current-command-surface.md:618-623`) | `EditsKept` excuses it after a sync that left another branch and rebased nothing, in files that the user had changed |
| `status_cmd.cpp` 1378 | a dirty worktree hides that the branch has diverged, and converge rebases it | | `ExitIsTruthful` is about what is left |
| `CV` 7151-7165 | a call killed after the last phase was recorded and resumed looks no more, also when it goes back to the first sync: the phases after that are taken for done | | `ExitIsTruthful` claims exit code 0 of calls that look (`calm.look`) |
| `CV` 1125-1132 | a parent with staged changes is not asked whether it publishes the pointer of a detached child | `README.md:61` | `NoDanglingPointer` speaks of children on a branch |
| `CV` 4792 | retiring with `--delete-remote` may delete remote commits that nobody has, since `STALE_LOCAL_BRANCH` is taken off the blockers | only what is proven integrated is deleted | `OnlyIntegratedDeleted` excuses branches that were planned as behind |
| `CV` 3928, 3979 | what is edited after the diff of a harvest goes with `worktree remove --force` | what is dirty is harvested first | `OnlyIntegratedDeleted` excuses `Late` edits |
| `CV` 6218-6261 | `push --delete` names no expected commit: what others pushed to the branch after the fetch goes with it | ditto | `OnlyIntegratedDeleted` speaks of the branch as fetched |
| `CV` 4458-4471 | `cherry-pick --skip` that stops again with a clean tree counts as success | `current-command-surface.md:558-563` | `AppliedIsPublished` excuses that report (`stopped`) |
| `push_cmd.cpp` 1255-1260, 1424-1428; `CV` 7397-7449 | the planner asks for the policy of the command only; a push that a policy of the repository forbids is skipped without a failure and its parent is pushed, so that the published pointer dangles, and converge makes passes until none is left | `README.md:61` | `NoDanglingPointer` excuses pointers to such a repository, `ExitIsTruthful` counts it as untouchable |
| `CV` 282-292 | both commit phases are followed by a sync, which may rebase the child; a parent that has committed the pin to the replaced commit is pushed with it, and nobody has published that commit | `README.md:61` | `NoDanglingPointer` excuses pins to commits that were rewritten |
| `shell_executor.cpp` 334 | a `git commit` that is killed by its time limit after the branch moved is reported as `git_commit_failed` | | `HonestReport` leaves that report out |
| `operation_audit.cpp` 1224 | the destructor of a refused second owner marks the first one's attempt as incomplete | `kog-audit-contract-v1.md:469-471`, `test_commit_plan_audit.cpp:328-330` | `FinalIsVerified` excuses the mark of a refused owner |
| `plan_cmd.cpp` 303, 364, `plan_utils.cpp` 3764, 4011, 4341 | kog's own plan commands save the plan with neither lock; an edit between the last look and the write is overwritten | writers cooperate (`kog-audit-contract-v1.md:436-441`) | `EditsKept` excuses a save in that window |
| `plan_utils.cpp` 1950 | on Windows the plan is renamed away before the new one is put in its place | | POSIX only |

Smaller ones: a gitlink-only drift in one root skips the plan's post-sync commits even
when another root has a semantic drift (`commit_push_post_sync.cpp` 506-538); on an
early `return 2` of the pipeline the lock is released before the audit's destructor
publishes; a reader that opens an attempt between the making of the directory and of
its sentinel, and then stalls for the whole run, can call a good run corrupt; in the
dashboard a refused command hides a running preview, which comes back when it is done
(`tui_dashboard_runner.cpp` 3226-3230), and paging before the first page is there shows
an empty page.

## 6. Assumptions and what is not modelled

*Queue and commits*: path normalisation and JSON, file modes and index flags, secret
and ignore rules, unmerged indexes, wording of results; the status commands, which
change nothing; the capture reads the hash and the bytes of a file in one step (`Prepare`;
`AQ` 1466 and 1477: only an edit that is undone again before the next drift check could
be seen by one and not by the other); a batch of three items is not in the run `queue`,
only in its theorem; Windows' `ReplaceFileAtomically`, where a file may be missing for a
moment.

*Plan pipeline*: the pipeline without a plan file, its AI stages and agent-mode
preflights, nested audits, the Windows handles; repositories are nested directly under
the root; a payload that has no `executed_at_utc` at all counts as an old stamp.

*Sync*: the count of a detached HEAD's commits does not fail (`CountMayFail`); upstream
sync, submodule update and `update` are left out; the order of repositories is the
scheduler's.

*Converge*: append failures of its audit, the settle-worktrees phase, secret gates and
texts are left out; nobody commits in the workspace while it runs; `ExitIsTruthful`
speaks of exit code 0 as of the last look, and of exit code 1 for calls that nothing
got in the way of.

*Branches*: one repository, a local target, one linked worktree; target sync is always
asked for and `--confirm` given; what is published is tracked at the start; a reviewed
head is the head of its branch; people commit
between two calls only, so that a commit between the plan and `branch -D` (`CV`
6233-6235) is left out, while they edit at any moment; `RemoveSemanticallyCleanWorktree`'s
look and its removal (`CV` 3738-3763) are one step.

*Audit*: supplemental inputs, the catalog of runs and its listing, hierarchies, limits
and Windows paths.

*Dashboard*: search, order, theme, filters, labels, progress ticks, the cherry-pick and
rebase panels (nothing activates them), keys before the first frame, rewritten
histories, a dirty flag that changes, `autoCloseAfterRefresh`;
`begin_async_selected_submodule_init`, which nothing calls.

*Not modelled at all*: worktree and reset commands (direct git calls behind a
confirmation), submodule, subtree, remote, foreach and authentication commands, the
shell executor (its time limits are the faults above), discovery and its cache,
rendering, export, release and log, secret, ignore and hygiene rules, AI providers,
configuration, launchers and installers. They parse, format and run one command after
the other; they keep no state between steps that another actor could disturb. They are
also most of the lines of the repository, with its tests.

## 7. What comes next

1. `AuditRun`: the catalog of runs and its listing.
2. `CommitExecution`: the plumbing commit mode, renames and amend.
3. `Converge`: how many passes a tree of a given depth needs, so that
   `ConvergeExitIsTruthful` loses its exception; the composition of a converge step with
   the detailed sync.
