--------------------------- MODULE CommitExecution ---------------------------
(***************************************************************************)
(* RunCommitNativePlanStage: the commit tasks of a plan are run in waves   *)
(* by worker threads.  A worker stages the paths of its item in the index  *)
(* of its repository and commits that index.  A worker that fails on a git *)
(* lock tries to recover: one attempt per run, under a mutex, and the task *)
(* is run once more if it succeeded.  Every task leaves an audit event.    *)
(*                                                                         *)
(* A path has a version number.  A gitlink's version in the working tree   *)
(* is the number of commits of the repository that it points to.           *)
(***************************************************************************)
EXTENDS CommitTaskGraph

CONSTANTS
    MaxForeign(_),   \* bound: locks taken by other programs, for a plan
    MaxFault(_)      \* bound: commits refused or killed, events and probes that fail

ASSUME BoundAssumption == \A p \in Plan : MaxForeign(p) \in Nat /\ MaxFault(p) \in Nat

VARIABLES
    plan, waves,           \* the arguments, and the waves planned so far
    pc, wave, todo,        \* the calling thread; todo: not started in this wave
    active,                \* futures not harvested yet, oldest first
    thread,                \* where the worker of a task is
    retried,               \* the task is run for the second time
    result,                \* what the worker returned
    events,                \* commit.apply events: commits before and after
    head, index, log,      \* the repositories
    lock, late, old,       \* index.lock: holder, taken after the probe, age
    recovery, owner,       \* CommitLockRecoveryState, holder of its mutex
    theirs,                \* ghost: paths others staged since the scope check
    foreign, faults, killed, psFailed

mainVars == <<plan, waves, pc, wave, todo, active, events>>
taskVars == <<thread, retried, result>>
gitVars == <<head, index, log>>
lockVars == <<lock, late, old>>
recoveryVars == <<recovery, owner>>
countVars == <<foreign, faults, killed, psFailed>>
vars == <<mainVars, taskVars, gitVars, lockVars, recoveryVars, theirs, countVars>>

NoTask == <<0, 0>>
ItemOf(t) == plan.items[t[1]][t[2]]
Here(t) == t[1]

\* The version of a path in the working tree.
Work(r, f) ==
    IF plan.link[r][f] = Regular THEN (IF f \in plan.dirty[r] THEN 1 ELSE 0)
    ELSE IF plan.link[r][f] = Unregistered THEN 1
    ELSE Len(log[plan.link[r][f]])
Staged(r) == {f \in Path : index[r][f] # head[r][f]}
Unstaged(r) == {f \in Path : Work(r, f) # index[r][f]}

Init ==
    /\ plan \in Plan /\ waves = <<>>
    /\ pc = "plan" /\ wave = 0 /\ todo = {} /\ active = <<>>
    /\ thread = [t \in AllTasks |-> "none"]
    /\ retried = [t \in AllTasks |-> FALSE]
    /\ result = [t \in AllTasks |-> "none"]
    /\ events = [t \in AllTasks |-> <<>>]
    /\ head = [r \in Repo |-> [f \in Path |-> 0]]
    /\ index = [r \in Repo |-> [f \in Path |-> IF f \in plan.staged[r] THEN 1 ELSE 0]]
    /\ log = [r \in Repo |-> <<>>]
    /\ lock = [r \in Repo |-> "free"]
    /\ late = [r \in Repo |-> FALSE] /\ old = [r \in Repo |-> FALSE]
    /\ recovery = "none" /\ owner = NoTask
    /\ theirs = [r \in Repo |-> {}]
    /\ foreign = 0 /\ faults = 0 /\ killed = {} /\ psFailed = FALSE

-----------------------------------------------------------------------------
(* The calling thread *)

Planned == UNION {waves[k] : k \in DOMAIN waves}
ReadyTasks == {t \in Tasks(plan) \ Planned :
                  \A s \in Tasks(plan) : Edge(plan, s, t) => s \in Planned}

\* An iteration of BuildCommitTaskGraph's loop: what waits for nothing is a wave.
PlanWave ==
    /\ pc = "plan" /\ ReadyTasks # {}
    /\ waves' = Append(waves, ReadyTasks)
    /\ UNCHANGED <<plan, pc, wave, todo, active, events, taskVars, gitVars, lockVars,
                   recoveryVars, theirs, countVars>>

\* Its end; what is left waits for itself.
PlanDone ==
    /\ pc = "plan" /\ ReadyTasks = {}
    /\ waves' = IF Planned = Tasks(plan) THEN waves ELSE Fallback(plan)
    /\ pc' = "wave"
    /\ UNCHANGED <<plan, wave, todo, active, events, taskVars, gitVars, lockVars,
                   recoveryVars, theirs, countVars>>

WaveWorkers ==
    IF plan.jobs < Cardinality(waves[wave]) THEN plan.jobs ELSE Cardinality(waves[wave])

StartWave ==
    /\ pc = "wave" /\ wave < Len(waves)
    /\ wave' = wave + 1 /\ todo' = waves[wave'] /\ pc' = "run"
    /\ UNCHANGED <<plan, waves, active, events, taskVars, gitVars, lockVars,
                   recoveryVars, theirs, countVars>>

\* std::async, or the call itself where there is one worker.
Spawn(t) ==
    /\ pc = "run" /\ Len(active) < WaveWorkers
    /\ t \in todo /\ \A s \in todo \ {t} : NodeLess(t, s)
    /\ todo' = todo \ {t}
    /\ active' = Append(active, t)
    /\ thread' = [thread EXCEPT ![t] = "scope"]
    /\ events' = [events EXCEPT ![t] = <<Len(log[Here(t)])>>]    \* Capture
    /\ UNCHANGED <<plan, waves, pc, wave, retried, result, gitVars, lockVars,
                   recoveryVars, theirs, countVars>>

\* active.front().get().
Harvest ==
    /\ pc = "run" /\ active # <<>> /\ thread[active[1]] = "done"
    /\ active' = Tail(active)
    /\ pc' = IF WaveWorkers = 1 \/ (todo = {} /\ Tail(active) = <<>>)
             THEN "audit" ELSE "run"
    /\ UNCHANGED <<plan, waves, wave, todo, events, taskVars, gitVars, lockVars,
                   recoveryVars, theirs, countVars>>

Unaudited == {t \in waves[wave] : thread[t] = "done" /\ Len(events[t]) = 1}

(***************************************************************************)
(* AppendCommitMutationAuditOrReport, after each task where there is one   *)
(* worker and after the wave otherwise (in the order of the repository     *)
(* records, which is left open here).  A failure ends the run.             *)
(***************************************************************************)
AppendEvent(t) ==
    /\ pc = "audit" /\ t \in Unaudited
    /\ \/ /\ events' = [events EXCEPT ![t] = Append(@, Len(log[Here(t)]))]
          /\ pc' = IF Unaudited # {t} THEN "audit"
                   ELSE IF todo # {} THEN "run" ELSE "wave"
          /\ UNCHANGED countVars
       \/ /\ pc' = "failed" /\ UNCHANGED events
          /\ faults < MaxFault(plan) /\ faults' = faults + 1 /\ UNCHANGED <<foreign, killed, psFailed>>
    /\ UNCHANGED <<plan, waves, wave, todo, active, taskVars, gitVars, lockVars,
                   recoveryVars, theirs>>

Finish ==
    /\ pc = "wave" /\ wave = Len(waves) /\ pc' = "done"
    /\ UNCHANGED <<plan, waves, wave, todo, active, events, taskVars, gitVars, lockVars,
                   recoveryVars, theirs, countVars>>

Ended == pc \in {"done", "failed"} /\ UNCHANGED vars

-----------------------------------------------------------------------------
(* A worker *)

Step(t, from, to) == thread[t] = from /\ thread' = [thread EXCEPT ![t] = to]
Return(t, r) == /\ thread' = [thread EXCEPT ![t] = "done"]
                /\ result' = [result EXCEPT ![t] = r]

\* Mutant: a task is retried as often as it fails.
LockFailureEndless(t) == thread' = [thread EXCEPT ![t] = "recover"] /\ UNCHANGED result

\* The result is a failure with git's message about a lock: recovery, unless
\* this was the retry.
LockFailure(t) ==
    IF retried[t] THEN Return(t, "failed")
    ELSE thread' = [thread EXCEPT ![t] = "recover"] /\ UNCHANGED result

NeedsPlanStaging(t) == Len(plan.items[Here(t)]) > 1 \/ Scoped(ItemOf(t))

\* Mutant: what is staged elsewhere does not refuse.
CheckScopeNot(t) ==
    /\ Step(t, "scope", "reset") /\ NeedsPlanStaging(t)
    /\ theirs' = [theirs EXCEPT ![Here(t)] = {}]
    /\ UNCHANGED <<mainVars, retried, result, gitVars, lockVars, recoveryVars, countVars>>

\* StageCommitItemForPlan: something staged outside the include list refuses.
CheckScope(t) ==
    LET in == ItemOf(t).include
        stray == Staged(Here(t)) \ (in \ ItemOf(t).exclude)
    IN  /\ thread[t] = "scope" /\ NeedsPlanStaging(t)
        /\ IF in # {} /\ stray # {} THEN Return(t, "failed")
           ELSE Step(t, "scope", "reset") /\ UNCHANGED result
        /\ theirs' = [theirs EXCEPT ![Here(t)] = {}]
        /\ UNCHANGED <<mainVars, retried, gitVars, lockVars, recoveryVars, countVars>>

\* CommitSingleRepo of an item without a scope: no status, no changes.
Preflight(t) ==
    LET r == Here(t)
    IN  /\ thread[t] = "scope" /\ ~NeedsPlanStaging(t)
        /\ IF r \in plan.slow \/ Staged(r) \cup Unstaged(r) = {} THEN Return(t, "skipped")
           ELSE Step(t, "scope", IF Unstaged(r) = {} THEN "commit" ELSE "add") /\ UNCHANGED result
        /\ UNCHANGED <<mainVars, retried, gitVars, lockVars, recoveryVars, theirs, countVars>>

\* git reset of the include list, or of everything.
Reset(t) ==
    LET r == Here(t)
        of == IF ItemOf(t).include = {} THEN Path ELSE ItemOf(t).include
    IN  /\ thread[t] = "reset"
        /\ \/ /\ lock[r] = "free" /\ Step(t, "reset", "add") /\ UNCHANGED result
              /\ index' = [index EXCEPT ![r] =
                              [f \in Path |-> IF f \in of THEN head[r][f] ELSE @[f]]]
           \/ lock[r] # "free" /\ LockFailure(t) /\ UNCHANGED index
        /\ UNCHANGED <<mainVars, retried, head, log, lockVars, recoveryVars, theirs, countVars>>

Managed(r, f) == plan.link[r][f] \in Repo
Unmanaged(r) == {f \in Path : plan.link[r][f] = Unregistered}

\* The worktree as git status lists it; asked for only above nested repositories.
Status(r) == IF plan.nested[r] = {} \/ r \in plan.slow THEN {} ELSE Staged(r) \cup Unstaged(r)

\* Mutant: a nested repository that moved is not staged.
PathspecNoLinks(t) ==
    LET listed == ItemOf(t).include \ Unmanaged(Here(t))
    IN  (IF listed = {} THEN Path ELSE listed) \ (ItemOf(t).exclude \cup Unmanaged(Here(t)))

(***************************************************************************)
(* What git add -A is given: the list without unregistered gitlinks, and   *)
(* the pointers to nested repositories that have moved.  Where that leaves *)
(* only exclusions, git takes every path that is not excluded.             *)
(***************************************************************************)
Pathspec(t) ==
    LET r == Here(t)
        moved == {f \in Status(r) : Managed(r, f)} \ ItemOf(t).exclude
        listed == (ItemOf(t).include \ Unmanaged(r)) \cup moved
        skipped == ItemOf(t).exclude \cup (Unmanaged(r) \cap (ItemOf(t).include \cup Status(r)))
    IN  (IF listed = {} THEN Path ELSE listed) \ skipped

\* git add: StageCommitItemForPlan's, which is update-index path by path for a
\* list of files, or CommitSingleRepo's.
Add(t) ==
    LET r == Here(t)
        of == IF NeedsPlanStaging(t) THEN Pathspec(t) ELSE Path
    IN  /\ thread[t] = "add"
        /\ \/ /\ lock[r] = "free" /\ Step(t, "add", "commit") /\ UNCHANGED result
              /\ index' = [index EXCEPT ![r] =
                              [f \in Path |-> IF f \in of THEN Work(r, f) ELSE @[f]]]
           \/ lock[r] # "free" /\ LockFailure(t) /\ UNCHANGED index
        /\ UNCHANGED <<mainVars, retried, head, log, lockVars, recoveryVars, theirs, countVars>>

Own(t) == {k \in DOMAIN log[Here(t)] : log[Here(t)][k].item = t[2]}

\* git commit of the index.
MoveBranch(t) ==
    LET r == Here(t)
    IN  /\ lock[r] = "free"
        /\ head' = [head EXCEPT ![r] = index[r]]
        /\ log' = [log EXCEPT ![r] =
                      Append(@, [item |-> t[2], paths |-> Staged(r), theirs |-> theirs[r]])]

\* Mutant: a commit that was refused is reported as made.
CommitUnread(t) ==
    /\ thread[t] = "commit" /\ Staged(Here(t)) # {}
    /\ Return(t, "committed")
    /\ \/ MoveBranch(t) /\ UNCHANGED countVars
       \/ /\ faults < MaxFault(plan) /\ faults' = faults + 1
          /\ UNCHANGED <<gitVars, foreign, killed, psFailed>>
    /\ UNCHANGED <<mainVars, retried, index, lockVars, recoveryVars, theirs>>

(***************************************************************************)
(* CommitSingleRepo: the commit, which a lock or a hook may refuse, and    *)
(* which a timeout may kill, leaving a lock or after it moved the branch.  *)
(* A status without anything staged makes a failure "nothing to commit".   *)
(***************************************************************************)
Commit(t) ==
    LET r == Here(t)
        blind == r \in plan.slow
    IN  /\ thread[t] = "commit"
        /\ \/ /\ Staged(r) = {}
              /\ Return(t, "skipped") /\ UNCHANGED <<head, log, lock, old, countVars>>
           \/ /\ Staged(r) # {} /\ MoveBranch(t)
              /\ Return(t, "committed") /\ UNCHANGED <<lock, old, countVars>>
           \/ /\ Staged(r) # {} /\ lock[r] # "free"
              /\ IF blind THEN Return(t, "skipped") ELSE LockFailure(t)
              /\ UNCHANGED <<head, log, lock, old, countVars>>
           \/ /\ Staged(r) # {}
              /\ faults < MaxFault(plan) /\ faults' = faults + 1
              /\ Return(t, IF blind THEN "skipped" ELSE "failed")
              /\ lock[r] = "free" /\ lock' \in {lock, [lock EXCEPT ![r] = "dead"]}
              /\ old' = [old EXCEPT ![r] = FALSE]
              /\ UNCHANGED <<head, log, foreign, killed, psFailed>>
           \/ /\ Staged(r) # {} /\ MoveBranch(t)
              /\ faults < MaxFault(plan) /\ faults' = faults + 1 /\ killed' = killed \cup {t}
              /\ Return(t, "skipped") /\ UNCHANGED <<lock, old, foreign, psFailed>>
        /\ UNCHANGED <<mainVars, retried, index, late, recoveryVars, theirs>>

-----------------------------------------------------------------------------
(* AttemptCommitLockRecoveryOnce *)

Enter(t) ==
    /\ thread[t] = "recover" /\ owner = NoTask
    /\ CASE recovery = "none" -> /\ Step(t, "recover", "probe")
                                 /\ owner' = t /\ recovery' = "failed"
                                 /\ UNCHANGED <<result, retried>>
         [] recovery = "failed" -> Return(t, "failed") /\ UNCHANGED <<recoveryVars, retried>>
         [] OTHER -> /\ Step(t, "recover", "scope")
                     /\ retried' = [retried EXCEPT ![t] = TRUE]
                     /\ UNCHANGED <<result, recoveryVars>>
    /\ UNCHANGED <<mainVars, gitVars, lockVars, theirs, countVars>>

\* The attempt is over: recovery stays "failed" and the mutex is released.
GiveUp(t) == Return(t, "failed") /\ owner' = NoTask /\ UNCHANGED <<recovery, retried>>

MustSee == \E r \in Repo : lock[r] = "git"
OtherGit(t) ==
    \/ MustSee
    \/ \E s \in AllTasks \ {t} : thread[s] \in {"reset", "add", "commit"}
\* Mutant: what the probe finds does not stop the attempt.
ProbeIgnored(t) ==
    /\ Step(t, "probe", "diagnose")
    /\ late' = [r \in Repo |-> FALSE]
    /\ UNCHANGED <<mainVars, retried, result, recoveryVars, gitVars, lock, old, theirs,
                   countVars>>

(***************************************************************************)
(* DetectActiveCommitLockRecoveryProcess: git in any repository, the git   *)
(* of this run's other workers too, stops the attempt.  Where ps itself    *)
(* fails nothing does.                                                     *)
(***************************************************************************)
Probe(t) ==
    /\ thread[t] = "probe"
    /\ late' = [r \in Repo |-> FALSE]
    /\ \/ OtherGit(t) /\ GiveUp(t) /\ UNCHANGED countVars
       \/ /\ ~MustSee /\ Step(t, "probe", "diagnose")
          /\ UNCHANGED <<retried, result, recoveryVars, countVars>>
       \/ /\ MustSee /\ Step(t, "probe", "diagnose")
          /\ faults < MaxFault(plan) /\ faults' = faults + 1 /\ psFailed' = TRUE
          /\ UNCHANGED <<retried, result, recoveryVars, foreign, killed>>
    /\ UNCHANGED <<mainVars, gitVars, lock, old, theirs>>

\* CleanupStaleCommitLocksForRepo: a lock younger than two seconds is kept.
Diagnose(t) ==
    LET r == Here(t)
    IN  /\ thread[t] = "diagnose"
        /\ \/ lock[r] = "free" /\ Step(t, "diagnose", "converge")
              /\ UNCHANGED <<retried, result, recoveryVars>>
           \/ lock[r] # "free" /\ old[r] /\ Step(t, "diagnose", "remove")
              /\ UNCHANGED <<retried, result, recoveryVars>>
           \/ lock[r] # "free" /\ ~old[r] /\ GiveUp(t)
        /\ UNCHANGED <<mainVars, gitVars, lockVars, theirs, countVars>>

RemoveLock(t) ==
    LET r == Here(t)
    IN  /\ thread[t] = "remove"
        /\ \/ /\ lock[r] # "free" /\ Step(t, "remove", "converge")
              /\ lock' = [lock EXCEPT ![r] = "free"]
              /\ UNCHANGED <<retried, result, recoveryVars>>
           \/ lock[r] = "free" /\ GiveUp(t) /\ UNCHANGED lock
        /\ UNCHANGED <<mainVars, gitVars, late, old, theirs, countVars>>

\* RunCommitLockRecoveryConvergeProbe, and the one retry.
Converge(t) ==
    /\ thread[t] = "converge"
    /\ \/ /\ Step(t, "converge", "scope") /\ UNCHANGED result
          /\ retried' = [retried EXCEPT ![t] = TRUE]
          /\ recovery' = "succeeded" /\ owner' = NoTask
       \/ GiveUp(t)
    /\ UNCHANGED <<mainVars, gitVars, lockVars, theirs, countVars>>

-----------------------------------------------------------------------------
(* Other programs *)

Take(r) ==
    /\ lock[r] = "free" /\ foreign < MaxForeign(plan)
    /\ foreign' = foreign + 1
    /\ lock' = [lock EXCEPT ![r] = "git"]
    /\ old' = [old EXCEPT ![r] = FALSE]
    /\ late' = [late EXCEPT ![r] = TRUE]
    /\ UNCHANGED <<mainVars, taskVars, gitVars, recoveryVars, theirs, faults, killed, psFailed>>

\* Another git add is done, and may have staged a path.
Release(r) ==
    /\ lock[r] = "git" /\ lock' = [lock EXCEPT ![r] = "free"]
    /\ \/ UNCHANGED <<index, theirs>>
       \/ \E f \in Path : /\ index' = [index EXCEPT ![r][f] = 3]
                          /\ theirs' = [theirs EXCEPT ![r] = @ \cup {f}]
    /\ UNCHANGED <<mainVars, taskVars, head, log, late, old, recoveryVars, countVars>>

Die(r) ==
    /\ lock[r] = "git" /\ lock' = [lock EXCEPT ![r] = "dead"]
    /\ UNCHANGED <<mainVars, taskVars, gitVars, late, old, recoveryVars, theirs, countVars>>

Age(r) ==
    /\ lock[r] # "free" /\ ~old[r] /\ old' = [old EXCEPT ![r] = TRUE]
    /\ UNCHANGED <<mainVars, taskVars, gitVars, lock, late, recoveryVars, theirs, countVars>>

-----------------------------------------------------------------------------
Main == \/ PlanWave \/ PlanDone \/ StartWave \/ (\E t \in AllTasks : Spawn(t)) \/ Harvest
        \/ (\E t \in AllTasks : AppendEvent(t)) \/ Finish
Worker(t) == \/ CheckScope(t) \/ Preflight(t) \/ Reset(t) \/ Add(t) \/ Commit(t)
             \/ Enter(t) \/ Probe(t) \/ Diagnose(t) \/ RemoveLock(t) \/ Converge(t)
Others == \E r \in Repo : Take(r) \/ Release(r) \/ Die(r) \/ Age(r)
Next == Main \/ (\E t \in AllTasks : Worker(t)) \/ Others \/ Ended
Spec == Init /\ [][Next]_vars

\* Threads are scheduled, and every command they wait for has a time limit.
FairSpec == Spec /\ WF_vars(Main) /\ \A t \in AllTasks : WF_vars(Worker(t))

-----------------------------------------------------------------------------
(* Properties *)

\* No task starts before every item of the repositories nested in its own is
\* done, also where the recorded dependencies run in a circle; where they do
\* not, nor before those of what depends on it.
ChildFirst ==
    \A s, t \in Tasks(plan) :
        /\ thread[t] # "none"
        /\ \/ Here(s) \in plan.nested[Here(t)]
           \/ Here(s) # Here(t) /\ Here(t) \in plan.deps[Here(s)] /\ ~Circular(plan)
        => thread[s] = "done"

\* The commit of an item with an include list holds nothing else but pointers
\* to nested repositories and what another program staged after the scope
\* check: nothing the user had staged, nothing an earlier item left staged when
\* it failed.  A list of unregistered gitlinks only is no list.
Scope(r, item) ==
    IF item.include \subseteq Unmanaged(r) THEN Path
    ELSE (item.include \ item.exclude) \cup {f \in Path : Managed(r, f)}

ListedScope ==
    \A r \in Repo : \A k \in DOMAIN log[r] :
        LET item == plan.items[r][log[r][k].item] IN
        item.include # {} => log[r][k].paths \subseteq Scope(r, item) \cup log[r][k].theirs

\* RunCommitNativePlanStage's exit code.
ExitCode ==
    IF pc = "failed" THEN 2
    ELSE IF \/ \E t \in AllTasks : result[t] = "failed"
            \/ \E r \in Repo : ~Valid(plan, r) THEN 1
    ELSE 0

\* What a task has to commit.  Exclusions next to moved pointers are left out:
\* the pointers are then all that is added.
Wanted(t) ==
    LET r == Here(t)
        links == IF plan.nested[r] = {} THEN {} ELSE {f \in Path : Managed(r, f)}
    IN  IF ItemOf(t).include # {} THEN
            ((ItemOf(t).include \cup links) \ ItemOf(t).exclude) \ Unmanaged(r)
        ELSE IF ~Scoped(ItemOf(t)) THEN Path
        ELSE IF plan.nested[r] = {} THEN Path \ ItemOf(t).exclude
        ELSE IF links = {} THEN Path \ (ItemOf(t).exclude \cup Unmanaged(r))
        ELSE {}

\* Exit code 0 means that what the items list is committed as the working tree
\* has it, with the pointers to what the nested repositories committed in this
\* run, unless another program staged over it or the status ran out of time.
ZeroMeansCommitted ==
    pc = "done" /\ ExitCode = 0 =>
        \A t \in Tasks(plan) : Here(t) \notin plan.slow =>
            \A f \in Wanted(t) :
                \/ head[Here(t)][f] = Work(Here(t), f)
                \/ \E k \in DOMAIN log[Here(t)] : f \in log[Here(t)][k].theirs

\* A task reports a commit if and only if it made one, apart from a commit
\* that was killed after it moved the branch; and no wave starts before each
\* task of the waves before it has its audit event, with a before and an after
\* that differ by that task's own commits, though the events of a wave are
\* written when all its tasks are done.
HonestReport ==
    /\ \A t \in AllTasks : thread[t] = "done" =>
           IF result[t] = "committed" THEN Cardinality(Own(t)) = 1
           ELSE Own(t) = {} \/ t \in killed
    /\ \A k \in 1..(wave - 1) : \A t \in waves[k] :
           Len(events[t]) = 2 /\ events[t][2] - events[t][1] = Cardinality(Own(t))

\* The recovery does not remove a lock a running git held when it looked.
LiveLockKept ==
    [][\A t \in AllTasks :
          thread[t] = "remove" /\ thread'[t] = "converge" /\ lock[Here(t)] = "git"
              => late[Here(t)] \/ psFailed]_vars

\* The run ends, also with a lock nobody gives up and two workers that recover.
Ends == <>(pc \in {"done", "failed"})

-----------------------------------------------------------------------------
(* The invariant that the proofs use                                       *)

Places == {"none", "scope", "reset", "add", "commit", "recover", "probe", "diagnose",
           "remove", "converge", "done"}
Entry == [item : 1..MaxItems, paths : SUBSET Path, theirs : SUBSET Path]

TypeOK ==
    /\ plan \in Plan
    /\ waves \in Seq(SUBSET Tasks(plan))
    /\ pc \in {"plan", "wave", "run", "audit", "failed", "done"}
    /\ wave \in 0..Len(waves) /\ todo \subseteq Tasks(plan) /\ active \in Seq(Tasks(plan))
    /\ thread \in [AllTasks -> Places] /\ retried \in [AllTasks -> BOOLEAN]
    /\ result \in [AllTasks -> {"none", "committed", "skipped", "failed"}]
    /\ events \in [AllTasks -> Seq(Nat)]
    /\ head \in [Repo -> [Path -> Nat]] /\ index \in [Repo -> [Path -> Nat]]
    /\ log \in [Repo -> Seq(Entry)]
    /\ lock \in [Repo -> {"free", "git", "dead"}]
    /\ late \in [Repo -> BOOLEAN] /\ old \in [Repo -> BOOLEAN]
    /\ recovery \in {"none", "failed", "succeeded"} /\ owner \in AllTasks \cup {NoTask}
    /\ theirs \in [Repo -> SUBSET Path]
    /\ foreign \in Nat /\ faults \in Nat /\ killed \subseteq AllTasks /\ psFailed \in BOOLEAN

\* What must be done before a task.
Precedes(s, t) ==
    \/ Here(s) = Here(t) /\ s[2] < t[2]
    \/ Here(s) \in plan.nested[Here(t)]
    \/ Here(s) # Here(t) /\ Here(t) \in plan.deps[Here(s)] /\ ~Circular(plan)

\* Every wave needs only earlier ones, and in the end they have every task.
PlanInv ==
    /\ \A j, k \in DOMAIN waves : j # k => waves[j] \cap waves[k] = {}
    /\ \A k \in DOMAIN waves : \A t \in waves[k] : \A s \in Tasks(plan) :
          Precedes(s, t) => \E j \in 1..(k - 1) : s \in waves[j]
    /\ pc # "plan" => Planned = Tasks(plan)

\* Only tasks of the wave being run are under way; what the waves before it
\* started is done and audited, and nothing of those after it has begun.
Live(t) == thread[t] \notin {"none", "done"}
InWave == pc \in {"run", "audit", "failed"}

RunInv ==
    /\ pc = "plan" => wave = 0
    /\ pc = "done" => wave = Len(waves)
    /\ InWave => wave # 0 /\ todo \subseteq waves[wave]
    /\ ~InWave => todo = {}
    /\ pc # "run" => active = <<>>
    /\ pc = "run" /\ WaveWorkers = 1 => Len(active) <= 1
    /\ \A i \in DOMAIN active : active[i] \in waves[wave]
    /\ \A t \in AllTasks : Live(t) => \E i \in DOMAIN active : active[i] = t
    /\ \A t \in AllTasks : thread[t] # "none" => t \in Planned
    /\ \A k \in DOMAIN waves : \A t \in waves[k] :
          /\ k < wave \/ (k = wave /\ ~InWave) => thread[t] = "done" /\ Len(events[t]) = 2
          /\ k > wave => thread[t] = "none"
          /\ k = wave /\ InWave =>
                /\ thread[t] = "none" <=> t \in todo
                /\ t \notin todo => Len(events[t]) \in {1, 2}

\* What a task has committed, what it says of it, and what was written down.
TaskTold(t) ==
    /\ thread[t] # "done" => Own(t) = {}
    /\ thread[t] = "done" =>
          IF result[t] = "committed" THEN Cardinality(Own(t)) = 1
          ELSE Own(t) = {} \/ t \in killed
    /\ Live(t) => Len(events[t]) = 1
    /\ thread[t] # "none" =>
          /\ Len(events[t]) = 1 => Len(log[Here(t)]) - events[t][1] = Cardinality(Own(t))
          /\ Len(events[t]) = 2 => events[t][2] - events[t][1] = Cardinality(Own(t))
Told == \A t \in AllTasks : TaskTold(t)

\* Who recovers is alone, and knows of a living lock that it did not see.
Recovering == {"probe", "diagnose", "remove", "converge"}
Recovers(t) ==
    /\ thread[t] \in Recovering => owner = t
    /\ thread[t] \in {"diagnose", "remove"} /\ lock[Here(t)] = "git" =>
          late[Here(t)] \/ psFailed
RecoveryInv == \A t \in AllTasks : Recovers(t)

\* What the index holds while a task is under way: the last commit, what others
\* staged since the scope check, and what the task may add.
Theirs(r, f) == f \in theirs[r] /\ index[r][f] = 3
Untouched(r, f) == index[r][f] = head[r][f] \/ Theirs(r, f)
Reach(t) == IF ItemOf(t).include = {} THEN Path ELSE Scope(Here(t), ItemOf(t))

StagedBy(t) ==
    LET r == Here(t)
        in == ItemOf(t).include
    IN  /\ thread[t] = "reset" =>
              /\ NeedsPlanStaging(t)
              /\ in # {} => \A f \in Path \ in : Untouched(r, f)
        /\ thread[t] = "add" /\ NeedsPlanStaging(t) => \A f \in Path : Untouched(r, f)
        /\ thread[t] = "commit" =>
              /\ \A f \in Path : Untouched(r, f) \/ (f \in Reach(t) /\ index[r][f] = Work(r, f))
              /\ r \notin plan.slow =>
                    \A f \in Wanted(t) : index[r][f] = Work(r, f) \/ Theirs(r, f)
StageInv == \A t \in AllTasks : StagedBy(t)

\* What a branch holds is of this run, and what a task was asked to commit is
\* there for good.
Logged(r, f) == \E k \in DOMAIN log[r] : f \in log[r][k].theirs
AsWorked(r, f) == head[r][f] = Work(r, f) \/ Logged(r, f)

HeadInv ==
    /\ \A r \in Repo : \A f \in Path :
          /\ log[r] = <<>> => head[r][f] = 0
          /\ head[r][f] = 0 \/ AsWorked(r, f)
    /\ \A t \in Tasks(plan) :
          thread[t] = "done" /\ result[t] # "failed" /\ Here(t) \notin plan.slow =>
              \A f \in Wanted(t) : AsWorked(Here(t), f)

IInv == /\ TypeOK /\ PlanInv /\ RunInv /\ Told /\ RecoveryInv /\ StageInv /\ HeadInv
        /\ ListedScope
=============================================================================
