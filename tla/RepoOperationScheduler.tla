----------------------- MODULE RepoOperationScheduler -----------------------
(***************************************************************************)
(* RunRepoOperationScheduler (kano_git_core/workspace): one operation      *)
(* (push, sync, status, ...) applied to every repository of a workspace.   *)
(*                                                                         *)
(* In MutatingDependencyWaves mode the repositories are layered into waves *)
(* with Kahn's algorithm, a wave runs after the one before it has been     *)
(* joined, and a repository below a failed one is reported blocked instead *)
(* of run.  In ReadOnlyParallel mode there is one wave with everything.    *)
(* A wave is a thread per repository; LockCoordinator admits at most jobs  *)
(* of them at a time and at most one per lock key (the git common          *)
(* directory, so that two worktrees of one repository never run together). *)
(*                                                                         *)
(* Repositories are numbered in path order, the order every sort of the    *)
(* code uses; 0 is a dependency path outside the workspace.                *)
(***************************************************************************)
EXTENDS Integers, Sequences, FiniteSets

CONSTANTS
    N,        \* number of repositories in the call
    Inputs    \* the calls: dependencies, lock keys and options

Repo == 1..N
NoRepo == 0
Cycle == N + 1       \* the blockedBy text "cycle"

Succeeded == "Succeeded"
Failed    == "Failed"
Skipped   == "Skipped"
Blocked   == "Blocked"
Pending   == "Pending"
Status    == {Succeeded, Failed, Skipped, Blocked, Pending}

Modes == {"ReadOnlyParallel", "MutatingDependencyWaves"}

(***************************************************************************)
(* A call.  deps may name the repository itself and paths outside the      *)
(* workspace.  A lock key is a number: 0 is the empty string, r the path   *)
(* of repository r, a number above N any other key.  commonDir is what git *)
(* rev-parse --git-common-dir gives, 0 when the command fails.             *)
(***************************************************************************)
Call == [deps            : [Repo -> SUBSET (0..N)],
         explicitLockKey : [Repo -> Nat],
         commonDir       : [Repo -> Nat],
         resolveGitCommonDirLocks : BOOLEAN,
         jobs            : Int,
         mode            : Modes]

ASSUME NAssumption == N \in Nat
ASSUME InputsAssumption == Inputs \subseteq Call

VARIABLES
    call,            \* the arguments, fixed by the caller
    pc,              \* where the calling thread is
    ready, indegree, waves, cycleNodes,      \* BuildRepoOperationWaves
    phase,           \* index of the wave being run
    thread,          \* a worker thread per repository of the wave
    activeLocks, activeCount,                \* LockCoordinator
    outcome,         \* what the worker returned, local to its thread
    status, blame, reported,                 \* the results pushed so far
    failedOrBlocked, blockedBy               \* carried from wave to wave

planVars  == <<ready, indegree, waves, cycleNodes>>
lockVars  == <<activeLocks, activeCount>>
resultVars == <<status, blame, reported>>
blockVars == <<failedOrBlocked, blockedBy>>
vars == <<call, pc, planVars, phase, thread, lockVars, outcome, resultVars,
          blockVars>>

-----------------------------------------------------------------------------
StatusSucceeded(s) == s \in {Succeeded, Skipped}

\* What the graph keeps of a dependency list: known paths, not itself, once.
Edges(r) == (call.deps[r] \cap Repo) \ {r}

\* Mutant: the worktree path is the key, not the directory it shares.
LockKeyIsWorktree(r) == r

ResolveRepoOperationLockKey(r) ==
    IF call.commonDir[r] # 0 THEN call.commonDir[r] ELSE r

\* No caller in the repository sets lockKeyResolver.
ResolveLockKey(r) ==
    IF call.explicitLockKey[r] # 0 THEN call.explicitLockKey[r]
    ELSE IF call.resolveGitCommonDirLocks THEN ResolveRepoOperationLockKey(r)
    ELSE r

Mutating == call.mode = "MutatingDependencyWaves"
Parallel == call.jobs > 1
Wave == waves[phase]

Init ==
    /\ call \in Inputs
    /\ pc = "plan"
    /\ indegree = [r \in Repo |-> Cardinality(Edges(r))]
    /\ ready = {r \in Repo : indegree[r] = 0}
    /\ waves = <<>>
    /\ cycleNodes = {}
    /\ phase = 0
    /\ thread = [r \in Repo |-> "none"]
    /\ activeLocks = {}
    /\ activeCount = 0
    /\ outcome = [r \in Repo |-> Pending]
    /\ status = [r \in Repo |-> Pending]
    /\ blame = [r \in Repo |-> NoRepo]
    /\ reported = [r \in Repo |-> 0]
    /\ failedOrBlocked = {}
    /\ blockedBy = [r \in Repo |-> NoRepo]

-----------------------------------------------------------------------------
(* BuildRepoOperationWaves: one iteration of its loop, and what follows it *)

Decrement(o) == Cardinality(ready \cap Edges(o))

PlanWave ==
    /\ pc = "plan" /\ Mutating /\ ready # {}
    /\ waves' = Append(waves, ready)
    /\ indegree' = [o \in Repo |-> indegree[o] - Decrement(o)]
    /\ ready' = {o \in Repo : indegree[o] > 0 /\ indegree'[o] = 0}
    /\ UNCHANGED <<call, pc, cycleNodes, phase, thread, lockVars, outcome,
                   resultVars, blockVars>>

Stuck == {r \in Repo : indegree[r] > 0}

PlanDone ==
    /\ pc = "plan" /\ Mutating /\ ready = {}
    /\ cycleNodes' = Stuck
    /\ pc' = "next"
    /\ UNCHANGED <<call, ready, indegree, waves, phase, thread, lockVars,
                   outcome, resultVars, blockVars>>

\* ReadOnlyParallel: a single wave, even of no repositories.
PlanReadOnly ==
    /\ pc = "plan" /\ ~Mutating
    /\ waves' = <<Repo>>
    /\ pc' = "next"
    /\ UNCHANGED <<call, ready, indegree, cycleNodes, phase, thread, lockVars,
                   outcome, resultVars, blockVars>>

-----------------------------------------------------------------------------
(* RunWave *)

\* A result vector entry for every repository of S, with the given values.
Push(S, st, bl) ==
    /\ status' = [r \in Repo |-> IF r \in S THEN st[r] ELSE status[r]]
    /\ blame' = [r \in Repo |-> IF r \in S THEN bl[r] ELSE blame[r]]
    /\ reported' = [r \in Repo |-> IF r \in S THEN reported[r] + 1
                                   ELSE reported[r]]

AllBlocked == [r \in Repo |-> Blocked]

(***************************************************************************)
(* Entering RunWave: repositories already marked are reported blocked, the *)
(* others get a thread (jobs > 1) or are put in the queue of the serial    *)
(* loop.  Spawning all the threads in one step loses nothing: one that is  *)
(* not spawned yet behaves as one that has not entered Acquire.            *)
(***************************************************************************)
StartWave ==
    /\ pc = "next" /\ phase < Len(waves)
    /\ phase' = phase + 1
    /\ LET w == waves[phase + 1] IN
       /\ thread' = [r \in Repo |-> IF r \in w \ failedOrBlocked
                                    THEN "spawned" ELSE thread[r]]
       /\ Push(w \cap failedOrBlocked, AllBlocked, blockedBy)
    /\ pc' = "join"
    /\ UNCHANGED <<call, planVars, lockVars, outcome, blockVars>>

\* LockCoordinator::Acquire, when its wait condition holds.
Acquire(r) ==
    /\ Parallel /\ thread[r] = "spawned"
    /\ activeCount < call.jobs
    /\ ResolveLockKey(r) \notin activeLocks
    /\ activeCount' = activeCount + 1
    /\ activeLocks' = activeLocks \cup {ResolveLockKey(r)}
    /\ thread' = [thread EXCEPT ![r] = "running"]
    /\ UNCHANGED <<call, pc, planVars, phase, outcome, resultVars, blockVars>>

\* jobs <= 1: the loop over the wave, in path order, without the coordinator.
BeginSerial(r) ==
    /\ ~Parallel /\ thread[r] = "spawned"
    /\ \A q \in Repo : q < r => thread[q] \in {"none", "finished"}
    /\ thread' = [thread EXCEPT ![r] = "running"]
    /\ UNCHANGED <<call, pc, planVars, phase, lockVars, outcome, resultVars,
                   blockVars>>

(***************************************************************************)
(* ExecuteWorker and ApplyWorkerResult: the worker returns one of the four *)
(* final statuses; an exception is turned into Failed.                     *)
(***************************************************************************)
ExecuteWorker(r, s) ==
    /\ thread[r] = "running"
    /\ outcome' = [outcome EXCEPT ![r] = s]
    /\ thread' = [thread EXCEPT ![r] = "returned"]
    /\ UNCHANGED <<call, pc, planVars, phase, lockVars, resultVars, blockVars>>

\* Mutant: a failed worker is queued again, without a limit.
ReleaseRequeues(r) ==
    /\ Parallel /\ thread[r] = "returned"
    /\ activeLocks' = activeLocks \ {ResolveLockKey(r)}
    /\ activeCount' = activeCount - 1
    /\ thread' = [thread EXCEPT ![r] = IF outcome[r] = Failed THEN "spawned"
                                       ELSE "released"]
    /\ UNCHANGED <<call, pc, planVars, phase, outcome, resultVars, blockVars>>

\* LockCoordinator::Release, after the worker has returned.
Release(r) ==
    /\ Parallel /\ thread[r] = "returned"
    /\ activeLocks' = activeLocks \ {ResolveLockKey(r)}
    /\ activeCount' = activeCount - 1
    /\ thread' = [thread EXCEPT ![r] = "released"]
    /\ UNCHANGED <<call, pc, planVars, phase, outcome, resultVars, blockVars>>

\* results.push_back under resultsMutex; the thread then ends.
PushResult(r) ==
    /\ thread[r] = IF Parallel THEN "released" ELSE "returned"
    /\ Push({r}, outcome, [q \in Repo |-> NoRepo])
    /\ thread' = [thread EXCEPT ![r] = "finished"]
    /\ UNCHANGED <<call, pc, planVars, phase, lockVars, outcome, blockVars>>

-----------------------------------------------------------------------------
(* RunRepoOperationScheduler: after the wave, and at the end *)

Least(S) == CHOOSE x \in S : \A y \in S : x <= y

\* Mutants: only failures count, so what is blocked does not block others; or
\* everything that is not Succeeded counts, skips included.
BadIfFailed == {r \in Wave : status[r] = Failed}
BadIfNotSucceeded == {r \in Wave : status[r] # Succeeded}

\* The results of the wave that are not successes.
Bad == {r \in Wave : ~StatusSucceeded(status[r])}

\* blockedBy.emplace(dependentId, result.repoId) over the sorted results.
EmplaceBlame(o) ==
    IF blockedBy[o] = NoRepo /\ Edges(o) \cap Bad # {}
    THEN Least(Edges(o) \cap Bad) ELSE blockedBy[o]

\* Every worker thread of the wave has been joined.
Joined == \A r \in Wave : thread[r] \in {"none", "finished"}

(***************************************************************************)
(* Join and the loop over the sorted phase results.  blockedBy.emplace     *)
(* keeps an earlier entry, so a dependent blames the first bad result in   *)
(* path order of the first wave that has one.                              *)
(***************************************************************************)
HarvestWave ==
    /\ pc = "join"
    /\ Joined
    /\ failedOrBlocked' = failedOrBlocked \cup Bad
                             \cup {o \in Repo : Edges(o) \cap Bad # {}}
    /\ blockedBy' = [o \in Repo |-> EmplaceBlame(o)]
    /\ pc' = "next"
    /\ UNCHANGED <<call, planVars, phase, thread, lockVars, outcome,
                   resultVars>>

\* After the last wave: the cycle nodes, then BuildAggregate.
ReportCycle ==
    /\ pc = "next" /\ phase = Len(waves)
    /\ Push(cycleNodes, AllBlocked, [r \in Repo |-> Cycle])
    /\ pc' = "done"
    /\ UNCHANGED <<call, planVars, phase, thread, lockVars, outcome,
                   blockVars>>

Returned == pc = "done" /\ UNCHANGED vars

\* aggregate.hasFailure of BuildAggregate.
HasFailure == \E r \in Repo : /\ reported[r] > 0
                              /\ status[r] \in {Failed, Blocked, Pending}

-----------------------------------------------------------------------------
Main == PlanWave \/ PlanDone \/ PlanReadOnly \/ StartWave \/ HarvestWave
            \/ ReportCycle

WorkerStatus == {Succeeded, Failed, Skipped, Blocked}

Worker(r) ==
    \/ Acquire(r)
    \/ BeginSerial(r)
    \/ \E s \in WorkerStatus : ExecuteWorker(r, s)
    \/ Release(r)
    \/ PushResult(r)

Next == Main \/ (\E r \in Repo : Worker(r)) \/ Returned

Spec == Init /\ [][Next]_vars

(***************************************************************************)
(* The calling thread and every worker thread are scheduled, and every     *)
(* worker returns.  Weak fairness of Acquire is what notify_all gives: a   *)
(* waiter whose condition stays true is woken and goes through.            *)
(***************************************************************************)
FairSpec == Spec /\ WF_vars(Main) /\ \A r \in Repo : WF_vars(Worker(r))

-----------------------------------------------------------------------------
(* Properties *)

ThreadState == {"none", "spawned", "running", "returned", "released",
                "finished"}

\* Every variable stays in its type; indegree counters never go negative.
TypeOK ==
    /\ call \in Inputs
    /\ pc \in {"plan", "next", "join", "done"}
    /\ ready \subseteq Repo
    /\ indegree \in [Repo -> Nat]
    /\ waves \in Seq(SUBSET Repo)
    /\ cycleNodes \subseteq Repo
    /\ phase \in 0..Len(waves)
    /\ thread \in [Repo -> ThreadState]
    /\ activeLocks \subseteq Nat
    /\ activeCount \in Nat
    /\ outcome \in [Repo -> Status]
    /\ status \in [Repo -> Status]
    /\ blame \in [Repo -> 0..(N + 1)]
    /\ reported \in [Repo -> Nat]
    /\ failedOrBlocked \subseteq Repo
    /\ blockedBy \in [Repo -> 0..N]

Running == {r \in Repo : thread[r] = "running"}

\* LockCoordinator and the serial loop: two repositories whose lock key is
\* one git common directory (worktrees of one repository) never run their
\* workers at the same time.
CommonDirExclusion ==
    \A r, q \in Running :
        ( /\ call.resolveGitCommonDirLocks
          /\ call.explicitLockKey[r] = 0 /\ call.explicitLockKey[q] = 0
          /\ call.commonDir[r] # 0
          /\ call.commonDir[r] = call.commonDir[q] ) => r = q

\* Acquire/Release: no more workers run than jobs allows (one at least), and
\* the slots are given back: none is held once the wave has been joined.
JobsBound ==
    /\ Cardinality(Running) <= IF Parallel THEN call.jobs ELSE 1
    /\ pc \in {"next", "done"} => activeCount = 0 /\ activeLocks = {}

\* The purpose of the waves: a mutating worker runs only when every known
\* dependency of its repository has reported success.
DependencyOrder ==
    \A r \in Running : Mutating =>
        \A d \in Edges(r) : reported[d] = 1 /\ StatusSucceeded(status[d])

\* The aggregate has exactly one result for every repository of the call,
\* whatever the graph (cycles and what hangs below them included), and
\* none of them is still pending.
ReportComplete ==
    pc = "done" => \A r \in Repo : reported[r] = 1 /\ status[r] # Pending

(***************************************************************************)
(* Repositories that no order can reach: the union of the sets all of      *)
(* whose members wait for a member.  This is the reference for cycleNodes. *)
(***************************************************************************)
Unreachable == UNION {S \in SUBSET Repo : \A r \in S : Edges(r) \cap S # {}}

\* RunRepoOperationScheduler's verdicts, against the graph: "cycle" is given
\* to exactly the unreachable repositories of a mutating call, any other
\* blame names a dependency that did not succeed, and a reachable repository
\* with such a dependency never got its worker run. And there is no silent failure:
\* hasFailure of BuildAggregate is false only when every worker ran and succeeded or skipped.
BlameIsRight ==
    pc = "done" => \A r \in Repo :
        /\ ~HasFailure => StatusSucceeded(outcome[r])
        /\ blame[r] = Cycle <=> Mutating /\ r \in Unreachable
        /\ blame[r] \in Repo => /\ status[r] = Blocked
                                /\ blame[r] \in Edges(r)
                                /\ ~StatusSucceeded(status[blame[r]])
        /\ Mutating /\ (\E d \in Edges(r) : ~StatusSucceeded(status[d]))
              => blame[r] # NoRepo /\ outcome[r] = Pending
        /\ ~Mutating => blame[r] = NoRepo

\* Waves do not overlap: when RunWave returns no thread it started is still
\* alive, so none can push into the results of a later wave; and a result
\* once pushed is never replaced.
WavesDoNotOverlap ==
    [][ /\ pc = "join" /\ pc' # "join" =>
              \A r \in Repo : thread[r] \in {"none", "finished"}
        /\ \A r \in Repo : reported[r] > 0 =>
              status'[r] = status[r] /\ blame'[r] = blame[r] ]_vars

\* Provided workers return, the call returns: no thread waits for ever in
\* Acquire and no wave is waited for that was never started.
Termination == <>(pc = "done")

-----------------------------------------------------------------------------
(* The inductive invariant behind the safety properties *)

Earlier(k) == {r \in Repo : \E j \in 1..k : r \in waves[j]}
Idle(r) == thread[r] \in {"none", "finished"}
Holding == {r \in Repo : thread[r] \in {"running", "returned"}}

\* The planner: a wave needs only earlier waves, waves are disjoint, indegree
\* counts the dependencies not planned yet.
PlanInv ==
    /\ pc = "plan" => phase = 0 /\ cycleNodes = {}
    /\ pc # "plan" => cycleNodes = Repo \ Earlier(Len(waves))
    /\ \A j, k \in 1..Len(waves) : j # k => waves[j] \cap waves[k] = {}
    /\ ~Mutating /\ pc = "plan" => waves = <<>>
    /\ Mutating =>
         /\ \A k \in 1..Len(waves) : \A r \in waves[k] :
                Edges(r) \subseteq Earlier(k - 1)
         /\ \A r \in Repo :
                indegree[r] = Cardinality(Edges(r) \ Earlier(Len(waves)))
         /\ \A r \in Earlier(Len(waves)) : indegree[r] = 0
         /\ pc = "plan" =>
                ready = {r \in Repo : indegree[r] = 0} \ Earlier(Len(waves))

\* A live thread belongs to the wave being joined and is not blocked.
ThreadInv ==
    /\ pc # "join" => \A r \in Repo : Idle(r)
    /\ pc = "join" => /\ phase > 0
                      /\ \A r \in Repo : ~Idle(r) =>
                             r \in Wave /\ r \notin failedOrBlocked

\* The coordinator holds exactly the keys and slots of the threads between
\* Acquire and Release; the serial loop has passed every
\* repository before the one in hand.
LockInv ==
    /\ Parallel => /\ activeLocks = {ResolveLockKey(r) : r \in Holding}
                   /\ activeCount = Cardinality(Holding)
                   /\ activeCount <= call.jobs
                   /\ \A r, q \in Holding :
                          ResolveLockKey(r) = ResolveLockKey(q) => r = q
    /\ ~Parallel => /\ activeLocks = {} /\ activeCount = 0
                    /\ \A r \in Holding : \A q \in Repo : q < r => Idle(q)

\* Results: one for each repository of the waves entered whose thread is not
\* alive; a bad result of a harvested wave has marked its dependents.
ReportInv ==
    /\ pc # "done" => \A r \in Repo :
           reported[r] = IF r \in Earlier(phase) /\ Idle(r) THEN 1 ELSE 0
    /\ pc = "done" => \A r \in Repo : reported[r] = 1
    /\ \A r \in Repo : reported[r] > 0 => status[r] # Pending
    /\ \A r \in Repo : thread[r] \in {"returned", "released"} =>
           outcome[r] # Pending
    /\ pc # "done" => \A o \in Repo : \A d \in Edges(o) :
           /\ d \in Earlier(IF pc = "join" THEN phase - 1 ELSE phase)
           /\ ~StatusSucceeded(status[d])
           => o \in failedOrBlocked

\* The conjunction that every step of the scheduler preserves.
IInv == TypeOK /\ PlanInv /\ ThreadInv /\ LockInv /\ ReportInv

\* d did not succeed, and r needs it.
Fails(d, r) == d \in Edges(r) /\ reported[d] > 0 /\ ~StatusSucceeded(status[d])

\* What is planned is reachable; what is left over waits for one another.
ReachInv == Mutating =>
    /\ Earlier(Len(waves)) \cap Unreachable = {}
    /\ pc # "plan" => \A r \in cycleNodes : Edges(r) \cap cycleNodes # {}

\* Nothing happens to a repository before its wave; the one wave of a call that
\* does not mutate starts with nothing marked.
EarlyInv ==
    /\ phase = 0 => failedOrBlocked = {}
    /\ ~Mutating /\ pc # "plan" => waves = <<Repo>>
    /\ \A r \in Repo :
         /\ r \notin Earlier(phase) => thread[r] = "none"
         /\ thread[r] \in {"none", "spawned", "running"} => outcome[r] = Pending

\* A result is what the worker returned, or a blame: "cycle" for the repositories
\* that were not planned, a dependency that failed for the others.
VerdictInv == \A r \in Repo :
    /\ reported[r] > 0 =>
         \/ blame[r] = NoRepo /\ status[r] = outcome[r]
         \/ /\ blame[r] = Cycle \/ Fails(blame[r], r)
            /\ status[r] = Blocked /\ outcome[r] = Pending
    /\ blame[r] = Cycle <=> pc = "done" /\ r \in cycleNodes
    /\ ~Mutating => blame[r] = NoRepo

\* blockedBy has a failed dependency for every marked repository still to come;
\* a worker that was started had none.
BlockedByInv == \A r \in Repo :
    /\ blockedBy[r] # NoRepo => Fails(blockedBy[r], r)
    /\ pc # "done" /\ r \in failedOrBlocked \ Earlier(phase) => blockedBy[r] # NoRepo
    /\ Mutating /\ (~Idle(r) \/ outcome[r] # Pending) =>
         \A d \in Edges(r) : reported[d] > 0 /\ StatusSucceeded(status[d])

\* What the verdicts need besides IInv; with it, it is inductive.
BlameInv == ReachInv /\ EarlyInv /\ VerdictInv /\ BlockedByInv

=============================================================================
