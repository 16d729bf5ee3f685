------------------------------ MODULE Converge ------------------------------
(***************************************************************************)
(* kog converge: repository by repository, commit what is dirty, sync what *)
(* is behind and push what is ahead, the contained repositories before the *)
(* ones whose gitlinks pin them, in phases that a state file lets a later  *)
(* call resume, and again until nothing is left to do.                     *)
(*                                                                         *)
(* The repositories are numbered in the order of their ids, in which a     *)
(* repository comes before those it contains and the workspace root is the *)
(* first.  Every commit has a number of its own.  The command reads the    *)
(* repositories when it loads a status snapshot, and from then on acts on  *)
(* the snapshot and the plan made of it.                                   *)
(***************************************************************************)
EXTENDS ConvergePlan

CONSTANTS
    Starts,               \* the workspaces the command is called on
    kMaxConvergePasses,
    Mishaps               \* bound on the git commands that fail, on what others
                          \* do in the repositories meanwhile, and on the times
                          \* the process is killed, together

ASSUME StartsAssumption ==
    \A w \in Starts : Consistent(w.repo, w.remote, w.fresh, {})
ASSUME BoundsAssumption == kMaxConvergePasses \in Nat \ {0} /\ Mishaps \in Nat

Phases == <<"status-preflight-plan", "commit-local-changes-if-needed", "sync-before-push",
            "push-nested-bottom-up", "status-delta-after-sync",
            "commit-pointer-updates-if-needed", "sync-converge-dependent-repos",
            "push-parents-bottom-up", "final-status-summary">>
CommitPhases == {2, 6}
SyncPhases == {3, 7}
PushPhases == {4, 8}

VARIABLES
    repo,                 \* [Repos -> what git knows of the repository here]
    remote,               \* [Repos -> its branch on the remote]
    fresh,                \* the number of the next commit
    place, exit,          \* exit: the exit code of the last call, or -1
    snapshot, plan,       \* the last status snapshot, and the plan made of it
    state,                \* WorkflowState
    file,                 \* converge-state.json, or NoFile
    todo,                 \* in a phase: the repositories left
    summary,              \* PhaseSummary
    pass, again,          \* passIndex, runAnotherPass with its snapshot
    left,                 \* what is left of Mishaps
    calm,                 \* ghost: nothing went wrong since the call, and
                          \* nobody touched a repository since the last look
    rewritten             \* ghost: the commits that a rebase has replaced

gitVars == <<repo, remote, fresh, rewritten>>
phaseVars == <<todo, summary>>
convergeVars == <<repo, remote, fresh, place, exit, snapshot, plan, state, file, todo,
                  summary, pass, again, left, calm, rewritten>>

-----------------------------------------------------------------------------
NoFile == [currentPhase |-> 0]
Summary == [succeeded |-> {}, failed |-> {}, blocked |-> {}, skipped |-> {}]

\* ResetStateForPlan.
ResetState(look, p) ==
    [currentPhase |-> 1, completed |-> {},
     succeeded |-> {}, failed |-> {}, blocked |-> {},
     plannedSync |-> p.sync, plannedPush |-> p.push, baselines |-> Baselines(look),
     results |-> [c \in CommitPhases |-> {}]]

ConvergeInit ==
    \E w \in Starts :
        /\ repo = w.repo /\ remote = w.remote /\ fresh = w.fresh
        /\ place = "idle" /\ exit = -1
        /\ snapshot = Snapshot(w.repo) /\ plan = BuildPlan(snapshot)
        /\ state = ResetState(snapshot, plan) /\ file = NoFile
        /\ todo = {} /\ summary = Summary
        /\ pass = 0 /\ again = FALSE
        /\ left = Mishaps /\ rewritten = {}
        /\ calm = [call |-> TRUE, look |-> TRUE]

Mishap == left > 0 /\ left' = left - 1
Fail == Mishap /\ calm' = [calm EXCEPT !.call = FALSE]
Fine == UNCHANGED <<left, calm>>

End(code) == place' = "idle" /\ exit' = code

-----------------------------------------------------------------------------
(* The call                                                                *)

\* A fresh call: the snapshot, the plan, and a state file written over any
\* older one.
Begin ==
    /\ place = "idle" /\ exit # 0
    /\ snapshot' = Snapshot(repo) /\ plan' = BuildPlan(snapshot')
    /\ state' = ResetState(snapshot', plan') /\ file' = state'
    /\ pass' = 0 /\ again' = FALSE
    /\ place' = "phase" /\ exit' = -1
    /\ calm' = [call |-> TRUE, look |-> TRUE]
    /\ UNCHANGED <<gitVars, phaseVars, left>>

(* A resumed call plans anew.  A repository that had succeeded and has     *)
(* changed since must appear in the new plan, and a saved sync that is     *)
(* still due takes the call back from the pushes to the first sync.        *)
ChangedUnplanned(look, p) ==
    \E r \in file.succeeded : /\ Baselines(look)[r] # file.baselines[r]
                              /\ ~PlanReferences(p, r)

Rewound(look) ==
    IF RestoredSync(look, file.plannedSync) # {} /\ file.currentPhase >= 4
    THEN [file EXCEPT !.completed = @ \ {3}, !.currentPhase = 3]
    ELSE file

Resume ==
    /\ place = "idle" /\ file # NoFile
    /\ LET look == Snapshot(repo)
           p == Restored(BuildPlan(look), look, file.plannedSync, file.plannedPush) IN
       IF ChangedUnplanned(look, p)
       THEN /\ End(1) /\ calm' = [calm EXCEPT !.call = FALSE]
            /\ UNCHANGED <<snapshot, plan, state, file, pass, again>>
       ELSE /\ snapshot' = look /\ plan' = p
            /\ state' = Rewound(look) /\ file' = state'
            /\ pass' = 0 /\ again' = FALSE
            /\ place' = "phase" /\ exit' = -1
            \* A call resumed after the last look looks no more.
            /\ calm' = [call |-> FALSE, look |-> 9 \notin state'.completed]
    /\ UNCHANGED <<gitVars, phaseVars, left>>

-----------------------------------------------------------------------------
(* A phase                                                                 *)

Work(phase, p) ==
    IF phase \in CommitPhases THEN p.commit
    ELSE IF phase \in SyncPhases THEN p.sync
    ELSE IF phase = 4 THEN {r \in p.push : Nested(r)}
    ELSE IF phase = 8 THEN p.push
    ELSE {}

Next1 == Min({i \in state.currentPhase..9 : i \notin state.completed})

\* The phase is entered in the state file before anything is done in it.
BeginPhase ==
    /\ place = "phase" /\ (state.currentPhase..9) \ state.completed # {}
    /\ state' = [state EXCEPT !.currentPhase = Next1] /\ file' = state'
    /\ todo' = Work(Next1, plan)
    /\ summary' = [Summary EXCEPT !.blocked = IF Next1 = 1 THEN plan.blocked ELSE {}]
    /\ place' = "work"
    /\ UNCHANGED <<gitVars, exit, snapshot, plan, pass, again, left, calm>>

Phase == state.currentPhase

\* Commits and syncs go by id, pushes by wave and then by id.
Turn == IF Phase \in PushPhases
        THEN Min({r \in todo : \A q \in todo : Wave(r) <= Wave(q)})
        ELSE Min(todo)

Took(field) ==
    /\ todo' = todo \ {Turn}
    /\ summary' = [summary EXCEPT ![field] = @ \cup {Turn}]

phaseUnchanged == <<place, exit, snapshot, plan, state, file, pass, again>>

\* Mutant: a blocked or failed repository holds up itself only.
MutationBlockedAlone == plan.blocked \cup state.failed \cup state.blocked

\* preflightMutationBlocked and mutationBlocked: this repository, or one below
\* it, is in the way since an earlier phase; or has failed in this one.
MutationBlocked == UpClosure(plan.blocked \cup state.failed \cup state.blocked)
FailedBelow == UpClosure(summary.failed)

\* Done by an earlier call, or to be synced after the pushes.
NotNow ==
    \/ Phase \in CommitPhases /\ Turn \in state.results[Phase]
    \/ Phase = 3 /\ Descendants(Turn) \cap plan.push # {}

\* The pushes report a parent as blocked by its child's failure.
Skip ==
    /\ place = "work" /\ todo # {}
    /\ Turn \in MutationBlocked \cup FailedBelow \/ NotNow
    /\ Took(IF Phase \in PushPhases /\ Turn \notin MutationBlocked THEN "blocked" ELSE "skipped")
    /\ Fine
    /\ UNCHANGED <<gitVars, phaseUnchanged>>

Ready == place = "work" /\ todo # {} /\ Turn \notin MutationBlocked \cup FailedBelow /\ ~NotNow

\* git add -A and git commit, gitlinks included.
CommitRepo ==
    /\ Ready /\ Phase \in CommitPhases
    /\ \/ /\ repo' = [repo EXCEPT ![Turn] = Committed(repo, Turn, fresh)]
          /\ fresh' = IF repo'[Turn].head = fresh THEN fresh + 1 ELSE fresh
          /\ Took("succeeded") /\ Fine
       \/ /\ Fail
          /\ Took("failed") /\ UNCHANGED <<repo, fresh>>
    /\ UNCHANGED <<remote, rewritten, phaseUnchanged>>

\* kog sync origin-latest of one repository: fetch, and rebase what is ahead.
Sync ==
    /\ Ready /\ Phase \in SyncPhases
    /\ \/ /\ \E pins \in RebasedPins(repo[Turn], remote[Turn]) :
                repo' = [repo EXCEPT ![Turn] = Rebased(@, remote[Turn], pins, fresh)]
          /\ fresh' = IF repo'[Turn].head = fresh THEN fresh + 1 ELSE fresh
          /\ rewritten' = rewritten \cup (repo[Turn].unpub \ repo'[Turn].unpub)
          /\ Took("succeeded") /\ Fine
       \/ /\ Fail
          /\ Took("failed") /\ UNCHANGED <<repo, fresh, rewritten>>
       \/ /\ Own(repo[Turn], remote[Turn]) # {} /\ Contested(repo[Turn], remote[Turn]) # {}
          /\ calm' = [calm EXCEPT !.call = FALSE] /\ UNCHANGED left
          /\ Took("failed") /\ UNCHANGED <<repo, fresh, rewritten>>
    /\ UNCHANGED <<remote, phaseUnchanged>>

RemoteAfter(r) == [remote EXCEPT ![r] = Published(@, repo[r])]

(* kog push of one repository, without a sync.  A push that fails is asked *)
(* of the remote: it counts as pushed when the remote branch is the local  *)
(* HEAD.  When the answer is lost too it counts as failed, although the    *)
(* remote may have it; the remote-tracking branch knows nothing of it in   *)
(* both cases.  A push that is withheld is skipped, which is no failure.   *)
PushNothing == repo[Turn].attached /\ repo[Turn].unpub = {}
PushRefused ==
    \/ ~repo[Turn].attached
    \/ ~repo[Turn].withheld /\ Rejected(repo[Turn], remote[Turn])
PushAccepted == ~PushNothing /\ ~PushRefused /\ ~repo[Turn].withheld

Push ==
    /\ Ready /\ Phase \in PushPhases
    /\ \/ /\ PushNothing \/ repo[Turn].withheld
          /\ Took("skipped") /\ Fine /\ UNCHANGED <<repo, remote>>
       \/ /\ ~PushNothing /\ PushRefused
          /\ Took("failed")
          /\ calm' = [calm EXCEPT !.call = FALSE] /\ UNCHANGED <<repo, remote, left>>
       \/ /\ PushAccepted
          /\ remote' = RemoteAfter(Turn)
          /\ repo' = [repo EXCEPT ![Turn] = Tracked(@)]
          /\ Took("succeeded") /\ Fine
       \/ /\ PushAccepted /\ Fail
          /\ remote' \in {remote, RemoteAfter(Turn)}
          /\ \/ Took("failed")
             \/ remote'[Turn].tip = repo[Turn].head /\ Took("succeeded")
          /\ UNCHANGED repo
    /\ UNCHANGED <<fresh, rewritten, phaseUnchanged>>

\* status-delta-after-sync: the snapshot and the plan of the later phases.
Delta ==
    /\ place = "work" /\ Phase = 5 /\ summary = Summary
    /\ \/ /\ snapshot' = Snapshot(repo) /\ plan' = BuildPlan(snapshot')
          /\ state' = [state EXCEPT !.plannedSync = plan'.sync, !.plannedPush = plan'.push,
                                    !.baselines = Baselines(snapshot')]
          /\ summary' = [Summary EXCEPT !.succeeded = {Root}, !.blocked = plan'.blocked]
          /\ Fine
       \/ /\ Fail
          /\ summary' = [Summary EXCEPT !.failed = {Root}]
          /\ UNCHANGED <<snapshot, plan, state>>
    /\ UNCHANGED <<gitVars, place, exit, file, todo, pass, again>>

\* final-status-summary: look again.
Final ==
    /\ place = "work" /\ Phase = 9 /\ summary = Summary
    /\ \/ /\ snapshot' = Snapshot(repo) /\ plan' = BuildPlan(snapshot')
          /\ again' = (plan'.blocked = {} /\ Runnable(plan'))
          /\ state' = IF plan'.blocked = {} /\ ~Runnable(plan')
                      THEN [state EXCEPT !.failed = {}, !.blocked = {}] ELSE state
          /\ summary' = [Summary EXCEPT !.blocked = plan'.blocked,
                                        !.succeeded = IF plan'.blocked = {} THEN {Root} ELSE {}]
          /\ calm' = [calm EXCEPT !.look = TRUE] /\ UNCHANGED left
       \/ /\ Fail
          /\ summary' = [Summary EXCEPT !.failed = {Root}]
          /\ UNCHANGED <<snapshot, plan, state, again>>
    /\ UNCHANGED <<gitVars, place, exit, file, todo, pass>>

-----------------------------------------------------------------------------
(* After a phase                                                           *)

Looked == Phase \in {5, 9} => summary # Summary

\* Mutant: the phase is not marked as completed.
RecordWithoutPhase ==
    /\ place = "work" /\ todo = {} /\ Looked
    /\ state' = [state EXCEPT !.succeeded = @ \cup summary.succeeded,
                              !.failed = (@ \ summary.succeeded) \cup summary.failed,
                              !.blocked = (@ \ summary.succeeded) \cup summary.blocked]
    /\ file' = state' /\ place' = "decide"
    /\ UNCHANGED <<gitVars, phaseVars, exit, snapshot, plan, pass, again, left, calm>>

\* RecordPhaseState and the first of the two writes: the phase is completed.
Record ==
    /\ place = "work" /\ todo = {} /\ Looked
    /\ state' = [state EXCEPT
          !.completed = @ \cup {Phase},
          !.succeeded = @ \cup summary.succeeded,
          !.failed = (@ \ summary.succeeded) \cup summary.failed,
          !.blocked = (@ \ summary.succeeded) \cup summary.blocked,
          !.results = IF Phase \in CommitPhases
                      THEN [@ EXCEPT ![Phase] = summary.succeeded \cup summary.skipped
                                                \cup plan.unchanged] ELSE @]
    /\ file' = state'
    /\ place' = "decide"
    /\ UNCHANGED <<gitVars, phaseVars, exit, snapshot, plan, pass, again, left, calm>>

Trouble == summary.failed \cup summary.blocked

\* The others go on when the trouble is not the root's and the plan has work
\* outside what it holds up.
CanContinue ==
    /\ Phase # 9 /\ Root \notin Trouble
    /\ (plan.sync \cup plan.commit \cup plan.push) \ UpClosure(state.failed \cup state.blocked) # {}

Decide ==
    /\ place = "decide"
    /\ IF Trouble = {} \/ CanContinue
       THEN place' = "phase" /\ UNCHANGED <<exit, state, file>>
       ELSE /\ state' = [state EXCEPT !.completed = @ \ {Phase}] /\ file' = state'
            /\ End(1)
    /\ UNCHANGED <<gitVars, phaseVars, snapshot, plan, pass, again, left, calm>>

PhasesDone == place = "phase" /\ (state.currentPhase..9) \subseteq state.completed

AnotherPass ==
    /\ PhasesDone /\ again
    /\ pass' = pass + 1
    /\ IF pass' >= kMaxConvergePasses
       THEN /\ state' = [state EXCEPT !.blocked = plan.sync \cup plan.commit \cup plan.push]
            /\ End(1)
       ELSE /\ state' = ResetState(snapshot, plan)
            /\ UNCHANGED <<place, exit>>
    /\ file' = state'
    /\ again' = FALSE
    /\ UNCHANGED <<gitVars, phaseVars, snapshot, plan, left, calm>>

Finish ==
    /\ PhasesDone /\ ~again
    /\ file' = NoFile
    /\ End(IF state.failed \cup state.blocked = {} THEN 0 ELSE 1)
    /\ UNCHANGED <<gitVars, phaseVars, snapshot, plan, state, pass, again, left, calm>>

-----------------------------------------------------------------------------
(* The others                                                              *)

Disturb ==
    /\ Mishap
    /\ calm' = [call |-> FALSE, look |-> FALSE]
    /\ UNCHANGED <<place, exit, snapshot, plan, state, file, phaseVars, pass, again>>

\* The user saves a file.
Edit ==
    /\ \E r \in Repos : ~repo[r].content /\ repo' = [repo EXCEPT ![r].content = TRUE]
    /\ Disturb /\ UNCHANGED <<remote, fresh, rewritten>>

\* Somebody pushes from another clone, a parent with the contained repositories
\* as their remotes have them.
PushElsewhere ==
    /\ \E r \in Repos :
          remote' = [remote EXCEPT ![r] =
              [tip |-> fresh, has |-> @.has \cup {fresh},
               pins |-> [c \in Repos |-> IF c \in Children(r) THEN remote[c].tip ELSE 0]]]
    /\ fresh' = fresh + 1
    /\ Disturb /\ UNCHANGED <<repo, rewritten>>

\* The user fetches.
Fetch ==
    /\ \E r \in Repos : repo[r].seen # remote[r].tip /\
          repo' = [repo EXCEPT ![r] =
              IF remote[r].tip = @.head THEN Tracked(@) ELSE [@ EXCEPT !.seen = remote[r].tip]]
    /\ Disturb /\ UNCHANGED <<remote, fresh, rewritten>>

Kill ==
    /\ place # "idle" /\ Mishap
    /\ place' = "idle" /\ exit' = -1
    /\ UNCHANGED <<gitVars, phaseVars, snapshot, plan, state, file, pass, again, calm>>

Step == \/ BeginPhase \/ Skip \/ CommitRepo \/ Sync \/ Push \/ Delta \/ Final
        \/ Record \/ Decide \/ AnotherPass \/ Finish

ConvergeNext == Begin \/ Resume \/ Step \/ Edit \/ PushElsewhere \/ Fetch \/ Kill

ConvergeSpec == ConvergeInit /\ [][ConvergeNext]_convergeVars
Fair == ConvergeSpec /\ WF_convergeVars(Step)
-----------------------------------------------------------------------------
(* Properties                                                              *)

\* No remote ever serves a parent whose gitlink pins a commit that the remote
\* of a contained repository on a branch does not have and never had a version
\* of: whatever fails, in whatever order others push, and wherever the process
\* is killed, resumed or called again.  Two things are excused, for the code does
\* publish such pointers: the contained repository whose push is withheld, which
\* the planner does not know of, and a commit that a rebase has replaced.
Pinned(c) == remote[Parent[c]].pins[c] \in remote[c].has

NoDanglingPointer ==
    \A c \in Repos \ {Root} :
        repo[c].attached /\ ~repo[c].withheld => Pinned(c) \/ remote[Parent[c]].pins[c] \in rewritten

\* A repository is done when nothing in it waits for a commit, a sync or a
\* push.
Done(r) == ~DirtyOwn(repo, r) /\ ~Ahead(repo, r) /\ ~Behind(repo, r)

\* The repositories that the plan passes over without an error: a contained one
\* on a detached HEAD, one whose policy forbids a push, and those above them.
PassedOver == UpClosure({r \in Repos : ~repo[r].pushable \/ ~repo[r].attached})

\* A repository that converge must not touch.
Untouchable(r) ==
    \/ Snapshot(repo)[r].kind \in {"CONFLICTED", "DIVERGED"}
    \/ ~repo[r].pushable \/ ~repo[r].attached \/ repo[r].withheld

\* The exit code means what it says. 0: every repository that is not passed over is
\* committed, synced and pushed, as of the last look at the workspace. 1, of a call that
\* nothing and nobody got in the way of: there is a repository that it must not touch, for
\* the passes always come to an end of the work.
ExitIsTruthful ==
    place = "idle" =>
        /\ exit = 0 /\ calm.look => \A r \in Repos \ PassedOver : Done(r)
        /\ exit = 1 /\ calm.call => \E r \in Repos : Untouchable(r)

\* Every call comes to an end.
Ends == place # "idle" ~> place = "idle"
=============================================================================
