------------------------------ MODULE PlanRun ------------------------------
(***************************************************************************)
(* kog commit-push --plan-file: a run reserves its audit, takes the lock   *)
(* of the plan, admits the plan's bytes, clears the completion stamp,      *)
(* commits, syncs, commits again, pushes, and stamps the plan.  Meanwhile  *)
(* other runs do the same, editors and kog's own plan commands save the    *)
(* plan, others push, writes fail and runs are killed.  The bytes of the   *)
(* plan are its body, numbered by the saves, and its stamp: who wrote it.  *)
(***************************************************************************)
EXTENDS Naturals, Sequences

CONSTANTS
    Process,     \* runs
    Repo,        \* repositories of the plan
    Root,        \* the one that contains the others
    Orders,      \* the orders in which a plan may list them
    None,        \* no owner, no stamp
    Old,         \* a stamp from before
    MaxSaves,    \* bound: saves of the plan
    MaxFaults,   \* bound: failed writes of the audit or of the plan
    MaxKills,    \* bound: killed runs
    MaxOthers    \* bound: pushes by others, and new edits of planned files

ASSUME RootAssumption == Root \in Repo
ASSUME StampAssumption == None \notin Process /\ Old \notin Process /\ None # Old
ASSUME OrderAssumption == Orders \subseteq Seq(Repo) \ {<<>>}
ASSUME BoundAssumption == MaxSaves \in Nat

VARIABLES
    path,        \* the file that the plan's name is for
    text,        \* per file: its bytes
    owner,       \* per file: who holds the execution lock named after it
    flock,       \* per file: who holds its advisory lock
    order, post, \* the plan: its repositories; has it a post_sync stage
    dirty,       \* repositories with uncommitted planned changes
    head, remote, behind, \* commits here, commits there, and are there more there
    pointer, published,   \* the nested heads that Root has recorded; and pushed
    pc, next, code,       \* per run: where it is, the next repository, its exit code
    admitted, source,     \* the bytes it reserved; those it owns since the clear
    changed,     \* did it find changes, before the clear
    job, hold,   \* the rewrite under way, and the file it has open
    audit,       \* its audit: none, open, spoiled, final, incomplete
    draft,       \* what an editor has loaded
    saves, faults, kills, others

plan == <<path, text, owner, flock>>
repos == <<dirty, head, remote, behind, pointer, published>>
run == <<pc, next, code, admitted, source, changed, job, hold, audit>>
budget == <<saves, faults, kills, others>>
vars == <<plan, order, post, repos, run, draft, budget>>

Files == 1..MaxSaves + 1
Torn == [body |-> 0, stamp |-> None]
NoJob == [for |-> "", old |-> Torn, new |-> Torn]
Stamped(t, s) == [t EXCEPT !.stamp = s]
Nested == Repo \ {Root}

Init ==
    /\ path = 1 /\ owner = [f \in Files |-> None] /\ flock = [f \in Files |-> None]
    /\ \E s \in {None, Old} : text = [f \in Files |-> [body |-> 1, stamp |-> s]]
    /\ order \in Orders /\ post \in BOOLEAN
    /\ dirty \in {{}, Repo}
    /\ head = [r \in Repo |-> 0] /\ remote = head /\ behind = [r \in Repo |-> FALSE]
    /\ pointer = [r \in Nested |-> 0] /\ published = pointer
    /\ pc = [p \in Process |-> "start"] /\ next = [p \in Process |-> 1]
    /\ code = [p \in Process |-> 0]
    /\ admitted = [p \in Process |-> Torn] /\ source = admitted
    /\ changed = [p \in Process |-> FALSE]
    /\ job = [p \in Process |-> NoJob] /\ hold = [p \in Process |-> 1]
    /\ audit = [p \in Process |-> "none"]
    /\ draft = Torn
    /\ saves = 0 /\ faults = 0 /\ kills = 0 /\ others = 0

-----------------------------------------------------------------------------
(* steps of a run *)

Goto(p, l) == pc' = [pc EXCEPT ![p] = l]
Exit(p, c) == code' = [code EXCEPT ![p] = c]
Audit(p, a) == audit' = [audit EXCEPT ![p] = a]
Fault == faults < MaxFaults /\ faults' = faults + 1
Intact == UNCHANGED faults

\* The run finalizes its audit with this exit code, or returns and leaves the audit to
\* its destructor, which comes after the one of the lock.
Terminate(p, c) == Goto(p, "finalize") /\ Exit(p, c)
Return(p, c) == Goto(p, "unlock") /\ Exit(p, c)
Go(p, l) == Goto(p, l) /\ UNCHANGED code

\* An event is appended.
Appended == Intact /\ UNCHANGED audit
NotAppended(p) == Fault /\ Audit(p, "spoiled")

\* PlanAuditSink::Reserve: the bytes of the plan are read and bound.
Reserve(p) ==
    /\ pc[p] = "start"
    /\ \/ /\ text[path] # Torn /\ Intact /\ Audit(p, "open")
          /\ admitted' = [admitted EXCEPT ![p] = text[path]]
          /\ Go(p, "lock")
       \/ /\ text[path] = Torn /\ Intact
          /\ Goto(p, "exit") /\ Exit(p, 2) /\ UNCHANGED <<audit, admitted>>
       \/ /\ Fault
          /\ Goto(p, "exit") /\ Exit(p, 2) /\ UNCHANGED <<audit, admitted>>
    /\ UNCHANGED <<plan, repos, next, source, changed, job, hold>>

\* AcquirePlanExecutionLock: the lock is named after the file, not after its path.
TakeLock(p) ==
    /\ pc[p] = "lock" /\ owner[path] = None
    /\ owner' = [owner EXCEPT ![path] = p]
    /\ Go(p, "admit")
    /\ UNCHANGED <<path, text, flock, repos, next, admitted, source, changed, job, hold,
                   audit, faults>>

LockTimeout(p) ==
    /\ pc[p] = "lock" /\ owner[path] # None
    /\ Terminate(p, 2)
    /\ \/ Appended
       \/ NotAppended(p)
    /\ UNCHANGED <<plan, repos, next, admitted, source, changed, job, hold>>

Released(p) == [f \in Files |-> IF owner[f] = p THEN None ELSE owner[f]]

\* Mutant: the bytes are not compared again once the lock is held.
AdmitAnything(p) ==
    /\ pc[p] = "admit" /\ Appended /\ Go(p, "gates")
    /\ UNCHANGED <<plan, repos, next, admitted, source, changed, job, hold>>

\* AcquireAuditedPlanExecutionAdmission: under the lock the path must still hold the bytes,
\* and where it does not the lock is given back.
Admit(p) ==
    /\ pc[p] = "admit"
    /\ \/ text[path] = admitted[p] /\ Appended /\ Go(p, "gates") /\ UNCHANGED owner
       \/ text[path] # admitted[p] /\ Appended /\ Terminate(p, 2) /\ owner' = Released(p)
       \/ NotAppended(p) /\ Terminate(p, 2) /\ owner' = Released(p)
    /\ UNCHANGED <<path, text, flock, repos, next, admitted, source, changed, job, hold>>

Rewrite(p, for, old, new) ==
    job' = [job EXCEPT ![p] = [for |-> for, old |-> old, new |-> new]]

HasStamp(p) == admitted[p].stamp # None

\* The safety gates, a look at the planned files, which may fail, and then
\* ClearCommitPlanExecutionStampForRun if there is a stamp.
Gates(p) ==
    /\ pc[p] = "gates"
    /\ changed' = [changed EXCEPT ![p] = dirty # {}]
    /\ \/ /\ Appended
          /\ \/ Terminate(p, 3) /\ UNCHANGED job
             \/ Return(p, 2) /\ UNCHANGED job
             \/ /\ HasStamp(p) /\ Go(p, "open")
                /\ Rewrite(p, "clear", admitted[p], Stamped(admitted[p], None))
             \/ ~HasStamp(p) /\ Go(p, "cleared") /\ UNCHANGED job
       \/ NotAppended(p) /\ Return(p, 2) /\ UNCHANGED job
    /\ UNCHANGED <<plan, repos, next, admitted, source, hold>>

-----------------------------------------------------------------------------
(* RewriteConditionally *)

Close(p) == flock' = [flock EXCEPT ![hold[p]] = None]

\* The rewrite did not happen, or it was a restore. A clear or a stamp that was refused is
\* appended as a failure and the run is finalized; a restore that was refused is only
\* reported.
Refuse(p) ==
    /\ pc[p] = "refused"
    /\ \/ Appended /\ IF job[p].for = "return" THEN Return(p, 2) ELSE Terminate(p, 2)
       \/ job[p].for \in {"clear", "stamp"} /\ NotAppended(p) /\ Terminate(p, 2)
       \/ job[p].for = "stamp" /\ NotAppended(p) /\ Return(p, 2)
    /\ UNCHANGED <<plan, repos, next, admitted, source, changed, job, hold>>

\* The path is opened, locked without waiting, and read twice.
Open(p) ==
    /\ pc[p] = "open"
    /\ IF flock[path] = None /\ text[path] = job[p].old
       THEN /\ flock' = [flock EXCEPT ![path] = p]
            /\ hold' = [hold EXCEPT ![p] = path]
            /\ Go(p, "write")
       ELSE Go(p, "refused") /\ UNCHANGED <<flock, hold>>
    /\ UNCHANGED <<path, text, owner, repos, next, admitted, source, changed, job, audit,
                   faults>>

Put(f, t) == text' = [text EXCEPT ![f] = t]

\* pwrite, ftruncate and fsync on the open file. What failed half way is written back.
Write(p) ==
    /\ pc[p] = "write"
    /\ \/ Put(hold[p], job[p].new) /\ Intact /\ Go(p, "verify") /\ UNCHANGED flock
       \/ Put(hold[p], job[p].old) /\ Fault /\ Go(p, "refused") /\ Close(p)
    /\ UNCHANGED <<path, owner, repos, next, admitted, source, changed, job, hold, audit>>

Succeeded(p) ==
    \/ job[p].for = "clear" /\ Go(p, "cleared")
    \/ job[p].for = "stamp" /\ Go(p, "stamped")
    \/ job[p].for \in {"finalize", "return"} /\ Go(p, "refused")

\* Mutant: whatever the file holds, the old bytes are written back.
VerifyAndRestore(p) ==
    /\ pc[p] = "verify" /\ Close(p)
    /\ IF text[hold[p]] = job[p].new /\ path = hold[p]
       THEN UNCHANGED text /\ Succeeded(p)
       ELSE Put(hold[p], job[p].old) /\ Go(p, "refused")
    /\ UNCHANGED <<path, owner, repos, next, admitted, source, changed, job, hold, audit,
                   faults>>

\* The file is read again: if it holds what was written and the path is still for it, the
\* bytes are bound to the audit. If only the path changed, or they cannot be bound, the old
\* bytes are written back; if somebody else wrote to the file, his bytes stay.
Verify(p) ==
    /\ pc[p] = "verify" /\ Close(p)
    /\ LET mine == text[hold[p]] = job[p].new IN
       \/ mine /\ path = hold[p] /\ Intact /\ UNCHANGED text /\ Succeeded(p)
       \/ /\ mine /\ path = hold[p] /\ job[p].for \in {"clear", "stamp"} /\ Fault
          /\ Put(hold[p], job[p].old) /\ Go(p, "refused")
       \/ mine /\ path # hold[p] /\ Intact /\ Put(hold[p], job[p].old) /\ Go(p, "refused")
       \/ ~mine /\ Intact /\ UNCHANGED text /\ Go(p, "refused")
    /\ UNCHANGED <<path, owner, repos, next, admitted, source, changed, job, hold, audit>>

-----------------------------------------------------------------------------
(* the stages *)

\* plan.stamp.clear is appended, or what was cleared is put back. The commit, sync and
\* post-sync stages are for a workspace that had changes before the clear.
Cleared(p) ==
    LET new == Stamped(admitted[p], None) IN
    /\ pc[p] = "cleared"
    /\ \/ /\ Appended /\ source' = [source EXCEPT ![p] = new] /\ UNCHANGED job
          /\ Go(p, IF changed[p] THEN "commit" ELSE "push")
       \/ /\ NotAppended(p) /\ UNCHANGED source
          /\ IF HasStamp(p) THEN Go(p, "open") /\ Rewrite(p, "finalize", new, admitted[p])
                            ELSE Terminate(p, 2) /\ UNCHANGED job
    /\ UNCHANGED <<plan, repos, next, admitted, changed, hold>>

\* After a stage: its event, then the next stage or the end.
Staged(p, ok, to) ==
    \/ Appended /\ IF ok THEN Go(p, to) ELSE Terminate(p, 1)
    \/ NotAppended(p) /\ Return(p, 2)

\* Changed repositories are committed, nested ones first: Root records their heads.
Committed(rs) ==
    /\ dirty' = dirty \ rs
    /\ head' = [r \in Repo |-> IF r \in rs THEN head[r] + 1 ELSE head[r]]
    /\ pointer' = IF Root \in rs THEN [r \in Nested |-> head'[r]] ELSE pointer

CommitFailed ==
    \E rs \in SUBSET dirty :
        rs # dirty /\ (Root \in rs => dirty \cap Nested \subseteq rs) /\ Committed(rs)

Commit(p) ==
    /\ pc[p] = "commit"
    /\ \/ Committed(dirty) /\ Staged(p, TRUE, "sync")
       \/ CommitFailed /\ Staged(p, FALSE, "")
    /\ UNCHANGED <<plan, remote, behind, published, next, admitted, source, changed, job,
                   hold>>

\* The repositories one after the other, in the order of the plan.
Turn(p, r) == r = order[next[p]]

\* Mutant: the plan is stamped after the first push.
OneDoneEarly(p, ok, loop, to) ==
    /\ Staged(p, ok, to)
    /\ next' = [next EXCEPT ![p] = IF to # "open" THEN 1 ELSE @ + 1]

OneDone(p, ok, loop, to) ==
    LET last == next[p] = Len(order) IN
    /\ Staged(p, ok, IF last THEN to ELSE loop)
    /\ next' = [next EXCEPT ![p] = IF last /\ to # "open" THEN 1 ELSE @ + 1]

Sync(p) ==
    /\ pc[p] = "sync"
    /\ \E r \in Repo : Turn(p, r) /\
         \/ /\ OneDone(p, TRUE, "sync", "post")
            /\ IF behind[r]
               THEN /\ behind' = [behind EXCEPT ![r] = FALSE]
                    /\ head' = [head EXCEPT ![r] = @ + 1]
                    /\ remote' = [remote EXCEPT ![r] = @ + 1]
               ELSE UNCHANGED <<behind, head, remote>>
         \/ OneDone(p, FALSE, "", "") /\ UNCHANGED <<behind, head, remote>>
    /\ UNCHANGED <<plan, dirty, pointer, published, admitted, source, changed, job, hold>>

\* ClassifyPostSyncDelta: Root has nothing but new heads below it.
GitlinkOnly == Root \notin dirty /\ pointer # [r \in Nested |-> head[r]]

\* AutoAmendGitlinkOnlyPostSyncRepos: a commit that nobody has yet is amended.
Amended ==
    /\ pointer' = [r \in Nested |-> head[r]]
    /\ head' = [head EXCEPT ![Root] = IF @ > remote[Root] THEN @ ELSE @ + 1]
    /\ UNCHANGED dirty

\* The post-sync stage. Where there are new heads only, they are committed and the plan's
\* own post_sync commits are left out.
PostSync(p) ==
    /\ pc[p] = "post"
    /\ IF ~post THEN Appended /\ Go(p, "push") /\ UNCHANGED <<dirty, head, pointer>>
       ELSE \/ GitlinkOnly /\ Amended /\ Staged(p, TRUE, "push")
            \/ GitlinkOnly /\ UNCHANGED <<dirty, head, pointer>> /\ Staged(p, FALSE, "")
            \/ ~GitlinkOnly /\ Committed(dirty) /\ Staged(p, TRUE, "push")
            \/ ~GitlinkOnly /\ dirty # {} /\ CommitFailed /\ Staged(p, FALSE, "")
    /\ UNCHANGED <<plan, remote, behind, published, next, admitted, source, changed, job,
                   hold>>

\* A push is rejected where the remote has commits that are not here. After the last one
\* the plan is stamped.
Push(p) ==
    /\ pc[p] = "push"
    /\ \E r \in Repo : Turn(p, r) /\
         \/ /\ ~behind[r] /\ OneDone(p, TRUE, "push", "open")
            /\ remote' = [remote EXCEPT ![r] = head[r]]
            /\ published' = IF r = Root THEN pointer ELSE published
         \/ OneDone(p, FALSE, "", "") /\ UNCHANGED <<remote, published>>
    /\ Rewrite(p, "stamp", source[p], Stamped(source[p], p))
    /\ UNCHANGED <<plan, dirty, head, behind, pointer, admitted, source, changed, hold>>

\* plan.stamp is appended, or the stamp is taken back.
StampWritten(p) ==
    /\ pc[p] = "stamped"
    /\ \/ Appended /\ Terminate(p, 0) /\ UNCHANGED job
       \/ NotAppended(p) /\ Go(p, "open") /\ Rewrite(p, "return", job[p].new, source[p])
    /\ UNCHANGED <<plan, repos, next, admitted, source, changed, hold>>

\* Mutant: a stamp whose audit cannot be finished stays.
FinalizeOnly(p) ==
    /\ pc[p] = "finalize"
    /\ \/ audit[p] = "open" /\ Intact /\ Audit(p, "final") /\ Go(p, "unlock")
       \/ audit[p] = "open" /\ Fault /\ Audit(p, "incomplete") /\ Return(p, 2)
       \/ audit[p] = "spoiled" /\ Intact /\ Audit(p, "incomplete") /\ Return(p, 2)
    /\ UNCHANGED <<plan, repos, next, admitted, source, changed, job, hold>>

\* The receipt is published, or the attempt is incomplete: then a stamp is taken back.
NotFinal(p) ==
    /\ Audit(p, "incomplete")
    /\ IF code[p] = 0
       THEN Goto(p, "open") /\ Exit(p, 2) /\ Rewrite(p, "return", job[p].new, source[p])
       ELSE Go(p, "unlock") /\ UNCHANGED job

Finalize(p) ==
    /\ pc[p] = "finalize"
    /\ \/ /\ audit[p] = "open" /\ Intact /\ Audit(p, "final")
          /\ Go(p, "unlock") /\ UNCHANGED job
       \/ audit[p] = "open" /\ Fault /\ NotFinal(p)
       \/ audit[p] = "spoiled" /\ Intact /\ NotFinal(p)
    /\ UNCHANGED <<plan, repos, next, admitted, source, changed, hold>>

\* The rewrite that is over needs no remembering.
Forget(p) ==
    /\ job' = [job EXCEPT ![p] = NoJob]
    /\ hold' = [hold EXCEPT ![p] = 1]

\* The lock goes with the admission, before the audit's destructor runs.
Unlock(p) ==
    /\ pc[p] = "unlock"
    /\ owner' = Released(p) /\ Go(p, "destroy") /\ Forget(p)
    /\ UNCHANGED <<path, text, flock, repos, next, admitted, source, changed, audit,
                   faults>>

Destroy(p) ==
    /\ pc[p] = "destroy" /\ Go(p, "exit")
    /\ \/ audit[p] = "open" /\ Intact /\ Audit(p, "final")
       \/ audit[p] = "open" /\ Fault /\ Audit(p, "incomplete")
       \/ audit[p] = "spoiled" /\ Intact /\ Audit(p, "incomplete")
       \/ audit[p] \notin {"open", "spoiled"} /\ Appended
    /\ UNCHANGED <<plan, repos, next, admitted, source, changed, job, hold>>

-----------------------------------------------------------------------------
(* everybody else *)

\* An editor, or a kog plan command: they look at no lock.
Load ==
    /\ saves < MaxSaves /\ draft' = text[path]
    /\ UNCHANGED <<plan, order, post, repos, run, budget>>

Edited == [draft EXCEPT !.body = saves + 2]

\* WriteFileText writes into the file; PromoteTextFileAtomically puts another in its place.
Save ==
    /\ draft # Torn /\ saves < MaxSaves /\ saves' = saves + 1
    /\ \/ Put(path, Edited) /\ UNCHANGED path
       \/ path' = saves + 2 /\ Put(saves + 2, Edited)
    /\ draft' = Torn
    /\ UNCHANGED <<owner, flock, order, post, repos, run, faults, kills, others>>

Others ==
    /\ others < MaxOthers /\ others' = others + 1
    /\ \E r \in Repo :
        \/ behind' = [behind EXCEPT ![r] = TRUE] /\ UNCHANGED dirty
        \/ dirty' = dirty \cup {r} /\ UNCHANGED behind
    /\ UNCHANGED <<plan, order, post, head, remote, pointer, published, run, draft, saves,
                   faults, kills>>

\* The system closes the files of a killed run; one that was writing may leave half of it.
Kill(p) ==
    /\ kills < MaxKills /\ kills' = kills + 1
    /\ pc[p] \notin {"start", "exit", "dead"} /\ Go(p, "dead")
    /\ owner' = Released(p)
    /\ flock' = [f \in Files |-> IF flock[f] = p THEN None ELSE flock[f]]
    /\ \/ UNCHANGED text
       \/ pc[p] = "write" /\ \E t \in {Torn, job[p].new} : Put(hold[p], t)
    /\ Forget(p)
    /\ UNCHANGED <<path, order, post, repos, next, admitted, source, changed, audit, draft,
                   saves, faults, others>>

Step(p) ==
    /\ \/ Reserve(p) \/ TakeLock(p) \/ LockTimeout(p) \/ Admit(p) \/ Gates(p)
       \/ Open(p) \/ Write(p) \/ Verify(p) \/ Refuse(p)
       \/ Cleared(p) \/ Commit(p) \/ Sync(p) \/ PostSync(p) \/ Push(p)
       \/ StampWritten(p) \/ Finalize(p) \/ Unlock(p) \/ Destroy(p)
    /\ UNCHANGED <<order, post, draft, saves, kills, others>>

Next ==
    \/ \E p \in Process : Step(p) \/ Kill(p)
    \/ Load \/ Save \/ Others

Spec == Init /\ [][Next]_vars

-----------------------------------------------------------------------------
(* what a run may do to a plan, and what a stamp is worth *)

Working(p) == pc[p] \in {"commit", "sync", "post", "push"}

\* While a run works on the repositories, the plan it runs is not marked as completed: an
\* earlier stamp is gone before the first commit, and no other run puts one
\* (kog-audit-contract-v1.md: the clear comes before the first Git mutation); and no other
\* run works on the repositories with the same plan, though the lock belongs to a file and
\* the path of the plan may come to mean another one.
WorksAlone ==
    \A p \in Process : Working(p) =>
        /\ text[path].body = admitted[p].body => text[path].stamp = None
        /\ \A q \in Process : Working(q) /\ admitted[q].body = admitted[p].body => q = p

\* A run that failed leaves the plan it ran without a stamp, its own or an earlier one,
\* once it has worked on the repositories (ibid.: a failed execution never publishes a
\* completion stamp, nor revives the one it cleared). A second failure, of the write that
\* takes the stamp back, leaves it there.
FailedIsUncompleted ==
    \A p \in Process :
        pc[p] = "exit" /\ code[p] # 0 /\ faults <= 1 /\ text[path].body = admitted[p].body =>
            /\ text[path].stamp # p
            /\ source[p] # Torn => text[path].stamp # Old

\* A stamp means that the run which wrote it has pushed every repository of the plan,
\* wherever the bytes have been copied since, and whatever was killed or restored.
StampMeansPushed ==
    \A f \in Files, p \in Process : text[f].stamp = p => next[p] > Len(order)

\* A saved plan is never replaced by an older one, except where it was saved into the file
\* between kog's last look at the bytes and its write.
EditsKept ==
    [][text'[path'].body < text[path].body =>
        \E p \in Process : pc[p] = "write" /\ pc'[p] # "write"]_vars

\* The remote of Root never points to a commit of a nested repository that is not on that
\* repository's own remote (cpa-commit-plan-workflow.md: commit-push pushes child repos
\* first).
ChildrenFirst == \A r \in Nested : published[r] <= remote[r]
=============================================================================
