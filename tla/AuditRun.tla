------------------------------ MODULE AuditRun ------------------------------
(***************************************************************************)
(* One attempt of an audited operation: OperationAuditContext reserves the *)
(* attempt directory, appends an event after every action, and publishes   *)
(* the receipt; ReadOperationAuditRun reads the directory at any moment.   *)
(* A write may fail, the process may be killed, the power may fail: of     *)
(* every file the model keeps what is seen and what a power loss may leave.*)
(***************************************************************************)
EXTENDS Naturals, Sequences, SequencesExt

CONSTANTS
    Process,      \* the processes that are given this run id and attempt
    Repo,         \* repositories of the workspace
    MaxHead,      \* bound: heads of a repository
    MaxEvents,    \* bound: events of a run
    MaxFaults,    \* bound: failed writes, syncs and removals
    MaxCrashes,   \* bound: kills and power losses
    MaxDamage     \* bound: changes made to the evidence by somebody else

ASSUME RepoAssumption == Repo # {} /\ "torn" \notin Repo

VARIABLES
    made,         \* the attempt directory is there
    seen, kept,   \* per file: what it holds; what a power loss may leave of it
    head,         \* per repository: its head
    pc, done,     \* per process; what Reserve or Finalize returned
    events,       \* mEvents
    poisoned,     \* mPoisoned
    target, before,         \* the action under way: its repository, its state before
    at, code, got, verdict, \* the reader
    faults, crashes, damage

directory == <<made, seen, kept>>
context == <<pc, done, events, poisoned, target, before>>
reader == <<at, code, got, verdict>>
budget == <<faults, crashes, damage>>
vars == <<directory, head, context, reader, budget>>

File == {"pending", "frozen", "events", "tmp", "receipt", "incomplete"}
Absent == [there |-> FALSE, text |-> <<>>]
Holds(text) == [there |-> TRUE, text |-> text]
Whole == <<"whole">>
TornLine == [repo |-> "torn", before |-> 0, after |-> 0]

Init ==
    /\ made = FALSE
    /\ seen = [n \in File |-> Absent] /\ kept = [n \in File |-> {Absent}]
    /\ head = [r \in Repo |-> 0]
    /\ pc = [p \in Process |-> "start"] /\ done = [p \in Process |-> ""]
    /\ events = [p \in Process |-> <<>>] /\ poisoned = [p \in Process |-> FALSE]
    /\ target = [p \in Process |-> CHOOSE r \in Repo : TRUE]
    /\ before = [p \in Process |-> 0]
    /\ at = "idle" /\ code = "" /\ verdict = ""
    /\ got = [n \in {"events", "receipt", "frozen"} |-> Absent]
    /\ faults = 0 /\ crashes = 0 /\ damage = 0

-----------------------------------------------------------------------------
(* the disk *)

Put(n, text) == [seen EXCEPT ![n] = Holds(text)]
MayKeep(n, texts) == [kept EXCEPT ![n] = @ \cup {Holds(t) : t \in texts}]
\* After SyncDirectory: every entry is as it is seen.
KeptAs(files) == [n \in File |-> {files[n]}]
Fail == faults < MaxFaults /\ faults' = faults + 1
Intact == UNCHANGED faults

\* OpenExclusiveFile and WriteAndSync fail: not opened, not written, or not synced.
CreateFailed(n, text) ==
    \/ seen[n].there /\ UNCHANGED <<seen, kept, faults>>
    \/ /\ ~seen[n].there /\ Fail
       /\ \/ UNCHANGED <<seen, kept>>
          \/ \E t \in {<<>>, text} : seen' = Put(n, t) /\ kept' = MayKeep(n, {<<>>, t})

\* A line added to the event stream: in full and on stable storage.
LineWritten(line) ==
    /\ seen' = Put("events", seen.events.text \o <<line>>)
    /\ kept' = [kept EXCEPT !.events = {seen'.events}]

LineFailed(line) ==
    \E t \in {<<>>, <<TornLine>>, <<line>>} :
        /\ seen' = Put("events", seen.events.text \o t)
        /\ kept' = MayKeep("events", {seen.events.text \o t})

-----------------------------------------------------------------------------
(* OperationAuditContext *)

Goto(p, l) == pc' = [pc EXCEPT ![p] = l]
Return(p, value) == done' = [done EXCEPT ![p] = value]

\* ReserveRunDirectory: the directory is made by one process. ~OperationAuditContext of
\* the process that is refused goes through PublishReceipt, with the paths it was given.
Reserve(p) ==
    /\ pc[p] = "start"
    /\ IF made THEN Goto(p, "mark") /\ Return(p, "refused") /\ UNCHANGED made
               ELSE Goto(p, "pending") /\ made' = TRUE /\ UNCHANGED done
    /\ UNCHANGED <<seen, kept, head, events, poisoned, target, before, reader, budget>>

\* The files of the reservation, in order: the sentinel and the directory are synced
\* first. On an error Reserve returns null and the destructor marks the attempt.
NextFile == [pending |-> "frozen", frozen |-> "events", events |-> "tmp", tmp |-> "reserve"]
FirstText == [pending |-> Whole, frozen |-> Whole, events |-> <<>>, tmp |-> <<>>]

CreateFile(p) ==
    /\ pc[p] \in DOMAIN NextFile
    /\ LET n == pc[p] IN
       \/ /\ ~seen[n].there /\ seen' = Put(n, FirstText[n]) /\ Intact
          /\ IF n \in {"pending", "tmp"} THEN kept' = KeptAs(seen') ELSE kept' = MayKeep(n, {FirstText[n]})
          /\ Goto(p, NextFile[n]) /\ UNCHANGED done
       \/ CreateFailed(n, FirstText[n]) /\ Goto(p, "mark") /\ Return(p, "failed")
    /\ UNCHANGED <<made, head, events, poisoned, target, before, reader, crashes, damage>>

\* An action begins: its repository is captured. The first one is audit.reserve.
Begin(p) ==
    /\ pc[p] \in {"reserve", "run"}
    /\ Len(events[p]) + 2 <= MaxEvents
    /\ \E r \in Repo :
        /\ target' = [target EXCEPT ![p] = r]
        /\ before' = [before EXCEPT ![p] = head[r]]
    /\ Goto(p, "act")
    /\ UNCHANGED <<directory, head, done, events, poisoned, reader, budget>>

\* The action itself: the head of the repository moves or not.
Act(p) ==
    /\ pc[p] = "act"
    /\ \/ UNCHANGED head
       \/ head[target[p]] < MaxHead /\ head' = [head EXCEPT ![target[p]] = @ + 1]
    /\ Goto(p, "append")
    /\ UNCHANGED <<directory, done, events, poisoned, target, before, reader, budget>>

Line(r, b, a) == [repo |-> r, before |-> b, after |-> a]

\* Of the first n events, the i-th is the last one of repository r.
LatestOf(es, n, r, i) ==
    i \in 1..n /\ es[i].repo = r /\ \A j \in i + 1..n : es[j].repo # r

\* Append, one line: where the repository moved since its last event, that move comes
\* first as repository.reconcile-observed; then the action, with the state captured now.
NextLine(p) ==
    LET es == events[p]
        r == target[p]
        moved == {i \in 1..Len(es) : LatestOf(es, Len(es), r, i) /\ es[i].after # before[p]}
    IN IF moved # {} THEN Line(r, es[CHOOSE i \in moved : TRUE].after, before[p])
                     ELSE Line(r, before[p], head[r])

Append1(p) ==
    /\ pc[p] = "append"
    /\ LET line == NextLine(p)
           last == line.before = before[p]
       IN \/ /\ LineWritten(line) /\ Intact
             /\ events' = [events EXCEPT ![p] = Append(@, line)]
             /\ Goto(p, IF last THEN "run" ELSE "append")
             /\ UNCHANGED poisoned
          \/ /\ LineFailed(line) /\ Fail
             /\ poisoned' = [poisoned EXCEPT ![p] = TRUE]
             /\ Goto(p, "spoiled") /\ UNCHANGED events
    /\ UNCHANGED <<made, head, done, target, before, reader, crashes, damage>>

\* PublishIncompleteMarker: the marker is created and the directory synced, or is there
\* already, or cannot be written.
Mark(p, to) ==
    /\ \/ ~seen.incomplete.there /\ seen' = Put("incomplete", Whole) /\ kept' = KeptAs(seen') /\ Intact
       \/ CreateFailed("incomplete", Whole)
    /\ Goto(p, to)
    /\ UNCHANGED <<made, head, events, poisoned, target, before, reader, crashes, damage>>

\* A failed append marks the attempt and the operation goes on; without the event of the
\* reservation there is no operation.
MarkSpoiled(p) ==
    /\ pc[p] = "spoiled"
    /\ IF events[p] = <<>> THEN Mark(p, "exit") /\ Return(p, "failed")
                           ELSE Mark(p, "run") /\ UNCHANGED done
MarkIncomplete(p) == pc[p] = "mark" /\ Mark(p, "exit") /\ UNCHANGED done

\* Finalize, or the destructor of a context nobody finalized.
Finalize(p) ==
    /\ pc[p] = "run"
    /\ Goto(p, "check")
    /\ UNCHANGED <<directory, head, done, events, poisoned, target, before, reader, budget>>

\* ValidateRunTrace: the events of a repository follow from one another.
Chained(es) ==
    \A j \in 1..Len(es) : \A i \in 1..j - 1 :
        LatestOf(es, j - 1, es[j].repo, i) => es[j].before = es[i].after
Sound(es) == es # <<>> /\ TornLine \notin ToSet(es) /\ Chained(es)

\* Mutant: a check or a write that fails is not recorded.
StepUnmarked(p, ok, to) ==
    IF ok THEN Goto(p, to) /\ UNCHANGED done ELSE Goto(p, "exit") /\ Return(p, "failed")

Step(p, ok, to) ==
    IF ok THEN Goto(p, to) /\ UNCHANGED done ELSE Goto(p, "mark") /\ Return(p, "failed")

\* What the stream holds is what was observed, and it can be accounted for.
CheckEvents(p) ==
    /\ pc[p] = "check"
    /\ Step(p, ~poisoned[p] /\ seen.events.text = events[p] /\ Sound(events[p]), "receipt")
    /\ UNCHANGED <<directory, head, events, poisoned, target, before, reader, budget>>

\* The receipt binds the stream and the frozen input by their hashes.
WriteReceipt(p) ==
    /\ pc[p] = "receipt"
    /\ LET receipt == <<[events |-> events[p], frozen |-> Whole]>> IN
       \/ /\ seen' = Put("tmp", receipt) /\ Intact
          /\ kept' = [kept EXCEPT !.tmp = {Holds(receipt)}]
          /\ Step(p, TRUE, "recheck")
       \/ /\ Fail /\ Step(p, FALSE, "")
          /\ \E t \in {<<>>, receipt} : seen' = Put("tmp", t) /\ kept' = MayKeep("tmp", {t})
    /\ UNCHANGED <<made, head, events, poisoned, target, before, reader, crashes, damage>>

RecheckEvents(p) ==
    /\ pc[p] = "recheck"
    /\ Step(p, seen.events.text = events[p], "link")
    /\ UNCHANGED <<directory, head, events, poisoned, target, before, reader, budget>>

\* PublishNoReplace: link, then unlink the temporary name.
Link(p) ==
    /\ pc[p] = "link"
    /\ \/ /\ ~seen.receipt.there /\ Intact
          /\ seen' = [seen EXCEPT !.receipt = seen.tmp, !.tmp = Absent]
          /\ kept' = [kept EXCEPT !.receipt = @ \cup {seen.tmp}, !.tmp = @ \cup {Absent}]
          /\ Step(p, TRUE, "sync")
       \/ /\ Fail /\ Step(p, FALSE, "")
          /\ \/ UNCHANGED <<seen, kept>>
             \/ /\ ~seen.receipt.there
                /\ seen' = [seen EXCEPT !.receipt = seen.tmp]
                /\ kept' = [kept EXCEPT !.receipt = @ \cup {seen.tmp}]
    /\ UNCHANGED <<made, head, events, poisoned, target, before, reader, crashes, damage>>

\* Mutant: the sentinel is removed while the receipt may still be lost.
SyncNothing(p) ==
    /\ pc[p] = "sync"
    /\ Step(p, TRUE, "clear")
    /\ UNCHANGED <<directory, head, events, poisoned, target, before, reader, budget>>

\* SyncRegularFilePath and SyncDirectory.
SyncReceipt(p) ==
    /\ pc[p] = "sync"
    /\ \/ kept' = KeptAs(seen) /\ Intact /\ Step(p, TRUE, "clear")
       \/ Fail /\ Step(p, FALSE, "") /\ UNCHANGED kept
    /\ UNCHANGED <<made, seen, head, events, poisoned, target, before, reader, crashes,
                   damage>>

\* Mutant: the removal of the sentinel is not synced.
ClearPendingUnsynced(p) ==
    /\ pc[p] = "clear"
    /\ seen.pending.there /\ seen' = [seen EXCEPT !.pending = Absent]
    /\ kept' = [kept EXCEPT !.pending = @ \cup {Absent}] /\ Goto(p, "exit") /\ Return(p, "final")
    /\ UNCHANGED <<made, head, events, poisoned, target, before, reader, budget>>

\* The pending sentinel goes last, and its absence is synced too.
ClearPending(p) ==
    /\ pc[p] = "clear"
    /\ \/ /\ seen.pending.there /\ seen' = [seen EXCEPT !.pending = Absent] /\ Intact
          /\ kept' = KeptAs(seen') /\ Goto(p, "exit") /\ Return(p, "final")
       \/ /\ Fail /\ Step(p, FALSE, "")
          /\ \/ UNCHANGED <<seen, kept>>
             \/ /\ seen' = [seen EXCEPT !.pending = Absent]
                /\ kept' = [kept EXCEPT !.pending = @ \cup {Absent}]
    /\ UNCHANGED <<made, head, events, poisoned, target, before, reader, crashes, damage>>

-----------------------------------------------------------------------------
(* ReadOperationAuditRun *)

Read(l) == at' = l /\ UNCHANGED <<directory, head, context, budget>>

\* AuditEvidenceDirectory::Open, and the first look at the markers.
OpenRun ==
    /\ at = "idle" /\ made
    /\ Read("incomplete")
    /\ code' = "" /\ verdict' = "" /\ got' = [n \in DOMAIN got |-> Absent]

Answer(v) == verdict' = v /\ Read("idle")

\* ProbeMarkers: incomplete, pending, and where pending was seen incomplete once more.
\* Without a marker the evidence is read, or what was concluded from it stands.
ProbeIncomplete ==
    /\ at \in {"incomplete", "incomplete2"}
    /\ IF seen.incomplete.there
       THEN Answer(IF seen.incomplete.text = Whole THEN "incomplete" ELSE "invalid")
       ELSE IF at = "incomplete" THEN Read("pending") /\ UNCHANGED verdict
                                 ELSE Answer("pending")
    /\ UNCHANGED <<code, got>>

ProbePending ==
    /\ at = "pending"
    /\ IF seen.pending.there
       THEN IF seen.pending.text = Whole THEN Read("incomplete2") /\ UNCHANGED verdict
                                         ELSE Answer("invalid")
       ELSE IF code # "" THEN Answer(code) ELSE Read("events") /\ UNCHANGED verdict
    /\ UNCHANGED <<code, got>>

Conclude(c) == code' = c /\ Read("incomplete")

\* events.jsonl, then receipt.json: without one, the markers decide once more.
NextEvidence == [events |-> "receipt", receipt |-> "frozen"]
ReadEvidence ==
    /\ at \in DOMAIN NextEvidence
    /\ got' = [got EXCEPT ![at] = seen[at]]
    /\ IF seen[at].there THEN Read(NextEvidence[at]) /\ UNCHANGED code
                         ELSE Conclude("missing")
    /\ UNCHANGED verdict

\* Mutant: the stream is not compared with the hash in the receipt.
VerifiedUnbound(es, receipt, frozen) ==
    /\ Sound(es.text) /\ receipt.text # <<>>
    /\ receipt.text[1].frozen = frozen.text

\* The receipt parses, accounts for the stream, and names the frozen input.
Verified(es, receipt, frozen) ==
    /\ Sound(es.text) /\ receipt.text # <<>>
    /\ receipt.text[1].events = es.text /\ receipt.text[1].frozen = frozen.text

\* The frozen input is read, everything is verified, and the markers are looked at again.
ReadFrozen ==
    /\ at = "frozen"
    /\ got' = [got EXCEPT !.frozen = seen.frozen]
    /\ Conclude(IF ~seen.frozen.there THEN "missing"
                ELSE IF Verified(got.events, got.receipt, seen.frozen) THEN "ready"
                ELSE "corrupt")
    /\ UNCHANGED verdict

-----------------------------------------------------------------------------
(* everybody else *)

\* Other programs move the head of a repository.
Elsewhere ==
    /\ \E r \in Repo : head[r] < MaxHead /\ head' = [head EXCEPT ![r] = @ + 1]
    /\ UNCHANGED <<directory, context, reader, budget>>

Crash == crashes < MaxCrashes /\ crashes' = crashes + 1

\* The process is killed: no destructor runs.
Kill(p) ==
    /\ pc[p] \notin {"start", "exit", "dead"} /\ Crash
    /\ Goto(p, "dead")
    /\ UNCHANGED <<directory, head, done, events, poisoned, target, before, reader, faults,
                   damage>>

\* The power fails: every file is one of the things it may be.
PowerLoss ==
    /\ made /\ Crash
    /\ \E p \in kept.pending, f \in kept.frozen, e \in kept.events,
          t \in kept.tmp, r \in kept.receipt, i \in kept.incomplete :
        seen' = [pending |-> p, frozen |-> f, events |-> e, tmp |-> t, receipt |-> r,
                 incomplete |-> i]
    /\ kept' = KeptAs(seen')
    /\ pc' = [p \in Process |-> IF pc[p] \in {"start", "exit"} THEN pc[p] ELSE "dead"]
    /\ at' = "idle"
    /\ UNCHANGED <<made, head, done, events, poisoned, target, before, code, got, verdict,
                   faults, damage>>

\* Somebody writes into the evidence.
Damage ==
    /\ damage < MaxDamage /\ damage' = damage + 1
    /\ \E n \in {"events", "frozen"} :
        /\ seen[n].there
        /\ seen' = Put(n, seen[n].text \o (IF n = "events" THEN <<TornLine>> ELSE <<"more">>))
        /\ kept' = [kept EXCEPT ![n] = {seen'[n]}]
    /\ UNCHANGED <<made, head, context, reader, faults, crashes>>

Work(p) ==
    \/ Reserve(p) \/ CreateFile(p)
    \/ Begin(p) \/ Act(p) \/ Append1(p) \/ MarkSpoiled(p)
    \/ Finalize(p) \/ CheckEvents(p) \/ WriteReceipt(p) \/ RecheckEvents(p)
    \/ Link(p) \/ SyncReceipt(p) \/ ClearPending(p) \/ MarkIncomplete(p)

Look == OpenRun \/ ProbeIncomplete \/ ProbePending \/ ReadEvidence \/ ReadFrozen

Next ==
    \/ \E p \in Process : Work(p) \/ Kill(p)
    \/ Look
    \/ Elsewhere \/ PowerLoss \/ Damage

Spec == Init /\ [][Next]_vars

-----------------------------------------------------------------------------
(* what the evidence is worth *)

\* A reader that looked now would verify the attempt.
Verifiable ==
    /\ ~seen.pending.there /\ ~seen.incomplete.there
    /\ \A n \in DOMAIN got : seen[n].there
    /\ Verified(seen.events, seen.receipt, seen.frozen)

\* What a reader verified is what every later reader will find: a verdict is never given
\* on evidence that a power loss could still take back (1466-1499, reader 767-769).
VerifiedIsDurable ==
    verdict = "ready" /\ damage = 0 => \A n \in DOMAIN got : kept[n] = {got[n]}

\* A verified attempt tells of every action of the run, also where somebody changed the
\* evidence: no event is missing that could not be written, that came after the receipt or
\* that was taken for another (1278-1281, 1399-1402).
VerifiedTellsAll ==
    verdict = "ready" => \E p \in Process : got.events.text = events[p] /\ ~poisoned[p]

\* Where Finalize returned true the attempt verifies, then and after every crash, unless a
\* second owner of the same attempt was refused and has left its mark in the directory
\* (1221-1229): what the operation reported as audited stays audited.
FinalIsVerified ==
    \A p \in Process : done[p] = "final" /\ damage = 0 =>
        Verifiable \/ (seen.incomplete.there /\ \E q \in Process : done[q] = "refused")

\* Evidence with a receipt verifies or carries a mark, at every moment, whoever owns or was
\* refused the attempt, however many writes failed and after every kill and power loss. An
\* owner that came to its end has finalized the attempt, whatever others did to the
\* repositories meanwhile; or a write of it failed, and after one such failure, receipt or
\* not, the attempt verifies or says that it is incomplete (kog-audit-contract-v1.md: a
\* truthful terminal receipt or explicit incomplete evidence).
EndIsExplained ==
    damage = 0 =>
        /\ seen.receipt.there => Verifiable \/ seen.incomplete.there \/ seen.pending.there
        /\ \A p \in Process : pc[p] = "exit" /\ done[p] # "refused" =>
              /\ faults = 0 => done[p] = "final"
              /\ faults <= 1 => Verifiable \/ seen.incomplete.there
=============================================================================
