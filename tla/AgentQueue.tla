----------------------------- MODULE AgentQueue -----------------------------
(***************************************************************************)
(* kog agent-queue admit / drain / complete and the queue side of          *)
(* kog commit --exact-path, run by processes in several worktrees of one   *)
(* repository.  They share <git-common-dir>/kano-agent-queue:              *)
(*   mutation.lock  a directory; creating it is taking the lock, and only  *)
(*                  the destructor of the process that made it removes it; *)
(*   state.json     read under the lock, replaced by rename.               *)
(* HEAD belongs to a worktree, and plain git moves it without the lock.    *)
(***************************************************************************)
EXTENDS QueueRules

CONSTANTS
    Proc, Worktree,
    Path,           \* files of the repository
    MaxCommit,      \* bound: commits made after the initial one, 0
    MaxAdmission,   \* bound: admissions
    MaxFault,       \* bound: crashes and failed reads or writes
    MaxLine         \* bound: lines of a file

ASSUME CommitAssumption == MaxCommit \in Nat /\ Commit = 0..MaxCommit
ASSUME BoundAssumption == MaxAdmission \in Nat /\ MaxFault \in Nat /\ MaxLine \in Nat
\* Chunks are pairs of line numbers, <<start, end>>.
ASSUME IntentAssumption ==
    Intent \subseteq [files : SUBSET Path, chunks : [Path -> SUBSET (Nat \X Nat)],
                      post : [Path -> STRING]]

VARIABLES
    lockDir,        \* does mutation.lock exist
    disk,           \* state.json
    head,           \* HEAD of every worktree
    lastCommit,     \* commit ids given out so far
    pc, cmd,        \* where a process is, and the command it runs
    copy, seen,     \* the state and the HEAD it has read
    admissions, drains, faults

procVars == <<pc, cmd, copy, seen>>
countVars == <<admissions, drains, faults>>
vars == <<lockDir, disk, head, lastCommit, procVars, countVars>>

Statuses == {"succeeded", "failed", "cancelled"}
NoCommand == [op |-> "none"]

Commands ==
    [op : {"admit"}, wt : Worktree, id : ItemId, intent : Intent]
    \cup [op : {"drain"}, wt : Worktree, confirm : BOOLEAN]
    \cup [op : {"complete"}, wt : Worktree, batch : 1..MaxAdmission,
          status : Statuses]
    \cup [op : {"commit"}, wt : Worktree, batch : 0..MaxAdmission,
          paths : (SUBSET Path) \ {{}}]

Init ==
    /\ lockDir = FALSE
    /\ disk = EmptyState
    /\ head = [w \in Worktree |-> 0]
    /\ lastCommit = 0
    /\ pc = [p \in Proc |-> "idle"]
    /\ cmd = [p \in Proc |-> NoCommand]
    /\ copy = [p \in Proc |-> EmptyState]
    /\ seen = [p \in Proc |-> 0]
    /\ admissions = 0 /\ drains = 0 /\ faults = 0

Goto(p, l) == pc' = [pc EXCEPT ![p] = l]

-----------------------------------------------------------------------------
(***************************************************************************)
(* AcquireQueueLock.  When the directory exists the command returns        *)
(* queue_locked and has done nothing: no step.                             *)
(***************************************************************************)
Start(p, c) ==
    /\ pc[p] = "idle" /\ ~lockDir
    /\ lockDir' = TRUE
    /\ cmd' = [cmd EXCEPT ![p] = c]
    /\ Goto(p, "locked")
    /\ UNCHANGED <<disk, head, lastCommit, copy, seen, countVars>>

BatchFiles(b) == UNION {b.items[i].intent.files : i \in DOMAIN b.items}

\* Mutant: an id may be admitted twice.
AcceptedTwice(c, st) ==
    CASE c.op = "admit" -> TRUE
      [] c.op = "drain" -> st.active = NoBatch /\ st.pending # <<>>
      [] c.op = "complete" -> st.active # NoBatch /\ st.active.id = c.batch
      [] c.op = "commit" ->
            IF st.active = NoBatch THEN c.batch = 0
            ELSE c.batch = st.active.id /\ c.paths \subseteq BatchFiles(st.active)

(***************************************************************************)
(* The checks a command makes on the state it loaded.  Admission compares  *)
(* its id with the pending items and with the id of the active batch, not  *)
(* with the items of that batch; batch ids ("batch-<time>") are no item id *)
(* here.                                                                   *)
(***************************************************************************)
Accepted(c, st) ==
    CASE c.op = "admit" -> \A i \in DOMAIN st.pending : st.pending[i].id # c.id
      [] c.op = "drain" -> st.active = NoBatch /\ st.pending # <<>>
      [] c.op = "complete" -> st.active # NoBatch /\ st.active.id = c.batch
      [] c.op = "commit" ->
            IF st.active = NoBatch THEN c.batch = 0
            ELSE c.batch = st.active.id /\ c.paths \subseteq BatchFiles(st.active)

\* Mutant: a refused command waits, lock in hand, for the state to change.
LoadStateWaits(p) ==
    /\ pc[p] = "locked"
    /\ copy' = [copy EXCEPT ![p] = disk]
    /\ Goto(p, IF ~Accepted(cmd[p], disk) THEN "locked"
               ELSE IF cmd[p].op = "complete" THEN "save" ELSE "head")
    /\ UNCHANGED <<lockDir, disk, head, lastCommit, cmd, seen, countVars>>

\* LoadState, and the checks of the loaded state that come before HEAD is read.
LoadState(p) ==
    /\ pc[p] = "locked"
    /\ copy' = [copy EXCEPT ![p] = disk]
    /\ Goto(p, IF ~Accepted(cmd[p], disk) THEN "unlock"
               ELSE IF cmd[p].op = "complete" THEN "save" ELSE "head")
    /\ UNCHANGED <<lockDir, disk, head, lastCommit, cmd, seen, countVars>>

\* git rev-parse HEAD, and what is decided from it.
ReadHead(p) ==
    LET c == cmd[p]
        h == head[c.wt]
        st == copy[p]
    IN  /\ pc[p] = "head"
        /\ seen' = [seen EXCEPT ![p] = h]
        /\ Goto(p, CASE c.op = "admit" -> "save"
                     [] c.op = "drain" -> IF CanBatch(st.pending, h) /\ c.confirm
                                          THEN "save" ELSE "unlock"
                     [] c.op = "commit" ->
                           IF st.active # NoBatch /\ st.active.baseHead # h
                           THEN "unlock" ELSE "commit")
        /\ UNCHANGED <<lockDir, disk, head, lastCommit, cmd, copy, countVars>>

\* The state a command saves, from the one it loaded.
Updated(c, st, h) ==
    CASE c.op = "admit" ->
           [st EXCEPT !.pending = Append(@, [at |-> admissions + 1, id |-> c.id,
                                             baseHead |-> h, intent |-> c.intent])]
      [] c.op = "drain" ->
           [st EXCEPT !.pending = <<>>,
                      !.active = [id |-> drains + 1, baseHead |-> h,
                                  items |-> st.pending]]
      [] c.op = "complete" ->
           [st EXCEPT !.active = NoBatch,
                      !.receipts = AddReceipt(@, [id |-> st.active.id,
                                                  baseHead |-> st.active.baseHead,
                                                  items |-> st.active.items,
                                                  status |-> c.status])]

\* SaveState: a temporary file, then ReplaceFileAtomically.
SaveState(p) ==
    /\ pc[p] = "save"
    /\ cmd[p].op = "admit" => admissions < MaxAdmission
    /\ disk' = Updated(cmd[p], copy[p], seen[p])
    /\ admissions' = IF cmd[p].op = "admit" THEN admissions + 1 ELSE admissions
    /\ drains' = IF cmd[p].op = "drain" THEN drains + 1 ELSE drains
    /\ Goto(p, "unlock")
    /\ UNCHANGED <<lockDir, head, lastCommit, cmd, copy, seen, faults>>

\* RunExactPathCommit prepares its index and finds HEAD where it was
\* (ExactPathCommit has the steps of it).
Prepare(p) ==
    /\ pc[p] = "commit"
    /\ head[cmd[p].wt] = seen[p]
    /\ Goto(p, "git")
    /\ UNCHANGED <<lockDir, disk, head, lastCommit, cmd, copy, seen, countVars>>

\* git commit takes whatever HEAD is by then as the parent.
GitCommit(p) ==
    /\ pc[p] = "git" /\ lastCommit < MaxCommit
    /\ lastCommit' = lastCommit + 1
    /\ head' = [head EXCEPT ![cmd[p].wt] = lastCommit + 1]
    /\ Goto(p, "unlock")
    /\ UNCHANGED <<lockDir, disk, cmd, copy, seen, countVars>>

\* A command stops on an error: state unreadable, HEAD unavailable, state not
\* written; a dry run, nothing to commit, HEAD found moved, commit refused.
Abandon(p) ==
    /\ pc[p] \in {"locked", "head", "save", "commit", "git"}
    /\ \/ pc[p] \in {"commit", "git"} /\ UNCHANGED faults
       \/ pc[p] = "save" /\ cmd[p].op = "admit" /\ admissions = MaxAdmission
          /\ UNCHANGED faults
       \/ faults < MaxFault /\ faults' = faults + 1
    /\ Goto(p, "unlock")
    /\ UNCHANGED <<lockDir, disk, head, lastCommit, cmd, copy, seen, admissions,
                   drains>>

\* ~ScopedDirectoryLock, and the process ends.
Unlock(p) ==
    /\ pc[p] = "unlock"
    /\ lockDir' = FALSE
    /\ Goto(p, "idle")
    /\ cmd' = [cmd EXCEPT ![p] = NoCommand]
    /\ copy' = [copy EXCEPT ![p] = EmptyState]
    /\ seen' = [seen EXCEPT ![p] = 0]
    /\ UNCHANGED <<disk, head, lastCommit, countVars>>

\* The process is killed while it owns the lock: no destructor runs.
Crash(p) ==
    /\ pc[p] # "idle" /\ pc[p] # "dead" /\ faults < MaxFault
    /\ Goto(p, "dead")
    /\ faults' = faults + 1
    /\ UNCHANGED <<lockDir, disk, head, lastCommit, cmd, copy, seen, admissions,
                   drains>>

\* git commit by anything that is not kog: no lock is taken.
RawCommit(w) ==
    /\ lastCommit < MaxCommit
    /\ lastCommit' = lastCommit + 1
    /\ head' = [head EXCEPT ![w] = lastCommit + 1]
    /\ UNCHANGED <<lockDir, disk, procVars, countVars>>

-----------------------------------------------------------------------------
Continue(p) ==
    LoadState(p) \/ ReadHead(p) \/ SaveState(p) \/ Prepare(p) \/ GitCommit(p)
    \/ Unlock(p)

Next ==
    \/ \E p \in Proc : \/ \E c \in Commands : Start(p, c)
                       \/ Continue(p) \/ Abandon(p) \/ Crash(p)
    \/ \E w \in Worktree : RawCommit(w)

Spec == Init /\ [][Next]_vars

\* A command that holds the lock runs to its end unless it is killed: nothing
\* in it waits for another process.
FairSpec == Spec /\ \A p \in Proc : WF_vars(Continue(p) \/ Abandon(p))

-----------------------------------------------------------------------------
Holds(p) == pc[p] \notin {"idle", "dead"}

\* TypeOK: state.json and what the processes read of it keep their shape.
States == [pending : Seq(Item), active : Batch \cup {NoBatch},
           receipts : Seq(Receipt)]
TypeOK ==
    /\ lockDir \in BOOLEAN
    /\ disk \in States
    /\ head \in [Worktree -> Commit] /\ lastCommit \in Commit
    /\ pc \in [Proc -> {"idle", "locked", "head", "save", "commit", "git",
                        "unlock", "dead"}]
    /\ cmd \in [Proc -> Commands \cup {NoCommand}]
    /\ copy \in [Proc -> States] /\ seen \in [Proc -> Commit]
    /\ admissions \in 0..MaxAdmission /\ drains \in Nat /\ faults \in 0..MaxFault

\* MutationExclusive: mutation.lock exists for at most one living owner, and
\* what the owner has loaded is what the file holds until it saves.  (A lost update
\* is two commands that saved states derived from the same file.)
MutationExclusive ==
    /\ \A p, q \in Proc : Holds(p) /\ Holds(q) => p = q
    /\ \A p \in Proc : Holds(p) => lockDir
    /\ \A p \in Proc : pc[p] \in {"head", "save", "commit", "git"} => copy[p] = disk

(***************************************************************************)
(* IInv: why the commands are atomic.  Whoever is past the creation of the *)
(* directory, dead or alive, is alone there; so what it decided on the     *)
(* loaded state still holds when it saves or commits.                      *)
(***************************************************************************)
LockOwner ==
    /\ \A p, q \in Proc : pc[p] # "idle" /\ pc[q] # "idle" => p = q
    /\ \A p \in Proc : pc[p] # "idle" => lockDir /\ cmd[p] \in Commands
Decided(p) ==
    LET c == cmd[p]
        st == copy[p]
    IN  /\ st = disk /\ Accepted(c, st)
        /\ pc[p] = "head" => c.op # "complete"
        /\ pc[p] = "save" => c.op # "commit"
        /\ pc[p] = "save" /\ c.op = "drain" => CanBatch(st.pending, seen[p])
        /\ pc[p] \in {"commit", "git"} => c.op = "commit"
        /\ pc[p] \in {"commit", "git"} /\ st.active # NoBatch
               => st.active.baseHead = seen[p]
IInv ==
    /\ TypeOK /\ LockOwner
    /\ \A p \in Proc : pc[p] \in {"head", "save", "commit", "git"} => Decided(p)

\* The batches that a state tells of, oldest first.
Batches(st) == st.receipts \o (IF st.active = NoBatch THEN <<>> ELSE <<st.active>>)

\* The items are the admissions a + 1 to b.
Spans(items, a, b) ==
    b = a + Len(items) /\ \A k \in DOMAIN items : items[k].at = a + k

\* A state after so many admissions and drains tells of the last ones, in order.
Tells(st, admitted, drained) ==
    LET batches == Batches(st)
        n == Len(batches)
        done == drained - (IF st.active = NoBatch THEN 0 ELSE 1)
        planned == admitted - Len(st.pending)
        Before(i) == batches[i].items[1].at - 1
        After(i) == IF i < n THEN Before(i + 1) ELSE planned
    IN  /\ \A i \in 1..n : /\ batches[i].id = drained - n + i
                           /\ batches[i].items # <<>>
                           /\ Spans(batches[i].items, Before(i), After(i))
        /\ Spans(st.pending, planned, admitted)
        /\ Len(st.receipts) = IF done < ReceiptCap THEN done ELSE ReceiptCap
        /\ drained = n => (IF n = 0 THEN planned ELSE Before(1)) = 0

\* Ledger: no admission is lost, repeated or reordered: the items of the receipts,
\* of the active batch and of the pending list are, in this order, the last so many
\* admissions, and all of them where no receipt was cut; the receipts are those of
\* the newest batches, and no batch is empty.
Ledger == Tells(disk, admissions, drains)

\* The lines of a file an intent is about; no range at all is every line.
Touches(intent, f, line) ==
    f \in intent.files
    /\ (intent.chunks[f] = {} \/ \E c \in intent.chunks[f] : line \in c[1]..c[2])

\* ConflictFree: the items of an active batch were planned on its base HEAD,
\* and no two touch the same line unless they declared the same postcondition.
ConflictFree ==
    disk.active # NoBatch =>
        LET it == disk.active.items
        IN  \A i, j \in DOMAIN it :
                /\ it[i].baseHead = disk.active.baseHead
                /\ i # j => \A f \in Path, line \in 1..MaxLine :
                       /\ Touches(it[i].intent, f, line)
                       /\ Touches(it[j].intent, f, line)
                       => /\ it[i].intent.post[f] # ""
                          /\ it[i].intent.post[f] = it[j].intent.post[f]

\* BatchOwnsRepository: while a batch is active, in whatever worktree, KOG
\* commits only for that batch, after seeing its base HEAD, and inside its
\* files.
BatchOwnsRepository ==
    [][\A p \in Proc :
          pc[p] = "git" /\ pc'[p] = "unlock" /\ lastCommit' # lastCommit
              /\ disk.active # NoBatch
          => /\ cmd[p].batch = disk.active.id
             /\ seen[p] = disk.active.baseHead
             /\ cmd[p].paths \subseteq BatchFiles(disk.active)]_vars

\* OrphanLockFreezes: a lock directory left by a killed process is never
\* taken over: nothing changes the queue or the directory again.
OrphanLockFreezes ==
    [][(\E p \in Proc : pc[p] = "dead") => UNCHANGED <<lockDir, disk>>]_vars

\* LockReleased: the lock directory does not stay, but where its process was
\* killed.
LockReleased == lockDir ~> (~lockDir \/ \E p \in Proc : pc[p] = "dead")

\* Implements: the processes together are one queue with atomic commands.
Abstract == INSTANCE MutationQueue WITH queue <- disk
Implements == Abstract!QSpec

=============================================================================
