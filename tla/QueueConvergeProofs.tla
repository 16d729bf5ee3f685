-------------------------- MODULE QueueConvergeProofs --------------------------
(***************************************************************************)
(* Proofs about the two commands that keep what they are doing in a file,  *)
(* for a later call to go on with: the agent mutation queue, and converge. *)
(*                                                                         *)
(* AgentQueue, for any number of processes, worktrees, items, intents and  *)
(* commits: IInv is inductive; under it every saved state is one atomic    *)
(* command of MutationQueue.                                               *)
(*                                                                         *)
(* Converge, for any tree of repositories in any consistent state, any     *)
(* number of mishaps, and any number of passes.  PhaseInv says where in    *)
(* its nine phases a call is, also one that a file has been resumed from;  *)
(* PublishInv, that a parent which may still be pushed pins what is        *)
(* published, or will be by the time it is pushed; LookInv and CalmInv,    *)
(* what the last look at the repositories has found.                       *)
(*                                                                         *)
(* Ancestors and CanConverge are recursive functions over the tree.  What  *)
(* they compute is proved from the least number that it would be wrong at: *)
(* a set of natural numbers that is not empty has a least one.             *)
(***************************************************************************)
EXTENDS AgentQueue, Converge, FiniteSetTheorems, WellFoundedInduction, TLAPS

-----------------------------------------------------------------------------
(* The agent queue *)

\* The shape of a command by its kind.
LEMMA CommandShape ==
    ASSUME NEW c \in Commands
    PROVE  /\ c.op \in {"admit", "drain", "complete", "commit"}
           /\ c.wt \in Worktree
           /\ c.op = "admit" => c.id \in ItemId /\ c.intent \in Intent
           /\ c.op = "drain" => c.confirm \in BOOLEAN
           /\ c.op = "complete" => c.status \in Statuses
           /\ c.op = "commit" => c.batch \in Nat /\ c.paths \subseteq Path
BY BoundAssumption DEF Commands

\* A list of receipts stays one when a receipt is added.
LEMMA AddReceiptType ==
    ASSUME NEW rs \in Seq(Receipt), NEW r \in Receipt
    PROVE  AddReceipt(rs, r) \in Seq(Receipt)
BY ReceiptCapAssumption DEF AddReceipt

\* The state a command saves is a state.
LEMMA UpdatedType ==
    ASSUME NEW c \in Commands, NEW st \in States, NEW h \in Commit,
           c.op # "commit", admissions \in Nat, drains \in Nat,
           c.op = "complete" => st.active # NoBatch
    PROVE  Updated(c, st, h) \in States
<1> USE CommandShape
<1>1. CASE c.op = "admit"
  <2>1. [at |-> admissions + 1, id |-> c.id, baseHead |-> h,
         intent |-> c.intent] \in Item
    BY <1>1 DEF Item
  <2> DEFINE it == [at |-> admissions + 1, id |-> c.id, baseHead |-> h,
                    intent |-> c.intent]
  <2>2. Updated(c, st, h) = [st EXCEPT !.pending = Append(@, it)]
    BY <1>1 DEF Updated
  <2>3. Append(st.pending, it) \in Seq(Item)
    BY <2>1 DEF States
  <2> HIDE DEF it
  <2> QED BY <2>2, <2>3 DEF States
<1>2. CASE c.op = "drain"
  <2>1. [id |-> drains + 1, baseHead |-> h, items |-> st.pending] \in Batch
    BY DEF Batch, States
  <2> DEFINE b == [id |-> drains + 1, baseHead |-> h, items |-> st.pending]
  <2>2. Updated(c, st, h) = [st EXCEPT !.pending = <<>>, !.active = b]
    BY <1>2 DEF Updated
  <2>3. b \in Batch /\ <<>> \in Seq(Item)
    BY <2>1
  <2> HIDE DEF b
  <2> QED BY <2>2, <2>3 DEF States
<1>3. CASE c.op = "complete"
  <2>1. st.active \in Batch
    BY <1>3 DEF States
  <2> DEFINE r == [id |-> st.active.id, baseHead |-> st.active.baseHead,
                   items |-> st.active.items, status |-> c.status]
  <2>2. r \in Receipt
    BY <1>3, <2>1 DEF Batch, Receipt, Statuses
  <2>3. AddReceipt(st.receipts, r) \in Seq(Receipt)
    BY <2>2, AddReceiptType DEF States
  <2> QED BY <1>3, <2>3 DEF Updated, States
<1> QED BY <1>1, <1>2, <1>3

\* HEAD values are numbered.
LEMMA CommitNumbers ==
    0 \in Commit /\ \A n \in Commit : n < MaxCommit => n + 1 \in Commit
BY CommitAssumption

LEMMA EmptyStateType == EmptyState \in States
BY DEF EmptyState, States, NoBatch

-----------------------------------------------------------------------------
LEMMA InitIInv == Init => IInv
<1> SUFFICES ASSUME Init PROVE IInv
  OBVIOUS
<1>1. TypeOK
  <2>1. /\ head \in [Worktree -> Commit] /\ lastCommit \in Commit
        /\ seen \in [Proc -> Commit]
    BY CommitNumbers DEF Init
  <2>2. admissions \in 0..MaxAdmission /\ drains \in Nat /\ faults \in 0..MaxFault
    BY BoundAssumption DEF Init
  <2>3. disk \in States /\ copy \in [Proc -> States]
    BY EmptyStateType DEF Init
  <2> QED BY <2>1, <2>2, <2>3 DEF Init, TypeOK
<1> QED BY <1>1 DEF Init, IInv, LockOwner

\* One step keeps the shape of the variables.
LEMMA NextTypeOK == IInv /\ [Next]_vars => TypeOK'
<1> SUFFICES ASSUME IInv, [Next]_vars PROVE TypeOK'
  OBVIOUS
<1> USE BoundAssumption DEF IInv, TypeOK, Goto, countVars, procVars
<1>1. ASSUME NEW p \in Proc, NEW c \in Commands, Start(p, c) PROVE TypeOK'
  BY <1>1 DEF Start
<1>2. ASSUME NEW p \in Proc, LoadState(p) PROVE TypeOK'
  BY <1>2 DEF LoadState
<1>3. ASSUME NEW p \in Proc, ReadHead(p) PROVE TypeOK'
  <2>1. cmd[p] \in Commands
    BY <1>3 DEF ReadHead, LockOwner
  <2>2. head[cmd[p].wt] \in Commit
    BY <2>1, CommandShape
  <2>3. cmd[p].op # "complete" /\ cmd[p].op \in {"admit", "drain", "complete", "commit"}
    BY <1>3, <2>1, CommandShape DEF ReadHead, Decided
  <2> QED BY <1>3, <2>2, <2>3 DEF ReadHead
<1>4. ASSUME NEW p \in Proc, SaveState(p) PROVE TypeOK'
  <2>1. cmd[p] \in Commands /\ Decided(p)
    BY <1>4 DEF SaveState, LockOwner
  <2>2. cmd[p].op # "commit" /\ Accepted(cmd[p], copy[p])
    BY <1>4, <2>1 DEF SaveState, Decided
  <2>3. cmd[p].op = "complete" => copy[p].active # NoBatch
    BY <2>2 DEF Accepted
  <2>4. disk' \in States
    BY <1>4, <2>1, <2>2, <2>3, UpdatedType DEF SaveState
  <2> QED BY <1>4, <2>4 DEF SaveState
<1>5. ASSUME NEW p \in Proc, Prepare(p) PROVE TypeOK'
  BY <1>5 DEF Prepare
<1>6. ASSUME NEW p \in Proc, GitCommit(p) PROVE TypeOK'
  <2>1. lastCommit + 1 \in Commit
    BY <1>6, CommitNumbers DEF GitCommit
  <2> QED BY <1>6, <2>1 DEF GitCommit
<1>7. ASSUME NEW p \in Proc, Unlock(p) PROVE TypeOK'
  BY <1>7, EmptyStateType, CommitNumbers DEF Unlock
<1>8. ASSUME NEW p \in Proc, Abandon(p) PROVE TypeOK'
  BY <1>8 DEF Abandon
<1>9. ASSUME NEW p \in Proc, Crash(p) PROVE TypeOK'
  BY <1>9 DEF Crash
<1>10. ASSUME NEW w \in Worktree, RawCommit(w) PROVE TypeOK'
  <2>1. lastCommit + 1 \in Commit
    BY <1>10, CommitNumbers DEF RawCommit
  <2> QED BY <1>10, <2>1 DEF RawCommit
<1>11. CASE UNCHANGED vars
  BY <1>11 DEF vars
<1> QED BY <1>1, <1>2, <1>3, <1>4, <1>5, <1>6, <1>7, <1>8, <1>9, <1>10, <1>11
        DEF Next, Continue

\* Only the owner of the directory leaves the idle state, and it is alone.
LEMMA NextLockOwner == IInv /\ [Next]_vars => LockOwner'
<1> SUFFICES ASSUME IInv, [Next]_vars PROVE LockOwner'
  OBVIOUS
<1> USE DEF IInv, TypeOK, LockOwner, Goto, countVars, procVars
<1>1. ASSUME NEW p \in Proc, NEW c \in Commands, Start(p, c) PROVE LockOwner'
  BY <1>1 DEF Start
<1>2. ASSUME NEW p \in Proc, Continue(p) \/ Abandon(p) \/ Crash(p), ~Unlock(p)
      PROVE  LockOwner'
  <2>1. pc[p] # "idle" /\ UNCHANGED <<lockDir, cmd>>
        /\ \A q \in Proc : q # p => pc'[q] = pc[q]
    BY <1>2 DEF Continue, LoadState, ReadHead, SaveState, Prepare, GitCommit,
                Abandon, Crash
  <2> QED BY <2>1
<1>3. ASSUME NEW p \in Proc, Unlock(p) PROVE LockOwner'
  BY <1>3 DEF Unlock
<1>4. ASSUME NEW w \in Worktree, RawCommit(w) PROVE LockOwner'
  BY <1>4 DEF RawCommit
<1>5. CASE UNCHANGED vars
  BY <1>5 DEF vars
<1> QED BY <1>1, <1>2, <1>3, <1>4, <1>5 DEF Next

Busy == {"head", "save", "commit", "git"}

\* What the owner decided is not undone under it.
LEMMA NextDecided ==
    IInv /\ [Next]_vars => \A p \in Proc : pc'[p] \in Busy => Decided(p)'
<1> SUFFICES ASSUME IInv, [Next]_vars, NEW q \in Proc, pc'[q] \in Busy
             PROVE  Decided(q)'
  OBVIOUS
<1> USE DEF IInv, TypeOK, LockOwner, Goto, countVars, procVars, Busy
<1>0. ASSUME UNCHANGED <<disk, pc, cmd, copy, seen>> PROVE Decided(q)'
  BY <1>0 DEF Decided
<1>1. ASSUME NEW p \in Proc, NEW c \in Commands, Start(p, c) PROVE Decided(q)'
  BY <1>1 DEF Start
<1>2. ASSUME NEW p \in Proc, LoadState(p) PROVE Decided(q)'
  <2>1. p = q
    BY <1>2 DEF LoadState
  <2> QED BY <1>2, <2>1, CommandShape DEF LoadState, Decided
<1>3. ASSUME NEW p \in Proc, ReadHead(p) PROVE Decided(q)'
  <2>1. p = q /\ cmd[p] \in Commands /\ Decided(p)
    BY <1>3 DEF ReadHead
  <2>2. Accepted(cmd[q], copy[q])'
    BY <1>3, <2>1 DEF ReadHead, Decided
  <2> QED BY <1>3, <2>1, <2>2, CommandShape DEF ReadHead, Decided
<1>4. ASSUME NEW p \in Proc, SaveState(p) PROVE Decided(q)'
  BY <1>4 DEF SaveState
<1>5. ASSUME NEW p \in Proc, Prepare(p) PROVE Decided(q)'
  <2>1. p = q /\ Decided(p)
    BY <1>5 DEF Prepare
  <2> QED BY <1>5, <2>1 DEF Prepare, Decided
<1>6. ASSUME NEW p \in Proc, GitCommit(p) PROVE Decided(q)'
  BY <1>6 DEF GitCommit
<1>7. ASSUME NEW p \in Proc, Unlock(p) PROVE Decided(q)'
  BY <1>7 DEF Unlock
<1>8. ASSUME NEW p \in Proc, Abandon(p) PROVE Decided(q)'
  BY <1>8 DEF Abandon
<1>9. ASSUME NEW p \in Proc, Crash(p) PROVE Decided(q)'
  BY <1>9 DEF Crash
<1>10. ASSUME NEW w \in Worktree, RawCommit(w) PROVE Decided(q)'
  BY <1>10, <1>0 DEF RawCommit
<1>11. CASE UNCHANGED vars
  BY <1>11, <1>0 DEF vars
<1> QED BY <1>1, <1>2, <1>3, <1>4, <1>5, <1>6, <1>7, <1>8, <1>9, <1>10, <1>11
        DEF Next, Continue

-----------------------------------------------------------------------------
\* The commands are atomic: IInv holds in every reachable state.
THEOREM QueueInvariant == Spec => []IInv
<1>1. IInv /\ [Next]_vars => IInv'
  BY NextTypeOK, NextLockOwner, NextDecided DEF IInv, Busy
<1> QED BY InitIInv, <1>1, PTL DEF Spec

\* state.json and the processes keep their shape.
THEOREM QueueTypes == Spec => []TypeOK
BY QueueInvariant, PTL DEF IInv

\* ScopedDirectoryLock makes the commands exclusive, and what its owner
\* loaded is what the file holds until the owner saves.
THEOREM QueueExclusive == Spec => []MutationExclusive
<1>1. IInv => MutationExclusive
  BY DEF IInv, LockOwner, Decided, MutationExclusive, Holds
<1> QED BY <1>1, QueueInvariant, PTL

\* A directory left behind by a killed process stops the queue for good.
THEOREM OrphanFreezes == Spec => OrphanLockFreezes
<1>1. IInv /\ [Next]_vars =>
        [(\E p \in Proc : pc[p] = "dead") => UNCHANGED <<lockDir, disk>>]_vars
  <2> SUFFICES ASSUME IInv, [Next]_vars, NEW d \in Proc, pc[d] = "dead"
               PROVE  UNCHANGED <<lockDir, disk>>
    OBVIOUS
  <2> USE DEF IInv, LockOwner
  <2>1. \A p \in Proc : pc[p] \in {"idle", "dead"}
    OBVIOUS
  <2>2. \A p \in Proc : ~Continue(p) /\ ~Abandon(p) /\ ~Crash(p)
                        /\ \A c \in Commands : ~Start(p, c)
    BY <2>1 DEF Continue, LoadState, ReadHead, SaveState, Prepare, GitCommit,
                Unlock, Abandon, Crash, Start
  <2> QED BY <2>2 DEF Next, RawCommit, vars
<1> QED BY <1>1, QueueInvariant, PTL DEF Spec, OrphanLockFreezes

\* While a batch is active KOG commits for it alone, on the HEAD it was
\* planned for, and only its files.
THEOREM ActiveBatchOwns == Spec => BatchOwnsRepository
<1> DEFINE CommitsForIt == \A p \in Proc :
          pc[p] = "git" /\ pc'[p] = "unlock" /\ lastCommit' # lastCommit
              /\ disk.active # NoBatch
          => /\ cmd[p].batch = disk.active.id
             /\ seen[p] = disk.active.baseHead
             /\ cmd[p].paths \subseteq BatchFiles(disk.active)
<1>1. IInv => CommitsForIt
  BY DEF IInv, Decided, Accepted
<1> QED BY <1>1, QueueInvariant, PTL DEF Spec, BatchOwnsRepository

-----------------------------------------------------------------------------
\* Every step of the processes is a command of the atomic queue or no step.
LEMMA StepSimulation == IInv /\ [Next]_vars => [Abstract!QNext]_(Abstract!qvars)
<1> SUFFICES ASSUME IInv, [Next]_vars
             PROVE  Abstract!QNext \/ UNCHANGED <<disk, admissions, drains>>
  BY DEF Abstract!qvars
<1>1. ASSUME NEW p \in Proc, SaveState(p) PROVE Abstract!QNext
  <2>0. Decided(p) /\ cmd[p] \in Commands /\ seen[p] \in Commit /\ disk \in States
    BY <1>1 DEF SaveState, IInv, LockOwner, TypeOK
  <2>1. /\ copy[p] = disk /\ Accepted(cmd[p], disk) /\ cmd[p].op # "commit"
        /\ cmd[p].op = "drain" => CanBatch(disk.pending, seen[p])
    BY <1>1, <2>0 DEF SaveState, Decided
  <2>2. CASE cmd[p].op = "admit"
    <3>1. Abstract!QAdmit(cmd[p].id, seen[p], cmd[p].intent)
      BY <1>1, <2>1, <2>2 DEF SaveState, Updated, Accepted, Abstract!QAdmit
    <3> QED BY <2>0, <2>2, <3>1, CommandShape DEF Abstract!QNext
  <2>3. CASE cmd[p].op = "drain"
    <3>1. disk.active = NoBatch /\ disk.pending # <<>>
      BY <2>1, <2>3 DEF Accepted
    <3>2. /\ disk' = [disk EXCEPT !.pending = <<>>,
                          !.active = [id |-> drains + 1, baseHead |-> seen[p],
                                      items |-> disk.pending]]
          /\ drains' = drains + 1 /\ UNCHANGED admissions
      BY <1>1, <2>1, <2>3 DEF SaveState, Updated
    <3>3. Abstract!QDrain(seen[p])
      BY <2>1, <2>3, <3>1, <3>2
         DEF Abstract!QDrain, Abstract!NoBatch, NoBatch, Abstract!CanBatch, CanBatch,
             Abstract!Compatible, Compatible, Abstract!ChunksDoNotOverlap,
             ChunksDoNotOverlap
    <3> QED BY <2>0, <3>3 DEF Abstract!QNext
  <2>4. CASE cmd[p].op = "complete"
    <3>1. Abstract!QComplete(cmd[p].status)
      BY <1>1, <2>1, <2>4
         DEF SaveState, Updated, Accepted, Abstract!QComplete, Abstract!NoBatch,
             NoBatch, Abstract!AddReceipt, AddReceipt
    <3> QED BY <2>0, <2>4, <3>1, CommandShape DEF Abstract!QNext, Statuses
  <2> QED BY <2>0, <2>1, <2>2, <2>3, <2>4, CommandShape
<1>2. ASSUME NEW p \in Proc,
             (\E c \in Commands : Start(p, c)) \/ LoadState(p) \/ ReadHead(p)
                 \/ Prepare(p) \/ GitCommit(p) \/ Unlock(p) \/ Abandon(p) \/ Crash(p)
      PROVE  UNCHANGED <<disk, admissions, drains>>
  BY <1>2 DEF Start, LoadState, ReadHead, Prepare, GitCommit, Unlock, Abandon,
              Crash, countVars
<1>3. ASSUME NEW w \in Worktree, RawCommit(w)
      PROVE  UNCHANGED <<disk, admissions, drains>>
  BY <1>3 DEF RawCommit, countVars
<1>4. CASE UNCHANGED vars
  BY <1>4 DEF vars, countVars
<1> QED BY <1>1, <1>2, <1>3, <1>4 DEF Next, Continue

\* The processes that share the lock directory and state.json implement one
\* queue whose commands are atomic.
THEOREM QueueImplements == Spec => Implements
<1>1. Init => Abstract!QInit
  BY DEF Init, Abstract!QInit, EmptyState, Abstract!EmptyState, NoBatch,
         Abstract!NoBatch
<1> QED BY <1>1, StepSimulation, QueueInvariant, PTL
        DEF Spec, Implements, Abstract!QSpec
-----------------------------------------------------------------------------
(* What the atomic commands keep: a state that tells of the last           *)
(* admissions in order still does after an admission, a drain and a        *)
(* completion.                                                             *)

\* A state and what its batches are: those of the receipts, then the active one.
LEMMA BatchesShape ==
    ASSUME NEW st \in States
    PROVE  /\ st.receipts \in Seq(Receipt) /\ st.pending \in Seq(Item)
           /\ Len(st.receipts) \in Nat /\ Len(st.pending) \in Nat
           /\ st.active = NoBatch => Batches(st) = st.receipts
           /\ st.active # NoBatch =>
                /\ Len(Batches(st)) = Len(st.receipts) + 1
                /\ Batches(st)[Len(st.receipts) + 1] = st.active
                /\ \A i \in 1..Len(st.receipts) : Batches(st)[i] = st.receipts[i]
<1>1. st.receipts \in Seq(Receipt) /\ st.pending \in Seq(Item)
  BY DEF States
<1>2. CASE st.active = NoBatch
  BY <1>1, <1>2 DEF Batches
<1>3. CASE st.active # NoBatch
  <2>1. Batches(st) = st.receipts \o <<st.active>>
    BY <1>3 DEF Batches
  <2> QED BY <1>1, <1>3, <2>1
<1> QED BY <1>1, <1>2, <1>3

\* An admission is the next item, and ends the pending list.
LEMMA AdmitTells ==
    ASSUME NEW st \in States, NEW a \in Nat, NEW d \in Nat, Tells(st, a, d),
           NEW it, it.at = a + 1
    PROVE  Tells([st EXCEPT !.pending = Append(@, it)], a + 1, d)
<1> DEFINE to == [st EXCEPT !.pending = Append(@, it)]
<1>1. /\ to.receipts = st.receipts /\ to.active = st.active
      /\ to.pending = Append(st.pending, it)
  BY DEF States
<1> HIDE DEF to
<1>2. Batches(to) = Batches(st)
  BY <1>1 DEF Batches
<1>3. st.pending \in Seq(Item) /\ Len(st.pending) \in Nat
  BY BatchesShape
<1>4. Len(to.pending) = Len(st.pending) + 1
  BY <1>1, <1>3
<1>5. (a + 1) - Len(to.pending) = a - Len(st.pending)
  BY <1>3, <1>4
<1>6. Spans(to.pending, a - Len(st.pending), a + 1)
  <2> DEFINE old == st.pending
             n == Len(old)
  <2>1. old \in Seq(Item) /\ n \in Nat /\ DOMAIN old = 1..n
    BY <1>3
  <2>2. Spans(old, a - n, a)
    BY DEF Tells
  <2>3. to.pending = Append(old, it)
    BY <1>1
  <2> HIDE DEF old, n
  <2>4. \A k \in 1..n : old[k].at = (a - n) + k
    BY <2>1, <2>2 DEF Spans
  <2>5. /\ DOMAIN Append(old, it) = 1..(n + 1) /\ Len(Append(old, it)) = n + 1
        /\ Append(old, it)[n + 1] = it /\ \A k \in 1..n : Append(old, it)[k] = old[k]
    BY <2>1 DEF n
  <2>6. ASSUME NEW k \in 1..(n + 1) PROVE Append(old, it)[k].at = (a - n) + k
    <3>1. CASE k = n + 1
      <4>1. (a - n) + k = a + 1
        BY <2>1, <3>1
      <4> QED BY <2>5, <3>1, <4>1
    <3>2. CASE k \in 1..n
      BY <2>4, <2>5, <3>2
    <3> QED BY <2>1, <3>1, <3>2
  <2>7. a + 1 = (a - n) + (n + 1)
    BY <2>1
  <2>8. Spans(Append(old, it), a - n, a + 1)
    BY <2>5, <2>6, <2>7 DEF Spans
  <2> QED BY <2>3, <2>8 DEF old, n
<1> QED BY <1>1, <1>2, <1>5, <1>6 DEF Tells, to

\* A drain makes the pending items one more batch.
LEMMA DrainTells ==
    ASSUME NEW st \in States, NEW a \in Nat, NEW d \in Nat, Tells(st, a, d), NEW h,
           st.active = NoBatch, st.pending # <<>>
    PROVE  Tells([st EXCEPT !.pending = <<>>,
                            !.active = [id |-> d + 1, baseHead |-> h,
                                        items |-> st.pending]], a, d + 1)
<1> DEFINE b == [id |-> d + 1, baseHead |-> h, items |-> st.pending]
           to == [st EXCEPT !.pending = <<>>, !.active = b]
           n == Len(st.receipts)
           planned == a - Len(st.pending)
           old == st.receipts
           new == Batches(to)
<1>1. /\ to.receipts = old /\ to.active = b /\ to.pending = <<>>
      /\ b # NoBatch /\ b.items = st.pending /\ b.id = d + 1
  BY DEF States, NoBatch
<1>2. /\ st.pending \in Seq(Item) /\ Len(st.pending) \in Nat \ {0}
      /\ old \in Seq(Receipt) /\ n \in Nat /\ planned \in Int
  BY BatchesShape
<1>3. Batches(st) = old
  BY BatchesShape
<1> HIDE DEF b, to
<1>4. /\ Len(new) = n + 1 /\ new[n + 1] = b
      /\ \A i \in 1..n : new[i] = old[i]
  <2>1. new = old \o <<b>>
    BY <1>1 DEF Batches
  <2> QED BY <1>2, <2>1
<1>5. Spans(st.pending, planned, a)
  BY DEF Tells
<1>6. st.pending[1].at - 1 = planned
  <2>1. 1 \in DOMAIN st.pending
    BY <1>2
  <2> QED BY <1>2, <1>5, <2>1 DEF Spans
<1>7. n = IF d < ReceiptCap THEN d ELSE ReceiptCap
  BY DEF Tells
<1>8. \A i \in 1..n : /\ old[i].id = d - n + i
                      /\ old[i].items # <<>>
                      /\ Spans(old[i].items, old[i].items[1].at - 1,
                               IF i < n THEN old[i + 1].items[1].at - 1 ELSE planned)
  BY <1>3 DEF Tells
<1>9. d = n => (IF n = 0 THEN planned ELSE old[1].items[1].at - 1) = 0
  BY <1>3 DEF Tells
<1> HIDE DEF n, planned, old, new
<1>10. new[n + 1].items[1].at - 1 = planned
  BY <1>1, <1>4, <1>6
<1>11. ASSUME NEW i \in 1..(n + 1)
       PROVE  /\ new[i].id = (d + 1) - (n + 1) + i
              /\ new[i].items # <<>>
              /\ Spans(new[i].items, new[i].items[1].at - 1,
                       IF i < n + 1 THEN new[i + 1].items[1].at - 1 ELSE a)
  <2>1. CASE i = n + 1
    <3>1. new[i].items = st.pending /\ new[i].id = d + 1 /\ ~(i < n + 1)
      BY <1>1, <1>2, <1>4, <2>1
    <3>2. (d + 1) - (n + 1) + i = d + 1
      BY <1>2, <2>1
    <3>3. Spans(new[i].items, new[i].items[1].at - 1, a)
      BY <1>5, <1>6, <3>1
    <3>4. st.pending # <<>>
      OBVIOUS
    <3> QED BY <3>1, <3>2, <3>3, <3>4
  <2>2. CASE i < n
    <3>1. i \in 1..n /\ i + 1 \in 1..n /\ i < n + 1
      BY <1>2, <2>2
    <3>2. new[i] = old[i] /\ new[i + 1] = old[i + 1]
      BY <1>4, <3>1
    <3>3. (d + 1) - (n + 1) + i = d - n + i
      BY <1>2
    <3> QED BY <1>8, <2>2, <3>1, <3>2, <3>3
  <2>3. CASE i = n
    <3>1. i \in 1..n /\ i < n + 1 /\ ~(i < n) /\ i + 1 = n + 1
      BY <1>2, <2>3
    <3>2. new[i] = old[i] /\ new[i + 1].items[1].at - 1 = planned
      BY <1>4, <1>10, <3>1
    <3>3. (d + 1) - (n + 1) + i = d - n + i
      BY <1>2
    <3> QED BY <1>8, <3>1, <3>2, <3>3
  <2> QED BY <1>2, <2>1, <2>2, <2>3
<1>12. Spans(<<>>, a, a) /\ Len(<<>>) = 0 /\ a - 0 = a
  BY DEF Spans
<1>13. d + 1 = n + 1 => new[1].items[1].at - 1 = 0
  <2>1. CASE n = 0
    <3>1. n + 1 = 1
      BY <2>1
    <3>2. new[1].items[1].at - 1 = planned
      BY <1>10, <3>1
    <3>3. d + 1 = n + 1 => planned = 0
      BY <1>2, <1>9, <2>1
    <3> QED BY <3>2, <3>3
  <2>2. CASE n # 0
    <3>1. 1 \in 1..n
      BY <1>2, <2>2
    <3>2. new[1] = old[1]
      BY <1>4, <3>1
    <3> QED BY <1>2, <1>9, <2>2, <3>2
  <2> QED BY <2>1, <2>2
<1>14. (d + 1) - 1 = d /\ Len(to.receipts) = n /\ n + 1 # 0
  BY <1>1, <1>2 DEF n, old
<1>15. Tells(to, a, d + 1)
  BY <1>1, <1>4, <1>7, <1>11, <1>12, <1>13, <1>14 DEF Tells, new
<1> QED BY <1>15 DEF to, b

\* What AddReceipt does to the receipts.
LEMMA AddReceiptShape ==
    ASSUME NEW rs \in Seq(Receipt), NEW r \in Receipt
    PROVE  LET n == Len(rs)
               cut == IF n + 1 > ReceiptCap THEN 1 ELSE 0
               all == AddReceipt(rs, r)
           IN  /\ all \in Seq(Receipt) /\ n \in Nat /\ Len(all) = n + 1 - cut
               /\ \A i \in 1..(n + 1 - cut) :
                      all[i] = IF i + cut = n + 1 THEN r ELSE rs[i + cut]
<1> DEFINE n == Len(rs)
           longer == Append(rs, r)
<1>1. /\ n \in Nat /\ longer \in Seq(Receipt) /\ Len(longer) = n + 1
      /\ \A i \in 1..(n + 1) : longer[i] = IF i = n + 1 THEN r ELSE rs[i]
  OBVIOUS
<1>2. AddReceipt(rs, r) = IF n + 1 > ReceiptCap THEN Tail(longer) ELSE longer
  BY <1>1 DEF AddReceipt
<1> HIDE DEF n, longer
<1>3. CASE n + 1 > ReceiptCap
  <2>1. /\ Tail(longer) \in Seq(Receipt) /\ Len(Tail(longer)) = n
        /\ \A i \in 1..n : Tail(longer)[i] = longer[i + 1] /\ i + 1 \in 1..(n + 1)
    BY <1>1
  <2> QED BY <1>1, <1>2, <1>3, <2>1 DEF n
<1>4. CASE ~(n + 1 > ReceiptCap)
  BY <1>1, <1>2, <1>4 DEF n
<1> QED BY <1>3, <1>4

\* A completion turns the active batch into the newest receipt, and the oldest
\* receipt goes where there are too many.
LEMMA CompleteTells ==
    ASSUME NEW st \in States, NEW a \in Nat, NEW d \in Nat, Tells(st, a, d),
           NEW r \in Receipt, st.active # NoBatch,
           r.id = st.active.id, r.items = st.active.items
    PROVE  Tells([st EXCEPT !.active = NoBatch, !.receipts = AddReceipt(@, r)], a, d)
<1> DEFINE to == [st EXCEPT !.active = NoBatch, !.receipts = AddReceipt(@, r)]
           n == Len(st.receipts)
           planned == a - Len(st.pending)
           cut == IF n + 1 > ReceiptCap THEN 1 ELSE 0
           old == Batches(st)
           new == AddReceipt(st.receipts, r)
           m == n + 1 - cut
<1>1. to.receipts = new /\ to.active = NoBatch /\ to.pending = st.pending
  BY DEF States
<1>2. /\ st.receipts \in Seq(Receipt) /\ n \in Nat /\ planned \in Int
      /\ cut \in {0, 1} /\ ReceiptCap \in Nat \ {0} /\ m \in Nat
  BY BatchesShape, ReceiptCapAssumption
<1>3. /\ Len(old) = n + 1 /\ old[n + 1] = st.active
      /\ \A i \in 1..n : old[i] = st.receipts[i]
  BY BatchesShape
<1>4. n = IF d - 1 < ReceiptCap THEN d - 1 ELSE ReceiptCap
  BY DEF Tells
<1>5. /\ new \in Seq(Receipt) /\ Len(new) = m
      /\ \A i \in 1..m : new[i] = IF i + cut = n + 1 THEN r ELSE st.receipts[i + cut]
  BY <1>2, AddReceiptShape
<1>6. Batches(to) = new
  BY <1>1, <1>5 DEF Batches
<1>7. \A i \in 1..(n + 1) :
          /\ old[i].id = d - (n + 1) + i
          /\ old[i].items # <<>>
          /\ Spans(old[i].items, old[i].items[1].at - 1,
                   IF i < n + 1 THEN old[i + 1].items[1].at - 1 ELSE planned)
  BY <1>3 DEF Tells
<1>8. d = n + 1 => (IF n + 1 = 0 THEN planned ELSE old[1].items[1].at - 1) = 0
  BY <1>3 DEF Tells
<1>9. Spans(st.pending, planned, a)
  BY DEF Tells
<1>10. m = n + 1 - cut /\ (n + 1 > ReceiptCap <=> cut = 1)
  OBVIOUS
<1> HIDE DEF to, n, planned, cut, old, new, m
<1>11. ASSUME NEW i \in 1..m
       PROVE  /\ i + cut \in 1..(n + 1)
              /\ new[i].id = old[i + cut].id /\ new[i].items = old[i + cut].items
  <2>1. i + cut \in 1..(n + 1)
    BY <1>2, <1>10
  <2>2. CASE i + cut = n + 1
    BY <1>3, <1>5, <2>1, <2>2
  <2>3. CASE i + cut \in 1..n
    <3>1. i + cut # n + 1
      BY <1>2, <2>3
    <3> QED BY <1>3, <1>5, <2>1, <2>3, <3>1
  <2> QED BY <1>2, <2>1, <2>2, <2>3
<1>12. ASSUME NEW i \in 1..m
       PROVE  /\ new[i].id = d - m + i
              /\ new[i].items # <<>>
              /\ Spans(new[i].items, new[i].items[1].at - 1,
                       IF i < m THEN new[i + 1].items[1].at - 1 ELSE planned)
  <2>1. /\ new[i].id = d - (n + 1) + (i + cut)
        /\ new[i].items # <<>>
        /\ Spans(new[i].items, new[i].items[1].at - 1,
                 IF i + cut < n + 1 THEN old[(i + cut) + 1].items[1].at - 1 ELSE planned)
    BY <1>7, <1>11
  <2>2. d - (n + 1) + (i + cut) = d - m + i
    BY <1>2, <1>10
  <2>3. CASE i < m
    <3>1. i + 1 \in 1..m /\ (i + 1) + cut = (i + cut) + 1 /\ i + cut < n + 1
      BY <1>2, <1>10, <2>3
    <3>2. new[i + 1].items = old[(i + cut) + 1].items
      BY <1>11, <3>1
    <3> QED BY <2>1, <2>2, <2>3, <3>1, <3>2
  <2>4. CASE i = m
    <3>1. ~(i < m) /\ ~(i + cut < n + 1)
      BY <1>2, <1>10, <2>4
    <3> QED BY <2>1, <2>2, <3>1
  <2> QED BY <1>2, <2>3, <2>4
<1>13. m = IF d < ReceiptCap THEN d ELSE ReceiptCap
  BY <1>2, <1>4, <1>10
<1>14. d = m => m # 0 /\ new[1].items[1].at - 1 = 0
  <2> SUFFICES ASSUME d = m PROVE m # 0 /\ new[1].items[1].at - 1 = 0
    OBVIOUS
  <2>1. cut = 0 /\ d = n + 1 /\ 1 \in 1..m /\ 1 + cut = 1 /\ n + 1 # 0 /\ m # 0
    BY <1>2, <1>4, <1>10
  <2>2. new[1].items = old[1].items
    BY <1>11, <2>1
  <2> QED BY <1>8, <2>1, <2>2
<1>15. d - 0 = d /\ a - Len(to.pending) = planned /\ Len(to.receipts) = m
  BY <1>1, <1>5 DEF planned
<1>16. Tells(to, a, d)
  BY <1>1, <1>5, <1>6, <1>9, <1>12, <1>13, <1>14, <1>15 DEF Tells
<1> QED BY <1>16 DEF to

-----------------------------------------------------------------------------
LEMMA InitLedger == Init => Ledger
<1> SUFFICES ASSUME Init PROVE Ledger
  OBVIOUS
<1>1. /\ disk.receipts = <<>> /\ disk.pending = <<>> /\ disk.active = NoBatch
      /\ admissions = 0 /\ drains = 0
  BY DEF Init, EmptyState
<1>2. Batches(disk) = <<>>
  BY <1>1, BatchesShape, EmptyStateType DEF Init
<1>3. Len(<<>>) = 0 /\ Spans(<<>>, 0, 0)
  BY DEF Spans
<1>4. /\ 1..0 = {} /\ 0 - 0 = 0
      /\ 0 = IF 0 < ReceiptCap THEN 0 ELSE ReceiptCap
  BY ReceiptCapAssumption
<1> QED BY <1>1, <1>2, <1>3, <1>4 DEF Ledger, Tells

\* The admissions are told of in order, none lost, none twice, whatever the
\* processes do and wherever they are killed (SaveState of every command).
THEOREM QueueLedger == Spec => []Ledger
<1>1. ASSUME TypeOK, Ledger, [Abstract!QNext]_(Abstract!qvars) PROVE Ledger'
  <2>0. disk \in States /\ admissions \in Nat /\ drains \in Nat
    BY <1>1, BoundAssumption DEF TypeOK
  <2>1. ASSUME NEW id \in ItemId, NEW h \in Commit, NEW intent \in Intent,
               Abstract!QAdmit(id, h, intent)
        PROVE  Ledger'
    <3> DEFINE it == [at |-> admissions + 1, id |-> id, baseHead |-> h, intent |-> intent]
    <3>1. /\ disk' = [disk EXCEPT !.pending = Append(@, it)]
          /\ admissions' = admissions + 1 /\ drains' = drains
      BY <2>1 DEF Abstract!QAdmit
    <3>2. it.at = admissions + 1
      OBVIOUS
    <3> HIDE DEF it
    <3> QED BY <1>1, <2>0, <3>1, <3>2, AdmitTells DEF Ledger
  <2>2. ASSUME NEW h \in Commit, Abstract!QDrain(h) PROVE Ledger'
    <3>1. /\ disk.active = NoBatch /\ disk.pending # <<>>
          /\ disk' = [disk EXCEPT !.pending = <<>>,
                          !.active = [id |-> drains + 1, baseHead |-> h,
                                      items |-> disk.pending]]
          /\ admissions' = admissions /\ drains' = drains + 1
      BY <2>2 DEF Abstract!QDrain, Abstract!NoBatch, NoBatch
    <3> QED BY <1>1, <2>0, <3>1, DrainTells DEF Ledger
  <2>3. ASSUME NEW s \in Statuses, Abstract!QComplete(s) PROVE Ledger'
    <3> DEFINE r == [id |-> disk.active.id, baseHead |-> disk.active.baseHead,
                     items |-> disk.active.items, status |-> s]
    <3>1. /\ disk.active # NoBatch
          /\ disk' = [disk EXCEPT !.active = NoBatch, !.receipts = AddReceipt(@, r)]
          /\ admissions' = admissions /\ drains' = drains
      BY <2>3 DEF Abstract!QComplete, Abstract!NoBatch, NoBatch, Abstract!AddReceipt,
                  AddReceipt
    <3>2. r \in Receipt /\ r.id = disk.active.id /\ r.items = disk.active.items
      BY <2>0, <3>1 DEF States, Batch, Receipt, Statuses
    <3> HIDE DEF r
    <3> QED BY <1>1, <2>0, <3>1, <3>2, CompleteTells DEF Ledger
  <2>4. CASE UNCHANGED <<disk, admissions, drains>>
    BY <1>1, <2>4 DEF Ledger
  <2> QED BY <1>1, <2>1, <2>2, <2>3, <2>4
          DEF Abstract!QNext, Abstract!qvars, Statuses
<1>2. IInv /\ Ledger /\ [Next]_vars => Ledger'
  BY <1>1, StepSimulation DEF IInv
<1> QED BY <1>2, InitLedger, QueueInvariant, PTL DEF Spec

\* Line ranges that do not overlap have no line in common.
LEMMA CommonLine ==
    ASSUME NEW x \in Intent, NEW y \in Intent, NEW f \in Path, NEW line \in Nat,
           Touches(x, f, line), Touches(y, f, line)
    PROVE  ~ChunksDoNotOverlap(x.chunks[f], y.chunks[f])
<1> SUFFICES ASSUME ChunksDoNotOverlap(x.chunks[f], y.chunks[f]) PROVE FALSE
  OBVIOUS
<1>1. x.chunks[f] \subseteq Nat \X Nat /\ y.chunks[f] \subseteq Nat \X Nat
  BY IntentAssumption
<1>2. PICK c \in x.chunks[f] : line \in c[1]..c[2]
  BY DEF Touches, ChunksDoNotOverlap
<1>3. PICK e \in y.chunks[f] : line \in e[1]..e[2]
  BY DEF Touches, ChunksDoNotOverlap
<1>4. c[2] < e[1] \/ e[2] < c[1]
  BY <1>2, <1>3 DEF ChunksDoNotOverlap
<1>5. c[1] \in Nat /\ c[2] \in Nat /\ e[1] \in Nat /\ e[2] \in Nat
  BY <1>1, <1>2, <1>3
<1> QED BY <1>2, <1>3, <1>4, <1>5

\* What a drain put into one batch fits together.
Fits == disk.active # NoBatch => CanBatch(disk.active.items, disk.active.baseHead)

\* The items of an active batch were planned on its base HEAD and touch no
\* common line, but with one postcondition (BuildBatch at the drain).
THEOREM QueueConflictFree == Spec => []ConflictFree
<1>1. Init => Fits
  BY DEF Init, EmptyState, Fits
<1>2. ASSUME TypeOK, Fits, [Abstract!QNext]_(Abstract!qvars) PROVE Fits'
  <2>0. disk \in States
    BY <1>2 DEF TypeOK
  <2>1. ASSUME NEW id \in ItemId, NEW h \in Commit, NEW intent \in Intent,
               Abstract!QAdmit(id, h, intent)
        PROVE  disk'.active = disk.active
    BY <2>0, <2>1 DEF Abstract!QAdmit, States
  <2>2. ASSUME NEW h \in Commit, Abstract!QDrain(h) PROVE Fits'
    <3>1. disk'.active = [id |-> drains + 1, baseHead |-> h, items |-> disk.pending]
      BY <2>0, <2>2 DEF Abstract!QDrain, States
    <3>2. CanBatch(disk.pending, h)
      BY <2>2 DEF Abstract!QDrain, Abstract!CanBatch, CanBatch, Abstract!Compatible,
                  Compatible, Abstract!ChunksDoNotOverlap, ChunksDoNotOverlap
    <3> QED BY <3>1, <3>2 DEF Fits
  <2>3. ASSUME NEW s \in Statuses, Abstract!QComplete(s) PROVE Fits'
    <3>1. disk'.active = NoBatch
      BY <2>0, <2>3 DEF Abstract!QComplete, Abstract!NoBatch, NoBatch, States
    <3> QED BY <3>1 DEF Fits, NoBatch
  <2>4. ASSUME disk'.active = disk.active PROVE Fits'
    BY <1>2, <2>4 DEF Fits, NoBatch
  <2> QED BY <1>2, <2>1, <2>2, <2>3, <2>4 DEF Abstract!QNext, Abstract!qvars, Statuses
<1>3. IInv /\ Fits /\ [Next]_vars => Fits'
  BY <1>2, StepSimulation DEF IInv
<1>4. IInv /\ Fits => ConflictFree
  <2> SUFFICES ASSUME IInv, Fits, disk.active # NoBatch,
                      NEW i \in DOMAIN disk.active.items,
                      NEW j \in DOMAIN disk.active.items
               PROVE  LET it == disk.active.items
                      IN  /\ it[i].baseHead = disk.active.baseHead
                          /\ i # j => \A f \in Path, line \in 1..MaxLine :
                                 /\ Touches(it[i].intent, f, line)
                                 /\ Touches(it[j].intent, f, line)
                                 => /\ it[i].intent.post[f] # ""
                                    /\ it[i].intent.post[f] = it[j].intent.post[f]
    BY DEF ConflictFree
  <2> DEFINE it == disk.active.items
  <2>1. it \in Seq(Item)
    BY DEF IInv, TypeOK, States, Batch
  <2>2. it[i].baseHead = disk.active.baseHead
    BY DEF Fits, CanBatch
  <2>3. ASSUME NEW f \in Path, NEW line \in 1..MaxLine, i # j,
               Touches(it[i].intent, f, line), Touches(it[j].intent, f, line)
        PROVE  /\ it[i].intent.post[f] # ""
               /\ it[i].intent.post[f] = it[j].intent.post[f]
    <3>1. it[i].intent \in Intent /\ it[j].intent \in Intent /\ line \in Nat
          /\ i \in Nat /\ j \in Nat
      <4>1. \A k \in DOMAIN it : it[k] \in Item /\ k \in Nat
        BY <2>1
      <4> QED BY <4>1, BoundAssumption DEF Item
    <3>2. f \in it[i].intent.files \cap it[j].intent.files
      BY <2>3 DEF Touches
    <3>3. /\ ~ChunksDoNotOverlap(it[i].intent.chunks[f], it[j].intent.chunks[f])
          /\ ~ChunksDoNotOverlap(it[j].intent.chunks[f], it[i].intent.chunks[f])
      BY <2>3, <3>1, CommonLine
    <3>4. Compatible(it[i].intent, it[j].intent) \/ Compatible(it[j].intent, it[i].intent)
      BY <2>3, <3>1 DEF Fits, CanBatch
    <3> QED BY <3>2, <3>3, <3>4 DEF Compatible
  <2> QED BY <2>2, <2>3
<1> QED BY <1>1, <1>3, <1>4, QueueInvariant, PTL DEF Spec
-----------------------------------------------------------------------------
(* Least and greatest, and what is defined by recursion over the tree      *)

\* The natural numbers are well-founded.
LEMMA LeastNatural ==
    ASSUME NEW S \in SUBSET Nat, S # {}
    PROVE  \E x \in S : \A y \in S : x <= y
<1>1. IsWellFoundedOn(OpToRel(<, Nat), Nat)
  BY NatLessThanWellFounded, Zenon
<1>2. \E x \in S : \A y \in S : ~ (<<y, x>> \in OpToRel(<, Nat))
  BY <1>1, WFMin, Zenon
<1>3. \A x, y \in Nat : y < x => <<y, x>> \in OpToRel(<, Nat)
  BY Zenon DEF OpToRel
<1>4. \E x \in S : \A y \in S : ~ (y < x)
  <2>1. PICK x \in S : \A y \in S : ~ (<<y, x>> \in OpToRel(<, Nat))
    BY <1>2, Zenon
  <2>2. \A y \in S : ~ (y < x)
    BY <2>1, <1>3, Zenon
  <2>3. QED
    BY <2>2, Zenon
<1>5. QED
  BY <1>4

\* Min of a set of natural numbers is in it, and below the others.
LEMMA MinIsLeast ==
    ASSUME NEW S \in SUBSET Nat, S # {}
    PROVE  Min(S) \in S /\ \A y \in S : Min(S) <= y
BY LeastNatural DEF Min

\* Max of a set of natural numbers with an upper bound is in it, and above the
\* others.
LEMMA MaxIsGreatest ==
    ASSUME NEW S \in SUBSET Nat, S # {}, NEW n \in Nat, \A x \in S : x <= n
    PROVE  Max(S) \in S /\ \A y \in S : y <= Max(S)
<1> DEFINE T == {n - x : x \in S}
<1>0. \A x \in S : n - x \in Nat
  OBVIOUS
<1>1. T \in SUBSET Nat /\ T # {}
  BY <1>0
<1>2. PICK t \in T : \A y \in T : t <= y
  BY <1>1, LeastNatural
<1>3. PICK m \in S : t = n - m
  OBVIOUS
<1>4. \A y \in S : y <= m
  BY <1>2, <1>3
<1>5. QED
  BY <1>4 DEF Max

\* The repositories are the numbers from 1 on.
LEMMA RepoNumbers ==
    /\ Cardinality(Repos) \in Nat /\ Repos \subseteq Nat \ {0}
    /\ Repos = 1..Cardinality(Repos)
<1>1. Cardinality(Repos) \in Nat
  BY TreeAssumption, FS_CardinalityType
<1>2. QED
  BY <1>1, TreeAssumption

\* What a repository is contained in.
LEMMA AncestorsStep ==
    /\ Ancestors = [r \in Repos |-> {r} \cup IF r = Root THEN {} ELSE Ancestors[Parent[r]]]
<1> DEFINE Body(f, r) == {r} \cup IF r = Root THEN {} ELSE f[Parent[r]]
           Good(n) == \E f : f = [r \in Repos |-> IF r <= n THEN Body(f, r) ELSE {}]
           Bad == {n \in Nat : ~ Good(n)}
<1>1. Bad = {}
  <2> SUFFICES ASSUME Bad # {} PROVE FALSE
    OBVIOUS
  <2>1. PICK n \in Bad : \A k \in Bad : n <= k
    <3>1. Bad \in SUBSET Nat
      OBVIOUS
    <3> HIDE DEF Bad
    <3>2. QED
      BY <3>1, LeastNatural
  <2>2. n # 0
    <3> SUFFICES ASSUME n = 0 PROVE FALSE
      OBVIOUS
    <3>1. \A r \in Repos : ~ (r <= 0)
      BY RepoNumbers
    <3>2. [r \in Repos |-> {}] = [r \in Repos |-> IF r <= 0 THEN Body([q \in Repos |-> {}], r) ELSE {}]
      BY <3>1
    <3>3. Good(0)
      BY <3>2
    <3>4. QED
      BY <3>3, <2>1
  <2>3. Good(n - 1)
    <3>1. n - 1 \in Nat /\ ~ (n <= n - 1)
      BY <2>2
    <3>2. n - 1 \notin Bad
      BY <3>1, <2>1
    <3> HIDE DEF Good
    <3>3. QED
      BY <3>1, <3>2
  <2>4. PICK f : f = [r \in Repos |-> IF r <= n - 1 THEN Body(f, r) ELSE {}]
    BY <2>3
  <2> DEFINE g == [r \in Repos |-> IF r <= n THEN Body(f, r) ELSE {}]
  <2>5. \A r \in Repos : r <= n - 1 => g[r] = f[r]
    <3> SUFFICES ASSUME NEW r \in Repos, r <= n - 1 PROVE g[r] = f[r]
      OBVIOUS
    <3>1. r <= n
      BY <2>1, RepoNumbers
    <3>2. g[r] = Body(f, r)
      BY <3>1
    <3>3. f[r] = Body(f, r)
      BY <2>4
    <3>4. QED
      BY <3>2, <3>3
  <2>6. \A r \in Repos : r <= n => Body(g, r) = Body(f, r)
    <3> SUFFICES ASSUME NEW r \in Repos, r <= n, r # Root PROVE g[Parent[r]] = f[Parent[r]]
      BY Zenon
    <3>1. Parent[r] \in Repos /\ Parent[r] < r
      BY TreeAssumption
    <3>2. Parent[r] <= n - 1
      BY <3>1, <2>1, RepoNumbers
    <3>3. QED
      BY <3>1, <3>2, <2>5
  <2>7. g = [r \in Repos |-> IF r <= n THEN Body(g, r) ELSE {}]
    BY <2>6
  <2>8. Good(n)
    BY <2>7
  <2>9. QED
    BY <2>8, <2>1
<1>2. Good(Cardinality(Repos))
  BY <1>1, RepoNumbers
<1>3. PICK f : f = [r \in Repos |-> IF r <= Cardinality(Repos) THEN Body(f, r) ELSE {}]
  BY <1>2
<1>4. f = [r \in Repos |-> Body(f, r)]
  <2>1. \A r \in Repos : r <= Cardinality(Repos)
    BY RepoNumbers
  <2>2. [r \in Repos |-> IF r <= Cardinality(Repos) THEN Body(f, r) ELSE {}]
        = [r \in Repos |-> Body(f, r)]
    BY <2>1
  <2>3. QED
    BY <2>2, <1>3
<1>5. QED
  BY <1>4 DEF Ancestors

\* A repository comes after those that contain it.
LEMMA AncestorsAbove ==
    \A r \in Repos : Ancestors[r] \subseteq Repos /\ \A a \in Ancestors[r] : a <= r
<1> DEFINE Bad == {r \in Repos : ~ (Ancestors[r] \subseteq Repos /\ \A a \in Ancestors[r] : a <= r)}
<1> SUFFICES ASSUME Bad # {} PROVE FALSE
  OBVIOUS
<1>1. PICK r \in Bad : \A q \in Bad : r <= q
  <2>1. Bad \in SUBSET Nat
    BY RepoNumbers
  <2> HIDE DEF Bad
  <2>2. QED
    BY <2>1, LeastNatural
<1>2. Ancestors[r] = {r} \cup IF r = Root THEN {} ELSE Ancestors[Parent[r]]
  BY AncestorsStep
<1>3. r \in Repos /\ r \in Nat
  BY RepoNumbers
<1>4. r # Root
  BY <1>2, <1>3, <1>1
<1>5. Parent[r] \in Repos /\ Parent[r] < r /\ Parent[r] \in Nat
  BY <1>4, <1>3, TreeAssumption, RepoNumbers
<1>6. Parent[r] \notin Bad
  BY <1>5, <1>1, <1>3
<1>7. Ancestors[Parent[r]] \subseteq Repos /\ \A a \in Ancestors[Parent[r]] : a <= Parent[r]
  BY <1>5, <1>6
<1>8. \A a \in Ancestors[r] : a \in Repos /\ a <= r
  BY <1>2, <1>3, <1>5, <1>7, RepoNumbers
<1>9. QED
  BY <1>8, <1>1

\* Contained in the parent is contained in what contains the parent.
LEMMA AncestorsUp ==
    \A r \in Repos : /\ r \in Ancestors[r]
                     /\ \A a \in Ancestors[r] \ {Root} : Parent[a] \in Ancestors[r]
<1> DEFINE Up(r) == \A a \in Ancestors[r] \ {Root} : Parent[a] \in Ancestors[r]
           Bad == {r \in Repos : ~ Up(r)}
<1>0. \A r \in Repos : r \in Ancestors[r]
  BY AncestorsStep
<1> SUFFICES ASSUME Bad # {} PROVE FALSE
  BY <1>0
<1>1. PICK r \in Bad : \A q \in Bad : r <= q
  <2>1. Bad \in SUBSET Nat
    BY RepoNumbers
  <2> HIDE DEF Bad
  <2>2. QED
    BY <2>1, LeastNatural
<1>2. Ancestors[r] = {r} \cup IF r = Root THEN {} ELSE Ancestors[Parent[r]]
  BY AncestorsStep
<1>3. r \in Repos /\ r \in Nat
  BY RepoNumbers
<1>4. r # Root
  BY <1>2, <1>3, <1>1
<1>5. Parent[r] \in Repos /\ Parent[r] < r /\ Parent[r] \in Nat
  BY <1>4, <1>3, TreeAssumption, RepoNumbers
<1>6. Parent[r] \notin Bad
  BY <1>5, <1>1, <1>3
<1>7. Up(Parent[r])
  BY <1>5, <1>6
<1>8. Up(r)
  BY <1>2, <1>4, <1>5, <1>7, <1>0
<1>9. QED
  BY <1>8, <1>1

\* An upward closure contains the parents of what it contains.
LEMMA UpClosureUp ==
    ASSUME NEW S \in SUBSET Repos
    PROVE  /\ UpClosure(S) \subseteq Repos /\ S \subseteq UpClosure(S)
           /\ \A c \in UpClosure(S) \ {Root} : Parent[c] \in UpClosure(S)
BY AncestorsUp, AncestorsAbove DEF UpClosure

\* More below, more above.
LEMMA UpClosureGrows ==
    ASSUME NEW S, NEW T, S \subseteq T
    PROVE  UpClosure(S) \subseteq UpClosure(T)
BY DEF UpClosure

\* A contained repository is one deeper.
LEMMA DepthOfChild ==
    ASSUME NEW c \in Repos \ {Root}
    PROVE  Depth(c) = Depth(Parent[c]) + 1
<1>1. Parent[c] \in Repos /\ Parent[c] < c /\ c \in Nat /\ Parent[c] \in Nat
  BY TreeAssumption, RepoNumbers
<1>2. Ancestors[c] = Ancestors[Parent[c]] \cup {c}
  BY AncestorsStep
<1>3. c \notin Ancestors[Parent[c]]
  BY <1>1, AncestorsAbove
<1>4. IsFiniteSet(Ancestors[Parent[c]])
  BY <1>1, AncestorsAbove, TreeAssumption, FS_Subset
<1>5. QED
  BY <1>2, <1>3, <1>4, FS_AddElement DEF Depth

\* There are no more repositories above one than there are.
LEMMA DepthBound ==
    \A r \in Repos : Depth(r) \in Nat /\ Depth(r) <= Cardinality(Repos)
<1> SUFFICES ASSUME NEW r \in Repos
             PROVE  Depth(r) \in Nat /\ Depth(r) <= Cardinality(Repos)
  OBVIOUS
<1>1. IsFiniteSet(Ancestors[r]) /\ Cardinality(Ancestors[r]) <= Cardinality(Repos)
  BY AncestorsAbove, TreeAssumption, FS_Subset
<1>2. QED
  BY <1>1, FS_CardinalityType DEF Depth

\* Wave takes its maximum of a set that has one.
LEMMA Deepest ==
    ASSUME NEW r \in Repos
    PROVE  LET D == {Depth(d) : d \in Descendants(r) \cup {r}}
           IN  /\ D \in SUBSET Nat /\ Max(D) \in D /\ \A y \in D : y <= Max(D)
<1> DEFINE D == {Depth(d) : d \in Descendants(r) \cup {r}}
<1>1. D \in SUBSET Nat /\ D # {} /\ \A x \in D : x <= Cardinality(Repos)
  BY DepthBound DEF Descendants
<1> HIDE DEF D
<1>2. Max(D) \in D /\ \A y \in D : y <= Max(D)
  BY <1>1, RepoNumbers, MaxIsGreatest
<1>3. QED
  BY <1>1, <1>2 DEF D

\* A contained repository is in an earlier wave.
LEMMA WaveOfChild ==
    /\ \A r \in Repos : Wave(r) \in Nat
    /\ \A c \in Repos \ {Root} : Wave(c) < Wave(Parent[c])
<1> DEFINE D(r) == {Depth(d) : d \in Descendants(r) \cup {r}}
<1>1. \A r \in Repos : /\ D(r) \in SUBSET Nat /\ Max(D(r)) \in D(r)
                       /\ \A y \in D(r) : y <= Max(D(r))
  BY Deepest
<1>2. \A r \in Repos : Depth(r) \in D(r)
  OBVIOUS
<1>3. \A r \in Repos : Wave(r) = Max(D(r)) - Depth(r)
  BY DEF Wave
<1>4. \A c \in Repos \ {Root} : D(c) \subseteq D(Parent[c])
  <2> SUFFICES ASSUME NEW c \in Repos \ {Root}, NEW d \in Descendants(c) \cup {c}
               PROVE  d \in Descendants(Parent[c]) \cup {Parent[c]}
    OBVIOUS
  <2>1. d \in Repos /\ c \in Ancestors[d]
    BY AncestorsUp DEF Descendants
  <2>2. Parent[c] \in Ancestors[d]
    BY <2>1, AncestorsUp
  <2>3. QED
    BY <2>1, <2>2 DEF Descendants
<1>5. \A c \in Repos \ {Root} : Parent[c] \in Repos
  BY TreeAssumption
<1> HIDE DEF D
<1>6. \A r \in Repos : Depth(r) \in Nat /\ Max(D(r)) \in Nat /\ Depth(r) <= Max(D(r))
  BY <1>1, <1>2, DepthBound
<1>7. \A c \in Repos \ {Root} : Max(D(c)) <= Max(D(Parent[c]))
  BY <1>1, <1>4, <1>5
<1>8. QED
  BY <1>3, <1>5, <1>6, <1>7, DepthOfChild

\* The recursion over the contained repositories of CanConverge.
LEMMA CanConvergeStep ==
    ASSUME NEW look
    PROVE  \A r \in Repos :
              r \in CanConverge(look) <=> CanOnceThese(look, r, Children(r) \cap CanConverge(look))
<1> DEFINE N == Cardinality(Repos)
           Body(f, r) == CanOnceThese(look, r, {c \in Children(r) : f[c]})
           Good(n) == \E f : f = [r \in Repos |-> IF N - r < n THEN Body(f, r) ELSE FALSE]
           Bad == {n \in Nat : ~ Good(n)}
<1>0. N \in Nat /\ Repos \subseteq Nat /\ \A r \in Repos : r <= N
  BY RepoNumbers
<1>1. Bad = {}
  <2> SUFFICES ASSUME Bad # {} PROVE FALSE
    OBVIOUS
  <2>1. PICK n \in Bad : \A k \in Bad : n <= k
    <3>1. Bad \in SUBSET Nat
      OBVIOUS
    <3> HIDE DEF Bad
    <3>2. QED
      BY <3>1, LeastNatural
  <2>2. n # 0
    <3> SUFFICES ASSUME n = 0 PROVE FALSE
      OBVIOUS
    <3>1. \A r \in Repos : ~ (N - r < 0)
      BY <1>0
    <3> HIDE DEF N
    <3>2. [r \in Repos |-> FALSE] = [r \in Repos |-> IF N - r < 0 THEN Body([q \in Repos |-> FALSE], r) ELSE FALSE]
      BY <3>1, Zenon
    <3>3. Good(0)
      BY <3>2
    <3>4. QED
      BY <3>3, <2>1
  <2>3. Good(n - 1)
    <3>1. n - 1 \in Nat /\ ~ (n <= n - 1)
      BY <2>2
    <3>2. n - 1 \notin Bad
      BY <3>1, <2>1
    <3> HIDE DEF Good
    <3>3. QED
      BY <3>1, <3>2
  <2>4. PICK f : f = [r \in Repos |-> IF N - r < n - 1 THEN Body(f, r) ELSE FALSE]
    BY <2>3
  <2> DEFINE g == [r \in Repos |-> IF N - r < n THEN Body(f, r) ELSE FALSE]
  <2>5. \A r \in Repos : N - r < n - 1 => g[r] = f[r]
    <3> SUFFICES ASSUME NEW r \in Repos, N - r < n - 1 PROVE g[r] = f[r]
      OBVIOUS
    <3>1. N - r < n
      BY <2>1, <1>0
    <3> HIDE DEF N
    <3>2. g[r] = Body(f, r)
      BY <3>1, Zenon
    <3>3. f[r] = Body(f, r)
      BY <2>4, Zenon
    <3>4. QED
      BY <3>2, <3>3, Zenon
  <2>6. \A r \in Repos : N - r < n => Body(g, r) = Body(f, r)
    <3> SUFFICES ASSUME NEW r \in Repos, N - r < n
                 PROVE  {c \in Children(r) : g[c]} = {c \in Children(r) : f[c]}
      BY Zenon
    <3> SUFFICES ASSUME NEW c \in Children(r) PROVE g[c] = f[c]
      BY Zenon
    <3>1. c \in Repos /\ r < c
      BY TreeAssumption DEF Children
    <3>2. N - c < n - 1
      BY <3>1, <2>1, <1>0
    <3>3. QED
      BY <3>1, <3>2, <2>5, Zenon
  <2>7. g = [r \in Repos |-> IF N - r < n THEN Body(g, r) ELSE FALSE]
    <3> SUFFICES ASSUME NEW r \in Repos
                 PROVE  (IF N - r < n THEN Body(f, r) ELSE FALSE) = (IF N - r < n THEN Body(g, r) ELSE FALSE)
      BY Zenon
    <3>1. QED
      BY <2>6, Zenon
  <2>8. Good(n)
    BY <2>7, Zenon
  <2>9. QED
    BY <2>8, <2>1, Zenon
<1>2. Good(N + 1)
  <2>1. N + 1 \in Nat
    BY <1>0
  <2> HIDE DEF Good
  <2>2. QED
    BY <2>1, <1>1
<1>3. PICK f : f = [r \in Repos |-> IF N - r < N + 1 THEN Body(f, r) ELSE FALSE]
  BY <1>2
<1>4. f = [r \in Repos |-> Body(f, r)]
  <2>1. \A r \in Repos : N - r < N + 1
    BY <1>0
  <2> HIDE DEF N
  <2>2. [r \in Repos |-> IF N - r < N + 1 THEN Body(f, r) ELSE FALSE] = [r \in Repos |-> Body(f, r)]
    BY <2>1, Zenon
  <2>3. QED
    BY <2>2, <1>3, Zenon
<1> DEFINE can == CHOOSE g : g = [r \in Repos |-> Body(g, r)]
<1>5. can = [r \in Repos |-> Body(can, r)]
  BY <1>4, Zenon
<1>6. CanConverge(look) = {r \in Repos : can[r]}
  BY DEF CanConverge
<1> HIDE DEF can
<1>7. \A r \in Repos : can[r] = CanOnceThese(look, r, {c \in Children(r) : can[c]})
  BY <1>5, Zenon
<1>8. \A r \in Repos : {c \in Children(r) : can[c]} = Children(r) \cap CanConverge(look)
  BY <1>6 DEF Children
<1>9. QED
  BY <1>6, <1>7, <1>8, Zenon

-----------------------------------------------------------------------------
(* Types                                                                   *)

Kinds == {"CONFLICTED", "INDEX_DIRTY", "CONTENT_AND_GITLINK_DIRTY", "GITLINK_DIRTY_UNSAFE",
          "GITLINK_DIRTY_ONLY", "CONTENT_DIRTY", "DETACHED_HEAD", "DIVERGED", "AHEAD_ONLY",
          "BEHIND_ONLY", "CLEAN"}
Look == [Repos -> [kind : Kinds, head : Nat, branch : BOOLEAN, ahead : Nat, behind : BOOLEAN,
                   gitlinks : SUBSET Repos, pushable : BOOLEAN, unpushed : BOOLEAN]]
Plan == [sync : SUBSET Repos, commit : SUBSET Repos, push : SUBSET Repos,
         blocked : SUBSET Repos, waiting : SUBSET Repos, unchanged : SUBSET Repos]
Summaries == [succeeded : SUBSET Repos, failed : SUBSET Repos, blocked : SUBSET Repos,
              skipped : SUBSET Repos]
Bases == [Repos -> BOOLEAN \X Nat \X Kinds \X Nat]
Results == [CommitPhases -> SUBSET Repos]
WorkflowStates == [currentPhase : 1..9, completed : SUBSET (1..9),
           succeeded : SUBSET Repos, failed : SUBSET Repos, blocked : SUBSET Repos,
           plannedSync : SUBSET Repos, plannedPush : SUBSET Repos,
           baselines : Bases,
           results : Results]

GitTypes ==
    /\ repo \in [Repos -> Local] /\ remote \in [Repos -> Remote] /\ fresh \in Nat
    /\ \A r \in Repos : IsFiniteSet(repo[r].unpub)

ConvergeTypes ==
    /\ GitTypes
    /\ place \in {"idle", "phase", "work", "decide"} /\ exit \in {-1, 0, 1}
    /\ snapshot \in Look /\ plan \in Plan
    /\ state \in WorkflowStates /\ (file \in WorkflowStates \/ file = NoFile)
    /\ todo \in SUBSET Repos /\ summary \in Summaries
    /\ pass \in Nat /\ again \in BOOLEAN
    /\ calm \in [call : BOOLEAN, look : BOOLEAN]

\* A snapshot of repositories is one.
LEMMA SnapshotTypes ==
    ASSUME NEW s \in [Repos -> Local], \A r \in Repos : IsFiniteSet(s[r].unpub)
    PROVE  Snapshot(s) \in Look
<1>1. \A r \in Repos : Kind(s, r) \in Kinds
  BY DEF Kind, Kinds
<1>2. \A r \in Repos : Cardinality(s[r].unpub) \in Nat
  BY FS_CardinalityType
<1>3. \A r \in Repos : /\ s[r].head \in Nat /\ s[r].attached \in BOOLEAN
                       /\ s[r].pushable \in BOOLEAN
  BY DEF Local
<1>4. \A r \in Repos : DirtyGitlinks(s, r) \in SUBSET Repos
  BY DEF DirtyGitlinks, Children
<1>5. \A r \in Repos : Behind(s, r) \in BOOLEAN /\ Ahead(s, r) \in BOOLEAN
  BY <1>3, Zenon DEF Behind, Ahead
<1>6. \A r \in Repos :
        (Ahead(s, r) \/ (GitlinkDirty(s, r) /\ \E c \in Children(r) : Ahead(s, c))) \in BOOLEAN
  OBVIOUS
<1>7. \A r \in Repos : (IF s[r].attached THEN Cardinality(s[r].unpub) ELSE 0) \in Nat
  BY <1>2, Zenon
<1>8. QED
  BY <1>1, <1>3, <1>4, <1>5, <1>6, <1>7 DEF Snapshot, Look

\* A plan is of repositories, whatever it is made of.
LEMMA PlanTypes ==
    ASSUME NEW look
    PROVE  BuildPlan(look) \in Plan
<1>1. /\ ToCommit(look) \in SUBSET Repos /\ Free(look) \in SUBSET Repos
      /\ Considered(look) \in SUBSET Repos
  BY DEF ToCommit, Free, Considered
<1>2. \A r : UnpushedChildren(look, r) \in SUBSET Repos
  BY DEF UnpushedChildren, Children
<1>3. UNION {UnpushedChildren(look, r) : r \in Considered(look)} \in SUBSET Repos
  BY <1>2
<1>4. ToBlock(look) \in SUBSET Repos
  BY <1>1 DEF ToBlock
<1>5. Waiting(look) \in SUBSET Repos /\ Unchanged(look) \in SUBSET Repos
  BY <1>1 DEF Waiting, Unchanged
<1>6. QED
  BY <1>1, <1>3, <1>4, <1>5 DEF BuildPlan, Plan

\* So is a plan with the syncs and pushes of an earlier call.
LEMMA RestoredTypes ==
    ASSUME NEW look, NEW p \in Plan, NEW S \in SUBSET Repos, NEW T \in SUBSET Repos
    PROVE  Restored(p, look, S, T) \in Plan
BY DEF Restored, RestoredSync, Plan

\* The state a call begins with.
LEMMA ResetTypes ==
    ASSUME NEW look \in Look, NEW p \in Plan
    PROVE  ResetState(look, p) \in WorkflowStates
<1>1. Baselines(look) \in Bases
  BY DEF Baselines, Look, Bases
<1>2. p.sync \in SUBSET Repos /\ p.push \in SUBSET Repos
  BY DEF Plan
<1>3. [c \in CommitPhases |-> {}] \in Results
  BY DEF Results
<1>4. QED
  BY <1>1, <1>2, <1>3 DEF ResetState, WorkflowStates

\* Whose turn it is.
LEMMA TurnIsLeft ==
    ASSUME todo \in SUBSET Repos, todo # {}
    PROVE  /\ Turn \in todo
           /\ IF Phase \in PushPhases THEN \A q \in todo : Wave(Turn) <= Wave(q)
                                      ELSE \A q \in todo : Turn <= q
<1>0. todo \in SUBSET Nat
  BY RepoNumbers
<1>1. CASE Phase \notin PushPhases
  BY <1>0, <1>1, MinIsLeast DEF Turn
<1>2. CASE Phase \in PushPhases
  <2> DEFINE First == {r \in todo : \A q \in todo : Wave(r) <= Wave(q)}
             W == {Wave(r) : r \in todo}
  <2>1. W \in SUBSET Nat /\ W # {}
    BY WaveOfChild
  <2>2. PICK w \in W : \A v \in W : w <= v
    <3> HIDE DEF W
    <3>1. QED
      BY <2>1, LeastNatural
  <2>3. First # {}
    BY <2>2
  <2>4. First \in SUBSET Nat
    BY <1>0
  <2> HIDE DEF First
  <2>5. Min(First) \in First
    BY <2>3, <2>4, MinIsLeast
  <2>6. Turn = Min(First)
    BY <1>2 DEF Turn, First
  <2>7. QED
    BY <2>5, <2>6, <1>2 DEF First
<1>3. QED
  BY <1>1, <1>2

\* A repository after git commit.
LEMMA CommittedTypes ==
    ASSUME NEW s \in [Repos -> Local], NEW r \in Repos, NEW n \in Nat, IsFiniteSet(s[r].unpub)
    PROVE  Committed(s, r, n) \in Local /\ IsFiniteSet(Committed(s, r, n).unpub)
<1>1. Pins(s, r) \in [Repos -> Nat]
  BY DEF Pins, Local, Children
<1>2. IsFiniteSet(s[r].unpub \cup {n})
  BY FS_AddElement
<1>3. s[r] \in Local
  OBVIOUS
<1>4. [s[r] EXCEPT !.head = n, !.pins = Pins(s, r), !.index = FALSE, !.content = FALSE,
                   !.unpub = @ \cup {n}] \in Local
  BY <1>1, <1>3 DEF Local
<1>5. [s[r] EXCEPT !.head = n, !.pins = Pins(s, r), !.index = FALSE, !.content = FALSE,
                   !.unpub = @ \cup {n}].unpub = s[r].unpub \cup {n}
  BY <1>3 DEF Local
<1>6. QED
  BY <1>2, <1>3, <1>4, <1>5 DEF Committed

\* A repository after git pull --rebase.
LEMMA RebasedTypes ==
    ASSUME NEW l \in Local, NEW m \in Remote, NEW n \in Nat, NEW pins \in RebasedPins(l, m),
           IsFiniteSet(l.unpub)
    PROVE  Rebased(l, m, pins, n) \in Local /\ IsFiniteSet(Rebased(l, m, pins, n).unpub)
<1>1. m.tip \in Nat /\ m.pins \in [Repos -> Nat] /\ l.pins \in [Repos -> Nat]
  BY DEF Local, Remote
<1>2. pins \in [Repos -> Nat]
  <2>1. CASE Own(l, m) = {}
    BY <1>1, <2>1 DEF RebasedPins
  <2>2. CASE Own(l, m) # {}
    BY <1>1, <2>2 DEF RebasedPins
  <2>3. QED
    BY <2>1, <2>2
<1> DEFINE onto == [l EXCEPT !.base = m.tip, !.seen = m.tip, !.basePins = m.pins]
<1>3. onto \in Local /\ onto.unpub = l.unpub
  BY <1>1 DEF Local
<1>4. [onto EXCEPT !.head = m.tip, !.pins = m.pins, !.unpub = {}] \in Local
  BY <1>1, <1>3 DEF Local
<1>5. [onto EXCEPT !.head = m.tip, !.pins = m.pins, !.unpub = {}].unpub = {}
  BY <1>3 DEF Local
<1>6. [onto EXCEPT !.head = n, !.pins = pins, !.unpub = {n}] \in Local
  BY <1>2, <1>3 DEF Local
<1>7. [onto EXCEPT !.head = n, !.pins = pins, !.unpub = {n}].unpub = {n}
  BY <1>3 DEF Local
<1>8. \/ Rebased(l, m, pins, n) = onto
      \/ Rebased(l, m, pins, n) = [onto EXCEPT !.head = m.tip, !.pins = m.pins, !.unpub = {}]
      \/ Rebased(l, m, pins, n) = [onto EXCEPT !.head = n, !.pins = pins, !.unpub = {n}]
  BY Zenon DEF Rebased
<1> HIDE DEF onto
<1>9. IsFiniteSet({}) /\ IsFiniteSet({n})
  BY FS_EmptySet, FS_Singleton
<1>10. QED
  BY <1>3, <1>4, <1>5, <1>6, <1>7, <1>8, <1>9

\* A remote branch after a push.
LEMMA PublishedTypes ==
    ASSUME NEW l \in Local, NEW m \in Remote
    PROVE  Published(m, l) \in Remote
BY DEF Published, Local, Remote

\* A repository after its push.
LEMMA TrackedTypes ==
    ASSUME NEW l \in Local
    PROVE  Tracked(l) \in Local /\ Tracked(l).unpub = {} /\ IsFiniteSet(Tracked(l).unpub)
<1>1. Tracked(l) \in Local /\ Tracked(l).unpub = {}
  BY DEF Tracked, Local
<1>2. QED
  BY <1>1, FS_EmptySet

\* The types hold at the start.
LEMMA InitTypes == ConvergeInit => ConvergeTypes
<1> SUFFICES ASSUME ConvergeInit PROVE ConvergeTypes
  OBVIOUS
<1>1. PICK w \in Starts :
        /\ repo = w.repo /\ remote = w.remote /\ fresh = w.fresh
        /\ place = "idle" /\ exit = -1
        /\ snapshot = Snapshot(w.repo) /\ plan = BuildPlan(snapshot)
        /\ state = ResetState(snapshot, plan) /\ file = NoFile
        /\ todo = {} /\ summary = Summary
        /\ pass = 0 /\ again = FALSE
        /\ calm = [call |-> TRUE, look |-> TRUE]
  BY DEF ConvergeInit
<1>2. GitTypes
  BY <1>1, StartsAssumption DEF GitTypes, Consistent
<1>3. snapshot \in Look
  BY <1>1, <1>2, SnapshotTypes DEF GitTypes
<1>4. plan \in Plan
  BY <1>1, PlanTypes
<1>5. state \in WorkflowStates
  BY <1>1, <1>3, <1>4, ResetTypes
<1>6. summary \in Summaries
  BY <1>1 DEF Summary, Summaries
<1>7. QED
  BY <1>1, <1>2, <1>3, <1>4, <1>5, <1>6 DEF ConvergeTypes

\* What one repository's branch here and there becomes keeps the types.
LEMMA LocalTypes ==
    ASSUME GitTypes, NEW r \in Repos, NEW l \in Local, IsFiniteSet(l.unpub),
           repo' = [repo EXCEPT ![r] = l], remote' = remote, fresh' \in Nat
    PROVE  GitTypes'
BY DEF GitTypes

\* A repository has had its turn.
LEMMA SummaryTypes ==
    ASSUME summary \in Summaries, NEW r \in Repos,
           NEW f \in {"succeeded", "failed", "blocked", "skipped"},
           summary' = [summary EXCEPT ![f] = @ \cup {r}]
    PROVE  summary' \in Summaries
BY DEF Summaries

\* A saved state that goes back to the first sync.
LEMMA RewoundTypes ==
    ASSUME NEW st \in WorkflowStates
    PROVE  [st EXCEPT !.completed = @ \ {3}, !.currentPhase = 3] \in WorkflowStates
<1>1. (st.completed \ {3}) \in SUBSET (1..9) /\ 3 \in 1..9
  BY DEF WorkflowStates
<1>2. QED
  BY <1>1 DEF WorkflowStates

\* Every step keeps the types.
LEMMA NextTypes == ConvergeTypes /\ [ConvergeNext]_convergeVars => ConvergeTypes'
<1> SUFFICES ASSUME ConvergeTypes, [ConvergeNext]_convergeVars PROVE ConvergeTypes'
  OBVIOUS
<1> USE DEF ConvergeTypes
<1>0. Snapshot(repo) \in Look
  BY SnapshotTypes DEF GitTypes
<1>1. CASE Begin
  <2>1. GitTypes'
    BY <1>1 DEF Begin, GitTypes, gitVars
  <2>2. snapshot' \in Look /\ plan' \in Plan
    BY <1>1, <1>0, PlanTypes DEF Begin
  <2>3. state' \in WorkflowStates
    BY <1>1, <2>2, ResetTypes DEF Begin
  <2>4. QED
    BY <1>1, <2>1, <2>2, <2>3 DEF Begin, phaseVars
<1>2. CASE Resume
  <2>1. GitTypes'
    BY <1>2 DEF Resume, GitTypes, gitVars
  <2>2. file \in WorkflowStates
    BY <1>2 DEF Resume
  <2> DEFINE p == Restored(BuildPlan(Snapshot(repo)), Snapshot(repo), file.plannedSync, file.plannedPush)
  <2>3. p \in Plan
    BY <2>2, PlanTypes, RestoredTypes DEF WorkflowStates
  <2>4. Rewound(Snapshot(repo)) \in WorkflowStates
    BY <2>2, RewoundTypes DEF Rewound
  <2>5. CASE ChangedUnplanned(Snapshot(repo), p)
    BY <1>2, <2>1, <2>5 DEF Resume, End, phaseVars
  <2>6. CASE ~ ChangedUnplanned(Snapshot(repo), p)
    <3> HIDE DEF p
    <3>1. /\ snapshot' = Snapshot(repo) /\ plan' = p
          /\ state' = Rewound(Snapshot(repo)) /\ file' = state'
          /\ pass' = 0 /\ again' = FALSE /\ place' = "phase" /\ exit' = -1
          /\ calm' = [call |-> FALSE, look |-> 9 \notin state'.completed]
          /\ UNCHANGED <<todo, summary>>
      BY <1>2, <2>6 DEF Resume, p, phaseVars
    <3>2. QED
      BY <3>1, <2>1, <2>3, <2>4, <1>0
  <2>7. QED
    BY <2>5, <2>6
<1>3. CASE BeginPhase
  <2>1. GitTypes'
    BY <1>3 DEF BeginPhase, GitTypes, gitVars
  <2> DEFINE S == {i \in state.currentPhase..9 : i \notin state.completed}
  <2>2. S \in SUBSET Nat /\ S # {} /\ S \subseteq 1..9
    BY <1>3 DEF BeginPhase, WorkflowStates
  <2>3. Next1 \in 1..9
    BY <2>2, MinIsLeast DEF Next1
  <2>4. state' \in WorkflowStates /\ file' \in WorkflowStates
    <3>1. [state EXCEPT !.currentPhase = Next1] \in WorkflowStates
      BY <2>3 DEF WorkflowStates
    <3>2. QED
      BY <1>3, <3>1 DEF BeginPhase
  <2>5. todo' \in SUBSET Repos
    BY <1>3 DEF BeginPhase, Work, Plan
  <2>6. summary' \in Summaries
    BY <1>3 DEF BeginPhase, Summary, Summaries, Plan
  <2>7. QED
    BY <1>3, <2>1, <2>4, <2>5, <2>6 DEF BeginPhase
<1>4. CASE Skip
  <2>1. GitTypes'
    BY <1>4 DEF Skip, GitTypes, gitVars
  <2>2. Turn \in Repos
    BY <1>4, TurnIsLeft DEF Skip
  <2>3. summary' \in Summaries
    BY <1>4, <2>2, SummaryTypes DEF Skip, Took
  <2>4. QED
    BY <1>4, <2>1, <2>3 DEF Skip, Took, Fine, phaseUnchanged
<1>5. CASE CommitRepo
  <2>1. Turn \in Repos
    BY <1>5, TurnIsLeft DEF CommitRepo, Ready
  <2>2. Committed(repo, Turn, fresh) \in Local /\ IsFiniteSet(Committed(repo, Turn, fresh).unpub)
    BY <2>1, CommittedTypes DEF GitTypes
  <2>3. GitTypes'
    <3>1. CASE repo' = [repo EXCEPT ![Turn] = Committed(repo, Turn, fresh)]
               /\ fresh' = IF repo'[Turn].head = fresh THEN fresh + 1 ELSE fresh
      <4>1. fresh' \in Nat /\ remote' = remote
        BY <3>1, <1>5 DEF CommitRepo, GitTypes
      <4>2. QED
        BY <4>1, <2>1, <2>2, <3>1, LocalTypes
    <3>2. CASE UNCHANGED <<repo, fresh>>
      BY <3>2, <1>5 DEF CommitRepo, GitTypes
    <3>3. QED
      BY <3>1, <3>2, <1>5 DEF CommitRepo
  <2>4. todo' \in SUBSET Repos /\ summary' \in Summaries
    BY <1>5, <2>1, SummaryTypes DEF CommitRepo, Took
  <2>5. calm' \in [call : BOOLEAN, look : BOOLEAN]
    BY <1>5 DEF CommitRepo, Fail, Fine
  <2>6. QED
    BY <1>5, <2>3, <2>4, <2>5 DEF CommitRepo, phaseUnchanged
<1>6. CASE Sync
  <2>1. Turn \in Repos
    BY <1>6, TurnIsLeft DEF Sync, Ready
  <2>2. GitTypes'
    <3>1. CASE /\ \E pins \in RebasedPins(repo[Turn], remote[Turn]) :
                     repo' = [repo EXCEPT ![Turn] = Rebased(@, remote[Turn], pins, fresh)]
               /\ fresh' = IF repo'[Turn].head = fresh THEN fresh + 1 ELSE fresh
      <4>1. PICK pins \in RebasedPins(repo[Turn], remote[Turn]) :
                     repo' = [repo EXCEPT ![Turn] = Rebased(repo[Turn], remote[Turn], pins, fresh)]
        BY <3>1
      <4>2. repo[Turn] \in Local /\ remote[Turn] \in Remote /\ IsFiniteSet(repo[Turn].unpub)
        BY <2>1 DEF GitTypes
      <4>3. fresh' \in Nat /\ remote' = remote /\ fresh \in Nat
        BY <3>1, <1>6 DEF Sync, GitTypes
      <4>4. /\ Rebased(repo[Turn], remote[Turn], pins, fresh) \in Local
            /\ IsFiniteSet(Rebased(repo[Turn], remote[Turn], pins, fresh).unpub)
        BY <4>2, <4>3, RebasedTypes
      <4>5. QED
        BY <4>1, <4>3, <4>4, <2>1, LocalTypes
    <3>2. CASE UNCHANGED <<repo, fresh>>
      BY <3>2, <1>6 DEF Sync, GitTypes
    <3>3. QED
      BY <3>1, <3>2, <1>6 DEF Sync
  <2>4. todo' \in SUBSET Repos /\ summary' \in Summaries
    BY <1>6, <2>1, SummaryTypes DEF Sync, Took
  <2>5. calm' \in [call : BOOLEAN, look : BOOLEAN]
    BY <1>6 DEF Sync, Fail, Fine
  <2>6. QED
    BY <1>6, <2>2, <2>4, <2>5 DEF Sync, phaseUnchanged
<1>7. CASE Push
  <2>1. Turn \in Repos
    BY <1>7, TurnIsLeft DEF Push, Ready
  <2>2. /\ Published(remote[Turn], repo[Turn]) \in Remote
        /\ Tracked(repo[Turn]) \in Local /\ IsFiniteSet(Tracked(repo[Turn]).unpub)
    BY <2>1, PublishedTypes, TrackedTypes DEF GitTypes
  <2>3. /\ remote' \in {remote, RemoteAfter(Turn)} /\ fresh' = fresh
        /\ repo' \in {repo, [repo EXCEPT ![Turn] = Tracked(@)]}
    BY <1>7 DEF Push
  <2>4. remote' \in [Repos -> Remote] /\ repo' \in [Repos -> Local]
    BY <2>1, <2>2, <2>3 DEF RemoteAfter, GitTypes
  <2>5. \A r \in Repos : IsFiniteSet(repo'[r].unpub)
    BY <2>1, <2>2, <2>3 DEF GitTypes
  <2>6. GitTypes'
    BY <2>3, <2>4, <2>5 DEF GitTypes
  <2>7. todo' \in SUBSET Repos /\ summary' \in Summaries
    BY <1>7, <2>1, SummaryTypes DEF Push, Took
  <2>8. calm' \in [call : BOOLEAN, look : BOOLEAN]
    BY <1>7 DEF Push, Fail, Fine
  <2>9. QED
    BY <1>7, <2>6, <2>7, <2>8 DEF Push, phaseUnchanged
<1>8. CASE Delta
  <2>1. GitTypes'
    BY <1>8 DEF Delta, GitTypes, gitVars
  <2>2. calm' \in [call : BOOLEAN, look : BOOLEAN]
    BY <1>8 DEF Delta, Fail, Fine
  <2>3. Root \in Repos
    BY TreeAssumption
  <2>4. CASE /\ snapshot' = Snapshot(repo) /\ plan' = BuildPlan(snapshot')
             /\ state' = [state EXCEPT !.plannedSync = plan'.sync, !.plannedPush = plan'.push,
                                       !.baselines = Baselines(snapshot')]
             /\ summary' = [Summary EXCEPT !.succeeded = {Root}, !.blocked = plan'.blocked]
    <3>1. snapshot' \in Look /\ plan' \in Plan
      BY <2>4, <1>0, PlanTypes
    <3>2. ResetState(snapshot', plan') \in WorkflowStates
      BY <3>1, ResetTypes
    <3>3. Baselines(snapshot') \in Bases
      BY <3>2 DEF ResetState, WorkflowStates
    <3>4. plan'.sync \in SUBSET Repos /\ plan'.push \in SUBSET Repos /\ plan'.blocked \in SUBSET Repos
      BY <3>1 DEF Plan
    <3>5. state' \in WorkflowStates
      BY <2>4, <3>3, <3>4 DEF WorkflowStates
    <3>6. summary' \in Summaries
      BY <2>3, <2>4, <3>4 DEF Summary, Summaries
    <3>7. QED
      BY <1>8, <2>1, <2>2, <3>1, <3>5, <3>6 DEF Delta
  <2>5. CASE summary' = [Summary EXCEPT !.failed = {Root}] /\ UNCHANGED <<snapshot, plan, state>>
    <3>1. summary' \in Summaries
      BY <2>3, <2>5 DEF Summary, Summaries
    <3>2. QED
      BY <1>8, <2>1, <2>2, <2>5, <3>1 DEF Delta
  <2>6. QED
    BY <1>8, <2>4, <2>5 DEF Delta
<1>9. CASE Final
  <2>1. GitTypes'
    BY <1>9 DEF Final, GitTypes, gitVars
  <2>2. calm' \in [call : BOOLEAN, look : BOOLEAN]
    BY <1>9 DEF Final, Fail
  <2>3. Root \in Repos
    BY TreeAssumption
  <2>4. CASE /\ snapshot' = Snapshot(repo) /\ plan' = BuildPlan(snapshot')
             /\ again' = (plan'.blocked = {} /\ Runnable(plan'))
             /\ state' = IF plan'.blocked = {} /\ ~Runnable(plan')
                         THEN [state EXCEPT !.failed = {}, !.blocked = {}] ELSE state
             /\ summary' = [Summary EXCEPT !.blocked = plan'.blocked,
                                        !.succeeded = IF plan'.blocked = {} THEN {Root} ELSE {}]
    <3>1. snapshot' \in Look /\ plan' \in Plan
      BY <2>4, <1>0, PlanTypes
    <3>2. state' \in WorkflowStates
      BY <2>4 DEF WorkflowStates
    <3>3. summary' \in Summaries
      BY <2>3, <2>4, <3>1 DEF Summary, Summaries, Plan
    <3>4. QED
      BY <1>9, <2>1, <2>2, <2>4, <3>1, <3>2, <3>3 DEF Final
  <2>5. CASE summary' = [Summary EXCEPT !.failed = {Root}] /\ UNCHANGED <<snapshot, plan, state, again>>
    <3>1. summary' \in Summaries
      BY <2>3, <2>5 DEF Summary, Summaries
    <3>2. QED
      BY <1>9, <2>1, <2>2, <2>5, <3>1 DEF Final
  <2>6. QED
    BY <1>9, <2>4, <2>5 DEF Final
<1>10. CASE Record
  <2>1. GitTypes'
    BY <1>10 DEF Record, GitTypes, gitVars
  <2>2. summary.succeeded \cup summary.skipped \cup plan.unchanged \in SUBSET Repos
    BY DEF Summaries, Plan
  <2>3. state' \in WorkflowStates
    <3>1. Phase \in 1..9
      BY DEF Phase, WorkflowStates
    <3>2. [state.results EXCEPT ![Phase] = summary.succeeded \cup summary.skipped \cup plan.unchanged]
            \in Results
      BY <2>2 DEF WorkflowStates, Results
    <3>3. /\ (state.completed \cup {Phase}) \in SUBSET (1..9)
          /\ (state.succeeded \cup summary.succeeded) \in SUBSET Repos
          /\ ((state.failed \ summary.succeeded) \cup summary.failed) \in SUBSET Repos
          /\ ((state.blocked \ summary.succeeded) \cup summary.blocked) \in SUBSET Repos
      BY <3>1 DEF WorkflowStates, Summaries
    <3>4. QED
      BY <1>10, <3>2, <3>3 DEF Record, WorkflowStates
  <2>4. QED
    BY <1>10, <2>1, <2>3 DEF Record, phaseVars
<1>11. CASE Decide
  <2>1. GitTypes'
    BY <1>11 DEF Decide, GitTypes, gitVars
  <2>2. [state EXCEPT !.completed = @ \ {Phase}] \in WorkflowStates
    BY DEF WorkflowStates
  <2>3. QED
    BY <1>11, <2>1, <2>2 DEF Decide, End, phaseVars
<1>12. CASE AnotherPass
  <2>1. GitTypes'
    BY <1>12 DEF AnotherPass, GitTypes, gitVars
  <2>2. ResetState(snapshot, plan) \in WorkflowStates
    BY ResetTypes
  <2>3. [state EXCEPT !.blocked = plan.sync \cup plan.commit \cup plan.push] \in WorkflowStates
    BY DEF WorkflowStates, Plan
  <2>4. pass' \in Nat
    BY <1>12 DEF AnotherPass
  <2>5. state' \in WorkflowStates /\ file' = state'
    BY <1>12, <2>2, <2>3, Zenon DEF AnotherPass
  <2>6. place' \in {place, "idle"} /\ exit' \in {exit, 1}
    BY <1>12 DEF AnotherPass, End
  <2>7. again' = FALSE /\ UNCHANGED <<todo, summary, snapshot, plan, calm>>
    BY <1>12 DEF AnotherPass, phaseVars
  <2>8. QED
    BY <2>1, <2>4, <2>5, <2>6, <2>7
<1>13. CASE Finish
  <2>1. GitTypes'
    BY <1>13 DEF Finish, GitTypes, gitVars
  <2>2. QED
    BY <1>13, <2>1 DEF Finish, End, phaseVars
<1>14. CASE Edit
  <2>1. GitTypes'
    <3>1. PICK r \in Repos : repo' = [repo EXCEPT ![r] = [repo[r] EXCEPT !.content = TRUE]]
      BY <1>14 DEF Edit
    <3>2. /\ [repo[r] EXCEPT !.content = TRUE] \in Local
          /\ [repo[r] EXCEPT !.content = TRUE].unpub = repo[r].unpub
      BY DEF GitTypes, Local
    <3>3. remote' = remote /\ fresh' \in Nat /\ IsFiniteSet(repo[r].unpub)
      BY <1>14 DEF Edit, GitTypes
    <3>4. QED
      BY <3>1, <3>2, <3>3, LocalTypes
  <2>2. QED
    BY <1>14, <2>1 DEF Edit, Disturb, phaseVars
<1>15. CASE PushElsewhere
  <2>1. GitTypes'
    <3>1. PICK r \in Repos : remote' = [remote EXCEPT ![r] =
              [tip |-> fresh, has |-> @.has \cup {fresh},
               pins |-> [c \in Repos |-> IF c \in Children(r) THEN remote[c].tip ELSE 0]]]
      BY <1>15 DEF PushElsewhere
    <3>2. [c \in Repos |-> IF c \in Children(r) THEN remote[c].tip ELSE 0] \in [Repos -> Nat]
      BY DEF GitTypes, Remote, Children
    <3>3. remote' \in [Repos -> Remote]
      BY <3>1, <3>2 DEF GitTypes, Remote
    <3>4. QED
      BY <1>15, <3>3 DEF PushElsewhere, GitTypes
  <2>2. QED
    BY <1>15, <2>1 DEF PushElsewhere, Disturb, phaseVars
<1>16. CASE Fetch
  <2>1. GitTypes'
    <3>1. PICK r \in Repos : repo' = [repo EXCEPT ![r] =
              IF remote[r].tip = repo[r].head THEN Tracked(repo[r])
              ELSE [repo[r] EXCEPT !.seen = remote[r].tip]]
      BY <1>16 DEF Fetch
    <3>2. Tracked(repo[r]) \in Local /\ IsFiniteSet(Tracked(repo[r]).unpub)
      BY TrackedTypes DEF GitTypes
    <3>3. /\ [repo[r] EXCEPT !.seen = remote[r].tip] \in Local
          /\ [repo[r] EXCEPT !.seen = remote[r].tip].unpub = repo[r].unpub
      <4>1. repo[r] \in Local /\ remote[r].tip \in Nat
        BY DEF GitTypes, Remote
      <4>2. QED
        BY <4>1 DEF Local
    <3>4. remote' = remote /\ fresh' \in Nat
      BY <1>16 DEF Fetch, GitTypes
    <3>5. IsFiniteSet(repo[r].unpub)
      BY DEF GitTypes
    <3>6. QED
      BY <3>1, <3>2, <3>3, <3>4, <3>5, LocalTypes
  <2>2. QED
    BY <1>16, <2>1 DEF Fetch, Disturb, phaseVars
<1>17. CASE Kill
  <2>1. GitTypes'
    BY <1>17 DEF Kill, GitTypes, gitVars
  <2>2. QED
    BY <1>17, <2>1 DEF Kill, phaseVars
<1>18. CASE UNCHANGED convergeVars
  <2>1. GitTypes'
    BY <1>18 DEF convergeVars, GitTypes
  <2>2. QED
    BY <1>18, <2>1 DEF convergeVars
<1>19. QED
  BY <1>1, <1>2, <1>3, <1>4, <1>5, <1>6, <1>7, <1>8, <1>9, <1>10, <1>11, <1>12, <1>13,
     <1>14, <1>15, <1>16, <1>17, <1>18 DEF ConvergeNext, Step

-----------------------------------------------------------------------------
(* The phases                                                              *)

\* The phases up to the current one are completed, but for the first sync that
\* a resumed call has gone back to.
InOrderTo(st, n) ==
    /\ st.currentPhase <= n /\ st.currentPhase \in {n - 1, n, 3}
    /\ \/ st.completed = 1..(n - 1)
       \/ st.currentPhase = 3 /\ n > 3 /\ st.completed = (1..(n - 1)) \ {3}
InOrder(st) == \E n \in 1..10 : InOrderTo(st, n)

Remaining == (state.currentPhase..9) \ state.completed

PhaseInv ==
    /\ InOrder(state) /\ (file # NoFile => InOrder(file))
    /\ place = "work" => Phase \notin state.completed /\ todo \subseteq Work(Phase, plan)
    /\ place = "decide" => Phase \in state.completed
    /\ place = "work" /\ Phase \in CommitPhases =>
          \A x \in Work(Phase, plan) \ todo, y \in todo : x < y
    /\ place \in {"work", "decide"} /\ Phase = 5 /\ summary # Summary =>
          Root \in summary.succeeded \cup summary.failed
    /\ place # "idle" /\ again =>
          Phase = 9 /\ IF place = "work" THEN summary # Summary ELSE 9 \in state.completed

\* The phase that is entered is the first that remains.
LEMMA NextPhase ==
    ASSUME state \in WorkflowStates, Remaining # {}
    PROVE  Next1 \in Remaining /\ Next1 \in 1..9 /\ \A i \in Remaining : Next1 <= i
<1> DEFINE S == {i \in state.currentPhase..9 : i \notin state.completed}
<1>1. S = Remaining
  BY DEF Remaining
<1>2. S \in SUBSET Nat /\ S # {} /\ S \subseteq 1..9
  BY <1>1 DEF WorkflowStates
<1>3. Next1 = Min(S)
  BY DEF Next1
<1> HIDE DEF S
<1>4. Min(S) \in S /\ \A i \in S : Min(S) <= i
  BY <1>2, MinIsLeast
<1>5. QED
  BY <1>1, <1>2, <1>3, <1>4

\* The phases stay in order when one is entered, ...
LEMMA OrderEntered ==
    ASSUME NEW st \in WorkflowStates, NEW k \in (st.currentPhase..9) \ st.completed,
           \A i \in (st.currentPhase..9) \ st.completed : k <= i, InOrder(st)
    PROVE  InOrder([st EXCEPT !.currentPhase = k])
<1> DEFINE t == [st EXCEPT !.currentPhase = k]
<1>1. t.currentPhase = k /\ t.completed = st.completed /\ st.currentPhase \in 1..9 /\ k \in 1..9
  BY DEF WorkflowStates
<1>2. PICK n \in 1..10 : InOrderTo(st, n)
  BY DEF InOrder
<1> HIDE DEF t
<1>3. CASE st.completed = 1..(n - 1)
  <2>1. k >= n /\ n <= 9
    BY <1>1, <1>2, <1>3 DEF InOrderTo
  <2>2. n \in (st.currentPhase..9) \ st.completed
    BY <1>1, <1>2, <1>3, <2>1 DEF InOrderTo
  <2>3. k = n
    BY <2>1, <2>2
  <2>4. QED
    BY <1>1, <1>3, <2>3 DEF InOrderTo, InOrder, t
<1>4. CASE st.currentPhase = 3 /\ n > 3 /\ st.completed = (1..(n - 1)) \ {3}
  <2>1. k = 3
    BY <1>1, <1>4
  <2>2. QED
    BY <1>1, <1>4, <2>1 DEF InOrderTo, InOrder, t
<1>5. QED
  BY <1>2, <1>3, <1>4 DEF InOrderTo

\* ... when one is completed, ...
LEMMA OrderCompleted ==
    ASSUME NEW st \in WorkflowStates, NEW u \in WorkflowStates, u.currentPhase = st.currentPhase,
           u.completed = st.completed \cup {st.currentPhase},
           st.currentPhase \notin st.completed, InOrder(st)
    PROVE  InOrder(u)
<1>1. st.currentPhase \in 1..9
  BY DEF WorkflowStates
<1>2. PICK n \in 1..10 : InOrderTo(st, n)
  BY DEF InOrder
<1>3. CASE st.completed = 1..(n - 1)
  <2>1. st.currentPhase = n
    BY <1>1, <1>2, <1>3 DEF InOrderTo
  <2>2. u.completed = 1..((n + 1) - 1) /\ n + 1 \in 1..10
    BY <1>1, <1>3, <2>1
  <2>3. InOrderTo(u, n + 1)
    BY <2>1, <2>2, <1>1 DEF InOrderTo
  <2>4. QED
    BY <2>2, <2>3 DEF InOrder
<1>4. CASE st.currentPhase = 3 /\ n > 3 /\ st.completed = (1..(n - 1)) \ {3}
  <2>1. u.completed = 1..(n - 1)
    BY <1>4
  <2>2. InOrderTo(u, n)
    BY <1>4, <2>1 DEF InOrderTo
  <2>3. QED
    BY <2>2 DEF InOrder
<1>5. QED
  BY <1>2, <1>3, <1>4 DEF InOrderTo

\* ... when the one that went wrong is opened again, ...
LEMMA OrderReopened ==
    ASSUME NEW st \in WorkflowStates, NEW u \in WorkflowStates, u.currentPhase = st.currentPhase,
           u.completed = st.completed \ {st.currentPhase},
           st.currentPhase \in st.completed, InOrder(st)
    PROVE  InOrder(u)
<1>1. st.currentPhase \in 1..9
  BY DEF WorkflowStates
<1>2. PICK n \in 1..10 : InOrderTo(st, n)
  BY DEF InOrder
<1>3. st.completed = 1..(n - 1)
  BY <1>2 DEF InOrderTo
<1>4. st.currentPhase = n - 1 \/ (st.currentPhase = 3 /\ n > 3)
  BY <1>1, <1>2, <1>3 DEF InOrderTo
<1>5. CASE st.currentPhase = n - 1
  <2>1. u.completed = 1..((n - 1) - 1) /\ n - 1 \in 1..10
    BY <1>1, <1>3, <1>5
  <2>2. InOrderTo(u, n - 1)
    BY <1>1, <1>5, <2>1 DEF InOrderTo
  <2>3. QED
    BY <2>1, <2>2 DEF InOrder
<1>6. CASE st.currentPhase = 3 /\ n > 3
  <2>1. InOrderTo(u, n)
    BY <1>3, <1>6 DEF InOrderTo
  <2>2. QED
    BY <2>1 DEF InOrder
<1>7. QED
  BY <1>4, <1>5, <1>6

\* ... when a resumed call goes back to the first sync, ...
LEMMA OrderRewound ==
    ASSUME NEW st \in WorkflowStates, st.currentPhase >= 4, InOrder(st)
    PROVE  InOrder([st EXCEPT !.completed = @ \ {3}, !.currentPhase = 3])
<1>1. PICK n \in 1..10 : InOrderTo(st, n)
  BY DEF InOrder
<1>2. n > 3 /\ st.completed = 1..(n - 1)
  BY <1>1 DEF InOrderTo
<1>3. /\ [st EXCEPT !.completed = @ \ {3}, !.currentPhase = 3].currentPhase = 3
      /\ [st EXCEPT !.completed = @ \ {3}, !.currentPhase = 3].completed = st.completed \ {3}
  BY DEF WorkflowStates
<1> DEFINE u == [st EXCEPT !.completed = @ \ {3}, !.currentPhase = 3]
<1> HIDE DEF u
<1>4. u.currentPhase = 3 /\ u.completed = (1..(n - 1)) \ {3}
  BY <1>2, <1>3 DEF u
<1>5. InOrder(u)
  <2>1. InOrderTo(u, n)
    BY <1>2, <1>4 DEF InOrderTo
  <2>2. QED
    BY <2>1 DEF InOrder
<1>6. QED
  BY <1>5 DEF u

\* ... and at the start of a call or a pass.
LEMMA OrderReset ==
    ASSUME NEW look, NEW p
    PROVE  InOrder(ResetState(look, p))
<1>1. ResetState(look, p).currentPhase = 1 /\ ResetState(look, p).completed = 1..(1 - 1)
  BY DEF ResetState
<1>2. QED
  BY <1>1 DEF InOrder, InOrderTo

\* The phases that are left in a call: entered, the same; recorded, one less.
LEMMA EnteredRemaining ==
    ASSUME state \in WorkflowStates, state' \in WorkflowStates, Remaining # {},
           state' = [state EXCEPT !.currentPhase = Next1]
    PROVE  Phase' = Next1 /\ state'.completed = state.completed /\ Remaining' = Remaining
<1>1. Phase' = Next1 /\ state'.completed = state.completed
  BY DEF Phase, WorkflowStates
<1>2. Next1 \in Remaining /\ \A i \in Remaining : Next1 <= i
  BY NextPhase
<1>3. QED
  BY <1>1, <1>2 DEF Remaining, Phase, WorkflowStates

\* A recorded phase no longer remains.
LEMMA RecordedRemaining ==
    ASSUME state \in WorkflowStates, state'.currentPhase = state.currentPhase,
           state'.completed = state.completed \cup {Phase}
    PROVE  Remaining' = Remaining \ {Phase}
BY DEF Remaining, Phase

\* While the first commits are made the second look is still to come.
LEMMA LookComes ==
    ASSUME state \in WorkflowStates, InOrder(state), Phase = 2, Phase \notin state.completed
    PROVE  5 \in Remaining
<1>1. PICK n \in 1..10 : InOrderTo(state, n)
  BY DEF InOrder
<1>2. state.completed = 1..(n - 1) /\ n <= 2
  BY <1>1 DEF Phase, InOrderTo
<1>3. QED
  BY <1>2 DEF Remaining, Phase

\* Only commits, syncs and pushes are phases in which repositories take turns.
LEMMA WorkPhases ==
    ASSUME PhaseInv, place = "work", todo # {}
    PROVE  Phase \in CommitPhases \cup SyncPhases \cup PushPhases
BY DEF PhaseInv, Work, PushPhases

\* A turn keeps the order; the commits go by number.
LEMMA TookPhases ==
    ASSUME ConvergeTypes, PhaseInv, place = "work", todo # {}, todo' = todo \ {Turn},
           UNCHANGED <<place, plan, state, file, again>>
    PROVE  PhaseInv'
<1>1. Phase \in CommitPhases \cup SyncPhases \cup PushPhases
  BY WorkPhases
<1>2. Phase \notin {5, 9} /\ Phase' = Phase /\ ~ again
  BY <1>1 DEF CommitPhases, SyncPhases, PushPhases, Phase, PhaseInv
<1>3. InOrder(state)' /\ (file # NoFile => InOrder(file))'
  BY DEF PhaseInv
<1>4. (Phase \notin state.completed /\ todo \subseteq Work(Phase, plan))'
  BY <1>2 DEF PhaseInv
<1>5. Phase \in CommitPhases => \A x \in Work(Phase, plan) \ todo', y \in todo' : x < y
  <2> SUFFICES ASSUME Phase \in CommitPhases, NEW x \in Work(Phase, plan) \ todo', NEW y \in todo'
               PROVE  x < y
    OBVIOUS
  <2>1. Turn \in todo /\ \A q \in todo : Turn <= q
    BY TurnIsLeft DEF ConvergeTypes, CommitPhases, PushPhases
  <2>2. CASE x \in todo
    <3>1. x = Turn /\ Turn <= y /\ y # Turn
      BY <2>1, <2>2
    <3>2. Turn \in Nat /\ y \in Nat
      BY <2>1, RepoNumbers DEF ConvergeTypes
    <3>3. QED
      BY <3>1, <3>2
  <2>3. CASE x \notin todo
    BY <2>3 DEF PhaseInv
  <2>4. QED
    BY <2>2, <2>3
<1>6. QED
  BY <1>2, <1>3, <1>4, <1>5 DEF PhaseInv

\* Every step keeps the order of the phases.
LEMMA NextPhases ==
    ConvergeTypes /\ PhaseInv /\ [ConvergeNext]_convergeVars => PhaseInv'
<1> SUFFICES ASSUME ConvergeTypes, PhaseInv, [ConvergeNext]_convergeVars PROVE PhaseInv'
  OBVIOUS
<1>0. ConvergeTypes'
  BY NextTypes
<1>1. CASE Begin
  <2>1. InOrder(state)' /\ InOrder(file)'
    BY <1>1, OrderReset DEF Begin
  <2>2. place' = "phase" /\ again' = FALSE
    BY <1>1 DEF Begin
  <2>3. QED
    BY <2>1, <2>2 DEF PhaseInv
<1>2. CASE Resume
  <2>1. file \in WorkflowStates /\ InOrder(file) /\ place = "idle"
    BY <1>2 DEF Resume, ConvergeTypes, PhaseInv
  <2>2. \A look : InOrder(Rewound(look))
    BY <2>1, OrderRewound DEF Rewound
  <2>3. CASE place' = "idle" /\ UNCHANGED <<state, file>>
    BY <2>1, <2>3 DEF PhaseInv
  <2>4. CASE place' = "phase" /\ again' = FALSE /\ file' = state' /\ state' = Rewound(Snapshot(repo))
    BY <2>2, <2>4 DEF PhaseInv
  <2>5. QED
    BY <1>2, <2>3, <2>4, <2>1 DEF Resume, End
<1>3. CASE BeginPhase
  <2>1. Remaining # {} /\ state' = [state EXCEPT !.currentPhase = Next1] /\ file' = state'
    BY <1>3 DEF BeginPhase, Remaining
  <2>2. Phase' = Next1 /\ state'.completed = state.completed /\ Next1 \in Remaining
    BY <2>1, <1>0, EnteredRemaining, NextPhase DEF ConvergeTypes
  <2>3. InOrder(state)'
    BY <2>1, NextPhase, OrderEntered DEF Remaining, PhaseInv, ConvergeTypes
  <2>4. Phase' \notin state'.completed
    BY <2>2 DEF Remaining
  <2>5. todo' = Work(Phase, plan)' /\ place' = "work"
    BY <1>3, <2>2 DEF BeginPhase, Work
  <2>6. ~ again
    BY <1>3 DEF BeginPhase, PhaseInv, Phase, Remaining, ConvergeTypes, WorkflowStates
  <2>7. Next1 = 5 => summary' = Summary
    BY <1>3 DEF BeginPhase, Summary
  <2>8. again' = again
    BY <1>3 DEF BeginPhase
  <2>9. QED
    BY <2>1, <2>2, <2>3, <2>4, <2>5, <2>6, <2>7, <2>8 DEF PhaseInv
<1>4. CASE Skip
  BY <1>4, TookPhases DEF Skip, Took, phaseUnchanged
<1>5. CASE CommitRepo
  BY <1>5, TookPhases DEF CommitRepo, Ready, Took, phaseUnchanged
<1>6. CASE Sync
  BY <1>6, TookPhases DEF Sync, Ready, Took, phaseUnchanged
<1>7. CASE Push
  BY <1>7, TookPhases DEF Push, Ready, Took, phaseUnchanged
<1>8. CASE Delta
  <2>1. place = "work" /\ Phase = 5 /\ UNCHANGED <<place, file, todo, again>>
    BY <1>8 DEF Delta
  <2>2. state'.currentPhase = state.currentPhase /\ state'.completed = state.completed
    BY <1>8 DEF Delta, ConvergeTypes, WorkflowStates
  <2>3. todo = {}
    BY <2>1 DEF PhaseInv, Work, CommitPhases, SyncPhases
  <2>4. Root \in summary'.succeeded \cup summary'.failed
    BY <1>8 DEF Delta, Summary
  <2>5. InOrder(state)'
    BY <2>2 DEF PhaseInv, InOrder, InOrderTo
  <2>6. ~ again
    BY <2>1 DEF PhaseInv
  <2>7. QED
    BY <2>1, <2>2, <2>3, <2>4, <2>5, <2>6 DEF PhaseInv, Phase, CommitPhases
<1>9. CASE Final
  <2>1. place = "work" /\ Phase = 9 /\ UNCHANGED <<place, file, todo>> /\ summary = Summary
    BY <1>9 DEF Final
  <2>2. state'.currentPhase = state.currentPhase /\ state'.completed = state.completed
    BY <1>9 DEF Final, ConvergeTypes, WorkflowStates
  <2>3. todo = {}
    BY <2>1 DEF PhaseInv, Work, CommitPhases, SyncPhases
  <2>4. again' => summary' # Summary
    <3>1. CASE summary' = [Summary EXCEPT !.failed = {Root}]
      BY <3>1 DEF Summary
    <3>2. CASE /\ again' = (plan'.blocked = {} /\ Runnable(plan'))
               /\ summary' = [Summary EXCEPT !.blocked = plan'.blocked,
                                             !.succeeded = IF plan'.blocked = {} THEN {Root} ELSE {}]
      BY <3>2 DEF Summary
    <3>3. QED
      BY <1>9, <3>1, <3>2 DEF Final
  <2>5. InOrder(state)'
    BY <2>2 DEF PhaseInv, InOrder, InOrderTo
  <2>6. QED
    BY <2>1, <2>2, <2>3, <2>4, <2>5 DEF PhaseInv, Phase, CommitPhases
<1>10. CASE Record
  <2>1. /\ state'.currentPhase = state.currentPhase
        /\ state'.completed = state.completed \cup {Phase}
        /\ file' = state' /\ place' = "decide" /\ place = "work"
        /\ UNCHANGED <<summary, again>>
    BY <1>10 DEF Record, ConvergeTypes, WorkflowStates, phaseVars
  <2>2. InOrder(state)'
    BY <2>1, <1>0, OrderCompleted DEF PhaseInv, ConvergeTypes, Phase
  <2>3. Phase' = Phase /\ Phase' \in state'.completed
    BY <2>1 DEF Phase
  <2>4. again' => Phase = 9
    BY <2>1 DEF PhaseInv
  <2>5. QED
    BY <2>1, <2>2, <2>3, <2>4 DEF PhaseInv
<1>11. CASE Decide
  <2>1. CASE place' = "phase" /\ UNCHANGED <<state, file>>
    BY <2>1, <1>11 DEF PhaseInv, Decide, Phase
  <2>2. CASE place' = "idle" /\ state' = [state EXCEPT !.completed = @ \ {Phase}] /\ file' = state'
    <3>1. state'.currentPhase = state.currentPhase /\ state'.completed = state.completed \ {Phase}
      BY <2>2 DEF ConvergeTypes, WorkflowStates
    <3>2. InOrder(state)'
      BY <3>1, <1>0, <1>11, OrderReopened DEF PhaseInv, Decide, ConvergeTypes, Phase
    <3>3. QED
      BY <2>2, <3>2 DEF PhaseInv
  <2>3. QED
    BY <1>11, <2>1, <2>2 DEF Decide, End
<1>12. CASE AnotherPass
  <2>1. file' = state' /\ again' = FALSE /\ place' \in {"phase", "idle"}
    BY <1>12 DEF AnotherPass, PhasesDone, End
  <2>2. CASE state' = ResetState(snapshot, plan)
    BY <2>1, <2>2, OrderReset DEF PhaseInv
  <2>3. CASE state' = [state EXCEPT !.blocked = plan.sync \cup plan.commit \cup plan.push]
    <3>1. state'.currentPhase = state.currentPhase /\ state'.completed = state.completed
      BY <2>3 DEF ConvergeTypes, WorkflowStates
    <3>2. InOrder(state)'
      BY <3>1 DEF PhaseInv, InOrder, InOrderTo
    <3>3. QED
      BY <2>1, <3>2 DEF PhaseInv
  <2>4. QED
    BY <1>12, <2>2, <2>3 DEF AnotherPass
<1>13. CASE Finish
  BY <1>13 DEF Finish, End, PhaseInv, NoFile
<1>14. CASE Edit
  BY <1>14 DEF Edit, Disturb, phaseVars, PhaseInv, Phase
<1>15. CASE PushElsewhere
  BY <1>15 DEF PushElsewhere, Disturb, phaseVars, PhaseInv, Phase
<1>16. CASE Fetch
  BY <1>16 DEF Fetch, Disturb, phaseVars, PhaseInv, Phase
<1>17. CASE Kill
  BY <1>17 DEF Kill, phaseVars, PhaseInv
<1>18. CASE UNCHANGED convergeVars
  BY <1>18 DEF convergeVars, PhaseInv, Phase
<1>19. QED
  BY <1>1, <1>2, <1>3, <1>4, <1>5, <1>6, <1>7, <1>8, <1>9, <1>10, <1>11, <1>12, <1>13,
     <1>14, <1>15, <1>16, <1>17, <1>18 DEF ConvergeNext, Step

-----------------------------------------------------------------------------
(* What git keeps true                                                     *)

\* What git commit changes.
LEMMA CommittedEffect ==
    ASSUME NEW s \in [Repos -> Local], NEW r \in Repos, NEW n \in Nat
    PROVE  LET l == Committed(s, r, n) IN
           /\ \/ l = s[r]
              \/ l.head = n /\ l.pins = Pins(s, r) /\ l.unpub = s[r].unpub \cup {n}
           /\ l.attached = s[r].attached /\ l.pushable = s[r].pushable /\ l.withheld = s[r].withheld
           /\ l.conflict = s[r].conflict
BY DEF Committed, Local

\* What a rebase changes: a HEAD that stays, that of the remote, or a new one.
LEMMA RebasedEffect ==
    ASSUME NEW l \in Local, NEW m \in Remote, NEW n \in Nat, NEW pins \in RebasedPins(l, m)
    PROVE  LET k == Rebased(l, m, pins, n) IN
           /\ \/ k.head = l.head /\ k.unpub = l.unpub /\ k.pins = l.pins
              \/ Own(l, m) = {} /\ k.head = m.tip /\ k.unpub = {} /\ k.pins = m.pins
              \/ /\ Own(l, m) # {} /\ k.head = n /\ k.unpub = {n}
                 /\ \A c \in Repos : k.pins[c] \in {l.pins[c], m.pins[c]}
           /\ k.attached = l.attached /\ k.pushable = l.pushable /\ k.conflict = l.conflict
           /\ k.withheld = l.withheld
<1> DEFINE onto == [l EXCEPT !.base = m.tip, !.seen = m.tip, !.basePins = m.pins]
           k == Rebased(l, m, pins, n)
<1>1. /\ onto.head = l.head /\ onto.unpub = l.unpub /\ onto.pins = l.pins
      /\ onto.attached = l.attached /\ onto.pushable = l.pushable /\ onto.conflict = l.conflict
      /\ onto.withheld = l.withheld
      /\ DOMAIN onto = DOMAIN l
  BY DEF Local
<1>2. CASE m.tip = l.base
  BY <1>1, <1>2 DEF Rebased
<1>3. CASE m.tip # l.base /\ Own(l, m) = {}
  <2>1. k = [onto EXCEPT !.head = m.tip, !.pins = m.pins, !.unpub = {}]
    BY <1>3 DEF Rebased
  <2> HIDE DEF onto, k
  <2>2. DOMAIN onto = {"head", "pins", "base", "basePins", "seen", "unpub", "index", "content",
                       "conflict", "attached", "pushable", "withheld"}
    BY <1>1 DEF Local
  <2>3. /\ k.head = m.tip /\ k.unpub = {} /\ k.pins = m.pins
        /\ k.attached = l.attached /\ k.pushable = l.pushable /\ k.conflict = l.conflict
        /\ k.withheld = l.withheld
    BY <1>1, <2>1, <2>2
  <2>4. QED
    BY <2>3, <1>3 DEF k
<1>4. CASE m.tip # l.base /\ Own(l, m) # {}
  <2>1. k = [onto EXCEPT !.head = n, !.pins = pins, !.unpub = {n}]
    BY <1>4 DEF Rebased
  <2>2. \A c \in Repos : pins[c] \in {l.pins[c], m.pins[c]}
    BY <1>4 DEF RebasedPins
  <2> HIDE DEF onto, k
  <2>3. DOMAIN onto = {"head", "pins", "base", "basePins", "seen", "unpub", "index", "content",
                       "conflict", "attached", "pushable", "withheld"}
    BY <1>1 DEF Local
  <2>4. /\ k.head = n /\ k.unpub = {n} /\ k.pins = pins
        /\ k.attached = l.attached /\ k.pushable = l.pushable /\ k.conflict = l.conflict
        /\ k.withheld = l.withheld
    BY <1>1, <2>1, <2>3
  <2>5. QED
    BY <2>2, <2>4, <1>4 DEF k
<1>5. QED
  BY <1>2, <1>3, <1>4

\* A local change of one repository: HEAD moves to what is published or new.
LEMMA ConsistentLocally ==
    ASSUME NEW s, NEW m, NEW n \in Nat, NEW g, Consistent(s, m, n, g),
           NEW r \in Repos, NEW l \in Local, IsFiniteSet(l.unpub),
           NEW n1 \in Nat, n <= n1, NEW g1, g \subseteq g1,
           l.attached = s[r].attached, l.withheld = s[r].withheld,
           s[r].unpub \subseteq l.unpub \cup g1 \cup m[r].has,
           \A x \in l.unpub : x < n1,
           l.head \in m[r].has \cup l.unpub,
           l.head \in m[r].has => l.unpub \subseteq m[r].has,
           \A c \in Repos \ {Root} : Parent[c] = r /\ s[c].attached =>
               l.pins[c] \in m[c].has \cup g1 \cup s[c].unpub
    PROVE  Consistent([s EXCEPT ![r] = l], m, n1, g1)
<1> DEFINE t == [s EXCEPT ![r] = l]
<1>1. s \in [Repos -> Local] /\ m \in [Repos -> Remote]
  BY DEF Consistent
<1>2. t \in [Repos -> Local] /\ t[r] = l /\ \A q \in Repos \ {r} : t[q] = s[q]
  BY <1>1
<1>3. \A c \in Repos \ {Root} : Parent[c] \in Repos /\ Parent[c] # c
  BY TreeAssumption, RepoNumbers
<1> HIDE DEF t
<1>4. ASSUME NEW q \in Repos
      PROVE  /\ IsFiniteSet(t[q].unpub)
             /\ \A x \in t[q].unpub \cup m[q].has : x < n1
             /\ m[q].tip \in m[q].has /\ t[q].head \in m[q].has \cup t[q].unpub
             /\ t[q].head \in m[q].has => t[q].unpub \subseteq m[q].has
  <2>1. \A x \in s[q].unpub \cup m[q].has : x \in Nat /\ x < n
    BY <1>1 DEF Consistent, Local, Remote
  <2>2. \A x \in s[q].unpub \cup m[q].has : x < n1
    BY <2>1
  <2>3. CASE q = r
    BY <2>2, <2>3, <1>2 DEF Consistent
  <2>4. CASE q # r
    BY <2>2, <2>4, <1>2 DEF Consistent
  <2>5. QED
    BY <2>3, <2>4
<1>5. ASSUME NEW c \in Repos \ {Root}, t[c].attached
      PROVE  /\ t[Parent[c]].pins[c] \in m[c].has \cup g1 \cup t[c].unpub
             /\ m[Parent[c]].pins[c] \in m[c].has \cup g1 \cup Withheld(t[c])
  <2>1. s[c].attached
    BY <1>2, <1>5
  <2>2. /\ s[Parent[c]].pins[c] \in m[c].has \cup g \cup s[c].unpub
        /\ m[Parent[c]].pins[c] \in m[c].has \cup g \cup Withheld(s[c])
    BY <2>1 DEF Consistent
  <2>3. /\ s[c].unpub \subseteq t[c].unpub \cup g1 \cup m[c].has
        /\ Withheld(s[c]) \subseteq Withheld(t[c]) \cup g1 \cup m[c].has
    BY <1>2 DEF Withheld
  <2>4. CASE Parent[c] = r
    BY <2>1, <2>2, <2>3, <2>4, <1>2
  <2>5. CASE Parent[c] # r
    <3>1. t[Parent[c]] = s[Parent[c]]
      BY <2>5, <1>2, <1>3
    <3>2. QED
      BY <3>1, <2>2, <2>3
  <2>6. QED
    BY <2>4, <2>5
<1>6. QED
  BY <1>1, <1>2, <1>4, <1>5 DEF Consistent, t

\* A change of one remote branch: it has more, and pins what is published.
LEMMA ConsistentRemotely ==
    ASSUME NEW s, NEW m, NEW n \in Nat, NEW g, Consistent(s, m, n, g),
           NEW r \in Repos, NEW b \in Remote, NEW n1 \in Nat, n <= n1,
           m[r].has \subseteq b.has, b.tip \in b.has, \A x \in b.has : x < n1,
           s[r].head \in b.has => s[r].unpub \subseteq b.has,
           \A c \in Repos \ {Root} : Parent[c] = r /\ s[c].attached =>
               b.pins[c] \in m[c].has \cup g \cup Withheld(s[c])
    PROVE  Consistent(s, [m EXCEPT ![r] = b], n1, g)
<1> DEFINE k == [m EXCEPT ![r] = b]
<1>1. s \in [Repos -> Local] /\ m \in [Repos -> Remote]
  BY DEF Consistent
<1>2. k \in [Repos -> Remote] /\ k[r] = b /\ \A q \in Repos \ {r} : k[q] = m[q]
  BY <1>1
<1>3. \A c \in Repos \ {Root} : Parent[c] \in Repos
  BY TreeAssumption
<1> HIDE DEF k
<1>4. \A q \in Repos : m[q].has \subseteq k[q].has
  BY <1>2
<1>5. ASSUME NEW q \in Repos
      PROVE  /\ \A x \in s[q].unpub \cup k[q].has : x < n1
             /\ k[q].tip \in k[q].has /\ s[q].head \in k[q].has \cup s[q].unpub
             /\ s[q].head \in k[q].has => s[q].unpub \subseteq k[q].has
  <2>1. \A x \in s[q].unpub \cup m[q].has : x \in Nat /\ x < n
    BY <1>1 DEF Consistent, Local, Remote
  <2>2. \A x \in s[q].unpub \cup m[q].has : x < n1
    BY <2>1
  <2>3. CASE q = r
    BY <2>2, <2>3, <1>2, <1>4 DEF Consistent
  <2>4. CASE q # r
    BY <2>2, <2>4, <1>2 DEF Consistent
  <2>5. QED
    BY <2>3, <2>4
<1>6. ASSUME NEW c \in Repos \ {Root}, s[c].attached
      PROVE  /\ s[Parent[c]].pins[c] \in k[c].has \cup g \cup s[c].unpub
             /\ k[Parent[c]].pins[c] \in k[c].has \cup g \cup Withheld(s[c])
  <2>1. /\ s[Parent[c]].pins[c] \in m[c].has \cup g \cup s[c].unpub
        /\ m[Parent[c]].pins[c] \in m[c].has \cup g \cup Withheld(s[c])
    BY <1>6 DEF Consistent
  <2>2. CASE Parent[c] = r
    BY <2>1, <2>2, <1>2, <1>4, <1>6
  <2>3. CASE Parent[c] # r
    BY <2>1, <2>3, <1>2, <1>3, <1>4
  <2>4. QED
    BY <2>2, <2>3
<1>7. QED
  BY <1>1, <1>2, <1>5, <1>6 DEF Consistent, k

-----------------------------------------------------------------------------
(* What the plan covers                                                    *)

GitInv == Consistent(repo, remote, fresh, rewritten)

\* A contained repository whose parent the plan may publish, while the
\* repository itself is not to be pushed; one whose pushes are withheld is not meant.
Exposed(c) ==
    /\ c # Root /\ ~ repo[c].withheld /\ repo[c].attached /\ repo[Parent[c]].attached
    /\ Parent[c] \notin plan.blocked /\ c \notin plan.push

\* A commit of its parent is still to come under this plan, before its own.
CommitComing(c) ==
    \/ 2 \in Remaining /\ ~ (place = "work" /\ Phase = 2 /\ c \notin todo)
    \/ /\ 6 \in Remaining /\ 5 \notin Remaining
       /\ ~ (place = "work" /\ Phase = 6 /\ c \notin todo)
       /\ ~ (place = "decide" /\ Phase = 5 /\ Root \in summary.failed)
    \/ place = "work" /\ Phase = 5 /\ Root \in summary.succeeded
    \/ again

\* Its parent pins what is published, and until the parent has had its commit
\* there is nothing unpublished in it to pin.
ExposureInv ==
    place # "idle" => \A c \in Repos : Exposed(c) =>
        /\ repo[Parent[c]].pins[c] \in remote[c].has \cup rewritten
        /\ c \notin plan.commit \/ CommitComing(c) => repo[c].unpub = {}

\* A push that has had its turn is published or withheld, or holds up its parent.
PushInv ==
    place = "work" /\ Phase \in PushPhases =>
        \A c \in Work(Phase, plan) \ todo :
            \/ c \in MutationBlocked \cup FailedBelow
            \/ repo[c].unpub \subseteq remote[c].has
            \/ ~ repo[c].attached
            \/ repo[c].withheld

PublishInv == GitInv /\ ExposureInv /\ PushInv

\* A repository with unpublished commits is in the plan's pushes, or its parent
\* is blocked.
LEMMA PlanCovers ==
    ASSUME NEW s \in [Repos -> Local], NEW c \in Repos \ {Root}, s[c].attached,
           s[Parent[c]].attached, Parent[c] \notin BuildPlan(Snapshot(s)).blocked,
           c \notin BuildPlan(Snapshot(s)).push
    PROVE  s[c].unpub = {}
<1> DEFINE look == Snapshot(s)
           q == Parent[c]
<1> SUFFICES ASSUME s[c].unpub # {} PROVE FALSE
  OBVIOUS
<1>1. q \in Repos /\ c \in Children(q)
  BY TreeAssumption DEF Children
<1>2. look[c].unpushed /\ look[c].pushable = s[c].pushable
  BY DEF Snapshot, Ahead
<1>3. look[q].kind = Kind(s, q)
  BY <1>1 DEF Snapshot
<1>4. Kind(s, q) # "DETACHED_HEAD"
  BY DEF Kind
<1> HIDE DEF look, q
<1>5. /\ BuildPlan(look).blocked = ToBlock(look)
      /\ \A r \in Considered(look) : \A d \in UnpushedChildren(look, r) :
            look[d].pushable => d \in BuildPlan(look).push
  BY DEF BuildPlan
<1>6. c \in UnpushedChildren(look, q)
  BY <1>1, <1>2 DEF UnpushedChildren
<1>7. q \in Considered(look)
  BY <1>1, <1>3, <1>4, <1>5 DEF Considered, ToBlock, PreflightOnly, look, q
<1>8. look[c].pushable
  BY <1>5, <1>6, <1>7 DEF ToBlock, look, q
<1>9. c \in BuildPlan(look).push
  BY <1>5, <1>6, <1>7, <1>8
<1>10. QED
  BY <1>9 DEF look

\* A plan of the repositories as they are exposes nothing unpublished.
LEMMA FreshCovers ==
    ASSUME ConvergeTypes, GitInv, UNCHANGED <<repo, remote, rewritten>>,
           plan'.blocked = BuildPlan(Snapshot(repo)).blocked,
           BuildPlan(Snapshot(repo)).push \subseteq plan'.push
    PROVE  ExposureInv'
<1> SUFFICES ASSUME NEW c \in Repos, Exposed(c)'
             PROVE  /\ repo[Parent[c]].pins[c] \in remote[c].has \cup rewritten
                    /\ repo[c].unpub = {}
  BY DEF ExposureInv
<1>1. repo \in [Repos -> Local]
  BY DEF ConvergeTypes, GitTypes
<1>2. repo[c].unpub = {}
  BY <1>1, PlanCovers DEF Exposed
<1>3. repo[Parent[c]].pins[c] \in remote[c].has \cup rewritten \cup repo[c].unpub
  BY DEF Exposed, GitInv, Consistent
<1>4. QED
  BY <1>2, <1>3

\* The plan is kept, and no more commits are to come than before.
LEMMA SameCovers ==
    ASSUME ExposureInv, place # "idle", UNCHANGED <<repo, remote, rewritten, plan>>,
           \A c \in Repos : CommitComing(c)' => CommitComing(c)
    PROVE  ExposureInv'
BY DEF ExposureInv, Exposed

\* No turn makes a commit come again.
LEMMA TookComing ==
    ASSUME place = "work", todo' \subseteq todo, UNCHANGED <<place, state, again>>,
           Phase # 5
    PROVE  \A c \in Repos : CommitComing(c)' => CommitComing(c)
BY DEF CommitComing, Remaining, Phase

\* A commit of a parent pins a contained HEAD that is published, or that is to be
\* pushed before the parent.
LEMMA CommitPublish ==
    ASSUME ConvergeTypes, PhaseInv, PublishInv, CommitRepo
    PROVE  PublishInv'
<1> DEFINE t == Turn
           l == Committed(repo, t, fresh)
<1>1. /\ t \in Repos /\ place = "work" /\ Phase \in CommitPhases /\ todo' = todo \ {t} /\ todo # {}
      /\ UNCHANGED <<remote, rewritten, place, plan, state, again>>
  BY TurnIsLeft DEF CommitRepo, Ready, phaseUnchanged, ConvergeTypes, Took
<1>2. GitTypes /\ fresh \in Nat /\ repo[t] \in Local /\ Phase' = Phase
  BY <1>1 DEF ConvergeTypes, GitTypes, Phase
<1>3. CASE UNCHANGED <<repo, fresh>>
  <2>1. ExposureInv'
    BY <1>1, <1>3, TookComing, SameCovers DEF PublishInv, CommitPhases
  <2>2. QED
    BY <1>1, <1>2, <1>3, <2>1 DEF PublishInv, GitInv, PushInv, CommitPhases, PushPhases
<1>4. CASE /\ repo' = [repo EXCEPT ![t] = l]
           /\ fresh' = IF repo'[t].head = fresh THEN fresh + 1 ELSE fresh
  <2>1. l \in Local /\ IsFiniteSet(l.unpub)
    BY <1>1, <1>2, CommittedTypes DEF GitTypes
  <2>2. /\ \/ l = repo[t]
           \/ l.head = fresh /\ l.pins = Pins(repo, t) /\ l.unpub = repo[t].unpub \cup {fresh}
        /\ l.attached = repo[t].attached /\ l.withheld = repo[t].withheld
    BY <1>1, <1>2, CommittedEffect DEF GitTypes
  <2> HIDE DEF l
  <2>3. repo'[t] = l /\ \A q \in Repos \ {t} : repo'[q] = repo[q]
    BY <1>1, <1>2, <1>4 DEF GitTypes
  <2>4. \A x \in repo[t].unpub \cup remote[t].has : x \in Nat /\ x < fresh
    BY <1>1, <1>2 DEF PublishInv, GitInv, Consistent, GitTypes, Local, Remote
  <2>5. repo[t].head < fresh /\ repo[t].head \in Nat
    BY <1>1, <2>4 DEF PublishInv, GitInv, Consistent
  <2>6. /\ fresh' \in Nat /\ fresh <= fresh'
        /\ l = repo[t] \/ fresh' = fresh + 1
    BY <1>2, <1>4, <2>2, <2>3, <2>5
  <2>7. \A c \in Repos \ {Root} : Parent[c] = t /\ repo[c].attached =>
            l.pins[c] \in remote[c].has \cup rewritten \cup repo[c].unpub
    <3> SUFFICES ASSUME NEW c \in Repos \ {Root}, Parent[c] = t, repo[c].attached
                 PROVE  l.pins[c] \in remote[c].has \cup rewritten \cup repo[c].unpub
      OBVIOUS
    <3>1. CASE l = repo[t]
      BY <3>1 DEF PublishInv, GitInv, Consistent
    <3>2. CASE l.pins = Pins(repo, t)
      <4>1. l.pins[c] = repo[c].head
        BY <3>2 DEF Pins, Children
      <4>2. QED
        BY <4>1 DEF PublishInv, GitInv, Consistent
    <3>3. QED
      BY <2>2, <3>1, <3>2
  <2>8. GitInv'
    <3>1. l.head \in remote[t].has \cup l.unpub /\ (l.head \in remote[t].has => l.unpub \subseteq remote[t].has)
      BY <1>1, <2>2, <2>4, <1>2 DEF PublishInv, GitInv, Consistent
    <3>2. \A x \in l.unpub : x < fresh'
      BY <2>2, <2>4, <2>6, <1>2
    <3>3. repo[t].unpub \subseteq l.unpub
      BY <2>2
    <3>4. Consistent([repo EXCEPT ![t] = l], remote, fresh', rewritten)
      BY <1>1, <1>2, <2>1, <2>2, <2>6, <2>7, <3>1, <3>2, <3>3, ConsistentLocally DEF PublishInv, GitInv
    <3>5. QED
      BY <1>1, <1>4, <3>4 DEF GitInv
  <2>9. ExposureInv'
    <3> SUFFICES ASSUME NEW c \in Repos, Exposed(c)'
                 PROVE  /\ repo'[Parent[c]].pins[c] \in remote[c].has \cup rewritten
                        /\ c \notin plan.commit \/ CommitComing(c)' => repo'[c].unpub = {}
      BY <1>1 DEF ExposureInv
    <3>1. c # Root /\ Parent[c] \in Repos /\ Parent[c] < c /\ c \in Nat /\ Parent[c] \in Nat
      BY TreeAssumption, RepoNumbers DEF Exposed
    <3>2. Exposed(c)
      <4>1. /\ repo'[c].attached = repo[c].attached /\ repo'[Parent[c]].attached = repo[Parent[c]].attached
            /\ repo'[c].withheld = repo[c].withheld
        BY <2>2, <2>3, <3>1
      <4>2. QED
        BY <4>1, <1>1 DEF Exposed
    <3>3. /\ repo[Parent[c]].pins[c] \in remote[c].has \cup rewritten
          /\ c \notin plan.commit \/ CommitComing(c) => repo[c].unpub = {}
      BY <3>2, <1>1 DEF PublishInv, ExposureInv
    <3>4. t \in plan.commit
      BY <1>1, TurnIsLeft DEF PhaseInv, Work, ConvergeTypes
    <3>5. CommitComing(c)' => CommitComing(c)
      BY <1>1, TookComing DEF CommitPhases
    <3>6. ~ again /\ 5 \notin CommitPhases
      BY <1>1 DEF PhaseInv, CommitPhases
    <3>7. Phase \in Remaining /\ (Phase = 2 => 5 \in Remaining) /\ (Phase = 6 => 5 \notin Remaining /\ 2 \notin Remaining)
      BY <1>1, LookComes DEF PhaseInv, Remaining, Phase, ConvergeTypes, WorkflowStates
    <3>8. CASE c = t
      <4>1. c \notin todo'
        BY <1>1, <3>8
      <4>2. ~ CommitComing(c)'
        <5>1. Remaining' = Remaining /\ Phase' = Phase /\ place' = "work" /\ ~ again'
          BY <1>1, <3>6 DEF Remaining, Phase
        <5>2. Phase = 2 \/ Phase = 6
          BY <1>1 DEF CommitPhases
        <5>3. QED
          BY <4>1, <5>1, <5>2, <3>7 DEF CommitComing
      <4>3. repo'[Parent[c]] = repo[Parent[c]]
        BY <2>3, <3>1, <3>8
      <4>4. QED
        BY <3>3, <3>4, <3>8, <4>2, <4>3
    <3>9. CASE Parent[c] = t
      <4>1. repo'[c] = repo[c]
        BY <2>3, <3>1, <3>9
      <4>2. repo[c].unpub = {}
        <5>1. CASE c \notin plan.commit
          BY <3>3, <5>1
        <5>2. CASE c \in plan.commit
          <6>1. c \in todo
            <7> SUFFICES ASSUME c \notin todo PROVE FALSE
              OBVIOUS
            <7>1. c \in Work(Phase, plan) \ todo /\ t \in todo
              BY <1>1, <5>2, TurnIsLeft DEF Work, ConvergeTypes
            <7>2. c < t
              BY <7>1, <1>1 DEF PhaseInv
            <7>3. QED
              BY <7>2, <3>1, <3>9
          <6>2. CommitComing(c)
            BY <6>1, <1>1, <3>7 DEF CommitComing, CommitPhases
          <6>3. QED
            BY <6>2, <3>3
        <5>3. QED
          BY <5>1, <5>2
      <4>3. repo[c].head \in remote[c].has
        BY <4>2 DEF PublishInv, GitInv, Consistent
      <4>4. l.pins[c] \in remote[c].has \cup rewritten
        <5>1. CASE l = repo[t]
          BY <5>1, <3>3, <3>9
        <5>2. CASE l.pins = Pins(repo, t)
          <6>1. l.pins[c] = repo[c].head
            BY <5>2, <3>1, <3>9 DEF Pins, Children
          <6>2. QED
            BY <6>1, <4>3
        <5>3. QED
          BY <2>2, <5>1, <5>2
      <4>5. QED
        BY <4>1, <4>2, <4>4, <2>3, <3>9
    <3>10. CASE c # t /\ Parent[c] # t
      BY <2>3, <3>1, <3>3, <3>5, <3>10
    <3>11. QED
      BY <3>8, <3>9, <3>10
  <2>10. PushInv'
    BY <1>1, <1>2 DEF PushInv, CommitPhases, PushPhases
  <2>11. QED
    BY <2>8, <2>9, <2>10 DEF PublishInv
<1>5. QED
  BY <1>3, <1>4 DEF CommitRepo
\* A sync pins what it had pinned, or what the remote pins.
LEMMA SyncPublish ==
    ASSUME ConvergeTypes, PhaseInv, PublishInv, Sync
    PROVE  PublishInv'
<1> DEFINE t == Turn
<1>1. /\ t \in Repos /\ place = "work" /\ Phase \in SyncPhases /\ todo' = todo \ {t} /\ todo # {}
      /\ UNCHANGED <<remote, place, plan, state, again>>
  BY TurnIsLeft DEF Sync, Ready, phaseUnchanged, ConvergeTypes, Took
<1>2. /\ GitTypes /\ fresh \in Nat /\ repo[t] \in Local /\ remote[t] \in Remote
      /\ IsFiniteSet(repo[t].unpub) /\ Phase' = Phase
  BY <1>1 DEF ConvergeTypes, GitTypes, Phase
<1>3. \A c \in Repos : CommitComing(c)' => CommitComing(c)
  BY <1>1, TookComing DEF SyncPhases
<1>4. CASE UNCHANGED <<repo, fresh, rewritten>>
  <2>1. ExposureInv'
    BY <1>1, <1>3, <1>4, SameCovers DEF PublishInv
  <2>2. QED
    BY <1>1, <1>2, <1>4, <2>1 DEF PublishInv, GitInv, PushInv, SyncPhases, PushPhases
<1>5. CASE /\ \E pins \in RebasedPins(repo[t], remote[t]) :
                 repo' = [repo EXCEPT ![t] = Rebased(@, remote[t], pins, fresh)]
           /\ fresh' = IF repo'[t].head = fresh THEN fresh + 1 ELSE fresh
           /\ rewritten' = rewritten \cup (repo[t].unpub \ repo'[t].unpub)
  <2>1. PICK pins \in RebasedPins(repo[t], remote[t]) :
            repo' = [repo EXCEPT ![t] = Rebased(repo[t], remote[t], pins, fresh)]
    BY <1>5
  <2> DEFINE l == Rebased(repo[t], remote[t], pins, fresh)
  <2>2. l \in Local /\ IsFiniteSet(l.unpub)
    BY <1>2, RebasedTypes
  <2>3. /\ \/ l.head = repo[t].head /\ l.unpub = repo[t].unpub /\ l.pins = repo[t].pins
           \/ /\ Own(repo[t], remote[t]) = {} /\ l.head = remote[t].tip
              /\ l.unpub = {} /\ l.pins = remote[t].pins
           \/ /\ Own(repo[t], remote[t]) # {} /\ l.head = fresh /\ l.unpub = {fresh}
              /\ \A c \in Repos : l.pins[c] \in {repo[t].pins[c], remote[t].pins[c]}
        /\ l.attached = repo[t].attached /\ l.withheld = repo[t].withheld
    BY <1>2, RebasedEffect
  <2>4. repo' = [repo EXCEPT ![t] = l]
    BY <2>1
  <2> HIDE DEF l
  <2>5. repo'[t] = l /\ \A q \in Repos \ {t} : repo'[q] = repo[q]
    BY <1>1, <1>2, <2>4 DEF GitTypes
  <2>6. \A x \in repo[t].unpub \cup remote[t].has : x \in Nat /\ x < fresh
    BY <1>1, <1>2 DEF PublishInv, GitInv, Consistent, GitTypes, Local, Remote
  <2>7. fresh' \in Nat /\ fresh <= fresh' /\ (l.head = fresh => fresh' = fresh + 1)
    BY <1>2, <1>5, <2>5
  <2>8. /\ rewritten \subseteq rewritten' /\ repo[t].unpub \subseteq l.unpub \cup rewritten' \cup remote[t].has
    BY <1>5, <2>5
  <2>9. \A c \in Repos : l.pins[c] \in {repo[t].pins[c], remote[t].pins[c]}
    BY <2>3
  <2>10. GitInv'
    <3>1. /\ remote[t].tip \in remote[t].has /\ repo[t].head \in remote[t].has \cup repo[t].unpub
          /\ repo[t].head \in remote[t].has => repo[t].unpub \subseteq remote[t].has
      BY <1>1 DEF PublishInv, GitInv, Consistent
    <3>2. \A c \in Repos \ {Root} : Parent[c] = t /\ repo[c].attached =>
              l.pins[c] \in remote[c].has \cup rewritten' \cup repo[c].unpub
      <4> SUFFICES ASSUME NEW c \in Repos \ {Root}, Parent[c] = t, repo[c].attached
                   PROVE  l.pins[c] \in remote[c].has \cup rewritten' \cup repo[c].unpub
        OBVIOUS
      <4>1. /\ repo[t].pins[c] \in remote[c].has \cup rewritten \cup repo[c].unpub
            /\ remote[t].pins[c] \in remote[c].has \cup rewritten \cup repo[c].unpub
        BY DEF PublishInv, GitInv, Consistent, Withheld
      <4>2. QED
        BY <4>1, <2>8, <2>9
    <3>3. /\ l.head \in remote[t].has \cup l.unpub
          /\ l.head \in remote[t].has => l.unpub \subseteq remote[t].has
      <4>1. fresh \notin remote[t].has
        BY <2>6, <1>2
      <4>2. QED
        BY <2>3, <3>1, <4>1
    <3>4. \A x \in l.unpub : x < fresh'
      BY <2>3, <2>6, <2>7, <1>2
    <3>5. Consistent([repo EXCEPT ![t] = l], remote, fresh', rewritten')
      BY <1>1, <1>2, <2>2, <2>3, <2>7, <2>8, <3>2, <3>3, <3>4, ConsistentLocally DEF PublishInv, GitInv
    <3>6. QED
      BY <1>1, <2>4, <3>5 DEF GitInv
  <2>11. ExposureInv'
    <3> SUFFICES ASSUME NEW c \in Repos, Exposed(c)'
                 PROVE  /\ repo'[Parent[c]].pins[c] \in remote[c].has \cup rewritten'
                        /\ c \notin plan.commit \/ CommitComing(c)' => repo'[c].unpub = {}
      BY <1>1 DEF ExposureInv
    <3>1. c # Root /\ Parent[c] \in Repos /\ Parent[c] # c
      BY TreeAssumption, RepoNumbers DEF Exposed
    <3>2. Exposed(c) /\ repo[c].attached /\ ~ repo[c].withheld
      <4>1. /\ repo'[c].attached = repo[c].attached /\ repo'[Parent[c]].attached = repo[Parent[c]].attached
            /\ repo'[c].withheld = repo[c].withheld
        BY <2>3, <2>5, <3>1
      <4>2. QED
        BY <4>1, <1>1 DEF Exposed
    <3>3. /\ repo[Parent[c]].pins[c] \in remote[c].has \cup rewritten
          /\ c \notin plan.commit \/ CommitComing(c) => repo[c].unpub = {}
      BY <3>2, <1>1 DEF PublishInv, ExposureInv
    <3>4. CASE c = t
      <4>1. repo'[Parent[c]] = repo[Parent[c]]
        BY <2>5, <3>1, <3>4
      <4>2. repo[c].unpub = {} => repo'[c].unpub = {}
        BY <2>3, <2>5, <3>4 DEF Own
      <4>3. QED
        BY <1>3, <2>8, <3>3, <4>1, <4>2
    <3>5. CASE Parent[c] = t
      <4>1. repo'[c] = repo[c]
        BY <2>5, <3>1, <3>5
      <4>2. remote[t].pins[c] \in remote[c].has \cup rewritten
        BY <3>1, <3>2, <3>5 DEF PublishInv, GitInv, Consistent, Withheld
      <4>3. l.pins[c] \in {repo[t].pins[c], remote[t].pins[c]}
        BY <2>9
      <4>4. QED
        BY <1>3, <2>5, <2>8, <3>3, <3>5, <4>1, <4>2, <4>3
    <3>6. CASE c # t /\ Parent[c] # t
      BY <1>3, <2>5, <2>8, <3>1, <3>3, <3>6
    <3>7. QED
      BY <3>4, <3>5, <3>6
  <2>12. PushInv'
    BY <1>1, <1>2 DEF PushInv, SyncPhases, PushPhases
  <2>13. QED
    BY <2>10, <2>11, <2>12 DEF PublishInv
<1>6. QED
  BY <1>4, <1>5 DEF Sync

\* A turn in a push phase: what has had its turn is published or held up.
LEMMA TurnPushed ==
    ASSUME PushInv, place = "work", Phase \in PushPhases, todo' = todo \ {Turn},
           UNCHANGED <<place, plan, state>>, summary.failed \subseteq summary'.failed,
           \A c \in Repos : /\ repo'[c].unpub \subseteq repo[c].unpub
                            /\ remote[c].has \subseteq remote'[c].has
                            /\ repo'[c].attached = repo[c].attached
                            /\ repo'[c].withheld = repo[c].withheld,
           plan \in Plan,
           \/ Turn \in (MutationBlocked \cup FailedBelow)'
           \/ repo'[Turn].unpub \subseteq remote'[Turn].has
           \/ repo'[Turn].withheld
    PROVE  PushInv'
<1>1. MutationBlocked' = MutationBlocked /\ FailedBelow \subseteq FailedBelow'
  BY UpClosureGrows DEF MutationBlocked, FailedBelow
<1>2. Phase' = Phase /\ Work(Phase, plan)' = Work(Phase, plan)
  BY DEF Phase, Work
<1>3. Work(Phase, plan) \subseteq Repos
  BY DEF Work, Plan
<1> SUFFICES ASSUME NEW c \in Work(Phase, plan) \ todo'
             PROVE  \/ c \in (MutationBlocked \cup FailedBelow)'
                    \/ repo'[c].unpub \subseteq remote'[c].has
                    \/ ~ repo'[c].attached
                    \/ repo'[c].withheld
  BY <1>2 DEF PushInv
<1>4. CASE c = Turn
  BY <1>4
<1>5. CASE c # Turn
  <2>1. \/ c \in MutationBlocked \cup FailedBelow
        \/ repo[c].unpub \subseteq remote[c].has
        \/ ~ repo[c].attached
        \/ repo[c].withheld
    BY <1>5 DEF PushInv
  <2>2. QED
    BY <1>1, <1>3, <2>1
<1>6. QED
  BY <1>4, <1>5

\* The parent that is pushed pins what the contained remotes have, but for what is
\* withheld: what was to be pushed before it has been pushed, and what was not is
\* not exposed.
LEMMA PushedPins ==
    ASSUME ConvergeTypes, PhaseInv, PublishInv, Ready, Phase \in PushPhases,
           repo[Turn].attached,
           NEW c \in Repos \ {Root}, Parent[c] = Turn, repo[c].attached
    PROVE  repo[Turn].pins[c] \in remote[c].has \cup rewritten \cup Withheld(repo[c])
<1> DEFINE t == Turn
<1>1. t \in todo /\ place = "work" /\ t \notin MutationBlocked \cup FailedBelow
  BY TurnIsLeft DEF Ready, ConvergeTypes
<1>2. \A q \in todo : Wave(t) <= Wave(q)
  BY TurnIsLeft DEF Ready, ConvergeTypes
<1>3. plan.blocked \cup state.failed \cup state.blocked \in SUBSET Repos /\ summary.failed \in SUBSET Repos
  BY DEF ConvergeTypes, Plan, WorkflowStates, Summaries
<1>4. t \notin plan.blocked
  BY <1>1, <1>3, UpClosureUp DEF MutationBlocked
<1>0. CASE repo[c].withheld
  BY <1>0 DEF PublishInv, GitInv, Consistent, Withheld
<1>5. CASE ~ repo[c].withheld /\ c \notin plan.push
  <2>1. Exposed(c)
    BY <1>4, <1>5 DEF Exposed
  <2>2. QED
    BY <1>1, <2>1 DEF PublishInv, ExposureInv
<1>6. CASE ~ repo[c].withheld /\ c \in plan.push
  <2>1. c \in Work(Phase, plan)
    BY <1>6 DEF Work, PushPhases, CommitPhases, SyncPhases, Nested
  <2>2. Wave(c) < Wave(t) /\ Wave(c) \in Nat /\ Wave(t) \in Nat
    BY <1>1, WaveOfChild DEF ConvergeTypes
  <2>3. c \notin todo
    BY <1>2, <2>2
  <2>4. c \notin MutationBlocked \cup FailedBelow
    BY <1>1, <1>3, UpClosureUp DEF MutationBlocked, FailedBelow
  <2>5. repo[c].unpub \subseteq remote[c].has
    BY <1>1, <1>6, <2>1, <2>3, <2>4 DEF PublishInv, PushInv
  <2>6. repo[t].pins[c] \in remote[c].has \cup rewritten \cup repo[c].unpub
    BY DEF PublishInv, GitInv, Consistent
  <2>7. QED
    BY <2>5, <2>6
<1>7. QED
  BY <1>0, <1>5, <1>6
\* A push publishes a parent only with what it pins, whether or not its answer comes.
LEMMA PushPublish ==
    ASSUME ConvergeTypes, PhaseInv, PublishInv, Push
    PROVE  PublishInv'
<1> DEFINE t == Turn
           l == repo[t]
           m == remote[t]
<1>1. /\ t \in Repos /\ place = "work" /\ Phase \in PushPhases /\ todo' = todo \ {t} /\ todo # {}
      /\ UNCHANGED <<fresh, rewritten, place, plan, state, again>>
  BY TurnIsLeft DEF Push, Ready, phaseUnchanged, ConvergeTypes, Took
<1>2. /\ GitTypes /\ fresh \in Nat /\ l \in Local /\ m \in Remote /\ Phase' = Phase
      /\ plan \in Plan /\ summary \in Summaries
  BY <1>1 DEF ConvergeTypes, GitTypes, Phase
<1>3. \A c \in Repos : CommitComing(c)' => CommitComing(c)
  BY <1>1, TookComing DEF PushPhases
<1>4. summary.failed \subseteq summary'.failed /\ (Took("failed") => t \in summary'.failed)
  BY <1>2 DEF Push, Took, Summaries
<1>5. summary'.failed \in SUBSET Repos
  BY NextTypes DEF ConvergeTypes, Summaries, ConvergeNext, Step
<1>6. l.head \in m.has => l.unpub \subseteq m.has
  BY <1>1 DEF PublishInv, GitInv, Consistent
<1>7. m.tip \in m.has /\ l.head \in m.has \cup l.unpub
  BY <1>1 DEF PublishInv, GitInv, Consistent
<1>8. CASE /\ UNCHANGED <<repo, remote>>
           /\ PushNothing \/ l.withheld \/ Took("failed") \/ m.tip = l.head
  <2>1. ExposureInv'
    BY <1>1, <1>3, <1>8, SameCovers DEF PublishInv
  <2>2. Took("failed") \/ l.withheld \/ l.unpub \subseteq m.has
    BY <1>6, <1>7, <1>8 DEF PushNothing
  <2>3. \/ t \in (MutationBlocked \cup FailedBelow)'
        \/ repo'[t].unpub \subseteq remote'[t].has
        \/ repo'[t].withheld
    BY <1>4, <1>5, <1>8, <2>2, UpClosureUp DEF FailedBelow
  <2>4. PushInv'
    BY <1>1, <1>2, <1>4, <1>8, <2>3, TurnPushed DEF PublishInv
  <2>5. QED
    BY <1>1, <1>8, <2>1, <2>4 DEF PublishInv, GitInv
<1>9. CASE /\ PushAccepted /\ remote' = RemoteAfter(t)
           /\ repo' \in {repo, [repo EXCEPT ![t] = Tracked(@)]}
  <2> DEFINE b == Published(m, l)
             k == Tracked(l)
  <2>1. /\ b \in Remote /\ b.tip = l.head /\ b.pins = l.pins /\ b.has = m.has \cup l.unpub
        /\ k \in Local /\ k.unpub = {} /\ k.head = l.head /\ k.pins = l.pins
        /\ k.attached = l.attached /\ k.withheld = l.withheld
    BY <1>2 DEF Published, Tracked, Local, Remote
  <2>2. IsFiniteSet(k.unpub)
    BY <2>1, FS_EmptySet
  <2>3. remote' = [remote EXCEPT ![t] = b] /\ repo' \in {repo, [repo EXCEPT ![t] = k]}
    BY <1>9 DEF RemoteAfter
  <2> HIDE DEF b, k
  <2>4. remote'[t] = b /\ \A q \in Repos \ {t} : remote'[q] = remote[q]
    BY <1>1, <1>2, <2>3 DEF GitTypes
  <2>5. /\ \A q \in Repos \ {t} : repo'[q] = repo[q]
        /\ \A q \in Repos : /\ repo'[q].pins = repo[q].pins /\ repo'[q].attached = repo[q].attached
                            /\ repo'[q].withheld = repo[q].withheld
                            /\ repo'[q].unpub \subseteq repo[q].unpub
                            /\ remote[q].has \subseteq remote'[q].has
    BY <1>1, <1>2, <2>1, <2>3, <2>4 DEF GitTypes
  <2>6. l.attached
    BY <1>9 DEF PushAccepted, PushRefused
  <2>7. \A c \in Repos \ {Root} : Parent[c] = t /\ repo[c].attached =>
            b.pins[c] \in remote[c].has \cup rewritten \cup Withheld(repo[c])
    BY <1>1, <2>1, <2>6, PushedPins DEF Push, PushAccepted
  <2>8. \A x \in b.has : x < fresh
    BY <1>1, <2>1 DEF PublishInv, GitInv, Consistent
  <2>9. Consistent(repo, remote', fresh, rewritten)
    <3>1. Consistent(repo, [remote EXCEPT ![t] = b], fresh, rewritten)
      BY <1>1, <1>2, <1>6, <1>7, <2>1, <2>7, <2>8, ConsistentRemotely DEF PublishInv, GitInv
    <3>2. QED
      BY <2>3, <3>1
  <2>10. GitInv'
    <3>1. CASE repo' = repo
      BY <1>1, <2>9, <3>1 DEF GitInv
    <3>2. CASE repo' = [repo EXCEPT ![t] = k]
      <4>1. repo[t].unpub \subseteq k.unpub \cup rewritten \cup remote'[t].has
        BY <2>1, <2>4
      <4>2. k.head \in remote'[t].has \cup k.unpub /\ k.unpub \subseteq remote'[t].has
        BY <1>7, <2>1, <2>4
      <4>3. \A c \in Repos \ {Root} : Parent[c] = t /\ repo[c].attached =>
                k.pins[c] \in remote'[c].has \cup rewritten \cup repo[c].unpub
        BY <2>1, <2>9 DEF Consistent
      <4>4. \A x \in k.unpub : x < fresh
        BY <2>1
      <4>0. fresh <= fresh /\ k.attached = repo[t].attached /\ k.withheld = repo[t].withheld
        BY <1>2, <2>1
      <4>5. Consistent([repo EXCEPT ![t] = k], remote', fresh, rewritten)
        BY <1>1, <1>2, <2>1, <2>2, <2>9, <4>0, <4>1, <4>2, <4>3, <4>4, ConsistentLocally
      <4>6. QED
        BY <1>1, <3>2, <4>5 DEF GitInv
    <3>3. QED
      BY <2>3, <3>1, <3>2
  <2>11. ExposureInv'
    <3> SUFFICES ASSUME NEW c \in Repos, Exposed(c)'
                 PROVE  /\ repo'[Parent[c]].pins[c] \in remote'[c].has \cup rewritten
                        /\ c \notin plan.commit \/ CommitComing(c)' => repo'[c].unpub = {}
      BY <1>1 DEF ExposureInv
    <3>1. c # Root /\ Parent[c] \in Repos
      BY TreeAssumption DEF Exposed
    <3>2. Exposed(c)
      BY <1>1, <2>5, <3>1 DEF Exposed
    <3>3. /\ repo[Parent[c]].pins[c] \in remote[c].has \cup rewritten
          /\ c \notin plan.commit \/ CommitComing(c) => repo[c].unpub = {}
      BY <3>2, <1>1 DEF PublishInv, ExposureInv
    <3>4. QED
      BY <1>3, <2>5, <3>1, <3>3
  <2>12. repo'[t].unpub \subseteq remote'[t].has
    BY <1>1, <2>1, <2>4, <2>5
  <2>13. PushInv'
    BY <1>1, <1>2, <1>4, <2>5, <2>12, TurnPushed DEF PublishInv
  <2>14. QED
    BY <2>10, <2>11, <2>13 DEF PublishInv
<1>10. QED
  BY <1>8, <1>9 DEF Push

\* A repository that is passed over in a push phase holds up its parent.
LEMMA SkipPublish ==
    ASSUME ConvergeTypes, PhaseInv, PublishInv, Skip
    PROVE  PublishInv'
<1>1. /\ place = "work" /\ todo' = todo \ {Turn} /\ todo # {} /\ summary \in Summaries
      /\ UNCHANGED <<repo, remote, fresh, rewritten, place, plan, state, again>>
      /\ plan \in Plan /\ Phase' = Phase
  BY DEF Skip, phaseUnchanged, gitVars, ConvergeTypes, Took, Phase
<1>2. Phase # 5
  BY <1>1, WorkPhases DEF CommitPhases, SyncPhases, PushPhases
<1>3. ExposureInv'
  BY <1>1, <1>2, TookComing, SameCovers DEF PublishInv
<1>4. PushInv'
  <2> SUFFICES ASSUME Phase \in PushPhases PROVE PushInv'
    BY <1>1 DEF PushInv
  <2>1. Turn \in MutationBlocked \cup FailedBelow
    BY DEF Skip, NotNow, PushPhases, CommitPhases
  <2>2. summary.failed \subseteq summary'.failed
    BY <1>1 DEF Skip, Took, Summaries
  <2>3. Turn \in (MutationBlocked \cup FailedBelow)'
    BY <1>1, <2>1, <2>2, UpClosureGrows DEF MutationBlocked, FailedBelow
  <2>4. QED
    BY <1>1, <2>2, <2>3, TurnPushed DEF PublishInv
<1>5. QED
  BY <1>1, <1>3, <1>4 DEF PublishInv, GitInv

\* What others do to the repositories while the command runs.
LEMMA OthersCover ==
    ASSUME ExposureInv, PushInv, plan \in Plan,
           UNCHANGED <<place, plan, state, todo, summary, again, rewritten>>,
           \A r \in Repos : /\ repo'[r].pins = repo[r].pins /\ repo'[r].attached = repo[r].attached
                            /\ repo'[r].withheld = repo[r].withheld
                            /\ repo'[r].unpub \subseteq repo[r].unpub
                            /\ remote[r].has \subseteq remote'[r].has
    PROVE  ExposureInv' /\ PushInv'
<1>1. Phase' = Phase /\ Work(Phase, plan)' = Work(Phase, plan) /\ Work(Phase, plan) \subseteq Repos
  BY DEF Phase, Work, Plan
<1>2. MutationBlocked' = MutationBlocked /\ FailedBelow' = FailedBelow
  BY DEF MutationBlocked, FailedBelow
<1>3. \A c \in Repos : CommitComing(c)' <=> CommitComing(c)
  BY <1>1 DEF CommitComing, Remaining
<1>4. PushInv'
  BY <1>1, <1>2 DEF PushInv
<1>5. ExposureInv'
  <2> SUFFICES ASSUME place # "idle", NEW c \in Repos, Exposed(c)'
               PROVE  /\ repo'[Parent[c]].pins[c] \in remote'[c].has \cup rewritten
                      /\ c \notin plan.commit \/ CommitComing(c)' => repo'[c].unpub = {}
    BY DEF ExposureInv
  <2>1. Parent[c] \in Repos
    BY TreeAssumption DEF Exposed
  <2>2. Exposed(c)
    BY <2>1 DEF Exposed
  <2>3. QED
    BY <1>3, <2>1, <2>2 DEF ExposureInv
<1>6. QED
  BY <1>4, <1>5
\* An edit publishes nothing, ...
LEMMA EditPublish ==
    ASSUME ConvergeTypes, PublishInv, Edit
    PROVE  PublishInv'
<1>1. PICK r \in Repos : repo' = [repo EXCEPT ![r] = [repo[r] EXCEPT !.content = TRUE]]
  BY DEF Edit
<1> DEFINE l == [repo[r] EXCEPT !.content = TRUE]
<1>2. repo \in [Repos -> Local] /\ fresh \in Nat /\ IsFiniteSet(repo[r].unpub) /\ plan \in Plan
  BY DEF ConvergeTypes, GitTypes
<1>3. /\ l \in Local /\ l.head = repo[r].head /\ l.unpub = repo[r].unpub
      /\ l.pins = repo[r].pins /\ l.attached = repo[r].attached /\ l.withheld = repo[r].withheld
  BY <1>2 DEF Local
<1>4. UNCHANGED <<remote, fresh, rewritten, place, plan, state, todo, summary, again>>
  BY DEF Edit, Disturb, phaseVars
<1>5. repo' = [repo EXCEPT ![r] = l]
  BY <1>1
<1> HIDE DEF l
<1>6. GitInv'
  <2>1. /\ \A x \in l.unpub : x < fresh
        /\ l.head \in remote[r].has \cup l.unpub
        /\ l.head \in remote[r].has => l.unpub \subseteq remote[r].has
        /\ \A c \in Repos \ {Root} : Parent[c] = r /\ repo[c].attached =>
               l.pins[c] \in remote[c].has \cup rewritten \cup repo[c].unpub
    BY <1>3 DEF PublishInv, GitInv, Consistent
  <2>2. repo[r].unpub \subseteq l.unpub \cup rewritten \cup remote[r].has /\ fresh <= fresh
    BY <1>2, <1>3
  <2>3. Consistent([repo EXCEPT ![r] = l], remote, fresh, rewritten)
    BY <1>2, <1>3, <2>1, <2>2, ConsistentLocally DEF PublishInv, GitInv
  <2>4. QED
    BY <1>4, <1>5, <2>3 DEF GitInv
<1>7. \A q \in Repos : /\ repo'[q].pins = repo[q].pins /\ repo'[q].attached = repo[q].attached
                       /\ repo'[q].withheld = repo[q].withheld
                       /\ repo'[q].unpub \subseteq repo[q].unpub
                       /\ remote[q].has \subseteq remote'[q].has
  BY <1>2, <1>3, <1>4, <1>5
<1>8. QED
  BY <1>2, <1>4, <1>6, <1>7, OthersCover DEF PublishInv

\* ... nor does a fetch, ...
LEMMA FetchPublish ==
    ASSUME ConvergeTypes, PublishInv, Fetch
    PROVE  PublishInv'
<1>1. PICK r \in Repos : repo' = [repo EXCEPT ![r] =
              IF remote[r].tip = repo[r].head THEN Tracked(repo[r])
              ELSE [repo[r] EXCEPT !.seen = remote[r].tip]]
  BY DEF Fetch
<1> DEFINE l == IF remote[r].tip = repo[r].head THEN Tracked(repo[r])
                ELSE [repo[r] EXCEPT !.seen = remote[r].tip]
<1>2. /\ repo \in [Repos -> Local] /\ remote[r] \in Remote /\ fresh \in Nat
      /\ IsFiniteSet(repo[r].unpub) /\ plan \in Plan
  BY DEF ConvergeTypes, GitTypes
<1>3. /\ l \in Local /\ l.head = repo[r].head
      /\ l.pins = repo[r].pins /\ l.attached = repo[r].attached /\ l.withheld = repo[r].withheld
      /\ l.unpub = repo[r].unpub \/ (l.unpub = {} /\ remote[r].tip = repo[r].head)
  <2>1. repo[r] \in Local /\ remote[r].tip \in Nat
    BY <1>2 DEF Remote
  <2>2. CASE remote[r].tip = repo[r].head
    BY <2>1, <2>2 DEF Tracked, Local
  <2>3. CASE remote[r].tip # repo[r].head
    BY <2>1, <2>3 DEF Local
  <2>4. QED
    BY <2>2, <2>3
<1>4. UNCHANGED <<remote, fresh, rewritten, place, plan, state, todo, summary, again>>
  BY DEF Fetch, Disturb, phaseVars
<1>5. repo' = [repo EXCEPT ![r] = l]
  BY <1>1
<1> HIDE DEF l
<1>6. GitInv'
  <2>1. remote[r].tip \in remote[r].has /\ (repo[r].head \in remote[r].has => repo[r].unpub \subseteq remote[r].has)
    BY DEF PublishInv, GitInv, Consistent
  <2>2. /\ \A x \in l.unpub : x < fresh
        /\ l.head \in remote[r].has \cup l.unpub
        /\ l.head \in remote[r].has => l.unpub \subseteq remote[r].has
        /\ \A c \in Repos \ {Root} : Parent[c] = r /\ repo[c].attached =>
               l.pins[c] \in remote[c].has \cup rewritten \cup repo[c].unpub
    BY <1>3, <2>1 DEF PublishInv, GitInv, Consistent
  <2>3. repo[r].unpub \subseteq l.unpub \cup rewritten \cup remote[r].has /\ fresh <= fresh
    BY <1>2, <1>3, <2>1
  <2>4. IsFiniteSet(l.unpub)
    BY <1>2, <1>3, FS_EmptySet
  <2>5. Consistent([repo EXCEPT ![r] = l], remote, fresh, rewritten)
    BY <1>2, <1>3, <2>2, <2>3, <2>4, ConsistentLocally DEF PublishInv, GitInv
  <2>6. QED
    BY <1>4, <1>5, <2>5 DEF GitInv
<1>7. \A q \in Repos : /\ repo'[q].pins = repo[q].pins /\ repo'[q].attached = repo[q].attached
                       /\ repo'[q].withheld = repo[q].withheld
                       /\ repo'[q].unpub \subseteq repo[q].unpub
                       /\ remote[q].has \subseteq remote'[q].has
  BY <1>2, <1>3, <1>4, <1>5
<1>8. QED
  BY <1>2, <1>4, <1>6, <1>7, OthersCover DEF PublishInv

\* ... and a push from another clone pins the tips of the contained remotes.
LEMMA ElsewherePublish ==
    ASSUME ConvergeTypes, PublishInv, PushElsewhere
    PROVE  PublishInv'
<1>1. PICK r \in Repos : remote' = [remote EXCEPT ![r] =
              [tip |-> fresh, has |-> @.has \cup {fresh},
               pins |-> [c \in Repos |-> IF c \in Children(r) THEN remote[c].tip ELSE 0]]]
  BY DEF PushElsewhere
<1> DEFINE b == [tip |-> fresh, has |-> remote[r].has \cup {fresh},
                 pins |-> [c \in Repos |-> IF c \in Children(r) THEN remote[c].tip ELSE 0]]
<1>2. /\ repo \in [Repos -> Local] /\ remote \in [Repos -> Remote] /\ fresh \in Nat
      /\ plan \in Plan
  BY DEF ConvergeTypes, GitTypes
<1>3. /\ b \in Remote /\ b.tip = fresh /\ b.has = remote[r].has \cup {fresh}
      /\ \A c \in Children(r) : b.pins[c] = remote[c].tip
  <2>1. [c \in Repos |-> IF c \in Children(r) THEN remote[c].tip ELSE 0] \in [Repos -> Nat]
    BY <1>2 DEF Remote, Children
  <2>2. remote[r].has \in SUBSET Nat
    BY <1>2 DEF Remote
  <2>3. \A c \in Children(r) : c \in Repos
    BY DEF Children
  <2>4. QED
    BY <1>2, <2>1, <2>2, <2>3 DEF Remote
<1>4. /\ fresh' = fresh + 1
      /\ UNCHANGED <<repo, rewritten, place, plan, state, todo, summary, again>>
  BY DEF PushElsewhere, Disturb, phaseVars
<1>5. remote' = [remote EXCEPT ![r] = b]
  BY <1>1
<1> HIDE DEF b
<1>6. \A x \in repo[r].unpub \cup remote[r].has : x \in Nat /\ x < fresh
  BY <1>2 DEF PublishInv, GitInv, Consistent, Local, Remote
<1>7. GitInv'
  <2>1. /\ \A x \in b.has : x < fresh + 1
        /\ fresh + 1 \in Nat /\ fresh <= fresh + 1
    BY <1>2, <1>3, <1>6
  <2>2. repo[r].head \in b.has => repo[r].unpub \subseteq b.has
    <3>1. repo[r].head # fresh
      BY <1>2, <1>6 DEF PublishInv, GitInv, Consistent
    <3>2. QED
      BY <1>3, <3>1 DEF PublishInv, GitInv, Consistent
  <2>3. \A c \in Repos \ {Root} : Parent[c] = r /\ repo[c].attached =>
            b.pins[c] \in remote[c].has \cup rewritten \cup Withheld(repo[c])
    BY <1>3 DEF Children, PublishInv, GitInv, Consistent
  <2>4. Consistent(repo, [remote EXCEPT ![r] = b], fresh + 1, rewritten)
    BY <1>2, <1>3, <2>1, <2>2, <2>3, ConsistentRemotely DEF PublishInv, GitInv
  <2>5. QED
    BY <1>4, <1>5, <2>4 DEF GitInv
<1>8. \A q \in Repos : /\ repo'[q].pins = repo[q].pins /\ repo'[q].attached = repo[q].attached
                       /\ repo'[q].withheld = repo[q].withheld
                       /\ repo'[q].unpub \subseteq repo[q].unpub
                       /\ remote[q].has \subseteq remote'[q].has
  BY <1>2, <1>3, <1>4, <1>5
<1>9. QED
  BY <1>2, <1>4, <1>7, <1>8, OthersCover DEF PublishInv

\* Every step keeps what the pushes rely on.
LEMMA NextPublish ==
    ConvergeTypes /\ PhaseInv /\ PublishInv /\ [ConvergeNext]_convergeVars => PublishInv'
<1> SUFFICES ASSUME ConvergeTypes, PhaseInv, PublishInv, [ConvergeNext]_convergeVars
             PROVE  PublishInv'
  OBVIOUS
<1>0. UNCHANGED gitVars => GitInv'
  BY DEF gitVars, PublishInv, GitInv
<1>1. CASE Begin
  <2>1. /\ UNCHANGED gitVars /\ place' = "phase"
        /\ plan' = BuildPlan(Snapshot(repo))
    BY <1>1 DEF Begin
  <2>2. ExposureInv'
    BY <2>1, FreshCovers DEF PublishInv, gitVars
  <2>3. QED
    BY <1>0, <2>1, <2>2 DEF PublishInv, PushInv
<1>2. CASE Resume
  <2>1. UNCHANGED gitVars
    BY <1>2 DEF Resume
  <2>2. CASE place' = "idle"
    BY <1>0, <2>1, <2>2 DEF PublishInv, PushInv, ExposureInv
  <2>3. CASE /\ place' = "phase"
             /\ plan' = Restored(BuildPlan(Snapshot(repo)), Snapshot(repo),
                                 file.plannedSync, file.plannedPush)
    <3>1. BuildPlan(Snapshot(repo)) \in Plan
      BY PlanTypes
    <3>2. /\ plan'.blocked = BuildPlan(Snapshot(repo)).blocked
          /\ BuildPlan(Snapshot(repo)).push \subseteq plan'.push
      BY <2>3, <3>1 DEF Restored, Plan
    <3>3. ExposureInv'
      BY <2>1, <3>2, FreshCovers DEF PublishInv, gitVars
    <3>4. QED
      BY <1>0, <2>1, <2>3, <3>3 DEF PublishInv, PushInv
  <2>4. QED
    BY <1>2, <2>2, <2>3 DEF Resume, End
<1>3. CASE BeginPhase
  <2>1. /\ UNCHANGED <<repo, remote, rewritten, plan, again>> /\ UNCHANGED gitVars
        /\ Remaining # {} /\ place = "phase" /\ place' = "work"
        /\ state' = [state EXCEPT !.currentPhase = Next1]
        /\ todo' = Work(Next1, plan)
        /\ summary' = [Summary EXCEPT !.blocked = IF Next1 = 1 THEN plan.blocked ELSE {}]
    BY <1>3 DEF BeginPhase, gitVars, Remaining
  <2>2. Phase' = Next1 /\ Remaining' = Remaining
    BY <2>1, NextTypes, EnteredRemaining DEF ConvergeTypes
  <2>3. summary'.succeeded = {}
    BY <2>1 DEF Summary
  <2>4. \A c \in Repos : CommitComing(c)' => CommitComing(c)
    BY <2>1, <2>2, <2>3 DEF CommitComing
  <2>5. ExposureInv'
    BY <2>1, <2>4, SameCovers DEF PublishInv
  <2>6. todo' = Work(Phase, plan)'
    BY <2>1, <2>2 DEF Work
  <2>7. QED
    BY <1>0, <2>1, <2>5, <2>6 DEF PublishInv, PushInv
<1>4. CASE Skip
  BY <1>4, SkipPublish
<1>5. CASE CommitRepo
  BY <1>5, CommitPublish
<1>6. CASE Sync
  BY <1>6, SyncPublish
<1>7. CASE Push
  BY <1>7, PushPublish
<1>8. CASE Delta
  <2>1. /\ UNCHANGED gitVars /\ place = "work" /\ Phase = 5 /\ UNCHANGED <<place, todo, again>>
    BY <1>8 DEF Delta
  <2>2. Phase' = Phase
    BY <1>8 DEF Delta, ConvergeTypes, WorkflowStates, Phase
  <2>3. CASE plan' = BuildPlan(Snapshot(repo))
    <3>1. ExposureInv'
      BY <2>1, <2>3, FreshCovers DEF PublishInv, gitVars
    <3>2. QED
      BY <1>0, <2>1, <2>2, <3>1 DEF PublishInv, PushInv, PushPhases
  <2>4. CASE summary' = [Summary EXCEPT !.failed = {Root}] /\ UNCHANGED <<snapshot, plan, state>>
    <3>1. summary'.succeeded = {}
      BY <2>4 DEF Summary
    <3>2. \A c \in Repos : CommitComing(c)' => CommitComing(c)
      BY <2>1, <2>2, <2>4, <3>1 DEF CommitComing, Remaining
    <3>3. ExposureInv'
      BY <2>1, <2>4, <3>2, SameCovers DEF PublishInv, gitVars
    <3>4. QED
      BY <1>0, <2>1, <2>2, <3>3 DEF PublishInv, PushInv, PushPhases
  <2>5. QED
    BY <1>8, <2>3, <2>4 DEF Delta
<1>9. CASE Final
  <2>1. /\ UNCHANGED gitVars /\ place = "work" /\ Phase = 9 /\ UNCHANGED <<place, todo>>
    BY <1>9 DEF Final
  <2>2. Phase' = Phase
    BY <1>9 DEF Final, ConvergeTypes, WorkflowStates, Phase
  <2>3. CASE plan' = BuildPlan(Snapshot(repo))
    <3>1. ExposureInv'
      BY <2>1, <2>3, FreshCovers DEF PublishInv, gitVars
    <3>2. QED
      BY <1>0, <2>1, <2>2, <3>1 DEF PublishInv, PushInv, PushPhases
  <2>4. CASE UNCHANGED <<snapshot, plan, state, again>>
    <3>1. \A c \in Repos : CommitComing(c)' => CommitComing(c)
      BY <2>1, <2>2, <2>4 DEF CommitComing, Remaining
    <3>2. ExposureInv'
      BY <2>1, <2>4, <3>1, SameCovers DEF PublishInv, gitVars
    <3>3. QED
      BY <1>0, <2>1, <2>2, <3>2 DEF PublishInv, PushInv, PushPhases
  <2>5. QED
    BY <1>9, <2>3, <2>4 DEF Final
<1>10. CASE Record
  <2>1. /\ UNCHANGED <<todo, summary, plan, again>> /\ UNCHANGED gitVars
        /\ place = "work" /\ place' = "decide" /\ Looked
        /\ state'.currentPhase = state.currentPhase
        /\ state'.completed = state.completed \cup {Phase}
    BY <1>10 DEF Record, phaseVars, ConvergeTypes, WorkflowStates
  <2>2. Remaining' = Remaining \ {Phase} /\ Phase' = Phase
    BY <2>1, RecordedRemaining DEF ConvergeTypes, Phase
  <2>3. Phase = 5 => Root \in summary.succeeded \cup summary.failed
    BY <2>1 DEF PhaseInv, Looked
  <2>4. \A c \in Repos : CommitComing(c)' => CommitComing(c)
    BY <2>1, <2>2, <2>3 DEF CommitComing
  <2>5. ExposureInv'
    BY <2>1, <2>4, SameCovers DEF PublishInv, gitVars
  <2>6. QED
    BY <1>0, <2>1, <2>5 DEF PublishInv, PushInv
<1>11. CASE Decide
  <2>1. /\ UNCHANGED <<todo, summary, plan, again>> /\ UNCHANGED gitVars /\ place = "decide"
    BY <1>11 DEF Decide, phaseVars
  <2>2. CASE place' = "idle"
    BY <1>0, <2>1, <2>2 DEF PublishInv, PushInv, ExposureInv
  <2>3. CASE (Trouble = {} \/ CanContinue) /\ place' = "phase" /\ UNCHANGED <<exit, state, file>>
    <3>1. Root \notin summary.failed
      BY <2>3 DEF Trouble, CanContinue
    <3>2. \A c \in Repos : CommitComing(c)' => CommitComing(c)
      BY <2>1, <2>3, <3>1 DEF CommitComing, Remaining, Phase
    <3>3. ExposureInv'
      BY <2>1, <3>2, SameCovers DEF PublishInv, gitVars
    <3>4. QED
      BY <1>0, <2>1, <2>3, <3>3 DEF PublishInv, PushInv
  <2>4. QED
    BY <1>11, <2>2, <2>3 DEF Decide, End
<1>12. CASE AnotherPass
  <2>1. /\ UNCHANGED <<plan>> /\ UNCHANGED gitVars /\ place = "phase" /\ again
        /\ place' \in {"phase", "idle"}
    BY <1>12 DEF AnotherPass, PhasesDone, End
  <2>2. \A c \in Repos : CommitComing(c)
    BY <2>1 DEF CommitComing
  <2>3. ExposureInv'
    BY <2>1, <2>2, SameCovers DEF PublishInv, gitVars
  <2>4. QED
    BY <1>0, <2>1, <2>3 DEF PublishInv, PushInv
<1>13. CASE Finish
  BY <1>0, <1>13 DEF Finish, End, PublishInv, PushInv, ExposureInv
<1>14. CASE Edit
  BY <1>14, EditPublish
<1>15. CASE PushElsewhere
  BY <1>15, ElsewherePublish
<1>16. CASE Fetch
  BY <1>16, FetchPublish
<1>17. CASE Kill
  BY <1>0, <1>17 DEF Kill, PublishInv, PushInv, ExposureInv
<1>18. CASE UNCHANGED convergeVars
  <2>1. /\ UNCHANGED <<repo, remote, fresh, rewritten, place, plan, state, todo, summary, again>>
        /\ plan \in Plan
    BY <1>18 DEF convergeVars, ConvergeTypes
  <2>2. ExposureInv' /\ PushInv'
    BY <2>1, OthersCover DEF PublishInv
  <2>3. QED
    BY <2>1, <2>2 DEF PublishInv, GitInv
<1>19. QED
  BY <1>1, <1>2, <1>3, <1>4, <1>5, <1>6, <1>7, <1>8, <1>9, <1>10, <1>11, <1>12, <1>13,
     <1>14, <1>15, <1>16, <1>17, <1>18 DEF ConvergeNext, Step

\* The order and what the pushes rely on hold at the start.
LEMMA InitPublish == ConvergeInit => PhaseInv /\ PublishInv
<1> SUFFICES ASSUME ConvergeInit PROVE PhaseInv /\ PublishInv
  OBVIOUS
<1>1. PICK w \in Starts :
        /\ repo = w.repo /\ remote = w.remote /\ fresh = w.fresh /\ rewritten = {}
        /\ place = "idle" /\ state = ResetState(snapshot, plan) /\ file = NoFile
        /\ again = FALSE
  BY DEF ConvergeInit
<1>2. GitInv
  BY <1>1, StartsAssumption DEF GitInv
<1>3. InOrder(state)
  BY <1>1, OrderReset
<1>4. QED
  BY <1>1, <1>2, <1>3 DEF PhaseInv, PublishInv, ExposureInv, PushInv

\* In every state of converge the types hold, the phases are in order, and what may
\* still be pushed pins what is published.
THEOREM ConvergePublishes == ConvergeSpec => [](ConvergeTypes /\ PhaseInv /\ PublishInv)
<1>1. ConvergeInit => ConvergeTypes /\ PhaseInv /\ PublishInv
  BY InitTypes, InitPublish
<1>2. ConvergeTypes /\ PhaseInv /\ PublishInv /\ [ConvergeNext]_convergeVars
        => (ConvergeTypes /\ PhaseInv /\ PublishInv)'
  BY NextTypes, NextPhases, NextPublish
<1>3. QED
  BY <1>1, <1>2, PTL DEF ConvergeSpec

\* No remote ever serves a parent whose gitlink pins a commit that the remote of the
\* contained repository neither has nor has had a version of, through failures, kills,
\* resumed and later calls, and the pushes of others, unless pushes of the contained
\* repository are withheld.
THEOREM ConvergeDanglesNothing == ConvergeSpec => []NoDanglingPointer
<1>1. ConvergeTypes /\ PhaseInv /\ PublishInv => NoDanglingPointer
  BY DEF PublishInv, GitInv, Consistent, Withheld, NoDanglingPointer, Pinned
<1>2. QED
  BY <1>1, ConvergePublishes, PTL
-----------------------------------------------------------------------------
(* What a look at the repositories says of them                            *)

\* Below a repository is below one that it contains directly.
LEMMA DescendantsStep ==
    ASSUME NEW r \in Repos, NEW d \in Descendants(r)
    PROVE  \E c \in Children(r) : d \in Descendants(c) \cup {c}
<1> DEFINE Near(q) == \E c \in Children(r) : c \in Ancestors[q]
           Bad == {q \in Repos \ {r} : r \in Ancestors[q] /\ ~ Near(q)}
<1>1. Bad = {}
  <2> SUFFICES ASSUME Bad # {} PROVE FALSE
    OBVIOUS
  <2>1. PICK q \in Bad : \A p \in Bad : q <= p
    <3>1. Bad \in SUBSET Nat
      BY RepoNumbers
    <3> HIDE DEF Bad
    <3>2. QED
      BY <3>1, LeastNatural
  <2>2. q \in Repos /\ q # r /\ r \in Ancestors[q]
    BY <2>1
  <2>3. Ancestors[q] = {q} \cup IF q = Root THEN {} ELSE Ancestors[Parent[q]]
    BY <2>2, AncestorsStep
  <2>4. q # Root /\ r \in Ancestors[Parent[q]]
    BY <2>2, <2>3
  <2>5. Parent[q] \in Repos /\ Parent[q] < q /\ q \in Nat /\ Parent[q] \in Nat
    BY <2>2, <2>4, TreeAssumption, RepoNumbers
  <2>6. CASE Parent[q] = r
    <3>1. q \in Children(r) /\ q \in Ancestors[q]
      BY <2>2, <2>3, <2>4, <2>6 DEF Children
    <3>2. QED
      BY <3>1, <2>1
  <2>7. CASE Parent[q] # r
    <3>1. Parent[q] \notin Bad
      BY <2>1, <2>5
    <3>2. Near(Parent[q])
      BY <2>4, <2>5, <2>7, <3>1
    <3>3. Near(q)
      BY <3>2, <2>3, <2>4
    <3>4. QED
      BY <3>3, <2>1
  <2>8. QED
    BY <2>6, <2>7
<1>2. d \in Repos /\ d # r /\ r \in Ancestors[d]
  BY DEF Descendants
<1>3. Near(d)
  BY <1>1, <1>2
<1>4. QED
  BY <1>2, <1>3 DEF Descendants

\* What is below a contained repository is below what contains it.
LEMMA DescendantsUp ==
    ASSUME NEW r \in Repos, NEW c \in Children(r), NEW d \in Descendants(c) \cup {c}
    PROVE  d \in Descendants(r)
<1>1. c \in Repos \ {Root} /\ Parent[c] = r /\ r < c /\ r \in Nat /\ c \in Nat
  BY TreeAssumption, RepoNumbers DEF Children
<1>2. d \in Repos /\ c \in Ancestors[d] /\ d \in Nat
  BY <1>1, AncestorsUp, RepoNumbers DEF Descendants
<1>3. r \in Ancestors[d]
  BY <1>1, <1>2, AncestorsUp
<1>4. c <= d
  BY <1>2, AncestorsAbove
<1>5. QED
  BY <1>1, <1>2, <1>3, <1>4 DEF Descendants

\* Nothing is dirty in a repository that is reported as clean.
LEMMA CleanIsClean ==
    ASSUME NEW s, NEW r \in Repos, Kind(s, r) = "CLEAN"
    PROVE  ~ Dirty(s, r) /\ ~ DirtyOwn(s, r) /\ s[r].attached /\ ~ Ahead(s, r) /\ ~ Behind(s, r)
<1>1. /\ ~ s[r].conflict /\ ~ s[r].index /\ ~ s[r].content /\ s[r].attached
      /\ DirtyGitlinks(s, r) = {} /\ ~ Ahead(s, r) /\ ~ Behind(s, r)
  BY DEF Kind, GitlinkDirty
<1>2. Moved(s, r) = {} /\ \A c \in Children(r) : ~ Dirty(s, c)
  BY <1>1 DEF DirtyGitlinks, Moved
<1>3. ~ DirtyOwn(s, r)
  BY <1>1, <1>2 DEF DirtyOwn
<1>4. \A d \in Descendants(r) : ~ DirtyOwn(s, d)
  BY <1>2, DescendantsStep DEF Dirty
<1>5. QED
  BY <1>1, <1>3, <1>4 DEF Dirty

\* A repository on a branch with nothing dirty in it and nothing ahead of its
\* remote is clean or behind.
LEMMA NothingDirty ==
    ASSUME NEW s, NEW r \in Repos, ~ Dirty(s, r), s[r].attached, ~ Ahead(s, r)
    PROVE  Kind(s, r) \in {"CLEAN", "BEHIND_ONLY"}
<1>1. ~ DirtyOwn(s, r)
  BY DEF Dirty
<1>2. ~ s[r].conflict /\ ~ s[r].index /\ ~ s[r].content /\ Moved(s, r) = {}
  BY <1>1 DEF DirtyOwn
<1>3. \A c \in Children(r) : ~ Dirty(s, c)
  BY DescendantsUp DEF Dirty
<1>4. ~ GitlinkDirty(s, r)
  BY <1>2, <1>3 DEF GitlinkDirty, DirtyGitlinks
<1>5. QED
  BY <1>2, <1>4 DEF Kind

\* A plan with nothing to do and nothing blocked: all that is not passed over is done.
LEMMA NothingToDo ==
    ASSUME repo \in [Repos -> Local], BuildPlan(Snapshot(repo)).blocked = {},
           ~ Runnable(BuildPlan(Snapshot(repo)))
    PROVE  \A r \in Repos \ PassedOver : Done(r)
<1> DEFINE look == Snapshot(repo)
           p == BuildPlan(look)
           Bad == {r \in Repos \ PassedOver : look[r].kind # "CLEAN"}
<1>1. \A r \in Repos : /\ look[r].kind = Kind(repo, r) /\ look[r].pushable = repo[r].pushable
                       /\ look[r].branch = repo[r].attached
  BY DEF Snapshot
<1> HIDE DEF look
<1>2. /\ p.blocked = ToBlock(look) /\ p.commit = ToCommit(look)
      /\ \A r \in Considered(look) : \A c \in UnpushedChildren(look, r) :
            look[c].pushable => c \in p.push
      /\ \A r \in Free(look) : look[r].kind = "AHEAD_ONLY" /\ look[r].pushable => r \in p.push
      /\ \A r \in Free(look) : look[r].kind = "BEHIND_ONLY" => r \in p.sync
  <2>1. /\ p.blocked = ToBlock(look) /\ p.commit = ToCommit(look)
    BY DEF BuildPlan
  <2>2. /\ \A r \in Considered(look) : \A c \in UnpushedChildren(look, r) :
            look[c].pushable => c \in p.push
    BY DEF BuildPlan
  <2>3. Free(look) \subseteq Repos
    BY DEF Free, Considered
  <2>4. \A r \in Free(look) : look[r].kind = "AHEAD_ONLY" /\ look[r].pushable => r \in p.push
    BY <2>3 DEF BuildPlan
  <2>5. \A r \in Free(look) : look[r].kind = "BEHIND_ONLY" => r \in p.sync
    BY <2>3 DEF BuildPlan
  <2>6. QED
    BY <2>1, <2>2, <2>4, <2>5
<1>3. p.blocked = {} /\ p.commit = {} /\ p.sync = {} /\ p.push = {}
  BY DEF Runnable, look
<1> HIDE DEF p
<1>4. \A r \in Considered(look) : UnpushedChildren(look, r) = {}
  BY <1>2, <1>3 DEF ToBlock
<1>5. Free(look) = Considered(look)
  BY <1>4 DEF Free
<1>6. PassedOver \subseteq Repos /\ \A c \in PassedOver \ {Root} : Parent[c] \in PassedOver
  BY UpClosureUp DEF PassedOver
<1>7. \A r \in Repos \ PassedOver : repo[r].pushable /\ repo[r].attached
  <2>1. {r \in Repos : ~repo[r].pushable \/ ~repo[r].attached} \subseteq PassedOver
    BY UpClosureUp DEF PassedOver
  <2>2. QED
    BY <2>1
<1>8. Bad = {}
  <2> SUFFICES ASSUME Bad # {} PROVE FALSE
    OBVIOUS
  <2>1. PICK r \in Bad : \A q \in Bad : q <= r
    <3>1. Bad \in SUBSET Nat /\ \A q \in Bad : q <= Cardinality(Repos)
      BY RepoNumbers
    <3> HIDE DEF Bad
    <3>2. QED
      BY <3>1, MaxIsGreatest, RepoNumbers
  <2>2. r \in Repos \ PassedOver /\ look[r].kind # "CLEAN" /\ look[r].kind \in Kinds
    BY <1>1, <2>1 DEF Kind, Kinds
  <2>3. look[r].kind # "DETACHED_HEAD"
    BY <1>1, <1>7, <2>2 DEF Kind
  <2>4. r \in Free(look)
    <3>1. look[r].kind \notin {"CONFLICTED", "DIVERGED"}
      BY <1>2, <1>3, <2>2 DEF ToBlock
    <3>2. QED
      BY <1>5, <2>2, <2>3, <3>1 DEF Considered, PreflightOnly
  <2>5. Waits(look, r)
    <3>1. look[r].kind \notin {"AHEAD_ONLY", "BEHIND_ONLY", "INDEX_DIRTY", "CONTENT_DIRTY"}
      BY <1>1, <1>2, <1>3, <1>7, <2>2, <2>4 DEF ToCommit
    <3>2. look[r].kind \in PointerKinds \cup {"GITLINK_DIRTY_UNSAFE"}
      BY <1>2, <1>3, <2>2, <2>3, <3>1 DEF ToBlock, Kinds, PointerKinds
    <3>3. QED
      BY <1>2, <1>3, <2>4, <3>2 DEF ToBlock, ToCommit
  <2>6. PICK c \in Children(r) : NeedsAction(look, c)
    BY <2>5 DEF Waits
  <2>7. c \in Repos \ {Root} /\ Parent[c] = r /\ r < c
    BY <2>6, TreeAssumption DEF Children
  <2>8. ~ look[c].unpushed
    BY <1>4, <1>5, <2>4, <2>6 DEF UnpushedChildren
  <2>9. look[c].kind # "CLEAN"
    BY <2>6, <2>8 DEF NeedsAction
  <2>10. c \in Bad
    BY <1>6, <2>2, <2>7, <2>9
  <2>11. c <= r /\ r \in Nat /\ c \in Nat
    BY <2>1, <2>10, RepoNumbers
  <2>12. QED
    BY <2>7, <2>11
<1>9. \A r \in Repos \ PassedOver : Kind(repo, r) = "CLEAN"
  BY <1>1, <1>8
<1>10. QED
  BY <1>9, CleanIsClean DEF Done
\* When there is no repository that converge must not touch, every repository can
\* converge before its parent does, ...
LEMMA AllConverge ==
    ASSUME GitTypes, \A r \in Repos : ~ Untouchable(r)
    PROVE  CanConverge(Snapshot(repo)) = Repos
<1> DEFINE look == Snapshot(repo)
           Bad == {r \in Repos : r \notin CanConverge(look)}
<1>1. \A r \in Repos : /\ look[r].kind = Kind(repo, r) /\ look[r].pushable /\ look[r].branch
                       /\ look[r].gitlinks = DirtyGitlinks(repo, r)
                       /\ look[r].ahead = Cardinality(repo[r].unpub)
                       /\ look[r].kind \notin {"CONFLICTED", "DIVERGED"}
                       /\ repo[r].attached
  BY DEF Snapshot, Untouchable
<1> HIDE DEF look
<1>2. CanConverge(look) \subseteq Repos
  BY DEF CanConverge
<1>3. Bad = {}
  <2> SUFFICES ASSUME Bad # {} PROVE FALSE
    OBVIOUS
  <2>1. PICK r \in Bad : \A q \in Bad : q <= r
    <3>1. Bad \in SUBSET Nat /\ \A q \in Bad : q <= Cardinality(Repos)
      BY RepoNumbers
    <3> HIDE DEF Bad
    <3>2. QED
      BY <3>1, MaxIsGreatest, RepoNumbers
  <2>2. \A c \in Children(r) : c \in CanConverge(look)
    <3> SUFFICES ASSUME NEW c \in Children(r) PROVE c \in CanConverge(look)
      OBVIOUS
    <3>1. c \in Repos /\ r < c /\ r \in Nat /\ c \in Nat
      BY <2>1, TreeAssumption, RepoNumbers DEF Children
    <3>2. c \notin Bad
      BY <2>1, <3>1
    <3>3. QED
      BY <3>1, <3>2
  <2>3. ~ CanOnceThese(look, r, Children(r) \cap CanConverge(look))
    BY <2>1, CanConvergeStep
  <2>4. CanPublishLocalMutation(look, r)
    BY <1>1, <2>1 DEF CanPublishLocalMutation
  <2>5. look[r].kind # "DETACHED_HEAD"
    BY <1>1, <2>1 DEF Kind
  <2>6. look[r].kind = "GITLINK_DIRTY_ONLY" => ~ PublicationBlocked(look, r)
    <3> SUFFICES ASSUME look[r].kind = "GITLINK_DIRTY_ONLY", NEW c \in look[r].gitlinks
                 PROVE  look[c].branch /\ look[c].ahead = 0 /\ look[c].kind \in {"CLEAN", "BEHIND_ONLY"}
      BY DEF PublicationBlocked
    <3>1. c \in Children(r) /\ c \in Repos
      BY <1>1, <2>1 DEF DirtyGitlinks, Children
    <3>2. Kind(repo, r) = "GITLINK_DIRTY_ONLY"
      BY <1>1, <2>1
    <3>3. ~ Dirty(repo, c) /\ ~ Ahead(repo, c)
      BY <3>1, <3>2 DEF Kind
    <3>4. look[c].branch /\ look[c].kind \in {"CLEAN", "BEHIND_ONLY"}
      BY <1>1, <3>1, <3>3, NothingDirty
    <3>5. repo[c].unpub = {}
      BY <1>1, <3>1, <3>3 DEF Ahead
    <3>6. QED
      BY <1>1, <3>1, <3>4, <3>5, FS_EmptySet
  <2>7. \A c \in Children(r) : NeedsAction(look, c) => c \in Children(r) \cap CanConverge(look)
    BY <2>2
  <2>8. look[r].kind \in Kinds /\ look[r].kind \notin {"CONFLICTED", "DIVERGED"} /\ look[r].pushable
    BY <1>1, <2>1 DEF Kind, Kinds
  <2>9. CanOnceThese(look, r, Children(r) \cap CanConverge(look))
    BY <2>4, <2>5, <2>6, <2>7, <2>8 DEF CanOnceThese, Kinds
  <2>10. QED
    BY <2>3, <2>9
<1>4. QED
  BY <1>2, <1>3 DEF look

\* ... and nothing is blocked.
LEMMA BlockedByUntouchable ==
    ASSUME GitTypes, BuildPlan(Snapshot(repo)).blocked # {}
    PROVE  \E r \in Repos : Untouchable(r)
<1> SUFFICES ASSUME \A r \in Repos : ~ Untouchable(r) PROVE FALSE
  OBVIOUS
<1> DEFINE look == Snapshot(repo)
<1>1. \A r \in Repos : /\ look[r].kind = Kind(repo, r) /\ look[r].pushable /\ look[r].branch
                       /\ look[r].gitlinks = DirtyGitlinks(repo, r)
                       /\ look[r].ahead = Cardinality(repo[r].unpub)
                       /\ look[r].kind \notin {"CONFLICTED", "DIVERGED"}
                       /\ repo[r].attached
                       /\ (Ahead(repo, r) => look[r].unpushed)
  BY DEF Snapshot, Untouchable
<1>2. CanConverge(look) = Repos
  BY AllConverge
<1>3. ToBlock(look) # {}
  BY DEF BuildPlan
<1> HIDE DEF look
<1>4. \A r \in Repos : Children(r) \subseteq Repos
  BY DEF Children
<1>5. \A r \in Repos : look[r].kind # "DETACHED_HEAD"
  BY <1>1 DEF Kind
<1>6. Free(look) \subseteq Repos
  BY DEF Free, Considered
<1>7. PICK r \in Free(look) :
        /\ ~ Waits(look, r)
        /\ \/ look[r].kind = "GITLINK_DIRTY_UNSAFE"
           \/ look[r].kind \in PointerKinds /\ PublicationBlocked(look, r)
  <2>1. \A r \in Considered(look) : \A c \in UnpushedChildren(look, r) : look[c].pushable
    BY <1>1, <1>4 DEF Considered, UnpushedChildren
  <2>2. QED
    BY <1>1, <1>3, <1>5, <1>6, <2>1 DEF ToBlock
<1>8. \A c \in Children(r) : look[c].kind = "CLEAN" /\ ~ look[c].unpushed
  BY <1>2, <1>4, <1>6, <1>7 DEF Waits, NeedsAction
<1>9. \A c \in Children(r) : ~ Dirty(repo, c) /\ ~ Ahead(repo, c)
  BY <1>1, <1>4, <1>6, <1>8, CleanIsClean
<1>10. look[r].kind # "GITLINK_DIRTY_UNSAFE"
  BY <1>1, <1>6, <1>7, <1>9 DEF Kind
<1>11. ~ PublicationBlocked(look, r)
  <2> SUFFICES ASSUME NEW c \in look[r].gitlinks
               PROVE  look[c].branch /\ look[c].ahead = 0 /\ look[c].kind \in {"CLEAN", "BEHIND_ONLY"}
    BY DEF PublicationBlocked
  <2>1. c \in Children(r) /\ c \in Repos
    BY <1>1, <1>6, <1>7 DEF DirtyGitlinks, Children
  <2>2. repo[c].unpub = {}
    BY <1>1, <1>9, <2>1 DEF Ahead
  <2>3. QED
    BY <1>1, <1>8, <2>1, <2>2, FS_EmptySet
<1>12. QED
  BY <1>7, <1>10, <1>11
-----------------------------------------------------------------------------
(* What the exit code says                                                 *)

AllDone == \A r \in Repos \ PassedOver : Done(r)

\* A call that ended because the passes were used up.
OutOfPasses == place = "idle" /\ exit = 1 /\ pass >= kMaxConvergePasses

\* Since the last look: it found trouble, or all was done and the trouble of the
\* phases before was forgotten.
LookInv ==
    /\ place # "idle" /\ calm.look /\ 9 \in state.completed =>
          Phase = 9 /\ place \in {"decide", "phase"}
    /\ place = "work" /\ Phase = 9 /\ summary # Summary /\ calm.look /\ ~ again =>
          \/ summary.failed \cup summary.blocked # {}
          \/ state.failed \cup state.blocked = {} /\ AllDone
    /\ place \in {"decide", "phase"} /\ calm.look /\ ~ again /\ 9 \in state.completed =>
          state.failed \cup state.blocked # {} \/ AllDone
    /\ place = "idle" /\ exit = 0 /\ calm.look => AllDone

\* The plan is one of the repositories as they are.
PlanOfNow == plan = BuildPlan(Snapshot(repo))

\* In a call that nothing got in the way of, only a look finds trouble, and what it
\* finds is of the repositories as they are.
CalmInv ==
    /\ place # "idle" /\ calm.call =>
          /\ Phase = 1 \/ again => PlanOfNow
          /\ 9 \in state.completed => Phase = 9
          /\ place \in {"work", "decide"} =>
                /\ summary.failed = {}
                /\ Phase \notin {1, 5, 9} => summary.blocked = {}
                /\ Phase \in {5, 9} /\ summary.blocked # {} => PlanOfNow
                /\ summary.blocked \subseteq plan.blocked
          /\ place = "work" /\ Phase = 9 /\ summary # Summary /\ ~ again =>
                summary.blocked # {} \/ state.failed \cup state.blocked = {}
          /\ place = "decide" /\ 9 \in state.completed /\ ~ again =>
                summary.blocked # {} \/ state.failed \cup state.blocked = {}
          /\ place = "phase" /\ 9 \in state.completed /\ ~ again =>
                state.failed \cup state.blocked = {}
    /\ place = "idle" /\ exit = 1 /\ calm.call =>
          OutOfPasses \/ \E r \in Repos : Untouchable(r)

\* What is said of the repositories stays true when they stay as they are.
LEMMA SameRepos ==
    ASSUME UNCHANGED repo
    PROVE  /\ AllDone' = AllDone /\ \A r \in Repos : Untouchable(r)' = Untouchable(r)
           /\ (plan' = plan => PlanOfNow' = PlanOfNow)
BY DEF AllDone, PassedOver, Done, DirtyOwn, Ahead, Behind, Moved, Untouchable, PlanOfNow

\* A turn is taken in a phase that is no look.
LEMMA TookLook ==
    ASSUME ConvergeTypes, PhaseInv, LookInv, place = "work", todo # {},
           UNCHANGED <<place, state, again>>, calm'.look => calm.look
    PROVE  LookInv'
<1>1. Phase # 9 /\ Phase' = Phase
  BY WorkPhases DEF Phase, CommitPhases, SyncPhases, PushPhases
<1>2. QED
  BY <1>1 DEF LookInv

\* Every step keeps what is said of the last look.
LEMMA NextLook ==
    ConvergeTypes /\ PhaseInv /\ LookInv /\ [ConvergeNext]_convergeVars => LookInv'
<1> SUFFICES ASSUME ConvergeTypes, PhaseInv, LookInv, [ConvergeNext]_convergeVars PROVE LookInv'
  OBVIOUS
<1>1. CASE Begin
  <2>1. place' = "phase" /\ state'.completed = {}
    BY <1>1 DEF Begin, ResetState
  <2>2. QED
    BY <2>1 DEF LookInv
<1>2. CASE Resume
  <2>1. CASE place' = "idle" /\ exit' = 1
    BY <2>1 DEF LookInv
  <2>2. CASE place' = "phase" /\ calm' = [call |-> FALSE, look |-> 9 \notin state'.completed]
    BY <2>2 DEF LookInv
  <2>3. QED
    BY <1>2, <2>1, <2>2 DEF Resume, End
<1>3. CASE BeginPhase
  <2>1. /\ Remaining # {} /\ state' = [state EXCEPT !.currentPhase = Next1] /\ place = "phase"
        /\ place' = "work" /\ calm' = calm
        /\ summary' = [Summary EXCEPT !.blocked = IF Next1 = 1 THEN plan.blocked ELSE {}]
    BY <1>3 DEF BeginPhase, Remaining
  <2>2. Phase' = Next1 /\ state'.completed = state.completed
    BY <2>1, NextTypes, EnteredRemaining DEF ConvergeTypes
  <2>3. ~ (calm.look /\ 9 \in state.completed)
    BY <2>1 DEF LookInv, Remaining, Phase
  <2>4. Phase' = 9 => summary' = Summary
    BY <2>1, <2>2 DEF Summary
  <2>5. QED
    BY <2>1, <2>2, <2>3, <2>4 DEF LookInv
<1>4. CASE Skip
  BY <1>4, TookLook DEF Skip, phaseUnchanged, Fine
<1>5. CASE CommitRepo
  BY <1>5, TookLook DEF CommitRepo, Ready, phaseUnchanged, Fine, Fail, ConvergeTypes
<1>6. CASE Sync
  BY <1>6, TookLook DEF Sync, Ready, phaseUnchanged, Fine, Fail, ConvergeTypes
<1>7. CASE Push
  BY <1>7, TookLook DEF Push, Ready, phaseUnchanged, Fine, Fail, ConvergeTypes
<1>8. CASE Delta
  <2>1. /\ place' = "work" /\ place = "work" /\ Phase' = 5 /\ state'.completed = state.completed
        /\ (calm'.look => calm.look)
    BY <1>8 DEF Delta, ConvergeTypes, WorkflowStates, Phase, Fine, Fail
  <2>2. QED
    BY <2>1 DEF LookInv
<1>9. CASE Final
  <2>1. place' = "work" /\ Phase = 9 /\ Phase' = 9 /\ state'.completed = state.completed
    BY <1>9 DEF Final, ConvergeTypes, WorkflowStates, Phase
  <2>2. 9 \notin state.completed
    BY <1>9, <2>1 DEF Final, PhaseInv
  <2>3. UNCHANGED repo
    BY <1>9 DEF Final, gitVars
  <2>4. CASE /\ plan' = BuildPlan(Snapshot(repo))
             /\ again' = (plan'.blocked = {} /\ Runnable(plan'))
             /\ state' = IF plan'.blocked = {} /\ ~Runnable(plan')
                         THEN [state EXCEPT !.failed = {}, !.blocked = {}] ELSE state
             /\ summary' = [Summary EXCEPT !.blocked = plan'.blocked,
                                        !.succeeded = IF plan'.blocked = {} THEN {Root} ELSE {}]
    <3>1. CASE plan'.blocked # {}
      <4>1. summary'.blocked # {}
        BY <2>4, <3>1 DEF Summary
      <4>2. QED
        BY <2>1, <2>2, <4>1 DEF LookInv
    <3>2. CASE plan'.blocked = {} /\ ~ again'
      <4>1. ~ Runnable(plan')
        BY <2>4, <3>2
      <4>2. state'.failed \cup state'.blocked = {}
        BY <2>4, <3>2, <4>1 DEF ConvergeTypes, WorkflowStates
      <4>3. AllDone
        BY <2>4, <3>2, <4>1, NothingToDo DEF AllDone, ConvergeTypes, GitTypes
      <4>4. AllDone'
        BY <2>3, <4>3, SameRepos
      <4>5. QED
        BY <2>1, <2>2, <4>2, <4>4 DEF LookInv
    <3>3. CASE plan'.blocked = {} /\ again'
      BY <2>1, <2>2, <3>3 DEF LookInv
    <3>4. QED
      BY <3>1, <3>2, <3>3
  <2>5. CASE summary' = [Summary EXCEPT !.failed = {Root}]
    <3>1. summary'.failed # {}
      BY <2>5 DEF Summary
    <3>2. QED
      BY <2>1, <2>2, <3>1 DEF LookInv
  <2>6. QED
    BY <1>9, <2>4, <2>5 DEF Final
<1>10. CASE Record
  <2>1. /\ UNCHANGED <<summary, again, calm, repo>>
        /\ place = "work" /\ place' = "decide" /\ Looked
        /\ Phase' = Phase /\ state'.completed = state.completed \cup {Phase}
        /\ state'.failed = (state.failed \ summary.succeeded) \cup summary.failed
        /\ state'.blocked = (state.blocked \ summary.succeeded) \cup summary.blocked
    BY <1>10 DEF Record, phaseVars, gitVars, ConvergeTypes, WorkflowStates, Phase
  <2>2. calm.look /\ 9 \in state'.completed => Phase = 9
    BY <2>1 DEF LookInv
  <2>3. Phase = 9 => summary # Summary
    BY <2>1 DEF Looked
  <2>4. AllDone' = AllDone
    BY <2>1, SameRepos
  <2>5. calm.look /\ 9 \in state'.completed /\ ~ again =>
            state'.failed \cup state'.blocked # {} \/ AllDone
    BY <2>1, <2>2, <2>3 DEF LookInv
  <2>6. QED
    BY <2>1, <2>2, <2>4, <2>5 DEF LookInv
<1>11. CASE Decide
  <2>1. UNCHANGED <<again, calm, repo>> /\ place = "decide"
    BY <1>11 DEF Decide, gitVars
  <2>2. CASE place' = "idle" /\ exit' = 1
    BY <2>2 DEF LookInv
  <2>3. CASE place' = "phase" /\ UNCHANGED <<exit, state, file>>
    <3>1. Phase' = Phase /\ AllDone' = AllDone
      BY <2>1, <2>3, SameRepos DEF Phase
    <3>2. QED
      BY <2>1, <2>3, <3>1 DEF LookInv
  <2>4. QED
    BY <1>11, <2>2, <2>3 DEF Decide, End
<1>12. CASE AnotherPass
  <2>1. CASE place' = "idle" /\ exit' = 1
    BY <2>1 DEF LookInv
  <2>2. CASE state' = ResetState(snapshot, plan) /\ UNCHANGED <<place, exit>>
    <3>1. state'.completed = {} /\ place' = "phase"
      BY <1>12, <2>2 DEF ResetState, AnotherPass, PhasesDone
    <3>2. QED
      BY <3>1 DEF LookInv
  <2>3. QED
    BY <1>12, <2>1, <2>2 DEF AnotherPass, End
<1>13. CASE Finish
  <2>1. UNCHANGED <<calm, repo>> /\ place' = "idle" /\ place = "phase" /\ ~ again /\ 9 \in state.completed
        /\ exit' = IF state.failed \cup state.blocked = {} THEN 0 ELSE 1
    BY <1>13 DEF Finish, End, gitVars, PhasesDone, ConvergeTypes, WorkflowStates
  <2>2. AllDone' = AllDone
    BY <2>1, SameRepos
  <2>3. QED
    BY <2>1, <2>2 DEF LookInv
<1>14. CASE Edit \/ PushElsewhere \/ Fetch
  <2>1. ~ calm'.look
    BY <1>14 DEF Edit, PushElsewhere, Fetch, Disturb
  <2>2. QED
    BY <2>1 DEF LookInv
<1>15. CASE Kill
  BY <1>15 DEF Kill, LookInv
<1>16. CASE UNCHANGED convergeVars
  <2>1. UNCHANGED <<place, exit, summary, state, again, calm, repo>>
    BY <1>16 DEF convergeVars
  <2>2. AllDone' = AllDone /\ Phase' = Phase
    BY <2>1, SameRepos DEF Phase
  <2>3. QED
    BY <2>1, <2>2 DEF LookInv
<1>17. QED
  BY <1>1, <1>2, <1>3, <1>4, <1>5, <1>6, <1>7, <1>8, <1>9, <1>10, <1>11, <1>12, <1>13,
     <1>14, <1>15, <1>16 DEF ConvergeNext, Step
\* A turn of a calm call that neither fails nor is blocked.
LEMMA TookCalm ==
    ASSUME ConvergeTypes, PhaseInv, CalmInv, place = "work", todo # {},
           UNCHANGED <<place, state, plan, again>>,
           calm'.call => calm.call /\ summary'.failed = summary.failed
                                   /\ summary'.blocked = summary.blocked
    PROVE  CalmInv'
<1>1. Phase \notin {1, 5, 9} /\ Phase' = Phase /\ ~ again
  BY WorkPhases DEF Phase, CommitPhases, SyncPhases, PushPhases, PhaseInv
<1>2. QED
  BY <1>1 DEF CalmInv

\* What a turn adds to the summary.
LEMMA TookSummary ==
    ASSUME summary \in Summaries, NEW f \in {"succeeded", "failed", "blocked", "skipped"}, Took(f)
    PROVE  /\ f # "failed" => summary'.failed = summary.failed
           /\ f # "blocked" => summary'.blocked = summary.blocked
BY DEF Took, Summaries

\* Every step keeps what is said of a calm call.
LEMMA NextCalm ==
    ConvergeTypes /\ PhaseInv /\ CalmInv /\ [ConvergeNext]_convergeVars => CalmInv'
<1> SUFFICES ASSUME ConvergeTypes, PhaseInv, CalmInv, [ConvergeNext]_convergeVars PROVE CalmInv'
  OBVIOUS
<1>0. /\ summary \in Summaries /\ state \in WorkflowStates /\ plan \in Plan
      /\ calm \in [call : BOOLEAN, look : BOOLEAN]
  BY DEF ConvergeTypes
<1>1. CASE Begin
  <2>1. /\ place' = "phase" /\ state'.completed = {} /\ plan' = BuildPlan(Snapshot(repo)) /\ repo' = repo
    BY <1>1 DEF Begin, ResetState, gitVars
  <2>2. PlanOfNow'
    BY <2>1 DEF PlanOfNow
  <2>3. QED
    BY <2>1, <2>2 DEF CalmInv
<1>2. CASE Resume
  <2>1. ~ calm'.call
    BY <1>0, <1>2 DEF Resume
  <2>2. QED
    BY <2>1 DEF CalmInv
<1>3. CASE BeginPhase
  <2>1. /\ Remaining # {} /\ state' = [state EXCEPT !.currentPhase = Next1] /\ place = "phase"
        /\ place' = "work" /\ UNCHANGED <<calm, again, plan, repo>>
        /\ summary' = [Summary EXCEPT !.blocked = IF Next1 = 1 THEN plan.blocked ELSE {}]
    BY <1>3 DEF BeginPhase, Remaining, gitVars
  <2>2. Phase' = Next1 /\ state'.completed = state.completed /\ Next1 \in Remaining /\ Next1 \in 1..9
    BY <2>1, NextTypes, EnteredRemaining, NextPhase DEF ConvergeTypes
  <2>3. ~ again
    BY <2>1 DEF PhaseInv, Remaining, Phase
  <2>4. calm.call => 9 \notin state.completed
    BY <2>1 DEF CalmInv, Remaining, Phase
  <2>5. Next1 = 1 => Phase = 1
    BY <1>0, <2>2 DEF Remaining, Phase, WorkflowStates
  <2>6. /\ summary'.failed = {} /\ summary'.blocked = IF Next1 = 1 THEN plan.blocked ELSE {}
        /\ (Next1 # 1 => summary' = Summary)
    BY <2>1 DEF Summary
  <2>7. PlanOfNow' = PlanOfNow
    BY <2>1, SameRepos
  <2>8. QED
    BY <2>1, <2>2, <2>3, <2>4, <2>5, <2>6, <2>7 DEF CalmInv
<1>4. CASE Skip
  <2>1. /\ place = "work" /\ todo # {} /\ UNCHANGED <<place, state, plan, again, calm>>
        /\ Took(IF Phase \in PushPhases /\ Turn \notin MutationBlocked THEN "blocked" ELSE "skipped")
        /\ Turn \in MutationBlocked \cup FailedBelow \/ NotNow
    BY <1>4 DEF Skip, phaseUnchanged, Fine
  <2>2. summary'.failed = summary.failed
    BY <1>0, <2>1, TookSummary
  <2>3. calm.call => Took("skipped")
    <3>1. calm.call => summary.failed = {}
      BY <2>1 DEF CalmInv
    <3>2. summary.failed = {} => FailedBelow = {}
      BY DEF FailedBelow, UpClosure
    <3>3. Phase \in PushPhases => ~ NotNow
      BY DEF PushPhases, CommitPhases, NotNow
    <3>4. QED
      BY <2>1, <3>1, <3>2, <3>3
  <2>4. calm.call => summary'.blocked = summary.blocked
    BY <1>0, <2>3, TookSummary
  <2>5. QED
    BY <2>1, <2>2, <2>4, TookCalm
<1>5. CASE CommitRepo
  <2>1. place = "work" /\ todo # {} /\ UNCHANGED <<place, state, plan, again>>
    BY <1>5 DEF CommitRepo, Ready, phaseUnchanged
  <2>2. ~ calm'.call \/ (calm' = calm /\ Took("succeeded"))
    BY <1>0, <1>5 DEF CommitRepo, Fail, Fine
  <2>3. QED
    BY <1>0, <2>1, <2>2, TookSummary, TookCalm
<1>6. CASE Sync
  <2>1. place = "work" /\ todo # {} /\ UNCHANGED <<place, state, plan, again>>
    BY <1>6 DEF Sync, Ready, phaseUnchanged
  <2>2. ~ calm'.call \/ (calm' = calm /\ Took("succeeded"))
    BY <1>0, <1>6 DEF Sync, Fail, Fine
  <2>3. QED
    BY <1>0, <2>1, <2>2, TookSummary, TookCalm
<1>7. CASE Push
  <2>1. place = "work" /\ todo # {} /\ UNCHANGED <<place, state, plan, again>>
    BY <1>7 DEF Push, Ready, phaseUnchanged
  <2>2. ~ calm'.call \/ (calm' = calm /\ (Took("succeeded") \/ Took("skipped")))
    BY <1>0, <1>7 DEF Push, Fail, Fine
  <2>3. QED
    BY <1>0, <2>1, <2>2, TookSummary, TookCalm
<1>8. CASE Delta
  <2>1. /\ place' = "work" /\ place = "work" /\ Phase = 5 /\ Phase' = 5
        /\ state'.completed = state.completed /\ UNCHANGED <<repo, again>>
    BY <1>8 DEF Delta, ConvergeTypes, WorkflowStates, Phase, gitVars
  <2>2. ~ again
    BY <2>1 DEF PhaseInv
  <2>3. CASE /\ plan' = BuildPlan(Snapshot(repo)) /\ Fine
             /\ summary' = [Summary EXCEPT !.succeeded = {Root}, !.blocked = plan'.blocked]
    <3>1. PlanOfNow' /\ summary'.failed = {} /\ summary'.blocked = plan'.blocked
      BY <2>1, <2>3 DEF PlanOfNow, Summary
    <3>2. calm' = calm
      BY <2>3 DEF Fine
    <3>3. QED
      BY <2>1, <2>2, <3>1, <3>2 DEF CalmInv
  <2>4. CASE Fail
    BY <1>0, <2>4 DEF Fail, CalmInv
  <2>5. QED
    BY <1>8, <2>3, <2>4 DEF Delta
<1>9. CASE Final
  <2>1. /\ place' = "work" /\ place = "work" /\ Phase = 9 /\ Phase' = 9
        /\ state'.completed = state.completed /\ UNCHANGED repo
    BY <1>9 DEF Final, ConvergeTypes, WorkflowStates, Phase, gitVars
  <2>2. CASE /\ plan' = BuildPlan(Snapshot(repo))
             /\ again' = (plan'.blocked = {} /\ Runnable(plan'))
             /\ state' = IF plan'.blocked = {} /\ ~Runnable(plan')
                         THEN [state EXCEPT !.failed = {}, !.blocked = {}] ELSE state
             /\ summary' = [Summary EXCEPT !.blocked = plan'.blocked,
                                        !.succeeded = IF plan'.blocked = {} THEN {Root} ELSE {}]
             /\ calm' = [calm EXCEPT !.look = TRUE]
    <3>1. PlanOfNow' /\ summary'.failed = {} /\ summary'.blocked = plan'.blocked
      BY <2>1, <2>2 DEF PlanOfNow, Summary
    <3>2. calm'.call = calm.call
      BY <1>0, <2>2
    <3>3. ~ again' => summary'.blocked # {} \/ state'.failed \cup state'.blocked = {}
      <4>1. CASE plan'.blocked # {}
        BY <3>1, <4>1
      <4>2. CASE plan'.blocked = {} /\ Runnable(plan')
        BY <2>2, <4>2
      <4>3. CASE plan'.blocked = {} /\ ~ Runnable(plan')
        BY <1>0, <2>2, <4>3 DEF WorkflowStates
      <4>4. QED
        BY <4>1, <4>2, <4>3
    <3>4. QED
      BY <2>1, <3>1, <3>2, <3>3 DEF CalmInv
  <2>3. CASE Fail
    BY <1>0, <2>3 DEF Fail, CalmInv
  <2>4. QED
    BY <1>9, <2>2, <2>3 DEF Final
<1>10. CASE Record
  <2>1. /\ UNCHANGED <<summary, again, calm, repo, plan>>
        /\ place = "work" /\ place' = "decide" /\ Looked
        /\ Phase' = Phase /\ state'.completed = state.completed \cup {Phase}
        /\ state'.failed = (state.failed \ summary.succeeded) \cup summary.failed
        /\ state'.blocked = (state.blocked \ summary.succeeded) \cup summary.blocked
    BY <1>10 DEF Record, phaseVars, gitVars, ConvergeTypes, WorkflowStates, Phase
  <2>2. PlanOfNow' = PlanOfNow
    BY <2>1, SameRepos
  <2>3. calm.call /\ 9 \in state'.completed => Phase = 9
    BY <2>1 DEF CalmInv
  <2>4. Phase = 9 => summary # Summary
    BY <2>1 DEF Looked
  <2>5. calm.call /\ 9 \in state'.completed /\ ~ again =>
            summary.blocked # {} \/ state'.failed \cup state'.blocked = {}
    BY <2>1, <2>3, <2>4 DEF CalmInv
  <2>6. QED
    BY <2>1, <2>2, <2>3, <2>5 DEF CalmInv
<1>11. CASE Decide
  <2>1. UNCHANGED <<again, calm, repo, plan, summary, pass>> /\ place = "decide"
    BY <1>11 DEF Decide, gitVars, phaseVars
  <2>2. PlanOfNow' = PlanOfNow /\ \A r \in Repos : Untouchable(r)' = Untouchable(r)
    BY <2>1, SameRepos
  <2>3. CASE Trouble # {} /\ place' = "idle"
    <3>1. calm.call => summary.blocked # {}
      BY <2>1, <2>3 DEF CalmInv, Trouble
    <3>2. calm.call => PlanOfNow /\ plan.blocked # {}
      BY <2>1, <3>1 DEF CalmInv
    <3>3. calm.call => \E r \in Repos : Untouchable(r)
      BY <3>2, BlockedByUntouchable DEF PlanOfNow, ConvergeTypes
    <3>4. QED
      BY <2>1, <2>2, <2>3, <3>3 DEF CalmInv
  <2>4. CASE (Trouble = {} \/ CanContinue) /\ place' = "phase" /\ UNCHANGED <<exit, state, file>>
    <3>1. Phase' = Phase
      BY <2>4 DEF Phase
    <3>2. Phase = 9 => summary.blocked = {}
      BY <2>4 DEF Trouble, CanContinue
    <3>3. QED
      BY <2>1, <2>2, <2>4, <3>1, <3>2 DEF CalmInv
  <2>5. QED
    BY <1>11, <2>3, <2>4 DEF Decide, End
<1>12. CASE AnotherPass
  <2>1. /\ UNCHANGED <<plan, repo, calm>> /\ place = "phase" /\ again /\ pass' = pass + 1
    BY <1>12 DEF AnotherPass, PhasesDone, gitVars
  <2>2. CASE pass' >= kMaxConvergePasses /\ place' = "idle" /\ exit' = 1
    BY <2>2 DEF CalmInv, OutOfPasses
  <2>3. CASE state' = ResetState(snapshot, plan) /\ UNCHANGED <<place, exit>>
    <3>1. state'.completed = {} /\ place' = "phase"
      BY <2>1, <2>3 DEF ResetState
    <3>2. PlanOfNow' = PlanOfNow
      BY <2>1, SameRepos
    <3>3. QED
      BY <2>1, <3>1, <3>2 DEF CalmInv
  <2>4. QED
    BY <1>12, <2>2, <2>3 DEF AnotherPass, End
<1>13. CASE Finish
  <2>1. /\ UNCHANGED calm /\ place' = "idle" /\ place = "phase" /\ ~ again /\ 9 \in state.completed
        /\ exit' = IF state.failed \cup state.blocked = {} THEN 0 ELSE 1
    BY <1>13 DEF Finish, End, PhasesDone, ConvergeTypes, WorkflowStates
  <2>2. QED
    BY <2>1 DEF CalmInv
<1>14. CASE Edit \/ PushElsewhere \/ Fetch
  <2>1. ~ calm'.call
    BY <1>14 DEF Edit, PushElsewhere, Fetch, Disturb
  <2>2. QED
    BY <2>1 DEF CalmInv
<1>15. CASE Kill
  BY <1>15 DEF Kill, CalmInv
<1>16. CASE UNCHANGED convergeVars
  <2>1. UNCHANGED <<place, exit, summary, state, again, calm, repo, plan, pass>>
    BY <1>16 DEF convergeVars
  <2>2. /\ PlanOfNow' = PlanOfNow /\ Phase' = Phase /\ OutOfPasses' = OutOfPasses
        /\ \A r \in Repos : Untouchable(r)' = Untouchable(r)
    BY <2>1, SameRepos DEF Phase, OutOfPasses
  <2>3. QED
    BY <2>1, <2>2 DEF CalmInv
<1>17. QED
  BY <1>1, <1>2, <1>3, <1>4, <1>5, <1>6, <1>7, <1>8, <1>9, <1>10, <1>11, <1>12, <1>13,
     <1>14, <1>15, <1>16 DEF ConvergeNext, Step

\* Exit code 0 says that all that is not passed over is committed, synced and pushed, as
\* of the last look; exit code 1, of a call that nothing got in the way of, that there is
\* a repository converge must not touch, or that the passes were used up.
THEOREM ConvergeExitIsTruthful == ConvergeSpec => [](ExitIsTruthful \/ OutOfPasses)
<1>1. ConvergeInit => PhaseInv /\ LookInv /\ CalmInv
  BY InitPublish DEF ConvergeInit, LookInv, CalmInv
<1>2. PhaseInv /\ LookInv /\ CalmInv /\ ConvergeTypes /\ [ConvergeNext]_convergeVars
        => (PhaseInv /\ LookInv /\ CalmInv)'
  BY NextPhases, NextLook, NextCalm
<1>3. LookInv /\ CalmInv => ExitIsTruthful \/ OutOfPasses
  BY DEF LookInv, CalmInv, ExitIsTruthful, AllDone, OutOfPasses
<1>4. ConvergeSpec => []ConvergeTypes
  BY ConvergePublishes, PTL
<1>5. QED
  BY <1>1, <1>2, <1>3, <1>4, PTL DEF ConvergeSpec
=============================================================================
