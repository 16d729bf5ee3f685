------------------------ MODULE SelectedCommitProofs ------------------------
(***************************************************************************)
(* Proofs about both routes of kog commit --exact-path, OverlapCheckpoint  *)
(* and ExactPathCommit, for every checkout, selection and number of        *)
(* commits and edits by others.  They share the lemmas about the checkout; *)
(* the invariants are of each route.                                       *)
(***************************************************************************)
EXTENDS OverlapCheckpoint, ExactPathCommit, TLAPS

-----------------------------------------------------------------------------
(* git merge-file *)

\* A merge of versions that exist is a version that exists.
LEMMA MergeVersion ==
    ASSUME NEW a, NEW b, NEW c
    PROVE  Merge(a, b, c) \subseteq Hunk /\ Merge(a, b, c) \in Version
BY DEF Merge, Version

\* A version that is not Absent has hunks only.
LEMMA Present ==
    ASSUME NEW v \in Version, v # Absent
    PROVE  v \subseteq Hunk
BY DEF Version

\* A separable change: the caller's version differs from HEAD exactly in what
\* the caller changed.
LEMMA OwnChanges ==
    ASSUME NEW head \in SUBSET Hunk, NEW working \in SUBSET Hunk,
           NEW final_ \in SUBSET Hunk, Separable(head, working, final_)
    PROVE  Changed(OwnVersion(head, working, final_), head) = Changed(final_, working)
<1> DEFINE o == OwnVersion(head, working, final_)
<1>1. \A h \in Hunk : h \in o <=> IF (h \in final_) # (h \in working) THEN h \in final_
                                                                  ELSE h \in head
  BY DEF OwnVersion, Merge
<1>2. \A h \in Hunk : h \in final_ <=> IF (h \in working) # (h \in head) THEN h \in working
                                                                     ELSE h \in o
  BY DEF Separable, Merge
<1>3. o \subseteq Hunk
  BY DEF OwnVersion, Merge
<1> HIDE DEF o
<1>4. \A h \in Hunk : h \in Changed(o, head) <=> h \in Changed(final_, working)
  BY <1>1, <1>2 DEF Changed
<1>5. Changed(o, head) \subseteq Hunk /\ Changed(final_, working) \subseteq Hunk
  BY <1>3 DEF Changed
<1>6. Changed(o, head) = Changed(final_, working)
  BY <1>4, <1>5
<1> QED BY <1>6 DEF o

\* A rebased staged version differs from the new HEAD in what was staged and is
\* not committed.
LEMMA StagedChanges ==
    ASSUME NEW head \in SUBSET Hunk, NEW staged \in SUBSET Hunk, NEW o \in SUBSET Hunk
    PROVE  Changed(Merge(staged, head, o), o) = Changed(staged, head) \ Changed(o, head)
<1> DEFINE r == Merge(staged, head, o)
<1>1. \A h \in Hunk : h \in r <=> IF (h \in staged) # (h \in head) THEN h \in staged
                                                               ELSE h \in o
  BY DEF Merge
<1>2. r \subseteq Hunk
  BY DEF Merge
<1> HIDE DEF r
<1>3. \A h \in Hunk : h \in Changed(r, o) <=> h \in Changed(staged, head) \ Changed(o, head)
  BY <1>1 DEF Changed
<1>4. Changed(r, o) \subseteq Hunk /\ Changed(staged, head) \subseteq Hunk
  BY <1>2 DEF Changed
<1>5. Changed(r, o) = Changed(staged, head) \ Changed(o, head)
  BY <1>3, <1>4
<1> QED BY <1>5 DEF r

-----------------------------------------------------------------------------
(* The branch *)

\* The log is never empty, and its last tree is a tree.
LEMMA LogFacts ==
    ASSUME CheckoutTypeOK
    PROVE  /\ Len(log) \in Nat \ {0} /\ DOMAIN log = 1..Len(log)
           /\ \A n \in 1..Len(log) : log[n] \in Commits /\ log[n].tree \in Tree
           /\ HeadTree \in Tree
<1>1. log \in Seq(Commits) /\ log # <<>>
  BY DEF CheckoutTypeOK
<1>2. /\ Len(log) \in Nat \ {0} /\ DOMAIN log = 1..Len(log)
      /\ \A n \in 1..Len(log) : log[n] \in Commits
  BY <1>1
<1>3. \A n \in 1..Len(log) : log[n].tree \in Tree
  BY <1>2 DEF Commits
<1>4. HeadTree \in Tree
  BY <1>2, <1>3 DEF HeadTree
<1> QED BY <1>2, <1>3, <1>4

\* Appending a commit keeps the ones before it.
LEMMA AppendLog ==
    ASSUME CheckoutTypeOK, NEW t \in Tree, NEW by \in {"kog", "git"},
           log' = Append(log, [tree |-> t, by |-> by])
    PROVE  /\ Len(log') = Len(log) + 1
           /\ \A n \in 1..Len(log) : log'[n] = log[n]
           /\ log'[Len(log) + 1] = [tree |-> t, by |-> by]
           /\ HeadTree' = t
           /\ log' \in Seq(Commits) /\ log' # <<>>
           /\ KogCommits' = KogCommits \cup (IF by = "kog" THEN {Len(log) + 1} ELSE {})
           /\ KogCommits \subseteq 1..Len(log)
<1> DEFINE c == [tree |-> t, by |-> by]
<1>1. log \in Seq(Commits) /\ log # <<>> /\ c \in Commits
  BY DEF CheckoutTypeOK, Commits
<1>2. c.by = by /\ c.tree = t
  OBVIOUS
<1> HIDE DEF c
<1>3. /\ Len(log) \in Nat \ {0} /\ Len(log') = Len(log) + 1
      /\ DOMAIN log = 1..Len(log) /\ DOMAIN log' = 1..(Len(log) + 1)
      /\ \A n \in 1..Len(log) : log'[n] = log[n]
      /\ log'[Len(log) + 1] = c
      /\ log' \in Seq(Commits) /\ log' # <<>>
  BY <1>1 DEF c
<1>4. KogCommits' = KogCommits \cup (IF by = "kog" THEN {Len(log) + 1} ELSE {})
  BY <1>2, <1>3 DEF KogCommits
<1>5. HeadTree' = t
  BY <1>2, <1>3 DEF HeadTree
<1>6. KogCommits \subseteq 1..Len(log)
  BY <1>3 DEF KogCommits
<1> QED BY <1>3, <1>4, <1>5, <1>6 DEF c

\* A step of somebody else keeps the shape of the checkout; it changes the index
\* and the branch only where index.lock is not kog's, except for the commit that
\* was begun before kog took the lock.
LEMMA OthersStep ==
    ASSUME CheckoutTypeOK, Others \/ LateCommit \/ (RemoveLock /\ pc = "done")
    PROVE  /\ CheckoutTypeOK'
           /\ \/ log' = log
              \/ log' = Append(log, [tree |-> index, by |-> "git"]) /\ index \in Tree
           /\ indexLock = "kog" => /\ index' = index
                                   /\ log' = log \/ Len(log) = base
                                   /\ indexLock' = "kog" \/ pc = "done"
<1> USE DEF CheckoutTypeOK
<1>1. CASE \E f \in Path, v \in Version : Edit(f, v)
  BY <1>1, ForeignAssumption DEF Edit, Tree
<1>2. CASE GitBegin \/ GitEnd
  BY <1>2 DEF GitBegin, GitEnd
<1>3. CASE \E f \in Path : GitAdd(f)
  BY <1>3 DEF GitAdd, Tree
<1>4. CASE GitCommit
  BY <1>4, ForeignAssumption DEF GitCommit, Commits
<1>5. CASE LateCommit
  BY <1>5, ForeignAssumption DEF LateCommit, Commits
<1>6. CASE RemoveLock /\ pc = "done"
  BY <1>6 DEF RemoveLock
<1> QED BY <1>1, <1>2, <1>3, <1>4, <1>5, <1>6 DEF Others

-----------------------------------------------------------------------------
(* Where kog is *)

\* Every place is in one phase.
LEMMA Phases ==
    /\ Capturing \cap (Preparing \cup Archived \cup After \cup {"saved", "done"}) = {}
    /\ Preparing \cap (Archived \cup After \cup {"saved", "done"}) = {}
    /\ Archived \cap (After \cup {"saved", "done"}) = {}
    /\ After \cap {"saved", "done"} = {}
    /\ Locked = {"seal", "drift6", "drift7", "commit"} \cup After
BY DEF Capturing, Preparing, Archived, After, Locked

LEMMA InitIInv == Init => IInv
<1> SUFFICES ASSUME Init PROVE IInv
  OBVIOUS
<1>1. PICK s \in Start : /\ log = <<[tree |-> s.tree, by |-> "start"]>>
                         /\ index = s.index /\ work = s.work
                         /\ indexLock = "free" /\ foreign = 0 /\ edits = 0
  BY DEF Init, CheckoutInit
<1>2. s.tree \in Tree /\ s.index \in Tree /\ s.work \in Tree
  BY StartAssumption
<1>3. [tree |-> s.tree, by |-> "start"] \in Commits
  BY <1>2 DEF Commits
<1>4. log \in Seq(Commits) /\ log # <<>> /\ Len(log) = 1
  BY <1>1, <1>3
<1>5. CheckoutTypeOK
  BY <1>1, <1>2, <1>4, ForeignAssumption DEF CheckoutTypeOK
<1>6. KogCommits = {}
  BY <1>1 DEF KogCommits
<1>7. Nothing \in Selections
  BY DEF Nothing, Selections, Version
<1>8. NoCapture \in Captures /\ NoManifest.paths = NoCapture /\ NoManifest.base = 0
  BY <1>7 DEF NoCapture, Captures, NoManifest
<1>9. TypeOK
  <2>1. base \in 0..Len(log) /\ manifest.base \in 0..Len(log) /\ recoveryRef \in 0..Len(log)
    <3>1. Len(log) = 1 /\ base = 0 /\ manifest.base = 0 /\ recoveryRef = 0
      BY <1>4, <1>8 DEF Init
    <3> QED BY <3>1
  <2> QED BY <1>1, <1>2, <1>5, <1>7, <1>8, <2>1 DEF Init, TypeOK
<1>10. Kept /\ OwnOnly /\ ArchivedFirst /\ RecoveryHonest
  BY <1>6, <1>8 DEF Init, Kept, OwnOnly, ArchivedFirst, RecoveryHonest
<1>11. Reached("begin")
  BY DEF Init, Reached, Placed, Looked, Readied, Committed,
         Places, Capturing, Preparing, Archived, After, Locked
<1> QED BY <1>9, <1>10, <1>11 DEF Init, IInv

\* Before the manifest is saved there is no commit of kog's.
LEMMA NotCaptured == Kept /\ manifest = NoManifest => KogCommits = {}
<1>1. NoManifest.base = 0
  BY DEF NoManifest
<1> QED BY <1>1 DEF Kept

\* Nothing that is said of a place is lost where nothing changes.
LEMMA SameReached ==
    ASSUME NEW q, Reached(q),
           UNCHANGED <<log, index, indexLock, result, base, before, captured, pinned, manifest,
                       checkpointRef, ownIndex, stageIndex, HeadTree, Sealed, Reconciled, KogCommits>>,
           Prepared => Prepared'
    PROVE  Reached(q)'
<1>1. Placed(q)' /\ Looked(q)'
  BY DEF Reached, Placed, Looked
<1>2. Readied(q)'
  BY DEF Reached, Readied
<1>3. Committed(q)'
  BY DEF Reached, Committed
<1> QED BY <1>1, <1>2, <1>3 DEF Reached

\* A step that reaches the place q with the data as they are.
LEMMA GotoIInv ==
    ASSUME IInv, NEW q, pc' = q, Reached(q),
           UNCHANGED <<checkout, result, base, before, captureVars, commitVars>>
    PROVE  IInv'
<1> USE DEF checkout, captureVars, commitVars
<1>1. TypeOK'
  BY DEF IInv, TypeOK, CheckoutTypeOK
<1>2. /\ KogCommits' = KogCommits /\ HeadTree' = HeadTree /\ Sealed' = Sealed /\ Reconciled' = Reconciled
      /\ Prepared => Prepared'
  BY DEF KogCommits, HeadTree, Sealed, Reconciled, Prepared
<1>3. Kept'
  BY <1>2 DEF IInv, Kept
<1>4. OwnOnly' /\ ArchivedFirst' /\ RecoveryHonest'
  BY <1>2 DEF IInv, OwnOnly, ArchivedFirst, RecoveryHonest
<1>5. Reached(q)'
  BY <1>2, SameReached
<1> QED BY <1>1, <1>3, <1>4, <1>5 DEF IInv

\* A step that ends the command, or kills it, with the branch as it is.
LEMMA EndIInv ==
    ASSUME IInv, TypeOK', pc' = "done", UNCHANGED <<log, captureVars, checkpointRef>>,
           OwnOnly', RecoveryHonest'
    PROVE  IInv'
<1> USE DEF captureVars
<1>1. KogCommits' = KogCommits
  BY DEF KogCommits
<1>2. Kept'
  BY <1>1 DEF IInv, Kept
<1>3. ArchivedFirst'
  BY <1>1 DEF IInv, ArchivedFirst
<1>4. Reached(pc)'
  BY DEF Reached, Placed, Looked, Readied, Committed,
         Places, Capturing, Preparing, Archived, After, Locked
<1> QED BY <1>2, <1>3, <1>4 DEF IInv

\* A step that stops with such a blocker before there is a commit.
LEMMA BlockedIInv ==
    ASSUME IInv, TypeOK', pc \in Capturing \cup Preparing \cup Archived,
           pc' = "done", result' \in Blockers \cup {"git_index_lock", "git_commit_failed"},
           UNCHANGED <<log, captureVars, checkpointRef, recoveryRef>>
    PROVE  IInv'
<1>1. KogCommits = {} /\ KogCommits' = KogCommits
  <2>1. KogCommits' = KogCommits
    BY DEF KogCommits
  <2>2. pc \in Capturing => KogCommits = {}
    BY NotCaptured DEF IInv, Reached, Placed
  <2>3. pc \in Preparing \cup Archived => KogCommits = {}
    BY DEF IInv, Reached, Committed
  <2> QED BY <2>1, <2>2, <2>3
<1>2. OwnOnly' /\ RecoveryHonest'
  BY <1>1 DEF IInv, OwnOnly, RecoveryHonest, Blockers
<1> QED BY <1>2, EndIInv

\* The type of a step that leaves the captured versions and the trees alone.
LEMMA FrameTypeOK ==
    ASSUME TypeOK, log' = log, CheckoutTypeOK',
           base' \in 0..Len(log), before' \in Tree, ownIndex' \in Tree, stageIndex' \in Tree,
           captured' \in Captures, pinned' \in Captures,
           manifest'.paths \in Captures, manifest'.base \in 0..Len(log),
           checkpointRef' \in Selections, final' \in Selections, own' \in Selections,
           restaged' \in Selections, recoveryRef' \in 0..Len(log), leftover' \in BOOLEAN
    PROVE  TypeOK'
BY DEF TypeOK

\* What the type invariant says, one by one.
LEMMA Types ==
    ASSUME TypeOK
    PROVE  /\ CheckoutTypeOK /\ before \in Tree /\ ownIndex \in Tree /\ stageIndex \in Tree
           /\ captured \in Captures /\ pinned \in Captures
           /\ manifest.paths \in Captures /\ manifest.base \in 0..Len(log)
           /\ checkpointRef \in Selections /\ final \in Selections /\ own \in Selections
           /\ restaged \in Selections /\ base \in 0..Len(log) /\ recoveryRef \in 0..Len(log)
           /\ leftover \in BOOLEAN
BY DEF TypeOK

\* A selection of a tree.
LEMMA SelectionType ==
    ASSUME NEW t \in Tree
    PROVE  Selection(t) \in Selections
BY SelectedAssumption DEF Selection, Selections, Tree

\* Stopping leaves index.lock in a known state.
LEMMA StopLock ==
    ASSUME CheckoutTypeOK, UNCHANGED <<log, index, work, foreign, edits>>,
           indexLock' \in {"free", "kog", indexLock}
    PROVE  CheckoutTypeOK'
BY DEF CheckoutTypeOK

\* A check, and the step of its place: it stops with the blocker, or goes on
\* with everything as it is.
LEMMA CheckIInv ==
    ASSUME IInv, NEW from, NEW ok, NEW to, NEW blocker, Check(from, ok, to, blocker),
           from \in Capturing \cup Preparing \cup Archived,
           blocker \in Blockers \cup {"git_index_lock"},
           ok => Reached(to)
    PROVE  IInv'
<1>1. TypeOK /\ CheckoutTypeOK /\ pc = from
  BY Types DEF IInv, Check
<1>2. CASE ok /\ Goto(to) /\ UNCHANGED indexLock
  BY <1>2, GotoIInv DEF Check, Goto, checkout, captureVars, commitVars
<1>3. CASE Stop(blocker)
  <2>1. CheckoutTypeOK'
    BY <1>1, <1>3, StopLock DEF Check, Stop
  <2>2. TypeOK'
    BY <1>1, <2>1, Types, FrameTypeOK DEF Check, captureVars, commitVars
  <2> QED BY <1>1, <1>3, <2>2, BlockedIInv DEF Check, Stop, captureVars, commitVars
<1> QED BY <1>2, <1>3 DEF Check

-----------------------------------------------------------------------------
(* Others *)

\* What others do leaves everything that kog relies on: where kog has
\* index.lock the index stays, and once its commit is made the branch stays.
LEMMA OthersIInv ==
    ASSUME IInv, Others \/ LateCommit \/ RemoveLock,
           UNCHANGED <<pc, result, base, before, captureVars, commitVars>>
    PROVE  IInv'
<1> USE DEF captureVars, commitVars
<1>1. TypeOK /\ CheckoutTypeOK /\ (RemoveLock => pc = "done")
  BY Types DEF IInv, RemoveLock
<1>2. /\ CheckoutTypeOK'
      /\ \/ log' = log
         \/ log' = Append(log, [tree |-> index, by |-> "git"]) /\ index \in Tree
      /\ indexLock = "kog" => /\ index' = index
                              /\ log' = log \/ Len(log) = base
                              /\ indexLock' = "kog" \/ pc = "done"
  BY <1>1, OthersStep
<1>3. /\ Len(log) \in Nat \ {0} /\ Len(log') \in {Len(log), Len(log) + 1}
      /\ \A n \in 1..Len(log) : log'[n] = log[n]
      /\ KogCommits' = KogCommits /\ KogCommits \subseteq 1..Len(log)
      /\ Len(log') = Len(log) => log' = log
  <2>1. CASE log' = log
    BY <1>1, <2>1, LogFacts DEF KogCommits
  <2>2. CASE log' = Append(log, [tree |-> index, by |-> "git"]) /\ index \in Tree
    <3>1. /\ Len(log') = Len(log) + 1
          /\ \A n \in 1..Len(log) : log'[n] = log[n]
          /\ KogCommits' = KogCommits /\ KogCommits \subseteq 1..Len(log)
      BY <1>1, <2>2, AppendLog
    <3>2. Len(log) \in Nat \ {0}
      BY <1>1, LogFacts
    <3> HIDE DEF captureVars, commitVars
    <3>3. Len(log') # Len(log)
      BY <3>1, <3>2
    <3> QED BY <3>1, <3>2, <3>3
  <2> QED BY <1>2, <2>1, <2>2
<1>4. base \in 0..Len(log) /\ manifest.base \in 0..Len(log) /\ recoveryRef \in 0..Len(log)
  BY <1>1, Types
<1>5. TypeOK'
  <2>1. base \in 0..Len(log') /\ manifest.base \in 0..Len(log') /\ recoveryRef \in 0..Len(log')
    BY <1>3, <1>4
  <2> QED BY <1>1, <1>2, <2>1 DEF TypeOK
<1>6. Kept'
  <2>1. manifest.base > 0 => log'[manifest.base] = log[manifest.base]
    BY <1>3, <1>4
  <2> QED BY <1>3, <2>1 DEF IInv, Kept, NoManifest
<1>7. OwnOnly'
  <2> SUFFICES ASSUME result = "committed", NEW n \in KogCommits
               PROVE  /\ n = manifest.base + 1
                      /\ \A f \in Selected :
                             Changed(log'[n].tree[f], manifest.paths.head[f])
                                 = Changed(final[f], manifest.paths.working[f])
                      /\ Unrelated(log'[n].tree) = Unrelated(log'[n - 1].tree)
    BY <1>3 DEF OwnOnly
  <2>1. n = manifest.base + 1 /\ manifest.base > 0 /\ n \in 1..Len(log)
    BY <1>3 DEF IInv, OwnOnly, Kept
  <2>2. log'[n] = log[n] /\ log'[n - 1] = log[n - 1]
    BY <1>3, <1>4, <2>1
  <2> QED BY <2>1, <2>2 DEF IInv, OwnOnly
<1>8. ArchivedFirst' /\ RecoveryHonest'
  BY <1>3 DEF IInv, ArchivedFirst, RecoveryHonest, NoManifest, Blockers
<1>9. Reached(pc)'
  <2>1. base > 0 => log'[base] = log[base] /\ Sealed' = Sealed
    BY <1>3, <1>4 DEF Sealed
  <2>2. Reconciled' = Reconciled /\ (Prepared => Prepared')
    BY DEF Reconciled, Prepared
  <2>3. pc \in Locked => indexLock = "kog" /\ indexLock' = "kog" /\ index' = index
    BY <1>2 DEF IInv, Reached, Placed, Locked
  <2>4. pc \in After => log' = log
    BY <1>2, <1>3, <2>3, Phases DEF IInv, Reached, Committed
  <2>5. pc \notin {"begin", "saved", "done"} => base > 0
    BY DEF IInv, Reached, Placed
  <2>6. Placed(pc)'
    BY <2>3 DEF IInv, Reached, Placed
  <2>7. Looked(pc)'
    BY <1>3, <1>4, <2>1, <2>5 DEF IInv, Reached, Looked
  <2>8. Readied(pc)'
    BY <2>2 DEF IInv, Reached, Readied
  <2>9. Committed(pc)'
    <3>1. pc \in Preparing \cup Archived => KogCommits' = {}
      BY <1>3 DEF IInv, Reached, Committed
    <3>2. CASE pc = "drift6" /\ Len(log') = base
      <4>1. Len(log) = base
        BY <1>3, <1>4, <3>2
      <4> QED BY <1>3, <2>1, <2>5, <3>1, <3>2, <4>1
              DEF IInv, Reached, Committed, After
    <3>3. CASE pc \in {"drift7", "commit"}
      BY <1>3, <2>1, <2>5, <3>1, <3>3 DEF IInv, Reached, Committed, After
    <3>4. CASE pc \in After
      <4>1. base > 0 /\ pc \in Locked
        BY <2>5, <3>4 DEF After, Locked
      <4>2. HeadTree' = HeadTree /\ KogCommits' = KogCommits /\ Sealed' = Sealed /\ index' = index
        BY <1>3, <2>1, <2>3, <2>4, <3>4, <4>1 DEF HeadTree
      <4>3. pc \notin {"drift6", "drift7", "commit"} \cup Preparing \cup Archived
        BY <3>4 DEF Preparing, Archived, After
      <4>4. Committed(pc)
        BY DEF IInv, Reached
      <4> QED BY <2>4, <3>4, <4>2, <4>3, <4>4 DEF Committed
    <3>5. CASE pc \notin {"drift6", "drift7", "commit"} \cup After
      BY <3>1, <3>5 DEF Committed, After
    <3>6. CASE pc = "drift6" /\ Len(log') # base
      BY <3>1, <3>6 DEF Committed, After
    <3> QED BY <3>2, <3>3, <3>4, <3>5, <3>6
  <2> QED BY <2>6, <2>7, <2>8, <2>9 DEF Reached
<1> QED BY <1>5, <1>6, <1>7, <1>8, <1>9 DEF IInv

-----------------------------------------------------------------------------
(* Steps of kog that leave the branch alone *)

\* A step that goes on.
LEMMA MoveIInv ==
    ASSUME IInv, TypeOK', UNCHANGED <<log, manifest, recoveryRef>>, result' = "",
           pinned' = pinned \/ manifest = NoManifest,
           checkpointRef' = checkpointRef \/ KogCommits = {},
           Reached(pc)'
    PROVE  IInv'
<1>1. KogCommits' = KogCommits
  BY DEF KogCommits
<1>2. Kept'
  BY <1>1 DEF IInv, Kept, NoManifest
<1>3. manifest = NoManifest => KogCommits = {}
  BY NotCaptured DEF IInv
<1>4. ArchivedFirst'
  BY <1>1, <1>3 DEF IInv, ArchivedFirst, NoManifest
<1>5. OwnOnly' /\ RecoveryHonest'
  BY <1>1 DEF IInv, OwnOnly, RecoveryHonest, Blockers
<1> QED BY <1>2, <1>4, <1>5 DEF IInv

\* A step that ends the command and says nothing of a commit.
LEMMA SilentIInv ==
    ASSUME IInv, TypeOK', pc' = "done",
           result' \notin Blockers \cup {"committed", "recovery_required"},
           UNCHANGED <<log, captureVars, checkpointRef, recoveryRef>>
    PROVE  IInv'
<1>1. KogCommits' = KogCommits
  BY DEF KogCommits
<1>2. OwnOnly' /\ RecoveryHonest'
  BY <1>1 DEF IInv, OwnOnly, RecoveryHonest
<1> QED BY <1>2, EndIInv

\* In the capture nothing is said of a commit.
LEMMA InCapture ==
    ASSUME NEW q \in Capturing
    PROVE  /\ q \in Places /\ q \notin Locked /\ q \notin {"saved", "done"}
           /\ Readied(q) /\ Committed(q) /\ Readied(q)' /\ Committed(q)'
<1>1. /\ q \in Places /\ q \notin Locked /\ q \notin {"saved", "done"}
      /\ q \notin Preparing \cup Archived \cup After
      /\ q \notin {"drift1", "drift2", "archive", "drift5", "lock", "drift6", "drift7",
                   "commit", "drift9", "drift10", "reconcile"}
  BY DEF Capturing, Preparing, Archived, After, Locked, Places
<1> QED BY <1>1 DEF Readied, Committed

\* A step of the capture that goes on.
LEMMA CaptureMove ==
    ASSUME IInv, TypeOK', pc \in Capturing, NEW q \in Capturing, pc' = q,
           UNCHANGED <<log, manifest, recoveryRef, checkpointRef, result>>,
           q # "begin" => base' > 0, Looked(q)'
    PROVE  IInv'
<1>1. manifest = NoManifest /\ result = ""
  BY InCapture DEF IInv, Reached, Placed
<1>2. Placed(q)'
  BY <1>1, InCapture DEF Placed, NoManifest
<1>3. Reached(q)'
  BY <1>2, InCapture DEF Reached
<1> QED BY <1>1, <1>3, MoveIInv

\* Reading the checkout and saving what was read.
LEMMA CaptureIInv ==
    ASSUME IInv,
           \/ CaptureBegin \/ CaptureGit \/ CaptureWork \/ CaptureRecheck \/ Pin
           \/ PinRecheck \/ SaveManifest
    PROVE  IInv'
<1> USE DEF Goto, checkout, captureVars, commitVars
<1>0. /\ TypeOK /\ CheckoutTypeOK /\ Len(log) \in Nat \ {0} /\ HeadTree \in Tree
      /\ Kept /\ Placed(pc) /\ Looked(pc)
  BY Types, LogFacts DEF IInv, Reached
<1>0a. pc \notin {"begin", "saved", "done"} => base > 0
  BY <1>0 DEF Placed
<1>0b. {"begin", "read", "readwork", "recheck", "store", "pin", "recheck2", "recheck3",
        "save"} = Capturing
  BY DEF Capturing
<1>1. CASE CaptureBegin
  <2>0. pc \in Capturing
    BY <1>0b, <1>1 DEF CaptureBegin
  <2>1. CASE Stop("git_index_lock") /\ UNCHANGED <<base, before>>
    <3>1. CheckoutTypeOK'
      BY <1>0, <1>1, <2>1, StopLock DEF CaptureBegin, Stop
    <3>2. TypeOK'
      BY <1>0, <1>1, <2>1, <3>1, Types, FrameTypeOK DEF CaptureBegin
    <3> QED BY <1>1, <2>0, <2>1, <3>2, BlockedIInv DEF CaptureBegin, Stop
  <2>2. CASE base' = Len(log) /\ before' = index /\ Goto("read") /\ UNCHANGED indexLock
    <3>1. CheckoutTypeOK'
      BY <1>0, <1>1, <2>2 DEF CaptureBegin, CheckoutTypeOK
    <3>2. base' \in 0..Len(log) /\ before' \in Tree
      BY <1>0, <2>2 DEF CheckoutTypeOK
    <3>3. TypeOK'
      BY <1>0, <1>1, <3>1, <3>2, Types, FrameTypeOK DEF CaptureBegin
    <3>4. Looked("read")'
      BY DEF Looked
    <3>5. "read" \in Capturing /\ base' > 0
      BY <1>0, <1>0b, <2>2
    <3> QED BY <1>1, <2>0, <2>2, <3>3, <3>4, <3>5, CaptureMove DEF CaptureBegin
  <2> QED BY <1>1, <2>1, <2>2 DEF CaptureBegin
<1>2. CASE CaptureGit
  <2>1. captured' \in Captures /\ captured'.head = Selection(HeadTree)
    <3>1. Selection(HeadTree) \in Selections /\ Selection(index) \in Selections
      BY <1>0, SelectionType DEF CheckoutTypeOK
    <3>2. Nothing \in Selections
      BY DEF Nothing, Selections, Version
    <3> QED BY <1>2, <3>1, <3>2 DEF CaptureGit, Captures
  <2>2. TypeOK'
    BY <1>0, <1>2, <2>1, Types, FrameTypeOK DEF CaptureGit, CheckoutTypeOK
  <2>3. Looked("readwork")'
    BY <1>2, <2>1 DEF CaptureGit, Looked, HeadTree
  <2>4. pc \in Capturing /\ "readwork" \in Capturing /\ base' > 0
    BY <1>0a, <1>0b, <1>2 DEF CaptureGit
  <2> QED BY <1>2, <2>2, <2>3, <2>4, CaptureMove DEF CaptureGit
<1>3. CASE CaptureWork
  <2>1. captured' \in Captures /\ captured'.head = captured.head
    <3>1. Selection(work) \in Selections /\ captured \in Captures
      BY <1>0, SelectionType, Types DEF CheckoutTypeOK
    <3> QED BY <1>3, <3>1 DEF CaptureWork, Captures
  <2>2. TypeOK'
    BY <1>0, <1>3, <2>1, Types, FrameTypeOK DEF CaptureWork, CheckoutTypeOK
  <2>3. Looked("recheck")'
    BY <1>0, <1>3, <2>1 DEF CaptureWork, Looked
  <2>4. pc \in Capturing /\ "recheck" \in Capturing /\ base' > 0
    BY <1>0a, <1>0b, <1>3 DEF CaptureWork
  <2> QED BY <1>3, <2>2, <2>3, <2>4, CaptureMove DEF CaptureWork
<1>4. CASE CaptureRecheck
  <2>1. ASSUME pc \in {"recheck", "store"} PROVE Settled \/ pc = "store" => Reached("store")
    BY <1>0, <1>0a, <1>0b, <2>1, InCapture DEF Settled, Reached, Placed, Looked
  <2>2. ASSUME pc = "store" PROVE Reached("pin")
    BY <1>0, <1>0a, <1>0b, <2>2, InCapture DEF Reached, Placed, Looked
  <2>3. "checkpoint_snapshot_drift" \in Blockers
    BY DEF Blockers
  <2>4. CASE Check("recheck", Settled, "store", "checkpoint_snapshot_drift")
    <3>1. pc = "recheck"
      BY <2>4 DEF Check
    <3> QED BY <1>0b, <2>1, <2>3, <2>4, <3>1, CheckIInv
  <2>5. CASE Check("store", Selection(work) = captured.working, "pin",
                   "checkpoint_snapshot_drift")
    <3>1. pc = "store"
      BY <2>5 DEF Check
    <3> QED BY <1>0b, <2>2, <2>3, <2>5, <3>1, CheckIInv
  <2> QED BY <1>4, <2>4, <2>5 DEF CaptureRecheck
<1>5. CASE Pin
  <2>0. pc \in Capturing /\ manifest = NoManifest /\ KogCommits = {} /\ result = ""
    BY <1>0, <1>0b, <1>5, InCapture, NotCaptured DEF Pin, Placed
  <2>1. captured \in Captures /\ pinned' \in Captures
    BY <1>0, <1>5, Types DEF Pin
  <2>2. CheckoutTypeOK'
    BY <1>0, <1>5, StopLock DEF Pin, Stop
  <2>3. TypeOK'
    BY <1>0, <1>5, <2>1, <2>2, Types, FrameTypeOK DEF Pin
  <2>4. CASE pinned' = captured /\ Goto("recheck2") /\ UNCHANGED indexLock
    <3>1. "recheck2" \in Capturing
      BY <1>0b
    <3>2. Placed("recheck2")'
      BY <1>0a, <1>5, <2>0, <2>4, <3>1, InCapture DEF Pin, Placed, NoManifest
    <3>3. Looked("recheck2")'
      BY <1>0, <1>5, <2>4 DEF Pin, Looked
    <3>4. Reached("recheck2")'
      BY <3>1, <3>2, <3>3, InCapture DEF Reached
    <3> QED BY <1>5, <2>0, <2>3, <2>4, <3>4, MoveIInv DEF Pin
  <2>5. CASE Stop("checkpoint_pin_failed")
    <3>1. pc' = "done" /\ result' \in Blockers /\ KogCommits' = {}
      BY <1>5, <2>0, <2>5 DEF Stop, Blockers, KogCommits, Pin
    <3>2. OwnOnly' /\ RecoveryHonest'
      BY <1>5, <2>0, <2>5, <3>1 DEF Pin, Stop, OwnOnly, RecoveryHonest, IInv, Blockers
    <3>3. Kept' /\ ArchivedFirst'
      BY <1>5, <2>0, <3>1 DEF Pin, Kept, ArchivedFirst, NoManifest
    <3>4. Reached("done")'
      BY DEF Reached, Placed, Looked, Readied, Committed,
             Places, Capturing, Preparing, Archived, After, Locked
    <3> QED BY <2>3, <3>1, <3>2, <3>3, <3>4 DEF IInv
  <2> QED BY <1>5, <2>4, <2>5 DEF Pin
<1>6. CASE PinRecheck
  <2>1. ASSUME pc = "recheck2" PROVE Reached("recheck3")
    BY <1>0, <1>0a, <1>0b, <2>1, InCapture DEF Reached, Placed, Looked
  <2>2. ASSUME pc = "recheck3" PROVE Reached("save")
    BY <1>0, <1>0a, <1>0b, <2>2, InCapture DEF Reached, Placed, Looked
  <2>3. "checkpoint_snapshot_drift" \in Blockers
    BY DEF Blockers
  <2>4. CASE Check("recheck2", Settled, "recheck3", "checkpoint_snapshot_drift")
    <3>1. pc = "recheck2"
      BY <2>4 DEF Check
    <3> QED BY <1>0b, <2>1, <2>3, <2>4, <3>1, CheckIInv
  <2>5. CASE Check("recheck3", Selection(work) = captured.working, "save",
                   "checkpoint_snapshot_drift")
    <3>1. pc = "recheck3"
      BY <2>5 DEF Check
    <3> QED BY <1>0b, <2>2, <2>3, <2>5, <3>1, CheckIInv
  <2> QED BY <1>6, <2>4, <2>5 DEF PinRecheck
<1>7. CASE SaveManifest
  <2>0. /\ pc \in Capturing /\ manifest = NoManifest /\ KogCommits = {} /\ result = "" /\ base > 0
        /\ captured.head = Selection(log[base].tree) /\ pinned = captured
    BY <1>0, <1>0a, <1>0b, <1>7, InCapture, NotCaptured DEF SaveManifest, Placed, Looked
  <2>1. /\ manifest'.base = base /\ manifest'.paths = captured
        /\ UNCHANGED <<log, captured, pinned, base>> /\ pc' = "saved" /\ result' = ""
    BY <1>7, <2>0 DEF SaveManifest
  <2>2. manifest' # NoManifest
    <3>1. NoManifest.base = 0
      BY DEF NoManifest
    <3>2. base \in Nat
      BY <1>0, Types
    <3>3. base > 0
      BY <2>0
    <3>4. base # 0
      BY <3>2, <3>3
    <3> QED BY <2>1, <3>1, <3>4
  <2>3. CheckoutTypeOK'
    BY <1>0, <1>7 DEF SaveManifest, CheckoutTypeOK
  <2>4. TypeOK'
    BY <1>0, <1>7, <2>1, <2>3, Types, FrameTypeOK DEF SaveManifest
  <2>5. KogCommits' = {}
    BY <2>0, <2>1 DEF KogCommits
  <2>6. Kept' /\ ArchivedFirst' /\ OwnOnly' /\ RecoveryHonest'
    <3>1. recoveryRef' \in KogCommits' \cup {0}
      BY <1>7, <2>0, <2>5 DEF SaveManifest, IInv, RecoveryHonest
    <3>2. RecoveryHonest' /\ OwnOnly'
      BY <2>1, <3>1 DEF RecoveryHonest, OwnOnly, Blockers
    <3>3. Kept'
      BY <2>0, <2>1, <2>5 DEF Kept
    <3> QED BY <2>0, <2>1, <2>5, <3>2, <3>3 DEF ArchivedFirst
  <2>7. Reached("saved")'
    <3>1. Placed("saved")'
      BY <2>1, <2>2 DEF Placed, Places, Capturing, Locked, NoManifest
    <3>2. Looked("saved")' /\ Readied("saved")' /\ Committed("saved")'
      BY DEF Looked, Readied, Committed, Preparing, Archived, After, Locked
    <3> QED BY <3>1, <3>2 DEF Reached
  <2> QED BY <2>1, <2>4, <2>6, <2>7 DEF IInv
<1> QED BY <1>1, <1>2, <1>3, <1>4, <1>5, <1>6, <1>7

-----------------------------------------------------------------------------
(* From the manifest to the commit *)

\* What holds at a place between the manifest and the commit.
Ready(q) ==
    /\ result = "" /\ base > 0 /\ manifest # NoManifest /\ base = manifest.base /\ KogCommits = {}
    /\ q # "scope" => Selection(before) = manifest.paths.staged
    /\ q \notin {"scope", "prepare"} => Prepared
    /\ q \in Archived => checkpointRef = manifest.paths.working
    /\ q \in {"drift5", "lock", "seal", "drift6", "drift7", "commit"} =>
           stageIndex = Reconciled
    /\ q \in {"seal", "drift6", "drift7", "commit"} => indexLock = "kog"
    /\ q = "drift6" /\ Len(log) = base => ownIndex = Sealed
    /\ q \in {"drift7", "commit"} => ownIndex = Sealed

LEMMA ReadyPlace ==
    ASSUME NEW q \in Preparing \cup Archived
    PROVE  (Ready(q) <=> Reached(q)) /\ (Ready(q)' <=> Reached(q)')
<1>1. /\ q \in Places /\ q \notin Capturing \cup After \cup {"begin", "saved", "done"}
      /\ q \in Locked <=> q \in {"seal", "drift6", "drift7", "commit"}
      /\ q \notin {"readwork", "recheck", "store", "pin", "recheck2", "recheck3", "save"}
      /\ q \notin {"drift9", "drift10", "reconcile"}
      /\ q \in (Preparing \ {"scope"}) \cup Archived \cup After <=> q # "scope"
      /\ q \in {"drift1", "drift2", "archive"} \cup Archived \cup After
             <=> q \notin {"scope", "prepare"}
      /\ q \in {"drift5", "lock"} \cup Locked
             <=> q \in {"drift5", "lock", "seal", "drift6", "drift7", "commit"}
  BY DEF Capturing, Preparing, Archived, After, Locked, Places
<1>2. Looked(q) /\ Looked(q)'
  BY <1>1 DEF Looked
<1>3. Ready(q) <=> Reached(q)
  <2>1. Placed(q) <=> /\ result = "" /\ base > 0 /\ manifest # NoManifest
                      /\ q \in {"seal", "drift6", "drift7", "commit"} => indexLock = "kog"
    BY <1>1 DEF Placed
  <2>2. Readied(q) <=>
          /\ base = manifest.base
          /\ q # "scope" => Selection(before) = manifest.paths.staged
          /\ q \notin {"scope", "prepare"} => Prepared
          /\ q \in Archived => checkpointRef = manifest.paths.working
          /\ q \in {"drift5", "lock", "seal", "drift6", "drift7", "commit"} =>
                 stageIndex = Reconciled
    BY <1>1 DEF Readied
  <2>3. Committed(q) <=> /\ KogCommits = {}
                         /\ q = "drift6" /\ Len(log) = base => ownIndex = Sealed
                         /\ q \in {"drift7", "commit"} => ownIndex = Sealed
    BY <1>1 DEF Committed
  <2> QED BY <1>2, <2>1, <2>2, <2>3 DEF Ready, Reached
<1>4. Ready(q)' <=> Reached(q)'
  <2>1. Placed(q)' <=> (/\ result = "" /\ base > 0 /\ manifest # NoManifest
                        /\ q \in {"seal", "drift6", "drift7", "commit"} => indexLock = "kog")'
    BY <1>1 DEF Placed, NoManifest
  <2>2. Readied(q)' <=>
         (/\ base = manifest.base
          /\ q # "scope" => Selection(before) = manifest.paths.staged
          /\ q \notin {"scope", "prepare"} => Prepared
          /\ q \in Archived => checkpointRef = manifest.paths.working
          /\ q \in {"drift5", "lock", "seal", "drift6", "drift7", "commit"} =>
                 stageIndex = Reconciled)'
    BY <1>1 DEF Readied
  <2>3. Committed(q)' <=> (/\ KogCommits = {}
                           /\ q = "drift6" /\ Len(log) = base => ownIndex = Sealed
                           /\ q \in {"drift7", "commit"} => ownIndex = Sealed)'
    BY <1>1 DEF Committed
  <2> QED BY <1>2, <2>1, <2>2, <2>3 DEF Ready, Reached
<1> QED BY <1>3, <1>4

\* A step among those places that goes on.
LEMMA ReadyMove ==
    ASSUME IInv, TypeOK', NEW q \in Preparing \cup Archived, pc' = q,
           UNCHANGED <<log, manifest, pinned, recoveryRef>>,
           checkpointRef' = checkpointRef \/ KogCommits = {}, Ready(q)'
    PROVE  IInv'
BY ReadyPlace, MoveIInv DEF Ready

\* A check among them.
LEMMA ReadyCheck ==
    ASSUME IInv, NEW from \in Preparing \cup Archived, NEW to \in Preparing \cup Archived,
           NEW ok, NEW blocker \in Blockers \cup {"git_index_lock"},
           Check(from, ok, to, blocker), ok /\ Ready(from) => Ready(to)
    PROVE  IInv'
<1>1. Ready(from)
  BY ReadyPlace DEF IInv, Check
<1>2. ok => Reached(to)
  BY <1>1, ReadyPlace
<1> QED BY <1>2, CheckIInv

\* The versions PrepareOwnOverlap computes are versions.
LEMMA PreparedTypes ==
    ASSUME TypeOK, pc = "prepare", Prepare
    PROVE  final' \in Selections /\ own' \in Selections /\ restaged' \in Selections
<1> DEFINE m == manifest.paths
           f1 == Selection(work)
           o == [f \in Selected |-> OwnVersion(m.head[f], m.working[f], f1[f])]
           r == [f \in Selected |-> Merge(m.staged[f], m.head[f], o[f])]
<1>1. f1 \in Selections
  BY Types, SelectionType DEF CheckoutTypeOK
<1>2. o \in Selections /\ r \in Selections
  BY MergeVersion DEF OwnVersion, Selections
<1>3. final \in Selections /\ own \in Selections /\ restaged \in Selections
  BY Types
<1>4. \/ final' = f1 /\ own' = o /\ restaged' = r
      \/ UNCHANGED <<final, own, restaged>>
  BY DEF Prepare
<1> QED BY <1>1, <1>2, <1>3, <1>4

\* Looking at the checkpoint again, archiving the earlier work, and the indexes.
LEMMA PrepareIInv ==
    ASSUME IInv,
           \/ CommitBegin \/ CheckStaged \/ Prepare \/ Drift1 \/ Archive \/ Drift3
           \/ StageReconciled \/ Drift5 \/ TakeIndexLock \/ Seal \/ Drift6
    PROVE  IInv'
<1> USE DEF Goto, checkout, captureVars, commitVars
<1>0. /\ TypeOK /\ CheckoutTypeOK /\ Len(log) \in Nat \ {0} /\ HeadTree \in Tree
      /\ Kept /\ DOMAIN log = 1..Len(log)
  BY Types, LogFacts DEF IInv
<1>0a. pc \in Preparing \cup Archived => Ready(pc)
  BY ReadyPlace DEF IInv
<1>0b. /\ {"scope", "prepare", "drift1", "drift2", "archive"} = Preparing
       /\ {"drift3", "drift4", "stage", "drift5", "lock", "seal", "drift6", "drift7",
           "commit"} = Archived
  BY DEF Preparing, Archived
<1>0c. /\ {"checkpoint_snapshot_drift", "staged_contamination", "not_separable",
           "checkpoint_commit_failed", "staged_preservation_failed", "no_selected_changes"}
              \subseteq Blockers
       /\ "stale_base_head" \notin Blockers /\ "git_index_lock" \notin Blockers
  BY DEF Blockers
<1>1. CASE CommitBegin
  <2>1. CheckoutTypeOK'
    BY <1>0, <1>1, StopLock DEF CommitBegin, Stop
  <2>2. base' \in 0..Len(log) /\ before' \in Tree
    BY <1>0, <1>1, Types DEF CommitBegin, CheckoutTypeOK
  <2>3. TypeOK'
    BY <1>0, <1>1, <2>1, <2>2, Types, FrameTypeOK DEF CommitBegin
  <2>4. CASE pc' = "done"
    <3>1. result' \in {"git_index_lock", "stale_base_head"}
      BY <1>1, <2>4 DEF CommitBegin, Stop
    <3> QED BY <1>0c, <1>1, <2>3, <2>4, <3>1, SilentIInv DEF CommitBegin
  <2>5. CASE pc' # "done"
    <3>1. /\ base' = Len(log) /\ manifest.base = Len(log) /\ pc' = "scope"
          /\ result' = result /\ pc = "saved"
          /\ UNCHANGED <<log, captured, pinned, manifest, checkpointRef, recoveryRef>>
      BY <1>1, <2>5 DEF CommitBegin, Stop
    <3>2. result = "" /\ manifest # NoManifest
      BY <3>1 DEF IInv, Reached, Placed, Capturing
    <3>3. KogCommits = {}
      <4> SUFFICES ASSUME NEW n \in KogCommits PROVE FALSE
        OBVIOUS
      <4>1. n \in 1..Len(log) /\ n > manifest.base
        BY <1>0 DEF KogCommits, Kept
      <4> QED BY <1>0, <3>1, <4>1
    <3>4. Ready("scope")'
      <4>1. KogCommits' = {} /\ base' > 0
        BY <1>0, <3>1, <3>3 DEF KogCommits
      <4> QED BY <1>0b, <3>1, <3>2, <4>1 DEF Ready, NoManifest
    <3> QED BY <1>0b, <2>3, <3>1, <3>4, ReadyMove
  <2> QED BY <2>4, <2>5
<1>2. CASE CheckStaged
  <2>1. Selection(before) = manifest.paths.staged /\ Ready("scope") => Ready("prepare")
    BY <1>0b DEF Ready
  <2> QED BY <1>0b, <1>0c, <1>2, <2>1, ReadyCheck DEF CheckStaged
<1>3. CASE Prepare
  <2>1. pc = "prepare" /\ Ready("prepare")
    BY <1>0a, <1>0b, <1>3 DEF Prepare
  <2>2. CheckoutTypeOK'
    BY <1>0, <1>3, StopLock DEF Prepare, Stop
  <2>3. TypeOK'
    BY <1>0, <1>3, <2>1, <2>2, Types, FrameTypeOK, PreparedTypes DEF Prepare
  <2>4. CASE Stop("not_separable")
    BY <1>0b, <1>0c, <1>3, <2>1, <2>3, <2>4, BlockedIInv DEF Prepare, Stop
  <2>5. CASE ~Stop("not_separable")
    <3> DEFINE m == manifest.paths
               f1 == Selection(work)
               o == [f \in Selected |-> OwnVersion(m.head[f], m.working[f], f1[f])]
    <3>1. /\ \A f \in Selected :
                /\ Absent \notin {m.head[f], m.staged[f], m.working[f], f1[f]}
                /\ Separable(m.head[f], m.working[f], f1[f])
          /\ final' = f1 /\ own' = o
          /\ restaged' = [f \in Selected |-> Merge(m.staged[f], m.head[f], o[f])]
          /\ pc' = "drift1"
          /\ UNCHANGED <<log, base, before, captured, pinned, manifest, checkpointRef,
                         recoveryRef, result>>
      BY <1>3, <2>5 DEF Prepare
    <3>2. Prepared'
      BY <3>1 DEF Prepared
    <3>3. Ready("drift1")'
      <4>1. KogCommits' = KogCommits
        BY <3>1 DEF KogCommits
      <4> HIDE DEF m, f1, o
      <4>2. "drift1" \notin Archived
        BY DEF Archived
      <4> QED BY <2>1, <3>1, <3>2, <4>1, <4>2 DEF Ready, NoManifest
    <3>4. "drift1" \in Preparing \cup Archived
      BY <1>0b
    <3> HIDE DEF m, f1, o
    <3> QED BY <2>3, <3>1, <3>3, <3>4, ReadyMove
  <2> QED BY <2>4, <2>5
<1>4. CASE Drift1
  <2>1. Ready("drift1") => Ready("drift2")
    BY <1>0b DEF Ready
  <2>2. Ready("drift2") => Ready("archive")
    BY <1>0b DEF Ready
  <2>3. CASE Check("drift1", Settled, "drift2", "checkpoint_snapshot_drift")
    BY <1>0b, <1>0c, <2>1, <2>3, ReadyCheck
  <2>4. CASE Check("drift2", Selection(work) = final, "archive", "checkpoint_snapshot_drift")
    BY <1>0b, <1>0c, <2>2, <2>4, ReadyCheck
  <2> QED BY <1>4, <2>3, <2>4 DEF Drift1
<1>5. CASE Archive
  <2>1. pc = "archive" /\ Ready("archive") /\ KogCommits = {}
    BY <1>0a, <1>0b, <1>5 DEF Archive, Ready
  <2>2. CheckoutTypeOK'
    BY <1>0, <1>5, StopLock DEF Archive, Stop
  <2>3. checkpointRef' \in Selections /\ leftover' \in BOOLEAN
    <3>1. manifest.paths.working \in Selections /\ Nothing \in Selections
      BY <1>0, Types DEF Captures, Nothing, Selections, Version
    <3> QED BY <1>0, <1>5, <3>1, Types DEF Archive
  <2>4. TypeOK'
    BY <1>0, <1>5, <2>2, <2>3, Types, FrameTypeOK DEF Archive
  <2>5. KogCommits' = {} /\ UNCHANGED <<log, manifest, pinned, recoveryRef, base, before>>
    BY <1>5, <2>1 DEF KogCommits, Archive
  <2>6. CASE pc' = "done"
    <3>1. result' = "checkpoint_commit_failed"
      BY <1>5, <2>6 DEF Archive, Stop
    <3>2. OwnOnly' /\ RecoveryHonest' /\ Kept' /\ ArchivedFirst'
      <4>1. OwnOnly' /\ Kept'
        BY <1>0, <2>5, <3>1 DEF OwnOnly, Kept, NoManifest
      <4>2. RecoveryHonest'
        BY <2>1, <2>5, <3>1 DEF RecoveryHonest, IInv
      <4>3. ArchivedFirst'
        BY <2>5 DEF ArchivedFirst, IInv, NoManifest
      <4> QED BY <4>1, <4>2, <4>3
    <3>3. Reached("done")'
      BY DEF Reached, Placed, Looked, Readied, Committed,
             Places, Capturing, Preparing, Archived, After, Locked
    <3> QED BY <2>4, <2>6, <3>2, <3>3 DEF IInv
  <2>7. CASE pc' # "done"
    <3>1. /\ checkpointRef' = manifest.paths.working /\ pc' = "drift3" /\ result' = result
          /\ UNCHANGED <<final, own, restaged>>
      BY <1>5, <2>7 DEF Archive, Stop
    <3>2. Ready("drift3")'
      <4>1. Prepared'
        BY <2>1, <2>5, <3>1 DEF Ready, Prepared
      <4> QED BY <2>1, <2>5, <3>1, <4>1 DEF Ready, NoManifest
    <3> QED BY <1>0b, <2>1, <2>4, <2>5, <3>1, <3>2, ReadyMove
  <2> QED BY <2>6, <2>7
<1>6. CASE Drift3
  <2>1. Ready("drift3") => Ready("drift4")
    BY <1>0b DEF Ready
  <2>2. Ready("drift4") => Ready("stage")
    BY <1>0b DEF Ready
  <2>3. CASE Check("drift3", Settled, "drift4", "checkpoint_snapshot_drift")
    BY <1>0b, <1>0c, <2>1, <2>3, ReadyCheck
  <2>4. CASE Check("drift4", Selection(work) = final, "stage", "checkpoint_snapshot_drift")
    BY <1>0b, <1>0c, <2>2, <2>4, ReadyCheck
  <2> QED BY <1>6, <2>3, <2>4 DEF Drift3
<1>7. CASE StageReconciled
  <2>1. pc = "stage" /\ Ready("stage")
    BY <1>0a, <1>0b, <1>7 DEF StageReconciled
  <2>2. CheckoutTypeOK'
    BY <1>0, <1>7, StopLock DEF StageReconciled, Stop
  <2>3. stageIndex' = [f \in Path |-> IF f \in Selected THEN restaged[f] ELSE index[f]]
    BY <1>7 DEF StageReconciled
  <2>4. stageIndex' \in Tree
    <3>1. restaged \in Selections /\ index \in Tree
      BY <1>0, Types DEF CheckoutTypeOK
    <3> QED BY <2>3, <3>1 DEF Selections, Tree
  <2>5. TypeOK'
    BY <1>0, <1>7, <2>2, <2>4, Types, FrameTypeOK DEF StageReconciled
  <2>6. CASE Stop("staged_preservation_failed")
    BY <1>0b, <1>0c, <1>7, <2>1, <2>5, <2>6, BlockedIInv DEF StageReconciled, Stop
  <2>7. CASE ~Stop("staged_preservation_failed")
    <3>1. /\ Unrelated(index) = Unrelated(before) /\ pc' = "drift5" /\ result' = result
          /\ UNCHANGED <<log, base, before, captured, pinned, manifest, checkpointRef,
                         recoveryRef, final, own, restaged, indexLock>>
      BY <1>7, <2>7 DEF StageReconciled
    <3>2. \A f \in Path \ Selected : index[f] = before[f]
      BY <3>1 DEF Unrelated
    <3>3. stageIndex' = Reconciled'
      BY <2>3, <3>1, <3>2 DEF Reconciled
    <3>4. KogCommits' = KogCommits /\ (Prepared => Prepared')
      BY <3>1 DEF KogCommits, Prepared
    <3>5. Ready("drift5")'
      BY <1>0b, <2>1, <3>1, <3>3, <3>4 DEF Ready, NoManifest
    <3> QED BY <1>0b, <2>5, <3>1, <3>5, ReadyMove
  <2> QED BY <2>6, <2>7
<1>8. CASE Drift5
  <2>1. Ready("drift5") => Ready("lock")
    BY <1>0b DEF Ready
  <2> QED BY <1>0b, <1>0c, <1>8, <2>1, ReadyCheck DEF Drift5
<1>9. CASE TakeIndexLock
  <2>1. pc = "lock" /\ Ready("lock")
    BY <1>0a, <1>0b, <1>9 DEF TakeIndexLock
  <2>2. CheckoutTypeOK'
    BY <1>0, <1>9, StopLock DEF TakeIndexLock, Stop
  <2>3. TypeOK'
    BY <1>0, <1>9, <2>2, Types, FrameTypeOK DEF TakeIndexLock
  <2>4. CASE Stop("git_index_lock")
    BY <1>0b, <1>9, <2>1, <2>3, <2>4, BlockedIInv DEF TakeIndexLock, Stop
  <2>5. CASE indexLock' = "kog" /\ Goto("seal")
    <3>1. KogCommits' = KogCommits /\ (Prepared => Prepared') /\ Reconciled' = Reconciled
      BY <1>9 DEF KogCommits, Prepared, Reconciled, TakeIndexLock
    <3>2. Ready("seal")'
      BY <1>0b, <1>9, <2>1, <2>5, <3>1 DEF Ready, NoManifest, TakeIndexLock
    <3> QED BY <1>0b, <1>9, <2>3, <2>5, <3>2, ReadyMove DEF TakeIndexLock
  <2> QED BY <1>9, <2>4, <2>5 DEF TakeIndexLock
<1>10. CASE Seal
  <2> DEFINE tree == [f \in Path |-> IF f \in Selected THEN own[f] ELSE HeadTree[f]]
  <2>1. pc = "seal" /\ Ready("seal")
    BY <1>0a, <1>0b, <1>10 DEF Seal
  <2>2. CheckoutTypeOK'
    BY <1>0, <1>10, StopLock DEF Seal, Stop
  <2>3. ownIndex' = tree
    BY <1>10 DEF Seal
  <2>4. ownIndex' \in Tree
    <3>1. own \in Selections
      BY <1>0, Types
    <3> QED BY <1>0, <2>3, <3>1 DEF Selections, Tree
  <2>5. TypeOK'
    BY <1>0, <1>10, <2>2, <2>4, Types, FrameTypeOK DEF Seal
  <2>6. CASE Stop("no_selected_changes")
    BY <1>0b, <1>0c, <1>10, <2>1, <2>5, <2>6, BlockedIInv DEF Seal, Stop
  <2>7. CASE ~Stop("no_selected_changes")
    <3>1. /\ pc' = "drift6" /\ result' = result
          /\ UNCHANGED <<log, base, before, captured, pinned, manifest, checkpointRef,
                         recoveryRef, final, own, restaged, indexLock, stageIndex>>
      BY <1>10, <2>7 DEF Seal
    <3>2. KogCommits' = KogCommits /\ (Prepared => Prepared') /\ Reconciled' = Reconciled
      BY <3>1 DEF KogCommits, Prepared, Reconciled
    <3>3. Len(log') = base' => ownIndex' = Sealed'
      BY <2>3, <3>1 DEF Sealed, HeadTree
    <3> HIDE DEF tree
    <3>4. Ready("drift6")'
      BY <1>0b, <2>1, <3>1, <3>2, <3>3 DEF Ready, NoManifest
    <3> QED BY <1>0b, <2>5, <3>1, <3>4, ReadyMove
  <2> QED BY <2>6, <2>7
<1>11. CASE Drift6
  <2>1. (Len(log) = base /\ index = before) /\ Ready("drift6") => Ready("drift7")
    BY <1>0b DEF Ready
  <2>2. Ready("drift7") => Ready("commit")
    BY <1>0b DEF Ready
  <2>3. CASE Check("drift6", Len(log) = base /\ index = before, "drift7",
                   "checkpoint_snapshot_drift")
    BY <1>0b, <1>0c, <2>1, <2>3, ReadyCheck
  <2>4. CASE Check("drift7", Selection(work) = final, "commit", "checkpoint_snapshot_drift")
    BY <1>0b, <1>0c, <2>2, <2>4, ReadyCheck
  <2> QED BY <1>11, <2>3, <2>4 DEF Drift6
<1> QED BY <1>1, <1>2, <1>3, <1>4, <1>5, <1>6, <1>7, <1>8, <1>9, <1>10, <1>11

-----------------------------------------------------------------------------
(* The commit and what follows it *)

\* What holds at a place after the commit.
CommitDone(q) ==
    /\ result = "" /\ base > 0 /\ manifest # NoManifest /\ base = manifest.base
    /\ KogCommits = {Len(log)} /\ Len(log) > base
    /\ Selection(before) = manifest.paths.staged /\ Prepared
    /\ checkpointRef = manifest.paths.working
    /\ stageIndex = Reconciled /\ ownIndex = Sealed /\ indexLock = "kog"
    /\ q # "readback" => Len(log) = base + 1 /\ HeadTree = Sealed
    /\ q \in {"drift9", "drift10", "reconcile"} => index = before

LEMMA DonePlace ==
    ASSUME NEW q \in After
    PROVE  (CommitDone(q) <=> Reached(q)) /\ (CommitDone(q)' <=> Reached(q)')
<1>1. /\ q \in Places /\ q \in Locked
      /\ q \notin Capturing \cup Preparing \cup Archived \cup {"begin", "saved", "done"}
      /\ q \notin {"readwork", "recheck", "store", "pin", "recheck2", "recheck3", "save",
                   "drift6"}
  BY DEF Capturing, Preparing, Archived, After, Locked, Places
<1>2. Looked(q) /\ Looked(q)'
  BY <1>1 DEF Looked
<1>3. CommitDone(q) <=> Reached(q)
  <2>1. Placed(q) <=> /\ result = "" /\ base > 0 /\ manifest # NoManifest
                      /\ indexLock = "kog"
    BY <1>1 DEF Placed
  <2>2. Readied(q) <=>
          /\ base = manifest.base /\ Selection(before) = manifest.paths.staged /\ Prepared
          /\ checkpointRef = manifest.paths.working /\ stageIndex = Reconciled
    BY <1>1 DEF Readied
  <2>3. Committed(q) <=>
          /\ KogCommits = {Len(log)} /\ Len(log) > base /\ ownIndex = Sealed
          /\ q # "readback" => Len(log) = base + 1 /\ HeadTree = Sealed
          /\ q \in {"drift9", "drift10", "reconcile"} => index = before
    BY <1>1 DEF Committed
  <2> QED BY <1>2, <2>1, <2>2, <2>3 DEF CommitDone, Reached
<1>4. CommitDone(q)' <=> Reached(q)'
  <2>1. Placed(q)' <=> (/\ result = "" /\ base > 0 /\ manifest # NoManifest
                        /\ indexLock = "kog")'
    BY <1>1 DEF Placed, NoManifest
  <2>2. Readied(q)' <=>
         (/\ base = manifest.base /\ Selection(before) = manifest.paths.staged /\ Prepared
          /\ checkpointRef = manifest.paths.working /\ stageIndex = Reconciled)'
    BY <1>1 DEF Readied
  <2>3. Committed(q)' <=>
         (/\ KogCommits = {Len(log)} /\ Len(log) > base /\ ownIndex = Sealed
          /\ q # "readback" => Len(log) = base + 1 /\ HeadTree = Sealed
          /\ q \in {"drift9", "drift10", "reconcile"} => index = before)'
    BY <1>1 DEF Committed
  <2> QED BY <1>2, <2>1, <2>2, <2>3 DEF CommitDone, Reached
<1> QED BY <1>3, <1>4

\* git commit, refused, killed after the branch moved, or done.
LEMMA CommitIInv == IInv /\ Commit => IInv'
<1> SUFFICES ASSUME IInv, Commit PROVE IInv'
  OBVIOUS
<1> USE DEF Goto, checkout, captureVars, commitVars
<1>0. /\ TypeOK /\ CheckoutTypeOK /\ Len(log) \in Nat \ {0} /\ Kept /\ pc = "commit"
      /\ DOMAIN log = 1..Len(log) /\ base \in 0..Len(log) /\ manifest.base \in 0..Len(log)
      /\ recoveryRef \in 0..Len(log)
  BY Types, LogFacts DEF IInv, Commit
<1>1. "commit" \in Archived
  BY DEF Archived
<1>2. Ready("commit")
  BY <1>0, <1>1, ReadyPlace DEF IInv
<1>3. UNCHANGED <<index, work, foreign, edits, base, before, captured, pinned, manifest,
                  checkpointRef, leftover, final, own, restaged, ownIndex, stageIndex,
                  recoveryRef>>
  BY DEF Commit
<1>4. CASE Stop("git_commit_failed") /\ UNCHANGED log
  <2>1. CheckoutTypeOK'
    BY <1>0, <1>3, <1>4, StopLock DEF Stop
  <2>2. TypeOK'
    BY <1>0, <1>3, <1>4, <2>1, Types, FrameTypeOK
  <2> QED BY <1>0, <1>1, <1>3, <1>4, <2>2, BlockedIInv DEF Stop
<1>5. CASE \E tree \in {ownIndex, [f \in Path |-> work[f]]} :
              log' = Append(log, [tree |-> tree, by |-> "kog"])
  <2>1. PICK tree \in {ownIndex, [f \in Path |-> work[f]]} :
               log' = Append(log, [tree |-> tree, by |-> "kog"])
    BY <1>5
  <2>2. tree \in Tree
    BY <1>0, Types DEF CheckoutTypeOK, Tree
  <2>3. /\ Len(log') = Len(log) + 1 /\ log' \in Seq(Commits) /\ log' # <<>>
        /\ \A n \in 1..Len(log) : log'[n] = log[n]
        /\ KogCommits' = KogCommits \cup {Len(log) + 1}
    BY <1>0, <2>1, <2>2, AppendLog
  <2>4. KogCommits = {} /\ KogCommits' = {Len(log')} /\ Len(log') > base /\ Len(log') > manifest.base
        /\ result = "" /\ base > 0 /\ base = manifest.base /\ recoveryRef = 0
    <3>1. KogCommits = {} /\ base = manifest.base /\ base > 0 /\ result = ""
      BY <1>2 DEF Ready
    <3>2. recoveryRef = 0
      BY <3>1 DEF IInv, RecoveryHonest
    <3>3. Len(log) \in Nat /\ base \in Nat /\ base <= Len(log) /\ manifest.base <= Len(log)
          /\ manifest.base \in Nat
      BY <1>0
    <3>4. Len(log') \in Nat /\ Len(log') > base /\ Len(log') > manifest.base
      BY <2>3, <3>3
    <3>5. KogCommits' = {Len(log')}
      BY <2>3, <3>1
    <3> QED BY <3>1, <3>2, <3>4, <3>5
  <2>4a. base \in 1..Len(log) /\ log'[base] = log[base]
    <3>1. base > 0 /\ base \in 0..Len(log) /\ Len(log) \in Nat
      BY <1>0, <2>4
    <3>2. base \in 1..Len(log)
      BY <3>1
    <3> QED BY <2>3, <3>2
  <2>5. \/ pc' = "readback" /\ result' = result /\ indexLock' = indexLock
        \/ /\ pc' = "done" /\ result' = "git_commit_failed"
           /\ indexLock' \in {"free", indexLock}
    BY <1>0, <1>5, <2>3 DEF Commit, Stop
  <2>6. CheckoutTypeOK'
    BY <1>0, <1>3, <2>3, <2>5 DEF CheckoutTypeOK
  <2>7. TypeOK'
    <3>1. base' \in 0..Len(log') /\ manifest'.base \in 0..Len(log')
          /\ recoveryRef' \in 0..Len(log')
      BY <1>0, <1>3, <2>3
    <3> QED BY <1>0, <1>3, <2>6, <3>1 DEF TypeOK
  <2>8. Kept'
    <3>1. log'[manifest.base] = log[manifest.base]
      BY <2>4, <2>4a
    <3>2. manifest.base > 0 /\ manifest' = manifest
      BY <1>3, <2>4
    <3> QED BY <1>0, <2>4, <3>1, <3>2 DEF Kept, NoManifest
  <2>9. OwnOnly' /\ RecoveryHonest'
    <3>1. result' \in {"", "git_commit_failed"} /\ recoveryRef' \in KogCommits' \cup {0}
      BY <1>3, <2>4, <2>5
    <3> QED BY <3>1 DEF OwnOnly, RecoveryHonest, Blockers
  <2>10. ArchivedFirst'
    <3>1. checkpointRef' = manifest'.paths.working
      BY <1>1, <1>2, <1>3 DEF Ready
    <3>2. manifest' # NoManifest => pinned' = manifest'.paths
      BY <1>3 DEF IInv, ArchivedFirst
    <3> QED BY <3>1, <3>2 DEF ArchivedFirst, NoManifest
  <2>11. Reached(pc)'
    <3>1. CASE pc' = "done"
      BY <3>1 DEF Reached, Placed, Looked, Readied, Committed,
                  Places, Capturing, Preparing, Archived, After, Locked
    <3>2. CASE pc' = "readback" /\ result' = result /\ indexLock' = indexLock
      <4>1. Sealed' = Sealed /\ Reconciled' = Reconciled /\ (Prepared => Prepared')
        BY <1>3, <2>4a DEF Sealed, Reconciled, Prepared
      <4>2. CommitDone("readback")'
        BY <1>1, <1>2, <1>3, <2>4, <3>2, <4>1 DEF CommitDone, Ready, NoManifest
      <4>3. "readback" \in After
        BY DEF After
      <4> QED BY <3>2, <4>2, <4>3, DonePlace
    <3> QED BY <2>5, <3>1, <3>2
  <2> QED BY <2>7, <2>8, <2>9, <2>10, <2>11 DEF IInv
<1> QED BY <1>4, <1>5 DEF Commit

\* A step after the commit that ends the command as recovery_required.
LEMMA RecoverIInv ==
    ASSUME IInv, TypeOK', pc \in After, RecoveryRequired,
           UNCHANGED <<log, captureVars, checkpointRef>>
    PROVE  IInv'
<1>1. CommitDone(pc) /\ KogCommits' = KogCommits
  BY DonePlace DEF IInv, KogCommits
<1>2. OwnOnly' /\ RecoveryHonest'
  BY <1>1 DEF RecoveryRequired, Stop, OwnOnly, RecoveryHonest, Blockers, IInv, CommitDone
<1> QED BY <1>2, EndIInv DEF RecoveryRequired, Stop

\* The caller's commit, read back, is what was prepared.
LEMMA OwnIsOwn ==
    ASSUME TypeOK, Kept, pc \in After \ {"readback"}, CommitDone(pc)
    PROVE  \A n \in KogCommits :
               /\ n = manifest.base + 1
               /\ \A f \in Selected :
                      Changed(log[n].tree[f], manifest.paths.head[f])
                          = Changed(final[f], manifest.paths.working[f])
               /\ Unrelated(log[n].tree) = Unrelated(log[n - 1].tree)
<1>1. /\ KogCommits = {Len(log)} /\ Len(log) = base + 1 /\ base = manifest.base /\ base \in Nat
      /\ log[Len(log)].tree = Sealed
  <2>1. base \in 0..Len(log) /\ Len(log) \in Nat
    BY Types, LogFacts
  <2>2. base \in Nat
    BY <2>1
  <2>3. KogCommits = {Len(log)} /\ Len(log) = base + 1 /\ base = manifest.base /\ HeadTree = Sealed
    BY DEF CommitDone
  <2> QED BY <2>2, <2>3 DEF HeadTree
<1> SUFFICES ASSUME NEW n, n = base + 1, log[n].tree = Sealed
             PROVE  /\ n = manifest.base + 1
                    /\ \A f \in Selected :
                           Changed(log[n].tree[f], manifest.paths.head[f])
                               = Changed(final[f], manifest.paths.working[f])
                    /\ Unrelated(log[n].tree) = Unrelated(log[n - 1].tree)
  BY <1>1
<1>2. ASSUME NEW f \in Selected
      PROVE  Changed(log[n].tree[f], manifest.paths.head[f])
                 = Changed(final[f], manifest.paths.working[f])
  <2> DEFINE head == manifest.paths.head[f]
             working == manifest.paths.working[f]
  <2>1. head \in Version /\ working \in Version /\ final[f] \in Version
    BY <1>2, Types DEF Captures, Selections
  <2>2. head # Absent /\ working # Absent /\ final[f] # Absent
        /\ own[f] = OwnVersion(head, working, final[f]) /\ Separable(head, working, final[f])
    BY <1>2 DEF CommitDone, Prepared
  <2> HIDE DEF head, working
  <2>3. head \in SUBSET Hunk /\ working \in SUBSET Hunk /\ final[f] \in SUBSET Hunk
    BY <2>1, <2>2, Present
  <2>4. Changed(own[f], head) = Changed(final[f], working)
    BY <2>2, <2>3, OwnChanges
  <2>5. log[n].tree[f] = own[f]
    BY <1>2, SelectedAssumption DEF Sealed
  <2> QED BY <2>4, <2>5 DEF head, working
<1>3. Unrelated(log[n].tree) = Unrelated(log[n - 1].tree)
  <2>1. n - 1 = base
    BY <1>1
  <2> QED BY <2>1 DEF Unrelated, Sealed
<1> QED BY <1>1, <1>2, <1>3

\* Reading back, putting the index in place, reading it back.
LEMMA AfterIInv ==
    ASSUME IInv, CommitReadback \/ Reconcile \/ IndexReadback
    PROVE  IInv'
<1> USE DEF Goto, checkout, captureVars, commitVars
<1>0. TypeOK /\ CheckoutTypeOK /\ Kept /\ Len(log) \in Nat \ {0}
  BY Types, LogFacts DEF IInv
<1>1. {"readback", "drift8", "drift9", "drift10", "reconcile", "readindex"} = After
  BY DEF After
<1>2. pc \in After /\ CommitDone(pc)
  BY <1>1, DonePlace DEF IInv, CommitReadback, Reconcile, IndexReadback
<1>3. /\ UNCHANGED <<log, work, foreign, edits, base, before, captured, pinned, manifest,
                     checkpointRef, leftover, final, own, restaged, ownIndex, stageIndex>>
      /\ indexLock' \in {"free", indexLock} /\ index' \in {index, stageIndex}
      /\ recoveryRef' \in {recoveryRef, Len(log)}
  BY DEF CommitReadback, Reconcile, IndexReadback, Recover, RecoveryRequired, Stop
<1>4. CheckoutTypeOK'
  <2>1. index' \in Tree
    BY <1>0, <1>3, Types DEF CheckoutTypeOK
  <2> QED BY <1>0, <1>3, <2>1 DEF CheckoutTypeOK
<1>5. TypeOK'
  <2>1. recoveryRef' \in 0..Len(log)
    BY <1>0, <1>3, Types
  <2> QED BY <1>0, <1>3, <1>4, <2>1, Types, FrameTypeOK
<1>6. CASE RecoveryRequired
  BY <1>2, <1>3, <1>5, <1>6, RecoverIInv
<1>7. /\ KogCommits' = KogCommits /\ HeadTree' = HeadTree /\ Sealed' = Sealed /\ Reconciled' = Reconciled
      /\ Prepared => Prepared'
  BY <1>3 DEF KogCommits, HeadTree, Sealed, Reconciled, Prepared
<1>8. ASSUME NEW q \in After, pc' = q, UNCHANGED <<result, recoveryRef>>, CommitDone(q)'
      PROVE  IInv'
  <2>1. result = "" /\ result' = ""
    BY <1>2, <1>8 DEF CommitDone
  <2>2. Reached(pc)'
    BY <1>8, DonePlace
  <2> QED BY <1>3, <1>5, <1>8, <2>1, <2>2, MoveIInv
<1>9. CASE CommitReadback /\ ~RecoveryRequired
  <2>1. UNCHANGED <<result, recoveryRef, indexLock, index>>
    BY <1>9 DEF CommitReadback, Recover
  <2>2. CASE pc = "readback"
    <3>1. Len(log) = base + 1 /\ HeadTree = ownIndex /\ pc' = "drift8"
      BY <1>9, <2>2 DEF CommitReadback, Recover
    <3>2. CommitDone("drift8")'
      BY <1>2, <1>3, <1>7, <2>1, <3>1 DEF CommitDone, NoManifest
    <3> QED BY <1>1, <1>8, <2>1, <3>1, <3>2
  <2>3. CASE pc = "drift8"
    <3>1. index = before /\ pc' = "drift9"
      BY <1>9, <2>3 DEF CommitReadback, Recover
    <3>2. CommitDone("drift9")'
      BY <1>2, <1>3, <1>7, <2>1, <2>3, <3>1 DEF CommitDone, NoManifest
    <3> QED BY <1>1, <1>8, <2>1, <3>1, <3>2
  <2>4. CASE pc = "drift9"
    <3>1. pc' = "drift10"
      BY <1>9, <2>4 DEF CommitReadback, Recover
    <3>2. CommitDone("drift10")'
      BY <1>2, <1>3, <1>7, <2>1, <2>4 DEF CommitDone, NoManifest
    <3> QED BY <1>1, <1>8, <2>1, <3>1, <3>2
  <2>5. CASE pc = "drift10"
    <3>1. pc' = "reconcile"
      BY <1>9, <2>5 DEF CommitReadback, Recover
    <3>2. CommitDone("reconcile")'
      BY <1>2, <1>3, <1>7, <2>1, <2>5 DEF CommitDone, NoManifest
    <3> QED BY <1>1, <1>8, <2>1, <3>1, <3>2
  <2> QED BY <1>9, <2>2, <2>3, <2>4, <2>5 DEF CommitReadback
<1>10. CASE Reconcile /\ ~RecoveryRequired
  <2>1. pc = "reconcile" /\ pc' = "readindex" /\ UNCHANGED <<result, indexLock, recoveryRef>>
    BY <1>10 DEF Reconcile
  <2>2. CommitDone("readindex")'
    BY <1>2, <1>3, <1>7, <2>1 DEF CommitDone, NoManifest
  <2> QED BY <1>1, <1>8, <2>1, <2>2
<1>11. CASE IndexReadback /\ ~RecoveryRequired
  <2>1. pc = "readindex" /\ pc' = "done" /\ result' = "committed" /\ recoveryRef' = recoveryRef
    BY <1>11 DEF IndexReadback, Stop
  <2>2. OwnOnly'
    BY <1>0, <1>2, <1>3, <1>7, <2>1, OwnIsOwn DEF OwnOnly
  <2>3. RecoveryHonest'
    <3>1. KogCommits # {} /\ recoveryRef \in KogCommits \cup {0}
      BY <1>2 DEF CommitDone, IInv, RecoveryHonest
    <3> QED BY <1>7, <2>1, <3>1 DEF RecoveryHonest, Blockers
  <2> QED BY <1>3, <1>5, <2>1, <2>2, <2>3, EndIInv
<1> QED BY <1>6, <1>9, <1>10, <1>11

-----------------------------------------------------------------------------
\* Refusing, trying again, being killed.
LEMMA OutsideIInv ==
    ASSUME IInv, Refuse \/ Retry \/ Kill
    PROVE  IInv'
<1> USE DEF checkout, captureVars, commitVars
<1>0. TypeOK /\ CheckoutTypeOK
  BY Types DEF IInv
<1>1. CASE Refuse
  <2>1. pc \in Capturing \cup Preparing \cup Archived /\ "refused" \in Blockers
    BY <1>1 DEF Refuse, Capturing, Preparing, Archived, Blockers
  <2>2. CheckoutTypeOK'
    BY <1>0, <1>1, StopLock DEF Refuse, Stop
  <2>3. TypeOK'
    BY <1>0, <1>1, <2>2, Types, FrameTypeOK DEF Refuse
  <2> QED BY <1>1, <2>1, <2>3, BlockedIInv DEF Refuse, Stop
<1>2. CASE Retry
  <2>1. TypeOK'
    BY <1>0, <1>2 DEF Retry, TypeOK, CheckoutTypeOK
  <2>2. Reached("saved")'
    <3>1. Placed("saved")'
      BY <1>2 DEF Retry, Placed, Places, Capturing, Locked, NoManifest
    <3>2. Looked("saved")' /\ Readied("saved")' /\ Committed("saved")'
      BY DEF Looked, Readied, Committed, Preparing, Archived, After, Locked
    <3> QED BY <3>1, <3>2 DEF Reached
  <2> QED BY <1>2, <2>1, <2>2, MoveIInv DEF Retry
<1>3. CASE Kill
  <2>1. TypeOK'
    BY <1>0, <1>3 DEF Kill, TypeOK, CheckoutTypeOK
  <2>2. "killed" \notin Blockers
    BY DEF Blockers
  <2> QED BY <1>3, <2>1, <2>2, SilentIInv DEF Kill
<1> QED BY <1>1, <1>2, <1>3

\* The invariant of a capture and of the commits that follow it.
THEOREM OverlapInvariant == Spec => []IInv
<1>1. IInv /\ Step => IInv'
  BY CaptureIInv, PrepareIInv, CommitIInv, AfterIInv, OutsideIInv DEF Step
<1>2. IInv /\ UNCHANGED vars => IInv'
  <2> SUFFICES ASSUME IInv, UNCHANGED vars PROVE IInv'
    OBVIOUS
  <2>1. UNCHANGED <<checkout, pc, result, base, before, captureVars, commitVars>>
    BY DEF vars
  <2>2. PICK q : q = pc
    OBVIOUS
  <2>3. pc' = q /\ Reached(q)
    BY <2>1, <2>2 DEF IInv
  <2> QED BY <2>1, <2>3, GotoIInv
<1>3. IInv /\ [Next]_vars => IInv'
  BY <1>1, <1>2, OthersIInv DEF Next
<1> QED BY InitIInv, <1>3, PTL DEF Spec

\* TypeOK: versions stay versions, through every merge.
THEOREM OverlapTypes == Spec => []TypeOK
BY OverlapInvariant, PTL DEF IInv

\* OwnOnly: the reported commit holds what the caller changed since the capture,
\* on top of the captured HEAD, and nothing else.
THEOREM OverlapOwn == Spec => []OwnOnly
BY OverlapInvariant, PTL DEF IInv

\* ArchivedFirst: no commit of the caller's without the earlier work archived.
THEOREM OverlapArchived == Spec => []ArchivedFirst
BY OverlapInvariant, PTL DEF IInv

\* RecoveryHonest: the blockers, the reports and the recovery ref tell the truth.
THEOREM OverlapHonest == Spec => []RecoveryHonest
BY OverlapInvariant, PTL DEF IInv

\* What is staged after the index is put in place.
LEMMA Restaged ==
    ASSUME IInv, pc = "reconcile", index' = stageIndex
    PROVE  /\ \A f \in Selected :
                  Changed(index'[f], HeadTree[f])
                      = Changed(index[f], log[base].tree[f]) \ Changed(own[f], log[base].tree[f])
           /\ Unrelated(index') = Unrelated(index)
<1>1. TypeOK /\ Kept /\ CommitDone("reconcile")
  BY DonePlace DEF IInv, After
<1>2. /\ index = before /\ stageIndex = Reconciled /\ HeadTree = Sealed
      /\ Selection(before) = manifest.paths.staged
      /\ manifest.paths.head = Selection(log[base].tree)
  BY <1>1 DEF CommitDone, Kept
<1>3. ASSUME NEW f \in Selected
      PROVE  Changed(index'[f], HeadTree[f])
                 = Changed(index[f], log[base].tree[f]) \ Changed(own[f], log[base].tree[f])
  <2> DEFINE head == manifest.paths.head[f]
             staged == manifest.paths.staged[f]
  <2>1. head \in Version /\ staged \in Version
    BY <1>1, <1>3, Types DEF Captures, Selections
  <2>2. head # Absent /\ staged # Absent /\ restaged[f] = Merge(staged, head, own[f])
        /\ own[f] = OwnVersion(head, manifest.paths.working[f], final[f])
    BY <1>1, <1>3 DEF CommitDone, Prepared
  <2>3. index[f] = staged /\ log[base].tree[f] = head
    BY <1>2, <1>3 DEF Selection
  <2>4. index'[f] = restaged[f] /\ HeadTree[f] = own[f]
    BY <1>2, <1>3, SelectedAssumption DEF Reconciled, Sealed
  <2> HIDE DEF head, staged
  <2>5. head \in SUBSET Hunk /\ staged \in SUBSET Hunk /\ own[f] \in SUBSET Hunk
    BY <2>1, <2>2, Present, MergeVersion DEF OwnVersion
  <2>6. Changed(restaged[f], own[f]) = Changed(staged, head) \ Changed(own[f], head)
    BY <2>2, <2>5, StagedChanges
  <2> QED BY <2>3, <2>4, <2>6
<1>4. Unrelated(index') = Unrelated(index)
  BY <1>2 DEF Unrelated, Reconciled
<1> QED BY <1>3, <1>4

\* StagingIntentKept: staging is rebased on the new HEAD, and no other step of
\* kog's touches the index or a file.
THEOREM OverlapStaging == Spec => StagingIntentKept
<1>1. IInv /\ [Next]_vars =>
        [pc' # pc =>
          /\ work' = work
          /\ index' # index => pc = "reconcile"
          /\ pc = "reconcile" /\ pc' = "readindex" =>
                /\ \A f \in Selected :
                       Changed(index'[f], HeadTree[f])
                           = Changed(index[f], log[base].tree[f])
                                 \ Changed(own[f], log[base].tree[f])
                /\ Unrelated(index') = Unrelated(index)]_vars
  <2> SUFFICES ASSUME IInv, Step
               PROVE  /\ work' = work
                      /\ index' # index => pc = "reconcile"
                      /\ pc = "reconcile" /\ pc' = "readindex" => index' = stageIndex
    BY Restaged DEF Next, vars
  <2>1. CASE Reconcile
    BY <2>1 DEF Reconcile, RecoveryRequired, Stop
  <2>2. CASE CommitReadback
    BY <2>2 DEF CommitReadback, Recover, RecoveryRequired, Stop, Goto
  <2>3. CASE IndexReadback \/ Commit \/ Refuse \/ Retry \/ Kill
    BY <2>3 DEF IndexReadback, Commit, Refuse, Retry, Kill, RecoveryRequired, Stop, checkout
  <2>4. CASE CaptureBegin \/ CaptureGit \/ CaptureWork \/ CaptureRecheck \/ Pin \/ PinRecheck
             \/ SaveManifest
    BY <2>4 DEF CaptureBegin, CaptureGit, CaptureWork, CaptureRecheck, Pin, PinRecheck,
                SaveManifest, Check, checkout
  <2>5. CASE CommitBegin \/ CheckStaged \/ Prepare \/ Drift1 \/ Archive \/ Drift3
             \/ StageReconciled \/ Drift5 \/ TakeIndexLock \/ Seal \/ Drift6
    BY <2>5 DEF CommitBegin, CheckStaged, Prepare, Drift1, Archive, Drift3, StageReconciled,
                Drift5, TakeIndexLock, Seal, Drift6, Check, checkout
  <2> QED BY <2>1, <2>2, <2>3, <2>4, <2>5 DEF Step
<1> QED BY <1>1, OverlapInvariant, PTL DEF Spec, StagingIntentKept

-----------------------------------------------------------------------------
(* kog commit --exact-path *)

\* A commit that is in scope stays so when the branch grows.
LEMMA ScopeStays ==
    ASSUME CheckoutTypeOK, NEW t \in Tree, NEW by \in {"kog", "git"},
           log' = Append(log, [tree |-> t, by |-> by])
    PROVE  \A n \in 2..Len(log) : InScope(n)' = InScope(n)
<1>1. Len(log) \in Nat /\ \A n \in 1..Len(log) : log'[n] = log[n]
  BY AppendLog, LogFacts
<1> QED BY <1>1 DEF InScope

LEMMA ExactInitInv == ExactInit => ExactInv
<1> SUFFICES ASSUME ExactInit PROVE ExactInv
  OBVIOUS
<1>1. PICK s \in Start : /\ log = <<[tree |-> s.tree, by |-> "start"]>>
                         /\ index = s.index /\ work = s.work
                         /\ indexLock = "free" /\ foreign = 0 /\ edits = 0
  BY DEF ExactInit, CheckoutInit
<1>2. s.tree \in Tree /\ s.index \in Tree /\ s.work \in Tree
  BY StartAssumption
<1>3. [tree |-> s.tree, by |-> "start"] \in Commits
  BY <1>2 DEF Commits
<1>4. log \in Seq(Commits) /\ log # <<>> /\ Len(log) = 1
  BY <1>1, <1>3
<1>5. CheckoutTypeOK
  BY <1>1, <1>2, <1>4, ForeignAssumption DEF CheckoutTypeOK
<1>6. KogCommits = {}
  BY <1>1 DEF KogCommits
<1>7. ExactTypeOK
  <2>1. base \in 0..Len(log) /\ receipt \in 0..Len(log)
    <3>1. Len(log) = 1 /\ base = 0 /\ receipt = 0
      BY <1>4 DEF ExactInit
    <3> QED BY <3>1
  <2>2. before \in Tree /\ tmp \in Tree
    BY <1>1, <1>2 DEF ExactInit
  <2> QED BY <1>5, <2>1, <2>2 DEF ExactInit, ExactTypeOK
<1> QED BY <1>6, <1>7 DEF ExactInit, ExactInv, ScopeOnBase, HonestReport, Early, Late, PastCommit

\* What others do leaves the invariant: they move the branch away from base
\* or leave it there.
LEMMA ExactOthersInv == ExactInv /\ Others /\ UNCHANGED kog => ExactInv'
<1> SUFFICES ASSUME ExactInv, Others, UNCHANGED kog PROVE ExactInv'
  OBVIOUS
<1>1. CheckoutTypeOK
  BY DEF ExactInv, ExactTypeOK
<1>2. CASE log' = log
  <2>1. CheckoutTypeOK'
    BY <1>1, OthersStep
  <2> QED BY <1>2, <2>1
          DEF ExactInv, ExactTypeOK, kog, KogCommits, HeadTree, ScopeOnBase, InScope, HonestReport
<1>3. CASE log' = Append(log, [tree |-> index, by |-> "git"]) /\ index \in Tree
  <2>1. CheckoutTypeOK'
    BY <1>1, OthersStep
  <2>2. /\ Len(log') = Len(log) + 1 /\ KogCommits' = KogCommits
        /\ \A n \in 2..Len(log) : InScope(n)' = InScope(n)
    BY <1>1, <1>3, AppendLog, ScopeStays
  <2>3. Len(log) \in Nat \ {0} /\ base \in 0..Len(log) /\ receipt \in 0..Len(log)
    BY <1>1, LogFacts DEF ExactInv, ExactTypeOK
  <2>4. ExactTypeOK'
    <3>1. base' \in 0..Len(log') /\ receipt' \in 0..Len(log')
      BY <2>2, <2>3 DEF kog
    <3> QED BY <2>1, <3>1 DEF ExactInv, ExactTypeOK, kog, Early, Late, PastCommit
  <2>5. ScopeOnBase'
    <3> SUFFICES ASSUME NEW n \in KogCommits, n = base + 1 PROVE InScope(n)'
      BY <2>2 DEF ScopeOnBase, kog
    <3>1. InScope(n) /\ n \in 2..Len(log)
      BY DEF ExactInv, ScopeOnBase
    <3> QED BY <2>2, <3>1
  <2>6. KogCommits' \subseteq 2..Len(log')
    <3> SUFFICES ASSUME NEW n \in KogCommits PROVE n \in 2..Len(log')
      BY <2>2
    <3>1. n \in 2..Len(log)
      BY DEF ExactInv
    <3> QED BY <2>2, <2>3, <3>1
  <2>7. HonestReport'
    BY <2>2 DEF ExactInv, kog, HonestReport
  <2>8. pc' \in {"stage", "recheckHead"} \cup Late => Len(log') # base'
    BY <2>2, <2>3 DEF kog
  <2>9. /\ pc' \in {"begin"} \cup Early \cup Late => KogCommits' = {} /\ result' = ""
        /\ pc' \in PastCommit => KogCommits' # {} /\ result' = ""
    BY <2>2 DEF ExactInv, kog, Early, Late, PastCommit
  <2> QED BY <2>4, <2>5, <2>6, <2>7, <2>8, <2>9 DEF ExactInv, Early, Late, PastCommit
<1> QED BY <1>1, <1>2, <1>3, OthersStep

-----------------------------------------------------------------------------
\* A step that changes neither the branch nor the temporary index.
LEMMA ExactQuiet ==
    ASSUME ExactInv, ExactTypeOK', log' = log, base' = base, tmp' = tmp,
           \/ pc' = "done" /\ HonestReport'
           \/ /\ result' = result
              /\ \/ pc \in {"stage", "recheckHead"} \cup Late /\ pc' \in {"recheckHead"} \cup Late
                 \/ pc \in PastCommit /\ pc' \in PastCommit
                 \/ pc \in {"begin"} \cup Early /\ pc' \in {"entries", "readtree"}
    PROVE  ExactInv'
<1>1. KogCommits' = KogCommits /\ HeadTree' = HeadTree /\ (ScopeOnBase <=> ScopeOnBase')
  BY DEF KogCommits, HeadTree, ScopeOnBase, InScope
<1>2. HonestReport'
  BY <1>1 DEF ExactInv, HonestReport, Early, Late, PastCommit
<1> QED BY <1>1, <1>2 DEF ExactInv, Early, Late, PastCommit

LEMMA ExactStepInv == ExactInv /\ ExactStep => ExactInv'
<1> SUFFICES ASSUME ExactInv, ExactStep PROVE ExactInv'
  OBVIOUS
<1> USE DEF ExactStop, Goto, checkout
<1>0. CheckoutTypeOK /\ ExactTypeOK /\ HeadTree \in Tree /\ Len(log) \in Nat \ {0}
  BY LogFacts DEF ExactInv, ExactTypeOK
<1>0a. ASSUME UNCHANGED checkout PROVE CheckoutTypeOK' /\ KogCommits' = KogCommits
  BY <1>0, <1>0a DEF CheckoutTypeOK, KogCommits
<1>1. CASE ReadHead
  <2>1. ExactTypeOK'
    BY <1>0, <1>0a, <1>1 DEF ReadHead, ExactTypeOK, Early
  <2>2. ScopeOnBase'
    BY <1>0a, <1>1 DEF ReadHead, ExactInv, ScopeOnBase
  <2>3. KogCommits = {}
    BY <1>1 DEF ReadHead, ExactInv
  <2> QED BY <1>0a, <1>1, <2>1, <2>2, <2>3
          DEF ReadHead, ExactInv, HonestReport, Early, Late, PastCommit
<1>2. CASE ReadEntries
  <2>1. ExactTypeOK'
    BY <1>0, <1>0a, <1>2 DEF ReadEntries, ExactTypeOK, CheckoutTypeOK, Early
  <2> QED BY <1>2, <2>1, ExactQuiet DEF ReadEntries, Early
<1>3. CASE ReadTree
  <2>1. ExactTypeOK'
    BY <1>0, <1>0a, <1>3 DEF ReadTree, ExactTypeOK, Early
  <2>2. ScopeOnBase' /\ HonestReport' /\ HeadTree' = HeadTree
    BY <1>0a, <1>3 DEF ReadTree, ExactInv, ScopeOnBase, InScope, HonestReport, HeadTree
  <2> QED BY <1>0a, <1>3, <2>1, <2>2 DEF ReadTree, ExactInv, Early, Late, PastCommit
<1>4. CASE Stage
  <2> DEFINE staged == [f \in Path |-> IF f \in Selected THEN work[f] ELSE tmp[f]]
  <2>1. staged \in Tree
    BY <1>0 DEF ExactTypeOK, CheckoutTypeOK, Tree
  <2>2. UNCHANGED <<checkout, base, before, receipt>>
        /\ \/ pc' = "done" /\ tmp' \in {tmp, staged}
              /\ result' \in {"exact_stage_failed", "no_selected_changes", "preview"}
           \/ pc' = "recheckHead" /\ tmp' = staged /\ UNCHANGED result
    BY <1>4 DEF Stage
  <2>3. ExactTypeOK'
    BY <1>0, <1>0a, <2>1, <2>2 DEF ExactTypeOK, Early
  <2>4. ScopeOnBase' /\ HonestReport' /\ HeadTree' = HeadTree
    BY <1>0a, <1>4, <2>2
       DEF Stage, ExactInv, ScopeOnBase, InScope, HonestReport, HeadTree, Early
  <2>5. Len(log') = base' => \A f \in Path \ Selected : tmp'[f] = HeadTree'[f]
    BY <1>4, <2>2, <2>4 DEF Stage, ExactInv
  <2> QED BY <1>0a, <1>4, <2>2, <2>3, <2>4, <2>5 DEF Stage, ExactInv, Early, Late, PastCommit
<1>5. CASE RecheckHead
  <2>1. ExactTypeOK'
    BY <1>0, <1>0a, <1>5 DEF RecheckHead, ExactTypeOK, Late
  <2>2. HonestReport'
    BY <1>0a, <1>5 DEF RecheckHead, ExactInv, HonestReport, Early
  <2> QED BY <1>5, <2>1, <2>2, ExactQuiet DEF RecheckHead, Late
<1>6. CASE RecheckIndex
  <2>1. ExactTypeOK'
    BY <1>0, <1>0a, <1>6 DEF RecheckIndex, ExactTypeOK, Late
  <2>2. HonestReport'
    BY <1>0a, <1>6 DEF RecheckIndex, ExactInv, HonestReport, Late
  <2> QED BY <1>6, <2>1, <2>2, ExactQuiet DEF RecheckIndex, Late
<1>7. CASE ExactCommit
  <2>1. pc = "commit" /\ KogCommits = {} /\ tmp \in Tree
    BY <1>7 DEF ExactCommit, ExactInv, Late, ExactTypeOK
  <2>2. CASE ExactStop("git_commit_failed") /\ UNCHANGED checkout
    <3>1. ExactTypeOK'
      BY <1>0, <1>0a, <2>2 DEF ExactTypeOK
    <3>2. HonestReport'
      BY <1>0a, <2>2 DEF HonestReport
    <3> QED BY <2>2, <3>1, <3>2, ExactQuiet
  <2>3. CASE log' = Append(log, [tree |-> tmp, by |-> "kog"])
    <3>0. /\ Len(log') = Len(log) + 1 /\ log' \in Seq(Commits) /\ log' # <<>>
          /\ KogCommits' = KogCommits \cup {Len(log) + 1}
          /\ \A n \in 1..Len(log) : log'[n] = log[n]
          /\ log'[Len(log) + 1] = [tree |-> tmp, by |-> "kog"]
      BY <1>0, <2>1, <2>3, AppendLog
    <3>1. /\ KogCommits' = {Len(log) + 1} /\ KogCommits' \subseteq 2..Len(log')
          /\ log'[Len(log)] = log[Len(log)] /\ log'[Len(log) + 1].tree = tmp
      BY <1>0, <2>1, <3>0
    <3>2. /\ UNCHANGED <<index, work, indexLock, foreign, edits, base, before, tmp, receipt>>
          /\ \/ pc' = "reset" /\ UNCHANGED result
             \/ pc' = "done" /\ result' = "git_commit_failed"
      BY <1>7, <2>3 DEF ExactCommit, CheckoutTypeOK
    <3>3. ExactTypeOK'
      BY <1>0, <3>0, <3>2 DEF ExactTypeOK, CheckoutTypeOK, PastCommit
    <3>4. ScopeOnBase'
      <4> SUFFICES ASSUME Len(log) + 1 = base + 1, NEW f \in Path \ Selected
                   PROVE  tmp[f] = log[Len(log)].tree[f]
        BY <1>0, <3>0, <3>1, <3>2 DEF ScopeOnBase, InScope
      <4>1. Len(log) = base
        BY <1>0 DEF ExactTypeOK
      <4>2. tmp[f] = HeadTree[f]
        BY <2>1, <4>1 DEF ExactInv, Late
      <4> QED BY <4>2 DEF HeadTree
    <3>5. HonestReport'
      BY <2>1, <3>1, <3>2 DEF ExactInv, HonestReport, Late
    <3> QED BY <2>1, <3>1, <3>2, <3>3, <3>4, <3>5 DEF ExactInv, Early, Late, PastCommit
  <2> QED BY <1>7, <2>2, <2>3 DEF ExactCommit
<1>8. CASE Reset
  <2>1. CheckoutTypeOK'
    BY <1>0, <1>0a, <1>8 DEF Reset, CheckoutTypeOK, Tree
  <2>2. ExactTypeOK' /\ log' = log
    BY <1>0, <1>8, <2>1 DEF Reset, ExactTypeOK, PastCommit
  <2>3. pc' = "done" => HonestReport'
    BY <1>8, <2>2 DEF Reset, ExactInv, HonestReport, KogCommits, PastCommit
  <2> QED BY <1>8, <2>2, <2>3, ExactQuiet DEF Reset, PastCommit
<1>9. CASE Readback
  <2>1. ExactTypeOK'
    BY <1>0, <1>0a, <1>9 DEF Readback, ExactTypeOK, PastCommit
  <2>2. pc' = "done" => HonestReport'
    BY <1>0a, <1>9 DEF Readback, ExactInv, HonestReport, PastCommit
  <2> QED BY <1>9, <2>1, <2>2, ExactQuiet DEF Readback, PastCommit
<1>10. CASE ReadReceipt
  <2>1. ExactTypeOK'
    BY <1>0, <1>0a, <1>10 DEF ReadReceipt, ExactTypeOK
  <2>2. HonestReport'
    BY <1>0a, <1>10 DEF ReadReceipt, ExactInv, HonestReport, PastCommit
  <2> QED BY <1>10, <2>1, <2>2, ExactQuiet DEF ReadReceipt
<1> QED BY <1>1, <1>2, <1>3, <1>4, <1>5, <1>6, <1>7, <1>8, <1>9, <1>10 DEF ExactStep

\* The invariant of one exact-path commit among others' commands.
THEOREM ExactInvariant == ExactSpec => []ExactInv
<1>1. ExactInv /\ UNCHANGED exactVars => ExactInv'
  <2> SUFFICES ASSUME ExactInv, UNCHANGED exactVars PROVE ExactInv'
    OBVIOUS
  <2>1. UNCHANGED <<checkout, kog>>
    BY DEF exactVars
  <2> QED BY <2>1 DEF checkout, kog, ExactInv, ExactTypeOK, CheckoutTypeOK, KogCommits, HeadTree,
                      ScopeOnBase, InScope, HonestReport
<1>2. ExactInv /\ [ExactNext]_exactVars => ExactInv'
  BY <1>1, ExactStepInv, ExactOthersInv DEF ExactNext
<1> QED BY ExactInitInv, <1>2, PTL DEF ExactSpec

\* The indexes stay whole trees.
THEOREM ExactTypes == ExactSpec => []ExactTypeOK
BY ExactInvariant, PTL DEF ExactInv

\* On the HEAD it started from, kog commits nothing outside the selection.
THEOREM ExactScope == ExactSpec => []ScopeOnBase
BY ExactInvariant, PTL DEF ExactInv

\* What is reported says whether there is a commit.
THEOREM ExactReport == ExactSpec => []HonestReport
BY ExactInvariant, PTL DEF ExactInv

\* A branch that moved before the second look at HEAD gets no commit.
THEOREM ExactStaleHead == ExactSpec => MovedHeadStops
<1> DEFINE P == pc \in Early /\ Len(log) # base
           Q == KogCommits = {}
           M == Q /\ (pc = "done" \/ P)
<1>1. ExactInv /\ P => M
  BY DEF ExactInv
<1>2. ExactInv /\ M /\ [ExactNext]_exactVars => M'
  <2> SUFFICES ASSUME ExactInv, M, [ExactNext]_exactVars PROVE M'
    OBVIOUS
  <2>0. CheckoutTypeOK /\ base \in 0..Len(log) /\ Len(log) \in Nat \ {0}
    BY LogFacts DEF ExactInv, ExactTypeOK
  <2>1. CASE ExactStep
    <3>1. pc \in Early /\ UNCHANGED <<log, base>> /\ (pc' = "done" \/ pc' \in Early)
      BY <2>1 DEF ExactStep, ReadHead, ReadEntries, ReadTree, Stage, RecheckHead, RecheckIndex,
                  ExactCommit, Reset, Readback, ReadReceipt, ExactStop, Goto, checkout, Early
    <3> QED BY <3>1 DEF KogCommits, Early
  <2>2. CASE Others /\ UNCHANGED kog
    <3>1. KogCommits' = KogCommits /\ (log' = log \/ Len(log') = Len(log) + 1)
      BY <2>0, <2>2, OthersStep, AppendLog DEF KogCommits
    <3> QED BY <2>0, <2>2, <3>1 DEF kog
  <2>3. CASE UNCHANGED exactVars
    BY <2>3 DEF exactVars, checkout, kog, KogCommits
  <2> QED BY <2>1, <2>2, <2>3 DEF ExactNext
<1>3. M => Q
  OBVIOUS
<1> QED BY ExactInvariant, <1>1, <1>2, <1>3, PTL DEF ExactSpec, MovedHeadStops

\* No step of kog changes what is outside the selection.
THEOREM ExactUnrelated == ExactSpec => UnrelatedUntouched
<1>1. ExactInv /\ [ExactNext]_exactVars =>
        [pc' # pc => Unrelated(index') = Unrelated(index) /\ work' = work]_exactVars
  <2> SUFFICES ASSUME ExactInv, ExactStep
               PROVE  Unrelated(index') = Unrelated(index) /\ work' = work
    BY DEF ExactNext, kog, exactVars
  <2>1. CASE Reset
    BY <2>1, SelectedAssumption DEF Reset, ExactStop, checkout, Unrelated
  <2>2. CASE ~Reset
    BY <2>2 DEF ExactStep, ReadHead, ReadEntries, ReadTree, Stage, RecheckHead, RecheckIndex,
                ExactCommit, Readback, ReadReceipt, checkout
  <2> QED BY <2>1, <2>2
<1> QED BY <1>1, ExactInvariant, PTL DEF ExactSpec, UnrelatedUntouched
=============================================================================
