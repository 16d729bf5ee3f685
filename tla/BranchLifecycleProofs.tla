------------------------ MODULE BranchLifecycleProofs ------------------------
(***************************************************************************)
(* Proofs about BranchLifecycle for any branches, commits, worktrees,      *)
(* commands and number of calls: types, and that the target loses nothing  *)
(* but what an abort takes back.  IInv adds to the types where in a call   *)
(* the program works on a source branch, and where on a worktree.          *)
(***************************************************************************)
EXTENDS BranchLifecycle, TLAPS

OnBranch == {"integrate", "push", "handoff", "release", "remove", "delete", "remote"}
Harvesting == {"harvest", "commit", "publish", "forget"}

\* The call works on a source branch, and has others to do.
OfBranch == cur \in Sources /\ todo \subseteq Sources

\* The detached worktrees that are left to do; the primary one may have taken
\* the target meanwhile.
OfDetached ==
    \A w \in todo : w \in Worktrees /\ (w = "primary" \/ worktree[w].on = "detached")

\* What a harvest is for: a detached worktree, or the worktree of a branch.
Harvested ==
    IF worktree[from].on = "detached" THEN from # "primary" /\ OfDetached ELSE OfBranch

Place ==
    /\ pc = "branch" => todo \subseteq Sources
    /\ pc = "detached" => OfDetached
    /\ pc \in OnBranch => OfBranch
    /\ pc \in Harvesting => Harvested

IInv == TypeOK /\ Place

\* The target keeps every commit.
Kept1 == ref[Target].log \subseteq ref'[Target].log

-----------------------------------------------------------------------------
(* Tips                                                                    *)

LEMMA OntoTip ==
    ASSUME NEW t \in Tip, NEW cs \in SUBSET Commit
    PROVE  Onto(t, cs) \in Tip /\ t.log \subseteq Onto(t, cs).log
<1>1. UNION {c.patches : c \in cs} \in SUBSET Patches
    BY DEF Commit
<1> QED BY <1>1 DEF Onto, Tip

LEMMA MadeCommit ==
    ASSUME NEW p \in SUBSET Patches, NEW who \in Makers
    PROVE  Made(p, who) \in Commit
BY DEF Made, Commit

LEMMA NoRefTip == NoRef \in Tip
BY DEF NoRef, Tip

LEMMA TargetBranch ==
    /\ Target \in Branches /\ Target \notin Sources /\ Sources \subseteq Branches
    /\ {"detached", "removed", "none"} \cap Branches = {}
BY BranchAssumption DEF Branches

LEMMA SourceTip ==
    ASSUME CloneOK, NEW b \in Branches
    PROVE  Source(b) \in Tip
BY DEF CloneOK, Source, Refs

LEMMA HeadTip ==
    ASSUME CloneOK, NEW w \in Live
    PROVE  HeadOf(w) \in Tip
BY DEF CloneOK, HeadOf, Live, Refs, Worktree

LEMMA ReplaysTip ==
    ASSUME NEW t \in Tip, NEW missing \in SUBSET Commit, NEW r \in Replays(t, missing)
    PROVE  /\ r.tip \in Tip /\ t.log \subseteq r.tip.log
           /\ r.stopped \in {"none", "conflict", "empty"}
<1> DEFINE empty == {c \in missing : Empty(c, t)}
           Before(c) == {d \in missing : Position(d) < Position(c)}
           Skipped(c) == Cardinality(Before(c) \cap empty)
           Upto(cs, how) ==
            [tip |-> Onto(t, {Made(c.patches, "replay") : c \in cs \ empty}), stopped |-> how]
<1>1. ASSUME NEW cs \in SUBSET missing, NEW how \in {"none", "conflict", "empty"}
      PROVE  /\ Upto(cs, how).tip \in Tip /\ t.log \subseteq Upto(cs, how).tip.log
             /\ Upto(cs, how).stopped \in {"none", "conflict", "empty"}
    <2>1. {Made(c.patches, "replay") : c \in cs \ empty} \in SUBSET Commit
        BY MadeCommit DEF Commit, Makers
    <2> QED BY <2>1, OntoTip
<1>2. \E cs \in SUBSET missing, how \in {"none", "conflict", "empty"} : r = Upto(cs, how)
    <2>1. \A c : Before(c) \in SUBSET missing
        OBVIOUS
    <2> HIDE DEF Upto, Before
    <2>2. r \in {Upto(missing, "none") : x \in {y \in {0} : Cardinality(empty) <= 1}}
                \cup {Upto(Before(c), "conflict") : c \in {d \in missing \ empty : Skipped(d) <= 1}}
                \cup {Upto(Before(c), "empty") : c \in {d \in empty : Skipped(d) = 1}}
        BY DEF Replays, Upto, Before
    <2> QED BY <2>1, <2>2
<1> HIDE DEF Upto
<1> QED BY <1>1, <1>2

-----------------------------------------------------------------------------
(* The call                                                                *)

\* What every action of a call but Begin, Plan, Return and the detached loop
\* comes to: it goes to the next step, enters a result, or ends.
LEMMA EndsCall ==
    ASSUME IInv, Ends, CloneOK', pending' \in [expected : Tip, restore : Tip]
    PROVE  IInv'
BY NoRefTip DEF IInv, Ends, TypeOK, CallOK, Place, Branches, Worktrees, OnBranch, Harvesting

LEMMA BeginStep ==
    ASSUME IInv, Begin PROVE IInv' /\ Kept1
BY DEF IInv, Begin, TypeOK, CloneOK, CallOK, Place, OnBranch, Harvesting,
       cloneVars, branchVars, Kept1, OfBranch, OfDetached, Harvested

-----------------------------------------------------------------------------
(* The clone                                                               *)

LEMMA CheckoutOK ==
    ASSUME CloneOK, NEW w \in Worktrees, NEW b \in Branches, Checkout(w, b)
    PROVE  worktree' \in [Worktrees -> Worktree]
BY DEF CloneOK, Checkout, Worktree

LEMMA RemoveOK ==
    ASSUME CloneOK, NEW w \in Worktrees, Remove(w)
    PROVE  worktree' \in [Worktrees -> Worktree]
BY DEF CloneOK, Remove, Worktree

LEMMA PushOK ==
    ASSUME CloneOK, PushTarget \/ PushFails
    PROVE  published' \in Refs
BY DEF CloneOK, PushTarget, PushFails, Refs

LEMMA TargetMoves ==
    ASSUME CloneOK, NEW t \in Tip, ref[Target].log \subseteq t.log,
           ref' = [ref EXCEPT ![Target] = t]
    PROVE  ref' \in Refs /\ Kept1
BY TargetBranch DEF CloneOK, Refs, Kept1

LEMMA TargetPathOK == TargetPath \in Worktrees
BY DEF TargetPath, On, Worktrees

-----------------------------------------------------------------------------
(* The target is synchronised and the branches planned                     *)

LEMMA SyncRefusedStep ==
    ASSUME IInv, SyncRefused PROVE IInv' /\ Kept1
BY NoRefTip, TargetBranch DEF SyncRefused, IInv, TypeOK, CloneOK, CallOK, cloneVars, branchVars, Kept1,
   Place, OnBranch, Harvesting, OfBranch, OfDetached, Harvested, Within, SyncBlocked, Goto, Ends, Branches, Worktrees

LEMMA SyncCleanStep ==
    ASSUME IInv, SyncClean PROVE IInv' /\ Kept1
<1>1. CloneOK' /\ Kept1
    <2>1. worktree' \in [Worktrees -> Worktree]
        BY CheckoutOK, TargetPathOK, TargetBranch DEF SyncClean, IInv, TypeOK
    <2>2. ref' \in Refs /\ Kept1
        BY TargetMoves, TargetBranch DEF SyncClean, IInv, TypeOK, CloneOK, Refs, Forward, IsAncestor, Kept1
    <2> QED BY <2>1, <2>2 DEF SyncClean, IInv, TypeOK, CloneOK
<1>2. CallOK'
    BY NoRefTip, TargetBranch DEF IInv, TypeOK, CloneOK, CallOK, Place, SyncClean, Within, Goto, Done, Enter, Ends,
       branchVars, cloneVars, HarvestEnds, Branches, Worktrees, OnBranch, Harvesting, OfBranch, OfDetached, Harvested, SyncBlocked
<1>3. Place'
    BY TargetBranch DEF IInv, TypeOK, CloneOK, CallOK, Place, SyncClean, OfBranch, OfDetached, Harvested, OnBranch, Harvesting,
       Within, Goto, Done, Enter, Ends, branchVars, cloneVars, HarvestEnds, SyncBlocked
<1> QED BY <1>1, <1>2, <1>3 DEF IInv, TypeOK

LEMMA SyncDirtyStep ==
    ASSUME IInv, SyncDirty PROVE IInv' /\ Kept1
BY NoRefTip, TargetBranch DEF SyncDirty, IInv, TypeOK, CloneOK, CallOK, cloneVars, branchVars, Kept1,
   Place, OnBranch, Harvesting, OfBranch, OfDetached, Harvested, Within, SyncBlocked, Goto, Ends, Branches, Worktrees

LEMMA PlanStep ==
    ASSUME IInv, Plan PROVE IInv' /\ Kept1
<1>1. CloneOK' /\ Kept1
    BY DEF Plan, IInv, TypeOK, CloneOK, cloneVars, Kept1
<1>2. CallOK'
    BY NoRefTip, TargetBranch DEF IInv, TypeOK, CloneOK, CallOK, Place, Plan, Within, Goto, Done, Enter, Ends,
       branchVars, cloneVars, HarvestEnds, Branches, Worktrees, OnBranch, Harvesting, OfBranch, OfDetached, Harvested, Candidates
<1>3. Place'
    BY TargetBranch DEF IInv, TypeOK, CloneOK, CallOK, Place, Plan, OfBranch, OfDetached, Harvested, OnBranch, Harvesting,
       Within, Goto, Done, Enter, Ends, branchVars, cloneVars, HarvestEnds, Candidates
<1> QED BY <1>1, <1>2, <1>3 DEF IInv, TypeOK

LEMMA ReturnStep ==
    ASSUME IInv, Return PROVE IInv' /\ Kept1
BY NoRefTip, TargetBranch DEF Return, IInv, TypeOK, CloneOK, CallOK, cloneVars, branchVars, Kept1,
   Place, OnBranch, Harvesting, OfBranch, OfDetached, Harvested, Within, Ends, Branches, Worktrees

-----------------------------------------------------------------------------
(* RunBranchApply                                                          *)

LEMMA ApplySkipsStep ==
    ASSUME IInv, ApplySkips PROVE IInv' /\ Kept1
BY DEF ApplySkips, IInv, TypeOK, CloneOK, CallOK, cloneVars, branchVars, Kept1,
   Place, OnBranch, Harvesting, OfBranch, OfDetached, Harvested, Within, Enter

LEMMA ApplyTakesStep ==
    ASSUME IInv, ApplyTakes PROVE IInv' /\ Kept1
<1>1. CloneOK' /\ Kept1
    <2>1. worktree' \in [Worktrees -> Worktree]
        BY CheckoutOK, TargetPathOK, TargetBranch DEF ApplyTakes, CheckoutTarget, IInv, TypeOK
    <2> QED BY <2>1 DEF ApplyTakes, IInv, TypeOK, CloneOK, Kept1
<1>2. CallOK'
    BY NoRefTip, TargetBranch DEF IInv, TypeOK, CloneOK, CallOK, Place, ApplyTakes, Within, Goto, Done, Enter, Ends,
       branchVars, cloneVars, HarvestEnds, Branches, Worktrees, OnBranch, Harvesting, OfBranch, OfDetached, Harvested, Refs
<1>3. Place'
    BY TargetBranch DEF IInv, TypeOK, CloneOK, CallOK, Place, ApplyTakes, OfBranch, OfDetached, Harvested, OnBranch, Harvesting,
       Within, Goto, Done, Enter, Ends, branchVars, cloneVars, HarvestEnds, Refs
<1> QED BY <1>1, <1>2, <1>3 DEF IInv, TypeOK

LEMMA CherryPickStep ==
    ASSUME IInv, CherryPick PROVE IInv' /\ Kept1
<1>1. CloneOK' /\ Kept1
    <2>1. Missing(ref[Target], Source(cur)) \in SUBSET Commit
        BY SourceTip DEF Missing, Beyond, IInv, TypeOK, CallOK, Tip
    <2>2. PICK r \in Replays(ref[Target], Missing(ref[Target], Source(cur))) :
              ref' = [ref EXCEPT ![Target] = r.tip] /\ stopped' = r.stopped
        BY DEF CherryPick
    <2>3. ref[Target] \in Tip
        BY TargetBranch DEF IInv, TypeOK, CloneOK, Refs
    <2>4. r.tip \in Tip /\ ref[Target].log \subseteq r.tip.log /\ r.stopped \in {"none", "conflict", "empty"}
        BY <2>1, <2>3, ReplaysTip
    <2>5. ref' \in Refs /\ Kept1
        BY <2>2, <2>4, TargetMoves DEF IInv, TypeOK
    <2> QED BY <2>2, <2>4, <2>5 DEF CherryPick, IInv, TypeOK, CloneOK
<1>2. CallOK'
    BY NoRefTip, TargetBranch DEF IInv, TypeOK, CloneOK, CallOK, Place, CherryPick, Within, Goto, Done, Enter, Ends,
       branchVars, cloneVars, HarvestEnds, Branches, Worktrees, OnBranch, Harvesting, OfBranch, OfDetached, Harvested
<1>3. Place'
    BY TargetBranch DEF IInv, TypeOK, CloneOK, CallOK, Place, CherryPick, OfBranch, OfDetached, Harvested, OnBranch, Harvesting,
       Within, Goto, Done, Enter, Ends, branchVars, cloneVars, HarvestEnds
<1> QED BY <1>1, <1>2, <1>3 DEF IInv, TypeOK

LEMMA MergeStep ==
    ASSUME IInv, Merge PROVE IInv' /\ Kept1
<1>1. CloneOK' /\ Kept1
    <2>1. CASE UNCHANGED ref
        BY <2>1 DEF Merge, IInv, TypeOK, CloneOK, Kept1, Goto
    <2>2. CASE ~UNCHANGED ref
        <3> DEFINE t == [log |-> ref[Target].log \cup Source(cur).log \cup {Made({}, "merge")},
                         tree |-> ref[Target].tree \cup Source(cur).tree]
        <3>1. ref' = [ref EXCEPT ![Target] = t]
            BY <2>2 DEF Merge
        <3>2. Made({}, "merge") \in Commit
            BY MadeCommit DEF Makers
        <3>3. ref[Target] \in Tip /\ Source(cur) \in Tip
            BY SourceTip, TargetBranch DEF IInv, TypeOK, CallOK, CloneOK, Refs
        <3>4. t \in Tip
            BY <3>2, <3>3 DEF Tip
        <3> QED BY <2>2, <3>1, <3>4, TargetMoves DEF Merge, IInv, TypeOK, CloneOK
    <2> QED BY <2>1, <2>2
<1>2. CallOK'
    BY NoRefTip, TargetBranch DEF IInv, TypeOK, CloneOK, CallOK, Place, Merge, Within, Goto, Done, Enter, Ends,
       branchVars, cloneVars, HarvestEnds, Branches, Worktrees, OnBranch, Harvesting, OfBranch, OfDetached, Harvested
<1>3. Place'
    BY TargetBranch DEF IInv, TypeOK, CloneOK, CallOK, Place, Merge, OfBranch, OfDetached, Harvested, OnBranch, Harvesting,
       Within, Goto, Done, Enter, Ends, branchVars, cloneVars, HarvestEnds
<1> QED BY <1>1, <1>2, <1>3 DEF IInv, TypeOK

LEMMA FastForwardStep ==
    ASSUME IInv, FastForward PROVE IInv' /\ Kept1
<1>1. CloneOK' /\ Kept1
    <2>1. CASE UNCHANGED ref
        BY <2>1 DEF FastForward, IInv, TypeOK, CloneOK, Kept1
    <2>2. CASE ~UNCHANGED ref
        BY <2>2, TargetMoves, SourceTip DEF FastForward, IsAncestor, IInv, TypeOK, CallOK, CloneOK
    <2> QED BY <2>1, <2>2
<1>2. CallOK'
    BY NoRefTip, TargetBranch DEF IInv, TypeOK, CloneOK, CallOK, Place, FastForward, Within, Goto, Done, Enter, Ends,
       branchVars, cloneVars, HarvestEnds, Branches, Worktrees, OnBranch, Harvesting, OfBranch, OfDetached, Harvested
<1>3. Place'
    BY TargetBranch DEF IInv, TypeOK, CloneOK, CallOK, Place, FastForward, OfBranch, OfDetached, Harvested, OnBranch, Harvesting,
       Within, Goto, Done, Enter, Ends, branchVars, cloneVars, HarvestEnds
<1> QED BY <1>1, <1>2, <1>3 DEF IInv, TypeOK

LEMMA IntegrateRefusedStep ==
    ASSUME IInv, IntegrateRefused PROVE IInv' /\ Kept1
BY DEF IntegrateRefused, IInv, TypeOK, CloneOK, CallOK, cloneVars, branchVars, Kept1,
   Place, OnBranch, Harvesting, OfBranch, OfDetached, Harvested, Within, Done, Enter

LEMMA RecordReviewedStep ==
    ASSUME IInv, RecordReviewed PROVE IInv' /\ Kept1
<1>1. CloneOK' /\ Kept1
    <2>1. worktree' \in [Worktrees -> Worktree]
        BY CheckoutOK, TargetBranch DEF RecordReviewed, CheckoutTarget, IInv, TypeOK, Worktrees
    <2>2. PICK b \in todo : ref' = [ref EXCEPT ![Target].log = @ \cup ref[b].log \cup {Made({}, "ours")}]
        BY DEF RecordReviewed
    <2>3. b \in Sources /\ ref[b] \in Tip /\ ref[Target] \in Tip /\ Made({}, "ours") \in Commit
        BY MadeCommit, TargetBranch DEF RecordReviewed, Makers, IInv, Place, TypeOK, CloneOK, Refs
    <2> DEFINE t == [ref[Target] EXCEPT !.log = @ \cup ref[b].log \cup {Made({}, "ours")}]
    <2>4. t \in Tip /\ ref[Target].log \subseteq t.log /\ ref' = [ref EXCEPT ![Target] = t]
        BY <2>2, <2>3, TargetBranch DEF Tip, IInv, TypeOK, CloneOK, Refs
    <2>5. ref' \in Refs /\ Kept1
        BY <2>4, TargetMoves DEF IInv, TypeOK
    <2> QED BY <2>1, <2>5 DEF RecordReviewed, IInv, TypeOK, CloneOK
<1>2. CallOK'
    BY NoRefTip, TargetBranch DEF IInv, TypeOK, CloneOK, CallOK, Place, RecordReviewed, Within, Goto, Done, Enter, Ends,
       branchVars, cloneVars, HarvestEnds, Branches, Worktrees, OnBranch, Harvesting, OfBranch, OfDetached, Harvested, Refs
<1>3. Place'
    BY TargetBranch DEF IInv, TypeOK, CloneOK, CallOK, Place, RecordReviewed, OfBranch, OfDetached, Harvested, OnBranch, Harvesting,
       Within, Goto, Done, Enter, Ends, branchVars, cloneVars, HarvestEnds, Refs
<1> QED BY <1>1, <1>2, <1>3 DEF IInv, TypeOK

LEMMA PushStep ==
    ASSUME IInv, Push PROVE IInv' /\ Kept1
BY PushOK, NoRefTip, TargetBranch DEF Push, IInv, TypeOK, CloneOK, CallOK, cloneVars, branchVars, Kept1,
   Place, OnBranch, Harvesting, OfBranch, OfDetached, Harvested, Within, Done, Enter, Refs, Ends, Branches, Worktrees

-----------------------------------------------------------------------------
(* RunBranchRecovery                                                       *)

LEMMA RecoverContinueStep ==
    ASSUME IInv, RecoverContinue PROVE IInv' /\ Kept1
BY PushOK, NoRefTip, TargetBranch DEF RecoverContinue, IInv, TypeOK, CloneOK, CallOK, cloneVars, branchVars, Kept1,
   Place, OnBranch, Harvesting, OfBranch, OfDetached, Harvested, Within, Ends, Branches, Worktrees

LEMMA RecoverAbortStep ==
    ASSUME IInv, RecoverAbort
    PROVE  /\ IInv'
           /\ ref[Target].log \ ref'[Target].log \subseteq pending.expected.log \ pending.restore.log
<1>1. pending.restore \in Tip /\ ref' = [ref EXCEPT ![Target] = pending.restore]
    BY DEF RecoverAbort, IInv, TypeOK, CallOK
<1>2. CloneOK'
    BY <1>1, TargetBranch DEF RecoverAbort, IInv, TypeOK, CloneOK, Refs
<1>3. IInv'
    BY <1>2, EndsCall DEF RecoverAbort, IInv, TypeOK, CallOK
<1>4. ref[Target] = pending.expected /\ ref'[Target] = pending.restore
    BY <1>1, TargetBranch DEF RecoverAbort, Recoverable, IInv, TypeOK, CloneOK, Refs
<1> QED BY <1>3, <1>4

LEMMA RecoverRefusedStep ==
    ASSUME IInv, RecoverRefused PROVE IInv' /\ Kept1
BY NoRefTip, TargetBranch DEF RecoverRefused, IInv, TypeOK, CloneOK, CallOK, cloneVars, branchVars, Kept1,
   Place, OnBranch, Harvesting, OfBranch, OfDetached, Harvested, Within, Ends, Branches, Worktrees

-----------------------------------------------------------------------------
(* RunBranchRetire                                                         *)

LEMMA RetireSkipsStep ==
    ASSUME IInv, RetireSkips PROVE IInv' /\ Kept1
BY DEF RetireSkips, IInv, TypeOK, CloneOK, CallOK, cloneVars, branchVars, Kept1,
   Place, OnBranch, Harvesting, OfBranch, OfDetached, Harvested, Within, Enter

LEMMA RetireTakesStep ==
    ASSUME IInv, RetireTakes PROVE IInv' /\ Kept1
<1>1. CloneOK' /\ Kept1
    BY DEF RetireTakes, IInv, TypeOK, CloneOK, cloneVars, Kept1
<1>2. CallOK'
    BY NoRefTip, TargetBranch DEF IInv, TypeOK, CloneOK, CallOK, Place, RetireTakes, Within, Goto, Done, Enter, Ends,
       branchVars, cloneVars, HarvestEnds, Branches, Worktrees, OnBranch, Harvesting, OfBranch, OfDetached, Harvested, On, Branches
<1>3. Place'
    BY TargetBranch DEF IInv, TypeOK, CloneOK, CallOK, Place, RetireTakes, OfBranch, OfDetached, Harvested, OnBranch, Harvesting,
       Within, Goto, Done, Enter, Ends, branchVars, cloneVars, HarvestEnds, On, Branches
<1> QED BY <1>1, <1>2, <1>3 DEF IInv, TypeOK

LEMMA HarvestReadStep ==
    ASSUME IInv, HarvestRead PROVE IInv' /\ Kept1
<1>1. CloneOK' /\ Kept1
    <2>1. worktree' \in [Worktrees -> Worktree]
        BY CheckoutOK, TargetBranch DEF HarvestRead, CheckoutTarget, IInv, TypeOK, Worktrees, CloneOK
    <2> QED BY <2>1 DEF HarvestRead, IInv, TypeOK, CloneOK, Kept1
<1>2. CallOK'
    BY NoRefTip, TargetBranch DEF IInv, TypeOK, CloneOK, CallOK, Place, HarvestRead, Within, Goto, Done, Enter, Ends,
       branchVars, cloneVars, HarvestEnds, Branches, Worktrees, OnBranch, Harvesting, OfBranch, OfDetached, Harvested, Worktree, CheckoutTarget, Checkout, Clean, Worktrees
<1>3. Place'
    BY TargetBranch DEF IInv, TypeOK, CloneOK, CallOK, Place, HarvestRead, OfBranch, OfDetached, Harvested, OnBranch, Harvesting,
       Within, Goto, Done, Enter, Ends, branchVars, cloneVars, HarvestEnds, Worktree, CheckoutTarget, Checkout, Clean, Worktrees
<1> QED BY <1>1, <1>2, <1>3 DEF IInv, TypeOK

LEMMA HarvestCommitStep ==
    ASSUME IInv, HarvestCommit PROVE IInv' /\ Kept1
<1>1. CloneOK' /\ Kept1
    <2>1. worktree' \in [Worktrees -> Worktree]
        BY DEF HarvestCommit, IInv, TypeOK, CloneOK, CallOK, Worktree, Goto
    <2>2. Made(patch, "harvest") \in Commit /\ ref[Target] \in Tip
        BY MadeCommit, TargetBranch DEF Makers, IInv, TypeOK, CloneOK, CallOK, Refs
    <2>3. ref' \in Refs /\ Kept1
        BY <2>2, OntoTip, TargetMoves DEF HarvestCommit, IInv, TypeOK, CloneOK, Kept1
    <2> QED BY <2>1, <2>3 DEF HarvestCommit, IInv, TypeOK, CloneOK
<1>2. CallOK'
    BY NoRefTip, TargetBranch DEF IInv, TypeOK, CloneOK, CallOK, Place, HarvestCommit, Within, Goto, Done, Enter, Ends,
       branchVars, cloneVars, HarvestEnds, Branches, Worktrees, OnBranch, Harvesting, OfBranch, OfDetached, Harvested
<1>3. Place'
    BY TargetBranch DEF IInv, TypeOK, CloneOK, CallOK, Place, HarvestCommit, OfBranch, OfDetached, Harvested, OnBranch, Harvesting,
       Within, Goto, Done, Enter, Ends, branchVars, cloneVars, HarvestEnds
<1> QED BY <1>1, <1>2, <1>3 DEF IInv, TypeOK

LEMMA HarvestPushStep ==
    ASSUME IInv, HarvestPush PROVE IInv' /\ Kept1
<1>1. CloneOK' /\ Kept1
    BY PushOK DEF HarvestPush, IInv, TypeOK, CloneOK, Kept1
<1>2. CallOK'
    BY NoRefTip, TargetBranch DEF IInv, TypeOK, CloneOK, CallOK, Place, HarvestPush, Within, Goto, Done, Enter, Ends,
       branchVars, cloneVars, HarvestEnds, Branches, Worktrees, OnBranch, Harvesting, OfBranch, OfDetached, Harvested
<1>3. Place'
    BY TargetBranch DEF IInv, TypeOK, CloneOK, CallOK, Place, HarvestPush, OfBranch, OfDetached, Harvested, OnBranch, Harvesting,
       Within, Goto, Done, Enter, Ends, branchVars, cloneVars, HarvestEnds
<1> QED BY <1>1, <1>2, <1>3 DEF IInv, TypeOK

LEMMA HarvestRemoveStep ==
    ASSUME IInv, HarvestRemove PROVE IInv' /\ Kept1
<1>1. CloneOK' /\ Kept1
    <2>1. worktree' \in [Worktrees -> Worktree]
        BY RemoveOK DEF HarvestRemove, IInv, TypeOK, CloneOK, CallOK
    <2> QED BY <2>1 DEF HarvestRemove, IInv, TypeOK, CloneOK, Kept1
<1>2. CallOK'
    BY NoRefTip, TargetBranch DEF IInv, TypeOK, CloneOK, CallOK, Place, HarvestRemove, Within, Goto, Done, Enter, Ends,
       branchVars, cloneVars, HarvestEnds, Branches, Worktrees, OnBranch, Harvesting, OfBranch, OfDetached, Harvested
<1>3. Place'
    BY TargetBranch DEF IInv, TypeOK, CloneOK, CallOK, Place, HarvestRemove, OfBranch, OfDetached, Harvested, OnBranch, Harvesting,
       Within, Goto, Done, Enter, Ends, branchVars, cloneVars, HarvestEnds, Remove, Worktree
<1> QED BY <1>1, <1>2, <1>3 DEF IInv, TypeOK

LEMMA HandoffStep ==
    ASSUME IInv, Handoff PROVE IInv' /\ Kept1
<1>1. CloneOK' /\ Kept1
    <2> DEFINE released == [w \in Worktrees |->
                    IF w \in On(Target) THEN [worktree[w] EXCEPT !.on = "removed"] ELSE worktree[w]]
    <2>0. released \in [Worktrees -> Worktree]
        BY DEF IInv, TypeOK, CloneOK, Worktree
    <2>1. worktree' \in [Worktrees -> Worktree]
        <3>1. worktree' \in {worktree, released, [released EXCEPT !["primary"].on = Target]}
            BY DEF Handoff
        <3> HIDE DEF released
        <3>2. [released EXCEPT !["primary"].on = Target] \in [Worktrees -> Worktree]
            BY <2>0, TargetBranch DEF Worktree
        <3> QED BY <3>1, <3>2, <2>0 DEF IInv, TypeOK, CloneOK
    <2> QED BY <2>1 DEF Handoff, IInv, TypeOK, CloneOK, Kept1
<1>2. CallOK'
    BY NoRefTip, TargetBranch DEF IInv, TypeOK, CloneOK, CallOK, Place, Handoff, Within, Goto, Done, Enter, Ends,
       branchVars, cloneVars, HarvestEnds, Branches, Worktrees, OnBranch, Harvesting, OfBranch, OfDetached, Harvested
<1>3. Place'
    BY TargetBranch DEF IInv, TypeOK, CloneOK, CallOK, Place, Handoff, OfBranch, OfDetached, Harvested, OnBranch, Harvesting,
       Within, Goto, Done, Enter, Ends, branchVars, cloneVars, HarvestEnds
<1> QED BY <1>1, <1>2, <1>3 DEF IInv, TypeOK

LEMMA ReleaseStep ==
    ASSUME IInv, Release PROVE IInv' /\ Kept1
BY CheckoutOK, NoRefTip, TargetBranch DEF Release, IInv, TypeOK, CloneOK, CallOK, cloneVars, branchVars, Kept1,
   Place, OnBranch, Harvesting, OfBranch, OfDetached, Harvested, Within, Goto, Done, Enter, CheckoutTarget, Worktrees

LEMMA RemoveWorktreeStep ==
    ASSUME IInv, RemoveWorktree PROVE IInv' /\ Kept1
<1>1. CloneOK' /\ Kept1
    <2>1. worktree' \in [Worktrees -> Worktree]
        BY RemoveOK DEF RemoveWorktree, On, IInv, TypeOK, CloneOK
    <2> QED BY <2>1 DEF RemoveWorktree, IInv, TypeOK, CloneOK, Kept1
<1>2. CallOK'
    BY NoRefTip, TargetBranch DEF IInv, TypeOK, CloneOK, CallOK, Place, RemoveWorktree, Within, Goto, Done, Enter, Ends,
       branchVars, cloneVars, HarvestEnds, Branches, Worktrees, OnBranch, Harvesting, OfBranch, OfDetached, Harvested
<1>3. Place'
    BY TargetBranch DEF IInv, TypeOK, CloneOK, CallOK, Place, RemoveWorktree, OfBranch, OfDetached, Harvested, OnBranch, Harvesting,
       Within, Goto, Done, Enter, Ends, branchVars, cloneVars, HarvestEnds
<1> QED BY <1>1, <1>2, <1>3 DEF IInv, TypeOK

LEMMA DeleteLocalStep ==
    ASSUME IInv, DeleteLocal PROVE IInv' /\ Kept1
<1>1. CloneOK' /\ Kept1
    <2>1. UNCHANGED ref \/ ref' = [ref EXCEPT ![cur] = NoRef]
        BY DEF DeleteLocal
    <2>2. cur \in Sources
        BY DEF DeleteLocal, IInv, Place, OnBranch, OfBranch
    <2>3. ref' \in Refs /\ Kept1
        BY <2>1, <2>2, NoRefTip, TargetBranch DEF IInv, TypeOK, CloneOK, Refs, Kept1
    <2>4. upstream' \in [Branches -> Branches \cup {"none"}]
        BY DEF DeleteLocal, IInv, TypeOK, CloneOK
    <2> QED BY <2>3, <2>4 DEF DeleteLocal, IInv, TypeOK, CloneOK
<1>2. CallOK'
    BY NoRefTip, TargetBranch DEF IInv, TypeOK, CloneOK, CallOK, Place, DeleteLocal, Within, Goto, Done, Enter, Ends,
       branchVars, cloneVars, HarvestEnds, Branches, Worktrees, OnBranch, Harvesting, OfBranch, OfDetached, Harvested
<1>3. Place'
    BY TargetBranch DEF IInv, TypeOK, CloneOK, CallOK, Place, DeleteLocal, OfBranch, OfDetached, Harvested, OnBranch, Harvesting,
       Within, Goto, Done, Enter, Ends, branchVars, cloneVars, HarvestEnds
<1> QED BY <1>1, <1>2, <1>3 DEF IInv, TypeOK

LEMMA DeleteRemoteStep ==
    ASSUME IInv, DeleteRemote PROVE IInv' /\ Kept1
BY NoRefTip, TargetBranch DEF DeleteRemote, IInv, TypeOK, CloneOK, CallOK, cloneVars, branchVars, Kept1,
   Place, OnBranch, Harvesting, OfBranch, OfDetached, Harvested, Within, Done, Enter, Refs

LEMMA RemoveDetachedStep ==
    ASSUME IInv, RemoveDetached PROVE IInv' /\ Kept1
BY DEF RemoveDetached, IInv, TypeOK, CloneOK, CallOK, cloneVars, branchVars, Kept1,
   Place, OnBranch, Harvesting, OfBranch, OfDetached, Harvested, Within, Remove, Worktree

LEMMA HarvestDetachedStep ==
    ASSUME IInv, HarvestDetached PROVE IInv' /\ Kept1
<1>1. CloneOK' /\ Kept1
    BY DEF HarvestDetached, IInv, TypeOK, CloneOK, cloneVars, Kept1
<1>2. CallOK'
    BY NoRefTip, TargetBranch DEF IInv, TypeOK, CloneOK, CallOK, Place, HarvestDetached, Within, Goto, Done, Enter, Ends,
       branchVars, cloneVars, HarvestEnds, Branches, Worktrees, OnBranch, Harvesting, OfBranch, OfDetached, Harvested, Clean
<1>3. Place'
    BY TargetBranch DEF IInv, TypeOK, CloneOK, CallOK, Place, HarvestDetached, OfBranch, OfDetached, Harvested, OnBranch, Harvesting,
       Within, Goto, Done, Enter, Ends, branchVars, cloneVars, HarvestEnds, Clean
<1> QED BY <1>1, <1>2, <1>3 DEF IInv, TypeOK

LEMMA LeaveDetachedStep ==
    ASSUME IInv, LeaveDetached PROVE IInv' /\ Kept1
BY DEF LeaveDetached, IInv, TypeOK, CloneOK, CallOK, cloneVars, branchVars, Kept1,
   Place, OnBranch, Harvesting, OfBranch, OfDetached, Harvested, Within

LEMMA DetachedDoneStep ==
    ASSUME IInv, DetachedDone PROVE IInv' /\ Kept1
BY DEF DetachedDone, IInv, TypeOK, CloneOK, CallOK, cloneVars, branchVars, Kept1,
   Place, OnBranch, Harvesting, OfBranch, OfDetached, Harvested, Within

-----------------------------------------------------------------------------
(* The people of the clone, others, and a kill                             *)

LEMMA EditStep ==
    ASSUME IInv, Edit PROVE IInv' /\ Kept1
<1>1. worktree' \in [Worktrees -> Worktree] /\ \A v \in Worktrees : worktree'[v].on = worktree[v].on
    BY BranchAssumption DEF Edit, Live, IInv, TypeOK, CloneOK, Worktree
<1>2. UNCHANGED <<ref, tracking, published, upstream, stopped>> /\ UNCHANGED Elsewhere
    BY DEF Edit
<1>3. TypeOK' /\ Kept1
    BY <1>1, <1>2 DEF IInv, TypeOK, CloneOK, CallOK, Kept1, Elsewhere, branchVars
<1>4. Place'
    BY <1>1, <1>2 DEF IInv, TypeOK, CallOK, Place, OfBranch, OfDetached, Harvested, OnBranch, Harvesting,
       Elsewhere, branchVars
<1> QED BY <1>3, <1>4 DEF IInv

LEMMA AuthorStep ==
    ASSUME IInv, Author PROVE IInv' /\ Kept1
<1>1. CloneOK' /\ Kept1
    <2> PICK w \in Live :
            LET tip == Onto(HeadOf(w), {Made(worktree[w].edits, "author")})
                cleaned == [worktree EXCEPT ![w].edits = {}]
            IN  IF worktree[w].on = "detached"
                THEN worktree' = [cleaned EXCEPT ![w].at = tip] /\ UNCHANGED ref
                ELSE worktree' = cleaned /\ ref' = [ref EXCEPT ![worktree[w].on] = tip]
        BY DEF Author
    <2> DEFINE tip == Onto(HeadOf(w), {Made(worktree[w].edits, "author")})
    <2>1. worktree[w] \in Worktree /\ w \in Worktrees /\ worktree[w].on # "removed"
        BY DEF Live, IInv, TypeOK, CloneOK
    <2>2. Made(worktree[w].edits, "author") \in Commit
        BY <2>1, MadeCommit DEF Worktree, Makers
    <2>3. tip \in Tip /\ HeadOf(w).log \subseteq tip.log
        BY <2>2, HeadTip, OntoTip DEF IInv, TypeOK
    <2> HIDE DEF tip
    <2>4. CASE worktree[w].on = "detached"
        <3>1. worktree' = [worktree EXCEPT ![w].edits = {}, ![w].at = tip] /\ UNCHANGED ref
            BY <2>1, <2>4 DEF tip, IInv, TypeOK, CloneOK, Worktree
        <3> QED BY <3>1, <2>1, <2>3 DEF Author, IInv, TypeOK, CloneOK, Worktree, Kept1
    <2>5. CASE worktree[w].on # "detached"
        <3>1. worktree[w].on \in Branches /\ worktree' = [worktree EXCEPT ![w].edits = {}]
              /\ ref' = [ref EXCEPT ![worktree[w].on] = tip]
            BY <2>1, <2>5 DEF tip, Worktree
        <3>2. worktree' \in [Worktrees -> Worktree]
            BY <3>1, <2>1 DEF IInv, TypeOK, CloneOK, Worktree
        <3>3. ref' \in Refs /\ Kept1
            BY <3>1, <2>3, <2>5, TargetBranch DEF HeadOf, IInv, TypeOK, CloneOK, Refs, Kept1
        <3> QED BY <3>2, <3>3 DEF Author, IInv, TypeOK, CloneOK
    <2> QED BY <2>4, <2>5
<1>2. CallOK'
    BY NoRefTip, TargetBranch DEF IInv, TypeOK, CloneOK, CallOK, Place, Author, Within, Goto, Done, Enter, Ends,
       branchVars, cloneVars, HarvestEnds, Branches, Worktrees, OnBranch, Harvesting, OfBranch, OfDetached, Harvested, Elsewhere
<1>3. Place'
    BY TargetBranch DEF IInv, TypeOK, CloneOK, CallOK, Place, Author, OfBranch, OfDetached, Harvested, OnBranch, Harvesting,
       Within, Goto, Done, Enter, Ends, branchVars, cloneVars, HarvestEnds, Elsewhere
<1> QED BY <1>1, <1>2, <1>3 DEF IInv, TypeOK

LEMMA UndoStep ==
    ASSUME IInv, Undo PROVE IInv' /\ Kept1
BY DEF Undo, IInv, TypeOK, CloneOK, CallOK, cloneVars, branchVars, Kept1,
   Place, OnBranch, Harvesting, OfBranch, OfDetached, Harvested, Within, Elsewhere

LEMMA OthersPushStep ==
    ASSUME IInv, OthersPush PROVE IInv' /\ Kept1
<1>1. CloneOK' /\ Kept1
    <2> PICK p \in Theirs, b \in Branches :
              published' = [published EXCEPT ![b] = Onto(@, {Made({p}, "author")})]
        BY DEF OthersPush
    <2>1. Made({p}, "author") \in Commit
        BY MadeCommit, LifecycleAssumption DEF Makers
    <2>2. published' \in Refs
        BY <2>1, OntoTip, TargetBranch DEF IInv, TypeOK, CloneOK, Refs
    <2> QED BY <2>2 DEF OthersPush, IInv, TypeOK, CloneOK, Kept1
<1>2. CallOK'
    BY NoRefTip, TargetBranch DEF IInv, TypeOK, CloneOK, CallOK, Place, OthersPush, Within, Goto, Done, Enter, Ends,
       branchVars, cloneVars, HarvestEnds, Branches, Worktrees, OnBranch, Harvesting, OfBranch, OfDetached, Harvested, Elsewhere, Clean
<1>3. Place'
    BY TargetBranch DEF IInv, TypeOK, CloneOK, CallOK, Place, OthersPush, OfBranch, OfDetached, Harvested, OnBranch, Harvesting,
       Within, Goto, Done, Enter, Ends, branchVars, cloneVars, HarvestEnds, Elsewhere, Clean
<1> QED BY <1>1, <1>2, <1>3 DEF IInv, TypeOK

LEMMA KillStep ==
    ASSUME IInv, Kill PROVE IInv' /\ Kept1
BY NoRefTip, TargetBranch DEF Kill, IInv, TypeOK, CloneOK, CallOK, cloneVars, branchVars, Kept1,
   Place, OnBranch, Harvesting, OfBranch, OfDetached, Harvested, Within, Ends, Branches, Worktrees

-----------------------------------------------------------------------------
(* The theorems                                                            *)

LEMMA InitIInv == Init => IInv
<1> SUFFICES ASSUME Init PROVE IInv
    OBVIOUS
<1>1. CloneOK
    <2> PICK s \in Starts : /\ ref = s.ref /\ tracking = s.tracking /\ published = s.published
                             /\ upstream = s.upstream /\ worktree = s.worktree
        BY DEF Init
    <2> QED BY LifecycleAssumption DEF Init, CloneOK
<1>2. CallOK
    BY NoRefTip, TargetBranch DEF Init, CallOK, NoPending, Worktrees
<1>3. Place
    BY DEF Init, Place, OnBranch, Harvesting
<1> QED BY <1>1, <1>2, <1>3 DEF IInv, TypeOK

LEMMA StutterStep ==
    ASSUME IInv, UNCHANGED vars PROVE IInv' /\ Kept1
BY DEF vars, IInv, TypeOK, CloneOK, CallOK, Place, OnBranch, Harvesting, OfBranch, OfDetached,
       Harvested, cloneVars, branchVars, Kept1

LEMMA NextStep ==
    ASSUME IInv, [Next]_vars
    PROVE  /\ IInv'
           /\ ref[Target].log \ ref'[Target].log \subseteq pending.expected.log \ pending.restore.log
<1>1. CASE RecoverAbort
    BY <1>1, RecoverAbortStep
<1>2. CASE ~RecoverAbort
    <2>1. IInv' /\ Kept1
        BY <1>2, StutterStep, SyncRefusedStep, SyncCleanStep, SyncDirtyStep, PlanStep, ReturnStep,
           ApplySkipsStep, ApplyTakesStep, CherryPickStep, MergeStep,
           FastForwardStep, IntegrateRefusedStep, RecordReviewedStep, PushStep, RecoverContinueStep,
           RecoverRefusedStep, RetireSkipsStep, RetireTakesStep, HarvestReadStep,
           HarvestCommitStep, HarvestPushStep, HarvestRemoveStep, HandoffStep,
           ReleaseStep, RemoveWorktreeStep, DeleteLocalStep, DeleteRemoteStep,
           RemoveDetachedStep, HarvestDetachedStep, LeaveDetachedStep,
           DetachedDoneStep, EditStep, AuthorStep, UndoStep, OthersPushStep,
           KillStep, BeginStep
           DEF Next, Command, People
    <2> QED BY <2>1 DEF Kept1
<1> QED BY <1>1, <1>2

THEOREM LifecycleInvariant == Spec => []IInv
BY InitIInv, NextStep, PTL DEF Spec

THEOREM LifecycleTypes == Spec => []TypeOK
<1>1. IInv => TypeOK
    BY DEF IInv
<1> QED BY <1>1, LifecycleInvariant, PTL

THEOREM TargetIsKept == Spec => TargetLosesOnlyThePending
<1>1. IInv /\ [Next]_vars
        => [ref[Target].log \ ref'[Target].log
                \subseteq pending.expected.log \ pending.restore.log]_vars
    BY NextStep
<1> QED BY <1>1, LifecycleInvariant, PTL DEF Spec, TargetLosesOnlyThePending

-----------------------------------------------------------------------------
(* What is taken away                                                      *)

Retiring == {"handoff", "release", "remove", "delete"}
Looked == {"plan", "branch", "remote", "detached"} \cup Retiring \cup Harvesting

\* A worktree that is gone has no edits.
GoneIsClean == \A w \in Worktrees : worktree[w].on = "removed" => worktree[w].edits = {}

Retires ==
    /\ pc \in {"remote", "detached"} \cup Retiring \cup Harvesting => call.op = "retire"
    /\ pc \in {"integrate", "push"} => call.op # "retire"

\* What the plan found integrated still is; and so is what was fetched of the
\* remote branch, if that is all there is, or if the branch that tracks it was
\* not behind.
Proven ==
    call.op = "retire" /\ pc \in Looked \ {"plan"} =>
        \A b \in DOMAIN plan :
            /\ b \in Sources
            /\ plan[b].integrated => Contains(ref[Target], ref[b])
            /\ /\ plan[b].integrated
               /\ plan[b].remoteOnly \/ (~plan[b].behind /\ upstream[b] = b)
               => Contains(ref[Target], tracking[b])

\* The branch that is being retired was found integrated.
ForBranch == pc \in Retiring \/ (pc \in Harvesting /\ worktree[from].on # "detached")
Chosen ==
    /\ call.op = "retire" /\ pc = "branch" => todo \subseteq DOMAIN plan
    /\ ForBranch => todo \subseteq DOMAIN plan /\ cur \in DOMAIN plan /\ plan[cur].integrated
    /\ pc = "remote" => /\ todo \subseteq DOMAIN plan
                        /\ plan[cur].behind \/ Contains(ref[Target], tracking[cur])

\* What a harvest carries: the edits of its worktree that it has read.
Carried ==
    pc \in Harvesting =>
        /\ from # "primary" /\ worktree[from].on # "removed"
        /\ worktree[from].on = "detached" => Contains(ref[Target], worktree[from].at)
        /\ pc # "harvest" => patch \subseteq worktree[from].edits
        /\ pc = "commit" => worktree["primary"].on = Target
        /\ pc \in {"publish", "forget"} => Made(patch, "harvest") \in ref[Target].log
        /\ pc = "forget" => Made(patch, "harvest") \in published[Target].log

Course == Retires /\ Proven /\ Chosen /\ Carried
LossInv == GoneIsClean /\ Course

\* A step that takes away only what may go.
Lawful ==
    /\ \A b \in Sources :
          /\ ref[b] # NoRef /\ ref'[b] = NoRef => Contains(ref[Target], ref[b])
          /\ published[b] # NoRef /\ published'[b] = NoRef =>
                 plan[b].behind \/ Contains(ref[Target], tracking[b])
    /\ \A w \in Worktrees : worktree'[w].on = "removed" =>
          /\ worktree[w].on = "detached" => Contains(ref[Target], worktree[w].at)
          /\ worktree[w].edits \ Late(w) \subseteq Committed(published)
    /\ AllEdits \subseteq Held' \cup UNION {Late(w) : w \in Worktrees}

-----------------------------------------------------------------------------
(* Proofs of integration                                                   *)

\* A proof of integration outlives what is added to the target.
LEMMA ContainsGrows ==
    ASSUME NEW t, NEW u, NEW b, t.log \subseteq u.log, t.tree \subseteq u.tree, Contains(t, b)
    PROVE  Contains(u, b)
BY DEF Contains, Empty

\* It holds of what the branch reaches.
LEMMA ContainsLess ==
    ASSUME NEW t, NEW b, NEW c, b.log \subseteq c.log, Contains(t, c)
    PROVE  Contains(t, b)
BY DEF Contains

LEMMA NothingContained ==
    ASSUME NEW t
    PROVE  Contains(t, NoRef)
BY DEF Contains, NoRef

LEMMA AncestorContained ==
    ASSUME NEW t, NEW b, IsAncestor(b, t)
    PROVE  Contains(t, b)
BY DEF Contains, IsAncestor

\* git cherry finds nothing missing, or nothing that would change the tree.
LEMMA NoneMissing ==
    ASSUME NEW t, NEW b, \A c \in Missing(t, b) : Empty(c, t)
    PROVE  Contains(t, b)
BY DEF Missing, Beyond, Contains

LEMMA IntegratedContains ==
    ASSUME NEW b, NEW f, NEW n, Integrated(b, f, n)
    PROVE  Contains(ref[Target], Source(b))
<1>1. CASE Merged(b)
    BY <1>1, AncestorContained DEF Merged
<1>2. CASE PatchEquivalent(b, f)
    BY <1>2, NoneMissing DEF PatchEquivalent
<1>3. CASE CherryPickNoop(b)
    BY <1>3, NoneMissing DEF CherryPickNoop
<1> QED BY <1>1, <1>2, <1>3 DEF Integrated

-----------------------------------------------------------------------------
(* Steps that take nothing away                                            *)

\* The source branches stay, the edits too, and no worktree goes.
Harmless ==
    /\ \A b \in Sources : /\ ref'[b] = ref[b]
                          /\ published'[b] = NoRef => published[b] = NoRef
    /\ \A w \in Worktrees : /\ worktree[w].edits \subseteq worktree'[w].edits
                            /\ worktree'[w].on = "removed" =>
                                 worktree[w].on = "removed" /\ worktree'[w].edits = worktree[w].edits

LEMMA HarmlessLawful ==
    ASSUME GoneIsClean, Harmless
    PROVE  Lawful /\ GoneIsClean'
<1>1. GoneIsClean'
    BY DEF GoneIsClean, Harmless
<1>2. AllEdits \subseteq Held'
    BY DEF AllEdits, Held, Harmless
<1> QED BY <1>1, <1>2 DEF Lawful, Harmless, GoneIsClean

\* A worktree that is checked out anew keeps its edits.
LEMMA CheckoutHarmless ==
    ASSUME CloneOK, NEW w \in Worktrees, NEW b \in Branches, Checkout(w, b)
    PROVE  \A v \in Worktrees : /\ worktree'[v].edits = worktree[v].edits
                                /\ worktree'[v].at = worktree[v].at
                                /\ worktree'[v].on = IF v = w THEN b ELSE worktree[v].on
BY DEF CloneOK, Checkout, Worktree

\* Between two calls, and while a call does anything but retire.
LEMMA NotRetiring ==
    ASSUME \/ pc' \in {"idle", "sync", "recover"}
           \/ call'.op # "retire" /\ pc' \in {"plan", "branch", "integrate", "push"}
    PROVE  Course'
BY DEF Course, Retires, Proven, Chosen, ForBranch, Carried, Looked, Retiring, Harvesting

\* What was proven stays so while the target only grows.
LEMMA ProvenStays ==
    ASSUME Proven, call.op = "retire", pc \in Looked \ {"plan"}, UNCHANGED plan,
           ref[Target].log \subseteq ref'[Target].log, ref[Target].tree \subseteq ref'[Target].tree,
           \A b \in Sources : /\ ref'[b] \in {ref[b], NoRef} /\ tracking'[b] \in {tracking[b], NoRef}
                              /\ upstream'[b] \in {upstream[b], "none"}
    PROVE  Proven'
<1> SUFFICES ASSUME NEW b \in DOMAIN plan, plan[b].integrated
             PROVE  /\ b \in Sources /\ Contains(ref'[Target], ref'[b])
                    /\ plan[b].remoteOnly \/ (~plan[b].behind /\ upstream'[b] = b)
                         => Contains(ref'[Target], tracking'[b])
    BY DEF Proven
<1>1. /\ b \in Sources /\ Contains(ref[Target], ref[b])
      /\ plan[b].remoteOnly \/ (~plan[b].behind /\ upstream[b] = b)
           => Contains(ref[Target], tracking[b])
    BY DEF Proven
<1>2. Contains(ref'[Target], ref'[b])
    BY <1>1, ContainsGrows, NothingContained
<1>3. upstream'[b] = b => upstream[b] = b
    BY <1>1, TargetBranch
<1>4. plan[b].remoteOnly \/ (~plan[b].behind /\ upstream'[b] = b) => Contains(ref'[Target], tracking'[b])
    BY <1>1, <1>3, ContainsGrows, NothingContained
<1> QED BY <1>1, <1>2, <1>4

\* What a step comes to that takes nothing away.
LEMMA HarmlessStep ==
    ASSUME LossInv, Harmless, Course'
    PROVE  LossInv' /\ Lawful
BY HarmlessLawful DEF LossInv

\* A step of another command, or of none.
LEMMA OtherStep ==
    ASSUME LossInv, Harmless,
           \/ pc' \in {"idle", "sync", "recover"}
           \/ call'.op # "retire" /\ pc' \in {"plan", "branch", "integrate", "push"}
    PROVE  LossInv' /\ Lawful
BY NotRetiring, HarmlessStep

LEMMA SameClone ==
    ASSUME UNCHANGED cloneVars
    PROVE  Harmless
BY DEF Harmless, cloneVars

LEMMA TargetOnly ==
    ASSUME CloneOK, UNCHANGED worktree,
           \A b \in Sources : ref'[b] = ref[b] /\ published'[b] = published[b]
    PROVE  Harmless
BY DEF Harmless

LEMMA CheckoutOnly ==
    ASSUME CloneOK, NEW w \in Worktrees, Checkout(w, Target),
           \A b \in Sources : ref'[b] = ref[b] /\ published'[b] = published[b]
    PROVE  Harmless
BY CheckoutHarmless, TargetBranch DEF Harmless

-----------------------------------------------------------------------------
(* Calls that do not retire                                                *)

LEMMA BeginKeeps ==
    ASSUME IInv, LossInv, Begin PROVE LossInv' /\ Lawful
BY SameClone, OtherStep DEF Begin

LEMMA EndKeeps ==
    ASSUME IInv, LossInv, Ends, UNCHANGED cloneVars PROVE LossInv' /\ Lawful
BY SameClone, OtherStep DEF Ends

LEMMA KillKeeps ==
    ASSUME IInv, LossInv, Kill PROVE LossInv' /\ Lawful
BY EndKeeps DEF Kill

LEMMA RecoverKeeps ==
    ASSUME IInv, LossInv, RecoverContinue \/ RecoverAbort \/ RecoverRefused
    PROVE  LossInv' /\ Lawful
<1>1. pc' = "idle"
    BY DEF RecoverContinue, RecoverAbort, RecoverRefused, Ends
<1>2. UNCHANGED <<upstream, worktree>>
    BY DEF RecoverContinue, RecoverAbort, RecoverRefused, cloneVars
<1>3. \A b \in Sources : ref'[b] = ref[b] /\ published'[b] = published[b]
    BY TargetBranch DEF RecoverContinue, RecoverAbort, RecoverRefused, cloneVars, PushTarget, PushFails,
       IInv, TypeOK, CloneOK, Refs
<1> QED BY <1>1, <1>2, <1>3, TargetOnly, OtherStep DEF IInv, TypeOK

LEMMA ApplySkipsKeeps ==
    ASSUME IInv, LossInv, ApplySkips PROVE LossInv' /\ Lawful
BY SameClone, OtherStep DEF ApplySkips, Enter, Within

LEMMA IntegrateRefusedKeeps ==
    ASSUME IInv, LossInv, IntegrateRefused PROVE LossInv' /\ Lawful
BY SameClone, OtherStep DEF IntegrateRefused, Done, Enter, Within, LossInv, Course, Retires

LEMMA ApplyTakesKeeps ==
    ASSUME IInv, LossInv, ApplyTakes PROVE LossInv' /\ Lawful
<1>1. Harmless
    BY CheckoutOnly, TargetPathOK DEF ApplyTakes, CheckoutTarget, IInv, TypeOK
<1> QED BY <1>1, OtherStep DEF ApplyTakes, Within

LEMMA RecordReviewedKeeps ==
    ASSUME IInv, LossInv, RecordReviewed PROVE LossInv' /\ Lawful
<1>1. \A b \in Sources : ref'[b] = ref[b] /\ published'[b] = published[b]
    BY TargetBranch DEF RecordReviewed, IInv, TypeOK, CloneOK, Refs
<1>2. Harmless
    BY <1>1, CheckoutOnly DEF RecordReviewed, CheckoutTarget, IInv, TypeOK, Worktrees
<1> QED BY <1>2, OtherStep DEF RecordReviewed, Within

LEMMA IntegrateKeeps ==
    ASSUME IInv, LossInv, CherryPick \/ Merge \/ FastForward \/ Push PROVE LossInv' /\ Lawful
<1>1. pc' \in {"branch", "push", "idle"} /\ (pc' # "idle" => call'.op # "retire")
    BY DEF CherryPick, Merge, FastForward, Push, Done, Enter, Goto, Ends, Within,
       LossInv, Course, Retires
<1>2. UNCHANGED <<upstream, worktree>>
    BY DEF CherryPick, Merge, FastForward, Push
<1>3. \A b \in Sources : ref'[b] = ref[b] /\ published'[b] = published[b]
    BY TargetBranch DEF CherryPick, Merge, FastForward, Push, PushTarget, PushFails,
       IInv, TypeOK, CloneOK, Refs
<1> QED BY <1>1, <1>2, <1>3, TargetOnly, OtherStep DEF IInv, TypeOK

-----------------------------------------------------------------------------
(* The people of the clone and others                                      *)

LEMMA EditKeeps ==
    ASSUME IInv, LossInv, Edit PROVE LossInv' /\ Lawful
<1>1. \A v \in Worktrees : /\ worktree'[v].on = worktree[v].on /\ worktree'[v].at = worktree[v].at
                           /\ worktree[v].edits \subseteq worktree'[v].edits
                           /\ worktree[v].on = "removed" => worktree'[v].edits = worktree[v].edits
    BY DEF Edit, Live, IInv, TypeOK, CloneOK, Worktree
<1>2. UNCHANGED <<ref, tracking, published, upstream, pc, call, plan, todo, cur, patch, from>>
      /\ from \in Worktrees /\ "primary" \in Worktrees
    BY DEF Edit, Elsewhere, branchVars, IInv, TypeOK, CallOK, Worktrees
<1>3. Harmless
    BY <1>1, <1>2 DEF Harmless
<1>4. Retires' /\ Proven'
    BY <1>2 DEF LossInv, Course, Retires, Proven
<1>5. Chosen'
    BY <1>1, <1>2 DEF LossInv, Course, Chosen, ForBranch
<1>6. Carried'
    BY <1>1, <1>2 DEF LossInv, Course, Carried
<1> QED BY <1>3, <1>4, <1>5, <1>6, HarmlessStep DEF Course

LEMMA UndoKeeps ==
    ASSUME IInv, LossInv, Undo PROVE LossInv' /\ Lawful
<1>1. Harmless
    BY DEF Undo, Harmless
<1> QED BY <1>1, OtherStep DEF Undo, Elsewhere

LEMMA OthersPushKeeps ==
    ASSUME IInv, LossInv, OthersPush PROVE LossInv' /\ Lawful
<1> PICK p \in Theirs, b \in Branches :
        published' = [published EXCEPT ![b] = Onto(@, {Made({p}, "author")})]
    BY DEF OthersPush
<1>1. \A c \in Branches : published[c].log \subseteq published'[c].log
    BY DEF Onto, IInv, TypeOK, CloneOK, Refs
<1>2. \A c \in Branches : published'[c] = NoRef => published[c] = NoRef
    <2>1. Onto(published[b], {Made({p}, "author")}) # NoRef
        BY DEF Onto, NoRef
    <2> QED BY <2>1 DEF IInv, TypeOK, CloneOK, Refs
<1>3. Harmless
    BY <1>2, TargetBranch DEF OthersPush, Harmless
<1>4. UNCHANGED <<ref, tracking, upstream, worktree, pc, call, plan, todo, cur, patch, from>>
    BY DEF OthersPush, Elsewhere, branchVars
<1>5. Retires' /\ Proven' /\ Chosen'
    BY <1>4 DEF LossInv, Course, Retires, Proven, Chosen, ForBranch
<1>6. Carried'
    BY <1>1, <1>4, TargetBranch DEF LossInv, Course, Carried
<1> QED BY <1>3, <1>5, <1>6, HarmlessStep DEF Course

\* The edits go into a commit, which is on a branch or where the worktree is.
LEMMA AuthorKeeps ==
    ASSUME IInv, LossInv, Author PROVE LossInv' /\ Lawful
<1>0. PICK w \in Live :
        LET tip == Onto(HeadOf(w), {Made(worktree[w].edits, "author")})
            cleaned == [worktree EXCEPT ![w].edits = {}]
        IN  IF worktree[w].on = "detached"
            THEN worktree' = [cleaned EXCEPT ![w].at = tip] /\ UNCHANGED ref
            ELSE worktree' = cleaned /\ ref' = [ref EXCEPT ![worktree[w].on] = tip]
    BY DEF Author
<1> DEFINE made == Made(worktree[w].edits, "author")
           tip == Onto(HeadOf(w), {made})
<1>1. w \in Worktrees /\ worktree[w] \in Worktree /\ worktree[w].on # "removed"
      /\ worktree \in [Worktrees -> Worktree] /\ ref \in [Branches -> Tip]
    BY DEF Live, IInv, TypeOK, CloneOK, Refs
<1>2. tip.log = HeadOf(w).log \cup {made} /\ made.patches = worktree[w].edits
    BY DEF Onto, Made
<1> HIDE DEF made, tip
<1>3. \A v \in Worktrees : /\ worktree'[v].on = worktree[v].on
                           /\ v # w => worktree'[v].edits = worktree[v].edits
    <2>1. CASE worktree[w].on = "detached"
        <3>1. worktree' = [worktree EXCEPT ![w].edits = {}, ![w].at = tip]
            BY <2>1, <1>0, <1>1 DEF tip, made, Worktree
        <3> QED BY <3>1, <1>1 DEF Worktree
    <2>2. CASE worktree[w].on # "detached"
        <3>1. worktree' = [worktree EXCEPT ![w].edits = {}]
            BY <2>2, <1>0 DEF tip, made
        <3> QED BY <3>1, <1>1 DEF Worktree
    <2> QED BY <2>1, <2>2
<1>4. worktree[w].on = "detached" => HeadOf(w)' = tip /\ UNCHANGED ref
    <2> SUFFICES ASSUME worktree[w].on = "detached" PROVE HeadOf(w)' = tip /\ UNCHANGED ref
        OBVIOUS
    <2>1. worktree' = [worktree EXCEPT ![w].edits = {}, ![w].at = tip] /\ UNCHANGED ref
        BY <1>0, <1>1 DEF tip, made, Worktree
    <2> QED BY <2>1, <1>1 DEF HeadOf, Worktree
<1>5. worktree[w].on # "detached" =>
          worktree[w].on \in Branches /\ ref' = [ref EXCEPT ![worktree[w].on] = tip]
          /\ HeadOf(w) = ref[worktree[w].on]
    BY <1>0, <1>1 DEF tip, made, Worktree, HeadOf
<1>6. \A b \in Branches : ref[b].log \subseteq ref'[b].log /\ (ref'[b] # ref[b] => made \in ref'[b].log)
    BY <1>1, <1>2, <1>4, <1>5
<1>7. \A b \in Sources : ref[b] # NoRef => ref'[b] # NoRef
    BY <1>6, TargetBranch DEF NoRef
<1>8. AllEdits \subseteq Held'
    <2> SUFFICES ASSUME NEW v \in Worktrees, NEW e \in worktree[v].edits PROVE e \in Held'
        BY DEF AllEdits
    <2>1. CASE v # w
        BY <2>1, <1>3 DEF Held, AllEdits
    <2>2. CASE v = w /\ worktree[w].on = "detached"
        <3>1. w \in Live' /\ made \in (HeadOf(w).log)'
            BY <2>2, <1>1, <1>2, <1>3, <1>4 DEF Live
        <3>2. e \in made.patches
            BY <2>2, <1>2
        <3> QED BY <3>1, <3>2 DEF Held
    <2>3. CASE v = w /\ worktree[w].on # "detached"
        <3>1. made \in ref'[worktree[w].on].log /\ worktree[w].on \in Branches
            BY <2>3, <1>1, <1>2, <1>5
        <3>2. e \in made.patches
            BY <2>3, <1>2
        <3>3. made \in UNION {ref'[b].log : b \in Branches}
            BY <3>1
        <3>4. e \in Committed(ref')
            BY <3>2, <3>3 DEF Committed
        <3>5. e \in Committed(ref)'
            BY <3>4 DEF Committed
        <3> QED BY <3>5 DEF Held
    <2> QED BY <2>1, <2>2, <2>3
<1>9. UNCHANGED <<tracking, published, upstream, pc>> /\ pc = "idle"
    BY DEF Author, Elsewhere
<1>10. GoneIsClean'
    BY <1>1, <1>3 DEF LossInv, GoneIsClean
<1>11. Course'
    BY <1>9, NotRetiring
<1>12. Lawful
    BY <1>1, <1>3, <1>7, <1>8, <1>9 DEF Lawful, LossInv, GoneIsClean
<1> QED BY <1>10, <1>11, <1>12 DEF LossInv

-----------------------------------------------------------------------------
(* The target is synchronised and the branches planned                     *)

LEMMA SyncRefusedKeeps ==
    ASSUME IInv, LossInv, SyncRefused PROVE LossInv' /\ Lawful
<1>1. pc' = "idle" \/ (call'.op # "retire" /\ pc' = "plan")
    BY DEF SyncRefused, SyncBlocked, Ends, Goto, Within
<1> QED BY <1>1, SameClone, OtherStep DEF SyncRefused

\* The call goes on to plan.
LEMMA Planning ==
    ASSUME pc' = "plan", Retires
    PROVE  Course'
BY DEF Course, Retires, Proven, Chosen, ForBranch, Carried, Looked, Retiring, Harvesting

LEMMA SyncCleanKeeps ==
    ASSUME IInv, LossInv, SyncClean PROVE LossInv' /\ Lawful
<1>1. \A b \in Sources : ref'[b] = ref[b] /\ published'[b] = published[b]
    BY TargetBranch DEF SyncClean, IInv, TypeOK, CloneOK, Refs
<1>2. Harmless
    BY <1>1, CheckoutOnly, TargetPathOK DEF SyncClean, IInv, TypeOK
<1>3. pc' = "idle" \/ pc' = "plan"
    BY DEF SyncClean, SyncBlocked, Ends, Goto
<1>4. Course'
    BY <1>3, Planning, NotRetiring DEF SyncClean, LossInv, Course
<1> QED BY <1>2, <1>4, HarmlessStep

LEMMA SyncDirtyKeeps ==
    ASSUME IInv, LossInv, SyncDirty PROVE LossInv' /\ Lawful
<1>1. Harmless
    BY DEF SyncDirty, Harmless
<1>2. pc' = "idle" \/ pc' = "plan"
    BY DEF SyncDirty, SyncBlocked, Ends, Goto
<1>3. Course'
    BY <1>2, Planning, NotRetiring DEF SyncDirty, LossInv, Course
<1> QED BY <1>1, <1>3, HarmlessStep

LEMMA PlanKeeps ==
    ASSUME IInv, LossInv, Plan PROVE LossInv' /\ Lawful
<1>1. Harmless
    BY SameClone DEF Plan
<1>2. CASE call.op # "retire"
    BY <1>2, <1>1, OtherStep DEF Plan
<1>3. CASE call.op = "retire"
    <2>1. pc' = "branch" /\ call' = call /\ todo' \subseteq Candidates /\ UNCHANGED <<ref, tracking, upstream, worktree>>
        BY DEF Plan, cloneVars
    <2>2. DOMAIN plan' = Candidates
        BY DEF Plan
    <2>3. \A b \in Candidates : b \in Sources /\ plan'[b] = Planned(b, call.only # "all", call.op = "retire")
        BY DEF Plan, Candidates
    <2>4. \A b \in Candidates :
             /\ plan'[b].integrated => Contains(ref[Target], Source(b))
             /\ plan'[b].remoteOnly <=> RemoteOnly(b)
             /\ plan'[b].behind <=> BehindOf(b)
        <3> TAKE b \in Candidates
        <3> DEFINE f == call.only # "all"
                   n == call.op = "retire"
        <3> HIDE DEF f, n
        <3>1. plan'[b] = Planned(b, f, n)
            BY <2>3 DEF f, n
        <3>2. /\ plan'[b].integrated = Integrated(b, f, n) /\ plan'[b].remoteOnly = RemoteOnly(b)
              /\ plan'[b].behind = BehindOf(b)
            BY <3>1 DEF Planned
        <3> QED BY <3>2, IntegratedContains
    <2>5. ASSUME NEW b \in Candidates, plan'[b].integrated
          PROVE  /\ Contains(ref[Target], ref[b])
                 /\ plan'[b].remoteOnly \/ (~plan'[b].behind /\ upstream[b] = b)
                      => Contains(ref[Target], tracking[b])
        <3>1. Contains(ref[Target], Source(b)) /\ (plan'[b].remoteOnly <=> RemoteOnly(b))
              /\ (plan'[b].behind <=> BehindOf(b)) /\ b \in Sources
            BY <2>3, <2>4, <2>5
        <3>2. CASE RemoteOnly(b)
            BY <3>1, <3>2, NothingContained DEF Source, RemoteOnly
        <3>3. CASE ~RemoteOnly(b)
            <4>1. Contains(ref[Target], ref[b])
                BY <3>1, <3>3 DEF Source
            <4>2. ASSUME ~BehindOf(b), upstream[b] = b
                  PROVE  Contains(ref[Target], tracking[b])
                <5>1. CASE tracking[b] = NoRef
                    BY <5>1, NothingContained
                <5>2. CASE tracking[b] # NoRef
                    <6>1. HasUpstream(b)
                        BY <3>1, <3>3, <4>2, <5>2, TargetBranch DEF HasUpstream
                    <6>2. tracking[b].log \subseteq ref[b].log
                        BY <4>2, <6>1 DEF BehindOf, IsAncestor
                    <6> QED BY <4>1, <6>2, ContainsLess
                <5> QED BY <5>1, <5>2
            <4> QED BY <3>1, <3>3, <4>1, <4>2
        <3> QED BY <3>2, <3>3
    <2>6. Proven'
        BY <2>1, <2>2, <2>3, <2>5 DEF Proven
    <2>7. Retires' /\ Chosen' /\ Carried'
        BY <2>1, <2>2 DEF Retires, Chosen, ForBranch, Carried, Retiring, Harvesting
    <2> QED BY <1>1, <2>6, <2>7, HarmlessStep DEF Course
<1> QED BY <1>2, <1>3

LEMMA ReturnKeeps ==
    ASSUME IInv, LossInv, Return PROVE LossInv' /\ Lawful
<1>1. CASE Ends
    BY <1>1, EndKeeps DEF Return
<1>2. CASE ~Ends
    <2>1. call.op = "retire" /\ pc = "branch" /\ pc' = "detached"
          /\ UNCHANGED <<ref, tracking, published, upstream, call, plan>>
        BY <1>2 DEF Return, cloneVars, Within
    <2>2. Course'
        BY <2>1 DEF LossInv, Course, Retires, Proven, Chosen, ForBranch, Carried,
           Looked, Retiring, Harvesting
    <2> QED BY <2>2, SameClone, HarmlessStep DEF Return
<1> QED BY <1>1, <1>2

-----------------------------------------------------------------------------
(* RunBranchRetire                                                         *)

LEMMA RetireSkipsKeeps ==
    ASSUME IInv, LossInv, RetireSkips PROVE LossInv' /\ Lawful
<1>1. call.op = "retire" /\ pc = "branch" /\ pc' = "branch" /\ todo' \subseteq todo
      /\ UNCHANGED <<ref, tracking, published, upstream, call, plan>>
    BY DEF RetireSkips, Enter, Within, cloneVars
<1>2. Course'
    BY <1>1 DEF LossInv, Course, Retires, Proven, Chosen, ForBranch, Carried,
       Looked, Retiring, Harvesting
<1> QED BY <1>2, SameClone, HarmlessStep DEF RetireSkips

LEMMA RetireTakesKeeps ==
    ASSUME IInv, LossInv, RetireTakes PROVE LossInv' /\ Lawful
<1> PICK b \in todo :
      /\ plan[b].integrated /\ cur' = b
      /\ \/ plan[b].remoteOnly /\ pc' = "remote"
         \/ On(b) = {} /\ pc' = "release"
         \/ \E w \in On(b) :
              /\ from' = w
              /\ pc' = IF w = "primary" THEN "handoff"
                       ELSE IF Clean(w) THEN "release" ELSE "harvest"
    BY DEF RetireTakes
<1>1. call.op = "retire" /\ pc = "branch"
      /\ UNCHANGED <<ref, tracking, published, upstream, worktree, call, plan, todo>>
    BY DEF RetireTakes, Within, cloneVars
<1>2. b \in DOMAIN plan /\ b \in Sources /\ todo \subseteq DOMAIN plan
    BY <1>1 DEF LossInv, Course, Chosen, IInv, Place
<1>3. pc' \in {"remote", "release", "handoff", "harvest"}
    OBVIOUS
<1>4. Retires' /\ Proven'
    BY <1>1, <1>3 DEF LossInv, Course, Retires, Proven, Looked, Retiring, Harvesting
<1>5. pc' = "remote" => plan[b].behind \/ Contains(ref[Target], tracking[b])
    <2>1. plan[b].remoteOnly => Contains(ref[Target], tracking[b])
        BY <1>1, <1>2 DEF LossInv, Course, Proven, Looked, Retiring, Harvesting
    <2>2. \A w \in On(b) : (IF w = "primary" THEN "handoff"
                            ELSE IF Clean(w) THEN "release" ELSE "harvest") # "remote"
        OBVIOUS
    <2> QED BY <2>1, <2>2
<1>6. Chosen'
    BY <1>1, <1>2, <1>3, <1>5 DEF Chosen, ForBranch
<1>7. Carried'
    BY <1>1, <1>2, <1>3, TargetBranch DEF Carried, Harvesting, On
<1> QED BY <1>4, <1>6, <1>7, SameClone, HarmlessStep DEF Course, RetireTakes

\* A harvest that ends early has taken nothing.
LEMMA HarvestEndsCourse ==
    ASSUME IInv, LossInv, pc \in Harvesting, HarvestEnds,
           ref[Target].log \subseteq ref'[Target].log, ref[Target].tree \subseteq ref'[Target].tree,
           \A b \in Sources : ref'[b] = ref[b], UNCHANGED <<tracking, upstream>>
    PROVE  Course'
<1>1. pc' \in {"branch", "detached"} /\ UNCHANGED <<call, plan>> /\ todo' \subseteq todo
    BY DEF HarvestEnds, Done, Enter, Within
<1>2. pc \in Looked \ {"plan"} /\ call.op = "retire"
    BY DEF Looked, Harvesting, LossInv, Course, Retires
<1>3. pc' = "branch" => worktree[from].on # "detached"
    BY DEF HarvestEnds
<1>4. Proven'
    BY <1>1, <1>2, ProvenStays DEF LossInv, Course
<1>5. Chosen'
    BY <1>1, <1>3 DEF LossInv, Course, Chosen, ForBranch, Retiring, Harvesting
<1>6. Retires' /\ Carried'
    BY <1>1, <1>2 DEF Retires, Carried, Harvesting, Retiring
<1> QED BY <1>4, <1>5, <1>6 DEF Course

\* A harvest that goes on keeps what it knows of its branch.
LEMMA HarvestGoesOn ==
    ASSUME IInv, LossInv, pc \in Harvesting, pc' \in Harvesting \cup {"release"},
           ref[Target].log \subseteq ref'[Target].log, ref[Target].tree \subseteq ref'[Target].tree,
           \A b \in Sources : ref'[b] = ref[b],
           UNCHANGED <<tracking, upstream, call, plan, todo, cur, from>>,
           (pc' = "release" \/ worktree'[from].on # "detached") => worktree[from].on # "detached"
    PROVE  Retires' /\ Proven' /\ Chosen'
<1>1. pc \in Looked \ {"plan"} /\ call.op = "retire"
    BY DEF Looked, Harvesting, LossInv, Course, Retires
<1>2. Proven'
    BY <1>1, ProvenStays DEF LossInv, Course
<1>3. Chosen'
    BY DEF LossInv, Course, Chosen, ForBranch, Retiring, Harvesting
<1>4. Retires'
    BY <1>1 DEF Retires, Harvesting
<1> QED BY <1>2, <1>3, <1>4

LEMMA HarvestReadKeeps ==
    ASSUME IInv, LossInv, HarvestRead PROVE LossInv' /\ Lawful
<1>1. /\ pc = "harvest" /\ pc \in Harvesting
      /\ UNCHANGED <<ref, tracking, published, upstream>>
    BY DEF HarvestRead, Harvesting
<1>2. CASE UNCHANGED worktree /\ HarvestEnds
    <2>1. Course'
        BY <1>1, <1>2, HarvestEndsCourse
    <2>2. Harmless
        BY <1>1, <1>2 DEF Harmless
    <2> QED BY <2>1, <2>2, HarmlessStep
<1>3. CASE ~(UNCHANGED worktree /\ HarvestEnds)
    <2>1. /\ Clean("primary") /\ Checkout("primary", Target)
          /\ patch' = worktree[from].edits /\ pc' = "commit"
          /\ UNCHANGED <<call, plan, todo, cur, from>>
        BY <1>3 DEF HarvestRead, CheckoutTarget, Goto, Within
    <2>2. \A v \in Worktrees : /\ worktree'[v].edits = worktree[v].edits
                               /\ worktree'[v].at = worktree[v].at
                               /\ worktree'[v].on = IF v = "primary" THEN Target ELSE worktree[v].on
        BY <2>1, CheckoutHarmless DEF IInv, TypeOK, Branches, Worktrees
    <2>3. Harmless
        BY <1>1, <2>1, CheckoutOnly DEF IInv, TypeOK, Worktrees
    <2>4. from \in Worktrees /\ from # "primary" /\ "primary" \in Worktrees
          /\ worktree[from].on # "removed"
          /\ (worktree[from].on = "detached" => Contains(ref[Target], worktree[from].at))
        BY <1>1 DEF IInv, TypeOK, CallOK, LossInv, Course, Carried, Worktrees
    <2>6. Retires' /\ Proven' /\ Chosen'
        BY <1>1, <2>1, <2>2, <2>4, HarvestGoesOn DEF Harvesting
    <2>7. Carried'
        BY <1>1, <2>1, <2>2, <2>4 DEF Carried
    <2> QED BY <2>3, <2>6, <2>7, HarmlessStep DEF Course
<1> QED BY <1>2, <1>3

LEMMA HarvestCommitKeeps ==
    ASSUME IInv, LossInv, HarvestCommit PROVE LossInv' /\ Lawful
<1> DEFINE made == Made(patch, "harvest")
<1>1. /\ pc = "commit" /\ pc \in Harvesting
      /\ UNCHANGED <<tracking, published, upstream>>
    BY DEF HarvestCommit, Harvesting
<1>2. from \in Worktrees /\ from # "primary" /\ "primary" \in Worktrees
      /\ worktree[from].on # "removed"
      /\ (worktree[from].on = "detached" => Contains(ref[Target], worktree[from].at))
      /\ patch \subseteq worktree[from].edits /\ worktree["primary"].on = Target
    BY <1>1 DEF IInv, TypeOK, CallOK, LossInv, Course, Carried, Worktrees
<1>3. CASE UNCHANGED <<ref, worktree>> /\ HarvestEnds
    <2>1. Course'
        BY <1>1, <1>3, HarvestEndsCourse
    <2>2. Harmless
        BY <1>1, <1>3 DEF Harmless
    <2> QED BY <2>1, <2>2, HarmlessStep
<1>4. CASE worktree' = [worktree EXCEPT !["primary"].edits = @ \cup patch] /\ UNCHANGED ref /\ HarvestEnds
    <2>1. Course'
        BY <1>1, <1>4, HarvestEndsCourse
    <2>2. Harmless
        BY <1>1, <1>2, <1>4, TargetBranch DEF Harmless, IInv, TypeOK, CloneOK, Worktree
    <2> QED BY <2>1, <2>2, HarmlessStep
<1>5. CASE /\ ref' = [ref EXCEPT ![Target] = Onto(@, {made})]
           /\ pc' = "publish" /\ UNCHANGED <<worktree, branchVars, call, plan, todo, cur>>
    <2>1. \A b \in Sources : ref'[b] = ref[b] /\ published'[b] = published[b]
        BY <1>1, <1>5, TargetBranch DEF IInv, TypeOK, CloneOK, Refs
    <2>2. Harmless
        BY <1>1, <1>5, <2>1 DEF Harmless
    <2>3. ref'[Target] = Onto(ref[Target], {made})
        BY <1>5, TargetBranch DEF IInv, TypeOK, CloneOK, Refs
    <2>4. /\ ref[Target].log \subseteq ref'[Target].log /\ ref[Target].tree \subseteq ref'[Target].tree
          /\ made \in ref'[Target].log
        BY <2>3 DEF Onto
    <2> HIDE DEF made
    <2>5. UNCHANGED <<worktree, call, plan, todo, cur, from, patch>>
        BY <1>5 DEF branchVars
    <2>6. Retires' /\ Proven' /\ Chosen'
        BY <1>1, <1>5, <2>1, <2>4, <2>5, HarvestGoesOn DEF Harvesting
    <2>7. worktree[from].on = "detached" => Contains(ref'[Target], worktree[from].at)
        BY <1>2, <2>4, ContainsGrows
    <2>8. Made(patch, "harvest")' = made
        BY <2>5 DEF made
    <2>9. Carried'
        BY <1>2, <1>5, <2>4, <2>5, <2>7, <2>8 DEF Carried
    <2> QED BY <2>2, <2>6, <2>9, HarmlessStep DEF Course
<1>6. \/ UNCHANGED <<ref, worktree>> /\ HarvestEnds
      \/ worktree' = [worktree EXCEPT !["primary"].edits = @ \cup patch] /\ UNCHANGED ref /\ HarvestEnds
      \/ /\ ref' = [ref EXCEPT ![Target] = Onto(@, {made})]
         /\ pc' = "publish" /\ UNCHANGED <<worktree, branchVars, call, plan, todo, cur>>
    BY DEF HarvestCommit, Goto, Within
<1> QED BY <1>3, <1>4, <1>5, <1>6

LEMMA HarvestPushKeeps ==
    ASSUME IInv, LossInv, HarvestPush PROVE LossInv' /\ Lawful
<1>1. /\ pc = "publish" /\ pc \in Harvesting
      /\ UNCHANGED <<ref, tracking, upstream, worktree>>
    BY DEF HarvestPush, Harvesting
<1>2. \A b \in Sources : published'[b] = published[b]
    BY TargetBranch DEF HarvestPush, PushTarget, PushFails, IInv, TypeOK, CloneOK, Refs
<1>3. Harmless
    BY <1>1, <1>2 DEF Harmless
<1>4. CASE HarvestEnds
    BY <1>1, <1>2, <1>3, <1>4, HarvestEndsCourse, HarmlessStep
<1>5. CASE ~HarvestEnds
    <2>1. PushTarget /\ pc' = "forget" /\ UNCHANGED <<call, plan, todo, cur, from, patch>>
        BY <1>5 DEF HarvestPush, Goto, Within, branchVars
    <2>2. published'[Target] = ref[Target]
        BY <2>1, TargetBranch DEF PushTarget, IInv, TypeOK, CloneOK, Refs
    <2>3. Retires' /\ Proven' /\ Chosen'
        BY <1>1, <1>2, <2>1, HarvestGoesOn DEF Harvesting
    <2>4. Carried'
        BY <1>1, <2>1, <2>2 DEF LossInv, Course, Carried
    <2> QED BY <1>3, <2>3, <2>4, HarmlessStep DEF Course
<1> QED BY <1>4, <1>5

\* The worktree goes: what it had is in a commit, and that was pushed.
LEMMA HarvestRemoveKeeps ==
    ASSUME IInv, LossInv, HarvestRemove PROVE LossInv' /\ Lawful
<1> DEFINE made == Made(patch, "harvest")
<1>1. /\ pc = "forget" /\ pc \in Harvesting
      /\ UNCHANGED <<ref, tracking, published, upstream>>
    BY DEF HarvestRemove, Harvesting
<1>2. CASE UNCHANGED worktree /\ HarvestEnds
    <2>1. Harmless
        BY <1>1, <1>2 DEF Harmless
    <2> QED BY <1>1, <1>2, <2>1, HarvestEndsCourse, HarmlessStep
<1>3. CASE Remove(from)
    <2>1. from \in Worktrees /\ from # "primary" /\ worktree[from].on # "removed"
          /\ (worktree[from].on = "detached" => Contains(ref[Target], worktree[from].at))
          /\ patch \subseteq worktree[from].edits
          /\ made \in ref[Target].log /\ made \in published[Target].log
        BY <1>1 DEF IInv, TypeOK, CallOK, LossInv, Course, Carried
    <2>2. made.patches = patch /\ Late(from) = worktree[from].edits \ patch
        BY <1>1 DEF Made, Late
    <2> HIDE DEF made
    <2>3. \A v \in Worktrees : /\ v # from => worktree'[v].on = worktree[v].on
                               /\ v # from => worktree'[v].edits = worktree[v].edits
        BY <1>3, <2>1 DEF Remove, IInv, TypeOK, CloneOK, Worktree
    <2>4. worktree'[from].on = "removed" /\ worktree'[from].edits = {}
        BY <1>3, <2>1 DEF Remove, IInv, TypeOK, CloneOK, Worktree
    <2>5. worktree[from].edits \ Late(from) \subseteq Committed(published)
        BY <2>1, <2>2, TargetBranch DEF Committed
    <2>6. worktree[from].edits \ Late(from) \subseteq Committed(ref)
        BY <2>1, <2>2, TargetBranch DEF Committed
    <2>7. Committed(ref)' = Committed(ref)
        BY <1>1 DEF Committed
    <2>8. AllEdits \subseteq Held' \cup UNION {Late(w) : w \in Worktrees}
        <3>1. worktree[from].edits \subseteq Committed(ref)' \cup Late(from)
            BY <2>6, <2>7
        <3> QED BY <2>1, <2>3, <3>1 DEF AllEdits, Held
    <2>9. Lawful
        BY <1>1, <2>1, <2>3, <2>5, <2>8 DEF Lawful, LossInv, GoneIsClean
    <2>10. GoneIsClean'
        BY <2>3, <2>4 DEF LossInv, GoneIsClean
    <2>12. Course'
        <3>1. CASE HarvestEnds
            BY <1>1, <3>1, HarvestEndsCourse
        <3>2. CASE pc' = "release" /\ worktree[from].on # "detached"
                   /\ UNCHANGED <<call, plan, todo, cur, from>>
            <4>1. Retires' /\ Proven' /\ Chosen'
                BY <1>1, <3>2, HarvestGoesOn
            <4>2. Carried'
                BY <3>2 DEF Carried, Harvesting
            <4> QED BY <4>1, <4>2 DEF Course
        <3>3. HarvestEnds \/ (pc' = "release" /\ worktree[from].on # "detached"
                              /\ UNCHANGED <<call, plan, todo, cur, from>>)
            BY DEF HarvestRemove, HarvestEnds, Goto, Within, branchVars
        <3> QED BY <3>1, <3>2, <3>3
    <2> QED BY <2>9, <2>10, <2>12 DEF LossInv
<1> QED BY <1>2, <1>3 DEF HarvestRemove

-----------------------------------------------------------------------------
(* The worktrees and the refs of a branch                                  *)

\* The branch is left: it is blocked or retired, and the next one is taken.
LEMMA LeaveBranch ==
    ASSUME IInv, LossInv, pc \in Retiring \cup {"remote"}, pc' = "branch",
           UNCHANGED <<call, plan>>, todo' \subseteq todo, ref'[Target] = ref[Target],
           \A b \in Sources : /\ ref'[b] \in {ref[b], NoRef} /\ tracking'[b] \in {tracking[b], NoRef}
                              /\ upstream'[b] \in {upstream[b], "none"}
    PROVE  Course'
<1>1. pc \in Looked \ {"plan"} /\ call.op = "retire"
    BY DEF Looked, Retiring, LossInv, Course, Retires
<1>2. Proven'
    BY <1>1, ProvenStays DEF LossInv, Course
<1>3. Chosen'
    BY DEF LossInv, Course, Chosen, ForBranch, Retiring, Harvesting
<1>4. Retires' /\ Carried'
    BY <1>1 DEF Retires, Carried, Harvesting, Retiring
<1> QED BY <1>2, <1>3, <1>4 DEF Course

\* The branch goes on being retired, or its remote branch is next.
LEMMA GoOn ==
    ASSUME IInv, LossInv, pc \in Retiring, pc' \in Retiring \cup {"remote"},
           UNCHANGED <<call, plan, todo, cur, tracking>>, ref'[Target] = ref[Target],
           \A b \in Sources : ref'[b] \in {ref[b], NoRef} /\ upstream'[b] \in {upstream[b], "none"},
           pc' = "remote" => plan[cur].behind \/ Contains(ref[Target], tracking[cur])
    PROVE  Course'
<1>1. pc \in Looked \ {"plan"} /\ call.op = "retire"
    BY DEF Looked, Retiring, LossInv, Course, Retires
<1>2. Proven'
    BY <1>1, ProvenStays DEF LossInv, Course
<1>3. Chosen'
    BY DEF LossInv, Course, Chosen, ForBranch, Retiring, Harvesting
<1>4. Retires' /\ Carried'
    BY <1>1 DEF Retires, Carried, Harvesting, Retiring
<1> QED BY <1>2, <1>3, <1>4 DEF Course

\* The linked worktrees that had the target go: each is clean.
LEMMA HandoffKeeps ==
    ASSUME IInv, LossInv, Handoff PROVE LossInv' /\ Lawful
<1> DEFINE released == [w \in Worktrees |->
                IF w \in On(Target) THEN [worktree[w] EXCEPT !.on = "removed"] ELSE worktree[w]]
<1>1. /\ pc \in Retiring /\ pc' \in {"branch", "delete"} /\ UNCHANGED <<ref, tracking, published, upstream>>
      /\ UNCHANGED <<call, plan>> /\ todo' \subseteq todo /\ (pc' = "delete" => UNCHANGED <<todo, cur>>)
    BY DEF Handoff, Retiring, Goto, Done, Enter, Within
<1>2. Course'
    BY <1>1, LeaveBranch, GoOn DEF Retiring, LossInv, Course, Looked
<1>3. CASE UNCHANGED worktree
    <2>1. Harmless
        BY <1>1, <1>3 DEF Harmless
    <2> QED BY <2>1, <1>2, HarmlessStep
<1>4. CASE ~UNCHANGED worktree
    <2>1. worktree' \in {released, [released EXCEPT !["primary"].on = Target]}
          /\ \A w \in On(Target) : worktree[w].edits = {}
        BY <1>4 DEF Handoff, Clean
    <2>2. released \in [Worktrees -> Worktree]
        BY DEF IInv, TypeOK, CloneOK, Worktree
    <2>3. \A w \in Worktrees : /\ released[w].edits = worktree[w].edits
                               /\ released[w].on = "removed" => w \in On(Target) \/ worktree[w].on = "removed"
        BY DEF IInv, TypeOK, CloneOK, Worktree
    <2> HIDE DEF released
    <2>4. \A w \in Worktrees : /\ worktree'[w].edits = worktree[w].edits
                               /\ worktree'[w].on = "removed" => w \in On(Target) \/ worktree[w].on = "removed"
        BY <2>1, <2>2, <2>3, TargetBranch DEF Worktree
    <2>5. \A w \in Worktrees : worktree'[w].on = "removed" =>
              worktree[w].edits = {} /\ worktree[w].on # "detached"
        BY <2>1, <2>4, TargetBranch DEF On, LossInv, GoneIsClean
    <2>6. AllEdits \subseteq Held'
        BY <2>4 DEF AllEdits, Held
    <2>7. Lawful
        BY <1>1, <2>5, <2>6 DEF Lawful
    <2>8. GoneIsClean'
        BY <1>1, <2>4, <2>5 DEF GoneIsClean, LossInv
    <2> QED BY <1>2, <2>7, <2>8 DEF LossInv
<1> QED BY <1>3, <1>4

LEMMA ReleaseKeeps ==
    ASSUME IInv, LossInv, Release PROVE LossInv' /\ Lawful
<1>1. /\ pc \in Retiring /\ pc' \in {"branch", "remove"} /\ UNCHANGED <<ref, tracking, published, upstream>>
      /\ UNCHANGED <<call, plan>> /\ todo' \subseteq todo /\ (pc' = "remove" => UNCHANGED <<todo, cur>>)
    BY DEF Release, Retiring, Goto, Done, Enter, Within
<1>2. Course'
    BY <1>1, LeaveBranch, GoOn DEF Retiring, LossInv, Course, Looked
<1>3. Harmless
    <2>1. CASE UNCHANGED worktree
        BY <1>1, <2>1 DEF Harmless
    <2>2. CASE ~UNCHANGED worktree
        BY <1>1, <2>2, CheckoutOnly DEF Release, CheckoutTarget, IInv, TypeOK, Worktrees
    <2> QED BY <2>1, <2>2
<1> QED BY <1>2, <1>3, HarmlessStep

\* A clean worktree goes.
LEMMA RemoveClean ==
    ASSUME IInv, LossInv, NEW w \in Worktrees, Remove(w), Clean(w), UNCHANGED <<ref, published, upstream>>,
           worktree[w].on = "detached" => Contains(ref[Target], worktree[w].at)
    PROVE  Lawful /\ GoneIsClean'
<1>1. worktree[w].edits = {}
    BY DEF Clean
<1>2. \A v \in Worktrees : /\ worktree'[v].edits = worktree[v].edits
                           /\ v # w => worktree'[v].on = worktree[v].on
    BY <1>1 DEF Remove, IInv, TypeOK, CloneOK, Worktree
<1>3. AllEdits \subseteq Held'
    BY <1>2 DEF AllEdits, Held
<1>4. Lawful
    BY <1>1, <1>2, <1>3 DEF Lawful, LossInv, GoneIsClean
<1>5. GoneIsClean'
    BY <1>1, <1>2 DEF LossInv, GoneIsClean
<1> QED BY <1>4, <1>5

LEMMA RemoveWorktreeKeeps ==
    ASSUME IInv, LossInv, RemoveWorktree PROVE LossInv' /\ Lawful
<1>1. /\ pc \in Retiring /\ pc' \in {"branch", "delete"} /\ UNCHANGED <<ref, tracking, published, upstream>>
      /\ UNCHANGED <<call, plan>> /\ todo' \subseteq todo /\ (pc' = "delete" => UNCHANGED <<todo, cur>>)
    BY DEF RemoveWorktree, Retiring, Goto, Done, Enter, Within
<1>2. Course'
    BY <1>1, LeaveBranch, GoOn DEF Retiring, LossInv, Course, Looked
<1>3. CASE UNCHANGED worktree
    <2>1. Harmless
        BY <1>1, <1>3 DEF Harmless
    <2> QED BY <2>1, <1>2, HarmlessStep
<1>4. CASE ~UNCHANGED worktree
    <2>1. PICK w \in On(cur) : Clean(w) /\ Remove(w)
        BY <1>4 DEF RemoveWorktree
    <2>2. w \in Worktrees /\ worktree[w].on # "detached"
        BY <2>1, TargetBranch DEF On, IInv, TypeOK, CallOK
    <2>3. Lawful /\ GoneIsClean'
        BY <1>1, <2>1, <2>2, RemoveClean
    <2> QED BY <1>2, <2>3 DEF LossInv
<1> QED BY <1>3, <1>4

\* The local branch goes; what is next of the remote's was integrated with it.
LEMMA DeleteLocalKeeps ==
    ASSUME IInv, LossInv, DeleteLocal PROVE LossInv' /\ Lawful
<1>1. /\ pc = "delete" /\ pc \in Retiring /\ pc' \in {"branch", "remote"}
      /\ UNCHANGED <<tracking, published, worktree, call, plan>>
      /\ todo' \subseteq todo /\ (pc' = "remote" => UNCHANGED <<todo, cur>>)
    BY DEF DeleteLocal, Retiring, Goto, Done, Enter, Within
<1>2. cur \in Sources /\ Contains(ref[Target], ref[cur])
      /\ (~plan[cur].behind /\ upstream[cur] = cur => Contains(ref[Target], tracking[cur]))
    BY <1>1 DEF IInv, Place, OnBranch, OfBranch, LossInv, Course, Retires, Proven, Chosen,
       ForBranch, Looked, Retiring
<1>3. CASE UNCHANGED <<ref, upstream>> /\ pc' = "branch"
    <2>1. Harmless
        BY <1>1, <1>3 DEF Harmless
    <2>2. Course'
        BY <1>1, <1>3, LeaveBranch
    <2> QED BY <2>1, <2>2, HarmlessStep
<1>4. CASE /\ ref' = [ref EXCEPT ![cur] = NoRef] /\ upstream' = [upstream EXCEPT ![cur] = "none"]
           /\ pc' = "remote" => PublishedSameName(cur) \/ (HasUpstream(cur) /\ upstream[cur] = cur)
    <2>1. /\ \A b \in Branches : ref'[b] = IF b = cur THEN NoRef ELSE ref[b]
          /\ \A b \in Branches : upstream'[b] = IF b = cur THEN "none" ELSE upstream[b]
        BY <1>2, <1>4, TargetBranch DEF IInv, TypeOK, CloneOK, Refs
    <2>2. /\ ref'[Target] = ref[Target]
          /\ \A b \in Sources : ref'[b] \in {ref[b], NoRef} /\ upstream'[b] \in {upstream[b], "none"}
        BY <1>2, <2>1, TargetBranch
    <2>3. pc' = "remote" => plan[cur].behind \/ Contains(ref[Target], tracking[cur])
        BY <1>2, <1>4 DEF PublishedSameName
    <2>4. Course'
        BY <1>1, <2>2, <2>3, LeaveBranch, GoOn DEF Retiring
    <2>5. GoneIsClean'
        BY <1>1 DEF LossInv, GoneIsClean
    <2>7. AllEdits \subseteq Held'
        BY <1>1 DEF AllEdits, Held
    <2>8. Lawful
        BY <1>1, <1>2, <2>1, <2>7, TargetBranch DEF Lawful, LossInv, GoneIsClean
    <2> QED BY <2>4, <2>5, <2>8 DEF LossInv
<1> QED BY <1>3, <1>4 DEF DeleteLocal, Done, Enter

LEMMA DeleteRemoteKeeps ==
    ASSUME IInv, LossInv, DeleteRemote PROVE LossInv' /\ Lawful
<1>1. /\ pc = "remote" /\ pc' = "branch" /\ UNCHANGED <<ref, upstream, worktree, call, plan>>
      /\ todo' \subseteq todo
    BY DEF DeleteRemote, Done, Enter, Within
<1>2. cur \in Sources /\ (plan[cur].behind \/ Contains(ref[Target], tracking[cur]))
    BY <1>1 DEF IInv, Place, OnBranch, OfBranch, LossInv, Course, Chosen
<1>3. CASE UNCHANGED <<published, tracking>>
    <2>1. Harmless
        BY <1>1, <1>3 DEF Harmless
    <2>2. Course'
        BY <1>1, <1>3, LeaveBranch
    <2> QED BY <2>1, <2>2, HarmlessStep
<1>4. CASE /\ published' = [published EXCEPT ![cur] = NoRef]
           /\ tracking' = [tracking EXCEPT ![cur] = NoRef]
    <2>1. /\ \A b \in Branches : published'[b] = IF b = cur THEN NoRef ELSE published[b]
          /\ \A b \in Branches : tracking'[b] = IF b = cur THEN NoRef ELSE tracking[b]
        BY <1>2, <1>4, TargetBranch DEF IInv, TypeOK, CloneOK, Refs
    <2>2. \A b \in Sources :
             /\ ref'[b] \in {ref[b], NoRef} /\ tracking'[b] \in {tracking[b], NoRef}
             /\ upstream'[b] = upstream[b]
        BY <1>1, <2>1, TargetBranch
    <2>3. Course'
        BY <1>1, <2>2, LeaveBranch
    <2>4. GoneIsClean'
        BY <1>1 DEF LossInv, GoneIsClean
    <2>6. AllEdits \subseteq Held'
        BY <1>1 DEF AllEdits, Held
    <2>7. Lawful
        BY <1>1, <1>2, <2>1, <2>6, TargetBranch DEF Lawful, LossInv, GoneIsClean
    <2> QED BY <2>3, <2>4, <2>7 DEF LossInv
<1> QED BY <1>3, <1>4 DEF DeleteRemote

-----------------------------------------------------------------------------
(* The detached worktrees                                                  *)

LEMMA DetachedContained ==
    ASSUME NEW w, DetachedIntegrated(w)
    PROVE  Contains(ref[Target], worktree[w].at)
<1>1. CASE IsAncestor(worktree[w].at, ref[Target])
    BY <1>1, AncestorContained
<1>2. CASE Missing(ref[Target], worktree[w].at) = {}
    BY <1>2, NoneMissing
<1> QED BY <1>1, <1>2 DEF DetachedIntegrated

\* The loop goes on, or the call has done its work.
LEMMA NextDetached ==
    ASSUME IInv, LossInv, pc = "detached", pc' \in {"detached", "idle"},
           UNCHANGED <<ref, tracking, upstream, call, plan>>
    PROVE  Course'
BY DEF LossInv, Course, Retires, Proven, Chosen, ForBranch, Carried, Looked, Retiring, Harvesting

LEMMA RemoveDetachedKeeps ==
    ASSUME IInv, LossInv, RemoveDetached PROVE LossInv' /\ Lawful
<1>1. PICK w \in todo : Removable(w) /\ Remove(w)
    BY DEF RemoveDetached
<1>2. w \in Worktrees /\ Clean(w) /\ Contains(ref[Target], worktree[w].at)
    BY <1>1, DetachedContained DEF RemoveDetached, Removable, IInv, Place, OfDetached
<1>3. Lawful /\ GoneIsClean'
    BY <1>1, <1>2, RemoveClean DEF RemoveDetached
<1>4. Course'
    BY NextDetached DEF RemoveDetached, Within
<1> QED BY <1>3, <1>4 DEF LossInv

LEMMA HarvestDetachedKeeps ==
    ASSUME IInv, LossInv, HarvestDetached PROVE LossInv' /\ Lawful
<1>1. PICK w \in todo \ {"primary"} : DetachedIntegrated(w) /\ from' = w
    BY DEF HarvestDetached
<1>2. /\ pc = "detached" /\ pc' = "harvest" /\ UNCHANGED <<ref, tracking, published, upstream, worktree, call, plan>>
    BY DEF HarvestDetached, Within, cloneVars
<1>3. w # "primary" /\ worktree[w].on = "detached" /\ Contains(ref[Target], worktree[w].at)
    BY <1>1, <1>2, DetachedContained DEF IInv, Place, OfDetached
<1>4. Retires' /\ Proven' /\ Chosen'
    BY <1>1, <1>2, <1>3 DEF LossInv, Course, Retires, Proven, Chosen, ForBranch, Looked, Retiring, Harvesting
<1>5. Carried'
    BY <1>1, <1>2, <1>3 DEF Carried
<1> QED BY <1>4, <1>5, SameClone, HarmlessStep DEF HarvestDetached, Course

LEMMA LeaveDetachedKeeps ==
    ASSUME IInv, LossInv, LeaveDetached \/ DetachedDone PROVE LossInv' /\ Lawful
<1>1. Course'
    BY NextDetached DEF LeaveDetached, DetachedDone, Within, cloneVars
<1> QED BY <1>1, SameClone, HarmlessStep DEF LeaveDetached, DetachedDone

-----------------------------------------------------------------------------
(* Only what was integrated is taken away                                  *)

LEMMA StutterKeeps ==
    ASSUME LossInv, UNCHANGED vars PROVE LossInv'
<1>1. GoneIsClean'
    BY DEF vars, cloneVars, LossInv, GoneIsClean
<1>2. Retires' /\ Proven'
    BY DEF vars, cloneVars, LossInv, Course, Retires, Proven
<1>3. Chosen' /\ Carried'
    BY DEF vars, cloneVars, branchVars, LossInv, Course, Chosen, ForBranch, Carried
<1> QED BY <1>1, <1>2, <1>3 DEF LossInv, Course

LEMMA NextKeeps ==
    ASSUME IInv, LossInv, Next PROVE LossInv' /\ Lawful
<1>1. CASE Kill
    BY <1>1, KillKeeps
<1>2. CASE People
    BY <1>2, EditKeeps, AuthorKeeps, UndoKeeps, OthersPushKeeps DEF People
<1>3. CASE Command
    <2>1. ASSUME Begin \/ SyncRefused \/ SyncClean \/ SyncDirty \/ Plan \/ Return
          PROVE  LossInv' /\ Lawful
        BY <2>1, BeginKeeps, SyncRefusedKeeps, SyncCleanKeeps, SyncDirtyKeeps, PlanKeeps, ReturnKeeps
    <2>2. ASSUME \/ ApplySkips \/ ApplyTakes \/ CherryPick \/ Merge \/ FastForward \/ IntegrateRefused
                 \/ RecordReviewed \/ Push
                 \/ RecoverContinue \/ RecoverAbort \/ RecoverRefused
          PROVE  LossInv' /\ Lawful
        BY <2>2, ApplySkipsKeeps, ApplyTakesKeeps, IntegrateRefusedKeeps, IntegrateKeeps, RecordReviewedKeeps, RecoverKeeps
    <2>3. ASSUME RetireSkips \/ RetireTakes \/ HarvestRead \/ HarvestCommit \/ HarvestPush \/ HarvestRemove
          PROVE  LossInv' /\ Lawful
        BY <2>3, RetireSkipsKeeps, RetireTakesKeeps, HarvestReadKeeps, HarvestCommitKeeps,
           HarvestPushKeeps, HarvestRemoveKeeps
    <2>4. ASSUME \/ Handoff \/ Release \/ RemoveWorktree \/ DeleteLocal \/ DeleteRemote
                 \/ RemoveDetached \/ HarvestDetached \/ LeaveDetached \/ DetachedDone
          PROVE  LossInv' /\ Lawful
        BY <2>4, HandoffKeeps, ReleaseKeeps, RemoveWorktreeKeeps, DeleteLocalKeeps, DeleteRemoteKeeps,
           RemoveDetachedKeeps, HarvestDetachedKeeps, LeaveDetachedKeeps
    <2> QED BY <1>3, <2>1, <2>2, <2>3, <2>4 DEF Command
<1> QED BY <1>1, <1>2, <1>3 DEF Next

LEMMA InitLoss ==
    ASSUME Init PROVE LossInv
<1> PICK s \in Starts : worktree = s.worktree
    BY DEF Init
<1>1. GoneIsClean
    BY LifecycleAssumption DEF GoneIsClean
<1>2. Course
    BY DEF Init, Course, Retires, Proven, Chosen, ForBranch, Carried, Looked, Retiring, Harvesting
<1> QED BY <1>1, <1>2 DEF LossInv

\* Nothing is taken away that was not proven integrated: no local branch, no
\* detached worktree, no edit nobody has committed, and no branch of the remote
\* but for what the plan had seen its local branch to be behind of, and for
\* what came there after the fetch.  What a harvest loses is what was written
\* to its worktree after it had read it.
THEOREM OnlyIntegratedGoes == Spec => OnlyIntegratedDeleted
<1>1. Init => LossInv
    BY InitLoss
<1>2. IInv /\ LossInv /\ [Next]_vars => LossInv'
    BY NextKeeps, StutterKeeps
<1>3. IInv /\ LossInv /\ [Next]_vars
        => [/\ \A b \in Sources :
                 /\ ref[b] # NoRef /\ ref'[b] = NoRef => Contains(ref[Target], ref[b])
                 /\ published[b] # NoRef /\ published'[b] = NoRef =>
                        plan[b].behind \/ Contains(ref[Target], tracking[b])
            /\ \A w \in Worktrees : worktree'[w].on = "removed" =>
                 /\ worktree[w].on = "detached" => Contains(ref[Target], worktree[w].at)
                 /\ worktree[w].edits \ Late(w) \subseteq Committed(published)
            /\ AllEdits \subseteq Held' \cup UNION {Late(w) : w \in Worktrees}]_vars
    <2> SUFFICES ASSUME IInv, LossInv, Next PROVE Lawful
        BY DEF Lawful
    <2> QED BY NextKeeps
<1> QED BY <1>1, <1>2, <1>3, LifecycleInvariant, PTL DEF Spec, OnlyIntegratedDeleted

-----------------------------------------------------------------------------
(* What is reported of a branch                                            *)

\* The result has one entry of every branch.
Reported == report = [b \in Sources |-> report[b]]

\* While branches are applied, one that was planned as merged stays merged.
StillMerged ==
    call.op = "apply" /\ pc \in {"branch", "integrate", "push"} =>
        \A b \in todo : plan[b].merged => IsAncestor(Source(b), ref[Target])

\* What is pushed has every commit of the branch, unless a cherry-pick that has
\* stopped at a second empty commit was taken for done.
Brought == pc = "push" /\ stopped # "empty" => Contains(ref[Target], Source(cur))

ResultInv == Retires /\ Reported /\ StillMerged /\ Brought

\* What a step says of a branch is so.
Told ==
    \A b \in Sources : report'[b] # report[b] /\ stopped' # "empty" =>
        /\ report'[b] = "applied" => Contains(published'[Target], Source(b))
        /\ report'[b] \in {"merged", "equivalent"} => Contains(ref'[Target], Source(b))

LEMMA EndsTells ==
    ASSUME ResultInv, Ends
    PROVE  ResultInv' /\ Told
<1>1. ResultInv'
    BY DEF Ends, ResultInv, Retires, Reported, StillMerged, Brought, Retiring, Harvesting, Silent
<1>2. Told
    BY DEF Ends, Told, Silent
<1> QED BY <1>1, <1>2

\* Nothing is said, and nothing of the kind is under way.
LEMMA QuietTells ==
    ASSUME ResultInv, UNCHANGED report, Retires',
           \/ pc' \notin {"branch", "integrate", "push"}
           \/ call'.op = "retire" /\ pc' # "push"
    PROVE  ResultInv' /\ Told
BY DEF ResultInv, Reported, StillMerged, Brought, Told

\* The entry of one branch, and the next one.
LEMMA EnterTells ==
    ASSUME ResultInv, Retires', NEW b \in Sources, NEW word, Enter(b, word),
           StillMerged',
           word = "applied" /\ stopped' # "empty" => Contains(published'[Target], Source(b)),
           word \in {"merged", "equivalent"} /\ stopped' # "empty" => Contains(ref'[Target], Source(b))
    PROVE  ResultInv' /\ Told
<1>1. /\ report' = [report EXCEPT ![b] = word] /\ pc' = "branch"
    BY DEF Enter
<1>2. \A a \in Sources : report'[a] = IF a = b THEN word ELSE report[a]
    BY <1>1 DEF ResultInv, Reported
<1>3. Reported'
    BY <1>1 DEF ResultInv, Reported
<1>4. Told
    BY <1>2 DEF Told
<1> QED BY <1>1, <1>3, <1>4 DEF ResultInv, Brought

\* An entry of retire says nothing of the kind.
LEMMA RetireTells ==
    ASSUME IInv, ResultInv, call.op = "retire", NEW b \in Sources,
           NEW word, word \in {"skipped", "blocked", "retired"}, Enter(b, word)
    PROVE  ResultInv' /\ Told
<1>1. pc' = "branch" /\ call' = call
    BY DEF Enter, Within
<1>2. Retires' /\ StillMerged'
    BY <1>1 DEF Retires, StillMerged, Retiring, Harvesting
<1> QED BY <1>2, EnterTells

-----------------------------------------------------------------------------
(* Retiring, and what ends a call                                          *)

LEMMA SyncTells ==
    ASSUME IInv, ResultInv, SyncRefused \/ SyncClean \/ SyncDirty PROVE ResultInv' /\ Told
<1>1. CASE Ends
    BY <1>1, EndsTells
<1>2. CASE ~Ends
    <2>1. UNCHANGED report /\ pc' = "plan"
        BY <1>2 DEF SyncRefused, SyncClean, SyncDirty, SyncBlocked, Goto
    <2>2. Retires'
        BY <2>1 DEF Retires, Retiring, Harvesting
    <2> QED BY <2>1, <2>2, QuietTells
<1> QED BY <1>1, <1>2

LEMMA ReturnTells ==
    ASSUME IInv, ResultInv, Return PROVE ResultInv' /\ Told
<1>1. CASE Ends
    BY <1>1, EndsTells
<1>2. CASE ~Ends
    <2>1. UNCHANGED report /\ pc' = "detached" /\ call' = call /\ call.op = "retire"
        BY <1>2 DEF Return, Within
    <2>2. Retires'
        BY <2>1 DEF Retires
    <2> QED BY <2>1, <2>2, QuietTells
<1> QED BY <1>1, <1>2

LEMMA BeginTells ==
    ASSUME IInv, ResultInv, Begin PROVE ResultInv' /\ Told
<1>1. UNCHANGED report /\ pc' \in {"recover", "sync"}
    BY DEF Begin
<1>2. Retires'
    BY <1>1 DEF Retires, Retiring, Harvesting
<1> QED BY <1>1, <1>2, QuietTells

LEMMA StopTells ==
    ASSUME IInv, ResultInv, Kill \/ RecoverContinue \/ RecoverAbort \/ RecoverRefused
    PROVE  ResultInv' /\ Told
BY EndsTells DEF Kill, RecoverContinue, RecoverAbort, RecoverRefused

LEMMA PeopleTell ==
    ASSUME IInv, ResultInv, Author \/ Undo PROVE ResultInv' /\ Told
<1>1. UNCHANGED <<report, pc>> /\ pc = "idle"
    BY DEF Author, Undo, Elsewhere
<1>2. Retires'
    BY <1>1 DEF Retires, Retiring, Harvesting
<1> QED BY <1>1, <1>2, QuietTells

\* A step of retire enters a result, goes on, or ends its loop.
LEMMA RetiresTells ==
    ASSUME IInv, ResultInv, call.op = "retire", call' = call,
           \/ UNCHANGED report /\ pc' \notin {"integrate", "push"}
           \/ \E b \in Sources, word \in {"skipped", "blocked", "retired"} : Enter(b, word)
    PROVE  ResultInv' /\ Told
<1>1. CASE UNCHANGED report /\ pc' \notin {"integrate", "push"}
    <2>1. Retires'
        BY <1>1 DEF Retires
    <2> QED BY <1>1, <2>1, QuietTells
<1>2. ASSUME NEW b \in Sources, NEW word \in {"skipped", "blocked", "retired"}, Enter(b, word)
      PROVE  ResultInv' /\ Told
    BY <1>2, RetireTells
<1> QED BY <1>1, <1>2

LEMMA RetireLoopTells ==
    ASSUME IInv, ResultInv, RetireSkips \/ RetireTakes PROVE ResultInv' /\ Told
<1>1. call.op = "retire" /\ call' = call /\ todo \subseteq Sources
    BY DEF RetireSkips, RetireTakes, Enter, Within, IInv, Place
<1>2. CASE RetireSkips
    <2>1. \E b \in Sources, word \in {"skipped", "blocked", "retired"} : Enter(b, word)
        BY <1>1, <1>2 DEF RetireSkips
    <2> QED BY <1>1, <2>1, RetiresTells
<1>3. CASE RetireTakes
    <2>1. UNCHANGED report /\ pc' \notin {"integrate", "push"}
        BY <1>3 DEF RetireTakes
    <2> QED BY <1>1, <2>1, RetiresTells
<1> QED BY <1>2, <1>3

LEMMA HarvestTells ==
    ASSUME IInv, ResultInv, HarvestRead \/ HarvestCommit \/ HarvestPush \/ HarvestRemove
    PROVE  ResultInv' /\ Told
<1>1. pc \in Harvesting /\ call.op = "retire"
    BY DEF HarvestRead, HarvestCommit, HarvestPush, HarvestRemove, Harvesting, ResultInv, Retires
<1>2. worktree[from].on # "detached" => cur \in Sources
    BY <1>1 DEF IInv, Place, Harvested, OfBranch
<1>3. HarvestEnds \/ (pc' \in Harvesting \cup {"release"} /\ UNCHANGED <<report, call>>)
    BY DEF HarvestRead, HarvestCommit, HarvestPush, HarvestRemove, Goto, HarvestEnds, Within, Harvesting, branchVars
<1>4. CASE HarvestEnds
    <2>1. call' = call
        BY <1>4 DEF HarvestEnds, Done, Enter, Within
    <2>2. CASE worktree[from].on = "detached"
        BY <1>1, <1>4, <2>1, <2>2, RetiresTells DEF HarvestEnds
    <2>3. CASE worktree[from].on # "detached"
        BY <1>1, <1>2, <1>4, <2>1, <2>3, RetiresTells DEF HarvestEnds, Done
    <2> QED BY <2>2, <2>3
<1>5. CASE pc' \in Harvesting \cup {"release"} /\ UNCHANGED <<report, call>>
    BY <1>1, <1>5, RetiresTells DEF Harvesting
<1> QED BY <1>3, <1>4, <1>5

LEMMA TakeAwayTells ==
    ASSUME IInv, ResultInv, Handoff \/ Release \/ RemoveWorktree \/ DeleteLocal \/ DeleteRemote
    PROVE  ResultInv' /\ Told
<1>1. pc \in Retiring \cup {"remote"} /\ call.op = "retire" /\ cur \in Sources
    BY DEF Handoff, Release, RemoveWorktree, DeleteLocal, DeleteRemote, Retiring, ResultInv, Retires,
       IInv, Place, OnBranch, OfBranch
<1>2. \/ Done("blocked") \/ Done("retired")
      \/ pc' \in {"delete", "remove", "remote"} /\ UNCHANGED <<report, call>>
    BY DEF Handoff, Release, RemoveWorktree, DeleteLocal, DeleteRemote, Goto, Within
<1>3. call' = call
    BY <1>2 DEF Done, Enter, Within
<1> QED BY <1>1, <1>2, <1>3, RetiresTells DEF Done

LEMMA DetachedTells ==
    ASSUME IInv, ResultInv, RemoveDetached \/ HarvestDetached \/ LeaveDetached \/ DetachedDone
    PROVE  ResultInv' /\ Told
<1>1. pc = "detached" /\ call.op = "retire" /\ UNCHANGED <<report, call>>
      /\ pc' \in {"detached", "harvest", "idle"}
    BY DEF RemoveDetached, HarvestDetached, LeaveDetached, DetachedDone, Within, ResultInv, Retires
<1> QED BY <1>1, RetiresTells

-----------------------------------------------------------------------------
(* Applying                                                                *)

LEMMA PlanTells ==
    ASSUME IInv, ResultInv, Plan PROVE ResultInv' /\ Told
<1>1. /\ pc' = "branch" /\ UNCHANGED <<ref, tracking, call, report>>
      /\ todo' \subseteq Candidates
      /\ \A b \in Candidates : plan'[b] = Planned(b, call.only # "all", call.op = "retire")
    BY DEF Plan, cloneVars
<1>2. \A b \in Candidates : plan'[b].merged => IsAncestor(Source(b), ref[Target])
    <2> TAKE b \in Candidates
    <2> DEFINE f == call.only # "all"
               n == call.op = "retire"
    <2> HIDE DEF f, n
    <2>1. plan'[b] = Planned(b, f, n)
        BY <1>1 DEF f, n
    <2>2. plan'[b].merged = Merged(b)
        BY <2>1 DEF Planned
    <2> QED BY <2>2 DEF Merged
<1>3. \A b : Source(b)' = Source(b)
    BY <1>1 DEF Source, RemoteOnly
<1>4. StillMerged'
    BY <1>1, <1>2, <1>3 DEF StillMerged
<1>5. Retires'
    BY <1>1 DEF Retires, Retiring, Harvesting
<1> QED BY <1>1, <1>4, <1>5 DEF ResultInv, Reported, Brought, Told

LEMMA OthersTell ==
    ASSUME IInv, ResultInv, Edit \/ OthersPush PROVE ResultInv' /\ Told
<1>1. UNCHANGED <<ref, tracking, stopped, pc, call, plan, todo, cur, report>>
    BY DEF Edit, OthersPush, Elsewhere
<1>2. \A b : Source(b)' = Source(b)
    BY <1>1 DEF Source, RemoteOnly
<1>3. Retires' /\ Reported' /\ StillMerged'
    BY <1>1, <1>2 DEF ResultInv, Retires, Reported, StillMerged
<1>4. Brought' /\ Told
    BY <1>1, <1>2 DEF ResultInv, Brought, Told
<1> QED BY <1>3, <1>4 DEF ResultInv

\* The target grows and the branches stay: what was merged still is.
LEMMA MergedStays ==
    ASSUME StillMerged, pc \in {"branch", "integrate", "push"}, UNCHANGED <<call, plan, tracking>>,
           todo' \subseteq todo, todo \subseteq Sources,
           ref[Target].log \subseteq ref'[Target].log, \A b \in Sources : ref'[b] = ref[b]
    PROVE  StillMerged' /\ \A b \in Sources : Source(b)' = Source(b)
<1>1. \A b \in Sources : Source(b)' = Source(b)
    BY DEF Source, RemoteOnly
<1>2. StillMerged'
    BY <1>1 DEF StillMerged, IsAncestor
<1> QED BY <1>1, <1>2

LEMMA ApplySkipsTells ==
    ASSUME IInv, ResultInv, ApplySkips PROVE ResultInv' /\ Told
<1>1. pc = "branch" /\ call.op = "apply" /\ UNCHANGED <<ref, tracking, published>> /\ todo \subseteq Sources
    BY DEF ApplySkips, cloneVars, IInv, Place
<1>2. PICK b \in todo : \/ plan[b].merged /\ Enter(b, "merged")
                        \/ Enter(b, "blocked")
    BY DEF ApplySkips
<1>3. pc' = "branch" /\ todo' \subseteq todo /\ UNCHANGED <<call, plan>>
    BY <1>2 DEF Enter, Within
<1>4. StillMerged'
    BY <1>1, <1>3, MergedStays DEF ResultInv
<1>5. plan[b].merged => Contains(ref'[Target], Source(b))
    BY <1>1, AncestorContained DEF ResultInv, StillMerged
<1>6. Retires'
    BY <1>3 DEF Retires, Retiring, Harvesting
<1>7. b \in Sources
    BY <1>1
<1>8. CASE plan[b].merged /\ Enter(b, "merged")
    BY <1>4, <1>5, <1>6, <1>7, <1>8, EnterTells
<1>9. CASE Enter(b, "blocked")
    BY <1>4, <1>6, <1>7, <1>9, EnterTells
<1> QED BY <1>2, <1>8, <1>9

LEMMA ApplyTakesTells ==
    ASSUME IInv, ResultInv, ApplyTakes PROVE ResultInv' /\ Told
<1>1. pc = "branch" /\ call.op = "apply" /\ UNCHANGED <<ref, tracking, todo, report, call, plan>>
      /\ todo \subseteq Sources /\ pc' = "integrate"
    BY DEF ApplyTakes, Within, IInv, Place
<1>2. StillMerged'
    BY <1>1, MergedStays DEF ResultInv
<1>3. Retires'
    BY <1>1 DEF Retires, Retiring, Harvesting
<1> QED BY <1>1, <1>2, <1>3 DEF ResultInv, Reported, Brought, Told

\* A cherry-pick that went through has brought what the target lacked.
LEMMA ReplayContains ==
    ASSUME NEW t, NEW b, NEW r, r \in Replays(t, Missing(t, b)), r.stopped = "none"
    PROVE  Contains(r.tip, b)
<1> DEFINE missing == Missing(t, b)
           empty == {c \in missing : Empty(c, t)}
           Before(c) == {d \in missing : Position(d) < Position(c)}
           Skipped(c) == Cardinality(Before(c) \cap empty)
           Upto(cs, how) ==
            [tip |-> Onto(t, {Made(c.patches, "replay") : c \in cs \ empty}), stopped |-> how]
<1>1. r \in {Upto(missing, "none") : x \in {y \in {0} : Cardinality(empty) <= 1}}
            \cup {Upto(Before(c), "conflict") : c \in {d \in missing \ empty : Skipped(d) <= 1}}
            \cup {Upto(Before(c), "empty") : c \in {d \in empty : Skipped(d) = 1}}
    BY DEF Replays
<1>2. \A cs, how : Upto(cs, how).stopped = how
    OBVIOUS
<1>3. r = Upto(missing, "none")
    <2> HIDE DEF Upto, Before, Skipped, missing, empty
    <2> QED BY <1>1, <1>2
<1> DEFINE added == {Made(c.patches, "replay") : c \in missing \ empty}
<1>4. r.tip = Onto(t, added)
    BY <1>3
<1> HIDE DEF added, Upto
<1>5. r.tip.log = t.log \cup added /\ t.tree \subseteq r.tip.tree
    BY <1>4 DEF Onto
<1>6. ASSUME NEW c \in b.log \ r.tip.log, ~IsMerge(c)
      PROVE  Empty(c, r.tip) \/ \E d \in r.tip.log : d.patches = c.patches
    <2>1. c \in Beyond(t, b)
        BY <1>5, <1>6 DEF Beyond
    <2>2. CASE c \in missing \ empty
        <3>1. Made(c.patches, "replay") \in added /\ Made(c.patches, "replay").patches = c.patches
            BY <2>2 DEF added, Made
        <3> QED BY <3>1, <1>5
    <2>3. CASE c \in empty
        BY <2>3, <1>5 DEF Empty
    <2>4. CASE c \notin missing
        BY <2>1, <2>4, <1>5 DEF Missing
    <2> QED BY <2>2, <2>3, <2>4
<1> QED BY <1>6 DEF Contains

\* The branch is integrated, and next it is pushed.
LEMMA PushIsNext ==
    ASSUME IInv, ResultInv, pc = "integrate", Goto("push"), UNCHANGED tracking,
           ref[Target].log \subseteq ref'[Target].log, \A b \in Sources : ref'[b] = ref[b],
           stopped' # "empty" => Contains(ref'[Target], Source(cur))
    PROVE  ResultInv' /\ Told
<1>1. pc' = "push" /\ UNCHANGED <<todo, cur, report, call, plan>> /\ todo \subseteq Sources /\ cur \in Sources
    BY DEF Goto, Within, IInv, Place, OnBranch, OfBranch
<1>2. StillMerged' /\ Source(cur)' = Source(cur)
    BY <1>1, MergedStays DEF ResultInv
<1>3. Brought'
    BY <1>1, <1>2 DEF Brought
<1>4. Retires'
    BY <1>1 DEF ResultInv, Retires, Retiring, Harvesting
<1> QED BY <1>1, <1>2, <1>3, <1>4 DEF ResultInv, Reported, Told

\* What was integrated is entered.
LEMMA DoneTells ==
    ASSUME IInv, ResultInv, pc \in {"integrate", "push"}, NEW word, Done(word), UNCHANGED tracking,
           ref[Target].log \subseteq ref'[Target].log, \A b \in Sources : ref'[b] = ref[b],
           word = "applied" /\ stopped' # "empty" => Contains(published'[Target], Source(cur)),
           word \in {"merged", "equivalent"} /\ stopped' # "empty" => Contains(ref'[Target], Source(cur))
    PROVE  ResultInv' /\ Told
<1>1. Enter(cur, word) /\ pc' = "branch" /\ todo' \subseteq todo /\ UNCHANGED <<call, plan>>
      /\ todo \subseteq Sources /\ cur \in Sources
    BY DEF Done, Enter, Within, IInv, Place, OnBranch, OfBranch
<1>2. StillMerged'
    BY <1>1, MergedStays DEF ResultInv
<1>3. Retires'
    BY <1>1 DEF Retires, Retiring, Harvesting
<1> QED BY <1>1, <1>2, <1>3, EnterTells

LEMMA CherryPickTells ==
    ASSUME IInv, ResultInv, CherryPick PROVE ResultInv' /\ Told
<1>1. PICK r \in Replays(ref[Target], Missing(ref[Target], Source(cur))) :
          /\ ref' = [ref EXCEPT ![Target] = r.tip] /\ stopped' = r.stopped
          /\ IF r.stopped = "conflict" THEN Done("blocked")
             ELSE IF r.tip = before THEN Done("equivalent")
             ELSE Goto("push") /\ UNCHANGED branchVars
    BY DEF CherryPick
<1>2. pc = "integrate" /\ UNCHANGED tracking
    BY DEF CherryPick
<1>3. ref[Target] \in Tip
    BY TargetBranch DEF IInv, TypeOK, CloneOK, Refs
<1>4. Missing(ref[Target], Source(cur)) \in SUBSET Commit
    BY SourceTip DEF Missing, Beyond, IInv, TypeOK, CallOK, Tip
<1>5. ref[Target].log \subseteq r.tip.log /\ r.stopped \in {"none", "conflict", "empty"}
    BY <1>3, <1>4, ReplaysTip
<1>6. ref'[Target] = r.tip /\ \A b \in Sources : ref'[b] = ref[b]
    BY <1>1, TargetBranch DEF IInv, TypeOK, CloneOK, Refs
<1>7. r.stopped = "none" => Contains(r.tip, Source(cur))
    BY ReplayContains
<1>8. stopped' # "empty" => r.stopped \in {"none", "conflict"}
    BY <1>1, <1>5
<1>9. CASE r.stopped = "conflict"
    BY <1>1, <1>2, <1>5, <1>6, <1>9, DoneTells
<1>10. CASE r.stopped # "conflict" /\ r.tip = before
    BY <1>1, <1>2, <1>5, <1>6, <1>7, <1>8, <1>10, DoneTells
<1>11. CASE r.stopped # "conflict" /\ r.tip # before
    BY <1>1, <1>2, <1>5, <1>6, <1>7, <1>8, <1>11, PushIsNext
<1> QED BY <1>9, <1>10, <1>11

LEMMA MergeTells ==
    ASSUME IInv, ResultInv, Merge PROVE ResultInv' /\ Told
<1>1. pc = "integrate" /\ UNCHANGED tracking
    BY DEF Merge
<1>2. CASE UNCHANGED ref /\ Done("blocked")
    BY <1>1, <1>2, DoneTells
<1>3. CASE ~(UNCHANGED ref /\ Done("blocked"))
    <2>1. /\ ref' = [ref EXCEPT ![Target] =
                        [log |-> @.log \cup Source(cur).log \cup {Made({}, "merge")},
                         tree |-> @.tree \cup Source(cur).tree]]
          /\ Goto("push")
        BY <1>3 DEF Merge
    <2>2. /\ ref[Target].log \subseteq ref'[Target].log /\ Source(cur).log \subseteq ref'[Target].log
          /\ \A b \in Sources : ref'[b] = ref[b]
        BY <2>1, TargetBranch DEF IInv, TypeOK, CloneOK, Refs
    <2>3. Contains(ref'[Target], Source(cur))
        BY <2>2, AncestorContained DEF IsAncestor
    <2> QED BY <1>1, <2>1, <2>2, <2>3, PushIsNext
<1> QED BY <1>2, <1>3

LEMMA IntegrateRefusedTells ==
    ASSUME IInv, ResultInv, IntegrateRefused PROVE ResultInv' /\ Told
BY DoneTells DEF IntegrateRefused, cloneVars

LEMMA FastForwardTells ==
    ASSUME IInv, ResultInv, FastForward PROVE ResultInv' /\ Told
<1>1. pc = "integrate" /\ UNCHANGED tracking
    BY DEF FastForward
<1>2. CASE ~IsAncestor(ref[Target], Source(cur))
    <2>1. UNCHANGED ref /\ Done("blocked")
        BY <1>2 DEF FastForward
    <2> QED BY <1>1, <2>1, DoneTells
<1>3. CASE IsAncestor(ref[Target], Source(cur))
    <2>1. ref' = [ref EXCEPT ![Target] = Source(cur)] /\ Goto("push")
        BY <1>3 DEF FastForward
    <2>2. /\ ref'[Target] = Source(cur) /\ ref[Target].log \subseteq ref'[Target].log
          /\ \A b \in Sources : ref'[b] = ref[b]
        BY <1>3, <2>1, TargetBranch DEF IInv, TypeOK, CloneOK, Refs, IsAncestor
    <2>3. Contains(ref'[Target], Source(cur))
        BY <2>2, AncestorContained DEF IsAncestor
    <2> QED BY <1>1, <2>1, <2>2, <2>3, PushIsNext
<1> QED BY <1>2, <1>3

LEMMA RecordReviewedTells ==
    ASSUME IInv, ResultInv, RecordReviewed PROVE ResultInv' /\ Told
<1>1. PICK b \in todo : /\ ~RemoteOnly(b) /\ cur' = b
                        /\ ref' = [ref EXCEPT ![Target].log = @ \cup ref[b].log \cup {Made({}, "ours")}]
    BY DEF RecordReviewed
<1>2. pc = "branch" /\ pc' = "push" /\ call.op = "apply" /\ todo \subseteq Sources
      /\ UNCHANGED <<tracking, todo, report, call, plan>>
    BY DEF RecordReviewed, Within, IInv, Place
<1>3. /\ ref[Target].log \subseteq ref'[Target].log /\ ref[b].log \subseteq ref'[Target].log
      /\ \A c \in Sources : ref'[c] = ref[c]
    BY <1>1, <1>2, TargetBranch DEF IInv, TypeOK, CloneOK, Refs, Tip
<1>4. StillMerged' /\ \A c \in Sources : Source(c)' = Source(c)
    BY <1>2, <1>3, MergedStays DEF ResultInv
<1>5. Source(b) = ref[b] /\ b \in Sources
    BY <1>1, <1>2 DEF Source
<1>6. Contains(ref'[Target], Source(b))
    BY <1>3, <1>5, AncestorContained DEF IsAncestor
<1>7. Source(cur)' = Source(b)
    BY <1>1, <1>4, <1>5
<1>8. Brought'
    BY <1>6, <1>7 DEF Brought
<1>9. Retires'
    BY <1>2 DEF Retires, Retiring, Harvesting
<1> QED BY <1>2, <1>4, <1>8, <1>9 DEF ResultInv, Reported, Told

LEMMA PushTells ==
    ASSUME IInv, ResultInv, Push PROVE ResultInv' /\ Told
<1>1. CASE Ends
    BY <1>1, EndsTells
<1>2. CASE ~Ends
    <2>1. pc = "push" /\ PushTarget /\ Done("applied") /\ UNCHANGED <<ref, tracking, stopped>>
        BY <1>2 DEF Push
    <2>2. published'[Target] = ref[Target]
        BY <2>1, TargetBranch DEF PushTarget, IInv, TypeOK, CloneOK, Refs
    <2>3. stopped' # "empty" => Contains(published'[Target], Source(cur))
        BY <2>1, <2>2 DEF ResultInv, Brought
    <2> QED BY <2>1, <2>3, DoneTells
<1> QED BY <1>1, <1>2

-----------------------------------------------------------------------------
(* What is reported is so                                                  *)

LEMMA StutterTells ==
    ASSUME ResultInv, UNCHANGED vars PROVE ResultInv'
<1>1. \A b : Source(b)' = Source(b)
    BY DEF vars, cloneVars, Source, RemoteOnly
<1> QED BY <1>1 DEF vars, cloneVars, ResultInv, Retires, Reported, StillMerged, Brought

LEMMA NextTells ==
    ASSUME IInv, ResultInv, Next PROVE ResultInv' /\ Told
<1>1. CASE Kill
    BY <1>1, StopTells
<1>2. CASE People
    BY <1>2, PeopleTell, OthersTell DEF People
<1>3. CASE Command
    <2>1. ASSUME Begin \/ SyncRefused \/ SyncClean \/ SyncDirty \/ Plan \/ Return
          PROVE  ResultInv' /\ Told
        BY <2>1, BeginTells, SyncTells, PlanTells, ReturnTells
    <2>2. ASSUME \/ ApplySkips \/ ApplyTakes \/ CherryPick \/ Merge \/ FastForward \/ IntegrateRefused
                 \/ RecordReviewed \/ Push
                 \/ RecoverContinue \/ RecoverAbort \/ RecoverRefused
          PROVE  ResultInv' /\ Told
        BY <2>2, ApplySkipsTells, ApplyTakesTells, CherryPickTells, MergeTells, FastForwardTells,
           IntegrateRefusedTells, RecordReviewedTells, PushTells, StopTells
    <2>3. ASSUME RetireSkips \/ RetireTakes \/ HarvestRead \/ HarvestCommit \/ HarvestPush \/ HarvestRemove
          PROVE  ResultInv' /\ Told
        BY <2>3, RetireLoopTells, HarvestTells
    <2>4. ASSUME \/ Handoff \/ Release \/ RemoveWorktree \/ DeleteLocal \/ DeleteRemote
                 \/ RemoveDetached \/ HarvestDetached \/ LeaveDetached \/ DetachedDone
          PROVE  ResultInv' /\ Told
        BY <2>4, TakeAwayTells, DetachedTells
    <2> QED BY <1>3, <2>1, <2>2, <2>3, <2>4 DEF Command
<1> QED BY <1>1, <1>2, <1>3 DEF Next

\* A branch that is reported as applied is in the target of the remote, commit
\* by commit, and one that is reported as merged or equivalent in the target of
\* the clone, but where a cherry-pick has stopped at a second empty commit.
THEOREM AppliedGoesOut == Spec => AppliedIsPublished
<1>1. Init => ResultInv
    BY DEF Init, Silent, ResultInv, Retires, Reported, StillMerged, Brought, Retiring, Harvesting
<1>2. IInv /\ ResultInv /\ [Next]_vars => ResultInv'
    BY NextTells, StutterTells
<1>3. IInv /\ ResultInv /\ [Next]_vars
        => [\A b \in Sources : report'[b] # report[b] /\ stopped' # "empty" =>
              /\ report'[b] = "applied" => Contains(published'[Target], Source(b))
              /\ report'[b] \in {"merged", "equivalent"} => Contains(ref'[Target], Source(b))]_vars
    <2> SUFFICES ASSUME IInv, ResultInv, Next PROVE Told
        BY DEF Told
    <2> QED BY NextTells
<1> QED BY <1>1, <1>2, <1>3, LifecycleInvariant, PTL DEF Spec, AppliedIsPublished
=============================================================================
