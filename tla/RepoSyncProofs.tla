--------------------------- MODULE RepoSyncProofs ---------------------------
(***************************************************************************)
(* Proofs about RepoSync for every repository the command is called on,    *)
(* any patches, edits and stash entries of others.                         *)
(***************************************************************************)
EXTENDS RepoSync, TLAPS

-----------------------------------------------------------------------------
(* The stash                                                               *)

\* An entry that is pushed is the newest, and the changes of the others stay.
LEMMA Pushed ==
    ASSUME NEW s \in Seq(Entries), NEW x \in Entries
    PROVE  /\ <<x>> \o s \in Seq(Entries) /\ <<x>> \o s # <<>>
           /\ s = <<>> => <<x>> \o s = <<x>>
           /\ Trees(<<x>> \o s) = x.tree \cup Trees(s)
<1> DEFINE t == <<x>> \o s
<1>1. /\ t \in Seq(Entries) /\ Len(t) = Len(s) + 1 /\ Len(s) \in Nat
      /\ t[1] = x /\ \A i \in 1..Len(s) : t[i + 1] = s[i]
  OBVIOUS
<1>2. t # <<>> /\ DOMAIN t = 1..(Len(s) + 1) /\ DOMAIN s = 1..Len(s)
  BY <1>1
<1>3. s = <<>> => t = <<x>>
  OBVIOUS
<1> HIDE DEF t
<1>4. Trees(t) \subseteq x.tree \cup Trees(s)
  <2> SUFFICES ASSUME NEW i \in 1..(Len(s) + 1) PROVE t[i].tree \subseteq x.tree \cup Trees(s)
    BY <1>2 DEF Trees
  <2>1. CASE i = 1
    BY <1>1, <2>1
  <2>2. CASE i # 1
    <3>1. i - 1 \in 1..Len(s) /\ t[i] = s[i - 1]
      BY <1>1, <2>2
    <3> QED BY <1>2, <3>1 DEF Trees
  <2> QED BY <2>1, <2>2
<1>5. x.tree \subseteq Trees(t)
  <2>1. 1 \in DOMAIN t
    BY <1>1, <1>2
  <2> QED BY <1>1, <2>1 DEF Trees
<1>6. Trees(s) \subseteq Trees(t)
  <2> SUFFICES ASSUME NEW i \in 1..Len(s) PROVE s[i].tree \subseteq Trees(t)
    BY <1>2 DEF Trees
  <2>1. i + 1 \in DOMAIN t /\ t[i + 1] = s[i]
    BY <1>1, <1>2
  <2> QED BY <2>1 DEF Trees
<1>7. Trees(t) = x.tree \cup Trees(s)
  BY <1>4, <1>5, <1>6
<1> QED BY <1>1, <1>2, <1>3, <1>7 DEF t

\* Dropping the newest entry drops its changes only.
LEMMA Dropped ==
    ASSUME NEW s \in Seq(Entries), s # <<>>
    PROVE  /\ Head(s) \in Entries /\ Tail(s) \in Seq(Entries)
           /\ Trees(s) = Head(s).tree \cup Trees(Tail(s))
<1> DEFINE x == Head(s)
           t == Tail(s)
<1>1. x \in Entries /\ t \in Seq(Entries) /\ s = <<x>> \o t
  OBVIOUS
<1> HIDE DEF x, t
<1>2. Trees(s) = x.tree \cup Trees(t)
  BY <1>1, Pushed
<1> QED BY <1>1, <1>2 DEF x, t

LEMMA OneEntry ==
    ASSUME NEW x \in Entries
    PROVE  /\ <<x>> \in Seq(Entries) /\ <<x>> # <<>> /\ Head(<<x>>) = x /\ Tail(<<x>>) = <<>>
           /\ Trees(<<x>>) = x.tree /\ Trees(<<>>) = {}
<1>1. /\ <<x>> \in Seq(Entries) /\ <<x>> # <<>> /\ Head(<<x>>) = x /\ Tail(<<x>>) = <<>>
  OBVIOUS
<1>2. Trees(<<>>) = {}
  BY DEF Trees
<1>3. Trees(<<x>>) = x.tree
  BY <1>1, <1>2, Dropped
<1> QED BY <1>1, <1>2, <1>3

\* A pop gives back the newest entry, or fails and leaves all as it was.
LEMMA PopTells ==
    ASSUME TypeOK, NEW step, NEW r, PopTo(step, r)
    PROVE  /\ change' \in Changes /\ stash' \in Seq(Entries)
           /\ change.tree \cup Trees(stash) \subseteq change'.tree \cup Trees(stash')
           /\ change.tree \subseteq change'.tree
           /\ \/ stash # <<>> /\ change' = Popped /\ stash' = Tail(stash) /\ pc' = step /\ result' = r
              \/ UNCHANGED <<change, stash>> /\ pc' = "done" /\ result' = "Failed"
<1>1. CASE Finish("Failed") /\ UNCHANGED <<change, stash>>
  BY <1>1 DEF TypeOK, Finish
<1>2. CASE CanPop /\ change' = Popped /\ stash' = Tail(stash) /\ pc' = step /\ result' = r
  <2>1. /\ stash # <<>> /\ stash \in Seq(Entries) /\ change \in Changes
    BY <1>2 DEF CanPop, TypeOK
  <2>2. /\ Head(stash) \in Entries /\ Tail(stash) \in Seq(Entries)
        /\ Trees(stash) = Head(stash).tree \cup Trees(Tail(stash))
    BY <2>1, Dropped
  <2>3. Popped \in Changes /\ Popped.tree = change.tree \cup Head(stash).tree
    BY <2>1, <2>2 DEF Popped, Changes, Entries
  <2> QED BY <1>2, <2>1, <2>2, <2>3
<1> QED BY <1>1, <1>2 DEF PopTo

LEMMA FailTells ==
    ASSUME TypeOK, FailRestoring
    PROVE  /\ change' \in Changes /\ stash' \in Seq(Entries)
           /\ change.tree \cup Trees(stash) \subseteq change'.tree \cup Trees(stash')
           /\ change.tree \subseteq change'.tree
           /\ pc' = "done" /\ result' = "Failed"
           /\ \/ stashCreated /\ stash # <<>> /\ change' = Popped /\ stash' = Tail(stash)
              \/ UNCHANGED <<change, stash>>
<1>1. CASE stashCreated
  BY <1>1, PopTells DEF FailRestoring
<1>2. CASE ~stashCreated
  BY <1>2 DEF FailRestoring, Finish, TypeOK
<1> QED BY <1>1, <1>2

-----------------------------------------------------------------------------
(* The refs                                                                *)

\* A commit is no missing ref, and what is below the remote stays below it.
LEMMA CommitIsRef ==
    /\ NoCommit \notin Commit /\ {} \in Commit
    /\ \A c, d \in Commit : c \cup d \in Commit
    /\ \A r \in Ref : r # NoCommit => r \in Commit
BY PatchAssumption DEF NoCommit, Commit, Ref

\* What holds a patch.
LEMMA Holders ==
    ASSUME NEW o
    PROVE  o \in UNION Refs <=>
              \/ o \in branch["target"] \/ o \in branch["other"] \/ o \in HeadCommit
              \/ o \in rebasing \/ o \in tracking \/ \E b \in backup : o \in b
BY DEF Refs, Branches

\* Where the checkout of the recovered branch puts it.
LEMMA Lands ==
    ASSUME TypeOK, HasLocal \/ HasRemote
    PROVE  /\ Landing \in Commit /\ (HasLocal => branch["target"] \subseteq Landing)
           /\ HasLocal => Landing \in {at, branch["target"]}
           /\ ~HasLocal => Landing = tracking
<1>1. branch["target"] \in Ref /\ tracking \in Ref /\ at \in Commit
  BY DEF TypeOK, Branches
<1> QED BY <1>1, CommitIsRef DEF Landing, HasLocal, HasRemote

-----------------------------------------------------------------------------
LEMMA InitIInv == Init => IInv
<1> SUFFICES ASSUME Init PROVE IInv
  OBVIOUS
<1>1. PICK s \in Starts :
        /\ command = s.command
        /\ branch = s.branch /\ head = s.head /\ at = s.at
        /\ tracking = s.tracking /\ published = s.published /\ upstream = s.upstream
        /\ rebasing = s.rebasing /\ change = s.change
        /\ started = [change |-> s.change, head |-> s.head,
                      commits |-> {s.branch[b] : b \in Branches} \cup {s.at},
                      disturbed |-> FALSE, stashes |-> 0]
  BY DEF Init
<1>2. /\ command \in {"origin-latest", "pre-commit"}
      /\ branch \in [Branches -> Ref] /\ head \in Branches \cup {"detached"} /\ at \in Commit
      /\ tracking \in Ref /\ published \in Ref /\ upstream \in BOOLEAN /\ rebasing \in Ref
      /\ change \in Changes
      /\ head # "detached" => at = {}
      /\ tracking = NoCommit \/ tracking \subseteq published
  BY <1>1, StartAssumption
<1>3. /\ pc = "status" /\ result = "none" /\ backup = {} /\ stash = <<>> /\ reverted = {}
      /\ hasLocalChanges = FALSE /\ stashCreated = FALSE /\ performedRebase = FALSE
      /\ snapshots = NoChange /\ unsafeHead = FALSE
  BY DEF Init
<1>4. /\ started.change = change /\ started.head = head /\ started.disturbed = FALSE
      /\ started.commits = {branch[b] : b \in Branches} \cup {at}
  BY <1>1
<1>5. TypeOK
  <2>1. started \in [change : Changes, head : Branches \cup {"detached"},
                     commits : SUBSET Ref, disturbed : BOOLEAN, stashes : Nat]
    <3>1. {s.branch[b] : b \in Branches} \cup {s.at} \in SUBSET Ref
      BY <1>1, <1>2 DEF Ref
    <3>2. s.change \in Changes /\ s.head \in Branches \cup {"detached"}
      BY <1>1, <1>2
    <3> QED BY <1>1, <3>1, <3>2
  <2>2. NoChange \in Changes /\ stash \in Seq(Entries)
    BY <1>3 DEF NoChange, Changes
  <2> QED BY <1>2, <1>3, <2>1, <2>2 DEF TypeOK
<1>6. Placed
  BY <1>3 DEF Placed, Scanning, Repairing, Syncing
<1>7. CommitsKept
  <2> SUFFICES ASSUME NEW c \in started.commits, NEW o \in c PROVE o \in UNION Refs
    BY DEF CommitsKept
  <2>1. CASE \E b \in Branches : c = branch[b]
    BY <2>1 DEF Refs
  <2>2. CASE c = at
    <3>1. head = "detached"
      BY <1>2, <2>2
    <3> QED BY <2>2, <3>1 DEF Refs, HeadCommit
  <2> QED BY <1>4, <2>1, <2>2
<1>8. Safe /\ SuccessIsCurrent
  BY <1>3 DEF Safe, SuccessIsCurrent
<1>9. Found /\ Undisturbed
  BY <1>3, <1>4 DEF Found, Undisturbed, NoChange, Scanning, Repairing, Syncing
<1>10. started.change.tree \subseteq change.tree \cup Trees(stash)
  BY <1>4
<1> QED BY <1>5, <1>6, <1>7, <1>8, <1>9, <1>10 DEF IInv

-----------------------------------------------------------------------------
(* The types                                                               *)

LEMMA Leaves ==
    ASSUME TypeOK, CheckoutRecoveredBranch
    PROVE  /\ branch' = [branch EXCEPT !["target"] = Landing] /\ branch' \in [Branches -> Ref]
           /\ branch'["target"] = Landing /\ branch'["other"] = branch["other"]
           /\ Landing \in Commit /\ Landing # NoCommit
           /\ HasLocal => branch["target"] \subseteq Landing /\ Landing \in {at, branch["target"]}
           /\ ~HasLocal => branch["target"] = NoCommit /\ Landing = tracking
           /\ head' = "target" /\ at' = {}
           /\ \/ UNCHANGED <<change, reverted>>
              \/ Dirty /\ change' = NoChange /\ reverted' = {}
<1>1. HasLocal \/ HasRemote
  BY DEF CheckoutRecoveredBranch
<1>2. /\ Landing \in Commit
      /\ HasLocal => branch["target"] \subseteq Landing /\ Landing \in {at, branch["target"]}
      /\ ~HasLocal => Landing = tracking
  BY <1>1, Lands
<1>3. Landing # NoCommit
  BY <1>2, CommitIsRef
<1>4. /\ branch' = [branch EXCEPT !["target"] = Landing] /\ head' = "target" /\ at' = {}
      /\ \/ UNCHANGED <<change, reverted>>
         \/ Dirty /\ change' = NoChange /\ reverted' = {}
  BY DEF CheckoutRecoveredBranch
<1>5. Landing \in Ref /\ branch \in [Branches -> Ref]
  BY <1>2 DEF Ref, TypeOK
<1>6. branch' \in [Branches -> Ref] /\ branch'["target"] = Landing /\ branch'["other"] = branch["other"]
  BY <1>4, <1>5 DEF Branches
<1> QED BY <1>2, <1>3, <1>4, <1>6 DEF HasLocal

LEMMA Stays ==
    ASSUME TypeOK, StayDetached
    PROVE  /\ branch' \in [Branches -> Ref] /\ UNCHANGED <<head, at, change, reverted>>
           /\ branch'["other"] = branch["other"]
           /\ branch["target"] \subseteq branch'["target"]
<1>1. CASE branch' = branch
  BY <1>1 DEF StayDetached, TypeOK
<1>2. CASE HasLocal /\ branch' = [branch EXCEPT !["target"] = Landing]
  <2>1. Landing \in Ref /\ branch["target"] \subseteq Landing /\ branch \in [Branches -> Ref]
    BY <1>2, Lands DEF Ref, TypeOK
  <2> QED BY <1>2, <2>1 DEF Branches, StayDetached
<1> QED BY <1>1, <1>2 DEF StayDetached

LEMMA NextTypes == IInv /\ Next => TypeOK'
<1> SUFFICES ASSUME IInv, Next PROVE TypeOK'
  OBVIOUS
<1> USE DEF Finish, Goto, refVars, remoteVars, fileVars, localVars
<1>0. TypeOK /\ Placed
  BY DEF IInv
<1>n. NoChange \in Changes
  BY DEF NoChange, Changes
<1>1. CASE Refuse
  BY <1>0, <1>1 DEF Refuse, TypeOK
<1>2. CASE ReadStatus
  BY <1>0, <1>n, <1>2 DEF ReadStatus, TypeOK
<1>3. CASE ScanDetached
  <2>1. backup' \subseteq Commit /\ unsafeHead' \in BOOLEAN
    BY <1>0, <1>3 DEF ScanDetached, TypeOK
  <2>2. result' \in {result, "Blocked"}
    BY <1>3 DEF ScanDetached
  <2> QED BY <1>0, <1>3, <2>1, <2>2 DEF ScanDetached, TypeOK
<1>4. CASE ScanBlocked
  BY <1>0, <1>4 DEF ScanBlocked, TypeOK
<1>5. CASE ScanAttached
  BY <1>0, <1>5 DEF ScanAttached, TypeOK
<1>6. CASE Recover
  <2>1. CASE CheckoutRecoveredBranch
    <3>1. /\ branch' \in [Branches -> Ref] /\ head' \in Branches \cup {"detached"} /\ at' \in Commit
          /\ change' \in Changes
      BY <1>0, <1>n, <2>1, Leaves, CommitIsRef DEF TypeOK, Branches
    <3> QED BY <1>0, <1>6, <3>1 DEF Recover, TypeOK
  <2>2. CASE StayDetached
    <3>1. branch' \in [Branches -> Ref] /\ UNCHANGED <<head, at, change, reverted>>
      BY <1>0, <2>2, Stays
    <3> QED BY <1>0, <1>6, <3>1 DEF Recover, TypeOK
  <2> QED BY <1>6, <2>1, <2>2 DEF Recover
<1>7. CASE Replay
  <2>1. branch["target"] \in Commit /\ UNION backup \in Commit
    BY <1>0, <1>7, CommitIsRef DEF Replay, Placed, TypeOK, Branches, Commit
  <2>2. branch["target"] \cup UNION backup \in Ref
    BY <2>1, CommitIsRef DEF Ref
  <2>3. branch' \in [Branches -> Ref] /\ result' \in {result, "Blocked"}
    BY <1>0, <1>7, <2>2 DEF Replay, TypeOK
  <2> QED BY <1>0, <1>7, <2>3 DEF Replay, TypeOK
<1>8. CASE Recovered
  BY <1>0, <1>8 DEF Recovered, TypeOK
<1>9. CASE Stash
  <2>1. [own |-> TRUE, index |-> change.index, tree |-> change.tree] \in Entries
    BY <1>0 DEF TypeOK, Changes, Entries
  <2>2. stash' \in Seq(Entries)
    BY <1>0, <1>9, <2>1, Pushed DEF Stash, TypeOK
  <2>3. /\ change' \in Changes /\ stashCreated' \in BOOLEAN /\ result' \in {result, "Failed"}
    BY <1>0, <1>n, <1>9 DEF Stash, TypeOK, Dirty
  <2> QED BY <1>0, <1>9, <2>2, <2>3 DEF Stash, TypeOK
<1>10. CASE Fetch
  <2>1. /\ change' \in Changes /\ stash' \in Seq(Entries) /\ result' \in {result, "Failed"}
        /\ tracking' \in {tracking, published}
    BY <1>0, <1>10, FailTells DEF Fetch, TypeOK
  <2> QED BY <1>0, <1>10, <2>1 DEF Fetch, TypeOK
<1>11. CASE Checkout
  <2>1. /\ change' \in Changes /\ stash' \in Seq(Entries) /\ result' \in {result, "Failed"}
    BY <1>0, <1>11, FailTells DEF Checkout, TypeOK
  <2>2. branch' \in [Branches -> Ref] /\ head' \in Branches \cup {"detached"} /\ at' \in Commit
    BY <1>0, <1>11, CommitIsRef DEF Checkout, TypeOK, Branches
  <2> QED BY <1>0, <1>11, <2>1, <2>2 DEF Checkout, TypeOK
<1>12. CASE Rebase
  <2>1. /\ change' \in Changes /\ stash' \in Seq(Entries) /\ result' \in {result, "Failed"}
    BY <1>0, <1>12, FailTells DEF Rebase, TypeOK
  <2>2. Behind => tracking \in Commit /\ branch["target"] \in Commit
    BY <1>0, <1>12, CommitIsRef DEF Rebase, Behind, HasRemote, TypeOK, Placed, Branches
  <2>3. Behind => branch["target"] \cup tracking \in Ref
    BY <2>2, CommitIsRef DEF Ref
  <2>4. /\ branch' \in [Branches -> Ref] /\ head' \in Branches \cup {"detached"} /\ at' \in Commit
        /\ rebasing' \in Ref /\ performedRebase' \in BOOLEAN
    BY <1>0, <1>12, <2>2, <2>3 DEF Rebase, TypeOK, Branches, Ref
  <2> QED BY <1>0, <1>12, <2>1, <2>4 DEF Rebase, TypeOK
<1>13. CASE Pop
  <2>1. /\ change' \in Changes /\ stash' \in Seq(Entries) /\ result' \in {"none", "Succeeded", "Failed"}
    BY <1>0, <1>13, PopTells DEF Pop, TypeOK
  <2> QED BY <1>0, <1>13, <2>1 DEF Pop, TypeOK
<1>14. CASE Restore
  <2>1. change' \in Changes
    BY <1>0, <1>14 DEF Restore, TypeOK, Changes
  <2> QED BY <1>0, <1>14, <2>1 DEF Restore, TypeOK
<1>15. CASE RepairFetch
  <2>1. tracking' \in {tracking, published} /\ result' \in {result, "Succeeded", "Failed"}
    BY <1>15 DEF RepairFetch
  <2> QED BY <1>0, <1>15, <2>1 DEF RepairFetch, TypeOK
<1>16. CASE Repair
  <2>1. CASE CheckoutRecoveredBranch
    <3>1. /\ branch' \in [Branches -> Ref] /\ head' \in Branches \cup {"detached"} /\ at' \in Commit
          /\ change' \in Changes
      BY <1>0, <1>n, <2>1, Leaves, CommitIsRef DEF TypeOK, Branches
    <3> QED BY <1>0, <1>16, <3>1 DEF Repair, TypeOK
  <2>2. CASE StayDetached
    <3>1. branch' \in [Branches -> Ref] /\ UNCHANGED <<head, at, change, reverted>>
      BY <1>0, <2>2, Stays
    <3> QED BY <1>0, <1>16, <3>1 DEF Repair, TypeOK
  <2> QED BY <1>16, <2>1, <2>2 DEF Repair
<1>17. CASE Edit
  <2>1. change' \in Changes
    BY <1>0, <1>17, DisturbanceAssumption DEF Edit, TypeOK, Changes
  <2> QED BY <1>0, <1>17, <2>1 DEF Edit, TypeOK
<1>18. CASE StashElsewhere
  <2>1. [own |-> FALSE, index |-> {}, tree |-> {}] \in Entries
    BY DEF Entries
  <2>2. stash' \in Seq(Entries)
    BY <1>0, <1>18, <2>1, Pushed DEF StashElsewhere, TypeOK
  <2>3. started' \in [change : Changes, head : Branches \cup {"detached"},
                     commits : SUBSET Ref, disturbed : BOOLEAN, stashes : Nat]
    <3>1. started \in [change : Changes, head : Branches \cup {"detached"},
                       commits : SUBSET Ref, disturbed : BOOLEAN, stashes : Nat]
      BY <1>0 DEF TypeOK
    <3>2. started' = [started EXCEPT !.disturbed = TRUE, !.stashes = @ + 1]
      BY <1>18 DEF StashElsewhere
    <3>3. started' = [change |-> started.change, head |-> started.head,
                      commits |-> started.commits, disturbed |-> TRUE,
                      stashes |-> started.stashes + 1]
      BY <3>1, <3>2
    <3> QED BY <3>1, <3>3
  <2> QED BY <1>0, <1>18, <2>2, <2>3 DEF StashElsewhere, TypeOK
<1>19. CASE PushElsewhere
  <2>1. PICK p \in Foreign \ published : published' = published \cup {p}
    BY <1>19 DEF PushElsewhere
  <2>2. published \in Commit
    BY <1>0, <1>19, CommitIsRef DEF PushElsewhere, TypeOK
  <2>3. published' \in Ref /\ (tracking = NoCommit \/ tracking \subseteq published')
    BY <1>0, <2>1, <2>2 DEF TypeOK, Commit, Ref
  <2> QED BY <1>0, <1>19, <2>3 DEF PushElsewhere, TypeOK
<1>20. CASE Kill
  BY <1>0, <1>20 DEF Kill, TypeOK
<1> QED BY <1>1, <1>2, <1>3, <1>4, <1>5, <1>6, <1>7, <1>8, <1>9, <1>10, <1>11, <1>12,
           <1>13, <1>14, <1>15, <1>16, <1>17, <1>18, <1>19, <1>20 DEF Next, Work

-----------------------------------------------------------------------------
(* Where a step finds the repository                                       *)

LEMMA NextPlaced == IInv /\ Next => Placed'
<1> SUFFICES ASSUME IInv, Next PROVE Placed'
  OBVIOUS
<1> USE DEF Finish, Goto, refVars, remoteVars, fileVars, localVars, Scanning, Repairing, Syncing
<1>0. TypeOK /\ Placed
  BY DEF IInv
<1>1. CASE Refuse
  BY <1>0, <1>1 DEF Refuse, Placed
<1>2. CASE ReadStatus
  BY <1>0, <1>2 DEF ReadStatus, Placed
<1>3. CASE ScanDetached
  <2>1. /\ UNCHANGED <<command, branch, head, at, tracking, rebasing>> /\ head = "detached"
        /\ rebasing = NoCommit
        /\ \/ pc' = "done"
           \/ pc' = "recover" /\ UNCHANGED result /\ pc = "health"
    BY <1>3 DEF ScanDetached, Interrupted
  <2> QED BY <1>0, <2>1 DEF Placed
<1>4. CASE ScanBlocked
  BY <1>0, <1>4 DEF ScanBlocked, Placed
<1>5. CASE ScanAttached
  <2>1. /\ UNCHANGED <<command, branch, head, at, tracking, rebasing>> /\ head # "detached"
        /\ rebasing = NoCommit
        /\ \/ pc' = "done"
           \/ pc' = "stash" /\ UNCHANGED result /\ pc = "health"
    BY <1>5 DEF ScanAttached, Interrupted
  <2> QED BY <1>0, <2>1 DEF Placed
<1>6. CASE Recover
  <2>1. CASE CheckoutRecoveredBranch
    <3>1. head' = "target" /\ branch'["target"] # NoCommit
      BY <1>0, <2>1, Leaves
    <3> QED BY <1>0, <1>6, <3>1 DEF Recover, Placed, StayDetached
  <2>2. CASE StayDetached
    BY <1>0, <1>6, <2>2 DEF Recover, Placed, StayDetached, CheckoutRecoveredBranch
  <2> QED BY <1>6, <2>1, <2>2 DEF Recover
<1>7. CASE Replay
  BY <1>0, <1>7 DEF Replay, Placed
<1>8. CASE Recovered
  BY <1>0, <1>8 DEF Recovered, Placed
<1>9. CASE Stash
  BY <1>0, <1>9 DEF Stash, Placed
<1>10. CASE Fetch
  <2>1. /\ pc = "fetch" /\ UNCHANGED <<command, branch, head, rebasing>>
        /\ \/ pc' = "done"
           \/ pc' = "checkout" /\ UNCHANGED result
    BY <1>0, <1>10, FailTells DEF Fetch
  <2> QED BY <1>0, <2>1 DEF Placed
<1>11. CASE Checkout
  <2>1. CASE pc' = "done"
    BY <1>0, <1>11, <2>1 DEF Checkout, Placed
  <2>2. CASE pc' # "done"
    <3>1. /\ HasLocal \/ HasRemote
          /\ branch' = IF HasLocal THEN branch ELSE [branch EXCEPT !["target"] = tracking]
          /\ head' = "target" /\ pc' = "rebase" /\ UNCHANGED <<command, result, rebasing>>
          /\ pc = "checkout"
      BY <1>0, <1>11, <2>2, FailTells DEF Checkout
    <3>2. branch'["target"] # NoCommit
      BY <1>0, <3>1 DEF HasLocal, HasRemote, TypeOK, Branches
    <3> QED BY <1>0, <3>1, <3>2 DEF Placed
  <2> QED BY <2>1, <2>2
<1>12. CASE Rebase
  <2>0. pc = "rebase" /\ head = "target" /\ branch["target"] # NoCommit /\ rebasing = NoCommit
        /\ result = "none"
    BY <1>0, <1>12 DEF Rebase, Placed
  <2>1. CASE pc' = "done"
    BY <1>0, <1>12, <2>1 DEF Rebase, Placed
  <2>2. CASE pc' # "done"
    <3>1. /\ pc' = "pop" /\ UNCHANGED <<command, head, rebasing, result, tracking>>
          /\ \/ ~Behind /\ UNCHANGED branch
             \/ Behind /\ branch' = [branch EXCEPT !["target"] = @ \cup tracking]
      BY <1>0, <1>12, <2>2, FailTells DEF Rebase
    <3>2. HasRemote => tracking \subseteq branch'["target"]
      BY <1>0, <2>0, <3>1 DEF Behind, HeadCommit, TypeOK, Branches
    <3>3. branch'["target"] # NoCommit
      <4>1. CASE UNCHANGED branch
        BY <2>0, <4>1
      <4>2. CASE Behind /\ branch' = [branch EXCEPT !["target"] = @ \cup tracking]
        <5>1. branch["target"] \in Commit /\ tracking \in Commit
          BY <1>0, <2>0, <4>2, CommitIsRef DEF Behind, HasRemote, TypeOK, Branches
        <5>2. branch'["target"] = branch["target"] \cup tracking
          BY <1>0, <4>2 DEF TypeOK, Branches
        <5> QED BY <5>1, <5>2, CommitIsRef
      <4> QED BY <3>1, <4>1, <4>2
    <3> QED BY <1>0, <2>0, <3>1, <3>2, <3>3 DEF Placed, HasRemote
  <2> QED BY <2>1, <2>2
<1>13. CASE Pop
  <2>1. /\ pc = "pop" /\ UNCHANGED <<command, branch, head, rebasing, tracking>>
        /\ pc' = "done" \/ (pc' = "restore" /\ result' = "none")
    BY <1>0, <1>13, PopTells DEF Pop
  <2> QED BY <1>0, <2>1 DEF Placed, HasRemote
<1>14. CASE Restore
  BY <1>0, <1>14 DEF Restore, Placed
<1>15. CASE RepairFetch
  BY <1>0, <1>15 DEF RepairFetch, Placed
<1>16. CASE Repair
  <2>1. pc' = "done" /\ UNCHANGED command
    BY <1>16 DEF Repair
  <2> QED BY <1>0, <2>1 DEF Placed
<1>17. CASE Edit
  BY <1>0, <1>17 DEF Edit, Placed, HasRemote
<1>18. CASE StashElsewhere
  BY <1>0, <1>18 DEF StashElsewhere, Placed, HasRemote
<1>19. CASE PushElsewhere
  BY <1>0, <1>19 DEF PushElsewhere, Placed, HasRemote
<1>20. CASE Kill
  BY <1>0, <1>20 DEF Kill, Running, Placed
<1> QED BY <1>1, <1>2, <1>3, <1>4, <1>5, <1>6, <1>7, <1>8, <1>9, <1>10, <1>11, <1>12,
           <1>13, <1>14, <1>15, <1>16, <1>17, <1>18, <1>19, <1>20 DEF Next, Work

-----------------------------------------------------------------------------
(* No commit is lost                                                       *)

\* What does not touch the refs keeps what they hold.
LEMMA SameRefs ==
    ASSUME UNCHANGED <<branch, head, at, rebasing, tracking>>, backup \subseteq backup'
    PROVE  UNION Refs \subseteq (UNION Refs)'
BY DEF Refs, HeadCommit

\* Where the branches, HEAD and the remote branch hold at least what they held.
LEMMA MoreRefs ==
    ASSUME NEW o, o \in UNION Refs, backup \subseteq backup',
           o \in branch["target"] => o \in (UNION Refs)',
           o \in branch["other"] => o \in (UNION Refs)',
           o \in HeadCommit => o \in (UNION Refs)',
           o \in rebasing => o \in (UNION Refs)',
           o \in tracking => o \in (UNION Refs)'
    PROVE  o \in (UNION Refs)'
<1>1. ASSUME NEW b \in backup, o \in b PROVE o \in (UNION Refs)'
  BY <1>1 DEF Refs
<1> QED BY <1>1, Holders

\* The steps of a sync that change refs keep every own patch that a ref holds.
LEMMA RefsKeep ==
    ASSUME IInv, TypeOK', Next, command = "origin-latest", ~CountMayFail,
           NEW o \in Own, o \in UNION Refs
    PROVE  o \in (UNION Refs)'
<1> USE DEF Finish, Goto, refVars, remoteVars, fileVars, localVars, Scanning, Repairing, Syncing
<1>0. TypeOK /\ Placed /\ Safe
  BY DEF IInv
<1>a. /\ o # "no ref" /\ o \notin NoCommit
      /\ branch \in [Branches -> Ref] /\ branch' \in [Branches -> Ref]
      /\ "target" \in Branches /\ "other" \in Branches
  BY <1>0, PatchAssumption DEF NoCommit, TypeOK, Branches
<1>b. \A b \in Branches : o \in branch'[b] => o \in (UNION Refs)'
  BY DEF Refs
<1>c. /\ o \in HeadCommit' => o \in (UNION Refs)'
      /\ o \in rebasing' => o \in (UNION Refs)'
      /\ o \in tracking' => o \in (UNION Refs)'
      /\ \A b \in backup' : o \in b => o \in (UNION Refs)'
  BY DEF Refs
<1>1. CASE UNCHANGED <<branch, head, at, rebasing, tracking>> /\ backup \subseteq backup'
  BY <1>1, SameRefs
<1>2. CASE Recover
  <2>0. pc = "recover" /\ head = "detached" /\ UNCHANGED <<backup, rebasing, tracking>>
    BY <1>0, <1>2 DEF Recover, Placed
  <2>1. o \in branch["target"] => o \in branch'["target"]
    <3>1. CASE CheckoutRecoveredBranch
      BY <1>0, <1>a, <3>1, Leaves
    <3>2. CASE StayDetached
      BY <1>0, <3>2, Stays
    <3> QED BY <1>2, <3>1, <3>2 DEF Recover
  <2>2. o \in branch["other"] => o \in branch'["other"]
    BY <1>0, <1>2, Leaves, Stays DEF Recover
  <2>3. o \in HeadCommit => o \in (UNION Refs)'
    <3>1. at \in backup \/ at \subseteq tracking
      BY <1>0, <2>0 DEF Safe
    <3> QED BY <1>c, <2>0, <3>1 DEF HeadCommit
  <2> QED BY <1>a, <1>b, <1>c, <2>0, <2>1, <2>2, <2>3, MoreRefs
<1>3. CASE Replay
  <2>1. /\ UNCHANGED <<head, at, backup, rebasing, tracking>>
        /\ head = "target"
    BY <1>0, <1>3 DEF Replay, Placed
  <2>2. /\ branch["target"] \subseteq branch'["target"] /\ branch'["other"] = branch["other"]
    BY <1>a, <1>3 DEF Replay, Branches
  <2> QED BY <1>a, <1>b, <1>c, <2>1, <2>2, MoreRefs DEF HeadCommit
<1>4. CASE Fetch
  <2>1. UNCHANGED <<branch, head, at, backup, rebasing>> /\ tracking' \in {tracking, published}
    BY <1>4 DEF Fetch
  <2>2. o \in tracking => o \in tracking'
    BY <1>0, <1>a, <2>1 DEF TypeOK
  <2> QED BY <1>a, <1>b, <1>c, <2>1, <2>2, MoreRefs DEF HeadCommit
<1>5. CASE Checkout
  <2>1. /\ UNCHANGED <<backup, rebasing, tracking>> /\ head \in Branches
        /\ \/ branch' = branch
           \/ ~HasLocal /\ branch' = [branch EXCEPT !["target"] = tracking]
    BY <1>0, <1>5 DEF Checkout, Placed, TypeOK
  <2>2. \A b \in Branches : o \in branch[b] => o \in branch'[b]
    BY <1>a, <2>1 DEF HasLocal
  <2>3. HeadCommit = branch[head]
    BY <2>1 DEF HeadCommit, Branches
  <2> QED BY <1>a, <1>b, <1>c, <2>1, <2>2, <2>3, MoreRefs
<1>6. CASE Rebase
  <2>1. /\ UNCHANGED <<backup, tracking>> /\ head = "target" /\ rebasing = NoCommit
        /\ \/ branch' = branch
           \/ branch' = [branch EXCEPT !["target"] = @ \cup tracking]
    BY <1>0, <1>6 DEF Rebase, Placed
  <2>2. \A b \in Branches : o \in branch[b] => o \in branch'[b]
    BY <1>a, <2>1
  <2>3. HeadCommit = branch["target"]
    BY <2>1 DEF HeadCommit, Branches
  <2> QED BY <1>a, <1>b, <1>c, <2>1, <2>2, <2>3, MoreRefs
<1>7. pc # "repair" /\ ~RepairFetch /\ ~Repair
  BY <1>0 DEF Placed, RepairFetch, Repair
<1> QED BY <1>1, <1>2, <1>3, <1>4, <1>5, <1>6, <1>7
        DEF Next, Work, Refuse, ReadStatus, ScanDetached, ScanBlocked, ScanAttached, Recovered,
            Stash, Pop, Restore, Edit, StashElsewhere, PushElsewhere, Kill

\* What the command was called on is remembered, and who disturbs it.
LEMMA Remembered ==
    ASSUME TypeOK, Next
    PROVE  /\ command' = command /\ started'.change = started.change
           /\ started'.head = started.head /\ started'.commits = started.commits
           /\ started.disturbed => started'.disturbed
           /\ UNCHANGED started \/ started'.disturbed
<1>1. CASE Edit
  <2>1. started' = [started EXCEPT !.disturbed = TRUE] /\ command' = command
    BY <1>1 DEF Edit
  <2> QED BY <2>1 DEF TypeOK
<1>2. CASE StashElsewhere
  <2>1. started' = [started EXCEPT !.disturbed = TRUE, !.stashes = @ + 1] /\ command' = command
    BY <1>2 DEF StashElsewhere
  <2> QED BY <2>1 DEF TypeOK
<1>3. CASE UNCHANGED <<started, command>>
  BY <1>3
<1> QED BY <1>1, <1>2, <1>3
        DEF Next, Work, Refuse, ReadStatus, ScanDetached, ScanBlocked, ScanAttached, Recover,
            Replay, Recovered, Stash, Fetch, Checkout, Rebase, Pop, Restore, RepairFetch, Repair,
            PushElsewhere, Kill

LEMMA NextSafe == IInv /\ Next => Safe'
<1> SUFFICES ASSUME IInv, Next, command = "origin-latest", ~CountMayFail, pc' = "recover"
             PROVE  at' \in backup' \/ at' \subseteq tracking'
  BY Remembered DEF IInv, Safe
<1>1. CASE ScanDetached
  BY <1>1 DEF ScanDetached, Finish, remoteVars
<1>2. CASE Edit \/ StashElsewhere \/ PushElsewhere
  BY <1>2 DEF Edit, StashElsewhere, PushElsewhere, IInv, Safe, refVars, remoteVars
<1>3. CASE FailRestoring
  BY <1>3, FailTells DEF IInv
<1>4. CASE Pop
  BY <1>4, PopTells DEF IInv, Pop, Finish
<1> QED BY <1>1, <1>2, <1>3, <1>4
        DEF Next, Work, Refuse, ReadStatus, ScanBlocked, ScanAttached, Recover, Replay, Recovered,
            Stash, Fetch, Checkout, Rebase, Restore, RepairFetch, Repair, Kill, Finish, Goto

LEMMA NextCommits == IInv /\ TypeOK' /\ Next => (~CountMayFail => CommitsKept')
<1> SUFFICES ASSUME IInv, TypeOK', Next, ~CountMayFail, command = "origin-latest",
                    NEW c \in started.commits \ {NoCommit}, NEW o \in c \cap Own
             PROVE  o \in (UNION Refs)'
  BY Remembered DEF IInv, CommitsKept
<1>1. o \in UNION Refs
  BY DEF IInv, CommitsKept
<1> QED BY <1>1, RefsKeep

-----------------------------------------------------------------------------
(* A success is current                                                    *)

LEMMA NextSuccess == IInv /\ Placed' /\ Next => SuccessIsCurrent'
<1> SUFFICES ASSUME IInv, Placed', Next, command = "origin-latest", result' = "Succeeded"
             PROVE  /\ head' = "target" /\ rebasing' = NoCommit
                    /\ HasRemote' => tracking' \subseteq branch'["target"]
  BY Remembered DEF IInv, SuccessIsCurrent
<1> USE DEF Finish, Goto, refVars, remoteVars
<1>0. TypeOK /\ Placed /\ SuccessIsCurrent
  BY DEF IInv
<1>1. CASE Pop \/ Restore
  <2>1. UNCHANGED <<head, rebasing, branch, tracking>> /\ pc \in {"pop", "restore"}
    BY <1>1 DEF Pop, Restore
  <2> QED BY <1>0, <2>1 DEF Placed, HasRemote, Syncing
<1>2. CASE FailRestoring
  BY <1>0, <1>2, FailTells
<1>3. pc # "done" => result = "none"
  BY <1>0 DEF Placed
<1>4. ~RepairFetch /\ ~Repair
  BY <1>0 DEF Placed, RepairFetch, Repair
<1> QED BY <1>1, <1>2, <1>3, <1>4
        DEF Next, Work, Refuse, ReadStatus, ScanDetached, ScanBlocked, ScanAttached, Recover,
            Replay, Recovered, Stash, Fetch, Checkout, Rebase, Edit, StashElsewhere, PushElsewhere,
            Kill, Running

-----------------------------------------------------------------------------
(* No edit is lost                                                         *)

\* Where the changes of the user are found.
LEMMA NextFound ==
    IInv /\ Next /\ command = "origin-latest" =>
        Found' /\ started'.change.tree \subseteq change'.tree \cup Trees(stash')
<1> SUFFICES ASSUME IInv, Next, command = "origin-latest"
             PROVE  Found' /\ started'.change.tree \subseteq change'.tree \cup Trees(stash')
  OBVIOUS
<1> USE DEF Finish, Goto, refVars, remoteVars, fileVars, localVars, Scanning, Repairing, Syncing
<1> DEFINE mine == started.change.tree
           Kept == mine \subseteq change.tree \cup Trees(stash)
           Frame == UNCHANGED <<started, snapshots, stashCreated, hasLocalChanges, reverted>>
<1>0. TypeOK /\ Placed /\ Found /\ Kept
  BY DEF IInv
<1>m. started'.change.tree = mine /\ started'.head = started.head
  BY <1>0, Remembered
<1>r. reverted = {}
  <2>1. pc # "done"
    BY DEF Next, Work, Refuse, ReadStatus, ScanDetached, ScanBlocked, ScanAttached, Recover,
           Replay, Recovered, Stash, Fetch, Checkout, Rebase, Pop, Restore, RepairFetch, Repair,
           Edit, StashElsewhere, PushElsewhere, Kill, Running
  <2> QED BY <1>0, <2>1 DEF Found
<1>1. CASE /\ Frame /\ UNCHANGED <<change, stash>>
           /\ pc' \notin {"status", "recover"}
           /\ pc' = "health" => pc \in Scanning
           /\ pc' \in Scanning \cup Repairing \cup {"stash"} => pc \in Scanning \cup Repairing \cup {"stash"}
           /\ pc' = "restore" => stashCreated
  BY <1>0, <1>r, <1>1 DEF Found
<1>2. CASE ReadStatus
  BY <1>0, <1>r, <1>2 DEF ReadStatus, Found, NoChange
<1>3. CASE ScanDetached
  <2>1. /\ Frame /\ UNCHANGED <<change, stash>> /\ pc = "health"
        /\ pc' = "done" \/ (pc' = "recover" /\ ~Dirty)
    BY <1>3 DEF ScanDetached
  <2> QED BY <1>0, <1>r, <2>1 DEF Found, Dirty, NoChange
<1>4. CASE Recover
  <2>1. /\ pc = "recover" /\ UNCHANGED <<started, snapshots, stashCreated, hasLocalChanges, stash>>
        /\ pc' \in {"replay", "recovered", "done"} /\ reverted' \in {reverted, {}}
    BY <1>4 DEF Recover, CheckoutRecoveredBranch, StayDetached
  <2> QED BY <1>0, <1>r, <2>1 DEF Found
<1>5. CASE Stash
  <2>1. CASE UNCHANGED <<change, stash, stashCreated>>
    BY <1>0, <1>r, <1>5, <2>1 DEF Stash, Found
  <2>2. CASE ~UNCHANGED <<change, stash, stashCreated>>
    <3> DEFINE e == [own |-> TRUE, index |-> change.index, tree |-> change.tree]
    <3>1. /\ UNCHANGED <<started, snapshots, hasLocalChanges, reverted>> /\ pc' = "fetch"
          /\ hasLocalChanges
          /\ stash' = (IF Dirty THEN <<e>> \o stash ELSE stash)
          /\ change' = NoChange /\ stashCreated' = Dirty
      BY <1>5, <2>2 DEF Stash
    <3>2. e \in Entries /\ e.tree = change.tree
      BY <1>0 DEF TypeOK, Changes, Entries
    <3>3. Dirty => Trees(stash') = change.tree \cup Trees(stash)
      BY <1>0, <3>1, <3>2, Pushed DEF TypeOK
    <3>4. mine \subseteq Trees(stash')
      <4>1. CASE Dirty
        BY <1>0, <3>3, <4>1
      <4>2. CASE ~Dirty
        <5>1. change.tree = {} /\ stash' = stash
          BY <3>1, <4>2 DEF Dirty, NoChange
        <5> QED BY <1>0, <5>1
      <4> QED BY <4>1, <4>2
    <3>5. Found'
      BY <1>0, <1>r, <3>1 DEF Found
    <3> QED BY <1>m, <3>4, <3>5
  <2> QED BY <2>1, <2>2
<1>6. CASE Fetch \/ Checkout \/ Rebase
  <2>1. /\ UNCHANGED <<started, snapshots, stashCreated, hasLocalChanges, reverted>>
        /\ pc' \in {"checkout", "rebase", "pop", "done"}
        /\ change.tree \cup Trees(stash) \subseteq change'.tree \cup Trees(stash')
    BY <1>0, <1>6, FailTells DEF Fetch, Checkout, Rebase
  <2> QED BY <1>0, <1>m, <1>r, <2>1 DEF Found
<1>7. CASE Pop
  <2>1. /\ UNCHANGED <<started, snapshots, stashCreated, hasLocalChanges, reverted>>
        /\ pc' = "done" \/ (pc' = "restore" /\ stashCreated)
        /\ change.tree \cup Trees(stash) \subseteq change'.tree \cup Trees(stash')
    BY <1>0, <1>7, PopTells DEF Pop
  <2> QED BY <1>0, <1>m, <1>r, <2>1 DEF Found
<1>8. CASE Restore
  <2>1. /\ UNCHANGED <<started, snapshots, stashCreated, hasLocalChanges, stash>> /\ pc' = "done"
        /\ \/ UNCHANGED <<change, reverted>>
           \/ /\ change'.tree = snapshots.tree \cup
                                 {e \in change.tree : FileOf[e] \notin Files(snapshots.tree)}
              /\ SwitchedBranch \/ reverted' = {}
    BY <1>8 DEF Restore
  <2>2. mine \subseteq change'.tree \cup Trees(stash')
    <3>1. CASE snapshots.tree = {}
      <4>1. Files({}) = {}
        BY DEF Files
      <4> QED BY <1>0, <2>1, <3>1, <4>1
    <3>2. CASE mine \subseteq snapshots.tree
      BY <1>0, <2>1, <3>2
    <3> QED BY <1>0, <3>1, <3>2 DEF Found
  <2>3. reverted' # {} => /\ LeftBranch' /\ hasLocalChanges' /\ result' = "Succeeded"
                          /\ reverted' \subseteq Files(snapshots'.tree)
    <3>1. reverted' # {} => SwitchedBranch /\ ~performedRebase /\ reverted' \subseteq Files(snapshots.tree)
      BY <1>8, <1>r DEF Restore
    <3>2. LeftBranch' <=> LeftBranch
      BY <1>8 DEF Restore, LeftBranch, SwitchedBranch
    <3> QED BY <1>0, <1>8, <2>1, <3>1, <3>2 DEF Found, LeftBranch, Restore
  <2>4. Found'
    BY <1>0, <1>m, <2>1, <2>3 DEF Found
  <2> QED BY <1>m, <2>2, <2>4
<1>9. CASE Edit
  <2>1. /\ UNCHANGED <<pc, snapshots, stashCreated, hasLocalChanges, reverted, stash>>
        /\ change.tree \subseteq change'.tree
    BY <1>0, <1>9 DEF Edit, TypeOK, Changes
  <2> QED BY <1>0, <1>m, <1>r, <2>1 DEF Found
<1>10. CASE StashElsewhere
  <2>1. /\ UNCHANGED <<pc, snapshots, stashCreated, hasLocalChanges, reverted, change>>
        /\ stash' = <<[own |-> FALSE, index |-> {}, tree |-> {}]>> \o stash
    BY <1>10 DEF StashElsewhere
  <2>2. [own |-> FALSE, index |-> {}, tree |-> {}] \in Entries
    BY DEF Entries
  <2>3. Trees(stash) \subseteq Trees(stash')
    BY <1>0, <2>1, <2>2, Pushed DEF TypeOK
  <2>4. Found'
    BY <1>0, <1>m, <1>r, <2>1 DEF Found
  <2> QED BY <1>0, <1>m, <2>1, <2>3, <2>4
<1>11. CASE PushElsewhere
  BY <1>0, <1>r, <1>11 DEF PushElsewhere, Found
<1>12. CASE Kill \/ Refuse \/ ScanBlocked \/ ScanAttached \/ Replay \/ Recovered
  BY <1>1, <1>12 DEF Kill, Refuse, ScanBlocked, ScanAttached, Replay, Recovered
<1>13. ~RepairFetch /\ ~Repair
  BY <1>0 DEF Placed, RepairFetch, Repair
<1> QED BY <1>2, <1>3, <1>4, <1>5, <1>6, <1>7, <1>8, <1>9, <1>10, <1>11, <1>12, <1>13
        DEF Next, Work

\* The entry that the sync saves is what the command was called on.
LEMMA SavedEntry ==
    ASSUME TypeOK
    PROVE  /\ Saved \in Entries /\ Saved.own = TRUE
           /\ Saved.index = started.change.index /\ Saved.tree = started.change.tree
           /\ started.change = [index |-> Saved.index, tree |-> Saved.tree]
           /\ NoChange.index = {} /\ NoChange.tree = {}
BY DEF TypeOK, Saved, Entries, Changes, NoChange

\* Popping it from a clean worktree gives back what the command was called on.
LEMMA PopsBack ==
    ASSUME TypeOK, stash = <<Saved>>, change = NoChange
    PROVE  Popped = started.change /\ Tail(stash) = <<>> /\ stash # <<>>
<1>1. Head(stash) = Saved /\ Tail(stash) = <<>> /\ stash # <<>>
  BY SavedEntry, OneEntry
<1>2. Popped = [index |-> {} \cup Saved.index, tree |-> {} \cup Saved.tree]
  BY <1>1, SavedEntry DEF Popped
<1>3. {} \cup Saved.index = Saved.index /\ {} \cup Saved.tree = Saved.tree
  OBVIOUS
<1>4. Popped = started.change
  BY <1>2, <1>3, SavedEntry
<1> QED BY <1>1, <1>4

\* A sync that nobody disturbs.
LEMMA NextUndisturbed == IInv /\ Next /\ command = "origin-latest" => Undisturbed'
<1> SUFFICES ASSUME IInv, Next, command = "origin-latest", ~started'.disturbed
             PROVE  Undisturbed'
  BY DEF Undisturbed
<1> USE DEF Finish, Goto, refVars, remoteVars, fileVars, localVars, Scanning, Repairing, Syncing
<1> DEFINE Clean == stash = <<>> /\ change = started.change
           Away == stash = <<Saved>> /\ change = NoChange
<1>0. TypeOK /\ Placed /\ Found
  BY DEF IInv
<1>a. UNCHANGED started /\ ~started.disturbed /\ Saved' = Saved
  BY <1>0, Remembered DEF Saved
<1>b. /\ hasLocalChanges => snapshots = started.change
      /\ pc = "recover" => change = NoChange
      /\ pc \in Syncing => (stashCreated <=> stash # <<>>)
      /\ \/ Clean
         \/ Away /\ (pc \in Syncing \cup {"killed"} \/ (pc = "done" /\ result = "Failed"))
  BY <1>a DEF IInv, Undisturbed
<1>c. Away => stash # <<>>
  BY <1>0, SavedEntry, OneEntry
<1>d. NoChange = NoChange' /\ \A s : (s = <<Saved>>) = (s = <<Saved'>>)
  BY <1>a DEF NoChange
<1>e. \/ UNCHANGED <<change, stash>>
      \/ stash # <<>> /\ change' = Popped /\ stash' = Tail(stash)
      => (Clean => Clean') /\ (Away => Away' \/ Clean')
  <2>1. CASE UNCHANGED <<change, stash>>
    BY <1>a, <2>1
  <2>2. CASE stash # <<>> /\ change' = Popped /\ stash' = Tail(stash)
    BY <1>0, <1>a, <2>2, PopsBack
  <2> QED BY <2>1, <2>2
<1> HIDE DEF Clean, Away
<1>f. Undisturbed' <=> (/\ hasLocalChanges' => snapshots' = started'.change
                        /\ pc' = "recover" => change' = NoChange
                        /\ pc' \in Syncing => (stashCreated' <=> stash' # <<>>)
                        /\ \/ Clean'
                           \/ Away' /\ (pc' \in Syncing \cup {"killed"} \/ (pc' = "done" /\ result' = "Failed")))
  BY <1>a DEF Undisturbed, Clean, Away, NoChange
<1>1. CASE ReadStatus
  <2>1. /\ pc = "status" /\ pc' = "health" /\ UNCHANGED <<change, stash>>
        /\ hasLocalChanges' => snapshots' = change
    BY <1>1 DEF ReadStatus
  <2> QED BY <1>a, <1>b, <1>e, <1>f, <2>1 DEF Clean
<1>2. CASE ScanDetached
  <2>1. /\ pc = "health" /\ UNCHANGED <<change, stash, snapshots, hasLocalChanges, stashCreated>>
        /\ pc' = "done" \/ (pc' = "recover" /\ ~Dirty)
    BY <1>2 DEF ScanDetached
  <2> QED BY <1>a, <1>b, <1>e, <1>f, <2>1 DEF Dirty
<1>3. CASE Recover
  <2>1. /\ pc = "recover" /\ UNCHANGED <<snapshots, hasLocalChanges, stashCreated, stash>>
        /\ pc' \in {"replay", "recovered", "done"} /\ (change' = change \/ Dirty)
    BY <1>3 DEF Recover, CheckoutRecoveredBranch, StayDetached
  <2> QED BY <1>a, <1>b, <1>e, <1>f, <2>1 DEF Dirty
<1>4. CASE Stash
  <2>0. pc = "stash" /\ UNCHANGED <<hasLocalChanges, snapshots>> /\ ~stashCreated /\ Clean
    BY <1>0, <1>4, <1>b DEF Stash, Found
  <2>1. CASE UNCHANGED <<change, stash, stashCreated>>
    <3>1. pc' \in {"fetch", "done"} /\ Clean'
      BY <1>4, <1>e, <2>0, <2>1 DEF Stash
    <3> QED BY <1>a, <1>b, <1>f, <2>0, <2>1, <3>1 DEF Clean
  <2>2. CASE ~UNCHANGED <<change, stash, stashCreated>>
    <3>1. /\ pc' = "fetch" /\ hasLocalChanges
          /\ stash' = IF Dirty THEN <<[own |-> TRUE, index |-> change.index, tree |-> change.tree]>> \o stash
                      ELSE stash
          /\ change' = NoChange /\ stashCreated' = Dirty
      BY <1>4, <2>2 DEF Stash
    <3>2. CASE Dirty
      <4>1. [own |-> TRUE, index |-> change.index, tree |-> change.tree] = Saved
        BY <2>0 DEF Clean, Saved
      <4>2. stash' = <<Saved>>
        BY <1>0, <2>0, <3>1, <3>2, <4>1, SavedEntry, Pushed DEF Clean, TypeOK
      <4>3. Away' /\ stash' # <<>>
        BY <1>0, <1>a, <3>1, <4>2, SavedEntry, OneEntry DEF Away, NoChange
      <4> QED BY <1>a, <1>b, <1>f, <2>0, <3>1, <3>2, <4>3
    <3>3. CASE ~Dirty
      <4>1. Clean' /\ stash' = <<>>
        BY <1>a, <2>0, <3>1, <3>3 DEF Clean, Dirty
      <4> QED BY <1>a, <1>b, <1>f, <2>0, <3>1, <3>3, <4>1
    <3> QED BY <3>2, <3>3
  <2> QED BY <2>1, <2>2
<1>5. CASE Fetch \/ Checkout \/ Rebase
  <2>1. /\ pc \in Syncing /\ UNCHANGED <<hasLocalChanges, snapshots, stashCreated>>
        /\ \/ pc' \in {"checkout", "rebase", "pop"} /\ UNCHANGED <<change, stash>>
           \/ /\ pc' = "done" /\ result' = "Failed"
              /\ \/ UNCHANGED <<change, stash>>
                 \/ stash # <<>> /\ change' = Popped /\ stash' = Tail(stash)
    BY <1>0, <1>5, FailTells DEF Fetch, Checkout, Rebase
  <2> QED BY <1>a, <1>b, <1>e, <1>f, <2>1
<1>6. CASE Pop
  <2>1. pc = "pop" /\ UNCHANGED <<hasLocalChanges, snapshots, stashCreated>>
    BY <1>6 DEF Pop
  <2>2. CASE ~stashCreated
    <3>1. pc' = "done" /\ UNCHANGED <<change, stash>> /\ stash = <<>>
      BY <1>6, <1>b, <2>1, <2>2 DEF Pop
    <3>2. Clean
      BY <1>b, <1>c, <3>1 DEF Away
    <3> QED BY <1>a, <1>b, <1>e, <1>f, <2>1, <3>1, <3>2
  <2>3. CASE stashCreated
    <3>1. stash # <<>> /\ Away
      BY <1>b, <2>1, <2>3 DEF Clean
    <3>2. \/ /\ pc' = "restore" /\ stash # <<>> /\ change' = Popped /\ stash' = Tail(stash)
          \/ pc' = "done" /\ result' = "Failed" /\ UNCHANGED <<change, stash>>
      BY <1>0, <1>6, <2>3, PopTells DEF Pop
    <3>3. CASE pc' = "restore"
      <4>1. change' = Popped /\ stash' = Tail(stash) /\ stash = <<Saved>> /\ change = NoChange
        BY <3>1, <3>2, <3>3 DEF Away
      <4>2. Clean'
        BY <1>0, <1>a, <4>1, PopsBack DEF Clean
      <4> QED BY <1>a, <1>b, <1>f, <2>1, <3>3, <4>2
    <3>4. CASE pc' # "restore"
      BY <1>a, <1>b, <1>e, <1>f, <2>1, <3>1, <3>2, <3>4
    <3> QED BY <3>3, <3>4
  <2> QED BY <2>2, <2>3
<1>7. CASE Restore
  <2>1. /\ pc = "restore" /\ pc' = "done" /\ UNCHANGED <<hasLocalChanges, snapshots, stashCreated, stash>>
        /\ \/ UNCHANGED change
           \/ change' = [index |-> change.index,
                         tree |-> snapshots.tree \cup
                                  {e \in change.tree : FileOf[e] \notin Files(snapshots.tree)}]
    BY <1>7 DEF Restore
  <2>2. Clean /\ snapshots = started.change
    BY <1>0, <1>b, <2>1 DEF Found
  <2>3. change' = change
    <3>1. change = snapshots /\ change = [index |-> change.index, tree |-> change.tree]
      BY <1>0, <2>2 DEF Clean, TypeOK, Changes
    <3>2. \A e \in change.tree : FileOf[e] \in Files(snapshots.tree)
      BY <3>1 DEF Files
    <3>3. snapshots.tree \cup {e \in change.tree : FileOf[e] \notin Files(snapshots.tree)} = change.tree
      BY <3>1, <3>2
    <3> QED BY <2>1, <3>1, <3>3
  <2> QED BY <1>a, <1>b, <1>e, <1>f, <2>1, <2>2, <2>3
<1>8. CASE Kill
  BY <1>8, <1>a, <1>b, <1>e, <1>f DEF Kill
<1>9. CASE PushElsewhere
  BY <1>9, <1>a, <1>b, <1>e, <1>f DEF PushElsewhere
<1>10. CASE Refuse \/ ScanBlocked \/ ScanAttached \/ Replay \/ Recovered
  <2>1. /\ UNCHANGED <<change, stash, hasLocalChanges, snapshots, stashCreated>>
        /\ pc \in Scanning \cup Repairing /\ pc' \in {"done", "stash", "recovered"}
    BY <1>10 DEF Refuse, ScanBlocked, ScanAttached, Replay, Recovered
  <2> QED BY <1>a, <1>b, <1>e, <1>f, <2>1
<1>11. ~Edit /\ ~StashElsewhere
  <2>1. Edit \/ StashElsewhere => started' = [started EXCEPT !.disturbed = TRUE]
                              \/ started' = [started EXCEPT !.disturbed = TRUE, !.stashes = @ + 1]
    BY DEF Edit, StashElsewhere
  <2> QED BY <1>0, <1>a, <2>1 DEF TypeOK
<1>12. ~RepairFetch /\ ~Repair
  BY <1>0 DEF Placed, RepairFetch, Repair
<1> QED BY <1>1, <1>2, <1>3, <1>4, <1>5, <1>6, <1>7, <1>8, <1>9, <1>10, <1>11, <1>12
        DEF Next, Work

-----------------------------------------------------------------------------
LEMMA NextIInv == IInv /\ [Next]_vars => IInv'
<1> SUFFICES ASSUME IInv, [Next]_vars PROVE IInv'
  OBVIOUS
<1>1. CASE Next
  <2>1. TypeOK' /\ Placed' /\ Safe'
    BY <1>1, NextTypes, NextPlaced, NextSafe
  <2>2. (~CountMayFail => CommitsKept') /\ SuccessIsCurrent'
    BY <1>1, <2>1, NextCommits, NextSuccess
  <2>3. command' = command
    BY <1>1, Remembered DEF IInv
  <2>4. command = "origin-latest" =>
          /\ Found' /\ Undisturbed'
          /\ started'.change.tree \subseteq change'.tree \cup Trees(stash')
    BY <1>1, NextFound, NextUndisturbed
  <2>5. CountMayFail' = CountMayFail
    OBVIOUS
  <2> QED BY <2>1, <2>2, <2>3, <2>4 DEF IInv, Trees
<1>2. CASE UNCHANGED vars
  BY <1>2 DEF vars, refVars, remoteVars, fileVars, localVars, IInv, TypeOK, Placed, CommitsKept, Refs,
       HeadCommit, Safe, Found, LeftBranch, SwitchedBranch, Undisturbed, Saved, Trees, SuccessIsCurrent,
       HasRemote
<1> QED BY <1>1, <1>2

\* What is known at each step of a sync, whatever fails and whoever disturbs it.
THEOREM SyncInvariant == Spec => []IInv
BY InitIInv, NextIInv, PTL DEF Spec

\* The repository keeps its shape.
THEOREM SyncTypes == Spec => []TypeOK
<1>1. IInv => TypeOK
  BY DEF IInv
<1> QED BY <1>1, SyncInvariant, PTL

\* Where what a detached HEAD has more can be counted, every commit of this
\* clone that could be named at the call can be named still.
THEOREM SyncKeepsCommits ==
    ASSUME ~CountMayFail
    PROVE  Spec => []CommitsKept
<1>1. IInv => CommitsKept
  BY DEF IInv
<1> QED BY <1>1, SyncInvariant, PTL

\* No change of the user is lost, on whatever branch sync is called; a sync
\* that nobody disturbs gives the changes back as they were, or reports a
\* failure and keeps them in its stash entry. It undoes what HEAD has in a file
\* only where it left another branch without a rebase and the user had changed
\* that file.
THEOREM SyncKeepsEdits == Spec => []EditsKept
<1>1. IInv => EditsKept
  <2> SUFFICES ASSUME IInv, command = "origin-latest"
               PROVE  /\ started.change.tree \subseteq
                            change.tree \cup UNION {stash[i].tree : i \in DOMAIN stash}
                      /\ pc = "done" /\ ~started.disturbed =>
                            \/ /\ change = started.change /\ ~OwnStash
                               /\ reverted \subseteq IF LeftBranch THEN Files(started.change.tree) ELSE {}
                            \/ OwnStash /\ reverted = {} /\ result = "Failed"
    BY DEF EditsKept
  <2>1. TypeOK /\ Found /\ Undisturbed /\ started.change.tree \subseteq change.tree \cup Trees(stash)
    BY DEF IInv
  <2>2. /\ ~started.disturbed => reverted \subseteq IF LeftBranch THEN Files(started.change.tree) ELSE {}
        /\ result = "Failed" => reverted = {}
    BY <2>1 DEF Found, Undisturbed
  <2>3. stash = <<>> => ~OwnStash
    BY DEF OwnStash
  <2>4. stash = <<Saved>> => OwnStash
    <3> SUFFICES ASSUME stash = <<Saved>> PROVE OwnStash
      OBVIOUS
    <3>0. stash = <<Saved>> => DOMAIN stash = 1..1 /\ stash[1] = Saved
      OBVIOUS
    <3>1. stash[1].own = TRUE
      BY <2>1, <3>0, SavedEntry
    <3>2. 1 \in DOMAIN stash
      BY <3>0
    <3> QED BY <3>1, <3>2 DEF OwnStash
  <2> QED BY <2>1, <2>2, <2>3, <2>4 DEF Undisturbed, Trees, Syncing
<1> QED BY <1>1, SyncInvariant, PTL

\* A success is on the target with all that was fetched below it.
THEOREM SyncSuccess == Spec => []SuccessIsCurrent
<1>1. IInv => SuccessIsCurrent
  BY DEF IInv
<1> QED BY <1>1, SyncInvariant, PTL
=============================================================================
