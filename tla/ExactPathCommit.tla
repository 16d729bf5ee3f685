-------------------------- MODULE ExactPathCommit --------------------------
(***************************************************************************)
(* kog commit --exact-path (RunExactPathCommit, without --overlap-         *)
(* checkpoint): the selected paths are committed through a temporary index *)
(* seeded from HEAD, then brought up to date in the real one.  Every git   *)
(* command that it runs is a step, and others work in between.             *)
(***************************************************************************)
EXTENDS SelectedCommit

VARIABLES
    tmp,         \* the temporary index
    receipt      \* the commit it reports

kog == <<pc, base, before, tmp, result, receipt>>
exactVars == <<checkout, kog>>

ExactInit ==
    /\ CheckoutInit
    /\ pc = "begin" /\ base = 0 /\ result = "" /\ receipt = 0
    /\ before = index /\ tmp = index

ExactStop(r) == /\ pc' = "done" /\ result' = r
                /\ UNCHANGED <<base, before, tmp, receipt>>

-----------------------------------------------------------------------------
\* An existing index.lock refuses; otherwise HEAD is read.
ReadHead ==
    /\ pc = "begin"
    /\ \/ indexLock # "free" /\ ExactStop("git_index_lock")
       \/ /\ indexLock = "free"
          /\ base' = Len(log) /\ Goto("entries")
          /\ UNCHANGED <<before, tmp, receipt>>
    /\ UNCHANGED checkout

\* ParseIndexEntries.
ReadEntries ==
    /\ pc = "entries" /\ before' = index /\ Goto("readtree")
    /\ UNCHANGED <<checkout, base, tmp, receipt>>

\* git read-tree HEAD into the temporary index.
ReadTree ==
    /\ pc = "readtree" /\ tmp' = HeadTree /\ Goto("stage")
    /\ UNCHANGED <<checkout, base, before, receipt>>

\* git add -u of the paths HEAD has, git add of the others, which must exist;
\* then what differs from HEAD is listed.
Stage ==
    LET staged == [f \in Path |-> IF f \in Selected THEN work[f] ELSE tmp[f]]
    IN  /\ pc = "stage"
        /\ CASE \E f \in Selected : HeadTree[f] = Absent /\ work[f] = Absent ->
                  ExactStop("exact_stage_failed")
             [] staged = HeadTree -> ExactStop("no_selected_changes")
             [] OTHER -> /\ tmp' = staged
                         /\ \/ Goto("recheckHead")
                            \/ pc' = "done" /\ result' = "preview"   \* --dry-run
                         /\ UNCHANGED <<base, before, receipt>>
        /\ UNCHANGED checkout

RecheckHead ==
    /\ pc = "recheckHead"
    /\ \/ Len(log) # base /\ ExactStop("stale_base_head")
       \/ /\ Len(log) = base /\ Goto("recheckIndex")
          /\ UNCHANGED <<base, before, tmp, receipt>>
    /\ UNCHANGED checkout

\* Mutant: the contamination check comes after the commit.
CommitBeforeRecheck ==
    /\ pc = "recheckIndex"
    /\ tmp # HeadTree
    /\ log' = Append(log, [tree |-> tmp, by |-> "kog"])
    /\ UNCHANGED <<index, work, indexLock, foreign, edits>>
    /\ \/ Unrelated(index) # Unrelated(before) /\ ExactStop("staged_contamination")
       \/ /\ Unrelated(index) = Unrelated(before) /\ Goto("reset")
          /\ UNCHANGED <<base, before, tmp, receipt>>

RecheckIndex ==
    /\ pc = "recheckIndex"
    /\ \/ Unrelated(index) # Unrelated(before) /\ ExactStop("staged_contamination")
       \/ /\ Unrelated(index) = Unrelated(before) /\ Goto("commit")
          /\ UNCHANGED <<base, before, tmp, receipt>>
    /\ UNCHANGED checkout

\* Mutant: git commit takes the real index.
CommitRealIndex ==
    /\ pc = "commit"
    /\ \/ ExactStop("git_commit_failed") /\ UNCHANGED checkout
       \/ /\ tmp # HeadTree
          /\ log' = Append(log, [tree |-> index, by |-> "kog"])
          /\ UNCHANGED <<index, work, indexLock, foreign, edits>>
          /\ Goto("reset") /\ UNCHANGED <<base, before, tmp, receipt>>

(***************************************************************************)
(* git commit with the temporary index.  It may be refused (hooks, signing,*)
(* nothing to commit); killed by the timeout after the branch moved (in a  *)
(* post-commit hook) it is reported as failed as well.                     *)
(***************************************************************************)
ExactCommit ==
    /\ pc = "commit"
    /\ \/ ExactStop("git_commit_failed") /\ UNCHANGED checkout
       \/ /\ tmp # HeadTree
          /\ log' = Append(log, [tree |-> tmp, by |-> "kog"])
          /\ UNCHANGED <<index, work, indexLock, foreign, edits>>
          /\ \/ Goto("reset") /\ UNCHANGED <<base, before, tmp, receipt>>
             \/ ExactStop("git_commit_failed")

\* git reset HEAD of the selected paths; it fails when index.lock exists.
Reset ==
    /\ pc = "reset"
    /\ \/ indexLock # "free" /\ ExactStop("index_reconcile_failed") /\ UNCHANGED checkout
       \/ /\ indexLock = "free"
          /\ index' = [f \in Path |-> IF f \in Selected THEN HeadTree[f] ELSE index[f]]
          /\ Goto("readback")
          /\ UNCHANGED <<log, work, indexLock, foreign, edits, base, before, tmp, receipt>>

Readback ==
    /\ pc = "readback"
    /\ \/ Unrelated(index) # Unrelated(before) /\ ExactStop("staged_preservation_failed")
       \/ /\ Unrelated(index) = Unrelated(before) /\ Goto("receipt")
          /\ UNCHANGED <<base, before, tmp, receipt>>
    /\ UNCHANGED checkout

\* git rev-parse HEAD, which is reported as the commit.
ReadReceipt ==
    /\ pc = "receipt"
    /\ receipt' = Len(log) /\ pc' = "done" /\ result' = "committed"
    /\ UNCHANGED <<checkout, base, before, tmp>>

ExactStep ==
    \/ ReadHead \/ ReadEntries \/ ReadTree \/ Stage \/ RecheckHead \/ RecheckIndex
    \/ ExactCommit \/ Reset \/ Readback \/ ReadReceipt

ExactNext == ExactStep \/ (Others /\ UNCHANGED kog)
ExactSpec == ExactInit /\ [][ExactNext]_exactVars

-----------------------------------------------------------------------------
Early == {"entries", "readtree", "stage", "recheckHead"}
Late == {"recheckIndex", "commit"}
PastCommit == {"reset", "readback", "receipt"}

\* ExactTypeOK: the two indexes stay whole trees, the commits named exist.
ExactTypeOK ==
    /\ CheckoutTypeOK
    /\ before \in Tree /\ tmp \in Tree
    /\ base \in 0..Len(log) /\ receipt \in 0..Len(log)
    /\ pc \in {"begin", "done"} \cup Early \cup Late \cup PastCommit

\* ScopeRespected: a commit kog makes changes selected paths only ("KOG does
\* not ... stage paths outside the declared scope").
InScope(n) == \A f \in Path \ Selected : log[n].tree[f] = log[n - 1].tree[f]
\* ScopeOnBase: the same, for a commit whose parent is the HEAD kog started
\* from, whatever others stage, edit and commit in the meantime.
ScopeOnBase == \A n \in KogCommits : n = base + 1 => InScope(n)

\* HonestReport: a blocker of the preparation means that there is no commit;
\* the reports of what failed afterwards mean that there is one.
HonestReport ==
    /\ result \in {"git_index_lock", "exact_stage_failed", "no_selected_changes",
                   "preview", "stale_base_head", "staged_contamination"}
           => KogCommits = {}
    /\ result \in {"committed", "index_reconcile_failed",
                   "staged_preservation_failed"} => KogCommits # {}

\* ExactInv: while the branch is where kog found it, the temporary index agrees
\* with it outside the selection; there is a commit of kog's exactly when it
\* has passed the commit step.
ExactInv ==
    /\ ExactTypeOK
    /\ KogCommits \subseteq 2..Len(log)
    /\ pc \in {"begin"} \cup Early \cup Late => KogCommits = {} /\ result = ""
    /\ pc \in PastCommit => KogCommits # {} /\ result = ""
    /\ pc \in {"stage", "recheckHead"} \cup Late /\ Len(log) = base =>
           \A f \in Path \ Selected : tmp[f] = HeadTree[f]
    /\ ScopeOnBase /\ HonestReport

\* MovedHeadStops: a branch that moves before kog looks at HEAD again gets no
\* commit from it.
MovedHeadStops ==
    [](pc \in Early /\ Len(log) # base => [](KogCommits = {}))

\* UnrelatedUntouched: no step of kog changes a file or an index entry outside
\* the selection, also when it then reports a failure.
UnrelatedUntouched ==
    [][pc' # pc => Unrelated(index') = Unrelated(index) /\ work' = work]_exactVars
=============================================================================
