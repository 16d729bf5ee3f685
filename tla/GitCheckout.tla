---------------------------- MODULE GitCheckout ----------------------------
(***************************************************************************)
(* The checkout that kog works in, and everyone else who works in it: an   *)
(* editor that saves files, and plain git commands, which take index.lock. *)
(* kog holds its own mutation lock meanwhile, which none of them looks at. *)
(*                                                                         *)
(* A file version is the set of hunks it contains; {0} is no file.  A      *)
(* commit id is its place in log.                                          *)
(***************************************************************************)
EXTENDS Integers, Sequences

CONSTANTS
    Path,
    Hunk,        \* hunks, numbers above 0
    Start,       \* the tree, index and files to start from
    MaxForeign,  \* bound: commits by others
    MaxEdit      \* bound: file saves by others

ASSUME HunkAssumption == Hunk \subseteq Nat \ {0}
ASSUME ForeignAssumption == MaxForeign \in Nat /\ MaxEdit \in Nat

VARIABLES
    log,         \* the branch: a sequence of commits
    index, work, \* the index and the working files
    indexLock,   \* who has index.lock: "free", "git" or "kog"
    foreign, edits

checkout == <<log, index, work, indexLock, foreign, edits>>

Absent == {0}
Version == (SUBSET Hunk) \cup {Absent}
Tree == [Path -> Version]
ASSUME StartAssumption == Start \subseteq [tree : Tree, index : Tree, work : Tree]
Commits == [tree : Tree, by : {"start", "kog", "git"}]
HeadTree == log[Len(log)].tree

CheckoutTypeOK ==
    /\ log \in Seq(Commits) /\ log # <<>>
    /\ index \in Tree /\ work \in Tree
    /\ indexLock \in {"free", "git", "kog"}
    /\ foreign \in 0..MaxForeign /\ edits \in 0..MaxEdit

CheckoutInit ==
    \E s \in Start :
        /\ log = <<[tree |-> s.tree, by |-> "start"]>>
        /\ index = s.index /\ work = s.work
        /\ indexLock = "free" /\ foreign = 0 /\ edits = 0

\* A file is saved or removed.
Edit(f, v) ==
    /\ edits < MaxEdit /\ v # work[f]
    /\ work' = [work EXCEPT ![f] = v]
    /\ edits' = edits + 1
    /\ UNCHANGED <<log, index, indexLock, foreign>>

\* A plain git command takes index.lock; it may end without a change.
GitBegin ==
    /\ indexLock = "free" /\ indexLock' = "git"
    /\ UNCHANGED <<log, index, work, foreign, edits>>
GitEnd ==
    /\ indexLock = "git" /\ indexLock' = "free"
    /\ UNCHANGED <<log, index, work, foreign, edits>>

\* git add f.
GitAdd(f) ==
    /\ indexLock = "git" /\ indexLock' = "free"
    /\ index' = [index EXCEPT ![f] = work[f]]
    /\ UNCHANGED <<log, work, foreign, edits>>

\* git commit: the whole index becomes the tree.
GitCommit ==
    /\ indexLock = "git" /\ indexLock' = "free"
    /\ foreign < MaxForeign /\ foreign' = foreign + 1
    /\ index # HeadTree
    /\ log' = Append(log, [tree |-> index, by |-> "git"])
    /\ UNCHANGED <<index, work, edits>>

Others ==
    \/ \E f \in Path, v \in Version : Edit(f, v)
    \/ GitBegin \/ GitEnd \/ GitCommit
    \/ \E f \in Path : GitAdd(f)
=============================================================================
