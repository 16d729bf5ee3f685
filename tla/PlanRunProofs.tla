--------------------------- MODULE PlanRunProofs ---------------------------
(***************************************************************************)
(* Proofs about PlanRun for any runs, repositories, orders, saves, faults, *)
(* kills and pushes by others.  Files are numbered like the first body     *)
(* saved in them, so a body tells of which file it can come: a run whose   *)
(* admitted body is in the plan holds the lock of the plan.                *)
(***************************************************************************)
EXTENDS PlanRun, TLAPS

\* Where a run may be.
Places == {"start", "lock", "admit", "gates", "open", "write", "verify", "refused", "cleared",
           "commit", "sync", "post", "push", "stamped", "finalize", "unlock", "destroy",
           "exit", "dead"}
\* The bytes of a plan, and what a rewrite is about.
Text == [body : Nat, stamp : Process \cup {None, Old}]
Job == [for : {"", "clear", "finalize", "stamp", "return"}, old : Text, new : Text]

\* Every variable has its type.
TypeOK ==
    /\ path \in Files /\ text \in [Files -> Text]
    /\ owner \in [Files -> Process \cup {None}] /\ flock \in [Files -> Process \cup {None}]
    /\ order \in Orders /\ draft \in Text /\ saves \in Nat
    /\ pc \in [Process -> Places] /\ next \in [Process -> Nat] /\ code \in [Process -> 0..3]
    /\ admitted \in [Process -> Text] /\ source \in [Process -> Text]
    /\ job \in [Process -> Job] /\ hold \in [Process -> Files]

\* A run that rewrites the plan, one that has written its stamp, and one to which
\* the plan is entrusted.
Rewriting(p) == pc[p] \in {"open", "write", "verify"}
Stamping(p) == pc[p] = "stamped" \/ (pc[p] = "finalize" /\ code[p] = 0)
InCharge(p) == pc[p] \in {"gates", "cleared"} \/ Working(p) \/ Rewriting(p) \/ Stamping(p)

\* A stamp is of a run that has pushed everything.
Earned(t) == t.stamp \in Process => next[t.stamp] > Len(order)

\* The plan, the draft and the locks. Bodies are numbered by the saves, no body is
\* older than its file, locks are taken of the files the path has been for, a run
\* has one lock, and two runs in charge have two different plans.
World ==
    /\ \A f \in Files : Earned(text[f]) /\ text[f].body <= saves + 1
    /\ Earned(draft) /\ draft.body <= saves + 1
    /\ path <= saves + 1
    /\ text[path] = Torn \/ text[path].body >= path
    /\ \A f \in Files : owner[f] # None => f <= path
    /\ \A f, g \in Files : owner[f] = owner[g] /\ owner[f] # None => f = g
    /\ \A f, g \in Files :
        owner[f] # None /\ owner[g] # None /\ f < g /\ InCharge(owner[f]) /\ InCharge(owner[g])
            => admitted[owner[f]].body < g

\* The stamps that a run knows or is about to write are earned; it has pushed
\* everything only when its own stamp is all that is left to do.
StampsOf(p) ==
    /\ Earned(admitted[p]) /\ Earned(source[p])
    /\ Rewriting(p) \/ Stamping(p) => Earned(job[p].old) /\ Earned(job[p].new)
    /\ next[p] <= Len(order) + 1
    /\ next[p] > Len(order) =>
        /\ pc[p] \notin {"start", "lock", "admit", "gates", "cleared"} /\ ~Working(p)
        /\ Rewriting(p) => job[p].for \in {"stamp", "return"}

\* From its admission to its end a run holds a lock, and it writes into the file
\* whose lock that is.
LockOf(p) ==
    /\ pc[p] = "admit" \/ InCharge(p) => \E f \in Files : owner[f] = p
    /\ pc[p] \in {"start", "lock", "destroy", "exit", "dead"} => \A f \in Files : owner[f] # p
    /\ pc[p] \in {"write", "verify"} => owner[hold[p]] = p

\* A run in charge was admitted with a body of the file it has locked. When another
\* file has become the plan since, the new plan is a later one.
BodyOf(p) ==
    /\ admitted[p].body <= saves + 1
    /\ pc[p] \in {"lock", "admit"} => admitted[p] # Torn
    /\ \A f \in Files : owner[f] = p =>
        /\ (pc[p] = "admit" \/ InCharge(p)) /\ f < path => admitted[p].body < path
        /\ InCharge(p) => f <= admitted[p].body

\* A rewrite changes the stamp only, of the admitted plan; after the clear the run's
\* own bytes have none.
JobOf(p) ==
    /\ Rewriting(p) \/ Stamping(p) =>
        job[p].old.body = admitted[p].body /\ job[p].new.body = admitted[p].body
    /\ Working(p) \/ Stamping(p) \/ (Rewriting(p) /\ job[p].for = "stamp") =>
        source[p] = Stamped(admitted[p], None)
    /\ Rewriting(p) /\ job[p].for = "clear" =>
        job[p].old = admitted[p] /\ job[p].new.stamp = None

\* While the file a run has locked holds its plan: before the clear it is byte for byte
\* what was admitted, after it there is no stamp on it.
OwnedBy(p) ==
    \A f \in Files : owner[f] = p /\ text[f].body = admitted[p].body =>
        /\ pc[p] = "gates" \/ (pc[p] \in {"open", "write"} /\ job[p].for = "clear") =>
            text[f] = admitted[p]
        /\ pc[p] = "cleared" \/ Working(p) \/ (pc[p] = "verify" /\ job[p].for = "clear") =>
            text[f].stamp = None

\* All that holds of one run.
Fine(p) == StampsOf(p) /\ LockOf(p) /\ BodyOf(p) /\ JobOf(p) /\ OwnedBy(p)

\* The inductive invariant.
IInv == TypeOK /\ World /\ \A p \in Process : Fine(p)

-----------------------------------------------------------------------------
(* a step of one run *)

\* The other runs stay as they are; the plan and the execution locks do; no run
\* loses what it has pushed.
Apart(p) ==
    \A q \in Process \ {p} :
        /\ pc'[q] = pc[q] /\ next'[q] = next[q] /\ code'[q] = code[q]
        /\ admitted'[q] = admitted[q] /\ source'[q] = source[q]
        /\ job'[q] = job[q] /\ hold'[q] = hold[q]
Still ==
    /\ path' = path /\ text' = text /\ owner' = owner
    /\ order' = order /\ draft' = draft /\ saves' = saves
Earns == \A q \in Process : next[q] > Len(order) => next'[q] > Len(order)

\* A run that does not move stays fine as long as its lock and its file do.
LEMMA OthersFine ==
    ASSUME IInv, NEW q \in Process, order' = order, saves' = saves, path' = path,
           pc'[q] = pc[q], next'[q] = next[q], code'[q] = code[q],
           admitted'[q] = admitted[q], source'[q] = source[q],
           job'[q] = job[q], hold'[q] = hold[q], hold[q] \in Files,
           \A f \in Files : (owner'[f] = q) <=> (owner[f] = q),
           \A f \in Files : owner[f] = q => text'[f] = text[f],
           Earns
    PROVE  Fine(q)'
<1> USE DEF InCharge, Rewriting, Stamping, Working
<1>0. Fine(q) BY DEF IInv
<1>1. StampsOf(q)'
  BY <1>0 DEF Fine, StampsOf, Earned, Earns
<1>2. LockOf(q)'
  BY <1>0 DEF Fine, LockOf, Files
<1>3. BodyOf(q)'
  BY <1>0 DEF Fine, BodyOf, Files, Torn
<1>4. JobOf(q)'
  BY <1>0 DEF Fine, JobOf, Stamped
<1>5. OwnedBy(q)'
  BY <1>0 DEF Fine, OwnedBy, Files
<1> QED BY <1>1, <1>2, <1>3, <1>4, <1>5 DEF Fine

\* A step that leaves the plan and the locks alone and puts nobody in charge keeps World.
LEMMA QuietWorld ==
    ASSUME IInv, NEW p \in Process, Still, Apart(p), Earns,
           InCharge(p)' => InCharge(p) /\ admitted'[p] = admitted[p]
    PROVE  World'
<1>1. \A q \in Process : InCharge(q)' => InCharge(q) /\ admitted'[q] = admitted[q]
  BY DEF Apart, InCharge, Rewriting, Stamping, Working
<1>2. World /\ TypeOK BY DEF IInv
<1>3. \A t \in Text : Earned(t) => Earned(t)'
  BY DEF Earned, Earns, Still
<1>4. (\A f \in Files : Earned(text[f]) /\ text[f].body <= saves + 1)' /\ (Earned(draft) /\ draft.body <= saves + 1)'
  BY <1>2 DEF World, Still, Earned, Earns, TypeOK, Text
<1>5. (path <= saves + 1)' /\ (text[path] = Torn \/ text[path].body >= path)'
      /\ (\A f \in Files : owner[f] # None => f <= path)'
      /\ (\A f, g \in Files : owner[f] = owner[g] /\ owner[f] # None => f = g)'
  BY <1>2 DEF World, Still, Torn, Files
<1>6. (\A f, g \in Files :
        owner[f] # None /\ owner[g] # None /\ f < g /\ InCharge(owner[f]) /\ InCharge(owner[g])
            => admitted[owner[f]].body < g)'
  <2> SUFFICES ASSUME NEW f \in Files, NEW g \in Files, owner[f] # None, owner[g] # None, f < g,
                      InCharge(owner[f])', InCharge(owner[g])'
               PROVE  admitted'[owner[f]].body < g
    BY DEF Still, InCharge, Rewriting, Stamping, Working, Files
  <2>1. owner[f] \in Process /\ owner[g] \in Process
    BY <1>2 DEF TypeOK
  <2> QED BY <1>1, <1>2, <2>1 DEF World, Still
<1> QED BY <1>4, <1>5, <1>6 DEF World

\* Such a step keeps the invariant when the run itself stays fine.
LEMMA QuietKeeps ==
    ASSUME IInv, TypeOK', NEW p \in Process, Still, Apart(p), Earns,
           InCharge(p)' => InCharge(p) /\ admitted'[p] = admitted[p], Fine(p)'
    PROVE  IInv'
<1>1. World'
  BY QuietWorld
<1>2. ASSUME NEW q \in Process \ {p} PROVE Fine(q)'
  <2>1. hold[q] \in Files BY DEF IInv, TypeOK
  <2> QED BY <2>1, OthersFine DEF Still, Apart
<1> QED BY <1>1, <1>2 DEF IInv

\* The run is over, or about to be: nothing is asked of it any more.
Over(p) == pc'[p] \in {"refused", "unlock"} \/ (pc'[p] = "finalize" /\ code'[p] # 0)

LEMMA OverFine ==
    ASSUME IInv, NEW p \in Process, order' = order, saves' = saves, Over(p), Earns, next'[p] <= Len(order) + 1,
           admitted'[p] = admitted[p], source'[p] = source[p]
    PROVE  Fine(p)' /\ ~InCharge(p)'
<1> USE DEF InCharge, Rewriting, Stamping, Working, Over
<1>0. Fine(p) BY DEF IInv
<1>1. StampsOf(p)' /\ ~InCharge(p)'
  BY <1>0 DEF Fine, StampsOf, Earned, Earns
<1>2. LockOf(p)'
  BY <1>0 DEF Fine, LockOf, Files
<1>3. BodyOf(p)'
  BY <1>0 DEF Fine, BodyOf, Files, Torn
<1>4. JobOf(p)'
  BY <1>0 DEF Fine, JobOf, Stamped
<1>5. OwnedBy(p)'
  BY <1>0 DEF Fine, OwnedBy, Files
<1> QED BY <1>1, <1>2, <1>3, <1>4, <1>5 DEF Fine

\* A run moves on: to the place l, with the exit code c, the next repository n,
\* the source s and the job j.
Sets(f, g, p, v) == g = [f EXCEPT ![p] = v] \/ (g = f /\ v = f[p])
Moves(p, l, c, n, s, j) ==
    /\ Still /\ flock' = flock /\ admitted' = admitted /\ hold' = hold
    /\ pc' = [pc EXCEPT ![p] = l]
    /\ Sets(code, code', p, c) /\ Sets(next, next', p, n)
    /\ Sets(source, source', p, s) /\ Sets(job, job', p, j)

\* What a move changes and what it does not.
LEMMA MovesOn ==
    ASSUME TypeOK, NEW p \in Process, NEW l \in Places, NEW c \in 0..3, NEW n \in Nat,
           NEW s \in Text, NEW j \in Job, Moves(p, l, c, n, s, j),
           next[p] > Len(order) => n > Len(order)
    PROVE  /\ TypeOK' /\ Still /\ Apart(p) /\ Earns
           /\ pc'[p] = l /\ code'[p] = c /\ source'[p] = s /\ job'[p] = j
           /\ admitted'[p] = admitted[p] /\ hold'[p] = hold[p] /\ next'[p] = n
<1> USE DEF Moves, TypeOK
<1>1. pc' \in [Process -> Places] /\ pc'[p] = l /\ \A q \in Process \ {p} : pc'[q] = pc[q]
  OBVIOUS
<1>2. code' \in [Process -> 0..3] /\ code'[p] = c /\ \A q \in Process \ {p} : code'[q] = code[q]
  BY DEF Sets
<1>3. source' \in [Process -> Text] /\ source'[p] = s /\ \A q \in Process \ {p} : source'[q] = source[q]
  BY DEF Sets
<1>4. job' \in [Process -> Job] /\ job'[p] = j /\ \A q \in Process \ {p} : job'[q] = job[q]
  BY DEF Sets
<1>5. next' \in [Process -> Nat] /\ next'[p] = n /\ \A q \in Process \ {p} : next'[q] = next[q]
  BY DEF Sets
<1>6. path' \in Files /\ text' \in [Files -> Text] /\ owner' \in [Files -> Process \cup {None}]
       /\ order' \in Orders /\ draft' \in Text /\ saves' \in Nat
  BY DEF Still
<1> QED BY <1>1, <1>2, <1>3, <1>4, <1>5, <1>6 DEF Still, Apart, Earns

\* A move to the end keeps the invariant.
LEMMA OverKeeps ==
    ASSUME IInv, NEW p \in Process, NEW l \in {"refused", "unlock", "finalize"}, NEW c \in 0..3,
           Moves(p, l, c, next[p], source[p], job[p]), l = "finalize" => c # 0
    PROVE  IInv'
<1>0. TypeOK /\ Fine(p) /\ next[p] \in Nat /\ source[p] \in Text /\ job[p] \in Job BY DEF IInv, TypeOK
<1>1. /\ TypeOK' /\ Still /\ Apart(p) /\ Earns /\ pc'[p] = l /\ code'[p] = c
      /\ source'[p] = source[p] /\ admitted'[p] = admitted[p] /\ next'[p] = next[p]
  BY <1>0, MovesOn DEF Places
<1>2. Over(p) /\ next'[p] <= Len(order) + 1
  BY <1>0, <1>1 DEF Over, Fine, StampsOf
<1> QED BY <1>1, <1>2, OverFine, QuietKeeps DEF Still

\* The lock does not come free in time.
LEMMA LockTimeoutKeeps ==
    ASSUME IInv, NEW p \in Process, LockTimeout(p), UNCHANGED <<order, draft, saves>>
    PROVE  IInv'
<1>1. Moves(p, "finalize", 2, next[p], source[p], job[p])
  BY DEF LockTimeout, Terminate, Goto, Exit, plan, Moves, Still, Sets
<1> QED BY <1>1, OverKeeps

\* The gates before the work, and the choice to clear a stamp.
LEMMA GatesKeeps ==
    ASSUME IInv, NEW p \in Process, Gates(p), UNCHANGED <<order, draft, saves>>
    PROVE  IInv'
<1> USE DEF Gates
<1>0. TypeOK /\ Fine(p) /\ pc[p] = "gates" /\ code[p] \in 0..3 /\ next[p] \in Nat /\ source[p] \in Text /\ job[p] \in Job
  BY DEF IInv, TypeOK
<1>1. Still /\ next' = next /\ admitted' = admitted /\ source' = source /\ hold' = hold /\ flock' = flock
  BY DEF plan, Still
<1>2. CASE \E l \in {"finalize", "unlock"}, c \in {2, 3} :
             pc' = [pc EXCEPT ![p] = l] /\ job' = job /\ code' = [code EXCEPT ![p] = c]
  <2>1. PICK l \in {"finalize", "unlock"}, c \in {2, 3} :
             pc' = [pc EXCEPT ![p] = l] /\ job' = job /\ code' = [code EXCEPT ![p] = c]
    BY <1>2
  <2>2. Moves(p, l, c, next[p], source[p], job[p])
    BY <1>1, <2>1 DEF Moves, Sets
  <2> QED BY <1>1, <2>2, OverKeeps
<1>3. CASE HasStamp(p) /\ Go(p, "open") /\ Rewrite(p, "clear", admitted[p], Stamped(admitted[p], None))
  <2> DEFINE new == Stamped(admitted[p], None)
             j == [for |-> "clear", old |-> admitted[p], new |-> new]
  <2>1. new \in Text /\ new.stamp = None /\ new.body = admitted[p].body
    BY <1>0 DEF Stamped, TypeOK, Text
  <2>2. j \in Job BY <2>1, <1>0 DEF Job, TypeOK
  <2>3. Moves(p, "open", code[p], next[p], source[p], j)
    BY <1>1, <1>3 DEF Rewrite, Moves, Sets, Go, Goto
  <2>4. TypeOK' /\ Apart(p) /\ Earns /\ pc'[p] = "open" /\ job'[p] = j
    BY <1>0, <1>1, <2>2, <2>3, MovesOn DEF Places
  <2>6. Fine(p)' /\ InCharge(p)
    BY <1>0, <1>1, <2>1, <2>4, StampAssumption DEF Fine, StampsOf, Earned, LockOf, BodyOf, JobOf, OwnedBy, InCharge, Rewriting, Stamping, Working, Still
  <2> QED BY <1>1, <2>4, <2>6, QuietKeeps
<1>4. CASE ~HasStamp(p) /\ Go(p, "cleared") /\ job' = job
  <2>3. Moves(p, "cleared", code[p], next[p], source[p], job[p])
    BY <1>1, <1>4 DEF Moves, Sets, Go, Goto
  <2>4. TypeOK' /\ Apart(p) /\ Earns /\ pc'[p] = "cleared"
    BY <1>0, <1>1, <2>3, MovesOn DEF Places
  <2>6. Fine(p)' /\ InCharge(p)
    BY <1>0, <1>1, <1>4, <2>4 DEF Fine, HasStamp, StampsOf, Earned, LockOf, BodyOf, JobOf, OwnedBy, InCharge, Rewriting, Stamping, Working, Still
  <2> QED BY <1>1, <2>4, <2>6, QuietKeeps
<1> QED BY <1>2, <1>3, <1>4 DEF Terminate, Return, Exit, Goto

\* A rewrite was refused.
LEMMA RefuseKeeps ==
    ASSUME IInv, NEW p \in Process, Refuse(p), UNCHANGED <<order, draft, saves>>
    PROVE  IInv'
<1>1. PICK l \in {"finalize", "unlock"} : pc' = [pc EXCEPT ![p] = l] /\ code' = [code EXCEPT ![p] = 2]
  BY DEF Refuse, Terminate, Return, Goto, Exit
<1>2. Moves(p, l, 2, next[p], source[p], job[p])
  BY <1>1 DEF Refuse, plan, Moves, Still, Sets
<1> QED BY <1>2, OverKeeps

\* The run goes on, and what is asked of it there holds.
LEMMA GoesOn ==
    ASSUME IInv, NEW p \in Process, TypeOK', Still, Apart(p), Earns, admitted'[p] = admitted[p],
           InCharge(p),
           StampsOf(p)', LockOf(p)', BodyOf(p)', JobOf(p)', OwnedBy(p)'
    PROVE  IInv'
BY QuietKeeps DEF Fine

\* A plan names a repository.
LEMMA OrderLength ==
    ASSUME TypeOK PROVE Len(order) \in Nat \ {0}
BY OrderAssumption DEF TypeOK

\* A stage fails.
LEMMA StagedOver ==
    ASSUME IInv, NEW p \in Process, NEW n \in Nat, n <= Len(order) + 1, next[p] <= Len(order),
           NEW l \in {"finalize", "unlock"}, NEW c \in {1, 2}, NEW j \in Job,
           Moves(p, l, c, n, source[p], j)
    PROVE  IInv'
<1>0. TypeOK /\ Fine(p) /\ next[p] \in Nat /\ source[p] \in Text BY DEF IInv, TypeOK
<1>a. l \in Places /\ c \in 0..3 /\ ~(next[p] > Len(order))
  BY <1>0, OrderLength DEF Places
<1>1. /\ TypeOK' /\ Still /\ Apart(p) /\ Earns /\ pc'[p] = l /\ code'[p] = c
      /\ source'[p] = source[p] /\ admitted'[p] = admitted[p] /\ next'[p] = n
  BY <1>0, <1>a, MovesOn
<1>2. Over(p) /\ next'[p] <= Len(order) + 1
  BY <1>0, <1>1 DEF Over, Still
<1> QED BY <1>1, <1>2, OverFine, QuietKeeps DEF Still

\* From a stage to a stage.
LEMMA StageKeeps ==
    ASSUME IInv, NEW p \in Process, Working(p), NEW l \in {"commit", "sync", "post", "push"},
           NEW n \in Nat, n <= Len(order), NEW j \in Job, Moves(p, l, code[p], n, source[p], j)
    PROVE  IInv'
<1>0. TypeOK /\ Fine(p) /\ next[p] \in Nat /\ code[p] \in 0..3 /\ source[p] \in Text
  BY DEF IInv, TypeOK
<1>1. next[p] <= Len(order)
  BY <1>0, OrderLength DEF Fine, StampsOf
<1>a. l \in Places /\ ~(next[p] > Len(order))
  BY <1>0, <1>1, OrderLength DEF Places
<1>2. /\ TypeOK' /\ Still /\ Apart(p) /\ Earns /\ pc'[p] = l /\ code'[p] = code[p]
      /\ source'[p] = source[p] /\ admitted'[p] = admitted[p] /\ next'[p] = n
  BY <1>0, <1>a, MovesOn
<1> USE DEF Working, Rewriting, Stamping, InCharge
<1>3. StampsOf(p)'
  BY <1>0, <1>1, <1>2, OrderLength DEF Fine, StampsOf, Earned, Earns, Still
<1>4. LockOf(p)' /\ BodyOf(p)' /\ JobOf(p)' /\ OwnedBy(p)'
  BY <1>0, <1>2 DEF Fine, LockOf, BodyOf, JobOf, OwnedBy, Still, Stamped
<1> QED BY <1>2, <1>3, <1>4, GoesOn

\* What the end of a stage does to the run.
LEMMA StagedMoves ==
    ASSUME NEW p \in Process, NEW ok \in BOOLEAN, NEW to, Staged(p, ok, to)
    PROVE  \/ ok /\ pc' = [pc EXCEPT ![p] = to] /\ code' = code
           \/ \E l \in {"finalize", "unlock"}, c \in {1, 2} :
                  pc' = [pc EXCEPT ![p] = l] /\ code' = [code EXCEPT ![p] = c]
BY DEF Staged, Go, Goto, Terminate, Return, Exit

\* The commit stage.
LEMMA CommitKeeps ==
    ASSUME IInv, NEW p \in Process, Commit(p), UNCHANGED <<order, draft, saves>>
    PROVE  IInv'
<1>0. TypeOK /\ Fine(p) /\ Working(p) /\ next[p] \in Nat /\ job[p] \in Job
  BY DEF IInv, TypeOK, Commit, Working
<1>1. next[p] <= Len(order)
  BY <1>0, OrderLength DEF Fine, StampsOf
<1>2. Still /\ flock' = flock /\ admitted' = admitted /\ hold' = hold /\ next' = next
       /\ source' = source /\ job' = job
  BY DEF Commit, plan, Still
<1>3. CASE pc' = [pc EXCEPT ![p] = "sync"] /\ code' = code
  <2>1. Moves(p, "sync", code[p], next[p], source[p], job[p])
    BY <1>2, <1>3 DEF Moves, Sets
  <2> QED BY <1>0, <1>1, <2>1, StageKeeps
<1>4. CASE \E l \in {"finalize", "unlock"}, c \in {1, 2} :
             pc' = [pc EXCEPT ![p] = l] /\ code' = [code EXCEPT ![p] = c]
  <2>1. PICK l \in {"finalize", "unlock"}, c \in {1, 2} :
             pc' = [pc EXCEPT ![p] = l] /\ code' = [code EXCEPT ![p] = c]
    BY <1>4
  <2>2. Moves(p, l, c, next[p], source[p], job[p])
    BY <1>2, <2>1 DEF Moves, Sets
  <2> QED BY <1>0, <1>1, <2>2, OrderLength, StagedOver
<1> QED BY <1>3, <1>4, StagedMoves DEF Commit

\* The commits after the sync.
LEMMA PostSyncKeeps ==
    ASSUME IInv, NEW p \in Process, PostSync(p), UNCHANGED <<order, draft, saves>>
    PROVE  IInv'
<1>0. TypeOK /\ Fine(p) /\ Working(p) /\ next[p] \in Nat /\ job[p] \in Job
  BY DEF IInv, TypeOK, PostSync, Working
<1>1. next[p] <= Len(order)
  BY <1>0, OrderLength DEF Fine, StampsOf
<1>2. Still /\ flock' = flock /\ admitted' = admitted /\ hold' = hold /\ next' = next
       /\ source' = source /\ job' = job
  BY DEF PostSync, plan, Still
<1>3. CASE pc' = [pc EXCEPT ![p] = "push"] /\ code' = code
  <2>1. Moves(p, "push", code[p], next[p], source[p], job[p])
    BY <1>2, <1>3 DEF Moves, Sets
  <2> QED BY <1>0, <1>1, <2>1, StageKeeps
<1>4. CASE \E l \in {"finalize", "unlock"}, c \in {1, 2} :
             pc' = [pc EXCEPT ![p] = l] /\ code' = [code EXCEPT ![p] = c]
  <2>1. PICK l \in {"finalize", "unlock"}, c \in {1, 2} :
             pc' = [pc EXCEPT ![p] = l] /\ code' = [code EXCEPT ![p] = c]
    BY <1>4
  <2>2. Moves(p, l, c, next[p], source[p], job[p])
    BY <1>2, <2>1 DEF Moves, Sets
  <2> QED BY <1>0, <1>1, <2>2, OrderLength, StagedOver
<1> QED BY <1>3, <1>4, StagedMoves DEF PostSync, Go, Goto

\* The sync of one repository.
LEMMA SyncKeeps ==
    ASSUME IInv, NEW p \in Process, Sync(p), UNCHANGED <<order, draft, saves>>
    PROVE  IInv'
<1>0. TypeOK /\ Fine(p) /\ Working(p) /\ next[p] \in Nat /\ job[p] \in Job
  BY DEF IInv, TypeOK, Sync, Working
<1>1. next[p] <= Len(order)
  BY <1>0, OrderLength DEF Fine, StampsOf
<1>2. Still /\ flock' = flock /\ admitted' = admitted /\ hold' = hold
       /\ source' = source /\ job' = job
  BY DEF Sync, plan, Still
<1>a. \/ next[p] = Len(order) /\ next' = [next EXCEPT ![p] = 1]
      \/ next[p] # Len(order) /\ next' = [next EXCEPT ![p] = next[p] + 1]
  BY DEF Sync, OneDone
<1>3. PICK n \in {1, next[p] + 1} : n <= Len(order) /\ next' = [next EXCEPT ![p] = n]
  BY <1>0, <1>1, <1>a, OrderLength
<1>4. CASE \E l \in {"sync", "post"} : pc' = [pc EXCEPT ![p] = l] /\ code' = code
  <2>1. PICK l \in {"sync", "post"} : pc' = [pc EXCEPT ![p] = l]
    BY <1>4
  <2>2. Moves(p, l, code[p], n, source[p], job[p])
    BY <1>2, <1>3, <1>4, <2>1 DEF Moves, Sets
  <2> QED BY <1>0, <1>3, <2>2, StageKeeps
<1>5. CASE \E l \in {"finalize", "unlock"}, c \in {1, 2} :
             pc' = [pc EXCEPT ![p] = l] /\ code' = [code EXCEPT ![p] = c]
  <2>1. PICK l \in {"finalize", "unlock"}, c \in {1, 2} :
             pc' = [pc EXCEPT ![p] = l] /\ code' = [code EXCEPT ![p] = c]
    BY <1>5
  <2>2. Moves(p, l, c, n, source[p], job[p])
    BY <1>2, <1>3, <2>1 DEF Moves, Sets
  <2> QED BY <1>0, <1>1, <1>3, <2>2, OrderLength, StagedOver
<1> QED BY <1>4, <1>5, StagedMoves DEF Sync, OneDone

\* After the last push the run has earned its stamp.
LEMMA PushKeeps ==
    ASSUME IInv, NEW p \in Process, Push(p), UNCHANGED <<order, draft, saves>>
    PROVE  IInv'
<1> DEFINE new == Stamped(source[p], p)
           j == [for |-> "stamp", old |-> source[p], new |-> new]
<1>0. TypeOK /\ Fine(p) /\ Working(p) /\ next[p] \in Nat /\ source[p] \in Text /\ code[p] \in 0..3
  BY DEF IInv, TypeOK, Push, Working
<1>1. next[p] <= Len(order)
  BY <1>0, OrderLength DEF Fine, StampsOf
<1>2. Still /\ flock' = flock /\ admitted' = admitted /\ hold' = hold
       /\ source' = source /\ job' = [job EXCEPT ![p] = j]
  BY DEF Push, plan, Still, Rewrite
<1>3. new \in Text /\ new.stamp = p /\ new.body = source[p].body
  BY <1>0 DEF Stamped, Text
<1>4. j \in Job
  BY <1>0, <1>3 DEF Job
<1> HIDE DEF j, new
<1>5. PICK n \in {1, next[p] + 1} : next' = [next EXCEPT ![p] = n]
  BY DEF Push, OneDone
<1>6. n \in Nat /\ n <= Len(order) + 1
  BY <1>0, <1>1, <1>5, OrderLength
<1>7. CASE \E l \in {"finalize", "unlock"}, c \in {1, 2} :
             pc' = [pc EXCEPT ![p] = l] /\ code' = [code EXCEPT ![p] = c]
  <2>1. PICK l \in {"finalize", "unlock"}, c \in {1, 2} :
             pc' = [pc EXCEPT ![p] = l] /\ code' = [code EXCEPT ![p] = c]
    BY <1>7
  <2>2. Moves(p, l, c, n, source[p], j)
    BY <1>2, <1>5, <2>1 DEF Moves, Sets
  <2> QED BY <1>1, <1>4, <1>6, <2>2, StagedOver
<1>8. CASE pc' = [pc EXCEPT ![p] = "push"] /\ code' = code /\ next[p] # Len(order)
           /\ next' = [next EXCEPT ![p] = next[p] + 1]
  <2>1. Moves(p, "push", code[p], next[p] + 1, source[p], j)
    BY <1>2, <1>8 DEF Moves, Sets
  <2>2. next[p] + 1 <= Len(order) /\ next[p] + 1 \in Nat
    BY <1>0, <1>1, <1>8, OrderLength
  <2> QED BY <1>0, <1>4, <2>1, <2>2, StageKeeps
<1>9. CASE pc' = [pc EXCEPT ![p] = "open"] /\ code' = code /\ next[p] = Len(order)
           /\ next' = [next EXCEPT ![p] = next[p] + 1]
  <2>1. Moves(p, "open", code[p], next[p] + 1, source[p], j)
    BY <1>2, <1>9 DEF Moves, Sets
  <2>2. /\ TypeOK' /\ Still /\ Apart(p) /\ Earns /\ pc'[p] = "open" /\ code'[p] = code[p]
        /\ source'[p] = source[p] /\ admitted'[p] = admitted[p] /\ next'[p] = next[p] + 1
        /\ job'[p] = j
    BY <1>0, <1>4, <1>9, <2>1, OrderLength, MovesOn DEF Places
  <2>3. source[p].body = admitted[p].body
    BY <1>0 DEF Fine, JobOf, Stamped, TypeOK, Text
  <2>4. job'[p].for = "stamp" /\ job'[p].old = source[p] /\ job'[p].new = new
    BY <2>2 DEF j
  <2> USE DEF Working, Rewriting, Stamping, InCharge
  <2>5. StampsOf(p)'
    BY <1>0, <1>3, <1>9, <2>2, <2>4, OrderLength DEF Fine, StampsOf, Earned, Earns, Still
  <2>6. LockOf(p)' /\ BodyOf(p)' /\ JobOf(p)' /\ OwnedBy(p)'
    BY <1>0, <1>3, <2>2, <2>3, <2>4 DEF Fine, LockOf, BodyOf, JobOf, OwnedBy, Still
  <2> QED BY <1>0, <2>2, <2>5, <2>6, GoesOn
<1> QED
  <2>1. PICK ok \in BOOLEAN, last \in BOOLEAN :
          /\ last = (next[p] = Len(order))
          /\ \/ ok /\ Staged(p, ok, IF last THEN "open" ELSE "push")
                 /\ next' = [next EXCEPT ![p] = next[p] + 1]
             \/ ~ok /\ Staged(p, ok, "")
    BY DEF Push, OneDone
  <2> QED BY <1>7, <1>8, <1>9, <2>1, StagedMoves

\* The stamp is cleared and the work begins, or the clear is undone, or the run ends.
LEMMA ClearedKeeps ==
    ASSUME IInv, NEW p \in Process, Cleared(p), UNCHANGED <<order, draft, saves>>
    PROVE  IInv'
<1> DEFINE new == Stamped(admitted[p], None)
           j == [for |-> "finalize", old |-> new, new |-> admitted[p]]
<1>0. /\ TypeOK /\ Fine(p) /\ pc[p] = "cleared" /\ InCharge(p) /\ next[p] \in Nat /\ job[p] \in Job
      /\ source[p] \in Text /\ admitted[p] \in Text /\ code[p] \in 0..3
  BY DEF IInv, TypeOK, Cleared, InCharge
<1>1. new \in Text /\ new.stamp = None /\ new.body = admitted[p].body
  BY <1>0 DEF Stamped, Text
<1>2. j \in Job /\ j.for = "finalize" /\ j.old = new /\ j.new = admitted[p]
  BY <1>0, <1>1 DEF Job
<1> HIDE DEF new, j
<1>3. Still /\ flock' = flock /\ admitted' = admitted /\ hold' = hold /\ next' = next
  BY DEF Cleared, plan, Still
<1>4. CASE /\ source' = [source EXCEPT ![p] = new] /\ job' = job /\ code' = code
           /\ \E l \in {"commit", "push"} : pc' = [pc EXCEPT ![p] = l]
  <2>1. PICK l \in {"commit", "push"} : pc' = [pc EXCEPT ![p] = l]
    BY <1>4
  <2>2. Moves(p, l, code[p], next[p], new, job[p])
    BY <1>3, <1>4, <2>1 DEF Moves, Sets
  <2>3. /\ TypeOK' /\ Still /\ Apart(p) /\ Earns /\ pc'[p] = l /\ code'[p] = code[p]
        /\ source'[p] = new /\ admitted'[p] = admitted[p] /\ next'[p] = next[p]
    BY <1>0, <1>1, <2>2, MovesOn DEF Places
  <2> USE DEF Working, Rewriting, Stamping, InCharge
  <2>4. StampsOf(p)'
    BY <1>0, <1>1, <2>3, StampAssumption DEF Fine, StampsOf, Earned, Earns, Still
  <2>5. LockOf(p)' /\ BodyOf(p)' /\ OwnedBy(p)'
    BY <1>0, <2>3 DEF Fine, LockOf, BodyOf, OwnedBy, Still
  <2>6. JobOf(p)'
    BY <2>3 DEF JobOf, new, Stamped
  <2> QED BY <1>0, <2>3, <2>4, <2>5, <2>6, GoesOn
<1>5. CASE /\ source' = source /\ job' = [job EXCEPT ![p] = j] /\ code' = code
           /\ pc' = [pc EXCEPT ![p] = "open"]
  <2>2. Moves(p, "open", code[p], next[p], source[p], j)
    BY <1>3, <1>5 DEF Moves, Sets
  <2>3. /\ TypeOK' /\ Still /\ Apart(p) /\ Earns /\ pc'[p] = "open" /\ code'[p] = code[p]
        /\ source'[p] = source[p] /\ admitted'[p] = admitted[p] /\ next'[p] = next[p]
        /\ job'[p] = j
    BY <1>0, <1>2, <2>2, MovesOn DEF Places
  <2> USE DEF Working, Rewriting, Stamping, InCharge
  <2>4. StampsOf(p)'
    BY <1>0, <1>1, <1>2, <2>3, StampAssumption DEF Fine, StampsOf, Earned, Earns, Still
  <2>5. LockOf(p)' /\ BodyOf(p)' /\ OwnedBy(p)'
    BY <1>0, <1>2, <2>3 DEF Fine, LockOf, BodyOf, OwnedBy, Still
  <2>6. JobOf(p)'
    BY <1>1, <1>2, <2>3 DEF JobOf
  <2> QED BY <1>0, <2>3, <2>4, <2>5, <2>6, GoesOn
<1>6. CASE /\ source' = source /\ job' = job
           /\ pc' = [pc EXCEPT ![p] = "finalize"] /\ code' = [code EXCEPT ![p] = 2]
  <2>1. Moves(p, "finalize", 2, next[p], source[p], job[p])
    BY <1>3, <1>6 DEF Moves, Sets
  <2> QED BY <2>1, OverKeeps
<1> QED BY <1>4, <1>5, <1>6 DEF Cleared, Go, Goto, Exit, Terminate, Rewrite, new, j

\* The stamp is taken back, or the run goes to its end with the exit code 0.
LEMMA StampWrittenKeeps ==
    ASSUME IInv, NEW p \in Process, StampWritten(p), UNCHANGED <<order, draft, saves>>
    PROVE  IInv'
<1> DEFINE j == [for |-> "return", old |-> job[p].new, new |-> source[p]]
<1>0. /\ TypeOK /\ Fine(p) /\ pc[p] = "stamped" /\ InCharge(p) /\ next[p] \in Nat /\ job[p] \in Job
      /\ source[p] \in Text /\ admitted[p] \in Text /\ code[p] \in 0..3
  BY DEF IInv, TypeOK, StampWritten, InCharge, Stamping
<1>2. j \in Job /\ j.for = "return" /\ j.old = job[p].new /\ j.new = source[p]
  BY <1>0 DEF Job
<1> HIDE DEF j
<1>3. Still /\ flock' = flock /\ admitted' = admitted /\ hold' = hold /\ next' = next
       /\ source' = source
  BY DEF StampWritten, plan, Still
<1>4. CASE job' = job /\ pc' = [pc EXCEPT ![p] = "finalize"] /\ code' = [code EXCEPT ![p] = 0]
  <2>2. Moves(p, "finalize", 0, next[p], source[p], job[p])
    BY <1>3, <1>4 DEF Moves, Sets
  <2>3. /\ TypeOK' /\ Still /\ Apart(p) /\ Earns /\ pc'[p] = "finalize" /\ code'[p] = 0
        /\ source'[p] = source[p] /\ admitted'[p] = admitted[p] /\ next'[p] = next[p]
        /\ job'[p] = job[p]
    BY <1>0, <2>2, MovesOn DEF Places
  <2> USE DEF Working, Rewriting, Stamping, InCharge
  <2>4. StampsOf(p)' /\ LockOf(p)' /\ BodyOf(p)' /\ JobOf(p)' /\ OwnedBy(p)'
    BY <1>0, <2>3 DEF Fine, StampsOf, Earned, Earns, LockOf, BodyOf, JobOf, OwnedBy, Still, Stamped
  <2> QED BY <1>0, <2>3, <2>4, GoesOn
<1>5. CASE job' = [job EXCEPT ![p] = j] /\ pc' = [pc EXCEPT ![p] = "open"] /\ code' = code
  <2>2. Moves(p, "open", code[p], next[p], source[p], j)
    BY <1>3, <1>5 DEF Moves, Sets
  <2>3. /\ TypeOK' /\ Still /\ Apart(p) /\ Earns /\ pc'[p] = "open" /\ code'[p] = code[p]
        /\ source'[p] = source[p] /\ admitted'[p] = admitted[p] /\ next'[p] = next[p]
        /\ job'[p] = j
    BY <1>0, <1>2, <2>2, MovesOn DEF Places
  <2>4. source[p].body = admitted[p].body /\ job[p].new.body = admitted[p].body
    BY <1>0 DEF Fine, JobOf, Stamping, Stamped, Text
  <2> USE DEF Working, Rewriting, Stamping, InCharge
  <2>5. StampsOf(p)'
    BY <1>0, <1>2, <2>3 DEF Fine, StampsOf, Earned, Earns, Still
  <2>6. LockOf(p)' /\ BodyOf(p)' /\ JobOf(p)' /\ OwnedBy(p)'
    BY <1>0, <1>2, <2>3, <2>4 DEF Fine, LockOf, BodyOf, JobOf, OwnedBy, Still
  <2> QED BY <1>0, <2>3, <2>5, <2>6, GoesOn
<1> QED BY <1>4, <1>5 DEF StampWritten, Go, Goto, Exit, Terminate, Rewrite, j

\* The receipt is published or not; a stamp that is not accounted for is taken back.
LEMMA FinalizeKeeps ==
    ASSUME IInv, NEW p \in Process, Finalize(p), UNCHANGED <<order, draft, saves>>
    PROVE  IInv'
<1> DEFINE j == [for |-> "return", old |-> job[p].new, new |-> source[p]]
<1>0. /\ TypeOK /\ Fine(p) /\ pc[p] = "finalize" /\ next[p] \in Nat /\ job[p] \in Job
      /\ source[p] \in Text /\ admitted[p] \in Text /\ code[p] \in 0..3
  BY DEF IInv, TypeOK, Finalize
<1>2. j \in Job /\ j.for = "return" /\ j.old = job[p].new /\ j.new = source[p]
  BY <1>0 DEF Job
<1> HIDE DEF j
<1>3. Still /\ flock' = flock /\ admitted' = admitted /\ hold' = hold /\ next' = next
       /\ source' = source
  BY DEF Finalize, plan, Still
<1>4. CASE job' = job /\ pc' = [pc EXCEPT ![p] = "unlock"] /\ code' = code
  <2>1. Moves(p, "unlock", code[p], next[p], source[p], job[p])
    BY <1>3, <1>4 DEF Moves, Sets
  <2> QED BY <1>0, <2>1, OverKeeps
<1>5. CASE /\ code[p] = 0 /\ code' = [code EXCEPT ![p] = 2]
           /\ job' = [job EXCEPT ![p] = j] /\ pc' = [pc EXCEPT ![p] = "open"]
  <2>1. InCharge(p)
    BY <1>0, <1>5 DEF InCharge, Stamping
  <2>2. Moves(p, "open", 2, next[p], source[p], j)
    BY <1>3, <1>5 DEF Moves, Sets
  <2>3. /\ TypeOK' /\ Still /\ Apart(p) /\ Earns /\ pc'[p] = "open" /\ code'[p] = 2
        /\ source'[p] = source[p] /\ admitted'[p] = admitted[p] /\ next'[p] = next[p]
        /\ job'[p] = j
    BY <1>0, <1>2, <2>2, MovesOn DEF Places
  <2>4. source[p].body = admitted[p].body /\ job[p].new.body = admitted[p].body
    BY <1>0, <1>5 DEF Fine, JobOf, Stamping, Stamped, Text
  <2> USE DEF Working, Rewriting, Stamping, InCharge
  <2>5. StampsOf(p)'
    BY <1>0, <1>2, <1>5, <2>3 DEF Fine, StampsOf, Earned, Earns, Still
  <2>6. LockOf(p)' /\ BodyOf(p)' /\ JobOf(p)' /\ OwnedBy(p)'
    BY <1>0, <1>2, <1>5, <2>3, <2>4 DEF Fine, LockOf, BodyOf, JobOf, OwnedBy, Still
  <2> QED BY <2>1, <2>3, <2>5, <2>6, GoesOn
<1> QED BY <1>4, <1>5 DEF Finalize, NotFinal, Go, Goto, Exit, Rewrite, j

\* The audit context is destroyed.
LEMMA DestroyKeeps ==
    ASSUME IInv, NEW p \in Process, Destroy(p), UNCHANGED <<order, draft, saves>>
    PROVE  IInv'
<1>0. /\ TypeOK /\ Fine(p) /\ pc[p] = "destroy" /\ next[p] \in Nat /\ job[p] \in Job
      /\ source[p] \in Text /\ code[p] \in 0..3
  BY DEF IInv, TypeOK, Destroy
<1>1. Moves(p, "exit", code[p], next[p], source[p], job[p])
  BY DEF Destroy, Go, Goto, plan, Still, Moves, Sets
<1>2. /\ TypeOK' /\ Still /\ Apart(p) /\ Earns /\ pc'[p] = "exit"
      /\ source'[p] = source[p] /\ admitted'[p] = admitted[p] /\ next'[p] = next[p]
  BY <1>0, <1>1, MovesOn DEF Places
<1>3. Fine(p)' /\ ~InCharge(p)'
  BY <1>0, <1>2 DEF Fine, StampsOf, Earned, Earns, LockOf, BodyOf, JobOf, OwnedBy, Still,
                    Working, Rewriting, Stamping, InCharge
<1> QED BY <1>2, <1>3, QuietKeeps

-----------------------------------------------------------------------------
(* steps that change the plan or its locks *)

\* The bytes of the plan are read and the audit is reserved.
LEMMA ReserveKeeps ==
    ASSUME IInv, NEW p \in Process, Reserve(p), UNCHANGED <<order, draft, saves>>
    PROVE  IInv'
<1>0. /\ TypeOK /\ World /\ Fine(p) /\ pc[p] = "start" BY DEF IInv, Reserve
<1>1. /\ Still /\ flock' = flock /\ hold' = hold /\ next' = next /\ source' = source /\ job' = job
  BY DEF Reserve, plan, Still
<1>2. CASE /\ text[path] # Torn /\ admitted' = [admitted EXCEPT ![p] = text[path]]
           /\ pc' = [pc EXCEPT ![p] = "lock"] /\ code' = code
  <2>1. TypeOK' /\ Apart(p) /\ Earns /\ pc'[p] = "lock" /\ admitted'[p] = text[path]
    BY <1>0, <1>1, <1>2 DEF TypeOK, Places, Still, Apart, Earns
  <2>2. Fine(p)' /\ ~InCharge(p)'
    <3>1. Earned(text[path]) /\ text[path].body <= saves + 1
      BY <1>0 DEF World, TypeOK
    <3> QED BY <1>0, <1>1, <1>2, <2>1, <3>1 DEF Fine, StampsOf, Earned, LockOf, BodyOf, JobOf, OwnedBy, Still,
                            Torn, Working, Rewriting, Stamping, InCharge
  <2> QED BY <1>1, <2>1, <2>2, QuietKeeps
<1>3. CASE /\ admitted' = admitted
           /\ pc' = [pc EXCEPT ![p] = "exit"] /\ code' = [code EXCEPT ![p] = 2]
  <2>1. TypeOK' /\ Apart(p) /\ Earns /\ pc'[p] = "exit"
    BY <1>0, <1>1, <1>3 DEF TypeOK, Places, Still, Apart, Earns
  <2>2. Fine(p)' /\ ~InCharge(p)'
    BY <1>0, <1>1, <1>3, <2>1 DEF Fine, StampsOf, Earned, LockOf, BodyOf, JobOf, OwnedBy, Still,
                            Working, Rewriting, Stamping, InCharge
  <2> QED BY <1>1, <2>1, <2>2, QuietKeeps
<1> QED BY <1>2, <1>3 DEF Reserve, Go, Goto, Exit

\* A run that is about to be admitted owns the file that the path was for when it took the
\* lock; if that file still is the plan and holds the admitted bytes, nothing came between.
LEMMA OwnsPath ==
    ASSUME IInv, NEW p \in Process, NEW f \in Files, owner[f] = p, text[path] # Torn,
           pc[p] = "admit" \/ InCharge(p), text[path].body = admitted[p].body
    PROVE  f = path
<1>1. TypeOK /\ World /\ BodyOf(p) BY DEF IInv, Fine
<1>2. f <= path /\ text[path].body >= path /\ p # None
  BY <1>1, StampAssumption DEF World
<1>3. ~(f < path)
  BY <1>1, <1>2 DEF BodyOf, TypeOK, Text, Files
<1> QED BY <1>1, <1>2, <1>3 DEF TypeOK, Files

\* The lock of the file that the path is for now: its taker owns no other, and is
\* not in charge yet.
LEMMA TakeLockKeeps ==
    ASSUME IInv, NEW p \in Process, TakeLock(p), UNCHANGED <<order, draft, saves>>
    PROVE  IInv'
<1>0. TypeOK /\ World /\ Fine(p) /\ pc[p] = "lock" /\ owner[path] = None
  BY DEF IInv, TakeLock
<1>1. /\ path' = path /\ text' = text /\ flock' = flock /\ hold' = hold /\ next' = next /\ source' = source
      /\ job' = job /\ admitted' = admitted /\ code' = code /\ order' = order /\ draft' = draft
      /\ saves' = saves /\ owner' = [owner EXCEPT ![path] = p] /\ pc' = [pc EXCEPT ![p] = "admit"]
  BY DEF TakeLock, Go, Goto
<1>2. TypeOK'
  BY <1>0, <1>1 DEF TypeOK, Places
<1>3. pc'[p] = "admit" /\ (\A q \in Process \ {p} : pc'[q] = pc[q]) /\ Earns
       /\ owner'[path] = p /\ (\A f \in Files \ {path} : owner'[f] = owner[f]) /\ path \in Files
  BY <1>0, <1>1 DEF TypeOK, Earns
<1>4. \A f \in Files : owner[f] # p
  BY <1>0 DEF Fine, LockOf
<1>5. ASSUME NEW q \in Process \ {p} PROVE Fine(q)'
  <2>1. \A f \in Files : (owner'[f] = q) <=> (owner[f] = q)
    BY <1>0, <1>3, StampAssumption
  <2>2. hold[q] \in Files BY <1>0 DEF TypeOK
  <2> QED BY <1>1, <1>3, <2>1, <2>2, OthersFine
<1>6. Fine(p)'
  BY <1>0, <1>1, <1>3, <1>4, StampAssumption DEF Fine, StampsOf, Earned, LockOf, BodyOf, JobOf, OwnedBy,
                            Working, Rewriting, Stamping, InCharge, Files, TypeOK, Torn
<1>7. \A q \in Process : InCharge(q)' => InCharge(q) /\ q # p
  BY <1>1, <1>3 DEF Working, Rewriting, Stamping, InCharge
<1>8. World'
  <2>1. (\A f \in Files : Earned(text[f]) /\ text[f].body <= saves + 1)'
        /\ (Earned(draft) /\ draft.body <= saves + 1 /\ path <= saves + 1)'
        /\ (text[path] = Torn \/ text[path].body >= path)'
    BY <1>0, <1>1 DEF World, Earned, Torn, Files
  <2>2. (\A f \in Files : owner[f] # None => f <= path)'
    BY <1>0, <1>1, <1>3 DEF World, Files
  <2>3. (\A f, g \in Files : owner[f] = owner[g] /\ owner[f] # None => f = g)'
    BY <1>0, <1>1, <1>3, <1>4 DEF World, Files
  <2>4. (\A f, g \in Files :
        owner[f] # None /\ owner[g] # None /\ f < g /\ InCharge(owner[f]) /\ InCharge(owner[g])
            => admitted[owner[f]].body < g)'
    <3> SUFFICES ASSUME NEW f \in Files, NEW g \in Files, owner'[f] # None, owner'[g] # None, f < g,
                        InCharge(owner[f])', InCharge(owner[g])'
                 PROVE  admitted'[owner'[f]].body < g
      BY DEF Files, InCharge, Working, Rewriting, Stamping
    <3>1. owner'[f] \in Process /\ owner'[g] \in Process
      BY <1>2 DEF TypeOK
    <3>2. f # path /\ g # path
      BY <1>3, <3>1 DEF InCharge, Working, Rewriting, Stamping
    <3>3. InCharge(owner[f]) /\ InCharge(owner[g])
      BY <1>1, <1>3, <3>1, <3>2 DEF InCharge, Working, Rewriting, Stamping
    <3> QED BY <1>0, <1>1, <1>3, <3>1, <3>2, <3>3 DEF World
  <2> QED BY <2>1, <2>2, <2>3, <2>4 DEF World
<1> QED BY <1>2, <1>5, <1>6, <1>8 DEF IInv

\* A step that gives locks back, or writes into the file of a rewrite.
LEMMA OwnerKeeps ==
    ASSUME IInv, TypeOK', NEW p \in Process, Apart(p), Earns,
           path' = path, saves' = saves, order' = order, draft' = draft,
           InCharge(p)' => InCharge(p) /\ admitted'[p] = admitted[p],
           \A f \in Files : owner'[f] = owner[f] \/ (owner[f] = p /\ owner'[f] = None),
           \A f \in Files : text'[f] = text[f] \/
               (Rewriting(p) /\ owner[f] = p /\ text'[f] \in {Torn, job[p].old, job[p].new}),
           Fine(p)'
    PROVE  IInv'
<1>0. TypeOK /\ World /\ Fine(p) BY DEF IInv
<1>1. ASSUME NEW q \in Process \ {p} PROVE Fine(q)'
  <2>1. \A f \in Files : (owner'[f] = q) <=> (owner[f] = q)
    BY StampAssumption
  <2>2. hold[q] \in Files /\ \A f \in Files : owner[f] = q => text'[f] = text[f]
    BY <1>0 DEF TypeOK
  <2> QED BY <2>1, <2>2, OthersFine DEF Apart
<1>2. Torn.body = 0 /\ Torn.stamp = None
  BY DEF Torn
<1>3. ASSUME NEW f \in Files, text'[f] # text[f]
      PROVE  /\ Earned(text'[f]) /\ text'[f].body <= saves + 1
             /\ f = path => text'[f] = Torn \/ text'[f].body >= path
  <2>1. owner[f] = p /\ InCharge(p) /\ Rewriting(p)
    BY <1>3 DEF InCharge
  <2>2. CASE text'[f] = Torn
    BY <1>2, <2>2, <1>0, StampAssumption DEF Earned, TypeOK
  <2>3. CASE text'[f] \in {job[p].old, job[p].new}
    BY <1>0, <2>1, <2>3 DEF Fine, StampsOf, BodyOf, JobOf, TypeOK, Text, Job, Files
  <2> QED BY <1>3, <2>2, <2>3
<1>4. (\A f \in Files : Earned(text[f]) /\ text[f].body <= saves + 1)'
      /\ (Earned(draft) /\ draft.body <= saves + 1 /\ path <= saves + 1)'
  BY <1>0, <1>3 DEF World, Earned, Earns
<1>5. (text[path] = Torn \/ text[path].body >= path)'
  BY <1>0, <1>3 DEF World, TypeOK, Torn
<1>6. (\A f \in Files : owner[f] # None => f <= path)'
  BY <1>0, StampAssumption DEF World, Files
<1>7. (\A f, g \in Files : owner[f] = owner[g] /\ owner[f] # None => f = g)'
  BY <1>0, StampAssumption DEF World, Files
<1>8. (\A f, g \in Files :
        owner[f] # None /\ owner[g] # None /\ f < g /\ InCharge(owner[f]) /\ InCharge(owner[g])
            => admitted[owner[f]].body < g)'
  <2> SUFFICES ASSUME NEW f \in Files, NEW g \in Files, owner'[f] # None, owner'[g] # None, f < g,
                      InCharge(owner[f])', InCharge(owner[g])'
               PROVE  admitted'[owner'[f]].body < g
    BY DEF Files, InCharge, Working, Rewriting, Stamping
  <2>1. owner'[f] = owner[f] /\ owner'[g] = owner[g] /\ owner[f] \in Process /\ owner[g] \in Process
    BY <1>0 DEF TypeOK
  <2>2. \A q \in Process : InCharge(q)' => InCharge(q) /\ admitted'[q] = admitted[q]
    BY DEF Apart, InCharge, Rewriting, Stamping, Working
  <2>3. InCharge(owner[f]) /\ InCharge(owner[g]) /\ admitted'[owner[f]] = admitted[owner[f]]
    BY <2>1, <2>2 DEF InCharge, Rewriting, Stamping, Working
  <2> QED BY <1>0, <2>1, <2>3 DEF World
<1>9. World'
  BY <1>4, <1>5, <1>6, <1>7, <1>8 DEF World
<1> QED BY <1>1, <1>9 DEF IInv

\* Admission: the plan still holds the reserved bytes, so the lock is the plan's, and
\* nobody in charge of an older file has a plan as new as this one.
LEMMA AdmitKeeps ==
    ASSUME IInv, NEW p \in Process, Admit(p), UNCHANGED <<order, draft, saves>>
    PROVE  IInv'
<1>0. TypeOK /\ World /\ Fine(p) /\ pc[p] = "admit" BY DEF IInv, Admit
<1>1. /\ path' = path /\ text' = text /\ flock' = flock /\ hold' = hold /\ next' = next /\ source' = source
      /\ job' = job /\ admitted' = admitted /\ order' = order /\ draft' = draft /\ saves' = saves
  BY DEF Admit
<1>2. CASE owner' = Released(p) /\ pc' = [pc EXCEPT ![p] = "finalize"] /\ code' = [code EXCEPT ![p] = 2]
  <2>1. TypeOK' /\ Apart(p) /\ Earns /\ pc'[p] = "finalize" /\ code'[p] = 2
    BY <1>0, <1>1, <1>2 DEF TypeOK, Places, Apart, Earns, Released
  <2>2. \A f \in Files : owner'[f] = owner[f] \/ (owner[f] = p /\ owner'[f] = None)
    BY <1>2 DEF Released
  <2>3. Fine(p)' /\ ~InCharge(p)'
    BY <1>0, <1>1, <2>1, OrderLength, OverFine DEF Over, Fine, StampsOf
  <2> QED BY <1>1, <2>1, <2>2, <2>3, OwnerKeeps
<1>3. CASE /\ text[path] = admitted[p] /\ owner' = owner
           /\ pc' = [pc EXCEPT ![p] = "gates"] /\ code' = code
  <2>1. TypeOK' /\ Apart(p) /\ Earns /\ pc'[p] = "gates"
    BY <1>0, <1>1, <1>3 DEF TypeOK, Places, Apart, Earns
  <2>2. owner[path] = p /\ path <= admitted[p].body /\ \A f \in Files : owner[f] = p => f = path
    <3>1. text[path] # Torn /\ \E f \in Files : owner[f] = p
      BY <1>0, <1>3 DEF Fine, BodyOf, LockOf
    <3>2. \A f \in Files : owner[f] = p => f = path
      BY <1>0, <1>3, <3>1, OwnsPath
    <3> QED BY <1>0, <1>3, <3>1, <3>2 DEF World
  <2>3. Fine(p)'
    BY <1>0, <1>1, <1>3, <2>1, <2>2 DEF Fine, StampsOf, Earned, LockOf, BodyOf, JobOf, OwnedBy,
                            Working, Rewriting, Stamping, InCharge, Files, TypeOK
  <2>4. ASSUME NEW q \in Process \ {p} PROVE Fine(q)'
    <3>1. hold[q] \in Files BY <1>0 DEF TypeOK
    <3> QED BY <1>1, <1>3, <2>1, <3>1, OthersFine DEF Apart
  <2>5. (\A f, g \in Files :
        owner[f] # None /\ owner[g] # None /\ f < g /\ InCharge(owner[f]) /\ InCharge(owner[g])
            => admitted[owner[f]].body < g)'
    <3> SUFFICES ASSUME NEW f \in Files, NEW g \in Files, owner[f] # None, owner[g] # None, f < g,
                        InCharge(owner[f])', InCharge(owner[g])'
                 PROVE  admitted[owner[f]].body < g
      BY <1>1, <1>3 DEF Files, InCharge, Working, Rewriting, Stamping
    <3>1. owner[f] \in Process /\ owner[g] \in Process /\ f <= path /\ g <= path
      BY <1>0 DEF TypeOK, World
    <3>2. owner[f] # p
      BY <1>0, <2>2, <3>1 DEF TypeOK, Files
    <3>3. InCharge(owner[f])
      BY <1>1, <1>3, <2>1, <3>1, <3>2 DEF Apart, InCharge, Working, Rewriting, Stamping
    <3>4. CASE owner[g] = p
      <4>1. f < path /\ g = path
        BY <2>2, <3>4
      <4> QED BY <1>0, <3>1, <3>3, <4>1 DEF IInv, Fine, BodyOf
    <3>5. CASE owner[g] # p
      <4>1. InCharge(owner[g])
        BY <1>1, <1>3, <2>1, <3>1, <3>5 DEF Apart, InCharge, Working, Rewriting, Stamping
      <4> QED BY <1>0, <3>3, <4>1 DEF World
    <3> QED BY <3>4, <3>5
  <2>6. World'
    BY <1>0, <1>1, <1>3, <2>1, <2>5 DEF World, Earned, Earns, Torn, Files
  <2> QED BY <2>1, <2>3, <2>4, <2>6 DEF IInv
<1> QED BY <1>2, <1>3 DEF Admit, Go, Goto, Exit, Terminate

\* The plan is opened for a rewrite: it holds the run's bytes, so it is the locked file.
LEMMA OpenKeeps ==
    ASSUME IInv, NEW p \in Process, Open(p), UNCHANGED <<order, draft, saves>>
    PROVE  IInv'
<1>0. /\ TypeOK /\ World /\ Fine(p) /\ pc[p] = "open" /\ InCharge(p)
  BY DEF IInv, Open, InCharge, Rewriting
<1>1. /\ Still /\ next' = next /\ source' = source /\ job' = job /\ admitted' = admitted /\ code' = code
  BY DEF Open, Still, Go
<1>2. CASE /\ text[path] = job[p].old /\ flock' = [flock EXCEPT ![path] = p]
           /\ hold' = [hold EXCEPT ![p] = path] /\ pc' = [pc EXCEPT ![p] = "write"]
  <2>1. TypeOK' /\ Apart(p) /\ Earns /\ pc'[p] = "write" /\ hold'[p] = path
    BY <1>0, <1>1, <1>2 DEF TypeOK, Places, Still, Apart, Earns
  <2>2. PICK f \in Files : owner[f] = p
    BY <1>0 DEF Fine, LockOf
  <2>3. text[path].body = admitted[p].body /\ admitted[p].body >= 1
    BY <1>0, <1>2, <2>2 DEF Fine, JobOf, BodyOf, Rewriting, TypeOK, Text, Files
  <2>4. owner[path] = p
    BY <1>0, <2>2, <2>3, OwnsPath DEF Torn
  <2>5. StampsOf(p)' /\ LockOf(p)' /\ BodyOf(p)' /\ JobOf(p)' /\ OwnedBy(p)'
    BY <1>0, <1>1, <2>1, <2>4 DEF Fine, StampsOf, Earned, LockOf, BodyOf, JobOf, OwnedBy, Still, Stamped,
                            Working, Rewriting, Stamping, InCharge
  <2> QED BY <1>0, <1>1, <2>1, <2>5, GoesOn
<1>3. CASE flock' = flock /\ hold' = hold /\ pc' = [pc EXCEPT ![p] = "refused"]
  <2>1. Moves(p, "refused", code[p], next[p], source[p], job[p])
    BY <1>1, <1>3 DEF Moves, Sets
  <2>2. code[p] \in 0..3
    BY <1>0 DEF TypeOK
  <2> QED BY <2>1, <2>2, OverKeeps
<1> QED BY <1>2, <1>3 DEF Open, Go, Goto

\* The rewrite writes into the locked file, or puts back what was there.
LEMMA WriteKeeps ==
    ASSUME IInv, NEW p \in Process, Write(p), UNCHANGED <<order, draft, saves>>
    PROVE  IInv'
<1>0. /\ TypeOK /\ World /\ Fine(p) /\ pc[p] = "write" /\ InCharge(p) /\ Rewriting(p)
      /\ owner[hold[p]] = p /\ hold[p] \in Files /\ job[p] \in Job
  BY DEF IInv, Write, InCharge, Rewriting, Fine, LockOf, TypeOK
<1>1. /\ next' = next /\ source' = source /\ job' = job /\ admitted' = admitted /\ code' = code
      /\ path' = path /\ owner' = owner /\ order' = order /\ draft' = draft /\ saves' = saves /\ hold' = hold
  BY DEF Write, Go
<1>2. CASE /\ text' = [text EXCEPT ![hold[p]] = job[p].new] /\ flock' = flock
           /\ pc' = [pc EXCEPT ![p] = "verify"]
  <2>1. TypeOK' /\ Apart(p) /\ Earns /\ pc'[p] = "verify" /\ text'[hold[p]] = job[p].new
         /\ \A f \in Files \ {hold[p]} : text'[f] = text[f]
    BY <1>0, <1>1, <1>2 DEF TypeOK, Job, Places, Apart, Earns
  <2>2. \A f \in Files : owner[f] = p => f = hold[p]
    BY <1>0, StampAssumption DEF World
  <2>3. Fine(p)'
    BY <1>0, <1>1, <2>1, <2>2 DEF Fine, StampsOf, Earned, LockOf, BodyOf, JobOf, OwnedBy, Stamped,
                            Working, Rewriting, Stamping, InCharge
  <2> QED BY <1>0, <1>1, <2>1, <2>3, OwnerKeeps
<1>3. CASE /\ text' = [text EXCEPT ![hold[p]] = job[p].old] /\ flock' = [flock EXCEPT ![hold[p]] = None]
           /\ pc' = [pc EXCEPT ![p] = "refused"]
  <2>1. TypeOK' /\ Apart(p) /\ Earns /\ pc'[p] = "refused" /\ text'[hold[p]] = job[p].old
         /\ \A f \in Files \ {hold[p]} : text'[f] = text[f]
    BY <1>0, <1>1, <1>3 DEF TypeOK, Job, Places, Apart, Earns
  <2>2. Fine(p)' /\ ~InCharge(p)'
    BY <1>0, <1>1, <2>1, OrderLength, OverFine DEF Over, Fine, StampsOf
  <2> QED BY <1>0, <1>1, <2>1, <2>2, OwnerKeeps
<1> QED BY <1>2, <1>3 DEF Write, Put, Close, Go, Goto

\* The rewrite looks again, and goes on or puts back what was there.
LEMMA VerifyKeeps ==
    ASSUME IInv, NEW p \in Process, Verify(p), UNCHANGED <<order, draft, saves>>
    PROVE  IInv'
<1>0. /\ TypeOK /\ World /\ Fine(p) /\ pc[p] = "verify" /\ InCharge(p) /\ Rewriting(p)
      /\ owner[hold[p]] = p /\ hold[p] \in Files /\ job[p] \in Job
  BY DEF IInv, Verify, InCharge, Rewriting, Fine, LockOf, TypeOK
<1>1. /\ next' = next /\ source' = source /\ job' = job /\ admitted' = admitted
      /\ path' = path /\ owner' = owner /\ order' = order /\ draft' = draft /\ saves' = saves /\ hold' = hold
      /\ flock' = [flock EXCEPT ![hold[p]] = None]
  BY DEF Verify, Close
<1>2. CASE /\ text' = text /\ code' = code
           /\ \/ job[p].for = "clear" /\ pc' = [pc EXCEPT ![p] = "cleared"]
              \/ job[p].for = "stamp" /\ pc' = [pc EXCEPT ![p] = "stamped"]
  <2>1. TypeOK' /\ Still /\ Apart(p) /\ Earns
         /\ \/ job[p].for = "clear" /\ pc'[p] = "cleared"
            \/ job[p].for = "stamp" /\ pc'[p] = "stamped"
    BY <1>0, <1>1, <1>2 DEF TypeOK, Job, Places, Apart, Earns, Still
  <2>3. StampsOf(p)' /\ LockOf(p)' /\ BodyOf(p)' /\ JobOf(p)' /\ OwnedBy(p)'
    BY <1>0, <1>1, <1>2, <2>1 DEF Fine, StampsOf, Earned, LockOf, BodyOf, JobOf, OwnedBy, Stamped,
                            Working, Rewriting, Stamping, InCharge
  <2> QED BY <1>0, <1>1, <2>1, <2>3, GoesOn
<1>3. CASE /\ text' = text \/ text' = [text EXCEPT ![hold[p]] = job[p].old]
           /\ code' = code /\ pc' = [pc EXCEPT ![p] = "refused"]
  <2>1. TypeOK' /\ Apart(p) /\ Earns /\ pc'[p] = "refused"
    BY <1>0, <1>1, <1>3 DEF TypeOK, Job, Places, Apart, Earns
  <2>2. \A f \in Files : text'[f] = text[f] \/ (owner[f] = p /\ text'[f] = job[p].old)
    BY <1>0, <1>3 DEF TypeOK
  <2>3. Fine(p)' /\ ~InCharge(p)'
    BY <1>0, <1>1, <2>1, OrderLength, OverFine DEF Over, Fine, StampsOf
  <2> QED BY <1>0, <1>1, <2>1, <2>2, <2>3, OwnerKeeps
<1> QED BY <1>2, <1>3 DEF Verify, Put, Succeeded, Go, Goto

\* The lock is given back.
LEMMA UnlockKeeps ==
    ASSUME IInv, NEW p \in Process, Unlock(p), UNCHANGED <<order, draft, saves>>
    PROVE  IInv'
<1>0. TypeOK /\ World /\ Fine(p) /\ pc[p] = "unlock" BY DEF IInv, Unlock
<1>1. /\ path' = path /\ text' = text /\ flock' = flock /\ next' = next /\ source' = source
      /\ admitted' = admitted /\ order' = order /\ draft' = draft /\ saves' = saves /\ code' = code
      /\ owner' = Released(p) /\ pc' = [pc EXCEPT ![p] = "destroy"]
      /\ job' = [job EXCEPT ![p] = NoJob] /\ hold' = [hold EXCEPT ![p] = 1]
  BY DEF Unlock, Go, Goto, Forget
<1>2. NoJob \in Job /\ 1 \in Files /\ p # None
  BY StampAssumption, BoundAssumption DEF NoJob, Torn, Job, Text, Files
<1>3. TypeOK' /\ Apart(p) /\ Earns /\ pc'[p] = "destroy"
  BY <1>0, <1>1, <1>2 DEF TypeOK, Places, Apart, Earns, Released
<1>4. \A f \in Files : owner'[f] # p /\ (owner'[f] = owner[f] \/ (owner[f] = p /\ owner'[f] = None))
  BY <1>1, <1>2 DEF Released
<1>5. Fine(p)' /\ ~InCharge(p)'
  BY <1>0, <1>1, <1>3, <1>4 DEF Fine, StampsOf, Earned, LockOf, BodyOf, JobOf, OwnedBy,
                            Working, Rewriting, Stamping, InCharge
<1> QED BY <1>1, <1>3, <1>4, <1>5, OwnerKeeps

\* A killed run leaves its locks to others, and perhaps a torn plan.
LEMMA KillKeeps ==
    ASSUME IInv, NEW p \in Process, Kill(p)
    PROVE  IInv'
<1>0. TypeOK /\ World /\ Fine(p) BY DEF IInv
<1>1. /\ path' = path /\ next' = next /\ source' = source
      /\ admitted' = admitted /\ order' = order /\ draft' = draft /\ saves' = saves /\ code' = code
      /\ owner' = Released(p) /\ pc' = [pc EXCEPT ![p] = "dead"]
      /\ job' = [job EXCEPT ![p] = NoJob] /\ hold' = [hold EXCEPT ![p] = 1]
      /\ flock' = [f \in Files |-> IF flock[f] = p THEN None ELSE flock[f]]
  BY DEF Kill, Go, Goto, Forget
<1>2. NoJob \in Job /\ 1 \in Files /\ p # None /\ Torn \in Text
  BY StampAssumption, BoundAssumption DEF NoJob, Torn, Job, Text, Files
<1>3. \/ text' = text
      \/ /\ pc[p] = "write" /\ hold[p] \in Files /\ owner[hold[p]] = p
         /\ \E t \in {Torn, job[p].new} : t \in Text /\ text' = [text EXCEPT ![hold[p]] = t]
  BY <1>0, <1>2 DEF Kill, Put, TypeOK, Job, Fine, LockOf
<1>4. text' \in [Files -> Text] /\ \A f \in Files : text'[f] = text[f] \/
               (Rewriting(p) /\ owner[f] = p /\ text'[f] \in {Torn, job[p].old, job[p].new})
  BY <1>0, <1>3 DEF TypeOK, Rewriting
<1>5. TypeOK' /\ Apart(p) /\ Earns /\ pc'[p] = "dead"
  BY <1>0, <1>1, <1>2, <1>4 DEF TypeOK, Places, Apart, Earns, Released
<1>6. \A f \in Files : owner'[f] # p /\ (owner'[f] = owner[f] \/ (owner[f] = p /\ owner'[f] = None))
  BY <1>1, <1>2 DEF Released
<1>7. Fine(p)' /\ ~InCharge(p)'
  BY <1>0, <1>1, <1>5, <1>6 DEF Fine, StampsOf, Earned, LockOf, BodyOf, JobOf, OwnedBy,
                            Working, Rewriting, Stamping, InCharge
<1> QED BY <1>1, <1>4, <1>5, <1>6, <1>7, OwnerKeeps

-----------------------------------------------------------------------------
(* steps of everybody else *)

\* Somebody reads the plan.
LEMMA LoadKeeps == ASSUME IInv, Load PROVE IInv'
<1>0. TypeOK /\ World BY DEF IInv
<1>1. /\ path' = path /\ text' = text /\ owner' = owner /\ order' = order /\ saves' = saves
      /\ flock' = flock /\ pc' = pc /\ next' = next /\ code' = code /\ admitted' = admitted
      /\ source' = source /\ job' = job /\ hold' = hold /\ draft' = text[path]
  BY DEF Load, plan, run, budget
<1>2. TypeOK'
  BY <1>0, <1>1 DEF TypeOK
<1>3. ASSUME NEW q \in Process PROVE Fine(q)'
  BY <1>0, <1>1, OthersFine DEF Earns, TypeOK
<1>4. Earned(text[path]) /\ text[path].body <= saves + 1
  BY <1>0 DEF World, TypeOK
<1>5. World'
  BY <1>0, <1>1, <1>4 DEF World, Earned, InCharge, Rewriting, Stamping, Working, Torn, Files
<1> QED BY <1>2, <1>3, <1>5 DEF IInv

\* Others push, or edit planned files.
LEMMA OthersKeep == ASSUME IInv, Others PROVE IInv'
<1>0. TypeOK /\ World BY DEF IInv
<1>1. /\ path' = path /\ text' = text /\ owner' = owner /\ order' = order /\ saves' = saves
      /\ flock' = flock /\ pc' = pc /\ next' = next /\ code' = code /\ admitted' = admitted
      /\ source' = source /\ job' = job /\ hold' = hold /\ draft' = draft
  BY DEF Others, plan, run
<1>2. TypeOK'
  BY <1>0, <1>1 DEF TypeOK
<1>3. ASSUME NEW q \in Process PROVE Fine(q)'
  BY <1>0, <1>1, OthersFine DEF Earns, TypeOK
<1>5. World'
  BY <1>0, <1>1 DEF World, Earned, InCharge, Rewriting, Stamping, Working, Torn, Files
<1> QED BY <1>2, <1>3, <1>5 DEF IInv

\* A saved plan has a body of its own, larger than every body before.
LEMMA SaveKeeps == ASSUME IInv, Save PROVE IInv'
<1>0. TypeOK /\ World BY DEF IInv
<1>1. /\ owner' = owner /\ order' = order /\ saves' = saves + 1 /\ draft' = Torn /\ saves < MaxSaves
      /\ flock' = flock /\ pc' = pc /\ next' = next /\ code' = code /\ admitted' = admitted
      /\ source' = source /\ job' = job /\ hold' = hold
  BY DEF Save, run
<1>2. PICK f \in Files : f = path' /\ f \in {path, saves + 2} /\ text' = [text EXCEPT ![f] = Edited]
  BY <1>0, <1>1, BoundAssumption DEF Save, Put, TypeOK, Files
<1>3. /\ Edited \in Text /\ Edited.body = saves + 2 /\ Edited.stamp = draft.stamp
      /\ Torn \in Text /\ Torn.body = 0 /\ Torn.stamp = None
  BY <1>0 DEF Edited, Torn, Text, TypeOK
<1>4. TypeOK'
  BY <1>0, <1>1, <1>2, <1>3 DEF TypeOK
<1>5. text'[f] = Edited /\ (\A g \in Files \ {f} : text'[g] = text[g]) /\ path <= path'
  BY <1>0, <1>2 DEF TypeOK, World, Files
<1>6. ASSUME NEW q \in Process PROVE Fine(q)'
  <2>0. Fine(q) /\ admitted[q].body \in Nat BY DEF IInv, TypeOK, Text
  <2> USE DEF InCharge, Rewriting, Stamping, Working
  <2>1. StampsOf(q)' /\ LockOf(q)' /\ JobOf(q)'
    BY <1>1, <2>0 DEF Fine, StampsOf, LockOf, JobOf, Earned, Stamped, Files
  <2>2. BodyOf(q)'
    <3>1. admitted[q].body <= saves + 1
      BY <2>0 DEF Fine, BodyOf
    <3> QED BY <1>0, <1>1, <1>2, <1>5, <2>0, <3>1 DEF Fine, BodyOf, Torn, TypeOK, Files
  <2>3. OwnedBy(q)'
    <3>1. admitted[q].body # Edited.body
      BY <1>0, <1>3, <2>0 DEF Fine, BodyOf, TypeOK
    <3> QED BY <1>1, <1>5, <2>0, <3>1 DEF Fine, OwnedBy, Files
  <2> QED BY <2>1, <2>2, <2>3 DEF Fine
<1>7. World'
  <2>1. ASSUME NEW g \in Files PROVE Earned(text[g])' /\ text'[g].body <= saves + 2
    <3>1. CASE g = f
      BY <1>0, <1>1, <1>3, <1>5, <3>1 DEF World, Earned, TypeOK
    <3>2. CASE g # f
      <4>1. text'[g] = text[g] /\ text[g].body \in Nat /\ text[g].body <= saves + 1 /\ Earned(text[g])
        BY <1>0, <1>5, <3>2 DEF World, TypeOK, Text
      <4> QED BY <1>0, <1>1, <4>1 DEF Earned, TypeOK
    <3> QED BY <3>1, <3>2
  <2>2. Earned(draft)' /\ draft'.body <= saves + 2 /\ path' <= saves + 2
    BY <1>0, <1>1, <1>2, <1>3, StampAssumption DEF World, Earned, TypeOK, Files
  <2>3. text'[path'].body >= path'
    BY <1>0, <1>2, <1>3, <1>5 DEF World, TypeOK, Files
  <2>4. \A g \in Files : owner[g] # None => g <= path'
    BY <1>0, <1>5, <1>4 DEF World, TypeOK, Files
  <2>5. saves' + 1 = saves + 2
    BY <1>0, <1>1 DEF TypeOK
  <2> QED BY <1>0, <1>1, <2>1, <2>2, <2>3, <2>4, <2>5 DEF World, InCharge, Rewriting, Stamping, Working, Files, Torn
<1> QED BY <1>4, <1>6, <1>7 DEF IInv

-----------------------------------------------------------------------------

\* The invariant holds at first.
LEMMA InitIInv == ASSUME Init PROVE IInv
<1>1. Torn \in Text /\ Torn.stamp = None /\ Torn.body = 0
  BY StampAssumption DEF Torn, Text
<1>2. PICK s \in {None, Old} : text = [f \in Files |-> [body |-> 1, stamp |-> s]]
  BY DEF Init
<1>3. 1 \in Files /\ Files \subseteq Nat
  BY BoundAssumption DEF Files
<1>4. TypeOK
  <2>1. text \in [Files -> Text] /\ NoJob \in Job
    BY <1>1, <1>2 DEF Text, Job, NoJob
  <2>2. /\ pc \in [Process -> Places] /\ next \in [Process -> Nat] /\ code \in [Process -> 0..3]
        /\ owner \in [Files -> Process \cup {None}] /\ flock \in [Files -> Process \cup {None}]
    BY DEF Init, Places
  <2>3. /\ admitted \in [Process -> Text] /\ source \in [Process -> Text]
        /\ job \in [Process -> Job] /\ hold \in [Process -> Files]
    BY <1>1, <1>3, <2>1 DEF Init
  <2> QED BY <1>1, <1>3, <2>1, <2>2, <2>3 DEF Init, TypeOK
<1>5. World
  BY <1>1, <1>2, <1>3, StampAssumption DEF Init, World, Earned
<1>6. ASSUME NEW p \in Process PROVE Fine(p)
  BY <1>1, <1>4, OrderLength, StampAssumption DEF Init, Fine, StampsOf, Earned, LockOf, BodyOf, JobOf, OwnedBy,
                  Working, Rewriting, Stamping, InCharge
<1> QED BY <1>4, <1>5, <1>6 DEF IInv

\* Every step keeps the invariant.
LEMMA NextIInv == ASSUME IInv, [Next]_vars PROVE IInv'
<1>1. ASSUME NEW p \in Process, Step(p) PROVE IInv'
  BY <1>1, ReserveKeeps, TakeLockKeeps, LockTimeoutKeeps, AdmitKeeps, GatesKeeps, OpenKeeps, WriteKeeps,
     VerifyKeeps, RefuseKeeps, ClearedKeeps, CommitKeeps, SyncKeeps, PostSyncKeeps, PushKeeps,
     StampWrittenKeeps, FinalizeKeeps, UnlockKeeps, DestroyKeeps DEF Step
<1>2. CASE UNCHANGED vars
  <2>1. /\ path' = path /\ text' = text /\ owner' = owner /\ order' = order /\ saves' = saves
        /\ flock' = flock /\ pc' = pc /\ next' = next /\ code' = code /\ admitted' = admitted
        /\ source' = source /\ job' = job /\ hold' = hold /\ draft' = draft
    BY <1>2 DEF vars, plan, run, budget
  <2> QED BY <2>1 DEF IInv, TypeOK, World, Fine, StampsOf, Earned, LockOf, BodyOf, JobOf, OwnedBy,
                  Working, Rewriting, Stamping, InCharge
<1> QED BY <1>1, <1>2, KillKeeps, LoadKeeps, SaveKeeps, OthersKeep DEF Next

\* The invariant holds whatever the runs of the pipeline, those who save the plan and
\* those who push do, and whichever of them is killed.
THEOREM PlanInvariant == Spec => []IInv
BY InitIInv, NextIInv, PTL DEF Spec

\* Every variable keeps its type.
THEOREM PlanTypes == Spec => []TypeOK
<1>1. IInv => TypeOK BY DEF IInv
<1> QED BY <1>1, PlanInvariant, PTL

\* A completion stamp is never on a plan, nor in a copy of it, before the run that wrote it
\* has pushed every repository of the plan.
THEOREM PlanStamp == Spec => []StampMeansPushed
<1>1. IInv => StampMeansPushed
  BY DEF IInv, World, Earned, StampMeansPushed
<1> QED BY <1>1, PlanInvariant, PTL

\* There is one run in charge of a plan.
LEMMA OnlyOne ==
    ASSUME IInv, NEW p \in Process, NEW q \in Process, InCharge(p), InCharge(q),
           admitted[q].body = admitted[p].body
    PROVE  p = q
<1>0. TypeOK /\ World /\ Fine(p) /\ Fine(q) BY DEF IInv
<1>1. PICK f \in Files : owner[f] = p
  BY <1>0 DEF Fine, LockOf
<1>2. PICK g \in Files : owner[g] = q
  BY <1>0 DEF Fine, LockOf
<1>3. f <= admitted[p].body /\ g <= admitted[q].body
  BY <1>0, <1>1, <1>2 DEF Fine, BodyOf
<1>4. f < g => admitted[p].body < g
  BY <1>0, <1>1, <1>2, StampAssumption DEF World
<1>5. g < f => admitted[q].body < f
  BY <1>0, <1>1, <1>2, StampAssumption DEF World
<1>6. f = g
  BY <1>0, <1>3, <1>4, <1>5 DEF TypeOK, Text, Files
<1> QED BY <1>1, <1>2, <1>6

\* A run in charge has the lock of its plan when the plan still is what it admitted.
LEMMA ChargeOwns ==
    ASSUME IInv, NEW p \in Process, InCharge(p), text[path].body = admitted[p].body
    PROVE  owner[path] = p
<1>0. TypeOK /\ World /\ Fine(p) BY DEF IInv
<1>1. PICK f \in Files : owner[f] = p
  BY <1>0 DEF Fine, LockOf
<1>2. f <= admitted[p].body /\ 1 <= f
  BY <1>0, <1>1 DEF Fine, BodyOf, Files
<1>3. text[path] # Torn
  BY <1>0, <1>2 DEF Torn, TypeOK, Text, Files
<1> QED BY <1>0, <1>1, <1>3, OwnsPath

\* Of one plan there is one run at work at a time, and while it works its plan has no
\* completion stamp.
THEOREM PlanAlone == Spec => []WorksAlone
<1>1. ASSUME IInv PROVE WorksAlone
  <2> SUFFICES ASSUME NEW p \in Process, Working(p)
               PROVE  /\ text[path].body = admitted[p].body => text[path].stamp = None
                      /\ \A q \in Process : Working(q) /\ admitted[q].body = admitted[p].body => q = p
    BY DEF WorksAlone
  <2>0. TypeOK /\ Fine(p) /\ InCharge(p) BY <1>1 DEF IInv, InCharge
  <2>1. ASSUME text[path].body = admitted[p].body PROVE text[path].stamp = None
    <3>1. owner[path] = p
      BY <1>1, <2>0, <2>1, ChargeOwns
    <3> QED BY <2>0, <2>1, <3>1 DEF Fine, OwnedBy, TypeOK
  <2>2. ASSUME NEW q \in Process, Working(q), admitted[q].body = admitted[p].body PROVE q = p
    BY <1>1, <2>0, <2>2, OnlyOne DEF InCharge
  <2> QED BY <2>1, <2>2
<1> QED BY <1>1, PlanInvariant, PTL

\* No step puts an older plan in the place of a newer one, but for a write that had looked
\* just before the newer one was saved.
THEOREM PlanEdits == Spec => EditsKept
<1>1. ASSUME IInv, [Next]_vars, text'[path'].body < text[path].body
      PROVE  \E p \in Process : pc[p] = "write" /\ pc'[p] # "write"
  <2>0. TypeOK /\ World /\ text[path].body \in Nat BY <1>1 DEF IInv, TypeOK, Text
  <2>1. ~(path' = path /\ text' = text)
    BY <1>1, <2>0
  <2>2. CASE Save
    <3>1. path' \in Files /\ text'[path'] = Edited
      BY <2>0, <2>2, BoundAssumption DEF Save, Put, TypeOK, Files
    <3>2. text'[path'].body = saves + 2 /\ text[path].body <= saves + 1
      BY <2>0, <3>1 DEF Edited, TypeOK, Text, World
    <3> QED BY <1>1, <2>0, <3>2 DEF TypeOK
  <2>3. ASSUME NEW p \in Process, Write(p) PROVE pc[p] = "write" /\ pc'[p] # "write"
    BY <2>0, <2>3 DEF Write, Go, Goto, TypeOK
  <2>4. ASSUME NEW p \in Process, Kill(p) PROVE pc[p] = "write" /\ pc'[p] # "write"
    BY <2>0, <2>1, <2>4 DEF Kill, Go, Goto, TypeOK
  <2>5. ASSUME NEW p \in Process, Verify(p) PROVE FALSE
    <3>0. Fine(p) /\ Rewriting(p) /\ pc[p] = "verify" BY <1>1, <2>5 DEF IInv, Verify, Rewriting
    <3>1. path' = path /\ job[p].old.body = job[p].new.body
      BY <2>5, <3>0 DEF Verify, Fine, JobOf
    <3>2. text[hold[p]] = job[p].new /\ text' = [text EXCEPT ![hold[p]] = job[p].old]
      BY <2>1, <2>5, <3>1 DEF Verify, Put
    <3> QED BY <1>1, <2>0, <3>1, <3>2 DEF TypeOK
  <2>6. ASSUME NEW p \in Process, Step(p), ~Write(p), ~Verify(p) PROVE FALSE
    BY <2>1, <2>6 DEF Step, Reserve, TakeLock, LockTimeout, Admit, Gates, Open, Refuse, Cleared, Commit,
        Sync, PostSync, Push, StampWritten, Finalize, Unlock, Destroy, plan
  <2>7. (path' = path /\ text' = text) \/ Save \/ \E p \in Process : Step(p) \/ Kill(p)
    BY <1>1 DEF Next, vars, plan, Load, Others
  <2> QED BY <2>1, <2>2, <2>3, <2>4, <2>5, <2>6, <2>7
<1> QED BY <1>1, PlanInvariant, PTL DEF EditsKept, Spec

-----------------------------------------------------------------------------
(* a run that failed *)

\* A run that has failed, or is about to say so.
Failed(p) ==
    pc[p] = "refused" \/ (pc[p] \in {"finalize", "unlock", "destroy", "exit"} /\ code[p] # 0)

\* The bytes that a run knows: the plan without a stamp, and with its own.
Bare(p) == Stamped(admitted[p], None)
Own(p) == Stamped(admitted[p], p)
RewriteOf(p) ==
    {[for |-> "clear", old |-> admitted[p], new |-> Bare(p)],
     [for |-> "finalize", old |-> Bare(p), new |-> admitted[p]],
     [for |-> "stamp", old |-> Bare(p), new |-> Own(p)],
     [for |-> "return", old |-> Own(p), new |-> Bare(p)]}

\* Until the clear is over a run owns no bytes; each rewrite has its bytes, and a stamp
\* is taken back only after a failed write; an audit is spoiled by one.
Rewrites(p) ==
    /\ pc[p] \in {"start", "lock", "admit", "gates", "cleared"}
       \/ (Rewriting(p) /\ job[p].for \in {"clear", "finalize"}) => source[p] = Torn
    /\ Rewriting(p) \/ Stamping(p) => job[p] \in RewriteOf(p)
    /\ Stamping(p) => job[p].for = "stamp"
    /\ Rewriting(p) /\ job[p].for = "return" => faults >= 1
    /\ audit[p] = "spoiled" => faults >= 1

\* While the file a run has locked holds its plan, it holds the bytes the rewrite starts
\* from, and after the write the new ones; nobody else has the file open for writing.
Holding(p) ==
    /\ \A f \in Files : owner[f] = p /\ text[f].body = admitted[p].body =>
        /\ pc[p] \in {"open", "write"} => text[f] = job[p].old
        /\ pc[p] = "verify" \/ Stamping(p) => text[f] = job[p].new
    /\ \A f \in Files : flock[f] = p => pc[p] \in {"write", "verify"} /\ hold[p] = f

\* The stamps that may not be on a plan after its run has failed; and neither the plan
\* nor a later run in charge of it has one.
Clean(p, t) == t.stamp # p /\ (source[p] # Torn => t.stamp # Old)
Aftermath(p) ==
    Failed(p) /\ faults <= 1 =>
        /\ text[path].body = admitted[p].body => Clean(p, text[path])
        /\ \A q \in Process : InCharge(q) /\ admitted[q].body = admitted[p].body =>
             Clean(p, admitted[q])

FailInv ==
    /\ faults \in Nat
    /\ audit \in [Process -> {"none", "open", "spoiled", "final", "incomplete"}]
    /\ \A p \in Process : Rewrites(p) /\ Holding(p) /\ Aftermath(p)

\* What a step of one run leaves alone, of the rest.
Beside(p) ==
    /\ Apart(p) /\ path' = path /\ order' = order
    /\ faults' \in Nat /\ faults <= faults'
    /\ audit' \in [Process -> {"none", "open", "spoiled", "final", "incomplete"}]
    /\ \A q \in Process \ {p} : audit'[q] = audit[q]
    /\ audit'[p] = "spoiled" => audit[p] = "spoiled" \/ faults' >= 1

\* Every step of a run is such a step.
LEMMA StepBeside ==
    ASSUME IInv, FailInv, NEW p \in Process, Step(p)
    PROVE  Beside(p)
<1> USE DEF Apart
<1>0. TypeOK /\ faults \in Nat /\ order' = order
      /\ audit \in [Process -> {"none", "open", "spoiled", "final", "incomplete"}]
  BY DEF IInv, FailInv, Step
<1>1. /\ faults' \in Nat /\ faults <= faults'
      /\ audit' \in [Process -> {"none", "open", "spoiled", "final", "incomplete"}]
      /\ \A q \in Process \ {p} : audit'[q] = audit[q]
      /\ audit'[p] = "spoiled" => audit[p] = "spoiled" \/ faults' >= 1
  <2>1. CASE UNCHANGED faults \/ Fault
    <3>1. CASE UNCHANGED audit
      BY <1>0, <2>1, <3>1 DEF Fault
    <3>2. CASE \E a \in {"open", "final", "incomplete"} : Audit(p, a)
      BY <1>0, <2>1, <3>2 DEF Fault, Audit
    <3>3. CASE Fault /\ Audit(p, "spoiled")
      BY <1>0, <3>3 DEF Fault, Audit
    <3> QED BY <3>1, <3>2, <3>3 DEF Step, Reserve, TakeLock, LockTimeout, Admit, Gates, Open, Write, Verify,
              Refuse, Cleared, Commit, Sync, PostSync, Push, StampWritten, Finalize, NotFinal, Unlock, Destroy,
              OneDone, Staged, Appended, NotAppended
  <2> QED BY <2>1 DEF Step, Reserve, TakeLock, LockTimeout, Admit, Gates, Open, Write, Verify,
              Refuse, Cleared, Commit, Sync, PostSync, Push, StampWritten, Finalize, Unlock, Destroy,
              OneDone, Staged, Appended, NotAppended, Intact
<1>2. path' = path
  BY DEF Step, Reserve, TakeLock, LockTimeout, Admit, Gates, Open, Write, Verify,
         Refuse, Cleared, Commit, Sync, PostSync, Push, StampWritten, Finalize, Unlock, Destroy, plan
<1>3. ASSUME NEW q \in Process \ {p} PROVE pc'[q] = pc[q] /\ code'[q] = code[q]
  BY <1>0, <1>3 DEF TypeOK, Step, Reserve, TakeLock, LockTimeout, Admit, Gates, Open, Write, Verify,
         Refuse, Cleared, Commit, Sync, PostSync, Push, StampWritten, Finalize, NotFinal, Unlock, Destroy,
         OneDone, Staged, Succeeded, Terminate, Return, Go, Goto, Exit
<1>4. ASSUME NEW q \in Process \ {p} PROVE next'[q] = next[q] /\ admitted'[q] = admitted[q] /\ source'[q] = source[q]
  BY <1>0, <1>4 DEF TypeOK, Step, Reserve, TakeLock, LockTimeout, Admit, Gates, Open, Write, Verify,
         Refuse, Cleared, Commit, Sync, PostSync, Push, StampWritten, Finalize, Unlock, Destroy,
         OneDone
<1>5. ASSUME NEW q \in Process \ {p} PROVE job'[q] = job[q] /\ hold'[q] = hold[q]
  BY <1>0, <1>5 DEF TypeOK, Step, Reserve, TakeLock, LockTimeout, Admit, Gates, Open, Write, Verify,
         Refuse, Cleared, Commit, Sync, PostSync, Push, StampWritten, Finalize, NotFinal, Unlock, Destroy,
         OneDone, Rewrite, Forget
<1> QED BY <1>0, <1>1, <1>2, <1>3, <1>4, <1>5 DEF Beside

-----------------------------------------------------------------------------

\* A run that failed before it pushed anything has put no stamp anywhere.
LEMMA FailedEarly ==
    ASSUME IInv', NEW p \in Process, next'[p] <= Len(order'), source'[p] = Torn
    PROVE  Aftermath(p)'
<1>1. \A t \in Text : Earned(t)' => t.stamp # p
  BY DEF Earned, IInv, TypeOK
<1> QED BY <1>1 DEF Aftermath, Clean, IInv, TypeOK, World, Fine, StampsOf, Earned

\* A run that was in charge and fails leaves a plan without a stamp.
LEMMA FailedLate ==
    ASSUME IInv, IInv', NEW p \in Process, Beside(p), InCharge(p), ~InCharge(p)',
           admitted'[p] = admitted[p],
           text'[path].body = admitted[p].body => text'[path].stamp = None
    PROVE  Aftermath(p)'
<1>1. ASSUME NEW q \in Process, InCharge(q)', admitted'[q].body = admitted'[p].body PROVE FALSE
  <2>1. q # p BY <1>1
  <2>2. InCharge(q) /\ admitted[q] = admitted'[q]
    BY <1>1, <2>1 DEF Beside, Apart, InCharge, Rewriting, Stamping, Working
  <2> QED BY <1>1, <2>1, <2>2, OnlyOne
<1> QED BY <1>1, StampAssumption DEF Aftermath, Clean, Beside

\* A run that has failed and goes on to its end.
LEMMA FailedStill ==
    ASSUME IInv, FailInv, NEW p \in Process, Beside(p), Failed(p), ~InCharge(p)', text' = text,
           admitted'[p] = admitted[p], source'[p] = source[p]
    PROVE  Aftermath(p)'
<1>1. \A q \in Process : InCharge(q)' => InCharge(q) /\ admitted'[q] = admitted[q]
  BY DEF Beside, Apart, InCharge, Rewriting, Stamping, Working
<1>2. Aftermath(p) BY DEF FailInv
<1>3. faults \in Nat /\ faults' \in Nat /\ faults <= faults' /\ path' = path BY DEF FailInv, Beside
<1> QED BY <1>1, <1>2, <1>3 DEF Aftermath, Clean

\* A run that has not failed.
LEMMA NotFailed ==
    ASSUME NEW p \in Process, ~Failed(p)'
    PROVE  Aftermath(p)'
BY DEF Aftermath

\* The step of a run touches its own file only: the others are as before.
LEMMA FailKeeps ==
    ASSUME IInv, IInv', FailInv, NEW p \in Process, Beside(p),
           \A f \in Files : owner[f] # p => text'[f] = text[f],
           \A f \in Files, q \in Process \ {p} :
             (owner'[f] = q => owner[f] = q) /\ (flock'[f] = q => flock[f] = q),
           text'[path] \in {text[path], Torn}
             \/ (Rewriting(p) /\ text'[path] \in {job[p].old, job[p].new}),
           InCharge(p)' => admitted'[p] = admitted[p] /\ (InCharge(p) \/ text[path] = admitted[p]),
           Rewrites(p)', Holding(p)', Aftermath(p)'
    PROVE  FailInv'
<1>0. TypeOK /\ faults \in Nat /\ faults' \in Nat /\ faults <= faults' /\ path' = path BY DEF IInv, FailInv, Beside
<1>1. ASSUME NEW q \in Process \ {p} PROVE Rewrites(q)'
  BY <1>0 DEF Beside, Apart, FailInv, Rewrites, Rewriting, Stamping, RewriteOf, Bare, Own, Stamped
<1>2. ASSUME NEW q \in Process \ {p} PROVE Holding(q)'
  <2>1. /\ pc'[q] = pc[q] /\ code'[q] = code[q] /\ job'[q] = job[q] /\ hold'[q] = hold[q]
        /\ admitted'[q] = admitted[q]
    BY DEF Beside, Apart
  <2>2. \A f \in Files : owner'[f] = q => owner[f] = q /\ text'[f] = text[f]
    OBVIOUS
  <2>3. Holding(q) BY DEF FailInv
  <2> QED BY <2>1, <2>2, <2>3 DEF Holding, Stamping, Files
<1>3. ASSUME NEW q \in Process \ {p} PROVE Aftermath(q)'
  <2> SUFFICES ASSUME Failed(q)', faults' <= 1
               PROVE  /\ text'[path].body = admitted[q].body => Clean(q, text'[path])
                      /\ \A r \in Process : InCharge(r)' /\ admitted'[r].body = admitted[q].body =>
                            Clean(q, admitted'[r])
    BY <1>0 DEF Beside, Apart, Aftermath, Clean
  <2>1. /\ text[path].body = admitted[q].body => Clean(q, text[path])
        /\ \A r \in Process : InCharge(r) /\ admitted[r].body = admitted[q].body => Clean(q, admitted[r])
    BY <1>0 DEF Beside, Apart, Failed, FailInv, Aftermath
  <2>2. ASSUME text'[path].body = admitted[q].body PROVE Clean(q, text'[path])
    <3>1. CASE text'[path] = text[path]
      BY <2>1, <2>2, <3>1
    <3>2. CASE text'[path] = Torn
      BY <3>2, StampAssumption DEF Torn, Clean
    <3>3. CASE Rewriting(p) /\ text'[path] \in {job[p].old, job[p].new}
      <4>1. InCharge(p) /\ admitted[p].body = admitted[q].body
        BY <2>2, <3>3 DEF InCharge, IInv, Fine, JobOf
      <4>2. Clean(q, admitted[p])
        BY <2>1, <4>1
      <4>3. text'[path] \in {admitted[p], Bare(p), Own(p)}
        BY <3>3 DEF FailInv, Rewrites, RewriteOf
      <4>4. Bare(p).stamp = None /\ Own(p).stamp = p
        BY <1>0 DEF Bare, Own, Stamped, TypeOK, Text
      <4> QED BY <4>2, <4>3, <4>4, StampAssumption DEF Clean
    <3> QED BY <3>1, <3>2, <3>3
  <2>3. ASSUME NEW r \in Process, InCharge(r)', admitted'[r].body = admitted[q].body
        PROVE  Clean(q, admitted'[r])
    <3>1. CASE r = p
      BY <2>1, <2>3, <3>1
    <3>2. CASE r # p
      BY <2>1, <2>3, <3>2 DEF Beside, Apart, InCharge, Rewriting, Stamping, Working
    <3> QED BY <3>1, <3>2
  <2> QED BY <2>2, <2>3
<1>4. \A q \in Process : Rewrites(q)' /\ Holding(q)' /\ Aftermath(q)'
  BY <1>1, <1>2, <1>3
<1> QED BY <1>4 DEF FailInv, Beside

\* A step that leaves the plan and the locks alone.
LEMMA FailQuiet ==
    ASSUME IInv, IInv', FailInv, NEW p \in Process, Beside(p), UNCHANGED <<text, owner, flock>>,
           InCharge(p)' => admitted'[p] = admitted[p] /\ InCharge(p),
           Rewrites(p)', Holding(p)', Aftermath(p)'
    PROVE  FailInv'
BY FailKeeps

-----------------------------------------------------------------------------
(* the steps of a run *)

\* Before the clear.
LEMMA ReserveFail ==
    ASSUME IInv, IInv', FailInv, NEW p \in Process, Beside(p), Reserve(p)
    PROVE  FailInv'
<1> USE DEF Reserve
<1>0. TypeOK /\ Fine(p) /\ Rewrites(p) /\ Holding(p) /\ pc[p] = "start" BY DEF IInv, FailInv
<1>1. UNCHANGED <<text, owner, flock, next, source, order>> /\ pc'[p] \in {"lock", "exit"}
  BY <1>0 DEF plan, Goto, Go, TypeOK, Beside
<1>2. source'[p] = Torn /\ next'[p] <= Len(order')
  BY <1>0, <1>1, OrderLength DEF Fine, StampsOf, Rewrites, TypeOK
<1>3. Rewrites(p)' /\ ~InCharge(p)'
  BY <1>0, <1>1, <1>2 DEF Rewrites, Rewriting, Stamping, InCharge, Working, Beside, FailInv
<1>4. Holding(p)'
  BY <1>0, <1>1 DEF Holding, Fine, LockOf, Stamping, Files
<1> QED BY <1>1, <1>2, <1>3, <1>4, FailedEarly, FailQuiet

LEMMA TakeLockFail ==
    ASSUME IInv, IInv', FailInv, NEW p \in Process, Beside(p), TakeLock(p)
    PROVE  FailInv'
<1> USE DEF TakeLock
<1>0. TypeOK /\ Fine(p) /\ Rewrites(p) /\ Holding(p) BY DEF IInv, FailInv
<1>1. UNCHANGED <<text, flock, source>> /\ pc'[p] = "admit"
  BY <1>0 DEF Go, Goto, TypeOK
<1>2. \A f \in Files, q \in Process \ {p} : owner'[f] = q => owner[f] = q
  BY <1>0 DEF TypeOK
<1>3. Rewrites(p)' /\ ~InCharge(p)' /\ Aftermath(p)'
  BY <1>0, <1>1 DEF Rewrites, Rewriting, Stamping, InCharge, Working, Aftermath, Failed, Beside
<1>4. Holding(p)'
  BY <1>0, <1>1 DEF Holding, Stamping, Files
<1> QED BY <1>1, <1>2, <1>3, <1>4, FailKeeps

LEMMA LockTimeoutFail ==
    ASSUME IInv, IInv', FailInv, NEW p \in Process, Beside(p), LockTimeout(p)
    PROVE  FailInv'
<1> USE DEF LockTimeout
<1>0. TypeOK /\ Fine(p) /\ Rewrites(p) /\ Holding(p) BY DEF IInv, FailInv
<1>1. UNCHANGED <<text, owner, flock, next, source, order>> /\ pc'[p] = "finalize" /\ code'[p] = 2
  BY <1>0 DEF plan, Terminate, Goto, Exit, TypeOK, Beside
<1>2. source'[p] = Torn /\ next'[p] <= Len(order')
  BY <1>0, <1>1, OrderLength DEF Fine, StampsOf, Rewrites, TypeOK
<1>3. Rewrites(p)' /\ ~InCharge(p)'
  BY <1>0, <1>1, <1>2 DEF Rewrites, Rewriting, Stamping, InCharge, Working, Beside, FailInv
<1>4. Holding(p)'
  BY <1>0, <1>1 DEF Holding, Stamping, Files
<1> QED BY <1>1, <1>2, <1>3, <1>4, FailedEarly, FailQuiet

LEMMA AdmitFail ==
    ASSUME IInv, IInv', FailInv, NEW p \in Process, Beside(p), Admit(p)
    PROVE  FailInv'
<1> USE DEF Admit
<1>0. TypeOK /\ Fine(p) /\ Rewrites(p) /\ Holding(p) BY DEF IInv, FailInv
<1>1. /\ UNCHANGED <<text, flock, next, source, order, admitted>>
      /\ \/ pc'[p] = "gates" /\ text[path] = admitted[p]
         \/ pc'[p] = "finalize" /\ code'[p] = 2
  BY <1>0 DEF Terminate, Go, Goto, Exit, TypeOK, Beside
<1>2. source'[p] = Torn /\ next'[p] <= Len(order')
  BY <1>0, <1>1, OrderLength DEF Fine, StampsOf, Rewrites, TypeOK
<1>3. Rewrites(p)' /\ (InCharge(p)' => text[path] = admitted[p])
  BY <1>0, <1>1, <1>2 DEF Rewrites, Rewriting, Stamping, InCharge, Working, Beside, FailInv
<1>4. \A f \in Files, q \in Process \ {p} : owner'[f] = q => owner[f] = q
  BY <1>0, StampAssumption DEF TypeOK, Released
<1>5. Holding(p)'
  BY <1>0, <1>1 DEF Holding, Stamping, Files
<1> QED BY <1>1, <1>2, <1>3, <1>4, <1>5, FailedEarly, FailKeeps

LEMMA GatesFail ==
    ASSUME IInv, IInv', FailInv, NEW p \in Process, Beside(p), Gates(p)
    PROVE  FailInv'
<1> USE DEF Gates
<1>0. TypeOK /\ Fine(p) /\ Rewrites(p) /\ Holding(p) BY DEF IInv, FailInv
<1>1. UNCHANGED <<text, owner, flock, next, source, order, admitted>>
  BY DEF plan, Beside
<1>2. source'[p] = Torn /\ next'[p] <= Len(order') /\ InCharge(p)
  BY <1>0, <1>1, OrderLength DEF Fine, StampsOf, Rewrites, TypeOK, InCharge
<1>3. \/ pc'[p] \in {"finalize", "unlock"} /\ code'[p] \in {2, 3}
      \/ pc'[p] = "open" /\ job'[p] = [for |-> "clear", old |-> admitted[p], new |-> Bare(p)]
      \/ pc'[p] = "cleared"
  BY <1>0 DEF Terminate, Return, Go, Goto, Exit, Rewrite, Bare, TypeOK
<1>4. Rewrites(p)'
  BY <1>0, <1>1, <1>2, <1>3 DEF Rewrites, Rewriting, Stamping, RewriteOf, Bare, Own, Beside, FailInv
<1>5. Holding(p)'
  BY <1>0, <1>1, <1>3 DEF Holding, Stamping, Fine, OwnedBy, Files
<1> QED BY <1>1, <1>2, <1>4, <1>5, FailedEarly, FailQuiet

\* The rewrite.
LEMMA OpenFail ==
    ASSUME IInv, IInv', FailInv, NEW p \in Process, Beside(p), Open(p)
    PROVE  FailInv'
<1> USE DEF Open
<1>0. TypeOK /\ Fine(p) /\ Rewrites(p) /\ Holding(p) /\ InCharge(p) /\ Rewriting(p)
  BY DEF IInv, FailInv, InCharge, Rewriting
<1>1. UNCHANGED <<text, owner, next, source, order, admitted, job>> /\ pc[p] = "open"
  BY DEF Beside
<1>2. CASE flock[path] = None /\ text[path] = job[p].old
  <2>1. pc'[p] = "write" /\ flock' = [flock EXCEPT ![path] = p] /\ hold'[p] = path
    BY <1>0, <1>2 DEF Go, Goto, TypeOK
  <2>2. Rewrites(p)'
    BY <1>0, <1>1, <2>1 DEF Rewrites, Rewriting, Stamping, RewriteOf, Bare, Own, Beside
  <2>3. Holding(p)'
    BY <1>0, <1>1, <2>1 DEF Holding, Stamping, Files, TypeOK
  <2>4. \A f \in Files, q \in Process \ {p} : flock'[f] = q => flock[f] = q
    BY <1>0, <2>1 DEF TypeOK
  <2>5. Aftermath(p)'
    BY <2>1 DEF Aftermath, Failed
  <2> QED BY <1>0, <1>1, <2>2, <2>3, <2>4, <2>5, FailKeeps
<1>3. CASE ~(flock[path] = None /\ text[path] = job[p].old)
  <2>1. pc'[p] = "refused" /\ flock' = flock /\ hold' = hold
    BY <1>0, <1>3 DEF Go, Goto, TypeOK
  <2>2. Rewrites(p)' /\ ~InCharge(p)'
    BY <1>0, <1>1, <2>1 DEF Rewrites, Rewriting, Stamping, InCharge, Working, Beside, FailInv
  <2>3. Holding(p)'
    BY <1>0, <1>1, <2>1 DEF Holding, Stamping, Files
  <2>4. Aftermath(p)'
    <3>1. CASE job[p].for \in {"clear", "finalize"}
      <4>1. source'[p] = Torn /\ next'[p] <= Len(order')
        BY <1>0, <1>1, <3>1, OrderLength DEF Fine, StampsOf, Rewrites, TypeOK
      <4> QED BY <4>1, FailedEarly
    <3>2. CASE job[p].for \in {"stamp", "return"}
      <4>1. ASSUME text[path].body = admitted[p].body PROVE text[path].stamp = None
        <5>1. owner[path] = p
          BY <1>0, <4>1, ChargeOwns
        <5>2. text[path] = job[p].old
          BY <1>0, <1>1, <4>1, <5>1 DEF Holding, TypeOK
        <5>3. flock[path] = None
          <6>1. flock[path] = p => FALSE
            BY <1>0, <1>1 DEF Holding, TypeOK
          <6>2. ASSUME NEW q \in Process \ {p}, flock[path] = q PROVE FALSE
            <7>1. Holding(q) /\ Fine(q) BY DEF FailInv, IInv
            <7>2. pc[q] \in {"write", "verify"} /\ hold[q] = path
              BY <1>0, <6>2, <7>1 DEF Holding, TypeOK
            <7> QED BY <5>1, <7>1, <7>2 DEF Fine, LockOf
          <6> QED BY <1>0, <6>1, <6>2 DEF TypeOK
        <5> QED BY <1>3, <5>2, <5>3
      <4> QED BY <1>0, <1>1, <2>2, <4>1, FailedLate
    <3> QED BY <1>0, <3>1, <3>2 DEF Rewrites, RewriteOf
  <2> QED BY <1>0, <1>1, <2>1, <2>2, <2>3, <2>4, FailQuiet
<1> QED BY <1>2, <1>3

\* What is written into the file a run has open.
LEMMA PutBytes ==
    ASSUME IInv, NEW p \in Process, pc[p] \in {"write", "verify"}, NEW t \in Text, Put(hold[p], t)
    PROVE  /\ hold[p] \in Files /\ owner[hold[p]] = p /\ text'[hold[p]] = t
           /\ \A f \in Files : f # hold[p] => text'[f] = text[f] /\ owner[f] # p
           /\ \A f \in Files : owner[f] # p => text'[f] = text[f]
<1>0. TypeOK /\ World /\ Fine(p) /\ p # None BY StampAssumption DEF IInv
<1>1. hold[p] \in Files /\ owner[hold[p]] = p
  BY <1>0 DEF Fine, LockOf, TypeOK
<1>2. \A f \in Files : f # hold[p] => owner[f] # p
  BY <1>0, <1>1 DEF World
<1>3. text'[hold[p]] = t /\ \A f \in Files : f # hold[p] => text'[f] = text[f]
  BY <1>0, <1>1 DEF Put, TypeOK
<1> QED BY <1>1, <1>2, <1>3

\* The bytes of a rewrite.
LEMMA RewriteBytes ==
    ASSUME IInv, FailInv, NEW p \in Process, Rewriting(p)
    PROVE  /\ job[p].old \in Text /\ job[p].new \in Text /\ job[p].for \in {"clear", "finalize", "stamp", "return"}
           /\ job[p].old.body = admitted[p].body /\ job[p].new.body = admitted[p].body
           /\ job[p].for = "stamp" => job[p].old.stamp = None
           /\ job[p].for = "return" => job[p].new.stamp = None
<1>1. TypeOK /\ Fine(p) /\ Rewrites(p) BY DEF IInv, FailInv
<1>2. admitted[p] \in Text /\ Bare(p).stamp = None
  BY <1>1 DEF TypeOK, Bare, Stamped, Text
<1>3. job[p].old \in Text /\ job[p].new \in Text
      /\ job[p].old.body = admitted[p].body /\ job[p].new.body = admitted[p].body
  BY <1>1 DEF Fine, JobOf, TypeOK, Job
<1>4. job[p] \in RewriteOf(p)
  BY <1>1 DEF Rewrites
<1>5. /\ job[p].for \in {"clear", "finalize", "stamp", "return"}
      /\ job[p].for = "stamp" => job[p].old = Bare(p)
      /\ job[p].for = "return" => job[p].new = Bare(p)
  BY <1>4 DEF RewriteOf
<1> QED BY <1>2, <1>3, <1>5

\* The file of the run is closed, and the rewrite is off.
LEMMA Refused ==
    ASSUME IInv, IInv', FailInv, NEW p \in Process, Beside(p), pc[p] \in {"write", "verify"},
           pc'[p] = "refused", Close(p), UNCHANGED <<owner, next, source, admitted, job>>,
           text' = text \/ Put(hold[p], job[p].old),
           job[p].for \in {"stamp", "return"} /\ faults' <= 1 =>
             (text'[path].body = admitted[p].body => text'[path].stamp = None)
    PROVE  FailInv'
<1>0. TypeOK /\ Fine(p) /\ Rewrites(p) /\ Holding(p) /\ InCharge(p) /\ Rewriting(p)
  BY DEF IInv, FailInv, InCharge, Rewriting
<1>1. Rewrites(p)' /\ ~InCharge(p)'
  BY <1>0 DEF Rewrites, Rewriting, Stamping, InCharge, Working, Beside, FailInv
<1>2. Holding(p)'
  BY <1>0, StampAssumption DEF Holding, Stamping, Close, Files, TypeOK
<1>3. \A f \in Files, q \in Process : flock'[f] = q => flock[f] = q
  BY <1>0, StampAssumption DEF Close, TypeOK
<1>4. /\ \A f \in Files : owner[f] # p => text'[f] = text[f]
      /\ text'[path] \in {text[path], job[p].old}
  BY <1>0, PutBytes, RewriteBytes DEF TypeOK
<1>5. Aftermath(p)'
  <2>1. CASE job[p].for \in {"clear", "finalize"}
    <3>1. source'[p] = Torn /\ next'[p] <= Len(order')
      BY <1>0, <2>1, OrderLength DEF Fine, StampsOf, Rewrites, TypeOK, Beside
    <3> QED BY <3>1, FailedEarly
  <2>2. CASE job[p].for \in {"stamp", "return"} /\ faults' <= 1
    BY <1>0, <1>1, <2>2, FailedLate
  <2>3. CASE ~(faults' <= 1)
    BY <2>3 DEF Aftermath
  <2> QED BY <1>0, <2>1, <2>2, <2>3, RewriteBytes
<1> QED BY <1>0, <1>1, <1>2, <1>3, <1>4, <1>5, FailKeeps

LEMMA WriteFail ==
    ASSUME IInv, IInv', FailInv, NEW p \in Process, Beside(p), Write(p)
    PROVE  FailInv'
<1> USE DEF Write
<1>0. TypeOK /\ Fine(p) /\ Rewrites(p) /\ Holding(p) /\ InCharge(p) /\ Rewriting(p) /\ pc[p] = "write"
  BY DEF IInv, FailInv, InCharge, Rewriting
<1>1. UNCHANGED <<owner, next, source, admitted, job, hold>>
  OBVIOUS
<1>2. CASE Put(hold[p], job[p].new) /\ Go(p, "verify") /\ UNCHANGED flock
  <2>1. pc'[p] = "verify" /\ flock' = flock
    BY <1>0, <1>2 DEF Go, Goto, TypeOK
  <2>2. /\ hold[p] \in Files /\ owner[hold[p]] = p /\ text'[hold[p]] = job[p].new
        /\ \A f \in Files : f # hold[p] => text'[f] = text[f] /\ owner[f] # p
        /\ \A f \in Files : owner[f] # p => text'[f] = text[f]
    BY <1>0, <1>2, PutBytes, RewriteBytes
  <2>3. Rewrites(p)'
    BY <1>0, <1>1, <2>1 DEF Rewrites, Rewriting, Stamping, RewriteOf, Bare, Own, Beside, FailInv
  <2>4. Holding(p)'
    BY <1>0, <1>1, <2>1, <2>2 DEF Holding, Stamping, Files
  <2>5. Aftermath(p)'
    BY <2>1 DEF Aftermath, Failed
  <2>6. text'[path] \in {text[path], job[p].new}
    BY <1>0, <2>2 DEF TypeOK
  <2> QED BY <1>0, <1>1, <2>1, <2>2, <2>3, <2>4, <2>5, <2>6, FailKeeps
<1>3. CASE Put(hold[p], job[p].old) /\ Fault /\ Go(p, "refused") /\ Close(p)
  <2>1. pc'[p] = "refused"
    BY <1>0, <1>3 DEF Go, Goto, TypeOK
  <2>2. ASSUME job[p].for \in {"stamp", "return"}, faults' <= 1, text'[path].body = admitted[p].body
        PROVE  text'[path].stamp = None
    <3>1. job[p].for = "stamp"
      BY <1>0, <1>3, <2>2 DEF Rewrites, Fault, FailInv
    <3>2. CASE path = hold[p]
      BY <1>0, <1>3, <3>1, <3>2, PutBytes, RewriteBytes
    <3>3. CASE path # hold[p]
      <4>1. text'[path] = text[path] /\ owner[path] # p
        BY <1>0, <1>3, <3>3, PutBytes, RewriteBytes DEF TypeOK
      <4> QED BY <1>0, <2>2, <4>1, ChargeOwns
    <3> QED BY <3>2, <3>3
  <2> QED BY <1>0, <1>1, <1>3, <2>1, <2>2, Refused
<1> QED BY <1>2, <1>3

LEMMA VerifyFail ==
    ASSUME IInv, IInv', FailInv, NEW p \in Process, Beside(p), Verify(p)
    PROVE  FailInv'
<1> USE DEF Verify
<1>0. TypeOK /\ Fine(p) /\ Rewrites(p) /\ Holding(p) /\ InCharge(p) /\ Rewriting(p) /\ pc[p] = "verify"
  BY DEF IInv, FailInv, InCharge, Rewriting
<1>1. UNCHANGED <<owner, next, source, admitted, job, hold, path>> /\ Close(p)
  OBVIOUS
<1>2. CASE UNCHANGED text /\ Succeeded(p) /\ job[p].for \in {"clear", "stamp"}
  <2>1. (job[p].for = "clear" /\ pc'[p] = "cleared") \/ (job[p].for = "stamp" /\ pc'[p] = "stamped")
    BY <1>0, <1>2 DEF Succeeded, Go, Goto, TypeOK
  <2>2. Rewrites(p)'
    BY <1>0, <1>1, <2>1 DEF Rewrites, Rewriting, Stamping, RewriteOf, Bare, Own, Beside, FailInv
  <2>3. Holding(p)'
    BY <1>0, <1>1, <1>2, <2>1, StampAssumption DEF Holding, Stamping, Close, Files, TypeOK
  <2>4. Aftermath(p)'
    BY <2>1 DEF Aftermath, Failed
  <2>5. \A f \in Files, q \in Process : flock'[f] = q => flock[f] = q
    BY <1>0, <1>1, StampAssumption DEF Close, TypeOK
  <2> QED BY <1>0, <1>1, <1>2, <2>2, <2>3, <2>4, <2>5, FailKeeps
<1>3. CASE Go(p, "refused") /\ (text' = text \/ Put(hold[p], job[p].old))
  <2>1. pc'[p] = "refused"
    BY <1>0, <1>3 DEF Go, Goto, TypeOK
  <2>2. ASSUME job[p].for \in {"stamp", "return"}, faults' <= 1, text'[path].body = admitted[p].body
        PROVE  text'[path].stamp = None
    <3>1. owner[hold[p]] = p /\ hold[p] \in Files
      BY <1>0 DEF Fine, LockOf, TypeOK
    <3>2. CASE path # hold[p]
      <4>1. owner[path] # p
        BY <1>0, <3>1, <3>2, StampAssumption DEF IInv, World, TypeOK
      <4>2. text'[path] = text[path]
        BY <1>0, <1>3, <3>2, PutBytes, RewriteBytes DEF TypeOK
      <4> QED BY <1>0, <2>2, <4>1, <4>2, ChargeOwns
    <3>3. ASSUME path = hold[p], Put(hold[p], job[p].old), job[p].for = "stamp"
          PROVE  text'[path].stamp = None
      BY <1>0, <3>3, PutBytes, RewriteBytes
    <3>4. CASE path = hold[p] /\ job[p].for = "stamp"
      <4>1. ~Succeeded(p)
        BY <1>0, <2>1, <3>4 DEF Succeeded, Go, Goto, TypeOK
      <4>2. CASE Put(hold[p], job[p].old)
        BY <3>3, <3>4, <4>2
      <4>3. CASE ~Put(hold[p], job[p].old)
        <5>1. text' = text /\ text[path] # job[p].new
          BY <3>4, <4>1, <4>3
        <5> QED BY <1>0, <2>2, <3>1, <3>4, <5>1 DEF Holding
      <4> QED BY <4>2, <4>3
    <3>5. CASE path = hold[p] /\ job[p].for = "return"
      <4>1. text' = text
        BY <3>5
      <4>2. text[path] = job[p].new
        BY <1>0, <2>2, <3>1, <3>5, <4>1 DEF Holding
      <4> QED BY <1>0, <3>5, <4>1, <4>2, RewriteBytes
    <3> QED BY <2>2, <3>2, <3>4, <3>5
  <2> QED BY <1>0, <1>1, <1>3, <2>1, <2>2, Refused
<1> QED BY <1>0, <1>2, <1>3 DEF Succeeded

\* A refusal is reported; the run ends.
LEMMA RefuseFail ==
    ASSUME IInv, IInv', FailInv, NEW p \in Process, Beside(p), Refuse(p)
    PROVE  FailInv'
<1> USE DEF Refuse
<1>0. TypeOK /\ Rewrites(p) /\ Holding(p) BY DEF IInv, FailInv
<1>1. /\ UNCHANGED <<text, owner, flock, source, admitted>> /\ Failed(p)
      /\ pc'[p] \in {"finalize", "unlock"} /\ code'[p] = 2
  BY <1>0 DEF plan, Terminate, Return, Goto, Exit, TypeOK, Failed
<1>2. Rewrites(p)' /\ ~InCharge(p)'
  BY <1>0, <1>1 DEF Rewrites, Rewriting, Stamping, InCharge, Working, Beside, FailInv
<1>3. Holding(p)'
  BY <1>0, <1>1 DEF Holding, Stamping, Files
<1> QED BY <1>1, <1>2, <1>3, FailedStill, FailQuiet

\* After the clear.
LEMMA ClearedFail ==
    ASSUME IInv, IInv', FailInv, NEW p \in Process, Beside(p), Cleared(p)
    PROVE  FailInv'
<1> USE DEF Cleared
<1>0. TypeOK /\ Fine(p) /\ Rewrites(p) /\ Holding(p) /\ InCharge(p) BY DEF IInv, FailInv, InCharge
<1>1. UNCHANGED <<text, owner, flock, next, order, admitted>>
  BY DEF plan, Beside
<1>2. CASE pc' = [pc EXCEPT ![p] = IF changed[p] THEN "commit" ELSE "push"]
  <2>1. pc'[p] \in {"commit", "push"}
    BY <1>0, <1>2 DEF TypeOK
  <2>2. Rewrites(p)' /\ Aftermath(p)'
    BY <1>0, <2>1 DEF Rewrites, Rewriting, Stamping, Beside, FailInv, Aftermath, Failed
  <2>3. Holding(p)'
    BY <1>0, <1>1, <2>1 DEF Holding, Stamping, Files
  <2> QED BY <1>0, <1>1, <2>2, <2>3, FailQuiet
<1>3. CASE UNCHANGED source /\ Go(p, "open") /\ Rewrite(p, "finalize", Bare(p), admitted[p])
  <2>1. pc'[p] = "open" /\ job'[p] = [for |-> "finalize", old |-> Bare(p), new |-> admitted[p]]
    BY <1>0, <1>3 DEF Go, Goto, Rewrite, TypeOK
  <2>2. Rewrites(p)' /\ Aftermath(p)'
    BY <1>0, <1>1, <1>3, <2>1 DEF Rewrites, Rewriting, Stamping, RewriteOf, Bare, Own, Beside, FailInv, Aftermath, Failed
  <2>3. Holding(p)'
    <3>1. ASSUME NEW f \in Files, owner[f] = p, text[f].body = admitted[p].body PROVE text[f] = Bare(p)
      <4>1. text[f].stamp = None /\ text[f] \in Text /\ admitted[p] \in Text
        BY <1>0, <3>1 DEF Fine, OwnedBy, TypeOK
      <4> QED BY <3>1, <4>1 DEF Bare, Stamped, Text
    <3> QED BY <1>0, <1>1, <2>1, <3>1 DEF Holding, Stamping, Files
  <2> QED BY <1>0, <1>1, <2>2, <2>3, FailQuiet
<1>4. CASE UNCHANGED source /\ Terminate(p, 2) /\ UNCHANGED job
  <2>1. pc'[p] = "finalize" /\ code'[p] = 2
    BY <1>0, <1>4 DEF Terminate, Goto, Exit, TypeOK
  <2>2. source'[p] = Torn /\ next'[p] <= Len(order')
    BY <1>0, <1>1, <1>4, OrderLength DEF Fine, StampsOf, Rewrites, TypeOK
  <2>3. Rewrites(p)'
    BY <1>0, <2>1 DEF Rewrites, Rewriting, Stamping, Beside, FailInv
  <2>4. Holding(p)'
    BY <1>0, <1>1, <2>1 DEF Holding, Stamping, Files
  <2> QED BY <1>0, <1>1, <2>2, <2>3, <2>4, FailedEarly, FailQuiet
<1> QED BY <1>2, <1>3, <1>4 DEF Go, Goto, Bare

\* A stage: the run works, and goes on, fails, or comes to the stamp.
LEMMA StageFail ==
    ASSUME IInv, IInv', FailInv, NEW p \in Process, Beside(p), Working(p),
           UNCHANGED <<text, owner, flock, admitted, source>>,
           \/ pc'[p] \in {"commit", "sync", "post", "push"}
           \/ pc'[p] \in {"finalize", "unlock"} /\ code'[p] # 0
           \/ pc'[p] = "open" /\ job'[p] = [for |-> "stamp", old |-> source[p], new |-> Stamped(source[p], p)]
    PROVE  FailInv'
<1>0. TypeOK /\ Fine(p) /\ Rewrites(p) /\ Holding(p) /\ InCharge(p) BY DEF IInv, FailInv, InCharge
<1>1. admitted[p] \in Text /\ source[p] = Bare(p) /\ Stamped(source[p], p) = Own(p)
  BY <1>0 DEF TypeOK, Fine, JobOf, Bare, Own, Stamped, Text
<1>2. Rewrites(p)'
  BY <1>0, <1>1 DEF Rewrites, Rewriting, Stamping, RewriteOf, Bare, Own, Beside, FailInv
<1>3. ASSUME NEW f \in Files, owner[f] = p, text[f].body = admitted[p].body
      PROVE  text[f] = Bare(p) /\ text[f].stamp = None
  <2>1. text[f].stamp = None /\ text[f] \in Text
    BY <1>0, <1>3 DEF Fine, OwnedBy, TypeOK
  <2> QED BY <1>1, <1>3, <2>1 DEF Bare, Stamped, Text
<1>4. Holding(p)'
  BY <1>0, <1>1, <1>3 DEF Holding, Stamping, Files, Working
<1>5. Aftermath(p)'
  <2>1. CASE Failed(p)'
    <3>1. ~InCharge(p)'
      BY <2>1 DEF Failed, InCharge, Working, Rewriting, Stamping
    <3>2. text[path].body = admitted[p].body => text[path].stamp = None
      BY <1>0, <1>3, ChargeOwns DEF TypeOK
    <3> QED BY <1>0, <3>1, <3>2, FailedLate DEF Beside
  <2> QED BY <2>1, NotFailed
<1> QED BY <1>0, <1>2, <1>4, <1>5, FailQuiet

LEMMA StagesFail ==
    ASSUME IInv, IInv', FailInv, NEW p \in Process, Beside(p),
           Commit(p) \/ Sync(p) \/ PostSync(p) \/ Push(p)
    PROVE  FailInv'
<1>0. TypeOK BY DEF IInv
<1>1. Working(p) /\ UNCHANGED <<text, owner, flock, admitted, source>>
  BY DEF Commit, Sync, PostSync, Push, Working, plan
<1>2. ASSUME NEW ok \in BOOLEAN, NEW to, Staged(p, ok, to)
      PROVE  (ok /\ pc'[p] = to) \/ (pc'[p] \in {"finalize", "unlock"} /\ code'[p] # 0)
  BY <1>0, <1>2 DEF Staged, Terminate, Return, Go, Goto, Exit, TypeOK
<1>3. ASSUME NEW ok \in BOOLEAN, NEW to, NEW loop, OneDone(p, ok, loop, to)
      PROVE  (ok /\ pc'[p] \in {to, loop}) \/ (pc'[p] \in {"finalize", "unlock"} /\ code'[p] # 0)
  BY <1>2, <1>3 DEF OneDone
<1>4. CASE Commit(p)
  <2>1. Staged(p, TRUE, "sync") \/ Staged(p, FALSE, "") BY <1>4 DEF Commit
  <2> QED BY <1>1, <1>2, <2>1, StageFail
<1>5. CASE Sync(p)
  <2>1. OneDone(p, TRUE, "sync", "post") \/ OneDone(p, FALSE, "", "") BY <1>5 DEF Sync
  <2> QED BY <1>1, <1>3, <2>1, StageFail
<1>6. CASE PostSync(p)
  <2>1. Staged(p, TRUE, "push") \/ Staged(p, FALSE, "") \/ Go(p, "push") BY <1>6 DEF PostSync
  <2>2. Go(p, "push") => pc'[p] = "push" BY <1>0 DEF Go, Goto, TypeOK
  <2> QED BY <1>1, <1>2, <2>1, <2>2, StageFail
<1>7. CASE Push(p)
  <2>1. OneDone(p, TRUE, "push", "open") \/ OneDone(p, FALSE, "", "") BY <1>7 DEF Push
  <2>2. job'[p] = [for |-> "stamp", old |-> source[p], new |-> Stamped(source[p], p)]
    BY <1>0, <1>7 DEF Push, Rewrite, TypeOK
  <2> QED BY <1>1, <1>3, <2>1, <2>2, StageFail
<1> QED BY <1>4, <1>5, <1>6, <1>7

\* The stamp is told of, or taken back.
LEMMA StampWrittenFail ==
    ASSUME IInv, IInv', FailInv, NEW p \in Process, Beside(p), StampWritten(p)
    PROVE  FailInv'
<1> USE DEF StampWritten
<1>0. TypeOK /\ Fine(p) /\ Rewrites(p) /\ Holding(p) /\ InCharge(p) /\ Stamping(p)
  BY DEF IInv, FailInv, InCharge, Stamping
<1>1. UNCHANGED <<text, owner, flock, admitted, source>>
  BY DEF plan
<1>2. source[p] = Bare(p) /\ job[p].new = Own(p)
  BY <1>0 DEF Fine, JobOf, Bare, Rewrites, RewriteOf
<1>3. CASE Terminate(p, 0) /\ UNCHANGED job
  <2>1. pc'[p] = "finalize" /\ code'[p] = 0
    BY <1>0, <1>3 DEF Terminate, Goto, Exit, TypeOK
  <2>2. Rewrites(p)' /\ Aftermath(p)'
    BY <1>0, <1>3, <2>1 DEF Rewrites, Rewriting, Stamping, RewriteOf, Bare, Own, Beside, FailInv, Aftermath, Failed
  <2>3. Holding(p)'
    BY <1>0, <1>1, <1>3, <2>1 DEF Holding, Stamping, Files
  <2> QED BY <1>0, <1>1, <2>2, <2>3, FailQuiet
<1>4. CASE NotAppended(p) /\ Go(p, "open") /\ Rewrite(p, "return", job[p].new, source[p])
  <2>1. pc'[p] = "open" /\ job'[p] = [for |-> "return", old |-> Own(p), new |-> Bare(p)]
    BY <1>0, <1>2, <1>4 DEF Go, Goto, Rewrite, TypeOK
  <2>2. faults' >= 1
    BY <1>4 DEF NotAppended, Fault, FailInv
  <2>3. Rewrites(p)' /\ Aftermath(p)'
    BY <1>0, <1>1, <2>1, <2>2 DEF Rewrites, Rewriting, Stamping, RewriteOf, Bare, Own, Beside, Aftermath, Failed
  <2>4. Holding(p)'
    BY <1>0, <1>1, <1>2, <2>1 DEF Holding, Stamping, Files
  <2> QED BY <1>0, <1>1, <2>3, <2>4, FailQuiet
<1> QED BY <1>3, <1>4

\* The end.
LEMMA FinalizeFail ==
    ASSUME IInv, IInv', FailInv, NEW p \in Process, Beside(p), Finalize(p)
    PROVE  FailInv'
<1> USE DEF Finalize
<1>0. TypeOK /\ Fine(p) /\ Rewrites(p) /\ Holding(p)
  BY DEF IInv, FailInv
<1>1. UNCHANGED <<text, owner, flock, admitted, source>>
  BY DEF plan
<1>2. CASE code[p] # 0
  <2>1. pc'[p] = "unlock" /\ code' = code /\ Failed(p)
    BY <1>0, <1>2 DEF NotFinal, Go, Goto, TypeOK, Failed
  <2>2. Rewrites(p)' /\ ~InCharge(p)'
    BY <1>0, <2>1 DEF Rewrites, Rewriting, Stamping, InCharge, Working, Beside, FailInv
  <2>3. Holding(p)'
    BY <1>0, <1>1, <2>1 DEF Holding, Stamping, Files
  <2> QED BY <1>1, <2>1, <2>2, <2>3, FailedStill, FailQuiet
<1>3. CASE code[p] = 0 /\ Go(p, "unlock")
  <2>1. pc'[p] = "unlock" /\ code'[p] = 0
    BY <1>0, <1>3 DEF Go, Goto, TypeOK
  <2>2. Rewrites(p)' /\ ~InCharge(p)' /\ Aftermath(p)'
    BY <1>0, <2>1 DEF Rewrites, Rewriting, Stamping, InCharge, Working, Beside, FailInv, Aftermath, Failed
  <2>3. Holding(p)'
    BY <1>0, <1>1, <2>1 DEF Holding, Stamping, Files
  <2> QED BY <1>1, <2>2, <2>3, FailQuiet
<1>4. CASE code[p] = 0 /\ NotFinal(p) /\ (Fault \/ audit[p] = "spoiled")
  <2>0. Stamping(p) /\ InCharge(p) BY <1>4 DEF Stamping, InCharge
  <2>1. source[p] = Bare(p) /\ job[p].new = Own(p)
    BY <1>0, <2>0 DEF Fine, JobOf, Bare, Rewrites, RewriteOf
  <2>2. pc'[p] = "open" /\ job'[p] = [for |-> "return", old |-> Own(p), new |-> Bare(p)]
    BY <1>0, <1>4, <2>1 DEF NotFinal, Goto, Rewrite, TypeOK
  <2>3. faults' >= 1
    BY <1>0, <1>4 DEF Fault, FailInv, Rewrites, Beside
  <2>4. Rewrites(p)' /\ Aftermath(p)'
    BY <1>0, <1>1, <2>2, <2>3 DEF Rewrites, Rewriting, Stamping, RewriteOf, Bare, Own, Beside, Aftermath, Failed
  <2>5. Holding(p)'
    BY <1>0, <1>1, <2>0, <2>1, <2>2 DEF Holding, Stamping, Files
  <2> QED BY <1>1, <2>0, <2>4, <2>5, FailQuiet
<1> QED BY <1>2, <1>3, <1>4

LEMMA EndFail ==
    ASSUME IInv, IInv', FailInv, NEW p \in Process, Beside(p), Unlock(p) \/ Destroy(p)
    PROVE  FailInv'
<1> USE DEF Unlock, Destroy
<1>0. TypeOK /\ Rewrites(p) /\ Holding(p) /\ pc[p] \in {"unlock", "destroy"} BY DEF IInv, FailInv
<1>1. /\ UNCHANGED <<text, flock, source, admitted>> /\ code' = code
      /\ pc'[p] \in {"destroy", "exit"}
  BY <1>0 DEF plan, Go, Goto, TypeOK
<1>2. \A f \in Files, q \in Process \ {p} : owner'[f] = q => owner[f] = q
  BY <1>0, StampAssumption DEF TypeOK, Released, plan
<1>3. Rewrites(p)' /\ ~InCharge(p)'
  BY <1>0, <1>1 DEF Rewrites, Rewriting, Stamping, InCharge, Working, Beside, FailInv
<1>4. Holding(p)'
  BY <1>0, <1>1 DEF Holding, Stamping, Files
<1>5. Aftermath(p)'
  <2>1. CASE code[p] # 0
    BY <1>0, <1>1, <1>3, <2>1, FailedStill DEF Failed
  <2>2. CASE code[p] = 0
    BY <1>1, <2>2 DEF Aftermath, Failed
  <2> QED BY <2>1, <2>2
<1> QED BY <1>1, <1>2, <1>3, <1>4, <1>5, FailKeeps

\* A killed run.
LEMMA KillFail ==
    ASSUME IInv, IInv', FailInv, NEW p \in Process, Kill(p)
    PROVE  FailInv'
<1> USE DEF Kill
<1>0. TypeOK /\ Rewrites(p) /\ Holding(p) /\ faults \in Nat BY DEF IInv, FailInv
<1>1. /\ pc' = [pc EXCEPT ![p] = "dead"] /\ code' = code /\ path' = path /\ order' = order
      /\ UNCHANGED <<next, admitted, source, audit, faults>>
      /\ job' = [job EXCEPT ![p] = NoJob] /\ hold' = [hold EXCEPT ![p] = 1]
      /\ flock' = [f \in Files |-> IF flock[f] = p THEN None ELSE flock[f]]
  BY DEF Go, Goto, Forget
<1>2. Beside(p)
  BY <1>0, <1>1 DEF Beside, Apart, FailInv, TypeOK
<1>3. \A f \in Files, q \in Process \ {p} :
        (owner'[f] = q => owner[f] = q) /\ (flock'[f] = q => flock[f] = q)
  BY <1>0, <1>1, StampAssumption DEF TypeOK, Released
<1>4. pc'[p] = "dead"
  BY <1>0, <1>1 DEF TypeOK
<1>5. Rewrites(p)' /\ ~InCharge(p)' /\ Aftermath(p)'
  BY <1>0, <1>1, <1>4 DEF Rewrites, Rewriting, Stamping, InCharge, Working, Aftermath, Failed
<1>6. Holding(p)'
  BY <1>0, <1>1, <1>4, StampAssumption DEF Holding, Stamping, Files, TypeOK
<1>7. /\ \A f \in Files : owner[f] # p => text'[f] = text[f]
      /\ text'[path] \in {text[path], Torn} \/ (Rewriting(p) /\ text'[path] \in {job[p].old, job[p].new})
  <2>1. CASE text' = text
    BY <2>1
  <2>2. CASE pc[p] = "write" /\ \E t \in {Torn, job[p].new} : Put(hold[p], t)
    <3>1. PICK t \in {Torn, job[p].new} : Put(hold[p], t)
      BY <2>2
    <3>2. Torn \in Text /\ Rewriting(p)
      BY <2>2, StampAssumption DEF Torn, Text, Rewriting
    <3>3. t \in Text
      BY <3>1, <3>2, RewriteBytes
    <3> QED BY <1>0, <2>2, <3>1, <3>2, <3>3, PutBytes DEF TypeOK
  <2> QED BY <2>1, <2>2
<1> QED BY <1>2, <1>3, <1>5, <1>6, <1>7, FailKeeps

-----------------------------------------------------------------------------
(* everybody else, and the theorem *)

\* Who saves the plan gives it a body that no run has.
LEMMA SaveFail ==
    ASSUME IInv, FailInv, Save
    PROVE  FailInv'
<1>0. TypeOK /\ World /\ faults \in Nat BY DEF IInv, FailInv
<1>1. /\ UNCHANGED <<owner, flock, pc, next, code, admitted, source, job, hold, audit, faults>>
      /\ saves < MaxSaves
  BY DEF Save, run
<1>2. PICK f \in Files : f = path' /\ f \in {path, saves + 2} /\ text' = [text EXCEPT ![f] = Edited]
  BY <1>0, BoundAssumption DEF Save, Put, TypeOK, Files
<1>3. text'[f] = Edited /\ (\A g \in Files \ {f} : text'[g] = text[g]) /\ Edited.body = saves + 2
  BY <1>0, <1>2 DEF TypeOK, Edited, Text
<1>4. ASSUME NEW p \in Process PROVE admitted[p].body # Edited.body
  <2>1. admitted[p].body <= saves + 1 /\ admitted[p].body \in Nat
    BY <1>0 DEF IInv, Fine, BodyOf, TypeOK, Text
  <2> QED BY <1>0, <1>3, <2>1 DEF TypeOK
<1>5. ASSUME NEW p \in Process PROVE Rewrites(p)' /\ Holding(p)' /\ Aftermath(p)'
  <2>0. Rewrites(p) /\ Holding(p) BY DEF FailInv
  <2>1. Rewrites(p)'
    BY <1>1, <2>0 DEF Rewrites, Rewriting, Stamping, RewriteOf, Bare, Own
  <2>2. \A g \in Files : text'[g].body = admitted[p].body => text'[g] = text[g]
    BY <1>3, <1>4
  <2>3. Holding(p)'
    BY <1>1, <2>0, <2>2 DEF Holding, Stamping, Files
  <2>4. Aftermath(p)'
    <3>1. text'[path'].body # admitted[p].body
      BY <1>2, <1>3, <1>4
    <3> QED BY <1>1, <3>1 DEF FailInv, Aftermath, Failed, Clean, InCharge, Rewriting, Stamping, Working
  <2> QED BY <2>1, <2>3, <2>4
<1> QED BY <1>0, <1>1, <1>5 DEF FailInv

LEMMA InitFail == Init => FailInv
<1> SUFFICES ASSUME Init PROVE FailInv OBVIOUS
<1> USE DEF Init
<1>1. ASSUME NEW p \in Process PROVE Rewrites(p) /\ Holding(p) /\ Aftermath(p)
  BY StampAssumption DEF Rewrites, Holding, Aftermath, Failed, Rewriting, Stamping
<1> QED BY <1>1 DEF FailInv

LEMMA NextFail ==
    ASSUME IInv, IInv', FailInv, [Next]_vars
    PROVE  FailInv'
<1>1. ASSUME NEW p \in Process, Step(p) PROVE FailInv'
  <2>1. Beside(p)
    BY <1>1, StepBeside
  <2> QED BY <1>1, <2>1, ReserveFail, TakeLockFail, LockTimeoutFail, AdmitFail, GatesFail, OpenFail, WriteFail,
        VerifyFail, RefuseFail, ClearedFail, StagesFail, StampWrittenFail, FinalizeFail, EndFail DEF Step
<1>2. CASE Load \/ Others \/ UNCHANGED vars
  <2>1. UNCHANGED <<path, text, owner, flock, pc, next, code, admitted, source, job, hold, audit, faults>>
    BY <1>2 DEF Load, Others, vars, plan, run, budget
  <2> QED BY <2>1 DEF FailInv, Rewrites, Holding, Aftermath, Failed, Clean, RewriteOf, Bare, Own,
                  InCharge, Rewriting, Stamping, Working
<1> QED BY <1>1, <1>2, KillFail, SaveFail DEF Next

\* A run that failed leaves no completion stamp on the plan it ran, neither its own nor the
\* one it cleared, as long as one write has failed: whatever other runs, killed or not,
\* restore, and wherever the plan is saved meanwhile.
THEOREM PlanFailed == Spec => []FailedIsUncompleted
<1>1. ASSUME IInv, FailInv PROVE FailedIsUncompleted
  BY <1>1 DEF FailInv, Aftermath, Failed, Clean, FailedIsUncompleted
<1>2. Spec => [](IInv /\ FailInv)
  <2>1. Init => IInv /\ FailInv BY InitIInv, InitFail
  <2>2. ASSUME IInv /\ FailInv, [Next]_vars PROVE IInv' /\ FailInv'
    BY <2>2, NextIInv, NextFail
  <2> QED BY <2>1, <2>2, PTL DEF Spec
<1> QED BY <1>1, <1>2, PTL

=============================================================================
