------------------------ MODULE CommitExecutionProofs ------------------------
(***************************************************************************)
(* Proofs about CommitExecution, for every plan, number of repositories,   *)
(* workers, locks of other programs and failures.                          *)
(***************************************************************************)
EXTENDS CommitExecution, FiniteSetTheorems, TLAPS

-----------------------------------------------------------------------------
(* Plans and tasks                                                         *)

LEMMA TaskShape ==
    ASSUME NEW t \in AllTasks
    PROVE  t[1] \in Repo /\ t[2] \in 1..MaxItems /\ t = <<t[1], t[2]>>
BY DEF AllTasks

LEMMA TasksAreTasks == ASSUME NEW p PROVE Tasks(p) \subseteq AllTasks
BY DEF Tasks

LEMMA PlanShape ==
    ASSUME NEW p \in Plan
    PROVE  /\ p.items \in [Repo -> Seq(Item)] /\ p.deps \in [Repo -> SUBSET Repo]
           /\ p.nested \in [Repo -> SUBSET Repo]
           /\ p.link \in [Repo -> [Path -> 0..(N + 1)]]
           /\ p.dirty \in [Repo -> SUBSET Path] /\ p.staged \in [Repo -> SUBSET Path]
           /\ p.slow \in SUBSET Repo /\ p.jobs \in Nat \ {0}
BY PlanAssumption DEF Plans

LEMMA ItemTask ==
    ASSUME NEW p \in Plan, NEW s \in Tasks(p), NEW i \in 1..Len(p.items[s[1]])
    PROVE  <<s[1], i>> \in Tasks(p)
<1>1. s \in AllTasks /\ s[1] \in Repo
  BY TasksAreTasks, TaskShape
<1>2. Len(p.items[s[1]]) <= MaxItems /\ Len(p.items[s[1]]) \in Nat
      /\ DOMAIN p.items[s[1]] = 1..Len(p.items[s[1]])
  BY <1>1, NestedAssumption, PlanShape
<1>3. i \in 1..MaxItems
  BY <1>2, CountAssumption
<1> QED
  BY <1>1, <1>2, <1>3 DEF Tasks, AllTasks

LEMMA TaskItems ==
    ASSUME NEW p \in Plan, NEW s \in Tasks(p)
    PROVE  /\ s[2] \in 1..Len(p.items[s[1]]) /\ Len(p.items[s[1]]) \in Nat
           /\ <<s[1], Len(p.items[s[1]])>> \in Tasks(p)
<1>1. s \in AllTasks /\ s[1] \in Repo
  BY TasksAreTasks, TaskShape
<1>2. Len(p.items[s[1]]) \in Nat /\ DOMAIN p.items[s[1]] = 1..Len(p.items[s[1]])
  BY <1>1, PlanShape
<1>3. s[2] \in 1..Len(p.items[s[1]])
  BY <1>2 DEF Tasks
<1> QED
  BY <1>2, <1>3, ItemTask

LEMMA FiniteTasks ==
    ASSUME NEW p
    PROVE  IsFiniteSet(Tasks(p)) /\ Cardinality(Tasks(p)) \in Nat
<1>1. IsFiniteSet(Repo) /\ IsFiniteSet(1..MaxItems)
  BY CountAssumption, FS_Interval DEF Repo
<1>2. IsFiniteSet(AllTasks)
  BY <1>1, FS_Product DEF AllTasks
<1> QED
  BY <1>2, TasksAreTasks, FS_Subset, FS_CardinalityType

-----------------------------------------------------------------------------
(* The waves                                                               *)

\* NodeLess is a strict order.
LEMMA NodeOrder ==
    ASSUME NEW s \in AllTasks, NEW t \in AllTasks, NEW u \in AllTasks
    PROVE  /\ ~NodeLess(s, s)
           /\ NodeLess(s, t) /\ NodeLess(t, u) => NodeLess(s, u)
<1>1. s[1] \in Int /\ s[2] \in Int /\ t[1] \in Int /\ t[2] \in Int /\ u[1] \in Int /\ u[2] \in Int
  BY TaskShape, CountAssumption DEF Repo
<1> QED
  BY <1>1 DEF NodeLess

LEMMA RankLess ==
    ASSUME NEW p, NEW s \in Tasks(p), NEW t \in Tasks(p), NodeLess(s, t)
    PROVE  Rank(p, s) \in Nat /\ Rank(p, t) \in Nat /\ Rank(p, s) < Rank(p, t)
<1> DEFINE S == {u \in Tasks(p) : NodeLess(u, s)}
           T == {u \in Tasks(p) : NodeLess(u, t)}
<1>1. S \subseteq T /\ s \in T /\ s \notin S
  BY NodeOrder, TasksAreTasks
<1>2. IsFiniteSet(T) /\ IsFiniteSet(S)
  BY FiniteTasks, FS_Subset
<1> HIDE DEF S, T
<1>3. Cardinality(S) <= Cardinality(T) /\ Cardinality(S) # Cardinality(T)
  BY <1>1, <1>2, FS_Subset
<1>4. Cardinality(S) \in Nat /\ Cardinality(T) \in Nat
  BY <1>2, FS_CardinalityType
<1>5. Cardinality(S) < Cardinality(T)
  BY <1>3, <1>4
<1> QED
  BY <1>4, <1>5 DEF Rank, S, T

LEMMA RankBound ==
    ASSUME NEW p, NEW t \in Tasks(p)
    PROVE  Rank(p, t) \in Nat /\ Rank(p, t) < Cardinality(Tasks(p))
<1> DEFINE T == {u \in Tasks(p) : NodeLess(u, t)}
<1>1. T \subseteq Tasks(p) /\ t \notin T
  BY NodeOrder, TasksAreTasks
<1> HIDE DEF T
<1>2. /\ IsFiniteSet(T) /\ Cardinality(T) <= Cardinality(Tasks(p))
      /\ Cardinality(T) # Cardinality(Tasks(p))
  BY <1>1, FiniteTasks, FS_Subset
<1>3. Cardinality(T) \in Nat /\ Cardinality(Tasks(p)) \in Nat
  BY <1>2, FiniteTasks, FS_CardinalityType
<1>4. Cardinality(T) < Cardinality(Tasks(p))
  BY <1>2, <1>3
<1> QED
  BY <1>3, <1>4 DEF Rank, T

\* What is planned task by task is planned once, all of it, and in order.
LEMMA FallbackWaves ==
    ASSUME NEW p
    PROVE  /\ Fallback(p) \in Seq(SUBSET Tasks(p))
           /\ \A j, k \in DOMAIN Fallback(p) : j # k => Fallback(p)[j] \cap Fallback(p)[k] = {}
           /\ \A t \in Tasks(p) : \E k \in DOMAIN Fallback(p) : t \in Fallback(p)[k]
           /\ \A k \in DOMAIN Fallback(p) : \A t \in Fallback(p)[k] : \A s \in Tasks(p) :
                 NodeLess(s, t) => \E j \in 1..(k - 1) : s \in Fallback(p)[j]
<1> DEFINE n == Cardinality(Tasks(p))
           F == Fallback(p)
<1>1. n \in Nat
  BY FiniteTasks
<1>2. /\ F = [k \in 1..n |-> {t \in Tasks(p) : Rank(p, t) = k - 1}]
      /\ DOMAIN F = 1..n
  BY DEF Fallback
<1>3. F \in Seq(SUBSET Tasks(p))
  BY <1>1, <1>2
<1>4. \A t \in Tasks(p) : Rank(p, t) + 1 \in 1..n /\ t \in F[Rank(p, t) + 1]
  BY <1>1, <1>2, RankBound
<1>5. \A k \in 1..n : \A t \in F[k] : t \in Tasks(p) /\ k = Rank(p, t) + 1
  BY <1>1, <1>2, RankBound
<1>6. ASSUME NEW k \in DOMAIN F, NEW t \in F[k], NEW s \in Tasks(p), NodeLess(s, t)
      PROVE  \E j \in 1..(k - 1) : s \in F[j]
  <2>1. t \in Tasks(p) /\ k = Rank(p, t) + 1
    BY <1>2, <1>5, <1>6
  <2>2. Rank(p, s) + 1 \in 1..(k - 1)
    BY <1>6, <2>1, RankLess
  <2> QED
    BY <1>4, <2>2
<1>7. \A j, k \in DOMAIN F : j # k => F[j] \cap F[k] = {}
  BY <1>2, <1>5
<1>8. \A t \in Tasks(p) : \E k \in DOMAIN F : t \in F[k]
  BY <1>2, <1>4
<1> QED
  BY <1>3, <1>6, <1>7, <1>8

-----------------------------------------------------------------------------
(* Types                                                                   *)

LEMMA WorkType ==
    ASSUME TypeOK, NEW r \in Repo, NEW f \in Path
    PROVE  Work(r, f) \in Nat
<1>1. plan.link[r][f] \in 0..(N + 1) /\ N \in Nat
  BY PlanShape, CountAssumption DEF TypeOK
<1>2. CASE plan.link[r][f] \in Repo
  <2>1. log[plan.link[r][f]] \in Seq(Entry)
    BY <1>2 DEF TypeOK
  <2> QED
    BY <1>1, <1>2, <2>1 DEF Work, Repo, Regular, Unregistered
<1> QED
  BY <1>1, <1>2 DEF Work, Repo, Regular, Unregistered

LEMMA TaskTypes ==
    ASSUME TypeOK, NEW t \in AllTasks
    PROVE  /\ Here(t) \in Repo /\ t[2] \in 1..MaxItems /\ Here(t) = t[1]
           /\ thread[t] \in Places /\ log[Here(t)] \in Seq(Entry) /\ Len(log[Here(t)]) \in Nat
           /\ index[Here(t)] \in [Path -> Nat] /\ head[Here(t)] \in [Path -> Nat]
           /\ lock[Here(t)] \in {"free", "git", "dead"} /\ theirs[Here(t)] \in SUBSET Path
           /\ t # NoTask
<1>1. Here(t) \in Repo /\ t[2] \in 1..MaxItems /\ Here(t) = t[1]
  BY TaskShape DEF Here
<1>2. t # NoTask
  BY <1>1 DEF NoTask, Repo, Here
<1> QED
  BY <1>1, <1>2 DEF TypeOK

LEMMA InitTypes == Init => TypeOK
<1> SUFFICES ASSUME Init PROVE TypeOK
  OBVIOUS
<1> USE DEF Init
<1>1. /\ plan \in Plan /\ pc = "plan" /\ wave = 0 /\ todo = {}
      /\ waves \in Seq(SUBSET Tasks(plan)) /\ active \in Seq(Tasks(plan)) /\ Len(waves) = 0
  OBVIOUS
<1>2. /\ thread \in [AllTasks -> Places] /\ retried \in [AllTasks -> BOOLEAN]
      /\ result \in [AllTasks -> {"none", "committed", "skipped", "failed"}]
      /\ events \in [AllTasks -> Seq(Nat)]
  BY DEF Places
<1>3. /\ head \in [Repo -> [Path -> Nat]] /\ index \in [Repo -> [Path -> Nat]]
      /\ log \in [Repo -> Seq(Entry)] /\ theirs \in [Repo -> SUBSET Path]
  OBVIOUS
<1>4. /\ lock \in [Repo -> {"free", "git", "dead"}]
      /\ late \in [Repo -> BOOLEAN] /\ old \in [Repo -> BOOLEAN]
      /\ recovery = "none" /\ owner = NoTask
      /\ foreign = 0 /\ faults = 0 /\ killed = {}
  OBVIOUS
<1>5. psFailed \in BOOLEAN
  BY Zenon
<1> HIDE DEF Init
<1> QED
  BY <1>1, <1>2, <1>3, <1>4, <1>5 DEF TypeOK

\* What a step of a worker leaves alone, and where it can lead.
LEMMA WorkerStep ==
    ASSUME TypeOK, NEW t \in AllTasks, Worker(t)
    PROVE  /\ UNCHANGED mainVars /\ Live(t)
           /\ \E x \in Places \ {"none"} : thread' = [thread EXCEPT ![t] = x]
<1> USE DEF Live, Places, Step, Return, GiveUp, LockFailure
<1>1. CASE CheckScope(t) BY <1>1 DEF CheckScope
<1>2. CASE Preflight(t) BY <1>2 DEF Preflight
<1>3. CASE Reset(t) BY <1>3 DEF Reset
<1>4. CASE Add(t) BY <1>4 DEF Add
<1>5. CASE Commit(t) BY <1>5 DEF Commit
<1>6. CASE Enter(t) BY <1>6 DEF Enter
<1>7. CASE Probe(t) BY <1>7 DEF Probe
<1>8. CASE Diagnose(t) BY <1>8 DEF Diagnose
<1>9. CASE RemoveLock(t) BY <1>9 DEF RemoveLock
<1>10. CASE Converge(t) BY <1>10 DEF Converge
<1> QED
  BY <1>1, <1>2, <1>3, <1>4, <1>5, <1>6, <1>7, <1>8, <1>9, <1>10 DEF Worker

\* Only a commit says "committed", moves a branch, or is killed.
LEMMA QuietStep ==
    ASSUME TypeOK, NEW t \in AllTasks, Worker(t), ~Commit(t)
    PROVE  /\ UNCHANGED <<head, log, killed>>
           /\ \/ result' = result /\ thread'[t] # "done"
              \/ \E x \in {"skipped", "failed"} : result' = [result EXCEPT ![t] = x]
<1> USE DEF TypeOK, Step, Return, GiveUp, LockFailure, countVars, gitVars, recoveryVars, taskVars
<1>1. CASE CheckScope(t) BY <1>1 DEF CheckScope
<1>2. CASE Preflight(t) BY <1>2 DEF Preflight
<1>3. CASE Reset(t) BY <1>3 DEF Reset
<1>4. CASE Add(t) BY <1>4 DEF Add
<1>6. CASE Enter(t) BY <1>6 DEF Enter
<1>7. CASE Probe(t) BY <1>7 DEF Probe
<1>8. CASE Diagnose(t) BY <1>8 DEF Diagnose
<1>9. CASE RemoveLock(t) BY <1>9 DEF RemoveLock
<1>10. CASE Converge(t) BY <1>10 DEF Converge
<1> QED
  BY <1>1, <1>2, <1>3, <1>4, <1>6, <1>7, <1>8, <1>9, <1>10 DEF Worker

LEMMA WorkerTypes ==
    ASSUME TypeOK, NEW t \in AllTasks, Worker(t)
    PROVE  TypeOK'
<1> DEFINE r == Here(t)
<1>1. /\ r \in Repo /\ index[r] \in [Path -> Nat] /\ head[r] \in [Path -> Nat]
      /\ t[2] \in 1..MaxItems /\ theirs[r] \in SUBSET Path /\ log[r] \in Seq(Entry)
  BY TaskTypes
<1>2. \A f \in Path : Work(r, f) \in Nat
  BY <1>1, WorkType
<1>3. /\ plan' = plan /\ waves' = waves /\ pc' = pc /\ wave' = wave /\ todo' = todo
      /\ active' = active /\ events' = events /\ thread' \in [AllTasks -> Places]
  BY WorkerStep DEF mainVars, TypeOK
<1>4. MaxFault(plan) \in Nat
  BY BoundAssumption DEF TypeOK
<1> DEFINE Rest == /\ retried' \in [AllTasks -> BOOLEAN]
                   /\ result' \in [AllTasks -> {"none", "committed", "skipped", "failed"}]
                   /\ head' \in [Repo -> [Path -> Nat]] /\ index' \in [Repo -> [Path -> Nat]]
                   /\ log' \in [Repo -> Seq(Entry)]
                   /\ lock' \in [Repo -> {"free", "git", "dead"}]
                   /\ late' \in [Repo -> BOOLEAN] /\ old' \in [Repo -> BOOLEAN]
                   /\ recovery' \in {"none", "failed", "succeeded"}
                   /\ owner' \in AllTasks \cup {NoTask}
                   /\ theirs' \in [Repo -> SUBSET Path]
                   /\ foreign' \in Nat /\ faults' \in Nat /\ killed' \subseteq AllTasks
                   /\ psFailed' \in BOOLEAN
<1>5. SUFFICES Rest
  BY <1>3, <1>5 DEF TypeOK
<1> USE DEF TypeOK, Step, Return, GiveUp, LockFailure, countVars, gitVars, recoveryVars, taskVars,
            lockVars
<1>11. CASE CheckScope(t)
  BY <1>1, <1>11 DEF CheckScope
<1>12. CASE Preflight(t)
  BY <1>1, <1>12 DEF Preflight
<1>13. CASE Reset(t)
  <2> DEFINE of == IF ItemOf(t).include = {} THEN Path ELSE ItemOf(t).include
             g == [f \in Path |-> IF f \in of THEN head[r][f] ELSE index[r][f]]
  <2>0. g \in [Path -> Nat]
    BY <1>1
  <2>1. index' = [index EXCEPT ![r] = g] \/ index' = index
    BY <1>1, <1>13 DEF Reset
  <2> HIDE DEF g, of
  <2>2. index' \in [Repo -> [Path -> Nat]]
    BY <1>1, <2>0, <2>1
  <2> QED
    BY <2>2, <1>13 DEF Reset
<1>14. CASE Add(t)
  <2> DEFINE of == IF NeedsPlanStaging(t) THEN Pathspec(t) ELSE Path
             g == [f \in Path |-> IF f \in of THEN Work(r, f) ELSE index[r][f]]
  <2>0. g \in [Path -> Nat]
    BY <1>1, <1>2
  <2>1. index' = [index EXCEPT ![r] = g] \/ index' = index
    BY <1>1, <1>14 DEF Add
  <2> HIDE DEF g, of
  <2>2. index' \in [Repo -> [Path -> Nat]]
    BY <1>1, <2>0, <2>1
  <2> QED
    BY <2>2, <1>14 DEF Add
<1>15. CASE Commit(t)
  <2>1. head' \in [Repo -> [Path -> Nat]]
    BY <1>1, <1>15 DEF Commit, MoveBranch
  <2>2. [item |-> t[2], paths |-> Staged(r), theirs |-> theirs[r]] \in Entry
    BY <1>1 DEF Entry, Staged
  <2> DEFINE e == [item |-> t[2], paths |-> Staged(r), theirs |-> theirs[r]]
  <2>0. log' = [log EXCEPT ![r] = Append(log[r], e)] \/ log' = log
    BY <1>1, <1>15 DEF Commit, MoveBranch
  <2> HIDE DEF e
  <2>6. Append(log[r], e) \in Seq(Entry)
    BY <1>1, <2>2 DEF e
  <2>3. log' \in [Repo -> Seq(Entry)]
    BY <1>1, <2>0, <2>6
  <2>7. /\ lock' = lock \/ lock' = [lock EXCEPT ![r] = "dead"]
        /\ old' = old \/ old' = [old EXCEPT ![r] = FALSE]
        /\ foreign' = foreign
        /\ faults' = faults \/ faults' = faults + 1
        /\ killed' = killed \/ killed' = killed \cup {t}
    BY <1>15 DEF Commit
  <2>8. psFailed' \in BOOLEAN
    BY <1>15 DEF Commit
  <2>4. /\ lock' \in [Repo -> {"free", "git", "dead"}] /\ old' \in [Repo -> BOOLEAN]
        /\ foreign' \in Nat
    BY <1>1, <2>7
  <2>9. faults' \in Nat
    BY <2>7
  <2>10. killed' \subseteq AllTasks
    BY <2>7
  <2>5. result' \in [AllTasks -> {"none", "committed", "skipped", "failed"}]
    BY <1>15 DEF Commit
  <2> QED
    BY <2>1, <2>3, <2>4, <2>5, <2>8, <2>9, <2>10, <1>15 DEF Commit
<1>16. CASE Enter(t)
  BY <1>16 DEF Enter
<1>17. CASE Probe(t)
  <2>1. /\ foreign' = foreign /\ killed' = killed
        /\ faults' = faults \/ faults' = faults + 1
        /\ late' = [q \in Repo |-> FALSE]
        /\ UNCHANGED <<gitVars, lock, old, theirs, retried, recovery>>
        /\ owner' \in {owner, NoTask}
        /\ result' = result \/ result' = [result EXCEPT ![t] = "failed"]
    BY <1>17 DEF Probe
  <2>2. psFailed' \in BOOLEAN
    BY <1>17 DEF Probe
  <2>3. /\ foreign' \in Nat /\ killed' \subseteq AllTasks
        /\ owner' \in AllTasks \cup {NoTask}
        /\ result' \in [AllTasks -> {"none", "committed", "skipped", "failed"}]
    BY <2>1
  <2>5. faults' \in Nat
    BY <2>1
  <2>4. /\ late' \in [Repo -> BOOLEAN] /\ old' \in [Repo -> BOOLEAN]
        /\ retried' \in [AllTasks -> BOOLEAN]
    BY <2>1
  <2> QED
    BY <2>1, <2>2, <2>3, <2>4, <2>5
<1>18. CASE Diagnose(t)
  BY <1>18 DEF Diagnose
<1>19. CASE RemoveLock(t)
  BY <1>1, <1>19 DEF RemoveLock
<1>20. CASE Converge(t)
  BY <1>20 DEF Converge
<1> QED
  BY <1>11, <1>12, <1>13, <1>14, <1>15, <1>16, <1>17, <1>18, <1>19, <1>20 DEF Worker

LEMMA OthersTypes ==
    ASSUME TypeOK, NEW r \in Repo, Take(r) \/ Release(r) \/ Die(r) \/ Age(r)
    PROVE  TypeOK'
<1> USE DEF mainVars, taskVars, gitVars, recoveryVars, countVars
<1>1. /\ UNCHANGED <<plan, waves, pc, wave, todo, active, events, thread, retried, result>>
      /\ UNCHANGED <<head, log, recovery, owner, faults, killed, psFailed>>
  BY DEF Take, Release, Die, Age
<1>2. /\ lock' \in [Repo -> {"free", "git", "dead"}] /\ late' \in [Repo -> BOOLEAN]
      /\ old' \in [Repo -> BOOLEAN]
  BY DEF TypeOK, Take, Release, Die, Age
<1>3. foreign' \in Nat
  BY DEF TypeOK, Take, Release, Die, Age
<1>4. index' \in [Repo -> [Path -> Nat]] /\ theirs' \in [Repo -> SUBSET Path]
  <2>1. CASE UNCHANGED <<index, theirs>>
    BY <2>1 DEF TypeOK
  <2>2. CASE \E f \in Path : /\ index' = [index EXCEPT ![r][f] = 3]
                             /\ theirs' = [theirs EXCEPT ![r] = @ \cup {f}]
    BY <2>2 DEF TypeOK
  <2> QED
    BY <2>1, <2>2 DEF Take, Release, Die, Age
<1> QED
  BY <1>1, <1>2, <1>3, <1>4 DEF TypeOK

LEMMA PlanWaveTypes == TypeOK /\ PlanWave => TypeOK'
<1> SUFFICES ASSUME TypeOK, PlanWave PROVE TypeOK'
  OBVIOUS
<1>1. ReadyTasks \subseteq Tasks(plan)
  BY DEF ReadyTasks
<1>2. waves' \in Seq(SUBSET Tasks(plan)) /\ Len(waves') = Len(waves) + 1
  BY <1>1 DEF PlanWave, TypeOK
<1>3. UNCHANGED <<plan, pc, wave, todo, active, events>>
  BY DEF PlanWave
<1>4. wave' \in 0..Len(waves')
  BY <1>2, <1>3 DEF TypeOK
<1> QED
  BY <1>2, <1>3, <1>4 DEF PlanWave, TypeOK, taskVars, gitVars, lockVars, recoveryVars, countVars

LEMMA PlanDoneTypes == TypeOK /\ RunInv /\ PlanDone => TypeOK'
<1> SUFFICES ASSUME TypeOK, RunInv, PlanDone PROVE TypeOK'
  OBVIOUS
<1>1. waves' \in Seq(SUBSET Tasks(plan))
  BY FallbackWaves DEF PlanDone, TypeOK
<1>2. UNCHANGED <<plan, wave, todo, active, events>> /\ pc' = "wave" /\ wave = 0
  BY DEF PlanDone, RunInv
<1>3. wave' \in 0..Len(waves')
  BY <1>1, <1>2
<1> QED
  BY <1>1, <1>2, <1>3 DEF PlanDone, TypeOK, taskVars, gitVars, lockVars, recoveryVars, countVars

LEMMA StartTypes == TypeOK /\ StartWave => TypeOK'
<1> SUFFICES ASSUME TypeOK, StartWave PROVE TypeOK'
  OBVIOUS
<1>1. wave' \in 1..Len(waves) /\ waves[wave'] \in SUBSET Tasks(plan)
  BY DEF StartWave, TypeOK
<1> QED
  BY <1>1 DEF StartWave, TypeOK, taskVars, gitVars, lockVars, recoveryVars, countVars

LEMMA SpawnTypes ==
    ASSUME TypeOK, NEW t \in AllTasks, Spawn(t)
    PROVE  TypeOK'
<1>1. t \in Tasks(plan) /\ active' \in Seq(Tasks(plan)) /\ todo' \subseteq Tasks(plan)
  BY DEF Spawn, TypeOK
<1>2. thread' \in [AllTasks -> Places]
  BY DEF Spawn, TypeOK, Places
<1>3. <<Len(log[Here(t)])>> \in Seq(Nat)
  BY TaskTypes
<1>4. events' \in [AllTasks -> Seq(Nat)]
  BY <1>3 DEF Spawn, TypeOK
<1> QED
  BY <1>1, <1>2, <1>4 DEF Spawn, TypeOK, gitVars, lockVars, recoveryVars, countVars

LEMMA HarvestTypes == TypeOK /\ Harvest => TypeOK'
<1> SUFFICES ASSUME TypeOK, Harvest PROVE TypeOK'
  OBVIOUS
<1>1. active' \in Seq(Tasks(plan)) /\ pc' \in {"run", "audit"}
  BY DEF Harvest, TypeOK
<1> QED
  BY <1>1 DEF Harvest, TypeOK, taskVars, gitVars, lockVars, recoveryVars, countVars

LEMMA AppendTypes ==
    ASSUME TypeOK, NEW t \in AllTasks, AppendEvent(t)
    PROVE  TypeOK'
<1>1. events[t] \in Seq(Nat) /\ Len(log[Here(t)]) \in Nat
  BY TaskTypes DEF TypeOK
<1>2. Append(events[t], Len(log[Here(t)])) \in Seq(Nat)
  BY <1>1
<1>3. events' \in [AllTasks -> Seq(Nat)] /\ pc' \in {"wave", "run", "audit", "failed"}
  BY <1>2 DEF AppendEvent, TypeOK
<1>4. faults' \in Nat /\ UNCHANGED <<foreign, killed, psFailed>>
  BY DEF AppendEvent, TypeOK, countVars
<1> QED
  BY <1>3, <1>4 DEF AppendEvent, TypeOK, taskVars, gitVars, lockVars, recoveryVars

LEMMA NextTypes == TypeOK /\ RunInv /\ [Next]_vars => TypeOK'
<1> SUFFICES ASSUME TypeOK, RunInv, [Next]_vars PROVE TypeOK'
  OBVIOUS
<1>1. CASE Main
  <2>1. CASE Finish
    BY <2>1 DEF Finish, TypeOK, taskVars, gitVars, lockVars, recoveryVars, countVars
  <2> QED
    BY <1>1, <2>1, PlanWaveTypes, PlanDoneTypes, StartTypes, SpawnTypes, HarvestTypes,
       AppendTypes DEF Main
<1>2. CASE UNCHANGED vars
  BY <1>2 DEF vars, TypeOK, mainVars, taskVars, gitVars, lockVars, recoveryVars, countVars
<1> QED
  BY <1>1, <1>2, WorkerTypes, OthersTypes DEF Next, Others, Ended

-----------------------------------------------------------------------------
(* The plan: every wave needs earlier ones only                            *)

\* What precedes a task is a direct predecessor of it, or precedes one.
LEMMA Predecessor ==
    ASSUME plan \in Plan, NEW s \in Tasks(plan), NEW t \in Tasks(plan), Precedes(s, t)
    PROVE  \E u \in Tasks(plan) : Edge(plan, u, t) /\ (s = u \/ Precedes(s, u))
<1>1. /\ s \in AllTasks /\ t \in AllTasks /\ s[1] \in Repo /\ t[1] \in Repo
      /\ s = <<s[1], s[2]>> /\ t = <<t[1], t[2]>>
  BY TasksAreTasks, TaskShape
<1>2. /\ s[2] \in 1..Len(plan.items[s[1]]) /\ Len(plan.items[s[1]]) \in Nat
      /\ t[2] \in 1..Len(plan.items[t[1]]) /\ Len(plan.items[t[1]]) \in Nat
      /\ <<s[1], Len(plan.items[s[1]])>> \in Tasks(plan)
  BY TaskItems
<1>3. CASE t[2] > 1
  <2> DEFINE u == <<t[1], t[2] - 1>>
  <2>1. t[2] - 1 \in 1..Len(plan.items[t[1]])
    BY <1>2, <1>3
  <2>2. u \in Tasks(plan)
    BY <2>1, ItemTask
  <2>3. Edge(plan, u, t)
    BY <1>2 DEF Edge
  <2>4. CASE s[1] = t[1] /\ s[2] < t[2]
    <3>1. s[2] = t[2] - 1 \/ s[2] < t[2] - 1
      BY <1>2, <2>4
    <3> QED
      BY <1>1, <2>2, <2>3, <2>4, <3>1 DEF Precedes, Here
  <2>5. CASE ~(s[1] = t[1] /\ s[2] < t[2])
    BY <2>2, <2>3, <2>5 DEF Precedes, Here
  <2> QED
    BY <2>4, <2>5
<1>4. CASE ~(t[2] > 1)
  <2> DEFINE u == <<s[1], Len(plan.items[s[1]])>>
  <2>1. t[2] = 1
    BY <1>2, <1>4
  <2>2. s[1] # t[1] /\ (t[1] \in plan.deps[s[1]] \/ s[1] \in plan.nested[t[1]])
    <3>1. ~(Here(s) = Here(t) /\ s[2] < t[2])
      BY <1>2, <2>1
    <3>2. s[1] \in plan.nested[t[1]] => s[1] < t[1]
      BY <1>1, NestedAssumption
    <3> QED
      BY <1>1, <3>1, <3>2 DEF Precedes, Here, Repo
  <2>3. Edge(plan, u, t)
    BY <2>1, <2>2 DEF Edge
  <2>4. s = u \/ Precedes(s, u)
    BY <1>1, <1>2 DEF Precedes, Here
  <2> QED
    BY <1>2, <2>3, <2>4
<1> QED
  BY <1>3, <1>4

LEMMA ReadyFollows ==
    ASSUME TypeOK, PlanInv, NEW t \in ReadyTasks, NEW s \in Tasks(plan), Precedes(s, t)
    PROVE  s \in Planned
<1>1. t \in Tasks(plan) /\ \A u \in Tasks(plan) : Edge(plan, u, t) => u \in Planned
  BY DEF ReadyTasks
<1>2. PICK u \in Tasks(plan) : Edge(plan, u, t) /\ (s = u \/ Precedes(s, u))
  BY <1>1, Predecessor DEF TypeOK
<1>3. u \in Planned
  BY <1>1, <1>2
<1>4. PICK k \in DOMAIN waves : u \in waves[k]
  BY <1>3 DEF Planned
<1>5. Precedes(s, u) => \E j \in 1..(k - 1) : s \in waves[j]
  BY <1>4 DEF PlanInv
<1>6. \A j \in 1..(k - 1) : j \in DOMAIN waves
  BY <1>4 DEF TypeOK
<1> QED
  BY <1>2, <1>3, <1>5, <1>6 DEF Planned

LEMMA PlanWavePlan == TypeOK /\ PlanInv /\ PlanWave => PlanInv'
<1> SUFFICES ASSUME TypeOK, PlanInv, PlanWave PROVE PlanInv'
  OBVIOUS
<1> DEFINE n == Len(waves)
<1>1. /\ n \in Nat /\ DOMAIN waves = 1..n /\ DOMAIN waves' = 1..(n + 1)
      /\ waves'[n + 1] = ReadyTasks /\ \A k \in 1..n : waves'[k] = waves[k]
  BY DEF PlanWave, TypeOK
<1>2. plan' = plan /\ pc' = "plan"
  BY DEF PlanWave
<1>3. \A k \in 1..n : ReadyTasks \cap waves[k] = {}
  BY <1>1 DEF ReadyTasks, Planned
<1>4. \A j, k \in DOMAIN waves' : j # k => waves'[j] \cap waves'[k] = {}
  BY <1>1, <1>3 DEF PlanInv
<1>5. ASSUME NEW k \in DOMAIN waves', NEW t \in waves'[k], NEW s \in Tasks(plan), Precedes(s, t)
      PROVE  \E j \in 1..(k - 1) : s \in waves'[j]
  <2>1. CASE k \in 1..n
    <3>1. PICK j \in 1..(k - 1) : s \in waves[j]
      BY <1>1, <1>5, <2>1 DEF PlanInv
    <3> QED
      BY <1>1, <2>1, <3>1
  <2>2. CASE k = n + 1
    <3>1. s \in Planned
      BY <1>1, <1>5, <2>2, ReadyFollows
    <3>2. PICK j \in 1..n : s \in waves[j]
      BY <1>1, <3>1 DEF Planned
    <3> QED
      BY <1>1, <2>2, <3>2
  <2> QED
    BY <1>1, <2>1, <2>2
<1> QED
  BY <1>2, <1>4, <1>5 DEF PlanInv, Precedes, Here

\* What cannot be planned waits for itself.
LEMMA LeftIsCircular ==
    ASSUME TypeOK, PlanDone, Planned # Tasks(plan)
    PROVE  Circular(plan)
<1> DEFINE S == Tasks(plan) \ Planned
<1>1. Planned \subseteq Tasks(plan)
  BY DEF Planned, TypeOK
<1>2. S # {} /\ S \in SUBSET Tasks(plan)
  BY <1>1
<1>3. ASSUME NEW t \in S PROVE \E s \in S : Edge(plan, s, t)
  BY DEF PlanDone, ReadyTasks
<1> QED
  BY <1>2, <1>3 DEF Circular

LEMMA PlanDonePlan == TypeOK /\ PlanInv /\ PlanDone => PlanInv'
<1> SUFFICES ASSUME TypeOK, PlanInv, PlanDone PROVE PlanInv'
  OBVIOUS
<1>1. plan' = plan /\ pc' = "wave"
  BY DEF PlanDone
<1>2. CASE Planned = Tasks(plan)
  <2>1. waves' = waves
    BY <1>2 DEF PlanDone
  <2> QED
    BY <1>1, <1>2, <2>1 DEF PlanInv, Precedes, Here, Planned
<1>3. CASE Planned # Tasks(plan)
  <2> DEFINE F == Fallback(plan)
  <2>1. waves' = F /\ Circular(plan)
    BY <1>3, LeftIsCircular DEF PlanDone
  <2>2. /\ F \in Seq(SUBSET Tasks(plan))
        /\ \A j, k \in DOMAIN F : j # k => F[j] \cap F[k] = {}
        /\ \A t \in Tasks(plan) : \E k \in DOMAIN F : t \in F[k]
        /\ \A k \in DOMAIN F : \A t \in F[k] : \A s \in Tasks(plan) :
              NodeLess(s, t) => \E j \in 1..(k - 1) : s \in F[j]
    BY FallbackWaves
  <2>3. ASSUME NEW k \in DOMAIN F, NEW t \in F[k], NEW s \in Tasks(plan), Precedes(s, t)
        PROVE  NodeLess(s, t)
    <3>1. t \in Tasks(plan)
      BY <2>2, <2>3
    <3>2. s[1] \in Repo /\ t[1] \in Repo
      BY <3>1, TasksAreTasks, TaskShape
    <3> QED
      BY <2>1, <2>3, <3>2, NestedAssumption DEF Precedes, Here, NodeLess, TypeOK
  <2> HIDE DEF F
  <2>4. UNION {F[k] : k \in DOMAIN F} = Tasks(plan)
    BY <2>2
  <2> QED
    BY <1>1, <2>1, <2>2, <2>3, <2>4 DEF PlanInv, Precedes, Here, Planned
<1> QED
  BY <1>2, <1>3

\* Nothing else changes the plan.
LEMMA PlanStays ==
    ASSUME TypeOK, [Next]_vars, ~PlanWave, ~PlanDone
    PROVE  plan' = plan /\ waves' = waves /\ (pc' = "plan" <=> pc = "plan")
<1>1. CASE Main
  BY <1>1 DEF Main, StartWave, Spawn, Harvest, AppendEvent, Finish
<1>2. CASE \E t \in AllTasks : Worker(t)
  BY <1>2, WorkerStep DEF mainVars
<1>3. CASE Others
  BY <1>3 DEF Others, Take, Release, Die, Age, mainVars
<1>4. CASE UNCHANGED vars
  BY <1>4 DEF vars, mainVars
<1> QED
  BY <1>1, <1>2, <1>3, <1>4 DEF Next, Ended

LEMMA NextPlan == TypeOK /\ PlanInv /\ [Next]_vars => PlanInv'
<1> SUFFICES ASSUME TypeOK, PlanInv, [Next]_vars, ~PlanWave, ~PlanDone PROVE PlanInv'
  BY PlanWavePlan, PlanDonePlan
<1> QED
  BY PlanStays DEF PlanInv, Precedes, Here, Planned

-----------------------------------------------------------------------------
(* The run: where tasks are                                                *)

LEMMA AppendFacts ==
    ASSUME NEW S, NEW s \in Seq(S), NEW x \in S
    PROVE  /\ Append(s, x) \in Seq(S) /\ Len(s) \in Nat /\ Len(Append(s, x)) = Len(s) + 1
           /\ Append(s, x)[Len(s) + 1] = x
           /\ \A i \in 1..Len(s) : Append(s, x)[i] = s[i]
OBVIOUS

LEMMA SecondOf ==
    ASSUME NEW S, NEW e \in Seq(S), NEW n \in S
    PROVE  Len(e) = 1 =>
              Len(Append(e, n)) = 2 /\ Append(e, n)[1] = e[1] /\ Append(e, n)[2] = n
<1>1. /\ Len(Append(e, n)) = Len(e) + 1 /\ Append(e, n)[Len(e) + 1] = n
      /\ \A i \in 1..Len(e) : Append(e, n)[i] = e[i]
  OBVIOUS
<1> QED
  BY <1>1

\* The event of a task gets its second number.
LEMMA SecondEvent ==
    ASSUME NEW e \in Seq(Nat), Len(e) = 1, NEW n \in Nat
    PROVE  Len(Append(e, n)) = 2 /\ Append(e, n)[1] = e[1] /\ Append(e, n)[2] = n
BY SecondOf

LEMMA LiveHere ==
    ASSUME TypeOK, RunInv, NEW t \in AllTasks, Live(t)
    PROVE  /\ pc = "run" /\ t \in waves[wave] /\ wave \in DOMAIN waves
           /\ t \in Tasks(plan) /\ t \notin todo
<1>1. PICK i \in DOMAIN active : active[i] = t
  BY DEF RunInv
<1>2. pc = "run" /\ t \in waves[wave]
  BY <1>1 DEF RunInv, TypeOK
<1>3. wave \in DOMAIN waves
  BY <1>2 DEF RunInv, InWave, TypeOK
<1>4. waves[wave] \subseteq Tasks(plan)
  BY <1>3 DEF TypeOK
<1> QED
  BY <1>2, <1>3, <1>4 DEF RunInv, InWave, Live

LEMMA Started ==
    ASSUME TypeOK, RunInv, NEW t \in AllTasks, thread[t] # "none"
    PROVE  t \in Tasks(plan) /\ \E k \in DOMAIN waves : t \in waves[k] /\ k <= wave
<1>1. PICK k \in DOMAIN waves : t \in waves[k]
  BY DEF RunInv, Planned
<1>2. ~(k > wave)
  BY <1>1 DEF RunInv
<1> QED
  BY <1>1, <1>2 DEF TypeOK

\* Two tasks of a repository are never in the same wave.
LEMMA AloneInWave ==
    ASSUME TypeOK, PlanInv, NEW k \in DOMAIN waves, NEW t \in waves[k], NEW u \in waves[k],
           Here(t) = Here(u)
    PROVE  t = u
<1>1. t \in Tasks(plan) /\ u \in Tasks(plan)
  BY DEF TypeOK
<1>2. t = <<t[1], t[2]>> /\ u = <<u[1], u[2]>> /\ t[2] \in 1..MaxItems /\ u[2] \in 1..MaxItems
  BY <1>1, TasksAreTasks, TaskShape
<1>3. k \in Nat
  BY DEF TypeOK
<1>4. ASSUME NEW s \in waves[k], NEW v \in waves[k], s \in Tasks(plan), Precedes(s, v) PROVE FALSE
  <2>1. PICK j \in 1..(k - 1) : s \in waves[j]
    BY <1>4 DEF PlanInv
  <2>2. j \in DOMAIN waves /\ j # k
    BY <1>3 DEF TypeOK
  <2> QED
    BY <2>1, <2>2 DEF PlanInv
<1>5. ~(t[2] < u[2]) /\ ~(u[2] < t[2])
  BY <1>1, <1>4 DEF Precedes
<1> QED
  BY <1>2, <1>5, CountAssumption DEF Here

LEMMA AloneLive ==
    ASSUME TypeOK, PlanInv, RunInv, NEW t \in AllTasks, NEW u \in AllTasks,
           Live(t), u \in waves[wave], Here(t) = Here(u)
    PROVE  t = u
BY LiveHere, AloneInWave

\* What precedes a task that was started is done.
LEMMA BeforeIsDone ==
    ASSUME TypeOK, PlanInv, RunInv, NEW t \in AllTasks, thread[t] # "none",
           NEW s \in Tasks(plan), Precedes(s, t)
    PROVE  thread[s] = "done"
<1>1. PICK k \in DOMAIN waves : t \in waves[k] /\ k <= wave
  BY Started
<1>2. PICK j \in 1..(k - 1) : s \in waves[j]
  BY <1>1 DEF PlanInv
<1>3. j \in DOMAIN waves /\ j < wave
  BY <1>1 DEF TypeOK
<1> QED
  BY <1>2, <1>3 DEF RunInv

LEMMA InitRun == Init => PlanInv /\ RunInv
BY DEF Init, PlanInv, RunInv, Planned, Live, InWave

LEMMA WorkerRun ==
    ASSUME TypeOK, RunInv, NEW t \in AllTasks, Worker(t)
    PROVE  RunInv'
<1>1. /\ UNCHANGED <<plan, waves, pc, wave, todo, active, events>> /\ Live(t)
  BY WorkerStep DEF mainVars
<1>2. PICK x \in Places \ {"none"} : thread' = [thread EXCEPT ![t] = x]
  BY WorkerStep
<1>3. /\ thread'[t] = x /\ \A u \in AllTasks : u # t => thread'[u] = thread[u]
  BY <1>2 DEF TypeOK
<1>4. pc = "run" /\ t \in waves[wave] /\ t \notin todo /\ wave \in DOMAIN waves
  BY <1>1, LiveHere
<1>5. /\ \A u \in AllTasks : Live(u)' => \E i \in DOMAIN active : active[i] = u
      /\ \A u \in AllTasks : thread'[u] # "none" => u \in Planned
  BY <1>1, <1>3 DEF RunInv, Live
<1>6. ASSUME NEW k \in DOMAIN waves, NEW u \in waves[k]
      PROVE  /\ k < wave \/ (k = wave /\ ~InWave) => thread'[u] = "done" /\ Len(events[u]) = 2
             /\ k > wave => thread'[u] = "none"
             /\ k = wave /\ InWave =>
                   /\ thread'[u] = "none" <=> u \in todo
                   /\ u \notin todo => Len(events[u]) \in {1, 2}
  <2>1. u \in AllTasks
    BY TasksAreTasks DEF TypeOK
  <2>2. CASE u # t
    BY <1>3, <2>1, <2>2 DEF RunInv
  <2>3. CASE u = t
    <3>1. ~(k < wave) /\ ~(k > wave)
      BY <1>1, <2>3 DEF RunInv, Live
    <3> QED
      BY <1>3, <1>4, <2>3, <3>1 DEF RunInv, InWave
  <2> QED
    BY <2>2, <2>3
<1> QED
  BY <1>1, <1>5, <1>6 DEF RunInv, InWave, Planned, WaveWorkers

LEMMA PlanWaveRun == TypeOK /\ RunInv /\ PlanWave => RunInv'
<1> SUFFICES ASSUME TypeOK, RunInv, PlanWave PROVE RunInv'
  OBVIOUS
<1> DEFINE n == Len(waves)
<1>1. /\ n \in Nat /\ DOMAIN waves = 1..n /\ DOMAIN waves' = 1..(n + 1)
      /\ waves'[n + 1] = ReadyTasks /\ \A k \in 1..n : waves'[k] = waves[k]
  BY DEF PlanWave, TypeOK
<1>2. /\ UNCHANGED <<plan, pc, wave, todo, active, events, thread>>
      /\ pc = "plan" /\ wave = 0 /\ active = <<>> /\ todo = {} /\ ~InWave
  BY DEF PlanWave, taskVars, RunInv, InWave
<1>3. \A t \in ReadyTasks : t \in AllTasks /\ t \notin Planned
  BY TasksAreTasks DEF ReadyTasks
<1>4. \A t \in Planned : t \in AllTasks /\ thread[t] = "none"
  BY <1>1, <1>2, TasksAreTasks DEF RunInv, Planned, TypeOK
<1>5. \A t \in ReadyTasks : thread[t] = "none"
  BY <1>3 DEF RunInv
<1>6. \A t \in AllTasks : thread[t] = "none"
  BY <1>4 DEF RunInv
<1>7. \A k \in DOMAIN waves' : \A t \in waves'[k] : thread[t] = "none" /\ k > wave
  BY <1>1, <1>2, <1>4, <1>5 DEF Planned
<1>8. ~(pc' = "run") /\ ~InWave'
  BY <1>2 DEF InWave
<1> QED
  BY <1>1, <1>2, <1>6, <1>7, <1>8 DEF RunInv, Live

LEMMA PlanDoneRun == TypeOK /\ RunInv /\ PlanDone => RunInv'
<1> SUFFICES ASSUME TypeOK, RunInv, PlanDone PROVE RunInv'
  OBVIOUS
<1>1. /\ UNCHANGED <<plan, wave, todo, active, events, thread>> /\ pc' = "wave"
      /\ wave = 0 /\ active = <<>> /\ todo = {} /\ ~InWave'
  BY DEF PlanDone, taskVars, RunInv, InWave
<1>2. \A t \in Planned : t \in AllTasks /\ thread[t] = "none"
  BY <1>1, TasksAreTasks DEF RunInv, Planned, TypeOK
<1>3. \A t \in AllTasks : thread[t] = "none"
  BY <1>2 DEF RunInv
<1>4. waves' \in Seq(SUBSET Tasks(plan))
  BY FallbackWaves DEF PlanDone, TypeOK
<1>5. \A k \in DOMAIN waves' : k > 0 /\ k \in Nat /\ \A t \in waves'[k] : t \in AllTasks
  BY <1>4, TasksAreTasks
<1> QED
  BY <1>1, <1>3, <1>5 DEF RunInv, Live

LEMMA StartRun == TypeOK /\ RunInv /\ StartWave => RunInv'
<1> SUFFICES ASSUME TypeOK, RunInv, StartWave PROVE RunInv'
  OBVIOUS
<1>1. /\ UNCHANGED <<plan, waves, active, events, thread>> /\ pc = "wave" /\ pc' = "run"
      /\ wave' = wave + 1 /\ wave' \in DOMAIN waves /\ wave \in Nat /\ todo' = waves[wave']
      /\ active = <<>>
  BY DEF StartWave, taskVars, RunInv, TypeOK
<1>2. ~InWave /\ InWave' /\ Planned' = Planned
  BY <1>1 DEF InWave, Planned
<1>3. \A k \in DOMAIN waves : k \in Nat
  BY DEF TypeOK
<1>4. ASSUME NEW k \in DOMAIN waves, NEW u \in waves[k]
      PROVE  /\ k < wave' => thread[u] = "done" /\ Len(events[u]) = 2
             /\ k > wave' => thread[u] = "none"
             /\ k = wave' => thread[u] = "none" /\ u \in todo'
  BY <1>1, <1>2, <1>3 DEF RunInv
<1>5. \A t \in AllTasks : ~Live(t)
  BY <1>1 DEF RunInv
<1> QED
  BY <1>1, <1>2, <1>3, <1>4, <1>5 DEF RunInv, Live

LEMMA SpawnRun ==
    ASSUME TypeOK, PlanInv, RunInv, NEW t \in AllTasks, Spawn(t)
    PROVE  RunInv'
<1>1. /\ UNCHANGED <<plan, waves, pc, wave>> /\ pc = "run" /\ t \in todo
      /\ todo' = todo \ {t} /\ active' = Append(active, t)
      /\ thread' = [thread EXCEPT ![t] = "scope"]
      /\ events' = [events EXCEPT ![t] = <<Len(log[Here(t)])>>]
      /\ Len(active) < WaveWorkers
  BY DEF Spawn
<1>2. /\ InWave /\ InWave' /\ wave # 0 /\ todo \subseteq waves[wave] /\ WaveWorkers' = WaveWorkers
      /\ Planned' = Planned
  BY <1>1 DEF InWave, RunInv, WaveWorkers, Planned
<1>3. /\ thread'[t] = "scope" /\ Len(events'[t]) = 1
      /\ \A u \in AllTasks : u # t => thread'[u] = thread[u] /\ events'[u] = events[u]
  BY <1>1 DEF TypeOK
<1>4. wave \in DOMAIN waves /\ t \in waves[wave]
  BY <1>1, <1>2 DEF TypeOK
<1>5. thread[t] = "none"
  BY <1>1, <1>2, <1>4 DEF RunInv
<1>6. /\ Len(active') = Len(active) + 1 /\ active'[Len(active) + 1] = t
      /\ \A i \in DOMAIN active : i \in DOMAIN active' /\ active'[i] = active[i]
      /\ \A i \in DOMAIN active' : i \in DOMAIN active \/ active'[i] = t
      /\ Len(active) + 1 \in DOMAIN active'
  BY <1>1 DEF TypeOK
<1>7. \A i \in DOMAIN active' : active'[i] \in waves[wave]
  BY <1>4, <1>6 DEF RunInv
<1>8. \A u \in AllTasks : Live(u)' => \E i \in DOMAIN active' : active'[i] = u
  BY <1>3, <1>6 DEF RunInv, Live
<1>9. \A u \in AllTasks : thread'[u] # "none" => u \in Planned
  BY <1>3, <1>4 DEF RunInv, Planned
<1>10. ASSUME NEW k \in DOMAIN waves, NEW u \in waves[k]
      PROVE  /\ k < wave => thread'[u] = "done" /\ Len(events'[u]) = 2
             /\ k > wave => thread'[u] = "none"
             /\ k = wave =>
                   /\ thread'[u] = "none" <=> u \in todo'
                   /\ u \notin todo' => Len(events'[u]) \in {1, 2}
  <2>1. u \in AllTasks
    BY TasksAreTasks DEF TypeOK
  <2>2. CASE u # t
    BY <1>1, <1>2, <1>3, <2>1, <2>2 DEF RunInv
  <2>3. CASE u = t
    <3>1. k = wave /\ k \in Nat
      BY <1>4, <2>3 DEF PlanInv, TypeOK
    <3>2. thread'[u] # "none" /\ Len(events'[u]) = 1 /\ u \notin todo'
      BY <1>1, <1>3, <2>3
    <3> QED
      BY <3>1, <3>2
  <2> QED
    BY <2>2, <2>3
<1>11. WaveWorkers = 1 => Len(active') <= 1
  BY <1>1, <1>6 DEF TypeOK
<1> QED
  BY <1>1, <1>2, <1>7, <1>8, <1>9, <1>10, <1>11 DEF RunInv

LEMMA HarvestRun == TypeOK /\ RunInv /\ Harvest => RunInv'
<1> SUFFICES ASSUME TypeOK, RunInv, Harvest PROVE RunInv'
  OBVIOUS
<1>1. /\ UNCHANGED <<plan, waves, wave, todo, events, thread>> /\ pc = "run"
      /\ pc' \in {"run", "audit"} /\ active' = Tail(active) /\ active # <<>>
      /\ thread[active[1]] = "done"
      /\ pc' = "audit" => WaveWorkers = 1 \/ Tail(active) = <<>>
  BY DEF Harvest, taskVars
<1>2. InWave /\ InWave' /\ WaveWorkers' = WaveWorkers /\ Planned' = Planned
  BY <1>1 DEF InWave, WaveWorkers, Planned
<1>3. /\ Len(active) \in Nat \ {0} /\ Len(active') = Len(active) - 1
      /\ \A i \in DOMAIN active' : active'[i] = active[i + 1] /\ i + 1 \in DOMAIN active
      /\ \A i \in DOMAIN active : i # 1 => i - 1 \in DOMAIN active' /\ active'[i - 1] = active[i]
      /\ active' \in Seq(Tasks(plan))
  BY <1>1 DEF TypeOK
<1>4. pc' # "run" => active' = <<>>
  <2>1. WaveWorkers = 1 => Len(active') = 0
    BY <1>1, <1>3 DEF RunInv
  <2>2. Len(active') = 0 => active' = <<>>
    BY <1>3
  <2> QED
    BY <1>1, <2>1, <2>2
<1>5. WaveWorkers = 1 => Len(active') <= 1
  BY <1>1, <1>3 DEF RunInv
<1>6. \A i \in DOMAIN active' : active'[i] \in waves[wave]
  BY <1>3 DEF RunInv
<1>7. \A u \in AllTasks : Live(u) => \E i \in DOMAIN active' : active'[i] = u
  <2> SUFFICES ASSUME NEW u \in AllTasks, Live(u) PROVE \E i \in DOMAIN active' : active'[i] = u
    OBVIOUS
  <2>1. PICK i \in DOMAIN active : active[i] = u
    BY DEF RunInv
  <2>2. i # 1
    BY <1>1, <2>1 DEF Live
  <2> QED
    BY <1>3, <2>1, <2>2
<1>8. \A u \in AllTasks : Live(u)' <=> Live(u)
  BY <1>1 DEF Live
<1> QED
  BY <1>1, <1>2, <1>4, <1>5, <1>6, <1>7, <1>8 DEF RunInv

LEMMA AppendRun ==
    ASSUME TypeOK, RunInv, NEW t \in AllTasks, AppendEvent(t)
    PROVE  RunInv'
<1>1. /\ UNCHANGED <<plan, waves, wave, todo, active, thread>> /\ pc = "audit"
      /\ t \in Unaudited /\ pc' \in {"audit", "run", "wave", "failed"}
  BY DEF AppendEvent, taskVars
<1>2. /\ active = <<>> /\ InWave /\ wave # 0 /\ todo \subseteq waves[wave]
      /\ WaveWorkers' = WaveWorkers /\ Planned' = Planned
  BY <1>1 DEF RunInv, InWave, WaveWorkers, Planned
<1>3. /\ t \in waves[wave] /\ thread[t] = "done" /\ Len(events[t]) = 1
      /\ wave \in DOMAIN waves
  BY <1>1, <1>2 DEF Unaudited, TypeOK
<1>4. \A u \in AllTasks : ~Live(u)
  BY <1>2 DEF RunInv
<1>5. /\ \A u \in AllTasks : u # t => events'[u] = events[u]
      /\ Len(events'[t]) \in {1, 2}
      /\ pc' # "failed" => Len(events'[t]) = 2
  <2>1. events[t] \in Seq(Nat) /\ Len(log[Here(t)]) \in Nat
    BY TaskTypes DEF TypeOK
  <2>2. Len(Append(events[t], Len(log[Here(t)]))) = 2
    BY <1>3, <2>1, SecondEvent
  <2>3. CASE events' = [events EXCEPT ![t] = Append(events[t], Len(log[Here(t)]))]
    BY <2>2, <2>3 DEF TypeOK
  <2>4. CASE pc' = "failed" /\ events' = events
    BY <1>3, <2>4
  <2> QED
    BY <2>3, <2>4 DEF AppendEvent
<1>6. pc' = "wave" => todo = {} /\ Unaudited = {t}
  BY DEF AppendEvent
<1>7. \A k \in DOMAIN waves : k \in Nat /\ \A u \in waves[k] : u \in AllTasks
  BY TasksAreTasks DEF TypeOK
<1>8. ASSUME NEW k \in DOMAIN waves, NEW u \in waves[k]
      PROVE  /\ k < wave \/ (k = wave /\ ~InWave') => thread[u] = "done" /\ Len(events'[u]) = 2
             /\ k > wave => thread[u] = "none"
             /\ k = wave /\ InWave' =>
                   /\ thread[u] = "none" <=> u \in todo
                   /\ u \notin todo => Len(events'[u]) \in {1, 2}
  <2>1. k < wave => thread[u] = "done" /\ Len(events'[u]) = 2
    <3>1. k < wave => thread[u] = "done" /\ Len(events[u]) = 2
      BY DEF RunInv
    <3>2. k < wave => u # t
      BY <1>3, <3>1
    <3> QED
      BY <1>5, <1>7, <3>1, <3>2
  <2>2. k > wave => thread[u] = "none"
    BY DEF RunInv
  <2>3. k = wave /\ InWave' => /\ thread[u] = "none" <=> u \in todo
                               /\ u \notin todo => Len(events'[u]) \in {1, 2}
    BY <1>2, <1>5, <1>7 DEF RunInv
  <2>4. k = wave /\ ~InWave' => thread[u] = "done" /\ Len(events'[u]) = 2
    <3> SUFFICES ASSUME k = wave, ~InWave' PROVE thread[u] = "done" /\ Len(events'[u]) = 2
      OBVIOUS
    <3>1. pc' = "wave" /\ todo = {} /\ Unaudited = {t}
      BY <1>1, <1>6 DEF InWave
    <3>2. thread[u] # "none" /\ Len(events[u]) \in {1, 2}
      BY <1>2, <3>1 DEF RunInv
    <3>3. thread[u] = "done"
      BY <1>4, <1>7, <3>2 DEF Live
    <3>4. Len(events[u]) = 1 => u = t
      BY <3>1, <3>3 DEF Unaudited
    <3> QED
      BY <1>5, <1>7, <3>1, <3>2, <3>3, <3>4
  <2> QED
    BY <2>1, <2>2, <2>3, <2>4
<1>9. /\ ~InWave' => todo = {}
      /\ InWave' => wave # 0 /\ todo \subseteq waves[wave]
      /\ pc' # "plan" /\ pc' # "done"
  BY <1>1, <1>2, <1>6 DEF InWave
<1>10. Len(active) <= 1 /\ DOMAIN active = {}
  BY <1>2
<1> QED
  BY <1>1, <1>2, <1>4, <1>8, <1>9, <1>10 DEF RunInv, Live

LEMMA NextRun == TypeOK /\ PlanInv /\ RunInv /\ [Next]_vars => RunInv'
<1> SUFFICES ASSUME TypeOK, PlanInv, RunInv, [Next]_vars PROVE RunInv'
  OBVIOUS
<1>1. CASE Finish
  BY <1>1 DEF Finish, RunInv, taskVars, Live, InWave, Planned, WaveWorkers
<1>2. CASE Others \/ UNCHANGED vars
  <2>1. UNCHANGED <<plan, waves, pc, wave, todo, active, events, thread>>
    BY <1>2 DEF Others, Take, Release, Die, Age, vars, mainVars, taskVars
  <2> QED
    BY <2>1 DEF RunInv, Live, InWave, Planned, WaveWorkers
<1> QED
  BY <1>1, <1>2, WorkerRun, PlanWaveRun, PlanDoneRun, StartRun, SpawnRun, HarvestRun, AppendRun
  DEF Next, Main, Ended

-----------------------------------------------------------------------------
(* What a task committed, and what it says of it                           *)

\* A commit makes at most one entry, its own, and says so unless it was killed.
LEMMA CommitStep ==
    ASSUME TypeOK, NEW t \in AllTasks, Commit(t)
    PROVE  /\ UNCHANGED <<events, retried, index, theirs>> /\ killed \subseteq killed'
           /\ \/ /\ UNCHANGED <<head, log>>
                 /\ \/ result' = result /\ thread'[t] # "done"
                    \/ \E x \in {"skipped", "failed"} : result' = [result EXCEPT ![t] = x]
              \/ /\ MoveBranch(t) /\ thread'[t] = "done"
                 /\ \/ result' = [result EXCEPT ![t] = "committed"]
                    \/ result' = [result EXCEPT ![t] = "skipped"] /\ t \in killed'
<1> USE DEF TypeOK, Return, LockFailure, countVars, mainVars
<1> QED
  BY DEF Commit

LEMMA OwnType ==
    ASSUME TypeOK, NEW t \in AllTasks
    PROVE  IsFiniteSet(Own(t)) /\ Cardinality(Own(t)) \in Nat
<1>1. log[Here(t)] \in Seq(Entry)
  BY TaskTypes
<1>2. Own(t) \subseteq 1..Len(log[Here(t)]) /\ Len(log[Here(t)]) \in Nat
  BY <1>1 DEF Own
<1>3. IsFiniteSet(1..Len(log[Here(t)]))
  BY <1>2, FS_Interval
<1> QED
  BY <1>2, <1>3, FS_Subset, FS_CardinalityType

LEMMA OneEntry ==
    ASSUME TypeOK, NEW t \in AllTasks, MoveBranch(t)
    PROVE  /\ Len(log'[Here(t)]) = Len(log[Here(t)]) + 1
           /\ Own(t)' = Own(t) \cup {Len(log[Here(t)]) + 1}
           /\ \A u \in AllTasks : u # t => Own(u)' = Own(u)
           /\ \A r \in Repo : r # Here(t) => log'[r] = log[r]
<1> DEFINE r == Here(t)
           e == [item |-> t[2], paths |-> Staged(r), theirs |-> theirs[r]]
<1>1. /\ r \in Repo /\ t[2] \in 1..MaxItems /\ theirs[r] \in SUBSET Path
      /\ log[r] \in Seq(Entry) /\ Len(log[r]) \in Nat
  BY TaskTypes
<1>2. e \in Entry /\ e.item = t[2]
  BY <1>1 DEF Entry, Staged
<1>3. log' = [log EXCEPT ![r] = Append(log[r], e)]
  BY DEF MoveBranch
<1> HIDE DEF e
<1>4. /\ Len(Append(log[r], e)) = Len(log[r]) + 1
      /\ Append(log[r], e)[Len(log[r]) + 1] = e
      /\ \A i \in 1..Len(log[r]) : Append(log[r], e)[i] = log[r][i]
      /\ DOMAIN Append(log[r], e) = 1..(Len(log[r]) + 1)
      /\ DOMAIN log[r] = 1..Len(log[r])
  BY <1>1, <1>2
<1>5. log'[r] = Append(log[r], e) /\ \A q \in Repo : q # r => log'[q] = log[q]
  BY <1>1, <1>3 DEF TypeOK
<1>6. Own(t)' = Own(t) \cup {Len(log[r]) + 1}
  BY <1>1, <1>2, <1>4, <1>5 DEF Own, Here
<1>7. ASSUME NEW u \in AllTasks, u # t PROVE Own(u)' = Own(u)
  <2>1. Here(u) \in Repo /\ u = <<u[1], u[2]>> /\ t = <<t[1], t[2]>>
    BY TaskShape DEF Here
  <2>2. CASE Here(u) # r
    BY <1>5, <2>1, <2>2 DEF Own, Here
  <2>3. CASE Here(u) = r
    <3>1. t[2] # u[2]
      BY <1>7, <2>1, <2>3 DEF Here
    <3>2. /\ Own(u) = {k \in 1..Len(log[r]) : log[r][k].item = u[2]}
          /\ Own(u)' = {k \in 1..(Len(log[r]) + 1) : log'[r][k].item = u[2]}
      BY <1>4, <1>5, <2>3 DEF Own, Here
    <3>3. \A k \in 1..(Len(log[r]) + 1) : k = Len(log[r]) + 1 \/ k \in 1..Len(log[r])
      BY <1>1
    <3>4. log'[r][Len(log[r]) + 1].item # u[2]
      BY <1>2, <1>4, <1>5, <3>1
    <3>5. \A k \in 1..Len(log[r]) : log'[r][k] = log[r][k] /\ k \in 1..(Len(log[r]) + 1)
      BY <1>1, <1>4, <1>5
    <3> QED
      BY <3>2, <3>3, <3>4, <3>5
  <2> QED
    BY <2>2, <2>3
<1> QED
  BY <1>4, <1>5, <1>6, <1>7

LEMMA InitTold == Init => Told
<1> SUFFICES ASSUME Init, NEW t \in AllTasks PROVE TaskTold(t)
  BY DEF Told
<1>1. thread[t] = "none" /\ Here(t) \in Repo /\ log[Here(t)] = <<>>
  BY TaskShape DEF Init, Here
<1>2. Own(t) = {}
  BY <1>1 DEF Own
<1> QED
  BY <1>1, <1>2 DEF TaskTold, Live

\* A task is told about as before where nothing of its own changes.
LEMMA ToldStays ==
    ASSUME TypeOK, NEW t \in AllTasks, TaskTold(t), killed \subseteq killed',
           (thread'[t] = "done") <=> (thread[t] = "done"),
           (thread'[t] = "none") <=> (thread[t] = "none"),
           thread[t] = "done" => result'[t] = result[t],
           events'[t] = events[t], Own(t)' = Own(t),
           Len(events[t]) = 1 /\ thread[t] # "none" => Len(log'[Here(t)]) = Len(log[Here(t)])
    PROVE  TaskTold(t)'
BY DEF TaskTold, Live, Here

LEMMA OthersAudited ==
    ASSUME TypeOK, PlanInv, RunInv, NEW t \in AllTasks, NEW u \in AllTasks, u # t,
           Live(t), Here(u) = Here(t), thread[u] # "none"
    PROVE  Len(events[u]) # 1
<1>1. PICK k \in DOMAIN waves : u \in waves[k] /\ k <= wave
  BY Started
<1>2. k # wave
  BY <1>1, AloneLive
<1>3. k < wave
  BY <1>1, <1>2 DEF TypeOK
<1> QED
  BY <1>1, <1>3 DEF RunInv

LEMMA WorkerTold ==
    ASSUME TypeOK, PlanInv, RunInv, Told, NEW t \in AllTasks, Worker(t)
    PROVE  Told'
<1>1. /\ events' = events /\ Live(t)
  BY WorkerStep DEF mainVars
<1>2. PICK x \in Places \ {"none"} : thread' = [thread EXCEPT ![t] = x]
  BY WorkerStep
<1>3. /\ thread'[t] = x /\ \A u \in AllTasks : u # t => thread'[u] = thread[u]
      /\ thread[t] # "none" /\ thread[t] # "done"
  BY <1>1, <1>2 DEF TypeOK, Live
<1>4. /\ Own(t) = {} /\ Len(events[t]) = 1
      /\ Len(log[Here(t)]) - events[t][1] = Cardinality(Own(t))
  BY <1>1, <1>3 DEF Told, TaskTold
<1>5. Cardinality({}) = 0
  BY FS_EmptySet
<1>6. CASE ~MoveBranch(t) \/ ~Commit(t)
  <2>1. /\ log' = log /\ killed \subseteq killed'
        /\ \/ result' = result /\ thread'[t] # "done"
           \/ \E y \in {"skipped", "failed"} : result' = [result EXCEPT ![t] = y]
    BY <1>6, QuietStep, CommitStep
  <2>2. \A u \in AllTasks : u # t => result'[u] = result[u]
    BY <2>1 DEF TypeOK
  <2>3. thread'[t] = "done" => result'[t] \in {"skipped", "failed"}
    BY <2>1 DEF TypeOK
  <2>4. \A u \in AllTasks : Own(u)' = Own(u)
    BY <2>1 DEF Own
  <2>5. TaskTold(t)'
    <3>1. Own(t)' = Own(t) /\ Own(t)' = {}
      BY <1>4, <2>4
    <3>2. /\ log'[Here(t)] = log[Here(t)] /\ events'[t] = events[t] /\ Len(events[t]) # 2
          /\ thread'[t] = "done" => result'[t] # "committed"
      BY <1>1, <1>4, <2>1, <2>3
    <3> QED
      BY <1>4, <3>1, <3>2 DEF TaskTold, Here
  <2>6. ASSUME NEW u \in AllTasks, u # t PROVE TaskTold(u)'
    BY <1>1, <1>3, <2>1, <2>2, <2>4, <2>6, ToldStays DEF Told
  <2> QED
    BY <2>5, <2>6 DEF Told
<1>7. CASE MoveBranch(t) /\ Commit(t)
  <2>1. /\ Len(log'[Here(t)]) = Len(log[Here(t)]) + 1
        /\ Own(t)' = Own(t) \cup {Len(log[Here(t)]) + 1}
        /\ \A u \in AllTasks : u # t => Own(u)' = Own(u)
        /\ \A r \in Repo : r # Here(t) => log'[r] = log[r]
    BY <1>7, OneEntry
  <2>2. Cardinality(Own(t)') = 1
    <3>1. Own(t)' = {Len(log[Here(t)]) + 1}
      BY <1>4, <2>1
    <3> QED
      BY <3>1, FS_Singleton
  <2>3. /\ killed \subseteq killed'
        /\ \/ UNCHANGED log
           \/ /\ thread'[t] = "done"
              /\ \/ result' = [result EXCEPT ![t] = "committed"]
                 \/ result' = [result EXCEPT ![t] = "skipped"] /\ t \in killed'
    BY <1>7, CommitStep
  <2>4. Here(t) \in Repo /\ Len(log[Here(t)]) \in Nat /\ events[t][1] \in Nat
    <3>1. events[t] \in Seq(Nat)
      BY DEF TypeOK
    <3> QED
      BY <1>4, <3>1, TaskTypes
  <2>5. /\ thread'[t] = "done"
        /\ result'[t] = "committed" \/ (result'[t] = "skipped" /\ t \in killed')
        /\ \A u \in AllTasks : u # t => result'[u] = result[u]
    BY <2>1, <2>3, <2>4 DEF TypeOK
  <2>6. Len(log'[Here(t)]) - events[t][1] = 1
    BY <1>4, <1>5, <2>1, <2>4
  <2>7. TaskTold(t)'
    BY <1>1, <1>4, <2>2, <2>5, <2>6 DEF TaskTold, Here, Live
  <2>8. ASSUME NEW u \in AllTasks, u # t PROVE TaskTold(u)'
    <3>1. Here(u) \in Repo
      BY TaskTypes
    <3>2. Len(events[u]) = 1 /\ thread[u] # "none" => Here(u) # Here(t)
      BY <1>1, <2>8, OthersAudited
    <3>3. Len(events[u]) = 1 /\ thread[u] # "none" => log'[Here(u)] = log[Here(u)]
      BY <2>1, <3>1, <3>2
    <3> QED
      BY <1>1, <1>3, <2>1, <2>3, <2>5, <2>8, <3>3, ToldStays DEF Told
  <2> QED
    BY <2>7, <2>8 DEF Told
<1> QED
  BY <1>6, <1>7

LEMMA SpawnTold ==
    ASSUME TypeOK, RunInv, Told, NEW t \in AllTasks, Spawn(t)
    PROVE  Told'
<1>1. /\ UNCHANGED <<result, log, killed>> /\ t \in todo /\ pc = "run"
      /\ thread' = [thread EXCEPT ![t] = "scope"]
      /\ events' = [events EXCEPT ![t] = <<Len(log[Here(t)])>>]
  BY DEF Spawn, gitVars, countVars
<1>2. thread[t] = "none"
  <2>1. todo \subseteq waves[wave] /\ wave \in DOMAIN waves /\ InWave
    BY <1>1 DEF RunInv, InWave, TypeOK
  <2> QED
    BY <1>1, <2>1 DEF RunInv
<1>3. Own(t) = {} /\ Len(log[Here(t)]) \in Nat /\ Cardinality({}) = 0
  BY <1>2, TaskTypes, FS_EmptySet DEF Told, TaskTold
<1>4. \A u \in AllTasks : Own(u)' = Own(u)
  BY <1>1 DEF Own
<1>5. /\ thread'[t] = "scope" /\ events'[t] = <<Len(log[Here(t)])>>
      /\ \A u \in AllTasks : u # t => thread'[u] = thread[u] /\ events'[u] = events[u]
  BY <1>1 DEF TypeOK
<1>6. TaskTold(t)'
  <2>1. Own(t)' = {} /\ thread'[t] = "scope" /\ log'[Here(t)] = log[Here(t)]
    BY <1>1, <1>3, <1>4, <1>5
  <2>2. Len(events'[t]) = 1 /\ events'[t][1] = Len(log[Here(t)])
    BY <1>5
  <2>3. Len(log'[Here(t)]) - events'[t][1] = Cardinality(Own(t)')
    BY <1>3, <2>1, <2>2
  <2> QED
    BY <2>1, <2>2, <2>3 DEF TaskTold, Here
<1>7. ASSUME NEW u \in AllTasks, u # t PROVE TaskTold(u)'
  BY <1>1, <1>4, <1>5, <1>7, ToldStays DEF Told
<1> QED
  BY <1>6, <1>7 DEF Told

LEMMA AppendTold ==
    ASSUME TypeOK, RunInv, Told, NEW t \in AllTasks, AppendEvent(t)
    PROVE  Told'
<1>1. /\ UNCHANGED <<thread, result, log, killed>> /\ thread[t] = "done" /\ Len(events[t]) = 1
  BY DEF AppendEvent, taskVars, gitVars, Unaudited, countVars
<1>2. \A u \in AllTasks : Own(u)' = Own(u)
  BY <1>1 DEF Own
<1>3. events[t] \in Seq(Nat) /\ Len(log[Here(t)]) \in Nat
  BY TaskTypes DEF TypeOK
<1>4. Len(log[Here(t)]) - events[t][1] = Cardinality(Own(t))
  BY <1>1 DEF Told, TaskTold
<1>5. CASE events' = events
  <2>1. ASSUME NEW u \in AllTasks PROVE TaskTold(u)'
    BY <1>1, <1>2, <1>5, ToldStays DEF Told
  <2> QED
    BY <2>1 DEF Told
<1>6. CASE events' = [events EXCEPT ![t] = Append(events[t], Len(log[Here(t)]))]
  <2>1. /\ Len(Append(events[t], Len(log[Here(t)]))) = 2
        /\ Append(events[t], Len(log[Here(t)]))[1] = events[t][1]
        /\ Append(events[t], Len(log[Here(t)]))[2] = Len(log[Here(t)])
    BY <1>1, <1>3, SecondEvent
  <2>2. /\ Len(events'[t]) = 2 /\ events'[t][1] = events[t][1] /\ events'[t][2] = Len(log[Here(t)])
        /\ \A u \in AllTasks : u # t => events'[u] = events[u]
    BY <1>6, <2>1 DEF TypeOK
  <2>3. TaskTold(t)'
    BY <1>1, <1>2, <1>4, <2>2 DEF Told, TaskTold, Here, Live
  <2>4. ASSUME NEW u \in AllTasks, u # t PROVE TaskTold(u)'
    BY <1>1, <1>2, <2>2, <2>4, ToldStays DEF Told
  <2> QED
    BY <2>3, <2>4 DEF Told
<1> QED
  BY <1>5, <1>6 DEF AppendEvent

LEMMA NextTold == TypeOK /\ PlanInv /\ RunInv /\ Told /\ [Next]_vars => Told'
<1> SUFFICES ASSUME TypeOK, PlanInv, RunInv, Told, [Next]_vars PROVE Told'
  OBVIOUS
<1>1. CASE PlanWave \/ PlanDone \/ StartWave \/ Harvest \/ Finish \/ Others \/ UNCHANGED vars
  <2>1. UNCHANGED <<thread, result, events, log, killed>>
    BY <1>1 DEF PlanWave, PlanDone, StartWave, Harvest, Finish, Others, Take, Release, Die, Age,
                vars, mainVars, taskVars, gitVars, countVars
  <2> QED
    BY <2>1 DEF Told, TaskTold, Live, Own, Here
<1> QED
  BY <1>1, WorkerTold, SpawnTold, AppendTold DEF Next, Main, Ended

-----------------------------------------------------------------------------
(* The lock recovery                                                       *)

LEMMA InitRecovery == Init => RecoveryInv
<1> SUFFICES ASSUME Init, NEW t \in AllTasks PROVE Recovers(t)
  BY DEF RecoveryInv
<1>1. thread[t] = "none"
  BY DEF Init
<1> QED
  BY <1>1 DEF Recovers, Recovering

\* Who has the mutex steps alone through the recovery.
LEMMA OwnerSteps ==
    ASSUME TypeOK, RecoveryInv, NEW t \in AllTasks, NEW x \in Places,
           thread' = [thread EXCEPT ![t] = x],
           thread[t] \in Recovering \/ owner = NoTask,
           x \in Recovering => owner' = t,
           x \in {"diagnose", "remove"} /\ lock'[Here(t)] = "git" => late'[Here(t)] \/ psFailed'
    PROVE  RecoveryInv'
<1>1. thread'[t] = x /\ \A u \in AllTasks : u # t => thread'[u] = thread[u]
  BY DEF TypeOK
<1>2. ASSUME NEW u \in AllTasks, u # t PROVE thread[u] \notin Recovering
  BY <1>2, TaskTypes DEF RecoveryInv, Recovers
<1>3. Recovers(t)'
  BY <1>1 DEF Recovers, Here
<1>4. ASSUME NEW u \in AllTasks, u # t PROVE Recovers(u)'
  BY <1>1, <1>2, <1>4 DEF Recovers, Recovering
<1> QED
  BY <1>3, <1>4 DEF RecoveryInv

\* Who does not recover leaves it alone.
LEMMA BystanderSteps ==
    ASSUME TypeOK, RecoveryInv, NEW t \in AllTasks, NEW x \in Places \ Recovering,
           thread' = [thread EXCEPT ![t] = x] \/ thread' = thread,
           owner' = owner, psFailed => psFailed',
           \A r \in Repo : /\ lock'[r] = "git" => lock[r] = "git" \/ late'[r]
                           /\ lock'[r] = "git" /\ late[r] => late'[r]
    PROVE  RecoveryInv'
<1>1. ASSUME NEW u \in AllTasks PROVE Recovers(u)'
  <2>1. Recovers(u) /\ Here(u) \in Repo
    BY TaskTypes DEF RecoveryInv
  <2>2. thread'[u] = thread[u] \/ thread'[u] \notin Recovering
    BY DEF TypeOK
  <2>3. CASE thread'[u] = thread[u]
    BY <2>1, <2>3 DEF Recovers, Here
  <2>4. CASE thread'[u] \notin Recovering
    BY <2>4 DEF Recovers, Recovering
  <2> QED
    BY <2>2, <2>3, <2>4
<1> QED
  BY <1>1 DEF RecoveryInv

LEMMA WorkerRecovery ==
    ASSUME TypeOK, RecoveryInv, NEW t \in AllTasks, Worker(t)
    PROVE  RecoveryInv'
<1>0. Here(t) \in Repo
  BY TaskTypes
<1>1. CASE CheckScope(t) \/ Preflight(t) \/ Reset(t) \/ Add(t)
  <2>1. \E x \in {"done", "reset", "add", "commit", "recover"} : thread' = [thread EXCEPT ![t] = x]
    BY <1>1 DEF CheckScope, Preflight, Reset, Add, Step, Return, LockFailure
  <2>2. UNCHANGED <<lock, late, owner, psFailed>>
    BY <1>1 DEF CheckScope, Preflight, Reset, Add, lockVars, recoveryVars, countVars
  <2> QED
    BY <2>1, <2>2, BystanderSteps DEF Places, Recovering
<1>2. CASE Commit(t)
  <2>1. \E x \in {"done", "recover"} : thread' = [thread EXCEPT ![t] = x]
    BY <1>2 DEF Commit, Return, LockFailure
  <2>2. /\ UNCHANGED <<late, owner>>
        /\ lock' = lock \/ lock' = [lock EXCEPT ![Here(t)] = "dead"]
    BY <1>2 DEF Commit, recoveryVars
  <2>3. psFailed => psFailed'
    BY <1>2 DEF Commit, countVars
  <2>4. \A r \in Repo : /\ lock'[r] = "git" => lock[r] = "git" \/ late'[r]
                        /\ lock'[r] = "git" /\ late[r] => late'[r]
    BY <2>2 DEF TypeOK
  <2>5. owner' = owner
    BY <2>2
  <2> QED
    BY <2>1, <2>3, <2>4, <2>5, BystanderSteps DEF Places, Recovering
<1>3. CASE Enter(t)
  <2>1. owner = NoTask /\ UNCHANGED <<lock, late, psFailed>>
    BY <1>3 DEF Enter, lockVars, countVars
  <2>2. \/ thread' = [thread EXCEPT ![t] = "probe"] /\ owner' = t
        \/ \E x \in {"done", "scope"} : thread' = [thread EXCEPT ![t] = x]
    BY <1>3 DEF Enter, Step, Return
  <2> QED
    BY <2>1, <2>2, OwnerSteps DEF Places, Recovering
<1>4. CASE Probe(t)
  <2>1. thread[t] \in Recovering /\ lock' = lock
    BY <1>4 DEF Probe, Recovering
  <2>2. owner = t
    BY <2>1 DEF RecoveryInv, Recovers
  <2>3. \/ thread' = [thread EXCEPT ![t] = "done"]
        \/ thread' = [thread EXCEPT ![t] = "diagnose"] /\ owner' = owner /\ ~MustSee
        \/ thread' = [thread EXCEPT ![t] = "diagnose"] /\ owner' = owner /\ psFailed'
    BY <1>4 DEF Probe, Step, GiveUp, Return, recoveryVars
  <2>4. ~MustSee => lock'[Here(t)] # "git"
    BY <1>0, <2>1 DEF MustSee
  <2> QED
    BY <2>1, <2>2, <2>3, <2>4, OwnerSteps DEF Places, Recovering
<1>5. CASE Diagnose(t)
  <2>1. thread[t] = "diagnose" /\ UNCHANGED <<lock, late, psFailed>>
    BY <1>5 DEF Diagnose, lockVars, countVars
  <2>2. /\ owner = t
        /\ lock[Here(t)] = "git" => late[Here(t)] \/ psFailed
    BY <2>1 DEF RecoveryInv, Recovers, Recovering
  <2>3. \/ thread' = [thread EXCEPT ![t] = "done"]
        \/ \E x \in {"converge", "remove"} : thread' = [thread EXCEPT ![t] = x] /\ owner' = owner
    BY <1>5 DEF Diagnose, Step, GiveUp, Return, recoveryVars
  <2> QED
    BY <2>1, <2>2, <2>3, OwnerSteps DEF Places, Recovering
<1>6. CASE RemoveLock(t) \/ Converge(t)
  <2>1. thread[t] \in Recovering
    BY <1>6 DEF RemoveLock, Converge, Recovering
  <2>2. owner = t
    BY <2>1 DEF RecoveryInv, Recovers
  <2>3. \/ thread' = [thread EXCEPT ![t] = "done"] \/ thread' = [thread EXCEPT ![t] = "scope"]
        \/ thread' = [thread EXCEPT ![t] = "converge"] /\ owner' = owner
    BY <1>6 DEF RemoveLock, Converge, Step, GiveUp, Return, recoveryVars
  <2> QED
    BY <2>1, <2>2, <2>3, OwnerSteps DEF Places, Recovering
<1> QED
  BY <1>1, <1>2, <1>3, <1>4, <1>5, <1>6 DEF Worker

LEMMA NextRecovery == TypeOK /\ RecoveryInv /\ [Next]_vars => RecoveryInv'
<1> SUFFICES ASSUME TypeOK, RecoveryInv, [Next]_vars PROVE RecoveryInv'
  OBVIOUS
<1>1. CASE Main
  <2>1. UNCHANGED <<lock, late, owner, psFailed>>
    BY <1>1 DEF Main, PlanWave, PlanDone, StartWave, Spawn, Harvest, AppendEvent, Finish,
                lockVars, recoveryVars, countVars
  <2>2. \/ thread' = thread
        \/ \E t \in AllTasks : thread' = [thread EXCEPT ![t] = "scope"]
    BY <1>1 DEF Main, PlanWave, PlanDone, StartWave, Spawn, Harvest, AppendEvent, Finish, taskVars
  <2>3. CASE thread' = thread
    BY <2>1, <2>3 DEF RecoveryInv, Recovers, Here
  <2> QED
    BY <2>1, <2>2, <2>3, BystanderSteps DEF Places, Recovering
<1>2. CASE Others
  <2>1. PICK r \in Repo : Take(r) \/ Release(r) \/ Die(r) \/ Age(r)
    BY <1>2 DEF Others
  <2>2. UNCHANGED <<thread, owner, psFailed>>
    BY <2>1 DEF Take, Release, Die, Age, taskVars, recoveryVars, countVars
  <2>3. \/ lock' = [lock EXCEPT ![r] = "git"] /\ late' = [late EXCEPT ![r] = TRUE]
        \/ UNCHANGED <<lock, late>>
        \/ lock' = [lock EXCEPT ![r] = "free"] /\ UNCHANGED late
        \/ lock' = [lock EXCEPT ![r] = "dead"] /\ UNCHANGED late
    BY <2>1 DEF Take, Release, Die, Age
  <2>4. \A q \in Repo : /\ lock'[q] = "git" => lock[q] = "git" \/ late'[q]
                        /\ lock'[q] = "git" /\ late[q] => late'[q]
    BY <2>3 DEF TypeOK
  <2>5. ASSUME NEW u \in AllTasks PROVE Recovers(u)'
    <3>1. Recovers(u) /\ Here(u) \in Repo
      BY TaskTypes DEF RecoveryInv
    <3> QED
      BY <2>2, <2>4, <3>1 DEF Recovers, Here
  <2> QED
    BY <2>5 DEF RecoveryInv
<1>3. CASE UNCHANGED vars
  BY <1>3 DEF vars, RecoveryInv, Recovers, Here, taskVars, recoveryVars, countVars, lockVars
<1> QED
  BY <1>1, <1>2, <1>3, WorkerRecovery DEF Next, Ended

-----------------------------------------------------------------------------
(* What a task may stage                                                   *)

LEMMA ItemType ==
    ASSUME plan \in Plan, NEW t \in Tasks(plan)
    PROVE  /\ ItemOf(t).include \in SUBSET Path /\ ItemOf(t).exclude \in SUBSET Path
           /\ NeedsPlanStaging(t) => Scoped(ItemOf(t))
<1>1. t \in AllTasks /\ t[1] \in Repo /\ t[2] \in 1..Len(plan.items[t[1]])
  BY TasksAreTasks, TaskShape, TaskItems
<1>2. plan.items[t[1]] \in Seq(Item)
  BY <1>1, PlanShape
<1>3. plan.items[t[1]][t[2]] \in Item
  BY <1>1, <1>2
<1>4. Len(plan.items[t[1]]) > 1 => Scoped(plan.items[t[1]][t[2]])
  BY DEF Tasks, Valid
<1> QED
  BY <1>3, <1>4 DEF Item, ItemOf, NeedsPlanStaging, Here

\* A worker changes its own repository only.
LEMMA RepoStep ==
    ASSUME TypeOK, NEW t \in AllTasks, Worker(t), NEW r \in Repo, r # Here(t)
    PROVE  /\ index'[r] = index[r] /\ head'[r] = head[r]
           /\ theirs'[r] = theirs[r] /\ log'[r] = log[r]
<1> USE TaskTypes DEF TypeOK, gitVars
<1>1. CASE CheckScope(t) BY <1>1 DEF CheckScope
<1>2. CASE Preflight(t) BY <1>2 DEF Preflight
<1>3. CASE Reset(t) BY <1>3 DEF Reset
<1>4. CASE Add(t) BY <1>4 DEF Add
<1>5. CASE Commit(t) BY <1>5 DEF Commit, MoveBranch
<1>6. CASE Enter(t) BY <1>6 DEF Enter
<1>7. CASE Probe(t) BY <1>7 DEF Probe
<1>8. CASE Diagnose(t) BY <1>8 DEF Diagnose
<1>9. CASE RemoveLock(t) BY <1>9 DEF RemoveLock
<1>10. CASE Converge(t) BY <1>10 DEF Converge
<1> QED
  BY <1>1, <1>2, <1>3, <1>4, <1>5, <1>6, <1>7, <1>8, <1>9, <1>10 DEF Worker

\* Once a task was started, no task commits in what its repository points to.
LEMMA WorkStays ==
    ASSUME TypeOK, PlanInv, RunInv, NEW t \in AllTasks, Worker(t),
           NEW u \in AllTasks, thread[u] # "none", NEW f \in Path
    PROVE  Work(Here(u), f)' = Work(Here(u), f)
<1> DEFINE c == plan.link[Here(u)][f]
<1>1. plan' = plan /\ Live(t)
  BY WorkerStep DEF mainVars
<1>2. plan \in Plan /\ Here(u) \in Repo /\ u \in Tasks(plan)
  BY Started, TaskTypes DEF TypeOK
<1>3. CASE c \in Repo
  <2>1. c # Here(t)
    <3> SUFFICES ASSUME c = Here(t) PROVE FALSE
      OBVIOUS
    <3>1. c \in plan.nested[Here(u)]
      BY <1>2, <1>3, NestedAssumption
    <3>2. t \in Tasks(plan)
      BY <1>1, LiveHere
    <3>3. thread[t] = "done"
      BY <3>1, <3>2, BeforeIsDone DEF Precedes
    <3> QED
      BY <1>1, <3>3 DEF Live
  <2>2. log'[c] = log[c]
    BY <1>3, <2>1, RepoStep
  <2> QED
    BY <1>1, <2>2 DEF Work, Here
<1>4. CASE c \notin Repo
  <2>1. c \in 0..(N + 1) /\ N \in Nat
    BY <1>2, PlanShape, CountAssumption
  <2>2. c = Regular \/ c = Unregistered
    BY <1>4, <2>1 DEF Repo, Regular, Unregistered
  <2> QED
    BY <1>1, <2>2 DEF Work, Here
<1> QED
  BY <1>3, <1>4

\* What git add is given stays within the list, and has all that is wanted.
LEMMA PathspecReach ==
    ASSUME TypeOK, NEW t \in Tasks(plan), NeedsPlanStaging(t)
    PROVE  /\ Pathspec(t) \subseteq Reach(t)
           /\ Here(t) \notin plan.slow =>
                 \A f \in Wanted(t) : \/ f \in Pathspec(t)
                                      \/ index[Here(t)][f] = Work(Here(t), f)
<1> DEFINE r == Here(t)
           in == ItemOf(t).include
           ex == ItemOf(t).exclude
<1>1. in \in SUBSET Path /\ ex \in SUBSET Path /\ Scoped(ItemOf(t))
  BY ItemType DEF TypeOK
<1>2. Pathspec(t) \subseteq Reach(t)
  <2>1. CASE in = {}
    BY <1>1, <2>1 DEF Pathspec, Reach, Status, Staged, Unstaged
  <2>2. CASE in # {} /\ in \subseteq Unmanaged(r)
    BY <1>1, <2>2 DEF Pathspec, Reach, Scope, Status, Staged, Unstaged
  <2>3. CASE ~(in \subseteq Unmanaged(r))
    BY <1>1, <2>3 DEF Pathspec, Reach, Scope, Status, Staged, Unstaged
  <2> QED
    BY <2>1, <2>2, <2>3
<1>3. ASSUME r \notin plan.slow, NEW f \in Wanted(t), f \notin Pathspec(t)
      PROVE  index[r][f] = Work(r, f)
  <2>1. CASE in # {}
    <3>1. f \in Path /\ f \notin ex /\ f \notin Unmanaged(r)
      BY <1>1, <1>3, <2>1 DEF Wanted
    <3>2. f \notin in
      BY <1>3, <3>1 DEF Pathspec
    <3>3. plan.nested[r] # {} /\ Managed(r, f)
      BY <1>3, <2>1, <3>2 DEF Wanted
    <3>4. f \notin Status(r)
      BY <1>3, <3>1, <3>3 DEF Pathspec
    <3> QED
      BY <1>3, <3>1, <3>3, <3>4 DEF Status, Unstaged
  <2>2. CASE in = {} /\ plan.nested[r] = {}
    BY <1>1, <1>3, <2>2 DEF Wanted, Pathspec, Status
  <2>3. CASE in = {} /\ plan.nested[r] # {}
    <3>1. CASE {g \in Path : Managed(r, g)} = {}
      <4>1. {g \in Status(r) : Managed(r, g)} = {}
        BY <3>1 DEF Status, Staged, Unstaged
      <4> QED
        BY <1>1, <1>3, <2>3, <3>1, <4>1 DEF Wanted, Pathspec
    <3>2. CASE {g \in Path : Managed(r, g)} # {}
      BY <1>1, <1>3, <2>3, <3>2 DEF Wanted
    <3> QED
      BY <3>1, <3>2
  <2> QED
    BY <2>1, <2>2, <2>3
<1> QED
  BY <1>2, <1>3

LEMMA WantedType ==
    ASSUME plan \in Plan, NEW t \in Tasks(plan)
    PROVE  Wanted(t) \subseteq Path
BY ItemType DEF Wanted

LEMMA InitStage == Init => StageInv
<1> SUFFICES ASSUME Init, NEW t \in AllTasks PROVE StagedBy(t)
  BY DEF StageInv
<1>1. thread[t] = "none"
  BY DEF Init
<1> QED
  BY <1>1 DEF StagedBy

\* What a task is asked for does not change.
LEMMA SameTask ==
    ASSUME plan' = plan, NEW t \in AllTasks
    PROVE  /\ Here(t)' = Here(t) /\ ItemOf(t)' = ItemOf(t)
           /\ NeedsPlanStaging(t)' = NeedsPlanStaging(t)
           /\ Reach(t)' = Reach(t) /\ Wanted(t)' = Wanted(t)
BY DEF Here, ItemOf, NeedsPlanStaging, Scoped, Reach, Scope, Wanted, Unmanaged, Managed

\* The index of a task that does not move is as it was.
LEMMA StagedStays ==
    ASSUME NEW t \in AllTasks, StagedBy(t), plan' = plan, thread'[t] = thread[t],
           index'[Here(t)] = index[Here(t)], head'[Here(t)] = head[Here(t)],
           theirs'[Here(t)] = theirs[Here(t)],
           thread[t] # "none" =>
              /\ Wanted(t) \subseteq Path
              /\ \A f \in Path : Work(Here(t), f)' = Work(Here(t), f)
    PROVE  StagedBy(t)'
<1>1. /\ Here(t)' = Here(t) /\ ItemOf(t)' = ItemOf(t) /\ NeedsPlanStaging(t)' = NeedsPlanStaging(t)
      /\ Reach(t)' = Reach(t) /\ Wanted(t)' = Wanted(t)
  BY SameTask
<1>2. \A f \in Path : /\ Theirs(Here(t), f)' = Theirs(Here(t), f)
                      /\ Untouched(Here(t), f)' = Untouched(Here(t), f)
  BY DEF Theirs, Untouched, Here
<1>3. thread[t] = "commit" => StagedBy(t)'
  BY <1>1, <1>2 DEF StagedBy
<1>4. thread[t] # "commit" => StagedBy(t)'
  BY <1>1, <1>2 DEF StagedBy
<1> QED
  BY <1>3, <1>4

LEMMA OwnStage ==
    ASSUME TypeOK, RunInv, StageInv, NEW t \in AllTasks, Worker(t),
           \A f \in Path : Work(Here(t), f)' = Work(Here(t), f)
    PROVE  StagedBy(t)'
<1> DEFINE r == Here(t)
           in == ItemOf(t).include
<1>1. /\ r \in Repo /\ index[r] \in [Path -> Nat] /\ head[r] \in [Path -> Nat]
  BY TaskTypes
<1>2. plan' = plan /\ Live(t) /\ t \in Tasks(plan) /\ plan \in Plan
  BY WorkerStep, LiveHere DEF mainVars, TypeOK
<1>3. /\ r' = r /\ ItemOf(t)' = ItemOf(t) /\ NeedsPlanStaging(t)' = NeedsPlanStaging(t)
      /\ Reach(t)' = Reach(t) /\ Wanted(t)' = Wanted(t)
  BY <1>2, SameTask
<1>4. Wanted(t) \subseteq Path /\ (NeedsPlanStaging(t) => Scoped(ItemOf(t))) /\ StagedBy(t)
  BY <1>2, WantedType, ItemType DEF StageInv
<1>5. CASE thread'[t] \notin {"reset", "add", "commit"}
  BY <1>5 DEF StagedBy
<1>6. CASE CheckScope(t) /\ thread'[t] = "reset"
  <2>1. /\ NeedsPlanStaging(t) /\ index' = index /\ head' = head
        /\ in # {} => Staged(r) \subseteq in
    BY <1>6 DEF CheckScope, Return, gitVars, TypeOK
  <2>2. in # {} => \A f \in Path \ in : Untouched(r, f)'
    BY <2>1, <1>3 DEF Staged, Untouched, Here
  <2> QED
    BY <1>3, <1>6, <2>1, <2>2 DEF StagedBy
<1>7. CASE Preflight(t) /\ thread'[t] \in {"add", "commit"}
  <2>1. /\ ~NeedsPlanStaging(t) /\ index' = index
        /\ thread'[t] = "commit" => Unstaged(r) = {}
    BY <1>7 DEF Preflight, Return, Step, gitVars, TypeOK
  <2>2. in = {} /\ Reach(t) = Path
    BY <2>1 DEF NeedsPlanStaging, Scoped, Reach
  <2>3. thread'[t] = "commit" => \A f \in Path : index'[r][f] = Work(r, f)'
    BY <2>1 DEF Unstaged
  <2> QED
    BY <1>3, <1>4, <1>7, <2>1, <2>2, <2>3 DEF StagedBy
<1>8. CASE Reset(t) /\ thread'[t] = "add"
  <2>1. /\ head' = head /\ theirs' = theirs /\ thread[t] = "reset"
        /\ index' = [index EXCEPT ![r] =
                        [f \in Path |-> IF f \in (IF in = {} THEN Path ELSE in)
                                        THEN head[r][f] ELSE index[r][f]]]
    BY <1>8 DEF Reset, LockFailure, Return, TypeOK
  <2>2. NeedsPlanStaging(t) /\ (in # {} => \A f \in Path \ in : Untouched(r, f))
    BY <1>4, <2>1 DEF StagedBy
  <2>3. index'[r] = [f \in Path |-> IF f \in (IF in = {} THEN Path ELSE in)
                                    THEN head[r][f] ELSE index[r][f]]
    BY <1>1, <2>1 DEF TypeOK
  <2>4. ASSUME NEW f \in Path PROVE Untouched(r, f)'
    <3>1. CASE in = {} \/ f \in in
      BY <1>3, <2>1, <2>3, <3>1 DEF Untouched
    <3>2. CASE in # {} /\ f \notin in
      BY <1>3, <2>1, <2>2, <2>3, <3>2 DEF Untouched, Theirs
    <3> QED
      BY <3>1, <3>2
  <2> QED
    BY <1>3, <1>8, <2>4 DEF StagedBy
<1>9. CASE Add(t) /\ thread'[t] = "commit"
  <2> DEFINE of == IF NeedsPlanStaging(t) THEN Pathspec(t) ELSE Path
  <2>1. /\ head' = head /\ theirs' = theirs /\ thread[t] = "add"
        /\ index' = [index EXCEPT ![r] =
                        [f \in Path |-> IF f \in of THEN Work(r, f) ELSE index[r][f]]]
    BY <1>9 DEF Add, LockFailure, Return, TypeOK
  <2>2. NeedsPlanStaging(t) => \A f \in Path : Untouched(r, f)
    BY <1>4, <2>1 DEF StagedBy
  <2>3. /\ of \subseteq Reach(t)
        /\ r \notin plan.slow => \A f \in Wanted(t) : f \in of \/ index[r][f] = Work(r, f)
    <3>1. CASE NeedsPlanStaging(t)
      BY <1>2, <3>1, PathspecReach
    <3>2. CASE ~NeedsPlanStaging(t)
      BY <1>4, <3>2 DEF NeedsPlanStaging, Scoped, Reach
    <3> QED
      BY <3>1, <3>2
  <2> HIDE DEF of
  <2>4. \A f \in Path : index'[r][f] = IF f \in of THEN Work(r, f) ELSE index[r][f]
    BY <1>1, <2>1 DEF TypeOK
  <2>5. ASSUME NEW f \in Path
        PROVE  Untouched(r, f)' \/ (f \in Reach(t) /\ index'[r][f] = Work(r, f)')
    <3>1. CASE f \in of
      BY <2>3, <2>4, <3>1
    <3>2. CASE f \notin of
      BY <1>3, <2>1, <2>2, <2>4, <3>2 DEF Untouched, Theirs, of
    <3> QED
      BY <3>1, <3>2
  <2>6. r \notin plan.slow => \A f \in Wanted(t) : index'[r][f] = Work(r, f)'
    BY <1>4, <2>3, <2>4
  <2> QED
    BY <1>2, <1>3, <1>9, <2>5, <2>6 DEF StagedBy
<1>10. CASE ~CheckScope(t) /\ ~Preflight(t) /\ ~Reset(t) /\ ~Add(t)
  <2>1. thread'[t] \in Places \ {"reset", "add", "commit"}
    BY <1>10, <1>2 DEF Worker, Commit, Enter, Probe, Diagnose, RemoveLock, Converge, Step, Return,
                GiveUp, LockFailure, TypeOK, Places
  <2> QED
    BY <1>5, <2>1
<1>11. /\ CheckScope(t) => thread'[t] \in {"reset", "done"}
       /\ Preflight(t) => thread'[t] \in {"add", "commit", "done"}
       /\ Reset(t) => thread'[t] \in {"add", "done", "recover"}
       /\ Add(t) => thread'[t] \in {"commit", "done", "recover"}
  BY DEF CheckScope, Preflight, Reset, Add, Step, Return, LockFailure, TypeOK
<1> QED
  BY <1>5, <1>6, <1>7, <1>8, <1>9, <1>10, <1>11

LEMMA WorkerStage ==
    ASSUME TypeOK, PlanInv, RunInv, StageInv, NEW t \in AllTasks, Worker(t)
    PROVE  StageInv'
<1>1. plan' = plan /\ Live(t) /\ t \in waves[wave]
  BY WorkerStep, LiveHere DEF mainVars
<1>2. \A u \in AllTasks : thread[u] # "none" => \A f \in Path : Work(Here(u), f)' = Work(Here(u), f)
  BY WorkStays
<1>3. StagedBy(t)'
  BY <1>1, <1>2, OwnStage DEF Live
<1>4. ASSUME NEW u \in AllTasks, u # t PROVE StagedBy(u)'
  <2>1. thread'[u] = thread[u] /\ StagedBy(u) /\ Here(u) \in Repo
    BY <1>4, WorkerStep, TaskTypes DEF TypeOK, StageInv
  <2>2. CASE ~Live(u)
    BY <2>1, <2>2 DEF StagedBy, Live
  <2>3. CASE Live(u)
    <3>1. Here(u) # Here(t)
      BY <1>1, <1>4, <2>3, AloneLive
    <3>2. /\ index'[Here(u)] = index[Here(u)] /\ head'[Here(u)] = head[Here(u)]
          /\ theirs'[Here(u)] = theirs[Here(u)]
      BY <2>1, <3>1, RepoStep
    <3>3. u \in Tasks(plan) /\ thread[u] # "none"
      BY <2>3, LiveHere DEF Live
    <3>4. Wanted(u) \subseteq Path
      BY <3>3, WantedType DEF TypeOK
    <3> QED
      BY <1>1, <1>2, <2>1, <3>2, <3>3, <3>4, StagedStays
  <2> QED
    BY <2>2, <2>3
<1> QED
  BY <1>3, <1>4 DEF StageInv

\* Another program stages a path: it is then theirs.
LEMMA ReleaseStage ==
    ASSUME TypeOK, RunInv, StageInv, NEW r \in Repo, Release(r)
    PROVE  StageInv'
<1>1. /\ UNCHANGED <<plan, thread, head, log>>
      /\ \/ UNCHANGED <<index, theirs>>
         \/ \E g \in Path : /\ index' = [index EXCEPT ![r][g] = 3]
                            /\ theirs' = [theirs EXCEPT ![r] = @ \cup {g}]
  BY DEF Release, mainVars, taskVars
<1>2. \A q \in Repo : \A f \in Path :
         \/ index'[q][f] = index[q][f] /\ (f \in theirs[q] => f \in theirs'[q])
         \/ index'[q][f] = 3 /\ f \in theirs'[q]
  <2>1. CASE UNCHANGED <<index, theirs>>
    BY <2>1
  <2>2. ASSUME NEW g \in Path, index' = [index EXCEPT ![r][g] = 3],
               theirs' = [theirs EXCEPT ![r] = @ \cup {g}],
               NEW q \in Repo, NEW f \in Path
        PROVE  \/ index'[q][f] = index[q][f] /\ (f \in theirs[q] => f \in theirs'[q])
               \/ index'[q][f] = 3 /\ f \in theirs'[q]
    <3>1. index[r] \in [Path -> Nat] /\ index \in [Repo -> [Path -> Nat]]
      BY DEF TypeOK
    <3>2. index'[r] = [index[r] EXCEPT ![g] = 3] /\ theirs'[r] = theirs[r] \cup {g}
      BY <2>2 DEF TypeOK
    <3>3. q # r => index'[q] = index[q] /\ theirs'[q] = theirs[q]
      BY <2>2 DEF TypeOK
    <3>4. index'[r][g] = 3 /\ (f # g => index'[r][f] = index[r][f])
      BY <3>1, <3>2
    <3>5. CASE q = r /\ f = g
      BY <3>2, <3>4, <3>5
    <3>6. CASE q = r /\ f # g
      BY <3>2, <3>4, <3>6
    <3> QED
      BY <3>3, <3>5, <3>6
  <2> QED
    BY <1>1, <2>1, <2>2
<1>3. ASSUME NEW t \in AllTasks PROVE StagedBy(t)'
  <2>1. StagedBy(t) /\ Here(t) \in Repo
    BY TaskTypes DEF StageInv
  <2>2. /\ Here(t)' = Here(t) /\ ItemOf(t)' = ItemOf(t)
        /\ NeedsPlanStaging(t)' = NeedsPlanStaging(t)
        /\ Reach(t)' = Reach(t) /\ Wanted(t)' = Wanted(t)
    BY <1>1, SameTask
  <2>3. \A f \in Path : Work(Here(t), f)' = Work(Here(t), f)
    BY <1>1 DEF Work, Here
  <2>4. ASSUME NEW f \in Path
        PROVE  /\ Untouched(Here(t), f) => Untouched(Here(t), f)'
               /\ index[Here(t)][f] = Work(Here(t), f) =>
                     index'[Here(t)][f] = Work(Here(t), f)' \/ Theirs(Here(t), f)'
               /\ Theirs(Here(t), f) => Theirs(Here(t), f)'
               /\ Theirs(Here(t), f)' => Untouched(Here(t), f)'
    <3>1. \/ /\ index'[Here(t)][f] = index[Here(t)][f]
             /\ f \in theirs[Here(t)] => f \in theirs'[Here(t)]
          \/ index'[Here(t)][f] = 3 /\ f \in theirs'[Here(t)]
      BY <1>2, <2>1
    <3> QED
      BY <1>1, <2>3, <3>1 DEF Untouched, Theirs, Here
  <2>5. CASE thread[t] = "commit"
    <3>1. Wanted(t) \subseteq Path
      BY <2>5, LiveHere, WantedType DEF Live, TypeOK
    <3>2. \A f \in Path :
             Untouched(Here(t), f)' \/ (f \in Reach(t) /\ index'[Here(t)][f] = Work(Here(t), f)')
      BY <2>1, <2>4, <2>5 DEF StagedBy
    <3>3. Here(t) \notin plan.slow =>
             \A f \in Wanted(t) : index'[Here(t)][f] = Work(Here(t), f)' \/ Theirs(Here(t), f)'
      BY <2>1, <2>4, <2>5, <3>1 DEF StagedBy
    <3> QED
      BY <1>1, <2>2, <2>5, <3>2, <3>3 DEF StagedBy
  <2>6. CASE thread[t] # "commit"
    BY <1>1, <2>1, <2>2, <2>4, <2>6 DEF StagedBy
  <2> QED
    BY <2>5, <2>6
<1> QED
  BY <1>3 DEF StageInv

LEMMA NextStage == TypeOK /\ PlanInv /\ RunInv /\ StageInv /\ [Next]_vars => StageInv'
<1> SUFFICES ASSUME TypeOK, PlanInv, RunInv, StageInv, [Next]_vars PROVE StageInv'
  OBVIOUS
<1>1. CASE \/ Main \/ UNCHANGED vars
           \/ \E r \in Repo : Take(r) \/ Die(r) \/ Age(r)
  <2>1. UNCHANGED <<plan, index, head, log, theirs>>
    BY <1>1 DEF Main, PlanWave, PlanDone, StartWave, Spawn, Harvest, AppendEvent, Finish,
                Take, Die, Age, vars, mainVars, gitVars
  <2>2. ASSUME NEW t \in AllTasks PROVE thread'[t] = thread[t] \/ thread'[t] = "scope"
    BY <1>1 DEF Main, PlanWave, PlanDone, StartWave, Spawn, Harvest, AppendEvent, Finish,
                Take, Die, Age, vars, taskVars, TypeOK
  <2>3. ASSUME NEW t \in AllTasks PROVE StagedBy(t)'
    <3>1. CASE thread'[t] = "scope"
      BY <3>1 DEF StagedBy
    <3>2. CASE thread'[t] = thread[t] /\ thread[t] # "none"
      <4>1. Wanted(t) \subseteq Path
        BY <3>2, Started, WantedType DEF TypeOK
      <4>2. \A f \in Path : Work(Here(t), f)' = Work(Here(t), f)
        BY <2>1 DEF Work, Here
      <4> QED
        BY <2>1, <3>2, <4>1, <4>2, StagedStays DEF StageInv
    <3>3. CASE thread'[t] = "none"
      BY <3>3 DEF StagedBy
    <3> QED
      BY <2>2, <3>1, <3>2, <3>3
  <2> QED
    BY <2>3 DEF StageInv
<1> QED
  BY <1>1, WorkerStage, ReleaseStage DEF Next, Others, Ended

-----------------------------------------------------------------------------
(* What is committed                                                       *)

\* The entry of a commit is what was staged.
LEMMA NewEntry ==
    ASSUME TypeOK, NEW t \in AllTasks, MoveBranch(t)
    PROVE  LET r == Here(t)
               n == Len(log[r])
           IN  /\ n \in Nat /\ DOMAIN log[r] = 1..n /\ DOMAIN log'[r] = 1..(n + 1)
               /\ \A k \in 1..n : log'[r][k] = log[r][k]
               /\ log'[r][n + 1].item = t[2] /\ log'[r][n + 1].paths = Staged(r)
               /\ log'[r][n + 1].theirs = theirs[r]
               /\ head'[r] = index[r]
               /\ \A q \in Repo : q # r => log'[q] = log[q] /\ head'[q] = head[q]
<1> DEFINE r == Here(t)
           e == [item |-> t[2], paths |-> Staged(r), theirs |-> theirs[r]]
<1>1. /\ r \in Repo /\ t[2] \in 1..MaxItems /\ theirs[r] \in SUBSET Path
      /\ log[r] \in Seq(Entry) /\ Len(log[r]) \in Nat
  BY TaskTypes
<1>2. e \in Entry /\ e.item = t[2] /\ e.paths = Staged(r) /\ e.theirs = theirs[r]
  BY <1>1 DEF Entry, Staged
<1>3. log' = [log EXCEPT ![r] = Append(log[r], e)] /\ head' = [head EXCEPT ![r] = index[r]]
  BY DEF MoveBranch
<1> HIDE DEF e
<1>4. /\ Append(log[r], e)[Len(log[r]) + 1] = e
      /\ \A i \in 1..Len(log[r]) : Append(log[r], e)[i] = log[r][i]
      /\ DOMAIN Append(log[r], e) = 1..(Len(log[r]) + 1)
      /\ DOMAIN log[r] = 1..Len(log[r])
  BY <1>1, <1>2
<1>5. /\ log'[r] = Append(log[r], e) /\ head'[r] = index[r]
      /\ \A q \in Repo : q # r => log'[q] = log[q] /\ head'[q] = head[q]
  BY <1>1, <1>3 DEF TypeOK
<1> QED
  BY <1>1, <1>2, <1>4, <1>5

\* A branch moves only when a task commits, with what StagedBy says.
LEMMA NextMoves ==
    ASSUME TypeOK, RunInv, [Next]_vars
    PROVE  /\ plan' = plan
           /\ \/ UNCHANGED <<head, log>>
              \/ \E t \in AllTasks : Commit(t) /\ MoveBranch(t)
<1>1. CASE Main
  BY <1>1 DEF Main, PlanWave, PlanDone, StartWave, Spawn, Harvest, AppendEvent, Finish, gitVars
<1>2. CASE \E t \in AllTasks : Worker(t)
  BY <1>2, WorkerStep, QuietStep, CommitStep DEF mainVars
<1>3. CASE Others
  BY <1>3 DEF Others, Take, Release, Die, Age, mainVars, gitVars
<1>4. CASE UNCHANGED vars
  BY <1>4 DEF vars, mainVars, gitVars
<1> QED
  BY <1>1, <1>2, <1>3, <1>4 DEF Next, Ended

LEMMA InitScope == Init => ListedScope
<1> SUFFICES ASSUME Init, NEW r \in Repo PROVE DOMAIN log[r] = {}
  BY DEF ListedScope
<1> QED
  BY DEF Init

LEMMA NextScope == TypeOK /\ RunInv /\ StageInv /\ ListedScope /\ [Next]_vars => ListedScope'
<1> SUFFICES ASSUME TypeOK, RunInv, StageInv, ListedScope, [Next]_vars PROVE ListedScope'
  OBVIOUS
<1>1. plan' = plan
  BY NextMoves
<1>2. CASE UNCHANGED <<head, log>>
  BY <1>1, <1>2 DEF ListedScope, Scope, Unmanaged, Managed
<1>3. ASSUME NEW t \in AllTasks, Commit(t), MoveBranch(t) PROVE ListedScope'
  <2> DEFINE r == Here(t)
             n == Len(log[r])
             item == ItemOf(t)
  <2>1. /\ r \in Repo /\ n \in Nat /\ DOMAIN log[r] = 1..n /\ DOMAIN log'[r] = 1..(n + 1)
        /\ \A k \in 1..n : log'[r][k] = log[r][k]
        /\ log'[r][n + 1].item = t[2] /\ log'[r][n + 1].paths = Staged(r)
        /\ log'[r][n + 1].theirs = theirs[r]
        /\ \A q \in Repo : q # r => log'[q] = log[q]
    BY <1>3, NewEntry, TaskTypes
  <2>2. thread[t] = "commit"
    BY <1>3 DEF Commit
  <2>3. \A f \in Path : Untouched(r, f) \/ f \in Reach(t)
    BY <2>2 DEF StageInv, StagedBy
  <2>4. Staged(r) \subseteq Reach(t) \cup theirs[r]
    BY <2>3 DEF Staged, Untouched, Theirs
  <2>5. plan.items[r][t[2]] = item
    BY DEF ItemOf, Here
  <2>6. item.include # {} => Staged(r) \subseteq Scope(r, item) \cup theirs[r]
    BY <2>4 DEF Reach
  <2>8. ASSUME NEW q \in Repo, NEW k \in DOMAIN log'[q],
               plan.items[q][log'[q][k].item].include # {}
        PROVE  log'[q][k].paths \subseteq
                  Scope(q, plan.items[q][log'[q][k].item]) \cup log'[q][k].theirs
    <3>1. CASE q = r /\ k = n + 1
      BY <2>1, <2>5, <2>6, <2>8, <3>1
    <3>2. CASE ~(q = r /\ k = n + 1)
      <4>1. k \in DOMAIN log[q] /\ log'[q][k] = log[q][k]
        BY <2>1, <3>2
      <4> QED
        BY <2>8, <4>1 DEF ListedScope
    <3> QED
      BY <3>1, <3>2
  <2> QED
    BY <1>1, <2>8 DEF ListedScope, Scope, Unmanaged, Managed
<1> QED
  BY <1>2, <1>3, NextMoves

-----------------------------------------------------------------------------
(* What the branches hold                                                  *)

LEMMA InitHead == Init => HeadInv
<1> SUFFICES ASSUME Init PROVE HeadInv
  OBVIOUS
<1>1. \A r \in Repo : \A f \in Path : head[r][f] = 0
  BY DEF Init
<1>2. \A t \in Tasks(plan) : thread[t] = "none"
  BY TasksAreTasks DEF Init
<1> QED
  BY <1>1, <1>2 DEF HeadInv

\* A repository that has a commit of this run has a task that is done.
LEMMA CommittedBy ==
    ASSUME TypeOK, Told, NEW r \in Repo, log[r] # <<>>
    PROVE  \E t \in AllTasks : Here(t) = r /\ thread[t] = "done"
<1>1. log[r] \in Seq(Entry) /\ Len(log[r]) \in Nat /\ DOMAIN log[r] = 1..Len(log[r])
  BY DEF TypeOK
<1>2. 1 \in DOMAIN log[r]
  BY <1>1
<1>3. log[r][1] \in Entry
  BY <1>1, <1>2
<1>4. log[r][1].item \in 1..MaxItems
  BY <1>3 DEF Entry
<1> DEFINE t == <<r, log[r][1].item>>
<1>5. t \in AllTasks /\ t[1] = r /\ t[2] = log[r][1].item
  BY <1>4 DEF AllTasks
<1> HIDE DEF t
<1>6. 1 \in Own(t)
  BY <1>2, <1>5 DEF Own, Here
<1> QED
  BY <1>5, <1>6 DEF Told, TaskTold, Here

\* What is committed of a repository a task was started in stays so: the next
\* commit of that repository keeps it, commits the working tree's version, or
\* is one of another program's.
LEMMA KeepsWorked ==
    ASSUME TypeOK, PlanInv, RunInv, StageInv, NEW t \in AllTasks, Commit(t), MoveBranch(t),
           NEW u \in AllTasks, thread[u] # "none", NEW f \in Path
    PROVE  /\ AsWorked(Here(u), f) => AsWorked(Here(u), f)'
           /\ Here(u) = Here(t) /\ Theirs(Here(t), f) => Logged(Here(t), f)'
           /\ Here(u) = Here(t) /\ index[Here(t)][f] = Work(Here(t), f) => AsWorked(Here(t), f)'
<1> DEFINE r == Here(t)
           n == Len(log[r])
           q == Here(u)
<1>1. /\ r \in Repo /\ q \in Repo /\ n \in Nat /\ DOMAIN log[r] = 1..n
      /\ DOMAIN log'[r] = 1..(n + 1) /\ \A k \in 1..n : log'[r][k] = log[r][k]
      /\ log'[r][n + 1].theirs = theirs[r] /\ head'[r] = index[r]
      /\ \A p \in Repo : p # r => log'[p] = log[p] /\ head'[p] = head[p]
  BY NewEntry, TaskTypes
<1>2. Work(q, f)' = Work(q, f)
  BY WorkStays DEF Worker
<1>3. Logged(q, f) => Logged(q, f)'
  <2>1. CASE q = r
    BY <1>1, <2>1 DEF Logged, Here
  <2>2. CASE q # r
    BY <1>1, <2>2 DEF Logged, Here
  <2> QED
    BY <2>1, <2>2
<1>4. Theirs(r, f) => Logged(r, f)'
  BY <1>1 DEF Theirs, Logged, Here
<1>5. q = r /\ index[r][f] = Work(r, f) => AsWorked(r, f)'
  BY <1>1, <1>2 DEF AsWorked, Here
<1>6. thread[t] = "commit"
  BY DEF Commit
<1>7. Untouched(r, f) \/ index[r][f] = Work(r, f)
  BY <1>6 DEF StageInv, StagedBy
<1>8. AsWorked(q, f) => AsWorked(q, f)'
  <2>1. CASE q # r
    BY <1>1, <1>2, <1>3, <2>1 DEF AsWorked, Here
  <2>2. CASE q = r /\ index[r][f] = head[r][f]
    BY <1>1, <1>2, <1>3, <2>2 DEF AsWorked, Here
  <2>3. CASE q = r /\ Theirs(r, f)
    BY <1>4, <2>3 DEF AsWorked, Here
  <2>4. CASE q = r /\ index[r][f] = Work(r, f)
    BY <1>5, <2>4 DEF AsWorked, Here
  <2> QED
    BY <1>7, <2>1, <2>2, <2>3, <2>4 DEF Untouched
<1> QED
  BY <1>4, <1>5, <1>8

\* What a branch holds is what it held, or what the working tree holds.
LEMMA CommitHead ==
    ASSUME TypeOK, PlanInv, RunInv, Told, StageInv, HeadInv,
           NEW t \in AllTasks, Commit(t), MoveBranch(t), NEW q \in Repo, NEW f \in Path
    PROVE  /\ log'[q] = <<>> => head'[q][f] = 0
           /\ head'[q][f] = 0 \/ AsWorked(q, f)'
<1> DEFINE r == Here(t)
           n == Len(log[r])
<1>1. /\ r \in Repo /\ n \in Nat /\ DOMAIN log'[r] = 1..(n + 1) /\ head'[r] = index[r]
      /\ \A p \in Repo : p # r => log'[p] = log[p] /\ head'[p] = head[p]
  BY NewEntry, TaskTypes
<1>2. thread[t] = "commit"
  BY DEF Commit
<1>3. CASE q = r
  <2>1. n + 1 \in DOMAIN log'[q]
    BY <1>1, <1>3
  <2>2. log'[q] # <<>>
    BY <2>1
  <2>3. Untouched(r, f) \/ index[r][f] = Work(r, f)
    BY <1>2 DEF StageInv, StagedBy
  <2>4. CASE index[r][f] = head[r][f]
    <3>1. head[r][f] = 0 \/ AsWorked(r, f)
      BY <1>1 DEF HeadInv
    <3>2. AsWorked(r, f) => AsWorked(r, f)'
      BY <1>2, KeepsWorked
    <3> QED
      BY <1>1, <1>3, <2>2, <2>4, <3>1, <3>2 DEF AsWorked, Here
  <2>5. CASE index[r][f] # head[r][f]
    <3>1. AsWorked(r, f)'
      BY <1>2, <2>3, <2>5, KeepsWorked DEF Untouched, AsWorked
    <3> QED
      BY <1>3, <2>2, <3>1 DEF AsWorked, Here
  <2> QED
    BY <2>4, <2>5
<1>4. CASE q # r
  <2>1. log'[q] = log[q] /\ head'[q] = head[q]
    BY <1>1, <1>4
  <2>2. CASE log[q] = <<>>
    BY <2>1, <2>2 DEF HeadInv
  <2>3. CASE log[q] # <<>>
    <3>1. PICK u \in AllTasks : Here(u) = q /\ thread[u] = "done"
      BY <2>3, CommittedBy
    <3>2. AsWorked(q, f) => AsWorked(q, f)'
      BY <3>1, KeepsWorked DEF AsWorked, Here
    <3> QED
      BY <2>1, <2>3, <3>2 DEF HeadInv
  <2> QED
    BY <2>2, <2>3
<1> QED
  BY <1>3, <1>4

\* How a task is done without a failure.
LEMMA DoneHow ==
    ASSUME TypeOK, NEW t \in AllTasks, Worker(t), thread'[t] = "done", result'[t] # "failed",
           Here(t) \notin plan.slow
    PROVE  \/ /\ thread[t] = "scope" /\ UNCHANGED <<head, log>>
              /\ Staged(Here(t)) = {} /\ Unstaged(Here(t)) = {}
           \/ thread[t] = "commit" /\ UNCHANGED <<head, log>> /\ Staged(Here(t)) = {}
           \/ Commit(t) /\ MoveBranch(t)
<1> USE DEF TypeOK, Step, Return, GiveUp, LockFailure, gitVars
<1>1. CASE CheckScope(t) BY <1>1 DEF CheckScope
<1>2. CASE Preflight(t) BY <1>2 DEF Preflight
<1>3. CASE Reset(t) BY <1>3 DEF Reset
<1>4. CASE Add(t) BY <1>4 DEF Add
<1>5. CASE Commit(t)
  <2>1. CASE MoveBranch(t)
    BY <1>5, <2>1
  <2>2. CASE ~MoveBranch(t)
    BY <1>5, <2>2 DEF Commit
  <2> QED
    BY <2>1, <2>2
<1>6. CASE Enter(t) BY <1>6 DEF Enter
<1>7. CASE Probe(t) BY <1>7 DEF Probe
<1>8. CASE Diagnose(t) BY <1>8 DEF Diagnose
<1>9. CASE RemoveLock(t) BY <1>9 DEF RemoveLock
<1>10. CASE Converge(t) BY <1>10 DEF Converge
<1> QED
  BY <1>1, <1>2, <1>3, <1>4, <1>5, <1>6, <1>7, <1>8, <1>9, <1>10 DEF Worker

\* What a task that did not fail was asked to commit is committed.
LEMMA DoneHead ==
    ASSUME TypeOK, PlanInv, RunInv, StageInv, HeadInv,
           NEW t \in AllTasks, Worker(t), thread'[t] = "done", result'[t] # "failed",
           Here(t) \notin plan.slow, NEW f \in Wanted(t)
    PROVE  AsWorked(Here(t), f)'
<1> DEFINE r == Here(t)
<1>1. /\ Live(t) /\ r \in Repo /\ t \in Tasks(plan)
  BY WorkerStep, LiveHere, TaskTypes
<1>2. f \in Path /\ Work(r, f)' = Work(r, f)
  BY <1>1, WantedType, WorkStays DEF TypeOK, Live
<1>3. thread[t] = "commit" => index[r][f] = Work(r, f) \/ Theirs(r, f)
  BY DEF StageInv, StagedBy
<1>4. CASE UNCHANGED <<head, log>> /\ AsWorked(r, f)
  BY <1>2, <1>4 DEF AsWorked, Logged, Here
<1>5. CASE UNCHANGED <<head, log>> /\ Staged(r) = {} /\ Unstaged(r) = {}
  <2>1. head[r][f] = index[r][f] /\ index[r][f] = Work(r, f)
    BY <1>2, <1>5 DEF Staged, Unstaged
  <2> QED
    BY <1>4, <1>5, <2>1 DEF AsWorked
<1>6. CASE UNCHANGED <<head, log>> /\ thread[t] = "commit" /\ Staged(r) = {}
  <2>1. head[r][f] = index[r][f]
    BY <1>2, <1>6 DEF Staged
  <2>2. head[r][f] = 0 \/ AsWorked(r, f)
    BY <1>1, <1>2 DEF HeadInv
  <2> QED
    BY <1>3, <1>4, <1>6, <2>1, <2>2 DEF Theirs, AsWorked
<1>7. CASE Commit(t) /\ MoveBranch(t)
  <2>1. /\ Theirs(r, f) => Logged(r, f)'
        /\ index[r][f] = Work(r, f) => AsWorked(r, f)'
    BY <1>1, <1>2, <1>7, KeepsWorked DEF Live
  <2>2. thread[t] = "commit"
    BY <1>7 DEF Commit
  <2> QED
    BY <1>3, <2>1, <2>2 DEF AsWorked, Here
<1> QED
  BY <1>4, <1>5, <1>6, <1>7, DoneHow

LEMMA NextHead ==
    TypeOK /\ PlanInv /\ RunInv /\ Told /\ StageInv /\ HeadInv /\ [Next]_vars => HeadInv'
<1> SUFFICES ASSUME TypeOK, PlanInv, RunInv, Told, StageInv, HeadInv, [Next]_vars PROVE HeadInv'
  OBVIOUS
<1>1. plan' = plan
  BY NextMoves
<1>2. \A t \in AllTasks : Wanted(t)' = Wanted(t)
  BY <1>1, SameTask
<1>3. ASSUME NEW q \in Repo, NEW f \in Path
      PROVE  /\ log'[q] = <<>> => head'[q][f] = 0
             /\ head'[q][f] = 0 \/ AsWorked(q, f)'
  <2>1. CASE UNCHANGED <<head, log>>
    <3>1. AsWorked(q, f)' = AsWorked(q, f)
      BY <1>1, <2>1 DEF AsWorked, Work, Logged
    <3> QED
      BY <2>1, <3>1 DEF HeadInv
  <2> QED
    BY <2>1, NextMoves, CommitHead
<1>4. ASSUME NEW u \in Tasks(plan), thread'[u] = "done", result'[u] # "failed",
             Here(u) \notin plan.slow, NEW f \in Wanted(u)
      PROVE  AsWorked(Here(u), f)'
  <2>1. u \in AllTasks /\ f \in Path
    BY <1>4, TasksAreTasks, WantedType DEF TypeOK
  <2>2. CASE thread[u] = "done" /\ result[u] # "failed"
    <3>1. AsWorked(Here(u), f)
      BY <1>4, <2>2 DEF HeadInv
    <3>2. CASE UNCHANGED <<head, log>>
      BY <1>1, <3>1, <3>2 DEF AsWorked, Work, Logged, Here
    <3> QED
      BY <2>1, <2>2, <3>1, <3>2, NextMoves, KeepsWorked
  <2>3. CASE ~(thread[u] = "done" /\ result[u] # "failed")
    <3>1. \/ Worker(u)
          \/ thread'[u] = thread[u] /\ result'[u] = result[u]
          \/ thread'[u] = "scope"
      <4>1. CASE Main
        BY <2>1, <4>1 DEF Main, PlanWave, PlanDone, StartWave, Spawn, Harvest, AppendEvent, Finish,
                          taskVars, TypeOK
      <4>2. ASSUME NEW t \in AllTasks, Worker(t), t # u
            PROVE  thread'[u] = thread[u] /\ result'[u] = result[u]
        <5>1. thread'[u] = thread[u]
          BY <2>1, <4>2, WorkerStep DEF TypeOK
        <5>2. result' = result \/ \E x : result' = [result EXCEPT ![t] = x]
          BY <4>2, QuietStep, CommitStep
        <5> QED
          BY <2>1, <4>2, <5>1, <5>2 DEF TypeOK
      <4>3. CASE Others \/ UNCHANGED vars
        BY <4>3 DEF Others, Take, Release, Die, Age, vars, taskVars
      <4> QED
        BY <4>1, <4>2, <4>3 DEF Next, Ended
    <3>2. Worker(u)
      BY <1>4, <2>3, <3>1
    <3> QED
      BY <1>4, <2>1, <3>2, DoneHead
  <2> QED
    BY <2>2, <2>3
<1> QED
  BY <1>1, <1>2, <1>3, <1>4, TasksAreTasks DEF HeadInv, Here

-----------------------------------------------------------------------------
(* The invariant                                                           *)

LEMMA InitIInv == Init => IInv
BY InitTypes, InitRun, InitTold, InitRecovery, InitStage, InitHead, InitScope DEF IInv

LEMMA NextIInv == IInv /\ [Next]_vars => IInv'
BY NextTypes, NextPlan, NextRun, NextTold, NextRecovery, NextStage, NextHead, NextScope DEF IInv

\* Everything that the theorems below rest on holds throughout.
THEOREM CommitInvariant == Spec => []IInv
BY InitIInv, NextIInv, PTL DEF Spec

\* Every variable has its type.
THEOREM CommitTypes == Spec => []TypeOK
<1>1. IInv => TypeOK
  BY DEF IInv
<1> QED
  BY <1>1, CommitInvariant, PTL

\* Nested repositories are committed first, and so is what a repository that
\* waits depends on.
THEOREM CommitChildFirst == Spec => []ChildFirst
<1>1. IInv => ChildFirst
  <2> SUFFICES ASSUME IInv, NEW s \in Tasks(plan), NEW t \in Tasks(plan), thread[t] # "none",
                      \/ Here(s) \in plan.nested[Here(t)]
                      \/ Here(s) # Here(t) /\ Here(t) \in plan.deps[Here(s)] /\ ~Circular(plan)
               PROVE  thread[s] = "done"
    BY DEF ChildFirst
  <2>1. Precedes(s, t)
    BY DEF Precedes
  <2> QED
    BY <2>1, BeforeIsDone, TasksAreTasks DEF IInv
<1> QED
  BY <1>1, CommitInvariant, PTL

\* A commit of a listed item holds what is listed, pointers to nested
\* repositories and what others staged meanwhile.
THEOREM CommitScope == Spec => []ListedScope
<1>1. IInv => ListedScope
  BY DEF IInv
<1> QED
  BY <1>1, CommitInvariant, PTL

\* With exit code 0 the branches hold what the items ask for.
THEOREM CommitZero == Spec => []ZeroMeansCommitted
<1>1. IInv => ZeroMeansCommitted
  <2> SUFFICES ASSUME IInv, pc = "done", ExitCode = 0, NEW t \in Tasks(plan),
                      Here(t) \notin plan.slow, NEW f \in Wanted(t)
               PROVE  AsWorked(Here(t), f)
    BY DEF ZeroMeansCommitted, AsWorked, Logged
  <2>1. t \in AllTasks
    BY TasksAreTasks
  <2>2. result[t] # "failed"
    BY <2>1 DEF ExitCode
  <2>3. PICK k \in DOMAIN waves : t \in waves[k]
    BY DEF IInv, PlanInv, Planned
  <2>4. wave = Len(waves) /\ ~InWave
    BY DEF IInv, RunInv, InWave
  <2>5. k < wave \/ k = wave
    BY <2>3, <2>4 DEF IInv, TypeOK
  <2>6. thread[t] = "done"
    BY <2>3, <2>4, <2>5 DEF IInv, RunInv
  <2> QED
    BY <2>2, <2>6 DEF IInv, HeadInv
<1> QED
  BY <1>1, CommitInvariant, PTL

\* What a task reports is what it did, and the audit says so of every task of
\* the waves before the one being run.
THEOREM CommitHonest == Spec => []HonestReport
<1>1. IInv => HonestReport
  <2> SUFFICES ASSUME IInv PROVE HonestReport
    OBVIOUS
  <2>1. \A t \in AllTasks : thread[t] = "done" =>
           IF result[t] = "committed" THEN Cardinality(Own(t)) = 1
           ELSE Own(t) = {} \/ t \in killed
    BY DEF IInv, Told, TaskTold
  <2>2. ASSUME NEW k \in 1..(wave - 1), NEW t \in waves[k]
        PROVE  Len(events[t]) = 2 /\ events[t][2] - events[t][1] = Cardinality(Own(t))
    <3>1. k \in DOMAIN waves /\ k < wave
      BY DEF IInv, TypeOK
    <3>2. t \in AllTasks
      BY <3>1, TasksAreTasks DEF IInv, TypeOK
    <3>3. thread[t] = "done" /\ Len(events[t]) = 2
      BY <3>1 DEF IInv, RunInv
    <3> QED
      BY <3>2, <3>3 DEF IInv, Told, TaskTold
  <2> QED
    BY <2>1, <2>2 DEF HonestReport
<1> QED
  BY <1>1, CommitInvariant, PTL

\* The recovery never removes a lock that a running git held when it looked.
THEOREM CommitLiveLock == Spec => LiveLockKept
<1> DEFINE Kept == \A t \in AllTasks :
                thread[t] = "remove" /\ thread'[t] = "converge" /\ lock[Here(t)] = "git"
                    => late[Here(t)] \/ psFailed
<1>1. IInv => [Kept]_vars
  <2> SUFFICES ASSUME IInv PROVE Kept
    OBVIOUS
  <2>1. ASSUME NEW t \in AllTasks, thread[t] = "remove", lock[Here(t)] = "git"
        PROVE  late[Here(t)] \/ psFailed
    BY <2>1 DEF IInv, RecoveryInv, Recovers
  <2> QED
    BY <2>1
<1> QED
  BY <1>1, CommitInvariant, PTL DEF LiveLockKept

=============================================================================
