----------------------------- MODULE ThreadProofs -----------------------------
(***************************************************************************)
(* Proofs about the two components that are threads of one process: the    *)
(* terminal dashboard, and the scheduler of operations on repositories.    *)
(*                                                                         *)
(* TuiDashboard, for any repositories, histories, page size and number of  *)
(* keys: a result that arrives does not take the user elsewhere, and the   *)
(* rows of a history are its anchor's newest commits.  DashboardInv says   *)
(* what the lifecycle record keeps while a panel is closed; HistoryInv,    *)
(* that a history is loaded by one operation at a time, which goes on      *)
(* where its rows end.                                                     *)
(*                                                                         *)
(* RepoOperationScheduler, for any number of repositories, any dependency  *)
(* graph, any lock keys and any number of jobs.                            *)
(***************************************************************************)
EXTENDS TuiDashboard, RepoOperationScheduler, FiniteSetTheorems, WellFoundedInduction, TLAPS

-----------------------------------------------------------------------------
(* TuiDashboard                                                            *)

Surfaces == {"None", "HistoryPage", "HistoryDetail", "Discover", "Preview"}

Lifecycle == [next : Nat, active : Nat, surface : Surfaces, busy : BOOLEAN,
              cancellable : BOOLEAN, dismissed : BOOLEAN, exit : BOOLEAN]

\* Only the preview can show an operation that cannot be cancelled.
OthersCancellable == (life.busy /\ life.surface # "Preview") => life.cancellable

\* The surface of the operation that runs is dismissed when it was closed.
ClosedIsDismissed == (life.busy /\ life.surface \in shut) => life.dismissed

LifeInv == life \in Lifecycle /\ OthersCancellable /\ ClosedIsDismissed

HistoryShape ==
    /\ history = [active |-> history.active, index |-> history.index, page |-> history.page,
                  mode |-> history.mode, detail |-> history.detail,
                  pending |-> history.pending, failed |-> history.failed]
    /\ history.active \in BOOLEAN

Panels ==
    /\ discover = [active |-> discover.active, loading |-> discover.loading]
    /\ preview = [active |-> preview.active, running |-> preview.running]

DashboardInv == LifeInv /\ HistoryShape /\ Panels

-----------------------------------------------------------------------------
(* The lifecycle                                                            *)

LEMMA Begins ==
    ASSUME NEW work, NEW s \in Surfaces, NEW c \in BOOLEAN, s # "Preview" => c,
           LifeInv, BeginOperation(work, s, c)
    PROVE  LifeInv' /\ life'.busy
<1>1. life' \in Lifecycle
  BY DashboardAssumption DEF LifeInv, BeginOperation, Lifecycle
<1>2. life'.busy /\ life'.surface = s /\ life'.cancellable = c /\ shut' = {}
  BY DEF BeginOperation
<1> QED BY <1>1, <1>2 DEF LifeInv, OthersCancellable, ClosedIsDismissed

LEMMA Cancels ==
    ASSUME NEW S, "Preview" \notin S, LifeInv, CancelSurface(S)
    PROVE  LifeInv' /\ life'.busy = life.busy
<1>1. CASE Cancellable(S)
  <2>1. life' = [life EXCEPT !.dismissed = TRUE]
    BY <1>1 DEF CancelSurface
  <2> QED BY <2>1 DEF LifeInv, Lifecycle, OthersCancellable, ClosedIsDismissed
<1>2. CASE ~Cancellable(S)
  <2>1. life' = life /\ shut' = shut \cup S
    BY <1>2 DEF CancelSurface
  <2>2. life.busy => life.surface \notin S
    BY <1>2 DEF Cancellable, LifeInv, OthersCancellable, Lifecycle
  <2> QED BY <2>1, <2>2 DEF LifeInv, OthersCancellable, ClosedIsDismissed
<1> QED BY <1>1, <1>2

LEMMA Dismisses ==
    ASSUME LifeInv, DismissPreview
    PROVE  LifeInv' /\ life'.busy = life.busy
<1>1. CASE life.busy /\ life.surface = "Preview"
  <2>1. life' = [life EXCEPT !.dismissed = TRUE]
    BY <1>1 DEF DismissPreview
  <2> QED BY <2>1 DEF LifeInv, Lifecycle, OthersCancellable, ClosedIsDismissed
<1>2. CASE ~(life.busy /\ life.surface = "Preview")
  <2>1. life' = life /\ shut' = shut \cup {"Preview"}
    BY <1>2 DEF DismissPreview
  <2> QED BY <1>2, <2>1 DEF LifeInv, OthersCancellable, ClosedIsDismissed
<1> QED BY <1>1, <1>2

LEMMA Ensures ==
    ASSUME NEW r, NEW p, LifeInv, EnsureHistoryLoaded(r, p)
    PROVE  LifeInv' /\ (life.busy => life'.busy)
<1> DEFINE c == WithDirtyRow(cache[r], r)
           asked == [kind |-> "page", repo |-> r, skip |-> Loaded(c),
                     count |-> FetchCount(c, p), anchor |-> c.anchor]
<1>1. CASE Wanted(c, p) /\ ~life.busy
  <2>1. BeginOperation(asked, "HistoryPage", TRUE)
    BY <1>1 DEF EnsureHistoryLoaded
  <2> HIDE DEF asked
  <2> QED BY <2>1, Begins DEF Surfaces
<1>2. CASE ~(Wanted(c, p) /\ ~life.busy)
  <2>1. UNCHANGED <<life, shut>>
    BY <1>2 DEF EnsureHistoryLoaded
  <2> QED BY <2>1 DEF LifeInv, OthersCancellable, ClosedIsDismissed
<1> QED BY <1>1, <1>2

LEMMA Stays ==
    ASSUME LifeInv, UNCHANGED <<life, shut>>
    PROVE  LifeInv' /\ life'.busy = life.busy
BY DEF LifeInv, OthersCancellable, ClosedIsDismissed

\* The shapes, where the panels and the history are left alone.
LEMMA ShapesStay ==
    ASSUME HistoryShape, Panels, UNCHANGED <<history, discover, preview>>
    PROVE  HistoryShape' /\ Panels'
BY DEF HistoryShape, Panels

-----------------------------------------------------------------------------
LEMMA InitDashboardInv == DashboardInit => DashboardInv
<1> SUFFICES ASSUME DashboardInit PROVE DashboardInv
  OBVIOUS
<1>1. LifeInv
  BY DEF DashboardInit, LifeInv, Lifecycle, Surfaces, OthersCancellable, ClosedIsDismissed
<1>2. HistoryShape
  BY DEF DashboardInit, HistoryShape, NoHistory
<1>3. Panels
  BY DEF DashboardInit, Panels
<1> QED BY <1>1, <1>2, <1>3 DEF DashboardInv

\* A key leaves a running operation running.
LEMMA KeyStep ==
    ASSUME DashboardInv, Keys
    PROVE  DashboardInv' /\ (life.busy => life'.busy)
<1> USE DEF DashboardInv
<1>1. CASE RefreshRow
  <2>1. LifeInv' /\ life'.busy
    <3>1. PICK i \in DOMAIN rows :
            BeginOperation([kind |-> "repo", repo |-> rows[i]], "None", TRUE)
      BY <1>1 DEF RefreshRow
    <3> DEFINE work == [kind |-> "repo", repo |-> rows[i]]
    <3>2. BeginOperation(work, "None", TRUE)
      BY <3>1
    <3> HIDE DEF work
    <3> QED BY <3>2, Begins DEF Surfaces
  <2> QED BY <1>1, <2>1, ShapesStay DEF RefreshRow, ui
<1>2. CASE Refresh
  <2> DEFINE work == [kind |-> "refresh", panel |-> discover.active]
             s == IF discover.active THEN "Discover" ELSE "None"
  <2>1. BeginOperation(work, s, TRUE)
    BY <1>2 DEF Refresh
  <2>2. s \in Surfaces
    BY DEF Surfaces
  <2> HIDE DEF work, s
  <2>3. LifeInv' /\ life'.busy
    BY <2>1, <2>2, Begins
  <2>4. HistoryShape' /\ Panels'
    BY <1>2 DEF Refresh, HistoryShape, Panels
  <2> QED BY <2>3, <2>4
<1>3. CASE Discover
  <2> DEFINE work == [kind |-> "discover"]
  <2>1. BeginOperation(work, "Discover", TRUE)
    BY <1>3 DEF Discover
  <2> HIDE DEF work
  <2>3. LifeInv' /\ life'.busy
    BY <2>1, Begins DEF Surfaces
  <2>4. HistoryShape' /\ Panels'
    BY <1>3 DEF Discover, HistoryShape, Panels
  <2> QED BY <2>3, <2>4
<1>4. CASE Command
  <2>0. /\ \/ preview' = [active |-> FALSE, running |-> FALSE]
           \/ preview' = [active |-> TRUE, running |-> TRUE]
        /\ UNCHANGED <<history, discover>>
    BY <1>4, Zenon DEF Command
  <2>1. HistoryShape' /\ Panels'
    BY <2>0 DEF HistoryShape, Panels
  <2>2. CASE life.busy
    BY <1>4, <2>1, <2>2, Stays DEF Command, Still
  <2>3. CASE ~life.busy
    <3>1. CASE BeginOperation([kind |-> "audit"], "Preview", TRUE)
      BY <2>1, <3>1, Begins DEF Surfaces
    <3>2. ASSUME NEW i \in DOMAIN rows,
                 BeginOperation([kind |-> "command", repo |-> rows[i]], "Preview", FALSE)
          PROVE  LifeInv' /\ life'.busy
      <4> DEFINE work == [kind |-> "command", repo |-> rows[i]]
      <4>1. BeginOperation(work, "Preview", FALSE)
        BY <3>2
      <4> HIDE DEF work
      <4> QED BY <4>1, Begins DEF Surfaces
    <3> QED BY <1>4, <2>1, <2>3, <3>1, <3>2 DEF Command
  <2> QED BY <2>2, <2>3
<1>5. CASE OpenHistory
  <2>1. PICK i \in DOMAIN rows :
            /\ history' = [NoHistory EXCEPT !.active = TRUE, !.index = i]
            /\ EnsureHistoryLoaded(rows[i], 0)
    BY <1>5 DEF OpenHistory
  <2>2. HistoryShape' /\ Panels'
    BY <1>5, <2>1 DEF OpenHistory, HistoryShape, Panels, NoHistory
  <2> QED BY <2>1, <2>2, Ensures
<1>6. CASE SwitchRepo
  <2>1. PICK i \in DOMAIN rows :
        /\ history' = DetailClosed([history EXCEPT !.index = i, !.page = 0])
        /\ IF Cancellable({"HistoryPage", "HistoryDetail"})
           THEN CancelSurface({"HistoryPage", "HistoryDetail"})
           ELSE EnsureHistoryLoaded(rows[i], 0)
    BY <1>6 DEF SwitchRepo
  <2>2. HistoryShape' /\ Panels'
    BY <1>6, <2>1 DEF SwitchRepo, HistoryShape, Panels, DetailClosed
  <2>3. LifeInv' /\ (life.busy => life'.busy)
    BY <2>1, Cancels, Ensures
  <2> QED BY <2>2, <2>3
<1>7. CASE MovePage
  <2>1. PICK p \in {history.page - 1, history.page + 1} \cap Nat :
        LET c == Ensured(Shown, p)
            moved == PageOf(c, p) # <<>> \/ p = 0 \/ (c.loading # NoGeneration /\ c.page = p)
        IN /\ history' = IF moved THEN DetailClosed([history EXCEPT !.page = p]) ELSE history
           /\ IF moved /\ Cancellable({"HistoryDetail"})
              THEN /\ CancelSurface({"HistoryDetail"})
                   /\ cache' = [cache EXCEPT ![Shown] = c]
              ELSE EnsureHistoryLoaded(Shown, p)
    BY <1>7 DEF MovePage
  <2>2. HistoryShape'
    <3>1. history' = DetailClosed([history EXCEPT !.page = p]) \/ history' = history
      BY <2>1
    <3> QED BY <3>1 DEF HistoryShape, DetailClosed
  <2>3. Panels'
    BY <1>7 DEF MovePage, Panels
  <2>4. CancelSurface({"HistoryDetail"}) \/ EnsureHistoryLoaded(Shown, p)
    BY <2>1
  <2>5. LifeInv' /\ (life.busy => life'.busy)
    BY <2>4, Cancels, Ensures
  <2> QED BY <2>2, <2>3, <2>5
<1>8. ASSUME NEW row, NEW mode, BeginDetail(row, mode)
      PROVE  LifeInv' /\ life'.busy /\ HistoryShape'
  <2> DEFINE work == [kind |-> "detail", repo |-> Shown, key |-> <<row, mode>>]
  <2>1. BeginOperation(work, "HistoryDetail", TRUE)
    BY <1>8 DEF BeginDetail
  <2> HIDE DEF work
  <2>2. LifeInv' /\ life'.busy
    BY <2>1, Begins DEF Surfaces
  <2>3. HistoryShape'
    BY <1>8 DEF BeginDetail, HistoryShape
  <2> QED BY <2>2, <2>3
<1>9. CASE OpenDetail
  <2> DEFINE c == Ensured(Shown, history.page)
  <2>1. PICK row \in ToSet(PageOf(c, history.page)) :
            \/ /\ history' = [history EXCEPT !.detail = row, !.pending = NoGeneration]
               /\ EnsureHistoryLoaded(Shown, history.page)
            \/ EnsureHistoryLoaded(Shown, history.page) /\ UNCHANGED history
            \/ BeginDetail(row, history.mode)
    BY <1>9 DEF OpenDetail
  <2>2. Panels'
    BY <1>9 DEF OpenDetail, Panels
  <2>3. CASE BeginDetail(row, history.mode)
    BY <2>2, <2>3, <1>8
  <2>4. CASE EnsureHistoryLoaded(Shown, history.page)
             /\ (UNCHANGED history
                 \/ history' = [history EXCEPT !.detail = row, !.pending = NoGeneration])
    <3>1. HistoryShape'
      BY <2>4 DEF HistoryShape
    <3> QED BY <2>2, <2>4, <3>1, Ensures
  <2> QED BY <2>1, <2>3, <2>4
<1>10. CASE ToggleMode
  <2> DEFINE mode == 1 - history.mode
  <2>1. \/ history' = [history EXCEPT !.mode = mode] /\ Still
        \/ history' = [history EXCEPT !.mode = mode, !.pending = NoGeneration] /\ Still
        \/ BeginDetail(history.detail, mode)
    BY <1>10 DEF ToggleMode
  <2>2. Panels'
    BY <1>10 DEF ToggleMode, Panels
  <2>3. CASE BeginDetail(history.detail, mode)
    BY <2>2, <2>3, <1>8
  <2>4. CASE Still /\ (\/ history' = [history EXCEPT !.mode = mode]
                       \/ history' = [history EXCEPT !.mode = mode, !.pending = NoGeneration])
    <3>1. HistoryShape'
      BY <2>4 DEF HistoryShape
    <3>2. LifeInv' /\ life'.busy = life.busy
      BY <2>4, Stays DEF Still
    <3> QED BY <2>2, <3>1, <3>2
  <2> QED BY <2>1, <2>3, <2>4
<1>11. CASE CloseDiscover
  <2>1. HistoryShape' /\ Panels'
    BY <1>11 DEF CloseDiscover, HistoryShape, Panels
  <2> QED BY <1>11, <2>1, Cancels DEF CloseDiscover
<1>12. CASE ClosePreview
  <2>1. HistoryShape' /\ Panels'
    BY <1>12 DEF ClosePreview, HistoryShape, Panels
  <2> QED BY <1>12, <2>1, Dismisses DEF ClosePreview
<1>13. CASE CloseDetail
  <2>1. HistoryShape' /\ Panels'
    BY <1>13 DEF CloseDetail, DetailClosed, HistoryShape, Panels
  <2> QED BY <1>13, <2>1, Cancels DEF CloseDetail
<1>14. CASE CloseHistory
  <2>1. HistoryShape' /\ Panels'
    BY <1>14 DEF CloseHistory, HistoryShape, Panels
  <2> QED BY <1>14, <2>1, Cancels DEF CloseHistory
<1>15. CASE Quit
  <2>1. HistoryShape' /\ Panels'
    BY <1>15, ShapesStay DEF Quit
  <2>2. life' = [life EXCEPT !.exit = TRUE] \/ life' = life
    BY <1>15 DEF Quit
  <2>3. LifeInv' /\ life'.busy = life.busy
    BY <1>15, <2>2 DEF Quit, LifeInv, Lifecycle, OthersCancellable, ClosedIsDismissed
  <2> QED BY <2>1, <2>3
<1> QED BY <1>1, <1>2, <1>3, <1>4, <1>5, <1>6, <1>7, <1>9, <1>10, <1>11, <1>12, <1>13,
           <1>14, <1>15 DEF Keys

\* What arrives.
Moves ==
    /\ (discover'.active /\ ~discover.active) => "Discover" \notin shut
    /\ (preview'.active /\ ~preview.active) => "Preview" \notin shut
    /\ history'.active => history.active /\ rows'[history'.index] = Shown
    /\ history'.detail # NoRow => history'.detail = history.detail

LEMMA ReconciledStays ==
    ASSUME HistoryShape, history.active, NEW list
    PROVE  LET h == Reconciled(history, list)
           IN  /\ h = [active |-> h.active, index |-> h.index, page |-> h.page,
                       mode |-> h.mode, detail |-> h.detail,
                       pending |-> h.pending, failed |-> h.failed]
               /\ h.active \in BOOLEAN
               /\ h.active => list[h.index] = Shown
               /\ h.detail # NoRow => h.detail = history.detail
<1>1. CASE Shown \notin ToSet(list)
  BY <1>1 DEF Reconciled, DetailClosed, HistoryShape
<1>2. CASE Shown \in ToSet(list)
  <2> DEFINE i == CHOOSE j \in DOMAIN list : list[j] = Shown
             kept == [history EXCEPT !.index = i]
  <2>1. list[i] = Shown
    BY <1>2 DEF ToSet
  <2>2. Reconciled(history, list) \in {kept, DetailClosed([kept EXCEPT !.page = 0])}
    BY <1>2 DEF Reconciled
  <2> HIDE DEF i
  <2> QED BY <2>1, <2>2 DEF DetailClosed, HistoryShape
<1> QED BY <1>1, <1>2

LEMMA CompleteStep ==
    ASSUME DashboardInv, Complete
    PROVE  DashboardInv' /\ Moves
<1> USE DEF DashboardInv
<1>1. LifeInv'
  <2>1. life' = [life EXCEPT !.active = NoGeneration, !.surface = "None", !.busy = FALSE,
                             !.cancellable = FALSE, !.dismissed = FALSE, !.exit = FALSE]
    BY DEF Complete
  <2>2. life' \in Lifecycle /\ ~life'.busy
    BY <2>1 DEF LifeInv, Lifecycle, Surfaces, NoGeneration
  <2> QED BY <2>2 DEF LifeInv, OthersCancellable, ClosedIsDismissed
<1>2. /\ Panels'
      /\ (discover'.active /\ ~discover.active) => "Discover" \notin shut
      /\ (preview'.active /\ ~preview.active) => "Preview" \notin shut
  <2>1. Presented => life.surface \notin shut
    BY DEF Complete, Presented, LifeInv, ClosedIsDismissed
  <2>2. \/ UNCHANGED discover
        \/ /\ Presented /\ life.surface = "Discover"
           /\ discover' \in {[active |-> TRUE, loading |-> FALSE],
                            [discover EXCEPT !.loading = FALSE]}
    BY DEF Complete, DiscoverAfter
  <2>3. \/ UNCHANGED preview
        \/ /\ Presented /\ life.surface = "Preview"
           /\ preview' \in {[active |-> TRUE, running |-> FALSE],
                           [preview EXCEPT !.running = FALSE]}
    BY DEF Complete, PreviewAfter
  <2> QED BY <2>1, <2>2, <2>3 DEF Panels
<1>3. /\ HistoryShape'
      /\ history'.active => history.active /\ rows'[history'.index] = Shown
      /\ history'.detail # NoRow => history'.detail = history.detail
  <2> DEFINE list == IF Replaces THEN op.out ELSE rows
  <2>1. rows' = list /\ history' = HistoryAfter
    BY DEF Complete
  <2>2. CASE (Replaces \/ RereadsRow) /\ history.active
    <3>1. history' = Reconciled(history, list)
      BY <2>1, <2>2 DEF HistoryAfter
    <3> HIDE DEF list
    <3> QED BY <2>1, <2>2, <3>1, ReconciledStays DEF HistoryShape
  <2>3. CASE ~((Replaces \/ RereadsRow) /\ history.active)
    <3>1. \/ history' = history
          \/ history' = [history EXCEPT !.pending = NoGeneration, !.failed = op.out.error # "none"]
      BY <2>1, <2>3 DEF HistoryAfter
    <3>2. /\ HistoryShape' /\ history'.active = history.active
          /\ history'.index = history.index /\ history'.detail = history.detail
      BY <3>1 DEF HistoryShape
    <3>3. history.active => rows' = rows
      BY <2>1, <2>3
    <3> QED BY <3>2, <3>3 DEF Shown, RepoAt
  <2> QED BY <2>2, <2>3
<1> QED BY <1>1, <1>2, <1>3 DEF Moves

-----------------------------------------------------------------------------
LEMMA NextStep ==
    ASSUME DashboardInv, [DashboardNext]_dashboardVars
    PROVE  DashboardInv' /\ (Arrives => Moves)
<1> USE DEF DashboardInv
<1>1. CASE Keys
  BY <1>1, KeyStep DEF Arrives
<1>2. CASE Frame
  <2>1. HistoryShape' /\ Panels'
    BY <1>2, ShapesStay DEF Frame
  <2> QED BY <1>2, <2>1, Ensures DEF Frame, Arrives
<1>3. CASE Works
  <2>1. UNCHANGED <<life, shut, ui>>
    <3>1. ASSUME NEW stage, NEW out, Deposit(stage, out)
          PROVE  UNCHANGED <<life, shut, ui>>
      BY <3>1 DEF Deposit
    <3>2. ASSUME NEW what, ReadFailed(what)
          PROVE  UNCHANGED <<life, shut, ui>>
      BY <3>1, <3>2, Zenon DEF ReadFailed
    <3>3. CASE Cancelled
      BY <3>2, <3>3, Zenon DEF Cancelled
    <3>4. CASE Broken
      BY <3>2, <3>4, Zenon DEF Broken
    <3>5. CASE Read
      <4>1. CASE op.kind = "startup"
        BY <3>1, <3>5, <4>1 DEF Read
      <4>2. CASE op.kind = "refresh"
        BY <3>1, <3>5, <4>2 DEF Read
      <4>3. CASE op.kind = "page"
        BY <3>1, <3>5, <4>3 DEF Read
      <4>4. CASE op.kind = "detail"
        BY <3>1, <3>5, <4>4 DEF Read
      <4>5. CASE op.kind \notin {"startup", "refresh", "page", "detail"}
        BY <3>1, <3>5, <4>5 DEF Read
      <4> QED BY <4>1, <4>2, <4>3, <4>4, <4>5
    <3> QED BY <1>3, <3>3, <3>4, <3>5 DEF Works
  <2>2. HistoryShape' /\ Panels'
    BY <2>1, ShapesStay DEF ui
  <2> QED BY <2>1, <2>2, Stays DEF Arrives
<1>4. CASE Complete
  BY <1>4, CompleteStep
<1>5. CASE CommitElsewhere \/ RemoveRepo \/ UNCHANGED dashboardVars
  <2>1. UNCHANGED <<life, shut, ui>>
    BY <1>5 DEF CommitElsewhere, RemoveRepo, dashboardVars, worker
  <2>2. HistoryShape' /\ Panels'
    BY <2>1, ShapesStay DEF ui
  <2> QED BY <2>1, <2>2, Stays DEF Arrives
<1> QED BY <1>1, <1>2, <1>3, <1>4, <1>5 DEF DashboardNext

\* However the user's keys, the worker's results and the commits of others
\* interleave: what arrives opens no panel that was closed since its operation
\* began, no history and no detail, and an open history stays with its
\* repository or closes.
THEOREM UserIsNotMoved == DashboardSpec => ResultsDoNotMoveTheUser
<1>1. [DashboardNext]_dashboardVars /\ DashboardInv => [Arrives => Moves]_dashboardVars
  BY NextStep
<1>2. [DashboardNext]_dashboardVars /\ DashboardInv => DashboardInv'
  BY NextStep
<1>3. [][Arrives => Moves]_dashboardVars => ResultsDoNotMoveTheUser
  BY PTL DEF ResultsDoNotMoveTheUser, Moves
<1> QED BY <1>1, <1>2, <1>3, InitDashboardInv, PTL DEF DashboardSpec
-----------------------------------------------------------------------------
(* the history *)

\* The dirty worktree's row comes first; after it the rows are the newest commits of the
\* anchor, and a history that is complete has all of them.
Lead(c) == IF c.rows # <<>> /\ c.rows[1] = DirtyRow THEN 1 ELSE 0
CacheShape(c) ==
    /\ c = [rows |-> c.rows, anchor |-> c.anchor, loading |-> c.loading, page |-> c.page,
            failed |-> c.failed, full |-> c.full, details |-> c.details]
    /\ c.rows \in Seq(Nat) /\ c.anchor \in Nat /\ c.loading \in Nat
    /\ c.failed \in BOOLEAN /\ c.full \in BOOLEAN
Anchored(c) ==
    /\ CacheShape(c)
    /\ Len(c.rows) - Lead(c) <= c.anchor
    /\ \A i \in 1..Len(c.rows) : i > Lead(c) => c.rows[i] = c.anchor - (i - Lead(c)) + 1
    /\ c.full /\ ~c.failed => Len(c.rows) - Lead(c) = c.anchor

\* The batch that goes on where skip commits of the anchor have been read.
Continues(batch, anchor, skip) ==
    /\ batch.anchor \in Nat /\ (anchor # 0 => batch.anchor = anchor)
    /\ batch.entries \in Seq(Nat) /\ batch.end \in BOOLEAN
    /\ skip + Len(batch.entries) <= batch.anchor
    /\ \A i \in 1..Len(batch.entries) : batch.entries[i] = batch.anchor - skip - i + 1
    /\ batch.end => skip + Len(batch.entries) = batch.anchor

\* A history that is being loaded is so by the one operation there is, which goes on where
\* its rows end, and which ends with a batch or with an error.
InFlight(r) ==
    cache[r].loading # NoGeneration =>
        /\ life.busy /\ op.kind = "page" /\ op.repo = r /\ op.gen = cache[r].loading
        /\ op.skip = Loaded(cache[r]) /\ op.anchor = cache[r].anchor /\ op.count \in Int
        /\ op.stage \in {"run", "result"}
        /\ op.stage = "result" =>
             op.out.error # "none" \/ Continues(op.out, op.anchor, op.skip)

\* An operation has its fields; generations are not the one that means none.
Fields == {"kind", "gen", "stage", "out"}
OpShape ==
    /\ op = [x \in DOMAIN op |-> op[x]] /\ Fields \subseteq DOMAIN op
    /\ op.kind = "page" =>
         {"repo", "skip", "count", "anchor"} \subseteq DOMAIN op /\ op.gen # NoGeneration

HistoryInv ==
    /\ life.next # NoGeneration /\ history.page \in Nat /\ head \in [Repos -> Nat]
    /\ OpShape /\ DOMAIN cache = Repos /\ cache = [r \in Repos |-> cache[r]]
    /\ \A r \in Repos : Anchored(cache[r]) /\ InFlight(r)

-----------------------------------------------------------------------------
(* rows, batches and operations *)

LEMMA LeastOfTwo ==
    ASSUME NEW a \in Int, NEW b \in Int
    PROVE  Min({a, b}) = IF a <= b THEN a ELSE b
<1>1. ASSUME NEW x \in {a, b}, \A y \in {a, b} : x <= y PROVE x = IF a <= b THEN a ELSE b
  BY <1>1
<1>2. \E x \in {a, b} : \A y \in {a, b} : x <= y
  OBVIOUS
<1> QED BY <1>1, <1>2 DEF Min

LEMMA LargestOfTwo ==
    ASSUME NEW a \in Int, NEW b \in Int
    PROVE  Max({a, b}) = IF a <= b THEN b ELSE a
<1>1. ASSUME NEW x \in {a, b}, \A y \in {a, b} : x >= y PROVE x = IF a <= b THEN b ELSE a
  BY <1>1
<1>2. \E x \in {a, b} : \A y \in {a, b} : x >= y
  OBVIOUS
<1> QED BY <1>1, <1>2 DEF Max

\* All rows are commits but the first one of a dirty worktree.
LEMMA CommitsCounted ==
    ASSUME NEW c, Anchored(c), NEW n \in Lead(c)..Len(c.rows)
    PROVE  Cardinality(CommitRows(c, n)) = n - Lead(c)
<1>0. c.rows \in Seq(Nat) /\ c.anchor \in Nat /\ Lead(c) \in {0, 1} /\ Len(c.rows) \in Nat
  BY DEF Anchored, CacheShape, Lead
<1>a. n \in Nat /\ Lead(c) <= n /\ n <= Len(c.rows) /\ Lead(c) \in Nat
  BY <1>0
<1>1. ASSUME NEW i \in 1..n PROVE c.rows[i] # DirtyRow <=> i > Lead(c)
  <2>1. CASE i > Lead(c)
    <3>1. c.rows[i] = c.anchor - (i - Lead(c)) + 1 /\ Len(c.rows) - Lead(c) <= c.anchor
      BY <1>0, <2>1 DEF Anchored
    <3>2. ASSUME NEW a \in Nat, NEW k \in Nat, NEW l \in Nat, l - k <= a, k < i, n <= l
          PROVE  a - (i - k) + 1 # 0
      BY <1>a, <3>2
    <3>3. c.anchor - (i - Lead(c)) + 1 # 0
      BY <1>0, <1>a, <2>1, <3>1, <3>2
    <3> QED BY <2>1, <3>1, <3>3 DEF DirtyRow
  <2>2. CASE ~(i > Lead(c))
    BY <1>0, <2>2 DEF Lead
  <2> QED BY <2>1, <2>2
<1>2. CommitRows(c, n) = Lead(c) + 1..n
  BY <1>0, <1>1 DEF CommitRows
<1>3. Cardinality(Lead(c) + 1..n) = IF Lead(c) + 1 > n THEN 0 ELSE n - (Lead(c) + 1) + 1
  <2>1. Lead(c) + 1 \in Int /\ n \in Int
    BY <1>a
  <2> QED BY <2>1, FS_Interval
<1>4. ~(Lead(c) + 1 > n) \/ n = Lead(c)
  BY <1>a
<1> QED BY <1>a, <1>2, <1>3, <1>4

LEMMA LoadedRows ==
    ASSUME NEW c, Anchored(c)
    PROVE  Loaded(c) = Len(c.rows) - Lead(c) /\ Loaded(c) \in Nat /\ Loaded(c) <= c.anchor
<1>1. Len(c.rows) \in Nat /\ Lead(c) \in 0..Len(c.rows)
  BY DEF Anchored, CacheShape, Lead
<1>2. Loaded(c) = Len(c.rows) - Lead(c)
  BY <1>1, CommitsCounted DEF Loaded
<1> QED BY <1>1, <1>2 DEF Anchored

LEMMA EmptyAnchored == Anchored(NoCache) /\ NoCache.loading = NoGeneration
BY DEF NoCache, NoGeneration, Anchored, CacheShape, Lead

\* The row of a dirty worktree is no commit.
LEMMA DirtyAnchored ==
    ASSUME NEW c, NEW r, Anchored(c)
    PROVE  LET d == WithDirtyRow(c, r)
           IN  /\ Anchored(d) /\ d.loading = c.loading /\ d.anchor = c.anchor
               /\ Loaded(d) = Loaded(c) /\ d.failed = c.failed /\ d.full = c.full
<1> DEFINE d == WithDirtyRow(c, r)
<1>1. CASE d = c
  BY <1>1
<1>2. CASE c.rows = <<>> /\ d = [c EXCEPT !.rows = <<DirtyRow>>]
  <2>1. /\ d.rows = <<DirtyRow>> /\ d.loading = c.loading /\ d.anchor = c.anchor
        /\ d.failed = c.failed /\ d.full = c.full /\ d.details = c.details /\ d.page = c.page
        /\ CacheShape(d)
    BY <1>2 DEF Anchored, CacheShape, DirtyRow
  <2> HIDE DEF d
  <2>2. Lead(d) = 1 /\ Len(d.rows) = 1 /\ Lead(c) = 0 /\ Len(c.rows) = 0
    BY <1>2, <2>1 DEF Lead
  <2>3. Anchored(d)
    BY <2>1, <2>2 DEF Anchored, CacheShape
  <2>4. Loaded(d) = 0 /\ Loaded(c) = 0
    <3>1. Loaded(d) = Len(d.rows) - Lead(d)
      BY <2>3, LoadedRows
    <3>2. Loaded(c) = Len(c.rows) - Lead(c)
      BY LoadedRows
    <3> QED BY <2>2, <3>1, <3>2
  <2> QED BY <2>1, <2>3, <2>4 DEF d
<1> QED BY <1>1, <1>2 DEF WithDirtyRow

\* A batch is read where the rows end, and tells when it is the last.
LEMMA BatchContinues ==
    ASSUME NEW w, w.anchor \in Nat, w.skip \in Nat, w.count \in Int, head[w.repo] \in Nat,
           w.skip <= w.anchor
    PROVE  Continues(Batch(w), w.anchor, w.skip) /\ Batch(w).error = "none"
<1> DEFINE a == AnchorOf(w)
           most == Min({w.count, a - w.skip})
           size == Max({0, most})
<1>1. a \in Nat /\ w.skip <= a /\ (w.anchor # 0 => a = w.anchor)
  BY DEF AnchorOf
<1>2. most = IF w.count <= a - w.skip THEN w.count ELSE a - w.skip
  BY <1>1, LeastOfTwo
<1>a. most \in Int
  BY <1>1, <1>2
<1> HIDE DEF most
<1>3. size = IF 0 <= most THEN most ELSE 0
  BY <1>a, LargestOfTwo
<1>4. size \in Nat /\ w.skip + size <= a /\ (size < w.count => w.skip + size = a)
  BY <1>1, <1>2, <1>3, <1>a
<1> DEFINE e == [i \in 1..size |-> a - w.skip - i + 1]
<1>5. /\ Batch(w).error = "none" /\ Batch(w).anchor = a /\ Batch(w).end = (size < w.count)
      /\ Batch(w).entries = e
  BY DEF Batch, most
<1>b. (size < w.count) \in BOOLEAN
  OBVIOUS
<1> HIDE DEF size, a
<1>6. e \in Seq(Nat) /\ Len(e) = size
  BY <1>1, <1>4
<1>7. \A i \in 1..Len(e) : e[i] = a - w.skip - i + 1
  BY <1>6
<1>8. w.skip + Len(e) <= a /\ (Batch(w).end => w.skip + Len(e) = a)
  BY <1>4, <1>5, <1>6
<1> HIDE DEF e
<1> QED BY <1>1, <1>5, <1>6, <1>7, <1>8, <1>b DEF Continues

\* Rows that are appended leave the first row where it is.
LEMMA PagesJoined ==
    ASSUME NEW u \in Seq(Nat), NEW v \in Seq(Nat)
    PROVE  /\ u \o v \in Seq(Nat) /\ Len(u \o v) = Len(u) + Len(v)
           /\ u # <<>> => u \o v # <<>> /\ (u \o v)[1] = u[1]
           /\ u = <<>> => u \o v = v
           /\ \A i \in 1..Len(u) : (u \o v)[i] = u[i]
           /\ \A i \in 1..Len(u) + Len(v) :
                i > Len(u) => (u \o v)[i] = v[i - Len(u)] /\ i - Len(u) \in 1..Len(v)
<1>1. Len(u) \in Nat /\ Len(v) \in Nat /\ u \o v \in Seq(Nat) /\ Len(u \o v) = Len(u) + Len(v)
  OBVIOUS
<1>2. u # <<>> => Len(u) >= 1
  OBVIOUS
<1>3. \A i \in 1..Len(u) : (u \o v)[i] = u[i]
  OBVIOUS
<1>4. u # <<>> => u \o v # <<>> /\ (u \o v)[1] = u[1]
  BY <1>1, <1>2, <1>3
<1>5. ASSUME NEW i \in 1..Len(u) + Len(v), i > Len(u)
      PROVE  (u \o v)[i] = v[i - Len(u)] /\ i - Len(u) \in 1..Len(v)
  BY <1>1, <1>5
<1>6. u = <<>> => u \o v = v
  OBVIOUS
<1> QED BY <1>1, <1>3, <1>4, <1>5, <1>6

\* A page's entry, put together from its fields.
LEMMA EntryShape ==
    ASSUME NEW w \in Seq(Nat), NEW a \in Nat, NEW l \in Nat, NEW g, NEW f \in BOOLEAN,
           NEW u \in BOOLEAN, NEW t, NEW d,
           d = [rows |-> w, anchor |-> a, loading |-> l, page |-> g, failed |-> f, full |-> u,
                details |-> t]
    PROVE  /\ CacheShape(d) /\ d.rows = w /\ d.anchor = a /\ d.loading = l
           /\ (d.full => u) /\ (u => d.full) /\ (d.failed => f) /\ (f => d.failed)
BY DEF CacheShape

\* A batch that goes on where the rows end is appended, and an error leaves the rows.
LEMMA AppendedAnchored ==
    ASSUME NEW c, Anchored(c), NEW b, b.error # "none" \/ Continues(b, c.anchor, Loaded(c))
    PROVE  Anchored(Appended(c, b)) /\ Appended(c, b).loading = NoGeneration
<1> DEFINE d == Appended(c, b)
<1>0. CacheShape(c) /\ Len(c.rows) \in Nat BY DEF Anchored, CacheShape
<1>1. CASE b.error # "none"
  <2> DEFINE f == c.failed \/ b.error = "failed"
             g == c.full \/ b.error = "failed"
  <2>0. f \in BOOLEAN /\ g \in BOOLEAN /\ (g /\ ~f => c.full /\ ~c.failed)
    OBVIOUS
  <2> HIDE DEF f, g
  <2>1. d = [rows |-> c.rows, anchor |-> c.anchor, loading |-> NoGeneration, page |-> -1,
             failed |-> f, full |-> g, details |-> c.details]
    BY <1>0, <1>1 DEF Appended, CacheShape, f, g
  <2>2. /\ d.rows = c.rows /\ d.anchor = c.anchor /\ d.loading = NoGeneration /\ CacheShape(d)
        /\ (d.full /\ ~d.failed => c.full /\ ~c.failed)
    BY <1>0, <2>0, <2>1, EntryShape DEF CacheShape, NoGeneration
  <2> QED BY <2>2 DEF Anchored, Lead
<1>2. CASE b.error = "none"
  <2>1. d = [rows |-> c.rows \o b.entries, anchor |-> b.anchor, loading |-> NoGeneration,
             page |-> -1, failed |-> c.failed, full |-> b.end, details |-> c.details]
    BY <1>0, <1>2 DEF Appended, CacheShape
  <2>2. Continues(b, c.anchor, Loaded(c)) /\ Loaded(c) = Len(c.rows) - Lead(c) /\ Loaded(c) \in Nat
        /\ Loaded(c) <= c.anchor
    BY <1>2, LoadedRows
  <2>3. /\ d.rows = c.rows \o b.entries /\ d.anchor = b.anchor /\ d.loading = NoGeneration
        /\ CacheShape(d) /\ (d.full => b.end)
    <3>1. c.rows \o b.entries \in Seq(Nat) /\ b.anchor \in Nat /\ b.end \in BOOLEAN
          /\ c.failed \in BOOLEAN
      BY <1>0, <2>2 DEF CacheShape, Continues
    <3> DEFINE w == c.rows \o b.entries
               a == b.anchor
               f == c.failed
               u == b.end
               t == c.details
    <3>2. d = [rows |-> w, anchor |-> a, loading |-> 0, page |-> -1, failed |-> f, full |-> u,
               details |-> t]
      BY <2>1 DEF NoGeneration
    <3>3. w \in Seq(Nat) /\ a \in Nat /\ 0 \in Nat /\ f \in BOOLEAN /\ u \in BOOLEAN
      BY <3>1
    <3> HIDE DEF d, w, a, f, u, t
    <3>4. CacheShape(d) /\ d.rows = w /\ d.anchor = a /\ d.loading = 0 /\ (d.full => u)
      BY <3>2, <3>3 DEF CacheShape
    <3> QED BY <3>4 DEF w, a, u, NoGeneration
  <2> HIDE DEF d
  <2>4. /\ b.entries \in Seq(Nat) /\ c.rows \in Seq(Nat) /\ b.anchor \in Nat /\ c.anchor \in Nat
    BY <1>0, <2>2 DEF CacheShape, Continues
  <2> DEFINE u == c.rows
             v == b.entries
             k == Lead(c)
             a == c.anchor
             z == b.anchor
  <2>5. /\ u \in Seq(Nat) /\ v \in Seq(Nat) /\ k \in {0, 1} /\ a \in Nat /\ z \in Nat
        /\ k <= Len(u) /\ Len(u) - k <= a /\ (a # 0 => z = a)
        /\ Loaded(c) = Len(u) - k
    <3>1. k \in {0, 1} /\ k <= Len(u)
      BY <2>4 DEF Lead
    <3>2. Len(u) - k <= a
      BY DEF Anchored
    <3>3. a # 0 => z = a
      BY <2>2 DEF Continues
    <3> QED BY <2>2, <2>4, <3>1, <3>2, <3>3
  <2>6. \A i \in 1..Len(u) : i > k => u[i] = a - (i - k) + 1
    BY DEF Anchored
  <2>7. /\ \A i \in 1..Len(v) : v[i] = z - (Len(u) - k) - i + 1
        /\ (Len(u) - k) + Len(v) <= z /\ (b.end => (Len(u) - k) + Len(v) = z)
    BY <2>2, <2>5 DEF Continues
  <2>8. d.rows = u \o v /\ d.anchor = z /\ (d.full => b.end)
    BY <2>3
  <2>9. Lead(d) = k
    <3>1. CASE u # <<>>
      <4> HIDE DEF k, a, z, v
      <4>1. d.rows # <<>> /\ d.rows[1] = u[1]
        BY <2>5, <2>8, <3>1, PagesJoined
      <4> QED BY <3>1, <4>1 DEF Lead, k
    <3>2. CASE u = <<>>
      <4>1. d.rows = v /\ k = 0 /\ Len(u) = 0
        BY <2>5, <2>8, <3>2 DEF Lead
      <4>2. v # <<>> => v[1] # 0
        <5>1. v # <<>> => 1 \in 1..Len(v)
          BY <2>5
        <5>2. v # <<>> => v[1] = z /\ 1 <= z
          BY <2>5, <2>7, <4>1, <5>1
        <5> QED BY <2>5, <5>2
      <4> QED BY <4>1, <4>2 DEF Lead, DirtyRow
    <3> QED BY <3>1, <3>2
  <2> HIDE DEF u, v, k, a, z
  <2>10. /\ Len(d.rows) = Len(u) + Len(v)
         /\ \A i \in 1..Len(u) + Len(v) : i > k => d.rows[i] = z - (i - k) + 1
    <3>1. /\ Len(u \o v) = Len(u) + Len(v)
          /\ \A i \in 1..Len(u) + Len(v) : i > k => (u \o v)[i] = z - (i - k) + 1
      <4>1. Len(u) \in Nat /\ Len(v) \in Nat /\ Len(u \o v) = Len(u) + Len(v)
        BY <2>5
      <4>2. ASSUME NEW i \in 1..Len(u) + Len(v), i > k PROVE (u \o v)[i] = z - (i - k) + 1
        <5>1. CASE i <= Len(u)
          <6>1. (u \o v)[i] = u[i] /\ u[i] = a - (i - k) + 1
            BY <2>5, <2>6, <4>1, <4>2, <5>1, PagesJoined
          <6>2. a # 0
            BY <2>5, <4>1, <4>2, <5>1
          <6> QED BY <2>5, <6>1, <6>2
        <5>2. CASE i > Len(u)
          <6>1. (u \o v)[i] = v[i - Len(u)] /\ i - Len(u) \in 1..Len(v)
            BY <2>5, <5>2, PagesJoined
          <6>2. v[i - Len(u)] = z - (Len(u) - k) - (i - Len(u)) + 1
            BY <2>7, <6>1
          <6> QED BY <2>5, <4>1, <6>1, <6>2
        <5> QED BY <4>1, <5>1, <5>2
      <4> QED BY <4>1, <4>2
    <3> QED BY <2>8, <3>1
  <2>11. Len(d.rows) - Lead(d) = (Len(u) - k) + Len(v)
    <3>1. Len(u) \in Nat /\ Len(v) \in Nat /\ k \in Nat
      BY <2>5
    <3> QED BY <2>9, <2>10, <3>1
  <2>12. Len(d.rows) \in Nat
    BY <2>5, <2>10
  <2>13. Len(d.rows) - Lead(d) <= d.anchor
    BY <2>7, <2>8, <2>11
  <2>14. d.full /\ ~d.failed => Len(d.rows) - Lead(d) = d.anchor
    BY <2>7, <2>8, <2>11
  <2>15. \A i \in 1..Len(d.rows) : i > Lead(d) => d.rows[i] = d.anchor - (i - Lead(d)) + 1
    BY <2>8, <2>9, <2>10
  <2> QED
    <3>1. CacheShape(d) /\ d.loading = NoGeneration
      BY <2>3
    <3>2. Anchored(d)
      BY <2>13, <2>14, <2>15, <3>1 DEF Anchored
    <3> QED BY <3>1, <3>2 DEF d
<1> QED BY <1>1, <1>2

\* The operation that begins.
LEMMA StartedFields ==
    ASSUME NEW w, "kind" \in DOMAIN w, DOMAIN w \cap {"gen", "stage", "out"} = {}, NEW g,
           NEW o, o = Started(w, g)
    PROVE  /\ o = [x \in DOMAIN o |-> o[x]] /\ Fields \subseteq DOMAIN o /\ DOMAIN w \subseteq DOMAIN o
           /\ o.gen = g /\ o.stage = "run" /\ \A x \in DOMAIN w : o[x] = w[x]
BY DEF Started, Fields

-----------------------------------------------------------------------------
(* the operations *)

\* Histories that stay where they are: a row of a dirty worktree may come first.
CacheKeeps ==
    /\ cache' = [r \in Repos |-> cache'[r]]
    /\ \A r \in Repos : /\ Anchored(cache'[r]) /\ cache'[r].loading = cache[r].loading
                        /\ cache'[r].anchor = cache[r].anchor
                        /\ Loaded(cache'[r]) = Loaded(cache[r])

LEMMA CacheUnchanged ==
    ASSUME HistoryInv, UNCHANGED cache
    PROVE  CacheKeeps
BY DEF HistoryInv, CacheKeeps

LEMMA CacheWithDirtyRow ==
    ASSUME HistoryInv, NEW r, cache' = [cache EXCEPT ![r] = WithDirtyRow(cache[r], r)]
    PROVE  CacheKeeps
<1>1. ASSUME NEW s \in Repos, s # r PROVE cache'[s] = cache[s]
  BY <1>1 DEF HistoryInv
<1>2. r \in Repos => cache'[r] = WithDirtyRow(cache[r], r)
  BY DEF HistoryInv
<1>3. r \in Repos => Anchored(cache[r])
  BY DEF HistoryInv
<1>4. cache' = [s \in Repos |-> cache'[s]]
  BY DEF HistoryInv
<1>5. ASSUME NEW s \in Repos
      PROVE  /\ Anchored(cache'[s]) /\ cache'[s].loading = cache[s].loading
             /\ cache'[s].anchor = cache[s].anchor
             /\ Loaded(cache'[s]) = Loaded(cache[s])
  <2>1. CASE s = r
    BY <1>2, <1>3, <2>1, DirtyAnchored
  <2>2. CASE s # r
    BY <1>1, <2>2 DEF HistoryInv
  <2> QED BY <2>1, <2>2
<1> QED BY <1>4, <1>5 DEF CacheKeeps

\* What leaves the operation alone.
LEMMA Keeps ==
    ASSUME HistoryInv, CacheKeeps, UNCHANGED op, life'.next = life.next, life'.busy = life.busy,
           history'.page \in Nat, head' \in [Repos -> Nat]
    PROVE  HistoryInv'
<1>1. \A r \in Repos : Anchored(cache'[r])
  BY DEF CacheKeeps
<1>2. ASSUME NEW r \in Repos PROVE InFlight(r)'
  BY DEF HistoryInv, CacheKeeps, InFlight
<1>3. OpShape'
  BY DEF HistoryInv, OpShape
<1>4. life'.next # NoGeneration /\ DOMAIN cache' = Repos /\ cache' = [r \in Repos |-> cache'[r]]
  BY DEF HistoryInv, CacheKeeps
<1> QED BY <1>1, <1>2, <1>3, <1>4 DEF HistoryInv

\* Nothing is loading while no operation runs.
LEMMA NoneInFlight ==
    ASSUME HistoryInv, ~life.busy, NEW r \in Repos
    PROVE  cache[r].loading = NoGeneration
BY DEF HistoryInv, InFlight

LEMMA NextGeneration ==
    ASSUME DashboardInv, life.next # NoGeneration, NEW w, NEW s, NEW c, BeginOperation(w, s, c)
    PROVE  life'.next # NoGeneration /\ life'.busy
BY DashboardAssumption DEF DashboardInv, LifeInv, Lifecycle, BeginOperation, NoGeneration

\* An operation that reads no history begins.
LEMMA Starts ==
    ASSUME DashboardInv, HistoryInv, CacheKeeps, ~life.busy, NEW w, NEW s, NEW c,
           BeginOperation(w, s, c),
           "kind" \in DOMAIN w, DOMAIN w \cap {"gen", "stage", "out"} = {}, w.kind # "page",
           history'.page \in Nat, head' \in [Repos -> Nat]
    PROVE  HistoryInv'
<1>1. \A r \in Repos : Anchored(cache'[r])
  BY DEF CacheKeeps
<1>2. ASSUME NEW r \in Repos PROVE InFlight(r)'
  BY NoneInFlight DEF CacheKeeps, InFlight
<1>3. op' = Started(w, life.next)
  BY DEF BeginOperation
<1>4. OpShape'
  BY <1>3, StartedFields DEF OpShape
<1>5. life'.next # NoGeneration
  BY NextGeneration DEF HistoryInv
<1>6. DOMAIN cache' = Repos /\ cache' = [r \in Repos |-> cache'[r]]
  BY DEF CacheKeeps
<1> QED BY <1>1, <1>2, <1>4, <1>5, <1>6 DEF HistoryInv

\* A page that is asked for is loaded where the rows end.
LEMMA LoadingAnchored ==
    ASSUME NEW c, Anchored(c), NEW d, CacheShape(d), d.rows = c.rows, d.anchor = c.anchor,
           d.failed = c.failed, d.full = c.full
    PROVE  Anchored(d) /\ Loaded(d) = Loaded(c)
<1>1. Lead(d) = Lead(c)
  BY DEF Lead
<1>2. Anchored(d)
  BY <1>1 DEF Anchored
<1>3. Loaded(d) = Loaded(c)
  BY DEF Loaded, CommitRows
<1> QED BY <1>2, <1>3

LEMMA EnsureKeeps ==
    ASSUME DashboardInv, HistoryInv, NEW r, NEW p \in Nat, EnsureHistoryLoaded(r, p),
           history'.page \in Nat, UNCHANGED head
    PROVE  HistoryInv'
<1> DEFINE c == WithDirtyRow(cache[r], r)
           w == [kind |-> "page", repo |-> r, skip |-> Loaded(c),
                 count |-> FetchCount(c, p), anchor |-> c.anchor]
<1>1. CASE ~(Wanted(c, p) /\ ~life.busy)
  <2>1. cache' = [cache EXCEPT ![r] = WithDirtyRow(cache[r], r)] /\ UNCHANGED <<life, op>>
    BY <1>1 DEF EnsureHistoryLoaded, Ensured
  <2>2. CacheKeeps
    BY <2>1, CacheWithDirtyRow
  <2> QED BY <2>1, <2>2, Keeps DEF HistoryInv
<1>2. CASE Wanted(c, p) /\ ~life.busy
  <2>1. /\ cache' = [cache EXCEPT ![r] = [c EXCEPT !.loading = life.next, !.page = p]]
        /\ BeginOperation(w, "HistoryPage", TRUE)
    BY <1>2 DEF EnsureHistoryLoaded, Ensured
  <2>2. op' = Started(w, life.next) /\ life'.busy /\ life'.next # NoGeneration
        /\ life.next \in Nat /\ life.next # NoGeneration
    <3> HIDE DEF w
    <3>1. op' = Started(w, life.next)
      BY <2>1 DEF BeginOperation
    <3>2. life'.busy /\ life'.next # NoGeneration
      BY <2>1, NextGeneration DEF HistoryInv
    <3> QED BY <3>1, <3>2 DEF HistoryInv, DashboardInv, LifeInv, Lifecycle
  <2> DEFINE F == {"kind", "repo", "skip", "count", "anchor"}
  <2>3. DOMAIN w = F /\ w.kind = "page" /\ w.repo = r /\ w.skip = Loaded(c) /\ w.anchor = c.anchor
        /\ w.count = FetchCount(c, p)
    OBVIOUS
  <2> HIDE DEF w
  <2>4. /\ op' = [x \in DOMAIN op' |-> op'[x]] /\ Fields \subseteq DOMAIN op'
        /\ F \subseteq DOMAIN op' /\ op'.gen = life.next /\ op'.stage = "run"
        /\ \A x \in F : op'[x] = w[x]
    BY <2>2, <2>3, StartedFields
  <2>5. OpShape'
    BY <2>2, <2>4 DEF OpShape
  <2>6. DOMAIN cache' = Repos /\ cache' = [s \in Repos |-> cache'[s]]
    BY <2>1 DEF HistoryInv
  <2>7. ASSUME NEW s \in Repos, s # r PROVE cache'[s] = cache[s]
    BY <2>1, <2>7 DEF HistoryInv
  <2>8. ASSUME NEW s \in Repos PROVE Anchored(cache'[s]) /\ InFlight(s)'
    <3>1. CASE s = r
      <4>1. Anchored(c) /\ c.rows \in Seq(Nat)
        <5>1. Anchored(cache[r])
          BY <3>1 DEF HistoryInv
        <5>2. Anchored(c)
          BY <5>1, DirtyAnchored
        <5> QED BY <5>2 DEF Anchored, CacheShape
      <4>2. FetchCount(c, p) \in Int
        <5> DEFINE m == (p + 1) * PageSize - Len(c.rows) + 1
        <5>1. Len(c.rows) \in Nat
          BY <4>1
        <5> HIDE DEF c
        <5>2. m \in Int /\ PageSize + 1 \in Int
          BY <5>1, DashboardAssumption
        <5>3. FetchCount(c, p) = Min({m, PageSize + 1})
          BY DEF FetchCount, Required
        <5> HIDE DEF m
        <5> QED BY <5>2, <5>3, LeastOfTwo
      <4>3. cache'[s] = [c EXCEPT !.loading = life.next, !.page = p]
        BY <2>1, <3>1 DEF HistoryInv
      <4> HIDE DEF c
      <4>4. /\ Anchored(cache'[s]) /\ cache'[s].loading = life.next
            /\ cache'[s].anchor = c.anchor /\ Loaded(cache'[s]) = Loaded(c)
        <5>1. CacheShape(c)
          BY <4>1 DEF Anchored
        <5>2. cache'[s] = [rows |-> c.rows, anchor |-> c.anchor, loading |-> life.next,
                           page |-> p, failed |-> c.failed, full |-> c.full,
                           details |-> c.details]
          BY <4>3, <5>1 DEF CacheShape
        <5> DEFINE d == cache'[s]
        <5>3. /\ d.rows = c.rows /\ d.anchor = c.anchor /\ d.loading = life.next
              /\ d.failed = c.failed /\ d.full = c.full /\ CacheShape(d)
          BY <2>2, <5>1, <5>2 DEF CacheShape
        <5> HIDE DEF d
        <5>4. Anchored(d) /\ Loaded(d) = Loaded(c)
          BY <4>1, <5>3, LoadingAnchored
        <5> QED BY <5>3, <5>4 DEF d
      <4>5. op'.kind = "page" /\ op'.repo = r /\ op'.skip = Loaded(c) /\ op'.anchor = c.anchor
            /\ op'.count \in Int
        BY <2>3, <2>4, <4>2
      <4> QED BY <2>2, <2>4, <3>1, <4>4, <4>5 DEF InFlight
    <3>2. CASE s # r
      <4>1. cache'[s].loading = NoGeneration
        BY <1>2, <2>7, <3>2, NoneInFlight
      <4> QED BY <2>7, <3>2, <4>1 DEF HistoryInv, InFlight
    <3> QED BY <3>1, <3>2
  <2> QED BY <2>2, <2>5, <2>6, <2>8 DEF HistoryInv
<1> QED BY <1>1, <1>2

\* A surface that is closed leaves the operation to end.
LEMMA CancelsKeep ==
    ASSUME DashboardInv, NEW S, CancelSurface(S) \/ DismissPreview
    PROVE  UNCHANGED op /\ life'.next = life.next /\ life'.busy = life.busy
<1>1. life' = life \/ life' = [life EXCEPT !.dismissed = TRUE]
  BY DEF CancelSurface, DismissPreview
<1>2. UNCHANGED op
  BY DEF CancelSurface, DismissPreview
<1> QED BY <1>1, <1>2 DEF DashboardInv, LifeInv, Lifecycle

LEMMA DetailKeeps ==
    ASSUME DashboardInv, HistoryInv, CacheKeeps, UNCHANGED head, NEW row, NEW mode,
           BeginDetail(row, mode)
    PROVE  HistoryInv'
<1> DEFINE w == [kind |-> "detail", repo |-> Shown, key |-> <<row, mode>>]
<1>1. BeginOperation(w, "HistoryDetail", TRUE) /\ ~life.busy
  BY DEF BeginDetail
<1>2. "kind" \in DOMAIN w /\ DOMAIN w \cap {"gen", "stage", "out"} = {} /\ w.kind # "page"
  OBVIOUS
<1> HIDE DEF w
<1>3. history'.page = history.page
  BY DEF BeginDetail, DashboardInv, HistoryShape
<1> QED BY <1>1, <1>2, <1>3, Starts DEF HistoryInv

LEMMA KeyHistory ==
    ASSUME DashboardInv, HistoryInv, Keys
    PROVE  HistoryInv'
<1>0. history.page \in Nat /\ head \in [Repos -> Nat]
  BY DEF HistoryInv
<1>1. CASE RefreshRow
  <2>1. PICK i \in DOMAIN rows :
          BeginOperation([kind |-> "repo", repo |-> rows[i]], "None", TRUE)
    BY <1>1 DEF RefreshRow
  <2> DEFINE w == [kind |-> "repo", repo |-> rows[i]]
  <2>2. BeginOperation(w, "None", TRUE)
    BY <2>1
  <2>3. "kind" \in DOMAIN w /\ DOMAIN w \cap {"gen", "stage", "out"} = {} /\ w.kind # "page"
    OBVIOUS
  <2> HIDE DEF w
  <2>4. ~life.busy /\ UNCHANGED <<cache, history, head>>
    BY <1>1 DEF RefreshRow, ui, world
  <2> QED BY <1>0, <2>2, <2>3, <2>4, CacheUnchanged, Starts
<1>2. CASE Refresh
  <2> DEFINE w == [kind |-> "refresh", panel |-> discover.active]
             t == IF discover.active THEN "Discover" ELSE "None"
  <2>2. BeginOperation(w, t, TRUE)
    BY <1>2 DEF Refresh
  <2>3. "kind" \in DOMAIN w /\ DOMAIN w \cap {"gen", "stage", "out"} = {} /\ w.kind # "page"
    OBVIOUS
  <2> HIDE DEF w, t
  <2>4. ~life.busy /\ UNCHANGED <<cache, history, head>>
    BY <1>2 DEF Refresh, world
  <2> QED BY <1>0, <2>2, <2>3, <2>4, CacheUnchanged, Starts
<1>3. CASE Discover
  <2> DEFINE w == [kind |-> "discover"]
  <2>2. BeginOperation(w, "Discover", TRUE)
    BY <1>3 DEF Discover
  <2>3. "kind" \in DOMAIN w /\ DOMAIN w \cap {"gen", "stage", "out"} = {} /\ w.kind # "page"
    OBVIOUS
  <2> HIDE DEF w
  <2>4. ~life.busy /\ UNCHANGED <<cache, history, head>>
    BY <1>3 DEF Discover, world
  <2> QED BY <1>0, <2>2, <2>3, <2>4, CacheUnchanged, Starts
<1>4. CASE Command
  <2>1. UNCHANGED <<cache, history, head>>
    BY <1>4 DEF Command, world
  <2>2. CASE life.busy
    <3>1. UNCHANGED <<life, op>>
      BY <1>4, <2>2 DEF Command, Still
    <3> QED BY <1>0, <2>1, <3>1, CacheUnchanged, Keeps
  <2>3. CASE ~life.busy
    <3>1. CASE BeginOperation([kind |-> "audit"], "Preview", TRUE)
      <4> DEFINE w == [kind |-> "audit"]
      <4>1. "kind" \in DOMAIN w /\ DOMAIN w \cap {"gen", "stage", "out"} = {} /\ w.kind # "page"
        OBVIOUS
      <4>2. BeginOperation(w, "Preview", TRUE)
        BY <3>1
      <4> HIDE DEF w
      <4> QED BY <1>0, <2>1, <2>3, <4>1, <4>2, CacheUnchanged, Starts
    <3>2. ASSUME NEW i \in DOMAIN rows,
                 BeginOperation([kind |-> "command", repo |-> rows[i]], "Preview", FALSE)
          PROVE  HistoryInv'
      <4> DEFINE w == [kind |-> "command", repo |-> rows[i]]
      <4>1. "kind" \in DOMAIN w /\ DOMAIN w \cap {"gen", "stage", "out"} = {} /\ w.kind # "page"
        OBVIOUS
      <4>2. BeginOperation(w, "Preview", FALSE)
        BY <3>2
      <4> HIDE DEF w
      <4> QED BY <1>0, <2>1, <2>3, <4>1, <4>2, CacheUnchanged, Starts
    <3> QED BY <1>4, <2>3, <3>1, <3>2 DEF Command
  <2> QED BY <2>2, <2>3
<1>5. CASE OpenHistory
  <2>1. PICK i \in DOMAIN rows :
            /\ history' = [NoHistory EXCEPT !.active = TRUE, !.index = i]
            /\ EnsureHistoryLoaded(rows[i], 0)
    BY <1>5 DEF OpenHistory
  <2>2. history'.page = 0 /\ UNCHANGED head
    BY <1>5, <2>1 DEF OpenHistory, NoHistory, world
  <2> QED BY <2>1, <2>2, EnsureKeeps
<1>6. CASE SwitchRepo
  <2>1. PICK i \in DOMAIN rows :
        /\ history' = DetailClosed([history EXCEPT !.index = i, !.page = 0])
        /\ IF Cancellable({"HistoryPage", "HistoryDetail"})
           THEN /\ CancelSurface({"HistoryPage", "HistoryDetail"})
                /\ cache' = [cache EXCEPT ![rows[i]] = Ensured(rows[i], 0)]
           ELSE EnsureHistoryLoaded(rows[i], 0)
    BY <1>6 DEF SwitchRepo
  <2>2. history'.page = 0 /\ UNCHANGED head
    BY <1>6, <2>1 DEF SwitchRepo, DetailClosed, DashboardInv, HistoryShape, world
  <2>3. CASE Cancellable({"HistoryPage", "HistoryDetail"})
    <3>1. cache' = [cache EXCEPT ![rows[i]] = WithDirtyRow(cache[rows[i]], rows[i])]
      BY <2>1, <2>3 DEF Ensured, Cancellable
    <3>2. UNCHANGED op /\ life'.next = life.next /\ life'.busy = life.busy
      BY <2>1, <2>3, CancelsKeep
    <3>3. CacheKeeps
      BY <3>1, CacheWithDirtyRow
    <3> QED BY <1>0, <2>2, <3>2, <3>3, Keeps
  <2>4. CASE ~Cancellable({"HistoryPage", "HistoryDetail"})
    BY <2>1, <2>2, <2>4, EnsureKeeps
  <2> QED BY <2>3, <2>4
<1>7. CASE MovePage
  <2>1. PICK p \in {history.page - 1, history.page + 1} \cap Nat :
        LET c == Ensured(Shown, p)
            moved == PageOf(c, p) # <<>> \/ p = 0 \/ (c.loading # NoGeneration /\ c.page = p)
        IN /\ history' = IF moved THEN DetailClosed([history EXCEPT !.page = p]) ELSE history
           /\ IF moved /\ Cancellable({"HistoryDetail"})
              THEN /\ CancelSurface({"HistoryDetail"})
                   /\ cache' = [cache EXCEPT ![Shown] = c]
              ELSE EnsureHistoryLoaded(Shown, p)
    BY <1>7 DEF MovePage
  <2>2. p \in Nat /\ history'.page \in Nat /\ UNCHANGED head
    <3>1. history' = DetailClosed([history EXCEPT !.page = p]) \/ history' = history
      BY <2>1
    <3> QED BY <1>0, <1>7, <3>1 DEF MovePage, DetailClosed, DashboardInv, HistoryShape, world
  <2>3. \/ /\ Cancellable({"HistoryDetail"}) /\ CancelSurface({"HistoryDetail"})
           /\ cache' = [cache EXCEPT ![Shown] = Ensured(Shown, p)]
        \/ EnsureHistoryLoaded(Shown, p)
    BY <2>1
  <2>4. CASE /\ Cancellable({"HistoryDetail"}) /\ CancelSurface({"HistoryDetail"})
             /\ cache' = [cache EXCEPT ![Shown] = Ensured(Shown, p)]
    <3>1. cache' = [cache EXCEPT ![Shown] = WithDirtyRow(cache[Shown], Shown)]
      BY <2>4 DEF Ensured, Cancellable
    <3>2. UNCHANGED op /\ life'.next = life.next /\ life'.busy = life.busy
      BY <2>4, CancelsKeep
    <3> QED BY <1>0, <2>2, <3>1, <3>2, CacheWithDirtyRow, Keeps
  <2>5. CASE EnsureHistoryLoaded(Shown, p)
    BY <2>2, <2>5, EnsureKeeps
  <2> QED BY <2>3, <2>4, <2>5
<1>8. CASE OpenDetail
  <2> DEFINE c == Ensured(Shown, history.page)
             asked == c.loading # cache[Shown].loading
  <2>1. PICK row \in ToSet(PageOf(c, history.page)) :
            \/ /\ history' = [history EXCEPT !.detail = row, !.pending = NoGeneration]
               /\ EnsureHistoryLoaded(Shown, history.page)
            \/ EnsureHistoryLoaded(Shown, history.page) /\ UNCHANGED history
            \/ /\ ~asked /\ BeginDetail(row, history.mode)
               /\ cache' = [cache EXCEPT ![Shown] = c]
    BY <1>8 DEF OpenDetail
  <2>2. UNCHANGED head
    BY <1>8 DEF OpenDetail, world
  <2>3. CASE EnsureHistoryLoaded(Shown, history.page)
             /\ (UNCHANGED history
                 \/ history' = [history EXCEPT !.detail = row, !.pending = NoGeneration])
    <3>1. history'.page \in Nat
      BY <1>0, <2>3 DEF DashboardInv, HistoryShape
    <3> QED BY <1>0, <2>2, <2>3, <3>1, EnsureKeeps
  <2>4. CASE /\ ~asked /\ BeginDetail(row, history.mode)
             /\ cache' = [cache EXCEPT ![Shown] = c]
    <3>1. ~life.busy
      BY <2>4 DEF BeginDetail
    <3>2. CASE Shown \notin Repos
      <4>1. cache' = cache
        BY <2>4, <3>2 DEF HistoryInv
      <4> QED BY <2>2, <2>4, <4>1, CacheUnchanged, DetailKeeps
    <3>3. CASE Shown \in Repos
      <4> DEFINE d == WithDirtyRow(cache[Shown], Shown)
      <4>1. cache[Shown].loading = NoGeneration /\ Anchored(cache[Shown])
        BY <3>1, <3>3, NoneInFlight DEF HistoryInv
      <4>2. Anchored(d)
        BY <4>1, DirtyAnchored
      <4>3. ~Wanted(d, history.page)
        <5> SUFFICES ASSUME Wanted(d, history.page) PROVE FALSE
          OBVIOUS
        <5>1. c = [d EXCEPT !.loading = life.next, !.page = history.page]
          BY <3>1 DEF Ensured
        <5>2. c.loading = life.next
          BY <4>2, <5>1 DEF Anchored, CacheShape
        <5> QED BY <2>4, <4>1, <5>2 DEF HistoryInv
      <4>4. cache' = [cache EXCEPT ![Shown] = WithDirtyRow(cache[Shown], Shown)]
        BY <2>4, <4>3 DEF Ensured
      <4> QED BY <2>2, <2>4, <4>4, CacheWithDirtyRow, DetailKeeps
    <3> QED BY <3>2, <3>3
  <2> QED BY <2>1, <2>3, <2>4
<1>9. CASE ToggleMode
  <2> DEFINE mode == 1 - history.mode
  <2>1. \/ history' = [history EXCEPT !.mode = mode] /\ Still
        \/ history' = [history EXCEPT !.mode = mode, !.pending = NoGeneration] /\ Still
        \/ BeginDetail(history.detail, mode)
    BY <1>9 DEF ToggleMode
  <2>2. UNCHANGED <<cache, head>>
    BY <1>9 DEF ToggleMode, world
  <2>3. CASE BeginDetail(history.detail, mode)
    BY <2>2, <2>3, CacheUnchanged, DetailKeeps
  <2>4. CASE Still /\ (\/ history' = [history EXCEPT !.mode = mode]
                       \/ history' = [history EXCEPT !.mode = mode, !.pending = NoGeneration])
    <3>1. history'.page \in Nat
      BY <1>0, <2>4 DEF DashboardInv, HistoryShape
    <3> QED BY <1>0, <2>2, <2>4, <3>1, CacheUnchanged, Keeps DEF Still
  <2> QED BY <2>1, <2>3, <2>4
<1>10. CASE CloseDiscover \/ ClosePreview \/ CloseDetail \/ CloseHistory
  <2>1. UNCHANGED op /\ life'.next = life.next /\ life'.busy = life.busy
    BY <1>10, CancelsKeep DEF CloseDiscover, ClosePreview, CloseDetail, CloseHistory
  <2>2. UNCHANGED <<cache, head>>
    BY <1>10 DEF CloseDiscover, ClosePreview, CloseDetail, CloseHistory, world
  <2>3. history'.page = history.page
    BY <1>10 DEF CloseDiscover, ClosePreview, CloseDetail, CloseHistory, DetailClosed, DashboardInv,
                 HistoryShape
  <2> QED BY <1>0, <2>1, <2>2, <2>3, CacheUnchanged, Keeps
<1>11. CASE Quit
  <2>1. UNCHANGED <<op, cache, history, head>>
    BY <1>11 DEF Quit, world
  <2>2. life' = [life EXCEPT !.exit = TRUE] \/ life' = life
    BY <1>11 DEF Quit
  <2>3. life'.next = life.next /\ life'.busy = life.busy
    BY <2>2 DEF DashboardInv, LifeInv, Lifecycle
  <2> QED BY <1>0, <2>1, <2>3, CacheUnchanged, Keeps
<1> QED BY <1>1, <1>2, <1>3, <1>4, <1>5, <1>6, <1>7, <1>8, <1>9, <1>10, <1>11 DEF Keys

\* An operation that ends with something.
LEMMA Deposits ==
    ASSUME DashboardInv, HistoryInv, NEW stage, NEW out, Deposit(stage, out),
           \A r \in Repos : cache[r].loading # NoGeneration =>
             /\ stage = "result"
             /\ out.error # "none" \/ Continues(out, op.anchor, op.skip)
    PROVE  HistoryInv'
<1>1. op' = [op EXCEPT !.stage = stage, !.out = out]
      /\ UNCHANGED <<life, cache, history, head>>
  BY DEF Deposit, ui, world
<1>2. /\ DOMAIN op' = DOMAIN op /\ op' = [x \in DOMAIN op' |-> op'[x]]
      /\ op'.stage = stage /\ op'.out = out
      /\ \A x \in DOMAIN op : x \notin {"stage", "out"} => op'[x] = op[x]
  BY <1>1 DEF HistoryInv, OpShape, Fields
<1>3. op'.kind = op.kind /\ op'.gen = op.gen
  BY <1>2 DEF HistoryInv, OpShape, Fields
<1>4. op.kind = "page" => /\ op'.repo = op.repo /\ op'.skip = op.skip
                          /\ op'.anchor = op.anchor /\ op'.count = op.count
  BY <1>2 DEF HistoryInv, OpShape
<1>5. OpShape'
  BY <1>2, <1>3 DEF HistoryInv, OpShape
<1>6. ASSUME NEW r \in Repos PROVE InFlight(r)'
  BY <1>1, <1>2, <1>3, <1>4 DEF HistoryInv, InFlight
<1> QED BY <1>1, <1>5, <1>6 DEF HistoryInv

LEMMA FailedHistory ==
    ASSUME DashboardInv, HistoryInv, NEW what, what # "none", ReadFailed(what)
    PROVE  HistoryInv'
<1>1. CASE op.kind \in Carries
  <2> DEFINE out == [error |-> what]
  <2>1. Deposit("result", out)
    BY <1>1 DEF ReadFailed
  <2>2. out.error # "none"
    OBVIOUS
  <2> HIDE DEF out
  <2> QED BY <2>1, <2>2, Deposits
<1>2. CASE op.kind \notin Carries
  <2>1. Deposit("error", what)
    BY <1>2 DEF ReadFailed
  <2>2. \A r \in Repos : cache[r].loading = NoGeneration
    BY <1>2 DEF HistoryInv, InFlight, Carries
  <2> QED BY <2>1, <2>2, Deposits
<1> QED BY <1>1, <1>2

LEMMA ReadHistory ==
    ASSUME DashboardInv, HistoryInv, Read
    PROVE  HistoryInv'
<1>1. CASE op.kind = "page"
  <2>1. Deposit("result", Batch(op))
    BY <1>1 DEF Read
  <2>2. ASSUME NEW r \in Repos, cache[r].loading # NoGeneration
        PROVE  Continues(Batch(op), op.anchor, op.skip)
    <3>1. /\ op.repo = r /\ op.skip = Loaded(cache[r]) /\ op.anchor = cache[r].anchor
          /\ op.count \in Int /\ Anchored(cache[r])
      BY <2>2 DEF HistoryInv, InFlight
    <3>2. op.skip \in Nat /\ op.skip <= op.anchor
      BY <3>1, LoadedRows
    <3>3. op.anchor \in Nat /\ head[op.repo] \in Nat
      BY <3>1 DEF Anchored, CacheShape, HistoryInv
    <3> QED BY <3>1, <3>2, <3>3, BatchContinues
  <2> QED BY <2>1, <2>2, Deposits
<1>2. CASE op.kind # "page"
  <2>1. \A r \in Repos : cache[r].loading = NoGeneration
    BY <1>2 DEF HistoryInv, InFlight
  <2>2. ASSUME NEW out, Deposit("result", out) PROVE HistoryInv'
    BY <2>1, <2>2, Deposits
  <2>3. CASE op.kind = "startup"
    BY <2>2, <2>3 DEF Read
  <2>4. CASE op.kind = "refresh"
    BY <2>2, <2>4 DEF Read
  <2>5. CASE op.kind = "detail"
    BY <2>2, <2>5 DEF Read
  <2>6. CASE op.kind \notin {"startup", "refresh", "page", "detail"}
    BY <2>2, <2>6 DEF Read
  <2> QED BY <1>2, <2>3, <2>4, <2>5, <2>6
<1> QED BY <1>1, <1>2

LEMMA WorksHistory ==
    ASSUME DashboardInv, HistoryInv, Works
    PROVE  HistoryInv'
<1>1. CASE Cancelled
  <2>1. ReadFailed("cancelled")
    BY <1>1 DEF Cancelled
  <2>2. "cancelled" # "none"
    OBVIOUS
  <2> QED BY <2>1, <2>2, FailedHistory
<1>2. CASE Broken
  <2>1. ReadFailed("failed")
    BY <1>2 DEF Broken
  <2>2. "failed" # "none"
    OBVIOUS
  <2> QED BY <2>1, <2>2, FailedHistory
<1>3. CASE Read
  BY <1>3, ReadHistory
<1> QED BY <1>1, <1>2, <1>3 DEF Works

\* What was loading is so no more, and goes on where its rows ended.
LEMMA CompleteCache ==
    ASSUME DashboardInv, HistoryInv, Complete
    PROVE  /\ cache' = [r \in Repos |-> cache'[r]]
           /\ \A r \in Repos : Anchored(cache'[r]) /\ cache'[r].loading = NoGeneration
<1>0. /\ cache' = CacheAfter /\ op.stage \in {"result", "error"}
      /\ cache = [r \in Repos |-> cache[r]] /\ \A r \in Repos : Anchored(cache[r])
  BY DEF Complete, HistoryInv
<1>1. \A r \in Repos : cache[r].loading # NoGeneration =>
        ReadSucceeded /\ op.kind = "page" /\ op.repo = r /\ op.gen = cache[r].loading
  BY <1>0 DEF HistoryInv, InFlight, ReadSucceeded
<1>2. CASE Replaces
  <2>1. cache' = [r \in Repos |-> NoCache]
    BY <1>0, <1>2 DEF CacheAfter, Replaces, RereadsRow
  <2> QED BY <2>1, EmptyAnchored
<1>3. CASE RereadsRow
  <2>1. cache' = [cache EXCEPT ![op.repo] = NoCache]
    BY <1>0, <1>3 DEF CacheAfter, Replaces, RereadsRow
  <2>2. \A r \in Repos : cache[r].loading = NoGeneration
    BY <1>1, <1>3 DEF RereadsRow
  <2>3. \A r \in Repos : cache'[r] = IF r = op.repo THEN NoCache ELSE cache[r]
    BY <1>0, <2>1
  <2>4. cache' = [r \in Repos |-> cache'[r]]
    BY <1>0, <2>1
  <2> QED BY <1>0, <2>2, <2>3, <2>4, EmptyAnchored
<1>4. CASE ReadSucceeded /\ op.kind = "page"
  <2>0. cache' = IF cache[op.repo].loading = op.gen
                 THEN [cache EXCEPT ![op.repo] = Appended(cache[op.repo], op.out)] ELSE cache
    BY <1>0, <1>4 DEF CacheAfter, Replaces, RereadsRow
  <2>1. cache' = [r \in Repos |-> cache'[r]]
    BY <1>0, <2>0
  <2>2. ASSUME NEW r \in Repos
        PROVE  Anchored(cache'[r]) /\ cache'[r].loading = NoGeneration
    <3>1. CASE cache[r].loading = NoGeneration
      <4>1. op.gen # NoGeneration
        BY <1>4 DEF HistoryInv, OpShape
      <4>2. cache'[r] = cache[r]
        BY <1>0, <2>0, <3>1, <4>1
      <4> QED BY <1>0, <3>1, <4>2
    <3>2. CASE cache[r].loading # NoGeneration
      <4>1. /\ op.repo = r /\ op.gen = cache[r].loading
            /\ op.out.error # "none" \/ Continues(op.out, op.anchor, op.skip)
            /\ op.skip = Loaded(cache[r]) /\ op.anchor = cache[r].anchor
        BY <1>4, <3>2 DEF HistoryInv, InFlight, ReadSucceeded
      <4>2. cache'[r] = Appended(cache[r], op.out)
        BY <1>0, <2>0, <4>1
      <4> QED BY <1>0, <4>1, <4>2, AppendedAnchored
    <3> QED BY <3>1, <3>2
  <2> QED BY <2>1, <2>2
<1>5. CASE ReadSucceeded /\ op.kind = "detail" /\ op.out.error = "none"
  <2>1. cache' = [cache EXCEPT ![op.repo].details = @ \cup {op.key}]
    BY <1>0, <1>5 DEF CacheAfter, Replaces, RereadsRow
  <2>2. cache' = [r \in Repos |-> cache'[r]]
    BY <1>0, <2>1
  <2>3. ASSUME NEW r \in Repos
        PROVE  Anchored(cache'[r]) /\ cache'[r].loading = NoGeneration
    <3>1. cache[r].loading = NoGeneration /\ CacheShape(cache[r]) /\ Anchored(cache[r])
      BY <1>0, <1>1, <1>5 DEF Anchored
    <3>2. CASE r # op.repo
      BY <1>0, <2>1, <3>1, <3>2
    <3>3. CASE r = op.repo
      <4> DEFINE c == cache[r]
                 d == cache'[r]
                 k == c.details \cup {op.key}
      <4>1. d = [c EXCEPT !.details = k]
        BY <1>0, <2>1, <3>3
      <4>2. d = [rows |-> c.rows, anchor |-> c.anchor, loading |-> c.loading, page |-> c.page,
                 failed |-> c.failed, full |-> c.full, details |-> k]
        BY <3>1, <4>1 DEF CacheShape
      <4> HIDE DEF k
      <4>3. /\ d.rows = c.rows /\ d.anchor = c.anchor /\ d.loading = c.loading
            /\ d.failed = c.failed /\ d.full = c.full /\ CacheShape(d)
        BY <3>1, <4>2 DEF CacheShape
      <4>4. Anchored(c) /\ c.loading = NoGeneration
        BY <3>1
      <4> HIDE DEF c, d
      <4>5. Anchored(d) /\ d.loading = NoGeneration
        BY <4>3, <4>4, LoadingAnchored
      <4> QED BY <4>5 DEF d
    <3> QED BY <3>2, <3>3
  <2> QED BY <2>2, <2>3
<1>6. CASE /\ ~Replaces /\ ~RereadsRow /\ ~(ReadSucceeded /\ op.kind = "page")
           /\ ~(ReadSucceeded /\ op.kind = "detail" /\ op.out.error = "none")
  <2>1. cache' = cache
    BY <1>0, <1>6 DEF CacheAfter
  <2> QED BY <1>0, <1>1, <1>6, <2>1
<1> QED BY <1>2, <1>3, <1>4, <1>5, <1>6

LEMMA CompleteHistory ==
    ASSUME DashboardInv, HistoryInv, Complete
    PROVE  HistoryInv'
<1>1. /\ cache' = [r \in Repos |-> cache'[r]]
      /\ \A r \in Repos : Anchored(cache'[r]) /\ cache'[r].loading = NoGeneration
  BY CompleteCache
<1>2. \A r \in Repos : InFlight(r)'
  BY <1>1 DEF InFlight
<1>3. OpShape'
  BY DEF Complete, NoOperation, OpShape, Fields
<1>4. life'.next # NoGeneration
  BY DEF Complete, HistoryInv, DashboardInv, LifeInv, Lifecycle
<1>5. history'.page \in Nat
  <2>1. history.page \in Nat /\ history' = HistoryAfter
    BY DEF HistoryInv, Complete
  <2>2. ASSUME NEW list PROVE Reconciled(history, list).page \in Nat
    <3> DEFINE i == CHOOSE j \in DOMAIN list : list[j] = Shown
               kept == [history EXCEPT !.index = i]
    <3>1. Reconciled(history, list) \in
            {kept, DetailClosed([kept EXCEPT !.page = 0]),
             DetailClosed([history EXCEPT !.active = FALSE])}
      BY DEF Reconciled
    <3> HIDE DEF i
    <3>2. kept.page = history.page
      BY DEF DashboardInv, HistoryShape
    <3>3. DetailClosed([kept EXCEPT !.page = 0]).page = 0
      BY DEF DetailClosed, DashboardInv, HistoryShape
    <3>4. DetailClosed([history EXCEPT !.active = FALSE]).page = history.page
      BY DEF DetailClosed, DashboardInv, HistoryShape
    <3> HIDE DEF kept
    <3> QED BY <2>1, <3>1, <3>2, <3>3, <3>4
  <2>3. CASE (Replaces \/ RereadsRow) /\ history.active
    BY <2>1, <2>2, <2>3 DEF HistoryAfter
  <2>4. CASE ~((Replaces \/ RereadsRow) /\ history.active)
    <3>1. \/ history' = history
          \/ history' = [history EXCEPT !.pending = NoGeneration, !.failed = op.out.error # "none"]
      BY <2>1, <2>4 DEF HistoryAfter
    <3> QED BY <2>1, <3>1 DEF DashboardInv, HistoryShape
  <2> QED BY <2>3, <2>4
<1>6. head' \in [Repos -> Nat]
  BY DEF Complete, world, HistoryInv
<1> QED BY <1>1, <1>2, <1>3, <1>4, <1>5, <1>6 DEF HistoryInv

-----------------------------------------------------------------------------
LEMMA InitHistory == DashboardInit => HistoryInv
<1> SUFFICES ASSUME DashboardInit PROVE HistoryInv
  OBVIOUS
<1>1. cache = [r \in Repos |-> NoCache]
  BY DEF DashboardInit
<1>2. \A r \in Repos : Anchored(cache[r]) /\ InFlight(r)
  BY <1>1, EmptyAnchored DEF InFlight
<1>3. OpShape
  BY DEF DashboardInit, OpShape, Fields
<1>4. life.next # NoGeneration /\ history.page \in Nat /\ head \in [Repos -> Nat]
  BY DashboardAssumption DEF DashboardInit, NoGeneration, NoHistory
<1> QED BY <1>1, <1>2, <1>3, <1>4 DEF HistoryInv

LEMMA HistoryStep ==
    ASSUME DashboardInv, HistoryInv, [DashboardNext]_dashboardVars
    PROVE  HistoryInv'
<1>1. CASE Keys
  BY <1>1, KeyHistory
<1>2. CASE Frame
  <2>1. EnsureHistoryLoaded(Shown, history.page) /\ UNCHANGED <<history, head>>
    BY <1>2 DEF Frame, world
  <2> QED BY <2>1, EnsureKeeps DEF HistoryInv
<1>3. CASE Works
  BY <1>3, WorksHistory
<1>4. CASE Complete
  BY <1>4, CompleteHistory
<1>5. CASE CommitElsewhere \/ RemoveRepo \/ UNCHANGED dashboardVars
  <2>1. UNCHANGED <<life, op, cache, history>>
    BY <1>5 DEF CommitElsewhere, RemoveRepo, dashboardVars, worker, ui
  <2>2. head' \in [Repos -> Nat]
    <3>1. head \in [Repos -> Nat]
      BY DEF HistoryInv
    <3>2. CASE CommitElsewhere
      BY <3>1, <3>2 DEF CommitElsewhere
    <3>3. CASE ~CommitElsewhere
      BY <1>5, <3>1, <3>3 DEF RemoveRepo, dashboardVars, world
    <3> QED BY <3>2, <3>3
  <2>3. history'.page \in Nat
    BY <2>1 DEF HistoryInv
  <2> QED BY <2>1, <2>2, <2>3, CacheUnchanged, Keeps
<1> QED BY <1>1, <1>2, <1>3, <1>4, <1>5 DEF DashboardNext

\* A history that is anchored lists its anchor's commits in order.
LEMMA AnchoredLists ==
    ASSUME NEW c, Anchored(c)
    PROVE  /\ \A i \in CommitRows(c, Len(c.rows)) :
                 c.rows[i] = c.anchor - Cardinality(CommitRows(c, i - 1))
           /\ (c.full /\ ~c.failed) => Loaded(c) = c.anchor
<1>1. /\ Len(c.rows) \in Nat /\ Lead(c) \in {0, 1} /\ c.anchor \in Nat
      /\ Lead(c) = 1 => c.rows[1] = DirtyRow
  BY DEF Anchored, CacheShape, Lead
<1>2. ASSUME NEW i \in CommitRows(c, Len(c.rows))
      PROVE  c.rows[i] = c.anchor - Cardinality(CommitRows(c, i - 1))
  <2>1. i \in 1..Len(c.rows) /\ c.rows[i] # DirtyRow
    BY DEF CommitRows
  <2>2. i > Lead(c) /\ i - 1 \in Lead(c)..Len(c.rows)
    BY <1>1, <2>1
  <2>3. c.rows[i] = c.anchor - (i - Lead(c)) + 1
    BY <2>1, <2>2 DEF Anchored
  <2>4. Cardinality(CommitRows(c, i - 1)) = (i - 1) - Lead(c)
    BY <2>2, CommitsCounted
  <2>5. ASSUME NEW a \in Nat, NEW j \in Nat, NEW k \in Nat
        PROVE  a - (j - k) + 1 = a - ((j - 1) - k)
    OBVIOUS
  <2> QED BY <1>1, <2>1, <2>3, <2>4, <2>5
<1>3. (c.full /\ ~c.failed) => Loaded(c) = c.anchor
  BY LoadedRows DEF Anchored
<1> QED BY <1>2, <1>3

\* Whatever is committed, removed, cancelled and read anew while a history is read page by
\* page: its rows are the newest commits of its anchor, none twice and none left out, and a
\* history that says it is complete has them all.
THEOREM HistoryAnchored == DashboardSpec => []HistoryIsAnchored
<1>1. DashboardInit => DashboardInv /\ HistoryInv
  BY InitDashboardInv, InitHistory
<1>2. DashboardInv /\ HistoryInv /\ [DashboardNext]_dashboardVars => (DashboardInv /\ HistoryInv)'
  BY NextStep, HistoryStep
<1>3. HistoryInv => HistoryIsAnchored
  BY AnchoredLists DEF HistoryInv, HistoryIsAnchored
<1> QED BY <1>1, <1>2, <1>3, PTL DEF DashboardSpec

-----------------------------------------------------------------------------
(* RepoOperationScheduler                                                  *)

USE NAssumption DEF Repo, NoRepo, Cycle

\* The sets of repositories the scheduler counts are finite.
LEMMA FiniteRepos ==
    ASSUME NEW S \in SUBSET Repo
    PROVE  IsFiniteSet(S) /\ Cardinality(S) \in Nat
  <1>1. IsFiniteSet(Repo)
    BY FS_Interval
  <1> QED BY <1>1, FS_Subset, FS_CardinalityType

\* A non-empty set of numbers has a least one (blockedBy is well defined).
LEMMA LeastRepo ==
    ASSUME NEW S, S \subseteq Nat, S # {}
    PROVE  \E x \in S : \A y \in S : x <= y
  <1> DEFINE R == OpToRel(<, Nat)
  <1>1. IsWellFoundedOn(R, Nat)
    BY NatLessThanWellFounded
  <1>2. \A x, y \in Nat : y < x => <<y, x>> \in R
    BY DEF OpToRel
  <1> HIDE DEF R
  <1>3. PICK x \in S : \A y \in S : ~ (<<y, x>> \in R)
    BY <1>1, WFMin
  <1>4. \A y \in S : ~ (y < x)
    BY <1>2, <1>3
  <1> QED BY <1>4

\* What the dependency graph keeps of a call is a set of repositories.
LEMMA EdgesType ==
    ASSUME NEW r \in Repo
    PROVE  Edges(r) \subseteq Repo
  BY DEF Edges

\* The arguments of a call have their types.
LEMMA CallType ==
    ASSUME call \in Inputs
    PROVE  call \in Call /\ call.jobs \in Int
  BY InputsAssumption DEF Call

\* Lock keys are natural numbers (the path of a repository is its number).
LEMMA LockKeyType ==
    ASSUME call \in Inputs, NEW r \in Repo
    PROVE  ResolveLockKey(r) \in Nat
  <1>1. call \in Call
    BY InputsAssumption
  <1> QED BY <1>1 DEF ResolveLockKey, ResolveRepoOperationLockKey, Call

\* BuildRepoOperationWaves: appending a wave adds exactly its repositories.
LEMMA AppendWave ==
    ASSUME waves \in Seq(SUBSET Repo), NEW S \in SUBSET Repo,
           waves' = Append(waves, S)
    PROVE  /\ \A k \in 0..Len(waves) : Earlier(k)' = Earlier(k)
           /\ Earlier(Len(waves))' = Earlier(Len(waves)) \cup S
  <1>1. \A k \in 1..Len(waves) : waves'[k] = waves[k]
    OBVIOUS
  <1>2. Len(waves)' = Len(waves) + 1 /\ waves'[Len(waves) + 1] = S
    OBVIOUS
  <1>3. Len(waves) \in Nat
    OBVIOUS
  <1>4. ASSUME NEW k \in 0..Len(waves) PROVE Earlier(k)' = Earlier(k)
    <2>1. \A j \in 1..k : waves'[j] = waves[j]
      BY <1>1, <1>3
    <2> QED BY <2>1 DEF Earlier
  <1>5. Earlier(Len(waves))' = Earlier(Len(waves)) \cup S
    <2>1. Earlier(Len(waves))' = {r \in Repo : \E j \in 1..(Len(waves) + 1) :
                                                    r \in waves'[j]}
      BY <1>2 DEF Earlier
    <2>2. \A j : j \in 1..(Len(waves) + 1) <=> j \in 1..Len(waves) \/ j = Len(waves) + 1
      BY <1>3
    <2> QED BY <2>1, <2>2, <1>1, <1>2 DEF Earlier
  <1> QED BY <1>4, <1>5

\* The waves before a wave and the wave itself.
LEMMA EarlierStep ==
    ASSUME waves \in Seq(SUBSET Repo), NEW k \in 1..Len(waves)
    PROVE  Earlier(k) = Earlier(k - 1) \cup waves[k]
  <1>1. waves[k] \subseteq Repo
    OBVIOUS
  <1>2. \A j \in 1..k : j \in 1..(k - 1) \/ j = k
    OBVIOUS
  <1>3. \A j \in 1..(k - 1) : j \in 1..k
    OBVIOUS
  <1> QED BY <1>1, <1>2, <1>3 DEF Earlier

-----------------------------------------------------------------------------
\* The scheduler starts in the invariant.
LEMMA InitIInv == Init => IInv
  <1> SUFFICES ASSUME Init PROVE IInv
    OBVIOUS
  <1> USE DEF Init
  <1>0. Len(waves) = 0 /\ Earlier(0) = {} /\ Earlier(phase) = {}
    BY DEF Earlier
  <1>1. \A r \in Repo : Cardinality(Edges(r)) \in Nat
    BY FiniteRepos, EdgesType
  <1>2. TypeOK
    <2>1. waves \in Seq(SUBSET Repo)
      OBVIOUS
    <2>2. phase \in 0..Len(waves)
      BY <1>0
    <2>3. indegree \in [Repo -> Nat]
      BY <1>1
    <2>4. /\ outcome \in [Repo -> Status]
          /\ status \in [Repo -> Status]
          /\ thread \in [Repo -> ThreadState]
      BY DEF Status, ThreadState
    <2>5. /\ blame \in [Repo -> 0..(N + 1)]
          /\ reported \in [Repo -> Nat]
          /\ blockedBy \in [Repo -> 0..N]
      OBVIOUS
    <2>6. ready \subseteq Repo /\ cycleNodes \subseteq Repo
             /\ activeLocks \subseteq Nat /\ failedOrBlocked \subseteq Repo
      OBVIOUS
    <2> QED BY <2>1, <2>2, <2>3, <2>4, <2>5, <2>6 DEF TypeOK
  <1>3. PlanInv
    <2>1. \A r \in Repo : Edges(r) \ Earlier(Len(waves)) = Edges(r)
      BY <1>0
    <2>2. \A j, k \in 1..Len(waves) : j # k => waves[j] \cap waves[k] = {}
      BY <1>0
    <2>3. \A k \in 1..Len(waves) : \A r \in waves[k] :
              Edges(r) \subseteq Earlier(k - 1)
      BY <1>0
    <2>4. ready = {r \in Repo : indegree[r] = 0} \ Earlier(Len(waves))
      BY <1>0
    <2>5. \A r \in Repo :
              indegree[r] = Cardinality(Edges(r) \ Earlier(Len(waves)))
      BY <2>1
    <2> QED BY <1>0, <2>2, <2>3, <2>4, <2>5 DEF PlanInv
  <1>4. ThreadInv
    BY DEF ThreadInv, Idle
  <1>5. Holding = {}
    BY DEF Holding
  <1>6. LockInv
    <2>1. call.jobs \in Int
      BY CallType
    <2>2. activeLocks = {ResolveLockKey(r) : r \in Holding}
      BY <1>5
    <2>3. activeCount = Cardinality(Holding)
      BY <1>5, FS_EmptySet
    <2> QED BY <1>5, <2>1, <2>2, <2>3 DEF LockInv, Parallel
  <1>7. ReportInv
    BY <1>0 DEF ReportInv
  <1> QED BY <1>2, <1>3, <1>4, <1>6, <1>7 DEF IInv

-----------------------------------------------------------------------------
\* The graph, the lock keys and the mode depend on the call alone.
LEMMA CallFrame ==
    ASSUME call' = call
    PROVE  /\ \A r : Edges(r)' = Edges(r)
           /\ \A r : ResolveLockKey(r)' = ResolveLockKey(r)
           /\ Mutating' = Mutating
           /\ Parallel' = Parallel
  BY DEF Edges, ResolveLockKey, ResolveRepoOperationLockKey, Mutating, Parallel

\* The planned repositories depend on the waves alone.
LEMMA WavesFrame ==
    ASSUME waves' = waves
    PROVE  \A k : Earlier(k)' = Earlier(k)
  BY DEF Earlier

\* A step that leaves a part's variables alone preserves that part.
LEMMA PlanFrame ==
    ASSUME PlanInv, call' = call, planVars' = planVars,
           pc # "plan", pc' # "plan"
    PROVE  PlanInv'
  BY CallFrame, WavesFrame DEF PlanInv, planVars

LEMMA LockFrame ==
    ASSUME LockInv, call' = call, lockVars' = lockVars, Holding' = Holding,
           Holding = {} \/ \A q \in Repo : Idle(q) => Idle(q)'
    PROVE  LockInv'
  <1>1. {ResolveLockKey(r)' : r \in Holding'} = {ResolveLockKey(r) : r \in Holding}
    BY CallFrame
  <1> QED BY <1>1, CallFrame DEF LockInv, lockVars

-----------------------------------------------------------------------------
\* One iteration of BuildRepoOperationWaves.
LEMMA PlanWaveStep == IInv /\ PlanWave => IInv'
  <1> SUFFICES ASSUME IInv, PlanWave PROVE IInv'
    OBVIOUS
  <1> DEFINE P == Earlier(Len(waves))
  <1>0. TypeOK /\ PlanInv /\ ThreadInv /\ LockInv /\ ReportInv
    BY DEF IInv
  <1>1. waves \in Seq(SUBSET Repo) /\ ready \in SUBSET Repo /\ waves' = Append(waves, ready)
           /\ Len(waves) \in Nat /\ phase = 0 /\ pc = "plan" /\ pc' = "plan" /\ Mutating
           /\ call' = call /\ phase' = phase /\ cycleNodes' = cycleNodes /\ cycleNodes = {}
    BY <1>0 DEF PlanWave, TypeOK, PlanInv
  <1>2. /\ \A k \in 0..Len(waves) : Earlier(k)' = Earlier(k)
        /\ Earlier(Len(waves))' = P \cup ready
    BY <1>1, AppendWave
  <1>3. Len(waves)' = Len(waves) + 1 /\ waves' \in Seq(SUBSET Repo)
           /\ waves'[Len(waves) + 1] = ready
           /\ \A k \in 1..Len(waves) : waves'[k] = waves[k]
    BY <1>1
  <1>4. ready = {r \in Repo : indegree[r] = 0} \ P
    BY <1>0, <1>1 DEF PlanInv
  <1>5. \A r \in Repo : indegree[r] = Cardinality(Edges(r) \ P) /\ indegree[r] \in Nat
    BY <1>0, <1>1 DEF PlanInv, TypeOK
  <1>6. ASSUME NEW r \in ready PROVE Edges(r) \subseteq P
    <2>1. Cardinality(Edges(r) \ P) = 0
      BY <1>4, <1>5
    <2>2. IsFiniteSet(Edges(r) \ P)
      BY FiniteRepos, EdgesType, <1>1
    <2> QED BY <2>1, <2>2, FS_EmptySet
  <1>7. ASSUME NEW r \in Repo
        PROVE  /\ indegree'[r] = Cardinality(Edges(r) \ (P \cup ready))
               /\ indegree'[r] \in Nat
               /\ r \in P \cup ready => indegree'[r] = 0
    <2>1. IsFiniteSet(Edges(r) \ P) /\ IsFiniteSet(ready \cap Edges(r))
             /\ Cardinality(Edges(r) \ P) \in Nat
             /\ Cardinality(ready \cap Edges(r)) \in Nat
             /\ Cardinality(Edges(r) \ (P \cup ready)) \in Nat
      BY FiniteRepos, EdgesType
    <2>2. (Edges(r) \ P) \ (ready \cap Edges(r)) = Edges(r) \ (P \cup ready)
             /\ (Edges(r) \ P) \cap (ready \cap Edges(r)) = ready \cap Edges(r)
      BY <1>4
    <2>3. Cardinality(Edges(r) \ (P \cup ready))
             = Cardinality(Edges(r) \ P) - Cardinality(ready \cap Edges(r))
      <3> DEFINE D == Edges(r) \ P
                 Q == ready \cap Edges(r)
      <3>1. Cardinality(D \ Q) = Cardinality(D) - Cardinality(D \cap Q)
        <4> HIDE DEF D, Q
        <4> QED BY <2>1, FS_Difference DEF D
      <3> QED BY <3>1, <2>2
    <2>4. indegree'[r] = Cardinality(Edges(r) \ (P \cup ready))
      BY <2>3, <1>5 DEF PlanWave, Decrement
    <2>5. r \in P \cup ready => Edges(r) \ P = {}
      <3>1. CASE r \in ready
        BY <3>1, <1>6
      <3>2. CASE r \in P
        <4>1. Cardinality(Edges(r) \ P) = 0
          BY <3>2, <1>0, <1>1, <1>5 DEF PlanInv
        <4> QED BY <4>1, <2>1, FS_EmptySet
      <3> QED BY <3>1, <3>2
    <2>6. r \in P \cup ready => Edges(r) \ (P \cup ready) = {}
      BY <2>5
    <2> QED BY <2>1, <2>4, <2>6, FS_EmptySet
  <1>8. ready' = {r \in Repo : indegree'[r] = 0} \ (P \cup ready)
    <2>1. ready' = {o \in Repo : indegree[o] > 0 /\ indegree'[o] = 0}
      BY DEF PlanWave
    <2>2. \A r \in P : r \in Repo /\ indegree[r] = 0
      BY <1>0, <1>1 DEF PlanInv, Earlier
    <2>3. ASSUME NEW r \in Repo
          PROVE  indegree[r] > 0 <=> r \notin P \cup ready
      <3>1. indegree[r] \in Nat
        BY <1>5
      <3>2. r \in ready <=> indegree[r] = 0 /\ r \notin P
        BY <1>4
      <3>3. r \in P => indegree[r] = 0
        BY <2>2
      <3> HIDE DEF P
      <3> QED BY <3>1, <3>2, <3>3
    <2> HIDE DEF P
    <2> QED BY <2>1, <2>3, Zenon
  <1>9. PlanInv'
    <2>1. \A j, k \in 1..Len(waves)' : j # k => waves'[j] \cap waves'[k] = {}
      <3>1. \A j, k \in 1..Len(waves) : j # k => waves[j] \cap waves[k] = {}
        BY <1>0 DEF PlanInv
      <3>2. \A j \in 1..Len(waves) : waves[j] \cap ready = {}
        <4>1. \A j \in 1..Len(waves) : waves[j] \subseteq P
          BY <1>1 DEF Earlier
        <4> QED BY <4>1, <1>4
      <3>3. \A k \in 1..Len(waves)' : k \in 1..Len(waves) \/ k = Len(waves) + 1
        BY <1>1, <1>3
      <3> QED BY <3>1, <3>2, <3>3, <1>3
    <2>2. ASSUME NEW k \in 1..Len(waves)', NEW r \in waves'[k]
          PROVE  Edges(r)' \subseteq Earlier(k - 1)'
      <3>1. Edges(r)' = Edges(r)
        BY <1>1, CallFrame
      <3>2. CASE k \in 1..Len(waves)
        <4>1. r \in waves[k] /\ k - 1 \in 0..Len(waves)
          BY <3>2, <1>1, <1>3
        <4>2. Edges(r) \subseteq Earlier(k - 1)
          BY <4>1, <3>2, <1>0, <1>1 DEF PlanInv
        <4> QED BY <3>1, <4>1, <4>2, <1>2
      <3>3. CASE k = Len(waves) + 1
        <4>1. r \in ready /\ k - 1 = Len(waves) /\ Len(waves) \in 0..Len(waves)
          BY <3>3, <1>1, <1>3
        <4> QED BY <3>1, <4>1, <1>2, <1>6
      <3> QED BY <3>2, <3>3, <1>1, <1>3
    <2>3. \A r \in Repo : indegree'[r] = Cardinality(Edges(r)' \ Earlier(Len(waves))')
      BY <1>1, <1>2, <1>7, CallFrame
    <2>4. \A r \in Earlier(Len(waves))' : indegree'[r] = 0
      <3>1. P \cup ready \subseteq Repo
        BY <1>1 DEF Earlier
      <3> QED BY <3>1, <1>2, <1>7
    <2>5. Mutating'
      BY <1>1, CallFrame
    <2> QED BY <2>1, <2>2, <2>3, <2>4, <2>5, <1>1, <1>2, <1>8 DEF PlanInv
  <1>10. TypeOK'
    <2>1. indegree' \in [Repo -> Nat]
      BY <1>7 DEF PlanWave
    <2>2. ready' \subseteq Repo /\ phase' \in 0..Len(waves)'
      BY <1>1, <1>3, <1>8
    <2> QED BY <2>1, <2>2, <1>0, <1>1, <1>3
        DEF TypeOK, PlanWave, lockVars, resultVars, blockVars
  <1>11. ThreadInv'
    BY <1>0, <1>1 DEF ThreadInv, Idle, PlanWave
  <1>12. LockInv'
    <2>1. Holding' = Holding /\ lockVars' = lockVars /\ \A q \in Repo : Idle(q)' = Idle(q)
      BY DEF PlanWave, Holding, Idle
    <2> QED BY <2>1, <1>0, <1>1, LockFrame
  <1>13. ReportInv'
    <2>1. Earlier(phase)' = Earlier(phase)
      BY <1>1, <1>2
    <2>2. UNCHANGED <<reported, status, outcome, thread, failedOrBlocked>>
      BY DEF PlanWave, resultVars, blockVars
    <2> QED BY <2>1, <2>2, <1>0, <1>1, CallFrame DEF ReportInv, Idle, StatusSucceeded
  <1> QED BY <1>9, <1>10, <1>11, <1>12, <1>13 DEF IInv

\* After the loop of BuildRepoOperationWaves: what is left is unreachable.
LEMMA PlanDoneStep == IInv /\ (PlanDone \/ PlanReadOnly) => IInv'
  <1> SUFFICES ASSUME IInv, PlanDone \/ PlanReadOnly PROVE IInv'
    OBVIOUS
  <1>0. TypeOK /\ PlanInv /\ ThreadInv /\ LockInv /\ ReportInv
    BY DEF IInv
  <1>1. /\ pc = "plan" /\ pc' = "next" /\ call' = call /\ phase = 0 /\ phase' = 0
        /\ UNCHANGED <<ready, indegree, thread, lockVars, outcome, resultVars, blockVars>>
    BY <1>0 DEF PlanDone, PlanReadOnly, PlanInv
  <1>2. Earlier(0) = {} /\ Earlier(0)' = {}
    BY DEF Earlier
  <1>3. TypeOK' /\ PlanInv'
    <2>1. CASE PlanDone
      <3>1. Mutating /\ Mutating' /\ ready = {} /\ cycleNodes' = Stuck /\ waves' = waves
        BY <2>1, <1>1, CallFrame DEF PlanDone
      <3>2. Stuck = Repo \ Earlier(Len(waves))
        <4>1. \A r \in Repo : indegree[r] \in Nat
          BY <1>0 DEF TypeOK
        <4>2. \A r \in Repo : indegree[r] = 0 <=> r \in Earlier(Len(waves))
          <5>1. {r \in Repo : indegree[r] = 0} \ Earlier(Len(waves)) = {}
            BY <1>0, <1>1, <3>1 DEF PlanInv
          <5>2. \A r \in Earlier(Len(waves)) : indegree[r] = 0
            BY <1>0, <3>1 DEF PlanInv
          <5> QED BY <5>1, <5>2
        <4> QED BY <4>1, <4>2 DEF Stuck
      <3>3. PlanInv'
        BY <3>1, <3>2, <1>0, <1>1, CallFrame, WavesFrame DEF PlanInv
      <3>4. TypeOK'
        BY <3>1, <1>0, <1>1 DEF TypeOK, Stuck, lockVars, resultVars, blockVars
      <3> QED BY <3>3, <3>4
    <2>2. CASE PlanReadOnly
      <3>1. ~Mutating /\ ~Mutating' /\ waves' = <<Repo>> /\ cycleNodes' = {}
        BY <2>2, <1>0, <1>1, CallFrame DEF PlanReadOnly, PlanInv
      <3>2. waves' \in Seq(SUBSET Repo) /\ Len(waves)' = 1 /\ waves'[1] = Repo
        BY <3>1
      <3>3. Earlier(Len(waves))' = Repo
        BY <3>2 DEF Earlier
      <3>4. PlanInv'
        <4>1. \A j, k \in 1..Len(waves)' : j = k
          BY <3>2
        <4> QED BY <4>1, <3>1, <3>3, <1>1 DEF PlanInv
      <3>5. TypeOK'
        <4>1. phase' \in 0..Len(waves)'
          BY <3>2, <1>1
        <4> QED BY <4>1, <3>1, <3>2, <1>0, <1>1 DEF TypeOK, lockVars, resultVars, blockVars
      <3> QED BY <3>4, <3>5
    <2> QED BY <2>1, <2>2
  <1>4. ThreadInv'
    BY <1>0, <1>1 DEF ThreadInv, Idle
  <1>5. LockInv'
    <2>1. Holding' = Holding /\ \A q \in Repo : Idle(q)' = Idle(q)
      BY <1>1 DEF Holding, Idle
    <2> QED BY <2>1, <1>0, <1>1, LockFrame
  <1>6. ReportInv'
    BY <1>0, <1>1, <1>2, CallFrame DEF ReportInv, Idle, resultVars, blockVars, StatusSucceeded
  <1> QED BY <1>3, <1>4, <1>5, <1>6 DEF IInv

\* A wave holds none of the repositories of the waves before it.
LEMMA WaveIsNew ==
    ASSUME TypeOK, PlanInv, NEW k \in 1..Len(waves), NEW r \in waves[k]
    PROVE  r \in Repo /\ r \notin Earlier(k - 1) /\ r \in Earlier(k)
  <1>1. waves \in Seq(SUBSET Repo) /\ r \in Repo
    BY DEF TypeOK
  <1>2. \A j \in 1..(k - 1) : j \in 1..Len(waves) /\ j # k
    BY <1>1
  <1>3. \A j \in 1..Len(waves) : j # k => waves[j] \cap waves[k] = {}
    BY DEF PlanInv
  <1> QED BY <1>1, <1>2, <1>3 DEF Earlier

\* Entering RunWave.
LEMMA StartWaveStep == IInv /\ StartWave => IInv'
  <1> SUFFICES ASSUME IInv, StartWave PROVE IInv'
    OBVIOUS
  <1> DEFINE w == waves[phase + 1]
             B == w \cap failedOrBlocked
  <1>0. TypeOK /\ PlanInv /\ ThreadInv /\ LockInv /\ ReportInv
    BY DEF IInv
  <1>1. /\ pc = "next" /\ pc' = "join" /\ phase' = phase + 1 /\ phase \in Nat
        /\ phase + 1 \in 1..Len(waves) /\ call' = call /\ waves' = waves
        /\ planVars' = planVars
        /\ lockVars' = lockVars /\ outcome' = outcome /\ blockVars' = blockVars
    BY <1>0 DEF StartWave, TypeOK, planVars
  <1>2. /\ thread' = [r \in Repo |-> IF r \in w \ failedOrBlocked THEN "spawned" ELSE thread[r]]
        /\ status' = [r \in Repo |-> IF r \in B THEN Blocked ELSE status[r]]
        /\ blame' = [r \in Repo |-> IF r \in B THEN blockedBy[r] ELSE blame[r]]
        /\ reported' = [r \in Repo |-> IF r \in B THEN reported[r] + 1 ELSE reported[r]]
    BY DEF StartWave, Push, AllBlocked
  <1>3. Earlier(phase)' = Earlier(phase) \cup w
    <2>1. Earlier(phase + 1) = Earlier(phase) \cup w
      BY <1>0, <1>1, EarlierStep DEF TypeOK
    <2>2. Earlier(phase)' = Earlier(phase + 1)
      BY <1>1 DEF Earlier
    <2> QED BY <2>1, <2>2
  <1>4. \A r \in w : r \in Repo /\ r \notin Earlier(phase)
    BY <1>0, <1>1, WaveIsNew
  <1>5. TypeOK'
    <2>0. /\ status \in [Repo -> Status] /\ Blocked \in Status
          /\ thread \in [Repo -> ThreadState] /\ "spawned" \in ThreadState
          /\ reported \in [Repo -> Nat]
      BY <1>0 DEF TypeOK, Status, ThreadState
    <2>1. thread' \in [Repo -> ThreadState] /\ reported' \in [Repo -> Nat]
             /\ status' \in [Repo -> Status]
      BY <2>0, <1>2
    <2>2. blame' \in [Repo -> 0..(N + 1)]
      <3>1. /\ \A q \in Repo : blame[q] \in 0..(N + 1) /\ blockedBy[q] \in 0..N
            /\ \A n \in 0..N : n \in 0..(N + 1)
        BY <1>0 DEF TypeOK
      <3>2. \A q \in Repo : (IF q \in B THEN blockedBy[q] ELSE blame[q]) \in 0..(N + 1)
        BY <3>1
      <3> HIDE DEF B
      <3> QED BY <3>2, <1>2
    <2>3. phase' \in 0..Len(waves)'
      BY <1>1
    <2> QED BY <2>1, <2>2, <2>3, <1>0, <1>1 DEF TypeOK, planVars, lockVars, blockVars
  <1>6. PlanInv'
    BY <1>0, <1>1, PlanFrame
  <1>7. \A r \in Repo : Idle(r) /\ (Idle(r)' <=> r \notin w \ failedOrBlocked)
    BY <1>0, <1>1, <1>2 DEF ThreadInv, Idle
  <1>8. ThreadInv'
    BY <1>1, <1>7 DEF ThreadInv, Wave, blockVars
  <1>9. LockInv'
    <2>1. Holding' = {} /\ Holding = {}
      BY <1>2, <1>7 DEF Holding, Idle
    <2> QED BY <2>1, <1>0, <1>1, LockFrame
  <1>10. ReportInv'
    <2>1. ASSUME NEW r \in Repo
          PROVE  reported'[r] = IF r \in Earlier(phase)' /\ Idle(r)' THEN 1 ELSE 0
      <3>1. reported[r] = IF r \in Earlier(phase) THEN 1 ELSE 0
        BY <1>0, <1>1, <1>7 DEF ReportInv
      <3> QED BY <3>1, <1>2, <1>3, <1>4, <1>7
    <2>2. ASSUME NEW r \in Repo, reported'[r] > 0 PROVE status'[r] # Pending
      BY <2>2, <1>0, <1>2 DEF ReportInv, Blocked, Pending
    <2>3. ASSUME NEW r \in Repo, thread'[r] \in {"returned", "released"}
          PROVE  outcome'[r] # Pending
      BY <2>3, <1>0, <1>1, <1>2 DEF ReportInv
    <2>4. ASSUME NEW o \in Repo, NEW d \in Edges(o)', d \in Earlier(phase - 1)',
                 ~StatusSucceeded(status[d])'
          PROVE  o \in failedOrBlocked'
      <3>1. d \in Edges(o) /\ d \in Repo
        BY <1>1, CallFrame, EdgesType
      <3>2. d \in Earlier(phase)
        BY <2>4, <1>1 DEF Earlier
      <3>3. status'[d] = status[d]
        BY <3>1, <3>2, <1>2, <1>4
      <3> QED BY <2>4, <3>1, <3>2, <3>3, <1>0, <1>1 DEF ReportInv, StatusSucceeded, blockVars
    <2> QED BY <2>1, <2>2, <2>3, <2>4, <1>1 DEF ReportInv
  <1> QED BY <1>5, <1>6, <1>8, <1>9, <1>10 DEF IInv

\* HarvestWave: the joined wave is complete, so its bad results are final.
LEMMA HarvestWaveStep == IInv /\ HarvestWave => IInv'
  <1> SUFFICES ASSUME IInv, HarvestWave PROVE IInv'
    OBVIOUS
  <1>0. TypeOK /\ PlanInv /\ ThreadInv /\ LockInv /\ ReportInv
    BY DEF IInv
  <1>1. /\ pc = "join" /\ pc' = "next" /\ call' = call /\ waves' = waves
        /\ phase' = phase /\ phase \in 1..Len(waves) /\ planVars' = planVars
        /\ UNCHANGED <<thread, lockVars, outcome, resultVars>>
    BY <1>0 DEF HarvestWave, TypeOK, ThreadInv, planVars
  <1>2. \A r \in Repo : Idle(r)
    BY <1>0, <1>1 DEF HarvestWave, Joined, ThreadInv, Idle
  <1>3. \A o \in Repo : EmplaceBlame(o) \in 0..N
    <2> SUFFICES ASSUME NEW o \in Repo, Edges(o) \cap Bad # {}
                 PROVE  Least(Edges(o) \cap Bad) \in 0..N
      BY <1>0 DEF EmplaceBlame, TypeOK
    <2> DEFINE S == Edges(o) \cap Bad
    <2>1. S \subseteq Nat /\ S # {} /\ S \subseteq 0..N
      BY EdgesType
    <2> HIDE DEF S
    <2>2. \E x \in S : \A y \in S : x <= y
      BY <2>1, LeastRepo
    <2>3. Least(S) \in S
      BY <2>2 DEF Least
    <2> QED BY <2>1, <2>3 DEF S
  <1>4. TypeOK'
    <2>1. failedOrBlocked' \subseteq Repo
      <3>1. Bad \subseteq Repo
        BY <1>0, <1>1 DEF Bad, Wave, TypeOK
      <3> QED BY <3>1, <1>0 DEF HarvestWave, TypeOK
    <2>2. blockedBy' \in [Repo -> 0..N]
      BY <1>3 DEF HarvestWave
    <2> QED BY <2>1, <2>2, <1>0, <1>1 DEF TypeOK, planVars, lockVars, resultVars
  <1>5. PlanInv'
    BY <1>0, <1>1, PlanFrame
  <1>6. ThreadInv'
    BY <1>1, <1>2 DEF ThreadInv, Idle
  <1>7. LockInv'
    <2>1. Holding' = Holding /\ \A q \in Repo : Idle(q)' = Idle(q)
      BY <1>1 DEF Holding, Idle
    <2> QED BY <2>1, <1>0, <1>1, LockFrame
  <1>8. ReportInv'
    <2>1. ASSUME NEW o \in Repo, NEW d \in Edges(o)', d \in Earlier(phase)',
                 ~StatusSucceeded(status[d])'
          PROVE  o \in failedOrBlocked'
      <3>1. d \in Edges(o) /\ d \in Earlier(phase) /\ ~StatusSucceeded(status[d])
        BY <2>1, <1>1, CallFrame, WavesFrame DEF StatusSucceeded, resultVars, Earlier
      <3>2. Earlier(phase) = Earlier(phase - 1) \cup waves[phase]
        BY <1>0, <1>1, EarlierStep DEF TypeOK
      <3>3. CASE d \in Earlier(phase - 1)
        BY <3>1, <3>3, <1>0, <1>1 DEF ReportInv, HarvestWave
      <3>4. CASE d \in waves[phase]
        <4>1. d \in Bad
          BY <3>1, <3>4 DEF Bad, Wave
        <4> QED BY <3>1, <4>1 DEF HarvestWave
      <3> QED BY <3>1, <3>2, <3>3, <3>4
    <2>2. \A r \in Repo : reported'[r] = IF r \in Earlier(phase)' /\ Idle(r)' THEN 1 ELSE 0
      BY <1>0, <1>1 DEF ReportInv, Earlier, Idle, resultVars
    <2> QED BY <2>1, <2>2, <1>0, <1>1 DEF ReportInv, resultVars
  <1> QED BY <1>4, <1>5, <1>6, <1>7, <1>8 DEF IInv

\* ReportCycle: the unreachable repositories get the one result they lack.
LEMMA ReportCycleStep == IInv /\ ReportCycle => IInv'
  <1> SUFFICES ASSUME IInv, ReportCycle PROVE IInv'
    OBVIOUS
  <1>0. TypeOK /\ PlanInv /\ ThreadInv /\ LockInv /\ ReportInv
    BY DEF IInv
  <1>1. /\ pc = "next" /\ pc' = "done" /\ call' = call /\ phase' = phase
        /\ phase = Len(waves) /\ planVars' = planVars
        /\ UNCHANGED <<thread, lockVars, outcome, blockVars>>
    BY DEF ReportCycle
  <1>2. /\ status' = [r \in Repo |-> IF r \in cycleNodes THEN Blocked ELSE status[r]]
        /\ blame' = [r \in Repo |-> IF r \in cycleNodes THEN N + 1 ELSE blame[r]]
        /\ reported' = [r \in Repo |-> IF r \in cycleNodes THEN reported[r] + 1
                                       ELSE reported[r]]
    BY DEF ReportCycle, Push, AllBlocked
  <1>3. TypeOK'
    <2>0. status \in [Repo -> Status] /\ reported \in [Repo -> Nat] /\ Blocked \in Status
      BY <1>0 DEF TypeOK, Status
    <2>1. status' \in [Repo -> Status] /\ reported' \in [Repo -> Nat]
      BY <2>0, <1>2
    <2>2. blame' \in [Repo -> 0..(N + 1)]
      BY <1>0, <1>2 DEF TypeOK
    <2> QED BY <2>1, <2>2, <1>0, <1>1 DEF TypeOK, planVars, lockVars, blockVars
  <1>4. PlanInv'
    BY <1>0, <1>1, PlanFrame
  <1>5. ThreadInv'
    BY <1>0, <1>1 DEF ThreadInv, Idle
  <1>6. LockInv'
    <2>1. Holding' = Holding /\ \A q \in Repo : Idle(q)' = Idle(q)
      BY <1>1 DEF Holding, Idle
    <2> QED BY <2>1, <1>0, <1>1, LockFrame
  <1>7. ReportInv'
    <2>1. cycleNodes = Repo \ Earlier(phase)
      BY <1>0, <1>1 DEF PlanInv
    <2>2. \A r \in Repo : reported'[r] = 1
      BY <2>1, <1>0, <1>1, <1>2 DEF ReportInv, ThreadInv
    <2>3. \A r \in Repo : reported'[r] > 0 => status'[r] # Pending
      BY <1>0, <1>2 DEF ReportInv, Blocked, Pending
    <2> QED BY <2>2, <2>3, <1>0, <1>1 DEF ReportInv
  <1> QED BY <1>3, <1>4, <1>5, <1>6, <1>7 DEF IInv

-----------------------------------------------------------------------------
(* The worker threads.  Each of their steps moves one thread and leaves the *)
(* plan and the failed repositories alone.                                  *)

\* What every step of a live thread keeps.
LEMMA WorkerFrame ==
    ASSUME IInv, NEW r \in Repo, ~Idle(r), NEW t \in ThreadState,
           thread' = [thread EXCEPT ![r] = t],
           UNCHANGED <<call, pc, planVars, phase, blockVars>>
    PROVE  /\ pc = "join" /\ r \in Wave /\ r \notin failedOrBlocked
           /\ phase \in 1..Len(waves)
           /\ r \in Earlier(phase) /\ r \notin Earlier(phase - 1)
           /\ PlanInv' /\ ThreadInv'
           /\ \A q \in Repo : q # r => thread'[q] = thread[q]
           /\ thread'[r] = t /\ thread' \in [Repo -> ThreadState]
           /\ reported[r] = 0
  <1>0. TypeOK /\ PlanInv /\ ThreadInv /\ ReportInv
    BY DEF IInv
  <1>1. pc = "join" /\ r \in Wave /\ r \notin failedOrBlocked /\ phase \in 1..Len(waves)
    BY <1>0 DEF ThreadInv, TypeOK
  <1>2. r \in Earlier(phase) /\ r \notin Earlier(phase - 1)
    BY <1>0, <1>1, WaveIsNew DEF Wave
  <1>3. PlanInv'
    BY <1>0, <1>1, PlanFrame
  <1>4. /\ \A q \in Repo : q # r => thread'[q] = thread[q]
        /\ thread'[r] = t /\ thread' \in [Repo -> ThreadState]
    BY <1>0 DEF TypeOK
  <1>5. ThreadInv'
    <2>1. Wave' = Wave /\ failedOrBlocked' = failedOrBlocked
      BY DEF Wave, planVars, blockVars
    <2> QED BY <1>0, <1>1, <1>4, <2>1 DEF ThreadInv, Idle
  <1>6. reported[r] = 0
    BY <1>0, <1>1 DEF ReportInv
  <1> QED BY <1>1, <1>2, <1>3, <1>4, <1>5, <1>6

\* A thread step that pushes nothing and stays alive keeps the results right.
LEMMA ReportFrame ==
    ASSUME IInv, NEW r \in Repo, ~Idle(r), NEW t \in ThreadState \ {"none", "finished"},
           thread' = [thread EXCEPT ![r] = t],
           UNCHANGED <<call, pc, planVars, phase, blockVars, resultVars>>,
           \A q \in Repo : q # r => outcome'[q] = outcome[q],
           t \in {"returned", "released"} => outcome'[r] # Pending
    PROVE  ReportInv'
  <1>0. ReportInv
    BY DEF IInv
  <1>1. /\ pc = "join" /\ r \in Earlier(phase)
        /\ \A q \in Repo : q # r => thread'[q] = thread[q]
        /\ thread'[r] = t
    BY WorkerFrame
  <1>2. \A k : Earlier(k)' = Earlier(k)
    BY WavesFrame DEF planVars
  <1>3. ASSUME NEW q \in Repo
        PROVE  reported'[q] = IF q \in Earlier(phase)' /\ Idle(q)' THEN 1 ELSE 0
    <2>1. Earlier(phase)' = Earlier(phase) /\ reported' = reported
      BY <1>2 DEF resultVars, planVars, Earlier
    <2>2. Idle(q)' <=> Idle(q)
      BY <1>1 DEF Idle
    <2> QED BY <2>1, <2>2, <1>0, <1>1 DEF ReportInv
  <1>4. \A q \in Repo : thread'[q] \in {"returned", "released"} => outcome'[q] # Pending
    BY <1>0, <1>1 DEF ReportInv
  <1>5. Earlier(phase - 1)' = Earlier(phase - 1)
    BY DEF Earlier, planVars
  <1> QED BY <1>0, <1>1, <1>3, <1>4, <1>5, CallFrame
      DEF ReportInv, resultVars, blockVars, StatusSucceeded

\* Acquire: the key and the slot taken were free.
LEMMA AcquireStep ==
    ASSUME IInv, NEW r \in Repo, Acquire(r)
    PROVE  IInv'
  <1>0. TypeOK /\ LockInv
    BY DEF IInv
  <1>1. /\ Parallel /\ ~Idle(r) /\ "running" \in ThreadState \ {"none", "finished"}
        /\ thread' = [thread EXCEPT ![r] = "running"]
        /\ UNCHANGED <<call, pc, planVars, phase, blockVars, resultVars, outcome>>
        /\ thread[r] = "spawned"
    BY DEF Acquire, Idle, ThreadState
  <1>2. /\ PlanInv' /\ ThreadInv' /\ thread' \in [Repo -> ThreadState]
        /\ \A q \in Repo : q # r => thread'[q] = thread[q]
        /\ thread'[r] = "running"
    BY <1>1, WorkerFrame
  <1>3. ReportInv'
    BY <1>1, ReportFrame
  <1>4. Holding' = Holding \cup {r} /\ r \notin Holding /\ Holding \subseteq Repo
    BY <1>1, <1>2 DEF Holding
  <1>5. IsFiniteSet(Holding) /\ Cardinality(Holding) \in Nat
    BY <1>4, FiniteRepos
  <1>6. Cardinality(Holding') = Cardinality(Holding) + 1
    BY <1>4, <1>5, FS_AddElement
  <1>7. call.jobs \in Int /\ ResolveLockKey(r) \in Nat
    BY <1>0, CallType, LockKeyType DEF TypeOK
  <1>8. LockInv'
    <2>1. activeLocks' = {ResolveLockKey(q)' : q \in Holding'}
      <3>1. activeLocks' = activeLocks \cup {ResolveLockKey(r)}
        BY DEF Acquire
      <3>2. activeLocks = {ResolveLockKey(q) : q \in Holding}
        BY <1>0, <1>1 DEF LockInv
      <3>3. {ResolveLockKey(q)' : q \in Holding'} = {ResolveLockKey(q) : q \in Holding'}
        BY <1>1, CallFrame
      <3> QED BY <3>1, <3>2, <3>3, <1>4
    <2>2. activeCount' = Cardinality(Holding') /\ activeCount' <= call.jobs
      BY <1>0, <1>1, <1>5, <1>6, <1>7 DEF LockInv, Acquire
    <2>3. \A q, p \in Holding' : ResolveLockKey(q) = ResolveLockKey(p) => q = p
      <3>1. \A q \in Holding : ResolveLockKey(q) # ResolveLockKey(r)
        BY <1>0, <1>1 DEF LockInv, Acquire
      <3>2. \A q, p \in Holding : ResolveLockKey(q) = ResolveLockKey(p) => q = p
        BY <1>0, <1>1 DEF LockInv
      <3> QED BY <3>1, <3>2, <1>4
    <2> QED BY <2>1, <2>2, <2>3, <1>1, CallFrame DEF LockInv
  <1>9. TypeOK'
    <2>1. activeLocks' \subseteq Nat
      BY <1>0, <1>7 DEF Acquire, TypeOK
    <2>2. activeCount' \in Nat
      BY <1>0 DEF Acquire, TypeOK
    <2> QED BY <2>1, <2>2, <1>0, <1>1, <1>2 DEF TypeOK, planVars, resultVars, blockVars
  <1> QED BY <1>2, <1>3, <1>8, <1>9 DEF IInv

\* Release: exactly the key and the slot of this thread are given back.
LEMMA ReleaseStep ==
    ASSUME IInv, NEW r \in Repo, Release(r)
    PROVE  IInv'
  <1>0. TypeOK /\ LockInv /\ ReportInv
    BY DEF IInv
  <1>1. /\ Parallel /\ ~Idle(r) /\ "released" \in ThreadState \ {"none", "finished"}
        /\ thread' = [thread EXCEPT ![r] = "released"]
        /\ UNCHANGED <<call, pc, planVars, phase, blockVars, resultVars, outcome>>
        /\ thread[r] = "returned" /\ outcome'[r] # Pending
    BY <1>0 DEF Release, Idle, ThreadState, ReportInv
  <1>2. /\ PlanInv' /\ ThreadInv' /\ thread' \in [Repo -> ThreadState]
        /\ \A q \in Repo : q # r => thread'[q] = thread[q]
        /\ thread'[r] = "released"
    BY <1>1, WorkerFrame
  <1>3. ReportInv'
    BY <1>1, ReportFrame
  <1>4. Holding' = Holding \ {r} /\ r \in Holding /\ Holding \subseteq Repo
    BY <1>1, <1>2 DEF Holding
  <1>5. IsFiniteSet(Holding) /\ Cardinality(Holding) \in Nat
           /\ Cardinality(Holding') \in Nat
    BY <1>4, FiniteRepos
  <1>6. Cardinality(Holding') = Cardinality(Holding) - 1
    BY <1>4, <1>5, FS_RemoveElement
  <1>7. call.jobs \in Int
    BY <1>0, CallType DEF TypeOK
  <1>8. LockInv'
    <2>0. \A q, p \in Holding : ResolveLockKey(q) = ResolveLockKey(p) => q = p
      BY <1>0, <1>1 DEF LockInv
    <2>1. activeLocks' = {ResolveLockKey(q)' : q \in Holding'}
      <3>1. activeLocks' = activeLocks \ {ResolveLockKey(r)}
        BY DEF Release
      <3>2. activeLocks = {ResolveLockKey(q) : q \in Holding}
        BY <1>0, <1>1 DEF LockInv
      <3>3. {ResolveLockKey(q)' : q \in Holding'} = {ResolveLockKey(q) : q \in Holding'}
        BY <1>1, CallFrame
      <3> QED BY <3>1, <3>2, <3>3, <1>4, <2>0
    <2>2. activeCount' = Cardinality(Holding') /\ activeCount' <= call.jobs
      BY <1>0, <1>1, <1>5, <1>6, <1>7 DEF LockInv, Release
    <2> QED BY <2>0, <2>1, <2>2, <1>1, <1>4, CallFrame DEF LockInv
  <1>9. TypeOK'
    <2>1. activeLocks' \subseteq Nat /\ activeCount' \in Nat
      BY <1>0, <1>1, <1>5, <1>6 DEF Release, TypeOK, LockInv
    <2> QED BY <2>1, <1>0, <1>1, <1>2 DEF TypeOK, planVars, resultVars, blockVars
  <1> QED BY <1>2, <1>3, <1>8, <1>9 DEF IInv

\* The serial loop takes the next repository: every earlier one has ended.
LEMMA BeginSerialStep ==
    ASSUME IInv, NEW r \in Repo, BeginSerial(r)
    PROVE  IInv'
  <1>0. TypeOK /\ LockInv
    BY DEF IInv
  <1>1. /\ ~Parallel /\ ~Idle(r) /\ "running" \in ThreadState \ {"none", "finished"}
        /\ thread' = [thread EXCEPT ![r] = "running"]
        /\ UNCHANGED <<call, pc, planVars, phase, lockVars, blockVars, resultVars, outcome>>
        /\ thread[r] = "spawned" /\ \A q \in Repo : q < r => Idle(q)
    BY DEF BeginSerial, Idle, ThreadState
  <1>2. /\ PlanInv' /\ ThreadInv' /\ thread' \in [Repo -> ThreadState]
        /\ \A q \in Repo : q # r => thread'[q] = thread[q]
        /\ thread'[r] = "running"
    BY <1>1, WorkerFrame
  <1>3. ReportInv'
    BY <1>1, ReportFrame
  <1>4. LockInv'
    <2>1. Holding' = Holding \cup {r}
      BY <1>1, <1>2 DEF Holding
    <2>2. \A q \in Holding : \A x \in Repo : x < q => Idle(x)
      BY <1>0, <1>1 DEF LockInv
    <2>3. \A q \in Repo : q # r => (Idle(q)' <=> Idle(q))
      BY <1>2 DEF Idle
    <2>4. \A q \in Holding : ~(r < q)
      BY <2>2, <1>1
    <2>5. \A q \in Holding' : \A x \in Repo : x < q => Idle(x)'
      BY <2>1, <2>2, <2>3, <2>4, <1>1
    <2> QED BY <2>5, <1>0, <1>1, CallFrame DEF LockInv, lockVars
  <1>5. TypeOK'
    BY <1>0, <1>1, <1>2 DEF TypeOK, planVars, lockVars, resultVars, blockVars
  <1> QED BY <1>2, <1>3, <1>4, <1>5 DEF IInv

\* The worker returns a final status; the thread keeps its lock.
LEMMA ExecuteWorkerStep ==
    ASSUME IInv, NEW r \in Repo, NEW s \in WorkerStatus, ExecuteWorker(r, s)
    PROVE  IInv'
  <1>0. TypeOK /\ LockInv
    BY DEF IInv
  <1>1. /\ ~Idle(r) /\ "returned" \in ThreadState \ {"none", "finished"}
        /\ thread' = [thread EXCEPT ![r] = "returned"]
        /\ UNCHANGED <<call, pc, planVars, phase, lockVars, blockVars, resultVars>>
        /\ thread[r] = "running" /\ outcome' = [outcome EXCEPT ![r] = s]
    BY DEF ExecuteWorker, Idle, ThreadState
  <1>2. /\ outcome' \in [Repo -> Status] /\ outcome'[r] # Pending
        /\ \A q \in Repo : q # r => outcome'[q] = outcome[q]
    BY <1>0, <1>1 DEF TypeOK, WorkerStatus, Status, Succeeded, Failed, Skipped, Blocked, Pending
  <1>3. /\ PlanInv' /\ ThreadInv' /\ thread' \in [Repo -> ThreadState]
        /\ \A q \in Repo : q # r => thread'[q] = thread[q]
        /\ thread'[r] = "returned"
    BY <1>1, WorkerFrame
  <1>4. ReportInv'
    BY <1>1, <1>2, ReportFrame
  <1>5. LockInv'
    <2>1. Holding' = Holding /\ \A q \in Repo : Idle(q) => Idle(q)'
      BY <1>1, <1>3 DEF Holding, Idle
    <2> QED BY <2>1, <1>0, <1>1, LockFrame
  <1>6. TypeOK'
    BY <1>0, <1>1, <1>2, <1>3 DEF TypeOK, planVars, lockVars, resultVars, blockVars
  <1> QED BY <1>3, <1>4, <1>5, <1>6 DEF IInv

\* The result of a thread is the first one pushed for its repository.
LEMMA PushResultStep ==
    ASSUME IInv, NEW r \in Repo, PushResult(r)
    PROVE  IInv'
  <1>0. TypeOK /\ LockInv /\ ReportInv
    BY DEF IInv
  <1>1. /\ ~Idle(r) /\ "finished" \in ThreadState
        /\ thread' = [thread EXCEPT ![r] = "finished"]
        /\ UNCHANGED <<call, pc, planVars, phase, lockVars, blockVars, outcome>>
        /\ thread[r] \in {"returned", "released"}
        /\ Parallel => thread[r] = "released"
    BY DEF PushResult, Idle, ThreadState
  <1>2. /\ status' = [q \in Repo |-> IF q \in {r} THEN outcome[q] ELSE status[q]]
        /\ reported' = [q \in Repo |-> IF q \in {r} THEN reported[q] + 1 ELSE reported[q]]
        /\ blame' = [q \in Repo |-> IF q \in {r} THEN 0 ELSE blame[q]]
    BY DEF PushResult, Push
  <1>3. /\ pc = "join" /\ PlanInv' /\ ThreadInv' /\ thread' \in [Repo -> ThreadState]
        /\ \A q \in Repo : q # r => thread'[q] = thread[q]
        /\ thread'[r] = "finished" /\ reported[r] = 0
        /\ r \in Earlier(phase) /\ r \notin Earlier(phase - 1)
    BY <1>1, WorkerFrame
  <1>4. ReportInv'
    <2>1. Earlier(phase)' = Earlier(phase) /\ Earlier(phase - 1)' = Earlier(phase - 1)
      BY <1>1 DEF Earlier, planVars
    <2>2. ASSUME NEW q \in Repo
          PROVE  reported'[q] = IF q \in Earlier(phase)' /\ Idle(q)' THEN 1 ELSE 0
      <3>1. CASE q = r
        BY <3>1, <2>1, <1>2, <1>3 DEF Idle
      <3>2. CASE q # r
        <4>1. reported'[q] = reported[q] /\ (Idle(q)' <=> Idle(q))
          BY <3>2, <1>2, <1>3 DEF Idle
        <4> QED BY <4>1, <2>1, <1>0, <1>3 DEF ReportInv
      <3> QED BY <3>1, <3>2
    <2>3. \A q \in Repo : reported'[q] > 0 => status'[q] # Pending
      BY <1>0, <1>1, <1>2 DEF ReportInv
    <2>4. \A q \in Repo : thread'[q] \in {"returned", "released"} => outcome'[q] # Pending
      BY <1>0, <1>1, <1>3 DEF ReportInv
    <2>5. ASSUME NEW o \in Repo, NEW d \in Edges(o)', d \in Earlier(phase - 1)',
                 ~StatusSucceeded(status[d])'
          PROVE  o \in failedOrBlocked'
      <3>1. d \in Edges(o) /\ d \in Repo /\ d \in Earlier(phase - 1) /\ d # r
        BY <2>1, <2>5, <1>1, <1>3, CallFrame, EdgesType
      <3>2. ~StatusSucceeded(status[d])
        BY <2>5, <3>1, <1>2 DEF StatusSucceeded
      <3> QED BY <3>1, <3>2, <1>0, <1>1, <1>3 DEF ReportInv, blockVars
    <2> QED BY <2>2, <2>3, <2>4, <2>5, <1>1, <1>3 DEF ReportInv
  <1>5. LockInv'
    <2>1. Holding' = Holding \ {r} /\ \A q \in Repo : Idle(q) => Idle(q)'
      BY <1>1, <1>3 DEF Holding, Idle
    <2>2. CASE Parallel
      <3>1. Holding' = Holding
        BY <2>1, <2>2, <1>1 DEF Holding
      <3> QED BY <2>1, <3>1, <1>0, <1>1, LockFrame
    <2>3. CASE ~Parallel
      BY <2>1, <2>3, <1>0, <1>1, CallFrame DEF LockInv, lockVars, Holding
    <2> QED BY <2>2, <2>3
  <1>6. TypeOK'
    <2>1. /\ status \in [Repo -> Status] /\ outcome \in [Repo -> Status]
          /\ reported \in [Repo -> Nat]
      BY <1>0 DEF TypeOK
    <2>3. status' \in [Repo -> Status] /\ reported' \in [Repo -> Nat]
      BY <2>1, <1>2
    <2>2. blame' \in [Repo -> 0..(N + 1)]
      <3>1. \A q \in Repo : blame[q] \in 0..(N + 1)
        BY <1>0 DEF TypeOK
      <3>2. 0 \in 0..(N + 1)
        OBVIOUS
      <3>3. \A q \in Repo : (IF q \in {r} THEN 0 ELSE blame[q]) \in 0..(N + 1)
        BY <3>1, <3>2
      <3> QED BY <3>3, <1>2
    <2> QED BY <2>3, <2>2, <1>0, <1>1, <1>3 DEF TypeOK, planVars, lockVars, blockVars
  <1> QED BY <1>3, <1>4, <1>5, <1>6 DEF IInv

-----------------------------------------------------------------------------
\* Every step of the scheduler, and a stuttering step, preserves IInv.
LEMMA NextIInv == IInv /\ [Next]_vars => IInv'
  <1> SUFFICES ASSUME IInv, [Next]_vars PROVE IInv'
    OBVIOUS
  <1>1. CASE Main
    BY <1>1, PlanWaveStep, PlanDoneStep, StartWaveStep, HarvestWaveStep, ReportCycleStep
       DEF Main
  <1>2. ASSUME NEW r \in Repo, Worker(r) PROVE IInv'
    BY <1>2, AcquireStep, BeginSerialStep, ExecuteWorkerStep, ReleaseStep, PushResultStep
       DEF Worker
  <1>3. CASE UNCHANGED vars
    <2>1. UNCHANGED <<call, pc, ready, indegree, waves, cycleNodes, phase, thread,
                      activeLocks, activeCount, outcome, status, blame, reported,
                      failedOrBlocked, blockedBy>>
      BY <1>3 DEF vars, planVars, lockVars, resultVars, blockVars
    <2>2. TypeOK'
      BY <2>1 DEF IInv, TypeOK
    <2>3. PlanInv' /\ ThreadInv'
      BY <2>1, CallFrame, WavesFrame DEF IInv, PlanInv, ThreadInv, Idle, Wave
    <2>4. LockInv'
      <3>1. Holding' = Holding /\ \A q \in Repo : Idle(q)' = Idle(q)
        BY <2>1 DEF Holding, Idle
      <3> QED BY <2>1, <3>1, LockFrame DEF IInv, lockVars
    <2>5. ReportInv'
      <3>1. Earlier(phase)' = Earlier(phase) /\ Earlier(phase - 1)' = Earlier(phase - 1)
        BY <2>1 DEF Earlier
      <3> QED BY <2>1, <3>1, CallFrame DEF IInv, ReportInv, Idle, StatusSucceeded
    <2> QED BY <2>2, <2>3, <2>4, <2>5 DEF IInv
  <1> QED BY <1>1, <1>2, <1>3 DEF Next, Returned

\* The invariant holds in every reachable state of the scheduler.
THEOREM SpecIInv == Spec => []IInv
  BY InitIInv, NextIInv, PTL DEF Spec

\* Every variable of the scheduler keeps its type; in particular no indegree
\* counter and no slot counter goes below zero.
THEOREM SchedulerTypes == Spec => []TypeOK
  <1>1. IInv => TypeOK
    BY DEF IInv
  <1> QED BY <1>1, SpecIInv, PTL

\* Worktrees of one repository never run at the same time, for any number of
\* repositories, keys and jobs.
THEOREM WorktreesAreExclusive == Spec => []CommonDirExclusion
  <1>1. IInv => CommonDirExclusion
    <2> SUFFICES ASSUME IInv, NEW r \in Running, NEW q \in Running,
                        call.resolveGitCommonDirLocks,
                        call.explicitLockKey[r] = 0, call.explicitLockKey[q] = 0,
                        call.commonDir[r] # 0, call.commonDir[r] = call.commonDir[q]
                 PROVE  r = q
      BY DEF CommonDirExclusion
    <2>1. r \in Holding /\ q \in Holding /\ r \in Repo /\ q \in Repo
      BY DEF Running, Holding
    <2>2. ResolveLockKey(r) = ResolveLockKey(q)
      BY DEF ResolveLockKey, ResolveRepoOperationLockKey
    <2>3. CASE Parallel
      BY <2>1, <2>2, <2>3 DEF IInv, LockInv
    <2>4. CASE ~Parallel
      <3>1. ~Idle(r) /\ ~Idle(q)
        BY DEF Running, Idle
      <3> QED BY <2>1, <2>4, <3>1 DEF IInv, LockInv
    <2> QED BY <2>3, <2>4
  <1> QED BY <1>1, SpecIInv, PTL

\* A mutating worker runs only after every dependency has succeeded.
THEOREM DependenciesFirst == Spec => []DependencyOrder
  <1>1. IInv => DependencyOrder
    <2> SUFFICES ASSUME IInv, NEW r \in Running, Mutating, NEW d \in Edges(r)
                 PROVE  reported[d] = 1 /\ StatusSucceeded(status[d])
      BY DEF DependencyOrder
    <2>0. TypeOK /\ PlanInv /\ ThreadInv /\ ReportInv
      BY DEF IInv
    <2>1. r \in Repo /\ ~Idle(r) /\ d \in Repo
      BY EdgesType DEF Running, Idle
    <2>2. pc = "join" /\ phase \in 1..Len(waves) /\ r \in waves[phase]
             /\ r \notin failedOrBlocked
      BY <2>0, <2>1 DEF ThreadInv, Wave, TypeOK
    <2>3. d \in Earlier(phase - 1)
      BY <2>0, <2>2 DEF PlanInv
    <2>4. StatusSucceeded(status[d])
      BY <2>0, <2>1, <2>2, <2>3 DEF ReportInv
    <2>5. d \in Earlier(phase) /\ d \notin waves[phase]
      <3>1. Earlier(phase) = Earlier(phase - 1) \cup waves[phase]
        BY <2>0, <2>2, EarlierStep DEF TypeOK
      <3>2. d \in waves[phase] => d \notin Earlier(phase - 1)
        BY <2>0, <2>2, WaveIsNew
      <3> QED BY <3>1, <3>2, <2>3
    <2>6. Idle(d)
      BY <2>0, <2>1, <2>2, <2>5 DEF ThreadInv, Wave
    <2> QED BY <2>0, <2>1, <2>2, <2>4, <2>5, <2>6 DEF ReportInv
  <1> QED BY <1>1, SpecIInv, PTL

\* The aggregate has exactly one final result for every repository, cycles
\* and what hangs below them included.
THEOREM EveryRepositoryReported == Spec => []ReportComplete
  <1>1. IInv => ReportComplete
    BY DEF IInv, ReportInv, ReportComplete
  <1> QED BY <1>1, SpecIInv, PTL

\* No more workers run than jobs allows, and between waves no slot is held.
THEOREM JobsRespected == Spec => []JobsBound
  <1>1. IInv => JobsBound
    <2> SUFFICES ASSUME IInv PROVE JobsBound
      OBVIOUS
    <2>0. TypeOK /\ ThreadInv /\ LockInv
      BY DEF IInv
    <2>1. Running \subseteq Holding /\ Holding \in SUBSET Repo
      BY DEF Running, Holding
    <2>2. IsFiniteSet(Holding) /\ Cardinality(Holding) \in Nat
             /\ IsFiniteSet(Running) /\ Cardinality(Running) \in Nat
      BY <2>1, FiniteRepos
    <2>3. Cardinality(Running) <= Cardinality(Holding)
      BY <2>1, <2>2, FS_Subset
    <2>4. call.jobs \in Int
      BY <2>0, CallType DEF TypeOK
    <2>5. CASE Parallel
      <3>1. Cardinality(Running) <= call.jobs
        BY <2>0, <2>2, <2>3, <2>4, <2>5 DEF LockInv
      <3>2. ASSUME pc \in {"next", "done"} PROVE activeCount = 0 /\ activeLocks = {}
        <4>1. Holding = {}
          BY <2>0, <3>2 DEF ThreadInv, Holding, Idle
        <4> QED BY <4>1, <2>0, <2>5, FS_EmptySet DEF LockInv
      <3> QED BY <3>1, <3>2, <2>5 DEF JobsBound
    <2>6. CASE ~Parallel
      <3>1. \A r, q \in Running : r = q
        <4>1. \A r \in Holding : ~Idle(r)
          BY DEF Holding, Idle
        <4> QED BY <4>1, <2>0, <2>1, <2>6 DEF LockInv
      <3>2. Running = {} \/ \E r : Running = {r}
        BY <3>1
      <3>3. Cardinality(Running) <= 1
        <4>1. Cardinality({}) = 0 /\ \A x : Cardinality({x}) = 1
          BY FS_EmptySet, FS_Singleton
        <4>2. CASE Running = {}
          BY <4>1, <4>2
        <4>3. CASE \E r : Running = {r}
          <5>1. PICK r : Running = {r}
            BY <4>3
          <5>2. Cardinality(Running) = 1
            BY <4>1, <5>1, Zenon
          <5> QED BY <5>2
        <4> QED BY <3>2, <4>2, <4>3
      <3> QED BY <3>3, <2>0, <2>6 DEF JobsBound, LockInv
    <2> QED BY <2>5, <2>6
  <1> QED BY <1>1, SpecIInv, PTL

\* RunWave returns only when its threads have ended, and no later step of the
\* call replaces a result that has been pushed.
THEOREM WavesSeparated == Spec => WavesDoNotOverlap
  <1> DEFINE A == /\ pc = "join" /\ pc' # "join" =>
                        \A r \in Repo : thread[r] \in {"none", "finished"}
                  /\ \A r \in Repo : reported[r] > 0 =>
                        status'[r] = status[r] /\ blame'[r] = blame[r]
  <1>1. ASSUME IInv, [Next]_vars PROVE [A]_vars
    <2> SUFFICES ASSUME Next PROVE A
      BY <1>1
    <2>0. TypeOK /\ PlanInv /\ ThreadInv /\ ReportInv
      BY <1>1 DEF IInv
    <2>1. CASE PlanWave \/ PlanDone \/ PlanReadOnly \/ Returned
      BY <2>1 DEF PlanWave, PlanDone, PlanReadOnly, Returned, vars, resultVars
    <2>2. CASE StartWave
      <3>1. pc = "next" /\ phase + 1 \in 1..Len(waves) /\ phase \in Nat
        BY <2>0, <2>2 DEF StartWave, TypeOK
      <3>2. \A r \in waves[phase + 1] : r \in Repo /\ r \notin Earlier(phase)
        BY <2>0, <3>1, WaveIsNew
      <3>3. \A r \in waves[phase + 1] : reported[r] = 0
        BY <2>0, <3>1, <3>2 DEF ReportInv
      <3> QED BY <2>2, <3>1, <3>3 DEF StartWave, Push
    <2>3. CASE HarvestWave
      BY <2>0, <2>3 DEF HarvestWave, Joined, ThreadInv, Idle, resultVars
    <2>4. CASE ReportCycle
      <3>1. pc = "next" /\ \A r \in cycleNodes : reported[r] = 0
        BY <2>0, <2>4 DEF ReportCycle, PlanInv, ReportInv, TypeOK
      <3> QED BY <2>4, <3>1 DEF ReportCycle, Push
    <2>5. ASSUME NEW r \in Repo, Worker(r) PROVE A
      <3>1. CASE PushResult(r)
        <4>1. reported[r] = 0 /\ pc' = pc
          BY <2>0, <3>1 DEF PushResult, ReportInv, ThreadInv, Idle
        <4> QED BY <3>1, <4>1 DEF PushResult, Push
      <3>2. CASE ~PushResult(r)
        BY <2>5, <3>2 DEF Worker, Acquire, BeginSerial, ExecuteWorker, Release, resultVars
      <3> QED BY <3>1, <3>2
    <2> QED BY <2>1, <2>2, <2>3, <2>4, <2>5 DEF Next, Main
  <1> QED BY <1>1, SpecIInv, PTL DEF Spec, WavesDoNotOverlap

-----------------------------------------------------------------------------
(* The verdicts: BlameInv.  Results only grow, so what blames one stays right. *)

\* No result that has been pushed is replaced or taken back in this step.
Grows == \A d \in Repo : reported[d] > 0 => reported'[d] > 0 /\ status'[d] = status[d]

\* A dependency that failed, or succeeded, has done so for good.
LEMMA FailsFrame ==
    ASSUME call' = call, Grows, NEW r \in Repo
    PROVE  /\ \A d : Fails(d, r) => Fails(d, r)'
           /\ (\A d \in Edges(r) : reported[d] > 0 /\ StatusSucceeded(status[d]))
                => \A d \in Edges(r)' : reported'[d] > 0 /\ StatusSucceeded(status[d])'
  <1>1. Edges(r)' = Edges(r) /\ Edges(r) \subseteq Repo
    BY CallFrame, EdgesType
  <1> QED BY <1>1 DEF Fails, Grows, StatusSucceeded

\* Once the waves are planned, what can be reached does not change.
LEMMA ReachFrame ==
    ASSUME ReachInv, call' = call, planVars' = planVars, pc # "plan"
    PROVE  ReachInv'
  <1>1. Unreachable' = Unreachable
    BY CallFrame DEF Unreachable
  <1> QED BY <1>1, CallFrame, WavesFrame DEF ReachInv, planVars

\* A wave with no dependency outside the ones before it holds nothing that waits
\* for itself.
LEMMA PlanWaveReach ==
    ASSUME IInv, IInv', ReachInv, PlanWave
    PROVE  ReachInv'
  <1> DEFINE P == Earlier(Len(waves))
  <1>1. /\ waves \in Seq(SUBSET Repo) /\ ready \in SUBSET Repo
        /\ waves' = Append(waves, ready) /\ call' = call /\ Mutating /\ pc' = "plan"
    BY DEF IInv, TypeOK, PlanWave
  <1>2. /\ Len(waves) \in Nat /\ Len(waves)' = Len(waves) + 1
        /\ waves'[Len(waves) + 1] = ready
    BY <1>1
  <1>3. Earlier(Len(waves))' = P \cup ready
           /\ \A k \in 0..Len(waves) : Earlier(k)' = Earlier(k)
    BY <1>1, AppendWave
  <1>4. ASSUME NEW r \in ready PROVE Edges(r) \subseteq P
    <2>1. Mutating' /\ Edges(r)' = Edges(r)
      BY <1>1, CallFrame
    <2>2. \A k \in 1..Len(waves)' : \A q \in waves'[k] : Edges(q)' \subseteq Earlier(k - 1)'
      BY <2>1 DEF IInv, PlanInv
    <2>3. PICK k \in Nat : k = Len(waves) + 1
      BY <1>2
    <2>4. /\ k \in 1..Len(waves)' /\ k - 1 = Len(waves) /\ k - 1 \in 0..Len(waves)
          /\ r \in waves'[k]
      BY <2>3, <1>2
    <2>5. Edges(r)' \subseteq Earlier(k - 1)' /\ Earlier(k - 1)' = Earlier(k - 1)
      BY <2>2, <2>4, <1>3
    <2> QED BY <2>1, <2>4, <2>5
  <1>5. ASSUME NEW r \in ready, r \in Unreachable PROVE FALSE
    <2>1. PICK S \in SUBSET Repo : r \in S /\ \A q \in S : Edges(q) \cap S # {}
      BY <1>5 DEF Unreachable
    <2>2. PICK e : e \in Edges(r) /\ e \in S
      BY <2>1
    <2>3. e \in Unreachable
      BY <2>1, <2>2 DEF Unreachable
    <2> QED BY <1>1, <1>4, <2>2, <2>3 DEF ReachInv
  <1>6. Unreachable' = Unreachable
    BY <1>1, CallFrame DEF Unreachable
  <1> QED BY <1>1, <1>3, <1>5, <1>6 DEF ReachInv

\* Planning: no result yet; what is left over waits for a repository left over.
LEMMA PlanBlame ==
    ASSUME IInv, IInv', BlameInv, PlanWave \/ PlanDone \/ PlanReadOnly
    PROVE  BlameInv'
  <1>0. TypeOK /\ PlanInv /\ ThreadInv /\ ReportInv /\ PlanInv'
           /\ ReachInv /\ EarlyInv /\ VerdictInv /\ BlockedByInv
    BY DEF IInv, BlameInv
  <1>1. /\ pc = "plan" /\ pc' # "done" /\ call' = call /\ phase = 0 /\ phase' = 0
        /\ UNCHANGED <<thread, outcome, status, blame, reported, failedOrBlocked, blockedBy>>
    BY <1>0 DEF PlanWave, PlanDone, PlanReadOnly, PlanInv, resultVars, blockVars
  <1>2. Earlier(phase) = {} /\ Earlier(phase)' = {}
    BY <1>1 DEF Earlier
  <1>3. \A r \in Repo : reported[r] = 0
    BY <1>0, <1>1, <1>2 DEF ReportInv
  <1>4. Grows /\ (Mutating' <=> Mutating)
    BY <1>1, CallFrame DEF Grows
  <1>5. ReachInv'
    <2>1. CASE PlanWave
      BY <2>1, <1>0, PlanWaveReach
    <2>2. CASE PlanReadOnly
      BY <2>2, <1>4 DEF PlanReadOnly, ReachInv
    <2>3. CASE PlanDone
      <3>1. /\ Mutating /\ waves' = waves /\ cycleNodes' = Stuck
            /\ cycleNodes' = Repo \ Earlier(Len(waves))
        BY <2>3, <1>0, WavesFrame DEF PlanDone, PlanInv
      <3>2. ASSUME NEW r \in cycleNodes' PROVE Edges(r)' \cap cycleNodes' # {}
        <4>1. r \in Repo /\ indegree[r] > 0
                 /\ indegree[r] = Cardinality(Edges(r) \ Earlier(Len(waves)))
          BY <3>1, <1>0 DEF Stuck, PlanInv
        <4>2. Edges(r) \ Earlier(Len(waves)) # {}
          <5> SUFFICES ASSUME Edges(r) \ Earlier(Len(waves)) = {} PROVE FALSE
            OBVIOUS
          <5>1. Cardinality(Edges(r) \ Earlier(Len(waves))) = 0
            BY FS_EmptySet
          <5> QED BY <4>1, <5>1
        <4> QED BY <4>1, <4>2, <3>1, <1>1, CallFrame, EdgesType
      <3>3. Unreachable' = Unreachable
        BY <1>1, CallFrame DEF Unreachable
      <3> QED BY <3>1, <3>2, <3>3, <1>0, WavesFrame DEF ReachInv
    <2> QED BY <2>1, <2>2, <2>3
  <1>6. EarlyInv'
    <2>1. ~Mutating' /\ pc' # "plan" => waves' = <<Repo>>
      BY <1>1, <1>4 DEF PlanWave, PlanDone, PlanReadOnly
    <2> QED BY <2>1, <1>0, <1>1, <1>2 DEF EarlyInv
  <1>7. VerdictInv'
    BY <1>0, <1>1, <1>3, <1>4 DEF VerdictInv
  <1>8. BlockedByInv'
    <2>1. ASSUME NEW r \in Repo
          PROVE  /\ blockedBy'[r] # NoRepo => Fails(blockedBy[r], r)'
                 /\ Mutating' /\ (~Idle(r)' \/ outcome'[r] # Pending) =>
                      \A d \in Edges(r)' : reported'[d] > 0 /\ StatusSucceeded(status[d])'
      <3>1. blockedBy'[r] # NoRepo => Fails(blockedBy[r], r)
        BY <1>0, <1>1 DEF BlockedByInv
      <3>2. Fails(blockedBy[r], r) => Fails(blockedBy[r], r)'
        BY <1>3, EdgesType DEF Fails
      <3>3. (Idle(r)' <=> Idle(r)) /\ outcome'[r] = outcome[r]
        BY <1>1 DEF Idle
      <3> QED BY <3>1, <3>2, <3>3, <1>0, <1>1, <1>4, FailsFrame DEF BlockedByInv
    <2> QED BY <2>1, <1>0, <1>1, <1>2 DEF BlockedByInv, EarlyInv
  <1> QED BY <1>5, <1>6, <1>7, <1>8 DEF BlameInv

\* Entering RunWave: who is blocked has its dependency to blame, who is started
\* has dependencies that all succeeded.
LEMMA StartWaveBlame ==
    ASSUME IInv, BlameInv, StartWave
    PROVE  BlameInv'
  <1> DEFINE w == waves[phase + 1]
             B == w \cap failedOrBlocked
  <1>0. TypeOK /\ PlanInv /\ ThreadInv /\ ReportInv
           /\ ReachInv /\ EarlyInv /\ VerdictInv /\ BlockedByInv
    BY DEF IInv, BlameInv
  <1>1. /\ pc = "next" /\ pc' = "join" /\ phase' = phase + 1 /\ phase \in Nat
        /\ phase + 1 \in 1..Len(waves) /\ call' = call /\ waves' = waves
        /\ planVars' = planVars /\ outcome' = outcome
        /\ blockedBy' = blockedBy /\ failedOrBlocked' = failedOrBlocked
    BY <1>0 DEF StartWave, TypeOK, planVars, blockVars
  <1>2. /\ thread' = [r \in Repo |-> IF r \in w \ failedOrBlocked THEN "spawned" ELSE thread[r]]
        /\ status' = [r \in Repo |-> IF r \in B THEN Blocked ELSE status[r]]
        /\ blame' = [r \in Repo |-> IF r \in B THEN blockedBy[r] ELSE blame[r]]
        /\ reported' = [r \in Repo |-> IF r \in B THEN reported[r] + 1 ELSE reported[r]]
    BY DEF StartWave, Push, AllBlocked
  <1>3. Earlier(phase)' = Earlier(phase) \cup w
    <2>1. Earlier(phase + 1) = Earlier(phase) \cup w
      BY <1>0, <1>1, EarlierStep DEF TypeOK
    <2>2. Earlier(phase)' = Earlier(phase + 1)
      BY <1>1 DEF Earlier
    <2> QED BY <2>1, <2>2
  <1>4. \A r \in w : r \in Repo /\ r \notin Earlier(phase)
    BY <1>0, <1>1, WaveIsNew
  <1>5. \A r \in Repo : /\ Idle(r)
                        /\ reported[r] = IF r \in Earlier(phase) THEN 1 ELSE 0
                        /\ r \in w => thread[r] = "none" /\ outcome[r] = Pending
    BY <1>0, <1>1, <1>4 DEF ThreadInv, ReportInv, EarlyInv
  <1>6. Grows /\ (Mutating' <=> Mutating)
    BY <1>1, <1>2, <1>4, <1>5, CallFrame DEF Grows
  <1>7. ReachInv'
    BY <1>0, <1>1, ReachFrame
  <1>8. EarlyInv'
    <2>1. ASSUME NEW r \in Repo
          PROVE  /\ r \notin Earlier(phase)' => thread'[r] = "none"
                 /\ thread'[r] \in {"none", "spawned", "running"} => outcome'[r] = Pending
      BY <1>0, <1>1, <1>2, <1>3, <1>5 DEF EarlyInv
    <2>2. phase' # 0
      BY <1>1
    <2> QED BY <2>1, <2>2, <1>0, <1>1, <1>6 DEF EarlyInv
  <1>9. ~Mutating => B = {}
    <2> SUFFICES ASSUME ~Mutating PROVE B = {}
      OBVIOUS
    <2>1. Len(waves) = 1
      BY <1>0, <1>1 DEF EarlyInv
    <2>2. phase = 0
      BY <2>1, <1>1
    <2> QED BY <2>2, <1>0 DEF EarlyInv
  <1>10. VerdictInv'
    <2> SUFFICES ASSUME NEW r \in Repo
                 PROVE  /\ reported'[r] > 0 =>
                             \/ blame'[r] = NoRepo /\ status'[r] = outcome'[r]
                             \/ /\ blame'[r] = Cycle \/ Fails(blame[r], r)'
                                /\ status'[r] = Blocked /\ outcome'[r] = Pending
                        /\ blame'[r] # Cycle
                        /\ ~Mutating => blame'[r] = NoRepo
      BY <1>1, <1>6 DEF VerdictInv
    <2>1. CASE r \in B
      <3>1. blame'[r] = blockedBy[r] /\ status'[r] = Blocked /\ outcome'[r] = Pending
        BY <2>1, <1>1, <1>2, <1>5
      <3>2. blockedBy[r] # NoRepo /\ blockedBy[r] \in 0..N
        BY <2>1, <1>0, <1>1, <1>4 DEF BlockedByInv, TypeOK
      <3>3. Fails(blockedBy[r], r)
        BY <3>2, <1>0 DEF BlockedByInv
      <3>4. Fails(blockedBy[r], r)'
        BY <3>3, <1>1, <1>6, FailsFrame
      <3>5. Fails(blame[r], r)'
        BY <3>1, <3>4, <1>1 DEF Fails
      <3> QED BY <3>1, <3>2, <3>5, <2>1, <1>9
    <2>2. CASE r \notin B
      <3>1. blame'[r] = blame[r] /\ status'[r] = status[r] /\ reported'[r] = reported[r]
        BY <2>2, <1>2
      <3>2. Fails(blame[r], r) => Fails(blame[r], r)'
        <4>1. \A d : Fails(d, r) => Fails(d, r)'
          BY <1>1, <1>6, FailsFrame
        <4> QED BY <4>1, <3>1 DEF Fails
      <3> QED BY <3>1, <3>2, <1>0, <1>1 DEF VerdictInv
    <2> QED BY <2>1, <2>2
  <1>11. BlockedByInv'
    <2> SUFFICES ASSUME NEW r \in Repo
                 PROVE  /\ blockedBy'[r] # NoRepo => Fails(blockedBy[r], r)'
                        /\ r \in failedOrBlocked' \ Earlier(phase)' => blockedBy'[r] # NoRepo
                        /\ Mutating /\ (~Idle(r)' \/ outcome'[r] # Pending) =>
                             \A d \in Edges(r)' : reported'[d] > 0 /\ StatusSucceeded(status[d])'
      BY <1>6 DEF BlockedByInv
    <2>1. blockedBy'[r] # NoRepo => Fails(blockedBy[r], r)'
      <3>1. \A d : Fails(d, r) => Fails(d, r)'
        BY <1>1, <1>6, FailsFrame
      <3> QED BY <3>1, <1>0, <1>1 DEF BlockedByInv, Fails
    <2>2. r \in failedOrBlocked' \ Earlier(phase)' => blockedBy'[r] # NoRepo
      BY <1>0, <1>1, <1>3 DEF BlockedByInv
    <2>3. ASSUME Mutating, ~Idle(r)' \/ outcome'[r] # Pending
          PROVE  \A d \in Edges(r) : reported[d] > 0 /\ StatusSucceeded(status[d])
      <3>1. CASE outcome[r] # Pending
        BY <2>3, <3>1, <1>0 DEF BlockedByInv
      <3>2. CASE outcome[r] = Pending
        <4>1. r \in w /\ r \notin failedOrBlocked
          BY <2>3, <3>2, <1>1, <1>2, <1>5 DEF Idle
        <4>2. (phase + 1) - 1 = phase
          BY <1>1
        <4>3. Edges(r) \subseteq Earlier(phase)
          <5>1. Edges(r) \subseteq Earlier((phase + 1) - 1)
            BY <2>3, <4>1, <1>0, <1>1 DEF PlanInv
          <5> QED BY <5>1, <4>2
        <4> QED BY <4>1, <4>3, <1>0, <1>1, <1>5, EdgesType DEF ReportInv
      <3> QED BY <3>1, <3>2
    <2> QED BY <2>1, <2>2, <2>3, <1>1, <1>6, FailsFrame
  <1> QED BY <1>7, <1>8, <1>10, <1>11 DEF BlameInv

\* HarvestWave: the dependency blamed is the first bad one of a complete wave.
LEMMA HarvestWaveBlame ==
    ASSUME IInv, BlameInv, HarvestWave
    PROVE  BlameInv'
  <1>0. TypeOK /\ PlanInv /\ ThreadInv /\ ReportInv
           /\ ReachInv /\ EarlyInv /\ VerdictInv /\ BlockedByInv
    BY DEF IInv, BlameInv
  <1>1. /\ pc = "join" /\ pc' = "next" /\ call' = call /\ waves' = waves
        /\ phase' = phase /\ phase \in 1..Len(waves) /\ planVars' = planVars
        /\ UNCHANGED <<thread, outcome, status, blame, reported>>
        /\ failedOrBlocked' = failedOrBlocked \cup Bad
                                 \cup {o \in Repo : Edges(o) \cap Bad # {}}
        /\ blockedBy' = [o \in Repo |-> EmplaceBlame(o)]
    BY <1>0 DEF HarvestWave, TypeOK, ThreadInv, planVars, resultVars
  <1>2. \A r \in Repo : Idle(r)
    BY <1>0, <1>1 DEF HarvestWave, Joined, ThreadInv, Idle
  <1>3. \A r \in Bad : r \in Repo /\ r \in Earlier(phase) /\ reported[r] = 1
                       /\ ~StatusSucceeded(status[r])
    BY <1>0, <1>1, <1>2, WaveIsNew DEF Bad, Wave, ReportInv
  <1>4. Grows /\ (Mutating' <=> Mutating) /\ Earlier(phase)' = Earlier(phase)
    BY <1>1, CallFrame DEF Grows, Earlier
  <1>5. ASSUME NEW o \in Repo
        PROVE  /\ EmplaceBlame(o) # NoRepo => Fails(EmplaceBlame(o), o)
               /\ blockedBy[o] # NoRepo \/ Edges(o) \cap Bad # {} => EmplaceBlame(o) # NoRepo
    <2>1. CASE blockedBy[o] = NoRepo /\ Edges(o) \cap Bad # {}
      <3> DEFINE S == Edges(o) \cap Bad
      <3>1. S \subseteq Nat /\ S # {}
        BY <2>1, EdgesType
      <3> HIDE DEF S
      <3>2. \E x \in S : \A y \in S : x <= y
        BY <3>1, LeastRepo
      <3>3. Least(S) \in S
        BY <3>2 DEF Least
      <3>4. EmplaceBlame(o) = Least(S)
        BY <2>1 DEF EmplaceBlame, S
      <3>5. EmplaceBlame(o) \in Edges(o) /\ EmplaceBlame(o) \in Bad
        BY <3>3, <3>4 DEF S
      <3>6. EmplaceBlame(o) \in Repo
        BY <3>5, EdgesType
      <3> QED BY <3>5, <3>6, <1>3 DEF Fails
    <2>2. CASE ~(blockedBy[o] = NoRepo /\ Edges(o) \cap Bad # {})
      <3>1. EmplaceBlame(o) = blockedBy[o]
        BY <2>2 DEF EmplaceBlame
      <3> QED BY <3>1, <2>2, <1>0 DEF BlockedByInv
    <2> QED BY <2>1, <2>2
  <1>6. ReachInv'
    BY <1>0, <1>1, ReachFrame
  <1>7. EarlyInv'
    BY <1>0, <1>1, <1>4 DEF EarlyInv
  <1>8. VerdictInv'
    <2>1. \A r \in Repo : Fails(blame[r], r) => Fails(blame[r], r)'
      BY <1>1, <1>4, FailsFrame DEF Fails
    <2> QED BY <2>1, <1>0, <1>1, <1>4 DEF VerdictInv
  <1>9. BlockedByInv'
    <2> SUFFICES ASSUME NEW r \in Repo
                 PROVE  /\ blockedBy'[r] # NoRepo => Fails(blockedBy[r], r)'
                        /\ r \in failedOrBlocked' \ Earlier(phase)' => blockedBy'[r] # NoRepo
                        /\ Mutating /\ (~Idle(r)' \/ outcome'[r] # Pending) =>
                             \A d \in Edges(r)' : reported'[d] > 0 /\ StatusSucceeded(status[d])'
      BY <1>4 DEF BlockedByInv
    <2>1. blockedBy'[r] = EmplaceBlame(r)
      BY <1>1
    <2>2. \A d : Fails(d, r) => Fails(d, r)'
      BY <1>1, <1>4, FailsFrame
    <2>3. blockedBy'[r] # NoRepo => Fails(blockedBy[r], r)'
      <3>1. EmplaceBlame(r) # NoRepo => Fails(EmplaceBlame(r), r)
        BY <1>5
      <3>2. Fails(EmplaceBlame(r), r) =>
              /\ EmplaceBlame(r) \in Edges(r)'
              /\ reported'[EmplaceBlame(r)] > 0
              /\ ~StatusSucceeded(status'[EmplaceBlame(r)])
        BY <1>1, CallFrame DEF Fails
      <3> QED BY <3>1, <3>2, <2>1 DEF Fails, StatusSucceeded
    <2>4. r \in failedOrBlocked' \ Earlier(phase)' => blockedBy'[r] # NoRepo
      <3> SUFFICES ASSUME r \in failedOrBlocked', r \notin Earlier(phase)
                   PROVE  EmplaceBlame(r) # NoRepo
        BY <2>1, <1>4
      <3>1. r \notin Bad
        BY <1>3
      <3>2. r \in failedOrBlocked \/ Edges(r) \cap Bad # {}
        BY <3>1, <1>1
      <3> QED BY <3>2, <1>0, <1>1, <1>5 DEF BlockedByInv
    <2>5. Idle(r)' <=> Idle(r)
      BY <1>1 DEF Idle
    <2> QED BY <2>3, <2>4, <2>5, <1>0, <1>1, <1>4, FailsFrame DEF BlockedByInv
  <1> QED BY <1>6, <1>7, <1>8, <1>9 DEF BlameInv

\* ReportCycle: what was not planned had no result, and is a cycle for good.
LEMMA ReportCycleBlame ==
    ASSUME IInv, BlameInv, ReportCycle
    PROVE  BlameInv'
  <1>0. TypeOK /\ PlanInv /\ ThreadInv /\ ReportInv
           /\ ReachInv /\ EarlyInv /\ VerdictInv /\ BlockedByInv
    BY DEF IInv, BlameInv
  <1>1. /\ pc = "next" /\ pc' = "done" /\ call' = call /\ phase' = phase
        /\ phase = Len(waves) /\ planVars' = planVars /\ cycleNodes' = cycleNodes
        /\ waves' = waves
        /\ UNCHANGED <<thread, outcome, failedOrBlocked, blockedBy>>
    BY DEF ReportCycle, planVars, blockVars
  <1>2. /\ status' = [r \in Repo |-> IF r \in cycleNodes THEN Blocked ELSE status[r]]
        /\ blame' = [r \in Repo |-> IF r \in cycleNodes THEN N + 1 ELSE blame[r]]
        /\ reported' = [r \in Repo |-> IF r \in cycleNodes THEN reported[r] + 1
                                       ELSE reported[r]]
    BY DEF ReportCycle, Push, AllBlocked
  <1>3. cycleNodes = Repo \ Earlier(phase)
    BY <1>0, <1>1 DEF PlanInv
  <1>4. \A r \in cycleNodes : reported[r] = 0 /\ outcome[r] = Pending
    BY <1>0, <1>1, <1>3 DEF ReportInv, EarlyInv
  <1>5. Grows /\ (Mutating' <=> Mutating) /\ Earlier(phase)' = Earlier(phase)
    BY <1>1, <1>2, <1>4, CallFrame DEF Grows, Earlier
  <1>6. ~Mutating => cycleNodes = {}
    <2> SUFFICES ASSUME ~Mutating PROVE Earlier(phase) = Repo
      BY <1>3
    <2>1. waves = <<Repo>>
      BY <1>0, <1>1 DEF EarlyInv
    <2>2. phase = 1 /\ waves[1] = Repo
      BY <2>1, <1>1
    <2> QED BY <2>2 DEF Earlier
  <1>7. ReachInv'
    BY <1>0, <1>1, ReachFrame
  <1>8. EarlyInv'
    BY <1>0, <1>1, <1>5 DEF EarlyInv
  <1>9. VerdictInv'
    <2> SUFFICES ASSUME NEW r \in Repo
                 PROVE  /\ reported'[r] > 0 =>
                             \/ blame'[r] = NoRepo /\ status'[r] = outcome'[r]
                             \/ /\ blame'[r] = Cycle \/ Fails(blame[r], r)'
                                /\ status'[r] = Blocked /\ outcome'[r] = Pending
                        /\ blame'[r] = Cycle <=> r \in cycleNodes
                        /\ ~Mutating => blame'[r] = NoRepo
      BY <1>1, <1>5 DEF VerdictInv
    <2>1. CASE r \in cycleNodes
      BY <2>1, <1>1, <1>2, <1>4, <1>6
    <2>2. CASE r \notin cycleNodes
      <3>1. blame'[r] = blame[r] /\ status'[r] = status[r] /\ reported'[r] = reported[r]
        BY <2>2, <1>2
      <3>2. Fails(blame[r], r) => Fails(blame[r], r)'
        <4>1. \A d : Fails(d, r) => Fails(d, r)'
          BY <1>1, <1>5, FailsFrame
        <4> QED BY <4>1, <3>1 DEF Fails
      <3> QED BY <3>1, <3>2, <2>2, <1>0, <1>1 DEF VerdictInv
    <2> QED BY <2>1, <2>2
  <1>10. BlockedByInv'
    <2>1. ASSUME NEW r \in Repo
          PROVE  /\ blockedBy'[r] # NoRepo => Fails(blockedBy[r], r)'
                 /\ Mutating' /\ (~Idle(r)' \/ outcome'[r] # Pending) =>
                      \A d \in Edges(r)' : reported'[d] > 0 /\ StatusSucceeded(status[d])'
      <3>1. \A d : Fails(d, r) => Fails(d, r)'
        BY <1>1, <1>5, FailsFrame
      <3>2. Idle(r)' <=> Idle(r)
        BY <1>1 DEF Idle
      <3>3. blockedBy'[r] # NoRepo => Fails(blockedBy[r], r)'
        BY <3>1, <1>0, <1>1 DEF BlockedByInv, Fails
      <3> QED BY <3>2, <3>3, <1>0, <1>1, <1>5, FailsFrame DEF BlockedByInv
    <2> QED BY <2>1, <1>1 DEF BlockedByInv
  <1> QED BY <1>7, <1>8, <1>9, <1>10 DEF BlameInv

\* A step of a live thread: its dependencies had succeeded when it was started, and
\* the result it pushes is what its worker returned.
LEMMA WorkerBlame ==
    ASSUME IInv, BlameInv, NEW r \in Repo, ~Idle(r), NEW t \in ThreadState,
           thread' = [thread EXCEPT ![r] = t], t # "none",
           UNCHANGED <<call, pc, planVars, phase, blockVars>>,
           \A q \in Repo : q # r => /\ outcome'[q] = outcome[q]
                                    /\ status'[q] = status[q] /\ blame'[q] = blame[q]
                                    /\ reported'[q] = reported[q],
           t \in {"spawned", "running"} => outcome'[r] = Pending,
           blame'[r] = blame[r] \/ blame'[r] = NoRepo,
           reported'[r] > 0 => blame'[r] = NoRepo /\ status'[r] = outcome'[r]
    PROVE  BlameInv'
  <1>0. ReachInv /\ EarlyInv /\ VerdictInv /\ BlockedByInv
    BY DEF BlameInv
  <1>1. /\ pc = "join" /\ r \in Earlier(phase) /\ reported[r] = 0
        /\ \A q \in Repo : q # r => thread'[q] = thread[q]
        /\ thread'[r] = t
    BY WorkerFrame
  <1>2. /\ waves' = waves /\ failedOrBlocked' = failedOrBlocked /\ blockedBy' = blockedBy
        /\ call' = call /\ phase' = phase /\ pc' = pc /\ planVars' = planVars
    BY DEF planVars, blockVars
  <1>3. Grows /\ (Mutating' <=> Mutating) /\ Earlier(phase)' = Earlier(phase)
    BY <1>1, <1>2, CallFrame DEF Grows, Earlier
  <1>4. \A q \in Repo : \A d : Fails(d, q) => Fails(d, q)'
    BY <1>2, <1>3, FailsFrame
  <1>5. ReachInv'
    BY <1>0, <1>1, <1>2, ReachFrame
  <1>6. EarlyInv'
    <2>1. ASSUME NEW q \in Repo
          PROVE  /\ q \notin Earlier(phase)' => thread'[q] = "none"
                 /\ thread'[q] \in {"none", "spawned", "running"} => outcome'[q] = Pending
      BY <1>0, <1>1, <1>3 DEF EarlyInv
    <2> QED BY <2>1, <1>0, <1>2, <1>3 DEF EarlyInv
  <1>7. VerdictInv'
    <2> SUFFICES ASSUME NEW q \in Repo
                 PROVE  /\ reported'[q] > 0 =>
                             \/ blame'[q] = NoRepo /\ status'[q] = outcome'[q]
                             \/ /\ blame'[q] = Cycle \/ Fails(blame[q], q)'
                                /\ status'[q] = Blocked /\ outcome'[q] = Pending
                        /\ blame'[q] # Cycle
                        /\ ~Mutating => blame'[q] = NoRepo
      BY <1>1, <1>2, <1>3 DEF VerdictInv
    <2>1. CASE q = r
      <3>1. blame[r] # Cycle /\ (~Mutating => blame[r] = NoRepo)
        BY <1>0, <1>1 DEF VerdictInv
      <3> QED BY <2>1, <3>1
    <2>2. CASE q # r
      <3>1. Fails(blame[q], q) => Fails(blame[q], q)'
        BY <2>2, <1>4 DEF Fails
      <3> QED BY <2>2, <3>1, <1>0, <1>1 DEF VerdictInv
    <2> QED BY <2>1, <2>2
  <1>8. BlockedByInv'
    <2> SUFFICES ASSUME NEW q \in Repo
                 PROVE  /\ blockedBy'[q] # NoRepo => Fails(blockedBy[q], q)'
                        /\ q \in failedOrBlocked' \ Earlier(phase)' => blockedBy'[q] # NoRepo
                        /\ Mutating /\ (~Idle(q)' \/ outcome'[q] # Pending) =>
                             \A d \in Edges(q)' : reported'[d] > 0 /\ StatusSucceeded(status[d])'
      BY <1>3 DEF BlockedByInv
    <2>1. blockedBy'[q] # NoRepo => Fails(blockedBy[q], q)'
      BY <1>0, <1>2, <1>4 DEF BlockedByInv, Fails
    <2>2. q \in failedOrBlocked' \ Earlier(phase)' => blockedBy'[q] # NoRepo
      BY <1>0, <1>1, <1>2, <1>3 DEF BlockedByInv
    <2>3. ~Idle(q)' \/ outcome'[q] # Pending => ~Idle(q) \/ outcome[q] # Pending
      <3>1. CASE q = r
        BY <3>1
      <3>2. CASE q # r
        BY <3>2, <1>1 DEF Idle
      <3> QED BY <3>1, <3>2
    <2> QED BY <2>1, <2>2, <2>3, <1>0, <1>2, <1>3, FailsFrame DEF BlockedByInv
  <1> QED BY <1>5, <1>6, <1>7, <1>8 DEF BlameInv

\* Every operation of a worker thread keeps the verdicts right.
LEMMA WorkerStepBlame ==
    ASSUME IInv, BlameInv, NEW r \in Repo, Worker(r)
    PROVE  BlameInv'
  <1>0. TypeOK /\ ThreadInv /\ ReportInv /\ EarlyInv
    BY DEF IInv, BlameInv
  <1>1. ASSUME ~Idle(r) PROVE reported[r] = 0
    BY <1>0, <1>1 DEF ReportInv, ThreadInv
  <1>2. CASE Acquire(r) \/ BeginSerial(r)
    <2>1. /\ thread[r] = "spawned" /\ thread' = [thread EXCEPT ![r] = "running"]
          /\ UNCHANGED <<call, pc, planVars, phase, blockVars>>
          /\ UNCHANGED <<outcome, status, blame, reported>>
      BY <1>2 DEF Acquire, BeginSerial, resultVars
    <2>2. ~Idle(r) /\ "running" \in ThreadState /\ outcome[r] = Pending
      BY <2>1, <1>0 DEF Idle, ThreadState, EarlyInv
    <2>3. /\ ~(reported'[r] > 0) /\ blame'[r] = blame[r] /\ "running" # "none"
          /\ outcome'[r] = Pending
          /\ \A q \in Repo : q # r => /\ outcome'[q] = outcome[q]
                                    /\ status'[q] = status[q] /\ blame'[q] = blame[q]
                                    /\ reported'[q] = reported[q]
      BY <2>1, <2>2, <1>1
    <2> QED BY <2>1, <2>2, <2>3, WorkerBlame
  <1>3. ASSUME NEW s \in WorkerStatus, ExecuteWorker(r, s) PROVE BlameInv'
    <2>1. /\ thread[r] = "running" /\ thread' = [thread EXCEPT ![r] = "returned"]
          /\ UNCHANGED <<call, pc, planVars, phase, blockVars>>
          /\ UNCHANGED <<status, blame, reported>>
          /\ outcome' = [outcome EXCEPT ![r] = s]
      BY <1>3 DEF ExecuteWorker, resultVars
    <2>2. ~Idle(r) /\ "returned" \in ThreadState
             /\ \A q \in Repo : q # r => outcome'[q] = outcome[q]
      BY <2>1, <1>0 DEF Idle, ThreadState, TypeOK
    <2>3. /\ ~(reported'[r] > 0) /\ blame'[r] = blame[r] /\ "returned" # "none"
          /\ "returned" \notin {"spawned", "running"}
          /\ \A q \in Repo : q # r => /\ outcome'[q] = outcome[q]
                                    /\ status'[q] = status[q] /\ blame'[q] = blame[q]
                                    /\ reported'[q] = reported[q]
      BY <2>1, <2>2, <1>1
    <2> QED BY <2>1, <2>2, <2>3, WorkerBlame
  <1>4. CASE Release(r)
    <2>1. /\ thread[r] = "returned" /\ thread' = [thread EXCEPT ![r] = "released"]
          /\ UNCHANGED <<call, pc, planVars, phase, blockVars>>
          /\ UNCHANGED <<outcome, status, blame, reported>>
      BY <1>4 DEF Release, resultVars
    <2>2. ~Idle(r) /\ "released" \in ThreadState
      BY <2>1 DEF Idle, ThreadState
    <2>3. /\ ~(reported'[r] > 0) /\ blame'[r] = blame[r] /\ "released" # "none"
          /\ "released" \notin {"spawned", "running"}
          /\ \A q \in Repo : q # r => /\ outcome'[q] = outcome[q]
                                    /\ status'[q] = status[q] /\ blame'[q] = blame[q]
                                    /\ reported'[q] = reported[q]
      BY <2>1, <2>2, <1>1
    <2> QED BY <2>1, <2>2, <2>3, WorkerBlame
  <1>5. CASE PushResult(r)
    <2>1. /\ thread[r] \in {"released", "returned"}
          /\ thread' = [thread EXCEPT ![r] = "finished"]
          /\ UNCHANGED <<call, pc, planVars, phase, blockVars>> /\ outcome' = outcome
      BY <1>5 DEF PushResult
    <2>2. /\ status' = [q \in Repo |-> IF q \in {r} THEN outcome[q] ELSE status[q]]
          /\ reported' = [q \in Repo |-> IF q \in {r} THEN reported[q] + 1 ELSE reported[q]]
          /\ blame' = [q \in Repo |-> IF q \in {r} THEN 0 ELSE blame[q]]
      BY <1>5 DEF PushResult, Push
    <2>3. ~Idle(r) /\ "finished" \in ThreadState
      BY <2>1 DEF Idle, ThreadState
    <2> QED BY <2>1, <2>2, <2>3, WorkerBlame
  <1> QED BY <1>2, <1>3, <1>4, <1>5 DEF Worker

\* The scheduler starts with nothing reported, marked or blamed.
LEMMA InitBlame == Init => BlameInv
  <1> SUFFICES ASSUME Init PROVE BlameInv
    OBVIOUS
  <1>1. Len(waves) = 0 /\ Earlier(Len(waves)) = {} /\ Earlier(phase) = {}
    BY DEF Init, Earlier
  <1>2. ReachInv
    BY <1>1 DEF Init, ReachInv
  <1>3. EarlyInv /\ VerdictInv
    BY DEF Init, EarlyInv, VerdictInv
  <1>4. BlockedByInv
    BY DEF Init, BlockedByInv, Idle
  <1> QED BY <1>2, <1>3, <1>4 DEF BlameInv

\* Every step, and a stuttering step, preserves BlameInv.
LEMMA NextBlame == IInv /\ BlameInv /\ [Next]_vars => BlameInv'
  <1> SUFFICES ASSUME IInv, BlameInv, [Next]_vars PROVE BlameInv'
    OBVIOUS
  <1>1. IInv'
    BY NextIInv
  <1>2. CASE Main
    BY <1>1, <1>2, PlanBlame, StartWaveBlame, HarvestWaveBlame, ReportCycleBlame DEF Main
  <1>3. ASSUME NEW r \in Repo, Worker(r) PROVE BlameInv'
    BY <1>3, WorkerStepBlame
  <1>4. CASE UNCHANGED vars
    <2>1. UNCHANGED <<call, pc, ready, indegree, waves, cycleNodes, phase, thread,
                      outcome, status, blame, reported, failedOrBlocked, blockedBy>>
      BY <1>4 DEF vars, planVars, lockVars, resultVars, blockVars
    <2>2. ReachInv' /\ EarlyInv'
      BY <2>1, CallFrame, WavesFrame
         DEF BlameInv, ReachInv, EarlyInv, Unreachable, Earlier
    <2>3. VerdictInv' /\ BlockedByInv'
      BY <2>1, CallFrame
         DEF BlameInv, VerdictInv, BlockedByInv, Fails, Idle, StatusSucceeded, Earlier
    <2> QED BY <2>2, <2>3 DEF BlameInv
  <1> QED BY <1>2, <1>3, <1>4 DEF Next, Returned

\* The final report tells the truth about the graph: "cycle" is said of exactly the
\* repositories no order can reach, every other blame names a dependency that did
\* not succeed, nothing was run below a failure, and a report without a failure
\* means that every worker ran and succeeded or skipped.
THEOREM ReportTellsTruth == Spec => []BlameIsRight
  <1>1. IInv /\ BlameInv => BlameIsRight
    <2> SUFFICES ASSUME IInv, BlameInv, pc = "done", NEW r \in Repo
                 PROVE  /\ ~HasFailure => StatusSucceeded(outcome[r])
                        /\ blame[r] = Cycle <=> Mutating /\ r \in Unreachable
                        /\ blame[r] \in Repo => /\ status[r] = Blocked
                                                /\ blame[r] \in Edges(r)
                                                /\ ~StatusSucceeded(status[blame[r]])
                        /\ Mutating /\ (\E d \in Edges(r) : ~StatusSucceeded(status[d]))
                              => blame[r] # NoRepo /\ outcome[r] = Pending
                        /\ ~Mutating => blame[r] = NoRepo
      BY DEF BlameIsRight
    <2>0. TypeOK /\ PlanInv /\ ReportInv /\ ReachInv /\ VerdictInv /\ BlockedByInv
      BY DEF IInv, BlameInv
    <2>1. /\ reported[r] = 1 /\ status[r] # Pending /\ status[r] \in Status
          /\ cycleNodes = Repo \ Earlier(Len(waves))
      BY <2>0 DEF ReportInv, PlanInv, TypeOK
    <2>2. \/ blame[r] = NoRepo /\ status[r] = outcome[r]
          \/ /\ blame[r] = Cycle \/ Fails(blame[r], r)
             /\ status[r] = Blocked /\ outcome[r] = Pending
      BY <2>0, <2>1 DEF VerdictInv
    <2>3. ~HasFailure => StatusSucceeded(outcome[r])
      BY <2>1, <2>2 DEF HasFailure, StatusSucceeded, Status, Succeeded, Skipped,
                        Failed, Blocked, Pending
    <2>4. ~Mutating => blame[r] = NoRepo
      BY <2>0 DEF VerdictInv
    <2>5. blame[r] = Cycle <=> Mutating /\ r \in Unreachable
      <3>1. blame[r] = Cycle <=> r \in cycleNodes
        BY <2>0 DEF VerdictInv
      <3>2. ASSUME Mutating, r \in cycleNodes PROVE r \in Unreachable
        BY <2>0, <2>1, <3>2 DEF ReachInv, Unreachable
      <3>3. ASSUME Mutating, r \in Unreachable PROVE r \in cycleNodes
        BY <2>0, <2>1, <3>3 DEF ReachInv
      <3> QED BY <3>1, <3>2, <3>3, <2>4
    <2>6. blame[r] \in Repo => Fails(blame[r], r) /\ status[r] = Blocked
      BY <2>2
    <2>7. ASSUME Mutating, NEW d \in Edges(r), ~StatusSucceeded(status[d])
          PROVE  blame[r] # NoRepo /\ outcome[r] = Pending
      <3>1. outcome[r] = Pending
        BY <2>0, <2>7 DEF BlockedByInv
      <3>2. blame[r] = Cycle \/ Fails(blame[r], r)
        BY <3>1, <2>1, <2>2
      <3>3. Fails(blame[r], r) => blame[r] \in Repo
        BY EdgesType DEF Fails
      <3> QED BY <3>1, <3>2, <3>3
    <2> QED BY <2>3, <2>4, <2>5, <2>6, <2>7 DEF Fails
  <1> QED BY <1>1, SpecIInv, InitBlame, NextBlame, PTL DEF Spec
=============================================================================
