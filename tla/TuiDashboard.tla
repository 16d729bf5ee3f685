---------------------------- MODULE TuiDashboard ----------------------------
(* The terminal dashboard's background reads (ui/private:                   *)
(* tui_dashboard_runner.cpp, tui_async_lifecycle.cpp,                       *)
(* tui_history_lifecycle.cpp).                                              *)
(*                                                                          *)
(* The UI thread runs key handlers, frames and posted completions one at a  *)
(* time; one worker thread runs the one operation there may be.  The panels *)
(* stack: discover over preview over history over the repository list.  A   *)
(* panel may be closed, another history opened, an operation refused or the *)
(* dashboard quit while the worker reads, and others commit and remove      *)
(* repositories meanwhile.  A step of the worker is its read and the        *)
(* deposit of what it read: nothing the UI does in between can be told from *)
(* the same thing done just before or just after, except a cancellation,    *)
(* which a refresh or a discovery sees or misses.                           *)
(* A commit of a repository is its distance from the root commit, so that   *)
(* the log of anchor a is a, a - 1, ..., 1; the row of a dirty worktree is  *)
(* 0.  Search, order, theme and what the panels say are left out.           *)
EXTENDS Integers, Sequences, SequencesExt

CONSTANTS
    Repos,          \* the repositories, by identity
    Commits,        \* Commits[r]: commits of r at start
    Dirty,          \* repositories whose row says the worktree is dirty
    Inventories,    \* the lists the startup snapshot may hold
    PageSize,       \* rows of a history page (at least 5 in the code)
    MaxGeneration,  \* generations before they start again at 1 (2^64 - 1)
    MaxKeys,        \* keys and commands the user types
    MaxFault,       \* reads that fail
    MaxForeign      \* commits and removals by others

ASSUME DashboardAssumption ==
    /\ Commits \in [Repos -> Nat] /\ Dirty \subseteq Repos
    /\ Inventories \subseteq Seq(Repos)
    /\ PageSize \in Nat \ {0} /\ MaxGeneration \in Nat \ {0, 1}
    /\ {MaxKeys, MaxFault, MaxForeign} \subseteq Nat

VARIABLES
    life,       \* TuiAsyncLifecycleState
    op,         \* the worker's operation and AsyncWorkState
    cancel,     \* asyncCancelRequested
    rows,       \* repos, in their order
    cache,      \* historyCache
    history,    \* HistoryState
    discover,   \* [active, loading]
    preview,    \* [active, running]
    exited,     \* screen.Loop has ended
    head,       \* commits of each repository
    present,    \* the repositories there are, in the order of discovery
    shut,       \* surfaces the user has closed since the operation began
    spent       \* [keys, faults, foreign]

ui == <<rows, cache, history, discover, preview, exited>>
worker == <<life, op, cancel>>
world == <<head, present>>
dashboardVars == <<life, op, cancel, ui, world, shut, spent>>

NoGeneration == 0
DirtyRow == 0
NoRow == -1
NoCache == [rows |-> <<>>, anchor |-> 0, loading |-> NoGeneration, page |-> -1,
            failed |-> FALSE, full |-> FALSE, details |-> {}]
NoOperation == [kind |-> "none", gen |-> NoGeneration, stage |-> "idle", out |-> <<>>]
NoHistory == [active |-> FALSE, index |-> 1, page |-> 0, mode |-> 0,
              detail |-> NoRow, pending |-> NoGeneration, failed |-> FALSE]

\* After the first frame, which posts begin_async_startup_snapshot.
DashboardInit ==
    /\ life = [next |-> 2, active |-> 1, surface |-> "None", busy |-> TRUE,
               cancellable |-> TRUE, dismissed |-> FALSE, exit |-> FALSE]
    /\ op = [kind |-> "startup", gen |-> 1, stage |-> "run", out |-> <<>>]
    /\ cancel = FALSE /\ shut = {}
    /\ rows = <<>> /\ cache = [r \in Repos |-> NoCache] /\ history = NoHistory
    /\ discover = [active |-> FALSE, loading |-> FALSE]
    /\ preview = [active |-> FALSE, running |-> FALSE]
    /\ exited = FALSE /\ head = Commits /\ present = SetToSeq(Repos)
    /\ spent = [keys |-> 0, faults |-> 0, foreign |-> 0]

-----------------------------------------------------------------------------
(* TuiAsyncLifecycleState                                                   *)

\* The worker's operation at its start: no result yet.
Started(work, gen) ==
    [field \in DOMAIN work \cup {"gen", "stage", "out"} |->
        CASE field = "gen" -> gen [] field = "stage" -> "run" [] field = "out" -> <<>>
          [] OTHER -> work[field]]

\* TryBeginTuiAsyncOperation of an operation that is not refused, and the
\* worker thread begin_async_operation starts with it.
BeginOperation(work, surface, cancellable) ==
    /\ life' = [next |-> IF life.next = MaxGeneration THEN 1 ELSE life.next + 1,
                active |-> life.next, surface |-> surface, busy |-> TRUE,
                cancellable |-> cancellable, dismissed |-> FALSE, exit |-> FALSE]
    /\ op' = Started(work, life.next)
    /\ cancel' = FALSE /\ shut' = {}

\* CancelTuiAsyncSurface, and the request that follows it.
Cancellable(surfaces) == life.busy /\ life.cancellable /\ life.surface \in surfaces

CancelSurface(surfaces) ==
    /\ shut' = shut \cup surfaces
    /\ UNCHANGED op
    /\ IF Cancellable(surfaces)
       THEN life' = [life EXCEPT !.dismissed = TRUE] /\ cancel' = TRUE
       ELSE UNCHANGED <<life, cancel>>

\* Mutant: only what can be cancelled is dismissed.
DismissIfCancellable == CancelSurface({"Preview"})

\* The preview's operation may be one that cannot be cancelled.
DismissPreview ==
    /\ shut' = shut \cup {"Preview"}
    /\ UNCHANGED op
    /\ IF life.busy /\ life.surface = "Preview"
       THEN /\ life' = [life EXCEPT !.dismissed = TRUE]
            /\ cancel' = (cancel \/ life.cancellable)
       ELSE UNCHANGED <<life, cancel>>

-----------------------------------------------------------------------------
(* A repository's history, page by page                                     *)

RepoAt(i) == rows[i]
Shown == RepoAt(history.index)
Required(p) == (p + 1) * PageSize

\* history_page_slice
PageOf(c, p) == SubSeq(c.rows, p * PageSize + 1, Min({Required(p), Len(c.rows)}))

\* The rows that are commits, of the first n.
CommitRows(c, n) == {i \in 1..n : c.rows[i] # DirtyRow}
Loaded(c) == Cardinality(CommitRows(c, Len(c.rows)))

\* PlanBoundedHistoryFetch: one row more than the page needs tells whether
\* there is another page.
FetchCount(c, p) == Min({Required(p) - Len(c.rows) + 1, PageSize + 1})

WithDirtyRow(c, r) ==
    IF c.rows = <<>> /\ ~c.failed /\ r \in Dirty THEN [c EXCEPT !.rows = <<DirtyRow>>] ELSE c

Wanted(c, p) ==
    /\ ~c.full /\ c.loading = NoGeneration /\ ~c.failed
    /\ Len(c.rows) < Required(p)

\* ensure_history_loaded(r, p), with the cache entry it leaves.
Ensured(r, p) ==
    LET c == WithDirtyRow(cache[r], r)
    IN IF Wanted(c, p) /\ ~life.busy
       THEN [c EXCEPT !.loading = life.next, !.page = p] ELSE c

EnsureHistoryLoaded(r, p) ==
    LET c == WithDirtyRow(cache[r], r)
    IN /\ cache' = [cache EXCEPT ![r] = Ensured(r, p)]
       /\ IF Wanted(c, p) /\ ~life.busy
          THEN BeginOperation([kind |-> "page", repo |-> r, skip |-> Loaded(c),
                               count |-> FetchCount(c, p), anchor |-> c.anchor],
                              "HistoryPage", TRUE)
          ELSE UNCHANGED <<life, op, cancel, shut>>

-----------------------------------------------------------------------------
(* The keys                                                                 *)

Key == ~exited /\ spent.keys < MaxKeys /\ spent' = [spent EXCEPT !.keys = @ + 1]
Still == UNCHANGED <<life, op, cancel, shut>>

\* r, on the repository list: the selected row alone is read again.
RefreshRow ==
    /\ Key /\ ~life.busy
    /\ ~history.active /\ ~discover.active /\ ~preview.active
    /\ \E i \in DOMAIN rows :
        BeginOperation([kind |-> "repo", repo |-> rows[i]], "None", TRUE)
    /\ UNCHANGED <<ui, world>>

\* :refresh, which also rebuilds an open discover panel.
Refresh ==
    /\ Key /\ ~life.busy
    /\ BeginOperation([kind |-> "refresh", panel |-> discover.active],
                      IF discover.active THEN "Discover" ELSE "None", TRUE)
    /\ discover' = [discover EXCEPT !.loading = @ \/ discover.active]
    /\ UNCHANGED <<rows, cache, history, preview, exited, world>>

\* :discover
Discover ==
    /\ Key /\ ~life.busy
    /\ BeginOperation([kind |-> "discover"], "Discover", TRUE)
    /\ discover' = [active |-> TRUE, loading |-> TRUE]
    /\ UNCHANGED <<rows, cache, history, preview, exited, world>>

\* Any other audit command: a receipt is read, which can be cancelled, or a
\* command runs with the selected repository, or none that is listed, as its
\* scope.  One that is refused because an operation runs closes the preview.
Command ==
    /\ Key
    /\ IF life.busy
       THEN /\ preview' = [active |-> FALSE, running |-> FALSE]
            /\ Still
       ELSE /\ preview' = [active |-> TRUE, running |-> TRUE]
            /\ \/ BeginOperation([kind |-> "audit"], "Preview", TRUE)
               \/ \E i \in DOMAIN rows :
                    BeginOperation([kind |-> "command", repo |-> rows[i]], "Preview", FALSE)
    /\ UNCHANGED <<rows, cache, history, discover, exited, world>>

\* Enter, on the repository list.
OpenHistory ==
    /\ Key /\ ~history.active
    /\ \E i \in DOMAIN rows :
        /\ history' = [NoHistory EXCEPT !.active = TRUE, !.index = i]
        /\ EnsureHistoryLoaded(rows[i], 0)
    /\ UNCHANGED <<rows, discover, preview, exited, world>>

\* close_history_detail
DetailClosed(h) == [h EXCEPT !.detail = NoRow, !.pending = NoGeneration]

InList == history.active /\ history.detail = NoRow

\* [ and ] in the history: what loads for the repository left behind is
\* cancelled, and the new one's history starts when the worker is free.
SwitchRepo ==
    /\ Key /\ InList /\ ~discover.active
    /\ \E i \in DOMAIN rows :
        /\ history' = DetailClosed([history EXCEPT !.index = i, !.page = 0])
        /\ IF Cancellable({"HistoryPage", "HistoryDetail"})
           THEN /\ CancelSurface({"HistoryPage", "HistoryDetail"})
                /\ cache' = [cache EXCEPT ![rows[i]] = Ensured(rows[i], 0)]
           ELSE EnsureHistoryLoaded(rows[i], 0)
    /\ UNCHANGED <<rows, discover, preview, exited, world>>

\* The next or the previous page, if it has a row or is being loaded.
MovePage ==
    /\ Key /\ InList
    /\ \E p \in {history.page - 1, history.page + 1} \cap Nat :
        LET c == Ensured(Shown, p)
            moved == PageOf(c, p) # <<>> \/ p = 0 \/ (c.loading # NoGeneration /\ c.page = p)
        IN /\ history' = IF moved THEN DetailClosed([history EXCEPT !.page = p]) ELSE history
           /\ IF moved /\ Cancellable({"HistoryDetail"})
              THEN /\ CancelSurface({"HistoryDetail"})
                   /\ cache' = [cache EXCEPT ![Shown] = c]
              ELSE EnsureHistoryLoaded(Shown, p)
    /\ UNCHANGED <<rows, discover, preview, exited, world>>

\* begin_async_history_detail, for a detail that is not cached.
BeginDetail(row, mode) ==
    /\ ~life.busy
    /\ BeginOperation([kind |-> "detail", repo |-> Shown, key |-> <<row, mode>>],
                      "HistoryDetail", TRUE)
    /\ history' = [history EXCEPT !.detail = row, !.mode = mode,
                                  !.pending = life.next, !.failed = FALSE]

\* Enter on a row of the page, which is asked for first if it misses rows.
OpenDetail ==
    /\ Key /\ InList
    /\ LET c == Ensured(Shown, history.page)
           asked == c.loading # cache[Shown].loading
       IN \E row \in ToSet(PageOf(c, history.page)) :
            IF <<row, history.mode>> \in c.details
            THEN /\ history' = [history EXCEPT !.detail = row, !.pending = NoGeneration]
                 /\ EnsureHistoryLoaded(Shown, history.page)
            ELSE IF asked
            THEN EnsureHistoryLoaded(Shown, history.page) /\ UNCHANGED history
            ELSE BeginDetail(row, history.mode) /\ cache' = [cache EXCEPT ![Shown] = c]
    /\ UNCHANGED <<rows, discover, preview, exited, world>>

\* m: the detail as a summary or as a patch.
ToggleMode ==
    /\ Key /\ history.active
    /\ LET mode == 1 - history.mode
       IN IF history.detail = NoRow
          THEN history' = [history EXCEPT !.mode = mode] /\ Still
          ELSE /\ <<history.detail, history.mode>> \in cache[Shown].details
               /\ IF <<history.detail, mode>> \in cache[Shown].details
                  THEN /\ history' = [history EXCEPT !.mode = mode, !.pending = NoGeneration]
                       /\ Still
                  ELSE BeginDetail(history.detail, mode)
    /\ UNCHANGED <<rows, cache, discover, preview, exited, world>>

\* q and Escape, close_overlay_or_exit: the topmost panel is closed.
CloseDiscover ==
    /\ Key /\ discover.active
    /\ CancelSurface({"Discover"})
    /\ discover' = [active |-> FALSE, loading |-> FALSE]
    /\ UNCHANGED <<rows, cache, history, preview, exited, world>>

ClosePreview ==
    /\ Key /\ ~discover.active /\ preview.active
    /\ DismissPreview
    /\ preview' = [preview EXCEPT !.active = FALSE]
    /\ UNCHANGED <<rows, cache, history, discover, exited, world>>

CloseDetail ==
    /\ Key /\ ~discover.active /\ ~preview.active
    /\ history.active /\ history.detail # NoRow
    /\ CancelSurface({"HistoryDetail"})
    /\ history' = DetailClosed(history)
    /\ UNCHANGED <<rows, cache, discover, preview, exited, world>>

CloseHistory ==
    /\ Key /\ ~discover.active /\ ~preview.active /\ InList
    /\ CancelSurface({"HistoryPage"})
    /\ history' = [history EXCEPT !.active = FALSE]
    /\ UNCHANGED <<rows, cache, discover, preview, exited, world>>

\* With no panel open it ends the dashboard, once the operation has ended.
Quit ==
    /\ Key /\ ~discover.active /\ ~preview.active /\ ~history.active
    /\ IF life.busy
       THEN /\ life' = [life EXCEPT !.exit = TRUE]
            /\ cancel' = (cancel \/ life.cancellable)
            /\ UNCHANGED exited
       ELSE exited' = TRUE /\ UNCHANGED <<life, cancel>>
    /\ UNCHANGED <<op, shut, rows, cache, history, discover, preview, world>>

\* A frame: the history on top asks for the page it shows.
Frame ==
    /\ ~exited /\ history.active /\ ~discover.active /\ ~preview.active
    /\ Ensured(Shown, history.page) # cache[Shown]
    /\ EnsureHistoryLoaded(Shown, history.page)
    /\ UNCHANGED <<rows, history, discover, preview, exited, world, spent>>

-----------------------------------------------------------------------------
(* The worker                                                               *)

Stoppable == {"startup", "repo", "audit", "page", "detail"}

\* A page and a detail carry their error with their result, the others end
\* with an exception.
Carries == {"page", "detail"}

Deposit(stage, out) ==
    /\ op' = [op EXCEPT !.stage = stage, !.out = out]
    /\ UNCHANGED <<life, cancel, shut, ui, world>>

ReadFailed(what) ==
    IF op.kind \in Carries THEN Deposit("result", [error |-> what]) ELSE Deposit("error", what)

\* A cancellation is looked for before every read and, but for a refresh, a
\* discovery and a command, after the last.
Cancelled ==
    /\ op.stage = "run" /\ cancel
    /\ ReadFailed("cancelled")
    /\ UNCHANGED spent

Broken ==
    /\ op.stage = "run" /\ spent.faults < MaxFault
    /\ spent' = [spent EXCEPT !.faults = @ + 1]
    /\ ReadFailed("failed")

\* The log of an anchor, which is HEAD when the first page is read.
\* Mutant: every page is read from HEAD.
HeadNow(work) == head[work.repo]

AnchorOf(work) == IF work.anchor = 0 THEN head[work.repo] ELSE work.anchor

\* FetchTuiHistoryBatch: git log --skip --max-count of the anchor.
Batch(work) ==
    LET anchor == AnchorOf(work)
        size == Max({0, Min({work.count, anchor - work.skip})})
    IN [error |-> "none", anchor |-> anchor, end |-> size < work.count,
        entries |-> [i \in 1..size |-> anchor - work.skip - i + 1]]

Read ==
    /\ op.stage = "run"
    /\ cancel => op.kind \notin Stoppable
    /\ CASE op.kind = "startup" -> \E list \in Inventories : Deposit("result", list)
         [] op.kind = "refresh" -> Deposit("result", present)
         [] op.kind = "page" -> Deposit("result", Batch(op))
         [] op.kind = "detail" -> Deposit("result", [error |-> "none"])
         [] OTHER -> Deposit("result", <<>>)
    /\ UNCHANGED spent

-----------------------------------------------------------------------------
(* process_async_state, when the operation has ended                        *)

ReadSucceeded == op.stage = "result"
Presented == life.surface # "None" /\ ~life.dismissed

Replaces == ReadSucceeded /\ op.kind \in {"startup", "refresh"}
RereadsRow == ReadSucceeded /\ op.kind \in {"repo", "command"} /\ op.repo \in ToSet(rows)

\* Mutant: a page that was cancelled stays as one that is loading.
AppendedOrLoading(c, batch) ==
    [c EXCEPT !.loading = IF batch.error = "none" THEN NoGeneration ELSE @,
              !.anchor = IF batch.error = "none" THEN batch.anchor ELSE @,
              !.rows = IF batch.error = "none" THEN @ \o batch.entries ELSE @,
              !.full = IF batch.error = "none" THEN batch.end ELSE batch.error = "failed",
              !.failed = batch.error = "failed"]

\* A page is appended to the rows of its repository.
Appended(c, batch) ==
    IF batch.error = "none"
    THEN [c EXCEPT !.loading = NoGeneration, !.page = -1, !.anchor = batch.anchor,
                   !.rows = @ \o batch.entries, !.full = batch.end]
    ELSE [c EXCEPT !.loading = NoGeneration, !.page = -1,
                   !.failed = @ \/ batch.error = "failed",
                   !.full = @ \/ batch.error = "failed"]

CacheAfter ==
    CASE Replaces -> [r \in Repos |-> NoCache]
      [] RereadsRow -> [cache EXCEPT ![op.repo] = NoCache]
      [] ReadSucceeded /\ op.kind = "page" ->
            IF cache[op.repo].loading = op.gen
            THEN [cache EXCEPT ![op.repo] = Appended(@, op.out)] ELSE cache
      [] ReadSucceeded /\ op.kind = "detail" /\ op.out.error = "none" ->
            [cache EXCEPT ![op.repo].details = @ \cup {op.key}]
      [] OTHER -> cache

\* ReconcileHistoryAfterRepoRefresh: an open history stays with its
\* repository, or closes if that is gone; rows that were read anew start at
\* the first page, without a detail.
Reconciled(h, list) ==
    IF Shown \notin ToSet(list) THEN DetailClosed([h EXCEPT !.active = FALSE])
    ELSE LET kept == [h EXCEPT !.index = CHOOSE i \in DOMAIN list : list[i] = Shown]
         IN IF Replaces \/ op.repo = Shown
            THEN DetailClosed([kept EXCEPT !.page = 0]) ELSE kept

HistoryAfter ==
    IF (Replaces \/ RereadsRow) /\ history.active
    THEN Reconciled(history, IF Replaces THEN op.out ELSE rows)
    ELSE IF op.kind = "detail" /\ history.pending = op.gen
    THEN [history EXCEPT !.pending = NoGeneration, !.failed = op.out.error # "none"]
    ELSE history

DiscoverAfter ==
    CASE Presented /\ life.surface = "Discover" ->
            IF ReadSucceeded THEN [active |-> TRUE, loading |-> FALSE]
            ELSE [discover EXCEPT !.loading = FALSE]
      [] OTHER -> discover

PreviewAfter ==
    CASE Presented /\ life.surface = "Preview" ->
            IF ReadSucceeded THEN [active |-> TRUE, running |-> FALSE]
            ELSE [preview EXCEPT !.running = FALSE]
      [] OTHER -> preview

\* CompleteTuiAsyncOperation, and the payload applied to the screen.
Complete ==
    /\ ~exited /\ op.stage \in {"result", "error"} /\ life.busy /\ life.active = op.gen
    /\ life' = [life EXCEPT !.active = NoGeneration, !.surface = "None", !.busy = FALSE,
                            !.cancellable = FALSE, !.dismissed = FALSE, !.exit = FALSE]
    /\ op' = NoOperation
    /\ rows' = IF Replaces THEN op.out ELSE rows
    /\ cache' = CacheAfter /\ history' = HistoryAfter
    /\ discover' = DiscoverAfter /\ preview' = PreviewAfter
    /\ exited' = life.exit
    /\ UNCHANGED <<cancel, shut, world, spent>>

-----------------------------------------------------------------------------
(* Others                                                                   *)

Foreign == spent.foreign < MaxForeign /\ spent' = [spent EXCEPT !.foreign = @ + 1]

CommitElsewhere ==
    /\ Foreign
    /\ \E r \in Repos : head' = [head EXCEPT ![r] = @ + 1]
    /\ UNCHANGED <<worker, shut, ui, present>>

RemoveRepo ==
    /\ Foreign
    /\ \E r \in ToSet(present) : present' = SelectSeq(present, LAMBDA s : s # r)
    /\ UNCHANGED <<worker, shut, ui, head>>

Keys ==
    \/ RefreshRow \/ Refresh \/ Discover \/ Command
    \/ OpenHistory \/ SwitchRepo \/ MovePage \/ OpenDetail \/ ToggleMode
    \/ CloseDiscover \/ ClosePreview \/ CloseDetail \/ CloseHistory \/ Quit

Works == Cancelled \/ Broken \/ Read

DashboardNext == Keys \/ Frame \/ Works \/ Complete \/ CommitElsewhere \/ RemoveRepo

\* The worker's reads are bounded in time, a completion that is posted is
\* processed, and a frame follows it: WF of each.
DashboardSpec == DashboardInit /\ [][DashboardNext]_dashboardVars
DashboardFairSpec == DashboardSpec /\ WF_dashboardVars(Works) /\ WF_dashboardVars(Complete) /\ WF_dashboardVars(Frame)

-----------------------------------------------------------------------------
(* Properties                                                               *)

\* The rows of a history are the newest commits of its anchor, none twice and
\* none left out, however many were committed meanwhile, and when it says that
\* it is complete it is all of them (FetchTuiHistoryBatch,
\* PlanBoundedHistoryFetch, ensure_history_loaded).
HistoryIsAnchored ==
    \A r \in Repos : LET c == cache[r] IN
        /\ \A i \in CommitRows(c, Len(c.rows)) :
              c.rows[i] = c.anchor - Cardinality(CommitRows(c, i - 1))
        /\ (c.full /\ ~c.failed) => Loaded(c) = c.anchor

\* A result that arrives never takes the user elsewhere: it opens no panel
\* that was closed since its operation began, no history and no detail, and
\* an open history stays with its repository or closes
\* (docs/guides/current-command-surface.md, "stale completion events cannot
\* reopen a dismissed panel").
Arrives == life.busy /\ ~life'.busy

ResultsDoNotMoveTheUser ==
    [][Arrives =>
        /\ (discover'.active /\ ~discover.active) => "Discover" \notin shut
        /\ (preview'.active /\ ~preview.active) => "Preview" \notin shut
        /\ history'.active => history.active /\ rows'[history'.index] = Shown
        /\ history'.detail # NoRow => history'.detail = history.detail]_dashboardVars

\* Nothing hangs: an open history that no panel covers comes to have its page
\* or an error, an open detail its text or an error, no discovery or command
\* that is shown runs forever, and a user who quits gets out.
Served ==
    \/ ~history.active \/ discover.active \/ preview.active
    \/ cache[Shown].failed \/ cache[Shown].full
    \/ Len(cache[Shown].rows) >= Required(history.page)

DetailServed ==
    \/ ~history.active \/ history.detail = NoRow
    \/ history.failed \/ <<history.detail, history.mode>> \in cache[Shown].details

NothingHangs ==
    /\ []<>(exited \/ Served) /\ []<>(exited \/ DetailServed)
    /\ []<>~(discover.active /\ discover.loading)
    /\ []<>~(preview.active /\ preview.running)
    /\ life.exit ~> exited
=============================================================================
