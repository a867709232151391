---------------------------- MODULE ScanSession ----------------------------
(* Scan sessions: the controller's TV and movie libraries, the one           *)
(* cancellation token they share, the pool workers that discover, scan and   *)
(* publish, and the main window that shows a page per workspace and switches *)
(* between the sessions with in-memory snapshots.                            *)
(*                                                                           *)
(* GUI handlers are atomic. A worker's check of the token, its write of the  *)
(* result and its notifications are separate steps, and a notification waits *)
(* in the GUI's event queue: the handler reads the controller when it runs.  *)
EXTENDS Naturals, Sequences, FiniteSets

CONSTANTS
    MaxStarts,      \* scans the user starts (bound)
    MaxSwitches     \* switches from one workspace to the other (bound)

\* Every start may lead to one bulk scan; one single-show scan at a time has
\* the last number and no token.
ShowScan == 2 * MaxStarts + 1
Scans == 1 .. ShowScan
None  == 0
Kinds == {"tv", "movie"}
Busy  == {"discovering", "working"}
Lifecycles == Busy \union {"idle", "ready", "warning", "failed", "cancelled"}

VARIABLES
    token,      \* the current operation (None: nothing to cancel)
    begun,      \* scans begun so far; the newest is number begun
    op,         \* each scan's worker
    contents,   \* contents[s]: what the list that scan s discovered holds
    mode,       \* the active content mode
    library,    \* library[k]: the scan whose list session k shows (None: empty)
    orchestrator,   \* the scan whose orchestrator the TV session holds
    orchestrated,   \* orchestrated[s]: the list that scan's orchestrator works on
    progress,   \* the controller's scan progress
    snapshot,   \* a session as captured at the last tab switch
    page,       \* page[k]: what the workspace of k shows
    warming,    \* warming[k]: its poster warmup is pending
    tab,        \* the tab in front
    events,     \* notifications queued for the GUI thread
    starts, switches,   \* how often the user did so (bounds)
    adopted     \* lists a single-show scan put back into the session (history)

worker  == <<op, contents>>
session == <<mode, library, orchestrator, orchestrated>>
window  == <<snapshot, page, warming, tab>>
sessionVars == <<token, begun, worker, session, progress, window, events, starts, switches, adopted>>

IdleScan == [kind |-> "tv", pc |-> "idle", outcome |-> "ok", cancelled |-> FALSE,
         late |-> FALSE, undisturbed |-> FALSE, uses |-> None]
NoSnapshot == [taken |-> FALSE, list |-> None, orch |-> None]

\* The window as the user enters the first workspace: the empty TV session,
\* the active one, was captured. Tabs without a workspace are left out: passing
\* through one captures a session and restores it as it is.
SessionInit ==
    /\ token = None /\ begun = 0
    /\ op = [s \in Scans |-> IdleScan]
    /\ contents = [s \in Scans |-> "none"]
    /\ mode = "tv"
    /\ library = [k \in Kinds |-> None]
    /\ orchestrator = None
    /\ orchestrated = [s \in Scans |-> None]
    /\ progress = "idle"
    /\ snapshot = [k \in Kinds |-> [NoSnapshot EXCEPT !.taken = (k = "tv")]]
    /\ page = [k \in Kinds |-> "empty"]
    /\ warming = [k \in Kinds |-> FALSE]
    /\ tab \in Kinds
    /\ events = <<>>
    /\ starts = 0 /\ switches = 0
    /\ adopted = {}

\* What is left of a worker that has ended.
Ended(s) == [op[s] EXCEPT !.pc = "done", !.uses = None, !.cancelled = FALSE]

Running(s) == op[s].pc \notin {"idle", "done"}
Library(k) == library[k] # None

-----------------------------------------------------------------------------
(* Pages of a workspace. *)

\* show_empty and show_ready leave a pending warmup alone.
ShowPage(k, p) == page' = [page EXCEPT ![k] = p] /\ UNCHANGED warming

\* The scanning page stays up until the posters have settled.
ShowReadyWhenWarm(k) ==
    \/ page' = [page EXCEPT ![k] = "ready"] /\ warming' = [warming EXCEPT ![k] = FALSE]
    \/ UNCHANGED page /\ warming' = [warming EXCEPT ![k] = TRUE]

ShowOutcome(k) == ShowPage(k, IF Library(k) THEN "ready" ELSE "empty")

WarmupEnds(k) ==
    /\ warming[k]
    /\ warming' = [warming EXCEPT ![k] = FALSE]
    /\ page' = [page EXCEPT ![k] = "ready"]
    /\ UNCHANGED <<token, begun, worker, session, progress, snapshot, tab, events, starts,
                   switches, adopted>>

-----------------------------------------------------------------------------
(* Starting and cancelling. *)

\* The new operation takes the token; the one it replaces is neither cancelled
\* nor told.
BeginScan(kind, uses) ==
    /\ begun' = begun + 1
    /\ token' = begun + 1
    /\ op' = [op EXCEPT ![begun + 1] =
                [IdleScan EXCEPT !.kind = kind, !.pc = "work", !.uses = uses,
                             !.undisturbed = \A s \in Scans : ~Running(s)]]

StartScan(k) ==
    /\ tab = k /\ starts < MaxStarts
    /\ starts' = starts + 1
    /\ BeginScan(k, None)
    /\ mode' = k
    /\ library' = [library EXCEPT ![k] = None]
    /\ orchestrator' = IF k = "tv" THEN begun + 1 ELSE orchestrator
    /\ progress' = "discovering"
    /\ ShowPage(k, "scanning")
    /\ UNCHANGED <<contents, orchestrated, snapshot, tab, events, switches, adopted>>

\* The destination is invalid or no provider has a key: the page is emptied,
\* whatever runs.
RefuseScan(k) ==
    /\ tab = k /\ starts < MaxStarts
    /\ starts' = starts + 1
    /\ ShowPage(k, "empty")
    /\ UNCHANGED <<token, begun, worker, session, progress, snapshot, tab, events, switches,
                   adopted>>

\* Escape on a scanning page, or its Cancel button.
CancelScan ==
    /\ page[tab] = "scanning"
    /\ token # None /\ ~op[token].cancelled
    /\ op' = [op EXCEPT ![token].cancelled = TRUE]
    /\ UNCHANGED <<token, begun, contents, session, progress, window, events, starts, switches,
                   adopted>>

\* A single show is scanned again after a rematch; it has no token.
ScanShow ==
    /\ tab = "tv" /\ page["tv"] = "ready" /\ mode = "tv" /\ Library("tv")
    /\ starts < MaxStarts /\ ~Running(ShowScan)
    /\ starts' = starts + 1
    /\ op' = [op EXCEPT ![ShowScan] =
                [IdleScan EXCEPT !.kind = "show", !.pc = "work",
                             !.undisturbed = \A s \in Scans : ~Running(s)]]
    /\ progress' = "working"
    /\ events' = Append(events, "library_changed")
    /\ UNCHANGED <<token, begun, contents, session, window, switches, adopted>>

-----------------------------------------------------------------------------
(* Workers. *)

\* Progress is published by superseded scans too.
Report(s) ==
    /\ op[s].pc = "work" /\ op[s].kind # "show" /\ ~op[s].cancelled
    /\ progress' = "working"
    /\ UNCHANGED <<token, begun, worker, session, window, events, starts, switches, adopted>>

Outcomes(s) ==
    {"ok", "failed"} \union (IF op[s].cancelled THEN {"cancelled"} ELSE {})
                     \union (IF op[s].kind \in Kinds THEN {"empty"} ELSE {})

\* The work ends: a discovery has filled its orchestrator's list, a bulk scan
\* has scanned it. A cancel seen too late does not change the outcome.
WorkEnds(s) ==
    /\ op[s].pc = "work"
    /\ \E out \in Outcomes(s) :
        /\ op' = [op EXCEPT ![s].outcome = out,
                            ![s].late = op[s].kind # "show" /\ token # s,
                            ![s].pc = IF op[s].kind = "show"
                                        THEN IF out = "ok" THEN "handover" ELSE "announce"
                                        ELSE "check"]
        /\ CASE op[s].kind \in Kinds /\ out = "ok" ->
                  /\ \E c \in (IF op[s].kind = "tv" THEN {"unscanned", "scanned"}
                                                    ELSE {"scanned"}) :
                        contents' = [contents EXCEPT ![s] = c]
                  /\ orchestrated' = IF op[s].kind = "tv"
                                       THEN [orchestrated EXCEPT ![s] = s] ELSE orchestrated
             [] op[s].kind = "bulk" /\ out = "ok" /\ orchestrated[op[s].uses] # None ->
                  /\ contents' = [contents EXCEPT ![orchestrated[op[s].uses]] = "scanned"]
                  /\ UNCHANGED orchestrated
             [] OTHER -> UNCHANGED <<contents, orchestrated>>
    /\ UNCHANGED <<token, begun, mode, library, orchestrator, progress, window, events, starts,
                   switches, adopted>>

\* Mutant: whether the scan is still the current one is not asked.
CheckCurrentNever(s) ==
    /\ op[s].pc = "check"
    /\ op' = [op EXCEPT ![s].pc = "publish"]
    /\ UNCHANGED <<token, begun, contents, session, progress, window, events, starts, switches,
                   adopted>>
\* Only the current operation goes on to publish.
CheckCurrent(s) ==
    /\ op[s].pc = "check"
    /\ op' = [op EXCEPT ![s] = IF token = s THEN [@ EXCEPT !.pc = "publish"] ELSE Ended(s)]
    /\ UNCHANGED <<token, begun, contents, session, progress, window, events, starts, switches,
                   adopted>>

\* The session's list is replaced by the result.
Publish(s) ==
    /\ op[s].pc = "publish"
    /\ op' = [op EXCEPT ![s].pc = "announce"]
    /\ library' = IF op[s].kind \notin Kinds \/ op[s].outcome = "failed" THEN library
                  ELSE [library EXCEPT ![op[s].kind] = IF op[s].outcome = "ok" THEN s ELSE None]
    /\ UNCHANGED <<token, begun, contents, mode, orchestrator, orchestrated, progress, window,
                   events, starts, switches, adopted>>

\* The progress a worker ends with (a failed bulk scan leaves it as it is).
EndProgress(s) ==
    CASE op[s].outcome = "cancelled" -> "cancelled"
      [] op[s].outcome = "failed" -> IF op[s].kind = "bulk" THEN progress ELSE "failed"
      [] op[s].outcome = "empty" -> "warning"
      [] op[s].outcome = "ok" -> IF op[s].kind = "tv" THEN "working" ELSE "ready"

\* A failure of a batch is not announced to the window's listeners.
Announced(s) ==
    IF \/ op[s].kind = "show"
       \/ op[s].kind = "tv" /\ op[s].outcome = "ok"
       \/ op[s].kind = "movie" /\ op[s].outcome \in {"ok", "empty"}
    THEN <<"library_changed", "scan_complete">>
    ELSE IF op[s].outcome = "failed" THEN <<>> ELSE <<"library_changed">>

Announce(s) ==
    /\ op[s].pc = "announce"
    /\ progress' = EndProgress(s)
    /\ events' = events \o Announced(s)
    /\ op' = [op EXCEPT ![s] = IF op[s].kind = "show" THEN Ended(s)
                                                      ELSE [@ EXCEPT !.pc = "finish"]]
    /\ UNCHANGED <<token, begun, contents, session, window, starts, switches, adopted>>

\* Only the operation that holds the token gives it back.
FinishScan(s) ==
    /\ op[s].pc = "finish"
    /\ op' = [op EXCEPT ![s] = Ended(s)]
    /\ token' = IF token = s THEN None ELSE token
    /\ UNCHANGED <<begun, contents, session, progress, window, events, starts, switches, adopted>>

\* A single-show scan gives the session's list to the orchestrator it finds,
\* reconciles there, and takes the orchestrator's list back.
HandOver(s) ==
    /\ op[s].pc = "handover"
    /\ op' = [op EXCEPT ![s].pc = "takeback", ![s].uses = orchestrator]
    /\ orchestrated' = [orchestrated EXCEPT ![orchestrator] = library["tv"]]
    /\ UNCHANGED <<token, begun, contents, mode, library, orchestrator, progress, window, events,
                   starts, switches, adopted>>

TakeBack(s) ==
    /\ op[s].pc = "takeback"
    /\ op' = [op EXCEPT ![s].pc = "announce"]
    /\ library' = [library EXCEPT !["tv"] = orchestrated[op[s].uses]]
    /\ adopted' = IF orchestrated[op[s].uses] \in {None, library["tv"]} THEN adopted
                  ELSE adopted \union {orchestrated[op[s].uses]}
    /\ UNCHANGED <<token, begun, contents, mode, orchestrator, orchestrated, progress, window,
                   events, starts, switches>>

-----------------------------------------------------------------------------
(* The GUI thread handles what was announced, for the active mode as it is    *)
(* when the handler runs.                                                     *)

OnLibraryChanged ==
    /\ IF progress = "ready" /\ Library(mode) THEN ShowReadyWhenWarm(mode)
       ELSE IF progress = "cancelled" THEN ShowOutcome(mode)
       ELSE IF progress \in {"warning", "failed"} /\ ~Library(mode) THEN ShowPage(mode, "empty")
       ELSE UNCHANGED <<page, warming>>
    /\ UNCHANGED <<token, begun, op, progress>>

NeedsBulkScan ==
    mode = "tv" /\ Library("tv") /\ contents[library["tv"]] = "unscanned"

OnScanComplete ==
    \/ /\ progress = "failed"
       /\ IF Library(mode) THEN ShowReadyWhenWarm(mode) ELSE ShowPage(mode, "empty")
       /\ UNCHANGED <<token, begun, op, progress>>
    \/ /\ progress = "cancelled"
       /\ ShowOutcome(mode)
       /\ UNCHANGED <<token, begun, op, progress>>
    \/ /\ progress \notin {"failed", "cancelled"} /\ NeedsBulkScan
       /\ BeginScan("bulk", orchestrator)
       /\ progress' = "working"
       /\ UNCHANGED <<page, warming>>
    \/ /\ progress \notin {"failed", "cancelled"} /\ ~NeedsBulkScan
       /\ ShowReadyWhenWarm(mode)
       /\ UNCHANGED <<token, begun, op, progress>>

HandleEvent ==
    /\ events # <<>>
    /\ events' = Tail(events)
    /\ IF Head(events) = "library_changed" THEN OnLibraryChanged ELSE OnScanComplete
    /\ UNCHANGED <<contents, session, snapshot, tab, starts, switches, adopted>>

\* What a snapshot keeps of the active session, and how it comes back.
Captured ==
    [snapshot EXCEPT ![mode] = [taken |-> TRUE, list |-> library[mode], orch |-> orchestrator]]
Restore(k, kept) ==
    /\ mode' = k
    /\ library' = [library EXCEPT ![k] = kept.list]
    /\ orchestrator' = IF k = "tv" THEN kept.orch ELSE orchestrator
    /\ events' = Append(events, "library_changed")

\* The active session is captured, whichever tab is left; the one of the tab
\* entered is restored if it was ever captured.
SwitchTab(to) ==
    /\ to # tab /\ switches < MaxSwitches
    /\ switches' = switches + 1
    /\ tab' = to
    /\ snapshot' = Captured
    /\ IF Captured[to].taken THEN Restore(to, Captured[to])
       ELSE UNCHANGED <<mode, library, orchestrator, events>>
    /\ op' = IF mode' = mode THEN op ELSE [s \in Scans |-> [op[s] EXCEPT !.undisturbed = FALSE]]
    /\ UNCHANGED <<token, begun, contents, orchestrated, progress, page, warming, starts, adopted>>

-----------------------------------------------------------------------------
Proceed(s) ==
    \/ WorkEnds(s) \/ CheckCurrent(s) \/ Publish(s) \/ Announce(s)
    \/ FinishScan(s) \/ HandOver(s) \/ TakeBack(s)

SessionNext ==
    \/ \E k \in Kinds : StartScan(k) \/ RefuseScan(k) \/ WarmupEnds(k)
    \/ CancelScan \/ ScanShow \/ HandleEvent
    \/ \E s \in Scans : Report(s) \/ Proceed(s)
    \/ \E to \in Kinds : SwitchTab(to)

\* Pool threads end what they run, Qt delivers what is queued, and the warmup
\* has a timer. Nothing makes the user do anything.
SessionFairness ==
    /\ WF_sessionVars(HandleEvent)
    /\ \A k \in Kinds : WF_sessionVars(WarmupEnds(k))
    /\ \A s \in Scans : WF_sessionVars(Proceed(s))

SessionSpec == SessionInit /\ [][SessionNext]_sessionVars /\ SessionFairness

-----------------------------------------------------------------------------
(* What the properties say. *)

SessionTypeOK ==
    /\ token \in Scans \union {None} /\ begun \in 0 .. 2 * MaxStarts
    /\ \A s \in Scans :
        /\ op[s].kind \in Kinds \union {"bulk", "show"}
        /\ op[s].pc \in {"idle", "work", "check", "publish", "announce", "finish",
                         "handover", "takeback", "done"}
        /\ op[s].outcome \in {"ok", "empty", "failed", "cancelled"}
        /\ op[s].uses \in Scans \union {None}
    /\ contents \in [Scans -> {"none", "unscanned", "scanned"}]
    /\ mode \in Kinds /\ tab \in Kinds /\ progress \in Lifecycles
    /\ library \in [Kinds -> Scans \union {None}]
    /\ orchestrated \in [Scans -> Scans \union {None}]
    /\ \A k \in Kinds : library[k] # None => contents[library[k]] # "none"
    /\ page \in [Kinds -> {"empty", "scanning", "ready"}]

\* The newest scan can be cancelled for as long as it works: no older scan
\* that ends takes the token away from it (ScanOperationTracker.finish).
NewestScanCancellable ==
    \A s \in Scans \ {ShowScan} :
        s = begun /\ op[s].pc \in {"work", "check", "publish", "announce", "finish"}
            => token = s

\* A scan that ended after a newer one began never replaces the session's list
\* (the is_current checks of the workers), unless a single-show scan put an
\* orchestrator's list back or the newer scan began after the check.
LateResultsNeverShown ==
    \A k \in Kinds :
        library[k] # None /\ library[k] \notin adopted => ~op[library[k]].late

\* Once everything has come to rest, the workspace of the newest scan is off
\* its scanning page, if that scan did not fail, began while no other ran, and
\* the user stayed in its session: the handlers of the window, which see only
\* the controller's progress as it is by then, bring up what was found.
AtRest == events = <<>> /\ \A s \in Scans : ~Running(s)
KindOf(s) == IF op[s].kind \in Kinds THEN op[s].kind ELSE "tv"
SettledScanLeavesPage ==
    \A s \in Scans :
        /\ AtRest /\ s = begun /\ op[s].undisturbed /\ op[s].outcome # "failed"
        => page[KindOf(s)] # "scanning" \/ warming[KindOf(s)]
=============================================================================
