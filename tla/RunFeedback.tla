----------------------------- MODULE RunFeedback -----------------------------
(***************************************************************************)
(* What the main window tells of the jobs that run                         *)
(* (gui_qt/_main_window_feedback.py, main_window.py, toast_manager.py and  *)
(* the listeners of job_executor.py).                                      *)
(*                                                                         *)
(* The worker of the queue notifies from its own thread: the bridge        *)
(* (_main_window_bridges.py) posts each notification to the GUI thread,    *)
(* which handles them in order, some time later.  A single run executes on *)
(* the GUI thread itself, so its notifications are handled at once, before *)
(* whatever the worker has posted.  The handlers keep one set of run       *)
(* counters for both and decide from them which toasts to show and whether *)
(* the AutoMux sweep still yields to the executor.                         *)
(*                                                                         *)
(* Only jobs and the toasts' kinds are kept: what a toast says is left out, *)
(* except for which completed jobs it tells of.                            *)
(***************************************************************************)
EXTENDS Naturals, Sequences, FiniteSets

CONSTANTS
    Jobs,             \* the jobs that are pending when the window opens
    Nobody,           \* no job
    MaxDirectToasts   \* _MAX_DIRECT_TOASTS

VARIABLES
    waiting,    \* the pending jobs of the store
    running,    \* QueueExecutor._running
    stop,       \* QueueExecutor._stop_event
    worker,     \* the job the worker executes, or where it is
    ending,     \* workers that cleared _running and have not yet said so
    single,     \* the job the GUI thread executes itself
    posted,     \* notifications on their way to the GUI thread
    window,     \* the run counters, the toasts and the sweep's busy flag
    told        \* job -> whether it completed, and whether a toast told so

feedbackVars == <<waiting, running, stop, worker, ending, single, posted, window, told>>

Note(kind, job) == [kind |-> kind, job |-> job]

\* A window with no run under way and nothing shown.
Quiet == [started |-> FALSE, background |-> FALSE, completed |-> {}, pending |-> {},
          timer |-> FALSE, direct |-> 0, progress |-> FALSE, collapsed |-> FALSE, busy |-> FALSE]

FeedbackInit ==
    /\ waiting = Jobs
    /\ running = FALSE /\ stop = FALSE /\ worker = "none" /\ ending = 0
    /\ single = Nobody
    /\ posted = <<>>
    /\ window = Quiet
    /\ told = [j \in Jobs |-> "not completed"]

-----------------------------------------------------------------------------
(* The toasts. *)

\* A toast is shown while fewer than the limit are, the progress toast being
\* one of them; further ones collapse into the summary toast.
Toast(w) ==
    IF w.direct + (IF w.progress THEN 1 ELSE 0) >= MaxDirectToasts
    THEN [w EXCEPT !.collapsed = TRUE]
    ELSE [w EXCEPT !.direct = @ + 1]

\* The progress toast has a key: it is updated in place, or shown past the limit.
ProgressToast(w) == [w EXCEPT !.progress = TRUE]

(* The handlers, on the GUI thread. *)

RunForgotten(w) ==
    [w EXCEPT !.started = FALSE, !.background = FALSE, !.completed = {}, !.pending = {}]

OnJobStarted(w) ==
    LET counted == IF w.started THEN w
                   ELSE [RunForgotten(w) EXCEPT !.started = TRUE, !.background = running,
                                                !.timer = FALSE]
    IN  IF counted.background THEN ProgressToast(counted) ELSE counted

\* A success outside a run has a toast of its own; in a run of the queue it
\* is left to the summary, in a single run to the batch the timer flushes.
OnJobCompleted(w, j) ==
    LET counted == [w EXCEPT !.completed = @ \cup {j}]
        batched == [counted EXCEPT !.pending = @ \cup {j}]
    IN  IF ~w.started THEN [window |-> Toast(counted), tells |-> {j}]
        ELSE [window |-> IF w.background THEN ProgressToast(batched)
                         ELSE [batched EXCEPT !.timer = TRUE],
              tells |-> {}]

OnJobFailed(w) ==
    Toast(IF ~w.started THEN w
          ELSE IF w.background THEN ProgressToast(w)
          ELSE [w EXCEPT !.timer = TRUE])

FlushSuccessToastBatch(w) ==
    LET rung == [w EXCEPT !.timer = FALSE]
    IN  IF ~w.started \/ w.background THEN [window |-> rung, tells |-> {}]
        ELSE IF w.pending = {} THEN [window |-> RunForgotten(rung), tells |-> {}]
        ELSE [window |-> RunForgotten(Toast(rung)), tells |-> w.pending]

OnQueueFinished(w) ==
    IF ~w.started THEN [window |-> w, tells |-> {}]
    ELSE LET silent == [w EXCEPT !.timer = FALSE,
                                 !.progress = @ /\ ~w.background]
         IN  [window |-> RunForgotten(Toast(silent)), tells |-> w.completed]

\* Mutant: the release is left to the end of the queue's run.
ReleaseNever(w) == w

\* Only a single run releases the sweep when its job has ended: a run of the
\* queue does so when it is finished.
ReleaseIfIdle(w) == [w EXCEPT !.busy = @ /\ running]

\* What the window becomes, and which jobs it tells of, on a notification.
Handled(w, n) ==
    CASE n.kind = "started"   -> [window |-> [OnJobStarted(w) EXCEPT !.busy = TRUE], tells |-> {}]
      [] n.kind = "completed" -> LET done == OnJobCompleted(w, n.job)
                                 IN  [done EXCEPT !.window = ReleaseIfIdle(@)]
      [] n.kind = "failed"    -> [window |-> ReleaseIfIdle(OnJobFailed(w)), tells |-> {}]
      [] n.kind = "finished"  -> LET done == OnQueueFinished(w)
                                 IN  [done EXCEPT !.window.busy = FALSE]

Show(outcome) ==
    /\ window' = outcome.window
    /\ told' = [j \in Jobs |-> IF j \notin outcome.tells THEN told[j]
                              ELSE IF told[j] = "told" THEN "told again" ELSE "told"]

-----------------------------------------------------------------------------
(* The executor's worker. *)

Post(n) == posted' = Append(posted, n)

\* A job whose sources are all gone fails without ever having started.
TakeJob(j) ==
    /\ worker = "loop" /\ ~stop
    /\ j \in waiting
    /\ waiting' = waiting \ {j}
    /\ \/ worker' = j /\ Post(Note("started", j))
       \/ worker' = worker /\ Post(Note("failed", j))
    /\ UNCHANGED <<running, stop, ending, single, window, told>>

EndJob ==
    /\ worker \in Jobs
    /\ \/ Post(Note("completed", worker)) /\ told' = [told EXCEPT ![worker] = "untold"]
       \/ Post(Note("failed", worker)) /\ UNCHANGED told
    /\ worker' = "loop"
    /\ UNCHANGED <<waiting, running, stop, ending, single, window>>

\* The flag is cleared first, the listeners hear of it afterwards.
EndRun ==
    /\ worker = "loop"
    /\ stop \/ waiting = {}
    /\ running' = FALSE /\ worker' = "none" /\ ending' = ending + 1
    /\ UNCHANGED <<waiting, stop, single, posted, window, told>>

SayFinished ==
    /\ ending > 0
    /\ ending' = ending - 1
    /\ Post(Note("finished", Nobody))
    /\ UNCHANGED <<waiting, running, stop, worker, single, window, told>>

-----------------------------------------------------------------------------
(* The GUI thread.  It does one thing at a time: a job it runs itself keeps *)
(* it from everything else.                                                *)

GuiFree == single = Nobody

StartQueue ==
    /\ GuiFree /\ ~running
    /\ running' = TRUE /\ stop' = FALSE /\ worker' = "loop"
    /\ UNCHANGED <<waiting, ending, single, posted, window, told>>

StopQueue ==
    /\ GuiFree /\ running /\ ~stop
    /\ stop' = TRUE
    /\ UNCHANGED <<waiting, running, worker, ending, single, posted, window, told>>

\* The notifications of a job that runs here are handled on the spot.
RunSingle(j) ==
    /\ GuiFree
    /\ j \in waiting
    /\ waiting' = waiting \ {j}
    /\ \/ single' = j /\ Show(Handled(window, Note("started", j)))
       \/ single' = single /\ Show(Handled(window, Note("failed", j)))
    /\ UNCHANGED <<running, stop, worker, ending, posted>>

EndSingle ==
    /\ single \in Jobs
    /\ \/ LET done == Handled(window, Note("completed", single))
          IN  /\ window' = done.window
              /\ told' = [told EXCEPT ![single] = IF done.tells = {} THEN "untold" ELSE "told"]
       \/ Show(Handled(window, Note("failed", single)))
    /\ single' = Nobody
    /\ UNCHANGED <<waiting, running, stop, worker, ending, posted>>

Deliver ==
    /\ GuiFree /\ posted # <<>>
    /\ Show(Handled(window, Head(posted)))
    /\ posted' = Tail(posted)
    /\ UNCHANGED <<waiting, running, stop, worker, ending, single>>

TimerRings ==
    /\ GuiFree /\ window.timer
    /\ Show(FlushSuccessToastBatch(window))
    /\ UNCHANGED <<waiting, running, stop, worker, ending, single, posted>>

\* A toast goes when its time is over or the user closes it.
\* The summary and the progress toast have no time, but may be closed too.
DismissToast ==
    /\ GuiFree
    /\ \/ window.direct > 0 /\ window' = [window EXCEPT !.direct = @ - 1]
       \/ window.collapsed /\ window' = [window EXCEPT !.collapsed = FALSE]
       \/ window.progress /\ window' = [window EXCEPT !.progress = FALSE]
    /\ UNCHANGED <<waiting, running, stop, worker, ending, single, posted, told>>

FeedbackNext ==
    \/ \E j \in Jobs : TakeJob(j) \/ RunSingle(j)
    \/ EndJob \/ EndRun \/ SayFinished
    \/ StartQueue \/ StopQueue
    \/ EndSingle \/ Deliver \/ TimerRings \/ DismissToast

FeedbackSpec == FeedbackInit /\ [][FeedbackNext]_feedbackVars

-----------------------------------------------------------------------------
AtRest == worker = "none" /\ ending = 0 /\ GuiFree /\ posted = <<>>

\* No success is told of twice, and once every notification is handled and
\* the batch timer has rung, each has been told of: by a toast of its own,
\* by a batch or by the summary of a run, although single runs and runs of
\* the queue share the counters and the timer.
SuccessesToldOnce ==
    /\ \A j \in Jobs : told[j] # "told again"
    /\ (AtRest /\ ~window.timer) => \A j \in Jobs : told[j] # "untold"

\* When nothing runs and every notification is handled, no toast still says
\* that the queue is running, the AutoMux sweep no longer yields to the
\* executor, and no run is left open unless the batch timer will close it:
\* whatever the order in which single runs, new runs and the late end of an
\* old run came.
EndedRunLeavesNothing ==
    AtRest => /\ ~window.progress /\ ~window.busy
              /\ window.started => window.timer

\* The sweep yields for as long as a job runs whose start the window has
\* heard of.  It does not: the late end of a run that was cleared before it
\* was announced is taken for the end of the next one.
SweepYieldsToRunningJob ==
    (worker \in Jobs /\ posted = <<>>) => window.busy
=============================================================================
