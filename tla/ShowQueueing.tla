---------------------------- MODULE ShowQueueing ----------------------------
(* From a scanned show to its job: the AutoMux coordinator that probes files  *)
(* in the thread pool and keeps the mux plans of the show under the INDICES   *)
(* of its preview rows, the mapping edits that rebuild those rows, the check  *)
(* boxes, the gate that decides what may be queued, and the submission that   *)
(* runs on a pool thread under a busy overlay.                                *)
(*                                                                            *)
(* One show stands for all: a coordinator key is (id(state), index), and no   *)
(* step relates two shows but the order of the sweep.  A row is the file it   *)
(* names, its target name and its kind; a projection (EpisodeMapping) is any  *)
(* member of Projections.  The overlay covers the workspace while a           *)
(* submission runs, so the user's edits wait for it; probe results do not.    *)
EXTENDS Integers, Sequences, FiniteSets

CONSTANTS
    Projections,    \* the lists of preview rows the mapping edits can lead to
    Muxable,        \* files build_mux_plan has something to do for
    SweepWorkers,   \* _WARM_SWEEP_WORKERS
    MaxRowEdits,    \* bound: mapping edits and rescans
    MaxChoices,     \* bound: selections, check boxes, AutoMux switches, executor runs
    MaxSubmissions, \* bound: clicks on a queue button
    MaxSignals      \* bound: probe results waiting for the GUI thread

VARIABLES
    rows,        \* state.preview_items
    plans,       \* state.mux_plans: NoPlan where the index has none
    probeErrors, \* indices in state.mux_probe_errors
    gateErrors,  \* indices in state.merge_gate_errors
    optOuts,     \* state.mux_opt_outs
    muxOff,      \* state.automux_disabled
    checks,      \* state.check_vars: "unbound", TRUE or FALSE per index
    showChecked, \* state.checked
    showQueued,  \* state.queued
    showScanning,\* state.scanning
    isShown,     \* the show is the selected one
    probes,      \* probe tasks of the pool, one per reserved slot of _inflight
    landed,      \* plan_ready signals waiting for the GUI thread, in order
    warm,        \* _warm_queue
    sweeping,    \* _warm_sweep_active
    idleSweeps,  \* sweep workers between two items
    muxBusy,     \* _executor_busy
    submission,  \* the queue submission in flight
    queuedOps,   \* the operations of the show's pending job by row, or NoJob
    rowEdits, submissions, choices  \* how many there were

rowVars == <<rows, showScanning>>
planVars == <<plans, probeErrors, gateErrors>>
muxChoices == <<optOuts, muxOff>>
checkVars == <<checks, showChecked>>
sweepVars == <<probes, landed, warm, sweeping, idleSweeps, muxBusy>>
queueBounds == <<rowEdits, submissions, choices>>
queueingVars == <<rowVars, planVars, muxChoices, checkVars, showQueued, isShown, sweepVars,
                  submission, queuedOps, queueBounds>>

RowLists == Projections \cup {<<>>}
Indices == UNION {DOMAIN p : p \in RowLists}
First(indices) == CHOOSE i \in indices : \A j \in indices : i <= j
FilesOf == UNION {{p[i].file : i \in DOMAIN p} : p \in Projections}
NamesOf == UNION {{p[i].name : i \in DOMAIN p} : p \in Projections}

NoPlan == [of |-> "none", name |-> "none", append |-> FALSE, mine |-> FALSE]
NoRow == [file |-> "none", name |-> "none", kind |-> "none"]
NoJob == <<>>
Settled == [stage |-> "none"]

-----------------------------------------------------------------------------
(* What a row and its cached plan make of each other.                        *)

IsMerge(i) == rows[i].kind = "merge"

\* A loose row, of a file no episode has, has no target name.
Named(i) == rows[i].kind # "loose"

\* item_mux_probe_eligible: a mapped row, whether or not its name is right
\* already.
ProbeEligible(row) == row.kind \in {"rename", "named", "merge", "review"}

\* file_mux_active.  A plan is kept only when it has actions.
MuxActive(i) ==
    /\ plans[i] # NoPlan
    /\ i \notin optOuts
    /\ IsMerge(i) \/ ~muxOff

\* is_actionable_item: a rename to do, of a row that is mapped.
ActionableRow(row) == row.kind \in {"rename", "merge", "review"}

QueueRelevant(i) == ActionableRow(rows[i]) \/ MuxActive(i)

Relevant == {i \in DOMAIN rows : QueueRelevant(i)}

\* is_state_queue_approvable of a matched show.
Approvable ==
    /\ ~showQueued /\ ~showScanning
    /\ \A i \in DOMAIN rows : rows[i].kind \notin {"conflict", "review"}
    /\ Relevant # {}

\* _pending_items: what the sweep still has to probe, in the order of the rows.
PendingItems ==
    {i \in DOMAIN rows : ProbeEligible(rows[i]) /\ plans[i] = NoPlan /\ i \notin probeErrors}

-----------------------------------------------------------------------------
(* The thread pool's part: slots, probes, results.                           *)

Reserved == {p.index : p \in probes}

\* _begin_probe: the slot is looked up and taken under one lock.
ProbeTask(i, by) == [index |-> i, by |-> by, stage |-> "reserved", row |-> NoRow]

\* _effective_cap.
SweepCap(busy) == IF busy THEN 1 ELSE SweepWorkers

\* The sweep workers a new queue calls for, beyond those already counted.
Spawned(queue, busy) ==
    LET wanted == IF Cardinality(queue) < SweepCap(busy) THEN Cardinality(queue)
                  ELSE SweepCap(busy)
    IN  IF wanted > sweeping THEN wanted - sweeping ELSE 0

\* The queue is replaced and workers are topped up under the lock.
Refill(queue) ==
    /\ warm' = queue
    /\ sweeping' = sweeping + Spawned(queue, muxBusy)
    /\ idleSweeps' = idleSweeps + Spawned(queue, muxBusy)

\* warm_plans_for_states: a shown show gets a task per row, another one goes
\* to the sweep.  The plans, rows and errors are those after the step.
Warm(pending) ==
    IF isShown'
    THEN /\ probes' = probes \cup
                {ProbeTask(i, "task") : i \in pending \ Reserved}
         /\ Refill({})
    ELSE Refill(pending) /\ UNCHANGED probes

\* ensure_check_bindings
Bound(relevant, approvable, checkedNow, list) ==
    [i \in Indices |->
        IF i \in DOMAIN list /\ checks[i] = "unbound"
        THEN IF checkedNow /\ i \in relevant /\ approvable THEN "yes" ELSE "no"
        ELSE checks[i]]

\* normalize_queue_selection: the flag of an approvable show follows its rows'
\* boxes, any other show is unchecked with its boxes.
Normalized(approvable, relevant, list) ==
    IF approvable
    THEN LET bound == Bound(relevant, approvable, showChecked, list)
         IN  [checks |-> bound, flag |-> \E i \in relevant : bound[i] = "yes"]
    ELSE [checks |-> [i \in Indices |-> IF checks[i] = "unbound" THEN "unbound" ELSE "no"],
          flag |-> FALSE]

\* refresh_from_controller over unchanged rows.
RefreshView ==
    LET view == Normalized(Approvable, Relevant, rows)
    IN  checks' = view.checks /\ showChecked' = view.flag

-----------------------------------------------------------------------------
(* Rows: edits and rescans.                                                  *)

\* The overlay is down and nothing is queued: the guards every edit starts with.
Editable == submission = Settled /\ ~showQueued /\ ~showScanning

ClearedSession ==
    /\ plans' = [i \in Indices |-> NoPlan]
    /\ probeErrors' = {} /\ gateErrors' = {} /\ optOuts' = {} /\ muxOff' = FALSE

RelevantOf(list) == {i \in DOMAIN list : ActionableRow(list[i])}
ApprovableList(list) ==
    /\ \A i \in DOMAIN list : list[i].kind \notin {"conflict", "review"}
    /\ RelevantOf(list) # {}

\* The view after the rows became list: every box unbound, then bound from the
\* flag the show had (an approval checks it first).
ViewOf(list, flag) ==
    LET ok == ApprovableList(list)
    IN  /\ checks' = [i \in Indices |->
                        IF i \in DOMAIN list /\ ok
                        THEN IF flag /\ i \in RelevantOf(list) THEN "yes" ELSE "no"
                        ELSE "unbound"]
        /\ showChecked' = (ok /\ flag)

PendingOf(list) == {i \in DOMAIN list : ProbeEligible(list[i])}

\* Any mapping edit: reproject rebuilds the rows and clears the session state,
\* then the guide and the workspace are refreshed.  Approving checks the show.
EditMapping(list, approving) ==
    /\ Editable /\ rows # <<>> /\ list # rows
    /\ rowEdits < MaxRowEdits
    /\ rowEdits' = rowEdits + 1
    /\ rows' = list
    /\ ClearedSession
    /\ ViewOf(list, showChecked \/ approving)
    /\ isShown' = isShown
    /\ Warm(PendingOf(list))
    /\ UNCHANGED <<showScanning, showQueued, landed, muxBusy, submission, queuedOps, submissions, choices>>

\* A rematch: reset_scan empties the show until its new scan lands.
StartRescan ==
    /\ Editable /\ rows # <<>>
    /\ rowEdits < MaxRowEdits
    /\ rowEdits' = rowEdits + 1
    /\ rows' = <<>> /\ showScanning' = TRUE
    /\ ClearedSession
    /\ checks' = [i \in Indices |-> "unbound"]
    /\ UNCHANGED <<showChecked, showQueued, isShown, sweepVars, submission, queuedOps, submissions, choices>>

ScanLands(list) ==
    /\ showScanning
    /\ rows' = list /\ showScanning' = FALSE
    /\ ViewOf(list, showChecked)
    /\ isShown' = isShown
    /\ Warm(PendingOf(list))
    /\ UNCHANGED <<planVars, muxChoices, showQueued, landed, muxBusy, submission, queuedOps,
                   queueBounds>>

\* The choices that cost the model little but a bound.
Choose == choices < MaxChoices /\ choices' = choices + 1

\* Selecting the show, or another one: the workspace refreshes.
SelectShow ==
    /\ Choose
    /\ submission = Settled
    /\ isShown' = ~isShown
    /\ RefreshView
    /\ Warm(PendingItems)
    /\ UNCHANGED <<rowVars, planVars, muxChoices, showQueued, landed, muxBusy, submission,
                   queuedOps, rowEdits, submissions>>

\* set_state_checked: the boxes follow the flag where the show may be queued;
\* checking moves its rows to the front of the sweep.
SetChecked(flag) ==
    /\ showChecked' = flag
    /\ checks' = [i \in Indices |->
                    IF i \in DOMAIN rows
                    THEN IF flag /\ Approvable /\ i \in Relevant THEN "yes" ELSE "no"
                    ELSE checks[i]]
    /\ IF flag /\ PendingItems # {}
       THEN Refill(PendingItems)
       ELSE UNCHANGED <<warm, sweeping, idleSweeps>>

\* The roster row's check box.
ToggleCheck ==
    /\ Choose
    /\ submission = Settled /\ Approvable
    /\ SetChecked(~showChecked)
    /\ UNCHANGED <<rowVars, planVars, muxChoices, showQueued, isShown, probes, landed, muxBusy,
                   submission, queuedOps, rowEdits, submissions>>

ToggleOptOut(i) ==
    /\ Choose
    /\ Editable /\ i \in DOMAIN rows /\ plans[i] # NoPlan
    /\ optOuts' = IF i \in optOuts THEN optOuts \ {i} ELSE optOuts \cup {i}
    /\ UNCHANGED <<rowVars, planVars, muxOff, checkVars, showQueued, isShown, sweepVars,
                   submission, queuedOps, rowEdits, submissions>>

ToggleAutoMux ==
    /\ Choose
    /\ submission = Settled /\ isShown /\ ~showQueued
    /\ \E i \in Indices : plans[i] # NoPlan
    /\ muxOff' = ~muxOff
    /\ UNCHANGED <<rowVars, planVars, optOuts, checkVars, showQueued, isShown, sweepVars,
                   submission, queuedOps, rowEdits, submissions>>

\* _on_plan_edited: the tracks widget hands back a copy flagged user_modified.
EditPlan(i) ==
    /\ Choose
    /\ Editable /\ isShown /\ ~muxOff
    /\ i \in DOMAIN rows /\ plans[i] # NoPlan /\ i \notin probeErrors
    /\ plans' = [plans EXCEPT ![i].mine = TRUE]
    /\ UNCHANGED <<rowVars, probeErrors, gateErrors, muxChoices, checkVars, showQueued, isShown,
                   sweepVars, submission, queuedOps, rowEdits, submissions>>

-----------------------------------------------------------------------------
(* Probes.                                                                   *)

\* The task leaves, its slot is free, and its sweep worker takes the next item.
FreeSlot(p) ==
    /\ probes' = probes \ {p}
    /\ idleSweeps' = IF p.by = "sweep" THEN idleSweeps + 1 ELSE idleSweeps

\* ensure_state_plans leaves a plan the user edited alone, but a merge row's
\* only while it still appends.
KeepsUserPlan(i) == plans[i].mine /\ ~(IsMerge(i) /\ ~plans[i].append)

\* _run_probe takes the row when it runs; a row that is gone, or a merge row
\* with a plan of the user's, ends the task and frees the slot.
StartProbe(p) ==
    /\ p.stage = "reserved"
    /\ IF p.index \in DOMAIN rows /\ ~(IsMerge(p.index) /\ KeepsUserPlan(p.index))
       THEN /\ probes' = (probes \ {p}) \cup
                  {[p EXCEPT !.stage = IF IsMerge(p.index) THEN "parts" ELSE "file",
                             !.row = rows[p.index]]}
            /\ UNCHANGED idleSweeps
       ELSE FreeSlot(p)
    /\ UNCHANGED <<rowVars, planVars, muxChoices, checkVars, showQueued, isShown, landed, warm,
                   sweeping, muxBusy, submission, queuedOps, queueBounds>>

PlanFor(file, row) ==
    [of |-> file, name |-> row.name, append |-> FALSE, mine |-> FALSE]

\* The probe of one file is back.  plan_for_item takes the target name from the
\* row that has the index NOW; without a row, or on a row without a name, it
\* raises and nothing is sent.
FinishProbe(p, readable) ==
    /\ p.stage = "file"
    /\ Len(landed) < MaxSignals
    /\ landed' =
         IF ~readable
         THEN Append(landed, [index |-> p.index, kind |-> "error", plan |-> NoPlan])
         ELSE IF p.index \notin DOMAIN rows \/ ~Named(p.index) THEN landed
         ELSE Append(landed,
                [index |-> p.index, kind |-> "plan",
                 plan |-> IF p.row.file \in Muxable THEN PlanFor(p.row.file, rows[p.index])
                          ELSE NoPlan])
    /\ FreeSlot(p)
    /\ UNCHANGED <<rowVars, planVars, muxChoices, checkVars, showQueued, isShown, warm, sweeping,
                   muxBusy, submission, queuedOps, queueBounds>>

MergeOutcomes == {"plan", "gate", "unreadable"}

\* _plan_merge_item: every part is read and the gate asked; the thread that ran
\* it writes plan and errors itself.
PlanMerge(i, row, outcome) ==
    /\ plans' = [plans EXCEPT ![i] =
                    IF outcome = "plan"
                    THEN [of |-> row.file, name |-> row.name, append |-> TRUE, mine |-> FALSE]
                    ELSE NoPlan]
    /\ probeErrors' = IF outcome = "unreadable" THEN probeErrors \cup {i} ELSE probeErrors \ {i}
    /\ gateErrors' = IF outcome = "gate" THEN gateErrors \cup {i} ELSE gateErrors \ {i}

FinishParts(p, outcome) ==
    /\ p.stage = "parts"
    /\ PlanMerge(p.index, p.row, outcome)
    /\ FreeSlot(p)
    /\ UNCHANGED <<rowVars, muxChoices, checkVars, showQueued, isShown, landed, warm, sweeping,
                   muxBusy, submission, queuedOps, queueBounds>>

\* _on_plan_ready: the show is still in the library, so the result is kept
\* under its index.
ShowPlan ==
    /\ landed # <<>>
    /\ landed' = Tail(landed)
    /\ LET e == Head(landed)
       IN  /\ plans' = [plans EXCEPT ![e.index] = e.plan]
           /\ probeErrors' = IF e.kind = "error" THEN probeErrors \cup {e.index}
                             ELSE probeErrors \ {e.index}
    /\ UNCHANGED <<rowVars, gateErrors, muxChoices, checkVars, showQueued, isShown, probes, warm,
                   sweeping, idleSweeps, muxBusy, submission, queuedOps, queueBounds>>

\* Mutant: a worker that leaves the empty queue lowers the count later, in a
\* step of its own.
LeaveSweepUncounted ==
    /\ idleSweeps > 0
    /\ sweeping > SweepCap(muxBusy) \/ warm = {}
    /\ idleSweeps' = idleSweeps - 1
    /\ UNCHANGED <<rowVars, planVars, muxChoices, checkVars, showQueued, isShown, probes, landed,
                   warm, sweeping, muxBusy, submission, queuedOps, queueBounds>>

\* A sweep worker sheds itself over the cap, leaves on an empty queue (the
\* count goes down under the lock that saw it empty), or takes the next item
\* and skips it when it was warmed meanwhile.
LeaveSweep ==
    /\ idleSweeps > 0
    /\ sweeping > SweepCap(muxBusy) \/ warm = {}
    /\ idleSweeps' = idleSweeps - 1
    /\ sweeping' = sweeping - 1
    /\ UNCHANGED <<rowVars, planVars, muxChoices, checkVars, showQueued, isShown, probes, landed,
                   warm, muxBusy, submission, queuedOps, queueBounds>>

TakeNext ==
    /\ idleSweeps > 0
    /\ sweeping <= SweepCap(muxBusy) /\ warm # {}
    /\ warm' = warm \ {First(warm)}
    /\ LET i == First(warm)
       IN  IF /\ i \in DOMAIN rows /\ i \notin Reserved
              /\ ProbeEligible(rows[i]) /\ plans[i] = NoPlan /\ i \notin probeErrors
           THEN /\ probes' = probes \cup {ProbeTask(i, "sweep")}
                /\ idleSweeps' = idleSweeps - 1
           ELSE UNCHANGED <<probes, idleSweeps>>
    /\ UNCHANGED <<rowVars, planVars, muxChoices, checkVars, showQueued, isShown, landed,
                   sweeping, muxBusy, submission, queuedOps, queueBounds>>

\* set_executor_busy: a running job leaves the sweep one worker, the end of it
\* tops the workers up again.
SetExecutorBusy ==
    /\ Choose
    /\ muxBusy' = ~muxBusy
    /\ IF muxBusy
       THEN /\ sweeping' = sweeping + Spawned(warm, FALSE)
            /\ idleSweeps' = idleSweeps + Spawned(warm, FALSE)
       ELSE UNCHANGED <<sweeping, idleSweeps>>
    /\ UNCHANGED <<rowVars, planVars, muxChoices, checkVars, showQueued, isShown, probes, landed,
                   warm, submission, queuedOps, rowEdits, submissions>>

-----------------------------------------------------------------------------
(* Submission.                                                               *)

Blocking == {"conflict"}

\* evaluate_scan_state as the submission asks it: show-level for TV, review
\* resolved.  The indices it names are those that will be queued.
Eligible ==
    /\ showChecked /\ ~showScanning /\ ~showQueued
    /\ \A i \in Relevant : rows[i].kind # "review"
    /\ \A i \in DOMAIN rows : rows[i].kind \notin Blocking
    /\ Relevant # {}

\* A submission, and what to do with the check of a show that did not queue.
Submission(undo) ==
    [stage |-> "gate", undo |-> undo, chosen |-> {}, todo |-> {}, baked |-> <<>>]

\* queue_selected_state: clicking is the approval, an unchecked show is checked
\* first and unchecked again when it did not queue.
SubmitSelected ==
    /\ submission = Settled /\ submissions < MaxSubmissions
    /\ isShown /\ Approvable
    /\ submissions' = submissions + 1
    /\ IF showChecked THEN UNCHANGED <<checkVars, warm, sweeping, idleSweeps>>
       ELSE SetChecked(TRUE)
    /\ submission' = Submission(IF showChecked THEN "check" ELSE "uncheck")
    /\ UNCHANGED <<rowVars, planVars, muxChoices, showQueued, isShown, probes, landed, muxBusy,
                   queuedOps, rowEdits, choices>>

SubmitChecked ==
    /\ submission = Settled /\ submissions < MaxSubmissions
    /\ Eligible
    /\ submissions' = submissions + 1
    /\ submission' = Submission("keep")
    /\ UNCHANGED <<rowVars, planVars, muxChoices, checkVars, showQueued, isShown, sweepVars,
                   queuedOps, rowEdits, choices>>

\* The pool thread asks the gate again.
GateAgain ==
    /\ submission.stage = "gate"
    /\ submission' =
         IF Eligible
         THEN [submission EXCEPT !.stage = "plan", !.chosen = Relevant,
                                 !.todo = PendingOf(rows)]
         ELSE [submission EXCEPT !.stage = "done"]
    /\ UNCHANGED <<rowVars, planVars, muxChoices, checkVars, showQueued, isShown, sweepVars,
                   queuedOps, queueBounds>>

\* ensure_state_plans, one row after the other: every plan the user did not
\* edit is made afresh from the file of its row.
PlanNext(readable, outcome) ==
    /\ submission.stage = "plan" /\ submission.todo # {}
    /\ submission' = [submission EXCEPT !.todo = @ \ {First(@)}]
    /\ LET i == First(submission.todo)
       IN  IF KeepsUserPlan(i) \/ (muxOff /\ ~IsMerge(i))
           THEN UNCHANGED planVars
           ELSE IF IsMerge(i) THEN PlanMerge(i, rows[i], outcome)
           ELSE /\ plans' = [plans EXCEPT ![i] =
                               IF readable /\ rows[i].file \in Muxable
                               THEN PlanFor(rows[i].file, rows[i]) ELSE NoPlan]
                /\ probeErrors' = IF readable THEN probeErrors \ {i} ELSE probeErrors \cup {i}
                /\ UNCHANGED gateErrors
    /\ UNCHANGED <<rowVars, muxChoices, checkVars, showQueued, isShown, sweepVars,
                   queuedOps, queueBounds>>

\* effective_mux_plans
BakePlans ==
    /\ submission.stage = "plan" /\ submission.todo = {}
    /\ submission' = [submission EXCEPT !.stage = "build",
                        !.baked = [i \in Indices |-> IF i \in DOMAIN rows /\ MuxActive(i)
                                                     THEN plans[i] ELSE NoPlan]]
    /\ UNCHANGED <<rowVars, planVars, muxChoices, checkVars, showQueued, isShown, sweepVars,
                   queuedOps, queueBounds>>

\* _build_rename_ops.  A row with no rename and no plan has no operation; a
\* merge row without its append plan has none either, never a rename of part 1.
HasOp(i) ==
    /\ ActionableRow(rows[i]) \/ submission.baked[i] # NoPlan
    /\ IsMerge(i) => submission.baked[i].append

OpOf(i) ==
    LET plan == submission.baked[i]
    IN  [file |-> rows[i].file, kind |-> rows[i].kind, row |-> rows[i].name,
         name |-> IF plan = NoPlan THEN rows[i].name ELSE plan.name,
         tracks |-> plan.of, append |-> plan.append, selected |-> i \in submission.chosen]

\* The job is built and added, and the worker marks the show queued; a store that
\* refuses (DuplicateJobError) or fails leaves the show as it was.
AddJob(added) ==
    /\ submission.stage = "build"
    /\ IF added
       THEN queuedOps' = [i \in {j \in DOMAIN rows : HasOp(j)} |-> OpOf(i)] /\ showQueued' = TRUE
       ELSE UNCHANGED <<queuedOps, showQueued>>
    /\ submission' = [submission EXCEPT !.stage = "done"]
    /\ UNCHANGED <<rowVars, planVars, muxChoices, checkVars, isShown, sweepVars,
                   queueBounds>>

\* _on_finished on the GUI thread: sync, refresh, and undo our own check when
\* the show was not queued.
SettleSubmission ==
    /\ submission.stage = "done"
    /\ submission' = Settled
    /\ LET view == Normalized(Approvable, Relevant, rows)
       IN  IF submission.undo = "uncheck" /\ ~showQueued
           THEN /\ showChecked' = FALSE
                /\ checks' = [i \in Indices |-> IF i \in DOMAIN rows THEN "no" ELSE checks[i]]
           ELSE /\ checks' = view.checks
                /\ showChecked' = (view.flag \/ (submission.undo = "check" /\ ~showQueued))
    /\ isShown' = isShown
    /\ Warm(PendingItems)
    /\ UNCHANGED <<rowVars, planVars, muxChoices, showQueued, landed, muxBusy, queuedOps,
                   queueBounds>>

\* The user takes the job out of the queue again.
Unqueue ==
    /\ submission = Settled /\ showQueued
    /\ showQueued' = FALSE /\ queuedOps' = NoJob
    /\ UNCHANGED <<rowVars, planVars, muxChoices, checkVars, isShown, sweepVars, submission,
                   queueBounds>>

-----------------------------------------------------------------------------
QueueingInit ==
    /\ rows \in Projections
    /\ plans = [i \in Indices |-> NoPlan]
    /\ probeErrors = {} /\ gateErrors = {} /\ optOuts = {} /\ muxOff = FALSE
    /\ showChecked = ApprovableList(rows)
    /\ checks = [i \in Indices |->
                    IF i \in DOMAIN rows /\ ApprovableList(rows)
                    THEN IF i \in RelevantOf(rows) THEN "yes" ELSE "no"
                    ELSE "unbound"]
    /\ showQueued = FALSE /\ showScanning = FALSE /\ isShown = FALSE
    /\ probes = {} /\ landed = <<>> /\ warm = {} /\ sweeping = 0 /\ idleSweeps = 0
    /\ muxBusy = FALSE
    /\ submission = Settled /\ queuedOps = NoJob
    /\ rowEdits = 0 /\ submissions = 0 /\ choices = 0

UserQueueStep ==
    \/ \E list \in Projections, approving \in BOOLEAN : EditMapping(list, approving)
    \/ StartRescan \/ SelectShow \/ ToggleCheck \/ ToggleAutoMux
    \/ \E i \in Indices : ToggleOptOut(i) \/ EditPlan(i)
    \/ SubmitSelected \/ SubmitChecked \/ Unqueue

ProbeStep ==
    \/ \E p \in probes : StartProbe(p)
    \/ \E p \in probes, readable \in BOOLEAN : FinishProbe(p, readable)
    \/ \E p \in probes, outcome \in MergeOutcomes : FinishParts(p, outcome)
    \/ ShowPlan \/ LeaveSweep \/ TakeNext \/ SetExecutorBusy

SubmissionStep ==
    \/ GateAgain \/ BakePlans \/ SettleSubmission
    \/ \E added \in BOOLEAN : AddJob(added)
    \/ \E readable \in BOOLEAN, outcome \in MergeOutcomes : PlanNext(readable, outcome)

QueueingNext ==
    \/ UserQueueStep \/ ProbeStep \/ SubmissionStep
    \/ \E list \in Projections : ScanLands(list)

QueueingSpec == QueueingInit /\ [][QueueingNext]_queueingVars

-----------------------------------------------------------------------------
(* What must hold.                                                           *)

PlanRecords == [of : FilesOf, name : NamesOf, append : BOOLEAN, mine : BOOLEAN] \cup {NoPlan}

\* Everything has its type; a sweep worker is counted as long as it lives, and
\* every reserved slot has one probe.
QueueingTypeOK ==
    /\ rows \in RowLists
    /\ plans \in [Indices -> PlanRecords]
    /\ probeErrors \cup gateErrors \cup optOuts \subseteq Indices
    /\ checks \in [Indices -> {"unbound", "yes", "no"}]
    /\ sweeping = idleSweeps + Cardinality({p \in probes : p.by = "sweep"})
    /\ \A p, q \in probes : p.index = q.index => p = q
    /\ submission.stage \in {"none", "gate", "plan", "build", "done"}

\* Items waiting in the warm queue always have a live worker that will look at
\* the queue again: no interleaving of a refill with workers that are leaving
\* strands a freshly filled queue, and a running job leaves one worker.
SweepServed ==
    warm # {} => idleSweeps + Cardinality({p \in probes : p.by = "sweep"}) > 0

\* A merge row is queued with an append plan or not at all: when its parts
\* cannot be read or appended it is left out, never renamed as part 1 alone.
MergesQueuedWhole ==
    \A i \in DOMAIN queuedOps :
        queuedOps[i].kind = "merge" => queuedOps[i].append

\* AutoMux session state "resets on rescan" and its keys are preview-item
\* indices: with no probe under way, a cached plan was made from the file of
\* the row it is kept under and carries that row's name.
\* It does not hold; the README tells how.
PlansBelongToRows ==
    probes = {} /\ landed = <<>> =>
        \A i \in DOMAIN rows :
            plans[i] # NoPlan => plans[i].of = rows[i].file /\ plans[i].name = rows[i].name

=============================================================================
