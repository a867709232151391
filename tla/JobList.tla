------------------------------- MODULE JobList -------------------------------
(***************************************************************************)
(* The Queue and the History tab: one table, with its check boxes, its     *)
(* filter and its focused row, and the detail panel beside it              *)
(* (gui_qt/widgets/_job_list_tab.py, queue_tab.py, history_tab.py,         *)
(* job_detail_panel.py and models/job_table_model.py).                     *)
(*                                                                         *)
(* The table shows a copy of the store's rows, taken at its last refresh.  *)
(* Jobs are added, started and ended by other threads meanwhile, and their *)
(* notifications reach the tab later, also while a question to the user is *)
(* open.  Posters and remux progress come late as well, for whichever job  *)
(* they were asked of.                                                     *)
(*                                                                         *)
(* Which row comes first depends on the order the user sorts by, and is    *)
(* left open.  What a row says is left out; the preview of a job's files   *)
(* is kept as far as which file stands where.                              *)
(***************************************************************************)
EXTENDS Naturals, FiniteSets

CONSTANTS
    Jobs,      \* job ids
    NoJob,     \* no row
    FilesOf    \* job -> the operations its preview shows, see JobPreview below

VARIABLES
    history,     \* this is the History tab
    status,      \* job -> its status in the store
    shown,       \* job -> its status at the last refresh, "absent" unless listed
    filter,      \* the statuses the proxy model lets through
    checked,     \* JobTableModel._checked_job_ids
    focus,       \* the current row
    detail,      \* the job of the detail panel, whose progress and whose poster it shows
    banner,      \* _pending_revert_job_ids, empty while the banner is hidden
    ask,         \* the question that is open, with the jobs it is about
    notified,    \* a change was announced and the table is not refreshed yet
    late         \* posters and progress on their way: <<what, job>>

listVars == <<history, status, shown, filter, checked, focus, detail, banner, ask, notified, late>>

Open     == {"pending", "running"}
\* A job that deleted its sources is "no_fear" here: completed, and irreversible.
Ended    == {"completed", "no_fear", "failed", "reverted", "revert_failed"}
Filters  == IF history THEN {Ended, {"completed", "no_fear"}, {"failed"}, {"reverted"}, {"revert_failed"}}
                       ELSE {Open, {"pending"}, {"running"}}
NoAnswer == [do |-> "nothing", jobs |-> {}]

Listed(st)    == IF st \in (IF history THEN Ended ELSE Open) THEN st ELSE "absent"
Visible(s, f) == {j \in Jobs : s[j] \in f}
Checkable(s)  == {j \in Jobs : s[j] = IF history THEN "completed" ELSE "pending"}
\* What the buttons take for revertible, irreversible jobs included.
Revertible(s) == {j \in Jobs : s[j] \in {"completed", "no_fear"}}

DetailOf(j) == [job |-> j, progress |-> NoJob, poster |-> NoJob]

ListInit ==
    /\ history \in BOOLEAN
    /\ status \in [Jobs -> IF history THEN {"completed", "no_fear", "failed", "running"}
                                      ELSE {"absent", "pending", "running"}]
    /\ shown = [j \in Jobs |-> Listed(status[j])]
    /\ filter = IF history THEN Ended ELSE Open
    /\ checked = {} /\ banner = {} /\ ask = NoAnswer
    /\ focus = NoJob /\ detail = DetailOf(NoJob)
    /\ notified = TRUE /\ late = {}

-----------------------------------------------------------------------------
(* The preview of a job's files.  An operation is                          *)
(*   [file, video, season, folder, stem, fits]:                            *)
(* season 0 stands for none, stem is the length of its new stem, and fits  *)
(* the videos of which that stem begins its new name.                      *)

Videos(ops) == {o \in ops : o.video}

\* The videos a companion may be shown under: in the same folder, the longest
\* stem.  Of videos with one stem it is the first in the job's list, which is
\* left open.
Hosts(ops, o) ==
    LET fitting == {v \in Videos(ops) : v.file \in o.fits /\ v.folder = o.folder}
    IN  {v \in fitting : \A u \in fitting : u.stem <= v.stem}

Host(ops, o) == CHOOSE v \in Hosts(ops, o) : TRUE

\* Rows as <<group, video, file>>, video = file for a row of its own.  Videos
\* are grouped by season, once one of them has a season; companions without a
\* video have a group of their own, {}.
JobPreview(ops) ==
    LET group(v) == IF \E u \in Videos(ops) : u.season > 0 THEN {v.season} ELSE {0}
    IN  {<<group(v), v.file, v.file>> : v \in Videos(ops)}
        \cup {IF Hosts(ops, o) = {} THEN <<{}, o.file, o.file>>
              ELSE <<group(Host(ops, o)), Host(ops, o).file, o.file>> : o \in ops \ Videos(ops)}

-----------------------------------------------------------------------------
(* The parts every change of the list ends with. *)

\* _update_job_controls: the banner goes when the checked jobs are no longer
\* the ones it asks about, and the panel is filled afresh from the focused row.
Controls ==
    /\ banner' = IF banner # checked' THEN {} ELSE banner
    /\ detail' = DetailOf(focus')
    /\ late' = late \cup ({<<"poster", focus'>>} \ {<<"poster", NoJob>>})

\* Mutant: the checks of rows that can no longer be checked are kept.
ResetToKeepingChecks(s) ==
    /\ shown' = [j \in Jobs |-> Listed(s[j])]
    /\ checked' = checked
    /\ IF Visible(shown', filter') = {} THEN focus' = NoJob ELSE focus' \in Visible(shown', filter')

\* set_jobs: a reset of the model keeps the checks that are still possible and
\* drops the current row; the first visible one becomes current instead.
ResetTo(s) ==
    /\ shown' = [j \in Jobs |-> Listed(s[j])]
    /\ checked' = checked \cap Checkable(shown')
    /\ IF Visible(shown', filter') = {} THEN focus' = NoJob ELSE focus' \in Visible(shown', filter')

\* The banner keeps the jobs still in the history.
Refresh ==
    /\ ResetTo(status')
    /\ LET kept == {j \in banner : shown'[j] # "absent"}
       IN  banner' = IF kept # checked' THEN {} ELSE kept
    /\ detail' = DetailOf(focus')
    /\ late' = late \cup ({<<"poster", focus'>>} \ {<<"poster", NoJob>>})

-----------------------------------------------------------------------------
(* The rows. *)

Asked == ask # NoAnswer

CheckRows(jobs) ==
    /\ checked' = jobs
    /\ UNCHANGED focus
    /\ Controls
    /\ UNCHANGED <<history, status, shown, filter, ask, notified>>

ToggleRow(j) ==
    /\ ~Asked
    /\ j \in Visible(shown, filter) \cap Checkable(shown)
    /\ CheckRows(IF j \in checked THEN checked \ {j} ELSE checked \cup {j})

\* The box of the header is checked when every row that can be is.
MasterCheck ==
    LET rows == Visible(shown, filter) \cap Checkable(shown)
    IN  /\ ~Asked
        /\ rows # {}
        /\ CheckRows(IF rows \subseteq checked THEN {} ELSE checked \cup rows)

\* A click, the context menu, or Show in History, which does nothing for a
\* job the filter hides.
FocusRow(j) ==
    /\ ~Asked
    /\ j \in Visible(shown, filter) /\ focus # j
    /\ focus' = j
    /\ UNCHANGED checked
    /\ Controls
    /\ UNCHANGED <<history, status, shown, filter, ask, notified>>

VisibleChecks(f) == checked \cap Visible(shown, f)

ApplyFilter(f) ==
    /\ ~Asked
    /\ f \in Filters \ {filter}
    /\ filter' = f
    /\ shown' = [j \in Jobs |-> Listed(status[j])]
    /\ checked' = VisibleChecks(f) \cap Checkable(shown')
    /\ IF Visible(shown', f) = {} THEN focus' = NoJob ELSE focus' \in Visible(shown', f)
    /\ Controls
    /\ UNCHANGED <<history, status, ask, notified>>

\* Switching to the tab unchecks everything and refreshes.
ShowTab ==
    /\ ~Asked
    /\ checked # {}
    /\ shown' = [j \in Jobs |-> Listed(status[j])]
    /\ checked' = {}
    /\ IF Visible(shown', filter) = {} THEN focus' = NoJob ELSE focus' \in Visible(shown', filter)
    /\ Controls
    /\ UNCHANGED <<history, status, filter, ask, notified>>

-----------------------------------------------------------------------------
(* The Queue tab's commands.  A question names the jobs that are checked or *)
(* focused when it is put; the answer acts on those, whatever the table     *)
(* shows by then, and the store decides again which of them are pending.    *)

AskAbout(do, jobs) ==
    /\ ~history /\ ~Asked
    /\ jobs \cap Checkable(shown) # {}
    /\ ask' = [do |-> do, jobs |-> jobs \cap Checkable(shown)]
    /\ UNCHANGED <<history, status, shown, filter, checked, focus, detail, banner, notified, late>>

AskCommand ==
    \/ AskAbout("remove", checked)
    \/ AskAbout("run", checked)
    \/ AskAbout("run", {focus})

\* A single run executes here and now, one job after the other.
Answer ==
    /\ Asked
    /\ LET jobs == {j \in ask.jobs : status[j] = "pending"}
       IN  \/ /\ ask.do = "remove"
              /\ status' = [j \in Jobs |-> IF j \in jobs THEN "absent" ELSE status[j]]
           \/ /\ ask.do = "run"
              /\ \E good \in SUBSET jobs :
                    status' = [j \in Jobs |-> IF j \in good THEN "completed"
                                              ELSE IF j \in jobs THEN "failed" ELSE status[j]]
    /\ ask' = NoAnswer
    /\ UNCHANGED <<history, filter, notified>>
    /\ Refresh

Decline ==
    /\ Asked
    /\ ask' = NoAnswer
    /\ UNCHANGED <<history, status, shown, filter, checked, focus, detail, banner, notified, late>>

-----------------------------------------------------------------------------
(* The History tab's revert, confirmed in a banner the rest stays usable beside. *)

RevertSelected ==
    /\ history
    /\ checked \cap Revertible(shown) # {}
    /\ banner' = checked \cap Revertible(shown)
    /\ UNCHANGED <<history, status, shown, filter, checked, focus, detail, ask, notified, late>>

CancelRevert ==
    /\ banner # {}
    /\ banner' = {}
    /\ UNCHANGED <<history, status, shown, filter, checked, focus, detail, ask, notified, late>>

ConfirmRevert ==
    /\ banner # {}
    /\ \E good \in SUBSET (banner \cap Revertible(status)) :
          status' = [j \in Jobs |-> IF j \in good THEN "reverted"
                                    ELSE IF j \in banner \cap Revertible(status) THEN "revert_failed"
                                    ELSE status[j]]
    /\ UNCHANGED <<history, filter, ask, notified>>
    /\ ResetTo(status')
    /\ banner' = {}
    /\ detail' = DetailOf(focus')
    /\ late' = late \cup ({<<"poster", focus'>>} \ {<<"poster", NoJob>>})

\* The menu's Clear History, whose rows go at once.
ClearHistory ==
    /\ history /\ ~Asked
    /\ \E j \in Jobs : status[j] \in Ended
    /\ status' = [j \in Jobs |-> IF status[j] \in Ended THEN "absent" ELSE status[j]]
    /\ UNCHANGED <<history, filter, ask, notified>>
    /\ Refresh

-----------------------------------------------------------------------------
(* Other threads, and what comes late. *)

Announce(j, st) ==
    /\ status' = [status EXCEPT ![j] = st]
    /\ notified' = TRUE
    /\ UNCHANGED <<history, shown, filter, checked, focus, detail, banner, ask>>

Submit(j)   == ~history /\ status[j] = "absent" /\ Announce(j, "pending") /\ UNCHANGED late
StartJob(j) == status[j] = "pending" /\ Announce(j, "running") /\ UNCHANGED late
EndJob(j)   == /\ status[j] = "running"
               /\ \E st \in {"completed", "no_fear", "failed"} : Announce(j, st)
               /\ UNCHANGED late

\* The debounced change signal of the bridge.
Changed ==
    /\ notified
    /\ notified' = FALSE
    /\ UNCHANGED <<history, status, filter, ask>>
    /\ Refresh

Progress(j) ==
    /\ ~history /\ status[j] = "running"
    /\ late' = late \cup {<<"progress", j>>}
    /\ UNCHANGED <<history, status, shown, filter, checked, focus, detail, banner, ask, notified>>

IsCurrent(j) == j = detail.job

ShowLate ==
    \E l \in late :
        /\ late' = late \ {l}
        /\ detail' = IF IsCurrent(l[2]) THEN [detail EXCEPT ![l[1]] = l[2]] ELSE detail
        /\ UNCHANGED <<history, status, shown, filter, checked, focus, banner, ask, notified>>

ListNext ==
    \/ \E j \in Jobs : \/ ToggleRow(j) \/ FocusRow(j)
                       \/ Submit(j) \/ StartJob(j) \/ EndJob(j) \/ Progress(j)
    \/ MasterCheck \/ ShowTab \/ (\E f \in Filters : ApplyFilter(f))
    \/ AskCommand \/ Answer \/ Decline
    \/ RevertSelected \/ CancelRevert \/ ConfirmRevert \/ ClearHistory
    \/ Changed \/ ShowLate

ListSpec == ListInit /\ [][ListNext]_listVars

-----------------------------------------------------------------------------
\* What is checked can be seen and can be acted on, and the revert banner
\* asks about exactly the jobs that are checked: rows that end, vanish or are
\* filtered out while a question or the banner is open take their check, and
\* the banner, with them.
ChecksAndBannerAgree ==
    /\ checked \subseteq Visible(shown, filter) \cap Checkable(shown)
    /\ banner # {} => banner = checked

\* The panel describes the focused row: a poster or a progress report that
\* comes after the focus has moved on is not shown for another job.
DetailIsOfFocused ==
    /\ detail.job = focus
    /\ {detail.poster, detail.progress} \subseteq {focus, NoJob}

\* The preview of a job shows each of its files once.
PreviewTellsEachFileOnce ==
    detail.job # NoJob =>
        \A o \in FilesOf[detail.job] :
            Cardinality({row \in JobPreview(FilesOf[detail.job]) : row[3] = o.file}) = 1

\* A refresh leaves the focus where it is while that row is still there, so
\* that Run This Job means the job the user chose.  It does not.
RefreshKeepsFocus ==
    [][(Changed /\ focus \in Visible(shown', filter)) => focus' = focus]_listVars
=============================================================================
