------------------------------ MODULE JobQueue ------------------------------
(***************************************************************************)
(* The job queue at work: the store (JobStore), the QueueExecutor that     *)
(* takes jobs from it (plex_renamer/job_executor.py), the GUI thread that  *)
(* starts and stops it, runs single jobs, removes, moves, reverts and      *)
(* clears jobs (queue_tab.py, history_tab.py), the pool threads that       *)
(* submit jobs, the file system the jobs move files in, and the process    *)
(* that can die at any point and recover at its next start.                *)
(*                                                                         *)
(* Two threads can be inside QueueExecutor._execute_one: the worker and    *)
(* the GUI thread (execute_single_job).  Each is a program counter over    *)
(* the steps between two transactions or file-system effects.              *)
(***************************************************************************)
EXTENDS JobStore

CONSTANTS
    LosableFiles,    \* files something outside the program may delete
    MaxCrashes,      \* bound on the number of process deaths
    GuardSingle      \* TRUE: callers obey execute_single_job's docstring and
                     \* never call it while the background worker is running

ASSUME QueueAssumption ==
    /\ LosableFiles \subseteq Files
    /\ MaxCrashes \in Nat
    /\ GuardSingle \in BOOLEAN

Threads == {"worker", "gui"}

VARIABLES
    atSource,    \* job -> its files present in the source folder
    atTarget,    \* job -> its files present in the output folder
    running,     \* QueueExecutor._running
    stopEvent,   \* QueueExecutor._stop_event.is_set()
    pc,          \* thread -> where it is
    cur,         \* thread -> the job it works on
    todo,        \* thread -> files it has still to process
    moved,       \* thread -> files it moved: result.log_entry / renamed_count
    errors,      \* thread -> result.errors (or revert errors) is not empty
    up,          \* the process is alive
    crashes      \* process deaths so far

fileVars   == <<atSource, atTarget>>
threadVars == <<pc, cur, todo, moved, errors>>
vars == <<storeVars, fileVars, running, stopEvent, threadVars, up, crashes>>

\* Inside _execute_one before the job is marked running, and after.
Entering  == {"validate", "reject", "mark"}
Executing == {"plan", "move", "persist", "complete", "fail"}
PcOf(t) == Entering \cup Executing \cup
           (IF t = "worker" THEN {"idle", "fetch", "exit"} ELSE {"idle", "revert"})

IdleThreads ==
    /\ pc     = [t \in Threads |-> "idle"]
    /\ cur    = [t \in Threads |-> NoJob]
    /\ todo   = [t \in Threads |-> {}]
    /\ moved  = [t \in Threads |-> {}]
    /\ errors = [t \in Threads |-> FALSE]

Init ==
    /\ StoreInit
    /\ atSource = [j \in Jobs |-> Files]
    /\ atTarget = [j \in Jobs |-> {}]
    /\ running = FALSE
    /\ stopEvent = FALSE
    /\ IdleThreads
    /\ up = TRUE
    /\ crashes = 0

Goto(t, label) == pc' = [pc EXCEPT ![t] = label]

\* _execute_one ends: the worker looks for the next job, a single run is over.
Finish(t) ==
    /\ pc'     = [pc EXCEPT ![t] = IF t = "worker" THEN "fetch" ELSE "idle"]
    /\ cur'    = [cur EXCEPT ![t] = NoJob]
    /\ todo'   = [todo EXCEPT ![t] = {}]
    /\ moved'  = [moved EXCEPT ![t] = {}]
    /\ errors' = [errors EXCEPT ![t] = FALSE]

(***************************************************************************)
(* The background worker's loop                                            *)
(***************************************************************************)
\* The stop event and the next pending job are read, then the loop ends or
\* goes on; an error of _execute_one ends it too (see MarkRejected).
Fetch ==
    /\ pc["worker"] = "fetch"
    /\ IF stopEvent \/ NothingToRun
          THEN Goto("worker", "exit") /\ UNCHANGED cur
          ELSE \E j \in Jobs :
                  /\ IsNextPending(j)
                  /\ cur' = [cur EXCEPT !["worker"] = j]
                  /\ Goto("worker", "validate")
    /\ UNCHANGED <<storeVars, fileVars, running, stopEvent, todo, moved, errors, up, crashes>>

\* Mutant: the finally block notifies but leaves _running set.
WorkerExitStillRunning ==
    /\ pc["worker"] = "exit"
    /\ Goto("worker", "idle")
    /\ UNCHANGED <<storeVars, fileVars, running, stopEvent, cur, todo, moved, errors, up, crashes>>

WorkerExit ==
    /\ pc["worker"] = "exit"
    /\ running' = FALSE
    /\ Goto("worker", "idle")
    /\ UNCHANGED <<storeVars, fileVars, stopEvent, cur, todo, moved, errors, up, crashes>>

(***************************************************************************)
(* _execute_one, one action per transaction or file                        *)
(***************************************************************************)
\* Sources missing altogether fail the job; a partial loss is only logged.
Validate(t) ==
    /\ pc[t] = "validate"
    /\ Goto(t, IF atSource[cur[t]] = {} THEN "reject" ELSE "mark")
    /\ UNCHANGED <<storeVars, fileVars, running, stopEvent, cur, todo, moved, errors, up, crashes>>

Reject(t) ==
    /\ pc[t] = "reject"
    /\ UpdateStatus(cur[t], "failed")
    /\ Finish(t)
    /\ UNCHANGED <<fileVars, running, stopEvent, up, crashes>>

MarkRunning(t) ==
    /\ pc[t] = "mark"
    /\ UpdateStatus(cur[t], "running")
    /\ Goto(t, "plan")
    /\ UNCHANGED <<fileVars, running, stopEvent, cur, todo, moved, errors, up, crashes>>

\* The dedup index refuses the UPDATE: the IntegrityError is raised outside
\* _execute_one's try block, so it ends the worker loop or the GUI's call.
MarkRejected(t) ==
    /\ pc[t] = "mark"
    /\ StatusRejected(cur[t], "running")
    /\ pc'  = [pc EXCEPT ![t] = IF t = "worker" THEN "exit" ELSE "idle"]
    /\ cur' = [cur EXCEPT ![t] = NoJob]
    /\ UNCHANGED <<storeVars, fileVars, running, stopEvent, todo, moved, errors, up, crashes>>

\* A rename job moves all its files or, when a source is missing, none of
\* them (the error list is checked before apply_rename_plan).  A remux job
\* takes its files one by one.
Plan(t) ==
    LET j == cur[t]
        aborted == KindOf[j] = "rename" /\ atSource[j] # Files
    IN  /\ pc[t] = "plan"
        /\ todo'   = [todo EXCEPT ![t] = IF aborted THEN {} ELSE Files]
        /\ errors' = [errors EXCEPT ![t] = aborted]
        /\ Goto(t, "move")
        /\ UNCHANGED <<storeVars, fileVars, running, stopEvent, cur, moved, up, crashes>>

\* A file is processed: shutil.move for a rename, mkvmerge and os.replace for
\* a remux, whose source stays and whose output must not exist yet.
MoveFile(t, f) ==
    LET j == cur[t]
    IN  /\ pc[t] = "move" /\ f \in todo[t]
        /\ f \in atSource[j]
        /\ KindOf[j] = "remux" => f \notin atTarget[j]
        /\ atTarget' = [atTarget EXCEPT ![j] = @ \cup {f}]
        /\ atSource' = [atSource EXCEPT ![j] = IF KindOf[j] = "rename" THEN @ \ {f} ELSE @]
        /\ moved' = [moved EXCEPT ![t] = @ \cup {f}]
        /\ todo'  = [todo EXCEPT ![t] = @ \ {f}]
        /\ UNCHANGED <<storeVars, running, stopEvent, pc, cur, errors, up, crashes>>

\* The file is gone, the output exists, or the operating system or mkvmerge
\* fails: one more entry in result.errors.
FileError(t, f) ==
    /\ pc[t] = "move" /\ f \in todo[t]
    /\ todo'   = [todo EXCEPT ![t] = @ \ {f}]
    /\ errors' = [errors EXCEPT ![t] = TRUE]
    /\ UNCHANGED <<storeVars, fileVars, running, stopEvent, pc, cur, moved, up, crashes>>

\* An exception that no per-file handler catches (os.replace or a store call
\* between two remux ops): the result, with what was moved, is dropped.
Raise(t) ==
    /\ pc[t] = "move" /\ todo[t] # {} /\ KindOf[cur[t]] = "remux"
    /\ Goto(t, "fail")
    /\ UNCHANGED <<storeVars, fileVars, running, stopEvent, cur, todo, moved, errors, up, crashes>>

\* result.errors and result.renamed_count == 0 decides between the two ends.
MovesDone(t) ==
    /\ pc[t] = "move" /\ todo[t] = {}
    /\ Goto(t, IF errors[t] /\ moved[t] = {} THEN "fail" ELSE "persist")
    /\ UNCHANGED <<storeVars, fileVars, running, stopEvent, cur, todo, moved, errors, up, crashes>>

\* Mutant: the undo data is stored on the branch without errors only.
PersistUndoWhenClean(t) ==
    /\ pc[t] = "persist"
    /\ IF errors[t] THEN UNCHANGED storeVars ELSE SetUndoData(cur[t], moved[t])
    /\ Goto(t, "complete")
    /\ UNCHANGED <<fileVars, running, stopEvent, cur, todo, moved, errors, up, crashes>>

\* set_undo_data and update_status(COMPLETED) are two transactions.
PersistUndo(t) ==
    /\ pc[t] = "persist"
    /\ SetUndoData(cur[t], moved[t])
    /\ Goto(t, "complete")
    /\ UNCHANGED <<fileVars, running, stopEvent, cur, todo, moved, errors, up, crashes>>

Complete(t) ==
    /\ pc[t] = "complete"
    /\ UpdateStatus(cur[t], "completed")
    /\ Finish(t)
    /\ UNCHANGED <<fileVars, running, stopEvent, up, crashes>>

Fail(t) ==
    /\ pc[t] = "fail"
    /\ UpdateStatus(cur[t], "failed")
    /\ Finish(t)
    /\ UNCHANGED <<fileVars, running, stopEvent, up, crashes>>

(***************************************************************************)
(* The user, on the GUI thread (blocked while it runs or reverts a job)    *)
(***************************************************************************)
UserReady == up /\ pc["gui"] = "idle"

\* _toggle_queue: stop when running, else start.
Start ==
    /\ UserReady /\ ~running
    /\ stopEvent' = FALSE
    /\ running' = TRUE
    /\ Goto("worker", "fetch")
    /\ UNCHANGED <<storeVars, fileVars, cur, todo, moved, errors, up, crashes>>

Stop ==
    /\ UserReady /\ running
    /\ stopEvent' = TRUE
    /\ UNCHANGED <<storeVars, fileVars, running, threadVars, up, crashes>>

\* Mutant: any job that has a row is run, its status is not looked at.
RunSelectedAnyStatus(j) ==
    /\ UserReady
    /\ GuardSingle => ~running
    /\ HasRow(j)
    /\ cur' = [cur EXCEPT !["gui"] = j]
    /\ Goto("gui", "validate")
    /\ UNCHANGED <<storeVars, fileVars, running, stopEvent, todo, moved, errors, up, crashes>>

\* Run Selected / Run This Job -> execute_single_job: get_job, then execute.
RunSelected(j) ==
    /\ UserReady
    /\ GuardSingle => ~running
    /\ status[j] = "pending"
    /\ cur' = [cur EXCEPT !["gui"] = j]
    /\ Goto("gui", "validate")
    /\ UNCHANGED <<storeVars, fileVars, running, stopEvent, todo, moved, errors, up, crashes>>

RemoveSelected(S) ==
    /\ UserReady
    /\ RemoveJobs(S)
    /\ UNCHANGED <<fileVars, running, stopEvent, threadVars, up, crashes>>

MoveToTop(S) ==
    /\ UserReady
    /\ MoveJobsToTop(S)
    /\ UNCHANGED <<fileVars, running, stopEvent, threadVars, up, crashes>>

ClearJobHistory ==
    /\ UserReady
    /\ ClearHistory
    /\ UNCHANGED <<fileVars, running, stopEvent, threadVars, up, crashes>>

\* History offers a revert for completed jobs with undo data only.
BeginRevert(j) ==
    /\ UserReady
    /\ status[j] = "completed" /\ undo[j] # NoUndo
    /\ Goto("gui", "revert")
    /\ cur'  = [cur EXCEPT !["gui"] = j]
    /\ todo' = [todo EXCEPT !["gui"] = undo[j]]
    /\ UNCHANGED <<storeVars, fileVars, running, stopEvent, moved, errors, up, crashes>>

\* restore_files moves a renamed file back; remove_generated_outputs deletes a
\* remux output.  Either may fail; a missing renamed file is an error, a
\* missing remux output is not.
RevertFile(f) ==
    LET j == cur["gui"]
    IN  /\ pc["gui"] = "revert" /\ f \in todo["gui"]
        /\ todo' = [todo EXCEPT !["gui"] = @ \ {f}]
        /\ \/ /\ f \in atTarget[j]
              /\ atTarget' = [atTarget EXCEPT ![j] = @ \ {f}]
              /\ atSource' = [atSource EXCEPT ![j] = IF KindOf[j] = "rename" THEN @ \cup {f} ELSE @]
              /\ UNCHANGED errors
           \/ /\ errors' = [errors EXCEPT !["gui"] = @ \/ f \in atTarget[j] \/ KindOf[j] = "rename"]
              /\ UNCHANGED fileVars
        /\ UNCHANGED <<storeVars, running, stopEvent, pc, cur, moved, up, crashes>>

EndRevert ==
    /\ pc["gui"] = "revert" /\ todo["gui"] = {}
    /\ UpdateStatus(cur["gui"], IF errors["gui"] THEN "revert_failed" ELSE "reverted")
    /\ Finish("gui")
    /\ UNCHANGED <<fileVars, running, stopEvent, up, crashes>>

(***************************************************************************)
(* Other threads, the environment and the process                          *)
(***************************************************************************)
\* add_tv_batch_jobs / add_movie_batch_jobs on a pool thread.
Submit(j) ==
    /\ up
    /\ AddJob(j)
    /\ UNCHANGED <<fileVars, running, stopEvent, threadVars, up, crashes>>

SourceLost(j, f) ==
    /\ f \in LosableFiles \cap atSource[j]
    /\ atSource' = [atSource EXCEPT ![j] = @ \ {f}]
    /\ UNCHANGED <<storeVars, atTarget, running, stopEvent, threadVars, up, crashes>>

\* The process dies, or is closed with the daemon worker still at work.
Crash ==
    /\ up /\ crashes < MaxCrashes
    /\ up' = FALSE
    /\ crashes' = crashes + 1
    /\ running' = FALSE
    /\ stopEvent' = FALSE
    /\ pc'     = [t \in Threads |-> "idle"]
    /\ cur'    = [t \in Threads |-> NoJob]
    /\ todo'   = [t \in Threads |-> {}]
    /\ moved'  = [t \in Threads |-> {}]
    /\ errors' = [t \in Threads |-> FALSE]
    /\ UNCHANGED <<storeVars, fileVars>>

\* JobStore.__init__ -> _init_db -> recover_interrupted.
Restart ==
    /\ ~up
    /\ RecoverInterrupted
    /\ up' = TRUE
    /\ UNCHANGED <<fileVars, running, stopEvent, threadVars, crashes>>

ExecuteStep(t) ==
    \/ Validate(t)
    \/ Reject(t)
    \/ MarkRunning(t)
    \/ MarkRejected(t)
    \/ Plan(t)
    \/ \E f \in Files : MoveFile(t, f)
    \/ \E f \in Files : FileError(t, f)
    \/ Raise(t)
    \/ MovesDone(t)
    \/ PersistUndo(t)
    \/ Complete(t)
    \/ Fail(t)

UserStep ==
    \/ Start
    \/ Stop
    \/ \E j \in Jobs : RunSelected(j)
    \/ \E S \in SUBSET Jobs : RemoveSelected(S)
    \/ \E S \in SUBSET Jobs : MoveToTop(S)
    \/ ClearJobHistory
    \/ \E j \in Jobs : BeginRevert(j)

RevertStep ==
    \/ \E f \in Files : RevertFile(f)
    \/ EndRevert

Next ==
    \/ Fetch
    \/ WorkerExit
    \/ \E t \in Threads : ExecuteStep(t)
    \/ UserStep
    \/ RevertStep
    \/ \E j \in Jobs : Submit(j)
    \/ \E j \in Jobs, f \in Files : SourceLost(j, f)
    \/ Crash
    \/ Restart

Spec == Init /\ [][Next]_vars

(***************************************************************************)
(* A live thread keeps executing: Python schedules the worker, and the GUI *)
(* thread is inside one call until it returns.  Nothing is assumed of the  *)
(* user, of submissions or of crashes.                                     *)
(***************************************************************************)
Fairness ==
    /\ WF_vars(Fetch)
    /\ WF_vars(WorkerExit)
    /\ \A t \in Threads : WF_vars(ExecuteStep(t))
    /\ WF_vars(RevertStep)

FairSpec == Spec /\ Fairness

(***************************************************************************)
(* Properties                                                              *)
(***************************************************************************)
\* Type invariant.
TypeOK ==
    /\ StoreTypeOK
    /\ atSource \in [Jobs -> SUBSET Files]
    /\ atTarget \in [Jobs -> SUBSET Files]
    /\ running \in BOOLEAN
    /\ stopEvent \in BOOLEAN
    /\ pc \in [Threads -> PcOf("worker") \cup PcOf("gui")]
    /\ \A t \in Threads : pc[t] \in PcOf(t)
    /\ cur \in [Threads -> Jobs \cup {NoJob}]
    /\ \A t \in Threads : pc[t] \notin {"idle", "fetch", "exit"} => cur[t] \in Jobs
    /\ todo \in [Threads -> SUBSET Files]
    /\ moved \in [Threads -> SUBSET Files]
    /\ errors \in [Threads -> BOOLEAN]
    /\ up \in BOOLEAN
    /\ crashes \in Nat

\* The worker thread lives exactly while is_running says so, a dead process has
\* no threads, and when callers respect the docstring one thread executes at a
\* time.  (A revert on the GUI thread may overlap the worker.)
ThreadsExclusive ==
    /\ running <=> pc["worker"] # "idle"
    /\ ~up => \A t \in Threads : pc[t] = "idle"
    /\ GuardSingle /\ pc["gui"] \in Entering \cup Executing => ~running

\* The row of the job a thread works on says where the thread is: nothing but
\* the user deleting a pending row comes between reading a job and marking it,
\* a running row stays, and a job under revert stays completed.
RowFollowsThread ==
    GuardSingle => \A t \in Threads :
       /\ pc[t] \in Entering  => status[cur[t]] \in {"pending", "deleted"}
       /\ pc[t] \in Executing => status[cur[t]] \in {"running", "deleted"}
       /\ pc[t] = "revert"    => status[cur[t]] = "completed"

\* A row is "running" only while a live thread executes that very job: after a
\* crash and a restart, an exception or a refused update, nothing is left
\* running that nobody will finish (recover_interrupted, _execute_one).
RunningHasOwner ==
    up => \A j \in Jobs : status[j] = "running" =>
             \E t \in Threads : cur[t] = j /\ pc[t] \in Executing

\* The threads, the rows and the flags agree: whatever the order of starts,
\* stops, single runs, removals and crashes, each thread's job has the row its
\* step needs, and each running row a thread (job_executor.py).
ThreadsOwnJobs == TypeOK /\ ThreadsExclusive /\ RowFollowsThread /\ RunningHasOwner

\* A completed job's undo data records every one of its files that is in the
\* output folder, whatever crash came between the moves, set_undo_data and
\* update_status: a completed job can always be reverted.
CompletedUndoCoversMoves ==
    \A j \in Jobs : status[j] = "completed" => undo[j] # NoUndo /\ atTarget[j] \subseteq undo[j]

\* A job is marked reverted only when none of its files is left in the output
\* folder and each renamed one is back (unless something else removed it),
\* also when an earlier attempt at the revert was cut short by a crash.
RevertedRestores ==
    \A j \in Jobs : status[j] = "reverted" =>
       /\ atTarget[j] = {}
       /\ KindOf[j] = "rename" => undo[j] \subseteq atSource[j] \cup LosableFiles

\* Short of a crash, files a rename job moved are recorded in its row once no
\* thread works on it any more: a "failed" job moved nothing.  A row the user
\* deleted is the exception.
MovesAreRecorded ==
    \A j \in Jobs :
       /\ crashes = 0 /\ KindOf[j] = "rename" /\ status[j] # "deleted"
       /\ \A t \in Threads : cur[t] # j
       => atTarget[j] \subseteq (IF undo[j] = NoUndo THEN {} ELSE undo[j])

\* What the rows say of the moves is what is on the disk: completed jobs can be
\* undone, reverted ones are, failed ones have nothing to undo
\* (_execute_one, revert_job).
UndoTellsTheMoves == CompletedUndoCoversMoves /\ RevertedRestores /\ MovesAreRecorded

\* The queue implements the job life cycle.
Lifecycle == INSTANCE JobLifecycle WITH state <- status
ImplementsLifecycle == Lifecycle!Spec

\* A stop request is honoured: the worker ends after the job it is on.
StopHonoured == (running /\ stopEvent) ~> ~running

\* A job the worker loop finds pending is not passed over for ever: it leaves
\* the pending state unless the queue is stopped or dies, or the job waits for
\* a prerequisite that has not completed.
PendingProcessed ==
    \A j \in Jobs :
       (pc["worker"] = "fetch" /\ status[j] = "pending")
          ~> (status[j] # "pending" \/ stopEvent \/ ~up \/ Blocked(j))
=============================================================================
