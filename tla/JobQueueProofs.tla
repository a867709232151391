--------------------------- MODULE JobQueueProofs ---------------------------
(***************************************************************************)
(* Theorems about JobQueue, for any number of jobs, files and crashes:     *)
(* type correctness, no orphaned running row and distinct positions        *)
(* whatever the callers do; one queued job per media entity, the job life  *)
(* cycle and undo data that tells of the moves when callers never run a    *)
(* single job while the worker runs.                                       *)
(***************************************************************************)
EXTENDS JobQueue, JobStoreProofs

(***************************************************************************)
(* Type correctness                                                        *)
(***************************************************************************)
\* The variables of the executor, apart from the store's.
ExecutorTypeOK ==
    /\ atSource \in [Jobs -> SUBSET Files]
    /\ atTarget \in [Jobs -> SUBSET Files]
    /\ running \in BOOLEAN
    /\ stopEvent \in BOOLEAN
    /\ pc \in [Threads -> PcOf("worker") \cup PcOf("gui")]
    /\ \A t \in Threads : pc[t] \in PcOf(t)
    /\ cur \in [Threads -> Jobs \cup {NoJob}]
    /\ \A t \in Threads : pc[t] \notin {"idle", "fetch", "exit"} => cur[t] \in Jobs
    /\ todo \in [Threads -> SUBSET Files]
    /\ moved \in [Threads -> SUBSET Files]
    /\ errors \in [Threads -> BOOLEAN]
    /\ up \in BOOLEAN
    /\ crashes \in Nat

LEMMA TypeSplit == TypeOK <=> StoreTypeOK /\ ExecutorTypeOK
BY DEF TypeOK, ExecutorTypeOK

\* A thread that is inside a job holds one.
LEMMA CurrentJob ==
    ASSUME TypeOK, NEW t \in Threads, pc[t] \in Entering \cup Executing \cup {"revert"}
    PROVE  cur[t] \in Jobs
BY DEF TypeOK, Entering, Executing

\* A process without threads at work, as it starts and after it died.
LEMMA IdleTypes ==
    /\ [t \in Threads |-> FALSE] \in [Threads -> BOOLEAN]
    /\ \A S, v : v \in S => [t \in Threads |-> v] \in [Threads -> S]
BY Zenon

LEMMA FinishKeepsType ==
    ASSUME ExecutorTypeOK, NEW t \in Threads, Finish(t),
           UNCHANGED <<fileVars, running, stopEvent, up, crashes>>
    PROVE  ExecutorTypeOK'
BY DEF ExecutorTypeOK, Finish, fileVars, Threads, PcOf

LEMMA InitType == Init => TypeOK
<1>1. StoreInit => StoreTypeOK
  BY StoreInitInv DEF StoreInv
<1>2. ASSUME Init PROVE ExecutorTypeOK
  <2>1. errors \in [Threads -> BOOLEAN]
    BY <1>2, IdleTypes DEF Init, IdleThreads
  <2>2. running \in BOOLEAN /\ stopEvent \in BOOLEAN /\ up \in BOOLEAN /\ crashes \in Nat
    BY <1>2 DEF Init
  <2>3. /\ atSource \in [Jobs -> SUBSET Files]
        /\ atTarget \in [Jobs -> SUBSET Files]
        /\ cur \in [Threads -> Jobs \cup {NoJob}]
        /\ todo \in [Threads -> SUBSET Files]
        /\ moved \in [Threads -> SUBSET Files]
    BY <1>2 DEF Init, IdleThreads
  <2>4. /\ pc \in [Threads -> PcOf("worker") \cup PcOf("gui")]
        /\ \A t \in Threads : pc[t] \in PcOf(t)
        /\ \A t \in Threads : pc[t] \notin {"idle", "fetch", "exit"} => cur[t] \in Jobs
    BY <1>2 DEF Init, IdleThreads, PcOf, Threads
  <2> QED
    BY <2>1, <2>2, <2>3, <2>4, Zenon DEF ExecutorTypeOK
<1> QED
  BY <1>1, <1>2, TypeSplit DEF Init

\* Steps of the store inside the queue's steps keep the columns' types.
LEMMA StoreStepTypes ==
    ASSUME TypeOK, Next
    PROVE  StoreTypeOK'
<1> USE DEF Status, Queued, Terminal
<1>0. StoreTypeOK
  BY TypeSplit
<1>1. ASSUME UNCHANGED storeVars PROVE StoreTypeOK'
  BY <1>0, <1>1 DEF storeVars, StoreTypeOK
<1>2. ASSUME NEW t \in Threads, ExecuteStep(t) PROVE StoreTypeOK'
  <2>0. ASSUME pc[t] \in Entering \cup Executing PROVE cur[t] \in Jobs
    BY <2>0, CurrentJob
  <2>1. CASE Reject(t)
    BY <1>0, <2>0, <2>1, WritesKeepType DEF Reject, Entering
  <2>2. CASE MarkRunning(t)
    BY <1>0, <2>0, <2>2, WritesKeepType DEF MarkRunning, Entering
  <2>3. CASE PersistUndo(t)
    <3>1. moved[t] \in SUBSET Files
      BY DEF TypeOK
    <3> QED
      BY <1>0, <2>0, <2>3, <3>1, WritesKeepType DEF PersistUndo, Executing
  <2>4. CASE Complete(t)
    BY <1>0, <2>0, <2>4, WritesKeepType DEF Complete, Executing
  <2>5. CASE Fail(t)
    BY <1>0, <2>0, <2>5, WritesKeepType DEF Fail, Executing
  <2>6. CASE UNCHANGED storeVars
    BY <1>1, <2>6
  <2> QED
    BY <1>2, <2>1, <2>2, <2>3, <2>4, <2>5, <2>6
       DEF ExecuteStep, Validate, MarkRejected, Plan, MoveFile, FileError, Raise, MovesDone
<1>3. ASSUME UserStep PROVE StoreTypeOK'
  <2>1. ASSUME NEW S \in SUBSET Jobs, RemoveSelected(S) PROVE StoreTypeOK'
    BY <1>0, <2>1, WritesKeepType DEF RemoveSelected
  <2>2. ASSUME NEW S \in SUBSET Jobs, MoveToTop(S) PROVE StoreTypeOK'
    BY <1>0, <2>2, MovesKeepType DEF MoveToTop
  <2>3. CASE ClearJobHistory
    BY <1>0, <2>3, WritesKeepType DEF ClearJobHistory
  <2> QED
    BY <1>1, <1>3, <2>1, <2>2, <2>3 DEF UserStep, Start, Stop, RunSelected, BeginRevert
<1>4. ASSUME RevertStep PROVE StoreTypeOK'
  <2>1. CASE EndRevert
    <3>1. cur["gui"] \in Jobs
      BY <2>1, CurrentJob DEF EndRevert, Threads
    <3> QED
      BY <1>0, <2>1, <3>1, WritesKeepType DEF EndRevert
  <2> QED
    BY <1>1, <1>4, <2>1 DEF RevertStep, RevertFile
<1>5. ASSUME NEW j \in Jobs, Submit(j) PROVE StoreTypeOK'
  BY <1>0, <1>5, WritesKeepType DEF Submit
<1>6. ASSUME Restart PROVE StoreTypeOK'
  BY <1>0, <1>6, WritesKeepType DEF Restart
<1> QED
  BY <1>1, <1>2, <1>3, <1>4, <1>5, <1>6 DEF Next, Fetch, WorkerExit, SourceLost, Crash

\* Each step keeps the executor's own variables in their domains.
LEMMA ExecutorStepTypes ==
    ASSUME TypeOK, Next
    PROVE  ExecutorTypeOK'
<1>0. StoreTypeOK /\ ExecutorTypeOK
  BY TypeSplit
<1> USE DEF ExecutorTypeOK, fileVars, threadVars, Goto, Threads, PcOf, Entering, Executing
<1>1. ASSUME Fetch PROVE ExecutorTypeOK'
  BY <1>0, <1>1 DEF Fetch
<1>2. ASSUME WorkerExit PROVE ExecutorTypeOK'
  BY <1>0, <1>2 DEF WorkerExit
<1>3. ASSUME NEW t \in Threads, ExecuteStep(t) PROVE ExecutorTypeOK'
  <2>1. CASE Validate(t)
    BY <1>0, <2>1 DEF Validate
  <2>2. CASE Reject(t)
    BY <1>0, <2>2, FinishKeepsType DEF Reject
  <2>3. CASE MarkRunning(t)
    BY <1>0, <2>3 DEF MarkRunning
  <2>4. CASE MarkRejected(t)
    BY <1>0, <2>4 DEF MarkRejected
  <2>5. CASE Plan(t)
    BY <1>0, <2>5 DEF Plan
  <2>6. ASSUME NEW f \in Files, MoveFile(t, f) PROVE ExecutorTypeOK'
    BY <1>0, <2>6 DEF MoveFile
  <2>7. ASSUME NEW f \in Files, FileError(t, f) PROVE ExecutorTypeOK'
    BY <1>0, <2>7 DEF FileError
  <2>8. CASE Raise(t)
    BY <1>0, <2>8 DEF Raise
  <2>9. CASE MovesDone(t)
    BY <1>0, <2>9 DEF MovesDone
  <2>10. CASE PersistUndo(t)
    BY <1>0, <2>10 DEF PersistUndo
  <2>11. CASE Complete(t)
    BY <1>0, <2>11, FinishKeepsType DEF Complete
  <2>12. CASE Fail(t)
    BY <1>0, <2>12, FinishKeepsType DEF Fail
  <2> QED
    BY <1>3, <2>1, <2>2, <2>3, <2>4, <2>5, <2>6, <2>7, <2>8, <2>9, <2>10, <2>11, <2>12
       DEF ExecuteStep
<1>4. ASSUME UserStep PROVE ExecutorTypeOK'
  <2>1. CASE Start
    BY <1>0, <2>1 DEF Start
  <2>2. CASE Stop
    BY <1>0, <2>2 DEF Stop
  <2>3. ASSUME NEW j \in Jobs, RunSelected(j) PROVE ExecutorTypeOK'
    BY <1>0, <2>3 DEF RunSelected
  <2>4. ASSUME NEW j \in Jobs, BeginRevert(j) PROVE ExecutorTypeOK'
    <3>1. undo[j] \in SUBSET Files
      BY <1>0, <2>4 DEF BeginRevert, StoreTypeOK
    <3> QED
      BY <1>0, <2>4, <3>1 DEF BeginRevert
  <2>5. ASSUME UNCHANGED <<fileVars, running, stopEvent, threadVars, up, crashes>>
        PROVE  ExecutorTypeOK'
    BY <1>0, <2>5
  <2> QED
    BY <1>4, <2>1, <2>2, <2>3, <2>4, <2>5 DEF UserStep, RemoveSelected, MoveToTop, ClearJobHistory
<1>5. ASSUME RevertStep PROVE ExecutorTypeOK'
  <2>1. ASSUME NEW f \in Files, RevertFile(f) PROVE ExecutorTypeOK'
    <3>1. errors'["gui"] \in BOOLEAN /\ errors' \in [Threads -> BOOLEAN]
      BY <1>0, <2>1, Zenon DEF RevertFile
    <3>2. /\ atSource' \in [Jobs -> SUBSET Files]
          /\ atTarget' \in [Jobs -> SUBSET Files]
          /\ todo' \in [Threads -> SUBSET Files]
      BY <1>0, <2>1 DEF RevertFile
    <3> QED
      BY <1>0, <2>1, <3>1, <3>2 DEF RevertFile
  <2>2. CASE EndRevert
    BY <1>0, <2>2, FinishKeepsType DEF EndRevert
  <2> QED
    BY <1>5, <2>1, <2>2 DEF RevertStep
<1>6. ASSUME NEW j \in Jobs, Submit(j) PROVE ExecutorTypeOK'
  BY <1>0, <1>6 DEF Submit
<1>7. ASSUME NEW j \in Jobs, NEW f \in Files, SourceLost(j, f) PROVE ExecutorTypeOK'
  BY <1>0, <1>7 DEF SourceLost
<1>8. ASSUME Crash PROVE ExecutorTypeOK'
  <2>1. errors' \in [Threads -> BOOLEAN]
    BY <1>8, IdleTypes DEF Crash
  <2>2. running' \in BOOLEAN /\ stopEvent' \in BOOLEAN /\ up' \in BOOLEAN
    BY <1>8, Zenon DEF Crash
  <2>3. /\ atSource' \in [Jobs -> SUBSET Files]
        /\ atTarget' \in [Jobs -> SUBSET Files]
        /\ cur' \in [Threads -> Jobs \cup {NoJob}]
        /\ todo' \in [Threads -> SUBSET Files]
        /\ moved' \in [Threads -> SUBSET Files]
    BY <1>0, <1>8 DEF Crash
  <2>4. /\ pc' \in [Threads -> PcOf("worker") \cup PcOf("gui")]
        /\ \A t \in Threads : pc'[t] \in PcOf(t)
        /\ \A t \in Threads : pc'[t] \notin {"idle", "fetch", "exit"} => cur'[t] \in Jobs
    BY <1>8 DEF Crash
  <2>5. crashes' \in Nat
    BY <1>0, <1>8 DEF Crash
  <2> HIDE DEF Threads, PcOf
  <2> QED
    BY <2>1, <2>2, <2>3, <2>4, <2>5, Zenon
<1>9. ASSUME Restart PROVE ExecutorTypeOK'
  BY <1>0, <1>9 DEF Restart
<1> QED
  BY <1>1, <1>2, <1>3, <1>4, <1>5, <1>6, <1>7, <1>8, <1>9 DEF Next

LEMMA StutterKeepsType ==
    ASSUME TypeOK, UNCHANGED vars
    PROVE  TypeOK'
BY DEF vars, storeVars, fileVars, threadVars, TypeOK, StoreTypeOK

\* Every variable of the queue keeps its type: in particular a thread that is
\* inside a job holds one, and every row has a position of at least 1.
THEOREM TypeCorrect == Spec => []TypeOK
<1>1. TypeOK /\ [Next]_vars => TypeOK'
  BY StoreStepTypes, ExecutorStepTypes, StutterKeepsType, TypeSplit DEF TypeOK, ExecutorTypeOK
<1> QED
  BY <1>1, InitType, PTL DEF Spec

(***************************************************************************)
(* Distinct positions                                                      *)
(***************************************************************************)
\* No step of any thread makes two pending rows share a position.
LEMMA PositionsStep ==
    ASSUME TypeOK, PendingPositionsDistinct, [Next]_vars
    PROVE  PendingPositionsDistinct'
<1>0. StoreTypeOK
  BY TypeSplit
<1>1. ASSUME UNCHANGED <<status, position>> PROVE PendingPositionsDistinct'
  BY <1>1, ShrinkingKeeps DEF Pending
<1>2. ASSUME NEW j \in Jobs, NEW s \in Status \ {"pending"}, UpdateStatus(j, s)
      PROVE  PendingPositionsDistinct'
  BY <1>0, <1>2, WritesShrinkPending, ShrinkingKeeps DEF Pending
<1>3. ASSUME NEW t \in Threads, ExecuteStep(t) PROVE PendingPositionsDistinct'
  <2>1. CASE Reject(t) \/ MarkRunning(t) \/ Complete(t) \/ Fail(t)
    <3>1. cur[t] \in Jobs
      BY <2>1, CurrentJob DEF Reject, MarkRunning, Complete, Fail, Entering, Executing
    <3>2. \E s \in Status \ {"pending"} : UpdateStatus(cur[t], s)
      BY <2>1 DEF Reject, MarkRunning, Complete, Fail, Status, Queued, Terminal
    <3> QED
      BY <1>2, <3>1, <3>2
  <2>2. CASE PersistUndo(t)
    BY <1>1, <2>2 DEF PersistUndo, SetUndoData
  <2> QED
    BY <1>1, <1>3, <2>1, <2>2
       DEF ExecuteStep, Validate, MarkRejected, Plan, MoveFile, FileError, Raise, MovesDone,
           storeVars
<1>4. ASSUME UserStep PROVE PendingPositionsDistinct'
  <2>1. ASSUME NEW S \in SUBSET Jobs, RemoveSelected(S) PROVE PendingPositionsDistinct'
    BY <1>0, <2>1, WritesShrinkPending, ShrinkingKeeps DEF RemoveSelected
  <2>2. ASSUME NEW S \in SUBSET Jobs, MoveToTop(S) PROVE PendingPositionsDistinct'
    BY <1>0, <2>2, MovesKeepDistinct DEF MoveToTop
  <2>3. CASE ClearJobHistory
    BY <1>0, <2>3, WritesShrinkPending, ShrinkingKeeps DEF ClearJobHistory
  <2> QED
    BY <1>1, <1>4, <2>1, <2>2, <2>3 DEF UserStep, Start, Stop, RunSelected, BeginRevert, storeVars
<1>5. ASSUME RevertStep PROVE PendingPositionsDistinct'
  <2>1. CASE EndRevert
    <3>1. cur["gui"] \in Jobs
      BY <2>1, CurrentJob DEF EndRevert, Threads
    <3>2. \E s \in Status \ {"pending"} : UpdateStatus(cur["gui"], s)
      BY <2>1 DEF EndRevert, Status, Queued, Terminal
    <3> QED
      BY <1>2, <3>1, <3>2
  <2> QED
    BY <1>1, <1>5, <2>1 DEF RevertStep, RevertFile, storeVars
<1>6. ASSUME NEW j \in Jobs, Submit(j) PROVE PendingPositionsDistinct'
  BY <1>0, <1>6, AddJobPosition DEF Submit
<1>7. CASE Restart
  BY <1>0, <1>7, WritesShrinkPending, ShrinkingKeeps DEF Restart
<1> QED
  BY <1>1, <1>3, <1>4, <1>5, <1>6, <1>7
     DEF Next, Fetch, WorkerExit, SourceLost, Crash, storeVars, vars

\* The queue's order stays total whatever the threads, the user and crashes do:
\* the invariant of the store on its own survives its concurrent callers.
THEOREM QueuePositionsDistinct == Spec => []PendingPositionsDistinct
<1>1. Init => PendingPositionsDistinct
  BY StoreInitInv DEF Init, StoreInv
<1>2. TypeOK /\ PendingPositionsDistinct /\ [Next]_vars => PendingPositionsDistinct'
  BY PositionsStep
<1> QED
  BY <1>1, <1>2, TypeCorrect, PTL DEF Spec

(***************************************************************************)
(* The threads                                                             *)
(***************************************************************************)
LEMMA ExclusiveExecuteStep ==
    ASSUME TypeOK, ThreadsExclusive, NEW t \in Threads, ExecuteStep(t)
    PROVE  ThreadsExclusive'
<1>0. pc \in [Threads -> PcOf("worker") \cup PcOf("gui")]
  BY DEF TypeOK
<1>1. UNCHANGED <<running, up>>
  BY DEF ExecuteStep, Validate, Reject, MarkRunning, MarkRejected, Plan, MoveFile, FileError,
         Raise, MovesDone, PersistUndo, Complete, Fail
<1>2. pc[t] \in Entering \cup Executing
  BY DEF ExecuteStep, Validate, Reject, MarkRunning, MarkRejected, Plan, MoveFile, FileError,
         Raise, MovesDone, PersistUndo, Complete, Fail, Entering, Executing
<1>3. \E label \in Entering \cup Executing \cup (IF t = "worker" THEN {"fetch", "exit"} ELSE {"idle"}) :
         Goto(t, label)
  <2>1. CASE \E f \in Files : MoveFile(t, f) \/ FileError(t, f)
    <3>1. pc' = pc /\ pc = [pc EXCEPT ![t] = "move"] /\ "move" \in Executing
      BY <1>0, <2>1 DEF MoveFile, FileError, Executing
    <3> QED
      BY <3>1 DEF Goto
  <2>2. CASE Reject(t) \/ Complete(t) \/ Fail(t)
    BY <2>2 DEF Reject, Complete, Fail, Finish, Goto
  <2>3. CASE MarkRejected(t)
    BY <2>3 DEF MarkRejected, Goto
  <2>4. CASE Validate(t)
    BY <2>4 DEF Validate, Entering
  <2>5. CASE MovesDone(t)
    BY <2>5 DEF MovesDone, Executing
  <2>6. CASE MarkRunning(t) \/ Plan(t) \/ Raise(t) \/ PersistUndo(t)
    BY <2>6 DEF MarkRunning, Plan, Raise, PersistUndo, Executing
  <2> QED
    BY <2>1, <2>2, <2>3, <2>4, <2>5, <2>6 DEF ExecuteStep
<1>4. CASE t = "worker"
  <2>1. pc'["worker"] # "idle" /\ pc'["gui"] = pc["gui"]
    BY <1>0, <1>3, <1>4 DEF Goto, Threads, Entering, Executing
  <2>2. running /\ up
    BY <1>2, <1>4 DEF ThreadsExclusive, Entering, Executing, TypeOK
  <2> QED
    BY <1>1, <2>1, <2>2 DEF ThreadsExclusive
<1>5. CASE t = "gui"
  <2>1. pc'["worker"] = pc["worker"]
    BY <1>0, <1>3, <1>5 DEF Goto, Threads
  <2>2. up /\ (GuardSingle => ~running)
    BY <1>2, <1>5 DEF ThreadsExclusive, Entering, Executing, TypeOK
  <2> QED
    BY <1>1, <2>1, <2>2 DEF ThreadsExclusive
<1> QED
  BY <1>4, <1>5 DEF Threads

LEMMA ExclusiveStep ==
    ASSUME TypeOK, ThreadsExclusive, [Next]_vars
    PROVE  ThreadsExclusive'
<1> USE DEF ThreadsExclusive
<1>0. pc \in [Threads -> PcOf("worker") \cup PcOf("gui")]
  BY DEF TypeOK
<1>1. ASSUME UNCHANGED <<running, pc, up>> PROVE ThreadsExclusive'
  BY <1>1
<1>2. CASE Fetch
  BY <1>0, <1>2 DEF Fetch, Goto, Threads
<1>3. CASE WorkerExit
  BY <1>0, <1>3 DEF WorkerExit, Goto, Threads
<1>4. ASSUME UserStep PROVE ThreadsExclusive'
  <2>1. CASE Start
    BY <1>0, <2>1 DEF Start, UserReady, Goto, Threads, Entering, Executing
  <2>2. ASSUME NEW j \in Jobs, RunSelected(j) PROVE ThreadsExclusive'
    BY <1>0, <2>2 DEF RunSelected, UserReady, Goto, Threads
  <2>3. ASSUME NEW j \in Jobs, BeginRevert(j) PROVE ThreadsExclusive'
    BY <1>0, <2>3 DEF BeginRevert, UserReady, Goto, Threads, Entering, Executing
  <2> QED
    BY <1>1, <1>4, <2>1, <2>2, <2>3
       DEF UserStep, Stop, RemoveSelected, MoveToTop, ClearJobHistory, threadVars
<1>5. ASSUME RevertStep PROVE ThreadsExclusive'
  <2>1. CASE EndRevert
    BY <1>0, <2>1 DEF EndRevert, Finish, Threads, Entering, Executing
  <2> QED
    BY <1>1, <1>5, <2>1 DEF RevertStep, RevertFile
<1>6. CASE Crash
  BY <1>6 DEF Crash, Threads, Entering, Executing
<1>7. CASE Restart
  BY <1>7 DEF Restart, threadVars
<1> QED
  BY <1>1, <1>2, <1>3, <1>4, <1>5, <1>6, <1>7, ExclusiveExecuteStep
     DEF Next, Submit, SourceLost, threadVars, vars

\* is_running tells the truth about the worker thread, and callers that respect
\* the docstring never have two threads inside _execute_one.
THEOREM ThreadsStayExclusive == Spec => []ThreadsExclusive
<1>1. Init => ThreadsExclusive
  BY DEF Init, IdleThreads, ThreadsExclusive, Threads, Entering, Executing
<1> QED
  BY <1>1, ExclusiveStep, TypeCorrect, PTL DEF Spec

(***************************************************************************)
(* Every running row has a thread at work on it                            *)
(***************************************************************************)
\* The steps of a thread: leaving a job it executes, it ends that job's row.
LEMMA OwnerExecuteStep ==
    ASSUME TypeOK, RunningHasOwner, NEW t \in Threads, ExecuteStep(t)
    PROVE  RunningHasOwner'
<1> USE DEF RunningHasOwner, Executing
<1>0. /\ StoreTypeOK
      /\ pc \in [Threads -> PcOf("worker") \cup PcOf("gui")]
      /\ cur \in [Threads -> Jobs \cup {NoJob}]
  BY DEF TypeOK
<1>1. ASSUME NEW s \in {"completed", "failed"}, UpdateStatus(cur[t], s), Finish(t), up' = up
      PROVE  RunningHasOwner'
  <2>1. SUFFICES ASSUME up, NEW j \in Jobs, status'[j] = "running"
                 PROVE  \E u \in Threads : cur'[u] = j /\ pc'[u] \in Executing
    BY <1>1
  <2>2. status[j] = "running" /\ j # cur[t]
    BY <1>0, <1>1, <2>1 DEF UpdateStatus, HasRow, StoreTypeOK, Status, Queued
  <2>3. PICK u \in Threads : cur[u] = j /\ pc[u] \in Executing
    BY <2>1, <2>2
  <2>4. u # t /\ cur'[u] = cur[u] /\ pc'[u] = pc[u]
    BY <1>0, <1>1, <2>2, <2>3 DEF Finish
  <2> QED
    BY <2>3, <2>4
<1>2. CASE Reject(t)
  BY <1>1, <1>2 DEF Reject
<1>3. CASE Complete(t)
  BY <1>1, <1>3 DEF Complete
<1>4. CASE Fail(t)
  BY <1>1, <1>4 DEF Fail
<1>5. CASE MarkRunning(t)
  <2>1. SUFFICES ASSUME up, NEW j \in Jobs, status'[j] = "running"
                 PROVE  \E u \in Threads : cur'[u] = j /\ pc'[u] \in Executing
    BY <1>5 DEF MarkRunning
  <2>2. CASE j = cur[t]
    BY <1>0, <1>5, <2>2 DEF MarkRunning, Goto
  <2>3. CASE j # cur[t]
    <3>1. status[j] = "running"
      BY <1>0, <1>5, <2>1, <2>3 DEF MarkRunning, UpdateStatus, StoreTypeOK
    <3>2. PICK u \in Threads : cur[u] = j /\ pc[u] \in Executing
      BY <2>1, <3>1
    <3> QED
      BY <1>0, <1>5, <3>2 DEF MarkRunning, Goto
  <2> QED
    BY <2>2, <2>3
<1>6. ASSUME UNCHANGED status, UNCHANGED up, UNCHANGED cur,
             \A u \in Threads : pc[u] \in Executing => pc'[u] \in Executing
      PROVE  RunningHasOwner'
  BY <1>6
<1>7. CASE \/ Validate(t) \/ Plan(t) \/ Raise(t) \/ MovesDone(t) \/ PersistUndo(t)
           \/ \E f \in Files : MoveFile(t, f) \/ FileError(t, f)
  <2>1. UNCHANGED status /\ UNCHANGED up /\ UNCHANGED cur
    BY <1>7 DEF Validate, Plan, MoveFile, FileError, Raise, MovesDone, PersistUndo, SetUndoData,
                storeVars
  <2>2. \/ pc' = pc
        \/ pc[t] = "validate" /\ \E label : Goto(t, label)
        \/ Goto(t, "move") \/ Goto(t, "fail") \/ Goto(t, "persist") \/ Goto(t, "complete")
    BY <1>7 DEF Validate, Plan, MoveFile, FileError, Raise, MovesDone, PersistUndo
  <2>3. \A u \in Threads : pc[u] \in Executing => pc'[u] \in Executing
    BY <1>0, <2>2 DEF Goto
  <2> QED
    BY <1>6, <2>1, <2>3
<1>8. CASE MarkRejected(t)
  BY <1>0, <1>8 DEF MarkRejected, storeVars
<1> QED
  BY <1>2, <1>3, <1>4, <1>5, <1>7, <1>8 DEF ExecuteStep

LEMMA OwnerStep ==
    ASSUME TypeOK, ThreadsExclusive, RunningHasOwner, [Next]_vars
    PROVE  RunningHasOwner'
<1>0. /\ StoreTypeOK
      /\ pc \in [Threads -> PcOf("worker") \cup PcOf("gui")]
      /\ cur \in [Threads -> Jobs \cup {NoJob}]
  BY DEF TypeOK
<1>1. ASSUME \A j \in Jobs : status'[j] = "running" => status[j] = "running",
             UNCHANGED up,
             \A u \in Threads : pc[u] \in Executing => pc'[u] = pc[u] /\ cur'[u] = cur[u]
      PROVE  RunningHasOwner'
  BY <1>1 DEF RunningHasOwner
<1>2. ASSUME UNCHANGED <<storeVars, pc, cur, up>> PROVE RunningHasOwner'
  BY <1>1, <1>2 DEF storeVars
<1>3. CASE Fetch
  BY <1>0, <1>1, <1>3 DEF Fetch, storeVars, Goto, Executing
<1>4. CASE WorkerExit
  BY <1>0, <1>1, <1>4 DEF WorkerExit, storeVars, Goto, Executing
<1>5. ASSUME UserStep PROVE RunningHasOwner'
  <2>1. ASSUME NEW S \in SUBSET Jobs, RemoveSelected(S) \/ ClearJobHistory PROVE RunningHasOwner'
    <3>1. \A j \in Jobs : status'[j] = "running" => status[j] = "running"
      BY <2>1 DEF RemoveSelected, ClearJobHistory, RemoveJobs, ClearHistory, DeleteRows
    <3> QED
      BY <1>1, <2>1, <3>1 DEF RemoveSelected, ClearJobHistory, threadVars
  <2>2. ASSUME NEW S \in SUBSET Jobs, MoveToTop(S) PROVE RunningHasOwner'
    BY <1>1, <2>2 DEF MoveToTop, MoveJobsToTop, WritePendingPositions, threadVars
  <2>3. CASE Start
    BY <1>0, <1>1, <2>3 DEF Start, UserReady, ThreadsExclusive, storeVars, Goto, Executing
  <2>4. CASE Stop
    BY <1>2, <2>4 DEF Stop, threadVars
  <2>5. ASSUME NEW j \in Jobs, RunSelected(j) \/ BeginRevert(j) PROVE RunningHasOwner'
    BY <1>0, <1>1, <2>5 DEF RunSelected, BeginRevert, UserReady, storeVars, Goto, Executing
  <2> QED
    BY <1>5, <2>1, <2>2, <2>3, <2>4, <2>5 DEF UserStep
<1>6. ASSUME RevertStep PROVE RunningHasOwner'
  <2>1. CASE EndRevert
    <3>1. \A j \in Jobs : status'[j] = "running" => status[j] = "running"
      BY <1>0, <2>1 DEF EndRevert, UpdateStatus, StoreTypeOK
    <3>2. \A u \in Threads : pc[u] \in Executing => pc'[u] = pc[u] /\ cur'[u] = cur[u]
      BY <1>0, <2>1 DEF EndRevert, Finish, Executing
    <3> QED
      BY <1>1, <2>1, <3>1, <3>2 DEF EndRevert
  <2>2. ASSUME NEW f \in Files, RevertFile(f) PROVE RunningHasOwner'
    BY <1>2, <2>2 DEF RevertFile
  <2> QED
    BY <1>6, <2>1, <2>2 DEF RevertStep
<1>7. ASSUME NEW j \in Jobs, Submit(j) PROVE RunningHasOwner'
  BY <1>0, <1>1, <1>7 DEF Submit, AddJob, StoreTypeOK, threadVars
<1>8. CASE Crash
  BY <1>8 DEF Crash, RunningHasOwner
<1>9. CASE Restart
  BY <1>0, <1>9 DEF Restart, RecoverInterrupted, RunningHasOwner, StoreTypeOK
<1>10. ASSUME NEW t \in Threads, ExecuteStep(t) PROVE RunningHasOwner'
  BY <1>10, OwnerExecuteStep
<1>11. ASSUME NEW j \in Jobs, NEW f \in Files, SourceLost(j, f) PROVE RunningHasOwner'
  BY <1>2, <1>11 DEF SourceLost, threadVars
<1>12. CASE UNCHANGED vars
  BY <1>2, <1>12 DEF vars, threadVars
<1> QED
  BY <1>3, <1>4, <1>5, <1>6, <1>7, <1>8, <1>9, <1>10, <1>11, <1>12 DEF Next

\* No job is left "running" without a thread that will end it: not by an error,
\* not by two threads on one job, not by a crash once the process is up again.
THEOREM NoOrphanedRunningJob == Spec => []RunningHasOwner
<1>1. Init => RunningHasOwner
  BY DEF Init, StoreInit, RunningHasOwner
<1> QED
  BY <1>1, OwnerStep, TypeCorrect, ThreadsStayExclusive, PTL DEF Spec

(***************************************************************************)
(* Rows and threads, when callers respect execute_single_job's docstring   *)
(***************************************************************************)
RowMatches(t) ==
    /\ pc[t] \in Entering  => status[cur[t]] \in {"pending", "deleted"}
    /\ pc[t] \in Executing => status[cur[t]] \in {"running", "deleted"}
    /\ pc[t] = "revert"    => status[cur[t]] = "completed"

LEMMA RowMatching == RowFollowsThread <=> (GuardSingle => \A t \in Threads : RowMatches(t))
BY DEF RowFollowsThread, RowMatches

\* While one thread is inside _execute_one the other is not in any job, unless
\* it is the GUI thread reverting one that has completed.
LEMMA OtherThread ==
    ASSUME TypeOK, ThreadsExclusive, RowFollowsThread, GuardSingle,
           NEW t \in Threads, NEW u \in Threads, u # t, pc[t] \in Entering \cup Executing
    PROVE  /\ pc[u] \notin Entering \cup Executing
           /\ pc[u] = "revert" => cur[u] \in Jobs /\ status[cur[u]] = "completed"
<1>1. pc[u] \notin Entering \cup Executing
  <2>1. CASE t = "worker"
    BY <2>1 DEF ThreadsExclusive, Threads, Entering, Executing
  <2>2. CASE t = "gui"
    BY <2>2 DEF ThreadsExclusive, Threads, Entering, Executing
  <2> QED
    BY <2>1, <2>2 DEF Threads
<1> QED
  BY <1>1, CurrentJob DEF RowFollowsThread

LEMMA RowExecuteStep ==
    ASSUME TypeOK, ThreadsExclusive, RowFollowsThread, GuardSingle,
           NEW t \in Threads, ExecuteStep(t)
    PROVE  \A u \in Threads : RowMatches(u)'
<1>0. /\ StoreTypeOK
      /\ pc \in [Threads -> PcOf("worker") \cup PcOf("gui")]
      /\ cur \in [Threads -> Jobs \cup {NoJob}]
      /\ \A u \in Threads : RowMatches(u)
  BY RowMatching DEF TypeOK
<1>1. pc[t] \in Entering \cup Executing
  BY DEF ExecuteStep, Validate, Reject, MarkRunning, MarkRejected, Plan, MoveFile, FileError,
         Raise, MovesDone, PersistUndo, Complete, Fail, Entering, Executing
<1>2. /\ cur[t] \in Jobs
      /\ status[cur[t]] \in {"pending", "running", "deleted"}
  BY <1>0, <1>1, CurrentJob DEF RowMatches
<1>3. ASSUME NEW u \in Threads, u # t,
             pc'[u] = pc[u], cur'[u] = cur[u],
             \A j \in Jobs \ {cur[t]} : status'[j] = status[j]
      PROVE  RowMatches(u)'
  BY <1>1, <1>2, <1>3, OtherThread DEF RowMatches
<1>4. ASSUME NEW s \in Status, UpdateStatus(cur[t], s)
      PROVE  /\ \A j \in Jobs \ {cur[t]} : status'[j] = status[j]
             /\ status[cur[t]] = "deleted" => status'[cur[t]] = "deleted"
             /\ status[cur[t]] # "deleted" => status'[cur[t]] = s
  BY <1>0, <1>2, <1>4 DEF UpdateStatus, HasRow, StoreTypeOK, Status, Queued, Terminal
<1>5. CASE Reject(t) \/ Complete(t) \/ Fail(t)
  <2>1. PICK s \in Status : UpdateStatus(cur[t], s) /\ Finish(t)
    BY <1>5 DEF Reject, Complete, Fail, Status, Terminal
  <2>2. \A u \in Threads \ {t} : pc'[u] = pc[u] /\ cur'[u] = cur[u]
    BY <1>0, <2>1 DEF Finish
  <2>3. RowMatches(t)'
    BY <1>0, <2>1 DEF Finish, RowMatches, Entering, Executing
  <2> QED
    BY <1>3, <1>4, <2>1, <2>2, <2>3
<1>6. CASE MarkRunning(t)
  <2>1. UpdateStatus(cur[t], "running") /\ pc[t] = "mark" /\ Goto(t, "plan") /\ UNCHANGED cur
    BY <1>6 DEF MarkRunning
  <2>2. RowMatches(t)'
    BY <1>0, <1>4, <2>1 DEF Goto, RowMatches, Entering, Executing, Status, Queued
  <2>3. \A u \in Threads \ {t} : pc'[u] = pc[u] /\ cur'[u] = cur[u]
    BY <1>0, <2>1 DEF Goto
  <2> QED
    BY <1>3, <1>4, <2>1, <2>2, <2>3 DEF Status, Queued
<1>7. CASE MarkRejected(t)
  <2>1. UNCHANGED status /\ \A u \in Threads \ {t} : pc'[u] = pc[u] /\ cur'[u] = cur[u]
    BY <1>0, <1>7 DEF MarkRejected, storeVars
  <2>2. RowMatches(t)'
    BY <1>0, <1>7 DEF MarkRejected, RowMatches, Entering, Executing
  <2> QED
    BY <1>3, <2>1, <2>2
<1>8. CASE \/ Validate(t) \/ Plan(t) \/ Raise(t) \/ MovesDone(t) \/ PersistUndo(t)
           \/ \E f \in Files : MoveFile(t, f) \/ FileError(t, f)
  <2>1. UNCHANGED status /\ UNCHANGED cur
    BY <1>8 DEF Validate, Plan, MoveFile, FileError, Raise, MovesDone, PersistUndo, SetUndoData,
                storeVars
  <2>2. \/ pc' = pc
        \/ pc[t] = "validate" /\ \E label \in Entering : Goto(t, label)
        \/ pc[t] \in Executing /\ \E label \in Executing : Goto(t, label)
    BY <1>8 DEF Validate, Plan, MoveFile, FileError, Raise, MovesDone, PersistUndo,
                Entering, Executing
  <2>3. /\ pc[t] \in Entering => pc'[t] \in Entering
        /\ pc[t] \in Executing => pc'[t] \in Executing
        /\ \A u \in Threads \ {t} : pc'[u] = pc[u]
    BY <1>0, <2>2 DEF Goto, Entering, Executing
  <2>4. RowMatches(t)'
    BY <1>0, <1>1, <2>1, <2>3 DEF RowMatches, Entering, Executing
  <2> QED
    BY <1>3, <2>1, <2>3, <2>4
<1> QED
  BY <1>5, <1>6, <1>7, <1>8 DEF ExecuteStep

LEMMA RowStep ==
    ASSUME TypeOK, ThreadsExclusive, RowFollowsThread, [Next]_vars
    PROVE  RowFollowsThread'
<1> SUFFICES ASSUME GuardSingle PROVE \A t \in Threads : RowMatches(t)'
  BY DEF RowFollowsThread, RowMatches
<1>0. /\ StoreTypeOK
      /\ pc \in [Threads -> PcOf("worker") \cup PcOf("gui")]
      /\ cur \in [Threads -> Jobs \cup {NoJob}]
      /\ \A t \in Threads : RowMatches(t)
  BY RowMatching DEF TypeOK
<1>1. ASSUME UNCHANGED <<status, pc, cur>> PROVE \A t \in Threads : RowMatches(t)'
  BY <1>0, <1>1 DEF RowMatches
<1>2. CASE Fetch
  BY <1>0, <1>2 DEF Fetch, Goto, IsNextPending, Pending, RowMatches, Entering, Executing,
                    Threads, storeVars
<1>3. CASE WorkerExit
  BY <1>0, <1>3 DEF WorkerExit, Goto, RowMatches, Entering, Executing, Threads, storeVars
<1>4. ASSUME UserStep PROVE \A t \in Threads : RowMatches(t)'
  <2>1. CASE Start
    BY <1>0, <2>1 DEF Start, Goto, RowMatches, Entering, Executing, Threads, storeVars
  <2>2. ASSUME NEW j \in Jobs, RunSelected(j) \/ BeginRevert(j)
        PROVE  \A t \in Threads : RowMatches(t)'
    BY <1>0, <2>2 DEF RunSelected, BeginRevert, Goto, RowMatches, Entering, Executing, Threads,
                      storeVars
  <2>3. ASSUME NEW S \in SUBSET Jobs, RemoveSelected(S) PROVE \A t \in Threads : RowMatches(t)'
    <3>1. UNCHANGED <<pc, cur>> /\ pc["gui"] = "idle"
      BY <2>3 DEF RemoveSelected, UserReady, threadVars
    <3>2. \A j \in Jobs : status'[j] # status[j] =>
             status[j] \in {"pending", "cancelled"} /\ status'[j] = "deleted"
      BY <2>3 DEF RemoveSelected, RemoveJobs, DeleteRows
    <3>3. \A t \in Threads : pc[t] \in Entering \cup Executing \cup {"revert"} => cur[t] \in Jobs
      BY CurrentJob
    <3> QED
      BY <1>0, <3>1, <3>2, <3>3 DEF RowMatches
  <2>4. CASE ClearJobHistory
    <3>1. UNCHANGED <<pc, cur>> /\ pc["gui"] = "idle"
      BY <2>4 DEF ClearJobHistory, UserReady, threadVars
    <3>2. \A j \in Jobs : status'[j] # status[j] => status[j] \in Terminal
      BY <2>4 DEF ClearJobHistory, ClearHistory, DeleteRows
    <3>3. \A t \in Threads : pc[t] \in Entering \cup Executing => cur[t] \in Jobs
      BY CurrentJob
    <3>4. \A t \in Threads : pc[t] # "revert"
      BY <1>0, <3>1 DEF TypeOK, Threads, PcOf, Entering, Executing
    <3> QED
      BY <1>0, <3>1, <3>2, <3>3, <3>4 DEF RowMatches, Terminal
  <2>5. ASSUME NEW S \in SUBSET Jobs, MoveToTop(S) PROVE \A t \in Threads : RowMatches(t)'
    BY <1>1, <2>5 DEF MoveToTop, MoveJobsToTop, WritePendingPositions, threadVars
  <2> QED
    BY <1>1, <1>4, <2>1, <2>2, <2>3, <2>4, <2>5 DEF UserStep, Stop, storeVars, threadVars
<1>5. ASSUME RevertStep PROVE \A t \in Threads : RowMatches(t)'
  <2>1. CASE EndRevert
    <3>1. cur["gui"] \in Jobs /\ status[cur["gui"]] = "completed"
      BY <1>0, <2>1, CurrentJob DEF EndRevert, RowMatches, Threads
    <3>2. /\ pc'["gui"] = "idle"
          /\ pc'["worker"] = pc["worker"] /\ cur'["worker"] = cur["worker"]
      BY <1>0, <2>1 DEF EndRevert, Finish, Threads
    <3>3. \A j \in Jobs \ {cur["gui"]} : status'[j] = status[j]
      BY <1>0, <2>1 DEF EndRevert, UpdateStatus, StoreTypeOK
    <3>4. pc["worker"] \in Entering \cup Executing =>
             cur["worker"] \in Jobs /\ cur["worker"] # cur["gui"]
      BY <1>0, <3>1, CurrentJob DEF RowMatches, Threads
    <3>5. RowMatches("gui")'
      BY <3>2 DEF RowMatches, Entering, Executing
    <3>6. RowMatches("worker")'
      BY <1>0, <3>2, <3>3, <3>4 DEF RowMatches, Threads, TypeOK, PcOf, Entering, Executing
    <3> QED
      BY <3>5, <3>6 DEF Threads
  <2> QED
    BY <1>1, <1>5, <2>1 DEF RevertStep, RevertFile, storeVars
<1>6. ASSUME NEW j \in Jobs, Submit(j) PROVE \A t \in Threads : RowMatches(t)'
  <2>1. /\ UNCHANGED <<pc, cur>>
        /\ status[j] = "absent"
        /\ \A k \in Jobs \ {j} : status'[k] = status[k]
    BY <1>0, <1>6 DEF Submit, AddJob, StoreTypeOK, threadVars
  <2>2. \A t \in Threads : pc[t] \in Entering \cup Executing \cup {"revert"} => cur[t] \in Jobs
    BY CurrentJob
  <2> QED
    BY <1>0, <2>1, <2>2 DEF RowMatches
<1>7. CASE Crash
  BY <1>7 DEF Crash, RowMatches, Entering, Executing
<1>8. CASE Restart
  BY <1>0, <1>8 DEF Restart, ThreadsExclusive, RowMatches, Entering, Executing, threadVars
<1> QED
  BY <1>1, <1>2, <1>3, <1>4, <1>5, <1>6, <1>7, <1>8, RowExecuteStep
     DEF Next, SourceLost, storeVars, threadVars, vars

\* When callers respect the docstring, nothing but the user deleting a pending
\* row comes between a thread reading its job and the transactions it makes.
THEOREM RowsFollowThreads == Spec => []RowFollowsThread
<1>1. Init => RowFollowsThread
  BY DEF Init, IdleThreads, RowFollowsThread, Threads, Entering, Executing
<1> QED
  BY <1>1, RowStep, TypeCorrect, ThreadsStayExclusive, PTL DEF Spec

(***************************************************************************)
(* One queued job per media entity                                         *)
(***************************************************************************)
\* Only add_job brings a row into the queue: what a thread marks running was
\* pending.
LEMMA OnlySubmitEnqueues ==
    ASSUME TypeOK, RowFollowsThread, GuardSingle, [Next]_vars
    PROVE  (\E j \in Jobs : Submit(j)) \/ QueuedJobs' \subseteq QueuedJobs
<1>0. StoreTypeOK /\ \A t \in Threads : RowMatches(t)
  BY TypeSplit, RowMatching
<1>1. ASSUME UNCHANGED status PROVE QueuedJobs' \subseteq QueuedJobs
  BY <1>1 DEF QueuedJobs
<1>2. ASSUME NEW t \in Threads, ExecuteStep(t) PROVE QueuedJobs' \subseteq QueuedJobs
  <2>1. CASE Reject(t) \/ Complete(t) \/ Fail(t)
    BY <1>0, <2>1 DEF Reject, Complete, Fail, UpdateStatus, StoreTypeOK, QueuedJobs, Queued
  <2>2. CASE MarkRunning(t)
    <3>1. cur[t] \in Jobs /\ status[cur[t]] \in {"pending", "deleted"}
      BY <1>0, <2>2, CurrentJob DEF MarkRunning, RowMatches, Entering
    <3> QED
      BY <1>0, <2>2, <3>1
         DEF MarkRunning, UpdateStatus, HasRow, StoreTypeOK, QueuedJobs, Queued, Status, Terminal
  <2> QED
    BY <1>1, <1>2, <2>1, <2>2
       DEF ExecuteStep, Validate, MarkRejected, Plan, MoveFile, FileError, Raise, MovesDone,
           PersistUndo, SetUndoData, storeVars
<1>3. ASSUME UserStep PROVE QueuedJobs' \subseteq QueuedJobs
  <2>1. ASSUME NEW S \in SUBSET Jobs, RemoveSelected(S) \/ ClearJobHistory
        PROVE  QueuedJobs' \subseteq QueuedJobs
    BY <1>0, <2>1, WritesShrinkPending DEF RemoveSelected, ClearJobHistory
  <2> QED
    BY <1>1, <1>3, <2>1
       DEF UserStep, Start, Stop, RunSelected, BeginRevert, MoveToTop, MoveJobsToTop,
           WritePendingPositions, storeVars
<1>4. ASSUME RevertStep PROVE QueuedJobs' \subseteq QueuedJobs
  <2>1. CASE EndRevert
    BY <1>0, <2>1 DEF EndRevert, UpdateStatus, StoreTypeOK, QueuedJobs, Queued
  <2> QED
    BY <1>1, <1>4, <2>1 DEF RevertStep, RevertFile, storeVars
<1>5. ASSUME Restart PROVE QueuedJobs' \subseteq QueuedJobs
  BY <1>0, <1>5, WritesShrinkPending DEF Restart
<1> QED
  BY <1>1, <1>2, <1>3, <1>4, <1>5
     DEF Next, Fetch, WorkerExit, SourceLost, Crash, storeVars, vars

\* add_job's promise holds with the executor, the user and crashes at work: a
\* media entity never holds two rename or remux jobs in the queue, as long as
\* nobody runs a single job while the worker runs.
THEOREM QueueHoldsMediaOnceAtWork ==
    ASSUME GuardSingle
    PROVE  Spec => []OneQueuedJobPerMedia
<1>1. Init => OneQueuedJobPerMedia
  BY StoreInitInv DEF Init, StoreInv
<1>2. TypeOK /\ RowFollowsThread /\ OneQueuedJobPerMedia /\ [Next]_vars => OneQueuedJobPerMedia'
  <2> SUFFICES ASSUME TypeOK, RowFollowsThread, OneQueuedJobPerMedia, [Next]_vars
               PROVE  OneQueuedJobPerMedia'
    OBVIOUS
  <2>1. CASE \E j \in Jobs : Submit(j)
    BY <2>1, AddJobMedia, TypeSplit DEF Submit
  <2>2. CASE QueuedJobs' \subseteq QueuedJobs
    BY <2>2, QueueShrinkingKeeps
  <2> QED
    BY <2>1, <2>2, OnlySubmitEnqueues
<1> QED
  BY <1>1, <1>2, TypeCorrect, RowsFollowThreads, PTL DEF Spec

(***************************************************************************)
(* Refinement of the life cycle                                            *)
(***************************************************************************)
\* Every step of the queue is a step of the life cycle of one job, a recovery,
\* a deletion, or leaves every status as it is.
LEMMA LifecycleStep ==
    ASSUME TypeOK, RowFollowsThread, GuardSingle, [Next]_vars
    PROVE  [Lifecycle!Next]_status
<1>0. StoreTypeOK /\ \A t \in Threads : RowMatches(t)
  BY TypeSplit, RowMatching
<1> USE DEF Lifecycle!Next
<1>1. ASSUME NEW j \in Jobs, NEW s \in Status, UpdateStatus(j, s), status[j] # "deleted",
             status[j] # "absent"
      PROVE  Lifecycle!Advance(j, status[j], s)
  BY <1>0, <1>1 DEF Lifecycle!Advance, UpdateStatus, HasRow, StoreTypeOK
<1>2. ASSUME NEW j \in Jobs, NEW s \in Status, UpdateStatus(j, s), status[j] = "deleted"
      PROVE  UNCHANGED status
  BY <1>0, <1>2 DEF UpdateStatus, HasRow, StoreTypeOK, Status, Queued, Terminal
<1>3. ASSUME NEW t \in Threads, ExecuteStep(t) PROVE [Lifecycle!Next]_status
  <2>1. CASE Reject(t)
    <3>1. cur[t] \in Jobs /\ status[cur[t]] \in {"pending", "deleted"}
      BY <1>0, <2>1, CurrentJob DEF Reject, RowMatches, Entering
    <3> QED
      BY <1>1, <1>2, <2>1, <3>1 DEF Reject, Lifecycle!Refuse, Status, Terminal
  <2>2. CASE MarkRunning(t)
    <3>1. cur[t] \in Jobs /\ status[cur[t]] \in {"pending", "deleted"}
      BY <1>0, <2>2, CurrentJob DEF MarkRunning, RowMatches, Entering
    <3> QED
      BY <1>1, <1>2, <2>2, <3>1 DEF MarkRunning, Lifecycle!Begin, Status, Queued
  <2>3. CASE Complete(t)
    <3>1. cur[t] \in Jobs /\ status[cur[t]] \in {"running", "deleted"}
      BY <1>0, <2>3, CurrentJob DEF Complete, RowMatches, Executing
    <3> QED
      BY <1>1, <1>2, <2>3, <3>1 DEF Complete, Lifecycle!End, Status, Terminal
  <2>4. CASE Fail(t)
    <3>1. cur[t] \in Jobs /\ status[cur[t]] \in {"running", "deleted"}
      BY <1>0, <2>4, CurrentJob DEF Fail, RowMatches, Executing
    <3> QED
      BY <1>1, <1>2, <2>4, <3>1 DEF Fail, Lifecycle!End, Status, Terminal
  <2> QED
    BY <1>3, <2>1, <2>2, <2>3, <2>4
       DEF ExecuteStep, Validate, MarkRejected, Plan, MoveFile, FileError, Raise, MovesDone,
           PersistUndo, SetUndoData, storeVars
<1>4. ASSUME NEW S \in SUBSET Jobs, DeleteRows(S),
             \A j \in S : status[j] \notin {"absent", "running", "deleted"}
      PROVE  Lifecycle!Next
  BY <1>4 DEF DeleteRows, Lifecycle!Discard
<1>5. ASSUME UserStep PROVE [Lifecycle!Next]_status
  <2>1. ASSUME NEW S \in SUBSET Jobs, RemoveSelected(S) PROVE Lifecycle!Next
    BY <1>4, <2>1 DEF RemoveSelected, RemoveJobs
  <2>2. CASE ClearJobHistory
    BY <1>4, <2>2 DEF ClearJobHistory, ClearHistory, Terminal
  <2> QED
    BY <1>5, <2>1, <2>2
       DEF UserStep, Start, Stop, RunSelected, BeginRevert, MoveToTop, MoveJobsToTop,
           WritePendingPositions, storeVars
<1>6. ASSUME RevertStep PROVE [Lifecycle!Next]_status
  <2>1. CASE EndRevert
    <3>1. cur["gui"] \in Jobs /\ status[cur["gui"]] = "completed"
      BY <1>0, <2>1, CurrentJob DEF EndRevert, RowMatches, Threads
    <3> QED
      BY <1>1, <2>1, <3>1 DEF EndRevert, Lifecycle!Revert, Status, Terminal
  <2> QED
    BY <1>6, <2>1 DEF RevertStep, RevertFile, storeVars
<1>7. ASSUME NEW j \in Jobs, Submit(j) PROVE Lifecycle!Next
  BY <1>7 DEF Submit, AddJob, Lifecycle!Enqueue, Lifecycle!Advance
<1>8. ASSUME Restart PROVE Lifecycle!Next
  BY <1>8 DEF Restart, RecoverInterrupted, Lifecycle!Recover
<1> QED
  BY <1>3, <1>5, <1>6, <1>7, <1>8
     DEF Next, Fetch, WorkerExit, SourceLost, Crash, storeVars, vars

\* The queue at work implements the life cycle of JobLifecycle: a job starts at
\* most once, ends once, is reverted at most once, and is never deleted while it
\* runs, as long as nobody runs a single job while the worker runs.
THEOREM QueueImplementsLifecycle ==
    ASSUME GuardSingle
    PROVE  Spec => ImplementsLifecycle
<1>1. Init => Lifecycle!Init
  BY DEF Init, StoreInit, Lifecycle!Init
<1>2. TypeOK /\ RowFollowsThread /\ [Next]_vars => [Lifecycle!Next]_status
  BY LifecycleStep
<1> QED
  BY <1>1, <1>2, TypeCorrect, RowsFollowThreads, PTL
     DEF Spec, ImplementsLifecycle, Lifecycle!Spec

\* Threads, rows and flags agree, whatever the order of starts, stops, single
\* runs, removals and crashes.
THEOREM ThreadsOwnTheirJobs == Spec => []ThreadsOwnJobs
<1>1. TypeOK /\ ThreadsExclusive /\ RowFollowsThread /\ RunningHasOwner => ThreadsOwnJobs
  BY DEF ThreadsOwnJobs
<1> QED
  BY <1>1, TypeCorrect, ThreadsStayExclusive, RowsFollowThreads, NoOrphanedRunningJob, PTL
(***************************************************************************)
(* What the rows tell of the moves                                         *)
(***************************************************************************)
\* What a row says of the files of its job while no thread is inside it.
RowTells(j) ==
    /\ status[j] \in {"absent", "pending"} => atTarget[j] = {}
    /\ status[j] \in {"completed", "revert_failed"} =>
          undo[j] # NoUndo /\ atTarget[j] \subseteq undo[j]
    /\ status[j] = "reverted" =>
          /\ atTarget[j] = {}
          /\ KindOf[j] = "rename" => undo[j] \subseteq atSource[j] \cup LosableFiles
    /\ status[j] = "failed" /\ crashes = 0 /\ KindOf[j] = "rename" => atTarget[j] = {}
    /\ status[j] # "cancelled"

\* What a thread knows of the files of the job it executes: its result until the
\* undo data is stored, the undo data afterwards.
ExecutionTells(t) ==
    LET j == cur[t]
    IN  pc[t] \in Executing /\ status[j] = "running" =>
          /\ pc[t] \in {"plan", "move", "persist", "fail"} => atTarget[j] \subseteq moved[t]
          /\ pc[t] = "fail" /\ KindOf[j] = "rename" => atTarget[j] = {}
          /\ pc[t] = "complete" => undo[j] # NoUndo /\ atTarget[j] \subseteq undo[j]

\* A revert without an error has put back what it no longer has to do.
RevertTells(t) ==
    LET j == cur[t]
    IN  pc[t] = "revert" /\ ~errors[t] =>
          /\ atTarget[j] \subseteq todo[t]
          /\ KindOf[j] = "rename" => undo[j] \subseteq todo[t] \cup atSource[j] \cup LosableFiles

\* UndoTellsTheMoves is not inductive: it says nothing of a job while a thread
\* is inside it.
MovesInv ==
    /\ \A j \in Jobs : RowTells(j)
    /\ \A t \in Threads : ExecutionTells(t) /\ RevertTells(t)
    /\ ~up => crashes # 0

\* A thread that is inside a job, executing or reverting, is the only one whose
\* steps the job's row and files depend on.
Inside(t) == pc[t] \in Entering \cup Executing \cup {"revert"}

\* The rest of the state, seen from a thread t inside a job j.
Elsewhere(t, j) ==
    /\ \A k \in Jobs \ {j} : /\ status'[k] = status[k] /\ undo'[k] = undo[k]
                             /\ atTarget'[k] = atTarget[k] /\ atSource'[k] = atSource[k]
    /\ \A u \in Threads \ {t} : /\ pc'[u] = pc[u] /\ cur'[u] = cur[u]
                                /\ todo'[u] = todo[u] /\ moved'[u] = moved[u]
                                /\ errors'[u] = errors[u]
    /\ UNCHANGED <<up, crashes>>

LEMMA TellsElsewhere ==
    ASSUME TypeOK, ThreadsExclusive, RowFollowsThread, GuardSingle, MovesInv,
           NEW t \in Threads, NEW j \in Jobs, Inside(t), j = cur[t], Elsewhere(t, j),
           RowTells(j)', ExecutionTells(t)', RevertTells(t)'
    PROVE  MovesInv'
<1> USE DEF Elsewhere
<1>1. \A k \in Jobs : RowTells(k)'
  <2> SUFFICES ASSUME NEW k \in Jobs, k # j PROVE RowTells(k)'
    OBVIOUS
  <2> QED
    BY DEF RowTells, MovesInv
<1>2. ASSUME NEW u \in Threads, u # t PROVE ExecutionTells(u)' /\ RevertTells(u)'
  <2>1. CASE ~Inside(u)
    BY <1>2, <2>1 DEF Inside, ExecutionTells, RevertTells, Executing
  <2>2. CASE Inside(u)
    <3>1. cur[u] \in Jobs
      BY <2>2, CurrentJob DEF Inside
    <3>2. cur[u] # j \/ pc[u] \in Entering
      <4>1. \A v \in Threads : RowMatches(v)
        BY RowMatching
      <4>2. ~(pc[u] \in Executing /\ pc[t] \in Entering \cup Executing)
        BY <1>2, OtherThread
      <4>3. ~(pc[u] = "revert" /\ pc[t] = "revert")
        BY <1>2 DEF Threads, TypeOK, PcOf, Entering, Executing
      <4> QED
        BY <2>2, <4>1, <4>2, <4>3 DEF Inside, RowMatches, Entering, Executing
    <3>3. CASE pc[u] \in Entering
      BY <1>2, <3>3 DEF ExecutionTells, RevertTells, Entering, Executing
    <3>4. CASE cur[u] # j
      BY <1>2, <3>1, <3>4 DEF ExecutionTells, RevertTells, MovesInv
    <3> QED
      BY <3>2, <3>3, <3>4
  <2> QED
    BY <2>1, <2>2
<1> QED
  BY <1>1, <1>2 DEF MovesInv

\* What a thread that executes knows of its job stays true step by step.
LEMMA TellsExecuteStep ==
    ASSUME TypeOK, ThreadsExclusive, RowFollowsThread, GuardSingle, MovesInv,
           NEW t \in Threads, ExecuteStep(t)
    PROVE  MovesInv'
<1> DEFINE j == cur[t]
<1>0. /\ StoreTypeOK
      /\ pc \in [Threads -> PcOf("worker") \cup PcOf("gui")]
      /\ cur \in [Threads -> Jobs \cup {NoJob}]
      /\ todo \in [Threads -> SUBSET Files] /\ moved \in [Threads -> SUBSET Files]
      /\ errors \in [Threads -> BOOLEAN]
      /\ atSource \in [Jobs -> SUBSET Files] /\ atTarget \in [Jobs -> SUBSET Files]
  BY DEF TypeOK
<1>1. pc[t] \in Entering \cup Executing
  BY DEF ExecuteStep, Validate, Reject, MarkRunning, MarkRejected, Plan, MoveFile, FileError,
         Raise, MovesDone, PersistUndo, Complete, Fail, Entering, Executing
<1>2. j \in Jobs /\ Inside(t)
  BY <1>1, CurrentJob DEF Inside
<1>3. RowTells(j) /\ ExecutionTells(t)
  BY <1>2 DEF MovesInv
<1>4. /\ pc[t] \in Entering  => status[j] \in {"pending", "deleted"}
      /\ pc[t] \in Executing => status[j] \in {"running", "deleted"}
  BY DEF RowFollowsThread
<1>5. PICK k \in Jobs : k = j
  BY <1>2
<1> HIDE DEF j
<1>6. Elsewhere(t, k)
  <2>1. CASE Reject(t) \/ Complete(t) \/ Fail(t)
    BY <1>0, <1>5, <2>1
       DEF j, Reject, Complete, Fail, Finish, UpdateStatus, StoreTypeOK, fileVars, Elsewhere
  <2>2. CASE MarkRunning(t)
    BY <1>0, <1>5, <2>2
       DEF j, MarkRunning, Goto, UpdateStatus, StoreTypeOK, fileVars, Elsewhere
  <2>3. CASE PersistUndo(t)
    BY <1>0, <1>5, <2>3
       DEF j, PersistUndo, Goto, SetUndoData, StoreTypeOK, fileVars, Elsewhere
  <2>4. ASSUME NEW f \in Files, MoveFile(t, f) PROVE Elsewhere(t, k)
    BY <1>0, <1>5, <2>4 DEF j, MoveFile, storeVars, Elsewhere
  <2>5. ASSUME NEW f \in Files, FileError(t, f) PROVE Elsewhere(t, k)
    BY <1>0, <1>5, <2>5 DEF j, FileError, storeVars, fileVars, Elsewhere
  <2>6. CASE Validate(t) \/ MarkRejected(t) \/ Plan(t) \/ Raise(t) \/ MovesDone(t)
    BY <1>0, <1>5, <2>6
       DEF j, Validate, MarkRejected, Plan, Raise, MovesDone, Goto, storeVars, fileVars, Elsewhere
  <2> QED
    BY <2>1, <2>2, <2>3, <2>4, <2>5, <2>6 DEF ExecuteStep
<1>7. SUFFICES RowTells(k)' /\ ExecutionTells(t)' /\ RevertTells(t)'
  BY <1>2, <1>5, <1>6, TellsElsewhere DEF j
<1>8. ASSUME NEW s \in Status, UpdateStatus(j, s)
      PROVE  /\ status'[j] = (IF status[j] = "deleted" THEN "deleted" ELSE s)
             /\ UNCHANGED undo
  BY <1>0, <1>1, <1>2, <1>4, <1>8 DEF UpdateStatus, HasRow, StoreTypeOK, Status, Queued, Terminal
<1>9. ASSUME NEW s \in {"completed", "failed"}, UpdateStatus(j, s), Finish(t),
             UNCHANGED fileVars, UNCHANGED crashes,
             status[j] # "deleted" /\ s = "completed" =>
                undo[j] # NoUndo /\ atTarget[j] \subseteq undo[j],
             status[j] # "deleted" /\ s = "failed" /\ KindOf[j] = "rename" => atTarget[j] = {}
      PROVE  RowTells(k)' /\ ExecutionTells(t)' /\ RevertTells(t)'
  <2>1. /\ status'[j] = (IF status[j] = "deleted" THEN "deleted" ELSE s)
        /\ UNCHANGED undo
    BY <1>8, <1>9 DEF Status, Terminal
  <2>2. pc'[t] \in {"fetch", "idle"}
    BY <1>0, <1>9 DEF Finish
  <2>3. ExecutionTells(t)' /\ RevertTells(t)'
    BY <2>2 DEF ExecutionTells, RevertTells, Executing
  <2>4. RowTells(k)'
    BY <1>5, <1>9, <2>1 DEF RowTells, fileVars
  <2> QED
    BY <2>3, <2>4
<1>10. CASE Reject(t)
  <2>1. status[j] # "deleted" => atTarget[j] = {}
    BY <1>3, <1>4, <1>10 DEF Reject, RowTells, Entering
  <2> QED
    BY <1>9, <1>10, <2>1 DEF Reject, j
<1>11. CASE Complete(t)
  <2>1. status[j] # "deleted" => undo[j] # NoUndo /\ atTarget[j] \subseteq undo[j]
    BY <1>3, <1>4, <1>11 DEF Complete, ExecutionTells, Executing, j
  <2> QED
    BY <1>9, <1>11, <2>1 DEF Complete, j
<1>12. CASE Fail(t)
  <2>1. status[j] # "deleted" /\ KindOf[j] = "rename" => atTarget[j] = {}
    BY <1>3, <1>4, <1>12 DEF Fail, ExecutionTells, Executing, j
  <2> QED
    BY <1>9, <1>12, <2>1 DEF Fail, j
<1>13. CASE MarkRunning(t)
  <2>1. /\ status'[j] \in {"running", "deleted"}
        /\ UNCHANGED undo /\ UNCHANGED <<atSource, atTarget, cur, moved>>
        /\ pc'[t] = "plan"
    BY <1>0, <1>8, <1>13 DEF MarkRunning, Goto, fileVars, Status, Queued, j
  <2>2. status[j] # "deleted" => atTarget[j] = {}
    BY <1>3, <1>4, <1>13 DEF MarkRunning, RowTells, Entering
  <2>3. status'[j] = "running" => status[j] # "deleted"
    BY <1>8, <1>13 DEF MarkRunning, Status, Queued, j
  <2> QED
    BY <1>5, <2>1, <2>2, <2>3 DEF RowTells, ExecutionTells, RevertTells, j
<1>14. CASE MarkRejected(t) \/ Validate(t)
  <2>1. UNCHANGED <<status, undo, atSource, atTarget, crashes>>
    BY <1>14 DEF MarkRejected, Validate, storeVars, fileVars
  <2>2. pc'[t] \notin Executing \cup {"revert"}
    BY <1>0, <1>14 DEF MarkRejected, Validate, Goto, Executing
  <2> QED
    BY <1>3, <1>5, <2>1, <2>2 DEF RowTells, ExecutionTells, RevertTells, j
<1>15. ASSUME UNCHANGED <<status, atSource, atTarget, crashes, cur, undo>>,
              pc[t] \in {"plan", "move"}, pc'[t] \in {"move", "persist", "fail"},
              moved'[t] = moved[t],
              pc'[t] = "fail" /\ KindOf[j] = "rename" => moved[t] = {}
       PROVE  RowTells(k)' /\ ExecutionTells(t)' /\ RevertTells(t)'
  BY <1>3, <1>5, <1>15 DEF RowTells, ExecutionTells, RevertTells, Executing, j
<1>16. CASE Plan(t) \/ Raise(t) \/ MovesDone(t)
  <2>1. /\ UNCHANGED <<status, atSource, atTarget, crashes, cur, undo>>
        /\ moved'[t] = moved[t]
        /\ pc[t] \in {"plan", "move"} /\ pc'[t] \in {"move", "persist", "fail"}
        /\ pc'[t] = "fail" /\ KindOf[j] = "rename" => moved[t] = {}
    BY <1>0, <1>16 DEF Plan, Raise, MovesDone, Goto, storeVars, fileVars, j
  <2> QED
    BY <1>15, <2>1
<1>17. ASSUME NEW f \in Files, FileError(t, f)
       PROVE  RowTells(k)' /\ ExecutionTells(t)' /\ RevertTells(t)'
  BY <1>0, <1>15, <1>17 DEF FileError, storeVars, fileVars
<1>18. ASSUME NEW f \in Files, MoveFile(t, f)
       PROVE  RowTells(k)' /\ ExecutionTells(t)' /\ RevertTells(t)'
  <2>1. /\ UNCHANGED <<status, undo, pc, cur, crashes>> /\ pc[t] = "move"
        /\ atTarget'[j] = atTarget[j] \cup {f} /\ moved'[t] = moved[t] \cup {f}
    BY <1>0, <1>2, <1>18 DEF MoveFile, storeVars, j
  <2>2. status[j] \in {"running", "deleted"}
    BY <1>4, <2>1 DEF Executing
  <2> QED
    BY <1>3, <1>5, <2>1, <2>2 DEF RowTells, ExecutionTells, RevertTells, Executing, j
<1>19. CASE PersistUndo(t)
  <2>1. /\ UNCHANGED <<status, atSource, atTarget, cur, crashes>>
        /\ pc[t] = "persist" /\ pc'[t] = "complete"
        /\ HasRow(j) => undo'[j] = moved[t]
    BY <1>0, <1>2, <1>19 DEF PersistUndo, SetUndoData, Goto, StoreTypeOK, fileVars, j
  <2>2. status[j] \in {"running", "deleted"}
    BY <1>4, <2>1 DEF Executing
  <2>3. moved[t] # NoUndo
    BY <1>0, UndoAssumption
  <2> QED
    BY <1>3, <1>5, <2>1, <2>2, <2>3
       DEF RowTells, ExecutionTells, RevertTells, Executing, HasRow, Status, Queued, j
<1> QED
  BY <1>10, <1>11, <1>12, <1>13, <1>14, <1>16, <1>17, <1>18, <1>19 DEF ExecuteStep

\* What holds of a thread that does not enter a job holds on while rows change
\* in ways that only the threads inside them, or nobody, care about.
LEMMA TellsUserStep ==
    ASSUME TypeOK, ThreadsExclusive, RowFollowsThread, GuardSingle, MovesInv, UserStep
    PROVE  MovesInv'
<1>0. /\ StoreTypeOK
      /\ pc \in [Threads -> PcOf("worker") \cup PcOf("gui")]
      /\ cur \in [Threads -> Jobs \cup {NoJob}]
      /\ todo \in [Threads -> SUBSET Files]
  BY DEF TypeOK
<1>1. UNCHANGED <<fileVars, moved, errors, up, crashes>> /\ pc["gui"] = "idle"
  BY DEF UserStep, Start, Stop, RunSelected, RemoveSelected, MoveToTop, ClearJobHistory,
         BeginRevert, UserReady, threadVars
<1>2. ASSUME UNCHANGED <<status, undo>>,
             \A t \in Threads : \/ pc'[t] \notin Executing \cup {"revert"}
                                \/ pc'[t] = pc[t] /\ cur'[t] = cur[t] /\ todo'[t] = todo[t]
      PROVE  MovesInv'
  <2>1. \A j \in Jobs : RowTells(j)'
    BY <1>1, <1>2 DEF RowTells, MovesInv, fileVars
  <2>2. ASSUME NEW t \in Threads PROVE ExecutionTells(t)' /\ RevertTells(t)'
    <3>1. CASE pc'[t] \notin Executing \cup {"revert"}
      BY <3>1 DEF ExecutionTells, RevertTells, Executing
    <3>2. CASE pc'[t] = pc[t] /\ cur'[t] = cur[t] /\ todo'[t] = todo[t]
      BY <1>1, <1>2, <3>2 DEF ExecutionTells, RevertTells, MovesInv, fileVars
    <3> QED
      BY <1>2, <3>1, <3>2
  <2> QED
    BY <1>1, <2>1, <2>2 DEF MovesInv
<1>3. CASE Start
  BY <1>0, <1>2, <1>3 DEF Start, Goto, storeVars, Threads, Executing
<1>4. CASE Stop
  BY <1>2, <1>4 DEF Stop, storeVars, threadVars
<1>5. ASSUME NEW j \in Jobs, RunSelected(j) PROVE MovesInv'
  BY <1>0, <1>2, <1>5 DEF RunSelected, Goto, storeVars, Threads, Executing
<1>6. ASSUME NEW S \in SUBSET Jobs, MoveToTop(S) PROVE MovesInv'
  BY <1>2, <1>6 DEF MoveToTop, MoveJobsToTop, WritePendingPositions, threadVars
<1>7. ASSUME NEW S \in SUBSET Jobs, DeleteRows(S), UNCHANGED threadVars PROVE MovesInv'
  <2>1. \A j \in Jobs : RowTells(j)'
    BY <1>1, <1>7 DEF RowTells, MovesInv, DeleteRows, fileVars
  <2>2. ASSUME NEW t \in Threads PROVE ExecutionTells(t)' /\ RevertTells(t)'
    <3>1. pc[t] # "revert"
      BY <1>0, <1>1 DEF TypeOK, Threads, PcOf, Entering, Executing
    <3>2. pc[t] \in Executing => cur[t] \in Jobs
      BY CurrentJob
    <3> QED
      BY <1>1, <1>7, <3>1, <3>2
         DEF ExecutionTells, RevertTells, MovesInv, DeleteRows, fileVars, threadVars
  <2> QED
    BY <1>1, <2>1, <2>2 DEF MovesInv
<1>8. ASSUME NEW S \in SUBSET Jobs, RemoveSelected(S) PROVE MovesInv'
  BY <1>7, <1>8 DEF RemoveSelected, RemoveJobs
<1>9. CASE ClearJobHistory
  BY <1>7, <1>9 DEF ClearJobHistory, ClearHistory
<1>10. ASSUME NEW j \in Jobs, BeginRevert(j) PROVE MovesInv'
  <2>1. /\ UNCHANGED <<status, undo>> /\ status[j] = "completed"
        /\ pc'["gui"] = "revert" /\ cur'["gui"] = j /\ todo'["gui"] = undo[j]
        /\ pc'["worker"] = pc["worker"] /\ cur'["worker"] = cur["worker"]
        /\ todo'["worker"] = todo["worker"]
    BY <1>0, <1>10 DEF BeginRevert, Goto, storeVars, Threads
  <2>2. \A k \in Jobs : RowTells(k)'
    BY <1>1, <2>1 DEF RowTells, MovesInv, fileVars
  <2>3. ExecutionTells("gui")' /\ RevertTells("gui")'
    BY <1>1, <2>1 DEF ExecutionTells, RevertTells, RowTells, MovesInv, Executing, fileVars
  <2>4. ExecutionTells("worker")' /\ RevertTells("worker")'
    BY <1>1, <2>1 DEF ExecutionTells, RevertTells, MovesInv, Threads, fileVars
  <2> QED
    BY <1>1, <2>2, <2>3, <2>4 DEF MovesInv, Threads
<1> QED
  BY <1>3, <1>4, <1>5, <1>6, <1>8, <1>9, <1>10 DEF UserStep

\* A revert takes its files back one by one and then says so.
LEMMA TellsRevertStep ==
    ASSUME TypeOK, ThreadsExclusive, RowFollowsThread, GuardSingle, MovesInv, RevertStep
    PROVE  MovesInv'
<1> DEFINE t == "gui"
<1>0. /\ StoreTypeOK /\ t \in Threads
      /\ pc \in [Threads -> PcOf("worker") \cup PcOf("gui")]
      /\ cur \in [Threads -> Jobs \cup {NoJob}]
      /\ todo \in [Threads -> SUBSET Files] /\ moved \in [Threads -> SUBSET Files]
      /\ errors \in [Threads -> BOOLEAN]
      /\ atSource \in [Jobs -> SUBSET Files] /\ atTarget \in [Jobs -> SUBSET Files]
  BY DEF TypeOK, Threads
<1>1. pc[t] = "revert"
  BY DEF RevertStep, RevertFile, EndRevert
<1>2. cur[t] \in Jobs /\ Inside(t)
  BY <1>0, <1>1, CurrentJob DEF Inside
<1>3. status[cur[t]] = "completed"
  BY <1>0, <1>1 DEF RowFollowsThread
<1>4. RowTells(cur[t]) /\ RevertTells(t)
  BY <1>0, <1>2 DEF MovesInv
<1>5. PICK k \in Jobs : k = cur[t]
  BY <1>2
<1>6. ASSUME NEW f \in Files, RevertFile(f) PROVE MovesInv'
  <2>1. /\ UNCHANGED <<status, undo, pc, cur>>
        /\ todo'[t] = todo[t] \ {f}
        /\ \/ /\ atTarget'[k] = atTarget[k] \ {f}
              /\ atSource'[k] = IF KindOf[k] = "rename" THEN atSource[k] \cup {f} ELSE atSource[k]
              /\ UNCHANGED errors
           \/ /\ errors' = [errors EXCEPT ![t] = @ \/ f \in atTarget[k] \/ KindOf[k] = "rename"]
              /\ UNCHANGED fileVars
    BY <1>0, <1>5, <1>6 DEF RevertFile, storeVars
  <2>2. errors' = [errors EXCEPT ![t] = @ \/ f \in atTarget[k] \/ KindOf[k] = "rename"] =>
           errors'[t] \/ (~errors[t] /\ f \notin atTarget[k] /\ KindOf[k] # "rename")
    BY <1>0, Zenon
  <2>3. Elsewhere(t, k)
    BY <1>0, <1>5, <1>6 DEF RevertFile, storeVars, fileVars, Elsewhere
  <2>4. RowTells(k)'
    BY <1>3, <1>4, <1>5, <2>1 DEF RowTells, fileVars
  <2>5. ExecutionTells(t)'
    BY <1>1, <2>1 DEF ExecutionTells, Executing
  <2>6. RevertTells(t)'
    BY <1>0, <1>1, <1>4, <1>5, <2>1, <2>2 DEF RevertTells, fileVars
  <2> QED
    BY <1>0, <1>2, <1>5, <2>3, <2>4, <2>5, <2>6, TellsElsewhere
<1>7. CASE EndRevert
  <2>1. /\ UNCHANGED undo /\ UNCHANGED fileVars /\ UNCHANGED crashes /\ pc'[t] = "idle"
        /\ todo[t] = {}
        /\ status'[k] = IF errors[t] THEN "revert_failed" ELSE "reverted"
    BY <1>0, <1>3, <1>5, <1>7 DEF EndRevert, UpdateStatus, HasRow, Finish, StoreTypeOK, Status, Terminal
  <2>2. Elsewhere(t, k)
    BY <1>0, <1>5, <1>7 DEF EndRevert, UpdateStatus, Finish, StoreTypeOK, fileVars, Elsewhere
  <2>3. RowTells(k)'
    BY <1>1, <1>3, <1>4, <1>5, <2>1 DEF RowTells, RevertTells, fileVars
  <2>4. ExecutionTells(t)' /\ RevertTells(t)'
    BY <2>1 DEF ExecutionTells, RevertTells, Executing
  <2> QED
    BY <1>0, <1>2, <1>5, <2>2, <2>3, <2>4, TellsElsewhere
<1> QED
  BY <1>6, <1>7 DEF RevertStep

LEMMA TellsStep ==
    ASSUME TypeOK, ThreadsExclusive, RowFollowsThread, GuardSingle, MovesInv, [Next]_vars
    PROVE  MovesInv'
<1>0. /\ StoreTypeOK
      /\ pc \in [Threads -> PcOf("worker") \cup PcOf("gui")]
      /\ cur \in [Threads -> Jobs \cup {NoJob}]
      /\ atSource \in [Jobs -> SUBSET Files]
  BY DEF TypeOK
<1>1. ASSUME Fetch PROVE MovesInv'
  <2>1. /\ UNCHANGED <<status, undo, fileVars, moved, todo, errors, up, crashes>>
        /\ pc'["worker"] \notin Executing \cup {"revert"}
        /\ pc'["gui"] = pc["gui"] /\ cur'["gui"] = cur["gui"]
    BY <1>0, <1>1 DEF Fetch, Goto, storeVars, Threads, Executing
  <2> QED
    BY <2>1 DEF MovesInv, RowTells, ExecutionTells, RevertTells, Threads, fileVars, Executing
<1>2. ASSUME WorkerExit PROVE MovesInv'
  <2>1. /\ UNCHANGED <<status, undo, fileVars, cur, moved, todo, errors, up, crashes>>
        /\ pc'["worker"] \notin Executing \cup {"revert"}
        /\ pc'["gui"] = pc["gui"]
    BY <1>0, <1>2 DEF WorkerExit, Goto, storeVars, Threads, Executing
  <2> QED
    BY <2>1 DEF MovesInv, RowTells, ExecutionTells, RevertTells, Threads, fileVars, Executing
<1>3. ASSUME NEW j \in Jobs, Submit(j) PROVE MovesInv'
  <2>1. /\ UNCHANGED <<undo, fileVars, threadVars, crashes, up>>
        /\ status[j] = "absent" /\ status'[j] = "pending"
        /\ \A k \in Jobs \ {j} : status'[k] = status[k]
    BY <1>0, <1>3 DEF Submit, AddJob, StoreTypeOK
  <2>2. \A k \in Jobs : RowTells(k)'
    BY <2>1 DEF RowTells, MovesInv, fileVars
  <2>3. ASSUME NEW t \in Threads PROVE ExecutionTells(t)' /\ RevertTells(t)'
    <3>1. pc[t] \in Executing => cur[t] \in Jobs /\ cur[t] # j
      BY <2>1, CurrentJob DEF RowFollowsThread, Executing
    <3> QED
      BY <2>1, <3>1 DEF ExecutionTells, RevertTells, MovesInv, fileVars, threadVars
  <2> QED
    BY <2>1, <2>2, <2>3 DEF MovesInv
<1>4. ASSUME NEW j \in Jobs, NEW f \in Files, SourceLost(j, f) PROVE MovesInv'
  <2>1. /\ UNCHANGED <<status, undo, atTarget, threadVars, crashes, up>>
        /\ \A k \in Jobs : atSource[k] \subseteq atSource'[k] \cup LosableFiles
    BY <1>0, <1>4 DEF SourceLost, storeVars
  <2>2. \A k \in Jobs : RowTells(k)'
    BY <2>1 DEF RowTells, MovesInv
  <2>3. ASSUME NEW t \in Threads PROVE ExecutionTells(t)' /\ RevertTells(t)'
    <3>1. pc[t] = "revert" => cur[t] \in Jobs
      BY CurrentJob
    <3> QED
      BY <2>1, <3>1 DEF ExecutionTells, RevertTells, MovesInv, threadVars
  <2> QED
    BY <2>1, <2>2, <2>3 DEF MovesInv
<1>5. ASSUME Crash PROVE MovesInv'
  <2>1. /\ UNCHANGED <<status, undo, fileVars>> /\ crashes' = crashes + 1 /\ crashes \in Nat
        /\ \A t \in Threads : pc'[t] = "idle"
    BY <1>5 DEF Crash, storeVars, TypeOK
  <2>2. crashes' # 0
    BY <2>1
  <2>3. \A k \in Jobs : RowTells(k)'
    BY <2>1, <2>2 DEF RowTells, MovesInv, fileVars
  <2> QED
    BY <2>1, <2>2, <2>3 DEF MovesInv, ExecutionTells, RevertTells, Executing
<1>6. ASSUME Restart PROVE MovesInv'
  <2>1. /\ UNCHANGED <<undo, fileVars, threadVars, crashes>> /\ crashes # 0
        /\ \A k \in Jobs : status'[k] = IF status[k] = "running" THEN "failed" ELSE status[k]
        /\ \A t \in Threads : pc'[t] = "idle"
    BY <1>6 DEF Restart, RecoverInterrupted, MovesInv, ThreadsExclusive, threadVars
  <2>2. \A k \in Jobs : RowTells(k)'
    BY <2>1 DEF RowTells, MovesInv, fileVars
  <2> QED
    BY <2>1, <2>2 DEF MovesInv, ExecutionTells, RevertTells, Executing
<1>7. ASSUME UNCHANGED vars PROVE MovesInv'
  BY <1>7 DEF vars, storeVars, fileVars, threadVars, MovesInv, RowTells, ExecutionTells, RevertTells
<1> QED
  BY <1>1, <1>2, <1>3, <1>4, <1>5, <1>6, <1>7, TellsExecuteStep, TellsUserStep, TellsRevertStep
     DEF Next

\* The rows never lie about the moves: whatever crash or failure comes between
\* the moves, set_undo_data and update_status, and between the steps of a
\* revert, a completed job's undo data covers its moves, a reverted job is
\* restored, and short of a crash a failed rename moved nothing.
THEOREM UndoAlwaysTells ==
    ASSUME GuardSingle
    PROVE  Spec => []UndoTellsTheMoves
<1>1. Init => MovesInv
  BY DEF Init, StoreInit, IdleThreads, MovesInv, RowTells, ExecutionTells, RevertTells, Executing
<1>2. TypeOK /\ ThreadsExclusive /\ RowFollowsThread /\ MovesInv /\ [Next]_vars => MovesInv'
  BY TellsStep
<1>3. TypeOK /\ RunningHasOwner /\ MovesInv => UndoTellsTheMoves
  <2> SUFFICES ASSUME TypeOK, RunningHasOwner, MovesInv PROVE UndoTellsTheMoves
    OBVIOUS
  <2>1. CompletedUndoCoversMoves /\ RevertedRestores
    BY DEF MovesInv, RowTells, CompletedUndoCoversMoves, RevertedRestores
  <2>2. ASSUME NEW j \in Jobs, crashes = 0, KindOf[j] = "rename", status[j] # "deleted",
               \A t \in Threads : cur[t] # j
        PROVE  atTarget[j] \subseteq (IF undo[j] = NoUndo THEN {} ELSE undo[j])
    <3>1. status[j] # "running"
      BY <2>2 DEF RunningHasOwner, MovesInv
    <3>2. status[j] \in Status \cup {"absent"}
      BY <2>2 DEF TypeOK, StoreTypeOK
    <3> QED
      BY <2>2, <3>1, <3>2 DEF MovesInv, RowTells, Status, Queued, Terminal
  <2> QED
    BY <2>1, <2>2 DEF UndoTellsTheMoves, MovesAreRecorded
<1> QED
  BY <1>1, <1>2, <1>3, TypeCorrect, ThreadsStayExclusive, RowsFollowThreads,
     NoOrphanedRunningJob, PTL DEF Spec
=============================================================================
