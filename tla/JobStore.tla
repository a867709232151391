------------------------------ MODULE JobStore ------------------------------
(***************************************************************************)
(* The persistent job queue of plex_renamer/job_store.py.                  *)
(*                                                                         *)
(* Every public method of JobStore takes one lock and commits one SQLite   *)
(* transaction, so each method is one action here.  The table is kept as   *)
(* one function per column the queue's correctness depends on: status,     *)
(* position and undo_data.  A job whose row was never inserted is          *)
(* "absent"; one whose row was deleted is "deleted" (job ids are fresh     *)
(* UUIDs, so a deleted id never comes back).                               *)
(*                                                                         *)
(* The module is used twice: on its own, with callers that respect the     *)
(* status life cycle, and as the store of JobQueue, where the executor and *)
(* the GUI decide which operation runs when.                               *)
(***************************************************************************)
EXTENDS Integers, FiniteSets

CONSTANTS
    Jobs,        \* job ids (RenameJob.job_id)
    Files,       \* the selected files of a job
    MediaOf,     \* job -> (media_type, tmdb_id, library_root, data_source)
    KindOf,      \* job -> job_kind
    DependsOn,   \* job -> prerequisite job or NoJob (depends_on)
    NoJob,       \* depends_on IS NULL
    NoUndo,      \* undo_data IS NULL
    Positions    \* values the position column may take (bound for TLC)

Queued   == {"pending", "running"}
Terminal == {"completed", "failed", "cancelled", "reverted", "revert_failed"}
Status   == Queued \cup Terminal

\* The two kinds that may never share a media entity (add_job's explicit check).
ExclusiveKinds == {"rename", "remux"}

ASSUME JobsAssumption ==
    /\ IsFiniteSet(Jobs)
    /\ NoJob \notin Jobs
    /\ DependsOn \in [Jobs -> Jobs \cup {NoJob}]
    /\ DOMAIN MediaOf = Jobs
    /\ DOMAIN KindOf = Jobs

ASSUME PositionsAssumption == Positions \subseteq Nat \ {0}

ASSUME UndoAssumption == \A moves \in SUBSET Files : moves # NoUndo

VARIABLES
    status,      \* jobs.status, or "absent" / "deleted" when there is no row
    position,    \* jobs.position (0 while absent)
    undo         \* jobs.undo_data: the set of files whose move it records

storeVars == <<status, position, undo>>

\* Type invariant: the columns hold values of their domains, and every row has
\* a position of at least 1, as add_job and compact_positions number them.
StoreTypeOK ==
    /\ status \in [Jobs -> Status \cup {"absent", "deleted"}]
    /\ position \in [Jobs -> Nat]
    /\ undo \in [Jobs -> {NoUndo} \cup SUBSET Files]
    /\ \A j \in Jobs : status[j] \in Status => position[j] >= 1

StoreInit ==
    /\ status = [j \in Jobs |-> "absent"]
    /\ position = [j \in Jobs |-> 0]
    /\ undo = [j \in Jobs |-> NoUndo]

HasRow(j)  == status[j] \in Status
Pending    == {j \in Jobs : status[j] = "pending"}
QueuedJobs == {j \in Jobs : status[j] \in Queued}

SameMedia(j, k) == MediaOf[j] = MediaOf[k]

\* A row that idx_jobs_dedup would collide with if j became pending/running.
IndexConflict(j) ==
    \E k \in QueuedJobs \ {j} : SameMedia(j, k) /\ KindOf[j] = KindOf[k]

\* Mutant: the look-up filters on the new job's own kind, like the index does.
CrossKindConflictSameKindOnly(j) ==
    /\ KindOf[j] \in ExclusiveKinds
    /\ \E k \in QueuedJobs : SameMedia(j, k) /\ KindOf[k] = KindOf[j]

\* add_job's own look for a queued rename or remux of the same media entity.
CrossKindConflict(j) ==
    /\ KindOf[j] \in ExclusiveKinds
    /\ \E k \in QueuedJobs : SameMedia(j, k) /\ KindOf[k] \in ExclusiveKinds

\* Mutant: COUNT(*) + 1 instead of MAX(position) + 1.
IsTailPositionByCount(p) == p = Cardinality(QueuedJobs) + 1

\* COALESCE(MAX(position), 0) + 1 over the pending and running rows.
IsTailPosition(p) ==
    /\ \A k \in QueuedJobs : position[k] < p
    /\ p = 1 \/ \E k \in QueuedJobs : position[k] = p - 1

(***************************************************************************)
(* Writes                                                                  *)
(***************************************************************************)
\* DuplicateJobError leaves the table alone, so only the success is a step.
AddJob(j) ==
    /\ status[j] = "absent"
    /\ ~CrossKindConflict(j)
    /\ ~IndexConflict(j)
    /\ \E p \in Positions :
          /\ IsTailPosition(p)
          /\ position' = [position EXCEPT ![j] = p]
    /\ status' = [status EXCEPT ![j] = "pending"]
    /\ UNCHANGED undo

\* UPDATE ... WHERE job_id = ?: it touches nothing when the row is gone, and
\* the caller gets an IntegrityError when the dedup index is in the way.
StatusRejected(j, s) == HasRow(j) /\ s \in Queued /\ IndexConflict(j)

UpdateStatus(j, s) ==
    /\ ~StatusRejected(j, s)
    /\ status' = [status EXCEPT ![j] = IF HasRow(j) THEN s ELSE @]
    /\ UNCHANGED <<position, undo>>

SetUndoData(j, moves) ==
    /\ undo' = [undo EXCEPT ![j] = IF HasRow(j) THEN moves ELSE @]
    /\ UNCHANGED <<status, position>>

DeleteRows(S) ==
    /\ status' = [j \in Jobs |-> IF j \in S THEN "deleted" ELSE status[j]]
    /\ position' = [j \in Jobs |-> IF j \in S THEN 0 ELSE position[j]]
    /\ undo' = [j \in Jobs |-> IF j \in S THEN NoUndo ELSE undo[j]]

\* Mutant: DELETE ... WHERE job_id = ? without the status condition.
RemoveJobsAnyStatus(S) ==
    LET removable == {j \in S : HasRow(j)}
    IN  removable # {} /\ DeleteRows(removable)

RemoveJobs(S) ==
    LET removable == {j \in S : status[j] \in {"pending", "cancelled"}}
    IN  removable # {} /\ DeleteRows(removable)

ClearHistory ==
    LET history == {j \in Jobs : status[j] \in Terminal}
    IN  history # {} /\ DeleteRows(history)

\* Mutant: only the rows with a temp file to sweep are looked at.
RecoverInterruptedRemuxOnly ==
    /\ status' = [j \in Jobs |-> IF status[j] = "running" /\ KindOf[j] = "remux"
                                   THEN "failed" ELSE status[j]]
    /\ UNCHANGED <<position, undo>>

RecoverInterrupted ==
    /\ status' = [j \in Jobs |-> IF status[j] = "running" THEN "failed" ELSE status[j]]
    /\ UNCHANGED <<position, undo>>

(***************************************************************************)
(* Ordering of the pending rows (_job_store_ordering.py).  A list built by *)
(* ORDER BY position is represented by the rank of each row in it.         *)
(***************************************************************************)
RankIn(j, S) == Cardinality({k \in S : position[k] <= position[j]})

\* _write_pending_positions: positions 1..n by new rank, other rows untouched.
WritePendingPositions(newRank) ==
    /\ position' = [j \in Jobs |-> IF j \in Pending THEN newRank[j] ELSE position[j]]
    /\ UNCHANGED <<status, undo>>

\* Index of every pending row in the list, and the span of the selected ones.
RankOf == [j \in Pending |-> RankIn(j, Pending)]
Spans(S, rank, f, l) ==
    LET selected == {rank[j] : j \in S \cap Pending}
    IN  {f, l} \subseteq selected /\ selected \subseteq f .. l

\* Mutant: re-inserted at indices[0] instead of indices[-1].
MoveJobsUpByFirstIndex(S) ==
    LET rank == RankOf
    IN  \E f, l \in 2 .. Cardinality(Pending) :
           /\ Spans(S, rank, f, l)
           /\ WritePendingPositions(
                [j \in Pending |-> CASE rank[j] = f - 1 -> f
                                     [] rank[j] = f     -> f - 1
                                     [] OTHER           -> rank[j]])

\* The row before the first selected one is re-inserted after the last one.
MoveJobsUp(S) ==
    LET rank == RankOf
    IN  \E f, l \in 2 .. Cardinality(Pending) :
           /\ Spans(S, rank, f, l)
           /\ WritePendingPositions(
                [j \in Pending |-> CASE rank[j] = f - 1   -> l
                                     [] rank[j] \in f .. l -> rank[j] - 1
                                     [] OTHER             -> rank[j]])

\* The row after the last selected one is re-inserted before the first one.
MoveJobsDown(S) ==
    LET rank == RankOf
    IN  \E f, l \in 1 .. Cardinality(Pending) - 1 :
           /\ Spans(S, rank, f, l)
           /\ WritePendingPositions(
                [j \in Pending |-> CASE rank[j] = l + 1   -> f
                                     [] rank[j] \in f .. l -> rank[j] + 1
                                     [] OTHER             -> rank[j]])

\* ordered = selected + rest, both in position order.
MoveJobsToTop(S) ==
    LET selected == S \cap Pending
        rest     == Pending \ S
    IN  /\ selected # {}
        /\ WritePendingPositions(
             [j \in Pending |->
                IF j \in selected THEN RankIn(j, selected)
                                  ELSE Cardinality(selected) + RankIn(j, rest)])

\* compact_positions: 1..n over pending and running rows in position order.
\* A running row may tie with a pending one; ORDER BY then takes either first.
CompactFrom(pos) ==
    \E rank \in [QueuedJobs -> 1 .. Cardinality(QueuedJobs)] :
       /\ \A j, k \in QueuedJobs : j # k => rank[j] # rank[k]
       /\ \A j, k \in QueuedJobs : pos[j] < pos[k] => rank[j] < rank[k]
       /\ position' = [j \in Jobs |-> IF j \in QueuedJobs THEN rank[j] ELSE position[j]]
       /\ UNCHANGED <<status, undo>>

\* Shift the pending rows from newPosition on, put j there, compact.
ReorderJob(j, newPosition) ==
    CompactFrom([k \in Jobs |->
        IF k = j /\ k \in Pending THEN newPosition
        ELSE IF k \in Pending /\ position[k] >= newPosition THEN position[k] + 1
        ELSE position[k]])

(***************************************************************************)
(* Reads                                                                   *)
(***************************************************************************)
\* A prerequisite that has no row any more does not block.
Blocked(j) ==
    LET d == DependsOn[j]
    IN  d # NoJob /\ HasRow(d) /\ status[d] # "completed"

IsNextPending(j) ==
    /\ j \in Pending
    /\ ~Blocked(j)
    /\ \A k \in Pending : ~Blocked(k) => position[j] <= position[k]

\* Mutant: a blocked head of the queue ends the search (break, not continue).
NothingToRunBehindBlocked ==
    \A j \in Pending : (\A k \in Pending : position[j] <= position[k]) => Blocked(j)

NothingToRun == \A j \in Pending : Blocked(j)

(***************************************************************************)
(* The store on its own: callers that follow the status life cycle.        *)
(***************************************************************************)
LegalUpdate(old) ==
    CASE old = "pending"   -> {"running", "failed"}
      [] old = "running"   -> {"completed", "failed"}
      [] old = "completed" -> {"reverted", "revert_failed"}
      [] OTHER             -> {}

StoreNext ==
    \/ \E j \in Jobs : AddJob(j)
    \/ \E j \in Jobs : \E s \in LegalUpdate(status[j]) : UpdateStatus(j, s)
    \/ \E j \in Jobs, moves \in SUBSET Files : status[j] = "running" /\ SetUndoData(j, moves)
    \/ \E S \in SUBSET Jobs : RemoveJobs(S)
    \/ ClearHistory
    \/ RecoverInterrupted
    \/ \E S \in SUBSET Jobs : MoveJobsUp(S)
    \/ \E S \in SUBSET Jobs : MoveJobsDown(S)
    \/ \E S \in SUBSET Jobs : MoveJobsToTop(S)
    \/ \E j \in Jobs, p \in 1 .. Cardinality(Jobs) : ReorderJob(j, p)

StoreSpec == StoreInit /\ [][StoreNext]_storeVars

(***************************************************************************)
(* Properties                                                              *)
(***************************************************************************)
\* No two pending rows share a position, through any sequence of inserts,
\* deletions, moves and status changes: ORDER BY position in get_next_pending
\* and get_queue is then a total order and the queue runs first come first
\* served.
PendingPositionsDistinct ==
    \A j, k \in Pending : position[j] = position[k] => j = k

\* A media entity never holds a rename and a remux job, nor two jobs of one
\* kind, in the queue at the same time (add_job's comment and idx_jobs_dedup).
OneQueuedJobPerMedia ==
    \A j, k \in QueuedJobs :
       SameMedia(j, k) /\ {KindOf[j], KindOf[k]} \subseteq ExclusiveKinds => j = k

\* A step of one of the ordering operations.
Reordered == status' = status /\ position' # position

Flipped(j, k) == (position[j] < position[k]) # (position'[j] < position'[k])

\* move_jobs and move_jobs_to_top preserve the relative order of the rows they
\* are given, contiguous or not.
SelectionKeepsOrder ==
    [][Reordered => \A S \in SUBSET Pending :
          MoveJobsUp(S) \/ MoveJobsDown(S) \/ MoveJobsToTop(S) =>
             \A j, k \in S : ~Flipped(j, k)]_storeVars

Contiguous(S) ==
    \A j, k \in S \cap Pending, m \in Pending :
       position[j] < position[m] /\ position[m] < position[k] => m \in S

\* Moving a contiguous selection up or down changes its order with exactly one
\* other pending row, the neighbour it jumps over, and nothing else's.
BlockMoveSwapsNeighbour ==
    [][Reordered => \A S \in SUBSET Pending :
          (MoveJobsUp(S) \/ MoveJobsDown(S)) /\ Contiguous(S) =>
             \E n \in Pending \ S : \A j, k \in Pending :
                Flipped(j, k) <=> \/ j = n /\ k \in S
                                  \/ k = n /\ j \in S]_storeVars

\* After reorder_job(j, p) the job stands before exactly the pending rows that
\* were at p or later, whatever running rows the compaction renumbers as well.
ReorderLands ==
    [][Reordered => \A j \in Pending, p \in 1 .. Cardinality(Jobs) :
          \/ \A k \in Pending \ {j} : position'[j] < position'[k] <=> position[k] >= p
          \/ ~ReorderJob(j, p)]_storeVars

\* What the ordering operations of the queue promise of the rows they are given
\* and of the others (_job_store_ordering.py).
SelectionsMoveTogether ==
    SelectionKeepsOrder /\ BlockMoveSwapsNeighbour /\ ReorderLands
=============================================================================
