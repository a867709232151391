--------------------------- MODULE JobStoreProofs ---------------------------
(***************************************************************************)
(* Theorems about JobStore, for any number of jobs, media entities and     *)
(* files: the type invariant, the two invariants of the queue, and the     *)
(* lemmas about single operations that JobQueueProofs builds on.           *)
(***************************************************************************)
EXTENDS JobStore, FiniteSetTheorems, TLAPS

(***************************************************************************)
(* Ranks                                                                   *)
(***************************************************************************)
\* The rank of a row in a set of rows is a positive number of at most its size.
LEMMA RankBounds ==
    ASSUME NEW S \in SUBSET Jobs, NEW j \in S, StoreTypeOK
    PROVE  RankIn(j, S) \in 1 .. Cardinality(S)
<1> DEFINE upto == {k \in S : position[k] <= position[j]}
<1>1. IsFiniteSet(S)
  BY FS_Subset, JobsAssumption DEF JobsAssumption
<1>2. IsFiniteSet(upto) /\ Cardinality(upto) <= Cardinality(S)
  BY <1>1, FS_Subset
<1>3. Cardinality(upto) \in Nat /\ Cardinality(S) \in Nat
  BY <1>1, <1>2, FS_CardinalityType
<1>4. j \in upto
  BY DEF StoreTypeOK
<1>5. Cardinality(upto) # 0
  BY <1>2, <1>4, FS_EmptySet
<1> QED
  BY <1>2, <1>3, <1>5 DEF RankIn

\* Ranks follow positions: they tell apart rows whose positions differ.
LEMMA RankStrict ==
    ASSUME NEW S \in SUBSET Jobs, NEW j \in S, NEW k \in S, StoreTypeOK,
           position[j] < position[k]
    PROVE  RankIn(j, S) < RankIn(k, S)
<1> DEFINE uptoJ == {m \in S : position[m] <= position[j]}
           uptoK == {m \in S : position[m] <= position[k]}
<1>1. IsFiniteSet(S)
  BY FS_Subset, JobsAssumption DEF JobsAssumption
<1>2. IsFiniteSet(uptoK)
  BY <1>1, FS_Subset
<1>3. position[j] \in Nat /\ position[k] \in Nat /\ \A m \in S : position[m] \in Nat
  BY DEF StoreTypeOK
<1>4. uptoJ \in SUBSET uptoK
  BY <1>3
<1>5. k \in uptoK /\ k \notin uptoJ
  BY <1>3
<1>6. /\ IsFiniteSet(uptoJ)
      /\ Cardinality(uptoJ) <= Cardinality(uptoK)
      /\ Cardinality(uptoK) = Cardinality(uptoJ) => uptoK = uptoJ
  <2> HIDE DEF uptoJ, uptoK
  <2> QED BY <1>2, <1>4, FS_Subset
<1>7. Cardinality(uptoJ) \in Nat /\ Cardinality(uptoK) \in Nat
  BY <1>2, <1>6, FS_CardinalityType
<1>8. Cardinality(uptoJ) # Cardinality(uptoK)
  BY <1>5, <1>6
<1> QED
  BY <1>6, <1>7, <1>8 DEF RankIn

\* Rows with distinct positions have distinct ranks.
LEMMA RankInjective ==
    ASSUME NEW S \in SUBSET Pending, StoreTypeOK, PendingPositionsDistinct,
           NEW j \in S, NEW k \in S, RankIn(j, S) = RankIn(k, S)
    PROVE  j = k
<1>1. S \in SUBSET Jobs
  BY DEF Pending
<1>2. RankIn(j, S) \in Nat /\ RankIn(k, S) \in Nat
  <2>1. IsFiniteSet(S)
    BY <1>1, FS_Subset, JobsAssumption DEF JobsAssumption
  <2>2. Cardinality(S) \in Nat
    BY <2>1, FS_CardinalityType
  <2> QED
    BY <1>1, <2>2, RankBounds
<1>3. ~(position[j] < position[k]) /\ ~(position[k] < position[j])
  BY <1>1, <1>2, RankStrict
<1>4. position[j] = position[k]
  BY <1>1, <1>3 DEF StoreTypeOK
<1> QED
  BY <1>4 DEF PendingPositionsDistinct

(***************************************************************************)
(* Single operations                                                       *)
(***************************************************************************)
\* Operations on rows keep the columns in their domains.
LEMMA WritesKeepType ==
    ASSUME StoreTypeOK
    PROVE  /\ \A j \in Jobs : AddJob(j) => StoreTypeOK'
           /\ \A j \in Jobs, s \in Status : UpdateStatus(j, s) => StoreTypeOK'
           /\ \A j \in Jobs, moves \in SUBSET Files : SetUndoData(j, moves) => StoreTypeOK'
           /\ \A S \in SUBSET Jobs : RemoveJobs(S) => StoreTypeOK'
           /\ ClearHistory => StoreTypeOK'
           /\ RecoverInterrupted => StoreTypeOK'
<1>1. ASSUME NEW j \in Jobs, AddJob(j) PROVE StoreTypeOK'
  BY <1>1, PositionsAssumption DEF AddJob, StoreTypeOK, Status, Queued
<1>2. ASSUME NEW j \in Jobs, NEW s \in Status, UpdateStatus(j, s) PROVE StoreTypeOK'
  BY <1>2 DEF UpdateStatus, HasRow, StoreTypeOK
<1>3. ASSUME NEW j \in Jobs, NEW moves \in SUBSET Files, SetUndoData(j, moves)
      PROVE  StoreTypeOK'
  BY <1>3 DEF SetUndoData, StoreTypeOK
<1>4. ASSUME NEW S \in SUBSET Jobs, DeleteRows(S) PROVE StoreTypeOK'
  BY <1>4 DEF DeleteRows, StoreTypeOK, Status, Queued, Terminal
<1>5. ASSUME NEW S \in SUBSET Jobs, RemoveJobs(S) PROVE StoreTypeOK'
  BY <1>4, <1>5 DEF RemoveJobs
<1>6. ASSUME ClearHistory PROVE StoreTypeOK'
  BY <1>4, <1>6 DEF ClearHistory
<1>7. ASSUME RecoverInterrupted PROVE StoreTypeOK'
  BY <1>7 DEF RecoverInterrupted, StoreTypeOK, Status, Queued, Terminal
<1> QED
  BY <1>1, <1>2, <1>3, <1>5, <1>6, <1>7

\* Renumbering the pending rows keeps the type when every new rank is positive.
LEMMA WritePositionsKeepsType ==
    ASSUME StoreTypeOK, NEW newRank,
           \A j \in Pending : newRank[j] \in Nat \ {0},
           WritePendingPositions(newRank)
    PROVE  StoreTypeOK'
BY DEF WritePendingPositions, StoreTypeOK, Pending

\* ... and the positions of pending rows distinct when the new ranks are.
LEMMA WritePositionsKeepsDistinct ==
    ASSUME StoreTypeOK, NEW newRank,
           \A j, k \in Pending : newRank[j] = newRank[k] => j = k,
           WritePendingPositions(newRank)
    PROVE  PendingPositionsDistinct'
BY DEF WritePendingPositions, StoreTypeOK, Pending, PendingPositionsDistinct

\* The number of pending rows, and the rank of each one among them.
LEMMA PendingCardinality ==
    /\ IsFiniteSet(Pending)
    /\ Cardinality(Pending) \in Nat
<1>1. Pending \in SUBSET Jobs
  BY DEF Pending
<1> QED
  BY <1>1, FS_Subset, FS_CardinalityType, JobsAssumption DEF JobsAssumption

\* The three moves of a selection keep the type; with distinct positions
\* before, they leave distinct positions.
LEMMA MovesKeepType ==
    ASSUME StoreTypeOK, NEW S \in SUBSET Jobs,
           MoveJobsUp(S) \/ MoveJobsDown(S) \/ MoveJobsToTop(S)
    PROVE  StoreTypeOK'
<1>0. Pending \in SUBSET Jobs /\ Cardinality(Pending) \in Nat
  BY PendingCardinality DEF Pending
<1>1. \A j \in Pending : RankOf[j] = RankIn(j, Pending) /\ RankOf[j] \in 1 .. Cardinality(Pending)
  BY <1>0, RankBounds DEF RankOf
<1>2. CASE MoveJobsUp(S)
  <2> DEFINE newRank(f, l) ==
               [j \in Pending |-> CASE RankOf[j] = f - 1   -> l
                                    [] RankOf[j] \in f .. l -> RankOf[j] - 1
                                    [] OTHER               -> RankOf[j]]
  <2>1. PICK f, l \in 2 .. Cardinality(Pending) : WritePendingPositions(newRank(f, l))
    BY <1>2 DEF MoveJobsUp
  <2>2. \A j \in Pending : newRank(f, l)[j] \in Nat \ {0}
    BY <1>0, <1>1
  <2> HIDE DEF newRank
  <2> QED
    BY <2>1, <2>2, WritePositionsKeepsType
<1>3. CASE MoveJobsDown(S)
  <2> DEFINE newRank(f, l) ==
               [j \in Pending |-> CASE RankOf[j] = l + 1   -> f
                                    [] RankOf[j] \in f .. l -> RankOf[j] + 1
                                    [] OTHER               -> RankOf[j]]
  <2>1. PICK f, l \in 1 .. Cardinality(Pending) - 1 : WritePendingPositions(newRank(f, l))
    BY <1>3 DEF MoveJobsDown
  <2>2. \A j \in Pending : newRank(f, l)[j] \in Nat \ {0}
    BY <1>0, <1>1
  <2> HIDE DEF newRank
  <2> QED
    BY <2>1, <2>2, WritePositionsKeepsType
<1>4. CASE MoveJobsToTop(S)
  <2> DEFINE selected == S \cap Pending
             rest == Pending \ S
             newRank == [j \in Pending |->
                           IF j \in selected THEN RankIn(j, selected)
                                             ELSE Cardinality(selected) + RankIn(j, rest)]
  <2>1. WritePendingPositions(newRank)
    BY <1>4 DEF MoveJobsToTop
  <2>2. selected \in SUBSET Jobs /\ rest \in SUBSET Jobs
    BY <1>0
  <2>3. Cardinality(selected) \in Nat /\ Cardinality(rest) \in Nat
    BY <2>2, FS_Subset, FS_CardinalityType, JobsAssumption DEF JobsAssumption
  <2>4. \A j \in selected : RankIn(j, selected) \in Nat \ {0}
    BY <2>2, <2>3, RankBounds
  <2>5. \A j \in rest : RankIn(j, rest) \in Nat \ {0}
    BY <2>2, <2>3, RankBounds
  <2>6. \A j \in Pending : newRank[j] \in Nat \ {0}
    BY <2>3, <2>4, <2>5
  <2> HIDE DEF newRank
  <2> QED
    BY <2>1, <2>6, WritePositionsKeepsType
<1> QED
  BY <1>2, <1>3, <1>4

LEMMA MovesKeepDistinct ==
    ASSUME StoreTypeOK, PendingPositionsDistinct, NEW S \in SUBSET Jobs,
           MoveJobsUp(S) \/ MoveJobsDown(S) \/ MoveJobsToTop(S)
    PROVE  PendingPositionsDistinct'
<1>0. Pending \in SUBSET Jobs /\ Cardinality(Pending) \in Nat
  BY PendingCardinality DEF Pending
<1>1. \A j \in Pending : RankOf[j] = RankIn(j, Pending) /\ RankOf[j] \in 1 .. Cardinality(Pending)
  BY <1>0, RankBounds DEF RankOf
<1>2. \A j, k \in Pending : RankOf[j] = RankOf[k] => j = k
  BY <1>1, RankInjective
<1>3. CASE MoveJobsUp(S)
  <2> DEFINE newRank(f, l) ==
               [j \in Pending |-> CASE RankOf[j] = f - 1   -> l
                                    [] RankOf[j] \in f .. l -> RankOf[j] - 1
                                    [] OTHER               -> RankOf[j]]
  <2>1. PICK f, l \in 2 .. Cardinality(Pending) :
           Spans(S, RankOf, f, l) /\ WritePendingPositions(newRank(f, l))
    BY <1>3 DEF MoveJobsUp
  <2>2. f <= l
    BY <2>1, <1>0 DEF Spans
  <2>3. \A j, k \in Pending : newRank(f, l)[j] = newRank(f, l)[k] => RankOf[j] = RankOf[k]
    BY <1>0, <1>1, <2>2
  <2> HIDE DEF newRank
  <2> QED
    BY <1>2, <2>1, <2>3, WritePositionsKeepsDistinct
<1>4. CASE MoveJobsDown(S)
  <2> DEFINE newRank(f, l) ==
               [j \in Pending |-> CASE RankOf[j] = l + 1   -> f
                                    [] RankOf[j] \in f .. l -> RankOf[j] + 1
                                    [] OTHER               -> RankOf[j]]
  <2>1. PICK f, l \in 1 .. Cardinality(Pending) - 1 :
           Spans(S, RankOf, f, l) /\ WritePendingPositions(newRank(f, l))
    BY <1>4 DEF MoveJobsDown
  <2>2. f <= l
    BY <2>1, <1>0 DEF Spans
  <2>3. \A j, k \in Pending : newRank(f, l)[j] = newRank(f, l)[k] => RankOf[j] = RankOf[k]
    BY <1>0, <1>1, <2>2
  <2> HIDE DEF newRank
  <2> QED
    BY <1>2, <2>1, <2>3, WritePositionsKeepsDistinct
<1>5. CASE MoveJobsToTop(S)
  <2> DEFINE selected == S \cap Pending
             rest == Pending \ S
             newRank == [j \in Pending |->
                           IF j \in selected THEN RankIn(j, selected)
                                             ELSE Cardinality(selected) + RankIn(j, rest)]
  <2>1. WritePendingPositions(newRank)
    BY <1>5 DEF MoveJobsToTop
  <2>2. selected \in SUBSET Pending /\ rest \in SUBSET Pending
    OBVIOUS
  <2>3. Cardinality(selected) \in Nat /\ Cardinality(rest) \in Nat
    BY <1>0, <2>2, FS_Subset, FS_CardinalityType, JobsAssumption DEF JobsAssumption
  <2>4. \A j \in selected : RankIn(j, selected) \in 1 .. Cardinality(selected)
    BY <1>0, <2>2, RankBounds
  <2>5. \A j \in rest : RankIn(j, rest) \in 1 .. Cardinality(rest)
    BY <1>0, <2>2, RankBounds
  <2>6. \A j, k \in selected : RankIn(j, selected) = RankIn(k, selected) => j = k
    BY <2>2, RankInjective
  <2>7. \A j, k \in rest : RankIn(j, rest) = RankIn(k, rest) => j = k
    BY <2>2, RankInjective
  <2>8. \A j, k \in Pending : newRank[j] = newRank[k] => j = k
    BY <2>3, <2>4, <2>5, <2>6, <2>7
  <2> HIDE DEF newRank
  <2> QED
    BY <2>1, <2>8, WritePositionsKeepsDistinct
<1> QED
  BY <1>3, <1>4, <1>5

\* Compaction numbers the queued rows from 1, each differently.
LEMMA CompactionKeeps ==
    ASSUME StoreTypeOK, NEW pos, CompactFrom(pos)
    PROVE  StoreTypeOK' /\ PendingPositionsDistinct'
<1>1. IsFiniteSet(QueuedJobs) /\ Cardinality(QueuedJobs) \in Nat
  <2>1. QueuedJobs \in SUBSET Jobs
    BY DEF QueuedJobs
  <2> QED
    BY <2>1, FS_Subset, FS_CardinalityType, JobsAssumption DEF JobsAssumption
<1>2. PICK rank \in [QueuedJobs -> 1 .. Cardinality(QueuedJobs)] :
         /\ \A j, k \in QueuedJobs : j # k => rank[j] # rank[k]
         /\ position' = [j \in Jobs |-> IF j \in QueuedJobs THEN rank[j] ELSE position[j]]
         /\ UNCHANGED <<status, undo>>
  BY DEF CompactFrom
<1>3. \A j \in QueuedJobs : rank[j] \in Nat \ {0}
  BY <1>1, <1>2
<1>4. StoreTypeOK'
  BY <1>2, <1>3 DEF StoreTypeOK
<1>5. PendingPositionsDistinct'
  BY <1>2 DEF PendingPositionsDistinct, Pending, QueuedJobs, Queued
<1> QED
  BY <1>4, <1>5

\* A new row goes behind every queued one.
LEMMA AddJobPosition ==
    ASSUME StoreTypeOK, PendingPositionsDistinct, NEW j \in Jobs, AddJob(j)
    PROVE  PendingPositionsDistinct'
<1>1. PICK p \in Positions : /\ IsTailPosition(p)
                             /\ position' = [position EXCEPT ![j] = p]
  BY DEF AddJob
<1>2. /\ status' = [status EXCEPT ![j] = "pending"]
      /\ Pending' = Pending \cup {j}
      /\ Pending \subseteq QueuedJobs
      /\ j \notin QueuedJobs
  BY DEF AddJob, StoreTypeOK, Pending, QueuedJobs, Queued
<1>3. \A k \in Pending : k # j /\ position'[k] = position[k] /\ position[k] < p
  BY <1>1, <1>2 DEF IsTailPosition, StoreTypeOK, Pending, QueuedJobs, Queued
<1>4. position'[j] = p /\ \A k \in Pending : position[k] # p
  <2>1. p \in Nat /\ \A k \in Pending : position[k] \in Nat
    BY PositionsAssumption DEF StoreTypeOK, Pending
  <2> QED
    BY <1>1, <1>3, <2>1 DEF StoreTypeOK
<1> QED
  BY <1>2, <1>3, <1>4 DEF PendingPositionsDistinct

\* ... and shares its media entity with none of them.
LEMMA AddJobMedia ==
    ASSUME StoreTypeOK, OneQueuedJobPerMedia, NEW j \in Jobs, AddJob(j)
    PROVE  OneQueuedJobPerMedia'
<1>1. QueuedJobs' = QueuedJobs \cup {j} /\ j \notin QueuedJobs
  BY DEF AddJob, StoreTypeOK, QueuedJobs, Queued
<1>2. \A k \in QueuedJobs : ~(SameMedia(j, k) /\ {KindOf[j], KindOf[k]} \subseteq ExclusiveKinds)
  BY DEF AddJob, CrossKindConflict
<1> QED
  BY <1>1, <1>2 DEF OneQueuedJobPerMedia, SameMedia

\* An operation that adds nothing to the queue and renumbers nothing that stays
\* pending keeps both invariants.
LEMMA ShrinkingKeeps ==
    ASSUME PendingPositionsDistinct, Pending' \subseteq Pending,
           \A j \in Pending' : position'[j] = position[j]
    PROVE  PendingPositionsDistinct'
BY DEF PendingPositionsDistinct

LEMMA QueueShrinkingKeeps ==
    ASSUME OneQueuedJobPerMedia, QueuedJobs' \subseteq QueuedJobs
    PROVE  OneQueuedJobPerMedia'
BY DEF OneQueuedJobPerMedia, SameMedia

\* Which rows are in the queue after an operation that is not add_job.
LEMMA WritesShrinkPending ==
    ASSUME StoreTypeOK
    PROVE  /\ \A j \in Jobs, s \in Status \ {"pending"} : UpdateStatus(j, s) =>
                 Pending' \subseteq Pending /\ position' = position
           /\ \A S \in SUBSET Jobs : RemoveJobs(S) \/ ClearHistory =>
                 /\ Pending' \subseteq Pending
                 /\ QueuedJobs' \subseteq QueuedJobs
                 /\ \A j \in Pending' : position'[j] = position[j]
           /\ RecoverInterrupted =>
                 /\ Pending' \subseteq Pending
                 /\ QueuedJobs' \subseteq QueuedJobs
                 /\ position' = position
<1>1. ASSUME NEW j \in Jobs, NEW s \in Status \ {"pending"}, UpdateStatus(j, s)
      PROVE  Pending' \subseteq Pending /\ position' = position
  BY <1>1 DEF UpdateStatus, StoreTypeOK, Pending
<1>2. ASSUME NEW S \in SUBSET Jobs, DeleteRows(S)
      PROVE  /\ Pending' \subseteq Pending
             /\ QueuedJobs' \subseteq QueuedJobs
             /\ \A j \in Pending' : position'[j] = position[j]
  BY <1>2 DEF DeleteRows, Pending, QueuedJobs, Queued
<1>3. ASSUME RecoverInterrupted
      PROVE  /\ Pending' \subseteq Pending
             /\ QueuedJobs' \subseteq QueuedJobs
             /\ position' = position
  BY <1>3 DEF RecoverInterrupted, Pending, QueuedJobs, Queued
<1>4. ASSUME NEW S \in SUBSET Jobs, RemoveJobs(S) \/ ClearHistory
      PROVE  \E D \in SUBSET Jobs : DeleteRows(D)
  BY <1>4 DEF RemoveJobs, ClearHistory
<1> QED
  BY <1>1, <1>2, <1>3, <1>4

(***************************************************************************)
(* The store on its own                                                    *)
(***************************************************************************)
StoreInv == StoreTypeOK /\ PendingPositionsDistinct /\ OneQueuedJobPerMedia

\* Every operation of the store keeps the three invariants together: add_job
\* needs the positions' type to number the new row, the moves need distinct
\* positions before to leave distinct positions behind.
LEMMA StoreStep ==
    ASSUME StoreInv, [StoreNext]_storeVars
    PROVE  StoreInv'
<1> USE DEF StoreInv
<1>1. ASSUME NEW j \in Jobs, AddJob(j) PROVE StoreInv'
  BY <1>1, WritesKeepType, AddJobPosition, AddJobMedia
<1>2. ASSUME NEW j \in Jobs, NEW s \in LegalUpdate(status[j]), UpdateStatus(j, s)
      PROVE  StoreInv'
  <2>1. s \in Status \ {"pending"}
    BY <1>2 DEF LegalUpdate, Status, Queued, Terminal
  <2>2. StoreTypeOK' /\ PendingPositionsDistinct'
    BY <1>2, <2>1, WritesKeepType, WritesShrinkPending, ShrinkingKeeps DEF Pending
  <2>3. QueuedJobs' \subseteq QueuedJobs
    BY <1>2 DEF LegalUpdate, UpdateStatus, StoreTypeOK, QueuedJobs, Queued
  <2> QED
    BY <2>2, <2>3, QueueShrinkingKeeps
<1>3. ASSUME NEW j \in Jobs, NEW moves \in SUBSET Files, SetUndoData(j, moves)
      PROVE  StoreInv'
  <2>1. UNCHANGED <<status, position>>
    BY <1>3 DEF SetUndoData
  <2>2. Pending' = Pending /\ QueuedJobs' = QueuedJobs
    BY <2>1 DEF Pending, QueuedJobs
  <2> QED
    BY <1>3, <2>1, <2>2, WritesKeepType, ShrinkingKeeps, QueueShrinkingKeeps
<1>4. ASSUME NEW S \in SUBSET Jobs, RemoveJobs(S) \/ ClearHistory PROVE StoreInv'
  BY <1>4, WritesKeepType, WritesShrinkPending, ShrinkingKeeps, QueueShrinkingKeeps
<1>5. ASSUME RecoverInterrupted PROVE StoreInv'
  BY <1>5, WritesKeepType, WritesShrinkPending, ShrinkingKeeps, QueueShrinkingKeeps
<1>6. ASSUME UNCHANGED status PROVE OneQueuedJobPerMedia'
  BY <1>6, QueueShrinkingKeeps DEF QueuedJobs
<1>7. ASSUME NEW S \in SUBSET Jobs, MoveJobsUp(S) \/ MoveJobsDown(S) \/ MoveJobsToTop(S)
      PROVE  StoreInv'
  <2>1. UNCHANGED status
    BY <1>7 DEF MoveJobsUp, MoveJobsDown, MoveJobsToTop, WritePendingPositions
  <2> QED
    BY <1>6, <1>7, <2>1, MovesKeepType, MovesKeepDistinct
<1>8. ASSUME NEW j \in Jobs, NEW p \in 1 .. Cardinality(Jobs), ReorderJob(j, p) PROVE StoreInv'
  <2>1. UNCHANGED status
    BY <1>8 DEF ReorderJob, CompactFrom
  <2> QED
    BY <1>6, <1>8, <2>1, CompactionKeeps DEF ReorderJob
<1>9. ASSUME UNCHANGED storeVars PROVE StoreInv'
  BY <1>9 DEF storeVars, StoreTypeOK, PendingPositionsDistinct, OneQueuedJobPerMedia,
              Pending, QueuedJobs, SameMedia
<1> QED
  BY <1>1, <1>2, <1>3, <1>4, <1>5, <1>7, <1>8, <1>9 DEF StoreNext

LEMMA StoreInitInv == StoreInit => StoreInv
BY DEF StoreInit, StoreInv, StoreTypeOK, PendingPositionsDistinct, OneQueuedJobPerMedia,
       Pending, QueuedJobs, Status, Queued, Terminal

LEMMA StoreInvariance == StoreSpec => []StoreInv
BY StoreInitInv, StoreStep, PTL DEF StoreSpec

\* Whatever the callers of the store do within a row's life cycle, its columns
\* stay in their domains.
THEOREM StoreTypeCorrect == StoreSpec => []StoreTypeOK
<1>1. StoreInv => StoreTypeOK
  BY DEF StoreInv
<1> QED
  BY <1>1, StoreInvariance, PTL

\* No sequence of inserts, removals, moves and status changes gives two pending
\* jobs the same position.
THEOREM PositionsStayDistinct == StoreSpec => []PendingPositionsDistinct
<1>1. StoreInv => PendingPositionsDistinct
  BY DEF StoreInv
<1> QED
  BY <1>1, StoreInvariance, PTL

\* The store alone never lets a media entity hold two rename or remux jobs,
\* as long as no caller re-activates a row that has left the queue.
THEOREM QueueHoldsMediaOnce == StoreSpec => []OneQueuedJobPerMedia
<1>1. StoreInv => OneQueuedJobPerMedia
  BY DEF StoreInv
<1> QED
  BY <1>1, StoreInvariance, PTL
(***************************************************************************)
(* What the ordering operations promise                                    *)
(***************************************************************************)
\* With distinct positions the rank of a pending row is its place in the list:
\* it orders the rows as their positions do, and every place is taken.
LEMMA Places ==
    ASSUME StoreTypeOK, PendingPositionsDistinct
    PROVE  /\ Cardinality(Pending) \in Nat
           /\ \A j \in Pending : RankOf[j] \in 1 .. Cardinality(Pending)
           /\ \A j, k \in Pending : position[j] < position[k] <=> RankOf[j] < RankOf[k]
           /\ \A j, k \in Pending : RankOf[j] = RankOf[k] => j = k
           /\ \A r \in 1 .. Cardinality(Pending) : \E j \in Pending : RankOf[j] = r
<1> DEFINE n == Cardinality(Pending)
<1>0. Pending \in SUBSET Jobs /\ n \in Nat
  BY PendingCardinality DEF Pending
<1>1. \A j \in Pending : RankOf[j] = RankIn(j, Pending) /\ RankOf[j] \in 1 .. n
  BY <1>0, RankBounds DEF RankOf
<1>2. \A j, k \in Pending : RankOf[j] = RankOf[k] => j = k
  BY <1>1, RankInjective
<1>3. \A j, k \in Pending : position[j] < position[k] => RankOf[j] < RankOf[k]
  BY <1>0, <1>1, RankStrict
<1>4. \A j \in Pending : position[j] \in Nat
  BY DEF StoreTypeOK, Pending
<1>5. ASSUME NEW j \in Pending, NEW k \in Pending, RankOf[j] < RankOf[k]
      PROVE  position[j] < position[k]
  <2>1. j # k /\ ~(RankOf[k] < RankOf[j])
    BY <1>0, <1>1, <1>5
  <2> QED
    BY <1>3, <1>4, <2>1 DEF PendingPositionsDistinct
<1>6. RankOf \in Injection(Pending, 1 .. n)
  BY <1>1, <1>2 DEF RankOf, Injection, IsInjective
<1>7. IsFiniteSet(1 .. n) /\ Cardinality(1 .. n) = n
  BY <1>0, FS_Interval
<1>8. RankOf \in Surjection(Pending, 1 .. n)
  BY <1>6, <1>7, FS_Injection
<1> QED
  BY <1>0, <1>1, <1>2, <1>3, <1>5, <1>8 DEF Surjection

\* A write of new places makes them the positions.
LEMMA WrittenPlaces ==
    ASSUME StoreTypeOK, NEW newRank, WritePendingPositions(newRank)
    PROVE  \A j \in Pending : position'[j] = newRank[j]
BY DEF WritePendingPositions, Pending

\* What a move of the selection S up or down does to the places of the rows.
MovedUp(S, f, l) ==
    /\ f \in 2 .. Cardinality(Pending) /\ l \in 2 .. Cardinality(Pending)
    /\ Spans(S, RankOf, f, l)
    /\ \A j \in Pending :
          position'[j] = CASE RankOf[j] = f - 1     -> l
                           [] RankOf[j] \in f .. l -> RankOf[j] - 1
                           [] OTHER                -> RankOf[j]

MovedDown(S, f, l) ==
    /\ f \in 1 .. Cardinality(Pending) - 1 /\ l \in 1 .. Cardinality(Pending) - 1
    /\ Spans(S, RankOf, f, l)
    /\ \A j \in Pending :
          position'[j] = CASE RankOf[j] = l + 1     -> f
                           [] RankOf[j] \in f .. l -> RankOf[j] + 1
                           [] OTHER                -> RankOf[j]

LEMMA MovesWritten ==
    ASSUME StoreTypeOK, NEW S
    PROVE  /\ MoveJobsUp(S) => \E f, l \in 2 .. Cardinality(Pending) : MovedUp(S, f, l)
           /\ MoveJobsDown(S) => \E f, l \in 1 .. Cardinality(Pending) - 1 : MovedDown(S, f, l)
<1>1. ASSUME MoveJobsUp(S)
      PROVE  \E f, l \in 2 .. Cardinality(Pending) : MovedUp(S, f, l)
  <2> DEFINE newRank(f, l) ==
               [j \in Pending |-> CASE RankOf[j] = f - 1   -> l
                                    [] RankOf[j] \in f .. l -> RankOf[j] - 1
                                    [] OTHER               -> RankOf[j]]
  <2>1. PICK f, l \in 2 .. Cardinality(Pending) :
           Spans(S, RankOf, f, l) /\ WritePendingPositions(newRank(f, l))
    BY <1>1 DEF MoveJobsUp
  <2>2. \A j \in Pending : position'[j] = newRank(f, l)[j]
    BY <2>1, WrittenPlaces
  <2> QED
    BY <2>1, <2>2 DEF MovedUp
<1>2. ASSUME MoveJobsDown(S)
      PROVE  \E f, l \in 1 .. Cardinality(Pending) - 1 : MovedDown(S, f, l)
  <2> DEFINE newRank(f, l) ==
               [j \in Pending |-> CASE RankOf[j] = l + 1   -> f
                                    [] RankOf[j] \in f .. l -> RankOf[j] + 1
                                    [] OTHER               -> RankOf[j]]
  <2>1. PICK f, l \in 1 .. Cardinality(Pending) - 1 :
           Spans(S, RankOf, f, l) /\ WritePendingPositions(newRank(f, l))
    BY <1>2 DEF MoveJobsDown
  <2>2. \A j \in Pending : position'[j] = newRank(f, l)[j]
    BY <2>1, WrittenPlaces
  <2> QED
    BY <2>1, <2>2 DEF MovedDown
<1> QED
  BY <1>1, <1>2

\* The rows of a selection lie between its first and its last, both of which
\* are of it.
LEMMA SelectionSpans ==
    ASSUME StoreTypeOK, PendingPositionsDistinct, NEW S \in SUBSET Pending,
           NEW f, NEW l, Spans(S, RankOf, f, l)
    PROVE  /\ \A j \in S : RankOf[j] \in f .. l
           /\ \E j \in S : RankOf[j] = f
           /\ \E j \in S : RankOf[j] = l
           /\ f \in 1 .. Cardinality(Pending) /\ l \in 1 .. Cardinality(Pending)
           /\ f <= l
<1>1. /\ \A j \in S : RankOf[j] \in f .. l
      /\ \E j \in S : RankOf[j] = f
      /\ \E j \in S : RankOf[j] = l
  BY DEF Spans
<1>2. f \in 1 .. Cardinality(Pending) /\ l \in 1 .. Cardinality(Pending) /\ f \in f .. l
  BY <1>1, Places
<1> QED
  BY <1>1, <1>2, Places

\* A selection without gaps takes every place from its first row to its last.
LEMMA BlockSpans ==
    ASSUME StoreTypeOK, PendingPositionsDistinct, NEW S \in SUBSET Pending, Contiguous(S),
           NEW f, NEW l, Spans(S, RankOf, f, l)
    PROVE  \A j \in Pending : j \in S <=> RankOf[j] \in f .. l
<1>1. ASSUME NEW m \in Pending, RankOf[m] \in f .. l PROVE m \in S
  <2>1. PICK j \in S : RankOf[j] = f BY SelectionSpans
  <2>2. PICK k \in S : RankOf[k] = l BY SelectionSpans
  <2>3. /\ f \in Nat /\ l \in Nat /\ RankOf[m] \in Nat
    BY SelectionSpans, Places
  <2>4. CASE RankOf[m] = f BY <2>1, <2>4, Places
  <2>5. CASE RankOf[m] = l BY <2>2, <2>5, Places
  <2>6. CASE RankOf[m] # f /\ RankOf[m] # l
    <3>1. RankOf[j] < RankOf[m] /\ RankOf[m] < RankOf[k] BY <1>1, <2>1, <2>2, <2>3, <2>6
    <3>2. position[j] < position[m] /\ position[m] < position[k] BY <3>1, Places
    <3> QED BY <3>2 DEF Contiguous
  <2> QED BY <2>4, <2>5, <2>6
<1> QED BY <1>1, SelectionSpans

\* A selection keeps its order, contiguous or not.
LEMMA SelectionOrdered ==
    ASSUME StoreTypeOK, PendingPositionsDistinct, NEW S \in SUBSET Pending,
           MoveJobsUp(S) \/ MoveJobsDown(S) \/ MoveJobsToTop(S),
           NEW j \in S, NEW k \in S
    PROVE  ~Flipped(j, k)
<1>1. position[j] < position[k] <=> RankOf[j] < RankOf[k] BY Places
<1>2. RankOf[j] \in Nat /\ RankOf[k] \in Nat BY Places
<1>3. CASE MoveJobsUp(S)
  <2>1. PICK f, l \in 2 .. Cardinality(Pending) : MovedUp(S, f, l) BY <1>3, MovesWritten
  <2>2. RankOf[j] \in f .. l /\ RankOf[k] \in f .. l /\ f \in Nat /\ l \in Nat
    BY <2>1, SelectionSpans DEF MovedUp
  <2>3. position'[j] = RankOf[j] - 1 /\ position'[k] = RankOf[k] - 1
    BY <1>2, <2>1, <2>2 DEF MovedUp
  <2> QED BY <1>1, <1>2, <2>3 DEF Flipped
<1>4. CASE MoveJobsDown(S)
  <2>1. PICK f, l \in 1 .. Cardinality(Pending) - 1 : MovedDown(S, f, l) BY <1>4, MovesWritten
  <2>2. RankOf[j] \in f .. l /\ RankOf[k] \in f .. l /\ f \in Nat /\ l \in Nat
    BY <2>1, SelectionSpans DEF MovedDown
  <2>3. position'[j] = RankOf[j] + 1 /\ position'[k] = RankOf[k] + 1
    BY <1>2, <2>1, <2>2 DEF MovedDown
  <2> QED BY <1>1, <1>2, <2>3 DEF Flipped
<1>5. CASE MoveJobsToTop(S)
  <2> DEFINE selected == S \cap Pending
             rest == Pending \ S
             newRank == [m \in Pending |->
                           IF m \in selected THEN RankIn(m, selected)
                                             ELSE Cardinality(selected) + RankIn(m, rest)]
  <2>1. WritePendingPositions(newRank) BY <1>5 DEF MoveJobsToTop
  <2>2. selected \in SUBSET Jobs /\ j \in selected /\ k \in selected BY DEF Pending
  <2>3. newRank[j] = RankIn(j, selected) /\ newRank[k] = RankIn(k, selected) BY <2>2
  <2> HIDE DEF newRank, selected
  <2>4. position'[j] = RankIn(j, selected) /\ position'[k] = RankIn(k, selected)
    BY <2>1, <2>3, WrittenPlaces
  <2>5. RankIn(j, selected) \in Nat /\ RankIn(k, selected) \in Nat
    <3>1. Cardinality(selected) \in Nat
      BY <2>2, FS_Subset, FS_CardinalityType, JobsAssumption DEF JobsAssumption
    <3> QED BY <2>2, <3>1, RankBounds
  <2>6. /\ position[j] < position[k] => RankIn(j, selected) < RankIn(k, selected)
        /\ position[k] < position[j] => RankIn(k, selected) < RankIn(j, selected)
    BY <2>2, RankStrict
  <2>7. position[j] = position[k] => j = k BY DEF PendingPositionsDistinct
  <2>8. position[j] \in Nat /\ position[k] \in Nat BY DEF StoreTypeOK, Pending
  <2> QED BY <2>4, <2>5, <2>6, <2>7, <2>8 DEF Flipped
<1> QED BY <1>3, <1>4, <1>5
\* A block without gaps changes its order with its neighbour only.
Swaps(S, n) ==
    \A j, k \in Pending : Flipped(j, k) <=> \/ j = n /\ k \in S
                                            \/ k = n /\ j \in S

LEMMA BlockSwaps ==
    ASSUME StoreTypeOK, PendingPositionsDistinct, NEW S \in SUBSET Pending, Contiguous(S),
           MoveJobsUp(S) \/ MoveJobsDown(S)
    PROVE  \E n \in Pending \ S : Swaps(S, n)
<1>1. CASE MoveJobsUp(S)
  <2>1. PICK f, l \in 2 .. Cardinality(Pending) : MovedUp(S, f, l) BY <1>1, MovesWritten
  <2>2. f \in Nat /\ l \in Nat /\ f <= l /\ f - 1 \in 1 .. Cardinality(Pending)
    BY <2>1, Places, SelectionSpans DEF MovedUp
  <2>3. PICK n \in Pending : RankOf[n] = f - 1 BY <2>2, Places
  <2>4. \A j \in Pending : j \in S <=> RankOf[j] \in f .. l BY <2>1, BlockSpans DEF MovedUp
  <2>5. n \notin S BY <2>2, <2>3, <2>4
  <2>6. ASSUME NEW j \in Pending, NEW k \in Pending
        PROVE  Flipped(j, k) <=> (j = n /\ k \in S) \/ (k = n /\ j \in S)
    <3>1. /\ RankOf[j] \in Nat /\ RankOf[k] \in Nat
          /\ position[j] < position[k] <=> RankOf[j] < RankOf[k]
          /\ j = n <=> RankOf[j] = f - 1
          /\ k = n <=> RankOf[k] = f - 1
      BY <2>3, Places
    <3>2. /\ j \in S <=> f <= RankOf[j] /\ RankOf[j] <= l
          /\ k \in S <=> f <= RankOf[k] /\ RankOf[k] <= l
      BY <2>2, <2>4, <3>1
    <3>3. /\ RankOf[j] = f - 1 => position'[j] = l
          /\ f <= RankOf[j] /\ RankOf[j] <= l => position'[j] = RankOf[j] - 1
          /\ RankOf[j] < f - 1 \/ RankOf[j] > l => position'[j] = RankOf[j]
          /\ RankOf[k] = f - 1 => position'[k] = l
          /\ f <= RankOf[k] /\ RankOf[k] <= l => position'[k] = RankOf[k] - 1
          /\ RankOf[k] < f - 1 \/ RankOf[k] > l => position'[k] = RankOf[k]
      BY <2>1, <2>2, <3>1 DEF MovedUp
    <3>4. Flipped(j, k) <=> ((RankOf[j] < RankOf[k]) # (position'[j] < position'[k]))
      BY <3>1 DEF Flipped
    <3> QED BY <2>2, <3>1, <3>2, <3>3, <3>4
  <2> QED BY <2>5, <2>6 DEF Swaps
<1>2. CASE MoveJobsDown(S)
  <2>1. PICK f, l \in 1 .. Cardinality(Pending) - 1 : MovedDown(S, f, l) BY <1>2, MovesWritten
  <2>2. f \in Nat /\ l \in Nat /\ f <= l /\ l + 1 \in 1 .. Cardinality(Pending)
    BY <2>1, Places, SelectionSpans DEF MovedDown
  <2>3. PICK n \in Pending : RankOf[n] = l + 1 BY <2>2, Places
  <2>4. \A j \in Pending : j \in S <=> RankOf[j] \in f .. l BY <2>1, BlockSpans DEF MovedDown
  <2>5. n \notin S BY <2>2, <2>3, <2>4
  <2>6. ASSUME NEW j \in Pending, NEW k \in Pending
        PROVE  Flipped(j, k) <=> (j = n /\ k \in S) \/ (k = n /\ j \in S)
    <3>1. /\ RankOf[j] \in Nat /\ RankOf[k] \in Nat
          /\ position[j] < position[k] <=> RankOf[j] < RankOf[k]
          /\ j = n <=> RankOf[j] = l + 1
          /\ k = n <=> RankOf[k] = l + 1
      BY <2>3, Places
    <3>2. /\ j \in S <=> f <= RankOf[j] /\ RankOf[j] <= l
          /\ k \in S <=> f <= RankOf[k] /\ RankOf[k] <= l
      BY <2>2, <2>4, <3>1
    <3>3. /\ RankOf[j] = l + 1 => position'[j] = f
          /\ f <= RankOf[j] /\ RankOf[j] <= l => position'[j] = RankOf[j] + 1
          /\ RankOf[j] < f \/ RankOf[j] > l + 1 => position'[j] = RankOf[j]
          /\ RankOf[k] = l + 1 => position'[k] = f
          /\ f <= RankOf[k] /\ RankOf[k] <= l => position'[k] = RankOf[k] + 1
          /\ RankOf[k] < f \/ RankOf[k] > l + 1 => position'[k] = RankOf[k]
      BY <2>1, <2>2, <3>1 DEF MovedDown
    <3>4. Flipped(j, k) <=> ((RankOf[j] < RankOf[k]) # (position'[j] < position'[k]))
      BY <3>1 DEF Flipped
    <3> QED BY <2>2, <3>1, <3>2, <3>3, <3>4
  <2> QED BY <2>5, <2>6 DEF Swaps
<1> QED BY <1>1, <1>2

\* The row that reorder_job was asked to put at p stands before those that were
\* at p or later, and no others.
LEMMA ReorderedLands ==
    ASSUME StoreTypeOK, NEW j \in Pending, NEW p \in 1 .. Cardinality(Jobs), ReorderJob(j, p),
           NEW k \in Pending \ {j}
    PROVE  position'[j] < position'[k] <=> position[k] >= p
<1> DEFINE pos == [m \in Jobs |->
                     IF m = j /\ m \in Pending THEN p
                     ELSE IF m \in Pending /\ position[m] >= p THEN position[m] + 1
                     ELSE position[m]]
<1>1. CompactFrom(pos) BY DEF ReorderJob
<1>2. j \in Jobs /\ k \in Jobs /\ j \in QueuedJobs /\ k \in QueuedJobs
  BY DEF Pending, QueuedJobs, Queued
<1>3. /\ pos[j] = p
      /\ pos[k] = IF position[k] >= p THEN position[k] + 1 ELSE position[k]
  BY <1>2
<1> HIDE DEF pos
<1>4. Cardinality(QueuedJobs) \in Nat
  <2>1. QueuedJobs \in SUBSET Jobs BY DEF QueuedJobs
  <2> QED BY <2>1, FS_Subset, FS_CardinalityType, JobsAssumption DEF JobsAssumption
<1>5. PICK rank \in [QueuedJobs -> 1 .. Cardinality(QueuedJobs)] :
         /\ \A m, n \in QueuedJobs : pos[m] < pos[n] => rank[m] < rank[n]
         /\ position' = [m \in Jobs |-> IF m \in QueuedJobs THEN rank[m] ELSE position[m]]
  BY <1>1 DEF CompactFrom
<1>6. position'[j] = rank[j] /\ position'[k] = rank[k] BY <1>2, <1>5
<1>7. /\ pos[j] < pos[k] => rank[j] < rank[k]
      /\ pos[k] < pos[j] => rank[k] < rank[j]
  BY <1>2, <1>5
<1>8. rank[j] \in Nat /\ rank[k] \in Nat /\ p \in Nat /\ position[k] \in Nat
  <2>1. rank[j] \in Nat /\ rank[k] \in Nat BY <1>2, <1>4, <1>5
  <2>2. Cardinality(Jobs) \in Nat BY FS_CardinalityType, JobsAssumption DEF JobsAssumption
  <2> QED BY <1>2, <2>1, <2>2 DEF StoreTypeOK
<1> QED BY <1>3, <1>6, <1>7, <1>8

\* What the ordering operations promise, for any queue: a selection keeps its
\* order, a block changes places with its one neighbour, and reorder_job lands
\* where it was asked to, running rows or not.
THEOREM SelectionsStayTogether == StoreSpec => SelectionsMoveTogether
<1>1. StoreInv /\ [StoreNext]_storeVars =>
         [Reordered => \A S \in SUBSET Pending :
             MoveJobsUp(S) \/ MoveJobsDown(S) \/ MoveJobsToTop(S) =>
                \A j, k \in S : ~Flipped(j, k)]_storeVars
  BY SelectionOrdered DEF StoreInv
<1>2. StoreInv /\ [StoreNext]_storeVars =>
         [Reordered => \A S \in SUBSET Pending :
             (MoveJobsUp(S) \/ MoveJobsDown(S)) /\ Contiguous(S) =>
                \E n \in Pending \ S : \A j, k \in Pending :
                   Flipped(j, k) <=> \/ j = n /\ k \in S
                                     \/ k = n /\ j \in S]_storeVars
  BY BlockSwaps DEF StoreInv, Swaps
<1>3. StoreInv /\ [StoreNext]_storeVars =>
         [Reordered => \A j \in Pending, p \in 1 .. Cardinality(Jobs) :
             \/ \A k \in Pending \ {j} : position'[j] < position'[k] <=> position[k] >= p
             \/ ~ReorderJob(j, p)]_storeVars
  BY ReorderedLands DEF StoreInv
<1> HIDE DEF StoreInv, StoreNext, storeVars
<1>4. StoreSpec => SelectionKeepsOrder
  BY <1>1, StoreInvariance, PTL DEF StoreSpec, SelectionKeepsOrder
<1>5. StoreSpec => BlockMoveSwapsNeighbour
  BY <1>2, StoreInvariance, PTL DEF StoreSpec, BlockMoveSwapsNeighbour
<1>6. StoreSpec => ReorderLands
  BY <1>3, StoreInvariance, PTL DEF StoreSpec, ReorderLands
<1> QED
  BY <1>4, <1>5, <1>6 DEF SelectionsMoveTogether
=============================================================================
