---------------------------- MODULE QueueingProofs ----------------------------
(***************************************************************************)
(* Theorems about the queueing of a show (the workers of the probe sweep   *)
(* and the operations of the job), about the files of the jobs and about    *)
(* their reverts.                                                           *)
(***************************************************************************)
EXTENDS MCWorkspace, FiniteSetTheorems, SequenceTheorems, WellFoundedInduction, TLAPS

Rows == UNION {{p[i] : i \in DOMAIN p} : p \in Projections}
Tasks == [index : Queueing!Indices, by : {"task", "sweep"},
          stage : {"reserved", "file", "parts"}, row : Rows \cup {Queueing!NoRow}]
Signals == [index : Queueing!Indices, kind : {"error", "plan"}, plan : Queueing!PlanRecords]
Submissions == [stage : {"gate", "plan", "build", "done"}, undo : {"check", "uncheck", "keep"},
                chosen : SUBSET Queueing!Indices, todo : SUBSET Queueing!Indices,
                baked : [Queueing!Indices -> Queueing!PlanRecords] \cup {<<>>}]

\* The sweep workers that are at a probe.
Probing(tasks) == {p \in tasks : p.by = "sweep"}

\* The slots and the workers: a slot has one task, a worker that has begun took
\* its row from a list, and every worker is idle or at a probe.
SlotsHold ==
    /\ probes \subseteq Tasks
    /\ \A p \in probes : p.stage # "reserved" => p.row \in Rows
    /\ \A p, q \in probes : p.index = q.index => p = q
WorkersCounted ==
    /\ IsFiniteSet(Probing(probes)) /\ idleSweeps \in Nat
    /\ sweeping = idleSweeps + Cardinality(Probing(probes))
WarmHasWorker ==
    /\ warm \subseteq Queueing!Indices /\ IsFiniteSet(warm)
    /\ warm # {} => sweeping > 0
SweepInv == SlotsHold /\ WorkersCounted /\ WarmHasWorker

\* What the show is told of its plans, and the boxes.
ShowTypes ==
    /\ rows \in Queueing!RowLists
    /\ plans \in [Queueing!Indices -> Queueing!PlanRecords]
    /\ probeErrors \in SUBSET Queueing!Indices /\ gateErrors \in SUBSET Queueing!Indices
    /\ optOuts \in SUBSET Queueing!Indices
    /\ checks \in [Queueing!Indices -> {"unbound", "yes", "no"}]
    /\ landed \in Seq(Signals)

\* The rows of a show stand still while it is submitted, so that what is left to
\* plan is still there.
RowsStand ==
    /\ submission \in Submissions \cup {Queueing!Settled}
    /\ submission # Queueing!Settled =>
          ~showScanning /\ (submission.stage = "plan" => submission.todo \subseteq DOMAIN rows)

QueueInv == SweepInv /\ ShowTypes /\ RowsStand /\ Queueing!MergesQueuedWhole

(* Rows and their indices. *)

LEMMA ListDomains ==
    \A list \in Queueing!RowLists :
        /\ DOMAIN list \subseteq Queueing!Indices /\ DOMAIN list \subseteq Nat
        /\ IsFiniteSet(DOMAIN list)
        /\ \A i \in DOMAIN list : list[i] \in Rows
<1> SUFFICES ASSUME NEW list \in Queueing!RowLists
             PROVE  /\ DOMAIN list \subseteq Queueing!Indices /\ DOMAIN list \subseteq Nat
                    /\ IsFiniteSet(DOMAIN list)
                    /\ \A i \in DOMAIN list : list[i] \in Rows
  OBVIOUS
<1>1. DOMAIN list \subseteq Queueing!Indices
  BY DEF Queueing!Indices
<1>2. CASE list \in Projections
  <2>1. list \in Seq([file : STRING, name : STRING, kind : STRING])
    BY <1>2, QueueingAssumption
  <2>2. Len(list) \in Nat /\ DOMAIN list = 1 .. Len(list)
    BY <2>1
  <2>3. IsFiniteSet(1 .. Len(list))
    BY <2>2, FS_Interval
  <2> QED
    BY <1>1, <1>2, <2>2, <2>3 DEF Rows
<1>3. CASE list = <<>>
  <2>1. DOMAIN list = {}
    BY <1>3
  <2> QED
    BY <1>1, <2>1, FS_EmptySet
<1> QED
  BY <1>2, <1>3 DEF Queueing!RowLists

LEMMA IndicesAreNumbers == Queueing!Indices \subseteq Nat
BY ListDomains DEF Queueing!Indices

LEMMA FirstOfSome ==
    ASSUME NEW S, S \subseteq Queueing!Indices, S # {}
    PROVE  Queueing!First(S) \in S
<1>1. S \subseteq Nat
  BY IndicesAreNumbers
<1>2. \E x1 \in S : \A y1 \in S : ~(<<y1, x1>> \in OpToRel(<, Nat))
  BY <1>1, WFMin, NatLessThanWellFounded
<1>2a. PICK i \in S : \A y1 \in S : ~(<<y1, i>> \in OpToRel(<, Nat))
  BY <1>2
<1>2b. \A j \in S : i <= j
  <2> SUFFICES ASSUME NEW j \in S PROVE ~(j < i)
    BY <1>1
  <2>1. <<j, i>> \in Nat \X Nat /\ <<j, i>>[1] = j /\ <<j, i>>[2] = i
    BY <1>1
  <2>2. <<j, i>> \notin {ss \in Nat \X Nat : ss[1] < ss[2]}
    BY <1>2a DEF OpToRel
  <2> QED
    BY <2>1, <2>2
<1>3. \E k \in S : \A j \in S : k <= j
  BY <1>2b
<1> QED
  BY <1>3 DEF Queueing!First

LEMMA RowsHaveFields ==
    \A row \in Rows : row.file \in Queueing!FilesOf /\ row.name \in Queueing!NamesOf
BY DEF Rows, Queueing!FilesOf, Queueing!NamesOf

(* The workers. *)

LEMMA CapIsPositive ==
    ASSUME NEW busy PROVE Queueing!SweepCap(busy) \in Nat \ {0}
BY QueueingAssumption DEF Queueing!SweepCap

LEMMA SameCount == ASSUME NEW S PROVE Queueing!Cardinality(S) = Cardinality(S)
BY Zenon DEF Queueing!Cardinality, Cardinality

LEMMA SpawnedServe ==
    ASSUME SweepInv, NEW queue, IsFiniteSet(queue), NEW busy
    PROVE  /\ Queueing!Spawned(queue, busy) \in Nat
           /\ queue # {} => sweeping + Queueing!Spawned(queue, busy) > 0
<1>1. Cardinality(queue) \in Nat /\ (queue # {} => Cardinality(queue) > 0)
  BY FS_EmptySet, FS_CardinalityType
<1>2. Queueing!SweepCap(busy) \in Nat \ {0}
  BY CapIsPositive
<1>3. sweeping \in Nat
  BY FS_CardinalityType DEF SweepInv, WorkersCounted
<1> DEFINE cap == Queueing!SweepCap(busy)
           wanted == IF Cardinality(queue) < cap THEN Cardinality(queue) ELSE cap
<1>4. wanted \in Nat /\ (queue # {} => wanted > 0)
  BY <1>1, <1>2
<1>5. Queueing!Spawned(queue, busy) = IF wanted > sweeping THEN wanted - sweeping ELSE 0
  BY SameCount DEF Queueing!Spawned
<1> HIDE DEF wanted
<1> QED
  BY <1>3, <1>4, <1>5

LEMMA RefillKeeps ==
    ASSUME SweepInv, NEW queue, IsFiniteSet(queue), queue \subseteq Queueing!Indices,
           Queueing!Refill(queue)
    PROVE  WarmHasWorker' /\ idleSweeps' \in Nat /\ idleSweeps' - idleSweeps = sweeping' - sweeping
<1>1. Queueing!Spawned(queue, muxBusy) \in Nat
  BY SpawnedServe
<1>2. queue # {} => sweeping + Queueing!Spawned(queue, muxBusy) > 0
  BY SpawnedServe
<1>3. sweeping \in Nat /\ idleSweeps \in Nat
  BY FS_CardinalityType DEF SweepInv, WorkersCounted
<1> QED
  BY <1>1, <1>2, <1>3 DEF Queueing!Refill, WarmHasWorker

LEMMA ProbesKeep ==
    ASSUME SweepInv, UNCHANGED probes, WarmHasWorker', idleSweeps' \in Nat,
           idleSweeps' - idleSweeps = sweeping' - sweeping, sweeping' \in Nat
    PROVE  SweepInv'
<1>1. SlotsHold'
  BY DEF SweepInv, SlotsHold
<1>2. Probing(probes)' = Probing(probes)
  BY DEF Probing
<1>3. Cardinality(Probing(probes)) \in Nat
  BY FS_CardinalityType DEF SweepInv, WorkersCounted
<1>4. WorkersCounted'
  BY <1>2, <1>3 DEF SweepInv, WorkersCounted
<1> QED
  BY <1>1, <1>4 DEF SweepInv

LEMMA SweepingIsNumber ==
    ASSUME SweepInv
    PROVE  sweeping \in Nat /\ idleSweeps \in Nat /\ idleSweeps <= sweeping
BY FS_CardinalityType DEF SweepInv, WorkersCounted

LEMMA Refilled ==
    ASSUME SweepInv, NEW queue, IsFiniteSet(queue), queue \subseteq Queueing!Indices,
           Queueing!Refill(queue), UNCHANGED probes
    PROVE  SweepInv'
<1>1. Queueing!Spawned(queue, muxBusy) \in Nat
  BY SpawnedServe
<1>2. sweeping \in Nat /\ sweeping' \in Nat
  BY <1>1, SweepingIsNumber DEF Queueing!Refill
<1> QED
  BY <1>2, RefillKeeps, ProbesKeep

\* New tasks of the shown show are none of the sweep's.
LEMMA TasksAdded ==
    ASSUME SweepInv, NEW S, S \subseteq Queueing!Indices, WarmHasWorker',
           probes' = probes \cup {Queueing!ProbeTask(i, "task") : i \in S \ Queueing!Reserved},
           idleSweeps' \in Nat, sweeping' \in Nat, idleSweeps' - idleSweeps = sweeping' - sweeping
    PROVE  SweepInv'
<1> DEFINE new == {Queueing!ProbeTask(i, "task") : i \in S \ Queueing!Reserved}
<1>1. \A p \in new : /\ p \in Tasks /\ p.stage = "reserved" /\ p.by = "task"
                     /\ p.index \notin Queueing!Reserved
                     /\ p = Queueing!ProbeTask(p.index, "task")
  BY DEF Queueing!ProbeTask, Tasks
<1>2. SlotsHold'
  <2> HIDE DEF new
  <2>1. probes' = probes \cup new
    BY DEF new
  <2>2. \A p \in probes : p.index \in Queueing!Reserved
    BY DEF Queueing!Reserved
  <2>3. \A p, q \in new : p.index = q.index => p = q
    BY <1>1
  <2>4. \A p, q \in probes' : p.index = q.index => p = q
    BY <1>1, <2>1, <2>2, <2>3 DEF SweepInv, SlotsHold
  <2> QED
    BY <1>1, <2>1, <2>4 DEF SweepInv, SlotsHold
<1>3. Probing(probes') = Probing(probes)
  BY <1>1 DEF Probing
<1>4. Cardinality(Probing(probes)) \in Nat
  BY FS_CardinalityType DEF SweepInv, WorkersCounted
<1>5. WorkersCounted'
  BY <1>3, <1>4 DEF SweepInv, WorkersCounted
<1> QED
  BY <1>2, <1>5 DEF SweepInv

LEMMA Warmed ==
    ASSUME SweepInv, NEW pending, IsFiniteSet(pending), pending \subseteq Queueing!Indices,
           Queueing!Warm(pending)
    PROVE  SweepInv'
<1>1. CASE isShown'
  <2>1. /\ probes' = probes \cup {Queueing!ProbeTask(i, "task") : i \in pending \ Queueing!Reserved}
        /\ Queueing!Refill({})
    BY <1>1 DEF Queueing!Warm
  <2>2. IsFiniteSet({}) /\ {} \subseteq Queueing!Indices
    BY FS_EmptySet
  <2>3. /\ WarmHasWorker' /\ idleSweeps' \in Nat
        /\ idleSweeps' - idleSweeps = sweeping' - sweeping
    BY <2>1, <2>2, RefillKeeps
  <2>4. Queueing!Spawned({}, muxBusy) \in Nat
    BY <2>2, SpawnedServe
  <2>5. sweeping' \in Nat
    BY <2>1, <2>4, SweepingIsNumber DEF Queueing!Refill
  <2> QED
    BY <2>1, <2>3, <2>5, TasksAdded
<1>2. CASE ~isShown'
  BY <1>2, Refilled DEF Queueing!Warm
<1> QED
  BY <1>1, <1>2

(* Workers and tasks that come and go. *)

LEMMA SlotFreed ==
    ASSUME SweepInv, NEW p \in probes, Queueing!FreeSlot(p), UNCHANGED <<warm, sweeping>>
    PROVE  SweepInv'
<1>1. probes' = probes \ {p} /\ SlotsHold'
  BY DEF Queueing!FreeSlot, SweepInv, SlotsHold
<1>2. WarmHasWorker'
  BY DEF SweepInv, WarmHasWorker
<1>3. Cardinality(Probing(probes)) \in Nat /\ IsFiniteSet(Probing(probes))
  BY FS_CardinalityType DEF SweepInv, WorkersCounted
<1>4. CASE p.by = "sweep"
  <2>1. Probing(probes') = Probing(probes) \ {p} /\ p \in Probing(probes)
    BY <1>1, <1>4 DEF Probing
  <2>2. /\ IsFiniteSet(Probing(probes'))
        /\ Cardinality(Probing(probes')) = Cardinality(Probing(probes)) - 1
    BY <1>3, <2>1, FS_RemoveElement
  <2>3. idleSweeps' = idleSweeps + 1
    BY <1>4 DEF Queueing!FreeSlot
  <2>4. WorkersCounted'
    BY <1>3, <2>2, <2>3 DEF SweepInv, WorkersCounted
  <2> QED
    BY <1>1, <1>2, <2>4 DEF SweepInv
<1>5. CASE p.by # "sweep"
  <2>1. Probing(probes') = Probing(probes)
    BY <1>1, <1>5 DEF Probing
  <2>2. idleSweeps' = idleSweeps
    BY <1>5 DEF Queueing!FreeSlot
  <2>3. WorkersCounted'
    BY <2>1, <2>2 DEF SweepInv, WorkersCounted
  <2> QED
    BY <1>1, <1>2, <2>3 DEF SweepInv
<1> QED
  BY <1>4, <1>5

\* A task that begins is still of the same slot and of the same worker.
LEMMA TaskBegun ==
    ASSUME SweepInv, NEW p \in probes, NEW q \in Tasks, q.index = p.index, q.by = p.by,
           q.row \in Rows, probes' = (probes \ {p}) \cup {q},
           UNCHANGED <<warm, sweeping, idleSweeps>>
    PROVE  SweepInv'
<1>1. SlotsHold'
  BY DEF SweepInv, SlotsHold
<1>2. WarmHasWorker'
  BY DEF SweepInv, WarmHasWorker
<1>3. Cardinality(Probing(probes)) \in Nat /\ IsFiniteSet(Probing(probes))
  BY FS_CardinalityType DEF SweepInv, WorkersCounted
<1>4. CASE p.by = "sweep"
  <2> DEFINE rest == Probing(probes) \ {p}
  <2>1. Probing(probes') = rest \cup {q} /\ p \in Probing(probes)
    BY <1>4 DEF Probing
  <2>2. IsFiniteSet(rest) /\ Cardinality(rest) = Cardinality(Probing(probes)) - 1
    BY <1>3, <2>1, FS_RemoveElement
  <2>3. q \notin rest
    BY DEF SweepInv, SlotsHold, Probing
  <2> HIDE DEF rest
  <2>4. /\ IsFiniteSet(Probing(probes'))
        /\ Cardinality(Probing(probes')) = Cardinality(rest) + 1
    <3>1. /\ IsFiniteSet(rest \cup {q})
          /\ Cardinality(rest \cup {q}) = Cardinality(rest) + 1
      BY <2>2, <2>3, FS_AddElement
    <3> QED
      BY <2>1, <3>1
  <2>5. WorkersCounted'
    BY <1>3, <2>2, <2>4 DEF SweepInv, WorkersCounted
  <2> QED
    BY <1>1, <1>2, <2>5 DEF SweepInv
<1>5. CASE p.by # "sweep"
  <2>1. Probing(probes') = Probing(probes)
    BY <1>5 DEF Probing
  <2>2. WorkersCounted'
    BY <2>1 DEF SweepInv, WorkersCounted
  <2> QED
    BY <1>1, <1>2, <2>2 DEF SweepInv
<1> QED
  BY <1>4, <1>5

LEMMA LeaveKeeps == ASSUME SweepInv, Queueing!LeaveSweep PROVE SweepInv'
<1>1. /\ idleSweeps > 0 /\ idleSweeps' = idleSweeps - 1 /\ sweeping' = sweeping - 1
      /\ UNCHANGED <<probes, warm>>
      /\ sweeping > Queueing!SweepCap(muxBusy) \/ warm = {}
  BY DEF Queueing!LeaveSweep, Queueing!queueingVars
<1>2. sweeping \in Nat /\ idleSweeps \in Nat /\ idleSweeps <= sweeping
  BY SweepingIsNumber
<1>3. Queueing!SweepCap(muxBusy) \in Nat \ {0}
  BY CapIsPositive
<1>4. WarmHasWorker'
  BY <1>1, <1>2, <1>3 DEF SweepInv, WarmHasWorker
<1>5. /\ idleSweeps' \in Nat /\ sweeping' \in Nat
      /\ idleSweeps' - idleSweeps = sweeping' - sweeping
  BY <1>1, <1>2
<1> QED
  BY <1>1, <1>4, <1>5, ProbesKeep

LEMMA TakeKeeps == ASSUME SweepInv, Queueing!TakeNext PROVE SweepInv'
<1> DEFINE i == Queueing!First(warm)
<1>1. /\ idleSweeps > 0 /\ warm # {} /\ warm' = warm \ {i} /\ sweeping' = sweeping
      /\ \/ /\ i \notin Queueing!Reserved /\ probes' = probes \cup {Queueing!ProbeTask(i, "sweep")}
            /\ idleSweeps' = idleSweeps - 1
         \/ UNCHANGED <<probes, idleSweeps>>
  BY DEF Queueing!TakeNext
<1>2. i \in Queueing!Indices
  BY <1>1, FirstOfSome DEF SweepInv, WarmHasWorker
<1>3. WarmHasWorker'
  <2>1. IsFiniteSet(warm \ {i})
    BY FS_RemoveElement DEF SweepInv, WarmHasWorker
  <2> QED
    BY <1>1, <2>1 DEF SweepInv, WarmHasWorker
<1> HIDE DEF i
<1>4. CASE /\ i \notin Queueing!Reserved
           /\ probes' = probes \cup {Queueing!ProbeTask(i, "sweep")}
           /\ idleSweeps' = idleSweeps - 1
  <2> DEFINE q == Queueing!ProbeTask(i, "sweep")
  <2>1. q \in Tasks /\ q.by = "sweep" /\ q.stage = "reserved" /\ q.index = i
    BY <1>2 DEF Queueing!ProbeTask, Tasks
  <2> HIDE DEF q
  <2>1a. probes' = probes \cup {q}
    BY <1>4 DEF q
  <2>2. \A p \in probes : p.index # i
    BY <1>4 DEF Queueing!Reserved
  <2>3. SlotsHold'
    BY <2>1, <2>1a, <2>2 DEF SweepInv, SlotsHold
  <2>4. Probing(probes') = Probing(probes) \cup {q} /\ q \notin Probing(probes)
    BY <2>1, <2>1a, <2>2 DEF Probing
  <2>5. /\ Cardinality(Probing(probes)) \in Nat /\ IsFiniteSet(Probing(probes))
        /\ idleSweeps \in Nat /\ sweeping = idleSweeps + Cardinality(Probing(probes))
    BY FS_CardinalityType DEF SweepInv, WorkersCounted
  <2>6. /\ IsFiniteSet(Probing(probes'))
        /\ Cardinality(Probing(probes')) = Cardinality(Probing(probes)) + 1
    BY <2>4, <2>5, FS_AddElement
  <2>7. WorkersCounted'
    BY <1>1, <1>4, <2>5, <2>6 DEF WorkersCounted
  <2> QED
    BY <1>3, <2>3, <2>7 DEF SweepInv
<1>5. CASE UNCHANGED <<probes, idleSweeps>>
  <2>1. idleSweeps' - idleSweeps = sweeping' - sweeping /\ idleSweeps' \in Nat /\ sweeping' \in Nat
    BY <1>1, <1>5, SweepingIsNumber
  <2> QED
    BY <1>3, <1>5, <2>1, ProbesKeep
<1> QED
  BY <1>1, <1>4, <1>5

LEMMA BusyKeeps == ASSUME SweepInv, Queueing!SetExecutorBusy PROVE SweepInv'
<1>1. /\ UNCHANGED <<probes, warm>>
      /\ \/ /\ sweeping' = sweeping + Queueing!Spawned(warm, FALSE)
            /\ idleSweeps' = idleSweeps + Queueing!Spawned(warm, FALSE)
         \/ UNCHANGED <<sweeping, idleSweeps>>
  BY DEF Queueing!SetExecutorBusy
<1>2. sweeping \in Nat /\ idleSweeps \in Nat
  BY SweepingIsNumber
<1>3. WarmHasWorker
  BY DEF SweepInv
<1>4. CASE /\ sweeping' = sweeping + Queueing!Spawned(warm, FALSE)
           /\ idleSweeps' = idleSweeps + Queueing!Spawned(warm, FALSE)
  <2>1. Queueing!Spawned(warm, FALSE) \in Nat
    BY <1>3, SpawnedServe DEF WarmHasWorker
  <2> DEFINE n == Queueing!Spawned(warm, FALSE)
  <2>1a. n \in Nat /\ sweeping' = sweeping + n /\ idleSweeps' = idleSweeps + n
    BY <1>4, <2>1
  <2> HIDE DEF n
  <2>2. /\ idleSweeps' - idleSweeps = sweeping' - sweeping
        /\ idleSweeps' \in Nat /\ sweeping' \in Nat /\ sweeping' >= sweeping
    BY <1>2, <2>1a
  <2>3. WarmHasWorker'
    BY <1>1, <1>2, <1>3, <2>2 DEF WarmHasWorker
  <2> QED
    BY <1>1, <2>2, <2>3, ProbesKeep
<1>5. CASE UNCHANGED <<sweeping, idleSweeps>>
  BY <1>1, <1>2, <1>3, <1>5, ProbesKeep DEF WarmHasWorker
<1> QED
  BY <1>1, <1>4, <1>5

(* What leaves a part of the invariant alone. *)

LEMMA SweepStays ==
    ASSUME SweepInv, UNCHANGED <<probes, warm, sweeping, idleSweeps>> PROVE SweepInv'
BY ProbesKeep, SweepingIsNumber DEF SweepInv, WarmHasWorker

LEMMA ShowStays ==
    ASSUME ShowTypes, UNCHANGED <<rows, plans, probeErrors, gateErrors, optOuts, checks, landed>>
    PROVE  ShowTypes'
BY DEF ShowTypes

LEMMA RowsStay ==
    ASSUME RowsStand, UNCHANGED <<rows, submission, showScanning>> PROVE RowsStand'
BY DEF RowsStand

LEMMA OpsStay ==
    ASSUME Queueing!MergesQueuedWhole, UNCHANGED queuedOps PROVE Queueing!MergesQueuedWhole'
BY DEF Queueing!MergesQueuedWhole

LEMMA NoPlanIsPlan == Queueing!NoPlan \in Queueing!PlanRecords
BY DEF Queueing!PlanRecords

LEMMA PendingAreRows ==
    ASSUME ShowTypes
    PROVE  /\ IsFiniteSet(Queueing!PendingItems) /\ Queueing!PendingItems \subseteq DOMAIN rows
           /\ DOMAIN rows \subseteq Queueing!Indices
<1>1. IsFiniteSet(DOMAIN rows) /\ DOMAIN rows \subseteq Queueing!Indices
  BY ListDomains DEF ShowTypes
<1>2. Queueing!PendingItems \subseteq DOMAIN rows
  BY DEF Queueing!PendingItems
<1> QED
  BY <1>1, <1>2, FS_Subset

LEMMA PendingOfList ==
    ASSUME NEW list \in Queueing!RowLists
    PROVE  /\ IsFiniteSet(Queueing!PendingOf(list)) /\ Queueing!PendingOf(list) \subseteq DOMAIN list
           /\ Queueing!PendingOf(list) \subseteq Queueing!Indices
<1>1. IsFiniteSet(DOMAIN list) /\ DOMAIN list \subseteq Queueing!Indices
  BY ListDomains
<1>2. Queueing!PendingOf(list) \subseteq DOMAIN list
  BY DEF Queueing!PendingOf
<1> QED
  BY <1>1, <1>2, FS_Subset

(* The types of what the steps write. *)

Boxes == [Queueing!Indices -> {"unbound", "yes", "no"}]

LEMMA ClearedTypes ==
    ASSUME Queueing!ClearedSession
    PROVE  /\ plans' \in [Queueing!Indices -> Queueing!PlanRecords]
           /\ probeErrors' = {} /\ gateErrors' = {} /\ optOuts' = {}
BY NoPlanIsPlan DEF Queueing!ClearedSession

LEMMA ViewTypes ==
    ASSUME NEW list, NEW flag, Queueing!ViewOf(list, flag) PROVE checks' \in Boxes
BY DEF Queueing!ViewOf, Boxes

LEMMA NormalizedTypes ==
    ASSUME ShowTypes, NEW approvable, NEW relevant, NEW list
    PROVE  Queueing!Normalized(approvable, relevant, list).checks \in Boxes
<1>1. checks \in Boxes
  BY DEF ShowTypes, Boxes
<1>2. CASE approvable
  <2> DEFINE bound == Queueing!Bound(relevant, approvable, showChecked, list)
  <2>1. bound \in Boxes
    BY <1>1 DEF Queueing!Bound, Boxes
  <2>2. Queueing!Normalized(approvable, relevant, list) =
          [checks |-> bound, flag |-> \E i \in relevant : bound[i] = "yes"]
    BY <1>2 DEF Queueing!Normalized
  <2> HIDE DEF bound
  <2> QED
    BY <2>1, <2>2
<1>3. CASE ~approvable
  <2> DEFINE none == [i \in Queueing!Indices |-> IF checks[i] = "unbound" THEN "unbound" ELSE "no"]
  <2>1. none \in Boxes
    BY DEF Boxes
  <2>2. Queueing!Normalized(approvable, relevant, list) = [checks |-> none, flag |-> FALSE]
    BY <1>3 DEF Queueing!Normalized
  <2> HIDE DEF none
  <2> QED
    BY <2>1, <2>2
<1> QED
  BY <1>2, <1>3

LEMMA MergePlanned ==
    ASSUME ShowTypes, NEW i \in Queueing!Indices, NEW row \in Rows, NEW outcome,
           Queueing!PlanMerge(i, row, outcome)
    PROVE  /\ plans' \in [Queueing!Indices -> Queueing!PlanRecords]
           /\ probeErrors' \in SUBSET Queueing!Indices /\ gateErrors' \in SUBSET Queueing!Indices
<1>1. [of |-> row.file, name |-> row.name, append |-> TRUE, mine |-> FALSE]
        \in Queueing!PlanRecords
  BY RowsHaveFields DEF Queueing!PlanRecords
<1>2. plans' \in [Queueing!Indices -> Queueing!PlanRecords]
  BY <1>1, NoPlanIsPlan DEF Queueing!PlanMerge, ShowTypes
<1>3. probeErrors' \in SUBSET Queueing!Indices /\ gateErrors' \in SUBSET Queueing!Indices
  BY DEF Queueing!PlanMerge, ShowTypes
<1> QED
  BY <1>2, <1>3

LEMMA FilePlanned ==
    ASSUME NEW file, file \in Queueing!FilesOf, NEW row \in Rows
    PROVE  Queueing!PlanFor(file, row) \in Queueing!PlanRecords
BY RowsHaveFields DEF Queueing!PlanFor, Queueing!PlanRecords

(* The user's steps. *)

LEMMA EditKeeps ==
    ASSUME QueueInv, NEW list \in Projections, NEW approving \in BOOLEAN,
           Queueing!EditMapping(list, approving)
    PROVE  QueueInv'
<1>1. /\ rows' = list /\ submission = Queueing!Settled /\ Queueing!ClearedSession
      /\ Queueing!ViewOf(list, showChecked \/ approving) /\ Queueing!Warm(Queueing!PendingOf(list))
      /\ UNCHANGED <<landed, submission, queuedOps>>
  BY DEF Queueing!EditMapping, Queueing!Editable
<1>2. list \in Queueing!RowLists
  BY DEF Queueing!RowLists
<1>3. SweepInv'
  BY <1>1, <1>2, PendingOfList, Warmed DEF QueueInv
<1>4. checks' \in Boxes
  BY <1>1, ViewTypes
<1>5. ShowTypes'
  BY <1>1, <1>2, <1>4, ClearedTypes DEF QueueInv, ShowTypes, Boxes
<1>6. RowsStand'
  BY <1>1 DEF RowsStand
<1> QED
  BY <1>1, <1>3, <1>5, <1>6, OpsStay DEF QueueInv

LEMMA RescanKeeps == ASSUME QueueInv, Queueing!StartRescan PROVE QueueInv'
<1>1. /\ rows' = <<>> /\ submission = Queueing!Settled /\ Queueing!ClearedSession
      /\ checks' = [i \in Queueing!Indices |-> "unbound"]
      /\ UNCHANGED <<landed, submission, queuedOps, probes, warm, sweeping, idleSweeps>>
  BY DEF Queueing!StartRescan, Queueing!Editable, Queueing!sweepVars
<1>2. ShowTypes'
  BY <1>1, ClearedTypes DEF QueueInv, ShowTypes, Queueing!RowLists
<1>3. RowsStand'
  BY <1>1 DEF RowsStand
<1> QED
  BY <1>1, <1>2, <1>3, OpsStay, SweepStays DEF QueueInv

LEMMA LandsKeeps ==
    ASSUME QueueInv, NEW list \in Projections, Queueing!ScanLands(list) PROVE QueueInv'
<1>1. /\ rows' = list /\ showScanning /\ Queueing!ViewOf(list, showChecked)
      /\ Queueing!Warm(Queueing!PendingOf(list))
      /\ UNCHANGED <<plans, probeErrors, gateErrors, optOuts, landed, submission, queuedOps>>
  BY DEF Queueing!ScanLands, Queueing!planVars, Queueing!muxChoices
<1>2. list \in Queueing!RowLists
  BY DEF Queueing!RowLists
<1>3. SweepInv'
  BY <1>1, <1>2, PendingOfList, Warmed DEF QueueInv
<1>4. checks' \in Boxes
  BY <1>1, ViewTypes
<1>5. ShowTypes'
  BY <1>1, <1>2, <1>4 DEF QueueInv, ShowTypes, Boxes
<1>6. RowsStand'
  BY <1>1 DEF QueueInv, RowsStand
<1> QED
  BY <1>1, <1>3, <1>5, <1>6, OpsStay DEF QueueInv

LEMMA SelectKeeps == ASSUME QueueInv, Queueing!SelectShow PROVE QueueInv'
<1>1. /\ Queueing!RefreshView /\ Queueing!Warm(Queueing!PendingItems)
      /\ UNCHANGED <<rows, showScanning, plans, probeErrors, gateErrors, optOuts, landed,
                     submission, queuedOps>>
  BY DEF Queueing!SelectShow, Queueing!rowVars, Queueing!planVars, Queueing!muxChoices
<1>2. SweepInv'
  BY <1>1, PendingAreRows, Warmed DEF QueueInv
<1>3. checks' \in Boxes
  BY <1>1, NormalizedTypes DEF QueueInv, Queueing!RefreshView
<1>4. ShowTypes'
  BY <1>1, <1>3 DEF QueueInv, ShowTypes, Boxes
<1> QED
  BY <1>1, <1>2, <1>4, OpsStay, RowsStay DEF QueueInv

LEMMA CheckedTypes ==
    ASSUME QueueInv, NEW flag, Queueing!SetChecked(flag), UNCHANGED probes
    PROVE  checks' \in Boxes /\ SweepInv'
<1>1. checks' \in Boxes
  BY DEF Queueing!SetChecked, QueueInv, ShowTypes, Boxes
<1>2. CASE Queueing!Refill(Queueing!PendingItems)
  BY <1>1, <1>2, PendingAreRows, Refilled DEF QueueInv
<1>3. CASE UNCHANGED <<warm, sweeping, idleSweeps>>
  BY <1>1, <1>3, SweepStays DEF QueueInv
<1> QED
  BY <1>1, <1>2, <1>3 DEF Queueing!SetChecked

LEMMA ToggleKeeps == ASSUME QueueInv, Queueing!ToggleCheck PROVE QueueInv'
<1>1. /\ Queueing!SetChecked(~showChecked)
      /\ UNCHANGED <<rows, showScanning, plans, probeErrors, gateErrors, optOuts, landed,
                     submission, queuedOps, probes>>
  BY DEF Queueing!ToggleCheck, Queueing!rowVars, Queueing!planVars, Queueing!muxChoices
<1>2. checks' \in Boxes /\ SweepInv'
  BY <1>1, CheckedTypes
<1>3. ShowTypes'
  BY <1>1, <1>2 DEF QueueInv, ShowTypes, Boxes
<1> QED
  BY <1>1, <1>2, <1>3, OpsStay, RowsStay DEF QueueInv

LEMMA ChoiceKeeps ==
    ASSUME QueueInv,
           (\E i \in Queueing!Indices : Queueing!ToggleOptOut(i)) \/ Queueing!ToggleAutoMux
    PROVE  QueueInv'
<1>1. /\ UNCHANGED <<rows, showScanning, plans, probeErrors, gateErrors, checks, landed,
                     submission, queuedOps, probes, warm, sweeping, idleSweeps>>
      /\ optOuts' \in SUBSET Queueing!Indices
  BY DEF Queueing!ToggleOptOut, Queueing!ToggleAutoMux, Queueing!rowVars, Queueing!planVars,
         Queueing!checkVars, Queueing!sweepVars, QueueInv, ShowTypes
<1>2. ShowTypes'
  BY <1>1 DEF QueueInv, ShowTypes
<1> QED
  BY <1>1, <1>2, OpsStay, RowsStay, SweepStays DEF QueueInv

LEMMA PlanEdited ==
    ASSUME QueueInv, NEW i \in Queueing!Indices, Queueing!EditPlan(i) PROVE QueueInv'
<1>1. /\ plans' = [plans EXCEPT ![i].mine = TRUE] /\ plans[i] # Queueing!NoPlan
      /\ UNCHANGED <<rows, showScanning, probeErrors, gateErrors, optOuts, checks, landed,
                     submission, queuedOps, probes, warm, sweeping, idleSweeps>>
  BY DEF Queueing!EditPlan, Queueing!rowVars, Queueing!muxChoices, Queueing!checkVars,
         Queueing!sweepVars
<1>2. [plans[i] EXCEPT !.mine = TRUE] \in Queueing!PlanRecords
  BY <1>1 DEF QueueInv, ShowTypes, Queueing!PlanRecords
<1>3. plans' \in [Queueing!Indices -> Queueing!PlanRecords]
  BY <1>1, <1>2 DEF QueueInv, ShowTypes
<1>4. ShowTypes'
  BY <1>1, <1>3 DEF QueueInv, ShowTypes
<1> QED
  BY <1>1, <1>4, OpsStay, RowsStay, SweepStays DEF QueueInv

(* Probes. *)

LEMMA StartKeeps ==
    ASSUME QueueInv, NEW p \in probes, Queueing!StartProbe(p) PROVE QueueInv'
<1>1. UNCHANGED <<rows, showScanning, plans, probeErrors, gateErrors, optOuts, checks, landed,
                  submission, queuedOps, warm, sweeping>>
  BY DEF Queueing!StartProbe, Queueing!rowVars, Queueing!planVars, Queueing!muxChoices,
         Queueing!checkVars
<1>2. p \in Tasks
  BY DEF QueueInv, SweepInv, SlotsHold
<1>3. CASE Queueing!FreeSlot(p)
  <2>1. SweepInv'
    BY <1>1, <1>3, SlotFreed DEF QueueInv
  <2> QED
    BY <1>1, <2>1, ShowStays, RowsStay, OpsStay DEF QueueInv
<1>4. CASE ~Queueing!FreeSlot(p)
  <2> DEFINE q == [p EXCEPT !.stage = IF Queueing!IsMerge(p.index) THEN "parts" ELSE "file",
                            !.row = rows[p.index]]
  <2>1. /\ p.index \in DOMAIN rows /\ probes' = (probes \ {p}) \cup {q} /\ UNCHANGED idleSweeps
    BY <1>4 DEF Queueing!StartProbe
  <2>2. rows[p.index] \in Rows
    BY <2>1, ListDomains DEF QueueInv, ShowTypes
  <2>3. q \in Tasks /\ q.index = p.index /\ q.by = p.by /\ q.row \in Rows
    BY <1>2, <2>2 DEF Tasks
  <2> HIDE DEF q
  <2>4. SweepInv'
    BY <1>1, <2>1, <2>3, TaskBegun DEF QueueInv
  <2> QED
    BY <1>1, <2>4, ShowStays, RowsStay, OpsStay DEF QueueInv
<1> QED
  BY <1>3, <1>4

LEMMA FinishKeeps ==
    ASSUME QueueInv, NEW p \in probes, NEW readable \in BOOLEAN, Queueing!FinishProbe(p, readable)
    PROVE  QueueInv'
<1>1. /\ UNCHANGED <<rows, showScanning, plans, probeErrors, gateErrors, optOuts, checks,
                     submission, queuedOps, warm, sweeping>>
      /\ p.stage = "file" /\ Queueing!FreeSlot(p)
  BY DEF Queueing!FinishProbe, Queueing!rowVars, Queueing!planVars, Queueing!muxChoices,
         Queueing!checkVars
<1>2. p \in Tasks /\ p.row \in Rows /\ p.index \in Queueing!Indices
  BY <1>1 DEF QueueInv, SweepInv, SlotsHold, Tasks
<1>3. SweepInv'
  BY <1>1, SlotFreed DEF QueueInv
<1> DEFINE error == [index |-> p.index, kind |-> "error", plan |-> Queueing!NoPlan]
           plan == IF p.row.file \in Muxable THEN Queueing!PlanFor(p.row.file, rows[p.index])
                   ELSE Queueing!NoPlan
           result == [index |-> p.index, kind |-> "plan", plan |-> plan]
<1>4. \/ landed' = Append(landed, error) \/ landed' = landed
      \/ p.index \in DOMAIN rows /\ landed' = Append(landed, result)
  BY DEF Queueing!FinishProbe
<1>5. error \in Signals
  BY <1>2, NoPlanIsPlan DEF Signals
<1>6. ASSUME p.index \in DOMAIN rows PROVE result \in Signals
  <2>1. rows[p.index] \in Rows
    BY <1>6, ListDomains DEF QueueInv, ShowTypes
  <2>2. p.row.file \in Queueing!FilesOf
    BY <1>2, RowsHaveFields
  <2>3. plan \in Queueing!PlanRecords
    BY <2>1, <2>2, FilePlanned, NoPlanIsPlan
  <2> HIDE DEF plan
  <2> QED
    BY <1>2, <2>3 DEF Signals
<1> HIDE DEF error, result
<1>7. landed \in Seq(Signals)
  BY DEF QueueInv, ShowTypes
<1>8. landed' \in Seq(Signals)
  BY <1>4, <1>5, <1>6, <1>7, AppendProperties
<1>9. ShowTypes'
  BY <1>1, <1>8 DEF QueueInv, ShowTypes
<1> QED
  BY <1>1, <1>3, <1>9, RowsStay, OpsStay DEF QueueInv

LEMMA PartsKeep ==
    ASSUME QueueInv, NEW p \in probes, NEW outcome, Queueing!FinishParts(p, outcome)
    PROVE  QueueInv'
<1>1. /\ UNCHANGED <<rows, showScanning, optOuts, checks, landed, submission, queuedOps, warm,
                     sweeping>>
      /\ p.stage = "parts" /\ Queueing!FreeSlot(p)
      /\ Queueing!PlanMerge(p.index, p.row, outcome)
  BY DEF Queueing!FinishParts, Queueing!rowVars, Queueing!muxChoices, Queueing!checkVars
<1>2. p.row \in Rows /\ p.index \in Queueing!Indices
  BY <1>1 DEF QueueInv, SweepInv, SlotsHold, Tasks
<1>3. SweepInv'
  BY <1>1, SlotFreed DEF QueueInv
<1>4. /\ plans' \in [Queueing!Indices -> Queueing!PlanRecords]
      /\ probeErrors' \in SUBSET Queueing!Indices /\ gateErrors' \in SUBSET Queueing!Indices
  BY <1>1, <1>2, MergePlanned DEF QueueInv
<1>5. ShowTypes'
  BY <1>1, <1>4 DEF QueueInv, ShowTypes
<1> QED
  BY <1>1, <1>3, <1>5, RowsStay, OpsStay DEF QueueInv

LEMMA ShowPlanKeeps == ASSUME QueueInv, Queueing!ShowPlan PROVE QueueInv'
<1> DEFINE e == Head(landed)
<1>1. /\ UNCHANGED <<rows, showScanning, gateErrors, optOuts, checks, submission, queuedOps,
                     probes, warm, sweeping, idleSweeps>>
      /\ landed # <<>> /\ landed' = Tail(landed)
      /\ plans' = [plans EXCEPT ![e.index] = e.plan]
      /\ \/ probeErrors' = probeErrors \cup {e.index} \/ probeErrors' = probeErrors \ {e.index}
  BY DEF Queueing!ShowPlan, Queueing!rowVars, Queueing!muxChoices, Queueing!checkVars
<1>2. landed \in Seq(Signals)
  BY DEF QueueInv, ShowTypes
<1>3. e \in Signals /\ landed' \in Seq(Signals)
  BY <1>1, <1>2, HeadTailProperties
<1>4. e.index \in Queueing!Indices /\ e.plan \in Queueing!PlanRecords
  BY <1>3 DEF Signals
<1> HIDE DEF e
<1>5. ShowTypes'
  BY <1>1, <1>3, <1>4 DEF QueueInv, ShowTypes
<1> QED
  BY <1>1, <1>5, SweepStays, RowsStay, OpsStay DEF QueueInv

LEMMA SweepStep ==
    ASSUME QueueInv, Queueing!LeaveSweep \/ Queueing!TakeNext \/ Queueing!SetExecutorBusy
    PROVE  QueueInv'
<1>1. UNCHANGED <<rows, showScanning, plans, probeErrors, gateErrors, optOuts, checks, landed,
                  submission, queuedOps>>
  BY DEF Queueing!LeaveSweep, Queueing!TakeNext, Queueing!SetExecutorBusy, Queueing!rowVars,
         Queueing!planVars, Queueing!muxChoices, Queueing!checkVars
<1>2. SweepInv'
  BY LeaveKeeps, TakeKeeps, BusyKeeps DEF QueueInv
<1> QED
  BY <1>1, <1>2, ShowStays, RowsStay, OpsStay DEF QueueInv

(* Submission. *)

LEMMA SubmissionMade ==
    ASSUME NEW undo \in {"check", "uncheck", "keep"}
    PROVE  /\ Queueing!Submission(undo) \in Submissions
           /\ Queueing!Submission(undo).stage = "gate"
BY DEF Queueing!Submission, Submissions

LEMMA SubmitKeeps ==
    ASSUME QueueInv, Queueing!SubmitSelected \/ Queueing!SubmitChecked PROVE QueueInv'
<1>1. /\ UNCHANGED <<rows, showScanning, plans, probeErrors, gateErrors, optOuts, landed,
                     queuedOps, probes>>
      /\ ~showScanning
      /\ \E undo \in {"check", "uncheck", "keep"} : submission' = Queueing!Submission(undo)
      /\ \/ Queueing!SetChecked(TRUE)
         \/ UNCHANGED <<checks, warm, sweeping, idleSweeps>>
  BY DEF Queueing!SubmitSelected, Queueing!SubmitChecked, Queueing!Approvable, Queueing!Eligible,
         Queueing!rowVars, Queueing!planVars, Queueing!muxChoices, Queueing!checkVars,
         Queueing!sweepVars
<1>2. RowsStand'
  BY <1>1, SubmissionMade DEF RowsStand
<1>3. checks' \in Boxes /\ SweepInv'
  <2>1. CASE Queueing!SetChecked(TRUE)
    BY <1>1, <2>1, CheckedTypes
  <2>2. CASE UNCHANGED <<checks, warm, sweeping, idleSweeps>>
    BY <1>1, <2>2, SweepStays DEF QueueInv, ShowTypes, Boxes
  <2> QED
    BY <1>1, <2>1, <2>2
<1>4. ShowTypes'
  BY <1>1, <1>3 DEF QueueInv, ShowTypes, Boxes
<1> QED
  BY <1>1, <1>2, <1>3, <1>4, OpsStay DEF QueueInv

\* A submission that is in some stage is a submission.
LEMMA InStage ==
    ASSUME RowsStand, NEW s, s # "none", submission.stage = s
    PROVE  submission \in Submissions /\ submission # Queueing!Settled /\ ~showScanning
BY DEF RowsStand, Queueing!Settled

LEMMA GateKeeps == ASSUME QueueInv, Queueing!GateAgain PROVE QueueInv'
<1>1. /\ UNCHANGED <<rows, showScanning, plans, probeErrors, gateErrors, optOuts, checks, landed,
                     queuedOps, probes, warm, sweeping, idleSweeps>>
      /\ submission.stage = "gate"
      /\ \/ submission' = [submission EXCEPT !.stage = "plan", !.chosen = Queueing!Relevant,
                                             !.todo = Queueing!PendingOf(rows)]
         \/ submission' = [submission EXCEPT !.stage = "done"]
  BY DEF Queueing!GateAgain, Queueing!rowVars, Queueing!planVars, Queueing!muxChoices,
         Queueing!checkVars, Queueing!sweepVars
<1>2. submission \in Submissions /\ ~showScanning
  BY <1>1, InStage DEF QueueInv
<1>3. /\ Queueing!Relevant \subseteq Queueing!Indices
      /\ Queueing!PendingOf(rows) \subseteq DOMAIN rows
      /\ Queueing!PendingOf(rows) \subseteq Queueing!Indices
  BY PendingAreRows, PendingOfList DEF QueueInv, ShowTypes, Queueing!Relevant
<1>4. RowsStand'
  <2>1. CASE submission' = [submission EXCEPT !.stage = "done"]
    <3>1. submission' \in Submissions /\ submission'.stage = "done"
      BY <1>2, <2>1 DEF Submissions
    <3> QED
      BY <1>1, <1>2, <3>1 DEF RowsStand
  <2>2. CASE submission' = [submission EXCEPT !.stage = "plan", !.chosen = Queueing!Relevant,
                                             !.todo = Queueing!PendingOf(rows)]
    <3>1. submission' \in Submissions /\ submission'.todo = Queueing!PendingOf(rows)
      BY <1>2, <1>3, <2>2 DEF Submissions
    <3> QED
      BY <1>1, <1>2, <1>3, <3>1 DEF RowsStand
  <2> QED
    BY <1>1, <2>1, <2>2
<1> QED
  BY <1>1, <1>4, ShowStays, SweepStays, OpsStay DEF QueueInv

LEMMA PlanKeeps ==
    ASSUME QueueInv, NEW readable, NEW outcome, Queueing!PlanNext(readable, outcome)
    PROVE  QueueInv'
<1> DEFINE i == Queueing!First(submission.todo)
<1>1. /\ UNCHANGED <<rows, showScanning, optOuts, checks, landed, queuedOps, probes, warm,
                     sweeping, idleSweeps>>
      /\ submission.stage = "plan" /\ submission.todo # {}
      /\ submission' = [submission EXCEPT !.todo = submission.todo \ {i}]
  BY DEF Queueing!PlanNext, Queueing!rowVars, Queueing!muxChoices, Queueing!checkVars,
         Queueing!sweepVars
<1>2. submission \in Submissions /\ ~showScanning /\ submission # Queueing!Settled
  BY <1>1, InStage DEF QueueInv
<1>3. submission.todo \subseteq DOMAIN rows /\ submission.todo \subseteq Queueing!Indices
  BY <1>1, <1>2 DEF QueueInv, RowsStand, Submissions
<1>4. i \in DOMAIN rows /\ i \in Queueing!Indices
  BY <1>1, <1>3, FirstOfSome
<1>5. rows[i] \in Rows /\ rows[i].file \in Queueing!FilesOf
  BY <1>4, ListDomains, RowsHaveFields DEF QueueInv, ShowTypes
<1>6. \/ UNCHANGED <<plans, probeErrors, gateErrors>>
      \/ Queueing!PlanMerge(i, rows[i], outcome)
      \/ /\ \/ plans' = [plans EXCEPT ![i] = Queueing!PlanFor(rows[i].file, rows[i])]
            \/ plans' = [plans EXCEPT ![i] = Queueing!NoPlan]
         /\ probeErrors' = probeErrors \ {i} \/ probeErrors' = probeErrors \cup {i}
         /\ UNCHANGED gateErrors
  BY DEF Queueing!PlanNext, Queueing!planVars
<1> HIDE DEF i
<1>7. RowsStand'
  <2>1. submission' \in Submissions /\ submission'.todo \subseteq submission.todo
    BY <1>1, <1>2 DEF Submissions
  <2> QED
    BY <1>1, <1>2, <1>3, <2>1 DEF RowsStand
<1>8. /\ plans' \in [Queueing!Indices -> Queueing!PlanRecords]
      /\ probeErrors' \in SUBSET Queueing!Indices /\ gateErrors' \in SUBSET Queueing!Indices
  <2>1. CASE Queueing!PlanMerge(i, rows[i], outcome)
    BY <1>4, <1>5, <2>1, MergePlanned DEF QueueInv
  <2>2. CASE UNCHANGED <<plans, probeErrors, gateErrors>>
    BY <2>2 DEF QueueInv, ShowTypes
  <2>3. CASE /\ \/ plans' = [plans EXCEPT ![i] = Queueing!PlanFor(rows[i].file, rows[i])]
                \/ plans' = [plans EXCEPT ![i] = Queueing!NoPlan]
             /\ probeErrors' = probeErrors \ {i} \/ probeErrors' = probeErrors \cup {i}
             /\ UNCHANGED gateErrors
    <3>1. Queueing!PlanFor(rows[i].file, rows[i]) \in Queueing!PlanRecords
      BY <1>5, FilePlanned
    <3> QED
      BY <1>4, <2>3, <3>1, NoPlanIsPlan DEF QueueInv, ShowTypes
  <2> QED
    BY <1>6, <2>1, <2>2, <2>3
<1>9. ShowTypes'
  BY <1>1, <1>8 DEF QueueInv, ShowTypes
<1> QED
  BY <1>1, <1>7, <1>9, SweepStays, OpsStay DEF QueueInv

LEMMA BakeKeeps == ASSUME QueueInv, Queueing!BakePlans PROVE QueueInv'
<1> DEFINE baked == [i \in Queueing!Indices |->
                        IF i \in DOMAIN rows /\ Queueing!MuxActive(i) THEN plans[i]
                        ELSE Queueing!NoPlan]
<1>1. /\ UNCHANGED <<rows, showScanning, plans, probeErrors, gateErrors, optOuts, checks, landed,
                     queuedOps, probes, warm, sweeping, idleSweeps>>
      /\ submission.stage = "plan"
      /\ submission' = [submission EXCEPT !.stage = "build", !.baked = baked]
  BY DEF Queueing!BakePlans, Queueing!rowVars, Queueing!planVars, Queueing!muxChoices,
         Queueing!checkVars, Queueing!sweepVars
<1>2. submission \in Submissions /\ ~showScanning
  BY <1>1, InStage DEF QueueInv
<1>3. baked \in [Queueing!Indices -> Queueing!PlanRecords]
  BY NoPlanIsPlan DEF QueueInv, ShowTypes
<1> HIDE DEF baked
<1>4. submission' \in Submissions /\ submission'.stage = "build"
  BY <1>1, <1>2, <1>3 DEF Submissions
<1>5. RowsStand'
  BY <1>1, <1>2, <1>4 DEF RowsStand
<1> QED
  BY <1>1, <1>5, ShowStays, SweepStays, OpsStay DEF QueueInv

\* A merge row gets an operation with its append plan only.
LEMMA AddKeeps == ASSUME QueueInv, NEW added \in BOOLEAN, Queueing!AddJob(added) PROVE QueueInv'
<1>1. /\ UNCHANGED <<rows, showScanning, plans, probeErrors, gateErrors, optOuts, checks, landed,
                     probes, warm, sweeping, idleSweeps>>
      /\ submission.stage = "build" /\ submission' = [submission EXCEPT !.stage = "done"]
      /\ \/ queuedOps' = [i \in {j \in DOMAIN rows : Queueing!HasOp(j)} |-> Queueing!OpOf(i)]
         \/ queuedOps' = queuedOps
  BY DEF Queueing!AddJob, Queueing!rowVars, Queueing!planVars, Queueing!muxChoices,
         Queueing!checkVars, Queueing!sweepVars
<1>2. submission \in Submissions /\ ~showScanning
  BY <1>1, InStage DEF QueueInv
<1>3. submission' \in Submissions /\ submission'.stage = "done"
  BY <1>1, <1>2 DEF Submissions
<1>4. RowsStand'
  BY <1>1, <1>2, <1>3 DEF RowsStand
<1>5. ASSUME NEW i \in DOMAIN rows, Queueing!HasOp(i), Queueing!OpOf(i).kind = "merge"
      PROVE  Queueing!OpOf(i).append
  BY <1>5 DEF Queueing!HasOp, Queueing!OpOf, Queueing!IsMerge
<1>6. Queueing!MergesQueuedWhole'
  <2>1. CASE queuedOps' = [i \in {j \in DOMAIN rows : Queueing!HasOp(j)} |-> Queueing!OpOf(i)]
    BY <1>1, <1>5, <2>1 DEF Queueing!MergesQueuedWhole
  <2>2. CASE queuedOps' = queuedOps
    BY <1>1, <2>2 DEF QueueInv, Queueing!MergesQueuedWhole
  <2> QED
    BY <1>1, <2>1, <2>2
<1> QED
  BY <1>1, <1>4, <1>6, ShowStays, SweepStays DEF QueueInv

LEMMA SettleKeeps == ASSUME QueueInv, Queueing!SettleSubmission PROVE QueueInv'
<1>1. /\ UNCHANGED <<rows, showScanning, plans, probeErrors, gateErrors, optOuts, landed,
                     queuedOps>>
      /\ submission' = Queueing!Settled /\ Queueing!Warm(Queueing!PendingItems)
      /\ \/ checks' = Queueing!Normalized(Queueing!Approvable, Queueing!Relevant, rows).checks
         \/ checks' = [i \in Queueing!Indices |-> IF i \in DOMAIN rows THEN "no" ELSE checks[i]]
  BY DEF Queueing!SettleSubmission, Queueing!rowVars, Queueing!planVars, Queueing!muxChoices
<1>2. SweepInv'
  BY <1>1, PendingAreRows, Warmed DEF QueueInv
<1>3. checks' \in Boxes
  <2>1. Queueing!Normalized(Queueing!Approvable, Queueing!Relevant, rows).checks \in Boxes
    BY NormalizedTypes DEF QueueInv
  <2>2. [i \in Queueing!Indices |-> IF i \in DOMAIN rows THEN "no" ELSE checks[i]] \in Boxes
    BY DEF QueueInv, ShowTypes, Boxes
  <2> QED
    BY <1>1, <2>1, <2>2
<1>4. ShowTypes'
  BY <1>1, <1>3 DEF QueueInv, ShowTypes, Boxes
<1>5. RowsStand'
  BY <1>1 DEF RowsStand
<1> QED
  BY <1>1, <1>2, <1>4, <1>5, OpsStay DEF QueueInv

LEMMA UnqueueKeeps == ASSUME QueueInv, Queueing!Unqueue PROVE QueueInv'
<1>1. /\ UNCHANGED <<rows, showScanning, plans, probeErrors, gateErrors, optOuts, checks, landed,
                     submission, probes, warm, sweeping, idleSweeps>>
      /\ queuedOps' = <<>>
  BY DEF Queueing!Unqueue, Queueing!NoJob, Queueing!rowVars, Queueing!planVars,
         Queueing!muxChoices, Queueing!checkVars, Queueing!sweepVars
<1>2. Queueing!MergesQueuedWhole'
  <2>1. DOMAIN queuedOps' = {}
    BY <1>1
  <2> QED
    BY <2>1 DEF Queueing!MergesQueuedWhole
<1> QED
  BY <1>1, <1>2, ShowStays, SweepStays, RowsStay DEF QueueInv

LEMMA QueueingStarts == Queueing!QueueingInit => QueueInv
<1> SUFFICES ASSUME Queueing!QueueingInit PROVE QueueInv
  OBVIOUS
<1>1. /\ rows \in Projections /\ plans = [i \in Queueing!Indices |-> Queueing!NoPlan]
      /\ probeErrors = {} /\ gateErrors = {} /\ optOuts = {} /\ probes = {} /\ landed = <<>>
      /\ warm = {} /\ sweeping = 0 /\ idleSweeps = 0 /\ submission = Queueing!Settled
      /\ queuedOps = <<>>
  BY DEF Queueing!QueueingInit, Queueing!NoJob
<1>2. checks \in Boxes
  BY DEF Queueing!QueueingInit, Boxes
<1>3. ShowTypes
  BY <1>1, <1>2, NoPlanIsPlan, EmptySeq DEF ShowTypes, Boxes, Queueing!RowLists
<1>4. SweepInv
  <2>1. Probing(probes) = {}
    BY <1>1 DEF Probing
  <2>2. IsFiniteSet({}) /\ Cardinality({}) = 0
    BY FS_EmptySet
  <2>3. SlotsHold
    BY <1>1 DEF SlotsHold
  <2>4. WorkersCounted
    <3>1. IsFiniteSet(Probing(probes)) /\ Cardinality(Probing(probes)) = 0
      BY <2>1, <2>2, Zenon
    <3> QED
      BY <1>1, <3>1 DEF WorkersCounted
  <2>5. WarmHasWorker
    BY <1>1, <2>2 DEF WarmHasWorker
  <2> QED
    BY <2>3, <2>4, <2>5 DEF SweepInv
<1>5. RowsStand
  BY <1>1 DEF RowsStand
<1>6. Queueing!MergesQueuedWhole
  <2>1. DOMAIN queuedOps = {}
    BY <1>1
  <2> QED
    BY <2>1 DEF Queueing!MergesQueuedWhole
<1> QED
  BY <1>3, <1>4, <1>5, <1>6 DEF QueueInv

LEMMA QueueingStep == ASSUME QueueInv, Queueing!QueueingNext PROVE QueueInv'
<1>1. CASE Queueing!UserQueueStep
  BY <1>1, EditKeeps, RescanKeeps, SelectKeeps, ToggleKeeps, ChoiceKeeps, PlanEdited, SubmitKeeps,
     UnqueueKeeps DEF Queueing!UserQueueStep
<1>2. CASE Queueing!ProbeStep
  BY <1>2, StartKeeps, FinishKeeps, PartsKeep, ShowPlanKeeps, SweepStep DEF Queueing!ProbeStep
<1>3. CASE Queueing!SubmissionStep
  BY <1>3, GateKeeps, BakeKeeps, AddKeeps, SettleKeeps, PlanKeeps DEF Queueing!SubmissionStep
<1> QED
  BY <1>1, <1>2, <1>3, LandsKeeps DEF Queueing!QueueingNext

LEMMA QueueingStays == ASSUME QueueInv, UNCHANGED queueingVars PROVE QueueInv'
<1>1. UNCHANGED <<rows, showScanning, plans, probeErrors, gateErrors, optOuts, checks, landed,
                  submission, queuedOps, probes, warm, sweeping, idleSweeps>>
  BY DEF queueingVars
<1> QED
  BY <1>1, ShowStays, SweepStays, RowsStay, OpsStay DEF QueueInv

LEMMA QueueingTold ==
    ASSUME QueueInv
    PROVE  Queueing!QueueingTypeOK /\ Queueing!SweepServed /\ Queueing!MergesQueuedWhole
<1>1. Queueing!Cardinality(Probing(probes)) = Cardinality(Probing(probes))
  BY SameCount
<1>2. Queueing!QueueingTypeOK
  <2>1. submission.stage \in {"none", "gate", "plan", "build", "done"}
    BY DEF QueueInv, RowsStand, Submissions, Queueing!Settled
  <2>2. sweeping = idleSweeps + Queueing!Cardinality({p \in probes : p.by = "sweep"})
    BY <1>1 DEF QueueInv, SweepInv, WorkersCounted, Probing
  <2> QED
    BY <2>1, <2>2 DEF QueueInv, SweepInv, SlotsHold, ShowTypes, Queueing!QueueingTypeOK
<1>3. Queueing!SweepServed
  BY <1>1 DEF QueueInv, SweepInv, WorkersCounted, WarmHasWorker, Probing, Queueing!SweepServed
<1> QED
  BY <1>2, <1>3 DEF QueueInv

(* One component is at work in every behaviour. *)

LEMMA QueueingInSuite == SuiteSpec => [](part = "queueing" => QueueInv)
<1>1. SuiteInit => (part = "queueing" => QueueInv)
  BY QueueingStarts DEF SuiteInit
<1>2. (part = "queueing" => QueueInv) /\ [SuiteNext]_suiteVars
        => (part = "queueing" => QueueInv)'
  <2> SUFFICES ASSUME part = "queueing" => QueueInv, [SuiteNext]_suiteVars,
                      part' = "queueing"
               PROVE  QueueInv'
    OBVIOUS
  <2>1. CASE part = "queueing" /\ Queueing!QueueingNext
    BY <2>1, QueueingStep
  <2>2. CASE UNCHANGED suiteVars
    BY <2>2, QueueingStays DEF suiteVars
  <2> QED
    BY <2>1, <2>2 DEF SuiteNext
<1> QED
  BY <1>1, <1>2, PTL DEF SuiteSpec

\* Items that wait for a plan always have a live worker that will look at them,
\* every slot has one task and every worker is counted, and a merge is queued
\* with the plan that appends its parts or not at all, for any lists of rows and
\* any number of workers, edits and rescans (_media_workspace_automux.py,
\* _queue_submission_helpers.py).
THEOREM SweepIsAlwaysServed == SuiteSpec => []QueueingHolds
<1>1. (part = "queueing" => QueueInv) => QueueingHolds
  BY QueueingTold DEF QueueingHolds
<1> QED
  BY <1>1, QueueingInSuite, PTL

(***************************************************************************)
(* The files of the jobs, for any release, any number of jobs and any      *)
(* order of their moves, sidecars and reverts.                             *)
(***************************************************************************)
Only(j, s) == job[j].stage \in s

\* The numbered show folder a job writes to.
JobFolder(j) == Disk!Remap(Disk!ShowFolder(j), job[j].remap)
InShow(j, d) == d.root = "out" /\ d.top = 0 /\ Disk!Top(d) = Disk!ShowFolder(j)

\* Types, and what a job keeps track of, whatever the disk is like.
DiskTyped ==
    /\ scene \in Scenes /\ job \in [DOMAIN scene.jobs -> Disk!Jobs]
    /\ folders \subseteq Disk!Dirs /\ IsFiniteSet(folders)
    /\ DOMAIN disk \subseteq Disk!Paths
    /\ \A p \in DOMAIN disk : disk[p] \in scene.files \cup {Disk!Downloaded, Disk!Added}
    /\ gone \subseteq scene.files \cup {Disk!Downloaded, Disk!Added} /\ IsFiniteSet(gone)
    /\ intrusions \in 0 .. MaxIntrusions /\ Cardinality(gone) <= intrusions

\* A sidecar that is to be written has the place of a file that is to be moved only
\* if two videos have one place.
Twins(j) == \E v, w \in Disk!Videos(j) : v # w /\ Disk!Target(v, 0) = Disk!Target(w, 0)
SidecarsClear(j) == \A s \in job[j].plan, op \in job[j].ops : s.at = Disk!Target(op, 0) => Twins(j)

OpsWell(j) ==
    /\ \A op \in job[j].ops : op.src.dir.root = "src" /\ InShow(j, op.dir)
    /\ \A s \in job[j].plan : InShow(j, s.at.dir)
    /\ SidecarsClear(j)
    /\ job[j].moved \subseteq Disk!Plain(j)
    /\ \A d \in job[j].made : Disk!Top(d) = JobFolder(j)

\* What of its ops a job has before it in each stage.
StageWell(j) ==
    /\ Only(j, {"draft"}) => job[j].ops = scene.jobs[j]
    /\ Only(j, {"draft", "queued"}) => job[j].moved = {} /\ job[j].written = {} /\ job[j].made = {}
    /\ Only(j, {"moving"}) => /\ job[j].todo \subseteq Disk!Plain(j) \ job[j].moved
                              /\ job[j].written = {}
    /\ Only(j, {"sidecars"}) => job[j].todo \subseteq job[j].plan
    /\ Only(j, {"restoring"}) => job[j].todo \subseteq job[j].moved

\* A rename job has nothing to mux, moves its files to different places, writes
\* sidecars of its plan only, and with no file to move it writes nothing.
Idle(j) == /\ job[j].made = {} /\ job[j].written = {}
           /\ Only(j, {"sidecars"}) => job[j].todo = {}
RenameWell(j) ==
    ~Disk!IsRemux(j) =>
        /\ Disk!Plain(j) = {} => Idle(j)
        /\ Only(j, {"muxing"}) => job[j].todo = {} /\ job[j].written = {}
        /\ \A p \in job[j].written : \E s \in job[j].plan : p = Disk!SidecarTarget(j, s)
        /\ ~Only(j, {"draft", "queued", "failed"}) =>
              \A op, other \in Disk!Plain(j) :
                 op # other => Disk!New(j, op) # Disk!New(j, other)

JobWell(j) == OpsWell(j) /\ StageWell(j) /\ RenameWell(j)
JobsWell == \A j \in DOMAIN job : JobWell(j)

\* A step of one job, which keeps its ops, its plan and its folder; and one that also
\* keeps what it is to undo.
OnlyOf(j) == DOMAIN job' = DOMAIN job /\ \A k \in DOMAIN job : k # j => job'[k] = job[k]
Keeps(j) == /\ OnlyOf(j) /\ scene' = scene
            /\ job'[j].ops = job[j].ops /\ job'[j].plan = job[j].plan /\ job'[j].remap = job[j].remap
KeepsUndo(j) == /\ Keeps(j) /\ job'[j].moved = job[j].moved /\ job'[j].made = job[j].made
                /\ job'[j].written = job[j].written

\* The user adds nothing, and every job is a rename.
Calm == Disk!OnlyRemovals /\ \A j \in DOMAIN job : ~Disk!IsRemux(j)

Busy(j) == Only(j, {"moving", "muxing", "sidecars"})
\* The job's folder is its own until it has been reverted.
Claims(j) ==
    \/ Busy(j) /\ Disk!Plain(j) # {}
    \/ Disk!Left(j) # {} /\ Only(j, {"completed", "restoring"})

OneBusy == \A j, k \in DOMAIN job : Busy(j) /\ Busy(k) => j = k
FoldersApart == \A j, k \in DOMAIN job : Claims(j) /\ Claims(k) /\ j # k => JobFolder(j) # JobFolder(k)
FoldersThere == \A j \in DOMAIN job : Claims(j) /\ Disk!Left(j) # {} => JobFolder(j) \in folders
FilesHoused ==
    \A p \in DOMAIN disk : p.dir.root = "out" => p.dir \in folders /\ Disk!Top(p.dir) \in folders
\* A job's folder holds what the job put there and nothing else.
FolderIsItsOwn ==
    \A j \in DOMAIN job : \A p \in DOMAIN disk :
       Claims(j) /\ Disk!Top(p.dir) = JobFolder(j)
          => p \in job[j].written \/ \E op \in job[j].moved : p = Disk!New(j, op)
\* The release folder has files of its own only, and what a job moved or wrote is
\* what it says.
ReleaseIsItsOwn == \A p \in DOMAIN disk : p.dir.root = "src" => disk[p] = p
MovesAreTrue ==
    \A j \in DOMAIN job : Claims(j) => \A op \in job[j].moved :
       Disk!Exists(Disk!New(j, op)) => disk[Disk!New(j, op)] = op.src
SidecarsAreTrue ==
    \A j \in DOMAIN job : Claims(j) => \A p \in job[j].written :
       Disk!Exists(p) => disk[p] = Disk!Downloaded
Kept == \A c \in scene.files \ gone : \E p \in DOMAIN disk : disk[p] = c

DiskCalm == /\ FoldersApart /\ FoldersThere /\ FilesHoused /\ FolderIsItsOwn
            /\ ReleaseIsItsOwn /\ MovesAreTrue /\ SidecarsAreTrue /\ Kept
DiskInv == DiskTyped /\ JobsWell /\ OneBusy /\ (Calm => DiskCalm)

-----------------------------------------------------------------------------
(* Paths and folders. *)

\* The ops of a job go to one show folder of the output root.
LEMMA ShowFolders ==
    ASSUME DiskTyped, NEW j \in DOMAIN job
    PROVE  /\ Disk!ShowFolder(j) \in Disk!Dirs
           /\ Disk!ShowFolder(j).root = "out" /\ Disk!ShowFolder(j).top = 0
           /\ Disk!ShowFolder(j).sub = 0
           /\ \A op \in scene.jobs[j] : InShow(j, op.dir)
<1>1. scene \in Scenes /\ j \in DOMAIN scene.jobs
  BY DEF DiskTyped
<1>2. /\ scene.jobs[j] # {} /\ scene.jobs[j] \subseteq Disk!Ops
      /\ \A op \in scene.jobs[j] : /\ op.dir.root = "out" /\ op.dir.top = 0
                                   /\ \A other \in scene.jobs[j] : other.dir.show = op.dir.show
  BY <1>1, SceneAssumption
<1> DEFINE first == CHOOSE op \in scene.jobs[j] : TRUE
<1>3. first \in scene.jobs[j]
  BY <1>2
<1> HIDE DEF first
<1>4. \A op \in scene.jobs[j] : op.dir \in Disk!Dirs
  BY <1>2 DEF Disk!Ops
<1>5. Disk!ShowFolder(j) = [first.dir EXCEPT !.sub = 0]
  BY DEF first, Disk!ShowFolder, Disk!Top
<1>6. \A op \in scene.jobs[j] : [op.dir EXCEPT !.sub = 0] = [first.dir EXCEPT !.sub = 0]
  <2> TAKE op \in scene.jobs[j]
  <2>1. /\ op.dir \in Disk!Dirs /\ first.dir \in Disk!Dirs
        /\ op.dir.root = first.dir.root /\ op.dir.top = first.dir.top
        /\ op.dir.show = first.dir.show
    BY <1>2, <1>3, <1>4
  <2> QED
    BY <2>1 DEF Disk!Dirs
<1> QED
  BY <1>2, <1>3, <1>4, <1>5, <1>6 DEF Disk!Dirs, InShow, Disk!Top

\* A renumbered directory is in the renumbered show folder.
LEMMA RemappedDirs ==
    ASSUME DiskTyped, NEW j \in DOMAIN job, NEW d \in Disk!Dirs, InShow(j, d), NEW n \in Nat
    PROVE  /\ Disk!Remap(d, n) \in Disk!Dirs /\ Disk!Remap(d, n).root = "out"
           /\ Disk!Top(Disk!Remap(d, n)) = Disk!Remap(Disk!ShowFolder(j), n)
           /\ Disk!Top(Disk!Remap(d, n)) \in Disk!Dirs
           /\ Disk!Top(Disk!Remap(d, n)).root = "out"
<1>1. CASE n = 0
  BY <1>1 DEF Disk!Remap, Disk!Dirs, InShow, Disk!Top
<1>2. CASE n # 0
  BY <1>2 DEF Disk!Remap, Disk!Dirs, InShow, Disk!Top
<1> QED
  BY <1>1, <1>2

LEMMA FoldersOfJobs ==
    ASSUME DiskTyped, NEW j \in DOMAIN job
    PROVE  JobFolder(j) \in Disk!Dirs /\ JobFolder(j).root = "out" /\ JobFolder(j).sub = 0
<1>1. job[j].remap \in Nat
  BY DEF DiskTyped, Disk!Jobs
<1> QED
  BY <1>1, ShowFolders DEF JobFolder, Disk!Remap, Disk!Dirs

\* Where a job puts a file, in its folder.
LEMMA NewPaths ==
    ASSUME DiskTyped, NEW j \in DOMAIN job, OpsWell(j), NEW op \in job[j].ops
    PROVE  /\ Disk!New(j, op) \in Disk!Paths /\ Disk!New(j, op).dir.root = "out"
           /\ Disk!Top(Disk!New(j, op).dir) = JobFolder(j)
           /\ Disk!Target(op, 0) \in Disk!Paths /\ Disk!Target(op, 0).dir.root = "out"
<1>1. job[j].remap \in Nat /\ op \in Disk!Ops
  BY DEF DiskTyped, Disk!Jobs
<1>2. op.dir \in Disk!Dirs /\ op.base \in Disk!Names /\ op.kind \in Disk!Kinds /\ InShow(j, op.dir)
  BY <1>1 DEF Disk!Ops, OpsWell
<1>3. /\ Disk!Remap(op.dir, job[j].remap) \in Disk!Dirs
      /\ Disk!Remap(op.dir, job[j].remap).root = "out"
      /\ Disk!Top(Disk!Remap(op.dir, job[j].remap)) = JobFolder(j)
      /\ Disk!Remap(op.dir, 0) \in Disk!Dirs /\ Disk!Remap(op.dir, 0).root = "out"
  BY <1>1, <1>2, RemappedDirs DEF JobFolder
<1> QED
  BY <1>2, <1>3 DEF Disk!New, Disk!Target, Disk!File, Disk!Paths

\* Where a job writes a sidecar, in its folder.
LEMMA SidecarPaths ==
    ASSUME DiskTyped, NEW j \in DOMAIN job, OpsWell(j), NEW s \in job[j].plan
    PROVE  /\ Disk!SidecarTarget(j, s) \in Disk!Paths /\ Disk!SidecarTarget(j, s).dir.root = "out"
           /\ Disk!Top(Disk!SidecarTarget(j, s).dir) = JobFolder(j)
<1>1. job[j].remap \in Nat /\ s \in Disk!Sidecars
  BY DEF DiskTyped, Disk!Jobs
<1>2. s.at \in Disk!Paths /\ s.at.dir \in Disk!Dirs /\ InShow(j, s.at.dir)
  BY <1>1 DEF Disk!Sidecars, Disk!Paths, OpsWell
<1>3. /\ Disk!Remap(s.at.dir, job[j].remap) \in Disk!Dirs
      /\ Disk!Remap(s.at.dir, job[j].remap).root = "out"
      /\ Disk!Top(Disk!Remap(s.at.dir, job[j].remap)) = JobFolder(j)
  BY <1>1, <1>2, RemappedDirs DEF JobFolder
<1> QED
  BY <1>2, <1>3 DEF Disk!SidecarTarget, Disk!Paths

\* Renumbering keeps the seasons of a show apart.
LEMMA RemapTells ==
    ASSUME DiskTyped, NEW j \in DOMAIN job, NEW c \in Disk!Dirs, NEW d \in Disk!Dirs,
           InShow(j, c), InShow(j, d), NEW n \in Nat, Disk!Remap(c, n) = Disk!Remap(d, n)
    PROVE  c = d
<1>1. CASE n = 0
  BY <1>1 DEF Disk!Remap
<1>2. CASE n # 0
  <2>1. [c EXCEPT !.top = n] = [d EXCEPT !.top = n]
    BY <1>2 DEF Disk!Remap
  <2>2. c.root = d.root /\ c.top = d.top
    BY DEF InShow
  <2>3. c.show = d.show /\ c.sub = d.sub
    BY <2>1 DEF Disk!Dirs
  <2> QED
    BY <2>2, <2>3 DEF Disk!Dirs
<1> QED
  BY <1>1, <1>2

\* What a rename job writes beside its files overwrites none of them.
LEMMA SidecarsBeside ==
    ASSUME DiskTyped, NEW j \in DOMAIN job, OpsWell(j), RenameWell(j), ~Disk!IsRemux(j),
           ~Only(j, {"draft", "queued", "failed"}),
           NEW s \in job[j].plan, NEW op \in Disk!Plain(j)
    PROVE  Disk!SidecarTarget(j, s) # Disk!New(j, op)
<1> SUFFICES ASSUME Disk!SidecarTarget(j, s) = Disk!New(j, op) PROVE FALSE
  OBVIOUS
<1>1. job[j].remap \in Nat /\ s \in Disk!Sidecars /\ op \in job[j].ops /\ op \in Disk!Ops
  BY DEF DiskTyped, Disk!Jobs, Disk!Plain
<1>2. s.at \in Disk!Paths /\ s.at.dir \in Disk!Dirs /\ op.dir \in Disk!Dirs
  BY <1>1 DEF Disk!Sidecars, Disk!Paths, Disk!Ops
<1>3. InShow(j, s.at.dir) /\ InShow(j, op.dir)
  BY <1>1 DEF OpsWell
<1>4. /\ Disk!Remap(s.at.dir, job[j].remap) = Disk!Remap(op.dir, job[j].remap)
      /\ s.at.base = op.base /\ s.at.kind = op.kind
  BY <1>2 DEF Disk!SidecarTarget, Disk!New, Disk!Target, Disk!File, Disk!Paths
<1>5. s.at.dir = op.dir
  BY <1>1, <1>2, <1>3, <1>4, RemapTells
<1>6. s.at = Disk!Target(op, 0)
  BY <1>2, <1>4, <1>5 DEF Disk!Target, Disk!File, Disk!Paths, Disk!Remap
<1>7. PICK v, w \in Disk!Videos(j) : v # w /\ Disk!Target(v, 0) = Disk!Target(w, 0)
  BY <1>1, <1>6 DEF OpsWell, SidecarsClear, Twins
<1>8. v \in Disk!Plain(j) /\ w \in Disk!Plain(j)
  BY DEF Disk!Plain, Disk!Videos, Disk!IsRemux
<1>9. v.dir = w.dir /\ v.base = w.base /\ v.kind = w.kind
  BY <1>7 DEF Disk!Target, Disk!File, Disk!Remap
<1>10. Disk!New(j, v) = Disk!New(j, w)
  BY <1>9 DEF Disk!New, Disk!Target
<1> QED
  BY <1>7, <1>8, <1>10 DEF RenameWell

\* Whatever a rename job made, wrote or moved is in its folder.
LEMMA LeftInFolder ==
    ASSUME DiskTyped, NEW j \in DOMAIN job, OpsWell(j), RenameWell(j), ~Disk!IsRemux(j)
    PROVE  /\ \A d \in Disk!Left(j) : Disk!Top(d) = JobFolder(j)
           /\ \A p \in job[j].written : p.dir.root = "out" /\ Disk!Top(p.dir) = JobFolder(j)
<1>1. \A op \in job[j].moved : Disk!Top(Disk!New(j, op).dir) = JobFolder(j)
  BY NewPaths DEF OpsWell, Disk!Plain
<1>2. \A p \in job[j].written : p.dir.root = "out" /\ Disk!Top(p.dir) = JobFolder(j)
  BY SidecarPaths DEF RenameWell
<1> QED
  BY <1>1, <1>2 DEF OpsWell, Disk!Left

LEMMA DiskCounts == \A S : Disk!Cardinality(S) = Cardinality(S)
BY Zenon DEF Cardinality, Disk!Cardinality

\* The number chosen for a folder is one that is not taken.
LEMMA FreshNumber ==
    ASSUME DiskTyped, NEW j \in DOMAIN job
    PROVE  /\ Disk!NextNumber(Disk!ShowFolder(j)) \in Nat \ {0}
           /\ Disk!Remap(Disk!ShowFolder(j), Disk!NextNumber(Disk!ShowFolder(j))) \notin folders
<1> DEFINE show == Disk!ShowFolder(j)
           N == 1 .. Cardinality(folders) + 1
           free == {n \in N : Disk!Remap(show, n) \notin folders}
<1>1. IsFiniteSet(folders) /\ Cardinality(folders) \in Nat
  BY FS_CardinalityType DEF DiskTyped
<1>2. N \subseteq Nat /\ 0 \notin N /\ IsFiniteSet(N) /\ Cardinality(N) = Cardinality(folders) + 1
  BY <1>1, FS_Interval
<1>3. free # {}
  <2> SUFFICES ASSUME \A n \in N : Disk!Remap(show, n) \in folders PROVE FALSE
    OBVIOUS
  <2> DEFINE f == [n \in N |-> Disk!Remap(show, n)]
  <2>1. f \in [N -> folders]
    OBVIOUS
  <2>2. \A m, n \in N : f[m] = f[n] => m = n
    <3> SUFFICES ASSUME NEW m \in N, NEW n \in N, f[m] = f[n] PROVE m = n
      OBVIOUS
    <3>1. [show EXCEPT !.top = m] = [show EXCEPT !.top = n]
      BY <1>2 DEF Disk!Remap
    <3> QED
      BY <3>1, ShowFolders DEF Disk!Dirs
  <2>3. f \in Injection(N, folders)
    BY <2>1, <2>2 DEF Injection, IsInjective
  <2> QED
    BY <1>1, <1>2, <2>3, FS_Injection
<1>4. \E n \in free : \A m \in free : ~(<<m, n>> \in OpToRel(<, Nat))
  BY <1>2, <1>3, WFMin, NatLessThanWellFounded
<1>5. PICK n \in free : \A m \in free : ~(<<m, n>> \in OpToRel(<, Nat))
  BY <1>4
<1>6. /\ n \in N /\ Disk!Remap(show, n) \notin folders
      /\ \A m \in 1 .. n - 1 : Disk!Remap(show, m) \in folders
  <2> SUFFICES ASSUME NEW m \in 1 .. n - 1 PROVE Disk!Remap(show, m) \in folders
    OBVIOUS
  <2>1. m \in N /\ m < n /\ m \in Nat /\ n \in Nat
    BY <1>1
  <2>2. <<m, n>> \in OpToRel(<, Nat)
    BY <2>1 DEF OpToRel
  <2> QED
    BY <1>5, <2>1, <2>2
<1>6a. Disk!Cardinality(folders) = Cardinality(folders)
  BY DiskCounts
<1> HIDE DEF show
<1>7. /\ Disk!NextNumber(show) \in N
      /\ Disk!Remap(show, Disk!NextNumber(show)) \notin folders
  BY <1>6, <1>6a DEF Disk!NextNumber
<1> QED
  BY <1>2, <1>7 DEF show

-----------------------------------------------------------------------------
(* What the jobs keep track of. *)

\* A job that is left alone.
LEMMA SameJob ==
    ASSUME scene' = scene, NEW j \in DOMAIN job, JobWell(j), job'[j] = job[j]
    PROVE  JobWell(j)'
<1>1. OpsWell(j)'
  BY DEF JobWell, OpsWell, InShow, SidecarsClear, Twins, JobFolder, Disk!Plain, Disk!Videos, Disk!ShowFolder
<1>2. StageWell(j)'
  BY DEF JobWell, StageWell, Only, Disk!Plain
<1>3. RenameWell(j)'
  BY DEF JobWell, RenameWell, Idle, Only, Disk!Plain, Disk!IsRemux, Disk!New, Disk!SidecarTarget
<1> QED
  BY <1>1, <1>2, <1>3 DEF JobWell

LEMMA OthersStay ==
    ASSUME DiskTyped, JobsWell, scene' = scene, NEW j \in DOMAIN job, NEW r \in Disk!Jobs,
           job' = [job EXCEPT ![j] = r], JobWell(j)'
    PROVE  JobsWell' /\ job' \in [DOMAIN scene'.jobs -> Disk!Jobs]
<1>1. /\ DOMAIN job' = DOMAIN job /\ job' \in [DOMAIN scene'.jobs -> Disk!Jobs]
      /\ \A k \in DOMAIN job : k # j => job'[k] = job[k]
  BY DEF DiskTyped
<1>2. ASSUME NEW k \in DOMAIN job, k # j PROVE JobWell(k)'
  BY <1>1, <1>2, SameJob DEF JobsWell
<1> QED
  BY <1>1, <1>2 DEF JobsWell

\* As long as a job keeps its ops, its plan and its folder.
LEMMA JobOpsStay ==
    ASSUME NEW j \in DOMAIN job, OpsWell(j), scene' = scene,
           job'[j].ops = job[j].ops, job'[j].plan = job[j].plan, job'[j].remap = job[j].remap
    PROVE  /\ Disk!Plain(j)' = Disk!Plain(j) /\ Disk!IsRemux(j)' = Disk!IsRemux(j)
           /\ JobFolder(j)' = JobFolder(j)
           /\ \A op : Disk!New(j, op)' = Disk!New(j, op)
           /\ \A s : Disk!SidecarTarget(j, s)' = Disk!SidecarTarget(j, s)
           /\ job'[j].moved \subseteq Disk!Plain(j)
                 /\ (\A d \in job'[j].made : Disk!Top(d) = JobFolder(j)) => OpsWell(j)'
<1>1. /\ Disk!Plain(j)' = Disk!Plain(j) /\ Disk!IsRemux(j)' = Disk!IsRemux(j)
      /\ JobFolder(j)' = JobFolder(j) /\ Disk!ShowFolder(j)' = Disk!ShowFolder(j)
      /\ Disk!Videos(j)' = Disk!Videos(j)
  BY DEF Disk!Plain, Disk!IsRemux, JobFolder, Disk!ShowFolder, Disk!Videos
<1>2. /\ \A op : Disk!New(j, op)' = Disk!New(j, op)
      /\ \A s : Disk!SidecarTarget(j, s)' = Disk!SidecarTarget(j, s)
  BY DEF Disk!New, Disk!SidecarTarget
<1>3. SidecarsClear(j)'
  BY <1>1 DEF OpsWell, SidecarsClear, Twins
<1>4. /\ \A op \in job'[j].ops : op.src.dir.root = "src" /\ InShow(j, op.dir)'
      /\ \A s \in job'[j].plan : InShow(j, s.at.dir)'
  BY <1>1 DEF OpsWell, InShow
<1> QED
  BY <1>1, <1>2, <1>3, <1>4 DEF OpsWell

\* Queueing: the ops found on the disk and the open sidecars go to the folder of the job.
LEMMA SubmitWell ==
    ASSUME DiskTyped, JobsWell, NEW j \in DOMAIN job, NEW want \in Settings, Disk!Submit(j, want)
    PROVE  /\ JobsWell' /\ job' \in [DOMAIN scene'.jobs -> Disk!Jobs]
           /\ OnlyOf(j) /\ scene' = scene /\ Only(j, {"draft"}) /\ job'[j].stage = "queued"
           /\ job[j].ops \subseteq job'[j].ops
           /\ job'[j].moved = {} /\ job'[j].written = {} /\ job'[j].made = {}
<1> DEFINE wanted == Disk!AskedFor(j, want)
           found(s) == Disk!Found(s, want)
           filled == {w \in wanted : found(w) # {} /\ ~w.extra}
           carried == Disk!Carried(j, want)
           open == Disk!Open(j, want)
           r == [job[j] EXCEPT !.ops = job[j].ops \union carried, !.plan = open,
                               !.local = want.local, !.stage = "queued"]
<1>1. job' = [job EXCEPT ![j] = r] /\ UNCHANGED scene /\ Only(j, {"draft"})
  <2>1. job' = [job EXCEPT ![j] = r]
    BY Zenon DEF Disk!Submit
  <2>2. UNCHANGED scene
    BY DEF Disk!Submit
  <2>3. Only(j, {"draft"})
    BY DEF Disk!Submit, Disk!Stage, Only
  <2> QED
    BY <2>1, <2>2, <2>3
<1>2. want.asset \in BOOLEAN /\ want.local \in BOOLEAN
  BY SceneAssumption
<1>3. job[j] \in Disk!Jobs /\ job[j].ops = scene.jobs[j] /\ job[j].moved = {} /\ job[j].written = {}
      /\ job[j].made = {} /\ OpsWell(j)
  BY <1>1 DEF DiskTyped, JobsWell, JobWell, StageWell, Only
<1>4. /\ \A op \in job[j].ops : op \in Disk!Ops /\ op.src.dir.root = "src" /\ InShow(j, op.dir)
                                /\ op.base # "poster" /\ op.kind \notin {"img", "thumb"}
  <2>1. scene \in Scenes /\ j \in DOMAIN scene.jobs
    BY DEF DiskTyped
  <2> QED
    BY <1>3, <2>1, SceneAssumption DEF OpsWell
<1> DEFINE show == Disk!ShowFolder(j)
           poster == Disk!Sidecar(Disk!File(show, "poster", "img"), show, "poster", "img", want.asset, FALSE)
           thumb(op) == Disk!Sidecar(op.src, op.dir, op.base, "thumb", want.asset, FALSE)
           img(op) == Disk!Sidecar(op.src, op.dir, op.base, "img", want.asset, TRUE)
<1>5. \A s \in wanted : s = poster \/ \E v \in Disk!Videos(j) : s = thumb(v) \/ s = img(v)
  BY DEF Disk!Wanted, Disk!AskedFor
<1>6. Disk!Videos(j) \subseteq job[j].ops /\ \A v \in Disk!Videos(j) : v.kind = "mkv"
  BY DEF Disk!Videos
<1>7. InShow(j, show) /\ show \in Disk!Dirs
  BY ShowFolders DEF InShow, Disk!Top, Disk!Dirs
<1> HIDE DEF show
<1>8. \A s \in wanted : s \in Disk!Sidecars /\ InShow(j, s.at.dir)
  <2> SUFFICES ASSUME NEW s \in wanted PROVE s \in Disk!Sidecars /\ InShow(j, s.at.dir)
    OBVIOUS
  <2>a. \A a, b \in Disk!Paths, e \in BOOLEAN, f \in BOOLEAN :
           [slot |-> a, at |-> b, asset |-> e, extra |-> f] \in Disk!Sidecars
    BY DEF Disk!Sidecars
  <2>1. CASE s = poster
    <3>1. Disk!File(show, "poster", "img") \in Disk!Paths
      BY <1>7 DEF Disk!File, Disk!Paths, Disk!Names, Disk!Kinds
    <3>2. s \in Disk!Sidecars
      BY <2>1, <3>1, <1>2, <2>a DEF Disk!Sidecar
    <3>3. s.at.dir = show
      BY <2>1 DEF Disk!Sidecar, Disk!File
    <3> QED
      BY <3>2, <3>3, <1>7
  <2>2. ASSUME NEW v \in Disk!Videos(j), s = thumb(v) \/ s = img(v)
        PROVE  s \in Disk!Sidecars /\ InShow(j, s.at.dir)
    <3>1. v \in Disk!Ops /\ InShow(j, v.dir) /\ v.src \in Disk!Paths /\ v.dir \in Disk!Dirs /\ v.base \in Disk!Names
      BY <1>4, <1>6 DEF Disk!Ops
    <3>2. Disk!File(v.dir, v.base, "thumb") \in Disk!Paths /\ Disk!File(v.dir, v.base, "img") \in Disk!Paths
      BY <3>1 DEF Disk!File, Disk!Paths, Disk!Kinds
    <3>3. s \in Disk!Sidecars
      BY <2>2, <3>1, <3>2, <1>2, <2>a DEF Disk!Sidecar
    <3>4. s.at.dir = v.dir
      BY <2>2 DEF Disk!Sidecar, Disk!File
    <3> QED
      BY <3>1, <3>3, <3>4
  <2> QED
    BY <1>5, <2>1, <2>2
<1>9. \A s \in wanted : \A p \in found(s) : p \in Disk!Paths /\ p.dir.root = "src"
  <2> SUFFICES ASSUME NEW s \in wanted, NEW p \in found(s) PROVE p \in Disk!Paths /\ p.dir.root = "src"
    OBVIOUS
  <2>1. p \in Disk!Inventory(s.slot) /\ DOMAIN disk \subseteq Disk!Paths
    BY DEF DiskTyped, Disk!Found
  <2>2. p \in Disk!Paths /\ ((s.slot.base = "poster" /\ p.dir.root = "src") \/ p.dir = s.slot.dir)
    BY <2>1 DEF Disk!Inventory
  <2>3. CASE s = poster
    BY <2>1, <2>2, <2>3 DEF Disk!Sidecar, Disk!File, Disk!Inventory
  <2>4. ASSUME NEW v \in Disk!Videos(j), s = thumb(v) \/ s = img(v) PROVE p.dir.root = "src"
    <3>1. s.slot = v.src /\ v.src.dir.root = "src"
      BY <2>4, <1>4, <1>6 DEF Disk!Sidecar
    <3> QED
      BY <2>2, <3>1
  <2> QED
    BY <1>5, <2>2, <2>3, <2>4
<1>10. \A s \in filled : (CHOOSE p \in found(s) : TRUE) \in found(s)
  OBVIOUS
<1>11. \A op \in carried : /\ op \in Disk!Ops /\ op.src.dir.root = "src" /\ InShow(j, op.dir) /\ ~op.mux
                           /\ \E w \in filled : Disk!Target(op, 0) = w.at
  <2> SUFFICES ASSUME NEW w \in filled, NEW p \in found(w)
               PROVE  LET op == Disk!Carry(w, p)
                      IN  /\ op \in Disk!Ops /\ op.src.dir.root = "src" /\ InShow(j, op.dir) /\ ~op.mux
                          /\ Disk!Target(op, 0) = w.at
    BY <1>10 DEF Disk!Carried
  <2> DEFINE op == Disk!Carry(w, p)
  <2>1. w \in Disk!Sidecars /\ InShow(j, w.at.dir) /\ p \in Disk!Paths /\ p.dir.root = "src"
    BY <1>8, <1>9
  <2>2. w.at \in Disk!Paths
    BY <2>1 DEF Disk!Sidecars
  <2>3. op \in Disk!Ops /\ op.src = p /\ op.dir = w.at.dir /\ op.base = w.at.base /\ op.kind = w.at.kind /\ ~op.mux
    BY <2>1, <2>2 DEF Disk!Carry, Disk!Ops, Disk!Paths
  <2>4. Disk!Target(op, 0) = w.at
    BY <2>2, <2>3 DEF Disk!Target, Disk!File, Disk!Remap, Disk!Paths
  <2> QED
    BY <2>1, <2>3, <2>4
<1> HIDE DEF wanted, found, carried, filled, open, poster, thumb, img
<1>12. filled \subseteq wanted /\ open \subseteq wanted /\ \A w \in filled : w \notin open /\ ~w.extra
  BY DEF filled, open, found, wanted, Disk!Open
<1>13. r \in Disk!Jobs
  BY <1>2, <1>3, <1>8, <1>11, <1>12 DEF Disk!Jobs, Disk!Stages
<1>14. /\ job'[j].ops = job[j].ops \union carried /\ job'[j].plan = open /\ job'[j].stage = "queued"
       /\ job'[j].moved = {} /\ job'[j].written = {} /\ job'[j].made = {}
  BY <1>1, <1>3 DEF Disk!Jobs
<1> HIDE DEF r
<1>15. Disk!Videos(j) \subseteq Disk!Videos(j)'
  BY <1>14 DEF Disk!Videos
<1>16. SidecarsClear(j)'
  <2> SUFFICES ASSUME NEW s \in open, NEW op \in job[j].ops \union carried, s.at = Disk!Target(op, 0)
               PROVE  Twins(j)'
    BY <1>14 DEF SidecarsClear
  <2>1. s.at.kind \in {"img", "thumb"}
    BY <1>5, <1>12 DEF poster, thumb, img, Disk!Sidecar, Disk!File
  <2>2. CASE op \in job[j].ops
    BY <2>1, <2>2, <1>4 DEF Disk!Target, Disk!File
  <2>3. CASE op \in carried
    <3>1. PICK w \in filled : s.at = w.at
      BY <2>3, <1>11
    <3>2. w \in wanted /\ s \in wanted /\ w # s /\ ~w.extra
      BY <1>12
    <3>3. CASE w = poster
      <4>1. s = poster \/ \E v \in Disk!Videos(j) : s = thumb(v) \/ s = img(v)
        BY <1>5, <3>2
      <4>2. PICK v \in Disk!Videos(j) : s = thumb(v) \/ s = img(v)
        BY <4>1, <3>2, <3>3
      <4>3. s.at.base = v.base /\ w.at.base = "poster"
        BY <4>2, <3>3 DEF thumb, img, poster, Disk!Sidecar, Disk!File
      <4> QED
        BY <3>1, <4>3, <1>4, <1>6
    <3>4. ASSUME NEW v \in Disk!Videos(j), w = thumb(v) PROVE Twins(j)'
      <4>1. w.at = Disk!File(v.dir, v.base, "thumb")
        BY <3>4 DEF thumb, Disk!Sidecar
      <4>2. s # poster /\ \A u \in Disk!Videos(j) : s # img(u)
        BY <3>1, <4>1 DEF poster, img, Disk!Sidecar, Disk!File
      <4>3. PICK u \in Disk!Videos(j) : s = thumb(u)
        BY <1>5, <3>2, <4>2
      <4>4. s.at = Disk!File(u.dir, u.base, "thumb")
        BY <4>3 DEF thumb, Disk!Sidecar
      <4>5. u.dir = v.dir /\ u.base = v.base /\ u.kind = v.kind /\ u # v
        BY <3>1, <3>2, <3>4, <4>1, <4>3, <4>4, <1>6 DEF Disk!File
      <4>6. Disk!Target(u, 0) = Disk!Target(v, 0)
        BY <4>5 DEF Disk!Target
      <4> QED
        BY <4>5, <4>6, <1>15 DEF Twins
    <3>5. \A v \in Disk!Videos(j) : w # img(v)
      BY <3>2 DEF img, Disk!Sidecar
    <3> QED
      BY <1>5, <3>2, <3>3, <3>4, <3>5
  <2> QED
    BY <2>2, <2>3
<1>17. OpsWell(j)'
  <2>1. Disk!ShowFolder(j)' = Disk!ShowFolder(j)
    BY <1>1 DEF Disk!ShowFolder
  <2>2. \A op \in job'[j].ops : op.src.dir.root = "src" /\ InShow(j, op.dir)'
    BY <2>1, <1>4, <1>11, <1>14 DEF InShow
  <2>3. \A s \in job'[j].plan : InShow(j, s.at.dir)'
    BY <2>1, <1>8, <1>12, <1>14 DEF InShow
  <2> QED
    BY <2>2, <2>3, <1>14, <1>16 DEF OpsWell
<1>18. JobWell(j)'
  BY <1>14, <1>17 DEF JobWell, StageWell, RenameWell, Idle, Only
<1>19. JobsWell' /\ job' \in [DOMAIN scene'.jobs -> Disk!Jobs]
  BY <1>1, <1>13, <1>18, OthersStay
<1> QED
  BY <1>1, <1>3, <1>14, <1>19 DEF OnlyOf

\* A step of one job that keeps its ops, its plan and its folder.
LEMMA JobSteps ==
    ASSUME DiskTyped, JobsWell, scene' = scene, NEW j \in DOMAIN job, NEW r \in Disk!Jobs,
           job' = [job EXCEPT ![j] = r],
           r.ops = job[j].ops, r.plan = job[j].plan, r.remap = job[j].remap,
           r.moved \subseteq Disk!Plain(j), \A d \in r.made : Disk!Top(d) = JobFolder(j),
           StageWell(j)',
           r.stage \notin {"draft", "queued", "failed"}
              => job[j].stage \notin {"draft", "queued", "failed"},
           ~Disk!IsRemux(j) =>
              /\ Disk!Plain(j) = {} => /\ r.made = {} /\ r.written = {}
                                       /\ r.stage = "sidecars" => r.todo = {}
              /\ r.stage = "muxing" => r.todo = {} /\ r.written = {}
              /\ \A p \in r.written : \E s \in job[j].plan : p = Disk!SidecarTarget(j, s)
    PROVE  JobsWell' /\ job' \in [DOMAIN scene'.jobs -> Disk!Jobs]
<1>1. job'[j] = r /\ OpsWell(j) /\ RenameWell(j)
  BY DEF JobsWell, JobWell
<1>2. /\ Disk!Plain(j)' = Disk!Plain(j) /\ Disk!IsRemux(j)' = Disk!IsRemux(j)
      /\ \A op : Disk!New(j, op)' = Disk!New(j, op)
      /\ \A s : Disk!SidecarTarget(j, s)' = Disk!SidecarTarget(j, s)
      /\ OpsWell(j)'
  BY <1>1, JobOpsStay
<1>3. RenameWell(j)'
  BY <1>1, <1>2 DEF RenameWell, Idle, Only
<1>4. JobWell(j)'
  BY <1>2, <1>3 DEF JobWell
<1> QED
  BY <1>4, OthersStay

\* A rename that starts to move moves every op it has, to different places.
LEMMA ExecuteWell ==
    ASSUME DiskTyped, JobsWell, NEW j \in DOMAIN job, Disk!Execute(j)
    PROVE  /\ JobsWell' /\ job' \in [DOMAIN scene'.jobs -> Disk!Jobs]
           /\ OnlyOf(j) /\ scene' = scene /\ Only(j, {"queued"}) /\ job'[j].stage \in {"failed", "moving"}
           /\ job'[j].ops = job[j].ops /\ job'[j].plan = job[j].plan /\ job'[j].remap = Disk!RemapFor(j)
           /\ job'[j].moved = {} /\ job'[j].written = {} /\ job'[j].made = {}
           /\ job'[j].stage = "moving" /\ ~Disk!IsRemux(j) => Disk!Present(j) = Disk!Plain(j)
<1> DEFINE n == Disk!RemapFor(j)
           r == [job[j] EXCEPT !.remap = n, !.errors = Disk!Wrong(j, n),
                   !.todo = IF Disk!Wrong(j, n) THEN {} ELSE Disk!Present(j),
                   !.stage = IF Disk!Wrong(j, n) /\ ~Disk!IsRemux(j) THEN "failed" ELSE "moving"]
<1>1. job' = [job EXCEPT ![j] = r] /\ UNCHANGED scene /\ Only(j, {"queued"})
  BY DEF Disk!Execute, Disk!Stage, Only
<1>2. n \in Nat
  BY FreshNumber DEF Disk!RemapFor
<1>3. job[j] \in Disk!Jobs /\ JobWell(j)
  BY DEF DiskTyped, JobsWell
<1>4. job[j].moved = {} /\ job[j].written = {} /\ job[j].made = {} /\ OpsWell(j)
  BY <1>1, <1>3 DEF JobWell, StageWell, Only
<1>5. Disk!Wrong(j, n) \in BOOLEAN
  BY DEF Disk!Wrong
<1>6. Disk!Present(j) \subseteq Disk!Plain(j) /\ Disk!Plain(j) \subseteq job[j].ops
  BY DEF Disk!Present, Disk!Plain
<1>7. ~Disk!Wrong(j, n) =>
         /\ Disk!Present(j) = Disk!Plain(j)
         /\ \A op, other \in Disk!Plain(j) : op # other => Disk!Target(op, n) # Disk!Target(other, n)
  BY DEF Disk!Wrong
<1> HIDE DEF n
<1>8. r \in Disk!Jobs
  BY <1>2, <1>3, <1>5, <1>6 DEF Disk!Jobs, Disk!Stages
<1>9. /\ job'[j].ops = job[j].ops /\ job'[j].plan = job[j].plan /\ job'[j].remap = n
      /\ job'[j].moved = {} /\ job'[j].written = {} /\ job'[j].made = {}
      /\ job'[j].todo \subseteq Disk!Plain(j)
      /\ job'[j].stage \in {"failed", "moving"}
      /\ job'[j].stage = "moving" /\ ~Disk!IsRemux(j) => ~Disk!Wrong(j, n)
  BY <1>1, <1>3, <1>4, <1>6 DEF Disk!Jobs
<1> HIDE DEF r
<1>10. /\ Disk!Plain(j)' = Disk!Plain(j) /\ Disk!IsRemux(j)' = Disk!IsRemux(j)
       /\ Disk!ShowFolder(j)' = Disk!ShowFolder(j) /\ Disk!Videos(j)' = Disk!Videos(j)
  BY <1>1, <1>9 DEF Disk!Plain, Disk!IsRemux, Disk!ShowFolder, Disk!Videos
<1>11. OpsWell(j)'
  <2>1. SidecarsClear(j)'
    BY <1>4, <1>9, <1>10 DEF OpsWell, SidecarsClear, Twins
  <2>2. /\ \A op \in job'[j].ops : op.src.dir.root = "src" /\ InShow(j, op.dir)'
        /\ \A s \in job'[j].plan : InShow(j, s.at.dir)'
    BY <1>4, <1>9, <1>10 DEF OpsWell, InShow
  <2> QED
    BY <2>1, <2>2, <1>9 DEF OpsWell
<1>12. StageWell(j)'
  BY <1>9, <1>10 DEF StageWell, Only
<1>13. RenameWell(j)'
  <2> SUFFICES ASSUME ~Disk!IsRemux(j)', ~Only(j, {"draft", "queued", "failed"})',
                      NEW op \in Disk!Plain(j)', NEW other \in Disk!Plain(j)', op # other
               PROVE  Disk!New(j, op)' # Disk!New(j, other)'
    BY <1>9 DEF RenameWell, Idle, Only
  <2>1. Disk!Target(op, n) # Disk!Target(other, n)
    BY <1>7, <1>9, <1>10 DEF Only
  <2> QED
    BY <2>1, <1>9 DEF Disk!New
<1>14. JobsWell' /\ job' \in [DOMAIN scene'.jobs -> Disk!Jobs]
  BY <1>1, <1>8, <1>11, <1>12, <1>13, OthersStay DEF JobWell
<1> QED
  BY <1>1, <1>4, <1>7, <1>9, <1>14 DEF OnlyOf, n

LEMMA SourcesMissingWell ==
    ASSUME DiskTyped, JobsWell, NEW j \in DOMAIN job, Disk!AllSourcesMissing(j)
    PROVE  /\ JobsWell' /\ job' \in [DOMAIN scene'.jobs -> Disk!Jobs]
           /\ KeepsUndo(j) /\ job'[j].stage = "failed"
<1> DEFINE r == [job[j] EXCEPT !.stage = "failed"]
<1>1. job' = [job EXCEPT ![j] = r] /\ UNCHANGED scene /\ Only(j, {"queued"})
  BY DEF Disk!AllSourcesMissing, Disk!Stage, Only
<1>2. job[j] \in Disk!Jobs /\ OpsWell(j) /\ StageWell(j) /\ RenameWell(j)
  BY DEF DiskTyped, JobsWell, JobWell
<1>3. /\ r \in Disk!Jobs /\ r.ops = job[j].ops /\ r.plan = job[j].plan /\ r.remap = job[j].remap
      /\ r.moved = job[j].moved /\ r.made = job[j].made /\ r.written = job[j].written
      /\ r.stage = "failed" /\ r.todo = job[j].todo
  BY <1>2 DEF Disk!Jobs, Disk!Stages
<1>4. job'[j] = r
  BY <1>1
<1> HIDE DEF r
<1>5. StageWell(j)'
  BY <1>3, <1>4 DEF StageWell, Only
<1>6. /\ r.moved \subseteq Disk!Plain(j) /\ \A d \in r.made : Disk!Top(d) = JobFolder(j)
      /\ ~Disk!IsRemux(j) =>
            /\ Disk!Plain(j) = {} => /\ r.made = {} /\ r.written = {}
                                     /\ r.stage = "sidecars" => r.todo = {}
            /\ r.stage = "muxing" => r.todo = {} /\ r.written = {}
            /\ \A p \in r.written : \E s \in job[j].plan : p = Disk!SidecarTarget(j, s)
      /\ r.stage \notin {"draft", "queued", "failed"}
             => job[j].stage \notin {"draft", "queued", "failed"}
  BY <1>2, <1>3 DEF OpsWell, RenameWell, Idle, Only
<1>7. JobsWell' /\ job' \in [DOMAIN scene'.jobs -> Disk!Jobs]
  BY <1>1, <1>3, <1>5, <1>6, JobSteps
<1> QED
  BY <1>1, <1>3, <1>4, <1>7 DEF KeepsUndo, Keeps, OnlyOf, Only

LEMMA MoveWell ==
    ASSUME DiskTyped, JobsWell, NEW j \in DOMAIN job, NEW op \in job[j].ops, NEW ok \in BOOLEAN,
           Disk!Move(j, op, ok)
    PROVE  /\ JobsWell' /\ job' \in [DOMAIN scene'.jobs -> Disk!Jobs]
           /\ Keeps(j) /\ Only(j, {"moving"}) /\ job'[j].stage = "moving"
           /\ op \in Disk!Plain(j) \ job[j].moved /\ job[j].written = {} /\ job'[j].written = {}
          
           /\ job'[j].moved = IF ok /\ Disk!Exists(op.src) THEN job[j].moved \union {op} ELSE job[j].moved
<1> DEFINE to == Disk!New(j, op)
           done == ok /\ Disk!Exists(op.src)
<1>1. UNCHANGED scene /\ Only(j, {"moving"}) /\ op \in job[j].todo
  BY DEF Disk!Move, Disk!Stage, Only
<1>2. job[j] \in Disk!Jobs /\ OpsWell(j) /\ StageWell(j) /\ RenameWell(j)
  BY DEF DiskTyped, JobsWell, JobWell
<1>3. to.dir \in Disk!Dirs /\ Disk!Top(to.dir) = JobFolder(j)
  BY <1>2, NewPaths DEF Disk!Paths
<1>4. op \in Disk!Plain(j) /\ Disk!Plain(j) \subseteq job[j].ops /\ job[j].ops \subseteq Disk!Ops
  BY <1>1, <1>2 DEF StageWell, Only, Disk!Jobs, Disk!Plain
<1>5. PICK r : /\ job' = [job EXCEPT ![j] = r]
               /\ \/ /\ done
                     /\ r = [job[j] EXCEPT !.todo = job[j].todo \ {op}, !.moved = job[j].moved \union {op},
                                           !.made = job[j].made \union ({to.dir} \ folders)]
                  \/ /\ ~done
                     /\ r = [job[j] EXCEPT !.todo = job[j].todo \ {op}, !.errors = TRUE,
                                           !.made = job[j].made \union ({to.dir} \ folders)]
  <2>1. CASE done
    BY <2>1 DEF Disk!Move
  <2>2. CASE ~done
    BY <2>2 DEF Disk!Move
  <2> QED
    BY <2>1, <2>2
<1> HIDE DEF to
<1>6. /\ r.ops = job[j].ops /\ r.plan = job[j].plan /\ r.remap = job[j].remap
      /\ r.moved \subseteq job[j].moved \union {op} /\ r.made \subseteq job[j].made \union {to.dir}
      /\ r.written = job[j].written /\ r.stage = "moving" /\ r.todo \subseteq job[j].todo \ {op}
      /\ r.local = job[j].local /\ r.errors \in BOOLEAN
  <2>1. CASE r = [job[j] EXCEPT !.todo = job[j].todo \ {op}, !.moved = job[j].moved \union {op},
                                        !.made = job[j].made \union ({to.dir} \ folders)]
    BY <1>1, <1>2, <2>1 DEF Only, Disk!Jobs
  <2>2. CASE r = [job[j] EXCEPT !.todo = job[j].todo \ {op}, !.errors = TRUE,
                                        !.made = job[j].made \union ({to.dir} \ folders)]
    BY <1>1, <1>2, <2>2 DEF Only, Disk!Jobs
  <2> QED
    BY <1>5, <2>1, <2>2
<1>7. r \in Disk!Jobs
  <2>1. CASE r = [job[j] EXCEPT !.todo = job[j].todo \ {op}, !.moved = job[j].moved \union {op},
                                        !.made = job[j].made \union ({to.dir} \ folders)]
    BY <1>2, <1>3, <1>4, <2>1 DEF Disk!Jobs
  <2>2. CASE r = [job[j] EXCEPT !.todo = job[j].todo \ {op}, !.errors = TRUE,
                                        !.made = job[j].made \union ({to.dir} \ folders)]
    BY <1>2, <1>3, <1>4, <2>2 DEF Disk!Jobs
  <2> QED
    BY <1>5, <2>1, <2>2
<1>8. job'[j] = r
  BY <1>5
<1>9. StageWell(j)'
  <2>1. Disk!Plain(j)' = Disk!Plain(j)
    BY <1>6, <1>8 DEF Disk!Plain
  <2> QED
    BY <1>1, <1>2, <1>6, <1>8, <2>1 DEF StageWell, Only
<1>10. r.moved \subseteq Disk!Plain(j) /\ \A d \in r.made : Disk!Top(d) = JobFolder(j)
  BY <1>2, <1>3, <1>4, <1>6 DEF OpsWell
<1>11. /\ ~Disk!IsRemux(j) =>
             /\ Disk!Plain(j) = {} => /\ r.made = {} /\ r.written = {}
                                      /\ r.stage = "sidecars" => r.todo = {}
             /\ r.stage = "muxing" => r.todo = {} /\ r.written = {}
             /\ \A p \in r.written : \E s \in job[j].plan : p = Disk!SidecarTarget(j, s)
       /\ r.stage \notin {"draft", "queued", "failed"}
             => job[j].stage \notin {"draft", "queued", "failed"}
  BY <1>1, <1>2, <1>4, <1>6 DEF RenameWell, Only
<1>12. JobsWell' /\ job' \in [DOMAIN scene'.jobs -> Disk!Jobs]
  BY <1>1, <1>5, <1>6, <1>7, <1>9, <1>10, <1>11, JobSteps
<1>13. r.moved = IF done THEN job[j].moved \union {op} ELSE job[j].moved
  <2>1. CASE done
    BY <1>2, <1>5, <2>1 DEF Disk!Jobs
  <2>2. CASE ~done
    BY <1>2, <1>5, <2>2 DEF Disk!Jobs
  <2> QED
    BY <2>1, <2>2
<1>14. op \notin job[j].moved /\ job[j].written = {}
  BY <1>1, <1>2 DEF StageWell, Only
<1> QED
  BY <1>1, <1>4, <1>5, <1>6, <1>8, <1>12, <1>13, <1>14 DEF Keeps, OnlyOf

LEMMA StartMuxingWell ==
    ASSUME DiskTyped, JobsWell, NEW j \in DOMAIN job, Disk!StartMuxing(j)
    PROVE  /\ JobsWell' /\ job' \in [DOMAIN scene'.jobs -> Disk!Jobs]
           /\ KeepsUndo(j) /\ Only(j, {"moving"}) /\ job'[j].stage = "muxing"
<1> DEFINE muxed == {op \in job[j].ops : op.picked /\ op.mux}
           r == [job[j] EXCEPT !.stage = "muxing", !.todo = muxed]
<1>1. job' = [job EXCEPT ![j] = r] /\ UNCHANGED scene /\ Only(j, {"moving"})
  BY DEF Disk!StartMuxing, Disk!Stage, Only
<1>2. job[j] \in Disk!Jobs /\ OpsWell(j) /\ StageWell(j) /\ RenameWell(j)
  BY DEF DiskTyped, JobsWell, JobWell
<1>3. muxed \subseteq job[j].ops /\ (~Disk!IsRemux(j) => muxed = {})
  BY DEF Disk!IsRemux
<1> HIDE DEF muxed
<1>4. /\ r \in Disk!Jobs /\ r.ops = job[j].ops /\ r.plan = job[j].plan /\ r.remap = job[j].remap
      /\ r.moved = job[j].moved /\ r.made = job[j].made /\ r.written = job[j].written
      /\ r.stage = "muxing" /\ r.todo = muxed
  BY <1>2, <1>3 DEF Disk!Jobs, Disk!Stages
<1>5. job'[j] = r
  BY <1>1
<1> HIDE DEF r
<1>6. job[j].written = {}
  BY <1>1, <1>2 DEF StageWell, Only
<1>7. StageWell(j)'
  BY <1>4, <1>5, <1>6 DEF StageWell, Only
<1>8. /\ r.moved \subseteq Disk!Plain(j) /\ \A d \in r.made : Disk!Top(d) = JobFolder(j)
      /\ ~Disk!IsRemux(j) =>
            /\ Disk!Plain(j) = {} => /\ r.made = {} /\ r.written = {}
                                     /\ r.stage = "sidecars" => r.todo = {}
            /\ r.stage = "muxing" => r.todo = {} /\ r.written = {}
            /\ \A p \in r.written : \E s \in job[j].plan : p = Disk!SidecarTarget(j, s)
      /\ r.stage \notin {"draft", "queued", "failed"}
             => job[j].stage \notin {"draft", "queued", "failed"}
  BY <1>1, <1>2, <1>3, <1>4, <1>6 DEF OpsWell, RenameWell, Idle, Only
<1>9. JobsWell' /\ job' \in [DOMAIN scene'.jobs -> Disk!Jobs]
  BY <1>1, <1>4, <1>7, <1>8, JobSteps
<1> QED
  BY <1>1, <1>4, <1>5, <1>9 DEF KeepsUndo, Keeps, OnlyOf, Only

LEMMA MuxWell ==
    ASSUME DiskTyped, JobsWell, NEW j \in DOMAIN job, NEW op \in job[j].ops, NEW ok \in BOOLEAN,
           Disk!Mux(j, op, ok)
    PROVE  /\ JobsWell' /\ job' \in [DOMAIN scene'.jobs -> Disk!Jobs]
           /\ Keeps(j) /\ Disk!IsRemux(j)
<1> DEFINE to == Disk!Target(op, 0)
           done == ok /\ Disk!Exists(op.src) /\ ~Disk!Exists(to)
<1>1. UNCHANGED scene /\ Only(j, {"muxing"}) /\ op \in job[j].todo
  BY DEF Disk!Mux, Disk!Stage, Only
<1>2. job[j] \in Disk!Jobs /\ OpsWell(j) /\ StageWell(j) /\ RenameWell(j)
  BY DEF DiskTyped, JobsWell, JobWell
<1>3. to \in Disk!Paths
  BY <1>2, NewPaths
<1>4. Disk!IsRemux(j)
  BY <1>1, <1>2 DEF RenameWell
<1>5. PICK r : /\ job' = [job EXCEPT ![j] = r]
               /\ \/ r = [job[j] EXCEPT !.todo = job[j].todo \ {op}, !.written = job[j].written \union {to}]
                  \/ r = [job[j] EXCEPT !.todo = job[j].todo \ {op}, !.errors = TRUE]
  <2>1. CASE done
    BY <2>1 DEF Disk!Mux
  <2>2. CASE ~done
    BY <2>2 DEF Disk!Mux
  <2> QED
    BY <2>1, <2>2
<1> HIDE DEF to
<1>6. /\ r \in Disk!Jobs /\ r.ops = job[j].ops /\ r.plan = job[j].plan /\ r.remap = job[j].remap
      /\ r.moved = job[j].moved /\ r.made = job[j].made
      /\ r.stage = "muxing"
  <2>1. CASE r = [job[j] EXCEPT !.todo = job[j].todo \ {op}, !.written = job[j].written \union {to}]
    BY <1>1, <1>2, <1>3, <2>1 DEF Only, Disk!Jobs
  <2>2. CASE r = [job[j] EXCEPT !.todo = job[j].todo \ {op}, !.errors = TRUE]
    BY <1>1, <1>2, <1>3, <2>2 DEF Only, Disk!Jobs
  <2> QED
    BY <1>5, <2>1, <2>2
<1>7. job'[j] = r
  BY <1>5
<1>8. StageWell(j)'
  BY <1>1, <1>2, <1>6, <1>7 DEF StageWell, Only
<1>9. /\ r.moved \subseteq Disk!Plain(j) /\ \A d \in r.made : Disk!Top(d) = JobFolder(j)
      /\ ~Disk!IsRemux(j) =>
            /\ Disk!Plain(j) = {} => /\ r.made = {} /\ r.written = {}
                                     /\ r.stage = "sidecars" => r.todo = {}
            /\ r.stage = "muxing" => r.todo = {} /\ r.written = {}
            /\ \A p \in r.written : \E s \in job[j].plan : p = Disk!SidecarTarget(j, s)
      /\ r.stage \notin {"draft", "queued", "failed"}
             => job[j].stage \notin {"draft", "queued", "failed"}
  BY <1>1, <1>2, <1>4, <1>6 DEF OpsWell, Only
<1>10. JobsWell' /\ job' \in [DOMAIN scene'.jobs -> Disk!Jobs]
  BY <1>1, <1>5, <1>6, <1>8, <1>9, JobSteps
<1> QED
  BY <1>1, <1>4, <1>5, <1>6, <1>7, <1>10 DEF Keeps, OnlyOf

LEMMA StartSidecarsWell ==
    ASSUME DiskTyped, JobsWell, NEW j \in DOMAIN job, Disk!StartSidecars(j)
    PROVE  /\ JobsWell' /\ job' \in [DOMAIN scene'.jobs -> Disk!Jobs]
           /\ KeepsUndo(j) /\ Only(j, {"muxing"}) /\ job'[j].stage = "sidecars"
<1> DEFINE r == [job[j] EXCEPT !.stage = "sidecars",
                               !.todo = IF Disk!NothingDone(j) THEN {} ELSE job[j].plan]
<1>1. job' = [job EXCEPT ![j] = r] /\ UNCHANGED scene /\ Only(j, {"muxing"})
  BY DEF Disk!StartSidecars, Disk!Stage, Only
<1>2. job[j] \in Disk!Jobs /\ OpsWell(j) /\ StageWell(j) /\ RenameWell(j)
  BY DEF DiskTyped, JobsWell, JobWell
<1>3. /\ r \in Disk!Jobs /\ r.ops = job[j].ops /\ r.plan = job[j].plan /\ r.remap = job[j].remap
      /\ r.moved = job[j].moved /\ r.made = job[j].made /\ r.written = job[j].written
      /\ r.stage = "sidecars" /\ r.todo \subseteq job[j].plan
      /\ job[j].moved = {} /\ job[j].written = {} => r.todo = {}
  BY <1>2 DEF Disk!NothingDone, Disk!Jobs, Disk!Stages
<1>4. job'[j] = r
  BY <1>1
<1> HIDE DEF r
<1>5. StageWell(j)'
  BY <1>1, <1>2, <1>3, <1>4 DEF StageWell, Only
<1>6. /\ r.moved \subseteq Disk!Plain(j) /\ \A d \in r.made : Disk!Top(d) = JobFolder(j)
      /\ ~Disk!IsRemux(j) =>
            /\ Disk!Plain(j) = {} => /\ r.made = {} /\ r.written = {}
                                     /\ r.stage = "sidecars" => r.todo = {}
            /\ r.stage = "muxing" => r.todo = {} /\ r.written = {}
            /\ \A p \in r.written : \E s \in job[j].plan : p = Disk!SidecarTarget(j, s)
      /\ r.stage \notin {"draft", "queued", "failed"}
             => job[j].stage \notin {"draft", "queued", "failed"}
  BY <1>1, <1>2, <1>3 DEF OpsWell, RenameWell, Idle, Only
<1>7. JobsWell' /\ job' \in [DOMAIN scene'.jobs -> Disk!Jobs]
  BY <1>1, <1>3, <1>5, <1>6, JobSteps
<1> QED
  BY <1>1, <1>3, <1>4, <1>7 DEF KeepsUndo, Keeps, OnlyOf, Only

LEMMA WriteSidecarWell ==
    ASSUME DiskTyped, JobsWell, NEW j \in DOMAIN job, NEW s \in job[j].plan, NEW ok \in BOOLEAN,
           Disk!WriteSidecar(j, s, ok)
    PROVE  /\ JobsWell' /\ job' \in [DOMAIN scene'.jobs -> Disk!Jobs]
           /\ Keeps(j) /\ Only(j, {"sidecars"}) /\ job'[j].stage = "sidecars" /\ s \in job[j].todo
           /\ job'[j].moved = job[j].moved /\ job'[j].made = job[j].made
<1> DEFINE at == Disk!SidecarTarget(j, s)
<1>1. UNCHANGED scene /\ Only(j, {"sidecars"}) /\ s \in job[j].todo
  BY DEF Disk!WriteSidecar, Disk!Stage, Only
<1>2. job[j] \in Disk!Jobs /\ OpsWell(j) /\ StageWell(j) /\ RenameWell(j)
  BY DEF DiskTyped, JobsWell, JobWell
<1>3. at \in Disk!Paths
  BY <1>2, SidecarPaths
<1>4. PICK r : /\ job' = [job EXCEPT ![j] = r]
               /\ \/ r = [job[j] EXCEPT !.todo = job[j].todo \ {s}]
                  \/ r = [job[j] EXCEPT !.todo = job[j].todo \ {s}, !.written = job[j].written \union {at}]
                  \/ r = [job[j] EXCEPT !.todo = job[j].todo \ {s}, !.errors = TRUE]
  BY DEF Disk!WriteSidecar
<1>5. /\ r \in Disk!Jobs /\ r.ops = job[j].ops /\ r.plan = job[j].plan /\ r.remap = job[j].remap
      /\ r.moved = job[j].moved /\ r.made = job[j].made /\ r.stage = "sidecars"
      /\ r.written \subseteq job[j].written \union {at}
      /\ r.todo = job[j].todo \ {s}
  <2> HIDE DEF at
  <2>1. CASE r = [job[j] EXCEPT !.todo = job[j].todo \ {s}]
    BY <1>1, <1>2, <2>1 DEF Only, Disk!Jobs
  <2>2. CASE r = [job[j] EXCEPT !.todo = job[j].todo \ {s}, !.written = job[j].written \union {at}]
    BY <1>1, <1>2, <1>3, <2>2 DEF Only, Disk!Jobs
  <2>3. CASE r = [job[j] EXCEPT !.todo = job[j].todo \ {s}, !.errors = TRUE]
    BY <1>1, <1>2, <2>3 DEF Only, Disk!Jobs
  <2> QED
    BY <1>4, <2>1, <2>2, <2>3
<1>6. job'[j] = r
  BY <1>4
<1>7. StageWell(j)'
  BY <1>1, <1>2, <1>5, <1>6 DEF StageWell, Only
<1>8. /\ r.moved \subseteq Disk!Plain(j) /\ \A d \in r.made : Disk!Top(d) = JobFolder(j)
      /\ ~Disk!IsRemux(j) =>
            /\ Disk!Plain(j) = {} => /\ r.made = {} /\ r.written = {}
                                     /\ r.stage = "sidecars" => r.todo = {}
            /\ r.stage = "muxing" => r.todo = {} /\ r.written = {}
            /\ \A p \in r.written : \E w \in job[j].plan : p = Disk!SidecarTarget(j, w)
      /\ r.stage \notin {"draft", "queued", "failed"}
             => job[j].stage \notin {"draft", "queued", "failed"}
  BY <1>1, <1>2, <1>5 DEF OpsWell, RenameWell, Idle, Only
<1>9. JobsWell' /\ job' \in [DOMAIN scene'.jobs -> Disk!Jobs]
  BY <1>1, <1>4, <1>5, <1>7, <1>8, JobSteps
<1> QED
  BY <1>1, <1>4, <1>5, <1>6, <1>9 DEF Keeps, OnlyOf

LEMMA CompleteWell ==
    ASSUME DiskTyped, JobsWell, NEW j \in DOMAIN job, Disk!Complete(j)
    PROVE  /\ JobsWell' /\ job' \in [DOMAIN scene'.jobs -> Disk!Jobs]
           /\ KeepsUndo(j) /\ Only(j, {"sidecars"}) /\ job'[j].stage \in {"failed", "completed"}
<1> DEFINE end == IF Disk!NothingDone(j) /\ job[j].errors THEN "failed" ELSE "completed"
           r == [job[j] EXCEPT !.stage = end]
<1>1. job' = [job EXCEPT ![j] = r] /\ UNCHANGED scene /\ Only(j, {"sidecars"})
  BY DEF Disk!Complete, Disk!Stage, Only
<1>2. job[j] \in Disk!Jobs /\ OpsWell(j) /\ StageWell(j) /\ RenameWell(j)
  BY DEF DiskTyped, JobsWell, JobWell
<1>3. end \in {"failed", "completed"}
  OBVIOUS
<1> HIDE DEF end
<1>4. /\ r \in Disk!Jobs /\ r.ops = job[j].ops /\ r.plan = job[j].plan /\ r.remap = job[j].remap
      /\ r.moved = job[j].moved /\ r.made = job[j].made /\ r.written = job[j].written
      /\ r.stage \in {"failed", "completed"}
  BY <1>2, <1>3 DEF Disk!Jobs, Disk!Stages
<1>5. job'[j] = r
  BY <1>1
<1> HIDE DEF r
<1>6. StageWell(j)'
  BY <1>4, <1>5 DEF StageWell, Only
<1>7. /\ r.moved \subseteq Disk!Plain(j) /\ \A d \in r.made : Disk!Top(d) = JobFolder(j)
      /\ ~Disk!IsRemux(j) =>
            /\ Disk!Plain(j) = {} => /\ r.made = {} /\ r.written = {}
                                     /\ r.stage = "sidecars" => r.todo = {}
            /\ r.stage = "muxing" => r.todo = {} /\ r.written = {}
            /\ \A p \in r.written : \E s \in job[j].plan : p = Disk!SidecarTarget(j, s)
      /\ r.stage \notin {"draft", "queued", "failed"}
            => job[j].stage \notin {"draft", "queued", "failed"}
  BY <1>1, <1>2, <1>4 DEF OpsWell, RenameWell, Idle, Only
<1>8. JobsWell' /\ job' \in [DOMAIN scene'.jobs -> Disk!Jobs]
  BY <1>1, <1>4, <1>6, <1>7, JobSteps
<1> QED
  BY <1>1, <1>4, <1>5, <1>8 DEF KeepsUndo, Keeps, OnlyOf, Only

LEMMA RemoveGeneratedWell ==
    ASSUME DiskTyped, JobsWell, NEW j \in DOMAIN job, Disk!RemoveGenerated(j)
    PROVE  /\ JobsWell' /\ job' \in [DOMAIN scene'.jobs -> Disk!Jobs]
           /\ Keeps(j) /\ Only(j, {"completed"}) /\ job'[j].stage = "restoring"
           /\ job'[j].moved = job[j].moved /\ job'[j].made = job[j].made /\ job'[j].written = job[j].written
<1>1. PICK wrong \in BOOLEAN :
         job' = [job EXCEPT ![j] = [job[j] EXCEPT !.stage = "restoring", !.todo = job[j].moved,
                                                  !.errors = wrong]]
  BY DEF Disk!RemoveGenerated
<1> DEFINE r == [job[j] EXCEPT !.stage = "restoring", !.todo = job[j].moved, !.errors = wrong]
<1>3. UNCHANGED scene /\ Only(j, {"completed"})
  BY DEF Disk!RemoveGenerated, Disk!Stage, Only
<1>2. job[j] \in Disk!Jobs /\ OpsWell(j) /\ StageWell(j) /\ RenameWell(j)
  BY DEF DiskTyped, JobsWell, JobWell
<1>4. job[j].moved \subseteq Disk!Ops
  BY <1>2 DEF Disk!Jobs
<1>5. /\ r \in Disk!Jobs /\ r.ops = job[j].ops /\ r.plan = job[j].plan /\ r.remap = job[j].remap
      /\ r.moved = job[j].moved /\ r.made = job[j].made /\ r.written = job[j].written
      /\ r.stage = "restoring" /\ r.todo = job[j].moved
  BY <1>2, <1>4 DEF Disk!Jobs, Disk!Stages
<1>6. job'[j] = r
  BY <1>1
<1> HIDE DEF r
<1>7. StageWell(j)'
  BY <1>5, <1>6 DEF StageWell, Only
<1>8. /\ r.moved \subseteq Disk!Plain(j) /\ \A d \in r.made : Disk!Top(d) = JobFolder(j)
      /\ ~Disk!IsRemux(j) =>
            /\ Disk!Plain(j) = {} => /\ r.made = {} /\ r.written = {}
                                     /\ r.stage = "sidecars" => r.todo = {}
            /\ r.stage = "muxing" => r.todo = {} /\ r.written = {}
            /\ \A p \in r.written : \E s \in job[j].plan : p = Disk!SidecarTarget(j, s)
      /\ r.stage \notin {"draft", "queued", "failed"}
            => job[j].stage \notin {"draft", "queued", "failed"}
  BY <1>2, <1>3, <1>5 DEF OpsWell, RenameWell, Idle, Only
<1>9. JobsWell' /\ job' \in [DOMAIN scene'.jobs -> Disk!Jobs]
  BY <1>1, <1>3, <1>5, <1>7, <1>8, JobSteps DEF r
<1> QED
  BY <1>1, <1>3, <1>5, <1>6, <1>9 DEF Keeps, OnlyOf

\* What a revert unlinks first is what the job wrote; with an error, not all of it.
LEMMA GeneratedGone ==
    ASSUME DiskTyped, NEW j \in DOMAIN job, Disk!RemoveGenerated(j)
    PROVE  /\ DOMAIN disk' \subseteq DOMAIN disk /\ DOMAIN disk \ job[j].written \subseteq DOMAIN disk'
           /\ \A p \in DOMAIN disk' : disk'[p] = disk[p]
           /\ (\E p \in job[j].written : p \in DOMAIN disk') => job'[j].errors = TRUE
<1>1. PICK kept \in SUBSET (job[j].written \cap DOMAIN disk) :
         /\ disk' = Disk!Without(disk, job[j].written \ kept)
         /\ job' = [job EXCEPT ![j] = [job[j] EXCEPT !.stage = "restoring", !.todo = job[j].moved,
                                                     !.errors = kept # {}]]
  BY DEF Disk!RemoveGenerated
<1>2. job[j] \in Disk!Jobs
  BY DEF DiskTyped
<1>3. job'[j].errors = (kept # {})
  BY <1>1, <1>2 DEF Disk!Jobs
<1>4. DOMAIN disk' = DOMAIN disk \ (job[j].written \ kept) /\ \A p \in DOMAIN disk' : disk'[p] = disk[p]
  BY <1>1 DEF Disk!Without
<1> QED
  BY <1>3, <1>4

LEMMA RestoreWell ==
    ASSUME DiskTyped, JobsWell, NEW j \in DOMAIN job, NEW op \in job[j].ops, NEW ok \in BOOLEAN,
           Disk!Restore(j, op, ok)
    PROVE  /\ JobsWell' /\ job' \in [DOMAIN scene'.jobs -> Disk!Jobs]
           /\ KeepsUndo(j) /\ Only(j, {"restoring"}) /\ job'[j].stage = "restoring"
<1>1. UNCHANGED scene /\ Only(j, {"restoring"})
  BY DEF Disk!Restore, Disk!Stage, Only
<1>2. job[j] \in Disk!Jobs /\ OpsWell(j) /\ StageWell(j) /\ RenameWell(j)
  BY DEF DiskTyped, JobsWell, JobWell
<1>3. PICK r : /\ job' = [job EXCEPT ![j] = r]
               /\ \/ r = [job[j] EXCEPT !.todo = job[j].todo \ {op}]
                  \/ r = [job[j] EXCEPT !.todo = job[j].todo \ {op}, !.errors = TRUE]
  <2>1. CASE ok /\ Disk!Exists(Disk!New(j, op))
    BY <2>1 DEF Disk!Restore
  <2>2. CASE ~(ok /\ Disk!Exists(Disk!New(j, op)))
    BY <2>2 DEF Disk!Restore
  <2> QED
    BY <2>1, <2>2
<1>4. /\ r \in Disk!Jobs /\ r.ops = job[j].ops /\ r.plan = job[j].plan /\ r.remap = job[j].remap
      /\ r.moved = job[j].moved /\ r.made = job[j].made /\ r.written = job[j].written
      /\ r.stage = "restoring" /\ r.todo = job[j].todo \ {op}
  <2>1. CASE r = [job[j] EXCEPT !.todo = job[j].todo \ {op}]
    BY <1>1, <1>2, <2>1 DEF Only, Disk!Jobs
  <2>2. CASE r = [job[j] EXCEPT !.todo = job[j].todo \ {op}, !.errors = TRUE]
    BY <1>1, <1>2, <2>2 DEF Only, Disk!Jobs
  <2> QED
    BY <1>3, <2>1, <2>2
<1>5. job'[j] = r
  BY <1>3
<1>6. StageWell(j)'
  BY <1>1, <1>2, <1>4, <1>5 DEF StageWell, Only
<1>7. /\ r.moved \subseteq Disk!Plain(j) /\ \A d \in r.made : Disk!Top(d) = JobFolder(j)
      /\ ~Disk!IsRemux(j) =>
            /\ Disk!Plain(j) = {} => /\ r.made = {} /\ r.written = {}
                                     /\ r.stage = "sidecars" => r.todo = {}
            /\ r.stage = "muxing" => r.todo = {} /\ r.written = {}
            /\ \A p \in r.written : \E s \in job[j].plan : p = Disk!SidecarTarget(j, s)
      /\ r.stage \notin {"draft", "queued", "failed"}
            => job[j].stage \notin {"draft", "queued", "failed"}
  BY <1>1, <1>2, <1>4 DEF OpsWell, RenameWell, Idle, Only
<1>8. JobsWell' /\ job' \in [DOMAIN scene'.jobs -> Disk!Jobs]
  BY <1>1, <1>3, <1>4, <1>6, <1>7, JobSteps
<1> QED
  BY <1>1, <1>3, <1>4, <1>5, <1>8 DEF KeepsUndo, Keeps, OnlyOf, Only

LEMMA TidyWell ==
    ASSUME DiskTyped, JobsWell, NEW j \in DOMAIN job, Disk!Tidy(j)
    PROVE  /\ JobsWell' /\ job' \in [DOMAIN scene'.jobs -> Disk!Jobs]
           /\ KeepsUndo(j) /\ Only(j, {"restoring"}) /\ job'[j].stage \in {"revert_failed", "reverted"}
<1> DEFINE end == IF job[j].errors THEN "revert_failed" ELSE "reverted"
           r == [job[j] EXCEPT !.stage = end]
<1>1. job' = [job EXCEPT ![j] = r] /\ UNCHANGED scene /\ Only(j, {"restoring"})
  BY DEF Disk!Tidy, Disk!Stage, Only
<1>2. job[j] \in Disk!Jobs /\ OpsWell(j) /\ StageWell(j) /\ RenameWell(j)
  BY DEF DiskTyped, JobsWell, JobWell
<1>3. end \in {"revert_failed", "reverted"}
  OBVIOUS
<1> HIDE DEF end
<1>4. /\ r \in Disk!Jobs /\ r.ops = job[j].ops /\ r.plan = job[j].plan /\ r.remap = job[j].remap
      /\ r.moved = job[j].moved /\ r.made = job[j].made /\ r.written = job[j].written
      /\ r.stage \in {"revert_failed", "reverted"}
  BY <1>2, <1>3 DEF Disk!Jobs, Disk!Stages
<1>5. job'[j] = r
  BY <1>1
<1> HIDE DEF r
<1>6. StageWell(j)'
  BY <1>4, <1>5 DEF StageWell, Only
<1>7. /\ r.moved \subseteq Disk!Plain(j) /\ \A d \in r.made : Disk!Top(d) = JobFolder(j)
      /\ ~Disk!IsRemux(j) =>
            /\ Disk!Plain(j) = {} => /\ r.made = {} /\ r.written = {}
                                     /\ r.stage = "sidecars" => r.todo = {}
            /\ r.stage = "muxing" => r.todo = {} /\ r.written = {}
            /\ \A p \in r.written : \E s \in job[j].plan : p = Disk!SidecarTarget(j, s)
      /\ r.stage \notin {"draft", "queued", "failed"}
            => job[j].stage \notin {"draft", "queued", "failed"}
  BY <1>1, <1>2, <1>4 DEF OpsWell, RenameWell, Idle, Only
<1>8. JobsWell' /\ job' \in [DOMAIN scene'.jobs -> Disk!Jobs]
  BY <1>1, <1>4, <1>6, <1>7, JobSteps
<1> QED
  BY <1>1, <1>4, <1>5, <1>8 DEF KeepsUndo, Keeps, OnlyOf, Only

LEMMA FolderTypes ==
    ASSUME DiskTyped, NEW d \in Disk!Dirs
    PROVE  folders \union Disk!WithParents(d) \subseteq Disk!Dirs /\ IsFiniteSet(folders \union Disk!WithParents(d))
<1>1. Disk!Top(d) \in Disk!Dirs
  BY DEF Disk!Top, Disk!Dirs
<1>2. folders \union Disk!WithParents(d) = (folders \union {d}) \union {Disk!Top(d)}
  BY DEF Disk!WithParents
<1>3. IsFiniteSet(folders \union {d})
  BY FS_AddElement DEF DiskTyped
<1>4. IsFiniteSet((folders \union {d}) \union {Disk!Top(d)})
  BY <1>3, FS_AddElement
<1> QED
  BY <1>1, <1>2, <1>4 DEF DiskTyped

\* A file that moved.
LEMMA MovedTypes ==
    ASSUME DiskTyped, NEW at \in DOMAIN disk, NEW to \in Disk!Paths, disk' = Disk!Moved(disk, at, to)
    PROVE  DOMAIN disk' \subseteq Disk!Paths
           /\ \A p \in DOMAIN disk' : disk'[p] \in scene.files \cup {Disk!Downloaded, Disk!Added}
<1>1. /\ DOMAIN disk' = (DOMAIN disk \ {at}) \union {to} /\ disk'[to] = disk[at]
      /\ \A p \in DOMAIN disk : p \notin {at, to} => disk'[p] = disk[p]
  BY DEF Disk!Moved, Disk!With, Disk!Without
<1> QED
  BY <1>1 DEF DiskTyped

\* Types and the bookkeeping of the jobs, step by step.
LEMMA DiskTypes ==
    ASSUME DiskTyped, JobsWell, Disk!JobFilesNext
    PROVE  DiskTyped' /\ JobsWell'
<1> DEFINE Contents == scene.files \cup {Disk!Downloaded, Disk!Added}
<1> DEFINE Kin == /\ scene' = scene /\ job' \in [DOMAIN scene'.jobs -> Disk!Jobs] /\ JobsWell'
           Quiet == UNCHANGED <<gone, intrusions>>
<1>1. ASSUME NEW j \in DOMAIN job, NEW want \in Settings, Disk!Submit(j, want)
      PROVE  Kin /\ Quiet /\ UNCHANGED <<disk, folders>>
  BY <1>1, SubmitWell DEF Disk!Submit
<1>2. ASSUME NEW j \in DOMAIN job, Disk!Execute(j)
      PROVE  Kin /\ Quiet /\ UNCHANGED <<disk, folders>>
  BY <1>2, ExecuteWell DEF Disk!Execute
<1>3. ASSUME NEW j \in DOMAIN job, Disk!AllSourcesMissing(j)
      PROVE  Kin /\ Quiet /\ UNCHANGED <<disk, folders>>
  BY <1>3, SourcesMissingWell DEF Disk!AllSourcesMissing
<1>4. ASSUME NEW j \in DOMAIN job, Disk!StartMuxing(j)
      PROVE  Kin /\ Quiet /\ UNCHANGED <<disk, folders>>
  BY <1>4, StartMuxingWell DEF Disk!StartMuxing
<1>5. ASSUME NEW j \in DOMAIN job, Disk!StartSidecars(j)
      PROVE  Kin /\ Quiet /\ UNCHANGED <<disk, folders>>
  BY <1>5, StartSidecarsWell DEF Disk!StartSidecars
<1>6. ASSUME NEW j \in DOMAIN job, Disk!Complete(j)
      PROVE  Kin /\ Quiet /\ UNCHANGED <<disk, folders>>
  BY <1>6, CompleteWell DEF Disk!Complete
<1>7. ASSUME Kin, Quiet, UNCHANGED <<disk, folders>>
      PROVE  DiskTyped'
  BY <1>7 DEF DiskTyped
<1>8. ASSUME NEW j \in DOMAIN job, Disk!RemoveGenerated(j)
      PROVE  DiskTyped' /\ JobsWell'
  <2>1. Kin /\ Quiet /\ UNCHANGED folders
    BY <1>8, RemoveGeneratedWell DEF Disk!RemoveGenerated
  <2>2. DOMAIN disk' \subseteq DOMAIN disk /\ \A p \in DOMAIN disk' : disk'[p] = disk[p]
    BY <1>8, GeneratedGone
  <2> QED
    BY <2>1, <2>2 DEF DiskTyped
<1>9. ASSUME NEW j \in DOMAIN job, Disk!Tidy(j)
      PROVE  DiskTyped' /\ JobsWell'
  <2>1. Kin /\ Quiet /\ UNCHANGED disk /\ folders' \subseteq folders
    BY <1>9, TidyWell DEF Disk!Tidy
  <2>2. IsFiniteSet(folders')
    BY <2>1, FS_Subset DEF DiskTyped
  <2> QED
    BY <2>1, <2>2 DEF DiskTyped
<1>10. ASSUME NEW j \in DOMAIN job, NEW ok \in BOOLEAN, NEW op \in job[j].ops, Disk!Move(j, op, ok)
       PROVE  DiskTyped' /\ JobsWell'
  <2>1. Disk!New(j, op) \in Disk!Paths /\ Disk!New(j, op).dir \in Disk!Dirs
    BY NewPaths DEF JobsWell, JobWell, Disk!Paths
  <2>2. Kin /\ Quiet /\ folders' = folders \union Disk!WithParents(Disk!New(j, op).dir)
    BY <1>10, MoveWell DEF Disk!Move
  <2>3. folders' \subseteq Disk!Dirs /\ IsFiniteSet(folders')
    BY <2>1, <2>2, FolderTypes
  <2>4. CASE ok /\ Disk!Exists(op.src)
    <3>1. op.src \in DOMAIN disk /\ disk' = Disk!Moved(disk, op.src, Disk!New(j, op))
      BY <1>10, <2>4 DEF Disk!Move, Disk!Exists
    <3>2. DOMAIN disk' \subseteq Disk!Paths /\ \A p \in DOMAIN disk' : disk'[p] \in Contents
      BY <2>1, <3>1, MovedTypes
    <3> QED
      BY <2>2, <2>3, <3>2 DEF DiskTyped
  <2>5. CASE ~(ok /\ Disk!Exists(op.src))
    <3>1. UNCHANGED disk
      BY <1>10, <2>5 DEF Disk!Move
    <3> QED
      BY <2>2, <2>3, <3>1 DEF DiskTyped
  <2> QED
    BY <2>4, <2>5
<1>11. ASSUME NEW j \in DOMAIN job, NEW ok \in BOOLEAN, NEW op \in job[j].ops, Disk!Mux(j, op, ok)
       PROVE  DiskTyped' /\ JobsWell'
  <2>1. Disk!Target(op, 0) \in Disk!Paths /\ Disk!Target(op, 0).dir \in Disk!Dirs
    BY NewPaths DEF JobsWell, JobWell, Disk!Paths
  <2>2. Kin /\ Quiet
    BY <1>11, MuxWell DEF Disk!Mux
  <2>3. CASE ok /\ Disk!Exists(op.src) /\ ~Disk!Exists(Disk!Target(op, 0))
    <3>1. /\ op.src \in DOMAIN disk /\ disk' = Disk!With(disk, Disk!Target(op, 0), disk[op.src])
          /\ folders' = folders \union Disk!WithParents(Disk!Target(op, 0).dir)
      BY <1>11, <2>3 DEF Disk!Mux, Disk!Exists
    <3>2. folders' \subseteq Disk!Dirs /\ IsFiniteSet(folders')
      BY <2>1, <3>1, FolderTypes
    <3>3. DOMAIN disk' \subseteq Disk!Paths /\ \A p \in DOMAIN disk' : disk'[p] \in Contents
        <4>1. /\ DOMAIN disk' = DOMAIN disk \union {Disk!Target(op, 0)} /\ disk'[Disk!Target(op, 0)] = disk[op.src]
              /\ \A q \in DOMAIN disk : q # Disk!Target(op, 0) => disk'[q] = disk[q]
          BY <3>1 DEF Disk!With
        <4> QED
          BY <4>1, <2>1, <3>1 DEF DiskTyped
    <3> QED
      BY <2>2, <3>2, <3>3 DEF DiskTyped
  <2>4. CASE ~(ok /\ Disk!Exists(op.src) /\ ~Disk!Exists(Disk!Target(op, 0)))
    <3>1. UNCHANGED <<disk, folders>>
      BY <1>11, <2>4 DEF Disk!Mux
    <3> QED
      BY <2>2, <3>1 DEF DiskTyped
  <2> QED
    BY <2>3, <2>4
<1>12. ASSUME NEW j \in DOMAIN job, NEW ok \in BOOLEAN, NEW op \in job[j].ops, Disk!Restore(j, op, ok)
       PROVE  DiskTyped' /\ JobsWell'
  <2>1. op.src \in Disk!Paths
    BY DEF DiskTyped, Disk!Jobs, Disk!Ops
  <2>2. Kin /\ Quiet /\ UNCHANGED folders
    BY <1>12, RestoreWell DEF Disk!Restore
  <2>3. CASE ok /\ Disk!Exists(Disk!New(j, op))
    <3>1. Disk!New(j, op) \in DOMAIN disk /\ disk' = Disk!Moved(disk, Disk!New(j, op), op.src)
      BY <1>12, <2>3 DEF Disk!Restore, Disk!Exists
    <3>2. DOMAIN disk' \subseteq Disk!Paths /\ \A p \in DOMAIN disk' : disk'[p] \in Contents
      BY <2>1, <3>1, MovedTypes
    <3> QED
      BY <2>2, <3>2 DEF DiskTyped
  <2>4. CASE ~(ok /\ Disk!Exists(Disk!New(j, op)))
    <3>1. UNCHANGED disk
      BY <1>12, <2>4 DEF Disk!Restore
    <3> QED
      BY <2>2, <3>1 DEF DiskTyped
  <2> QED
    BY <2>3, <2>4
<1>13. ASSUME NEW j \in DOMAIN job, NEW ok \in BOOLEAN, NEW s \in job[j].plan, Disk!WriteSidecar(j, s, ok)
       PROVE  DiskTyped' /\ JobsWell'
  <2> DEFINE at == Disk!SidecarTarget(j, s)
  <2>1. at \in Disk!Paths /\ at.dir \in Disk!Dirs
    BY SidecarPaths DEF JobsWell, JobWell, Disk!Paths
  <2>2. Kin /\ Quiet
    BY <1>13, WriteSidecarWell DEF Disk!WriteSidecar
  <2>3. \/ UNCHANGED <<disk, folders>>
        \/ /\ disk' = Disk!With(disk, at, Disk!Downloaded)
           /\ folders' = folders \union Disk!WithParents(at.dir)
    BY <1>13 DEF Disk!WriteSidecar
  <2> HIDE DEF at
  <2>4. CASE UNCHANGED <<disk, folders>>
    BY <2>2, <2>4 DEF DiskTyped
  <2>5. CASE /\ disk' = Disk!With(disk, at, Disk!Downloaded)
             /\ folders' = folders \union Disk!WithParents(at.dir)
    <3>1. folders' \subseteq Disk!Dirs /\ IsFiniteSet(folders')
      BY <2>1, <2>5, FolderTypes
    <3>2. DOMAIN disk' \subseteq Disk!Paths /\ \A p \in DOMAIN disk' : disk'[p] \in Contents
        <4>1. /\ DOMAIN disk' = DOMAIN disk \union {at} /\ disk'[at] = Disk!Downloaded
              /\ \A q \in DOMAIN disk : q # at => disk'[q] = disk[q]
          BY <2>5 DEF Disk!With
        <4> QED
          BY <4>1, <2>1, <2>5 DEF DiskTyped
    <3> QED
      BY <2>2, <3>1, <3>2 DEF DiskTyped
  <2> QED
    BY <2>3, <2>4, <2>5
<1>14. ASSUME UNCHANGED <<scene, job>> PROVE JobsWell'
  <2>1. job' = job /\ scene' = scene
    BY <1>14
  <2> SUFFICES ASSUME NEW j \in DOMAIN job PROVE JobWell(j)'
    BY <2>1 DEF JobsWell
  <2> QED
    BY <2>1, SameJob DEF JobsWell
<1>15. MaxIntrusions \in Nat
  BY SceneAssumption
<1>16. ASSUME NEW p \in scene.files, Disk!UserRemoves(p)
       PROVE  DiskTyped' /\ JobsWell'
  <2>1. /\ disk' = Disk!Without(disk, {p}) /\ gone' = gone \cup {disk[p]} /\ p \in DOMAIN disk
        /\ intrusions < MaxIntrusions /\ intrusions' = intrusions + 1 /\ UNCHANGED <<scene, folders, job>>
    BY <1>16 DEF Disk!UserRemoves, Disk!Exists
  <2>2. DOMAIN disk' \subseteq DOMAIN disk /\ \A q \in DOMAIN disk' : disk'[q] = disk[q]
    <3>1. DOMAIN disk' = DOMAIN disk \ {p} /\ \A q \in DOMAIN disk \ {p} : disk'[q] = disk[q]
      BY <2>1 DEF Disk!Without
    <3> QED
      BY <3>1
  <2>3. IsFiniteSet(gone') /\ Cardinality(gone') <= Cardinality(gone) + 1 /\ Cardinality(gone) \in Nat
    <3>1. IsFiniteSet(gone) /\ gone' = gone \cup {disk[p]}
      BY <2>1 DEF DiskTyped
    <3>2. Cardinality(gone) \in Nat
      BY <3>1, FS_CardinalityType
    <3>3. /\ IsFiniteSet(gone \cup {disk[p]})
          /\ \/ Cardinality(gone \cup {disk[p]}) = Cardinality(gone)
             \/ Cardinality(gone \cup {disk[p]}) = Cardinality(gone) + 1
      <4>1. /\ IsFiniteSet(gone \cup {disk[p]})
            /\ disk[p] \in gone => Cardinality(gone \cup {disk[p]}) = Cardinality(gone)
            /\ disk[p] \notin gone => Cardinality(gone \cup {disk[p]}) = Cardinality(gone) + 1
        BY <3>1, FS_AddElement
      <4> QED
        BY <4>1
    <3> QED
      BY <3>1, <3>2, <3>3
  <2>4. intrusions' \in 0 .. MaxIntrusions /\ Cardinality(gone') <= intrusions' /\ Cardinality(gone') \in Nat
    BY <2>1, <2>3, <1>15, FS_CardinalityType DEF DiskTyped
  <2> QED
    BY <2>1, <2>2, <2>3, <2>4, <1>14 DEF DiskTyped
<1>17. ASSUME NEW p \in scene.files, Disk!UserAdds(p)
       PROVE  DiskTyped' /\ JobsWell'
  <2>1. /\ disk' = Disk!With(disk, p, Disk!Added) /\ gone' = gone
        /\ intrusions < MaxIntrusions /\ intrusions' = intrusions + 1 /\ UNCHANGED <<scene, folders, job>>
    BY <1>17 DEF Disk!UserAdds
  <2>2. p \in Disk!Paths
    BY SceneAssumption DEF DiskTyped
  <2>3. DOMAIN disk' \subseteq Disk!Paths /\ \A q \in DOMAIN disk' : disk'[q] \in Contents
      <3>1. /\ DOMAIN disk' = DOMAIN disk \union {p} /\ disk'[p] = Disk!Added
            /\ \A q \in DOMAIN disk : q # p => disk'[q] = disk[q]
        BY <2>1 DEF Disk!With
      <3> QED
        BY <3>1, <2>1, <2>2 DEF DiskTyped
  <2>4. intrusions' \in 0 .. MaxIntrusions /\ Cardinality(gone') <= intrusions'
    BY <2>1, <1>15, FS_CardinalityType DEF DiskTyped
  <2> QED
    BY <2>1, <2>3, <2>4, <1>14 DEF DiskTyped
<1> HIDE DEF Kin, Quiet, Contents
<1>18. Kin => JobsWell'
  BY DEF Kin
<1> QED
  BY <1>1, <1>2, <1>3, <1>4, <1>5, <1>6, <1>7, <1>8, <1>9, <1>10, <1>11, <1>12, <1>13, <1>16, <1>17, <1>18
     DEF Disk!JobFilesNext, Disk!JobIds

\* One job runs at a time.
LEMMA StaysOneBusy ==
    ASSUME DiskTyped, JobsWell, OneBusy, Disk!JobFilesNext
    PROVE  OneBusy'
<1> DEFINE Quiet(j) == /\ DOMAIN job' = DOMAIN job /\ \A k \in DOMAIN job : k # j => job'[k] = job[k]
                       /\ Busy(j)' => Busy(j) \/ \A k \in DOMAIN job : ~Busy(k)
<1>1. ASSUME NEW j \in DOMAIN job, Quiet(j) PROVE OneBusy'
  <2> SUFFICES ASSUME NEW k \in DOMAIN job, NEW l \in DOMAIN job, Busy(k)', Busy(l)' PROVE k = l
    BY <1>1 DEF OneBusy
  <2>1. \A i \in DOMAIN job : i # j /\ Busy(i)' => Busy(i)
    BY <1>1 DEF Busy, Only
  <2> QED
    BY <1>1, <2>1 DEF OneBusy
<1>2. ASSUME NEW j \in DOMAIN job, NEW want \in Settings, Disk!Submit(j, want) PROVE Quiet(j)
  BY <1>2, SubmitWell DEF OnlyOf, Busy, Only
<1>3. ASSUME NEW j \in DOMAIN job, Disk!Execute(j) PROVE Quiet(j)
  <2>1. \A k \in DOMAIN job : ~Busy(k)
    BY <1>3 DEF Disk!Execute, Disk!NothingRuns, Disk!JobIds, Busy, Only
  <2> QED
    BY <1>3, <2>1, ExecuteWell DEF OnlyOf
<1>4. ASSUME NEW j \in DOMAIN job, Disk!AllSourcesMissing(j) PROVE Quiet(j)
  BY <1>4, SourcesMissingWell DEF KeepsUndo, Keeps, OnlyOf, Busy, Only
<1>5. ASSUME NEW j \in DOMAIN job, Disk!StartMuxing(j) PROVE Quiet(j)
  BY <1>5, StartMuxingWell DEF KeepsUndo, Keeps, OnlyOf, Busy, Only
<1>6. ASSUME NEW j \in DOMAIN job, Disk!StartSidecars(j) PROVE Quiet(j)
  BY <1>6, StartSidecarsWell DEF KeepsUndo, Keeps, OnlyOf, Busy, Only
<1>7. ASSUME NEW j \in DOMAIN job, Disk!Complete(j) PROVE Quiet(j)
  BY <1>7, CompleteWell DEF KeepsUndo, Keeps, OnlyOf, Busy, Only
<1>8. ASSUME NEW j \in DOMAIN job, Disk!RemoveGenerated(j) PROVE Quiet(j)
  BY <1>8, RemoveGeneratedWell DEF KeepsUndo, Keeps, OnlyOf, Busy, Only
<1>9. ASSUME NEW j \in DOMAIN job, Disk!Tidy(j) PROVE Quiet(j)
  BY <1>9, TidyWell DEF KeepsUndo, Keeps, OnlyOf, Busy, Only
<1>10. ASSUME NEW j \in DOMAIN job, NEW ok \in BOOLEAN, NEW op \in job[j].ops, Disk!Move(j, op, ok)
      PROVE  Quiet(j)
  BY <1>10, MoveWell DEF KeepsUndo, Keeps, OnlyOf, Busy, Only
<1>11. ASSUME NEW j \in DOMAIN job, NEW ok \in BOOLEAN, NEW op \in job[j].ops, Disk!Mux(j, op, ok)
      PROVE  Quiet(j)
  <2>1. Busy(j)
    BY <1>11 DEF Disk!Mux, Disk!Stage, Busy, Only
  <2> QED
    BY <1>11, <2>1, MuxWell DEF Keeps, OnlyOf
<1>12. ASSUME NEW j \in DOMAIN job, NEW ok \in BOOLEAN, NEW op \in job[j].ops, Disk!Restore(j, op, ok)
      PROVE  Quiet(j)
  BY <1>12, RestoreWell DEF KeepsUndo, Keeps, OnlyOf, Busy, Only
<1>13. ASSUME NEW j \in DOMAIN job, NEW ok \in BOOLEAN, NEW s \in job[j].plan, Disk!WriteSidecar(j, s, ok)
      PROVE  Quiet(j)
  BY <1>13, WriteSidecarWell DEF KeepsUndo, Keeps, OnlyOf, Busy, Only
<1>14. ASSUME NEW p \in scene.files, Disk!UserRemoves(p) \/ Disk!UserAdds(p) PROVE OneBusy'
  <2>1. job' = job
    BY <1>14 DEF Disk!UserRemoves, Disk!UserAdds
  <2> QED
    BY <2>1 DEF OneBusy, Busy, Only
<1> HIDE DEF Quiet
<1> QED
  BY <1>1, <1>2, <1>3, <1>4, <1>5, <1>6, <1>7, <1>8, <1>9, <1>10, <1>11, <1>12, <1>13, <1>14
     DEF Disk!JobFilesNext, Disk!JobIds

\* What is calm after a step was calm before it.
LEMMA CalmBefore ==
    ASSUME DiskTyped, JobsWell, Disk!JobFilesNext, DiskTyped', Calm'
    PROVE  Calm /\ \A p \in scene.files : ~Disk!UserAdds(p)
<1>1. Cardinality(gone) \in Nat /\ intrusions \in Nat /\ Cardinality(gone) <= intrusions
  BY SceneAssumption, FS_CardinalityType DEF DiskTyped
<1>2. Cardinality(gone') \in Nat /\ intrusions' = Cardinality(gone')
  BY DiskCounts, FS_CardinalityType DEF DiskTyped, Calm, Disk!OnlyRemovals
<1>3. ASSUME NEW p \in scene.files, Disk!UserAdds(p) PROVE FALSE
  <2>1. gone' = gone /\ intrusions' = intrusions + 1
    BY <1>3 DEF Disk!UserAdds
  <2> QED
    BY <1>1, <1>2, <2>1
<1>4. ASSUME gone' = gone, intrusions' = intrusions PROVE Disk!OnlyRemovals
  BY <1>2, <1>4, DiskCounts DEF Disk!OnlyRemovals
<1>5. ASSUME job' = job PROVE \A j \in DOMAIN job : ~Disk!IsRemux(j)
  BY <1>5 DEF Calm, Disk!IsRemux
<1>6. ASSUME NEW j \in DOMAIN job, OnlyOf(j), job[j].ops \subseteq job'[j].ops
      PROVE  \A k \in DOMAIN job : ~Disk!IsRemux(k)
  <2> TAKE k \in DOMAIN job
  <2>1. k \in DOMAIN job' /\ job[k].ops \subseteq job'[k].ops
    BY <1>6 DEF OnlyOf
  <2> QED
    BY <2>1 DEF Calm, Disk!IsRemux
<1>7. ASSUME NEW p \in scene.files, Disk!UserRemoves(p) PROVE Calm
  <2>1. gone' = gone \cup {disk[p]} /\ intrusions' = intrusions + 1 /\ job' = job
    BY <1>7 DEF Disk!UserRemoves
  <2>2. Cardinality(gone \cup {disk[p]}) <= Cardinality(gone) + 1
    <3>1. /\ disk[p] \in gone => Cardinality(gone \cup {disk[p]}) = Cardinality(gone)
          /\ disk[p] \notin gone => Cardinality(gone \cup {disk[p]}) = Cardinality(gone) + 1
      BY FS_AddElement DEF DiskTyped
    <3> QED
      BY <1>1, <3>1
  <2>3. intrusions = Cardinality(gone)
    BY <1>1, <1>2, <2>1, <2>2
  <2> QED
    BY <1>5, <2>1, <2>3, DiskCounts DEF Calm, Disk!OnlyRemovals
<1> DEFINE Quiet == gone' = gone /\ intrusions' = intrusions
<1>8. ASSUME NEW j \in DOMAIN job, NEW want \in Settings, Disk!Submit(j, want) PROVE Calm
  <2>1. Quiet
    BY <1>8 DEF Disk!Submit
  <2> QED
    BY <1>4, <1>6, <1>8, <2>1, SubmitWell DEF Calm
<1>9. ASSUME NEW j \in DOMAIN job, Disk!Execute(j) PROVE Calm
  <2>1. Quiet
    BY <1>9 DEF Disk!Execute
  <2> QED
    BY <1>4, <1>6, <1>9, <2>1, ExecuteWell DEF Calm
<1>10. ASSUME NEW j \in DOMAIN job, Disk!AllSourcesMissing(j) PROVE Calm
  <2>1. Quiet
    BY <1>10 DEF Disk!AllSourcesMissing
  <2> QED
    BY <1>4, <1>6, <1>10, <2>1, SourcesMissingWell DEF Calm, KeepsUndo, Keeps
<1>11. ASSUME NEW j \in DOMAIN job, Disk!StartMuxing(j) PROVE Calm
  <2>1. Quiet
    BY <1>11 DEF Disk!StartMuxing
  <2> QED
    BY <1>4, <1>6, <1>11, <2>1, StartMuxingWell DEF Calm, KeepsUndo, Keeps
<1>12. ASSUME NEW j \in DOMAIN job, Disk!StartSidecars(j) PROVE Calm
  <2>1. Quiet
    BY <1>12 DEF Disk!StartSidecars
  <2> QED
    BY <1>4, <1>6, <1>12, <2>1, StartSidecarsWell DEF Calm, KeepsUndo, Keeps
<1>13. ASSUME NEW j \in DOMAIN job, Disk!Complete(j) PROVE Calm
  <2>1. Quiet
    BY <1>13 DEF Disk!Complete
  <2> QED
    BY <1>4, <1>6, <1>13, <2>1, CompleteWell DEF Calm, KeepsUndo, Keeps
<1>14. ASSUME NEW j \in DOMAIN job, Disk!RemoveGenerated(j) PROVE Calm
  <2>1. Quiet
    BY <1>14 DEF Disk!RemoveGenerated
  <2> QED
    BY <1>4, <1>6, <1>14, <2>1, RemoveGeneratedWell DEF Calm, Keeps
<1>15. ASSUME NEW j \in DOMAIN job, Disk!Tidy(j) PROVE Calm
  <2>1. Quiet
    BY <1>15 DEF Disk!Tidy
  <2> QED
    BY <1>4, <1>6, <1>15, <2>1, TidyWell DEF Calm, KeepsUndo, Keeps
<1>16. ASSUME NEW j \in DOMAIN job, NEW ok \in BOOLEAN, NEW op \in job[j].ops, Disk!Move(j, op, ok)
      PROVE  Calm
  <2>1. Quiet
    BY <1>16 DEF Disk!Move
  <2> QED
    BY <1>4, <1>6, <1>16, <2>1, MoveWell DEF Calm, KeepsUndo, Keeps
<1>17. ASSUME NEW j \in DOMAIN job, NEW ok \in BOOLEAN, NEW op \in job[j].ops, Disk!Mux(j, op, ok)
      PROVE  Calm
  <2>1. Quiet
    BY <1>17 DEF Disk!Mux
  <2> QED
    BY <1>4, <1>6, <1>17, <2>1, MuxWell DEF Calm, KeepsUndo, Keeps
<1>18. ASSUME NEW j \in DOMAIN job, NEW ok \in BOOLEAN, NEW op \in job[j].ops, Disk!Restore(j, op, ok)
      PROVE  Calm
  <2>1. Quiet
    BY <1>18 DEF Disk!Restore
  <2> QED
    BY <1>4, <1>6, <1>18, <2>1, RestoreWell DEF Calm, KeepsUndo, Keeps
<1>19. ASSUME NEW j \in DOMAIN job, NEW ok \in BOOLEAN, NEW s \in job[j].plan, Disk!WriteSidecar(j, s, ok)
      PROVE  Calm
  <2>1. Quiet
    BY <1>19 DEF Disk!WriteSidecar
  <2> QED
    BY <1>4, <1>6, <1>19, <2>1, WriteSidecarWell DEF Calm, KeepsUndo, Keeps
<1> HIDE DEF Quiet
<1> QED
  BY <1>3, <1>7, <1>8, <1>9, <1>10, <1>11, <1>12, <1>13, <1>14, <1>15, <1>16, <1>17, <1>18, <1>19
     DEF Disk!JobFilesNext, Disk!JobIds

\* What a step of the disk means to a job's claim.
SameClaim(k) ==
    /\ Claims(k)' => Claims(k)
    /\ JobFolder(k)' = JobFolder(k)
    /\ job'[k].moved = job[k].moved /\ job'[k].written = job[k].written
    /\ \A op : Disk!New(k, op)' = Disk!New(k, op)

LEMMA SameFolder ==
    ASSUME scene' = scene, NEW k \in DOMAIN job, job'[k].remap = job[k].remap
    PROVE  JobFolder(k)' = JobFolder(k) /\ \A op : Disk!New(k, op)' = Disk!New(k, op)
BY DEF JobFolder, Disk!ShowFolder, Disk!New

\* A step of one job leaves the claims of the others alone.
LEMMA OthersClaim ==
    ASSUME scene' = scene, NEW k \in DOMAIN job, job'[k] = job[k]
    PROVE  SameClaim(k) /\ Disk!Left(k)' = Disk!Left(k)
<1>1. JobFolder(k)' = JobFolder(k) /\ \A op : Disk!New(k, op)' = Disk!New(k, op)
  BY SameFolder
<1>2. Disk!Left(k)' = Disk!Left(k)
  BY DEF Disk!Left, Disk!New
<1>3. Disk!Plain(k)' = Disk!Plain(k)
  BY DEF Disk!Plain
<1>4. Claims(k)' => Claims(k)
  BY <1>2, <1>3 DEF Claims, Busy, Only
<1> QED
  BY <1>1, <1>2, <1>4 DEF SameClaim

\* Files may go, folders may come, claims may end.
LEMMA CalmShrinks ==
    ASSUME DiskCalm, DOMAIN job' = DOMAIN job, folders \subseteq folders',
           DOMAIN disk' \subseteq DOMAIN disk, \A p \in DOMAIN disk' : disk'[p] = disk[p],
           \A k \in DOMAIN job : Claims(k)' => SameClaim(k),
           \A k \in DOMAIN job : Claims(k)' /\ Disk!Left(k)' # {}
                                    => Disk!Left(k) # {} \/ JobFolder(k) \in folders',
           Kept'
    PROVE  DiskCalm'
<1>1. FoldersApart'
  BY DEF DiskCalm, FoldersApart, SameClaim
<1>2. FoldersThere'
  BY DEF DiskCalm, FoldersThere, SameClaim
<1>3. FilesHoused'
  BY DEF DiskCalm, FilesHoused
<1>4. FolderIsItsOwn'
  <2> SUFFICES ASSUME NEW k \in DOMAIN job, NEW p \in DOMAIN disk', Claims(k)',
                      Disk!Top(p.dir) = JobFolder(k)'
               PROVE  p \in job'[k].written \/ \E op \in job'[k].moved : p = Disk!New(k, op)'
    BY DEF FolderIsItsOwn
  <2>1. SameClaim(k) /\ Claims(k) /\ p \in DOMAIN disk
    BY DEF SameClaim
  <2>2. p \in job[k].written \/ \E op \in job[k].moved : p = Disk!New(k, op)
    BY <2>1 DEF DiskCalm, FolderIsItsOwn, SameClaim
  <2> QED
    BY <2>1, <2>2 DEF SameClaim
<1>5. ReleaseIsItsOwn'
  BY DEF DiskCalm, ReleaseIsItsOwn
<1>6. MovesAreTrue'
  <2> SUFFICES ASSUME NEW k \in DOMAIN job, NEW op \in job'[k].moved, Claims(k)',
                      Disk!New(k, op)' \in DOMAIN disk'
               PROVE  disk'[Disk!New(k, op)'] = op.src
    BY DEF MovesAreTrue, Disk!Exists
  <2>1. SameClaim(k) /\ Claims(k)
    BY DEF SameClaim
  <2>2. op \in job[k].moved /\ Disk!New(k, op)' = Disk!New(k, op)
    BY <2>1 DEF SameClaim
  <2> QED
    BY <2>1, <2>2 DEF DiskCalm, MovesAreTrue, Disk!Exists
<1>7. SidecarsAreTrue'
  BY DEF DiskCalm, SidecarsAreTrue, SameClaim, Disk!Exists
<1> QED
  BY <1>1, <1>2, <1>3, <1>4, <1>5, <1>6, <1>7 DEF DiskCalm

\* Stages in which what a job is to undo does not change.
LEMMA ClaimStays ==
    ASSUME DiskTyped, JobsWell, DiskCalm, NEW j \in DOMAIN job, KeepsUndo(j), Claims(j)' => Claims(j),
           UNCHANGED <<disk, gone>>, folders \subseteq folders'
    PROVE  DiskCalm'
<1>1. DOMAIN job' = DOMAIN job /\ scene' = scene /\ \A k \in DOMAIN job : k # j => job'[k] = job[k]
  BY DEF KeepsUndo, Keeps, OnlyOf
<1>2. \A k \in DOMAIN job : k # j => SameClaim(k) /\ Disk!Left(k)' = Disk!Left(k)
  BY <1>1, OthersClaim
<1>3. JobFolder(j)' = JobFolder(j) /\ \A op : Disk!New(j, op)' = Disk!New(j, op)
  BY <1>1, SameFolder DEF KeepsUndo, Keeps
<1>4. SameClaim(j)
  BY <1>3 DEF SameClaim, KeepsUndo
<1>5. Disk!Left(j)' = Disk!Left(j)
  BY <1>3 DEF KeepsUndo, Disk!Left
<1>6. Kept'
  BY <1>1 DEF DiskCalm, Kept
<1>7. \A k \in DOMAIN job : SameClaim(k) /\ Disk!Left(k)' = Disk!Left(k)
  BY <1>2, <1>4, <1>5
<1> QED
  BY <1>1, <1>6, <1>7, CalmShrinks

LEMMA SubmitCalm ==
    ASSUME DiskTyped, JobsWell, DiskCalm, NEW j \in DOMAIN job, NEW want \in Settings, Disk!Submit(j, want)
    PROVE  DiskCalm'
<1>1. /\ OnlyOf(j) /\ scene' = scene /\ job'[j].stage = "queued" /\ UNCHANGED <<disk, gone, folders>>
  BY SubmitWell DEF Disk!Submit
<1>2. \A k \in DOMAIN job : k # j => SameClaim(k) /\ Disk!Left(k)' = Disk!Left(k)
  BY <1>1, OthersClaim DEF OnlyOf
<1>3. ~Claims(j)'
  BY <1>1 DEF Claims, Busy, Only
<1>4. Kept'
  BY <1>1 DEF DiskCalm, Kept
<1>5. DOMAIN job' = DOMAIN job /\ disk' = disk /\ folders' = folders
  BY <1>1 DEF OnlyOf
<1> QED
  BY <1>2, <1>3, <1>4, <1>5, CalmShrinks

LEMMA SourcesMissingCalm ==
    ASSUME DiskTyped, JobsWell, DiskCalm, NEW j \in DOMAIN job, Disk!AllSourcesMissing(j)
    PROVE  DiskCalm'
<1>1. KeepsUndo(j) /\ job'[j].stage = "failed"
  BY SourcesMissingWell
<1>2. ~Claims(j)'
  BY <1>1 DEF Claims, Busy, Only
<1> QED
  BY <1>1, <1>2, ClaimStays DEF Disk!AllSourcesMissing

LEMMA StartMuxingCalm ==
    ASSUME DiskTyped, JobsWell, DiskCalm, NEW j \in DOMAIN job, Disk!StartMuxing(j)
    PROVE  DiskCalm'
<1>1. KeepsUndo(j) /\ Only(j, {"moving"}) /\ job'[j].stage = "muxing"
  BY StartMuxingWell
<1>2. Disk!Plain(j)' = Disk!Plain(j)
  BY <1>1 DEF KeepsUndo, Keeps, Disk!Plain
<1>3. Claims(j)' => Claims(j)
  BY <1>1, <1>2 DEF Claims, Busy, Only
<1> QED
  BY <1>1, <1>3, ClaimStays DEF Disk!StartMuxing

LEMMA StartSidecarsCalm ==
    ASSUME DiskTyped, JobsWell, DiskCalm, NEW j \in DOMAIN job, Disk!StartSidecars(j)
    PROVE  DiskCalm'
<1>1. KeepsUndo(j) /\ Only(j, {"muxing"}) /\ job'[j].stage = "sidecars"
  BY StartSidecarsWell
<1>2. Disk!Plain(j)' = Disk!Plain(j)
  BY <1>1 DEF KeepsUndo, Keeps, Disk!Plain
<1>3. Claims(j)' => Claims(j)
  BY <1>1, <1>2 DEF Claims, Busy, Only
<1> QED
  BY <1>1, <1>3, ClaimStays DEF Disk!StartSidecars

\* A rename job that left something had files to move.
LEMMA LeftByMoves ==
    ASSUME NEW j \in DOMAIN job, OpsWell(j), RenameWell(j), ~Disk!IsRemux(j), Disk!Left(j) # {}
    PROVE  Disk!Plain(j) # {}
<1> SUFFICES ASSUME Disk!Plain(j) = {} PROVE FALSE
  OBVIOUS
<1>1. job[j].made = {} /\ job[j].written = {} /\ job[j].moved = {}
  BY DEF OpsWell, RenameWell, Idle
<1> QED
  BY <1>1 DEF Disk!Left

LEMMA CompleteCalm ==
    ASSUME DiskTyped, JobsWell, DiskCalm, Calm, NEW j \in DOMAIN job, Disk!Complete(j)
    PROVE  DiskCalm'
<1>1. KeepsUndo(j) /\ Only(j, {"sidecars"}) /\ job'[j].stage \in {"failed", "completed"}
  BY CompleteWell
<1>2. Disk!Left(j)' = Disk!Left(j)
  BY <1>1, SameFolder DEF KeepsUndo, Keeps, Disk!Left
<1>3. Claims(j)' => Claims(j)
  <2> SUFFICES ASSUME Claims(j)' PROVE Claims(j)
    OBVIOUS
  <2>1. Disk!Left(j) # {}
    BY <1>1, <1>2 DEF Claims, Busy, Only
  <2>2. Disk!Plain(j) # {}
    BY <2>1, LeftByMoves DEF JobsWell, JobWell, Calm
  <2> QED
    BY <1>1, <2>2 DEF Claims, Busy, Only
<1> QED
  BY <1>1, <1>3, ClaimStays DEF Disk!Complete

\* A job that starts gets a folder in which there is nothing yet.
LEMMA ExecuteFresh ==
    ASSUME DiskTyped, JobsWell, Calm, NEW j \in DOMAIN job, Disk!Execute(j), Claims(j)'
    PROVE  JobFolder(j)' \notin folders
<1>1. /\ job'[j].remap = Disk!RemapFor(j) /\ OnlyOf(j) /\ scene' = scene /\ job'[j].ops = job[j].ops
      /\ job'[j].stage \in {"failed", "moving"}
      /\ job'[j].stage = "moving" /\ ~Disk!IsRemux(j) => Disk!Present(j) = Disk!Plain(j)
  BY ExecuteWell
<1>2. job'[j].stage = "moving" /\ Disk!Plain(j)' # {}
  BY <1>1 DEF Claims, Busy, Only
<1>3. Disk!Plain(j)' = Disk!Plain(j)
  BY <1>1 DEF Disk!Plain
<1>4. Disk!Present(j) # {}
  BY <1>1, <1>2, <1>3 DEF Calm
<1>5. JobFolder(j)' = Disk!Remap(Disk!ShowFolder(j), Disk!RemapFor(j))
  BY <1>1 DEF JobFolder, Disk!ShowFolder
<1>6. CASE \E op \in Disk!Present(j) : Disk!ShowFolder(j) \in folders \/ Disk!Exists(Disk!Target(op, 0))
  <2>1. Disk!RemapFor(j) = Disk!NextNumber(Disk!ShowFolder(j))
    BY <1>6 DEF Disk!RemapFor
  <2> QED
    BY <1>5, <2>1, FreshNumber
<1>7. CASE ~ \E op \in Disk!Present(j) : Disk!ShowFolder(j) \in folders \/ Disk!Exists(Disk!Target(op, 0))
  <2>1. Disk!RemapFor(j) = 0
    BY <1>7 DEF Disk!RemapFor
  <2>2. Disk!ShowFolder(j) \notin folders
    BY <1>4, <1>7
  <2> QED
    BY <1>5, <2>1, <2>2 DEF Disk!Remap
<1> QED
  BY <1>6, <1>7

\* A job that starts has a folder that nobody has, by RemapFor.
LEMMA ExecuteCalm ==
    ASSUME DiskTyped, JobsWell, Calm, DiskCalm, DiskTyped', JobsWell',
           NEW j \in DOMAIN job, Disk!Execute(j)
    PROVE  DiskCalm'
<1>1. /\ OnlyOf(j) /\ scene' = scene /\ job'[j].stage \in {"failed", "moving"}
      /\ job'[j].moved = {} /\ job'[j].written = {} /\ job'[j].made = {}
      /\ UNCHANGED <<disk, folders, gone>>
  BY ExecuteWell DEF Disk!Execute
<1>2. DOMAIN job' = DOMAIN job /\ disk' = disk /\ folders' = folders
  BY <1>1 DEF OnlyOf
<1>3. \A k \in DOMAIN job : k # j => SameClaim(k) /\ Disk!Left(k)' = Disk!Left(k)
  BY <1>1, OthersClaim DEF OnlyOf
<1>4. Disk!Left(j)' = {}
  BY <1>1 DEF Disk!Left
<1>5. Claims(j)' => JobFolder(j)' \notin folders
  BY ExecuteFresh
<1>6. FoldersThere'
  BY <1>2, <1>3, <1>4 DEF DiskCalm, FoldersThere, SameClaim
<1>7. \A k \in DOMAIN job : ~Busy(k)
  BY DEF Disk!Execute, Disk!NothingRuns, Disk!JobIds, Busy, Only
<1>8. \A k \in DOMAIN job : k # j /\ Claims(k)' => JobFolder(k)' \in folders
  BY <1>3, <1>7 DEF DiskCalm, FoldersThere, SameClaim, Claims
<1>9. \A k, l \in DOMAIN job : k # j /\ l # j /\ k # l /\ Claims(k)' /\ Claims(l)' => JobFolder(k)' # JobFolder(l)'
  BY <1>3 DEF DiskCalm, FoldersApart, SameClaim
<1>10. FoldersApart'
  <2> SUFFICES ASSUME NEW k \in DOMAIN job, NEW l \in DOMAIN job, Claims(k)', Claims(l)', k # l,
                      JobFolder(k)' = JobFolder(l)'
               PROVE  FALSE
    BY <1>2 DEF FoldersApart
  <2>1. CASE k # j /\ l # j
    BY <2>1, <1>9
  <2>2. CASE k = j
    BY <2>2, <1>5, <1>8
  <2>3. CASE l = j
    BY <2>3, <1>5, <1>8
  <2> QED
    BY <2>1, <2>2, <2>3
<1>11. FilesHoused'
  BY <1>2 DEF DiskCalm, FilesHoused
<1>12. FolderIsItsOwn'
  <2> SUFFICES ASSUME NEW k \in DOMAIN job, NEW p \in DOMAIN disk, Claims(k)', Disk!Top(p.dir) = JobFolder(k)'
               PROVE  p \in job'[k].written \/ \E op \in job'[k].moved : p = Disk!New(k, op)'
    BY <1>2 DEF FolderIsItsOwn
  <2>1. CASE k # j
    <3>1. Claims(k) /\ Disk!Top(p.dir) = JobFolder(k)
      BY <2>1, <1>3 DEF SameClaim
    <3>2. p \in job[k].written \/ \E op \in job[k].moved : p = Disk!New(k, op)
      BY <3>1 DEF DiskCalm, FolderIsItsOwn
    <3> QED
      BY <2>1, <3>2, <1>3 DEF SameClaim
  <2>2. CASE k = j
    <3>1. Disk!Top(p.dir) \notin folders
      BY <2>2, <1>5
    <3>2. JobFolder(j)'.root = "out"
      <4>1. job'[j].remap \in Nat /\ JobFolder(j)' = Disk!Remap(Disk!ShowFolder(j), job'[j].remap)
        BY <1>1, <1>2 DEF DiskTyped, Disk!Jobs, JobFolder, Disk!ShowFolder
      <4> QED
        BY <4>1, ShowFolders DEF Disk!Remap, Disk!Dirs
    <3>3. p \in Disk!Paths /\ Disk!Top(p.dir).root = "out"
      BY <2>2, <3>2 DEF DiskTyped
    <3>4. p.dir.root = "out"
      BY <3>3 DEF Disk!Top, Disk!Paths, Disk!Dirs
    <3> QED
      BY <3>1, <3>4 DEF DiskCalm, FilesHoused
  <2> QED
    BY <2>1, <2>2
<1>13. ReleaseIsItsOwn'
  BY <1>2 DEF DiskCalm, ReleaseIsItsOwn
<1>14. MovesAreTrue'
  <2> SUFFICES ASSUME NEW k \in DOMAIN job, NEW op \in job'[k].moved, Claims(k)', Disk!New(k, op)' \in DOMAIN disk
               PROVE  disk[Disk!New(k, op)'] = op.src
    BY <1>2 DEF MovesAreTrue, Disk!Exists
  <2>1. k # j /\ SameClaim(k)
    BY <1>1, <1>3
  <2>2. op \in job[k].moved /\ Disk!New(k, op)' = Disk!New(k, op) /\ Claims(k)
    BY <2>1 DEF SameClaim
  <2> QED
    BY <2>2 DEF DiskCalm, MovesAreTrue, Disk!Exists
<1>15. SidecarsAreTrue'
  <2> SUFFICES ASSUME NEW k \in DOMAIN job, NEW p \in job'[k].written, Claims(k)', p \in DOMAIN disk
               PROVE  disk[p] = Disk!Downloaded
    BY <1>2 DEF SidecarsAreTrue, Disk!Exists
  <2>1. k # j /\ SameClaim(k)
    BY <1>1, <1>3
  <2> QED
    BY <2>1 DEF DiskCalm, SidecarsAreTrue, Disk!Exists, SameClaim
<1>16. Kept'
  BY <1>1 DEF DiskCalm, Kept
<1> QED
  BY <1>6, <1>10, <1>11, <1>12, <1>13, <1>14, <1>15, <1>16 DEF DiskCalm

\* Folders in which a job puts a file.
LEMMA FolderGains ==
    ASSUME DiskTyped, JobsWell, DiskCalm, NEW j \in DOMAIN job, NEW to \in Disk!Paths,
           Disk!Top(to.dir) = JobFolder(j), Keeps(j), Claims(j)' => Claims(j),
           folders' = folders \union Disk!WithParents(to.dir)
    PROVE  FoldersApart' /\ FoldersThere'
<1>1. DOMAIN job' = DOMAIN job /\ scene' = scene /\ \A k \in DOMAIN job : k # j => job'[k] = job[k]
  BY DEF Keeps, OnlyOf
<1>2. \A k \in DOMAIN job : k # j => SameClaim(k) /\ Disk!Left(k)' = Disk!Left(k)
  BY <1>1, OthersClaim
<1>3. JobFolder(j)' = JobFolder(j) /\ JobFolder(j) \in folders'
  BY <1>1, SameFolder DEF Keeps, Disk!WithParents
<1>4. \A k \in DOMAIN job : JobFolder(k)' = JobFolder(k) /\ (Claims(k)' => Claims(k))
  BY <1>2, <1>3 DEF SameClaim
<1>5. FoldersApart'
  BY <1>1, <1>4 DEF DiskCalm, FoldersApart
<1>6. FoldersThere'
  <2> SUFFICES ASSUME NEW k \in DOMAIN job, Claims(k)', Disk!Left(k)' # {} PROVE JobFolder(k)' \in folders'
    BY <1>1 DEF FoldersThere
  <2>1. CASE k = j
    BY <2>1, <1>3
  <2>2. CASE k # j
    BY <2>2, <1>2, <1>4 DEF DiskCalm, FoldersThere
  <2> QED
    BY <2>1, <2>2
<1> QED
  BY <1>5, <1>6

\* The paths of one job's files are none of another's.
LEMMA PathsApart ==
    ASSUME DiskTyped, JobsWell, Calm, DiskCalm, NEW j \in DOMAIN job, NEW k \in DOMAIN job, k # j,
           Claims(j), Claims(k), NEW to, Disk!Top(to.dir) = JobFolder(j)
    PROVE  /\ \A op \in job[k].moved : Disk!New(k, op) # to
           /\ to \notin job[k].written
<1>1. JobFolder(j) # JobFolder(k)
  BY DEF DiskCalm, FoldersApart
<1>2. OpsWell(k) /\ RenameWell(k) /\ ~Disk!IsRemux(k)
  BY DEF JobsWell, JobWell, Calm
<1>3. \A op \in job[k].moved : Disk!Top(Disk!New(k, op).dir) = JobFolder(k)
  BY <1>2, NewPaths DEF OpsWell, Disk!Plain
<1>4. \A p \in job[k].written : Disk!Top(p.dir) = JobFolder(k)
  BY <1>2, LeftInFolder
<1> QED
  BY <1>1, <1>3, <1>4

\* A move takes a file of the release to a place nobody has.
LEMMA MoveCalm ==
    ASSUME DiskTyped, JobsWell, Calm, DiskCalm, NEW j \in DOMAIN job, NEW op \in job[j].ops,
           NEW ok \in BOOLEAN, Disk!Move(j, op, ok)
    PROVE  DiskCalm'
<1> DEFINE to == Disk!New(j, op)
           done == ok /\ Disk!Exists(op.src)
<1>1. /\ Keeps(j) /\ Only(j, {"moving"}) /\ job'[j].stage = "moving"
      /\ op \in Disk!Plain(j) \ job[j].moved /\ job[j].written = {} /\ job'[j].written = {}
      /\ job'[j].moved = IF done THEN job[j].moved \union {op} ELSE job[j].moved
  BY MoveWell
<1>2. OpsWell(j) /\ RenameWell(j) /\ ~Disk!IsRemux(j)
  BY DEF JobsWell, JobWell, Calm
<1>3. to \in Disk!Paths /\ to.dir.root = "out" /\ Disk!Top(to.dir) = JobFolder(j)
  BY <1>2, NewPaths
<1>4. Claims(j)
  BY <1>1 DEF Claims, Busy, Only
<1>5. folders' = folders \union Disk!WithParents(to.dir) /\ UNCHANGED gone
  BY DEF Disk!Move
<1>6. /\ DOMAIN job' = DOMAIN job /\ scene' = scene /\ \A k \in DOMAIN job : k # j => job'[k] = job[k]
      /\ \A k \in DOMAIN job : k # j => SameClaim(k)
      /\ JobFolder(j)' = JobFolder(j) /\ \A other : Disk!New(j, other)' = Disk!New(j, other)
  BY <1>1, SameFolder, OthersClaim DEF Keeps, OnlyOf
<1>7. FoldersApart' /\ FoldersThere'
  BY <1>1, <1>3, <1>4, <1>5, FolderGains
<1>8. CASE ~done
  <2>1. UNCHANGED disk /\ job'[j].moved = job[j].moved /\ folders \subseteq folders'
    BY <1>1, <1>5, <1>8 DEF Disk!Move
  <2>2. \A k \in DOMAIN job : Claims(k)' => SameClaim(k)
    BY <1>1, <1>4, <1>6, <2>1 DEF SameClaim
  <2>3. JobFolder(j) \in folders'
    BY <1>3, <1>5 DEF Disk!WithParents
  <2>4. \A k \in DOMAIN job : Claims(k)' /\ Disk!Left(k)' # {} => Disk!Left(k) # {} \/ JobFolder(k) \in folders'
    BY <1>6, <2>3, OthersClaim
  <2>5. Kept'
    BY <1>5, <1>6, <2>1 DEF DiskCalm, Kept
  <2> QED
    BY <1>6, <2>1, <2>2, <2>4, <2>5, CalmShrinks
<1>9. CASE done
  <2>1. /\ disk' = Disk!Moved(disk, op.src, to) /\ job'[j].moved = job[j].moved \union {op}
        /\ op.src \in DOMAIN disk
    BY <1>1, <1>9 DEF Disk!Move, Disk!Exists
  <2>2. op.src.dir.root = "src" /\ disk[op.src] = op.src
    BY <1>2, <2>1 DEF OpsWell, DiskCalm, ReleaseIsItsOwn
  <2>3. \A other \in job[j].moved : Disk!New(j, other) # to
    BY <1>1, <1>2 DEF OpsWell, RenameWell, Only
  <2>4. to \notin DOMAIN disk
    BY <1>1, <1>3, <1>4, <2>3 DEF DiskCalm, FolderIsItsOwn
  <2>5. op.src # to
    BY <1>3, <2>2
  <2> HIDE DEF to
  <2>6. /\ DOMAIN disk' = (DOMAIN disk \ {op.src}) \union {to} /\ disk'[to] = op.src
        /\ \A p \in DOMAIN disk : p # op.src => disk'[p] = disk[p]
    BY <2>1, <2>2, <2>4 DEF Disk!Moved, Disk!With, Disk!Without
  <2>7. FilesHoused'
    BY <1>5, <2>6 DEF DiskCalm, FilesHoused, Disk!WithParents
  <2>8. ReleaseIsItsOwn'
    BY <1>3, <2>6 DEF DiskCalm, ReleaseIsItsOwn
  <2>9. FolderIsItsOwn'
    <3> SUFFICES ASSUME NEW k \in DOMAIN job, NEW p \in DOMAIN disk', Claims(k)', Disk!Top(p.dir) = JobFolder(k)'
                 PROVE  p \in job'[k].written \/ \E other \in job'[k].moved : p = Disk!New(k, other)'
      BY <1>6 DEF FolderIsItsOwn
    <3>1. CASE p = to /\ k = j
      <4>1. op \in job'[j].moved /\ to = Disk!New(j, op)'
        BY <1>6, <2>1 DEF to
      <4> QED
        BY <3>1, <4>1
    <3>2. CASE p = to /\ k # j
      <4>1. Claims(k) /\ JobFolder(k) = JobFolder(j)
        BY <1>3, <1>6, <3>2 DEF SameClaim
      <4> QED
        BY <1>4, <3>2, <4>1 DEF DiskCalm, FoldersApart
    <3>3. CASE p # to
      <4>1. p \in DOMAIN disk /\ Claims(k) /\ Disk!Top(p.dir) = JobFolder(k)
        BY <1>4, <1>6, <2>6, <3>3 DEF SameClaim
      <4>2. p \in job[k].written \/ \E other \in job[k].moved : p = Disk!New(k, other)
        BY <4>1 DEF DiskCalm, FolderIsItsOwn
      <4>3. CASE k = j
        BY <1>1, <1>6, <2>1, <4>2, <4>3
      <4>4. CASE k # j
        BY <1>6, <4>2, <4>4 DEF SameClaim
      <4> QED
        BY <4>3, <4>4
    <3> QED
      BY <3>1, <3>2, <3>3
  <2>10. MovesAreTrue'
    <3> SUFFICES ASSUME NEW k \in DOMAIN job, NEW other \in job'[k].moved, Claims(k)',
                        Disk!New(k, other)' \in DOMAIN disk'
                 PROVE  disk'[Disk!New(k, other)'] = other.src
      BY <1>6 DEF MovesAreTrue, Disk!Exists
    <3>1. CASE k = j /\ other = op
      BY <1>6, <2>6, <3>1 DEF to
    <3>2. CASE k = j /\ other # op
      <4>1. other \in job[j].moved /\ Disk!New(j, other)' = Disk!New(j, other)
        BY <1>6, <2>1, <3>2
      <4>2. Disk!New(j, other) # to /\ Disk!New(j, other).dir.root = "out"
        BY <1>2, <2>3, <4>1, NewPaths DEF OpsWell, Disk!Plain
      <4>3. Disk!New(j, other) \in DOMAIN disk /\ disk'[Disk!New(j, other)] = disk[Disk!New(j, other)]
        BY <2>2, <2>6, <3>2, <4>1, <4>2
      <4> QED
        BY <1>4, <3>2, <4>1, <4>3 DEF DiskCalm, MovesAreTrue, Disk!Exists
    <3>3. CASE k # j
      <4>1. Claims(k) /\ other \in job[k].moved /\ Disk!New(k, other)' = Disk!New(k, other)
        BY <1>6, <3>3 DEF SameClaim
      <4>2. Disk!New(k, other) # to
        BY <1>3, <1>4, <3>3, <4>1, PathsApart
      <4>3. Disk!New(k, other).dir.root = "out"
        BY <4>1, NewPaths DEF JobsWell, JobWell, OpsWell, Disk!Plain
      <4>4. Disk!New(k, other) \in DOMAIN disk /\ disk'[Disk!New(k, other)] = disk[Disk!New(k, other)]
        BY <2>2, <2>6, <4>1, <4>2, <4>3
      <4> QED
        BY <4>1, <4>4 DEF DiskCalm, MovesAreTrue, Disk!Exists
    <3> QED
      BY <3>1, <3>2, <3>3
  <2>11. SidecarsAreTrue'
    <3> SUFFICES ASSUME NEW k \in DOMAIN job, NEW p \in job'[k].written, Claims(k)', p \in DOMAIN disk'
                 PROVE  disk'[p] = Disk!Downloaded
      BY <1>6 DEF SidecarsAreTrue, Disk!Exists
    <3>1. k # j /\ Claims(k) /\ p \in job[k].written
      BY <1>1, <1>6 DEF SameClaim
    <3>2. p # to
      BY <1>3, <1>4, <3>1, PathsApart
    <3>3. p.dir.root = "out"
      BY <3>1, LeftInFolder DEF JobsWell, JobWell, Calm
    <3>4. p \in DOMAIN disk /\ disk'[p] = disk[p]
      BY <2>2, <2>6, <3>2, <3>3
    <3> QED
      BY <3>1, <3>4 DEF DiskCalm, SidecarsAreTrue, Disk!Exists
  <2>12. Kept'
    <3> SUFFICES ASSUME NEW c \in scene.files \ gone PROVE \E p \in DOMAIN disk' : disk'[p] = c
      BY <1>5, <1>6 DEF Kept
    <3>1. PICK p \in DOMAIN disk : disk[p] = c
      BY DEF DiskCalm, Kept
    <3>2. CASE p = op.src
      BY <2>2, <2>6, <3>1, <3>2
    <3>3. CASE p # op.src
      BY <2>6, <3>1, <3>3
    <3> QED
      BY <3>2, <3>3
  <2> QED
    BY <1>7, <2>7, <2>8, <2>9, <2>10, <2>11, <2>12 DEF DiskCalm
<1> QED
  BY <1>8, <1>9

LEMMA NotTheUsers ==
    ASSUME DiskTyped
    PROVE  Disk!Downloaded \notin scene.files
<1>1. Disk!Downloaded.dir.root = "none"
  BY DEF Disk!Downloaded, Disk!File, Disk!Nowhere
<1> QED
  BY <1>1, SceneAssumption DEF DiskTyped

\* A sidecar overwrites no file that was moved: its place is none of theirs.
LEMMA WriteSidecarCalm ==
    ASSUME DiskTyped, JobsWell, Calm, DiskCalm, NEW j \in DOMAIN job, NEW s \in job[j].plan,
           NEW ok \in BOOLEAN, Disk!WriteSidecar(j, s, ok)
    PROVE  DiskCalm'
<1> DEFINE at == Disk!SidecarTarget(j, s)
<1>1. /\ Keeps(j) /\ Only(j, {"sidecars"}) /\ job'[j].stage = "sidecars" /\ s \in job[j].todo
      /\ job'[j].moved = job[j].moved /\ job'[j].made = job[j].made
  BY WriteSidecarWell
<1>2. OpsWell(j) /\ RenameWell(j) /\ ~Disk!IsRemux(j)
  BY DEF JobsWell, JobWell, Calm
<1>3. at \in Disk!Paths /\ at.dir.root = "out" /\ Disk!Top(at.dir) = JobFolder(j)
  BY <1>2, SidecarPaths
<1>4. Claims(j)
  BY <1>1, <1>2 DEF Claims, Busy, Only, RenameWell, Idle
<1>5. /\ DOMAIN job' = DOMAIN job /\ scene' = scene /\ \A k \in DOMAIN job : k # j => job'[k] = job[k]
      /\ \A k \in DOMAIN job : k # j => SameClaim(k)
      /\ JobFolder(j)' = JobFolder(j) /\ \A other : Disk!New(j, other)' = Disk!New(j, other)
  BY <1>1, SameFolder, OthersClaim DEF Keeps, OnlyOf
<1>6. UNCHANGED gone
  BY DEF Disk!WriteSidecar
<1>7. \/ UNCHANGED <<disk, folders>> /\ job'[j].written = job[j].written
      \/ /\ disk' = Disk!With(disk, at, Disk!Downloaded) /\ job'[j].written = job[j].written \union {at}
         /\ folders' = folders \union Disk!WithParents(at.dir)
  <2>1. job[j] \in Disk!Jobs
    BY DEF DiskTyped
  <2>2. CASE /\ UNCHANGED <<disk, folders>>
             /\ \/ job' = [job EXCEPT ![j] = [job[j] EXCEPT !.todo = job[j].todo \ {s}]]
                \/ job' = [job EXCEPT ![j] = [job[j] EXCEPT !.todo = job[j].todo \ {s}, !.errors = TRUE]]
    BY <2>1, <2>2 DEF Disk!Jobs
  <2>3. CASE /\ disk' = Disk!With(disk, at, Disk!Downloaded)
             /\ folders' = folders \union Disk!WithParents(at.dir)
             /\ job' = [job EXCEPT ![j] = [job[j] EXCEPT !.todo = job[j].todo \ {s},
                                                         !.written = job[j].written \union {at}]]
    BY <2>1, <2>3 DEF Disk!Jobs
  <2>4. \/ /\ UNCHANGED <<disk, folders>>
           /\ \/ job' = [job EXCEPT ![j] = [job[j] EXCEPT !.todo = job[j].todo \ {s}]]
              \/ job' = [job EXCEPT ![j] = [job[j] EXCEPT !.todo = job[j].todo \ {s}, !.errors = TRUE]]
        \/ /\ disk' = Disk!With(disk, at, Disk!Downloaded)
           /\ folders' = folders \union Disk!WithParents(at.dir)
           /\ job' = [job EXCEPT ![j] = [job[j] EXCEPT !.todo = job[j].todo \ {s},
                                                       !.written = job[j].written \union {at}]]
    BY DEF Disk!WriteSidecar
  <2> QED
    BY <2>2, <2>3, <2>4
<1>8. CASE UNCHANGED <<disk, folders>> /\ job'[j].written = job[j].written
  <2>1. KeepsUndo(j)
    BY <1>1, <1>8 DEF KeepsUndo
  <2> QED
    BY <1>4, <1>6, <1>8, <2>1, ClaimStays
<1>9. CASE /\ disk' = Disk!With(disk, at, Disk!Downloaded) /\ job'[j].written = job[j].written \union {at}
           /\ folders' = folders \union Disk!WithParents(at.dir)
  <2>1. FoldersApart' /\ FoldersThere'
    BY <1>1, <1>3, <1>4, <1>9, FolderGains
  <2>2. \A op \in job[j].moved : Disk!New(j, op) # at
    BY <1>1, <1>2, SidecarsBeside DEF OpsWell, Only
  <2> HIDE DEF at
  <2>3. /\ DOMAIN disk' = DOMAIN disk \union {at} /\ disk'[at] = Disk!Downloaded
        /\ \A p \in DOMAIN disk : p # at => disk'[p] = disk[p]
    BY <1>9 DEF Disk!With
  <2>4. at \in DOMAIN disk => disk[at] = Disk!Downloaded
    <3> SUFFICES ASSUME at \in DOMAIN disk PROVE disk[at] = Disk!Downloaded
      OBVIOUS
    <3>1. at \in job[j].written
      BY <1>3, <1>4, <2>2 DEF DiskCalm, FolderIsItsOwn
    <3> QED
      BY <1>4, <3>1 DEF DiskCalm, SidecarsAreTrue, Disk!Exists
  <2>5. FilesHoused'
    BY <1>9, <2>3 DEF DiskCalm, FilesHoused, Disk!WithParents
  <2>6. ReleaseIsItsOwn'
    BY <1>3, <2>3 DEF DiskCalm, ReleaseIsItsOwn
  <2>7. FolderIsItsOwn'
    <3> SUFFICES ASSUME NEW k \in DOMAIN job, NEW p \in DOMAIN disk', Claims(k)', Disk!Top(p.dir) = JobFolder(k)'
                 PROVE  p \in job'[k].written \/ \E other \in job'[k].moved : p = Disk!New(k, other)'
      BY <1>5 DEF FolderIsItsOwn
    <3>1. CASE p = at /\ k = j
      BY <1>9, <3>1
    <3>2. CASE p = at /\ k # j
      <4>1. Claims(k) /\ JobFolder(k) = JobFolder(j)
        BY <1>3, <1>5, <3>2 DEF SameClaim
      <4> QED
        BY <1>4, <3>2, <4>1 DEF DiskCalm, FoldersApart
    <3>3. CASE p # at
      <4>1. p \in DOMAIN disk /\ Claims(k) /\ Disk!Top(p.dir) = JobFolder(k)
        BY <1>4, <1>5, <2>3, <3>3 DEF SameClaim
      <4>2. p \in job[k].written \/ \E other \in job[k].moved : p = Disk!New(k, other)
        BY <4>1 DEF DiskCalm, FolderIsItsOwn
      <4>3. CASE k = j
        BY <1>1, <1>5, <1>9, <4>2, <4>3
      <4>4. CASE k # j
        BY <1>5, <4>2, <4>4 DEF SameClaim
      <4> QED
        BY <4>3, <4>4
    <3> QED
      BY <3>1, <3>2, <3>3
  <2>8. MovesAreTrue'
    <3> SUFFICES ASSUME NEW k \in DOMAIN job, NEW other \in job'[k].moved, Claims(k)',
                        Disk!New(k, other)' \in DOMAIN disk'
                 PROVE  disk'[Disk!New(k, other)'] = other.src
      BY <1>5 DEF MovesAreTrue, Disk!Exists
    <3>1. Claims(k) /\ other \in job[k].moved /\ Disk!New(k, other)' = Disk!New(k, other)
      BY <1>1, <1>4, <1>5 DEF SameClaim
    <3>2. Disk!New(k, other) # at
      <4>1. CASE k = j
        BY <2>2, <3>1, <4>1
      <4>2. CASE k # j
        BY <1>3, <1>4, <3>1, <4>2, PathsApart
      <4> QED
        BY <4>1, <4>2
    <3>3. Disk!New(k, other) \in DOMAIN disk /\ disk'[Disk!New(k, other)] = disk[Disk!New(k, other)]
      BY <2>3, <3>1, <3>2
    <3> QED
      BY <3>1, <3>3 DEF DiskCalm, MovesAreTrue, Disk!Exists
  <2>9. SidecarsAreTrue'
    <3> SUFFICES ASSUME NEW k \in DOMAIN job, NEW p \in job'[k].written, Claims(k)', p \in DOMAIN disk'
                 PROVE  disk'[p] = Disk!Downloaded
      BY <1>5 DEF SidecarsAreTrue, Disk!Exists
    <3>1. CASE p = at
      BY <2>3, <3>1
    <3>2. CASE p # at
      <4>1. Claims(k) /\ p \in job[k].written
        BY <1>4, <1>5, <1>9, <3>2 DEF SameClaim
      <4>2. p \in DOMAIN disk /\ disk'[p] = disk[p]
        BY <2>3, <3>2
      <4> QED
        BY <4>1, <4>2 DEF DiskCalm, SidecarsAreTrue, Disk!Exists
    <3> QED
      BY <3>1, <3>2
  <2>10. Kept'
    <3> SUFFICES ASSUME NEW c \in scene.files \ gone PROVE \E p \in DOMAIN disk' : disk'[p] = c
      BY <1>5, <1>6 DEF Kept
    <3>1. PICK p \in DOMAIN disk : disk[p] = c
      BY DEF DiskCalm, Kept
    <3>2. p # at
      BY <2>4, <3>1, NotTheUsers
    <3> QED
      BY <2>3, <3>1, <3>2
  <2> QED
    BY <2>1, <2>5, <2>6, <2>7, <2>8, <2>9, <2>10 DEF DiskCalm
<1> HIDE DEF at
<1> QED
  BY <1>7, <1>8, <1>9

\* The revert of a job removes sidecars only.
LEMMA RemoveGeneratedCalm ==
    ASSUME DiskTyped, JobsWell, Calm, DiskCalm, NEW j \in DOMAIN job, Disk!RemoveGenerated(j)
    PROVE  DiskCalm'
<1>1. /\ Keeps(j) /\ Only(j, {"completed"}) /\ job'[j].stage = "restoring"
      /\ job'[j].moved = job[j].moved /\ job'[j].made = job[j].made /\ job'[j].written = job[j].written
  BY RemoveGeneratedWell
<1>2. /\ DOMAIN job' = DOMAIN job /\ scene' = scene /\ \A k \in DOMAIN job : k # j => job'[k] = job[k]
      /\ \A k \in DOMAIN job : k # j => SameClaim(k) /\ Disk!Left(k)' = Disk!Left(k)
      /\ JobFolder(j)' = JobFolder(j) /\ \A other : Disk!New(j, other)' = Disk!New(j, other)
  BY <1>1, SameFolder, OthersClaim DEF Keeps, OnlyOf
<1>3. UNCHANGED <<folders, gone>>
  BY DEF Disk!RemoveGenerated
<1>5. Disk!Left(j)' = Disk!Left(j)
  BY <1>1, <1>2 DEF Disk!Left
<1>6. Disk!Left(j) # {} => Claims(j)
  BY <1>1 DEF Claims, Only
<1>7. SameClaim(j)
  BY <1>1, <1>2, <1>5, <1>6 DEF SameClaim, Claims, Busy, Only
<1>8. /\ DOMAIN disk' \subseteq DOMAIN disk /\ DOMAIN disk \ job[j].written \subseteq DOMAIN disk'
      /\ \A p \in DOMAIN disk' : disk'[p] = disk[p]
  BY GeneratedGone
<1>9. Kept'
  <2> SUFFICES ASSUME NEW c \in scene.files \ gone PROVE \E p \in DOMAIN disk' : disk'[p] = c
    BY <1>2, <1>3 DEF Kept
  <2>1. PICK p \in DOMAIN disk : disk[p] = c
    BY DEF DiskCalm, Kept
  <2>2. p \notin job[j].written
    <3> SUFFICES ASSUME p \in job[j].written PROVE FALSE
      OBVIOUS
    <3>1. Claims(j)
      BY <1>6 DEF Disk!Left
    <3>2. disk[p] = Disk!Downloaded
      BY <3>1 DEF DiskCalm, SidecarsAreTrue, Disk!Exists
    <3> QED
      BY <2>1, <3>2, NotTheUsers
  <2> QED
    BY <1>8, <2>1, <2>2
<1>10. \A k \in DOMAIN job : SameClaim(k) /\ Disk!Left(k)' = Disk!Left(k)
  BY <1>2, <1>5, <1>7
<1>11. DOMAIN disk' \subseteq DOMAIN disk /\ folders \subseteq folders'
  BY <1>3, <1>8
<1> QED
  BY <1>2, <1>8, <1>9, <1>10, <1>11, CalmShrinks

\* What the user removes is gone, and nothing else.
LEMMA UserRemovesCalm ==
    ASSUME DiskTyped, DiskCalm, NEW p \in scene.files, Disk!UserRemoves(p)
    PROVE  DiskCalm'
<1>1. /\ disk' = Disk!Without(disk, {p}) /\ gone' = gone \union {disk[p]} /\ scene' = scene /\ job' = job
      /\ folders' = folders
  BY DEF Disk!UserRemoves
<1>2. \A k \in DOMAIN job : SameClaim(k) /\ Disk!Left(k)' = Disk!Left(k)
  BY <1>1, OthersClaim
<1>3. DOMAIN disk' = DOMAIN disk \ {p} /\ \A q \in DOMAIN disk' : disk'[q] = disk[q]
  BY <1>1 DEF Disk!Without
<1>4. Kept'
  <2> SUFFICES ASSUME NEW c \in scene.files \ gone' PROVE \E q \in DOMAIN disk' : disk'[q] = c
    BY <1>1 DEF Kept
  <2>1. PICK q \in DOMAIN disk : disk[q] = c
    BY <1>1 DEF DiskCalm, Kept
  <2>2. q # p
    BY <1>1, <2>1
  <2> QED
    BY <1>3, <2>1, <2>2
<1>5. DOMAIN disk' \subseteq DOMAIN disk /\ folders \subseteq folders' /\ DOMAIN job' = DOMAIN job
  BY <1>1, <1>3
<1> QED
  BY <1>2, <1>3, <1>4, <1>5, CalmShrinks

\* A file goes back to its place in the release, which nobody else has taken.
LEMMA RestoreCalm ==
    ASSUME DiskTyped, JobsWell, Calm, DiskCalm, NEW j \in DOMAIN job, NEW op \in job[j].ops,
           NEW ok \in BOOLEAN, Disk!Restore(j, op, ok)
    PROVE  DiskCalm'
<1> DEFINE at == Disk!New(j, op)
           done == ok /\ Disk!Exists(at)
<1>1. KeepsUndo(j) /\ Only(j, {"restoring"}) /\ job'[j].stage = "restoring"
  BY RestoreWell
<1>2. OpsWell(j) /\ StageWell(j) /\ RenameWell(j) /\ ~Disk!IsRemux(j)
  BY DEF JobsWell, JobWell, Calm
<1>3. op \in job[j].moved
  BY <1>1, <1>2 DEF Disk!Restore, StageWell, Only
<1>4. Claims(j)
  BY <1>1, <1>3 DEF Claims, Disk!Left, Only
<1>5. UNCHANGED <<folders, gone>> /\ scene' = scene /\ DOMAIN job' = DOMAIN job
  BY <1>1 DEF Disk!Restore, KeepsUndo, Keeps, OnlyOf
<1>6. CASE ~done
  BY <1>1, <1>4, <1>6, ClaimStays DEF Disk!Restore
<1>7. CASE done
  <2>1. disk' = Disk!Moved(disk, at, op.src) /\ at \in DOMAIN disk
    BY <1>7 DEF Disk!Restore, Disk!Exists
  <2>2. disk[at] = op.src
    BY <1>3, <1>4, <2>1 DEF DiskCalm, MovesAreTrue, Disk!Exists
  <2>3. at.dir.root = "out" /\ op.src.dir.root = "src"
    BY <1>2, NewPaths DEF OpsWell
  <2>4. at # op.src
    BY <2>3
  <2>5. op.src \in DOMAIN disk => disk[op.src] = op.src
    BY <2>3 DEF DiskCalm, ReleaseIsItsOwn
  <2> HIDE DEF at
  <2>6. /\ DOMAIN disk' = (DOMAIN disk \ {at}) \union {op.src} /\ disk'[op.src] = op.src
        /\ \A p \in DOMAIN disk : p # at => disk'[p] = disk[p]
    BY <2>1, <2>2, <2>4, <2>5 DEF Disk!Moved, Disk!With, Disk!Without
  <2>7. \A p \in DOMAIN disk' : p.dir.root = "out" => p \in DOMAIN disk /\ disk'[p] = disk[p]
    BY <2>3, <2>6
  <2>8. \A k \in DOMAIN job : k # j => SameClaim(k) /\ Disk!Left(k)' = Disk!Left(k)
    BY <1>1, OthersClaim DEF KeepsUndo, Keeps, OnlyOf
  <2>9. /\ JobFolder(j)' = JobFolder(j) /\ \A other : Disk!New(j, other)' = Disk!New(j, other)
        /\ Disk!Left(j)' = Disk!Left(j)
    BY <1>1, SameFolder DEF KeepsUndo, Keeps, Disk!Left
  <2>10. \A k \in DOMAIN job : SameClaim(k) /\ Disk!Left(k)' = Disk!Left(k)
    BY <1>1, <1>4, <2>8, <2>9 DEF SameClaim, KeepsUndo
  <2>11. FoldersApart' /\ FoldersThere'
    BY <1>5, <2>10 DEF DiskCalm, FoldersApart, FoldersThere, SameClaim
  <2>12. FilesHoused'
    BY <1>5, <2>7 DEF DiskCalm, FilesHoused
  <2>13. ReleaseIsItsOwn'
    BY <2>6 DEF DiskCalm, ReleaseIsItsOwn
  <2>14. FolderIsItsOwn'
    <3> SUFFICES ASSUME NEW k \in DOMAIN job, NEW p \in DOMAIN disk', Claims(k)', Disk!Top(p.dir) = JobFolder(k)'
                 PROVE  p \in job'[k].written \/ \E other \in job'[k].moved : p = Disk!New(k, other)'
      BY <1>5 DEF FolderIsItsOwn
    <3>1. Claims(k) /\ Disk!Top(p.dir) = JobFolder(k)
      BY <2>10 DEF SameClaim
    <3>2. Disk!Top(p.dir).root = "out"
      BY <3>1, FoldersOfJobs
    <3>3. p \in Disk!Paths
      BY <2>6 DEF DiskTyped, Disk!Jobs, Disk!Ops
    <3>4. p.dir.root = "out"
      BY <3>2, <3>3 DEF Disk!Top, Disk!Paths, Disk!Dirs
    <3>5. p \in job[k].written \/ \E other \in job[k].moved : p = Disk!New(k, other)
      BY <2>7, <3>1, <3>4 DEF DiskCalm, FolderIsItsOwn
    <3> QED
      BY <2>10, <3>5 DEF SameClaim
  <2>15. MovesAreTrue'
    <3> SUFFICES ASSUME NEW k \in DOMAIN job, NEW other \in job'[k].moved, Claims(k)',
                        Disk!New(k, other)' \in DOMAIN disk'
                 PROVE  disk'[Disk!New(k, other)'] = other.src
      BY <1>5 DEF MovesAreTrue, Disk!Exists
    <3>1. Claims(k) /\ other \in job[k].moved /\ Disk!New(k, other)' = Disk!New(k, other)
      BY <2>10 DEF SameClaim
    <3>2. Disk!New(k, other).dir.root = "out"
      BY <3>1, NewPaths DEF JobsWell, JobWell, OpsWell, Disk!Plain
    <3>3. Disk!New(k, other) \in DOMAIN disk /\ disk'[Disk!New(k, other)] = disk[Disk!New(k, other)]
      BY <2>7, <3>1, <3>2
    <3> QED
      BY <3>1, <3>3 DEF DiskCalm, MovesAreTrue, Disk!Exists
  <2>16. SidecarsAreTrue'
    <3> SUFFICES ASSUME NEW k \in DOMAIN job, NEW p \in job'[k].written, Claims(k)', p \in DOMAIN disk'
                 PROVE  disk'[p] = Disk!Downloaded
      BY <1>5 DEF SidecarsAreTrue, Disk!Exists
    <3>1. Claims(k) /\ p \in job[k].written
      BY <2>10 DEF SameClaim
    <3>2. p.dir.root = "out"
      BY <3>1, LeftInFolder DEF JobsWell, JobWell, Calm
    <3> QED
      BY <2>7, <3>1, <3>2 DEF DiskCalm, SidecarsAreTrue, Disk!Exists
  <2>17. Kept'
    <3> SUFFICES ASSUME NEW c \in scene.files \ gone PROVE \E p \in DOMAIN disk' : disk'[p] = c
      BY <1>5 DEF Kept
    <3>1. PICK p \in DOMAIN disk : disk[p] = c
      BY DEF DiskCalm, Kept
    <3>2. CASE p = at
      BY <2>2, <2>6, <3>1, <3>2
    <3>3. CASE p # at
      BY <2>6, <3>1, <3>3
    <3> QED
      BY <3>2, <3>3
  <2> QED
    BY <2>11, <2>12, <2>13, <2>14, <2>15, <2>16, <2>17 DEF DiskCalm
<1> QED
  BY <1>6, <1>7

\* The folders removed are empty ones, and of no other job.
LEMMA TidyCalm ==
    ASSUME DiskTyped, JobsWell, Calm, DiskCalm, NEW j \in DOMAIN job, Disk!Tidy(j)
    PROVE  DiskCalm'
<1> DEFINE bare(remaining, d) == Disk!FilesIn(d) = {} /\ {e \in remaining : Disk!Top(e) = d} \subseteq {d}
           subs == {d \in Disk!Left(j) : d.sub # 0 /\ Disk!FilesIn(d) = {}}
           rest == folders \ subs
           tops == {d \in {Disk!Top(e) : e \in Disk!Left(j)} : bare(rest, d)}
<1>1. KeepsUndo(j) /\ Only(j, {"restoring"}) /\ job'[j].stage \in {"revert_failed", "reverted"}
  BY TidyWell
<1>2. OpsWell(j) /\ StageWell(j) /\ RenameWell(j) /\ ~Disk!IsRemux(j)
  BY DEF JobsWell, JobWell, Calm
<1>3. folders' = rest \ tops /\ UNCHANGED <<disk, gone>>
  BY DEF Disk!Tidy
<1>4. /\ DOMAIN job' = DOMAIN job /\ scene' = scene
      /\ \A k \in DOMAIN job : k # j => SameClaim(k) /\ Disk!Left(k)' = Disk!Left(k)
  BY <1>1, OthersClaim DEF KeepsUndo, Keeps, OnlyOf
<1>5. ~Claims(j)'
  BY <1>1 DEF Claims, Busy, Only
<1>6. \A d \in tops : d = JobFolder(j) /\ Claims(j)
  <2>1. \A e \in Disk!Left(j) : Disk!Top(e) = JobFolder(j)
    BY <1>2, LeftInFolder
  <2> QED
    BY <1>1, <2>1 DEF Claims, Only
<1>7. FoldersApart'
  BY <1>4, <1>5 DEF DiskCalm, FoldersApart, SameClaim
<1>8. FoldersThere'
  <2> SUFFICES ASSUME NEW k \in DOMAIN job, Claims(k)', Disk!Left(k)' # {} PROVE JobFolder(k)' \in folders'
    BY <1>4 DEF FoldersThere
  <2>1. k # j /\ Claims(k) /\ JobFolder(k)' = JobFolder(k) /\ Disk!Left(k) # {}
    BY <1>4, <1>5 DEF SameClaim
  <2>2. JobFolder(k) \in folders /\ JobFolder(k).sub = 0
    BY <2>1, FoldersOfJobs DEF DiskCalm, FoldersThere
  <2>3. JobFolder(k) \notin subs
    BY <2>2
  <2>4. JobFolder(k) \notin tops
    BY <1>6, <2>1 DEF DiskCalm, FoldersApart
  <2> QED
    BY <1>3, <2>1, <2>2, <2>3, <2>4
<1>9. FilesHoused'
  <2> SUFFICES ASSUME NEW p \in DOMAIN disk, p.dir.root = "out"
               PROVE  p.dir \in folders' /\ Disk!Top(p.dir) \in folders'
    BY <1>3 DEF FilesHoused
  <2>1. p.dir \in folders /\ Disk!Top(p.dir) \in folders /\ p.dir \in Disk!Dirs
    BY DEF DiskCalm, FilesHoused, DiskTyped
  <2>2. p \in Disk!FilesIn(p.dir)
    BY DEF Disk!FilesIn
  <2>3. p.dir \in rest
    BY <2>1, <2>2
  <2>4. Disk!Top(p.dir).sub = 0
    BY <2>1 DEF Disk!Top, Disk!Dirs
  <2>5. Disk!Top(p.dir) \in rest
    BY <2>1, <2>4
  <2>6. p.dir \notin tops
    BY <2>2
  <2>7. Disk!Top(p.dir) \notin tops
    <3> SUFFICES ASSUME bare(rest, Disk!Top(p.dir)) PROVE FALSE
      OBVIOUS
    <3>1. p.dir = Disk!Top(p.dir)
      BY <2>3
    <3> QED
      BY <2>2, <3>1
  <2> QED
    BY <1>3, <2>3, <2>5, <2>6, <2>7
<1> HIDE DEF subs, rest, tops
<1>10. FolderIsItsOwn'
  <2> SUFFICES ASSUME NEW k \in DOMAIN job, NEW p \in DOMAIN disk, Claims(k)', Disk!Top(p.dir) = JobFolder(k)'
               PROVE  p \in job'[k].written \/ \E other \in job'[k].moved : p = Disk!New(k, other)'
    BY <1>3, <1>4 DEF FolderIsItsOwn
  <2>1. SameClaim(k) /\ Claims(k) /\ Disk!Top(p.dir) = JobFolder(k)
    BY <1>4, <1>5 DEF SameClaim
  <2>2. p \in job[k].written \/ \E other \in job[k].moved : p = Disk!New(k, other)
    BY <2>1 DEF DiskCalm, FolderIsItsOwn
  <2> QED
    BY <2>1, <2>2 DEF SameClaim
<1>11. ReleaseIsItsOwn'
  BY <1>3 DEF DiskCalm, ReleaseIsItsOwn
<1>12. MovesAreTrue'
  <2> SUFFICES ASSUME NEW k \in DOMAIN job, NEW other \in job'[k].moved, Claims(k)',
                      Disk!New(k, other)' \in DOMAIN disk
               PROVE  disk[Disk!New(k, other)'] = other.src
    BY <1>3, <1>4 DEF MovesAreTrue, Disk!Exists
  <2>1. Claims(k) /\ other \in job[k].moved /\ Disk!New(k, other)' = Disk!New(k, other)
    BY <1>4, <1>5 DEF SameClaim
  <2> QED
    BY <2>1 DEF DiskCalm, MovesAreTrue, Disk!Exists
<1>13. SidecarsAreTrue'
  <2> SUFFICES ASSUME NEW k \in DOMAIN job, NEW p \in job'[k].written, Claims(k)', p \in DOMAIN disk
               PROVE  disk[p] = Disk!Downloaded
    BY <1>3, <1>4 DEF SidecarsAreTrue, Disk!Exists
  <2>1. Claims(k) /\ p \in job[k].written
    BY <1>4, <1>5 DEF SameClaim
  <2> QED
    BY <2>1 DEF DiskCalm, SidecarsAreTrue, Disk!Exists
<1>14. Kept'
  BY <1>3, <1>4 DEF DiskCalm, Kept
<1> QED
  BY <1>7, <1>8, <1>9, <1>10, <1>11, <1>12, <1>13, <1>14 DEF DiskCalm

LEMMA FirstFoldersFinite ==
    ASSUME scene \in Scenes
    PROVE  IsFiniteSet(Disk!FirstFolders) /\ Disk!FirstFolders \subseteq Disk!Dirs
<1> DEFINE outs == {q \in scene.files : q.dir.root = "out"}
           dirs == {p.dir : p \in outs}
           tops == {Disk!Top(d) : d \in dirs}
<1>1. IsFiniteSet(outs) /\ outs \subseteq Disk!Paths
  <2>1. IsFiniteSet(scene.files) /\ scene.files \subseteq Disk!Paths
    BY SceneAssumption
  <2> QED
    BY <2>1, FS_Subset
<1>2. IsFiniteSet(dirs)
  <2> DEFINE f == [p \in outs |-> p.dir]
  <2>1. f \in Surjection(outs, dirs)
    BY DEF Surjection
  <2> QED
    BY <1>1, <2>1, FS_Surjection
<1>3. dirs \subseteq Disk!Dirs
  BY <1>1 DEF Disk!Paths
<1> HIDE DEF outs, dirs
<1>4. IsFiniteSet(tops)
  <2> DEFINE f == [d \in dirs |-> Disk!Top(d)]
  <2>1. f \in Surjection(dirs, tops)
    BY DEF Surjection
  <2> HIDE DEF f, tops
  <2> QED
    BY <1>2, <2>1, FS_Surjection
<1>5. tops \subseteq Disk!Dirs
  BY <1>3 DEF Disk!Top, Disk!Dirs
<1>6. Disk!FirstFolders = dirs \union tops
  BY DEF Disk!FirstFolders, Disk!WithParents, dirs, outs
<1> QED
  BY <1>2, <1>3, <1>4, <1>5, <1>6, FS_Union

\* The three facts: the start, a step and a stutter.
LEMMA DiskStarts == Disk!JobFilesInit => DiskInv
<1> SUFFICES ASSUME Disk!JobFilesInit PROVE DiskInv
  OBVIOUS
<1>1. /\ scene \in Scenes /\ disk = [p \in scene.files |-> p] /\ folders = Disk!FirstFolders
      /\ gone = {} /\ intrusions = 0
  BY DEF Disk!JobFilesInit
<1> DEFINE start(j) == [ops |-> scene.jobs[j], plan |-> {}, local |-> FALSE, remap |-> 0, todo |-> {},
                        moved |-> {}, made |-> {}, written |-> {}, errors |-> FALSE,
                        stage |-> "draft"]
<1>2. /\ DOMAIN job = DOMAIN scene.jobs /\ \A j \in DOMAIN job : job[j] = start(j)
      /\ job = [j \in DOMAIN scene.jobs |-> job[j]]
  BY DEF Disk!JobFilesInit
<1>3. /\ MaxIntrusions \in Nat /\ scene.files \subseteq Disk!Paths
      /\ \A j \in DOMAIN scene.jobs : scene.jobs[j] # {} /\ scene.jobs[j] \subseteq Disk!Ops
      /\ \A j \in DOMAIN scene.jobs : \A op \in scene.jobs[j] : op.src.dir.root = "src"
  BY <1>1, SceneAssumption
<1>4. ASSUME NEW j \in DOMAIN job
      PROVE  /\ job[j] \in Disk!Jobs
             /\ job[j].ops = scene.jobs[j] /\ job[j].plan = {} /\ job[j].moved = {} /\ job[j].made = {}
             /\ job[j].written = {} /\ job[j].stage = "draft"
  <2>1. scene.jobs[j] \subseteq Disk!Ops
    BY <1>2, <1>3
  <2>2. start(j) \in Disk!Jobs
    BY <2>1 DEF Disk!Jobs, Disk!Stages
  <2> QED
    BY <1>2, <2>2
<1> HIDE DEF start
<1>5. DiskTyped
  <2>1. IsFiniteSet(folders) /\ folders \subseteq Disk!Dirs
    BY <1>1, FirstFoldersFinite
  <2>2. IsFiniteSet(gone) /\ Cardinality(gone) = 0
    BY <1>1, FS_EmptySet
  <2>3. job \in [DOMAIN scene.jobs -> Disk!Jobs]
    BY <1>2, <1>4
  <2>4. DOMAIN disk \subseteq Disk!Paths /\ \A p \in DOMAIN disk : disk[p] \in scene.files
    BY <1>1, <1>3
  <2> QED
    BY <1>1, <1>3, <2>1, <2>2, <2>3, <2>4 DEF DiskTyped
<1>6. ASSUME NEW j \in DOMAIN job PROVE JobWell(j)
  <2>1. j \in DOMAIN scene.jobs /\ job[j].ops = scene.jobs[j]
    BY <1>2, <1>4
  <2>2. \A op \in scene.jobs[j] : InShow(j, op.dir)
    BY <1>5, ShowFolders
  <2>3. \A op \in scene.jobs[j] : op.src.dir.root = "src"
    BY <1>3, <2>1
  <2>4. \A op \in job[j].ops : op.src.dir.root = "src" /\ InShow(j, op.dir)
    BY <2>1, <2>2, <2>3
  <2> QED
    BY <1>4, <2>4 DEF JobWell, OpsWell, SidecarsClear, StageWell, RenameWell, Idle, Only
<1>7. OneBusy /\ \A j \in DOMAIN job : ~Claims(j)
  <2>1. \A j \in DOMAIN job : ~Busy(j) /\ ~Only(j, {"completed", "restoring"})
    BY <1>4 DEF Busy, Only
  <2> QED
    BY <2>1 DEF OneBusy, Claims
<1>8. FilesHoused /\ ReleaseIsItsOwn /\ Kept
  BY <1>1 DEF FilesHoused, ReleaseIsItsOwn, Kept, Disk!FirstFolders, Disk!WithParents
<1>9. DiskCalm
  BY <1>7, <1>8 DEF DiskCalm, FoldersApart, FoldersThere, FolderIsItsOwn, MovesAreTrue, SidecarsAreTrue
<1> QED
  BY <1>5, <1>6, <1>7, <1>9 DEF DiskInv, JobsWell

LEMMA DiskStep == DiskInv /\ Disk!JobFilesNext => DiskInv'
<1> SUFFICES ASSUME DiskInv, Disk!JobFilesNext PROVE DiskInv'
  OBVIOUS
<1>1. DiskTyped /\ JobsWell /\ OneBusy /\ (Calm => DiskCalm)
  BY DEF DiskInv
<1>2. DiskTyped' /\ JobsWell'
  BY <1>1, DiskTypes
<1>3. OneBusy'
  BY <1>1, StaysOneBusy
<1>4. ASSUME Calm' PROVE DiskCalm'
  <2>1. Calm /\ DiskCalm /\ \A p \in scene.files : ~Disk!UserAdds(p)
    BY <1>1, <1>2, <1>4, CalmBefore
  <2>2. ASSUME NEW j \in DOMAIN job, NEW want \in Settings, Disk!Submit(j, want) PROVE DiskCalm'
    BY <1>1, <2>1, <2>2, SubmitCalm
  <2>3. ASSUME NEW j \in DOMAIN job, Disk!Execute(j) PROVE DiskCalm'
    BY <1>1, <1>2, <2>1, <2>3, ExecuteCalm
  <2>4. ASSUME NEW j \in DOMAIN job, Disk!AllSourcesMissing(j) PROVE DiskCalm'
    BY <1>1, <2>1, <2>4, SourcesMissingCalm
  <2>5. ASSUME NEW j \in DOMAIN job, Disk!StartMuxing(j) PROVE DiskCalm'
    BY <1>1, <2>1, <2>5, StartMuxingCalm
  <2>6. ASSUME NEW j \in DOMAIN job, Disk!StartSidecars(j) PROVE DiskCalm'
    BY <1>1, <2>1, <2>6, StartSidecarsCalm
  <2>7. ASSUME NEW j \in DOMAIN job, Disk!Complete(j) PROVE DiskCalm'
    BY <1>1, <2>1, <2>7, CompleteCalm
  <2>8. ASSUME NEW j \in DOMAIN job, Disk!RemoveGenerated(j) PROVE DiskCalm'
    BY <1>1, <1>4, <2>1, <2>8, RemoveGeneratedCalm
  <2>9. ASSUME NEW j \in DOMAIN job, Disk!Tidy(j) PROVE DiskCalm'
    BY <1>1, <2>1, <2>9, TidyCalm
  <2>10. ASSUME NEW j \in DOMAIN job, NEW ok \in BOOLEAN, NEW op \in job[j].ops, Disk!Move(j, op, ok)
         PROVE  DiskCalm'
    BY <1>1, <2>1, <2>10, MoveCalm
  <2>11. ASSUME NEW j \in DOMAIN job, NEW ok \in BOOLEAN, NEW op \in job[j].ops, Disk!Mux(j, op, ok)
         PROVE  DiskCalm'
    <3>1. Disk!IsRemux(j)
      BY <1>1, <2>11, MuxWell
    <3> QED
      BY <2>1, <3>1 DEF Calm
  <2>12. ASSUME NEW j \in DOMAIN job, NEW ok \in BOOLEAN, NEW op \in job[j].ops, Disk!Restore(j, op, ok)
         PROVE  DiskCalm'
    BY <1>1, <2>1, <2>12, RestoreCalm
  <2>13. ASSUME NEW j \in DOMAIN job, NEW ok \in BOOLEAN, NEW s \in job[j].plan, Disk!WriteSidecar(j, s, ok)
         PROVE  DiskCalm'
    BY <1>1, <2>1, <2>13, WriteSidecarCalm
  <2>14. ASSUME NEW p \in scene.files, Disk!UserRemoves(p) PROVE DiskCalm'
    BY <1>1, <2>1, <2>14, UserRemovesCalm
  <2> QED
    BY <2>1, <2>2, <2>3, <2>4, <2>5, <2>6, <2>7, <2>8, <2>9, <2>10, <2>11, <2>12, <2>13, <2>14
       DEF Disk!JobFilesNext, Disk!JobIds
<1> QED
  BY <1>2, <1>3, <1>4 DEF DiskInv

LEMMA DiskStays == DiskInv /\ UNCHANGED diskVars => DiskInv'
<1> SUFFICES ASSUME DiskInv, UNCHANGED diskVars PROVE DiskInv'
  OBVIOUS
<1>1. /\ scene' = scene /\ disk' = disk /\ folders' = folders /\ job' = job /\ gone' = gone
      /\ intrusions' = intrusions
  BY DEF diskVars
<1>2. DiskTyped' /\ OneBusy'
  BY <1>1 DEF DiskInv, DiskTyped, OneBusy, Busy, Only
<1>3. JobsWell'
  BY <1>1, SameJob DEF DiskInv, JobsWell
<1>4. ASSUME Calm' PROVE DiskCalm'
  <2>1. DiskCalm
    BY <1>1, <1>4 DEF DiskInv, Calm, Disk!OnlyRemovals, Disk!IsRemux
  <2>2. \A k \in DOMAIN job : SameClaim(k) /\ Disk!Left(k)' = Disk!Left(k)
    BY <1>1, OthersClaim
  <2>3. Kept'
    BY <1>1, <2>1 DEF DiskCalm, Kept
  <2> QED
    BY <1>1, <2>1, <2>2, <2>3, CalmShrinks
<1> QED
  BY <1>2, <1>3, <1>4 DEF DiskInv

\* What the invariant says of the files.
LEMMA DiskTells ==
    ASSUME DiskInv PROVE Disk!JobFilesTypeOK /\ Disk!OriginalsKept
<1>1. DiskTyped /\ (Calm => DiskCalm)
  BY DEF DiskInv
<1>2. Disk!JobFilesTypeOK
  BY <1>1 DEF DiskTyped, Disk!JobFilesTypeOK
<1>3. Disk!OriginalsKept
  BY <1>1 DEF Disk!OriginalsKept, Calm, DiskCalm, Kept, Disk!JobIds
<1> QED
  BY <1>2, <1>3

LEMMA DiskInSuite == SuiteSpec => [](part = "files" => DiskInv)
<1>1. SuiteInit => (part = "files" => DiskInv)
  BY DiskStarts DEF SuiteInit
<1>2. (part = "files" => DiskInv) /\ [SuiteNext]_suiteVars
        => (part = "files" => DiskInv)'
  <2> SUFFICES ASSUME part = "files" => DiskInv, [SuiteNext]_suiteVars, part' = "files"
               PROVE  DiskInv'
    OBVIOUS
  <2>1. CASE part = "files" /\ Disk!JobFilesNext
    BY <2>1, DiskStep
  <2>2. CASE UNCHANGED suiteVars
    BY <2>2, DiskStays DEF suiteVars
  <2> QED
    BY <2>1, <2>2 DEF SuiteNext
<1> QED
  BY <1>1, <1>2, PTL DEF SuiteSpec

\* Rename jobs lose no file of the user's, for any release and output root, any
\* number of jobs, any order of their moves, sidecars and reverts, and any files the
\* user removes meanwhile: every file of the start is on the disk unless the user
\* removed it (_job_execution_filesystem.py, _job_revert.py, metadata_execution.py).
THEOREM FilesAlwaysSurvive == SuiteSpec => []FilesSurvive
<1>1. (part = "files" => DiskInv) => FilesSurvive
  BY DiskTells DEF FilesSurvive
<1> QED
  BY <1>1, DiskInSuite, PTL

-----------------------------------------------------------------------------
(***************************************************************************)
(* Reverts.  While nobody else is at work and no job writes where a file of   *)
(* the user was, the jobs owe the disk the files they moved.  A file has one  *)
(* debtor, and a debt without its file is never paid: where a file is missing, *)
(* or two jobs have their file at one place, some job is never undone.  It    *)
(* follows that a step that ends in order began in order.                     *)
(***************************************************************************)

\* The files a job has moved and not brought back; a revert in which something failed
\* counts as one that has brought back none, for it is never done.
Outstanding(j) ==
    {op \in job[j].moved : /\ ~Only(j, {"reverted"})
                           /\ (Only(j, {"restoring"}) /\ ~job[j].errors => op \in job[j].todo)}
\* What a job wrote and its revert may not have unlinked, and the directories it may
\* have left.
Outputs(j) ==
    {p \in job[j].written :
        \/ Only(j, {"muxing", "sidecars", "completed"})
        \/ Only(j, {"restoring", "revert_failed"}) /\ job[j].errors}
LeftBy(j) == {d \in Disk!Left(j) : ~Only(j, {"draft", "queued", "reverted"})}

\* Nobody else is at work, and no job wrote where a file of the user was.
Unhurt == intrusions = 0 /\ \A j \in DOMAIN job : job[j].written \cap Disk!UsersPlaces = {}
\* Each file that is outstanding is where it was moved to, and each at a place of its own.
Covered ==
    /\ \A j \in DOMAIN job : \A op \in Outstanding(j) : Disk!Exists(Disk!New(j, op))
    /\ \A j, k \in DOMAIN job : \A op \in Outstanding(j), other \in Outstanding(k) :
          Disk!New(j, op) = Disk!New(k, other) => j = k /\ op = other

\* Files are moved to places that are not the user's.
OutsideUntouched ==
    /\ \A j \in DOMAIN job : \A op \in job[j].moved : Disk!New(j, op) \notin scene.files
    /\ \A j \in DOMAIN job : \A op \in job[j].todo :
          Only(j, {"moving"}) => Disk!New(j, op) \notin scene.files
\* Every file on the disk is the user's at its place, outstanding, or written.
FilesExplained ==
    \A p \in DOMAIN disk :
       \/ p \in scene.files /\ disk[p] = p
       \/ \E j \in DOMAIN job : \E op \in Outstanding(j) : p = Disk!New(j, op)
       \/ \E j \in DOMAIN job : p \in Outputs(j)
MovesTold == \A j \in DOMAIN job : \A op \in Outstanding(j) : disk[Disk!New(j, op)] = op.src
\* Every file of the user's is at its place or outstanding.
FilesThere ==
    \A c \in scene.files :
       \/ Disk!Exists(c) /\ disk[c] = c
       \/ \E j \in DOMAIN job : \E op \in Outstanding(j) : op.src = c
\* The folders of the start are there, and any other one is left by a job.
FoldersExplained ==
    /\ Disk!FirstFolders \subseteq folders
    /\ \A d \in folders :
          d \in Disk!FirstFolders \/ \E j \in DOMAIN job : \E e \in LeftBy(j) : d \in Disk!WithParents(e)
FilesTold == FilesExplained /\ MovesTold /\ FilesThere
TreeTold == OutsideUntouched /\ FilesTold /\ FoldersExplained

UndoWell ==
    /\ disk = [p \in DOMAIN disk |-> disk[p]]
    /\ \A j \in DOMAIN job : /\ \A p \in job[j].written : p.dir.root = "out"
                             /\ Only(j, {"failed"}) => job[j].moved = {} /\ job[j].written = {}
TreeInv == UndoWell /\ (Unhurt /\ Covered => TreeTold)

\* What the jobs remember from one step to the next.
Remembers ==
    /\ scene' = scene /\ DOMAIN job' = DOMAIN job
    /\ \A k \in DOMAIN job :
          /\ job[k].moved \subseteq job'[k].moved /\ job[k].written \subseteq job'[k].written
          /\ job[k].made \subseteq job'[k].made
          /\ \A op \in job[k].moved : Disk!New(k, op)' = Disk!New(k, op)

LEMMA UnhurtBefore ==
    ASSUME Remembers, intrusions' = intrusions, Unhurt'
    PROVE  Unhurt
<1>1. Disk!UsersPlaces \subseteq Disk!UsersPlaces'
  BY DEF Remembers, Disk!UsersPlaces, Disk!JobIds
<1> QED
  BY <1>1 DEF Remembers, Unhurt

LEMMA CoveredBefore ==
    ASSUME Remembers, Covered',
           \A k \in DOMAIN job : \A op \in Outstanding(k) :
              op \in Outstanding(k)' /\ (Disk!New(k, op) \in DOMAIN disk' => Disk!New(k, op) \in DOMAIN disk)
    PROVE  Covered
<1>1. \A k \in DOMAIN job : \A op \in Outstanding(k) : Disk!New(k, op)' = Disk!New(k, op)
  BY DEF Remembers, Outstanding
<1> QED
  BY <1>1 DEF Remembers, Covered, Disk!Exists

\* A file a job moved is in the output root and was in the release folder.
LEMMA MovesLeadOut ==
    ASSUME DiskTyped, JobsWell, NEW j \in DOMAIN job, NEW op \in job[j].moved
    PROVE  /\ op \in job[j].ops /\ op.src.dir.root = "src"
           /\ Disk!New(j, op).dir.root = "out" /\ Disk!New(j, op) \in Disk!Paths
           /\ Disk!New(j, op) # op.src
<1>1. OpsWell(j) /\ op \in job[j].ops
  BY DEF JobsWell, JobWell, OpsWell, Disk!Plain
<1>2. op.src.dir.root = "src"
  BY <1>1 DEF OpsWell
<1>3. Disk!New(j, op).dir.root = "out" /\ Disk!New(j, op) \in Disk!Paths
  BY <1>1, NewPaths
<1> QED
  BY <1>1, <1>2, <1>3

\* In the release folder are the user's files only; the user's files in the output
\* root stay where they are.
LEMMA ReleaseFiles ==
    ASSUME DiskTyped, JobsWell, UndoWell, TreeTold, NEW p \in DOMAIN disk, p.dir.root = "src"
    PROVE  p \in scene.files /\ disk[p] = p
<1>1. \A j \in DOMAIN job : \A op \in Outstanding(j) : p # Disk!New(j, op)
  BY MovesLeadOut DEF Outstanding
<1>2. \A j \in DOMAIN job : p \notin Outputs(j)
  BY DEF UndoWell, Outputs
<1> QED
  BY <1>1, <1>2 DEF TreeTold, FilesTold, FilesExplained

LEMMA OutputRootFiles ==
    ASSUME DiskTyped, JobsWell, TreeTold, NEW c \in scene.files, c.dir.root = "out"
    PROVE  c \in DOMAIN disk /\ disk[c] = c
<1>1. \A j \in DOMAIN job : \A op \in Outstanding(j) : op.src # c
  BY MovesLeadOut DEF Outstanding
<1> QED
  BY <1>1 DEF TreeTold, FilesTold, FilesThere, Disk!Exists

LEMMA LeftGrows ==
    ASSUME Remembers, NEW k \in DOMAIN job,
           ~Only(k, {"draft", "queued", "reverted"}) => ~Only(k, {"draft", "queued", "reverted"})'
    PROVE  LeftBy(k) \subseteq LeftBy(k)'
<1>1. Disk!Left(k) \subseteq Disk!Left(k)'
  BY DEF Remembers, Disk!Left
<1> QED
  BY <1>1 DEF LeftBy

\* A step that leaves the files, or the folders, alone.
LEMMA FilesStay ==
    ASSUME FilesTold, Remembers, disk' = disk,
           \A k \in DOMAIN job : Outstanding(k)' = Outstanding(k) /\ Outputs(k) \subseteq Outputs(k)'
    PROVE  FilesTold'
<1>1. \A k \in DOMAIN job : \A op \in Outstanding(k) : Disk!New(k, op)' = Disk!New(k, op)
  BY DEF Remembers, Outstanding
<1>2. FilesExplained'
  BY <1>1 DEF FilesTold, FilesExplained, Remembers
<1>3. MovesTold'
  BY <1>1 DEF FilesTold, MovesTold, Remembers
<1>4. FilesThere'
  BY DEF FilesTold, FilesThere, Remembers, Disk!Exists
<1> QED
  BY <1>2, <1>3, <1>4 DEF FilesTold

LEMMA FoldersStay ==
    ASSUME FoldersExplained, Remembers, folders' = folders,
           \A k \in DOMAIN job : LeftBy(k) \subseteq LeftBy(k)'
    PROVE  FoldersExplained'
<1>1. Disk!FirstFolders' = Disk!FirstFolders
  BY DEF Remembers, Disk!FirstFolders
<1> QED
  BY <1>1 DEF FoldersExplained, Remembers

\* A step after which a job has made a folder.
LEMMA FoldersGrow ==
    ASSUME FoldersExplained, Remembers, NEW j \in DOMAIN job, NEW d \in LeftBy(j)',
           folders' = folders \union Disk!WithParents(d),
           \A k \in DOMAIN job : LeftBy(k) \subseteq LeftBy(k)'
    PROVE  FoldersExplained'
<1>1. Disk!FirstFolders' = Disk!FirstFolders
  BY DEF Remembers, Disk!FirstFolders
<1> QED
  BY <1>1 DEF FoldersExplained, Remembers

LEMMA OutsideStays ==
    ASSUME OutsideUntouched, Remembers,
           \A k \in DOMAIN job :
              /\ job'[k].moved = job[k].moved
              /\ Only(k, {"moving"})' => Only(k, {"moving"}) /\ job'[k].remap = job[k].remap
                                         /\ job'[k].todo \subseteq job[k].todo
    PROVE  OutsideUntouched'
<1>1. \A k \in DOMAIN job : \A op \in job'[k].moved : Disk!New(k, op)' \notin scene.files
  BY DEF OutsideUntouched, Remembers
<1>2. \A k \in DOMAIN job : \A op \in job'[k].todo :
         Only(k, {"moving"})' => Disk!New(k, op)' \notin scene.files
  BY DEF OutsideUntouched, Remembers, Disk!New
<1> QED
  BY <1>1, <1>2 DEF OutsideUntouched, Remembers

\* The outcomes of a step, one at a time: it began in order, and ends in order.
Ordered == Unhurt /\ Covered
Ends == Ordered' => TreeTold'

\* A step that leaves the disk alone and settles no file.
LEMMA QuietEnds ==
    ASSUME TreeInv, Remembers, disk' = disk, folders' = folders, intrusions' = intrusions,
           Ordered => OutsideUntouched',
           \A k \in DOMAIN job : /\ Outstanding(k)' = Outstanding(k) /\ Outputs(k) \subseteq Outputs(k)'
                                 /\ LeftBy(k) \subseteq LeftBy(k)'
    PROVE  Ends
<1> SUFFICES ASSUME Ordered' PROVE TreeTold'
  BY DEF Ends
<1>1. Ordered
  BY UnhurtBefore, CoveredBefore DEF Ordered
<1>2. TreeTold
  BY <1>1 DEF TreeInv, Ordered
<1> QED
  BY <1>1, <1>2, FilesStay, FoldersStay DEF TreeTold

\* Jobs other than the one that takes a step.
LEMMA OthersRemember ==
    ASSUME NEW j \in DOMAIN job, OnlyOf(j), scene' = scene, NEW k \in DOMAIN job, k # j
    PROVE  /\ Outstanding(k)' = Outstanding(k) /\ Outputs(k)' = Outputs(k) /\ LeftBy(k)' = LeftBy(k)
           /\ job'[k] = job[k] /\ \A op : Disk!New(k, op)' = Disk!New(k, op)
<1>1. job'[k] = job[k] /\ \A op : Disk!New(k, op)' = Disk!New(k, op)
  BY DEF OnlyOf, Disk!New
<1>2. Disk!Left(k)' = Disk!Left(k)
  BY <1>1 DEF Disk!Left
<1> QED
  BY <1>1, <1>2 DEF Outstanding, Outputs, LeftBy, Only

\* A step in which a job keeps what it is to undo.
LEMMA UndoKept ==
    ASSUME NEW j \in DOMAIN job, OnlyOf(j), scene' = scene,
           job[j].moved \subseteq job'[j].moved, job[j].made \subseteq job'[j].made,
           job[j].written \subseteq job'[j].written,
           job'[j].remap = job[j].remap \/ job[j].moved = {}
    PROVE  Remembers
<1>1. \A op \in job[j].moved : Disk!New(j, op)' = Disk!New(j, op)
  BY DEF Disk!New
<1> QED
  BY <1>1, OthersRemember DEF Remembers, OnlyOf

LEMMA SubmitEnds ==
    ASSUME DiskTyped, JobsWell, TreeInv, NEW j \in DOMAIN job, NEW want \in Settings, Disk!Submit(j, want)
    PROVE  Ends
<1>1. /\ OnlyOf(j) /\ scene' = scene /\ Only(j, {"draft"}) /\ job'[j].stage = "queued"
      /\ job'[j].moved = {} /\ job'[j].written = {} /\ job'[j].made = {}
  BY SubmitWell
<1>2. job[j].moved = {} /\ job[j].written = {} /\ job[j].made = {}
  BY <1>1 DEF JobsWell, JobWell, StageWell, Only
<1>3. Remembers /\ disk' = disk /\ folders' = folders /\ intrusions' = intrusions
  BY <1>1, <1>2, UndoKept DEF Disk!Submit
<1>4. /\ Outstanding(j)' = Outstanding(j) /\ Outputs(j) \subseteq Outputs(j)'
      /\ LeftBy(j) \subseteq LeftBy(j)'
  BY <1>1, <1>2 DEF Outstanding, Outputs, LeftBy, Only
<1>5. ASSUME Ordered PROVE OutsideUntouched'
  <2>1. \A k \in DOMAIN job : /\ job'[k].moved = job[k].moved
                              /\ Only(k, {"moving"})' => Only(k, {"moving"}) /\ job'[k] = job[k]
    BY <1>1, <1>2 DEF OnlyOf, Only
  <2>2. OutsideUntouched
    BY <1>5 DEF TreeInv, Ordered, TreeTold
  <2> QED
    BY <1>3, <2>1, <2>2, OutsideStays
<1> QED
  BY <1>1, <1>3, <1>4, <1>5, OthersRemember, QuietEnds

\* A step of a job that keeps what it is to undo, on the way to its end.
LEMMA StageEnds ==
    ASSUME TreeInv, NEW j \in DOMAIN job, KeepsUndo(j),
           disk' = disk, folders' = folders, intrusions' = intrusions,
           ~Only(j, {"moving"})', ~Only(j, {"draft", "queued", "reverted"})',
           Outstanding(j)' = Outstanding(j), Outputs(j) \subseteq Outputs(j)'
    PROVE  Ends
<1>1. Remembers /\ OnlyOf(j) /\ scene' = scene
  BY UndoKept DEF KeepsUndo, Keeps
<1>2. LeftBy(j) \subseteq LeftBy(j)'
  BY <1>1, LeftGrows
<1>3. ASSUME Ordered PROVE OutsideUntouched'
  <2>1. \A k \in DOMAIN job : /\ job'[k].moved = job[k].moved
                              /\ Only(k, {"moving"})' => Only(k, {"moving"}) /\ job'[k] = job[k]
    BY DEF KeepsUndo, Keeps, OnlyOf, Only
  <2>2. OutsideUntouched
    BY <1>3 DEF TreeInv, Ordered, TreeTold
  <2> QED
    BY <1>1, <2>1, <2>2, OutsideStays
<1> QED
  BY <1>1, <1>2, <1>3, OthersRemember, QuietEnds

LEMMA SourcesMissingEnds ==
    ASSUME DiskTyped, JobsWell, TreeInv, NEW j \in DOMAIN job, Disk!AllSourcesMissing(j)
    PROVE  Ends
<1>1. KeepsUndo(j) /\ job'[j].stage = "failed" /\ Only(j, {"queued"})
  BY SourcesMissingWell DEF Disk!AllSourcesMissing, Disk!Stage, Only
<1>2. job[j].moved = {} /\ job[j].written = {}
  BY <1>1 DEF JobsWell, JobWell, StageWell, Only
<1>3. Outstanding(j)' = Outstanding(j) /\ Outputs(j) \subseteq Outputs(j)'
  BY <1>1, <1>2 DEF Outstanding, Outputs, KeepsUndo
<1> QED
  BY <1>1, <1>3, StageEnds DEF Disk!AllSourcesMissing, Only

LEMMA StartMuxingEnds ==
    ASSUME DiskTyped, JobsWell, TreeInv, NEW j \in DOMAIN job, Disk!StartMuxing(j)
    PROVE  Ends
<1>1. KeepsUndo(j) /\ Only(j, {"moving"}) /\ job'[j].stage = "muxing"
  BY StartMuxingWell
<1>2. Outstanding(j)' = Outstanding(j) /\ Outputs(j) \subseteq Outputs(j)'
  BY <1>1 DEF Outstanding, Outputs, KeepsUndo, Only
<1> QED
  BY <1>1, <1>2, StageEnds DEF Disk!StartMuxing, Only

LEMMA StartSidecarsEnds ==
    ASSUME DiskTyped, JobsWell, TreeInv, NEW j \in DOMAIN job, Disk!StartSidecars(j)
    PROVE  Ends
<1>1. KeepsUndo(j) /\ Only(j, {"muxing"}) /\ job'[j].stage = "sidecars"
  BY StartSidecarsWell
<1>2. Outstanding(j)' = Outstanding(j) /\ Outputs(j) \subseteq Outputs(j)'
  BY <1>1 DEF Outstanding, Outputs, KeepsUndo, Only
<1> QED
  BY <1>1, <1>2, StageEnds DEF Disk!StartSidecars, Only

\* A job that ends as failed did nothing.
LEMMA FailedDidNothing ==
    ASSUME DiskTyped, NEW j \in DOMAIN job, Disk!Complete(j), job'[j].stage = "failed"
    PROVE  job[j].written = {} /\ job[j].moved = {}
<1> DEFINE end == IF Disk!NothingDone(j) /\ job[j].errors THEN "failed" ELSE "completed"
<1>1. job' = [job EXCEPT ![j] = [job[j] EXCEPT !.stage = end]] /\ job[j] \in Disk!Jobs
  BY DEF Disk!Complete, DiskTyped
<1>2. end = "failed" => job[j].written = {} /\ job[j].moved = {}
  BY DEF Disk!NothingDone
<1> HIDE DEF end
<1>3. job'[j].stage = end
  BY <1>1 DEF Disk!Jobs
<1> QED
  BY <1>2, <1>3

LEMMA CompleteEnds ==
    ASSUME DiskTyped, JobsWell, TreeInv, NEW j \in DOMAIN job, Disk!Complete(j)
    PROVE  Ends
<1>1. KeepsUndo(j) /\ Only(j, {"sidecars"}) /\ job'[j].stage \in {"failed", "completed"}
  BY CompleteWell
<1>2. job'[j].stage = "failed" => job[j].written = {} /\ job[j].moved = {}
  BY FailedDidNothing
<1>4. Outstanding(j)' = Outstanding(j) /\ Outputs(j) \subseteq Outputs(j)'
  BY <1>1, <1>2 DEF Outstanding, Outputs, KeepsUndo, Only
<1> QED
  BY <1>1, <1>4, StageEnds DEF Disk!Complete, Only

\* A plan is carried out only where none of its targets is taken.
LEMMA ExecuteEnds ==
    ASSUME DiskTyped, JobsWell, TreeInv, NEW j \in DOMAIN job, Disk!Execute(j)
    PROVE  Ends
<1>1. /\ OnlyOf(j) /\ scene' = scene /\ Only(j, {"queued"}) /\ job'[j].stage \in {"failed", "moving"}
      /\ job'[j].ops = job[j].ops /\ job'[j].remap = Disk!RemapFor(j)
      /\ job'[j].moved = {} /\ job'[j].written = {} /\ job'[j].made = {}
  BY ExecuteWell
<1>2. job[j].moved = {} /\ job[j].written = {} /\ job[j].made = {}
  BY <1>1 DEF JobsWell, JobWell, StageWell, Only
<1>3. Remembers /\ disk' = disk /\ folders' = folders /\ intrusions' = intrusions
  BY <1>1, <1>2, UndoKept DEF Disk!Execute
<1>4. /\ Outstanding(j)' = Outstanding(j) /\ Outputs(j) \subseteq Outputs(j)'
      /\ LeftBy(j) \subseteq LeftBy(j)'
  BY <1>1, <1>2 DEF Outstanding, Outputs, LeftBy, Only
<1>5. ASSUME Ordered PROVE OutsideUntouched'
  <2>1. TreeTold
    BY <1>5 DEF TreeInv, Ordered
  <2>2. ASSUME NEW op \in job'[j].todo, Only(j, {"moving"})' PROVE Disk!New(j, op)' \notin scene.files
    <3>1. op \in Disk!Present(j) /\ ~Disk!Wrong(j, Disk!RemapFor(j))
      <4> DEFINE n == Disk!RemapFor(j)
                 todo == IF Disk!Wrong(j, n) THEN {} ELSE Disk!Present(j)
                 end == IF Disk!Wrong(j, n) /\ ~Disk!IsRemux(j) THEN "failed" ELSE "moving"
                 wrong == Disk!Wrong(j, n)
      <4>1. op \in todo => op \in Disk!Present(j) /\ ~Disk!Wrong(j, n)
        OBVIOUS
      <4>2. /\ job' = [job EXCEPT ![j] = [job[j] EXCEPT !.remap = n, !.errors = wrong,
                                                     !.todo = todo, !.stage = end]]
            /\ job[j] \in Disk!Jobs
        BY DEF Disk!Execute, DiskTyped
      <4> HIDE DEF n, todo, end, wrong
      <4>3. job'[j].todo = todo
        BY <4>2 DEF Disk!Jobs
      <4> QED
        BY <2>2, <4>1, <4>3 DEF n
    <3>2. ~Disk!Exists(Disk!Target(op, Disk!RemapFor(j)))
      BY <3>1 DEF Disk!Wrong
    <3>3. Disk!New(j, op)' = Disk!Target(op, Disk!RemapFor(j)) /\ Disk!New(j, op)' \notin DOMAIN disk
      BY <1>1, <3>2 DEF Disk!New, Disk!Exists
    <3>4. op \in job'[j].ops /\ j \in DOMAIN job'
      BY <1>1, <3>1 DEF Disk!Present, Disk!Plain, OnlyOf
    <3>5. Disk!New(j, op)'.dir.root = "out"
      <4>1. InShow(j, op.dir) /\ op \in Disk!Ops
        BY <3>1, <3>4 DEF JobsWell, JobWell, OpsWell, DiskTyped, Disk!Jobs, Disk!Present, Disk!Plain
      <4>2. Disk!RemapFor(j) \in Nat
        BY FreshNumber DEF Disk!RemapFor
      <4> QED
        BY <3>3, <4>1, <4>2, RemappedDirs DEF Disk!Target, Disk!File, Disk!Ops
    <3> QED
      BY <2>1, <3>3, <3>5, OutputRootFiles
  <2>3. \A k \in DOMAIN job : job'[k].moved = job[k].moved
    BY <1>1, <1>2 DEF OnlyOf
  <2>4. \A k \in DOMAIN job : \A op \in job'[k].moved : Disk!New(k, op)' \notin scene.files
    BY <1>3, <2>1, <2>3 DEF TreeTold, OutsideUntouched, Remembers
  <2>5. \A k \in DOMAIN job : \A op \in job'[k].todo :
           Only(k, {"moving"})' => Disk!New(k, op)' \notin scene.files
    BY <1>1, <2>1, <2>2, OthersRemember DEF TreeTold, OutsideUntouched, Only
  <2> QED
    BY <1>3, <2>4, <2>5 DEF OutsideUntouched, Remembers
<1> QED
  BY <1>1, <1>3, <1>4, <1>5, OthersRemember, QuietEnds

\* What a move leaves of the job's record.
LEMMA MoveRecord ==
    ASSUME DiskTyped, JobsWell, NEW j \in DOMAIN job, NEW op \in job[j].ops, NEW ok \in BOOLEAN,
           Disk!Move(j, op, ok)
    PROVE  /\ op \in job[j].todo /\ job'[j].todo = job[j].todo \ {op}
           /\ job'[j].made = job[j].made \union ({Disk!New(j, op).dir} \ folders)
<1>1. job[j] \in Disk!Jobs /\ op \in job[j].todo
  BY DEF DiskTyped, Disk!Move
<1> DEFINE todo == job[j].todo \ {op}
           made == job[j].made \union ({Disk!New(j, op).dir} \ folders)
           moved == job[j].moved \union {op}
<1>2. \/ job' = [job EXCEPT ![j] = [job[j] EXCEPT !.todo = todo, !.moved = moved, !.made = made]]
      \/ job' = [job EXCEPT ![j] = [job[j] EXCEPT !.todo = todo, !.errors = TRUE, !.made = made]]
  BY <1>1 DEF Disk!Move, Disk!Jobs
<1> HIDE DEF todo, made, moved
<1>3. job'[j].todo = todo /\ job'[j].made = made
  BY <1>1, <1>2 DEF Disk!Jobs
<1> QED
  BY <1>1, <1>3 DEF todo, made

\* A directory that is there is explained, and so is the one above it.
LEMMA FoldersAbove ==
    ASSUME DiskTyped, JobsWell, FoldersExplained, NEW d \in folders
    PROVE  \/ Disk!WithParents(d) \subseteq Disk!FirstFolders
           \/ \E j \in DOMAIN job : \E e \in LeftBy(j) : Disk!WithParents(d) \subseteq Disk!WithParents(e)
<1>1. ASSUME NEW e, d \in Disk!WithParents(e) PROVE Disk!WithParents(d) \subseteq Disk!WithParents(e)
  <2>1. d = e \/ d = [e EXCEPT !.sub = 0]
    BY <1>1 DEF Disk!WithParents, Disk!Top
  <2>2. CASE d = e
    BY <2>2
  <2>3. CASE d = [e EXCEPT !.sub = 0]
    <3>1. [d EXCEPT !.sub = 0] = d
      BY <2>3 DEF DiskTyped, Disk!Dirs
    <3> QED
      BY <1>1, <3>1 DEF Disk!WithParents, Disk!Top
  <2> QED
    BY <2>1, <2>2, <2>3
<1>2. CASE d \in Disk!FirstFolders
  <2>1. PICK p \in scene.files : p.dir.root = "out" /\ d \in Disk!WithParents(p.dir)
    BY <1>2 DEF Disk!FirstFolders
  <2>2. Disk!WithParents(d) \subseteq Disk!WithParents(p.dir)
    BY <1>1, <2>1
  <2>3. Disk!WithParents(p.dir) \subseteq Disk!FirstFolders
    BY <2>1 DEF Disk!FirstFolders
  <2> QED
    BY <2>2, <2>3
<1>3. CASE \E j \in DOMAIN job : \E e \in LeftBy(j) : d \in Disk!WithParents(e)
  BY <1>1, <1>3
<1> QED
  BY <1>2, <1>3 DEF FoldersExplained

LEMMA MoveEnds ==
    ASSUME DiskTyped, JobsWell, TreeInv, NEW j \in DOMAIN job, NEW op \in job[j].ops, NEW ok \in BOOLEAN,
           Disk!Move(j, op, ok)
    PROVE  Ends
<1> DEFINE to == Disk!New(j, op)
           done == ok /\ Disk!Exists(op.src)
<1> SUFFICES ASSUME Ordered' PROVE TreeTold'
  BY DEF Ends
<1>1. /\ Keeps(j) /\ Only(j, {"moving"}) /\ job'[j].stage = "moving"
      /\ op \in Disk!Plain(j) \ job[j].moved /\ job[j].written = {} /\ job'[j].written = {}
      /\ job'[j].moved = IF done THEN job[j].moved \union {op} ELSE job[j].moved
  BY MoveWell
<1>2. /\ op \in job[j].todo /\ job'[j].todo = job[j].todo \ {op}
      /\ job'[j].made = job[j].made \union ({to.dir} \ folders)
  BY MoveRecord
<1>3. /\ intrusions' = intrusions /\ scene' = scene /\ OnlyOf(j)
      /\ folders' = folders \union Disk!WithParents(to.dir)
  BY <1>1 DEF Disk!Move, Keeps
<1>4. Remembers /\ Disk!New(j, op)' = to /\ \A k \in DOMAIN job : \A o : Disk!New(k, o)' = Disk!New(k, o)
  <2>1. \A o : Disk!New(j, o)' = Disk!New(j, o)
    BY <1>1 DEF Keeps, Disk!New
  <2>2. job[j].moved \subseteq job'[j].moved /\ job[j].made \subseteq job'[j].made
        /\ job[j].written \subseteq job'[j].written /\ job'[j].remap = job[j].remap
    BY <1>1, <1>2 DEF Keeps
  <2>3. Remembers
    BY <1>3, <2>2, UndoKept
  <2>4. \A k \in DOMAIN job : k # j => \A o : Disk!New(k, o)' = Disk!New(k, o)
    BY <1>3, OthersRemember
  <2> QED
    BY <2>1, <2>3, <2>4
<1>5. OpsWell(j) /\ op.src.dir.root = "src" /\ to.dir.root = "out" /\ to \in Disk!Paths
  BY NewPaths DEF JobsWell, JobWell, OpsWell
<1>6. \A k \in DOMAIN job : LeftBy(k) \subseteq LeftBy(k)' /\ Outputs(k)' = Outputs(k)
  <2>1. LeftBy(j) \subseteq LeftBy(j)'
    BY <1>1, <1>4, LeftGrows DEF Only
  <2>2. Outputs(j)' = Outputs(j)
    BY <1>1 DEF Outputs
  <2> QED
    BY <1>3, <2>1, <2>2, OthersRemember
<1>7. Outstanding(j) = job[j].moved /\ Outstanding(j)' = job'[j].moved
  BY <1>1 DEF Outstanding, Only
<1>8. CASE ~done
  <2>1. disk' = disk
    BY <1>8 DEF Disk!Move
  <2>2. \A k \in DOMAIN job : Outstanding(k)' = Outstanding(k)
    BY <1>1, <1>3, <1>7, <1>8, OthersRemember
  <2>3. Ordered /\ TreeTold
    <3>1. Ordered
      BY <1>3, <1>4, <2>1, <2>2, UnhurtBefore, CoveredBefore DEF Ordered
    <3> QED
      BY <3>1 DEF TreeInv, Ordered
  <2>4. OutsideUntouched'
    <3>1. \A k \in DOMAIN job : job'[k].moved = job[k].moved /\ job'[k].remap = job[k].remap
                                /\ job'[k].todo \subseteq job[k].todo
                                /\ (Only(k, {"moving"})' => Only(k, {"moving"}))
      BY <1>1, <1>2, <1>8 DEF Keeps, OnlyOf, Only
    <3> QED
      BY <1>4, <2>3, <3>1, OutsideStays DEF TreeTold
  <2>5. FilesTold'
    BY <1>4, <1>6, <2>1, <2>2, <2>3, FilesStay DEF TreeTold
  <2>6. FoldersExplained'
    <3>1. CASE to.dir \in folders
      <4>1. \/ Disk!WithParents(to.dir) \subseteq Disk!FirstFolders
            \/ \E k \in DOMAIN job : \E e \in LeftBy(k) : Disk!WithParents(to.dir) \subseteq Disk!WithParents(e)
        BY <2>3, <3>1, FoldersAbove DEF TreeTold
      <4>2. Disk!FirstFolders' = Disk!FirstFolders
        BY <1>3 DEF Disk!FirstFolders
      <4> HIDE DEF to
      <4> HIDE DEF done
      <4>3. \A d \in folders' :
               d \in Disk!FirstFolders \/ \E k \in DOMAIN job : \E e \in LeftBy(k)' : d \in Disk!WithParents(e)
        <5> SUFFICES ASSUME NEW d \in folders'
                     PROVE  d \in Disk!FirstFolders \/ \E k \in DOMAIN job : \E e \in LeftBy(k)' : d \in Disk!WithParents(e)
          OBVIOUS
        <5>1. CASE d \in folders
          BY <1>6, <2>3, <5>1 DEF TreeTold, FoldersExplained
        <5>2. CASE d \in Disk!WithParents(to.dir)
          BY <1>6, <4>1, <5>2
        <5> QED
          BY <1>3, <5>1, <5>2
      <4> QED
        BY <1>3, <2>3, <4>2, <4>3 DEF TreeTold, FoldersExplained, OnlyOf
    <3>2. CASE to.dir \notin folders
      <4>1. to.dir \in LeftBy(j)'
        BY <1>1, <1>2, <3>2 DEF LeftBy, Disk!Left, Only
      <4> HIDE DEF to
      <4> QED
        BY <1>3, <1>4, <1>6, <2>3, <4>1, FoldersGrow DEF TreeTold
    <3> QED
      BY <3>1, <3>2
  <2> QED
    BY <2>4, <2>5, <2>6 DEF TreeTold
<1>9. CASE done
  <2>1. disk' = Disk!Moved(disk, op.src, to) /\ op.src \in DOMAIN disk
    BY <1>9 DEF Disk!Move, Disk!Exists
  <2>2. to # op.src
    BY <1>5
  <2>3. Outstanding(j)' = Outstanding(j) \union {op} /\ op \notin Outstanding(j)
    BY <1>1, <1>7, <1>9
  <2>4. \A k \in DOMAIN job : k # j => Outstanding(k)' = Outstanding(k)
    BY <1>3, OthersRemember
  <2>5. \A k \in DOMAIN job : \A o \in Outstanding(k) :
           Disk!New(k, o) # to /\ Disk!New(k, o) # op.src /\ o \in Outstanding(k)'
    <3> TAKE k \in DOMAIN job
    <3> TAKE o \in Outstanding(k)
    <3>1. o \in Outstanding(k)' /\ ~(k = j /\ o = op)
      BY <2>3, <2>4
    <3>2. Disk!New(k, o) # to
      BY <1>3, <1>4, <2>3, <3>1 DEF Ordered, Covered, OnlyOf
    <3>3. Disk!New(k, o).dir.root = "out"
      BY MovesLeadOut DEF Outstanding
    <3> QED
      BY <1>5, <3>1, <3>2, <3>3
  <2> HIDE DEF to, done
  <2>6. /\ DOMAIN disk' = (DOMAIN disk \ {op.src}) \union {to} /\ disk'[to] = disk[op.src]
        /\ \A p \in DOMAIN disk : p # op.src /\ p # to => disk'[p] = disk[p]
    BY <2>1, <2>2 DEF Disk!Moved, Disk!With, Disk!Without
  <2>7. Ordered /\ TreeTold
    <3>1. \A k \in DOMAIN job : \A o \in Outstanding(k) :
             o \in Outstanding(k)' /\ (Disk!New(k, o) \in DOMAIN disk' => Disk!New(k, o) \in DOMAIN disk)
      BY <2>5, <2>6
    <3>2. Ordered
      BY <1>3, <1>4, <3>1, UnhurtBefore, CoveredBefore DEF Ordered
    <3> QED
      BY <3>2 DEF TreeInv, Ordered
  <2>8. op.src \in scene.files /\ disk[op.src] = op.src
    BY <1>5, <2>1, <2>7, ReleaseFiles DEF TreeInv
  <2>9. to \notin scene.files
    BY <1>1, <1>2, <2>7 DEF TreeTold, OutsideUntouched, to
  <2>10. OutsideUntouched'
    <3>1. \A k \in DOMAIN job : \A o \in job'[k].moved : Disk!New(k, o)' \notin scene.files
      <4> SUFFICES ASSUME NEW k \in DOMAIN job, NEW o \in job'[k].moved PROVE Disk!New(k, o) \notin scene.files
        BY <1>4
      <4>1. o \in job[k].moved \/ (k = j /\ o = op)
        BY <1>1, <1>3 DEF OnlyOf
      <4> QED
        BY <2>7, <2>9, <4>1 DEF TreeTold, OutsideUntouched, to
    <3>2. \A k \in DOMAIN job : \A o \in job'[k].todo :
             Only(k, {"moving"})' => Disk!New(k, o)' \notin scene.files
      <4> SUFFICES ASSUME NEW k \in DOMAIN job, NEW o \in job'[k].todo, Only(k, {"moving"})'
                   PROVE  Disk!New(k, o) \notin scene.files
        BY <1>4
      <4>1. o \in job[k].todo /\ Only(k, {"moving"})
        BY <1>1, <1>2, <1>3 DEF OnlyOf, Only
      <4> QED
        BY <2>7, <4>1 DEF TreeTold, OutsideUntouched
    <3> QED
      BY <1>3, <3>1, <3>2 DEF OutsideUntouched, OnlyOf
  <2>11. FilesExplained'
    <3> SUFFICES ASSUME NEW p \in DOMAIN disk'
                 PROVE  \/ p \in scene.files /\ disk'[p] = p
                        \/ \E k \in DOMAIN job : \E o \in Outstanding(k)' : p = Disk!New(k, o)
                        \/ \E k \in DOMAIN job : p \in Outputs(k)
      BY <1>3, <1>4, <1>6 DEF FilesExplained, OnlyOf
    <3>1. CASE p = to
      BY <2>3, <3>1 DEF to
    <3>2. CASE p # to
      <4>1. p \in DOMAIN disk /\ disk'[p] = disk[p]
        BY <2>6, <3>2
      <4> QED
        BY <2>5, <2>7, <4>1 DEF TreeTold, FilesTold, FilesExplained
    <3> QED
      BY <3>1, <3>2
  <2>12. MovesTold'
    <3> SUFFICES ASSUME NEW k \in DOMAIN job, NEW o \in Outstanding(k)'
                 PROVE  disk'[Disk!New(k, o)] = o.src
      BY <1>3, <1>4 DEF MovesTold, OnlyOf
    <3>1. CASE k = j /\ o = op
      BY <2>6, <2>8, <3>1 DEF to
    <3>2. CASE ~(k = j /\ o = op)
      <4>1. o \in Outstanding(k)
        BY <2>3, <2>4, <3>2
      <4>2. Disk!New(k, o) \in DOMAIN disk /\ disk[Disk!New(k, o)] = o.src
        BY <2>7, <4>1 DEF TreeTold, FilesTold, MovesTold, Ordered, Covered, Disk!Exists
      <4> QED
        BY <2>5, <2>6, <4>1, <4>2
    <3> QED
      BY <3>1, <3>2
  <2>13. FilesThere'
    <3> SUFFICES ASSUME NEW c \in scene.files
                 PROVE  \/ c \in DOMAIN disk' /\ disk'[c] = c
                        \/ \E k \in DOMAIN job : \E o \in Outstanding(k)' : o.src = c
      BY <1>3 DEF FilesThere, OnlyOf, Disk!Exists
    <3>1. CASE c = op.src
      BY <2>3, <3>1
    <3>2. CASE c # op.src
      <4>1. \/ c \in DOMAIN disk /\ disk[c] = c
            \/ \E k \in DOMAIN job : \E o \in Outstanding(k) : o.src = c
        BY <2>7 DEF TreeTold, FilesTold, FilesThere, Disk!Exists
      <4> QED
        BY <2>5, <2>6, <2>9, <3>2, <4>1
    <3> QED
      BY <3>1, <3>2
  <2>14. FoldersExplained'
    <3>1. op \in job'[j].moved
      BY <1>1, <1>9
    <3>2. to.dir \in LeftBy(j)'
      BY <1>1, <1>4, <3>1 DEF LeftBy, Disk!Left, Only
    <3> QED
      BY <1>3, <1>4, <1>6, <2>7, <3>2, FoldersGrow DEF TreeTold
  <2> QED
    BY <2>10, <2>11, <2>12, <2>13, <2>14 DEF TreeTold, FilesTold
<1> QED
  BY <1>8, <1>9

\* A file that a job writes is its own to unlink.
LEMMA WrittenEnds ==
    ASSUME TreeInv, NEW j \in DOMAIN job, NEW at, NEW c,
           OnlyOf(j), scene' = scene, intrusions' = intrusions,
           job'[j].remap = job[j].remap, job'[j].moved = job[j].moved, job'[j].made = job[j].made,
           job'[j].written = job[j].written \union {at},
           Only(j, {"muxing", "sidecars"}), Only(j, {"muxing", "sidecars"})',
           disk' = Disk!With(disk, at, c), folders' = folders \union Disk!WithParents(at.dir)
    PROVE  Ends
<1> SUFFICES ASSUME Ordered' PROVE TreeTold'
  BY DEF Ends
<1>1. Remembers
  BY UndoKept
<1>2. Outstanding(j)' = Outstanding(j) /\ Outputs(j)' = Outputs(j) \union {at}
  BY DEF Outstanding, Outputs, Only
<1>3. \A k \in DOMAIN job : /\ Outstanding(k)' = Outstanding(k) /\ Outputs(k) \subseteq Outputs(k)'
                            /\ LeftBy(k) \subseteq LeftBy(k)'
  <2>1. LeftBy(j) \subseteq LeftBy(j)'
    BY <1>1, LeftGrows DEF Only
  <2> QED
    BY <1>2, <2>1, OthersRemember
<1>4. at \notin scene.files /\ \A k \in DOMAIN job : \A op \in Outstanding(k) : Disk!New(k, op) # at
  <2>1. at \notin Disk!UsersPlaces'
    BY <1>1 DEF Ordered, Unhurt, Remembers
  <2>2. \A k \in DOMAIN job : \A op \in Outstanding(k) :
           op \in job'[k].moved /\ Disk!New(k, op)' = Disk!New(k, op)
    BY <1>1 DEF Remembers, Outstanding
  <2> QED
    BY <1>1, <2>1, <2>2 DEF Disk!UsersPlaces, Disk!JobIds, Remembers
<1>5. /\ DOMAIN disk' = DOMAIN disk \union {at}
      /\ \A p \in DOMAIN disk : p # at => disk'[p] = disk[p]
  BY DEF Disk!With
<1>6. Ordered /\ TreeTold
  <2>1. \A k \in DOMAIN job : \A op \in Outstanding(k) :
           op \in Outstanding(k)' /\ (Disk!New(k, op) \in DOMAIN disk' => Disk!New(k, op) \in DOMAIN disk)
    BY <1>3, <1>4, <1>5
  <2>2. Ordered
    BY <1>1, <2>1, UnhurtBefore, CoveredBefore DEF Ordered
  <2> QED
    BY <2>2 DEF TreeInv, Ordered
<1>7. \A k \in DOMAIN job : \A op \in Outstanding(k) : Disk!New(k, op)' = Disk!New(k, op)
  BY <1>1 DEF Remembers, Outstanding
<1>8. OutsideUntouched'
  <2>1. \A k \in DOMAIN job : job'[k].moved = job[k].moved
                              /\ (Only(k, {"moving"})' => Only(k, {"moving"}) /\ job'[k] = job[k])
    BY DEF OnlyOf, Only
  <2> QED
    BY <1>1, <1>6, <2>1, OutsideStays DEF TreeTold
<1>9. FilesExplained'
  <2> SUFFICES ASSUME NEW p \in DOMAIN disk'
               PROVE  \/ p \in scene.files /\ disk'[p] = p
                      \/ \E k \in DOMAIN job : \E op \in Outstanding(k) : p = Disk!New(k, op)
                      \/ \E k \in DOMAIN job : p \in Outputs(k)'
    BY <1>1, <1>3, <1>7 DEF FilesExplained, Remembers
  <2>1. CASE p = at
    BY <1>2, <2>1
  <2>2. CASE p # at
    BY <1>3, <1>5, <1>6, <2>2 DEF TreeTold, FilesTold, FilesExplained
  <2> QED
    BY <2>1, <2>2
<1>10. MovesTold'
  <2> SUFFICES ASSUME NEW k \in DOMAIN job, NEW op \in Outstanding(k)
               PROVE  disk'[Disk!New(k, op)] = op.src
    BY <1>1, <1>3, <1>7 DEF MovesTold, Remembers
  <2>1. Disk!New(k, op) \in DOMAIN disk /\ disk[Disk!New(k, op)] = op.src
    BY <1>6 DEF TreeTold, FilesTold, MovesTold, Ordered, Covered, Disk!Exists
  <2> QED
    BY <1>4, <1>5, <2>1
<1>11. FilesThere'
  <2> SUFFICES ASSUME NEW f \in scene.files
               PROVE  \/ f \in DOMAIN disk' /\ disk'[f] = f
                      \/ \E k \in DOMAIN job : \E op \in Outstanding(k) : op.src = f
    BY <1>1, <1>3 DEF FilesThere, Remembers, Disk!Exists
  <2> QED
    BY <1>4, <1>5, <1>6 DEF TreeTold, FilesTold, FilesThere, Disk!Exists
<1>12. FoldersExplained'
  <2>1. at.dir \in LeftBy(j)'
    BY DEF LeftBy, Disk!Left, Only
  <2> QED
    BY <1>1, <1>3, <1>6, <2>1, FoldersGrow DEF TreeTold
<1> QED
  BY <1>8, <1>9, <1>10, <1>11, <1>12 DEF TreeTold, FilesTold

LEMMA MuxEnds ==
    ASSUME DiskTyped, JobsWell, TreeInv, NEW j \in DOMAIN job, NEW op \in job[j].ops, NEW ok \in BOOLEAN,
           Disk!Mux(j, op, ok)
    PROVE  Ends
<1> DEFINE new == Disk!Target(op, 0)
           done == ok /\ Disk!Exists(op.src) /\ ~Disk!Exists(new)
           todo == job[j].todo \ {op}
           written == job[j].written \union {new}
<1>1. /\ Keeps(j) /\ OnlyOf(j) /\ scene' = scene
      /\ intrusions' = intrusions /\ Only(j, {"muxing"}) /\ job[j] \in Disk!Jobs
  BY MuxWell DEF Keeps, Disk!Mux, Disk!Stage, Only, DiskTyped
<1>2. CASE done
  <2>1. /\ job' = [job EXCEPT ![j] = [job[j] EXCEPT !.todo = todo, !.written = written]]
        /\ disk' = Disk!With(disk, new, disk[op.src])
        /\ folders' = folders \union Disk!WithParents(new.dir)
    BY <1>1, <1>2 DEF Disk!Mux, Disk!Jobs
  <2> HIDE DEF todo, written, new, done
  <2>2. /\ job'[j].remap = job[j].remap /\ job'[j].moved = job[j].moved /\ job'[j].made = job[j].made
        /\ job'[j].written = written /\ job'[j].stage = "muxing"
    BY <1>1, <2>1 DEF Disk!Jobs, Only
  <2>3. Only(j, {"muxing", "sidecars"}) /\ Only(j, {"muxing", "sidecars"})'
    BY <1>1, <2>2 DEF Only
  <2> QED
    BY <1>1, <2>1, <2>2, <2>3, WrittenEnds DEF written
<1>3. CASE ~done
  <2>1. /\ job' = [job EXCEPT ![j] = [job[j] EXCEPT !.todo = todo, !.errors = TRUE]]
        /\ disk' = disk /\ folders' = folders
    BY <1>1, <1>3 DEF Disk!Mux, Disk!Jobs
  <2> HIDE DEF todo, done
  <2>2. /\ job'[j].moved = job[j].moved /\ job'[j].made = job[j].made
        /\ job'[j].written = job[j].written /\ job'[j].stage = "muxing"
    BY <1>1, <2>1 DEF Disk!Jobs, Only
  <2>3. KeepsUndo(j)
    BY <1>1, <2>2 DEF KeepsUndo
  <2>4. Outstanding(j)' = Outstanding(j) /\ Outputs(j) \subseteq Outputs(j)'
    BY <1>1, <2>2 DEF Outstanding, Outputs, Only
  <2>5. ~Only(j, {"moving"})' /\ ~Only(j, {"draft", "queued", "reverted"})'
    BY <2>2 DEF Only
  <2> QED
    BY <1>1, <2>1, <2>3, <2>4, <2>5, StageEnds
<1> QED
  BY <1>2, <1>3

LEMMA WriteSidecarEnds ==
    ASSUME DiskTyped, JobsWell, TreeInv, NEW j \in DOMAIN job, NEW s \in job[j].plan, NEW ok \in BOOLEAN,
           Disk!WriteSidecar(j, s, ok)
    PROVE  Ends
<1> DEFINE at == Disk!SidecarTarget(j, s)
           todo == job[j].todo \ {s}
           written == job[j].written \union {at}
<1>1. /\ Keeps(j) /\ OnlyOf(j) /\ scene' = scene
      /\ intrusions' = intrusions /\ Only(j, {"sidecars"}) /\ job[j] \in Disk!Jobs
      /\ job'[j].stage = "sidecars" /\ job'[j].moved = job[j].moved /\ job'[j].made = job[j].made
  BY WriteSidecarWell DEF Keeps, Disk!WriteSidecar, DiskTyped
<1>2. \/ /\ disk' = Disk!With(disk, at, Disk!Downloaded) /\ folders' = folders \union Disk!WithParents(at.dir)
         /\ job' = [job EXCEPT ![j] = [job[j] EXCEPT !.todo = todo, !.written = written]]
      \/ /\ disk' = disk /\ folders' = folders
         /\ \/ job' = [job EXCEPT ![j] = [job[j] EXCEPT !.todo = todo]]
            \/ job' = [job EXCEPT ![j] = [job[j] EXCEPT !.todo = todo, !.errors = TRUE]]
  BY <1>1 DEF Disk!WriteSidecar, Disk!Jobs
<1> HIDE DEF at, todo, written
<1>3. Only(j, {"muxing", "sidecars"}) /\ Only(j, {"muxing", "sidecars"})'
  BY <1>1 DEF Only
<1>4. CASE job' = [job EXCEPT ![j] = [job[j] EXCEPT !.todo = todo, !.written = written]]
           /\ disk' = Disk!With(disk, at, Disk!Downloaded)
           /\ folders' = folders \union Disk!WithParents(at.dir)
  <2>1. job'[j].written = written /\ job'[j].remap = job[j].remap
    BY <1>1, <1>4 DEF Disk!Jobs
  <2> QED
    BY <1>1, <1>3, <1>4, <2>1, WrittenEnds DEF written
<1>5. CASE /\ disk' = disk /\ folders' = folders
           /\ \/ job' = [job EXCEPT ![j] = [job[j] EXCEPT !.todo = todo]]
              \/ job' = [job EXCEPT ![j] = [job[j] EXCEPT !.todo = todo, !.errors = TRUE]]
  <2>1. job'[j].written = job[j].written
    BY <1>1, <1>5 DEF Disk!Jobs
  <2>2. KeepsUndo(j)
    BY <1>1, <2>1 DEF KeepsUndo
  <2>3. Outstanding(j)' = Outstanding(j) /\ Outputs(j) \subseteq Outputs(j)'
    BY <1>1, <2>1 DEF Outstanding, Outputs, Only
  <2>4. ~Only(j, {"moving"})' /\ ~Only(j, {"draft", "queued", "reverted"})'
    BY <1>1 DEF Only
  <2> QED
    BY <1>1, <1>5, <2>2, <2>3, <2>4, StageEnds
<1> QED
  BY <1>2, <1>4, <1>5

\* A revert first unlinks what the job wrote, which is no file of the user's.
LEMMA RemoveGeneratedEnds ==
    ASSUME DiskTyped, JobsWell, TreeInv, NEW j \in DOMAIN job, Disk!RemoveGenerated(j)
    PROVE  Ends
<1> SUFFICES ASSUME Ordered' PROVE TreeTold'
  BY DEF Ends
<1>1. /\ Keeps(j) /\ OnlyOf(j) /\ scene' = scene /\ Only(j, {"completed"}) /\ job'[j].stage = "restoring"
      /\ job'[j].moved = job[j].moved /\ job'[j].made = job[j].made /\ job'[j].written = job[j].written
      /\ job'[j].remap = job[j].remap
  BY RemoveGeneratedWell DEF Keeps
<1>2. folders' = folders /\ intrusions' = intrusions /\ job'[j].todo = job[j].moved
  BY DEF Disk!RemoveGenerated, DiskTyped, Disk!Jobs
<1>3. Remembers
  BY <1>1, UndoKept
<1>4. \A k \in DOMAIN job : Outstanding(k)' = Outstanding(k) /\ LeftBy(k) \subseteq LeftBy(k)'
  <2>1. Outstanding(j)' = Outstanding(j)
    BY <1>1, <1>2 DEF Outstanding, Only
  <2>2. LeftBy(j) \subseteq LeftBy(j)'
    BY <1>1, <1>3, LeftGrows DEF Only
  <2> QED
    BY <1>1, <2>1, <2>2, OthersRemember
<1>5. /\ DOMAIN disk' \subseteq DOMAIN disk /\ DOMAIN disk \ job[j].written \subseteq DOMAIN disk'
      /\ \A p \in DOMAIN disk' : disk'[p] = disk[p]
      /\ (\E p \in job[j].written : p \in DOMAIN disk') => job'[j].errors = TRUE
  BY GeneratedGone
<1>6. Ordered /\ TreeTold
  <2>1. Ordered
    BY <1>2, <1>3, <1>4, <1>5, UnhurtBefore, CoveredBefore DEF Ordered
  <2> QED
    BY <2>1 DEF TreeInv, Ordered
<1>7. \A k \in DOMAIN job : \A op \in Outstanding(k) : Disk!New(k, op)' = Disk!New(k, op)
  BY <1>3 DEF Remembers, Outstanding
<1>8. OutsideUntouched'
  <2>1. \A k \in DOMAIN job : job'[k].moved = job[k].moved
                              /\ (Only(k, {"moving"})' => Only(k, {"moving"}) /\ job'[k] = job[k])
    BY <1>1 DEF OnlyOf, Only
  <2> QED
    BY <1>3, <1>6, <2>1, OutsideStays DEF TreeTold
<1>9. FilesExplained'
  <2> SUFFICES ASSUME NEW p \in DOMAIN disk'
               PROVE  \/ p \in scene.files /\ disk'[p] = p
                      \/ \E k \in DOMAIN job : \E op \in Outstanding(k) : p = Disk!New(k, op)
                      \/ \E k \in DOMAIN job : p \in Outputs(k)'
    BY <1>3, <1>4, <1>7 DEF FilesExplained, Remembers
  <2>1. p \in DOMAIN disk /\ disk'[p] = disk[p] /\ (p \in Outputs(j) => p \in Outputs(j)')
    BY <1>1, <1>5 DEF Outputs, Only
  <2>2. \A k \in DOMAIN job : p \in Outputs(k) => p \in Outputs(k)'
    BY <1>1, <2>1, OthersRemember
  <2> QED
    BY <1>6, <2>1, <2>2 DEF TreeTold, FilesTold, FilesExplained
<1>10. MovesTold'
  <2> SUFFICES ASSUME NEW k \in DOMAIN job, NEW op \in Outstanding(k)
               PROVE  disk'[Disk!New(k, op)] = op.src
    BY <1>3, <1>4, <1>7 DEF MovesTold, Remembers
  <2>1. Disk!New(k, op)' \in DOMAIN disk'
    BY <1>3, <1>4 DEF Ordered, Covered, Remembers, Disk!Exists
  <2> QED
    BY <1>5, <1>6, <1>7, <2>1 DEF TreeTold, FilesTold, MovesTold
<1>11. FilesThere'
  <2> SUFFICES ASSUME NEW f \in scene.files
               PROVE  \/ f \in DOMAIN disk' /\ disk'[f] = f
                      \/ \E k \in DOMAIN job : \E op \in Outstanding(k) : op.src = f
    BY <1>3, <1>4 DEF FilesThere, Remembers, Disk!Exists
  <2>1. f \notin job[j].written
    BY <1>6 DEF Ordered, Unhurt, Disk!UsersPlaces
  <2> QED
    BY <1>5, <1>6, <2>1 DEF TreeTold, FilesTold, FilesThere, Disk!Exists
<1>12. FoldersExplained'
  BY <1>2, <1>3, <1>4, <1>6, FoldersStay DEF TreeTold
<1> QED
  BY <1>8, <1>9, <1>10, <1>11, <1>12 DEF TreeTold, FilesTold

\* A file that cannot be brought back is still where it was moved to; the others of
\* the revert are not there any more, unless none had been brought back.
LEMMA RestoreFailedEnds ==
    ASSUME DiskTyped, JobsWell, TreeInv, NEW j \in DOMAIN job, KeepsUndo(j), Only(j, {"restoring"}),
           job'[j].stage = "restoring", job'[j].errors = TRUE,
           disk' = disk, folders' = folders, intrusions' = intrusions
    PROVE  Ends
<1> SUFFICES ASSUME Ordered' PROVE TreeTold'
  BY DEF Ends
<1>1. OnlyOf(j) /\ scene' = scene /\ Remembers
  BY UndoKept DEF KeepsUndo, Keeps
<1>2. \A k \in DOMAIN job : Outstanding(k) \subseteq Outstanding(k)'
  <2>1. Outstanding(j) \subseteq Outstanding(j)'
    BY DEF Outstanding, Only, KeepsUndo
  <2> QED
    BY <1>1, <2>1, OthersRemember
<1>3. Ordered /\ TreeTold
  <2>1. Ordered
    BY <1>1, <1>2, UnhurtBefore, CoveredBefore DEF Ordered
  <2> QED
    BY <2>1 DEF TreeInv, Ordered
<1>4. Outstanding(j)' \subseteq Outstanding(j)
  <2> SUFFICES ASSUME NEW op \in Outstanding(j)', op \notin Outstanding(j) PROVE FALSE
    OBVIOUS
  <2>1. op \in job[j].moved /\ Disk!New(j, op)' = Disk!New(j, op)
    BY <1>1 DEF Outstanding, KeepsUndo, Remembers
  <2>2. Disk!New(j, op) \in DOMAIN disk
    BY <1>1, <2>1 DEF Ordered, Covered, Remembers, Disk!Exists
  <2>3. Disk!New(j, op) \notin scene.files
    BY <1>3, <2>1 DEF TreeTold, OutsideUntouched
  <2>4. \A k \in DOMAIN job : Disk!New(j, op) \notin Outputs(k)
    BY <1>3, <2>1 DEF Ordered, Unhurt, Disk!UsersPlaces, Disk!JobIds, Outputs
  <2>5. PICK k \in DOMAIN job : \E o \in Outstanding(k) : Disk!New(j, op) = Disk!New(k, o)
    BY <1>3, <2>2, <2>3, <2>4 DEF TreeTold, FilesTold, FilesExplained
  <2>5a. PICK other \in Outstanding(k) : Disk!New(j, op) = Disk!New(k, other)
    BY <2>5
  <2>6. other \in Outstanding(k)' /\ Disk!New(k, other)' = Disk!New(k, other)
    BY <1>1, <1>2 DEF Outstanding, Remembers
  <2>7. k = j /\ other = op
    BY <1>1, <2>1, <2>5a, <2>6 DEF Ordered, Covered, Remembers
  <2> QED
    BY <2>5a, <2>7
<1>5. \A k \in DOMAIN job : /\ Outstanding(k)' = Outstanding(k) /\ Outputs(k) \subseteq Outputs(k)'
                            /\ LeftBy(k) \subseteq LeftBy(k)'
  <2>1. Outputs(j) \subseteq Outputs(j)'
    BY DEF Outputs, Only, KeepsUndo
  <2>2. LeftBy(j) \subseteq LeftBy(j)'
    BY <1>1, LeftGrows DEF Only
  <2> QED
    BY <1>1, <1>2, <1>4, <2>1, <2>2, OthersRemember
<1>6. OutsideUntouched'
  <2>1. \A k \in DOMAIN job : job'[k].moved = job[k].moved
                              /\ (Only(k, {"moving"})' => Only(k, {"moving"}) /\ job'[k] = job[k])
    BY DEF KeepsUndo, Keeps, OnlyOf, Only
  <2> QED
    BY <1>1, <1>3, <2>1, OutsideStays DEF TreeTold
<1> QED
  BY <1>1, <1>3, <1>5, <1>6, FilesStay, FoldersStay DEF TreeTold

\* A file that is brought back pays its debt: its content is the user's, and no other
\* file was at its place.
LEMMA RestoreDoneEnds ==
    ASSUME DiskTyped, JobsWell, TreeInv, NEW j \in DOMAIN job, NEW op \in job[j].moved,
           KeepsUndo(j), Only(j, {"restoring"}), job'[j].stage = "restoring",
           job'[j].errors = job[j].errors, op \in job[j].todo, job'[j].todo = job[j].todo \ {op},
           Disk!New(j, op) \in DOMAIN disk, disk' = Disk!Moved(disk, Disk!New(j, op), op.src),
           folders' = folders, intrusions' = intrusions
    PROVE  Ends
<1> DEFINE at == Disk!New(j, op)
<1> SUFFICES ASSUME Ordered' PROVE TreeTold'
  BY DEF Ends
<1>1. /\ OnlyOf(j) /\ scene' = scene /\ Remembers
      /\ \A k \in DOMAIN job : \A o : Disk!New(k, o)' = Disk!New(k, o)
  <2>1. OnlyOf(j) /\ scene' = scene /\ Remembers
    BY UndoKept DEF KeepsUndo, Keeps
  <2>2. \A o : Disk!New(j, o)' = Disk!New(j, o)
    BY DEF KeepsUndo, Keeps, Disk!New
  <2>3. \A k \in DOMAIN job : k # j => \A o : Disk!New(k, o)' = Disk!New(k, o)
    BY <2>1, OthersRemember
  <2> QED
    BY <2>1, <2>2, <2>3
<1>2. op.src.dir.root = "src" /\ at # op.src /\ at \in DOMAIN disk
  BY MovesLeadOut
<1>3. disk' = Disk!Moved(disk, at, op.src)
  OBVIOUS
<1> HIDE DEF at
<1>4. /\ DOMAIN disk' = (DOMAIN disk \ {at}) \union {op.src} /\ disk'[op.src] = disk[at]
      /\ \A p \in DOMAIN disk : p # at /\ p # op.src => disk'[p] = disk[p]
  BY <1>2, <1>3 DEF Disk!Moved, Disk!With, Disk!Without
<1>5. op \notin Outstanding(j)' /\ op \in Outstanding(j)
  <2>1. ASSUME op \in Outstanding(j)' PROVE FALSE
    <3>1. at \in DOMAIN disk'
      BY <1>1, <2>1 DEF Ordered, Covered, Disk!Exists, at, OnlyOf
    <3> QED
      BY <1>2, <1>4, <3>1
  <2> QED
    BY <2>1 DEF Outstanding, Only
<1>6. Outstanding(j)' = Outstanding(j) \ {op}
  <2>1. op \notin job'[j].todo /\ job'[j].moved = job[j].moved
    BY DEF KeepsUndo
  <2>2. ~job'[j].errors
    BY <1>5, <2>1 DEF Outstanding, Only
  <2> QED
    BY <2>1, <2>2 DEF Outstanding, Only
<1>7. \A k \in DOMAIN job : \A o \in Outstanding(k) :
         ~(k = j /\ o = op) => o \in Outstanding(k)' /\ Disk!New(k, o) # at /\ Disk!New(k, o) # op.src
  <2> SUFFICES ASSUME NEW k \in DOMAIN job, NEW o \in Outstanding(k), ~(k = j /\ o = op)
               PROVE  o \in Outstanding(k)' /\ Disk!New(k, o) # at /\ Disk!New(k, o) # op.src
    OBVIOUS
  <2>1. o \in Outstanding(k)'
    BY <1>1, <1>6, OthersRemember
  <2>2. Disk!New(k, o) # op.src
    BY <1>2, MovesLeadOut DEF Outstanding
  <2>3. Disk!New(k, o) \in DOMAIN disk'
    BY <1>1, <2>1 DEF Ordered, Covered, Disk!Exists, OnlyOf
  <2> QED
    BY <1>2, <1>4, <2>1, <2>2, <2>3
<1>8. \A k \in DOMAIN job : Outstanding(k)' \subseteq Outstanding(k)
  BY <1>1, <1>6, OthersRemember
<1>9. Covered
  <2>1. ASSUME NEW k \in DOMAIN job, NEW o \in Outstanding(k) PROVE Disk!New(k, o) \in DOMAIN disk
    <3>1. CASE k = j /\ o = op
      BY <1>2, <3>1 DEF at
    <3>2. CASE ~(k = j /\ o = op)
      <4>1. Disk!New(k, o) \in DOMAIN disk' /\ Disk!New(k, o) # op.src
        BY <1>1, <1>7, <3>2 DEF Ordered, Covered, Disk!Exists, OnlyOf
      <4> QED
        BY <1>4, <4>1
    <3> QED
      BY <3>1, <3>2
  <2>2. ASSUME NEW k \in DOMAIN job, NEW l \in DOMAIN job, NEW o \in Outstanding(k), NEW q \in Outstanding(l),
               Disk!New(k, o) = Disk!New(l, q)
        PROVE  k = l /\ o = q
    <3>1. CASE ~(k = j /\ o = op) /\ ~(l = j /\ q = op)
      BY <1>1, <1>7, <2>2, <3>1 DEF Ordered, Covered, OnlyOf
    <3>2. CASE k = j /\ o = op
      BY <1>7, <2>2, <3>2 DEF at
    <3>3. CASE l = j /\ q = op
      BY <1>7, <2>2, <3>3 DEF at
    <3> QED
      BY <3>1, <3>2, <3>3
  <2> QED
    BY <2>1, <2>2 DEF Covered, Disk!Exists
<1>10. Ordered /\ TreeTold
  <2>1. Ordered
    BY <1>1, <1>9, UnhurtBefore DEF Ordered
  <2> QED
    BY <2>1 DEF TreeInv, Ordered
<1>11. disk[at] = op.src /\ at \notin scene.files
  BY <1>5, <1>10 DEF TreeTold, FilesTold, MovesTold, OutsideUntouched, at
<1>12. op.src \in scene.files
  <2>1. op.src \in scene.files \cup {Disk!Downloaded, Disk!Added}
    BY <1>2, <1>11 DEF DiskTyped
  <2>2. Disk!Downloaded.dir.root = "none" /\ Disk!Added.dir.root = "none"
    BY DEF Disk!Downloaded, Disk!Added, Disk!File, Disk!Nowhere
  <2> QED
    BY <1>2, <2>1, <2>2
<1>13. OutsideUntouched'
  <2>1. \A k \in DOMAIN job : job'[k].moved = job[k].moved
                              /\ (Only(k, {"moving"})' => Only(k, {"moving"}) /\ job'[k] = job[k])
    BY DEF KeepsUndo, Keeps, OnlyOf, Only
  <2> QED
    BY <1>1, <1>10, <2>1, OutsideStays DEF TreeTold
<1>14. \A k \in DOMAIN job : Outputs(k)' = Outputs(k) /\ LeftBy(k) \subseteq LeftBy(k)'
  <2>1. Outputs(j)' = Outputs(j)
    BY DEF Outputs, Only, KeepsUndo
  <2>2. LeftBy(j) \subseteq LeftBy(j)'
    BY <1>1, LeftGrows DEF Only
  <2> QED
    BY <1>1, <2>1, <2>2, OthersRemember
<1>15. FilesExplained'
  <2> SUFFICES ASSUME NEW p \in DOMAIN disk'
               PROVE  \/ p \in scene.files /\ disk'[p] = p
                      \/ \E k \in DOMAIN job : \E o \in Outstanding(k)' : p = Disk!New(k, o)
                      \/ \E k \in DOMAIN job : p \in Outputs(k)
    BY <1>1, <1>14 DEF FilesExplained, OnlyOf
  <2>1. CASE p = op.src
    BY <1>4, <1>11, <1>12, <2>1
  <2>2. CASE p # op.src
    <3>1. p \in DOMAIN disk /\ p # at /\ disk'[p] = disk[p]
      BY <1>2, <1>4, <2>2
    <3>2. ASSUME NEW k \in DOMAIN job, NEW o \in Outstanding(k), p = Disk!New(k, o)
          PROVE  o \in Outstanding(k)'
      BY <1>7, <3>1, <3>2 DEF at
    <3> QED
      BY <1>10, <3>1, <3>2 DEF TreeTold, FilesTold, FilesExplained
  <2> QED
    BY <2>1, <2>2
<1>16. MovesTold'
  <2> SUFFICES ASSUME NEW k \in DOMAIN job, NEW o \in Outstanding(k)'
               PROVE  disk'[Disk!New(k, o)] = o.src
    BY <1>1 DEF MovesTold, OnlyOf
  <2>1. o \in Outstanding(k) /\ ~(k = j /\ o = op)
    BY <1>5, <1>8
  <2>2. Disk!New(k, o) \in DOMAIN disk /\ disk[Disk!New(k, o)] = o.src
    BY <1>9, <1>10, <2>1 DEF TreeTold, FilesTold, MovesTold, Covered, Disk!Exists
  <2> QED
    BY <1>4, <1>7, <2>1, <2>2
<1>17. FilesThere'
  <2> SUFFICES ASSUME NEW c \in scene.files
               PROVE  \/ c \in DOMAIN disk' /\ disk'[c] = c
                      \/ \E k \in DOMAIN job : \E o \in Outstanding(k)' : o.src = c
    BY <1>1 DEF FilesThere, OnlyOf, Disk!Exists
  <2>1. CASE c = op.src
    BY <1>4, <1>11, <2>1
  <2>2. CASE c # op.src
    <3>1. \/ c \in DOMAIN disk /\ disk[c] = c
          \/ \E k \in DOMAIN job : \E o \in Outstanding(k) : o.src = c
      BY <1>10 DEF TreeTold, FilesTold, FilesThere, Disk!Exists
    <3>2. CASE c \in DOMAIN disk /\ disk[c] = c
      BY <1>4, <1>11, <2>2, <3>2
    <3>3. ASSUME NEW k \in DOMAIN job, NEW o \in Outstanding(k), o.src = c
          PROVE  o \in Outstanding(k)'
      BY <1>7, <2>2, <3>3
    <3> QED
      BY <3>1, <3>2, <3>3
  <2> QED
    BY <2>1, <2>2
<1>18. FoldersExplained'
  BY <1>1, <1>10, <1>14, FoldersStay DEF TreeTold
<1> QED
  BY <1>13, <1>15, <1>16, <1>17, <1>18 DEF TreeTold, FilesTold

LEMMA RestoreEnds ==
    ASSUME DiskTyped, JobsWell, TreeInv, NEW j \in DOMAIN job, NEW op \in job[j].ops, NEW ok \in BOOLEAN,
           Disk!Restore(j, op, ok)
    PROVE  Ends
<1> DEFINE todo == job[j].todo \ {op}
<1>1. KeepsUndo(j) /\ Only(j, {"restoring"}) /\ job'[j].stage = "restoring"
  BY RestoreWell
<1>2. op \in job[j].todo /\ op \in job[j].moved /\ job[j] \in Disk!Jobs
  BY <1>1 DEF Disk!Restore, JobsWell, JobWell, StageWell, Only, DiskTyped
<1>3. folders' = folders /\ intrusions' = intrusions
  BY DEF Disk!Restore
<1>4. CASE ok /\ Disk!Exists(Disk!New(j, op))
  <2>1. /\ Disk!New(j, op) \in DOMAIN disk /\ disk' = Disk!Moved(disk, Disk!New(j, op), op.src)
        /\ job' = [job EXCEPT ![j] = [job[j] EXCEPT !.todo = todo]]
    BY <1>2, <1>4 DEF Disk!Restore, Disk!Exists, Disk!Jobs
  <2> HIDE DEF todo
  <2>2. job'[j].errors = job[j].errors /\ job'[j].todo = todo
    BY <1>2, <2>1 DEF Disk!Jobs
  <2> QED
    BY <1>1, <1>2, <1>3, <2>1, <2>2, RestoreDoneEnds DEF todo
<1>5. CASE ~(ok /\ Disk!Exists(Disk!New(j, op)))
  <2>1. disk' = disk /\ job' = [job EXCEPT ![j] = [job[j] EXCEPT !.todo = todo, !.errors = TRUE]]
    BY <1>2, <1>5 DEF Disk!Restore, Disk!Jobs
  <2> HIDE DEF todo
  <2>2. job'[j].errors = TRUE
    BY <1>2, <2>1 DEF Disk!Jobs
  <2> QED
    BY <1>1, <1>3, <2>1, <2>2, RestoreFailedEnds
<1> QED
  BY <1>4, <1>5

\* What of a directory that a job left there is after its revert: a file of somebody
\* else, or a directory below it.
LEMMA TidyLeaves ==
    ASSUME DiskTyped, JobsWell, NEW j \in DOMAIN job, Disk!Tidy(j)
    PROVE  /\ folders' \subseteq folders
           /\ \A d \in folders \ folders' : Disk!FilesIn(d) = {}
           /\ \A d \in folders \ folders', e \in folders' : Disk!Top(e) = d => e = d \/ d.sub # 0
           /\ \A d \in folders', e \in Disk!Left(j) : d \in Disk!WithParents(e) =>
                 Disk!FilesIn(d) # {} \/ \E b \in folders' : Disk!Top(b) = d /\ b # d
<1> DEFINE bare(remaining, d) == Disk!FilesIn(d) = {} /\ {e \in remaining : Disk!Top(e) = d} \subseteq {d}
           subs == {d \in Disk!Left(j) : d.sub # 0 /\ Disk!FilesIn(d) = {}}
           rest == folders \ subs
           tops == {d \in {Disk!Top(l) : l \in Disk!Left(j)} : bare(rest, d)}
<1>1. folders' = rest \ tops
  BY DEF Disk!Tidy
<1>2. \A d \in folders : Disk!Top(d).sub = 0 /\ (d.sub = 0 => Disk!Top(d) = d) /\ Disk!Top(Disk!Top(d)) = Disk!Top(d)
  BY DEF DiskTyped, Disk!Dirs, Disk!Top
<1>3. \A d \in folders \ folders' : d \in subs \/ (d \in rest /\ d \in tops)
  BY <1>1
<1>4. \A d \in folders \ folders' : Disk!FilesIn(d) = {}
  BY <1>3
<1>6. ASSUME NEW d \in folders \ folders', NEW e \in folders', Disk!Top(e) = d, e # d
      PROVE  d.sub # 0
  <2>1. e \in rest
    BY <1>1
  <2>2. d \notin tops
    BY <1>6, <2>1
  <2> QED
    BY <1>3, <2>2
<1>7. ASSUME NEW d \in folders', NEW e \in Disk!Left(j), d \in Disk!WithParents(e), Disk!FilesIn(d) = {}
      PROVE  \E b \in folders' : Disk!Top(b) = d /\ b # d
  <2>1. d \in rest /\ d \notin tops /\ d \in folders
    BY <1>1
  <2>2. d = Disk!Top(e)
    <3>1. CASE d = e
      <4>1. d.sub = 0
        BY <1>7, <2>1, <3>1
      <4> QED
        BY <1>2, <2>1, <3>1, <4>1
    <3> QED
      BY <1>7, <3>1 DEF Disk!WithParents
  <2>3. PICK b \in rest : Disk!Top(b) = d /\ b # d
    BY <1>7, <2>1, <2>2
  <2>4. b \notin tops
    <3>1. ASSUME NEW l \in Disk!Left(j), b = Disk!Top(l) PROVE FALSE
      <4>1. Disk!Top(b) = b
        BY <3>1 DEF Disk!Top
      <4> QED
        BY <2>3, <4>1
    <3> QED
      BY <3>1
  <2> QED
    BY <1>1, <2>3, <2>4
<1> HIDE DEF rest, subs, tops, bare
<1>8. folders' \subseteq folders
  BY <1>1 DEF rest
<1> QED
  BY <1>4, <1>6, <1>7, <1>8

\* A job leaves nothing outside the output root.
LEMMA LeftIsOut ==
    ASSUME DiskTyped, JobsWell, UndoWell, NEW j \in DOMAIN job, NEW d \in Disk!Left(j)
    PROVE  d.root = "out" /\ Disk!Top(d).root = "out"
<1>1. d.root = "out"
  <2>1. CASE d \in job[j].made
    <3>1. Disk!Top(d) = JobFolder(j) /\ d \in Disk!Dirs
      BY <2>1 DEF JobsWell, JobWell, OpsWell, DiskTyped, Disk!Jobs
    <3> QED
      BY <3>1, FoldersOfJobs DEF Disk!Top, Disk!Dirs
  <2>2. CASE \E p \in job[j].written : d = p.dir
    BY <2>2 DEF UndoWell
  <2>3. CASE \E op \in job[j].moved : d = Disk!New(j, op).dir
    BY <2>3, MovesLeadOut
  <2> QED
    BY <2>1, <2>2, <2>3 DEF Disk!Left
<1>2. d \in Disk!Dirs
  <2>1. job[j].made \subseteq Disk!Dirs /\ \A p \in job[j].written : p \in Disk!Paths
    BY DEF DiskTyped, Disk!Jobs
  <2> QED
    BY <2>1, MovesLeadOut DEF Disk!Left, Disk!Paths
<1> QED
  BY <1>1, <1>2 DEF Disk!Top, Disk!Dirs

LEMMA TidyEnds ==
    ASSUME DiskTyped, JobsWell, TreeInv, NEW j \in DOMAIN job, Disk!Tidy(j)
    PROVE  Ends
<1> SUFFICES ASSUME Ordered' PROVE TreeTold'
  BY DEF Ends
<1>1. KeepsUndo(j) /\ Only(j, {"restoring"}) /\ job'[j].stage \in {"revert_failed", "reverted"}
  BY TidyWell
<1>2. OnlyOf(j) /\ scene' = scene /\ Remembers
  BY <1>1, UndoKept DEF KeepsUndo, Keeps
<1>3. disk' = disk /\ intrusions' = intrusions /\ job[j].todo = {}
  BY DEF Disk!Tidy
<1>4. IF job[j].errors THEN job'[j].stage = "revert_failed" ELSE job'[j].stage = "reverted"
  <2> DEFINE end == IF job[j].errors THEN "revert_failed" ELSE "reverted"
  <2>1. job' = [job EXCEPT ![j] = [job[j] EXCEPT !.stage = end]] /\ job[j] \in Disk!Jobs
    BY DEF Disk!Tidy, DiskTyped
  <2>2. IF job[j].errors THEN end = "revert_failed" ELSE end = "reverted"
    OBVIOUS
  <2> HIDE DEF end
  <2>3. job'[j].stage = end
    BY <2>1 DEF Disk!Jobs
  <2> QED
    BY <2>2, <2>3
<1>5. job'[j].errors = job[j].errors /\ job[j].errors \in BOOLEAN
  BY DEF Disk!Tidy, DiskTyped, Disk!Jobs
<1>6. \A k \in DOMAIN job : Outstanding(k)' = Outstanding(k) /\ Outputs(k)' = Outputs(k)
  <2>1. Outstanding(j)' = Outstanding(j)
    BY <1>1, <1>3, <1>4 DEF Outstanding, Only, KeepsUndo
  <2>2. Outputs(j)' = Outputs(j)
    BY <1>1, <1>4, <1>5 DEF Outputs, Only, KeepsUndo
  <2> QED
    BY <1>2, <2>1, <2>2, OthersRemember
<1>7. Ordered /\ TreeTold
  <2>1. Ordered
    BY <1>2, <1>3, <1>6, UnhurtBefore, CoveredBefore DEF Ordered
  <2> QED
    BY <2>1 DEF TreeInv, Ordered
<1>8. OutsideUntouched'
  <2>1. \A k \in DOMAIN job : job'[k].moved = job[k].moved
                              /\ (Only(k, {"moving"})' => Only(k, {"moving"}) /\ job'[k] = job[k])
    BY <1>1 DEF KeepsUndo, Keeps, OnlyOf, Only
  <2> QED
    BY <1>2, <1>7, <2>1, OutsideStays DEF TreeTold
<1>9. FilesTold'
  BY <1>2, <1>3, <1>6, <1>7, FilesStay DEF TreeTold
<1>10. Disk!FirstFolders' = Disk!FirstFolders
  BY <1>2 DEF Disk!FirstFolders
<1>11. Disk!FirstFolders \subseteq folders'
  <2> SUFFICES ASSUME NEW c \in scene.files, c.dir.root = "out"
               PROVE  Disk!WithParents(c.dir) \subseteq folders'
    BY DEF Disk!FirstFolders
  <2>1. c \in Disk!FilesIn(c.dir)
    BY <1>7, OutputRootFiles DEF Disk!FilesIn
  <2>2. c.dir \in folders /\ Disk!Top(c.dir) \in folders
    BY <1>7 DEF TreeTold, FoldersExplained, Disk!FirstFolders, Disk!WithParents
  <2>3. c.dir \in folders'
    BY <2>1, <2>2, TidyLeaves
  <2>4. Disk!Top(c.dir) \in folders'
    <3> SUFFICES ASSUME Disk!Top(c.dir) \notin folders' PROVE FALSE
      OBVIOUS
    <3>1. Disk!Top(c.dir).sub = 0
      BY <2>2 DEF DiskTyped, Disk!Dirs, Disk!Top
    <3>2. c.dir = Disk!Top(c.dir)
      BY <2>2, <2>3, <3>1, TidyLeaves
    <3> QED
      BY <2>3, <3>2
  <2> QED
    BY <2>3, <2>4 DEF Disk!WithParents
<1>12. \A d \in Disk!Left(j) : d.root = "out" /\ Disk!Top(d).root = "out"
  BY LeftIsOut DEF TreeInv
\* What holds a file is told by the file.
<1>13. ASSUME NEW d \in folders, d.root = "out", Disk!FilesIn(d) # {}
       PROVE  \/ Disk!WithParents(d) \subseteq Disk!FirstFolders
              \/ \E k \in DOMAIN job : d \in LeftBy(k)'
  <2>1. PICK p \in DOMAIN disk : p.dir = d
    BY <1>13 DEF Disk!FilesIn
  <2>2. CASE p \in scene.files
    BY <1>13, <2>1, <2>2 DEF Disk!FirstFolders
  <2>3. ASSUME NEW k \in DOMAIN job, NEW op \in Outstanding(k), p = Disk!New(k, op)
        PROVE  d \in LeftBy(k)'
    <3>1. op \in Outstanding(k)' /\ Disk!New(k, op)' = p /\ op \in job'[k].moved
      BY <1>2, <1>6, <2>3 DEF Outstanding, Remembers
    <3>2. ~Only(k, {"draft", "queued", "reverted"})'
      <4>1. ~Only(k, {"reverted"})'
        BY <3>1 DEF Outstanding
      <4>2. Only(k, {"draft", "queued"})' => job'[k].moved = {}
        BY <1>2, TidyWell DEF JobsWell, JobWell, StageWell, Only, OnlyOf
      <4> QED
        BY <3>1, <4>1, <4>2 DEF Only
    <3> QED
      BY <2>1, <3>1, <3>2 DEF LeftBy, Disk!Left
  <2>4. ASSUME NEW k \in DOMAIN job, p \in Outputs(k)
        PROVE  d \in LeftBy(k)'
    <3>1. p \in Outputs(k)'
      BY <1>6, <2>4
    <3> QED
      BY <2>1, <3>1 DEF LeftBy, Disk!Left, Outputs, Only
  <2> QED
    BY <1>7, <2>2, <2>3, <2>4 DEF TreeTold, FilesTold, FilesExplained
<1> DEFINE Told(d) == \/ d \in Disk!FirstFolders
                      \/ \E k \in DOMAIN job : \E e \in LeftBy(k)' : d \in Disk!WithParents(e)
<1>14. ASSUME NEW d \in folders', NEW e \in LeftBy(j), d \in Disk!WithParents(e) PROVE Told(d)
  <2>1. e \in Disk!Left(j) /\ d \in folders /\ d.root = "out"
    BY <1>12, <1>14, TidyLeaves DEF LeftBy, Disk!WithParents
  <2>2. CASE Disk!FilesIn(d) # {}
    BY <1>13, <2>1, <2>2 DEF Disk!WithParents
  <2>3. CASE Disk!FilesIn(d) = {}
    <3>1. PICK b \in folders' : Disk!Top(b) = d /\ b # d
      BY <1>14, <2>1, <2>3, TidyLeaves
    <3>2. b \in folders /\ b \in Disk!Dirs /\ d \in Disk!WithParents(b) /\ b.root = "out"
      BY <2>1, <3>1, TidyLeaves DEF DiskTyped, Disk!WithParents, Disk!Top, Disk!Dirs
    <3>3. CASE Disk!FilesIn(b) # {}
      BY <1>13, <3>2, <3>3
    <3>4. CASE Disk!FilesIn(b) = {}
      <4>1. \A c \in folders' : Disk!Top(c) = b => c = b
        <5> SUFFICES ASSUME NEW c \in folders', Disk!Top(c) = b PROVE c = b
          OBVIOUS
        <5>1. Disk!Top(b) = b
          BY TidyLeaves DEF DiskTyped, Disk!Top, Disk!Dirs
        <5> QED
          BY <3>1, <5>1
      <4>2. \A f \in LeftBy(j) : b \notin Disk!WithParents(f)
        BY <3>4, <4>1, TidyLeaves DEF LeftBy
      <4>3. CASE Disk!WithParents(b) \subseteq Disk!FirstFolders
        BY <3>2, <4>3
      <4>4. ASSUME NEW k \in DOMAIN job, NEW f \in LeftBy(k), Disk!WithParents(b) \subseteq Disk!WithParents(f)
            PROVE  Told(d)
        <5>1. b \in Disk!WithParents(f)
          BY <4>4 DEF Disk!WithParents
        <5>2. k # j
          BY <4>2, <5>1
        <5>3. f \in LeftBy(k)'
          BY <1>2, <5>2, OthersRemember
        <5> QED
          BY <3>2, <4>4, <5>3
      <4> QED
        BY <1>7, <3>2, <4>3, <4>4, FoldersAbove DEF TreeTold
    <3> QED
      BY <3>3, <3>4
  <2> QED
    BY <2>2, <2>3
<1>15. ASSUME NEW d \in folders' PROVE Told(d)
  <2>1. d \in folders
    BY TidyLeaves
  <2>2. CASE d \in Disk!FirstFolders
    BY <2>2
  <2>3. ASSUME NEW k \in DOMAIN job, NEW e \in LeftBy(k), d \in Disk!WithParents(e) PROVE Told(d)
    <3>1. CASE k = j
      BY <1>14, <2>3, <3>1
    <3>2. CASE k # j
      BY <1>2, <2>3, <3>2, OthersRemember
    <3> QED
      BY <3>1, <3>2
  <2> QED
    BY <1>7, <2>1, <2>2, <2>3 DEF TreeTold, FoldersExplained
<1>16. FoldersExplained'
  BY <1>2, <1>10, <1>11, <1>15 DEF FoldersExplained, OnlyOf
<1> QED
  BY <1>8, <1>9, <1>16 DEF TreeTold

\* Once the user is at work, the disk is not the jobs' alone.
LEMMA UsersEnd ==
    ASSUME DiskTyped, NEW p \in scene.files, Disk!UserRemoves(p) \/ Disk!UserAdds(p)
    PROVE  Ends
<1>1. intrusions \in Nat /\ intrusions' = intrusions + 1
  BY SceneAssumption DEF DiskTyped, Disk!UserRemoves, Disk!UserAdds
<1> QED
  BY <1>1 DEF Ends, Ordered, Unhurt

\* What a job wrote is in the output root, and one that failed did nothing.
LEMMA WroteOut ==
    ASSUME UndoWell, DOMAIN job' = DOMAIN job, NEW j \in DOMAIN job, OnlyOf(j),
           \A p \in job'[j].written : p \in job[j].written \/ p.dir.root = "out",
           Only(j, {"failed"})' => job'[j].moved = {} /\ job'[j].written = {},
           disk' = [p \in DOMAIN disk' |-> disk'[p]]
    PROVE  UndoWell'
BY DEF UndoWell, OnlyOf, Only

LEMMA MapsOfFiles ==
    /\ \A f, P, g : g = Disk!Without(f, P) => g = [p \in DOMAIN g |-> g[p]]
    /\ \A f, p, c, g : g = Disk!With(f, p, c) => g = [q \in DOMAIN g |-> g[q]]
    /\ \A f, p, q, g : g = Disk!Moved(f, p, q) => g = [r \in DOMAIN g |-> g[r]]
<1>1. \A f, P, g : g = Disk!Without(f, P) => g = [p \in DOMAIN g |-> g[p]]
  BY DEF Disk!Without
<1>2. \A f, p, c, g : g = Disk!With(f, p, c) => g = [q \in DOMAIN g |-> g[q]]
  BY DEF Disk!With
<1>3. \A f, p, q, g : g = Disk!Moved(f, p, q) => g = [r \in DOMAIN g |-> g[r]]
  BY <1>2 DEF Disk!Moved
<1> QED
  BY <1>1, <1>2, <1>3

LEMMA UndoStep ==
    ASSUME DiskTyped, JobsWell, UndoWell, Disk!JobFilesNext
    PROVE  UndoWell'
<1> DEFINE Map == disk' = [p \in DOMAIN disk' |-> disk'[p]]
<1>1. disk' = disk => Map
  BY DEF UndoWell
<1>2. ASSUME NEW j \in DOMAIN job, KeepsUndo(j), ~Only(j, {"failed"})', Map PROVE UndoWell'
  BY <1>2, WroteOut DEF KeepsUndo, Keeps, OnlyOf
<1>3. ASSUME NEW j \in DOMAIN job, OnlyOf(j), job'[j].moved = {}, job'[j].written = {}, Map PROVE UndoWell'
  BY <1>3, WroteOut DEF OnlyOf
<1>4. ASSUME NEW j \in DOMAIN job, NEW want \in Settings, Disk!Submit(j, want) PROVE UndoWell'
  BY <1>1, <1>3, <1>4, SubmitWell DEF Disk!Submit
<1>5. ASSUME NEW j \in DOMAIN job, Disk!Execute(j) PROVE UndoWell'
  BY <1>1, <1>3, <1>5, ExecuteWell DEF Disk!Execute
<1>6. ASSUME NEW j \in DOMAIN job, Disk!AllSourcesMissing(j) PROVE UndoWell'
  <2>1. KeepsUndo(j) /\ job[j].moved = {} /\ job[j].written = {} /\ disk' = disk
    BY <1>6, SourcesMissingWell DEF Disk!AllSourcesMissing, Disk!Stage, JobsWell, JobWell, StageWell, Only
  <2> QED
    BY <1>1, <1>3, <2>1 DEF KeepsUndo, Keeps
<1>7. ASSUME NEW j \in DOMAIN job, Disk!StartMuxing(j) PROVE UndoWell'
  BY <1>1, <1>2, <1>7, StartMuxingWell DEF Disk!StartMuxing, Only
<1>8. ASSUME NEW j \in DOMAIN job, Disk!StartSidecars(j) PROVE UndoWell'
  BY <1>1, <1>2, <1>8, StartSidecarsWell DEF Disk!StartSidecars, Only
<1>9. ASSUME NEW j \in DOMAIN job, Disk!Complete(j) PROVE UndoWell'
  <2>1. KeepsUndo(j) /\ disk' = disk
    BY <1>9, CompleteWell DEF Disk!Complete
  <2>2. CASE job'[j].stage = "failed"
    BY <1>1, <1>3, <1>9, <2>1, <2>2, FailedDidNothing DEF KeepsUndo, Keeps
  <2>3. CASE job'[j].stage # "failed"
    BY <1>1, <1>2, <2>1, <2>3 DEF Only
  <2> QED
    BY <2>2, <2>3
<1>10. ASSUME NEW j \in DOMAIN job, Disk!RemoveGenerated(j) PROVE UndoWell'
  <2>1. Map
    BY <1>10, MapsOfFiles DEF Disk!RemoveGenerated
  <2>2. OnlyOf(j) /\ job'[j].written = job[j].written /\ job'[j].stage = "restoring"
    BY <1>10, RemoveGeneratedWell DEF Keeps
  <2> QED
    BY <2>1, <2>2, WroteOut DEF OnlyOf, Only
<1>11. ASSUME NEW j \in DOMAIN job, Disk!Tidy(j) PROVE UndoWell'
  BY <1>1, <1>2, <1>11, TidyWell DEF Disk!Tidy, Only
<1>12. ASSUME NEW j \in DOMAIN job, NEW ok \in BOOLEAN, NEW op \in job[j].ops, Disk!Move(j, op, ok)
       PROVE  UndoWell'
  <2>1. Map
    BY <1>1, <1>12, MapsOfFiles DEF Disk!Move
  <2>2. OnlyOf(j) /\ job'[j].written = {} /\ job'[j].stage = "moving"
    BY <1>12, MoveWell DEF Keeps
  <2> QED
    BY <2>1, <2>2, WroteOut DEF OnlyOf, Only
<1>13. ASSUME NEW j \in DOMAIN job, NEW ok \in BOOLEAN, NEW op \in job[j].ops, Disk!Restore(j, op, ok)
       PROVE  UndoWell'
  <2>1. Map
    BY <1>1, <1>13, MapsOfFiles DEF Disk!Restore
  <2> QED
    BY <1>2, <1>13, <2>1, RestoreWell DEF Only
<1>14. ASSUME NEW j \in DOMAIN job, NEW ok \in BOOLEAN, NEW op \in job[j].ops, Disk!Mux(j, op, ok)
       PROVE  UndoWell'
  <2>1. Map
    BY <1>1, <1>14, MapsOfFiles DEF Disk!Mux
  <2>2. OnlyOf(j) /\ job[j] \in Disk!Jobs /\ Only(j, {"muxing"})
    BY <1>14, MuxWell DEF Keeps, DiskTyped, Disk!Mux, Disk!Stage, Only
  <2>3. Disk!Target(op, 0).dir.root = "out"
    BY NewPaths DEF JobsWell, JobWell
  <2> DEFINE todo == job[j].todo \ {op}
             written == job[j].written \union {Disk!Target(op, 0)}
  <2>4. \/ job' = [job EXCEPT ![j] = [job[j] EXCEPT !.todo = todo, !.written = written]]
        \/ job' = [job EXCEPT ![j] = [job[j] EXCEPT !.todo = todo, !.errors = TRUE]]
    BY <1>14, <2>2 DEF Disk!Mux, Disk!Jobs
  <2> HIDE DEF todo, written
  <2>5. (job'[j].written = written \/ job'[j].written = job[j].written) /\ job'[j].stage = "muxing"
    <3>1. job[j].stage = "muxing"
      BY <2>2 DEF Only
    <3>2. CASE job' = [job EXCEPT ![j] = [job[j] EXCEPT !.todo = todo, !.written = written]]
      BY <2>2, <3>1, <3>2 DEF Disk!Jobs
    <3>3. CASE job' = [job EXCEPT ![j] = [job[j] EXCEPT !.todo = todo, !.errors = TRUE]]
      BY <2>2, <3>1, <3>3 DEF Disk!Jobs
    <3> QED
      BY <2>4, <3>2, <3>3
  <2> QED
    BY <2>1, <2>2, <2>3, <2>5, WroteOut DEF OnlyOf, Only, written
<1>15. ASSUME NEW j \in DOMAIN job, NEW ok \in BOOLEAN, NEW s \in job[j].plan, Disk!WriteSidecar(j, s, ok)
       PROVE  UndoWell'
  <2>1. Map
    BY <1>1, <1>15, MapsOfFiles DEF Disk!WriteSidecar
  <2>2. OnlyOf(j) /\ job[j] \in Disk!Jobs /\ job'[j].stage = "sidecars"
    BY <1>15, WriteSidecarWell DEF Keeps, DiskTyped
  <2>3. Disk!SidecarTarget(j, s).dir.root = "out"
    BY SidecarPaths DEF JobsWell, JobWell
  <2> DEFINE todo == job[j].todo \ {s}
             written == job[j].written \union {Disk!SidecarTarget(j, s)}
  <2>4. \/ job' = [job EXCEPT ![j] = [job[j] EXCEPT !.todo = todo, !.written = written]]
        \/ job' = [job EXCEPT ![j] = [job[j] EXCEPT !.todo = todo]]
        \/ job' = [job EXCEPT ![j] = [job[j] EXCEPT !.todo = todo, !.errors = TRUE]]
    BY <1>15, <2>2 DEF Disk!WriteSidecar, Disk!Jobs
  <2> HIDE DEF todo, written
  <2>5. job'[j].written \in {written, job[j].written}
    BY <2>2, <2>4 DEF Disk!Jobs
  <2> QED
    BY <2>1, <2>2, <2>3, <2>5, WroteOut DEF OnlyOf, Only, written
<1>16. ASSUME NEW p \in scene.files, Disk!UserRemoves(p) \/ Disk!UserAdds(p) PROVE UndoWell'
  <2>1. Map /\ job' = job
    BY <1>16, MapsOfFiles DEF Disk!UserRemoves, Disk!UserAdds
  <2> QED
    BY <2>1 DEF UndoWell, Only
<1> HIDE DEF Map
<1> QED
  BY <1>4, <1>5, <1>6, <1>7, <1>8, <1>9, <1>10, <1>11, <1>12, <1>13, <1>14, <1>15, <1>16
     DEF Disk!JobFilesNext, Disk!JobIds

LEMMA TreeStarts == Disk!JobFilesInit => TreeInv
<1> SUFFICES ASSUME Disk!JobFilesInit PROVE TreeInv
  OBVIOUS
<1>1. /\ disk = [p \in scene.files |-> p] /\ folders = Disk!FirstFolders
      /\ \A j \in DOMAIN job : /\ job[j].moved = {} /\ job[j].written = {} /\ job[j].todo = {}
                               /\ job[j].stage = "draft"
  BY DEF Disk!JobFilesInit
<1>2. UndoWell
  BY <1>1 DEF UndoWell
<1>3. OutsideUntouched /\ FilesTold /\ FoldersExplained
  BY <1>1 DEF OutsideUntouched, FilesTold, FilesExplained, MovesTold, FilesThere, FoldersExplained,
              Outstanding, Disk!Exists
<1> QED
  BY <1>2, <1>3 DEF TreeInv, TreeTold

LEMMA TreeStep == DiskInv /\ TreeInv /\ Disk!JobFilesNext => TreeInv'
<1> SUFFICES ASSUME DiskInv, TreeInv, Disk!JobFilesNext PROVE TreeInv'
  OBVIOUS
<1>1. DiskTyped /\ JobsWell
  BY DEF DiskInv
<1>2. UndoWell'
  BY <1>1, UndoStep DEF TreeInv
<1>3. Ends
  <2>1. ASSUME NEW j \in DOMAIN job, NEW want \in Settings, Disk!Submit(j, want) PROVE Ends
    BY <1>1, <2>1, SubmitEnds
  <2>2. ASSUME NEW j \in DOMAIN job,
               \/ Disk!Execute(j) \/ Disk!AllSourcesMissing(j) \/ Disk!StartMuxing(j) \/ Disk!StartSidecars(j)
               \/ Disk!Complete(j) \/ Disk!RemoveGenerated(j) \/ Disk!Tidy(j)
        PROVE  Ends
    BY <1>1, <2>2, ExecuteEnds, SourcesMissingEnds, StartMuxingEnds, StartSidecarsEnds, CompleteEnds,
       RemoveGeneratedEnds, TidyEnds
  <2>3. ASSUME NEW j \in DOMAIN job, NEW ok \in BOOLEAN, NEW op \in job[j].ops,
               Disk!Move(j, op, ok) \/ Disk!Mux(j, op, ok) \/ Disk!Restore(j, op, ok)
        PROVE  Ends
    BY <1>1, <2>3, MoveEnds, MuxEnds, RestoreEnds
  <2>4. ASSUME NEW j \in DOMAIN job, NEW ok \in BOOLEAN, NEW s \in job[j].plan, Disk!WriteSidecar(j, s, ok)
        PROVE  Ends
    BY <1>1, <2>4, WriteSidecarEnds
  <2>5. ASSUME NEW p \in scene.files, Disk!UserRemoves(p) \/ Disk!UserAdds(p) PROVE Ends
    BY <1>1, <2>5, UsersEnd
  <2> QED
    BY <2>1, <2>2, <2>3, <2>4, <2>5 DEF Disk!JobFilesNext, Disk!JobIds
<1> QED
  BY <1>2, <1>3 DEF Ends, Ordered, TreeInv

LEMMA TreeStays == TreeInv /\ UNCHANGED diskVars => TreeInv'
<1> SUFFICES ASSUME TreeInv, UNCHANGED diskVars PROVE TreeInv'
  OBVIOUS
<1>1. /\ scene' = scene /\ disk' = disk /\ folders' = folders /\ job' = job
      /\ intrusions' = intrusions
  BY DEF diskVars
<1>2. UndoWell'
  BY <1>1 DEF TreeInv, UndoWell, Only
<1>3. Remembers
  BY <1>1 DEF Remembers, Disk!New
<1>4. \A k \in DOMAIN job : /\ Outstanding(k)' = Outstanding(k) /\ Outputs(k) \subseteq Outputs(k)'
                            /\ LeftBy(k) \subseteq LeftBy(k)'
  BY <1>1, <1>3, LeftGrows DEF Outstanding, Outputs, Only
<1>5. Ordered => OutsideUntouched'
  BY <1>1, <1>3, OutsideStays DEF Ordered, TreeInv, TreeTold, Only
<1> QED
  BY <1>1, <1>2, <1>3, <1>4, <1>5, QuietEnds DEF Ends, Ordered, TreeInv

\* Where every job is undone, nothing is outstanding, written or left.
LEMMA TreeTells ==
    ASSUME DiskInv, TreeInv PROVE Disk!RevertRestoresTree
<1> SUFFICES ASSUME intrusions = 0,
                    \A j \in DOMAIN job : Disk!Undone(j) /\ job[j].written \cap Disk!UsersPlaces = {}
             PROVE  Disk!Restored
  BY DEF Disk!RevertRestoresTree, Disk!JobIds
<1>1. JobsWell /\ UndoWell
  BY DEF DiskInv, TreeInv
<1>2. \A j \in DOMAIN job : Outstanding(j) = {} /\ Outputs(j) = {} /\ LeftBy(j) = {}
  <2> TAKE j \in DOMAIN job
  <2>1. CASE Only(j, {"draft", "queued", "reverted"})
    <3>1. Only(j, {"draft", "queued"}) => job[j].moved = {}
      BY <1>1 DEF JobsWell, JobWell, StageWell
    <3> QED
      BY <2>1, <3>1 DEF Outstanding, Outputs, LeftBy, Only
  <2>2. CASE Only(j, {"failed"}) /\ job[j].made = {}
    <3>1. job[j].moved = {} /\ job[j].written = {}
      BY <1>1, <2>2 DEF UndoWell
    <3> QED
      BY <2>2, <3>1 DEF Outstanding, Outputs, LeftBy, Disk!Left
  <2> QED
    BY <2>1, <2>2 DEF Disk!Undone, Disk!Stage, Only
<1>3. TreeTold
  BY <1>2 DEF TreeInv, Unhurt, Covered
<1>4. DOMAIN disk = scene.files /\ \A p \in scene.files : disk[p] = p
  BY <1>2, <1>3 DEF TreeTold, FilesTold, FilesExplained, FilesThere, Disk!Exists
<1>5. disk = [p \in scene.files |-> p]
  BY <1>1, <1>4 DEF UndoWell
<1>6. folders = Disk!FirstFolders
  BY <1>2, <1>3 DEF TreeTold, FoldersExplained
<1> QED
  BY <1>5, <1>6 DEF Disk!Restored

LEMMA TreeInSuite == SuiteSpec => [](part = "files" => DiskInv /\ TreeInv)
<1>1. SuiteInit => (part = "files" => DiskInv /\ TreeInv)
  BY DiskStarts, TreeStarts DEF SuiteInit
<1>2. (part = "files" => DiskInv /\ TreeInv) /\ [SuiteNext]_suiteVars
        => (part = "files" => DiskInv /\ TreeInv)'
  <2> SUFFICES ASSUME part = "files" => DiskInv /\ TreeInv, [SuiteNext]_suiteVars, part' = "files"
               PROVE  DiskInv' /\ TreeInv'
    OBVIOUS
  <2>1. CASE part = "files" /\ Disk!JobFilesNext
    BY <2>1, DiskStep, TreeStep
  <2>2. CASE UNCHANGED suiteVars
    BY <2>2, DiskStays, TreeStays DEF suiteVars
  <2> QED
    BY <2>1, <2>2 DEF SuiteNext
<1> QED
  BY <1>1, <1>2, PTL DEF SuiteSpec

\* Reverts restore the tree, for any release and output root, any number of rename and
\* remux jobs, in any order of their moves, outputs, sidecars and reverts, and with
\* reverts that fail in part: when every job is undone or was not
\* executed, each file is back, and nothing else is left, unless the user was at work
\* or a job wrote where a file of the user was (_job_revert.py,
\* _job_execution_filesystem.py, _job_execution_metadata.py).
THEOREM RevertsAlwaysRestore == SuiteSpec => []RevertsRestoreTheTree
<1>1. (part = "files" => DiskInv /\ TreeInv) => RevertsRestoreTheTree
  BY TreeTells DEF RevertsRestoreTheTree
<1> QED
  BY <1>1, TreeInSuite, PTL
=============================================================================
