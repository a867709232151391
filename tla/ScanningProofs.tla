---------------------------- MODULE ScanningProofs ----------------------------
(***************************************************************************)
(* Theorems about how folders become shows and movies.                     *)
(***************************************************************************)
EXTENDS MCScanning, FiniteSetTheorems, SequenceTheorems, TLAPS

(***************************************************************************)
(* The sessions of the scans, for any number of starts and tab switches.   *)
(***************************************************************************)
Stages == {"idle", "work", "check", "publish", "announce", "finish", "handover", "takeback", "done"}
Workers == [kind : {"tv", "movie", "bulk", "show"}, pc : Stages,
            outcome : {"ok", "empty", "failed", "cancelled"}, cancelled : BOOLEAN, late : BOOLEAN,
            undisturbed : BOOLEAN, uses : Sessions!Scans \cup {Sessions!None}]
Snapshots == [taken : BOOLEAN, list : Sessions!Scans \cup {Sessions!None}, orch : Sessions!Scans \cup {Sessions!None}]
News == {"library_changed", "scan_complete"}

WorkerTypes ==
    /\ op \in [Sessions!Scans -> Workers]
    /\ token \in Sessions!Scans \cup {Sessions!None} /\ begun \in Nat
    /\ contents \in [Sessions!Scans -> {"none", "unscanned", "scanned"}]
    /\ progress \in Sessions!Lifecycles /\ events \in Seq(News) /\ starts \in Nat
PageTypes ==
    /\ mode \in Sessions!Kinds /\ tab \in Sessions!Kinds
    /\ page \in [Sessions!Kinds -> {"empty", "scanning", "ready"}]
    /\ warming \in [Sessions!Kinds -> BOOLEAN]
ListTypes ==
    /\ sessionLibrary \in [Sessions!Kinds -> Sessions!Scans \cup {Sessions!None}]
    /\ orchestrated \in [Sessions!Scans -> Sessions!Scans \cup {Sessions!None}]
    /\ orchestrator \in Sessions!Scans \cup {Sessions!None}
    /\ snapshot \in [Sessions!Kinds -> Snapshots]

\* A start is worth two scans: its own, and the bulk scan that its completion may
\* bring about.
Untold == {"work", "check", "publish", "announce", "handover", "takeback"}
Telling == {t \in Sessions!Scans : op[t].kind # "bulk" /\ op[t].pc \in Untold}
Completions(news) == {i \in 1 .. Len(news) : news[i] = "scan_complete"}
StartsCounted ==
    /\ starts <= MaxStarts
    /\ begun + Cardinality(Telling) + Cardinality(Completions(events)) <= 2 * starts

\* Scans begin in order, and the token never comes back to one that lost it.
ScansInOrder ==
    /\ token <= begun
    /\ \A t \in Sessions!Scans \ {Sessions!ShowScan} :
          /\ op[t].kind # "show" /\ op[t].pc \notin {"handover", "takeback"}
          /\ t > begun => op[t].pc = "idle"
    /\ op[Sessions!ShowScan].pc # "idle" => op[Sessions!ShowScan].kind = "show"
    /\ \A t \in Sessions!Scans :
          /\ op[t].outcome = "empty" => op[t].kind \in Sessions!Kinds
          /\ op[t].late => op[t].pc \in {"check", "done"} /\ token # t
    /\ Sessions!NewestScanCancellable

\* Lists that are shown, remembered or worked on have been filled.
Listed == {sessionLibrary[k] : k \in Sessions!Kinds} \cup {snapshot[k].list : k \in Sessions!Kinds}
          \cup {orchestrated[t] : t \in Sessions!Scans}
ListsFilled ==
    /\ \A l \in Listed : l # Sessions!None => contents[l] # "none"
    /\ \A t \in Sessions!Scans :
          op[t].kind \in Sessions!Kinds /\ op[t].pc \in {"check", "publish"} /\ op[t].outcome = "ok"
             => contents[t] # "none"

\* A TV session with a list has an orchestrator, also after it was left and entered
\* again.
TvBegun == \E t \in Sessions!Scans : op[t].kind = "tv" /\ op[t].pc # "idle"
OrchestratorThere ==
    /\ snapshot["tv"].taken /\ (tab = "tv" => mode = "tv")
    /\ TvBegun => orchestrator # Sessions!None /\ (tab = "movie" => snapshot["tv"].orch # Sessions!None)
    /\ sessionLibrary["tv"] # Sessions!None \/ snapshot["tv"].list # Sessions!None
          \/ (\E t \in Sessions!Scans : orchestrated[t] # Sessions!None) \/ op[Sessions!ShowScan].pc # "idle" => TvBegun
    /\ \A t \in Sessions!Scans :
          op[t].pc = "takeback" \/ (op[t].kind = "bulk" /\ op[t].pc = "work") => op[t].uses # Sessions!None

\* A list that no single-show scan put back was published while its scan was the
\* newest.
Published(l) ==
    l # Sessions!None /\ l \notin adopted =>
        l # Sessions!ShowScan /\ op[l].pc \in {"announce", "finish", "done"} /\ ~op[l].late
ListsInTime == \A k \in Sessions!Kinds : Published(sessionLibrary[k]) /\ Published(snapshot[k].list)

\* While the page of an undisturbed newest scan is scanning, that scan runs alone,
\* or what it ended with is announced and will bring the page up.
Waits(t) == t > 0 /\ op[t].undisturbed /\ page[Sessions!KindOf(t)] = "scanning" /\ ~warming[Sessions!KindOf(t)]
Alone(t) == \A u \in Sessions!Scans \ {t} : ~Sessions!Running(u)
Took(t) ==
    IF op[t].kind = "bulk" THEN sessionLibrary["tv"] # Sessions!None
    ELSE op[t].pc \in {"announce", "finish", "done"} /\ op[t].outcome # "failed" =>
            sessionLibrary[op[t].kind] = IF op[t].outcome = "ok" THEN t ELSE Sessions!None
Announced(t) ==
    op[t].pc \in {"finish", "done"} /\ op[t].outcome # "failed" =>
        /\ events # <<>>
        /\ op[t].outcome = "cancelled" => progress = "cancelled"
        /\ op[t].outcome = "empty" => progress = "warning"
        /\ op[t].outcome = "ok" /\ op[t].kind # "tv" => progress = "ready"
        /\ op[t].outcome = "ok" /\ op[t].kind = "tv" =>
              progress = "working" /\ \E i \in 1 .. Len(events) : events[i] = "scan_complete"
PagesComeUp ==
    Waits(begun) => /\ mode = Sessions!KindOf(begun) /\ Alone(begun) /\ op[begun].pc # "idle"
                    /\ Took(begun) /\ Announced(begun)

SessionInv ==
    /\ WorkerTypes /\ PageTypes /\ ListTypes /\ StartsCounted /\ ScansInOrder /\ ListsFilled
    /\ OrchestratorThere /\ ListsInTime /\ PagesComeUp

(* Numbers of scans. *)

LEMMA ScanNumbers ==
    /\ Sessions!ShowScan \in Nat /\ Sessions!ShowScan = 2 * MaxStarts + 1
    /\ Sessions!Scans = 1 .. Sessions!ShowScan /\ Sessions!ShowScan \in Sessions!Scans
    /\ Sessions!None = 0 /\ Sessions!None \notin Sessions!Scans
    /\ Sessions!Kinds = {"tv", "movie"}
BY ScanningAssumption DEF Sessions!ShowScan, Sessions!Scans, Sessions!None, Sessions!Kinds

(* What a step makes of one worker. *)

\* The worker of t moves to a stage; its kind and whether it began undisturbed stay.
Moves(t, pc) ==
    /\ op' \in [Sessions!Scans -> Workers]
    /\ \A u \in Sessions!Scans \ {t} : op'[u] = op[u]
    /\ op'[t].pc = pc /\ op'[t].kind = op[t].kind /\ op'[t].undisturbed = op[t].undisturbed

LEMMA WorkerStages ==
    ASSUME NEW w \in Workers, NEW pc \in Stages
    PROVE  LET v == [w EXCEPT !.pc = pc]
           IN  /\ v \in Workers /\ v.pc = pc /\ v.kind = w.kind /\ v.outcome = w.outcome
               /\ v.late = w.late /\ v.undisturbed = w.undisturbed /\ v.uses = w.uses
BY DEF Workers

LEMMA WorkerEnds ==
    ASSUME WorkerTypes, NEW t \in Sessions!Scans
    PROVE  LET v == Sessions!Ended(t)
           IN  /\ v \in Workers /\ v.pc = "done" /\ v.kind = op[t].kind
               /\ v.outcome = op[t].outcome /\ v.late = op[t].late
               /\ v.undisturbed = op[t].undisturbed /\ v.uses = Sessions!None
<1> DEFINE w == op[t]
           v == [w EXCEPT !.pc = "done", !.uses = Sessions!None, !.cancelled = FALSE]
<1>1. w \in Workers
  BY DEF WorkerTypes
<1>2. Sessions!Ended(t) = v
  BY DEF Sessions!Ended
<1> HIDE DEF w
<1>3. /\ v \in Workers /\ v.pc = "done" /\ v.kind = w.kind
      /\ v.outcome = w.outcome /\ v.late = w.late
      /\ v.undisturbed = w.undisturbed /\ v.uses = Sessions!None
  BY <1>1 DEF Workers, Stages
<1> HIDE DEF v
<1> QED
  BY <1>2, <1>3 DEF w

LEMMA OneWorker ==
    ASSUME WorkerTypes, NEW t \in Sessions!Scans, NEW v \in Workers, op' = [op EXCEPT ![t] = v]
    PROVE  /\ op' \in [Sessions!Scans -> Workers] /\ op'[t] = v
           /\ \A u \in Sessions!Scans \ {t} : op'[u] = op[u]
BY DEF WorkerTypes

LEMMA StageMoves ==
    ASSUME WorkerTypes, NEW t \in Sessions!Scans, NEW pc \in Stages,
           op' = [op EXCEPT ![t] = [op[t] EXCEPT !.pc = pc]]
    PROVE  /\ Moves(t, pc) /\ op'[t].outcome = op[t].outcome /\ op'[t].late = op[t].late
           /\ op'[t].uses = op[t].uses
<1> DEFINE v == [op[t] EXCEPT !.pc = pc]
<1>1. op[t] \in Workers
  BY DEF WorkerTypes
<1>2. /\ v \in Workers /\ v.pc = pc /\ v.kind = op[t].kind /\ v.outcome = op[t].outcome
      /\ v.late = op[t].late /\ v.undisturbed = op[t].undisturbed /\ v.uses = op[t].uses
  BY <1>1, WorkerStages
<1>3. op' = [op EXCEPT ![t] = v]
  OBVIOUS
<1> HIDE DEF v
<1>4. /\ op' \in [Sessions!Scans -> Workers] /\ op'[t] = v
      /\ \A u \in Sessions!Scans \ {t} : op'[u] = op[u]
  BY <1>2, <1>3, OneWorker
<1> QED
  BY <1>2, <1>4 DEF Moves

LEMMA EndMoves ==
    ASSUME WorkerTypes, NEW t \in Sessions!Scans, op' = [op EXCEPT ![t] = Sessions!Ended(t)]
    PROVE  /\ Moves(t, "done") /\ op'[t].outcome = op[t].outcome /\ op'[t].late = op[t].late
           /\ op'[t].uses = Sessions!None
<1> DEFINE v == Sessions!Ended(t)
<1>1. /\ v \in Workers /\ v.pc = "done" /\ v.kind = op[t].kind /\ v.outcome = op[t].outcome
      /\ v.late = op[t].late /\ v.undisturbed = op[t].undisturbed /\ v.uses = Sessions!None
  BY WorkerEnds
<1> HIDE DEF v
<1>2. op' = [op EXCEPT ![t] = v]
  BY DEF v
<1>3. /\ op' \in [Sessions!Scans -> Workers] /\ op'[t] = v
      /\ \A u \in Sessions!Scans \ {t} : op'[u] = op[u]
  BY <1>1, <1>2, OneWorker
<1> QED
  BY <1>1, <1>3 DEF Moves

LEMMA CheckMoves ==
    ASSUME WorkerTypes, NEW t \in Sessions!Scans, Sessions!CheckCurrent(t)
    PROVE  /\ op[t].pc = "check"
           /\ op'[t].outcome = op[t].outcome /\ op'[t].late = op[t].late
           /\ token = t => Moves(t, "publish") /\ op'[t].uses = op[t].uses
           /\ token # t => Moves(t, "done")
<1>1. op[t].pc = "check"
  BY DEF Sessions!CheckCurrent
<1>2. CASE token = t
  <2>1. op' = [op EXCEPT ![t] = [op[t] EXCEPT !.pc = "publish"]]
    BY <1>2 DEF Sessions!CheckCurrent
  <2>2. "publish" \in Stages
    BY DEF Stages
  <2> QED
    BY <1>1, <1>2, <2>1, <2>2, StageMoves
<1>3. CASE token # t
  <2>1. op' = [op EXCEPT ![t] = Sessions!Ended(t)]
    BY <1>3 DEF Sessions!CheckCurrent
  <2> QED
    BY <1>1, <1>3, <2>1, EndMoves
<1> QED
  BY <1>2, <1>3

LEMMA PublishMoves ==
    ASSUME WorkerTypes, NEW t \in Sessions!Scans, Sessions!Publish(t)
    PROVE  /\ op[t].pc = "publish" /\ Moves(t, "announce")
           /\ op'[t].outcome = op[t].outcome /\ op'[t].late = op[t].late
           /\ op'[t].uses = op[t].uses
<1>1. op[t].pc = "publish" /\ op' = [op EXCEPT ![t] = [op[t] EXCEPT !.pc = "announce"]]
  BY DEF Sessions!Publish
<1> QED
  BY <1>1, StageMoves DEF Stages

LEMMA AnnounceMoves ==
    ASSUME WorkerTypes, NEW t \in Sessions!Scans, Sessions!Announce(t)
    PROVE  /\ op[t].pc = "announce" /\ Moves(t, IF op[t].kind = "show" THEN "done" ELSE "finish")
           /\ op'[t].outcome = op[t].outcome /\ op'[t].late = op[t].late
<1>1. op[t].pc = "announce"
  BY DEF Sessions!Announce
<1>2. CASE op[t].kind = "show"
  <2>1. op' = [op EXCEPT ![t] = Sessions!Ended(t)]
    BY <1>2 DEF Sessions!Announce
  <2> QED
    BY <1>1, <1>2, <2>1, EndMoves
<1>3. CASE op[t].kind # "show"
  <2>1. op' = [op EXCEPT ![t] = [op[t] EXCEPT !.pc = "finish"]]
    BY <1>3 DEF Sessions!Announce
  <2> QED
    BY <1>1, <1>3, <2>1, StageMoves DEF Stages
<1> QED
  BY <1>2, <1>3

LEMMA FinishMoves ==
    ASSUME WorkerTypes, NEW t \in Sessions!Scans, Sessions!FinishScan(t)
    PROVE  /\ op[t].pc = "finish" /\ Moves(t, "done")
           /\ op'[t].outcome = op[t].outcome /\ op'[t].late = op[t].late
BY EndMoves DEF Sessions!FinishScan

LEMMA TakeBackMoves ==
    ASSUME WorkerTypes, NEW t \in Sessions!Scans, Sessions!TakeBack(t)
    PROVE  /\ op[t].pc = "takeback" /\ Moves(t, "announce")
           /\ op'[t].outcome = op[t].outcome /\ op'[t].late = op[t].late
<1>1. op[t].pc = "takeback" /\ op' = [op EXCEPT ![t] = [op[t] EXCEPT !.pc = "announce"]]
  BY DEF Sessions!TakeBack
<1> QED
  BY <1>1, StageMoves DEF Stages

LEMMA HandOverMoves ==
    ASSUME WorkerTypes, orchestrator \in Sessions!Scans \cup {Sessions!None},
           NEW t \in Sessions!Scans, Sessions!HandOver(t)
    PROVE  /\ op[t].pc = "handover" /\ Moves(t, "takeback")
           /\ op'[t].outcome = op[t].outcome /\ op'[t].late = op[t].late
           /\ op'[t].uses = orchestrator
<1> DEFINE w == op[t]
           v == [w EXCEPT !.pc = "takeback", !.uses = orchestrator]
<1>1. w \in Workers
  BY DEF WorkerTypes
<1>2. op[t].pc = "handover" /\ op' = [op EXCEPT ![t] = v]
  BY DEF Sessions!HandOver
<1> HIDE DEF w
<1>3. /\ v \in Workers /\ v.pc = "takeback" /\ v.kind = w.kind /\ v.outcome = w.outcome
      /\ v.late = w.late /\ v.undisturbed = w.undisturbed /\ v.uses = orchestrator
  BY <1>1 DEF Workers, Stages
<1> HIDE DEF v
<1>4. /\ op' \in [Sessions!Scans -> Workers] /\ op'[t] = v
      /\ \A u \in Sessions!Scans \ {t} : op'[u] = op[u]
  BY <1>2, <1>3, OneWorker
<1> QED
  BY <1>2, <1>3, <1>4 DEF Moves, w

LEMMA WorkMoves ==
    ASSUME WorkerTypes, NEW t \in Sessions!Scans, Sessions!WorkEnds(t)
    PROVE  /\ op[t].pc = "work"
           /\ \E out \in Sessions!Outcomes(t) :
                /\ Moves(t, IF op[t].kind # "show" THEN "check"
                            ELSE IF out = "ok" THEN "handover" ELSE "announce")
                /\ op'[t].outcome = out
                /\ op'[t].late => op[t].kind # "show" /\ token # t
                /\ op[t].kind \in Sessions!Kinds /\ out = "ok" =>
                      /\ \E c \in {"unscanned", "scanned"} : contents' = [contents EXCEPT ![t] = c]
                      /\ orchestrated' = IF op[t].kind = "tv"
                                           THEN [orchestrated EXCEPT ![t] = t] ELSE orchestrated
                /\ ~(op[t].kind \in Sessions!Kinds /\ out = "ok") =>
                      /\ \/ \E l : contents' = [contents EXCEPT ![l] = "scanned"]
                         \/ contents' = contents
                      /\ orchestrated' = orchestrated
<1>1. op[t].pc = "work"
  BY DEF Sessions!WorkEnds
<1>2. PICK out \in Sessions!Outcomes(t) :
         /\ op' = [op EXCEPT ![t].outcome = out,
                             ![t].late = op[t].kind # "show" /\ token # t,
                             ![t].pc = IF op[t].kind = "show"
                                         THEN IF out = "ok" THEN "handover" ELSE "announce"
                                         ELSE "check"]
         /\ CASE op[t].kind \in Sessions!Kinds /\ out = "ok" ->
                   /\ \E c \in (IF op[t].kind = "tv" THEN {"unscanned", "scanned"} ELSE {"scanned"}) :
                         contents' = [contents EXCEPT ![t] = c]
                   /\ orchestrated' = IF op[t].kind = "tv"
                                        THEN [orchestrated EXCEPT ![t] = t] ELSE orchestrated
              [] op[t].kind = "bulk" /\ out = "ok" /\ orchestrated[op[t].uses] # Sessions!None ->
                   /\ contents' = [contents EXCEPT ![orchestrated[op[t].uses]] = "scanned"]
                   /\ UNCHANGED orchestrated
              [] OTHER -> UNCHANGED <<contents, orchestrated>>
  BY DEF Sessions!WorkEnds
<1> DEFINE w == op[t]
           isLate == w.kind # "show" /\ token # t
           pc == IF w.kind # "show" THEN "check" ELSE IF out = "ok" THEN "handover" ELSE "announce"
           v == [w EXCEPT !.outcome = out, !.late = isLate, !.pc = pc]
<1>3. w \in Workers
  BY DEF WorkerTypes
<1>4. op' = [op EXCEPT ![t] = v]
  BY <1>2 DEF WorkerTypes
<1>5. out \in {"ok", "empty", "failed", "cancelled"} /\ pc \in Stages /\ isLate \in BOOLEAN
  BY DEF Sessions!Outcomes, Stages
<1> HIDE DEF w, isLate, pc
<1>6. /\ v \in Workers /\ v.pc = pc /\ v.kind = w.kind /\ v.outcome = out
      /\ v.late = isLate /\ v.undisturbed = w.undisturbed
  BY <1>3, <1>5 DEF Workers
<1> HIDE DEF v
<1>7. /\ op' \in [Sessions!Scans -> Workers] /\ op'[t] = v
      /\ \A u \in Sessions!Scans \ {t} : op'[u] = op[u]
  BY <1>4, <1>6, OneWorker
<1>8. Moves(t, pc) /\ op'[t].outcome = out /\ op'[t].late = isLate
  BY <1>6, <1>7 DEF Moves, w
<1>9. /\ Moves(t, IF op[t].kind # "show" THEN "check"
                  ELSE IF out = "ok" THEN "handover" ELSE "announce")
      /\ op'[t].outcome = out
      /\ op'[t].late => op[t].kind # "show" /\ token # t
  BY <1>8 DEF pc, isLate, w
<1>10. CASE op[t].kind \in Sessions!Kinds /\ out = "ok"
  <2>1. op[t].kind # "bulk"
    BY <1>10, ScanNumbers
  <2>2. PICK c \in (IF op[t].kind = "tv" THEN {"unscanned", "scanned"} ELSE {"scanned"}) :
           contents' = [contents EXCEPT ![t] = c]
    BY <1>2, <1>10, <2>1
  <2>3. orchestrated' = IF op[t].kind = "tv" THEN [orchestrated EXCEPT ![t] = t] ELSE orchestrated
    BY <1>2, <1>10, <2>1
  <2> QED
    BY <1>1, <1>9, <1>10, <2>2, <2>3
<1>11. CASE ~(op[t].kind \in Sessions!Kinds /\ out = "ok")
  BY <1>1, <1>2, <1>9, <1>11
<1> QED
  BY <1>10, <1>11

(* What a move of one worker leaves as it was. *)

LEMMA SetsAreFinite ==
    ASSUME WorkerTypes
    PROVE  /\ IsFiniteSet(Telling) /\ Cardinality(Telling) \in Nat
           /\ IsFiniteSet(Completions(events)) /\ Cardinality(Completions(events)) \in Nat
<1>1. IsFiniteSet(Sessions!Scans)
  BY ScanNumbers, FS_Interval
<1>2. Telling \in SUBSET Sessions!Scans
  BY DEF Telling
<1>3. IsFiniteSet(Telling)
  BY <1>1, <1>2, FS_Subset
<1>4. Len(events) \in Nat
  BY DEF WorkerTypes
<1>5. IsFiniteSet(1 .. Len(events)) /\ Completions(events) \in SUBSET (1 .. Len(events))
  BY <1>4, FS_Interval DEF Completions
<1>6. IsFiniteSet(Completions(events))
  BY <1>5, FS_Subset
<1> QED
  BY <1>3, <1>6, FS_CardinalityType

LEMMA BegunIsScan ==
    ASSUME WorkerTypes, StartsCounted
    PROVE  /\ begun \in 0 .. 2 * MaxStarts /\ (begun > 0 => begun \in Sessions!Scans)
           /\ begun # Sessions!ShowScan
<1>1. begun <= 2 * starts /\ starts <= MaxStarts /\ begun \in Nat /\ starts \in Nat
  BY SetsAreFinite DEF StartsCounted, WorkerTypes
<1> QED
  BY <1>1, ScanNumbers, ScanningAssumption

LEMMA MovesKeepCount ==
    ASSUME WorkerTypes, StartsCounted, NEW t \in Sessions!Scans, NEW pc, Moves(t, pc),
           op[t].pc \in Untold \/ pc \notin Untold, UNCHANGED <<begun, starts, events>>
    PROVE  StartsCounted'
<1>1. Telling' \in SUBSET Telling
  BY DEF Moves, Telling
<1>2. Cardinality(Telling') <= Cardinality(Telling) /\ Cardinality(Telling') \in Nat
  BY <1>1, SetsAreFinite, FS_Subset, FS_CardinalityType
<1>3. Cardinality(Telling) \in Nat /\ Cardinality(Completions(events)) \in Nat
  BY SetsAreFinite
<1>4. begun \in Nat /\ starts \in Nat
  BY DEF WorkerTypes
<1>5. Completions(events)' = Completions(events)
  BY DEF Completions
<1>6. begun' + Cardinality(Telling') + Cardinality(Completions(events)) <= 2 * starts'
  BY <1>2, <1>3, <1>4 DEF StartsCounted
<1> QED
  BY <1>5, <1>6 DEF StartsCounted

Working == {"work", "check", "publish", "announce", "finish"}

LEMMA MovesKeepOrder ==
    ASSUME WorkerTypes, ScansInOrder, NEW t \in Sessions!Scans, NEW pc, Moves(t, pc),
           op[t].pc # "idle", UNCHANGED begun,
           token' = token \/ (token' = Sessions!None /\ token = t /\ pc = "done"),
           pc \in {"handover", "takeback"} => t = Sessions!ShowScan,
           op'[t].outcome = "empty" => op[t].kind \in Sessions!Kinds,
           op'[t].late => pc \in {"check", "done"} /\ token # t,
           pc \in Working => op[t].pc \in Working \/ t = Sessions!ShowScan
    PROVE  ScansInOrder'
<1>0. begun \in Nat /\ (token \in Sessions!Scans \/ token = 0)
  BY ScanNumbers DEF WorkerTypes
<1>1. token' <= begun'
  BY <1>0, ScanNumbers DEF ScansInOrder
<1>2. ASSUME NEW u \in Sessions!Scans \ {Sessions!ShowScan}
      PROVE  /\ op'[u].kind # "show" /\ op'[u].pc \notin {"handover", "takeback"}
             /\ u > begun' => op'[u].pc = "idle"
  <2>1. CASE u = t
    BY <2>1 DEF Moves, ScansInOrder
  <2>2. CASE u # t
    BY <2>2 DEF Moves, ScansInOrder
  <2> QED
    BY <2>1, <2>2
<1>3. op'[Sessions!ShowScan].pc # "idle" => op'[Sessions!ShowScan].kind = "show"
  BY ScanNumbers DEF Moves, ScansInOrder
<1>4. ASSUME NEW u \in Sessions!Scans
      PROVE  /\ op'[u].outcome = "empty" => op'[u].kind \in Sessions!Kinds
             /\ op'[u].late => op'[u].pc \in {"check", "done"} /\ token' # u
  <2>1. CASE u = t
    BY <2>1, ScanNumbers DEF Moves
  <2>2. CASE u # t
    BY <2>2, ScanNumbers DEF Moves, ScansInOrder
  <2> QED
    BY <2>1, <2>2
<1>5. Sessions!NewestScanCancellable'
  <2> SUFFICES ASSUME NEW u \in Sessions!Scans \ {Sessions!ShowScan}, u = begun, op'[u].pc \in Working
               PROVE  token' = u
    BY DEF Sessions!NewestScanCancellable, Working
  <2>1. CASE u = t
    <3>1. op[t].pc \in Working /\ token' = token
      BY <2>1 DEF Moves, Working
    <3> QED
      BY <2>1, <3>1 DEF ScansInOrder, Sessions!NewestScanCancellable, Working
  <2>2. CASE u # t
    <3>1. token = u
      BY <2>2 DEF Moves, ScansInOrder, Sessions!NewestScanCancellable, Working
    <3> QED
      BY <2>2, <3>1
  <2> QED
    BY <2>1, <2>2
<1> QED
  BY <1>1, <1>2, <1>3, <1>4, <1>5 DEF ScansInOrder

LEMMA MovesKeepFilled ==
    ASSUME ListsFilled, NEW t \in Sessions!Scans, NEW pc, Moves(t, pc),
           UNCHANGED <<contents, sessionLibrary, snapshot, orchestrated>>,
           pc \in {"check", "publish"} => op[t].pc \in {"check", "publish"}
                                          /\ op'[t].outcome = op[t].outcome
    PROVE  ListsFilled'
<1>1. Listed' = Listed
  BY DEF Listed
<1>2. ASSUME NEW u \in Sessions!Scans,
             op'[u].kind \in Sessions!Kinds, op'[u].pc \in {"check", "publish"}, op'[u].outcome = "ok"
      PROVE  contents[u] # "none"
  BY <1>2 DEF Moves, ListsFilled
<1> QED
  BY <1>1, <1>2 DEF ListsFilled

LEMMA MovesKeepBegun ==
    ASSUME NEW t \in Sessions!Scans, NEW pc, Moves(t, pc), op[t].pc # "idle", pc # "idle"
    PROVE  TvBegun' <=> TvBegun
BY DEF Moves, TvBegun

LEMMA MovesKeepOrchestrator ==
    ASSUME OrchestratorThere, NEW t \in Sessions!Scans, NEW pc, Moves(t, pc),
           op[t].pc # "idle", pc # "idle", pc # "work", pc = "takeback" => op'[t].uses # Sessions!None,
           UNCHANGED <<snapshot, tab, mode, orchestrator>>,
           sessionLibrary'["tv"] # Sessions!None \/ (\E u \in Sessions!Scans : orchestrated'[u] # Sessions!None)
              => TvBegun
    PROVE  OrchestratorThere'
<1>1. TvBegun' <=> TvBegun
  BY MovesKeepBegun
<1>2. op'[Sessions!ShowScan].pc # "idle" => op[Sessions!ShowScan].pc # "idle"
  BY ScanNumbers DEF Moves
<1>3. ASSUME NEW u \in Sessions!Scans,
             op'[u].pc = "takeback" \/ (op'[u].kind = "bulk" /\ op'[u].pc = "work")
      PROVE  op'[u].uses # Sessions!None
  BY <1>3 DEF Moves, OrchestratorThere
<1> QED
  BY <1>1, <1>2, <1>3 DEF OrchestratorThere

Final == {"announce", "finish", "done"}

LEMMA MovesKeepTime ==
    ASSUME ListTypes, ListsInTime, NEW t \in Sessions!Scans, NEW pc, Moves(t, pc),
           UNCHANGED <<sessionLibrary, snapshot, adopted>>,
           op[t].pc \in Final => pc \in Final /\ (op'[t].late <=> op[t].late)
    PROVE  ListsInTime'
<1>1. ASSUME NEW l \in Sessions!Scans \cup {Sessions!None}, Published(l) PROVE Published(l)'
  BY <1>1 DEF Moves, Published, Final
<1>2. ASSUME NEW k \in Sessions!Kinds
      PROVE  /\ sessionLibrary[k] \in Sessions!Scans \cup {Sessions!None}
             /\ snapshot[k].list \in Sessions!Scans \cup {Sessions!None}
  BY DEF ListTypes, Snapshots
<1>3. ASSUME NEW k \in Sessions!Kinds PROVE Published(sessionLibrary[k])' /\ Published(snapshot[k].list)'
  <2> DEFINE l == sessionLibrary[k]  m == snapshot[k].list
  <2>1. l \in Sessions!Scans \cup {Sessions!None} /\ m \in Sessions!Scans \cup {Sessions!None}
    BY <1>2
  <2>2. Published(l) /\ Published(m)
    BY DEF ListsInTime
  <2>3. l' = l /\ m' = m
    OBVIOUS
  <2>4. ASSUME NEW n \in {l, m}
        PROVE  n # Sessions!None /\ n \notin adopted' =>
                  n # Sessions!ShowScan /\ op'[n].pc \in Final /\ ~op'[n].late
    BY <1>1, <2>1, <2>2 DEF Published, Final
  <2> QED
    BY <2>3, <2>4 DEF Published, Final
<1> QED
  BY <1>3 DEF ListsInTime

LEMMA MovesKeepPages ==
    ASSUME WorkerTypes, StartsCounted, PagesComeUp, NEW t \in Sessions!Scans, NEW pc, Moves(t, pc),
           op[t].pc \notin {"idle", "done"}, pc # "idle", UNCHANGED <<begun, page, warming, mode>>,
           t = begun /\ Waits(begun) => Took(t)' /\ Announced(t)'
    PROVE  PagesComeUp'
<1> SUFFICES ASSUME Waits(begun)'
             PROVE  (mode = Sessions!KindOf(begun) /\ Alone(begun) /\ op[begun].pc # "idle"
                       /\ Took(begun) /\ Announced(begun))'
  BY DEF PagesComeUp
<1>0. begun > 0 /\ begun \in Sessions!Scans
  BY BegunIsScan DEF Waits
<1>1. CASE t # begun
  <2>1. op'[begun] = op[begun]
    BY <1>0, <1>1 DEF Moves
  <2>2. Waits(begun)
    BY <2>1 DEF Waits, Sessions!KindOf
  <2>3. ~Sessions!Running(t)
    BY <1>1, <2>2 DEF PagesComeUp, Alone
  <2> QED
    BY <2>3 DEF Sessions!Running
<1>2. CASE t = begun
  <2>1. /\ op'[begun].kind = op[begun].kind /\ op'[begun].undisturbed = op[begun].undisturbed
        /\ op'[begun].pc = pc
    BY <1>2 DEF Moves
  <2>2. Waits(begun)
    BY <2>1 DEF Waits, Sessions!KindOf
  <2>3. mode = Sessions!KindOf(begun) /\ Alone(begun) /\ Took(t)' /\ Announced(t)'
    BY <1>2, <2>2 DEF PagesComeUp
  <2>4. Sessions!KindOf(begun)' = Sessions!KindOf(begun)
    BY <2>1 DEF Sessions!KindOf
  <2>5. Alone(begun)'
    BY <1>2, <2>3 DEF Alone, Sessions!Running, Moves
  <2>6. Took(begun)'
    BY <1>2, <2>3 DEF Took
  <2>7. Announced(begun)'
    BY <1>2, <2>3 DEF Announced
  <2> QED
    BY <2>1, <2>3, <2>4, <2>5, <2>6, <2>7
<1> QED
  BY <1>1, <1>2

(* What stays while nothing it is about changes. *)

\* What the invariant asks of a worker apart from its being undisturbed.
SameWork ==
    /\ op' \in [Sessions!Scans -> Workers]
    /\ \A u \in Sessions!Scans :
          /\ op'[u].kind = op[u].kind /\ op'[u].pc = op[u].pc /\ op'[u].outcome = op[u].outcome
          /\ op'[u].late = op[u].late /\ op'[u].uses = op[u].uses

LEMMA OrderStays ==
    ASSUME ScansInOrder, SameWork, UNCHANGED <<token, begun>>
    PROVE  ScansInOrder'
<1>1. Sessions!NewestScanCancellable'
  BY DEF ScansInOrder, SameWork, Sessions!NewestScanCancellable
<1>2. op'[Sessions!ShowScan].pc # "idle" => op'[Sessions!ShowScan].kind = "show"
  BY ScanNumbers DEF ScansInOrder, SameWork
<1> QED
  BY <1>1, <1>2 DEF ScansInOrder, SameWork

LEMMA FilledStays ==
    ASSUME ListsFilled, SameWork, contents' = contents, Listed' \subseteq Listed
    PROVE  ListsFilled'
BY DEF ListsFilled, SameWork

LEMMA BegunStays ==
    ASSUME SameWork PROVE TvBegun' <=> TvBegun
BY DEF SameWork, TvBegun

LEMMA OrchestratorStays ==
    ASSUME OrchestratorThere, SameWork,
           UNCHANGED <<snapshot, tab, mode, orchestrator, sessionLibrary, orchestrated>>
    PROVE  OrchestratorThere'
<1>1. TvBegun' <=> TvBegun
  BY BegunStays
<1>2. op'[Sessions!ShowScan].pc = op[Sessions!ShowScan].pc
  BY ScanNumbers DEF SameWork
<1>3. ASSUME NEW u \in Sessions!Scans,
             op'[u].pc = "takeback" \/ (op'[u].kind = "bulk" /\ op'[u].pc = "work")
      PROVE  op'[u].uses # Sessions!None
  BY <1>3 DEF SameWork, OrchestratorThere
<1> QED
  BY <1>1, <1>2, <1>3 DEF OrchestratorThere

\* A list stays in time while the worker that found it has its place.
LEMMA TimeStays ==
    ASSUME ListTypes, ListsInTime, adopted \subseteq adopted',
           \A l \in Sessions!Scans : op[l].pc \in Final /\ l # Sessions!ShowScan
                => op'[l].pc \in Final /\ (op'[l].late => op[l].late),
           NEW kept \in SUBSET (Sessions!Scans \cup {Sessions!None}),
           kept = {sessionLibrary[k] : k \in Sessions!Kinds} \cup {snapshot[k].list : k \in Sessions!Kinds},
           \A k \in Sessions!Kinds :
              /\ sessionLibrary'[k] \in kept \cup adopted' \cup {Sessions!None}
              /\ snapshot'[k].list \in kept \cup adopted' \cup {Sessions!None}
    PROVE  ListsInTime'
<1>1. ASSUME NEW l \in kept
      PROVE  l # Sessions!None /\ l \notin adopted' =>
                l # Sessions!ShowScan /\ op'[l].pc \in Final /\ ~op'[l].late
  <2>1. Published(l)
    BY DEF ListsInTime
  <2> QED
    BY <2>1 DEF Published, Final
<1>2. ASSUME NEW l \in kept \cup adopted' \cup {Sessions!None}
      PROVE  l # Sessions!None /\ l \notin adopted' =>
                l # Sessions!ShowScan /\ op'[l].pc \in Final /\ ~op'[l].late
  BY <1>1
<1>3. ASSUME NEW k \in Sessions!Kinds
      PROVE  Published(sessionLibrary[k])' /\ Published(snapshot[k].list)'
  BY <1>2 DEF Published, Final
<1> QED
  BY <1>3 DEF ListsInTime

LEMMA PagesStay ==
    ASSUME WorkerTypes, StartsCounted, PagesComeUp, SameWork,
           UNCHANGED <<begun, page, warming, mode, sessionLibrary>>,
           \A u \in Sessions!Scans : op'[u].undisturbed = op[u].undisturbed,
           Waits(begun) => Announced(begun)'
    PROVE  PagesComeUp'
<1> SUFFICES ASSUME Waits(begun)'
             PROVE  (mode = Sessions!KindOf(begun) /\ Alone(begun) /\ op[begun].pc # "idle"
                       /\ Took(begun) /\ Announced(begun))'
  BY DEF PagesComeUp
<1>0. begun \in Sessions!Scans
  BY BegunIsScan DEF Waits
<1>1. Sessions!KindOf(begun)' = Sessions!KindOf(begun)
  BY <1>0 DEF SameWork, Sessions!KindOf
<1>2. Waits(begun)
  BY <1>0, <1>1 DEF Waits
<1>3. mode = Sessions!KindOf(begun) /\ Alone(begun) /\ op[begun].pc # "idle" /\ Took(begun)
  BY <1>2 DEF PagesComeUp
<1>4. Alone(begun)'
  BY <1>3 DEF Alone, Sessions!Running, SameWork
<1>5. Took(begun)'
  BY <1>0, <1>3 DEF Took, SameWork
<1>6. op'[begun].pc # "idle"
  BY <1>0, <1>3 DEF SameWork
<1> QED
  BY <1>1, <1>2, <1>3, <1>4, <1>5, <1>6

(* Every action keeps the invariant: the steps of the workers. *)

\* A worker at work on an undisturbed newest scan holds the token.
LEMMA NewestHolds ==
    ASSUME SessionInv, begun > 0, op[begun].pc \in Working
    PROVE  token = begun /\ begun \in Sessions!Scans /\ begun # Sessions!ShowScan
<1>1. begun \in Sessions!Scans /\ begun # Sessions!ShowScan
  BY BegunIsScan DEF SessionInv
<1> QED
  BY <1>1 DEF SessionInv, ScansInOrder, Sessions!NewestScanCancellable, Working

LEMMA CheckKeeps ==
    ASSUME SessionInv, NEW t \in Sessions!Scans, Sessions!CheckCurrent(t)
    PROVE  SessionInv'
<1> USE DEF SessionInv
<1>1. UNCHANGED <<token, begun, contents, mode, sessionLibrary, orchestrator, orchestrated, progress,
                  snapshot, page, warming, tab, events, starts, switches, adopted>>
  BY DEF Sessions!CheckCurrent, Sessions!session, Sessions!window
<1>2. /\ op[t].pc = "check" /\ op'[t].outcome = op[t].outcome /\ op'[t].late = op[t].late
      /\ token = t => Moves(t, "publish")
      /\ token # t => Moves(t, "done")
  BY CheckMoves
<1>3. PICK pc \in {"publish", "done"} : Moves(t, pc) /\ (pc = "publish" <=> token = t)
  BY <1>2
<1>4. WorkerTypes' /\ PageTypes' /\ ListTypes'
  BY <1>1, <1>3 DEF WorkerTypes, PageTypes, ListTypes, Moves
<1>5. StartsCounted'
  BY <1>1, <1>2, <1>3, MovesKeepCount DEF Untold
<1>6. ScansInOrder'
  <2>1. op'[t].outcome = "empty" => op[t].kind \in Sessions!Kinds
    BY <1>2 DEF ScansInOrder
  <2>2. op'[t].late => pc \in {"check", "done"} /\ token # t
    BY <1>2, <1>3 DEF ScansInOrder
  <2> QED
    BY <1>1, <1>2, <1>3, <2>1, <2>2, MovesKeepOrder DEF Working
<1>7. ListsFilled'
  BY <1>1, <1>2, <1>3, MovesKeepFilled
<1>8. OrchestratorThere'
  <2>1. sessionLibrary'["tv"] # Sessions!None \/ (\E u \in Sessions!Scans : orchestrated'[u] # Sessions!None)
           => TvBegun
    BY <1>1 DEF OrchestratorThere
  <2> QED
    BY <1>1, <1>2, <1>3, <2>1, MovesKeepOrchestrator
<1>9. ListsInTime'
  BY <1>1, <1>2, <1>3, MovesKeepTime DEF Final
<1>10. PagesComeUp'
  <2>1. ASSUME t = begun, Waits(begun) PROVE Took(t)' /\ Announced(t)'
    <3>1. token = t
      BY <1>2, <2>1, NewestHolds DEF Working, Waits
    <3>2. op'[t].pc = "publish" /\ op'[t].kind = op[t].kind
      BY <1>3, <3>1 DEF Moves
    <3>3. op[t].kind = "bulk" => sessionLibrary["tv"] # Sessions!None
      BY <2>1 DEF PagesComeUp, Took
    <3> QED
      BY <1>1, <3>2, <3>3 DEF Took, Announced
  <2> QED
    BY <1>1, <1>2, <1>3, <2>1, MovesKeepPages
<1> QED
  BY <1>4, <1>5, <1>6, <1>7, <1>8, <1>9, <1>10

LEMMA PublishKeeps ==
    ASSUME SessionInv, NEW t \in Sessions!Scans, Sessions!Publish(t)
    PROVE  SessionInv'
<1> USE DEF SessionInv
<1>1. UNCHANGED <<token, begun, contents, mode, orchestrator, orchestrated, progress,
                  snapshot, page, warming, tab, events, starts, switches, adopted>>
  BY DEF Sessions!Publish, Sessions!window
<1>2. /\ op[t].pc = "publish" /\ Moves(t, "announce")
      /\ op'[t].outcome = op[t].outcome /\ op'[t].late = op[t].late
  BY PublishMoves
<1> DEFINE found == IF op[t].outcome = "ok" THEN t ELSE Sessions!None
<1>3. IF op[t].kind \notin Sessions!Kinds \/ op[t].outcome = "failed" THEN sessionLibrary' = sessionLibrary
      ELSE sessionLibrary' = [sessionLibrary EXCEPT ![op[t].kind] = found]
  BY DEF Sessions!Publish
<1>4. /\ sessionLibrary' \in [Sessions!Kinds -> Sessions!Scans \cup {Sessions!None}]
      /\ \A k \in Sessions!Kinds :
            \/ sessionLibrary'[k] = sessionLibrary[k]
            \/ /\ sessionLibrary'[k] = found /\ k = op[t].kind /\ op[t].outcome # "failed"
  BY <1>3 DEF ListTypes
<1>5. WorkerTypes' /\ PageTypes' /\ ListTypes'
  BY <1>1, <1>2, <1>4 DEF WorkerTypes, PageTypes, ListTypes, Moves
<1>6. StartsCounted'
  BY <1>1, <1>2, MovesKeepCount DEF Untold
<1>7. ~op[t].late
  BY <1>2 DEF ScansInOrder
<1>8. ScansInOrder'
  <2>1. op'[t].outcome = "empty" => op[t].kind \in Sessions!Kinds
    BY <1>2 DEF ScansInOrder
  <2> QED
    BY <1>1, <1>2, <1>7, <2>1, MovesKeepOrder DEF Working
<1>9. ListsFilled'
  <2>1. ASSUME NEW k \in Sessions!Kinds
        PROVE  sessionLibrary'[k] # Sessions!None => contents[sessionLibrary'[k]] # "none"
    <3>1. CASE sessionLibrary'[k] = sessionLibrary[k]
      <4>1. sessionLibrary[k] \in Listed
        BY DEF Listed
      <4> QED
        BY <3>1, <4>1 DEF ListsFilled
    <3>2. CASE sessionLibrary'[k] = found /\ k = op[t].kind
      BY <1>2, <3>2 DEF ListsFilled
    <3> QED
      BY <1>4, <3>1, <3>2
  <2>2. ASSUME NEW l \in Listed', l # Sessions!None PROVE contents[l] # "none"
    <3>1. l \in Listed \/ \E k \in Sessions!Kinds : l = sessionLibrary'[k]
      BY <1>1 DEF Listed
    <3> QED
      BY <2>1, <2>2, <3>1 DEF ListsFilled
  <2>3. ASSUME NEW u \in Sessions!Scans,
               op'[u].kind \in Sessions!Kinds, op'[u].pc \in {"check", "publish"}, op'[u].outcome = "ok"
        PROVE  contents[u] # "none"
    BY <1>2, <2>3 DEF Moves, ListsFilled
  <2> QED
    BY <1>1, <2>2, <2>3 DEF ListsFilled
<1>10. OrchestratorThere'
  <2>1. sessionLibrary'["tv"] # Sessions!None => TvBegun
    <3>1. CASE sessionLibrary'["tv"] = sessionLibrary["tv"]
      BY <3>1 DEF OrchestratorThere
    <3>2. CASE op[t].kind = "tv"
      BY <1>2, <3>2 DEF TvBegun
    <3> QED
      BY <1>4, <3>1, <3>2, ScanNumbers
  <2>2. (\E u \in Sessions!Scans : orchestrated'[u] # Sessions!None) => TvBegun
    BY <1>1 DEF OrchestratorThere
  <2> QED
    BY <1>1, <1>2, <2>1, <2>2, MovesKeepOrchestrator
<1>11. ListsInTime'
  <2> DEFINE kept == {sessionLibrary[k] : k \in Sessions!Kinds} \cup {snapshot[k].list : k \in Sessions!Kinds}
  <2>1. t # Sessions!ShowScan \/ op[t].kind \notin Sessions!Kinds
    BY <1>2, ScanNumbers DEF ScansInOrder
  <2>2. ASSUME NEW l \in Sessions!Scans \cup {Sessions!None}, Published(l) PROVE Published(l)'
    BY <1>1, <1>2, <2>2 DEF Moves, Published
  <2>3. op[t].kind \in Sessions!Kinds => Published(t)'
    BY <1>2, <1>7, <2>1 DEF Moves, Published
  <2>4. \A k \in Sessions!Kinds : /\ sessionLibrary[k] \in Sessions!Scans \cup {Sessions!None}
                                  /\ snapshot[k].list \in Sessions!Scans \cup {Sessions!None}
    BY DEF ListTypes, Snapshots
  <2>5. ASSUME NEW l \in Sessions!Scans \cup {Sessions!None}, Published(l) \/ (l = t /\ op[t].kind \in Sessions!Kinds) \/ l = Sessions!None
        PROVE  l # Sessions!None /\ l \notin adopted' =>
                  l # Sessions!ShowScan /\ op'[l].pc \in Final /\ ~op'[l].late
    BY <2>2, <2>3, <2>5 DEF Published, Final
  <2>6. ASSUME NEW k \in Sessions!Kinds
        PROVE  Published(sessionLibrary[k])' /\ Published(snapshot[k].list)'
    <3>1. Published(sessionLibrary[k]) /\ Published(snapshot[k].list)
      BY DEF ListsInTime
    <3>2. snapshot'[k].list = snapshot[k].list
      BY <1>1
    <3>3. \/ sessionLibrary'[k] = sessionLibrary[k] \/ sessionLibrary'[k] = Sessions!None
          \/ sessionLibrary'[k] = t /\ op[t].kind \in Sessions!Kinds
      BY <1>4
    <3>4. \A l \in {sessionLibrary'[k], snapshot'[k].list} : l # Sessions!None /\ l \notin adopted' =>
                  l # Sessions!ShowScan /\ op'[l].pc \in Final /\ ~op'[l].late
      BY <2>4, <2>5, <3>1, <3>2, <3>3
    <3> QED
      BY <3>4 DEF Published, Final
  <2> QED
    BY <2>6 DEF ListsInTime
<1>12. PagesComeUp'
  <2>1. ASSUME t = begun, Waits(begun) PROVE Took(t)' /\ Announced(t)'
    <3>1. op'[t].pc = "announce" /\ op'[t].kind = op[t].kind /\ op'[t].outcome = op[t].outcome
      BY <1>2 DEF Moves
    <3>2. op[t].kind = "bulk" => sessionLibrary["tv"] # Sessions!None
      BY <2>1 DEF PagesComeUp, Took
    <3>3. begun # Sessions!ShowScan
      BY BegunIsScan
    <3>4. op[t].kind \in Sessions!Kinds \cup {"bulk"}
      BY <2>1, <3>3, ScanNumbers DEF ScansInOrder, WorkerTypes, Workers
    <3>5. Took(t)'
      <4>1. CASE op[t].kind = "bulk"
        BY <1>3, <3>1, <3>2, <4>1, ScanNumbers DEF Took
      <4>2. CASE op[t].kind \in Sessions!Kinds
        <5>1. op'[t].outcome # "failed" => sessionLibrary'[op'[t].kind] = IF op'[t].outcome = "ok" THEN t ELSE Sessions!None
          BY <1>3, <3>1, <4>2 DEF ListTypes
        <5>2. op'[t].kind # "bulk"
          BY <3>1, <4>2, ScanNumbers
        <5> QED
          BY <5>1, <5>2 DEF Took
      <4> QED
        BY <3>4, <4>1, <4>2
    <3>6. Announced(t)'
      BY <3>1 DEF Announced
    <3> QED
      BY <3>5, <3>6
  <2> QED
    BY <1>1, <1>2, <2>1, MovesKeepPages
<1> QED
  BY <1>5, <1>6, <1>8, <1>9, <1>10, <1>11, <1>12

LEMMA FinishKeeps ==
    ASSUME SessionInv, NEW t \in Sessions!Scans, Sessions!FinishScan(t)
    PROVE  SessionInv'
<1> USE DEF SessionInv
<1>1. /\ UNCHANGED <<begun, contents, mode, sessionLibrary, orchestrator, orchestrated, progress,
                     snapshot, page, warming, tab, events, starts, switches, adopted>>
      /\ token' = IF token = t THEN Sessions!None ELSE token
  BY DEF Sessions!FinishScan, Sessions!session, Sessions!window
<1>2. /\ op[t].pc = "finish" /\ Moves(t, "done")
      /\ op'[t].outcome = op[t].outcome /\ op'[t].late = op[t].late
  BY FinishMoves
<1>3. WorkerTypes' /\ PageTypes' /\ ListTypes'
  BY <1>1, <1>2 DEF WorkerTypes, PageTypes, ListTypes, Moves
<1>4. StartsCounted'
  BY <1>1, <1>2, MovesKeepCount DEF Untold
<1>5. ~op[t].late
  BY <1>2 DEF ScansInOrder
<1>6. ScansInOrder'
  <2>1. op'[t].outcome = "empty" => op[t].kind \in Sessions!Kinds
    BY <1>2 DEF ScansInOrder
  <2> QED
    BY <1>1, <1>2, <1>5, <2>1, MovesKeepOrder DEF Working
<1>7. ListsFilled'
  BY <1>1, <1>2, MovesKeepFilled
<1>8. OrchestratorThere'
  <2>1. sessionLibrary'["tv"] # Sessions!None \/ (\E u \in Sessions!Scans : orchestrated'[u] # Sessions!None)
           => TvBegun
    BY <1>1 DEF OrchestratorThere
  <2> QED
    BY <1>1, <1>2, <2>1, MovesKeepOrchestrator
<1>9. ListsInTime'
  BY <1>1, <1>2, MovesKeepTime DEF Final
<1>10. PagesComeUp'
  <2>1. ASSUME t = begun, Waits(begun) PROVE Took(t)' /\ Announced(t)'
    <3>1. op'[t].pc = "done" /\ op'[t].kind = op[t].kind
      BY <1>2 DEF Moves
    <3>2. Took(t) /\ Announced(t)
      BY <2>1 DEF PagesComeUp
    <3> QED
      BY <1>1, <1>2, <3>1, <3>2 DEF Took, Announced
  <2> QED
    BY <1>1, <1>2, <2>1, MovesKeepPages
<1> QED
  BY <1>3, <1>4, <1>6, <1>7, <1>8, <1>9, <1>10

LEMMA HandOverKeeps ==
    ASSUME SessionInv, NEW t \in Sessions!Scans, Sessions!HandOver(t)
    PROVE  SessionInv'
<1> USE DEF SessionInv
<1>1. /\ UNCHANGED <<token, begun, contents, mode, sessionLibrary, orchestrator, progress,
                     snapshot, page, warming, tab, events, starts, switches, adopted>>
      /\ orchestrated' = [orchestrated EXCEPT ![orchestrator] = sessionLibrary["tv"]]
  BY DEF Sessions!HandOver, Sessions!window
<1>2. /\ op[t].pc = "handover" /\ Moves(t, "takeback")
      /\ op'[t].outcome = op[t].outcome /\ op'[t].late = op[t].late
      /\ op'[t].uses = orchestrator
  BY HandOverMoves DEF ListTypes
<1>3. t = Sessions!ShowScan /\ t # begun /\ ~op[t].late
  BY <1>2, BegunIsScan DEF ScansInOrder
<1>4. TvBegun /\ orchestrator # Sessions!None
  BY <1>2, <1>3 DEF OrchestratorThere
<1>5. /\ orchestrated' \in [Sessions!Scans -> Sessions!Scans \cup {Sessions!None}]
      /\ \A u \in Sessions!Scans : orchestrated'[u] \in {orchestrated[u], sessionLibrary["tv"]}
  BY <1>1, ScanNumbers DEF ListTypes
<1>6. WorkerTypes' /\ PageTypes' /\ ListTypes'
  BY <1>1, <1>2, <1>5 DEF WorkerTypes, PageTypes, ListTypes, Moves
<1>7. StartsCounted'
  BY <1>1, <1>2, MovesKeepCount DEF Untold
<1>8. ScansInOrder'
  <2>1. op'[t].outcome = "empty" => op[t].kind \in Sessions!Kinds
    BY <1>2 DEF ScansInOrder
  <2> QED
    BY <1>1, <1>2, <1>3, <2>1, MovesKeepOrder DEF Working
<1>9. ListsFilled'
  <2>1. Listed' \subseteq Listed
    BY <1>1, <1>5, ScanNumbers DEF Listed
  <2>2. ASSUME NEW u \in Sessions!Scans,
               op'[u].kind \in Sessions!Kinds, op'[u].pc \in {"check", "publish"}, op'[u].outcome = "ok"
        PROVE  contents[u] # "none"
    BY <1>2, <2>2 DEF Moves, ListsFilled
  <2> QED
    BY <1>1, <2>1, <2>2 DEF ListsFilled
<1>10. OrchestratorThere'
  BY <1>1, <1>2, <1>4, MovesKeepOrchestrator
<1>11. ListsInTime'
  BY <1>1, <1>2, MovesKeepTime DEF Final
<1>12. PagesComeUp'
  BY <1>1, <1>2, <1>3, MovesKeepPages
<1> QED
  BY <1>6, <1>7, <1>8, <1>9, <1>10, <1>11, <1>12

LEMMA TakeBackKeeps ==
    ASSUME SessionInv, NEW t \in Sessions!Scans, Sessions!TakeBack(t)
    PROVE  SessionInv'
<1> USE DEF SessionInv
<1> DEFINE back == orchestrated[op[t].uses]
<1>1. /\ UNCHANGED <<token, begun, contents, mode, orchestrator, orchestrated, progress,
                     snapshot, page, warming, tab, events, starts, switches>>
      /\ sessionLibrary' = [sessionLibrary EXCEPT !["tv"] = back]
      /\ adopted' = IF back \in {Sessions!None, sessionLibrary["tv"]} THEN adopted ELSE adopted \cup {back}
  BY DEF Sessions!TakeBack, Sessions!window
<1>2. /\ op[t].pc = "takeback" /\ Moves(t, "announce")
      /\ op'[t].outcome = op[t].outcome /\ op'[t].late = op[t].late
  BY TakeBackMoves
<1>3. t = Sessions!ShowScan /\ t # begun /\ ~op[t].late
  BY <1>2, BegunIsScan DEF ScansInOrder
<1>4. op[t].uses \in Sessions!Scans /\ back \in Sessions!Scans \cup {Sessions!None} /\ back \in Listed
  <2>1. op[t].uses # Sessions!None /\ op[t].uses \in Sessions!Scans \cup {Sessions!None}
    BY <1>2 DEF OrchestratorThere, WorkerTypes, Workers
  <2> QED
    BY <2>1 DEF ListTypes, Listed
<1> HIDE DEF back
<1>5. /\ sessionLibrary' \in [Sessions!Kinds -> Sessions!Scans \cup {Sessions!None}]
      /\ \A k \in Sessions!Kinds : sessionLibrary'[k] \in {sessionLibrary[k], back}
      /\ sessionLibrary'["tv"] = back /\ sessionLibrary'["movie"] = sessionLibrary["movie"]
  BY <1>1, <1>4, ScanNumbers DEF ListTypes
<1>6. WorkerTypes' /\ PageTypes' /\ ListTypes'
  BY <1>1, <1>2, <1>5 DEF WorkerTypes, PageTypes, ListTypes, Moves
<1>7. StartsCounted'
  BY <1>1, <1>2, MovesKeepCount DEF Untold
<1>8. ScansInOrder'
  <2>1. op'[t].outcome = "empty" => op[t].kind \in Sessions!Kinds
    BY <1>2 DEF ScansInOrder
  <2> QED
    BY <1>1, <1>2, <1>3, <2>1, MovesKeepOrder DEF Working
<1>9. ListsFilled'
  <2>1. Listed' \subseteq Listed
    BY <1>1, <1>4, <1>5 DEF Listed
  <2>2. ASSUME NEW u \in Sessions!Scans,
               op'[u].kind \in Sessions!Kinds, op'[u].pc \in {"check", "publish"}, op'[u].outcome = "ok"
        PROVE  contents[u] # "none"
    BY <1>2, <2>2 DEF Moves, ListsFilled
  <2> QED
    BY <1>1, <2>1, <2>2 DEF ListsFilled
<1>10. OrchestratorThere'
  <2>1. TvBegun
    BY <1>2, <1>3 DEF OrchestratorThere
  <2> QED
    BY <1>1, <1>2, <2>1, MovesKeepOrchestrator
<1>11. ListsInTime'
  <2> DEFINE kept == {sessionLibrary[k] : k \in Sessions!Kinds} \cup {snapshot[k].list : k \in Sessions!Kinds}
  <2>1. adopted \subseteq adopted'
    BY <1>1
  <2>2. \A l \in Sessions!Scans : op[l].pc \in Final /\ l # Sessions!ShowScan
            => op'[l].pc \in Final /\ (op'[l].late => op[l].late)
    BY <1>2, <1>3 DEF Moves
  <2>3. kept \in SUBSET (Sessions!Scans \cup {Sessions!None})
    BY DEF ListTypes, Snapshots
  <2>4. back \in kept \cup adopted' \cup {Sessions!None}
    BY <1>1, ScanNumbers
  <2>5. \A k \in Sessions!Kinds :
          /\ sessionLibrary'[k] \in kept \cup adopted' \cup {Sessions!None}
          /\ snapshot'[k].list \in kept \cup adopted' \cup {Sessions!None}
    BY <1>1, <1>5, <2>4
  <2> QED
    BY <2>1, <2>2, <2>3, <2>5, TimeStays
<1>12. PagesComeUp'
  BY <1>1, <1>2, <1>3, MovesKeepPages
<1> QED
  BY <1>6, <1>7, <1>8, <1>9, <1>10, <1>11, <1>12

\* What a news sequence that grows or is read counts.
LEMMA NewsAdded ==
    ASSUME NEW old \in Seq(News), NEW x \in News
    PROVE  /\ Append(old, x) \in Seq(News) /\ Append(old, x) # <<>>
           /\ \A i \in 1 .. Len(old) : i \in 1 .. Len(Append(old, x)) /\ Append(old, x)[i] = old[i]
           /\ Completions(Append(old, x))
                = IF x = "scan_complete" THEN Completions(old) \cup {Len(old) + 1} ELSE Completions(old)
<1>1. /\ Append(old, x) \in Seq(News) /\ Len(Append(old, x)) = Len(old) + 1 /\ Len(old) \in Nat
      /\ Append(old, x)[Len(old) + 1] = x
      /\ \A i \in 1 .. Len(old) : Append(old, x)[i] = old[i]
  OBVIOUS
<1>2. Append(old, x) # <<>>
  <2>1. Len(Append(old, x)) # 0 /\ Len(<<>>) = 0
    BY <1>1
  <2> QED
    BY <2>1
<1> DEFINE new == Append(old, x)
<1> HIDE DEF new
<1>3. Completions(new) = IF x = "scan_complete" THEN Completions(old) \cup {Len(old) + 1} ELSE Completions(old)
  BY <1>1 DEF Completions, new
<1> QED
  BY <1>1, <1>2, <1>3 DEF new

LEMMA NewsCounted ==
    ASSUME NEW news \in Seq(News)
    PROVE  IsFiniteSet(Completions(news)) /\ Cardinality(Completions(news)) \in Nat
<1>1. IsFiniteSet(1 .. Len(news)) /\ Completions(news) \in SUBSET (1 .. Len(news))
  BY FS_Interval DEF Completions
<1> QED
  BY <1>1, FS_Subset, FS_CardinalityType

\* One more completion at most.
LEMMA NewsGrows ==
    ASSUME NEW old \in Seq(News), NEW new \in Seq(News), NEW x,
           Completions(new) \subseteq Completions(old) \cup {x}
    PROVE  Cardinality(Completions(new)) <= Cardinality(Completions(old)) + 1
<1>1. IsFiniteSet(Completions(old)) /\ Cardinality(Completions(old)) \in Nat
  BY NewsCounted
<1> DEFINE told == Completions(old)
           more == told \cup {x}
           now == Completions(new)
<1>2. IsFiniteSet(now) /\ Cardinality(now) \in Nat /\ now \subseteq more
  BY NewsCounted
<1> HIDE DEF told, now
<1>3. IsFiniteSet(more) /\ Cardinality(more) \in Nat /\ Cardinality(more) <= Cardinality(told) + 1
  BY <1>1, FS_AddElement, FS_CardinalityType DEF told
<1> HIDE DEF more
<1>4. Cardinality(now) <= Cardinality(more)
  BY <1>2, <1>3, FS_Subset
<1>5. Cardinality(now) <= Cardinality(told) + 1
  BY <1>1, <1>2, <1>3, <1>4 DEF told
<1> QED
  BY <1>5 DEF told, now

LEMMA NewsRead ==
    ASSUME NEW old \in Seq(News), old # <<>>
    PROVE  /\ Tail(old) \in Seq(News) /\ Head(old) \in News
           /\ \A i \in 2 .. Len(old) : i - 1 \in 1 .. Len(Tail(old)) /\ Tail(old)[i - 1] = old[i]
           /\ Cardinality(Completions(Tail(old)))
                <= IF Head(old) = "scan_complete" THEN Cardinality(Completions(old)) - 1
                                                  ELSE Cardinality(Completions(old))
<1>1. /\ Tail(old) \in Seq(News) /\ Head(old) \in News /\ Head(old) = old[1] /\ Len(old) \in Nat \ {0}
      /\ Len(Tail(old)) = Len(old) - 1
      /\ \A i \in 1 .. Len(Tail(old)) : Tail(old)[i] = old[i + 1]
  OBVIOUS
<1>2. \A i \in 2 .. Len(old) : i - 1 \in 1 .. Len(Tail(old)) /\ Tail(old)[i - 1] = old[i]
  BY <1>1
<1> DEFINE new == Tail(old)
           shift == [i \in Completions(new) |-> i + 1]
           rest == Completions(old) \ {1}
<1>3. /\ IsFiniteSet(Completions(old)) /\ Cardinality(Completions(old)) \in Nat
      /\ IsFiniteSet(Completions(new)) /\ Cardinality(Completions(new)) \in Nat
  BY <1>1, NewsCounted
<1>4. /\ IsFiniteSet(rest)
      /\ Cardinality(rest) = IF 1 \in Completions(old) THEN Cardinality(Completions(old)) - 1
                             ELSE Cardinality(Completions(old))
  BY <1>3, FS_RemoveElement
<1>5. 1 \in Completions(old) <=> Head(old) = "scan_complete"
  BY <1>1 DEF Completions
<1>6. shift \in Injection(Completions(new), rest)
  <2> HIDE DEF new
  <2>1. \A i \in Completions(new) : i \in Nat /\ i + 1 \in rest
    BY <1>1 DEF Completions, new
  <2>2. shift \in [Completions(new) -> rest]
    BY <2>1
  <2>3. \A i, j \in Completions(new) : shift[i] = shift[j] => i = j
    BY <2>1
  <2> QED
    BY <2>2, <2>3 DEF Injection, IsInjective
<1>7. Cardinality(Completions(new)) <= Cardinality(rest)
  <2> HIDE DEF shift, rest, new
  <2> QED
    BY <1>4, <1>6, FS_Injection
<1> QED
  BY <1>1, <1>2, <1>4, <1>5, <1>7

\* One more teller at most.
LEMMA TellersGrow ==
    ASSUME WorkerTypes, NEW n \in Sessions!Scans, Telling' \subseteq Telling \cup {n}
    PROVE  Cardinality(Telling') \in Nat /\ Cardinality(Telling') <= Cardinality(Telling) + 1
<1> DEFINE more == Telling \cup {n}
           new == Telling'
<1>1. IsFiniteSet(Telling) /\ Cardinality(Telling) \in Nat
  BY SetsAreFinite
<1>2. IsFiniteSet(more) /\ Cardinality(more) \in Nat /\ Cardinality(more) <= Cardinality(Telling) + 1
  BY <1>1, FS_AddElement, FS_CardinalityType
<1>3. new \subseteq more
  OBVIOUS
<1> HIDE DEF more, new
<1>4. IsFiniteSet(new) /\ Cardinality(new) <= Cardinality(more) /\ Cardinality(new) \in Nat
  BY <1>2, <1>3, FS_Subset, FS_CardinalityType
<1>5. Cardinality(new) <= Cardinality(Telling) + 1
  BY <1>1, <1>2, <1>4
<1> QED
  BY <1>4, <1>5 DEF new

\* A teller that has told.
LEMMA TellersShrink ==
    ASSUME WorkerTypes, NEW t \in Telling, Telling' \subseteq Telling \ {t}
    PROVE  Cardinality(Telling') \in Nat /\ Cardinality(Telling') <= Cardinality(Telling) - 1
<1> DEFINE less == Telling \ {t}
           new == Telling'
<1>1. IsFiniteSet(Telling) /\ Cardinality(Telling) \in Nat
  BY SetsAreFinite
<1>2. IsFiniteSet(less) /\ Cardinality(less) \in Nat /\ Cardinality(less) = Cardinality(Telling) - 1
  BY <1>1, FS_RemoveElement, FS_CardinalityType
<1>3. new \subseteq less
  OBVIOUS
<1> HIDE DEF less, new
<1>4. IsFiniteSet(new) /\ Cardinality(new) <= Cardinality(less) /\ Cardinality(new) \in Nat
  BY <1>2, <1>3, FS_Subset, FS_CardinalityType
<1> QED
  BY <1>2, <1>4 DEF new

LEMMA AnnounceKeeps ==
    ASSUME SessionInv, NEW t \in Sessions!Scans, Sessions!Announce(t)
    PROVE  SessionInv'
<1> USE DEF SessionInv
<1>1. /\ UNCHANGED <<token, begun, contents, mode, sessionLibrary, orchestrator, orchestrated,
                     snapshot, page, warming, tab, starts, switches, adopted>>
      /\ progress' = Sessions!EndProgress(t)
      /\ events' = events \o Sessions!Announced(t)
  BY DEF Sessions!Announce, Sessions!session, Sessions!window
<1> DEFINE pc == IF op[t].kind = "show" THEN "done" ELSE "finish"
<1>2. /\ op[t].pc = "announce" /\ Moves(t, pc)
      /\ op'[t].outcome = op[t].outcome /\ op'[t].late = op[t].late
  BY AnnounceMoves
<1>3. pc \in {"done", "finish"}
  OBVIOUS
<1> HIDE DEF pc
<1>4. op[t] \in Workers /\ progress \in Sessions!Lifecycles /\ events \in Seq(News)
  BY DEF WorkerTypes
<1>5. progress' \in Sessions!Lifecycles
  <2>1. op[t].outcome \in {"ok", "empty", "failed", "cancelled"}
    BY <1>4 DEF Workers
  <2> QED
    BY <1>1, <1>4, <2>1 DEF Sessions!EndProgress, Sessions!Lifecycles, Sessions!Busy
<1>6. \/ events' = Append(Append(events, "library_changed"), "scan_complete") /\ op[t].kind # "bulk"
      \/ events' = events
      \/ events' = Append(events, "library_changed")
  <2>1. \/ Sessions!Announced(t) = <<"library_changed", "scan_complete">> /\ op[t].kind # "bulk"
        \/ Sessions!Announced(t) = <<>>
        \/ Sessions!Announced(t) = <<"library_changed">>
    BY DEF Sessions!Announced
  <2>2. events \o <<>> = events /\ events \o <<"library_changed">> = Append(events, "library_changed")
    BY <1>4
  <2>3. events \o <<"library_changed", "scan_complete">>
           = Append(Append(events, "library_changed"), "scan_complete")
    BY <1>4
  <2> QED
    BY <1>1, <2>1, <2>2, <2>3
<1>7. /\ events' \in Seq(News) /\ Cardinality(Completions(events')) \in Nat
      /\ Cardinality(Completions(events'))
           <= IF op[t].kind # "bulk" THEN Cardinality(Completions(events)) + 1
                                     ELSE Cardinality(Completions(events))
  <2> DEFINE one == Append(events, "library_changed")
             two == Append(one, "scan_complete")
  <2>1. one \in Seq(News) /\ Completions(one) = Completions(events)
    BY <1>4, NewsAdded DEF News
  <2>2. two \in Seq(News) /\ Completions(two) \subseteq Completions(one) \cup {Len(one) + 1}
    BY <2>1, NewsAdded DEF News
  <2>3. Cardinality(Completions(two)) <= Cardinality(Completions(one)) + 1
    <3> HIDE DEF one, two
    <3> QED
      BY <2>1, <2>2, NewsGrows
  <2>4. Cardinality(Completions(events)) \in Nat /\ Cardinality(Completions(two)) \in Nat
    <3> HIDE DEF one, two
    <3> QED
      BY <1>4, <2>2, NewsCounted
  <2>5. CASE events' = two /\ op[t].kind # "bulk"
    <3>1. Cardinality(Completions(two)) <= Cardinality(Completions(events)) + 1
      BY <2>1, <2>3
    <3> HIDE DEF one, two
    <3> QED
      BY <2>2, <2>4, <2>5, <3>1
  <2>6. CASE events' = events \/ events' = one
    <3>1. events' \in Seq(News) /\ Completions(events') = Completions(events)
      <4> HIDE DEF one, two
      <4> QED
        BY <1>4, <2>1, <2>6
    <3> HIDE DEF one, two
    <3> QED
      BY <2>4, <3>1
  <2> QED
    BY <1>6, <2>5, <2>6
<1>8. WorkerTypes' /\ PageTypes' /\ ListTypes'
  BY <1>1, <1>2, <1>5, <1>7 DEF WorkerTypes, PageTypes, ListTypes, Moves
<1>9. StartsCounted'
  <2>1. begun \in Nat /\ starts \in Nat
    BY DEF WorkerTypes
  <2>2. /\ Cardinality(Telling) \in Nat /\ Cardinality(Completions(events)) \in Nat
    BY SetsAreFinite
  <2>3. begun + Cardinality(Telling') + Cardinality(Completions(events')) <= 2 * starts
    <3>1. CASE op[t].kind = "bulk"
      <4>1. Telling' = Telling
        BY <1>2, <3>1 DEF Telling, Moves
      <4> QED
        BY <1>7, <2>1, <2>2, <3>1, <4>1 DEF StartsCounted
    <3>2. CASE op[t].kind # "bulk"
      <4>1. t \in Telling /\ Telling' \subseteq Telling \ {t}
        BY <1>2, <1>3, <3>2 DEF Telling, Moves, Untold
      <4>2. Cardinality(Telling') \in Nat /\ Cardinality(Telling') <= Cardinality(Telling) - 1
        BY <4>1, TellersShrink
      <4> QED
        BY <1>7, <2>1, <2>2, <3>2, <4>2 DEF StartsCounted
    <3> QED
      BY <3>1, <3>2
  <2>4. Completions(events)' = Completions(events')
    BY DEF Completions
  <2> QED
    BY <1>1, <2>3, <2>4 DEF StartsCounted
<1>10. ~op[t].late
  BY <1>2 DEF ScansInOrder
<1>11. ScansInOrder'
  <2>1. op'[t].outcome = "empty" => op[t].kind \in Sessions!Kinds
    BY <1>2 DEF ScansInOrder
  <2> QED
    BY <1>1, <1>2, <1>3, <1>10, <2>1, MovesKeepOrder DEF Working
<1>12. ListsFilled'
  BY <1>1, <1>2, <1>3, MovesKeepFilled
<1>13. OrchestratorThere'
  <2>1. sessionLibrary'["tv"] # Sessions!None \/ (\E u \in Sessions!Scans : orchestrated'[u] # Sessions!None)
           => TvBegun
    BY <1>1 DEF OrchestratorThere
  <2> QED
    BY <1>1, <1>2, <1>3, <2>1, MovesKeepOrchestrator
<1>14. ListsInTime'
  BY <1>1, <1>2, <1>3, MovesKeepTime DEF Final
<1>15. PagesComeUp'
  <2>1. ASSUME t = begun, Waits(begun) PROVE Took(t)' /\ Announced(t)'
    <3>1. op'[t].pc = pc /\ op'[t].kind = op[t].kind /\ op'[t].outcome = op[t].outcome
      BY <1>2 DEF Moves
    <3>2. Took(t)
      BY <2>1 DEF PagesComeUp
    <3>3. Took(t)'
      BY <1>1, <1>2, <3>1, <3>2 DEF Took
    <3>4. t # Sessions!ShowScan
      BY <2>1, BegunIsScan
    <3>5. op[t].kind # "show" /\ (op[t].outcome = "empty" => op[t].kind \in Sessions!Kinds)
      BY <1>2, <3>4 DEF ScansInOrder
    <3>6. op[t].kind \in {"tv", "movie", "bulk"} /\ op[t].outcome \in {"ok", "empty", "failed", "cancelled"}
      BY <1>4, <3>5 DEF Workers
    <3>7. ASSUME op[t].outcome # "failed"
          PROVE  /\ events' # <<>>
                 /\ op[t].outcome = "cancelled" => progress' = "cancelled"
                 /\ op[t].outcome = "empty" => progress' = "warning"
                 /\ op[t].outcome = "ok" /\ op[t].kind # "tv" => progress' = "ready"
                 /\ op[t].outcome = "ok" /\ op[t].kind = "tv" =>
                       progress' = "working" /\ \E i \in 1 .. Len(events') : events'[i] = "scan_complete"
      <4>1. /\ op[t].outcome = "cancelled" => progress' = "cancelled"
            /\ op[t].outcome = "empty" => progress' = "warning"
            /\ op[t].outcome = "ok" /\ op[t].kind # "tv" => progress' = "ready"
            /\ op[t].outcome = "ok" /\ op[t].kind = "tv" => progress' = "working"
        <5>1. CASE op[t].outcome = "cancelled"
          BY <1>1, <5>1 DEF Sessions!EndProgress
        <5>2. CASE op[t].outcome = "empty"
          BY <1>1, <5>2 DEF Sessions!EndProgress
        <5>3. CASE op[t].outcome = "ok" /\ op[t].kind = "tv"
          BY <1>1, <5>3 DEF Sessions!EndProgress
        <5>4. CASE op[t].outcome = "ok" /\ op[t].kind # "tv"
          BY <1>1, <5>4 DEF Sessions!EndProgress
        <5> QED
          BY <3>6, <3>7, <5>1, <5>2, <5>3, <5>4
      <4>2. Sessions!Announced(t) \in {<<"library_changed", "scan_complete">>, <<"library_changed">>}
        BY <3>5, <3>6, <3>7 DEF Sessions!Announced
      <4>3. events' # <<>>
        <5>1. Len(Sessions!Announced(t)) \in {1, 2} /\ Sessions!Announced(t) \in Seq(News)
          <6>1. CASE Sessions!Announced(t) = <<"library_changed", "scan_complete">>
            BY <6>1 DEF News
          <6>2. CASE Sessions!Announced(t) = <<"library_changed">>
            BY <6>2 DEF News
          <6> QED
            BY <4>2, <6>1, <6>2
        <5>2. Len(events') = Len(events) + Len(Sessions!Announced(t)) /\ Len(events) \in Nat
          BY <1>1, <1>4, <5>1
        <5>3. Len(events') # 0 /\ Len(<<>>) = 0
          BY <5>1, <5>2
        <5> QED
          BY <5>3
      <4>4. ASSUME op[t].outcome = "ok", op[t].kind = "tv"
            PROVE  \E i \in 1 .. Len(events') : events'[i] = "scan_complete"
        <5>1. Sessions!Announced(t) = <<"library_changed", "scan_complete">>
          BY <4>4 DEF Sessions!Announced
        <5>2. events' = Append(Append(events, "library_changed"), "scan_complete")
          BY <1>1, <1>4, <5>1
        <5>3. /\ Len(events') = Len(events) + 2 /\ events'[Len(events) + 2] = "scan_complete"
              /\ Len(events) \in Nat
          BY <1>4, <5>2
        <5> QED
          BY <5>3
      <4> QED
        BY <4>1, <4>3, <4>4
    <3>8. Announced(t)'
      BY <3>1, <3>7 DEF Announced
    <3> QED
      BY <3>3, <3>8
  <2> QED
    BY <1>1, <1>2, <1>3, <2>1, MovesKeepPages
<1> QED
  BY <1>8, <1>9, <1>11, <1>12, <1>13, <1>14, <1>15

LEMMA WorkKeeps ==
    ASSUME SessionInv, NEW t \in Sessions!Scans, Sessions!WorkEnds(t)
    PROVE  SessionInv'
<1> USE DEF SessionInv
<1>1. UNCHANGED <<token, begun, mode, sessionLibrary, orchestrator, progress,
                  snapshot, page, warming, tab, events, starts, switches, adopted>>
  BY DEF Sessions!WorkEnds, Sessions!window
<1>2. PICK out \in Sessions!Outcomes(t) :
         /\ Moves(t, IF op[t].kind # "show" THEN "check"
                     ELSE IF out = "ok" THEN "handover" ELSE "announce")
         /\ op'[t].outcome = out
         /\ op'[t].late => op[t].kind # "show" /\ token # t
         /\ op[t].kind \in Sessions!Kinds /\ out = "ok" =>
               /\ \E c \in {"unscanned", "scanned"} : contents' = [contents EXCEPT ![t] = c]
               /\ orchestrated' = IF op[t].kind = "tv"
                                    THEN [orchestrated EXCEPT ![t] = t] ELSE orchestrated
         /\ ~(op[t].kind \in Sessions!Kinds /\ out = "ok") =>
               /\ \/ \E l : contents' = [contents EXCEPT ![l] = "scanned"]
                  \/ contents' = contents
               /\ orchestrated' = orchestrated
  BY WorkMoves
<1> DEFINE pc == IF op[t].kind # "show" THEN "check" ELSE IF out = "ok" THEN "handover" ELSE "announce"
<1>3. op[t].pc = "work" /\ Moves(t, pc) /\ op'[t].kind = op[t].kind /\ op'[t].pc = pc
  BY <1>2, WorkMoves DEF Moves
<1>4. pc \in {"check", "handover", "announce"} /\ (pc = "check" <=> op[t].kind # "show")
  OBVIOUS
<1>5. op[t].kind = "show" => t = Sessions!ShowScan
  BY DEF ScansInOrder
<1>6. t = Sessions!ShowScan => op[t].kind = "show"
  BY <1>3 DEF ScansInOrder
<1> HIDE DEF pc
\* A list is filled, none is emptied.
<1>7. /\ contents' \in [Sessions!Scans -> {"none", "unscanned", "scanned"}]
      /\ \A l \in Sessions!Scans : contents[l] # "none" => contents'[l] # "none"
      /\ op[t].kind \in Sessions!Kinds /\ out = "ok" => contents'[t] # "none"
  <2>1. CASE op[t].kind \in Sessions!Kinds /\ out = "ok"
    <3>1. PICK c \in {"unscanned", "scanned"} : contents' = [contents EXCEPT ![t] = c]
      BY <1>2, <2>1
    <3> QED
      BY <3>1 DEF WorkerTypes
  <2>2. CASE ~(op[t].kind \in Sessions!Kinds /\ out = "ok")
    <3>1. \/ \E l : contents' = [contents EXCEPT ![l] = "scanned"]
          \/ contents' = contents
      BY <1>2, <2>2
    <3> QED
      BY <2>2, <3>1 DEF WorkerTypes
  <2> QED
    BY <2>1, <2>2
<1>8. /\ orchestrated' \in [Sessions!Scans -> Sessions!Scans \cup {Sessions!None}]
      /\ \A u \in Sessions!Scans :
            \/ orchestrated'[u] = orchestrated[u]
            \/ orchestrated'[u] = t /\ op[t].kind = "tv" /\ out = "ok"
  <2>1. CASE op[t].kind \in Sessions!Kinds /\ out = "ok"
    BY <1>2, <2>1 DEF ListTypes
  <2>2. CASE ~(op[t].kind \in Sessions!Kinds /\ out = "ok")
    <3>1. orchestrated' = orchestrated
      BY <1>2, <2>2
    <3> QED
      BY <3>1 DEF ListTypes
  <2> QED
    BY <2>1, <2>2
<1>9. WorkerTypes' /\ PageTypes' /\ ListTypes'
  BY <1>1, <1>3, <1>7, <1>8 DEF WorkerTypes, PageTypes, ListTypes, Moves
<1>10. StartsCounted'
  BY <1>1, <1>3, MovesKeepCount DEF Untold
<1>11. ScansInOrder'
  <2>1. op'[t].outcome = "empty" => op[t].kind \in Sessions!Kinds
    BY <1>2 DEF Sessions!Outcomes
  <2>2. op'[t].late => pc \in {"check", "done"} /\ token # t
    BY <1>2, <1>4
  <2> QED
    BY <1>1, <1>3, <1>4, <1>5, <2>1, <2>2, MovesKeepOrder DEF Working
<1>12. ListsFilled'
  <2>1. ASSUME NEW l \in Listed', l # Sessions!None PROVE contents'[l] # "none"
    <3>1. l \in Listed \/ (l = t /\ op[t].kind = "tv" /\ out = "ok")
      BY <1>1, <1>8 DEF Listed
    <3>2. l \in Sessions!Scans \cup {Sessions!None}
      BY <3>1 DEF Listed, ListTypes, Snapshots
    <3> QED
      BY <1>7, <2>1, <3>1, <3>2, ScanNumbers DEF ListsFilled
  <2>2. ASSUME NEW u \in Sessions!Scans,
               op'[u].kind \in Sessions!Kinds, op'[u].pc \in {"check", "publish"}, op'[u].outcome = "ok"
        PROVE  contents'[u] # "none"
    <3>1. CASE u = t
      BY <1>2, <1>3, <1>7, <2>2, <3>1
    <3>2. CASE u # t
      BY <1>3, <1>7, <2>2, <3>2 DEF Moves, ListsFilled
    <3> QED
      BY <3>1, <3>2
  <2> QED
    BY <2>1, <2>2 DEF ListsFilled
<1>13. OrchestratorThere'
  <2>1. sessionLibrary'["tv"] # Sessions!None => TvBegun
    BY <1>1 DEF OrchestratorThere
  <2>2. ASSUME NEW u \in Sessions!Scans, orchestrated'[u] # Sessions!None PROVE TvBegun
    <3>1. CASE orchestrated'[u] = orchestrated[u]
      BY <2>2, <3>1 DEF OrchestratorThere
    <3>2. CASE op[t].kind = "tv"
      BY <1>3, <3>2 DEF TvBegun
    <3> QED
      BY <1>8, <3>1, <3>2
  <2> QED
    BY <1>1, <1>3, <1>4, <2>1, <2>2, MovesKeepOrchestrator
<1>14. ListsInTime'
  BY <1>1, <1>3, MovesKeepTime DEF Final
<1>15. PagesComeUp'
  <2>1. ASSUME t = begun, Waits(begun) PROVE Took(t)' /\ Announced(t)'
    <3>1. t # Sessions!ShowScan
      BY <2>1, BegunIsScan
    <3>2. op'[t].pc = "check"
      BY <1>3, <1>4, <1>5, <3>1
    <3>3. op[t].kind = "bulk" => sessionLibrary["tv"] # Sessions!None
      BY <2>1 DEF PagesComeUp, Took
    <3> QED
      BY <1>1, <1>3, <3>2, <3>3 DEF Took, Announced
  <2> QED
    BY <1>1, <1>3, <1>4, <2>1, MovesKeepPages
<1> QED
  BY <1>9, <1>10, <1>11, <1>12, <1>13, <1>14, <1>15

LEMMA ReportKeeps ==
    ASSUME SessionInv, NEW t \in Sessions!Scans, Sessions!Report(t)
    PROVE  SessionInv'
<1> USE DEF SessionInv
<1>1. /\ op[t].pc = "work" /\ progress' = "working"
      /\ UNCHANGED <<token, begun, op, contents, mode, sessionLibrary, orchestrator, orchestrated,
                     snapshot, page, warming, tab, events, starts, switches, adopted>>
  BY DEF Sessions!Report, Sessions!worker, Sessions!session, Sessions!window
<1>2. WorkerTypes' /\ PageTypes' /\ ListTypes'
  BY <1>1 DEF WorkerTypes, PageTypes, ListTypes, Sessions!Lifecycles, Sessions!Busy
<1>3. StartsCounted'
  BY <1>1 DEF StartsCounted, Telling, Completions
<1>4. SameWork
  BY <1>1 DEF SameWork, WorkerTypes
<1>5. ScansInOrder'
  BY <1>1, <1>4, OrderStays
<1>6. ListsFilled'
  <2>1. Listed' \subseteq Listed
    BY <1>1 DEF Listed
  <2> QED
    BY <1>1, <1>4, <2>1, FilledStays
<1>7. OrchestratorThere'
  BY <1>1, <1>4, OrchestratorStays
<1>8. ListsInTime'
  BY <1>1 DEF ListsInTime, Published
<1>9. PagesComeUp'
  <2>1. ASSUME Waits(begun) PROVE Announced(begun)'
    <3>1. Alone(begun)
      BY <2>1 DEF PagesComeUp
    <3>2. t = begun
      BY <1>1, <3>1 DEF Alone, Sessions!Running
    <3> QED
      BY <1>1, <3>2 DEF Announced
  <2> QED
    BY <1>1, <1>4, <2>1, PagesStay
<1> QED
  BY <1>2, <1>3, <1>5, <1>6, <1>7, <1>8, <1>9

(* The steps of the user and of the window. *)

LEMMA WarmupKeeps ==
    ASSUME SessionInv, NEW k \in Sessions!Kinds, Sessions!WarmupEnds(k)
    PROVE  SessionInv'
<1> USE DEF SessionInv
<1>1. /\ UNCHANGED <<token, begun, op, contents, mode, sessionLibrary, orchestrator, orchestrated,
                     progress, snapshot, tab, events, starts, switches, adopted>>
      /\ warming' = [warming EXCEPT ![k] = FALSE] /\ page' = [page EXCEPT ![k] = "ready"]
  BY DEF Sessions!WarmupEnds, Sessions!worker, Sessions!session
<1>2. WorkerTypes' /\ PageTypes' /\ ListTypes'
  BY <1>1 DEF WorkerTypes, PageTypes, ListTypes
<1>3. StartsCounted'
  BY <1>1 DEF StartsCounted, Telling, Completions
<1>4. SameWork
  BY <1>1 DEF SameWork, WorkerTypes
<1>5. ScansInOrder'
  BY <1>1, <1>4, OrderStays
<1>6. ListsFilled'
  <2>1. Listed' \subseteq Listed
    BY <1>1 DEF Listed
  <2> QED
    BY <1>1, <1>4, <2>1, FilledStays
<1>7. OrchestratorThere'
  BY <1>1, <1>4, OrchestratorStays
<1>8. ListsInTime'
  BY <1>1 DEF ListsInTime, Published
<1>9. PagesComeUp'
  <2>1. SUFFICES ASSUME Waits(begun)'
                 PROVE  (mode = Sessions!KindOf(begun) /\ Alone(begun) /\ op[begun].pc # "idle"
                           /\ Took(begun) /\ Announced(begun))'
    BY DEF PagesComeUp
  <2>2. Sessions!KindOf(begun)' = Sessions!KindOf(begun) /\ Sessions!KindOf(begun) \in Sessions!Kinds
    BY <1>1, ScanNumbers DEF Sessions!KindOf
  <2>3. Waits(begun)
    BY <1>1, <2>1, <2>2 DEF Waits, PageTypes
  <2>4. mode = Sessions!KindOf(begun) /\ Alone(begun) /\ op[begun].pc # "idle" /\ Took(begun) /\ Announced(begun)
    BY <2>3 DEF PagesComeUp
  <2> QED
    BY <1>1, <2>2, <2>4 DEF Alone, Sessions!Running, Took, Announced
<1> QED
  BY <1>2, <1>3, <1>5, <1>6, <1>7, <1>8, <1>9

LEMMA RefuseKeeps ==
    ASSUME SessionInv, NEW k \in Sessions!Kinds, Sessions!RefuseScan(k)
    PROVE  SessionInv'
<1> USE DEF SessionInv
<1>1. /\ UNCHANGED <<token, begun, op, contents, mode, sessionLibrary, orchestrator, orchestrated,
                     progress, snapshot, warming, tab, events, switches, adopted>>
      /\ starts < MaxStarts /\ starts' = starts + 1 /\ page' = [page EXCEPT ![k] = "empty"]
  BY DEF Sessions!RefuseScan, Sessions!ShowPage, Sessions!worker, Sessions!session
<1>2. starts \in Nat /\ begun \in Nat
  BY DEF WorkerTypes
<1>3. WorkerTypes' /\ PageTypes' /\ ListTypes'
  BY <1>1, <1>2 DEF WorkerTypes, PageTypes, ListTypes
<1>4. StartsCounted'
  <2>1. Telling' = Telling /\ Completions(events)' = Completions(events)
    BY <1>1 DEF Telling, Completions
  <2>2. Cardinality(Telling) \in Nat /\ Cardinality(Completions(events)) \in Nat
    BY SetsAreFinite
  <2>3. /\ starts' <= MaxStarts
        /\ begun' + Cardinality(Telling) + Cardinality(Completions(events)) <= 2 * starts'
    BY <1>1, <1>2, <2>2, ScanningAssumption DEF StartsCounted
  <2> QED
    BY <2>1, <2>3 DEF StartsCounted
<1>5. SameWork
  BY <1>1 DEF SameWork, WorkerTypes
<1>6. ScansInOrder'
  BY <1>1, <1>5, OrderStays
<1>7. ListsFilled'
  <2>1. Listed' \subseteq Listed
    BY <1>1 DEF Listed
  <2> QED
    BY <1>1, <1>5, <2>1, FilledStays
<1>8. OrchestratorThere'
  BY <1>1, <1>5, OrchestratorStays
<1>9. ListsInTime'
  BY <1>1 DEF ListsInTime, Published
<1>10. PagesComeUp'
  <2>1. SUFFICES ASSUME Waits(begun)'
                 PROVE  (mode = Sessions!KindOf(begun) /\ Alone(begun) /\ op[begun].pc # "idle"
                           /\ Took(begun) /\ Announced(begun))'
    BY DEF PagesComeUp
  <2>2. Sessions!KindOf(begun)' = Sessions!KindOf(begun) /\ Sessions!KindOf(begun) \in Sessions!Kinds
    BY <1>1, ScanNumbers DEF Sessions!KindOf
  <2>3. Waits(begun)
    BY <1>1, <2>1, <2>2 DEF Waits, PageTypes
  <2>4. mode = Sessions!KindOf(begun) /\ Alone(begun) /\ op[begun].pc # "idle" /\ Took(begun) /\ Announced(begun)
    BY <2>3 DEF PagesComeUp
  <2> QED
    BY <1>1, <2>2, <2>4 DEF Alone, Sessions!Running, Took, Announced
<1> QED
  BY <1>3, <1>4, <1>6, <1>7, <1>8, <1>9, <1>10

LEMMA CancelKeeps ==
    ASSUME SessionInv, Sessions!CancelScan
    PROVE  SessionInv'
<1> USE DEF SessionInv
<1>1. /\ UNCHANGED <<token, begun, contents, mode, sessionLibrary, orchestrator, orchestrated,
                     progress, snapshot, page, warming, tab, events, starts, switches, adopted>>
      /\ token # Sessions!None /\ op' = [op EXCEPT ![token].cancelled = TRUE]
  BY DEF Sessions!CancelScan, Sessions!session, Sessions!window
<1> DEFINE v == [op[token] EXCEPT !.cancelled = TRUE]
<1>2. token \in Sessions!Scans /\ op[token] \in Workers
  BY <1>1 DEF WorkerTypes
<1>3. /\ v \in Workers /\ v.kind = op[token].kind /\ v.pc = op[token].pc
      /\ v.outcome = op[token].outcome /\ v.late = op[token].late /\ v.uses = op[token].uses
      /\ v.undisturbed = op[token].undisturbed
  BY <1>2 DEF Workers
<1>4. op' = [op EXCEPT ![token] = v]
  BY <1>1
<1> HIDE DEF v
<1>5. /\ op' \in [Sessions!Scans -> Workers] /\ op'[token] = v
      /\ \A u \in Sessions!Scans \ {token} : op'[u] = op[u]
  BY <1>2, <1>3, <1>4, OneWorker
<1>6. SameWork /\ \A u \in Sessions!Scans : op'[u].undisturbed = op[u].undisturbed
  <2>1. ASSUME NEW u \in Sessions!Scans
        PROVE  /\ op'[u].kind = op[u].kind /\ op'[u].pc = op[u].pc /\ op'[u].outcome = op[u].outcome
               /\ op'[u].late = op[u].late /\ op'[u].uses = op[u].uses
               /\ op'[u].undisturbed = op[u].undisturbed
    <3>1. CASE u = token
      BY <1>3, <1>5, <3>1
    <3>2. CASE u # token
      BY <1>5, <3>2
    <3> QED
      BY <3>1, <3>2
  <2> QED
    BY <1>5, <2>1 DEF SameWork
<1>7. WorkerTypes' /\ PageTypes' /\ ListTypes'
  BY <1>1, <1>5 DEF WorkerTypes, PageTypes, ListTypes
<1>8. StartsCounted'
  <2>1. Telling' = Telling /\ Completions(events)' = Completions(events)
    BY <1>1, <1>6 DEF Telling, Completions, SameWork
  <2> QED
    BY <1>1, <2>1 DEF StartsCounted
<1>9. ScansInOrder'
  BY <1>1, <1>6, OrderStays
<1>10. ListsFilled'
  <2>1. Listed' \subseteq Listed
    BY <1>1 DEF Listed
  <2> QED
    BY <1>1, <1>6, <2>1, FilledStays
<1>11. OrchestratorThere'
  BY <1>1, <1>6, OrchestratorStays
<1>12. ListsInTime'
  <2> DEFINE kept == {sessionLibrary[k] : k \in Sessions!Kinds} \cup {snapshot[k].list : k \in Sessions!Kinds}
  <2>1. \A l \in Sessions!Scans : op[l].pc \in Final /\ l # Sessions!ShowScan
            => op'[l].pc \in Final /\ (op'[l].late => op[l].late)
    BY <1>6 DEF SameWork
  <2>2. kept \in SUBSET (Sessions!Scans \cup {Sessions!None})
    BY DEF ListTypes, Snapshots
  <2>3. \A k \in Sessions!Kinds :
          /\ sessionLibrary'[k] \in kept \cup adopted' \cup {Sessions!None}
          /\ snapshot'[k].list \in kept \cup adopted' \cup {Sessions!None}
    BY <1>1
  <2> QED
    BY <1>1, <2>1, <2>2, <2>3, TimeStays
<1>13. PagesComeUp'
  <2>1. ASSUME Waits(begun) PROVE Announced(begun)'
    <3>1. begun \in Sessions!Scans
      BY <2>1, BegunIsScan DEF Waits
    <3>2. Announced(begun)
      BY <2>1 DEF PagesComeUp
    <3> QED
      BY <1>1, <1>6, <3>1, <3>2 DEF Announced, SameWork
  <2> QED
    BY <1>1, <1>6, <2>1, PagesStay
<1> QED
  BY <1>7, <1>8, <1>9, <1>10, <1>11, <1>12, <1>13

\* A scan that begins is the first of its number, and the newest.
FreshWorker(what, uses) ==
    [Sessions!IdleScan EXCEPT !.kind = what, !.pc = "work", !.uses = uses,
                              !.undisturbed = \A u \in Sessions!Scans : ~Sessions!Running(u)]

\* What is true of the workers once scan n of a kind has begun, or the single-show
\* scan has.
Begins(n, what, uses) ==
    /\ op' \in [Sessions!Scans -> Workers]
    /\ \A u \in Sessions!Scans \ {n} : op'[u] = op[u]
    /\ op'[n].kind = what /\ op'[n].pc = "work" /\ op'[n].uses = uses
    /\ op'[n].outcome = "ok" /\ op'[n].late = FALSE
    /\ (op'[n].undisturbed => \A u \in Sessions!Scans : ~Sessions!Running(u))

LEMMA WorkersBegin ==
    ASSUME WorkerTypes, NEW n \in Sessions!Scans, NEW what \in {"tv", "movie", "bulk", "show"},
           NEW uses \in Sessions!Scans \cup {Sessions!None},
           op' = [op EXCEPT ![n] = FreshWorker(what, uses)]
    PROVE  Begins(n, what, uses)
<1> DEFINE free == \A u \in Sessions!Scans : ~Sessions!Running(u)
<1>1. free \in BOOLEAN
  OBVIOUS
<1> HIDE DEF free
<1> DEFINE v == [Sessions!IdleScan EXCEPT !.kind = what, !.pc = "work", !.uses = uses, !.undisturbed = free]
<1>2. op' = [op EXCEPT ![n] = v]
  BY DEF FreshWorker, free
<1>3. /\ v \in Workers /\ v.kind = what /\ v.pc = "work" /\ v.uses = uses
      /\ v.outcome = "ok" /\ v.late = FALSE /\ v.undisturbed = free
  BY <1>1 DEF Workers, Stages, Sessions!IdleScan
<1> HIDE DEF v
<1>4. /\ op' \in [Sessions!Scans -> Workers] /\ op'[n] = v
      /\ \A u \in Sessions!Scans \ {n} : op'[u] = op[u]
  BY <1>2, <1>3, OneWorker
<1>5. op'[n].undisturbed => free
  BY <1>1, <1>3, <1>4
<1> QED
  BY <1>3, <1>4, <1>5 DEF Begins, free

LEMMA BeginsInOrder ==
    ASSUME WorkerTypes, ScansInOrder, NEW n \in Sessions!Scans, NEW what, NEW uses, Begins(n, what, uses),
           \/ n = begun + 1 /\ n # Sessions!ShowScan /\ what # "show" /\ token' = n /\ begun' = n
           \/ n = Sessions!ShowScan /\ what = "show" /\ UNCHANGED <<token, begun>> /\ begun # n
    PROVE  ScansInOrder'
<1>0. begun \in Nat /\ (token \in Sessions!Scans \/ token = 0)
  BY ScanNumbers DEF WorkerTypes
<1>1. token' <= begun'
  BY <1>0, ScanNumbers DEF ScansInOrder
<1>2. ASSUME NEW u \in Sessions!Scans \ {Sessions!ShowScan}
      PROVE  /\ op'[u].kind # "show" /\ op'[u].pc \notin {"handover", "takeback"}
             /\ u > begun' => op'[u].pc = "idle"
  <2>0. u \in Nat
    BY ScanNumbers
  <2>1. CASE u = n
    BY <1>0, <2>0, <2>1 DEF Begins
  <2>2. CASE u # n
    BY <1>0, <2>0, <2>2 DEF Begins, ScansInOrder
  <2> QED
    BY <2>1, <2>2
<1>3. op'[Sessions!ShowScan].pc # "idle" => op'[Sessions!ShowScan].kind = "show"
  BY ScanNumbers DEF Begins, ScansInOrder
<1>4. ASSUME NEW u \in Sessions!Scans
      PROVE  /\ op'[u].outcome = "empty" => op'[u].kind \in Sessions!Kinds
             /\ op'[u].late => op'[u].pc \in {"check", "done"} /\ token' # u
  <2>1. CASE u = n
    BY <2>1 DEF Begins
  <2>2. CASE u # n
    BY <2>2, ScanNumbers DEF Begins, ScansInOrder
  <2> QED
    BY <2>1, <2>2
<1>5. Sessions!NewestScanCancellable'
  <2> SUFFICES ASSUME NEW u \in Sessions!Scans \ {Sessions!ShowScan}, u = begun', op'[u].pc \in Working
               PROVE  token' = u
    BY DEF Sessions!NewestScanCancellable, Working
  <2>1. CASE n = Sessions!ShowScan /\ UNCHANGED <<token, begun>>
    BY <2>1 DEF Begins, ScansInOrder, Sessions!NewestScanCancellable, Working
  <2>2. CASE token' = n /\ begun' = n
    BY <2>2
  <2> QED
    BY <2>1, <2>2
<1> QED
  BY <1>1, <1>2, <1>3, <1>4, <1>5 DEF ScansInOrder

LEMMA BeginsFilled ==
    ASSUME ListsFilled, NEW n \in Sessions!Scans, NEW what, NEW uses, Begins(n, what, uses),
           contents' = contents, Listed' \subseteq Listed \cup {Sessions!None}
    PROVE  ListsFilled'
<1>1. ASSUME NEW u \in Sessions!Scans,
             op'[u].kind \in Sessions!Kinds, op'[u].pc \in {"check", "publish"}, op'[u].outcome = "ok"
      PROVE  contents[u] # "none"
  BY <1>1 DEF Begins, ListsFilled
<1> QED
  BY <1>1 DEF ListsFilled

LEMMA BeginsBegun ==
    ASSUME NEW n \in Sessions!Scans, NEW what, NEW uses, Begins(n, what, uses),
           op[n].pc = "idle" \/ op[n].kind # "tv"
    PROVE  TvBegun' <=> TvBegun \/ what = "tv"
<1>1. TvBegun => TvBegun'
  <2> SUFFICES ASSUME NEW u \in Sessions!Scans, op[u].kind = "tv", op[u].pc # "idle"
               PROVE  TvBegun'
    BY DEF TvBegun
  <2> QED
    BY DEF Begins, TvBegun
<1>2. what = "tv" => TvBegun'
  BY DEF Begins, TvBegun
<1>3. TvBegun' => TvBegun \/ what = "tv"
  BY DEF Begins, TvBegun
<1> QED
  BY <1>1, <1>2, <1>3

LEMMA BeginsInTime ==
    ASSUME ListTypes, ListsInTime, NEW n \in Sessions!Scans, NEW what, NEW uses, Begins(n, what, uses),
           op[n].pc = "idle" \/ n = Sessions!ShowScan, adopted' = adopted,
           \A k \in Sessions!Kinds :
              /\ sessionLibrary'[k] \in {sessionLibrary[k], Sessions!None}
              /\ snapshot'[k].list = snapshot[k].list
    PROVE  ListsInTime'
<1> DEFINE kept == {sessionLibrary[k] : k \in Sessions!Kinds} \cup {snapshot[k].list : k \in Sessions!Kinds}
<1>1. \A l \in Sessions!Scans : op[l].pc \in Final /\ l # Sessions!ShowScan
          => op'[l].pc \in Final /\ (op'[l].late => op[l].late)
  BY DEF Begins, Final
<1>2. kept \in SUBSET (Sessions!Scans \cup {Sessions!None})
  BY DEF ListTypes, Snapshots
<1>3. \A k \in Sessions!Kinds :
        /\ sessionLibrary'[k] \in kept \cup adopted' \cup {Sessions!None}
        /\ snapshot'[k].list \in kept \cup adopted' \cup {Sessions!None}
  OBVIOUS
<1> QED
  BY <1>1, <1>2, <1>3, TimeStays

\* The page that a newest scan opens waits for it alone.
LEMMA BeginsWaiting ==
    ASSUME NEW n \in Sessions!Scans, NEW what, NEW uses, Begins(n, what, uses), begun' = n,
           what \in Sessions!Kinds => mode' = what,
           what \notin Sessions!Kinds => mode' = "tv",
           what = "bulk" => sessionLibrary'["tv"] # Sessions!None
    PROVE  PagesComeUp'
<1> SUFFICES ASSUME Waits(begun)'
             PROVE  (mode = Sessions!KindOf(begun) /\ Alone(begun) /\ op[begun].pc # "idle"
                       /\ Took(begun) /\ Announced(begun))'
  BY DEF PagesComeUp
<1>1. op'[begun'].kind = what /\ op'[begun'].pc = "work" /\ begun' \in Sessions!Scans
  BY DEF Begins
<1>2. \A u \in Sessions!Scans : ~Sessions!Running(u)
  BY DEF Waits, Begins
<1>3. mode' = Sessions!KindOf(begun)'
  BY <1>1 DEF Sessions!KindOf
<1>4. Alone(begun)'
  BY <1>2 DEF Alone, Sessions!Running, Begins
<1>5. Took(begun)' /\ Announced(begun)'
  BY <1>1 DEF Took, Announced
<1> QED
  BY <1>1, <1>3, <1>4, <1>5

LEMMA StartKeeps ==
    ASSUME SessionInv, NEW k \in Sessions!Kinds, Sessions!StartScan(k)
    PROVE  SessionInv'
<1> USE DEF SessionInv
<1> DEFINE n == begun + 1
<1>1. /\ UNCHANGED <<contents, orchestrated, snapshot, warming, tab, events, switches, adopted>>
      /\ tab = k /\ starts < MaxStarts /\ starts' = starts + 1
      /\ begun' = n /\ token' = n /\ op' = [op EXCEPT ![n] = FreshWorker(k, Sessions!None)]
      /\ mode' = k /\ sessionLibrary' = [sessionLibrary EXCEPT ![k] = Sessions!None]
      /\ orchestrator' = IF k = "tv" THEN n ELSE orchestrator
      /\ progress' = "discovering" /\ page' = [page EXCEPT ![k] = "scanning"]
  BY DEF Sessions!StartScan, Sessions!BeginScan, Sessions!ShowPage, FreshWorker
<1>2. begun \in Nat /\ starts \in Nat
  BY DEF WorkerTypes
<1>3. Cardinality(Telling) \in Nat /\ Cardinality(Completions(events)) \in Nat
  BY SetsAreFinite
<1>4. n \in Sessions!Scans /\ n # Sessions!ShowScan
  BY <1>1, <1>2, <1>3, ScanNumbers, ScanningAssumption DEF StartsCounted
<1>5. op[n].pc = "idle"
  BY <1>2, <1>4 DEF ScansInOrder
<1>6. k \in {"tv", "movie", "bulk", "show"}
  BY ScanNumbers
<1>7. Begins(n, k, Sessions!None)
  BY <1>1, <1>4, <1>6, WorkersBegin
<1> HIDE DEF n
<1>8. /\ sessionLibrary' \in [Sessions!Kinds -> Sessions!Scans \cup {Sessions!None}]
      /\ \A j \in Sessions!Kinds : sessionLibrary'[j] \in {sessionLibrary[j], Sessions!None}
  BY <1>1 DEF ListTypes
<1>9. WorkerTypes' /\ PageTypes' /\ ListTypes'
  <2>1. n \in Nat
    BY <1>4, ScanNumbers
  <2>2. WorkerTypes'
    BY <1>1, <1>2, <1>4, <1>7, <2>1 DEF WorkerTypes, Begins, Sessions!Lifecycles, Sessions!Busy
  <2>3. PageTypes' /\ ListTypes'
    BY <1>1, <1>4, <1>8 DEF PageTypes, ListTypes
  <2> QED
    BY <2>2, <2>3
<1>10. StartsCounted'
  <2>1. Telling' \subseteq Telling \cup {n}
    BY <1>7 DEF Telling, Begins
  <2>2. Cardinality(Telling') \in Nat /\ Cardinality(Telling') <= Cardinality(Telling) + 1
    BY <1>4, <2>1, TellersGrow
  <2>3. Completions(events)' = Completions(events)
    BY <1>1 DEF Completions
  <2>4. starts' <= MaxStarts /\ begun' + Cardinality(Telling') + Cardinality(Completions(events)) <= 2 * starts'
    BY <1>1, <1>2, <1>3, <2>2, ScanningAssumption DEF StartsCounted, n
  <2> QED
    BY <2>3, <2>4 DEF StartsCounted
<1>11. ScansInOrder'
  <2>1. n = begun + 1 /\ k # "show"
    BY ScanNumbers DEF n
  <2> QED
    BY <1>1, <1>4, <1>7, <2>1, BeginsInOrder
<1>12. ListsFilled'
  <2>1. Listed' \subseteq Listed \cup {Sessions!None}
    BY <1>1, <1>8 DEF Listed
  <2> QED
    BY <1>1, <1>4, <1>7, <2>1, BeginsFilled
<1>13. OrchestratorThere'
  <2>1. TvBegun' <=> TvBegun \/ k = "tv"
    BY <1>4, <1>5, <1>7, BeginsBegun
  <2>2. op'[Sessions!ShowScan].pc # "idle" => TvBegun
    BY <1>4, <1>7, ScanNumbers DEF Begins, OrchestratorThere
  <2>3. sessionLibrary'["tv"] # Sessions!None => TvBegun
    BY <1>8, ScanNumbers DEF OrchestratorThere
  <2>4. ASSUME NEW u \in Sessions!Scans,
               op'[u].pc = "takeback" \/ (op'[u].kind = "bulk" /\ op'[u].pc = "work")
        PROVE  op'[u].uses # Sessions!None
    <3>1. u # n
      BY <1>7, <2>4, ScanNumbers DEF Begins
    <3> QED
      BY <1>7, <2>4, <3>1 DEF Begins, OrchestratorThere
  <2>5. snapshot'["tv"].taken /\ (tab' = "tv" => mode' = "tv")
    BY <1>1 DEF OrchestratorThere
  <2>6. TvBegun' => orchestrator' # Sessions!None /\ (tab' = "movie" => snapshot'["tv"].orch # Sessions!None)
    <3>1. CASE k = "tv"
      BY <1>1, <1>4, <3>1, ScanNumbers
    <3>2. CASE k = "movie"
      BY <1>1, <2>1, <3>2 DEF OrchestratorThere
    <3> QED
      BY <3>1, <3>2, ScanNumbers
  <2>7. sessionLibrary'["tv"] # Sessions!None \/ snapshot'["tv"].list # Sessions!None
          \/ (\E t \in Sessions!Scans : orchestrated'[t] # Sessions!None) \/ op'[Sessions!ShowScan].pc # "idle" => TvBegun'
    BY <1>1, <2>1, <2>2, <2>3 DEF OrchestratorThere
  <2> QED
    BY <2>4, <2>5, <2>6, <2>7 DEF OrchestratorThere
<1>14. ListsInTime'
  BY <1>1, <1>4, <1>5, <1>7, <1>8, BeginsInTime
<1>15. PagesComeUp'
  BY <1>1, <1>4, <1>7, ScanNumbers, BeginsWaiting
<1> QED
  BY <1>9, <1>10, <1>11, <1>12, <1>13, <1>14, <1>15

LEMMA ShowKeeps ==
    ASSUME SessionInv, Sessions!ScanShow
    PROVE  SessionInv'
<1> USE DEF SessionInv
<1> DEFINE n == Sessions!ShowScan
<1>1. /\ UNCHANGED <<token, begun, contents, mode, sessionLibrary, orchestrator, orchestrated,
                     snapshot, page, warming, tab, switches, adopted>>
      /\ page["tv"] = "ready" /\ mode = "tv" /\ sessionLibrary["tv"] # Sessions!None
      /\ starts < MaxStarts /\ starts' = starts + 1
      /\ op' = [op EXCEPT ![n] = FreshWorker("show", Sessions!None)]
      /\ progress' = "working" /\ events' = Append(events, "library_changed")
  <2>1. op' = [op EXCEPT ![n] = FreshWorker("show", Sessions!None)]
    <3>1. ASSUME NEW b \in BOOLEAN
          PROVE  [Sessions!IdleScan EXCEPT !.kind = "show", !.pc = "work", !.undisturbed = b]
                   = [Sessions!IdleScan EXCEPT !.kind = "show", !.pc = "work", !.uses = Sessions!None,
                                               !.undisturbed = b]
      <4> DEFINE w == Sessions!IdleScan
                 v == [w EXCEPT !.kind = "show", !.pc = "work", !.undisturbed = b]
      <4>1. w \in Workers /\ w.uses = Sessions!None
        BY DEF Sessions!IdleScan, Workers, Stages
      <4> HIDE DEF w
      <4>2. v = [w EXCEPT !.kind = "show", !.pc = "work", !.uses = Sessions!None, !.undisturbed = b]
        BY <4>1 DEF Workers
      <4> QED
        BY <4>2 DEF w
    <3>2. (\A u \in Sessions!Scans : ~Sessions!Running(u)) \in BOOLEAN
      OBVIOUS
    <3> QED
      BY <3>1, <3>2 DEF Sessions!ScanShow, FreshWorker
  <2> QED
    BY <2>1 DEF Sessions!ScanShow, Sessions!session, Sessions!window, Sessions!Library
<1>2. begun \in Nat /\ starts \in Nat /\ events \in Seq(News)
  BY DEF WorkerTypes
<1>3. Cardinality(Telling) \in Nat /\ Cardinality(Completions(events)) \in Nat
  BY SetsAreFinite
<1>4. n \in Sessions!Scans /\ n # begun
  BY ScanNumbers, BegunIsScan
<1>5. Begins(n, "show", Sessions!None)
  BY <1>1, <1>4, WorkersBegin
<1>6. /\ events' \in Seq(News) /\ events' # <<>> /\ Completions(events') = Completions(events)
      /\ \A i \in 1 .. Len(events) : i \in 1 .. Len(events') /\ events'[i] = events[i]
  BY <1>1, <1>2, NewsAdded DEF News
<1> HIDE DEF n
<1>7. WorkerTypes' /\ PageTypes' /\ ListTypes'
  <2>1. WorkerTypes'
    BY <1>1, <1>2, <1>5, <1>6 DEF WorkerTypes, Begins, Sessions!Lifecycles, Sessions!Busy
  <2>2. PageTypes' /\ ListTypes'
    BY <1>1 DEF PageTypes, ListTypes
  <2> QED
    BY <2>1, <2>2
<1>8. StartsCounted'
  <2>1. Telling' \subseteq Telling \cup {n}
    BY <1>5 DEF Telling, Begins
  <2>2. Cardinality(Telling') \in Nat /\ Cardinality(Telling') <= Cardinality(Telling) + 1
    BY <1>4, <2>1, TellersGrow
  <2>3. Completions(events)' = Completions(events)
    BY <1>6 DEF Completions
  <2>4. starts' <= MaxStarts /\ begun' + Cardinality(Telling') + Cardinality(Completions(events)) <= 2 * starts'
    BY <1>1, <1>2, <1>3, <2>2, ScanningAssumption DEF StartsCounted
  <2> QED
    BY <2>3, <2>4 DEF StartsCounted
<1>9. ScansInOrder'
  BY <1>1, <1>4, <1>5, BeginsInOrder DEF n
<1>10. ListsFilled'
  <2>1. Listed' \subseteq Listed \cup {Sessions!None}
    BY <1>1 DEF Listed
  <2> QED
    BY <1>1, <1>4, <1>5, <2>1, BeginsFilled
<1>11. OrchestratorThere'
  <2>1. op[n].pc = "idle" \/ op[n].kind # "tv"
    BY DEF ScansInOrder, n
  <2>2. TvBegun' <=> TvBegun
    BY <1>4, <1>5, <2>1, BeginsBegun
  <2>3. TvBegun
    BY <1>1 DEF OrchestratorThere
  <2>4. ASSUME NEW u \in Sessions!Scans,
               op'[u].pc = "takeback" \/ (op'[u].kind = "bulk" /\ op'[u].pc = "work")
        PROVE  op'[u].uses # Sessions!None
    <3>1. u # n
      BY <1>5, <2>4 DEF Begins
    <3> QED
      BY <1>5, <2>4, <3>1 DEF Begins, OrchestratorThere
  <2> QED
    BY <1>1, <2>2, <2>3, <2>4 DEF OrchestratorThere
<1>12. ListsInTime'
  BY <1>1, <1>4, <1>5, BeginsInTime DEF n
<1>13. PagesComeUp'
  <2>1. ASSUME Waits(begun)' PROVE FALSE
    <3>1. begun \in Sessions!Scans
      BY <1>1, <2>1, BegunIsScan DEF Waits
    <3>2. op'[begun] = op[begun]
      BY <1>4, <1>5, <3>1 DEF Begins
    <3>3. Waits(begun)
      BY <1>1, <2>1, <3>2 DEF Waits, Sessions!KindOf
    <3>4. Sessions!KindOf(begun) = "tv"
      BY <1>1, <3>3 DEF PagesComeUp
    <3> QED
      BY <1>1, <3>3, <3>4 DEF Waits
  <2> QED
    BY <2>1 DEF PagesComeUp
<1> QED
  BY <1>7, <1>8, <1>9, <1>10, <1>11, <1>12, <1>13

\* A page that was told of the library, or of an outcome, is no longer waiting.
LEMMA HandleKeeps ==
    ASSUME SessionInv, Sessions!HandleEvent
    PROVE  SessionInv'
<1> USE DEF SessionInv
<1>1. /\ UNCHANGED <<contents, mode, sessionLibrary, orchestrator, orchestrated,
                     snapshot, tab, starts, switches, adopted>>
      /\ events # <<>> /\ events' = Tail(events)
      /\ IF Head(events) = "library_changed" THEN Sessions!OnLibraryChanged ELSE Sessions!OnScanComplete
  BY DEF Sessions!HandleEvent, Sessions!session
<1>2. begun \in Nat /\ starts \in Nat /\ events \in Seq(News) /\ mode \in Sessions!Kinds
  BY DEF WorkerTypes, PageTypes
<1>3. Cardinality(Telling) \in Nat /\ Cardinality(Completions(events)) \in Nat
  BY SetsAreFinite
<1>4. /\ events' \in Seq(News)
      /\ \A i \in 2 .. Len(events) : i - 1 \in 1 .. Len(events') /\ events'[i - 1] = events[i]
      /\ Cardinality(Completions(events')) \in Nat
      /\ Cardinality(Completions(events'))
           <= IF Head(events) = "library_changed" THEN Cardinality(Completions(events))
                                                  ELSE Cardinality(Completions(events)) - 1
  <2> DEFINE new == Tail(events)
  <2>1. /\ new \in Seq(News) /\ Head(events) \in News
        /\ \A i \in 2 .. Len(events) : i - 1 \in 1 .. Len(new) /\ new[i - 1] = events[i]
        /\ Cardinality(Completions(new))
             <= IF Head(events) = "scan_complete" THEN Cardinality(Completions(events)) - 1
                                                  ELSE Cardinality(Completions(events))
    BY <1>1, <1>2, NewsRead
  <2> HIDE DEF new
  <2>2. Cardinality(Completions(new)) \in Nat
    BY <2>1, NewsCounted
  <2>3. Head(events) = "scan_complete" <=> Head(events) # "library_changed"
    BY <2>1 DEF News
  <2>4. events' = new
    BY <1>1 DEF new
  <2> QED
    BY <2>1, <2>2, <2>3, <2>4
\* Apart from a bulk scan that begins, the handler only brings up the page.
<1> DEFINE shows ==
        /\ UNCHANGED <<token, begun, op, progress>>
        /\ page' \in [Sessions!Kinds -> {"empty", "scanning", "ready"}]
        /\ warming' \in [Sessions!Kinds -> BOOLEAN]
        /\ \A k \in Sessions!Kinds \ {mode} : page'[k] = page[k] /\ warming'[k] = warming[k]
           up == page'[mode] # "scanning" \/ warming'[mode]
           bulk ==
        /\ mode = "tv" /\ sessionLibrary["tv"] # Sessions!None
        /\ begun' = begun + 1 /\ token' = begun + 1
        /\ op' = [op EXCEPT ![begun + 1] = FreshWorker("bulk", orchestrator)]
        /\ progress' = "working" /\ UNCHANGED <<page, warming>>
           quiet ==
        /\ UNCHANGED <<page, warming>>
        /\ ~(progress = "ready" /\ sessionLibrary[mode] # Sessions!None) /\ progress # "cancelled"
        /\ ~(progress = "warning" /\ sessionLibrary[mode] = Sessions!None)
<1>5. \/ shows /\ up
      \/ shows /\ quiet /\ Head(events) = "library_changed"
      \/ bulk /\ Head(events) # "library_changed"
  <2>1. ASSUME \/ Sessions!ShowReadyWhenWarm(mode)
               \/ Sessions!ShowPage(mode, "empty")
               \/ Sessions!ShowOutcome(mode)
        PROVE  /\ page' \in [Sessions!Kinds -> {"empty", "scanning", "ready"}]
               /\ warming' \in [Sessions!Kinds -> BOOLEAN]
               /\ \A k \in Sessions!Kinds \ {mode} : page'[k] = page[k] /\ warming'[k] = warming[k]
               /\ up
    <3>1. \/ page' = page /\ warming' = [warming EXCEPT ![mode] = TRUE]
          \/ page' = [page EXCEPT ![mode] = "ready"] /\ warming' = [warming EXCEPT ![mode] = FALSE]
          \/ \E p \in {"ready", "empty"} : page' = [page EXCEPT ![mode] = p] /\ warming' = warming
      BY <2>1 DEF Sessions!ShowReadyWhenWarm, Sessions!ShowPage, Sessions!ShowOutcome
    <3>2. CASE page' = page /\ warming' = [warming EXCEPT ![mode] = TRUE]
      BY <1>2, <3>2 DEF PageTypes
    <3>3. CASE page' = [page EXCEPT ![mode] = "ready"] /\ warming' = [warming EXCEPT ![mode] = FALSE]
      BY <1>2, <3>3 DEF PageTypes
    <3>4. CASE \E p \in {"ready", "empty"} : page' = [page EXCEPT ![mode] = p] /\ warming' = warming
      BY <1>2, <3>4 DEF PageTypes
    <3> QED
      BY <3>1, <3>2, <3>3, <3>4
  <2>2. CASE Sessions!OnLibraryChanged /\ Head(events) = "library_changed"
    <3>1. UNCHANGED <<token, begun, op, progress>>
      BY <2>2 DEF Sessions!OnLibraryChanged
    <3>2. \/ Sessions!ShowReadyWhenWarm(mode)
          \/ Sessions!ShowPage(mode, "empty")
          \/ Sessions!ShowOutcome(mode)
          \/ quiet
      BY <2>2 DEF Sessions!OnLibraryChanged, Sessions!Library
    <3>3. CASE quiet
      BY <2>2, <3>1, <3>3 DEF PageTypes
    <3> QED
      BY <2>1, <3>1, <3>2, <3>3
  <2>3. CASE Sessions!OnScanComplete /\ Head(events) # "library_changed"
    <3>1. \/ /\ UNCHANGED <<token, begun, op, progress>>
             /\ \/ Sessions!ShowReadyWhenWarm(mode)
                \/ Sessions!ShowPage(mode, "empty")
                \/ Sessions!ShowOutcome(mode)
          \/ bulk
      BY <2>3 DEF Sessions!OnScanComplete, Sessions!NeedsBulkScan, Sessions!BeginScan, Sessions!Library, FreshWorker
    <3> QED
      BY <2>1, <2>3, <3>1
  <2> QED
    BY <1>1, <2>2, <2>3
<1> HIDE DEF shows, up, bulk, quiet
<1>6. ASSUME shows, Head(events) = "library_changed" \/ up, up \/ quiet PROVE SessionInv'
  <2>1. UNCHANGED <<token, begun, op, progress>>
    BY <1>6 DEF shows
  <2>2. WorkerTypes' /\ PageTypes' /\ ListTypes'
    BY <1>1, <1>4, <1>6, <2>1 DEF WorkerTypes, PageTypes, ListTypes, shows
  <2>3. StartsCounted'
    <3>1. Telling' = Telling /\ Completions(events)' = Completions(events')
      BY <2>1 DEF Telling, Completions
    <3>2. Cardinality(Completions(events')) <= Cardinality(Completions(events))
      BY <1>3, <1>4
    <3>3. begun' + Cardinality(Telling) + Cardinality(Completions(events')) <= 2 * starts' /\ starts' <= MaxStarts
      BY <1>1, <1>2, <1>3, <1>4, <2>1, <3>2 DEF StartsCounted
    <3> QED
      BY <3>1, <3>3 DEF StartsCounted
  <2>4. SameWork
    BY <2>1 DEF SameWork, WorkerTypes
  <2>5. ScansInOrder'
    BY <2>1, <2>4, OrderStays
  <2>6. ListsFilled'
    <3>1. Listed' \subseteq Listed
      BY <1>1 DEF Listed
    <3> QED
      BY <1>1, <2>4, <3>1, FilledStays
  <2>7. OrchestratorThere'
    BY <1>1, <2>4, OrchestratorStays
  <2>8. ListsInTime'
    BY <1>1, <2>1 DEF ListsInTime, Published
  <2>9. PagesComeUp'
    <3>1. SUFFICES ASSUME Waits(begun)'
                   PROVE  (mode = Sessions!KindOf(begun) /\ Alone(begun) /\ op[begun].pc # "idle"
                             /\ Took(begun) /\ Announced(begun))'
      BY DEF PagesComeUp
    <3> DEFINE here == Sessions!KindOf(begun)
    <3>2. here' = here /\ here \in Sessions!Kinds
      BY <2>1, ScanNumbers DEF Sessions!KindOf
    <3>3. page'[here] = "scanning" /\ ~warming'[here]
      BY <3>1, <3>2 DEF Waits
    <3>4. here = mode
      <4>1. SUFFICES ASSUME here # mode PROVE FALSE
        OBVIOUS
      <4>2. Waits(begun)
        BY <1>6, <2>1, <3>1, <3>2, <3>3, <4>1 DEF Waits, shows
      <4> QED
        BY <4>1, <4>2 DEF PagesComeUp
    <3>5. quiet /\ Head(events) = "library_changed"
      BY <1>6, <3>3, <3>4 DEF up
    <3>6. Waits(begun)
      BY <2>1, <3>1, <3>2, <3>3, <3>5 DEF Waits, quiet
    <3>7. Alone(begun) /\ op[begun].pc # "idle" /\ Took(begun) /\ Announced(begun)
      BY <3>6 DEF PagesComeUp
    <3>8. Took(begun)' /\ Alone(begun)'
      BY <1>1, <2>1, <3>7 DEF Took, Alone, Sessions!Running
    <3>9. Announced(begun)'
      <4>1. SUFFICES ASSUME op[begun].pc \in {"finish", "done"}, op[begun].outcome # "failed"
                     PROVE  /\ events' # <<>>
                            /\ op[begun].outcome = "cancelled" => progress = "cancelled"
                            /\ op[begun].outcome = "empty" => progress = "warning"
                            /\ op[begun].outcome = "ok" /\ op[begun].kind # "tv" => progress = "ready"
                            /\ op[begun].outcome = "ok" /\ op[begun].kind = "tv" =>
                                  progress = "working" /\ \E i \in 1 .. Len(events') : events'[i] = "scan_complete"
        BY <2>1 DEF Announced
      <4>2. begun \in Sessions!Scans /\ begun # Sessions!ShowScan
        BY <3>6, BegunIsScan DEF Waits
      <4>3. op[begun].kind # "show" /\ (op[begun].outcome = "empty" => op[begun].kind \in Sessions!Kinds)
        BY <4>2 DEF ScansInOrder
      <4>4. op[begun].outcome \in {"ok", "empty", "failed", "cancelled"}
        BY <4>2 DEF WorkerTypes, Workers
      <4>5. op[begun].outcome # "cancelled"
        BY <3>5, <3>7, <4>1 DEF Announced, quiet
      <4>6. op[begun].outcome # "empty"
        <5>1. SUFFICES ASSUME op[begun].outcome = "empty" PROVE FALSE
          OBVIOUS
        <5>2. op[begun].kind = mode /\ op[begun].kind # "bulk"
          BY <3>4, <4>3, <5>1, ScanNumbers DEF Sessions!KindOf
        <5>3. progress = "warning"
          BY <3>7, <4>1, <5>1 DEF Announced
        <5>4. sessionLibrary[mode] = Sessions!None
          BY <3>7, <4>1, <5>1, <5>2 DEF Took
        <5> QED
          BY <3>5, <5>3, <5>4 DEF quiet
      <4>7. op[begun].kind = "tv"
        <5>1. SUFFICES ASSUME op[begun].kind # "tv" PROVE FALSE
          OBVIOUS
        <5>2. op[begun].outcome = "ok" /\ progress = "ready"
          BY <3>7, <4>1, <4>4, <4>5, <4>6, <5>1 DEF Announced
        <5>3. CASE op[begun].kind = "bulk"
          <6>1. mode = "tv" /\ sessionLibrary["tv"] # Sessions!None
            BY <3>4, <3>7, <5>3, ScanNumbers DEF Took, Sessions!KindOf
          <6> QED
            BY <3>5, <5>2, <6>1 DEF quiet
        <5>4. CASE op[begun].kind = "movie"
          <6>1. mode = "movie" /\ sessionLibrary["movie"] = begun
            BY <3>4, <3>7, <4>1, <5>2, <5>4, ScanNumbers DEF Took, Sessions!KindOf
          <6> QED
            BY <3>5, <4>2, <5>2, <6>1, ScanNumbers DEF quiet
        <5> QED
          BY <4>2, <4>3, <5>1, <5>3, <5>4 DEF WorkerTypes, Workers
      <4>8. /\ op[begun].outcome = "ok" /\ progress = "working"
            /\ \E i \in 1 .. Len(events) : events[i] = "scan_complete"
        BY <3>7, <4>1, <4>4, <4>5, <4>6, <4>7 DEF Announced
      <4>9. PICK i \in 1 .. Len(events) : events[i] = "scan_complete"
        BY <4>8
      <4>10. i \in 2 .. Len(events)
        <5>1. Head(events) = events[1]
          BY <1>1, <1>2
        <5> QED
          BY <1>2, <3>5, <4>9, <5>1
      <4>11. i - 1 \in 1 .. Len(events') /\ events'[i - 1] = "scan_complete"
        BY <1>4, <4>9, <4>10
      <4>12. events' # <<>>
        <5>1. Len(events') # 0 /\ Len(<<>>) = 0
          BY <1>4, <4>11
        <5> QED
          BY <5>1
      <4> QED
        BY <4>7, <4>8, <4>11, <4>12
    <3> QED
      BY <1>1, <2>1, <3>2, <3>4, <3>7, <3>8, <3>9
  <2> QED
    BY <2>2, <2>3, <2>5, <2>6, <2>7, <2>8, <2>9
<1>7. ASSUME bulk, Head(events) # "library_changed" PROVE SessionInv'
  <2> DEFINE n == begun + 1
  <2>1. /\ mode = "tv" /\ sessionLibrary["tv"] # Sessions!None
        /\ begun' = n /\ token' = n /\ op' = [op EXCEPT ![n] = FreshWorker("bulk", orchestrator)]
        /\ progress' = "working" /\ UNCHANGED <<page, warming>>
    BY <1>7 DEF bulk
  <2>2. begun + 1 + Cardinality(Telling) + Cardinality(Completions(events')) <= 2 * starts
    BY <1>2, <1>3, <1>4, <1>7 DEF StartsCounted
  <2>3. n \in Sessions!Scans /\ n # Sessions!ShowScan
    BY <1>2, <1>3, <1>4, <2>2, ScanNumbers, ScanningAssumption DEF StartsCounted
  <2>4. op[n].pc = "idle"
    BY <1>2, <2>3 DEF ScansInOrder
  <2>5. orchestrator \in Sessions!Scans \cup {Sessions!None} /\ orchestrator # Sessions!None /\ TvBegun
    BY <2>1 DEF OrchestratorThere, ListTypes
  <2>6. Begins(n, "bulk", orchestrator)
    <3>1. PICK o \in Sessions!Scans \cup {Sessions!None} : o = orchestrator
      BY <2>5
    <3>2. Begins(n, "bulk", o)
      BY <2>1, <2>3, <3>1, WorkersBegin
    <3> QED
      BY <3>1, <3>2
  <2> HIDE DEF n
  <2>7. WorkerTypes' /\ PageTypes' /\ ListTypes'
    <3>1. n \in Nat
      BY <2>3, ScanNumbers
    <3>2. WorkerTypes'
      BY <1>1, <1>2, <1>4, <2>1, <2>3, <2>6, <3>1 DEF WorkerTypes, Begins, Sessions!Lifecycles, Sessions!Busy
    <3>3. PageTypes' /\ ListTypes'
      BY <1>1, <2>1 DEF PageTypes, ListTypes
    <3> QED
      BY <3>2, <3>3
  <2>8. StartsCounted'
    <3>1. Telling' = Telling
      BY <2>4, <2>6 DEF Telling, Begins, Untold
    <3>2. Completions(events)' = Completions(events')
      BY DEF Completions
    <3>3. starts' <= MaxStarts /\ begun' + Cardinality(Telling) + Cardinality(Completions(events')) <= 2 * starts'
      BY <1>1, <2>1, <2>2 DEF StartsCounted, n
    <3> QED
      BY <3>1, <3>2, <3>3 DEF StartsCounted
  <2>9. ScansInOrder'
    <3>1. n = begun + 1
      BY DEF n
    <3> QED
      BY <2>1, <2>3, <2>6, <3>1, BeginsInOrder
  <2>10. ListsFilled'
    <3>1. Listed' \subseteq Listed \cup {Sessions!None}
      BY <1>1 DEF Listed
    <3> QED
      BY <1>1, <2>3, <2>6, <3>1, BeginsFilled
  <2>11. OrchestratorThere'
    <3>1. TvBegun'
      BY <2>3, <2>4, <2>5, <2>6, BeginsBegun
    <3>2. ASSUME NEW u \in Sessions!Scans,
                 op'[u].pc = "takeback" \/ (op'[u].kind = "bulk" /\ op'[u].pc = "work")
          PROVE  op'[u].uses # Sessions!None
      <4>1. CASE u = n
        BY <2>5, <2>6, <4>1 DEF Begins
      <4>2. CASE u # n
        BY <2>6, <3>2, <4>2 DEF Begins, OrchestratorThere
      <4> QED
        BY <4>1, <4>2
    <3> QED
      BY <1>1, <2>5, <3>1, <3>2 DEF OrchestratorThere
  <2>12. ListsInTime'
    BY <1>1, <2>3, <2>4, <2>6, BeginsInTime
  <2>13. PagesComeUp'
    <3>1. mode' = "tv" /\ sessionLibrary'["tv"] # Sessions!None /\ "bulk" \notin Sessions!Kinds
      BY <1>1, <2>1, ScanNumbers
    <3> QED
      BY <2>1, <2>3, <2>6, <3>1, BeginsWaiting
  <2> QED
    BY <2>7, <2>8, <2>9, <2>10, <2>11, <2>12, <2>13
<1> QED
  BY <1>5, <1>6, <1>7

\* Leaving a session and coming back shows the list and the orchestrator that were
\* there.
LEMMA SwitchKeeps ==
    ASSUME SessionInv, NEW to \in Sessions!Kinds, Sessions!SwitchTab(to)
    PROVE  SessionInv'
<1> USE DEF SessionInv
<1> DEFINE kept == Sessions!Captured
<1>1. /\ UNCHANGED <<token, begun, contents, orchestrated, progress, page, warming, starts, adopted>>
      /\ to # tab /\ tab' = to /\ snapshot' = kept
      /\ IF kept[to].taken
           THEN /\ mode' = to /\ sessionLibrary' = [sessionLibrary EXCEPT ![to] = kept[to].list]
                /\ orchestrator' = IF to = "tv" THEN kept[to].orch ELSE orchestrator
                /\ events' = Append(events, "library_changed")
           ELSE UNCHANGED <<mode, sessionLibrary, orchestrator, events>>
      /\ op' = IF mode' = mode THEN op
               ELSE [u \in Sessions!Scans |-> [op[u] EXCEPT !.undisturbed = FALSE]]
  BY DEF Sessions!SwitchTab, Sessions!Restore
<1>2. mode \in Sessions!Kinds /\ tab \in Sessions!Kinds /\ events \in Seq(News)
  BY DEF PageTypes, WorkerTypes
<1>3. /\ kept \in [Sessions!Kinds -> Snapshots]
      /\ kept[mode].taken /\ kept[mode].list = sessionLibrary[mode] /\ kept[mode].orch = orchestrator
      /\ \A k \in Sessions!Kinds \ {mode} : kept[k] = snapshot[k]
  <2> DEFINE s == [taken |-> TRUE, list |-> sessionLibrary[mode], orch |-> orchestrator]
  <2>1. s \in Snapshots /\ s.taken /\ s.list = sessionLibrary[mode] /\ s.orch = orchestrator
    BY <1>2 DEF ListTypes, Snapshots
  <2>2. kept = [snapshot EXCEPT ![mode] = s]
    BY DEF Sessions!Captured
  <2> HIDE DEF s, kept
  <2>3. /\ kept \in [Sessions!Kinds -> Snapshots] /\ kept[mode] = s
        /\ \A k \in Sessions!Kinds \ {mode} : kept[k] = snapshot[k]
    BY <1>2, <2>1, <2>2 DEF ListTypes
  <2> QED
    BY <2>1, <2>3
<1> HIDE DEF kept
<1>4. /\ SameWork
      /\ mode' = mode => op' = op
      /\ mode' # mode => \A u \in Sessions!Scans : op'[u].undisturbed = FALSE
  <2>1. CASE mode' = mode
    BY <1>1, <2>1 DEF SameWork, WorkerTypes
  <2>2. CASE mode' # mode
    <3>1. op' = [u \in Sessions!Scans |-> [op[u] EXCEPT !.undisturbed = FALSE]]
      BY <1>1, <2>2
    <3>2. ASSUME NEW w \in Workers
          PROVE  LET v == [w EXCEPT !.undisturbed = FALSE]
                 IN  /\ v \in Workers /\ v.kind = w.kind /\ v.pc = w.pc /\ v.outcome = w.outcome
                     /\ v.late = w.late /\ v.uses = w.uses /\ v.undisturbed = FALSE
      BY DEF Workers
    <3>3. ASSUME NEW u \in Sessions!Scans
          PROVE  /\ op'[u] \in Workers /\ op'[u].kind = op[u].kind /\ op'[u].pc = op[u].pc
                 /\ op'[u].outcome = op[u].outcome /\ op'[u].late = op[u].late
                 /\ op'[u].uses = op[u].uses /\ op'[u].undisturbed = FALSE
      <4>1. PICK w \in Workers : w = op[u]
        BY DEF WorkerTypes
      <4>2. op'[u] = [w EXCEPT !.undisturbed = FALSE]
        BY <3>1, <4>1
      <4> QED
        BY <3>2, <4>1, <4>2
    <3> QED
      BY <2>2, <3>1, <3>3 DEF SameWork
  <2> QED
    BY <2>1, <2>2
\* A list of the session that comes back was there, or was remembered.
<1>5. /\ sessionLibrary' \in [Sessions!Kinds -> Sessions!Scans \cup {Sessions!None}]
      /\ orchestrator' \in Sessions!Scans \cup {Sessions!None} /\ mode' \in Sessions!Kinds
      /\ \A k \in Sessions!Kinds : sessionLibrary'[k] \in {sessionLibrary[k], snapshot[k].list}
      /\ \A k \in Sessions!Kinds : snapshot'[k].list \in {sessionLibrary[k], snapshot[k].list}
  <2>1. \A k \in Sessions!Kinds : kept[k].list \in {sessionLibrary[k], snapshot[k].list}
    BY <1>3
  <2>2. kept[to].list \in Sessions!Scans \cup {Sessions!None} /\ kept[to].orch \in Sessions!Scans \cup {Sessions!None}
    BY <1>3 DEF Snapshots
  <2>3. CASE kept[to].taken
    BY <1>1, <1>2, <2>1, <2>2, <2>3 DEF ListTypes
  <2>4. CASE ~kept[to].taken
    BY <1>1, <1>2, <2>1, <2>2, <2>4 DEF ListTypes
  <2> QED
    BY <2>3, <2>4
<1>6. /\ events' \in Seq(News) /\ Completions(events') = Completions(events)
      /\ events # <<>> => events' # <<>>
      /\ \A i \in 1 .. Len(events) : i \in 1 .. Len(events') /\ events'[i] = events[i]
  <2> DEFINE new == Append(events, "library_changed")
  <2>1. /\ new \in Seq(News) /\ Completions(new) = Completions(events) /\ new # <<>>
        /\ \A i \in 1 .. Len(events) : i \in 1 .. Len(new) /\ new[i] = events[i]
    BY <1>2, NewsAdded DEF News
  <2> HIDE DEF new
  <2>2. events' = new \/ events' = events
    BY <1>1 DEF new
  <2> QED
    BY <1>2, <2>1, <2>2
<1>7. WorkerTypes' /\ PageTypes' /\ ListTypes'
  <2>1. WorkerTypes'
    BY <1>1, <1>4, <1>6 DEF WorkerTypes, SameWork
  <2>2. PageTypes' /\ ListTypes'
    BY <1>1, <1>3, <1>5 DEF PageTypes, ListTypes
  <2> QED
    BY <2>1, <2>2
<1>8. StartsCounted'
  <2>1. Telling' = Telling
    BY <1>4 DEF Telling, SameWork
  <2>2. Completions(events)' = Completions(events)
    BY <1>6 DEF Completions
  <2> QED
    BY <1>1, <2>1, <2>2 DEF StartsCounted
<1>9. ScansInOrder'
  BY <1>1, <1>4, OrderStays
<1>10. ListsFilled'
  <2>1. Listed' \subseteq Listed
    BY <1>1, <1>5 DEF Listed
  <2> QED
    BY <1>1, <1>4, <2>1, FilledStays
<1>11. OrchestratorThere'
  <2>1. TvBegun' <=> TvBegun
    BY <1>4, BegunStays
  <2>2. snapshot'["tv"].taken /\ kept["tv"].taken
    BY <1>1, <1>3, ScanNumbers DEF OrchestratorThere
  <2>3. tab' = "tv" => mode' = "tv"
    BY <1>1, <2>2
  <2>4. TvBegun => orchestrator' # Sessions!None /\ (tab' = "movie" => snapshot'["tv"].orch # Sessions!None)
    <3>1. SUFFICES ASSUME TvBegun
                   PROVE  orchestrator' # Sessions!None /\ (tab' = "movie" => snapshot'["tv"].orch # Sessions!None)
      OBVIOUS
    <3>2. orchestrator # Sessions!None /\ (tab = "movie" => snapshot["tv"].orch # Sessions!None)
      BY <3>1 DEF OrchestratorThere
    <3>3. tab = "tv" => mode = "tv"
      BY DEF OrchestratorThere
    <3>4. CASE to = "tv"
      <4>1. tab = "movie"
        BY <1>1, <1>2, <3>4, ScanNumbers
      <4>2. kept["tv"].orch # Sessions!None
        BY <1>3, <3>2, <4>1, ScanNumbers
      <4>3. orchestrator' = kept["tv"].orch
        BY <1>1, <2>2, <3>4
      <4> QED
        BY <1>1, <3>4, <4>2, <4>3
    <3>5. CASE to = "movie"
      <4>1. tab = "tv"
        BY <1>1, <1>2, <3>5, ScanNumbers
      <4>2. kept["tv"].orch = orchestrator
        BY <1>3, <3>3, <4>1
      <4>3. orchestrator' = orchestrator
        BY <1>1, <3>5
      <4> QED
        BY <1>1, <3>2, <4>2, <4>3
    <3> QED
      BY <3>4, <3>5, ScanNumbers
  <2>5. sessionLibrary'["tv"] # Sessions!None \/ snapshot'["tv"].list # Sessions!None
           => sessionLibrary["tv"] # Sessions!None \/ snapshot["tv"].list # Sessions!None
    BY <1>5, ScanNumbers
  <2>6. op'[Sessions!ShowScan].pc = op[Sessions!ShowScan].pc
    BY <1>4, ScanNumbers DEF SameWork
  <2>7. ASSUME NEW u \in Sessions!Scans,
               op'[u].pc = "takeback" \/ (op'[u].kind = "bulk" /\ op'[u].pc = "work")
        PROVE  op'[u].uses # Sessions!None
    BY <1>4, <2>7 DEF SameWork, OrchestratorThere
  <2>8. sessionLibrary'["tv"] # Sessions!None \/ snapshot'["tv"].list # Sessions!None
          \/ (\E t \in Sessions!Scans : orchestrated'[t] # Sessions!None) \/ op'[Sessions!ShowScan].pc # "idle" => TvBegun'
    BY <1>1, <2>1, <2>5, <2>6 DEF OrchestratorThere
  <2> QED
    BY <2>1, <2>2, <2>3, <2>4, <2>7, <2>8 DEF OrchestratorThere
<1>12. ListsInTime'
  <2> DEFINE lists == {sessionLibrary[k] : k \in Sessions!Kinds} \cup {snapshot[k].list : k \in Sessions!Kinds}
  <2>1. \A l \in Sessions!Scans : op[l].pc \in Final /\ l # Sessions!ShowScan
            => op'[l].pc \in Final /\ (op'[l].late => op[l].late)
    BY <1>4 DEF SameWork
  <2>2. lists \in SUBSET (Sessions!Scans \cup {Sessions!None})
    BY DEF ListTypes, Snapshots
  <2>3. \A k \in Sessions!Kinds :
          /\ sessionLibrary'[k] \in lists \cup adopted' \cup {Sessions!None}
          /\ snapshot'[k].list \in lists \cup adopted' \cup {Sessions!None}
    BY <1>5
  <2> QED
    BY <1>1, <2>1, <2>2, <2>3, TimeStays
<1>13. PagesComeUp'
  <2>1. ASSUME mode' # mode PROVE ~Waits(begun)'
    <3>1. begun = 0 \/ begun \in Sessions!Scans
      BY BegunIsScan DEF WorkerTypes
    <3> QED
      BY <1>1, <1>4, <2>1, <3>1 DEF Waits
  <2>2. ASSUME mode' = mode PROVE PagesComeUp'
    <3>1. op' = op /\ SameWork
      BY <1>4, <2>2
    <3>2. sessionLibrary' = sessionLibrary
      <4>1. CASE kept[to].taken
        <5>1. sessionLibrary' = [sessionLibrary EXCEPT ![mode] = sessionLibrary[mode]]
          BY <1>1, <1>3, <2>2, <4>1
        <5> QED
          BY <5>1 DEF ListTypes
      <4>2. CASE ~kept[to].taken
        BY <1>1, <4>2
      <4> QED
        BY <4>1, <4>2
    <3>3. ASSUME Waits(begun) PROVE Announced(begun)'
      <4>1. Announced(begun)
        BY <3>3 DEF PagesComeUp
      <4> QED
        BY <1>1, <1>6, <3>1, <4>1 DEF Announced
    <3> QED
      BY <1>1, <2>2, <3>1, <3>2, <3>3, PagesStay
  <2> QED
    BY <2>1, <2>2 DEF PagesComeUp
<1> QED
  BY <1>7, <1>8, <1>9, <1>10, <1>11, <1>12, <1>13

(* The first state, every step, and what the invariant tells. *)

LEMMA SessionStarts == Sessions!SessionInit => SessionInv
<1> SUFFICES ASSUME Sessions!SessionInit PROVE SessionInv
  OBVIOUS
<1>1. /\ token = Sessions!None /\ begun = 0 /\ op = [u \in Sessions!Scans |-> Sessions!IdleScan]
      /\ contents = [u \in Sessions!Scans |-> "none"] /\ mode = "tv"
      /\ sessionLibrary = [k \in Sessions!Kinds |-> Sessions!None]
      /\ orchestrator = Sessions!None /\ orchestrated = [u \in Sessions!Scans |-> Sessions!None]
      /\ progress = "idle"
      /\ snapshot = [k \in Sessions!Kinds |-> [Sessions!NoSnapshot EXCEPT !.taken = (k = "tv")]]
      /\ page = [k \in Sessions!Kinds |-> "empty"] /\ warming = [k \in Sessions!Kinds |-> FALSE]
      /\ tab \in Sessions!Kinds /\ events = <<>> /\ starts = 0
  BY DEF Sessions!SessionInit
<1>2. /\ Sessions!IdleScan \in Workers /\ Sessions!IdleScan.pc = "idle" /\ Sessions!IdleScan.kind = "tv"
      /\ Sessions!IdleScan.outcome = "ok" /\ Sessions!IdleScan.late = FALSE
  BY DEF Sessions!IdleScan, Workers, Stages
<1>3. \A u \in Sessions!Scans : op[u] = Sessions!IdleScan
  BY <1>1
<1>4. \A k \in Sessions!Kinds : /\ snapshot[k] \in Snapshots /\ snapshot[k].list = Sessions!None
                                /\ (snapshot[k].taken <=> k = "tv")
  BY <1>1 DEF Snapshots, Sessions!NoSnapshot
<1>5. WorkerTypes /\ PageTypes /\ ListTypes
  <2>1. snapshot \in [Sessions!Kinds -> Snapshots]
    BY <1>1, <1>4
  <2>2. op \in [Sessions!Scans -> Workers] /\ events \in Seq(News)
    BY <1>1, <1>2
  <2> QED
    BY <1>1, <2>1, <2>2, ScanNumbers DEF WorkerTypes, PageTypes, ListTypes, Sessions!Lifecycles, Sessions!Busy
<1>6. StartsCounted
  <2>1. Telling = {}
    BY <1>2, <1>3 DEF Telling, Untold
  <2>2. Completions(events) = {}
    BY <1>1 DEF Completions
  <2>3. Cardinality(Telling) = 0 /\ Cardinality(Completions(events)) = 0
    BY <2>1, <2>2, FS_EmptySet
  <2> QED
    BY <1>1, <2>3, ScanningAssumption DEF StartsCounted
<1>7. ScansInOrder
  <2>1. Sessions!NewestScanCancellable
    BY <1>2, <1>3 DEF Sessions!NewestScanCancellable
  <2> QED
    BY <1>1, <1>2, <1>3, <2>1, ScanNumbers DEF ScansInOrder
<1>8. ListsFilled
  <2>1. \A l \in Listed : l = Sessions!None
    BY <1>1, <1>4 DEF Listed
  <2> QED
    BY <1>2, <1>3, <2>1 DEF ListsFilled
<1>9. OrchestratorThere
  BY <1>1, <1>2, <1>3, <1>4, ScanNumbers DEF OrchestratorThere, TvBegun
<1>10. ListsInTime
  BY <1>1, <1>4 DEF ListsInTime, Published
<1>11. PagesComeUp
  BY <1>1 DEF PagesComeUp, Waits
<1> QED
  BY <1>5, <1>6, <1>7, <1>8, <1>9, <1>10, <1>11 DEF SessionInv

LEMMA SessionStep == ASSUME SessionInv, Sessions!SessionNext PROVE SessionInv'
<1>1. CASE \E k \in Sessions!Kinds : Sessions!StartScan(k) \/ Sessions!RefuseScan(k) \/ Sessions!WarmupEnds(k)
  BY <1>1, StartKeeps, RefuseKeeps, WarmupKeeps
<1>2. CASE Sessions!CancelScan \/ Sessions!ScanShow \/ Sessions!HandleEvent
  BY <1>2, CancelKeeps, ShowKeeps, HandleKeeps
<1>3. CASE \E t \in Sessions!Scans : Sessions!Report(t) \/ Sessions!Proceed(t)
  BY <1>3, ReportKeeps, WorkKeeps, CheckKeeps, PublishKeeps, AnnounceKeeps, FinishKeeps,
     HandOverKeeps, TakeBackKeeps DEF Sessions!Proceed
<1>4. CASE \E to \in Sessions!Kinds : Sessions!SwitchTab(to)
  BY <1>4, SwitchKeeps
<1> QED
  BY <1>1, <1>2, <1>3, <1>4 DEF Sessions!SessionNext

LEMMA SessionStays == ASSUME SessionInv, UNCHANGED sessionVars PROVE SessionInv'
<1> USE DEF SessionInv
<1>1. UNCHANGED <<token, begun, op, contents, mode, sessionLibrary, orchestrator, orchestrated,
                  progress, snapshot, page, warming, tab, events, starts, switches, adopted>>
  BY DEF sessionVars
<1>2. WorkerTypes' /\ PageTypes' /\ ListTypes'
  BY <1>1 DEF WorkerTypes, PageTypes, ListTypes
<1>3. StartsCounted'
  BY <1>1 DEF StartsCounted, Telling, Completions
<1>4. SameWork
  BY <1>1 DEF SameWork, WorkerTypes
<1>5. ScansInOrder'
  BY <1>1, <1>4, OrderStays
<1>6. ListsFilled'
  <2>1. Listed' \subseteq Listed
    BY <1>1 DEF Listed
  <2> QED
    BY <1>1, <1>4, <2>1, FilledStays
<1>7. OrchestratorThere'
  BY <1>1, <1>4, OrchestratorStays
<1>8. ListsInTime'
  BY <1>1 DEF ListsInTime, Published
<1>9. PagesComeUp'
  <2>1. ASSUME Waits(begun) PROVE Announced(begun)'
    BY <1>1, <2>1 DEF PagesComeUp, Announced
  <2> QED
    BY <1>1, <1>4, <2>1, PagesStay
<1> QED
  BY <1>2, <1>3, <1>5, <1>6, <1>7, <1>8, <1>9

LEMMA SessionsTold ==
    ASSUME SessionInv
    PROVE  /\ Sessions!SessionTypeOK /\ Sessions!NewestScanCancellable
           /\ Sessions!LateResultsNeverShown /\ Sessions!SettledScanLeavesPage
<1> USE DEF SessionInv
<1>1. Sessions!SessionTypeOK
  <2>1. begun \in 0 .. 2 * MaxStarts
    BY BegunIsScan
  <2>2. ASSUME NEW t \in Sessions!Scans
        PROVE  /\ op[t].kind \in Sessions!Kinds \cup {"bulk", "show"}
               /\ op[t].pc \in {"idle", "work", "check", "publish", "announce", "finish",
                                "handover", "takeback", "done"}
               /\ op[t].outcome \in {"ok", "empty", "failed", "cancelled"}
               /\ op[t].uses \in Sessions!Scans \cup {Sessions!None}
    <3>1. op[t] \in Workers
      BY DEF WorkerTypes
    <3> QED
      BY <3>1, ScanNumbers DEF Workers, Stages
  <2>3. \A k \in Sessions!Kinds : sessionLibrary[k] # Sessions!None => contents[sessionLibrary[k]] # "none"
    BY DEF ListsFilled, Listed
  <2> QED
    BY <2>1, <2>2, <2>3 DEF Sessions!SessionTypeOK, WorkerTypes, PageTypes, ListTypes
<1>2. Sessions!NewestScanCancellable
  BY DEF ScansInOrder
<1>3. Sessions!LateResultsNeverShown
  BY DEF Sessions!LateResultsNeverShown, ListsInTime, Published
<1>4. Sessions!SettledScanLeavesPage
  <2> SUFFICES ASSUME NEW t \in Sessions!Scans, Sessions!AtRest, t = begun, op[t].undisturbed,
                      op[t].outcome # "failed", page[Sessions!KindOf(t)] = "scanning",
                      ~warming[Sessions!KindOf(t)]
               PROVE  FALSE
    BY DEF Sessions!SettledScanLeavesPage
  <2>1. t > 0
    BY ScanNumbers
  <2>2. op[t].pc # "idle" /\ Announced(t)
    BY <2>1 DEF PagesComeUp, Waits
  <2>3. op[t].pc = "done"
    BY <2>2 DEF Sessions!AtRest, Sessions!Running
  <2>4. events # <<>>
    BY <2>2, <2>3 DEF Announced
  <2> QED
    BY <2>4 DEF Sessions!AtRest
<1> QED
  BY <1>1, <1>2, <1>3, <1>4

(* One component is at work in every behaviour. *)

LEMMA SessionsInSuite == SuiteSpec => [](part = "sessions" => SessionInv)
<1>1. SuiteInit => (part = "sessions" => SessionInv)
  BY SessionStarts DEF SuiteInit
<1>2. (part = "sessions" => SessionInv) /\ [SuiteNext]_suiteVars
        => (part = "sessions" => SessionInv)'
  <2> SUFFICES ASSUME part = "sessions" => SessionInv, [SuiteNext]_suiteVars,
                      part' = "sessions"
               PROVE  SessionInv'
    OBVIOUS
  <2>1. CASE part = "sessions" /\ Sessions!SessionNext
    BY <2>1, SessionStep
  <2>2. CASE UNCHANGED suiteVars
    BY <2>2, SessionStays DEF suiteVars
  <2> QED
    BY <2>1, <2>2 DEF SuiteNext
<1> QED
  BY <1>1, <1>2, PTL DEF SuiteSpec

\* Whatever order scans, switches of the tab and notifications come in: the newest
\* scan can be cancelled, a superseded scan's result is never what the page shows,
\* and a page whose scan has settled is not left scanning, for any number of starts
\* and switches (_scan_operation_helpers.py, _main_window_scan.py).
THEOREM ScansAlwaysSettle == SuiteSpec => []ScansSettle
<1>1. (part = "sessions" => SessionInv) => ScansSettle
  BY SessionsTold DEF ScansSettle
<1> QED
  BY <1>1, SessionsInSuite, PTL

(***************************************************************************)
(* A folder of movies, for any finite folder and any threshold the         *)
(* settings admit.                                                         *)
(***************************************************************************)
Scanning == {"roots", "names", "batches", "match"}

IsItem(i) == i = [status |-> i.status, movie |-> i.movie, confidence |-> i.confidence, subs |-> i.subs]
IsCard(c) == c = [movie |-> c.movie, confidence |-> c.confidence, status |-> c.status, subs |-> c.subs,
                  named |-> c.named, manual |-> c.manual, checked |-> c.checked, queued |-> c.queued,
                  dup |-> c.dup]

MoviesTyped ==
    /\ files \in MovieLibraries
    /\ left \subseteq DOMAIN files
    /\ items = [f \in DOMAIN files |-> items[f]]
    /\ cards = [f \in DOMAIN cards |-> cards[f]] /\ DOMAIN cards \subseteq DOMAIN files
    /\ phase \in Scanning \cup {"complete", "ready", "cancelled", "failed"}
    /\ \A f \in DOMAIN files : IsItem(items[f])
    /\ \A f \in DOMAIN cards : IsCard(cards[f]) /\ cards[f].manual \in BOOLEAN
    /\ phase # "ready" => DOMAIN cards = {} /\ jobs = {}

\* Why a file may be left out.
LeftOut(f) ==
    \/ files[f].underShow \/ files[f].sample \/ files[f].episodeName
    \/ Cardinality({g \in DOMAIN files : files[g].series = files[f].series}) >= 3

\* What the scan has left out has a reason, and what it has kept becomes a card.
Kept == {f \in DOMAIN files : items[f].status # "skip"}
ScanTells ==
    /\ phase \in Scanning =>
          \A f \in DOMAIN files \ left : items[f].status = "skip" /\ LeftOut(f)
    /\ phase = "complete" =>
          /\ \A f \in DOMAIN files : items[f].status # "none"
          /\ \A f \in DOMAIN files \ Kept : LeftOut(f)
          /\ Cardinality(Kept) # 1 => \A f \in Kept : items[f] = Movies!Matched(f)
    /\ phase = "ready" =>
          /\ \A f \in DOMAIN files : items[f].status # "none"
          /\ \A f \in DOMAIN files \ DOMAIN cards : LeftOut(f)

\* Until the user chooses, a card of several has the movie the search found best and
\* the confidence the evidence leaves; and no job is made of a match in doubt.
Found(f) ==
    \/ cards[f].movie = NoMovie /\ cards[f].confidence = 0
    \/ /\ cards[f].movie = files[f].best
       /\ cards[f].confidence = Movies!Adjusted(files[f].score, files[f].evidence)
CardsTell ==
    /\ Cardinality(DOMAIN cards) # 1 =>
          \A f \in DOMAIN cards : ~cards[f].manual => Found(f)
    /\ \A j \in jobs : /\ j.file \in DOMAIN cards
                       /\ cards[j.file].manual \/ ~(cards[j.file].confidence < Threshold)

MoviesInv == MoviesTyped /\ ScanTells /\ CardsTell

LEMMA MoviesCount == \A S : Movies!Cardinality(S) = Cardinality(S)
BY Zenon DEF Cardinality, Movies!Cardinality

LEMMA MoviesStart == Movies!MovieInit => MoviesInv
<1> SUFFICES ASSUME Movies!MovieInit PROVE MoviesInv
  OBVIOUS
<1>1. MoviesTyped
  BY DEF Movies!MovieInit, MoviesTyped, Movies!NoOne, IsItem, IsCard, Scanning
<1>2. ScanTells
  BY DEF Movies!MovieInit, ScanTells
<1>3. CardsTell
  BY DEF Movies!MovieInit, CardsTell
<1> QED
  BY <1>1, <1>2, <1>3 DEF MoviesInv

\* A series that the scan takes for episodes has three files.
LEMMA SeriesLeftOut ==
    ASSUME MoviesInv, NEW f \in Movies!Sequential(left)
    PROVE  f \in left /\ LeftOut(f)
<1> DEFINE batch(e) == {x \in Movies!Numbered(left) : files[x].series = files[e].series}
<1>1. PICK e \in Movies!Numbered(left) : f \in batch(e) /\ Cardinality(batch(e)) >= 3
  <2>1. PICK b \in {batch(e) : e \in Movies!Numbered(left)} : f \in b /\ Movies!Cardinality(b) >= 3
    BY DEF Movies!Sequential
  <2> QED
    BY <2>1, MoviesCount
<1> DEFINE g    == batch(e)
           same == {x \in DOMAIN files : files[x].series = files[f].series}
<1>2. g \subseteq same /\ f \in left /\ IsFiniteSet(DOMAIN files)
  BY <1>1, MoviesAssumption DEF Movies!Numbered, MoviesInv, MoviesTyped
<1>3. IsFiniteSet(same)
  BY <1>2, FS_Subset
<1>4. Cardinality(g) <= Cardinality(same) /\ Cardinality(g) \in Nat /\ Cardinality(same) \in Nat
  BY <1>2, <1>3, FS_Subset, FS_CardinalityType
<1>5. Cardinality(same) >= 3
  BY <1>1, <1>4
<1> QED
  BY <1>2, <1>5 DEF LeftOut

\* Leaving out files for which there is a reason.
LEMMA SkipTells ==
    ASSUME MoviesInv, phase \in Scanning, NEW skipped \in SUBSET left,
           NEW next \in {"names", "batches", "match"}, Movies!Skip(skipped, next),
           \A f \in skipped : LeftOut(f)
    PROVE  MoviesInv'
<1>1. /\ files' = files /\ cards' = cards /\ jobs' = jobs /\ phase' = next
      /\ left' = left \ skipped
      /\ items' = [f \in DOMAIN files |-> IF f \in skipped THEN [Movies!NoOne EXCEPT !.status = "skip"] ELSE items[f]]
  <2>1. DOMAIN items = DOMAIN files
    BY DEF MoviesInv, MoviesTyped
  <2> QED
    BY <2>1 DEF Movies!Skip, Movies!SkippedIn
<1>2. \A f \in skipped : IsItem(items'[f]) /\ items'[f].status = "skip"
  BY <1>1 DEF IsItem, Movies!NoOne, MoviesInv, MoviesTyped
<1>3. MoviesTyped'
  <2>1. \A f \in DOMAIN files' : IsItem(items[f])' 
    BY <1>1, <1>2 DEF MoviesInv, MoviesTyped, IsItem
  <2> QED
    BY <1>1, <2>1 DEF MoviesInv, MoviesTyped, Scanning, IsCard
<1>4. ScanTells'
  BY <1>1, <1>2 DEF MoviesInv, ScanTells, LeftOut, Scanning
<1>5. CardsTell'
  BY <1>1 DEF MoviesInv, MoviesTyped, CardsTell, Scanning
<1> QED
  BY <1>3, <1>4, <1>5 DEF MoviesInv

LEMMA ScanSteps ==
    ASSUME MoviesInv, Movies!SkipShows \/ Movies!SkipNames \/ Movies!SkipBatches
    PROVE  MoviesInv'
<1>1. CASE Movies!SkipShows
  BY <1>1, SkipTells DEF Movies!SkipShows, Scanning, LeftOut
<1>2. CASE Movies!SkipNames
  BY <1>2, SkipTells DEF Movies!SkipNames, Scanning, LeftOut
<1>3. CASE Movies!SkipBatches
  <2> DEFINE skipped == IF Movies!Cardinality(left) >= 3 THEN Movies!Sequential(left) ELSE {}
  <2>1. skipped \subseteq left /\ \A f \in skipped : LeftOut(f)
    BY SeriesLeftOut
  <2>2. phase \in Scanning /\ Movies!Skip(skipped, "match")
    BY <1>3 DEF Movies!SkipBatches, Scanning
  <2> HIDE DEF skipped
  <2> QED
    BY <2>1, <2>2, SkipTells
<1> QED
  BY <1>1, <1>2, <1>3

\* What a search leaves of a file is a row to be shown.
LEMMA MatchedItems ==
    ASSUME NEW f
    PROVE  /\ IsItem(Movies!Matched(f)) /\ Movies!Matched(f).status \in {"OK", "review"}
           /\ IsItem(Movies!MatchedAlone(f)) /\ Movies!MatchedAlone(f).status \in {"OK", "review"}
<1>1. IsItem(Movies!NoResult) /\ Movies!NoResult.status = "review"
  BY DEF IsItem, Movies!NoResult, Movies!NoOne
<1>2. \A x, m, c, s : IsItem(Movies!Item(x, m, c, s)) /\ Movies!Item(x, m, c, s).status = s
  BY DEF IsItem, Movies!Item
<1>3. IsItem(Movies!Matched(f)) /\ Movies!Matched(f).status \in {"OK", "review"}
  BY <1>1, <1>2 DEF Movies!Matched
<1>4. IsItem(Movies!MatchedAlone(f)) /\ Movies!MatchedAlone(f).status \in {"OK", "review"}
  BY <1>1, <1>2 DEF Movies!MatchedAlone
<1> QED
  BY <1>3, <1>4

LEMMA MatchTells ==
    ASSUME MoviesInv, Movies!Match
    PROVE  MoviesInv'
<1>1. /\ phase = "match" /\ phase' = "complete" /\ left' = {}
      /\ files' = files /\ cards' = cards /\ jobs' = jobs
      /\ items' = [f \in DOMAIN files |->
                     IF f \notin left THEN items[f]
                     ELSE IF Cardinality(left) = 1 THEN Movies!MatchedAlone(f) ELSE Movies!Matched(f)]
  BY MoviesCount DEF Movies!Match, MoviesInv, MoviesTyped
<1>2. \A f \in DOMAIN files \ left : items'[f].status = "skip" /\ LeftOut(f) /\ IsItem(items'[f])
  BY <1>1 DEF MoviesInv, MoviesTyped, ScanTells, Scanning
<1>3. \A f \in left : IsItem(items'[f]) /\ items'[f].status \in {"OK", "review"}
  BY <1>1, MatchedItems DEF MoviesInv, MoviesTyped
<1>4. Kept' = left
  BY <1>1, <1>2, <1>3 DEF Kept, MoviesInv, MoviesTyped
<1>5. Cardinality(left) # 1 => \A f \in left : items'[f] = Movies!Matched(f)'
  <2>1. \A f \in left : Movies!Matched(f)' = Movies!Matched(f)
    BY <1>1 DEF Movies!Matched, Movies!Item
  <2> QED
    BY <1>1, <2>1 DEF MoviesInv, MoviesTyped
<1>6. MoviesTyped'
  <2>1. \A f \in DOMAIN files' : IsItem(items[f])'
    BY <1>1, <1>2, <1>3 DEF IsItem
  <2> QED
    BY <1>1, <2>1 DEF MoviesInv, MoviesTyped, Scanning, IsCard
<1>7. ScanTells'
  BY <1>1, <1>2, <1>3, <1>4, <1>5 DEF ScanTells, LeftOut, Scanning
<1>8. CardsTell'
  BY <1>1 DEF MoviesInv, MoviesTyped, CardsTell
<1> QED
  BY <1>6, <1>7, <1>8 DEF MoviesInv

\* Labels and the look at the queue leave what a card is about alone.
Alike(c, d) == d.movie = c.movie /\ d.confidence = c.confidence /\ d.manual = c.manual

LEMMA CardWith ==
    ASSUME NEW c, IsCard(c), NEW x
    PROVE  /\ IsCard([c EXCEPT !.dup = x]) /\ Alike(c, [c EXCEPT !.dup = x])
           /\ IsCard([c EXCEPT !.checked = x]) /\ Alike(c, [c EXCEPT !.checked = x])
           /\ IsCard([c EXCEPT !.queued = x]) /\ Alike(c, [c EXCEPT !.queued = x])
           /\ IsCard([c EXCEPT !.named = x]) /\ Alike(c, [c EXCEPT !.named = x])
           /\ IsCard([c EXCEPT !.status = x]) /\ Alike(c, [c EXCEPT !.status = x])
           /\ IsCard([c EXCEPT !.confidence = x])
           /\ IsCard([c EXCEPT !.manual = x]) /\ [c EXCEPT !.manual = x].manual = x
<1> DEFINE r == [movie |-> c.movie, confidence |-> c.confidence, status |-> c.status, subs |-> c.subs,
                 named |-> c.named, manual |-> c.manual, checked |-> c.checked, queued |-> c.queued, dup |-> c.dup]
<1>1. c = r
  BY DEF IsCard
<1>2. /\ [r EXCEPT !.dup = x] = [movie |-> c.movie, confidence |-> c.confidence, status |-> c.status, subs |-> c.subs,
                 named |-> c.named, manual |-> c.manual, checked |-> c.checked, queued |-> c.queued, dup |-> x]
      /\ [r EXCEPT !.checked = x] = [movie |-> c.movie, confidence |-> c.confidence, status |-> c.status, subs |-> c.subs,
                 named |-> c.named, manual |-> c.manual, checked |-> x, queued |-> c.queued, dup |-> c.dup]
      /\ [r EXCEPT !.named = x] = [movie |-> c.movie, confidence |-> c.confidence, status |-> c.status, subs |-> c.subs,
                 named |-> x, manual |-> c.manual, checked |-> c.checked, queued |-> c.queued, dup |-> c.dup]
      /\ [r EXCEPT !.queued = x] = [movie |-> c.movie, confidence |-> c.confidence, status |-> c.status, subs |-> c.subs,
                 named |-> c.named, manual |-> c.manual, checked |-> c.checked, queued |-> x, dup |-> c.dup]
      /\ [r EXCEPT !.status = x] = [movie |-> c.movie, confidence |-> c.confidence, status |-> x, subs |-> c.subs,
                 named |-> c.named, manual |-> c.manual, checked |-> c.checked, queued |-> c.queued, dup |-> c.dup]
      /\ [r EXCEPT !.confidence = x] = [movie |-> c.movie, confidence |-> x, status |-> c.status, subs |-> c.subs,
                 named |-> c.named, manual |-> c.manual, checked |-> c.checked, queued |-> c.queued, dup |-> c.dup]
      /\ [r EXCEPT !.manual = x] = [movie |-> c.movie, confidence |-> c.confidence, status |-> c.status, subs |-> c.subs,
                 named |-> c.named, manual |-> x, checked |-> c.checked, queued |-> c.queued, dup |-> c.dup]
  OBVIOUS
<1> HIDE DEF r
<1> QED
  BY <1>1, <1>2 DEF IsCard, Alike

LEMMA LabelsKeep ==
    ASSUME NEW cs, \A f \in DOMAIN cs : IsCard(cs[f])
    PROVE  /\ Movies!Labelled(cs) = [f \in DOMAIN cs |-> Movies!Labelled(cs)[f]]
           /\ \A f \in DOMAIN cs : IsCard(Movies!Labelled(cs)[f]) /\ Alike(cs[f], Movies!Labelled(cs)[f])
<1>1. ASSUME NEW c, IsCard(c), NEW x
      PROVE  IsCard([c EXCEPT !.dup = x, !.checked = FALSE]) /\ Alike(c, [c EXCEPT !.dup = x, !.checked = FALSE])
  <2> DEFINE d == [c EXCEPT !.dup = x]
  <2>1. [c EXCEPT !.dup = x, !.checked = FALSE] = [d EXCEPT !.checked = FALSE]
    OBVIOUS
  <2>2. IsCard(d) /\ Alike(c, d)
    BY <1>1, CardWith
  <2> HIDE DEF d
  <2>3. IsCard([d EXCEPT !.checked = FALSE]) /\ Alike(d, [d EXCEPT !.checked = FALSE])
    BY <2>2, CardWith
  <2> QED
    BY <2>1, <2>2, <2>3 DEF Alike
<1>2. ASSUME NEW f \in DOMAIN cs
      PROVE  IsCard(Movies!Labelled(cs)[f]) /\ Alike(cs[f], Movies!Labelled(cs)[f])
  <2> DEFINE c == cs[f]
             d == Movies!Labelled(cs)[f]
  <2>1. PICK x : d = [c EXCEPT !.dup = x] \/ d = [c EXCEPT !.dup = x, !.checked = FALSE]
    BY DEF Movies!Labelled
  <2>2. IsCard(c)
    OBVIOUS
  <2> HIDE DEF c, d
  <2>3. IsCard(d) /\ Alike(c, d)
    <3>1. CASE d = [c EXCEPT !.dup = x]
      <4>1. IsCard([c EXCEPT !.dup = x]) /\ Alike(c, [c EXCEPT !.dup = x])
        BY <2>2, CardWith
      <4> QED
        BY <3>1, <4>1, Zenon
    <3>2. CASE d = [c EXCEPT !.dup = x, !.checked = FALSE]
      <4>1. IsCard([c EXCEPT !.dup = x, !.checked = FALSE]) /\ Alike(c, [c EXCEPT !.dup = x, !.checked = FALSE])
        BY <1>1, <2>2
      <4> QED
        BY <3>2, <4>1, Zenon
    <3> QED
      BY <2>1, <3>1, <3>2
  <2> QED
    BY <2>3 DEF c, d
<1>3. Movies!Labelled(cs) = [f \in DOMAIN cs |-> Movies!Labelled(cs)[f]]
  BY DEF Movies!Labelled
<1> QED
  BY <1>2, <1>3

LEMMA SyncKeeps ==
    ASSUME NEW cs, NEW js, \A f \in DOMAIN cs : IsCard(cs[f])
    PROVE  /\ Movies!Synced(cs, js) = [f \in DOMAIN cs |-> Movies!Synced(cs, js)[f]]
           /\ \A f \in DOMAIN cs : IsCard(Movies!Synced(cs, js)[f]) /\ Alike(cs[f], Movies!Synced(cs, js)[f])
<1>2. ASSUME NEW f \in DOMAIN cs
      PROVE  IsCard(Movies!Synced(cs, js)[f]) /\ Alike(cs[f], Movies!Synced(cs, js)[f])
  BY <1>2, CardWith DEF Movies!Synced
<1>3. Movies!Synced(cs, js) = [f \in DOMAIN cs |-> Movies!Synced(cs, js)[f]]
  BY DEF Movies!Synced
<1> QED
  BY <1>2, <1>3

LEMMA CompleteTells ==
    ASSUME MoviesInv, Movies!Complete
    PROVE  MoviesInv'
<1> DEFINE cs  == [f \in Kept |-> Movies!Card(f, items[f])]
           lab == Movies!Labelled(cs)
<1>1. /\ phase = "complete" /\ phase' = "ready"
      /\ files' = files /\ left' = left /\ items' = items /\ jobs' = jobs /\ jobs = {}
      /\ cards' = Movies!Synced(lab, jobs)
  BY DEF Movies!Complete, Kept, MoviesInv, MoviesTyped
<1>2. \A f \in Kept : /\ IsCard(cs[f]) /\ cs[f].manual = FALSE /\ cs[f].movie = items[f].movie
                      /\ cs[f].confidence = IF items[f].movie = NoMovie THEN 0 ELSE items[f].confidence
  BY DEF Movies!Card, IsCard
<1>3. DOMAIN cs = Kept
  OBVIOUS
<1> HIDE DEF cs
<1>4. DOMAIN lab = Kept /\ \A f \in Kept : IsCard(lab[f]) /\ Alike(cs[f], lab[f])
  BY <1>2, <1>3, LabelsKeep
<1> HIDE DEF lab
<1>5. /\ cards' = [f \in Kept |-> cards'[f]]
      /\ \A f \in Kept : IsCard(cards'[f]) /\ Alike(lab[f], cards'[f])
  BY <1>1, <1>4, SyncKeeps
<1>6. DOMAIN cards' = Kept
  BY <1>5
<1>7. \A f \in Kept : /\ cards'[f].manual = FALSE /\ cards'[f].movie = items[f].movie
                      /\ cards'[f].confidence = IF items[f].movie = NoMovie THEN 0 ELSE items[f].confidence
  BY <1>2, <1>4, <1>5 DEF Alike
<1>8. MoviesTyped'
  <2>1. \A f \in DOMAIN cards' : IsCard(cards[f])' /\ cards'[f].manual \in BOOLEAN
    BY <1>5, <1>6, <1>7 DEF IsCard
  <2>2. \A f \in DOMAIN files' : IsItem(items[f])'
    BY <1>1 DEF MoviesInv, MoviesTyped, IsItem
  <2>3. cards' = [f \in DOMAIN cards' |-> cards'[f]] /\ Kept \subseteq DOMAIN files
    BY <1>5, <1>6 DEF Kept
  <2> QED
    BY <1>1, <1>6, <2>1, <2>2, <2>3 DEF MoviesInv, MoviesTyped
<1>9. ScanTells'
  BY <1>1, <1>6 DEF MoviesInv, ScanTells, LeftOut, Scanning
<1>10. ASSUME Cardinality(Kept) # 1, NEW f \in Kept PROVE Found(f)'
  <2>1. items[f] = Movies!Matched(f)
    BY <1>1, <1>10 DEF MoviesInv, ScanTells
  <2>2. \/ items[f].movie = NoMovie
        \/ /\ items[f].movie = files[f].best
           /\ items[f].confidence = Movies!Adjusted(files[f].score, files[f].evidence)
    BY <2>1 DEF Movies!Matched, Movies!NoResult, Movies!NoOne, Movies!Item
  <2> QED
    BY <1>1, <1>7, <2>2 DEF Found, Movies!Adjusted, Movies!Floor, Movies!Cap, Movies!AtLeast, Movies!AtMost
<1>11. CardsTell'
  BY <1>1, <1>6, <1>10 DEF CardsTell
<1> QED
  BY <1>8, <1>9, <1>11 DEF MoviesInv

\* A scan that ends without a result has shown nothing yet.
LEMMA ScanEnded ==
    ASSUME MoviesInv, Movies!CancelMovieScan \/ Movies!FailMovieScan
    PROVE  MoviesInv'
<1>1. /\ phase \in Scanning /\ phase' \in {"cancelled", "failed"}
      /\ files' = files /\ left' = left /\ cards' = cards /\ jobs' = jobs
      /\ items' = items \/ items' = [f \in DOMAIN files |-> Movies!NoOne]
  BY DEF Movies!CancelMovieScan, Movies!FailMovieScan, Scanning, MoviesInv, MoviesTyped
<1>2. cards' = cards /\ DOMAIN cards = {} /\ jobs = {}
  BY <1>1 DEF MoviesInv, MoviesTyped, Scanning
<1>3. \A f \in DOMAIN files' : IsItem(items[f])'
  BY <1>1 DEF IsItem, Movies!NoOne, MoviesInv, MoviesTyped
<1>4. MoviesTyped'
  BY <1>1, <1>2, <1>3 DEF MoviesInv, MoviesTyped
<1>5. ScanTells' /\ CardsTell'
  BY <1>1, <1>2 DEF ScanTells, CardsTell, Scanning
<1> QED
  BY <1>4, <1>5 DEF MoviesInv

-----------------------------------------------------------------------------
(* Once there are cards.                                                   *)

\* A step of the user's: cards are the user's, or what they were.
CardsStep ==
    /\ files' = files /\ left' = left /\ phase' = phase
    /\ items' = [f \in DOMAIN files |-> items'[f]]
    /\ \A f \in DOMAIN files : IsItem(items'[f]) /\ (items'[f].status = "none" => items[f].status = "none")
    /\ cards' = [f \in DOMAIN cards |-> cards'[f]]
    /\ \A f \in DOMAIN cards : /\ IsCard(cards'[f])
                               /\ cards'[f].manual = TRUE \/ Alike(cards[f], cards'[f])
    /\ \A j \in jobs' \ jobs : /\ j.file \in DOMAIN cards
                               /\ cards'[j.file].manual \/ ~(cards'[j.file].confidence < Threshold)

LEMMA CardsStand ==
    ASSUME MoviesInv, CardsStep, phase = "ready"
    PROVE  MoviesInv'
<1>1. DOMAIN cards' = DOMAIN cards
  BY DEF CardsStep
<1>2. MoviesTyped'
  <2>1. \A f \in DOMAIN cards' : IsCard(cards[f])' /\ cards'[f].manual \in BOOLEAN
    BY <1>1 DEF CardsStep, MoviesInv, MoviesTyped, IsCard, Alike
  <2>2. \A f \in DOMAIN files' : IsItem(items[f])'
    BY DEF CardsStep, MoviesInv, MoviesTyped, IsItem
  <2> QED
    BY <1>1, <2>1, <2>2 DEF CardsStep, MoviesInv, MoviesTyped
<1>3. ScanTells'
  BY <1>1 DEF CardsStep, MoviesInv, ScanTells, LeftOut, Scanning
<1>4. ASSUME Cardinality(DOMAIN cards) # 1, NEW f \in DOMAIN cards, ~cards'[f].manual
      PROVE  Found(f)'
  <2>1. Alike(cards[f], cards'[f]) /\ files' = files
    BY <1>4 DEF CardsStep
  <2>2. Found(f)
    BY <1>4, <2>1 DEF MoviesInv, CardsTell, Alike
  <2> QED
    BY <2>1, <2>2 DEF Found, Alike, Movies!Adjusted, Movies!Floor, Movies!Cap, Movies!AtLeast, Movies!AtMost
<1>5. ASSUME NEW j \in jobs'
      PROVE  /\ j.file \in DOMAIN cards'
             /\ cards'[j.file].manual \/ ~(cards'[j.file].confidence < Threshold)
  <2>1. CASE j \in jobs
    BY <1>1, <2>1 DEF CardsStep, MoviesInv, CardsTell, Alike
  <2> QED
    BY <1>1, <1>5, <2>1 DEF CardsStep
<1>6. CardsTell'
  BY <1>1, <1>4, <1>5 DEF CardsTell
<1> QED
  BY <1>2, <1>3, <1>6 DEF MoviesInv

LEMMA CardsOnceReady == ASSUME MoviesInv PROVE DOMAIN cards # {} \/ jobs # {} => phase = "ready"
BY DEF MoviesInv, MoviesTyped

\* A row with another status is a row.
LEMMA ItemWith ==
    ASSUME NEW i, IsItem(i), NEW s
    PROVE  IsItem([i EXCEPT !.status = s]) /\ [i EXCEPT !.status = s].status = s
<1> DEFINE r == [status |-> i.status, movie |-> i.movie, confidence |-> i.confidence, subs |-> i.subs]
<1>1. i = r
  BY DEF IsItem
<1>2. [r EXCEPT !.status = s] = [status |-> s, movie |-> i.movie, confidence |-> i.confidence, subs |-> i.subs]
  OBVIOUS
<1> HIDE DEF r
<1> QED
  BY <1>1, <1>2 DEF IsItem

LEMMA ApproveSteps ==
    ASSUME MoviesInv, NEW f \in DOMAIN cards, Movies!Approve(f)
    PROVE  CardsStep
<1> DEFINE c == cards[f]
           s == IF c.status = "review" THEN "OK" ELSE c.status
           n == IF c.status = "review" THEN 1000 ELSE c.confidence
           e == [c EXCEPT !.confidence = n,
                          !.status = s, !.checked = TRUE]
           d == [c EXCEPT !.confidence = n,
                          !.status = s, !.checked = TRUE, !.manual = TRUE]
           t == IF items[f].status = "review" THEN "OK" ELSE items[f].status
<1>1. /\ files' = files /\ left' = left /\ phase' = phase /\ jobs' = jobs
      /\ items = [g \in DOMAIN files |-> items[g]] /\ f \in DOMAIN files
      /\ cards = [g \in DOMAIN cards |-> cards[g]] /\ \A g \in DOMAIN cards : IsCard(cards[g])
      /\ \A g \in DOMAIN files : IsItem(items[g])
  BY DEF Movies!Approve, MoviesInv, MoviesTyped
<1>2. items' = [items EXCEPT ![f] = [items[f] EXCEPT !.status = t]]
  BY DEF Movies!Approve
<1>3. cards' = [cards EXCEPT ![f] = d]
  BY DEF Movies!Approve
<1>3a. IsCard(c)
  BY <1>1
<1> HIDE DEF c, n, s
<1>4. IsCard(d) /\ d.manual = TRUE
  <2> DEFINE e1 == [c EXCEPT !.confidence = n]
             e2 == [e1 EXCEPT !.status = s]
  <2>1. IsCard(e1)
    BY <1>3a, CardWith
  <2>2. IsCard(e2)
    <3> HIDE DEF e1
    <3> QED
      BY <2>1, CardWith
  <2>3. e = [e2 EXCEPT !.checked = TRUE] /\ d = [e EXCEPT !.manual = TRUE]
    OBVIOUS
  <2>4. IsCard(e)
    <3> HIDE DEF e2, e
    <3> QED
      BY <2>2, <2>3, CardWith
  <2>5. IsCard([e EXCEPT !.manual = TRUE]) /\ [e EXCEPT !.manual = TRUE].manual = TRUE
    <3> HIDE DEF e
    <3> QED
      BY <2>4, CardWith
  <2> HIDE DEF e, d
  <2> QED
    BY <2>3, <2>5, Zenon
<1> HIDE DEF d, t
<1>5. \A g \in DOMAIN files : IsItem(items'[g]) /\ (items'[g].status = "none" => items[g].status = "none")
  <2>1. IsItem(items'[f]) /\ items'[f].status = t
    BY <1>1, <1>2, ItemWith
  <2>2. t = "none" => items[f].status = "none"
    BY DEF t
  <2> QED
    BY <1>1, <1>2, <2>1, <2>2
<1>6. \A g \in DOMAIN cards : IsCard(cards'[g]) /\ (cards'[g].manual = TRUE \/ Alike(cards[g], cards'[g]))
  BY <1>1, <1>3, <1>4 DEF Alike
<1> QED
  BY <1>1, <1>2, <1>3, <1>5, <1>6 DEF CardsStep

LEMMA RematchSteps ==
    ASSUME MoviesInv, NEW f \in DOMAIN cards, NEW movie, Movies!Rematch(f, movie)
    PROVE  CardsStep
<1> DEFINE item == [Movies!Item(f, movie, 1000, "OK") EXCEPT !.subs = {}]
           b    == [Movies!Card(f, item) EXCEPT !.named = cards[f].named]
           e    == [b EXCEPT !.dup = cards[f].dup]
           d    == [Movies!Card(f, item) EXCEPT !.named = cards[f].named, !.dup = cards[f].dup, !.manual = TRUE]
<1>1. /\ files' = files /\ left' = left /\ phase' = phase /\ jobs' = jobs
      /\ items = [g \in DOMAIN files |-> items[g]] /\ f \in DOMAIN files
      /\ cards = [g \in DOMAIN cards |-> cards[g]] /\ \A g \in DOMAIN cards : IsCard(cards[g])
      /\ \A g \in DOMAIN files : IsItem(items[g])
  BY DEF Movies!Rematch, MoviesInv, MoviesTyped
<1>2. items' = [items EXCEPT ![f] = item] /\ cards' = [cards EXCEPT ![f] = d]
  BY DEF Movies!Rematch
<1>3. IsItem(item) /\ item.status = "OK"
  <2>1. item = [status |-> "OK", movie |-> movie, confidence |-> 1000, subs |-> {}]
    BY DEF Movies!Item
  <2> HIDE DEF item
  <2> QED
    BY <2>1 DEF IsItem
<1>4. IsCard(d) /\ d.manual = TRUE
  <2> HIDE DEF item
  <2>1. IsCard(Movies!Card(f, item))
    BY DEF Movies!Card, IsCard
  <2>2. IsCard(b)
    <3> DEFINE x == cards[f].named
    <3> HIDE DEF x
    <3>1. IsCard([Movies!Card(f, item) EXCEPT !.named = x])
      BY <2>1, CardWith
    <3> QED
      BY <3>1 DEF x
  <2>3. d = [e EXCEPT !.manual = TRUE]
    OBVIOUS
  <2>4. IsCard(e)
    <3> HIDE DEF b
    <3> QED
      BY <2>2, CardWith
  <2> HIDE DEF b, e, d
  <2> QED
    BY <2>3, <2>4, CardWith
<1> HIDE DEF d, item
<1>5. \A g \in DOMAIN files : IsItem(items'[g]) /\ (items'[g].status = "none" => items[g].status = "none")
  BY <1>1, <1>2, <1>3
<1>6. \A g \in DOMAIN cards : IsCard(cards'[g]) /\ (cards'[g].manual = TRUE \/ Alike(cards[g], cards'[g]))
  BY <1>1, <1>2, <1>4 DEF Alike
<1> QED
  BY <1>1, <1>2, <1>5, <1>6 DEF CardsStep

LEMMA CheckSteps ==
    ASSUME MoviesInv, NEW f \in DOMAIN cards, Movies!Check(f)
    PROVE  CardsStep
<1> DEFINE d == [cards[f] EXCEPT !.checked = ~cards[f].checked]
<1>1. /\ files' = files /\ left' = left /\ phase' = phase /\ jobs' = jobs /\ items' = items
      /\ items = [g \in DOMAIN files |-> items[g]] /\ f \in DOMAIN files
      /\ cards = [g \in DOMAIN cards |-> cards[g]] /\ \A g \in DOMAIN cards : IsCard(cards[g])
      /\ \A g \in DOMAIN files : IsItem(items[g])
      /\ cards' = [cards EXCEPT ![f] = d]
  BY DEF Movies!Check, MoviesInv, MoviesTyped
<1>2. IsCard(d) /\ Alike(cards[f], d)
  BY <1>1, CardWith
<1> HIDE DEF d
<1>3. \A g \in DOMAIN cards : IsCard(cards'[g]) /\ Alike(cards[g], cards'[g])
  BY <1>1, <1>2 DEF Alike
<1> QED
  BY <1>1, <1>3 DEF CardsStep

\* The queue follows the jobs, whatever else of the cards has changed that nobody
\* chooses.
LEMMA SyncSteps ==
    ASSUME MoviesInv, files' = files, phase' = phase, left' = left,
           items' = [f \in DOMAIN files |-> items'[f]],
           \A f \in DOMAIN files :
              IsItem(items'[f]) /\ (items'[f].status = "none" => items[f].status = "none"),
           NEW cs, DOMAIN cs = DOMAIN cards,
           \A f \in DOMAIN cards : IsCard(cs[f]) /\ Alike(cards[f], cs[f]),
           cards' = Movies!Synced(cs, jobs'),
           \A j \in jobs' \ jobs : j.file \in DOMAIN cards /\ (cards[j.file].manual \/ ~(cards[j.file].confidence < Threshold))
    PROVE  CardsStep
<1>1. /\ cards' = [g \in DOMAIN cards |-> cards'[g]]
      /\ \A g \in DOMAIN cards : IsCard(cards'[g]) /\ Alike(cs[g], cards'[g])
  BY SyncKeeps
<1>1a. \A g \in DOMAIN cards : Alike(cards[g], cards'[g])
  BY <1>1 DEF Alike
<1>2. \A j \in jobs' \ jobs : j.file \in DOMAIN cards /\ (cards'[j.file].manual \/ ~(cards'[j.file].confidence < Threshold))
  BY <1>1a DEF Alike
<1> QED
  BY <1>1, <1>1a, <1>2 DEF CardsStep, MoviesInv, MoviesTyped

LEMMA QueueSteps ==
    ASSUME MoviesInv, Movies!QueueMovies
    PROVE  CardsStep
<1> DEFINE eligible == {f \in DOMAIN cards : Movies!Eligible(f)}
<1>1. /\ jobs' = Movies!Submitted(jobs, eligible) /\ cards' = Movies!Synced(cards, jobs')
      /\ files' = files /\ phase' = phase /\ left' = left /\ items' = items
  BY DEF Movies!QueueMovies
<1>2. \A j \in jobs' \ jobs : j.file \in eligible
  BY <1>1 DEF Movies!Submitted
<1>3. \A f \in eligible : cards[f].manual \/ ~(cards[f].confidence < Threshold)
  BY DEF Movies!Eligible, Movies!NeedsReview
<1>4. /\ \A f \in DOMAIN cards : IsCard(cards[f]) /\ Alike(cards[f], cards[f])
      /\ items' = [f \in DOMAIN files |-> items'[f]] /\ \A f \in DOMAIN files : IsItem(items'[f])
  BY <1>1 DEF MoviesInv, MoviesTyped, Alike
<1> QED
  BY <1>1, <1>2, <1>3, <1>4, SyncSteps

\* The card of a job done has its file elsewhere, and its row.
LEMMA RenamedKeeps ==
    ASSUME MoviesInv, NEW f \in DOMAIN cards
    PROVE  /\ IsCard(Movies!RenamedCard(f)) /\ Alike(cards[f], Movies!RenamedCard(f))
           /\ IsItem(Movies!RowOf(Movies!RenamedCard(f))) /\ Movies!RowOf(Movies!RenamedCard(f)).status = "OK"
<1> DEFINE c == cards[f]
           m == c.movie
           a == [c EXCEPT !.status = "OK"]
           b == [a EXCEPT !.named = m]
           d == [b EXCEPT !.checked = FALSE]
<1>1. IsCard(c)
  BY DEF MoviesInv, MoviesTyped
<1>2. Movies!RenamedCard(f) = d /\ Movies!RenamedCard(f).status = "OK"
  BY <1>1 DEF Movies!RenamedCard, IsCard
<1> HIDE DEF c, m
<1>3. IsCard(a) /\ Alike(c, a)
  BY <1>1, CardWith
<1> HIDE DEF a
<1>4. IsCard(b) /\ Alike(a, b)
  BY <1>3, CardWith
<1> HIDE DEF b
<1>5. IsCard(d) /\ Alike(b, d)
  BY <1>4, CardWith
<1> HIDE DEF d
<1>6. Alike(c, d)
  BY <1>3, <1>4, <1>5 DEF Alike
<1>7. IsItem(Movies!RowOf(d)) /\ Movies!RowOf(d).status = "OK"
  BY <1>2 DEF IsItem, Movies!RowOf
<1> QED
  BY <1>2, <1>5, <1>6, <1>7 DEF c

LEMMA EndSteps ==
    ASSUME MoviesInv, NEW j \in jobs, Movies!EndJob(j)
    PROVE  CardsStep
<1>1. /\ jobs' \ jobs = {} /\ files' = files /\ phase' = phase /\ left' = left
      /\ items = [f \in DOMAIN files |-> items[f]] /\ \A f \in DOMAIN files : IsItem(items[f])
      /\ cards = [f \in DOMAIN cards |-> cards[f]]
      /\ \A f \in DOMAIN cards : IsCard(cards[f]) /\ Alike(cards[f], cards[f])
  BY DEF Movies!EndJob, MoviesInv, MoviesTyped, Alike
<1>2. CASE cards' = Movies!Synced(cards, jobs') /\ items' = items
  BY <1>1, <1>2, SyncSteps
<1>3. ASSUME NEW f \in DOMAIN cards,
             cards' = Movies!Synced([cards EXCEPT ![f] = Movies!RenamedCard(f)], jobs'),
             items' = [g \in DOMAIN items |-> IF items[g].movie = j.movie
                          THEN Movies!RowOf(Movies!RenamedCard(f)) ELSE items[g]]
      PROVE  CardsStep
  <2> DEFINE new  == Movies!RenamedCard(f)
             row  == Movies!RowOf(new)
             cs   == [cards EXCEPT ![f] = new]
  <2>1. IsCard(new) /\ Alike(cards[f], new) /\ IsItem(row) /\ row.status = "OK"
    BY RenamedKeeps
  <2>2. cards' = Movies!Synced(cs, jobs') /\ items' = [g \in DOMAIN items |-> IF items[g].movie = j.movie THEN row ELSE items[g]]
    BY <1>3
  <2> HIDE DEF new, row
  <2>3. DOMAIN cs = DOMAIN cards /\ \A g \in DOMAIN cards : IsCard(cs[g]) /\ Alike(cards[g], cs[g])
    BY <1>1, <2>1
  <2>4. /\ items' = [g \in DOMAIN files |-> items'[g]]
        /\ \A g \in DOMAIN files :
              IsItem(items'[g]) /\ (items'[g].status = "none" => items[g].status = "none")
    BY <1>1, <2>1, <2>2
  <2> HIDE DEF cs
  <2> QED
    BY <1>1, <2>2, <2>3, <2>4, SyncSteps
<1> QED
  BY <1>2, <1>3 DEF Movies!EndJob, Movies!CardsOfJob

LEMMA MoviesStep ==
    ASSUME MoviesInv, Movies!MovieNext
    PROVE  MoviesInv'
<1>1. CASE Movies!SkipShows \/ Movies!SkipNames \/ Movies!SkipBatches
  BY <1>1, ScanSteps
<1>2. CASE Movies!Match
  BY <1>2, MatchTells
<1>3. CASE Movies!Complete
  BY <1>3, CompleteTells
<1>4. CASE Movies!CancelMovieScan \/ Movies!FailMovieScan
  BY <1>4, ScanEnded
<1>5. ASSUME NEW f \in DOMAIN cards, Movies!Approve(f) PROVE MoviesInv'
  BY <1>5, ApproveSteps, CardsOnceReady, CardsStand
<1>6. ASSUME NEW f \in DOMAIN cards, Movies!Check(f) PROVE MoviesInv'
  BY <1>6, CheckSteps, CardsOnceReady, CardsStand
<1>7. ASSUME NEW f \in DOMAIN cards, NEW movie, Movies!Rematch(f, movie) PROVE MoviesInv'
  BY <1>7, RematchSteps, CardsOnceReady, CardsStand
<1>8. CASE Movies!QueueMovies
  <2>1. DOMAIN cards # {}
    BY <1>8 DEF Movies!QueueMovies
  <2> QED
    BY <1>8, <2>1, QueueSteps, CardsOnceReady, CardsStand
<1>9. ASSUME NEW j \in jobs, Movies!EndJob(j) PROVE MoviesInv'
  <2>1. CardsStep
    BY <1>9, EndSteps
  <2> QED
    BY <1>9, <2>1, CardsOnceReady, CardsStand
<1> QED
  BY <1>1, <1>2, <1>3, <1>4, <1>5, <1>6, <1>7, <1>8, <1>9 DEF Movies!MovieNext

LEMMA MoviesStay == MoviesInv /\ UNCHANGED movieVars => MoviesInv'
<1> SUFFICES ASSUME MoviesInv, UNCHANGED movieVars PROVE MoviesInv'
  OBVIOUS
<1>1. MoviesTyped'
  BY DEF MoviesInv, MoviesTyped, movieVars, IsItem, IsCard
<1>2. ScanTells'
  <2>1. Kept' = Kept
    BY DEF movieVars, Kept
  <2> QED
    BY <2>1 DEF MoviesInv, ScanTells, movieVars, LeftOut, Movies!Matched, Movies!Item
<1>3. CardsTell'
  BY DEF MoviesInv, CardsTell, movieVars, Found
<1> QED
  BY <1>1, <1>2, <1>3 DEF MoviesInv

\* What contradicts a match keeps its confidence below any threshold it is meant for.
LEMMA CapsAreLow ==
    ASSUME MoviesInv, NEW f \in DOMAIN files, Movies!Contradicted(files[f].evidence)
    PROVE  Movies!Adjusted(files[f].score, files[f].evidence) < Threshold
<1> DEFINE e == files[f].evidence
<1>1. files[f].score \in Nat /\ e.year \in Int /\ Threshold \in 500 .. 1000
  BY MoviesAssumption DEF MoviesInv, MoviesTyped
<1>2. Movies!Floor(e) \in Nat
  BY DEF Movies!Floor
<1>3. Movies!Cap(e) \in {450, 500} /\ (Movies!Cap(e) = 500 => Threshold > 500)
  BY <1>1 DEF Movies!Cap, Movies!Contradicted
<1>4. Movies!AtLeast(files[f].score, Movies!Floor(e)) \in Nat
  BY <1>1, <1>2 DEF Movies!AtLeast
<1>5. Movies!Adjusted(files[f].score, e) <= Movies!Cap(e) /\ Movies!Adjusted(files[f].score, e) \in Nat
  BY <1>3, <1>4 DEF Movies!Adjusted, Movies!AtMost
<1> QED
  BY <1>1, <1>3, <1>5

LEMMA ContradictedTold ==
    ASSUME MoviesInv PROVE Movies!ContradictedIsReviewed
<1> SUFFICES ASSUME Cardinality(DOMAIN cards) # 1, NEW f \in DOMAIN cards,
                    cards[f].movie = files[f].best, Movies!Contradicted(files[f].evidence), ~cards[f].manual
             PROVE  ~Movies!Approvable(f) /\ \A j \in jobs : j.file # f
  BY MoviesCount DEF Movies!ContradictedIsReviewed, Movies!SearchedAlone
<1>1. Found(f) /\ f \in DOMAIN files
  BY DEF MoviesInv, MoviesTyped, CardsTell
<1>2. cards[f].confidence < Threshold
  BY <1>1, CapsAreLow, MoviesAssumption DEF Found
<1>3. ~Movies!Approvable(f)
  BY <1>2 DEF Movies!Approvable, Movies!NeedsReview
<1>4. \A j \in jobs : j.file # f
  BY <1>2 DEF MoviesInv, CardsTell
<1> QED
  BY <1>3, <1>4

LEMMA FilesTold ==
    ASSUME MoviesInv PROVE Movies!FilesAccounted
BY MoviesCount DEF MoviesInv, ScanTells, LeftOut, Movies!FilesAccounted

LEMMA MoviesInSuite == SuiteSpec => [](part = "movies" => MoviesInv)
<1>1. SuiteInit => (part = "movies" => MoviesInv)
  BY MoviesStart DEF SuiteInit
<1>2. (part = "movies" => MoviesInv) /\ [SuiteNext]_suiteVars => (part = "movies" => MoviesInv)'
  BY MoviesStep, MoviesStay DEF SuiteNext, suiteVars
<1> QED
  BY <1>1, <1>2, PTL DEF SuiteSpec

\* A movie its year or its number speaks against is offered for review, and every
\* file of the folder ends on one card or is accounted for without, for any finite
\* folder, any jobs and any threshold the settings admit (_movie_scanner.py).
THEOREM MoviesAlwaysAccounted == SuiteSpec => []MoviesAccounted
<1>1. (part = "movies" => MoviesInv) => MoviesAccounted
  BY ContradictedTold, FilesTold DEF MoviesAccounted
<1> QED
  BY <1>1, MoviesInSuite, PTL

-----------------------------------------------------------------------------
(***************************************************************************)
(* The walk of a library, for any finite tree of folders and links.        *)
(***************************************************************************)

\* The folders are those of a library; what has been walked is of it.
WalkTyped ==
    /\ tree \in Trees /\ kind \in {"tv", "movie"}
    /\ visited \subseteq DOMAIN tree
    /\ \A p \in frontier \cup candidates : p \in Seq(DOMAIN tree) /\ Len(p) >= 1

\* A path to be walked leads from the root through folders walked before, each once.
PathsWell ==
    \A p \in frontier :
       /\ \A i \in 1 .. Len(p) : p[i] # LibraryRoot
       /\ \A i \in 1 .. Len(p) - 1 : Discovery!Canonical(p[i]) \in visited
       /\ \A i, j \in 1 .. Len(p) - 1 :
             i # j => Discovery!Canonical(p[i]) # Discovery!Canonical(p[j])
PathsShort == \A p \in candidates : Len(p) <= Cardinality(DOMAIN tree)

\* A root has been walked, or is the library and the end of the walk.
RootsWalked ==
    \/ candidates = {<<LibraryRoot>>} /\ frontier = {}
    \/ \A p \in candidates : Discovery!Canonical(Discovery!Last(p)) \in visited

\* What is below a container that was walked has been walked, or will be.
Coming(c) == Discovery!Canonical(c) \in visited \/ \E q \in frontier : Discovery!Last(q) = c
FoldersFollow ==
    /\ \/ <<LibraryRoot>> \in candidates
       \/ Discovery!Ignored(LibraryRoot)
       \/ \A c \in Discovery!SubfoldersOf(LibraryRoot) : Coming(c)
    /\ \A v \in visited : \E m \in DOMAIN tree :
          /\ Discovery!Canonical(m) = v
          /\ Discovery!Role(m) = "root" =>
                \E p \in candidates : Discovery!Canonical(Discovery!Last(p)) = v
          /\ Discovery!Role(m) = "container" => \A c \in Discovery!Descent(m) : Coming(c)

DiscoveryInv ==
    /\ WalkTyped /\ PathsWell /\ PathsShort
    /\ \A p, q \in candidates :
          Discovery!Canonical(Discovery!Last(p)) = Discovery!Canonical(Discovery!Last(q)) => p = q
    /\ RootsWalked /\ FoldersFollow

LEMMA WalkCounts == \A S : Discovery!Cardinality(S) = Cardinality(S)
BY Zenon DEF Cardinality, Discovery!Cardinality

\* What a folder is taken for does not change while the walk goes on.
LEMMA RolesStay ==
    ASSUME tree' = tree, kind' = kind, NEW n
    PROVE  /\ (Discovery!Canonical(n))' = Discovery!Canonical(n)
           /\ (Discovery!Ignored(n))' = Discovery!Ignored(n)
           /\ (Discovery!SubfoldersOf(n))' = Discovery!SubfoldersOf(n)
           /\ (Discovery!Role(n))' = Discovery!Role(n)
           /\ (Discovery!Descent(n))' = Discovery!Descent(n)
<1>1. ASSUME NEW m PROVE /\ (Discovery!SubfoldersOf(m))' = Discovery!SubfoldersOf(m)
                         /\ (Discovery!Canonical(m))' = Discovery!Canonical(m)
                         /\ (Discovery!Resolved(m))' = Discovery!Resolved(m)
                         /\ (Discovery!Ignored(m))' = Discovery!Ignored(m)
                         /\ (Discovery!VideoCount(m))' = Discovery!VideoCount(m)
                         /\ (Discovery!IsExtras(m))' = Discovery!IsExtras(m)
  BY DEF Discovery!SubfoldersOf, Discovery!Canonical, Discovery!Resolved, Discovery!Folders, Discovery!Ignored,
         Discovery!VideoCount, Discovery!IsExtras
<1>2. ASSUME NEW m PROVE /\ (Discovery!Inner(m))' = Discovery!Inner(m)
                         /\ (Discovery!EpisodeCount(m))' = Discovery!EpisodeCount(m)
  <2>1. (Discovery!SubfoldersOf(m))' = Discovery!SubfoldersOf(m)
    BY <1>1
  <2>2. (Discovery!VideoCount(m))' = Discovery!VideoCount(m)
    BY <1>1
  <2>3. (Discovery!Inner(m))' = Discovery!Inner(m)
    BY <2>1 DEF Discovery!Inner, Discovery!Ignored
  <2>4. (Discovery!EpisodeCount(m))' = Discovery!EpisodeCount(m)
    BY <2>2 DEF Discovery!EpisodeCount, Discovery!Resolved
  <2> QED
    BY <2>3, <2>4
<1>3. ASSUME NEW m PROVE /\ (Discovery!YearMajority(m))' = Discovery!YearMajority(m)
                         /\ (Discovery!CountsAsSeason(m))' = Discovery!CountsAsSeason(m)
                         /\ (Discovery!IsSeasonFolder(m))' = Discovery!IsSeasonFolder(m)
                         /\ (Discovery!MovieFolders(m))' = Discovery!MovieFolders(m)
  <2>1. /\ (Discovery!Inner(m))' = Discovery!Inner(m)
        /\ (Discovery!EpisodeCount(m))' = Discovery!EpisodeCount(m)
        /\ (Discovery!VideoCount(m))' = Discovery!VideoCount(m)
    BY <1>1, <1>2
  <2>2. (Discovery!SeasonChildrenCounted(m))' = Discovery!SeasonChildrenCounted(m)
    BY <2>1 DEF Discovery!SeasonChildrenCounted
  <2>3. (Discovery!YearMajority(m))' = Discovery!YearMajority(m)
    BY <2>2 DEF Discovery!YearMajority
  <2> QED
    BY <2>1, <2>3 DEF Discovery!CountsAsSeason, Discovery!IsSeasonFolder, Discovery!MovieFolders
<1>4. ASSUME NEW m PROVE /\ (Discovery!SeasonSubdirs(m))' = Discovery!SeasonSubdirs(m)
                         /\ (Discovery!ContainedFolders(m))' = Discovery!ContainedFolders(m)
  <2>1. (Discovery!Inner(m))' = Discovery!Inner(m) /\ \A c : (Discovery!CountsAsSeason(c))' = Discovery!CountsAsSeason(c)
    BY <1>2, <1>3
  <2> QED
    BY <2>1 DEF Discovery!SeasonSubdirs, Discovery!ContainedFolders, Discovery!OtherSubdirs, Discovery!SpecialsSubdirs
<1>5. (Discovery!ShowRole(n))' = Discovery!ShowRole(n)
  <2>1. /\ (Discovery!Inner(n))' = Discovery!Inner(n)
        /\ (Discovery!EpisodeCount(n))' = Discovery!EpisodeCount(n)
        /\ (Discovery!VideoCount(n))' = Discovery!VideoCount(n)
        /\ (Discovery!YearMajority(n))' = Discovery!YearMajority(n)
        /\ (Discovery!SeasonSubdirs(n))' = Discovery!SeasonSubdirs(n)
        /\ (Discovery!ContainedFolders(n))' = Discovery!ContainedFolders(n)
        /\ (Discovery!IsSeasonFolder(n))' = Discovery!IsSeasonFolder(n)
        /\ (Discovery!IsExtras(n))' = Discovery!IsExtras(n)
        /\ (Discovery!Ignored(n))' = Discovery!Ignored(n)
    BY <1>1, <1>2, <1>3, <1>4
  <2>2. (Discovery!IsShowRoot(n))' = Discovery!IsShowRoot(n)
    BY <2>1 DEF Discovery!IsShowRoot
  <2> QED
    BY <2>1, <2>2 DEF Discovery!ShowRole
<1>6. (Discovery!MovieRole(n))' = Discovery!MovieRole(n)
  <2>1. /\ (Discovery!EpisodeCount(n))' = Discovery!EpisodeCount(n)
        /\ (Discovery!VideoCount(n))' = Discovery!VideoCount(n)
        /\ (Discovery!MovieFolders(n))' = Discovery!MovieFolders(n)
        /\ (Discovery!Ignored(n))' = Discovery!Ignored(n)
    BY <1>1, <1>2, <1>3
  <2> QED
    BY <2>1 DEF Discovery!MovieRole
<1> QED
  BY <1>1, <1>3, <1>4, <1>5, <1>6 DEF Discovery!Role, Discovery!Descent

LEMMA TreesTell ==
    ASSUME WalkTyped
    PROVE  /\ IsFiniteSet(DOMAIN tree) /\ LibraryRoot \in DOMAIN tree
           /\ Discovery!Resolved(LibraryRoot) = LibraryRoot
           /\ \A n \in DOMAIN tree : Discovery!Canonical(n) \in DOMAIN tree
           /\ \A n : Discovery!SubfoldersOf(n) \subseteq DOMAIN tree \ {LibraryRoot}
           /\ \A n : Discovery!Descent(n) \subseteq DOMAIN tree \ {LibraryRoot}
<1>1. \A n : Discovery!SubfoldersOf(n) \subseteq DOMAIN tree \ {LibraryRoot}
  BY DEF Discovery!SubfoldersOf, Discovery!Folders
<1>2. \A n : Discovery!Inner(n) \subseteq DOMAIN tree \ {LibraryRoot}
  BY <1>1 DEF Discovery!Inner
<1>3. \A n : Discovery!Descent(n) \subseteq DOMAIN tree \ {LibraryRoot}
  BY <1>2 DEF Discovery!Descent, Discovery!ContainedFolders, Discovery!OtherSubdirs, Discovery!SeasonSubdirs,
     Discovery!SpecialsSubdirs, Discovery!MovieFolders
<1> QED
  BY <1>1, <1>3, TreesAssumption DEF WalkTyped, Discovery!Canonical, Discovery!Resolved

\* A path is no longer than the library has folders.
LEMMA PathLength ==
    ASSUME WalkTyped, PathsWell, NEW p \in frontier
    PROVE  Len(p) \in Nat /\ Len(p) <= Cardinality(DOMAIN tree)
<1> DEFINE N == 1 .. Len(p) - 1
           T == DOMAIN tree \ {LibraryRoot}
           g == [i \in N |-> p[i]]
<1>1. p \in Seq(DOMAIN tree) /\ Len(p) \in Nat /\ Len(p) >= 1
  BY DEF WalkTyped
<1>2. g \in Injection(N, T)
  <2>1. \A i \in N : p[i] \in T
    BY <1>1 DEF PathsWell
  <2>2. \A i, j \in N : i # j => p[i] # p[j]
    BY DEF PathsWell
  <2> QED
    BY <2>1, <2>2 DEF Injection, IsInjective
<1>3. IsFiniteSet(DOMAIN tree) /\ LibraryRoot \in DOMAIN tree
  BY TreesTell
<1>4. IsFiniteSet(T) /\ Cardinality(T) = Cardinality(DOMAIN tree) - 1
  BY <1>3, FS_RemoveElement
<1>5. Cardinality(N) <= Cardinality(T)
  BY <1>2, <1>4, FS_Injection
<1>6. Cardinality(N) = Len(p) - 1
  BY <1>1, FS_Interval
<1>7. Cardinality(DOMAIN tree) \in Nat
  BY <1>3, FS_CardinalityType
<1> QED
  BY <1>1, <1>4, <1>5, <1>6, <1>7

LEMMA DiscoveryStart == Discovery!DiscoveryInit => DiscoveryInv
<1> SUFFICES ASSUME Discovery!DiscoveryInit PROVE DiscoveryInv
  OBVIOUS
<1>1. /\ tree \in Trees /\ kind \in {"tv", "movie"} /\ visited = {}
      /\ \/ candidates = {<<LibraryRoot>>} /\ frontier = {}
         \/ candidates = {} /\ frontier = {} /\ Discovery!Ignored(LibraryRoot)
         \/ candidates = {} /\ frontier = {<<c>> : c \in Discovery!SubfoldersOf(LibraryRoot)}
  BY DEF Discovery!DiscoveryInit
<1>2. LibraryRoot \in DOMAIN tree /\ Discovery!SubfoldersOf(LibraryRoot) \subseteq DOMAIN tree \ {LibraryRoot}
  BY <1>1, TreesAssumption DEF Discovery!SubfoldersOf, Discovery!Folders
<1>2a. \A c \in DOMAIN tree : <<c>> \in Seq(DOMAIN tree) /\ Len(<<c>>) = 1 /\ <<c>>[1] = c
  OBVIOUS
<1>2b. /\ \A p \in frontier : \E c \in DOMAIN tree \ {LibraryRoot} : p = <<c>>
       /\ \A p \in candidates : p = <<LibraryRoot>>
  BY <1>1, <1>2
<1>3. WalkTyped
  <2>1. \A p \in frontier \cup candidates : p \in Seq(DOMAIN tree) /\ Len(p) = 1
    BY <1>2, <1>2a, <1>2b
  <2> QED
    BY <1>1, <2>1 DEF WalkTyped
<1>4. PathsWell
  <2>1. \A p \in frontier : Len(p) = 1 /\ p[1] # LibraryRoot
    BY <1>2a, <1>2b
  <2>2. \A i : (i \in 1 .. 1 => i = 1) /\ i \notin 1 .. 1 - 1
    OBVIOUS
  <2> QED
    BY <2>1, <2>2, Zenon DEF PathsWell
<1>5. PathsShort
  <2>1. Cardinality(DOMAIN tree) \in Nat /\ Cardinality(DOMAIN tree) # 0
    BY <1>1, <1>2, TreesAssumption, FS_CardinalityType, FS_EmptySet
  <2>2. \A p \in candidates : Len(p) = 1
    BY <1>2, <1>2a, <1>2b
  <2>3. 1 <= Cardinality(DOMAIN tree)
    BY <2>1
  <2> QED
    BY <2>2, <2>3, Zenon DEF PathsShort
<1>6. RootsWalked /\ \A p, q \in candidates : p = q
  BY <1>1 DEF RootsWalked
<1>7. FoldersFollow
  <2>1. ASSUME frontier = {<<c>> : c \in Discovery!SubfoldersOf(LibraryRoot)}, NEW c \in Discovery!SubfoldersOf(LibraryRoot)
        PROVE  Coming(c)
    <3>1. <<c>> \in frontier /\ Discovery!Last(<<c>>) = c
      BY <2>1 DEF Discovery!Last
    <3> QED
      BY <3>1 DEF Coming
  <2> QED
    BY <1>1, <2>1 DEF FoldersFollow
<1> QED
  BY <1>3, <1>4, <1>5, <1>6, <1>7 DEF DiscoveryInv

LEMMA WalkStep ==
    ASSUME DiscoveryInv, NEW p \in frontier, Discovery!Walk(p)
    PROVE  DiscoveryInv'
<1> DEFINE l     == Discovery!Last(p)
           at    == Discovery!Canonical(l)
           known == at \in visited
<1>1. /\ tree' = tree /\ kind' = kind /\ visited' = visited \cup {at}
      /\ candidates' = IF ~known /\ Discovery!Role(l) = "root" THEN candidates \cup {p} ELSE candidates
      /\ frontier' = (frontier \ {p}) \cup
            IF ~known /\ Discovery!Role(l) = "container" THEN {Append(p, c) : c \in Discovery!Descent(l)} ELSE {}
  BY DEF Discovery!Walk, Discovery!Known
<1>2. WalkTyped /\ p \in Seq(DOMAIN tree) /\ Len(p) \in Nat /\ Len(p) >= 1
  BY DEF DiscoveryInv, WalkTyped
<1>3. l \in DOMAIN tree /\ at \in DOMAIN tree /\ Discovery!Descent(l) \subseteq DOMAIN tree \ {LibraryRoot}
  BY <1>2, TreesTell DEF Discovery!Last
<1>4. \A c \in Discovery!Descent(l) :
        /\ Append(p, c) \in Seq(DOMAIN tree) /\ Len(Append(p, c)) = Len(p) + 1
        /\ \A i \in 1 .. Len(p) : Append(p, c)[i] = p[i]
        /\ Append(p, c)[Len(p) + 1] = c
        /\ Discovery!Last(Append(p, c)) = c
  BY <1>2, <1>3 DEF Discovery!Last
<1>5. \A n : Discovery!Canonical(n)' = Discovery!Canonical(n) /\ Discovery!Ignored(n)' = Discovery!Ignored(n)
             /\ Discovery!SubfoldersOf(n)' = Discovery!SubfoldersOf(n) /\ Discovery!Role(n)' = Discovery!Role(n)
             /\ Discovery!Descent(n)' = Discovery!Descent(n)
  BY <1>1, RolesStay
<1>6. l = p[Len(p)]
  BY DEF Discovery!Last
<1> HIDE DEF l, at
<1>7. WalkTyped'
  <2>1. \A q \in frontier' \cup candidates' : q \in Seq(DOMAIN tree) /\ Len(q) >= 1
    BY <1>1, <1>2, <1>4 DEF WalkTyped
  <2> QED
    BY <1>1, <1>2, <1>3, <2>1 DEF WalkTyped
<1> DEFINE Well(q) ==
       /\ \A i \in 1 .. Len(q) : q[i] # LibraryRoot
       /\ \A i \in 1 .. Len(q) - 1 : Discovery!Canonical(q[i]) \in visited'
       /\ \A i, j \in 1 .. Len(q) - 1 : i # j => Discovery!Canonical(q[i]) # Discovery!Canonical(q[j])
<1>8. ASSUME NEW q \in frontier' PROVE Well(q)
  <2>1. CASE q \in frontier
    BY <1>1, <2>1 DEF DiscoveryInv, PathsWell
  <2>2. CASE q \notin frontier
    <3>1. PICK c \in Discovery!Descent(l) : q = Append(p, c) /\ ~known
      BY <1>1, <1>8, <2>2
    <3>2. Len(q) = Len(p) + 1 /\ q[Len(p) + 1] = c /\ c # LibraryRoot /\ \A i \in 1 .. Len(p) : q[i] = p[i]
      BY <1>3, <1>4, <3>1
    <3>3. /\ \A i \in 1 .. Len(p) : p[i] # LibraryRoot
          /\ \A i \in 1 .. Len(p) - 1 : Discovery!Canonical(p[i]) \in visited
          /\ \A i, j \in 1 .. Len(p) - 1 : i # j => Discovery!Canonical(p[i]) # Discovery!Canonical(p[j])
      BY DEF DiscoveryInv, PathsWell
    <3>4. Discovery!Canonical(p[Len(p)]) = at /\ at \notin visited
      BY <1>6, <3>1 DEF at
    <3>5. \A i \in 1 .. Len(q) : q[i] # LibraryRoot
      BY <1>2, <3>2, <3>3
    <3>6. \A i \in 1 .. Len(p) : Discovery!Canonical(q[i]) \in visited'
      BY <1>1, <1>2, <3>2, <3>3, <3>4
    <3>7. \A i, j \in 1 .. Len(p) : i # j => Discovery!Canonical(q[i]) # Discovery!Canonical(q[j])
      BY <1>2, <3>2, <3>3, <3>4
    <3>8. Len(q) - 1 = Len(p)
      BY <1>2, <3>2
    <3> QED
      BY <3>5, <3>6, <3>7, <3>8
  <2> QED
    BY <2>1, <2>2
<1>9. PathsWell'
  <2>1. \A n : Discovery!Canonical(n)' = Discovery!Canonical(n)
    BY <1>5
  <2> QED
    BY <1>8, <2>1 DEF PathsWell
<1>10. PathsShort'
  <2>1. Len(p) <= Cardinality(DOMAIN tree)
    BY PathLength DEF DiscoveryInv
  <2> QED
    BY <1>1, <2>1 DEF DiscoveryInv, PathsShort
<1>11. \A q \in candidates : Discovery!Canonical(Discovery!Last(q)) \in visited
  BY DEF DiscoveryInv, RootsWalked
<1>12. \A q \in candidates' : Discovery!Canonical(Discovery!Last(q)) \in visited'
  BY <1>1, <1>11 DEF at, l
<1>13. RootsWalked'
  BY <1>5, <1>12 DEF RootsWalked, Discovery!Last
<1>14. \A q, r \in candidates' :
         Discovery!Canonical(Discovery!Last(q)) = Discovery!Canonical(Discovery!Last(r)) => q = r
  BY <1>1, <1>11 DEF DiscoveryInv, at, l
<1>15. ASSUME NEW c, Coming(c) PROVE Discovery!Canonical(c) \in visited' \/ \E q \in frontier' : Discovery!Last(q) = c
  BY <1>1, <1>15 DEF Coming, at, l
<1>16. \A c : Coming(c)' <=> Discovery!Canonical(c) \in visited' \/ \E q \in frontier' : Discovery!Last(q) = c
  BY <1>5 DEF Coming, Discovery!Last
<1>17. ASSUME NEW v \in visited'
       PROVE  \E m \in DOMAIN tree :
          /\ Discovery!Canonical(m) = v
          /\ Discovery!Role(m) = "root" =>
                \E q \in candidates' : Discovery!Canonical(Discovery!Last(q)) = v
          /\ Discovery!Role(m) = "container" => \A c \in Discovery!Descent(m) : Coming(c)'
  <2>1. CASE v \in visited
    BY <1>1, <1>15, <1>16, <2>1 DEF DiscoveryInv, FoldersFollow
  <2>2. CASE v \notin visited
    <3>1. v = at /\ ~known
      BY <1>1, <2>2
    <3>2. Discovery!Role(l) = "root" => \E q \in candidates' : Discovery!Canonical(Discovery!Last(q)) = v
      BY <1>1, <3>1 DEF at, l
    <3>3. ASSUME Discovery!Role(l) = "container", NEW c \in Discovery!Descent(l) PROVE Coming(c)'
      <4>1. Append(p, c) \in frontier' /\ Discovery!Last(Append(p, c)) = c
        BY <1>1, <1>4, <3>1, <3>3
      <4> QED
        BY <1>16, <4>1
    <3> QED
      BY <1>3, <3>1, <3>2, <3>3 DEF at
  <2> QED
    BY <2>1, <2>2
<1>18. \/ <<LibraryRoot>> \in candidates' \/ Discovery!Ignored(LibraryRoot)
       \/ \A c \in Discovery!SubfoldersOf(LibraryRoot) : Coming(c)'
  BY <1>1, <1>15, <1>16 DEF DiscoveryInv, FoldersFollow
<1>19. FoldersFollow'
  BY <1>1, <1>5, <1>17, <1>18 DEF FoldersFollow, Discovery!Last
<1>20. \A q, r \in candidates' :
         Discovery!Canonical(Discovery!Last(q))' = Discovery!Canonical(Discovery!Last(r))' => q = r
  BY <1>5, <1>14 DEF Discovery!Last
<1> QED
  BY <1>7, <1>9, <1>10, <1>13, <1>19, <1>20 DEF DiscoveryInv

LEMMA WalkStays == DiscoveryInv /\ UNCHANGED discoveryVars => DiscoveryInv'
<1> SUFFICES ASSUME DiscoveryInv, UNCHANGED discoveryVars PROVE DiscoveryInv'
  OBVIOUS
<1>1. tree' = tree /\ kind' = kind /\ frontier' = frontier /\ visited' = visited /\ candidates' = candidates
  BY DEF discoveryVars
<1>2. \A n : Discovery!Canonical(n)' = Discovery!Canonical(n) /\ Discovery!Ignored(n)' = Discovery!Ignored(n)
             /\ Discovery!SubfoldersOf(n)' = Discovery!SubfoldersOf(n) /\ Discovery!Role(n)' = Discovery!Role(n)
             /\ Discovery!Descent(n)' = Discovery!Descent(n)
  BY <1>1, RolesStay
<1>3. \A c : Coming(c)' <=> Coming(c)
  BY <1>1, <1>2 DEF Coming, Discovery!Last
<1>4. FoldersFollow'
  BY <1>1, <1>2, <1>3 DEF DiscoveryInv, FoldersFollow, Discovery!Last
<1> QED
  BY <1>1, <1>2, <1>4 DEF DiscoveryInv, WalkTyped, PathsWell, PathsShort, RootsWalked, Discovery!Last

LEMMA WalkTypeTold ==
    ASSUME DiscoveryInv PROVE Discovery!DiscoveryTypeOK
<1>1. WalkTyped /\ PathsWell /\ PathsShort
  BY DEF DiscoveryInv
<1>2. Discovery!Folders = DOMAIN tree
  BY DEF Discovery!Folders
<1>3. \A p \in frontier \cup candidates : Len(p) \in 1 .. Cardinality(DOMAIN tree) /\ p \in Seq(DOMAIN tree)
  <2>1. \A p \in frontier \cup candidates : Len(p) \in Nat /\ Len(p) >= 1 /\ p \in Seq(DOMAIN tree)
    BY <1>1 DEF WalkTyped
  <2>2. \A p \in frontier \cup candidates : Len(p) <= Cardinality(DOMAIN tree)
    BY <1>1, PathLength DEF PathsShort
  <2>3. Cardinality(DOMAIN tree) \in Nat
    BY <1>1, TreesTell, FS_CardinalityType
  <2> QED
    BY <2>1, <2>2, <2>3
<1> QED
  BY <1>1, <1>2, <1>3, WalkCounts DEF WalkTyped, Discovery!DiscoveryTypeOK

LEMMA RootsTold == ASSUME DiscoveryInv PROVE Discovery!RootsDistinct
BY DEF DiscoveryInv, Discovery!RootsDistinct

\* The folders above one: it, the parents of theirs, and the library.
LEMMA AboveTells ==
    ASSUME WalkTyped, NEW n \in DOMAIN tree
    PROVE  /\ n \in Discovery!Above(n) /\ Discovery!Above(n) \subseteq DOMAIN tree
           /\ \A d \in Discovery!Above(n) \ {LibraryRoot} : tree[d].parent \in Discovery!Above(n)
           /\ LibraryRoot \in Discovery!Above(n)
<1> DEFINE up == Discovery!Above(n)
<1>1. n \in up /\ up \subseteq DOMAIN tree
  BY DEF Discovery!Above, Discovery!Folders
<1>2. \A d \in DOMAIN tree : tree[d].parent \in DOMAIN tree
  BY TreesAssumption DEF WalkTyped
<1>3. \A d \in up \ {LibraryRoot} : tree[d].parent \in up
  BY <1>2 DEF Discovery!Above, Discovery!Folders, Discovery!Closed
<1>4. \A S \in SUBSET DOMAIN tree :
         S # {} /\ (\A d \in S \ {LibraryRoot} : tree[d].parent \in S) => LibraryRoot \in S
  BY TreesAssumption DEF WalkTyped
<1> HIDE DEF up
<1>5. LibraryRoot \in up
  BY <1>1, <1>3, <1>4
<1> QED
  BY <1>1, <1>3, <1>5 DEF up

\* What is not a show, not a season and not extras is a container of all it has.
LEMMA ContainersOpen ==
    ASSUME WalkTyped, kind = "tv", NEW d \in DOMAIN tree, NEW a \in Discovery!Inner(d),
           ~Discovery!Ignored(d), ~Discovery!IsExtras(d), ~Discovery!IsSeasonFolder(d),
           Discovery!Role(d) # "root"
    PROVE  Discovery!Role(d) = "container" /\ a \in Discovery!Descent(d)
<1>1. ~Discovery!IsShowRoot(d)
  BY DEF Discovery!Role, Discovery!ShowRole
<1>2. Discovery!SeasonSubdirs(d) = {}
  BY <1>1 DEF Discovery!IsShowRoot
<1>3. a \in Discovery!ContainedFolders(d)
  BY <1>2 DEF Discovery!ContainedFolders, Discovery!OtherSubdirs
<1>4. Discovery!ShowRole(d) = "container"
  BY <1>1, <1>3 DEF Discovery!ShowRole
<1> QED
  BY <1>3, <1>4 DEF Discovery!Role, Discovery!Descent

\* A folder has some number of episodes.
LEMMA EpisodesCounted ==
    ASSUME WalkTyped, NEW n \in DOMAIN tree
    PROVE  Discovery!EpisodeCount(n) \in Nat
<1> DEFINE at == tree[n].target
<1>1. at \in DOMAIN tree
  BY TreesAssumption DEF WalkTyped
<1> HIDE DEF at
<1>2. tree[at].episodes \in Nat /\ tree[at].others \in Nat
  BY <1>1, TreesAssumption DEF WalkTyped
<1>3. tree[at].episodes + tree[at].others \in Nat
  BY <1>2
<1>4. Discovery!Resolved(n) = at
  BY DEF at, Discovery!Resolved
<1> QED
  BY <1>2, <1>3, <1>4, Zenon DEF Discovery!EpisodeCount, Discovery!VideoCount

LEMMA EpisodesTold == ASSUME DiscoveryInv PROVE Discovery!EpisodesReached
<1> SUFFICES ASSUME kind = "tv", frontier = {}, NEW n \in DOMAIN tree \ {LibraryRoot},
                    Discovery!EpisodeCount(n) # 0,
                    \A a \in Discovery!Above(n) : ~Discovery!Ignored(a),
                    \A a \in Discovery!Above(n) \ {LibraryRoot} :
                       /\ ~\E e \in DOMAIN tree \ {a} : Discovery!Canonical(e) = Discovery!Canonical(a)
                       /\ Discovery!Resolved(a) = a /\ ~Discovery!IsExtras(a)
                       /\ ~(tree[a].extras /\ Discovery!IsSeasonFolder(tree[a].parent)),
                    \A p \in candidates : Discovery!Resolved(Discovery!Last(p)) \notin Discovery!Above(n)
             PROVE  FALSE
  BY DEF Discovery!EpisodesReached, Discovery!Folders
<1> DEFINE up == Discovery!Above(n)
           T  == {a \in up \ {LibraryRoot} : Discovery!Canonical(a) \notin visited}
<1>1. WalkTyped
  BY DEF DiscoveryInv
<1>2. /\ n \in up /\ up \subseteq DOMAIN tree /\ LibraryRoot \in up
      /\ \A d \in up \ {LibraryRoot} : tree[d].parent \in up
  BY <1>1, AboveTells
<1>3. \A a \in up \ {LibraryRoot} : Coming(a) => Discovery!Canonical(a) \in visited
  BY DEF Coming
<1>4. \A a \in up \ {LibraryRoot}, m \in DOMAIN tree :
         Discovery!Canonical(m) = Discovery!Canonical(a) => m = a
  OBVIOUS
<1>5. ASSUME NEW a \in up \ {LibraryRoot}, Discovery!Canonical(a) \in visited
      PROVE  /\ Discovery!Role(a) # "root"
             /\ Discovery!Role(a) = "container" => \A c \in Discovery!Descent(a) : Coming(c)
  <2>1. PICK m \in DOMAIN tree :
          /\ Discovery!Canonical(m) = Discovery!Canonical(a)
          /\ Discovery!Role(m) = "root" =>
                \E p \in candidates : Discovery!Canonical(Discovery!Last(p)) = Discovery!Canonical(a)
          /\ Discovery!Role(m) = "container" => \A c \in Discovery!Descent(m) : Coming(c)
    BY <1>5 DEF DiscoveryInv, FoldersFollow
  <2>2. m = a
    BY <1>4, <2>1
  <2>3. ASSUME NEW p \in candidates, Discovery!Canonical(Discovery!Last(p)) = Discovery!Canonical(a) PROVE FALSE
    <3>1. Discovery!Last(p) \in DOMAIN tree
      BY <1>1 DEF WalkTyped, Discovery!Last
    <3>2. Discovery!Last(p) = a
      BY <1>4, <2>3, <3>1
    <3> QED
      BY <3>2
  <2> QED
    BY <2>1, <2>2, <2>3
<1>6. ASSUME NEW a \in T PROVE tree[a].parent \in T
  <2> DEFINE d == tree[a].parent
  <2>1. a \in up \ {LibraryRoot} /\ a \in DOMAIN tree /\ d \in up /\ d \in DOMAIN tree
    BY <1>2, <1>6
  <2>2. ~Coming(a)
    BY <1>3, <1>6
  <2>3. d # LibraryRoot
    <3>1. <<LibraryRoot>> \notin candidates
      <4>1. Discovery!Resolved(Discovery!Last(<<LibraryRoot>>)) = LibraryRoot
        BY <1>1, TreesTell DEF Discovery!Last
      <4> QED
        BY <1>2, <4>1
    <3>2. \A c \in Discovery!SubfoldersOf(LibraryRoot) : Coming(c)
      BY <1>2, <3>1 DEF DiscoveryInv, FoldersFollow
    <3>3. d = LibraryRoot => a \in Discovery!SubfoldersOf(LibraryRoot)
      BY <1>1, <2>1, TreesTell DEF Discovery!SubfoldersOf, Discovery!Folders
    <3> QED
      BY <2>2, <3>2, <3>3
  <2>4. Discovery!Canonical(d) \notin visited
    <3> SUFFICES ASSUME Discovery!Canonical(d) \in visited PROVE FALSE
      OBVIOUS
    <3>1. a \in Discovery!Inner(d)
      BY <2>1, <2>3 DEF Discovery!Inner, Discovery!SubfoldersOf, Discovery!Folders
    <3>2. ~Discovery!IsSeasonFolder(d)
      BY <2>1, <3>1 DEF Discovery!IsSeasonFolder
    <3>3. Discovery!Role(d) # "root"
      BY <1>5, <2>1, <2>3
    <3>4. ~Discovery!Ignored(d) /\ ~Discovery!IsExtras(d)
      BY <2>1, <2>3
    <3>5. Discovery!Role(d) = "container" /\ a \in Discovery!Descent(d)
      BY <1>1, <2>1, <3>1, <3>2, <3>3, <3>4, ContainersOpen
    <3> QED
      BY <1>5, <2>1, <2>2, <2>3, <3>5
  <2> QED
    BY <2>1, <2>3, <2>4
<1>7. T = {}
  <2>1. T \subseteq DOMAIN tree /\ LibraryRoot \notin T
    BY <1>2
  <2>2. \A S \in SUBSET DOMAIN tree :
           S # {} /\ (\A d \in S \ {LibraryRoot} : tree[d].parent \in S) => LibraryRoot \in S
    BY <1>1, TreesAssumption DEF WalkTyped
  <2> HIDE DEF T
  <2> QED
    BY <1>6, <2>1, <2>2
<1>8. n # LibraryRoot => Discovery!Canonical(n) \in visited
  BY <1>2, <1>7
<1>9. Discovery!EpisodeCount(n) \in Nat
  BY <1>1, EpisodesCounted
<1>10. ~Discovery!IsSeasonFolder(n) /\ Discovery!IsShowRoot(n)
  BY <1>9 DEF Discovery!IsSeasonFolder, Discovery!IsShowRoot
<1>11. Discovery!Role(n) = "root"
  BY <1>2, <1>10 DEF Discovery!Role, Discovery!ShowRole
<1> QED
  BY <1>2, <1>5, <1>8, <1>11

LEMMA DiscoveryInSuite == SuiteSpec => [](part = "discovery" => DiscoveryInv)
<1>1. SuiteInit => (part = "discovery" => DiscoveryInv)
  BY DiscoveryStart DEF SuiteInit
<1>2. (part = "discovery" => DiscoveryInv) /\ [SuiteNext]_suiteVars => (part = "discovery" => DiscoveryInv)'
  <2>1. Discovery!DiscoveryNext /\ DiscoveryInv => DiscoveryInv'
    BY WalkStep DEF Discovery!DiscoveryNext
  <2> QED
    BY <2>1, WalkStays DEF SuiteNext, suiteVars
<1> QED
  BY <1>1, <1>2, PTL DEF SuiteSpec

\* Links and odd names do not make the walk find a root twice, or miss a folder
\* with episodes, in any finite tree of folders and links
\* (tv_library_discovery_service.py).
THEOREM RootsAlwaysFound == SuiteSpec => []RootsFound
<1>1. (part = "discovery" => DiscoveryInv) => RootsFound
  BY WalkTypeTold, RootsTold, EpisodesTold DEF RootsFound
<1> QED
  BY <1>1, DiscoveryInSuite, PTL
=============================================================================
