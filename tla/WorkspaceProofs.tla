---------------------------- MODULE WorkspaceProofs ----------------------------
(***************************************************************************)
(* Theorems about what the user works with.                                *)
(***************************************************************************)
EXTENDS MCWorkspace, FiniteSetTheorems, SequenceTheorems, TLAPS

(***************************************************************************)
(* What the window tells of a run, for any number of jobs.                 *)
(***************************************************************************)
Notes == [kind : {"started", "completed", "failed", "finished"},
          job : RunJobs \cup {NobodyRuns}]
Windows == [started : BOOLEAN, background : BOOLEAN, completed : SUBSET RunJobs,
            pending : SUBSET RunJobs, timer : BOOLEAN, direct : Nat,
            progress : BOOLEAN, collapsed : BOOLEAN, busy : BOOLEAN]

FeedbackTypes ==
    /\ waiting \in SUBSET RunJobs /\ running \in BOOLEAN /\ stop \in BOOLEAN
    /\ worker \in RunJobs \cup {"none", "loop"} /\ ending \in Nat
    /\ single \in RunJobs \cup {NobodyRuns}
    /\ posted \in Seq(Notes) /\ window \in Windows
    /\ told \in [RunJobs -> {"not completed", "untold", "told"}]
    /\ running <=> worker # "none"

\* A job waits, is with the worker or is with the GUI thread; until it ends there
\* is nothing to tell.
OneThreadPerJob ==
    /\ worker \notin waiting /\ single \notin waiting
    /\ worker \in RunJobs => worker # single
    /\ \A j \in waiting \cup ({worker, single} \cap RunJobs) : told[j] = "not completed"

\* The counters will tell of the job when the run they count is closed.
Summed(j) == window.started /\ j \in window.completed

\* A success nobody was told of is on its way in one notification or counted in
\* the open run, never both and never lost between them.
SuccessesInOnePlace ==
    /\ \A i \in 1 .. Len(posted) : posted[i].kind = "completed" =>
          /\ posted[i].job \in RunJobs /\ told[posted[i].job] = "untold"
          /\ ~Summed(posted[i].job)
    /\ \A i, k \in 1 .. Len(posted) :
          posted[i].kind = "completed" /\ posted[k].kind = "completed"
             /\ posted[i].job = posted[k].job => i = k
    /\ \A j \in RunJobs : told[j] = "untold" =>
          Summed(j) \/ \E i \in 1 .. Len(posted) :
                          posted[i].kind = "completed" /\ posted[i].job = j
    /\ window.started => /\ window.pending = window.completed
                         /\ \A j \in window.completed : told[j] = "untold"

\* The end of a run of the queue is still to come: announced behind the i-th
\* notification, or not announced yet.
EndFollows(i) ==
    \/ worker # "none" \/ ending > 0
    \/ \E k \in 1 .. Len(posted) : k > i /\ posted[k].kind = "finished"

\* Whatever a job of the queue sets going in the window has an end behind it that
\* undoes it; what a single run leaves open has the timer.
EndsFollow ==
    /\ \A i \in 1 .. Len(posted) : posted[i].kind # "finished" => EndFollows(i)
    /\ window.started /\ window.background => EndFollows(0)
    /\ window.progress => window.started /\ window.background
    /\ single = NobodyRuns => /\ window.started => window.timer \/ EndFollows(0)
                              /\ window.busy => EndFollows(0)

FeedbackInv == FeedbackTypes /\ OneThreadPerJob /\ SuccessesInOnePlace /\ EndsFollow

LEMMA FeedbackStarts == Feedback!FeedbackInit => FeedbackInv
<1> SUFFICES ASSUME Feedback!FeedbackInit PROVE FeedbackInv
  OBVIOUS
<1>0. /\ waiting = RunJobs /\ running = FALSE /\ stop = FALSE /\ worker = "none" /\ ending = 0
      /\ single = NobodyRuns /\ posted = <<>> /\ window = Feedback!Quiet
      /\ told = [j \in RunJobs |-> "not completed"]
  BY DEF Feedback!FeedbackInit
<1>1. window \in Windows /\ ~window.started /\ ~window.progress /\ ~window.busy
  BY <1>0 DEF Feedback!Quiet, Windows
<1>2. FeedbackTypes
  <2>1. posted \in Seq(Notes)
    BY <1>0, EmptySeq
  <2>2. running \in BOOLEAN /\ stop \in BOOLEAN /\ (running <=> worker # "none")
    BY <1>0
  <2> QED
    BY <1>0, <1>1, <2>1, <2>2 DEF FeedbackTypes
<1>3. OneThreadPerJob
  BY <1>0, WorkspaceAssumption DEF OneThreadPerJob
<1>3a. Len(posted) = 0
  BY <1>0
<1>4. SuccessesInOnePlace
  <2>1. \A j \in RunJobs : told[j] # "untold"
    BY <1>0
  <2>2. 1 .. Len(posted) = {}
    BY <1>3a
  <2> QED
    BY <1>1, <2>1, <2>2 DEF SuccessesInOnePlace, Summed
<1>5. EndsFollow
  BY <1>1, <1>3a DEF EndsFollow
<1> QED
  BY <1>2, <1>3, <1>4, <1>5 DEF FeedbackInv

(* The handlers, on any window. *)

LEMMA ToastOnly ==
    ASSUME NEW w \in Windows
    PROVE  LET v == Feedback!Toast(w)
           IN  /\ v \in Windows /\ v.started = w.started /\ v.background = w.background
               /\ v.completed = w.completed /\ v.pending = w.pending /\ v.timer = w.timer
               /\ v.progress = w.progress /\ v.busy = w.busy
<1> DEFINE a == [w EXCEPT !.collapsed = TRUE]  b == [w EXCEPT !.direct = @ + 1]
           Kept(v) == /\ v \in Windows /\ v.started = w.started /\ v.background = w.background
                      /\ v.completed = w.completed /\ v.pending = w.pending /\ v.timer = w.timer
                      /\ v.progress = w.progress /\ v.busy = w.busy
<1>1. Kept(a)
  BY DEF Windows
<1>2. Kept(b)
  BY DEF Windows
<1>3. Feedback!Toast(w) = a \/ Feedback!Toast(w) = b
  BY DEF Feedback!Toast
<1> HIDE DEF a, b, Kept
<1>4. Kept(Feedback!Toast(w))
  BY <1>1, <1>2, <1>3
<1> QED
  BY <1>4 DEF Kept

LEMMA StartedHandled ==
    ASSUME NEW w \in Windows, NEW n, n.kind = "started", running \in BOOLEAN
    PROVE  LET v == Feedback!Handled(w, n).window
           IN  /\ Feedback!Handled(w, n).tells = {}
               /\ v \in Windows /\ v.started
               /\ w.started => /\ v.background = w.background /\ v.completed = w.completed
                               /\ v.pending = w.pending /\ v.timer = w.timer
               /\ ~w.started => v.background = running /\ v.completed = {} /\ v.pending = {}
               /\ v.progress => w.progress \/ v.background
<1>1. Feedback!Handled(w, n) =
        [window |-> [Feedback!OnJobStarted(w) EXCEPT !.busy = TRUE], tells |-> {}]
  BY DEF Feedback!Handled
<1> DEFINE counted == IF w.started THEN w
                      ELSE [w EXCEPT !.started = TRUE, !.background = running,
                                     !.completed = {}, !.pending = {}, !.timer = FALSE]
           new == Feedback!OnJobStarted(w)
<1>2. /\ counted \in Windows /\ counted.started /\ counted.progress = w.progress
      /\ w.started => counted = w
      /\ ~w.started => /\ counted.background = running
                       /\ counted.completed = {} /\ counted.pending = {}
  <2>1. CASE w.started
    BY <2>1
  <2>2. CASE ~w.started
    BY <2>2 DEF Windows
  <2> QED
    BY <2>1, <2>2
<1>3. new = IF counted.background THEN [counted EXCEPT !.progress = TRUE] ELSE counted
  <2>1. CASE w.started
    BY <2>1 DEF Feedback!OnJobStarted, Feedback!ProgressToast
  <2>2. CASE ~w.started
    <3>1. [Feedback!RunForgotten(w) EXCEPT !.started = TRUE, !.background = running,
                                          !.timer = FALSE] = counted
      BY <2>2 DEF Feedback!RunForgotten, Windows
    <3> QED
      BY <2>2, <3>1 DEF Feedback!OnJobStarted, Feedback!ProgressToast
  <2> QED
    BY <2>1, <2>2
<1> HIDE DEF counted
<1>4. /\ new \in Windows /\ new.started /\ new.background = counted.background
      /\ new.completed = counted.completed /\ new.pending = counted.pending
      /\ new.timer = counted.timer
      /\ new.progress => counted.progress \/ counted.background
  <2>1. CASE counted.background
    BY <1>2, <1>3, <2>1 DEF Windows
  <2>2. CASE ~counted.background
    BY <1>2, <1>3, <2>2
  <2> QED
    BY <2>1, <2>2
<1> HIDE DEF new
<1> DEFINE v == [new EXCEPT !.busy = TRUE]
<1>5. /\ v \in Windows /\ v.started = new.started /\ v.background = new.background
      /\ v.completed = new.completed /\ v.pending = new.pending
      /\ v.timer = new.timer /\ v.progress = new.progress
  BY <1>4 DEF Windows
<1> HIDE DEF v
<1>6. Feedback!Handled(w, n) = [window |-> v, tells |-> {}]
  BY <1>1 DEF v, new
<1>7. Feedback!Handled(w, n).window = v /\ Feedback!Handled(w, n).tells = {}
  BY <1>6
<1>8. CASE w.started
  BY <1>2, <1>4, <1>5, <1>7, <1>8
<1>9. CASE ~w.started
  BY <1>2, <1>4, <1>5, <1>7, <1>9
<1> QED
  BY <1>8, <1>9

LEMMA Released ==
    ASSUME NEW w \in Windows, running \in BOOLEAN
    PROVE  LET v == Feedback!ReleaseIfIdle(w)
           IN  /\ v \in Windows /\ v.started = w.started /\ v.background = w.background
               /\ v.completed = w.completed /\ v.pending = w.pending /\ v.timer = w.timer
               /\ v.progress = w.progress
               /\ v.busy => w.busy /\ running
BY DEF Feedback!ReleaseIfIdle, Windows

LEMMA CompletedHandled ==
    ASSUME NEW w \in Windows, NEW n, n.kind = "completed", n.job \in RunJobs, running \in BOOLEAN
    PROVE  LET v == Feedback!Handled(w, n).window
           IN  /\ Feedback!Handled(w, n).tells = IF w.started THEN {} ELSE {n.job}
               /\ v \in Windows /\ v.started = w.started /\ v.background = w.background
               /\ v.completed = w.completed \cup {n.job}
               /\ w.started => /\ v.pending = w.pending \cup {n.job}
                               /\ w.timer \/ ~w.background => v.timer
               /\ v.progress => w.progress \/ (w.started /\ w.background)
               /\ v.busy => w.busy /\ running
<1> DEFINE done == Feedback!OnJobCompleted(w, n.job)
<1>1. Feedback!Handled(w, n) = [done EXCEPT !.window = Feedback!ReleaseIfIdle(@)]
  BY DEF Feedback!Handled
<1> DEFINE counted == [w EXCEPT !.completed = @ \cup {n.job}]
           batched == [counted EXCEPT !.pending = @ \cup {n.job}]
<1>2. counted \in Windows /\ batched \in Windows
  BY DEF Windows
<1>3. CASE ~w.started
  <2> DEFINE y1 == Feedback!Toast(counted)
  <2>1. /\ y1 \in Windows /\ y1.started = counted.started /\ y1.background = counted.background
        /\ y1.completed = counted.completed /\ y1.progress = counted.progress
        /\ y1.busy = counted.busy
    BY <1>2, ToastOnly
  <2>2. /\ counted.started = w.started /\ counted.background = w.background
        /\ counted.completed = w.completed \cup {n.job} /\ counted.progress = w.progress
        /\ counted.busy = w.busy
    BY DEF Windows
  <2>3. done = [window |-> y1, tells |-> {n.job}]
    BY <1>3 DEF Feedback!OnJobCompleted
  <2> HIDE DEF y1, counted, done
  <2>4. Feedback!Handled(w, n) = [window |-> Feedback!ReleaseIfIdle(y1), tells |-> {n.job}]
    BY <1>1, <2>3
  <2> QED
    BY <1>3, <2>1, <2>2, <2>4, Released
<1>4. CASE w.started
  <2> DEFINE y1 == IF w.background THEN [batched EXCEPT !.progress = TRUE]
                   ELSE [batched EXCEPT !.timer = TRUE]
  <2>1. /\ y1 \in Windows /\ y1.started = w.started /\ y1.background = w.background
        /\ y1.completed = w.completed \cup {n.job} /\ y1.pending = w.pending \cup {n.job}
        /\ y1.busy = w.busy
        /\ w.timer \/ ~w.background => y1.timer
        /\ y1.progress => w.progress \/ w.background
    <3>1. CASE w.background
      BY <3>1 DEF Windows
    <3>2. CASE ~w.background
      BY <3>2 DEF Windows
    <3> QED
      BY <3>1, <3>2
  <2>2. done = [window |-> y1, tells |-> {}]
    BY <1>4 DEF Feedback!OnJobCompleted, Feedback!ProgressToast
  <2> HIDE DEF y1, done
  <2>3. Feedback!Handled(w, n) = [window |-> Feedback!ReleaseIfIdle(y1), tells |-> {}]
    BY <1>1, <2>2
  <2>4. /\ Feedback!Handled(w, n).window = Feedback!ReleaseIfIdle(y1)
        /\ Feedback!Handled(w, n).tells = {}
    BY <2>3
  <2> DEFINE v == Feedback!ReleaseIfIdle(y1)
  <2>5. /\ v \in Windows /\ v.started = y1.started /\ v.background = y1.background
        /\ v.completed = y1.completed /\ v.pending = y1.pending /\ v.timer = y1.timer
        /\ v.progress = y1.progress
        /\ v.busy => y1.busy /\ running
    BY <2>1, Released
  <2> HIDE DEF v
  <2> QED
    BY <1>4, <2>1, <2>4, <2>5 DEF v
<1> QED
  BY <1>3, <1>4 DEF Windows

LEMMA FailedHandled ==
    ASSUME NEW w \in Windows, NEW n, n.kind = "failed", running \in BOOLEAN
    PROVE  LET v == Feedback!Handled(w, n).window
           IN  /\ Feedback!Handled(w, n).tells = {}
               /\ v \in Windows /\ v.started = w.started /\ v.background = w.background
               /\ v.completed = w.completed /\ v.pending = w.pending
               /\ w.timer \/ (w.started /\ ~w.background) => v.timer
               /\ v.progress => w.progress \/ (w.started /\ w.background)
               /\ v.busy => w.busy /\ running
<1> DEFINE x1 == IF ~w.started THEN w
                ELSE IF w.background THEN [w EXCEPT !.progress = TRUE]
                ELSE [w EXCEPT !.timer = TRUE]
<1>1. Feedback!Handled(w, n) =
        [window |-> Feedback!ReleaseIfIdle(Feedback!Toast(x1)), tells |-> {}]
  BY DEF Feedback!Handled, Feedback!OnJobFailed, Feedback!ProgressToast
<1>2. /\ x1 \in Windows /\ x1.started = w.started /\ x1.background = w.background
      /\ x1.completed = w.completed /\ x1.pending = w.pending /\ x1.busy = w.busy
      /\ w.timer \/ (w.started /\ ~w.background) => x1.timer
      /\ x1.progress => w.progress \/ (w.started /\ w.background)
  BY DEF Windows
<1> HIDE DEF x1
<1> DEFINE y1 == Feedback!Toast(x1)
<1>3. /\ y1 \in Windows /\ y1.started = x1.started /\ y1.background = x1.background
      /\ y1.completed = x1.completed /\ y1.pending = x1.pending /\ y1.timer = x1.timer
      /\ y1.progress = x1.progress /\ y1.busy = x1.busy
  BY <1>2, ToastOnly
<1> HIDE DEF y1
<1>4. Feedback!Handled(w, n) = [window |-> Feedback!ReleaseIfIdle(y1), tells |-> {}]
  BY <1>1 DEF y1
<1> QED
  BY <1>2, <1>3, <1>4, Released

LEMMA FinishedHandled ==
    ASSUME NEW w \in Windows, w.progress => w.started /\ w.background,
           NEW n, n.kind = "finished"
    PROVE  LET v == Feedback!Handled(w, n).window
           IN  /\ Feedback!Handled(w, n).tells = IF w.started THEN w.completed ELSE {}
               /\ v \in Windows /\ ~v.started /\ ~v.progress /\ ~v.busy
<1>1. Feedback!Handled(w, n) = [Feedback!OnQueueFinished(w) EXCEPT !.window.busy = FALSE]
  BY DEF Feedback!Handled
<1> DEFINE x1 == [w EXCEPT !.timer = FALSE, !.progress = @ /\ ~w.background]
<1>2. x1 \in Windows /\ (w.started => ~x1.progress)
  BY DEF Windows
<1>3. CASE ~w.started
  <2> DEFINE v == [w EXCEPT !.busy = FALSE]
  <2>1. v \in Windows /\ v.started = w.started /\ v.progress = w.progress /\ ~v.busy
    BY DEF Windows
  <2>2. Feedback!Handled(w, n) = [window |-> v, tells |-> {}]
    BY <1>1, <1>3 DEF Feedback!OnQueueFinished
  <2> HIDE DEF v
  <2> QED
    BY <1>3, <2>1, <2>2
<1>4. CASE w.started
  <2> HIDE DEF x1
  <2> DEFINE y1 == Feedback!Toast(x1)
  <2>1. y1 \in Windows /\ ~y1.progress
    BY <1>2, <1>4, ToastOnly
  <2>2. Feedback!OnQueueFinished(w) =
          [window |-> Feedback!RunForgotten(y1), tells |-> w.completed]
    BY <1>4 DEF Feedback!OnQueueFinished, x1
  <2> HIDE DEF y1
  <2> DEFINE v == [Feedback!RunForgotten(y1) EXCEPT !.busy = FALSE]
  <2>3. v \in Windows /\ ~v.started /\ ~v.progress /\ ~v.busy
    BY <2>1 DEF Feedback!RunForgotten, Windows
  <2>4. Feedback!Handled(w, n).window = v /\ Feedback!Handled(w, n).tells = w.completed
    <3> DEFINE z == Feedback!RunForgotten(y1)
    <3>1. Feedback!Handled(w, n) =
            [[window |-> z, tells |-> w.completed] EXCEPT !.window.busy = FALSE]
      BY <1>1, <2>2
    <3> HIDE DEF z
    <3>2. Feedback!Handled(w, n).window = [z EXCEPT !.busy = FALSE]
      BY <3>1
    <3>3. Feedback!Handled(w, n).tells = w.completed
      BY <3>1
    <3> QED
      BY <3>2, <3>3 DEF z
  <2> HIDE DEF v
  <2> QED
    BY <1>4, <2>3, <2>4
<1> QED
  BY <1>3, <1>4 DEF Windows

LEMMA BatchFlushed ==
    ASSUME NEW w \in Windows
    PROVE  LET v == Feedback!FlushSuccessToastBatch(w).window
               tells == Feedback!FlushSuccessToastBatch(w).tells
           IN  /\ v \in Windows /\ v.progress = w.progress /\ v.busy = w.busy
               /\ IF w.started /\ ~w.background
                  THEN ~v.started /\ tells = w.pending
                  ELSE /\ tells = {} /\ v.started = w.started /\ v.background = w.background
                       /\ v.completed = w.completed /\ v.pending = w.pending
<1> DEFINE rung == [w EXCEPT !.timer = FALSE]
<1>1. /\ rung \in Windows /\ rung.started = w.started /\ rung.background = w.background
      /\ rung.completed = w.completed /\ rung.pending = w.pending
      /\ rung.progress = w.progress /\ rung.busy = w.busy
  BY DEF Windows
<1>2. Feedback!FlushSuccessToastBatch(w) =
        IF ~w.started \/ w.background THEN [window |-> rung, tells |-> {}]
        ELSE IF w.pending = {} THEN [window |-> Feedback!RunForgotten(rung), tells |-> {}]
        ELSE [window |-> Feedback!RunForgotten(Feedback!Toast(rung)), tells |-> w.pending]
  BY DEF Feedback!FlushSuccessToastBatch
<1> HIDE DEF rung
<1>3. CASE ~w.started \/ w.background
  BY <1>1, <1>2, <1>3
<1>4. ASSUME NEW u \in Windows
      PROVE  LET v == Feedback!RunForgotten(u)
             IN  v \in Windows /\ v.progress = u.progress /\ v.busy = u.busy /\ ~v.started
  BY DEF Feedback!RunForgotten, Windows
<1>5. CASE w.started /\ ~w.background
  <2>1. CASE w.pending = {}
    BY <1>1, <1>2, <1>4, <1>5, <2>1
  <2>2. CASE w.pending # {}
    <3> DEFINE y1 == Feedback!Toast(rung)
    <3>1. y1 \in Windows /\ y1.progress = w.progress /\ y1.busy = w.busy
      BY <1>1, ToastOnly
    <3>2. Feedback!FlushSuccessToastBatch(w) =
            [window |-> Feedback!RunForgotten(y1), tells |-> w.pending]
      BY <1>2, <1>5, <2>2
    <3> HIDE DEF y1
    <3> QED
      BY <1>4, <1>5, <3>1, <3>2
  <2> QED
    BY <2>1, <2>2
<1> QED
  BY <1>3, <1>5 DEF Windows

(* Notifications on their way. *)

LEMMA Counts ==
    ASSUME FeedbackInv
    PROVE  ending \in Nat /\ posted \in Seq(Notes) /\ Len(posted) \in Nat
<1>1. ending \in Nat /\ posted \in Seq(Notes)
  BY Zenon DEF FeedbackInv, FeedbackTypes
<1> QED
  BY <1>1

LEMMA Posted ==
    ASSUME FeedbackInv, NEW kind \in {"started", "completed", "failed", "finished"},
           NEW j \in RunJobs \cup {NobodyRuns}, Feedback!Post(Feedback!Note(kind, j))
    PROVE  /\ posted' \in Seq(Notes) /\ Len(posted) \in Nat /\ Len(posted') = Len(posted) + 1
           /\ \A i \in 1 .. Len(posted) : posted'[i] = posted[i]
           /\ posted'[Len(posted) + 1].kind = kind /\ posted'[Len(posted) + 1].job = j
<1>1. [kind |-> kind, job |-> j] \in Notes /\ posted \in Seq(Notes)
  BY DEF Notes, FeedbackInv, FeedbackTypes
<1>2. posted' = Append(posted, [kind |-> kind, job |-> j])
  BY DEF Feedback!Post, Feedback!Note
<1> QED
  BY <1>1, <1>2, AppendProperties

LEMMA Delivered ==
    ASSUME FeedbackInv, posted # <<>>, posted' = Tail(posted),
           UNCHANGED <<worker, ending>>
    PROVE  /\ posted' \in Seq(Notes) /\ Len(posted) \in Nat /\ Len(posted) = Len(posted') + 1
           /\ Len(posted') \in Nat
           /\ posted[1] \in Notes /\ Head(posted) = posted[1]
           /\ \A i \in 1 .. Len(posted') : posted'[i] = posted[i + 1]
           /\ \A i \in 0 .. Len(posted') : EndFollows(i + 1) => EndFollows(i)'
<1>1. /\ posted' \in Seq(Notes) /\ Len(posted) \in Nat /\ Len(posted) = Len(posted') + 1
      /\ Len(posted') \in Nat
      /\ posted[1] \in Notes /\ Head(posted) = posted[1]
      /\ \A i \in 1 .. Len(posted') : posted'[i] = posted[i + 1]
  <2>1. posted \in Seq(Notes)
    BY DEF FeedbackInv, FeedbackTypes
  <2>2. /\ posted' \in Seq(Notes) /\ Len(posted') = Len(posted) - 1 /\ Head(posted) \in Notes
        /\ \A i \in 1 .. Len(posted') : posted'[i] = posted[i + 1]
    BY <2>1, HeadTailProperties
  <2>3. Len(posted) \in Nat /\ Len(posted) > 0 /\ Head(posted) = posted[1]
    BY <2>1, EmptySeq
  <2> QED
    BY <2>2, <2>3
<1>2. ASSUME NEW i \in 0 .. Len(posted'), EndFollows(i + 1) PROVE EndFollows(i)'
  <2>1. CASE worker # "none" \/ ending > 0
    BY <2>1 DEF EndFollows
  <2>2. CASE \E k \in 1 .. Len(posted) : k > i + 1 /\ posted[k].kind = "finished"
    <3>1. PICK k \in 1 .. Len(posted) : k > i + 1 /\ posted[k].kind = "finished"
      BY <2>2
    <3>2. k - 1 \in 1 .. Len(posted') /\ k - 1 > i /\ posted'[k - 1].kind = "finished"
      BY <1>1, <3>1
    <3> QED
      BY <3>2 DEF EndFollows
  <2> QED
    BY <1>2, <2>1, <2>2 DEF EndFollows
<1> QED
  BY <1>1, <1>2

(* The worker of the queue. *)

LEMMA TakeJobKeeps ==
    ASSUME FeedbackInv, NEW j \in RunJobs, Feedback!TakeJob(j)
    PROVE  FeedbackInv'
<1>1. PICK kind \in {"started", "failed"} :
         /\ Feedback!Post(Feedback!Note(kind, j))
         /\ worker' = IF kind = "started" THEN j ELSE worker
  BY DEF Feedback!TakeJob
<1>2. /\ worker = "loop" /\ j \in waiting /\ waiting' = waiting \ {j}
      /\ UNCHANGED <<running, stop, ending, single, window, told>>
  BY DEF Feedback!TakeJob
<1>3. /\ posted' \in Seq(Notes) /\ Len(posted) \in Nat /\ Len(posted') = Len(posted) + 1
      /\ \A i \in 1 .. Len(posted) : posted'[i] = posted[i]
      /\ posted'[Len(posted) + 1].kind = kind /\ posted'[Len(posted) + 1].job = j
  BY <1>1, Posted
<1>4. worker' # "none"
  BY <1>1, <1>2, WorkspaceAssumption
<1>5. FeedbackTypes'
  BY <1>1, <1>2, <1>3, <1>4, WorkspaceAssumption DEF FeedbackInv, FeedbackTypes
<1>6. OneThreadPerJob'
  BY <1>1, <1>2, WorkspaceAssumption DEF FeedbackInv, FeedbackTypes, OneThreadPerJob
<1>7. SuccessesInOnePlace'
  BY <1>1, <1>2, <1>3 DEF FeedbackInv, SuccessesInOnePlace, Summed
<1>8. EndsFollow'
  BY <1>2, <1>4 DEF FeedbackInv, EndsFollow, EndFollows
<1> QED
  BY <1>5, <1>6, <1>7, <1>8 DEF FeedbackInv

LEMMA EndJobKeeps ==
    ASSUME FeedbackInv, Feedback!EndJob
    PROVE  FeedbackInv'
<1>1. PICK kind \in {"completed", "failed"} :
         /\ Feedback!Post(Feedback!Note(kind, worker))
         /\ told' = IF kind = "completed" THEN [told EXCEPT ![worker] = "untold"] ELSE told
  BY DEF Feedback!EndJob
<1>2. /\ worker \in RunJobs /\ worker' = "loop"
      /\ UNCHANGED <<waiting, running, stop, ending, single, window>>
  BY DEF Feedback!EndJob
<1>3. /\ posted' \in Seq(Notes) /\ Len(posted) \in Nat /\ Len(posted') = Len(posted) + 1
      /\ \A i \in 1 .. Len(posted) : posted'[i] = posted[i]
      /\ posted'[Len(posted) + 1].kind = kind /\ posted'[Len(posted) + 1].job = worker
  BY <1>1, <1>2, Posted
<1>4. told[worker] = "not completed"
  BY <1>2 DEF FeedbackInv, OneThreadPerJob
<1>5. FeedbackTypes'
  BY <1>1, <1>2, <1>3, WorkspaceAssumption DEF FeedbackInv, FeedbackTypes
<1>6. OneThreadPerJob'
  BY <1>1, <1>2, WorkspaceAssumption DEF FeedbackInv, FeedbackTypes, OneThreadPerJob
<1>7. /\ \A i \in 1 .. Len(posted) : posted[i].kind = "completed" => posted[i].job # worker
      /\ ~Summed(worker)
  BY <1>4 DEF FeedbackInv, SuccessesInOnePlace, Summed
<1>8. SuccessesInOnePlace'
  <2>1. CASE kind = "failed"
    BY <1>1, <1>2, <1>3, <2>1 DEF FeedbackInv, SuccessesInOnePlace, Summed
  <2>2. CASE kind = "completed"
    <3>1. /\ told'[worker] = "untold" /\ \A j \in RunJobs : j # worker => told'[j] = told[j]
      BY <1>1, <1>2, <2>2 DEF FeedbackInv, FeedbackTypes
    <3>2. \A i \in 1 .. Len(posted') : posted'[i].kind = "completed" =>
             /\ posted'[i].job \in RunJobs /\ told'[posted'[i].job] = "untold"
             /\ ~Summed(posted'[i].job)
      BY <1>2, <1>3, <1>7, <3>1 DEF FeedbackInv, SuccessesInOnePlace
    <3>3. \A i, k \in 1 .. Len(posted') :
             posted'[i].kind = "completed" /\ posted'[k].kind = "completed"
                /\ posted'[i].job = posted'[k].job => i = k
      BY <1>3, <1>7 DEF FeedbackInv, SuccessesInOnePlace
    <3>4. \A j \in RunJobs : told'[j] = "untold" =>
             Summed(j) \/ \E i \in 1 .. Len(posted') :
                             posted'[i].kind = "completed" /\ posted'[i].job = j
      BY <1>3, <2>2, <3>1 DEF FeedbackInv, SuccessesInOnePlace
    <3>5. window.started => /\ window.pending = window.completed
                            /\ \A j \in window.completed : told'[j] = "untold"
      <4>1. window.started => /\ window.pending = window.completed
                              /\ \A j \in window.completed : told[j] = "untold"
        BY DEF FeedbackInv, SuccessesInOnePlace
      <4>2. window.completed \subseteq RunJobs
        BY DEF FeedbackInv, FeedbackTypes, Windows
      <4>3. window.started => worker \notin window.completed
        BY <1>7 DEF Summed
      <4> QED
        BY <3>1, <4>1, <4>2, <4>3
    <3> QED
      BY <1>2, <3>2, <3>3, <3>4, <3>5 DEF SuccessesInOnePlace, Summed
  <2> QED
    BY <2>1, <2>2
<1>9. EndsFollow'
  BY <1>2 DEF FeedbackInv, EndsFollow, EndFollows
<1> QED
  BY <1>5, <1>6, <1>8, <1>9 DEF FeedbackInv

LEMMA EndRunKeeps ==
    ASSUME FeedbackInv, Feedback!EndRun
    PROVE  FeedbackInv'
<1>1. /\ worker = "loop" /\ running' = FALSE /\ worker' = "none" /\ ending' = ending + 1
      /\ UNCHANGED <<waiting, stop, single, posted, window, told>>
  BY DEF Feedback!EndRun
<1>2. FeedbackTypes' /\ OneThreadPerJob'
  <2>1. ending' \in Nat
    BY <1>1, Counts
  <2>2. running' \in BOOLEAN /\ (running' <=> worker' # "none")
    BY <1>1
  <2>3. FeedbackTypes'
    BY <1>1, <2>1, <2>2 DEF FeedbackInv, FeedbackTypes
  <2>4. OneThreadPerJob'
    BY <1>1, WorkspaceAssumption DEF FeedbackInv, FeedbackTypes, OneThreadPerJob
  <2> QED
    BY <2>3, <2>4
<1>2a. SuccessesInOnePlace'
  BY <1>1 DEF FeedbackInv, SuccessesInOnePlace, Summed
<1>2b. ending' > 0 /\ \A i \in 0 .. Len(posted) : EndFollows(i)'
  BY <1>1, Counts DEF EndFollows
<1>2c. Len(posted) \in Nat
  BY Counts
<1>3. EndsFollow'
  BY <1>1, <1>2b, <1>2c DEF FeedbackInv, EndsFollow
<1> QED
  BY <1>2, <1>2a, <1>3 DEF FeedbackInv

LEMMA SayFinishedKeeps ==
    ASSUME FeedbackInv, Feedback!SayFinished
    PROVE  FeedbackInv'
<1>1. /\ ending > 0 /\ ending' = ending - 1
      /\ Feedback!Post(Feedback!Note("finished", NobodyRuns))
      /\ UNCHANGED <<waiting, running, stop, worker, single, window, told>>
  BY DEF Feedback!SayFinished
<1>2. /\ posted' \in Seq(Notes) /\ Len(posted) \in Nat /\ Len(posted') = Len(posted) + 1
      /\ \A i \in 1 .. Len(posted) : posted'[i] = posted[i]
      /\ posted'[Len(posted) + 1].kind = "finished"
  BY <1>1, Posted
<1>3. FeedbackTypes' /\ OneThreadPerJob'
  <2>1. ending' \in Nat
    BY <1>1, Counts
  <2>2. FeedbackTypes'
    BY <1>1, <1>2, <2>1 DEF FeedbackInv, FeedbackTypes
  <2>3. OneThreadPerJob'
    BY <1>1 DEF FeedbackInv, OneThreadPerJob
  <2> QED
    BY <2>2, <2>3
<1>4. SuccessesInOnePlace'
  BY <1>1, <1>2 DEF FeedbackInv, SuccessesInOnePlace, Summed
<1>5. \A i \in 0 .. Len(posted) : EndFollows(i)'
  BY <1>2 DEF EndFollows
<1>6. EndsFollow'
  BY <1>1, <1>2, <1>5 DEF FeedbackInv, EndsFollow
<1> QED
  BY <1>3, <1>4, <1>6 DEF FeedbackInv

LEMMA QueueSwitched ==
    ASSUME FeedbackInv, Feedback!StartQueue \/ Feedback!StopQueue
    PROVE  FeedbackInv'
<1>1. CASE Feedback!StartQueue
  <2>1. FeedbackTypes' /\ OneThreadPerJob'
    BY <1>1, WorkspaceAssumption
       DEF Feedback!StartQueue, FeedbackInv, FeedbackTypes, OneThreadPerJob
  <2>2. SuccessesInOnePlace' /\ EndsFollow'
    BY <1>1 DEF Feedback!StartQueue, FeedbackInv, SuccessesInOnePlace, Summed, EndsFollow, EndFollows
  <2> QED
    BY <2>1, <2>2 DEF FeedbackInv
<1>2. CASE Feedback!StopQueue
  <2>1. FeedbackTypes' /\ OneThreadPerJob'
    BY <1>2 DEF Feedback!StopQueue, FeedbackInv, FeedbackTypes, OneThreadPerJob
  <2>2. SuccessesInOnePlace' /\ EndsFollow'
    BY <1>2 DEF Feedback!StopQueue, FeedbackInv, SuccessesInOnePlace, Summed, EndsFollow, EndFollows
  <2> QED
    BY <2>1, <2>2 DEF FeedbackInv
<1> QED
  BY <1>1, <1>2

(* The GUI thread. *)

\* What the window tells of, it tells once.
LEMMA Telling ==
    ASSUME FeedbackInv, NEW outcome, outcome.tells \subseteq RunJobs,
           \A j \in outcome.tells : told[j] = "untold", Feedback!Show(outcome)
    PROVE  /\ window' = outcome.window
           /\ told' \in [RunJobs -> {"not completed", "untold", "told"}]
           /\ \A j \in RunJobs : told'[j] = IF j \in outcome.tells THEN "told" ELSE told[j]
BY DEF Feedback!Show, FeedbackInv, FeedbackTypes

LEMMA DeliverKeeps ==
    ASSUME FeedbackInv, Feedback!Deliver
    PROVE  FeedbackInv'
<1> DEFINE n == Head(posted)
           outcome == Feedback!Handled(window, n)
           v == outcome.window
<1>0. /\ single = NobodyRuns /\ posted # <<>> /\ posted' = Tail(posted)
      /\ Feedback!Show(outcome)
      /\ UNCHANGED <<waiting, running, stop, worker, ending, single>>
  BY DEF Feedback!Deliver, Feedback!GuiFree
<1>1. /\ posted' \in Seq(Notes) /\ Len(posted) \in Nat /\ Len(posted) = Len(posted') + 1
      /\ Len(posted') \in Nat
      /\ posted[1] \in Notes /\ n = posted[1]
      /\ \A i \in 1 .. Len(posted') : posted'[i] = posted[i + 1]
      /\ \A i \in 0 .. Len(posted') : EndFollows(i + 1) => EndFollows(i)'
  BY <1>0, Delivered
<1>2. /\ n.kind \in {"started", "completed", "failed", "finished"}
      /\ n.kind = "completed" => /\ n.job \in RunJobs /\ told[n.job] = "untold" /\ ~Summed(n.job)
                                 /\ \A i \in 1 .. Len(posted') :
                                       posted'[i].kind = "completed" => posted'[i].job # n.job
      /\ n.kind # "finished" => EndFollows(1)
  <2>1. 1 \in 1 .. Len(posted) /\ \A i \in 1 .. Len(posted') : i + 1 \in 1 .. Len(posted) /\ i + 1 # 1
    BY <1>1
  <2> QED
    BY <1>1, <2>1 DEF FeedbackInv, SuccessesInOnePlace, EndsFollow, Notes
<1>3. /\ window \in Windows /\ running \in BOOLEAN
      /\ window.progress => window.started /\ window.background
      /\ window.started => /\ window.pending = window.completed
                           /\ \A j \in window.completed : told[j] = "untold"
  BY Zenon DEF FeedbackInv, FeedbackTypes, EndsFollow, SuccessesInOnePlace
<1>4. window.completed \subseteq RunJobs
  BY <1>3 DEF Windows
<1> HIDE DEF n
\* What is left of the notifications.
<1>5. /\ \A i \in 1 .. Len(posted') : posted'[i].kind = "completed" =>
            /\ posted'[i].job \in RunJobs /\ told[posted'[i].job] = "untold"
            /\ ~Summed(posted'[i].job)
      /\ \A i, k \in 1 .. Len(posted') :
            posted'[i].kind = "completed" /\ posted'[k].kind = "completed"
               /\ posted'[i].job = posted'[k].job => i = k
      /\ \A i \in 1 .. Len(posted') : posted'[i].kind # "finished" => EndFollows(i)'
  <2>1. ASSUME NEW i \in 1 .. Len(posted')
        PROVE  i + 1 \in 1 .. Len(posted) /\ posted'[i] = posted[i + 1]
               /\ (EndFollows(i + 1) => EndFollows(i)')
    BY <1>1
  <2> QED
    BY <2>1 DEF FeedbackInv, SuccessesInOnePlace, EndsFollow
<1>6. ASSUME NEW j \in RunJobs, told[j] = "untold", ~Summed(j)
      PROVE  \/ n.kind = "completed" /\ n.job = j
             \/ \E i \in 1 .. Len(posted') : posted'[i].kind = "completed" /\ posted'[i].job = j
  <2>1. PICK i \in 1 .. Len(posted) : posted[i].kind = "completed" /\ posted[i].job = j
    BY <1>6 DEF FeedbackInv, SuccessesInOnePlace
  <2>2. CASE i = 1
    BY <1>1, <2>1, <2>2
  <2>3. CASE i # 1
    <3>1. i - 1 \in 1 .. Len(posted') /\ posted'[i - 1] = posted[i]
      BY <1>1, <2>3
    <3> QED
      BY <2>1, <3>1
  <2> QED
    BY <2>2, <2>3
<1>7. n.kind # "finished" => EndFollows(0)'
  BY <1>1, <1>2
<1>8. /\ outcome.tells \subseteq RunJobs /\ \A j \in outcome.tells : told[j] = "untold"
      /\ v \in Windows
      /\ v.started /\ v.background => EndFollows(0)'
      /\ v.progress => v.started /\ v.background
      /\ v.started => v.timer \/ EndFollows(0)'
      /\ v.busy => EndFollows(0)'
  <2>1. CASE n.kind = "started"
    BY <1>3, <1>7, <2>1, StartedHandled
  <2>2. CASE n.kind = "completed"
    <3>1. /\ outcome.tells = (IF window.started THEN {} ELSE {n.job})
          /\ v \in Windows /\ v.started = window.started /\ v.background = window.background
          /\ window.started => (window.timer \/ ~window.background => v.timer)
          /\ v.progress => window.progress \/ (window.started /\ window.background)
      BY <1>2, <1>3, <2>2, CompletedHandled
    <3> HIDE DEF outcome, v
    <3> QED
      BY <1>2, <1>3, <1>7, <2>2, <3>1
  <2>3. CASE n.kind = "failed"
    BY <1>3, <1>7, <2>3, FailedHandled
  <2>4. CASE n.kind = "finished"
    BY <1>3, <1>4, <2>4, FinishedHandled
  <2> QED
    BY <1>2, <2>1, <2>2, <2>3, <2>4
<1>9. /\ window' = v /\ told' \in [RunJobs -> {"not completed", "untold", "told"}]
      /\ \A j \in RunJobs : told'[j] = IF j \in outcome.tells THEN "told" ELSE told[j]
  <2> HIDE DEF outcome
  <2> QED
    BY <1>0, <1>8, Telling
<1>10. SuccessesInOnePlace'
  <2>1. CASE n.kind = "started"
    <3>1. /\ outcome.tells = {} /\ v.started
          /\ window.started => v.completed = window.completed /\ v.pending = window.pending
          /\ ~window.started => v.completed = {} /\ v.pending = {}
      BY <1>3, <2>1, StartedHandled
    <3>2. \A j : Summed(j)' <=> Summed(j)
      BY <1>9, <3>1 DEF Summed
    <3> HIDE DEF outcome, v
    <3>3. \A j \in RunJobs : told'[j] = told[j]
      BY <1>9, <3>1
    <3>4. \A i \in 1 .. Len(posted') : posted'[i].kind = "completed" =>
             /\ posted'[i].job \in RunJobs /\ told'[posted'[i].job] = "untold"
             /\ ~(window'.started /\ posted'[i].job \in window'.completed)
      BY <1>5, <3>2, <3>3 DEF Summed
    <3>5. \A j \in RunJobs : told'[j] = "untold" =>
             Summed(j)' \/ \E i \in 1 .. Len(posted') :
                             posted'[i].kind = "completed" /\ posted'[i].job = j
      BY <1>6, <2>1, <3>2, <3>3
    <3>6. window'.started => /\ window'.pending = window'.completed
                             /\ \A j \in window'.completed : told'[j] = "untold"
      BY <1>3, <1>4, <1>9, <3>1, <3>3
    <3> QED
      BY <1>5, <3>4, <3>5, <3>6 DEF SuccessesInOnePlace, Summed
  <2>2. CASE n.kind = "failed"
    <3>1. /\ outcome.tells = {} /\ v.started = window.started
          /\ v.completed = window.completed /\ v.pending = window.pending
      BY <1>3, <2>2, FailedHandled
    <3>2. \A j : Summed(j)' <=> Summed(j)
      BY <1>9, <3>1 DEF Summed
    <3> HIDE DEF outcome, v
    <3>3. \A j \in RunJobs : told'[j] = told[j]
      BY <1>9, <3>1
    <3>4. \A i \in 1 .. Len(posted') : posted'[i].kind = "completed" =>
             /\ posted'[i].job \in RunJobs /\ told'[posted'[i].job] = "untold"
             /\ ~(window'.started /\ posted'[i].job \in window'.completed)
      BY <1>5, <3>2, <3>3 DEF Summed
    <3>5. \A j \in RunJobs : told'[j] = "untold" =>
             Summed(j)' \/ \E i \in 1 .. Len(posted') :
                             posted'[i].kind = "completed" /\ posted'[i].job = j
      BY <1>6, <2>2, <3>2, <3>3
    <3>6. window'.started => /\ window'.pending = window'.completed
                             /\ \A j \in window'.completed : told'[j] = "untold"
      BY <1>3, <1>4, <1>9, <3>1, <3>3
    <3> QED
      BY <1>5, <3>4, <3>5, <3>6 DEF SuccessesInOnePlace, Summed
  <2>3. CASE n.kind = "finished"
    <3>1. outcome.tells = (IF window.started THEN window.completed ELSE {}) /\ ~v.started
      BY <1>3, <2>3, FinishedHandled
    <3>2. \A j : ~Summed(j)'
      BY <1>9, <3>1 DEF Summed
    <3> HIDE DEF outcome, v
    <3>3. \A j : j \in outcome.tells <=> Summed(j)
      BY <3>1 DEF Summed
    <3>4. \A j \in RunJobs : told'[j] = IF Summed(j) THEN "told" ELSE told[j]
      BY <1>9, <3>3
    <3>5. ~window'.started
      BY <1>9, <3>1
    <3> QED
      BY <1>5, <1>6, <2>3, <3>2, <3>4, <3>5 DEF SuccessesInOnePlace
  <2>4. CASE n.kind = "completed"
    <3>1. /\ outcome.tells = (IF window.started THEN {} ELSE {n.job})
          /\ v.started = window.started /\ v.completed = window.completed \cup {n.job}
          /\ window.started => v.pending = window.pending \cup {n.job}
      BY <1>2, <1>3, <2>4, CompletedHandled
    <3> HIDE DEF outcome, v
    <3>2. \A j : Summed(j)' <=> Summed(j) \/ (window.started /\ j = n.job)
      BY <1>9, <3>1 DEF Summed
    <3>3. \A j \in RunJobs : told'[j] = IF ~window.started /\ j = n.job THEN "told" ELSE told[j]
      BY <1>9, <3>1
    <3>4. \A i \in 1 .. Len(posted') : posted'[i].kind = "completed" =>
             /\ posted'[i].job \in RunJobs /\ told'[posted'[i].job] = "untold"
             /\ ~(window'.started /\ posted'[i].job \in window'.completed)
      BY <1>2, <1>5, <2>4, <3>2, <3>3 DEF Summed
    <3>5. \A j \in RunJobs : told'[j] = "untold" =>
             Summed(j)' \/ \E i \in 1 .. Len(posted') :
                             posted'[i].kind = "completed" /\ posted'[i].job = j
      BY <1>6, <3>2, <3>3
    <3>6. window'.started => /\ window'.pending = window'.completed
                             /\ \A j \in window'.completed : told'[j] = "untold"
      BY <1>2, <1>3, <1>4, <1>9, <2>4, <3>1, <3>3
    <3> QED
      BY <1>5, <3>4, <3>5, <3>6 DEF SuccessesInOnePlace, Summed
  <2> QED
    BY <1>2, <2>1, <2>2, <2>3, <2>4
<1> HIDE DEF outcome, v
<1>11. FeedbackTypes' /\ OneThreadPerJob'
  <2>1. FeedbackTypes'
    BY <1>0, <1>1, <1>8, <1>9 DEF FeedbackInv, FeedbackTypes
  <2>2. \A j \in RunJobs : told[j] = "not completed" => told'[j] = "not completed"
    BY <1>8, <1>9
  <2>3. waiting \subseteq RunJobs
    BY DEF FeedbackInv, FeedbackTypes
  <2>4. OneThreadPerJob'
    BY <1>0, <2>2, <2>3 DEF FeedbackInv, OneThreadPerJob
  <2> QED
    BY <2>1, <2>4
<1>12. EndsFollow'
  BY <1>0, <1>5, <1>8, <1>9 DEF EndsFollow
<1> QED
  BY <1>10, <1>11, <1>12 DEF FeedbackInv

\* A step of the GUI thread that leaves the notifications alone: what it tells
\* of is told once, and what it changes in the counters keeps each success in
\* one place.
LEMMA WindowStep ==
    ASSUME FeedbackInv, UNCHANGED <<running, stop, worker, ending, posted>>,
           NEW done \in SUBSET RunJobs,
           \A j \in done : told[j] = "not completed",
           \A j \in RunJobs \ done : told'[j] = told[j] \/ (Summed(j) /\ told'[j] = "told"),
           \A j \in done : told'[j] = "told" \/ (told'[j] = "untold" /\ Summed(j)'),
           told' \in [RunJobs -> {"not completed", "untold", "told"}],
           window' \in Windows,
           \/ ~window'.started /\ \A j \in RunJobs \ done : Summed(j) => told'[j] = "told"
           \/ /\ window'.started /\ ~window.started /\ window'.completed = {} /\ window'.pending = {}
           \/ /\ window'.started = window.started
              /\ \A j \in RunJobs \ done : told'[j] = told[j]
              /\ window'.started => /\ window'.completed = window.completed \cup done
                                    /\ window'.pending = window.pending \cup done
                                    /\ \A j \in done : told'[j] = "untold"
    PROVE  SuccessesInOnePlace'
<1>1. /\ \A i \in 1 .. Len(posted) : posted[i].kind = "completed" =>
            /\ posted[i].job \in RunJobs \ done /\ told[posted[i].job] = "untold"
            /\ ~Summed(posted[i].job)
      /\ \A i, k \in 1 .. Len(posted) :
            posted[i].kind = "completed" /\ posted[k].kind = "completed"
               /\ posted[i].job = posted[k].job => i = k
      /\ \A j \in RunJobs : told[j] = "untold" =>
            Summed(j) \/ \E i \in 1 .. Len(posted) :
                            posted[i].kind = "completed" /\ posted[i].job = j
      /\ window.started => /\ window.pending = window.completed
                           /\ \A j \in window.completed : told[j] = "untold"
  BY DEF FeedbackInv, SuccessesInOnePlace
<1>2. window.completed \subseteq RunJobs /\ window'.completed \subseteq RunJobs
  BY DEF Windows, FeedbackInv, FeedbackTypes
<1>3. \A j \in RunJobs \ done : Summed(j)' => Summed(j) /\ told'[j] = told[j]
  BY <1>1, <1>2 DEF Summed
<1>4. \A i \in 1 .. Len(posted) : posted[i].kind = "completed" =>
            /\ posted[i].job \in RunJobs /\ told'[posted[i].job] = "untold"
            /\ ~(window'.started /\ posted[i].job \in window'.completed)
  <2> SUFFICES ASSUME NEW i \in 1 .. Len(posted), posted[i].kind = "completed"
               PROVE  /\ posted[i].job \in RunJobs /\ told'[posted[i].job] = "untold"
                      /\ ~(window'.started /\ posted[i].job \in window'.completed)
    OBVIOUS
  <2> DEFINE j == posted[i].job
  <2>1. j \in RunJobs \ done /\ told[j] = "untold" /\ ~Summed(j)
    BY <1>1
  <2> HIDE DEF j
  <2>2. told'[j] = "untold"
    BY <2>1
  <2>3. ~(window'.started /\ j \in window'.completed)
    BY <1>3, <2>1 DEF Summed
  <2> QED
    BY <2>1, <2>2, <2>3 DEF j
<1>5. \A j \in RunJobs : told'[j] = "untold" =>
         (window'.started /\ j \in window'.completed)
            \/ \E i \in 1 .. Len(posted) : posted[i].kind = "completed" /\ posted[i].job = j
  BY <1>1, <1>2 DEF Summed
<1>6. window'.started => /\ window'.pending = window'.completed
                         /\ \A j \in window'.completed : told'[j] = "untold"
  BY <1>1, <1>2
<1> QED
  BY <1>1, <1>4, <1>5, <1>6 DEF SuccessesInOnePlace, Summed

LEMMA TimerKeeps ==
    ASSUME FeedbackInv, Feedback!TimerRings
    PROVE  FeedbackInv'
<1> DEFINE outcome == Feedback!FlushSuccessToastBatch(window)
           v == outcome.window
<1>0. /\ single = NobodyRuns /\ Feedback!Show(outcome)
      /\ UNCHANGED <<waiting, running, stop, worker, ending, single, posted>>
  BY DEF Feedback!TimerRings, Feedback!GuiFree
<1>1. /\ window \in Windows
      /\ window.started => /\ window.pending = window.completed
                           /\ \A j \in window.completed : told[j] = "untold"
  BY Zenon DEF FeedbackInv, FeedbackTypes, SuccessesInOnePlace
<1>2. /\ v \in Windows /\ v.progress = window.progress /\ v.busy = window.busy
      /\ IF window.started /\ ~window.background
         THEN ~v.started /\ outcome.tells = window.pending
         ELSE /\ outcome.tells = {} /\ v.started = window.started
              /\ v.background = window.background
              /\ v.completed = window.completed /\ v.pending = window.pending
  BY <1>1, BatchFlushed
<1> HIDE DEF outcome, v
<1>3. outcome.tells \subseteq RunJobs /\ \A j \in outcome.tells : told[j] = "untold"
  BY <1>1, <1>2 DEF Windows
<1>4. /\ window' = v /\ told' \in [RunJobs -> {"not completed", "untold", "told"}]
      /\ \A j \in RunJobs : told'[j] = IF j \in outcome.tells THEN "told" ELSE told[j]
  BY <1>0, <1>3, Telling DEF v
<1>5. SuccessesInOnePlace'
  <2>1. CASE window.started /\ ~window.background
    <3>1. \A j \in RunJobs \ {} : told'[j] = told[j] \/ (Summed(j) /\ told'[j] = "told")
      BY <1>1, <1>2, <1>4, <2>1 DEF Summed
    <3>2. ~window'.started /\ \A j \in RunJobs \ {} : Summed(j) => told'[j] = "told"
      BY <1>1, <1>2, <1>4, <2>1 DEF Summed
    <3>3. /\ {} \in SUBSET RunJobs /\ window' \in Windows
          /\ \A j \in {} : told[j] = "not completed"
          /\ \A j \in {} : told'[j] = "told" \/ (told'[j] = "untold" /\ Summed(j)')
      BY <1>2, <1>4
    <3> QED
      BY <1>0, <1>4, <3>1, <3>2, <3>3, WindowStep
  <2>2. CASE ~(window.started /\ ~window.background)
    <3>1. \A j \in RunJobs : told'[j] = told[j]
      BY <1>2, <1>4, <2>2
    <3>2. /\ window'.started = window.started
          /\ window'.completed = window.completed \cup {}
          /\ window'.pending = window.pending \cup {}
      BY <1>2, <1>4, <2>2
    <3> QED
      BY <1>0, <1>2, <1>4, <3>1, <3>2, WindowStep
  <2> QED
    BY <2>1, <2>2
<1>6. FeedbackTypes' /\ OneThreadPerJob'
  <2>1. FeedbackTypes'
    BY <1>0, <1>2, <1>4 DEF FeedbackInv, FeedbackTypes
  <2>2. \A j \in RunJobs : told[j] = "not completed" => told'[j] = "not completed"
    BY <1>3, <1>4
  <2>3. waiting \subseteq RunJobs
    BY DEF FeedbackInv, FeedbackTypes
  <2>4. OneThreadPerJob'
    BY <1>0, <2>2, <2>3 DEF FeedbackInv, OneThreadPerJob
  <2> QED
    BY <2>1, <2>4
<1>7. EndsFollow'
  <2>1. \A i : EndFollows(i)' <=> EndFollows(i)
    BY <1>0 DEF EndFollows
  <2> QED
    BY <1>0, <1>2, <1>4, <2>1 DEF FeedbackInv, EndsFollow
<1> QED
  BY <1>5, <1>6, <1>7 DEF FeedbackInv

LEMMA DismissKeeps ==
    ASSUME FeedbackInv, Feedback!DismissToast
    PROVE  FeedbackInv'
<1>0. UNCHANGED <<waiting, running, stop, worker, ending, single, posted, told>>
  BY DEF Feedback!DismissToast
<1>1. window \in Windows
  BY Zenon DEF FeedbackInv, FeedbackTypes
<1>2. /\ window' \in Windows /\ window'.started = window.started
      /\ window'.background = window.background /\ window'.completed = window.completed
      /\ window'.pending = window.pending /\ window'.timer = window.timer
      /\ window'.progress => window.progress
      /\ window'.busy = window.busy
  <2>1. CASE window.direct > 0 /\ window' = [window EXCEPT !.direct = @ - 1]
    BY <1>1, <2>1 DEF Windows
  <2>2. CASE window' = [window EXCEPT !.collapsed = FALSE]
    BY <1>1, <2>2 DEF Windows
  <2>3. CASE window' = [window EXCEPT !.progress = FALSE]
    BY <1>1, <2>3 DEF Windows
  <2> QED
    BY <2>1, <2>2, <2>3 DEF Feedback!DismissToast
<1>3. FeedbackTypes' /\ OneThreadPerJob' /\ SuccessesInOnePlace'
  BY <1>0, <1>2 DEF FeedbackInv, FeedbackTypes, OneThreadPerJob, SuccessesInOnePlace, Summed
<1>4. EndsFollow'
  BY <1>0, <1>2 DEF FeedbackInv, EndsFollow, EndFollows
<1> QED
  BY <1>3, <1>4 DEF FeedbackInv

LEMMA RunSingleKeeps ==
    ASSUME FeedbackInv, NEW j \in RunJobs, Feedback!RunSingle(j)
    PROVE  FeedbackInv'
<1>1. PICK kind \in {"started", "failed"} :
         /\ single' = IF kind = "started" THEN j ELSE single
         /\ Feedback!Show(Feedback!Handled(window, Feedback!Note(kind, j)))
  BY DEF Feedback!RunSingle
<1> DEFINE n == Feedback!Note(kind, j)
           outcome == Feedback!Handled(window, n)
           v == outcome.window
<1>2. /\ single = NobodyRuns /\ j \in waiting /\ waiting' = waiting \ {j}
      /\ UNCHANGED <<running, stop, worker, ending, posted>>
  BY DEF Feedback!RunSingle, Feedback!GuiFree
<1>3. /\ window \in Windows /\ running \in BOOLEAN /\ (running => worker # "none")
      /\ window.progress => window.started /\ window.background
  BY Zenon DEF FeedbackInv, FeedbackTypes, EndsFollow
<1>4. n.kind = kind
  BY DEF Feedback!Note
<1> HIDE DEF n
<1>5. running => EndFollows(0)'
  BY <1>2, <1>3 DEF EndFollows
<1>6. \A i : EndFollows(i)' <=> EndFollows(i)
  BY <1>2 DEF EndFollows
<1>7. /\ window.started /\ window.background => EndFollows(0)
      /\ window.started => window.timer \/ EndFollows(0)
      /\ window.busy => EndFollows(0)
  BY <1>2 DEF FeedbackInv, EndsFollow
<1>8. /\ outcome.tells = {} /\ v \in Windows
      /\ v.started /\ v.background => EndFollows(0)'
      /\ v.progress => v.started /\ v.background
      /\ kind = "failed" => /\ v.started => v.timer \/ EndFollows(0)'
                            /\ v.busy => EndFollows(0)'
      /\ \/ /\ v.started /\ ~window.started /\ v.completed = {} /\ v.pending = {}
         \/ /\ v.started = window.started
            /\ v.started => v.completed = window.completed /\ v.pending = window.pending
  <2>1. CASE kind = "started"
    <3>1. /\ outcome.tells = {} /\ v \in Windows /\ v.started
          /\ window.started => /\ v.background = window.background
                               /\ v.completed = window.completed /\ v.pending = window.pending
          /\ ~window.started => v.background = running /\ v.completed = {} /\ v.pending = {}
          /\ v.progress => window.progress \/ v.background
      BY <1>3, <1>4, <2>1, StartedHandled
    <3> HIDE DEF outcome, v
    <3>2. CASE window.started
      BY <1>3, <1>6, <1>7, <2>1, <3>1, <3>2
    <3>3. CASE ~window.started
      BY <1>3, <1>5, <2>1, <3>1, <3>3
    <3> QED
      BY <3>2, <3>3
  <2>2. CASE kind = "failed"
    <3>1. /\ outcome.tells = {} /\ v \in Windows /\ v.started = window.started
          /\ v.background = window.background
          /\ v.completed = window.completed /\ v.pending = window.pending
          /\ window.timer \/ (window.started /\ ~window.background) => v.timer
          /\ v.progress => window.progress \/ (window.started /\ window.background)
          /\ v.busy => window.busy /\ running
      BY <1>3, <1>4, <2>2, FailedHandled
    <3> HIDE DEF outcome, v
    <3> QED
      BY <1>3, <1>5, <1>6, <1>7, <3>1
  <2> QED
    BY <2>1, <2>2
<1> HIDE DEF outcome
<1>9. /\ window' = v /\ told' \in [RunJobs -> {"not completed", "untold", "told"}]
      /\ \A k \in RunJobs : told'[k] = told[k]
  BY <1>1, <1>8, Telling DEF n, outcome
<1> HIDE DEF v
<1>10. SuccessesInOnePlace'
  <2>1. /\ {} \in SUBSET RunJobs /\ window' \in Windows
        /\ \A k \in {} : told[k] = "not completed"
        /\ \A k \in {} : told'[k] = "told" \/ (told'[k] = "untold" /\ Summed(k)')
        /\ \A k \in RunJobs \ {} : told'[k] = told[k] \/ (Summed(k) /\ told'[k] = "told")
    BY <1>8, <1>9
  <2>2. \/ /\ window'.started /\ ~window.started /\ window'.completed = {} /\ window'.pending = {}
        \/ /\ window'.started = window.started
           /\ \A k \in RunJobs \ {} : told'[k] = told[k]
           /\ window'.started => /\ window'.completed = window.completed \cup {}
                                 /\ window'.pending = window.pending \cup {}
                                 /\ \A k \in {} : told'[k] = "untold"
    BY <1>8, <1>9
  <2> QED
    BY <1>2, <1>9, <2>1, <2>2, WindowStep
<1>11. FeedbackTypes'
  BY <1>1, <1>2, <1>8, <1>9 DEF FeedbackInv, FeedbackTypes
<1>12. OneThreadPerJob'
  <2>1. waiting \subseteq RunJobs
    BY DEF FeedbackInv, FeedbackTypes
  <2> QED
    BY <1>1, <1>2, <1>9, <2>1, WorkspaceAssumption DEF FeedbackInv, OneThreadPerJob
<1>13. EndsFollow'
  BY <1>1, <1>2, <1>6, <1>8, <1>9, WorkspaceAssumption DEF FeedbackInv, EndsFollow
<1> QED
  BY <1>10, <1>11, <1>12, <1>13 DEF FeedbackInv

LEMMA EndSingleKeeps ==
    ASSUME FeedbackInv, Feedback!EndSingle
    PROVE  FeedbackInv'
<1>2. /\ single \in RunJobs /\ single' = NobodyRuns
      /\ UNCHANGED <<waiting, running, stop, worker, ending, posted>>
  BY DEF Feedback!EndSingle
<1>3. /\ window \in Windows /\ running \in BOOLEAN /\ (running => worker # "none")
      /\ window.progress => window.started /\ window.background
      /\ window.started /\ window.background => EndFollows(0)
      /\ told \in [RunJobs -> {"not completed", "untold", "told"}]
  BY Zenon DEF FeedbackInv, FeedbackTypes, EndsFollow
<1>4. told[single] = "not completed"
  BY <1>2 DEF FeedbackInv, OneThreadPerJob
<1>5. running => EndFollows(0)'
  BY <1>2, <1>3 DEF EndFollows
<1>6. \A i : EndFollows(i)' <=> EndFollows(i)
  BY <1>2 DEF EndFollows
\* Whichever way the job ends.
<1>7. /\ window' \in Windows /\ window'.started = window.started
      /\ window'.background = window.background
      /\ window.started /\ ~window.background => window'.timer
      /\ window'.progress => window.progress \/ (window.started /\ window.background)
      /\ window'.busy => window.busy /\ running
      /\ told' \in [RunJobs -> {"not completed", "untold", "told"}]
      /\ \A k \in RunJobs \ {single} : told'[k] = told[k]
      /\ SuccessesInOnePlace'
  <2>1. CASE Feedback!Show(Feedback!Handled(window, Feedback!Note("failed", single)))
    <3> DEFINE n == Feedback!Note("failed", single)
               outcome == Feedback!Handled(window, n)
               v == outcome.window
    <3>1. n.kind = "failed"
      BY DEF Feedback!Note
    <3> HIDE DEF n
    <3>2. /\ outcome.tells = {} /\ v \in Windows /\ v.started = window.started
          /\ v.background = window.background
          /\ v.completed = window.completed /\ v.pending = window.pending
          /\ window.timer \/ (window.started /\ ~window.background) => v.timer
          /\ v.progress => window.progress \/ (window.started /\ window.background)
          /\ v.busy => window.busy /\ running
      BY <1>3, <3>1, FailedHandled
    <3> HIDE DEF outcome
    <3>3. /\ window' = v /\ told' \in [RunJobs -> {"not completed", "untold", "told"}]
          /\ \A k \in RunJobs : told'[k] = told[k]
      BY <2>1, <3>2, Telling DEF n, outcome
    <3> HIDE DEF v
    <3>4. SuccessesInOnePlace'
      <4>1. /\ {} \in SUBSET RunJobs /\ window' \in Windows
            /\ \A k \in {} : told[k] = "not completed"
            /\ \A k \in {} : told'[k] = "told" \/ (told'[k] = "untold" /\ Summed(k)')
            /\ \A k \in RunJobs \ {} : told'[k] = told[k] \/ (Summed(k) /\ told'[k] = "told")
        BY <3>2, <3>3
      <4>2. /\ window'.started = window.started
            /\ \A k \in RunJobs \ {} : told'[k] = told[k]
            /\ window'.started => /\ window'.completed = window.completed \cup {}
                                  /\ window'.pending = window.pending \cup {}
                                  /\ \A k \in {} : told'[k] = "untold"
        BY <3>2, <3>3
      <4> QED
        BY <1>2, <3>3, <4>1, <4>2, WindowStep
    <3> QED
      BY <3>2, <3>3, <3>4
  <2>2. CASE LET done == Feedback!Handled(window, Feedback!Note("completed", single))
             IN  /\ window' = done.window
                 /\ told' = [told EXCEPT ![single] = IF done.tells = {} THEN "untold" ELSE "told"]
    <3> DEFINE n == Feedback!Note("completed", single)
               outcome == Feedback!Handled(window, n)
               v == outcome.window
    <3>1. n.kind = "completed" /\ n.job = single
      BY DEF Feedback!Note
    <3>0. /\ window' = v
          /\ told' = [told EXCEPT ![single] = IF outcome.tells = {} THEN "untold" ELSE "told"]
      BY <2>2
    <3> HIDE DEF n
    <3>2. /\ outcome.tells = (IF window.started THEN {} ELSE {single})
          /\ v \in Windows /\ v.started = window.started /\ v.background = window.background
          /\ v.completed = window.completed \cup {single}
          /\ window.started => /\ v.pending = window.pending \cup {single}
                               /\ window.timer \/ ~window.background => v.timer
          /\ v.progress => window.progress \/ (window.started /\ window.background)
          /\ v.busy => window.busy /\ running
      BY <1>2, <1>3, <3>1, CompletedHandled
    <3> HIDE DEF outcome, v
    <3>3. /\ told' \in [RunJobs -> {"not completed", "untold", "told"}]
          /\ \A k \in RunJobs \ {single} : told'[k] = told[k]
          /\ told'[single] = IF window.started THEN "untold" ELSE "told"
      BY <1>2, <1>3, <3>0, <3>2
    <3>4. SuccessesInOnePlace'
      <4>1. /\ {single} \in SUBSET RunJobs /\ window' \in Windows
            /\ \A k \in {single} : told[k] = "not completed"
            /\ \A k \in {single} : told'[k] = "told" \/ (told'[k] = "untold" /\ Summed(k)')
            /\ \A k \in RunJobs \ {single} : told'[k] = told[k] \/ (Summed(k) /\ told'[k] = "told")
        <5>1. told'[single] = "told" \/ (told'[single] = "untold"
                 /\ window'.started /\ single \in window'.completed)
          BY <3>0, <3>2, <3>3
        <5> QED
          BY <1>2, <1>4, <3>0, <3>2, <3>3, <5>1 DEF Summed
      <4>2. /\ window'.started = window.started
            /\ \A k \in RunJobs \ {single} : told'[k] = told[k]
            /\ window'.started => /\ window'.completed = window.completed \cup {single}
                                  /\ window'.pending = window.pending \cup {single}
                                  /\ \A k \in {single} : told'[k] = "untold"
        BY <3>0, <3>2, <3>3
      <4> QED
        BY <1>2, <3>3, <4>1, <4>2, WindowStep
    <3> QED
      BY <3>0, <3>2, <3>3, <3>4
  <2> QED
    BY <2>1, <2>2 DEF Feedback!EndSingle
<1>8. FeedbackTypes'
  BY <1>2, <1>7 DEF FeedbackInv, FeedbackTypes
<1>9. OneThreadPerJob'
  <2>1. waiting \subseteq RunJobs /\ single \notin waiting /\ worker \notin waiting
        /\ (worker \in RunJobs => worker # single)
        /\ \A j \in waiting \cup ({worker, single} \cap RunJobs) : told[j] = "not completed"
    BY DEF FeedbackInv, FeedbackTypes, OneThreadPerJob
  <2> QED
    BY <1>2, <1>7, <2>1, WorkspaceAssumption DEF OneThreadPerJob
<1>10. EndsFollow'
  <2>1. /\ \A i \in 1 .. Len(posted) : posted[i].kind # "finished" => EndFollows(i)'
        /\ window.background /\ window.started => EndFollows(0)'
    BY <1>3, <1>6 DEF FeedbackInv, EndsFollow
  <2> QED
    BY <1>2, <1>3, <1>5, <1>7, <2>1 DEF EndsFollow
<1> QED
  BY <1>7, <1>8, <1>9, <1>10 DEF FeedbackInv

LEMMA FeedbackStep ==
    ASSUME FeedbackInv, Feedback!FeedbackNext
    PROVE  FeedbackInv'
BY TakeJobKeeps, RunSingleKeeps, EndJobKeeps, EndRunKeeps, SayFinishedKeeps, QueueSwitched,
   EndSingleKeeps, DeliverKeeps, TimerKeeps, DismissKeeps DEF Feedback!FeedbackNext

LEMMA FeedbackStays ==
    ASSUME FeedbackInv, UNCHANGED feedbackVars
    PROVE  FeedbackInv'
<1>0. UNCHANGED <<waiting, running, stop, worker, ending, single, posted, window, told>>
  BY DEF feedbackVars
<1>1. FeedbackTypes'
  BY <1>0 DEF FeedbackInv, FeedbackTypes
<1>2. OneThreadPerJob' /\ SuccessesInOnePlace'
  BY <1>0 DEF FeedbackInv, OneThreadPerJob, SuccessesInOnePlace, Summed
<1>3. EndsFollow'
  BY <1>0 DEF FeedbackInv, EndsFollow, EndFollows
<1> QED
  BY <1>1, <1>2, <1>3 DEF FeedbackInv

LEMMA RunsTold ==
    ASSUME FeedbackInv
    PROVE  Feedback!SuccessesToldOnce /\ Feedback!EndedRunLeavesNothing
<1>1. \A j \in RunJobs : told[j] # "told again"
  BY DEF FeedbackInv, FeedbackTypes
<1>2. ASSUME Feedback!AtRest
      PROVE  /\ ~window.progress /\ ~window.busy /\ (window.started => window.timer)
             /\ ~window.timer => \A j \in RunJobs : told[j] # "untold"
  <2>1. Len(posted) = 0 /\ worker = "none" /\ ending = 0 /\ single = NobodyRuns
    BY <1>2, EmptySeq DEF Feedback!AtRest, Feedback!GuiFree
  <2>2. ~EndFollows(0)
    BY <2>1 DEF EndFollows
  <2>3. ~window.progress /\ ~window.busy /\ (window.started => window.timer)
    BY <2>1, <2>2 DEF FeedbackInv, EndsFollow
  <2>4. \A j \in RunJobs : told[j] = "untold" => window.started
    BY <2>1 DEF FeedbackInv, SuccessesInOnePlace, Summed
  <2> QED
    BY <2>3, <2>4
<1> QED
  BY <1>1, <1>2 DEF Feedback!SuccessesToldOnce, Feedback!EndedRunLeavesNothing

(* One component is at work in every behaviour. *)

LEMMA FeedbackInSuite == SuiteSpec => [](part = "feedback" => FeedbackInv)
<1>1. SuiteInit => (part = "feedback" => FeedbackInv)
  BY FeedbackStarts DEF SuiteInit
<1>2. (part = "feedback" => FeedbackInv) /\ [SuiteNext]_suiteVars
        => (part = "feedback" => FeedbackInv)'
  <2> SUFFICES ASSUME part = "feedback" => FeedbackInv, [SuiteNext]_suiteVars,
                      part' = "feedback"
               PROVE  FeedbackInv'
    OBVIOUS
  <2>1. CASE part = "feedback" /\ Feedback!FeedbackNext
    BY <2>1, FeedbackStep
  <2>2. CASE UNCHANGED suiteVars
    BY <2>2, FeedbackStays DEF suiteVars
  <2> QED
    BY <2>1, <2>2 DEF SuiteNext
<1> QED
  BY <1>1, <1>2, PTL DEF SuiteSpec

\* Every success of a job is told once, and a run that ended leaves neither the
\* progress toast nor the waiting sweep behind, for any number of jobs and any
\* interleaving of the queue's worker, single runs and late notifications
\* (_main_window_feedback.py).
THEOREM RunsAreAlwaysTold == SuiteSpec => []RunsAreTold
<1>1. (part = "feedback" => FeedbackInv) => RunsAreTold
  BY RunsTold DEF RunsAreTold
<1> QED
  BY <1>1, FeedbackInSuite, PTL

(***************************************************************************)
(* The tabs of the jobs, for any number of jobs and rows.                  *)
(***************************************************************************)
Rowed == ListJobs \cup {NoListedJob}
Panels == [job : Rowed, progress : Rowed, poster : Rowed]

\* Besides what the property says: the tab stays the tab it is, and what comes
\* late is a poster or a progress report.
ListInv ==
    /\ history \in BOOLEAN /\ focus \in Rowed /\ detail \in Panels
    /\ lateNews \subseteq {"poster", "progress"} \X ListJobs
    /\ Tab!ChecksAndBannerAgree /\ Tab!DetailIsOfFocused

LEMMA TabStarts == Tab!ListInit => ListInv
<1> SUFFICES ASSUME Tab!ListInit PROVE ListInv
  OBVIOUS
<1>1. detail = [job |-> NoListedJob, progress |-> NoListedJob, poster |-> NoListedJob]
  BY DEF Tab!ListInit, Tab!DetailOf
<1> QED
  BY <1>1 DEF Tab!ListInit, ListInv, Rowed, Panels, Tab!ChecksAndBannerAgree, Tab!DetailIsOfFocused

\* The panel that is filled afresh is of the focused row, and asks for its poster.
FilledAfresh ==
    /\ focus' \in Rowed
    /\ detail' = Tab!DetailOf(focus')
    /\ lateNews' = lateNews \cup ({<<"poster", focus'>>} \ {<<"poster", NoListedJob>>})

LEMMA FilledPanel ==
    ASSUME ListInv, FilledAfresh
    PROVE  /\ detail' \in Panels /\ Tab!DetailIsOfFocused'
           /\ lateNews' \subseteq {"poster", "progress"} \X ListJobs
<1>1. detail' = [job |-> focus', progress |-> NoListedJob, poster |-> NoListedJob]
  BY DEF FilledAfresh, Tab!DetailOf
<1>2. detail' \in Panels /\ Tab!DetailIsOfFocused'
  BY <1>1 DEF FilledAfresh, Panels, Rowed, Tab!DetailIsOfFocused
<1>3. lateNews' \subseteq {"poster", "progress"} \X ListJobs
  BY DEF ListInv, FilledAfresh, Rowed
<1> QED
  BY <1>2, <1>3

LEMMA ControlsFill ==
    ASSUME ListInv, Tab!Controls, focus' \in Rowed
    PROVE  FilledAfresh /\ (banner' # {} => banner' = checked')
BY DEF Tab!Controls, FilledAfresh

\* A refresh keeps the checks of rows that can still be checked: these were
\* visible, and their status is what it was.
LEMMA RefreshedChecks ==
    ASSUME ListInv, NEW s, Tab!ResetTo(s), UNCHANGED <<history, listFilter>>
    PROVE  /\ checked' \subseteq Tab!Visible(listed', listFilter') \cap Tab!Checkable(listed')
           /\ focus' \in Rowed
<1>1. checked' = checked \cap Tab!Checkable(listed')
  BY DEF Tab!ResetTo
<1>2. ASSUME NEW j \in checked'
      PROVE  j \in Tab!Visible(listed', listFilter')
  <2>1. j \in ListJobs /\ listed[j] \in listFilter
    BY <1>1, <1>2 DEF ListInv, Tab!ChecksAndBannerAgree, Tab!Visible
  <2>2. listed[j] = IF history THEN "completed" ELSE "pending"
    BY <1>1, <1>2 DEF ListInv, Tab!ChecksAndBannerAgree, Tab!Checkable
  <2>3. listed'[j] = IF history THEN "completed" ELSE "pending"
    BY <1>1, <1>2 DEF Tab!Checkable
  <2> QED
    BY <2>1, <2>2, <2>3 DEF Tab!Visible
<1>3. focus' \in Rowed
  BY DEF Tab!ResetTo, Tab!Visible, Rowed
<1> QED
  BY <1>1, <1>2, <1>3

\* Every action of the tab, reduced to what its change of the rows, the checks and
\* the focus means for the invariant.
LEMMA TabUnmoved ==
    ASSUME ListInv, UNCHANGED <<history, listed, listFilter, checked, focus, detail, banner>>,
           lateNews' \subseteq {"poster", "progress"} \X ListJobs
    PROVE  ListInv'
BY DEF ListInv, Tab!ChecksAndBannerAgree, Tab!DetailIsOfFocused, Tab!Visible, Tab!Checkable

LEMMA TabFilled ==
    ASSUME ListInv, FilledAfresh, UNCHANGED history,
           checked' \subseteq Tab!Visible(listed', listFilter') \cap Tab!Checkable(listed'),
           banner' # {} => banner' = checked'
    PROVE  ListInv'
<1>1. detail' \in Panels /\ Tab!DetailIsOfFocused' /\ lateNews' \subseteq {"poster", "progress"} \X ListJobs
  BY FilledPanel
<1>2. Tab!ChecksAndBannerAgree'
  BY DEF Tab!ChecksAndBannerAgree, Tab!Visible, Tab!Checkable
<1> QED
  BY <1>1, <1>2 DEF ListInv, FilledAfresh

LEMMA TabControlled ==
    ASSUME ListInv, Tab!Controls, focus' \in Rowed, UNCHANGED history,
           checked' \subseteq Tab!Visible(listed', listFilter') \cap Tab!Checkable(listed')
    PROVE  ListInv'
BY ControlsFill, TabFilled

LEMMA TabRefreshed ==
    ASSUME ListInv, Tab!Refresh, UNCHANGED <<history, listFilter>>
    PROVE  ListInv'
<1>1. /\ checked' \subseteq Tab!Visible(listed', listFilter') \cap Tab!Checkable(listed')
      /\ focus' \in Rowed
  BY RefreshedChecks DEF Tab!Refresh
<1>2. FilledAfresh
  BY <1>1 DEF Tab!Refresh, FilledAfresh
<1>3. banner' # {} => banner' = checked'
  BY DEF Tab!Refresh
<1> QED
  BY <1>1, <1>2, <1>3, TabFilled

LEMMA TabCommands ==
    ASSUME ListInv,
           \/ \E j \in ListJobs : Tab!ToggleRow(j) \/ Tab!FocusRow(j)
           \/ Tab!MasterCheck \/ Tab!ShowTab \/ \E f \in Tab!Filters : Tab!ApplyFilter(f)
    PROVE  ListInv'
<1>0. checked \subseteq Tab!Visible(listed, listFilter) \cap Tab!Checkable(listed) /\ focus \in Rowed
  BY DEF ListInv, Tab!ChecksAndBannerAgree
<1>1. ASSUME NEW j \in ListJobs, Tab!ToggleRow(j)
      PROVE  ListInv'
  <2> DEFINE jobs == IF j \in checked THEN checked \ {j} ELSE checked \cup {j}
  <2>1. /\ Tab!CheckRows(jobs) /\ j \in Tab!Visible(listed, listFilter) \cap Tab!Checkable(listed)
    BY <1>1 DEF Tab!ToggleRow
  <2>2. jobs \subseteq Tab!Visible(listed, listFilter) \cap Tab!Checkable(listed)
    BY <1>0, <2>1
  <2> HIDE DEF jobs
  <2>3. /\ Tab!Controls /\ checked' = jobs
        /\ UNCHANGED <<focus, history, listed, listFilter>>
    BY <2>1 DEF Tab!CheckRows
  <2>4. checked' \subseteq Tab!Visible(listed', listFilter') \cap Tab!Checkable(listed')
    BY <2>2, <2>3 DEF Tab!Visible, Tab!Checkable
  <2> QED
    BY <1>0, <2>3, <2>4, TabControlled
<1>2. ASSUME NEW j \in ListJobs, Tab!FocusRow(j)
      PROVE  ListInv'
  <2>1. /\ Tab!Controls /\ focus' \in Rowed
        /\ UNCHANGED <<checked, history, listed, listFilter>>
    BY <1>2 DEF Tab!FocusRow, Rowed
  <2>2. checked' \subseteq Tab!Visible(listed', listFilter') \cap Tab!Checkable(listed')
    BY <1>0, <2>1 DEF Tab!Visible, Tab!Checkable
  <2> QED
    BY <2>1, <2>2, TabControlled
<1>3. CASE Tab!MasterCheck
  <2> DEFINE boxes == Tab!Visible(listed, listFilter) \cap Tab!Checkable(listed)
             jobs == IF boxes \subseteq checked THEN {} ELSE checked \cup boxes
  <2>1. Tab!CheckRows(jobs)
    BY <1>3 DEF Tab!MasterCheck
  <2>2. jobs \subseteq Tab!Visible(listed, listFilter) \cap Tab!Checkable(listed)
    BY <1>0
  <2> HIDE DEF jobs
  <2>3. /\ Tab!Controls /\ checked' = jobs
        /\ UNCHANGED <<focus, history, listed, listFilter>>
    BY <2>1 DEF Tab!CheckRows
  <2>4. checked' \subseteq Tab!Visible(listed', listFilter') \cap Tab!Checkable(listed')
    BY <2>2, <2>3 DEF Tab!Visible, Tab!Checkable
  <2> QED
    BY <1>0, <2>3, <2>4, TabControlled
<1>4. CASE Tab!ShowTab
  <2>1. Tab!Controls /\ checked' = {} /\ UNCHANGED history
    BY <1>4 DEF Tab!ShowTab
  <2>2. focus' \in Rowed
    BY <1>4 DEF Tab!ShowTab, Tab!Visible, Rowed
  <2> QED
    BY <2>1, <2>2, TabControlled
<1>5. ASSUME NEW f \in Tab!Filters, Tab!ApplyFilter(f)
      PROVE  ListInv'
  <2>1. /\ Tab!Controls /\ UNCHANGED history /\ listFilter' = f
        /\ checked' = Tab!VisibleChecks(f) \cap Tab!Checkable(listed')
    BY <1>5 DEF Tab!ApplyFilter
  <2>2. focus' \in Rowed
    BY <1>5 DEF Tab!ApplyFilter, Tab!Visible, Rowed
  <2>3. ASSUME NEW j \in checked'
        PROVE  j \in Tab!Visible(listed', listFilter') /\ j \in Tab!Checkable(listed')
    <3>1. j \in ListJobs /\ listed[j] \in f /\ j \in checked
      BY <2>1, <2>3 DEF Tab!VisibleChecks, Tab!Visible
    <3>2. listed[j] = IF history THEN "completed" ELSE "pending"
      BY <1>0, <3>1 DEF Tab!Checkable
    <3>3. j \in Tab!Checkable(listed')
      BY <2>1, <2>3
    <3>4. listed'[j] = IF history THEN "completed" ELSE "pending"
      BY <3>3 DEF Tab!Checkable
    <3> QED
      BY <2>1, <3>1, <3>2, <3>3, <3>4 DEF Tab!Visible
  <2> QED
    BY <2>1, <2>2, <2>3, TabControlled
<1> QED
  BY <1>1, <1>2, <1>3, <1>4, <1>5

LEMMA TabQuestions ==
    ASSUME ListInv,
           \/ Tab!AskCommand \/ Tab!Answer \/ Tab!Decline
           \/ Tab!RevertSelected \/ Tab!CancelRevert \/ Tab!ConfirmRevert \/ Tab!ClearHistory
           \/ Tab!Changed
    PROVE  ListInv'
<1>0. lateNews \subseteq {"poster", "progress"} \X ListJobs
  BY DEF ListInv
<1>1. CASE Tab!AskCommand \/ Tab!Decline
  <2>1. UNCHANGED <<history, listed, listFilter, checked, focus, detail, banner, lateNews>>
    BY <1>1 DEF Tab!AskCommand, Tab!AskAbout, Tab!Decline
  <2> QED
    BY <1>0, <2>1, TabUnmoved
<1>2. CASE Tab!Answer \/ Tab!ClearHistory \/ Tab!Changed
  <2>1. Tab!Refresh /\ UNCHANGED <<history, listFilter>>
    BY <1>2 DEF Tab!Answer, Tab!ClearHistory, Tab!Changed
  <2> QED
    BY <2>1, TabRefreshed
<1>3. CASE Tab!RevertSelected
  <2>1. /\ history /\ banner' = checked \cap Tab!Revertible(listed)
        /\ UNCHANGED <<history, listed, listFilter, checked, focus, detail, lateNews>>
    BY <1>3 DEF Tab!RevertSelected
  <2>2. checked \subseteq Tab!Revertible(listed)
    BY <2>1 DEF ListInv, Tab!ChecksAndBannerAgree, Tab!Checkable, Tab!Revertible
  <2>3. banner' = checked'
    BY <2>1, <2>2
  <2> QED
    BY <2>1, <2>3 DEF ListInv, Tab!ChecksAndBannerAgree, Tab!DetailIsOfFocused, Tab!Visible, Tab!Checkable
<1>4. CASE Tab!CancelRevert
  <2>1. /\ banner' = {}
        /\ UNCHANGED <<history, listed, listFilter, checked, focus, detail, lateNews>>
    BY <1>4 DEF Tab!CancelRevert
  <2> QED
    BY <2>1 DEF ListInv, Tab!ChecksAndBannerAgree, Tab!DetailIsOfFocused, Tab!Visible, Tab!Checkable
<1>5. CASE Tab!ConfirmRevert
  <2>1. /\ Tab!ResetTo(jobStatus') /\ UNCHANGED <<history, listFilter>> /\ banner' = {}
        /\ detail' = Tab!DetailOf(focus')
        /\ lateNews' = lateNews \cup ({<<"poster", focus'>>} \ {<<"poster", NoListedJob>>})
    BY <1>5 DEF Tab!ConfirmRevert
  <2>2. /\ checked' \subseteq Tab!Visible(listed', listFilter') \cap Tab!Checkable(listed')
        /\ focus' \in Rowed
    BY <2>1, RefreshedChecks
  <2> QED
    BY <2>1, <2>2, TabFilled DEF FilledAfresh
<1> QED
  BY <1>1, <1>2, <1>3, <1>4, <1>5

LEMMA TabOthers ==
    ASSUME ListInv,
           \/ \E j \in ListJobs : \/ Tab!Submit(j) \/ Tab!StartJob(j) \/ Tab!EndJob(j)
                                  \/ Tab!Progress(j)
           \/ Tab!ShowLate
    PROVE  ListInv'
<1>0. lateNews \subseteq {"poster", "progress"} \X ListJobs
  BY DEF ListInv
<1>1. ASSUME NEW j \in ListJobs, Tab!Submit(j) \/ Tab!StartJob(j) \/ Tab!EndJob(j)
      PROVE  ListInv'
  <2>1. UNCHANGED <<history, listed, listFilter, checked, focus, detail, banner, lateNews>>
    BY <1>1 DEF Tab!Submit, Tab!StartJob, Tab!EndJob, Tab!Announce
  <2> QED
    BY <1>0, <2>1, TabUnmoved
<1>2. ASSUME NEW j \in ListJobs, Tab!Progress(j)
      PROVE  ListInv'
  <2>1. /\ UNCHANGED <<history, listed, listFilter, checked, focus, detail, banner>>
        /\ lateNews' = lateNews \cup {<<"progress", j>>}
    BY <1>2 DEF Tab!Progress
  <2> QED
    BY <1>0, <2>1, TabUnmoved
<1>3. CASE Tab!ShowLate
  <2>1. PICK l \in lateNews :
           /\ lateNews' = lateNews \ {l}
           /\ detail' = IF Tab!IsCurrent(l[2]) THEN [detail EXCEPT ![l[1]] = l[2]] ELSE detail
           /\ UNCHANGED <<history, listed, listFilter, checked, focus, banner>>
    BY <1>3 DEF Tab!ShowLate
  <2>2. l[1] \in {"poster", "progress"} /\ l[2] \in ListJobs
    BY <1>0
  <2>3. CASE ~Tab!IsCurrent(l[2])
    BY <1>0, <2>1, <2>3, TabUnmoved
  <2>4. CASE Tab!IsCurrent(l[2])
    <3>1. l[2] = focus /\ detail.job = focus
      BY <2>4 DEF Tab!IsCurrent, ListInv, Tab!DetailIsOfFocused
    <3>2. detail \in Panels /\ {detail.poster, detail.progress} \subseteq {focus, NoListedJob}
      BY DEF ListInv, Tab!DetailIsOfFocused
    <3>3. detail' = [detail EXCEPT ![l[1]] = focus]
      BY <2>1, <2>4, <3>1
    <3>4. /\ detail' \in Panels /\ detail'.job = focus
          /\ {detail'.poster, detail'.progress} \subseteq {focus, NoListedJob}
      <4>1. CASE l[1] = "poster"
        BY <2>2, <3>1, <3>2, <3>3, <4>1 DEF Panels, Rowed
      <4>2. CASE l[1] = "progress"
        BY <2>2, <3>1, <3>2, <3>3, <4>2 DEF Panels, Rowed
      <4> QED
        BY <2>2, <4>1, <4>2
    <3> QED
      BY <1>0, <2>1, <3>4 DEF ListInv, Tab!ChecksAndBannerAgree, Tab!DetailIsOfFocused, Tab!Visible, Tab!Checkable
  <2> QED
    BY <2>3, <2>4
<1> QED
  BY <1>1, <1>2, <1>3

LEMMA TabStep ==
    ASSUME ListInv, Tab!ListNext
    PROVE  ListInv'
BY TabCommands, TabQuestions, TabOthers DEF Tab!ListNext

LEMMA SameTabCount == ASSUME NEW S PROVE Tab!Cardinality(S) = Cardinality(S)
BY Zenon DEF Tab!Cardinality, Cardinality

\* A companion has one row: under the one video it is shown with, or of its own.
LEMMA OneRowPerFile ==
    ASSUME NEW j \in ListJobs, NEW o \in PreviewedFiles[j]
    PROVE  Cardinality({row \in Tab!JobPreview(PreviewedFiles[j]) : row[3] = o.file}) = 1
<1> DEFINE ops == PreviewedFiles[j]
           group(v) == IF \E u \in Tab!Videos(ops) : u.season > 0 THEN {v.season} ELSE {0}
           own(p) == IF p \in Tab!Videos(ops) THEN <<group(p), p.file, p.file>>
                     ELSE IF Tab!Hosts(ops, p) = {} THEN <<{}, p.file, p.file>>
                          ELSE <<group(Tab!Host(ops, p)), Tab!Host(ops, p).file, p.file>>
<1>1. Tab!Videos(ops) \subseteq ops
  BY DEF Tab!Videos
<1>2. Tab!JobPreview(ops) = {own(p) : p \in ops}
  BY <1>1 DEF Tab!JobPreview
<1>3. \A p \in ops : own(p)[3] = p.file
  OBVIOUS
<1> HIDE DEF own
<1>4. {row \in Tab!JobPreview(ops) : row[3] = o.file} = {own(o)}
  BY <1>2, <1>3, ListAssumption
<1> QED
  BY <1>4, FS_Singleton

LEMMA TabsTold ==
    ASSUME ListInv
    PROVE  Tab!ChecksAndBannerAgree /\ Tab!DetailIsOfFocused /\ Tab!PreviewTellsEachFileOnce
<1>1. detail.job \in Rowed
  BY DEF ListInv, Panels
<1>2. Tab!PreviewTellsEachFileOnce
  <2>1. ASSUME NEW j \in ListJobs, NEW o \in PreviewedFiles[j]
        PROVE  Tab!Cardinality({row \in Tab!JobPreview(PreviewedFiles[j]) : row[3] = o.file}) = 1
    BY OneRowPerFile, SameTabCount
  <2> QED
    BY <1>1, <2>1 DEF Tab!PreviewTellsEachFileOnce, Rowed
<1> QED
  BY <1>2 DEF ListInv

LEMMA TabInSuite == SuiteSpec => [](part = "list" => ListInv)
<1>1. SuiteInit => (part = "list" => ListInv)
  BY TabStarts DEF SuiteInit
<1>2. (part = "list" => ListInv) /\ [SuiteNext]_suiteVars => (part = "list" => ListInv)'
  <2> SUFFICES ASSUME part = "list" => ListInv, [SuiteNext]_suiteVars, part' = "list"
               PROVE  ListInv'
    OBVIOUS
  <2>1. CASE part = "list" /\ Tab!ListNext
    BY <2>1, TabStep
  <2>2. CASE UNCHANGED suiteVars
    <3>1. part = "list" /\ UNCHANGED <<history, listed, listFilter, checked, focus, detail, banner, lateNews>>
      BY <2>2 DEF suiteVars, listVars
    <3> QED
      BY <3>1, TabUnmoved DEF ListInv
  <2> QED
    BY <2>1, <2>2 DEF SuiteNext
<1> QED
  BY <1>1, <1>2, PTL DEF SuiteSpec

\* The banner, the checks and the panel of the job tabs are of rows the user sees,
\* for any number of jobs, whatever ends, arrives late or is filtered out while a
\* question or the banner is open; a preview shows each file of a job once
\* (_job_list_tab.py, history_tab.py, queue_tab.py, job_detail_panel.py).
THEOREM TabsAlwaysTell == SuiteSpec => []TabsTellTheJobs
<1>1. (part = "list" => ListInv) => TabsTellTheJobs
  BY TabsTold DEF TabsTellTheJobs
<1> QED
  BY <1>1, TabInSuite, PTL

(***************************************************************************)
(* Bulk Assign, for any show and any order of files and slots.             *)
(***************************************************************************)
\* What the panel stages, whether it is open or not (it stages nothing then).
StagedWell ==
    \A p \in staged :
       /\ claimants[p[2]] \subseteq unassigning
       /\ ~Panel!Keeps(p[1])
       /\ \A q \in staged : q[2] = p[2] => q = p
       /\ \A q \in staged : q[1] = p[1] => q[2][1] = p[2][1]

\* Only files of the show claim; the panel's claimants are files it was opened
\* with, and what it unassigns had a claim.
ClaimsOfFiles ==
    /\ bulkFiles \subseteq Files
    /\ \A f \in Files \ bulkFiles : claim[f].run = {}
SnapshotHolds ==
    /\ pool \subseteq Files
    /\ \A s \in Slots : claimants[s] \subseteq pool
    /\ \A f \in unassigning : \E s \in Slots : f \in claimants[s]
    /\ staged \subseteq pool \X Slots
PanelInv == ClaimsOfFiles /\ SnapshotHolds /\ StagedWell

LEMMA EmptiedPanel ==
    ASSUME Panel!ResetStaging
    PROVE  StagedWell' /\ staged' = {} /\ unassigning' = {}
BY DEF Panel!ResetStaging, StagedWell

LEMMA NewTable ==
    ASSUME NEW t \in Tables \cup {Panel!EmptyTable},
           bulkFiles' = t.files, claim' = t.claim
    PROVE  ClaimsOfFiles'
<1>1. CASE t \in Tables
  BY <1>1, PanelAssumption DEF ClaimsOfFiles
<1>2. CASE t = Panel!EmptyTable
  BY <1>2 DEF ClaimsOfFiles, Panel!EmptyTable, Panel!Unclaimed, Panel!Claim
<1> QED
  BY <1>1, <1>2

LEMMA PanelStarts == Panel!BulkInit => PanelInv
<1> SUFFICES ASSUME Panel!BulkInit PROVE PanelInv
  OBVIOUS
<1>1. ClaimsOfFiles
  <2>1. PICK t \in Tables : bulkFiles = t.files /\ claim = t.claim
    BY DEF Panel!BulkInit
  <2> QED
    BY <2>1, PanelAssumption DEF ClaimsOfFiles
<1>2. pool = {} /\ staged = {} /\ unassigning = {} /\ claimants = [s \in Slots |-> {}]
  BY DEF Panel!BulkInit, Panel!NobodyClaims
<1> QED
  BY <1>1, <1>2 DEF PanelInv, SnapshotHolds, StagedWell

\* The claims of the table are those of files, whoever records or drops them.
LEMMA RecordedClaims ==
    ASSUME ClaimsOfFiles, NEW new, NEW dropped, DOMAIN new \subseteq bulkFiles, Panel!Record(new, dropped)
    PROVE  ClaimsOfFiles'
<1>1. /\ bulkFiles' = bulkFiles
      /\ claim' = [f \in Files |-> IF f \in DOMAIN new THEN new[f]
                                   ELSE IF f \in DOMAIN dropped THEN Panel!Unclaimed
                                   ELSE claim[f]]
  BY DEF Panel!Record
<1>2. Panel!Unclaimed.run = {}
  BY DEF Panel!Unclaimed, Panel!Claim
<1> QED
  BY <1>1, <1>2 DEF ClaimsOfFiles

LEMMA PanelOpens ==
    ASSUME PanelInv, Panel!EnterBulkAssign
    PROVE  PanelInv'
<1>1. /\ pool' = bulkFiles /\ claimants' = [s \in Slots |-> {f \in Files : s \in claim[f].run}]
      /\ Panel!ResetStaging /\ UNCHANGED <<bulkFiles, claim>>
  BY DEF Panel!EnterBulkAssign, Panel!Snapshot, Panel!SlotChoices, Panel!Claimants, Panel!tableVars
<1>2. ClaimsOfFiles'
  BY <1>1 DEF PanelInv, ClaimsOfFiles
<1>3. pool' \subseteq Files /\ \A s \in Slots : claimants'[s] \subseteq pool'
  BY <1>1 DEF PanelInv, ClaimsOfFiles
<1> QED
  BY <1>1, <1>2, <1>3, EmptiedPanel DEF PanelInv, SnapshotHolds

\* Staging leaves the table and the snapshot as they are.
LEMMA StageKeeps ==
    ASSUME PanelInv, Panel!Stage
    PROVE  /\ UNCHANGED <<bulkFiles, claim, claimants, pool>>
           /\ ClaimsOfFiles' /\ pool' \subseteq Files
           /\ \A s \in Slots : claimants'[s] \subseteq pool'
BY DEF Panel!Stage, Panel!tableVars, PanelInv, ClaimsOfFiles, SnapshotHolds

LEMMA KeepsStay ==
    ASSUME UNCHANGED <<claimants, unassigning>>
    PROVE  \A f : Panel!Keeps(f)' = Panel!Keeps(f)
BY DEF Panel!Keeps, Panel!AssignedKeys

LEMMA DropHandled ==
    ASSUME PanelInv, NEW f \in Files, NEW s \in Slots, Panel!HandleDrop(f, s)
    PROVE  PanelInv'
<1>1. /\ Panel!Stage /\ f \in pool
      /\ (\A h \in Files : <<h, s>> \notin staged) /\ claimants[s] \subseteq unassigning
      /\ ~Panel!Keeps(f) /\ Panel!Adjoins(s, Panel!StagedKeys(f))
      /\ staged' = staged \cup {<<f, s>>} /\ unassigning' = unassigning
  BY DEF Panel!HandleDrop, Panel!KeyIsFree
<1>2. /\ UNCHANGED <<bulkFiles, claim, claimants, pool>>
      /\ ClaimsOfFiles' /\ pool' \subseteq Files
      /\ \A r \in Slots : claimants'[r] \subseteq pool'
  BY <1>1, StageKeeps
<1>3. \A h : Panel!Keeps(h)' = Panel!Keeps(h)
  BY <1>1, <1>2, KeepsStay
<1>4. \A q \in staged : q[2] # s
  <2> SUFFICES ASSUME NEW q \in staged, q[2] = s PROVE FALSE
    OBVIOUS
  <2>1. q = <<q[1], q[2]>> /\ q[1] \in Files
    BY DEF PanelInv, SnapshotHolds
  <2> QED
    BY <1>1, <2>1
<1>5. \A q \in staged : q[1] = f => q[2][1] = s[1]
  <2> SUFFICES ASSUME NEW q \in staged, q[1] = f PROVE q[2][1] = s[1]
    OBVIOUS
  <2>1. q = <<f, q[2]>> /\ q[2] \in Slots
    BY DEF PanelInv, SnapshotHolds
  <2>2. q[2] \in Panel!StagedKeys(f)
    BY <2>1 DEF Panel!StagedKeys
  <2>3. PICK k \in Panel!StagedKeys(f) : k[1] = s[1]
    BY <1>1, <2>2 DEF Panel!Adjoins
  <2>4. <<f, k>> \in staged
    BY <2>3 DEF Panel!StagedKeys
  <2>5. <<f, k>>[1] = f /\ <<f, k>>[2] = k
    OBVIOUS
  <2>6. q[2][1] = k[1]
    BY <2>4, <2>5 DEF PanelInv, StagedWell
  <2> QED
    BY <2>3, <2>6
<1>6. StagedWell'
  <2> SUFFICES ASSUME NEW p \in staged'
               PROVE  /\ claimants'[p[2]] \subseteq unassigning' /\ ~Panel!Keeps(p[1])'
                      /\ \A q \in staged' : q[2] = p[2] => q = p
                      /\ \A q \in staged' : q[1] = p[1] => q[2][1] = p[2][1]
    BY DEF StagedWell
  <2>1. <<f, s>>[1] = f /\ <<f, s>>[2] = s
    OBVIOUS
  <2>2. CASE p \in staged
    BY <1>1, <1>2, <1>3, <1>4, <1>5, <2>1, <2>2 DEF PanelInv, StagedWell
  <2>3. CASE p = <<f, s>>
    BY <1>1, <1>2, <1>3, <1>4, <1>5, <2>1, <2>3
  <2> QED
    BY <1>1, <2>2, <2>3
<1>7. SnapshotHolds'
  BY <1>1, <1>2 DEF PanelInv, SnapshotHolds
<1> QED
  BY <1>2, <1>6, <1>7 DEF PanelInv

LEMMA SlotsClicked ==
    ASSUME PanelInv, NEW s \in Slots, Panel!SlotClicked(s)
    PROVE  PanelInv'
<1> DEFINE F == claimants[s]
<1>1. Panel!Stage /\ F \subseteq pool
  BY DEF Panel!SlotClicked, PanelInv, SnapshotHolds
<1>2. /\ UNCHANGED <<bulkFiles, claim, claimants, pool>>
      /\ ClaimsOfFiles' /\ pool' \subseteq Files
      /\ \A r \in Slots : claimants'[r] \subseteq pool'
  BY <1>1, StageKeeps
<1>3. CASE /\ unassigning' = unassigning \ F
           /\ staged' = {p \in staged : \A f \in F : p[2] \notin Panel!AssignedKeys(f) /\ p[1] # f}
  <2>1. SnapshotHolds'
    BY <1>2, <1>3 DEF PanelInv, SnapshotHolds
  <2>2. ASSUME NEW p \in staged'
        PROVE  claimants'[p[2]] \subseteq unassigning' /\ ~Panel!Keeps(p[1])'
    <3>1. p \in staged /\ p[2] \in Slots /\ \A f \in F : p[2] \notin Panel!AssignedKeys(f) /\ p[1] # f
      BY <1>3, <2>2 DEF PanelInv, SnapshotHolds
    <3>2. claimants[p[2]] \subseteq unassigning /\ ~Panel!Keeps(p[1])
      BY <3>1 DEF PanelInv, StagedWell
    <3>3. \A f \in F : f \notin claimants[p[2]]
      BY <3>1 DEF Panel!AssignedKeys
    <3>4. claimants'[p[2]] \subseteq unassigning'
      BY <1>2, <1>3, <3>2, <3>3
    <3>5. ~Panel!Keeps(p[1])'
      BY <1>2, <1>3, <3>1, <3>2 DEF Panel!Keeps, Panel!AssignedKeys
    <3> QED
      BY <3>4, <3>5
  <2>3. staged' \subseteq staged
    BY <1>3
  <2> QED
    BY <1>2, <2>1, <2>2, <2>3 DEF PanelInv, StagedWell
<1>4. CASE unassigning' = unassigning \cup F /\ staged' = staged
  <2>1. SnapshotHolds'
    BY <1>2, <1>4 DEF PanelInv, SnapshotHolds
  <2>2. ASSUME NEW p \in staged
        PROVE  claimants'[p[2]] \subseteq unassigning' /\ ~Panel!Keeps(p[1])'
    BY <1>2, <1>4, <2>2 DEF PanelInv, StagedWell, Panel!Keeps, Panel!AssignedKeys
  <2> QED
    BY <1>2, <1>4, <2>1, <2>2 DEF PanelInv, StagedWell
<1> QED
  BY <1>3, <1>4 DEF Panel!SlotClicked, Panel!Reclaim

\* Files that are mapped by their names take free slots, and no two of them one.
LEMMA NamesMapped ==
    ASSUME PanelInv, Panel!AutoMapRemaining
    PROVE  PanelInv'
<1>1. PICK M \in SUBSET {ByName[i] : i \in DOMAIN ByName} :
         /\ Panel!Suggested(M)
         /\ staged' = staged \cup {p \in M \X Slots : p[2] \in Evidence[p[1]]}
  BY DEF Panel!AutoMapRemaining
<1> DEFINE new == {p \in M \X Slots : p[2] \in Evidence[p[1]]}
<1>2. Panel!Stage /\ unassigning' = unassigning
  BY DEF Panel!AutoMapRemaining
<1>3. /\ UNCHANGED <<bulkFiles, claim, claimants, pool>>
      /\ ClaimsOfFiles' /\ pool' \subseteq Files
      /\ \A r \in Slots : claimants'[r] \subseteq pool'
  BY <1>2, StageKeeps
<1>4. DOMAIN ByName = 1 .. Len(ByName) /\ Len(ByName) \in Nat
  BY PanelAssumption
<1>5. \A f \in M : Panel!Mappable(f)
  BY <1>1 DEF Panel!Suggested
<1>6. \A f \in M : /\ f \in pool /\ ~Panel!Keeps(f) /\ Panel!StagedKeys(f) = {}
                   /\ \A s \in Evidence[f] : /\ claimants[s] \subseteq unassigning
                                             /\ \A h \in Files : <<h, s>> \notin staged
  BY <1>5 DEF Panel!Mappable, Panel!Stageable, Panel!KeyIsFree
<1>7. ASSUME NEW f \in M, NEW g \in M, f # g
      PROVE  Evidence[f] \cap Evidence[g] = {}
  <2>1. PICK i \in DOMAIN ByName : f = ByName[i]
    BY <1>1
  <2>2. PICK j \in DOMAIN ByName : g = ByName[j]
    BY <1>1
  <2>3. i < j \/ j < i
    BY <1>4, <1>7, <2>1, <2>2
  <2>4. \A m, n \in DOMAIN ByName :
           m < n /\ ByName[m] \in M /\ ByName[n] \in M
              => Evidence[ByName[m]] \cap Evidence[ByName[n]] = {}
    BY <1>1 DEF Panel!Suggested
  <2> QED
    BY <2>1, <2>2, <2>3, <2>4
<1>8. \A p \in new : p = <<p[1], p[2]>> /\ p[1] \in M /\ p[2] \in Slots /\ p[2] \in Evidence[p[1]]
  OBVIOUS
<1>9. \A p \in staged : p = <<p[1], p[2]>> /\ p[1] \in pool /\ p[1] \in Files /\ p[2] \in Slots
  BY DEF PanelInv, SnapshotHolds
<1> HIDE DEF new
<1>10. \A p \in new, q \in staged : q[1] # p[1] /\ q[2] # p[2]
  <2> SUFFICES ASSUME NEW p \in new, NEW q \in staged PROVE q[1] # p[1] /\ q[2] # p[2]
    OBVIOUS
  <2>1. q[1] # p[1]
    BY <1>6, <1>8, <1>9 DEF Panel!StagedKeys
  <2>2. q[2] # p[2]
    BY <1>6, <1>8, <1>9
  <2> QED
    BY <2>1, <2>2
<1>11. \A p, q \in new : /\ q[2] = p[2] => q = p
                         /\ q[1] = p[1] => q[2][1] = p[2][1]
  <2> SUFFICES ASSUME NEW p \in new, NEW q \in new
               PROVE  /\ q[2] = p[2] => q = p
                      /\ q[1] = p[1] => q[2][1] = p[2][1]
    OBVIOUS
  <2>1. p[1] \in Files
    BY <1>3, <1>6, <1>8
  <2>2. q[2] = p[2] => q[1] = p[1]
    BY <1>7, <1>8
  <2>3. q[1] = p[1] => q[2][1] = p[2][1]
    BY <1>8, <2>1, PanelAssumption
  <2> QED
    BY <1>8, <2>2, <2>3
<1>12. staged' = staged \cup new
  BY <1>1 DEF new
<1>13. StagedWell'
  <2> SUFFICES ASSUME NEW p \in staged'
               PROVE  /\ claimants'[p[2]] \subseteq unassigning' /\ ~Panel!Keeps(p[1])'
                      /\ \A q \in staged' : q[2] = p[2] => q = p
                      /\ \A q \in staged' : q[1] = p[1] => q[2][1] = p[2][1]
    BY DEF StagedWell
  <2>0. \A h : Panel!Keeps(h)' = Panel!Keeps(h)
    BY <1>2, <1>3, KeepsStay
  <2>1. CASE p \in staged
    BY <1>2, <1>3, <1>10, <1>12, <2>0, <2>1 DEF PanelInv, StagedWell
  <2>2. CASE p \in new
    <3>1. claimants'[p[2]] \subseteq unassigning' /\ ~Panel!Keeps(p[1])'
      BY <1>2, <1>3, <1>6, <1>8, <2>0, <2>2
    <3> QED
      BY <1>10, <1>11, <1>12, <2>2, <3>1
  <2> QED
    BY <1>12, <2>1, <2>2
<1>14. SnapshotHolds'
  <2>1. staged' \subseteq pool \X Slots
    <3>1. new \subseteq pool \X Slots
      BY <1>6, <1>8
    <3> QED
      BY <1>12, <3>1 DEF PanelInv, SnapshotHolds
  <2> QED
    BY <1>2, <1>3, <2>1 DEF PanelInv, SnapshotHolds
<1> QED
  BY <1>3, <1>13, <1>14 DEF PanelInv

LEMMA PanelEmptied ==
    ASSUME PanelInv, Panel!UnassignAll \/ Panel!Reset
    PROVE  PanelInv'
<1>1. Panel!Stage /\ staged' = {}
  BY DEF Panel!UnassignAll, Panel!Reset, Panel!ResetStaging
<1>2. /\ UNCHANGED <<bulkFiles, claim, claimants, pool>>
      /\ ClaimsOfFiles' /\ pool' \subseteq Files
      /\ \A r \in Slots : claimants'[r] \subseteq pool'
  BY <1>1, StageKeeps
<1>3. \A f \in unassigning' : \E s \in Slots : f \in claimants'[s]
  BY <1>2 DEF Panel!UnassignAll, Panel!Reset, Panel!ResetStaging, Panel!AssignedKeys
<1> QED
  BY <1>1, <1>2, <1>3 DEF PanelInv, SnapshotHolds, StagedWell

\* The mode ends, with or without anything applied.
LEMMA PanelLeft ==
    ASSUME PanelInv, Panel!Leave, ClaimsOfFiles'
    PROVE  PanelInv'
<1>1. pool' = {} /\ staged' = {} /\ unassigning' = {} /\ claimants' = [s \in Slots |-> {}]
  BY DEF Panel!Leave, Panel!ResetStaging, Panel!NobodyClaims
<1> QED
  BY <1>1 DEF PanelInv, SnapshotHolds, StagedWell

LEMMA AppliedClaims ==
    ASSUME PanelInv, Panel!Apply \/ Panel!Cancel
    PROVE  PanelInv'
<1>1. Panel!Leave
  BY DEF Panel!Apply, Panel!Cancel
<1>2. \/ UNCHANGED <<bulkFiles, claim>>
      \/ Panel!ApplyBulk
      \/ Panel!ApplyRaises
  BY DEF Panel!Apply, Panel!Cancel, Panel!tableVars
<1>3. CASE UNCHANGED <<bulkFiles, claim>>
  BY <1>1, <1>3, PanelLeft DEF PanelInv, ClaimsOfFiles
<1>4. CASE Panel!ApplyBulk
  <2>1. PICK dropped : Panel!Record(Panel!Landing, dropped)
    BY <1>4 DEF Panel!ApplyBulk
  <2>2. DOMAIN Panel!Landing \subseteq bulkFiles
    BY DEF Panel!Landing
  <2>3. ClaimsOfFiles'
    BY <2>1, <2>2, RecordedClaims DEF PanelInv
  <2> QED
    BY <1>1, <2>3, PanelLeft
<1>5. CASE Panel!ApplyRaises
  <2>1. PICK dropped : Panel!Record(Panel!NoFiles, dropped)
    BY <1>5 DEF Panel!ApplyRaises, Panel!MarkUnassigned
  <2>2. DOMAIN Panel!NoFiles \subseteq bulkFiles
    BY DEF Panel!NoFiles
  <2>3. ClaimsOfFiles'
    BY <2>1, <2>2, RecordedClaims DEF PanelInv
  <2> QED
    BY <1>1, <2>3, PanelLeft
<1> QED
  BY <1>2, <1>3, <1>4, <1>5

LEMMA PanelUntouched ==
    ASSUME PanelInv, UNCHANGED <<claimants, pool, staged, unassigning>>, ClaimsOfFiles'
    PROVE  PanelInv'
<1>1. \A f : Panel!Keeps(f)' = Panel!Keeps(f)
  BY KeepsStay
<1> QED
  BY <1>1 DEF PanelInv, SnapshotHolds, StagedWell

LEMMA ShowChanges ==
    ASSUME PanelInv, Panel!QueueChecked \/ Panel!Unqueue \/ Panel!FixMatch \/ Panel!EndRescan
    PROVE  PanelInv'
<1>1. UNCHANGED <<claimants, pool, staged, unassigning>>
  BY DEF Panel!QueueChecked, Panel!Unqueue, Panel!FixMatch, Panel!EndRescan, Panel!panelVars
<1>2. \/ UNCHANGED <<bulkFiles, claim>>
      \/ \E t \in Tables \cup {Panel!EmptyTable} : bulkFiles' = t.files /\ claim' = t.claim
  BY DEF Panel!QueueChecked, Panel!Unqueue, Panel!FixMatch, Panel!EndRescan, Panel!tableVars, Panel!TableOf
<1>3. ClaimsOfFiles'
  <2>1. CASE UNCHANGED <<bulkFiles, claim>>
    BY <2>1 DEF PanelInv, ClaimsOfFiles
  <2> QED
    BY <1>2, <2>1, NewTable
<1> QED
  BY <1>1, <1>3, PanelUntouched

LEMMA PanelStep ==
    ASSUME PanelInv, Panel!BulkNext
    PROVE  PanelInv'
BY PanelOpens, NamesMapped, PanelEmptied, DropHandled, SlotsClicked, AppliedClaims, ShowChanges
   DEF Panel!BulkNext

\* What is applied to the table of the snapshot is what was staged.
LEMMA ApplyTells ==
    ASSUME PanelInv, Panel!Apply, ~bulkScanning, Panel!Fresh, NEW f \in bulkFiles
    PROVE  IF Panel!StagedKeys(f) \in Runs THEN claim'[f].run = Panel!StagedKeys(f)
           ELSE f \notin unassigning => claim'[f] = claim[f]
<1>1. f \in Files /\ \A s \in Slots : claimants[s] = {h \in Files : s \in claim[h].run}
  BY DEF PanelInv, ClaimsOfFiles, Panel!Fresh, Panel!Claimants
<1>2. unassigning \subseteq bulkFiles
  BY <1>1 DEF PanelInv, ClaimsOfFiles, SnapshotHolds
<1>3. Panel!ApplyBulk
  BY <1>2 DEF Panel!Apply, Panel!ApplyRaises
<1> DEFINE taken == UNION {Panel!Landing[g].run : g \in DOMAIN Panel!Landing}
           dropped == unassigning \cup {g \in Files : claim[g].run \cap taken # {}}
<1>4. claim' = [g \in Files |-> IF g \in DOMAIN Panel!Landing THEN Panel!Landing[g]
                                ELSE IF g \in dropped THEN Panel!Unclaimed ELSE claim[g]]
  BY <1>3 DEF Panel!ApplyBulk, Panel!Record
<1>5. /\ DOMAIN Panel!Landing =
            {g \in bulkFiles : Panel!StagedKeys(g) \in Runs /\ Panel!StagedKeys(g) \subseteq bulkSlots}
      /\ \A g \in DOMAIN Panel!Landing : Panel!Landing[g].run = Panel!StagedKeys(g)
  BY DEF Panel!Landing, Panel!Claim
<1> HIDE DEF taken, dropped
<1>6. CASE Panel!StagedKeys(f) \in Runs
  <2>1. Panel!StagedKeys(f) \subseteq bulkSlots
    BY DEF Panel!StagedKeys, Panel!Fresh
  <2> QED
    BY <1>1, <1>4, <1>5, <1>6, <2>1
<1>7. CASE Panel!StagedKeys(f) \notin Runs /\ f \notin unassigning
  <2>1. claim[f].run \cap taken = {}
    <3> SUFFICES ASSUME NEW s \in claim[f].run, s \in taken PROVE FALSE
      OBVIOUS
    <3>1. PICK g \in DOMAIN Panel!Landing : s \in Panel!StagedKeys(g)
      BY <1>5 DEF taken
    <3>2. s \in Slots /\ <<g, s>> \in staged
      BY <3>1 DEF Panel!StagedKeys
    <3>3. <<g, s>>[2] = s
      OBVIOUS
    <3>4. claimants[s] \subseteq unassigning
      BY <3>2, <3>3 DEF PanelInv, StagedWell
    <3> QED
      BY <1>1, <1>7, <3>2, <3>4
  <2>2. f \notin DOMAIN Panel!Landing /\ f \notin dropped
    BY <1>5, <1>7, <2>1 DEF dropped
  <2> QED
    BY <1>1, <1>4, <1>7, <2>2
<1> QED
  BY <1>6, <1>7

LEMMA StagingTold == ASSUME PanelInv PROVE Panel!StagingHolds
<1>1. unassigning \subseteq pool
  BY DEF PanelInv, SnapshotHolds
<1> QED
  BY <1>1 DEF PanelInv, SnapshotHolds, StagedWell, Panel!StagingHolds

LEMMA PanelInSuite == SuiteSpec => [](part = "bulk" => PanelInv)
<1>1. SuiteInit => (part = "bulk" => PanelInv)
  BY PanelStarts DEF SuiteInit
<1>2. (part = "bulk" => PanelInv) /\ [SuiteNext]_suiteVars => (part = "bulk" => PanelInv)'
  <2> SUFFICES ASSUME part = "bulk" => PanelInv, [SuiteNext]_suiteVars, part' = "bulk"
               PROVE  PanelInv'
    OBVIOUS
  <2>1. CASE part = "bulk" /\ Panel!BulkNext
    BY <2>1, PanelStep
  <2>2. CASE UNCHANGED suiteVars
    <3>1. part = "bulk" /\ UNCHANGED <<claimants, pool, staged, unassigning, bulkFiles, claim>>
      BY <2>2 DEF suiteVars, panelVars
    <3> QED
      BY <3>1, PanelUntouched DEF PanelInv, ClaimsOfFiles
  <2> QED
    BY <2>1, <2>2 DEF SuiteNext
<1> QED
  BY <1>1, <1>2, PTL DEF SuiteSpec

\* What is staged in Bulk Assign never conflicts with itself or with what it leaves
\* alone, for any show and any order of drops, clicks and suggestions; and applied
\* to the table the panel was opened on it does what the panel showed and nothing
\* else (_bulk_assign_panel.py, episode_mapping_service.py apply_bulk).
THEOREM StagingIsAlwaysApplied == SuiteSpec => StagingIsApplied
<1>1. (part = "bulk" => PanelInv) => (part = "bulk" => Panel!StagingHolds)
  BY StagingTold
<1>2. (part = "bulk" => PanelInv) /\ [SuiteNext]_suiteVars =>
        [(part = "bulk" /\ Panel!Apply /\ ~bulkScanning /\ Panel!Fresh) =>
            \A f \in bulkFiles :
               IF Panel!StagedKeys(f) \in Runs THEN claim'[f].run = Panel!StagedKeys(f)
               ELSE f \notin unassigning => claim'[f] = claim[f]]_suiteVars
  BY ApplyTells
<1> QED
  BY <1>1, <1>2, PanelInSuite, PTL DEF SuiteSpec, StagingIsApplied

(***************************************************************************)
(* The table of episodes and the cache of guides, for any number of shows, *)
(* scans, edits and renders.                                               *)
(***************************************************************************)
GuideSigns == Matches \X Previews
GuideEvents ==
    [kind : {"guide_ready"}, show : Shows, token : Nat, signature : GuideSigns, built : Previews]
    \cup [kind : {"guide_failed"}, show : Shows, token : Nat]
    \cup [kind : {"overview_ready"}, match : Matches, text : Matches \cup {"nothing"}]
    \cup [kind : {"library_changed"}]
GuideNews(e) == e.kind = "guide_ready" \/ e.kind = "guide_failed"
IsBuilder(b) ==
    /\ b = [show |-> b.show, token |-> b.token, pc |-> b.pc, signature |-> b.signature]
    /\ b.show \in Shows /\ b.token \in Nat /\ (b.pc = "build" => b.signature \in GuideSigns)
IsRescan(r) ==
    /\ r = [id |-> r.id, show |-> r.show, pc |-> r.pc, signature |-> r.signature, built |-> r.built]
    /\ r.show \in Shows

GuideTypes ==
    /\ content \in [Shows -> Previews] /\ matched \in [Shows -> Matches]
    /\ scanFailed \in [Shows -> BOOLEAN] /\ DOMAIN seasonsClosed = Shows
    /\ shown \in Shows \cup {"nothing"} /\ renders \in 0 .. MaxRenders
    /\ table \in {"none", "loading", "error", "guide"}
    /\ \A b \in builders : IsBuilder(b)
    /\ \A r \in showRescans : IsRescan(r)
    /\ guideEvents \in Seq(GuideEvents)

\* A token has one guide: in the making or on its way.
TokensApart ==
    /\ \A b \in builders : b.token <= renders
    /\ \A b, c \in builders : b.token = c.token => b = c
    /\ \A i \in 1 .. Len(guideEvents) : GuideNews(guideEvents[i]) =>
          /\ guideEvents[i].token <= renders
          /\ \A b \in builders : b.token # guideEvents[i].token
    /\ \A i, k \in 1 .. Len(guideEvents) :
          GuideNews(guideEvents[i]) /\ GuideNews(guideEvents[k])
             /\ guideEvents[i].token = guideEvents[k].token => i = k

\* The newest guide asked for is in the making, or waits for the GUI thread.
NewestComes ==
    \/ \E b \in builders : b.token = renders
    \/ \E i \in 1 .. Len(guideEvents) : GuideNews(guideEvents[i]) /\ guideEvents[i].token = renders
ShownComes ==
    \/ \E b \in builders : b.token = renders /\ b.show = shown
    \/ \E i \in 1 .. Len(guideEvents) :
          GuideNews(guideEvents[i]) /\ guideEvents[i].token = renders /\ guideEvents[i].show = shown

ScreenWell ==
    /\ shown = "nothing" => table = "none" /\ entries = <<>>
    /\ table = "loading" => ShownComes
    /\ NewestComes => table \in {"loading", "error"}
    /\ table = "guide" => entries = Guide!TableEntries(guide, problems, seasonsClosed[shown])
    /\ table # "guide" => expanded = 0 /\ \A i \in DOMAIN entries : entries[i].kind # "episode"
    /\ expanded = 0 \/ expanded \in DOMAIN entries
    /\ Guide!ExpandedRowHasFile

\* A scan of the show, or what it announced, will have the table made anew.
MadeAnew ==
    \/ \E r \in showRescans : r.show = shown /\ r.pc \in {"reconcile", "build", "store", "end"}
    \/ \E i \in 1 .. Len(guideEvents) : guideEvents[i].kind = "library_changed"

\* What is displayed, or would be as soon as it arrives, is true or made anew.
GuidesTrue ==
    shown \in Shows /\ ~scanFailed[shown] =>
       /\ table = "guide" /\ shown \notin relapsed /\ guide # content[shown] => MadeAnew
       /\ \A i \in 1 .. Len(guideEvents) :
             /\ guideEvents[i].kind = "guide_ready" /\ guideEvents[i].token = renders
             /\ guideEvents[i].show = shown /\ guideEvents[i].built # content[shown]
             => MadeAnew

\* No guide of other rows goes by the rows of a show.
NoneMisleads == \A s \in Shows \ relapsed : ~Guide!Misleads(s, content[s])

\* The header has the overview of the show, or waits for it.
HeaderWaits ==
    shown \in Shows =>
       \/ matched[shown] \in loading
       \/ /\ matched[shown] \in DOMAIN overviews
          /\ series = overviews[matched[shown]]
          /\ ~episodeUp => overview = series

GuideInv == /\ GuideTypes /\ TokensApart /\ ScreenWell /\ GuidesTrue
            /\ NoneMisleads /\ HeaderWaits

\* Events and sequences of them.
LEMMA EventsTold ==
    /\ \A e \in GuideEvents : GuideNews(e) => e.show \in Shows /\ e.token \in Nat
    /\ \A s \in Shows, t \in Nat, g \in GuideSigns, p \in Previews :
          [kind |-> "guide_ready", show |-> s, token |-> t, signature |-> g, built |-> p] \in GuideEvents
    /\ \A s \in Shows, t \in Nat : [kind |-> "guide_failed", show |-> s, token |-> t] \in GuideEvents
    /\ \A m \in Matches, v \in Matches \cup {"nothing"} :
          [kind |-> "overview_ready", match |-> m, text |-> v] \in GuideEvents
    /\ [kind |-> "library_changed"] \in GuideEvents
BY DEF GuideEvents, GuideNews

LEMMA EventAdded ==
    ASSUME guideEvents \in Seq(GuideEvents), NEW e \in GuideEvents, guideEvents' = Append(guideEvents, e)
    PROVE  /\ guideEvents' \in Seq(GuideEvents)
           /\ Len(guideEvents) \in Nat /\ Len(guideEvents)' = Len(guideEvents) + 1
           /\ \A i \in 1 .. Len(guideEvents) : guideEvents'[i] = guideEvents[i]
           /\ guideEvents'[Len(guideEvents) + 1] = e
OBVIOUS

LEMMA EventTaken ==
    ASSUME guideEvents \in Seq(GuideEvents), guideEvents # <<>>, guideEvents' = Tail(guideEvents)
    PROVE  /\ guideEvents' \in Seq(GuideEvents)
           /\ Len(guideEvents) \in Nat /\ Len(guideEvents) >= 1 /\ Len(guideEvents)' = Len(guideEvents) - 1
           /\ \A i \in 1 .. Len(guideEvents)' : i + 1 \in 1 .. Len(guideEvents) /\ guideEvents'[i] = guideEvents[i + 1]
           /\ Head(guideEvents) = guideEvents[1] /\ Head(guideEvents) \in GuideEvents
OBVIOUS

\* What rendering a show comes to: an error, a cached guide, or one that is asked for.
Rendered(s, only, peek, shows) ==
    /\ shown' = s /\ problems' = only /\ expanded' = 0 /\ DOMAIN seasonsClosed' = Shows
    /\ \/ /\ scanFailed'[s] /\ table' = "error" /\ entries' = <<>>
          /\ renders' = renders /\ builders' = builders
       \/ /\ ~scanFailed'[s] /\ renders < MaxRenders /\ renders' = renders + 1
          /\ table' = "guide" /\ builders' = builders
          /\ <<s, matched'[s]>> \in DOMAIN peek
          /\ peek[<<s, matched'[s]>>].signature = <<matched'[s], shows[s]>>
          /\ guide' = peek[<<s, matched'[s]>>].guide
          /\ entries' = Guide!TableEntries(guide', only, seasonsClosed'[s])
       \/ /\ ~scanFailed'[s] /\ renders < MaxRenders /\ renders' = renders + 1
          /\ table' = "loading"
          /\ \A i \in DOMAIN entries' : entries'[i].kind # "episode"
          /\ builders' = builders \cup {[show |-> s, token |-> renders', pc |-> "sign", signature |-> <<>>]}

LEMMA RenderGuideTells ==
    ASSUME GuideTypes, NEW s \in Shows, NEW g, NEW only, NEW closed, Guide!RenderGuide(s, g, only, closed)
    PROVE  /\ table' = "guide" /\ guide' = g /\ DOMAIN seasonsClosed' = Shows
           /\ entries' = Guide!TableEntries(g, only, seasonsClosed'[s])
<1> DEFINE all == closed \cup Guide!AutoCollapsed(g, only, autoDone[s])
<1>1. /\ table' = "guide" /\ guide' = g /\ entries' = Guide!TableEntries(g, only, all)
      /\ seasonsClosed' = [seasonsClosed EXCEPT ![s] = all]
  BY DEF Guide!RenderGuide
<1>2. DOMAIN seasonsClosed' = Shows /\ seasonsClosed'[s] = all
  BY <1>1 DEF GuideTypes
<1> QED
  BY <1>1, <1>2

LEMMA RenderTells ==
    ASSUME TableAssumption, GuideTypes, NEW s \in Shows, NEW only, NEW closed, NEW peek, NEW shows,
           Guide!Render(s, only, closed, peek, shows)
    PROVE  Rendered(s, only, peek, shows)
<1> DEFINE k == <<s, matched'[s]>>
           hit == k \in DOMAIN peek /\ peek[k].signature = <<matched'[s], shows[s]>>
<1>1. s # "nothing" /\ DOMAIN seasonsClosed = Shows
  BY DEF TableAssumption, GuideTypes
<1>2. shown' = s /\ problems' = only /\ expanded' = 0
  BY DEF Guide!Render, Guide!ExpandedAfter
<1>3. CASE scanFailed'[s]
  <2>1. /\ table' = "error" /\ entries' = <<>> /\ renders' = renders /\ builders' = builders
        /\ seasonsClosed' = [seasonsClosed EXCEPT ![s] = closed]
    BY <1>1, <1>3 DEF Guide!Render, Guide!Nothing
  <2>2. DOMAIN seasonsClosed' = Shows
    BY <1>1, <2>1
  <2> QED
    BY <1>2, <1>3, <2>1, <2>2 DEF Rendered
<1>4. CASE ~scanFailed'[s]
  <2>1. /\ renders < MaxRenders /\ renders' = renders + 1
        /\ IF hit THEN Guide!RenderGuide(s, peek[k].guide, only, closed) /\ UNCHANGED builders
           ELSE /\ table' = "loading"
                /\ entries' = <<Guide!Entry("section-label", "loading"), Guide!Entry("skeleton", Guide!Nothing)>>
                /\ builders' = builders \cup {[show |-> s, token |-> renders', pc |-> "sign", signature |-> <<>>]}
                /\ seasonsClosed' = [seasonsClosed EXCEPT ![s] = closed]
    BY <1>1, <1>4 DEF Guide!Render, Guide!Nothing
  <2>2. CASE hit
    <3>1. Guide!RenderGuide(s, peek[k].guide, only, closed) /\ UNCHANGED builders
      BY <2>1, <2>2
    <3>2. /\ table' = "guide" /\ guide' = peek[k].guide /\ DOMAIN seasonsClosed' = Shows
          /\ entries' = Guide!TableEntries(peek[k].guide, only, seasonsClosed'[s])
      BY <3>1, RenderGuideTells
    <3> QED
      BY <1>2, <1>4, <2>1, <2>2, <3>1, <3>2, Zenon DEF Rendered
  <2>3. CASE ~hit
    <3>1. \A i \in DOMAIN entries' : entries'[i].kind # "episode"
      BY <2>1, <2>3 DEF Guide!Entry
    <3>2. DOMAIN seasonsClosed' = Shows
      BY <1>1, <2>1, <2>3
    <3> QED
      BY <1>2, <1>4, <2>1, <2>3, <3>1, <3>2 DEF Rendered
  <2> QED
    BY <2>2, <2>3
<1> QED
  BY <1>3, <1>4

\* A render starts from nothing that is displayed or on its way; what was on its way
\* is stale, or the show failed.
LEMMA RenderedWell ==
    ASSUME TableAssumption, GuideInv, NEW s \in Shows, NEW only, NEW peek, NEW shows,
           Rendered(s, only, peek, shows),
           content' \in [Shows -> Previews], matched' \in [Shows -> Matches],
           scanFailed' \in [Shows -> BOOLEAN], \A r \in showRescans' : IsRescan(r),
           shows[s] = content'[s],
           \A k \in DOMAIN peek : k = <<s, matched'[s]>> /\ peek[k].signature = <<matched'[s], shows[s]>>
               => s \in relapsed' \/ peek[k].guide = content'[s],
           \/ guideEvents' = guideEvents
           \/ guideEvents # <<>> /\ guideEvents' = Tail(guideEvents)
    PROVE  (GuideTypes /\ TokensApart /\ ScreenWell /\ GuidesTrue)'
<1> DEFINE new == [show |-> s, token |-> renders', pc |-> "sign", signature |-> <<>>]
<1>1. PICK d \in {0, 1} :
        /\ guideEvents' \in Seq(GuideEvents) /\ Len(guideEvents) \in Nat /\ Len(guideEvents') \in Nat
        /\ \A i \in 1 .. Len(guideEvents') :
              i + d \in 1 .. Len(guideEvents) /\ guideEvents'[i] = guideEvents[i + d]
  <2>1. CASE guideEvents' = guideEvents
    BY <2>1 DEF GuideInv, GuideTypes
  <2>2. CASE guideEvents # <<>> /\ guideEvents' = Tail(guideEvents)
    <3>1. /\ guideEvents' \in Seq(GuideEvents) /\ Len(guideEvents) \in Nat
          /\ Len(guideEvents') = Len(guideEvents) - 1 /\ Len(guideEvents) >= 1
          /\ \A i \in 1 .. Len(guideEvents') : i + 1 \in 1 .. Len(guideEvents) /\ guideEvents'[i] = guideEvents[i + 1]
      BY <2>2, EventTaken DEF GuideInv, GuideTypes
    <3>2. Len(guideEvents') \in Nat /\ 1 \in {0, 1}
      BY <3>1
    <3> QED
      BY <3>1, <3>2, Zenon
  <2> QED
    BY <2>1, <2>2
<1>2. /\ renders \in Nat /\ renders' \in 0 .. MaxRenders /\ renders' \in {renders, renders + 1}
      /\ renders' = renders => builders' = builders /\ scanFailed'[s]
      /\ \/ builders' = builders
         \/ builders' = builders \cup {new} /\ renders' = renders + 1
  BY DEF Rendered, TableAssumption, GuideInv, GuideTypes
<1>3. IsBuilder(new)
  BY <1>2 DEF IsBuilder
<1>4. /\ \A b \in builders : b.token \in Nat /\ b.token <= renders
      /\ \A b, c \in builders : b.token = c.token => b = c
  BY DEF GuideInv, GuideTypes, TokensApart, IsBuilder
<1>5. /\ \A i \in 1 .. Len(guideEvents) : GuideNews(guideEvents[i]) =>
            /\ guideEvents[i].token \in Nat /\ guideEvents[i].token <= renders
            /\ \A b \in builders : b.token # guideEvents[i].token
      /\ \A i, k \in 1 .. Len(guideEvents) :
            GuideNews(guideEvents[i]) /\ GuideNews(guideEvents[k])
               /\ guideEvents[i].token = guideEvents[k].token => i = k
  BY EventsTold DEF GuideInv, GuideTypes, TokensApart
<1>6. GuideTypes'
  <2>1. \A b \in builders' : IsBuilder(b)
    BY <1>2, <1>3 DEF GuideInv, GuideTypes
  <2> QED
    BY <1>1, <1>2, <2>1 DEF Rendered, GuideTypes
<1>7. TokensApart'
  <2>1. \A b \in builders' : b.token <= renders'
    BY <1>2, <1>4
  <2>2. \A b, c \in builders' : b.token = c.token => b = c
    BY <1>2, <1>4
  <2>3. \A i \in 1 .. Len(guideEvents') : GuideNews(guideEvents'[i]) =>
            /\ guideEvents'[i].token <= renders'
            /\ \A b \in builders' : b.token # guideEvents'[i].token
    <3> SUFFICES ASSUME NEW i \in 1 .. Len(guideEvents'), GuideNews(guideEvents'[i])
                 PROVE  guideEvents'[i].token <= renders' /\ \A b \in builders' : b.token # guideEvents'[i].token
      OBVIOUS
    <3>1. /\ i + d \in 1 .. Len(guideEvents) /\ guideEvents'[i] = guideEvents[i + d]
          /\ guideEvents'[i].token \in Nat /\ guideEvents'[i].token <= renders
      BY <1>1, <1>5
    <3> QED
      BY <1>2, <1>5, <3>1
  <2>4. \A i, k \in 1 .. Len(guideEvents') :
            GuideNews(guideEvents'[i]) /\ GuideNews(guideEvents'[k])
               /\ guideEvents'[i].token = guideEvents'[k].token => i = k
    <3> SUFFICES ASSUME NEW i \in 1 .. Len(guideEvents'), NEW k \in 1 .. Len(guideEvents'),
                        GuideNews(guideEvents'[i]), GuideNews(guideEvents'[k]),
                        guideEvents'[i].token = guideEvents'[k].token
                 PROVE  i = k
      OBVIOUS
    <3>1. /\ i + d \in 1 .. Len(guideEvents) /\ guideEvents'[i] = guideEvents[i + d]
          /\ k + d \in 1 .. Len(guideEvents) /\ guideEvents'[k] = guideEvents[k + d]
      BY <1>1
    <3>2. i + d = k + d
      BY <1>5, <3>1
    <3> QED
      BY <3>2
  <2> QED
    BY <2>1, <2>2, <2>3, <2>4 DEF TokensApart
<1>8. renders' = renders + 1 =>
        /\ \A i \in 1 .. Len(guideEvents') : GuideNews(guideEvents'[i]) => guideEvents'[i].token # renders'
        /\ \A b \in builders : b.token # renders'
  <2>1. ASSUME NEW i \in 1 .. Len(guideEvents'), GuideNews(guideEvents'[i]) PROVE guideEvents'[i].token <= renders
    BY <1>1, <1>5, <2>1
  <2>2. ASSUME NEW i \in 1 .. Len(guideEvents'), GuideNews(guideEvents'[i]) PROVE guideEvents'[i].token \in Nat
    BY <1>1, <1>5, <2>2
  <2> QED
    BY <1>2, <1>4, <2>1, <2>2
<1>9. ScreenWell'
  <2>1. CASE scanFailed'[s]
    <3>1. table' = "error" /\ entries' = <<>> /\ expanded' = 0 /\ shown' = s
      BY <2>1 DEF Rendered
    <3> QED
      BY <3>1 DEF ScreenWell, Guide!ExpandedRowHasFile, TableAssumption
  <2>2. CASE ~scanFailed'[s] /\ builders' = builders /\ table' = "guide"
    <3>1. /\ entries' = Guide!TableEntries(guide', problems', seasonsClosed'[shown'])
          /\ expanded' = 0 /\ shown' = s /\ renders' = renders + 1
      BY <2>2 DEF Rendered
    <3>2. ~NewestComes'
      BY <1>8, <2>2, <3>1 DEF NewestComes
    <3> QED
      BY <2>2, <3>1, <3>2 DEF ScreenWell, Guide!ExpandedRowHasFile, TableAssumption
  <2>3. CASE ~scanFailed'[s] /\ table' = "loading"
    <3>1. /\ \A i \in DOMAIN entries' : entries'[i].kind # "episode"
          /\ expanded' = 0 /\ shown' = s /\ builders' = builders \cup {new}
      BY <2>3 DEF Rendered
    <3>2. new \in builders' /\ new.token = renders' /\ new.show = shown'
      BY <3>1
    <3> QED
      BY <2>3, <3>1, <3>2 DEF ScreenWell, ShownComes, Guide!ExpandedRowHasFile, TableAssumption
  <2> QED
    BY <2>1, <2>2, <2>3 DEF Rendered
<1>10. GuidesTrue'
  <2> SUFFICES ASSUME ~scanFailed'[s]
               PROVE  /\ table' = "guide" /\ s \notin relapsed' => guide' = content'[s]
                      /\ \A i \in 1 .. Len(guideEvents') :
                            guideEvents'[i].kind = "guide_ready" => guideEvents'[i].token # renders'
    BY DEF Rendered, GuidesTrue
  <2>1. table' = "guide" /\ s \notin relapsed' => guide' = content'[s]
    BY DEF Rendered
  <2> QED
    BY <1>2, <1>8, <2>1 DEF GuideNews
<1> QED
  BY <1>6, <1>7, <1>9, <1>10

\* What the pool does leaves the table as it is; it stays true, or is made anew.
ScreenVars == <<shown, renders, table, guide, entries, expanded, problems, seasonsClosed, builders>>
LEMMA ScreenStays ==
    ASSUME GuideInv, UNCHANGED ScreenVars,
           content' \in [Shows -> Previews], matched' \in [Shows -> Matches],
           scanFailed' \in [Shows -> BOOLEAN], \A r \in showRescans' : IsRescan(r),
           relapsed \subseteq relapsed',
           \/ guideEvents' = guideEvents
           \/ \E e \in GuideEvents : ~GuideNews(e) /\ guideEvents' = Append(guideEvents, e),
           shown \in Shows =>
              \/ MadeAnew' \/ scanFailed'[shown]
              \/ /\ content'[shown] = content[shown] /\ scanFailed'[shown] = scanFailed[shown]
                 /\ MadeAnew => MadeAnew'
    PROVE  (GuideTypes /\ TokensApart /\ ScreenWell /\ GuidesTrue)'
<1>1. /\ guideEvents' \in Seq(GuideEvents) /\ Len(guideEvents) \in Nat /\ Len(guideEvents') \in Nat
      /\ Len(guideEvents) <= Len(guideEvents')
      /\ \A i \in 1 .. Len(guideEvents) : guideEvents'[i] = guideEvents[i]
      /\ \A i \in 1 .. Len(guideEvents') : GuideNews(guideEvents'[i]) => i \in 1 .. Len(guideEvents)
  <2>1. CASE guideEvents' = guideEvents
    BY <2>1 DEF GuideInv, GuideTypes
  <2>2. ASSUME NEW e \in GuideEvents, ~GuideNews(e), guideEvents' = Append(guideEvents, e)
        PROVE  <1>1!:
    <3>1. guideEvents \in Seq(GuideEvents)
      BY DEF GuideInv, GuideTypes
    <3>2. /\ guideEvents' \in Seq(GuideEvents)
          /\ Len(guideEvents) \in Nat /\ Len(guideEvents') = Len(guideEvents) + 1
          /\ \A i \in 1 .. Len(guideEvents) : guideEvents'[i] = guideEvents[i]
          /\ guideEvents'[Len(guideEvents) + 1] = e
      BY <2>2, <3>1, EventAdded
    <3>3. \A i \in 1 .. Len(guideEvents') : i \in 1 .. Len(guideEvents) \/ i = Len(guideEvents) + 1
      BY <3>2
    <3> QED
      BY <2>2, <3>2, <3>3
  <2> QED
    BY <2>1, <2>2
<1>2. UNCHANGED <<shown, renders, table, guide, entries, expanded, problems, seasonsClosed, builders>>
  BY DEF ScreenVars
<1>3. GuideTypes'
  BY <1>1, <1>2 DEF GuideInv, GuideTypes
<1>4. TokensApart'
  <2>1. /\ \A b \in builders' : b.token <= renders'
        /\ \A b, c \in builders' : b.token = c.token => b = c
    BY <1>2 DEF GuideInv, TokensApart
  <2>2. \A i \in 1 .. Len(guideEvents') : GuideNews(guideEvents'[i]) =>
          /\ guideEvents'[i].token <= renders'
          /\ \A b \in builders' : b.token # guideEvents'[i].token
    BY <1>1, <1>2 DEF GuideInv, TokensApart
  <2>3. \A i, k \in 1 .. Len(guideEvents') :
          GuideNews(guideEvents'[i]) /\ GuideNews(guideEvents'[k])
             /\ guideEvents'[i].token = guideEvents'[k].token => i = k
    BY <1>1 DEF GuideInv, TokensApart
  <2> QED
    BY <2>1, <2>2, <2>3 DEF TokensApart
<1>5. (ShownComes => ShownComes') /\ (NewestComes' => NewestComes)
  <2>1. ShownComes => ShownComes'
    <3>1. \A i \in 1 .. Len(guideEvents) : i \in 1 .. Len(guideEvents')
      BY <1>1
    <3> QED
      BY <1>1, <1>2, <3>1 DEF ShownComes
  <2>2. NewestComes' => NewestComes
    BY <1>1, <1>2 DEF NewestComes
  <2> QED
    BY <2>1, <2>2
<1>6. ScreenWell'
  BY <1>2, <1>5 DEF GuideInv, ScreenWell, Guide!ExpandedRowHasFile
<1>7. GuidesTrue'
  <2> SUFFICES ASSUME shown \in Shows, ~scanFailed'[shown], ~MadeAnew'
               PROVE  /\ ~(table = "guide" /\ shown \notin relapsed' /\ guide # content'[shown])
                      /\ \A i \in 1 .. Len(guideEvents') :
                            ~(/\ guideEvents'[i].kind = "guide_ready" /\ guideEvents'[i].token = renders
                              /\ guideEvents'[i].show = shown /\ guideEvents'[i].built # content'[shown])
    BY <1>2 DEF GuidesTrue
  <2>1. content'[shown] = content[shown] /\ ~scanFailed[shown] /\ ~MadeAnew
    OBVIOUS
  <2>2. /\ ~(table = "guide" /\ shown \notin relapsed /\ guide # content[shown])
        /\ \A i \in 1 .. Len(guideEvents) :
              ~(/\ guideEvents[i].kind = "guide_ready" /\ guideEvents[i].token = renders
                /\ guideEvents[i].show = shown /\ guideEvents[i].built # content[shown])
    BY <2>1 DEF GuideInv, GuidesTrue
  <2>3. \A i \in 1 .. Len(guideEvents') : guideEvents'[i].kind = "guide_ready" =>
           i \in 1 .. Len(guideEvents) /\ guideEvents'[i] = guideEvents[i]
    BY <1>1 DEF GuideNews
  <2> QED
    BY <2>1, <2>2, <2>3
<1> QED
  BY <1>3, <1>4, <1>6, <1>7

\* Rows that change to what a guide of others goes by relapse.
LEMMA NoneMisleadsStays ==
    ASSUME NoneMisleads, content' \in [Shows -> Previews],
           relapsed' = relapsed \cup {s \in Shows : Guide!Relapses(s)},
           \A s \in Shows, p \in Previews : Guide!Misleads(s, p)' /\ content'[s] = p => Guide!Misleads(s, p)
    PROVE  NoneMisleads'
<1> SUFFICES ASSUME NEW s \in Shows \ relapsed', NEW p, p = content'[s], Guide!Misleads(s, p)' PROVE FALSE
  BY DEF NoneMisleads, Guide!Misleads
<1>1. Guide!Misleads(s, p)
  OBVIOUS
<1>2. content'[s] = content[s]
  BY <1>1 DEF Guide!Relapses
<1> QED
  BY <1>1, <1>2 DEF NoneMisleads

Relapsing == relapsed' = relapsed \cup {s \in Shows : Guide!Relapses(s)}

\* A cached guide that will go by the rows is of the rows.
LEMMA CachedIsTrue ==
    ASSUME NoneMisleads, Relapsing, NEW s \in Shows, NEW k \in DOMAIN guideCache, k[1] = s,
           guideCache[k].signature[2] = content'[s]
    PROVE  s \in relapsed' \/ guideCache[k].guide = content'[s]
<1> SUFFICES ASSUME s \notin relapsed', guideCache[k].guide # content'[s] PROVE FALSE
  OBVIOUS
<1> DEFINE p == content'[s]
<1>1. Guide!Misleads(s, p)
  BY DEF Guide!Misleads
<1>2. content'[s] = content[s] /\ s \notin relapsed
  BY <1>1 DEF Relapsing, Guide!Relapses
<1> QED
  BY <1>1, <1>2 DEF NoneMisleads

LEMMA PopulatedWell ==
    ASSUME GuideInv, Relapsing, NEW s \in Shows, NEW only, NEW closed, NEW peek, NEW shows,
           Guide!Render(s, only, closed, peek, shows),
           content' \in [Shows -> Previews], matched' \in [Shows -> Matches],
           scanFailed' \in [Shows -> BOOLEAN], \A r \in showRescans' : IsRescan(r),
           shows[s] = content'[s],
           \A k \in DOMAIN peek : \/ k \in DOMAIN guideCache /\ peek[k] = guideCache[k]
                                  \/ peek[k].guide = content'[s],
           \/ guideEvents' = guideEvents
           \/ guideEvents # <<>> /\ guideEvents' = Tail(guideEvents)
    PROVE  (GuideTypes /\ TokensApart /\ ScreenWell /\ GuidesTrue)'
<1>1. Rendered(s, only, peek, shows)
  BY RenderTells, TableAssumption DEF GuideInv
<1>2. ASSUME NEW k \in DOMAIN peek, k = <<s, matched'[s]>>, peek[k].signature = <<matched'[s], shows[s]>>
      PROVE  s \in relapsed' \/ peek[k].guide = content'[s]
  <2>1. k[1] = s /\ peek[k].signature[2] = content'[s]
    BY <1>2
  <2>2. CASE k \in DOMAIN guideCache /\ peek[k] = guideCache[k]
    BY <2>1, <2>2, CachedIsTrue DEF GuideInv
  <2> QED
    BY <1>2, <2>2
<1> QED
  BY <1>1, <1>2, RenderedWell, TableAssumption

LEMMA HeaderTakesShow ==
    ASSUME NEW s \in Shows, Guide!HeaderFor(s), shown' = s
    PROVE  HeaderWaits'
BY DEF Guide!HeaderFor, HeaderWaits

\* The user.
LEMMA SelectShowStep ==
    ASSUME GuideInv, Relapsing, NEW s \in Shows, Guide!SelectShow(s) PROVE GuideInv'
<1>1. /\ UNCHANGED <<content, matched, showRescanned, scanFailed, guideCache, showRescans, guideEvents>>
      /\ Guide!Render(s, problems, seasonsClosed[s], guideCache', content') /\ Guide!HeaderFor(s)
  BY DEF Guide!SelectShow, Guide!Populate, Guide!showVars
<1>2. (GuideTypes /\ TokensApart /\ ScreenWell /\ GuidesTrue)'
  <2>1. /\ content' \in [Shows -> Previews] /\ matched' \in [Shows -> Matches]
        /\ scanFailed' \in [Shows -> BOOLEAN] /\ \A r \in showRescans' : IsRescan(r)
    BY <1>1 DEF GuideInv, GuideTypes
  <2> QED
    BY <1>1, <2>1, PopulatedWell
<1>3. NoneMisleads'
  BY <1>1, NoneMisleadsStays DEF GuideInv, GuideTypes, Relapsing, Guide!Misleads, Guide!At
<1>4. HeaderWaits'
  <2>1. shown' = s
    BY <1>1 DEF Guide!Render
  <2> QED
    BY <1>1, <2>1, HeaderTakesShow
<1> QED
  BY <1>2, <1>3, <1>4 DEF GuideInv

LEMMA FilterChangedStep ==
    ASSUME GuideInv, Relapsing, Guide!FilterChanged PROVE GuideInv'
<1>1. /\ UNCHANGED <<content, matched, showRescanned, scanFailed, guideCache, showRescans, guideEvents>>
      /\ Guide!Render(shown, ~problems, seasonsClosed[shown], guideCache, content)
      /\ shown \in Shows /\ Guide!HeaderFor(shown)
  BY DEF Guide!FilterChanged, Guide!showVars, Guide!Nothing, GuideInv, GuideTypes
<1>2. (GuideTypes /\ TokensApart /\ ScreenWell /\ GuidesTrue)'
  <2>1. /\ content' \in [Shows -> Previews] /\ matched' \in [Shows -> Matches]
        /\ scanFailed' \in [Shows -> BOOLEAN] /\ \A r \in showRescans' : IsRescan(r)
    BY <1>1 DEF GuideInv, GuideTypes
  <2> QED
    BY <1>1, <2>1, PopulatedWell
<1>3. NoneMisleads'
  BY <1>1, NoneMisleadsStays DEF GuideInv, GuideTypes, Relapsing, Guide!Misleads, Guide!At
<1>4. HeaderWaits'
  <2>1. shown' = shown
    BY <1>1 DEF Guide!Render
  <2> QED
    BY <1>1, <2>1, HeaderTakesShow
<1> QED
  BY <1>2, <1>3, <1>4 DEF GuideInv

LEMMA ToggleSectionStep ==
    ASSUME GuideInv, Relapsing, NEW i \in DOMAIN entries, Guide!ToggleSection(i) PROVE GuideInv'
<1> DEFINE n      == entries[i].row
           closed == IF n \in seasonsClosed[shown] THEN seasonsClosed[shown] \ {n}
                     ELSE seasonsClosed[shown] \cup {n}
<1>1. /\ UNCHANGED <<content, matched, showRescanned, scanFailed, guideCache, showRescans, guideEvents>>
      /\ UNCHANGED <<overviews, loading, overview, series, episodeUp>>
      /\ Guide!Render(shown, problems, closed, guideCache, content)
  BY DEF Guide!ToggleSection, Guide!showVars, Guide!overviewVars
<1>2. CASE shown \in Shows
  <2>1. (GuideTypes /\ TokensApart /\ ScreenWell /\ GuidesTrue)'
    <3>1. /\ content' \in [Shows -> Previews] /\ matched' \in [Shows -> Matches]
          /\ scanFailed' \in [Shows -> BOOLEAN] /\ \A r \in showRescans' : IsRescan(r)
      BY <1>1 DEF GuideInv, GuideTypes
    <3> HIDE DEF closed
    <3> QED
      BY <1>1, <1>2, <3>1, PopulatedWell
  <2>2. NoneMisleads'
    BY <1>1, NoneMisleadsStays DEF GuideInv, GuideTypes, Relapsing, Guide!Misleads, Guide!At
  <2>3. HeaderWaits'
    <3>1. shown' = shown
      BY <1>1 DEF Guide!Render
    <3> QED
      BY <1>1, <3>1 DEF GuideInv, HeaderWaits
  <2> QED
    BY <2>1, <2>2, <2>3 DEF GuideInv
<1>3. CASE shown = "nothing"
  BY <1>3 DEF GuideInv, ScreenWell
<1> QED
  BY <1>2, <1>3 DEF GuideInv, GuideTypes

LEMMA ExpandStep ==
    ASSUME GuideInv, Relapsing, NEW i \in DOMAIN entries, Guide!Expand(i) PROVE GuideInv'
<1>1. /\ entries[i].kind = "episode" /\ entries[i].row.status # Guide!MissingFile
      /\ expanded' = i /\ overview' = "episode" /\ episodeUp' = TRUE
      /\ episodeUp => series' = series
      /\ ~episodeUp => series' = overview
      /\ UNCHANGED <<content, matched, showRescanned, scanFailed, guideCache, shown, renders, table, guide,
                     entries, problems, seasonsClosed, builders, showRescans, guideEvents, overviews, loading>>
  BY DEF Guide!Expand, Guide!showVars
<1>2. table = "guide"
  BY <1>1 DEF GuideInv, ScreenWell
<1>3. relapsed' = relapsed
  BY <1>1 DEF Relapsing, Guide!Relapses
<1>4. ScreenWell'
  <2>1. ShownComes' = ShownComes /\ NewestComes' = NewestComes
    BY <1>1 DEF ShownComes, NewestComes
  <2>2. Guide!ExpandedRowHasFile'
    BY <1>1 DEF Guide!ExpandedRowHasFile, Guide!MissingFile
  <2> QED
    BY <1>1, <1>2, <2>1, <2>2 DEF GuideInv, ScreenWell
<1>5. GuideTypes' /\ TokensApart'
  BY <1>1 DEF GuideInv, GuideTypes, TokensApart
<1>6. GuidesTrue'
  <2>1. MadeAnew' = MadeAnew
    BY <1>1 DEF MadeAnew
  <2> QED
    BY <1>1, <1>3, <2>1 DEF GuideInv, GuidesTrue
<1>7. NoneMisleads'
  BY <1>1, NoneMisleadsStays DEF GuideInv, GuideTypes, Relapsing, Guide!Misleads, Guide!At
<1>8. HeaderWaits'
  BY <1>1 DEF GuideInv, HeaderWaits
<1> QED
  BY <1>4, <1>5, <1>6, <1>7, <1>8 DEF GuideInv

LEMMA CollapseStep ==
    ASSUME GuideInv, Relapsing, Guide!Collapse PROVE GuideInv'
<1>1. /\ expanded' = 0 /\ episodeUp' = FALSE /\ series' = series
      /\ episodeUp => overview' = series
      /\ ~episodeUp => overview' = overview
      /\ UNCHANGED <<content, matched, showRescanned, scanFailed, guideCache, shown, renders, table, guide,
                     entries, problems, seasonsClosed, builders, showRescans, guideEvents, overviews, loading>>
  BY DEF Guide!Collapse, Guide!showVars
<1>3. relapsed' = relapsed
  BY <1>1 DEF Relapsing, Guide!Relapses
<1>4. ScreenWell'
  <2>1. ShownComes' = ShownComes /\ NewestComes' = NewestComes
    BY <1>1 DEF ShownComes, NewestComes
  <2>2. Guide!ExpandedRowHasFile'
    BY <1>1 DEF Guide!ExpandedRowHasFile
  <2> QED
    BY <1>1, <2>1, <2>2 DEF GuideInv, ScreenWell
<1>5. GuideTypes' /\ TokensApart'
  BY <1>1 DEF GuideInv, GuideTypes, TokensApart
<1>6. GuidesTrue'
  <2>1. MadeAnew' = MadeAnew
    BY <1>1 DEF MadeAnew
  <2> QED
    BY <1>1, <1>3, <2>1 DEF GuideInv, GuidesTrue
<1>7. NoneMisleads'
  BY <1>1, NoneMisleadsStays DEF GuideInv, GuideTypes, Relapsing, Guide!Misleads, Guide!At
<1>8. HeaderWaits'
  BY <1>1 DEF GuideInv, HeaderWaits
<1> QED
  BY <1>4, <1>5, <1>6, <1>7, <1>8 DEF GuideInv

LEMMA EditStep ==
    ASSUME GuideInv, Relapsing, Guide!Edit PROVE GuideInv'
<1>1. PICK p \in Previews :
        /\ content' = [content EXCEPT ![shown] = p]
        /\ guideCache' = Guide!Stored(Guide!Key(shown), <<matched[shown], p>>, p)
  BY DEF Guide!Edit
<1>2. /\ shown \in Shows
      /\ UNCHANGED <<matched, showRescanned, scanFailed, showRescans, guideEvents>>
      /\ Guide!Render(shown, problems, seasonsClosed[shown], guideCache', content') /\ Guide!HeaderFor(shown)
  BY DEF Guide!Edit, Guide!Populate, Guide!Nothing, GuideInv, GuideTypes
<1>3. /\ content' \in [Shows -> Previews] /\ content'[shown] = p
      /\ matched' \in [Shows -> Matches]
      /\ scanFailed' \in [Shows -> BOOLEAN] /\ \A r \in showRescans' : IsRescan(r)
  BY <1>1, <1>2 DEF GuideInv, GuideTypes
<1>4. /\ DOMAIN guideCache' = DOMAIN guideCache \cup {Guide!Key(shown)}
      /\ guideCache'[Guide!Key(shown)] = [signature |-> <<matched[shown], p>>, guide |-> p]
      /\ \A k \in DOMAIN guideCache : k # Guide!Key(shown) => guideCache'[k] = guideCache[k]
  <2> DEFINE key == Guide!Key(shown)
             new == <<matched[shown], p>>
  <2>1. guideCache' = [v \in DOMAIN guideCache \cup {key} |->
                           IF v = key THEN [signature |-> new, guide |-> p] ELSE guideCache[v]]
    BY <1>1 DEF Guide!Stored
  <2> HIDE DEF key, new
  <2>2. /\ DOMAIN guideCache' = DOMAIN guideCache \cup {key}
        /\ guideCache'[key] = [signature |-> new, guide |-> p]
        /\ \A k \in DOMAIN guideCache : k # key => guideCache'[k] = guideCache[k]
    BY <2>1
  <2> QED
    BY <2>2 DEF key, new
<1>5. (GuideTypes /\ TokensApart /\ ScreenWell /\ GuidesTrue)'
  <2>1. \A k \in DOMAIN guideCache' : \/ k \in DOMAIN guideCache /\ guideCache'[k] = guideCache[k]
                                      \/ guideCache'[k].guide = content'[shown]
    BY <1>3, <1>4
  <2> QED
    BY <1>2, <1>3, <2>1, PopulatedWell
<1>6. NoneMisleads'
  <2>1. ASSUME NEW s \in Shows, NEW q \in Previews, Guide!Misleads(s, q)', content'[s] = q
        PROVE  Guide!Misleads(s, q)
    <3>1. \/ \E k \in DOMAIN guideCache' : k[1] = s /\ guideCache'[k].signature[2] = q /\ guideCache'[k].guide # q
          \/ \E r \in showRescans : Guide!At(r, "store") /\ r.show = s /\ r.signature[2] = q /\ r.built # q
          \/ \E i \in DOMAIN guideEvents :
                /\ guideEvents[i].kind = "guide_ready" /\ guideEvents[i].show = s
                /\ guideEvents[i].signature[2] = q /\ guideEvents[i].built # q
      BY <1>2, <2>1 DEF Guide!Misleads, Guide!At
    <3>2. ASSUME NEW k \in DOMAIN guideCache', k[1] = s, guideCache'[k].signature[2] = q, guideCache'[k].guide # q
          PROVE  k \in DOMAIN guideCache /\ guideCache'[k] = guideCache[k]
      BY <1>4, <3>2
    <3> QED
      BY <3>1, <3>2 DEF Guide!Misleads
  <2> QED
    BY <1>3, <2>1, NoneMisleadsStays DEF GuideInv, Relapsing
<1>7. HeaderWaits'
  <2>1. shown' = shown
    BY <1>2 DEF Guide!Render
  <2> QED
    BY <1>2, <2>1, HeaderTakesShow
<1> QED
  BY <1>5, <1>6, <1>7 DEF GuideInv

LEMMA RematchStep ==
    ASSUME GuideInv, Relapsing, NEW m \in Matches, Guide!Rematch(m) PROVE GuideInv'
<1> DEFINE left == Guide!Without(Guide!Key(shown))
           new  == [id |-> Guide!Cardinality(showRescans), show |-> shown, pc |-> "begin",
                    signature |-> <<>>, built |-> Guide!Empty]
<1>1. /\ shown \in Shows
      /\ matched' = [matched EXCEPT ![shown] = m]
      /\ content' = [content EXCEPT ![shown] = Guide!Empty]
      /\ scanFailed' = [scanFailed EXCEPT ![shown] = FALSE]
      /\ UNCHANGED <<showRescanned, guideEvents>>
      /\ Guide!Render(shown, problems, seasonsClosed[shown], left, content') /\ Guide!HeaderFor(shown)
      /\ guideCache' = [k \in DOMAIN guideCache \ {Guide!Key(shown), <<shown, m>>} |-> guideCache[k]]
      /\ showRescans' = showRescans \cup {new}
  BY DEF Guide!Rematch, Guide!Nothing, GuideInv, GuideTypes
<1>2. /\ content' \in [Shows -> Previews] /\ matched' \in [Shows -> Matches]
      /\ scanFailed' \in [Shows -> BOOLEAN]
  BY <1>1, TableAssumption DEF GuideInv, GuideTypes, Guide!Empty
<1>3. \A r \in showRescans' : IsRescan(r)
  BY <1>1 DEF GuideInv, GuideTypes, IsRescan
<1>4. (GuideTypes /\ TokensApart /\ ScreenWell /\ GuidesTrue)'
  <2>1. \A k \in DOMAIN left : k \in DOMAIN guideCache /\ left[k] = guideCache[k]
    BY DEF Guide!Without
  <2>2. /\ Guide!Render(shown, problems, seasonsClosed[shown], left, content')
        /\ shown \in Shows /\ guideEvents' = guideEvents
    BY <1>1
  <2> HIDE DEF left
  <2> QED
    BY <1>2, <1>3, <2>1, <2>2, PopulatedWell
<1>5. NoneMisleads'
  <2>1. ASSUME NEW s \in Shows, NEW q \in Previews, Guide!Misleads(s, q)', content'[s] = q
        PROVE  Guide!Misleads(s, q)
    <3>1. \/ \E k \in DOMAIN guideCache' : k[1] = s /\ guideCache'[k].signature[2] = q /\ guideCache'[k].guide # q
          \/ \E r \in showRescans' : r.pc = "store" /\ r.show = s /\ r.signature[2] = q /\ r.built # q
          \/ \E i \in DOMAIN guideEvents :
                /\ guideEvents[i].kind = "guide_ready" /\ guideEvents[i].show = s
                /\ guideEvents[i].signature[2] = q /\ guideEvents[i].built # q
      BY <1>1, <2>1 DEF Guide!Misleads, Guide!At
    <3>2. \A k \in DOMAIN guideCache' : k \in DOMAIN guideCache /\ guideCache'[k] = guideCache[k]
      BY <1>1
    <3>3. \A r \in showRescans' : r.pc = "store" => r \in showRescans
      BY <1>1
    <3> QED
      BY <3>1, <3>2, <3>3 DEF Guide!Misleads, Guide!At
  <2> QED
    BY <1>2, <2>1, NoneMisleadsStays DEF GuideInv, Relapsing
<1>6. HeaderWaits'
  <2>1. shown' = shown
    BY <1>1 DEF Guide!Render
  <2> QED
    BY <1>1, <2>1, HeaderTakesShow
<1> QED
  BY <1>4, <1>5, <1>6 DEF GuideInv

\* The pool.
LEMMA LoadOverviewStep ==
    ASSUME GuideInv, Relapsing, NEW m \in Matches, Guide!LoadOverview(m) PROVE GuideInv'
<1>1. /\ UNCHANGED ScreenVars
      /\ UNCHANGED <<content, matched, showRescanned, scanFailed, guideCache, showRescans>>
      /\ UNCHANGED <<overviews, loading, overview, series, episodeUp>>
  BY DEF Guide!LoadOverview, Guide!showVars, Guide!modelVars, Guide!overviewVars, ScreenVars
<1>2. PICK e \in GuideEvents : e.kind = "overview_ready" /\ guideEvents' = Append(guideEvents, e)
  BY EventsTold DEF Guide!LoadOverview, Guide!Nothing
<1>3. /\ guideEvents' \in Seq(GuideEvents) /\ Len(guideEvents) \in Nat /\ Len(guideEvents') = Len(guideEvents) + 1
      /\ \A i \in 1 .. Len(guideEvents) : guideEvents'[i] = guideEvents[i]
      /\ guideEvents'[Len(guideEvents) + 1] = e
  BY <1>2, EventAdded DEF GuideInv, GuideTypes
<1>4. relapsed' = relapsed
  BY <1>1 DEF Relapsing, Guide!Relapses
<1>5. (GuideTypes /\ TokensApart /\ ScreenWell /\ GuidesTrue)'
  <2>1. MadeAnew => MadeAnew'
    <3>1. shown' = shown /\ \A i \in 1 .. Len(guideEvents) : i \in 1 .. Len(guideEvents')
      BY <1>1, <1>3 DEF ScreenVars
    <3> QED
      BY <1>1, <1>3, <3>1 DEF MadeAnew
  <2>2. /\ content' \in [Shows -> Previews] /\ matched' \in [Shows -> Matches]
        /\ scanFailed' \in [Shows -> BOOLEAN] /\ \A r \in showRescans' : IsRescan(r)
    BY <1>1 DEF GuideInv, GuideTypes
  <2>3. ~GuideNews(e)
    BY <1>2 DEF GuideNews
  <2> QED
    BY <1>1, <1>2, <1>4, <2>1, <2>2, <2>3, ScreenStays
<1>6. NoneMisleads'
  <2>1. ASSUME NEW s \in Shows, NEW q \in Previews, Guide!Misleads(s, q)', content'[s] = q
        PROVE  Guide!Misleads(s, q)
    <3>1. ASSUME NEW i \in DOMAIN guideEvents', guideEvents'[i].kind = "guide_ready"
          PROVE  i \in DOMAIN guideEvents /\ guideEvents'[i] = guideEvents[i]
      BY <1>2, <1>3, <3>1 DEF GuideInv, GuideTypes
    <3> QED
      BY <1>1, <2>1, <3>1 DEF Guide!Misleads, Guide!At
  <2> QED
    BY <1>1, <2>1, NoneMisleadsStays DEF GuideInv, GuideTypes, Relapsing
<1>7. HeaderWaits'
  BY <1>1 DEF GuideInv, HeaderWaits, ScreenVars
<1> QED
  BY <1>5, <1>6, <1>7 DEF GuideInv

LEMMA BuilderSigns ==
    ASSUME GuideInv, Relapsing, NEW b \in builders,
           UNCHANGED <<shown, renders, table, guide, entries, expanded, problems, seasonsClosed>>,
           UNCHANGED <<content, matched, showRescanned, scanFailed, guideCache, showRescans, guideEvents>>,
           UNCHANGED <<overviews, loading, overview, series, episodeUp>>,
           b.pc = "sign",
           builders' = (builders \ {b}) \cup {[b EXCEPT !.pc = "build", !.signature = Guide!Signature(b.show)]}
    PROVE  GuideInv'
<1> DEFINE sig == Guide!Signature(b.show)
           c   == [b EXCEPT !.pc = "build", !.signature = sig]
<1>1. c = [show |-> b.show, token |-> b.token, pc |-> "build", signature |-> sig] /\ b.show \in Shows /\ b.token \in Nat
  <2>1. b = [show |-> b.show, token |-> b.token, pc |-> b.pc, signature |-> b.signature] /\ b.show \in Shows /\ b.token \in Nat
    BY DEF GuideInv, GuideTypes, IsBuilder
  <2> DEFINE R(p, g) == [show |-> b.show, token |-> b.token, pc |-> p, signature |-> g]
             a == R(b.pc, b.signature)
  <2> HIDE DEF sig
  <2>2. [a EXCEPT !.pc = "build"] = R("build", b.signature) /\ [R("build", b.signature) EXCEPT !.signature = sig] = R("build", sig)
    OBVIOUS
  <2>3. [a EXCEPT !.pc = "build", !.signature = sig] = [[a EXCEPT !.pc = "build"] EXCEPT !.signature = sig]
    OBVIOUS
  <2>4. b = a
    BY <2>1
  <2> HIDE DEF a
  <2>5. c = R("build", sig)
    BY <2>2, <2>3, <2>4
  <2> QED
    BY <2>1, <2>5
<1>2. sig \in GuideSigns
  BY <1>1 DEF Guide!Signature, GuideSigns, GuideInv, GuideTypes
<1>3. /\ builders' = (builders \ {b}) \cup {c} /\ c.token = b.token /\ c.show = b.show
      /\ c.pc = "build" /\ c.signature = sig /\ IsBuilder(c)
  BY <1>1, <1>2 DEF IsBuilder
<1> HIDE DEF c
<1>4. relapsed' = relapsed
  BY DEF Relapsing, Guide!Relapses
<1>5. GuideTypes'
  BY <1>3 DEF GuideInv, GuideTypes
<1>6. TokensApart'
  BY <1>3 DEF GuideInv, TokensApart
<1>7. ScreenWell'
  <2>1. ShownComes' = ShownComes
    BY <1>3 DEF ShownComes
  <2>2. NewestComes' = NewestComes
    BY <1>3 DEF NewestComes
  <2> QED
    BY <2>1, <2>2 DEF GuideInv, ScreenWell, Guide!ExpandedRowHasFile
<1>8. GuidesTrue'
  BY <1>4 DEF GuideInv, GuidesTrue, MadeAnew
<1>9. NoneMisleads'
  BY NoneMisleadsStays DEF GuideInv, GuideTypes, Relapsing, Guide!Misleads, Guide!At
<1>10. HeaderWaits'
  BY DEF GuideInv, HeaderWaits
<1> QED
  BY <1>5, <1>6, <1>7, <1>8, <1>9, <1>10 DEF GuideInv

LEMMA BuilderEnds ==
    ASSUME GuideInv, Relapsing, NEW b \in builders, NEW e \in GuideEvents,
           UNCHANGED <<shown, renders, table, guide, entries, expanded, problems, seasonsClosed>>,
           UNCHANGED <<content, matched, showRescanned, scanFailed, guideCache, showRescans>>,
           UNCHANGED <<overviews, loading, overview, series, episodeUp>>,
           GuideNews(e), e.token = b.token, e.show = b.show,
           e.kind = "guide_ready" => e.built = content[b.show],
           builders' = builders \ {b}, guideEvents' = Append(guideEvents, e)
    PROVE  GuideInv'
<1>1. /\ guideEvents' \in Seq(GuideEvents) /\ Len(guideEvents) \in Nat /\ Len(guideEvents') = Len(guideEvents) + 1
      /\ \A i \in 1 .. Len(guideEvents) : guideEvents'[i] = guideEvents[i]
      /\ guideEvents'[Len(guideEvents) + 1] = e
  BY EventAdded DEF GuideInv, GuideTypes
<1>2. /\ \A i \in 1 .. Len(guideEvents) : i \in 1 .. Len(guideEvents')
      /\ \A i \in 1 .. Len(guideEvents') : i \in 1 .. Len(guideEvents) \/ i = Len(guideEvents')
      /\ Len(guideEvents') \in 1 .. Len(guideEvents') /\ guideEvents'[Len(guideEvents')] = e
  BY <1>1
<1>3. relapsed' = relapsed
  BY DEF Relapsing, Guide!Relapses
<1>4. GuideTypes'
  BY <1>1 DEF GuideInv, GuideTypes
<1>5. TokensApart'
  <2>1. /\ \A a \in builders' : a.token <= renders'
        /\ \A a, c \in builders' : a.token = c.token => a = c
    BY DEF GuideInv, TokensApart
  <2>2. e.token <= renders' /\ \A a \in builders' : a.token # e.token
    BY DEF GuideInv, TokensApart
  <2>3. \A i \in 1 .. Len(guideEvents') : GuideNews(guideEvents'[i]) =>
          /\ guideEvents'[i].token <= renders'
          /\ \A a \in builders' : a.token # guideEvents'[i].token
    BY <1>1, <1>2, <2>2 DEF GuideInv, TokensApart
  <2>4. \A i \in 1 .. Len(guideEvents) : GuideNews(guideEvents[i]) => guideEvents[i].token # e.token
    BY DEF GuideInv, TokensApart
  <2>5. \A i, k \in 1 .. Len(guideEvents') :
          GuideNews(guideEvents'[i]) /\ GuideNews(guideEvents'[k])
             /\ guideEvents'[i].token = guideEvents'[k].token => i = k
    BY <1>1, <1>2, <2>4 DEF GuideInv, TokensApart
  <2> QED
    BY <2>1, <2>3, <2>5 DEF TokensApart
<1>6. ScreenWell'
  <2>1. ShownComes => ShownComes'
    BY <1>1, <1>2 DEF ShownComes
  <2>2. NewestComes' => NewestComes
    BY <1>1, <1>2 DEF NewestComes
  <2> QED
    BY <2>1, <2>2 DEF GuideInv, ScreenWell, Guide!ExpandedRowHasFile
<1>7. GuidesTrue'
  <2>1. MadeAnew => MadeAnew'
    BY <1>1, <1>2 DEF MadeAnew
  <2>2. e.kind = "guide_ready" /\ e.show = shown => e.built = content[shown]
    OBVIOUS
  <2> QED
    BY <1>1, <1>2, <1>3, <2>1, <2>2 DEF GuideInv, GuidesTrue
<1>8. NoneMisleads'
  <2>1. ASSUME NEW s \in Shows, NEW q \in Previews, Guide!Misleads(s, q)', content'[s] = q
        PROVE  Guide!Misleads(s, q)
    <3>1. ASSUME NEW i \in DOMAIN guideEvents', guideEvents'[i].kind = "guide_ready", guideEvents'[i].show = s,
                 guideEvents'[i].built # q
          PROVE  i \in DOMAIN guideEvents /\ guideEvents'[i] = guideEvents[i]
      <4>1. i \in 1 .. Len(guideEvents') /\ DOMAIN guideEvents = 1 .. Len(guideEvents)
        BY <1>1, <3>1 DEF GuideInv, GuideTypes
      <4>2. guideEvents'[i] # e
        BY <2>1, <3>1
      <4> QED
        BY <1>1, <1>2, <4>1, <4>2
    <3> QED
      BY <2>1, <3>1 DEF Guide!Misleads, Guide!At
  <2> QED
    BY <2>1, NoneMisleadsStays DEF GuideInv, GuideTypes, Relapsing
<1>9. HeaderWaits'
  BY DEF GuideInv, HeaderWaits
<1> QED
  BY <1>4, <1>5, <1>6, <1>7, <1>8, <1>9 DEF GuideInv

LEMMA BuildingStep ==
    ASSUME GuideInv, Relapsing, Guide!Building PROVE GuideInv'
<1>1. PICK b \in builders : Guide!BuildGuide(b)
  BY DEF Guide!Building
<1>2. /\ UNCHANGED <<shown, renders, table, guide, entries, expanded, problems, seasonsClosed>>
      /\ UNCHANGED <<content, matched, showRescanned, scanFailed, guideCache, showRescans>>
      /\ UNCHANGED <<overviews, loading, overview, series, episodeUp>>
  BY DEF Guide!Building, Guide!showVars, Guide!modelVars, Guide!overviewVars
<1>3. IsBuilder(b)
  BY DEF GuideInv, GuideTypes
<1>4. \/ /\ b.pc = "sign" /\ guideEvents' = guideEvents
         /\ builders' = (builders \ {b}) \cup {[b EXCEPT !.pc = "build", !.signature = Guide!Signature(b.show)]}
      \/ /\ b.pc = "build" /\ builders' = builders \ {b}
         /\ guideEvents' = Append(guideEvents, [kind |-> "guide_ready", show |-> b.show, token |-> b.token,
                                                signature |-> b.signature, built |-> content[b.show]])
      \/ /\ b.pc = "build" /\ builders' = builders \ {b}
         /\ guideEvents' = Append(guideEvents, [kind |-> "guide_failed", show |-> b.show, token |-> b.token])
  BY <1>1 DEF Guide!BuildGuide
<1>5. CASE b.pc = "sign"
  BY <1>2, <1>4, <1>5, BuilderSigns
<1>6. CASE b.pc = "build"
  <2>1. PICK e \in GuideEvents :
          /\ GuideNews(e) /\ e.token = b.token /\ e.show = b.show
          /\ e.kind = "guide_ready" => e.built = content[b.show]
          /\ builders' = builders \ {b} /\ guideEvents' = Append(guideEvents, e)
    <3>1. b.show \in Shows /\ b.token \in Nat /\ b.signature \in GuideSigns /\ content[b.show] \in Previews
      BY <1>3, <1>6 DEF IsBuilder, GuideInv, GuideTypes
    <3> DEFINE r == [kind |-> "guide_ready", show |-> b.show, token |-> b.token,
                     signature |-> b.signature, built |-> content[b.show]]
               f == [kind |-> "guide_failed", show |-> b.show, token |-> b.token]
    <3>2. /\ r \in GuideEvents /\ r.kind = "guide_ready" /\ r.token = b.token /\ r.show = b.show
          /\ r.built = content[b.show]
      BY <3>1, EventsTold
    <3>3. f \in GuideEvents /\ f.kind = "guide_failed" /\ f.token = b.token /\ f.show = b.show
      BY <3>1, EventsTold
    <3>4. /\ builders' = builders \ {b}
          /\ guideEvents' = Append(guideEvents, r) \/ guideEvents' = Append(guideEvents, f)
      BY <1>4, <1>6
    <3> HIDE DEF r, f
    <3> QED
      BY <3>2, <3>3, <3>4 DEF GuideNews
  <2> QED
    BY <1>2, <2>1, BuilderEnds
<1> QED
  BY <1>4, <1>5, <1>6

\* A thread that scans a show again goes on.
LEMMA RescanMoves ==
    ASSUME NEW r, IsRescan(r), NEW a
    PROVE  /\ IsRescan([r EXCEPT !.pc = a]) /\ [r EXCEPT !.pc = a].show = r.show
           /\ [r EXCEPT !.pc = a].pc = a
<1> DEFINE R(p, g, b) == [id |-> r.id, show |-> r.show, pc |-> p, signature |-> g, built |-> b]
           q == R(r.pc, r.signature, r.built)
<1>1. r = q /\ r.show \in Shows
  BY DEF IsRescan
<1>2. [q EXCEPT !.pc = a] = R(a, r.signature, r.built)
  OBVIOUS
<1>3. \A p, g, b : /\ IsRescan(R(p, g, b)) /\ R(p, g, b).show = r.show /\ R(p, g, b).pc = p
                   /\ R(p, g, b).built = b
  BY <1>1 DEF IsRescan
<1> HIDE DEF q, R
<1> QED
  BY <1>1, <1>2, <1>3

LEMMA RescanSigns ==
    ASSUME NEW r, IsRescan(r), NEW a
    PROVE  /\ IsRescan([r EXCEPT !.signature = a]) /\ [r EXCEPT !.signature = a].show = r.show
           /\ [r EXCEPT !.signature = a].pc = r.pc
<1> DEFINE R(p, g, b) == [id |-> r.id, show |-> r.show, pc |-> p, signature |-> g, built |-> b]
           q == R(r.pc, r.signature, r.built)
<1>1. r = q /\ r.show \in Shows
  BY DEF IsRescan
<1>2. [q EXCEPT !.signature = a] = R(r.pc, a, r.built)
  OBVIOUS
<1>3. \A p, g, b : /\ IsRescan(R(p, g, b)) /\ R(p, g, b).show = r.show /\ R(p, g, b).pc = p
                   /\ R(p, g, b).built = b
  BY <1>1 DEF IsRescan
<1> HIDE DEF q, R
<1> QED
  BY <1>1, <1>2, <1>3

LEMMA RescanPrepares ==
    ASSUME NEW r, IsRescan(r), NEW a
    PROVE  /\ IsRescan([r EXCEPT !.built = a]) /\ [r EXCEPT !.built = a].show = r.show
           /\ [r EXCEPT !.built = a].pc = r.pc /\ [r EXCEPT !.built = a].built = a
<1> DEFINE R(p, g, b) == [id |-> r.id, show |-> r.show, pc |-> p, signature |-> g, built |-> b]
           q == R(r.pc, r.signature, r.built)
<1>1. r = q /\ r.show \in Shows
  BY DEF IsRescan
<1>2. [q EXCEPT !.built = a] = R(r.pc, r.signature, a)
  OBVIOUS
<1>3. \A p, g, b : /\ IsRescan(R(p, g, b)) /\ R(p, g, b).show = r.show /\ R(p, g, b).pc = p
                   /\ R(p, g, b).built = b
  BY <1>1 DEF IsRescan
<1> HIDE DEF q, R
<1> QED
  BY <1>1, <1>2, <1>3

LEMMA RescanGoesOn ==
    ASSUME GuideInv, Relapsing, NEW r \in showRescans, NEW q, IsRescan(q), q.show = r.show,
           showRescans' = (showRescans \ {r}) \cup {q},
           UNCHANGED ScreenVars, UNCHANGED <<matched, overviews, loading, overview, series, episodeUp>>,
           content' \in [Shows -> Previews], scanFailed' \in [Shows -> BOOLEAN],
           \A s \in Shows : s # r.show => content'[s] = content[s] /\ scanFailed'[s] = scanFailed[s],
           \/ guideEvents' = guideEvents /\ q.pc \in {"reconcile", "build", "store", "end"}
           \/ guideEvents' = Append(guideEvents, [kind |-> "library_changed"]),
           q.pc = "store" => q.built = content[q.show] /\ content' = content,
           \A k \in DOMAIN guideCache' :
              \/ k \in DOMAIN guideCache /\ guideCache'[k] = guideCache[k]
              \/ /\ r.pc = "store" /\ k[1] = r.show /\ guideCache'[k].signature = r.signature
                 /\ guideCache'[k].guide = r.built
    PROVE  GuideInv'
<1> DEFINE e == [kind |-> "library_changed"]
<1>1. e \in GuideEvents /\ ~GuideNews(e) /\ e.kind = "library_changed"
  BY EventsTold DEF GuideNews
<1>2. \A u \in showRescans' : IsRescan(u)
  BY DEF GuideInv, GuideTypes
<1>3. guideEvents' = Append(guideEvents, e) =>
        /\ Len(guideEvents) \in Nat /\ Len(guideEvents') = Len(guideEvents) + 1
        /\ \A i \in 1 .. Len(guideEvents) : guideEvents'[i] = guideEvents[i]
        /\ guideEvents'[Len(guideEvents) + 1] = e
        /\ DOMAIN guideEvents' = 1 .. Len(guideEvents') /\ DOMAIN guideEvents = 1 .. Len(guideEvents)
  BY <1>1, EventAdded DEF GuideInv, GuideTypes
<1> HIDE DEF e
<1>4. shown' = shown /\ matched' = matched
  BY DEF ScreenVars
<1>5. MadeAnew' \/ (shown # r.show /\ (MadeAnew => MadeAnew'))
  <2>1. CASE guideEvents' = Append(guideEvents, e)
    <3>0. /\ Len(guideEvents) \in Nat /\ Len(guideEvents') = Len(guideEvents) + 1
          /\ guideEvents'[Len(guideEvents) + 1] = e
      BY <1>3, <2>1, Zenon
    <3>1. Len(guideEvents) + 1 \in 1 .. Len(guideEvents') /\ guideEvents'[Len(guideEvents) + 1] = e
      BY <3>0
    <3> QED
      BY <1>1, <3>1 DEF MadeAnew
  <2>2. CASE guideEvents' = guideEvents /\ q.pc \in {"reconcile", "build", "store", "end"}
    <3>1. q \in showRescans'
      OBVIOUS
    <3>2. CASE shown = r.show
      BY <1>4, <2>2, <3>1, <3>2 DEF MadeAnew
    <3>3. CASE shown # r.show
      BY <1>4, <2>2, <3>3 DEF MadeAnew
    <3> QED
      BY <3>2, <3>3
  <2> QED
    BY <2>1, <2>2 DEF e
<1>6. (GuideTypes /\ TokensApart /\ ScreenWell /\ GuidesTrue)'
  <2>1. relapsed \subseteq relapsed'
    BY DEF Relapsing
  <2>2. matched' \in [Shows -> Matches]
    BY <1>4 DEF GuideInv, GuideTypes
  <2>3. \/ guideEvents' = guideEvents
        \/ \E d \in GuideEvents : ~GuideNews(d) /\ guideEvents' = Append(guideEvents, d)
    BY <1>1 DEF e
  <2>4. shown \in Shows =>
              \/ MadeAnew' \/ scanFailed'[shown]
              \/ /\ content'[shown] = content[shown] /\ scanFailed'[shown] = scanFailed[shown]
                 /\ MadeAnew => MadeAnew'
    BY <1>5
  <2> QED
    BY <1>2, <2>1, <2>2, <2>3, <2>4, ScreenStays
<1>7. NoneMisleads'
  <2>1. ASSUME NEW s \in Shows, NEW p \in Previews, Guide!Misleads(s, p)', content'[s] = p
        PROVE  Guide!Misleads(s, p)
    <3>1. \/ \E k \in DOMAIN guideCache' : k[1] = s /\ guideCache'[k].signature[2] = p /\ guideCache'[k].guide # p
          \/ \E u \in showRescans' : u.pc = "store" /\ u.show = s /\ u.signature[2] = p /\ u.built # p
          \/ \E i \in DOMAIN guideEvents' :
                /\ guideEvents'[i].kind = "guide_ready" /\ guideEvents'[i].show = s
                /\ guideEvents'[i].signature[2] = p /\ guideEvents'[i].built # p
      BY <2>1 DEF Guide!Misleads, Guide!At
    <3>2. ASSUME NEW k \in DOMAIN guideCache', k[1] = s, guideCache'[k].signature[2] = p, guideCache'[k].guide # p
          PROVE  Guide!Misleads(s, p)
      <4>1. CASE k \in DOMAIN guideCache /\ guideCache'[k] = guideCache[k]
        BY <3>2, <4>1 DEF Guide!Misleads
      <4>2. CASE /\ r.pc = "store" /\ k[1] = r.show /\ guideCache'[k].signature = r.signature
                 /\ guideCache'[k].guide = r.built
        BY <3>2, <4>2 DEF Guide!Misleads, Guide!At
      <4> QED
        BY <4>1, <4>2
    <3>3. ASSUME NEW u \in showRescans', u.pc = "store", u.show = s, u.signature[2] = p, u.built # p
          PROVE  Guide!Misleads(s, p)
      <4>1. u # q
        BY <2>1, <3>3
      <4> QED
        BY <3>3, <4>1 DEF Guide!Misleads, Guide!At
    <3>4. ASSUME NEW i \in DOMAIN guideEvents', guideEvents'[i].kind = "guide_ready", guideEvents'[i].show = s,
                 guideEvents'[i].signature[2] = p, guideEvents'[i].built # p
          PROVE  Guide!Misleads(s, p)
      <4>1. i \in DOMAIN guideEvents /\ guideEvents'[i] = guideEvents[i]
        BY <1>1, <1>3, <3>4 DEF e
      <4> QED
        BY <3>4, <4>1 DEF Guide!Misleads
    <3> QED
      BY <3>1, <3>2, <3>3, <3>4
  <2> QED
    BY <2>1, NoneMisleadsStays DEF GuideInv, Relapsing
<1>8. HeaderWaits'
  BY <1>4 DEF GuideInv, HeaderWaits
<1> QED
  BY <1>6, <1>7, <1>8 DEF GuideInv

\* What a thread that scans a show again leaves as it was.
RescanLeaves == UNCHANGED ScreenVars /\ UNCHANGED <<matched, overviews, loading, overview, series, episodeUp>>

LEMMA BeginRescanStep ==
    ASSUME GuideInv, Relapsing, NEW r \in showRescans, Guide!BeginRescan(r) PROVE GuideInv'
<1> DEFINE q == [r EXCEPT !.pc = "scan"]
<1>0. IsRescan(r) /\ r.show \in Shows
  BY DEF GuideInv, GuideTypes, IsRescan
<1>1. /\ IsRescan(q) /\ q.show = r.show /\ q.pc = "scan"
  BY <1>0, RescanMoves
<1>2. /\ showRescans' = (showRescans \ {r}) \cup {q}
      /\ scanFailed' = [scanFailed EXCEPT ![r.show] = FALSE] /\ content' = content
      /\ guideCache' = guideCache /\ guideEvents' = Append(guideEvents, [kind |-> "library_changed"])
      /\ RescanLeaves
  BY DEF Guide!BeginRescan, Guide!Goes, Guide!LibraryChanged, Guide!modelVars, Guide!overviewVars,
         RescanLeaves, ScreenVars
<1> HIDE DEF q
<1>3. /\ content' \in [Shows -> Previews] /\ scanFailed' \in [Shows -> BOOLEAN]
      /\ \A s \in Shows : s # r.show => content'[s] = content[s] /\ scanFailed'[s] = scanFailed[s]
  BY <1>0, <1>1, <1>2 DEF GuideInv, GuideTypes
<1> QED
  BY <1>0, <1>1, <1>2, <1>3, RescanGoesOn DEF RescanLeaves

LEMMA RunRescanStep ==
    ASSUME GuideInv, Relapsing, NEW r \in showRescans, Guide!RunRescan(r) PROVE GuideInv'
<1> DEFINE q == [r EXCEPT !.pc = "reconcile"]
<1>0. IsRescan(r) /\ r.show \in Shows
  BY DEF GuideInv, GuideTypes, IsRescan
<1>1. /\ IsRescan(q) /\ q.show = r.show /\ q.pc = "reconcile"
  BY <1>0, RescanMoves
<1>2. PICK p \in Previews : content' = [content EXCEPT ![r.show] = p]
  BY DEF Guide!RunRescan
<1>3. /\ showRescans' = (showRescans \ {r}) \cup {q}
      /\ scanFailed' = scanFailed /\ guideCache' = guideCache /\ guideEvents' = guideEvents
      /\ RescanLeaves
  BY DEF Guide!RunRescan, Guide!Goes, Guide!modelVars, Guide!overviewVars, RescanLeaves, ScreenVars
<1> HIDE DEF q
<1>4. /\ content' \in [Shows -> Previews] /\ scanFailed' \in [Shows -> BOOLEAN]
      /\ \A s \in Shows : s # r.show => content'[s] = content[s] /\ scanFailed'[s] = scanFailed[s]
  BY <1>0, <1>1, <1>2, <1>3 DEF GuideInv, GuideTypes
<1> QED
  BY <1>0, <1>1, <1>3, <1>4, RescanGoesOn DEF RescanLeaves

LEMMA FailRescanStep ==
    ASSUME GuideInv, Relapsing, NEW r \in showRescans, Guide!FailRescan(r) PROVE GuideInv'
<1> DEFINE q == [r EXCEPT !.pc = "end"]
<1>0. IsRescan(r) /\ r.show \in Shows
  BY DEF GuideInv, GuideTypes, IsRescan
<1>1. /\ IsRescan(q) /\ q.show = r.show /\ q.pc = "end"
  BY <1>0, RescanMoves
<1>2. Guide!Empty \in Previews
  BY TableAssumption DEF Guide!Empty
<1>3. /\ showRescans' = (showRescans \ {r}) \cup {q}
      /\ content' = [content EXCEPT ![r.show] = Guide!Empty]
      /\ scanFailed' = [scanFailed EXCEPT ![r.show] = TRUE]
      /\ guideCache' = guideCache /\ guideEvents' = guideEvents
      /\ RescanLeaves
  BY DEF Guide!FailRescan, Guide!Goes, Guide!modelVars, Guide!overviewVars, RescanLeaves, ScreenVars
<1> HIDE DEF q
<1>4. /\ content' \in [Shows -> Previews] /\ scanFailed' \in [Shows -> BOOLEAN]
      /\ \A s \in Shows : s # r.show => content'[s] = content[s] /\ scanFailed'[s] = scanFailed[s]
  BY <1>0, <1>1, <1>2, <1>3 DEF GuideInv, GuideTypes
<1> QED
  BY <1>0, <1>1, <1>3, <1>4, RescanGoesOn DEF RescanLeaves

LEMMA RefreshGuideStep ==
    ASSUME GuideInv, Relapsing, NEW r \in showRescans, Guide!RefreshGuide(r) PROVE GuideInv'
<1>1. IsRescan(r) /\ r.show \in Shows
  BY DEF GuideInv, GuideTypes, IsRescan
<1>2. /\ content' = content /\ scanFailed' = scanFailed /\ guideEvents' = guideEvents /\ RescanLeaves
  BY DEF Guide!RefreshGuide, Guide!modelVars, Guide!overviewVars, Guide!showVars, RescanLeaves, ScreenVars
<1>3. PICK q : /\ IsRescan(q) /\ q.show = r.show /\ q.pc \in {"build", "end"}
               /\ showRescans' = (showRescans \ {r}) \cup {q}
               /\ guideCache' \in {guideCache, Guide!Without(Guide!Key(r.show))}
  <2>1. CASE content[r.show] = Guide!Empty
    <3> DEFINE q == [r EXCEPT !.pc = "end"]
    <3>1. IsRescan(q) /\ q.show = r.show /\ q.pc = "end"
      BY <1>1, RescanMoves
    <3>2. showRescans' = (showRescans \ {r}) \cup {q} /\ guideCache' = guideCache
      BY <2>1 DEF Guide!RefreshGuide, Guide!Goes
    <3> HIDE DEF q
    <3> QED
      BY <3>1, <3>2
  <2>2. CASE content[r.show] # Guide!Empty
    <3> DEFINE q == [r EXCEPT !.pc = "build", !.signature = Guide!Signature(r.show)]
    <3> DEFINE u == [r EXCEPT !.pc = "build"]
    <3>0. IsRescan(u) /\ u.show = r.show /\ u.pc = "build" /\ q = [u EXCEPT !.signature = Guide!Signature(r.show)]
      BY <1>1, RescanMoves
    <3>1. IsRescan(q) /\ q.show = r.show /\ q.pc = "build"
      <4> HIDE DEF u, q
      <4> QED
        BY <3>0, RescanSigns
    <3>2. /\ showRescans' = (showRescans \ {r}) \cup {q}
          /\ guideCache' = Guide!Without(Guide!Key(r.show))
      BY <2>2 DEF Guide!RefreshGuide
    <3> HIDE DEF q
    <3> QED
      BY <3>1, <3>2
  <2> QED
    BY <2>1, <2>2
<1>4. \A k \in DOMAIN guideCache' : k \in DOMAIN guideCache /\ guideCache'[k] = guideCache[k]
  BY <1>3 DEF Guide!Without
<1>5. content' \in [Shows -> Previews] /\ scanFailed' \in [Shows -> BOOLEAN]
  BY <1>2 DEF GuideInv, GuideTypes
<1> QED
  BY <1>1, <1>2, <1>3, <1>4, <1>5, RescanGoesOn DEF RescanLeaves

LEMMA PrepareGuideStep ==
    ASSUME GuideInv, Relapsing, NEW r \in showRescans, Guide!PrepareGuide(r) PROVE GuideInv'
<1> DEFINE q == [r EXCEPT !.pc = "store", !.built = content[r.show]]
<1>0. IsRescan(r) /\ r.show \in Shows
  BY DEF GuideInv, GuideTypes, IsRescan
<1>1. /\ IsRescan(q) /\ q.show = r.show /\ q.pc = "store"
      /\ q.built = content[r.show]
  <2> DEFINE u == [r EXCEPT !.pc = "store"]
  <2>1. IsRescan(u) /\ u.show = r.show /\ u.pc = "store" /\ q = [u EXCEPT !.built = content[r.show]]
    BY <1>0, RescanMoves
  <2> HIDE DEF u, q
  <2> QED
    BY <2>1, RescanPrepares
<1>2. /\ showRescans' = (showRescans \ {r}) \cup {q}
      /\ scanFailed' = scanFailed /\ content' = content
      /\ guideCache' = guideCache /\ guideEvents' = guideEvents
      /\ RescanLeaves
  BY DEF Guide!PrepareGuide, Guide!showVars, Guide!modelVars, Guide!overviewVars, RescanLeaves, ScreenVars
<1> HIDE DEF q
<1>3. content' \in [Shows -> Previews] /\ scanFailed' \in [Shows -> BOOLEAN]
  BY <1>2 DEF GuideInv, GuideTypes
<1> QED
  BY <1>0, <1>1, <1>2, <1>3, RescanGoesOn DEF RescanLeaves

LEMMA StoreGuideStep ==
    ASSUME GuideInv, Relapsing, NEW r \in showRescans, Guide!StoreGuide(r) PROVE GuideInv'
<1> DEFINE q   == [r EXCEPT !.pc = "end"]
           key == Guide!Key(r.show)
<1>0. IsRescan(r) /\ r.show \in Shows
  BY DEF GuideInv, GuideTypes, IsRescan
<1>1. /\ IsRescan(q) /\ q.show = r.show /\ q.pc = "end"
  BY <1>0, RescanMoves
<1>2. /\ showRescans' = (showRescans \ {r}) \cup {q} /\ r.pc = "store"
      /\ scanFailed' = scanFailed /\ content' = content /\ guideEvents' = guideEvents
      /\ guideCache' = [v \in DOMAIN guideCache \cup {key} |->
                            IF v = key THEN [signature |-> r.signature, guide |-> r.built] ELSE guideCache[v]]
      /\ RescanLeaves
  BY DEF Guide!StoreGuide, Guide!Goes, Guide!At, Guide!Stored, Guide!showVars, Guide!modelVars,
         Guide!overviewVars, RescanLeaves, ScreenVars
<1>3. key[1] = r.show
  BY DEF Guide!Key
<1> HIDE DEF q, key
<1>4. \A k \in DOMAIN guideCache' :
         \/ k \in DOMAIN guideCache /\ guideCache'[k] = guideCache[k]
         \/ k = key /\ guideCache'[k].signature = r.signature /\ guideCache'[k].guide = r.built
  BY <1>2
<1>5. content' \in [Shows -> Previews] /\ scanFailed' \in [Shows -> BOOLEAN]
  BY <1>2 DEF GuideInv, GuideTypes
<1> QED
  BY <1>0, <1>1, <1>2, <1>3, <1>4, <1>5, RescanGoesOn DEF RescanLeaves

LEMMA EndRescanStep ==
    ASSUME GuideInv, Relapsing, NEW r \in showRescans, Guide!EndRescan(r) PROVE GuideInv'
<1> DEFINE q == [r EXCEPT !.pc = "ended"]
<1>0. IsRescan(r) /\ r.show \in Shows
  BY DEF GuideInv, GuideTypes, IsRescan
<1>1. /\ IsRescan(q) /\ q.show = r.show /\ q.pc = "ended"
  BY <1>0, RescanMoves
<1>2. /\ showRescans' = (showRescans \ {r}) \cup {q}
      /\ scanFailed' = scanFailed /\ content' = content
      /\ guideCache' = guideCache /\ guideEvents' = Append(guideEvents, [kind |-> "library_changed"])
      /\ RescanLeaves
  BY DEF Guide!EndRescan, Guide!Goes, Guide!LibraryChanged, Guide!showVars, Guide!modelVars,
         Guide!overviewVars, RescanLeaves, ScreenVars
<1> HIDE DEF q
<1>3. content' \in [Shows -> Previews] /\ scanFailed' \in [Shows -> BOOLEAN]
  BY <1>2 DEF GuideInv, GuideTypes
<1> QED
  BY <1>0, <1>1, <1>2, <1>3, RescanGoesOn DEF RescanLeaves

\* What is left of the events when the first is handled.
LEMMA EventsLeft ==
    ASSUME GuideTypes, guideEvents # <<>>, guideEvents' = Tail(guideEvents)
    PROVE  /\ guideEvents' \in Seq(GuideEvents) /\ Head(guideEvents) = guideEvents[1]
           /\ guideEvents[1] \in GuideEvents /\ 1 \in 1 .. Len(guideEvents)
           /\ DOMAIN guideEvents' = 1 .. Len(guideEvents') /\ DOMAIN guideEvents = 1 .. Len(guideEvents)
           /\ \A i \in 1 .. Len(guideEvents') :
                 i + 1 \in 1 .. Len(guideEvents) /\ i + 1 # 1 /\ guideEvents'[i] = guideEvents[i + 1]
           /\ \A i \in 1 .. Len(guideEvents) : i # 1 =>
                 i - 1 \in 1 .. Len(guideEvents') /\ guideEvents'[i - 1] = guideEvents[i]
<1>1. guideEvents \in Seq(GuideEvents)
  BY DEF GuideTypes
<1>2. /\ guideEvents' \in Seq(GuideEvents)
      /\ Len(guideEvents) \in Nat /\ Len(guideEvents) >= 1 /\ Len(guideEvents') = Len(guideEvents) - 1
      /\ \A i \in 1 .. Len(guideEvents') : i + 1 \in 1 .. Len(guideEvents) /\ guideEvents'[i] = guideEvents[i + 1]
      /\ Head(guideEvents) = guideEvents[1] /\ Head(guideEvents) \in GuideEvents
  BY <1>1, EventTaken
<1>3. ASSUME NEW i \in 1 .. Len(guideEvents), i # 1
      PROVE  i - 1 \in 1 .. Len(guideEvents') /\ guideEvents'[i - 1] = guideEvents[i]
  <2>1. i \in Int /\ 1 <= i /\ i <= Len(guideEvents) /\ i - 1 \in 1 .. Len(guideEvents') /\ (i - 1) + 1 = i
    BY <1>2, <1>3
  <2> QED
    BY <1>2, <2>1
<1>4. \A i \in 1 .. Len(guideEvents') : i + 1 # 1
  OBVIOUS
<1>5. DOMAIN guideEvents' = 1 .. Len(guideEvents') /\ DOMAIN guideEvents = 1 .. Len(guideEvents)
  BY <1>1, <1>2
<1>6. 1 \in 1 .. Len(guideEvents)
  BY <1>2
<1> QED
  BY <1>2, <1>3, <1>4, <1>5, <1>6

\* An event that is not for the table leaves it waiting for, and true to, what it was.
LEMMA EventPasses ==
    ASSUME GuideInv, Relapsing, UNCHANGED ScreenVars,
           UNCHANGED <<content, matched, showRescanned, scanFailed, guideCache, showRescans>>,
           guideEvents # <<>>, guideEvents' = Tail(guideEvents),
           shown \in Shows =>
              /\ guideEvents[1].kind # "library_changed"
              /\ ~(/\ GuideNews(guideEvents[1]) /\ guideEvents[1].token = renders
                   /\ guideEvents[1].show = shown)
    PROVE  (GuideTypes /\ TokensApart /\ ScreenWell /\ GuidesTrue /\ NoneMisleads)'
<1>1. /\ guideEvents' \in Seq(GuideEvents)
      /\ DOMAIN guideEvents' = 1 .. Len(guideEvents') /\ DOMAIN guideEvents = 1 .. Len(guideEvents)
      /\ \A i \in 1 .. Len(guideEvents') :
            i + 1 \in 1 .. Len(guideEvents) /\ i + 1 # 1 /\ guideEvents'[i] = guideEvents[i + 1]
      /\ \A i \in 1 .. Len(guideEvents) : i # 1 =>
            i - 1 \in 1 .. Len(guideEvents') /\ guideEvents'[i - 1] = guideEvents[i]
  BY EventsLeft DEF GuideInv
<1>2. UNCHANGED <<shown, renders, table, guide, entries, expanded, problems, seasonsClosed, builders>>
  BY DEF ScreenVars
<1>3. relapsed' = relapsed
  BY DEF Relapsing, Guide!Relapses
<1>4. GuideTypes'
  BY <1>1, <1>2 DEF GuideInv, GuideTypes
<1>5. TokensApart'
  <2>1. /\ \A b \in builders' : b.token <= renders'
        /\ \A b, c \in builders' : b.token = c.token => b = c
    BY <1>2 DEF GuideInv, TokensApart
  <2>2. \A i \in 1 .. Len(guideEvents') : GuideNews(guideEvents'[i]) =>
          /\ guideEvents'[i].token <= renders'
          /\ \A b \in builders' : b.token # guideEvents'[i].token
    BY <1>1, <1>2 DEF GuideInv, TokensApart
  <2>3. ASSUME NEW i \in 1 .. Len(guideEvents'), NEW k \in 1 .. Len(guideEvents'),
               GuideNews(guideEvents'[i]), GuideNews(guideEvents'[k]),
               guideEvents'[i].token = guideEvents'[k].token
        PROVE  i = k
    <3>1. /\ i + 1 \in 1 .. Len(guideEvents) /\ guideEvents'[i] = guideEvents[i + 1]
          /\ k + 1 \in 1 .. Len(guideEvents) /\ guideEvents'[k] = guideEvents[k + 1]
      BY <1>1
    <3>2. i + 1 = k + 1
      BY <2>3, <3>1 DEF GuideInv, TokensApart
    <3> QED
      BY <3>2
  <2> QED
    BY <2>1, <2>2, <2>3 DEF TokensApart
<1>6. ScreenWell'
  <2>1. shown \in Shows /\ ShownComes => ShownComes'
    BY <1>1, <1>2 DEF ShownComes
  <2>2. NewestComes' => NewestComes
    BY <1>1, <1>2 DEF NewestComes
  <2>3. shown \in Shows \/ (shown = "nothing" /\ table = "none")
    BY DEF GuideInv, GuideTypes, ScreenWell
  <2> QED
    BY <1>2, <2>1, <2>2, <2>3 DEF GuideInv, ScreenWell, Guide!ExpandedRowHasFile
<1>7. GuidesTrue'
  <2>1. shown \in Shows /\ MadeAnew => MadeAnew'
    BY <1>1, <1>2 DEF MadeAnew
  <2> QED
    BY <1>1, <1>2, <1>3, <2>1 DEF GuideInv, GuidesTrue
<1>8. NoneMisleads'
  <2>1. ASSUME NEW s \in Shows, NEW q \in Previews, Guide!Misleads(s, q)', content'[s] = q
        PROVE  Guide!Misleads(s, q)
    <3>1. ASSUME NEW i \in DOMAIN guideEvents'
          PROVE  i + 1 \in DOMAIN guideEvents /\ guideEvents'[i] = guideEvents[i + 1]
      BY <1>1
    <3> QED
      BY <2>1, <3>1 DEF Guide!Misleads, Guide!At
  <2> QED
    BY <2>1, NoneMisleadsStays DEF GuideInv, GuideTypes, Relapsing
<1> QED
  BY <1>4, <1>5, <1>6, <1>7, <1>8

LEMMA OnLibraryChangedStep ==
    ASSUME GuideInv, Relapsing, Guide!OnLibraryChanged PROVE GuideInv'
<1>1. /\ guideEvents # <<>> /\ guideEvents' = Tail(guideEvents)
      /\ UNCHANGED <<content, matched, showRescanned, scanFailed, guideCache, showRescans>>
  BY DEF Guide!OnLibraryChanged, Guide!Delivered, Guide!showVars
<1>2. CASE shown = "nothing"
  <2>1. UNCHANGED ScreenVars /\ UNCHANGED <<overviews, loading, overview, series, episodeUp>>
    BY <1>2 DEF Guide!OnLibraryChanged, Guide!Nothing, Guide!modelVars, Guide!overviewVars, ScreenVars
  <2>2. shown \notin Shows
    BY <1>2, TableAssumption
  <2>3. HeaderWaits'
    BY <1>1, <2>1, <2>2 DEF HeaderWaits, ScreenVars
  <2> QED
    BY <1>1, <2>1, <2>2, <2>3, EventPasses DEF GuideInv
<1>3. CASE shown \in Shows
  <2>1. /\ Guide!Render(shown, problems, seasonsClosed[shown], guideCache', content')
        /\ Guide!HeaderFor(shown)
    BY <1>3, TableAssumption DEF Guide!OnLibraryChanged, Guide!Populate, Guide!Nothing
  <2>2. (GuideTypes /\ TokensApart /\ ScreenWell /\ GuidesTrue)'
    <3>1. /\ content' \in [Shows -> Previews] /\ matched' \in [Shows -> Matches]
          /\ scanFailed' \in [Shows -> BOOLEAN] /\ \A r \in showRescans' : IsRescan(r)
      BY <1>1 DEF GuideInv, GuideTypes
    <3> QED
      BY <1>1, <1>3, <2>1, <3>1, PopulatedWell
  <2>3. NoneMisleads'
    <3>1. ASSUME NEW s \in Shows, NEW q \in Previews, Guide!Misleads(s, q)', content'[s] = q
          PROVE  Guide!Misleads(s, q)
      <4>1. ASSUME NEW i \in DOMAIN guideEvents'
            PROVE  i + 1 \in DOMAIN guideEvents /\ guideEvents'[i] = guideEvents[i + 1]
        BY <1>1, EventsLeft DEF GuideInv
      <4> QED
        BY <1>1, <3>1, <4>1 DEF Guide!Misleads, Guide!At
    <3> QED
      BY <1>1, <3>1, NoneMisleadsStays DEF GuideInv, GuideTypes, Relapsing
  <2>4. HeaderWaits'
    <3>1. shown' = shown
      BY <2>1 DEF Guide!Render
    <3> QED
      BY <1>3, <2>1, <3>1, HeaderTakesShow
  <2> QED
    BY <2>2, <2>3, <2>4 DEF GuideInv
<1> QED
  BY <1>2, <1>3 DEF GuideInv, GuideTypes

\* The guide waited for is the first event: the table takes it, and waits no more.
LEMMA GuideTaken ==
    ASSUME GuideInv, Relapsing, guideEvents # <<>>, guideEvents' = Tail(guideEvents),
           GuideNews(guideEvents[1]), guideEvents[1].token = renders, guideEvents[1].show = shown,
           UNCHANGED <<content, matched, showRescanned, scanFailed, showRescans>>,
           UNCHANGED <<shown, renders, expanded, problems, builders>>,
           UNCHANGED <<overviews, loading, overview, series, episodeUp>>,
           DOMAIN seasonsClosed' = Shows,
           \/ table' = "error" /\ entries' = <<>>
           \/ /\ table' = "guide" /\ guideEvents[1].kind = "guide_ready" /\ guide' = guideEvents[1].built
              /\ entries' = Guide!TableEntries(guide', problems, seasonsClosed'[shown]),
           \A k \in DOMAIN guideCache' :
              \/ k \in DOMAIN guideCache /\ guideCache'[k] = guideCache[k]
              \/ /\ guideEvents[1].kind = "guide_ready"
                 /\ k[1] = shown /\ guideCache'[k].signature = guideEvents[1].signature
                 /\ guideCache'[k].guide = guideEvents[1].built
    PROVE  GuideInv'
<1>1. /\ guideEvents' \in Seq(GuideEvents) /\ guideEvents[1] \in GuideEvents /\ 1 \in 1 .. Len(guideEvents)
      /\ DOMAIN guideEvents' = 1 .. Len(guideEvents') /\ DOMAIN guideEvents = 1 .. Len(guideEvents)
      /\ \A i \in 1 .. Len(guideEvents') :
            i + 1 \in 1 .. Len(guideEvents) /\ i + 1 # 1 /\ guideEvents'[i] = guideEvents[i + 1]
      /\ \A i \in 1 .. Len(guideEvents) : i # 1 =>
            i - 1 \in 1 .. Len(guideEvents') /\ guideEvents'[i - 1] = guideEvents[i]
  BY EventsLeft DEF GuideInv
<1>2. shown \in Shows
  BY <1>1, EventsTold
<1>3. relapsed' = relapsed
  BY DEF Relapsing, Guide!Relapses
<1>4. table # "guide" /\ expanded = 0
  <2>1. NewestComes
    BY <1>1 DEF NewestComes
  <2> QED
    BY <2>1 DEF GuideInv, ScreenWell
<1>5. ~NewestComes'
  <2>1. \A b \in builders : b.token # renders
    BY <1>1 DEF GuideInv, TokensApart
  <2>2. ASSUME NEW i \in 1 .. Len(guideEvents'), GuideNews(guideEvents'[i]) PROVE guideEvents'[i].token # renders
    <3>1. i + 1 \in 1 .. Len(guideEvents) /\ i + 1 # 1 /\ guideEvents'[i] = guideEvents[i + 1]
      BY <1>1
    <3> QED
      BY <1>1, <2>2, <3>1 DEF GuideInv, TokensApart
  <2> QED
    BY <2>1, <2>2 DEF NewestComes
<1>6. GuideTypes'
  BY <1>1 DEF GuideInv, GuideTypes
<1>7. TokensApart'
  <2>1. /\ \A b \in builders' : b.token <= renders'
        /\ \A b, c \in builders' : b.token = c.token => b = c
    BY DEF GuideInv, TokensApart
  <2>2. \A i \in 1 .. Len(guideEvents') : GuideNews(guideEvents'[i]) =>
          /\ guideEvents'[i].token <= renders'
          /\ \A b \in builders' : b.token # guideEvents'[i].token
    BY <1>1 DEF GuideInv, TokensApart
  <2>3. ASSUME NEW i \in 1 .. Len(guideEvents'), NEW k \in 1 .. Len(guideEvents'),
               GuideNews(guideEvents'[i]), GuideNews(guideEvents'[k]),
               guideEvents'[i].token = guideEvents'[k].token
        PROVE  i = k
    <3>1. /\ i + 1 \in 1 .. Len(guideEvents) /\ guideEvents'[i] = guideEvents[i + 1]
          /\ k + 1 \in 1 .. Len(guideEvents) /\ guideEvents'[k] = guideEvents[k + 1]
      BY <1>1
    <3>2. i + 1 = k + 1
      BY <2>3, <3>1 DEF GuideInv, TokensApart
    <3> QED
      BY <3>2
  <2> QED
    BY <2>1, <2>2, <2>3 DEF TokensApart
<1>8. ScreenWell'
  <2>1. CASE table' = "error" /\ entries' = <<>>
    BY <1>2, <1>4, <2>1, TableAssumption DEF ScreenWell, Guide!ExpandedRowHasFile
  <2>2. CASE /\ table' = "guide"
             /\ entries' = Guide!TableEntries(guide', problems, seasonsClosed'[shown])
    BY <1>2, <1>4, <1>5, <2>2, TableAssumption DEF ScreenWell, Guide!ExpandedRowHasFile
  <2> QED
    BY <2>1, <2>2
<1>9. GuidesTrue'
  <2>1. MadeAnew => MadeAnew'
    BY <1>1 DEF MadeAnew, GuideNews
  <2>2. table' = "guide" /\ ~scanFailed[shown] /\ guide' # content[shown] => MadeAnew
    BY <1>1, <1>2 DEF GuideInv, GuidesTrue
  <2>3. \A i \in 1 .. Len(guideEvents') :
           guideEvents'[i].kind = "guide_ready" => guideEvents'[i].token # renders
    BY <1>5 DEF NewestComes, GuideNews
  <2> QED
    BY <2>1, <2>2, <2>3 DEF GuidesTrue
<1>10. NoneMisleads'
  <2>1. ASSUME NEW s \in Shows, NEW q \in Previews, Guide!Misleads(s, q)', content'[s] = q
        PROVE  Guide!Misleads(s, q)
    <3>1. \/ \E k \in DOMAIN guideCache' : k[1] = s /\ guideCache'[k].signature[2] = q /\ guideCache'[k].guide # q
          \/ \E r \in showRescans : Guide!At(r, "store") /\ r.show = s /\ r.signature[2] = q /\ r.built # q
          \/ \E i \in DOMAIN guideEvents' :
                /\ guideEvents'[i].kind = "guide_ready" /\ guideEvents'[i].show = s
                /\ guideEvents'[i].signature[2] = q /\ guideEvents'[i].built # q
      BY <2>1 DEF Guide!Misleads, Guide!At
    <3>2. ASSUME NEW k \in DOMAIN guideCache', k[1] = s, guideCache'[k].signature[2] = q, guideCache'[k].guide # q
          PROVE  Guide!Misleads(s, q)
      <4>1. CASE k \in DOMAIN guideCache /\ guideCache'[k] = guideCache[k]
        BY <3>2, <4>1 DEF Guide!Misleads
      <4>2. CASE /\ guideEvents[1].kind = "guide_ready"
                 /\ k[1] = shown /\ guideCache'[k].signature = guideEvents[1].signature
                 /\ guideCache'[k].guide = guideEvents[1].built
        BY <1>1, <3>2, <4>2 DEF Guide!Misleads
      <4> QED
        BY <4>1, <4>2
    <3>3. ASSUME NEW i \in DOMAIN guideEvents'
          PROVE  i + 1 \in DOMAIN guideEvents /\ guideEvents'[i] = guideEvents[i + 1]
      BY <1>1
    <3> QED
      BY <3>1, <3>2, <3>3 DEF Guide!Misleads
  <2> QED
    BY <2>1, NoneMisleadsStays DEF GuideInv, GuideTypes, Relapsing
<1>11. HeaderWaits'
  BY DEF GuideInv, HeaderWaits
<1> QED
  BY <1>6, <1>7, <1>8, <1>9, <1>10, <1>11 DEF GuideInv

LEMMA OnGuideReadyStep ==
    ASSUME GuideInv, Relapsing, Guide!OnGuideReady PROVE GuideInv'
<1> DEFINE e == guideEvents[1]
<1>1. /\ guideEvents # <<>> /\ guideEvents' = Tail(guideEvents) /\ e.kind = "guide_ready"
      /\ Guide!Event = e /\ e \in GuideEvents
      /\ UNCHANGED <<content, matched, showRescanned, scanFailed, showRescans>>
      /\ UNCHANGED <<shown, renders, expanded, problems, builders>>
      /\ UNCHANGED <<overviews, loading, overview, series, episodeUp>>
  <2>1. guideEvents # <<>> /\ guideEvents' = Tail(guideEvents) /\ Guide!Event.kind = "guide_ready"
    BY DEF Guide!OnGuideReady, Guide!Delivered
  <2>2. Guide!Event = e /\ e \in GuideEvents
    BY <2>1, EventsLeft DEF Guide!Event, GuideInv
  <2> QED
    BY <2>1, <2>2 DEF Guide!OnGuideReady, Guide!showVars, Guide!overviewVars
<1>2. CASE e.token # renders \/ e.show # shown
  <2>1. UNCHANGED ScreenVars /\ guideCache' = guideCache
    BY <1>1, <1>2 DEF Guide!OnGuideReady, Guide!Stale, ScreenVars
  <2>2. HeaderWaits'
    BY <1>1 DEF GuideInv, HeaderWaits
  <2> HIDE DEF e
  <2>3. /\ e.kind # "library_changed"
        /\ ~(GuideNews(e) /\ e.token = renders /\ e.show = shown)
    BY <1>1, <1>2
  <2> QED
    BY <1>1, <2>1, <2>2, <2>3, EventPasses DEF GuideInv, e
<1>3. CASE e.token = renders /\ e.show = shown
  <2> DEFINE key == Guide!Key(shown)
  <2>1. /\ guideCache' = [v \in DOMAIN guideCache \cup {key} |->
                             IF v = key THEN [signature |-> e.signature, guide |-> e.built] ELSE guideCache[v]]
        /\ Guide!RenderGuide(shown, e.built, problems, seasonsClosed[shown])
    BY <1>1, <1>3 DEF Guide!OnGuideReady, Guide!Stale, Guide!Stored
  <2>2. GuideNews(e) /\ shown \in Shows
    BY <1>1, <1>3, EventsTold DEF GuideNews
  <2>3. /\ table' = "guide" /\ guide' = e.built /\ DOMAIN seasonsClosed' = Shows
        /\ entries' = Guide!TableEntries(e.built, problems, seasonsClosed'[shown])
    BY <2>1, <2>2, RenderGuideTells DEF GuideInv
  <2>4. key[1] = shown
    BY DEF Guide!Key
  <2>5. \A k \in DOMAIN guideCache' :
           \/ k \in DOMAIN guideCache /\ guideCache'[k] = guideCache[k]
           \/ /\ e.kind = "guide_ready" /\ k[1] = shown
              /\ guideCache'[k].signature = e.signature /\ guideCache'[k].guide = e.built
    <3> HIDE DEF e, key
    <3>1. \A k \in DOMAIN guideCache' :
             \/ k \in DOMAIN guideCache /\ guideCache'[k] = guideCache[k]
             \/ k = key /\ guideCache'[k].signature = e.signature /\ guideCache'[k].guide = e.built
      BY <2>1
    <3> QED
      BY <1>1, <2>4, <3>1
  <2> QED
    BY <1>1, <1>3, <2>2, <2>3, <2>5, GuideTaken
<1> QED
  BY <1>2, <1>3

LEMMA OnGuideFailedStep ==
    ASSUME GuideInv, Relapsing, Guide!OnGuideFailed PROVE GuideInv'
<1> DEFINE e == guideEvents[1]
<1>1. /\ guideEvents # <<>> /\ guideEvents' = Tail(guideEvents) /\ e.kind = "guide_failed"
      /\ Guide!Event = e /\ e \in GuideEvents
      /\ UNCHANGED <<content, matched, showRescanned, scanFailed, showRescans, guideCache>>
      /\ UNCHANGED <<shown, renders, guide, expanded, problems, seasonsClosed, builders>>
      /\ UNCHANGED <<overviews, loading, overview, series, episodeUp>>
  <2>1. guideEvents # <<>> /\ guideEvents' = Tail(guideEvents) /\ Guide!Event.kind = "guide_failed"
    BY DEF Guide!OnGuideFailed, Guide!Delivered
  <2>2. Guide!Event = e /\ e \in GuideEvents
    BY <2>1, EventsLeft DEF Guide!Event, GuideInv
  <2> QED
    BY <2>1, <2>2 DEF Guide!OnGuideFailed, Guide!showVars, Guide!overviewVars
<1>2. CASE e.token # renders \/ e.show # shown
  <2>1. UNCHANGED ScreenVars
    BY <1>1, <1>2 DEF Guide!OnGuideFailed, Guide!Stale, ScreenVars
  <2>2. HeaderWaits'
    BY <1>1 DEF GuideInv, HeaderWaits
  <2> HIDE DEF e
  <2>3. /\ e.kind # "library_changed"
        /\ ~(GuideNews(e) /\ e.token = renders /\ e.show = shown)
    BY <1>1, <1>2
  <2> QED
    BY <1>1, <2>1, <2>2, <2>3, EventPasses DEF GuideInv, e
<1>3. CASE e.token = renders /\ e.show = shown
  <2>1. table' = "error" /\ entries' = <<>>
    BY <1>1, <1>3 DEF Guide!OnGuideFailed, Guide!Stale
  <2>2. GuideNews(e) /\ DOMAIN seasonsClosed' = Shows
    BY <1>1 DEF GuideNews, GuideInv, GuideTypes
  <2>3. \A k \in DOMAIN guideCache' : k \in DOMAIN guideCache /\ guideCache'[k] = guideCache[k]
    BY <1>1
  <2> QED
    BY <1>1, <1>3, <2>1, <2>2, <2>3, GuideTaken
<1> QED
  BY <1>2, <1>3

LEMMA OnOverviewReadyStep ==
    ASSUME GuideInv, Relapsing, Guide!OnOverviewReady PROVE GuideInv'
<1> DEFINE e == guideEvents[1]
<1>1. /\ guideEvents # <<>> /\ guideEvents' = Tail(guideEvents) /\ e.kind = "overview_ready"
      /\ Guide!Event = e
  <2>1. guideEvents # <<>> /\ guideEvents' = Tail(guideEvents) /\ Guide!Event.kind = "overview_ready"
    BY DEF Guide!OnOverviewReady, Guide!Delivered
  <2> QED
    BY <2>1, EventsLeft DEF Guide!Event, GuideInv
<1>2. /\ UNCHANGED <<content, matched, showRescanned, scanFailed, guideCache, showRescans>>
      /\ UNCHANGED ScreenVars /\ episodeUp' = episodeUp
      /\ loading' = loading \ {e.match}
      /\ overviews' = [m \in DOMAIN overviews \cup {e.match} |-> IF m = e.match THEN e.text ELSE overviews[m]]
      /\ e.match = matched[shown] =>
            series' = e.text /\ (~episodeUp => overview' = e.text)
      /\ e.match # matched[shown] => series' = series /\ overview' = overview
  BY <1>1 DEF Guide!OnOverviewReady, Guide!ForShown, Guide!showVars, Guide!modelVars, ScreenVars
<1>3. (GuideTypes /\ TokensApart /\ ScreenWell /\ GuidesTrue /\ NoneMisleads)'
  BY <1>1, <1>2, EventPasses DEF GuideNews
<1>4. HeaderWaits'
  BY <1>2 DEF GuideInv, HeaderWaits, ScreenVars
<1> QED
  BY <1>3, <1>4 DEF GuideInv

LEMMA TableStarts == MCTableInit => GuideInv
<1> SUFFICES ASSUME Guide!EpisodeTableInit PROVE GuideInv
  BY DEF MCTableInit
<1>1. /\ content \in [Shows -> Previews] /\ matched \in [Shows -> Matches]
      /\ scanFailed = [s \in Shows |-> FALSE]
      /\ shown = "nothing" /\ renders = 0 /\ table = "none" /\ entries = <<>> /\ expanded = 0
      /\ seasonsClosed = [s \in Shows |-> {}]
      /\ builders = {} /\ showRescans = {} /\ guideEvents = <<>>
  BY DEF Guide!EpisodeTableInit, Guide!Nothing
<1>2. \A k \in DOMAIN guideCache : guideCache[k].guide = guideCache[k].signature[2]
                                   /\ guideCache[k].signature[2] = content[k[1]]
  BY DEF Guide!EpisodeTableInit, Guide!Signature
<1>3. Len(guideEvents) = 0 /\ DOMAIN guideEvents = {} /\ guideEvents \in Seq(GuideEvents)
  BY <1>1
<1>4. GuideTypes
  BY <1>1, <1>3, TableAssumption DEF GuideTypes
<1>5. TokensApart
  BY <1>1, <1>3 DEF TokensApart
<1>6. ScreenWell
  BY <1>1, <1>3, TableAssumption DEF ScreenWell, NewestComes, Guide!ExpandedRowHasFile
<1>7. GuidesTrue /\ HeaderWaits
  BY <1>1, TableAssumption DEF GuidesTrue, HeaderWaits
<1>8. NoneMisleads
  BY <1>1, <1>2, <1>3 DEF NoneMisleads, Guide!Misleads
<1> QED
  BY <1>4, <1>5, <1>6, <1>7, <1>8 DEF GuideInv

LEMMA TableStep == ASSUME GuideInv, Guide!EpisodeTableNext PROVE GuideInv'
<1>1. Relapsing
  BY DEF Guide!EpisodeTableNext, Relapsing
<1>2. \/ \E s \in Shows : Guide!SelectShow(s)
      \/ Guide!FilterChanged \/ Guide!Edit \/ Guide!Collapse
      \/ \E i \in DOMAIN entries : Guide!ToggleSection(i) \/ Guide!Expand(i)
      \/ \E m \in Matches : Guide!Rematch(m) \/ Guide!LoadOverview(m)
      \/ Guide!Building
      \/ \E r \in showRescans : \/ Guide!BeginRescan(r) \/ Guide!RunRescan(r) \/ Guide!FailRescan(r)
                                \/ Guide!RefreshGuide(r) \/ Guide!PrepareGuide(r)
                                \/ Guide!StoreGuide(r) \/ Guide!EndRescan(r)
      \/ Guide!OnLibraryChanged \/ Guide!OnGuideReady \/ Guide!OnGuideFailed \/ Guide!OnOverviewReady
  BY DEF Guide!EpisodeTableNext, Guide!EpisodeTableStep
<1>3. ASSUME NEW s \in Shows, Guide!SelectShow(s) PROVE GuideInv'
  BY <1>1, <1>3, SelectShowStep
<1>4. CASE Guide!FilterChanged \/ Guide!Edit \/ Guide!Collapse
  BY <1>1, <1>4, FilterChangedStep, EditStep, CollapseStep
<1>5. ASSUME NEW i \in DOMAIN entries, Guide!ToggleSection(i) \/ Guide!Expand(i) PROVE GuideInv'
  BY <1>1, <1>5, ToggleSectionStep, ExpandStep
<1>6. ASSUME NEW m \in Matches, Guide!Rematch(m) \/ Guide!LoadOverview(m) PROVE GuideInv'
  BY <1>1, <1>6, RematchStep, LoadOverviewStep
<1>7. CASE Guide!Building
  BY <1>1, <1>7, BuildingStep
<1>8. ASSUME NEW r \in showRescans,
             \/ Guide!BeginRescan(r) \/ Guide!RunRescan(r) \/ Guide!FailRescan(r)
             \/ Guide!RefreshGuide(r) \/ Guide!PrepareGuide(r) \/ Guide!StoreGuide(r) \/ Guide!EndRescan(r)
      PROVE  GuideInv'
  BY <1>1, <1>8, BeginRescanStep, RunRescanStep, FailRescanStep, RefreshGuideStep, PrepareGuideStep,
     StoreGuideStep, EndRescanStep
<1>9. CASE Guide!OnLibraryChanged \/ Guide!OnGuideReady \/ Guide!OnGuideFailed \/ Guide!OnOverviewReady
  BY <1>1, <1>9, OnLibraryChangedStep, OnGuideReadyStep, OnGuideFailedStep, OnOverviewReadyStep
<1> QED
  BY <1>2, <1>3, <1>4, <1>5, <1>6, <1>7, <1>8, <1>9

\* With nothing in the pool and no events, nothing is to come and nothing made anew.
LEMMA TableTold ==
    ASSUME GuideInv
    PROVE  /\ Guide!EpisodeTableTypeOK /\ Guide!SettledTableCurrent /\ Guide!ExpandedRowHasFile
           /\ Guide!HeaderOfShown /\ Guide!CacheHitsAreTrue
<1>1. Guide!EpisodeTableTypeOK
  BY DEF GuideInv, GuideTypes, TokensApart, ScreenWell, Guide!EpisodeTableTypeOK, Guide!Nothing
<1>2. Guide!Settled => Len(guideEvents) = 0 /\ ~ShownComes /\ ~MadeAnew
  BY DEF Guide!Settled, ShownComes, MadeAnew
<1>3. Guide!SettledTableCurrent
  BY <1>2 DEF GuideInv, GuideTypes, ScreenWell, GuidesTrue, Guide!SettledTableCurrent, Guide!Nothing
<1>4. Guide!ExpandedRowHasFile
  BY DEF GuideInv, ScreenWell
<1>5. Guide!HeaderOfShown
  BY DEF GuideInv, GuideTypes, HeaderWaits, Guide!HeaderOfShown, Guide!Nothing
<1>6. Guide!CacheHitsAreTrue
  <2> SUFFICES ASSUME NEW s \in Shows \ relapsed, Guide!Hit(s)
               PROVE  guideCache[Guide!Key(s)].guide = content[s]
    BY DEF Guide!CacheHitsAreTrue
  <2> DEFINE k == Guide!Key(s)
  <2>1. k \in DOMAIN guideCache /\ k[1] = s /\ guideCache[k].signature[2] = content[s]
    BY DEF Guide!Hit, Guide!Key, Guide!Signature
  <2>2. ~Guide!Misleads(s, content[s])
    BY DEF GuideInv, NoneMisleads
  <2> HIDE DEF k
  <2>3. guideCache[k].guide = content[s]
    BY <2>1, <2>2 DEF Guide!Misleads
  <2> QED
    BY <2>3 DEF k
<1> QED
  BY <1>1, <1>3, <1>4, <1>5, <1>6

LEMMA TableUntouched == ASSUME GuideInv, UNCHANGED guideVars PROVE GuideInv'
<1>1. /\ UNCHANGED ScreenVars
      /\ UNCHANGED <<content, matched, scanFailed, guideCache, showRescans, guideEvents, overviews,
                     loading, overview, series, episodeUp, relapsed>>
  BY DEF guideVars, ScreenVars
<1>2. GuideTypes' /\ TokensApart'
  BY <1>1 DEF GuideInv, GuideTypes, TokensApart, ScreenVars
<1>3. ScreenWell'
  BY <1>1 DEF GuideInv, ScreenWell, ShownComes, NewestComes, Guide!ExpandedRowHasFile, ScreenVars
<1>4. GuidesTrue'
  BY <1>1 DEF GuideInv, GuidesTrue, MadeAnew, ScreenVars
<1>5. NoneMisleads' /\ HeaderWaits'
  BY <1>1 DEF GuideInv, NoneMisleads, HeaderWaits, Guide!Misleads, Guide!At, ScreenVars
<1> QED
  BY <1>2, <1>3, <1>4, <1>5 DEF GuideInv

LEMMA TableInSuite == SuiteSpec => [](part = "table" => GuideInv)
<1>1. SuiteInit => (part = "table" => GuideInv)
  BY TableStarts DEF SuiteInit
<1>2. (part = "table" => GuideInv) /\ [SuiteNext]_suiteVars => (part = "table" => GuideInv)'
  <2> SUFFICES ASSUME part = "table" => GuideInv, [SuiteNext]_suiteVars, part' = "table"
               PROVE  GuideInv'
    OBVIOUS
  <2>1. CASE part = "table" /\ Guide!EpisodeTableNext
    BY <2>1, TableStep
  <2>2. CASE UNCHANGED suiteVars
    <3>1. part = "table" /\ UNCHANGED guideVars
      BY <2>2 DEF suiteVars
    <3> QED
      BY <3>1, TableUntouched
  <2> QED
    BY <2>1, <2>2 DEF SuiteNext
<1> QED
  BY <1>1, <1>2, PTL DEF SuiteSpec

\* Whatever overtakes the building of a guide, for any shows, edits, rematches, scans
\* and renders, the table that comes to rest shows the selected show as it is now: its
\* rows, the row that is expanded, the header; and no cached guide of other rows goes
\* by a show's, unless its rows became again what they were when the guide was signed
\* (_work_panel.py, _episode_table_model.py, episode_projection_cache.py).
THEOREM TableAlwaysTells == SuiteSpec => []TableTellsTheShow
<1>1. (part = "table" => GuideInv) => TableTellsTheShow
  BY TableTold DEF TableTellsTheShow
<1> QED
  BY <1>1, TableInSuite, PTL

(***************************************************************************)
(* The roster, for any number of shows, sources and posters.               *)
(***************************************************************************)
GroupNames == {"queued", "fully-ready", "matched", "review-match", "review-episodes",
               "specials-unmapped", "unmatched"}
CardSet == {Cards[i] : i \in DOMAIN Cards}
IsFact(d) ==
    /\ d = [source |-> d.source, id |-> d.id, says |-> d.says, queued |-> d.queued, checked |-> d.checked]
    /\ d.says \in GroupNames
FactsWell(f) == DOMAIN f = CardSet /\ \A s \in CardSet : IsFact(f[s])
\* A list of shows, each once.
ListWell(l) == l \in Seq(CardSet) /\ \A i, j \in DOMAIN l : l[i] = l[j] => i = j

\* The rows e tell of the shows at S: of each in one row, and nothing of others.
Tells(e, S, l, f) ==
    /\ \A r \in DOMAIN e : ~e[r].header => /\ e[r].index \in S
                                           /\ e[r].row = RosterView!RowData(l[e[r].index], f)
    /\ \A i \in S : \E r \in DOMAIN e : ~e[r].header /\ e[r].index = i
    /\ \A r, q \in DOMAIN e : ~e[r].header /\ ~e[q].header /\ e[r].index = e[q].index => r = q
Unfolded(l, f, folded) == {i \in DOMAIN l : RosterView!GroupOf(l[i], f) \notin folded}

RosterTold ==
    ~rosterStale => /\ Tells(rosterRows, Unfolded(rosterShows, fact, groupsClosed), rosterShows, fact)
                    /\ header = RosterView!HeaderOf(rosterShows, fact)

\* A poster is in flight while it is fetched.
FetchesApart ==
    /\ \A k \in inflight : \E w \in fetches : w.key = k
    /\ \A w, v \in fetches : w.key = v.key => w = v
    /\ \A w \in fetches : w.key \in inflight /\ "key" \in DOMAIN w

RosterInv ==
    /\ ListWell(rosterShows) /\ FactsWell(fact) /\ currentRow \in DOMAIN rosterRows \cup {0}
    /\ RosterTold /\ FetchesApart

LEMMA RosterCounts == \A S : RosterView!Cardinality(S) = Cardinality(S)
BY Zenon DEF Cardinality, RosterView!Cardinality

\* The members of a set of numbers by rank: each once.
Ranked(S) == [k \in 1 .. RosterView!Cardinality(S) |->
                 CHOOSE i \in S : RosterView!Cardinality({j \in S : j <= i}) = k]

LEMMA RankedOnce ==
    ASSUME NEW n \in Nat, NEW S \in SUBSET (1 .. n)
    PROVE  /\ Cardinality(S) \in Nat
           /\ \A k \in 1 .. Cardinality(S) : Ranked(S)[k] \in S
           /\ \A k, m \in 1 .. Cardinality(S) : Ranked(S)[k] = Ranked(S)[m] => k = m
           /\ \A i \in S : \E k \in 1 .. Cardinality(S) : Ranked(S)[k] = i
<1> DEFINE Upto(i) == {j \in S : j <= i}
           rank    == [i \in S |-> Cardinality(Upto(i))]
           N       == Cardinality(S)
<1>1. IsFiniteSet(S) /\ N \in Nat
  <2>1. IsFiniteSet(1 .. n)
    BY FS_Interval
  <2> QED
    BY <2>1, FS_Subset, FS_CardinalityType
<1>2. ASSUME NEW i \in S PROVE IsFiniteSet(Upto(i)) /\ Cardinality(Upto(i)) \in 1 .. N
  <2>1. Upto(i) \in SUBSET S /\ i \in Upto(i)
    OBVIOUS
  <2>2. IsFiniteSet(Upto(i)) /\ Cardinality(Upto(i)) <= N
    BY <1>1, <2>1, FS_Subset
  <2>3. Cardinality(Upto(i)) \in Nat /\ Cardinality(Upto(i)) # 0
    BY <2>1, <2>2, FS_CardinalityType, FS_EmptySet
  <2> QED
    BY <1>1, <2>2, <2>3
<1>3. ASSUME NEW i \in S, NEW m \in S, i < m PROVE Cardinality(Upto(i)) < Cardinality(Upto(m))
  <2>0. \A j \in S : j \in Int
    OBVIOUS
  <2>1. Upto(i) \in SUBSET Upto(m) /\ m \in Upto(m) /\ m \notin Upto(i)
    <3>1. ASSUME NEW j \in Upto(i) PROVE j \in Upto(m)
      BY <1>3, <2>0
    <3>2. m \in Upto(m) /\ m \notin Upto(i)
      BY <1>3, <2>0
    <3> QED
      BY <3>1, <3>2
  <2> HIDE DEF Upto
  <2>2. /\ Cardinality(Upto(i)) <= Cardinality(Upto(m))
        /\ Cardinality(Upto(m)) = Cardinality(Upto(i)) => Upto(m) = Upto(i)
    BY <1>2, <2>1, FS_Subset
  <2> QED
    BY <1>2, <2>1, <2>2
<1>4. \A i, m \in S : rank[i] = rank[m] => i = m
  <2> SUFFICES ASSUME NEW i \in S, NEW m \in S, rank[i] = rank[m] PROVE i = m
    OBVIOUS
  <2>1. i \in Int /\ m \in Int
    OBVIOUS
  <2>2. Cardinality(Upto(i)) = Cardinality(Upto(m)) /\ Cardinality(Upto(i)) \in Int
    BY <1>2
  <2> HIDE DEF Upto, rank
  <2>3. ~(i < m) /\ ~(m < i)
    BY <1>3, <2>2
  <2> QED
    BY <2>1, <2>3
<1>5. \A i \in S : rank[i] \in 1 .. N
  BY <1>2
<1>6. rank \in Surjection(S, 1 .. N)
  <2>1. rank \in Injection(S, 1 .. N)
    BY <1>4, <1>5 DEF Injection, IsInjective
  <2>2. IsFiniteSet(1 .. N) /\ Cardinality(1 .. N) = N
    BY <1>1, FS_Interval
  <2> HIDE DEF rank
  <2> QED
    BY <2>1, <2>2, FS_Injection
<1>7. \A k \in 1 .. N : Ranked(S)[k] \in S /\ rank[Ranked(S)[k]] = k
  <2> SUFFICES ASSUME NEW k \in 1 .. N PROVE Ranked(S)[k] \in S /\ rank[Ranked(S)[k]] = k
    OBVIOUS
  <2>1. \E i \in S : rank[i] = k
    BY <1>6 DEF Surjection
  <2>2. \E i \in S : RosterView!Cardinality(Upto(i)) = k
    BY <2>1, RosterCounts
  <2>3. Ranked(S)[k] = CHOOSE i \in S : RosterView!Cardinality(Upto(i)) = k
    BY RosterCounts DEF Ranked
  <2>4. Ranked(S)[k] \in S /\ Cardinality(Upto(Ranked(S)[k])) = k
    <3> HIDE DEF Upto
    <3> QED
      BY <2>2, <2>3, RosterCounts
  <2> QED
    BY <2>4
<1> HIDE DEF rank, N
<1>8. \A i \in S : Ranked(S)[rank[i]] = i
  BY <1>4, <1>5, <1>7
<1> QED
  BY <1>1, <1>4, <1>5, <1>7, <1>8 DEF N

\* Rows one after the other tell of both.
LEMMA TellsBoth ==
    ASSUME NEW T, NEW a \in Seq(T), NEW b \in Seq(T), NEW S, NEW U, NEW l, NEW f,
           Tells(a, S, l, f), Tells(b, U, l, f), S \cap U = {}
    PROVE  a \o b \in Seq(T) /\ Tells(a \o b, S \cup U, l, f)
<1> DEFINE c == a \o b
<1>1. /\ c \in Seq(T) /\ Len(a) \in Nat /\ Len(b) \in Nat /\ Len(c) = Len(a) + Len(b)
      /\ DOMAIN a = 1 .. Len(a) /\ DOMAIN b = 1 .. Len(b) /\ DOMAIN c = 1 .. Len(c)
      /\ \A r \in 1 .. Len(a) : c[r] = a[r]
      /\ \A r \in 1 .. Len(b) : c[Len(a) + r] = b[r]
  OBVIOUS
<1> HIDE DEF c
<1>2. \A r \in DOMAIN c : \/ r \in DOMAIN a /\ c[r] = a[r]
                          \/ r - Len(a) \in DOMAIN b /\ c[r] = b[r - Len(a)]
  <2> SUFFICES ASSUME NEW r \in 1 .. Len(a) + Len(b), r \notin 1 .. Len(a)
               PROVE  r - Len(a) \in 1 .. Len(b) /\ c[r] = b[r - Len(a)]
    BY <1>1
  <2>1. r - Len(a) \in 1 .. Len(b) /\ Len(a) + (r - Len(a)) = r
    BY <1>1
  <2> QED
    BY <1>1, <2>1
<1>3. /\ \A r \in DOMAIN a : r \in DOMAIN c
      /\ \A r \in DOMAIN b : Len(a) + r \in DOMAIN c /\ c[Len(a) + r] = b[r]
  BY <1>1
<1>4. \A r \in DOMAIN c : ~c[r].header => /\ c[r].index \in S \cup U
                                          /\ c[r].row = RosterView!RowData(l[c[r].index], f)
  BY <1>2 DEF Tells
<1>5. \A i \in S \cup U : \E r \in DOMAIN c : ~c[r].header /\ c[r].index = i
  <2>1. ASSUME NEW i \in S PROVE \E r \in DOMAIN c : ~c[r].header /\ c[r].index = i
    BY <1>1, <1>3 DEF Tells
  <2>2. ASSUME NEW i \in U PROVE \E r \in DOMAIN c : ~c[r].header /\ c[r].index = i
    <3>1. PICK r \in DOMAIN b : ~b[r].header /\ b[r].index = i
      BY DEF Tells
    <3> QED
      BY <1>3, <3>1
  <2> QED
    BY <2>1, <2>2
<1>6. ASSUME NEW r \in DOMAIN c, NEW q \in DOMAIN c, ~c[r].header, ~c[q].header, c[r].index = c[q].index
      PROVE  r = q
  <2>1. CASE r \in DOMAIN a /\ c[r] = a[r] /\ q \in DOMAIN a /\ c[q] = a[q]
    BY <1>6, <2>1 DEF Tells
  <2>2. CASE /\ r - Len(a) \in DOMAIN b /\ c[r] = b[r - Len(a)]
             /\ q - Len(a) \in DOMAIN b /\ c[q] = b[q - Len(a)]
    <3>1. r - Len(a) = q - Len(a)
      BY <1>6, <2>2 DEF Tells
    <3> QED
      BY <1>1, <3>1
  <2>3. CASE r \in DOMAIN a /\ c[r] = a[r] /\ q - Len(a) \in DOMAIN b /\ c[q] = b[q - Len(a)]
    BY <1>6, <2>3 DEF Tells
  <2>4. CASE q \in DOMAIN a /\ c[q] = a[q] /\ r - Len(a) \in DOMAIN b /\ c[r] = b[r - Len(a)]
    BY <1>6, <2>4 DEF Tells
  <2> QED
    BY <1>2, <2>1, <2>2, <2>3, <2>4
<1> QED
  BY <1>1, <1>4, <1>5, <1>6 DEF Tells, c

RowSet(l, f) == {RosterView!HeaderRow(g) : g \in GroupNames} \cup {RosterView!StateRow(i, l, f) : i \in DOMAIN l}

LEMMA GroupTells ==
    ASSUME NEW l, ListWell(l), NEW f, NEW g \in GroupNames, NEW folded
    PROVE  /\ RosterView!GroupRows(g, l, f, folded) \in Seq(RowSet(l, f))
           /\ Tells(RosterView!GroupRows(g, l, f, folded),
                    IF g \in folded THEN {} ELSE RosterView!Grouped(g, l, f), l, f)
<1> DEFINE S    == RosterView!Grouped(g, l, f)
           of   == RosterView!Members(g, l, f)
           some == [k \in DOMAIN of |-> RosterView!StateRow(of[k], l, f)]
           top  == <<RosterView!HeaderRow(g)>>
           T    == RowSet(l, f)
<1>1. Len(l) \in Nat /\ DOMAIN l = 1 .. Len(l) /\ S \in SUBSET (1 .. Len(l))
  BY DEF ListWell, RosterView!Grouped
<1>2. of = Ranked(S)
  BY DEF RosterView!Members, Ranked
<1>3. /\ Cardinality(S) \in Nat /\ DOMAIN of = 1 .. Cardinality(S)
      /\ \A k \in DOMAIN of : of[k] \in S
      /\ \A k, m \in DOMAIN of : of[k] = of[m] => k = m
      /\ \A i \in S : \E k \in DOMAIN of : of[k] = i
  <2>1. DOMAIN of = 1 .. Cardinality(S)
    BY <1>2, RosterCounts DEF Ranked
  <2> HIDE DEF S, of
  <2> QED
    BY <1>1, <1>2, <2>1, RankedOnce
<1>4. /\ \A i : ~RosterView!StateRow(i, l, f).header /\ RosterView!StateRow(i, l, f).index = i
                /\ RosterView!StateRow(i, l, f).row = RosterView!RowData(l[i], f)
      /\ RosterView!HeaderRow(g).header
  BY DEF RosterView!StateRow, RosterView!HeaderRow
<1>5. /\ \A i \in S : RosterView!StateRow(i, l, f) \in T
      /\ RosterView!HeaderRow(g) \in T
  BY <1>1 DEF RowSet
<1> HIDE DEF S, of, T
<1>6. some \in Seq(T) /\ Tells(some, S, l, f)
  <2>1. some \in Seq(T)
    <3>1. \A k \in 1 .. Cardinality(S) : some[k] \in T
      BY <1>3, <1>5
    <3> QED
      BY <1>3, <3>1
  <2>2. \A k \in DOMAIN of : /\ ~some[k].header /\ some[k].index = of[k]
                             /\ some[k].row = RosterView!RowData(l[of[k]], f)
    BY <1>4
  <2>3. DOMAIN some = DOMAIN of
    OBVIOUS
  <2> HIDE DEF some
  <2> QED
    BY <1>3, <2>1, <2>2, <2>3 DEF Tells
<1>7. top \in Seq(T) /\ Tells(top, {}, l, f)
  BY <1>4, <1>5 DEF Tells
<1>8. <<>> \in Seq(T) /\ Tells(<<>>, {}, l, f)
  BY DEF Tells
<1>9. RosterView!GroupRows(g, l, f, folded) =
        IF S = {} THEN <<>> ELSE top \o (IF g \in folded THEN <<>> ELSE some)
  <2>1. of = <<>> => S = {}
    BY <1>3
  <2> QED
    BY DEF RosterView!GroupRows, S, of
<1> HIDE DEF some, top
<1>10. CASE S = {}
  <2>1. RosterView!GroupRows(g, l, f, folded) = <<>> /\ (IF g \in folded THEN {} ELSE S) = {}
    BY <1>9, <1>10
  <2> QED
    BY <1>8, <2>1 DEF S, T
<1>11. CASE S # {} /\ g \in folded
  <2>1. /\ RosterView!GroupRows(g, l, f, folded) = top \o <<>>
        /\ (IF g \in folded THEN {} ELSE S) = {} \cup {}
    BY <1>9, <1>11
  <2>2. top \o <<>> \in Seq(T) /\ Tells(top \o <<>>, {} \cup {}, l, f)
    BY <1>7, <1>8, TellsBoth
  <2> QED
    BY <2>1, <2>2 DEF S, T
<1>12. CASE S # {} /\ g \notin folded
  <2>1. /\ RosterView!GroupRows(g, l, f, folded) = top \o some
        /\ (IF g \in folded THEN {} ELSE S) = {} \cup S
    BY <1>9, <1>12
  <2>2. top \o some \in Seq(T) /\ Tells(top \o some, {} \cup S, l, f)
    BY <1>6, <1>7, TellsBoth
  <2> QED
    BY <2>1, <2>2 DEF S, T
<1> QED
  BY <1>10, <1>11, <1>12

\* Every show is in one of the groups.
LEMMA GroupNamed ==
    ASSUME NEW f, FactsWell(f), NEW s \in CardSet PROVE RosterView!GroupOf(s, f) \in GroupNames
BY DEF FactsWell, IsFact, RosterView!GroupOf, GroupNames

LEMMA EntriesTell ==
    ASSUME NEW l, ListWell(l), NEW f, FactsWell(f), NEW folded
    PROVE  /\ RosterView!Entries(l, f, folded) \in Seq(RowSet(l, f))
           /\ Tells(RosterView!Entries(l, f, folded), Unfolded(l, f, folded), l, f)
<1> DEFINE T    == RowSet(l, f)
           G(g) == RosterView!GroupRows(g, l, f, folded)
           S(g) == IF g \in folded THEN {} ELSE RosterView!Grouped(g, l, f)
           g1 == "queued"
           g2 == "fully-ready"
           g3 == "matched"
           g4 == "review-match"
           g5 == "review-episodes"
           g6 == "specials-unmapped"
           g7 == "unmatched"
<1>1. \A g \in GroupNames : G(g) \in Seq(T) /\ Tells(G(g), S(g), l, f)
  BY GroupTells
<1>2. RosterView!Entries(l, f, folded) = G(g1) \o G(g2) \o G(g3) \o G(g4) \o G(g5) \o G(g6) \o G(g7)
  BY DEF RosterView!Entries, RosterView!Groups
<1>3. /\ g1 \in GroupNames /\ g2 \in GroupNames /\ g3 \in GroupNames /\ g4 \in GroupNames
      /\ g5 \in GroupNames /\ g6 \in GroupNames /\ g7 \in GroupNames
  BY DEF GroupNames
<1>4. \A g, h : g # h => S(g) \cap S(h) = {}
  BY DEF RosterView!Grouped
<1>5. Unfolded(l, f, folded) = S(g1) \cup S(g2) \cup S(g3) \cup S(g4) \cup S(g5) \cup S(g6) \cup S(g7)
  <2>1. \A i \in DOMAIN l : RosterView!GroupOf(l[i], f) \in GroupNames
    BY GroupNamed DEF ListWell
  <2> QED
    BY <2>1 DEF Unfolded, RosterView!Grouped, GroupNames
<1>6. /\ g1 # g2 /\ g1 # g3 /\ g1 # g4 /\ g1 # g5 /\ g1 # g6 /\ g1 # g7
      /\ g2 # g3 /\ g2 # g4 /\ g2 # g5 /\ g2 # g6 /\ g2 # g7
      /\ g3 # g4 /\ g3 # g5 /\ g3 # g6 /\ g3 # g7
      /\ g4 # g5 /\ g4 # g6 /\ g4 # g7 /\ g5 # g6 /\ g5 # g7 /\ g6 # g7
  OBVIOUS
<1> HIDE DEF T, G, S, g1, g2, g3, g4, g5, g6, g7
<1> DEFINE a2 == G(g1) \o G(g2)
           a3 == a2 \o G(g3)
           a4 == a3 \o G(g4)
           a5 == a4 \o G(g5)
           a6 == a5 \o G(g6)
           a7 == a6 \o G(g7)
           s2 == S(g1) \cup S(g2)
           s3 == s2 \cup S(g3)
           s4 == s3 \cup S(g4)
           s5 == s4 \cup S(g5)
           s6 == s5 \cup S(g6)
           s7 == s6 \cup S(g7)
<1>12. s2 \cap S(g3) = {}
  BY <1>4, <1>6
<1>13. s3 \cap S(g4) = {}
  BY <1>4, <1>6
<1>14. s4 \cap S(g5) = {}
  BY <1>4, <1>6
<1>15. s5 \cap S(g6) = {}
  BY <1>4, <1>6
<1>16. s6 \cap S(g7) = {}
  BY <1>4, <1>6
<1>22. a2 \in Seq(T) /\ Tells(a2, s2, l, f)
  BY <1>1, <1>3, <1>4, <1>6, TellsBoth
<1> HIDE DEF a2, s2
<1>23. a3 \in Seq(T) /\ Tells(a3, s3, l, f)
  BY <1>1, <1>3, <1>12, <1>22, TellsBoth
<1> HIDE DEF a3, s3
<1>24. a4 \in Seq(T) /\ Tells(a4, s4, l, f)
  BY <1>1, <1>3, <1>13, <1>23, TellsBoth
<1> HIDE DEF a4, s4
<1>25. a5 \in Seq(T) /\ Tells(a5, s5, l, f)
  BY <1>1, <1>3, <1>14, <1>24, TellsBoth
<1> HIDE DEF a5, s5
<1>26. a6 \in Seq(T) /\ Tells(a6, s6, l, f)
  BY <1>1, <1>3, <1>15, <1>25, TellsBoth
<1> HIDE DEF a6, s6
<1>27. a7 \in Seq(T) /\ Tells(a7, s7, l, f)
  BY <1>1, <1>3, <1>16, <1>26, TellsBoth
<1> QED
  BY <1>2, <1>5, <1>27 DEF a2, a3, a4, a5, a6, s2, s3, s4, s5, s6, T

LEMMA LeastOfSome ==
    ASSUME NEW S \in SUBSET Nat, S # {}
    PROVE  (CHOOSE r \in S : \A q \in S : r <= q) \in S
<1>1. \E r \in S : \A q \in S : ~(<<q, r>> \in OpToRel(<, Nat))
  BY WFMin, NatLessThanWellFounded
<1>2. PICK r \in S : \A q \in S : ~(<<q, r>> \in OpToRel(<, Nat))
  BY <1>1
<1>3. \A q \in S : r <= q
  <2> SUFFICES ASSUME NEW q \in S PROVE ~(q < r)
    OBVIOUS
  <2>1. <<q, r>> \in Nat \X Nat /\ <<q, r>>[1] = q /\ <<q, r>>[2] = r
    OBVIOUS
  <2>2. <<q, r>> \notin {ss \in Nat \X Nat : ss[1] < ss[2]}
    BY <1>2 DEF OpToRel
  <2> QED
    BY <2>1, <2>2
<1> QED
  BY <1>3

\* The row that is made current is one of the rows.
LEMMA RowsAreFound ==
    ASSUME NEW e, DOMAIN e \in SUBSET Nat
    PROVE  /\ \A i : RosterView!RowOf(e, i) \in DOMAIN e \cup {0}
           /\ RosterView!FirstRow(e) \in DOMAIN e \cup {0}
           /\ \A i : RosterView!SyncedRow(e, i) \in DOMAIN e \cup {0}
<1>1. ASSUME NEW i PROVE RosterView!RowOf(e, i) \in DOMAIN e \cup {0}
  <2>1. CASE RosterView!RowsOfIndex(e, i) = {}
    BY <2>1 DEF RosterView!RowOf, RosterView!Nobody
  <2>2. CASE RosterView!RowsOfIndex(e, i) # {}
    BY <2>2 DEF RosterView!RowOf, RosterView!RowsOfIndex
  <2> QED
    BY <2>1, <2>2
<1>2. RosterView!FirstRow(e) \in DOMAIN e \cup {0}
  <2> DEFINE S == {r \in DOMAIN e : ~e[r].header}
  <2>1. S \in SUBSET Nat /\ S \in SUBSET DOMAIN e
    OBVIOUS
  <2>2. RosterView!FirstRow(e) = IF S = {} THEN 0 ELSE CHOOSE r \in S : \A q \in S : r <= q
    BY DEF RosterView!FirstRow, RosterView!Nobody
  <2> HIDE DEF S
  <2> QED
    BY <2>1, <2>2, LeastOfSome
<1> QED
  BY <1>1, <1>2 DEF RosterView!SyncedRow

\* Rows made anew, with the header of the same shows.
LEMMA MadeAnewTold ==
    ASSUME NEW l, ListWell(l), NEW f, FactsWell(f), NEW folded,
           rosterShows' = l, fact' = f, groupsClosed' = folded,
           rosterRows' = RosterView!Entries(l, f, folded),
           rosterStale' \/ header' = RosterView!HeaderOf(l, f)
    PROVE  RosterTold' /\ ListWell(rosterShows)' /\ FactsWell(fact)' /\ DOMAIN rosterRows' \in SUBSET Nat
<1>1. Tells(RosterView!Entries(l, f, folded), Unfolded(l, f, folded), l, f)
  BY EntriesTell
<1>2. Tells(rosterRows', Unfolded(rosterShows', fact', groupsClosed'), rosterShows', fact')
  BY <1>1
<1>3. rosterStale' \/ header' = RosterView!HeaderOf(rosterShows', fact')
  OBVIOUS
<1>4. RosterTold'
  BY <1>2, <1>3 DEF RosterTold
<1>5. DOMAIN rosterRows' \in SUBSET Nat
  <2>1. RosterView!Entries(l, f, folded) \in Seq(RowSet(l, f))
    BY EntriesTell
  <2> QED
    BY <2>1
<1> QED
  BY <1>4, <1>5

\* What is asked for is not in flight yet, and then it is fetched.
LEMMA RequestKeepsFetches ==
    ASSUME FetchesApart, NEW shows, NEW f, RosterView!Request(shows, f)
    PROVE  FetchesApart'
<1> DEFINE asked == {s \in shows : f[s].id # NoId}
           hits  == {RosterView!PosterKey(s, f) : s \in asked} \cap {posters[i].key : i \in DOMAIN posters}
           keys  == {RosterView!PosterKey(s, f) : s \in asked} \ (hits \cup inflight)
           first(k) == CHOOSE s \in asked : RosterView!PosterKey(s, f) = k
           W(k)  == [key |-> k, show |-> first(k), emitted |-> FALSE]
<1>1. /\ inflight' = inflight \cup keys
      /\ fetches' = fetches \cup {W(k) : k \in keys}
  BY DEF RosterView!Request
<1>2. keys \cap inflight = {}
  OBVIOUS
<1>3. \A k : W(k).key = k /\ "key" \in DOMAIN W(k)
  OBVIOUS
<1> HIDE DEF keys, W
<1>4. \A k \in inflight' : \E w \in fetches' : w.key = k
  BY <1>1, <1>3 DEF FetchesApart
<1>5. \A w \in fetches' : /\ w.key \in inflight' /\ "key" \in DOMAIN w
  BY <1>1, <1>3 DEF FetchesApart
<1>6. \A w, v \in fetches' : w.key = v.key => w = v
  <2> SUFFICES ASSUME NEW w \in fetches', NEW v \in fetches', w.key = v.key PROVE w = v
    OBVIOUS
  <2>1. \A u \in fetches' : u \in fetches \/ (u.key \in keys /\ u = W(u.key))
    BY <1>1, <1>3
  <2>2. \A u \in fetches : u.key \notin keys
    BY <1>2 DEF FetchesApart
  <2> QED
    BY <2>1, <2>2 DEF FetchesApart
<1> QED
  BY <1>4, <1>5, <1>6 DEF FetchesApart

LEMMA FetchKeepsFetches ==
    ASSUME FetchesApart, NEW w \in fetches, RosterView!Fetch(w) PROVE FetchesApart'
<1> DEFINE d == [w EXCEPT !.emitted = TRUE]
<1>1. fetches' = (fetches \ {w}) \cup {d} /\ inflight' = inflight
  BY DEF RosterView!Fetch
<1>2. "key" \in DOMAIN w
  BY DEF FetchesApart
<1>3. d.key = w.key /\ "key" \in DOMAIN d
  BY <1>2
<1> HIDE DEF d
<1> QED
  BY <1>1, <1>3 DEF FetchesApart

LEMMA EndFetchKeepsFetches ==
    ASSUME FetchesApart, NEW w \in fetches, RosterView!EndFetch(w) PROVE FetchesApart'
<1>1. fetches' = fetches \ {w} /\ inflight' = inflight \ {w.key}
  BY DEF RosterView!EndFetch
<1> QED
  BY <1>1 DEF FetchesApart

LEMMA NormalizedWell ==
    ASSUME NEW f, FactsWell(f) PROVE FactsWell(RosterView!NormalizedChecks(f))
<1> DEFINE g == RosterView!NormalizedChecks(f)
<1>1. ASSUME NEW s \in CardSet PROVE IsFact(g[s])
  <2>1. IsFact(f[s]) /\ g[s] = [f[s] EXCEPT !.checked = f[s].checked /\ RosterView!Approvable(s, f)]
    BY DEF FactsWell, RosterView!NormalizedChecks
  <2> QED
    BY <2>1 DEF IsFact
<1>2. DOMAIN g = CardSet
  BY DEF RosterView!NormalizedChecks, FactsWell
<1> QED
  BY <1>1, <1>2 DEF FactsWell

LEMMA MasterWell ==
    ASSUME NEW f, FactsWell(f), NEW wanted
    PROVE  FactsWell([s \in DOMAIN f |-> [f[s] EXCEPT !.checked = wanted /\ RosterView!Approvable(s, f)]])
<1> DEFINE g == [s \in DOMAIN f |-> [f[s] EXCEPT !.checked = wanted /\ RosterView!Approvable(s, f)]]
<1>1. ASSUME NEW s \in CardSet PROVE IsFact(g[s])
  <2>1. IsFact(f[s]) /\ g[s] = [f[s] EXCEPT !.checked = wanted /\ RosterView!Approvable(s, f)]
    BY DEF FactsWell
  <2> QED
    BY <2>1 DEF IsFact
<1>2. DOMAIN g = CardSet
  BY DEF FactsWell
<1> QED
  BY <1>1, <1>2 DEF FactsWell

LEMMA SaysAreGroups == Says \subseteq GroupNames
BY RosterAssumption DEF GroupNames

LEMMA BecameWell ==
    ASSUME FactsWell(fact), NEW s \in CardSet, NEW source, NEW id, NEW says \in Says, NEW done
    PROVE  FactsWell(RosterView!Became(s, source, id, says, done))
<1> DEFINE d1 == [fact[s] EXCEPT !.source = source]
           d2 == [d1 EXCEPT !.id = id]
           d3 == [d2 EXCEPT !.says = says]
           d4 == [d3 EXCEPT !.queued = done]
           g  == RosterView!Became(s, source, id, says, done)
<1>1. IsFact(fact[s]) /\ says \in GroupNames
  BY SaysAreGroups DEF FactsWell
<1>2. IsFact(d1)
  BY <1>1 DEF IsFact
<1> HIDE DEF d1
<1>3. IsFact(d2)
  BY <1>2 DEF IsFact
<1> HIDE DEF d2
<1>4. IsFact(d3)
  BY <1>1, <1>3 DEF IsFact
<1> HIDE DEF d3
<1>5. IsFact(d4)
  BY <1>4 DEF IsFact
<1>6. g = [fact EXCEPT ![s] = d4]
  BY DEF RosterView!Became, d1, d2, d3
<1> HIDE DEF g, d4
<1>7. FactsWell(g)
  BY <1>5, <1>6 DEF FactsWell
<1> QED
  BY <1>7 DEF g

LEMMA RefreshKeepsRoster ==
    ASSUME FetchesApart, NEW l, ListWell(l), NEW f0, FactsWell(f0), NEW after,
           RosterView!Refresh(l, f0, after)
    PROVE  RosterInv'
<1> DEFINE f == RosterView!NormalizedChecks(f0)
           e == RosterView!Entries(l, f, groupsClosed)
<1>1. FactsWell(f)
  BY NormalizedWell
<1>2. RosterView!RefreshRows(l, f, e, after)
  BY DEF RosterView!Refresh, RosterView!RefreshChecked
<1> HIDE DEF f, e
<1>3. /\ rosterShows' = l /\ fact' = f /\ rosterRows' = e
      /\ header' = RosterView!HeaderOf(l, f)
      /\ groupsClosed' = groupsClosed
      /\ RosterView!Request(RosterView!Wanted(l, f, e), f)
  BY <1>2 DEF RosterView!RefreshRows
<1>4. RosterTold' /\ ListWell(rosterShows)' /\ FactsWell(fact)' /\ DOMAIN rosterRows' \in SUBSET Nat
  BY <1>1, <1>3, MadeAnewTold DEF e
<1>5. FetchesApart'
  BY <1>3, RequestKeepsFetches
<1>6. currentRow' \in DOMAIN e \cup {0}
  <2>1. \A i : RosterView!RowOf(e, i) \in DOMAIN e \cup {0} /\ RosterView!SyncedRow(e, i) \in DOMAIN e \cup {0}
    BY <1>3, <1>4, RowsAreFound
  <2>2. \/ \E i : currentRow' = RosterView!RowOf(e, i)
        \/ \E i : currentRow' = RosterView!SyncedRow(e, i)
    BY <1>2 DEF RosterView!RefreshRows
  <2> QED
    BY <2>1, <2>2
<1> QED
  BY <1>3, <1>4, <1>5, <1>6 DEF RosterInv

LEMMA HighlightedIsAShow ==
    ASSUME RosterInv, RosterView!Highlighted # RosterView!Nobody
    PROVE  /\ currentRow \in DOMAIN rosterRows /\ ~rosterRows[currentRow].header
           /\ rosterRows[currentRow].index \in DOMAIN rosterShows
           /\ RosterView!Highlighted = rosterShows[rosterRows[currentRow].index]
           /\ RosterView!Highlighted \in CardSet
<1> DEFINE i == RosterView!IndexAt(rosterRows, currentRow)
<1>1. ListWell(rosterShows) /\ currentRow \in DOMAIN rosterRows \cup {0}
  BY DEF RosterInv
<1>2. i \in DOMAIN rosterShows /\ RosterView!Highlighted = rosterShows[i]
  BY DEF RosterView!Highlighted, RosterView!StateAt
<1>3. i # 0 /\ rosterShows[i] \in CardSet
  BY <1>1, <1>2 DEF ListWell
<1>4. currentRow # 0 /\ ~rosterRows[currentRow].header /\ i = rosterRows[currentRow].index
  BY <1>3 DEF RosterView!IndexAt, RosterView!Nobody
<1> QED
  BY <1>1, <1>2, <1>3, <1>4

\* A check that is turned is told by the row of its show and changes no other.
LEMMA CheckedKeepsRoster ==
    ASSUME RosterInv, ~rosterStale, NEW r \in DOMAIN rosterRows, ~rosterRows[r].header, NEW wanted,
           RosterView!Checked(r, wanted)
    PROVE  RosterInv'
<1> DEFINE i == rosterRows[r].index
           l == rosterShows
           d == [fact[l[i]] EXCEPT !.checked = wanted]
           f == [fact EXCEPT ![l[i]].checked = wanted]
           row == RosterView!StateRow(i, l, f)
           e == [rosterRows EXCEPT ![r] = row]
           S == Unfolded(l, fact, groupsClosed)
<1>1. /\ ListWell(l) /\ FactsWell(fact) /\ currentRow \in DOMAIN rosterRows \cup {0} /\ FetchesApart
      /\ Tells(rosterRows, S, l, fact)
  BY DEF RosterInv, RosterTold
<1>2. /\ fact' = f /\ rosterRows' = e /\ header' = RosterView!HeaderOf(l, f)
      /\ UNCHANGED <<rosterShows, currentRow, groupsClosed, rosterStale, inflight, fetches>>
  BY DEF RosterView!Checked, RosterView!posterVars
<1>3. i \in S /\ i \in DOMAIN l /\ l[i] \in CardSet
  BY <1>1 DEF Tells, Unfolded, ListWell
<1>4. IsFact(fact[l[i]]) /\ DOMAIN fact = CardSet
  BY <1>1, <1>3 DEF FactsWell
<1>5. /\ IsFact(d) /\ d.source = fact[l[i]].source /\ d.id = fact[l[i]].id
      /\ d.says = fact[l[i]].says /\ d.queued = fact[l[i]].queued
  BY <1>4 DEF IsFact
<1>6. /\ f[l[i]] = d /\ DOMAIN f = CardSet
      /\ \A s \in CardSet : s # l[i] => f[s] = fact[s]
  BY <1>3, <1>4
<1>7. row.header = FALSE /\ row.index = i /\ row.row = RosterView!RowData(l[i], f)
  BY DEF RosterView!StateRow
<1>8. DOMAIN e = DOMAIN rosterRows /\ e[r] = row /\ \A q \in DOMAIN rosterRows : q # r => e[q] = rosterRows[q]
  OBVIOUS
<1> HIDE DEF d, f, row, e
<1>9. FactsWell(f)
  BY <1>1, <1>3, <1>5, <1>6 DEF FactsWell
<1>10. \A s \in CardSet : RosterView!GroupOf(s, f) = RosterView!GroupOf(s, fact)
  <2> SUFFICES ASSUME NEW s \in CardSet PROVE RosterView!GroupOf(s, f) = RosterView!GroupOf(s, fact)
    OBVIOUS
  <2>1. f[s].id = fact[s].id /\ f[s].says = fact[s].says /\ f[s].queued = fact[s].queued
    BY <1>5, <1>6
  <2> QED
    BY <2>1 DEF RosterView!GroupOf
<1>11. Unfolded(l, f, groupsClosed) = S
  BY <1>1, <1>10 DEF Unfolded, ListWell
<1>12. \A s \in CardSet : s # l[i] => RosterView!RowData(s, f) = RosterView!RowData(s, fact)
  BY <1>6 DEF RosterView!RowData, RosterView!Approvable, RosterView!PosterKey
<1>13. Tells(e, S, l, f)
  <2>1. ASSUME NEW q \in DOMAIN e, ~e[q].header
        PROVE  e[q].index \in S /\ e[q].row = RosterView!RowData(l[e[q].index], f)
    <3>1. CASE q = r
      BY <1>3, <1>7, <1>8, <3>1
    <3>2. CASE q # r
      <4>1. q \in DOMAIN rosterRows /\ e[q] = rosterRows[q]
        BY <1>8, <3>2
      <4>2. e[q].index \in S /\ e[q].index # i /\ e[q].row = RosterView!RowData(l[e[q].index], fact)
        BY <1>1, <2>1, <3>2, <4>1 DEF Tells
      <4>3. l[e[q].index] \in CardSet /\ l[e[q].index] # l[i]
        BY <1>1, <1>3, <4>2 DEF ListWell, Unfolded
      <4> QED
        BY <1>12, <4>2, <4>3
    <3> QED
      BY <3>1, <3>2
  <2>2. ASSUME NEW j \in S PROVE \E q \in DOMAIN e : ~e[q].header /\ e[q].index = j
    <3>1. PICK q \in DOMAIN rosterRows : ~rosterRows[q].header /\ rosterRows[q].index = j
      BY <1>1 DEF Tells
    <3> QED
      BY <1>7, <1>8, <3>1
  <2>3. ASSUME NEW p \in DOMAIN e, NEW q \in DOMAIN e, ~e[p].header, ~e[q].header, e[p].index = e[q].index
        PROVE  p = q
    <3>1. ~rosterRows[p].header /\ ~rosterRows[q].header /\ rosterRows[p].index = rosterRows[q].index
      BY <1>7, <1>8, <2>3
    <3> QED
      BY <1>1, <1>8, <3>1 DEF Tells
  <2> QED
    BY <2>1, <2>2, <2>3 DEF Tells
<1>14. RosterTold'
  <2>1. Tells(rosterRows', Unfolded(rosterShows', fact', groupsClosed'), rosterShows', fact')
    BY <1>2, <1>11, <1>13
  <2>2. header' = RosterView!HeaderOf(rosterShows', fact')
    BY <1>2
  <2> QED
    BY <2>1, <2>2 DEF RosterTold
<1>15. FetchesApart'
  BY <1>1, <1>2 DEF FetchesApart
<1> QED
  BY <1>1, <1>2, <1>8, <1>9, <1>14, <1>15 DEF RosterInv

LEMMA ToggleKeepsRoster ==
    ASSUME RosterInv, NEW g, RosterView!ToggleGroup(g) PROVE RosterInv'
<1> DEFINE folded == IF g \in groupsClosed THEN groupsClosed \ {g} ELSE groupsClosed \cup {g}
           e == RosterView!Entries(rosterShows, fact, folded)
<1>1. /\ ListWell(rosterShows) /\ FactsWell(fact) /\ FetchesApart /\ RosterTold
  BY DEF RosterInv
<1>2. /\ ~rosterStale /\ groupsClosed' = folded /\ rosterRows' = e
      /\ currentRow' = RosterView!SyncedRow(e, RosterView!IndexAt(rosterRows, currentRow))
      /\ RosterView!Request(RosterView!Wanted(rosterShows, fact, e), fact)
      /\ UNCHANGED <<rosterShows, fact, header, rosterStale>>
  BY DEF RosterView!ToggleGroup
<1> HIDE DEF folded
<1>3. header' = RosterView!HeaderOf(rosterShows, fact)
  BY <1>1, <1>2 DEF RosterTold
<1>4. RosterTold' /\ ListWell(rosterShows)' /\ FactsWell(fact)' /\ DOMAIN rosterRows' \in SUBSET Nat
  BY <1>1, <1>2, <1>3, MadeAnewTold
<1> HIDE DEF e
<1>5. currentRow' \in DOMAIN e \cup {0}
  BY <1>2, <1>4, RowsAreFound
<1>6. FetchesApart'
  BY <1>1, <1>2, RequestKeepsFetches
<1> QED
  BY <1>2, <1>4, <1>5, <1>6 DEF RosterInv

\* What the roster shows stays as it was.
LEMMA RosterStays ==
    ASSUME RosterInv, FetchesApart',
           UNCHANGED <<rosterShows, fact, rosterRows, groupsClosed, rosterStale>>,
           currentRow' \in DOMAIN rosterRows \cup {0},
           header' = header \/ header' = RosterView!HeaderOf(rosterShows, fact)
    PROVE  RosterInv'
<1>1. ListWell(rosterShows') /\ FactsWell(fact')
  BY DEF RosterInv
<1>2. RosterTold'
  <2> SUFFICES ASSUME ~rosterStale
               PROVE  /\ Tells(rosterRows', Unfolded(rosterShows', fact', groupsClosed'), rosterShows', fact')
                      /\ header' = RosterView!HeaderOf(rosterShows', fact')
    BY DEF RosterTold
  <2>1. /\ Tells(rosterRows, Unfolded(rosterShows, fact, groupsClosed), rosterShows, fact)
        /\ header = RosterView!HeaderOf(rosterShows, fact)
    BY DEF RosterInv, RosterTold
  <2> QED
    BY <2>1
<1> QED
  BY <1>1, <1>2 DEF RosterInv

LEMMA SelectKeepsRoster ==
    ASSUME RosterInv, NEW r \in DOMAIN rosterRows, RosterView!SelectRow(r) PROVE RosterInv'
<1>1. /\ currentRow' = r /\ header' = RosterView!HeaderOf(rosterShows, fact)
      /\ UNCHANGED <<rosterShows, fact, rosterRows, groupsClosed, rosterStale, inflight, fetches>>
  BY DEF RosterView!SelectRow, RosterView!posterVars
<1>2. FetchesApart'
  BY <1>1 DEF RosterInv, FetchesApart
<1> QED
  BY <1>1, <1>2, RosterStays

LEMMA PostersKeepRoster ==
    ASSUME RosterInv,
           \/ RosterView!ScanPosterTick \/ RosterView!ApplyPoster
           \/ \E w \in fetches : RosterView!Fetch(w) \/ RosterView!EndFetch(w)
    PROVE  RosterInv'
<1>1. UNCHANGED <<rosterShows, fact, rosterRows, currentRow, groupsClosed, header, rosterStale>>
  BY DEF RosterView!ScanPosterTick, RosterView!ApplyPoster, RosterView!Fetch, RosterView!EndFetch,
         RosterView!viewVars
<1>2. FetchesApart'
  <2>0. FetchesApart
    BY DEF RosterInv
  <2>1. CASE RosterView!ScanPosterTick
    BY <2>0, <2>1, RequestKeepsFetches DEF RosterView!ScanPosterTick
  <2>2. CASE RosterView!ApplyPoster
    BY <2>0, <2>2 DEF RosterView!ApplyPoster, FetchesApart
  <2>3. ASSUME NEW w \in fetches, RosterView!Fetch(w) PROVE FetchesApart'
    BY <2>0, <2>3, FetchKeepsFetches
  <2>4. ASSUME NEW w \in fetches, RosterView!EndFetch(w) PROVE FetchesApart'
    BY <2>0, <2>4, EndFetchKeepsFetches
  <2> QED
    BY <2>1, <2>2, <2>3, <2>4
<1>3. currentRow' \in DOMAIN rosterRows \cup {0} /\ header' = header
  BY <1>1 DEF RosterInv
<1> QED
  BY <1>1, <1>2, <1>3, RosterStays

LEMMA ScanKeepsRoster ==
    ASSUME RosterInv, NEW s \in RosterView!ShowsOf(rosterShows), RosterView!ScanChanges(s)
    PROVE  RosterInv'
<1>1. s \in CardSet
  BY DEF RosterInv, ListWell, RosterView!ShowsOf
<1>2. PICK source \in Providers, id \in ShowIds, says \in Says :
        fact' = RosterView!Became(s, source, id, says, FALSE)
  BY DEF RosterView!ScanChanges
<1>3. FactsWell(fact')
  BY <1>1, <1>2, BecameWell DEF RosterInv
<1>4. rosterStale' /\ UNCHANGED <<rosterShows, rosterRows, currentRow, inflight, fetches>>
  BY DEF RosterView!ScanChanges, RosterView!posterVars
<1>5. FetchesApart'
  BY <1>4 DEF RosterInv, FetchesApart
<1>6. RosterTold'
  BY <1>4 DEF RosterTold
<1> QED
  BY <1>3, <1>4, <1>5, <1>6 DEF RosterInv

LEMMA RematchKeepsRoster ==
    ASSUME RosterInv, RosterView!RematchHighlighted PROVE RosterInv'
<1>1. RosterView!Highlighted \in CardSet
  BY HighlightedIsAShow DEF RosterView!RematchHighlighted
<1>2. PICK source \in Providers, id \in ShowIds, says \in Says, done \in BOOLEAN :
        RosterView!Refresh(rosterShows, RosterView!Became(RosterView!Highlighted, source, id, says, done),
                           RosterView!Highlighted)
  BY DEF RosterView!RematchHighlighted
<1>3. FactsWell(RosterView!Became(RosterView!Highlighted, source, id, says, done))
  BY <1>1, BecameWell DEF RosterInv
<1>4. ListWell(rosterShows) /\ FetchesApart
  BY DEF RosterInv
<1> QED
  BY <1>2, <1>3, <1>4, RefreshKeepsRoster

\* A list from which one show is gone holds the others, each once.
LEMMA ShorterList ==
    ASSUME NEW l, ListWell(l), NEW i \in DOMAIN l
    PROVE  ListWell([k \in 1 .. Len(l) - 1 |-> l[IF k < i THEN k ELSE k + 1]])
<1> DEFINE n == Len(l)
           s == [k \in 1 .. n - 1 |-> l[IF k < i THEN k ELSE k + 1]]
           at == [k \in 1 .. n - 1 |-> IF k < i THEN k ELSE k + 1]
<1>1. n \in Nat /\ DOMAIN l = 1 .. n /\ i \in 1 .. n /\ n - 1 \in Nat
      /\ (\A k \in 1 .. n : l[k] \in CardSet)
      /\ (\A k, m \in 1 .. n : l[k] = l[m] => k = m)
  BY DEF ListWell
<1> HIDE DEF n
<1>2. /\ \A k \in 1 .. n - 1 : at[k] \in 1 .. n
      /\ \A k, m \in 1 .. n - 1 : at[k] = at[m] => k = m
  BY <1>1
<1>3. \A k \in 1 .. n - 1 : s[k] = l[at[k]]
  OBVIOUS
<1>4. DOMAIN s = 1 .. n - 1
  OBVIOUS
<1> HIDE DEF at
<1>5. \A k \in 1 .. n - 1 : s[k] \in CardSet
  BY <1>1, <1>2, <1>3
<1>6. s \in Seq(CardSet)
  BY <1>1, <1>5
<1> HIDE DEF s
<1>7. ListWell(s)
  BY <1>1, <1>2, <1>3, <1>4, <1>6 DEF ListWell
<1> QED
  BY <1>7 DEF s, n

LEMMA AssignKeepsRoster ==
    ASSUME RosterInv, RosterView!AssignSeason PROVE RosterInv'
<1>1. PICK i \in DOMAIN rosterShows :
        RosterView!Refresh([k \in 1 .. Len(rosterShows) - 1 |-> rosterShows[IF k < i THEN k ELSE k + 1]],
                           fact, RosterView!Highlighted)
  BY DEF RosterView!AssignSeason
<1>2. ListWell(rosterShows) /\ FactsWell(fact) /\ FetchesApart
  BY DEF RosterInv
<1>3. ListWell([k \in 1 .. Len(rosterShows) - 1 |-> rosterShows[IF k < i THEN k ELSE k + 1]])
  BY <1>2, ShorterList
<1> QED
  BY <1>1, <1>2, <1>3, RefreshKeepsRoster

LEMMA RosterStep == RosterInv /\ RosterView!RosterNext => RosterInv'
<1> SUFFICES ASSUME RosterInv, RosterView!RosterNext PROVE RosterInv'
  OBVIOUS
<1>0. ListWell(rosterShows) /\ FactsWell(fact) /\ FetchesApart
  BY DEF RosterInv
<1>1. CASE RosterView!RefreshFromController
  BY <1>0, <1>1, RefreshKeepsRoster DEF RosterView!RefreshFromController
<1>2. CASE \/ RosterView!ScanPosterTick \/ RosterView!ApplyPoster
           \/ \E w \in fetches : RosterView!Fetch(w) \/ RosterView!EndFetch(w)
  BY <1>2, PostersKeepRoster
<1>3. ASSUME NEW r \in DOMAIN rosterRows, RosterView!SelectRow(r) PROVE RosterInv'
  BY <1>3, SelectKeepsRoster
<1>4. ASSUME NEW r \in DOMAIN rosterRows, RosterView!ToggleClicked(r) PROVE RosterInv'
  BY <1>4, CheckedKeepsRoster DEF RosterView!ToggleClicked
<1>5. CASE RosterView!ToggleFocused
  <2>1. ~rosterStale /\ RosterView!Highlighted # RosterView!Nobody
    BY <1>5 DEF RosterView!ToggleFocused
  <2>2. RosterView!Checked(currentRow, ~fact[RosterView!Highlighted].checked)
    BY <1>5 DEF RosterView!ToggleFocused
  <2> QED
    BY <2>1, <2>2, HighlightedIsAShow, CheckedKeepsRoster
<1>6. ASSUME NEW wanted \in BOOLEAN, RosterView!MasterCheck(wanted) PROVE RosterInv'
  <2> DEFINE f == [s \in DOMAIN fact |-> [fact[s] EXCEPT !.checked = wanted /\ RosterView!Approvable(s, fact)]]
  <2>1. RosterView!Refresh(rosterShows, f, RosterView!Nobody)
    BY <1>6 DEF RosterView!MasterCheck
  <2>2. FactsWell(f)
    BY <1>0, MasterWell
  <2> QED
    BY <1>0, <2>1, <2>2, RefreshKeepsRoster
<1>7. ASSUME NEW g, RosterView!ToggleGroup(g) PROVE RosterInv'
  BY <1>7, ToggleKeepsRoster
<1>8. ASSUME NEW s \in RosterView!ShowsOf(rosterShows), RosterView!ScanChanges(s) PROVE RosterInv'
  BY <1>8, ScanKeepsRoster
<1>9. CASE RosterView!RematchHighlighted
  BY <1>9, RematchKeepsRoster
<1>10. CASE RosterView!AssignSeason
  BY <1>10, AssignKeepsRoster
<1> QED
  BY <1>1, <1>2, <1>3, <1>4, <1>5, <1>6, <1>7, <1>8, <1>9, <1>10 DEF RosterView!RosterNext

LEMMA RosterStarts == MCRosterInit => RosterInv
<1> SUFFICES ASSUME RosterView!RosterInit PROVE RosterInv
  BY DEF MCRosterInit
<1>1. /\ rosterShows = Cards /\ rosterRows = <<>> /\ currentRow = 0 /\ rosterStale
      /\ inflight = {} /\ fetches = {}
  BY DEF RosterView!RosterInit, RosterView!Nobody
<1>2. PICK source \in Providers, id \in ShowIds \cup {NoId}, says \in [RosterView!ShowsOf(Cards) -> Says] :
        fact = [s \in RosterView!ShowsOf(Cards) |->
                  [source |-> source, id |-> id, says |-> says[s], queued |-> FALSE, checked |-> FALSE]]
  BY DEF RosterView!RosterInit
<1>3. RosterView!ShowsOf(Cards) = CardSet
  BY DEF RosterView!ShowsOf, CardSet
<1>4. FactsWell(fact)
  <2>1. ASSUME NEW s \in CardSet PROVE IsFact(fact[s])
    <3>1. says[s] \in GroupNames
      BY <1>3, SaysAreGroups
    <3>2. fact[s] = [source |-> source, id |-> id, says |-> says[s], queued |-> FALSE, checked |-> FALSE]
      BY <1>2, <1>3
    <3> QED
      BY <3>1, <3>2 DEF IsFact
  <2>2. DOMAIN fact = CardSet
    BY <1>2, <1>3
  <2> QED
    BY <2>1, <2>2 DEF FactsWell
<1>5. ListWell(rosterShows)
  BY <1>1, RosterAssumption DEF ListWell, CardSet
<1>6. RosterTold /\ FetchesApart
  BY <1>1 DEF RosterTold, FetchesApart
<1> QED
  BY <1>1, <1>4, <1>5, <1>6 DEF RosterInv

LEMMA RosterUntouched == RosterInv /\ UNCHANGED rosterVars => RosterInv'
<1> SUFFICES ASSUME RosterInv, UNCHANGED rosterVars PROVE RosterInv'
  OBVIOUS
<1>1. /\ UNCHANGED <<rosterShows, fact, rosterRows, currentRow, groupsClosed, header, rosterStale>>
      /\ UNCHANGED <<inflight, fetches>>
  BY DEF rosterVars
<1>2. FetchesApart'
  BY <1>1 DEF RosterInv, FetchesApart
<1>3. currentRow' \in DOMAIN rosterRows \cup {0} /\ header' = header
  BY <1>1 DEF RosterInv
<1> QED
  BY <1>1, <1>2, <1>3, RosterStays

\* Rows that tell of the shows tell of each in one.
LEMMA RosterTells == RosterInv => RosterView!RosterTellsStates
<1> SUFFICES ASSUME RosterInv, ~rosterStale,
                    Tells(rosterRows, Unfolded(rosterShows, fact, groupsClosed), rosterShows, fact),
                    header = RosterView!HeaderOf(rosterShows, fact)
             PROVE  RosterView!RosterTellsStates
  BY DEF RosterInv, RosterTold, RosterView!RosterTellsStates
<1>1. ASSUME NEW i \in DOMAIN rosterShows
      PROVE  /\ Cardinality(RosterView!RowsOfIndex(rosterRows, i))
                  = (IF RosterView!GroupOf(rosterShows[i], fact) \in groupsClosed THEN 0 ELSE 1)
             /\ \A r \in RosterView!RowsOfIndex(rosterRows, i) :
                    rosterRows[r].row = RosterView!RowData(rosterShows[i], fact)
  <2> DEFINE of == RosterView!RowsOfIndex(rosterRows, i)
             S == Unfolded(rosterShows, fact, groupsClosed)
  <2>1. of = {r \in DOMAIN rosterRows : ~rosterRows[r].header /\ rosterRows[r].index = i}
    BY DEF RosterView!RowsOfIndex
  <2>2. i \in S <=> RosterView!GroupOf(rosterShows[i], fact) \notin groupsClosed
    BY DEF Unfolded
  <2>3. \A r \in of : i \in S /\ rosterRows[r].row = RosterView!RowData(rosterShows[i], fact)
    BY <2>1 DEF Tells
  <2>4. \A r, q \in of : r = q
    BY <2>1 DEF Tells
  <2>5. i \in S => \E r \in of : TRUE
    BY <2>1 DEF Tells
  <2> HIDE DEF of, S
  <2>6. CASE i \in S
    <3>1. PICK r \in of : of = {r}
      BY <2>4, <2>5, <2>6
    <3>2. Cardinality(of) = 1
      BY <3>1, FS_Singleton
    <3> QED
      BY <2>2, <2>3, <2>6, <3>2 DEF of
  <2>7. CASE i \notin S
    <3>1. of = {}
      BY <2>3, <2>7
    <3>2. Cardinality(of) = 0
      BY <3>1, FS_EmptySet
    <3> QED
      BY <2>2, <2>3, <2>7, <3>2 DEF of
  <2> QED
    BY <2>6, <2>7
<1>2. \A S : RosterView!Cardinality(S) = Cardinality(S)
  BY RosterCounts
<1> QED
  BY <1>1, <1>2 DEF RosterView!RosterTellsStates

LEMMA RosterFetches == RosterInv => RosterView!OneFetchPerPoster
<1> SUFFICES ASSUME FetchesApart PROVE RosterView!OneFetchPerPoster
  BY DEF RosterInv
<1>1. ASSUME NEW k \in inflight PROVE Cardinality({w \in fetches : w.key = k}) = 1
  <2> DEFINE of == {w \in fetches : w.key = k}
  <2>1. PICK w \in of : TRUE
    BY DEF FetchesApart
  <2>2. of = {w}
    BY DEF FetchesApart
  <2> HIDE DEF of
  <2>3. Cardinality(of) = 1
    BY <2>2, FS_Singleton
  <2> QED
    BY <2>3 DEF of
<1> QED
  BY <1>1, RosterCounts DEF RosterView!OneFetchPerPoster, FetchesApart

LEMMA RosterInSuite == SuiteSpec => [](part = "roster" => RosterInv)
<1>1. SuiteInit => (part = "roster" => RosterInv)
  BY RosterStarts DEF SuiteInit
<1>2. (part = "roster" => RosterInv) /\ [SuiteNext]_suiteVars => (part = "roster" => RosterInv)'
  <2> SUFFICES ASSUME part = "roster" => RosterInv, [SuiteNext]_suiteVars, part' = "roster"
               PROVE  RosterInv'
    OBVIOUS
  <2>1. CASE part = "roster" /\ RosterView!RosterNext
    BY <2>1, RosterStep
  <2>2. CASE UNCHANGED suiteVars
    <3>1. part = "roster" /\ UNCHANGED rosterVars
      BY <2>2 DEF suiteVars
    <3> QED
      BY <3>1, RosterUntouched
  <2> QED
    BY <2>1, <2>2 DEF SuiteNext
<1> QED
  BY <1>1, <1>2, PTL DEF SuiteSpec

\* For any shows, sources, scans, rematches and checks, and whatever is folded or
\* merged away: once a refresh has run, every show in an unfolded group has one row,
\* which tells its match and its check, and the header counts what can be queued; and
\* a poster in flight is fetched by one worker (_roster_model.py,
\* _media_workspace_roster.py).
THEOREM RosterAlwaysHolds == SuiteSpec => []RosterHolds
<1>1. (part = "roster" => RosterInv) => RosterHolds
  BY RosterTells, RosterFetches DEF RosterHolds
<1> QED
  BY <1>1, RosterInSuite, PTL
=============================================================================
