----------------------------- MODULE MovieScan -----------------------------
(***************************************************************************)
(* Scanning a folder of movies (engine/_movie_scanner.py), the cards made  *)
(* of it (app/controllers/_movie_batch_helpers.py, _movie_state_helpers.py)*)
(* and what becomes of a card: approved, matched to another movie, queued. *)
(*                                                                         *)
(* A file is data: whether it lies under a show's folder or is named like  *)
(* an episode or a sample, its number in a series of names, the provider's *)
(* results for its name with the score and the evidence of the best, the   *)
(* subtitles beside it and the movie whose name and place it already has.  *)
(***************************************************************************)
EXTENDS Integers, Sequences, FiniteSets

CONSTANTS
    Folders,        \* the folders scanned: see MCMovieScan
    NoMovie,
    NoFile,
    Threshold,      \* the auto-accept threshold, in thousandths
    MaxRematches    \* bound: matches changed by the user

VARIABLES
    files,          \* the folder's files, by name
    phase,          \* how far the scan is
    left,           \* the files not yet dealt with
    items,          \* what the scan made of each file
    cards,          \* the roster's cards, by file
    jobs,           \* the jobs submitted and not ended
    rematches

movieVars == <<files, phase, left, items, cards, jobs, rematches>>

NoOne == [status |-> "none", movie |-> NoMovie, confidence |-> 0, subs |-> {}]

-----------------------------------------------------------------------------
(* Scanning. *)

MovieInit ==
    /\ files \in Folders
    /\ phase = "roots"
    /\ left = DOMAIN files
    /\ items = [f \in DOMAIN files |-> NoOne]
    /\ cards = [f \in {} |-> NoOne]
    /\ jobs = {} /\ rematches = 0

SkippedIn(skipped, it) ==
    [f \in DOMAIN it |-> IF f \in skipped THEN [NoOne EXCEPT !.status = "skip"] ELSE it[f]]

Skip(skipped, next) ==
    /\ items' = SkippedIn(skipped, items)
    /\ left' = left \ skipped
    /\ phase' = next
    /\ UNCHANGED <<files, cards, jobs, rematches>>

\* _filter_tv_show_root_files: what lies under a show's folder is none of a movie
\* scan's business, unless that folder is the library itself.
SkipShows ==
    /\ phase = "roots"
    /\ Skip({f \in left : files[f].underShow}, "names")

\* Samples and files named like an episode.
SkipNames ==
    /\ phase = "names"
    /\ Skip({f \in left : files[f].sample \/ files[f].episodeName}, "batches")

Numbered(fs) == {f \in fs : files[f].number > 0 /\ files[f].number \notin 1900..2100}

\* _filter_sequential_batches: three files or more of one folder whose names
\* differ by close numbers only.
Sequential(fs) ==
    UNION {g \in {{f \in Numbered(fs) : files[f].series = files[e].series} : e \in Numbered(fs)} :
             /\ Cardinality(g) >= 3
             /\ \A e, f \in g : files[e].number - files[f].number < Cardinality(g) * 3}

SkipBatches ==
    /\ phase = "batches"
    /\ Skip(IF Cardinality(left) >= 3 THEN Sequential(left) ELSE {}, "match")

AtLeast(c, floor) == IF c < floor THEN floor ELSE c
AtMost(c, cap)    == IF c > cap THEN cap ELSE c

\* What corroborates a match, and what contradicts it.  e.year is how far the years
\* are apart, -1 where the name tells none.
Floor(e) == IF e.title THEN 950 ELSE IF e.folder THEN 880 ELSE IF e.year = 0 THEN 850 ELSE 0
Cap(e)   == IF e.year >= 3 THEN 450 ELSE IF e.otherSequel /\ e.year # 0 THEN 500 ELSE 1000

\* Mutant: a corroborating sign outweighs a contradicting one.
AdjustedCapsFirst(raw, e) == AtLeast(AtMost(raw, Cap(e)), Floor(e))

\* apply_movie_confidence_adjustments: the floors, and then the caps.
Adjusted(raw, e) == AtMost(AtLeast(raw, Floor(e)), Cap(e))

\* build_movie_preview_item with the subtitles beside the file.
Item(f, movie, confidence, status) ==
    [status |-> status, movie |-> movie, confidence |-> confidence, subs |-> files[f].subs]

NoResult == [NoOne EXCEPT !.status = "review"]

\* One file of a search for several: the best result, to be reviewed below the
\* threshold.
Matched(f) ==
    LET best == files[f].best
    IN  IF best = NoMovie THEN NoResult
        ELSE LET c == Adjusted(files[f].score, files[f].evidence)
             IN  Item(f, best, c, IF c < Threshold THEN "review" ELSE "OK")

\* _scan_single: the application asks nobody, and the provider's first result is
\* taken with full confidence.
MatchedAlone(f) ==
    IF files[f].first = NoMovie THEN NoResult ELSE Item(f, files[f].first, 1000, "OK")

Match ==
    /\ phase = "match"
    /\ items' = [f \in DOMAIN items |->
                   IF f \notin left THEN items[f]
                   ELSE IF Cardinality(left) = 1 THEN MatchedAlone(f) ELSE Matched(f)]
    /\ left' = {}
    /\ phase' = "complete"
    /\ UNCHANGED <<files, cards, jobs, rematches>>

\* is_actionable: there is something to rename.
Actionable(c) == c.movie # NoMovie /\ c.status # "skip" /\ c.movie # c.named

\* _movie_duplicate_priority
StandsBefore(cs, f, g) ==
    LET a == cs[f]  b == cs[g]
        ready(c) == IF Actionable(c) THEN 1 ELSE 0
    IN  IF ready(a) # ready(b) THEN ready(a) < ready(b)
        ELSE IF a.confidence # b.confidence THEN a.confidence > b.confidence
        ELSE IF files[f].depth # files[g].depth THEN files[f].depth < files[g].depth
        ELSE f <= g

\* apply_movie_duplicate_labels: of the cards of one movie the first in order
\* stands, the others are its duplicates and unchecked.
Labelled(cs) ==
    [f \in DOMAIN cs |->
        LET same  == {g \in DOMAIN cs : cs[g].movie = cs[f].movie}
            first == CHOOSE g \in same : \A h \in same : StandsBefore(cs, g, h)
        IN  IF cs[f].movie = NoMovie \/ first = f THEN [cs[f] EXCEPT !.dup = NoFile]
            ELSE [cs[f] EXCEPT !.dup = first, !.checked = FALSE]]

Card(f, item) ==
    [movie |-> item.movie, confidence |-> IF item.movie = NoMovie THEN 0 ELSE item.confidence,
     status |-> item.status, subs |-> item.subs, named |-> files[f].named,
     manual |-> FALSE, checked |-> FALSE, queued |-> FALSE, dup |-> NoFile]

\* sync_queued_states: a card is queued while a job of its movie is, a duplicate
\* never.
Synced(cs, js) ==
    [f \in DOMAIN cs |->
        [cs[f] EXCEPT !.queued = cs[f].dup = NoFile /\ \E j \in js : j.movie = cs[f].movie]]

\* _complete_movie_batch_scan: the files not skipped become cards.
Complete ==
    /\ phase = "complete"
    /\ phase' = "ready"
    /\ cards' = Synced(Labelled([f \in {g \in DOMAIN items : items[g].status # "skip"} |->
                                    Card(f, items[f])]), jobs)
    /\ UNCHANGED <<files, left, items, jobs, rematches>>

\* The user cancels at one of the scan's checks.
CancelMovieScan ==
    /\ phase \in {"roots", "names", "batches", "match"}
    /\ phase' = "cancelled"
    /\ items' = [f \in DOMAIN items |-> NoOne]
    /\ UNCHANGED <<files, left, cards, jobs, rematches>>

\* The search fails: what the folder showed before stays.
FailMovieScan ==
    /\ phase = "match" /\ left # {}
    /\ phase' = "failed"
    /\ UNCHANGED <<files, left, items, cards, jobs, rematches>>

-----------------------------------------------------------------------------
(* Cards. *)

NeedsReview(c) == ~(c.movie # NoMovie /\ c.manual) /\ c.confidence < Threshold

\* approve_scan_match
Approve(f) ==
    LET c == cards[f]
    IN  /\ c.movie # NoMovie /\ ~c.queued /\ c.dup = NoFile /\ NeedsReview(c)
        /\ cards' = [cards EXCEPT ![f] =
                        [c EXCEPT !.confidence = IF c.status = "review" THEN 1000 ELSE c.confidence,
                                  !.status = IF c.status = "review" THEN "OK" ELSE c.status,
                                  !.checked = TRUE, !.manual = TRUE]]
        /\ items' = [items EXCEPT ![f].status = IF @ = "review" THEN "OK" ELSE @]
        /\ UNCHANGED <<files, phase, left, jobs, rematches>>

\* Fix Match (rematch_movie_scan_state): a new row for the movie chosen; the
\* subtitles are not looked for again and the labels are not drawn again.
Rematch(f, movie) ==
    /\ ~cards[f].queued /\ rematches < MaxRematches
    /\ rematches' = rematches + 1
    /\ LET item == [Item(f, movie, 1000, "OK") EXCEPT !.subs = {}]
       IN  /\ items' = [items EXCEPT ![f] = item]
           /\ cards' = [cards EXCEPT ![f] =
                           [Card(f, item) EXCEPT !.named = cards[f].named, !.dup = cards[f].dup,
                                                 !.manual = TRUE]]
    /\ UNCHANGED <<files, phase, left, jobs>>

\* is_state_queue_approvable
Approvable(f) ==
    LET c == cards[f]
    IN  /\ ~c.queued /\ c.dup = NoFile /\ c.movie # NoMovie
        /\ ~NeedsReview(c) /\ c.status = "OK" /\ Actionable(c)

Check(f) ==
    /\ Approvable(f)
    /\ cards' = [cards EXCEPT ![f].checked = ~@]
    /\ UNCHANGED <<files, phase, left, items, jobs, rematches>>

\* What the gate lets into the queue.
Eligible(f) ==
    LET c == cards[f]
    IN  c.checked /\ ~c.queued /\ ~NeedsReview(c) /\ c.status # "review" /\ Actionable(c)

\* add_movie_batch_jobs: one card after the other; the store refuses a movie that
\* is queued.
Submitted(js, fs) ==
    LET Queued(f)  == \E j \in js : j.movie = cards[f].movie
        Earlier(f) == \E g \in fs : g < f /\ cards[g].movie = cards[f].movie
    IN  js \cup {[movie |-> cards[f].movie, file |-> f, subs |-> cards[f].subs] :
                    f \in {g \in fs : ~Queued(g) /\ ~Earlier(g)}}

\* Queueing the checked cards, and the look at the queue that follows.
QueueMovies ==
    LET eligible == {f \in DOMAIN cards : Eligible(f)}
    IN  /\ eligible # {}
        /\ jobs' = Submitted(jobs, eligible)
        /\ cards' = Synced(cards, jobs')
        /\ UNCHANGED <<files, phase, left, items, rematches>>

\* _find_state_for_job: a card that stands for the job's movie, of several one in
\* the job's folder if there is one.
CardsOfJob(j) == {f \in DOMAIN cards : cards[f].movie = j.movie /\ cards[f].dup = NoFile}

\* apply_completed_job_projection: the card's file is where the job has put it, and
\* every row of the movie becomes the card's.
RenamedCard(f) == [cards[f] EXCEPT !.status = "OK", !.named = cards[f].movie, !.checked = FALSE]
RowOf(c) == [status |-> c.status, movie |-> c.movie, confidence |-> c.confidence, subs |-> c.subs]

\* A job ends, done or not, and the cards follow.
EndJob(j) ==
    /\ jobs' = jobs \ {j}
    /\ \/ /\ cards' = Synced(cards, jobs')
          /\ UNCHANGED items
       \/ \E f \in CardsOfJob(j) :
             /\ cards' = Synced([cards EXCEPT ![f] = RenamedCard(f)], jobs')
             /\ items' = [g \in DOMAIN items |->
                             IF items[g].movie = j.movie THEN RowOf(RenamedCard(f)) ELSE items[g]]
    /\ UNCHANGED <<files, phase, left, rematches>>

MovieNext ==
    \/ SkipShows \/ SkipNames \/ SkipBatches \/ Match \/ Complete
    \/ CancelMovieScan \/ FailMovieScan
    \/ \E f \in DOMAIN cards :
          \/ Approve(f) \/ Check(f)
          \/ \E movie \in files[f].choices : Rematch(f, movie)
    \/ QueueMovies
    \/ \E j \in jobs : EndJob(j)

MovieSpec == MovieInit /\ [][MovieNext]_movieVars

-----------------------------------------------------------------------------
(* What the properties say. *)

\* A match whose year or sequel number speaks against it is not queued before the
\* user has looked at it, however well the title fits: in a scan of several movies,
\* and where the sequel number is all that speaks, above a threshold of 500.
Contradicted(e) == e.year >= 3 \/ (e.otherSequel /\ e.year # 0 /\ Threshold > 500)

SearchedAlone == Cardinality(DOMAIN cards) = 1

ContradictedIsReviewed ==
    ~SearchedAlone =>
       \A f \in DOMAIN cards :
          (cards[f].movie = files[f].best /\ Contradicted(files[f].evidence) /\ ~cards[f].manual)
             => /\ ~Approvable(f)
                /\ \A j \in jobs : j.file # f

\* No file of the folder is lost on the way: once the scan is done, every file was
\* skipped as an episode, a sample or part of a show, or has a card, and two movies
\* numbered alike are no series of episodes.
FilesAccounted ==
    (phase = "ready") =>
       \A f \in DOMAIN files :
          /\ items[f].status # "none"
          /\ f \notin DOMAIN cards =>
                \/ files[f].underShow \/ files[f].sample \/ files[f].episodeName
                \/ Cardinality({g \in DOMAIN files : files[g].series = files[f].series}) >= 3

\* "A non-video file renamed alongside its parent media file": every subtitle that
\* lay beside a movie when the folder was scanned is in the movie's job.
\* It does not hold; the README tells how.
SubtitlesFollow == \A j \in jobs : files[j.file].subs = j.subs

\* "Manual single-file selection: user picked from the dialog": full confidence in
\* a match that the name does not bear out is the user's.
\* It does not hold; the README tells how.
FullConfidenceIsPicked ==
    \A f \in DOMAIN cards :
       (cards[f].confidence = 1000 /\ ~cards[f].manual) => files[f].score >= 1000

\* The tooltip of a duplicate, "Same match as" the card it stands behind.
\* It does not hold; the README tells how.
DuplicateIsOfSameMovie ==
    \A f \in DOMAIN cards : cards[f].dup # NoFile => cards[cards[f].dup].movie = cards[f].movie

=============================================================================
