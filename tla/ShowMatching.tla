---------------------------- MODULE ShowMatching ----------------------------
(***************************************************************************)
(* How a show folder is matched to one of the provider's search results    *)
(* (engine/matching.py, engine/_batch_tv_match_policy.py,                  *)
(* engine/_tv_score_fallback.py, and the selection in                      *)
(* engine/_batch_orchestrators.py), and whether the match is taken without *)
(* the user's review.                                                      *)
(*                                                                         *)
(* Scores are whole thousandths.  A result is data: how similar its name   *)
(* and its alternative titles are to the folder's name (1000 is the same   *)
(* name), how far its year is from the folder's, how well its episodes fit *)
(* the file names, and how many episodes and seasons it has.  How two      *)
(* titles are compared letter by letter is left out.                       *)
(***************************************************************************)
EXTENDS Integers, Sequences, FiniteSets

CONSTANTS
    Folders,        \* folders with their search results: see MCShowMatching
    Unknown,        \* no year, no count, no evidence
    Threshold,      \* the auto-accept threshold
    TieMargin,      \* SCORE_TIE_MARGIN
    AltCandidates   \* _ALT_TITLE_CANDIDATES

VARIABLES
    folder,         \* the folder: its results and what its files tell
    match,          \* the matched result, with its confidence
    alternates,     \* the other results offered, best first
    origin          \* how the match came about

matchVars == <<folder, match, alternates, origin>>

Exact == 1000

-----------------------------------------------------------------------------
(* Scores. *)

Lesser(a, b) == IF a < b THEN a ELSE b

Highest(S) == CHOOSE s \in S : \A t \in S : t <= s

\* Better scores first, equal ones in the order they had.
Sorted(scored) ==
    LET D            == DOMAIN scored
        before(i, j) == \/ scored[i].score > scored[j].score
                        \/ scored[i].score = scored[j].score /\ i < j
        order        == CHOOSE p \in [D -> D] : \A m, n \in D : m < n => before(p[m], p[n])
    IN  [n \in D |-> scored[order[n]]]

YearScore(diff) ==
    CASE diff = 0 -> 1000 [] diff = 1 -> 800 [] diff = 2 -> 500 [] diff = 3 -> 200 [] OTHER -> 0

Bonus(t) == IF t = Exact THEN 150 ELSE 0

\* score_results, for one result: without a year in the folder's name the title
\* is the whole score.
TitleScore(f, t, year) ==
    (IF f.hint THEN (t * 7 + (IF year = Unknown THEN 0 ELSE YearScore(year)) * 3) \div 10 ELSE t)
    + Bonus(t)

\* The better of the scores by the derived title and by the folder's own name.
ByTitle(f, results) ==
    Sorted([i \in DOMAIN results |->
        LET r == results[i]
        IN  [r |-> r, score |-> Highest({TitleScore(f, r.title, r.year),
                                         TitleScore(f, r.folderTitle, r.year)})]])

\* An alternative title scores by its own scale: only the same year and the next
\* count.
AltScore(f, t, year) ==
    LET y == IF ~f.hint \/ year = Unknown THEN 0
             ELSE CASE year = 0 -> 1000 [] year = 1 -> 300 [] OTHER -> 0
    IN  (t * 7 + y * 3) \div 10 + Bonus(t)

\* boost_scores_with_alt_titles: the top candidates, unless the best is good
\* enough and no file name tells episodes.
WithAltTitles(f, scored) ==
    IF Head(scored).score >= Threshold /\ ~f.evidence THEN scored
    ELSE Sorted([i \in DOMAIN scored |->
             LET s == scored[i]
             IN  IF i > AltCandidates THEN s
                 ELSE [s EXCEPT !.score =
                         Highest({@} \cup {AltScore(f, t, s.r.year) : t \in s.r.alts})]])

\* tv_episode_evidence_adjustment, of the seasons, the episodes and the titles
\* (percent) the file names share with the result; the penalty takes two titles.
Adjustment(fit) ==
    (((fit.seasons - 50) * 24) \div 10) + fit.episodes
    + (IF fit.titles = Unknown THEN 0 ELSE (fit.titles * 24) \div 10)
    - (IF fit.titles # Unknown /\ fit.titles < 35 THEN 120 ELSE 0)

\* boost_tv_scores_or_keep: without every season map the scores stay.
WithEvidence(f, scored) ==
    IF ~f.evidence \/ \E i \in DOMAIN scored : i <= AltCandidates /\ ~scored[i].r.mapped
    THEN scored
    ELSE Sorted([i \in DOMAIN scored |->
             IF i > AltCandidates \/ scored[i].r.fit = Unknown THEN scored[i]
             ELSE [scored[i] EXCEPT !.score = @ + Adjustment(scored[i].r.fit)]])

Scored(f, results) == WithEvidence(f, WithAltTitles(f, ByTitle(f, results)))

-----------------------------------------------------------------------------
(* Near ties. *)

AbsDiff(a, b) == IF a > b THEN a - b ELSE b - a

\* The count a folder's files or season folders are compared with: of the
\* seasons its file names tell, when the result lists one.
CountOf(f, r) ==
    IF f.bySeasons THEN r.seasons
    ELSE IF f.evidence /\ r.seasonEpisodes # Unknown THEN r.seasonEpisodes
    ELSE r.episodes

Contenders(scored) == {i \in DOMAIN scored : scored[1].score - scored[i].score <= 100}

\* Aired first, then the nearer count, then the higher score.
Nearer(f, scored, i, j) ==
    LET a == scored[i]  b == scored[j]
        da == AbsDiff(CountOf(f, a.r), f.count)
        db == AbsDiff(CountOf(f, b.r), f.count)
    IN  IF a.r.unaired # b.r.unaired THEN ~a.r.unaired
        ELSE IF da # db THEN da < db
        ELSE IF a.score # b.score THEN a.score > b.score
        ELSE i <= j

\* Mutant: being first among equals counts as being told apart.
DiscriminatedOrEqual(f, scored, best) ==
    /\ Cardinality(Contenders(scored)) >= 2
    /\ \A i \in Contenders(scored) \ {best} :
          AbsDiff(CountOf(f, scored[i].r), f.count) >= AbsDiff(CountOf(f, scored[best].r), f.count)

\* The count tells the winner from every other contender.
Discriminated(f, scored, best) ==
    /\ Cardinality(Contenders(scored)) >= 2
    /\ \A i \in Contenders(scored) \ {best} :
          AbsDiff(CountOf(f, scored[i].r), f.count) > AbsDiff(CountOf(f, scored[best].r), f.count)

\* episode_count_tiebreak: the place of the winner, and whether the counts
\* settle it.  One missing answer of the provider, and they decide nothing.
Tiebreak(f, scored) ==
    LET near == Contenders(scored)
        best == CHOOSE i \in near : \A j \in near : Nearer(f, scored, i, j)
    IN  IF \/ f.count = 0 \/ Len(scored) < 2
           \/ scored[1].score - scored[2].score > 100
           \/ \E i \in near : ~scored[i].r.details
        THEN [best |-> 1, settled |-> FALSE]
        ELSE [best |-> best, settled |-> Discriminated(f, scored, best)]

\* The winner bears the folder's name, the other does not, and no year speaks
\* for the other.
PrimaryNameBreaksTie(f, b, r) ==
    /\ b.named /\ ~r.named
    /\ (f.hint /\ b.year # Unknown /\ r.year # Unknown) => b.year <= r.year

\* The winner's year is the folder's and the other's is another.
YearHintBreaksTie(f, b, r) ==
    f.hint /\ b.year # Unknown /\ r.year # Unknown /\ b.year = 0 /\ r.year # 0

\* An episode count that fits lifts the score.
CountBonus(f, r) ==
    LET files == IF f.bySeasons THEN f.direct ELSE f.count
        off   == AbsDiff(files, r.episodes)
    IN  IF files = 0 \/ ~r.details \/ r.episodes = 0 THEN 0
        ELSE IF off = 0 THEN 100
        ELSE IF off <= 2 THEN 50
        ELSE 0

\* The next best result is as good, and nothing tells the two apart.
TieDetected(f, scored, best, settled, confidence) ==
    /\ Len(scored) >= 2 /\ ~settled
    /\ LET other == IF best = 1 THEN 2 ELSE 1
       IN  /\ scored[best].score - scored[other].score <= TieMargin
           /\ confidence >= Threshold
           /\ ~PrimaryNameBreaksTie(f, scored[best].r, scored[other].r)
           /\ ~YearHintBreaksTie(f, scored[best].r, scored[other].r)

\* _select_best_show_match
Selected(f, results) ==
    LET scored     == Scored(f, results)
        tiebreak   == Tiebreak(f, scored)
        best       == scored[tiebreak.best]
        bonus      == CountBonus(f, best.r)
        confidence == Lesser(1000, best.score + bonus)
    IN  [r |-> best.r, confidence |-> confidence,
         tie |-> TieDetected(f, scored, tiebreak.best, tiebreak.settled, confidence),
         alternates |-> SelectSeq([i \in DOMAIN scored |-> scored[i].r.id],
                                      LAMBDA id : id # best.r.id)]

-----------------------------------------------------------------------------
(* Cards. *)

NoMatch == [id |-> Unknown, confidence |-> 0, tie |-> FALSE]

First3(s) == SubSeq(s, 1, Lesser(3, Len(s)))

MatchInit ==
    /\ folder \in Folders
    /\ match = NoMatch
    /\ alternates = <<>>
    /\ origin = "none"

\* A bracketed provider id in the folder's name is looked up; search and
\* scores are skipped.
TryIdTag ==
    /\ origin = "none" /\ folder.tag # Unknown
    /\ match' = [id |-> folder.tag, confidence |-> 1000, tie |-> FALSE]
    /\ origin' = "id_tag"
    /\ UNCHANGED <<folder, alternates>>

\* The discovered card, matched to the best result or to none.
BuildDiscovered ==
    /\ origin = "none" /\ folder.tag = Unknown
    /\ origin' = "auto"
    /\ IF folder.results = <<>> THEN UNCHANGED <<match, alternates>>
       ELSE LET s == Selected(folder, folder.results)
            IN  /\ match' = [id |-> s.r.id, confidence |-> s.confidence, tie |-> s.tie]
                /\ alternates' = First3(s.alternates)
    /\ UNCHANGED folder

\* rematch_tv_scan_state: the user's choice among the results, scored alone.
Rematch(i) ==
    /\ origin # "none"
    /\ LET r == folder.results[i]
           ids == [k \in DOMAIN folder.results |-> Scored(folder, folder.results)[k].r.id]
       IN  /\ match' = [match EXCEPT !.id = r.id,
                                     !.confidence = Scored(folder, <<r>>)[1].score]
           /\ alternates' = First3(SelectSeq(ids, LAMBDA id : id # r.id))
    /\ origin' = "manual"
    /\ UNCHANGED folder

MatchNext == TryIdTag \/ BuildDiscovered \/ \E i \in DOMAIN folder.results : Rematch(i)

MatchSpec == MatchInit /\ [][MatchNext]_matchVars

-----------------------------------------------------------------------------
(* What the properties say. *)

NeedsReview ==
    /\ ~(match.id # Unknown /\ origin = "manual")
    /\ match.tie \/ match.confidence < Threshold

Orders(results) ==
    {[i \in DOMAIN results |-> results[p[i]]] :
        p \in {q \in [DOMAIN results -> DOMAIN results] : \A i, j \in DOMAIN q : q[i] = q[j] => i = j}}

Accepted(s) == ~s.tie /\ s.confidence >= Threshold

Taken == origin = "auto" /\ match.id # Unknown /\ ~NeedsReview

\* Listed in any order, the same show is taken or the match is left to the user.
TakenInAnyOrder ==
    \A results \in Orders(folder.results) :
        LET s == Selected(folder, results) IN Accepted(s) => s.r.id = match.id

\* At most two results are within reach of the best, and none is so far down the
\* list that its other titles and its episodes are not looked at.
TwoNear(f) ==
    /\ Len(f.results) <= AltCandidates
    /\ Len(f.results) >= 3 =>
          LET scored == Scored(f, f.results) IN scored[1].score - scored[3].score > 100

\* Where two results are near at most, a match taken without review does not hang
\* on the order in which the provider listed them.
OrderDoesNotDecide == Taken /\ TwoNear(folder) => TakenInAnyOrder

\* constants.py:23 says of the margin "runner-up within this delta -> flag for
\* review", however many results are near.
\* It does not hold; the README tells how.
OrderNeverDecides == Taken => TakenInAnyOrder
=============================================================================
