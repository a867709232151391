--------------------------- MODULE EpisodeTitles ---------------------------
(***************************************************************************)
(* How one file's text is read against one season's episode titles         *)
(* (engine/_episode_resolution.py): the tiers of match_title_in_titles, the *)
(* segments of a combined title, the six rules of resolve_file, and the     *)
(* pass that takes a scattered claim back.  EpisodeResolution takes what    *)
(* this module computes as data.                                            *)
(*                                                                         *)
(* A title is a sequence of words in normal form.  A file's text is a      *)
(* sequence of atoms and the separators between them: "and" reads as a     *)
(* word, "," as nothing.  Confidence is in percent.                        *)
(***************************************************************************)
EXTENDS Integers, Sequences, FiniteSets

LOCAL Ext == INSTANCE SequencesExt
LOCAL Fin == INSTANCE FiniteSetsExt

CONSTANTS
    Listings,     \* what a season may hold: episode -> title (<<>>: untitled)
    Files,        \* the files: season, hint, relative, numbers, atoms, seps
    Stopwords,    \* words that do not tell titles apart
    PartNumbers,  \* the words that are numbers
    Alike,        \* sets of words within two letters of each other
    Shortened,    \* sets of words one of which begins the other
    Initials      \* acronym -> the words it stands for

VARIABLES titles, file, verdict, stage

titleVars == <<titles, file, verdict, stage>>

Episodes == DOMAIN titles
NoMatch  == [episode |-> 0, strength |-> 0]
Match(e, s) == [episode |-> e, strength |-> s]
The(S) == CHOOSE x \in S : TRUE
Only(S) == Cardinality(S) = 1

Contiguous(S) == S = Fin!Min(S) .. Fin!Max(S)

-----------------------------------------------------------------------------
(* Words.                                                                  *)

SameOr(R, v, w) == v = w \/ \E S \in R : {v, w} \subseteq S
WordsOf(t) == Ext!ToSet(t)

\* A token run of one text inside another.
RunIn(t, u) == \E i \in 0 .. Len(u) - Len(t) : SubSeq(u, i + 1, i + Len(t)) = t

\* The first number of a text, and the text without it and a trailing "part".
NumberAt(t) == {i \in DOMAIN t : t[i] \in PartNumbers /\ \A j \in 1 .. i - 1 : t[j] \notin PartNumbers}
PartOf(t) == IF NumberAt(t) = {} THEN "" ELSE t[The(NumberAt(t))]
BaseOf(t) ==
    IF NumberAt(t) = {} THEN t
    ELSE LET b == Ext!RemoveAt(t, The(NumberAt(t)))
         IN  IF b # <<>> /\ b[Len(b)] = "part" THEN SubSeq(b, 1, Len(b) - 1) ELSE b

\* Within two edits: a word for one like it.
Typo(t, u) ==
    /\ Len(t) = Len(u)
    /\ \A i \in DOMAIN t : SameOr(Alike, t[i], u[i])
    /\ Cardinality({i \in DOMAIN t : t[i] # u[i]}) <= 1

Content(t) == SelectSeq(t, LAMBDA w : w \notin Stopwords)

\* _acronym_folded_equal: an acronym on one side, its words on the other.
Folded(t, u) ==
    \E i \in DOMAIN t :
        /\ t[i] \in DOMAIN Initials
        /\ u = SubSeq(t, 1, i - 1) \o Initials[t[i]] \o SubSeq(t, i + 1, Len(t))

NearExact(t, u) ==
    \/ Typo(t, u)
    \/ Content(t) # <<>> /\ Content(t) = Content(u)
    \/ Folded(t, u) \/ Folded(u, t)

PrefixEqual(t, u) ==
    /\ Len(t) = Len(u)
    /\ \A i \in DOMAIN t : SameOr(Shortened, t[i], u[i])
    /\ \E i \in DOMAIN t : t[i] = u[i]

Reordered(t, u) ==
    LET a == SelectSeq(t, LAMBDA w : w # "part")
        b == SelectSeq(u, LAMBDA w : w # "part")
    IN  /\ Len(a) >= 3 /\ Len(a) = Len(b)
        /\ \A w \in WordsOf(a) \cup WordsOf(b) :
               Cardinality({i \in DOMAIN a : a[i] = w}) = Cardinality({i \in DOMAIN b : b[i] = w})

FuzzyEqual(t, u) == Typo(t, u) \/ PrefixEqual(t, u) \/ Reordered(t, u)

-----------------------------------------------------------------------------
(* One text against the titles.                                            *)

\* The titles by their normal form: of two alike the later is kept.
Lookup == {e \in Episodes : titles[e] # <<>> /\ \A d \in Episodes : d > e => titles[d] # titles[e]}

Substrings(t) == {e \in Lookup : RunIn(t, titles[e]) \/ RunIn(titles[e], t)}

\* match_title_in_titles: each tier counts only when it names one episode.
MatchTitle(t) ==
    LET exact == {e \in Lookup : titles[e] = t}
        near  == {e \in Lookup : NearExact(t, titles[e])}
        sub   == Substrings(t)
        base  == {e \in Lookup : BaseOf(titles[e]) = BaseOf(t)}
        part  == {e \in base : PartOf(titles[e]) = PartOf(t)}
        fuzzy == {e \in Lookup : FuzzyEqual(t, titles[e])}
    IN  IF t = <<>> THEN NoMatch
        ELSE IF exact # {} THEN Match(The(exact), 100)
        ELSE IF Only(near) THEN Match(The(near), 95)
        ELSE IF Only(sub) THEN Match(The(sub), 90)
        ELSE IF Cardinality(sub) > 1 THEN NoMatch
        ELSE IF Only(base) /\ BaseOf(t) # <<>> THEN Match(The(base), 80)
        ELSE IF Only(part) /\ PartOf(t) # "" /\ BaseOf(t) # <<>> THEN Match(The(part), 80)
        ELSE IF Only(fuzzy) THEN Match(The(fuzzy), 86)
        ELSE NoMatch

-----------------------------------------------------------------------------
(* Combined titles.                                                        *)

Atoms   == DOMAIN file.atoms
Numbers == Ext!ToSet(file.numbers)
Valid   == Numbers \cap Episodes
Count   == Len(file.numbers)

\* The text from one atom to another, as written and without separators.
Span(lo, hi) ==
    LET sep(i) == IF i > lo /\ file.seps[i - 1] = "and" THEN <<"and">> ELSE <<>>
    IN  Ext!FlattenSeq([n \in 1 .. hi - lo + 1 |-> sep(lo + n - 1) \o file.atoms[lo + n - 1]])
Joined(lo, hi) == Ext!FlattenSeq(SubSeq(file.atoms, lo, hi))

Text == IF file.atoms = <<>> THEN <<>> ELSE Span(1, Len(file.atoms))

\* The titles that tell their episode: no other has the same.
Unique == {e \in Episodes : titles[e] # <<>> /\ \A d \in Episodes : titles[d] = titles[e] => d = e}

\* _match_piece: the episode a piece names, and whether to the letter.
Piece(t) ==
    LET exact == {e \in Unique : titles[e] = t}
        fuzzy == {e \in Unique : FuzzyEqual(t, titles[e])}
    IN  IF exact # {} THEN Match(The(exact), 100)
        ELSE IF Only(fuzzy) THEN Match(The(fuzzy), 86)
        ELSE NoMatch

\* Every way to part the atoms into k groups, each a pair of first and last.
Groupings(k) ==
    {[g \in 1 .. k |-> <<(IF g = 1 THEN 0 ELSE Ext!SetToSortSeq(c, <)[g - 1]) + 1,
                         IF g = k THEN Len(file.atoms) ELSE Ext!SetToSortSeq(c, <)[g]>>] :
        c \in Fin!kSubset(k - 1, 1 .. Len(file.atoms) - 1)}

\* What a group says, with its separators or, when that names none, without.
Spoken(spelt, joined) == IF Piece(spelt) = NoMatch /\ Piece(joined) # NoMatch THEN joined ELSE spelt
Said(p) == Spoken(Span(p[1], p[2]), Joined(p[1], p[2]))

\* A group that fills a slot by position shares a telling word with its title.
Shares(t, u) == WordsOf(Content(t)) \cap WordsOf(Content(u)) # {}

NoRun == [run |-> {}, exact |-> FALSE, direct |-> 0]

\* The groups of one reading at their slots, sure of some of them: the run they
\* stand for (empty: none), whether each is exact, and how many groups matched.
Laid(said, named, sure, slot) ==
    LET guessed == {g \in DOMAIN said \ sure : said[g] # titles[slot[g]]}
        lays    == \/ sure = DOMAIN said
                   \/ /\ Cardinality(sure) >= 2 /\ Only({named[g].episode - g : g \in sure})
                      /\ \A g \in DOMAIN said : slot[g] \in Episodes
                      /\ Cardinality(guessed) <= 1
                      /\ \A g \in guessed : Shares(said[g], titles[slot[g]])
        run     == {slot[g] : g \in DOMAIN said}
    IN  IF lays /\ Cardinality(run) = Len(said)
        THEN [run    |-> run,
              exact  |-> guessed = {} /\ \A g \in sure : named[g].strength = 100,
              direct |-> Len(said) - Cardinality(guessed)]
        ELSE NoRun

\* A group that names no episode has the slot its place gives it, where the
\* others agree on the first.
Slots(named, sure) ==
    LET starts == {named[g].episode - g : g \in sure}
    IN  [g \in DOMAIN named |-> IF g \in sure THEN named[g].episode
                               ELSE IF Only(starts) THEN The(starts) + g ELSE 0]

Placed(said, named, sure) == Laid(said, named, sure, Slots(named, sure))
Named(said, named)        == Placed(said, named, {g \in DOMAIN named : named[g] # NoMatch})
Heard(said)               == Named(said, [g \in DOMAIN said |-> Piece(said[g])])

\* One grouping read.
Reading(groups) == Heard([g \in DOMAIN groups |-> Said(groups[g])])

Best(R) == [run    |-> The(R).run,
            exact  |-> \E r \in R : r.exact,
            direct |-> Fin!Max({r.direct : r \in R})]

\* Mutant: of several runs the first found counts.
FirstRun(read) ==
    IF read # {} /\ Contiguous(The(read).run)
    THEN Best({x \in read : x.run = The(read).run}) ELSE NoRun
\* match_segmented_title_run: the only run any grouping stands for.
OnlyRun(read) ==
    IF Only({r.run : r \in read}) /\ Contiguous(The(read).run) THEN Best(read) ELSE NoRun
Segmented(k) ==
    IF k < 2 THEN NoRun ELSE OnlyRun({Reading(g) : g \in Groupings(k)} \ {NoRun})

\* A file with one number may still hold two to four segments: the size with
\* the most direct matches, when the sizes do not tie.
MostDirect(found) ==
    LET best == {r \in found : \A q \in found : q.direct <= r.direct}
    IN  IF Only({r.run : r \in found}) THEN Best(found)
        ELSE IF Only({r.run : r \in best}) THEN Best(best) ELSE NoRun
SegmentedAny == MostDirect({Segmented(k) : k \in 2 .. 4} \ {NoRun})

\* A piece of the title rather than a name for it.
Fragment(t, u) == t # u /\ RunIn(t, u)

\* _extend_partial_title_run: one atom names the episode, the others stand for
\* its neighbours by their place.
ExtendedFrom(e, naming, start) ==
    LET n == Len(file.atoms) IN
    IF /\ n >= 2 /\ n >= Count /\ Only(naming) /\ start > 0
       /\ \A i \in Atoms \ naming : Len(file.atoms[i]) >= 2
       /\ start .. start + n - 1 \subseteq Episodes
    THEN start .. start + n - 1 ELSE {}
ExtendedBy(e, naming) == ExtendedFrom(e, naming, IF Only(naming) THEN e + 1 - The(naming) ELSE 0)
Extended(e) ==
    ExtendedBy(e, {i \in Atoms : /\ MatchTitle(file.atoms[i]).episode = e
                                 /\ ~Fragment(file.atoms[i], titles[e])})

-----------------------------------------------------------------------------
(* resolve_file.                                                           *)

Claim(E, c, tags) == [episodes |-> E, confidence |-> c, evidence |-> tags]
Unclaimed(why)    == Claim({}, 0, {why})

\* _resolve_combined_title.
Combined(whole) ==
    CASE Count >= 2 -> Segmented(Count)
      [] Count = 1 /\ whole.strength < 95 -> SegmentedAny
      [] OTHER -> NoRun

\* The numbers agree with a run when they are it, a single one when it is of it.
SegmentClaim(seg) ==
    LET agrees == Valid # {} /\ (IF Count >= 2 THEN seg.run = Valid ELSE Valid \subseteq seg.run)
    IN  IF ~seg.exact THEN Claim(seg.run, 70, {"title-segmented", "title-fuzzy"})
        ELSE IF agrees THEN Claim(seg.run, 96, {"title-agree", "title-segmented"})
        ELSE Claim(seg.run, 90, {"title-strong", "title-segmented"})

\* _resolve_number_and_title.
NumberAndTitle(whole, run) ==
    LET e       == whole.episode
        strong  == whole.strength >= 85
        several == Len(file.atoms) > Cardinality(Valid) /\ RunIn(titles[e], Text)
    IN  CASE e \in Valid ->
                 IF whole.strength < 95 /\ several /\ run # {} /\ Valid \subseteq run
                 THEN Claim(run, 70, {"title-strong-inexact", "run-extended"})
                 ELSE Claim(Valid, 96, {"title-agree"})
          [] e \notin Valid /\ strong ->
                 IF /\ Cardinality(run) > 1
                    /\ Count >= 2 \/ (whole.strength < 95 /\ Len(file.atoms) >= 2)
                 THEN Claim(run, 70, {"title-strong-inexact", "run-extended"})
                 ELSE IF whole.strength >= 95 THEN Claim({e}, 90, {"title-strong"})
                 ELSE Claim({e}, 70, {"title-strong-inexact"})
          [] e \notin Valid /\ ~strong /\ file.season = 0 -> Claim({e}, 70, {"title-part-number"})
          [] OTHER -> Claim(Valid, 60, {"title-weak-disagree"})

\* _has_ambiguous_title_evidence.
Ambiguous == Text # <<>> /\ Cardinality(Substrings(Text)) > 1

\* _resolve_number_only, reached with a title only when several match.
NumberOnly ==
    LET segments == Len(file.atoms) >= 2
        multi    == IF segments THEN {"title-multi-segment"} ELSE {}
    IN  CASE Ambiguous -> Claim(Valid, 60, {"title-ambiguous"} \cup multi)
          [] /\ ~Ambiguous
             /\ segments /\ Cardinality(Valid) >= 2 /\ \E e \in Episodes : titles[e] # <<>> ->
                 Claim(Valid, 60, {"title-no-match"} \cup multi)
          [] OTHER ->
                 IF file.season = 0
                 THEN IF file.relative /\ file.hint = 0 /\ Text = <<>>
                      THEN Claim(Valid, 86, {"special-explicit"})
                      ELSE Claim(Valid, 50, {"special-number-only"})
                 ELSE Claim(Valid, IF file.relative THEN 86 ELSE 50, {"number"})

\* _resolve_title_only.
TitleOnly(whole) ==
    IF whole.strength >= 90 THEN Claim({whole.episode}, 88, {"title-strong"})
    ELSE Claim({whole.episode}, 70, {"title-strong-inexact", "title-fuzzy"})

Resolved(whole, seg) ==
    CASE seg # NoRun -> SegmentClaim(seg)
      [] seg = NoRun /\ Valid # {} /\ whole # NoMatch ->
             NumberAndTitle(whole, Extended(whole.episode))
      [] seg = NoRun /\ Valid # {} /\ whole = NoMatch -> NumberOnly
      [] seg = NoRun /\ Valid = {} /\ whole.strength >= 85 -> TitleOnly(whole)
      [] OTHER -> IF Count > 0 THEN Unclaimed("not in season")
                  ELSE IF Text # <<>> THEN Unclaimed("no title match") ELSE Unclaimed("no parse")
ResolvedAs(whole) == Resolved(whole, Combined(whole))
ResolveFile       == ResolvedAs(MatchTitle(Text))

-----------------------------------------------------------------------------
(* The scan of one file.                                                   *)

TitlesInit ==
    /\ titles \in Listings /\ file \in Files
    /\ verdict = Unclaimed("unread") /\ stage = "read"

Resolve ==
    /\ stage = "read"
    /\ verdict' = ResolveFile /\ stage' = "rescue"
    /\ UNCHANGED <<titles, file>>

\* _scattered_same_season_episodes: the episodes that one to three neighbouring
\* atoms name to the letter.
Scattered ==
    {e \in Unique : \E lo \in Atoms : \E hi \in lo .. lo + 2 :
        hi \in Atoms /\ titles[e] \in {Span(lo, hi), Joined(lo, hi)}}

\* unassign_same_season_scattered_titles: a weak claim whose segments lie apart
\* in the season is taken back.
Unassign ==
    /\ stage = "rescue" /\ stage' = "done"
    /\ LET weak == verdict.evidence \cap {"title-ambiguous", "title-no-match",
                                          "not in season", "no title match"} # {}
       IN  verdict' = IF /\ weak /\ file.season # 0 /\ Len(file.atoms) >= 2
                         /\ Cardinality(Scattered) >= 2 /\ ~Contiguous(Scattered)
                      THEN Unclaimed("scattered") ELSE verdict
    /\ UNCHANGED <<titles, file>>

TitlesNext == Resolve \/ Unassign
TitlesSpec == TitlesInit /\ [][TitlesNext]_titleVars

-----------------------------------------------------------------------------
(* Properties.                                                             *)

\* The text is the titles of E, in order and joined by separators.
Names(E) ==
    /\ Text # <<>> /\ E # {} /\ E \subseteq Unique
    /\ \E g \in Groupings(Cardinality(E)) :
           \A i \in DOMAIN g : Span(g[i][1], g[i][2]) = titles[Fin!Min(E) + i - 1]
TrulyNamed == {E \in {lo .. hi : lo \in Episodes, hi \in Episodes} : Names(E)}

\* A claim confident enough to be accepted unasked is never of other episodes
\* than those the file's text spells out, when it spells out one run and as
\* many numbers: separators that are also part of titles do not mislead it.
ConfidentIsNamed ==
    \A E \in TrulyNamed :
        (verdict.confidence >= 85 /\ Cardinality(E) = Count /\ Only(TrulyNamed))
            => verdict.episodes = E

\* No segment of a combined title stands for an episode it has no word of, be
\* it shortened or misspelt (RC42: such a segment names some other episode).
SegmentsTellTheirEpisode ==
    "title-segmented" \in verdict.evidence =>
        \A e \in verdict.episodes :
            \E v \in WordsOf(titles[e]), w \in WordsOf(Text) : v \notin Stopwords /\ SameOr(Alike, v, w)

\* match_title_in_titles: "Ambiguous (2+ candidates) returns None."  Two
\* episodes of one title are two candidates.
\* It does not hold; the README tells how.
AmbiguousTellsNothing ==
    (stage = "rescue" /\ "title-strong" \in verdict.evidence /\ Only(verdict.episodes))
        => verdict.episodes \subseteq Unique
=============================================================================
