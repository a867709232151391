----------------------------- MODULE BatchShows -----------------------------
(* A TV library as the batch orchestrator keeps it: folders are matched to    *)
(* shows, cards of one show are merged (seasons, umbrellas, scanned            *)
(* siblings) or labelled duplicates, each card is scanned, and the user        *)
(* rematches, assigns seasons, switches the provider and approves.             *)
(*                                                                             *)
(* A card is named by the folder of its ScanState.  A path is <<f, 0>>, the    *)
(* folder f itself, or <<f, s>>, its subfolder of season s.  Scores are        *)
(* 0 (no match), 1 (below the acceptance threshold) and 2 (accepted).          *)
EXTENDS Naturals, FiniteSets, SequencesExt

CONSTANTS
    NumFolders,     \* folders the discovery found, in the order of their paths
    Shows,          \* shows of a provider, numbered; 0 is no show
    Seasons,        \* numbered from 1; 0 is no season
    Libraries,      \* what the folders may hold: functions on 1 .. NumFolders
    Answers,        \* what the providers may answer: functions on 1 .. NumFolders
    MaxEdits        \* actions of the user (bound)

Folders == 1 .. NumFolders
Providers == {"tmdb", "tvdb"}

VARIABLES
    lib,        \* folder -> the season its name or files tell, its season
                \* subfolders, its episodes, the seasons a scan finds in it
    answer,     \* folder -> provider -> its best answer and score; and how the
                \* folder is looked up: searched, by id tag, pinned
    list,       \* the orchestrator's states, in order
    card,       \* folder -> its ScanState
    stage,      \* what the orchestrator is doing
    todo,       \* cards the bulk scan has still to visit
    edits,      \* actions of the user so far
    absorbed    \* folders whose files are only in another card's table (history)

batchVars == <<lib, answer, list, card, stage, todo, edits, absorbed>>

Cards == ToSet(list)
NoMap == [s \in Seasons |-> {}]
Unscanned(c) == [c EXCEPT !.scanned = FALSE, !.failed = FALSE, !.found = {}, !.holds = {}]

-----------------------------------------------------------------------------
(* Folders and seasons of a card. *)

Mapped(c) == {s \in Seasons : c.map[s] # {}}
NamedSeason(c) == IF c.season = 0 THEN {} ELSE {c.season}
PreviewSeason(c) == IF Cardinality(c.found) = 1 THEN c.found ELSE {}

\* The directory that holds the season's files.
Resolve(f, s) == IF ~lib[f].direct /\ s \in lib[f].subs THEN <<f, s>> ELSE <<f, 0>>

Represented(f, c) ==
    IF Mapped(c) \union NamedSeason(c) # {} THEN Mapped(c) \union NamedSeason(c)
    ELSE IF lib[f].subs # {} THEN lib[f].subs ELSE PreviewSeason(c)

\* Mutant: a merged card is expanded to its own folder, as an umbrella does.
ExpandedOwnFolder(f, c) ==
    [s \in Seasons |-> IF s \in Represented(f, c) THEN {Resolve(f, s)} ELSE {}]

Expanded(f, c) ==
    IF Mapped(c) # {} THEN c.map
    ELSE [s \in Seasons |->
            IF s \notin Represented(f, c) THEN {}
            ELSE IF c.season = 0 /\ s \in lib[f].subs THEN {<<f, s>>} ELSE {Resolve(f, s)}]

\* What a scan reads: the season folders if there are any, else the folder.
Reads(f, c) ==
    IF Mapped(c) # {} THEN UNION {c.map[s] : s \in Seasons}
    ELSE IF lib[f].subs # {} THEN {<<f, s>> : s \in lib[f].subs} ELSE {<<f, 0>>}

SeasonsScanned(f, c) ==
    IF Mapped(c) # {} THEN Mapped(c)
    ELSE IF lib[f].subs # {} THEN lib[f].subs
    ELSE IF c.season # 0 THEN {c.season} ELSE lib[f].found

SameShow(c, d) == c.show # 0 /\ c.show = d.show /\ c.provider = d.provider
Siblings(cs, S, f) == {g \in S : SameShow(cs[g], cs[f])}

NeedsReview(c) ==
    IF c.show # 0 /\ c.origin = "manual" THEN FALSE
    ELSE c.origin = "fallback" \/ c.tie \/ c.score < 2

\* Python's sorted and min by a tuple of small numbers.
Key(digits) == FoldLeft(LAMBDA n, d : 100 * n + d, 0, digits)
First(S, K(_)) == CHOOSE f \in S : \A g \in S : K(f) <= K(g)
SortedBy(S, K(_)) == SetToSortSeq(S, LAMBDA f, g : K(f) < K(g))

-----------------------------------------------------------------------------
(* Discovery: every folder is matched, weak matches are tried on the other     *)
(* provider, seasons of a show are merged, duplicates labelled.                *)

FolderCard(f, a, provider, origin) ==
    [show |-> a.show, provider |-> provider, score |-> a.score, origin |-> origin,
     tie |-> a.tie /\ a.score = 2, season |-> lib[f].season, map |-> NoMap,
     count |-> IF lib[f].direct THEN Cardinality(lib[f].eps) ELSE 0,
     scanned |-> FALSE, failed |-> FALSE, found |-> {}, holds |-> {}, checked |-> FALSE, dup |-> 0]

\* A pin outranks an id tag, an id tag the search; a tag is taken at its word.
Matched(f) ==
    CASE answer[f].route = "pin" -> FolderCard(f, answer[f].tvdb, "tvdb", "auto")
      [] answer[f].route = "tag" ->
            FolderCard(f, [answer[f].tvdb EXCEPT !.score = 2, !.tie = FALSE], "tvdb", "id_tag")
      [] OTHER -> FolderCard(f, answer[f].tmdb, "tmdb", "auto")

\* A weak match gives way to a strictly better one of the other provider.
WithFallback(f) ==
    LET c == Matched(f)  a == answer[f].tvdb IN
    IF answer[f].route # "pin" /\ c.origin = "auto" /\ c.score < 2 /\ a.score > c.score
        THEN [c EXCEPT !.show = a.show, !.provider = "tvdb", !.score = a.score,
                       !.origin = "fallback", !.tie = a.tie]
        ELSE c

\* Folders of one season of a show: those whose episodes are not in the others
\* join the fullest.
Fullest(cs, f) == Key(<<99 - cs[f].count, 9 - cs[f].score, 99 - f>>)
Episodes(G) == UNION {lib[g].eps : g \in G}
Joined(cs, G) ==
    FoldLeft(LAMBDA J, g : IF Episodes(J) \intersect lib[g].eps = {} THEN J \union {g} ELSE J,
             {}, SortedBy(G, LAMBDA f : Fullest(cs, f)))

OfSeason(cs, G, s) == {g \in G : cs[g].season = s}
Representative(cs, G, s) == First(OfSeason(cs, G, s), LAMBDA f : Fullest(cs, f))
CountOf(cs, G) == FoldSet(LAMBDA g, n : n + cs[g].count, 0, G)

\* merge_season_siblings on the folders G of one show that name a season.
MergeSeasons(cs, G) ==
    LET named == {s \in Seasons : OfSeason(cs, G, s) # {}}
        rep   == [s \in named |-> Representative(cs, G, s)]
        joined == [s \in named |-> Joined(cs, OfSeason(cs, G, s))]
        joint == [g \in DOMAIN cs |->
                    IF \E s \in named : rep[s] = g /\ Cardinality(joined[s]) > 1
                    THEN LET s == cs[g].season IN
                         [cs[g] EXCEPT !.map = [NoMap EXCEPT ![s] = {Resolve(x, s) : x \in joined[s]}],
                                       !.count = CountOf(cs, joined[s])]
                    ELSE cs[g]]
        reps  == {rep[s] : s \in named}
        duplicates == G \ UNION {joined[s] : s \in named}
        earliest(s) == CHOOSE g \in OfSeason(cs, G, s) : \A h \in OfSeason(cs, G, s) : g <= h
        primary == First(reps, LAMBDA f : Key(<<9 - cs[f].score, earliest(cs[f].season)>>))
    IN IF Cardinality(named) < 2
       THEN [cards |-> joint, stay |-> reps \union duplicates]
       ELSE [cards |-> [joint EXCEPT
                ![primary].map = [s \in Seasons |-> UNION {Expanded(g, joint[g])[s] : g \in reps}],
                ![primary].season = 0, ![primary].count = CountOf(joint, reps)],
             stay  |-> {primary} \union duplicates]

\* merge_umbrella_siblings on the cards G of one show: seasons the umbrella
\* lacks are taken from siblings that name one, then a merged sibling whole.
MergeUmbrella(cs, G) ==
    LET umbrellas == {g \in G : cs[g].season = 0 /\ lib[g].subs # {}}
        primary == First(umbrellas, LAMBDA f :
                         Key(<<9 - cs[f].score, Cardinality(Mapped(cs[f])), f>>))
        own == Expanded(primary, cs[primary])
        Lacking(s) == own[s] = {} /\ OfSeason(cs, G, s) # {}
        taken == {Representative(cs, G, s) : s \in {x \in Seasons : Lacking(x)}}
        withSeasons == [s \in Seasons |->
                          IF Lacking(s) THEN {Resolve(Representative(cs, G, s), s)} ELSE own[s]]
        whole == {g \in G \ umbrellas : /\ cs[g].season = 0 /\ Mapped(cs[g]) # {}
                                        /\ \A s \in Mapped(cs[g]) : withSeasons[s] = {}}
    IN IF umbrellas = {} \/ Cardinality(G) < 2
          \/ \A g \in G \ umbrellas : cs[g].season = 0 /\ Mapped(cs[g]) = {}
       THEN [cards |-> cs, stay |-> G]
       ELSE [cards |-> [cs EXCEPT
                ![primary].map = [s \in Seasons |-> withSeasons[s] \union UNION {cs[g].map[s] : g \in whole}],
                ![primary].count = CountOf(cs, {primary} \union taken \union whole)],
             stay |-> G \ (taken \union whole)]

-----------------------------------------------------------------------------
(* Duplicate labels, and the order of the list. *)

NoSeason == 0
EffectiveSeasons(c) ==
    CASE c.season # 0 -> {c.season}
      [] c.season = 0 /\ Mapped(c) # {} -> Mapped(c)
      [] OTHER -> IF PreviewSeason(c) = {} THEN {NoSeason} ELSE PreviewSeason(c)

DuplicatePriority(f, c) ==
    Key(<<9 - Cardinality(EffectiveSeasons(c) \ {NoSeason}), 9 - c.score,
          IF lib[f].subs # {} \/ Mapped(c) # {} THEN 0 ELSE 1, f>>)

\* The cards G of one show, best first: the first of a season keeps it, a card
\* that meets a kept season is a duplicate of its holder.
LabelGroup(cs, G) ==
    FoldLeft(LAMBDA acc, f :
               LET held == {g \in acc.kept : EffectiveSeasons(cs[g]) \intersect EffectiveSeasons(cs[f]) # {}}
               IN IF held = {} THEN [acc EXCEPT !.kept = @ \union {f}]
                  ELSE [acc EXCEPT !.dup = [@ EXCEPT ![f] = CHOOSE g \in held : TRUE]],
             [kept |-> {}, dup |-> [g \in DOMAIN cs |-> 0]],
             SortedBy(G, LAMBDA f : DuplicatePriority(f, cs[f])))

Labelled(cs, S) ==
    [f \in DOMAIN cs |->
        IF f \notin S THEN cs[f]
        ELSE LET d == LabelGroup(cs, Siblings(cs, S, f)).dup[f]
             IN [cs[f] EXCEPT !.dup = d, !.checked = @ /\ d = 0]]

ListOrder(f, c) ==
    Key(<<IF c.dup # 0 THEN 3 ELSE IF c.show = 0 THEN 2 ELSE IF NeedsReview(c) THEN 1 ELSE 0, c.show, f>>)
Sorted(cs, S) == SortedBy(S, LAMBDA f : ListOrder(f, cs[f]))

-----------------------------------------------------------------------------
(* Merging a card into those of its show once its seasons are known.           *)

\* The cards, in list order, whose seasons nobody before them covers.
MergeGroup(cs, l, f) ==
    FoldLeft(LAMBDA acc, g :
               LET seasons == Represented(g, cs[g]) IN
               IF g = f \/ ~SameShow(cs[f], cs[g]) \/ seasons = {} \/ seasons \intersect acc.covered # {}
               THEN acc
               ELSE [group |-> acc.group \union {g}, covered |-> acc.covered \union seasons],
             [group |-> {f}, covered |-> Represented(f, cs[f])], l).group

SeasonMergePriority(f, c) ==
    Key(<<9 - Cardinality(Represented(f, c)), 9 - c.score, IF c.origin = "manual" THEN 0 ELSE 1, 99 - f>>)

\* The cards of G become t, for f, which was rematched.
MergeInto(cs, l, f, G, t) ==
    LET merged == [Unscanned(cs[t]) EXCEPT
                     !.origin = cs[f].origin, !.tie = cs[f].tie, !.show = cs[f].show,
                     !.score = CHOOSE x \in {cs[g].score : g \in G} : \A g \in G : cs[g].score <= x,
                     !.checked = \E g \in G : cs[g].checked,
                     !.map = [s \in Seasons |-> UNION {Expanded(g, cs[g])[s] : g \in G}],
                     !.season = 0, !.count = CountOf(cs, G), !.dup = 0]
        left == SelectSeq(l, LAMBDA g : g \notin G \/ g = t)
    IN [cards |-> Labelled([cs EXCEPT ![t] = merged], ToSet(left)), list |-> left, target |-> t]

\* merge_rematched_state: the new cards and list, and the card that stands for f.
MergeGroupInto(cs, l, f, G) ==
    IF cs[f].show = 0 \/ Represented(f, cs[f]) = {} \/ G = {f}
    THEN [cards |-> Labelled(cs, ToSet(l)), list |-> l, target |-> f]
    ELSE MergeInto(cs, l, f, G, First(G, LAMBDA g : SeasonMergePriority(g, cs[g])))
MergeRematched(cs, l, f) == MergeGroupInto(cs, l, f, MergeGroup(cs, l, f))

\* reconcile_scanned_state: a scan that found one season makes it the card's.
Reconciled(cs, l, f) ==
    LET c == cs[f]  s == CHOOSE x \in c.found : TRUE IN
    IF c.show = 0 \/ ~c.scanned \/ Mapped(c) # {} \/ c.season # 0
       \/ Cardinality(c.found) # 1 \/ Siblings(cs, ToSet(l), f) = {f}
    THEN [cards |-> cs, list |-> l, target |-> f]
    ELSE MergeRematched([cs EXCEPT ![f].map = [NoMap EXCEPT ![s] = {Resolve(f, s)}]], l, f)

-----------------------------------------------------------------------------
(* Scanning one card, and what follows when all are scanned.                   *)

\* A table of everything the card reads, or a card visibly failed.
ScannedCard(f, c, ok) ==
    IF ok THEN [c EXCEPT !.scanned = TRUE, !.failed = FALSE, !.found = SeasonsScanned(f, c),
                         !.holds = Reads(f, c), !.checked = @ /\ SeasonsScanned(f, c) # {}]
    ELSE [Unscanned(c) EXCEPT !.failed = TRUE, !.checked = FALSE]

\* Scanned cards of one show become one: the primary takes the others' files
\* into its table, but not their folders into its map.
ClaimGroup(cs, S, f) == {g \in Siblings(cs, S, f) : cs[g].scanned}
ClaimPrimaries(cs, G) ==
    IF \E g \in G : cs[g].dup = 0 THEN {g \in G : cs[g].dup = 0} ELSE G
MergeClaims(cs, G, p) ==
    [cs EXCEPT ![p] = [@ EXCEPT !.holds = UNION {cs[g].holds : g \in G},
                                !.found = UNION {cs[g].found : g \in G},
                                !.checked = \E g \in G : cs[g].checked,
                                !.count = CountOf(cs, G), !.dup = 0]]

-----------------------------------------------------------------------------
(* The steps. *)

BatchInit ==
    /\ lib \in Libraries /\ answer \in Answers
    /\ card = [f \in Folders |-> Matched(f)]
    /\ list = <<>> /\ todo = <<>> /\ stage = "start" /\ edits = 0 /\ absorbed = {}

Keys(cs, S) == {Siblings(cs, S, f) : f \in {g \in S : cs[g].show # 0}}
\* One card of every show, in order.
OneOfEachShow(cs, S) ==
    SetToSortSeq({CHOOSE f \in G : \A g \in G : f <= g : G \in Keys(cs, S)}, <)

\* discover_shows, on states nobody else sees before it ends.  The fallback pass
\* runs when the setting is on and the other provider answers.
Match(fallback) ==
    /\ stage = "start"
    /\ card' = [f \in Folders |-> IF fallback THEN WithFallback(f) ELSE Matched(f)]
    /\ list' = SetToSortSeq(Folders, <)
    /\ stage' = "seasons" /\ todo' = OneOfEachShow(card', Folders)
    /\ UNCHANGED <<lib, answer, edits, absorbed>>

MergeOneShow(m) ==
    /\ card' = m.cards
    /\ list' = SelectSeq(list, LAMBDA g : ~SameShow(card[g], card[Head(todo)]) \/ g \in m.stay)
    /\ todo' = Tail(todo)

MergeSeasonSiblings ==
    LET G == Siblings(card, Cards, Head(todo))  named == {g \in G : card[g].season # 0}
        m == MergeSeasons(card, named)
    IN /\ stage = "seasons" /\ todo # <<>>
       /\ MergeOneShow([m EXCEPT !.stay = @ \union (G \ named)])
       /\ UNCHANGED <<lib, answer, stage, edits, absorbed>>

StartUmbrellas ==
    /\ stage = "seasons" /\ todo = <<>>
    /\ stage' = "umbrellas" /\ todo' = OneOfEachShow(card, Cards)
    /\ UNCHANGED <<lib, answer, list, card, edits, absorbed>>

MergeUmbrellaSiblings ==
    LET G == Siblings(card, Cards, Head(todo))  m == MergeUmbrella(card, G)
        taken == {g \in G \ m.stay : card[g].season # 0}
    IN /\ stage = "umbrellas" /\ todo # <<>>
       /\ MergeOneShow(m)
       /\ absorbed' = absorbed \union
             {f \in Folders : \E g \in taken : f # g /\ Resolve(f, card[g].season) \in card[g].map[card[g].season]}
       /\ UNCHANGED <<lib, answer, stage, edits>>

\* The bulk scan starts when discovery has ended.
EndDiscovery ==
    /\ stage = "umbrellas" /\ todo = <<>>
    /\ card' = Labelled(card, Cards)
    /\ list' = Sorted(card', Cards)
    /\ stage' = "scan" /\ todo' = SelectSeq(list', LAMBDA f : card[f].show # 0)
    /\ UNCHANGED <<lib, answer, edits, absorbed>>

ToScan(cs, l) == SelectSeq(l, LAMBDA f : cs[f].show # 0 /\ ~cs[f].scanned)
\* _needs_tv_bulk_scan, asked when a single scan has ended.
LeftUnscanned(cs, l) == \E f \in ToSet(l) : cs[f].show # 0 /\ ~cs[f].scanned /\ ~cs[f].failed

\* scan_all, one card at a time; a failure is kept visible on its card.
ScanNext(ok) ==
    /\ stage = "scan" /\ todo # <<>>
    /\ card' = IF card[Head(todo)].scanned THEN card
               ELSE [card EXCEPT ![Head(todo)] = ScannedCard(Head(todo), @, ok)]
    /\ todo' = Tail(todo)
    /\ UNCHANGED <<lib, answer, list, stage, edits, absorbed>>

StartSiblings ==
    /\ stage = "scan" /\ todo = <<>>
    /\ stage' = "siblings"
    /\ todo' = SelectSeq(list, LAMBDA f : Cardinality(Siblings(card, Cards, f)) > 1)
    /\ UNCHANGED <<lib, answer, list, card, edits, absorbed>>

ScannedWhenMerged(r, ok) ==
    /\ list' = r.list
    /\ card' = IF r.cards[r.target].scanned THEN r.cards
               ELSE [r.cards EXCEPT ![r.target] = ScannedCard(r.target, @, ok)]

\* _reconcile_scanned_siblings: each card of a show with several is merged by
\* the season its scan found, and what is not scanned then is scanned (again).
ReconcileNext(ok) ==
    /\ stage = "siblings" /\ todo # <<>>
    /\ IF Head(todo) \notin Cards THEN UNCHANGED <<card, list>>
       ELSE ScannedWhenMerged(Reconciled(card, list, Head(todo)), ok)
    /\ todo' = Tail(todo)
    /\ UNCHANGED <<lib, answer, stage, edits, absorbed>>

StartClaims ==
    /\ stage = "siblings" /\ todo = <<>>
    /\ stage' = "claims"
    /\ UNCHANGED <<lib, answer, list, card, todo, edits, absorbed>>

\* reconcile_scanned_episode_claims, one show at a time; which of the unlabelled
\* cards is the primary depends on how many of its files are fine.
ReconcileClaims ==
    \E f \in Cards : LET G == ClaimGroup(card, Cards, f) IN
        /\ stage = "claims" /\ Cardinality(G) > 1
        /\ \E p \in ClaimPrimaries(card, G) :
              /\ card' = MergeClaims(card, G, p)
              /\ list' = SelectSeq(list, LAMBDA g : g \notin G \/ g = p)
              /\ absorbed' = absorbed \union (G \ {p})
                            \union {g \in Folders : \E s \in Seasons, x \in G \ {p} : <<g, 0>> \in card[x].map[s] \/ <<g, s>> \in card[x].map[s]}
        /\ UNCHANGED <<lib, answer, todo, stage, edits>>

\* A bulk scan ends; a single one is followed by a bulk scan of what it left
\* unscanned, a merged card first of all.
EndScan ==
    /\ stage = "claims"
    /\ \A f \in Cards : Cardinality(ClaimGroup(card, Cards, f)) < 2
    /\ IF LeftUnscanned(card, list)
         THEN stage' = "scan" /\ todo' = ToScan(card, list)
         ELSE stage' = "idle" /\ todo' = <<>>
    /\ UNCHANGED <<lib, answer, list, card, edits, absorbed>>

-----------------------------------------------------------------------------
(* The user, when no scan runs. *)

MayEdit == stage = "idle" /\ edits < MaxEdits
Edited == edits' = edits + 1 /\ UNCHANGED <<lib, answer>>

\* The card that stands for f is scanned next; its check goes unless kept.
MergedThenScanned(m, kept) ==
    /\ card' = [m.cards EXCEPT ![m.target].checked = @ /\ kept]
    /\ list' = m.list
    /\ stage' = "single" /\ todo' = <<m.target>>
    /\ absorbed' = absorbed

\* Fix Match or an alternate: another show of the same provider.
Rematch(f, show, score) ==
    /\ MayEdit /\ f \in Cards
    /\ MergedThenScanned(
          MergeRematched([card EXCEPT ![f] = [Unscanned(@) EXCEPT !.show = show, !.score = score,
                                                                  !.origin = "manual"]], list, f),
          FALSE)
    /\ Edited

\* The season named by the folder is told again, whatever was merged into it.
SwitchProvider(f) ==
    LET other == IF card[f].provider = "tmdb" THEN "tvdb" ELSE "tmdb"
        a == answer[f][other]
    IN /\ MayEdit /\ f \in Cards /\ a.show # 0
       /\ MergedThenScanned(
             MergeRematched([card EXCEPT ![f] = [Unscanned(@) EXCEPT
                                !.show = a.show, !.score = a.score, !.tie = FALSE, !.provider = other,
                                !.origin = "manual", !.season = lib[f].season]], list, f),
             TRUE)
       /\ Edited

SeasonAssigned(f, m) ==
    /\ card' = IF m.target = f THEN [m.cards EXCEPT ![f] = Unscanned(@)] ELSE m.cards
    /\ list' = m.list /\ todo' = <<m.target>>

\* A season given to a matched card merges it; a card merged into no other is
\* scanned anew.
AssignSeason(f, s) ==
    /\ MayEdit /\ f \in Cards /\ card[f].show # 0
    /\ SeasonAssigned(f, MergeRematched([card EXCEPT ![f] = [@ EXCEPT !.season = s, !.origin = "manual"]], list, f))
    /\ stage' = "single"
    /\ absorbed' = IF lib[f].subs = {} THEN absorbed ELSE absorbed \union {f}
    /\ Edited

\* No season, or a card of no show: only the labels change.
ClearSeason(f, s) ==
    /\ MayEdit /\ f \in Cards /\ (s = 0 \/ card[f].show = 0) /\ card[f].season # s
    /\ card' = Labelled([card EXCEPT ![f] = [@ EXCEPT !.season = s]], Cards)
    /\ UNCHANGED <<list, stage, todo, absorbed>>
    /\ Edited

Approve(f) ==
    /\ MayEdit /\ f \in Cards /\ card[f].show # 0 /\ card[f].dup = 0
    /\ ~(card[f].checked /\ card[f].origin = "manual")
    /\ card' = [card EXCEPT ![f] = [@ EXCEPT !.origin = "manual",
                                            !.checked = card[f].scanned /\ card[f].found # {}]]
    /\ UNCHANGED <<list, stage, todo, absorbed>>
    /\ Edited

\* on_scan_complete: after a failure no bulk scan follows.
EndSingle(ok) ==
    /\ stage' = IF ok THEN "claims" ELSE "idle"
    /\ todo' = <<>>

ScanAfterMerge(r, again) ==
    /\ list' = r.list
    /\ card' = IF r.target = Head(todo) THEN r.cards
               ELSE [r.cards EXCEPT ![r.target] = ScannedCard(r.target, @, again)]
    /\ EndSingle(r.target = Head(todo) \/ again)

\* start_single_show_scan: scan, merge by the season found, scan the card that
\* absorbed it, merge the claims.
SingleScan(ok, again) ==
    /\ stage = "single"
    /\ LET cs == [card EXCEPT ![Head(todo)] = ScannedCard(Head(todo), @, ok)]
       IN IF ok THEN ScanAfterMerge(Reconciled(cs, list, Head(todo)), again)
          ELSE card' = cs /\ list' = list /\ EndSingle(FALSE)
    /\ UNCHANGED <<lib, answer, edits, absorbed>>

BatchNext ==
    \/ \E fallback \in BOOLEAN : Match(fallback)
    \/ MergeSeasonSiblings \/ StartUmbrellas \/ MergeUmbrellaSiblings \/ EndDiscovery
    \/ \E ok \in BOOLEAN : ScanNext(ok) \/ ReconcileNext(ok)
    \/ StartSiblings \/ StartClaims \/ ReconcileClaims \/ EndScan
    \/ \E ok, again \in BOOLEAN : SingleScan(ok, again)
    \/ \E f \in Folders : SwitchProvider(f) \/ Approve(f)
    \/ \E f \in Folders, show \in Shows, score \in 1 .. 2 : Rematch(f, show, score)
    \/ \E f \in Folders, s \in Seasons : AssignSeason(f, s)
    \/ \E f \in Folders, s \in Seasons \union {0} : ClearSeason(f, s)

BatchSpec == BatchInit /\ [][BatchNext]_batchVars

-----------------------------------------------------------------------------
(* Properties. *)

CardSet ==
    [show : Shows \union {0}, provider : Providers, score : 0 .. 2,
     origin : {"auto", "id_tag", "fallback", "manual"}, tie : BOOLEAN,
     season : Seasons \union {0}, map : [Seasons -> SUBSET (Folders \X (Seasons \union {0}))],
     count : Nat, scanned : BOOLEAN, failed : BOOLEAN, found : SUBSET Seasons,
     holds : SUBSET (Folders \X (Seasons \union {0})), checked : BOOLEAN, dup : 0 .. NumFolders]

\* Type correctness of the orchestrator's states.
BatchTypeOK ==
    /\ card \in [Folders -> CardSet] /\ Cards \subseteq Folders /\ Len(list) = Cardinality(Cards)
    /\ stage \in {"start", "seasons", "umbrellas", "scan", "siblings", "claims", "single", "idle"}
    /\ ToSet(todo) \subseteq Folders /\ edits \in 0 .. MaxEdits /\ absorbed \subseteq Folders

PathsOf(f) == IF lib[f].subs # {} THEN {<<f, s>> : s \in lib[f].subs} ELSE {<<f, 0>>}
Shown == UNION {IF card[g].scanned THEN card[g].holds ELSE Reads(g, card[g]) : g \in Cards}

\* Merging never loses files: whatever discovery, the reconciliations and the
\* user's edits merge, every folder found is still read by some card, but for
\* folders absorbed by their scanned tables alone (these are not read again)
\* and those an umbrella swallows with the sibling they were joined to.
FoldersKept == list # <<>> => \A f \in Folders \ absorbed : PathsOf(f) \subseteq Shown

\* After the scans every card of a show has a table or a visible failure,
\* though merging resets cards behind the scan that visited them.
MatchedCardsScanned ==
    stage = "idle" => \A f \in Cards : card[f].show = 0 \/ card[f].scanned \/ card[f].failed

\* A card the labels call a duplicate has a card of its show that is none, and
\* is never checked for the queue.
DuplicatesStandBehind ==
    \A f \in Cards : card[f].dup # 0 =>
        ~card[f].checked /\ \E g \in Cards : SameShow(card[f], card[g]) /\ card[g].dup = 0

\* The docstring of merge_umbrella_siblings: a sibling the umbrella does not
\* cover is absorbed into its map, so its folders are read from there.
AbsorbedFoldersRead == stage = "scan" => \A f \in Folders : PathsOf(f) \subseteq Shown

\* The docstring of _apply_fallback_matches: what the fallback matched is always
\* reviewed, so the card that reads its files asks for review.
\* It does not hold; the README tells how.
FallbackReviewed ==
    stage = "scan" => \A f \in Folders, g \in Cards :
        card[f].origin = "fallback" /\ PathsOf(f) \subseteq Reads(g, card[g]) => NeedsReview(card[g])

=============================================================================
