------------------------------ MODULE MCScanning ------------------------------
(***************************************************************************)
(* How folders become shows and movies, for TLC: the sessions of the       *)
(* scans, the cards of a library and their merging, the walk that finds    *)
(* the roots, and the scans of one show and of one folder of movies.       *)
(*                                                                         *)
(* The components do not share state here: one of them is at work in every *)
(* behaviour, and the state spaces add up.                                 *)
(***************************************************************************)
EXTENDS Integers, Sequences, FiniteSets, TLC

CONSTANTS
    Parts,                          \* the components to be put to work
    MaxStarts, MaxSwitches,
    NumFolders, Shows, Seasons, BatchLibraries, Answers, MaxEdits,
    Trees, LibraryRoot, NoNumber,
    VideoLibraries, Root, NoSeasonName, HintOverflowMargin,
    MovieLibraries, NoMovie, NoFile, Threshold, MaxRematches, movie1, movie2

ASSUME ScanningAssumption == MaxStarts \in Nat

\* A library is a finite tree of folders under its root, a link stands for a folder
\* that is none, and no folder below the root is spelled as it but for case.
ASSUME TreesAssumption ==
    \A t \in Trees :
       /\ IsFiniteSet(DOMAIN t) /\ LibraryRoot \in DOMAIN t
       /\ t[LibraryRoot].target = LibraryRoot /\ t[LibraryRoot].folded = LibraryRoot
       /\ \A n \in DOMAIN t : /\ t[n].target \in DOMAIN t /\ t[t[n].target].target = t[n].target
                             /\ t[n].parent \in DOMAIN t /\ t[n].folded \in DOMAIN t
                             /\ t[n].episodes \in Nat /\ t[n].others \in Nat
       /\ \A S \in SUBSET DOMAIN t :
             S # {} /\ (\A n \in S \ {LibraryRoot} : t[n].parent \in S) => LibraryRoot \in S

\* A folder has finitely many files, and the settings admit a threshold from 500 to
\* 1000 thousandths (set_auto_accept_threshold).
ASSUME MoviesAssumption ==
    /\ Threshold \in 500 .. 1000
    /\ \A fs \in MovieLibraries :
          /\ IsFiniteSet(DOMAIN fs)
          /\ \A f \in DOMAIN fs : fs[f].score \in Nat /\ fs[f].evidence.year \in Int

VARIABLES
    part,       \* the component at work
    token, begun, op, contents, mode, sessionLibrary, orchestrator,
    orchestrated, progress, snapshot, page, warming, tab, events, starts,
    switches, adopted,
    lib, answer, list, card, stage, todo, edits, absorbed,
    tree, kind, frontier, visited, candidates,
    videoLibrary, scanPhase, unnamed, folders, reading, place, used,
    matched, rows, placed, offered,
    files, phase, left, items, cards, jobs, rematches

sessionVars == <<token, begun, op, contents, mode, sessionLibrary, orchestrator,
      orchestrated, progress, snapshot, page, warming, tab, events, starts,
      switches, adopted>>
batchVars == <<lib, answer, list, card, stage, todo, edits, absorbed>>
discoveryVars == <<tree, kind, frontier, visited, candidates>>
tvVars == <<videoLibrary, scanPhase, unnamed, folders, reading, place, used,
      matched, rows, placed, offered>>
movieVars == <<files, phase, left, items, cards, jobs, rematches>>
suiteVars == <<part, sessionVars, batchVars, discoveryVars, tvVars, movieVars>>

Sessions == INSTANCE ScanSession WITH library <- sessionLibrary
Batch == INSTANCE BatchShows WITH Libraries <- BatchLibraries
Discovery == INSTANCE LibraryDiscovery WITH Unnumbered <- NoNumber
TV == INSTANCE TVScan WITH
    NoSeason <- NoSeasonName, Libraries <- VideoLibraries,
    library <- videoLibrary
Movies == INSTANCE MovieScan WITH Folders <- MovieLibraries

-----------------------------------------------------------------------------
(* Instances of BatchShows for TLC. *)

MCBatchShows == {1, 2}
MCBatchSeasons == {1, 2}

LibraryFolder(season, subs, direct, eps, found) ==
    [season |-> season, subs |-> subs, direct |-> direct, eps |-> eps, found |-> found]
Umbrella(subs) == LibraryFolder(0, subs, FALSE, {1}, subs)
Release(s, eps) == LibraryFolder(s, {}, TRUE, eps, {s})
Loose(found) == LibraryFolder(0, {}, TRUE, {1}, found)

FolderKinds == <<Umbrella({1}), Umbrella({1, 2}), Release(1, {1}), Release(1, {2}), Release(2, {1}),
           Loose({1}), Loose({1, 2})>>
\* Any three of the kinds, one of them loose at most; their order matters to
\* ties only.
MCBatchLibraries == {<<FolderKinds[t[1]], FolderKinds[t[2]], FolderKinds[t[3]]>> :
                        t \in {u \in (1 .. 7) \X (1 .. 7) \X (1 .. 7) :
                                    u[1] <= u[2] /\ u[2] <= u[3] /\ u[2] <= 5}}
MCWholeSeasonLibraries == {<<Umbrella({1}), Release(2, {1}), Release(2, {2})>>,
                           <<Umbrella({1}), Release(1, {1}), Release(2, {1})>>}

Best(show, score) == [show |-> show, score |-> score, tie |-> FALSE]
Source(tmdb, tvdb, route) == [tmdb |-> tmdb, tvdb |-> tvdb, route |-> route]
Sure == Source(Best(1, 2), Best(1, 2), "search")
MCAnswers ==
    {<<Sure, Sure, x>> : x \in {Sure, Source(Best(2, 2), Best(2, 1), "search"),
                                Source(Best(1, 1), Best(1, 1), "pin")}}
    \union {<<Source(Best(1, 1), Best(1, 2), "tag"), x, Sure>> :
                x \in {Source(Best(1, 1), Best(1, 2), "search"), Source(Best(0, 0), Best(1, 2), "search")}}

-----------------------------------------------------------------------------
(* A library of three folders in every arrangement, one of them a link or    *)
(* spelled like another but for case.                                       *)

PlainFolder == [parent |-> 0, target |-> 0, folded |-> 0, system |-> FALSE, extras |-> FALSE,
          season |-> NoNumber, hints |-> FALSE, ofParent |-> FALSE, year |-> FALSE,
          episodes |-> 0, others |-> 0, specials |-> FALSE]

NamedFolders == {
    PlainFolder,
    [PlainFolder EXCEPT !.episodes = 1],
    [PlainFolder EXCEPT !.others = 1],
    [PlainFolder EXCEPT !.others = 3],
    [PlainFolder EXCEPT !.season = 1, !.hints = TRUE, !.ofParent = TRUE],
    [PlainFolder EXCEPT !.season = 1, !.hints = TRUE, !.others = 1],
    [PlainFolder EXCEPT !.season = 1, !.ofParent = TRUE, !.others = 1],
    [PlainFolder EXCEPT !.season = 1, !.ofParent = TRUE, !.episodes = 1],
    [PlainFolder EXCEPT !.season = 0, !.hints = TRUE, !.episodes = 1],
    [PlainFolder EXCEPT !.season = 0, !.extras = TRUE, !.others = 1],
    [PlainFolder EXCEPT !.season = 0, !.extras = TRUE, !.episodes = 1, !.specials = TRUE],
    [PlainFolder EXCEPT !.year = TRUE, !.hints = TRUE, !.others = 1],
    [PlainFolder EXCEPT !.system = TRUE]}

RootFolders == {PlainFolder, [PlainFolder EXCEPT !.episodes = 1], [PlainFolder EXCEPT !.others = 3]}

\* The innermost of three.
Innermost == {d \in NamedFolders : d.season # 1 /\ ~d.system /\ ~d.year /\ d.others < 3}

AtPlace(d, p, t) == [d EXCEPT !.parent = p, !.target = t, !.folded = t]
SpelledAs(d, f) == [d EXCEPT !.folded = f]
Tree(root, a, b, c) == (0 :> root) @@ (1 :> a) @@ (2 :> b) @@ (3 :> c)
Above == AtPlace(PlainFolder, 0, 0)
MCTrees ==
    {Tree(AtPlace(r, 0, 0), AtPlace(a, 0, 1), AtPlace(b, p, 2), AtPlace(c, 2, 3)) :
        r \in RootFolders, a, b \in NamedFolders, c \in Innermost, p \in {0, 1}}
    \cup
    {Tree(Above, AtPlace(a, 0, 1), AtPlace(b, p, 2), AtPlace(PlainFolder, q, t)) :
        a \in Innermost, b \in NamedFolders, p \in {0, 1}, q \in {0, 1, 2}, t \in {0, 1, 2}}
    \cup
    {Tree(Above, AtPlace(a, 0, 1), AtPlace(b, p, 2), SpelledAs(AtPlace([b EXCEPT !.others = o], p, 3), 2)) :
        a \in Innermost, b \in NamedFolders, p \in {0, 1}, o \in {0, 3}}

-----------------------------------------------------------------------------
(* Shows of three videos: all together in one folder, in season folders the *)
(* provider knows and does not know, with extras, and in folders that only  *)
(* resemble season names.                                                   *)

Listing2 == (0 :> [titled |-> 1, count |-> 1]) @@ (1 :> [titled |-> 2, count |-> 2])
            @@ (2 :> [titled |-> 2, count |-> 3])
Listing1 == 1 :> [titled |-> 4, count |-> 4]

PlainPlace == [parent |-> Root, season |-> NoSeasonName, extras |-> FALSE, specials |-> FALSE,
          year |-> FALSE, aired |-> NoSeasonName, likes |-> <<>>]
PlainVideo == [folder |-> Root, numbers |-> <<>>, hint |-> NoSeasonName, exact |-> {}, near |-> <<>>,
          alike |-> {}, prefix |-> 0, stem |-> FALSE, companion |-> FALSE]

\* What a name may carry, in a show of the two seasons above.
Carries == {
    [PlainVideo EXCEPT !.numbers = <<1>>],
    [PlainVideo EXCEPT !.numbers = <<2>>, !.hint = 1],
    [PlainVideo EXCEPT !.numbers = <<1, 2>>, !.hint = 2],
    [PlainVideo EXCEPT !.numbers = <<1>>, !.hint = 3],
    [PlainVideo EXCEPT !.numbers = <<1>>, !.hint = 0],
    [PlainVideo EXCEPT !.numbers = <<3>>, !.exact = {<<1, 2>>}],
    [PlainVideo EXCEPT !.numbers = <<1>>, !.hint = 1, !.near = <<<<1, 2>>, <<0, 1>>>>],
    [PlainVideo EXCEPT !.alike = {<<2, 1>>, <<2, 2>>}, !.numbers = <<1, 2>>, !.hint = 1],
    [PlainVideo EXCEPT !.exact = {<<0, 1>>}, !.stem = TRUE],
    [PlainVideo EXCEPT !.exact = {<<0, 1>>, <<2, 1>>}, !.prefix = 3]}

ShowOf(F, V, L) == [folders |-> F, map |-> <<>>, hint |-> NoSeasonName, videos |-> V,
                  seasons |-> L, dated |-> TRUE, breaks |-> {}]

FlatShows ==
    {ShowOf(<<>>, v, Listing2) : v \in [1 .. 3 -> Carries]}
    \cup {[ShowOf(<<>>, v, Listing2) EXCEPT !.hint = 1] :
            v \in [1 .. 3 -> {c \in Carries : c.hint = NoSeasonName}]}

\* Season folders 1 and 2 of a show that has one season, aired in two runs.
ClusterShows ==
    {[ShowOf(("d1" :> [PlainPlace EXCEPT !.season = 1]) @@ ("d2" :> [PlainPlace EXCEPT !.season = 2]),
           v, Listing1) EXCEPT !.breaks = {3}] :
        v \in [1 .. 3 -> {[PlainVideo EXCEPT !.folder = d, !.numbers = n, !.hint = h] :
                            d \in {"d1", "d2"}, n \in {<<1>>, <<2>>, <<1, 2>>}, h \in {NoSeasonName, 2}}]}

\* Season folders with extras, listed by hand or found.
ExtrasShows ==
    {[ShowOf(("d1" :> [PlainPlace EXCEPT !.season = 1])
           @@ ("x" :> [PlainPlace EXCEPT !.parent = p, !.season = 0, !.extras = TRUE, !.specials = s]),
           [i \in 1 .. 3 |-> [v[i] EXCEPT !.folder = <<"d1", "x", w>>[i], !.companion = i = 3]],
           Listing2) EXCEPT !.map = m] :
        v \in [1 .. 3 -> {c \in Carries : c.exact # {} \/ c.hint = 1}], p \in {Root, "d1"}, s \in BOOLEAN,
        w \in {"x", Root}, m \in {<<>>, ("d1" :> 1) @@ ("x" :> 0)}}

\* Folders that resemble seasons, or bear the year they aired in.
NameShows ==
    {ShowOf(("d1" :> [PlainPlace EXCEPT !.season = 1])
          @@ ("d2" :> [PlainPlace EXCEPT !.likes = k]) @@ ("d3" :> [PlainPlace EXCEPT !.likes = l])
          @@ ("d4" :> [PlainPlace EXCEPT !.year = TRUE, !.aired = a]),
          [i \in 1 .. 3 |-> [v EXCEPT !.folder = <<"d2", "d3", "d4">>[i]]], Listing2) :
        k, l \in {<<>>, <<2, 1>>, <<1, 2>>}, a \in {NoSeasonName, 2}, v \in Carries}

MCVideoLibraries == FlatShows \cup ClusterShows \cup ExtrasShows \cup NameShows

-----------------------------------------------------------------------------
(* Folders of up to three files: numbered like episodes, under a show, plain *)
(* movies that the year or the sequel number speaks for or against.          *)

MovieFits(y, s) == [title |-> TRUE, folder |-> FALSE, year |-> y, otherSequel |-> s]

PlainMovie == [underShow |-> FALSE, sample |-> FALSE, episodeName |-> FALSE, number |-> 0,
          series |-> 0, first |-> movie1, best |-> movie1, score |-> 700, evidence |-> MovieFits(0, FALSE),
          subs |-> {}, named |-> NoMovie, depth |-> 1, choices |-> {movie1, movie2}]

MovieKinds ==
    {PlainMovie,
     [PlainMovie EXCEPT !.underShow = TRUE],
     [PlainMovie EXCEPT !.sample = TRUE],
     [PlainMovie EXCEPT !.episodeName = TRUE],
     [PlainMovie EXCEPT !.first = NoMovie, !.best = NoMovie],
     [PlainMovie EXCEPT !.first = movie2, !.subs = {1}],
     [PlainMovie EXCEPT !.best = movie2, !.evidence = MovieFits(5, FALSE)],
     [PlainMovie EXCEPT !.best = movie2, !.evidence = MovieFits(1, TRUE), !.named = movie2],
     [PlainMovie EXCEPT !.score = 1100, !.evidence = MovieFits(-1, TRUE), !.depth = 2],
     [PlainMovie EXCEPT !.named = movie1, !.score = 900]}

MovieSeries(k) == {[PlainMovie EXCEPT !.number = k, !.series = 1], [PlainMovie EXCEPT !.number = 20 * k, !.series = 1],
              [PlainMovie EXCEPT !.number = 2000, !.series = 1]}

MCMovieFolders ==
    {<<a>> : a \in MovieKinds} \cup {<<a, b>> : a \in MovieKinds, b \in MovieKinds}
    \cup {<<a, b, c>> : a \in MovieSeries(1), b \in MovieSeries(2), c \in MovieSeries(3) \cup MovieKinds}

-----------------------------------------------------------------------------
(* One component at work, the others switched off. *)

SessionsOff == token = "off" /\ begun = "off" /\ op = "off" /\ contents = "off" /\ mode = "off" /\ sessionLibrary = "off" /\ orchestrator = "off" /\ orchestrated = "off" /\ progress = "off" /\ snapshot = "off" /\ page = "off" /\ warming = "off" /\ tab = "off" /\ events = "off" /\ starts = "off" /\ switches = "off" /\ adopted = "off"
BatchOff == lib = "off" /\ answer = "off" /\ list = "off" /\ card = "off" /\ stage = "off" /\ todo = "off" /\ edits = "off" /\ absorbed = "off"
DiscoveryOff == tree = "off" /\ kind = "off" /\ frontier = "off" /\ visited = "off" /\ candidates = "off"
TVOff == videoLibrary = "off" /\ scanPhase = "off" /\ unnamed = "off" /\ folders = "off" /\ reading = "off" /\ place = "off" /\ used = "off" /\ matched = "off" /\ rows = "off" /\ placed = "off" /\ offered = "off"
MoviesOff == files = "off" /\ phase = "off" /\ left = "off" /\ items = "off" /\ cards = "off" /\ jobs = "off" /\ rematches = "off"

SuiteInit ==
    /\ part \in Parts
    /\ IF part = "sessions" THEN Sessions!SessionInit ELSE SessionsOff
    /\ IF part = "shows" THEN Batch!BatchInit ELSE BatchOff
    /\ IF part = "discovery" THEN Discovery!DiscoveryInit ELSE DiscoveryOff
    /\ IF part = "tv" THEN TV!ScanInit ELSE TVOff
    /\ IF part = "movies" THEN Movies!MovieInit ELSE MoviesOff

SuiteNext ==
    \/ /\ part = "sessions" /\ Sessions!SessionNext
       /\ UNCHANGED <<part, batchVars, discoveryVars, tvVars, movieVars>>
    \/ /\ part = "shows" /\ Batch!BatchNext
       /\ UNCHANGED <<part, sessionVars, discoveryVars, tvVars, movieVars>>
    \/ /\ part = "discovery" /\ Discovery!DiscoveryNext
       /\ UNCHANGED <<part, sessionVars, batchVars, tvVars, movieVars>>
    \/ /\ part = "tv" /\ TV!ScanNext
       /\ UNCHANGED <<part, sessionVars, batchVars, discoveryVars, movieVars>>
    \/ /\ part = "movies" /\ Movies!MovieNext
       /\ UNCHANGED <<part, sessionVars, batchVars, discoveryVars, tvVars>>

SuiteSpec == SuiteInit /\ [][SuiteNext]_suiteVars

-----------------------------------------------------------------------------
\* Whatever order scans, switches of the tab and notifications come in: the
\* newest scan can be cancelled, a superseded scan's result is never what the
\* page shows, and a page whose scan has settled is not left scanning
\* (_scan_operation_helpers.py, _main_window_scan.py).
ScansSettle ==
    part = "sessions" => /\ Sessions!SessionTypeOK
                         /\ Sessions!NewestScanCancellable
                         /\ Sessions!LateResultsNeverShown
                         /\ Sessions!SettledScanLeavesPage

\* No sequence of matches, merges, splits and rematches loses a folder of the
\* library, leaves a matched card unscanned, or a duplicate without the card it
\* is a duplicate of (_batch_orchestrators.py and its merging helpers).
LibraryKept ==
    part = "shows" => /\ Batch!BatchTypeOK
                      /\ Batch!FoldersKept
                      /\ Batch!MatchedCardsScanned
                      /\ Batch!DuplicatesStandBehind

\* What merge_umbrella_siblings says: the folders it absorbs have their files
\* read as the seasons of the card that stays.
AbsorbedFoldersRead == part = "shows" => Batch!AbsorbedFoldersRead

\* Links and odd names do not make the walk find a root twice, or miss a folder
\* with episodes (tv_library_discovery_service.py).
RootsFound ==
    part = "discovery" => /\ Discovery!DiscoveryTypeOK
                          /\ Discovery!RootsDistinct
                          /\ Discovery!EpisodesReached

\* In the scan of a show no two folders get one season by their names, a file
\* with a title is placed by it, and the regrouping of seasons aired in runs
\* takes no episode from another file (_tv_scanner_consolidated.py).
TitlesPlaceFiles ==
    /\ [](part = "tv" => TV!TVScanTypeOK /\ TV!NamedSeasonsDistinct /\ TV!TitlesFirst)
    /\ [][(part = "tv" /\ scanPhase = "cluster") =>
              \A v, w \in TV!Videos : (v # w /\ placed'[v] # placed[v]) =>
                  placed'[v] \cap placed[w] = {}]_suiteVars

\* A movie its year or its number speaks against is offered for review, and
\* every file of the folder ends on one card or is accounted for without
\* (_movie_scanner.py).
MoviesAccounted ==
    part = "movies" => Movies!ContradictedIsReviewed /\ Movies!FilesAccounted
=============================================================================
