------------------------------- MODULE TVScan -------------------------------
(***************************************************************************)
(* From the folders of one show to its first assignment table: TVScanner   *)
(* (engine/_tv_scanner.py).  The scan decides which folders hold which     *)
(* seasons, then reads them one of two ways: folder by folder, or, where   *)
(* the folders say nothing about seasons or contradict the provider, all   *)
(* together, by titles, explicit numbers or mere order.                    *)
(*                                                                         *)
(* What parsing and text matching find in a name is data: Libraries.  The  *)
(* rescues that follow are in EpisodeResolution.                           *)
(***************************************************************************)
EXTENDS Naturals, FiniteSets, Sequences

LOCAL Ext == INSTANCE SequencesExt

CONSTANTS
    Libraries,          \* shows on disk, with what the provider lists for them
    Root,               \* the show's own folder
    NoSeason,           \* an absent season number
    HintOverflowMargin  \* _HINT_OVERFLOW_MARGIN

NoSlot == <<>>          \* slots are <<season, episode>>
Unnumbered == 9999      \* the sort key of files without a number

VARIABLES
    library,
    scanPhase,  \* the function at work
    unnamed,    \* folders whose names have still to be compared with seasons'
    folders,    \* the season folders: a set of <<folder, season>>, then a sequence
    reading,    \* the videos in the order they are taken, each as <<video, season>>
    place,      \* position of the loop in reading
    used,       \* slots the loop holds to be taken
    matched,    \* video -> the slots the consolidated preview maps it to
    rows,       \* the videos of the table, in the order of add_file
    placed,     \* video -> the slots assigned to it
    offered     \* the table's slots

scanVars == <<library, scanPhase, unnamed, folders, reading, place, used, matched,
              rows, placed, offered>>

Videos  == DOMAIN library.videos
Video(v) == library.videos[v]
Folder(d) == library.folders[d]
Subfolders(d) == {c \in DOMAIN library.folders : Folder(c).parent = d}
VideosIn(d) == SelectSeq([v \in Videos |-> v], LAMBDA v : Video(v).folder = d)

Listed  == DOMAIN library.seasons
Regular == Listed \ {0}
Titled(n) == IF n \in Listed THEN {<<n, e>> : e \in 1 .. library.seasons[n].titled} ELSE {}
\* Episodes counted but not titled yet have placeholders.
Slotted(n) == IF n \in Listed
              THEN {<<n, e>> : e \in 1 .. Ext!Max({library.seasons[n].titled, library.seasons[n].count})}
              ELSE {}

-----------------------------------------------------------------------------
(* Which folders hold which seasons: resolve_tv_season_dirs.               *)

\* _map_year_folders_to_seasons: the season aired that year, else the only one.
YearSeasons(d) ==
    IF Folder(d).aired # NoSeason THEN {Folder(d).aired}
    ELSE IF Cardinality(Regular) = 1 THEN Regular ELSE {}

OpenFolder ==
    /\ scanPhase = "open"
    /\ LET named == {d \in Subfolders(Root) : Folder(d).season # NoSeason}
           other == IF named = {} THEN {} ELSE Subfolders(Root) \ named
           years == {d \in other : Folder(d).year}
       IN  IF library.map # <<>>
           THEN /\ folders' = {<<d, library.map[d]>> : d \in DOMAIN library.map}
                /\ unnamed' = {}
           ELSE /\ folders' = {<<d, Folder(d).season>> : d \in named}
                              \cup UNION {{<<d, n>> : n \in YearSeasons(d)} : d \in years}
                /\ unnamed' = other \ years
    /\ scanPhase' = "names"
    /\ UNCHANGED <<library, reading, place, used, matched, rows, placed, offered>>

\* Seasons a name may no longer be compared with: already_matched, used_seasons.
NamesGiven == {p[2] : p \in {p \in folders : ~Folder(p[1]).year}}

\* match_tv_dirs_to_tmdb_seasons: the best of the seasons a folder's name
\* resembles.  The folders come in the order of the directory.
MatchName(d) ==
    /\ scanPhase = "names" /\ d \in unnamed
    /\ LET likes == SelectSeq(Folder(d).likes, LAMBDA n : n \in Regular \ NamesGiven)
       IN  folders' = folders \cup IF likes = <<>> THEN {} ELSE {<<d, likes[1]>>}
    /\ unnamed' = unnamed \ {d}
    /\ UNCHANGED <<library, scanPhase, reading, place, used, matched, rows, placed, offered>>

\* The root stands for a season where no folder does, or only specials folders do.
SeasonFolders ==
    LET root == <<Root, IF library.hint = NoSeason THEN 1 ELSE library.hint>>
    IN  IF folders = {} THEN {root}
        ELSE IF /\ library.map = <<>>
                /\ \A p \in folders : p[2] = 0
                /\ VideosIn(Root) # <<>>
        THEN folders \cup {root} ELSE folders

\* scan: a flat folder of a show with several seasons, unless its hint is
\* believed; otherwise season folders the provider knows nothing of.
Overflows ==
    /\ library.hint \in Listed
    /\ library.seasons[library.hint].count > 0
    /\ Len(VideosIn(Root)) > library.seasons[library.hint].count + HintOverflowMargin
Consolidates(F) ==
    \/ /\ {p[1] : p \in F} = {Root}
       /\ Cardinality(Regular) > 1
       /\ library.hint = NoSeason \/ Overflows
    \/ ~({p[2] : p \in F} \subseteq Listed \cup {0})

FolderOrders(F) ==
    {q \in Ext!SetToSeqs(F) : \A i, j \in DOMAIN q : i < j => q[i][2] <= q[j][2]}

\* collect_absolute_files: the season folders' own videos, by their first number.
FirstNumber(v) == IF Video(v).numbers = <<>> THEN Unnumbered ELSE Video(v).numbers[1]
AbsoluteOrder(q) ==
    LET all == Ext!FlattenSeq([i \in DOMAIN q |->
                 [j \in DOMAIN VideosIn(q[i][1]) |-> <<VideosIn(q[i][1])[j], q[i][2]>>]])
        numbers == Ext!SetToSortSeq({FirstNumber(all[i][1]) : i \in DOMAIN all}, <)
    IN  Ext!FlattenSeq([k \in DOMAIN numbers |->
          SelectSeq(all, LAMBDA p : FirstNumber(p[1]) = numbers[k])])

\* build_normal_table descends into a season's extras folders, unless they are
\* season folders themselves, and one level into an extras folder of season 0.
ExtrasFolder(d, n) ==
    n = 0 /\ d # Root /\ d \notin DOMAIN library.map /\ ~Folder(d).specials

InnerFolders(d, n, own) ==
    {c \in Subfolders(d) : IF n = 0 THEN ExtrasFolder(d, n)
                           ELSE Folder(c).extras /\ c \notin own}

FolderOrder(q) ==
    LET own == {q[i][1] : i \in DOMAIN q}
        of(d, n) == [j \in DOMAIN VideosIn(d) |-> <<VideosIn(d)[j], n>>]
    IN  Ext!FlattenSeq([i \in DOMAIN q |->
          of(q[i][1], q[i][2]) \o
          Ext!FlattenSeq([k \in 1 .. Cardinality(InnerFolders(q[i][1], q[i][2], own)) |->
             of(Ext!SetToSeq(InnerFolders(q[i][1], q[i][2], own))[k], 0)])])

ReadFolders ==
    /\ scanPhase = "names" /\ unnamed = {}
    /\ \E q \in FolderOrders(SeasonFolders) :
          /\ folders' = q
          /\ LET together == Consolidates(SeasonFolders)
             IN  /\ scanPhase' = IF together THEN "titles" ELSE "normal"
                 /\ reading' = IF together THEN AbsoluteOrder(q) ELSE FolderOrder(q)
                 /\ offered' = IF together THEN UNION {Titled(n) : n \in Listed}
                               ELSE UNION {Slotted(n) : n \in Regular}
    /\ place' = 1
    /\ UNCHANGED <<library, unnamed, used, matched, rows, placed>>

-----------------------------------------------------------------------------
(* The consolidated preview: try_title_based_matching.                     *)

\* The run of a video whose name says season and episodes.
RunFrom(v, s) ==
    LET nums == Video(v).numbers
        last == Ext!Max({k \in DOMAIN nums : \A j \in 2 .. k :
                           /\ nums[j] = nums[j - 1] + 1
                           /\ <<s[1], nums[j]>> \in Titled(s[1])})
    IN  IF Video(v).hint = s[1] /\ nums # <<>> /\ nums[1] = s[2]
        THEN {<<s[1], nums[k]>> : k \in 1 .. last} ELSE {s}

\* title_lookup: of the slots with one title, the first, specials last.
Entitled(v) ==
    LET S == Video(v).exact \cap UNION {Titled(n) : n \in Listed}
        R == {s \in S : s[1] # 0}
    IN  {s \in IF R = {} THEN S ELSE R :
           \A t \in IF R = {} THEN S ELSE R : s[1] < t[1] \/ (s[1] = t[1] /\ s[2] <= t[2])}

\* match_file_title_to_tmdb: the free slot a title names exactly, the one whose
\* title overlaps most, or the only one it resembles.
TitleSlots(v) ==
    LET near == SelectSeq(Video(v).near, LAMBDA s : s \notin used)
        alike == Video(v).alike \ used
    IN  IF Video(v).stem THEN {}
        ELSE IF Entitled(v) \ used # {} THEN Entitled(v)
        ELSE IF near # <<>> THEN {near[1]}
        ELSE IF Cardinality(alike) = 1 THEN alike ELSE {}

\* Phase 2 and 3: the number beside an explicit season, then an absolute number
\* in the only season long enough to hold every file.
LongSeasons == {n \in Regular : library.seasons[n].count >= Len(reading)}
NumberSlots(v) ==
    LET hinted == IF Video(v).hint = NoSeason \/ Video(v).numbers = <<>> THEN {}
                  ELSE ({<<Video(v).hint, Video(v).numbers[1]>>} \cap Titled(Video(v).hint)) \ used
        prefixed == IF Cardinality(LongSeasons) # 1 THEN {}
                    ELSE {s \in UNION {Titled(n) : n \in LongSeasons} :
                            s[2] = Video(v).prefix} \ used
    IN  IF hinted # {} THEN hinted ELSE prefixed

Take(v, S) ==
    IF S = {} THEN UNCHANGED <<matched, used>>
    ELSE /\ matched' = [matched EXCEPT ![v] = UNION {RunFrom(v, s) : s \in S}]
         /\ used' = used \cup UNION {RunFrom(v, s) : s \in S}

Advance(next) ==
    IF place < Len(reading) THEN /\ place' = place + 1
                                 /\ UNCHANGED scanPhase
    ELSE /\ place' = 1
         /\ scanPhase' = next

\* Phase 1: titles only.
ClaimTitle ==
    /\ scanPhase = "titles" /\ reading # <<>>
    /\ Take(reading[place][1], TitleSlots(reading[place][1]))
    /\ Advance("numbers")
    /\ UNCHANGED <<library, unnamed, folders, reading, rows, placed, offered>>

ClaimNumber ==
    /\ scanPhase = "numbers"
    /\ LET v == reading[place][1]
       IN  IF matched[v] # {} THEN UNCHANGED <<matched, used>> ELSE Take(v, NumberSlots(v))
    /\ Advance("decide")
    /\ UNCHANGED <<library, unnamed, folders, reading, rows, placed, offered>>

\* Fewer than half of the files matched: they are mapped in order instead.
Decide ==
    /\ scanPhase = "decide" \/ (scanPhase = "titles" /\ reading = <<>>)
    /\ LET few == \/ UNION {Titled(n) : n \in Listed} = {}
                  \/ 2 * Cardinality({v \in Videos : matched[v] # {}}) < Len(reading)
       IN  /\ scanPhase' = IF reading = <<>> THEN "clusters" ELSE IF few THEN "order" ELSE "place"
           /\ matched' = IF few THEN [v \in Videos |-> {}] ELSE matched
    /\ used' = {}
    /\ UNCHANGED <<library, unnamed, folders, reading, place, rows, placed, offered>>

\* build_consolidated_preview: the next episodes of the listing, as many as the
\* file has numbers.  A run that crosses into the next season is taken for
\* episodes of that season.
Listing == Ext!FlattenSeq([k \in 1 .. Cardinality(Regular) |->
             LET n == Ext!SetToSortSeq(Regular, <)[k]
             IN  [e \in 1 .. library.seasons[n].titled |-> <<n, e>>]])
InOrder(v) ==
    LET first == Cardinality(used) + 1
        many  == Ext!Max({1, Len(Video(v).numbers)})
        next  == SubSeq(Listing, first, Ext!Min({first + many - 1, Len(Listing)}))
    IN  IF Video(v).hint \notin Listed \cup {NoSeason} THEN <<>> ELSE next

MapInOrder ==
    /\ scanPhase = "order"
    /\ LET v == reading[place][1]
           next == InOrder(v)
       IN  IF next = <<>> THEN UNCHANGED <<matched, used>>
           ELSE /\ used' = used \cup Ext!ToSet(next)
                /\ matched' = [matched EXCEPT
                      ![v] = {<<next[Len(next)][1], s[2]>> : s \in Ext!ToSet(next)}]
    /\ Advance("place")
    /\ UNCHANGED <<library, unnamed, folders, reading, rows, placed, offered>>

-----------------------------------------------------------------------------
(* Videos into the table.                                                  *)

IsRun(S) == S # {} /\ \A s, t \in S : s[1] = t[1] /\
                \A e \in s[2] .. t[2] : <<s[1], e>> \in S

\* match_title_in_titles within one season, by falling strength; a title near
\* two of its slots is none.
TitledIn(v, n) ==
    LET Sole(S) == IF Cardinality({s \in S : s[1] = n}) = 1 THEN {s \in S : s[1] = n} ELSE {}
        exact == {s \in Video(v).exact : s[1] = n}
        near == {s \in Ext!ToSet(Video(v).near) : s[1] = n}
    IN  IF exact # {} THEN exact ELSE IF near # {} THEN Sole(near) ELSE Sole(Video(v).alike)

Strength(v, n) ==
    IF TitledIn(v, n) = {} THEN 0
    ELSE IF TitledIn(v, n) \subseteq Video(v).exact THEN 3
    ELSE IF TitledIn(v, n) \subseteq Ext!ToSet(Video(v).near) THEN 2 ELSE 1

\* resolve_file: numbers the title does not contradict, else the title.  A bare
\* file name counts as a title only where there are no numbers.
Resolved(numbers, v, n, S) ==
    LET valid == {<<n, numbers[k]>> : k \in DOMAIN numbers} \cap S
        title == IF Video(v).stem /\ numbers # <<>> THEN {} ELSE TitledIn(v, n) \cap S
    IN  IF valid # {} /\ title \subseteq valid THEN valid ELSE title

AddRow(v, S) ==
    /\ rows' = Append(rows, v)
    /\ placed' = [placed EXCEPT ![v] = IF IsRun(S) THEN S ELSE {}]

\* build_consolidated_table: specials by themselves, mapped files in the season
\* they are mapped to, the rest in the season their names say; a bare file name
\* is looked for among the specials only.
Consolidated(v) ==
    LET m == matched[v]
        n == (CHOOSE s \in m : TRUE)[1]
        hint == Video(v).hint
        bare == Video(v).stem /\ Video(v).numbers = <<>>
        own == IF bare THEN {} ELSE Resolved(Video(v).numbers, v, hint, Titled(hint))
    IN  IF hint = 0 THEN Resolved(Video(v).numbers, v, 0, Titled(0))
        ELSE IF m # {}
        THEN Resolved(Ext!SetToSortSeq({s[2] : s \in m}, <), v, n, Titled(n))
        ELSE IF hint # NoSeason /\ own # {} THEN own
        ELSE IF bare THEN TitledIn(v, 0) \cap Titled(0) ELSE {}

PlaceVideo ==
    /\ scanPhase = "place"
    /\ AddRow(reading[place][1], Consolidated(reading[place][1]))
    /\ Advance("clusters")
    /\ UNCHANGED <<library, unnamed, folders, reading, used, matched, offered>>

\* _resolve_into_table: a title of season 0 wins over one of the folder's season
\* that is weaker, and over explicit numbers only if it is exact and alone.
PulledSpecial(v, n) ==
    LET own == TitledIn(v, n) \cap Slotted(n)
        numbered == {<<n, Video(v).numbers[k]>> : k \in DOMAIN Video(v).numbers}
        explicit == Video(v).hint = n /\ numbered # {} /\ numbered \subseteq Slotted(n)
    IN  IF /\ Video(v).stem => Video(v).numbers = <<>>
           /\ Strength(v, 0) > Strength(v, n)
           /\ explicit => Strength(v, 0) = 3 /\ own = {}
           /\ own = {} \/ ~(own \subseteq numbered)
        THEN TitledIn(v, 0) \cap Titled(0) ELSE {}

\* In an extras folder only an explicit S00 makes a number an episode's.
FromExtras(v) ==
    \/ ExtrasFolder(Video(v).folder, 0)
    \/ \A i \in DOMAIN folders : folders[i][1] # Video(v).folder

Special(v, n) ==
    Resolved(IF n = 0 /\ FromExtras(v) /\ Video(v).hint # 0 THEN <<>> ELSE Video(v).numbers,
             v, 0, Titled(0))

Normal(v, n) ==
    IF Video(v).companion THEN {}
    ELSE IF n = 0 \/ Video(v).hint = 0 THEN Special(v, n)
    ELSE IF PulledSpecial(v, n) # {} THEN PulledSpecial(v, n)
    ELSE Resolved(Video(v).numbers, v, n, Slotted(n))

ReadVideo ==
    /\ scanPhase = "normal" /\ reading # <<>>
    /\ AddRow(reading[place][1], Normal(reading[place][1], reading[place][2]))
    /\ offered' = offered \cup Titled(0)    \* ensure_s0_titles
    /\ Advance("done")
    /\ UNCHANGED <<library, unnamed, folders, reading, used, matched>>

ReadNothing ==
    /\ scanPhase = "normal" /\ reading = <<>>
    /\ scanPhase' = "done"
    /\ UNCHANGED <<library, unnamed, folders, reading, place, used, matched, rows, placed, offered>>

-----------------------------------------------------------------------------
(* apply_air_date_cluster_mapping: season N of the folder names stands for *)
(* the Nth airing run of the only season listed.                           *)

Only == CHOOSE n \in Regular : TRUE
Clusters ==
    IF Cardinality(Regular) # 1 \/ ~library.dated THEN <<>>
    ELSE LET last == library.seasons[Only].titled
             starts == Ext!SetToSortSeq({1} \cup library.breaks, <)
             until(k) == IF k = Len(starts) THEN last ELSE starts[k + 1] - 1
         IN  [k \in DOMAIN starts |-> [j \in 1 .. until(k) - starts[k] + 1 |-> starts[k] + j - 1]]

Clustered == IF Len(Clusters) < 2 THEN {}
             ELSE {v \in Ext!ToSet(rows) : /\ placed[v] = {}
                                           /\ Video(v).hint \notin Listed \cup {0, NoSeason}
                                           /\ Video(v).numbers # <<>>
                                           /\ Video(v).hint <= Len(Clusters)}

ClusterSlots(v) ==
    LET cluster == Clusters[Video(v).hint]
        first == Video(v).numbers[1]
        last == first + Len(Video(v).numbers) - 1
    IN  IF first < 1 \/ last > Len(cluster) THEN {}
        ELSE {<<Only, cluster[k]>> : k \in first .. last}

\* The videos of one folder season by their first numbers; used holds the claims.
BeginClusters ==
    /\ scanPhase = "clusters"
    /\ scanPhase' = "cluster"
    /\ reading' = SelectSeq(reading, LAMBDA p : p[1] \in Clustered)
    /\ used' = UNION {placed[v] : v \in Videos}
    /\ UNCHANGED <<library, unnamed, folders, place, matched, rows, placed, offered>>

\* Mutant: the slots just given are not added to the claimed ones.
NextClaimed(S) == used

Claimed(S) == used \cup S

ClaimCluster ==
    /\ scanPhase = "cluster" /\ reading # <<>>
    /\ LET v == Head(reading)[1]
           S == IF ClusterSlots(v) \cap used = {} THEN ClusterSlots(v) ELSE {}
       IN  /\ placed' = [placed EXCEPT ![v] = S]
           /\ used' = Claimed(S)
    /\ reading' = Tail(reading)
    /\ UNCHANGED <<library, scanPhase, unnamed, folders, place, matched, rows, offered>>

EndClusters ==
    /\ scanPhase = "cluster" /\ reading = <<>>
    /\ scanPhase' = "done"
    /\ UNCHANGED <<library, unnamed, folders, reading, place, used, matched, rows, placed, offered>>

-----------------------------------------------------------------------------

ScanInit ==
    /\ library \in Libraries
    /\ scanPhase = "open"
    /\ unnamed = {} /\ folders = {}
    /\ reading = <<>> /\ place = 1
    /\ used = {} /\ offered = {}
    /\ matched = [v \in Videos |-> {}]
    /\ placed = [v \in Videos |-> {}]
    /\ rows = <<>>

ScanNext ==
    \/ OpenFolder \/ ReadFolders
    \/ \E d \in unnamed : MatchName(d)
    \/ ClaimTitle \/ ClaimNumber \/ Decide \/ MapInOrder \/ PlaceVideo
    \/ BeginClusters \/ ClaimCluster \/ EndClusters
    \/ ReadVideo \/ ReadNothing

TVScanSpec == ScanInit /\ [][ScanNext]_scanVars

-----------------------------------------------------------------------------

Slots == UNION {Slotted(n) \cup Titled(n) : n \in Listed}

\* The table assigns episodes it offers only, to videos it has listed, each once:
\* no folder is read twice, not even the extras of a season that are a season
\* folder too (build_normal_table, season_dir_paths).
TVScanTypeOK ==
    /\ used \subseteq Slots
    /\ \A i, j \in DOMAIN rows : rows[i] = rows[j] => i = j
    /\ \A v \in Videos :
          /\ matched[v] \subseteq Slots
          /\ placed[v] # {} => IsRun(placed[v]) /\ v \in Ext!ToSet(rows)
          /\ placed[v] \subseteq offered

\* A season is given to one folder by the likeness of its name, and to none where
\* a folder has its number (match_tv_dirs_to_tmdb_seasons).
NamedSeasonsDistinct ==
    scanPhase = "names" /\ library.map = <<>> =>
        \A p, q \in folders : p[2] = q[2] /\ p # q =>
            \/ Folder(p[1]).year \/ Folder(q[1]).year
            \/ {Folder(p[1]).season, Folder(q[1]).season} = {p[2]}

\* A file never takes by its number what another file has by its title: all the
\* titles are matched before any number (try_title_based_matching, "a mis-numbered
\* file can't squat on a slot a genuinely-titled file owns").
TitlesFirst ==
    scanPhase = "decide" =>
        \A v \in Videos :
            (reading # <<>> /\ ~Video(v).stem /\ Entitled(v) # {} /\ matched[v] = {}) =>
                \E w \in Videos :
                    /\ Entitled(v) \subseteq matched[w]
                    /\ matched[w] \cap (Video(w).exact \cup Ext!ToSet(Video(w).near)
                                        \cup Video(w).alike) # {}

\* What is inferred from air dates takes no slot from a file with a claim, nor
\* from one just inferred (apply_air_date_cluster_mapping).
ClustersLeaveClaims ==
    [][scanPhase = "cluster" =>
         \A v, w \in Videos : (v # w /\ placed'[v] # placed[v]) => placed'[v] \cap placed[w] = {}]_scanVars
=============================================================================
