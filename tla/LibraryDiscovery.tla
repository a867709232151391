--------------------------- MODULE LibraryDiscovery ---------------------------
(***************************************************************************)
(* Which folders below a library are shows or movies                       *)
(* (app/services/tv_library_discovery_service.py and                       *)
(* movie_library_discovery_service.py): a walk of the folder tree that     *)
(* classifies each folder by its direct children, stops at what it takes   *)
(* for a root and descends into containers.  Links are followed; a folder  *)
(* is visited once, under the first path that leads to it, and what differs *)
(* from it in case only is taken for it.                                   *)
(*                                                                         *)
(* What a name says (season, extras, system, year) and how many videos a   *)
(* folder holds is data.  A folder that cannot be listed is one with       *)
(* nothing in it, an entry that cannot be examined is absent, as in        *)
(* scan_children; what is listed as a folder can be resolved.  The walk    *)
(* takes sibling folders in name order; here the order is left open.       *)
(***************************************************************************)
EXTENDS Naturals, Sequences, FiniteSets

CONSTANTS
    Trees,          \* libraries: functions from folders to what they are
    LibraryRoot,    \* the folder that was chosen
    Unnumbered      \* the name says no season

VARIABLES
    tree,           \* the library
    kind,           \* "tv" or "movie"
    frontier,       \* paths still to be walked; a path is a sequence of folders
    visited,        \* canonical folders walked
    candidates      \* paths of the roots found

discoveryVars == <<tree, kind, frontier, visited, candidates>>

Folders == DOMAIN tree
\* resolve(): a link stands for the folder it leads to, by its own name.
Resolved(n) == tree[n].target
\* _canonical_path: resolve() and casefold(), for all paths of one spelling a
\* single folder.
Canonical(n) == tree[Resolved(n)].folded
Last(p) == p[Len(p)]
Ignored(n) == tree[n].system
SubfoldersOf(n) == {c \in Folders \ {LibraryRoot} : tree[c].parent = Resolved(n)}
Inner(n) == {c \in SubfoldersOf(n) : ~Ignored(c)}

VideoCount(n) == tree[Resolved(n)].episodes + tree[Resolved(n)].others
\* looks_like_tv_episode: by the file's name or that of its folder, which hints at
\* episodes if it has the word or S and digits; a bare number is a season
\* (get_season) but no hint, and S2014 a hint but no season.
EpisodeCount(n) ==
    IF tree[n].hints \/ tree[n].extras THEN VideoCount(n) ELSE tree[Resolved(n)].episodes

-----------------------------------------------------------------------------
(* TVDirectoryClassifier.                                                  *)

Majority(A, B) == 2 * Cardinality(A) > Cardinality(A \cup B)

\* season_children_are_majority and year_season_children_are_majority.
SeasonChildrenCounted(n) == {c \in Inner(n) : ~tree[c].extras /\ tree[c].season # 0}
SeasonMajority(n) ==
    Majority({c \in SeasonChildrenCounted(n) : tree[c].season # Unnumbered /\ tree[c].ofParent},
             SeasonChildrenCounted(n))
YearMajority(n) == Majority({c \in SeasonChildrenCounted(n) : tree[c].year}, SeasonChildrenCounted(n))

\* counts_as_season_subdir: a numbered folder with episodes, or with videos and
\* nothing but extras below.
CountsAsSeason(c) ==
    /\ tree[c].season # Unnumbered
    /\ \/ EpisodeCount(c) > 0
       \/ VideoCount(c) > 0 /\ \A g \in Inner(c) : tree[g].extras

SeasonSubdirs(n)   == {c \in Inner(n) : CountsAsSeason(c) /\ tree[c].season # 0}
SpecialsSubdirs(n) == {c \in Inner(n) : CountsAsSeason(c) /\ tree[c].season = 0}
OtherSubdirs(n)    == Inner(n) \ (SeasonSubdirs(n) \cup SpecialsSubdirs(n))

\* An extras folder is a season of specials if its files say so.
IsExtras(n) == tree[n].extras /\ ~tree[Resolved(n)].specials

\* A season's name and nothing that would make more of it.
IsSeasonFolder(n) ==
    /\ tree[n].season # Unnumbered
    /\ ~(tree[n].season = 0 /\ VideoCount(n) > 0)
    /\ EpisodeCount(n) = 0
    /\ \A c \in Inner(n) : tree[c].extras

IsShowRoot(n) ==
    \/ SeasonSubdirs(n) # {}
    \/ EpisodeCount(n) > 0
    \/ tree[n].season = 0 /\ VideoCount(n) > 0
    \/ VideoCount(n) > 2
    \/ Inner(n) # {} /\ YearMajority(n)

HasSeasonSubdirs(n) ==
    \/ SeasonSubdirs(n) # {}
    \/ SpecialsSubdirs(n) # {} /\ EpisodeCount(n) > 0
    \/ /\ VideoCount(n) <= 2 /\ EpisodeCount(n) = 0 /\ YearMajority(n)
       /\ ~(tree[n].season = 0 /\ VideoCount(n) > 0)

\* A container's folders; at this point it has no regular season below.
ContainedFolders(n) == OtherSubdirs(n) \cup SpecialsSubdirs(n)

ShowRole(n) ==
    IF Ignored(n) THEN "ignored"
    ELSE IF IsExtras(n) \/ IsSeasonFolder(n) THEN "leaf"
    ELSE IF IsShowRoot(n) THEN "root"
    ELSE IF ContainedFolders(n) # {} THEN "container" ELSE "leaf"

-----------------------------------------------------------------------------
(* MovieDirectoryClassifier.                                               *)

MovieFolders(n) == {c \in Inner(n) : ~tree[c].extras}

MovieRole(n) ==
    LET movies == VideoCount(n) - EpisodeCount(n)
    IN  IF Ignored(n) THEN "ignored"
        ELSE IF \/ tree[n].extras \/ tree[n].season # Unnumbered
                \/ \E c \in MovieFolders(n) : tree[c].season # Unnumbered
                \/ 2 * EpisodeCount(n) > VideoCount(n) THEN "leaf"
        ELSE IF movies > 2 \/ (movies > 0 /\ EpisodeCount(n) = 0) THEN "root"
        ELSE IF MovieFolders(n) # {} /\ movies = 0 THEN "container" ELSE "leaf"

Role(n) == IF kind = "tv" THEN ShowRole(n) ELSE MovieRole(n)
Descent(n) == IF kind = "tv" THEN ContainedFolders(n) ELSE MovieFolders(n)

-----------------------------------------------------------------------------
(* The walk.                                                               *)

\* discover_show_roots: the chosen folder is the only show, if most of its
\* folders are its seasons or its videos are all it has.
RootIsShow ==
    /\ kind = "tv" /\ ShowRole(LibraryRoot) = "root"
    /\ IF HasSeasonSubdirs(LibraryRoot)
       THEN SeasonMajority(LibraryRoot) \/ YearMajority(LibraryRoot)
       ELSE EpisodeCount(LibraryRoot) > 0

DiscoveryInit ==
    /\ tree \in Trees
    /\ kind \in {"tv", "movie"}
    /\ visited = {}
    /\ candidates = IF RootIsShow THEN {<<LibraryRoot>>} ELSE {}
    /\ frontier = IF RootIsShow \/ (kind = "tv" /\ Ignored(LibraryRoot)) THEN {}
                  ELSE {<<c>> : c \in SubfoldersOf(LibraryRoot)}

\* Mutant: a folder is known by its path.
KnownByName(p) == \E q \in visited : q = Last(p)

Known(p) == Canonical(Last(p)) \in visited

\* _walk_directory.
Walk(p) ==
    /\ p \in frontier
    /\ visited' = visited \cup {Canonical(Last(p))}
    /\ candidates' = IF ~Known(p) /\ Role(Last(p)) = "root" THEN candidates \cup {p} ELSE candidates
    /\ frontier' = (frontier \ {p}) \cup
          IF ~Known(p) /\ Role(Last(p)) = "container"
          THEN {Append(p, c) : c \in Descent(Last(p))} ELSE {}
    /\ UNCHANGED <<tree, kind>>

DiscoveryNext == \E p \in frontier : Walk(p)

DiscoverySpec == DiscoveryInit /\ [][DiscoveryNext]_discoveryVars

-----------------------------------------------------------------------------

DiscoveryTypeOK ==
    /\ kind \in {"tv", "movie"}
    /\ visited \subseteq Folders
    /\ \A p \in frontier \cup candidates : Len(p) \in 1 .. Cardinality(Folders) /\ p \in Seq(Folders)

\* No show and no movie is found twice, whatever links lead to it: its files
\* would be renamed by two jobs (visited_paths).
RootsDistinct ==
    \A p, q \in candidates : Canonical(Last(p)) = Canonical(Last(q)) => p = q

\* The folder and those above it up to the library, as they are on disk.
Closed(S) == \A d \in S \ {LibraryRoot} : tree[d].parent \in S
Above(n)  == {d \in Folders : \A S \in SUBSET Folders : n \in S /\ Closed(S) => d \in S}

\* Every folder with episodes of its own is a show that is found or lies in one,
\* unless it or a folder above it is a system's, holds extras, or is a folder of
\* specials in a season without episodes (which is taken for an empty season).
\* Not so for the library's own episodes, nor for a folder that links lead to or
\* that another differs from in case only: it is judged as the one first met.
EpisodesReached ==
    (kind = "tv" /\ frontier = {}) =>
        \A n \in Folders \ {LibraryRoot} :
            \/ EpisodeCount(n) = 0 \/ \E a \in Above(n) : Ignored(a)
            \/ \E a \in Above(n) \ {LibraryRoot} :
                  \/ \E l \in Folders \ {a} : Canonical(l) = Canonical(a)
                  \/ Resolved(a) # a \/ IsExtras(a)
                  \/ tree[a].extras /\ IsSeasonFolder(tree[a].parent)
            \/ \E p \in candidates : Resolved(Last(p)) \in Above(n)
=============================================================================
