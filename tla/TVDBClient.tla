----------------------------- MODULE TVDBClient -----------------------------
(***************************************************************************)
(* The TVDB client (tvdb.py, _tvdb_payloads.py): a show's details, its      *)
(* episode pages and its season map, remembered by the client and, the     *)
(* first two, kept in the persistent cache; read by pool workers while the *)
(* main window may drop the client for a new one (_main_window_tmdb.py).   *)
(*                                                                         *)
(* One show of some number of pages.  An episode list is the number of     *)
(* pages it holds, details the list they count; None is nothing.  What a   *)
(* request brings is external: an answer or a failure.                     *)
(***************************************************************************)
EXTENDS Naturals, FiniteSets

CONSTANTS
    Workers,   \* threads that read the provider
    Pages,     \* pages the show's episodes come in
    None,      \* nothing
    MaxDrops,  \* bound on the clients dropped
    MaxReads   \* bound on the reads of a worker

VARIABLES
    client,  \* the current client, by number
    memory,  \* what the current client remembers
    kept,    \* what the persistent cache keeps
    read,    \* worker -> its read
    reads,   \* worker -> reads begun
    told     \* worker -> what its last read told

tvdbVars == <<client, memory, kept, read, reads, told>>

Forgotten == [details |-> None, episodes |-> None, map |-> None, aliases |-> None]
Idle      == [pc |-> "idle"]

TvdbInit ==
    /\ client = 1 /\ memory = Forgotten
    /\ kept = [details |-> None, episodes |-> None]
    /\ read = [w \in Workers |-> Idle] /\ reads = [w \in Workers |-> 0]
    /\ told = [w \in Workers |-> None]

\* A worker's client remembers only while it is the current one.
Remember(w, what, value) ==
    memory' = IF read[w].client = client THEN [memory EXCEPT ![what] = value] ELSE memory
Keep(what, value) == kept' = [kept EXCEPT ![what] = value]

Known(w, what) == IF read[w].client = client THEN memory[what] ELSE None

\* The read is over and told something.
Tell(w, value) ==
    /\ told' = [told EXCEPT ![w] = value] /\ read' = [read EXCEPT ![w] = Idle]

Goto(w, pc) == read' = [read EXCEPT ![w].pc = pc] /\ UNCHANGED told

-----------------------------------------------------------------------------

\* A worker reads the details, the aliases (which are of the details) or the
\* season map.
Read(w) ==
    /\ read[w].pc = "idle" /\ reads[w] < MaxReads
    /\ reads' = [reads EXCEPT ![w] = @ + 1]
    /\ \E what \in {"details", "aliases", "map"} :
           read' = [read EXCEPT ![w] = [pc |-> what, what |-> what, client |-> client, pages |-> 0]]
    /\ UNCHANGED <<client, memory, kept, told>>

\* get_tv_details ends: the aliases are remembered even when there were none.
Answer(w, value) ==
    /\ IF read[w].what = "aliases"
       THEN Remember(w, "aliases", value)
       ELSE UNCHANGED memory
    /\ Tell(w, value)

\* get_alternative_titles: remembered, or taken from the details.
Aliases(w) ==
    /\ read[w].pc = "aliases"
    /\ IF Known(w, "aliases") # None THEN Tell(w, memory.aliases) ELSE Goto(w, "details")
    /\ UNCHANGED <<client, memory, kept, reads>>

\* get_tv_details: remembered, kept, or to be fetched.
Details(w) ==
    /\ read[w].pc = "details"
    /\ IF Known(w, "details") # None
       THEN Answer(w, memory.details)
       ELSE IF kept.details # None
       THEN /\ memory' = IF read[w].client # client THEN memory
                         ELSE [memory EXCEPT !.details = kept.details,
                                             !.aliases = IF read[w].what = "aliases"
                                                         THEN kept.details ELSE @]
            /\ Tell(w, kept.details)
       ELSE UNCHANGED memory /\ Goto(w, "fetch")
    /\ UNCHANGED <<client, kept, reads>>

\* The details are fetched: nothing at all when that fails.
FetchDetails(w) ==
    /\ read[w].pc = "fetch"
    /\ \/ Goto(w, "episodes") /\ UNCHANGED memory
       \/ Answer(w, 0)
    /\ UNCHANGED <<client, kept, reads>>

\* The walk of the pages has a list.
Listed(w, list, pc) == read' = [read EXCEPT ![w].pc = pc, ![w].pages = list] /\ UNCHANGED told

\* _fetch_all_episodes: remembered, kept, or page by page.
Episodes(w) ==
    /\ read[w].pc = "episodes"
    /\ IF Known(w, "episodes") # None
       THEN UNCHANGED memory /\ Listed(w, memory.episodes, "settle")
       ELSE IF kept.episodes # None
       THEN Remember(w, "episodes", kept.episodes) /\ Listed(w, kept.episodes, "settle")
       ELSE UNCHANGED memory /\ Goto(w, "page")
    /\ UNCHANGED <<client, kept, reads>>

\* A page comes, or does not and ends the list as if it were the last.
Page(w) ==
    LET n == read[w].pages
    IN  /\ read[w].pc = "page"
        /\ \/ n + 1 < Pages /\ Listed(w, n + 1, "page")
           \/ n + 1 = Pages /\ Listed(w, Pages, "list")
           \/ Listed(w, n, "list")
        /\ UNCHANGED <<client, memory, kept, reads>>

\* A list just fetched is remembered and kept, before its details are.
KeepList(w) ==
    /\ read[w].pc = "list"
    /\ Remember(w, "episodes", read[w].pages) /\ Keep("episodes", read[w].pages)
    /\ Goto(w, "settle")
    /\ UNCHANGED <<client, reads>>

\* The details with the list they count are remembered and kept.
Settle(w) ==
    LET list == read[w].pages
    IN  /\ read[w].pc = "settle"
        /\ Keep("details", list)
        /\ memory' = IF read[w].client # client THEN memory
                     ELSE [memory EXCEPT !.details = list,
                                         !.aliases = IF read[w].what = "aliases" THEN list ELSE @]
        /\ Tell(w, list)
        /\ UNCHANGED <<client, reads>>

\* get_season_map: remembered, or from details and pages fetched anew.
SeasonMap(w) ==
    /\ read[w].pc = "map"
    /\ IF Known(w, "map") # None THEN Tell(w, memory.map)
       ELSE Goto(w, "strict") \/ Tell(w, None)
    /\ UNCHANGED <<client, memory, kept, reads>>

\* fetch_all_episodes_strict: a page that fails or is malformed ends the read
\* without a map.
StrictPage(w) ==
    LET n == read[w].pages
    IN  /\ read[w].pc = "strict"
        /\ \/ n + 1 < Pages /\ read' = [read EXCEPT ![w].pages = n + 1] /\ UNCHANGED <<memory, told>>
           \/ n + 1 = Pages /\ Remember(w, "map", Pages) /\ Tell(w, Pages)
           \/ UNCHANGED memory /\ Tell(w, None)
        /\ UNCHANGED <<client, kept, reads>>

\* The window drops its clients (a key or the language changed, or the TMDB
\* cache was cleared, which leaves what is kept of TVDB) and makes new ones.
DropClient ==
    /\ client <= MaxDrops
    /\ client' = client + 1 /\ memory' = Forgotten
    /\ UNCHANGED <<kept, read, reads, told>>

\* What is kept expires, or is pruned.
Evict ==
    /\ \E what \in {"details", "episodes"} : kept[what] # None /\ Keep(what, None)
    /\ UNCHANGED <<client, memory, read, reads, told>>

TvdbNext ==
    \/ \E w \in Workers :
           \/ Read(w) \/ Aliases(w) \/ Details(w) \/ FetchDetails(w) \/ Episodes(w)
           \/ Page(w) \/ KeepList(w) \/ Settle(w) \/ SeasonMap(w) \/ StrictPage(w)
    \/ DropClient \/ Evict

TvdbSpec == TvdbInit /\ [][TvdbNext]_tvdbVars

-----------------------------------------------------------------------------
(* Properties.                                                             *)

\* A season map holds every page of the show's episodes or is not there: no
\* failed request, other reader or dropped client leaves part of one.
SeasonMapWhole == memory.map \in {None, Pages}

\* search_tv: "`_fetch_all_episodes` below, which must walk every page to build a
\* complete season map".  The list that is kept is the whole list.
\* It does not hold; the README tells how.
EveryPageWalked == kept.episodes \in {None, Pages}
=============================================================================
