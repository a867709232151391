----------------------------- MODULE EpisodeTable -----------------------------
(***************************************************************************)
(* The episode table of the selected show, the guides it is made of, and   *)
(* the overview above it (gui_qt/widgets/_episode_table_model.py,          *)
(* _work_panel.py, app/services/episode_projection_cache.py).              *)
(*                                                                         *)
(* A guide is read off a show's rows in the pool while the GUI thread      *)
(* edits, rematches and selects, and while another pool thread scans the   *)
(* show again.  What comes back does so as events of the GUI thread.       *)
(***************************************************************************)
EXTENDS Naturals, FiniteSets, Sequences

LOCAL Ext == INSTANCE SequencesExt

CONSTANTS
    Shows,          \* the cards of the roster
    Matches,        \* what the provider may say a show is
    Previews,       \* what a scan or an edit may make of a show's files
    MaxRenders,     \* bound: guide tokens drawn
    MaxRescans,     \* bound: rematches
    MaxMoves        \* bound: what else the user does

Nothing == "nothing"
Empty   == [rows |-> <<>>, unmapped |-> 0, duplicates |-> 0, orphans |-> 0]
MissingFile == "Missing File"

VARIABLES
    content,    \* show -> its rows; Empty before a scan and while one runs
    matched,    \* show -> its match
    scanning,   \* show -> a worker has begun to scan it again
    failed,     \* show -> scan_error
    cache,      \* <<show, match>> -> a guide and the signature it goes by
    shown,      \* the show in the panel
    renders,    \* _guide_token
    table,      \* what the table displays: "none", "loading", "error" or "guide"
    guide,      \* _guide
    entries,    \* the rows displayed
    expanded,   \* _expanded_row
    problems,   \* the filter shows problems only
    collapsed,  \* show -> its collapsed seasons
    autoDone,   \* show -> seasons collapsed once because all files are missing
    builders,   \* token -> a guide being built in the pool
    rescans,    \* pool threads scanning a show again
    events,     \* events the GUI thread has still to handle, in order
    overviews,  \* match -> overview: _overview_cache
    loading,    \* overviews asked for: _loading_tokens
    overview,   \* the overview displayed: a match's, or an episode's
    series,     \* _series_overview_text
    episodeUp,  \* _episode_overview_active
    moves,      \* what the user did
    relapsed    \* history: shows whose rows became again what a guide of others goes by

showVars     == <<content, matched, scanning, failed>>
modelVars    == <<shown, renders, table, guide, entries, expanded, problems, collapsed, autoDone>>
overviewVars == <<overviews, loading, overview, series, episodeUp>>
tableVars    == <<showVars, cache, modelVars, builders, rescans, events, overviewVars, moves,
                  relapsed>>

-----------------------------------------------------------------------------
(* EpisodeProjectionCacheService.                                           *)

Key(s)       == <<s, matched[s]>>
Signature(s) == <<matched[s], content[s]>>
\* cached_guide_for_state.
Hit(s) == /\ Key(s) \in DOMAIN cache
          /\ cache[Key(s)].signature = Signature(s)

Stored(k, signature, built) ==
    [x \in DOMAIN cache \cup {k} |-> IF x = k THEN [signature |-> signature, guide |-> built]
                                     ELSE cache[x]]
Without(k) == [x \in DOMAIN cache \ {k} |-> cache[x]]

-----------------------------------------------------------------------------
(* The entries made of a guide: _build_tv_entries.                          *)

Entry(kind, row) == [kind |-> kind, row |-> row]
Repeat(e, n) == [i \in 1 .. n |-> e]

\* Seasons are sections, in order; a guide lists rows by season and episode.
SeasonsOf(rows) == Ext!SetToSortSeq({rows[i].season : i \in DOMAIN rows}, <)
RowsOf(rows, n) == SelectSeq(rows, LAMBDA r : r.season = n)
AllMissing(rows, n) == \A i \in DOMAIN rows : rows[i].season = n => rows[i].status = MissingFile
Visible(g, only) == IF only THEN SelectSeq(g.rows, LAMBDA r : r.status # "Mapped") ELSE g.rows

AutoCollapsed(g, only, done) ==
    {n \in Ext!Range(SeasonsOf(Visible(g, only))) : AllMissing(g.rows, n)} \ done

Section(g, only, n, closed) ==
    <<Entry("section-header", n)>>
    \o IF n \in closed THEN <<>>
       ELSE [i \in DOMAIN RowsOf(Visible(g, only), n) |->
               Entry("episode", RowsOf(Visible(g, only), n)[i])]

Labelled(kind, n) == IF n = 0 THEN <<>> ELSE <<Entry("section-label", kind)>> \o Repeat(Entry(kind, kind), n)

TableEntries(g, only, closed) ==
    (IF /\ only /\ g.unmapped > 0
        /\ \A i \in DOMAIN g.rows : g.rows[i].status \notin {"Review", "Conflict"}
     THEN <<Entry("bulk-hint", Nothing)>> ELSE <<>>)
    \o Labelled("unmapped", g.unmapped)
    \o Labelled("duplicate", g.duplicates)
    \o Ext!FlattenSeq([i \in DOMAIN SeasonsOf(Visible(g, only)) |->
          Section(g, only, SeasonsOf(Visible(g, only))[i], closed)])
    \o Labelled("orphan", g.orphans)

-----------------------------------------------------------------------------
(* Rendering: show_state and _rebuild resolve the guide, every time under a *)
(* new token, and let go of the expanded row.                               *)

RenderGuide(s, g, only, closed) ==
    LET auto == AutoCollapsed(g, only, autoDone[s])
    IN  /\ table' = "guide" /\ guide' = g
        /\ collapsed' = [collapsed EXCEPT ![s] = closed \cup auto]
        /\ autoDone' = [autoDone EXCEPT ![s] = @ \cup auto]
        /\ entries' = TableEntries(g, only, closed \cup auto)

\* beginResetModel drops the editors.
ExpandedAfter == 0

\* A guide builder is put in the pool when the cache has none to show.
Render(s, only, closed, peek, shows) ==
    /\ shown' = s /\ problems' = only
    /\ expanded' = ExpandedAfter
    /\ IF s = Nothing \/ failed'[s]
       THEN /\ table' = IF s = Nothing THEN "none" ELSE "error"
            /\ guide' = Empty /\ entries' = <<>>
            /\ collapsed' = IF s = Nothing THEN collapsed ELSE [collapsed EXCEPT ![s] = closed]
            /\ UNCHANGED <<renders, autoDone, builders>>
       ELSE /\ renders < MaxRenders
            /\ renders' = renders + 1
            /\ LET k == <<s, matched'[s]>>
                   signature == <<matched'[s], shows[s]>>
               IN  IF k \in DOMAIN peek /\ peek[k].signature = signature
                   THEN RenderGuide(s, peek[k].guide, only, closed) /\ UNCHANGED builders
                   ELSE /\ table' = "loading" /\ guide' = Empty
                        /\ entries' = <<Entry("section-label", "loading"), Entry("skeleton", Nothing)>>
                        /\ builders' = builders \cup {[show |-> s, token |-> renders', pc |-> "sign",
                                                       signature |-> <<>>]}
                        /\ collapsed' = [collapsed EXCEPT ![s] = closed]
                        /\ UNCHANGED autoDone

\* _request_overview, after show_state took the header back from an episode.
HeaderFor(s) ==
    /\ episodeUp' = FALSE
    /\ UNCHANGED overviews
    /\ LET m == matched'[s]
       IN  IF m \in DOMAIN overviews
           THEN overview' = overviews[m] /\ series' = overviews[m] /\ UNCHANGED loading
           ELSE loading' = loading \cup {m} /\ UNCHANGED <<overview, series>>

\* show_in_work_panel, as selections and refreshes have it.
Populate(s) == Render(s, problems, collapsed[s], cache', content') /\ HeaderFor(s)

-----------------------------------------------------------------------------
EpisodeTableInit ==
    /\ content \in [Shows -> Previews \ {Empty}]
    /\ matched \in [Shows -> Matches]
    /\ scanning = [s \in Shows |-> FALSE]
    /\ failed = [s \in Shows |-> FALSE]
    \* a batch scan prepares the guides of what it scanned
    /\ \E prepared \in SUBSET Shows :
          cache = [k \in {<<s, matched[s]>> : s \in prepared} |->
                     [signature |-> Signature(k[1]), guide |-> content[k[1]]]]
    /\ shown = Nothing /\ renders = 0
    /\ table = "none" /\ guide = Empty /\ entries = <<>> /\ expanded = 0 /\ problems = FALSE
    /\ collapsed = [s \in Shows |-> {}] /\ autoDone = [s \in Shows |-> {}]
    /\ builders = {} /\ rescans = {} /\ events = <<>>
    \* overviews of an earlier visit may be there
    /\ overviews \in {<<>>, [m \in Matches |-> m]}
    /\ loading = {} /\ overview = Nothing /\ series = Nothing
    /\ episodeUp = FALSE /\ moves = 0 /\ relapsed = {}

-----------------------------------------------------------------------------
(* The user. *)

\* on_roster_state_selected.
SelectShow(s) ==
    /\ s # shown
    /\ UNCHANGED <<showVars, cache, rescans, events>>
    /\ Populate(s)

\* set_filter_mode rebuilds, and the workspace populates once more.
FilterChanged ==
    /\ shown # Nothing
    /\ UNCHANGED <<showVars, cache, rescans, events>>
    /\ Render(shown, ~problems, collapsed[shown], cache, content)
    /\ HeaderFor(shown)

\* A section's header is clicked: toggle_section rebuilds.
ToggleSection(i) ==
    /\ entries[i].kind = "section-header"
    /\ LET n == entries[i].row
           closed == collapsed[shown]
       IN  /\ UNCHANGED <<showVars, cache, rescans, events, overviewVars>>
           /\ Render(shown, problems, IF n \in closed THEN closed \ {n} ELSE closed \cup {n},
                     cache, content)

\* An expanded row's overview replaces the show's: set_episode_overview.
Expand(i) ==
    /\ entries[i].kind = "episode" /\ entries[i].row.status # MissingFile
    /\ expanded # i
    /\ expanded' = i
    /\ LET back == IF expanded # 0 /\ episodeUp THEN series ELSE overview
       IN  series' = IF expanded = 0 /\ episodeUp THEN series ELSE back
    /\ overview' = "episode" /\ episodeUp' = TRUE
    /\ UNCHANGED <<showVars, cache, shown, renders, table, guide, entries, problems, collapsed,
                   autoDone, builders, rescans, events, overviews, loading>>

\* _close_expansion.
Collapse ==
    /\ expanded # 0
    /\ expanded' = 0 /\ episodeUp' = FALSE
    /\ overview' = IF episodeUp THEN series ELSE overview
    /\ UNCHANGED <<showVars, cache, shown, renders, table, guide, entries, problems, collapsed,
                   autoDone, builders, rescans, events, overviews, loading, series>>

\* Every edit of the mapping ends with the guide refreshed and the table shown anew.
Edit ==
    /\ shown # Nothing /\ ~scanning[shown] /\ content[shown] # Empty
    /\ \E p \in Previews \ {Empty, content[shown]} :
          /\ content' = [content EXCEPT ![shown] = p]
          /\ cache' = Stored(Key(shown), <<matched[shown], p>>, p)
    /\ UNCHANGED <<matched, scanning, failed, rescans, events>>
    /\ Populate(shown)

\* Fix Match is disabled when the action bar is next updated during a scan.
CanRematch == scanning[shown] => \E i \in DOMAIN events : events[i].kind = "library_changed"

\* apply_selected_match, finish_tv_rematch, and scan_show.
Rematch(m) ==
    /\ shown # Nothing /\ CanRematch
    /\ Cardinality(rescans) < MaxRescans
    /\ matched' = [matched EXCEPT ![shown] = m]
    /\ content' = [content EXCEPT ![shown] = Empty]
    /\ failed' = [failed EXCEPT ![shown] = FALSE]
    /\ UNCHANGED <<scanning, events>>
    /\ Render(shown, problems, collapsed[shown], Without(Key(shown)), content')
    /\ HeaderFor(shown)
    /\ cache' = [k \in DOMAIN cache \ {Key(shown), <<shown, m>>} |-> cache[k]]
    /\ rescans' = rescans \cup {[id |-> Cardinality(rescans), show |-> shown, pc |-> "begin",
                                signature |-> <<>>, built |-> Empty]}

-----------------------------------------------------------------------------
(* Pool threads. *)

\* build_guide_with_signature: the signature is taken first.  What the builder
\* reads while the rows change under it may make it fail.
BuildGuide(b) ==
    \/ /\ b.pc = "sign"
       /\ builders' = (builders \ {b}) \cup
            {[b EXCEPT !.pc = "build", !.signature = Signature(b.show)]}
       /\ UNCHANGED events
    \/ /\ b.pc = "build"
       /\ builders' = builders \ {b}
       /\ events' = Append(events, [kind |-> "guide_ready", show |-> b.show, token |-> b.token,
                                    signature |-> b.signature, built |-> content[b.show]])
    \/ /\ b.pc = "build"
       /\ builders' = builders \ {b}
       /\ events' = Append(events, [kind |-> "guide_failed", show |-> b.show, token |-> b.token])

Building ==
    /\ \E b \in builders : BuildGuide(b)
    /\ UNCHANGED <<showVars, cache, modelVars, rescans, overviewVars>>

\* get_tv_details fails as an empty overview.
LoadOverview(m) ==
    /\ m \in loading
    /\ \A i \in DOMAIN events : events[i].kind = "overview_ready" => events[i].match # m
    /\ \E text \in {m, Nothing} :
          events' = Append(events, [kind |-> "overview_ready", match |-> m, text |-> text])
    /\ UNCHANGED <<showVars, cache, modelVars, builders, rescans, overviewVars>>

\* start_single_show_scan's worker, to the end of the scan.
At(r, pc) == r \in rescans /\ r.pc = pc
Goes(r, pc) == rescans' = (rescans \ {r}) \cup {[r EXCEPT !.pc = pc]}
LibraryChanged == events' = Append(events, [kind |-> "library_changed"])

BeginRescan(r) ==
    /\ At(r, "begin") /\ Goes(r, "scan")
    /\ scanning' = [scanning EXCEPT ![r.show] = TRUE]
    /\ failed' = [failed EXCEPT ![r.show] = FALSE]
    /\ LibraryChanged
    /\ UNCHANGED <<content, matched, cache, modelVars, builders, overviewVars>>

RunRescan(r) ==
    /\ At(r, "scan") /\ Goes(r, "reconcile")
    /\ \E p \in Previews : content' = [content EXCEPT ![r.show] = p]
    /\ scanning' = [scanning EXCEPT ![r.show] = FALSE]
    /\ UNCHANGED <<matched, failed, cache, modelVars, builders, events, overviewVars>>

\* The scan, or the reconciling with other shows, fails: fail_scan_state.
FailRescan(r) ==
    /\ (At(r, "scan") \/ At(r, "reconcile")) /\ Goes(r, "end")
    /\ content' = [content EXCEPT ![r.show] = Empty]
    /\ scanning' = [scanning EXCEPT ![r.show] = FALSE]
    /\ failed' = [failed EXCEPT ![r.show] = TRUE]
    /\ UNCHANGED <<matched, cache, modelVars, builders, events, overviewVars>>

\* refresh_episode_guide, in the worker.
RefreshGuide(r) ==
    /\ At(r, "reconcile")
    /\ IF content[r.show] = Empty THEN Goes(r, "end") /\ UNCHANGED cache
       ELSE /\ rescans' = (rescans \ {r}) \cup
                 {[r EXCEPT !.pc = "build", !.signature = Signature(r.show)]}
            /\ cache' = Without(Key(r.show))
    /\ UNCHANGED <<showVars, modelVars, builders, events, overviewVars>>

PrepareGuide(r) ==
    /\ At(r, "build")
    /\ rescans' = (rescans \ {r}) \cup {[r EXCEPT !.pc = "store", !.built = content[r.show]]}
    /\ UNCHANGED <<showVars, cache, modelVars, builders, events, overviewVars>>

StoreGuide(r) ==
    /\ At(r, "store") /\ Goes(r, "end")
    /\ cache' = Stored(Key(r.show), r.signature, r.built)
    /\ UNCHANGED <<showVars, modelVars, builders, events, overviewVars>>

\* Both of the last notifications refresh the workspace.
EndRescan(r) ==
    /\ At(r, "end") /\ Goes(r, "ended")
    /\ LibraryChanged
    /\ UNCHANGED <<showVars, cache, modelVars, builders, overviewVars>>

-----------------------------------------------------------------------------
(* The GUI thread handles what came back. *)

Event == Head(events)
Delivered(kind) == events # <<>> /\ Event.kind = kind /\ events' = Tail(events)

\* refresh_from_controller.
OnLibraryChanged ==
    /\ Delivered("library_changed")
    /\ UNCHANGED <<showVars, cache, rescans>>
    /\ IF shown = Nothing THEN UNCHANGED <<modelVars, builders, overviewVars>> ELSE Populate(shown)

\* Mutant: a guide is displayed for the show it is of, whenever it comes.
StaleForShow(e) == e.show # shown

Stale(e) == e.token # renders \/ e.show # shown

OnGuideReady ==
    /\ Delivered("guide_ready")
    /\ UNCHANGED <<showVars, shown, renders, expanded, problems, builders, rescans, overviewVars>>
    /\ IF Stale(Event) THEN UNCHANGED <<cache, table, guide, entries, collapsed, autoDone>>
       ELSE /\ cache' = Stored(Key(shown), Event.signature, Event.built)
            /\ RenderGuide(shown, Event.built, problems, collapsed[shown])

OnGuideFailed ==
    /\ Delivered("guide_failed")
    /\ UNCHANGED <<showVars, cache, shown, renders, guide, expanded, problems, collapsed, autoDone,
                   builders, rescans, overviewVars>>
    /\ IF Stale(Event) THEN UNCHANGED <<table, entries>>
       ELSE table' = "error" /\ entries' = <<>>

ForShown(m) == m = matched[shown]

\* _on_overview_ready: kept for the show it is of, displayed if that one is shown.
OnOverviewReady ==
    /\ Delivered("overview_ready")
    /\ LET m == Event.match
       IN  /\ loading' = loading \ {m}
           /\ overviews' = [x \in DOMAIN overviews \cup {m} |->
                               IF x = m THEN Event.text ELSE overviews[x]]
           /\ IF ForShown(m)
              THEN /\ series' = Event.text
                   /\ overview' = IF episodeUp THEN overview ELSE Event.text
              ELSE UNCHANGED <<series, overview>>
    /\ UNCHANGED <<showVars, cache, modelVars, builders, rescans, episodeUp>>

-----------------------------------------------------------------------------
\* A guide goes by rows p of the show, but was built of others: they changed
\* between the signature and the build.
Misleads(s, p) ==
    \/ \E k \in DOMAIN cache : k[1] = s /\ cache[k].signature[2] = p /\ cache[k].guide # p
    \/ \E r \in rescans : At(r, "store") /\ r.show = s /\ r.signature[2] = p /\ r.built # p
    \/ \E i \in DOMAIN events : /\ events[i].kind = "guide_ready" /\ events[i].show = s
                              /\ events[i].signature[2] = p /\ events[i].built # p
Relapses(s) == content'[s] # content[s] /\ Misleads(s, content'[s])

EpisodeTableStep ==
    \/ /\ moves < MaxMoves /\ moves' = moves + 1
       /\ \/ \E s \in Shows : shown # Nothing /\ SelectShow(s)
          \/ FilterChanged \/ Edit \/ Collapse
          \/ \E i \in DOMAIN entries : ToggleSection(i) \/ Expand(i)
    \/ /\ UNCHANGED moves
       /\ \/ \E s \in Shows : shown = Nothing /\ SelectShow(s)
          \/ \E m \in Matches : Rematch(m) \/ LoadOverview(m)
          \/ Building
          \/ \E r \in rescans :
                \/ BeginRescan(r) \/ RunRescan(r) \/ FailRescan(r)
                \/ RefreshGuide(r) \/ PrepareGuide(r) \/ StoreGuide(r) \/ EndRescan(r)
          \/ OnLibraryChanged \/ OnGuideReady \/ OnGuideFailed \/ OnOverviewReady

EpisodeTableNext ==
    /\ EpisodeTableStep
    /\ relapsed' = relapsed \cup {s \in Shows : Relapses(s)}

EpisodeTableSpec == EpisodeTableInit /\ [][EpisodeTableNext]_tableVars

-----------------------------------------------------------------------------
(* What the properties say. *)

EpisodeTableTypeOK ==
    /\ content \in [Shows -> Previews] /\ matched \in [Shows -> Matches]
    /\ shown \in Shows \cup {Nothing} /\ renders \in 0 .. MaxRenders
    /\ table \in {"none", "loading", "error", "guide"}
    /\ expanded = 0 \/ expanded \in DOMAIN entries
    /\ \A b \in builders : b.token <= renders

Settled == builders = {} /\ events = <<>> /\ \A r \in rescans : r.pc = "ended"

\* Once the pool and the event queue are empty, the table is never left
\* loading, and what it lists is what the shown show's rows are now: an edit,
\* a selection or a scan that overtook a build wins over it.  Not so for a show
\* that failed (FailureStaysShown) or relapsed (HitsNeverWrong).
SettledTableCurrent ==
    (Settled /\ shown # Nothing) =>
        /\ table # "loading"
        /\ table = "guide" =>
              /\ entries = TableEntries(guide, problems, collapsed[shown])
              /\ failed[shown] \/ shown \in relapsed \/ guide = content[shown]

\* The expanded row is an episode with a file, whatever was rebuilt or loaded
\* since it was opened.
ExpandedRowHasFile ==
    expanded # 0 => /\ expanded \in DOMAIN entries
                    /\ entries[expanded].kind = "episode"
                    /\ entries[expanded].row.status # MissingFile

\* Once answers are in, the header has the overview of the show shown: at
\* once, or to go back to when an episode's is collapsed.
HeaderOfShown ==
    (Settled /\ loading = {} /\ shown # Nothing) =>
        /\ series = overviews[matched[shown]]
        /\ ~episodeUp => overview = series

\* A cached guide that would be taken for a show's is the guide of its rows,
\* whatever is being built or stored, unless the rows relapsed.
CacheHitsAreTrue ==
    \A s \in Shows \ relapsed : Hit(s) => cache[Key(s)].guide = content[s]

\* build_guide_with_signature says that a guide whose rows change while it is built
\* "degrades to a cache miss instead of a wrong hit" (episode_projection_cache.py:114).
\* It does not hold; the README tells how.
HitsNeverWrong == \A s \in Shows : Hit(s) => cache[Key(s)].guide = content[s]

\* _resolve_guide_or_schedule says any build in flight is orphaned by a newer
\* render: a show whose scan failed is not shown by an older guide.
\* It does not hold; the README tells how.
FailureStaysShown == (Settled /\ shown # Nothing) => (failed[shown] => table = "error")
=============================================================================
