-------------------------------- MODULE Roster --------------------------------
(***************************************************************************)
(* The roster of shows: the rows the list displays, the row that is        *)
(* current, the checks, and the posters workers fetch for the rows         *)
(* (gui_qt/widgets/_roster_model.py, _media_workspace_roster.py and what   *)
(* _media_workspace_state.py and _media_workspace_refresh.py do with       *)
(* them).                                                                  *)
(*                                                                         *)
(* The model numbers its rows by position in the controller's list at the  *)
(* last refresh.  Scans change the shows of that list from a worker; the   *)
(* refresh that follows is an event of the GUI thread.                     *)
(***************************************************************************)
EXTENDS Naturals, FiniteSets, Sequences

CONSTANTS
    Cards,          \* the shows of the library, in discovery order
    Providers,      \* metadata sources
    Ids,            \* ids of shows; two sources may use the same one
    Says,           \* what the scan of a show may come to: members of Groups
    NoId,           \* show_id of a show nobody matched
    PosterMax,      \* _MAX_POSTER_CACHE
    MaxChanges      \* bound: scans and rematches that change a show

\* ROSTER_GROUPS, in display order.
Groups == <<"queued", "fully-ready", "matched", "review-match", "review-episodes",
            "specials-unmapped", "unmatched">>
InNeed == {"matched", "review-match", "review-episodes", "specials-unmapped"}
Nobody == 0
ShowsOf(l) == {l[i] : i \in DOMAIN l}

VARIABLES
    library,    \* the controller's list of shows
    fact,       \* show -> its source, id, what its scan says, queued, checked
    rows,       \* the model's entries
    current,    \* current row of the view; 0: none
    collapsed,  \* groups folded away
    auto,       \* _roster_selection_is_auto
    selected,   \* the controller's library_selected_index
    panel,      \* the show in the work panel
    header,     \* "n of m checked"
    stale,      \* the loading page is up: a worker scans, the refresh has still to run
    posters,    \* _poster_cache: keys and their pictures, least recent first
    inflight,   \* _poster_inflight
    fetches,    \* workers fetching a poster
    arrived,    \* pictures emitted to the GUI thread
    changes     \* scans and rematches so far

viewVars   == <<rows, current, collapsed, auto, selected, panel, header, stale>>
posterVars == <<posters, inflight, fetches, arrived>>
rosterVars == <<library, fact, viewVars, posterVars, changes>>

-----------------------------------------------------------------------------
(* What a row tells of a show.                                              *)

GroupOf(s, f) == IF f[s].queued THEN "queued"
                 ELSE IF f[s].id = NoId THEN "unmatched" ELSE f[s].says
Approvable(s, f) == /\ ~f[s].queued
                    /\ f[s].id # NoId
                    /\ f[s].says \notin {"review-match", "fully-ready"}
\* The source is part of the key: two sources may use one id.
PosterKey(s, f) == [source |-> f[s].source, id |-> f[s].id]
\* normalize_queue_selection: what cannot be queued is not checked.
NormalizedChecks(f) == [s \in DOMAIN f |-> [f[s] EXCEPT !.checked = @ /\ Approvable(s, f)]]

RowData(s, f)   == [checked |-> f[s].checked, checkable |-> Approvable(s, f),
                    poster |-> PosterKey(s, f)]
HeaderRow(g)    == [header |-> TRUE, group |-> g]
StateRow(i, l, f) == [header |-> FALSE, index |-> i, row |-> RowData(l[i], f)]

Grouped(g, l, f) == {i \in DOMAIN l : GroupOf(l[i], f) = g}
\* In discovery order: the k-th has k of the group up to it.
Members(g, l, f) ==
    LET of == Grouped(g, l, f)
    IN  [k \in 1 .. Cardinality(of) |-> CHOOSE i \in of : Cardinality({j \in of : j <= i}) = k]
\* Mutant: a folded group shows its rows.
GroupRowsOpen(g, l, f, folded) ==
    <<HeaderRow(g)>> \o [k \in DOMAIN Members(g, l, f) |-> StateRow(Members(g, l, f)[k], l, f)]
GroupRows(g, l, f, folded) ==
    LET of == Members(g, l, f)
    IN  IF Grouped(g, l, f) = {} THEN <<>>
        ELSE <<HeaderRow(g)>>
             \o (IF g \in folded THEN <<>> ELSE [k \in DOMAIN of |-> StateRow(of[k], l, f)])
\* _build_entries.
Entries(l, f, folded) ==
    LET of(k) == GroupRows(Groups[k], l, f, folded)
    IN  of(1) \o of(2) \o of(3) \o of(4) \o of(5) \o of(6) \o of(7)

RowsOfIndex(e, i) == {r \in DOMAIN e : ~e[r].header /\ e[r].index = i}
RowOf(e, i) == IF RowsOfIndex(e, i) = {} THEN Nobody ELSE CHOOSE r \in RowsOfIndex(e, i) : TRUE
FirstRow(e) == LET of == {r \in DOMAIN e : ~e[r].header}
               IN  IF of = {} THEN Nobody ELSE CHOOSE r \in of : \A q \in of : r <= q
IndexAt(e, r) == IF r = Nobody \/ e[r].header THEN Nobody ELSE e[r].index
\* selected_state: the row's position in the list as it is now.
StateAt(l, i) == IF i \in DOMAIN l THEN l[i] ELSE Nobody
Highlighted   == StateAt(library, IndexAt(rows, current))

\* sync_items: the row of the same position, or the first show.
SyncedRow(e, previous) ==
    IF previous # Nobody THEN RowOf(e, previous) ELSE FirstRow(e)

HeaderOf(l, f) ==
    LET eligible == {s \in ShowsOf(l) : Approvable(s, f)}
    IN  <<Cardinality({s \in eligible : f[s].checked}), Cardinality(eligible)>>

-----------------------------------------------------------------------------
(* Posters asked for, fetched and received.                                 *)

Wanted(l, f, e) == {l[e[r].index] : r \in {q \in DOMAIN e : ~e[q].header}}

\* _request_poster_for_key for every show of a set; hits become recent.
Request(shows, f) ==
    LET asked == {s \in shows : f[s].id # NoId}
        hits  == {PosterKey(s, f) : s \in asked} \cap {posters[i].key : i \in DOMAIN posters}
        keys  == {PosterKey(s, f) : s \in asked} \ (hits \cup inflight)
        first(k) == CHOOSE s \in asked : PosterKey(s, f) = k
    IN  /\ inflight' = inflight \cup keys
        /\ fetches' = fetches \cup {[key |-> k, show |-> first(k), emitted |-> FALSE] : k \in keys}
        /\ posters' = SelectSeq(posters, LAMBDA p : p.key \notin hits)
                      \o SelectSeq(posters, LAMBDA p : p.key \in hits)
        /\ UNCHANGED arrived

\* The source was resolved when the poster was asked for; the id of the show
\* is read when the worker comes to run.
Fetch(w) ==
    /\ ~w.emitted
    /\ fetches' = (fetches \ {w}) \cup {[w EXCEPT !.emitted = TRUE]}
    /\ \/ fact[w.show].id # NoId
          /\ arrived' = Append(arrived, [key |-> w.key,
                                         of  |-> [source |-> w.key.source, id |-> fact[w.show].id]])
       \/ UNCHANGED arrived         \* no picture, or an error
    /\ UNCHANGED <<library, fact, viewVars, posters, inflight, changes>>
\* The worker's finally, after its signal is posted.
EndFetch(w) ==
    /\ w.emitted
    /\ fetches' = fetches \ {w}
    /\ inflight' = inflight \ {w.key}
    /\ UNCHANGED <<library, fact, viewVars, posters, arrived, changes>>

\* _apply_poster: the picture is the newest; the least recent one gives way.
ApplyPoster ==
    /\ arrived # <<>>
    /\ LET got  == Head(arrived)
           kept == SelectSeq(posters, LAMBDA p : p.key # got.key) \o <<got>>
       IN  posters' = IF Len(kept) > PosterMax THEN Tail(kept) ELSE kept
    /\ arrived' = Tail(arrived)
    /\ UNCHANGED <<library, fact, viewVars, inflight, fetches, changes>>

-----------------------------------------------------------------------------
(* The refresh.                                                             *)

FocusOf(l, f) ==
    LET order == SelectSeq(<<"matched", "review-match", "review-episodes", "specials-unmapped">>,
                           LAMBDA g : Grouped(g, l, f) # {})
        first == Grouped(Head(order), l, f)
    IN  IF Len(l) <= 1 \/ order = <<>> THEN Nobody
        ELSE CHOOSE i \in first : \A j \in first : i <= j

\* refresh_from_controller over list l, then the row of show `after` made
\* current (restore_roster_selection_by_key), if one is named.
RefreshRows(l, f, e, after) ==
    LET kept  == StateAt(l, IndexAt(rows, current))     \* read by position, after the change
        row   == SyncedRow(e, IndexAt(rows, current))
        own   == auto /\ ~(IndexAt(rows, current) = Nobody /\ FirstRow(e) # Nobody)
        byKey == {i \in DOMAIN l : l[i] = kept}
        was   == IF kept # Nobody /\ byKey # {} THEN CHOOSE i \in byKey : TRUE ELSE selected
        focus == FocusOf(l, f)
        pull  == /\ focus # Nobody
                 /\ \/ kept = Nobody
                    \/ own /\ was \in DOMAIN l /\ GroupOf(l[was], f) \notin InNeed
        lost  == ~pull /\ was \notin DOMAIN l
        to    == IF pull THEN focus
                 ELSE IF ~lost THEN was
                 ELSE IF focus # Nobody THEN focus ELSE 1
        at    == IF RowOf(e, to) # Nobody THEN RowOf(e, to) ELSE row
        back  == IF after \in ShowsOf(l) THEN RowOf(e, CHOOSE i \in DOMAIN l : l[i] = after)
                 ELSE Nobody
    IN  /\ library' = l /\ fact' = f /\ rows' = e
        /\ selected' = to /\ auto' = (own \/ pull \/ lost)
        /\ panel' = l[to]
        /\ current' = IF back # Nobody THEN back ELSE at
        /\ header' = HeaderOf(l, f)
        /\ stale' = FALSE
        /\ Request(Wanted(l, f, e), f)
        /\ UNCHANGED collapsed
RefreshChecked(l, f, after) == RefreshRows(l, f, Entries(l, f, collapsed), after)
Refresh(l, f0, after)       == RefreshChecked(l, NormalizedChecks(f0), after)

RefreshFromController ==
    /\ stale
    /\ Refresh(library, fact, Nobody)
    /\ UNCHANGED changes

-----------------------------------------------------------------------------
(* The user.                                                                *)

\* A click on a row makes it current and shows the show.
SelectRow(r) ==
    /\ ~stale /\ ~rows[r].header /\ r # current
    /\ current' = r
    /\ auto' = FALSE
    /\ selected' = rows[r].index
    /\ panel' = StateAt(library, rows[r].index)
    /\ header' = HeaderOf(library, fact)
    /\ UNCHANGED <<library, fact, rows, collapsed, stale, posterVars, changes>>

\* on_roster_group_toggled syncs the rows under the guard that keeps the
\* selection from reaching the work panel.
ToggleGroup(g) ==
    LET folded == IF g \in collapsed THEN collapsed \ {g} ELSE collapsed \cup {g}
        e      == Entries(library, fact, folded)
    IN  /\ ~stale
        /\ collapsed' = folded
        /\ rows' = e
        /\ current' = SyncedRow(e, IndexAt(rows, current))
        /\ auto' = IF IndexAt(rows, current) = Nobody /\ FirstRow(e) # Nobody THEN FALSE ELSE auto
        /\ Request(Wanted(library, fact, e), fact)
        /\ UNCHANGED <<library, fact, selected, panel, header, stale, changes>>

\* The check shown by the row is turned, then the row is made again; the work
\* panel shows the show again when it is the highlighted one.
Checked(r, wanted) ==
    LET i == rows[r].index
        f == [fact EXCEPT ![library[i]].checked = wanted]
    IN  /\ fact' = f
        /\ rows' = [rows EXCEPT ![r] = StateRow(i, library, f)]
        /\ panel' = IF Highlighted = library[i] THEN library[i] ELSE panel
        /\ header' = HeaderOf(library, f)
        /\ UNCHANGED <<library, current, collapsed, auto, selected, stale, posterVars, changes>>

ToggleClicked(r) ==
    /\ ~stale /\ ~rows[r].header /\ rows[r].row.checkable
    /\ Checked(r, ~rows[r].row.checked)
\* The space bar turns the check of the show itself.
ToggleFocused ==
    /\ ~stale /\ Highlighted # Nobody
    /\ Checked(current, ~fact[Highlighted].checked)

\* The master box: check_all and uncheck_all, then a refresh.
MasterCheck(wanted) ==
    /\ ~stale /\ HeaderOf(library, fact)[2] > 0
    /\ Refresh(library, [s \in DOMAIN fact |->
                   [fact[s] EXCEPT !.checked = wanted /\ Approvable(s, fact)]], Nobody)
    /\ UNCHANGED changes

-----------------------------------------------------------------------------
(* What happens to the shows.                                               *)

Became(s, source, id, says, queued) ==
    [fact EXCEPT ![s] = [@ EXCEPT !.source = source, !.id = id, !.says = says, !.queued = queued]]

\* A worker scans or matches shows in place; the refresh follows as an event.
ScanChanges(s) ==
    /\ changes < MaxChanges /\ changes' = changes + 1
    /\ \E source \in Providers, id \in Ids, says \in Says :
           fact' = Became(s, source, id, says, FALSE)
    /\ stale' = TRUE
    /\ UNCHANGED <<library, rows, current, collapsed, auto, selected, panel, header, posterVars>>

\* A rematch or a submission changes the highlighted show on the GUI thread,
\* which refreshes and makes its row current again.
RematchHighlighted ==
    /\ changes < MaxChanges /\ changes' = changes + 1
    /\ ~stale /\ Highlighted # Nobody
    /\ \E source \in Providers, id \in Ids, says \in Says, queued \in BOOLEAN :
           Refresh(library, Became(Highlighted, source, id, says, queued), Highlighted)

\* A season given to the highlighted show merges another one into it, which
\* leaves the list (assign_season).
AssignSeason ==
    /\ changes < MaxChanges /\ changes' = changes + 1
    /\ ~stale /\ Highlighted # Nobody
    /\ \E i \in DOMAIN library :
          /\ library[i] # Highlighted
          /\ Refresh([k \in 1 .. Len(library) - 1 |-> library[IF k < i THEN k ELSE k + 1]],
                     fact, Highlighted)

\* The loading page asks for posters again and again (warm_posters).
ScanPosterTick ==
    /\ stale
    /\ Request(ShowsOf(library), fact)
    /\ UNCHANGED <<library, fact, viewVars, changes>>

-----------------------------------------------------------------------------
RosterInit ==
    /\ library = Cards
    /\ \E source \in Providers, id \in Ids \cup {NoId}, says \in [ShowsOf(Cards) -> Says] :
           fact = [s \in ShowsOf(Cards) |-> [source |-> source, id |-> id, says |-> says[s],
                                               queued |-> FALSE, checked |-> FALSE]]
    /\ rows = <<>> /\ current = Nobody /\ collapsed = {"fully-ready"}
    /\ auto = FALSE /\ selected = Nobody /\ panel = Nobody
    /\ header = <<0, 0>> /\ stale = TRUE
    /\ posters = <<>> /\ inflight = {} /\ fetches = {} /\ arrived = <<>>
    /\ changes = 0

RosterNext ==
    \/ RefreshFromController \/ ScanPosterTick \/ ApplyPoster
    \/ \E w \in fetches : Fetch(w) \/ EndFetch(w)
    \/ \E r \in DOMAIN rows : SelectRow(r) \/ ToggleClicked(r)
    \/ ToggleFocused
    \/ \E wanted \in BOOLEAN : MasterCheck(wanted)
    \/ \E r \in DOMAIN rows : rows[r].header /\ ToggleGroup(rows[r].group)
    \/ \E s \in ShowsOf(library) : ScanChanges(s)
    \/ RematchHighlighted \/ AssignSeason

RosterSpec == RosterInit /\ [][RosterNext]_rosterVars

-----------------------------------------------------------------------------
\* Once the refresh has run, every show is counted in the header if it can be
\* queued, and has a row that tells its match and its check unless its group is
\* folded (set_states, refresh_state and update_selection_header together).
RosterTellsStates ==
    ~stale => /\ header = HeaderOf(library, fact)
              /\ \A i \in DOMAIN library :
                     LET of == RowsOfIndex(rows, i)
                     IN  /\ Cardinality(of) = (IF GroupOf(library[i], fact) \in collapsed THEN 0 ELSE 1)
                         /\ \A r \in of : rows[r].row = RowData(library[i], fact)

\* A poster that is in flight is being fetched, by one worker: a fetch that
\* failed can be tried again, and no picture is fetched twice at once
\* (_request_poster_for_key).
OneFetchPerPoster ==
    /\ \A k \in inflight : Cardinality({w \in fetches : w.key = k}) = 1
    /\ \A w \in fetches : w.key \in inflight

\* What the comment in select_first_state says: making a show current "drives
\* the work panel" (_media_workspace_roster.py:194).
\* It does not hold; the README tells how.
HighlightDrivesPanel == ~stale /\ current # Nobody => panel = Highlighted

\* What the comment at the poster's key is for: no two shows "display each
\* other's poster" (_roster_model.py:304).
\* It does not hold; the README tells how.
PosterIsOfItsKey == \A i \in DOMAIN posters : posters[i].of = posters[i].key
=============================================================================
