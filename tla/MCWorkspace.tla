----------------------------- MODULE MCWorkspace -----------------------------
(***************************************************************************)
(* What the user works with, for TLC: the roster, the table of a show's    *)
(* episodes, Bulk Assign, the queueing of a show with its AutoMux plans,   *)
(* the files of the jobs, the tabs that list the jobs, and what the window *)
(* tells of a run.                                                         *)
(*                                                                         *)
(* The components do not share state here: one of them is at work in every *)
(* behaviour, and the state spaces add up.                                 *)
(***************************************************************************)
EXTENDS Integers, Sequences, FiniteSets, TLC

CONSTANTS
    Parts,                          \* the components to be put to work
    x, y, Cards, Providers, ShowIds, NoId, Says, PosterMax, MaxChanges,
    show1, series1, Shows, Matches, Previews, MaxRenders, MaxRescans, MaxMoves,
    Files, Slots, Runs, PartGroups, NoGroup, ByName, Evidence, Tables, MaxBulkRescans,
    Projections, Muxable, SweepWorkers, MaxRowEdits, MaxChoices, MaxSubmissions,
    MaxSignals,
    Scenes, Stems, Settings, MaxIntrusions,
    ListJobs, NoListedJob, PreviewedFiles,
    RunJobs, NobodyRuns, MaxDirectToasts

\* The places of a worker are no jobs.
ASSUME WorkspaceAssumption ==
    NobodyRuns \notin RunJobs /\ "none" \notin RunJobs /\ "loop" \notin RunJobs

\* Preview rows come in lists, and the sweep has a worker.
ASSUME QueueingAssumption ==
    /\ \A list \in Projections : list \in Seq([file : STRING, name : STRING, kind : STRING])
    /\ SweepWorkers \in Nat \ {0}

\* The panel lists the files of the show, each once; a name tells episodes of one
\* season; and a scan ends with a table in which nobody but its files claims.
ASSUME PanelAssumption ==
    /\ ByName \in Seq(Files)
    /\ \A i, j \in DOMAIN ByName : ByName[i] = ByName[j] => i = j
    /\ \A f \in Files : \A s, r \in Evidence[f] : s[1] = r[1]
    /\ \A t \in Tables : /\ t.files \subseteq Files /\ t.slots \subseteq Slots
                         /\ \A f \in Files \ t.files : t.claim[f].run = {}

\* Every show is on the list once, and a scan comes to one of the groups.
ASSUME RosterAssumption ==
    /\ Cards \in Seq({Cards[i] : i \in DOMAIN Cards})
    /\ \A i, j \in DOMAIN Cards : Cards[i] = Cards[j] => i = j
    /\ Says \subseteq {"fully-ready", "matched", "review-match", "review-episodes",
                       "specials-unmapped", "unmatched"}

\* A job names each of its files once.
ASSUME ListAssumption ==
    /\ NoListedJob \notin ListJobs
    /\ \A j \in ListJobs : \A o, p \in PreviewedFiles[j] : o.file = p.file => o = p

\* A scan may leave a show without rows; no show is called nothing.
ASSUME TableAssumption ==
    /\ [rows |-> <<>>, unmapped |-> 0, duplicates |-> 0, orphans |-> 0] \in Previews
    /\ "nothing" \notin Shows /\ MaxRenders \in Nat

VARIABLES
    part,       \* the component at work
    rosterShows, fact, rosterRows, currentRow, groupsClosed, auto,
    selected, panel, header, rosterStale, posters, inflight, fetches,
    arrived, showChanges,
    content, matched, showRescanned, scanFailed, guideCache, shown,
    renders, table, guide, entries, expanded, problems, seasonsClosed,
    autoDone, builders, showRescans, guideEvents, overviews, loading,
    overview, series, episodeUp, moves, relapsed,
    bulk, claimants, pool, staged, unassigning, queued, bulkScanning,
    bulkRescans, bulkFiles, bulkSlots, claim, reason,
    rows, plans, probeErrors, gateErrors, optOuts, muxOff, checks,
    showChecked, showQueued, showScanning, isShown, probes, landed, warm,
    sweeping, idleSweeps, muxBusy, submission, queuedOps, rowEdits,
    submissions, choices,
    scene, disk, folders, job, titled, gone, intrusions,
    history, jobStatus, listed, listFilter, checked, focus, detail,
    banner, ask, notified, lateNews,
    waiting, running, stop, worker, ending, single, posted, window, told

rosterVars == <<rosterShows, fact, rosterRows, currentRow, groupsClosed, auto,
      selected, panel, header, rosterStale, posters, inflight, fetches,
      arrived, showChanges>>
guideVars == <<content, matched, showRescanned, scanFailed, guideCache, shown,
      renders, table, guide, entries, expanded, problems, seasonsClosed,
      autoDone, builders, showRescans, guideEvents, overviews, loading,
      overview, series, episodeUp, moves, relapsed>>
panelVars == <<bulk, claimants, pool, staged, unassigning, queued, bulkScanning,
      bulkRescans, bulkFiles, bulkSlots, claim, reason>>
queueingVars == <<rows, plans, probeErrors, gateErrors, optOuts, muxOff, checks,
      showChecked, showQueued, showScanning, isShown, probes, landed, warm,
      sweeping, idleSweeps, muxBusy, submission, queuedOps, rowEdits,
      submissions, choices>>
diskVars == <<scene, disk, folders, job, titled, gone, intrusions>>
listVars == <<history, jobStatus, listed, listFilter, checked, focus, detail,
      banner, ask, notified, lateNews>>
feedbackVars == <<waiting, running, stop, worker, ending, single, posted, window, told>>
suiteVars == <<part, rosterVars, guideVars, panelVars, queueingVars, diskVars, listVars, feedbackVars>>

RosterView == INSTANCE Roster WITH
    Ids <- ShowIds, rows <- rosterRows, library <- rosterShows,
    collapsed <- groupsClosed, current <- currentRow, stale <- rosterStale,
    changes <- showChanges
Guide == INSTANCE EpisodeTable WITH
    scanning <- showRescanned, collapsed <- seasonsClosed,
    rescans <- showRescans, failed <- scanFailed, cache <- guideCache,
    events <- guideEvents
Panel == INSTANCE BulkAssign WITH
    Groups <- PartGroups, MaxRescans <- MaxBulkRescans,
    rescans <- bulkRescans, scanning <- bulkScanning, files <- bulkFiles,
    slots <- bulkSlots
Queueing == INSTANCE ShowQueueing
Disk == INSTANCE JobFiles
Tab == INSTANCE JobList WITH
    NoJob <- NoListedJob, FilesOf <- PreviewedFiles, Jobs <- ListJobs,
    shown <- listed, filter <- listFilter, status <- jobStatus,
    late <- lateNews
Feedback == INSTANCE RunFeedback WITH Nobody <- NobodyRuns, Jobs <- RunJobs

-----------------------------------------------------------------------------
(* Two shows, which may turn out to be one series and share its poster.     *)

MCCards == <<x, y>>
MCRosterInit == /\ RosterView!RosterInit
                /\ fact[x].id = 1 /\ fact[x].says = "matched" /\ fact[y].says = "fully-ready"
\* One picture on its way at a time, and one group folded.
Few == /\ Len(arrived) + Cardinality({w \in fetches : ~w.emitted}) <= 1
       /\ Cardinality(groupsClosed) <= 1

-----------------------------------------------------------------------------
(* Two shows, each of which may turn out to be either of two series.        *)

NoRows == [rows |-> <<>>, unmapped |-> 0, duplicates |-> 0, orphans |-> 0]
GuideRow(n, status) == [season |-> n, status |-> status]
MCPreviews == {NoRows,
    [rows |-> <<GuideRow(1, "Review"), GuideRow(2, "Missing File")>>,
     unmapped |-> 0, duplicates |-> 1, orphans |-> 0],
    [rows |-> <<GuideRow(1, "Mapped")>>, unmapped |-> 1, duplicates |-> 0, orphans |-> 1]}

\* The shows start alike, and the first is the one a batch scan prepared.
MCTableInit ==
    /\ Guide!EpisodeTableInit
    /\ \A s, t \in Shows : content[s] = content[t]
    /\ matched[show1] = series1
    /\ \A k \in DOMAIN guideCache : k[1] = show1

\* Overviews are waited for in histories without a rematch only.
Apart == /\ loading = {} \/ showRescans = {}
         /\ Len(guideEvents) + Cardinality(builders) <= 2

-----------------------------------------------------------------------------
(* Three files and a season of three episodes; one file's name tells two    *)
(* episodes that are not adjacent.                                          *)

MCShowFiles == 1..3
MCSlots == {<<1, 1>>, <<1, 2>>, <<1, 3>>}
MCRuns  == {{<<1, e>> : e \in a..b} : a \in 1..3, b \in 1..3} \ {{}}
MCByName == <<2, 1, 3>>
MCEvidence == 1 :> {<<1, 1>>, <<1, 3>>} @@ 2 :> {<<1, 2>>} @@ 3 :> {<<1, 2>>, <<1, 3>>}

Held(run) == [run |-> run, manual |-> FALSE, group |-> 0, part |-> FALSE,
              approved |-> FALSE, evidence |-> {}]
BulkTable(fs, c) ==
    LET Full == [f \in MCShowFiles |-> IF f \in DOMAIN c THEN Held(c[f]) ELSE Held({})]
    IN  [files |-> fs, slots |-> MCSlots, claim |-> Full,
         reason |-> [f \in MCShowFiles |->
                        IF f \in fs \ DOMAIN c THEN "other" ELSE "none"]]

\* Two files contesting a slot one of them shares, one file on two slots with a
\* neighbour, and a table that lost a file.
MCTables ==
    {BulkTable(MCShowFiles, 1 :> {<<1, 1>>, <<1, 2>>} @@ 2 :> {<<1, 2>>}),
     BulkTable(MCShowFiles, 1 :> {<<1, 1>>} @@ 3 :> {<<1, 2>>, <<1, 3>>}),
     BulkTable({1, 3}, 1 :> {<<1, 1>>})}

-----------------------------------------------------------------------------
(* ShowQueueing. *)

PreviewRow(f, n, k) == [file |-> f, name |-> n, kind |-> k]
MCProjections ==
    { <<PreviewRow("a", "n1", "rename"), PreviewRow("b", "n2", "rename")>>,
      <<PreviewRow("b", "n2", "rename"), PreviewRow("a", "none", "loose")>>,
      <<PreviewRow("a", "n1", "merge")>>, <<PreviewRow("b", "n2", "merge")>>,
      <<PreviewRow("a", "n1", "review"), PreviewRow("b", "n2", "named")>>,
      <<PreviewRow("a", "n1", "conflict"), PreviewRow("b", "n1", "conflict")>> }
MCMuxable == {"a", "b"}

-----------------------------------------------------------------------------
(* Instances of JobFiles for TLC: a release folder with two videos, a subtitle *)
(* and pictures, and an output root where the show may exist.                  *)

Path(dir, base, kind) == [dir |-> dir, base |-> base, kind |-> kind]
Src == [root |-> "src", show |-> 0, top |-> 0, sub |-> 0]
Dir(show, s) == [root |-> "out", show |-> show, top |-> 0, sub |-> s]
E1 == Path(Src, "e1", "mkv")
E2 == Path(Src, "e2", "mkv")
FileOp(src, dir, mux) ==
    [src |-> src, dir |-> dir, base |-> src.base, kind |-> src.kind, picked |-> TRUE, mux |-> mux]

Poster == Path(Src, "poster", "img")
Shown == Path(Dir(1, 0), "poster", "img")
Scene(files, jobs) == [files |-> files, jobs |-> jobs]
OneEach(show) == <<{FileOp(E1, Dir(1, 1), FALSE)}, {FileOp(E2, Dir(show, 1), FALSE)}>>
Both(mux) == <<{FileOp(E1, Dir(1, 1), FALSE), FileOp(E2, Dir(1, 2), mux)}>>

MCScenes == {Scene({E1, E2, Shown}, OneEach(1)),
             Scene({E1, E2, Poster, Shown, Path(Src, "e1", "img"), Path(Src, "e1", "thumb")}, Both(FALSE)),
             Scene({E1, E2, Poster, Path(Dir(1, 1), "e1", "mkv")}, Both(TRUE)),
             Scene({E1, Shown}, <<{FileOp(E1, Dir(1, 1), TRUE)}>>)}

Want(active, asset, plex, local) == [active |-> active, asset |-> asset, plex |-> plex, local |-> local]
MCSettings == {Want(FALSE, FALSE, FALSE, FALSE), Want(TRUE, TRUE, TRUE, FALSE),
              Want(TRUE, FALSE, TRUE, TRUE)}

\* Files are in the release folder or the output root, and the files of a job go
\* from the one to one show folder of the other.
ASSUME SceneAssumption ==
    /\ MaxIntrusions \in Nat
    /\ Settings \subseteq [active : BOOLEAN, asset : BOOLEAN, plex : BOOLEAN, local : BOOLEAN]
    /\ \A s \in Scenes :
          /\ s.files \subseteq Disk!Paths /\ IsFiniteSet(s.files)
          /\ \A p \in s.files : p.dir.root # "none"
          /\ \A j \in DOMAIN s.jobs : s.jobs[j] # {} /\ s.jobs[j] \subseteq Disk!Ops
          /\ \A j \in DOMAIN s.jobs : \A op \in s.jobs[j] :
                /\ op.src.dir.root = "src" /\ op.dir.root = "out" /\ op.dir.top = 0
                /\ op.base # "poster" /\ op.kind \notin {"img", "thumb"}
                /\ \A other \in s.jobs[j] : other.dir.show = op.dir.show


-----------------------------------------------------------------------------
(* JobList. *)

ListedOp(file, video, season, folder, stem, fits) ==
    [file |-> file, video |-> video, season |-> season, folder |-> folder,
     stem |-> stem, fits |-> fits]

\* Two episodes whose stems begin alike, one of them in two formats, an extra
\* without a season, a subtitle that fits the episodes, one in another folder, and
\* one that belongs to none.
MCFiles ==
    {ListedOp(1, TRUE, 1, 1, 3, {}), ListedOp(2, TRUE, 1, 1, 5, {}), ListedOp(3, TRUE, 0, 2, 4, {}),
     ListedOp(4, FALSE, 0, 1, 0, {1, 2, 7}), ListedOp(5, FALSE, 0, 2, 0, {2, 3}), ListedOp(6, FALSE, 0, 1, 0, {}),
     ListedOp(7, TRUE, 1, 1, 5, {})}

MCFilesOf == [j \in ListJobs |-> MCFiles]

-----------------------------------------------------------------------------
(* RunFeedback. *)

\* At most one run is still to be announced as finished, and the GUI thread lags
\* by a few notifications only.
Lag == ending <= 1 /\ Len(posted) <= 4

-----------------------------------------------------------------------------
(* One component at work, the others switched off. *)

RosterViewOff ==
    /\ rosterShows = "off" /\ fact = "off" /\ rosterRows = "off"
    /\ currentRow = "off" /\ groupsClosed = "off" /\ auto = "off"
    /\ selected = "off" /\ panel = "off" /\ header = "off"
    /\ rosterStale = "off" /\ posters = "off" /\ inflight = "off"
    /\ fetches = "off" /\ arrived = "off" /\ showChanges = "off"
GuideOff ==
    /\ content = "off" /\ matched = "off" /\ showRescanned = "off"
    /\ scanFailed = "off" /\ guideCache = "off" /\ shown = "off"
    /\ renders = "off" /\ table = "off" /\ guide = "off" /\ entries = "off"
    /\ expanded = "off" /\ problems = "off" /\ seasonsClosed = "off"
    /\ autoDone = "off" /\ builders = "off" /\ showRescans = "off"
    /\ guideEvents = "off" /\ overviews = "off" /\ loading = "off"
    /\ overview = "off" /\ series = "off" /\ episodeUp = "off"
    /\ moves = "off" /\ relapsed = "off"
PanelOff ==
    /\ bulk = "off" /\ claimants = "off" /\ pool = "off" /\ staged = "off"
    /\ unassigning = "off" /\ queued = "off" /\ bulkScanning = "off"
    /\ bulkRescans = "off" /\ bulkFiles = "off" /\ bulkSlots = "off"
    /\ claim = "off" /\ reason = "off"
QueueingOff ==
    /\ rows = "off" /\ plans = "off" /\ probeErrors = "off"
    /\ gateErrors = "off" /\ optOuts = "off" /\ muxOff = "off"
    /\ checks = "off" /\ showChecked = "off" /\ showQueued = "off"
    /\ showScanning = "off" /\ isShown = "off" /\ probes = "off"
    /\ landed = "off" /\ warm = "off" /\ sweeping = "off"
    /\ idleSweeps = "off" /\ muxBusy = "off" /\ submission = "off"
    /\ queuedOps = "off" /\ rowEdits = "off" /\ submissions = "off"
    /\ choices = "off"
DiskOff ==
    /\ scene = "off" /\ disk = "off" /\ folders = "off" /\ job = "off"
    /\ titled = "off" /\ gone = "off" /\ intrusions = "off"
TabOff ==
    /\ history = "off" /\ jobStatus = "off" /\ listed = "off"
    /\ listFilter = "off" /\ checked = "off" /\ focus = "off"
    /\ detail = "off" /\ banner = "off" /\ ask = "off" /\ notified = "off"
    /\ lateNews = "off"
FeedbackOff ==
    /\ waiting = "off" /\ running = "off" /\ stop = "off" /\ worker = "off"
    /\ ending = "off" /\ single = "off" /\ posted = "off" /\ window = "off"
    /\ told = "off"

SuiteInit ==
    /\ part \in Parts
    /\ IF part = "roster" THEN MCRosterInit ELSE RosterViewOff
    /\ IF part = "table" THEN MCTableInit ELSE GuideOff
    /\ IF part = "bulk" THEN Panel!BulkInit ELSE PanelOff
    /\ IF part = "queueing" THEN Queueing!QueueingInit ELSE QueueingOff
    /\ IF part = "files" THEN Disk!JobFilesInit ELSE DiskOff
    /\ IF part = "list" THEN Tab!ListInit ELSE TabOff
    /\ IF part = "feedback" THEN Feedback!FeedbackInit ELSE FeedbackOff

SuiteNext ==
    \/ /\ part = "roster" /\ RosterView!RosterNext
       /\ UNCHANGED <<part, guideVars, panelVars, queueingVars, diskVars, listVars, feedbackVars>>
    \/ /\ part = "table" /\ Guide!EpisodeTableNext
       /\ UNCHANGED <<part, rosterVars, panelVars, queueingVars, diskVars, listVars, feedbackVars>>
    \/ /\ part = "bulk" /\ Panel!BulkNext
       /\ UNCHANGED <<part, rosterVars, guideVars, queueingVars, diskVars, listVars, feedbackVars>>
    \/ /\ part = "queueing" /\ Queueing!QueueingNext
       /\ UNCHANGED <<part, rosterVars, guideVars, panelVars, diskVars, listVars, feedbackVars>>
    \/ /\ part = "files" /\ Disk!JobFilesNext
       /\ UNCHANGED <<part, rosterVars, guideVars, panelVars, queueingVars, listVars, feedbackVars>>
    \/ /\ part = "list" /\ Tab!ListNext
       /\ UNCHANGED <<part, rosterVars, guideVars, panelVars, queueingVars, diskVars, feedbackVars>>
    \/ /\ part = "feedback" /\ Feedback!FeedbackNext
       /\ UNCHANGED <<part, rosterVars, guideVars, panelVars, queueingVars, diskVars, listVars>>

SuiteSpec == SuiteInit /\ [][SuiteNext]_suiteVars

\* Errors hit the files of one job at most, at any of its steps.
OneInTrouble == Cardinality({j \in DOMAIN job : job[j].errors}) <= 1

\* What waits for the GUI thread at once is bounded, and what goes wrong.
Bounded ==
    /\ part = "roster" => Few
    /\ part = "table" => Apart
    /\ part = "files" => OneInTrouble
    /\ part = "feedback" => Lag

-----------------------------------------------------------------------------
\* The roster lists every show once, in its place, and tells what its state is;
\* checks are of rows that can be queued; a poster is fetched once for its key
\* (_roster_model.py, _media_workspace_roster.py).
RosterHolds ==
    part = "roster" => RosterView!RosterTellsStates /\ RosterView!OneFetchPerPoster

\* Whatever overtakes the building of a guide, the table that comes to rest
\* shows the selected show as it is now: its rows, the row that is expanded, the
\* header, and no cached guide of other rows (_work_panel.py,
\* _episode_table_model.py, episode_projection_cache.py).
TableTellsTheShow ==
    part = "table" => /\ Guide!EpisodeTableTypeOK
                      /\ Guide!SettledTableCurrent
                      /\ Guide!ExpandedRowHasFile
                      /\ Guide!HeaderOfShown
                      /\ Guide!CacheHitsAreTrue

\* What is staged in Bulk Assign never conflicts with itself or with what it
\* leaves alone, and applied to the table the panel was opened on it does what
\* the panel showed and nothing else (_bulk_assign_panel.py,
\* episode_mapping_service.py apply_bulk).
StagingIsApplied ==
    /\ [](part = "bulk" => Panel!StagingHolds)
    /\ [][(part = "bulk" /\ Panel!Apply /\ ~bulkScanning /\ Panel!Fresh) =>
              \A f \in bulkFiles :
                  IF Panel!StagedKeys(f) \in Runs THEN claim'[f].run = Panel!StagedKeys(f)
                  ELSE f \notin unassigning => claim'[f] = claim[f]]_suiteVars

\* Items that wait for a plan have a worker that will look at them, and a merge
\* is queued with the plan that appends its parts or not at all
\* (_media_workspace_automux.py, _queue_submission_helpers.py).
QueueingHolds ==
    part = "queueing" => /\ Queueing!QueueingTypeOK
                         /\ Queueing!SweepServed
                         /\ Queueing!MergesQueuedWhole

\* Rename jobs lose no file of the user's, whatever they overwrite and whoever
\* is undone first (job_executor.py, _job_execution_*.py, _job_revert.py).
FilesSurvive ==
    part = "files" => Disk!JobFilesTypeOK /\ Disk!OriginalsKept

\* Jobs that were reverted leave the tree as it was, with no output, sidecar or
\* folder of theirs, unless one wrote where a file of the user was
\* (_job_revert.py, _job_execution_filesystem.py).
RevertsRestoreTheTree == part = "files" => Disk!RevertRestoresTree

\* The banner, the checks and the panel of the job tabs are of rows the user
\* sees, whatever ends or arrives meanwhile, and a job's preview shows each of
\* its files once (history_tab.py, queue_tab.py, job_detail_panel.py).
TabsTellTheJobs ==
    part = "list" => /\ Tab!ChecksAndBannerAgree
                     /\ Tab!DetailIsOfFocused
                     /\ Tab!PreviewTellsEachFileOnce

\* Every success is told once, and an ended run leaves neither the progress
\* toast nor the waiting sweep behind, though single runs and runs of the queue
\* share the counters and the timer (main_window.py, _main_window_feedback.py).
RunsAreTold ==
    part = "feedback" => Feedback!SuccessesToldOnce /\ Feedback!EndedRunLeavesNothing
=============================================================================
