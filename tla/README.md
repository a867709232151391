# Plex Renamer: TLA+ models, model checks and proofs

Plex Renamer scans media folders, matches the files to TMDB/TVDB entries, and
queues the resulting rename and remux plans as jobs that a background worker
executes, records and can revert. This directory holds TLA+ specifications of
the parts in which a mistake loses or misplaces a user's files or shows the user
something that is not so, TLC configurations that check them on small
instances, and proofs checked by TLAPS.

Paths below are relative to `src/plex_renamer/`.

## 1. Inventory

### From folders to tables

| Component | State | Operations | Hard behaviour | What makes it correct |
|---|---|---|---|---|
| Scan sessions: `app/controllers/_scan_operation_helpers.py`, `_tv_batch_helpers.py`, `gui_qt/_main_window_scan.py` | the current cancellation token, the lists of shows and movies, progress, the page shown | start, cancel, supersede, publish, announce | the token is checked, then the result published; the GUI handles the announcement later | results of a superseded scan are never shown; the scan that counts can be cancelled |
| Library discovery: `app/services/tv_library_discovery_service.py`, `_tv_library_classification.py` | visited folders, roots | walk, classify | links, cycles, case, containers that look like shows | a root once; every episode below a root |
| Batch matching: `engine/_batch_orchestrators.py`, `_batch_tv_season_merge.py`, `_batch_tv_duplicates.py` | a card per folder | match, merge siblings and umbrellas, scan, reconcile, rematch, assign seasons | passes that rewrite what the next one reads | no folder drops out; every matched card is scanned |
| One match: `engine/matching.py`, `_batch_tv_match_policy.py`, `_tv_score_fallback.py` | the match, alternates, ties | score, tie-break, accept, rematch | order of the provider's results | what is accepted unasked does not hang on that order |
| File scanners: `engine/_tv_scanner*.py`, `_movie_scanner.py` | claims while files are read | read folders, titles, numbers, clusters; movies, cards, queueing | files read one by one claim slots of one pool | a file is placed by its title; each file on one card |
| Titles and confidence: `engine/_episode_resolution.py` | none | tiers of title matching, combined titles, caps and floors | rules applied one after another | only what is spelt out is accepted unasked |
| Episode assignments: `engine/episode_assignments.py` | per show: files, slots, claims of files on runs of slots, part groups, reasons for having no claim | assign, unassign, group, ungroup, resolve, approve, merge, carry over into a re-scan | long sequences of scans and edits; exceptions in the middle | a file is assigned or has a reason; manual assignments survive; groups agree |
| Episode resolution: `engine/_episode_resolution.py`, `_tv_scanner.py` | copies made before loops | resolve each file, eight rescues, part groups, conflict passes | loops that assign while consulting a copy | rescues take free episodes; nothing manual is touched |
| Mapping edits, Bulk Assign: `app/services/episode_mapping_service.py`, `gui_qt/widgets/_bulk_assign_panel.py` | a snapshot of the claims, staged pairs | edits of a row, staging, apply | the snapshot is older than the table | what is applied is what was shown |

### Metadata

| Component | State | Hard behaviour | What makes it correct |
|---|---|---|---|
| Metadata cache: `app/services/cache_service.py`, `_tmdb_metadata_cache.py`, `tmdb.py` | rows with expiry, the client's memory, snapshots | a client held by a scan outlives a clear, and a clear falls between a request and its put | what is cleared stays gone, but for what was under way |
| Provider clients: `_tvdb_transport.py`, `_tmdb_transport.py`, `tvdb.py` | a shared token, rate-limit slots, remembered lists | tokens dropped by two threads, failing pages | no request fails over an old token; requests end; season maps are whole |
| Probing: `_mkv_probe.py`, `_ffprobe.py` | a slot per running probe, a bounded cache | waiting on somebody else's probe | one probe at work per key; every call returns |
| Mux planning: `engine/_mux_planner.py`, `_mux_audio_dedup.py`, `_merge_gate.py` | a plan of one file's tracks | rules on what earlier rules left | sound and defaults survive |

### The queue

| Component | State | Operations | Hard behaviour | What makes it correct |
|---|---|---|---|---|
| Queueing of a show: `gui_qt/widgets/_media_workspace_automux.py`, `engine/_queue_bridge.py` | plans by row, the sweep's queue and workers | probe, plan, sweep, submit | probes land while rows change | nobody is left in the sweep; merges are queued whole |
| Job store: `job_store.py`, `_job_store_ordering.py` | SQLite table `jobs`, a partial unique index | add, update, undo data, remove, clear, recover, move, reorder, next pending | called from three kinds of threads; the row may change between two calls | one queued job per media entity; distinct positions |
| Queue executor: `job_executor.py` | `_running`, `_stop_event`, the worker | start, stop, single run, worker loop, `_execute_one` | two execution paths; death between two transactions | status life cycle; undo data covers what moved; stop is honoured |
| Remux execution: `_job_execution_remux.py` | temp file, `active_temp`, outputs, sources | probe, mkvmerge, replace, delete | crash between the steps, shared sources | content never lost |
| Files of jobs: `_job_execution_filesystem.py`, `_job_execution_metadata.py`, `_job_revert.py` | files, folders, sidecars | plan, move, write, restore, remove | two jobs on one disk, undone in any order | originals are kept; a revert restores |
| Tabs: `queue_tab.py`, `history_tab.py`, `_job_list_tab.py` | a copy of the rows, checks, banner, panel | commands, questions, reverts | the rows change behind a question | banner and checks are of rows the user sees |
| Run feedback: `_main_window_feedback.py`, `toast_manager.py` | counters, timer, toasts | hear of jobs and runs | notifications from two threads | every completed job is told once |
| Workspace: `_roster_model.py`, `_episode_table_model.py`, `_work_panel.py`, `episode_projection_cache.py` | rows, highlight, panel, guides, posters | select, check, rematch, expand | what workers bring belongs to an earlier state | what comes to rest is what is so now |

Not modelled: name parsing (patterns over text), the thread pool (a wrapper),
settings and keys (key-value persistence), painting and layout.

How they interact: the scan side produces `ScanState`s, the controllers turn
the checked ones into `RenameJob`s and hand them to the store from pool
threads; the executor's worker takes jobs from the store and reports by
callbacks that the main window bridges to Qt signals; the history tab asks the
controller to revert a job, synchronously on the GUI thread. Pool threads write
to the shows while the GUI thread reads them; what they are done with reaches
the GUI thread as queued signals. The store is the only state all of them
share under a lock, one per call; between calls nothing is held.

## 2. Modules

| Module | Models | Uses |
|---|---|---|
| `JobStore` | the store: one action per method and transaction | |
| `JobLifecycle` | abstract: what may happen to the status of one job | |
| `JobQueue` | the store with the executor, the user, submissions, files and crashes | `JobStore`, instantiates `JobLifecycle` |
| `OutputPublication` | abstract: outputs published and withdrawn, sources given up | |
| `RemuxJob` | the execution of remux jobs on disk, their reverts, crashes and recovery | instantiates `OutputPublication` |
| `AssignmentTable` | the mutations and queries of one show's table | |
| `EpisodeResolution` | from files and titles to the table: the functions of a scan, loop by loop | `AssignmentTable` |
| `EpisodeMapping` | the table over scans, re-scans, merges and edits | `EpisodeResolution` |
| `ScanSession`, `LibraryDiscovery`, `BatchShows`, `TVScan`, `MovieScan` | from folders to shows and movies | composed by `MCScanning` |
| `MetadataCache`, `TVDBClient`, `ProviderRequests`, `TrackProbe`, `ShowMatching`, `EpisodeTitles`, `ConfidenceFloors`, `MuxPlan` | what the provider and the files tell, and what is made of it | composed by `MCMetadata` |
| `Roster`, `EpisodeTable`, `BulkAssign`, `ShowQueueing`, `JobFiles`, `JobList`, `RunFeedback` | what the user works with | `BulkAssign` extends `AssignmentTable`; composed by `MCWorkspace` |
| `MCJobStore`, `MCJobQueue`, `MCRemuxJob`, `MCEpisodeMapping`, `MCScanning`, `MCMetadata`, `MCWorkspace` | instances for TLC | |
| `JobStoreProofs`, `JobQueueProofs`, `RemuxJobProofs`, `EpisodeMappingProofs` | theorems about the store, the queue, remux jobs, the table | the module they are about, `TLAPS`, library theorems |
| `ScanningProofs`, `MetadataProofs`, `WorkspaceProofs`, `QueueingProofs` | theorems about scan sessions; caches, requests and probes; run feedback, job tabs and Bulk Assign; queueing a show and the files of jobs | the suite of the component, `TLAPS`, library theorems |

### JobStore

The table is three functions, one for each column the queue's correctness
depends on. A job id is a fresh UUID, so a job is `absent` until its row is
inserted and `deleted` for good afterwards. `DuplicateJobError` and
`IntegrityError` are guards: the transaction is rolled back, so no step.
`AddJob` has the cross-kind look-up, the dedup index and
`COALESCE(MAX(position), 0) + 1`; `Positions` bounds that value for TLC.
`UpdateStatus` on a vanished row changes nothing and says nothing, as the SQL
does. A list built by `ORDER BY position` is represented by the rank of each
row; `move_pending_jobs` is then a permutation of ranks `1..n`, and
`compact_positions` a numbering that respects the positions and breaks ties
either way (a running row can tie with a pending one, since
`_write_pending_positions` numbers the pending rows only).

### JobQueue

Two threads can be inside `_execute_one`: the worker and the GUI thread
(`execute_single_job`). Each is a program counter over the steps between two
transactions or file-system effects:

`fetch` (`_worker`: stop event, `get_next_pending`) → `validate`
(`_validate_sources`) → `reject` or `mark` (`update_status(RUNNING)`) → `plan`
→ `move` (one file per step; each may fail; a remux op may also raise out of
the loop) → `persist` (`set_undo_data`) → `complete`, or `fail` → `fetch`, and
`exit` (the `finally` of the loop). The GUI thread has `revert` besides, one
file per step, then `EndRevert`.

`RunSelected`, `RemoveSelected`, `MoveToTop`, `ClearJobHistory`, `BeginRevert`,
`Start` and `Stop` are what the tabs offer, under the conditions under which
they offer it, and only while the GUI thread is idle. `Submit` is a pool
thread. `SourceLost` is something outside the program deleting one of
`LosableFiles`. `Crash` forgets all threads and keeps the table and the disk;
`Restart` is `_init_db`, which fails the rows left running.

`GuardSingle` chooses between two sets of callers: those that obey the
docstring of `execute_single_job` ("do not call while the background worker is
running"), and those the GUI really has, which do not look.

Each job has its own files. A file is in the source folder, in the output
folder, in both (a remux) or in neither. Moving one file is one step, as
`os.rename` is; a copy between file systems that dies half way is not
modelled.

### JobLifecycle

`absent → pending → running → completed | failed`, `completed → reverted |
revert_failed`, `pending → failed`, deletion from any state but running, and
recovery, which fails running jobs at once. `JobQueue` implements it under
`state <- status`.

### RemuxJob and OutputPublication

`JobQueue` takes a remux op for one step; `RemuxJob` looks inside. The jobs are
successive jobs of one media entity, so that they share sources and targets and
the store queues them one at a time. An op of a job goes through

`StartOp` (checks, `active_temp` recorded) → `Mux` (mkvmerge writes the temp
file) → `MuxEnds` or `MuxRaises` (whose own unlink of the temp file may raise) →
`ClearTemp` (the `finally` block) →
`Publish` (`os.replace`), `OpFailed` (unlink) or `SettleRaises` → for a No Fear
op `DeleteSource` for each source, then `DeletionsDone`,

after which `OpsDone`, `PersistUndo` and `EndJob` close the job. `Crash` may
come between any two of these; `Restart` is `recover_interrupted` with the sweep
of the recorded temp file. `BeginRevert`, `RemoveOutput` and `EndRevert` are
the GUI thread's, concurrent with the execution of another job. `Intrude`
puts a file of someone else's where an output would go. `present`, `intact` and `temp` say what is on disk,
`owner` which job put a file at an output's path.

`OutputPublication` keeps two sets, outputs in place and sources in place:
an output appears whole while its sources are there; a source is given up only
for an output that holds its content; an output is withdrawn only when nothing
is lost. `RemuxJob` implements it with `published <- intact, kept <- present`.

### AssignmentTable, EpisodeResolution, EpisodeMapping

The table is `claim` and `reason`, functions over files. A claim is a run
(a contiguous set of slots of one season), whether the user made it, its part
group, whether it rides another file's row (`part`), whether it is approved, and
evidence tags. `Record(new, dropped)` is the one way the table changes:
`assign`, `mark_unassigned`, `group_parts`, `ungroup_parts`, `set_approved` and
`resolve_conflict` are records of some claims and the dropping of others.

Text is data. `lib` maps each file to what the parser and the title matching
find (its numbers, the slot whose title it carries, near and weak matches, runs
its segments name, whether only approximately, its part marker), and never
changes; `Found` then follows the phases of `resolve_file`, and each
function of `_build_normal_preview` is a stage with a loop:

`rescue → rehome → across → segments → within → fuzzy → offset → parts → trim →
shift → resolve`, then the second pass `rescue → ... → fuzzy → hint`, then
`carry`.

On entry (`Enter`) a function makes the copies the code makes: what it will
visit (`todo`), `claimed_slots` (`taken`) and, where conflicts are listed before the
loop, the claims in them (`snap`). Each round works from the copies where the
code does and from the table where the code does. The order of a loop is left
open. `FollowOffset` is one source season of `apply_uniform_offset_rescue`,
whose inner loop is the choice of a maximal set of movers that do not overlap.

`EpisodeMapping` adds `BeginScan` (a new table from what disk and provider have
now; the old one is kept aside), the carry-over of manual claims and of manual
groups, whole or not at all, its exception (`CarryOverRaises`, after which
`fail_scan_state` has dropped the table), `Absorb` (`merge_tables`, then the
conflict stages) and the edits. An edit needs a row, and the parts of a group
but the first have none (`HasRow`).

### From folders to shows and movies

`ScanSession` has a worker per scan (check the token, write the result, notify:
three steps), the controller's two sessions with the snapshots taken at a tab
switch, and the window's page per workspace; a notification waits in the GUI's
queue and its handler reads the controller when it runs. `LibraryDiscovery` is
the walk of the folder tree, in any order of siblings, with links and with folders
that differ in case only; a folder that cannot be listed is an empty one.
`BatchShows` has a card per folder and one action per pass of the orchestrator
(`Match`, the two season merges, the bulk scan card by card, reconciliation,
claims) and per command of the user. `TVScan` is the scan of one show before
the rescues of `EpisodeResolution`: which folders are which seasons, then the
videos one by one, placed by title, by number or in order, with the clusters of
air dates. `MovieScan` filters a folder's files, matches the rest, and follows
the cards to their jobs and back: a completed job renames the rows of its movie's
card (`EndJob`).

### What the provider and the files tell

`MetadataCache` relates three memories of one answer: the client's, the
persistent rows with expiry and caps, and the snapshot a new client starts
with; a scan may hold a client the window has dropped, and a worker's request, the
memory of its answer and the put of its row are steps of their own (`asking`), so
that a clear may fall between them. `TVDBClient` is the
TVDB side of it with its pages. `ProviderRequests` has a thread's request in
steps (slot of the limiter, token under the lock, exchange, wait), with tokens
that die at any time. `TrackProbe` is `probe_file` between its critical
sections. `ShowMatching`, `EpisodeTitles`, `ConfidenceFloors` and `MuxPlan` are
the pure rules: the state is the input and what has been decided so far, and
every input of a bounded set is tried. Scores are thousandths, confidences
percent; how alike two words are is given.

### What the user works with

`Roster` has the rows of the list as they were at the last refresh and the
shows as they are; `EpisodeTable` the guides built in the pool, the cache of
guides, and the table and header made of them, with a history variable
(`relapsed`) for the shows whose rows became again what they were when a guide of
other rows was signed; `BulkAssign` the panel's
snapshot beside the table. `ShowQueueing` has the rows of one show, the plans
and errors kept by row index, the sweep's queue and workers, the probes on
their way to the GUI thread, and a submission under way. `JobFiles` has the
disk: a path is a directory, a name and a kind, and a content is named by the
path it had first; two jobs execute and revert on it one file at a time.
`JobList` is the Queue or the History tab, with questions open while jobs end.
`RunFeedback` has the executor's notifications on their way to the window, its
counters and toasts.

## 3. Runs

| Run | Instance | Distinct states | Shows |
|---|---|---|---|
| `store` | 4 jobs, a rename and a remux of one media entity among them | 5 445 | positions of pending rows stay distinct; selections keep their order, blocks swap with one neighbour, `reorder_job` lands where asked; a media entity is queued once |
| `queue` | a rename job and a remux job that waits for it, 2 files each (one can vanish), 1 crash, contract obeyed, fairness of threads | 329 982 | threads own their jobs, undo data tells the moves, the refinement of `JobLifecycle`; stop ends the worker, no pending job is passed over |
| `queue_race` | 2 rename jobs of one media entity, Run Selected at any time, 1 crash | 36 198 | no orphaned row, whatever the callers do |
| `remux` | a job with a plain and a No Fear op and a job with two No Fear ops, 2 videos and a subtitle both use, 1 crash | 80 306 | content safe, rows, outputs and temp files account for each other, and the refinement of `OutputPublication` |
| `resolution` | every show of 4 files of 24 kinds, 6 listed slots in 2 seasons, one scan | 564 296 | rescues take free episodes, what a title says stands, groups lose a conflict whole |
| `mapping` | 3 shows of 3 files and a fourth in a sibling folder, 2 slots of which one may be unlisted, 2 scans, 2 edits | 286 003 | the table is accounted for, manual claims stand and survive a re-scan; every scan ends |
| `scanning` | 2 scans and a show scan with a tab switch; every library of 3 folders with 2 shows and 2 seasons; trees of 3 folders, one of them a link or the twin of another but for case; shows of 3 videos; folders of up to 3 movies | 1 192 677 | section 5 |
| `metadata` | 2 clients, 2 threads, 2 tokens, 2 probers of one video in 2 versions, searches of 2 or 3 results, seasons of 3 titles, tables of 2 files, soundtracks of 2 or 3 tracks | 499 833 | section 5 |
| `workspace` | 2 shows, 2 guides, 3 files in Bulk Assign, 2 sweep workers, 2 jobs on one disk, 2 listed jobs, 2 running jobs | 688 534 | section 5 |
| `rescan_loses_manual`, `groups_consumed`, `umbrella_drops_folder` | one claim each | | the claim is refuted, see section 6 |

`OneQueuedJobPerMedia` is checked on the store with its own callers, where all
three remaining kinds of rows can stand beside the pair, and proved of the whole
queue (`QueueHoldsMediaOnceAtWork`), whose run therefore has two jobs of
different media and spends its states on the wait for a prerequisite.

The suites (`scanning`, `metadata`, `workspace`) put one component to work in each behaviour (`part`), the others
being switched off: their state spaces add up, and each of their properties is
about one part. The components exchange data, not steps: what `TVScan` finds is
what `EpisodeResolution` takes, but no action of one needs to interleave with
an action of another to go wrong. Those that do share state (store and
executor, table and scans, rows and probes, disk and reverts) are in one
module.

Why the bounds are enough to meet the interesting cases.

* Store: four rows give non-contiguous selections with rows on both sides, a
  running row that ties with a pending one, and a row to be inserted between
  them. The constraint `FewEnded` keeps at most one row deleted and at most one
  running or ended: more of them only shorten the queue. `Positions` goes one
  beyond the number of jobs, so that no insertion is refused for want of a number.
* Queue: two files are the least with which a job can half succeed; two jobs of
  one media entity are what the dedup rules compare; one crash can fall between
  any two steps, and the job in progress is then recovered, so a second crash
  meets no state the first does not (the revert of a completed job can be cut
  short by the one crash and repeated after it).
* Remux: two ops that share an extra source are what No Fear deletion can get
  wrong (the second op finds the source gone); a second job meets the first
  one's outputs and sources, deleted or not, reverted or not.
* Resolution: conflicts of three, a pile-up with a bystander and two anchors of
  an offset with a mover need four files at most. The 24 kinds are the ways a
  file's name can relate to the slots that the rules tell apart. Files are
  symmetric: no definition and no configured property orders or names them.
* Mapping: a re-scan needs two scans, a broken group or a moved claim two
  edits. The three shows differ in where the part group and the conflict are.
* Scanning: a superseded scan needs two; a folder that is dropped between two
  merges needs a card of two folders and a third beside it; an air-date cluster
  needs two seasons and a run across their boundary.
* Metadata: a clear between request and answer needs one clear and a client
  that outlives it; a token race needs two threads and two tokens; a probe that
  is overtaken needs two versions and two callers. A tie needs two results, and a
  third that is near to both where only one of them is compared;
  a dropped default three tracks (from a smaller set than two); claims that conflict
  in a season where a third has a bare number need three files. `Bounded` lets
  the clients of the cache remember two answers together, the request under way
  counted in: a stale one and the fresh one beside it.
* Workspace: what is late must come from one show while another is shown; two
  jobs are what a revert out of order needs. `Bounded` keeps at most one
  poster on its way and one group folded (each group is folded on its own), two
  guides being built or on their way, errors among the files of one job (of both in
  the proof), and four notifications of runs with one
  more end to come.
* The threshold of a match is 0.55, its default. At 0.50, which the settings allow
  (`settings_service.py:227`), a sequel mismatch, capped at 0.50
  (`engine/matching.py:555`), is not below it: `ContradictedIsReviewed` speaks of it
  above that only.

`CHECK_DEADLOCK FALSE` stands in every configuration whose system really stops:
jobs, scans, edits and requests are finitely many there. It is on in the
configurations of the store and the queue.

**Fairness.** `FairSpec` of `JobQueue`: weak fairness of `Fetch`, `WorkerExit`,
each thread's `ExecuteStep` and `RevertStep`. The worker is a thread that Python
schedules, and every call it makes returns (mkvmerge is assumed to end); the
GUI thread is inside one call until that returns. Nothing is assumed of the
user, of submissions, of the disk or of crashes. `StopHonoured`: once the stop
event is set while the queue is running, the queue ends (whatever is submitted
meanwhile). `PendingProcessed`: a job that is pending while the worker looks
for work leaves that state unless the queue is stopped or dies or the job
waits for a prerequisite; new jobs enter behind it, and jobs moved to the top
before it are finitely many. `FairSpec` of `EpisodeMapping`: weak fairness of
the steps of a scan, which one worker thread takes one after the other without
waiting for anyone; `ScanEnds` is then about the loop of
`rescue_cross_season_segmented`, which repeats until a round moves nothing.
`MCMetadata`: weak fairness of each prober's own steps (a subprocess ends, by
its timeout at the latest) and of the limiter's refill, which is the passing
of time; strong fairness of a thread that wants the login lock or a slot of
the limiter, because both are handed out again and again and the code waits
for them with a `Lock` and a sleep of its own, which other threads can overtake
now and then but not for ever. Tokens may die without end in the code; in the
model `MaxTokens` bounds it, and a request ends by its own counters.

## 4. Proofs

Assumptions: those named in the modules, nothing else: any number of jobs,
files, media entities, crashes, shows, scans, edits, threads, tokens, pool
workers, starts and rows. The named assumptions say that constants are of their
kind and that special values are none of the ordinary ones. Nine say more.
`SiblingAssumption`: the table of a sibling folder is one that a scan could have
made (each file claimed or with a reason, groups of one mind, no claim that its
title contradicts), since it comes out of the same code. `QueueingAssumption`:
the sweep has at least one worker. `ConfidenceAssumption`: the threshold is between
50 and 100 percent, as `set_episode_auto_accept_threshold` clamps it;
`MatchingAssumption`: likenesses are
thousandths, fits percent, and a provider's results have ids of their own;
`MoviesAssumption`: so is the threshold of matches, and a folder has finitely many
files. `SceneAssumption`: jobs take files of a finite release into one show folder
each of the output root, which is what `build_rename_job_from_items` makes of a show. `TreesAssumption`: a library is a finite
tree of folders under its root, and links lead to folders that are none.
`TableAssumption`: a scan may leave a show without rows. `RosterAssumption`: the list
names every show once, and a scan comes to one of the groups of the roster.

**`JobStoreProofs`**, about the store with callers that follow the life cycle:

1. `StoreTypeCorrect`: the domains, and positions of at least 1 in every row.
2. `PositionsStayDistinct`. Inductive with type correctness. An insertion takes
   a position above all queued rows. The moves assign to each pending row a rank
   transformed by an injection, so the central lemma is that ranks of rows with
   distinct positions are distinct and lie in `1..n` (cardinalities of strictly
   nested finite sets). Compaction numbers injectively by definition.
3. `QueueHoldsMediaOnce`. Only `AddJob` and `update_status(RUNNING)` put rows
   into the queued states; the former looks at both kinds, the latter starts
   from `pending`, already counted.
4. `SelectionsStayTogether`, an action property. `Places` says that ranks are a
   bijection of the pending rows onto `1..n` and `WrittenPlaces` that the row
   written at place `i` ranks `i` afterwards; order of a selection, the swap of a
   block with its neighbour and the landing place of `reorder_job` are then facts
   about numbers.

**`JobQueueProofs`**, about the whole queue:

1. `TypeCorrect` and `QueuePositionsDistinct`, from the lemmas on the store's
   operations; unconditional.
2. `ThreadsStayExclusive`: `is_running` exactly while the worker lives; under
   `GuardSingle` the GUI thread executes only when the worker does not.
3. `NoOrphanedRunningJob`: unconditional. A row becomes running only by the
   thread that stays with it until `complete` or `fail`; a crash takes the
   threads away, and `up` is false until recovery has failed the rows.
4. `RowsFollowThreads`: the strengthening the next ones need. Under
   `GuardSingle`, the row of a thread's job is pending (or deleted by the user)
   before the mark, running after it, completed during a revert. It rests on 2:
   without exclusion another thread changes the row. `ThreadsOwnTheirJobs`
   collects 2, 3 and 4 as the run checks them.
5. `QueueHoldsMediaOnceAtWork`: with 4, `MarkRunning` starts from a pending
   row, and the argument of the store carries over.
6. `QueueImplementsLifecycle`: the refinement, step by step, from 3 and 4.
7. `UndoAlwaysTells`. `UndoTellsTheMoves` says nothing of a job while a thread is
   inside it, so it is not inductive. `MovesInv` says the rest: what a thread has
   moved is in its result until the undo data is stored and in the undo data
   afterwards; a failed rename has moved nothing; a revert without an error has
   put back what it no longer has to do. The lemma `TellsElsewhere` reduces a step
   of one thread to the row, files and locals of its own job.

**`RemuxJobProofs`**: `RemuxTypeCorrect`, `ContentStaysSafe`, `OutputsStayAccounted`,
`CompletedJobsLeaveNoTemp`, `TempStaysRecorded`, `RemuxStaysAccounted`,
`RemuxImplementsPublication`, all from one inductive invariant `RemuxInv`.
`ContentSafe` alone is not inductive: a revert removes outputs, and that is
harmless only because

* `GoneIsKept`: the content of a source that is gone is in an output made in No
  Fear mode;
* `MarkedIrreversible`: a job that made one is marked so in its undo data, or
  will be before the data is written;
* `RevertsItsOwn`: what is at a path a revert is about to unlink was put there by
  the job it reverts, in plain mode;
* `OwnOutputs`, `OutputsFollowJobs`: what is on disk belongs to a job that has it
  in its result or its undo data; `OpAtWork`: the op at work has its sources
  and does not overwrite an output of ours; `TempsFollowJobs` is the same for temp files.

These theorems assume `RevertCrashes = FALSE`, that the process does not die in
the middle of a revert: without it `RevertsItsOwn` is false, which is
`NoFearOutputsStay` of section 6.

**`EpisodeMappingProofs`**, about the table of any show:

1. `MappingTypeCorrect`, `FilesAccounted`, `ClaimsStayListed`, `ManualStands`,
   `RescuesTakeFreeSlots`, from `MappingInv`:
   * `TableInv`: types, `Accounted` and `ClaimsAreListed`. One lemma says what
     `Record` preserves; each mutation of the table is then shown to record
     well-formed claims of registered files.
   * `LoopInv`: what the loops rely on. The files a rescue has still to visit are
     of the table and not the user's; in the rescues of unclaimed files none of
     them has a claim yet, and `taken` contains every claimed slot. The last is
     what makes a copy made before the loop as good as the table itself, and it
     fails for the rescues that move claimed files (see `NoNewConflict`).
   * `SnapInv`: the claims copied before the trim and shift loops are of
     registered files and listed slots, and include the user's.
   * `OldInv`: what the carry-over visits was assigned by the user.
2. `TableStaysAccounted`, with `GroupsInOrder`: the members of a part group are of
   one mind, and no evidence tells them apart. Most steps put no file into a
   group (`JoinsNone`); those that do treat a group as one.
3. `GroupsAreBeatenWhole`: being without evidence, members are equally strong, so
   no conflict ranks one of them above another.
4. `ManualIsCarriedOver`, with `CarryInv`: what the carry-over has visited and
   could restore is back, and what it visits later takes none of it; the members
   of a group are visited together.
5. `TitlesAlwaysStand`, in two halves. `TitlesInv`: no claim rests on a title and
   is contradicted by it at once, and the rescues' loops hold only files for whose
   claim no title speaks. `EdgesInv`: the trim and shift loops go by claims they
   copied, so a claim they changed must not look like one they would still take
   something from.

**`MetadataProofs`**:

1. `TokensStayFresh` (`RequestInv`): a second attempt works with a live token, or
   one that died during this very request.
2. `ProbesStayShared` (`ProbeInv`): the owner of a slot entered by `Enter` and has
   not published yet; the cache stays without duplicate keys and within its bound
   through insertions at the end and evictions at the front.
3. `CachesStayRight` (`CacheInv`, `ClientInv`): the window's client alone is not
   enough, since a snapshot or a row would bring back what was cleared
   (`RowsAreRecent`), and a request that is under way would (`RequestsAreRecent`).
   What was under way at the last clear itself does come back, see section 6.
4. `ConfidenceAlwaysHolds` (`FloorsInv`): an automatic claim has what the rules make
   of its evidence and its season. Whoever is accepted on a bare number owes it to
   the season's floor, so the season earned one.
5. `OrderNeverMatters` (`MatchInv`): the state says little, the selection is the
   theorem. A score belongs to the result and not to its place (`Titled`, `Boosted`,
   `Evident`), so whatever the order the scored list has the same results with the
   same scores, falling (`ScoredLists`; that numbers can be put in order is
   `OrderExists`, ranks again). Then the two near results are the same two
   (`TopTwo`), and if each won in one order, the counts tell them apart in neither
   (`WinnerOfTwo`) and names and years would have to speak for each over the other
   (`ToldApartOneWay`). The invariant says that the match is of that selection.

**`WorkspaceProofs`**:

1. `RunsAreAlwaysTold` (`FeedbackInv`). A success that nobody was
   told of is in exactly one place, a posted notification or the counters of the
   open run (`SuccessesInOnePlace`); and whatever a job of the queue sets going in
   the window has an end behind it: posted later, not yet posted, or still owed by
   the worker (`EndsFollow`).
2. `TabsAlwaysTell` (`ListInv`). Checks stay on rows the user can act on because a
   row that can be checked has one status per tab, so a filter that shows one of
   them shows all, and every refresh cuts the checks down; what comes late is
   shown for the job it was asked for, or dropped. `ListAssumption`: the
   operations of a job name distinct files. A companion that fits two videos of
   one stem still has one row.
3. `StagingIsAlwaysApplied` (`PanelInv`), an action property. No two staged pairs
   share a slot, the claimants of a staged slot are being unassigned
   (`StagedWell`), and only files of the show claim, also after a rescan
   (`ClaimsOfFiles`); hence on the table of the snapshot `Apply` displaces nobody
   the user left alone. `PanelAssumption`: the panel lists files once, a name
   tells episodes of one season, a scan leaves claims to its own files only.
4. `TableAlwaysTells` (`GuideInv`). A token has one guide, in the making or on its way
   (`TokensApart`); a table that loads has the newest render's guide, or its failure,
   still to come (`ScreenWell`); a guide of other rows that is displayed will be made
   anew (`GuidesTrue`, `MadeAnew`); none that is cached, built or on its way goes by a
   show's rows unless they relapsed (`NoneMisleads`); and the header has what the show's
   match has, or waits for it (`HeaderWaits`).
5. `RosterAlwaysHolds` (`RosterInv`). `Tells`: rows tell of the shows at a set of
   positions, each in one row. The rows of a group tell of its members, since these
   are ranked (`RankedOnce`), groups are apart, and rows one after the other tell of
   both (`TellsBoth`); so every list that is made tells of what is not folded
   (`EntriesTell`). A check that is turned changes one row and no group
   (`CheckedKeepsRoster`), for which no show may be on the list twice (`ListWell`).
   `FetchesApart`: a poster is in flight while one worker fetches it.

**`QueueingProofs`**: `SweepIsAlwaysServed` (`QueueInv`). Every worker of the sweep is idle
or at a probe, counted by `sweeping` (`WorkersCounted`, a cardinality); so when the
last one leaves nothing waits (`WarmHasWorker`). Plans go with the rows they were
made of while a submission is under way (`RowsStand`), hence merges are queued whole.

`FilesAlwaysSurvive` (`DiskInv`), for any release, any number of jobs, any order of
their moves, sidecars and reverts, and any files the user removes meanwhile. That the
files survive is not inductive: a move replaces what is at its target, a sidecar
overwrites, a revert unlinks what it has recorded and moves back over what is there.

* `JobsWell`: what a job has before it and behind it in each stage (`StageWell`), and
  that all of it is in the one folder it was given (`OpsWell`). A rename that started
  moves its files to different places, and writes a sidecar to none of them
  (`RenameWell`, `SidecarsClear`): two videos of one place would have failed it.
* `FoldersApart`: from its start until the end of its revert a job claims its folder
  (`Claims`), and no two jobs claim one. It is `RemapFor` that makes this so: a folder
  that exists, with files of the user's or of another job, gets a number that is free
  (`FreshNumber`), and `FoldersThere`, `FilesHoused` say that what is claimed or has
  files exists.
* `FolderIsItsOwn`, `MovesAreTrue`, `SidecarsAreTrue`: in a claimed folder there is only
  what the job put there, and it is what the job says it is. So a revert unlinks only
  what was downloaded, and takes back only its own.
* `ReleaseIsItsOwn`: a file in the release is the one that was there at first; so what
  a restore moves to an old place replaces nothing else.
* All of this holds while `Calm`: the user adds no file, and no job is a remux. The
  comment at `OriginalsKept` says what happens otherwise.

`RevertsAlwaysRestore` (`TreeInv`), for rename and remux jobs alike, with
reverts that fail in part. `DiskInv` is of no use for
it: two jobs may share a folder, and a folder is not gone because its files are.

* What is on the disk is accounted for by debts: every file is an original at its place
  or is `Outstanding` in a job, as a move to take back or an output or sidecar to unlink
  (`FilesExplained`), and every folder is one of the first, or recorded by a job that
  has yet to remove it (`FoldersExplained`). A job that is undone has no debt, so
  when all are, nothing is left that was not there.
* That nothing is missing needs `Covered`: every outstanding moved file is at its place,
  no two at one. A file that was lost or overwritten stays a debt for ever, since a revert
  that does not find it keeps it; so if all debts are paid in the end, each step
  began `Covered`, and `TreeTold` (`MovesTold`, `FilesThere`, `OutsideUntouched`) need
  only hold of steps that did. Each step's lemma (`...Ends`) shows this backwards.
* `Unhurt` is the condition of the property: nobody else was at work, and no job
  wrote where a file of the user was.

**`ScanningProofs`**: `ScansAlwaysSettle` (`SessionInv`).

* `StartsCounted`: scans are numbered within `2 * MaxStarts` because a start is
  worth two: its own and the bulk scan its completion may bring. The invariant
  counts the workers that have still to tell and the completions posted.
* `ScansInOrder`: scans begin in order, the token never returns to one that lost
  it, and the newest scan holds it.
* `ListsFilled`, `ListsInTime`: a list that is shown, remembered or worked on was
  filled, and published while its scan was the newest.
* `OrchestratorThere`: a TV session with a list has an orchestrator, also after
  the tab was left and entered again.
* `PagesComeUp`: while the page of an undisturbed newest scan says scanning, that
  scan runs alone, or what it ended with is announced and will bring the page up.

`MoviesAlwaysAccounted` (`MoviesInv`). `ScanTells`: what a pass leaves out has a
reason, and what is kept to the end becomes a card. `CardsTell`: until the user
chooses, a card of several has what the search found best and the confidence the
evidence leaves, and no job is made of a match in doubt: approving, Fix Match, labels
and the look at the queue change nothing of that (`CardsStep`, `LabelsKeep`,
`SyncKeeps`).

`RootsAlwaysFound` (`DiscoveryInv`). A path on the frontier leads through folders that
were walked, each once (`PathsWell`), so it is no longer than the library has folders.
What is below a container that was walked has been walked or will be
(`FoldersFollow`); so were a folder passed over, its parent would have been, and its
parent's, up to the library (`EpisodesTold`).

What proof attempts showed of the models, each repaired in the model:

* `CASE` with guards that overlap is a `CHOOSE` among the arms in TLA+, the first
  arm only in TLC: several rules (`EndProgress` and `Announced` of `ScanSession`, `MatchTitle` and
  `Piece` of `EpisodeTitles`, `Better` and `MergeRank` of `MuxPlan`, and four more)
  said less than the code does and are conditionals in order now.
* A first `GroupsLeaveWhole`, that a group leaves an episode as a whole whatever the
  reason, is false: `keep_strongest` keeps one member of a duplicate group alone.
  `GroupsLoseWhole` is what holds; what is lost is `groups_consumed` of section 6.
* A run slid off a segmented conflict keeps its length; `CanShift` admitted shorter
  and longer ones, and `EdgesInv` failed on them.
* Staging promises its slots only while they exist: `Fresh` says that the staged
  slots are still in the table, beside that the claims are those of the snapshot.
* What Bulk Assign suggests (`Suggested`) and where a companion's row goes (`Host`)
  are stated as the set, or the video, that the loop ends with.
* Fix Match took a duplicate's label away: a nested EXCEPT, in which `@` is of the inner
  record. The code leaves it (`MovieScan.DuplicateIsOfSameMovie`, section 6).
* `ShowQueueing` listed rows by `SelectSeq`, about which nothing can be proved
  without induction; it uses sets of row indices, which is what the code keeps.
  `Roster` lists the members of a group by rank and the seven groups one after the
  other, where it had `SelectSeq` and `FlattenSeq`.
* That a cache hit is always of the rows the show has was checked within bounds that
  allowed no row to change twice, and is false beyond them: `HitsNeverWrong` of section
  6. The model has `relapsed` now, and the property says what holds of every other show.
* `OrderDoesNotDecide` held without its condition only because the run had two results
  at most. The proof needs the runner-up to be the only one near, since no other is
  looked at; the run has three results now, the property says when it holds, and what
  `constants.py:23` says is `OrderNeverDecides` of section 6. Neither does it hold of
  more results than `_ALT_TITLE_CANDIDATES`: which of them are looked at is a matter
  of order among equals. `ShowMatching` sorts by a permutation that is chosen, where
  it had `SetToSortSeq`.
* `RevertsRestoreTheTree` held only within the scenes of the run. A remux job writes
  its sidecar over the poster the user has in the show's folder, and its revert unlinks it;
  so it does with a poster that another job had moved there. The
  property names these cases now, the run has a scene with the first, and what the
  history tab offers is `RevertLeavesNoTrace` of section 6.

Only model-checked:

* all liveness (`StopHonoured`, `PendingProcessed`, `ScanEnds`, `CallsEnd`), outside
  the prover's reach, as is ENABLED;
* `LibraryKept`, whose passes are folds over the cards, and `TitlesPlaceFiles`, whose
  placement is a recursive function over the videos: both need induction over data;
* `TitlesTell` and `PlansKeepDefaults`, rules evaluated on every input of a
  bounded set.

No module uses a RECURSIVE operator.

## 5. What each property is about

The store and the queue

* `PendingPositionsDistinct`: `get_next_pending` and the queue view order by
  position only; a tie would make the order arbitrary.
* `SelectionsMoveTogether`: what the user sees of move up, down, to top and
  drag.
* `OneQueuedJobPerMedia`: a rename and a remux of one media entity would work
  on the same source files.
* `ThreadsOwnJobs`: what the code takes for granted between reading a job and
  using it. `RunningHasOwner`, part of it, also holds of the callers the GUI
  really has (`queue_race`): a row left running blocks its media entity for ever
  and can be neither removed nor cleared.
* `UndoTellsTheMoves`: the promise of the history tab, that a job can be undone.
* `ImplementsLifecycle`: everything else that must never happen to a status.
* `StopHonoured`, `PendingProcessed`: the two things that must happen.
* `ContentSafe`: No Fear deletes the user's only copy of a source.
* `RemuxAccounted`: an output no undo data lists cannot be reverted, and temp
  files are as large as films.
* `ImplementsPublication`: no step loses content, in whatever order jobs,
  reverts and crashes come.

The table

* `TableAccounted`: what the projection of the table into rows takes for
  granted: a file is assigned or has a reason, claims are of listed slots, the
  parts of a group share one run.
* `ManualClaimsStand`, `ManualSurvivesScan`: the user's work outlives the
  heuristics and a re-scan.
* `RescuedSlotsWereFree`, `TitlesStand`, `GroupsLoseWhole`: no heuristic
  undoes the better result of another.
* `ScanEnds`: the fixpoint loop and the stages end.

From folders to shows and movies (`scanning`)

* `ScansSettle`: the newest scan can be cancelled, what an older one brings is
  not shown, and a window that settled has left the loading page.
* `LibraryKept`: no pass of the orchestrator loses a folder, every card with a
  match is scanned, and a duplicate stands behind a card that is there.
* `RootsFound`: no root twice, and folders with episodes are found or excluded
  by a rule that the property spells out.
* `TitlesPlaceFiles`: a file whose title names an episode gets it before numbers
  and order are consulted; an air-date cluster takes no other file's episode.
* `MoviesAccounted`: each video is on one card or in a bucket; a match the
  evidence contradicts is reviewed.

Metadata (`metadata`)

* `CachesHold`: the window never serves what was asked for before the last clear,
  unless the request was under way at that very moment (`ClearedIsRefetched` of
  section 6), and a remembered season map is whole.
* `OldTokenNeverRefuses`: two threads that drop and renew one token do not fail
  each other.
* `ProbesAreShared`: a slot belongs to a worker that is probing, the cache has one
  result per key.
* `CallsEnd`: no request waits for ever, and who waits for a probe is woken.
* `OrderDoesNotDecide`: which of two equal results the provider lists first must
  not be what a job is built on. Where three are near it is (`OrderNeverDecides` of
  section 6).
* `TitlesTell`, `ConfidenceHolds`: what is accepted without asking is spelt out
  in the name; caps that say "look at this" survive the floors.
* `PlansKeepDefaults`: a file keeps sound, and a default where it had one.

What the user works with (`workspace`)

* `RosterHolds`, `TableTellsTheShow`: what is on the screen when nothing is
  under way is the state, whatever came late. The table makes two exceptions, which
  are in section 6: a show whose scan failed (`FailureStaysShown`) and one whose rows
  relapsed (`HitsNeverWrong`).
* `StagingIsApplied`: Bulk Assign does what it shows.
* `QueueingHolds`: no row waits for a sweep that has ended, and a merge is never
  queued without the plan that appends its parts.
* `FilesSurvive`: whatever two jobs overwrite and in whatever order they are
  undone, originals survive.
* `RevertsRestoreTheTree`: undoing both puts every file back and leaves no sidecar,
  output or folder, unless a job wrote where a file of the user was
  (`RevertLeavesNoTrace` of section 6).
* `TabsTellTheJobs`, `RunsAreTold`: banner, checks and panel are of rows the
  user sees; counters end at rest.

## 6. Where code and documentation disagree

Three claims are refuted by a run.

* `rescan_loses_manual`: "manual assignments survive re-scans of the same show
  match"; when one of two manually merged parts was unassigned, carrying the
  other over raises, the scan fails and the whole table is dropped.
* `groups_consumed`: `detect_part_groups` runs "BEFORE conflict resolution so groups
  are never consumed by the pile-up or duplicate-copy rules"
  (`engine/_episode_resolution.py:1284`). A group that shares its episode with a
  claim outside it meets those rules all the same. Two copies, in two folders, of
  "Show - S01E05 - Five (1).mkv" and "(2).mkv" make two groups of one bare title;
  only part 1 of one copy is kept and the other three files become "duplicate
  copy": half of the episode is missing. A group beside "05 - Bar.mkv" leaves all
  three as "ambiguous claim".
* `umbrella_drops_folder`: the merge passes absorb a folder so that its files are
  read through the card that took it; a card that had joined two release folders
  is itself absorbed with one of them, and the other's files are never read.

Further statements of comments and docstrings are definitions of the modules,
marked "It does not hold". Add one to the configuration of its module's run to
see the counterexample (in the suites, define it there by way of its instance first,
as `part = "cache" => Cache!ClearedIsRefetched`).

| Definition | What is said | How it fails |
|---|---|---|
| `RemuxJob.RestartSweeps` | recovery sweeps the temp files of jobs a crash left running | `active_temp` is cleared when mkvmerge returns, before the file is moved or removed |
| `RemuxJob.NoFearOutputsStay` | No Fear remuxes "can never be reverted" | with `RevertCrashes`, a plain job whose revert was cut short is reverted again and unlinks the output a later No Fear job made at the same path |
| `EpisodeMapping.NoNewConflict` | rescues "only take unclaimed slots, so no new conflicts can appear" | a re-homed file frees its slot in the copy although another file still claims it |
| `BatchShows.FallbackReviewed` | what the fallback matched is always reviewed | an umbrella's card, matched by an id tag, takes the folder and does not ask for review |
| `BulkAssign.QueuedMappingKept` | a queued show keeps the mapping its job was built from | the panel stays open while the show is queued, and applies |
| `ConfidenceFloors.LockedIsReviewed` | evidence that needs a review "must stay below threshold no matter what floors ran above" | the cap is 70 percent, and the user may set a threshold of 50 |
| `ConfidenceFloors.UndatedAreExpected` | a season is expected to have all but what is to air | where an episode has aired and another is to come, undated ones are not expected either |
| `EpisodeTable.FailureStaysShown` | a build in flight is orphaned by a newer render | rendering a failed show starts no build, so the token of the older one is still good |
| `EpisodeTable.HitsNeverWrong` | a guide whose rows change while it is built "degrades to a cache miss instead of a wrong hit" (`app/services/episode_projection_cache.py:114`) | rows that are again what they were when the guide was signed, after others were read: an edit undone, or a scan that fails after the builder read its rows |
| `ShowMatching.OrderNeverDecides` | a "runner-up within this delta" of the best is flagged for review (`constants.py:23`) | only the first runner-up is compared: where the folder's name speaks for the winner against a spin-off scored first, a remake of the winner's name and score further down is not seen, and the provider's order decides between the two |
| `EpisodeTitles.AmbiguousTellsNothing` | two candidates return nothing | two episodes of one title are one key |
| `JobFiles.RevertLeavesNoTrace` | `test_execute_decorates_and_revert_restores_pristine_tree` (`tests/test_executor_metadata_integration.py:68`) | a sidecar written into a folder with the user's own of that name overwrites it, and the revert unlinks it; so does an output or a sidecar written where another job's file is or was put back |
| `JobFiles.JobLandsTogether` | sidecars follow the remapped show folder | a collision sends the renamed files to a new show folder, the remux ops keep the planned one |
| `JobFiles.MetadataNeverFailsJob` | "metadata must never fail a job" (`gui_qt/widgets/_queue_submission_helpers.py:101`) | local pictures are ops like the others: one that has gone fails the validation of sources |
| `MovieScan.DuplicateIsOfSameMovie` | a duplicate is the "Same match as" the card it names (`gui_qt/widgets/_roster_model.py:301`) | Fix Match draws no labels: a duplicate given another movie stays one and cannot be queued |
| `MovieScan.SubtitlesFollow` | subtitles are renamed alongside their movie | a rematch builds the item without them |
| `MovieScan.FullConfidenceIsPicked` | full confidence is the user's choice | a file scanned alone takes the first result of the provider with full confidence |
| `MuxPlan.AppendedPartsAgree` | parts that are appended agree | each is compared with the first part, and an unknown rate agrees with all |
| `MuxPlan.DropsWithinTolerance` | a dropped duplicate is not better by more than the tolerance | the comparison goes pairwise along a chain |
| `Roster.HighlightDrivesPanel` | making a row current drives the work panel | folding a group moves the highlight under the guard that keeps the panel as it is |
| `Roster.PosterIsOfItsKey` | no two shows "display each other's poster" | the worker reads the show's id when it comes to run |
| `ShowQueueing.PlansBelongToRows` | session state "resets on rescan", keyed by index | an edit changes the rows without a reset while a probe of the old row is on its way |
| `MetadataCache.ClearedIsRefetched` | after a clear, "Posters and show details will be re-fetched on the next scan" (`gui_qt/widgets/_settings_tab_actions.py:171`) | a worker that was asking at the moment of the clear puts its answer afterwards, and the window's new client takes it from the row |
| `TVDBClient.EveryPageWalked` | every page is walked | a page that fails ends the walk, and what there is stays remembered |
| `TrackProbe.ConcurrentCallsShare` | concurrent calls share one subprocess | the cache is not looked at again under the lock that takes the slot |
| `TrackProbe.GivenFfprobeEnriches` | with ffprobe given, a result is enriched | a call that waits takes the result of a caller without ffprobe |
| `JobList.RefreshKeepsFocus` | Run This Job means the job the user chose | a refresh moves the focus to the first row |
| `RunFeedback.SweepYieldsToRunningJob` | the sweep yields while a job runs | the late end of a run that was cleared before it was announced counts for the next |

The job store's rule that "a media entity must never hold a RENAME and a REMUX
job at the same time" is broken when Run Selected is used while the worker runs:
`execute_single_job`'s docstring forbids it, the queue tab does it, and a job
that Run Selected completed is marked running again by the worker that had
fetched it. `OneQueuedJobPerMedia` under the configuration of `queue_race` shows it.

## 7. Assumptions and what is left out

Queue: listeners and notification order, poster paths, job names and JSON; the
legacy in-place rename (a job without an output root is not created by today's
controllers) and with it the propagation of renamed folders to later jobs;
schema migration; `cancelled` rows (nothing sets that status). SQLite calls are
assumed to succeed. A job removed by the user between `get_next_pending` and
`update_status(RUNNING)` still runs, in the model as in the code, and has no row
for its undo data. A partial loss of sources moves nothing:
`_execute_output_rename` plans no move when one source is missing.

Remux: nothing outside the program deletes sources or outputs; an mkvmerge
process that outlives a crash of the program and goes on writing is left out, as
are its command line, probing and rendered tags. Plain ops of a job are the two
facts the end of the job needs: whether one moved a file and whether one failed.

Episodes: extras folders, the consolidated preview, display titles and the order
of parts after the first; names are classes of equal names, and what the
matching of titles finds is data of `EpisodeResolution`; `EpisodeTitles` and
`ConfidenceFloors` model the rules themselves. `Absorb` is the merge of two
folders; of three or more the code merges all tables before it resolves the
conflicts once. Scans and edits of one show exclude each other in the model: the
rows an edit needs are offered when the scan's result is shown.

Scores: how alike two words or titles are is given, since it is the work of a
library; years, counts, ties and thresholds are modelled. The metadata models
have one record of each kind per show; the TMDB image memory, which a clear
leaves alone, is not modelled.

Discovery: what a name says is data. A bare number is a season to `get_season` and no
hint of episodes to `looks_like_tv_episode`: a folder so named counts as a season of
the folder above by files named like episodes, or by videos with nothing below it but
extras; directly under the library, with files that are not so named, it is passed
over in the model as in the code, and `RootsFound` asks nothing for it. A folder that
cannot be listed has nothing in it, and one whose path `resolve()` refuses is left
out.

Not modelled: name parsing (regular expressions over text), the thread pool (a
wrapper), settings and keys, painting, layout and wording.
## 8. What is left

Every invariant of the runs that is about interleavings, retries or late answers is a
theorem. The rest of section 4's "Only model-checked" list is out of the prover's reach
(liveness, folds and recursive functions over lists) or a rule with no state of its own,
where the runs look at every input up to their bounds. Of the parts that section 7
leaves out, the in-place rename and the propagation of renamed folders would come first
if a controller created such jobs again. Runs use two to four of everything; theorems
hold for any number.
