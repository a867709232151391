------------------------------- MODULE JobFiles -------------------------------
(* The files of rename and remux jobs: the metadata plan baked in when a job   *)
(* is queued, the moves into the output folder, the outputs of mkvmerge, the   *)
(* sidecars written afterwards, and the revert.  JobQueue has the rows and the *)
(* threads; here a job's file steps interleave with another job's revert and   *)
(* with what the user does to the disk.                                        *)
(*                                                                             *)
(* A directory is the release folder ("src") or, in the output root ("out"), a *)
(* show folder or one of its numbered siblings, or a season below it.  All the  *)
(* files of a job go to one show folder.  The ops of a job are a set, the order *)
(* in which it takes them is left open.                                         *)
EXTENDS Naturals, FiniteSets

CONSTANTS
    Scenes,         \* what the disk and the jobs may be at first
    Stems,          \* names of the user's files
    Settings,       \* settings: sidecars on, assets on TMDB, Plex names, local preferred
    MaxIntrusions   \* files the user removes or adds meanwhile (bound)

VARIABLES
    scene,          \* the files, the directories and the job ops of the start
    disk,           \* file path -> content; a content is named by the path it had
    folders,        \* directories of the output root
    job,            \* the jobs: their ops, metadata plan, undo data and stage
    titled,         \* contents into which mkvpropedit wrote a title
    gone,           \* contents the user removed
    intrusions

jobFilesVars == <<scene, disk, folders, job, titled, gone, intrusions>>

Dirs     == [root : {"src", "out", "none"}, show : Nat, top : Nat, sub : Nat]
Names    == Stems \union {"poster", "sidecar", "new"}
Kinds    == {"mkv", "sub", "img", "thumb"}
Paths    == [dir : Dirs, base : Names, kind : Kinds]
Ops      == [src : Paths, dir : Dirs, base : Names, kind : Kinds, picked : BOOLEAN, mux : BOOLEAN]
Sidecars == [slot : Paths, at : Paths, asset : BOOLEAN, extra : BOOLEAN]
Stages   == {"draft", "queued", "moving", "muxing", "sidecars", "completed", "failed", "restoring",
             "reverted", "revert_failed"}
Jobs     == [ops : SUBSET Ops, plan : SUBSET Sidecars, local : BOOLEAN, remap : Nat,
             todo : SUBSET (Ops \union Sidecars), moved : SUBSET Ops, made : SUBSET Dirs,
             written : SUBSET Paths, errors : BOOLEAN, stage : Stages]

JobIds == DOMAIN job
Stage(j, s) == job[j].stage = s

File(dir, base, kind) == [dir |-> dir, base |-> base, kind |-> kind]
Nowhere == [root |-> "none", show |-> 0, top |-> 0, sub |-> 0]
Downloaded == File(Nowhere, "sidecar", "img")
Added == File(Nowhere, "new", "img")
Top(d) == [d EXCEPT !.sub = 0]
WithParents(d) == {d, Top(d)}
Exists(p) == p \in DOMAIN disk
FilesIn(d) == {p \in DOMAIN disk : p.dir = d}

Without(f, P) == [p \in DOMAIN f \ P |-> f[p]]
With(f, p, c) == [q \in DOMAIN f \union {p} |-> IF q = p THEN c ELSE f[q]]
\* shutil.move replaces whatever file is at the new path.
Moved(f, old, new) == With(Without(f, {old}), new, f[old])

\* A colliding show folder is renumbered for the whole plan.
Remap(d, n) == IF n = 0 THEN d ELSE [d EXCEPT !.top = n]
Target(op, n) == File(Remap(op.dir, n), op.base, op.kind)
New(j, op) == Target(op, job[j].remap)

\* The folders the user's files are in at first.
FirstFolders == UNION {WithParents(p.dir) : p \in {q \in scene.files : q.dir.root = "out"}}

JobFilesInit ==
    /\ scene \in Scenes
    /\ disk = [p \in scene.files |-> p]
    /\ folders = FirstFolders
    /\ job = [j \in DOMAIN scene.jobs |->
                [ops |-> scene.jobs[j], plan |-> {}, local |-> FALSE, remap |-> 0, todo |-> {},
                 moved |-> {}, made |-> {}, written |-> {}, errors |-> FALSE, stage |-> "draft"]]
    /\ titled = {} /\ gone = {} /\ intrusions = 0

-----------------------------------------------------------------------------
(* Queueing: attach_metadata_plan.                                             *)

Videos(j) == {op \in job[j].ops : op.picked /\ op.kind = "mkv"}
ShowFolder(j) == Top((CHOOSE op \in scene.jobs[j] : TRUE).dir)

Sidecar(slot, dir, base, kind, asset, extra) ==
    [slot |-> slot, at |-> File(dir, base, kind), asset |-> asset, extra |-> extra]

\* The sidecars the settings ask for: a poster in the show folder, a thumbnail
\* beside every video, and under another name for Plex.
Wanted(j, asset, plex) ==
    LET show == ShowFolder(j) IN
    {Sidecar(op.src, op.dir, op.base, "thumb", asset, FALSE) : op \in Videos(j)}
    \union {Sidecar(op.src, op.dir, op.base, "img", asset, TRUE) : op \in IF plex THEN Videos(j) ELSE {}}
    \union (IF Videos(j) = {} THEN {}
            ELSE {Sidecar(File(show, "poster", "img"), show, "poster", "img", asset, FALSE)})

\* Companion files in the release that fill a slot, the first name that matches.
Inventory(slot) ==
    IF slot.base = "poster" THEN {p \in DOMAIN disk : p.dir.root = "src" /\ p.base = "poster"}
    ELSE LET named(kind) == {p \in DOMAIN disk : p.dir = slot.dir /\ p.base = slot.base /\ p.kind = kind}
         IN IF named("thumb") # {} THEN named("thumb") ELSE named("img")

Carry(s, local) ==
    [src |-> local, dir |-> s.at.dir, base |-> s.at.base, kind |-> s.at.kind, picked |-> TRUE, mux |-> FALSE]

\* add_job refuses a second queued job of one show or movie.
Queued(j) == job[j].stage \in {"queued", "moving", "muxing", "sidecars"}
DuplicateJob(j) == \E k \in JobIds : Queued(k) /\ ShowFolder(k) = ShowFolder(j)

\* A slot filled from the disk becomes a move of the job; slots with no asset
\* are dropped at the end.
AskedFor(j, want) == IF want.active THEN Wanted(j, want.asset, want.plex) ELSE {}
Found(s, want) == IF want.local THEN Inventory(s.slot) ELSE {}
Carried(j, want) == {Carry(s, CHOOSE p \in Found(s, want) : TRUE) :
                        s \in {w \in AskedFor(j, want) : Found(w, want) # {} /\ ~w.extra}}
Open(j, want) == {s \in AskedFor(j, want) : Found(s, want) = {} /\ s.asset}

Submit(j, want) ==
    /\ Stage(j, "draft") /\ ~DuplicateJob(j)
    /\ job' = [job EXCEPT ![j] = [job[j] EXCEPT
            !.ops = @ \union Carried(j, want), !.plan = Open(j, want),
            !.local = want.local, !.stage = "queued"]]
    /\ UNCHANGED <<scene, disk, folders, titled, gone, intrusions>>

-----------------------------------------------------------------------------
(* Execution: _execute_output_rename, execute_remux_op, execute_metadata_plan. *)

NothingRuns == \A j \in JobIds : job[j].stage \notin {"moving", "muxing", "sidecars"}
IsRemux(j) == \E op \in job[j].ops : op.mux
Plain(j) == {op \in job[j].ops : op.picked /\ ~op.mux}
Present(j) == {op \in Plain(j) : Exists(op.src)}
NextNumber(d) == CHOOSE n \in 1 .. Cardinality(folders) + 1 :
                    /\ Remap(d, n) \notin folders
                    /\ \A m \in 1 .. n - 1 : Remap(d, m) \in folders

\* Mutant: an existing file is a collision, an existing folder is none.
RemapForFile(j) ==
    IF \E op \in Present(j) : Exists(Target(op, 0)) THEN NextNumber(ShowFolder(j)) ELSE 0

\* output_target_collision_remap: an existing show folder is left alone.
RemapFor(j) ==
    IF \E op \in Present(j) : ShowFolder(j) \in folders \/ Exists(Target(op, 0))
    THEN NextNumber(ShowFolder(j)) ELSE 0

\* A source is missing, two files have one target, or a target is taken.
Wrong(j, n) ==
    \/ Present(j) # Plain(j)
    \/ \E op, other \in Present(j) : op # other /\ Target(op, n) = Target(other, n)
    \/ \E op \in Present(j) : Exists(Target(op, n))

\* Any error in the plan and nothing is moved: a rename then fails, a remux job
\* goes on with mkvmerge.
Execute(j) ==
    LET n == RemapFor(j) IN
    /\ Stage(j, "queued") /\ NothingRuns
    /\ \E op \in job[j].ops : Exists(op.src)
    /\ job' = [job EXCEPT ![j] = [job[j] EXCEPT
            !.remap = n, !.errors = Wrong(j, n),
            !.todo = IF Wrong(j, n) THEN {} ELSE Present(j),
            !.stage = IF Wrong(j, n) /\ ~IsRemux(j) THEN "failed" ELSE "moving"]]
    /\ UNCHANGED <<scene, disk, folders, titled, gone, intrusions>>

AllSourcesMissing(j) ==
    /\ Stage(j, "queued") /\ NothingRuns /\ \A op \in job[j].ops : ~Exists(op.src)
    /\ job' = [job EXCEPT ![j].stage = "failed"]
    /\ UNCHANGED <<scene, disk, folders, titled, gone, intrusions>>

\* apply_rename_plan, one file; an error leaves it where it is.
Move(j, op, ok) ==
    LET new == New(j, op) IN
    /\ Stage(j, "moving") /\ op \in job[j].todo
    /\ folders' = folders \union WithParents(new.dir)
    /\ IF ok /\ Exists(op.src)
         THEN /\ disk' = Moved(disk, op.src, new)
              /\ job' = [job EXCEPT ![j] = [job[j] EXCEPT
                    !.todo = @ \ {op}, !.moved = @ \union {op}, !.made = @ \union ({new.dir} \ folders)]]
         ELSE /\ UNCHANGED disk
              /\ job' = [job EXCEPT ![j] = [job[j] EXCEPT
                    !.todo = @ \ {op}, !.errors = TRUE, !.made = @ \union ({new.dir} \ folders)]]
    /\ UNCHANGED <<scene, titled, gone, intrusions>>

StartMuxing(j) ==
    /\ Stage(j, "moving") /\ job[j].todo = {}
    /\ job' = [job EXCEPT ![j] = [job[j] EXCEPT !.stage = "muxing",
                                           !.todo = {op \in job[j].ops : op.picked /\ op.mux}]]
    /\ UNCHANGED <<scene, disk, folders, titled, gone, intrusions>>

\* execute_remux_op: the target is where the plan put it, whatever the moves
\* were remapped to; one that exists is refused.
Mux(j, op, ok) ==
    LET new == Target(op, 0) IN
    /\ Stage(j, "muxing") /\ op \in job[j].todo
    /\ IF ok /\ Exists(op.src) /\ ~Exists(new)
         THEN /\ disk' = With(disk, new, disk[op.src])
              /\ folders' = folders \union WithParents(new.dir)
              /\ job' = [job EXCEPT ![j] = [job[j] EXCEPT !.todo = @ \ {op}, !.written = @ \union {new}]]
         ELSE /\ job' = [job EXCEPT ![j] = [job[j] EXCEPT !.todo = @ \ {op}, !.errors = TRUE]]
              /\ UNCHANGED <<disk, folders>>
    /\ UNCHANGED <<scene, titled, gone, intrusions>>

NothingDone(j) == job[j].moved = {} /\ job[j].written = {}

StartSidecars(j) ==
    /\ Stage(j, "muxing") /\ job[j].todo = {}
    /\ job' = [job EXCEPT ![j] = [job[j] EXCEPT !.stage = "sidecars",
                                           !.todo = IF NothingDone(j) THEN {} ELSE job[j].plan]]
    /\ UNCHANGED <<scene, disk, folders, titled, gone, intrusions>>

\* _resolve_target: the remapped show folder.
SidecarTarget(j, s) == [s.at EXCEPT !.dir = Remap(@, job[j].remap)]

\* execute_metadata_plan, one sidecar: an existing file stays only when local
\* files are preferred.
WriteSidecar(j, s, ok) ==
    LET at == SidecarTarget(j, s)
        kept == job[j].local /\ Exists(at)
    IN /\ Stage(j, "sidecars") /\ s \in job[j].todo
       /\ \/ /\ kept
             /\ job' = [job EXCEPT ![j].todo = @ \ {s}]
             /\ UNCHANGED <<disk, folders>>
          \/ /\ ~kept /\ ok
             /\ disk' = With(disk, at, Downloaded)
             /\ folders' = folders \union WithParents(at.dir)
             /\ job' = [job EXCEPT ![j] = [job[j] EXCEPT !.todo = @ \ {s}, !.written = @ \union {at}]]
          \/ /\ ~kept /\ ~ok
             /\ job' = [job EXCEPT ![j] = [job[j] EXCEPT !.todo = @ \ {s}, !.errors = TRUE]]
             /\ UNCHANGED <<disk, folders>>
       /\ UNCHANGED <<scene, titled, gone, intrusions>>

\* _embed_metadata edits the moved videos; then the undo data is stored.
Complete(j) ==
    /\ Stage(j, "sidecars") /\ job[j].todo = {}
    /\ titled' = titled \union {disk[p] : p \in {New(j, op) : op \in Plain(j) \intersect Videos(j)}
                                               \intersect DOMAIN disk}
    /\ job' = [job EXCEPT ![j].stage = IF NothingDone(j) /\ job[j].errors THEN "failed" ELSE "completed"]
    /\ UNCHANGED <<scene, disk, folders, gone, intrusions>>

-----------------------------------------------------------------------------
(* Revert: revert_job.                                                         *)

\* remove_generated_outputs: whatever is at the recorded paths by now, but for what
\* cannot be unlinked.
RemoveGenerated(j) ==
    \E kept \in SUBSET (job[j].written \intersect DOMAIN disk) :
        /\ Stage(j, "completed")
        /\ disk' = Without(disk, job[j].written \ kept)
        /\ job' = [job EXCEPT ![j] = [job[j] EXCEPT !.stage = "restoring", !.todo = job[j].moved,
                                               !.errors = kept # {}]]
        /\ UNCHANGED <<scene, folders, titled, gone, intrusions>>

\* restore_files, one file, back over whatever is at its old path by now.
Restore(j, op, ok) ==
    /\ Stage(j, "restoring") /\ op \in job[j].todo
    /\ IF ok /\ Exists(New(j, op))
         THEN disk' = Moved(disk, New(j, op), op.src) /\ job' = [job EXCEPT ![j].todo = @ \ {op}]
         ELSE job' = [job EXCEPT ![j] = [job[j] EXCEPT !.todo = @ \ {op}, !.errors = TRUE]] /\ UNCHANGED disk
    /\ UNCHANGED <<scene, folders, titled, gone, intrusions>>

\* Mutant: only directories that files were moved into.
LeftOfMoves(j) == {New(j, op).dir : op \in job[j].moved}

\* The directories a job made, wrote into or moved files into.
Left(j) == job[j].made \union {p.dir : p \in job[j].written} \union {New(j, op).dir : op \in job[j].moved}

\* cleanup_reverted_tree: created and left directories that are empty, upwards.  A
\* revert that had an error is not offered again (is_revertible_job).
Tidy(j) ==
    LET bare(remaining, d) == FilesIn(d) = {} /\ {e \in remaining : Top(e) = d} \subseteq {d}
        subs == {d \in Left(j) : d.sub # 0 /\ FilesIn(d) = {}}
        rest == folders \ subs
    IN /\ Stage(j, "restoring") /\ job[j].todo = {}
       /\ folders' = rest \ {d \in {Top(x) : x \in Left(j)} : bare(rest, d)}
       /\ job' = [job EXCEPT ![j].stage = IF job[j].errors THEN "revert_failed" ELSE "reverted"]
       /\ UNCHANGED <<scene, disk, titled, gone, intrusions>>

-----------------------------------------------------------------------------
(* The user meanwhile: a file is removed, or one appears where a job's was.    *)

UserRemoves(p) ==
    /\ intrusions < MaxIntrusions /\ Exists(p)
    /\ disk' = Without(disk, {p}) /\ gone' = gone \union {disk[p]}
    /\ intrusions' = intrusions + 1
    /\ UNCHANGED <<scene, folders, job, titled>>

UserAdds(p) ==
    /\ intrusions < MaxIntrusions /\ ~Exists(p)
    /\ disk' = With(disk, p, Added)
    /\ intrusions' = intrusions + 1
    /\ UNCHANGED <<scene, folders, job, titled, gone>>

JobFilesNext ==
    \/ \E j \in JobIds, want \in Settings : Submit(j, want)
    \/ \E j \in JobIds : Execute(j) \/ AllSourcesMissing(j) \/ StartMuxing(j) \/ StartSidecars(j)
                         \/ Complete(j) \/ RemoveGenerated(j) \/ Tidy(j)
    \/ \E j \in JobIds, ok \in BOOLEAN :
          \/ \E op \in job[j].ops : Move(j, op, ok) \/ Mux(j, op, ok) \/ Restore(j, op, ok)
          \/ \E s \in job[j].plan : WriteSidecar(j, s, ok)
    \/ \E p \in scene.files : UserRemoves(p) \/ UserAdds(p)

JobFilesSpec == JobFilesInit /\ [][JobFilesNext]_jobFilesVars

-----------------------------------------------------------------------------
(* Properties.                                                                 *)

\* Type correctness of the jobs on the disk.
JobFilesTypeOK ==
    /\ job \in [DOMAIN scene.jobs -> Jobs]
    /\ folders \subseteq Dirs
    /\ DOMAIN disk \subseteq Paths
    /\ \A p \in DOMAIN disk : disk[p] \in scene.files \union {Downloaded, Added}
    /\ intrusions \in 0 .. MaxIntrusions /\ gone \subseteq scene.files \union {Downloaded, Added}

\* What the user had is never lost, whatever moves, sidecars and reverts of
\* rename jobs do while the user removes files: each file of the start is on the
\* disk unless the user removed it.  (Not so when the user has put another file in
\* the old place and that one is moved by a job too: restore_files moves over what
\* is there by now.)
OnlyRemovals == intrusions = Cardinality(gone)
OriginalsKept ==
    (OnlyRemovals /\ \A j \in JobIds : ~IsRemux(j))
        => \A c \in scene.files \ gone : \E p \in DOMAIN disk : disk[p] = c

\* Jobs that were reverted leave the tree as it was: with every job either
\* reverted or not executed, and nobody else at work, each file is back at its
\* place, and no sidecar, output or folder is left.  (A job that failed because
\* its first move did keeps no undo data and leaves the folder it made.)  What a
\* job wrote over a file of the user, or over one a job had moved, is no better
\* for its revert: that unlinks what is there.
Undone(j) == job[j].stage \in {"draft", "queued", "reverted"} \/ (Stage(j, "failed") /\ job[j].made = {})
UsersPlaces == scene.files \union UNION {{New(j, op) : op \in job[j].moved} : j \in JobIds}
Restored == disk = [p \in scene.files |-> p] /\ folders = FirstFolders
RevertRestoresTree ==
    (intrusions = 0 /\ \A j \in JobIds : Undone(j) /\ job[j].written \intersect UsersPlaces = {}) => Restored

\* What the history tab offers: a job that was undone has left no trace.
\* It does not hold; the README tells how.
RevertLeavesNoTrace == (intrusions = 0 /\ \A j \in JobIds : Undone(j)) => Restored

\* The comment in _resolve_target: the sidecars follow the show folder that the
\* rename phase remapped, so a job's files land in one folder.
\* It does not hold; the README tells how.
JobLandsTogether ==
    \A j \in JobIds : Stage(j, "completed") =>
        Cardinality({Top(p.dir) : p \in job[j].written \union {New(j, op) : op \in job[j].moved}}) <= 1

\* The comment in _bake_metadata_plan: metadata must never fail a job, so a
\* rename that fails before its first move lacks one of the videos themselves.
\* It does not hold; the README tells how.
MetadataNeverFailsJob ==
    \A j \in JobIds : Stage(j, "failed") /\ ~IsRemux(j) /\ job[j].made = {}
        => \E op \in Videos(j) : ~Exists(op.src)
=============================================================================
