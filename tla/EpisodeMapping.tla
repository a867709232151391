--------------------------- MODULE EpisodeMapping ---------------------------
(***************************************************************************)
(* The assignment table of a show over scans, re-scans, the merge with a   *)
(* sibling folder of the same show, and the edits the user makes between   *)
(* them (run_tv_scan, carry_over_manual_assignments, merge_tables,         *)
(* EpisodeMappingService and the actions of the episode rows).             *)
(***************************************************************************)
EXTENDS EpisodeResolution

CONSTANTS
    Disk,        \* the sets of files a scan may find
    Listings,    \* the sets of slots the provider may list
    Siblings,    \* tables of sibling folders, each like EmptyTable
    MaxScans, MaxEdits

ASSUME MappingAssumption ==
    /\ Disk \subseteq SUBSET Files
    /\ Listings \subseteq SUBSET Slots
    /\ MaxScans \in Nat /\ MaxEdits \in Nat

\* What a title says for a claim, and what it says against one.
TitleTags   == {"exact", "inexact", "fuzzy", "segmented"}
ContraTags  == {"ambiguous", "nomatch"}
Consistent(c) == c.evidence \cap ContraTags = {} \/ c.evidence \cap TitleTags = {}

\* A sibling's table is one that a scan and edits have made.
ASSUME SiblingAssumption ==
    \A t \in Siblings :
       /\ t.files \subseteq Files /\ t.slots \subseteq Slots
       /\ t.claim \in [Files -> Claims \cup {Unclaimed}]
       /\ t.reason \in [Files -> Reasons \cup {NoReason}]
       /\ \A f \in Files : IF f \in t.files THEN t.claim[f].run # {} <=> t.reason[f] = NoReason
                           ELSE t.claim[f] = Unclaimed
       /\ \A f \in Files : t.claim[f].run \subseteq t.slots
       /\ \A f \in Files : /\ t.claim[f].group # NoGroup => t.claim[f].evidence = {}
                           /\ Consistent(t.claim[f])
       /\ \A f, h \in t.files :
             /\ t.claim[f].group # NoGroup /\ t.claim[h].group = t.claim[f].group
             => Agree(t.claim[f], t.claim[h]) /\ (h = f \/ t.claim[h].part \/ t.claim[f].part)

VARIABLES
    old,         \* the table a re-scan is to replace, EmptyTable at other times
    failed,      \* the last scan ended in an exception
    scans, edits

vars == <<lib, tableVars, stageVars, old, failed, scans, edits>>

Table == [files |-> files, slots |-> slots, claim |-> claim, reason |-> reason]

SetTable(t) ==
    /\ files' = t.files
    /\ slots' = t.slots
    /\ claim' = t.claim
    /\ reason' = t.reason

Init ==
    /\ lib \in Library
    /\ TableInit
    /\ stage = "open" /\ pass = "first"
    /\ todo = {} /\ taken = {} /\ snap = EmptyTable.claim
    /\ old = EmptyTable
    /\ failed = FALSE
    /\ scans = 0 /\ edits = 0

-----------------------------------------------------------------------------
(* Scans. *)

\* build_normal_table on what the disk and the provider have now.
ScannedTable(found, listing) ==
    [files  |-> found, slots |-> listing,
     claim  |-> [f \in Files |-> IF f \in found THEN ScannedClaim(f, listing) ELSE Unclaimed],
     reason |-> [f \in Files |-> IF f \in found THEN ScannedReason(f, listing) ELSE NoReason]]

BeginScan(found, listing) ==
    LET t == ScannedTable(found, listing)
    IN  /\ stage = "open"
        /\ scans < MaxScans
        /\ scans' = scans + 1
        /\ old' = Table
        /\ failed' = FALSE
        /\ SetTable(t)
        /\ stage' = "rescue" /\ pass' = "first"
        /\ todo' = {f \in found : t.reason[f] = "not in season"}
        /\ taken' = UNION {t.claim[f].run : f \in found}
        /\ snap' = EmptyTable.claim
        /\ UNCHANGED <<lib, edits>>

OldMembers(f) ==
    {h \in Files : old.claim[f].group # NoGroup /\ old.claim[h].group = old.claim[f].group}

BeginCarryOver ==
    /\ stage = "hint"
    /\ todo = {}
    /\ stage' = "carry"
    /\ todo' = {f \in Files : old.claim[f].manual}
    /\ taken' = {}
    /\ UNCHANGED <<lib, tableVars, pass, snap, old, failed, scans, edits>>

\* A manual claim without a group is re-applied, unless the file or one of the
\* episodes is gone.
CarryOverFile(f) ==
    LET run == old.claim[f].run
    IN  /\ stage = "carry"
        /\ f \in todo /\ OldMembers(f) = {}
        /\ todo' = todo \ {f}
        /\ IF f \in files /\ run \subseteq slots THEN AssignDisplacing(f, run)
           ELSE UNCHANGED tableVars
        /\ UNCHANGED <<lib, stage, pass, taken, snap, old, failed, scans, edits>>

\* Mutant: the primary is re-applied without its parts.
CarryOverGroupLeadOnly(f) ==
    LET run == old.claim[f].run
        group == OldMembers(f)
    IN  /\ stage = "carry"
        /\ f \in todo /\ Cardinality(group) >= 2
        /\ todo' = todo \ group
        /\ IF group \subseteq files /\ run \subseteq slots
           THEN \E lead \in group : ~old.claim[lead].part /\ AssignDisplacing(lead, run)
           ELSE UNCHANGED tableVars
        /\ UNCHANGED <<lib, stage, pass, taken, snap, old, failed, scans, edits>>

\* So is a manual group, whole or not at all; the first part found leads it.
CarryOverGroup(f) ==
    LET run == old.claim[f].run
        group == OldMembers(f)
    IN  /\ stage = "carry"
        /\ f \in todo /\ Cardinality(group) >= 2
        /\ todo' = todo \ group
        /\ IF group \subseteq files /\ run \subseteq slots
           THEN \E lead \in group :
                  /\ ~old.claim[lead].part \/ \A h \in group : old.claim[h].part
                  /\ GroupParts(group, lead, run, TRUE,
                                [h \in ClaimantsOf(run) \ group |-> "other"])
           ELSE UNCHANGED tableVars
        /\ UNCHANGED <<lib, stage, pass, taken, snap, old, failed, scans, edits>>

\* group_parts raises ValueError for a group that has only one member left: it
\* escapes run_tv_scan, and fail_scan_state drops the show's table.
CarryOverRaises(f) ==
    LET run == old.claim[f].run
        group == OldMembers(f)
    IN  /\ stage = "carry"
        /\ f \in todo /\ Cardinality(group) = 1
        /\ group \subseteq files /\ run \subseteq slots
        /\ SetTable(EmptyTable)
        /\ stage' = "open" /\ todo' = {}
        /\ old' = EmptyTable
        /\ failed' = TRUE
        /\ UNCHANGED <<lib, pass, taken, snap, scans, edits>>

\* A group of one whose file or episode is gone is skipped.
CarryOverSkipped(f) ==
    LET group == OldMembers(f)
    IN  /\ stage = "carry"
        /\ f \in todo /\ Cardinality(group) = 1
        /\ ~(group \subseteq files /\ old.claim[f].run \subseteq slots)
        /\ todo' = todo \ group
        /\ UNCHANGED <<lib, tableVars, stage, pass, taken, snap, old, failed, scans, edits>>

EndScan ==
    /\ stage = "carry"
    /\ todo = {}
    /\ stage' = "open"
    /\ old' = EmptyTable
    /\ UNCHANGED <<lib, tableVars, pass, todo, taken, snap, failed, scans, edits>>

\* reconcile_scanned_episode_claims: the table of a sibling folder is absorbed
\* (merge_tables, its groups under new ids) and the conflicts resolved.
Absorb(t) ==
    LET theirs == {t.claim[f].group : f \in t.files} \ {NoGroup}
    IN  /\ stage = "open" /\ files # {}
        /\ t.files \cap files = {}
        /\ \E id \in [theirs -> FreeGroups] :
              /\ \A g, h \in theirs : g # h => id[g] # id[h]
              /\ claim' = [f \in Files |->
                             IF f \notin t.files THEN claim[f]
                             ELSE [t.claim[f] EXCEPT !.group = IF @ = NoGroup THEN @ ELSE id[@]]]
        /\ files' = files \cup t.files
        /\ slots' = slots \cup t.slots
        /\ reason' = [f \in Files |-> IF f \in t.files THEN t.reason[f] ELSE reason[f]]
        /\ stage' = "parts" /\ pass' = "merge"
        /\ todo' = {f \in files' : lib[f].marker = 1}
        /\ taken' = {} /\ snap' = EmptyTable.claim
        /\ UNCHANGED <<lib, old, failed, scans, edits>>

\* The stages of EpisodeResolution, and the end of a merge.
Resolve ==
    /\ \/ \E f \in todo :
            \/ RescueTitle(f) \/ RehomeNumbered(f) \/ DropScattered(f) \/ MoveRun(f)
            \/ RescueFuzzy(f) \/ RescueHint(f) \/ DetectParts(f)
       \/ \E e \in todo : TrimSlot(e) \/ ShiftSlot(e) \/ ResolveSlot(e)
       \/ \E n \in todo : FollowOffset(n)
       \/ NextStage
    /\ UNCHANGED <<old, failed, scans, edits>>

CarryOver == \/ BeginCarryOver
             \/ \E f \in todo : \/ CarryOverFile(f) \/ CarryOverGroup(f)
                                \/ CarryOverRaises(f) \/ CarryOverSkipped(f)
             \/ EndScan

-----------------------------------------------------------------------------
(* Edits.  They need a row: every file has one but the parts of a group,   *)
(* which ride their primary's.  None is accepted during a scan.            *)

HasRow(f) == f \in files /\ ~claim[f].part

Edit ==
    /\ stage = "open"
    /\ edits < MaxEdits
    /\ edits' = edits + 1
    /\ UNCHANGED <<lib, stageVars, old, failed, scans>>

\* assign_file, assign_or_extend_file and each assignment of apply_bulk.
ManualAssign(f, r) ==
    /\ Edit
    /\ HasRow(f) /\ r \subseteq slots
    /\ AssignDisplacing(f, r)

\* unassign_file
Unassign(f) ==
    /\ Edit
    /\ HasRow(f) /\ f \in Assigned
    /\ MarkUnassigned({f}, "other")

\* unassign_all
UnassignAll ==
    /\ Edit
    /\ Assigned # {}
    /\ MarkUnassigned(Assigned, "other")

\* "Keep this file" on the row of f at the slot e: resolve_conflict.
KeepThis(f, e) ==
    /\ Edit
    /\ HasRow(f) /\ ConflictedFile(f) /\ e \in claim[f].run
    /\ MarkUnassigned(Claimants(e) \ {f}, "lost conflict")

\* "Merge into one episode" on a conflicted row of the slot e: merge_files.
MergeParts(e) ==
    /\ Edit
    /\ \E f \in Claimants(e) : HasRow(f) /\ ConflictedFile(f)
    /\ Cardinality(Claimants(e)) >= 2
    /\ \E lead \in Claimants(e) :
          /\ \A f \in Claimants(e) : lib[f].marker = 1 => lib[lead].marker = 1
          /\ GroupParts(Claimants(e), lead, {e}, TRUE, NoFiles)

\* ungroup_file
Ungroup(f) ==
    /\ Edit
    /\ HasRow(f) /\ Grouped(f) /\ ~ConflictedFile(f)
    /\ UngroupParts(f)

\* approve_file
Approve(f) ==
    /\ Edit
    /\ HasRow(f) /\ Automatic(f) /\ ~ConflictedFile(f) /\ ~claim[f].approved
    /\ SetApproved(f)

UserEdit ==
    \/ \E f \in Files : Unassign(f) \/ Ungroup(f) \/ Approve(f)
    \/ \E f \in Files, r \in Runs : ManualAssign(f, r)
    \/ \E f \in Files, e \in Slots : KeepThis(f, e)
    \/ \E e \in Slots : MergeParts(e)
    \/ UnassignAll

Next ==
    \/ \E found \in Disk, listing \in Listings : BeginScan(found, listing)
    \/ Resolve
    \/ CarryOver
    \/ \E t \in Siblings : Absorb(t)
    \/ UserEdit

Spec == Init /\ [][Next]_vars

\* A scan runs on its worker thread until it ends.
FairSpec == Spec /\ WF_vars(Resolve \/ CarryOver)

-----------------------------------------------------------------------------
(* Properties.                                                             *)

\* Type invariant.
TypeOK ==
    /\ lib \in Library
    /\ TableTypeOK
    /\ stage \in Stages /\ pass \in {"first", "second", "merge"}
    /\ todo \subseteq Files \cup Slots \cup Seasons /\ taken \subseteq Slots
    /\ snap \in [Files -> Claims \cup {Unclaimed}]
    /\ failed \in BOOLEAN
    /\ scans \in 0 .. MaxScans /\ edits \in 0 .. MaxEdits

\* Through scans, merges and edits the table accounts for its files once, claims
\* listed episodes only, and keeps part groups of one mind
\* (episode_assignments.py, episode_mapping_service.py).
TableAccounted == TypeOK /\ Accounted /\ ClaimsAreListed /\ GroupsAgree

\* No stage of a scan or a merge changes what the user assigned.
ManualClaimsStand ==
    [][\A f \in Files :
          claim[f].manual /\ stage \in RescueStages \cup ResolveStages => claim'[f] = claim[f]]_vars

\* The rescues leave claims that rest on a title alone (the docstring of
\* unassign_same_season_scattered_titles).
TitleClaimsStand ==
    [][\A f \in Files :
          /\ stage \in RescueStages
          /\ claim[f].evidence \cap TitleTags # {}
          => claim'[f] = claim[f]]_vars

\* The rescues of files without a claim only take episodes nobody claims,
\* although they look them up in a set copied before the loop.  The moves of
\* files with a claim are not of this kind: see NoNewConflict.
RescuedSlotsWereFree ==
    [][\A f \in Files :
          stage \in {"rescue", "fuzzy", "hint"} /\ claim'[f].run # claim[f].run
          => claim'[f].run \cap ClaimedSlots = {}]_vars

\* The one file with an episode's own title keeps the episode, whatever else
\* the resolution of conflicts moves, trims, awards or gives up.
SoleTitled(f, e) ==
    /\ claim[f].run = {e} /\ "exact" \in claim[f].evidence
    /\ \A h \in Claimants(e) \ {f} : "exact" \notin claim[h].evidence
TitledFileKeepsEpisode ==
    [][\A f \in Files, e \in Slots :
          SoleTitled(f, e) /\ stage \in ResolveStages => claim'[f].run = {e}]_vars

\* What a title says stands: the rescues leave it, and the resolution of
\* conflicts does not take its episode from it.
TitlesStand == TitleClaimsStand /\ TitledFileKeepsEpisode

\* A part group that loses a conflict loses it as a whole.  One that ties with
\* copies of its own title does not: see GroupsNotConsumed.
GroupsLoseWhole ==
    [][stage = "resolve" =>
          \A f \in Files : \A h \in Members(f) :
             claim'[f].run = {} /\ reason'[f] = "lost conflict" => claim'[h].run = {}]_vars

\* "groups are never consumed by the pile-up or duplicate-copy rules" (the
\* docstring of detect_part_groups), which are the rules with other reasons.
\* It does not hold; the README tells how.
GroupsNotConsumed ==
    [][stage = "resolve" =>
          \A f \in Files : Grouped(f) /\ claim'[f].run = {} => reason'[f] # "other"]_vars

\* Manual assignments of the replaced table: their file, or the whole part
\* group, and the episodes are still there and no other such claim overlaps.
Restorable(f) ==
    /\ old.claim[f].manual
    /\ OldMembers(f) \cup {f} \subseteq files /\ old.claim[f].run \subseteq slots
    /\ \A h \in Files \ (OldMembers(f) \cup {f}) :
          old.claim[h].manual => old.claim[h].run \cap old.claim[f].run = {}
ScanIsOver == stage = "carry" /\ stage' = "open"

\* Manual assignments survive a re-scan that succeeds, and part groups as such.
ManualSurvivesScan ==
    [][ScanIsOver /\ ~failed' =>
          \A f \in Files : Restorable(f) =>
             /\ claim'[f].manual /\ claim'[f].run = old.claim[f].run
             /\ \A h \in OldMembers(f) : claim'[h].group = claim'[f].group]_vars

\* "manual assignments survive re-scans of the same show match" (the docstring
\* of carry_over_manual_assignments), whether or not a scan succeeds.
\* It does not hold; the README tells how.
ManualSurvivesRescan ==
    [][ScanIsOver => \A f \in Files : Restorable(f) => claim'[f].manual]_vars

\* "Rescues only take unclaimed slots, so no new conflicts can appear" (the
\* comment in _build_normal_preview on the rescues of the second pass).
\* It does not hold; the README tells how.
NoNewConflict ==
    [][\A e \in Slots :
          Conflicted(e)' /\ stage \in RescueStages /\ pass = "second" => Conflicted(e)]_vars

\* Every scan ends: the moves of multi-episode files reach a fixpoint and no
\* stage waits for another.
ScanEnds == stage # "open" ~> stage = "open"
=============================================================================
