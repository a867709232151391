----------------------------- MODULE BulkAssign -----------------------------
(***************************************************************************)
(* Bulk Assign (gui_qt/widgets/_bulk_assign_panel.py, with the mode's      *)
(* entry, exit and commit in _media_workspace_actions.py and the commit    *)
(* itself in app/services/episode_mapping_service.py).                     *)
(*                                                                         *)
(* The panel takes a snapshot of who claims which slot, the user stages    *)
(* assignments and unassignments against that snapshot, and Apply commits  *)
(* them to the table of the show the mode was entered on.  The header's    *)
(* Fix Match and the roster's queue button stay within reach meanwhile:    *)
(* what they do to the show does not end the mode.                         *)
(*                                                                         *)
(* A slot is <<season, episode>>.  Searching, filters, colours and counts  *)
(* are left out: they only hide rows.                                      *)
(***************************************************************************)
EXTENDS AssignmentTable, Integers, Sequences

CONSTANTS
    ByName,      \* the files in the panel's order
    Evidence,    \* file -> the slots its name was parsed to, {} without evidence
    Tables,      \* the tables a scan of the show ends with
    MaxRescans   \* bound: rescans of the show

VARIABLES
    bulk,        \* Bulk Assign is open
    claimants,   \* slot -> files claiming it, as _claims_by_key
    pool,        \* the previews of files the panel was opened with
    staged,      \* _staged_pairs
    unassigning, \* _staged_unassign
    queued,      \* the show has a pending job
    scanning,    \* the show is being scanned again
    rescans      \* bookkeeping: rescans so far

panelVars == <<claimants, pool, staged, unassigning>>
showVars  == <<queued, scanning, rescans>>
bulkVars  == <<tableVars, bulk, panelVars, showVars>>

-----------------------------------------------------------------------------
(* What the panel reads off its snapshot and the staging. *)

AssignedKeys(f) == {s \in Slots : f \in claimants[s]}

StagedKeys(f) == {s \in Slots : <<f, s>> \in staged}

\* A slot nothing is staged into and whose claimants all go.
KeyIsFree(s) ==
    /\ \A f \in Files : <<f, s>> \notin staged
    /\ claimants[s] \subseteq unassigning

\* Still assigned once the staging is applied.
Keeps(f) == AssignedKeys(f) # {} /\ f \notin unassigning

Stageable(f) == f \in pool /\ StagedKeys(f) = {} /\ ~Keeps(f)

\* Right before or right after the slots the file is staged into, in their
\* season.
Adjoins(s, keys) ==
    keys = {} \/ \E k \in keys : /\ k[1] = s[1]
                                 /\ \/ s[2] = k[2] - 1 /\ \A m \in keys : m[2] >= k[2]
                                    \/ s[2] = k[2] + 1 /\ \A m \in keys : m[2] <= k[2]

\* suggest_assignments: M are the files mapped to the slots their names tell, each
\* unless a slot is missing, not free or told by a file mapped before it.
Mappable(f) ==
    Stageable(f) /\ f \in files /\ Evidence[f] \subseteq slots /\ \A s \in Evidence[f] : KeyIsFree(s)

Suggested(M) ==
    \A i \in DOMAIN ByName :
       ByName[i] \in M <=> /\ Mappable(ByName[i])
                          /\ \A j \in DOMAIN ByName :
                                j < i /\ ByName[j] \in M
                                  => Evidence[ByName[j]] \cap Evidence[ByName[i]] = {}

-----------------------------------------------------------------------------
(* The panel. *)

\* Who claims which slot (episode_slot_choices).
SlotChoices == [s \in Slots |-> Claimants(s)]

NobodyClaims == [s \in Slots |-> {}]

TableOf(t) == files' = t.files /\ slots' = t.slots /\ claim' = t.claim /\ reason' = t.reason

BulkInit ==
    /\ \E t \in Tables : files = t.files /\ slots = t.slots /\ claim = t.claim
                         /\ reason = t.reason
    /\ bulk = FALSE
    /\ claimants = NobodyClaims
    /\ pool = {}
    /\ staged = {}
    /\ unassigning = {}
    /\ queued = FALSE
    /\ scanning = FALSE
    /\ rescans = 0

ResetStaging == staged' = {} /\ unassigning' = {}

\* show_state: the panel's snapshot of the table, and nothing staged.
Snapshot == claimants' = SlotChoices /\ pool' = files /\ ResetStaging

EnterBulkAssign ==
    /\ ~bulk /\ ~queued /\ ~scanning
    /\ bulk' = TRUE
    /\ Snapshot
    /\ UNCHANGED <<tableVars, showVars>>

Stage ==
    /\ bulk
    /\ UNCHANGED <<tableVars, bulk, claimants, pool, showVars>>

\* A file is dropped onto a slot: refused when the slot is taken, the file is
\* still assigned, or the slot does not adjoin those the file is staged into.
HandleDrop(f, s) ==
    /\ Stage
    /\ f \in pool /\ s \in slots
    /\ KeyIsFree(s) /\ ~Keeps(f)
    /\ Adjoins(s, StagedKeys(f))
    /\ staged' = staged \cup {<<f, s>>}
    /\ UNCHANGED unassigning

\* The files keep their slots after all: what was staged into those slots, and
\* what the files themselves were staged into, is dropped.
Reclaim(F) ==
    /\ unassigning' = unassigning \ F
    /\ staged' = {p \in staged : \A f \in F : p[2] \notin AssignedKeys(f) /\ p[1] # f}

\* A click on a claimed slot turns the unassignment of its claimants, on or off.
SlotClicked(s) ==
    /\ Stage
    /\ claimants[s] # {}
    /\ IF claimants[s] \subseteq unassigning
       THEN Reclaim(claimants[s])
       ELSE unassigning' = unassigning \cup claimants[s] /\ UNCHANGED staged

\* Stage every file whose evidence points at slots that are still free.
AutoMapRemaining ==
    /\ Stage
    /\ ~scanning
    /\ \E M \in SUBSET {ByName[i] : i \in DOMAIN ByName} :
          /\ Suggested(M)
          /\ staged' = staged \cup {p \in M \X Slots : p[2] \in Evidence[p[1]]}
    /\ UNCHANGED unassigning

UnassignAll ==
    /\ Stage
    /\ staged' = {}
    /\ unassigning' = {f \in Files : AssignedKeys(f) # {}}

Reset == Stage /\ ResetStaging

-----------------------------------------------------------------------------
(* Apply. *)

\* The mode ends.  What the panel held is not read again before the next
\* EnterBulkAssign replaces it.
Leave ==
    /\ bulk' = FALSE
    /\ claimants' = NobodyClaims
    /\ pool' = {}
    /\ ResetStaging

\* Mutant: the staged slots are assigned one by one, the last one wins.
LandingOneByOne ==
    [f \in {g \in files : StagedKeys(g) # {} /\ StagedKeys(g) \subseteq slots}
        |-> Claim({CHOOSE s \in StagedKeys(f) : \A m \in StagedKeys(f) : m[2] <= s[2]}, TRUE, {})]

\* The files whose staged slots are one run the table accepts; assign raises
\* for the others, which are counted as skipped.
Landing ==
    [f \in {g \in files : StagedKeys(g) \in Runs /\ StagedKeys(g) \subseteq slots}
        |-> Claim(StagedKeys(f), TRUE, {})]

\* apply_bulk: the unassignments, then the staged runs, whose other claimants
\* are displaced, then one reprojection.
ApplyBulk ==
    LET taken   == UNION {Landing[f].run : f \in DOMAIN Landing}
        dropped == unassigning \cup {f \in Files : claim[f].run \cap taken # {}}
    IN  /\ unassigning \subseteq files
        /\ Record(Landing, [f \in dropped |-> "other"])

\* unassign raises for a file the table does not hold: the unassignments before
\* it stand, and the rows are not built again.
ApplyRaises ==
    \E f \in unassigning \ files :
       /\ \A g \in unassigning \ files : f <= g
       /\ MarkUnassigned({g \in unassigning : g < f}, "other")

\* The mode ends first; without a table, while the show is scanned, nothing is
\* applied.
Apply ==
    /\ bulk
    /\ staged # {} \/ unassigning # {}
    /\ Leave
    /\ IF scanning THEN UNCHANGED tableVars ELSE ApplyBulk \/ ApplyRaises
    /\ UNCHANGED <<queued, scanning, rescans>>

\* The user cancels, or selects another show: the staging is discarded.
Cancel == bulk /\ Leave /\ UNCHANGED <<tableVars, showVars>>

-----------------------------------------------------------------------------
(* What happens to the show meanwhile. *)

\* The roster's button queues the checked shows; the job ends or is removed.
QueueChecked ==
    /\ ~queued /\ ~scanning
    /\ queued' = TRUE
    /\ UNCHANGED <<tableVars, bulk, panelVars, scanning, rescans>>

Unqueue ==
    /\ queued
    /\ queued' = FALSE
    /\ UNCHANGED <<tableVars, bulk, panelVars, scanning, rescans>>

\* Fix Match adopts another match: the show's table and rows are gone until its
\* scan ends.
FixMatch ==
    /\ ~queued /\ ~scanning /\ rescans < MaxRescans
    /\ scanning' = TRUE
    /\ rescans' = rescans + 1
    /\ TableOf(EmptyTable)
    /\ UNCHANGED <<bulk, panelVars, queued>>

EndRescan ==
    /\ scanning
    /\ scanning' = FALSE
    /\ \E t \in Tables : TableOf(t)
    /\ UNCHANGED <<bulk, panelVars, queued, rescans>>

BulkNext ==
    \/ EnterBulkAssign \/ AutoMapRemaining \/ UnassignAll \/ Reset
    \/ \E f \in Files, s \in Slots : HandleDrop(f, s)
    \/ \E s \in Slots : SlotClicked(s)
    \/ Apply \/ Cancel
    \/ QueueChecked \/ Unqueue \/ FixMatch \/ EndRescan

BulkSpec == BulkInit /\ [][BulkNext]_bulkVars

-----------------------------------------------------------------------------
(* What the properties say. *)

\* Types, and the staging of the open panel: no two files are staged into one
\* slot, no staged slot or staged file keeps a claim of the snapshot, and each
\* file is staged into one season, so that Apply neither displaces a file the
\* user left alone nor moves one twice (_key_is_free, _handle_drop, the undo in
\* _on_slot_clicked).
StagingHolds ==
    /\ staged \subseteq pool \X Slots /\ unassigning \subseteq pool
    /\ bulk => \A p \in staged :
          /\ claimants[p[2]] \subseteq unassigning
          /\ ~Keeps(p[1])
          /\ \A q \in staged : q[2] = p[2] => q = p
          /\ \A q \in staged : q[1] = p[1] => q[2][1] = p[2][1]

\* The table is still the one of the snapshot, as far as the panel goes by it.
Fresh ==
    /\ \A s \in Slots : claimants[s] = Claimants(s)
    /\ \A p \in staged : p[2] \in slots

\* Applied to the table the panel was opened on, the staging does what the
\* panel showed and nothing else: a file staged into a contiguous run lands on
\* all of it, and no file that was neither staged nor unassigned changes its
\* claim (apply_bulk, "grouped" so that a run does not overwrite itself).
ApplyDoesWhatWasShown ==
    [][(Apply /\ ~scanning /\ Fresh) =>
          \A f \in files : IF StagedKeys(f) \in Runs THEN claim'[f].run = StagedKeys(f)
                           ELSE f \notin unassigning => claim'[f] = claim[f]]_bulkVars

\* A queued show keeps the mapping its job was built from.
\* It does not hold; the README tells how.
QueuedMappingKept == [][queued => UNCHANGED claim]_bulkVars
=============================================================================
