------------------------- MODULE EpisodeResolution -------------------------
(***************************************************************************)
(* From the files of a show to its assignment table                        *)
(* (engine/_episode_resolution.py, run by TVScanner._build_normal_preview):*)
(* each file is resolved on its own from its numbers and its title, then   *)
(* the rescues re-home files, part groups are detected, conflicts resolved *)
(* and the losers rescued once more.                                       *)
(*                                                                         *)
(* Every function is a stage that visits its files or slots one by one,    *)
(* with the sets and claims it has copied before its loop: todo, taken and *)
(* snap.  The order of a loop, which is that of dictionaries filled in     *)
(* file name order, is left open.  What text matching finds in a name is   *)
(* data (Library); season 0 and extras folders are not modelled.           *)
(***************************************************************************)
EXTENDS AssignmentTable, Naturals

CONSTANTS
    Seasons, SeasonOf,      \* slot -> its season
    NoSlot,
    Names, NoName,          \* normalized titles in file names
    Library                 \* what the shows on disk may look like

\* FileEntry and what its title matches among the provider's titles.
Info == [season    : Seasons,             \* folder_season
         numbers   : SUBSET Slots,        \* slots of its season with its parsed numbers
         hint      : Runs \cup {{}},      \* the S##E## run of its name, if it has one
         exact     : Slots \cup {NoSlot}, \* the slot whose title it carries
         near      : SUBSET Slots,        \* slots whose titles contain or extend it
         weak      : Slots \cup {NoSlot}, \* the slot with its part-numbered title
         extended  : Runs \cup {{}},      \* the run around its match its title names
         segments  : Runs \cup {{}},      \* the run its title's segments name
         fuzzy     : BOOLEAN,             \* its title and segments match approximately
         scattered : SUBSET {"across", "within"},   \* they name several, but no run
         offset    : Runs \cup {{}},      \* its numbers, shifted as the anchors' are
         name      : Names \cup {NoName},
         base      : Names \cup {NoName}, \* the name less its part marker
         marker    : Nat]                 \* the part marker; 0: none

ASSUME ResolutionAssumption ==
    /\ SeasonOf \in [Slots -> Seasons]
    /\ NoSlot \notin Slots
    /\ NoName \notin Names
    /\ Library \subseteq [Files -> Info]

VARIABLES
    lib,         \* the files' data, the same at every scan
    stage,       \* the function at work, or "open": no scan is running
    pass,        \* "first", "second" (after the conflicts) or "merge"
    todo,        \* files or slots its loop has still to visit
    taken,       \* its copy of claimed_slots
    snap         \* its copy of the claims in conflict

stageVars == <<stage, pass, todo, taken, snap>>

RescueStages  == {"rescue", "rehome", "across", "segments", "within", "fuzzy",
                  "offset", "hint"}
ResolveStages == {"parts", "trim", "shift", "resolve"}
Stages == RescueStages \cup ResolveStages \cup {"carry", "open"}

SeasonsOf(r) == {SeasonOf[s] : s \in r}
InSeason(S, n) == {s \in S : SeasonOf[s] = n}

-----------------------------------------------------------------------------
(* One file on its own: resolve_file.                                      *)

\* match_title_in_titles: the exact title, else the only near one, of S.
Matched(f, S) ==
    LET near == lib[f].near \cap S
    IN  IF lib[f].exact \in S THEN {lib[f].exact} ELSE {s \in near : near = {s}}

\* A match too weak to be trusted against a number.
WeaklyMatched(f, S) == IF lib[f].near \cap S = {} THEN {lib[f].weak} \cap S ELSE {}

\* _resolve_number_only: what a claim by number alone is worth.
NumberEvidence(f, N, home) ==
    {"number"} \cup
    IF "within" \in lib[f].scattered \/ Cardinality(lib[f].near \cap home) > 1
    THEN {"ambiguous"}
    ELSE IF /\ Cardinality(N) >= 2
            /\ lib[f].segments # {} \/ "across" \in lib[f].scattered THEN {"nomatch"}
    ELSE IF lib[f].hint # {} THEN {"relative"} ELSE {}

\* _resolve_combined_title: the segments of the title name a run, and the title
\* as a whole is not that of a single-numbered file's episode.
CombinedTitle(f, home) ==
    /\ lib[f].segments # {} /\ lib[f].segments \subseteq home
    /\ \/ Cardinality(lib[f].numbers) >= 2
       \/ Cardinality(lib[f].numbers) = 1 /\ lib[f].exact \notin home

\* _extend_partial_title_run: a match that is not the whole title stands for a
\* run around it.
Extends(f, S, home) ==
    lib[f].extended # {} /\ S \subseteq lib[f].extended /\ lib[f].extended \subseteq home

\* _resolve_number_and_title: a title that agrees with the numbers, one too weak
\* to count against them, and one that overrides them.
NumberAndTitle(f, N, strong, home) ==
    LET title == IF strong # {} THEN strong ELSE WeaklyMatched(f, home)
        whole == lib[f].exact \in home
    IN  IF title \subseteq N
        THEN IF ~whole /\ Extends(f, N, home) THEN Claim(lib[f].extended, FALSE, {"number", "inexact"})
             ELSE Claim(N, FALSE, {"number", "exact"})
        ELSE IF strong = {} THEN Claim(N, FALSE, {"number", "weak"})
        ELSE IF Extends(f, strong, home) /\ (~whole \/ Cardinality(lib[f].numbers) > 1)
        THEN Claim(lib[f].extended, FALSE, {"inexact"})
        ELSE Claim(strong, FALSE, {IF whole THEN "exact" ELSE "inexact"})

\* The phases of resolve_file, in its order; a claim on no slot is none.
Found(f, listing) ==
    LET home   == InSeason(listing, lib[f].season)
        N      == lib[f].numbers \cap home
        strong == Matched(f, home)
    IN  IF CombinedTitle(f, home)
        THEN Claim(lib[f].segments, FALSE, {"segmented", IF lib[f].fuzzy THEN "fuzzy" ELSE "exact"})
        ELSE IF N = {}
        THEN Claim(strong, FALSE, {IF lib[f].fuzzy /\ lib[f].exact \notin home THEN "inexact"
                                   ELSE "exact"})
        ELSE IF strong \cup WeaklyMatched(f, home) = {}
        THEN Claim(N, FALSE, NumberEvidence(f, N, home))
        ELSE NumberAndTitle(f, N, strong, home)

\* _resolve_into_table: numbers that form no run are ambiguous.
ScannedClaim(f, listing) ==
    IF Found(f, listing).run \in Runs THEN Found(f, listing) ELSE Unclaimed

ScannedReason(f, listing) ==
    LET run == Found(f, listing).run
    IN  IF run \in Runs THEN NoReason
        ELSE IF run = {} /\ lib[f].numbers # {} THEN "not in season"
        ELSE IF run = {} /\ lib[f].name # NoName THEN "no title match"
        ELSE "other"

-----------------------------------------------------------------------------
(* Stages.                                                                 *)

\* The function called after the one at work; the second pass is the rescue of
\* the losers, a merge of two tables resolves conflicts only.
After ==
    CASE stage = "rescue"   -> "rehome"
      [] stage = "rehome"   -> "across"
      [] stage = "across"   -> "segments"
      [] stage = "segments" -> "within"
      [] stage = "within"   -> "fuzzy"
      [] stage = "fuzzy"    -> IF pass = "first" THEN "offset" ELSE "hint"
      [] stage = "offset"   -> "parts"
      [] stage = "parts"    -> "trim"
      [] stage = "trim"     -> "shift"
      [] stage = "shift"    -> "resolve"
      [] stage = "resolve"  -> IF pass = "merge" THEN "open" ELSE "rescue"
      [] stage = "hint"     -> "carry"

Lost(f)       == reason[f] = "lost conflict"
LostHere(f)   == reason[f] \in {"lost conflict", "not in season"}
Unplaced(f)   == reason[f] \in {"lost conflict", "not in season", "no title match"}
Automatic(f)  == f \in Assigned /\ ~claim[f].manual
NumberOnly(f) == claim[f].evidence # {} /\ claim[f].evidence \subseteq {"number", "relative"}

\* The season a file is looked for in: the name's own, else the folder's.
HomeSeason(f) ==
    IF lib[f].hint # {} THEN CHOOSE n \in SeasonsOf(lib[f].hint) : TRUE ELSE lib[f].season

\* Files whose titles anchor the numbering of the source season n, and those
\* that would follow where all the anchors agree.
Anchors(n) ==
    {f \in Files : /\ HomeSeason(f) = n /\ Automatic(f) /\ lib[f].offset # {}
                   /\ claim[f].evidence \cap {"exact", "inexact", "segmented"} # {}}
OffsetKnown(n) ==
    Cardinality(Anchors(n)) >= 2 /\ \A f \in Anchors(n) : claim[f].run = lib[f].offset
Movers(n) ==
    {f \in Files :
       /\ OffsetKnown(n) /\ HomeSeason(f) = n
       /\ lib[f].offset # {} /\ lib[f].offset \subseteq slots
       /\ \/ /\ Automatic(f) /\ claim[f].evidence \subseteq {"number", "relative"}
             /\ SeasonsOf(claim[f].run) = SeasonsOf(lib[f].offset)
             /\ claim[f].run # lib[f].offset
          \/ LostHere(f)}

\* Files whose title's segments name a run of another season than the one they
\* claim in, or failed to claim in; and files that match nothing there at all.
OtherSeason(f) ==
    /\ lib[f].segments # {} /\ ~lib[f].fuzzy /\ lib[f].segments \subseteq slots
    /\ SeasonsOf(lib[f].segments) # IF Automatic(f) THEN SeasonsOf(claim[f].run) ELSE {lib[f].season}

Mismatched == {f \in Files : Automatic(f) /\ "nomatch" \in claim[f].evidence}
RunMoves ==
    {f \in Files : OtherSeason(f) /\ \/ f \in Mismatched
                                     \/ /\ reason[f] = "not in season"
                                        /\ Cardinality(lib[f].numbers) >= 2}

\* What the loop of a function goes through, as computed before it.
Listed(st) ==
    CASE st = "rescue"   -> {f \in Files : LostHere(f)}
      [] st = "rehome"   -> {f \in Files : Automatic(f) /\ NumberOnly(f)}
      [] st = "across"   -> {f \in Mismatched : ~OtherSeason(f) /\ "across" \in lib[f].scattered}
      [] st = "segments" -> RunMoves
      [] st = "within"   -> {f \in Files : /\ "within" \in lib[f].scattered
                                           /\ \/ Unplaced(f)
                                              \/ /\ Automatic(f)
                                                 /\ claim[f].evidence \cap {"ambiguous", "nomatch"} # {}}
      [] st = "fuzzy"    -> {f \in Files : Unplaced(f)}
      [] st = "offset"   -> {n \in Seasons : OffsetKnown(n)}
      [] st = "hint"     -> {f \in Files : Lost(f)}
      [] st = "parts"    -> {f \in files : lib[f].marker = 1}
      [] st \in {"trim", "shift", "resolve"} -> {s \in Slots : Conflicted(s)}
      [] OTHER           -> {}

\* Enter a function: it copies what it will iterate over and look up.
Enter(st) ==
    /\ stage' = st
    /\ pass' = IF st = "rescue" THEN "second" ELSE pass
    /\ todo' = Listed(st)
    /\ taken' = IF st \in RescueStages THEN ClaimedSlots ELSE {}
    /\ snap' = IF st \in {"trim", "shift"} THEN claim ELSE EmptyTable.claim

\* Mutant: the episodes just assigned are not added to claimed_slots.
VisitUnclaimed(f, r, evidence) ==
    /\ f \in todo
    /\ todo' = todo \ {f}
    /\ IF r = {} THEN UNCHANGED tableVars ELSE Assign(f, r, evidence)
    /\ UNCHANGED <<lib, stage, pass, taken, snap>>

\* One round of a loop over files: f is given the run r, or none if it is {}.
Visit(f, r, evidence) ==
    /\ f \in todo
    /\ todo' = todo \ {f}
    /\ IF r = {} THEN UNCHANGED <<tableVars, taken>>
       ELSE /\ Assign(f, r, evidence)
            /\ taken' = (taken \ claim[f].run) \cup r
    /\ UNCHANGED <<lib, stage, pass, snap>>

-----------------------------------------------------------------------------
(* Rescues.                                                                *)

\* The listed slot with the file's very title, unless it is taken.
FreeTitle(f) == {lib[f].exact} \cap (slots \ taken)

\* rescue_cross_season_titles, for files without a claim.
RescueTitle(f) ==
    /\ stage = "rescue"
    /\ Visit(f, {s \in FreeTitle(f) : /\ Cardinality(lib[f].numbers) = 1
                                      /\ SeasonOf[s] # lib[f].season}, {"exact"})

\* rescue_cross_season_titles, for claims by number alone.
RehomeNumbered(f) ==
    /\ stage = "rehome"
    /\ Visit(f, {s \in FreeTitle(f) : /\ Cardinality(lib[f].numbers) = 1
                                      /\ SeasonOf[s] \notin SeasonsOf(claim[f].run)}, {"exact"})

\* rescue_cross_season_segmented and unassign_same_season_scattered_titles: a
\* claim whose title contradicts it goes.
DropScattered(f) ==
    /\ stage \in {"across", "within"}
    /\ f \in todo
    /\ todo' = todo \ {f}
    /\ MarkUnassigned({f}, "other")
    /\ UNCHANGED <<lib, stage, pass, taken, snap>>

\* rescue_cross_season_segmented: the run is free, but for the file's own slots.
CanMove(f) == lib[f].segments \cap (taken \ claim[f].run) = {}

MoveRun(f) ==
    /\ stage = "segments"
    /\ CanMove(f)
    /\ Visit(f, lib[f].segments, {"segmented"})

\* rescue_same_season_fuzzy_titles: the one free slot of its season that matches.
RescueFuzzy(f) ==
    /\ stage = "fuzzy"
    /\ Visit(f, Matched(f, InSeason(slots, HomeSeason(f)) \ taken), {"fuzzy"})

\* apply_uniform_offset_rescue for one source season: the slots its movers leave
\* count as free, and a mover gives way to those the loop met before it.
Follows(F, free) ==
    /\ \A f \in F : lib[f].offset \subseteq free
    /\ \A f, h \in F : f # h => lib[f].offset \cap lib[h].offset = {}

FollowOffset(n) ==
    LET free == slots \ UNION {claim[f].run : f \in Files \ Movers(n)}
    IN  /\ stage = "offset"
        /\ n \in todo
        /\ todo' = todo \ {n}
        /\ \E F \in SUBSET Movers(n) :
              /\ Follows(F, free)
              /\ \A f \in Movers(n) \ F : ~Follows(F \cup {f}, free)
              /\ Record([f \in F |-> Claim(lib[f].offset, FALSE,
                           {"number", "adjusted"} \cup
                           IF lib[f].hint # {} /\ SeasonsOf(lib[f].hint) = SeasonsOf(lib[f].offset)
                           THEN {"relative"} ELSE {})], NoFiles)
        /\ UNCHANGED <<lib, stage, pass, taken, snap>>

\* rescue_explicit_hint_slots.
RescueHint(f) ==
    /\ stage = "hint"
    /\ Visit(f, IF lib[f].hint \subseteq slots \ taken THEN lib[f].hint ELSE {},
             {"number", "relative"})

-----------------------------------------------------------------------------
(* Part groups and conflicts: _auto_resolve_strong_title_conflicts.        *)

\* detect_part_groups: the files of one base name, if they are marked 1 to n and
\* all were given one run.
PartFiles(f) == {h \in files : lib[h].base = lib[f].base}
CompleteParts(f) ==
    /\ Cardinality(PartFiles(f)) >= 2
    /\ {lib[h].marker : h \in PartFiles(f)} = 1 .. Cardinality(PartFiles(f))
    /\ \A h \in PartFiles(f) : Automatic(h) /\ ~Grouped(h) /\ claim[h].run = claim[f].run

DetectParts(f) ==
    /\ stage = "parts"
    /\ f \in todo
    /\ todo' = todo \ {f}
    /\ IF CompleteParts(f) THEN GroupParts(PartFiles(f), f, claim[f].run, FALSE, NoFiles)
       ELSE UNCHANGED tableVars
    /\ UNCHANGED <<lib, stage, pass, taken, snap>>

\* The loop reaches the slot e, with the claims it had before the loop.
VisitSlot(st, e) ==
    /\ stage = st
    /\ e \in todo
    /\ todo' = todo \ {e}
    /\ UNCHANGED <<lib, stage, pass, taken, snap>>

SnapClaimants(e) == {f \in Files : e \in snap[f].run}

\* _trim_run_edge_conflicts: runs give up an edge that is another file's title.
TrimSlot(e) ==
    LET rivals  == SnapClaimants(e)
        singles == {f \in rivals : snap[f].run = {e} /\ "exact" \in snap[f].evidence}
        trimmed == {f \in rivals : /\ snap[f].run \ {e} \in Runs
                                   /\ lib[f].exact \in snap[f].run \ {e}}
        settles == Cardinality(singles) = 1 /\ \A f \in rivals : ~snap[f].manual
    IN  /\ VisitSlot("trim", e)
        /\ Record([f \in IF settles THEN trimmed ELSE {} |->
                       Claim(snap[f].run \ {e}, FALSE, snap[f].evidence \cup {"adjusted"})],
                  NoFiles)

\* _shift_run_off_segmented_conflict: the claim on r may slide off its edge e
\* to the free run p that its title still matches.
CanShift(f, e, p) ==
    /\ e \notin p /\ p \in Runs /\ p \subseteq slots
    /\ \E s \in p \ snap[f].run : p = (snap[f].run \ {e}) \cup {s}
    /\ lib[f].segments = p \/ Matched(f, p) \cup WeaklyMatched(f, p) # {}
    /\ \A h \in Files \ {f} : claim[h].run \cap p = {}

Movable(e) ==
    {f \in SnapClaimants(e) : /\ "segmented" \notin snap[f].evidence
                              /\ "exact" \in snap[f].evidence
                              /\ snap[f].run \ {e} \in Runs}

ShiftSlot(e) ==
    LET rivals    == SnapClaimants(e)
        segmented == {f \in rivals : "segmented" \in snap[f].evidence}
        settles   == /\ Cardinality(segmented) = 1 /\ Cardinality(Movable(e)) = 1
                     /\ \A f \in rivals : ~snap[f].manual
    IN  /\ VisitSlot("shift", e)
        /\ \/ \E f \in Movable(e), p \in Runs :
                 /\ settles /\ CanShift(f, e, p)
                 /\ Assign(f, p, snap[f].evidence \cup {"adjusted"})
           \/ /\ ~(settles /\ \E f \in Movable(e), p \in Runs : CanShift(f, e, p))
              /\ UNCHANGED tableVars

\* Mutant: an exact title counts as much as an inexact one.
StrengthTitlesTie(f) ==
    IF claim[f].evidence \cap {"exact", "inexact", "fuzzy", "segmented", "relative"} # {} THEN 2
    ELSE 0

\* _claim_strength
Strength(f) ==
    IF "exact" \in claim[f].evidence THEN 3
    ELSE IF claim[f].evidence \cap {"inexact", "fuzzy", "segmented", "relative"} # {} THEN 2
    ELSE 0

Strongest(e) == {f \in Claimants(e) : \A h \in Claimants(e) : Strength(h) <= Strength(f)}

\* _claims_are_duplicate_copies
AreCopies(F) == \A f, h \in F : lib[f].name = lib[h].name /\ lib[f].name # NoName

\* resolve_conflict for the copy f; the other copies are then marked as such.
KeepCopy(e, f, copies) ==
    Record(NoFiles, [h \in Claimants(e) \ {f} |-> IF h \in copies THEN "other"
                                                ELSE "lost conflict"])

\* Mutant: manual claims are not spared.
ContestedByAnyone(e) == Conflicted(e)

\* The slot belongs to the conflicts this function may settle.
Contested(e) == Conflicted(e) /\ \A f \in Claimants(e) : ~claim[f].manual

\* One copy is kept, one whose number is the slot's if there is one.
CopyToKeep(e, f) ==
    /\ f \in Strongest(e)
    /\ e \in lib[f].numbers \/ \A h \in Strongest(e) : e \notin lib[h].numbers

PileUp(e) ==
    Cardinality(Claimants(e)) >= 3 /\ \A f \in Claimants(e) : claim[f].run = {e}

\* One slot of _auto_resolve_strong_title_conflicts, on the present claims.
ResolveSlot(e) ==
    LET top == Strongest(e)
    IN  /\ VisitSlot("resolve", e)
        /\ \/ /\ Contested(e) /\ Cardinality(top) = 1
              /\ MarkUnassigned(Claimants(e) \ top, "lost conflict")
           \/ /\ Contested(e) /\ Cardinality(top) > 1 /\ AreCopies(top)
              /\ \E f \in top : CopyToKeep(e, f) /\ KeepCopy(e, f, top)
           \/ /\ Contested(e) /\ Cardinality(top) > 1 /\ ~AreCopies(top) /\ PileUp(e)
              /\ MarkUnassigned(Claimants(e), "other")
           \/ /\ \/ ~Contested(e)
                 \/ Cardinality(top) > 1 /\ ~AreCopies(top) /\ ~PileUp(e)
              /\ UNCHANGED tableVars

\* Mutant: conflicts are resolved until none is left.
NextStageUntilResolved ==
    /\ stage \notin {"open", "carry", "hint"}
    /\ IF stage = "segments" THEN \A f \in todo : ~CanMove(f) ELSE todo = {}
    /\ Enter(IF stage = "resolve" /\ Listed("resolve") # {} THEN "parts" ELSE After)
    /\ UNCHANGED <<lib, tableVars>>

NextStage ==
    /\ stage \notin {"open", "carry", "hint"}
    /\ IF stage = "segments" THEN \A f \in todo : ~CanMove(f) ELSE todo = {}
    /\ Enter(After)
    /\ UNCHANGED <<lib, tableVars>>
=============================================================================
