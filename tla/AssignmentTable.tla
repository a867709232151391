-------------------------- MODULE AssignmentTable --------------------------
(***************************************************************************)
(* The file-to-episode assignment table of one show                        *)
(* (engine/episode_assignments.py, EpisodeAssignmentTable): which file     *)
(* claims which run of episodes, part groups of files that make up one     *)
(* episode, and why a file has no claim.                                   *)
(*                                                                         *)
(* A run is a set of slots; Runs holds the contiguous ones of one season,  *)
(* which is all assign accepts.  Confidence, titles and part order beyond  *)
(* the first part are left out.                                            *)
(***************************************************************************)
EXTENDS FiniteSets

CONSTANTS
    Files,       \* video files, by path
    Slots,       \* episodes
    Runs,        \* contiguous, nonempty runs of slots of one season
    Groups,      \* part group ids
    NoGroup      \* part_group 0

ASSUME TableAssumption ==
    /\ Runs \subseteq SUBSET Slots
    /\ {} \notin Runs
    /\ \A s \in Slots : {s} \in Runs
    /\ NoGroup \notin Groups

VARIABLES
    files,       \* the files registered in the table
    slots,       \* the slots registered in it
    claim,       \* file -> its Assignment, or Unclaimed
    reason       \* file -> its unassigned_reasons entry, or NoReason

tableVars == <<files, slots, claim, reason>>

\* Evidence tags that rules tell apart.  "exact" is title-agree or
\* title-strong, "inexact" title-strong-inexact, "weak" title-weak-disagree;
\* "adjusted" stands for run-trimmed, run-shifted and offset-inferred.
Tags == {"exact", "segmented", "inexact", "fuzzy", "weak", "number", "relative",
         "ambiguous", "nomatch", "adjusted"}

NoReason == "none"
Reasons  == {"not in season", "no title match", "lost conflict", "other"}

Claims == [run : Runs, manual : BOOLEAN, group : Groups \cup {NoGroup},
           part : BOOLEAN, approved : BOOLEAN, evidence : SUBSET Tags]

Claim(r, manual, evidence) ==
    [run |-> r, manual |-> manual, group |-> NoGroup, part |-> FALSE,
     approved |-> FALSE, evidence |-> evidence]

Unclaimed == Claim({}, FALSE, {})

EmptyTable ==
    [files |-> {}, slots |-> {}, claim |-> [f \in Files |-> Unclaimed],
     reason |-> [f \in Files |-> NoReason]]

TableInit ==
    /\ files = {}
    /\ slots = {}
    /\ claim = EmptyTable.claim
    /\ reason = EmptyTable.reason

-----------------------------------------------------------------------------
(* Queries. *)

Assigned == {f \in Files : claim[f].run # {}}

Claimants(s) == {f \in Files : s \in claim[f].run}

\* The files that would have to go for a run to be claimed by one file alone.
ClaimantsOf(r) == {f \in Files : claim[f].run \cap r # {}}

ClaimedSlots == UNION {claim[f].run : f \in Files}

Grouped(f) == claim[f].group # NoGroup

Members(f) == {h \in Files : Grouped(f) /\ claim[h].group = claim[f].group}

\* Two claimants of s that are not parts of one group: a conflict.
Conflicted(s) ==
    \E f, h \in Claimants(s) : f # h /\ h \notin Members(f)

ConflictedFile(f) == \E s \in claim[f].run : Conflicted(s)

FreeGroups == {g \in Groups : \A f \in Files : claim[f].group # g}

-----------------------------------------------------------------------------
(* Mutations.  Each is the effect of one call; files and slots stay.       *)

NoFiles == [f \in {} |-> NoReason]

\* Record the claims in new; drop the claims of the files in dropped, each for
\* its reason.
Record(new, dropped) ==
    /\ claim' = [f \in Files |-> IF f \in DOMAIN new THEN new[f]
                                 ELSE IF f \in DOMAIN dropped THEN Unclaimed
                                 ELSE claim[f]]
    /\ reason' = [f \in Files |-> IF f \in DOMAIN new THEN NoReason
                                  ELSE IF f \in DOMAIN dropped THEN dropped[f]
                                  ELSE reason[f]]
    /\ UNCHANGED <<files, slots>>

\* mark_unassigned and unassign, for each file of F.
MarkUnassigned(F, why) == Record(NoFiles, [f \in F |-> why])

\* assign without displace, by the scanner.
Assign(f, r, evidence) == Record([h \in {f} |-> Claim(r, FALSE, evidence)], NoFiles)

\* assign with displace, by the user: the other claimants of the run go.
AssignDisplacing(f, r) ==
    Record([h \in {f} |-> Claim(r, TRUE, {})], [h \in ClaimantsOf(r) \ {f} |-> "other"])

\* Mutant: the members keep their evidence.
GroupPartsKeepingEvidence(F, lead, r, manual, dropped) ==
    /\ FreeGroups # {}
    /\ LET g == CHOOSE g \in FreeGroups : TRUE
       IN  Record([f \in F |-> [Claim(r, manual, claim[f].evidence)
                                EXCEPT !.group = g, !.part = (f # lead)]], dropped)

\* group_parts: the files of F become one group on the run r, lead its primary
\* carrier.  The members' old claims, groups and evidence are replaced.
GroupParts(F, lead, r, manual, dropped) ==
    /\ FreeGroups # {}
    /\ LET g == CHOOSE g \in FreeGroups : TRUE
       IN  Record([f \in F |-> [Claim(r, manual, {}) EXCEPT !.group = g, !.part = (f # lead)]],
                  dropped)

\* ungroup_parts: every member becomes an independent claim.
UngroupParts(f) ==
    Record([h \in Members(f) |-> [claim[h] EXCEPT !.group = NoGroup, !.part = FALSE]], NoFiles)

\* Mutant: only the row's own file.
SetApprovedOne(f) == Record([h \in {f} |-> [claim[h] EXCEPT !.approved = TRUE]], NoFiles)

\* set_approved: the whole group, or the one file.
SetApproved(f) ==
    Record([h \in Members(f) \cup {f} |-> [claim[h] EXCEPT !.approved = TRUE]], NoFiles)

-----------------------------------------------------------------------------
(* Invariants of the table. *)

TableTypeOK ==
    /\ files \subseteq Files
    /\ slots \subseteq Slots
    /\ claim \in [Files -> Claims \cup {Unclaimed}]
    /\ reason \in [Files -> Reasons \cup {NoReason}]

\* A file of the table either claims a run or has a reason for claiming none,
\* never both, and nothing is recorded of other files: the projection shows a
\* file as assigned or with its reason (project_preview_items).
Accounted ==
    \A f \in Files :
       /\ f \in files => (claim[f].run # {} <=> reason[f] = NoReason)
       /\ claim[f].run = {} => claim[f] = Unclaimed
       /\ f \notin files => claim[f] = Unclaimed /\ reason[f] = NoReason

\* Every claimed slot is one the provider lists: rows are built by looking it
\* up in the table.
ClaimsAreListed == ClaimedSlots \subseteq slots

Agree(c, d) == c.run = d.run /\ c.manual = d.manual /\ c.approved = d.approved

\* The files of a part group stand for one claim: one run, one origin, one
\* approval, and at most one of them has the row.
GroupsAgree ==
    \A f \in Files : \A h \in Members(f) :
       /\ Agree(claim[f], claim[h])
       /\ h = f \/ claim[h].part \/ claim[f].part
=============================================================================
