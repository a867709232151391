------------------------ MODULE EpisodeMappingProofs ------------------------
(***************************************************************************)
(* Theorems about EpisodeMapping, for any files, slots, runs, names, shows *)
(* and sibling tables, and any number of scans and edits.                  *)
(***************************************************************************)
EXTENDS EpisodeMapping, FiniteSetTheorems, TLAPS

(***************************************************************************)
(* Claims                                                                  *)
(***************************************************************************)
\* A claim has a run unless it is Unclaimed.
LEMMA ClaimFacts ==
    ASSUME NEW c \in Claims \cup {Unclaimed}
    PROVE  /\ c.run \in Runs \cup {{}}
           /\ c.run = {} => c = Unclaimed
           /\ c.run # {} => c \in Claims
           /\ c.manual \in BOOLEAN /\ (c.manual => c.run # {})
           /\ c.group # NoGroup => c \in Claims /\ c.group \in Groups
           /\ c.evidence \subseteq Tags
<1>1. CASE c \in Claims
  <2>1. c.run \in Runs /\ c.run # {} BY <1>1, TableAssumption DEF TableAssumption, Claims
  <2>2. c.manual \in BOOLEAN /\ c.group \in Groups \cup {NoGroup} /\ c.evidence \subseteq Tags
    BY <1>1 DEF Claims
  <2> QED BY <1>1, <2>1, <2>2
<1>2. CASE c = Unclaimed
  BY <1>2 DEF Unclaimed, Claim
<1> QED BY <1>1, <1>2

\* Claims on a run are well formed.
LEMMA MakeClaim ==
    ASSUME NEW r \in Runs, NEW manual \in BOOLEAN, NEW evidence \in SUBSET Tags
    PROVE  /\ Claim(r, manual, evidence) \in Claims
           /\ Claim(r, manual, evidence).run = r
           /\ Claim(r, manual, evidence).group = NoGroup
           /\ Claim(r, manual, evidence).manual = manual
  BY DEF Claim, Claims

LEMMA MakePart ==
    ASSUME NEW c \in Claims, NEW g \in Groups \cup {NoGroup}, NEW part \in BOOLEAN,
           NEW d, d = [c EXCEPT !.group = g, !.part = part]
    PROVE  /\ d \in Claims
           /\ d.run = c.run /\ d.manual = c.manual /\ d.approved = c.approved
           /\ d.group = g /\ d.part = part /\ d.evidence = c.evidence
  BY DEF Claims

LEMMA Approved ==
    ASSUME NEW c \in Claims, NEW d, d = [c EXCEPT !.approved = TRUE]
    PROVE  /\ d \in Claims
           /\ d.run = c.run /\ d.manual = c.manual /\ d.approved
           /\ d.group = c.group /\ d.part = c.part /\ d.evidence = c.evidence
  BY DEF Claims

(***************************************************************************)
(* What the mutations of a table keep                                      *)
(***************************************************************************)
TableInv ==
    /\ TableTypeOK
    /\ Accounted
    /\ ClaimsAreListed

\* Recording well-formed claims and reasons of files of the table keeps it in
\* order.
LEMMA RecordKeeps ==
    ASSUME TableInv, NEW new, NEW dropped, Record(new, dropped),
           DOMAIN new \subseteq files, DOMAIN dropped \subseteq files,
           \A f \in DOMAIN new : new[f] \in Claims /\ new[f].run \subseteq slots,
           \A f \in DOMAIN dropped : dropped[f] \in Reasons
    PROVE  TableInv'
<1> USE DEF TableInv, TableTypeOK
<1>1. TableTypeOK' BY DEF Record
<1>2. \A f \in Files :
         /\ f \in DOMAIN new => claim'[f] = new[f] /\ reason'[f] = NoReason
         /\ f \notin DOMAIN new /\ f \in DOMAIN dropped => claim'[f] = Unclaimed /\ reason'[f] = dropped[f]
         /\ f \notin DOMAIN new /\ f \notin DOMAIN dropped => claim'[f] = claim[f] /\ reason'[f] = reason[f]
  BY DEF Record
<1>3. Unclaimed.run = {} BY DEF Unclaimed, Claim
<1>4. \A f \in DOMAIN new : new[f].run # {}
  BY TableAssumption DEF TableAssumption, Claims
<1>5. \A f \in DOMAIN dropped : dropped[f] # NoReason BY DEF Reasons, NoReason
<1>6. Accounted' BY <1>2, <1>3, <1>4, <1>5 DEF Accounted, Record
<1>7. \A f \in Files : claim'[f].run \subseteq slots
  BY <1>2, <1>3 DEF ClaimsAreListed, ClaimedSlots
<1>8. ClaimsAreListed' BY <1>7 DEF ClaimsAreListed, ClaimedSlots, Record
<1> QED BY <1>1, <1>6, <1>8

\* unassign and its like.
LEMMA MarkKeeps ==
    ASSUME TableInv, NEW F \in SUBSET files, NEW why \in Reasons, MarkUnassigned(F, why)
    PROVE  TableInv'
<1> DEFINE dropped == [f \in F |-> why]
<1>1. Record(NoFiles, dropped) BY DEF MarkUnassigned
<1>2. DOMAIN NoFiles = {} BY DEF NoFiles
<1>3. DOMAIN dropped = F /\ \A f \in F : dropped[f] \in Reasons OBVIOUS
<1> HIDE DEF dropped
<1> QED BY <1>1, <1>2, <1>3, RecordKeeps

\* assign by the scanner.
LEMMA AssignKeeps ==
    ASSUME TableInv, NEW f \in files, NEW r \in Runs, r \subseteq slots,
           NEW evidence \in SUBSET Tags, Assign(f, r, evidence)
    PROVE  TableInv'
<1> DEFINE new == [h \in {f} |-> Claim(r, FALSE, evidence)]
<1>1. Record(new, NoFiles) BY DEF Assign
<1>2. DOMAIN NoFiles = {} BY DEF NoFiles
<1>3. DOMAIN new = {f} /\ \A h \in {f} : new[h] \in Claims /\ new[h].run \subseteq slots
  BY MakeClaim
<1> HIDE DEF new
<1> QED BY <1>1, <1>2, <1>3, RecordKeeps

\* Claimants are files of the table.
LEMMA ClaimantsAreFiles ==
    ASSUME TableInv
    PROVE  /\ \A f \in Files : claim[f].run # {} => f \in files
           /\ \A e : Claimants(e) \subseteq files
           /\ \A r : ClaimantsOf(r) \subseteq files
<1>1. Unclaimed.run = {} BY DEF Unclaimed, Claim
<1> QED BY <1>1 DEF TableInv, Accounted, Claimants, ClaimantsOf

\* assign by the user.
LEMMA DisplaceKeeps ==
    ASSUME TableInv, NEW f \in files, NEW r \in Runs, r \subseteq slots, AssignDisplacing(f, r)
    PROVE  TableInv'
<1> DEFINE new == [h \in {f} |-> Claim(r, TRUE, {})]
           dropped == [h \in ClaimantsOf(r) \ {f} |-> "other"]
<1>1. Record(new, dropped) BY DEF AssignDisplacing
<1>2. DOMAIN dropped \subseteq files /\ \A h \in DOMAIN dropped : dropped[h] \in Reasons
  BY ClaimantsAreFiles DEF Reasons
<1>3. DOMAIN new = {f} /\ \A h \in {f} : new[h] \in Claims /\ new[h].run \subseteq slots
  BY MakeClaim
<1> HIDE DEF new, dropped
<1> QED BY <1>1, <1>2, <1>3, RecordKeeps

\* group_parts.
LEMMA GroupKeeps ==
    ASSUME TableInv, NEW F \in SUBSET files, NEW lead, NEW r \in Runs, r \subseteq slots,
           NEW manual \in BOOLEAN, NEW dropped, DOMAIN dropped \subseteq files,
           \A f \in DOMAIN dropped : dropped[f] \in Reasons,
           GroupParts(F, lead, r, manual, dropped)
    PROVE  TableInv'
<1> DEFINE g == CHOOSE g \in FreeGroups : TRUE
           new == [f \in F |-> [Claim(r, manual, {}) EXCEPT !.group = g, !.part = (f # lead)]]
<1>1. Record(new, dropped) BY DEF GroupParts
<1>2. g \in Groups BY DEF GroupParts, FreeGroups
<1>3. DOMAIN new = F OBVIOUS
<1>4. ASSUME NEW f \in F PROVE new[f] \in Claims /\ new[f].run \subseteq slots
  <2> DEFINE c == Claim(r, manual, {})
             part == (f # lead)
  <2>1. c \in Claims /\ c.run = r BY MakeClaim
  <2>2. part \in BOOLEAN OBVIOUS
  <2>3. new[f] = [c EXCEPT !.group = g, !.part = part] OBVIOUS
  <2> HIDE DEF c, part, new, g
  <2> QED BY <1>2, <2>1, <2>2, <2>3 DEF Claims
<1> HIDE DEF new
<1> QED BY <1>1, <1>3, <1>4, RecordKeeps

\* ungroup_parts.
LEMMA UngroupKeeps ==
    ASSUME TableInv, NEW f \in Files, UngroupParts(f)
    PROVE  TableInv'
<1> DEFINE new == [h \in Members(f) |-> [claim[h] EXCEPT !.group = NoGroup, !.part = FALSE]]
<1>1. Record(new, NoFiles) BY DEF UngroupParts
<1>2. DOMAIN NoFiles = {} BY DEF NoFiles
<1>3. \A h \in Members(f) : h \in Files /\ claim[h] \in Claims /\ claim[h].run \subseteq slots
  BY ClaimFacts DEF Members, Grouped, TableInv, TableTypeOK, ClaimsAreListed, ClaimedSlots
<1>4. \A h \in Members(f) : h \in files
  BY <1>3, ClaimantsAreFiles, TableAssumption DEF TableAssumption, Claims
<1>5. DOMAIN new = Members(f) OBVIOUS
<1>6. ASSUME NEW h \in Members(f) PROVE new[h] \in Claims /\ new[h].run \subseteq slots
  <2> DEFINE c == claim[h]
  <2>1. new[h] = [c EXCEPT !.group = NoGroup, !.part = FALSE] OBVIOUS
  <2>2. c \in Claims /\ c.run \subseteq slots BY <1>3
  <2> HIDE DEF c, new
  <2> QED BY <2>1, <2>2 DEF Claims
<1> HIDE DEF new
<1> QED BY <1>1, <1>2, <1>4, <1>5, <1>6, RecordKeeps

\* set_approved.
LEMMA ApproveKeeps ==
    ASSUME TableInv, NEW f \in Files, claim[f].run # {}, SetApproved(f)
    PROVE  TableInv'
<1> DEFINE new == [h \in Members(f) \cup {f} |-> [claim[h] EXCEPT !.approved = TRUE]]
<1>1. Record(new, NoFiles) BY DEF SetApproved
<1>2. DOMAIN NoFiles = {} BY DEF NoFiles
<1>3. \A h \in Members(f) \cup {f} : h \in Files /\ claim[h] \in Claims /\ claim[h].run \subseteq slots
  BY ClaimFacts DEF Members, Grouped, TableInv, TableTypeOK, ClaimsAreListed, ClaimedSlots
<1>4. \A h \in Members(f) \cup {f} : h \in files
  BY <1>3, ClaimantsAreFiles, TableAssumption DEF TableAssumption, Claims
<1>5. DOMAIN new = Members(f) \cup {f} OBVIOUS
<1>6. \A h \in Members(f) \cup {f} : new[h] \in Claims /\ new[h].run \subseteq slots
  BY <1>3, Approved
<1> HIDE DEF new
<1> QED BY <1>1, <1>2, <1>4, <1>5, <1>6, RecordKeeps

(***************************************************************************)
(* The inductive invariant                                                 *)
(***************************************************************************)
\* Stages that go through files, and those among them whose files have no claim.
FileStages == {"rescue", "rehome", "across", "segments", "within", "fuzzy", "hint", "parts"}
UnclaimedStages == {"rescue", "fuzzy", "hint"}
AutoStages == {"rescue", "rehome", "across", "segments", "within", "fuzzy", "hint"}

\* What a loop may rely on: the files it still has to visit are of the table and
\* not the user's, and if they have no claim the copy of claimed_slots is not
\* behind.
LoopInv ==
    /\ stage \in FileStages => todo \subseteq files
    /\ stage \in AutoStages => \A f \in todo : ~claim[f].manual
    /\ stage = "segments" => \A f \in todo : lib[f].segments \subseteq slots
    /\ stage \in UnclaimedStages =>
          /\ \A f \in todo : claim[f].run = {}
          /\ \A f \in Files : claim[f].run \subseteq taken

\* The claims copied before a loop over conflicts are of files of the table, and
\* those of the user are still the user's.
SnapInv ==
    stage \in {"trim", "shift"} =>
       \A f \in Files :
          /\ snap[f].run # {} => f \in files /\ snap[f].run \subseteq slots
          /\ claim[f].manual => snap[f].manual

\* The replaced table is well formed, and only its manual claims are carried over.
OldInv ==
    /\ old.claim \in [Files -> Claims \cup {Unclaimed}]
    /\ stage = "carry" => \A f \in todo : f \in Files /\ old.claim[f].manual

StageTypeOK ==
    /\ lib \in Library
    /\ stage \in Stages /\ pass \in {"first", "second", "merge"}
    /\ todo \subseteq Files \cup Slots \cup Seasons /\ taken \subseteq Slots
    /\ snap \in [Files -> Claims \cup {Unclaimed}]
    /\ failed \in BOOLEAN
    /\ scans \in 0 .. MaxScans /\ edits \in 0 .. MaxEdits

MappingInv ==
    /\ TableInv
    /\ StageTypeOK
    /\ LoopInv
    /\ SnapInv
    /\ OldInv

\* What a file's data may hold.
LEMMA InfoFacts ==
    ASSUME lib \in Library, NEW f \in Files
    PROVE  /\ lib[f].segments \in Runs \cup {{}}
           /\ lib[f].offset \in Runs \cup {{}}
           /\ lib[f].hint \in Runs \cup {{}}
<1>1. lib[f] \in Info BY ResolutionAssumption DEF ResolutionAssumption
<1> QED BY <1>1 DEF Info

\* Runs are sets of slots; every slot is one.
LEMMA RunFacts ==
    /\ \A r \in Runs : r \subseteq Slots /\ r # {}
    /\ \A s \in Slots : {s} \in Runs
    /\ Runs \subseteq SUBSET Slots /\ NoGroup \notin Groups
  BY TableAssumption DEF TableAssumption

\* A file with a reason is of the table and has no claim; one with a claim has
\* no reason.
LEMMA ReasonFacts ==
    ASSUME TableInv, NEW f \in Files
    PROVE  /\ reason[f] # NoReason => f \in files /\ claim[f] = Unclaimed
           /\ claim[f].manual => claim[f].run # {}
           /\ claim[f].run # {} => f \in files
           /\ claim[f].run \subseteq slots
<1>1. claim[f] \in Claims \cup {Unclaimed} BY DEF TableInv, TableTypeOK
<1>2. Unclaimed.run = {} BY DEF Unclaimed, Claim
<1> QED
  BY <1>1, <1>2, ClaimFacts DEF TableInv, Accounted, ClaimsAreListed, ClaimedSlots

\* What the functions find to loop over.
LEMMA ListedFacts ==
    ASSUME TableInv, lib \in Library, NEW st
    PROVE  /\ st \in FileStages => Listed(st) \subseteq files
           /\ st \in AutoStages => \A f \in Listed(st) : ~claim[f].manual
           /\ st = "segments" => \A f \in Listed(st) : lib[f].segments \subseteq slots
           /\ st \in UnclaimedStages => \A f \in Listed(st) : claim[f].run = {}
           /\ Listed(st) \subseteq Files \cup Slots \cup Seasons
<1> USE DEF FileStages, AutoStages, UnclaimedStages
<1>1. files \subseteq Files BY DEF TableInv, TableTypeOK
<1>2. \A f \in Files : LostHere(f) \/ Unplaced(f) \/ Lost(f) \/ reason[f] = "not in season" =>
         f \in files /\ claim[f].run = {} /\ ~claim[f].manual
  <2>1. Unclaimed.run = {} /\ ~Unclaimed.manual BY DEF Unclaimed, Claim
  <2>2. \A f \in Files : reason[f] # NoReason => f \in files /\ claim[f] = Unclaimed
    BY ReasonFacts
  <2> QED BY <2>1, <2>2 DEF LostHere, Unplaced, Lost, NoReason
<1>3. \A f \in Files : Automatic(f) => f \in files /\ ~claim[f].manual
  <2>1. \A f \in Files : claim[f].run # {} => f \in files BY ReasonFacts
  <2> QED BY <2>1 DEF Automatic, Assigned
<1>4. CASE st = "rescue" BY <1>1, <1>2, <1>4 DEF Listed
<1>5. CASE st = "rehome" BY <1>1, <1>3, <1>5 DEF Listed
<1>6. CASE st = "across" BY <1>1, <1>3, <1>6 DEF Listed, Mismatched
<1>7. CASE st = "segments" BY <1>1, <1>2, <1>3, <1>7 DEF Listed, RunMoves, Mismatched, OtherSeason
<1>8. CASE st = "within" BY <1>1, <1>2, <1>3, <1>8 DEF Listed
<1>9. CASE st = "fuzzy" BY <1>1, <1>2, <1>9 DEF Listed
<1>10. CASE st = "hint" BY <1>1, <1>2, <1>10 DEF Listed
<1>11. CASE st = "parts" BY <1>1, <1>11 DEF Listed
<1>12. CASE st \notin FileStages BY <1>12 DEF Listed
<1> QED BY <1>4, <1>5, <1>6, <1>7, <1>8, <1>9, <1>10, <1>11, <1>12

\* Any function may be entered.
LEMMA EnterKeeps ==
    ASSUME MappingInv, NEW st \in RescueStages \cup ResolveStages \cup {"open"}, Enter(st),
           UNCHANGED <<lib, tableVars, old, failed, scans, edits>>
    PROVE  MappingInv'
<1> USE DEF MappingInv, StageTypeOK
<1>1. TableInv' BY DEF TableInv, TableTypeOK, Accounted, ClaimsAreListed, ClaimedSlots, tableVars
<1>2. ClaimedSlots \subseteq Slots BY DEF TableInv, TableTypeOK, ClaimsAreListed
<1>3. EmptyTable.claim \in [Files -> Claims \cup {Unclaimed}] BY DEF EmptyTable
<1>4. StageTypeOK'
  BY <1>2, <1>3, ListedFacts DEF Enter, tableVars, Stages, RescueStages, ResolveStages, TableInv, TableTypeOK
<1>5. \A f \in Files : claim[f].run \subseteq ClaimedSlots BY DEF ClaimedSlots
<1>6. LoopInv'
  BY <1>5, ListedFacts DEF Enter, LoopInv, tableVars, RescueStages, UnclaimedStages
<1>7. SnapInv' BY ReasonFacts DEF Enter, SnapInv, tableVars
<1>8. OldInv' BY DEF Enter, OldInv, RescueStages, ResolveStages
<1> QED BY <1>1, <1>4, <1>6, <1>7, <1>8

(***************************************************************************)
(* Steps of a scan                                                         *)
(***************************************************************************)
\* resolve_file finds listed slots only, on evidence of its own.
LEMMA FoundFacts ==
    ASSUME NEW f, NEW listing
    PROVE  \E r \in SUBSET listing, evidence \in SUBSET Tags :
              Found(f, listing) = Claim(r, FALSE, evidence)
<1> DEFINE home == InSeason(listing, lib[f].season)
           N == lib[f].numbers \cap home
           strong == Matched(f, home)
<1>1. home \subseteq listing BY DEF InSeason
<1>2. N \subseteq home OBVIOUS
<1>3. strong \subseteq home BY DEF Matched
<1>4. CombinedTitle(f, home) => lib[f].segments \subseteq home BY DEF CombinedTitle
<1>5. \A S : Extends(f, S, home) => lib[f].extended \subseteq home BY DEF Extends
<1> HIDE DEF home, N, strong
<1>6. NumberEvidence(f, N, home) \subseteq Tags BY DEF NumberEvidence, Tags
<1>7. \E r \in SUBSET listing, evidence \in SUBSET Tags :
         NumberAndTitle(f, N, strong, home) = Claim(r, FALSE, evidence)
  <2>1. {"number", "inexact"} \in SUBSET Tags /\ {"number", "exact"} \in SUBSET Tags
        /\ {"number", "weak"} \in SUBSET Tags /\ {"inexact"} \in SUBSET Tags
        /\ {"exact"} \in SUBSET Tags
    BY DEF Tags
  <2>2. lib[f].extended \in SUBSET listing
        \/ \A S : ~Extends(f, S, home)
    BY <1>1, <1>5
  <2>3. N \in SUBSET listing /\ strong \in SUBSET listing BY <1>1, <1>2, <1>3
  <2> QED BY <2>1, <2>2, <2>3 DEF NumberAndTitle
<1>8. Found(f, listing) =
         IF CombinedTitle(f, home)
         THEN Claim(lib[f].segments, FALSE, {"segmented", IF lib[f].fuzzy THEN "fuzzy" ELSE "exact"})
         ELSE IF N = {}
         THEN Claim(strong, FALSE, {IF lib[f].fuzzy /\ lib[f].exact \notin home THEN "inexact"
                                    ELSE "exact"})
         ELSE IF strong \cup WeaklyMatched(f, home) = {}
         THEN Claim(N, FALSE, NumberEvidence(f, N, home))
         ELSE NumberAndTitle(f, N, strong, home)
  BY DEF Found, home, N, strong
<1>9. CASE CombinedTitle(f, home)
  <2>1. {"segmented", IF lib[f].fuzzy THEN "fuzzy" ELSE "exact"} \in SUBSET Tags BY DEF Tags
  <2> QED BY <1>1, <1>4, <1>8, <1>9, <2>1
<1>10. CASE ~CombinedTitle(f, home) /\ N = {}
  <2>1. {IF lib[f].fuzzy /\ lib[f].exact \notin home THEN "inexact" ELSE "exact"} \in SUBSET Tags
    BY DEF Tags
  <2> QED BY <1>1, <1>3, <1>8, <1>10, <2>1
<1>11. CASE ~CombinedTitle(f, home) /\ N # {}
  BY <1>1, <1>2, <1>6, <1>7, <1>8, <1>11
<1> QED BY <1>9, <1>10, <1>11

\* build_normal_table leaves every file with a claim or a reason.
LEMMA ScannedFacts ==
    ASSUME NEW f, NEW listing \in SUBSET Slots
    PROVE  /\ ScannedClaim(f, listing) \in Claims \cup {Unclaimed}
           /\ ~ScannedClaim(f, listing).manual
           /\ ScannedClaim(f, listing).run \subseteq listing
           /\ ScannedReason(f, listing) \in Reasons \cup {NoReason}
           /\ ScannedClaim(f, listing).run # {} <=> ScannedReason(f, listing) = NoReason
           /\ ScannedClaim(f, listing).group = NoGroup
<1>1. Unclaimed.run = {} /\ ~Unclaimed.manual /\ Unclaimed.group = NoGroup
  BY DEF Unclaimed, Claim
<1>2. ScannedReason(f, listing) \in Reasons \cup {NoReason}
      /\ (Found(f, listing).run \in Runs <=> ScannedReason(f, listing) = NoReason)
  BY DEF ScannedReason, Reasons, NoReason
<1>3. CASE Found(f, listing).run \in Runs
  <2>1. PICK r \in SUBSET listing, evidence \in SUBSET Tags :
                Found(f, listing) = Claim(r, FALSE, evidence)
    BY FoundFacts
  <2>2. r \in Runs BY <1>3, <2>1 DEF Claim
  <2>3. ScannedClaim(f, listing) = Claim(r, FALSE, evidence) BY <1>3, <2>1 DEF ScannedClaim
  <2>4. /\ ScannedClaim(f, listing) \in Claims /\ ScannedClaim(f, listing).run = r
        /\ ScannedClaim(f, listing).group = NoGroup
        /\ ScannedClaim(f, listing).manual = FALSE
    <3>1. FALSE \in BOOLEAN OBVIOUS
    <3>2. /\ Claim(r, FALSE, evidence) \in Claims /\ Claim(r, FALSE, evidence).run = r
          /\ Claim(r, FALSE, evidence).group = NoGroup
          /\ Claim(r, FALSE, evidence).manual = FALSE
      BY <2>2, <3>1, MakeClaim
    <3> QED BY <2>3, <3>2
  <2>5. r # {} BY <2>2, RunFacts
  <2> QED BY <1>2, <1>3, <2>1, <2>4, <2>5
<1>4. CASE Found(f, listing).run \notin Runs
  BY <1>1, <1>2, <1>4 DEF ScannedClaim
<1> QED BY <1>3, <1>4

LEMMA BeginScanKeeps ==
    ASSUME MappingInv, NEW found \in Disk, NEW listing \in Listings, BeginScan(found, listing)
    PROVE  MappingInv'
<1> DEFINE t == ScannedTable(found, listing)
<1>1. found \subseteq Files /\ listing \subseteq Slots BY MappingAssumption DEF MappingAssumption
<1>2. /\ files' = found /\ slots' = listing
      /\ claim' = [f \in Files |-> IF f \in found THEN ScannedClaim(f, listing) ELSE Unclaimed]
      /\ reason' = [f \in Files |-> IF f \in found THEN ScannedReason(f, listing) ELSE NoReason]
  BY DEF BeginScan, SetTable, ScannedTable
<1>3. /\ old' = Table /\ stage' = "rescue" /\ pass' = "first" /\ scans < MaxScans
      /\ scans' = scans + 1 /\ failed' = FALSE /\ lib' = lib /\ edits' = edits
      /\ snap' = EmptyTable.claim
      /\ todo' = {f \in found : ScannedTable(found, listing).reason[f] = "not in season"}
      /\ taken' = UNION {ScannedTable(found, listing).claim[f].run : f \in found}
      /\ claim' = ScannedTable(found, listing).claim
      /\ reason' = ScannedTable(found, listing).reason
  BY DEF BeginScan, SetTable
<1>4. Unclaimed.run = {} /\ ~Unclaimed.manual BY DEF Unclaimed, Claim
<1>5. \A f \in Files :
         /\ claim'[f] \in Claims \cup {Unclaimed} /\ ~claim'[f].manual
         /\ claim'[f].run \subseteq listing
         /\ reason'[f] \in Reasons \cup {NoReason}
         /\ f \in found => (claim'[f].run # {} <=> reason'[f] = NoReason)
         /\ f \notin found => claim'[f] = Unclaimed /\ reason'[f] = NoReason
  BY <1>1, <1>2, <1>4, ScannedFacts
<1>6. TableTypeOK' BY <1>1, <1>2, <1>5 DEF TableTypeOK
<1>7. Accounted' BY <1>2, <1>5, ClaimFacts DEF Accounted
<1>8. ClaimsAreListed' BY <1>2, <1>5 DEF ClaimsAreListed, ClaimedSlots
<1>9. StageTypeOK'
  <2>1. scans' \in 0 .. MaxScans
    <3>1. scans \in 0 .. MaxScans /\ MaxScans \in Nat
      BY MappingAssumption DEF MappingAssumption, MappingInv, StageTypeOK
    <3>2. scans < MaxScans /\ scans' = scans + 1 BY <1>3
    <3> QED BY <3>1, <3>2
  <2>2. snap' \in [Files -> Claims \cup {Unclaimed}] BY <1>3 DEF EmptyTable
  <2>3. taken' \subseteq Slots BY <1>1, <1>3, <1>5
  <2>4. todo' \subseteq Files BY <1>1, <1>3
  <2> QED
    BY <1>3, <2>1, <2>2, <2>3, <2>4 DEF MappingInv, StageTypeOK, Stages, RescueStages
<1>10. LoopInv'
  <2>1. \A f \in todo' : f \in files' /\ ~claim'[f].manual /\ claim'[f].run = {}
    BY <1>1, <1>2, <1>3, <1>5 DEF NoReason
  <2>2. \A f \in Files : claim'[f].run \subseteq taken'
    BY <1>3, <1>4, <1>5
  <2> QED BY <1>3, <2>1, <2>2 DEF LoopInv, FileStages, AutoStages, UnclaimedStages
<1>11. SnapInv' BY <1>3 DEF SnapInv
<1>12. OldInv' BY <1>3 DEF OldInv, Table, MappingInv, TableInv, TableTypeOK
<1> QED BY <1>6, <1>7, <1>8, <1>9, <1>10, <1>11, <1>12 DEF MappingInv, TableInv

\* A step of a scan changes no claim of the user and makes none.
KeepsManual ==
    \A f \in Files : claim[f].manual \/ claim'[f].manual => claim'[f] = claim[f]

\* A step gives files only episodes that nobody claims.
TakesFree ==
    \A f \in Files : claim'[f].run # claim[f].run => claim'[f].run \cap ClaimedSlots = {}

LEMMA UnchangedFacts ==
    ASSUME UNCHANGED tableVars
    PROVE  KeepsManual /\ TakesFree /\ (TableInv => TableInv')
  BY DEF tableVars, KeepsManual, TakesFree, TableInv, TableTypeOK, Accounted, ClaimsAreListed,
         ClaimedSlots

LEMMA RecordManual ==
    ASSUME NEW new, NEW dropped, Record(new, dropped),
           \A f \in DOMAIN new : ~claim[f].manual /\ ~new[f].manual,
           \A f \in DOMAIN dropped : ~claim[f].manual
    PROVE  KeepsManual
<1>1. ~Unclaimed.manual BY DEF Unclaimed, Claim
<1> QED BY <1>1 DEF Record, KeepsManual

LEMMA MarkManual ==
    ASSUME NEW F, NEW why, MarkUnassigned(F, why), \A f \in F : ~claim[f].manual
    PROVE  KeepsManual
<1> DEFINE dropped == [f \in F |-> why]
<1>1. Record(NoFiles, dropped) BY DEF MarkUnassigned
<1>2. DOMAIN NoFiles = {} BY DEF NoFiles
<1>3. DOMAIN dropped = F OBVIOUS
<1> HIDE DEF dropped
<1> QED BY <1>1, <1>2, <1>3, RecordManual

LEMMA AssignFacts ==
    ASSUME NEW f, NEW r, NEW evidence, Assign(f, r, evidence)
    PROVE  \A h \in Files : claim'[h] = IF h = f THEN Claim(r, FALSE, evidence) ELSE claim[h]
<1> DEFINE new == [h \in {f} |-> Claim(r, FALSE, evidence)]
<1>1. Record(new, NoFiles) BY DEF Assign
<1>2. DOMAIN NoFiles = {} BY DEF NoFiles
<1>3. DOMAIN new = {f} /\ new[f] = Claim(r, FALSE, evidence) OBVIOUS
<1> HIDE DEF new
<1> QED BY <1>1, <1>2, <1>3 DEF Record

\* One round of a loop.
LEMMA RoundKeeps ==
    ASSUME MappingInv, TableInv',
           UNCHANGED <<lib, files, slots, stage, pass, snap, old, failed, scans, edits>>,
           todo' \subseteq todo, taken' \subseteq Slots,
           stage \in AutoStages => \A f \in todo' : claim'[f] = claim[f],
           stage \in UnclaimedStages => \A f \in Files : claim'[f].run \subseteq taken',
           stage \in {"trim", "shift"} => KeepsManual
    PROVE  MappingInv'
<1> USE DEF MappingInv
<1>1. StageTypeOK' BY DEF StageTypeOK
<1>2. LoopInv' BY DEF LoopInv, AutoStages, UnclaimedStages, FileStages
<1>3. SnapInv' BY DEF SnapInv, KeepsManual
<1>4. OldInv' BY DEF OldInv
<1> QED BY <1>1, <1>2, <1>3, <1>4

\* A round of a rescue.
LEMMA VisitKeeps ==
    ASSUME MappingInv, stage \in AutoStages, NEW f, NEW r \in Runs \cup {{}}, r \subseteq slots,
           NEW evidence \in SUBSET Tags, Visit(f, r, evidence),
           UNCHANGED <<old, failed, scans, edits>>
    PROVE  /\ MappingInv'
           /\ KeepsManual
           /\ stage \in UnclaimedStages /\ r \cap taken = {} => TakesFree
<1>1. /\ TableInv /\ files \subseteq Files /\ slots \subseteq Slots /\ taken \subseteq Slots
      /\ f \in todo /\ f \in files /\ ~claim[f].manual /\ todo' = todo \ {f}
      /\ todo \subseteq files
      /\ UNCHANGED <<lib, stage, pass, snap>>
  BY DEF MappingInv, TableInv, TableTypeOK, StageTypeOK, LoopInv, Visit, AutoStages, FileStages
<1>2. stage \in UnclaimedStages =>
         claim[f].run = {} /\ \A h \in Files : claim[h].run \subseteq taken
  BY <1>1 DEF MappingInv, LoopInv
<1>3. stage \notin {"trim", "shift"} BY DEF AutoStages
<1>4. CASE r = {}
  <2>1. UNCHANGED tableVars /\ taken' = taken BY <1>4 DEF Visit
  <2>2. KeepsManual /\ TakesFree /\ TableInv' BY <1>1, <2>1, UnchangedFacts
  <2>3. UNCHANGED <<files, slots, claim>> BY <2>1 DEF tableVars
  <2>4. MappingInv' BY <1>1, <1>2, <1>3, <2>1, <2>2, <2>3, RoundKeeps
  <2> QED BY <2>2, <2>4
<1>5. CASE r # {}
  <2>1. Assign(f, r, evidence) /\ taken' = (taken \ claim[f].run) \cup r BY <1>5 DEF Visit
  <2>2. TableInv' BY <1>1, <1>5, <2>1, AssignKeeps
  <2>3. \A h \in Files : claim'[h] = IF h = f THEN Claim(r, FALSE, evidence) ELSE claim[h]
    BY <2>1, AssignFacts
  <2>4. Claim(r, FALSE, evidence).run = r /\ ~Claim(r, FALSE, evidence).manual BY DEF Claim
  <2>5. KeepsManual BY <1>1, <2>3, <2>4 DEF KeepsManual
  <2>6. UNCHANGED <<files, slots>> BY <2>1 DEF Assign, Record
  <2>7. taken' \subseteq Slots BY <1>1, <2>1
  <2>8. \A h \in todo' : claim'[h] = claim[h] BY <1>1, <2>3
  <2>9. stage \in UnclaimedStages => \A h \in Files : claim'[h].run \subseteq taken'
    BY <1>2, <2>1, <2>3, <2>4
  <2>10. MappingInv' BY <1>1, <1>3, <2>2, <2>6, <2>7, <2>8, <2>9, RoundKeeps
  <2>11. stage \in UnclaimedStages /\ r \cap taken = {} => TakesFree
    <3>1. stage \in UnclaimedStages => ClaimedSlots \subseteq taken BY <1>2 DEF ClaimedSlots
    <3> QED BY <2>3, <2>4, <3>1 DEF TakesFree
  <2> QED BY <2>5, <2>10, <2>11
<1> QED BY <1>4, <1>5

ScanStep ==
    /\ MappingInv'
    /\ KeepsManual
    /\ stage \in UnclaimedStages => TakesFree

LEMMA RescueTitleStep ==
    ASSUME MappingInv, UNCHANGED <<old, failed, scans, edits>>, NEW f, RescueTitle(f)
    PROVE  ScanStep
<1> DEFINE r == {s \in FreeTitle(f) : /\ Cardinality(lib[f].numbers) = 1
                                       /\ SeasonOf[s] # lib[f].season}
<1>1. stage = "rescue" /\ Visit(f, r, {"exact"}) BY DEF RescueTitle
<1>2. slots \subseteq Slots BY DEF MappingInv, TableInv, TableTypeOK
<1>3. r \subseteq slots /\ r \cap taken = {} BY DEF FreeTitle
<1>4. r \in Runs \cup {{}}
  <2>1. r = {} \/ r = {lib[f].exact} BY DEF FreeTitle
  <2> QED BY <1>2, <1>3, <2>1, RunFacts
<1>5. {"exact"} \in SUBSET Tags BY DEF Tags
<1> HIDE DEF r
<1> QED BY <1>1, <1>3, <1>4, <1>5, VisitKeeps DEF ScanStep, AutoStages

LEMMA RehomeStep ==
    ASSUME MappingInv, UNCHANGED <<old, failed, scans, edits>>, NEW f, RehomeNumbered(f)
    PROVE  ScanStep
<1> DEFINE r == {s \in FreeTitle(f) : /\ Cardinality(lib[f].numbers) = 1
                                       /\ SeasonOf[s] \notin SeasonsOf(claim[f].run)}
<1>1. stage = "rehome" /\ Visit(f, r, {"exact"}) BY DEF RehomeNumbered
<1>2. slots \subseteq Slots BY DEF MappingInv, TableInv, TableTypeOK
<1>3. r \subseteq slots BY DEF FreeTitle
<1>4. r \in Runs \cup {{}}
  <2>1. r = {} \/ r = {lib[f].exact} BY DEF FreeTitle
  <2> QED BY <1>2, <1>3, <2>1, RunFacts
<1>5. {"exact"} \in SUBSET Tags BY DEF Tags
<1> HIDE DEF r
<1> QED BY <1>1, <1>3, <1>4, <1>5, VisitKeeps DEF ScanStep, AutoStages, UnclaimedStages

LEMMA MoveRunStep ==
    ASSUME MappingInv, UNCHANGED <<old, failed, scans, edits>>, NEW f, MoveRun(f)
    PROVE  ScanStep
<1>1. stage = "segments" /\ f \in todo /\ Visit(f, lib[f].segments, {"segmented"})
  BY DEF MoveRun, Visit
<1>2. f \in Files /\ lib[f].segments \subseteq slots /\ lib \in Library
  BY <1>1 DEF MappingInv, TableInv, TableTypeOK, StageTypeOK, LoopInv, FileStages
<1>3. lib[f].segments \in Runs \cup {{}} BY <1>2, InfoFacts
<1>4. {"segmented"} \in SUBSET Tags BY DEF Tags
<1> QED BY <1>1, <1>2, <1>3, <1>4, VisitKeeps DEF ScanStep, AutoStages, UnclaimedStages

LEMMA RescueFuzzyStep ==
    ASSUME MappingInv, UNCHANGED <<old, failed, scans, edits>>, NEW f, RescueFuzzy(f)
    PROVE  ScanStep
<1> DEFINE S == InSeason(slots, HomeSeason(f)) \ taken
<1>1. stage = "fuzzy" /\ Visit(f, Matched(f, S), {"fuzzy"}) BY DEF RescueFuzzy
<1>2. S \subseteq slots /\ S \cap taken = {} BY DEF InSeason
<1>3. slots \subseteq Slots BY DEF MappingInv, TableInv, TableTypeOK
<1> HIDE DEF S
<1>4. Matched(f, S) \subseteq S /\ (Matched(f, S) = {} \/ \E s \in S : Matched(f, S) = {s})
  BY DEF Matched
<1>5. Matched(f, S) \in Runs \cup {{}} BY <1>2, <1>3, <1>4, RunFacts
<1>6. {"fuzzy"} \in SUBSET Tags BY DEF Tags
<1>7. Matched(f, S) \subseteq slots /\ Matched(f, S) \cap taken = {} BY <1>2, <1>4
<1> QED BY <1>1, <1>5, <1>6, <1>7, VisitKeeps DEF ScanStep, AutoStages

LEMMA RescueHintStep ==
    ASSUME MappingInv, UNCHANGED <<old, failed, scans, edits>>, NEW f, RescueHint(f)
    PROVE  ScanStep
<1> DEFINE r == IF lib[f].hint \subseteq slots \ taken THEN lib[f].hint ELSE {}
<1>1. stage = "hint" /\ f \in todo /\ Visit(f, r, {"number", "relative"})
  BY DEF RescueHint, Visit
<1>2. f \in Files /\ lib \in Library
  BY <1>1 DEF MappingInv, TableInv, TableTypeOK, StageTypeOK, LoopInv, FileStages
<1>3. r \in Runs \cup {{}} BY <1>2, InfoFacts
<1>4. r \subseteq slots /\ r \cap taken = {} OBVIOUS
<1>5. {"number", "relative"} \in SUBSET Tags BY DEF Tags
<1> HIDE DEF r
<1> QED BY <1>1, <1>3, <1>4, <1>5, VisitKeeps DEF ScanStep, AutoStages
LEMMA DropScatteredStep ==
    ASSUME MappingInv, UNCHANGED <<old, failed, scans, edits>>, NEW f, DropScattered(f)
    PROVE  ScanStep
<1>1. /\ stage \in {"across", "within"} /\ f \in todo /\ todo' = todo \ {f}
      /\ MarkUnassigned({f}, "other") /\ UNCHANGED <<lib, stage, pass, taken, snap>>
  BY DEF DropScattered
<1>2. /\ TableInv /\ todo \subseteq files /\ ~claim[f].manual /\ taken \subseteq Slots
      /\ files \subseteq Files
  BY <1>1 DEF MappingInv, TableInv, TableTypeOK, StageTypeOK, LoopInv, FileStages, AutoStages
<1>3. TableInv' BY <1>1, <1>2, MarkKeeps DEF Reasons
<1>4. KeepsManual BY <1>1, <1>2, MarkManual
<1>5. UNCHANGED <<files, slots>> /\ \A h \in Files \ {f} : claim'[h] = claim[h]
  BY <1>1 DEF MarkUnassigned, Record, NoFiles
<1>6. \A h \in todo' : claim'[h] = claim[h] BY <1>1, <1>2, <1>5
<1>7. MappingInv' BY <1>1, <1>2, <1>3, <1>4, <1>5, <1>6, RoundKeeps DEF UnclaimedStages
<1> QED BY <1>1, <1>4, <1>7 DEF ScanStep, UnclaimedStages

LEMMA FollowOffsetStep ==
    ASSUME MappingInv, UNCHANGED <<old, failed, scans, edits>>, NEW n, FollowOffset(n)
    PROVE  ScanStep
<1> DEFINE mark(f) == IF lib[f].hint # {} /\ SeasonsOf(lib[f].hint) = SeasonsOf(lib[f].offset)
                      THEN {"relative"} ELSE {}
<1>1. PICK F \in SUBSET Movers(n) :
         Record([f \in F |-> Claim(lib[f].offset, FALSE, {"number", "adjusted"} \cup mark(f))],
                NoFiles)
  BY DEF FollowOffset
<1> DEFINE new == [f \in F |-> Claim(lib[f].offset, FALSE, {"number", "adjusted"} \cup mark(f))]
<1>2. /\ stage = "offset" /\ todo' = todo \ {n} /\ UNCHANGED <<lib, stage, pass, taken, snap>>
      /\ Record(new, NoFiles)
  BY <1>1 DEF FollowOffset
<1>3. TableInv /\ taken \subseteq Slots /\ lib \in Library BY DEF MappingInv, StageTypeOK
<1>4. \A f \in F : f \in Files /\ lib[f].offset \in Runs /\ lib[f].offset \subseteq slots
  BY <1>3, InfoFacts DEF Movers
<1>5. \A f \in F : f \in files /\ ~claim[f].manual
  <2>1. ~Unclaimed.manual BY DEF Unclaimed, Claim
  <2>2. \A f \in F : f \in Files /\ (Automatic(f) \/ LostHere(f)) BY DEF Movers
  <2>3. \A f \in F : reason[f] # NoReason \/ (claim[f].run # {} /\ ~claim[f].manual)
    BY <2>2 DEF Automatic, Assigned, LostHere, NoReason
  <2> QED BY <1>3, <2>1, <2>2, <2>3, ReasonFacts
<1>6. ASSUME NEW f \in F
      PROVE  new[f] \in Claims /\ new[f].run = lib[f].offset /\ ~new[f].manual
  <2>1. FALSE \in BOOLEAN OBVIOUS
  <2>2. {"number", "adjusted"} \cup mark(f) \in SUBSET Tags BY DEF Tags
  <2>3. new[f] = Claim(lib[f].offset, FALSE, {"number", "adjusted"} \cup mark(f)) OBVIOUS
  <2> HIDE DEF new, mark
  <2> QED
    <3> DEFINE ev == {"number", "adjusted"} \cup mark(f)
    <3> HIDE DEF ev
    <3>1. ev \in SUBSET Tags /\ new[f] = Claim(lib[f].offset, FALSE, ev) BY <2>2, <2>3 DEF ev
    <3>2. /\ Claim(lib[f].offset, FALSE, ev) \in Claims
          /\ Claim(lib[f].offset, FALSE, ev).run = lib[f].offset
          /\ Claim(lib[f].offset, FALSE, ev).manual = FALSE
      BY <1>4, <2>1, <3>1, MakeClaim
    <3> QED BY <3>1, <3>2
<1>7. DOMAIN new = F /\ DOMAIN NoFiles = {} BY DEF NoFiles
<1> HIDE DEF new
<1>8. TableInv' BY <1>2, <1>3, <1>4, <1>5, <1>6, <1>7, RecordKeeps
<1>9. KeepsManual BY <1>2, <1>5, <1>6, <1>7, RecordManual
<1>10. UNCHANGED <<files, slots>> BY <1>2 DEF Record
<1>11. MappingInv'
  BY <1>2, <1>3, <1>8, <1>10, RoundKeeps DEF AutoStages, UnclaimedStages
<1> QED BY <1>2, <1>9, <1>11 DEF ScanStep, UnclaimedStages

LEMMA DetectPartsStep ==
    ASSUME MappingInv, UNCHANGED <<old, failed, scans, edits>>, NEW f, DetectParts(f)
    PROVE  ScanStep
<1>1. /\ stage = "parts" /\ f \in todo /\ todo' = todo \ {f}
      /\ UNCHANGED <<lib, stage, pass, taken, snap>>
  BY DEF DetectParts
<1>2. TableInv /\ taken \subseteq Slots /\ files \subseteq Files /\ todo \subseteq files
  BY <1>1 DEF MappingInv, TableInv, TableTypeOK, StageTypeOK, LoopInv, FileStages
<1>3. CASE CompleteParts(f)
  <2>1. GroupParts(PartFiles(f), f, claim[f].run, FALSE, NoFiles) BY <1>3 DEF DetectParts
  <2>2. PartFiles(f) \subseteq files /\ f \in PartFiles(f) BY <1>1, <1>2 DEF PartFiles
  <2>3. \A h \in PartFiles(f) : claim[h].run # {} /\ ~claim[h].manual
    BY <1>3 DEF CompleteParts, Automatic, Assigned
  <2>4. claim[f].run \in Runs /\ claim[f].run \subseteq slots
    BY <1>2, <2>2, <2>3, ClaimFacts DEF TableInv, TableTypeOK, ClaimsAreListed, ClaimedSlots
  <2>5. DOMAIN NoFiles = {} /\ FALSE \in BOOLEAN BY DEF NoFiles
  <2>6. TableInv' BY <1>2, <2>1, <2>2, <2>4, <2>5, GroupKeeps
  <2>7. KeepsManual
    <3> DEFINE g == CHOOSE g \in FreeGroups : TRUE
               new == [h \in PartFiles(f) |-> [Claim(claim[f].run, FALSE, {})
                                               EXCEPT !.group = g, !.part = (h # f)]]
    <3>1. Record(new, NoFiles) BY <2>1 DEF GroupParts
    <3>2. DOMAIN new = PartFiles(f) /\ \A h \in PartFiles(f) : ~new[h].manual BY DEF Claim
    <3> HIDE DEF new
    <3> QED BY <2>3, <2>5, <3>1, <3>2, RecordManual
  <2>8. UNCHANGED <<files, slots>> BY <2>1 DEF GroupParts, Record
  <2>9. MappingInv'
    BY <1>1, <1>2, <2>6, <2>8, RoundKeeps DEF AutoStages, UnclaimedStages
  <2> QED BY <1>1, <2>7, <2>9 DEF ScanStep, UnclaimedStages
<1>4. CASE ~CompleteParts(f)
  <2>1. UNCHANGED tableVars BY <1>4 DEF DetectParts
  <2>2. KeepsManual /\ TableInv' BY <1>2, <2>1, UnchangedFacts
  <2>3. UNCHANGED <<files, slots>> BY <2>1 DEF tableVars
  <2>4. MappingInv'
    BY <1>1, <1>2, <2>2, <2>3, RoundKeeps DEF AutoStages, UnclaimedStages
  <2> QED BY <1>1, <2>2, <2>4 DEF ScanStep, UnclaimedStages
<1> QED BY <1>3, <1>4

\* The rounds over conflicts.
LEMMA SlotRound ==
    ASSUME MappingInv, UNCHANGED <<old, failed, scans, edits>>, NEW st \in {"trim", "shift", "resolve"},
           NEW e, VisitSlot(st, e), UNCHANGED <<files, slots>>, TableInv', KeepsManual
    PROVE  ScanStep
<1>1. /\ stage = st /\ todo' = todo \ {e} /\ UNCHANGED <<lib, stage, pass, taken, snap>>
  BY DEF VisitSlot
<1>2. taken \subseteq Slots BY DEF MappingInv, StageTypeOK
<1>3. MappingInv' BY <1>1, <1>2, RoundKeeps DEF AutoStages, UnclaimedStages
<1> QED BY <1>1, <1>3 DEF ScanStep, UnclaimedStages

\* What the claims copied before a loop tell of the present ones.
LEMMA SnapFacts ==
    ASSUME MappingInv, stage \in {"trim", "shift"}, NEW e, NEW f \in SnapClaimants(e)
    PROVE  /\ f \in Files /\ f \in files /\ snap[f].run \subseteq slots
           /\ snap[f].evidence \subseteq Tags
           /\ ~snap[f].manual => ~claim[f].manual
<1>1. f \in Files /\ snap[f].run # {} BY DEF SnapClaimants
<1>2. snap[f] \in Claims \cup {Unclaimed} BY <1>1 DEF MappingInv, StageTypeOK
<1> QED BY <1>1, <1>2, ClaimFacts DEF MappingInv, SnapInv

LEMMA TrimStep ==
    ASSUME MappingInv, UNCHANGED <<old, failed, scans, edits>>, NEW e, TrimSlot(e)
    PROVE  ScanStep
<1> DEFINE rivals  == SnapClaimants(e)
           singles == {f \in rivals : snap[f].run = {e} /\ "exact" \in snap[f].evidence}
           trimmed == {f \in rivals : /\ snap[f].run \ {e} \in Runs
                                      /\ lib[f].exact \in snap[f].run \ {e}}
           settles == Cardinality(singles) = 1 /\ \A f \in rivals : ~snap[f].manual
           F == IF settles THEN trimmed ELSE {}
           new == [f \in F |-> Claim(snap[f].run \ {e}, FALSE, snap[f].evidence \cup {"adjusted"})]
<1>1. VisitSlot("trim", e) /\ Record(new, NoFiles) BY DEF TrimSlot
<1>2. stage = "trim" /\ TableInv BY <1>1 DEF VisitSlot, MappingInv
<1>3. \A f \in F : f \in SnapClaimants(e) /\ ~snap[f].manual /\ snap[f].run \ {e} \in Runs
  OBVIOUS
<1>4. \A f \in F : /\ f \in files /\ snap[f].run \ {e} \subseteq slots
                   /\ snap[f].evidence \subseteq Tags /\ ~claim[f].manual
  <2> HIDE DEF F
  <2> QED BY <1>2, <1>3, SnapFacts
<1>5. ASSUME NEW f \in F
      PROVE  new[f] \in Claims /\ new[f].run = snap[f].run \ {e} /\ ~new[f].manual
  <2>1. FALSE \in BOOLEAN OBVIOUS
  <2>2. new[f] = Claim(snap[f].run \ {e}, FALSE, snap[f].evidence \cup {"adjusted"}) OBVIOUS
  <2> HIDE DEF new, F
  <2>3. snap[f].evidence \cup {"adjusted"} \in SUBSET Tags BY <1>4 DEF Tags
  <2> QED
    <3> DEFINE ev == snap[f].evidence \cup {"adjusted"}
               r  == snap[f].run \ {e}
    <3> HIDE DEF ev, r
    <3>1. ev \in SUBSET Tags /\ r \in Runs /\ new[f] = Claim(r, FALSE, ev)
      BY <1>3, <2>2, <2>3 DEF ev, r
    <3>2. Claim(r, FALSE, ev) \in Claims /\ Claim(r, FALSE, ev).run = r
          /\ Claim(r, FALSE, ev).manual = FALSE
      BY <2>1, <3>1, MakeClaim
    <3> QED BY <3>1, <3>2 DEF r
<1>6. DOMAIN new = F /\ DOMAIN NoFiles = {} BY DEF NoFiles
<1> HIDE DEF new, F
<1>7. TableInv' BY <1>1, <1>2, <1>4, <1>5, <1>6, RecordKeeps
<1>8. KeepsManual BY <1>1, <1>4, <1>5, <1>6, RecordManual
<1>9. UNCHANGED <<files, slots>> BY <1>1 DEF Record
<1> QED BY <1>1, <1>7, <1>8, <1>9, SlotRound

LEMMA ShiftStep ==
    ASSUME MappingInv, UNCHANGED <<old, failed, scans, edits>>, NEW e, ShiftSlot(e)
    PROVE  ScanStep
<1>1. VisitSlot("shift", e) /\ stage = "shift" /\ TableInv
  BY DEF ShiftSlot, VisitSlot, MappingInv
<1>2. ASSUME NEW f \in Movable(e), NEW p \in Runs, \A h \in SnapClaimants(e) : ~snap[h].manual,
             CanShift(f, e, p), Assign(f, p, snap[f].evidence \cup {"adjusted"})
      PROVE  ScanStep
  <2>1. f \in SnapClaimants(e) /\ p \subseteq slots BY <1>2 DEF Movable, CanShift
  <2>2. f \in Files /\ f \in files /\ snap[f].evidence \subseteq Tags /\ ~claim[f].manual
    BY <1>1, <1>2, <2>1, SnapFacts
  <2>3. snap[f].evidence \cup {"adjusted"} \in SUBSET Tags BY <2>2 DEF Tags
  <2>4. TableInv' BY <1>1, <1>2, <2>1, <2>2, <2>3, AssignKeeps
  <2>5. \A h \in Files : claim'[h] = IF h = f THEN Claim(p, FALSE, snap[f].evidence \cup {"adjusted"})
                                      ELSE claim[h]
    BY <1>2, AssignFacts
  <2>6. KeepsManual BY <2>2, <2>5 DEF KeepsManual, Claim
  <2>7. UNCHANGED <<files, slots>> BY <1>2 DEF Assign, Record
  <2> QED BY <1>1, <2>4, <2>6, <2>7, SlotRound
<1>3. CASE UNCHANGED tableVars
  <2>1. KeepsManual /\ TableInv' BY <1>1, <1>3, UnchangedFacts
  <2>2. UNCHANGED <<files, slots>> BY <1>3 DEF tableVars
  <2> QED BY <1>1, <2>1, <2>2, SlotRound
<1> QED BY <1>2, <1>3 DEF ShiftSlot

LEMMA ResolveSlotStep ==
    ASSUME MappingInv, UNCHANGED <<old, failed, scans, edits>>, NEW e, ResolveSlot(e)
    PROVE  ScanStep
<1>1. VisitSlot("resolve", e) /\ TableInv BY DEF ResolveSlot, MappingInv
<1>2. ASSUME NEW F \in SUBSET Claimants(e), NEW why \in Reasons, Contested(e), MarkUnassigned(F, why)
      PROVE  ScanStep
  <2>1. F \subseteq files BY <1>1, ClaimantsAreFiles
  <2>2. TableInv' BY <1>1, <1>2, <2>1, MarkKeeps
  <2>3. KeepsManual BY <1>2, MarkManual DEF Contested
  <2>4. UNCHANGED <<files, slots>> BY <1>2 DEF MarkUnassigned, Record
  <2> QED BY <1>1, <2>2, <2>3, <2>4, SlotRound
<1>3. ASSUME NEW f, NEW copies, Contested(e), KeepCopy(e, f, copies) PROVE ScanStep
  <2> DEFINE dropped == [h \in Claimants(e) \ {f} |-> IF h \in copies THEN "other" ELSE "lost conflict"]
  <2>1. Record(NoFiles, dropped) BY <1>3 DEF KeepCopy
  <2>2. /\ DOMAIN NoFiles = {} /\ DOMAIN dropped \subseteq Claimants(e)
        /\ \A h \in DOMAIN dropped : dropped[h] \in Reasons
    BY DEF NoFiles, Reasons
  <2> HIDE DEF dropped
  <2>3. Claimants(e) \subseteq files BY <1>1, ClaimantsAreFiles
  <2>4. TableInv' BY <1>1, <2>1, <2>2, <2>3, RecordKeeps
  <2>5. KeepsManual BY <1>3, <2>1, <2>2, RecordManual DEF Contested
  <2>6. UNCHANGED <<files, slots>> BY <2>1 DEF Record
  <2> QED BY <1>1, <2>4, <2>5, <2>6, SlotRound
<1>4. CASE UNCHANGED tableVars
  <2>1. KeepsManual /\ TableInv' BY <1>1, <1>4, UnchangedFacts
  <2>2. UNCHANGED <<files, slots>> BY <1>4 DEF tableVars
  <2> QED BY <1>1, <2>1, <2>2, SlotRound
<1>5. "lost conflict" \in Reasons /\ "other" \in Reasons BY DEF Reasons
<1> QED BY <1>2, <1>3, <1>4, <1>5 DEF ResolveSlot

LEMMA NextStageStep ==
    ASSUME MappingInv, UNCHANGED <<old, failed, scans, edits>>, NextStage
    PROVE  ScanStep
<1>1. stage \notin {"open", "carry", "hint"} /\ Enter(After) /\ UNCHANGED <<lib, tableVars>>
  BY DEF NextStage
<1>2. stage \in Stages BY DEF MappingInv, StageTypeOK
<1>3. After \in RescueStages \cup ResolveStages \cup {"open"}
  BY <1>1, <1>2 DEF After, Stages, RescueStages, ResolveStages
<1>4. MappingInv' BY <1>1, <1>3, EnterKeeps
<1>5. KeepsManual /\ TakesFree BY <1>1, UnchangedFacts
<1> QED BY <1>4, <1>5 DEF ScanStep
(***************************************************************************)
(* Carrying over, merging, editing                                         *)
(***************************************************************************)
LEMMA BeginCarryOverKeeps ==
    ASSUME MappingInv, BeginCarryOver
    PROVE  ScanStep
<1>1. /\ stage = "hint" /\ stage' = "carry" /\ todo' = {f \in Files : old.claim[f].manual}
      /\ taken' = {} /\ UNCHANGED <<lib, tableVars, pass, snap, old, failed, scans, edits>>
  BY DEF BeginCarryOver
<1>2. KeepsManual /\ TakesFree /\ TableInv' BY <1>1, UnchangedFacts DEF MappingInv
<1>3. StageTypeOK' BY <1>1 DEF MappingInv, StageTypeOK, Stages
<1>4. LoopInv' BY <1>1 DEF LoopInv, FileStages, AutoStages, UnclaimedStages
<1>5. SnapInv' BY <1>1 DEF SnapInv
<1>6. OldInv' BY <1>1 DEF MappingInv, OldInv
<1> QED BY <1>2, <1>3, <1>4, <1>5, <1>6 DEF ScanStep, MappingInv

\* A claim to be carried over has a run.
LEMMA OldFacts ==
    ASSUME MappingInv, stage = "carry", NEW f \in todo
    PROVE  f \in Files /\ old.claim[f].run \in Runs
<1>1. f \in Files /\ old.claim[f].manual /\ old.claim[f] \in Claims \cup {Unclaimed}
  BY DEF MappingInv, OldInv
<1> QED BY <1>1, ClaimFacts

\* A round of carry_over_manual_assignments.
LEMMA CarryRound ==
    ASSUME MappingInv, stage = "carry", TableInv', todo' \subseteq todo,
           UNCHANGED <<lib, files, slots, stage, pass, taken, snap, old, failed, scans, edits>>
    PROVE  MappingInv'
  BY RoundKeeps DEF AutoStages, UnclaimedStages, MappingInv, StageTypeOK

LEMMA CarryOverFileKeeps ==
    ASSUME MappingInv, NEW f, CarryOverFile(f)
    PROVE  MappingInv'
<1> DEFINE run == old.claim[f].run
<1>1. /\ stage = "carry" /\ f \in todo /\ todo' \subseteq todo
      /\ UNCHANGED <<lib, stage, pass, taken, snap, old, failed, scans, edits>>
  BY DEF CarryOverFile
<1>2. f \in Files /\ run \in Runs /\ TableInv BY <1>1, OldFacts DEF MappingInv
<1>3. CASE f \in files /\ run \subseteq slots
  <2>1. AssignDisplacing(f, run) BY <1>3 DEF CarryOverFile
  <2>2. TableInv' BY <1>2, <1>3, <2>1, DisplaceKeeps
  <2>3. UNCHANGED <<files, slots>> BY <2>1 DEF AssignDisplacing, Record
  <2> QED BY <1>1, <2>2, <2>3, CarryRound
<1>4. CASE ~(f \in files /\ run \subseteq slots)
  <2>1. UNCHANGED tableVars BY <1>4 DEF CarryOverFile
  <2>2. TableInv' BY <1>2, <2>1, UnchangedFacts
  <2> QED BY <1>1, <2>1, <2>2, CarryRound DEF tableVars
<1> QED BY <1>3, <1>4

LEMMA CarryOverGroupKeeps ==
    ASSUME MappingInv, NEW f, CarryOverGroup(f)
    PROVE  MappingInv'
<1> DEFINE run == old.claim[f].run
           group == OldMembers(f)
           dropped == [h \in ClaimantsOf(run) \ group |-> "other"]
<1>1. /\ stage = "carry" /\ f \in todo /\ todo' \subseteq todo
      /\ UNCHANGED <<lib, stage, pass, taken, snap, old, failed, scans, edits>>
  BY DEF CarryOverGroup
<1>2. f \in Files /\ run \in Runs /\ TableInv BY <1>1, OldFacts DEF MappingInv
<1>3. CASE group \subseteq files /\ run \subseteq slots
  <2>1. PICK lead : GroupParts(group, lead, run, TRUE, dropped) BY <1>3 DEF CarryOverGroup
  <2>2. DOMAIN dropped \subseteq files /\ \A h \in DOMAIN dropped : dropped[h] \in Reasons
    BY <1>2, ClaimantsAreFiles DEF Reasons
  <2>3. TRUE \in BOOLEAN OBVIOUS
  <2>4. UNCHANGED <<files, slots>> BY <2>1 DEF GroupParts, Record
  <2> HIDE DEF run, group, dropped
  <2>5. TableInv' BY <1>2, <1>3, <2>1, <2>2, <2>3, GroupKeeps
  <2> QED BY <1>1, <2>4, <2>5, CarryRound
<1>4. CASE ~(group \subseteq files /\ run \subseteq slots)
  <2>1. UNCHANGED tableVars BY <1>4 DEF CarryOverGroup
  <2>2. TableInv' BY <1>2, <2>1, UnchangedFacts
  <2> QED BY <1>1, <2>1, <2>2, CarryRound DEF tableVars
<1> QED BY <1>3, <1>4

LEMMA CarryOverRaisesKeeps ==
    ASSUME MappingInv, NEW f, CarryOverRaises(f)
    PROVE  MappingInv'
<1>1. /\ files' = {} /\ slots' = {} /\ claim' = [h \in Files |-> Unclaimed]
      /\ reason' = [h \in Files |-> NoReason]
      /\ stage' = "open" /\ todo' = {} /\ old' = EmptyTable /\ failed' = TRUE
      /\ UNCHANGED <<lib, pass, taken, snap, scans, edits>>
  BY DEF CarryOverRaises, SetTable, EmptyTable
<1>2. TableInv'
  <2>1. Unclaimed.run = {} BY DEF Unclaimed, Claim
  <2> QED BY <1>1, <2>1 DEF TableInv, TableTypeOK, Accounted, ClaimsAreListed, ClaimedSlots
<1>3. StageTypeOK' BY <1>1 DEF MappingInv, StageTypeOK, Stages
<1>4. LoopInv' /\ SnapInv' BY <1>1 DEF LoopInv, SnapInv, FileStages, AutoStages, UnclaimedStages
<1>5. OldInv' BY <1>1 DEF OldInv, EmptyTable
<1> QED BY <1>2, <1>3, <1>4, <1>5 DEF MappingInv

LEMMA CarryOverSkippedKeeps ==
    ASSUME MappingInv, NEW f, CarryOverSkipped(f)
    PROVE  MappingInv'
<1>1. /\ stage = "carry" /\ todo' \subseteq todo
      /\ UNCHANGED <<lib, tableVars, stage, pass, taken, snap, old, failed, scans, edits>>
  BY DEF CarryOverSkipped
<1>2. TableInv' BY <1>1, UnchangedFacts DEF MappingInv
<1> QED BY <1>1, <1>2, CarryRound DEF tableVars

LEMMA EndScanKeeps ==
    ASSUME MappingInv, EndScan
    PROVE  MappingInv'
<1>1. /\ stage' = "open" /\ old' = EmptyTable
      /\ UNCHANGED <<lib, tableVars, pass, todo, taken, snap, failed, scans, edits>>
  BY DEF EndScan
<1>2. TableInv' BY <1>1, UnchangedFacts DEF MappingInv
<1>3. StageTypeOK' BY <1>1 DEF MappingInv, StageTypeOK, Stages
<1>4. LoopInv' /\ SnapInv' BY <1>1 DEF LoopInv, SnapInv, FileStages, AutoStages, UnclaimedStages
<1>5. OldInv' BY <1>1 DEF OldInv, EmptyTable
<1> QED BY <1>2, <1>3, <1>4, <1>5 DEF MappingInv

LEMMA AbsorbKeeps ==
    ASSUME MappingInv, NEW t \in Siblings, Absorb(t)
    PROVE  MappingInv'
<1> DEFINE theirs == {t.claim[f].group : f \in t.files} \ {NoGroup}
<1>1. PICK id \in [theirs -> FreeGroups] :
         claim' = [f \in Files |-> IF f \notin t.files THEN claim[f]
                                  ELSE [t.claim[f] EXCEPT !.group = IF @ = NoGroup THEN @ ELSE id[@]]]
  BY DEF Absorb
<1>2. /\ files' = files \cup t.files /\ slots' = slots \cup t.slots
      /\ reason' = [f \in Files |-> IF f \in t.files THEN t.reason[f] ELSE reason[f]]
      /\ stage' = "parts" /\ pass' = "merge" /\ todo' = {f \in files' : lib[f].marker = 1}
      /\ taken' = {} /\ snap' = EmptyTable.claim
      /\ UNCHANGED <<lib, old, failed, scans, edits>>
  BY DEF Absorb
<1>3. /\ t.files \subseteq Files /\ t.slots \subseteq Slots
      /\ \A f \in Files : /\ t.claim[f] \in Claims \cup {Unclaimed}
                          /\ t.reason[f] \in Reasons \cup {NoReason}
                          /\ f \in t.files => (t.claim[f].run # {} <=> t.reason[f] = NoReason)
                          /\ t.claim[f].run \subseteq t.slots
  BY SiblingAssumption DEF SiblingAssumption
<1>4. TableInv BY DEF MappingInv
<1>5. ASSUME NEW f \in Files, f \in t.files
      PROVE  /\ claim'[f] \in Claims \cup {Unclaimed}
             /\ claim'[f].run = t.claim[f].run
             /\ claim'[f].run = {} => claim'[f] = Unclaimed
  <2>1. CASE t.claim[f].group = NoGroup
    <3> DEFINE c == t.claim[f]
    <3>1. claim'[f] = [c EXCEPT !.group = NoGroup] BY <1>1, <1>5, <2>1
    <3>2. c \in Claims \cup {Unclaimed} /\ c.group = NoGroup BY <1>3, <2>1
    <3> HIDE DEF c
    <3>3. CASE c = Unclaimed
      <4>1. claim'[f] = c BY <3>1, <3>3 DEF Unclaimed, Claim
      <4> QED BY <3>3, <4>1 DEF c
    <3>4. CASE c \in Claims
      <4>1. c.run # {} BY <3>4, ClaimFacts, TableAssumption DEF TableAssumption, Claims
      <4>2. claim'[f] \in Claims /\ claim'[f].run = c.run BY <3>1, <3>4 DEF Claims
      <4> QED BY <4>1, <4>2 DEF c
    <3> QED BY <3>2, <3>3, <3>4
  <2>2. CASE t.claim[f].group # NoGroup
    <3> DEFINE c == t.claim[f]
    <3>1. c \in Claims BY <1>3, <2>2, ClaimFacts
    <3>2. c.group \in theirs BY <1>5, <2>2
    <3>3. id[c.group] \in Groups BY <1>1, <3>2 DEF FreeGroups
    <3>4. claim'[f] = [c EXCEPT !.group = id[c.group]] BY <1>1, <1>5, <2>2
    <3>5. c.run # {} BY <3>1, ClaimFacts, TableAssumption DEF TableAssumption, Claims
    <3> HIDE DEF c, theirs
    <3>6. claim'[f] \in Claims /\ claim'[f].run = c.run BY <3>1, <3>3, <3>4 DEF Claims
    <3> QED BY <3>5, <3>6 DEF c
  <2> QED BY <2>1, <2>2
<1>6. \A f \in Files \ t.files : claim'[f] = claim[f] /\ reason'[f] = reason[f]
  BY <1>1, <1>2
<1>7. TableTypeOK'
  <2>1. claim' \in [Files -> Claims \cup {Unclaimed}]
    <3>1. \A f \in Files : claim'[f] \in Claims \cup {Unclaimed}
      BY <1>4, <1>5, <1>6 DEF TableInv, TableTypeOK
    <3>2. DOMAIN claim' = Files BY <1>1
    <3> QED BY <1>1, <3>1, <3>2
  <2> QED BY <1>2, <1>3, <1>4, <2>1 DEF TableInv, TableTypeOK
<1>8. Accounted'
  BY <1>2, <1>3, <1>4, <1>5, <1>6 DEF TableInv, Accounted
<1>9. ClaimsAreListed'
  <2>1. \A f \in Files : claim'[f].run \subseteq slots'
    BY <1>2, <1>3, <1>4, <1>5, <1>6 DEF TableInv, ClaimsAreListed, ClaimedSlots
  <2> QED BY <2>1 DEF ClaimsAreListed, ClaimedSlots
<1>10. StageTypeOK'
  <2>1. snap' \in [Files -> Claims \cup {Unclaimed}] BY <1>2 DEF EmptyTable
  <2>2. todo' \subseteq Files BY <1>2, <1>3, <1>4 DEF TableInv, TableTypeOK
  <2> QED BY <1>2, <2>1, <2>2 DEF MappingInv, StageTypeOK, Stages, ResolveStages
<1>11. LoopInv' BY <1>2 DEF LoopInv, FileStages, AutoStages, UnclaimedStages
<1>12. SnapInv' BY <1>2 DEF SnapInv
<1>13. OldInv' BY <1>2 DEF MappingInv, OldInv
<1> QED BY <1>7, <1>8, <1>9, <1>10, <1>11, <1>12, <1>13 DEF MappingInv, TableInv

\* An edit touches the table only.
LEMMA EditKeeps ==
    ASSUME MappingInv, Edit, TableInv'
    PROVE  MappingInv'
<1>1. /\ stage = "open" /\ edits < MaxEdits /\ edits' = edits + 1
      /\ UNCHANGED <<lib, stage, pass, todo, taken, snap, old, failed, scans>>
  BY DEF Edit, stageVars
<1>2. edits' \in 0 .. MaxEdits
  <2>1. edits \in 0 .. MaxEdits /\ MaxEdits \in Nat
    BY MappingAssumption DEF MappingAssumption, MappingInv, StageTypeOK
  <2>2. edits < MaxEdits /\ edits' = edits + 1 BY <1>1
  <2> QED BY <2>1, <2>2
<1>3. StageTypeOK' BY <1>1, <1>2 DEF MappingInv, StageTypeOK
<1>4. LoopInv' /\ SnapInv' BY <1>1 DEF LoopInv, SnapInv, FileStages, AutoStages, UnclaimedStages
<1>5. OldInv' BY <1>1 DEF MappingInv, OldInv
<1> QED BY <1>3, <1>4, <1>5 DEF MappingInv

LEMMA UserEditKeeps ==
    ASSUME MappingInv, UserEdit
    PROVE  MappingInv'
<1>1. TableInv /\ files \subseteq Files /\ slots \subseteq Slots
  BY DEF MappingInv, TableInv, TableTypeOK
<1>2. "other" \in Reasons /\ "lost conflict" \in Reasons BY DEF Reasons
<1>3. ASSUME NEW f \in Files, Unassign(f) PROVE MappingInv'
  <2>1. Edit /\ f \in files /\ MarkUnassigned({f}, "other") BY <1>3 DEF Unassign, HasRow
  <2>2. TableInv' BY <1>1, <1>2, <2>1, MarkKeeps
  <2> QED BY <2>1, <2>2, EditKeeps
<1>4. ASSUME NEW f \in Files, Ungroup(f) PROVE MappingInv'
  <2>1. Edit /\ UngroupParts(f) BY <1>4 DEF Ungroup
  <2>2. TableInv' BY <1>1, <2>1, UngroupKeeps
  <2> QED BY <2>1, <2>2, EditKeeps
<1>5. ASSUME NEW f \in Files, Approve(f) PROVE MappingInv'
  <2>1. Edit /\ SetApproved(f) /\ claim[f].run # {} BY <1>5 DEF Approve, Automatic, Assigned
  <2>2. TableInv' BY <1>1, <2>1, ApproveKeeps
  <2> QED BY <2>1, <2>2, EditKeeps
<1>6. ASSUME NEW f \in Files, NEW r \in Runs, ManualAssign(f, r) PROVE MappingInv'
  <2>1. Edit /\ f \in files /\ r \subseteq slots /\ AssignDisplacing(f, r)
    BY <1>6 DEF ManualAssign, HasRow
  <2>2. TableInv' BY <1>1, <2>1, DisplaceKeeps
  <2> QED BY <2>1, <2>2, EditKeeps
<1>7. ASSUME NEW f \in Files, NEW e \in Slots, KeepThis(f, e) PROVE MappingInv'
  <2>1. Edit /\ MarkUnassigned(Claimants(e) \ {f}, "lost conflict") BY <1>7 DEF KeepThis
  <2>2. Claimants(e) \ {f} \in SUBSET files BY <1>1, ClaimantsAreFiles
  <2>3. TableInv' BY <1>1, <1>2, <2>1, <2>2, MarkKeeps
  <2> QED BY <2>1, <2>3, EditKeeps
<1>8. ASSUME NEW e \in Slots, MergeParts(e) PROVE MappingInv'
  <2>1. PICK lead : GroupParts(Claimants(e), lead, {e}, TRUE, NoFiles) BY <1>8 DEF MergeParts
  <2>2. PICK f \in Claimants(e) : TRUE BY <1>8 DEF MergeParts
  <2>3. f \in Files /\ e \in claim[f].run BY <2>2 DEF Claimants
  <2>4. {e} \in Runs /\ {e} \subseteq slots BY <1>1, <2>3, ReasonFacts, RunFacts
  <2>5. /\ Claimants(e) \in SUBSET files /\ TRUE \in BOOLEAN
        /\ DOMAIN NoFiles \subseteq files /\ DOMAIN NoFiles = {}
    BY <1>1, ClaimantsAreFiles DEF NoFiles
  <2>6. TableInv' BY <1>1, <2>1, <2>4, <2>5, GroupKeeps
  <2> QED BY <1>8, <2>6, EditKeeps DEF MergeParts
<1>9. CASE UnassignAll
  <2>1. Edit /\ MarkUnassigned(Assigned, "other") BY <1>9 DEF UnassignAll
  <2>2. Assigned \in SUBSET files BY <1>1, ClaimantsAreFiles DEF Assigned
  <2>3. TableInv' BY <1>1, <1>2, <2>1, <2>2, MarkKeeps
  <2> QED BY <2>1, <2>3, EditKeeps
<1> QED BY <1>3, <1>4, <1>5, <1>6, <1>7, <1>8, <1>9 DEF UserEdit
(***************************************************************************)
(* The theorems                                                            *)
(***************************************************************************)
LEMMA MappingInit ==
    ASSUME Init
    PROVE  MappingInv
<1>1. Unclaimed.run = {} /\ EmptyTable.claim = [f \in Files |-> Unclaimed]
  BY DEF Unclaimed, Claim, EmptyTable
<1>2. TableInv
  <2>1. /\ files = {} /\ slots = {} /\ claim = [f \in Files |-> Unclaimed]
        /\ reason = [f \in Files |-> NoReason]
    BY <1>1 DEF Init, TableInit, EmptyTable
  <2>2. TableTypeOK BY <2>1 DEF TableTypeOK
  <2>3. Accounted BY <1>1, <2>1 DEF Accounted
  <2>4. ClaimsAreListed BY <1>1, <2>1 DEF ClaimsAreListed, ClaimedSlots
  <2> QED BY <2>2, <2>3, <2>4 DEF TableInv
<1>3. StageTypeOK
  <2>1. snap \in [Files -> Claims \cup {Unclaimed}] BY <1>1 DEF Init
  <2>2. scans \in 0 .. MaxScans /\ edits \in 0 .. MaxEdits
    BY MappingAssumption DEF MappingAssumption, Init
  <2> QED BY <2>1, <2>2 DEF Init, StageTypeOK, Stages
<1>4. LoopInv /\ SnapInv
  BY DEF Init, LoopInv, SnapInv, FileStages, AutoStages, UnclaimedStages
<1>5. OldInv BY <1>1 DEF Init, OldInv
<1> QED BY <1>2, <1>3, <1>4, <1>5 DEF MappingInv

\* Every step keeps the invariant; those of a scan or a merge keep manual claims,
\* and those of the rescues of unclaimed files only take free episodes.
MappingStep ==
    /\ MappingInv'
    /\ stage \in RescueStages \cup ResolveStages => KeepsManual
    /\ stage \in UnclaimedStages => TakesFree

LEMMA MappingNext ==
    ASSUME MappingInv, [Next]_vars
    PROVE  MappingStep
<1> USE DEF MappingStep
<1>1. ASSUME NEW found \in Disk, NEW listing \in Listings, BeginScan(found, listing)
      PROVE  MappingStep
  <2>1. MappingInv' BY <1>1, BeginScanKeeps
  <2> QED BY <1>1, <2>1 DEF BeginScan, RescueStages, ResolveStages, UnclaimedStages
<1>2. CASE Resolve
  <2>1. UNCHANGED <<old, failed, scans, edits>> BY <1>2 DEF Resolve
  <2>2. ASSUME NEW f \in todo, RescueTitle(f) \/ RehomeNumbered(f) \/ DropScattered(f)
                 \/ MoveRun(f) \/ RescueFuzzy(f) \/ RescueHint(f) \/ DetectParts(f)
        PROVE  ScanStep
    BY <2>1, <2>2, RescueTitleStep, RehomeStep, DropScatteredStep, MoveRunStep, RescueFuzzyStep,
       RescueHintStep, DetectPartsStep
  <2>3. ASSUME NEW e \in todo, TrimSlot(e) \/ ShiftSlot(e) \/ ResolveSlot(e)
        PROVE  ScanStep
    BY <2>1, <2>3, TrimStep, ShiftStep, ResolveSlotStep
  <2>4. ASSUME NEW n \in todo, FollowOffset(n) PROVE ScanStep
    BY <2>1, <2>4, FollowOffsetStep
  <2>5. ASSUME NextStage PROVE ScanStep BY <2>1, <2>5, NextStageStep
  <2>6. ScanStep BY <1>2, <2>2, <2>3, <2>4, <2>5 DEF Resolve
  <2> QED BY <2>6 DEF ScanStep
<1>3. CASE CarryOver
  <2>1. CASE BeginCarryOver
    <3>1. ScanStep BY <2>1, BeginCarryOverKeeps
    <3> QED BY <3>1 DEF ScanStep
  <2>2. ASSUME NEW f \in todo, \/ CarryOverFile(f) \/ CarryOverGroup(f)
                               \/ CarryOverRaises(f) \/ CarryOverSkipped(f)
        PROVE  MappingStep
    <3>1. MappingInv'
      BY <2>2, CarryOverFileKeeps, CarryOverGroupKeeps, CarryOverRaisesKeeps, CarryOverSkippedKeeps
    <3>2. stage = "carry"
      BY <2>2 DEF CarryOverFile, CarryOverGroup, CarryOverRaises, CarryOverSkipped
    <3> QED BY <3>1, <3>2 DEF RescueStages, ResolveStages, UnclaimedStages
  <2>3. CASE EndScan
    <3>1. MappingInv' BY <2>3, EndScanKeeps
    <3>2. stage = "carry" BY <2>3 DEF EndScan
    <3> QED BY <3>1, <3>2 DEF RescueStages, ResolveStages, UnclaimedStages
  <2> QED BY <1>3, <2>1, <2>2, <2>3 DEF CarryOver
<1>4. ASSUME NEW t \in Siblings, Absorb(t) PROVE MappingStep
  <2>1. MappingInv' BY <1>4, AbsorbKeeps
  <2> QED BY <1>4, <2>1 DEF Absorb, RescueStages, ResolveStages, UnclaimedStages
<1>5. CASE UserEdit
  <2>1. MappingInv' BY <1>5, UserEditKeeps
  <2>2. stage = "open"
    BY <1>5 DEF UserEdit, Unassign, Ungroup, Approve, ManualAssign, KeepThis, MergeParts,
                UnassignAll, Edit
  <2> QED BY <2>1, <2>2 DEF RescueStages, ResolveStages, UnclaimedStages
<1>6. CASE UNCHANGED vars
  <2>1. UNCHANGED <<lib, tableVars, stage, pass, todo, taken, snap, old, failed, scans, edits>>
    BY <1>6 DEF vars, stageVars
  <2>2. KeepsManual /\ TakesFree /\ TableInv' BY <2>1, UnchangedFacts DEF MappingInv
  <2>3. UNCHANGED <<files, slots, claim>> BY <2>1 DEF tableVars
  <2>4. StageTypeOK' BY <2>1 DEF MappingInv, StageTypeOK
  <2>5. LoopInv' BY <2>1, <2>3 DEF MappingInv, LoopInv, FileStages, AutoStages, UnclaimedStages
  <2>6. SnapInv' /\ OldInv' BY <2>1, <2>3 DEF MappingInv, SnapInv, OldInv
  <2> QED BY <2>2, <2>4, <2>5, <2>6 DEF MappingInv
<1> QED BY <1>1, <1>2, <1>3, <1>4, <1>5, <1>6 DEF Next

\* The invariant of the table, the loops and their copies holds throughout.
THEOREM MappingInvariant == Spec => []MappingInv
<1>1. Init => MappingInv BY MappingInit
<1>2. MappingInv /\ [Next]_vars => MappingInv' BY MappingNext DEF MappingStep
<1> HIDE DEF MappingInv, vars
<1> QED BY <1>1, <1>2, PTL DEF Spec

\* The variables keep their types.
THEOREM MappingTypeCorrect == Spec => []TypeOK
<1>1. MappingInv => TypeOK BY DEF MappingInv, StageTypeOK, TableInv, TypeOK
<1> QED BY <1>1, MappingInvariant, PTL

\* A file of the table is either assigned or has a reason for not being so, and
\* nothing is recorded of other files.
THEOREM FilesAccounted == Spec => []Accounted
<1>1. MappingInv => Accounted BY DEF MappingInv, TableInv
<1> QED BY <1>1, MappingInvariant, PTL

\* Claimed episodes are in the table.
THEOREM ClaimsStayListed == Spec => []ClaimsAreListed
<1>1. MappingInv => ClaimsAreListed BY DEF MappingInv, TableInv
<1> QED BY <1>1, MappingInvariant, PTL

\* No stage of a scan or a merge, however the loops are ordered, changes what the
\* user assigned.
THEOREM ManualStands == Spec => ManualClaimsStand
<1>1. MappingInv /\ [Next]_vars =>
         [\A f \in Files :
             claim[f].manual /\ stage \in RescueStages \cup ResolveStages => claim'[f] = claim[f]]_vars
  BY MappingNext DEF MappingStep, KeepsManual
<1> HIDE DEF MappingInv, Next, vars
<1> QED BY <1>1, MappingInvariant, PTL DEF Spec, ManualClaimsStand

\* The rescues of files without a claim take free episodes only, although the set
\* they consult was copied before their loop.
THEOREM RescuesTakeFreeSlots == Spec => RescuedSlotsWereFree
<1>1. MappingInv /\ [Next]_vars =>
         [\A f \in Files :
             stage \in {"rescue", "fuzzy", "hint"} /\ claim'[f].run # claim[f].run
             => claim'[f].run \cap ClaimedSlots = {}]_vars
  BY MappingNext DEF MappingStep, TakesFree, UnclaimedStages
<1> HIDE DEF MappingInv, Next, vars
<1> QED BY <1>1, MappingInvariant, PTL DEF Spec, RescuedSlotsWereFree

(***************************************************************************)
(* Part groups                                                             *)
(***************************************************************************)
\* The members of a group are of one mind, and being told apart by no evidence
\* they are equally strong.
GroupsInOrder ==
    /\ GroupsAgree
    /\ \A f \in Files : Grouped(f) => claim[f].evidence = {}

\* A step that gives no file a group.
JoinsNone ==
    \A f \in Files : claim'[f] = claim[f] \/ claim'[f].group = NoGroup

LEMMA JoiningNoneKeeps ==
    ASSUME GroupsInOrder, JoinsNone
    PROVE  GroupsInOrder'
<1> SUFFICES ASSUME NEW f \in Files, NEW h \in Files,
                    claim'[f].group # NoGroup, claim'[h].group = claim'[f].group
             PROVE  /\ Agree(claim'[f], claim'[h]) /\ (h = f \/ claim'[h].part \/ claim'[f].part)
                    /\ claim'[f].evidence = {}
  BY DEF GroupsInOrder, GroupsAgree, Members, Grouped
<1>1. claim'[f] = claim[f] /\ claim'[h] = claim[h] BY DEF JoinsNone
<1> QED BY <1>1 DEF GroupsInOrder, GroupsAgree, Members, Grouped

LEMMA NoGroups ==
    /\ Unclaimed.group = NoGroup
    /\ \A r, manual, evidence : Claim(r, manual, evidence).group = NoGroup
  BY DEF Unclaimed, Claim

LEMMA RecordJoinsNone ==
    ASSUME NEW new, NEW dropped, Record(new, dropped), \A f \in DOMAIN new : new[f].group = NoGroup
    PROVE  JoinsNone
  BY NoGroups DEF Record, JoinsNone

LEMMA MarkJoinsNone ==
    ASSUME NEW F, NEW why, MarkUnassigned(F, why)
    PROVE  JoinsNone
<1> DEFINE dropped == [f \in F |-> why]
<1>1. Record(NoFiles, dropped) /\ DOMAIN NoFiles = {} BY DEF MarkUnassigned, NoFiles
<1> HIDE DEF dropped
<1> QED BY <1>1, RecordJoinsNone

LEMMA AssignJoinsNone ==
    ASSUME NEW f, NEW r, NEW evidence, Assign(f, r, evidence)
    PROVE  JoinsNone
<1>1. \A h \in Files : claim'[h] = IF h = f THEN Claim(r, FALSE, evidence) ELSE claim[h]
  BY AssignFacts
<1> QED BY <1>1, NoGroups DEF JoinsNone

LEMMA DisplaceJoinsNone ==
    ASSUME NEW f, NEW r, AssignDisplacing(f, r)
    PROVE  JoinsNone
<1> DEFINE new == [h \in {f} |-> Claim(r, TRUE, {})]
           dropped == [h \in ClaimantsOf(r) \ {f} |-> "other"]
<1>1. Record(new, dropped) BY DEF AssignDisplacing
<1>2. \A h \in DOMAIN new : new[h].group = NoGroup BY NoGroups
<1> HIDE DEF new, dropped
<1> QED BY <1>1, <1>2, RecordJoinsNone

LEMMA UngroupJoinsNone ==
    ASSUME TableInv, NEW f \in Files, UngroupParts(f)
    PROVE  JoinsNone
<1> DEFINE new == [h \in Members(f) |-> [claim[h] EXCEPT !.group = NoGroup, !.part = FALSE]]
<1>1. Record(new, NoFiles) BY DEF UngroupParts
<1>2. DOMAIN new = Members(f) OBVIOUS
<1>3. ASSUME NEW h \in Members(f) PROVE new[h].group = NoGroup
  <2> DEFINE c == claim[h]
  <2>1. c \in Claims BY ClaimFacts DEF Members, Grouped, TableInv, TableTypeOK
  <2>2. new[h] = [c EXCEPT !.group = NoGroup, !.part = FALSE] OBVIOUS
  <2> HIDE DEF c, new
  <2> QED BY <2>1, <2>2 DEF Claims
<1> HIDE DEF new
<1> QED BY <1>1, <1>2, <1>3, RecordJoinsNone

\* group_parts makes one group with one primary, under an id no file has.
LEMMA GroupingKeeps ==
    ASSUME GroupsInOrder, NEW F, NEW lead, NEW r \in Runs, NEW manual \in BOOLEAN,
           NEW dropped, GroupParts(F, lead, r, manual, dropped)
    PROVE  GroupsInOrder'
<1> DEFINE g == CHOOSE g \in FreeGroups : TRUE
           new == [f \in F |-> [Claim(r, manual, {}) EXCEPT !.group = g, !.part = (f # lead)]]
<1>1. Record(new, dropped) BY DEF GroupParts
<1>0. g \in FreeGroups BY DEF GroupParts
<1>2. g # NoGroup /\ \A f \in Files : claim[f].group # g
  BY <1>0, RunFacts DEF FreeGroups
<1>3. DOMAIN new = F OBVIOUS
<1>4. ASSUME NEW f \in F
      PROVE  /\ new[f].run = r /\ new[f].manual = manual /\ new[f].approved = FALSE
             /\ new[f].group = g /\ new[f].part = (f # lead) /\ new[f].evidence = {}
  <2> DEFINE c == Claim(r, manual, {})
             part == (f # lead)
  <2>1. new[f] = [c EXCEPT !.group = g, !.part = part] OBVIOUS
  <2>2. c \in Claims /\ c.run = r /\ c.manual = manual
    <3>1. {} \in SUBSET Tags OBVIOUS
    <3> QED BY <3>1, MakeClaim
  <2>3. c.approved = FALSE /\ c.evidence = {} BY DEF Claim
  <2> HIDE DEF c, part, new, g
  <2>4. /\ new[f].run = r /\ new[f].manual = manual /\ new[f].approved = FALSE
        /\ new[f].group = g /\ new[f].part = part /\ new[f].evidence = {}
    BY <2>1, <2>2, <2>3 DEF Claims
  <2> QED BY <2>4 DEF part
<1> HIDE DEF new, g
<1>5. \A f \in Files : IF f \in F THEN claim'[f] = new[f]
                       ELSE claim'[f] = claim[f] \/ claim'[f] = Unclaimed
  BY <1>1, <1>3 DEF Record
<1> SUFFICES ASSUME NEW f \in Files, NEW h \in Files,
                    claim'[f].group # NoGroup, claim'[h].group = claim'[f].group
             PROVE  /\ Agree(claim'[f], claim'[h]) /\ (h = f \/ claim'[h].part \/ claim'[f].part)
                    /\ claim'[f].evidence = {}
  BY DEF GroupsInOrder, GroupsAgree, Members, Grouped
<1>6. CASE f \in F /\ h \in F
  BY <1>4, <1>5, <1>6 DEF Agree
<1>7. CASE f \notin F /\ h \notin F
  <2>1. claim'[f] = claim[f] /\ claim'[h] = claim[h] BY <1>5, <1>7, NoGroups
  <2> QED BY <2>1 DEF GroupsInOrder, GroupsAgree, Members, Grouped
<1>8. CASE f \in F /\ h \notin F
  <2>1. claim'[f].group = g BY <1>4, <1>5, <1>8
  <2>2. claim'[h].group # g BY <1>2, <1>5, <1>8, NoGroups
  <2> QED BY <2>1, <2>2
<1>9. CASE f \notin F /\ h \in F
  <2>1. claim'[h].group = g BY <1>4, <1>5, <1>9
  <2>2. claim'[f].group # g BY <1>2, <1>5, <1>9, NoGroups
  <2> QED BY <2>1, <2>2
<1> QED BY <1>6, <1>7, <1>8, <1>9

\* set_approved approves a group as a whole.
LEMMA ApprovingKeeps ==
    ASSUME TableInv, GroupsInOrder, NEW f \in Files, claim[f].run # {}, SetApproved(f)
    PROVE  GroupsInOrder'
<1> DEFINE F == Members(f) \cup {f}
           new == [h \in F |-> [claim[h] EXCEPT !.approved = TRUE]]
<1>1. Record(new, NoFiles) /\ DOMAIN NoFiles = {} /\ DOMAIN new = F BY DEF SetApproved, NoFiles
<1>2. ASSUME NEW h \in F
      PROVE  /\ new[h].run = claim[h].run /\ new[h].manual = claim[h].manual /\ new[h].approved
             /\ new[h].group = claim[h].group /\ new[h].part = claim[h].part
             /\ new[h].approved = TRUE /\ new[h].evidence = claim[h].evidence
  <2> DEFINE c == claim[h]
  <2>1. c \in Claims
    BY <1>2, ClaimFacts DEF Members, Grouped, TableInv, TableTypeOK
  <2>2. new[h] = [c EXCEPT !.approved = TRUE] OBVIOUS
  <2> HIDE DEF c, new
  <2>3. /\ new[h].run = c.run /\ new[h].manual = c.manual /\ new[h].approved = TRUE
        /\ new[h].group = c.group /\ new[h].part = c.part /\ new[h].evidence = c.evidence
    BY <2>1, <2>2 DEF Claims
  <2> QED BY <2>3 DEF c
<1> HIDE DEF new
<1>3. \A h \in Files : IF h \in F THEN claim'[h] = new[h] ELSE claim'[h] = claim[h]
  BY <1>1 DEF Record
<1> SUFFICES ASSUME NEW a \in Files, NEW b \in Files,
                    claim'[a].group # NoGroup, claim'[b].group = claim'[a].group
             PROVE  /\ Agree(claim'[a], claim'[b]) /\ (b = a \/ claim'[b].part \/ claim'[a].part)
                    /\ claim'[a].evidence = {}
  BY DEF GroupsInOrder, GroupsAgree, Members, Grouped
<1>4. claim[a].group = claim'[a].group /\ claim[b].group = claim'[b].group BY <1>2, <1>3
<1>5. /\ Agree(claim[a], claim[b]) /\ (b = a \/ claim[b].part \/ claim[a].part)
      /\ a \in F <=> b \in F
      /\ claim[a].evidence = {}
  BY <1>4 DEF GroupsInOrder, GroupsAgree, Members, Grouped
<1> QED BY <1>2, <1>3, <1>5 DEF Agree

\* The groups of an absorbed table stay apart from those of the table.
LEMMA AbsorbingKeeps ==
    ASSUME GroupsInOrder, NEW t \in Siblings, Absorb(t)
    PROVE  GroupsInOrder'
<1> DEFINE theirs == {t.claim[f].group : f \in t.files} \ {NoGroup}
<1>1. PICK id \in [theirs -> FreeGroups] :
         /\ \A g, h \in theirs : g # h => id[g] # id[h]
         /\ claim' = [f \in Files |-> IF f \notin t.files THEN claim[f]
                                  ELSE [t.claim[f] EXCEPT !.group = IF @ = NoGroup THEN @ ELSE id[@]]]
  BY DEF Absorb
<1>2. \A f \in Files \ t.files : claim'[f] = claim[f] BY <1>1
<1>3. ASSUME NEW f \in t.files, f \in Files
      PROVE  /\ t.claim[f].group = NoGroup => claim'[f].group = NoGroup
             /\ t.claim[f].group # NoGroup =>
                  /\ t.claim[f].group \in theirs
                  /\ claim'[f].group = id[t.claim[f].group]
                  /\ claim'[f].part = t.claim[f].part
                  /\ Agree(claim'[f], t.claim[f])
                  /\ claim'[f].evidence = {}
  <2> DEFINE c == t.claim[f]
  <2>1. c \in Claims \cup {Unclaimed} BY <1>3, SiblingAssumption DEF SiblingAssumption
  <2>2. c.group # NoGroup => c.group \in theirs OBVIOUS
  <2>3. claim'[f] = [c EXCEPT !.group = IF c.group = NoGroup THEN c.group ELSE id[c.group]]
    BY <1>1, <1>3
  <2> HIDE DEF c, theirs
  <2>4. CASE c.group = NoGroup
    <3>1. claim'[f] = [c EXCEPT !.group = c.group] BY <2>3, <2>4
    <3>2. claim'[f].group = c.group BY <2>1, <3>1 DEF Claims, Unclaimed, Claim
    <3> QED BY <2>4, <3>2 DEF c
  <2>5. CASE c.group # NoGroup
    <3>1. c \in Claims /\ c.evidence = {}
      BY <2>1, <2>5, <1>3, ClaimFacts, SiblingAssumption DEF SiblingAssumption, c
    <3>2. claim'[f] = [c EXCEPT !.group = id[c.group]] BY <2>3, <2>5
    <3>3. /\ claim'[f].group = id[c.group] /\ claim'[f].part = c.part
          /\ claim'[f].run = c.run /\ claim'[f].manual = c.manual
          /\ claim'[f].approved = c.approved /\ claim'[f].evidence = {}
      BY <3>1, <3>2 DEF Claims
    <3> QED BY <2>2, <2>5, <3>3 DEF c, Agree
  <2> QED BY <2>4, <2>5
<1>4. \A g \in theirs : id[g] \in FreeGroups BY <1>1
<1> HIDE DEF theirs
<1> SUFFICES ASSUME NEW f \in Files, NEW h \in Files,
                    claim'[f].group # NoGroup, claim'[h].group = claim'[f].group
             PROVE  /\ Agree(claim'[f], claim'[h]) /\ (h = f \/ claim'[h].part \/ claim'[f].part)
                    /\ claim'[f].evidence = {}
  BY DEF GroupsInOrder, GroupsAgree, Members, Grouped
<1>5. CASE f \in t.files /\ h \in t.files
  <2>1. t.claim[f].group # NoGroup /\ t.claim[h].group = t.claim[f].group BY <1>1, <1>3, <1>5
  <2>2. Agree(t.claim[f], t.claim[h]) /\ (h = f \/ t.claim[h].part \/ t.claim[f].part)
    BY <1>5, <2>1, SiblingAssumption DEF SiblingAssumption
  <2> QED BY <1>3, <1>5, <2>1, <2>2 DEF Agree
<1>6. CASE f \notin t.files /\ h \notin t.files
  BY <1>2, <1>6 DEF GroupsInOrder, GroupsAgree, Members, Grouped
<1>7. CASE (f \in t.files) # (h \in t.files)
  BY <1>2, <1>3, <1>4, <1>7 DEF FreeGroups
<1> QED BY <1>5, <1>6, <1>7

LEMMA GroupsResolve ==
    ASSUME MappingInv, GroupsInOrder, Resolve
    PROVE  GroupsInOrder'
<1>0. TableInv /\ files \subseteq Files BY DEF MappingInv, TableInv, TableTypeOK
<1>1. ASSUME UNCHANGED tableVars PROVE GroupsInOrder'
  BY <1>1, JoiningNoneKeeps DEF tableVars, JoinsNone
<1>2. ASSUME NEW f \in todo, RescueTitle(f) \/ RehomeNumbered(f) \/ MoveRun(f) \/ RescueFuzzy(f)
                             \/ RescueHint(f)
      PROVE  GroupsInOrder'
  <2>1. UNCHANGED tableVars \/ \E r, evidence : Assign(f, r, evidence)
    BY <1>2 DEF RescueTitle, RehomeNumbered, MoveRun, RescueFuzzy, RescueHint, Visit
  <2> QED BY <1>1, <2>1, AssignJoinsNone, JoiningNoneKeeps
<1>3. ASSUME NEW f \in todo, DropScattered(f) PROVE GroupsInOrder'
  BY <1>3, MarkJoinsNone, JoiningNoneKeeps DEF DropScattered
<1>4. ASSUME NEW f \in todo, DetectParts(f) PROVE GroupsInOrder'
  <2>1. CASE CompleteParts(f)
    <3>1. GroupParts(PartFiles(f), f, claim[f].run, FALSE, NoFiles) BY <1>4, <2>1 DEF DetectParts
    <3>2. f \in files /\ f \in PartFiles(f)
      BY <1>4 DEF DetectParts, MappingInv, LoopInv, FileStages, PartFiles
    <3>3. claim[f].run \in Runs
      BY <1>0, <2>1, <3>2, ClaimFacts DEF CompleteParts, Automatic, Assigned, TableInv, TableTypeOK
    <3>4. FALSE \in BOOLEAN OBVIOUS
    <3> QED BY <3>1, <3>3, <3>4, GroupingKeeps
  <2>2. CASE ~CompleteParts(f)
    BY <1>1, <1>4, <2>2 DEF DetectParts
  <2> QED BY <2>1, <2>2
<1>5. ASSUME NEW e \in todo, TrimSlot(e) PROVE GroupsInOrder'
  <2> DEFINE rivals  == SnapClaimants(e)
             singles == {f \in rivals : snap[f].run = {e} /\ "exact" \in snap[f].evidence}
             trimmed == {f \in rivals : /\ snap[f].run \ {e} \in Runs
                                        /\ lib[f].exact \in snap[f].run \ {e}}
             settles == Cardinality(singles) = 1 /\ \A f \in rivals : ~snap[f].manual
             new == [f \in IF settles THEN trimmed ELSE {} |->
                        Claim(snap[f].run \ {e}, FALSE, snap[f].evidence \cup {"adjusted"})]
  <2>1. Record(new, NoFiles) BY <1>5 DEF TrimSlot
  <2>2. \A f \in DOMAIN new : new[f] = Claim(snap[f].run \ {e}, FALSE, snap[f].evidence \cup {"adjusted"})
    OBVIOUS
  <2> HIDE DEF new
  <2>3. \A f \in DOMAIN new : new[f].group = NoGroup BY <2>2 DEF Claim
  <2> QED BY <2>1, <2>3, RecordJoinsNone, JoiningNoneKeeps
<1>6. ASSUME NEW e \in todo, ShiftSlot(e) PROVE GroupsInOrder'
  <2>1. UNCHANGED tableVars \/ \E f, r, evidence : Assign(f, r, evidence)
    BY <1>6 DEF ShiftSlot
  <2> QED BY <1>1, <2>1, AssignJoinsNone, JoiningNoneKeeps
<1>7. ASSUME NEW e \in todo, ResolveSlot(e) PROVE GroupsInOrder'
  <2>1. \/ UNCHANGED tableVars \/ \E F, why : MarkUnassigned(F, why)
        \/ \E f, copies : KeepCopy(e, f, copies)
    BY <1>7 DEF ResolveSlot
  <2>2. ASSUME NEW f, NEW copies, KeepCopy(e, f, copies) PROVE JoinsNone
    <3> DEFINE dropped == [h \in Claimants(e) \ {f} |-> IF h \in copies THEN "other"
                                                        ELSE "lost conflict"]
    <3>1. Record(NoFiles, dropped) /\ DOMAIN NoFiles = {} BY <2>2 DEF KeepCopy, NoFiles
    <3> HIDE DEF dropped
    <3> QED BY <3>1, RecordJoinsNone
  <2> QED BY <1>1, <2>1, <2>2, MarkJoinsNone, JoiningNoneKeeps
<1>8. ASSUME NEW n \in todo, FollowOffset(n) PROVE GroupsInOrder'
  <2>1. PICK F : Record([f \in F |-> Claim(lib[f].offset, FALSE, {"number", "adjusted"} \cup
                   IF lib[f].hint # {} /\ SeasonsOf(lib[f].hint) = SeasonsOf(lib[f].offset)
                   THEN {"relative"} ELSE {})], NoFiles)
    BY <1>8 DEF FollowOffset
  <2> DEFINE mark(f) == IF lib[f].hint # {} /\ SeasonsOf(lib[f].hint) = SeasonsOf(lib[f].offset)
                        THEN {"relative"} ELSE {}
             new == [f \in F |-> Claim(lib[f].offset, FALSE, {"number", "adjusted"} \cup mark(f))]
  <2>2. Record(new, NoFiles) BY <2>1
  <2>3. \A f \in DOMAIN new : new[f] = Claim(lib[f].offset, FALSE, {"number", "adjusted"} \cup mark(f))
    OBVIOUS
  <2> HIDE DEF new, mark
  <2>4. \A f \in DOMAIN new : new[f].group = NoGroup BY <2>3 DEF Claim
  <2> QED BY <2>2, <2>4, RecordJoinsNone, JoiningNoneKeeps
<1>9. ASSUME NextStage PROVE GroupsInOrder'
  BY <1>1, <1>9 DEF NextStage
<1> QED BY <1>2, <1>3, <1>4, <1>5, <1>6, <1>7, <1>8, <1>9 DEF Resolve

LEMMA GroupsEdit ==
    ASSUME MappingInv, GroupsInOrder, UserEdit
    PROVE  GroupsInOrder'
<1>0. TableInv BY DEF MappingInv
<1>1. ASSUME NEW f \in Files, Unassign(f) PROVE GroupsInOrder'
  BY <1>1, MarkJoinsNone, JoiningNoneKeeps DEF Unassign
<1>2. ASSUME NEW f \in Files, Ungroup(f) PROVE GroupsInOrder'
  BY <1>0, <1>2, UngroupJoinsNone, JoiningNoneKeeps DEF Ungroup
<1>3. ASSUME NEW f \in Files, Approve(f) PROVE GroupsInOrder'
  BY <1>0, <1>3, ApprovingKeeps DEF Approve, Automatic, Assigned
<1>4. ASSUME NEW f \in Files, NEW r \in Runs, ManualAssign(f, r) PROVE GroupsInOrder'
  BY <1>4, DisplaceJoinsNone, JoiningNoneKeeps DEF ManualAssign
<1>5. ASSUME NEW f \in Files, NEW e \in Slots, KeepThis(f, e) PROVE GroupsInOrder'
  BY <1>5, MarkJoinsNone, JoiningNoneKeeps DEF KeepThis
<1>6. ASSUME NEW e \in Slots, MergeParts(e) PROVE GroupsInOrder'
  <2>1. PICK lead : GroupParts(Claimants(e), lead, {e}, TRUE, NoFiles) BY <1>6 DEF MergeParts
  <2>2. {e} \in Runs /\ TRUE \in BOOLEAN BY RunFacts
  <2> QED BY <2>1, <2>2, GroupingKeeps
<1>7. CASE UnassignAll
  BY <1>7, MarkJoinsNone, JoiningNoneKeeps DEF UnassignAll
<1> QED BY <1>1, <1>2, <1>3, <1>4, <1>5, <1>6, <1>7 DEF UserEdit

LEMMA GroupsCarryOver ==
    ASSUME MappingInv, GroupsInOrder, CarryOver
    PROVE  GroupsInOrder'
<1>1. ASSUME UNCHANGED tableVars PROVE GroupsInOrder'
  BY <1>1, JoiningNoneKeeps DEF tableVars, JoinsNone
<1>2. ASSUME NEW f \in todo, CarryOverFile(f) PROVE GroupsInOrder'
  BY <1>1, <1>2, DisplaceJoinsNone, JoiningNoneKeeps DEF CarryOverFile
<1>3. ASSUME NEW f \in todo, CarryOverGroup(f) PROVE GroupsInOrder'
  <2>1. old.claim[f].run \in Runs /\ TRUE \in BOOLEAN BY <1>3, OldFacts DEF CarryOverGroup
  <2>2. UNCHANGED tableVars
        \/ \E lead, dropped : GroupParts(OldMembers(f), lead, old.claim[f].run, TRUE, dropped)
    BY <1>3 DEF CarryOverGroup
  <2> QED BY <1>1, <2>1, <2>2, GroupingKeeps
<1>4. ASSUME NEW f \in todo, CarryOverRaises(f) PROVE GroupsInOrder'
  <2>1. \A h \in Files : claim'[h] = Unclaimed BY <1>4 DEF CarryOverRaises, SetTable, EmptyTable
  <2> QED BY <2>1, NoGroups, JoiningNoneKeeps DEF JoinsNone
<1>5. ASSUME NEW f \in todo, CarryOverSkipped(f) PROVE GroupsInOrder'
  BY <1>1, <1>5 DEF CarryOverSkipped
<1>6. CASE BeginCarryOver \/ EndScan
  BY <1>1, <1>6 DEF BeginCarryOver, EndScan
<1> QED BY <1>2, <1>3, <1>4, <1>5, <1>6 DEF CarryOver

LEMMA GroupsNext ==
    ASSUME MappingInv, GroupsInOrder, [Next]_vars
    PROVE  GroupsInOrder'
<1>1. ASSUME NEW found \in Disk, NEW listing \in Listings, BeginScan(found, listing)
      PROVE  GroupsInOrder'
  <2>1. \A f \in Files : claim'[f] = IF f \in found THEN ScannedClaim(f, listing) ELSE Unclaimed
    BY <1>1 DEF BeginScan, SetTable, ScannedTable
  <2>2. listing \in SUBSET Slots BY MappingAssumption DEF MappingAssumption
  <2>3. \A f \in Files : claim'[f].group = NoGroup BY <2>1, <2>2, NoGroups, ScannedFacts
  <2> QED BY <2>3, JoiningNoneKeeps DEF JoinsNone
<1>2. CASE UNCHANGED vars
  BY <1>2, JoiningNoneKeeps DEF vars, tableVars, JoinsNone
<1> QED BY <1>1, <1>2, GroupsResolve, GroupsEdit, GroupsCarryOver, AbsorbingKeeps DEF Next

\* Through scans, merges and edits the table accounts for its files once, claims
\* listed episodes only, and its part groups stay of one mind.
THEOREM TableStaysAccounted == Spec => []TableAccounted
<1>1. Init => GroupsInOrder
  <2>1. Init => \A f \in Files : claim[f] = Unclaimed BY DEF Init, TableInit, EmptyTable
  <2> QED BY <2>1, NoGroups DEF GroupsInOrder, GroupsAgree, Members, Grouped
<1>2. MappingInv /\ GroupsInOrder /\ [Next]_vars => GroupsInOrder' BY GroupsNext
<1>3. MappingInv /\ GroupsInOrder => TableAccounted
  BY DEF MappingInv, StageTypeOK, TableInv, TypeOK, TableAccounted, GroupsInOrder
<1> HIDE DEF MappingInv, GroupsInOrder, TableAccounted, Next, vars
<1> QED BY <1>1, <1>2, <1>3, MappingInvariant, PTL DEF Spec

\* The members of a group claim the same episodes and are equally strong: what
\* beats one of them beats all.
LEMMA MembersAlike ==
    ASSUME GroupsInOrder, NEW f \in Files, NEW h \in Members(f)
    PROVE  /\ h \in Files /\ claim[h].run = claim[f].run
           /\ Strength(h) = Strength(f)
           /\ \A e : /\ f \in Claimants(e) <=> h \in Claimants(e)
                     /\ f \in Strongest(e) <=> h \in Strongest(e)
<1>1. h \in Files /\ claim[h].group = claim[f].group /\ Grouped(f) /\ Grouped(h)
  BY DEF Members, Grouped
<1>2. claim[h].run = claim[f].run BY DEF GroupsInOrder, GroupsAgree, Agree
<1>3. claim[f].evidence = {} /\ claim[h].evidence = {} BY <1>1 DEF GroupsInOrder
<1>4. Strength(h) = Strength(f) BY <1>3 DEF Strength
<1>5. \A e : f \in Claimants(e) <=> h \in Claimants(e) BY <1>1, <1>2 DEF Claimants
<1> HIDE DEF Strength, Claimants
<1>6. \A e : f \in Strongest(e) <=> h \in Strongest(e) BY <1>4, <1>5 DEF Strongest
<1> QED BY <1>1, <1>2, <1>4, <1>5, <1>6

LEMMA LosesWhole ==
    ASSUME MappingInv, GroupsInOrder, NEW e, ResolveSlot(e), NEW f \in Files, NEW h \in Members(f),
           claim'[f].run = {}, reason'[f] = "lost conflict"
    PROVE  claim'[h].run = {}
<1> DEFINE top == Strongest(e)
<1>0. Unclaimed.run = {} BY DEF Unclaimed, Claim
<1>1. claim[f] \in Claims \cup {Unclaimed} /\ claim[f].group # NoGroup
  BY DEF MappingInv, TableInv, TableTypeOK, Members, Grouped
<1>2. claim[f].run # {} BY <1>1, ClaimFacts, RunFacts DEF Claims
<1>3. h \in Files /\ claim[h].run = claim[f].run /\ (f \in Claimants(e) <=> h \in Claimants(e))
      /\ (f \in top <=> h \in top)
  BY MembersAlike
<1>4. ASSUME NEW F, NEW why, MarkUnassigned(F, why), f \in F <=> h \in F
      PROVE  claim'[h].run = {}
  <2> DEFINE dropped == [k \in F |-> why]
  <2>1. Record(NoFiles, dropped) /\ DOMAIN NoFiles = {} /\ DOMAIN dropped = F
    BY <1>4 DEF MarkUnassigned, NoFiles
  <2> HIDE DEF dropped
  <2>2. f \in F BY <1>2, <2>1 DEF Record
  <2> QED BY <1>0, <1>3, <1>4, <2>1, <2>2 DEF Record
<1>5. ASSUME NEW k \in top, KeepCopy(e, k, top)
      PROVE  claim'[h].run = {}
  <2> DEFINE dropped == [i \in Claimants(e) \ {k} |-> IF i \in top THEN "other" ELSE "lost conflict"]
  <2>1. /\ Record(NoFiles, dropped) /\ DOMAIN NoFiles = {} /\ DOMAIN dropped = Claimants(e) \ {k}
        /\ \A i \in Claimants(e) \ {k} : i \in top => dropped[i] = "other"
    BY <1>5 DEF KeepCopy, NoFiles
  <2> HIDE DEF dropped, top
  <2>2. f \in Claimants(e) \ {k} BY <1>2, <2>1 DEF Record
  <2>3. f \notin top BY <2>1, <2>2 DEF Record
  <2>4. h \in Claimants(e) \ {k} BY <1>3, <1>5, <2>2, <2>3
  <2> QED BY <1>0, <1>3, <2>1, <2>4 DEF Record
<1>6. CASE UNCHANGED tableVars BY <1>2, <1>6 DEF tableVars
<1> HIDE DEF top
<1>7. \/ MarkUnassigned(Claimants(e) \ top, "lost conflict")
      \/ \E k \in top : KeepCopy(e, k, top)
      \/ MarkUnassigned(Claimants(e), "other")
      \/ UNCHANGED tableVars
  BY DEF ResolveSlot, top
<1> QED BY <1>3, <1>4, <1>5, <1>6, <1>7

\* A part group that loses an episode to a stronger claim, or to a copy that is
\* kept, loses it as a whole.
THEOREM GroupsAreBeatenWhole == Spec => GroupsLoseWhole
<1>1. Init => GroupsInOrder
  <2>1. Init => \A f \in Files : claim[f] = Unclaimed BY DEF Init, TableInit, EmptyTable
  <2> QED BY <2>1, NoGroups DEF GroupsInOrder, GroupsAgree, Members, Grouped
<1>2. MappingInv /\ GroupsInOrder /\ [Next]_vars => GroupsInOrder' BY GroupsNext
<1>3. MappingInv /\ GroupsInOrder /\ [Next]_vars =>
         [stage = "resolve" =>
             \A f \in Files : \A h \in Members(f) :
                claim'[f].run = {} /\ reason'[f] = "lost conflict" => claim'[h].run = {}]_vars
  <2> SUFFICES ASSUME MappingInv, GroupsInOrder, Next, stage = "resolve",
                      NEW f \in Files, NEW h \in Members(f),
                      claim'[f].run = {}, reason'[f] = "lost conflict"
               PROVE  claim'[h].run = {}
    OBVIOUS
  <2>1. (\E e : ResolveSlot(e)) \/ NextStage
    BY DEF Next, Resolve, RescueTitle, RehomeNumbered, DropScattered, MoveRun, RescueFuzzy,
                RescueHint, DetectParts, TrimSlot, ShiftSlot, VisitSlot, FollowOffset,
                CarryOver, BeginCarryOver, CarryOverFile, CarryOverGroup, CarryOverRaises,
                CarryOverSkipped, EndScan, Absorb, BeginScan, UserEdit, Unassign, Ungroup,
                Approve, ManualAssign, KeepThis, MergeParts, UnassignAll, Edit
  <2>2. CASE NextStage
    <3>1. claim' = claim BY <2>2 DEF NextStage, tableVars
    <3> QED BY <3>1, MembersAlike
  <2> QED BY <2>1, <2>2, LosesWhole
<1> HIDE DEF MappingInv, GroupsInOrder, Next, vars
<1> QED BY <1>1, <1>2, <1>3, MappingInvariant, PTL DEF Spec, GroupsLoseWhole

(***************************************************************************)
(* What a re-scan carries over                                             *)
(***************************************************************************)
\* The part groups of the replaced table are of one mind, as those of the table
\* were; the carry-over visits the members of a group together, and what it has
\* visited and could restore is as it was: what comes after takes none of it.
OldAgrees == \A f \in Files : \A h \in OldMembers(f) : Agree(old.claim[f], old.claim[h])

GroupsTogether == \A f \in Files : \A h \in OldMembers(f) : f \in todo => h \in todo

Back(f) ==
    /\ claim[f].manual /\ claim[f].run = old.claim[f].run
    /\ \A h \in OldMembers(f) : claim[h].group = claim[f].group

CarryInv ==
    /\ OldAgrees
    /\ stage = "carry" => /\ GroupsTogether
                          /\ \A f \in Files \ todo : Restorable(f) => Back(f)

\* The members of a group of the replaced table share its members, and what can
\* be restored of one can be of all.
LEMMA OldGroups ==
    ASSUME OldAgrees, NEW f \in Files, NEW h \in OldMembers(f)
    PROVE  /\ h \in Files /\ f \in OldMembers(f) /\ OldMembers(h) = OldMembers(f)
           /\ Restorable(f) => Restorable(h)
<1>1. h \in Files /\ f \in OldMembers(f) /\ OldMembers(h) = OldMembers(f) BY DEF OldMembers
<1>2. OldMembers(f) \cup {f} = OldMembers(h) \cup {h} BY <1>1
<1>3. old.claim[h].manual = old.claim[f].manual /\ old.claim[h].run = old.claim[f].run
  BY DEF OldAgrees, Agree
<1> QED BY <1>1, <1>2, <1>3 DEF Restorable

\* Two claims of the user that can both be restored and are not of one group
\* share no episode.
LEMMA OldApart ==
    ASSUME NEW f \in Files, Restorable(f), NEW h \in Files, h # f, h \notin OldMembers(f),
           old.claim[h].manual
    PROVE  old.claim[h].run \cap old.claim[f].run = {}
  BY DEF Restorable

\* A round that leaves what has been restored alone, and restores what it visits.
LEMMA CarriedRound ==
    ASSUME CarryInv, stage = "carry", UNCHANGED <<files, slots, stage, old>>,
           NEW F \in SUBSET Files, todo' = todo \ F,
           \A f \in F : OldMembers(f) \subseteq F,
           \A f \in Files \ todo : Restorable(f) => claim'[f] = claim[f],
           \A f \in F : Restorable(f) => Back(f)'
    PROVE  CarryInv'
<1>1. OldAgrees' BY DEF CarryInv, OldAgrees, OldMembers
<1>2. \A f : OldMembers(f)' = OldMembers(f) BY DEF OldMembers
<1>3. \A f : Restorable(f)' <=> Restorable(f) BY <1>2 DEF Restorable
<1>4. GroupsTogether'
  <2> SUFFICES ASSUME NEW f \in Files, NEW h \in OldMembers(f), f \in todo \ F PROVE h \in todo \ F
    BY <1>2 DEF GroupsTogether
  <2>1. h \in todo BY DEF CarryInv, GroupsTogether
  <2>2. h \in Files /\ f \in OldMembers(h) BY OldGroups DEF CarryInv
  <2> QED BY <2>1, <2>2
<1>5. ASSUME NEW f \in Files \ todo', Restorable(f) PROVE Back(f)'
  <2>1. CASE f \in F BY <1>5, <2>1
  <2>2. CASE f \notin F
    <3>1. f \notin todo BY <1>5, <2>2
    <3>2. Back(f) BY <1>5, <3>1 DEF CarryInv
    <3>3. ASSUME NEW h \in OldMembers(f) \cup {f} PROVE claim'[h] = claim[h]
      <4>1. h \in Files /\ Restorable(h) BY <1>5, OldGroups DEF CarryInv
      <4>2. h \notin todo
        <5>1. CASE h = f BY <3>1, <5>1
        <5>2. CASE h # f
          <6>1. f \in OldMembers(h) BY <5>2, OldGroups DEF CarryInv
          <6> QED BY <3>1, <4>1, <6>1 DEF CarryInv, GroupsTogether
        <5> QED BY <5>1, <5>2
      <4> QED BY <4>1, <4>2
    <3>4. claim'[f] = claim[f] BY <3>3
    <3> QED BY <1>2, <3>2, <3>3, <3>4 DEF Back
  <2> QED BY <2>1, <2>2
<1> QED BY <1>1, <1>3, <1>4, <1>5 DEF CarryInv

LEMMA CarriedFile ==
    ASSUME MappingInv, CarryInv, NEW f, CarryOverFile(f)
    PROVE  CarryInv'
<1> DEFINE run == old.claim[f].run
<1>1. /\ stage = "carry" /\ f \in todo /\ OldMembers(f) = {} /\ todo' = todo \ {f}
      /\ UNCHANGED <<stage, old>>
  BY DEF CarryOverFile
<1>2. f \in Files /\ old.claim[f].manual BY <1>1 DEF MappingInv, OldInv
<1>3. CASE f \in files /\ run \subseteq slots
  <2> DEFINE new == [h \in {f} |-> Claim(run, TRUE, {})]
             dropped == [h \in ClaimantsOf(run) \ {f} |-> "other"]
  <2>1. Record(new, dropped) BY <1>3 DEF CarryOverFile, AssignDisplacing
  <2>2. DOMAIN new = {f} /\ new[f] = Claim(run, TRUE, {}) /\ DOMAIN dropped = ClaimantsOf(run) \ {f}
    OBVIOUS
  <2>3. Claim(run, TRUE, {}).run = run /\ Claim(run, TRUE, {}).manual BY DEF Claim
  <2> HIDE DEF new, dropped, run
  <2>4. UNCHANGED <<files, slots>> BY <2>1 DEF Record
  <2>5. claim'[f].run = run /\ claim'[f].manual BY <1>2, <2>1, <2>2, <2>3 DEF Record
  <2>6. Back(f)' BY <1>1, <2>5 DEF Back, OldMembers, run
  <2>7. ASSUME NEW h \in Files \ todo, Restorable(h) PROVE claim'[h] = claim[h]
    <3>1. claim[h].run = old.claim[h].run BY <1>1, <2>7 DEF CarryInv, Back
    <3>2. f # h /\ f \notin OldMembers(h) BY <1>1, <1>2 DEF OldMembers
    <3>3. run \cap old.claim[h].run = {} BY <1>2, <2>7, <3>2, OldApart DEF run
    <3>4. h \notin ClaimantsOf(run) BY <3>1, <3>3 DEF ClaimantsOf
    <3> QED BY <2>1, <2>2, <3>2, <3>4 DEF Record
  <2> QED BY <1>1, <1>2, <2>4, <2>6, <2>7, CarriedRound
<1>4. CASE ~(f \in files /\ run \subseteq slots)
  <2>1. UNCHANGED <<files, slots, claim>> BY <1>4 DEF CarryOverFile, tableVars
  <2>2. ~Restorable(f) BY <1>4 DEF Restorable
  <2> QED BY <1>1, <1>2, <2>1, <2>2, CarriedRound
<1> QED BY <1>3, <1>4

LEMMA CarriedGroup ==
    ASSUME MappingInv, CarryInv, NEW f, CarryOverGroup(f)
    PROVE  CarryInv'
<1> DEFINE run == old.claim[f].run
           group == OldMembers(f)
<1>1. /\ stage = "carry" /\ f \in todo /\ todo' = todo \ group /\ Cardinality(group) >= 2
      /\ UNCHANGED <<stage, old>>
  BY DEF CarryOverGroup
<1>2. f \in Files /\ old.claim[f].manual BY <1>1 DEF MappingInv, OldInv
<1>3. group \subseteq Files BY DEF OldMembers
<1>4. \A h \in group : OldMembers(h) = group /\ old.claim[h].run = run
  BY <1>2, OldGroups DEF CarryInv, OldAgrees, Agree
<1>5. group # {} => f \in group BY <1>2, OldGroups DEF CarryInv
<1>6. CASE group \subseteq files /\ run \subseteq slots
  <2>1. PICK lead : GroupParts(group, lead, run, TRUE,
                               [h \in ClaimantsOf(run) \ group |-> "other"])
    BY <1>6 DEF CarryOverGroup
  <2> DEFINE g == CHOOSE g \in FreeGroups : TRUE
             new == [h \in group |-> [Claim(run, TRUE, {}) EXCEPT !.group = g, !.part = (h # lead)]]
             dropped == [h \in ClaimantsOf(run) \ group |-> "other"]
  <2>2. Record(new, dropped) BY <2>1 DEF GroupParts
  <2>3. DOMAIN new = group /\ DOMAIN dropped = ClaimantsOf(run) \ group OBVIOUS
  <2>4. \A h \in group : new[h].run = run /\ new[h].manual /\ new[h].group = g
    BY DEF Claim
  <2> HIDE DEF new, dropped, run, group, g
  <2>5. UNCHANGED <<files, slots>> BY <2>2 DEF Record
  <2>6. \A h \in group : claim'[h] = new[h] BY <1>3, <2>2, <2>3 DEF Record
  <2>7. ASSUME NEW h \in group PROVE Back(h)'
    <3>1. claim'[h].run = old'.claim[h].run /\ claim'[h].manual BY <1>1, <1>4, <2>4, <2>6
    <3>2. OldMembers(h)' = group BY <1>1, <1>4 DEF OldMembers
    <3> QED BY <2>4, <2>6, <3>1, <3>2 DEF Back
  <2>8. ASSUME NEW h \in Files \ todo, Restorable(h) PROVE claim'[h] = claim[h]
    <3>1. claim[h].run = old.claim[h].run BY <1>1, <2>8 DEF CarryInv, Back
    <3>2. f # h /\ f \notin OldMembers(h)
      BY <1>1, <1>2, OldGroups DEF CarryInv, GroupsTogether
    <3>3. run \cap old.claim[h].run = {} BY <1>2, <2>8, <3>2, OldApart DEF run
    <3>4. h \notin ClaimantsOf(run) BY <3>1, <3>3 DEF ClaimantsOf
    <3>5. h \notin group
      <4>1. h \in OldMembers(f) => f \in OldMembers(h) BY <1>2, OldGroups DEF CarryInv
      <4> QED BY <3>2, <4>1 DEF group
    <3> QED BY <2>2, <2>3, <3>4, <3>5 DEF Record
  <2> QED BY <1>1, <1>3, <1>4, <2>5, <2>7, <2>8, CarriedRound
<1>7. CASE ~(group \subseteq files /\ run \subseteq slots)
  <2>1. UNCHANGED <<files, slots, claim>> BY <1>7 DEF CarryOverGroup, tableVars
  <2>2. \A h \in group : ~Restorable(h) BY <1>4, <1>7 DEF Restorable
  <2> HIDE DEF group
  <2> QED BY <1>1, <1>3, <1>4, <2>1, <2>2, CarriedRound
<1> QED BY <1>6, <1>7

LEMMA CarriedSkipped ==
    ASSUME MappingInv, CarryInv, NEW f, CarryOverSkipped(f)
    PROVE  CarryInv'
<1> DEFINE group == OldMembers(f)
<1>1. /\ stage = "carry" /\ f \in todo /\ todo' = todo \ group
      /\ ~(group \subseteq files /\ old.claim[f].run \subseteq slots)
      /\ UNCHANGED <<files, slots, claim, stage, old>>
  BY DEF CarryOverSkipped, tableVars
<1>2. f \in Files /\ group \subseteq Files BY <1>1 DEF MappingInv, OldInv, OldMembers
<1>3. \A h \in group : OldMembers(h) = group /\ old.claim[h].run = old.claim[f].run
  BY <1>2, OldGroups DEF CarryInv, OldAgrees, Agree
<1>4. \A h \in group : ~Restorable(h) BY <1>1, <1>3 DEF Restorable
<1> HIDE DEF group
<1> QED BY <1>1, <1>2, <1>3, <1>4, CarriedRound

LEMMA CarriedNext ==
    ASSUME MappingInv, GroupsInOrder, CarryInv, [Next]_vars
    PROVE  CarryInv'
<1>1. ASSUME old' = old, stage' # "carry" PROVE CarryInv'
  BY <1>1 DEF CarryInv, OldAgrees, OldMembers
<1>2. ASSUME old' = EmptyTable, stage' # "carry" PROVE CarryInv'
  <2>1. \A f \in Files : old'.claim[f].group = NoGroup BY <1>2, NoGroups DEF EmptyTable
  <2>2. \A f \in Files : OldMembers(f)' = {} BY <2>1 DEF OldMembers
  <2> QED BY <1>2, <2>2 DEF CarryInv, OldAgrees
<1>3. ASSUME NEW found \in Disk, NEW listing \in Listings, BeginScan(found, listing)
      PROVE  CarryInv'
  <2>1. old'.claim = claim /\ stage' = "rescue" BY <1>3 DEF BeginScan, Table
  <2>2. \A f \in Files : OldMembers(f)' = Members(f) BY <2>1 DEF OldMembers, Members, Grouped
  <2>3. OldAgrees' BY <2>1, <2>2 DEF OldAgrees, GroupsInOrder, GroupsAgree
  <2> QED BY <2>1, <2>3 DEF CarryInv
<1>4. CASE Resolve
  <2>1. old' = old /\ stage # "carry"
    BY <1>4 DEF Resolve, RescueTitle, RehomeNumbered, DropScattered, MoveRun, RescueFuzzy,
                RescueHint, DetectParts, TrimSlot, ShiftSlot, ResolveSlot, VisitSlot, FollowOffset,
                NextStage
  <2>2. stage' # "carry"
    <3>1. CASE NextStage
      <4>1. stage \in Stages /\ stage \notin {"open", "carry", "hint"} /\ stage' = After
        BY <3>1 DEF NextStage, Enter, MappingInv, StageTypeOK
      <4> QED BY <4>1 DEF After, Stages, RescueStages, ResolveStages
    <3>2. CASE ~NextStage
      <4>1. stage' = stage
        BY <1>4, <3>2 DEF Resolve, RescueTitle, RehomeNumbered, DropScattered, MoveRun, RescueFuzzy,
                RescueHint, DetectParts, TrimSlot, ShiftSlot, ResolveSlot, VisitSlot, FollowOffset,
                Visit
      <4> QED BY <2>1, <4>1
    <3> QED BY <3>1, <3>2
  <2> QED BY <1>1, <2>1, <2>2
<1>5. CASE BeginCarryOver
  <2>1. todo' = {f \in Files : old.claim[f].manual} /\ old' = old BY <1>5 DEF BeginCarryOver
  <2>2. OldAgrees' BY <2>1 DEF CarryInv, OldAgrees, OldMembers
  <2>3. GroupsTogether'
    BY <2>1 DEF CarryInv, OldAgrees, GroupsTogether, OldMembers, Agree
  <2>4. \A f \in Files \ todo' : ~Restorable(f)' BY <2>1 DEF Restorable
  <2> QED BY <2>2, <2>3, <2>4 DEF CarryInv
<1>6. ASSUME NEW f \in todo, CarryOverRaises(f) PROVE CarryInv'
  BY <1>2, <1>6 DEF CarryOverRaises
<1>7. CASE EndScan
  BY <1>2, <1>7 DEF EndScan
<1>8. ASSUME NEW t \in Siblings, Absorb(t) PROVE CarryInv'
  BY <1>1, <1>8 DEF Absorb
<1>9. CASE UserEdit
  <2>1. stage = "open" /\ UNCHANGED <<stage, old>>
    BY <1>9 DEF UserEdit, Unassign, Ungroup, Approve, ManualAssign, KeepThis, MergeParts,
                UnassignAll, Edit, stageVars
  <2> QED BY <1>1, <2>1
<1>10. CASE UNCHANGED vars
  <2>1. UNCHANGED <<files, slots, claim, stage, todo, old>> BY <1>10 DEF vars, tableVars, stageVars
  <2> QED BY <2>1 DEF CarryInv, OldAgrees, GroupsTogether, Restorable, Back, OldMembers
<1> QED
  BY <1>3, <1>4, <1>5, <1>6, <1>7, <1>8, <1>9, <1>10, CarriedFile, CarriedGroup, CarriedSkipped
     DEF Next, CarryOver

\* What the user assigned, file by file or as a part group, is there after a
\* re-scan that succeeds, in whatever order the carry-over visits the claims.
THEOREM ManualIsCarriedOver == Spec => ManualSurvivesScan
<1>1. Init => GroupsInOrder /\ CarryInv
  <2>1. Init => \A f \in Files : claim[f] = Unclaimed /\ old.claim[f] = Unclaimed
    BY DEF Init, TableInit, EmptyTable
  <2> QED BY <2>1, NoGroups DEF Init, GroupsInOrder, GroupsAgree, Members, Grouped, CarryInv, OldAgrees, OldMembers
<1>2. MappingInv /\ GroupsInOrder /\ CarryInv /\ [Next]_vars => GroupsInOrder' /\ CarryInv'
  BY GroupsNext, CarriedNext
<1>3. MappingInv /\ CarryInv /\ [Next]_vars =>
         [ScanIsOver /\ ~failed' =>
             \A f \in Files : Restorable(f) =>
                /\ claim'[f].manual /\ claim'[f].run = old.claim[f].run
                /\ \A h \in OldMembers(f) : claim'[h].group = claim'[f].group]_vars
  <2> SUFFICES ASSUME MappingInv, CarryInv, Next, ScanIsOver, ~failed',
                      NEW f \in Files, Restorable(f)
               PROVE  /\ claim'[f].manual /\ claim'[f].run = old.claim[f].run
                      /\ \A h \in OldMembers(f) : claim'[h].group = claim'[f].group
    OBVIOUS
  <2>1. stage = "carry" /\ stage' = "open" BY DEF ScanIsOver
  <2>2. EndScan
    BY <2>1 DEF Next, Resolve, RescueTitle, RehomeNumbered, DropScattered, MoveRun, RescueFuzzy,
                RescueHint, DetectParts, TrimSlot, ShiftSlot, ResolveSlot, VisitSlot, FollowOffset,
                NextStage, CarryOver, BeginCarryOver, CarryOverFile, CarryOverGroup,
                CarryOverRaises, CarryOverSkipped, Absorb, BeginScan, UserEdit, Unassign, Ungroup,
                Approve, ManualAssign, KeepThis, MergeParts, UnassignAll, Edit
  <2>3. todo = {} /\ claim' = claim BY <2>2 DEF EndScan, tableVars
  <2> QED BY <2>1, <2>3 DEF CarryInv, Back
<1> HIDE DEF MappingInv, GroupsInOrder, CarryInv, Next, vars, ScanIsOver, Restorable
<1> QED BY <1>1, <1>2, <1>3, MappingInvariant, PTL DEF Spec, ManualSurvivesScan
(***************************************************************************)
(* What titles say                                                         *)
(***************************************************************************)
\* No claim rests on a title and is contradicted by it at once, in the table and
\* in the copy a loop made of it; and the loops of the rescues have only files
\* before them whose claims, if any, no title speaks for.
ClaimsConsistent == \A f \in Files : Consistent(claim[f])

TitlesInv ==
    /\ ClaimsConsistent
    /\ \A f \in Files : Consistent(snap[f])
    /\ stage \in AutoStages => \A f \in todo : claim[f].evidence \cap TitleTags = {}

\* Claims that rest on a title are left alone.
TitledStay ==
    \A f \in Files : claim[f].evidence \cap TitleTags # {} => claim'[f] = claim[f]

TitlesStep == TitlesInv' /\ (stage \in RescueStages => TitledStay)

LEMMA Untitled ==
    /\ Unclaimed.evidence = {} /\ Consistent(Unclaimed)
    /\ \A r, manual, evidence :
          evidence \cap ContraTags = {} \/ evidence \cap TitleTags = {}
          => Consistent(Claim(r, manual, evidence))
  BY DEF Unclaimed, Claim, Consistent

\* What resolve_file says of a match it does not say against one.
LEMMA ScannedConsistent ==
    ASSUME NEW f, NEW listing
    PROVE  Consistent(ScannedClaim(f, listing))
<1> DEFINE home == InSeason(listing, lib[f].season)
           N == lib[f].numbers \cap home
           strong == Matched(f, home)
<1> HIDE DEF home, N, strong
<1>1. NumberEvidence(f, N, home) \cap TitleTags = {} BY DEF NumberEvidence, TitleTags
<1>2. /\ {"number", "inexact"} \cap ContraTags = {} /\ {"number", "exact"} \cap ContraTags = {}
      /\ {"number", "weak"} \cap ContraTags = {} /\ {"inexact"} \cap ContraTags = {}
      /\ {"exact"} \cap ContraTags = {} /\ {"segmented", "exact"} \cap ContraTags = {}
      /\ {"segmented", "fuzzy"} \cap ContraTags = {}
  BY DEF ContraTags
<1>3. Consistent(NumberAndTitle(f, N, strong, home)) BY <1>2, Untitled DEF NumberAndTitle
<1>4. Found(f, listing) =
         IF CombinedTitle(f, home)
         THEN Claim(lib[f].segments, FALSE, {"segmented", IF lib[f].fuzzy THEN "fuzzy" ELSE "exact"})
         ELSE IF N = {}
         THEN Claim(strong, FALSE, {IF lib[f].fuzzy /\ lib[f].exact \notin home THEN "inexact"
                                    ELSE "exact"})
         ELSE IF strong \cup WeaklyMatched(f, home) = {}
         THEN Claim(N, FALSE, NumberEvidence(f, N, home))
         ELSE NumberAndTitle(f, N, strong, home)
  BY DEF Found, home, N, strong
<1>5. Consistent(Found(f, listing)) BY <1>1, <1>2, <1>3, <1>4, Untitled
<1> QED BY <1>5, Untitled DEF ScannedClaim

LEMMA RecordConsistent ==
    ASSUME ClaimsConsistent, NEW new, NEW dropped, Record(new, dropped),
           \A f \in DOMAIN new : Consistent(new[f])
    PROVE  ClaimsConsistent'
  BY Untitled DEF ClaimsConsistent, Record, Consistent

LEMMA MarkConsistent ==
    ASSUME ClaimsConsistent, NEW F, NEW why, MarkUnassigned(F, why)
    PROVE  ClaimsConsistent'
<1>1. DOMAIN NoFiles = {} BY DEF NoFiles
<1> QED BY <1>1, RecordConsistent DEF MarkUnassigned

LEMMA AssignConsistent ==
    ASSUME ClaimsConsistent, NEW f, NEW r, NEW evidence, Assign(f, r, evidence),
           evidence \cap ContraTags = {} \/ evidence \cap TitleTags = {}
    PROVE  ClaimsConsistent'
<1> DEFINE new == [h \in {f} |-> Claim(r, FALSE, evidence)]
<1>1. Record(new, NoFiles) BY DEF Assign
<1>2. \A h \in DOMAIN new : Consistent(new[h]) BY Untitled
<1> HIDE DEF new
<1> QED BY <1>1, <1>2, RecordConsistent

LEMMA DisplaceConsistent ==
    ASSUME ClaimsConsistent, NEW f, NEW r, AssignDisplacing(f, r)
    PROVE  ClaimsConsistent'
<1> DEFINE new == [h \in {f} |-> Claim(r, TRUE, {})]
           dropped == [h \in ClaimantsOf(r) \ {f} |-> "other"]
<1>1. Record(new, dropped) BY DEF AssignDisplacing
<1>2. \A h \in DOMAIN new : Consistent(new[h]) BY Untitled
<1> HIDE DEF new, dropped
<1> QED BY <1>1, <1>2, RecordConsistent

LEMMA GroupingConsistent ==
    ASSUME ClaimsConsistent, NEW F, NEW lead, NEW r, NEW manual, NEW dropped,
           GroupParts(F, lead, r, manual, dropped)
    PROVE  ClaimsConsistent'
<1> DEFINE g == CHOOSE g \in FreeGroups : TRUE
           new == [f \in F |-> [Claim(r, manual, {}) EXCEPT !.group = g, !.part = (f # lead)]]
<1>1. Record(new, dropped) BY DEF GroupParts
<1>2. ASSUME NEW f \in F PROVE Consistent(new[f])
  <2>1. new[f].evidence = {} BY DEF Claim
  <2> QED BY <2>1 DEF Consistent
<1>3. DOMAIN new = F OBVIOUS
<1> HIDE DEF new
<1> QED BY <1>1, <1>2, <1>3, RecordConsistent

LEMMA UngroupConsistent ==
    ASSUME TableInv, ClaimsConsistent, NEW f \in Files, UngroupParts(f)
    PROVE  ClaimsConsistent'
<1> DEFINE new == [h \in Members(f) |-> [claim[h] EXCEPT !.group = NoGroup, !.part = FALSE]]
<1>1. Record(new, NoFiles) BY DEF UngroupParts
<1>2. ASSUME NEW h \in Members(f) PROVE Consistent(new[h])
  <2> DEFINE c == claim[h]
             d == new[h]
  <2>1. h \in Files /\ c \in Claims /\ Consistent(c)
    BY ClaimFacts DEF Members, Grouped, TableInv, TableTypeOK, ClaimsConsistent
  <2>2. d = [c EXCEPT !.group = NoGroup, !.part = FALSE] OBVIOUS
  <2> HIDE DEF c, d
  <2>3. d.evidence = c.evidence BY <2>1, <2>2 DEF Claims
  <2>4. Consistent(d) BY <2>1, <2>3 DEF Consistent
  <2> QED BY <2>4 DEF d
<1>3. DOMAIN new = Members(f) OBVIOUS
<1> HIDE DEF new
<1> QED BY <1>1, <1>2, <1>3, RecordConsistent

LEMMA ApproveConsistent ==
    ASSUME TableInv, ClaimsConsistent, NEW f \in Files, claim[f].run # {}, SetApproved(f)
    PROVE  ClaimsConsistent'
<1> DEFINE new == [h \in Members(f) \cup {f} |-> [claim[h] EXCEPT !.approved = TRUE]]
<1>1. Record(new, NoFiles) BY DEF SetApproved
<1>2. ASSUME NEW h \in Members(f) \cup {f} PROVE Consistent(new[h])
  <2> DEFINE c == claim[h]
             d == new[h]
  <2>1. h \in Files /\ c \in Claims /\ Consistent(c)
    BY ClaimFacts DEF Members, Grouped, TableInv, TableTypeOK, ClaimsConsistent
  <2>2. d = [c EXCEPT !.approved = TRUE] OBVIOUS
  <2> HIDE DEF c, d
  <2>3. d.evidence = c.evidence BY <2>1, <2>2, Approved
  <2>4. Consistent(d) BY <2>1, <2>3 DEF Consistent
  <2> QED BY <2>4 DEF d
<1>3. DOMAIN new = Members(f) \cup {f} OBVIOUS
<1> HIDE DEF new
<1> QED BY <1>1, <1>2, <1>3, RecordConsistent
\* A round of a loop.
LEMMA TitlesRound ==
    ASSUME TitlesInv, ClaimsConsistent', UNCHANGED <<stage, snap>>, todo' \subseteq todo,
           stage \in AutoStages => \A f \in todo' : claim'[f] = claim[f],
           stage \in RescueStages => TitledStay
    PROVE  TitlesStep
  BY DEF TitlesInv, TitlesStep

\* A round of a rescue.
LEMMA VisitTitles ==
    ASSUME MappingInv, TitlesInv, stage \in AutoStages, NEW f, NEW r, NEW evidence,
           evidence \cap ContraTags = {}, Visit(f, r, evidence)
    PROVE  TitlesStep
<1>1. f \in todo /\ todo' = todo \ {f} /\ UNCHANGED <<stage, snap>> BY DEF Visit
<1>2. todo \subseteq Files
  BY DEF MappingInv, TableInv, TableTypeOK, LoopInv, AutoStages, FileStages
<1>3. ClaimsConsistent /\ claim[f].evidence \cap TitleTags = {} BY <1>1 DEF TitlesInv
<1>4. CASE r = {}
  <2>1. claim' = claim BY <1>4 DEF Visit, tableVars
  <2>2. ClaimsConsistent' /\ TitledStay BY <1>3, <2>1 DEF ClaimsConsistent, TitledStay
  <2> QED BY <1>1, <2>1, <2>2, TitlesRound
<1>5. CASE r # {}
  <2>1. Assign(f, r, evidence) BY <1>5 DEF Visit
  <2>2. ClaimsConsistent' BY <1>3, <2>1, AssignConsistent
  <2>3. \A h \in Files : h # f => claim'[h] = claim[h] BY <2>1, AssignFacts
  <2>4. TitledStay BY <1>3, <2>3 DEF TitledStay
  <2> QED BY <1>1, <1>2, <2>2, <2>3, <2>4, TitlesRound
<1> QED BY <1>4, <1>5

LEMMA ListedTitles ==
    ASSUME MappingInv, TitlesInv, NEW st \in AutoStages, NEW f \in Listed(st)
    PROVE  claim[f].evidence \cap TitleTags = {}
<1>1. f \in Files /\ TableInv /\ lib \in Library
  <2>1. TableInv /\ lib \in Library /\ files \subseteq Files
    BY DEF MappingInv, TableInv, TableTypeOK, StageTypeOK
  <2>2. st \in FileStages BY DEF AutoStages, FileStages
  <2> QED BY <2>1, <2>2, ListedFacts
<1>2. reason[f] # NoReason => claim[f].evidence = {} BY <1>1, ReasonFacts, Untitled
<1>3. claim[f].evidence \cap ContraTags # {} => claim[f].evidence \cap TitleTags = {}
  BY <1>1 DEF TitlesInv, ClaimsConsistent, Consistent
<1>4. LostHere(f) \/ Unplaced(f) \/ Lost(f) \/ reason[f] = "not in season" => reason[f] # NoReason
  BY DEF LostHere, Unplaced, Lost, NoReason
<1>5. f \in Mismatched => claim[f].evidence \cap ContraTags # {}
  BY DEF Mismatched, ContraTags
<1>6. NumberOnly(f) => claim[f].evidence \cap TitleTags = {} BY DEF NumberOnly, TitleTags
<1>7. CASE st = "rescue" BY <1>2, <1>4, <1>7 DEF Listed
<1>8. CASE st = "rehome" BY <1>6, <1>8 DEF Listed
<1>9. CASE st = "across" BY <1>3, <1>5, <1>9 DEF Listed
<1>10. CASE st = "segments" BY <1>2, <1>3, <1>4, <1>5, <1>10 DEF Listed, RunMoves
<1>11. CASE st = "within"
  <2>1. Unplaced(f) \/ claim[f].evidence \cap {"ambiguous", "nomatch"} # {} BY <1>11 DEF Listed
  <2> QED BY <1>2, <1>3, <1>4, <2>1 DEF ContraTags
<1>12. CASE st = "fuzzy" BY <1>2, <1>4, <1>12 DEF Listed
<1>13. CASE st = "hint" BY <1>2, <1>4, <1>13 DEF Listed
<1> QED BY <1>7, <1>8, <1>9, <1>10, <1>11, <1>12, <1>13 DEF AutoStages

\* A stage is entered.
LEMMA TitlesEnter ==
    ASSUME MappingInv, TitlesInv, NextStage
    PROVE  TitlesStep
<1>1. PICK st : Enter(st) /\ UNCHANGED tableVars BY DEF NextStage
<1>2. claim' = claim BY <1>1 DEF tableVars
<1>3. ClaimsConsistent' /\ TitledStay BY <1>2 DEF TitlesInv, ClaimsConsistent, TitledStay
<1>4. \A f \in Files : Consistent(snap'[f])
  BY <1>1, Untitled DEF Enter, EmptyTable, TitlesInv, ClaimsConsistent
<1>5. stage' = st /\ todo' = Listed(st) BY <1>1 DEF Enter
<1>6. stage' \in AutoStages => \A f \in todo' : claim'[f].evidence \cap TitleTags = {}
  BY <1>2, <1>5, ListedTitles
<1> QED BY <1>3, <1>4, <1>6 DEF TitlesInv, TitlesStep

\* The files of a season that would follow its anchors.
LEMMA MoverTitles ==
    ASSUME MappingInv, NEW n, NEW f \in Movers(n)
    PROVE  claim[f].evidence \cap TitleTags = {}
<1>1. f \in Files /\ (claim[f].evidence \subseteq {"number", "relative"} \/ LostHere(f)) BY DEF Movers
<1>2. LostHere(f) => claim[f].evidence = {}
  BY <1>1, ReasonFacts, Untitled DEF LostHere, NoReason, MappingInv
<1> QED BY <1>1, <1>2 DEF TitleTags

LEMMA TitlesFile ==
    ASSUME MappingInv, TitlesInv, NEW f,
           \/ RescueTitle(f) \/ RehomeNumbered(f) \/ DropScattered(f) \/ MoveRun(f)
           \/ RescueFuzzy(f) \/ RescueHint(f) \/ DetectParts(f)
    PROVE  TitlesStep
<1> USE DEF AutoStages, ContraTags
<1>1. CASE RescueTitle(f)
  <2>1. PICK r : Visit(f, r, {"exact"}) BY <1>1 DEF RescueTitle
  <2> QED BY <1>1, <2>1, VisitTitles DEF RescueTitle
<1>2. CASE RehomeNumbered(f)
  <2>1. PICK r : Visit(f, r, {"exact"}) BY <1>2 DEF RehomeNumbered
  <2> QED BY <1>2, <2>1, VisitTitles DEF RehomeNumbered
<1>3. CASE DropScattered(f)
  <2> DEFINE dropped == [h \in {f} |-> "other"]
  <2>1. /\ stage \in {"across", "within"} /\ f \in todo /\ todo' = todo \ {f}
        /\ MarkUnassigned({f}, "other") /\ UNCHANGED <<stage, snap>>
    BY <1>3 DEF DropScattered
  <2>2. ClaimsConsistent' BY <2>1, MarkConsistent DEF TitlesInv
  <2>3. \A h \in Files : h # f => claim'[h] = claim[h]
    BY <2>1 DEF MarkUnassigned, Record, NoFiles
  <2>4. todo \subseteq Files
    BY <2>1 DEF MappingInv, TableInv, TableTypeOK, LoopInv, FileStages
  <2>5. TitledStay BY <2>1, <2>3 DEF TitledStay, TitlesInv
  <2> QED BY <2>1, <2>2, <2>3, <2>4, <2>5, TitlesRound
<1>4. CASE MoveRun(f) BY <1>4, VisitTitles DEF MoveRun
<1>5. CASE RescueFuzzy(f)
  <2>1. PICK r : Visit(f, r, {"fuzzy"}) BY <1>5 DEF RescueFuzzy
  <2> QED BY <1>5, <2>1, VisitTitles DEF RescueFuzzy
<1>6. CASE RescueHint(f)
  <2>1. PICK r : Visit(f, r, {"number", "relative"}) BY <1>6 DEF RescueHint
  <2> QED BY <1>6, <2>1, VisitTitles DEF RescueHint
<1>7. CASE DetectParts(f)
  <2>1. stage = "parts" /\ todo' = todo \ {f} /\ UNCHANGED <<stage, snap>> BY <1>7 DEF DetectParts
  <2>2. ClaimsConsistent'
    <3>1. CASE CompleteParts(f) BY <1>7, <3>1, GroupingConsistent DEF DetectParts, TitlesInv
    <3>2. CASE ~CompleteParts(f)
      BY <1>7, <3>2 DEF DetectParts, tableVars, TitlesInv, ClaimsConsistent
    <3> QED BY <3>1, <3>2
  <2> QED BY <2>1, <2>2, TitlesRound DEF RescueStages
<1> QED BY <1>1, <1>2, <1>3, <1>4, <1>5, <1>6, <1>7

LEMMA TitlesOffset ==
    ASSUME MappingInv, TitlesInv, NEW n, FollowOffset(n)
    PROVE  TitlesStep
<1>1. stage = "offset" /\ todo' = todo \ {n} /\ UNCHANGED <<stage, snap>> BY DEF FollowOffset
<1>2. PICK F \in SUBSET Movers(n) :
         Record([f \in F |-> Claim(lib[f].offset, FALSE,
                   {"number", "adjusted"} \cup
                   IF lib[f].hint # {} /\ SeasonsOf(lib[f].hint) = SeasonsOf(lib[f].offset)
                   THEN {"relative"} ELSE {})], NoFiles)
  BY DEF FollowOffset
<1> DEFINE new == [f \in F |-> Claim(lib[f].offset, FALSE,
                   {"number", "adjusted"} \cup
                   IF lib[f].hint # {} /\ SeasonsOf(lib[f].hint) = SeasonsOf(lib[f].offset)
                   THEN {"relative"} ELSE {})]
<1>3. \A f \in DOMAIN new : Consistent(new[f])
  <2>1. ({"number", "adjusted"} \cup {"relative"}) \cap ContraTags = {} BY DEF ContraTags
  <2>2. ({"number", "adjusted"} \cup {}) \cap ContraTags = {} BY DEF ContraTags
  <2> QED BY <2>1, <2>2, Untitled
<1>4. DOMAIN new = F /\ DOMAIN NoFiles = {} BY DEF NoFiles
<1>5. Record(new, NoFiles) BY <1>2
<1> HIDE DEF new
<1>6. ClaimsConsistent' BY <1>3, <1>5, RecordConsistent DEF TitlesInv
<1>7. TitledStay BY <1>4, <1>5, MoverTitles DEF Record, TitledStay
<1> QED BY <1>1, <1>6, <1>7, TitlesRound DEF AutoStages
\* The stages that settle conflicts keep the evidence of the claims they copied.
LEMMA Adjusting ==
    ASSUME TitlesInv, NEW f \in Files, NEW r
    PROVE  Consistent(Claim(r, FALSE, snap[f].evidence \cup {"adjusted"}))
<1>1. Consistent(snap[f]) BY DEF TitlesInv
<1>2. /\ ({"adjusted"} \cap ContraTags) = {} /\ ({"adjusted"} \cap TitleTags) = {}
  BY DEF ContraTags, TitleTags
<1> QED BY <1>1, <1>2, Untitled DEF Consistent

LEMMA TitlesConflict ==
    ASSUME MappingInv, TitlesInv, NEW e, TrimSlot(e) \/ ShiftSlot(e) \/ ResolveSlot(e)
    PROVE  TitlesStep
<1>1. /\ stage \in {"trim", "shift", "resolve"} /\ todo' = todo \ {e} /\ UNCHANGED <<stage, snap>>
  BY DEF TrimSlot, ShiftSlot, ResolveSlot, VisitSlot
<1>2. ClaimsConsistent BY DEF TitlesInv
<1>3. UNCHANGED tableVars => ClaimsConsistent' BY <1>2 DEF ClaimsConsistent, tableVars
<1>4. CASE TrimSlot(e)
  <2>1. PICK F : /\ F \subseteq Files
                 /\ Record([f \in F |-> Claim(snap[f].run \ {e}, FALSE, snap[f].evidence \cup {"adjusted"})],
                           NoFiles)
    <3> DEFINE rivals  == SnapClaimants(e)
               singles == {f \in rivals : snap[f].run = {e} /\ "exact" \in snap[f].evidence}
               trimmed == {f \in rivals : /\ snap[f].run \ {e} \in Runs
                                          /\ lib[f].exact \in snap[f].run \ {e}}
               settles == Cardinality(singles) = 1 /\ \A f \in rivals : ~snap[f].manual
    <3> WITNESS IF settles THEN trimmed ELSE {}
    <3> QED BY <1>4 DEF TrimSlot, SnapClaimants
  <2> DEFINE new == [f \in F |-> Claim(snap[f].run \ {e}, FALSE, snap[f].evidence \cup {"adjusted"})]
  <2>2. Record(new, NoFiles) BY <2>1
  <2>3. \A f \in DOMAIN new : Consistent(new[f]) BY <2>1, Adjusting
  <2> HIDE DEF new
  <2>4. ClaimsConsistent' BY <1>2, <2>2, <2>3, RecordConsistent
  <2> QED BY <1>1, <2>4, TitlesRound DEF AutoStages, RescueStages
<1>5. CASE ShiftSlot(e)
  <2>1. ASSUME NEW f \in Movable(e), NEW p \in Runs, Assign(f, p, snap[f].evidence \cup {"adjusted"})
        PROVE  ClaimsConsistent'
    <3> DEFINE new == [h \in {f} |-> Claim(p, FALSE, snap[f].evidence \cup {"adjusted"})]
    <3>1. f \in Files BY DEF Movable, SnapClaimants
    <3>2. Record(new, NoFiles) BY <2>1 DEF Assign
    <3>3. \A h \in DOMAIN new : Consistent(new[h]) BY <3>1, Adjusting
    <3> HIDE DEF new
    <3> QED BY <1>2, <3>2, <3>3, RecordConsistent
  <2>2. ClaimsConsistent' BY <1>3, <1>5, <2>1 DEF ShiftSlot
  <2> QED BY <1>1, <2>2, TitlesRound DEF AutoStages, RescueStages
<1>6. CASE ResolveSlot(e)
  <2>1. ASSUME NEW f, KeepCopy(e, f, Strongest(e)) PROVE ClaimsConsistent'
    <3>1. DOMAIN NoFiles = {} BY DEF NoFiles
    <3> QED BY <1>2, <2>1, <3>1, RecordConsistent DEF KeepCopy
  <2>2. ClaimsConsistent' BY <1>2, <1>3, <1>6, <2>1, MarkConsistent DEF ResolveSlot
  <2> QED BY <1>1, <2>2, TitlesRound DEF AutoStages, RescueStages
<1> QED BY <1>4, <1>5, <1>6

\* Outside the stages of a scan only the table and the copies count.
LEMMA TitlesElse ==
    ASSUME TitlesInv, ClaimsConsistent', stage \notin RescueStages, stage' \notin AutoStages,
           \A f \in Files : Consistent(snap'[f])
    PROVE  TitlesStep
  BY DEF TitlesInv, TitlesStep

LEMMA TitlesCarryOver ==
    ASSUME TitlesInv, CarryOver
    PROVE  TitlesStep
<1> USE DEF AutoStages, RescueStages
<1>1. ClaimsConsistent /\ snap' = snap
  BY DEF TitlesInv, CarryOver, BeginCarryOver, CarryOverFile, CarryOverGroup, CarryOverRaises,
         CarryOverSkipped, EndScan
<1>2. UNCHANGED tableVars => ClaimsConsistent' BY <1>1 DEF ClaimsConsistent, tableVars
<1>3. CASE BeginCarryOver
  <2>1. stage' = "carry" /\ UNCHANGED tableVars BY <1>3 DEF BeginCarryOver
  <2>2. TitledStay BY <2>1 DEF TitledStay, tableVars
  <2> QED BY <1>1, <1>2, <2>1, <2>2 DEF TitlesInv, TitlesStep
<1>4. ASSUME NEW f, CarryOverFile(f) PROVE TitlesStep
  <2>1. stage = "carry" /\ stage' = "carry" BY <1>4 DEF CarryOverFile
  <2>2. ClaimsConsistent' BY <1>1, <1>2, <1>4, DisplaceConsistent DEF CarryOverFile
  <2> QED BY <1>1, <2>1, <2>2, TitlesElse DEF TitlesInv
<1>5. ASSUME NEW f, CarryOverGroup(f) PROVE TitlesStep
  <2>1. stage = "carry" /\ stage' = "carry" BY <1>5 DEF CarryOverGroup
  <2>2. ClaimsConsistent' BY <1>1, <1>2, <1>5, GroupingConsistent DEF CarryOverGroup
  <2> QED BY <1>1, <2>1, <2>2, TitlesElse DEF TitlesInv
<1>6. ASSUME NEW f, CarryOverRaises(f) PROVE TitlesStep
  <2>1. stage = "carry" /\ stage' = "open" /\ claim' = EmptyTable.claim
    BY <1>6 DEF CarryOverRaises, SetTable
  <2>2. ClaimsConsistent' BY <2>1, Untitled DEF ClaimsConsistent, EmptyTable
  <2> QED BY <1>1, <2>1, <2>2, TitlesElse DEF TitlesInv
<1>7. ASSUME NEW f, CarryOverSkipped(f) PROVE TitlesStep
  <2>1. stage = "carry" /\ stage' = "carry" /\ UNCHANGED tableVars BY <1>7 DEF CarryOverSkipped
  <2> QED BY <1>1, <1>2, <2>1, TitlesElse DEF TitlesInv
<1>8. CASE EndScan
  <2>1. stage = "carry" /\ stage' = "open" /\ UNCHANGED tableVars BY <1>8 DEF EndScan
  <2> QED BY <1>1, <1>2, <2>1, TitlesElse DEF TitlesInv
<1> QED BY <1>3, <1>4, <1>5, <1>6, <1>7, <1>8 DEF CarryOver

LEMMA TitlesAbsorb ==
    ASSUME TitlesInv, NEW t \in Siblings, Absorb(t)
    PROVE  TitlesStep
<1>1. /\ t.claim \in [Files -> Claims \cup {Unclaimed}]
      /\ \A f \in Files : Consistent(t.claim[f])
  BY SiblingAssumption DEF SiblingAssumption
<1>2. PICK id :
         claim' = [f \in Files |-> IF f \notin t.files THEN claim[f]
                                   ELSE [t.claim[f] EXCEPT !.group = IF @ = NoGroup THEN @ ELSE id[@]]]
  BY DEF Absorb
<1>3. ASSUME NEW f \in Files PROVE Consistent(claim'[f])
  <2>1. CASE f \notin t.files BY <1>2, <2>1 DEF TitlesInv, ClaimsConsistent
  <2>2. CASE f \in t.files
    <3> DEFINE c == t.claim[f]
               g == IF c.group = NoGroup THEN c.group ELSE id[c.group]
    <3>1. claim'[f] = [c EXCEPT !.group = g] BY <1>2, <2>2
    <3>2. Consistent(c) /\ c \in Claims \cup {Unclaimed} BY <1>1
    <3> HIDE DEF c, g
    <3>3. claim'[f].evidence = c.evidence
      BY <3>1, <3>2 DEF Claims, Unclaimed, Claim
    <3> QED BY <3>2, <3>3 DEF Consistent
  <2> QED BY <2>1, <2>2
<1>4. /\ stage = "open" /\ stage' = "parts" /\ snap' = EmptyTable.claim BY DEF Absorb
<1>5. \A f \in Files : Consistent(snap'[f]) BY <1>4, Untitled DEF EmptyTable
<1> QED BY <1>3, <1>4, <1>5, TitlesElse DEF ClaimsConsistent, AutoStages, RescueStages

LEMMA TitlesEdit ==
    ASSUME MappingInv, TitlesInv, UserEdit
    PROVE  TitlesStep
<1>1. stage = "open" /\ UNCHANGED <<stage, snap>>
  BY DEF UserEdit, Unassign, Ungroup, Approve, ManualAssign, KeepThis, MergeParts, UnassignAll,
         Edit, stageVars
<1>2. ClaimsConsistent /\ TableInv BY DEF TitlesInv, MappingInv
<1>3. ClaimsConsistent'
  <2>1. ASSUME NEW f \in Files, Unassign(f) PROVE ClaimsConsistent'
    BY <1>2, <2>1, MarkConsistent DEF Unassign
  <2>2. ASSUME NEW f \in Files, Ungroup(f) PROVE ClaimsConsistent'
    BY <1>2, <2>2, UngroupConsistent DEF Ungroup
  <2>3. ASSUME NEW f \in Files, Approve(f) PROVE ClaimsConsistent'
    BY <1>2, <2>3, ApproveConsistent DEF Approve, Automatic, Assigned
  <2>4. ASSUME NEW f \in Files, NEW r \in Runs, ManualAssign(f, r) PROVE ClaimsConsistent'
    BY <1>2, <2>4, DisplaceConsistent DEF ManualAssign
  <2>5. ASSUME NEW f \in Files, NEW e \in Slots, KeepThis(f, e) PROVE ClaimsConsistent'
    BY <1>2, <2>5, MarkConsistent DEF KeepThis
  <2>6. ASSUME NEW e \in Slots, MergeParts(e) PROVE ClaimsConsistent'
    BY <1>2, <2>6, GroupingConsistent DEF MergeParts
  <2>7. CASE UnassignAll BY <1>2, <2>7, MarkConsistent DEF UnassignAll
  <2> QED BY <2>1, <2>2, <2>3, <2>4, <2>5, <2>6, <2>7 DEF UserEdit
<1> QED BY <1>1, <1>3, TitlesElse DEF TitlesInv, AutoStages, RescueStages

LEMMA TitlesScan ==
    ASSUME TitlesInv, NEW found \in Disk, NEW listing \in Listings, BeginScan(found, listing)
    PROVE  TitlesStep
<1>1. /\ claim' = [f \in Files |-> IF f \in found THEN ScannedClaim(f, listing) ELSE Unclaimed]
      /\ stage = "open" /\ stage' = "rescue" /\ snap' = EmptyTable.claim
      /\ todo' = {f \in found : ScannedReason(f, listing) = "not in season"}
  <2>1. found \subseteq Files BY MappingAssumption DEF MappingAssumption
  <2> QED BY <2>1 DEF BeginScan, SetTable, ScannedTable
<1>2. ClaimsConsistent' BY <1>1, ScannedConsistent, Untitled DEF ClaimsConsistent
<1>3. \A f \in Files : Consistent(snap'[f]) BY <1>1, Untitled DEF EmptyTable
<1>4. ASSUME NEW f \in todo' PROVE claim'[f].evidence \cap TitleTags = {}
  <2>1. f \in Files /\ f \in found /\ ScannedReason(f, listing) = "not in season"
    BY <1>1, MappingAssumption DEF MappingAssumption
  <2>2. ScannedClaim(f, listing) = Unclaimed
    BY <2>1 DEF ScannedReason, ScannedClaim, NoReason
  <2> QED BY <1>1, <2>1, <2>2, Untitled
<1> QED BY <1>1, <1>2, <1>3, <1>4 DEF TitlesInv, TitlesStep, RescueStages

LEMMA TitlesNext ==
    ASSUME MappingInv, TitlesInv, [Next]_vars
    PROVE  TitlesStep
<1>1. ASSUME NEW found \in Disk, NEW listing \in Listings, BeginScan(found, listing)
      PROVE  TitlesStep
  BY <1>1, TitlesScan
<1>2. CASE Resolve BY <1>2, TitlesFile, TitlesConflict, TitlesOffset, TitlesEnter DEF Resolve
<1>3. CASE CarryOver BY <1>3, TitlesCarryOver
<1>4. ASSUME NEW t \in Siblings, Absorb(t) PROVE TitlesStep BY <1>4, TitlesAbsorb
<1>5. CASE UserEdit BY <1>5, TitlesEdit
<1>6. CASE UNCHANGED vars
  <2>1. UNCHANGED <<claim, stage, todo, snap>> BY <1>6 DEF vars, tableVars, stageVars
  <2> QED BY <2>1 DEF TitlesInv, TitlesStep, ClaimsConsistent, TitledStay
<1> QED BY <1>1, <1>2, <1>3, <1>4, <1>5, <1>6 DEF Next
(***************************************************************************)
(* The one file with an episode's own title                                *)
(***************************************************************************)
\* The loops over conflicts go by the claims they copied, so a claim they have
\* changed must not look like one they would still take something from: a
\* trimmed run has given up a slot already visited and holds its title's, and a
\* run that was moved is longer than one episode.
EdgesInv ==
    /\ stage = "trim" =>
          \A f \in Files :
             \/ claim[f].run = snap[f].run
             \/ \E s \in snap[f].run \ todo :
                   claim[f].run = snap[f].run \ {s} /\ lib[f].exact \in claim[f].run
    /\ stage = "shift" =>
          \A f \in Files :
             \/ claim[f].run = snap[f].run
             \/ \A s \in Slots : claim[f].run # {s}

TitledKeep ==
    \A f \in Files, e \in Slots : SoleTitled(f, e) => claim'[f].run = {e}

EdgesStep == EdgesInv' /\ (stage \in ResolveStages => TitledKeep)

LEMMA EdgesTrim ==
    ASSUME MappingInv, EdgesInv, NEW e, TrimSlot(e)
    PROVE  EdgesStep
<1>1. /\ stage = "trim" /\ e \in todo /\ todo' = todo \ {e} /\ UNCHANGED <<lib, stage, snap>>
  BY DEF TrimSlot, VisitSlot
<1>2. PICK F : /\ F \subseteq {f \in SnapClaimants(e) : /\ snap[f].run \ {e} \in Runs
                                                       /\ lib[f].exact \in snap[f].run \ {e}}
               /\ Record([f \in F |-> Claim(snap[f].run \ {e}, FALSE, snap[f].evidence \cup {"adjusted"})],
                         NoFiles)
  <2> DEFINE rivals  == SnapClaimants(e)
             singles == {f \in rivals : snap[f].run = {e} /\ "exact" \in snap[f].evidence}
             trimmed == {f \in rivals : /\ snap[f].run \ {e} \in Runs
                                        /\ lib[f].exact \in snap[f].run \ {e}}
             settles == Cardinality(singles) = 1 /\ \A f \in rivals : ~snap[f].manual
  <2> WITNESS IF settles THEN trimmed ELSE {}
  <2> QED BY DEF TrimSlot
<1> DEFINE new == [f \in F |-> Claim(snap[f].run \ {e}, FALSE, snap[f].evidence \cup {"adjusted"})]
<1>3. DOMAIN new = F /\ DOMAIN NoFiles = {} /\ \A f \in F : new[f].run = snap[f].run \ {e}
  BY DEF NoFiles, Claim
<1>4. Record(new, NoFiles) BY <1>2
<1> HIDE DEF new
<1>5. \A f \in Files : claim'[f].run = IF f \in F THEN snap[f].run \ {e} ELSE claim[f].run
  BY <1>3, <1>4 DEF Record
<1>6. \A f \in F : /\ f \in Files /\ e \in snap[f].run /\ snap[f].run \ {e} # {}
                   /\ lib[f].exact \in snap[f].run \ {e}
  BY <1>2, RunFacts DEF SnapClaimants
<1>7. EdgesInv'
  <2>1. ASSUME NEW f \in Files
        PROVE  \/ claim'[f].run = snap[f].run
               \/ \E s \in snap[f].run \ todo' :
                     claim'[f].run = snap[f].run \ {s} /\ lib[f].exact \in claim'[f].run
    <3>1. CASE f \in F BY <1>1, <1>5, <1>6, <3>1
    <3>2. CASE f \notin F BY <1>1, <1>5, <3>2 DEF EdgesInv
    <3> QED BY <3>1, <3>2
  <2> QED BY <1>1, <2>1 DEF EdgesInv
<1>8. ASSUME NEW f \in F, NEW s \in Slots, claim[f].run = {s}
      PROVE  FALSE
  <2>1. claim[f].run # snap[f].run BY <1>6, <1>8
  <2>2. PICK g \in snap[f].run \ todo : claim[f].run = snap[f].run \ {g} /\ lib[f].exact \in claim[f].run
    BY <1>1, <1>6, <2>1 DEF EdgesInv
  <2>3. e = s BY <1>1, <1>6, <1>8, <2>2
  <2> QED BY <1>6, <1>8, <2>2, <2>3
<1>9. TitledKeep BY <1>5, <1>8 DEF TitledKeep, SoleTitled
<1> QED BY <1>7, <1>9 DEF EdgesStep

LEMMA EdgesShift ==
    ASSUME MappingInv, EdgesInv, NEW e, ShiftSlot(e)
    PROVE  EdgesStep
<1>1. /\ stage = "shift" /\ UNCHANGED <<lib, stage, snap>> BY DEF ShiftSlot, VisitSlot
<1>2. CASE UNCHANGED tableVars
  BY <1>1, <1>2 DEF tableVars, EdgesInv, EdgesStep, TitledKeep, SoleTitled
<1>3. ASSUME NEW f \in Movable(e), NEW p \in Runs, CanShift(f, e, p),
             Assign(f, p, snap[f].evidence \cup {"adjusted"})
      PROVE  EdgesStep
  <2>1. \A h \in Files : claim'[h].run = IF h = f THEN p ELSE claim[h].run
    <3>1. \A h \in Files :
             claim'[h] = IF h = f THEN Claim(p, FALSE, snap[f].evidence \cup {"adjusted"}) ELSE claim[h]
      BY <1>3, AssignFacts
    <3>2. Claim(p, FALSE, snap[f].evidence \cup {"adjusted"}).run = p BY DEF Claim
    <3> QED BY <3>1, <3>2
  <2>2. f \in Files /\ e \in snap[f].run /\ snap[f].run \ {e} # {}
    BY RunFacts DEF Movable, SnapClaimants
  <2>3. PICK s \in p \ snap[f].run : p = (snap[f].run \ {e}) \cup {s} BY <1>3 DEF CanShift
  <2>4. \A g \in Slots : p # {g} BY <2>2, <2>3
  <2>5. EdgesInv' BY <1>1, <2>1, <2>4 DEF EdgesInv
  <2>6. \A g \in Slots : claim[f].run # {g} BY <1>1, <2>2 DEF EdgesInv
  <2>7. TitledKeep BY <2>1, <2>6 DEF TitledKeep, SoleTitled
  <2> QED BY <2>5, <2>7 DEF EdgesStep
<1> QED BY <1>2, <1>3 DEF ShiftSlot

\* The file with the very title is the one strongest claimant.
LEMMA SoleTitledWins ==
    ASSUME NEW f \in Files, NEW e, SoleTitled(f, e)
    PROVE  Strongest(e) = {f}
<1>1. f \in Claimants(e) BY DEF SoleTitled, Claimants
<1>2. Strength(f) = 3 BY DEF SoleTitled, Strength
<1>3. \A h \in Claimants(e) \ {f} : Strength(h) \in {0, 2} BY DEF SoleTitled, Strength
<1> QED BY <1>1, <1>2, <1>3 DEF Strongest

LEMMA EdgesResolve ==
    ASSUME MappingInv, NEW e, ResolveSlot(e)
    PROVE  EdgesStep
<1>1. stage = "resolve" /\ stage' = "resolve" BY DEF ResolveSlot, VisitSlot
<1>2. EdgesInv' BY <1>1 DEF EdgesInv
<1>3. ASSUME NEW f \in Files, NEW s \in Slots, SoleTitled(f, s) PROVE claim'[f].run = {s}
  <2>1. claim[f].run = {s} BY <1>3 DEF SoleTitled
  <2>2. CASE f \in Claimants(e)
    <3>1. e = s BY <2>1, <2>2 DEF Claimants
    <3>2. Strongest(e) = {f} /\ Cardinality(Strongest(e)) = 1 BY <1>3, <3>1, SoleTitledWins, FS_Singleton
    <3>3. ~(Cardinality(Strongest(e)) > 1) BY <3>2
    <3>4. UNCHANGED tableVars \/ MarkUnassigned(Claimants(e) \ {f}, "lost conflict")
      BY <3>2, <3>3 DEF ResolveSlot
    <3>5. claim'[f] = claim[f] BY <3>4 DEF tableVars, MarkUnassigned, Record, NoFiles
    <3> QED BY <2>1, <3>5
  <2>3. CASE f \notin Claimants(e)
    <3>1. ASSUME NEW F, NEW why, F \subseteq Claimants(e), MarkUnassigned(F, why) PROVE claim'[f] = claim[f]
      BY <2>3, <3>1 DEF MarkUnassigned, Record, NoFiles
    <3>2. ASSUME NEW h, KeepCopy(e, h, Strongest(e)) PROVE claim'[f] = claim[f]
      BY <2>3, <3>2 DEF KeepCopy, Record, NoFiles
    <3>3. UNCHANGED tableVars => claim'[f] = claim[f] BY DEF tableVars
    <3>4. claim'[f] = claim[f] BY <3>1, <3>2, <3>3 DEF ResolveSlot
    <3> QED BY <2>1, <3>4
  <2> QED BY <2>2, <2>3
<1> QED BY <1>2, <1>3 DEF EdgesStep, TitledKeep

LEMMA EdgesParts ==
    ASSUME MappingInv, NEW f, DetectParts(f)
    PROVE  EdgesStep
<1>1. stage = "parts" /\ stage' = "parts" BY DEF DetectParts
<1>2. EdgesInv' BY <1>1 DEF EdgesInv
<1>3. \A h \in Files : claim'[h].run = claim[h].run
  <2>1. CASE CompleteParts(f)
    <3> DEFINE g == CHOOSE g \in FreeGroups : TRUE
               new == [h \in PartFiles(f) |-> [Claim(claim[f].run, FALSE, {})
                                               EXCEPT !.group = g, !.part = (h # f)]]
    <3>1. Record(new, NoFiles) BY <2>1 DEF DetectParts, GroupParts
    <3>2. /\ DOMAIN new = PartFiles(f) /\ DOMAIN NoFiles = {}
          /\ \A h \in PartFiles(f) : new[h].run = claim[f].run
      BY DEF NoFiles, Claim
    <3> HIDE DEF new
    <3>3. \A h \in PartFiles(f) : claim[h].run = claim[f].run BY <2>1 DEF CompleteParts
    <3> QED BY <3>1, <3>2, <3>3 DEF Record
  <2>2. CASE ~CompleteParts(f) BY <2>2 DEF DetectParts, tableVars
  <2> QED BY <2>1, <2>2
<1> QED BY <1>2, <1>3 DEF EdgesStep, TitledKeep, SoleTitled

LEMMA EdgesNext ==
    ASSUME MappingInv, EdgesInv, [Next]_vars
    PROVE  EdgesStep
<1>1. CASE Resolve
  <2>1. ASSUME NEW f, RescueTitle(f) \/ RehomeNumbered(f) \/ DropScattered(f) \/ MoveRun(f)
                      \/ RescueFuzzy(f) \/ RescueHint(f)
        PROVE  EdgesStep
    <3>1. stage' = stage /\ stage \notin ResolveStages
      BY <2>1 DEF RescueTitle, RehomeNumbered, DropScattered, MoveRun, RescueFuzzy, RescueHint,
                  Visit, ResolveStages
    <3> QED BY <3>1 DEF EdgesStep, EdgesInv, ResolveStages
  <2>2. ASSUME NEW n, FollowOffset(n) PROVE EdgesStep
    BY <2>2 DEF FollowOffset, EdgesStep, EdgesInv, ResolveStages
  <2>3. ASSUME NextStage PROVE EdgesStep
    BY <2>3 DEF NextStage, Enter, tableVars, EdgesStep, EdgesInv, TitledKeep, SoleTitled
  <2> QED
    BY <1>1, <2>1, <2>2, <2>3, EdgesTrim, EdgesShift, EdgesResolve, EdgesParts DEF Resolve
<1>2. CASE CarryOver
  BY <1>2 DEF CarryOver, BeginCarryOver, CarryOverFile, CarryOverGroup, CarryOverRaises,
              CarryOverSkipped, EndScan, EdgesStep, EdgesInv, ResolveStages
<1>3. ASSUME NEW found \in Disk, NEW listing \in Listings, BeginScan(found, listing) PROVE EdgesStep
  BY <1>3 DEF BeginScan, EdgesStep, EdgesInv, ResolveStages
<1>4. ASSUME NEW t \in Siblings, Absorb(t) PROVE EdgesStep
  BY <1>4 DEF Absorb, EdgesStep, EdgesInv, ResolveStages
<1>5. CASE UserEdit
  <2>1. stage = "open" /\ stage' = "open"
    BY <1>5 DEF UserEdit, Unassign, Ungroup, Approve, ManualAssign, KeepThis, MergeParts,
                UnassignAll, Edit, stageVars
  <2> QED BY <2>1 DEF EdgesStep, EdgesInv, ResolveStages
<1>6. CASE UNCHANGED vars
  <2>1. UNCHANGED <<lib, claim, stage, todo, snap>> BY <1>6 DEF vars, tableVars, stageVars
  <2> QED BY <2>1 DEF EdgesStep, EdgesInv, TitledKeep, SoleTitled
<1> QED BY <1>1, <1>2, <1>3, <1>4, <1>5, <1>6 DEF Next

\* What a title says stands, for any show, in any order of the loops: no rescue
\* touches a claim that rests on a title, and the one file that carries an
\* episode's own title is left with it by every rule that settles conflicts.
THEOREM TitlesAlwaysStand == Spec => TitlesStand
<1>1. Init => TitlesInv /\ EdgesInv
  BY Untitled DEF Init, TableInit, EmptyTable, TitlesInv, EdgesInv, ClaimsConsistent, AutoStages
<1>2. MappingInv /\ TitlesInv /\ EdgesInv /\ [Next]_vars => TitlesInv' /\ EdgesInv'
  BY TitlesNext, EdgesNext DEF TitlesStep, EdgesStep
<1>3. MappingInv /\ TitlesInv /\ EdgesInv /\ [Next]_vars =>
         [\A f \in Files :
             /\ stage \in RescueStages
             /\ claim[f].evidence \cap TitleTags # {}
             => claim'[f] = claim[f]]_vars
  BY TitlesNext DEF TitlesStep, TitledStay
<1>4. MappingInv /\ TitlesInv /\ EdgesInv /\ [Next]_vars =>
         [\A f \in Files, e \in Slots :
             SoleTitled(f, e) /\ stage \in ResolveStages => claim'[f].run = {e}]_vars
  BY EdgesNext DEF EdgesStep, TitledKeep
<1> HIDE DEF MappingInv, TitlesInv, EdgesInv, Next, vars
<1>5. Spec => TitleClaimsStand BY <1>1, <1>2, <1>3, MappingInvariant, PTL DEF Spec, TitleClaimsStand
<1>6. Spec => TitledFileKeepsEpisode
  BY <1>1, <1>2, <1>4, MappingInvariant, PTL DEF Spec, TitledFileKeepsEpisode
<1> QED BY <1>5, <1>6 DEF TitlesStand
=============================================================================
