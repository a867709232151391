------------------------------- MODULE MuxPlan -------------------------------
(***************************************************************************)
(* How the tracks of a file are chosen before it is remuxed                *)
(* (engine/_mux_planner.py, engine/_mux_audio_dedup.py,                    *)
(* engine/_merge_gate.py, _plan_merge_item of                              *)
(* app/services/automux_service.py) and how the user edits the choice      *)
(* (gui_qt/widgets/_automux_tracks.py).                                    *)
(*                                                                         *)
(* One file at a time: it is probed, the embedded tracks are decided on,   *)
(* duplicates of a language dropped, defaults set, subtitle files merged,  *)
(* further parts appended, and then the user keeps or strips tracks.       *)
(* A language is a model value; bit rates are whole numbers, the effective *)
(* rate (bit rate times codec weight) is data of the track.  Names of      *)
(* tracks and codecs appear as the flags the rules read off them.          *)
(***************************************************************************)
EXTENDS Integers, Sequences, FiniteSets

LOCAL Ext == INSTANCE SequencesExt
LOCAL Fin == INSTANCE FiniteSetsExt

CONSTANTS
    Inputs,      \* probed files with their settings: see MCMuxPlan
    Und,         \* the language of an untagged track
    NoLanguage,  \* an empty language setting
    MaxEdits     \* bound: user edits of the plan

VARIABLES
    file,        \* the file: its audio, subs, companions, further parts
    settings,    \* the AutoMux settings it is planned with
    audio, subs, \* per track: [keep, default]
    merges,      \* subtitle files: [sub, action, language, default, offset]
    appended,    \* parts appended to the file
    stage,       \* what is decided next
    edits        \* bookkeeping: user edits so far

choices == <<audio, subs, merges, appended>>
muxVars == <<file, settings, choices, stage, edits>>

Stages == <<"decide", "dedupe", "audio default", "merge", "sub default", "append", "planned",
            "refused">>

-----------------------------------------------------------------------------
(* Embedded tracks. *)

\* _decide_embedded
Kept(track, strip, retain) ==
    \/ ~strip
    \/ /\ ~(track.commentary /\ settings.noCommentary)
       /\ track.language = Und \/ track.language \in retain

Decided(tracks, strip, retain) ==
    [i \in DOMAIN tracks |-> [keep    |-> Kept(tracks[i], strip, retain),
                              default |-> tracks[i].default]]

KeepsAny(decided) == \E i \in DOMAIN decided : decided[i].keep

\* The safety floor: stripping never takes every audio track.
WithFloor(decided) ==
    IF KeepsAny(decided) THEN decided
    ELSE [i \in DOMAIN decided |-> [decided[i] EXCEPT !.keep = TRUE]]

-----------------------------------------------------------------------------
(* Duplicates of one language. *)

A(i) == file.audio[i]

\* Tracks that may duplicate each other: kept, of the language, with ordinary
\* programme sound.
Group(decided, language) ==
    {i \in DOMAIN decided : /\ decided[i].keep
                            /\ A(i).language = language
                            /\ ~A(i).commentary /\ ~A(i).descriptive}

\* _score is None: nothing to judge the track by.
Unjudged(i) == A(i).channels = 0 \/ (~A(i).lossless /\ A(i).kbps = 0)

Transparent(i) == A(i).lossless \/ A(i).effective >= settings.threshold * A(i).channels

TiePick(i, j) ==
    IF settings.smaller
    THEN IF A(i).kbps <= A(j).kbps THEN i ELSE j
    ELSE IF A(i).effective >= A(j).effective THEN i ELSE j

\* _better, of two lossy tracks of one layout.
Better(i, j) ==
    LET high == IF A(i).effective >= A(j).effective THEN i ELSE j
        low  == IF high = i THEN j ELSE i
        gap  == A(high).effective - A(low).effective
    IN  IF \/ Transparent(i) /\ Transparent(j)
           \/ gap * 100 <= settings.tolerance * A(high).effective
        THEN TiePick(i, j) ELSE high

InOrder(S) == Ext!SetToSortSeq(S, <)

\* The best lossless track, or else the one left of the pairwise comparisons in
\* track order.
LayoutWinner(members) ==
    LET lossless == {i \in members : A(i).lossless}
    IN  IF lossless # {}
        THEN CHOOSE i \in lossless : \A j \in lossless :
                A(i).kbps > A(j).kbps \/ (A(i).kbps = A(j).kbps /\ i <= j)
        ELSE Ext!FoldLeft(Better, Head(InOrder(members)), Tail(InOrder(members)))

\* What is left of a judged group.
Survivors(group) ==
    LET lossy    == {i \in group : ~A(i).lossless}
        spaced   == IF settings.space /\ \E i \in lossy : Transparent(i) THEN lossy ELSE group
        layouts  == {A(i).channels : i \in spaced}
        winners  == {LayoutWinner({i \in spaced : A(i).channels = c}) : c \in layouts}
    IN  IF settings.perLayout THEN winners
        ELSE {i \in winners : A(i).channels = Fin!Max(layouts)}

\* More channels, then lossless, then the higher effective rate, then first.
Ranked(i, j) ==
    \/ A(i).channels > A(j).channels
    \/ /\ A(i).channels = A(j).channels
       /\ \/ A(i).lossless /\ ~A(j).lossless
          \/ /\ A(i).lossless = A(j).lossless
             /\ LET e == [k \in {i, j} |-> IF A(k).lossless THEN 0 ELSE A(k).effective]
                IN  e[i] > e[j] \/ (e[i] = e[j] /\ i <= j)

\* Mutant: the flag of a dropped track is lost with it.
RescueNobody(decided, group) == decided

\* The default flag of a dropped track goes to the best track left of its
\* group, unless another kept track has one.
Rescue(decided, group) ==
    LET left == {i \in group : decided[i].keep}
        best == CHOOSE i \in left : \A j \in left : Ranked(i, j)
    IN  IF /\ \E i \in group : ~decided[i].keep /\ decided[i].default
           /\ ~\E i \in DOMAIN decided : decided[i].keep /\ decided[i].default
        THEN [decided EXCEPT ![best].default = TRUE]
        ELSE decided

\* A group with a track nothing is known of is left alone.
DedupeLanguage(decided, language) ==
    LET group == Group(decided, language)
        left  == Survivors(group)
    IN  IF Cardinality(group) < 2 \/ \E i \in group : Unjudged(i) THEN decided
        ELSE Rescue([i \in DOMAIN decided |->
                        [decided[i] EXCEPT !.keep = @ /\ (i \in group => i \in left)]], group)

\* The languages in the order of the first tracks of their groups.
Languages(decided) ==
    LET known  == {A(i).language : i \in DOMAIN decided} \ {Und}
        firsts == {Fin!Min(Group(decided, l)) : l \in {m \in known : Group(decided, m) # {}}}
    IN  [n \in DOMAIN InOrder(firsts) |-> A(InOrder(firsts)[n]).language]

-----------------------------------------------------------------------------
(* Defaults. *)

\* _apply_default_language: the first kept full track of the language, or else
\* the first forced one, is the only default; commentary never is.
WithDefault(decided, tracks, language) ==
    LET eligible == {i \in DOMAIN decided : /\ decided[i].keep /\ tracks[i].language = language
                                            /\ ~tracks[i].commentary}
        full     == {i \in eligible : ~tracks[i].forced}
        winner   == Fin!Min(IF full # {} THEN full ELSE eligible)
    IN  IF language = NoLanguage \/ eligible = {} THEN decided
        ELSE [i \in DOMAIN decided |->
                 IF decided[i].keep THEN [decided[i] EXCEPT !.default = (i = winner)]
                 ELSE decided[i]]

\* An untagged file merges as the substitute language; a tagged one merges when
\* its language is asked for.
MergeOf(sub) ==
    LET tagged == sub.language # Und
    IN  [sub |-> sub, default |-> FALSE, offset |-> 0,
         action |-> IF /\ settings.mergeSubs
                       /\ tagged => sub.language \in Ext!ToSet(settings.mergeLanguages)
                    THEN "merge" ELSE "rename",
         language |-> IF tagged \/ ~settings.mergeSubs \/ settings.untagged = NoLanguage
                      THEN sub.language ELSE settings.untagged]

\* In the order of the language list, then the untagged, then the renamed.
MergeRank(m) ==
    LET n == Len(settings.mergeLanguages)
    IN  IF ~settings.mergeSubs THEN 0
        ELSE IF m.action = "rename" THEN n + 1
        ELSE IF m.sub.language = Und THEN n
        ELSE Fin!Min({i \in 1..n : settings.mergeLanguages[i] = m.sub.language}) - 1

Merged ==
    LET all == [i \in DOMAIN file.companions |-> MergeOf(file.companions[i])]
        order == Ext!SetToSortSeq(DOMAIN all, LAMBDA i, j :
                    \/ MergeRank(all[i]) < MergeRank(all[j])
                    \/ MergeRank(all[i]) = MergeRank(all[j]) /\ i < j)
    IN  [n \in DOMAIN order |-> all[order[n]]]

Matches == {i \in DOMAIN merges : merges[i].action = "merge" /\ merges[i].language = settings.defaultSub}

\* A merged file takes the default from every embedded track.
MergeDefault(i) ==
    /\ merges' = [merges EXCEPT ![i].default = TRUE]
    /\ subs' = [j \in DOMAIN subs |-> [subs[j] EXCEPT !.default = FALSE]]

-----------------------------------------------------------------------------
(* Parts. *)

\* A parameter the probe could not tell (0) never keeps parts apart.
ParamsDiffer(a, b) == a # 0 /\ b # 0 /\ a # b

\* check_append_compatibility: every part is readable and agrees with part 1.
Appendable ==
    \A i \in DOMAIN file.parts : file.parts[i].ok /\ ~ParamsDiffer(file.rate, file.parts[i].rate)

\* The durations before part i + 1, or -1 when one is unknown.
Offset(i) ==
    LET before == [k \in 1..i |-> IF k = 1 THEN file.duration ELSE file.parts[k - 1].duration]
    IN  IF \E k \in 1..i : before[k] <= 0 THEN -1
        ELSE Ext!FoldLeft(LAMBDA a, b : a + b, 0, before)

\* The subtitle file of part i + 1, shifted behind the parts before it.
PartMerges(i) ==
    IF file.parts[i].sub = <<>> \/ Offset(i) < 0 \/ ~settings.mergeSubs THEN <<>>
    ELSE LET sub == file.parts[i].sub[1]
         IN  <<[MergeOf(sub) EXCEPT !.action = "merge", !.offset = Offset(i)]>>

-----------------------------------------------------------------------------
(* Planning. *)

At(s) == stage = Stages[s]
Then(s) == stage' = Stages[s] /\ UNCHANGED <<file, settings, edits>>

MuxInit ==
    /\ \E in \in Inputs : file = in.file /\ settings = in.settings
    /\ audio = <<>> /\ subs = <<>> /\ merges = <<>>
    /\ appended = 0
    /\ stage = Stages[1]
    /\ edits = 0

Decide ==
    /\ At(1) /\ Then(2)
    /\ LET decided == Decided(file.audio, settings.stripAudio, settings.retainAudio)
       IN  audio' = IF settings.stripAudio THEN WithFloor(decided) ELSE decided
    /\ subs' = Decided(file.subs, settings.stripSubs, settings.retainSubs)
    /\ UNCHANGED <<merges, appended>>

DedupeAudio ==
    /\ At(2) /\ Then(3)
    /\ audio' = IF settings.dedupe THEN Ext!FoldLeft(DedupeLanguage, audio, Languages(audio)) ELSE audio
    /\ UNCHANGED <<subs, merges, appended>>

DefaultAudio ==
    /\ At(3) /\ Then(4)
    /\ audio' = WithDefault(audio, file.audio, settings.defaultAudio)
    /\ UNCHANGED <<subs, merges, appended>>

MergeSubs ==
    /\ At(4) /\ Then(5)
    /\ merges' = Merged
    /\ UNCHANGED <<audio, subs, appended>>

\* A full merged file, else an embedded track, else a forced merged file.
DefaultSubs ==
    /\ At(5) /\ Then(6)
    /\ LET full     == {i \in Matches : ~merges[i].sub.forced}
           embedded == WithDefault(subs, file.subs, settings.defaultSub)
           eligible == \E i \in DOMAIN subs :
                          /\ subs[i].keep /\ file.subs[i].language = settings.defaultSub
                          /\ ~file.subs[i].commentary
       IN  IF settings.defaultSub = NoLanguage THEN UNCHANGED <<subs, merges>>
           ELSE IF full # {} THEN MergeDefault(Fin!Min(full))
           ELSE IF eligible THEN subs' = embedded /\ UNCHANGED merges
           ELSE IF Matches # {} THEN MergeDefault(Fin!Min(Matches))
           ELSE UNCHANGED <<subs, merges>>
    /\ UNCHANGED <<audio, appended>>

\* The further parts are appended, or the row is refused.
AppendParts ==
    /\ At(6)
    /\ IF Appendable
       THEN /\ Then(7)
            /\ appended' = Len(file.parts)
            /\ merges' = merges \o Ext!FlattenSeq([i \in DOMAIN file.parts |-> PartMerges(i)])
       ELSE Then(8) /\ UNCHANGED <<merges, appended>>
    /\ UNCHANGED <<audio, subs>>

\* MuxPlan.has_actions: without one the file is only renamed.
HasActions ==
    \/ \E i \in DOMAIN audio : ~audio[i].keep
    \/ \E i \in DOMAIN subs : ~subs[i].keep
    \/ \E i \in DOMAIN merges : merges[i].action = "merge"
    \/ settings.convert /\ ~file.mkv
    \/ appended > 0

-----------------------------------------------------------------------------
(* The user edits the plan. *)

Edit ==
    /\ At(7) /\ HasActions /\ edits < MaxEdits
    /\ edits' = edits + 1
    /\ UNCHANGED <<file, settings, stage, appended>>

\* The last kept audio track stays.
MayStrip(i) == Cardinality({j \in DOMAIN audio : audio[j].keep}) > 1

AudioToggled(i) ==
    /\ Edit
    /\ audio[i].keep => MayStrip(i)
    /\ audio' = [audio EXCEPT ![i].keep = ~@]
    /\ UNCHANGED <<subs, merges>>

SubToggled(i) ==
    /\ Edit
    /\ subs' = [subs EXCEPT ![i].keep = ~@]
    /\ UNCHANGED <<audio, merges>>

MergeToggled(i) ==
    /\ Edit
    /\ merges' = [merges EXCEPT ![i].action = IF @ = "merge" THEN "rename" ELSE "merge"]
    /\ UNCHANGED <<audio, subs>>

MuxNext ==
    \/ Decide \/ DedupeAudio \/ DefaultAudio \/ MergeSubs \/ DefaultSubs \/ AppendParts
    \/ \E i \in DOMAIN audio : AudioToggled(i)
    \/ \E i \in DOMAIN subs : SubToggled(i)
    \/ \E i \in DOMAIN merges : MergeToggled(i)

MuxSpec == MuxInit /\ [][MuxNext]_muxVars

-----------------------------------------------------------------------------
(* What mkvmerge is told (build_mkvmerge_args), and the properties. *)

Defaults(decided) == {i \in DOMAIN decided : decided[i].keep /\ decided[i].default}

MergedDefaults == {i \in DOMAIN merges : merges[i].action = "merge" /\ merges[i].default}

\* A file that has sound keeps some, whatever is stripped, found to be a
\* duplicate or unticked ("audio safety floor").
SoundStays == (stage # "decide" /\ file.audio # <<>>) => KeepsAny(audio)

\* Dropping duplicates never leaves a file without a default audio track when a
\* kept one was the default before ("default-flag rescue").
DefaultOutlivesDuplicate == [][DedupeAudio => (Defaults(audio) # {} => Defaults(audio)' # {})]_muxVars

\* With a default subtitle language that some kept or merged subtitle has, the
\* plan has exactly one default among them ("Forced merges never steal the
\* default from a full track").
OneDefaultSubtitle ==
    (stage = "append" /\ settings.defaultSub # NoLanguage) =>
       LET spoken == {i \in DOMAIN subs : /\ subs[i].keep /\ ~file.subs[i].commentary
                                          /\ file.subs[i].language = settings.defaultSub}
       IN  (spoken # {} \/ Matches # {}) =>
              /\ Cardinality(Defaults(subs)) + Cardinality(MergedDefaults) = 1
              /\ \A i \in MergedDefaults :
                    merges[i].sub.forced => spoken = {}

\* Parts that are appended agree with each other.
\* It does not hold; the README tells how.
AppendedPartsAgree ==
    appended > 0 => \A i, j \in DOMAIN file.parts :
                       ~ParamsDiffer(file.parts[i].rate, file.parts[j].rate)

Worse(i, j) ==
    /\ A(i).channels = A(j).channels /\ ~A(j).lossless /\ ~A(i).lossless
    /\ ~(Transparent(i) /\ Transparent(j))
    /\ (A(j).effective - A(i).effective) * 100 > settings.tolerance * A(j).effective

\* A dropped lossy duplicate is not better than the track kept for its layout by
\* more than the tie tolerance.
\* It does not hold; the README tells how.
DropsWithinTolerance ==
    [][DedupeAudio =>
         \A j \in DOMAIN audio : (audio[j].keep /\ ~audio'[j].keep) =>
            \A i \in Group(audio', A(j).language) : ~Worse(i, j)]_muxVars
=============================================================================
