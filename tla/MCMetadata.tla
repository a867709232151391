------------------------------ MODULE MCMetadata ------------------------------
(***************************************************************************)
(* What the provider and the files tell, for TLC: the caches of metadata,  *)
(* the clients and their requests, the probing of tracks and the plans     *)
(* made of them, and the matching of shows and episodes by their names.    *)
(*                                                                         *)
(* The components do not share state here: one of them is at work in every *)
(* behaviour, and the state spaces add up.                                 *)
(***************************************************************************)
EXTENDS Integers, Sequences, FiniteSets, TLC

CONSTANTS
    Parts,                          \* the components to be put to work
    MaxClears, MaxClock, MaxEntries, Lifetime,
    Askers, Readers, Pages, NoPage, MaxDrops, MaxReads,
    Threads, Nobody, Burst, RateRetries, Retries, MaxTokens,
    Probers, Videos, CacheMax, MaxVersions, MaxCalls,
    Folders, Unknown, Threshold, TieMargin, AltCandidates, MaxResults,
    Listings, Files, Stopwords, PartNumbers, Alike, Shortened, TitleInitials,
    TableFiles, Tables, Seasons, ShowNames, ShowInitials, Perfect, EpisodeThreshold,
    en, fr, Und, NoLanguage, Inputs, MaxEdits

\* What the caches' bounds are: counts, and room for a result at least.
ASSUME MetadataAssumption ==
    /\ MaxClears \in Nat /\ MaxClock \in Nat /\ Lifetime \in Nat /\ Pages \in Nat
    /\ CacheMax \in Nat \ {0} /\ MaxVersions \in Nat \ {0}
    /\ Nobody \notin Probers

\* Confidence is in percent, and the settings admit a threshold from 50 to 100.
ASSUME ConfidenceAssumption ==
    /\ EpisodeThreshold \in 50 .. 100
    /\ \A t \in Tables : \A f \in TableFiles : t[f].base \in 0 .. 100

\* What a provider and the names tell of a result: likenesses are thousandths, fits
\* percent, counts and distances in years numbers.
Told(r) ==
    /\ r.title \in 0 .. 1000 /\ r.folderTitle \in 0 .. 1000 /\ r.alts \subseteq 0 .. 1000
    /\ r.year = Unknown \/ r.year \in Nat
    /\ r.seasonEpisodes = Unknown \/ r.seasonEpisodes \in Nat
    /\ r.episodes \in Nat /\ r.seasons \in Nat /\ r.unaired \in BOOLEAN
    /\ r.fit = Unknown \/ /\ r.fit.seasons \in 0 .. 100 /\ r.fit.episodes \in 0 .. 100
                          /\ r.fit.titles = Unknown \/ r.fit.titles \in 0 .. 100

\* A provider's results have ids of their own.
ASSUME MatchingAssumption ==
    /\ Threshold \in Nat /\ TieMargin \in Nat /\ AltCandidates \in Nat
    /\ \A f \in Folders :
          /\ f.count \in Nat
          /\ f.results \in Seq({f.results[i] : i \in DOMAIN f.results})
          /\ \A i, j \in DOMAIN f.results : f.results[i].id = f.results[j].id => i = j
          /\ \A i \in DOMAIN f.results : Told(f.results[i])

VARIABLES
    part,       \* the component at work
    current, held, recalled, asking, stored, cleared, clock,
    client, memory, kept, read, reads, told,
    token, issued, live, lock, burst, request, died,
    version, cache, inflight, call, calls,
    folder, match, alternates, origin,
    titles, file, verdict, stage,
    table, slots, conf, adjusted,
    muxFile, muxSettings, audio, subs, merges, appended, muxStage,
    planEdits

metadataVars == <<current, held, recalled, asking, stored, cleared, clock>>
tvdbVars == <<client, memory, kept, read, reads, told>>
requestVars == <<token, issued, live, lock, burst, request, died>>
probeVars == <<version, cache, inflight, call, calls>>
matchVars == <<folder, match, alternates, origin>>
titleVars == <<titles, file, verdict, stage>>
confVars == <<table, slots, conf, adjusted>>
muxVars == <<muxFile, muxSettings, audio, subs, merges, appended, muxStage,
      planEdits>>
suiteVars == <<part, metadataVars, tvdbVars, requestVars, probeVars, matchVars, titleVars, confVars, muxVars>>

Cache == INSTANCE MetadataCache WITH Workers <- Askers
Client == INSTANCE TVDBClient WITH Workers <- Readers, None <- NoPage
Requests == INSTANCE ProviderRequests WITH call <- request, slots <- burst
Probes == INSTANCE TrackProbe WITH Workers <- Probers
Matching == INSTANCE ShowMatching
Titles == INSTANCE EpisodeTitles WITH Initials <- TitleInitials
Floors == INSTANCE ConfidenceFloors WITH Files <- TableFiles, Initials <- ShowInitials
Mux == INSTANCE MuxPlan WITH stage <- muxStage, settings <- muxSettings, file <- muxFile, edits <- planEdits

-----------------------------------------------------------------------------
(* Folders with up to three results: the folder's own name, an alternative   *)
(* title, a near name, with years and counts that do or do not fit.          *)

Fits == {Unknown, [seasons |-> 100, episodes |-> 100, titles |-> 100],
         [seasons |-> 0, episodes |-> 0, titles |-> 20]}

Result(t, alts, year, episodes, fit, details) ==
    [title |-> t, folderTitle |-> t, alts |-> alts, year |-> year, named |-> t = 1000,
     fit |-> fit, mapped |-> TRUE, episodes |-> episodes, seasons |-> 1,
     seasonEpisodes |-> Unknown, unaired |-> FALSE, details |-> details, id |-> 0]

ResultKinds ==
    {Result(t[1], t[2], y, e, Unknown, d) :
        t \in {<<1000, {}>>, <<500, {1000}>>}, y \in {0, 2}, e \in {8, 10}, d \in {TRUE, FALSE}}
    \cup {Result(600, {}, Unknown, 8, f, TRUE) : f \in Fits}
    \cup {[Result(1000, {}, Unknown, 8, Unknown, TRUE) EXCEPT !.unaired = TRUE]}

\* A remake pair and a spin-off, of which two or all are near.
Trios == [1..3 -> {Result(1000, {}, 0, 8, Unknown, TRUE),
                   Result(950, {}, 2, 10, [seasons |-> 100, episodes |-> 100, titles |-> Unknown], TRUE),
                   Result(600, {}, Unknown, 8, Unknown, TRUE)}]
Results == Trios \cup UNION {[1..n -> ResultKinds] : n \in 0..MaxResults}

Numbered(results) == [i \in DOMAIN results |-> [results[i] EXCEPT !.id = i]]

MCFolders ==
    {[results |-> Numbered(r), hint |-> h, evidence |-> e, bySeasons |-> FALSE, count |-> c,
      direct |-> c, tag |-> t] :
        r \in Results, h \in BOOLEAN, e \in BOOLEAN, c \in {0, 8}, t \in {Unknown, 1}}

-----------------------------------------------------------------------------
(* EpisodeTitles. *)

MCListings == {
    <<<<"blue", "sky">>, <<"red", "and", "gold">>, <<"gold">>, <<"red">>>>,
    <<<<"red">>, <<"gold", "and", "red">>, <<"gold">>, <<"blue", "sky">>, <<"red", "and", "gold">>>>,
    <<<<"red">>, <<"gold", "and", "sky">>, <<"sky">>, <<"red", "and", "gold">>>>,
    <<<<"sky">>, <<"red", "and", "gold">>, <<"red">>, <<"gold", "and", "sky">>>>,
    <<<<"red">>, <<"blue", "sky">>, <<"gold">>>>,
    <<<<"trial", "part", "1">>, <<"trial", "part", "2">>, <<"trials">>, <<>>>>,
    <<<<"return">>, <<"red">>, <<"return">>, <<"gold">>>>,
    <<<<"next", "gen", "day">>, <<"friendship", "day">>, <<"old", "red", "house">>, <<"gold">>>>}

Texts == {<<>>, <<<<"red">>>>, <<<<"gold">>, <<"red">>>>, <<<<"red">>, <<"gold">>>>,
    <<<<"blue", "sky">>, <<"red">>, <<"gold">>>>, <<<<"red">>, <<"gold">>, <<"sky">>>>,
    <<<<"gold">>, <<"red">>, <<"gold">>, <<"blue", "sky">>>>,
    <<<<"trial", "1">>>>, <<<<"trial", "part", "3">>>>, <<<<"trial", "of", "part", "2">>>>, <<<<"return">>>>,
    <<<<"return">>, <<"red">>>>, <<<<"return", "of", "it">>, <<"red">>>>, <<<<"return">>, <<"red">>, <<"return">>, <<"old", "ones">>>>,
    <<<<"ng", "day">>, <<"friend", "day">>>>, <<<<"house", "old", "red">>>>, <<<<"blue", "mud">>, <<"red">>, <<"gold">>>>,
    <<<<"gold">>, <<"blue", "sky">>>>, <<<<"red">>, <<"grey">>, <<"gold">>>>,
    <<<<"friend", "day">>, <<"old", "red", "house">>, <<"silver", "mine">>>>,
    <<<<"friend", "day">>, <<"old", "red", "house">>, <<"gold", "mine">>>>,
    <<<<"red">>, <<"old", "blue", "sky">>>>}

SepsOf(a) == [1 .. (IF Len(a) = 0 THEN 0 ELSE Len(a) - 1) -> {"and", ","}]

MCFiles == UNION {{[season |-> s, hint |-> s, relative |-> r, numbers |-> n, atoms |-> a, seps |-> q] :
    s \in {0, 1}, r \in BOOLEAN,
    n \in {<<>>, <<1>>, <<4>>, <<1, 2>>, <<2, 3>>, <<1, 2, 3>>, <<8>>}, q \in SepsOf(a)} : a \in Texts}

MCTitleInitials == ("ng" :> <<"next", "gen">>)

-----------------------------------------------------------------------------
(* ConfidenceFloors. *)

TableClaim(n, E, man, b, isLocked, rel, h, src, t, rdy) ==
    [season |-> n, episodes |-> E, manual |-> man, base |-> b, locked |-> isLocked,
     relative |-> rel, hint |-> h, source |-> src, titled |-> t, ready |-> rdy]

Claims ==
    {TableClaim(1, E, FALSE, 50, FALSE, rel, h, src, FALSE, FALSE) :
        E \in {{1}, {2}, {1, 2}}, rel \in BOOLEAN, h \in {{}, {2}},
        src \in {<<>>, <<"star", "tng">>, <<"old", "show">>}}
    \cup {TableClaim(1, {e}, FALSE, 70, TRUE, FALSE, {}, <<>>, t, r) : e \in {1, 3}, t \in BOOLEAN, r \in BOOLEAN}
    \cup {TableClaim(0, {1}, FALSE, 50, FALSE, TRUE, {}, <<"other">>, t, FALSE) : t \in BOOLEAN}
    \cup {TableClaim(1, {2}, TRUE, 100, FALSE, FALSE, {}, <<>>, FALSE, FALSE)}

\* Of three files one claims by a bare number, and any may.
MCTables == {t \in [TableFiles -> Claims] :
                \E f \in TableFiles : t[f] = TableClaim(1, {2}, FALSE, 50, FALSE, FALSE, {}, <<>>, FALSE, FALSE)}

Slot(t, a) == [titled |-> t, air |-> a]
MCSeasons == {
    (0 :> (1 :> Slot(TRUE, "unknown"))) @@ (1 :> (1 :> Slot(TRUE, "past") @@ 2 :> Slot(TRUE, "past") @@ 3 :> Slot(TRUE, "future")
                                           @@ 4 :> Slot(TRUE, "unknown"))),
    (0 :> (1 :> Slot(TRUE, "past"))) @@ (1 :> (1 :> Slot(TRUE, "unknown") @@ 2 :> Slot(TRUE, "unknown") @@ 3 :> Slot(FALSE, "unknown"))),
    (0 :> (1 :> Slot(TRUE, "past"))) @@ (1 :> (1 :> Slot(TRUE, "past") @@ 2 :> Slot(FALSE, "past") @@ 3 :> Slot(TRUE, "past")))
        @@ (2 :> (1 :> Slot(TRUE, "past")))}

MCShowNames == {<<"star", "the", "next">>, <<"show">>}
MCShowInitials == ("tng" :> <<"the", "next">>)

-----------------------------------------------------------------------------
(* Three groups of inputs: up to three audio tracks and every rule about     *)
(* them, embedded and external subtitles, and files of several parts.        *)

Track(language, channels, lossless, kbps, effective) ==
    [language |-> language, channels |-> channels, lossless |-> lossless, kbps |-> kbps,
     effective |-> effective, commentary |-> FALSE, descriptive |-> FALSE, forced |-> FALSE,
     default |-> FALSE]

\* Stereo at three close rates, surround, lossless, one of unknown rate, one of
\* another language, one without a language and an audio description.
Sounds ==
    {Track(en, 2, FALSE, 200, 200), Track(en, 2, FALSE, 180, 185), Track(en, 2, FALSE, 160, 171),
     Track(en, 6, FALSE, 960, 960), Track(en, 2, TRUE, 900, 0), Track(en, 2, FALSE, 0, 0),
     Track(fr, 2, FALSE, 200, 200), Track(Und, 2, FALSE, 200, 200),
     [Track(en, 2, FALSE, 96, 96) EXCEPT !.descriptive = TRUE]}

Plain == [stripAudio |-> FALSE, retainAudio |-> {}, stripSubs |-> FALSE, retainSubs |-> {},
          noCommentary |-> FALSE, dedupe |-> FALSE, perLayout |-> TRUE, space |-> FALSE,
          smaller |-> TRUE, tolerance |-> 8, threshold |-> 100, defaultAudio |-> NoLanguage,
          defaultSub |-> NoLanguage, mergeSubs |-> FALSE, mergeLanguages |-> <<>>,
          untagged |-> NoLanguage, convert |-> FALSE]

Bare == [audio |-> <<Track(en, 2, FALSE, 200, 200)>>, subs |-> <<>>, companions |-> <<>>,
         parts |-> <<>>, rate |-> 48, duration |-> 10, mkv |-> TRUE]

Booleans == {TRUE, FALSE}

ThirdSounds == {s \in Sounds : s.language = en /\ s.kbps \in {160, 200, 900}}

Soundtracks ==
    {<<[a EXCEPT !.default = TRUE, !.commentary = c], b>> : a, b \in Sounds, c \in Booleans}
    \cup {<<a, [b EXCEPT !.default = TRUE], c>> : a, b \in Sounds, c \in ThirdSounds}

AudioInputs ==
    [file : {[Bare EXCEPT !.audio = t] : t \in Soundtracks},
     settings : {[Plain EXCEPT !.stripAudio = s, !.retainAudio = r, !.noCommentary = s,
                               !.dedupe = TRUE, !.perLayout = l, !.space = p, !.smaller = m,
                               !.defaultAudio = d] :
                    s, l, p, m \in Booleans, r \in {{fr}}, d \in {NoLanguage, fr}}]

Sub(language, forced) == [Track(language, 0, FALSE, 0, 0) EXCEPT !.forced = forced]

Subs == {Sub(en, FALSE), Sub(en, TRUE), Sub(fr, FALSE), Sub(Und, FALSE)}

SubInputs ==
    [file : {[Bare EXCEPT !.subs = <<[e EXCEPT !.default = TRUE]>> \o f, !.companions = <<c, d>>] :
                e, c, d \in Subs, f \in {<<>>, <<Sub(en, FALSE)>>}},
     settings : {[Plain EXCEPT !.stripSubs = s, !.retainSubs = {en}, !.mergeSubs = m,
                               !.mergeLanguages = l, !.untagged = u, !.defaultSub = d] :
                    s, m \in Booleans, l \in {<<fr, en>>, <<en>>}, u \in {NoLanguage, en},
                    d \in {NoLanguage, en}}]

Part(rate, duration, sub) == [ok |-> TRUE, rate |-> rate, duration |-> duration, sub |-> sub]

PartInputs ==
    [file : {[Bare EXCEPT !.rate = r, !.duration = d,
                          !.parts = <<Part(p, e, s), [Part(q, 10, <<Sub(en, FALSE)>>) EXCEPT !.ok = k]>>] :
                r, p, q \in {0, 44, 48}, d, e \in {0, 10}, s \in {<<>>, <<Sub(Und, TRUE)>>},
                k \in Booleans},
     settings : {[Plain EXCEPT !.mergeSubs = m, !.convert = TRUE] : m \in Booleans}]

MCInputs == AudioInputs \cup SubInputs \cup PartInputs

-----------------------------------------------------------------------------
(* One component at work, the others switched off. *)

CacheOff ==
    /\ current = "off" /\ held = "off" /\ recalled = "off" /\ asking = "off"
    /\ stored = "off" /\ cleared = "off" /\ clock = "off"
ClientOff ==
    /\ client = "off" /\ memory = "off" /\ kept = "off" /\ read = "off"
    /\ reads = "off" /\ told = "off"
RequestsOff ==
    /\ token = "off" /\ issued = "off" /\ live = "off" /\ lock = "off"
    /\ burst = "off" /\ request = "off" /\ died = "off"
ProbesOff ==
    /\ version = "off" /\ cache = "off" /\ inflight = "off" /\ call = "off"
    /\ calls = "off"
MatchingOff ==
    /\ folder = "off" /\ match = "off" /\ alternates = "off"
    /\ origin = "off"
TitlesOff ==
    /\ titles = "off" /\ file = "off" /\ verdict = "off" /\ stage = "off"
FloorsOff ==
    /\ table = "off" /\ slots = "off" /\ conf = "off" /\ adjusted = "off"
MuxOff ==
    /\ muxFile = "off" /\ muxSettings = "off" /\ audio = "off"
    /\ subs = "off" /\ merges = "off" /\ appended = "off" /\ muxStage = "off"
    /\ planEdits = "off"

SuiteInit ==
    /\ part \in Parts
    /\ IF part = "cache" THEN Cache!MetadataInit ELSE CacheOff
    /\ IF part = "client" THEN Client!TvdbInit ELSE ClientOff
    /\ IF part = "requests" THEN Requests!RequestsInit ELSE RequestsOff
    /\ IF part = "probes" THEN Probes!ProbeInit ELSE ProbesOff
    /\ IF part = "matching" THEN Matching!MatchInit ELSE MatchingOff
    /\ IF part = "titles" THEN Titles!TitlesInit ELSE TitlesOff
    /\ IF part = "floors" THEN Floors!ConfidenceInit ELSE FloorsOff
    /\ IF part = "mux" THEN Mux!MuxInit ELSE MuxOff

SuiteNext ==
    \/ /\ part = "cache" /\ Cache!MetadataNext
       /\ UNCHANGED <<part, tvdbVars, requestVars, probeVars, matchVars, titleVars, confVars, muxVars>>
    \/ /\ part = "client" /\ Client!TvdbNext
       /\ UNCHANGED <<part, metadataVars, requestVars, probeVars, matchVars, titleVars, confVars, muxVars>>
    \/ /\ part = "requests" /\ Requests!RequestsNext
       /\ UNCHANGED <<part, metadataVars, tvdbVars, probeVars, matchVars, titleVars, confVars, muxVars>>
    \/ /\ part = "probes" /\ Probes!ProbeNext
       /\ UNCHANGED <<part, metadataVars, tvdbVars, requestVars, matchVars, titleVars, confVars, muxVars>>
    \/ /\ part = "matching" /\ Matching!MatchNext
       /\ UNCHANGED <<part, metadataVars, tvdbVars, requestVars, probeVars, titleVars, confVars, muxVars>>
    \/ /\ part = "titles" /\ Titles!TitlesNext
       /\ UNCHANGED <<part, metadataVars, tvdbVars, requestVars, probeVars, matchVars, confVars, muxVars>>
    \/ /\ part = "floors" /\ Floors!Adjust
       /\ UNCHANGED <<part, metadataVars, tvdbVars, requestVars, probeVars, matchVars, titleVars, muxVars>>
    \/ /\ part = "mux" /\ Mux!MuxNext
       /\ UNCHANGED <<part, metadataVars, tvdbVars, requestVars, probeVars, matchVars, titleVars, confVars>>

\* Steps of one thread or worker, for fairness.
RequestStep(t) ==
        /\ part = "requests" /\ Requests!ThreadStep(t) 
        /\ UNCHANGED <<part, metadataVars, tvdbVars, probeVars, matchVars, titleVars, confVars, muxVars>>
RequestRefill ==
        /\ part = "requests" /\ Requests!Refill 
        /\ UNCHANGED <<part, metadataVars, tvdbVars, probeVars, matchVars, titleVars, confVars, muxVars>>
ProbeStep(w) ==
        /\ part = "probes" /\ Probes!WorkerStep(w) 
        /\ UNCHANGED <<part, metadataVars, tvdbVars, requestVars, matchVars, titleVars, confVars, muxVars>>

SuiteSpec ==
    /\ SuiteInit /\ [][SuiteNext]_suiteVars
    /\ \A t \in Threads : SF_suiteVars(RequestStep(t))
    /\ WF_suiteVars(RequestRefill)
    /\ \A w \in Probers : WF_suiteVars(ProbeStep(w))

\* The clients of the cache remember two answers at most, the requests under way
\* counted in.
Bounded == part = "cache" =>
    Cardinality({m \in Cache!Clients \X Cache!Records : recalled[m[1]][m[2]] # {}})
      + Cardinality({a \in Askers : asking[a] # Cache!Idle}) <= 2

-----------------------------------------------------------------------------
\* Clearing the cache takes all but what was being asked for at that moment,
\* whatever older clients write later, and a season map that is remembered holds
\* every page of the show's episodes (cache_service.py, tmdb.py, tvdb.py).
CachesHold ==
    /\ part = "cache" => Cache!MetadataTypeOK /\ Cache!ClearedIsGone
    /\ part = "client" => Client!SeasonMapWhole

\* A token that died before a request began never fails it, whatever the other
\* threads drop and renew meanwhile (tvdb.py _request, _ensure_token).
OldTokenNeverRefuses == part = "requests" => Requests!OldTokenNeverRefuses

\* A slot of a running probe belongs to a worker that is probing for it, and the
\* cache keeps one result for a key, within its bound (_mkv_probe.py probe_file).
ProbesAreShared ==
    part = "probes" => Probes!SlotsAreLive /\ Probes!CacheHoldsOnePerKey

\* Every request ends, for its waits and retries are counted and nobody keeps the
\* login lock, and every call for a probe comes back, the ones that wait for
\* another's included (tvdb.py _request, tmdb.py _get, _mkv_probe.py probe_file).
CallsEnd ==
    /\ \A t \in Threads : (part = "requests" /\ t \in Requests!Running)
                              ~> (part = "requests" /\ t \notin Requests!Running)
    /\ \A w \in Probers : (part = "probes" /\ call[w].pc = "wait")
                              ~> (part = "probes" /\ call[w].pc # "wait")

\* A match taken without review does not hang on the order in which the provider
\* listed its results (matching.py, _batch_orchestrators.py).
OrderDoesNotDecide == part = "matching" => Matching!OrderDoesNotDecide

\* A claim accepted unasked is of the episodes the text spells out, and no
\* segment of a combined title stands for an episode it has no word of
\* (_episode_resolution.py).
TitlesTell ==
    part = "titles" => Titles!ConfidentIsNamed /\ Titles!SegmentsTellTheirEpisode

\* Doubt stays reviewable whatever a season's coverage lifts, a bare number is
\* lifted by coverage alone, and a season that has all its aired episodes is
\* lifted (_episode_resolution.py apply_confidence_adjustments).
ConfidenceHolds ==
    part = "floors" => /\ Floors!DoubtStaysReviewable
                       /\ Floors!BareNumberNeedsCoverage
                       /\ Floors!AiredSeasonLifted

\* A plan leaves a file that has sound with some, with one default among the
\* subtitles of the default language, and with a default audio track where the
\* duplicates that were dropped had it (_mux_planner.py, _mux_audio_dedup.py).
PlansKeepDefaults ==
    /\ [](part = "mux" => Mux!SoundStays /\ Mux!OneDefaultSubtitle)
    /\ [][(part = "mux" /\ Mux!DedupeAudio) =>
              (Mux!Defaults(audio) # {} => Mux!Defaults(audio)' # {})]_suiteVars
=============================================================================
