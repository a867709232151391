----------------------------- MODULE TrackProbe -----------------------------
(***************************************************************************)
(* The cache of track inspections (_mkv_probe.py, _ffprobe.py): pool        *)
(* workers ask for the tracks of a video; one runs mkvmerge, the others of *)
(* the same key wait for its slot, and ffprobe adds the bitrates that      *)
(* mkvmerge does not tell when the caller has one.                         *)
(*                                                                         *)
(* A key is a video in one of its versions (its path, size and time).  A   *)
(* result is "failed", "plain" or "enriched", and a call may end with an    *)
(* exception, "raised"; every video of the model that mkvmerge recognises   *)
(* has a track whose bitrate only ffprobe knows.  Each step of a worker is  *)
(* one section under the lock or one subprocess.                           *)
(***************************************************************************)
EXTENDS Naturals, Sequences, FiniteSets

LOCAL Ext == INSTANCE SequencesExt

CONSTANTS
    Workers,      \* pool threads
    Videos,       \* video files
    Nobody,       \* no worker
    CacheMax,     \* _CACHE_MAX_ENTRIES
    MaxVersions,  \* bound on the rewrites of a video
    MaxCalls      \* bound on the calls of a worker

VARIABLES
    version,   \* video -> what is on disk
    cache,     \* the entries [key, result], oldest first
    inflight,  \* key -> the worker whose slot it holds
    call,      \* worker -> its call
    calls      \* worker -> calls made

probeVars == <<version, cache, inflight, call, calls>>

Keys == Videos \X (1 .. MaxVersions)
Idle == [pc |-> "idle"]

CachedResult(k) == {cache[i].result : i \in {j \in DOMAIN cache : cache[j].key = k}}
Step(w, pc)     == call' = [call EXCEPT ![w].pc = pc]
Return(w, r)    == call' = [call EXCEPT ![w].pc = "returned", ![w].result = r]

ProbeInit ==
    /\ version = [v \in Videos |-> 1]
    /\ cache = <<>> /\ inflight = [k \in Keys |-> Nobody]
    /\ call = [w \in Workers |-> Idle] /\ calls = [w \in Workers |-> 0]

-----------------------------------------------------------------------------

\* A call begins; the key is what stat tells.
Ask(w) ==
    /\ call[w].pc \in {"idle", "returned"} /\ calls[w] < MaxCalls
    /\ calls' = [calls EXCEPT ![w] = @ + 1]
    /\ \E v \in Videos, ffprobe \in BOOLEAN :
           call' = [call EXCEPT ![w] = [pc |-> "check", key |-> <<v, version[v]>>,
                                        ffprobe |-> ffprobe, owner |-> FALSE,
                                        slot |-> Nobody, result |-> "none"]]
    /\ UNCHANGED <<version, cache, inflight>>

\* The first section: a cached result, or one that ffprobe has still to add to.
Check(w) ==
    /\ call[w].pc = "check"
    /\ LET hit == CachedResult(call[w].key)
       IN  IF hit = {} THEN Step(w, "enter")
           ELSE IF call[w].ffprobe /\ "plain" \in hit THEN Step(w, "enrichCached")
           ELSE Return(w, CHOOSE r \in hit : TRUE)
    /\ UNCHANGED <<version, cache, inflight, calls>>

\* ffprobe on a cached result changes the entry itself; it may tell nothing.
EnrichCached(w) ==
    /\ call[w].pc = "enrichCached"
    /\ \E r \in {"plain", "enriched"} :
           /\ cache' = [i \in DOMAIN cache |->
                           IF cache[i].key = call[w].key /\ r = "enriched"
                           THEN [cache[i] EXCEPT !.result = "enriched"] ELSE cache[i]]
           /\ Return(w, r)
    /\ UNCHANGED <<version, inflight, calls>>

\* The second section: the key's slot, one's own or another's.
Enter(w) ==
    LET k == call[w].key
    IN  /\ call[w].pc = "enter"
        /\ IF inflight[k] = Nobody
           THEN /\ inflight' = [inflight EXCEPT ![k] = w]
                /\ call' = [call EXCEPT ![w].pc = "probe", ![w].owner = TRUE]
           ELSE /\ call' = [call EXCEPT ![w].pc = "wait", ![w].slot = inflight[k]]
                /\ UNCHANGED inflight
        /\ UNCHANGED <<version, cache, calls>>

\* mkvmerge runs: it fails or tells nothing readable, or what it tells cannot be
\* taken apart and an exception comes out of the probe; a file it does not
\* recognise is a failed result that is kept like any other.
Probe(w) ==
    /\ call[w].pc = "probe"
    /\ \/ \E r \in {"failed", "raised"} :
             call' = [call EXCEPT ![w].pc = IF call[w].owner THEN "publish" ELSE "returned",
                                  ![w].result = r]
       \/ call' = [call EXCEPT ![w].pc = "store", ![w].result = "failed"]
       \/ call' = [call EXCEPT ![w].pc = IF call[w].ffprobe THEN "enrich" ELSE "store",
                               ![w].result = "plain"]
    /\ UNCHANGED <<version, cache, inflight, calls>>

\* ffprobe runs on the fresh result.
Enrich(w) ==
    /\ call[w].pc = "enrich"
    /\ \E r \in {"plain", "enriched"} :
           call' = [call EXCEPT ![w].pc = "store", ![w].result = r]
    /\ UNCHANGED <<version, cache, inflight, calls>>

\* Mutant: a key that is cached already gets a second entry.
StoredAppend(k, r) == Append(cache, [key |-> k, result |-> r])
\* The cache with a result, the oldest entries dropped to make room; an entry
\* of the key keeps its place.
Stored(k, r) ==
    LET kept == IF Len(cache) < CacheMax THEN cache
                ELSE SubSeq(cache, Len(cache) - CacheMax + 2, Len(cache))
        at   == {i \in DOMAIN kept : kept[i].key = k}
    IN  IF at = {} THEN Append(kept, [key |-> k, result |-> r])
        ELSE [i \in DOMAIN kept |-> IF i \in at THEN [key |-> k, result |-> r] ELSE kept[i]]

Store(w) ==
    /\ call[w].pc = "store"
    /\ cache' = Stored(call[w].key, call[w].result)
    /\ Step(w, IF call[w].owner THEN "publish" ELSE "returned")
    /\ UNCHANGED <<version, inflight, calls>>

\* Mutant: only a probe that succeeded gives its slot up.
PublishSuccess(w) ==
    /\ call[w].pc = "publish"
    /\ inflight' = IF call[w].result = "failed" THEN inflight
                   ELSE [inflight EXCEPT ![call[w].key] = Nobody]
    /\ Step(w, "signal")
    /\ UNCHANGED <<version, cache, calls>>
\* The owner leaves the slot, whatever came of the probe ...
Publish(w) ==
    /\ call[w].pc = "publish"
    /\ inflight' = [inflight EXCEPT ![call[w].key] = Nobody]
    /\ Step(w, "signal")
    /\ UNCHANGED <<version, cache, calls>>

\* A worker that waited takes the slot's result, or probes on its own when an
\* exception left the slot without one.
Woken(c, r) == IF r = "raised" THEN [c EXCEPT !.pc = "probe"]
               ELSE [c EXCEPT !.pc = "returned", !.result = r]

\* ... and wakes the workers that wait on it.
Signal(w) ==
    /\ call[w].pc = "signal"
    /\ call' = [u \in Workers |->
                   IF u = w THEN [call[u] EXCEPT !.pc = "returned"]
                   ELSE IF call[u].pc = "wait" /\ call[u].slot = w /\ call[u].key = call[w].key
                   THEN Woken(call[u], call[w].result)
                   ELSE call[u]]
    /\ UNCHANGED <<version, cache, inflight, calls>>

\* A waiter outlasts mkvmerge's own timeout, not ffprobe's on top of it: then
\* it probes on its own, or finds the result there that the owner sets before it
\* leaves the slot.
WaitEnds(w) ==
    LET owner == call[call[w].slot] IN
    /\ call[w].pc = "wait" /\ owner.pc \in {"enrich", "store", "publish", "signal"}
    /\ \/ owner.pc # "signal" /\ Step(w, "probe")
       \/ owner.pc \in {"publish", "signal"} /\ call' = [call EXCEPT ![w] = Woken(@, owner.result)]
    /\ UNCHANGED <<version, cache, inflight, calls>>

\* A video is replaced on disk.
Rewrite(v) ==
    /\ version[v] < MaxVersions
    /\ version' = [version EXCEPT ![v] = @ + 1]
    /\ UNCHANGED <<cache, inflight, call, calls>>

WorkerStep(w) ==
    \/ Check(w) \/ EnrichCached(w) \/ Enter(w) \/ Probe(w) \/ Enrich(w)
    \/ Store(w) \/ Publish(w) \/ Signal(w)

ProbeNext ==
    \/ \E w \in Workers : Ask(w) \/ WorkerStep(w) \/ WaitEnds(w)
    \/ \E v \in Videos : Rewrite(v)

\* A worker that runs goes on running: subprocesses have timeouts.
ProbeSpec ==
    /\ ProbeInit /\ [][ProbeNext]_probeVars
    /\ \A w \in Workers : WF_probeVars(WorkerStep(w))

-----------------------------------------------------------------------------
(* Properties.                                                             *)

\* A slot belongs to a worker that is in the middle of probing for it, so that
\* no later call waits for a probe nobody runs; and each such worker holds the
\* slot of its key, so that no second one starts beside it.
SlotsAreLive ==
    /\ \A k \in Keys : inflight[k] # Nobody =>
           LET c == call[inflight[k]]
           IN  c.pc \in {"probe", "enrich", "store", "publish"} /\ c.owner /\ c.key = k
    /\ \A w \in Workers :
           (call[w].pc \in {"probe", "enrich", "store", "publish"} /\ call[w].owner)
               => inflight[call[w].key] = w

\* The cache stays within its bound and answers a key with one result.
CacheHoldsOnePerKey ==
    /\ Len(cache) <= CacheMax
    /\ \A i, j \in DOMAIN cache : cache[i].key = cache[j].key => i = j

\* Every call comes back, the ones that waited for another's probe included.
CallsReturn ==
    \A w \in Workers : call[w].pc = "wait" ~> call[w].pc # "wait"

\* probe_file: "Concurrent calls for the same key share one subprocess: the
\* first caller probes, the rest block on its result".  A call that saw another
\* store its key's result during its own course starts no mkvmerge.
\* It does not hold; the README tells how.
ConcurrentCallsShare ==
    [][\A w \in Workers :
           (call[w].pc = "enter" /\ call'[w].pc = "probe") => CachedResult(call[w].key) = {}]_probeVars

\* probe_file: "When *ffprobe_path* is given, audio tracks whose bitrate mkvmerge
\* couldn't determine are enriched via ffprobe before the result is cached".  A
\* call with ffprobe comes back plain only when its own ffprobe told nothing.
\* It does not hold; the README tells how.
GivenFfprobeEnriches ==
    [][\A w \in Workers :
           (call[w].pc = "wait" /\ call'[w].pc = "returned" /\ call[w].ffprobe)
               => call'[w].result # "plain" \/ call[call[w].slot].ffprobe]_probeVars
=============================================================================
