---------------------------- MODULE MetadataProofs ----------------------------
(***************************************************************************)
(* Theorems about the metadata suite: for any number of threads, tokens,   *)
(* pool workers, videos, pages and clients.                                *)
(***************************************************************************)
EXTENDS MCMetadata, SequenceTheorems, FiniteSetTheorems, NaturalsInduction, WellFoundedInduction,
        TLAPS

(***************************************************************************)
(* Requests to the providers.                                              *)
(***************************************************************************)
TvdbCalls == [pc : {"ensure", "login", "get", "drop", "answered", "failed", "refused"},
              attempt : {1, 2}, waits : Nat, token : Nat]
TmdbCalls == [pc : {"try", "answered", "failed"}, attempt : Nat]

RequestTypes ==
    /\ issued \in Nat /\ token \in Nat /\ live \in SUBSET Nat
    /\ request \in [Threads -> TvdbCalls \cup TmdbCalls \cup {Requests!Quiet}]
    /\ died \in [Threads -> BOOLEAN]

\* What the second attempt works with was accepted during the request: the
\* shared token was dropped by then, and a token is live when it is issued.
SecondAttempts ==
    \A t \in Threads :
       /\ /\ request[t].pc \in {"ensure", "login", "get"} /\ request[t].attempt = 2
          => token = 0 \/ token \in live \/ died[t]
       /\ /\ request[t].pc = "get" /\ request[t].attempt = 2
          => request[t].token \in live \/ died[t]
       /\ request[t].pc = "refused" => died[t]

RequestInv == RequestTypes /\ SecondAttempts

LEMMA RequestsStart == Requests!RequestsInit => RequestInv
BY DEF Requests!RequestsInit, RequestInv, RequestTypes, SecondAttempts, Requests!Quiet

LEMMA RequestsStep ==
    ASSUME RequestInv, Requests!RequestsNext
    PROVE  RequestInv'
<1> USE DEF RequestInv, RequestTypes, TvdbCalls, TmdbCalls, Requests!Quiet, Requests!Begun,
            Requests!Running, Requests!End, Requests!Acquire
<1>1. ASSUME NEW t \in Threads, Requests!AskTvdb(t) PROVE RequestInv'
  <2>1. RequestTypes'
    BY <1>1 DEF Requests!AskTvdb
  <2>2. SecondAttempts'
    BY <1>1 DEF Requests!AskTvdb, SecondAttempts
  <2> QED
    BY <2>1, <2>2
<1>2. ASSUME NEW t \in Threads, Requests!AskTmdb(t) PROVE RequestInv'
  <2>1. RequestTypes'
    BY <1>2 DEF Requests!AskTmdb
  <2>2. SecondAttempts'
    BY <1>2 DEF Requests!AskTmdb, SecondAttempts
  <2> QED
    BY <2>1, <2>2
<1>3. ASSUME NEW t \in Threads, Requests!EnsureToken(t) PROVE RequestInv'
  <2>1. RequestTypes'
    BY <1>3 DEF Requests!EnsureToken
  <2>2. SecondAttempts'
    BY <1>3 DEF Requests!EnsureToken, SecondAttempts
  <2> QED
    BY <2>1, <2>2
<1>4. ASSUME NEW t \in Threads, Requests!Login(t) PROVE RequestInv'
  <2>1. RequestTypes'
    BY <1>4 DEF Requests!Login
  <2>2. SecondAttempts'
    BY <1>4 DEF Requests!Login, SecondAttempts
  <2> QED
    BY <2>1, <2>2
<1>5. ASSUME NEW t \in Threads, Requests!GetTvdb(t) PROVE RequestInv'
  <2>1. RequestTypes'
    BY <1>5 DEF Requests!GetTvdb, Requests!WaitAgain
  <2>2. SecondAttempts'
    BY <1>5 DEF Requests!GetTvdb, Requests!WaitAgain, SecondAttempts
  <2> QED
    BY <2>1, <2>2
<1>6. ASSUME NEW t \in Threads, Requests!DropToken(t) PROVE RequestInv'
  <2>0. request[t] \in TvdbCalls
    BY <1>6 DEF Requests!DropToken
  <2>1. RequestTypes'
    <3>1. [request[t] EXCEPT !.pc = "ensure", !.attempt = 2] \in TvdbCalls
      BY <2>0
    <3>2. request' = [request EXCEPT ![t] = [@ EXCEPT !.pc = "ensure", !.attempt = 2]]
      BY <1>6 DEF Requests!DropToken
    <3> HIDE DEF TvdbCalls, TmdbCalls, Requests!Quiet
    <3> QED
      BY <1>6, <3>1, <3>2 DEF Requests!DropToken
  <2>2. SecondAttempts'
    BY <1>6 DEF Requests!DropToken, SecondAttempts
  <2> QED
    BY <2>1, <2>2
<1>7. ASSUME NEW t \in Threads, Requests!GetTmdb(t) PROVE RequestInv'
  <2>1. RequestTypes'
    BY <1>7 DEF Requests!GetTmdb
  <2>2. SecondAttempts'
    BY <1>7 DEF Requests!GetTmdb, SecondAttempts
  <2> QED
    BY <2>1, <2>2
<1>8. CASE Requests!Expire
  <2>1. RequestTypes'
    BY <1>8 DEF Requests!Expire
  <2>2. SecondAttempts'
    BY <1>8 DEF Requests!Expire, SecondAttempts
  <2> QED
    BY <2>1, <2>2
<1>9. CASE Requests!Refill
  BY <1>9 DEF Requests!Refill, SecondAttempts
<1> QED
  BY <1>1, <1>2, <1>3, <1>4, <1>5, <1>6, <1>7, <1>8, <1>9
     DEF Requests!RequestsNext, Requests!ThreadStep

(***************************************************************************)
(* The probing of tracks.                                                  *)
(***************************************************************************)
ProbePcs == {"check", "enrichCached", "enter", "wait", "probe", "enrich", "store", "publish",
             "signal", "returned"}
ProbeResults == {"none", "failed", "raised", "plain", "enriched"}
ProbeCalls == [pc : ProbePcs, key : Probes!Keys, ffprobe : BOOLEAN, owner : BOOLEAN,
               slot : Probers \cup {Nobody}, result : ProbeResults]
CacheEntries == [key : Probes!Keys, result : ProbeResults]

ProbeTypes ==
    /\ version \in [Videos -> 1 .. MaxVersions]
    /\ cache \in Seq(CacheEntries)
    /\ inflight \in [Probes!Keys -> Probers \cup {Nobody}]
    /\ call \in [Probers -> ProbeCalls \cup {Probes!Idle}]
    /\ calls \in [Probers -> Nat]

\* Only Enter makes a worker the owner of a slot, or lets it wait for one.
OwnersEntered ==
    \A w \in Probers :
       /\ call[w].pc \in {"check", "enrichCached", "enter", "wait"} => ~call[w].owner
       /\ call[w].pc = "publish" => call[w].owner
       /\ call[w].pc = "wait" => call[w].slot \in Probers

ProbeInv == ProbeTypes /\ OwnersEntered /\ Probes!SlotsAreLive /\ Probes!CacheHoldsOnePerKey

LEMMA ProbesStart == Probes!ProbeInit => ProbeInv
<1> SUFFICES ASSUME Probes!ProbeInit PROVE ProbeInv
  OBVIOUS
<1> USE MetadataAssumption DEF Probes!ProbeInit, Probes!Idle
<1>1. cache \in Seq(CacheEntries) /\ Len(cache) = 0
  OBVIOUS
<1>2. ProbeTypes
  BY <1>1 DEF ProbeTypes
<1>3. OwnersEntered /\ Probes!SlotsAreLive
  BY DEF OwnersEntered, Probes!SlotsAreLive
<1>4. Probes!CacheHoldsOnePerKey
  BY <1>1 DEF Probes!CacheHoldsOnePerKey
<1> QED
  BY <1>2, <1>3, <1>4 DEF ProbeInv

LEMMA OnePerPosition ==
    ASSUME NEW s \in Seq(CacheEntries)
    PROVE  (\A i, j \in DOMAIN s : s[i].key = s[j].key => i = j)
              <=> \A i, j \in 1 .. Len(s) : s[i].key = s[j].key => i = j
OBVIOUS

\* The cache with a result in it stays within its bound and keeps one per key.
LEMMA StoredOnce ==
    ASSUME cache \in Seq(CacheEntries), Probes!CacheHoldsOnePerKey,
           NEW k \in Probes!Keys, NEW r \in ProbeResults,
           cache' = Probes!Stored(k, r)
    PROVE  cache' \in Seq(CacheEntries) /\ Probes!CacheHoldsOnePerKey'
<1> DEFINE rest == IF Len(cache) < CacheMax THEN cache
                   ELSE SubSeq(cache, Len(cache) - CacheMax + 2, Len(cache))
           at == {i \in DOMAIN rest : rest[i].key = k}
           new == [key |-> k, result |-> r]
<1>0. new \in CacheEntries
  BY DEF CacheEntries
<1>1. /\ rest \in Seq(CacheEntries) /\ Len(rest) < CacheMax
      /\ \A i, j \in 1 .. Len(rest) : rest[i].key = rest[j].key => i = j
  <2>0. /\ Len(cache) \in Nat /\ Len(cache) <= CacheMax
        /\ \A i, j \in 1 .. Len(cache) : cache[i].key = cache[j].key => i = j
    BY OnePerPosition DEF Probes!CacheHoldsOnePerKey
  <2>1. CASE Len(cache) < CacheMax
    BY <2>0, <2>1
  <2>2. CASE ~(Len(cache) < CacheMax)
    <3> DEFINE m == Len(cache) - CacheMax + 2
    <3>1. Len(cache) = CacheMax /\ m = 2
      BY <2>0, <2>2, MetadataAssumption
    <3>2. rest = SubSeq(cache, 2, Len(cache))
      BY <2>2, <3>1
    <3>3. /\ rest \in Seq(CacheEntries) /\ Len(rest) = Len(cache) - 1
          /\ \A i \in 1 .. Len(rest) : rest[i] = cache[i + 1]
      BY <3>1, <3>2, MetadataAssumption, SubSeqProperties
    <3> HIDE DEF rest
    <3>4. ASSUME NEW i \in 1 .. Len(rest), NEW j \in 1 .. Len(rest), rest[i].key = rest[j].key
          PROVE  i = j
      <4>1. /\ i + 1 \in 1 .. Len(cache) /\ j + 1 \in 1 .. Len(cache)
            /\ rest[i] = cache[i + 1] /\ rest[j] = cache[j + 1]
        BY <2>0, <3>3
      <4>2. i + 1 = j + 1
        BY <2>0, <3>4, <4>1
      <4> QED
        BY <4>2
    <3> QED
      BY <2>0, <3>1, <3>3, <3>4, MetadataAssumption
  <2> HIDE DEF rest
  <2> QED
    BY <2>1, <2>2
<1>2. cache' = IF at = {} THEN Append(rest, new)
               ELSE [i \in DOMAIN rest |-> IF i \in at THEN new ELSE rest[i]]
  BY DEF Probes!Stored
<1> HIDE DEF rest, new
<1>3. CASE at = {}
  <2>1. cache' = Append(rest, new)
    BY <1>2, <1>3
  <2>2. \A i \in 1 .. Len(rest) : rest[i].key # k
    BY <1>1, <1>3
  <2>3. new.key = k
    BY DEF new
  <2>4. /\ cache' \in Seq(CacheEntries) /\ Len(cache') = Len(rest) + 1
        /\ \A i \in 1 .. Len(rest) : cache'[i] = rest[i]
        /\ cache'[Len(rest) + 1] = new
    BY <1>0, <1>1, <2>1, AppendProperties
  <2>5. ASSUME NEW i \in 1 .. Len(cache'), NEW j \in 1 .. Len(cache'),
               cache'[i].key = cache'[j].key
        PROVE  i = j
    <3>0. Len(rest) \in Nat
      BY <1>1
    <3>1. /\ i \in 1 .. Len(rest) \/ i = Len(rest) + 1
          /\ j \in 1 .. Len(rest) \/ j = Len(rest) + 1
      BY <2>4, <3>0
    <3>2. CASE i \in 1 .. Len(rest) /\ j \in 1 .. Len(rest)
      BY <1>1, <2>4, <2>5, <3>2
    <3>3. CASE i \in 1 .. Len(rest) /\ j = Len(rest) + 1
      <4>1. rest[i].key = new.key
        BY <2>4, <2>5, <3>3
      <4> QED
        BY <2>2, <2>3, <3>3, <4>1
    <3>4. CASE i = Len(rest) + 1 /\ j \in 1 .. Len(rest)
      <4>1. rest[j].key = new.key
        BY <2>4, <2>5, <3>4
      <4> QED
        BY <2>2, <2>3, <3>4, <4>1
    <3> QED
      BY <3>1, <3>2, <3>3, <3>4
  <2>6. Len(cache') <= CacheMax
    BY <1>1, <2>4, MetadataAssumption
  <2>7. \A i, j \in DOMAIN cache' : cache'[i].key = cache'[j].key => i = j
    BY <2>4, <2>5
  <2> QED
    BY <2>4, <2>6, <2>7 DEF Probes!CacheHoldsOnePerKey
<1>4. CASE at # {}
  <2>0. DOMAIN rest = 1 .. Len(rest)
    BY <1>1
  <2>1. cache' = [i \in 1 .. Len(rest) |-> IF i \in at THEN new ELSE rest[i]]
    BY <1>2, <1>4, <2>0, Zenon
  <2>2. cache' \in Seq(CacheEntries) /\ Len(cache') = Len(rest)
    BY <1>0, <1>1, <2>1
  <2>3. \A i \in 1 .. Len(rest) : cache'[i].key = rest[i].key
    BY <1>1, <2>0, <2>1 DEF new
  <2>4. \A i, j \in 1 .. Len(cache') : cache'[i].key = cache'[j].key => i = j
    BY <1>1, <2>2, <2>3
  <2>5. DOMAIN cache' = 1 .. Len(cache')
    BY <2>2
  <2>6. Len(cache') <= CacheMax
    BY <1>1, <2>2, MetadataAssumption
  <2>7. \A i, j \in DOMAIN cache' : cache'[i].key = cache'[j].key => i = j
    BY <2>4, <2>5, Zenon
  <2> QED
    BY <2>2, <2>6, <2>7 DEF Probes!CacheHoldsOnePerKey
<1> QED
  BY <1>3, <1>4

Probing == {"probe", "enrich", "store", "publish"}

\* A worker goes on without taking a slot or leaving one.
LEMMA WorkerMoves ==
    ASSUME ProbeTypes, OwnersEntered, Probes!SlotsAreLive, NEW w \in Probers,
           NEW new \in ProbeCalls, call[w] \in ProbeCalls,
           call' = [call EXCEPT ![w] = new], UNCHANGED inflight,
           new.key = call[w].key, new.owner = call[w].owner,
           new.owner => (call[w].pc \in Probing <=> new.pc \in Probing),
           new.pc \in {"check", "enrichCached", "enter", "wait"} => ~new.owner,
           new.pc # "wait", new.pc = "publish" => new.owner
    PROVE  /\ call' \in [Probers -> ProbeCalls \cup {Probes!Idle}]
           /\ OwnersEntered' /\ Probes!SlotsAreLive'
<1>1. call' \in [Probers -> ProbeCalls \cup {Probes!Idle}]
  BY DEF ProbeTypes
<1>2. OwnersEntered'
  BY DEF ProbeTypes, OwnersEntered
<1>3. Probes!SlotsAreLive'
  BY DEF ProbeTypes, Probes!SlotsAreLive, Probing
<1> QED
  BY <1>1, <1>2, <1>3

\* A step and the end of a call, as one change of the worker's call.
LEMMA CallChanges ==
    ASSUME ProbeTypes, NEW w \in Probers, call[w] \in ProbeCalls
    PROVE  /\ \A pc \in ProbePcs : [call[w] EXCEPT !.pc = pc] \in ProbeCalls
           /\ \A pc \in ProbePcs, r \in ProbeResults :
                 /\ [call[w] EXCEPT !.pc = pc, !.result = r] \in ProbeCalls
                 /\ [call EXCEPT ![w].pc = pc, ![w].result = r]
                      = [call EXCEPT ![w] = [call[w] EXCEPT !.pc = pc, !.result = r]]
BY DEF ProbeTypes, ProbeCalls

\* A worker that waited comes back with a result, or probes on its own.
LEMMA WokenGoes ==
    ASSUME NEW c \in ProbeCalls, NEW r \in ProbeResults
    PROVE  /\ Probes!Woken(c, r) \in ProbeCalls
           /\ Probes!Woken(c, r).key = c.key /\ Probes!Woken(c, r).owner = c.owner
           /\ Probes!Woken(c, r).pc \in {"returned", "probe"}
BY DEF Probes!Woken, ProbeCalls, ProbePcs

LEMMA ProbesStep ==
    ASSUME ProbeInv, Probes!ProbeNext
    PROVE  ProbeInv'
<1> USE DEF ProbeInv
<1>0. ASSUME NEW w \in Probers, call[w].pc # "idle" PROVE call[w] \in ProbeCalls
  BY <1>0 DEF ProbeTypes, Probes!Idle
<1>a. ASSUME UNCHANGED cache PROVE Probes!CacheHoldsOnePerKey'
  BY <1>a DEF Probes!CacheHoldsOnePerKey
<1>b. ASSUME NEW w \in Probers, call[w] \in ProbeCalls, NEW new \in ProbeCalls,
             call' = [call EXCEPT ![w] = new], UNCHANGED <<version, inflight, calls>>,
             cache' \in Seq(CacheEntries), Probes!CacheHoldsOnePerKey',
             new.key = call[w].key, new.owner = call[w].owner,
             new.owner => (call[w].pc \in Probing <=> new.pc \in Probing),
             new.pc \in {"check", "enrichCached", "enter", "wait"} => ~new.owner,
             new.pc # "wait", new.pc = "publish" => new.owner
      PROVE  ProbeInv'
  <2>1. /\ call' \in [Probers -> ProbeCalls \cup {Probes!Idle}]
        /\ OwnersEntered' /\ Probes!SlotsAreLive'
    BY <1>b, WorkerMoves
  <2> QED
    BY <1>b, <2>1 DEF ProbeTypes
<1>c. ASSUME UNCHANGED cache
      PROVE  cache' \in Seq(CacheEntries) /\ Probes!CacheHoldsOnePerKey'
  BY <1>a, <1>c DEF ProbeTypes
<1>d. ASSUME NEW w \in Probers, NEW from, NEW pc \in ProbePcs, call[w].pc = from, from # "idle",
             Probes!Step(w, pc), UNCHANGED <<version, cache, inflight, calls>>,
             call[w].owner => (from \in Probing <=> pc \in Probing),
             pc \in {"check", "enrichCached", "enter", "wait"} => ~call[w].owner, pc # "wait",
             pc = "publish" => call[w].owner
      PROVE  ProbeInv'
  <2>1. call[w] \in ProbeCalls
    BY <1>0, <1>d
  <2> DEFINE new == [call[w] EXCEPT !.pc = pc]
  <2>2. new \in ProbeCalls
    BY <2>1, CallChanges
  <2>3. new.key = call[w].key /\ new.owner = call[w].owner /\ new.pc = pc
    BY <2>1 DEF ProbeCalls
  <2>4. call' = [call EXCEPT ![w] = new]
    BY <1>d DEF Probes!Step
  <2>5. cache' \in Seq(CacheEntries) /\ Probes!CacheHoldsOnePerKey'
    BY <1>c, <1>d
  <2> HIDE DEF new
  <2> QED
    BY <1>b, <1>d, <2>1, <2>2, <2>3, <2>4, <2>5
<1>e. ASSUME NEW w \in Probers, NEW from, NEW pc \in ProbePcs, NEW r \in ProbeResults,
             call[w].pc = from, from # "idle",
             call' = [call EXCEPT ![w].pc = pc, ![w].result = r],
             UNCHANGED <<version, inflight, calls>>,
             cache' \in Seq(CacheEntries), Probes!CacheHoldsOnePerKey',
             call[w].owner => (from \in Probing <=> pc \in Probing),
             pc \notin {"check", "enrichCached", "enter", "wait"},
             pc = "publish" => call[w].owner
      PROVE  ProbeInv'
  <2>1. call[w] \in ProbeCalls
    BY <1>0, <1>e
  <2> DEFINE new == [call[w] EXCEPT !.pc = pc, !.result = r]
  <2>2. new \in ProbeCalls /\ call' = [call EXCEPT ![w] = new]
    BY <1>e, <2>1, CallChanges
  <2>3. new.key = call[w].key /\ new.owner = call[w].owner /\ new.pc = pc
    BY <2>1 DEF ProbeCalls
  <2> HIDE DEF new
  <2> QED
    BY <1>b, <1>e, <2>1, <2>2, <2>3
<1>1. ASSUME NEW w \in Probers, Probes!Ask(w) PROVE ProbeInv'
  <2> PICK v \in Videos, b \in BOOLEAN :
          call' = [call EXCEPT ![w] = [pc |-> "check", key |-> <<v, version[v]>>,
                                       ffprobe |-> b, owner |-> FALSE,
                                       slot |-> Nobody, result |-> "none"]]
    BY <1>1 DEF Probes!Ask
  <2>1. ProbeTypes'
    BY <1>1 DEF ProbeTypes, Probes!Ask, ProbeCalls, ProbePcs, ProbeResults, Probes!Keys
  <2>2. OwnersEntered' /\ Probes!SlotsAreLive'
    BY <1>1 DEF ProbeTypes, Probes!Ask, OwnersEntered, Probes!SlotsAreLive
  <2> QED
    BY <1>1, <1>a, <2>1, <2>2 DEF Probes!Ask
<1>2. ASSUME NEW w \in Probers, Probes!Check(w) PROVE ProbeInv'
  <2> DEFINE hit == Probes!CachedResult(call[w].key)
  <2>0. call[w].pc = "check" /\ ~call[w].owner /\ UNCHANGED <<version, cache, inflight, calls>>
    BY <1>2 DEF Probes!Check, OwnersEntered
  <2>1. hit \subseteq ProbeResults
    <3>1. \A i \in DOMAIN cache : cache[i] \in CacheEntries
      BY DEF ProbeTypes
    <3>2. \A i \in DOMAIN cache : cache[i].result \in ProbeResults
      BY <3>1 DEF CacheEntries
    <3> QED
      BY <3>2 DEF Probes!CachedResult
  <2>2. \/ Probes!Step(w, "enter") \/ Probes!Step(w, "enrichCached")
        \/ hit # {} /\ Probes!Return(w, CHOOSE r \in hit : TRUE)
    BY <1>2 DEF Probes!Check
  <2> HIDE DEF hit
  <2>3. CASE Probes!Step(w, "enter") \/ Probes!Step(w, "enrichCached")
    BY <1>d, <2>0, <2>3 DEF ProbePcs
  <2>4. CASE hit # {} /\ Probes!Return(w, CHOOSE r \in hit : TRUE)
    <3>1. (CHOOSE r \in hit : TRUE) \in ProbeResults
      BY <2>1, <2>4
    <3>2. "returned" \in ProbePcs
      BY DEF ProbePcs
    <3> QED
      BY <1>c, <1>e, <2>0, <2>4, <3>1, <3>2 DEF Probes!Return
  <2> QED
    BY <2>2, <2>3, <2>4
<1>3. ASSUME NEW w \in Probers, Probes!EnrichCached(w) PROVE ProbeInv'
  <2>0. call[w].pc = "enrichCached" /\ ~call[w].owner /\ UNCHANGED <<version, inflight, calls>>
    BY <1>3 DEF Probes!EnrichCached, OwnersEntered
  <2>1. PICK r \in {"plain", "enriched"} :
          /\ cache' = [i \in DOMAIN cache |->
                          IF cache[i].key = call[w].key /\ r = "enriched"
                          THEN [cache[i] EXCEPT !.result = "enriched"] ELSE cache[i]]
          /\ Probes!Return(w, r)
    BY <1>3 DEF Probes!EnrichCached
  <2>2. cache' \in Seq(CacheEntries) /\ Probes!CacheHoldsOnePerKey'
    <3>0. cache \in Seq(CacheEntries) /\ DOMAIN cache = 1 .. Len(cache)
      BY DEF ProbeTypes
    <3>1. cache' = [i \in 1 .. Len(cache) |->
                          IF cache[i].key = call[w].key /\ r = "enriched"
                          THEN [cache[i] EXCEPT !.result = "enriched"] ELSE cache[i]]
      BY <2>1, <3>0, Zenon
    <3>2. \A i \in 1 .. Len(cache) : cache'[i] \in CacheEntries /\ cache'[i].key = cache[i].key
      <4> SUFFICES ASSUME NEW i \in 1 .. Len(cache)
                   PROVE  cache'[i] \in CacheEntries /\ cache'[i].key = cache[i].key
        OBVIOUS
      <4>1. cache[i] \in CacheEntries
        BY <3>0
      <4>2. /\ [cache[i] EXCEPT !.result = "enriched"] \in CacheEntries
            /\ [cache[i] EXCEPT !.result = "enriched"].key = cache[i].key
        BY <4>1 DEF CacheEntries, ProbeResults
      <4>3. cache'[i] = cache[i] \/ cache'[i] = [cache[i] EXCEPT !.result = "enriched"]
        BY <3>1
      <4> QED
        BY <4>1, <4>2, <4>3
    <3>3. cache' \in Seq(CacheEntries) /\ Len(cache') = Len(cache)
      BY <3>0, <3>1, <3>2
    <3>4. \A i, j \in 1 .. Len(cache) : cache'[i].key = cache'[j].key => i = j
      BY <3>0, <3>2 DEF Probes!CacheHoldsOnePerKey
    <3> QED
      BY <3>0, <3>3, <3>4 DEF Probes!CacheHoldsOnePerKey
  <2> QED
    BY <1>e, <2>0, <2>1, <2>2 DEF Probes!Return, ProbePcs, ProbeResults
<1>4. ASSUME NEW w \in Probers, Probes!Enter(w) PROVE ProbeInv'
  <2> DEFINE k == call[w].key
  <2>0. call[w] \in ProbeCalls /\ ~call[w].owner /\ k \in Probes!Keys
    BY <1>0, <1>4 DEF Probes!Enter, OwnersEntered, ProbeCalls
  <2>1. CASE inflight[k] = Nobody
    <3>1. /\ inflight' = [inflight EXCEPT ![k] = w]
          /\ call' = [call EXCEPT ![w] = [call[w] EXCEPT !.pc = "probe", !.owner = TRUE]]
      BY <1>4, <2>0, <2>1 DEF Probes!Enter, ProbeTypes
    <3>2. [call[w] EXCEPT !.pc = "probe", !.owner = TRUE] \in ProbeCalls
      BY <2>0 DEF ProbeCalls, ProbePcs
    <3>3. ProbeTypes'
      BY <1>4, <2>0, <3>1, <3>2 DEF Probes!Enter, ProbeTypes
    <3>4. \A x \in Probers : x # w => call'[x] = call[x]
      BY <3>1 DEF ProbeTypes
    <3>5. call'[w].pc = "probe" /\ call'[w].owner /\ call'[w].key = k
      BY <2>0, <3>1 DEF ProbeTypes, ProbeCalls
    <3>6. OwnersEntered'
      BY <3>4, <3>5 DEF OwnersEntered
    <3>7. Probes!SlotsAreLive'
      <4>1. \A x \in Probes!Keys : inflight[x] # w
        BY <1>4, MetadataAssumption DEF Probes!Enter, Probes!SlotsAreLive
      <4> HIDE DEF k
      <4>2. ASSUME NEW x \in Probes!Keys, inflight'[x] # Nobody
            PROVE  LET c == call'[inflight'[x]]
                   IN  c.pc \in {"probe", "enrich", "store", "publish"} /\ c.owner /\ c.key = x
        BY <2>0, <3>1, <3>4, <3>5, <4>1, <4>2 DEF Probes!SlotsAreLive, ProbeTypes
      <4>3. ASSUME NEW x \in Probers, call'[x].pc \in Probing, call'[x].owner
            PROVE  inflight'[call'[x].key] = x
        <5>1. CASE x = w
          BY <2>0, <3>1, <3>5, <5>1 DEF ProbeTypes
        <5>2. CASE x # w
          <6>1. inflight[call[x].key] = x
            BY <3>4, <4>3, <5>2 DEF Probes!SlotsAreLive, Probing
          <6>2. call[x].key # k
            BY <2>1, <6>1, MetadataAssumption DEF k
          <6> QED
            BY <2>0, <3>1, <3>4, <5>2, <6>1, <6>2 DEF ProbeTypes
        <5> QED
          BY <5>1, <5>2
      <4> QED
        BY <4>2, <4>3 DEF Probes!SlotsAreLive, Probing
    <3> QED
      BY <1>4, <1>a, <3>3, <3>6, <3>7 DEF Probes!Enter
  <2>2. CASE inflight[k] # Nobody
    <3>1. call' = [call EXCEPT ![w] = [call[w] EXCEPT !.pc = "wait", !.slot = inflight[k]]]
      BY <1>4, <2>0, <2>2 DEF Probes!Enter, ProbeTypes
    <3>2. inflight[k] \in Probers
      BY <2>0, <2>2 DEF ProbeTypes
    <3>3. [call[w] EXCEPT !.pc = "wait", !.slot = inflight[k]] \in ProbeCalls
      BY <2>0, <3>2 DEF ProbeCalls, ProbePcs
    <3>4. ProbeTypes'
      BY <1>4, <2>2, <3>1, <3>3 DEF Probes!Enter, ProbeTypes
    <3>5. \A x \in Probers : x # w => call'[x] = call[x]
      BY <3>1 DEF ProbeTypes
    <3>6. call'[w].pc = "wait" /\ ~call'[w].owner /\ call'[w].slot \in Probers
      BY <2>0, <3>1, <3>2 DEF ProbeTypes, ProbeCalls
    <3>7. OwnersEntered'
      BY <3>5, <3>6 DEF OwnersEntered
    <3>8. Probes!SlotsAreLive'
      <4>1. UNCHANGED inflight /\ call[w].pc = "enter"
        BY <1>4, <2>2 DEF Probes!Enter
      <4>2. \A x \in Probes!Keys : inflight[x] \in Probers \cup {Nobody} /\ inflight[x] # w
        BY <4>1, MetadataAssumption DEF Probes!SlotsAreLive, ProbeTypes
      <4> HIDE DEF k
      <4> QED
        BY <3>5, <3>6, <4>1, <4>2 DEF Probes!SlotsAreLive
    <3> QED
      BY <1>4, <1>a, <2>2, <3>4, <3>7, <3>8 DEF Probes!Enter
  <2> QED
    BY <2>1, <2>2
<1>5. ASSUME NEW w \in Probers, Probes!Probe(w) PROVE ProbeInv'
  <2>0. call[w].pc = "probe" /\ UNCHANGED <<version, cache, inflight, calls>>
    BY <1>5 DEF Probes!Probe
  <2>1. PICK pc \in {"publish", "returned", "enrich", "store"}, r \in {"failed", "raised", "plain"} :
          /\ call' = [call EXCEPT ![w].pc = pc, ![w].result = r]
          /\ call[w].owner => pc # "returned"
          /\ pc = "publish" => call[w].owner
    BY <1>5 DEF Probes!Probe
  <2>2. pc \in ProbePcs /\ r \in ProbeResults
    BY DEF ProbePcs, ProbeResults
  <2> QED
    BY <1>c, <1>e, <2>0, <2>1, <2>2 DEF Probing
<1>6. ASSUME NEW w \in Probers, Probes!Enrich(w) PROVE ProbeInv'
  <2>0. call[w].pc = "enrich" /\ UNCHANGED <<version, cache, inflight, calls>>
    BY <1>6 DEF Probes!Enrich
  <2>1. PICK r \in {"plain", "enriched"} :
          call' = [call EXCEPT ![w].pc = "store", ![w].result = r]
    BY <1>6 DEF Probes!Enrich
  <2>2. "store" \in ProbePcs /\ r \in ProbeResults
    BY DEF ProbePcs, ProbeResults
  <2> QED
    BY <1>c, <1>e, <2>0, <2>1, <2>2 DEF Probing
<1>7. ASSUME NEW w \in Probers, Probes!Store(w) PROVE ProbeInv'
  <2>0. call[w] \in ProbeCalls
    BY <1>0, <1>7 DEF Probes!Store
  <2>1. cache' \in Seq(CacheEntries) /\ Probes!CacheHoldsOnePerKey'
    <3>1. call[w].key \in Probes!Keys /\ call[w].result \in ProbeResults
      BY <2>0 DEF ProbeCalls
    <3> QED
      BY <1>7, <3>1, StoredOnce DEF Probes!Store, ProbeTypes
  <2>2. PICK pc \in {"publish", "returned"} :
          Probes!Step(w, pc) /\ (call[w].owner <=> pc = "publish")
    BY <1>7 DEF Probes!Store
  <2> DEFINE new == [call[w] EXCEPT !.pc = pc]
  <2>3. new \in ProbeCalls
    BY <2>0, CallChanges DEF ProbePcs
  <2>4. new.key = call[w].key /\ new.owner = call[w].owner /\ new.pc = pc
    BY <2>0 DEF ProbeCalls
  <2>5. call' = [call EXCEPT ![w] = new]
    BY <2>2 DEF Probes!Step
  <2>6. call[w].pc = "store" /\ UNCHANGED <<version, inflight, calls>>
    BY <1>7 DEF Probes!Store
  <2> HIDE DEF new
  <2> QED
    BY <1>b, <2>0, <2>1, <2>2, <2>3, <2>4, <2>5, <2>6 DEF Probing
<1>8. ASSUME NEW w \in Probers, Probes!Publish(w) PROVE ProbeInv'
  <2> DEFINE k == call[w].key
  <2>0. call[w] \in ProbeCalls /\ k \in Probes!Keys
    BY <1>0, <1>8 DEF Probes!Publish, ProbeCalls
  <2>1. /\ call' = [call EXCEPT ![w] = [call[w] EXCEPT !.pc = "signal"]]
        /\ inflight' = [inflight EXCEPT ![k] = Nobody]
    BY <1>8 DEF Probes!Publish, Probes!Step
  <2>2. ProbeTypes'
    <3>1. [call[w] EXCEPT !.pc = "signal"] \in ProbeCalls
      BY <2>0, CallChanges DEF ProbePcs
    <3> QED
      BY <1>8, <2>0, <2>1, <3>1 DEF Probes!Publish, ProbeTypes
  <2>3. \A x \in Probers : x # w => call'[x] = call[x]
    BY <2>1 DEF ProbeTypes
  <2>4. call'[w].pc = "signal"
    BY <2>0, <2>1 DEF ProbeTypes, ProbeCalls
  <2>5. OwnersEntered'
    BY <2>3, <2>4 DEF OwnersEntered
  <2>6. Probes!SlotsAreLive'
    <3>1. \A x \in Probes!Keys : inflight[x] = w => x = k
      BY <1>8, MetadataAssumption DEF Probes!SlotsAreLive, k
    <3>2. call[w].owner => inflight[k] = w
      BY <1>8 DEF Probes!SlotsAreLive, Probes!Publish
    <3>3. \A x \in Probes!Keys : inflight'[x] = IF x = k THEN Nobody ELSE inflight[x]
      BY <2>1 DEF ProbeTypes
    <3>4. call[w].owner
      BY <1>8 DEF OwnersEntered, Probes!Publish
    <3> HIDE DEF k
    <3>5. ASSUME NEW x \in Probers, x # w, call[x].pc \in Probing, call[x].owner
          PROVE  inflight'[call[x].key] = x
      <4>1. inflight[call[x].key] = x /\ call[x].key \in Probes!Keys
        BY <1>0, <3>5 DEF Probes!SlotsAreLive, Probing, ProbeCalls
      <4> QED
        BY <3>2, <3>3, <3>4, <3>5, <4>1
    <3> QED
      BY <2>3, <2>4, <3>1, <3>3, <3>5 DEF Probes!SlotsAreLive, Probing, ProbeTypes
  <2> QED
    BY <1>8, <1>a, <2>2, <2>5, <2>6 DEF Probes!Publish
<1>9. ASSUME NEW w \in Probers, Probes!Signal(w) PROVE ProbeInv'
  <2>0. call[w] \in ProbeCalls /\ UNCHANGED <<version, cache, inflight, calls>>
    BY <1>0, <1>9 DEF Probes!Signal
  <2>1. ASSUME NEW u \in Probers
        PROVE  call'[u] = call[u] \/ /\ call[u].pc \in {"wait", "signal"}
                                     /\ call[u].pc = "wait" => ~call'[u].owner
                                     /\ call'[u].pc \in {"returned", "probe"}
                                     /\ call'[u].pc = "probe" => call[u].pc = "wait"
                                     /\ call'[u] \in ProbeCalls
    <3>1. CASE u = w
      <4>1. call'[u] = [call[w] EXCEPT !.pc = "returned"] /\ call[w].pc = "signal"
        BY <1>9, <3>1 DEF Probes!Signal
      <4> QED
        BY <2>0, <3>1, <4>1 DEF ProbeCalls, ProbePcs
    <3>2. CASE u # w /\ call[u].pc = "wait" /\ call[u].slot = w /\ call[u].key = call[w].key
      <4>1. call'[u] = Probes!Woken(call[u], call[w].result)
        BY <1>9, <3>2 DEF Probes!Signal
      <4>2. call[u] \in ProbeCalls /\ ~call[u].owner
        BY <1>0, <3>2 DEF OwnersEntered
      <4>3. call[w].result \in ProbeResults
        BY <2>0 DEF ProbeCalls
      <4> QED
        BY <3>2, <4>1, <4>2, <4>3, WokenGoes
    <3>3. CASE /\ u # w
               /\ ~(call[u].pc = "wait" /\ call[u].slot = w /\ call[u].key = call[w].key)
      BY <1>9, <3>3, Zenon DEF Probes!Signal
    <3> QED
      BY <3>1, <3>2, <3>3
  <2>2. ProbeTypes'
    <3>1. call' = [u \in Probers |-> call'[u]]
      BY <1>9 DEF Probes!Signal
    <3>2. \A u \in Probers : call'[u] \in ProbeCalls \cup {Probes!Idle}
      BY <2>1 DEF ProbeTypes
    <3> QED
      BY <2>0, <3>1, <3>2 DEF ProbeTypes
  <2>3. OwnersEntered'
    BY <2>1 DEF OwnersEntered
  <2>4. Probes!SlotsAreLive'
    <3>1. \A u \in Probers : /\ call[u].pc \in Probing => call'[u] = call[u]
                             /\ call'[u].pc \in Probing /\ call'[u].owner => call'[u] = call[u]
      BY <2>1 DEF Probing
    <3>2. \A x \in Probes!Keys : inflight[x] \in Probers \cup {Nobody}
      BY DEF ProbeTypes
    <3>3. ASSUME NEW x \in Probes!Keys, inflight[x] # Nobody
          PROVE  LET c == call'[inflight[x]]
                 IN  c.pc \in Probing /\ c.owner /\ c.key = x
      BY <3>1, <3>2, <3>3 DEF Probes!SlotsAreLive, Probing
    <3>4. ASSUME NEW u \in Probers, call'[u].pc \in Probing, call'[u].owner
          PROVE  inflight[call'[u].key] = u
      BY <3>1, <3>4 DEF Probes!SlotsAreLive, Probing
    <3> QED
      BY <2>0, <3>3, <3>4 DEF Probes!SlotsAreLive, Probing
  <2> QED
    BY <1>a, <2>0, <2>2, <2>3, <2>4
<1>10. ASSUME NEW w \in Probers, Probes!WaitEnds(w) PROVE ProbeInv'
  <2>0. /\ call[w].pc = "wait" /\ ~call[w].owner /\ call[w].slot \in Probers
        /\ UNCHANGED <<version, cache, inflight, calls>>
    BY <1>10 DEF Probes!WaitEnds, OwnersEntered
  <2>1. call[w] \in ProbeCalls /\ call[call[w].slot].result \in ProbeResults
    BY <1>0, <1>10, <2>0 DEF Probes!WaitEnds, ProbeCalls
  <2>2. \/ call' = [call EXCEPT ![w] = Probes!Woken(call[w], call[call[w].slot].result)]
        \/ Probes!Step(w, "probe")
    BY <1>10 DEF Probes!WaitEnds
  <2>3. CASE call' = [call EXCEPT ![w] = Probes!Woken(call[w], call[call[w].slot].result)]
    <3> DEFINE new == Probes!Woken(call[w], call[call[w].slot].result)
    <3>1. /\ new \in ProbeCalls /\ new.key = call[w].key /\ new.owner = call[w].owner
          /\ new.pc \in {"returned", "probe"}
      BY <2>1, WokenGoes
    <3> HIDE DEF new
    <3>2. call' = [call EXCEPT ![w] = new]
      BY <2>3 DEF new
    <3> QED
      BY <1>b, <1>c, <2>0, <2>1, <3>1, <3>2
  <2>4. CASE Probes!Step(w, "probe")
    BY <1>d, <2>0, <2>4 DEF ProbePcs
  <2> QED
    BY <2>2, <2>3, <2>4
<1>11. ASSUME NEW v \in Videos, Probes!Rewrite(v) PROVE ProbeInv'
  <2>1. ProbeTypes'
    BY <1>11, MetadataAssumption DEF ProbeTypes, Probes!Rewrite
  <2>2. OwnersEntered' /\ Probes!SlotsAreLive'
    BY <1>11 DEF Probes!Rewrite, OwnersEntered, Probes!SlotsAreLive
  <2> QED
    BY <1>11, <1>a, <2>1, <2>2 DEF Probes!Rewrite
<1> QED
  BY <1>1, <1>2, <1>3, <1>4, <1>5, <1>6, <1>7, <1>8, <1>9, <1>10, <1>11
     DEF Probes!ProbeNext, Probes!WorkerStep

(***************************************************************************)
(* The cache of a provider's answers.                                      *)
(***************************************************************************)
Rows == [value : Cache!Memories, expires : Nat, access : Nat]

CacheTypes ==
    /\ cleared \in 0 .. MaxClears /\ clock \in Nat
    /\ current \in Cache!Clients \cup {0} /\ held \in Cache!Clients \cup {0}
    /\ recalled \in [Cache!Clients -> Cache!Memories]
    /\ asking \in [Askers -> Cache!Requests \cup {Cache!Idle}]
    /\ stored \in [Cache!EntryNames -> Rows]
    /\ \A n \in Cache!EntryNames : stored[n].access <= clock

\* The answers of a memory were asked for after the last clear, or under way then.
Recent(m) == \A r \in Cache!Records : \A a \in m[r] : Cache!Outlived(a)

\* Besides the window's client, the rows hold nothing of before the last clear
\* either: a snapshot or a row would bring it back.
RowsAreRecent == \A n \in Cache!EntryNames : Recent(stored[n].value)

\* Nor will a request under way bring it.
RequestsAreRecent ==
    \A w \in Askers : asking[w].stage \in {"asked", "answered"} => Cache!Outlived(asking[w])

CacheInv == CacheTypes /\ RowsAreRecent /\ RequestsAreRecent /\ Cache!ClearedIsGone

LEMMA MemoryFacts ==
    /\ Cache!Nothing \in Cache!Memories /\ Recent(Cache!Nothing)
    /\ \A m \in Cache!Memories, r \in Cache!Records, a \in Cache!Answers :
            /\ [m EXCEPT ![r] = {a}] \in Cache!Memories
            /\ Recent(m) /\ Cache!Outlived(a) => Recent([m EXCEPT ![r] = {a}])
    /\ \A m, h \in Cache!Memories, r \in Cache!Records :
            /\ [m EXCEPT ![r] = h[r]] \in Cache!Memories
            /\ Recent(m) /\ Recent(h) => Recent([m EXCEPT ![r] = h[r]])
<1>1. Cache!Nothing \in Cache!Memories /\ Recent(Cache!Nothing)
  BY DEF Cache!Nothing, Cache!Memories, Recent
<1>2. ASSUME NEW m \in Cache!Memories, NEW r \in Cache!Records, NEW a \in Cache!Answers
      PROVE  /\ [m EXCEPT ![r] = {a}] \in Cache!Memories
             /\ Recent(m) /\ Cache!Outlived(a) => Recent([m EXCEPT ![r] = {a}])
  BY <1>2 DEF Cache!Memories, Recent
<1>3. ASSUME NEW m \in Cache!Memories, NEW h \in Cache!Memories, NEW r \in Cache!Records
      PROVE  /\ [m EXCEPT ![r] = h[r]] \in Cache!Memories
             /\ Recent(m) /\ Recent(h) => Recent([m EXCEPT ![r] = h[r]])
  BY DEF Cache!Memories, Recent
<1> QED
  BY <1>1, <1>2, <1>3

\* What a worker's request says: an answer of its own time, for a client or none.
LEMMA RequestFacts ==
    ASSUME CacheTypes, RequestsAreRecent, NEW w \in Askers,
           asking[w].stage \in {"asked", "answered"}
    PROVE  /\ asking[w] \in Cache!Requests
           /\ asking[w].client \in Cache!Clients \cup {0} /\ asking[w].record \in Cache!Records
           /\ \A full \in BOOLEAN : /\ Cache!Answer(asking[w], full) \in Cache!Answers
                                    /\ Cache!Outlived(Cache!Answer(asking[w], full))
<1>1. asking[w] \in Cache!Requests
  BY DEF CacheTypes, Cache!Idle
<1>2. /\ asking[w].client \in Cache!Clients \cup {0} /\ asking[w].record \in Cache!Records
      /\ asking[w].era \in 0 .. MaxClears /\ asking[w].late \in 0 .. MaxClears
      /\ asking[w].era = cleared \/ asking[w].late = cleared
  BY <1>1 DEF Cache!Requests, RequestsAreRecent, Cache!Outlived
<1> QED
  BY <1>1, <1>2 DEF Cache!Answer, Cache!Answers, Cache!Outlived

LEMMA CacheStarts == Cache!MetadataInit => CacheInv
<1> SUFFICES ASSUME Cache!MetadataInit PROVE CacheInv
  OBVIOUS
<1> USE DEF Cache!MetadataInit
<1>1. Cache!NoEntry \in Rows
  BY MemoryFacts DEF Cache!NoEntry, Rows
<1>2. CacheTypes
  BY <1>1, MemoryFacts, MetadataAssumption DEF CacheTypes, Cache!NoEntry
<1>3. RowsAreRecent
  BY MemoryFacts DEF RowsAreRecent, Cache!NoEntry
<1>4. RequestsAreRecent
  BY DEF RequestsAreRecent, Cache!Idle
<1> QED
  BY <1>2, <1>3, <1>4 DEF CacheInv, Cache!ClearedIsGone

\* What Put leaves of the rows: the new one, the old ones or none in their place.
LEMMA PutKeeps ==
    ASSUME CacheTypes, RowsAreRecent, NEW n \in Cache!EntryNames,
           NEW m \in Cache!Memories, Recent(m), NEW expires \in Nat,
           Cache!Put(n, Cache!Entry(m, expires))
    PROVE  /\ stored' \in [Cache!EntryNames -> Rows]
           /\ \A x \in Cache!EntryNames : Recent(stored'[x].value) /\ stored'[x].access <= clock
<1> DEFINE row == Cache!Entry(m, expires)
           db == [stored EXCEPT ![n] = row]
<1>1. row \in Rows /\ row.value = m /\ row.access = clock
  BY DEF Cache!Entry, Rows, CacheTypes
<1>2. Cache!NoEntry \in Rows /\ Cache!NoEntry.value = Cache!Nothing /\ Cache!NoEntry.access = 0
  BY MemoryFacts DEF Cache!NoEntry, Rows
<1>3. /\ db \in [Cache!EntryNames -> Rows]
      /\ \A x \in Cache!EntryNames : Recent(db[x].value) /\ db[x].access <= clock
  <2> HIDE DEF row
  <2> QED
    BY <1>1 DEF CacheTypes, RowsAreRecent
<1>4. stored' \in Cache!Pruned(db)
  BY DEF Cache!Put
<1> HIDE DEF db
<1>5. /\ stored' \in [Cache!EntryNames -> Rows]
      /\ \A x \in Cache!EntryNames : stored'[x] \in {db[x], Cache!NoEntry}
  <2>1. CASE stored' = db
    BY <1>3, <2>1
  <2>2. CASE \E gone \in SUBSET Cache!EntryNames :
               stored' = [x \in Cache!EntryNames |-> IF x \in gone THEN Cache!NoEntry ELSE db[x]]
    BY <1>2, <1>3, <2>2
  <2> QED
    BY <1>4, <2>1, <2>2 DEF Cache!Pruned
<1>6. Recent(Cache!Nothing) /\ clock \in Nat
  BY MemoryFacts DEF CacheTypes
<1> QED
  BY <1>2, <1>3, <1>5, <1>6

LEMMA TouchKeeps ==
    ASSUME CacheTypes, RowsAreRecent, NEW n \in Cache!EntryNames, Cache!Touch(n)
    PROVE  /\ stored' \in [Cache!EntryNames -> Rows]
           /\ \A x \in Cache!EntryNames : stored'[x].value = stored[x].value
                                          /\ stored'[x].access <= clock
<1>1. stored[n] \in Rows
  BY DEF CacheTypes
<1>2. /\ [stored[n] EXCEPT !.access = clock] \in Rows
      /\ [stored[n] EXCEPT !.access = clock].value = stored[n].value
      /\ [stored[n] EXCEPT !.access = clock].access = clock
  BY <1>1 DEF Rows, CacheTypes
<1> QED
  BY <1>2 DEF CacheTypes, Cache!Touch

\* A client that goes leaves the memories in their domain and the window's alone.
LEMMA DroppedKeeps ==
    ASSUME NEW gone, recalled \in [Cache!Clients -> Cache!Memories], Cache!Dropped(gone)
    PROVE  /\ recalled' \in [Cache!Clients -> Cache!Memories]
           /\ \A c \in Cache!Clients : c = current' => recalled'[c] = recalled[c]
BY MemoryFacts DEF Cache!Dropped

\* A client that goes leaves its requests without one.
LEMMA OrphansKeep ==
    ASSUME NEW gone, CacheTypes, RequestsAreRecent, UNCHANGED cleared,
           asking' = [w \in Askers |-> Cache!Orphaned(gone, asking[w])]
    PROVE  asking' \in [Askers -> Cache!Requests \cup {Cache!Idle}] /\ RequestsAreRecent'
<1>1. ASSUME NEW w \in Askers
      PROVE  /\ asking'[w] \in Cache!Requests \cup {Cache!Idle}
             /\ asking'[w].stage \in {"asked", "answered"} => Cache!Outlived(asking[w]')
  <2>1. asking'[w] = asking[w] \/ asking'[w] = [asking[w] EXCEPT !.client = 0]
    BY DEF Cache!Orphaned
  <2>2. asking[w] \in Cache!Requests \/ asking[w] = Cache!Idle
    BY DEF CacheTypes
  <2>3. CASE asking[w] = Cache!Idle
    BY <2>3 DEF Cache!Orphaned, Cache!Idle
  <2>4. CASE asking[w] \in Cache!Requests
    BY <2>1, <2>4 DEF Cache!Requests, RequestsAreRecent, Cache!Outlived
  <2> QED
    BY <2>2, <2>3, <2>4
<1>2. asking' \in [Askers -> Cache!Requests \cup {Cache!Idle}]
  <2> DEFINE new == [w \in Askers |-> Cache!Orphaned(gone, asking[w])]
  <2>1. \A w \in Askers : new[w] \in Cache!Requests \cup {Cache!Idle}
    BY <1>1
  <2> QED
    BY <2>1
<1>3. RequestsAreRecent'
  BY <1>1 DEF RequestsAreRecent, Cache!Outlived
<1> QED
  BY <1>2, <1>3

\* What a step leaves is all right when the rows and the requests are and the
\* window's client is.
LEMMA CacheKept ==
    ASSUME CacheTypes, UNCHANGED <<cleared, clock>>,
           current' \in Cache!Clients \cup {0}, held' \in Cache!Clients \cup {0},
           recalled' \in [Cache!Clients -> Cache!Memories],
           asking' \in [Askers -> Cache!Requests \cup {Cache!Idle}], RequestsAreRecent',
           stored' \in [Cache!EntryNames -> Rows],
           \A x \in Cache!EntryNames : Recent(stored'[x].value) /\ stored'[x].access <= clock,
           current' # 0 => Recent(recalled'[current'])
    PROVE  CacheInv'
BY DEF CacheInv, CacheTypes, RowsAreRecent, Cache!ClearedIsGone, Recent, Cache!Outlived

LEMMA CacheSteps ==
    ASSUME CacheInv, Cache!MetadataNext
    PROVE  CacheInv'
<1> USE DEF CacheInv
<1>a. /\ stored \in [Cache!EntryNames -> Rows] /\ recalled \in [Cache!Clients -> Cache!Memories]
      /\ asking \in [Askers -> Cache!Requests \cup {Cache!Idle}]
      /\ \A x \in Cache!EntryNames : Recent(stored[x].value) /\ stored[x].access <= clock
      /\ \A x \in Cache!EntryNames : stored[x].value \in Cache!Memories
      /\ current # 0 => current \in Cache!Clients /\ Recent(recalled[current])
                        /\ recalled[current] \in Cache!Memories
      /\ Cache!Never \in Nat /\ clock + Lifetime \in Nat
      /\ cleared \in 0 .. MaxClears
  BY MetadataAssumption
     DEF CacheTypes, RowsAreRecent, Rows, Recent, Cache!ClearedIsGone, Cache!Never
<1>n. Cache!Records \subseteq Cache!EntryNames /\ {"image", "snapshot"} \subseteq Cache!EntryNames
  BY DEF Cache!EntryNames
<1>s. ASSUME UNCHANGED stored
      PROVE  /\ stored' \in [Cache!EntryNames -> Rows]
             /\ \A x \in Cache!EntryNames : Recent(stored'[x].value) /\ stored'[x].access <= clock
  BY <1>a, <1>s
<1>r. ASSUME UNCHANGED <<asking, cleared>>
      PROVE  asking' \in [Askers -> Cache!Requests \cup {Cache!Idle}] /\ RequestsAreRecent'
  BY <1>a, <1>r DEF RequestsAreRecent, Cache!Outlived
\* One worker's request begins, goes on or ends.
<1>q. ASSUME NEW w \in Askers, NEW q \in Cache!Requests \cup {Cache!Idle}, UNCHANGED cleared,
             q = Cache!Idle \/ Cache!Outlived(q), asking' = [asking EXCEPT ![w] = q]
      PROVE  asking' \in [Askers -> Cache!Requests \cup {Cache!Idle}] /\ RequestsAreRecent'
  BY <1>a, <1>q DEF RequestsAreRecent, Cache!Outlived, Cache!Idle
<1>1. CASE Cache!EnsureTmdb
  <2> DEFINE c == CHOOSE x \in Cache!Clients \ {held} : TRUE
  <2>1. c \in Cache!Clients
    BY DEF Cache!Clients
  <2>2. current' = c /\ recalled' = [recalled EXCEPT ![c] = stored["snapshot"].value]
    BY <1>1 DEF Cache!EnsureTmdb
  <2>3. /\ stored' \in [Cache!EntryNames -> Rows]
        /\ \A x \in Cache!EntryNames : Recent(stored'[x].value) /\ stored'[x].access <= clock
    BY <1>1, <1>a, <1>n, TouchKeeps DEF Cache!EnsureTmdb
  <2> HIDE DEF c
  <2>4. recalled' \in [Cache!Clients -> Cache!Memories] /\ Recent(recalled'[c])
    BY <1>a, <1>n, <2>1, <2>2
  <2>5. UNCHANGED <<held, asking, cleared, clock>>
    BY <1>1 DEF Cache!EnsureTmdb
  <2> QED
    BY <1>r, <2>1, <2>2, <2>3, <2>4, <2>5, CacheKept DEF CacheTypes
<1>2. CASE Cache!HoldClient \/ Cache!ReleaseClient
  <2>1. Cache!Dropped({held}) /\ UNCHANGED <<current, stored, cleared, clock>>
        /\ held' \in Cache!Clients \cup {0}
        /\ asking' = [w \in Askers |-> Cache!Orphaned({held}, asking[w])]
    BY <1>2 DEF Cache!HoldClient, Cache!ReleaseClient, CacheTypes
  <2>2. asking' \in [Askers -> Cache!Requests \cup {Cache!Idle}] /\ RequestsAreRecent'
    BY <2>1, OrphansKeep
  <2> QED
    BY <1>a, <2>1, <2>2, DroppedKeeps, CacheKept DEF CacheTypes
<1>3. CASE Cache!StoreImage
  <2>1. /\ stored' \in [Cache!EntryNames -> Rows]
        /\ \A x \in Cache!EntryNames : Recent(stored'[x].value) /\ stored'[x].access <= clock
    BY <1>3, <1>a, <1>n, MemoryFacts, PutKeeps DEF Cache!StoreImage
  <2>2. UNCHANGED <<current, held, recalled, asking, cleared, clock>>
    BY <1>3 DEF Cache!StoreImage
  <2> QED
    BY <1>a, <1>r, <2>1, <2>2, CacheKept DEF CacheTypes
\* What a client remembers of a record, from a row or from the provider.
<1>b. ASSUME NEW c \in Cache!Clients, NEW r \in Cache!Records,
             UNCHANGED <<current, held, cleared, clock>>,
             \/ recalled' = [recalled EXCEPT ![c] = [@ EXCEPT ![r] = stored[r].value[r]]]
             \/ \E a \in Cache!Answers :
                   Cache!Outlived(a) /\ recalled' = [recalled EXCEPT ![c] = [@ EXCEPT ![r] = {a}]]
             \/ UNCHANGED recalled
      PROVE  /\ recalled' \in [Cache!Clients -> Cache!Memories]
             /\ current' # 0 => Recent(recalled'[current'])
  <2>1. PICK m \in Cache!Memories :
          recalled' = [recalled EXCEPT ![c] = m] /\ (Recent(recalled[c]) => Recent(m))
    <3>1. CASE recalled' = [recalled EXCEPT ![c] = [@ EXCEPT ![r] = stored[r].value[r]]]
      BY <1>a, <1>n, <3>1, MemoryFacts
    <3>2. ASSUME NEW a \in Cache!Answers, Cache!Outlived(a),
                 recalled' = [recalled EXCEPT ![c] = [recalled[c] EXCEPT ![r] = {a}]]
          PROVE  \E m \in Cache!Memories :
                    recalled' = [recalled EXCEPT ![c] = m] /\ (Recent(recalled[c]) => Recent(m))
      BY <1>a, <3>2, MemoryFacts
    <3>3. CASE UNCHANGED recalled
      BY <1>a, <3>3
    <3> QED
      BY <1>b, <3>1, <3>2, <3>3
  <2>2. recalled' \in [Cache!Clients -> Cache!Memories]
    BY <1>a, <2>1
  <2>3. current' # 0 => Recent(recalled'[current'])
    BY <1>a, <1>b, <2>1
  <2> QED
    BY <2>2, <2>3
<1>4. ASSUME NEW w \in Askers, NEW c \in Cache!Clients, NEW r \in Cache!Records,
             Cache!Recall(w, c, r)
      PROVE  CacheInv'
  <2>1. /\ UNCHANGED <<current, held, cleared, clock>>
        /\ \/ /\ recalled' = [recalled EXCEPT ![c] = [@ EXCEPT ![r] = stored[r].value[r]]]
              /\ Cache!Touch(r) /\ UNCHANGED asking
           \/ /\ asking' = [asking EXCEPT ![w] = Cache!Request(c, r)]
              /\ UNCHANGED <<recalled, stored>>
    BY <1>4 DEF Cache!Recall
  <2>2. /\ recalled' \in [Cache!Clients -> Cache!Memories]
        /\ current' # 0 => Recent(recalled'[current'])
    BY <1>b, <2>1
  <2>3. /\ stored' \in [Cache!EntryNames -> Rows]
        /\ \A x \in Cache!EntryNames : Recent(stored'[x].value) /\ stored'[x].access <= clock
    <3>1. CASE Cache!Touch(r)
      BY <1>a, <1>n, <3>1, TouchKeeps
    <3> QED
      BY <1>s, <2>1, <3>1
  <2>4. Cache!Request(c, r) \in Cache!Requests /\ Cache!Outlived(Cache!Request(c, r))
    BY <1>a, MetadataAssumption DEF Cache!Request, Cache!Requests, Cache!Outlived
  <2>5. asking' \in [Askers -> Cache!Requests \cup {Cache!Idle}] /\ RequestsAreRecent'
    <3> HIDE DEF Cache!Request
    <3> QED
      BY <1>q, <1>r, <2>1, <2>4
  <2> QED
    BY <2>1, <2>2, <2>3, <2>5, CacheKept DEF CacheTypes
<1>5. ASSUME NEW w \in Askers, NEW ok \in BOOLEAN, Cache!Answered(w, ok) PROVE CacheInv'
  <2> DEFINE q == asking[w]
  <2>1. q.stage = "asked" /\ UNCHANGED <<current, held, stored, cleared, clock>>
    BY <1>5 DEF Cache!Answered
  <2>2. /\ q \in Cache!Requests /\ q.client \in Cache!Clients \cup {0} /\ q.record \in Cache!Records
        /\ \A full \in BOOLEAN : /\ Cache!Answer(q, full) \in Cache!Answers
                                 /\ Cache!Outlived(Cache!Answer(q, full))
    BY <2>1, RequestFacts
  <2>3. /\ \/ UNCHANGED recalled
           \/ Cache!Remember(q.client, q.record, Cache!Answer(q, ok))
        /\ asking' = [asking EXCEPT ![w] = IF ok /\ q.record # "map"
                                           THEN [q EXCEPT !.stage = "answered"] ELSE Cache!Idle]
    BY <1>5 DEF Cache!Answered, Cache!Brought
  <2>4. [q EXCEPT !.stage = "answered"] \in Cache!Requests
        /\ Cache!Outlived([q EXCEPT !.stage = "answered"])
    BY <2>1, <2>2 DEF Cache!Requests, Cache!Outlived, RequestsAreRecent
  <2> HIDE DEF q
  <2>5. asking' \in [Askers -> Cache!Requests \cup {Cache!Idle}] /\ RequestsAreRecent'
    BY <1>q, <2>1, <2>3, <2>4
  <2>6. /\ recalled' \in [Cache!Clients -> Cache!Memories]
        /\ current' # 0 => Recent(recalled'[current'])
    <3>1. CASE UNCHANGED recalled
      BY <1>a, <2>1, <3>1
    <3>2. CASE q.client # 0 /\ Cache!Remember(q.client, q.record, Cache!Answer(q, ok))
      <4>1. recalled' = [recalled EXCEPT ![q.client] = [@ EXCEPT ![q.record] = {Cache!Answer(q, ok)}]]
        BY <3>2 DEF Cache!Remember
      <4>2. q.client \in Cache!Clients
        BY <2>2, <3>2
      <4> QED
        BY <1>b, <2>1, <2>2, <4>1, <4>2
    <3> QED
      BY <2>3, <3>1, <3>2 DEF Cache!Remember
  <2> QED
    BY <1>s, <2>1, <2>5, <2>6, CacheKept DEF CacheTypes
<1>6. ASSUME NEW w \in Askers, Cache!PutRecord(w) PROVE CacheInv'
  <2> DEFINE q == asking[w]
             m == [Cache!Nothing EXCEPT ![q.record] = {Cache!Answer(q, TRUE)}]
  <2>1. /\ q.stage = "answered" /\ UNCHANGED <<current, held, recalled, cleared, clock>>
        /\ Cache!Put(q.record, Cache!Entry(m, clock + Lifetime))
        /\ asking' = [asking EXCEPT ![w] = Cache!Idle]
    BY <1>6 DEF Cache!PutRecord
  <2>2. q.record \in Cache!Records /\ m \in Cache!Memories /\ Recent(m)
    BY <2>1, RequestFacts, MemoryFacts
  <2> HIDE DEF q, m
  <2>3. /\ stored' \in [Cache!EntryNames -> Rows]
        /\ \A x \in Cache!EntryNames : Recent(stored'[x].value) /\ stored'[x].access <= clock
    BY <1>a, <1>n, <2>1, <2>2, PutKeeps
  <2>4. asking' \in [Askers -> Cache!Requests \cup {Cache!Idle}] /\ RequestsAreRecent'
    BY <1>q, <2>1
  <2> QED
    BY <1>a, <2>1, <2>3, <2>4, CacheKept DEF CacheTypes
<1>7. CASE Cache!InvalidateTmdb
  <2>1. /\ stored' \in [Cache!EntryNames -> Rows]
        /\ \A x \in Cache!EntryNames : Recent(stored'[x].value) /\ stored'[x].access <= clock
    BY <1>7, <1>a, <1>n, PutKeeps DEF Cache!InvalidateTmdb, Cache!Snapshot
  <2>2. /\ current' = 0 /\ Cache!Dropped({current}) /\ UNCHANGED <<held, cleared, clock>>
        /\ asking' = [w \in Askers |-> Cache!Orphaned({current}, asking[w])]
    BY <1>7 DEF Cache!InvalidateTmdb
  <2>3. asking' \in [Askers -> Cache!Requests \cup {Cache!Idle}] /\ RequestsAreRecent'
    BY <2>2, OrphansKeep
  <2> QED
    BY <1>a, <2>1, <2>2, <2>3, DroppedKeeps, CacheKept DEF CacheTypes
<1>8. CASE Cache!ClearCache
  <2>1. /\ current' = 0 /\ cleared' \in 0 .. MaxClears /\ UNCHANGED <<held, clock>>
        /\ stored' = [n \in Cache!EntryNames |-> Cache!NoEntry]
        /\ Cache!Dropped({current})
        /\ asking' = [w \in Askers |-> Cache!Overtaken(Cache!Orphaned({current}, asking[w]))]
    BY <1>8, MetadataAssumption DEF Cache!ClearCache, CacheTypes
  <2>2. Cache!NoEntry \in Rows /\ Cache!NoEntry.value = Cache!Nothing /\ Cache!NoEntry.access = 0
    BY MemoryFacts DEF Cache!NoEntry, Rows
  <2>3. ASSUME NEW w \in Askers
        PROVE  /\ asking'[w] \in Cache!Requests \cup {Cache!Idle}
               /\ asking'[w].stage \in {"asked", "answered"} => Cache!Outlived(asking[w])'
    <3> DEFINE q == Cache!Orphaned({current}, asking[w])
    <3>1. q \in Cache!Requests \/ q = Cache!Idle
      <4>1. asking[w] \in Cache!Requests \/ asking[w] = Cache!Idle
        BY <1>a
      <4> QED
        BY <4>1 DEF Cache!Orphaned, Cache!Requests, Cache!Idle
    <3>2. asking'[w] = IF q.stage = "idle" THEN q ELSE [q EXCEPT !.late = cleared']
      BY <2>1 DEF Cache!Overtaken
    <3> HIDE DEF q
    <3>3. CASE q = Cache!Idle
      BY <3>2, <3>3 DEF Cache!Idle
    <3>4. CASE q \in Cache!Requests
      BY <2>1, <3>2, <3>4 DEF Cache!Requests, Cache!Outlived
    <3> QED
      BY <3>1, <3>3, <3>4
  <2>4. asking' \in [Askers -> Cache!Requests \cup {Cache!Idle}] /\ RequestsAreRecent'
    BY <2>1, <2>3 DEF RequestsAreRecent
  <2>5. CacheTypes'
    BY <1>a, <2>1, <2>2, <2>4, DroppedKeeps DEF CacheTypes
  <2>6. RowsAreRecent'
    BY <2>1, <2>2 DEF RowsAreRecent, Recent, Cache!Nothing
  <2> QED
    BY <2>1, <2>4, <2>5, <2>6 DEF Cache!ClearedIsGone
<1>9. ASSUME NEW saved \in BOOLEAN, Cache!Restart(saved) PROVE CacheInv'
  <2>1. /\ stored' \in [Cache!EntryNames -> Rows]
        /\ \A x \in Cache!EntryNames : Recent(stored'[x].value) /\ stored'[x].access <= clock
    BY <1>9, <1>a, <1>n, PutKeeps DEF Cache!Restart, Cache!Snapshot
  <2>2. /\ current' = 0 /\ held' = 0 /\ Cache!Dropped({current, held})
        /\ UNCHANGED <<cleared, clock>>
        /\ asking' = [w \in Askers |-> Cache!Idle]
    BY <1>9 DEF Cache!Restart
  <2>3. asking' \in [Askers -> Cache!Requests \cup {Cache!Idle}] /\ RequestsAreRecent'
    BY <2>2 DEF RequestsAreRecent, Cache!Idle
  <2> QED
    BY <1>a, <2>1, <2>2, <2>3, DroppedKeeps, CacheKept
<1>10. CASE Cache!Tick
  <2>1. clock' = clock + 1 /\ UNCHANGED <<current, held, recalled, asking, stored, cleared>>
    BY <1>10 DEF Cache!Tick
  <2>2. \A n \in Cache!EntryNames : stored[n].access \in Nat
    BY DEF CacheTypes, Rows
  <2>3. CacheTypes'
    BY <2>1, <2>2 DEF CacheTypes
  <2>4. RequestsAreRecent'
    BY <1>r, <2>1
  <2> QED
    BY <2>1, <2>3, <2>4 DEF RowsAreRecent, Recent, Cache!ClearedIsGone, Cache!Outlived
<1>11. "details" \in Cache!Records /\ "season" \in Cache!Records /\ "map" \in Cache!Records
  BY DEF Cache!Records
<1> QED
  BY <1>1, <1>2, <1>3, <1>4, <1>5, <1>6, <1>7, <1>8, <1>9, <1>10, <1>11
     DEF Cache!MetadataNext, Cache!GetDetails, Cache!GetSeason, Cache!GetSeasonMap

(***************************************************************************)
(* The TVDB client.                                                        *)
(***************************************************************************)
\* Nothing, or a number of pages.
Lists == Nat \cup {NoPage}

ReadPcs == {"aliases", "details", "fetch", "episodes", "page", "list", "settle", "map", "strict"}
ReadCalls == [pc : ReadPcs,
              what : {"aliases", "details", "map"}, client : Nat, pages : Nat]

ClientInv ==
    /\ client \in Nat
    /\ memory \in [details : Lists, episodes : Lists, map : {NoPage, Pages}, aliases : Lists]
    /\ kept \in [details : Lists, episodes : Lists]
    /\ read \in [Readers -> ReadCalls \cup {Client!Idle}]

LEMMA ClientStarts == Client!TvdbInit => ClientInv
BY DEF Client!TvdbInit, ClientInv, Client!Forgotten, Lists

\* What the client remembers of a worker's reading stays in its domain.
LEMMA ReadersRemember ==
    ASSUME ClientInv, NEW w \in Readers, NEW list \in Lists
    PROVE  /\ \A what \in {"details", "episodes", "aliases"} :
                 [memory EXCEPT ![what] = list]
                    \in [details : Lists, episodes : Lists, map : {NoPage, Pages}, aliases : Lists]
           /\ Client!Tell(w, list) => read' \in [Readers -> ReadCalls \cup {Client!Idle}]
BY DEF ClientInv, Client!Tell

LEMMA ReadersGo ==
    ASSUME ClientInv, NEW w \in Readers, read[w].pc # "idle", NEW pc \in ReadPcs
    PROVE  /\ Client!Goto(w, pc) => read' \in [Readers -> ReadCalls \cup {Client!Idle}]
           /\ \A n \in Nat : Client!Listed(w, n, pc) => read' \in [Readers -> ReadCalls \cup {Client!Idle}]
           /\ read' = [read EXCEPT ![w].pages = read[w].pages + 1]
                 => read' \in [Readers -> ReadCalls \cup {Client!Idle}]
           /\ read[w].pages \in Nat
<1>1. read[w] \in ReadCalls
  BY DEF ClientInv, Client!Idle
<1>2. [read[w] EXCEPT !.pc = pc] \in ReadCalls
  BY <1>1 DEF ReadCalls
<1>3. [read[w] EXCEPT !.pages = read[w].pages + 1] \in ReadCalls /\ read[w].pages \in Nat
  BY <1>1 DEF ReadCalls
<1>4. ASSUME NEW n \in Nat, Client!Listed(w, n, pc)
      PROVE  read' \in [Readers -> ReadCalls \cup {Client!Idle}]
  <2>1. [read[w] EXCEPT !.pc = pc, !.pages = n] \in ReadCalls
    BY <1>1 DEF ReadCalls
  <2>2. read' = [read EXCEPT ![w] = [read[w] EXCEPT !.pc = pc, !.pages = n]]
    BY <1>4 DEF Client!Listed, ClientInv
  <2> QED
    BY <2>1, <2>2 DEF ClientInv
<1> QED
  BY <1>2, <1>3, <1>4 DEF ClientInv, Client!Goto

LEMMA ClientSteps ==
    ASSUME ClientInv, Client!TvdbNext
    PROVE  ClientInv'
<1> DEFINE Memory == [details : Lists, episodes : Lists, map : {NoPage, Pages}, aliases : Lists]
           Reading == [Readers -> ReadCalls \cup {Client!Idle}]
<1>a. /\ client \in Nat /\ memory \in Memory /\ read \in Reading
      /\ memory.details \in Lists /\ memory.episodes \in Lists /\ memory.aliases \in Lists
      /\ memory.map \in {NoPage, Pages}
      /\ kept.details \in Lists /\ kept.episodes \in Lists /\ Pages \in Lists /\ 0 \in Lists
      /\ NoPage \in Lists
  BY MetadataAssumption DEF ClientInv, Lists
<1>k. ASSUME client' \in Nat, memory' \in Memory, read' \in Reading, UNCHANGED kept
      PROVE  ClientInv'
  BY <1>k DEF ClientInv
<1> HIDE DEF Memory, Reading
\* get_tv_details ends.
<1>d. ASSUME NEW w \in Readers, NEW list \in Lists, Client!Answer(w, list)
      PROVE  memory' \in Memory /\ read' \in Reading
  BY <1>a, <1>d, ReadersRemember DEF Client!Answer, Client!Remember, Memory, Reading
<1>t. ASSUME NEW w \in Readers, NEW list \in Lists, Client!Tell(w, list) PROVE read' \in Reading
  BY <1>t, ReadersRemember DEF Reading
<1>g. ASSUME NEW w \in Readers, read[w].pc # "idle",
             NEW pc \in ReadPcs, Client!Goto(w, pc)
      PROVE  read' \in Reading
  BY <1>g, ReadersGo DEF Reading
<1>1. ASSUME NEW w \in Readers, Client!Read(w) PROVE ClientInv'
  <2> PICK what \in {"details", "aliases", "map"} :
          read' = [read EXCEPT ![w] = [pc |-> what, what |-> what, client |-> client, pages |-> 0]]
    BY <1>1 DEF Client!Read
  <2>1. [pc |-> what, what |-> what, client |-> client, pages |-> 0] \in ReadCalls
    BY <1>a DEF ReadCalls, ReadPcs
  <2>2. read' \in Reading
    BY <1>a, <2>1 DEF Reading
  <2> QED
    BY <1>1, <1>a, <1>k, <2>2 DEF Client!Read
<1>2. ASSUME NEW w \in Readers, Client!Aliases(w) PROVE ClientInv'
  <2>1. read[w].pc = "aliases" /\ UNCHANGED <<client, memory, kept>>
        /\ (Client!Tell(w, memory.aliases) \/ Client!Goto(w, "details"))
    BY <1>2 DEF Client!Aliases
  <2>2. read' \in Reading
    BY <1>a, <1>g, <1>t, <2>1 DEF ReadPcs
  <2> QED
    BY <1>a, <1>k, <2>1, <2>2
<1>3. ASSUME NEW w \in Readers, Client!Details(w) PROVE ClientInv'
  <2>1. read[w].pc = "details" /\ UNCHANGED <<client, kept>>
    BY <1>3 DEF Client!Details
  <2>2. CASE Client!Answer(w, memory.details)
    BY <1>a, <1>d, <1>k, <2>1, <2>2
  <2>3. CASE /\ memory' = IF read[w].client # client THEN memory
                          ELSE [memory EXCEPT !.details = kept.details,
                                              !.aliases = IF read[w].what = "aliases"
                                                          THEN kept.details ELSE @]
             /\ Client!Tell(w, kept.details)
    <3>1. memory' \in Memory
      BY <1>a, <2>3 DEF Memory
    <3> QED
      BY <1>a, <1>k, <1>t, <2>1, <2>3, <3>1
  <2>4. CASE UNCHANGED memory /\ Client!Goto(w, "fetch")
    BY <1>a, <1>g, <1>k, <2>1, <2>4 DEF ReadPcs
  <2> QED
    BY <1>3, <2>2, <2>3, <2>4 DEF Client!Details
<1>4. ASSUME NEW w \in Readers, Client!FetchDetails(w) PROVE ClientInv'
  <2>1. read[w].pc = "fetch" /\ UNCHANGED <<client, kept>>
        /\ \/ Client!Goto(w, "episodes") /\ UNCHANGED memory
           \/ Client!Answer(w, 0)
    BY <1>4 DEF Client!FetchDetails
  <2>2. CASE Client!Answer(w, 0)
    BY <1>a, <1>d, <1>k, <2>1, <2>2
  <2>3. CASE Client!Goto(w, "episodes") /\ UNCHANGED memory
    BY <1>a, <1>g, <1>k, <2>1, <2>3 DEF ReadPcs
  <2> QED
    BY <2>1, <2>2, <2>3
<1>5. ASSUME NEW w \in Readers, Client!Episodes(w) PROVE ClientInv'
  <2>1. read[w].pc = "episodes" /\ UNCHANGED <<client, kept>>
    BY <1>5 DEF Client!Episodes
  <2>2. CASE Client!Goto(w, "page") /\ UNCHANGED memory
    BY <1>a, <1>g, <1>k, <2>1, <2>2 DEF ReadPcs
  <2>3. CASE /\ memory.episodes # NoPage /\ UNCHANGED memory
             /\ Client!Listed(w, memory.episodes, "settle")
    <3>1. memory.episodes \in Nat
      BY <1>a, <2>3 DEF Lists
    <3>2. read' \in Reading
      BY <2>1, <2>3, <3>1, ReadersGo DEF Reading, ReadPcs
    <3> QED
      BY <1>a, <1>k, <2>1, <2>3, <3>2
  <2>4. CASE /\ kept.episodes # NoPage /\ Client!Remember(w, "episodes", kept.episodes)
             /\ Client!Listed(w, kept.episodes, "settle")
    <3>1. kept.episodes \in Nat
      BY <1>a, <2>4 DEF Lists
    <3>2. read' \in Reading
      BY <2>1, <2>4, <3>1, ReadersGo DEF Reading, ReadPcs
    <3>3. memory' \in Memory
      BY <1>a, <2>4, ReadersRemember DEF Client!Remember, Memory
    <3> QED
      BY <1>k, <1>a, <2>1, <3>2, <3>3
  <2> QED
    BY <1>5, <2>2, <2>3, <2>4 DEF Client!Episodes, Client!Known
<1>6. ASSUME NEW w \in Readers, Client!Page(w) PROVE ClientInv'
  <2>1. read[w].pc = "page" /\ UNCHANGED <<client, memory, kept>>
    BY <1>6 DEF Client!Page
  <2>2. read[w].pages \in Nat /\ Pages \in Nat
    BY <2>1, ReadersGo, MetadataAssumption DEF ReadPcs
  <2>3. \E n \in Nat, pc \in ReadPcs : Client!Listed(w, n, pc)
    BY <1>6, <2>2 DEF Client!Page, ReadPcs
  <2>4. read' \in Reading
    BY <2>1, <2>3, ReadersGo DEF Reading
  <2> QED
    BY <1>a, <1>k, <2>1, <2>4
<1>11. ASSUME NEW w \in Readers, Client!KeepList(w) PROVE ClientInv'
  <2>1. read[w].pc = "list" /\ UNCHANGED client /\ Client!Goto(w, "settle")
    BY <1>11 DEF Client!KeepList
  <2>2. read[w].pages \in Lists
    BY <2>1, ReadersGo DEF Lists, ReadPcs
  <2>3. memory' \in Memory
    BY <1>11, <1>a, <2>2, ReadersRemember DEF Client!KeepList, Client!Remember, Memory
  <2>4. kept' \in [details : Lists, episodes : Lists]
    BY <1>11, <2>2 DEF Client!KeepList, Client!Keep, ClientInv
  <2>5. read' \in Reading
    BY <1>g, <2>1 DEF ReadPcs
  <2> QED
    BY <1>a, <2>1, <2>3, <2>4, <2>5 DEF ClientInv, Memory, Reading
<1>12. ASSUME NEW w \in Readers, Client!Settle(w) PROVE ClientInv'
  <2>1. read[w].pc = "settle" /\ UNCHANGED client
    BY <1>12 DEF Client!Settle
  <2> DEFINE list == read[w].pages
  <2>2. list \in Lists
    BY <2>1, ReadersGo DEF Lists, ReadPcs
  <2>3. /\ Client!Keep("details", list) /\ Client!Tell(w, list)
        /\ memory' = IF read[w].client # client THEN memory
                     ELSE [memory EXCEPT !.details = list,
                                         !.aliases = IF read[w].what = "aliases" THEN list ELSE @]
    BY <1>12 DEF Client!Settle
  <2> HIDE DEF list
  <2>4. memory' \in Memory
    BY <1>a, <2>2, <2>3 DEF Memory
  <2>5. kept' \in [details : Lists, episodes : Lists]
    BY <2>2, <2>3 DEF Client!Keep, ClientInv
  <2>6. read' \in Reading
    BY <1>t, <2>2, <2>3
  <2> QED
    BY <1>a, <2>1, <2>4, <2>5, <2>6 DEF ClientInv, Memory, Reading
<1>7. ASSUME NEW w \in Readers, Client!SeasonMap(w) PROVE ClientInv'
  <2>1. read[w].pc = "map" /\ UNCHANGED <<client, memory, kept>>
        /\ (Client!Tell(w, memory.map) \/ Client!Goto(w, "strict") \/ Client!Tell(w, NoPage))
    BY <1>7 DEF Client!SeasonMap
  <2>2. read' \in Reading
    BY <1>a, <1>g, <1>t, <2>1 DEF ReadPcs
  <2> QED
    BY <1>a, <1>k, <2>1, <2>2
<1>8. ASSUME NEW w \in Readers, Client!StrictPage(w) PROVE ClientInv'
  <2>0. read[w].pc = "strict" /\ UNCHANGED <<client, kept>>
    BY <1>8 DEF Client!StrictPage
  <2>1. CASE read' = [read EXCEPT ![w].pages = read[w].pages + 1] /\ UNCHANGED memory
    <3>1. read' \in Reading
      BY <2>0, <2>1, ReadersGo DEF Reading, ReadPcs
    <3> QED
      BY <1>a, <1>k, <2>0, <2>1, <3>1
  <2>2. CASE Client!Remember(w, "map", Pages) /\ Client!Tell(w, Pages)
    <3>1. memory' \in Memory
      BY <1>a, <2>2 DEF Client!Remember, Memory
    <3> QED
      BY <1>a, <1>k, <1>t, <2>0, <2>2, <3>1
  <2>3. CASE UNCHANGED memory /\ Client!Tell(w, NoPage)
    BY <1>a, <1>k, <1>t, <2>0, <2>3
  <2> QED
    BY <1>8, <2>1, <2>2, <2>3 DEF Client!StrictPage
<1>9. CASE Client!DropClient
  BY <1>9, <1>a, <1>k DEF Client!DropClient, Client!Forgotten, Memory
<1>10. CASE Client!Evict
  BY <1>10 DEF Client!Evict, Client!Keep, ClientInv, Lists
<1> QED
  BY <1>1, <1>2, <1>3, <1>4, <1>5, <1>6, <1>7, <1>8, <1>9, <1>10, <1>11, <1>12 DEF Client!TvdbNext

(***************************************************************************)
(* The parts together: one component moves, the others stay as they are.   *)
(***************************************************************************)
LEMMA RequestsInSuite ==
    /\ SuiteInit => (part = "requests" => RequestInv)
    /\ (part = "requests" => RequestInv) /\ [SuiteNext]_suiteVars
          => (part = "requests" => RequestInv)'
<1>1. UNCHANGED <<part, requestVars>> /\ (part = "requests" => RequestInv)
         => (part = "requests" => RequestInv)'
  BY DEF requestVars, RequestInv, RequestTypes, SecondAttempts, Requests!Quiet
<1> QED
  BY <1>1, RequestsStart, RequestsStep DEF SuiteInit, SuiteNext, suiteVars

LEMMA ProbesInSuite ==
    /\ SuiteInit => (part = "probes" => ProbeInv)
    /\ (part = "probes" => ProbeInv) /\ [SuiteNext]_suiteVars => (part = "probes" => ProbeInv)'
<1>1. UNCHANGED <<part, probeVars>> /\ (part = "probes" => ProbeInv)
         => (part = "probes" => ProbeInv)'
  BY DEF probeVars, ProbeInv, ProbeTypes, OwnersEntered, Probes!SlotsAreLive,
         Probes!CacheHoldsOnePerKey, Probes!Idle
<1> QED
  BY <1>1, ProbesStart, ProbesStep DEF SuiteInit, SuiteNext, suiteVars

LEMMA CacheInSuite ==
    /\ SuiteInit => (part = "cache" => CacheInv)
    /\ (part = "cache" => CacheInv) /\ [SuiteNext]_suiteVars => (part = "cache" => CacheInv)'
<1>1. UNCHANGED <<part, metadataVars>> /\ (part = "cache" => CacheInv) => (part = "cache" => CacheInv)'
  BY DEF metadataVars, CacheInv, CacheTypes, RowsAreRecent, Recent, RequestsAreRecent, Cache!Outlived,
         Cache!ClearedIsGone
<1> QED
  BY <1>1, CacheStarts, CacheSteps DEF SuiteInit, SuiteNext, suiteVars

LEMMA ClientInSuite ==
    /\ SuiteInit => (part = "client" => ClientInv)
    /\ (part = "client" => ClientInv) /\ [SuiteNext]_suiteVars => (part = "client" => ClientInv)'
<1>1. UNCHANGED <<part, tvdbVars>> /\ (part = "client" => ClientInv) => (part = "client" => ClientInv)'
  BY DEF tvdbVars, ClientInv, Client!Idle
<1> QED
  BY <1>1, ClientStarts, ClientSteps DEF SuiteInit, SuiteNext, suiteVars

\* A token that died before a request began never fails it.
THEOREM TokensStayFresh == SuiteSpec => []OldTokenNeverRefuses
<1>1. (part = "requests" => RequestInv) => OldTokenNeverRefuses
  BY DEF RequestInv, SecondAttempts, OldTokenNeverRefuses, Requests!OldTokenNeverRefuses
<1> QED
  BY <1>1, RequestsInSuite, PTL DEF SuiteSpec

\* A slot of a running probe belongs to a worker that probes for it, each such
\* worker holds its slot, and the cache keeps one result for a key within its bound.
THEOREM ProbesStayShared == SuiteSpec => []ProbesAreShared
<1>1. (part = "probes" => ProbeInv) => ProbesAreShared
  BY DEF ProbeInv, ProbesAreShared
<1> QED
  BY <1>1, ProbesInSuite, PTL DEF SuiteSpec

\* Clearing the cache takes all but what was being asked for at that moment,
\* whatever rows and snapshots older clients write later, and a season map that is
\* remembered holds every page (_settings_tab_actions.py clear_cache, tmdb.py,
\* tvdb.py get_season_map).
THEOREM CachesStayRight == SuiteSpec => []CachesHold
<1>1. (part = "cache" => CacheInv) /\ (part = "client" => ClientInv) => CachesHold
  <2>1. CacheInv => Cache!MetadataTypeOK
    BY DEF CacheInv, CacheTypes, Rows, Cache!MetadataTypeOK
  <2>2. ClientInv => Client!SeasonMapWhole
    BY DEF ClientInv, Client!SeasonMapWhole
  <2> QED
    BY <2>1, <2>2 DEF CachesHold, CacheInv
<1> QED
  BY <1>1, CacheInSuite, ClientInSuite, PTL DEF SuiteSpec

(***************************************************************************)
(* The confidence of claims, for any table, any slots and any threshold    *)
(* the settings admit.                                                     *)
(***************************************************************************)

\* Confidence is in percent, and once adjusted an automatic claim has what the
\* rules make of its own evidence and its season.
FloorsInv ==
    /\ table \in Tables
    /\ adjusted => \A f \in Floors!Auto : conf[f] = Floors!Adjusted(f)

\* The floors of a season: what each is earned by.
LEMMA FloorsOfSeasons ==
    ASSUME NEW n
    PROVE  /\ Floors!CoverageFloor(n) \in {0, 74, 80, 85}
           /\ Floors!CoverageFloor(n) # 0 => n # 0 /\ ~Floors!HasIssue(n)
           /\ Floors!CoverageFloor(n) > 74 => Floors!Matched(n) = Floors!Expected(n)
           /\ n # 0 /\ ~Floors!HasIssue(n) /\ Floors!Expected(n) # {} /\ Floors!Matched(n) = Floors!Expected(n)
                 => Floors!CoverageFloor(n) \in {80, 85}
<1> DEFINE none == n = 0 \/ Floors!HasIssue(n) \/ Floors!Expected(n) = {}
           full == Floors!Matched(n) = Floors!Expected(n)
           floor == Floors!CoverageFloor(n)
<1>1. CASE none
  <2>1. floor = 0
    BY <1>1 DEF Floors!CoverageFloor
  <2> QED
    BY <1>1, <2>1
<1>2. CASE ~none /\ full
  <2>1. floor \in {80, 85}
    BY <1>2 DEF Floors!CoverageFloor
  <2> QED
    BY <1>2, <2>1
<1>3. CASE ~none /\ ~full
  <2>1. floor \in {0, 74}
    BY <1>3 DEF Floors!CoverageFloor
  <2> QED
    BY <1>3, <2>1
<1> QED
  BY <1>1, <1>2, <1>3

\* What a claim's own evidence makes of its confidence.
LEMMA LiftedIsPercent ==
    ASSUME table \in Tables, NEW f \in TableFiles
    PROVE  /\ Floors!Lifted(f) \in 0 .. 100
           /\ ~table[f].relative /\ ~table[f].titled /\ ~table[f].ready => Floors!Lifted(f) = table[f].base
<1> DEFINE r      == table[f]
           own    == r.relative /\ r.season # 0 /\ r.hint \subseteq {r.season}
           number == IF own THEN Floors!AtLeast(r.base, 86) ELSE r.base
           prefix == IF own /\ Floors!Named(f) /\ Floors!Compatible(f) THEN Floors!AtLeast(number, 88) ELSE number
           title  == IF r.titled THEN Floors!AtLeast(prefix, 92) ELSE prefix
           ready  == IF r.ready THEN Floors!AtLeast(title, 100) ELSE title
<1>1. r.base \in 0 .. 100
  BY ConfidenceAssumption
<1>2. number \in 0 .. 100 /\ (~r.relative => number = r.base)
  BY <1>1 DEF Floors!AtLeast
<1>3. prefix \in 0 .. 100 /\ (~r.relative => prefix = r.base)
  <2> HIDE DEF number
  <2> QED
    BY <1>2 DEF Floors!AtLeast
<1>4. title \in 0 .. 100 /\ (~r.relative /\ ~r.titled => title = r.base)
  <2> HIDE DEF prefix
  <2> QED
    BY <1>3 DEF Floors!AtLeast
<1>5. ready \in 0 .. 100 /\ (~r.relative /\ ~r.titled /\ ~r.ready => ready = r.base)
  <2> HIDE DEF title
  <2> QED
    BY <1>4 DEF Floors!AtLeast
<1>6. Floors!Lifted(f) = ready
  BY DEF Floors!Lifted
<1> QED
  BY <1>5, <1>6

\* Caps come last, whatever the floors were.
LEMMA AdjustedTells ==
    ASSUME table \in Tables, NEW f \in Floors!Auto
    PROVE  LET c == Floors!Adjusted(f)
               floor == Floors!CoverageFloor(table[f].season)
           IN  /\ c \in 0 .. 100
               /\ Floors!Contradicted(f) => c <= 45
               /\ table[f].locked => c <= 70
               /\ c <= Floors!Lifted(f) \/ c <= floor
               /\ ~Floors!Contradicted(f) /\ ~table[f].locked => c >= floor
<1>1. f \in TableFiles
  BY DEF Floors!Auto, Floors!Assigned
<1>2. Floors!Lifted(f) \in 0 .. 100
  BY <1>1, LiftedIsPercent
<1>3. Floors!CoverageFloor(table[f].season) \in {0, 74, 80, 85}
  BY FloorsOfSeasons
<1> QED
  BY <1>2, <1>3 DEF Floors!Adjusted, Floors!AtLeast, Floors!AtMost

\* The adjustments read the table and the slots, and for a file they leave alone its
\* confidence: they are the same while these are.
LEMMA RulesStay ==
    ASSUME table' = table, slots' = slots
    PROVE  /\ Floors!Auto' = Floors!Auto
           /\ \A f \in Floors!Auto : Floors!Adjusted(f)' = Floors!Adjusted(f)
<1>1. Floors!Auto' = Floors!Auto /\ Floors!Conflicted' = Floors!Conflicted
  BY DEF Floors!Auto, Floors!Assigned, Floors!Conflicted, Floors!Claimed
<1>2. ASSUME NEW f \in Floors!Auto PROVE Floors!Adjusted(f)' = Floors!Adjusted(f)
  <2>1. Floors!Compatible(f)' = Floors!Compatible(f) /\ Floors!Named(f)' = Floors!Named(f)
    BY DEF Floors!Named, Floors!Compatible
  <2>2. Floors!Contradicted(f)' = Floors!Contradicted(f)
    BY <1>1, <2>1 DEF Floors!Contradicted
  <2>3. Floors!Lifted(f)' = Floors!Lifted(f)
    BY <2>1 DEF Floors!Lifted
  <2>4. Floors!CoverageFloor(table[f].season)' = Floors!CoverageFloor(table[f].season)
    BY <1>1 DEF Floors!CoverageFloor, Floors!Matched, Floors!Expected, Floors!HasIssue
  <2> QED
    BY <1>1, <1>2, <2>2, <2>3, <2>4 DEF Floors!Adjusted
<1> QED
  BY <1>1, <1>2

LEMMA FloorsStart == Floors!ConfidenceInit => FloorsInv
BY DEF Floors!ConfidenceInit, FloorsInv

LEMMA FloorsStep ==
    ASSUME FloorsInv, Floors!Adjust
    PROVE  FloorsInv'
<1>1. /\ table' = table /\ slots' = slots /\ conf' = [f \in TableFiles |-> Floors!Adjusted(f)]
  BY DEF Floors!Adjust
<1>2. ASSUME NEW f \in Floors!Auto' PROVE conf'[f] = Floors!Adjusted(f)'
  <2>1. f \in Floors!Auto /\ f \in TableFiles
    BY <1>1 DEF Floors!Auto, Floors!Assigned, Floors!Conflicted, Floors!Claimed
  <2>2. conf'[f] = Floors!Adjusted(f)
    BY <1>1, <2>1
  <2>3. Floors!Adjusted(f)' = Floors!Adjusted(f)
    BY <1>1, <2>1, RulesStay
  <2> QED
    BY <2>2, <2>3
<1> QED
  BY <1>1, <1>2 DEF FloorsInv

LEMMA DoubtTold ==
    ASSUME FloorsInv PROVE Floors!DoubtStaysReviewable
<1> SUFFICES ASSUME adjusted, NEW f \in Floors!Auto,
                    Floors!Contradicted(f) \/ (table[f].locked /\ EpisodeThreshold > 70)
             PROVE  ~(conf[f] >= EpisodeThreshold)
  BY DEF Floors!DoubtStaysReviewable, Floors!Accepted
<1> QED
  BY AdjustedTells, ConfidenceAssumption DEF FloorsInv

LEMMA BareTold ==
    ASSUME FloorsInv PROVE Floors!BareNumberNeedsCoverage
<1> SUFFICES ASSUME adjusted, NEW f \in Floors!Auto, table[f].base < EpisodeThreshold,
                    ~table[f].relative, ~table[f].titled, ~table[f].ready,
                    conf[f] >= EpisodeThreshold
             PROVE  /\ EpisodeThreshold > 74 =>
                          \A e \in Floors!Due(table[f].season) : \E g \in Floors!Assigned :
                              <<table[f].season, e>> \in Floors!Claimed(g)
                    /\ \A g \in TableFiles \ {f} : \A h \in TableFiles \ {f, g} :
                          table[g].season = table[f].season /\ ~table[g].manual
                              => Floors!Claimed(g) \cap Floors!Claimed(h) = {}
  BY DEF Floors!BareNumberNeedsCoverage, Floors!Accepted
<1> DEFINE n == table[f].season
           floor == Floors!CoverageFloor(n)
<1>1. f \in TableFiles /\ table \in Tables /\ EpisodeThreshold \in 50 .. 100 /\ table[f].base \in 0 .. 100
  BY ConfidenceAssumption DEF FloorsInv, Floors!Auto, Floors!Assigned
<1>2. floor >= EpisodeThreshold /\ floor \in {0, 74, 80, 85}
  <2>1. Floors!Lifted(f) = table[f].base
    BY <1>1, LiftedIsPercent
  <2>2. floor \in {0, 74, 80, 85}
    BY FloorsOfSeasons
  <2>3. conf[f] \in 0 .. 100 /\ (conf[f] <= table[f].base \/ conf[f] <= floor)
    BY <2>1, AdjustedTells DEF FloorsInv
  <2>4. conf[f] >= EpisodeThreshold /\ ~(table[f].base >= EpisodeThreshold)
    BY <1>1
  <2> HIDE DEF floor, n
  <2> QED
    BY <1>1, <2>2, <2>3, <2>4
<1>3. ~Floors!HasIssue(n)
  BY <1>1, <1>2, FloorsOfSeasons
<1>4. ASSUME EpisodeThreshold > 74, NEW e \in Floors!Due(n)
      PROVE  \E g \in Floors!Assigned : <<n, e>> \in Floors!Claimed(g)
  <2>1. Floors!Matched(n) = Floors!Expected(n)
    BY <1>1, <1>2, <1>4, FloorsOfSeasons
  <2>2. e \in Floors!Expected(n)
    BY <1>4 DEF Floors!Due, Floors!Expected
  <2>3. PICK g \in Floors!Auto : table[g].season = n /\ e \in table[g].episodes
    BY <2>1, <2>2 DEF Floors!Matched
  <2> QED
    BY <2>3 DEF Floors!Auto, Floors!Claimed
<1>5. ASSUME NEW g \in TableFiles \ {f}, NEW h \in TableFiles \ {f, g},
             table[g].season = n, ~table[g].manual
      PROVE  Floors!Claimed(g) \cap Floors!Claimed(h) = {}
  BY <1>3, <1>5 DEF Floors!HasIssue, Floors!Conflicted
<1> QED
  BY <1>4, <1>5

LEMMA AiredTold ==
    ASSUME FloorsInv PROVE Floors!AiredSeasonLifted
<1> SUFFICES ASSUME adjusted, NEW n \in DOMAIN slots \ {0},
                    ~\E f \in Floors!Conflicted : table[f].season = n,
                    \E e \in DOMAIN slots[n] : slots[n][e].air = "past",
                    \A e \in DOMAIN slots[n] : slots[n][e].titled,
                    Floors!Matched(n) = {e \in DOMAIN slots[n] : slots[n][e].air = "past"},
                    \E e \in DOMAIN slots[n] : slots[n][e].air = "future",
                    NEW f \in Floors!Auto, table[f].season = n, ~Floors!Contradicted(f), ~table[f].locked
             PROVE  conf[f] >= 80
  BY DEF Floors!AiredSeasonLifted
<1>1. ~Floors!HasIssue(n)
  BY DEF Floors!HasIssue
<1>2. Floors!Expected(n) = Floors!Matched(n) /\ Floors!Expected(n) # {}
  <2> DEFINE titled == {e \in DOMAIN slots[n] : slots[n][e].titled}
  <2>1. titled = DOMAIN slots[n] /\ titled # {}
    OBVIOUS
  <2>2. Floors!Expected(n) = {e \in DOMAIN slots[n] : slots[n][e].air = "past"}
    BY <2>1 DEF Floors!Expected
  <2> QED
    BY <2>2
<1>3. Floors!CoverageFloor(n) \in {80, 85}
  BY <1>1, <1>2, FloorsOfSeasons
<1>4. conf[f] \in 0 .. 100 /\ conf[f] >= Floors!CoverageFloor(n)
  BY AdjustedTells DEF FloorsInv
<1> QED
  BY <1>3, <1>4

LEMMA FloorsInSuite == SuiteSpec => [](part = "floors" => FloorsInv)
<1>1. SuiteInit => (part = "floors" => FloorsInv)
  BY FloorsStart DEF SuiteInit
<1>2. (part = "floors" => FloorsInv) /\ [SuiteNext]_suiteVars => (part = "floors" => FloorsInv)'
  <2>1. UNCHANGED <<part, confVars>> /\ (part = "floors" => FloorsInv) => (part = "floors" => FloorsInv)'
    BY RulesStay DEF confVars, FloorsInv
  <2> QED
    BY <2>1, FloorsStep DEF SuiteNext, suiteVars
<1> QED
  BY <1>1, <1>2, PTL DEF SuiteSpec

\* Doubt stays reviewable whatever a season's coverage lifts, a bare number is lifted
\* by coverage alone, and a season that has all its aired episodes is lifted, for any
\* table, any slots and any threshold the settings admit
\* (_episode_resolution.py apply_confidence_adjustments).
THEOREM ConfidenceAlwaysHolds == SuiteSpec => []ConfidenceHolds
<1>1. (part = "floors" => FloorsInv) => ConfidenceHolds
  BY DoubtTold, BareTold, AiredTold DEF ConfidenceHolds
<1> QED
  BY <1>1, FloorsInSuite, PTL
(***************************************************************************)
(* The match of a show, for any results.                                   *)
(***************************************************************************)
\* Numbers can be put in falling order, equal ones as they were.
Falls(v, i, j) == v[i] > v[j] \/ (v[i] = v[j] /\ i < j)

LEMMA OrderExists ==
    ASSUME NEW n \in Nat, NEW v \in [1 .. n -> Int]
    PROVE  \E p \in [1 .. n -> 1 .. n] : \A k, m \in 1 .. n : k < m => Falls(v, p[k], p[m])
<1> DEFINE D       == 1 .. n
           Upto(i) == {j \in D : i = j \/ Falls(v, j, i)}
           rank    == [i \in D |-> Cardinality(Upto(i))]
<1>0. \A i, j \in D : /\ i = j \/ Falls(v, i, j) \/ Falls(v, j, i)
                      /\ ~Falls(v, i, i) /\ ~(Falls(v, i, j) /\ Falls(v, j, i))
                      /\ \A k \in D : Falls(v, i, j) /\ Falls(v, j, k) => Falls(v, i, k)
  <2> SUFFICES ASSUME NEW i \in D, NEW j \in D, NEW k \in D
               PROVE  /\ i = j \/ Falls(v, i, j) \/ Falls(v, j, i)
                      /\ ~Falls(v, i, i) /\ ~(Falls(v, i, j) /\ Falls(v, j, i))
                      /\ Falls(v, i, j) /\ Falls(v, j, k) => Falls(v, i, k)
    OBVIOUS
  <2>1. v[i] \in Int /\ v[j] \in Int /\ v[k] \in Int /\ i \in Int /\ j \in Int /\ k \in Int
    OBVIOUS
  <2> QED
    BY <2>1 DEF Falls
<1>1. IsFiniteSet(D) /\ Cardinality(D) = n
  BY FS_Interval
<1>2. ASSUME NEW i \in D PROVE IsFiniteSet(Upto(i)) /\ Cardinality(Upto(i)) \in 1 .. n
  <2>1. Upto(i) \in SUBSET D /\ i \in Upto(i)
    OBVIOUS
  <2> HIDE DEF Upto, D
  <2>2. IsFiniteSet(Upto(i)) /\ Cardinality(Upto(i)) <= n
    BY <1>1, <2>1, FS_Subset
  <2>3. Cardinality(Upto(i)) \in Nat /\ Cardinality(Upto(i)) # 0
    BY <2>1, <2>2, FS_CardinalityType, FS_EmptySet
  <2> QED
    BY <2>2, <2>3
<1>3. ASSUME NEW i \in D, NEW m \in D, Falls(v, i, m) PROVE Cardinality(Upto(i)) < Cardinality(Upto(m))
  <2>1. ASSUME NEW j \in Upto(i) PROVE j \in Upto(m)
    <3> HIDE DEF D
    <3>1. j \in D /\ (i = j \/ Falls(v, j, i))
      OBVIOUS
    <3> QED
      BY <1>0, <1>3, <3>1
  <2>2. m \in Upto(m) /\ m \notin Upto(i)
    <3> HIDE DEF D
    <3>1. i # m /\ ~Falls(v, m, i)
      BY <1>0, <1>3
    <3> QED
      BY <3>1
  <2> HIDE DEF Upto
  <2>3. /\ Cardinality(Upto(i)) <= Cardinality(Upto(m))
        /\ Cardinality(Upto(m)) = Cardinality(Upto(i)) => Upto(m) = Upto(i)
    BY <1>2, <2>1, FS_Subset
  <2> QED
    BY <1>2, <2>2, <2>3
<1> HIDE DEF Upto
<1>4. \A i, m \in D : rank[i] = rank[m] => i = m
  <2> SUFFICES ASSUME NEW i \in D, NEW m \in D, rank[i] = rank[m] PROVE i = m
    OBVIOUS
  <2>2. Cardinality(Upto(i)) = Cardinality(Upto(m)) /\ Cardinality(Upto(i)) \in Int
    BY <1>2
  <2> HIDE DEF rank, D
  <2>3. ~Falls(v, i, m) /\ ~Falls(v, m, i)
    BY <1>3, <2>2
  <2> QED
    BY <1>0, <2>3
<1>5. \A i \in D : rank[i] \in D
  BY <1>2
<1>6. rank \in Surjection(D, D)
  <2>1. rank \in Injection(D, D)
    BY <1>4, <1>5 DEF Injection, IsInjective
  <2> HIDE DEF rank, D
  <2> QED
    BY <1>1, <2>1, FS_Injection
<1> DEFINE p == [k \in D |-> CHOOSE i \in D : rank[i] = k]
<1>7. \A k \in D : p[k] \in D /\ rank[p[k]] = k
  <2> SUFFICES ASSUME NEW k \in D PROVE p[k] \in D /\ rank[p[k]] = k
    OBVIOUS
  <2> HIDE DEF rank
  <2>1. \E i \in D : rank[i] = k
    BY <1>6 DEF Surjection
  <2> QED
    BY <2>1
<1>8. \A k, m \in D : k < m => Falls(v, p[k], p[m])
  <2> SUFFICES ASSUME NEW k \in D, NEW m \in D, k < m PROVE Falls(v, p[k], p[m])
    OBVIOUS
  <2> DEFINE i == p[k]
             j == p[m]
  <2>1. i \in D /\ j \in D /\ Cardinality(Upto(i)) = k /\ Cardinality(Upto(j)) = m
    BY <1>7
  <2>2. k # m /\ ~(m < k)
    OBVIOUS
  <2> HIDE DEF i, j, D, p
  <2>3. i # j /\ ~Falls(v, j, i)
    BY <1>3, <2>1, <2>2
  <2> QED
    BY <1>0, <2>1, <2>3 DEF i, j
<1>9. p \in [D -> D]
  BY <1>7
<1> QED
  BY <1>8, <1>9

\* Falling places are of everything.
LEMMA OrderIsOnto ==
    ASSUME NEW n \in Nat, NEW v \in [1 .. n -> Int], NEW p \in [1 .. n -> 1 .. n],
           \A k, m \in 1 .. n : k < m => Falls(v, p[k], p[m])
    PROVE  /\ \A k, m \in 1 .. n : p[k] = p[m] => k = m
           /\ \A i \in 1 .. n : \E k \in 1 .. n : p[k] = i
           /\ \A k, m \in 1 .. n : k < m => v[p[k]] >= v[p[m]]
<1>1. \A i \in 1 .. n : ~Falls(v, i, i)
  BY DEF Falls
<1>2. \A k, m \in 1 .. n : p[k] = p[m] => k = m
  <2> SUFFICES ASSUME NEW k \in 1 .. n, NEW m \in 1 .. n, p[k] = p[m], k # m PROVE FALSE
    OBVIOUS
  <2>1. CASE k < m
    BY <1>1, <2>1
  <2>2. CASE m < k
    BY <1>1, <2>2
  <2> QED
    BY <2>1, <2>2
<1>3. \A k, m \in 1 .. n : k < m => v[p[k]] >= v[p[m]]
  <2> SUFFICES ASSUME NEW k \in 1 .. n, NEW m \in 1 .. n, k < m PROVE v[p[k]] >= v[p[m]]
    OBVIOUS
  <2> DEFINE x == v[p[k]]
             y == v[p[m]]
  <2>1. x \in Int /\ y \in Int
    OBVIOUS
  <2>2. x > y \/ x = y
    <3>1. Falls(v, p[k], p[m])
      OBVIOUS
    <3> QED
      BY <3>1 DEF Falls
  <2> HIDE DEF x, y
  <2>3. x >= y
    BY <2>1, <2>2
  <2> QED
    BY <2>3 DEF x, y
<1> DEFINE D == 1 .. n
<1>4. p \in Surjection(D, D)
  <2>1. p \in Injection(D, D)
    BY <1>2 DEF Injection, IsInjective
  <2>2. IsFiniteSet(D) /\ Cardinality(D) = Cardinality(D)
    BY FS_Interval
  <2> HIDE DEF D
  <2> QED
    BY <2>1, <2>2, FS_Injection
<1>5. \A i \in D : \E k \in D : p[k] = i
  BY <1>4 DEF Surjection
<1> QED
  BY <1>2, <1>3, <1>5

\* sc has every result of R once, with its score; n of them.
Listed(sc, n, R, S) ==
    /\ sc \in Seq({sc[k] : k \in DOMAIN sc}) /\ DOMAIN sc = 1 .. n /\ Len(sc) = n
    /\ \A k \in 1 .. n : /\ {"r", "score"} \subseteq DOMAIN sc[k]
                         /\ sc[k].r \in R /\ sc[k].score = S[sc[k].r]
    /\ \A k, m \in 1 .. n : sc[k].r = sc[m].r => k = m
    /\ \A r \in R : \E k \in 1 .. n : sc[k].r = r
Descends(sc, n) == \A k, m \in 1 .. n : k < m => sc[k].score >= sc[m].score

LEMMA SortedLists ==
    ASSUME NEW n \in Nat, NEW R, NEW S \in [R -> Int], NEW u, Listed(u, n, R, S)
    PROVE  Listed(Matching!Sorted(u), n, R, S) /\ Descends(Matching!Sorted(u), n)
<1> DEFINE D == 1 .. n
           v == [i \in D |-> u[i].score]
           good(p) == \A k, m \in D : k < m => Falls(v, p[k], p[m])
           order == CHOOSE p \in [D -> D] : good(p)
           sc == [k \in D |-> u[order[k]]]
<1>1. DOMAIN u = D /\ v \in [D -> Int]
  BY DEF Listed
<1>2. \E p \in [D -> D] : good(p)
  <2> HIDE DEF v
  <2> QED
    BY <1>1, OrderExists
<1>3. order \in [D -> D] /\ good(order)
  <2> HIDE DEF good, D
  <2> QED
    BY <1>2
<1>4. Matching!Sorted(u) = sc
  <2>1. \A p \in [D -> D] : good(p) <=> \A m, k \in D : m < k => ((u[p[m]].score > u[p[k]].score)
                                                               \/ (u[p[m]].score = u[p[k]].score /\ p[m] < p[k]))
    BY DEF Falls
  <2>2. order = CHOOSE p \in [D -> D] : \A m, k \in D : m < k => ((u[p[m]].score > u[p[k]].score)
                                                               \/ (u[p[m]].score = u[p[k]].score /\ p[m] < p[k]))
    <3> HIDE DEF good, D
    <3> QED
      BY <2>1
  <2> HIDE DEF D, order
  <2> QED
    BY <1>1, <2>2 DEF Matching!Sorted
<1> HIDE DEF order
<1>5. /\ \A k, m \in D : order[k] = order[m] => k = m
      /\ \A i \in D : \E k \in D : order[k] = i
      /\ \A k, m \in D : k < m => v[order[k]] >= v[order[m]]
  <2> HIDE DEF v
  <2> QED
    BY <1>1, <1>3, OrderIsOnto
<1>6. \A k \in D : order[k] \in D /\ sc[k] = u[order[k]]
  BY <1>3
<1>7. Descends(sc, n)
  BY <1>5, <1>6 DEF Descends
<1>8. DOMAIN sc = D /\ sc \in Seq({sc[k] : k \in DOMAIN sc}) /\ Len(sc) = n
  <2>1. DOMAIN sc = D
    OBVIOUS
  <2>2. \A k \in D : sc[k] \in {sc[j] : j \in DOMAIN sc}
    BY <2>1
  <2> QED
    BY <2>1, <2>2
<1> HIDE DEF sc, v
<1>9. Listed(sc, n, R, S)
  <2>1. /\ \A k \in D : /\ {"r", "score"} \subseteq DOMAIN u[k]
                         /\ u[k].r \in R /\ u[k].score = S[u[k].r]
        /\ \A k, m \in D : u[k].r = u[m].r => k = m
        /\ \A r \in R : \E k \in D : u[k].r = r
    BY DEF Listed
  <2> HIDE DEF D
  <2>2. \A k \in D : /\ {"r", "score"} \subseteq DOMAIN sc[k]
                     /\ sc[k].r \in R /\ sc[k].score = S[sc[k].r]
    BY <1>6, <2>1
  <2>3. \A k, m \in D : sc[k].r = sc[m].r => k = m
    BY <1>5, <1>6, <2>1
  <2>4. \A r \in R : \E k \in D : sc[k].r = r
    <3> TAKE r \in R
    <3>1. PICK i \in D : u[i].r = r
      BY <2>1
    <3>2. PICK k \in D : order[k] = i
      BY <1>5
    <3> QED
      BY <1>6, <3>1, <3>2
  <2> QED
    BY <1>8, <2>2, <2>3, <2>4 DEF Listed, D
<1> QED
  BY <1>4, <1>7, <1>9

\* A highest number there is, of numbers that are bounded.
LEMMA HighestOfSome ==
    ASSUME NEW b \in Int, NEW S \in SUBSET Int, S # {}, \A s \in S : s <= b
    PROVE  Matching!Highest(S) \in S
<1> DEFINE T == {b - s : s \in S}
<1>1. T \in SUBSET Nat /\ T # {}
  <2>1. ASSUME NEW s \in S PROVE b - s \in Nat
    <3>1. s \in Int /\ s <= b
      OBVIOUS
    <3> QED
      BY <3>1
  <2> QED
    BY <2>1
<1>2. PICK t \in T : \A q \in T : ~(<<q, t>> \in OpToRel(<, Nat))
  <2> HIDE DEF T
  <2> QED
    BY <1>1, WFMin, NatLessThanWellFounded
<1>3. \A q \in T : t <= q
  <2> HIDE DEF T
  <2> SUFFICES ASSUME NEW q \in T PROVE ~(q < t)
    BY <1>1
  <2>1. <<q, t>> \in Nat \X Nat /\ <<q, t>>[1] = q /\ <<q, t>>[2] = t
    BY <1>1
  <2>2. <<q, t>> \notin {ss \in Nat \X Nat : ss[1] < ss[2]}
    BY <1>2 DEF OpToRel
  <2> QED
    BY <2>1, <2>2
<1>4. PICK m \in S : t = b - m
  OBVIOUS
<1>5. \A s \in S : s <= m
  <2> SUFFICES ASSUME NEW s \in S PROVE s <= m
    OBVIOUS
  <2>1. b - s \in T
    OBVIOUS
  <2>2. t <= b - s /\ s \in Int /\ m \in Int
    BY <1>3, <2>1
  <2> QED
    BY <1>4, <2>2
<1> QED
  BY <1>5 DEF Matching!Highest

\* The score of each result, whatever list it is in.
Titled(f, R) ==
    [r \in R |-> Matching!Highest({Matching!TitleScore(f, r.title, r.year),
                                   Matching!TitleScore(f, r.folderTitle, r.year)})]
Boosted(f, R) ==
    LET S == Titled(f, R)
    IN  IF (\E r \in R : S[r] >= Threshold) /\ ~f.evidence THEN S
        ELSE [r \in R |-> Matching!Highest({S[r]} \cup {Matching!AltScore(f, t, r.year) : t \in r.alts})]
Evident(f, R) ==
    LET S == Boosted(f, R)
    IN  IF ~f.evidence \/ \E r \in R : ~r.mapped THEN S
        ELSE [r \in R |-> IF r.fit = Unknown THEN S[r] ELSE S[r] + Matching!Adjustment(r.fit)]

LEMMA Tenths == \A x \in Int : x \div 10 \in Int /\ (x <= 10000 => x \div 10 <= 1000)
OBVIOUS

LEMMA ScoresAreWhole ==
    ASSUME NEW f, NEW R, \A r \in R : Told(r)
    PROVE  Titled(f, R) \in [R -> Int] /\ Boosted(f, R) \in [R -> Int] /\ Evident(f, R) \in [R -> Int]
<1> DEFINE small(s) == s \in Int /\ s <= 2000
<1>1. ASSUME NEW t \in 0 .. 1000, NEW y
      PROVE  small(Matching!TitleScore(f, t, y)) /\ small(Matching!AltScore(f, t, y))
  <2>1. Matching!YearScore(y) \in 0 .. 1000
    BY DEF Matching!YearScore
  <2>2. Matching!Bonus(t) \in {0, 150}
    BY DEF Matching!Bonus
  <2>3. Matching!TitleScore(f, t, y) \in Int /\ Matching!TitleScore(f, t, y) <= 2000
    <3> DEFINE z == IF y = Unknown THEN 0 ELSE Matching!YearScore(y)
               x == t * 7 + z * 3
    <3>0. z \in 0 .. 1000
      BY <2>1
    <3> HIDE DEF z
    <3>1. x \in Int /\ x <= 10000
      BY <3>0
    <3> USE DEF z
    <3>2. Matching!TitleScore(f, t, y) = (IF f.hint THEN x \div 10 ELSE t) + Matching!Bonus(t)
      BY DEF Matching!TitleScore
    <3> HIDE DEF x
    <3>3. x \div 10 \in Int /\ x \div 10 <= 1000
      BY <3>1, Tenths
    <3> QED
      BY <2>2, <3>2, <3>3
  <2>4. Matching!AltScore(f, t, y) \in Int /\ Matching!AltScore(f, t, y) <= 2000
    <3> DEFINE z == IF ~f.hint \/ y = Unknown THEN 0
                    ELSE CASE y = 0 -> 1000 [] y = 1 -> 300 [] OTHER -> 0
               x == t * 7 + z * 3
    <3>1. z \in 0 .. 1000
      OBVIOUS
    <3>2. Matching!AltScore(f, t, y) = (x \div 10) + Matching!Bonus(t)
      BY DEF Matching!AltScore
    <3> HIDE DEF z
    <3>3. x \in Int /\ x <= 10000
      BY <3>1
    <3> HIDE DEF x
    <3>4. x \div 10 \in Int /\ x \div 10 <= 1000
      BY <3>3, Tenths
    <3> QED
      BY <2>2, <3>2, <3>4
  <2> QED
    BY <2>3, <2>4
<1>2. Titled(f, R) \in [R -> Int]
  <2> SUFFICES ASSUME NEW r \in R PROVE Titled(f, R)[r] \in Int
    BY DEF Titled
  <2>0. r.title \in 0 .. 1000 /\ r.folderTitle \in 0 .. 1000
    BY DEF Told
  <2> DEFINE one   == Matching!TitleScore(f, r.title, r.year)
             other == Matching!TitleScore(f, r.folderTitle, r.year)
             both  == {one, other}
             top   == 2000
  <2>1. small(one) /\ small(other)
    <3> HIDE DEF small
    <3> QED
      BY <1>1, <2>0, Zenon
  <2>2. one \in Int /\ one <= 2000 /\ other \in Int /\ other <= 2000
    BY <2>1
  <2>3. Titled(f, R)[r] = Matching!Highest(both)
    BY DEF Titled
  <2> HIDE DEF one, other
  <2>4. both \in SUBSET Int /\ both # {} /\ top \in Int /\ \A s \in both : s <= top
    BY <2>2
  <2> HIDE DEF both, top
  <2>5. Matching!Highest(both) \in both
    BY <2>4, HighestOfSome
  <2> QED
    BY <2>3, <2>4, <2>5
<1>3. Boosted(f, R) \in [R -> Int]
  <2> DEFINE W == Titled(f, R)
             alt(r) == {W[r]} \cup {Matching!AltScore(f, t, r.year) : t \in r.alts}
  <2> HIDE DEF W
  <2>1. ASSUME NEW r \in R PROVE Matching!Highest(alt(r)) \in Int
    <3> DEFINE S == alt(r)
               b == IF W[r] > 2000 THEN W[r] ELSE 2000
    <3>1. W[r] \in Int
      BY <1>2 DEF W
    <3>2. S \in SUBSET Int /\ S # {} /\ b \in Int /\ \A s \in S : s <= b
      <4>1. r.alts \subseteq 0 .. 1000
        BY DEF Told
      <4>2. b \in Int /\ W[r] <= b /\ 2000 <= b
        BY <3>1
      <4> HIDE DEF b
      <4>3. ASSUME NEW t \in r.alts
            PROVE  Matching!AltScore(f, t, r.year) \in Int /\ Matching!AltScore(f, t, r.year) <= b
        <5>1. small(Matching!AltScore(f, t, r.year))
          <6>1. t \in 0 .. 1000
            BY <4>1
          <6> HIDE DEF small
          <6> QED
            BY <1>1, <6>1, Zenon
        <5> QED
          BY <4>2, <5>1
      <4> QED
        BY <3>1, <4>2, <4>3
    <3> HIDE DEF S, b
    <3>3. Matching!Highest(S) \in S
      BY <3>2, HighestOfSome
    <3> QED
      BY <3>2, <3>3 DEF S
  <2> QED
    BY <1>2, <2>1 DEF Boosted, W
<1>4. Evident(f, R) \in [R -> Int]
  <2> DEFINE W == Boosted(f, R)
  <2> HIDE DEF W
  <2>1. ASSUME NEW r \in R, r.fit # Unknown PROVE W[r] + Matching!Adjustment(r.fit) \in Int
    <3>1. W[r] \in Int
      BY <1>3 DEF W
    <3>2. /\ r.fit.seasons \in 0 .. 100 /\ r.fit.episodes \in 0 .. 100
          /\ r.fit.titles = Unknown \/ r.fit.titles \in 0 .. 100
      BY <2>1 DEF Told
    <3>3. Matching!Adjustment(r.fit) \in Int
      <4> DEFINE x == (r.fit.seasons - 50) * 24
                 y == r.fit.titles * 24
                 p == IF r.fit.titles = Unknown THEN 0 ELSE y \div 10
                 q == IF r.fit.titles # Unknown /\ r.fit.titles < 35 THEN 120 ELSE 0
      <4>1. x \in Int /\ (r.fit.titles # Unknown => y \in Int)
        BY <3>2
      <4>2. Matching!Adjustment(r.fit) = (x \div 10) + r.fit.episodes + p - q
        BY DEF Matching!Adjustment
      <4> HIDE DEF x, y
      <4>3. (x \div 10) \in Int /\ p \in Int /\ q \in Int
        BY <4>1, Tenths
      <4> HIDE DEF p, q
      <4> QED
        BY <3>2, <4>2, <4>3
    <3> QED
      BY <3>1, <3>3
  <2> QED
    BY <1>3, <2>1 DEF Evident, W
<1> QED
  BY <1>2, <1>3, <1>4

LEMMA PlacesMakeALine ==
    ASSUME NEW n \in Nat, NEW u, u = [k \in 1 .. n |-> u[k]]
    PROVE  u \in Seq({u[k] : k \in DOMAIN u}) /\ DOMAIN u = 1 .. n /\ Len(u) = n
<1> DEFINE A == {u[j] : j \in DOMAIN u}
<1>1. DOMAIN u = 1 .. n /\ \A k \in 1 .. n : u[k] \in A
  OBVIOUS
<1> HIDE DEF A
<1>2. u \in [1 .. n -> A]
  BY <1>1
<1>3. u \in Seq(A)
  BY <1>2
<1>4. Len(u) = n
  BY <1>1, <1>3
<1> QED
  BY <1>1, <1>3, <1>4 DEF A

\* A list of the same results with other scores.
LEMMA Rescored ==
    ASSUME NEW n \in Nat, NEW s, NEW R, NEW S, NEW u, NEW T, Listed(s, n, R, S),
           u \in Seq({u[k] : k \in DOMAIN u}) /\ DOMAIN u = 1 .. n /\ Len(u) = n,
           \A k \in 1 .. n : /\ {"r", "score"} \subseteq DOMAIN u[k] /\ u[k].r = s[k].r
                             /\ u[k].score = T[u[k].r]
    PROVE  Listed(u, n, R, T)
<1>1. \A k \in 1 .. n : s[k].r \in R
  BY DEF Listed
<1>2. \A k, m \in 1 .. n : s[k].r = s[m].r => k = m
  BY DEF Listed
<1>3. \A r \in R : \E k \in 1 .. n : s[k].r = r
  BY DEF Listed
<1> QED
  BY <1>1, <1>2, <1>3 DEF Listed

\* A score that is changed leaves the result.
LEMMA ScoreIsSet ==
    ASSUME NEW x, {"r", "score"} \subseteq DOMAIN x, NEW s
    PROVE  LET y == [x EXCEPT !.score = s]
           IN  {"r", "score"} \subseteq DOMAIN y /\ y.r = x.r /\ y.score = s
OBVIOUS

\* results has every result of R once.
OneEach(results, n, R) ==
    /\ DOMAIN results = 1 .. n
    /\ \A i \in 1 .. n : results[i] \in R
    /\ \A i, j \in 1 .. n : results[i] = results[j] => i = j
    /\ \A r \in R : \E i \in 1 .. n : results[i] = r

\* Whatever the order of the results, the list of them has each with its score, the
\* better ones first.
LEMMA ScoredLists ==
    ASSUME NEW f, NEW n \in Nat \ {0}, NEW R, \A r \in R : Told(r), NEW results,
           Threshold \in Nat, AltCandidates \in Nat, n <= AltCandidates,
           OneEach(results, n, R)
    PROVE  LET sc == Matching!Scored(f, results)
           IN  Listed(sc, n, R, Evident(f, R)) /\ Descends(sc, n)
<1> DEFINE byTitle == Matching!ByTitle(f, results)
           boosted == Matching!WithAltTitles(f, byTitle)
           sc      == Matching!WithEvidence(f, boosted)
           alt(r)  == Matching!Highest({Titled(f, R)[r]}
                                       \cup {Matching!AltScore(f, t, r.year) : t \in r.alts})
           seen(r) == Boosted(f, R)[r] + Matching!Adjustment(r.fit)
<1>0. Titled(f, R) \in [R -> Int] /\ Boosted(f, R) \in [R -> Int] /\ Evident(f, R) \in [R -> Int]
  BY ScoresAreWhole
<1>1. Listed(byTitle, n, R, Titled(f, R)) /\ Descends(byTitle, n)
  <2> DEFINE u == [i \in DOMAIN results |->
                      LET r == results[i]
                      IN  [r |-> r, score |-> Matching!Highest({Matching!TitleScore(f, r.title, r.year),
                                                       Matching!TitleScore(f, r.folderTitle, r.year)})]]
  <2>0. /\ DOMAIN results = 1 .. n /\ \A i \in 1 .. n : results[i] \in R
        /\ \A i, j \in 1 .. n : results[i] = results[j] => i = j
        /\ \A r \in R : \E i \in 1 .. n : results[i] = r
    BY DEF OneEach
  <2>1. byTitle = Matching!Sorted(u)
    BY DEF Matching!ByTitle
  <2>2. \A k \in 1 .. n : /\ {"r", "score"} \subseteq DOMAIN u[k]
                          /\ u[k].r = results[k] /\ u[k].score = Titled(f, R)[u[k].r]
    BY <2>0 DEF Titled
  <2>3. u = [k \in 1 .. n |-> u[k]]
    BY <2>0
  <2> HIDE DEF u
  <2>4. u \in Seq({u[k] : k \in DOMAIN u}) /\ DOMAIN u = 1 .. n /\ Len(u) = n
    BY <2>3, PlacesMakeALine
  <2>5. Listed(u, n, R, Titled(f, R))
    BY <2>0, <2>2, <2>4 DEF Listed
  <2> QED
    BY <1>0, <2>1, <2>5, SortedLists
<1> HIDE DEF byTitle
<1>2. byTitle[1].score >= Threshold <=> \E r \in R : Titled(f, R)[r] >= Threshold
  <2>1. 1 \in 1 .. n /\ byTitle[1].r \in R /\ byTitle[1].score = Titled(f, R)[byTitle[1].r]
    BY <1>1 DEF Listed
  <2>2. ASSUME NEW r \in R PROVE Titled(f, R)[r] <= byTitle[1].score
    <3>1. PICK k \in 1 .. n : byTitle[k].r = r
      BY <1>1 DEF Listed
    <3>2. byTitle[k].score = Titled(f, R)[r]
      BY <1>1, <3>1 DEF Listed
    <3>3. Titled(f, R)[r] \in Int
      BY <1>0
    <3>4. k = 1 \/ 1 < k
      OBVIOUS
    <3> QED
      BY <1>1, <2>1, <3>2, <3>3, <3>4 DEF Descends
  <2>3. \A r \in R : Titled(f, R)[r] \in Int
    BY <1>0
  <2> QED
    BY <2>1, <2>2, <2>3
<1>3. Head(byTitle) = byTitle[1]
  BY <1>1 DEF Listed
<1>4. Listed(boosted, n, R, Boosted(f, R)) /\ Descends(boosted, n)
  <2>1. CASE byTitle[1].score >= Threshold /\ ~f.evidence
    <3>1. boosted = byTitle
      BY <1>3, <2>1 DEF Matching!WithAltTitles
    <3>2. Boosted(f, R) = Titled(f, R)
      BY <1>2, <2>1 DEF Boosted
    <3> QED
      BY <1>1, <3>1, <3>2
  <2>2. CASE ~(byTitle[1].score >= Threshold /\ ~f.evidence)
    <3> DEFINE new(s) == Matching!Highest({s.score} \cup {Matching!AltScore(f, t, s.r.year) : t \in s.r.alts})
               u == [i \in DOMAIN byTitle |->
                        LET s == byTitle[i]
                        IN  IF i > AltCandidates THEN s
                            ELSE [s EXCEPT !.score =
                                    Matching!Highest({@} \cup {Matching!AltScore(f, t, s.r.year) : t \in s.r.alts})]]
    <3>1. boosted = Matching!Sorted(u)
      BY <1>3, <2>2 DEF Matching!WithAltTitles
    <3>2. Boosted(f, R) = [r \in R |-> alt(r)]
      BY <1>2, <2>2 DEF Boosted
    <3>3. u = [k \in 1 .. n |-> u[k]] /\ DOMAIN byTitle = 1 .. n
      BY <1>1 DEF Listed
    <3>4. ASSUME NEW k \in 1 .. n PROVE u[k] = [byTitle[k] EXCEPT !.score = new(byTitle[k])]
      <4>1. ~(k > AltCandidates)
        OBVIOUS
      <4> QED
        BY <3>3, <4>1
    <3> HIDE DEF u
    <3>5. u \in Seq({u[k] : k \in DOMAIN u}) /\ DOMAIN u = 1 .. n /\ Len(u) = n
      BY <3>3, PlacesMakeALine
    <3>6. ASSUME NEW k \in 1 .. n
          PROVE  /\ {"r", "score"} \subseteq DOMAIN u[k] /\ u[k].r = byTitle[k].r
                 /\ u[k].score = Boosted(f, R)[u[k].r]
      <4> DEFINE x == byTitle[k]
      <4>1. {"r", "score"} \subseteq DOMAIN x /\ x.r \in R /\ x.score = Titled(f, R)[x.r]
        BY <1>1 DEF Listed
      <4>2. u[k] = [x EXCEPT !.score = new(x)]
        BY <3>4
      <4>3. new(x) = alt(x.r)
        BY <4>1
      <4> HIDE DEF x, new, alt
      <4>4. {"r", "score"} \subseteq DOMAIN u[k] /\ u[k].r = x.r /\ u[k].score = new(x)
        BY <4>1, <4>2, ScoreIsSet
      <4>5. u[k].score = Boosted(f, R)[u[k].r]
        BY <3>2, <4>1, <4>3, <4>4
      <4> QED
        BY <4>4, <4>5 DEF x
    <3>7. Listed(u, n, R, Boosted(f, R))
      BY <1>1, <3>5, <3>6, Rescored
    <3> QED
      BY <1>0, <3>1, <3>7, SortedLists
  <2> QED
    BY <2>1, <2>2
<1> HIDE DEF boosted
<1>5. (\E i \in DOMAIN boosted : i <= AltCandidates /\ ~boosted[i].r.mapped) <=> \E r \in R : ~r.mapped
  <2>1. /\ DOMAIN boosted = 1 .. n /\ \A k \in 1 .. n : boosted[k].r \in R /\ k <= AltCandidates
        /\ \A r \in R : \E k \in 1 .. n : boosted[k].r = r
    BY <1>4 DEF Listed
  <2>2. ASSUME NEW r \in R, ~r.mapped
        PROVE  \E i \in DOMAIN boosted : i <= AltCandidates /\ ~boosted[i].r.mapped
    <3>1. PICK i \in 1 .. n : boosted[i].r = r
      BY <2>1
    <3> QED
      BY <2>1, <2>2, <3>1
  <2>3. ASSUME NEW i \in DOMAIN boosted, ~boosted[i].r.mapped PROVE \E r \in R : ~r.mapped
    BY <2>1, <2>3
  <2> QED
    BY <2>2, <2>3
<1>6. Listed(sc, n, R, Evident(f, R)) /\ Descends(sc, n)
  <2>1. CASE ~f.evidence \/ \E r \in R : ~r.mapped
    <3>1. sc = boosted
      BY <1>5, <2>1 DEF Matching!WithEvidence
    <3>2. Evident(f, R) = Boosted(f, R)
      BY <2>1 DEF Evident
    <3> QED
      BY <1>4, <3>1, <3>2
  <2>2. CASE ~(~f.evidence \/ \E r \in R : ~r.mapped)
    <3> DEFINE u == [i \in DOMAIN boosted |->
                        IF i > AltCandidates \/ boosted[i].r.fit = Unknown THEN boosted[i]
                        ELSE [boosted[i] EXCEPT !.score = @ + Matching!Adjustment(boosted[i].r.fit)]]
    <3>1. sc = Matching!Sorted(u)
      BY <1>5, <2>2 DEF Matching!WithEvidence
    <3>2. Evident(f, R) = [r \in R |-> IF r.fit = Unknown THEN Boosted(f, R)[r] ELSE seen(r)]
      BY <2>2 DEF Evident
    <3>3. u = [k \in 1 .. n |-> u[k]] /\ DOMAIN boosted = 1 .. n
      BY <1>4 DEF Listed
    <3>4. ASSUME NEW k \in 1 .. n
          PROVE  u[k] = IF boosted[k].r.fit = Unknown THEN boosted[k]
                        ELSE [boosted[k] EXCEPT !.score = boosted[k].score + Matching!Adjustment(boosted[k].r.fit)]
      <4>1. ~(k > AltCandidates)
        OBVIOUS
      <4> QED
        BY <3>3, <4>1
    <3> HIDE DEF u
    <3>5. u \in Seq({u[k] : k \in DOMAIN u}) /\ DOMAIN u = 1 .. n /\ Len(u) = n
      BY <3>3, PlacesMakeALine
    <3>6. ASSUME NEW k \in 1 .. n
          PROVE  /\ {"r", "score"} \subseteq DOMAIN u[k] /\ u[k].r = boosted[k].r
                 /\ u[k].score = Evident(f, R)[u[k].r]
      <4> DEFINE x == boosted[k]
      <4>1. {"r", "score"} \subseteq DOMAIN x /\ x.r \in R /\ x.score = Boosted(f, R)[x.r]
        BY <1>4 DEF Listed
      <4>2. u[k] = IF x.r.fit = Unknown THEN x
                   ELSE [x EXCEPT !.score = x.score + Matching!Adjustment(x.r.fit)]
        BY <3>4
      <4>3. x.score + Matching!Adjustment(x.r.fit) = seen(x.r)
        BY <4>1
      <4> HIDE DEF x, seen
      <4>4. CASE x.r.fit = Unknown
        BY <3>2, <4>1, <4>2, <4>4 DEF x
      <4>5. CASE x.r.fit # Unknown
        <5>1. u[k] = [x EXCEPT !.score = seen(x.r)]
          BY <4>2, <4>3, <4>5
        <5>2. {"r", "score"} \subseteq DOMAIN u[k] /\ u[k].r = x.r /\ u[k].score = seen(x.r)
          BY <4>1, <5>1, ScoreIsSet
        <5> QED
          BY <3>2, <4>1, <4>5, <5>2 DEF x
      <4> QED
        BY <4>4, <4>5
    <3>7. Listed(u, n, R, Evident(f, R))
      BY <1>4, <3>5, <3>6, Rescored
    <3> QED
      BY <1>0, <3>1, <3>7, SortedLists
  <2> QED
    BY <2>1, <2>2
<1>7. Matching!Scored(f, results) = sc
  BY DEF Matching!Scored, boosted, byTitle
<1> QED
  BY <1>6, <1>7

\* A result is told from another by its name or its year in one way at most.
LEMMA ToldApartOneWay ==
    ASSUME NEW f, NEW a, NEW b, Told(a), Told(b),
           Matching!PrimaryNameBreaksTie(f, a, b) \/ Matching!YearHintBreaksTie(f, a, b),
           Matching!PrimaryNameBreaksTie(f, b, a) \/ Matching!YearHintBreaksTie(f, b, a)
    PROVE  FALSE
<1>1. /\ a.year = Unknown \/ a.year \in Nat
      /\ b.year = Unknown \/ b.year \in Nat
  BY DEF Told
<1> QED
  BY <1>1 DEF Matching!PrimaryNameBreaksTie, Matching!YearHintBreaksTie

LEMMA CountsAreWhole ==
    ASSUME NEW f, f.count \in Nat, NEW r, Told(r)
    PROVE  Matching!AbsDiff(Matching!CountOf(f, r), f.count) \in Int
<1>1. Matching!CountOf(f, r) \in Nat
  BY DEF Matching!CountOf, Told
<1> QED
  BY <1>1 DEF Matching!AbsDiff

\* Of two lists of the same results the best stand first, where two are near at most.
LEMMA TopTwo ==
    ASSUME NEW n \in Nat, n >= 2, NEW R, NEW S \in [R -> Int], NEW sc, NEW other,
           Listed(sc, n, R, S), Descends(sc, n), Listed(other, n, R, S), Descends(other, n),
           n >= 3 => sc[1].score - sc[3].score > 100
    PROVE  /\ sc[1].score - sc[2].score > 100
                  => other[1].r = sc[1].r /\ other[1].score - other[2].score > 100
           /\ ~(sc[1].score - sc[2].score > 100)
                  => /\ Matching!Contenders(sc) = {1, 2} /\ Matching!Contenders(other) = {1, 2}
                     /\ ~(other[1].score - other[2].score > 100)
                     /\ {other[1].r, other[2].r} = {sc[1].r, sc[2].r}
<1> DEFINE D == 1 .. n
           x == sc[1].r
           y == sc[2].r
           M == S[x]
<1>1. /\ DOMAIN sc = D /\ \A k \in D : sc[k].r \in R /\ sc[k].score = S[sc[k].r]
      /\ \A k, m \in D : sc[k].r = sc[m].r => k = m
      /\ \A r \in R : \E k \in D : sc[k].r = r
  BY DEF Listed
<1>2. /\ DOMAIN other = D /\ \A k \in D : other[k].r \in R /\ other[k].score = S[other[k].r]
      /\ \A k, m \in D : other[k].r = other[m].r => k = m
      /\ \A r \in R : \E k \in D : other[k].r = r
  BY DEF Listed
<1>3. \A k, m \in D : k < m => sc[k].score >= sc[m].score /\ other[k].score >= other[m].score
  BY DEF Descends
<1>4. 1 \in D /\ 2 \in D /\ \A k \in D : k = 1 \/ k = 2 \/ (k >= 3 /\ 3 \in D)
  OBVIOUS
<1> HIDE DEF D
<1>5. x \in R /\ y \in R /\ x # y /\ M \in Int /\ S[y] \in Int /\ S[y] <= M
  <2>1. x \in R /\ y \in R /\ x # y /\ sc[1].score = M /\ sc[2].score = S[y]
    BY <1>1, <1>4
  <2>2. M \in Int /\ S[y] \in Int
    BY <2>1
  <2> QED
    BY <1>3, <1>4, <2>1, <2>2
<1>6. ASSUME NEW r \in R, r # x, r # y PROVE S[r] < M - 100
  <2>1. PICK k \in D : sc[k].r = r
    BY <1>1
  <2>2. k >= 3 /\ 3 \in D /\ k \in Int
    BY <1>4, <1>6, <2>1 DEF D
  <2>3. sc[3].score \in Int /\ sc[k].score = S[r] /\ sc[1].score = M /\ S[r] \in Int
    BY <1>1, <1>4, <2>1, <2>2
  <2>4. sc[k].score <= sc[3].score
    BY <1>3, <2>2, <2>3
  <2>5. M - sc[3].score > 100
    BY <2>2, <2>3 DEF D
  <2> QED
    BY <1>5, <2>3, <2>4, <2>5
<1>7. ASSUME NEW r \in R PROVE S[r] <= other[1].score /\ S[r] \in Int /\ other[1].score \in Int
  <2>1. PICK k \in D : other[k].r = r
    BY <1>2
  <2>2. other[k].score = S[r] /\ S[r] \in Int /\ other[1].score \in Int
    BY <1>2, <1>4, <2>1
  <2>3. k = 1 \/ 1 < k
    BY DEF D
  <2> QED
    BY <1>3, <1>4, <2>2, <2>3
<1>8. other[1].score = M /\ other[1].r \in {x, y}
  <2>1. M <= other[1].score
    BY <1>5, <1>7
  <2>2. other[1].r \in R /\ other[1].score = S[other[1].r]
    BY <1>2, <1>4
  <2>3. other[1].r \in {x, y}
    BY <1>5, <1>6, <1>7, <2>1, <2>2
  <2> QED
    BY <1>5, <2>1, <2>2, <2>3
<1>9. /\ other[2].r \in R /\ other[2].score = S[other[2].r] /\ S[other[2].r] \in Int
      /\ other[2].r # other[1].r /\ sc[1].score = M /\ sc[2].score = S[y]
  BY <1>1, <1>2, <1>4
<1>10. CASE M - S[y] > 100
  <2>1. other[1].r = x
    <3>1. other[1].score = S[other[1].r]
      BY <1>2, <1>4
    <3> QED
      BY <1>5, <1>8, <1>10, <3>1
  <2>2. S[other[2].r] < M - 100
    BY <1>5, <1>6, <1>9, <1>10, <2>1
  <2> QED
    BY <1>5, <1>8, <1>9, <1>10, <2>1, <2>2
<1>11. CASE ~(M - S[y] > 100)
  <2>1. other[2].r \in {x, y}
    <3> SUFFICES ASSUME other[2].r \notin {x, y} PROVE FALSE
      OBVIOUS
    <3>1. PICK r \in {x, y} : r # other[1].r
      BY <1>5
    <3>2. r \in R /\ r # other[2].r /\ S[r] >= M - 100
      BY <1>5, <1>11, <3>1
    <3>3. PICK k \in D : other[k].r = r
      BY <1>2, <3>2
    <3>4. k > 2
      BY <3>1, <3>2, <3>3, <1>4 DEF D
    <3>5. other[k].score <= other[2].score /\ other[k].score = S[r] /\ S[r] \in Int
      BY <1>2, <1>3, <1>4, <3>2, <3>3, <3>4
    <3>6. S[other[2].r] < M - 100
      BY <1>6, <1>9
    <3> QED
      BY <1>5, <1>9, <3>2, <3>5, <3>6
  <2>2. {other[1].r, other[2].r} = {x, y}
    BY <1>8, <1>9, <2>1
  <2>3. S[x] >= M - 100 /\ S[y] >= M - 100 /\ S[other[2].r] >= M - 100
    BY <1>5, <1>11, <2>1
  <2>4. ASSUME NEW k \in D PROVE (sc[1].score - sc[k].score <= 100) <=> k \in {1, 2}
    <3>1. sc[k].r \in R /\ sc[k].score = S[sc[k].r] /\ sc[k].score \in Int
      BY <1>1
    <3>2. CASE k \in {1, 2}
      BY <1>5, <1>9, <2>3, <3>1, <3>2
    <3>3. CASE k \notin {1, 2}
      <4>1. sc[k].r # x /\ sc[k].r # y
        BY <1>1, <1>4, <3>3
      <4>2. S[sc[k].r] < M - 100
        BY <1>6, <3>1, <4>1
      <4> QED
        BY <1>5, <1>9, <3>1, <3>3, <4>2
    <3> QED
      BY <3>2, <3>3
  <2>5. ASSUME NEW k \in D PROVE (other[1].score - other[k].score <= 100) <=> k \in {1, 2}
    <3>1. other[k].r \in R /\ other[k].score = S[other[k].r] /\ other[k].score \in Int
      BY <1>2
    <3>2. CASE k \in {1, 2}
      BY <1>5, <1>8, <1>9, <2>3, <3>1, <3>2
    <3>3. CASE k \notin {1, 2}
      <4>1. other[k].r # other[1].r /\ other[k].r # other[2].r
        BY <1>2, <1>4, <3>3
      <4>2. other[k].r # x /\ other[k].r # y
        BY <2>2, <4>1
      <4>3. S[other[k].r] < M - 100
        BY <1>6, <3>1, <4>2
      <4> QED
        BY <1>5, <1>8, <3>1, <3>3, <4>3
    <3> QED
      BY <3>2, <3>3
  <2>6. Matching!Contenders(sc) = {1, 2} /\ Matching!Contenders(other) = {1, 2}
    BY <1>1, <1>2, <1>4, <2>4, <2>5 DEF Matching!Contenders
  <2>7. ~(other[1].score - other[2].score > 100)
    BY <1>5, <1>8, <1>9, <2>3
  <2> QED
    BY <1>9, <1>11, <2>2, <2>6, <2>7
<1> QED
  BY <1>10, <1>11

\* Of two near results the counts name a winner, or the first wins and is not told
\* from the other.
LEMMA WinnerOfTwo ==
    ASSUME NEW f, f.count \in Nat, NEW n \in Nat, n >= 2, NEW R, \A r \in R : Told(r),
           NEW S \in [R -> Int], NEW sc, Listed(sc, n, R, S),
           Matching!Contenders(sc) = {1, 2}, ~(sc[1].score - sc[2].score > 100)
    PROVE  LET t     == Matching!Tiebreak(f, sc)
               other == IF t.best = 1 THEN 2 ELSE 1
               open  == f.count = 0 \/ ~sc[1].r.details \/ ~sc[2].r.details
           IN  /\ t.best \in {1, 2}
               /\ open => t.best = 1 /\ ~t.settled
               /\ ~open => /\ Matching!Nearer(f, sc, t.best, other)
                           /\ t.settled => Matching!Discriminated(f, sc, t.best)
<1> DEFINE t     == Matching!Tiebreak(f, sc)
           open  == f.count = 0 \/ ~sc[1].r.details \/ ~sc[2].r.details
           first(i) == \A j \in {1, 2} : Matching!Nearer(f, sc, i, j)
           best  == CHOOSE i \in {1, 2} : first(i)
<1>1. Len(sc) = n /\ 1 \in 1 .. n /\ 2 \in 1 .. n
  BY DEF Listed
<1>2. t = IF open THEN [best |-> 1, settled |-> FALSE]
          ELSE [best |-> best, settled |-> Matching!Discriminated(f, sc, best)]
  <2>1. (f.count = 0 \/ Len(sc) < 2 \/ sc[1].score - sc[2].score > 100
            \/ \E i \in {1, 2} : ~sc[i].r.details) <=> open
    BY <1>1
  <2> HIDE DEF open
  <2> QED
    BY <2>1 DEF Matching!Tiebreak
<1>3. \E i \in {1, 2} : first(i)
  <2> DEFINE away(i) == Matching!AbsDiff(Matching!CountOf(f, sc[i].r), f.count)
  <2>1. ASSUME NEW i \in {1, 2} PROVE away(i) \in Int /\ sc[i].score \in Int /\ sc[i].r.unaired \in BOOLEAN
    <3>1. sc[i].r \in R /\ sc[i].score \in Int
      BY <1>1 DEF Listed
    <3>2. Told(sc[i].r)
      BY <3>1
    <3>3. away(i) \in Int
      BY <3>2, CountsAreWhole
    <3> QED
      BY <3>1, <3>2, <3>3 DEF Told
  <2>2. ASSUME NEW i \in {1, 2}, NEW j \in {1, 2}
        PROVE  Matching!Nearer(f, sc, i, j) <=>
                  IF sc[i].r.unaired # sc[j].r.unaired THEN ~sc[i].r.unaired
                  ELSE IF away(i) # away(j) THEN away(i) < away(j)
                  ELSE IF sc[i].score # sc[j].score THEN sc[i].score > sc[j].score
                  ELSE i <= j
    BY DEF Matching!Nearer
  <2> HIDE DEF away
  <2>3. Matching!Nearer(f, sc, 1, 1) /\ Matching!Nearer(f, sc, 2, 2)
    BY <2>1, <2>2
  <2>4. Matching!Nearer(f, sc, 1, 2) \/ Matching!Nearer(f, sc, 2, 1)
    BY <2>1, <2>2
  <2> QED
    BY <2>3, <2>4
<1>4. best \in {1, 2} /\ first(best)
  <2> HIDE DEF first
  <2> QED
    BY <1>3
<1>5. Matching!Nearer(f, sc, best, IF best = 1 THEN 2 ELSE 1)
  <2> HIDE DEF best
  <2> QED
    BY <1>4
<1> HIDE DEF best, open
<1> QED
  BY <1>2, <1>4, <1>5 DEF open

\* Two near results, and each the winner of a list: nothing tells them apart, and
\* one of the lists is a tie.
LEMMA TwoOrders ==
    ASSUME NEW f, f.count \in Nat, NEW n \in Nat \ {0}, NEW R, \A r \in R : Told(r),
           NEW S \in [R -> Int], NEW results, NEW others,
           Threshold \in Nat, TieMargin \in Nat,
           Listed(Matching!Scored(f, results), n, R, S), Descends(Matching!Scored(f, results), n),
           Listed(Matching!Scored(f, others), n, R, S), Descends(Matching!Scored(f, others), n),
           n >= 3 => LET sc == Matching!Scored(f, results) IN sc[1].score - sc[3].score > 100,
           Matching!Accepted(Matching!Selected(f, results)),
           Matching!Accepted(Matching!Selected(f, others))
    PROVE  Matching!Selected(f, results).r = Matching!Selected(f, others).r
<1> DEFINE sc  == Matching!Scored(f, results)
           oc  == Matching!Scored(f, others)
           t   == Matching!Tiebreak(f, sc)
           o   == Matching!Tiebreak(f, oc)
           a   == sc[t.best]
           b   == oc[o.best]
<1>1. /\ Matching!Selected(f, results).r = a.r /\ Matching!Selected(f, others).r = b.r
      /\ \E c : c >= Threshold /\ ~Matching!TieDetected(f, sc, t.best, t.settled, c)
      /\ \E c : c >= Threshold /\ ~Matching!TieDetected(f, oc, o.best, o.settled, c)
  BY DEF Matching!Selected, Matching!Accepted
<1>2. /\ Len(sc) = n /\ Len(oc) = n
      /\ \A k \in 1 .. n : /\ sc[k].r \in R /\ sc[k].score = S[sc[k].r] /\ sc[k].score \in Int
                           /\ oc[k].r \in R /\ oc[k].score = S[oc[k].r] /\ oc[k].score \in Int
      /\ \A k, m \in 1 .. n : sc[k].r = sc[m].r => k = m
      /\ \A k, m \in 1 .. n : oc[k].r = oc[m].r => k = m
      /\ \A r \in R : \E k \in 1 .. n : sc[k].r = r
  <2> HIDE DEF sc, oc
  <2>1. Listed(sc, n, R, S) /\ Listed(oc, n, R, S)
    BY DEF sc, oc
  <2>2. ASSUME NEW k \in 1 .. n
        PROVE  /\ sc[k].r \in R /\ sc[k].score = S[sc[k].r] /\ sc[k].score \in Int
               /\ oc[k].r \in R /\ oc[k].score = S[oc[k].r] /\ oc[k].score \in Int
    <3>1. sc[k].r \in R /\ sc[k].score = S[sc[k].r] /\ oc[k].r \in R /\ oc[k].score = S[oc[k].r]
      BY <2>1 DEF Listed
    <3> QED
      BY <3>1
  <2>3. /\ Len(sc) = n /\ Len(oc) = n
        /\ \A k, m \in 1 .. n : sc[k].r = sc[m].r => k = m
        /\ \A k, m \in 1 .. n : oc[k].r = oc[m].r => k = m
        /\ \A r \in R : \E k \in 1 .. n : sc[k].r = r
    BY <2>1 DEF Listed
  <2> QED
    BY <2>2, <2>3
<1> HIDE DEF sc, oc
<1>3. CASE n = 1
  <2>1. t.best = 1 /\ o.best = 1
    BY <1>2, <1>3 DEF Matching!Tiebreak
  <2>2. oc[1].r \in R /\ \A k \in 1 .. n : k = 1
    BY <1>2, <1>3
  <2> QED
    BY <1>1, <1>2, <2>1, <2>2
<1>4. CASE n >= 2
  <2> DEFINE far == sc[1].score - sc[2].score > 100
  <2>0. n \in Nat /\ 1 \in 1 .. n /\ 2 \in 1 .. n
    BY <1>4
  <2>1. /\ far => oc[1].r = sc[1].r /\ oc[1].score - oc[2].score > 100
        /\ ~far => /\ Matching!Contenders(sc) = {1, 2} /\ Matching!Contenders(oc) = {1, 2}
                   /\ ~(oc[1].score - oc[2].score > 100)
                   /\ {oc[1].r, oc[2].r} = {sc[1].r, sc[2].r}
    BY <1>4, <2>0, TopTwo DEF sc, oc
  <2>2. CASE far
    <3>1. t.best = 1 /\ o.best = 1
      BY <2>1, <2>2 DEF Matching!Tiebreak
    <3> QED
      BY <1>1, <2>1, <2>2, <3>1
  <2>3. CASE ~far
    <3> SUFFICES ASSUME a.r # b.r PROVE FALSE
      BY <1>1
    <3> DEFINE ta == IF t.best = 1 THEN 2 ELSE 1
               ob == IF o.best = 1 THEN 2 ELSE 1
               x  == a.r
               y  == b.r
               open == f.count = 0 \/ ~sc[1].r.details \/ ~sc[2].r.details
               away(r) == Matching!AbsDiff(Matching!CountOf(f, r), f.count)
    <3>1. /\ t.best \in {1, 2}
          /\ open => t.best = 1 /\ ~t.settled
          /\ ~open => /\ Matching!Nearer(f, sc, t.best, ta)
                      /\ t.settled => Matching!Discriminated(f, sc, t.best)
      BY <1>4, <2>0, <2>1, <2>3, WinnerOfTwo DEF sc
    <3>2. open <=> f.count = 0 \/ ~oc[1].r.details \/ ~oc[2].r.details
      BY <2>1, <2>3
    <3> HIDE DEF open
    <3>3. /\ o.best \in {1, 2}
          /\ open => o.best = 1 /\ ~o.settled
          /\ ~open => /\ Matching!Nearer(f, oc, o.best, ob)
                      /\ o.settled => Matching!Discriminated(f, oc, o.best)
      BY <1>4, <2>0, <2>1, <2>3, <3>2, WinnerOfTwo DEF oc
    <3> HIDE DEF t, o
    <3>4. ta \in {1, 2} /\ ta # t.best /\ ob \in {1, 2} /\ ob # o.best
      BY <3>1, <3>3
    <3>5. sc[ta].r = y /\ oc[ob].r = x
      BY <2>1, <2>3, <3>1, <3>3, <3>4
    <3>6. /\ x \in R /\ y \in R /\ S[x] \in Int /\ S[y] \in Int
          /\ a.score = S[x] /\ sc[ta].score = S[y] /\ b.score = S[y] /\ oc[ob].score = S[x]
      <4> DEFINE ka == t.best
                 kb == o.best
      <4>1. ka \in 1 .. n /\ kb \in 1 .. n /\ ta \in 1 .. n /\ ob \in 1 .. n
        BY <2>0, <3>1, <3>3, <3>4
      <4>2. x = sc[ka].r /\ y = oc[kb].r /\ a = sc[ka] /\ b = oc[kb]
        OBVIOUS
      <4> HIDE DEF ka, kb, ta, ob, x, y, a, b
      <4>3. x \in R /\ y \in R /\ a.score = S[x] /\ b.score = S[y]
        BY <1>2, <4>1, <4>2
      <4>4. sc[ta].score = S[y] /\ oc[ob].score = S[x]
        BY <1>2, <3>5, <4>1
      <4> QED
        BY <4>3, <4>4
    <3>7. Told(x) /\ Told(y) /\ away(x) \in Int /\ away(y) \in Int
      BY <3>6, CountsAreWhole
    <3>8. S[x] = S[y] /\ ~t.settled /\ ~o.settled
      <4>1. CASE open
        <5>1. t.best = 1 /\ o.best = 1 /\ ta = 2 /\ ob = 2 /\ ~t.settled /\ ~o.settled
          BY <3>1, <3>3, <4>1
        <5>2. sc[1].score >= sc[2].score /\ oc[1].score >= oc[2].score
          BY <2>0 DEF Descends, sc, oc
        <5> QED
          BY <3>6, <5>1, <5>2
      <4>2. CASE ~open
        <5>1. /\ Matching!Nearer(f, sc, t.best, ta) <=>
                    IF x.unaired # y.unaired THEN ~x.unaired
                    ELSE IF away(x) # away(y) THEN away(x) < away(y)
                    ELSE IF S[x] # S[y] THEN S[x] > S[y]
                    ELSE t.best <= ta
              /\ Matching!Nearer(f, oc, o.best, ob) <=>
                    IF y.unaired # x.unaired THEN ~y.unaired
                    ELSE IF away(y) # away(x) THEN away(y) < away(x)
                    ELSE IF S[y] # S[x] THEN S[y] > S[x]
                    ELSE o.best <= ob
          BY <3>5, <3>6 DEF Matching!Nearer
        <5>2. Matching!Discriminated(f, sc, t.best) => away(y) > away(x)
          BY <2>1, <2>3, <3>4, <3>5 DEF Matching!Discriminated
        <5>3. Matching!Discriminated(f, oc, o.best) => away(x) > away(y)
          BY <2>1, <2>3, <3>4, <3>5 DEF Matching!Discriminated
        <5>4. x.unaired \in BOOLEAN /\ y.unaired \in BOOLEAN
          <6> HIDE DEF x, y
          <6> QED
            BY <3>7 DEF Told
        <5> HIDE DEF x, y, away, ta, ob
        <5>5. away(x) = away(y) /\ S[x] = S[y]
          BY <3>1, <3>3, <3>6, <3>7, <4>2, <5>1, <5>4
        <5> QED
          BY <3>1, <3>3, <3>7, <4>2, <5>2, <5>3, <5>5
      <4> QED
        BY <4>1, <4>2
    <3>9. Matching!PrimaryNameBreaksTie(f, x, y) \/ Matching!YearHintBreaksTie(f, x, y)
      <4>1. PICK c : c >= Threshold /\ ~Matching!TieDetected(f, sc, t.best, t.settled, c)
        BY <1>1 DEF t
      <4>2. a.score - sc[ta].score <= TieMargin
        BY <3>6, <3>8
      <4> QED
        BY <1>2, <1>4, <3>5, <3>8, <4>1, <4>2 DEF Matching!TieDetected
    <3>10. Matching!PrimaryNameBreaksTie(f, y, x) \/ Matching!YearHintBreaksTie(f, y, x)
      <4>1. PICK c : c >= Threshold /\ ~Matching!TieDetected(f, oc, o.best, o.settled, c)
        BY <1>1 DEF o
      <4>2. b.score - oc[ob].score <= TieMargin
        BY <3>6, <3>8
      <4> QED
        BY <1>2, <1>4, <3>5, <3>8, <4>1, <4>2 DEF Matching!TieDetected
    <3> HIDE DEF x, y
    <3> QED
      BY <3>7, <3>9, <3>10, ToldApartOneWay
  <2> QED
    BY <2>2, <2>3
<1> QED
  BY <1>3, <1>4

\* The folder's match is none, or the best of its results in the order they came.
MatchInv ==
    /\ folder \in Folders
    /\ origin = "none" => match = Matching!NoMatch
    /\ origin = "auto" =>
          \/ match = Matching!NoMatch
          \/ folder.results # <<>>
             /\ LET s == Matching!Selected(folder, folder.results)
                IN  match = [id |-> s.r.id, confidence |-> s.confidence, tie |-> s.tie]

LEMMA MatchStarts == Matching!MatchInit => MatchInv
BY DEF Matching!MatchInit, MatchInv

LEMMA MatchSteps ==
    ASSUME MatchInv, Matching!MatchNext
    PROVE  MatchInv'
<1> USE DEF MatchInv
<1>1. CASE Matching!TryIdTag
  BY <1>1 DEF Matching!TryIdTag
<1>2. CASE Matching!BuildDiscovered
  <2>1. CASE folder.results = <<>>
    BY <1>2, <2>1 DEF Matching!BuildDiscovered
  <2>2. CASE folder.results # <<>>
    BY <1>2, <2>2 DEF Matching!BuildDiscovered
  <2> QED
    BY <2>1, <2>2
<1>3. ASSUME NEW i \in DOMAIN folder.results, Matching!Rematch(i) PROVE MatchInv'
  BY <1>3 DEF Matching!Rematch
<1> QED
  BY <1>1, <1>2, <1>3 DEF Matching!MatchNext

LEMMA MatchInSuite ==
    /\ SuiteInit => (part = "matching" => MatchInv)
    /\ (part = "matching" => MatchInv) /\ [SuiteNext]_suiteVars => (part = "matching" => MatchInv)'
<1>1. UNCHANGED <<part, matchVars>> /\ (part = "matching" => MatchInv)
         => (part = "matching" => MatchInv)'
  BY DEF matchVars, MatchInv
<1> QED
  BY <1>1, MatchStarts, MatchSteps DEF SuiteInit, SuiteNext, suiteVars

\* The provider's list in another order is of the same results.
LEMMA OrdersList ==
    ASSUME NEW n \in Nat, NEW R, NEW results, OneEach(results, n, R),
           NEW others \in Matching!Orders(results)
    PROVE  OneEach(others, n, R)
<1> DEFINE D == 1 .. n
<1>0. /\ DOMAIN results = D /\ \A i \in D : results[i] \in R
      /\ \A i, j \in D : results[i] = results[j] => i = j
      /\ \A r \in R : \E i \in D : results[i] = r
  BY DEF OneEach
<1>1. PICK p \in [D -> D] : /\ \A i, j \in D : p[i] = p[j] => i = j
                            /\ others = [i \in D |-> results[p[i]]]
  <2>1. PICK p \in {q \in [D -> D] : \A i, j \in DOMAIN q : q[i] = q[j] => i = j} :
               others = [i \in D |-> results[p[i]]]
    BY <1>0 DEF Matching!Orders
  <2> QED
    BY <2>1
<1>2. \A i \in D : \E k \in D : p[k] = i
  <2>1. p \in Injection(D, D)
    BY <1>1 DEF Injection, IsInjective
  <2>2. IsFiniteSet(D) /\ Cardinality(D) = Cardinality(D)
    BY FS_Interval
  <2> HIDE DEF D
  <2>3. p \in Surjection(D, D)
    BY <2>1, <2>2, FS_Injection
  <2> QED
    BY <2>3 DEF Surjection
<1>3. DOMAIN others = D /\ \A i \in D : others[i] = results[p[i]] /\ p[i] \in D
  BY <1>1
<1> HIDE DEF D
<1>4. \A i \in D : others[i] \in R
  BY <1>0, <1>3
<1>5. \A i, j \in D : others[i] = others[j] => i = j
  <2> SUFFICES ASSUME NEW i \in D, NEW j \in D, others[i] = others[j] PROVE i = j
    OBVIOUS
  <2>1. results[p[i]] = results[p[j]] /\ p[i] \in D /\ p[j] \in D
    BY <1>3
  <2>2. p[i] = p[j]
    BY <1>0, <2>1
  <2> QED
    BY <1>1, <2>2
<1>6. \A r \in R : \E i \in D : others[i] = r
  <2> TAKE r \in R
  <2>1. PICK i \in D : results[i] = r
    BY <1>0
  <2>2. PICK k \in D : p[k] = i
    BY <1>2
  <2> QED
    BY <1>3, <2>1, <2>2
<1> QED
  BY <1>3, <1>4, <1>5, <1>6 DEF OneEach, D

\* The best of a list is in it, and the confidence a number.
LEMMA ConfidenceIsWhole ==
    ASSUME NEW f, f.count \in Nat, NEW n \in Nat \ {0}, NEW R, \A r \in R : Told(r),
           NEW S \in [R -> Int], NEW results,
           Listed(Matching!Scored(f, results), n, R, S), Descends(Matching!Scored(f, results), n),
           n >= 3 => LET sc == Matching!Scored(f, results) IN sc[1].score - sc[3].score > 100
    PROVE  Matching!Selected(f, results).confidence \in Int
<1> DEFINE sc == Matching!Scored(f, results)
           t  == Matching!Tiebreak(f, sc)
<1> HIDE DEF sc
<1>1. Listed(sc, n, R, S) /\ Descends(sc, n) /\ (n >= 3 => sc[1].score - sc[3].score > 100)
  BY DEF sc
<1>2. Len(sc) = n /\ 1 \in 1 .. n
  BY <1>1 DEF Listed
<1>3. t.best \in 1 .. n
  <2>1. CASE n < 2 \/ sc[1].score - sc[2].score > 100
    <3>1. t.best = 1
      BY <1>2, <2>1 DEF Matching!Tiebreak
    <3> QED
      BY <1>2, <3>1
  <2>2. CASE n >= 2 /\ ~(sc[1].score - sc[2].score > 100)
    <3>1. Matching!Contenders(sc) = {1, 2}
      BY <1>1, <2>2, TopTwo
    <3>2. t.best \in {1, 2}
      BY <1>1, <2>2, <3>1, WinnerOfTwo
    <3> QED
      BY <2>2, <3>2
  <2> QED
    BY <2>1, <2>2
<1> DEFINE k == t.best
           b == sc[k]
<1> HIDE DEF k
<1>4. b.score \in Int
  <2>1. b.r \in R /\ b.score = S[b.r]
    BY <1>1, <1>3 DEF Listed, k
  <2> QED
    BY <2>1
<1>5. Matching!CountBonus(f, b.r) \in {0, 50, 100}
  BY DEF Matching!CountBonus
<1>6. Matching!Selected(f, results).confidence = Matching!Lesser(1000, b.score + Matching!CountBonus(f, b.r))
  BY DEF Matching!Selected, sc, k
<1> HIDE DEF b
<1> QED
  BY <1>4, <1>5, <1>6 DEF Matching!Lesser

LEMMA FoldersTell ==
    /\ Threshold \in Nat /\ TieMargin \in Nat /\ AltCandidates \in Nat
    /\ \A f \in Folders :
          /\ f.count \in Nat
          /\ f.results \in Seq({f.results[i] : i \in DOMAIN f.results})
          /\ \A i, j \in DOMAIN f.results : f.results[i].id = f.results[j].id => i = j
          /\ \A i \in DOMAIN f.results : Told(f.results[i])
BY MatchingAssumption

\* However the provider lists the results, the same one is taken, if one is.
LEMMA OneIsTaken ==
    ASSUME MatchInv, Matching!Taken, Matching!TwoNear(folder)
    PROVE  Matching!TakenInAnyOrder
<1> DEFINE f == folder
           results == folder.results
           n == Len(results)
           D == 1 .. n
           R == {results[i] : i \in D}
           S == Evident(f, R)
           s == Matching!Selected(f, results)
<1>1. /\ results # <<>>
      /\ match = [id |-> s.r.id, confidence |-> s.confidence, tie |-> s.tie]
  BY DEF MatchInv, Matching!Taken, Matching!NoMatch
<1>2. /\ Threshold \in Nat /\ TieMargin \in Nat /\ AltCandidates \in Nat /\ f.count \in Nat
      /\ results \in Seq({results[i] : i \in DOMAIN results})
      /\ \A i, j \in DOMAIN results : results[i].id = results[j].id => i = j
      /\ \A i \in DOMAIN results : Told(results[i])
  <2>1. folder \in Folders
    BY DEF MatchInv
  <2> QED
    BY <2>1, FoldersTell
<1>3. DOMAIN results = D /\ n \in Nat \ {0}
  BY <1>1, <1>2
<1>4. (\A r \in R : Told(r)) /\ OneEach(results, n, R)
  <2> HIDE DEF D, results
  <2>1. /\ \A r \in R : Told(r)
        /\ \A i \in D : results[i] \in R
        /\ \A i, j \in D : results[i] = results[j] => i = j
        /\ \A r \in R : \E i \in D : results[i] = r
    BY <1>2, <1>3
  <2> QED
    BY <1>3, <2>1 DEF OneEach, D
<1>5. n <= AltCandidates
      /\ (n >= 3 => LET sc == Matching!Scored(f, results) IN sc[1].score - sc[3].score > 100)
  BY DEF Matching!TwoNear
<1> HIDE DEF f, results, R, S
<1>6. S \in [R -> Int]
  BY <1>4, ScoresAreWhole DEF S
<1>7. Listed(Matching!Scored(f, results), n, R, S) /\ Descends(Matching!Scored(f, results), n)
  BY <1>2, <1>3, <1>4, <1>5, ScoredLists DEF S
<1>8. s.confidence \in Int
  BY <1>2, <1>3, <1>4, <1>5, <1>6, <1>7, ConfidenceIsWhole
<1>9. Matching!Accepted(s)
  <2>1. ~match.tie /\ ~(match.confidence < Threshold)
    BY Zenon DEF Matching!Taken, Matching!NeedsReview
  <2> HIDE DEF s
  <2>2. ~s.tie
    BY <1>1, <2>1, Zenon
  <2>3. s.confidence >= Threshold
    BY <1>1, <1>2, <1>8, <2>1
  <2> QED
    BY <2>2, <2>3 DEF Matching!Accepted
<1>10. ASSUME NEW others \in Matching!Orders(results), Matching!Accepted(Matching!Selected(f, others))
       PROVE  Matching!Selected(f, others).r = s.r
  <2>1. OneEach(others, n, R)
    <3>1. n \in Nat
      BY <1>3
    <3> QED
      BY <1>4, <3>1, OrdersList
  <2>2. Listed(Matching!Scored(f, others), n, R, S) /\ Descends(Matching!Scored(f, others), n)
    BY <1>2, <1>3, <1>4, <1>5, <2>1, ScoredLists DEF S
  <2> QED
    BY <1>2, <1>3, <1>4, <1>5, <1>6, <1>7, <1>9, <1>10, <2>2, TwoOrders
<1>11. match.id = s.r.id
  BY <1>1
<1> QED
  BY <1>10, <1>11 DEF Matching!TakenInAnyOrder, f, results

\* A show that is taken without review is the same however the provider lists its
\* results, where two are near at most.
THEOREM OrderNeverMatters == SuiteSpec => []OrderDoesNotDecide
<1>1. (part = "matching" => MatchInv) => OrderDoesNotDecide
  BY OneIsTaken DEF OrderDoesNotDecide, Matching!OrderDoesNotDecide
<1> QED
  BY <1>1, MatchInSuite, PTL DEF SuiteSpec
=============================================================================
