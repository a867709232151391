---------------------------- MODULE MetadataCache ----------------------------
(* What the app remembers of a provider's answers: the memory of each client,  *)
(* the persistent cache with its expiry and its caps, and the snapshot of a    *)
(* client's memory that is kept across clients and restarts.                   *)
(*                                                                             *)
(* Worker threads ask the provider, remember what comes and then put it in the *)
(* persistent cache, while the window may clear that cache at any moment.      *)
(*                                                                             *)
(* An answer carries the number of cache clears before it was asked for, the   *)
(* last clear that came while its request was under way (0 for none), and      *)
(* whether it holds anything: a season that could not be fetched is remembered *)
(* as empty.                                                                   *)
EXTENDS Integers, FiniteSets

CONSTANTS
    Workers,        \* threads that ask the provider
    MaxClears,      \* clears of the cache (bound)
    MaxClock,       \* steps of the clock (bound)
    MaxEntries,     \* rows the persistent cache may hold
    Lifetime        \* steps after which details and seasons expire

Records == {"details", "season", "map"}
Clients == {1, 2}       \* the window's and the one a scan still holds

VARIABLES
    current,    \* the window's client, or 0
    held,       \* the client a scan at work was started with, or 0
    recalled,   \* client -> record -> its answer in memory, if any
    asking,     \* worker -> the request it has under way
    stored,     \* persistent rows: "details", "season", "image", "snapshot"
    cleared,    \* clears of the cache so far
    clock

metadataVars == <<current, held, recalled, asking, stored, cleared, clock>>

\* A worker at rest, a request that went out, and one that was answered and is
\* still to be put in the cache.
Idle == [stage |-> "idle"]
Request(c, r) == [stage |-> "asked", client |-> c, record |-> r, era |-> cleared, late |-> 0]
Answer(q, full) == [era |-> q.era, late |-> q.late, full |-> full]
Nothing == [r \in Records |-> {}]     \* a memory: each record has one answer or none
Entry(value, expires) == [value |-> value, expires |-> expires, access |-> clock]
NoEntry == [value |-> Nothing, expires |-> 0, access |-> 0]
EntryNames == Records \union {"image", "snapshot"}
IsKept(db, n) == db[n] # NoEntry

-----------------------------------------------------------------------------
(* The persistent cache. *)

\* The rows least recently used go until the caps hold, the new one included.
\* Rows used at the same time go in any order.
Pruned(db) ==
    LET kept   == {n \in EntryNames : IsKept(db, n)}
        excess == Cardinality(kept) - MaxEntries
        Oldest(gone) == \A n \in gone, m \in kept \ gone : db[n].access <= db[m].access
    IN  IF excess <= 0 THEN {db}
        ELSE {[n \in EntryNames |-> IF n \in gone THEN NoEntry ELSE db[n]] :
                gone \in {g \in SUBSET kept : Cardinality(g) = excess /\ Oldest(g)}}

Put(n, row) == stored' \in Pruned([stored EXCEPT ![n] = row])

\* Metadata expires; a snapshot and an image never do.
Never == MaxClock + Lifetime + 1
Fresh(n) == IsKept(stored, n) /\ stored[n].expires > clock
Touch(n) == stored' = [stored EXCEPT ![n] = [@ EXCEPT !.access = clock]]

-----------------------------------------------------------------------------
(* The client. *)

MetadataInit ==
    /\ current = 0 /\ held = 0 /\ cleared = 0 /\ clock = 0
    /\ recalled = [c \in Clients |-> Nothing] /\ asking = [w \in Workers |-> Idle]
    /\ stored = [n \in EntryNames |-> NoEntry]

\* ensure_tmdb: a new client starts with the snapshot, whatever its age.
EnsureTmdb ==
    /\ current = 0
    /\ LET c == CHOOSE x \in Clients \ {held} : TRUE IN
         current' = c /\ recalled' = [recalled EXCEPT ![c] = stored["snapshot"].value]
    /\ IF IsKept(stored, "snapshot") THEN Touch("snapshot") ELSE UNCHANGED stored
    /\ UNCHANGED <<held, asking, cleared, clock>>

\* A client nobody holds any more is gone with its memory: what a worker still
\* asks for with it is remembered nowhere.
Dropped(dropped) ==
    recalled' = [c \in Clients |-> IF c \in dropped \ {current', held'} THEN Nothing ELSE recalled[c]]
Orphaned(dropped, q) ==
    IF q.stage # "idle" /\ q.client \in dropped \ {current', held'} THEN [q EXCEPT !.client = 0] ELSE q

HoldClient ==
    /\ current # 0 /\ held' = current
    /\ UNCHANGED <<current, stored, cleared, clock>> /\ Dropped({held})
    /\ asking' = [w \in Workers |-> Orphaned({held}, asking[w])]
ReleaseClient ==
    /\ held # 0 /\ held' = 0
    /\ UNCHANGED <<current, stored, cleared, clock>> /\ Dropped({held})
    /\ asking' = [w \in Workers |-> Orphaned({held}, asking[w])]

-----------------------------------------------------------------------------
(* The requests of the workers. *)

\* A record that is not in memory is taken from a row that has not expired, or
\* asked for.
Recall(w, c, r) ==
    /\ asking[w] = Idle /\ c \in {current, held} \ {0} /\ recalled[c][r] = {}
    /\ IF Fresh(r)
       THEN /\ recalled' = [recalled EXCEPT ![c] = [@ EXCEPT ![r] = stored[r].value[r]]]
            /\ Touch(r) /\ UNCHANGED asking
       ELSE asking' = [asking EXCEPT ![w] = Request(c, r)] /\ UNCHANGED <<recalled, stored>>
    /\ UNCHANGED <<current, held, cleared, clock>>

GetDetails(w, c) == Recall(w, c, "details")     \* get_tv_details, get_movie_details
GetSeason(w, c) == Recall(w, c, "season")       \* get_season
GetSeasonMap(w, c) == Recall(w, c, "map")       \* get_season_map: no row is ever put

Remember(c, r, answer) ==
    recalled' = IF c = 0 THEN recalled ELSE [recalled EXCEPT ![c] = [@ EXCEPT ![r] = {answer}]]

\* What a request leaves in memory: details that could not be fetched nothing,
\* a season an empty one; a map is every season's answer, or none when one of
\* them fails or is malformed (fetch_tmdb_season_map).
Brought(q, ok) == IF ok \/ q.record = "season" THEN {Answer(q, ok)} ELSE {}

\* The provider's answer comes, or fails to: it is remembered, and details and
\* seasons that came are still to be put.
Answered(w, ok) ==
    LET q == asking[w] IN
    /\ q.stage = "asked"
    /\ \/ Brought(q, ok) = {} /\ UNCHANGED recalled
       \/ \E a \in Brought(q, ok) : Remember(q.client, q.record, a)
    /\ asking' = [asking EXCEPT ![w] = IF ok /\ q.record # "map" THEN [q EXCEPT !.stage = "answered"]
                                       ELSE Idle]
    /\ UNCHANGED <<current, held, stored, cleared, clock>>

\* put_tv_details, put_movie_details, put_season.
PutRecord(w) ==
    LET q == asking[w] IN
    /\ q.stage = "answered"
    /\ Put(q.record, Entry([Nothing EXCEPT ![q.record] = {Answer(q, TRUE)}], clock + Lifetime))
    /\ asking' = [asking EXCEPT ![w] = Idle]
    /\ UNCHANGED <<current, held, recalled, cleared, clock>>

StoreImage ==
    /\ held # 0
    /\ Put("image", Entry(Nothing, Never))
    /\ UNCHANGED <<current, held, recalled, asking, cleared, clock>>

-----------------------------------------------------------------------------
(* The window. *)

Snapshot == Entry(recalled[current], Never)

\* A key was saved or the language changed: the client goes, its memory stays.
InvalidateTmdb ==
    /\ current # 0
    /\ Put("snapshot", Snapshot)
    /\ current' = 0 /\ UNCHANGED held /\ Dropped({current})
    /\ asking' = [w \in Workers |-> Orphaned({current}, asking[w])]
    /\ UNCHANGED <<cleared, clock>>

\* The requests under way at a clear are noted, for the properties.
Overtaken(q) == IF q.stage = "idle" THEN q ELSE [q EXCEPT !.late = cleared']

\* Mutant: a cleared cache drops its client as a changed key does.
ClearCachePersisting ==
    /\ cleared < MaxClears /\ \E n \in EntryNames : IsKept(stored, n)
    /\ stored' = [n \in EntryNames |-> IF n = "snapshot" /\ current # 0 THEN Snapshot ELSE NoEntry]
    /\ current' = 0 /\ UNCHANGED held /\ Dropped({current})
    /\ cleared' = cleared + 1
    /\ asking' = [w \in Workers |-> Overtaken(Orphaned({current}, asking[w]))]
    /\ UNCHANGED clock

\* clear_cache: every row of the provider goes, and the client with its memory.
ClearCache ==
    /\ cleared < MaxClears /\ \E n \in EntryNames : IsKept(stored, n)
    /\ stored' = [n \in EntryNames |-> NoEntry]
    /\ current' = 0 /\ UNCHANGED held /\ Dropped({current})
    /\ cleared' = cleared + 1
    /\ asking' = [w \in Workers |-> Overtaken(Orphaned({current}, asking[w]))]
    /\ UNCHANGED clock

\* prepare_close keeps a snapshot; a crash does not.
Restart(saved) ==
    /\ IF saved /\ current # 0 THEN Put("snapshot", Snapshot) ELSE UNCHANGED stored
    /\ current' = 0 /\ held' = 0 /\ Dropped({current, held})
    /\ asking' = [w \in Workers |-> Idle]
    /\ UNCHANGED <<cleared, clock>>

Tick == clock < MaxClock /\ clock' = clock + 1 /\ UNCHANGED <<current, held, recalled, asking, stored, cleared>>

MetadataNext ==
    \/ EnsureTmdb \/ HoldClient \/ ReleaseClient \/ StoreImage
    \/ \E w \in Workers :
          \/ \E c \in Clients : GetDetails(w, c) \/ GetSeason(w, c) \/ GetSeasonMap(w, c)
          \/ \E ok \in BOOLEAN : Answered(w, ok)
          \/ PutRecord(w)
    \/ InvalidateTmdb \/ ClearCache \/ Tick
    \/ \E saved \in BOOLEAN : Restart(saved)

MetadataSpec == MetadataInit /\ [][MetadataNext]_metadataVars

-----------------------------------------------------------------------------
(* Properties. *)

Answers == [era : 0 .. MaxClears, late : 0 .. MaxClears, full : BOOLEAN]
Memories == [Records -> {{}} \union {{a} : a \in Answers}]
Requests == [stage : {"asked", "answered"}, client : Clients \union {0}, record : Records,
             era : 0 .. MaxClears, late : 0 .. MaxClears]

\* Type correctness of the clients' memories, the requests and the rows.
MetadataTypeOK ==
    /\ current \in Clients \union {0} /\ held \in Clients \union {0}
    /\ recalled \in [Clients -> Memories]
    /\ asking \in [Workers -> Requests \union {Idle}]
    /\ \A n \in EntryNames : stored[n].value \in Memories /\ stored[n].access \in 0 .. clock

\* Asked for after the last clear, or under way when it came.
Outlived(a) == a.era = cleared \/ a.late = cleared

\* Clearing the cache takes, of everything that was there: all the window's
\* client serves was asked for after the last clear, or its request was under way
\* at that very moment. A snapshot of an older client's memory is written at every
\* key change and every exit, and a scan still at work goes on writing with the
\* client it was started with.
ClearedIsGone ==
    current # 0 => \A r \in Records : \A a \in recalled[current][r] : Outlived(a)

\* clear_cache: "Posters and show details will be re-fetched on the next scan":
\* the window's client serves nothing that was asked for before the last clear.
\* It does not hold; the README tells how.
ClearedIsRefetched ==
    current # 0 => \A r \in Records : \A a \in recalled[current][r] : a.era = cleared
=============================================================================
