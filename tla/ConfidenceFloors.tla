-------------------------- MODULE ConfidenceFloors --------------------------
(***************************************************************************)
(* What the scan makes of the confidence of its claims                     *)
(* (apply_confidence_adjustments, engine/_episode_resolution.py).  The table *)
(* is one whose conflicts have been resolved as far as they can be         *)
(* (EpisodeResolution); confidence is in percent, and a claim that reaches *)
(* the user's threshold is accepted unasked.                               *)
(*                                                                         *)
(* A file is [season, episodes, manual, base, locked, relative, hint,      *)
(* source, titled, ready]: base is the confidence it was resolved with,    *)
(* locked that its evidence needs a review, source the title its name      *)
(* begins with, titled that its text is the title of its first episode,    *)
(* ready that its name is already the one it would get.                    *)
(***************************************************************************)
EXTENDS Naturals, Sequences, FiniteSets

CONSTANTS
    Files,      \* file identities
    Tables,     \* the tables: [Files -> file records]
    Seasons,    \* the seasons' slots: {season -> episode -> [titled, air]}
    ShowNames,  \* the show's name and its aliases, as word sequences
    Initials,   \* acronym -> the words it stands for
    Perfect,    \* the show was matched with full confidence
    EpisodeThreshold    \* episode_auto_accept_threshold, 85 unless the user sets it

VARIABLES table, slots, conf, adjusted

confVars == <<table, slots, conf, adjusted>>

Accepted(f) == conf[f] >= EpisodeThreshold

Claimed(f)  == {<<table[f].season, e>> : e \in table[f].episodes}
Conflicted  == {f \in Files : \E g \in Files \ {f} : Claimed(f) \cap Claimed(g) # {}}
Assigned    == {f \in Files : table[f].episodes # {}}
Auto        == {f \in Assigned : ~table[f].manual /\ f \notin Conflicted}

AtLeast(c, floor) == IF c < floor THEN floor ELSE c
AtMost(c, cap)    == IF c > cap THEN cap ELSE c

-----------------------------------------------------------------------------
(* Whether the title a file's name begins with is the show's.              *)

StartsWith(t, u) == Len(u) <= Len(t) /\ SubSeq(t, 1, Len(u)) = u
EndsWith(t, u)   == Len(u) <= Len(t) /\ SubSeq(t, Len(t) - Len(u) + 1, Len(t)) = u

\* _acronym_prefix_compatible: the last word stands for the rest of the name.
Abbreviates(source, show) ==
    LET n == Len(source) - 1
    IN  /\ n >= 1 /\ Len(show) > n + 1
        /\ SubSeq(source, 1, n) = SubSeq(show, 1, n)
        /\ source[n + 1] \in DOMAIN Initials
        /\ Initials[source[n + 1]] = SubSeq(show, n + 1, Len(show))

\* _source_prefix_compatible.
SourcePrefixCompatible(source, show) ==
    \/ StartsWith(source, show) \/ StartsWith(show, source)
    \/ EndsWith(source, show)
    \/ Abbreviates(source, show)

Compatible(f)   == \E n \in ShowNames : SourcePrefixCompatible(table[f].source, n)
Named(f)        == table[f].source # <<>>
Contradicted(f) == f \in Auto /\ Named(f) /\ ~Compatible(f) /\ table[f].season # 0

-----------------------------------------------------------------------------
(* How much of a season is there.                                          *)

\* _expected_for_season: the titled slots, and of those only the aired ones
\* when some are known to have aired and some not to have.
Expected(n) ==
    LET titled == {e \in DOMAIN slots[n] : slots[n][e].titled}
        listed == IF titled # {} THEN titled ELSE DOMAIN slots[n]
        aired  == {e \in listed : slots[n][e].air = "past"}
    IN  IF aired # {} /\ \E e \in listed : slots[n][e].air = "future" THEN aired ELSE listed

Matched(n)  == UNION {table[f].episodes : f \in {g \in Auto : table[g].season = n}}
HasIssue(n) == \E f \in Conflicted : ~table[f].manual /\ table[f].season = n

\* The floor a season's coverage earns its automatic claims; 0 is none.
CoverageFloor(n) ==
    LET missing == Cardinality(Expected(n) \ Matched(n))
        single  == Cardinality({m \in DOMAIN slots : m > 0}) = 1
        near    == /\ Matched(n) # {} /\ Matched(n) \subseteq Expected(n)
                   /\ \/ missing <= 1
                      \/ 10 * Cardinality(Matched(n)) >= 9 * Cardinality(Expected(n))
    IN  CASE n = 0 \/ HasIssue(n) \/ Expected(n) = {} -> 0
          [] ~(n = 0 \/ HasIssue(n) \/ Expected(n) = {}) /\ Matched(n) = Expected(n) ->
                 IF single /\ Perfect THEN 85 ELSE 80
          [] OTHER -> IF n # 0 /\ ~HasIssue(n) /\ near THEN 74 ELSE 0

-----------------------------------------------------------------------------
(* The adjustments.                                                        *)

\* What the file's own evidence lifts its confidence to.
Lifted(f) ==
    LET r    == table[f]
        own  == r.relative /\ r.season # 0 /\ r.hint \subseteq {r.season}
        by(c, cond, floor) == IF cond THEN AtLeast(c, floor) ELSE c
        number == by(r.base, own, 86)
        prefix == by(number, own /\ Named(f) /\ Compatible(f), 88)
        title  == by(prefix, r.titled, 92)
    IN  by(title, r.ready, 100)

\* Mutant: what the seasons' coverage earns is added after the caps.
CapsFirst(f) ==
    IF f \notin Auto THEN conf[f]
    ELSE LET own == AtMost(Lifted(f), IF Contradicted(f) THEN 45 ELSE 100)
         IN  AtLeast(AtMost(own, IF table[f].locked THEN 70 ELSE 100), CoverageFloor(table[f].season))
\* A claim's confidence after the floors and then the caps.
Adjusted(f) ==
    LET lifted == IF f \in Auto
                  THEN AtLeast(Lifted(f), CoverageFloor(table[f].season)) ELSE conf[f]
        capped == IF Contradicted(f) THEN AtMost(lifted, 45) ELSE lifted
    IN  IF table[f].locked THEN AtMost(capped, 70) ELSE capped

ConfidenceInit ==
    /\ table \in Tables /\ slots \in Seasons
    /\ conf = [f \in Files |-> table[f].base]
    /\ adjusted = FALSE

Adjust ==
    /\ ~adjusted /\ adjusted' = TRUE
    /\ conf' = [f \in Files |-> Adjusted(f)]
    /\ UNCHANGED <<table, slots>>

ConfidenceSpec == ConfidenceInit /\ [][Adjust]_confVars

-----------------------------------------------------------------------------
(* Properties.                                                             *)

\* A claim that other evidence speaks against, a name that begins with another
\* show or evidence that needs a review, is never accepted unasked, whatever its
\* season's coverage or its number would have earned it.  (For evidence that needs
\* a review: above a threshold of 70, see LockedIsReviewed.)
DoubtStaysReviewable ==
    adjusted =>
        \A f \in Auto :
            Contradicted(f) \/ (table[f].locked /\ EpisodeThreshold > 70) => ~Accepted(f)

\* The titled slots that have aired; undated ones only where none is to come.
Due(n) == {e \in DOMAIN slots[n] :
             /\ slots[n][e].titled
             /\ \/ slots[n][e].air = "past"
                \/ \A x \in DOMAIN slots[n] : slots[n][x].air = "unknown"}

\* A claim by a bare number is accepted unasked only for the coverage of its
\* season: nobody else's claims are in conflict there, and, unless the user lowers
\* the threshold to what a near-complete season earns, every due episode is claimed.
BareNumberNeedsCoverage ==
    adjusted =>
        \A f \in Auto :
            LET r == table[f]
                bare == r.base < EpisodeThreshold /\ ~r.relative /\ ~r.titled /\ ~r.ready
            IN  bare /\ Accepted(f) =>
                    /\ EpisodeThreshold > 74 =>
                          \A e \in Due(r.season) : \E g \in Assigned : <<r.season, e>> \in Claimed(g)
                    /\ \A g \in Files \ {f} : \A h \in Files \ {f, g} :
                           table[g].season = r.season /\ ~table[g].manual
                               => Claimed(g) \cap Claimed(h) = {}

\* A season that aired in full and was read without doubt is lifted as a whole:
\* what is yet to air holds none of its claims back.
AiredSeasonLifted ==
    adjusted =>
        \A n \in DOMAIN slots \ {0} :
            (/\ ~\E f \in Conflicted : table[f].season = n
             /\ \A f \in Assigned : table[f].season = n => ~table[f].manual
             /\ \E e \in DOMAIN slots[n] : slots[n][e].air = "past"
             /\ \A e \in DOMAIN slots[n] : slots[n][e].titled
             /\ Matched(n) = {e \in DOMAIN slots[n] : slots[n][e].air = "past"}
             /\ \E e \in DOMAIN slots[n] : slots[n][e].air = "future")
            => \A f \in Auto : table[f].season = n /\ ~Contradicted(f) /\ ~table[f].locked
                   => conf[f] >= 80

\* The comment at the last cap: review-locked evidence "must stay below threshold
\* no matter what floors ran above".
\* It does not hold; the README tells how.
LockedIsReviewed == adjusted => \A f \in Auto : table[f].locked => ~Accepted(f)

\* The docstring of _expected_for_season: slots "whose air date is in the future
\* are excluded", nothing else.
\* It does not hold; the README tells how.
UndatedAreExpected ==
    \A n \in DOMAIN slots : \A e \in DOMAIN slots[n] :
        slots[n][e].titled /\ slots[n][e].air # "future" => e \in Expected(n)
=============================================================================
