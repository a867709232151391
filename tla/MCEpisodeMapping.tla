-------------------------- MODULE MCEpisodeMapping --------------------------
(* Instances of EpisodeMapping for TLC: season 1 lists a1 to a4, season 2   *)
(* b1 and b2, and a file may be numbered b3.                                *)
EXTENDS EpisodeMapping, TLC

CONSTANTS a1, a2, a3, a4, b1, b2, b3, f1, f2, f3, f4, x, y, p1, p2, g1

MCSeasonOf == [s \in Slots |-> IF s \in {b1, b2, b3} THEN 2 ELSE 1]
MCRuns == {{s} : s \in Slots}
          \cup ({{a1, a2}, {a2, a3}, {a3, a4}, {a1, a2, a3}, {b1, b2}} \cap SUBSET Slots)

Plain == [season |-> 1, numbers |-> {}, hint |-> {}, exact |-> NoSlot, near |-> {},
          weak |-> NoSlot, extended |-> {}, segments |-> {}, fuzzy |-> FALSE,
          scattered |-> {}, offset |-> {}, name |-> NoName, base |-> NoName, marker |-> 0]

\* Files with one number: with its episode's title, with none, with the title of
\* an episode of another season, with a title close to another's, with part of a
\* title that runs over two episodes, with another's part title.
At(s)            == [Plain EXCEPT !.season = MCSeasonOf[s], !.numbers = {s}]
Titled(s, n)     == [At(s) EXCEPT !.exact = s, !.name = n]
Numbered(s)      == [At(s) EXCEPT !.hint = {s}]
Misfiled(s, t)   == [At(s) EXCEPT !.exact = t]
Dragged(s, t)    == [Numbered(s) EXCEPT !.near = {t}]
Extended(s, r)   == [At(s) EXCEPT !.near = {s}, !.extended = r]
Weak(s, t)       == [At(s) EXCEPT !.weak = t]
\* One that shares its season's offset; one part of a file cut in two, whose
\* title includes the marker ("Part 1") or not ("(1)"); one with a bare number.
Shifted(s, t, o) == [Misfiled(s, t) EXCEPT !.offset = {o}]
Part(s, n, m)    == [Numbered(s) EXCEPT !.name = n, !.base = x, !.marker = m]
PartOfCopy(s, n, m) == [Part(s, n, m) EXCEPT !.base = y]
Bare(s, n)       == [At(s) EXCEPT !.name = n]
\* Files with no number and with two.
Untitled(n, S)   == [Plain EXCEPT !.near = S, !.name = n, !.fuzzy = TRUE]
Double(r, t)     == [Plain EXCEPT !.numbers = r, !.exact = t]
Segmented(r, g)  == [Plain EXCEPT !.numbers = r, !.segments = g]
Scattered(r, how) == [Plain EXCEPT !.numbers = r, !.scattered = {how}, !.name = y]

Kinds ==
    {Titled(a1, x), Titled(a2, y), Numbered(a1), Numbered(b1), Misfiled(a1, b1),
     Misfiled(a2, b1), Misfiled(b3, a1), Dragged(a2, a1), Extended(a1, {a1, a2}), Weak(a1, a2),
     Shifted(a1, a2, a2), Shifted(a2, a3, a3), Shifted(a1, NoSlot, a2),
     Part(a1, p1, 1), [Part(a1, p1, 2) EXCEPT !.exact = a1], Bare(a1, p1), Untitled(x, {a1}), Untitled(y, {a1, a3}),
     [Double({a1, a2}, a2) EXCEPT !.segments = {b1, b2}], Double({a2, a3}, a3),
     Segmented({a1, a2}, {a1, a2}), Segmented({a1, a2}, {b1, b2}),
     Scattered({a1, a2}, "across"), Scattered({a1, a2}, "within")}
MCKindsLibrary == [Files -> Kinds]

MCOneDisk == {Files}
MCListed == {Slots \ {b3}}
MCSymmetry == Permutations(Files)

\* One episode in two parts, from two source folders.
MCTwoCopies ==
    {(f1 :> Part(a1, p1, 1)) @@ (f2 :> Part(a1, p1, 2)) @@
     (f3 :> PartOfCopy(a1, p1, 1)) @@ (f4 :> PartOfCopy(a1, p1, 2))}

\* Three shows whose files f1 to f3 come and go; f4 is only in a sibling folder.
MCShow(i1, i2, i3, i4) == (f1 :> i1) @@ (f2 :> i2) @@ (f3 :> i3) @@ (f4 :> i4)
MCShows ==
    {MCShow(Part(a1, p1, 1), Part(a1, p2, 2), Titled(a1, x), Numbered(a2)),
     MCShow(Titled(a1, x), Numbered(a1), Double({a1, a2}, a2), Titled(a2, y)),
     MCShow(Numbered(a1), Titled(a2, y), Part(a1, p1, 1), Part(a1, p2, 2))}
MCDisks    == {{f1, f2}, {f1, f2, f3}}
MCListings == {{a1, a2}, {a1}}

\* The table of the sibling folder: two parts of a1, or an edited one.
Sibling(c) ==
    [files |-> DOMAIN c, slots |-> {a1, a2}, reason |-> EmptyTable.reason,
     claim |-> c @@ [f \in Files |-> Unclaimed]]
PartOf(g, part) == [Claim({a1}, FALSE, {}) EXCEPT !.group = g, !.part = part]
MCSiblings ==
    {Sibling((f3 :> PartOf(g1, FALSE)) @@ (f4 :> PartOf(g1, TRUE))),
     Sibling(f4 :> Claim({a1, a2}, TRUE, {}))}
=============================================================================
