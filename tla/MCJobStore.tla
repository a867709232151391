----------------------------- MODULE MCJobStore -----------------------------
(* Instance of JobStore for TLC: a rename and a remux job of one media      *)
(* entity, and jobs of other media to reorder among.                        *)
EXTENDS JobStore, TLC

CONSTANTS j1, j2, j3, j4, m1, m2, m3

MCMediaOf   == [j \in Jobs |-> CASE j \in {j1, j2} -> m1 [] j = j3 -> m2 [] OTHER -> m3]
MCKindOf    == [j \in Jobs |-> IF j = j2 THEN "remux" ELSE "rename"]
MCDependsOn == [j \in Jobs |-> NoJob]
MCPositions == 1 .. Cardinality(Jobs) + 1

\* Bounds of the run: at most one row is deleted and at most one more runs or
\* has run; all four may wait, and the position of the fifth is free.
FewEnded ==
    /\ Cardinality({j \in Jobs : status[j] = "deleted"}) <= 1
    /\ Cardinality({j \in Jobs : status[j] \notin {"absent", "pending", "deleted"}}) <= 1
=============================================================================
