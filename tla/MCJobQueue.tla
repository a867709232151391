----------------------------- MODULE MCJobQueue -----------------------------
(* Instances of JobQueue for TLC. *)
EXTENDS JobQueue, TLC

CONSTANTS j1, j2, f1, f2

MCPositions == 1 .. Cardinality(Jobs) + 1

\* A rename job and a remux job of other media, which waits for it.
MCOwnMedia == [j \in Jobs |-> j]
MCKindOf   == [j \in Jobs |-> IF j = j2 THEN "remux" ELSE "rename"]
MCChain    == [j \in Jobs |-> IF j = j2 THEN j1 ELSE NoJob]

\* Two rename jobs of one media entity.
MCSameMedia == [j \in Jobs |-> j1]
MCAllRename == [j \in Jobs |-> "rename"]
MCNoDependency == [j \in Jobs |-> NoJob]
=============================================================================
