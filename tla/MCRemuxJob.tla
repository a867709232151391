----------------------------- MODULE MCRemuxJob -----------------------------
(* Instances of RemuxJob for TLC. *)
EXTENDS RemuxJob, TLC

CONSTANTS a, b, o1, o2, v1, v2, sub

\* Two videos that are merged with one subtitle file.
MCSourceOf == (o1 :> v1) @@ (o2 :> v2)
MCExtrasOf == (o1 :> {sub}) @@ (o2 :> {sub})

\* One op of the first job and both of the second are planned in No Fear mode.
MCNoFear == (a :> {o2}) @@ (b :> {o1, o2})
=============================================================================
