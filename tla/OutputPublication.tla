------------------------- MODULE OutputPublication --------------------------
(***************************************************************************)
(* What a remux promises about the user's files: an output appears whole   *)
(* and while all its sources are there; a source is given up only when an  *)
(* output holds its content; an output is withdrawn only when the content  *)
(* of each of its sources remains somewhere else.                          *)
(***************************************************************************)
CONSTANTS
    Ops,      \* outputs to be made
    Files,    \* source files
    UsesOf    \* output -> the source files it is made of

VARIABLES
    published,    \* outputs that are in place
    kept          \* source files that are in place

Init == published = {} /\ kept = Files

Publish(o) ==
    /\ o \notin published
    /\ UsesOf[o] \subseteq kept
    /\ published' = published \cup {o}
    /\ UNCHANGED kept

GiveUp(f) ==
    /\ \E o \in published : f \in UsesOf[o]
    /\ kept' = kept \ {f}
    /\ UNCHANGED published

Withdraw(o) ==
    /\ \A f \in UsesOf[o] : f \in kept \/ \E p \in published \ {o} : f \in UsesOf[p]
    /\ published' = published \ {o}
    /\ UNCHANGED kept

Next ==
    \/ \E o \in Ops : Publish(o) \/ Withdraw(o)
    \/ \E f \in Files : GiveUp(f)

Spec == Init /\ [][Next]_<<published, kept>>
=============================================================================
