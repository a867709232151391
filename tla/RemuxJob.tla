------------------------------ MODULE RemuxJob ------------------------------
(***************************************************************************)
(* Remux jobs on disk (plex_renamer/_job_execution_remux.py, _execute_remux*)
(* in job_executor.py), step by step between two effects: the temp file    *)
(* mkvmerge writes, the active_temp column recovery sweeps by, os.replace, *)
(* the No Fear deletion of sources, the undo data, crashes between any two *)
(* of these, and reverts.  The jobs are successive jobs of one media       *)
(* entity, so they share sources and outputs and are queued one at a time  *)
(* (JobStore's dedup); one thread executes, the GUI thread reverts.        *)
(*                                                                         *)
(* Nothing outside the program deletes a source or an output here; it may  *)
(* put a file of its own where an output would go.                         *)
(***************************************************************************)
EXTENDS Naturals

CONSTANTS
    Jobs,            \* successive remux jobs
    Ops,             \* mux ops of each job, named by their output
    Files,           \* source files: main files, subtitles, appended parts
    SourceOf,        \* op -> original_relative
    ExtrasOf,        \* op -> merged_sub_paths and append_source_paths
    NoFear,          \* job -> its ops planned in No Fear mode
    None,            \* no job, no op, no file
    Foreign,         \* a file the program did not write
    MaxCrashes,      \* bound on the number of process deaths
    RevertCrashes    \* TRUE: the process may die in the middle of a revert

UsesOf == [o \in Ops |-> {SourceOf[o]} \cup ExtrasOf[o]]

ASSUME RemuxAssumption ==
    /\ None \notin Jobs \cup Ops
    /\ Foreign \notin Jobs \cup {None}
    /\ NoFear \in [Jobs -> SUBSET Ops]
    /\ SourceOf \in [Ops -> Files]
    /\ ExtrasOf \in [Ops -> SUBSET Files]
    /\ MaxCrashes \in Nat
    /\ RevertCrashes \in BOOLEAN

VARIABLES
    present,         \* source files on disk
    owner,           \* op -> who put the file at its final path, or None
    intact,          \* ops whose final path holds a complete mux of theirs
    temp,            \* job -> op -> its temp file: "none", "partial", "whole"
    status,          \* jobs.status
    activeTemp,      \* jobs.active_temp: the op whose temp file is recorded
    undo,            \* jobs.undo_data: remux_outputs and the irreversible flag
    pc, cur, op,     \* the executing thread, its job and op
    todo,            \* ops it has still to execute
    made,            \* result.log_entry["remux_outputs"]
    doomed,          \* sources it has still to delete
    irreversible,    \* result.log_entry["irreversible"]
    errors,          \* result.errors is not empty
    plainMoved,      \* a plain op of the job moved a file (renamed_count > 0)
    rjob, rtodo, rerrors,    \* the revert on the GUI thread
    up, crashes

diskVars   == <<present, owner, intact, temp>>
rowVars    == <<status, activeTemp, undo>>
resultVars == <<made, irreversible, errors, plainMoved>>
workVars   == <<pc, cur, op, todo, doomed, resultVars>>
revertVars == <<rjob, rtodo, rerrors>>
vars == <<diskVars, rowVars, workVars, revertVars, up, crashes>>

NoUndo == [outputs |-> {}, irreversible |-> FALSE]

Init ==
    /\ present = Files
    /\ owner \in [Ops -> {None, Foreign}]
    /\ intact = {}
    /\ temp = [j \in Jobs |-> [o \in Ops |-> "none"]]
    /\ status = [j \in Jobs |-> "absent"]
    /\ activeTemp = [j \in Jobs |-> None]
    /\ undo = [j \in Jobs |-> NoUndo]
    /\ pc = "idle" /\ cur = None /\ op = None
    /\ todo = {} /\ doomed = {}
    /\ made = {} /\ irreversible = FALSE /\ errors = FALSE /\ plainMoved = FALSE
    /\ rjob = None /\ rtodo = {} /\ rerrors = FALSE
    /\ up = TRUE /\ crashes = 0

SetTemp(t)   == temp' = [temp EXCEPT ![cur] = [@ EXCEPT ![op] = t]]
SetStatus(s) == status' = [status EXCEPT ![cur] = s]

(***************************************************************************)
(* _execute_one and _execute_remux                                         *)
(***************************************************************************)
Submit(j) ==
    /\ up
    /\ status[j] = "absent"
    /\ \A k \in Jobs : status[k] \notin {"pending", "running"}
    /\ status' = [status EXCEPT ![j] = "pending"]
    /\ UNCHANGED <<diskVars, activeTemp, undo, workVars, revertVars, up, crashes>>

\* Every op's main source is gone: the job fails before it starts.
RejectJob(j) ==
    /\ up /\ pc = "idle" /\ status[j] = "pending"
    /\ \A o \in Ops : SourceOf[o] \notin present
    /\ status' = [status EXCEPT ![j] = "failed"]
    /\ UNCHANGED <<diskVars, activeTemp, undo, workVars, revertVars, up, crashes>>

\* The job is marked running; its plain ops have moved files, failed, or both.
Begin(j) ==
    /\ up /\ pc = "idle" /\ status[j] = "pending"
    /\ \E o \in Ops : SourceOf[o] \in present
    /\ status' = [status EXCEPT ![j] = "running"]
    /\ pc' = "next" /\ cur' = j /\ todo' = Ops
    /\ errors' \in BOOLEAN
    /\ plainMoved' \in BOOLEAN
    /\ UNCHANGED <<diskVars, activeTemp, undo, op, doomed, made, irreversible,
                   revertVars, up, crashes>>

(***************************************************************************)
(* execute_remux_op                                                        *)
(***************************************************************************)
\* A source is missing or the target exists (it must be refused then), or
\* mkvmerge is not available or the directory cannot be made (it may be).
RefuseOp(o) ==
    /\ pc = "next" /\ o \in todo
    /\ todo' = todo \ {o}
    /\ errors' = TRUE
    /\ UNCHANGED <<diskVars, rowVars, pc, cur, op, doomed, made, irreversible, plainMoved,
                   revertVars, up, crashes>>

\* All checks passed; the temp path is recorded before mkvmerge starts.
StartOp(o) ==
    /\ pc = "next" /\ o \in todo
    /\ UsesOf[o] \subseteq present
    /\ owner[o] = None
    /\ op' = o
    /\ todo' = todo \ {o}
    /\ activeTemp' = [activeTemp EXCEPT ![cur] = o]
    /\ pc' = "run"
    /\ UNCHANGED <<diskVars, status, undo, cur, doomed, resultVars, revertVars, up, crashes>>

\* mkvmerge opens its output and is at work.
Mux ==
    /\ pc = "run"
    /\ SetTemp("partial")
    /\ pc' = "mux"
    /\ UNCHANGED <<present, owner, intact, rowVars, cur, op, todo, doomed, resultVars,
                   revertVars, up, crashes>>

\* It ends with code 0 or 1 and a whole file, or with another code.
MuxEnds ==
    /\ pc = "mux"
    /\ \E t \in {"partial", "whole"} : SetTemp(t)
    /\ pc' = "clear"
    /\ UNCHANGED <<present, owner, intact, rowVars, cur, op, todo, doomed, resultVars,
                   revertVars, up, crashes>>

\* An OSError of the process or its pipe: the temp file is unlinked, unless that
\* raises as well, out of the handler.
MuxRaises ==
    /\ pc \in {"run", "mux"}
    /\ \/ SetTemp("none") /\ pc' = "clear"
       \/ UNCHANGED temp /\ pc' = "raising"
    /\ UNCHANGED <<present, owner, intact, rowVars, cur, op, todo, doomed, resultVars,
                   revertVars, up, crashes>>

\* The finally block clears active_temp, whatever happened.
ClearTemp ==
    /\ pc \in {"clear", "raising"}
    /\ activeTemp' = [activeTemp EXCEPT ![cur] = None]
    /\ pc' = IF pc = "clear" THEN "settle" ELSE "fail"
    /\ UNCHANGED <<diskVars, status, undo, cur, op, todo, doomed, resultVars,
                   revertVars, up, crashes>>

\* Mutant: a failed mkvmerge's output is left where it is.
OpFailedKeepsTemp ==
    /\ pc = "settle" /\ temp[cur][op] # "whole"
    /\ errors' = TRUE
    /\ pc' = "next"
    /\ UNCHANGED <<diskVars, rowVars, cur, op, todo, doomed, made, irreversible, plainMoved,
                   revertVars, up, crashes>>

OpFailed ==
    /\ pc = "settle" /\ temp[cur][op] # "whole"
    /\ SetTemp("none")
    /\ errors' = TRUE
    /\ pc' = "next"
    /\ UNCHANGED <<present, owner, intact, rowVars, cur, op, todo, doomed, made, irreversible,
                   plainMoved, revertVars, up, crashes>>

\* Mutant: the return code of mkvmerge is not looked at.
PublishAnyCode ==
    /\ pc = "settle" /\ temp[cur][op] # "none"
    /\ owner'  = [owner EXCEPT ![op] = cur]
    /\ intact' = IF temp[cur][op] = "whole" THEN intact \cup {op} ELSE intact \ {op}
    /\ SetTemp("none")
    /\ made' = made \cup {op}
    /\ IF op \in NoFear[cur] THEN pc' = "delete" /\ doomed' = UsesOf[op]
                         ELSE pc' = "next" /\ UNCHANGED doomed
    /\ UNCHANGED <<present, rowVars, cur, op, todo, irreversible, errors, plainMoved,
                   revertVars, up, crashes>>

\* os.replace(temp, final): whatever is at the final path by now is replaced.
Publish ==
    /\ pc = "settle" /\ temp[cur][op] = "whole"
    /\ owner'  = [owner EXCEPT ![op] = cur]
    /\ intact' = intact \cup {op}
    /\ SetTemp("none")
    /\ made' = made \cup {op}
    /\ IF op \in NoFear[cur] THEN pc' = "delete" /\ doomed' = UsesOf[op]
                         ELSE pc' = "next" /\ UNCHANGED doomed
    /\ UNCHANGED <<present, rowVars, cur, op, todo, irreversible, errors, plainMoved,
                   revertVars, up, crashes>>

\* os.replace or the unlink raises, out of execute_remux_op: _execute_one
\* fails the job and drops the result.
SettleRaises ==
    /\ pc = "settle" /\ temp[cur][op] # "none"
    /\ pc' = "fail"
    /\ UNCHANGED <<diskVars, rowVars, cur, op, todo, doomed, resultVars, revertVars, up, crashes>>

\* No Fear: the sources go one by one; a deletion that fails is an error.
DeleteSource(f) ==
    /\ pc = "delete" /\ f \in doomed
    /\ doomed' = doomed \ {f}
    /\ \/ present' = present \ {f} /\ UNCHANGED errors
       \/ errors' = TRUE /\ UNCHANGED present
    /\ UNCHANGED <<owner, intact, temp, rowVars, pc, cur, op, todo, made, irreversible,
                   plainMoved, revertVars, up, crashes>>

\* Mutant: log_entry is not marked irreversible.
DeletionsDoneUnmarked ==
    /\ pc = "delete" /\ doomed = {}
    /\ pc' = "next"
    /\ UNCHANGED <<diskVars, rowVars, cur, op, todo, doomed, resultVars, revertVars, up, crashes>>

DeletionsDone ==
    /\ pc = "delete" /\ doomed = {}
    /\ irreversible' = TRUE
    /\ pc' = "next"
    /\ UNCHANGED <<diskVars, rowVars, cur, op, todo, doomed, made, errors, plainMoved,
                   revertVars, up, crashes>>

(***************************************************************************)
(* The end of the job                                                      *)
(***************************************************************************)
\* result.errors and result.renamed_count == 0 decides.
OpsDone ==
    /\ pc = "next" /\ todo = {}
    /\ pc' = IF errors /\ made = {} /\ ~plainMoved THEN "fail" ELSE "persist"
    /\ UNCHANGED <<diskVars, rowVars, cur, op, todo, doomed, resultVars, revertVars, up, crashes>>

PersistUndo ==
    /\ pc = "persist"
    /\ undo' = [undo EXCEPT ![cur] = [outputs |-> made, irreversible |-> irreversible]]
    /\ pc' = "complete"
    /\ UNCHANGED <<diskVars, status, activeTemp, cur, op, todo, doomed, resultVars,
                   revertVars, up, crashes>>

ResetWork ==
    /\ pc' = "idle" /\ cur' = None /\ op' = None
    /\ todo' = {} /\ doomed' = {}
    /\ made' = {} /\ irreversible' = FALSE /\ errors' = FALSE /\ plainMoved' = FALSE

EndJob ==
    /\ pc \in {"complete", "fail"}
    /\ SetStatus(IF pc = "complete" THEN "completed" ELSE "failed")
    /\ ResetWork
    /\ UNCHANGED <<diskVars, activeTemp, undo, revertVars, up, crashes>>

(***************************************************************************)
(* The revert of a completed job, on the GUI thread                        *)
(***************************************************************************)
\* The history offers it unless the undo data is marked irreversible.
BeginRevert(j) ==
    /\ up /\ rjob = None
    /\ status[j] = "completed" /\ ~undo[j].irreversible
    /\ rjob' = j
    /\ rtodo' = undo[j].outputs
    /\ UNCHANGED <<diskVars, rowVars, workVars, rerrors, up, crashes>>

\* remove_generated_outputs: unlink what is at the recorded path, if anything.
RemoveOutput(o) ==
    /\ rjob # None /\ o \in rtodo
    /\ rtodo' = rtodo \ {o}
    /\ \/ /\ owner'  = [owner EXCEPT ![o] = None]
          /\ intact' = intact \ {o}
          /\ UNCHANGED rerrors
       \/ owner[o] # None /\ rerrors' = TRUE /\ UNCHANGED <<owner, intact>>
    /\ UNCHANGED <<present, temp, rowVars, workVars, rjob, up, crashes>>

EndRevert ==
    /\ rjob # None /\ rtodo = {}
    /\ status' = [status EXCEPT ![rjob] = IF rerrors THEN "revert_failed" ELSE "reverted"]
    /\ rjob' = None /\ rerrors' = FALSE
    /\ UNCHANGED <<diskVars, activeTemp, undo, workVars, rtodo, up, crashes>>

(***************************************************************************)
(* The environment and the process                                         *)
(***************************************************************************)
Intrude(o) ==
    /\ owner[o] = None
    /\ owner' = [owner EXCEPT ![o] = Foreign]
    /\ UNCHANGED <<present, intact, temp, rowVars, workVars, revertVars, up, crashes>>

Crash ==
    /\ up /\ crashes < MaxCrashes
    /\ RevertCrashes \/ rjob = None
    /\ up' = FALSE /\ crashes' = crashes + 1
    /\ ResetWork
    /\ rjob' = None /\ rtodo' = {} /\ rerrors' = FALSE
    /\ UNCHANGED <<diskVars, rowVars>>

Running == {j \in Jobs : status[j] = "running"}

\* recover_interrupted; an unlink that fails is logged and forgotten.
Restart ==
    /\ ~up /\ up' = TRUE
    /\ \E stuck \in {Jobs, {}} :
          temp' = [j \in Jobs |-> [o \in Ops |->
                     IF j \in Running \ stuck /\ o = activeTemp[j] THEN "none" ELSE temp[j][o]]]
    /\ status' = [j \in Jobs |-> IF j \in Running THEN "failed" ELSE status[j]]
    /\ activeTemp' = [j \in Jobs |-> IF j \in Running THEN None ELSE activeTemp[j]]
    /\ UNCHANGED <<present, owner, intact, undo, workVars, revertVars, crashes>>

ExecuteOp ==
    \/ \E o \in Ops : RefuseOp(o) \/ StartOp(o)
    \/ Mux \/ MuxEnds \/ MuxRaises
    \/ ClearTemp
    \/ OpFailed \/ Publish \/ SettleRaises
    \/ \E f \in Files : DeleteSource(f)
    \/ DeletionsDone

Next ==
    \/ \E j \in Jobs : Submit(j) \/ RejectJob(j) \/ Begin(j)
    \/ ExecuteOp
    \/ OpsDone \/ PersistUndo \/ EndJob
    \/ \E j \in Jobs : BeginRevert(j)
    \/ \E o \in Ops : RemoveOutput(o)
    \/ EndRevert
    \/ \E o \in Ops : Intrude(o)
    \/ Crash
    \/ Restart

Spec == Init /\ [][Next]_vars

(***************************************************************************)
(* Properties                                                              *)
(***************************************************************************)
Working == {"run", "mux", "clear", "raising", "settle", "delete"}

\* Type invariant; the thread works only in a live process, on a job whose row
\* says so.
TypeOK ==
    /\ present \in SUBSET Files
    /\ owner \in [Ops -> Jobs \cup {None, Foreign}]
    /\ intact \in SUBSET Ops
    /\ temp \in [Jobs -> [Ops -> {"none", "partial", "whole"}]]
    /\ status \in [Jobs -> {"absent", "pending", "running", "completed", "failed",
                            "reverted", "revert_failed"}]
    /\ activeTemp \in [Jobs -> Ops \cup {None}]
    /\ undo \in [Jobs -> [outputs : SUBSET Ops, irreversible : BOOLEAN]]
    /\ pc \in {"idle", "next", "persist", "complete", "fail"} \cup Working
    /\ cur \in Jobs \cup {None}
    /\ op \in Ops \cup {None}
    /\ pc # "idle" => cur \in Jobs /\ status[cur] = "running" /\ up
    /\ pc \in Working => op \in Ops
    /\ todo \in SUBSET Ops
    /\ made \in SUBSET Ops
    /\ doomed \in SUBSET Files
    /\ irreversible \in BOOLEAN /\ errors \in BOOLEAN /\ plainMoved \in BOOLEAN
    /\ rjob \in Jobs \cup {None}
    /\ rtodo \in SUBSET Ops
    /\ rerrors \in BOOLEAN
    /\ up \in BOOLEAN
    /\ crashes \in Nat

\* The content of every source file exists, in the file itself or in a complete
\* output made of it: through failing muxes, No Fear deletions, crashes,
\* reverts and later jobs over the same files.
ContentSafe ==
    \A f \in Files : f \in present \/ \E o \in intact : f \in UsesOf[o]

\* A completed job lists each output it made that is still there, unless a
\* revert of it is under way; a reverted job left none.
OutputsAccounted ==
    \A j \in Jobs :
       LET outputs == {o \in Ops : owner[o] = j}
       IN  /\ status[j] = "completed" => outputs \subseteq undo[j].outputs
           /\ status[j] = "reverted"  => outputs = {}

\* A job that completes leaves no temp file behind, whatever ops of it failed.
CompletedLeavesNoTemp ==
    \A j \in Jobs : status[j] = "completed" => \A o \in Ops : temp[j][o] = "none"

\* While mkvmerge may be writing, its file is the one recovery would sweep.
TempIsRecorded ==
    pc \in {"run", "mux", "clear", "raising"} => activeTemp[cur] = op

\* Rows, outputs and temp files account for each other through failures,
\* crashes and reverts (execute_remux_op, revert_job, recover_interrupted).
RemuxAccounted ==
    TypeOK /\ OutputsAccounted /\ CompletedLeavesNoTemp /\ TempIsRecorded

\* Remux jobs publish, give up and withdraw files as OutputPublication allows.
Publication == INSTANCE OutputPublication WITH published <- intact, kept <- present
ImplementsPublication == Publication!Spec

\* A restart sweeps the temp files of the jobs a crash left running
\* (recover_interrupted's docstring); only one it tried to unlink may survive.
\* It does not hold; the README tells how.
RestartSweeps ==
    [][~up /\ up' => \A j \in Running, o \in Ops :
          temp'[j][o] # "none" => activeTemp[j] = o]_vars

\* A No Fear output whose sources were deleted is never removed by a revert (the
\* comment on the history's revert check box).
\* It does not hold; the README tells how.
NoFearOutputsStay ==
    [][\A o \in intact :
          o \in NoFear[owner[o]] /\ ~ UsesOf[o] \subseteq present => o \in intact']_vars
=============================================================================
