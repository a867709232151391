--------------------------- MODULE RemuxJobProofs ---------------------------
(***************************************************************************)
(* Theorems about RemuxJob, for any number of jobs, ops, files and crashes.*)
(* The process is assumed not to die in the middle of a revert, without    *)
(* which the content of a source can be lost (NoFearOutputsStay).          *)
(***************************************************************************)
EXTENDS RemuxJob, TLAPS

USE DEF NoUndo

(***************************************************************************)
(* The inductive invariant                                                 *)
(***************************************************************************)
\* The op at work: its sources are there and its target is not ours yet;
\* during the deletions it is ours and complete.
OpAtWork ==
    /\ pc \in {"run", "mux", "clear", "raising", "settle"} =>
          /\ UsesOf[op] \subseteq present
          /\ owner[op] \in {None, Foreign}
    /\ pc = "delete" =>
          /\ op \in NoFear[cur]
          /\ owner[op] = cur
          /\ doomed \subseteq UsesOf[op]

\* Complete outputs are ours, and what the running job made is its own.
OwnOutputs ==
    /\ \A o \in intact : owner[o] \in Jobs
    /\ \A o \in Ops : owner[o] \in Jobs => o \in intact
    /\ pc = "idle" => made = {} /\ ~irreversible
    /\ pc # "idle" => \A o \in made : owner[o] = cur
    /\ pc = "complete" => undo[cur].outputs = made

\* A job that made an output in No Fear mode is marked irreversible.
MarkedIrreversible ==
    /\ pc # "idle" => \A o \in made :
          o \in NoFear[cur] => irreversible \/ (pc = "delete" /\ op = o)
    /\ \A j \in Jobs : \A o \in undo[j].outputs : o \in NoFear[j] => undo[j].irreversible

\* The outputs a revert may still remove are those of the job it reverts.
RevertsItsOwn ==
    /\ \A j \in Jobs : status[j] = "completed" /\ j # rjob =>
          \A o \in undo[j].outputs : owner[o] = j
    /\ rjob = None => rtodo = {}
    /\ rjob # None =>
          /\ status[rjob] = "completed"
          /\ up
          /\ \A o \in rtodo : owner[o] = rjob /\ o \notin NoFear[rjob]

\* A source that is gone has its content in an output made in No Fear mode.
GoneIsKept ==
    \A f \in Files \ present : \E o \in intact : f \in UsesOf[o] /\ o \in NoFear[owner[o]]

\* What the files on disk owe to a job is in its hands or in its row.
OutputsFollowJobs ==
    /\ OutputsAccounted
    /\ \A j \in Jobs : status[j] \in {"absent", "pending"} => \A o \in Ops : owner[o] # j
    /\ pc # "idle" => \A o \in Ops : owner[o] = cur => o \in made
    /\ rjob = None => ~rerrors
    /\ rjob # None /\ ~rerrors => \A o \in Ops : owner[o] = rjob => o \in rtodo

\* Temp files belong to the op at work, whose file is recorded, and to jobs that
\* failed or were cut off.
TempsFollowJobs ==
    /\ TempIsRecorded
    /\ \A j \in Jobs : status[j] \notin {"running", "failed"} =>
          \A o \in Ops : temp[j][o] = "none"
    /\ pc \in {"next", "delete", "persist", "complete"} => \A o \in Ops : temp[cur][o] = "none"
    /\ pc \in {"run", "mux", "clear", "raising", "settle"} =>
          \A o \in Ops \ {op} : temp[cur][o] = "none"

RemuxInv ==
    /\ TypeOK
    /\ OpAtWork
    /\ OwnOutputs
    /\ MarkedIrreversible
    /\ RevertsItsOwn
    /\ GoneIsKept
    /\ OutputsFollowJobs
    /\ TempsFollowJobs

\* No job, op or file is mistaken for another.
LEMMA Names == None \notin Jobs \cup Ops /\ Foreign \notin Jobs \cup {None} /\ MaxCrashes \in Nat
  BY RemuxAssumption DEF RemuxAssumption

\* An op uses source files only.
LEMMA UsesType == UsesOf \in [Ops -> SUBSET Files]
  BY RemuxAssumption DEF RemuxAssumption, UsesOf

LEMMA RemuxStep ==
    ASSUME RevertCrashes = FALSE, RemuxInv, [Next]_vars
    PROVE  RemuxInv'
<1> USE Names
    DEF RemuxInv, TypeOK, Working, OpAtWork,
        OwnOutputs, MarkedIrreversible, RevertsItsOwn,
        GoneIsKept, OutputsFollowJobs, OutputsAccounted, TempsFollowJobs, TempIsRecorded,
        vars, diskVars, rowVars, workVars, resultVars, revertVars
<1>1. ASSUME NEW j \in Jobs, Submit(j) PROVE RemuxInv'
  <2>1. TypeOK' BY <1>1 DEF Submit
  <2>2. OpAtWork' BY <1>1 DEF Submit
  <2>3. OwnOutputs' BY <1>1 DEF Submit
  <2>4. MarkedIrreversible' BY <1>1 DEF Submit
  <2>5. RevertsItsOwn' BY <1>1 DEF Submit
  <2>6. GoneIsKept' BY <1>1 DEF Submit
  <2>7. OutputsFollowJobs' BY <1>1 DEF Submit
  <2>8. TempsFollowJobs' BY <1>1 DEF Submit
  <2> QED BY <2>1, <2>2, <2>3, <2>4, <2>5, <2>6, <2>7, <2>8
<1>2. ASSUME NEW j \in Jobs, RejectJob(j) PROVE RemuxInv'
  <2>1. TypeOK' BY <1>2 DEF RejectJob
  <2>2. OpAtWork' BY <1>2 DEF RejectJob
  <2>3. OwnOutputs' BY <1>2 DEF RejectJob
  <2>4. MarkedIrreversible' BY <1>2 DEF RejectJob
  <2>5. RevertsItsOwn' BY <1>2 DEF RejectJob
  <2>6. GoneIsKept' BY <1>2 DEF RejectJob
  <2>7. OutputsFollowJobs' BY <1>2 DEF RejectJob
  <2>8. TempsFollowJobs' BY <1>2 DEF RejectJob
  <2> QED BY <2>1, <2>2, <2>3, <2>4, <2>5, <2>6, <2>7, <2>8
<1>3. ASSUME NEW j \in Jobs, Begin(j) PROVE RemuxInv'
  <2>1. TypeOK' BY <1>3 DEF Begin
  <2>2. OpAtWork' BY <1>3 DEF Begin
  <2>3. OwnOutputs' BY <1>3 DEF Begin
  <2>4. MarkedIrreversible' BY <1>3 DEF Begin
  <2>5. RevertsItsOwn' BY <1>3 DEF Begin
  <2>6. GoneIsKept' BY <1>3 DEF Begin
  <2>7. OutputsFollowJobs' BY <1>3 DEF Begin
  <2>8. TempsFollowJobs' BY <1>3 DEF Begin
  <2> QED BY <2>1, <2>2, <2>3, <2>4, <2>5, <2>6, <2>7, <2>8
<1>4. ASSUME NEW o \in Ops, RefuseOp(o) PROVE RemuxInv'
  <2>1. TypeOK' BY <1>4 DEF RefuseOp
  <2>2. OpAtWork' BY <1>4 DEF RefuseOp
  <2>3. OwnOutputs' BY <1>4 DEF RefuseOp
  <2>4. MarkedIrreversible' BY <1>4 DEF RefuseOp
  <2>5. RevertsItsOwn' BY <1>4 DEF RefuseOp
  <2>6. GoneIsKept' BY <1>4 DEF RefuseOp
  <2>7. OutputsFollowJobs' BY <1>4 DEF RefuseOp
  <2>8. TempsFollowJobs' BY <1>4 DEF RefuseOp
  <2> QED BY <2>1, <2>2, <2>3, <2>4, <2>5, <2>6, <2>7, <2>8
<1>5. ASSUME NEW o \in Ops, StartOp(o) PROVE RemuxInv'
  <2>1. TypeOK' BY <1>5 DEF StartOp
  <2>2. OpAtWork' BY <1>5 DEF StartOp
  <2>3. OwnOutputs' BY <1>5 DEF StartOp
  <2>4. MarkedIrreversible' BY <1>5 DEF StartOp
  <2>5. RevertsItsOwn' BY <1>5 DEF StartOp
  <2>6. GoneIsKept' BY <1>5 DEF StartOp
  <2>7. OutputsFollowJobs' BY <1>5 DEF StartOp
  <2>8. TempsFollowJobs' BY <1>5 DEF StartOp
  <2> QED BY <2>1, <2>2, <2>3, <2>4, <2>5, <2>6, <2>7, <2>8
<1>6. ASSUME Mux PROVE RemuxInv'
  <2>1. TypeOK' BY <1>6 DEF Mux, SetTemp
  <2>2. OpAtWork' BY <1>6 DEF Mux, SetTemp
  <2>3. OwnOutputs' BY <1>6 DEF Mux, SetTemp
  <2>4. MarkedIrreversible' BY <1>6 DEF Mux, SetTemp
  <2>5. RevertsItsOwn' BY <1>6 DEF Mux, SetTemp
  <2>6. GoneIsKept' BY <1>6 DEF Mux, SetTemp
  <2>7. OutputsFollowJobs' BY <1>6 DEF Mux, SetTemp
  <2>8. TempsFollowJobs' BY <1>6 DEF Mux, SetTemp
  <2> QED BY <2>1, <2>2, <2>3, <2>4, <2>5, <2>6, <2>7, <2>8
<1>7. ASSUME MuxEnds PROVE RemuxInv'
  <2>1. TypeOK' BY <1>7 DEF MuxEnds, SetTemp
  <2>2. OpAtWork' BY <1>7 DEF MuxEnds, SetTemp
  <2>3. OwnOutputs' BY <1>7 DEF MuxEnds, SetTemp
  <2>4. MarkedIrreversible' BY <1>7 DEF MuxEnds, SetTemp
  <2>5. RevertsItsOwn' BY <1>7 DEF MuxEnds, SetTemp
  <2>6. GoneIsKept' BY <1>7 DEF MuxEnds, SetTemp
  <2>7. OutputsFollowJobs' BY <1>7 DEF MuxEnds, SetTemp
  <2>8. TempsFollowJobs' BY <1>7 DEF MuxEnds, SetTemp
  <2> QED BY <2>1, <2>2, <2>3, <2>4, <2>5, <2>6, <2>7, <2>8
<1>8. ASSUME MuxRaises PROVE RemuxInv'
  <2>1. TypeOK'
    <3>1. CASE SetTemp("none") /\ pc' = "clear" BY <1>8, <3>1 DEF MuxRaises, SetTemp
    <3>2. CASE UNCHANGED temp /\ pc' = "raising" BY <1>8, <3>2 DEF MuxRaises
    <3> QED BY <1>8, <3>1, <3>2 DEF MuxRaises
  <2>2. OpAtWork' BY <1>8 DEF MuxRaises, SetTemp
  <2>3. OwnOutputs' BY <1>8 DEF MuxRaises, SetTemp
  <2>4. MarkedIrreversible' BY <1>8 DEF MuxRaises, SetTemp
  <2>5. RevertsItsOwn' BY <1>8 DEF MuxRaises, SetTemp
  <2>6. GoneIsKept' BY <1>8 DEF MuxRaises, SetTemp
  <2>7. OutputsFollowJobs' BY <1>8 DEF MuxRaises, SetTemp
  <2>8. TempsFollowJobs'
    <3>1. CASE SetTemp("none") /\ pc' = "clear" BY <1>8, <3>1 DEF MuxRaises, SetTemp
    <3>2. CASE UNCHANGED temp /\ pc' = "raising" BY <1>8, <3>2 DEF MuxRaises
    <3> QED BY <1>8, <3>1, <3>2 DEF MuxRaises
  <2> QED BY <2>1, <2>2, <2>3, <2>4, <2>5, <2>6, <2>7, <2>8
<1>9. ASSUME ClearTemp PROVE RemuxInv'
  <2>1. TypeOK' BY <1>9 DEF ClearTemp
  <2>2. OpAtWork' BY <1>9 DEF ClearTemp
  <2>3. OwnOutputs' BY <1>9 DEF ClearTemp
  <2>4. MarkedIrreversible' BY <1>9 DEF ClearTemp
  <2>5. RevertsItsOwn' BY <1>9 DEF ClearTemp
  <2>6. GoneIsKept' BY <1>9 DEF ClearTemp
  <2>7. OutputsFollowJobs' BY <1>9 DEF ClearTemp
  <2>8. TempsFollowJobs' BY <1>9 DEF ClearTemp
  <2> QED BY <2>1, <2>2, <2>3, <2>4, <2>5, <2>6, <2>7, <2>8
<1>10. ASSUME OpFailed PROVE RemuxInv'
  <2>1. TypeOK' BY <1>10 DEF OpFailed, SetTemp
  <2>2. OpAtWork' BY <1>10 DEF OpFailed, SetTemp
  <2>3. OwnOutputs' BY <1>10 DEF OpFailed, SetTemp
  <2>4. MarkedIrreversible' BY <1>10 DEF OpFailed, SetTemp
  <2>5. RevertsItsOwn' BY <1>10 DEF OpFailed, SetTemp
  <2>6. GoneIsKept' BY <1>10 DEF OpFailed, SetTemp
  <2>7. OutputsFollowJobs' BY <1>10 DEF OpFailed, SetTemp
  <2>8. TempsFollowJobs' BY <1>10 DEF OpFailed, SetTemp
  <2> QED BY <2>1, <2>2, <2>3, <2>4, <2>5, <2>6, <2>7, <2>8
<1>11. ASSUME Publish PROVE RemuxInv'
  <2>1. TypeOK' BY <1>11, UsesType DEF Publish, SetTemp
  <2>2. OpAtWork' BY <1>11 DEF Publish, SetTemp
  <2>3. OwnOutputs' BY <1>11 DEF Publish, SetTemp
  <2>4. MarkedIrreversible' BY <1>11 DEF Publish, SetTemp
  <2>5. RevertsItsOwn' BY <1>11 DEF Publish, SetTemp
  <2>6. GoneIsKept' BY <1>11 DEF Publish, SetTemp
  <2>7. OutputsFollowJobs' BY <1>11 DEF Publish, SetTemp
  <2>8. TempsFollowJobs' BY <1>11 DEF Publish, SetTemp
  <2> QED BY <2>1, <2>2, <2>3, <2>4, <2>5, <2>6, <2>7, <2>8
<1>12. ASSUME SettleRaises PROVE RemuxInv'
  <2>1. TypeOK' BY <1>12 DEF SettleRaises
  <2>2. OpAtWork' BY <1>12 DEF SettleRaises
  <2>3. OwnOutputs' BY <1>12 DEF SettleRaises
  <2>4. MarkedIrreversible' BY <1>12 DEF SettleRaises
  <2>5. RevertsItsOwn' BY <1>12 DEF SettleRaises
  <2>6. GoneIsKept' BY <1>12 DEF SettleRaises
  <2>7. OutputsFollowJobs' BY <1>12 DEF SettleRaises
  <2>8. TempsFollowJobs' BY <1>12 DEF SettleRaises
  <2> QED BY <2>1, <2>2, <2>3, <2>4, <2>5, <2>6, <2>7, <2>8
<1>13. ASSUME NEW f \in Files, DeleteSource(f) PROVE RemuxInv'
  <2>1. TypeOK' BY <1>13 DEF DeleteSource
  <2>2. OpAtWork' BY <1>13 DEF DeleteSource
  <2>3. OwnOutputs' BY <1>13 DEF DeleteSource
  <2>4. MarkedIrreversible' BY <1>13 DEF DeleteSource
  <2>5. RevertsItsOwn' BY <1>13 DEF DeleteSource
  <2>6. GoneIsKept'
    <3>1. op \in intact /\ op \in NoFear[owner[op]] /\ f \in UsesOf[op]
      BY <1>13 DEF DeleteSource
    <3>2. UNCHANGED <<intact, owner>> /\ present \ {f} \subseteq present'
      BY <1>13 DEF DeleteSource
    <3> QED BY <3>1, <3>2
  <2>7. OutputsFollowJobs' BY <1>13 DEF DeleteSource
  <2>8. TempsFollowJobs' BY <1>13 DEF DeleteSource
  <2> QED BY <2>1, <2>2, <2>3, <2>4, <2>5, <2>6, <2>7, <2>8
<1>14. ASSUME DeletionsDone PROVE RemuxInv'
  <2>1. TypeOK' BY <1>14 DEF DeletionsDone
  <2>2. OpAtWork' BY <1>14 DEF DeletionsDone
  <2>3. OwnOutputs' BY <1>14 DEF DeletionsDone
  <2>4. MarkedIrreversible' BY <1>14 DEF DeletionsDone
  <2>5. RevertsItsOwn' BY <1>14 DEF DeletionsDone
  <2>6. GoneIsKept' BY <1>14 DEF DeletionsDone
  <2>7. OutputsFollowJobs' BY <1>14 DEF DeletionsDone
  <2>8. TempsFollowJobs' BY <1>14 DEF DeletionsDone
  <2> QED BY <2>1, <2>2, <2>3, <2>4, <2>5, <2>6, <2>7, <2>8
<1>15. ASSUME OpsDone PROVE RemuxInv'
  <2>1. TypeOK' BY <1>15 DEF OpsDone
  <2>2. OpAtWork' BY <1>15 DEF OpsDone
  <2>3. OwnOutputs' BY <1>15 DEF OpsDone
  <2>4. MarkedIrreversible' BY <1>15 DEF OpsDone
  <2>5. RevertsItsOwn' BY <1>15 DEF OpsDone
  <2>6. GoneIsKept' BY <1>15 DEF OpsDone
  <2>7. OutputsFollowJobs' BY <1>15 DEF OpsDone
  <2>8. TempsFollowJobs' BY <1>15 DEF OpsDone
  <2> QED BY <2>1, <2>2, <2>3, <2>4, <2>5, <2>6, <2>7, <2>8
<1>16. ASSUME PersistUndo PROVE RemuxInv'
  <2>1. TypeOK' BY <1>16 DEF PersistUndo
  <2>2. OpAtWork' BY <1>16 DEF PersistUndo
  <2>3. OwnOutputs' BY <1>16 DEF PersistUndo
  <2>4. MarkedIrreversible' BY <1>16 DEF PersistUndo
  <2>5. RevertsItsOwn' BY <1>16 DEF PersistUndo
  <2>6. GoneIsKept' BY <1>16 DEF PersistUndo
  <2>7. OutputsFollowJobs' BY <1>16 DEF PersistUndo
  <2>8. TempsFollowJobs' BY <1>16 DEF PersistUndo
  <2> QED BY <2>1, <2>2, <2>3, <2>4, <2>5, <2>6, <2>7, <2>8
<1>17. ASSUME EndJob PROVE RemuxInv'
  <2>1. TypeOK' BY <1>17 DEF EndJob, SetStatus, ResetWork
  <2>2. OpAtWork' BY <1>17 DEF EndJob, SetStatus, ResetWork
  <2>3. OwnOutputs' BY <1>17 DEF EndJob, SetStatus, ResetWork
  <2>4. MarkedIrreversible' BY <1>17 DEF EndJob, SetStatus, ResetWork
  <2>5. RevertsItsOwn' BY <1>17 DEF EndJob, SetStatus, ResetWork
  <2>6. GoneIsKept' BY <1>17 DEF EndJob, SetStatus, ResetWork
  <2>7. OutputsFollowJobs' BY <1>17 DEF EndJob, SetStatus, ResetWork
  <2>8. TempsFollowJobs' BY <1>17 DEF EndJob, SetStatus, ResetWork
  <2> QED BY <2>1, <2>2, <2>3, <2>4, <2>5, <2>6, <2>7, <2>8
<1>18. ASSUME NEW j \in Jobs, BeginRevert(j) PROVE RemuxInv'
  <2>1. TypeOK' BY <1>18 DEF BeginRevert
  <2>2. OpAtWork' BY <1>18 DEF BeginRevert
  <2>3. OwnOutputs' BY <1>18 DEF BeginRevert
  <2>4. MarkedIrreversible' BY <1>18 DEF BeginRevert
  <2>5. RevertsItsOwn'
    <3>1. rjob = None /\ up /\ status[j] = "completed" /\ ~undo[j].irreversible
      BY <1>18 DEF BeginRevert
    <3>2. \A o \in undo[j].outputs : owner[o] = j /\ o \notin NoFear[j]
      BY <3>1
    <3>3. rjob' = j /\ rtodo' = undo[j].outputs /\ UNCHANGED <<undo, owner, status, up>>
      BY <1>18 DEF BeginRevert
    <3> QED BY <3>1, <3>2, <3>3
  <2>6. GoneIsKept' BY <1>18 DEF BeginRevert
  <2>7. OutputsFollowJobs' BY <1>18 DEF BeginRevert
  <2>8. TempsFollowJobs' BY <1>18 DEF BeginRevert
  <2> QED BY <2>1, <2>2, <2>3, <2>4, <2>5, <2>6, <2>7, <2>8
<1>19. ASSUME NEW o \in Ops, RemoveOutput(o) PROVE RemuxInv'
  <2>0. PICK gone \in BOOLEAN :
          /\ owner'  = IF gone THEN [owner EXCEPT ![o] = None] ELSE owner
          /\ intact' = IF gone THEN intact \ {o} ELSE intact
          /\ rerrors' = IF gone THEN rerrors ELSE TRUE
    BY <1>19 DEF RemoveOutput
  <2>1. TypeOK'
    <3>1. owner' \in [Ops -> Jobs \cup {None, Foreign}] BY <2>0
    <3>2. intact' \in SUBSET Ops /\ rerrors' \in BOOLEAN BY <2>0
    <3>3. rtodo' \in SUBSET Ops BY <1>19 DEF RemoveOutput
    <3> QED BY <1>19, <3>1, <3>2, <3>3 DEF RemoveOutput
  <2>2. OpAtWork'
    <3>1. pc = "delete" => o # op BY <1>19 DEF RemoveOutput
    <3> QED BY <1>19, <2>0, <3>1 DEF RemoveOutput
  <2>3. OwnOutputs'
    <3>1. pc # "idle" => o \notin made BY <1>19 DEF RemoveOutput
    <3> QED BY <1>19, <2>0, <3>1 DEF RemoveOutput
  <2>4. MarkedIrreversible' BY <1>19 DEF RemoveOutput
  <2>5. RevertsItsOwn' BY <1>19 DEF RemoveOutput
  <2>6. GoneIsKept'
    <3>1. o \notin NoFear[owner[o]] BY <1>19 DEF RemoveOutput
    <3> QED BY <1>19, <2>0, <3>1 DEF RemoveOutput
  <2>7. OutputsFollowJobs' BY <1>19 DEF RemoveOutput
  <2>8. TempsFollowJobs' BY <1>19 DEF RemoveOutput
  <2> QED BY <2>1, <2>2, <2>3, <2>4, <2>5, <2>6, <2>7, <2>8
<1>20. ASSUME EndRevert PROVE RemuxInv'
  <2>1. TypeOK'
    <3>1. pc # "idle" => cur # rjob BY <1>20 DEF EndRevert
    <3>2. status' = [status EXCEPT ![rjob] = IF rerrors THEN "revert_failed" ELSE "reverted"]
      BY <1>20 DEF EndRevert
    <3>3. status' \in [Jobs -> {"absent", "pending", "running", "completed", "failed",
                                "reverted", "revert_failed"}]
      BY <3>2
    <3>4. pc # "idle" => status'[cur] = "running" BY <3>1, <3>2
    <3>5. pc # "idle" => cur \in Jobs /\ status'[cur] = "running" /\ up
      BY <3>4
    <3>6. rjob' = None /\ rerrors' = FALSE /\ rtodo' = rtodo
      BY <1>20 DEF EndRevert
    <3>7. UNCHANGED <<diskVars, activeTemp, undo, workVars, up, crashes>>
      BY <1>20 DEF EndRevert
    <3> QED BY <3>3, <3>5, <3>6, <3>7
  <2>2. OpAtWork' BY <1>20 DEF EndRevert
  <2>3. OwnOutputs' BY <1>20 DEF EndRevert
  <2>4. MarkedIrreversible' BY <1>20 DEF EndRevert
  <2>5. RevertsItsOwn' BY <1>20 DEF EndRevert
  <2>6. GoneIsKept' BY <1>20 DEF EndRevert
  <2>7. OutputsFollowJobs' BY <1>20 DEF EndRevert
  <2>8. TempsFollowJobs' BY <1>20 DEF EndRevert
  <2> QED BY <2>1, <2>2, <2>3, <2>4, <2>5, <2>6, <2>7, <2>8
<1>21. ASSUME NEW o \in Ops, Intrude(o) PROVE RemuxInv'
  <2>1. TypeOK' BY <1>21 DEF Intrude
  <2>2. OpAtWork'
    <3>1. pc = "delete" => o # op BY <1>21 DEF Intrude
    <3> QED BY <1>21, <3>1 DEF Intrude
  <2>3. OwnOutputs' BY <1>21 DEF Intrude
  <2>4. MarkedIrreversible' BY <1>21 DEF Intrude
  <2>5. RevertsItsOwn' BY <1>21 DEF Intrude
  <2>6. GoneIsKept'
    <3>1. o \notin intact BY <1>21 DEF Intrude
    <3> QED BY <1>21, <3>1 DEF Intrude
  <2>7. OutputsFollowJobs' BY <1>21 DEF Intrude
  <2>8. TempsFollowJobs' BY <1>21 DEF Intrude
  <2> QED BY <2>1, <2>2, <2>3, <2>4, <2>5, <2>6, <2>7, <2>8
<1>22. ASSUME Crash PROVE RemuxInv'
  <2>1. TypeOK'
    <3>1. crashes' \in Nat BY <1>22 DEF Crash
    <3>2. pc' = "idle" /\ cur' = None /\ op' = None /\ rjob' = None BY <1>22 DEF Crash, ResetWork
    <3> QED BY <1>22, <3>1, <3>2 DEF Crash, ResetWork
  <2>2. OpAtWork' BY <1>22 DEF Crash, ResetWork
  <2>3. OwnOutputs' BY <1>22 DEF Crash, ResetWork
  <2>4. MarkedIrreversible' BY <1>22 DEF Crash, ResetWork
  <2>5. RevertsItsOwn' BY <1>22 DEF Crash, ResetWork
  <2>6. GoneIsKept' BY <1>22 DEF Crash, ResetWork
  <2>7. OutputsFollowJobs' BY <1>22 DEF Crash, ResetWork
  <2>8. TempsFollowJobs' BY <1>22 DEF Crash, ResetWork
  <2> QED BY <2>1, <2>2, <2>3, <2>4, <2>5, <2>6, <2>7, <2>8
<1>23. ASSUME Restart PROVE RemuxInv'
  <2>1. TypeOK' BY <1>23 DEF Restart, Running
  <2>2. OpAtWork' BY <1>23 DEF Restart, Running
  <2>3. OwnOutputs' BY <1>23 DEF Restart, Running
  <2>4. MarkedIrreversible' BY <1>23 DEF Restart, Running
  <2>5. RevertsItsOwn' BY <1>23 DEF Restart, Running
  <2>6. GoneIsKept' BY <1>23 DEF Restart, Running
  <2>7. OutputsFollowJobs' BY <1>23 DEF Restart, Running
  <2>8. TempsFollowJobs' BY <1>23 DEF Restart, Running
  <2> QED BY <2>1, <2>2, <2>3, <2>4, <2>5, <2>6, <2>7, <2>8
<1>24. ASSUME UNCHANGED vars PROVE RemuxInv'
  <2>1. TypeOK' BY <1>24
  <2>2. OpAtWork' BY <1>24
  <2>3. OwnOutputs' BY <1>24
  <2>4. MarkedIrreversible' BY <1>24
  <2>5. RevertsItsOwn' BY <1>24
  <2>6. GoneIsKept' BY <1>24
  <2>7. OutputsFollowJobs' BY <1>24
  <2>8. TempsFollowJobs' BY <1>24
  <2> QED BY <2>1, <2>2, <2>3, <2>4, <2>5, <2>6, <2>7, <2>8
<1> HIDE DEF RemuxInv, vars
<1> QED
  BY <1>1, <1>2, <1>3, <1>4, <1>5, <1>6, <1>7, <1>8, <1>9, <1>10, <1>11, <1>12,
     <1>13, <1>14, <1>15, <1>16, <1>17, <1>18, <1>19, <1>20, <1>21, <1>22, <1>23, <1>24
  DEF Next, ExecuteOp

LEMMA RemuxInitInv == Init => RemuxInv
<1> SUFFICES ASSUME Init PROVE RemuxInv
  OBVIOUS
<1> USE RemuxAssumption DEF RemuxAssumption, Init
<1>1. TypeOK
  <2>1. owner \in [Ops -> Jobs \cup {None, Foreign}]
    OBVIOUS
  <2>2. temp \in [Jobs -> [Ops -> {"none", "partial", "whole"}]]
    OBVIOUS
  <2>3. undo \in [Jobs -> [outputs : SUBSET Ops, irreversible : BOOLEAN]]
    OBVIOUS
  <2> QED
    BY <2>1, <2>2, <2>3 DEF TypeOK, Working
<1>2. OpAtWork
  BY DEF OpAtWork
<1>3. OwnOutputs
  BY DEF OwnOutputs
<1>4. MarkedIrreversible
  BY DEF MarkedIrreversible
<1>5. RevertsItsOwn /\ GoneIsKept
  BY DEF RevertsItsOwn, GoneIsKept
<1>6. OutputsFollowJobs /\ TempsFollowJobs
  BY DEF OutputsFollowJobs, OutputsAccounted, TempsFollowJobs, TempIsRecorded
<1> QED
  BY <1>1, <1>2, <1>3, <1>4, <1>5, <1>6 DEF RemuxInv

LEMMA RemuxInvariance ==
    ASSUME RevertCrashes = FALSE
    PROVE  Spec => []RemuxInv
<1>1. RemuxInv /\ [Next]_vars => RemuxInv'
  BY RemuxStep, Zenon
<1> QED
  BY <1>1, RemuxInitInv, PTL DEF Spec

(***************************************************************************)
(* The theorems                                                            *)
(***************************************************************************)
\* Every column, file and local of a remux keeps its domain, and the thread
\* works on a job only while its row says running (_execute_remux).
THEOREM RemuxTypeCorrect ==
    ASSUME RevertCrashes = FALSE
    PROVE  Spec => []TypeOK
<1>1. RemuxInv => TypeOK
  BY DEF RemuxInv
<1> QED
  BY <1>1, RemuxInvariance, PTL

\* However muxes fail, deletions fail, the process dies and reverts interleave,
\* the content of every source is in the source or in a complete output: the
\* deletions of execute_remux_op come after os.replace, and a job they belong
\* to is never offered for a revert.
THEOREM ContentStaysSafe ==
    ASSUME RevertCrashes = FALSE
    PROVE  Spec => []ContentSafe
<1>1. RemuxInv => ContentSafe
  BY DEF RemuxInv, GoneIsKept, ContentSafe
<1> QED
  BY <1>1, RemuxInvariance, PTL

\* The undo data of a completed job lists every output of it on disk, and a
\* revert that reports success removed them all.
THEOREM OutputsStayAccounted ==
    ASSUME RevertCrashes = FALSE
    PROVE  Spec => []OutputsAccounted
<1>1. RemuxInv => OutputsAccounted
  BY DEF RemuxInv, OutputsFollowJobs
<1> QED
  BY <1>1, RemuxInvariance, PTL

\* No temp file of a job outlives its completion, whichever of its ops failed.
THEOREM CompletedJobsLeaveNoTemp ==
    ASSUME RevertCrashes = FALSE
    PROVE  Spec => []CompletedLeavesNoTemp
<1>1. RemuxInv => CompletedLeavesNoTemp
  BY DEF RemuxInv, TempsFollowJobs, CompletedLeavesNoTemp
<1> QED
  BY <1>1, RemuxInvariance, PTL

\* Recovery would sweep the temp file mkvmerge is writing: between the recording
\* of active_temp and its clearing it names the op at work.
THEOREM TempStaysRecorded ==
    ASSUME RevertCrashes = FALSE
    PROVE  Spec => []TempIsRecorded
<1>1. RemuxInv => TempIsRecorded
  BY DEF RemuxInv, TempsFollowJobs
<1> QED
  BY <1>1, RemuxInvariance, PTL

\* Rows, outputs and temp files account for each other through failures, crashes
\* and reverts.
THEOREM RemuxStaysAccounted ==
    ASSUME RevertCrashes = FALSE
    PROVE  Spec => []RemuxAccounted
<1>1. RemuxInv => RemuxAccounted
  BY DEF RemuxInv, OutputsFollowJobs, OutputsAccounted, TempsFollowJobs, CompletedLeavesNoTemp,
         TempIsRecorded, RemuxAccounted
<1> QED
  BY <1>1, RemuxInvariance, PTL

(***************************************************************************)
(* Refinement: Publish publishes, DeleteSource gives up, RemoveOutput      *)
(* withdraws, and every other step leaves the user's files as they are.    *)
(***************************************************************************)
LEMMA RemuxInitPublishes == Init => Publication!Init
  BY DEF Init, Publication!Init

LEMMA RemuxStepPublishes ==
    ASSUME RemuxInv, [Next]_vars
    PROVE  [Publication!Next]_<<intact, present>>
<1> USE DEF diskVars
<1>1. CASE Publish
  <2>1. op \in Ops /\ op \notin intact /\ UsesOf[op] \subseteq present
    BY <1>1, RemuxAssumption
    DEF Publish, RemuxInv, TypeOK, Working, OpAtWork, OwnOutputs, RemuxAssumption
  <2>2. intact' = intact \cup {op} /\ present' = present
    BY <1>1 DEF Publish
  <2> QED
    BY <2>1, <2>2 DEF Publication!Next, Publication!Publish
<1>2. ASSUME NEW f \in Files, DeleteSource(f) PROVE [Publication!Next]_<<intact, present>>
  <2>1. op \in Ops /\ op \in intact /\ f \in UsesOf[op]
    BY <1>2 DEF DeleteSource, RemuxInv, TypeOK, Working, OpAtWork, OwnOutputs
  <2>2. intact' = intact /\ (present' = present \ {f} \/ present' = present)
    BY <1>2 DEF DeleteSource
  <2> QED
    BY <2>1, <2>2 DEF Publication!Next, Publication!GiveUp
<1>3. ASSUME NEW o \in Ops, RemoveOutput(o) PROVE [Publication!Next]_<<intact, present>>
  <2>1. o \notin NoFear[owner[o]]
    BY <1>3 DEF RemoveOutput, RemuxInv, RevertsItsOwn
  <2>2. \A f \in UsesOf[o] : f \in present \/ \E p \in intact \ {o} : f \in UsesOf[p]
    BY <1>3, <2>1, UsesType DEF RemuxInv, GoneIsKept
  <2>3. present' = present /\ (intact' = intact \ {o} \/ intact' = intact)
    BY <1>3 DEF RemoveOutput
  <2> QED
    BY <2>2, <2>3 DEF Publication!Next, Publication!Withdraw
<1>4. ASSUME UNCHANGED <<intact, present>> PROVE [Publication!Next]_<<intact, present>>
  BY <1>4
<1>5. \A j \in Jobs : Submit(j) \/ RejectJob(j) \/ Begin(j) \/ BeginRevert(j)
        => UNCHANGED <<intact, present>>
  BY DEF Submit, RejectJob, Begin, BeginRevert
<1>6. \A o \in Ops : RefuseOp(o) \/ StartOp(o) \/ Intrude(o) => UNCHANGED <<intact, present>>
  BY DEF RefuseOp, StartOp, Intrude
<1>7. Mux \/ MuxEnds \/ MuxRaises \/ ClearTemp \/ OpFailed \/ SettleRaises \/ DeletionsDone
        => UNCHANGED <<intact, present>>
  BY DEF Mux, MuxEnds, MuxRaises, ClearTemp, OpFailed, SettleRaises, DeletionsDone
<1>8. OpsDone \/ PersistUndo \/ EndJob \/ EndRevert \/ Crash \/ Restart \/ UNCHANGED vars
        => UNCHANGED <<intact, present>>
  BY DEF OpsDone, PersistUndo, EndJob, EndRevert, Crash, Restart, vars
<1> QED
  BY <1>1, <1>2, <1>3, <1>4, <1>5, <1>6, <1>7, <1>8 DEF Next, ExecuteOp

\* Remux jobs implement OutputPublication: whatever the thread, the GUI, the
\* environment and crashes do, an output appears whole and while its sources
\* are there, and a source or an output goes only while its content stays.
THEOREM RemuxImplementsPublication ==
    ASSUME RevertCrashes = FALSE
    PROVE  Spec => ImplementsPublication
<1>1. RemuxInv /\ [Next]_vars => [Publication!Next]_<<intact, present>>
  BY RemuxStepPublishes
<1> QED
  BY <1>1, RemuxInitPublishes, RemuxInvariance, PTL
  DEF Spec, ImplementsPublication, Publication!Spec
=============================================================================
