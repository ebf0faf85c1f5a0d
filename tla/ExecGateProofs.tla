--------------------------- MODULE ExecGateProofs ---------------------------
(***************************************************************************)
(* Proofs about the sealed start and its exec mediation: ExecsAreSealed    *)
(* for any number of processes, paths, replacements, revocations and       *)
(* faults.  The inductive invariant says where the start has to be for a   *)
(* process, a descriptor, a record or the listener thread to exist         *)
(* (Stages, Processes, Holders), what an ended run has lost (Endings) and  *)
(* what the thread knows of the call it works on (Calls).                  *)
(***************************************************************************)
EXTENDS ExecGate, TLAPS

(* How far the start is, by what is not there yet.                         *)
Quiet == {"idle", "sealed", "prepared", "left"}
Unrecorded == Quiet \cup {"launched", "captured"}
Unheard == Unrecorded \cup {"stored", "accepted", "received"}
Unwatched == Unheard \cup {"listening"}
Shut == Unwatched \cup {"watched"}
Recorded == {"stored", "accepted", "received", "listening", "watched", "released", "returned"}

NoneRuns == \A t \in Tasks : ~InRun(t)
(* A process that is past the gate.                                        *)
Past(t) == task[t].at \in {"go", "held", "runs"}

(* What the types say of single processes, and what does not concern them. *)
Process == [at : Places, image : Images, wants : Paths]
TaskOK == task \in [Tasks -> Process]
Notes ==
  [task : Tasks, pending : BOOLEAN, saw : Paths, version : 0..MaxVersion, clean : BOOLEAN]
NoteOK == note \in Notes

RootOK ==
  /\ version \in [RootPaths -> 0..MaxVersion]
  /\ store \in [state : {"none", "active", "revoked"}, generation : 0..(MaxRevoked + 1),
                holds : SUBSET Identities]
  /\ sealed \subseteq Identities
StepsOK ==
  /\ start \in StartSteps \cup {"idle", "sealed", "prepared", "returned", "rollback", "killing", "refused", "left",
                              "unkilled"}
  /\ files \subseteq {"fifo", "channel"} /\ armed \in BOOLEAN
  /\ rec \in {"none", "active", "contained", "failed", "completed"}
  /\ lock \in {"free", "loop", "other"} /\ holders \subseteq {"gate", "start", "loop", "lost"}
  /\ loop \in {"none", "poll", "received", "valid", "bound", "inspect", "allow", "trip", "fail",
               "trip killed", "fail killed", "deny", "finish", "done"}
  /\ slips \in 0..GateFaults

(* The record, the thread, the watcher and the files follow the start.     *)
Stages ==
  /\ start \in Unrecorded => rec = "none"
  /\ start \in Recorded => rec # "none"
  /\ start \in Unheard => loop = "none"
  /\ loop # "none" => rec # "none"
  /\ start \in {"listening", "watched", "released", "returned"} => loop # "none"
  /\ start \in Unwatched => ~armed
  /\ start \in {"watched", "released", "returned"} => armed
  /\ start \in {"idle", "sealed", "killing", "refused", "unkilled"} => files = {}

(* No process before the launch or after a refusal; and once one is past   *)
(* the gate, the gate is not on its way any more and the thread alone has  *)
(* the listener.                                                           *)
Processes ==
  /\ start \in Quiet \cup {"refused"} => NoneRuns
  /\ \A t \in Tasks : Past(t) =>
       /\ start \notin Shut /\ rec # "none" /\ armed /\ loop # "none"
       /\ holders \subseteq {"loop"}
       /\ task[Gate].at \notin {"filter", "connect", "sent", "wait"}

(* Who has the listener, and when.                                         *)
Holders ==
  /\ "loop" \in holders <=> loop \notin {"none", "done"}
  /\ "gate" \in holders => task[Gate].at \in {"connect", "sent"}
  /\ "start" \in holders => start \in {"received", "rollback"}
  /\ "lost" \in holders => ~armed /\ start \in {"rollback", "killing", "refused", "unkilled"}
  /\ \A t \in Tasks : task[t].at = "held" => "loop" \in holders

(* A run that is being recorded as ended, or is, has no process.           *)
Endings ==
  /\ lock # "free" => rec = "active" /\ NoneRuns
  /\ loop \in {"trip killed", "fail killed"} => lock = "loop"
  /\ rec \in {"contained", "completed"} => NoneRuns
  /\ RefusedStaysOut

(* What the thread knows of the call.                                      *)
Calls ==
  /\ note.pending => task[note.task].at = "held"
  /\ Judging => note.saw \in RootPaths
  /\ Judging /\ note.pending /\ note.clean =>
       task[note.task].wants = note.saw /\ version[note.saw] = note.version
  /\ loop = "allow" => Matches

(* What a step may do to an image.                                         *)
Enters ==
  \A t \in Tasks : task'[t].at = "runs" /\ task[t].at = "held" /\ task'[t].image # task[t].image =>
    /\ note.task = t /\ note.pending /\ <<note.saw, note.version>> \in sealed
    /\ note.clean => task'[t].image = <<note.saw, note.version>>

ExecIInv == ExecTypeOK /\ Stages /\ Processes /\ Holders /\ Endings /\ Calls

-----------------------------------------------------------------------------
(* Lemmas about the operators that the actions are made of.                *)
(* One process takes a step.                                               *)
LEMMA PlaceFacts == ASSUME TaskOK, NEW t \in Tasks, NEW a \in Places,
                           task' = [task EXCEPT ![t].at = a]
                    PROVE  /\ TaskOK'
                           /\ \A u \in Tasks :
                                /\ task'[u].at = (IF u = t THEN a ELSE task[u].at)
                                /\ task'[u].image = task[u].image
                                /\ task'[u].wants = task[u].wants
<1>1. ASSUME NEW u \in Tasks
      PROVE  /\ task'[u] \in Process
             /\ task'[u].at = (IF u = t THEN a ELSE task[u].at)
             /\ task'[u].image = task[u].image /\ task'[u].wants = task[u].wants
  BY DEF TaskOK, Process
<1>2. task' = [u \in Tasks |-> task'[u]]
  BY DEF TaskOK
<1>3. TaskOK'
  BY <1>1, <1>2 DEF TaskOK
<1> QED BY <1>1, <1>3

(* Some die.                                                               *)
LEMMA DieFacts == ASSUME TaskOK, NoteOK, NEW ts \in SUBSET Tasks, Die(ts), ExecAssumption
                  PROVE  /\ TaskOK' /\ NoteOK'
                         /\ \A u \in Tasks :
                              /\ u \in ts => task'[u].at = "absent"
                              /\ u \notin ts => task'[u] = task[u]
                         /\ holders' \subseteq holders
                         /\ \A h \in holders : h # "gate" => h \in holders'
                         /\ "gate" \in holders' => Gate \notin ts
                         /\ note'.task = note.task /\ note'.saw = note.saw
                         /\ note'.version = note.version /\ note'.clean = note.clean
                         /\ note'.pending <=> note.pending /\ note.task \notin ts
<1>1. /\ NoTask \in Process /\ NoTask.at = "absent"
  BY DEF NoTask, Places, Images, ExecAssumption, Process
<1>2. TaskOK' /\ \A u \in Tasks : (u \in ts => task'[u] = NoTask) /\ (u \notin ts => task'[u] = task[u])
  BY <1>1 DEF Die, TaskOK
<1>3. NoteOK' /\ note'.task = note.task /\ note'.saw = note.saw
      /\ note'.version = note.version /\ note'.clean = note.clean
      /\ (note'.pending <=> note.pending /\ note.task \notin ts)
  BY DEF Die, Lapses, NoteOK, Notes
<1> QED BY <1>1, <1>2, <1>3 DEF Die

(* All of the run die.                                                     *)
LEMMA KillFacts == ASSUME TaskOK, NoteOK, Die(RunTasks), ExecAssumption
                   PROVE  /\ TaskOK' /\ NoteOK' /\ NoneRuns'
                          /\ \A u \in Tasks : task'[u].at = "absent" \/ task'[u] = task[u]
                          /\ holders' \subseteq holders
                          /\ \A h \in holders : h # "gate" => h \in holders'
                          /\ "gate" \in holders' => ~InRun(Gate)
                          /\ note'.task = note.task /\ note'.saw = note.saw
                          /\ note'.version = note.version /\ note'.clean = note.clean
                          /\ note'.pending => note.pending /\ ~InRun(note.task)
<1>1. RunTasks \in SUBSET Tasks
  BY DEF RunTasks
<1>2. NoneRuns'
  BY <1>1, DieFacts DEF RunTasks, NoneRuns, InRun, GateSteps
<1> QED BY <1>1, <1>2, DieFacts DEF RunTasks, NoteOK, Notes, ExecAssumption

(* One comes back from a call, asks for an exec, has its path rewritten or *)
(* has a child.                                                            *)
LEMMA ChangeFacts == ASSUME TaskOK, NEW t \in Tasks, NEW r \in Process,
                            task' = [task EXCEPT ![t] = r]
                     PROVE  TaskOK' /\ \A u \in Tasks : task'[u] = (IF u = t THEN r ELSE task[u])
BY DEF TaskOK

LEMMA BackFacts == ASSUME TaskOK, ExecAssumption, NEW t \in Tasks, NEW i \in Images,
                          task' = [task EXCEPT ![t] = Back(i)]
                   PROVE  /\ TaskOK'
                          /\ \A u \in Tasks : u # t => task'[u] = task[u]
                          /\ task'[t].at = "runs" /\ task'[t].image = i
<1>1. Back(i) \in Process /\ Back(i).at = "runs" /\ Back(i).image = i
  BY DEF Back, Places, ExecAssumption, Process
<1>2. TaskOK' /\ \A u \in Tasks : task'[u] = (IF u = t THEN Back(i) ELSE task[u])
  BY <1>1 DEF TaskOK
<1> QED BY <1>1, <1>2

LEMMA AskFacts == ASSUME TaskOK, NEW t \in Tasks, NEW p \in Paths,
                         task' = [task EXCEPT ![t].at = "held", ![t].wants = p]
                  PROVE  /\ TaskOK'
                         /\ \A u \in Tasks : u # t => task'[u] = task[u]
                         /\ task'[t].at = "held" /\ task'[t].image = task[t].image /\ task'[t].wants = p
<1>1. ASSUME NEW u \in Tasks
      PROVE  /\ task'[u] \in Process
             /\ u # t => task'[u] = task[u]
             /\ u = t => task'[u].at = "held" /\ task'[u].image = task[u].image /\ task'[u].wants = p
  BY DEF TaskOK, Process, Places
<1>2. task' = [u \in Tasks |-> task'[u]]
  BY DEF TaskOK
<1>3. TaskOK'
  BY <1>1, <1>2 DEF TaskOK
<1> QED BY <1>1, <1>3

LEMMA WantFacts == ASSUME TaskOK, NEW t \in Tasks, NEW p \in Paths,
                          task' = [task EXCEPT ![t].wants = p]
                   PROVE  /\ TaskOK'
                          /\ \A u \in Tasks : u # t => task'[u] = task[u]
                          /\ task'[t].at = task[t].at /\ task'[t].image = task[t].image /\ task'[t].wants = p
<1>1. ASSUME NEW u \in Tasks
      PROVE  /\ task'[u] \in Process
             /\ u # t => task'[u] = task[u]
             /\ u = t => task'[u].at = task[u].at /\ task'[u].image = task[u].image /\ task'[u].wants = p
  BY DEF TaskOK, Process
<1>2. task' = [u \in Tasks |-> task'[u]]
  BY DEF TaskOK
<1>3. TaskOK'
  BY <1>1, <1>2 DEF TaskOK
<1> QED BY <1>1, <1>3

LEMMA ChildFacts == ASSUME TaskOK, NEW t \in Tasks, NEW u \in Tasks,
                           task' = [task EXCEPT ![u] = task[t]]
                    PROVE  TaskOK' /\ \A v \in Tasks : task'[v] = (IF v = u THEN task[t] ELSE task[v])
<1>1. task[t] \in Process
  BY DEF TaskOK
<1> QED BY <1>1, ChangeFacts

(* What a path names is an image.                                          *)
LEMMA NamedFacts == ASSUME RootOK, NEW p \in Paths PROVE Named(p) \in Images
<1>1. CASE p \in RootPaths
  BY <1>1 DEF Named, Images, Identities, RootOK
<1>2. CASE p \notin RootPaths
  BY <1>2 DEF Named, Images
<1> QED BY <1>1, <1>2

(* The thread with no call, and with one that it has just received.        *)
LEMMA NoteFacts ==
  ASSUME ExecAssumption
  PROVE  /\ NoNote \in Notes /\ ~NoNote.pending
         /\ \A t \in Tasks : [NoNote EXCEPT !.task = t, !.pending = TRUE] \in Notes
         /\ \A n \in Notes : [n EXCEPT !.clean = FALSE] \in Notes /\ [n EXCEPT !.pending = FALSE] \in Notes
<1>1. 0 \in 0..MaxVersion
  BY DEF ExecAssumption
<1>2. NoNote \in Notes /\ ~NoNote.pending
  BY <1>1 DEF NoNote, Notes, ExecAssumption
<1>3. \A t \in Tasks : [NoNote EXCEPT !.task = t, !.pending = TRUE] \in Notes
  BY <1>2 DEF Notes
<1>4. \A n \in Notes : [n EXCEPT !.clean = FALSE] \in Notes /\ [n EXCEPT !.pending = FALSE] \in Notes
  BY DEF Notes
<1> QED BY <1>2, <1>3, <1>4

(* The listener's descriptor is closed.                                    *)
LEMMA ShutdownFacts == ASSUME TaskOK, Shutdown, ExecAssumption
                       PROVE  /\ TaskOK' /\ NoteOK'
                              /\ loop' = "done" /\ holders' = holders \ {"loop"}
                              /\ \A u \in Tasks :
                                   /\ task'[u].at = (IF task[u].at = "held" THEN "runs" ELSE task[u].at)
                                   /\ task'[u].image = task[u].image
                              /\ ~note'.pending
<1>1. ASSUME NEW i \in Images
      PROVE  /\ Back(i) \in Process
             /\ Back(i).at = "runs" /\ Back(i).image = i
  BY DEF Back, Places, ExecAssumption, Process
<1>2. ASSUME NEW u \in Tasks
      PROVE  /\ task'[u] \in Process
             /\ task'[u].at = (IF task[u].at = "held" THEN "runs" ELSE task[u].at)
             /\ task'[u].image = task[u].image
  BY <1>1 DEF Shutdown, TaskOK, Process
<1>3. TaskOK'
  BY <1>2 DEF Shutdown, TaskOK
<1>4. NoteOK' /\ ~note'.pending
  BY NoteFacts DEF Shutdown, NoteOK
<1> QED BY <1>2, <1>3, <1>4 DEF Shutdown

(* A fault stays within its bound.                                         *)
LEMMA SlipFacts == ASSUME StepsOK, Slip, ExecAssumption PROVE slips' \in 0..GateFaults
<1>1. slips \in 0..GateFaults
  BY DEF StepsOK
<1> QED BY <1>1 DEF Slip, ExecAssumption

(* The answer lets the caller go on, as what its path names now or, if the *)
(* exec fails then, as what it was.                                        *)
LEMMA AllowFacts ==
  ASSUME TaskOK, NoteOK, RootOK, ExecAssumption, LoopAllow, note.pending
  PROVE  /\ TaskOK' /\ NoteOK' /\ ~note'.pending /\ note.task \in Tasks /\ loop' = "poll"
         /\ \A u \in Tasks : u # note.task => task'[u] = task[u]
         /\ task'[note.task].at = "runs"
         /\ task'[note.task].image \in {Named(task[note.task].wants), task[note.task].image}
<1>1. /\ note.task \in Tasks
      /\ task[note.task].image \in Images /\ task[note.task].wants \in Paths
  BY DEF TaskOK, NoteOK, Notes, Process
<1>2. PICK image \in {Named(task[note.task].wants), task[note.task].image} :
        task' = [task EXCEPT ![note.task] = Back(image)]
  BY DEF LoopAllow
<1>3. image \in Images
  BY <1>1, <1>2, NamedFacts
<1>4. NoteOK' /\ ~note'.pending /\ loop' = "poll"
  BY NoteFacts DEF LoopAllow, NoteOK
<1> QED BY <1>1, <1>2, <1>3, <1>4, BackFacts

-----------------------------------------------------------------------------
(* Each part, one step per action.                                         *)
(* The processes keep their type.                                          *)
LEMMA TaskOKKept == ASSUME ExecIInv, ExecNext PROVE TaskOK'
<1> USE ExecAssumption DEF ExecIInv, execVars, rootVars, startVars, TaskOK, GateSteps, Places
<1>a. TaskOK /\ NoteOK /\ RootOK /\ StepsOK BY DEF ExecTypeOK, TaskOK, NoteOK, Notes, RootOK, StepsOK, Process
<1>b. RunTasks \in SUBSET Tasks /\ {Gate} \in SUBSET Tasks BY DEF RunTasks
<1>c. /\ \A t \in Tasks : task[t].image \in Images /\ task[t].wants \in Paths
      /\ note.task \in Tasks
  BY <1>a DEF TaskOK, NoteOK, Notes, Process
<1>1. CASE CreatePolicy BY <1>1, <1>a DEF CreatePolicy, RootRests, LockFree
<1>2. CASE RevokePolicy BY <1>2, <1>a DEF RevokePolicy, RootRests, LockFree
<1>3. ASSUME NEW p \in RootPaths, Replace(p) PROVE TaskOK'
  BY <1>3, <1>a DEF Replace, RootRests, Judging
<1>4. CASE StartLoad BY <1>4, <1>a DEF StartLoad, StartOnly, Sealing
<1>5. CASE StartPrepare BY <1>5, <1>a DEF StartPrepare, StartOnly
<1>6. CASE StartLaunch BY <1>6, <1>a, <1>b, PlaceFacts DEF StartLaunch, StartOnly
<1>7. CASE StartUndone BY <1>7, <1>a DEF StartUndone, StartOnly
<1>8. CASE StartDrifts BY <1>8, <1>a DEF StartDrifts, StartOnly
<1>9. CASE StartCapture BY <1>9, <1>a DEF StartCapture, StartOnly
<1>10. CASE StartStore BY <1>10, <1>a DEF StartStore, StartOnly
<1>11. CASE StartAccept BY <1>11, <1>a DEF StartAccept, StartOnly
<1>12. CASE StartReceive BY <1>12, <1>a DEF StartReceive, StartOnly
<1>13. CASE StartListen BY <1>13, <1>a DEF StartListen, StartOnly
<1>14. CASE StartWatch BY <1>14, <1>a DEF StartWatch, StartOnly
<1>15. CASE StartRelease BY <1>15, <1>a, <1>b, PlaceFacts DEF StartRelease, StartOnly
<1>16. CASE StartReturn BY <1>16, <1>a DEF StartReturn, StartOnly
<1>17. CASE StartFails BY <1>17, <1>a DEF StartFails, StartOnly, StartSteps
<1>18. CASE StartRollback BY <1>18, <1>a DEF StartRollback, StartOnly
<1>19. CASE StartKill BY <1>19, <1>a, <1>b, KillFacts DEF StartKill, StartOnly
<1>20. CASE GateFilter BY <1>20, <1>a, <1>b, PlaceFacts DEF GateFilter, GateRests
<1>21. CASE GateSends BY <1>21, <1>a, <1>b, DieFacts, PlaceFacts DEF GateSends, GateRests
<1>22. CASE GateHeard BY <1>22, <1>a, <1>b, PlaceFacts DEF GateHeard, GateRests
<1>23. CASE GateExec BY <1>23, <1>a, <1>b, DieFacts, PlaceFacts DEF GateExec, GateRests
<1>24. CASE GateGivesUp BY <1>24, <1>a, <1>b, DieFacts DEF GateGivesUp, GateRests
<1>25. ASSUME NEW t \in Tasks, Ask(t) PROVE TaskOK'
  BY <1>25, <1>a, <1>b, AskFacts DEF Ask, WorkRests, GateRests
<1>26. ASSUME NEW t \in Tasks, Signalled(t) PROVE TaskOK'
  BY <1>26, <1>a, <1>b, BackFacts, <1>c DEF Signalled, WorkRests, GateRests, Lapses
<1>27. ASSUME NEW t \in Tasks, Leave(t) PROVE TaskOK'
  BY <1>27, <1>a, <1>b, DieFacts DEF Leave, WorkRests, GateRests
<1>28. ASSUME NEW t \in Tasks, Reused(t) PROVE TaskOK'
  BY <1>28, <1>a, <1>b, PlaceFacts DEF Reused, WorkRests, GateRests
<1>29. ASSUME NEW t \in Tasks, NEW u \in Tasks, Rewrite(t, u) PROVE TaskOK'
  BY <1>29, <1>a, <1>b, WantFacts DEF Rewrite, WorkRests, GateRests, Judging
<1>30. ASSUME NEW t \in Tasks, NEW u \in Tasks, Spawn(t, u) PROVE TaskOK'
  BY <1>30, <1>a, <1>b, ChildFacts DEF Spawn, WorkRests, GateRests
<1>31. CASE LoopIdle BY <1>31, <1>a, <1>b, ShutdownFacts DEF LoopIdle, LoopOnly, HeldTasks
<1>32. CASE LoopHangup BY <1>32, <1>a, <1>b, ShutdownFacts DEF LoopHangup, LoopOnly
<1>33. CASE LoopError BY <1>33, <1>a DEF LoopError, LoopOnly, Slip, LoopQuiet
<1>34. CASE LoopValid BY <1>34, <1>a DEF LoopValid, LoopOnly, LoopQuiet, NoNote
<1>35. CASE LoopBind BY <1>35, <1>a DEF LoopBind, LoopOnly, LoopQuiet
<1>36. CASE LoopRead BY <1>36, <1>a DEF LoopRead, LoopOnly, LoopQuiet, Readable
<1>37. CASE LoopInspect BY <1>37, <1>a DEF LoopInspect, LoopOnly, LoopQuiet, Matches
<1>38. CASE LoopAllow
  BY <1>38, <1>a, AllowFacts DEF LoopAllow, TaskOK
<1>39. CASE LoopKill BY <1>39, <1>a, <1>b, KillFacts DEF LoopKill, LoopOnly
<1>40. CASE LoopKillFails BY <1>40, <1>a, <1>b, ShutdownFacts DEF LoopKillFails, LoopOnly
<1>41. CASE LoopRecord BY <1>41, <1>a DEF LoopRecord, LoopOnly
<1>42. CASE LoopSettled BY <1>42, <1>a DEF LoopSettled, LoopOnly, LoopQuiet
<1>43. CASE LoopEnds BY <1>43, <1>a, <1>b, ShutdownFacts DEF LoopEnds, LoopOnly
<1>44. ASSUME NEW t \in Tasks, LoopReceive(t) PROVE TaskOK'
  BY <1>44, <1>a DEF LoopReceive, LoopQuiet, LoopOnly, NoNote
<1>45. CASE OtherKill BY <1>45, <1>a, <1>b, KillFacts DEF OtherKill, OthersRest
<1>46. CASE OtherKillFails BY <1>46, <1>a DEF OtherKillFails, OthersRest
<1>47. CASE OtherRecord BY <1>47, <1>a DEF OtherRecord, OthersRest
<1>48. CASE OtherCompletes BY <1>48, <1>a DEF OtherCompletes, OthersRest
<1>49. CASE StartKillFails BY <1>49, <1>a DEF StartKillFails, StartOnly
<1> QED BY <1>1, <1>2, <1>3, <1>4, <1>5, <1>6, <1>7, <1>8, <1>9, <1>10, <1>11, <1>12, <1>13, <1>14, <1>15, <1>16, <1>17, <1>18, <1>19, <1>20, <1>21, <1>22, <1>23, <1>24, <1>25, <1>26, <1>27, <1>28, <1>29, <1>30, <1>31, <1>32, <1>33, <1>34, <1>35, <1>36, <1>37, <1>38, <1>39, <1>40, <1>41, <1>42, <1>43, <1>44, <1>45, <1>46, <1>47, <1>48, <1>49 DEF ExecNext, StartStep, GateStep, WorkStep, LoopStep

(* So does the call that the thread works on.                              *)
LEMMA NoteOKKept == ASSUME ExecIInv, ExecNext PROVE NoteOK'
<1> USE ExecAssumption DEF ExecIInv, execVars, rootVars, startVars, NoteOK
<1>a. TaskOK /\ NoteOK /\ RootOK /\ StepsOK BY DEF ExecTypeOK, TaskOK, NoteOK, Notes, RootOK, StepsOK, Process
<1>b. RunTasks \in SUBSET Tasks /\ {Gate} \in SUBSET Tasks BY DEF RunTasks
<1>c. /\ \A t \in Tasks : task[t].image \in Images /\ task[t].wants \in Paths
      /\ note.task \in Tasks
  BY <1>a DEF TaskOK, NoteOK, Notes, Process
<1>1. CASE CreatePolicy BY <1>1, <1>a DEF CreatePolicy, RootRests, LockFree
<1>2. CASE RevokePolicy BY <1>2, <1>a DEF RevokePolicy, RootRests, LockFree
<1>3. ASSUME NEW p \in RootPaths, Replace(p) PROVE NoteOK'
  BY <1>3, <1>a, NoteFacts DEF Replace
<1>4. CASE StartLoad BY <1>4, <1>a DEF StartLoad, StartOnly, Sealing
<1>5. CASE StartPrepare BY <1>5, <1>a DEF StartPrepare, StartOnly
<1>6. CASE StartLaunch BY <1>6, <1>a, <1>b, PlaceFacts DEF StartLaunch, StartOnly
<1>7. CASE StartUndone BY <1>7, <1>a DEF StartUndone, StartOnly
<1>8. CASE StartDrifts BY <1>8, <1>a DEF StartDrifts, StartOnly
<1>9. CASE StartCapture BY <1>9, <1>a DEF StartCapture, StartOnly
<1>10. CASE StartStore BY <1>10, <1>a DEF StartStore, StartOnly
<1>11. CASE StartAccept BY <1>11, <1>a DEF StartAccept, StartOnly
<1>12. CASE StartReceive BY <1>12, <1>a DEF StartReceive, StartOnly
<1>13. CASE StartListen BY <1>13, <1>a DEF StartListen, StartOnly
<1>14. CASE StartWatch BY <1>14, <1>a DEF StartWatch, StartOnly
<1>15. CASE StartRelease BY <1>15, <1>a, <1>b, PlaceFacts DEF StartRelease, StartOnly
<1>16. CASE StartReturn BY <1>16, <1>a DEF StartReturn, StartOnly
<1>17. CASE StartFails BY <1>17, <1>a DEF StartFails, StartOnly, StartSteps
<1>18. CASE StartRollback BY <1>18, <1>a DEF StartRollback, StartOnly
<1>19. CASE StartKill BY <1>19, <1>a, <1>b, KillFacts DEF StartKill, StartOnly
<1>20. CASE GateFilter BY <1>20, <1>a, <1>b, PlaceFacts DEF GateFilter, GateRests
<1>21. CASE GateSends BY <1>21, <1>a, <1>b, DieFacts, PlaceFacts DEF GateSends, GateRests
<1>22. CASE GateHeard BY <1>22, <1>a, <1>b, PlaceFacts DEF GateHeard, GateRests
<1>23. CASE GateExec BY <1>23, <1>a, <1>b, DieFacts, PlaceFacts DEF GateExec, GateRests
<1>24. CASE GateGivesUp BY <1>24, <1>a, <1>b, DieFacts DEF GateGivesUp, GateRests, GateSteps
<1>25. ASSUME NEW t \in Tasks, Ask(t) PROVE NoteOK'
  BY <1>25, <1>a, <1>b, AskFacts DEF Ask, WorkRests, GateRests
<1>26. ASSUME NEW t \in Tasks, Signalled(t) PROVE NoteOK'
  BY <1>26, <1>a, NoteFacts DEF Signalled, Lapses
<1>27. ASSUME NEW t \in Tasks, Leave(t) PROVE NoteOK'
  BY <1>27, <1>a, <1>b, DieFacts DEF Leave, WorkRests, GateRests
<1>28. ASSUME NEW t \in Tasks, Reused(t) PROVE NoteOK'
  BY <1>28, <1>a, <1>b, PlaceFacts DEF Reused, WorkRests, GateRests
<1>29. ASSUME NEW t \in Tasks, NEW u \in Tasks, Rewrite(t, u) PROVE NoteOK'
  BY <1>29, <1>a, NoteFacts DEF Rewrite
<1>30. ASSUME NEW t \in Tasks, NEW u \in Tasks, Spawn(t, u) PROVE NoteOK'
  BY <1>30, <1>a, <1>b, ChildFacts DEF Spawn, WorkRests, GateRests
<1>31. CASE LoopIdle BY <1>31, <1>a, <1>b, ShutdownFacts DEF LoopIdle, LoopOnly, HeldTasks
<1>32. CASE LoopHangup BY <1>32, <1>a, <1>b, ShutdownFacts DEF LoopHangup, LoopOnly
<1>33. CASE LoopError BY <1>33, <1>a DEF LoopError, LoopOnly, Slip, LoopQuiet
<1>34. CASE LoopValid
  BY <1>34, <1>a, NoteFacts DEF LoopValid, LoopOnly, LoopQuiet
<1>35. CASE LoopBind BY <1>35, <1>a DEF LoopBind, LoopOnly, LoopQuiet
<1>36. CASE LoopRead
  <2>1. ASSUME NEW p \in Readable \cap RootPaths
        PROVE  [note EXCEPT !.saw = p, !.version = version[p], !.clean = TRUE] \in Notes
    BY <1>a, <2>1 DEF NoteOK, Notes, RootOK
  <2> QED BY <1>36, <1>a, <2>1 DEF LoopRead, NoteOK
<1>37. CASE LoopInspect BY <1>37, <1>a DEF LoopInspect, LoopOnly, LoopQuiet, Matches
<1>38. CASE LoopAllow
  BY <1>38, <1>a, AllowFacts DEF LoopAllow
<1>39. CASE LoopKill BY <1>39, <1>a, <1>b, KillFacts DEF LoopKill, LoopOnly
<1>40. CASE LoopKillFails BY <1>40, <1>a, <1>b, ShutdownFacts DEF LoopKillFails, LoopOnly
<1>41. CASE LoopRecord BY <1>41, <1>a DEF LoopRecord, LoopOnly
<1>42. CASE LoopSettled BY <1>42, <1>a DEF LoopSettled, LoopOnly, LoopQuiet
<1>43. CASE LoopEnds BY <1>43, <1>a, <1>b, ShutdownFacts DEF LoopEnds, LoopOnly
<1>44. ASSUME NEW t \in Tasks, LoopReceive(t) PROVE NoteOK'
  BY <1>44, <1>a, NoteFacts DEF LoopReceive
<1>45. CASE OtherKill BY <1>45, <1>a, <1>b, KillFacts DEF OtherKill, OthersRest
<1>46. CASE OtherKillFails BY <1>46, <1>a DEF OtherKillFails, OthersRest
<1>47. CASE OtherRecord BY <1>47, <1>a DEF OtherRecord, OthersRest
<1>48. CASE OtherCompletes BY <1>48, <1>a DEF OtherCompletes, OthersRest
<1>49. CASE StartKillFails BY <1>49, <1>a DEF StartKillFails, StartOnly
<1> QED BY <1>1, <1>2, <1>3, <1>4, <1>5, <1>6, <1>7, <1>8, <1>9, <1>10, <1>11, <1>12, <1>13, <1>14, <1>15, <1>16, <1>17, <1>18, <1>19, <1>20, <1>21, <1>22, <1>23, <1>24, <1>25, <1>26, <1>27, <1>28, <1>29, <1>30, <1>31, <1>32, <1>33, <1>34, <1>35, <1>36, <1>37, <1>38, <1>39, <1>40, <1>41, <1>42, <1>43, <1>44, <1>45, <1>46, <1>47, <1>48, <1>49 DEF ExecNext, StartStep, GateStep, WorkStep, LoopStep

(* So do the executables, the policy and what was sealed of it.            *)
LEMMA RootOKKept == ASSUME ExecIInv, ExecNext PROVE RootOK'
<1> USE ExecAssumption DEF ExecIInv, execVars, rootVars, startVars, RootOK
<1>a. TaskOK /\ NoteOK /\ RootOK /\ StepsOK BY DEF ExecTypeOK, TaskOK, NoteOK, Notes, RootOK, StepsOK, Process
<1>b. RunTasks \in SUBSET Tasks /\ {Gate} \in SUBSET Tasks BY DEF RunTasks
<1>c. /\ \A t \in Tasks : task[t].image \in Images /\ task[t].wants \in Paths
      /\ note.task \in Tasks
  BY <1>a DEF TaskOK, NoteOK, Notes, Process
<1>1. CASE CreatePolicy
  <2>1. ASSUME NEW ps \in SUBSET RootPaths PROVE {<<p, version[p]>> : p \in ps} \in SUBSET Identities
    BY <1>a DEF RootOK, Identities
  <2>2. 1 \in 0..(MaxRevoked + 1)
    BY DEF ExecAssumption
  <2>3. PICK ps \in SUBSET RootPaths :
          store' = [state |-> "active", generation |-> 1, holds |-> {<<p, version[p]>> : p \in ps}]
    BY <1>1 DEF CreatePolicy
  <2>4. version' = version /\ sealed' = sealed
    BY <1>1 DEF CreatePolicy, RootRests
  <2> QED BY <1>a, <2>1, <2>2, <2>3, <2>4 DEF RootOK
<1>2. CASE RevokePolicy
  <2>1. store.generation + 1 \in 0..(MaxRevoked + 1)
    BY <1>2, <1>a DEF RevokePolicy, RootOK, ExecAssumption
  <2>2. version' = version /\ sealed' = sealed /\ store' = [store EXCEPT !.state = "revoked", !.generation = store.generation + 1]
    BY <1>2 DEF RevokePolicy, RootRests
  <2> QED BY <1>a, <2>1, <2>2 DEF RootOK
<1>3. ASSUME NEW p \in RootPaths, Replace(p) PROVE RootOK'
  BY <1>3, <1>a DEF Replace, RootRests, Judging
<1>4. CASE StartLoad
  <2>1. store.holds \subseteq Identities /\ sealed \subseteq Identities
        /\ (Target \in RootPaths => <<Target, version[Target]>> \in Identities)
    BY <1>a DEF RootOK, Identities
  <2>2. version' = version /\ store' = store
        /\ (sealed' = sealed \/ sealed' = store.holds \/ (Target \in RootPaths /\ sealed' = {<<Target, version[Target]>>}))
    BY <1>4 DEF StartLoad, StartOnly, Sealing
  <2> QED BY <1>a, <2>1, <2>2 DEF RootOK
<1>5. CASE StartPrepare BY <1>5, <1>a DEF StartPrepare, StartOnly
<1>6. CASE StartLaunch BY <1>6, <1>a, <1>b, PlaceFacts DEF StartLaunch, StartOnly
<1>7. CASE StartUndone BY <1>7, <1>a DEF StartUndone, StartOnly
<1>8. CASE StartDrifts BY <1>8, <1>a DEF StartDrifts, StartOnly
<1>9. CASE StartCapture BY <1>9, <1>a DEF StartCapture, StartOnly
<1>10. CASE StartStore BY <1>10, <1>a DEF StartStore, StartOnly
<1>11. CASE StartAccept BY <1>11, <1>a DEF StartAccept, StartOnly
<1>12. CASE StartReceive BY <1>12, <1>a DEF StartReceive, StartOnly
<1>13. CASE StartListen BY <1>13, <1>a DEF StartListen, StartOnly
<1>14. CASE StartWatch BY <1>14, <1>a DEF StartWatch, StartOnly
<1>15. CASE StartRelease BY <1>15, <1>a, <1>b, PlaceFacts DEF StartRelease, StartOnly
<1>16. CASE StartReturn BY <1>16, <1>a DEF StartReturn, StartOnly
<1>17. CASE StartFails BY <1>17, <1>a DEF StartFails, StartOnly, StartSteps
<1>18. CASE StartRollback BY <1>18, <1>a DEF StartRollback, StartOnly
<1>19. CASE StartKill BY <1>19, <1>a, <1>b, KillFacts DEF StartKill, StartOnly
<1>20. CASE GateFilter BY <1>20, <1>a, <1>b, PlaceFacts DEF GateFilter, GateRests
<1>21. CASE GateSends BY <1>21, <1>a, <1>b, DieFacts, PlaceFacts DEF GateSends, GateRests
<1>22. CASE GateHeard BY <1>22, <1>a, <1>b, PlaceFacts DEF GateHeard, GateRests
<1>23. CASE GateExec BY <1>23, <1>a, <1>b, DieFacts, PlaceFacts DEF GateExec, GateRests
<1>24. CASE GateGivesUp BY <1>24, <1>a, <1>b, DieFacts DEF GateGivesUp, GateRests, GateSteps
<1>25. ASSUME NEW t \in Tasks, Ask(t) PROVE RootOK'
  BY <1>25, <1>a, <1>b, AskFacts DEF Ask, WorkRests, GateRests
<1>26. ASSUME NEW t \in Tasks, Signalled(t) PROVE RootOK'
  BY <1>26, <1>a, <1>b, BackFacts, <1>c DEF Signalled, WorkRests, GateRests, Lapses
<1>27. ASSUME NEW t \in Tasks, Leave(t) PROVE RootOK'
  BY <1>27, <1>a, <1>b, DieFacts DEF Leave, WorkRests, GateRests
<1>28. ASSUME NEW t \in Tasks, Reused(t) PROVE RootOK'
  BY <1>28, <1>a, <1>b, PlaceFacts DEF Reused, WorkRests, GateRests
<1>29. ASSUME NEW t \in Tasks, NEW u \in Tasks, Rewrite(t, u) PROVE RootOK'
  BY <1>29, <1>a, <1>b, WantFacts DEF Rewrite, WorkRests, GateRests, Judging
<1>30. ASSUME NEW t \in Tasks, NEW u \in Tasks, Spawn(t, u) PROVE RootOK'
  BY <1>30, <1>a, <1>b, ChildFacts DEF Spawn, WorkRests, GateRests
<1>31. CASE LoopIdle BY <1>31, <1>a, <1>b, ShutdownFacts DEF LoopIdle, LoopOnly, HeldTasks
<1>32. CASE LoopHangup BY <1>32, <1>a, <1>b, ShutdownFacts DEF LoopHangup, LoopOnly
<1>33. CASE LoopError BY <1>33, <1>a DEF LoopError, LoopOnly, Slip, LoopQuiet
<1>34. CASE LoopValid BY <1>34, <1>a DEF LoopValid, LoopOnly, LoopQuiet, NoNote
<1>35. CASE LoopBind BY <1>35, <1>a DEF LoopBind, LoopOnly, LoopQuiet
<1>36. CASE LoopRead BY <1>36, <1>a DEF LoopRead, LoopOnly, LoopQuiet, Readable
<1>37. CASE LoopInspect BY <1>37, <1>a DEF LoopInspect, LoopOnly, LoopQuiet, Matches
<1>38. CASE LoopAllow BY <1>38, <1>a, <1>b DEF LoopAllow, LoopOnly, NoNote
<1>39. CASE LoopKill BY <1>39, <1>a, <1>b, KillFacts DEF LoopKill, LoopOnly
<1>40. CASE LoopKillFails BY <1>40, <1>a, <1>b, ShutdownFacts DEF LoopKillFails, LoopOnly
<1>41. CASE LoopRecord BY <1>41, <1>a DEF LoopRecord, LoopOnly
<1>42. CASE LoopSettled BY <1>42, <1>a DEF LoopSettled, LoopOnly, LoopQuiet
<1>43. CASE LoopEnds BY <1>43, <1>a, <1>b, ShutdownFacts DEF LoopEnds, LoopOnly
<1>44. ASSUME NEW t \in Tasks, LoopReceive(t) PROVE RootOK'
  BY <1>44, <1>a DEF LoopReceive, LoopQuiet, LoopOnly, NoNote
<1>45. CASE OtherKill BY <1>45, <1>a, <1>b, KillFacts DEF OtherKill, OthersRest
<1>46. CASE OtherKillFails BY <1>46, <1>a DEF OtherKillFails, OthersRest
<1>47. CASE OtherRecord BY <1>47, <1>a DEF OtherRecord, OthersRest
<1>48. CASE OtherCompletes BY <1>48, <1>a DEF OtherCompletes, OthersRest
<1>49. CASE StartKillFails BY <1>49, <1>a DEF StartKillFails, StartOnly
<1> QED BY <1>1, <1>2, <1>3, <1>4, <1>5, <1>6, <1>7, <1>8, <1>9, <1>10, <1>11, <1>12, <1>13, <1>14, <1>15, <1>16, <1>17, <1>18, <1>19, <1>20, <1>21, <1>22, <1>23, <1>24, <1>25, <1>26, <1>27, <1>28, <1>29, <1>30, <1>31, <1>32, <1>33, <1>34, <1>35, <1>36, <1>37, <1>38, <1>39, <1>40, <1>41, <1>42, <1>43, <1>44, <1>45, <1>46, <1>47, <1>48, <1>49 DEF ExecNext, StartStep, GateStep, WorkStep, LoopStep

(* So do the steps, the record and the descriptors.                        *)
LEMMA StepsOKKept == ASSUME ExecIInv, ExecNext PROVE StepsOK'
<1> USE ExecAssumption DEF ExecIInv, execVars, rootVars, startVars, StepsOK, StartSteps
<1>a. TaskOK /\ NoteOK /\ RootOK /\ StepsOK BY DEF ExecTypeOK, TaskOK, NoteOK, Notes, RootOK, StepsOK, Process
<1>b. RunTasks \in SUBSET Tasks /\ {Gate} \in SUBSET Tasks BY DEF RunTasks
<1>c. /\ \A t \in Tasks : task[t].image \in Images /\ task[t].wants \in Paths
      /\ note.task \in Tasks
  BY <1>a DEF TaskOK, NoteOK, Notes, Process
<1>1. CASE CreatePolicy BY <1>1, <1>a DEF CreatePolicy, RootRests, LockFree
<1>2. CASE RevokePolicy BY <1>2, <1>a DEF RevokePolicy, RootRests, LockFree
<1>3. ASSUME NEW p \in RootPaths, Replace(p) PROVE StepsOK'
  <2>1. /\ start' = start /\ files' = files /\ armed' = armed /\ rec' = rec /\ lock' = lock
        /\ loop' = loop /\ holders' = holders /\ slips' = slips
    BY <1>3 DEF Replace, RootRests
  <2> HIDE DEF StartSteps
  <2> QED BY <1>a, <2>1 DEF StepsOK
<1>4. CASE StartLoad BY <1>4, <1>a DEF StartLoad, StartOnly, Sealing
<1>5. CASE StartPrepare BY <1>5, <1>a DEF StartPrepare, StartOnly
<1>6. CASE StartLaunch BY <1>6, <1>a, <1>b, PlaceFacts DEF StartLaunch, StartOnly
<1>7. CASE StartUndone BY <1>7, <1>a, SlipFacts DEF StartUndone, StartOnly
<1>8. CASE StartDrifts BY <1>8, <1>a, SlipFacts DEF StartDrifts, StartOnly
<1>9. CASE StartCapture BY <1>9, <1>a DEF StartCapture, StartOnly
<1>10. CASE StartStore BY <1>10, <1>a DEF StartStore, StartOnly
<1>11. CASE StartAccept BY <1>11, <1>a DEF StartAccept, StartOnly
<1>12. CASE StartReceive BY <1>12, <1>a DEF StartReceive, StartOnly
<1>13. CASE StartListen BY <1>13, <1>a DEF StartListen, StartOnly
<1>14. CASE StartWatch BY <1>14, <1>a DEF StartWatch, StartOnly
<1>15. CASE StartRelease BY <1>15, <1>a, <1>b, PlaceFacts DEF StartRelease, StartOnly
<1>16. CASE StartReturn BY <1>16, <1>a DEF StartReturn, StartOnly
<1>17. CASE StartFails BY <1>17, <1>a, SlipFacts DEF StartFails, StartOnly
<1>18. CASE StartRollback BY <1>18, <1>a DEF StartRollback, StartOnly
<1>19. CASE StartKill BY <1>19, <1>a, <1>b, KillFacts DEF StartKill, StartOnly
<1>20. CASE GateFilter
  <2>1. start' = start /\ files' = files /\ armed' = armed /\ rec' = rec /\ lock' = lock /\ loop' = loop
    BY <1>20 DEF GateFilter, GateRests
  <2>2. slips' = slips BY <1>20 DEF GateFilter, GateRests
  <2>3. holders' \subseteq holders \cup {"gate"} BY <1>20 DEF GateFilter, GateRests
  <2> HIDE DEF StartSteps
  <2> QED BY <1>a, <2>1, <2>2, <2>3 DEF StepsOK
<1>21. CASE GateSends
  <2>1. start' = start /\ files' = files /\ armed' = armed /\ rec' = rec /\ lock' = lock /\ loop' = loop
    BY <1>21 DEF GateSends, GateRests
  <2>2. slips' = slips BY <1>21 DEF GateSends, GateRests
  <2>3. holders' \subseteq holders \cup {"gate"} BY <1>21, <1>a, <1>b, DieFacts DEF GateSends, GateRests
  <2> HIDE DEF StartSteps
  <2> QED BY <1>a, <2>1, <2>2, <2>3 DEF StepsOK
<1>22. CASE GateHeard
  <2>1. start' = start /\ files' = files /\ armed' = armed /\ rec' = rec /\ lock' = lock /\ loop' = loop
    BY <1>22 DEF GateHeard, GateRests
  <2>2. slips' = slips BY <1>22 DEF GateHeard, GateRests
  <2>3. holders' \subseteq holders \cup {"gate"} BY <1>22 DEF GateHeard, GateRests
  <2> HIDE DEF StartSteps
  <2> QED BY <1>a, <2>1, <2>2, <2>3 DEF StepsOK
<1>23. CASE GateExec
  <2>1. start' = start /\ files' = files /\ armed' = armed /\ rec' = rec /\ lock' = lock /\ loop' = loop
    BY <1>23 DEF GateExec, GateRests
  <2>2. slips' = slips BY <1>23 DEF GateExec, GateRests
  <2>3. holders' \subseteq holders \cup {"gate"} BY <1>23, <1>a, <1>b, DieFacts DEF GateExec, GateRests
  <2> HIDE DEF StartSteps
  <2> QED BY <1>a, <2>1, <2>2, <2>3 DEF StepsOK
<1>24. CASE GateGivesUp
  <2>1. start' = start /\ files' = files /\ armed' = armed /\ rec' = rec /\ lock' = lock /\ loop' = loop
    BY <1>24 DEF GateGivesUp, GateRests
  <2>2. slips' \in 0..GateFaults BY <1>24, <1>a, SlipFacts DEF GateGivesUp, GateRests
  <2>3. holders' \subseteq holders \cup {"gate"} BY <1>24, <1>a, <1>b, DieFacts DEF GateGivesUp, GateRests
  <2> HIDE DEF StartSteps
  <2> QED BY <1>a, <2>1, <2>2, <2>3 DEF StepsOK
<1>25. ASSUME NEW t \in Tasks, Ask(t) PROVE StepsOK'
  <2>1. start' = start /\ files' = files /\ armed' = armed /\ rec' = rec /\ lock' = lock /\ loop' = loop
    BY <1>25 DEF Ask, WorkRests, GateRests
  <2>2. slips' = slips BY <1>25 DEF Ask, WorkRests, GateRests
  <2>3. holders' \subseteq holders \cup {"gate"} BY <1>25 DEF Ask, WorkRests, GateRests
  <2> HIDE DEF StartSteps
  <2> QED BY <1>a, <2>1, <2>2, <2>3 DEF StepsOK
<1>26. ASSUME NEW t \in Tasks, Signalled(t) PROVE StepsOK'
  <2>1. start' = start /\ files' = files /\ armed' = armed /\ rec' = rec /\ lock' = lock /\ loop' = loop
    BY <1>26 DEF Signalled, WorkRests, GateRests
  <2>2. slips' = slips BY <1>26 DEF Signalled, WorkRests, GateRests
  <2>3. holders' \subseteq holders \cup {"gate"} BY <1>26 DEF Signalled, WorkRests, GateRests
  <2> HIDE DEF StartSteps
  <2> QED BY <1>a, <2>1, <2>2, <2>3 DEF StepsOK
<1>27. ASSUME NEW t \in Tasks, Leave(t) PROVE StepsOK'
  <2>1. start' = start /\ files' = files /\ armed' = armed /\ rec' = rec /\ lock' = lock /\ loop' = loop
    BY <1>27 DEF Leave, WorkRests, GateRests
  <2>2. slips' = slips BY <1>27 DEF Leave, WorkRests, GateRests
  <2>3. holders' \subseteq holders \cup {"gate"} BY <1>27, <1>a, <1>b, DieFacts DEF Leave, WorkRests, GateRests
  <2> HIDE DEF StartSteps
  <2> QED BY <1>a, <2>1, <2>2, <2>3 DEF StepsOK
<1>28. ASSUME NEW t \in Tasks, Reused(t) PROVE StepsOK'
  <2>1. start' = start /\ files' = files /\ armed' = armed /\ rec' = rec /\ lock' = lock /\ loop' = loop
    BY <1>28 DEF Reused, WorkRests, GateRests
  <2>2. slips' = slips BY <1>28 DEF Reused, WorkRests, GateRests
  <2>3. holders' \subseteq holders \cup {"gate"} BY <1>28 DEF Reused, WorkRests, GateRests
  <2> HIDE DEF StartSteps
  <2> QED BY <1>a, <2>1, <2>2, <2>3 DEF StepsOK
<1>29. ASSUME NEW t \in Tasks, NEW u \in Tasks, Rewrite(t, u) PROVE StepsOK'
  <2>1. start' = start /\ files' = files /\ armed' = armed /\ rec' = rec /\ lock' = lock /\ loop' = loop
    BY <1>29 DEF Rewrite, WorkRests, GateRests
  <2>2. slips' = slips BY <1>29 DEF Rewrite, WorkRests, GateRests
  <2>3. holders' \subseteq holders \cup {"gate"} BY <1>29 DEF Rewrite, WorkRests, GateRests
  <2> HIDE DEF StartSteps
  <2> QED BY <1>a, <2>1, <2>2, <2>3 DEF StepsOK
<1>30. ASSUME NEW t \in Tasks, NEW u \in Tasks, Spawn(t, u) PROVE StepsOK'
  <2>1. start' = start /\ files' = files /\ armed' = armed /\ rec' = rec /\ lock' = lock /\ loop' = loop
    BY <1>30 DEF Spawn, WorkRests, GateRests
  <2>2. slips' = slips BY <1>30 DEF Spawn, WorkRests, GateRests
  <2>3. holders' \subseteq holders \cup {"gate"} BY <1>30 DEF Spawn, WorkRests, GateRests
  <2> HIDE DEF StartSteps
  <2> QED BY <1>a, <2>1, <2>2, <2>3 DEF StepsOK
<1>31. CASE LoopIdle BY <1>31, <1>a, <1>b, ShutdownFacts DEF LoopIdle, LoopOnly, HeldTasks
<1>32. CASE LoopHangup BY <1>32, <1>a, <1>b, ShutdownFacts, SlipFacts DEF LoopHangup, LoopOnly
<1>33. CASE LoopError BY <1>33, <1>a DEF LoopError, LoopOnly, Slip, LoopQuiet
<1>34. CASE LoopValid BY <1>34, <1>a DEF LoopValid, LoopOnly, LoopQuiet, NoNote
<1>35. CASE LoopBind BY <1>35, <1>a DEF LoopBind, LoopOnly, LoopQuiet
<1>36. CASE LoopRead BY <1>36, <1>a DEF LoopRead, LoopOnly, LoopQuiet, Readable
<1>37. CASE LoopInspect BY <1>37, <1>a DEF LoopInspect, LoopOnly, LoopQuiet, Matches
<1>38. CASE LoopAllow BY <1>38, <1>a, <1>b DEF LoopAllow, LoopOnly, NoNote
<1>39. CASE LoopKill BY <1>39, <1>a, <1>b, KillFacts DEF LoopKill, LoopOnly
<1>40. CASE LoopKillFails BY <1>40, <1>a, <1>b, ShutdownFacts, SlipFacts DEF LoopKillFails, LoopOnly
<1>41. CASE LoopRecord BY <1>41, <1>a DEF LoopRecord, LoopOnly
<1>42. CASE LoopSettled BY <1>42, <1>a DEF LoopSettled, LoopOnly, LoopQuiet
<1>43. CASE LoopEnds BY <1>43, <1>a, <1>b, ShutdownFacts DEF LoopEnds, LoopOnly
<1>44. ASSUME NEW t \in Tasks, LoopReceive(t) PROVE StepsOK'
  BY <1>44, <1>a DEF LoopReceive, LoopQuiet, LoopOnly, NoNote
<1>45. CASE OtherKill BY <1>45, <1>a, <1>b, KillFacts DEF OtherKill, OthersRest
<1>46. CASE OtherKillFails BY <1>46, <1>a, SlipFacts DEF OtherKillFails, OthersRest
<1>47. CASE OtherRecord BY <1>47, <1>a DEF OtherRecord, OthersRest
<1>48. CASE OtherCompletes BY <1>48, <1>a DEF OtherCompletes, OthersRest
<1>49. CASE StartKillFails BY <1>49, <1>a DEF StartKillFails, StartOnly
<1> QED BY <1>1, <1>2, <1>3, <1>4, <1>5, <1>6, <1>7, <1>8, <1>9, <1>10, <1>11, <1>12, <1>13, <1>14, <1>15, <1>16, <1>17, <1>18, <1>19, <1>20, <1>21, <1>22, <1>23, <1>24, <1>25, <1>26, <1>27, <1>28, <1>29, <1>30, <1>31, <1>32, <1>33, <1>34, <1>35, <1>36, <1>37, <1>38, <1>39, <1>40, <1>41, <1>42, <1>43, <1>44, <1>45, <1>46, <1>47, <1>48, <1>49 DEF ExecNext, StartStep, GateStep, WorkStep, LoopStep

(* The record, the thread, the watcher and the files stay in step.         *)
LEMMA StagesKept == ASSUME ExecIInv, ExecNext PROVE Stages'
<1> USE ExecAssumption DEF ExecIInv, execVars, rootVars, startVars, Stages, Unrecorded, Quiet, Unheard, Unwatched, Recorded
<1>a. TaskOK /\ NoteOK /\ RootOK /\ StepsOK BY DEF ExecTypeOK, TaskOK, NoteOK, Notes, RootOK, StepsOK, Process
<1>b. RunTasks \in SUBSET Tasks /\ {Gate} \in SUBSET Tasks BY DEF RunTasks
<1>c. /\ \A t \in Tasks : task[t].image \in Images /\ task[t].wants \in Paths
      /\ note.task \in Tasks
  BY <1>a DEF TaskOK, NoteOK, Notes, Process
<1>1. CASE CreatePolicy BY <1>1 DEF CreatePolicy, RootRests, LockFree
<1>2. CASE RevokePolicy BY <1>2 DEF RevokePolicy, RootRests, LockFree
<1>3. ASSUME NEW p \in RootPaths, Replace(p) PROVE Stages'
  BY <1>3 DEF Replace, RootRests, Judging
<1>4. CASE StartLoad BY <1>4 DEF StartLoad, StartOnly, Sealing
<1>5. CASE StartPrepare BY <1>5 DEF StartPrepare, StartOnly
<1>6. CASE StartLaunch BY <1>6, <1>a, <1>b, PlaceFacts DEF StartLaunch, StartOnly
<1>7. CASE StartUndone BY <1>7 DEF StartUndone, StartOnly
<1>8. CASE StartDrifts BY <1>8 DEF StartDrifts, StartOnly
<1>9. CASE StartCapture BY <1>9 DEF StartCapture, StartOnly
<1>10. CASE StartStore BY <1>10 DEF StartStore, StartOnly
<1>11. CASE StartAccept BY <1>11 DEF StartAccept, StartOnly
<1>12. CASE StartReceive BY <1>12 DEF StartReceive, StartOnly
<1>13. CASE StartListen BY <1>13 DEF StartListen, StartOnly
<1>14. CASE StartWatch BY <1>14 DEF StartWatch, StartOnly
<1>15. CASE StartRelease BY <1>15, <1>a, <1>b, PlaceFacts DEF StartRelease, StartOnly
<1>16. CASE StartReturn BY <1>16 DEF StartReturn, StartOnly
<1>17. CASE StartFails BY <1>17 DEF StartFails, StartOnly, StartSteps
<1>18. CASE StartRollback BY <1>18 DEF StartRollback, StartOnly
<1>19. CASE StartKill BY <1>19, <1>a, <1>b, KillFacts DEF StartKill, StartOnly
<1>20. CASE GateFilter BY <1>20, <1>a, <1>b, PlaceFacts DEF GateFilter, GateRests
<1>21. CASE GateSends BY <1>21, <1>a, <1>b, DieFacts, PlaceFacts DEF GateSends, GateRests
<1>22. CASE GateHeard BY <1>22, <1>a, <1>b, PlaceFacts DEF GateHeard, GateRests
<1>23. CASE GateExec BY <1>23, <1>a, <1>b, DieFacts, PlaceFacts DEF GateExec, GateRests
<1>24. CASE GateGivesUp BY <1>24, <1>a, <1>b, DieFacts DEF GateGivesUp, GateRests, GateSteps
<1>25. ASSUME NEW t \in Tasks, Ask(t) PROVE Stages'
  BY <1>25, <1>a, <1>b, AskFacts DEF Ask, WorkRests, GateRests
<1>26. ASSUME NEW t \in Tasks, Signalled(t) PROVE Stages'
  BY <1>26, <1>a, <1>b, BackFacts, <1>c DEF Signalled, WorkRests, GateRests, Lapses
<1>27. ASSUME NEW t \in Tasks, Leave(t) PROVE Stages'
  BY <1>27, <1>a, <1>b, DieFacts DEF Leave, WorkRests, GateRests
<1>28. ASSUME NEW t \in Tasks, Reused(t) PROVE Stages'
  BY <1>28, <1>a, <1>b, PlaceFacts DEF Reused, WorkRests, GateRests
<1>29. ASSUME NEW t \in Tasks, NEW u \in Tasks, Rewrite(t, u) PROVE Stages'
  BY <1>29, <1>a, <1>b, WantFacts DEF Rewrite, WorkRests, GateRests, Judging
<1>30. ASSUME NEW t \in Tasks, NEW u \in Tasks, Spawn(t, u) PROVE Stages'
  BY <1>30, <1>a, <1>b, ChildFacts DEF Spawn, WorkRests, GateRests
<1>31. CASE LoopIdle BY <1>31, <1>a, <1>b, ShutdownFacts DEF LoopIdle, LoopOnly, HeldTasks
<1>32. CASE LoopHangup BY <1>32, <1>a, <1>b, ShutdownFacts DEF LoopHangup, LoopOnly
<1>33. CASE LoopError BY <1>33 DEF LoopError, LoopOnly, Slip, LoopQuiet
<1>34. CASE LoopValid BY <1>34 DEF LoopValid, LoopOnly, LoopQuiet, NoNote
<1>35. CASE LoopBind BY <1>35 DEF LoopBind, LoopOnly, LoopQuiet
<1>36. CASE LoopRead BY <1>36 DEF LoopRead, LoopOnly, LoopQuiet, Readable
<1>37. CASE LoopInspect BY <1>37 DEF LoopInspect, LoopOnly, LoopQuiet, Matches
<1>38. CASE LoopAllow BY <1>38, <1>a, <1>b DEF LoopAllow, LoopOnly, NoNote
<1>39. CASE LoopKill BY <1>39, <1>a, <1>b, KillFacts DEF LoopKill, LoopOnly
<1>40. CASE LoopKillFails BY <1>40, <1>a, <1>b, ShutdownFacts DEF LoopKillFails, LoopOnly
<1>41. CASE LoopRecord BY <1>41 DEF LoopRecord, LoopOnly
<1>42. CASE LoopSettled BY <1>42 DEF LoopSettled, LoopOnly, LoopQuiet
<1>43. CASE LoopEnds BY <1>43, <1>a, <1>b, ShutdownFacts DEF LoopEnds, LoopOnly
<1>44. ASSUME NEW t \in Tasks, LoopReceive(t) PROVE Stages'
  BY <1>44 DEF LoopReceive, LoopQuiet, LoopOnly, NoNote
<1>45. CASE OtherKill BY <1>45, <1>a, <1>b, KillFacts DEF OtherKill, OthersRest
<1>46. CASE OtherKillFails BY <1>46 DEF OtherKillFails, OthersRest
<1>47. CASE OtherRecord BY <1>47 DEF OtherRecord, OthersRest, Endings
<1>48. CASE OtherCompletes BY <1>48 DEF OtherCompletes, OthersRest
<1>49. CASE StartKillFails BY <1>49 DEF StartKillFails, StartOnly
<1> QED BY <1>1, <1>2, <1>3, <1>4, <1>5, <1>6, <1>7, <1>8, <1>9, <1>10, <1>11, <1>12, <1>13, <1>14, <1>15, <1>16, <1>17, <1>18, <1>19, <1>20, <1>21, <1>22, <1>23, <1>24, <1>25, <1>26, <1>27, <1>28, <1>29, <1>30, <1>31, <1>32, <1>33, <1>34, <1>35, <1>36, <1>37, <1>38, <1>39, <1>40, <1>41, <1>42, <1>43, <1>44, <1>45, <1>46, <1>47, <1>48, <1>49 DEF ExecNext, StartStep, GateStep, WorkStep, LoopStep

(* No process gets past the gate too early.                                *)
LEMMA ProcessesKept == ASSUME ExecIInv, ExecNext PROVE Processes'
<1> USE ExecAssumption DEF ExecIInv, execVars, rootVars, startVars, Processes, Quiet, Unrecorded, Unheard, Unwatched, Shut, Past, InRun, GateSteps, Places, NoneRuns, RunTasks
<1>a. TaskOK /\ NoteOK /\ RootOK /\ StepsOK BY DEF ExecTypeOK, TaskOK, NoteOK, Notes, RootOK, StepsOK, Process
<1>b. RunTasks \in SUBSET Tasks /\ {Gate} \in SUBSET Tasks BY DEF RunTasks
<1>c. /\ \A t \in Tasks : task[t].image \in Images /\ task[t].wants \in Paths
      /\ note.task \in Tasks
  BY <1>a DEF TaskOK, NoteOK, Notes, Process
<1>1. CASE CreatePolicy BY <1>1 DEF CreatePolicy, RootRests, LockFree
<1>2. CASE RevokePolicy BY <1>2 DEF RevokePolicy, RootRests, LockFree
<1>3. ASSUME NEW p \in RootPaths, Replace(p) PROVE Processes'
  BY <1>3 DEF Replace, RootRests, Judging
<1>4. CASE StartLoad BY <1>4 DEF StartLoad, StartOnly, Sealing
<1>5. CASE StartPrepare BY <1>5 DEF StartPrepare, StartOnly
<1>6. CASE StartLaunch BY <1>6, <1>a, <1>b, PlaceFacts DEF StartLaunch, StartOnly
<1>7. CASE StartUndone BY <1>7 DEF StartUndone, StartOnly
<1>8. CASE StartDrifts BY <1>8 DEF StartDrifts, StartOnly
<1>9. CASE StartCapture BY <1>9 DEF StartCapture, StartOnly
<1>10. CASE StartStore BY <1>10 DEF StartStore, StartOnly
<1>11. CASE StartAccept BY <1>11 DEF StartAccept, StartOnly
<1>12. CASE StartReceive BY <1>12 DEF StartReceive, StartOnly
<1>13. CASE StartListen BY <1>13 DEF StartListen, StartOnly
<1>14. CASE StartWatch BY <1>14 DEF StartWatch, StartOnly
<1>15. CASE StartRelease
  <2>1. /\ start' = "released" /\ rec' = rec /\ armed' = armed /\ loop' = loop /\ holders' = holders
        /\ \A t \in Tasks : task'[t].at = IF t = Gate THEN "go" ELSE task[t].at
    <3>1. task' = [task EXCEPT ![Gate].at = "go"] /\ Gate \in Tasks /\ "go" \in Places
      BY <1>15, <1>b DEF StartRelease
    <3>2. \A t \in Tasks : task'[t].at = IF t = Gate THEN "go" ELSE task[t].at
      <4> HIDE DEF ExecIInv, GateSteps, Places
      <4> QED BY <1>a, <3>1, PlaceFacts
    <3> QED BY <1>15, <3>2 DEF StartRelease, StartOnly
  <2>2. rec # "none" /\ armed /\ loop # "none" /\ \A t \in Tasks : ~Past(t)
    BY <1>15 DEF StartRelease, Stages
  <2>3. holders \subseteq {"loop"}
    BY <1>15, <1>a DEF StartRelease, StepsOK, Holders
  <2> QED BY <2>1, <2>2, <2>3, <1>b
<1>16. CASE StartReturn BY <1>16 DEF StartReturn, StartOnly
<1>17. CASE StartFails BY <1>17 DEF StartFails, StartOnly, StartSteps
<1>18. CASE StartRollback BY <1>18 DEF StartRollback, StartOnly
<1>19. CASE StartKill BY <1>19, <1>a, <1>b, KillFacts DEF StartKill, StartOnly
<1>20. CASE GateFilter BY <1>20, <1>b, PlaceFacts, <1>a, <1>c DEF GateFilter, GateRests
<1>21. CASE GateSends BY <1>21, <1>b, DieFacts, PlaceFacts, <1>a, <1>c DEF GateSends, GateRests
<1>22. CASE GateHeard BY <1>22, <1>a, <1>b, PlaceFacts DEF GateHeard, GateRests
<1>23. CASE GateExec BY <1>23, <1>b, DieFacts, PlaceFacts, <1>a, <1>c DEF GateExec, GateRests
<1>24. CASE GateGivesUp BY <1>24, <1>b, DieFacts, <1>a, <1>c DEF GateGivesUp, GateRests
<1>25. ASSUME NEW t \in Tasks, Ask(t) PROVE Processes'
  BY <1>25, <1>b, AskFacts, <1>a, <1>c DEF Ask, WorkRests, GateRests
<1>26. ASSUME NEW t \in Tasks, Signalled(t) PROVE Processes'
  BY <1>26, <1>b, BackFacts, <1>c, <1>a, <1>c DEF Signalled, WorkRests, GateRests, Lapses
<1>27. ASSUME NEW t \in Tasks, Leave(t) PROVE Processes'
  BY <1>27, <1>b, DieFacts, <1>a, <1>c DEF Leave, WorkRests, GateRests
<1>28. ASSUME NEW t \in Tasks, Reused(t) PROVE Processes'
  BY <1>28, <1>b, PlaceFacts, <1>a, <1>c DEF Reused, WorkRests, GateRests
<1>29. ASSUME NEW t \in Tasks, NEW u \in Tasks, Rewrite(t, u) PROVE Processes'
  BY <1>29, <1>a, <1>b, WantFacts DEF Rewrite, WorkRests, GateRests, Judging
<1>30. ASSUME NEW t \in Tasks, NEW u \in Tasks, Spawn(t, u) PROVE Processes'
  BY <1>30, <1>a, <1>b, ChildFacts DEF Spawn, WorkRests, GateRests
<1>31. CASE LoopIdle BY <1>31, <1>a, <1>b, ShutdownFacts DEF LoopIdle, LoopOnly, HeldTasks
<1>32. CASE LoopHangup BY <1>32, <1>a, <1>b, ShutdownFacts DEF LoopHangup, LoopOnly
<1>33. CASE LoopError BY <1>33 DEF LoopError, LoopOnly, Slip, LoopQuiet
<1>34. CASE LoopValid BY <1>34 DEF LoopValid, LoopOnly, LoopQuiet, NoNote
<1>35. CASE LoopBind BY <1>35 DEF LoopBind, LoopOnly, LoopQuiet
<1>36. CASE LoopRead BY <1>36, <1>a, <1>c DEF LoopRead, LoopOnly, LoopQuiet, Readable
<1>37. CASE LoopInspect BY <1>37 DEF LoopInspect, LoopOnly, LoopQuiet, Matches
<1>38. CASE LoopAllow
  <2>1. CASE note.pending
    <3>1. task[note.task].at = "held" BY <2>1 DEF Calls
    <3> QED BY <1>a, <1>c, <1>38, <2>1, <3>1, AllowFacts DEF LoopAllow, LoopOnly, Processes
  <2>2. CASE ~note.pending BY <1>38, <2>2 DEF LoopAllow, LoopOnly, Processes
  <2> QED BY <2>1, <2>2
<1>39. CASE LoopKill BY <1>39, <1>a, <1>b, KillFacts DEF LoopKill, LoopOnly
<1>40. CASE LoopKillFails BY <1>40, <1>a, <1>b, ShutdownFacts DEF LoopKillFails, LoopOnly
<1>41. CASE LoopRecord BY <1>41, <1>a, <1>c DEF LoopRecord, LoopOnly
<1>42. CASE LoopSettled BY <1>42, <1>a, <1>c DEF LoopSettled, LoopOnly, LoopQuiet
<1>43. CASE LoopEnds BY <1>43, <1>a, <1>b, ShutdownFacts DEF LoopEnds, LoopOnly
<1>44. ASSUME NEW t \in Tasks, LoopReceive(t) PROVE Processes'
  BY <1>44 DEF LoopReceive, LoopQuiet, LoopOnly, NoNote
<1>45. CASE OtherKill BY <1>45, <1>a, <1>b, KillFacts DEF OtherKill, OthersRest
<1>46. CASE OtherKillFails BY <1>46 DEF OtherKillFails, OthersRest
<1>47. CASE OtherRecord BY <1>47 DEF OtherRecord, OthersRest
<1>48. CASE OtherCompletes BY <1>48 DEF OtherCompletes, OthersRest
<1>49. CASE StartKillFails BY <1>49 DEF StartKillFails, StartOnly
<1> QED BY <1>1, <1>2, <1>3, <1>4, <1>5, <1>6, <1>7, <1>8, <1>9, <1>10, <1>11, <1>12, <1>13, <1>14, <1>15, <1>16, <1>17, <1>18, <1>19, <1>20, <1>21, <1>22, <1>23, <1>24, <1>25, <1>26, <1>27, <1>28, <1>29, <1>30, <1>31, <1>32, <1>33, <1>34, <1>35, <1>36, <1>37, <1>38, <1>39, <1>40, <1>41, <1>42, <1>43, <1>44, <1>45, <1>46, <1>47, <1>48, <1>49 DEF ExecNext, StartStep, GateStep, WorkStep, LoopStep

(* The listener stays with who is to answer.                               *)
LEMMA HoldersKept == ASSUME ExecIInv, ExecNext PROVE Holders'
<1> USE ExecAssumption DEF ExecIInv, execVars, rootVars, startVars, Holders, Stages, Unrecorded, Quiet, Unheard, Unwatched, Recorded, Processes, Shut, Past, InRun, GateSteps, Places, NoneRuns, RunTasks
<1>a. TaskOK /\ NoteOK /\ RootOK /\ StepsOK BY DEF ExecTypeOK, TaskOK, NoteOK, Notes, RootOK, StepsOK, Process
<1>b. RunTasks \in SUBSET Tasks /\ {Gate} \in SUBSET Tasks BY DEF RunTasks
<1>c. /\ \A t \in Tasks : task[t].image \in Images /\ task[t].wants \in Paths
      /\ note.task \in Tasks
  BY <1>a DEF TaskOK, NoteOK, Notes, Process
<1>1. CASE CreatePolicy BY <1>1 DEF CreatePolicy, RootRests, LockFree
<1>2. CASE RevokePolicy BY <1>2 DEF RevokePolicy, RootRests, LockFree
<1>3. ASSUME NEW p \in RootPaths, Replace(p) PROVE Holders'
  BY <1>3 DEF Replace, RootRests, Judging
<1>4. CASE StartLoad BY <1>4 DEF StartLoad, StartOnly, Sealing
<1>5. CASE StartPrepare BY <1>5 DEF StartPrepare, StartOnly
<1>6. CASE StartLaunch BY <1>6, <1>a, <1>b, PlaceFacts DEF StartLaunch, StartOnly
<1>7. CASE StartUndone BY <1>7 DEF StartUndone, StartOnly
<1>8. CASE StartDrifts BY <1>8 DEF StartDrifts, StartOnly
<1>9. CASE StartCapture BY <1>9 DEF StartCapture, StartOnly
<1>10. CASE StartStore BY <1>10 DEF StartStore, StartOnly
<1>11. CASE StartAccept BY <1>11 DEF StartAccept, StartOnly
<1>12. CASE StartReceive BY <1>12 DEF StartReceive, StartOnly
<1>13. CASE StartListen BY <1>13 DEF StartListen, StartOnly
<1>14. CASE StartWatch BY <1>14 DEF StartWatch, StartOnly
<1>15. CASE StartRelease BY <1>15, <1>b, PlaceFacts, <1>a, <1>c DEF StartRelease, StartOnly
<1>16. CASE StartReturn BY <1>16 DEF StartReturn, StartOnly
<1>17. CASE StartFails BY <1>17 DEF StartFails, StartOnly, StartSteps
<1>18. CASE StartRollback BY <1>18 DEF StartRollback, StartOnly
<1>19. CASE StartKill BY <1>19, <1>a, <1>b, KillFacts DEF StartKill, StartOnly
<1>20. CASE GateFilter
  <2>1. /\ start' = start /\ armed' = armed /\ loop' = loop /\ holders' = holders \cup {"gate"}
        /\ \A t \in Tasks : task'[t].at = IF t = Gate THEN "connect" ELSE task[t].at
    <3>1. task' = [task EXCEPT ![Gate].at = "connect"] /\ Gate \in Tasks /\ "connect" \in Places
      BY <1>20, <1>b DEF GateFilter
    <3>2. \A t \in Tasks : task'[t].at = IF t = Gate THEN "connect" ELSE task[t].at
      <4> HIDE DEF ExecIInv, GateSteps, Places
      <4> QED BY <1>a, <3>1, PlaceFacts
    <3> QED BY <1>20, <3>2 DEF GateFilter, GateRests
  <2> QED BY <2>1, <1>b
<1>21. CASE GateSends BY <1>21, <1>b, DieFacts, PlaceFacts, <1>a, <1>c DEF GateSends, GateRests
<1>22. CASE GateHeard BY <1>22, <1>a, <1>b, PlaceFacts DEF GateHeard, GateRests
<1>23. CASE GateExec BY <1>23, <1>b, DieFacts, PlaceFacts, <1>a, <1>c DEF GateExec, GateRests
<1>24. CASE GateGivesUp BY <1>24, <1>b, DieFacts, <1>a, <1>c DEF GateGivesUp, GateRests
<1>25. ASSUME NEW t \in Tasks, Ask(t) PROVE Holders'
  BY <1>25, <1>b, AskFacts, <1>a, <1>c DEF Ask, WorkRests, GateRests
<1>26. ASSUME NEW t \in Tasks, Signalled(t) PROVE Holders'
  BY <1>26, <1>b, BackFacts, <1>c, <1>a, <1>c DEF Signalled, WorkRests, GateRests, Lapses
<1>27. ASSUME NEW t \in Tasks, Leave(t) PROVE Holders'
  BY <1>27, <1>b, DieFacts, <1>a, <1>c DEF Leave, WorkRests, GateRests
<1>28. ASSUME NEW t \in Tasks, Reused(t) PROVE Holders'
  BY <1>28, <1>b, PlaceFacts, <1>a, <1>c DEF Reused, WorkRests, GateRests
<1>29. ASSUME NEW t \in Tasks, NEW u \in Tasks, Rewrite(t, u) PROVE Holders'
  BY <1>29, <1>a, <1>b, WantFacts DEF Rewrite, WorkRests, GateRests, Judging
<1>30. ASSUME NEW t \in Tasks, NEW u \in Tasks, Spawn(t, u) PROVE Holders'
  BY <1>30, <1>a, <1>b, ChildFacts DEF Spawn, WorkRests, GateRests
<1>31. CASE LoopIdle BY <1>31, <1>a, <1>b, ShutdownFacts DEF LoopIdle, LoopOnly, HeldTasks
<1>32. CASE LoopHangup BY <1>32, <1>a, <1>b, ShutdownFacts DEF LoopHangup, LoopOnly
<1>33. CASE LoopError BY <1>33 DEF LoopError, LoopOnly, Slip, LoopQuiet
<1>34. CASE LoopValid BY <1>34 DEF LoopValid, LoopOnly, LoopQuiet, NoNote
<1>35. CASE LoopBind BY <1>35 DEF LoopBind, LoopOnly, LoopQuiet
<1>36. CASE LoopRead BY <1>36, <1>a, <1>c DEF LoopRead, LoopOnly, LoopQuiet, Readable
<1>37. CASE LoopInspect BY <1>37 DEF LoopInspect, LoopOnly, LoopQuiet, Matches
<1>38. CASE LoopAllow
  <2>1. CASE note.pending
    <3>1. task[note.task].at = "held" BY <2>1 DEF Calls
    <3> QED BY <1>a, <1>c, <1>38, <2>1, <3>1, AllowFacts DEF LoopAllow, LoopOnly, Holders
  <2>2. CASE ~note.pending BY <1>38, <2>2 DEF LoopAllow, LoopOnly, Holders
  <2> QED BY <2>1, <2>2
<1>39. CASE LoopKill BY <1>39, <1>a, <1>b, KillFacts DEF LoopKill, LoopOnly
<1>40. CASE LoopKillFails BY <1>40, <1>a, <1>b, ShutdownFacts DEF LoopKillFails, LoopOnly
<1>41. CASE LoopRecord BY <1>41, <1>a, <1>c DEF LoopRecord, LoopOnly
<1>42. CASE LoopSettled BY <1>42, <1>a, <1>c DEF LoopSettled, LoopOnly, LoopQuiet
<1>43. CASE LoopEnds BY <1>43, <1>a, <1>b, ShutdownFacts DEF LoopEnds, LoopOnly
<1>44. ASSUME NEW t \in Tasks, LoopReceive(t) PROVE Holders'
  BY <1>44 DEF LoopReceive, LoopQuiet, LoopOnly, NoNote
<1>45. CASE OtherKill BY <1>45, <1>a, <1>b, KillFacts DEF OtherKill, OthersRest
<1>46. CASE OtherKillFails BY <1>46 DEF OtherKillFails, OthersRest
<1>47. CASE OtherRecord BY <1>47 DEF OtherRecord, OthersRest
<1>48. CASE OtherCompletes BY <1>48 DEF OtherCompletes, OthersRest
<1>49. CASE StartKillFails BY <1>49 DEF StartKillFails, StartOnly
<1> QED BY <1>1, <1>2, <1>3, <1>4, <1>5, <1>6, <1>7, <1>8, <1>9, <1>10, <1>11, <1>12, <1>13, <1>14, <1>15, <1>16, <1>17, <1>18, <1>19, <1>20, <1>21, <1>22, <1>23, <1>24, <1>25, <1>26, <1>27, <1>28, <1>29, <1>30, <1>31, <1>32, <1>33, <1>34, <1>35, <1>36, <1>37, <1>38, <1>39, <1>40, <1>41, <1>42, <1>43, <1>44, <1>45, <1>46, <1>47, <1>48, <1>49 DEF ExecNext, StartStep, GateStep, WorkStep, LoopStep

(* What has ended stays without a process.                                 *)
LEMMA EndingsKept == ASSUME ExecIInv, ExecNext PROVE Endings'
<1> USE ExecAssumption DEF ExecIInv, execVars, rootVars, startVars, Endings, Stages, Unrecorded, Quiet, RefusedStaysOut, Calls, StartSteps, InRun, GateSteps, Places, NoneRuns, RunTasks
<1>a. TaskOK /\ NoteOK /\ RootOK /\ StepsOK BY DEF ExecTypeOK, TaskOK, NoteOK, Notes, RootOK, StepsOK, Process
<1>b. RunTasks \in SUBSET Tasks /\ {Gate} \in SUBSET Tasks BY DEF RunTasks
<1>c. /\ \A t \in Tasks : task[t].image \in Images /\ task[t].wants \in Paths
      /\ note.task \in Tasks
  BY <1>a DEF TaskOK, NoteOK, Notes, Process
<1>1. CASE CreatePolicy BY <1>1 DEF CreatePolicy, RootRests, LockFree
<1>2. CASE RevokePolicy BY <1>2 DEF RevokePolicy, RootRests, LockFree
<1>3. ASSUME NEW p \in RootPaths, Replace(p) PROVE Endings'
  BY <1>3 DEF Replace, RootRests, Judging
<1>4. CASE StartLoad BY <1>4 DEF StartLoad, StartOnly, Sealing
<1>5. CASE StartPrepare BY <1>5 DEF StartPrepare, StartOnly
<1>6. CASE StartLaunch BY <1>6, <1>a, <1>b, PlaceFacts DEF StartLaunch, StartOnly
<1>7. CASE StartUndone BY <1>7 DEF StartUndone, StartOnly
<1>8. CASE StartDrifts BY <1>8 DEF StartDrifts, StartOnly
<1>9. CASE StartCapture BY <1>9 DEF StartCapture, StartOnly
<1>10. CASE StartStore BY <1>10 DEF StartStore, StartOnly
<1>11. CASE StartAccept BY <1>11 DEF StartAccept, StartOnly
<1>12. CASE StartReceive BY <1>12 DEF StartReceive, StartOnly
<1>13. CASE StartListen BY <1>13 DEF StartListen, StartOnly
<1>14. CASE StartWatch BY <1>14 DEF StartWatch, StartOnly
<1>15. CASE StartRelease BY <1>15, <1>b, PlaceFacts, <1>a, <1>c DEF StartRelease, StartOnly
<1>16. CASE StartReturn BY <1>16 DEF StartReturn, StartOnly
<1>17. CASE StartFails BY <1>17 DEF StartFails, StartOnly
<1>18. CASE StartRollback BY <1>18 DEF StartRollback, StartOnly
<1>19. CASE StartKill BY <1>19, <1>a, <1>b, KillFacts DEF StartKill, StartOnly
<1>20. CASE GateFilter BY <1>20, <1>b, PlaceFacts, <1>a, <1>c DEF GateFilter, GateRests
<1>21. CASE GateSends BY <1>21, <1>b, DieFacts, PlaceFacts, <1>a, <1>c DEF GateSends, GateRests
<1>22. CASE GateHeard BY <1>22, <1>a, <1>b, PlaceFacts DEF GateHeard, GateRests
<1>23. CASE GateExec BY <1>23, <1>b, DieFacts, PlaceFacts, <1>a, <1>c DEF GateExec, GateRests
<1>24. CASE GateGivesUp BY <1>24, <1>b, DieFacts, <1>a, <1>c DEF GateGivesUp, GateRests
<1>25. ASSUME NEW t \in Tasks, Ask(t) PROVE Endings'
  BY <1>25, <1>b, AskFacts, <1>a, <1>c DEF Ask, WorkRests, GateRests
<1>26. ASSUME NEW t \in Tasks, Signalled(t) PROVE Endings'
  <2>1. /\ rec' = rec /\ lock' = lock /\ loop' = loop /\ (note'.pending => note.pending)
    BY <1>26, <1>a DEF Signalled, WorkRests, GateRests, Lapses, NoteOK, Notes
  <2>2. ~NoneRuns
    BY <1>26 DEF Signalled
  <2> QED BY <2>1, <2>2
<1>27. ASSUME NEW t \in Tasks, Leave(t) PROVE Endings'
  BY <1>27, <1>b, DieFacts, <1>a, <1>c DEF Leave, WorkRests, GateRests
<1>28. ASSUME NEW t \in Tasks, Reused(t) PROVE Endings'
  <2>1. /\ rec' = rec /\ lock' = lock /\ loop' = loop /\ note' = note
    BY <1>28 DEF Reused, WorkRests, GateRests
  <2>2. NoneRuns => NoneRuns'
    <3>1. \/ task[t].at = "absent" /\ task' = [task EXCEPT ![t].at = "foreign"]
          \/ task[t].at = "foreign" /\ task' = [task EXCEPT ![t].at = "absent"]
      BY <1>28 DEF Reused
    <3>2. "absent" \in Places /\ "foreign" \in Places
      BY DEF Places
    <3>3. /\ \A u \in Tasks : u # t => task'[u].at = task[u].at
          /\ task'[t].at = "foreign" \/ task'[t].at = "absent"
      <4> HIDE DEF ExecIInv, GateSteps, Places
      <4>1. ASSUME task' = [task EXCEPT ![t].at = "foreign"]
            PROVE  \A u \in Tasks : task'[u].at = IF u = t THEN "foreign" ELSE task[u].at
        BY <1>a, <3>2, <4>1, PlaceFacts
      <4>2. ASSUME task' = [task EXCEPT ![t].at = "absent"]
            PROVE  \A u \in Tasks : task'[u].at = IF u = t THEN "absent" ELSE task[u].at
        BY <1>a, <3>2, <4>2, PlaceFacts
      <4> QED BY <3>1, <4>1, <4>2
    <3> QED BY <3>3
  <2> QED BY <2>1, <2>2
<1>29. ASSUME NEW t \in Tasks, NEW u \in Tasks, Rewrite(t, u) PROVE Endings'
  BY <1>29, <1>a, <1>b, WantFacts DEF Rewrite, WorkRests, GateRests, Judging
<1>30. ASSUME NEW t \in Tasks, NEW u \in Tasks, Spawn(t, u) PROVE Endings'
  BY <1>30, <1>a, <1>b, ChildFacts DEF Spawn, WorkRests, GateRests
<1>31. CASE LoopIdle BY <1>31, <1>a, <1>b, ShutdownFacts DEF LoopIdle, LoopOnly, HeldTasks
<1>32. CASE LoopHangup BY <1>32, <1>a, <1>b, ShutdownFacts DEF LoopHangup, LoopOnly
<1>33. CASE LoopError BY <1>33 DEF LoopError, LoopOnly, Slip, LoopQuiet
<1>34. CASE LoopValid BY <1>34 DEF LoopValid, LoopOnly, LoopQuiet, NoNote
<1>35. CASE LoopBind BY <1>35 DEF LoopBind, LoopOnly, LoopQuiet
<1>36. CASE LoopRead BY <1>36, <1>a, <1>c DEF LoopRead, LoopOnly, LoopQuiet, Readable
<1>37. CASE LoopInspect BY <1>37 DEF LoopInspect, LoopOnly, LoopQuiet, Matches
<1>38. CASE LoopAllow BY <1>38, <1>b, <1>a, <1>c, AllowFacts DEF LoopAllow, LoopOnly, NoNote
<1>39. CASE LoopKill BY <1>39, <1>a, <1>b, KillFacts DEF LoopKill, LoopOnly
<1>40. CASE LoopKillFails BY <1>40, <1>a, <1>b, ShutdownFacts DEF LoopKillFails, LoopOnly
<1>41. CASE LoopRecord BY <1>41, <1>a, <1>c DEF LoopRecord, LoopOnly
<1>42. CASE LoopSettled
  <2>1. /\ rec' = rec /\ lock' = lock /\ note' = note /\ task' = task /\ loop' \in {"deny", "finish"}
        /\ loop \in {"trip", "fail"} /\ rec # "active"
    BY <1>42 DEF LoopSettled, LoopOnly, LoopQuiet
  <2>2. note.pending => ~NoneRuns
    BY <1>c DEF Calls
  <2>3. rec \in {"contained", "failed", "completed"}
    BY <1>a, <2>1 DEF StepsOK, Stages
  <2> QED BY <2>1, <2>2, <2>3
<1>43. CASE LoopEnds BY <1>43, <1>a, <1>b, ShutdownFacts DEF LoopEnds, LoopOnly
<1>44. ASSUME NEW t \in Tasks, LoopReceive(t) PROVE Endings'
  BY <1>44 DEF LoopReceive, LoopQuiet, LoopOnly, NoNote
<1>45. CASE OtherKill BY <1>45, <1>a, <1>b, KillFacts DEF OtherKill, OthersRest
<1>46. CASE OtherKillFails BY <1>46 DEF OtherKillFails, OthersRest
<1>47. CASE OtherRecord BY <1>47 DEF OtherRecord, OthersRest
<1>48. CASE OtherCompletes BY <1>48 DEF OtherCompletes, OthersRest
<1>49. CASE StartKillFails BY <1>49 DEF StartKillFails, StartOnly
<1> QED BY <1>1, <1>2, <1>3, <1>4, <1>5, <1>6, <1>7, <1>8, <1>9, <1>10, <1>11, <1>12, <1>13, <1>14, <1>15, <1>16, <1>17, <1>18, <1>19, <1>20, <1>21, <1>22, <1>23, <1>24, <1>25, <1>26, <1>27, <1>28, <1>29, <1>30, <1>31, <1>32, <1>33, <1>34, <1>35, <1>36, <1>37, <1>38, <1>39, <1>40, <1>41, <1>42, <1>43, <1>44, <1>45, <1>46, <1>47, <1>48, <1>49 DEF ExecNext, StartStep, GateStep, WorkStep, LoopStep

(* What the thread knows of the call stays true.                           *)
LEMMA CallsKept == ASSUME ExecIInv, ExecNext PROVE Calls'
<1> USE ExecAssumption DEF ExecIInv, execVars, rootVars, startVars, Calls, Judging, Matches, Processes, Stages, Quiet, Unrecorded, Unheard, Unwatched, InRun, GateSteps, Places, NoneRuns, RunTasks
<1>a. TaskOK /\ NoteOK /\ RootOK /\ StepsOK BY DEF ExecTypeOK, TaskOK, NoteOK, Notes, RootOK, StepsOK, Process
<1>b. RunTasks \in SUBSET Tasks /\ {Gate} \in SUBSET Tasks BY DEF RunTasks
<1>c. /\ \A t \in Tasks : task[t].image \in Images /\ task[t].wants \in Paths
      /\ note.task \in Tasks
  BY <1>a DEF TaskOK, NoteOK, Notes, Process
<1>1. CASE CreatePolicy BY <1>1 DEF CreatePolicy, RootRests, LockFree
<1>2. CASE RevokePolicy BY <1>2 DEF RevokePolicy, RootRests, LockFree
<1>3. ASSUME NEW p \in RootPaths, Replace(p) PROVE Calls'
  BY <1>3 DEF Replace, RootRests
<1>4. CASE StartLoad BY <1>4 DEF StartLoad, StartOnly, Sealing
<1>5. CASE StartPrepare BY <1>5 DEF StartPrepare, StartOnly
<1>6. CASE StartLaunch BY <1>6, <1>a, <1>b, PlaceFacts DEF StartLaunch, StartOnly
<1>7. CASE StartUndone BY <1>7 DEF StartUndone, StartOnly
<1>8. CASE StartDrifts BY <1>8 DEF StartDrifts, StartOnly
<1>9. CASE StartCapture BY <1>9 DEF StartCapture, StartOnly
<1>10. CASE StartStore BY <1>10 DEF StartStore, StartOnly
<1>11. CASE StartAccept BY <1>11 DEF StartAccept, StartOnly
<1>12. CASE StartReceive BY <1>12 DEF StartReceive, StartOnly
<1>13. CASE StartListen BY <1>13 DEF StartListen, StartOnly
<1>14. CASE StartWatch BY <1>14 DEF StartWatch, StartOnly
<1>15. CASE StartRelease BY <1>15, <1>b, PlaceFacts, <1>a, <1>c DEF StartRelease, StartOnly
<1>16. CASE StartReturn BY <1>16 DEF StartReturn, StartOnly
<1>17. CASE StartFails BY <1>17 DEF StartFails, StartOnly, StartSteps
<1>18. CASE StartRollback BY <1>18 DEF StartRollback, StartOnly
<1>19. CASE StartKill BY <1>19, <1>a, <1>b, KillFacts DEF StartKill, StartOnly
<1>20. CASE GateFilter BY <1>20, <1>b, PlaceFacts, <1>a, <1>c DEF GateFilter, GateRests
<1>21. CASE GateSends BY <1>21, <1>b, DieFacts, PlaceFacts, <1>a, <1>c DEF GateSends, GateRests
<1>22. CASE GateHeard BY <1>22, <1>a, <1>b, PlaceFacts DEF GateHeard, GateRests
<1>23. CASE GateExec BY <1>23, <1>b, DieFacts, PlaceFacts, <1>a, <1>c DEF GateExec, GateRests
<1>24. CASE GateGivesUp BY <1>24, <1>b, DieFacts, <1>a, <1>c DEF GateGivesUp, GateRests
<1>25. ASSUME NEW t \in Tasks, Ask(t) PROVE Calls'
  BY <1>25, <1>b, AskFacts, <1>a, <1>c DEF Ask, WorkRests, GateRests
<1>26. ASSUME NEW t \in Tasks, Signalled(t) PROVE Calls'
  BY <1>26, <1>b, BackFacts, <1>c, <1>a, <1>c DEF Signalled, WorkRests, GateRests, Lapses
<1>27. ASSUME NEW t \in Tasks, Leave(t) PROVE Calls'
  BY <1>27, <1>b, DieFacts, <1>a, <1>c DEF Leave, WorkRests, GateRests
<1>28. ASSUME NEW t \in Tasks, Reused(t) PROVE Calls'
  BY <1>28, <1>b, PlaceFacts, <1>a, <1>c DEF Reused, WorkRests, GateRests
<1>29. ASSUME NEW t \in Tasks, NEW u \in Tasks, Rewrite(t, u) PROVE Calls'
  BY <1>29, <1>a, <1>b, WantFacts DEF Rewrite, WorkRests, GateRests
<1>30. ASSUME NEW t \in Tasks, NEW u \in Tasks, Spawn(t, u) PROVE Calls'
  BY <1>30, <1>a, <1>b, ChildFacts DEF Spawn, WorkRests, GateRests
<1>31. CASE LoopIdle BY <1>31, <1>a, <1>b, ShutdownFacts DEF LoopIdle, LoopOnly, HeldTasks
<1>32. CASE LoopHangup BY <1>32, <1>a, <1>b, ShutdownFacts DEF LoopHangup, LoopOnly
<1>33. CASE LoopError BY <1>33 DEF LoopError, LoopOnly, Slip, LoopQuiet
<1>34. CASE LoopValid BY <1>34 DEF LoopValid, LoopOnly, LoopQuiet, NoNote
<1>35. CASE LoopBind BY <1>35 DEF LoopBind, LoopOnly, LoopQuiet
<1>36. CASE LoopRead
  <2>1. /\ version' = version /\ task' = task
    BY <1>36 DEF LoopRead, LoopQuiet, LoopOnly
  <2>2. CASE loop' = "trip" /\ note' = note BY <2>1, <2>2
  <2>3. ASSUME NEW p \in Readable \cap RootPaths, loop' = "inspect",
               note' = [note EXCEPT !.saw = p, !.version = version[p], !.clean = TRUE]
        PROVE  Calls'
    <3>1. /\ note'.task = note.task /\ note'.pending = note.pending /\ note'.saw = p /\ note'.version = version[p]
      BY <1>a, <2>3 DEF NoteOK, Notes
    <3>2. note.pending => task[note.task].wants = p
      BY DEF Readable
    <3> QED BY <2>1, <2>3, <3>1, <3>2
  <2> QED BY <1>36, <2>2, <2>3 DEF LoopRead
<1>37. CASE LoopInspect BY <1>37 DEF LoopInspect, LoopOnly, LoopQuiet
<1>38. CASE LoopAllow BY <1>38, <1>b, <1>a, <1>c, AllowFacts DEF LoopAllow, LoopOnly, NoNote
<1>39. CASE LoopKill BY <1>39, <1>a, <1>b, KillFacts DEF LoopKill, LoopOnly
<1>40. CASE LoopKillFails BY <1>40, <1>a, <1>b, ShutdownFacts DEF LoopKillFails, LoopOnly
<1>41. CASE LoopRecord BY <1>41, <1>a, <1>c DEF LoopRecord, LoopOnly
<1>42. CASE LoopSettled BY <1>42, <1>a, <1>c DEF LoopSettled, LoopOnly, LoopQuiet
<1>43. CASE LoopEnds BY <1>43, <1>a, <1>b, ShutdownFacts DEF LoopEnds, LoopOnly
<1>44. ASSUME NEW t \in Tasks, LoopReceive(t) PROVE Calls'
  BY <1>44 DEF LoopReceive, LoopQuiet, LoopOnly, NoNote
<1>45. CASE OtherKill BY <1>45, <1>a, <1>b, KillFacts DEF OtherKill, OthersRest
<1>46. CASE OtherKillFails BY <1>46 DEF OtherKillFails, OthersRest
<1>47. CASE OtherRecord BY <1>47 DEF OtherRecord, OthersRest
<1>48. CASE OtherCompletes BY <1>48 DEF OtherCompletes, OthersRest
<1>49. CASE StartKillFails BY <1>49 DEF StartKillFails, StartOnly
<1> QED BY <1>1, <1>2, <1>3, <1>4, <1>5, <1>6, <1>7, <1>8, <1>9, <1>10, <1>11, <1>12, <1>13, <1>14, <1>15, <1>16, <1>17, <1>18, <1>19, <1>20, <1>21, <1>22, <1>23, <1>24, <1>25, <1>26, <1>27, <1>28, <1>29, <1>30, <1>31, <1>32, <1>33, <1>34, <1>35, <1>36, <1>37, <1>38, <1>39, <1>40, <1>41, <1>42, <1>43, <1>44, <1>45, <1>46, <1>47, <1>48, <1>49 DEF ExecNext, StartStep, GateStep, WorkStep, LoopStep

(* An image changes only by an answer about a sealed identity.             *)
LEMMA EntersKept == ASSUME ExecIInv, ExecNext PROVE Enters
<1> USE ExecAssumption DEF ExecIInv, execVars, rootVars, startVars, Enters
<1>a. TaskOK /\ NoteOK /\ RootOK /\ StepsOK BY DEF ExecTypeOK, TaskOK, NoteOK, Notes, RootOK, StepsOK, Process
<1>b. RunTasks \in SUBSET Tasks /\ {Gate} \in SUBSET Tasks BY DEF RunTasks
<1>c. /\ \A t \in Tasks : task[t].image \in Images /\ task[t].wants \in Paths
      /\ note.task \in Tasks
  BY <1>a DEF TaskOK, NoteOK, Notes, Process
<1>1. CASE CreatePolicy BY <1>1 DEF CreatePolicy, RootRests, LockFree
<1>2. CASE RevokePolicy BY <1>2 DEF RevokePolicy, RootRests, LockFree
<1>3. ASSUME NEW p \in RootPaths, Replace(p) PROVE Enters
  BY <1>3 DEF Replace, RootRests, Judging
<1>4. CASE StartLoad BY <1>4 DEF StartLoad, StartOnly, Sealing
<1>5. CASE StartPrepare BY <1>5 DEF StartPrepare, StartOnly
<1>6. CASE StartLaunch BY <1>6, <1>a, <1>b, PlaceFacts DEF StartLaunch, StartOnly
<1>7. CASE StartUndone BY <1>7 DEF StartUndone, StartOnly
<1>8. CASE StartDrifts BY <1>8 DEF StartDrifts, StartOnly
<1>9. CASE StartCapture BY <1>9 DEF StartCapture, StartOnly
<1>10. CASE StartStore BY <1>10 DEF StartStore, StartOnly
<1>11. CASE StartAccept BY <1>11 DEF StartAccept, StartOnly
<1>12. CASE StartReceive BY <1>12 DEF StartReceive, StartOnly
<1>13. CASE StartListen BY <1>13 DEF StartListen, StartOnly
<1>14. CASE StartWatch BY <1>14 DEF StartWatch, StartOnly
<1>15. CASE StartRelease BY <1>15, <1>b, PlaceFacts, <1>a, <1>c DEF StartRelease, StartOnly
<1>16. CASE StartReturn BY <1>16 DEF StartReturn, StartOnly
<1>17. CASE StartFails BY <1>17 DEF StartFails, StartOnly, StartSteps
<1>18. CASE StartRollback BY <1>18 DEF StartRollback, StartOnly
<1>19. CASE StartKill BY <1>19, <1>a, <1>b, KillFacts DEF StartKill, StartOnly
<1>20. CASE GateFilter BY <1>20, <1>b, PlaceFacts, <1>a, <1>c DEF GateFilter, GateRests
<1>21. CASE GateSends
  <2>0. "sent" \in Places /\ Gate \in Tasks /\ {Gate} \in SUBSET Tasks
    BY <1>b DEF Places, GateSteps
  <2> HIDE DEF ExecIInv
  <2>1. CASE task' = [task EXCEPT ![Gate].at = "sent"]
    <3>1. \A t \in Tasks : task'[t].image = task[t].image
      BY <1>a, <2>0, <2>1, PlaceFacts
    <3> QED BY <3>1
  <2>2. CASE Die({Gate})
    <3>1. \A t \in Tasks : task'[t].at = "absent" \/ task'[t] = task[t]
      BY <1>a, <2>0, <2>2, DieFacts
    <3> QED BY <3>1
  <2> QED BY <1>21, <2>1, <2>2 DEF GateSends
<1>22. CASE GateHeard BY <1>22, <1>a, <1>b, PlaceFacts DEF GateHeard, GateRests
<1>23. CASE GateExec
  <2>0. "held" \in Places /\ Gate \in Tasks /\ {Gate} \in SUBSET Tasks
    BY <1>b DEF Places, GateSteps
  <2> HIDE DEF ExecIInv
  <2>1. CASE task' = [task EXCEPT ![Gate].at = "held"]
    <3>1. \A t \in Tasks : task'[t].image = task[t].image
      BY <1>a, <2>0, <2>1, PlaceFacts
    <3> QED BY <3>1
  <2>2. CASE Die({Gate})
    <3>1. \A t \in Tasks : task'[t].at = "absent" \/ task'[t] = task[t]
      BY <1>a, <2>0, <2>2, DieFacts
    <3> QED BY <3>1
  <2> QED BY <1>23, <2>1, <2>2 DEF GateExec
<1>24. CASE GateGivesUp BY <1>24, <1>b, DieFacts, <1>a, <1>c DEF GateGivesUp, GateRests, GateSteps
<1>25. ASSUME NEW t \in Tasks, Ask(t) PROVE Enters
  BY <1>25, <1>b, AskFacts, <1>a, <1>c DEF Ask, WorkRests, GateRests
<1>26. ASSUME NEW t \in Tasks, Signalled(t) PROVE Enters
  <2> HIDE DEF ExecIInv
  <2>1. task' = [task EXCEPT ![t] = Back(task[t].image)] /\ task[t].image \in Images
    BY <1>26, <1>c DEF Signalled
  <2>2. \A u \in Tasks : task'[u].image = task[u].image
    BY <1>a, <2>1, BackFacts
  <2> QED BY <2>2
<1>27. ASSUME NEW t \in Tasks, Leave(t) PROVE Enters
  BY <1>27, <1>b, DieFacts, <1>a, <1>c DEF Leave, WorkRests, GateRests
<1>28. ASSUME NEW t \in Tasks, Reused(t) PROVE Enters
  <2> HIDE DEF ExecIInv
  <2>1. "foreign" \in Places /\ "absent" \in Places
    BY DEF Places
  <2>2. CASE task' = [task EXCEPT ![t].at = "foreign"]
    <3>1. \A u \in Tasks : task'[u].image = task[u].image
      BY <1>a, <2>1, <2>2, PlaceFacts
    <3> QED BY <3>1
  <2>3. CASE task' = [task EXCEPT ![t].at = "absent"]
    <3>1. \A u \in Tasks : task'[u].image = task[u].image
      BY <1>a, <2>1, <2>3, PlaceFacts
    <3> QED BY <3>1
  <2> QED BY <1>28, <2>2, <2>3 DEF Reused
<1>29. ASSUME NEW t \in Tasks, NEW u \in Tasks, Rewrite(t, u) PROVE Enters
  BY <1>29, <1>a, <1>b, WantFacts DEF Rewrite, WorkRests, GateRests, Judging
<1>30. ASSUME NEW t \in Tasks, NEW u \in Tasks, Spawn(t, u) PROVE Enters
  BY <1>30, <1>a, <1>b, ChildFacts DEF Spawn, WorkRests, GateRests
<1>31. CASE LoopIdle BY <1>31, <1>a, <1>b, ShutdownFacts DEF LoopIdle, LoopOnly, HeldTasks
<1>32. CASE LoopHangup BY <1>32, <1>a, <1>b, ShutdownFacts DEF LoopHangup, LoopOnly
<1>33. CASE LoopError BY <1>33 DEF LoopError, LoopOnly, Slip, LoopQuiet
<1>34. CASE LoopValid BY <1>34 DEF LoopValid, LoopOnly, LoopQuiet, NoNote
<1>35. CASE LoopBind BY <1>35 DEF LoopBind, LoopOnly, LoopQuiet
<1>36. CASE LoopRead BY <1>36, <1>a, <1>c DEF LoopRead, LoopOnly, LoopQuiet, Readable
<1>37. CASE LoopInspect BY <1>37 DEF LoopInspect, LoopOnly, LoopQuiet, Matches
<1>38. CASE LoopAllow
  <2>1. CASE note.pending
    <3>1. /\ \A u \in Tasks : u # note.task => task'[u] = task[u]
          /\ task'[note.task].image \in {Named(task[note.task].wants), task[note.task].image}
      BY <1>a, <1>38, <2>1, AllowFacts
    <3>2. /\ <<note.saw, note.version>> \in sealed
          /\ note.clean => Named(task[note.task].wants) = <<note.saw, note.version>>
      BY <2>1, <1>38 DEF LoopAllow, Calls, Judging, Matches, Named
    <3> QED BY <2>1, <3>1, <3>2
  <2>2. CASE ~note.pending BY <1>38, <2>2 DEF LoopAllow
  <2> QED BY <2>1, <2>2
<1>39. CASE LoopKill BY <1>39, <1>a, <1>b, KillFacts DEF LoopKill, LoopOnly
<1>40. CASE LoopKillFails BY <1>40, <1>a, <1>b, ShutdownFacts DEF LoopKillFails, LoopOnly
<1>41. CASE LoopRecord BY <1>41, <1>a, <1>c DEF LoopRecord, LoopOnly
<1>42. CASE LoopSettled BY <1>42, <1>a, <1>c DEF LoopSettled, LoopOnly, LoopQuiet
<1>43. CASE LoopEnds BY <1>43, <1>a, <1>b, ShutdownFacts DEF LoopEnds, LoopOnly
<1>44. ASSUME NEW t \in Tasks, LoopReceive(t) PROVE Enters
  BY <1>44 DEF LoopReceive, LoopQuiet, LoopOnly, NoNote
<1>45. CASE OtherKill BY <1>45, <1>a, <1>b, KillFacts DEF OtherKill, OthersRest
<1>46. CASE OtherKillFails BY <1>46 DEF OtherKillFails, OthersRest
<1>47. CASE OtherRecord BY <1>47 DEF OtherRecord, OthersRest
<1>48. CASE OtherCompletes BY <1>48 DEF OtherCompletes, OthersRest
<1>49. CASE StartKillFails BY <1>49 DEF StartKillFails, StartOnly
<1> QED BY <1>1, <1>2, <1>3, <1>4, <1>5, <1>6, <1>7, <1>8, <1>9, <1>10, <1>11, <1>12, <1>13, <1>14, <1>15, <1>16, <1>17, <1>18, <1>19, <1>20, <1>21, <1>22, <1>23, <1>24, <1>25, <1>26, <1>27, <1>28, <1>29, <1>30, <1>31, <1>32, <1>33, <1>34, <1>35, <1>36, <1>37, <1>38, <1>39, <1>40, <1>41, <1>42, <1>43, <1>44, <1>45, <1>46, <1>47, <1>48, <1>49 DEF ExecNext, StartStep, GateStep, WorkStep, LoopStep

-----------------------------------------------------------------------------
(* The initial state, and steps that change nothing.                       *)
LEMMA ExecStarts == ASSUME ExecInit PROVE ExecIInv
<1>1. TaskOK
  <2>1. NoTask \in Process
    BY ExecAssumption DEF NoTask, Process, Places, Images
  <2> QED BY <2>1 DEF ExecInit, TaskOK
<1>2. NoteOK
  BY ExecAssumption, NoteFacts DEF ExecInit, NoteOK
<1>3. RootOK
  BY ExecAssumption DEF ExecInit, RootOK
<1>4. StepsOK
  <2>1. 0 \in 0..GateFaults
    BY ExecAssumption DEF ExecAssumption
  <2> QED BY <2>1 DEF ExecInit, StepsOK
<1>5. ExecTypeOK
  BY <1>1, <1>2, <1>3, <1>4 DEF ExecTypeOK, TaskOK, NoteOK, Notes, RootOK, StepsOK, Process
<1>6. \A t \in Tasks : task[t].at = "absent"
  BY DEF ExecInit, NoTask
<1>7. Stages
  BY DEF ExecInit, Stages, Unrecorded, Quiet, Unheard, Unwatched, Recorded
<1>8. Processes
  BY <1>6 DEF Processes, NoneRuns, InRun, GateSteps, Past
<1>9. Holders /\ Endings /\ Calls
  BY <1>6 DEF ExecInit, Holders, Endings, RefusedStaysOut, Calls, Judging, NoNote
<1> QED BY <1>5, <1>7, <1>8, <1>9 DEF ExecIInv

LEMMA ExecRests == ASSUME ExecIInv, UNCHANGED execVars PROVE ExecIInv' /\ Enters
<1> USE DEF execVars, rootVars, startVars
<1>1. ExecTypeOK'
  <2>1. TaskOK /\ NoteOK /\ RootOK /\ StepsOK
    BY DEF ExecIInv, ExecTypeOK, TaskOK, NoteOK, Notes, RootOK, StepsOK, Process
  <2>2. TaskOK' /\ NoteOK' /\ RootOK'
    BY <2>1 DEF TaskOK, NoteOK, RootOK
  <2>3. StepsOK'
    BY <2>1 DEF StepsOK
  <2> QED BY <2>2, <2>3 DEF ExecTypeOK, TaskOK, NoteOK, Notes, RootOK, StepsOK, Process
<1>2. Stages'
  BY DEF ExecIInv, Stages
<1>3. Processes'
  BY DEF ExecIInv, Processes, NoneRuns, InRun, Past
<1>4. Holders' /\ Endings'
  BY DEF ExecIInv, Holders, Endings, RefusedStaysOut, NoneRuns, InRun
<1>5. Calls'
  BY DEF ExecIInv, Calls, Judging, Matches
<1>6. Enters
  BY DEF Enters
<1> QED BY <1>1, <1>2, <1>3, <1>4, <1>5, <1>6 DEF ExecIInv

(* The strengthening of what is claimed below is inductive.                *)
THEOREM ExecInvariance == ExecSpec => []ExecIInv
<1>1. ExecIInv /\ [ExecNext]_execVars => ExecIInv'
  <2> SUFFICES ASSUME ExecIInv, [ExecNext]_execVars PROVE ExecIInv'
    OBVIOUS
  <2>1. CASE ExecNext
    <3>1. ExecTypeOK'
      BY <2>1, TaskOKKept, NoteOKKept, RootOKKept, StepsOKKept
      DEF ExecTypeOK, TaskOK, NoteOK, Notes, RootOK, StepsOK, Process
    <3> QED BY <2>1, <3>1, StagesKept, ProcessesKept, HoldersKept, EndingsKept, CallsKept DEF ExecIInv
  <2>2. CASE UNCHANGED execVars BY <2>2, ExecRests
  <2> QED BY <2>1, <2>2
<1> QED BY ExecStarts, <1>1, PTL DEF ExecSpec

(* What the invariant says of the promises that are about states.          *)
LEMMA ExecPromises ==
  ASSUME ExecIInv PROVE GateHolds /\ HeldIsHeard /\ RefusedStaysOut /\ StartLeavesNothing
<1>1. GateHolds
  BY DEF ExecIInv, Processes, Past, GateHolds
<1>2. HeldIsHeard
  BY DEF ExecIInv, Holders, HeldIsHeard, HeldTasks
<1>3. RefusedStaysOut
  BY DEF ExecIInv, Endings
<1>4. StartLeavesNothing
  BY DEF ExecIInv, Stages, Processes, Holders, NoneRuns, Quiet, RunTasks, StartLeavesNothing
<1> QED BY <1>1, <1>2, <1>3, <1>4

(* The types of the module hold.                                           *)
THEOREM ExecTypeCorrect == ExecSpec => []ExecTypeOK
<1>1. ExecIInv => ExecTypeOK
  BY DEF ExecIInv
<1> QED BY ExecInvariance, <1>1, PTL

(* Nothing of the command runs before it is recorded, mediated and         *)
(* watched; an exec that is held is heard; the caller of a refused one     *)
(* stays out; a refused start leaves nothing behind; and a process changes *)
(* its image only to an identity of the sealed policy.                     *)
THEOREM ExecSealed == ExecSpec => ExecsAreSealed
<1>1. ExecIInv /\ [ExecNext]_execVars => [Enters]_execVars
  BY EntersKept, ExecRests
<1>2. ExecIInv => GateHolds /\ HeldIsHeard /\ RefusedStaysOut /\ StartLeavesNothing
  BY ExecPromises
<1>3. ExecSpec => [][Enters]_execVars
  BY ExecInvariance, <1>1, PTL DEF ExecSpec
<1>4. ExecSpec => OnlyAllowedEnters
  BY <1>3 DEF OnlyAllowedEnters, Enters
<1> QED BY ExecInvariance, <1>2, <1>4, PTL DEF ExecsAreSealed
=============================================================================
