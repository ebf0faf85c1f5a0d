------------------------------ MODULE ExecGate ------------------------------
(***************************************************************************)
(* The sealed start of a run and the mediation of its execs.  The gate, a  *)
(* process of the workload's account, installs the filter and hands its    *)
(* listener over (gate.py; seccomp_notify.py: install_exec_filter,         *)
(* send_listener).  The start takes it, starts the listener thread and the *)
(* watcher, and only then opens the gate (supervisor.py: _start,           *)
(* _accept_exec_listener, _release_gate).  From there every exec of the    *)
(* run is held until that thread answers it (_exec_listener_loop,          *)
(* allowed_target), by the policy that the start had loaded                *)
(* (execution_policy.py).  One run.                                        *)
(***************************************************************************)
EXTENDS Naturals

CONSTANTS
  Tasks,        \* process identifiers that the run comes to use
  Gate,         \* the one of the gate
  Paths,        \* what an exec may name
  RootPaths,    \* those that are absolute and that only root can change
  Target,       \* the command's own
  MaxVersion,   \* replacements of an executable
  MaxRevoked,   \* revocations of the policy
  GateFaults    \* steps that fail

ASSUME ExecAssumption ==
  /\ Gate \in Tasks /\ Target \in Paths /\ RootPaths \subseteq Paths
  /\ MaxVersion \in Nat /\ MaxRevoked \in Nat /\ GateFaults \in Nat

VARIABLES
  version,   \* the executable that each path of root's names
  store,     \* the stored policy: its state, generation and identities
  sealed,    \* the identities of the policy of the run, as the start loaded it
  start,     \* the start's step
  files,     \* the gate's FIFO and the channel's socket
  armed,     \* whether the watcher was ready before the gate was opened
  rec, lock, \* the record's state; who contains or completes the run
  holders,   \* who has a descriptor of the listener
  task,      \* where each process is, its image, and what its exec names
  loop,      \* the listener thread's step
  note,      \* the notification it works on
  slips      \* faults so far

rootVars == <<version, store>>
startVars == <<sealed, start, files, armed>>
execVars == <<rootVars, startVars, rec, lock, holders, task, loop, note, slips>>

Identities == RootPaths \X (0..MaxVersion)
GateImage == <<"gate">>
NoTask == [at |-> "absent", image |-> GateImage, wants |-> Target]
NoNote == [task |-> Gate, pending |-> FALSE, saw |-> Target, version |-> 0, clean |-> TRUE]

ExecInit ==
  /\ version = [p \in RootPaths |-> 0]
  /\ store = [state |-> "none", generation |-> 0, holds |-> {}]
  /\ sealed = {} /\ start = "idle" /\ files = {} /\ armed = FALSE
  /\ rec = "none" /\ lock = "free" /\ holders = {}
  /\ task = [t \in Tasks |-> NoTask] /\ loop = "none" /\ note = NoNote /\ slips = 0

(* Processes of the run, and those of them that have its filter.           *)
GateSteps == {"filter", "connect", "sent", "wait", "go"}
InRun(t) == task[t].at \in GateSteps \cup {"runs", "held"}
Filtered(t) == InRun(t) /\ task[t].at # "filter"

Slip == slips < GateFaults /\ slips' = slips + 1
(* A process that is back from a call, with that image.                    *)
Back(image) == [at |-> "runs", image |-> image, wants |-> Target]
(* A call that is no longer pending has no answer to wait for.             *)
Lapses(ts) == note' = IF note.task \in ts THEN [note EXCEPT !.pending = FALSE] ELSE note
(* Processes that die drop what they hold.                                 *)
Die(ts) ==
  /\ task' = [t \in Tasks |-> IF t \in ts THEN NoTask ELSE task[t]]
  /\ holders' = (IF Gate \in ts THEN holders \ {"gate"} ELSE holders)
  /\ Lapses(ts)
(* Between the look at what an exec names and the answer.                  *)
Judging == loop \in {"inspect", "allow"}
RunTasks == {t \in Tasks : InRun(t)}

-----------------------------------------------------------------------------
(* Root: the policy store, under approval_lock, which a start holds from   *)
(* its admission to its end; and the executables.                          *)
LockFree == start \in {"idle", "returned", "refused", "left", "unkilled"}
RootRests == UNCHANGED <<startVars, rec, lock, holders, task, loop, slips>>
CreatePolicy ==
  /\ LockFree /\ store.state = "none"
  /\ \E ps \in SUBSET RootPaths \ {{}} :
       store' = [state |-> "active", generation |-> 1, holds |-> {<<p, version[p]>> : p \in ps}]
  /\ UNCHANGED <<version, note>> /\ RootRests
RevokePolicy ==
  /\ LockFree /\ store.state # "none" /\ store.generation <= MaxRevoked
  /\ store' = [store EXCEPT !.state = "revoked", !.generation = @ + 1]
  /\ UNCHANGED <<version, note>> /\ RootRests
Replace(p) ==
  /\ version[p] < MaxVersion /\ version' = [version EXCEPT ![p] = @ + 1]
  /\ note' = (IF Judging /\ note.saw = p THEN [note EXCEPT !.clean = FALSE] ELSE note)
  /\ UNCHANGED store /\ RootRests

-----------------------------------------------------------------------------
(* The start.                                                              *)
StartOnly == UNCHANGED <<rootVars, lock, note>>
Sealing(s) == start' = "sealed" /\ sealed' = s
StartLoad ==
  /\ start = "idle"
  /\ \/ Target \in RootPaths /\ Sealing({<<Target, version[Target]>>})
     \/ store.state = "active" /\ Sealing(store.holds)
     \/ (Target \notin RootPaths \/ store.state # "active") /\ start' = "refused" /\ UNCHANGED sealed
  /\ UNCHANGED <<files, armed, rec, holders, task, loop, slips>> /\ StartOnly
StartPrepare ==
  /\ start = "sealed" /\ start' = "prepared" /\ files' = {"fifo", "channel"}
  /\ UNCHANGED <<sealed, armed, rec, holders, task, loop, slips>> /\ StartOnly
StartLaunch ==
  /\ start = "prepared" /\ start' = "launched"
  /\ task' = [task EXCEPT ![Gate].at = "filter"]
  /\ UNCHANGED <<sealed, files, armed, rec, holders, loop, slips>> /\ StartOnly
(* A failure before there is a unit takes back what was prepared.          *)
StartUndone ==
  /\ Slip /\ start \in {"sealed", "prepared"} /\ start' = "refused" /\ files' = {}
  /\ UNCHANGED <<sealed, armed, rec, holders, task, loop>> /\ StartOnly
(* The account has changed since the start looked at it first: that second *)
(* look is outside of what takes the preparation back.                     *)
StartDrifts ==
  /\ Slip /\ start = "prepared" /\ start' = "left"
  /\ UNCHANGED <<sealed, files, armed, rec, holders, task, loop>> /\ StartOnly
(* The one process of the cgroup, and its credentials.                     *)
StartCapture ==
  /\ start = "launched" /\ InRun(Gate) /\ start' = "captured"
  /\ UNCHANGED <<sealed, files, armed, rec, holders, task, loop, slips>> /\ StartOnly
StartStore ==
  /\ start = "captured" /\ start' = "stored" /\ rec' = "active"
  /\ UNCHANGED <<sealed, files, armed, holders, task, loop, slips>> /\ StartOnly
(* The peer is the gate, and still in the run.                             *)
StartAccept ==
  /\ start = "stored" /\ task[Gate].at = "sent" /\ start' = "accepted"
  /\ UNCHANGED <<sealed, files, armed, rec, holders, task, loop, slips>> /\ StartOnly
(* The descriptor is received and OK is sent: nobody closes a descriptor   *)
(* that was received from a gate that has gone since.                      *)
StartReceive ==
  /\ start = "accepted"
  /\ IF task[Gate].at = "sent"
     THEN start' = "received" /\ holders' = holders \cup {"start"}
     ELSE start' = "rollback" /\ holders' = holders \cup {"lost"}
  /\ UNCHANGED <<sealed, files, armed, rec, task, loop, slips>> /\ StartOnly
StartListen ==
  /\ start = "received" /\ start' = "listening" /\ files' = files \ {"channel"}
  /\ loop' = "poll" /\ holders' = (holders \ {"start"}) \cup {"loop"}
  /\ UNCHANGED <<sealed, armed, rec, task, slips>> /\ StartOnly
StartWatch ==
  /\ start = "listening" /\ start' = "watched" /\ armed' = TRUE
  /\ UNCHANGED <<sealed, files, rec, holders, task, loop, slips>> /\ StartOnly
StartRelease ==
  /\ start = "watched" /\ task[Gate].at = "wait" /\ start' = "released"
  /\ files' = files \ {"fifo"} /\ task' = [task EXCEPT ![Gate].at = "go"]
  /\ UNCHANGED <<sealed, armed, rec, holders, loop, slips>> /\ StartOnly
StartReturn ==
  /\ start = "released" /\ start' = "returned"
  /\ UNCHANGED <<sealed, files, armed, rec, holders, task, loop, slips>> /\ StartOnly
(* A step fails, by itself or for want of the gate.                        *)
StartSteps == {"launched", "captured", "stored", "accepted", "received", "listening", "watched", "released"}
StartFails ==
  /\ start \in StartSteps /\ start' = "rollback"
  /\ \/ Slip
     \/ ~InRun(Gate) /\ start \in {"launched", "stored", "watched"} /\ UNCHANGED slips
  /\ UNCHANGED <<sealed, files, armed, rec, holders, task, loop>> /\ StartOnly
StartRollback ==
  /\ start = "rollback" /\ start' = "killing" /\ files' = {} /\ holders' = holders \ {"start"}
  /\ UNCHANGED <<sealed, armed, rec, task, loop, slips>> /\ StartOnly
(* The cgroup is killed, or systemctl stops the unit.                      *)
StartKill ==
  /\ start = "killing" /\ start' = "refused" /\ Die(RunTasks)
  /\ UNCHANGED <<rootVars, sealed, files, armed, rec, lock, loop, slips>>
(* What systemctl answers is not looked at: the start is over all the same *)
(* when neither of the two has killed anybody.                             *)
StartKillFails ==
  /\ start = "killing" /\ start' = "unkilled"
  /\ UNCHANGED <<sealed, files, armed, rec, holders, task, loop, slips>> /\ StartOnly

-----------------------------------------------------------------------------
(* The gate.                                                               *)
GateRests == UNCHANGED <<rootVars, startVars, rec, lock, loop>>
GateFilter ==
  /\ task[Gate].at = "filter" /\ task' = [task EXCEPT ![Gate].at = "connect"]
  /\ holders' = holders \cup {"gate"} /\ GateRests /\ UNCHANGED <<note, slips>>
GateSends ==
  /\ task[Gate].at = "connect" /\ GateRests /\ UNCHANGED slips
  /\ IF "channel" \in files
     THEN task' = [task EXCEPT ![Gate].at = "sent"] /\ UNCHANGED <<holders, note>>
     ELSE Die({Gate})
GateHeard ==
  /\ task[Gate].at = "sent" /\ ("start" \in holders \/ loop # "none")
  /\ task' = [task EXCEPT ![Gate].at = "wait"] /\ holders' = holders \ {"gate"}
  /\ GateRests /\ UNCHANGED <<note, slips>>
(* Its exec of the command, refused if no listener is left.                *)
GateExec ==
  /\ task[Gate].at = "go" /\ GateRests /\ UNCHANGED slips
  /\ IF holders # {}
     THEN task' = [task EXCEPT ![Gate].at = "held"] /\ UNCHANGED <<holders, note>>
     ELSE Die({Gate})
(* A failure, a timeout, NO, or an end of file: it exits.                  *)
GateGivesUp == Slip /\ task[Gate].at \in GateSteps /\ Die({Gate}) /\ GateRests

-----------------------------------------------------------------------------
(* The workload.  With no listener left the kernel refuses its execs.      *)
WorkRests == GateRests /\ UNCHANGED <<holders, slips>>
Ask(t) ==
  /\ task[t].at = "runs" /\ holders # {}
  /\ \E p \in Paths : task' = [task EXCEPT ![t].at = "held", ![t].wants = p]
  /\ WorkRests /\ UNCHANGED note
(* Another process that shares its memory writes the path.                 *)
Rewrite(t, u) ==
  /\ t # u /\ task[t].at = "held" /\ task[u].at = "runs"
  /\ \E p \in Paths \ {task[t].wants} : task' = [task EXCEPT ![t].wants = p]
  /\ note' = (IF Judging /\ note.task = t THEN [note EXCEPT !.clean = FALSE] ELSE note)
  /\ WorkRests
(* A signal takes it out of the call.                                      *)
Signalled(t) ==
  /\ task[t].at = "held" /\ task' = [task EXCEPT ![t] = Back(@.image)] /\ Lapses({t}) /\ WorkRests
Leave(t) == task[t].at \in {"runs", "held"} /\ Die({t}) /\ GateRests /\ UNCHANGED slips
Spawn(t, u) ==
  /\ task[t].at = "runs" /\ task[u].at = "absent"
  /\ task' = [task EXCEPT ![u] = task[t]] /\ WorkRests /\ UNCHANGED note
(* The identifier of the process that the listener looks at is taken by    *)
(* one outside the run, once its own is dead; or given up again.           *)
Reused(t) ==
  /\ \/ task[t].at = "absent" /\ note.task = t /\ loop \in {"received", "valid", "bound"}
        /\ task' = [task EXCEPT ![t].at = "foreign"]
     \/ task[t].at = "foreign" /\ task' = [task EXCEPT ![t].at = "absent"]
  /\ WorkRests /\ UNCHANGED note

-----------------------------------------------------------------------------
(* The listener thread.                                                    *)
LoopOnly == UNCHANGED <<rootVars, startVars>>
LoopQuiet == LoopOnly /\ UNCHANGED <<rec, lock, holders, task>>
HeldTasks == {t \in Tasks : task[t].at = "held"}
(* Its descriptor is closed: an exec that waits gets ENOSYS.               *)
Shutdown ==
  /\ loop' = "done" /\ holders' = holders \ {"loop"}
  /\ task' = [t \in Tasks |-> IF task[t].at = "held" THEN Back(task[t].image) ELSE task[t]]
  /\ note' = NoNote
LoopIdle ==
  /\ loop = "poll" /\ rec # "active" /\ HeldTasks = {} /\ Shutdown
  /\ LoopOnly /\ UNCHANGED <<rec, lock, slips>>
(* Hang-up: no process has the filter.  The run is complete if its cgroup  *)
(* is seen to be empty in time.                                            *)
LoopHangup ==
  /\ loop = "poll" /\ \A t \in Tasks : ~Filtered(t)
  /\ \/ lock = "free" /\ RunTasks = {} /\ Shutdown
        /\ rec' = (IF rec = "active" THEN "completed" ELSE rec) /\ UNCHANGED <<lock, slips>>
     \/ Slip /\ loop' = "fail" /\ UNCHANGED <<rec, lock, holders, task, note>>
  /\ LoopOnly
LoopReceive(t) ==
  /\ loop = "poll" /\ task[t].at = "held" /\ loop' = "received"
  /\ note' = [NoNote EXCEPT !.task = t, !.pending = TRUE]
  /\ LoopQuiet /\ UNCHANGED slips
LoopError == loop = "poll" /\ Slip /\ loop' = "fail" /\ LoopQuiet /\ UNCHANGED note
LoopValid ==
  /\ loop = "received" /\ LoopQuiet /\ UNCHANGED slips
  /\ IF note.pending THEN loop' = "valid" /\ UNCHANGED note ELSE loop' = "poll" /\ note' = NoNote
LoopBind ==
  /\ loop = "valid" /\ loop' = (IF InRun(note.task) THEN "bound" ELSE "trip")
  /\ LoopQuiet /\ UNCHANGED <<note, slips>>
(* What the process's memory holds there, the path in it or something else *)
(* when the call is over.                                                  *)
Readable == IF note.pending THEN {task[note.task].wants}
            ELSE IF task[note.task].at = "absent" THEN {} ELSE Paths
LoopRead ==
  /\ loop = "bound"
  /\ \/ \E p \in Readable \cap RootPaths :
          loop' = "inspect" /\ note' = [note EXCEPT !.saw = p, !.version = version[p], !.clean = TRUE]
     \/ (Readable = {} \/ Readable \ RootPaths # {}) /\ loop' = "trip" /\ UNCHANGED note
  /\ LoopQuiet /\ UNCHANGED slips
(* inspect_executable and match_identity.                                  *)
(* Faulty variant: the path is compared, not what it names.                *)
MatchesPath == \E i \in sealed : i[1] = note.saw
Matches == <<note.saw, note.version>> \in sealed
LoopInspect ==
  /\ loop = "inspect"
  /\ loop' = (IF note.version = version[note.saw] /\ Matches THEN "allow" ELSE "trip")
  /\ LoopQuiet /\ UNCHANGED <<note, slips>>
(* The kernel goes on with the exec: it reads the path and opens the file. *)
Named(p) == IF p \in RootPaths THEN <<p, version[p]>> ELSE <<p>>
LoopAllow ==
  /\ loop = "allow" /\ LoopOnly /\ UNCHANGED <<rec, lock, holders, slips>>
  /\ IF note.pending
     THEN /\ loop' = "poll" /\ note' = NoNote
          /\ \E image \in {Named(task[note.task].wants), task[note.task].image} :
               task' = [task EXCEPT ![note.task] = Back(image)]
     ELSE loop' = "fail" /\ UNCHANGED <<task, note>>
(* _contain: the kill, under the lock of the run, then the record.         *)
LoopKill ==
  /\ loop \in {"trip", "fail"} /\ rec = "active" /\ lock = "free" /\ lock' = "loop"
  /\ loop' = (IF loop = "trip" THEN "trip killed" ELSE "fail killed")
  /\ Die(RunTasks) /\ LoopOnly /\ UNCHANGED <<rec, slips>>
LoopKillFails ==
  /\ loop \in {"trip", "fail"} /\ rec = "active" /\ lock = "free" /\ Slip
  /\ rec' = "failed" /\ Shutdown /\ LoopOnly /\ UNCHANGED lock
LoopRecord ==
  /\ loop \in {"trip killed", "fail killed"} /\ rec' = "contained" /\ lock' = "free"
  /\ loop' = (IF loop = "trip killed" THEN "deny" ELSE "finish")
  /\ LoopOnly /\ UNCHANGED <<holders, task, note, slips>>
LoopSettled ==
  /\ loop \in {"trip", "fail"} /\ rec # "active"
  /\ loop' = (IF loop = "trip" THEN "deny" ELSE "finish")
  /\ LoopQuiet /\ UNCHANGED <<note, slips>>
(* EPERM, if the call is still there; and the end of the thread.           *)
LoopEnds == loop \in {"deny", "finish"} /\ Shutdown /\ LoopOnly /\ UNCHANGED <<rec, lock, slips>>
LoopStep ==
  \/ LoopIdle \/ LoopHangup \/ LoopError \/ LoopValid \/ LoopBind \/ LoopRead \/ LoopInspect
  \/ LoopAllow \/ LoopKill \/ LoopKillFails \/ LoopRecord \/ LoopSettled \/ LoopEnds

-----------------------------------------------------------------------------
(* The other threads: a containment, or the completion of an empty run.    *)
OthersRest == UNCHANGED <<rootVars, startVars, loop>>
OtherKill ==
  /\ rec = "active" /\ lock = "free" /\ lock' = "other" /\ Die(RunTasks)
  /\ OthersRest /\ UNCHANGED <<rec, slips>>
OtherKillFails ==
  /\ Slip /\ rec = "active" /\ lock = "free" /\ rec' = "failed"
  /\ OthersRest /\ UNCHANGED <<lock, holders, task, note>>
OtherRecord ==
  /\ lock = "other" /\ lock' = "free" /\ rec' = "contained"
  /\ OthersRest /\ UNCHANGED <<holders, task, note, slips>>
OtherCompletes ==
  /\ armed /\ rec = "active" /\ lock = "free" /\ RunTasks = {} /\ rec' = "completed"
  /\ OthersRest /\ UNCHANGED <<lock, holders, task, note, slips>>

StartStep ==
  \/ StartLoad \/ StartPrepare \/ StartLaunch \/ StartUndone \/ StartDrifts \/ StartCapture
  \/ StartStore \/ StartAccept \/ StartReceive \/ StartListen \/ StartWatch \/ StartRelease \/ StartReturn
  \/ StartFails \/ StartRollback \/ StartKill \/ StartKillFails
GateStep == GateFilter \/ GateSends \/ GateHeard \/ GateExec \/ GateGivesUp
WorkStep ==
  \/ \E t \in Tasks : Ask(t) \/ Signalled(t) \/ Leave(t) \/ Reused(t)
  \/ \E t, u \in Tasks : Rewrite(t, u) \/ Spawn(t, u)
ExecNext ==
  \/ CreatePolicy \/ RevokePolicy \/ \E p \in RootPaths : Replace(p)
  \/ StartStep \/ GateStep \/ WorkStep
  \/ LoopStep \/ \E t \in Tasks : LoopReceive(t)
  \/ OtherKill \/ OtherKillFails \/ OtherRecord \/ OtherCompletes

ExecSpec == ExecInit /\ [][ExecNext]_execVars

-----------------------------------------------------------------------------
Places == GateSteps \cup {"absent", "runs", "held", "foreign"}
Images == {GateImage} \cup Identities \cup {<<p>> : p \in Paths}

ExecTypeOK ==
  /\ version \in [RootPaths -> 0..MaxVersion]
  /\ store \in [state : {"none", "active", "revoked"}, generation : 0..(MaxRevoked + 1),
                holds : SUBSET Identities]
  /\ sealed \subseteq Identities
  /\ start \in StartSteps \cup {"idle", "sealed", "prepared", "returned", "rollback", "killing", "refused", "left",
                              "unkilled"}
  /\ files \subseteq {"fifo", "channel"} /\ armed \in BOOLEAN
  /\ rec \in {"none", "active", "contained", "failed", "completed"}
  /\ lock \in {"free", "loop", "other"} /\ holders \subseteq {"gate", "start", "loop", "lost"}
  /\ task \in [Tasks -> [at : Places, image : Images, wants : Paths]]
  /\ loop \in {"none", "poll", "received", "valid", "bound", "inspect", "allow", "trip", "fail",
               "trip killed", "fail killed", "deny", "finish", "done"}
  /\ note \in [task : Tasks, pending : BOOLEAN, saw : Paths, version : 0..MaxVersion, clean : BOOLEAN]
  /\ slips \in 0..GateFaults

(* Nothing but the gate's own code runs in the run before its record is    *)
(* stored, its execs are mediated and the watcher is armed.                *)
GateHolds ==
  \A t \in Tasks : task[t].at \in {"go", "held", "runs"} => rec # "none" /\ armed /\ loop # "none"

(* The caller of a refused exec does not come back from it, unless the     *)
(* kill of the run has failed.                                             *)
RefusedStaysOut == loop = "deny" /\ note.pending => rec = "failed"

(* A start that is refused leaves no process behind if its kill did not    *)
(* fail (GateHolds is about those that are left), no FIFO or socket unless *)
(* the account drifted before the launch, and no descriptor but one of a   *)
(* gate that died as it was handing it over.                               *)
StartLeavesNothing ==
  /\ start \in {"refused", "left"} => RunTasks = {}
  /\ start \in {"refused", "left", "unkilled"} => "start" \notin holders
  /\ start \in {"refused", "unkilled"} => files = {}
  /\ "lost" \in holders => ~armed

(* A process goes on to another image only by an answer to its own call,   *)
(* about an identity that was in the policy when the start loaded it; and  *)
(* it is that image, if neither the file nor the caller's memory was       *)
(* written between the look and the answer.                                *)
OnlyAllowedEnters ==
  [][\A t \in Tasks : task'[t].at = "runs" /\ task[t].at = "held" /\ task'[t].image # task[t].image =>
       /\ note.task = t /\ note.pending /\ <<note.saw, note.version>> \in sealed
       /\ note.clean => task'[t].image = <<note.saw, note.version>>]_execVars

(* An exec that is held has a listener thread that is still to answer it,  *)
(* or to close its descriptor.                                             *)
HeldIsHeard == HeldTasks # {} => loop \notin {"none", "done"} /\ "loop" \in holders

(* All of it: what a sealed start promises of the execs of its run.        *)
ExecsAreSealed ==
  /\ []GateHolds /\ []HeldIsHeard /\ []RefusedStaysOut /\ []StartLeavesNothing
  /\ OnlyAllowedEnters
=============================================================================
