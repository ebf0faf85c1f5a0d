------------------------------- MODULE Probe -------------------------------
(***************************************************************************)
(* The containment probe and the fork-during-cancellation example          *)
(* (src/lumi_eggcracker/containment_probe.py,                              *)
(* scripts/cancellation_race_example.py): a transient unit owns a cgroup,  *)
(* a target in a child cgroup is killed, a canary outside is not, and the  *)
(* cleanup has to account for all of it whatever failed.                   *)
(***************************************************************************)
EXTENDS Naturals, Sequences

VARIABLES
  example,        \* "probe" or "race"
  progress,       \* its place in Plan(example)
  unit, cells,    \* the transient unit; which of its cgroups are there
  process,        \* target, its child, the canary
  accounted,      \* what the cleanup has a record of
  fds,            \* descriptors held: pidfds and pipe ends; "unowned" where nobody has a record of them
  before,         \* race: who was in the cgroup before the cancellation
  handler,        \* race: how far the target's handler is
  interrupted,    \* a signal came: the handler only sets this
  raised, unclean, outcome

hostOf == <<unit, cells, process>>
probeVars == <<example, progress, hostOf, accounted, fds, before, handler, interrupted, raised, unclean,
               outcome>>

ProbeProcesses == {"target", "child", "canary"}
Gates == {"report", "attachGate", "forkGate"}

Body(x) ==
  IF x = "probe"
  THEN <<"start", "capture", "canary", "spawn", "both", "uninterrupted", "pidfds", "stopAll",
         "uninterrupted", "kill", "empty", "outlives", "succeeds">>
  ELSE <<"uninterrupted", "start", "uninterrupted", "capture", "canary", "spawn", "attached", "admit",
         "ready", "cancelfd", "alone", "uninterrupted", "cancel", "cancelling", "uninterrupted",
         "fork", "forked", "both", "uninterrupted", "kill", "empty", "outlives", "uninterrupted", "succeeds">>
CleanupSteps == <<"held", "cellKill", "cellEmpty", "cellRemove", "targetFds", "canaryFd",
                  "waitTarget", "waitCanary", "invocation", "stopUnit", "unitGone", "report">>
Plan(x) == Body(x) \o CleanupSteps
CleanupAt == Len(Body(example)) + 1
CleanupIndex(name) == Len(Body(example)) + (CHOOSE i \in DOMAIN CleanupSteps : CleanupSteps[i] = name)
Now(name) == progress \in DOMAIN Plan(example) /\ Plan(example)[progress] = name

ProbeInit ==
  /\ example \in {"probe", "race"} /\ progress = 1
  /\ unit = "none" /\ cells = {} /\ process = [p \in ProbeProcesses |-> "none"]
  /\ accounted = {} /\ fds = {} /\ before = {} /\ handler = "none"
  /\ interrupted = FALSE /\ raised = FALSE /\ unclean = FALSE /\ outcome = "none"

Inside(p) == process[p] \in {"in", "dying"}
Within == {p \in {"target", "child"} : Inside(p)}
Running(p) == process[p] \in {"new", "in", "live"}
SigKill(ps) == [p \in ProbeProcesses |-> IF p \in ps /\ Running(p) THEN "dying" ELSE process[p]]

-----------------------------------------------------------------------------
(* The host: processes end, the target enters its cgroup and forks once.   *)
ProcessEnds(p) ==
  /\ Running(p) \/ process[p] = "dying"
  /\ process' = [process EXCEPT ![p] = "dead"]
  /\ UNCHANGED <<example, progress, unit, cells, accounted, fds, before, handler, interrupted,
                 raised, unclean, outcome>>

(* The write of 0 to cgroup.procs, which fails once the cgroup is removed. *)
TargetEnters ==
  /\ process["target"] = "new"
  /\ process' = [process EXCEPT !["target"] = IF "target" \in cells THEN "in" ELSE "dead"]
  /\ UNCHANGED <<example, progress, unit, cells, accounted, fds, before, handler, interrupted,
                 raised, unclean, outcome>>

(* The probe's target forks when it is in; the race's in its handler of    *)
(* SIGTERM, once the gate says so.                                         *)
TargetForks ==
  /\ process["target"] = "in" /\ process["child"] = "none"
  /\ example = "race" => handler = "released"
  /\ process' = [process EXCEPT !["child"] = "in"]
  /\ UNCHANGED <<example, progress, unit, cells, accounted, fds, before, handler, interrupted,
                 raised, unclean, outcome>>

TargetCancels ==
  /\ process["target"] = "in" /\ handler = "sent" /\ handler' = "started"
  /\ UNCHANGED <<example, progress, hostOf, accounted, fds, before, interrupted, raised, unclean,
                 outcome>>

(* The owner of the unit ends, and systemd kills and removes its cgroups;  *)
(* the unit stays when it failed.                                          *)
UnitEnds ==
  /\ unit = "active" /\ unit' \in {"none", "failed"}
  /\ cells' = {} /\ process' = [p \in ProbeProcesses |-> IF Inside(p) THEN "dead" ELSE process[p]]
  /\ UNCHANGED <<example, progress, accounted, fds, before, handler, interrupted, raised, unclean,
                 outcome>>

SignalComes ==
  /\ ~interrupted /\ outcome = "none" /\ interrupted' = TRUE
  /\ UNCHANGED <<example, progress, hostOf, accounted, fds, before, handler, raised, unclean, outcome>>

-----------------------------------------------------------------------------
(* A step of the body is done, or raises: then the cleanup begins.         *)
NextStep == progress' = progress + 1 /\ UNCHANGED raised
Fails == progress' = CleanupAt /\ raised' = TRUE
Bodily(name) == Now(name) /\ progress < CleanupAt /\ UNCHANGED <<example, interrupted, unclean,
                                                                 outcome>>

(* Mutant: the record is made when the command has returned.               *)
StartOwnerLate ==
  /\ Bodily("start")
  /\ \/ unit' = "active" /\ cells' = {"owner"} /\ accounted' = {"unit"} /\ NextStep
     \/ unit' \in {"active", "none"} /\ cells' = (IF unit' = "active" THEN {"owner"} ELSE {})
        /\ UNCHANGED accounted /\ Fails
  /\ UNCHANGED <<process, fds, before, handler>>

(* owner_started is set before systemd-run, whose unit may be there even   *)
(* when the command failed.                                                *)
StartOwner ==
  /\ Bodily("start") /\ accounted' = {"unit"}
  /\ \/ unit' = "active" /\ cells' = {"owner"} /\ (NextStep \/ Fails)
     \/ UNCHANGED <<unit, cells>> /\ Fails
  /\ UNCHANGED <<process, fds, before, handler>>

CaptureOwner ==
  /\ Bodily("capture")
  /\ \/ "owner" \in cells /\ cells' = cells \cup {"target"}
        /\ \/ accounted' = accounted \cup {"identity"} /\ NextStep
           \/ UNCHANGED accounted /\ Fails
     \/ UNCHANGED <<cells, accounted>> /\ Fails
  /\ UNCHANGED <<unit, process, fds, before, handler>>

SpawnCanary ==
  /\ Bodily("canary")
  /\ \/ /\ process' = [process EXCEPT !["canary"] = "live"] /\ accounted' = accounted \cup {"canary"}
        /\ fds' = fds \cup {"canary"} /\ (NextStep \/ Fails)
     \/ /\ process' \in {process, [process EXCEPT !["canary"] = "dying"]} /\ UNCHANGED <<accounted,
                                                                                         fds>> /\ Fails
  /\ UNCHANGED <<unit, cells, before, handler>>

(* The race owns the ends of its three pipes when all three are there: one *)
(* that fails leaves those made before it.                                 *)
PipesFail == example = "race" /\ fds' = fds \cup {"unowned"}

SpawnTarget ==
  /\ Bodily("spawn")
  /\ \/ /\ "target" \in cells /\ process' = [process EXCEPT !["target"] = "new"]
        /\ accounted' = accounted \cup {"target"}
        /\ \/ NextStep /\ fds' = IF example = "race" THEN fds \cup Gates ELSE fds
           \/ example = "race" /\ Fails /\ UNCHANGED fds
     \/ UNCHANGED <<process, accounted>> /\ (UNCHANGED fds \/ PipesFail) /\ Fails
  /\ UNCHANGED <<unit, cells, before, handler>>

(* The steps that only look, wait, or signal.                              *)
Observed(name, holds) ==
  /\ Bodily(name) /\ ((holds /\ NextStep) \/ Fails) /\ UNCHANGED <<hostOf, accounted, fds, before,
                                                                   handler>>

Looks ==
  \/ Observed("attached", process["target"] = "in")
  \/ Observed("ready", process["target"] = "in")
  \/ Observed("both", Within = {"target", "child"} /\ "dying" \notin {process[p] : p \in Within})
  \/ Observed("stopAll", Running("target") /\ Running("child"))
  \/ Observed("cancelling", handler = "started")
  \/ Observed("forked", process["child"] = "in")
  \/ Observed("empty", "target" \in cells /\ Within = {})
  \/ Observed("outlives", Running("canary"))

CheckInterrupt ==
  /\ Bodily("uninterrupted") /\ (IF interrupted THEN Fails ELSE NextStep)
  /\ UNCHANGED <<hostOf, accounted, fds, before, handler>>

(* A gate of the target is opened and closed; closed early, it lets the    *)
(* target end.                                                             *)
OpenGate(name, end) ==
  /\ Bodily(name)
  /\ \/ NextStep /\ fds' = fds \ {end} /\ handler' = (IF end = "forkGate" THEN "released" ELSE handler)
     \/ Fails /\ UNCHANGED <<fds, handler>>
  /\ UNCHANGED <<hostOf, accounted, before>>

OpenPidfds ==
  /\ Bodily("pidfds")
  /\ \/ Running("target") /\ Running("child") /\ fds' = fds \cup {"target", "child"} /\ NextStep
     \/ \E some \in {{}, {"target"}, {"child"}} : fds' = fds \cup some /\ Fails
  /\ UNCHANGED <<hostOf, accounted, before, handler>>

OpenCancelFd ==
  /\ Bodily("cancelfd")
  /\ \/ Running("target") /\ fds' = fds \cup {"cancel"} /\ NextStep
     \/ Fails /\ UNCHANGED fds
  /\ UNCHANGED <<hostOf, accounted, before, handler>>

Snapshot ==
  /\ Bodily("alone")
  /\ \/ Within = {"target"} /\ before' = Within /\ NextStep
     \/ UNCHANGED before /\ Fails
  /\ UNCHANGED <<hostOf, accounted, fds, handler>>

SendCancel ==
  /\ Bodily("cancel")
  /\ \/ handler' = "sent" /\ NextStep
     \/ UNCHANGED handler /\ Fails
  /\ UNCHANGED <<hostOf, accounted, fds, before>>

KillTarget ==
  /\ Bodily("kill")
  /\ \/ "target" \in cells /\ process' = SigKill(Within) /\ NextStep
     \/ UNCHANGED process /\ Fails
  /\ UNCHANGED <<unit, cells, accounted, fds, before, handler>>

Succeeds ==
  /\ Bodily("succeeds") /\ NextStep /\ UNCHANGED <<hostOf, accounted, fds, before, handler>>

-----------------------------------------------------------------------------
(* The cleanup: each part is tried, whatever became of those before it.    *)
GoesTo(name, bad) == progress' = CleanupIndex(name) /\ unclean' = (unclean \/ bad)
Cleaning(name) ==
  /\ Now(name) /\ progress >= CleanupAt
  /\ UNCHANGED <<example, accounted, before, handler, interrupted, raised>>

(* The race lets go of its own descriptors first.                          *)
CloseHeld ==
  /\ Cleaning("held") /\ \E bad \in {FALSE, example = "race"} : GoesTo("cellKill", bad)
  /\ fds' = fds \ (Gates \cup {"cancel"})
  /\ UNCHANGED <<hostOf, outcome>>

(* With an identity: kill who is in the cgroup, see it empty, remove it.   *)
CellKill ==
  /\ Cleaning("cellKill")
  /\ \/ "identity" \notin accounted /\ GoesTo("targetFds", FALSE) /\ UNCHANGED process
     \/ "identity" \in accounted /\ "target" \in cells /\ process' = SigKill(Within) /\ GoesTo("cellEmpty", FALSE)
     \/ "identity" \in accounted /\ GoesTo("targetFds", TRUE) /\ UNCHANGED process
  /\ UNCHANGED <<unit, cells, fds, outcome>>

CellEmpties ==
  /\ Cleaning("cellEmpty")
  /\ \/ "target" \in cells /\ Within = {} /\ GoesTo("cellRemove", FALSE)
     \/ GoesTo("targetFds", TRUE)
  /\ UNCHANGED <<hostOf, fds, outcome>>

CellRemoved ==
  /\ Cleaning("cellRemove")
  /\ \/ "target" \in cells /\ Within = {} /\ cells' = cells \ {"target"} /\ GoesTo("targetFds", FALSE)
     \/ UNCHANGED cells /\ GoesTo("targetFds", TRUE)
  /\ UNCHANGED <<unit, process, fds, outcome>>

(* What is held by a pidfd is killed by it.                                *)
KillHeld(name, ps, after) ==
  /\ Cleaning(name) /\ fds' = fds \ ps
  /\ \/ process' = SigKill(fds \cap ps) /\ GoesTo(after, FALSE)
     \/ fds \cap ps # {} /\ UNCHANGED process /\ GoesTo(after, TRUE)
  /\ UNCHANGED <<unit, cells, outcome>>

(* Mutant: the processes it started are not waited for.                    *)
WaitForNone(name, p, after) ==
  /\ Cleaning(name) /\ GoesTo(after, FALSE)
  /\ UNCHANGED <<hostOf, fds, outcome>>

WaitFor(name, p, after) ==
  /\ Cleaning(name)
  /\ \/ (p \in accounted => process[p] = "dead") /\ GoesTo(after, FALSE)
     \/ p \in accounted /\ GoesTo(after, TRUE)
  /\ UNCHANGED <<hostOf, fds, outcome>>

(* A unit that is not the one captured is not touched.                     *)
CheckInvocation ==
  /\ Cleaning("invocation")
  /\ \/ "unit" \notin accounted /\ GoesTo("report", FALSE)
     \/ "unit" \in accounted /\ ("identity" \in accounted => unit # "none") /\ GoesTo("stopUnit", FALSE)
     \/ "unit" \in accounted /\ "identity" \in accounted /\ unit = "none" /\ GoesTo("report", TRUE)
     \/ "unit" \in accounted /\ "identity" \in accounted /\ GoesTo("unitGone", TRUE)
  /\ UNCHANGED <<hostOf, fds, outcome>>

(* systemctl stop and reset-failed.                                        *)
StopUnit ==
  /\ Cleaning("stopUnit")
  /\ \/ unit' = "none" /\ cells' = {} /\ GoesTo("unitGone", FALSE)
        /\ process' = [p \in ProbeProcesses |-> IF Inside(p) THEN "dead" ELSE process[p]]
     \/ UNCHANGED hostOf /\ GoesTo("unitGone", TRUE)
  /\ UNCHANGED <<fds, outcome>>

UnitGone ==
  /\ Cleaning("unitGone")
  /\ \/ unit = "none" /\ GoesTo("report", FALSE)
     \/ GoesTo("report", TRUE)
  /\ UNCHANGED <<hostOf, fds, outcome>>

ReportOutcome ==
  /\ Cleaning("report") /\ outcome = "none"
  /\ outcome' = CASE unclean -> "CLEANUP_INCOMPLETE"
                [] ~unclean /\ (raised \/ interrupted) -> "FAILED"
                [] OTHER -> "TERMINATED"
  /\ UNCHANGED <<progress, unclean, hostOf, fds>>

ProbeNext ==
  \/ \E p \in ProbeProcesses : ProcessEnds(p)
  \/ TargetEnters \/ TargetForks \/ TargetCancels \/ UnitEnds \/ SignalComes
  \/ StartOwner \/ CaptureOwner \/ SpawnCanary \/ SpawnTarget \/ Looks \/ CheckInterrupt
  \/ OpenGate("admit", "attachGate") \/ OpenGate("fork", "forkGate")
  \/ OpenPidfds \/ OpenCancelFd \/ Snapshot \/ SendCancel \/ KillTarget \/ Succeeds
  \/ CloseHeld \/ CellKill \/ CellEmpties \/ CellRemoved
  \/ KillHeld("targetFds", {"target", "child"}, "canaryFd") \/ KillHeld("canaryFd", {"canary"}, "waitTarget")
  \/ WaitFor("waitTarget", "target", "waitCanary") \/ WaitFor("waitCanary", "canary", "invocation")
  \/ CheckInvocation \/ StopUnit \/ UnitGone \/ ReportOutcome

ProbeSpec == ProbeInit /\ [][ProbeNext]_probeVars

-----------------------------------------------------------------------------
(* Only a cleanup that says it is incomplete leaves anything: whatever     *)
(* step failed, whoever died and whenever the signal came, any other       *)
(* report means that the unit, its cgroups, the target, its child, the     *)
(* canary and every descriptor that somebody owned are gone; the ends of   *)
(* pipes that nobody owned are left only by a race that failed; and a      *)
(* success is about a child that was there, which in the race came after   *)
(* the snapshot.                                                           *)
NothingIsLeft ==
  /\ outcome \in {"FAILED", "TERMINATED"} =>
       /\ unit = "none" /\ cells = {} /\ fds \subseteq {"unowned"}
       /\ \A p \in ProbeProcesses : ~Running(p)
  /\ "unowned" \in fds => example = "race" /\ outcome # "TERMINATED"
  /\ outcome = "TERMINATED" =>
       /\ process["target"] = "dead" /\ process["child"] = "dead"
       /\ example = "race" => before = {"target"}
=============================================================================
