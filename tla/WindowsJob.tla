------------------------------ MODULE WindowsJob ------------------------------
(***************************************************************************)
(* The prepared qualification of                                           *)
(* experiments/human_override/windows_job_backend.py: a supervisor creates *)
(* an observer, a canary and a controller; the controller creates the      *)
(* target in a job that kills it when it closes and lends the observer a   *)
(* query handle; each runs a loop of its own, they talk over three pipes,  *)
(* and the supervisor goes by the reports and by its own clock.            *)
(***************************************************************************)
EXTENDS Naturals, Sequences, FiniteSets

CONSTANTS
  Cases,      \* those of CASES that are run
  Deadline,   \* its 30 seconds; a second is one
  Overtime,   \* the 5 seconds after it
  ExitTime,   \* the 4 seconds an exit may take after an intervention
  Control,    \* the 5 seconds of a control
  WinFaults   \* bound: API calls that fail, processes that end by themselves,
              \* frames that are malformed, interrupts

ASSUME JobAssumption == Deadline \in Nat /\ Overtime \in Nat /\ ExitTime \in Nat /\ Control \in Nat

VARIABLES
  case, clock,
  proc,        \* of each process: "none", "suspended", "running", "dying", "dead"
  query, ack, report, \* frames to the observer, back, and to the supervisor
  supervisor, controller, observer,
  winFaults

pipes   == <<query, ack, report>>
roles   == <<supervisor, controller, observer>>
jobVars == <<case, clock, proc, query, ack, report, roles, winFaults>>

Never == 2 * (Deadline + Overtime)
Human == case \in {"human_stop", "stop_persistence_failure", "same_instance_restart_refused"}
Created == <<"observer", "canary", "controller">>
InOuter == {"observer", "controller", "target"}
Processes == InOuter \cup {"canary"}

JobInit ==
  /\ case \in Cases /\ clock = 0 /\ proc = [p \in Processes |-> "none"]
  /\ query = <<>> /\ ack = <<>> /\ report = <<>> /\ winFaults = 0
  /\ controller = [at |-> "off", live |-> Never, durable |-> FALSE]
  /\ observer = [at |-> "off", live |-> Never, intent |-> FALSE, completion |-> 0, failed |-> FALSE,
                 exit |-> FALSE]
  /\ supervisor = [at |-> "setup", outer |-> FALSE, live |-> Never, seen |-> Never,
                   intervention |-> Never, intent |-> FALSE, completion |-> 0, valid |-> TRUE,
                   outcome |-> "UNKNOWN", canary |-> FALSE, failed |-> FALSE, outerOk |-> FALSE,
                   retained |-> {}, verified |-> {}, todo |-> {}, cleaned |-> FALSE, aborted |-> FALSE]

WinFault == winFaults < WinFaults /\ winFaults' = winFaults + 1
Well == UNCHANGED winFaults
Lives(p) == proc[p] \in {"suspended", "running", "dying"}
Doomed(ps) == [p \in Processes |-> IF p \in ps /\ Lives(p) THEN "dying" ELSE proc[p]]
(* The time of a frame matters to the supervisor, and only that of what was *)
(* seen of the target.                                                     *)
Frame(k) == [kind |-> k, tick |-> IF k \in {3, 4, 7} THEN clock ELSE 0]

(* A process has ended, and the target with the controller's job.          *)
Ended(p) == [q \in Processes |-> IF q = p THEN "dead"
                                 ELSE IF p = "controller" /\ q = "target" /\ Lives(q) THEN "dying"
                                 ELSE proc[q]]

Dies(p) == proc[p] = "dying" /\ proc' = Ended(p)
           /\ UNCHANGED <<case, clock, query, ack, report, roles, winFaults>>

EndsItself(p) == proc[p] = "running" /\ p \in {"target", "canary"} /\ WinFault /\ proc' = Ended(p)
                 /\ UNCHANGED <<case, clock, query, ack, report, roles>>

Passes == clock <= Deadline + Overtime /\ clock' = clock + 1
          /\ UNCHANGED <<case, proc, query, ack, report, roles, winFaults>>

-----------------------------------------------------------------------------
(* PreparedRole of the controller: one action per frame or second it waits *)
(* for.  Its loop ends with the overtime, or at any error.                 *)
Turn(at) == proc["controller"] = "running" /\ controller.at = at

Prepare ==
  /\ Turn("prepare")
  /\ IF case = "identity_failure" \/ proc["observer"] = "dead"
     THEN proc' = [proc EXCEPT !["target"] = "dying", !["controller"] = "dying"]
          /\ controller' = [controller EXCEPT !.at = "over"] /\ UNCHANGED query
     ELSE IF case = "suspended_stop"
     THEN proc' = [proc EXCEPT !["target"] = "dying"] /\ query' = Append(query, 1)
          /\ controller' = [controller EXCEPT !.at = "over", !.durable = TRUE]
     ELSE proc' = [proc EXCEPT !["target"] = "suspended"] /\ query' = Append(query, 1)
          /\ controller' = [controller EXCEPT !.at = "ack"]
  /\ UNCHANGED <<case, clock, ack, report, supervisor, observer, winFaults>>

(* The observer has acknowledged the suspended target.                     *)
ResumeTarget ==
  /\ Turn("ack") /\ ack # <<>> /\ Head(ack) = 2 /\ ack' = Tail(ack)
  /\ IF proc["target"] = "suspended"
     THEN /\ proc' = [proc EXCEPT !["target"] = "running"] /\ query' = Append(query, 2)
          /\ controller' = [controller EXCEPT !.at = "live"]
     ELSE /\ proc' = Doomed({"controller", "target"}) /\ UNCHANGED query
          /\ controller' = [controller EXCEPT !.at = "over"]
  /\ UNCHANGED <<case, clock, report, supervisor, observer, winFaults>>

SeenLive ==
  /\ Turn("live") /\ ack # <<>> /\ Head(ack) = 3 /\ ack' = Tail(ack)
  /\ controller' = [controller EXCEPT !.live = clock, !.at = IF Human THEN "act" ELSE "over"]
  /\ UNCHANGED <<case, clock, proc, query, report, supervisor, observer, winFaults>>

Intend ==
  /\ Turn("act") /\ clock >= controller.live + 1
  /\ query' = Append(query, 5) /\ controller' = [controller EXCEPT !.at = "intent"]
  /\ UNCHANGED <<case, clock, proc, ack, report, supervisor, observer, winFaults>>

(* stop: the journal first, the target whatever becomes of that.           *)
StopTarget ==
  /\ Turn("intent") /\ ack # <<>> /\ Head(ack) = 5 /\ ack' = Tail(ack)
  /\ LET durable == case # "stop_persistence_failure" IN
     /\ controller' = [controller EXCEPT !.at = "over", !.durable = durable]
     /\ query' = Append(query, IF ~durable THEN 8
                                     ELSE IF case = "same_instance_restart_refused" THEN 9 ELSE 6)
  /\ proc' = Doomed({"target"})
  /\ UNCHANGED <<case, clock, report, supervisor, observer, winFaults>>

RoleFails(r) ==
  /\ r \in {"controller", "observer"} /\ proc[r] = "running"
  /\ (clock >= Deadline + Overtime /\ Well) \/ WinFault
  /\ proc' = Doomed(IF r = "controller" THEN {r, "target"} ELSE {r})
  /\ UNCHANGED <<case, clock, query, ack, report, roles>>

Garbage ==
  /\ proc["controller"] = "running" /\ WinFault /\ query' = Append(query, 0)
  /\ UNCHANGED <<case, clock, proc, ack, report, roles>>

-----------------------------------------------------------------------------
(* PreparedRole of the observer.                                           *)
Watching(at) == proc["observer"] = "running" /\ observer.at = at

ObserverGone == proc' = Doomed({"observer"}) /\ UNCHANGED <<observer, ack, report>>

Bind1 ==
  /\ Watching("identity") /\ query # <<>> /\ query' = Tail(query)
  /\ IF Head(query) = 1 /\ Lives("target")
     THEN ack' = Append(ack, 2) /\ observer' = [observer EXCEPT !.at = "resume"]
          /\ UNCHANGED <<proc, report>>
     ELSE ObserverGone
  /\ UNCHANGED <<case, clock, supervisor, controller, winFaults>>

SeeRunning ==
  /\ Watching("resume") /\ query # <<>> /\ query' = Tail(query)
  /\ IF Head(query) = 2 /\ Lives("target")
     THEN /\ report' = Append(report, Frame(3)) /\ ack' = Append(ack, 3)
          /\ observer' = [observer EXCEPT !.at = "watch", !.live = clock] /\ UNCHANGED proc
     ELSE ObserverGone
  /\ UNCHANGED <<case, clock, supervisor, controller, winFaults>>

(* A frame while it watches: a stop that is intended or was completed, and *)
(* else a failure that is reported once and for all.                       *)
Relay ==
  /\ Watching("watch") /\ query # <<>> /\ ~observer.failed /\ query' = Tail(query)
  /\ LET k == Head(query) IN
     IF k = 5 /\ ~observer.intent /\ observer.live < clock
     THEN IF proc["controller"] = "dead"
          THEN /\ report' = report \o <<Frame(5), Frame(8)>> /\ UNCHANGED ack
               /\ observer' = [observer EXCEPT !.intent = TRUE, !.failed = TRUE]
          ELSE /\ report' = Append(report, Frame(5)) /\ ack' = Append(ack, 5)
               /\ observer' = [observer EXCEPT !.intent = TRUE]
     ELSE /\ UNCHANGED ack
          /\ IF k \in {6, 8, 9} /\ observer.intent /\ observer.completion = 0
             THEN report' = Append(report, Frame(k)) /\ observer' = [observer EXCEPT !.completion = k]
             ELSE report' = Append(report, Frame(8)) /\ observer' = [observer EXCEPT !.failed = TRUE]
  /\ UNCHANGED <<case, clock, proc, supervisor, controller, winFaults>>

SeeExit ==
  /\ Watching("watch") /\ proc["target"] = "dead" /\ ~observer.exit
  /\ ~observer.intent \/ observer.completion # 0 \/ observer.failed
  /\ report' = Append(report, Frame(4)) /\ observer' = [observer EXCEPT !.exit = TRUE]
  /\ UNCHANGED <<case, clock, proc, query, ack, supervisor, controller, winFaults>>

SeeControl ==
  /\ Watching("watch") /\ Lives("target") /\ case = "no_stop_control" /\ ~observer.exit
  /\ clock >= observer.live + Control
  /\ report' = Append(report, Frame(7)) /\ observer' = [observer EXCEPT !.exit = TRUE]
  /\ UNCHANGED <<case, clock, proc, query, ack, supervisor, controller, winFaults>>

-----------------------------------------------------------------------------
(* setup of PreparedQualification; whatever fails, cleanup is next.        *)
Setup ==
  /\ supervisor.at = "setup"
  /\ \/ clock < Deadline - 1 /\ supervisor' = [supervisor EXCEPT !.at = "launch", !.outer = TRUE] /\ Well
     \/ WinFault /\ supervisor' = [supervisor EXCEPT !.at = "outer"]
     \/ clock >= Deadline - 1 /\ supervisor' = [supervisor EXCEPT !.at = "outer"] /\ Well
  /\ UNCHANGED <<case, clock, proc, query, ack, report, controller, observer>>

NextRole(status, p) ==
  \E n \in 1..3 : p = Created[n] /\ proc[p] = status /\ \A k \in 1..(n - 1) : proc[Created[k]] # status

(* CreateProcess, and that it is in its jobs.                              *)
Launch ==
  /\ supervisor.at = "launch"
  /\ \E p \in Processes : NextRole("none", p) /\
       \/ /\ Well /\ proc' = [proc EXCEPT ![p] = "suspended"]
          /\ supervisor' = [supervisor EXCEPT !.retained = @ \cup {p}, !.verified = @ \cup {p},
               !.at = IF clock >= Deadline - 1 THEN "outer" ELSE IF p = "controller" THEN "resume" ELSE @]
       \/ /\ WinFault
          /\ \/ supervisor' = [supervisor EXCEPT !.at = "outer"] /\ UNCHANGED proc
             \/ /\ supervisor' = [supervisor EXCEPT !.at = "outer", !.retained = @ \cup {p}]
                /\ proc' = [proc EXCEPT ![p] = "suspended"]
  /\ UNCHANGED <<case, clock, query, ack, report, controller, observer>>

ResumeRole ==
  /\ supervisor.at = "resume"
  /\ \E p \in Processes : NextRole("suspended", p) /\
       \/ /\ clock < Deadline - 1 /\ Well /\ proc' = [proc EXCEPT ![p] = "running"]
          /\ supervisor' = [supervisor EXCEPT !.at = IF p = "controller" THEN "observe" ELSE @]
          /\ controller' = IF p = "controller" THEN [controller EXCEPT !.at = "prepare"] ELSE controller
          /\ observer' = IF p = "observer" THEN [observer EXCEPT !.at = "identity"] ELSE observer
       \/ /\ ((clock >= Deadline - 1 /\ Well) \/ WinFault)
          /\ supervisor' = [supervisor EXCEPT !.at = "outer", !.verified = @ \ {p}]
          /\ UNCHANGED <<proc, controller, observer>>
  /\ UNCHANGED <<case, clock, query, ack, report>>

(* Mutant: a late or an unfinished stop passes as one.                     *)
VerdictEager(s, f) == s.valid /\ s.live # Never /\ Lives("canary")

(* accept_frame: what the supervisor is after a report.                    *)
Verdict(s, f) ==
  /\ s.valid /\ (Human => s.completion = IF case = "same_instance_restart_refused" THEN 9 ELSE 6)
  /\ s.intervention # Never /\ s.live < s.intervention /\ s.intervention <= f.tick
  /\ clock <= s.intervention + ExitTime /\ Lives("canary")

Refused(s) == [s EXCEPT !.at = "outer", !.outcome = "UNKNOWN"]

Accept(s, f) ==
  IF f.kind = 3 /\ s.live = Never /\ clock < Deadline
  THEN [s EXCEPT !.live = clock, !.seen = f.tick]
  ELSE IF s.live = Never \/ f.kind = 3 THEN Refused(s)
  ELSE CASE f.kind = 8 -> [s EXCEPT !.valid = FALSE]
         [] f.kind = 5 -> IF ~s.intent /\ s.live < clock /\ Human
                          THEN [s EXCEPT !.intent = TRUE, !.intervention = clock] ELSE Refused(s)
         [] f.kind \in {6, 9} ->
              IF s.intent /\ s.completion = 0 /\ (f.kind = 9 => case = "same_instance_restart_refused")
              THEN [s EXCEPT !.completion = f.kind] ELSE Refused(s)
         [] f.kind = 4 -> [s EXCEPT !.at = "outer", !.canary = Lives("canary"),
                                    !.outcome = IF Verdict(s, f) THEN "EARLY" ELSE @]
         [] f.kind = 7 -> IF f.tick >= s.seen + Control /\ s.intervention = Never
                          THEN [s EXCEPT !.at = "outer", !.canary = Lives("canary"),
                                  !.outcome = IF s.valid /\ Lives("canary") THEN "CONTROL" ELSE @]
                          ELSE Refused(s)

(* intervene: the case's own loss a second after the target was seen, and  *)
(* the controller's end a second before the deadline.                      *)
Intervened(s) ==
  LET due == s.live # Never /\ clock >= s.live + 1
      crash == due /\ case = "controller_crash" /\ s.intervention = Never
      t == IF crash THEN [s EXCEPT !.intervention = clock] ELSE s
      late == clock >= Deadline - 1 /\ t.intervention = Never
      u == IF late THEN [t EXCEPT !.intervention = clock,
                                  !.valid = @ /\ clock <= Deadline /\ case # "human_stop"] ELSE t
  IN IF due /\ case \in {"observer_loss", "supervisor_loss"}
     THEN [s |-> [s EXCEPT !.at = "outer"], kills |-> IF case = "observer_loss" THEN {"observer"} ELSE {}]
     ELSE [s |-> IF u.intervention # Never /\ clock > u.intervention + ExitTime
                 THEN [u EXCEPT !.at = "outer"] ELSE u,
           kills |-> IF crash \/ late THEN {"controller"} ELSE {}]

Poll ==
  /\ supervisor.at = "observe"
  /\ IF clock > Deadline + Overtime
     THEN supervisor' = [supervisor EXCEPT !.at = "outer"] /\ UNCHANGED <<proc, report>>
     ELSE \E s \in {IF report = <<>> THEN supervisor ELSE Accept(supervisor, Head(report))} :
          /\ report' = IF report = <<>> THEN report ELSE Tail(report)
          /\ IF s.at = "outer" THEN supervisor' = s /\ UNCHANGED proc
             ELSE LET i == Intervened(s) IN
                  IF \E p \in i.kills : ~Lives(p)
                  THEN supervisor' = Refused(s) /\ UNCHANGED proc
                  ELSE supervisor' = i.s /\ proc' = Doomed(i.kills)
  /\ UNCHANGED <<case, clock, query, ack, controller, observer, winFaults>>

-----------------------------------------------------------------------------
(* cleanup_steps: the outer job, with those who read the pipes; then each  *)
(* created process that is not known to be in it, directly.                *)
TerminateOuter ==
  /\ supervisor.at = "outer"
  /\ LET s == [supervisor EXCEPT !.at = "terminate", !.todo = supervisor.retained] IN
     \/ ~s.outer /\ supervisor' = s /\ UNCHANGED <<proc, pipes, winFaults>>
     \/ /\ s.outer /\ Well /\ supervisor' = [s EXCEPT !.outerOk = TRUE]
        /\ proc' = Doomed(InOuter) /\ query' = <<>> /\ ack' = <<>> /\ report' = <<>>
     \/ s.outer /\ WinFault /\ supervisor' = [s EXCEPT !.failed = TRUE] /\ UNCHANGED <<proc, pipes>>
  /\ UNCHANGED <<case, clock, controller, observer>>

Awaited(p) == supervisor.outerOk /\ p \in supervisor.verified /\ p # "canary"

TerminateRole(p) ==
  /\ supervisor.at = "terminate" /\ p \in supervisor.todo
  /\ \A m, n \in 1..3 : Created[n] = p /\ m < n => Created[m] \notin supervisor.todo
  /\ LET s == [supervisor EXCEPT !.todo = @ \ {p}] IN
     \/ /\ Well /\ supervisor' = s
        /\ proc' = IF Lives(p) /\ ~Awaited(p) THEN Doomed({p}) ELSE proc
     \/ WinFault /\ supervisor' = [s EXCEPT !.failed = TRUE] /\ UNCHANGED proc
  /\ UNCHANGED <<case, clock, query, ack, report, controller, observer>>

(* The last of it: UNKNOWN, unless all was cleaned and the protocol held.  *)
Result(s) == [s EXCEPT !.at = "result", !.valid = @ /\ ~s.failed,
                       !.outcome = IF s.cleaned /\ s.valid /\ ~s.failed THEN @ ELSE "UNKNOWN"]

Signaled == \A p \in supervisor.retained : ~Lives(p)
Empty == \A p \in Processes : ~Lives(p)

(* Once every process has signaled, its handles go; once no owned job has  *)
(* a member, the jobs and the pins.                                        *)
AwaitAll ==
  /\ supervisor.at = "terminate" /\ supervisor.todo = {}
  /\ LET s == [supervisor EXCEPT !.retained = IF Signaled THEN {} ELSE @] IN
     \/ /\ Well
        /\ IF Signaled /\ Empty /\ ~s.failed
           THEN supervisor' = Result([s EXCEPT !.cleaned = TRUE])
           ELSE /\ s.failed \/ s.aborted \/ clock >= Deadline + Overtime \/ s # supervisor
                /\ supervisor' = IF s.failed \/ s.aborted \/ clock >= Deadline + Overtime
                                 THEN Result(s) ELSE s
     \/ WinFault /\ supervisor' = Result([supervisor EXCEPT !.failed = TRUE])
  /\ UNCHANGED <<case, clock, proc, query, ack, report, controller, observer>>

(* abort_owned_once: one round of a cleanup that has not begun.            *)
Interrupted ==
  /\ supervisor.at # "result" /\ WinFault
  /\ LET s == [supervisor EXCEPT !.aborted = TRUE, !.outcome = "UNKNOWN", !.valid = FALSE] IN
     supervisor' = IF s.at = "terminate" THEN Result(s) ELSE [s EXCEPT !.at = "outer"]
  /\ UNCHANGED <<case, clock, proc, query, ack, report, controller, observer>>

(* With its process goes the last handle of every job: nothing is left.   *)
JobNext ==
  /\ supervisor.at # "result"
  /\ \/ Prepare \/ ResumeTarget \/ SeenLive \/ Intend \/ StopTarget \/ Garbage
     \/ Bind1 \/ SeeRunning \/ Relay \/ SeeExit \/ SeeControl
     \/ Setup \/ Launch \/ ResumeRole \/ Poll \/ TerminateOuter \/ AwaitAll \/ Interrupted
     \/ \E p \in Processes : Dies(p) \/ EndsItself(p) \/ RoleFails(p) \/ TerminateRole(p)
     \/ Passes

JobSpec == JobInit /\ [][JobNext]_jobVars

-----------------------------------------------------------------------------
(* The target runs only after the observer holds it; a qualification says  *)
(* that cleanup is confirmed only when nothing it created lives; and that  *)
(* an exit was early only if the target had been seen to run before the    *)
(* intervention, is dead, the outside canary lived and, where a human stop *)
(* was the case, it had been stored.                                       *)
VerdictIsObserved ==
  /\ proc["target"] = "running" => observer.at \in {"resume", "watch"}
  /\ supervisor.cleaned => \A p \in Processes : ~Lives(p)
  /\ supervisor.outcome = "EARLY" =>
       /\ observer.live < supervisor.intervention /\ proc["target"] = "dead" /\ supervisor.canary
       /\ Human => controller.durable
  /\ supervisor.outcome = "CONTROL" => observer.live + Control <= clock /\ supervisor.canary
  /\ supervisor.at = "result" /\ supervisor.outcome # "UNKNOWN" => supervisor.cleaned
=============================================================================
