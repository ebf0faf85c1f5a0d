----------------------------- MODULE NativeStop -----------------------------
(***************************************************************************)
(* The durable stop latch and the run that demonstrates it                 *)
(* (experiments/counter_ai_v2/native_demo.py): one run launches a canary   *)
(* and two targets in private cgroups, stops them, and reports; checkers   *)
(* are fresh controllers that try to launch over the same state file.      *)
(***************************************************************************)
EXTENDS Naturals, Sequences

CONSTANTS
  Others,         \* checkers that an operator runs; the run has one of its own
  AdmissionFaults \* bound: store writes that fail

ASSUME NativeAssumption == Others \cap {"free", "demo"} = {} /\ AdmissionFaults \in Nat

VARIABLES
  store,          \* the admission file
  marks,          \* which of the .pending, .transition and .failed files stand beside it
  writer,         \* who has the writer lock
  checker,        \* each checker
  place, sub,     \* the run: its place in Script, and in a stop or a reset
  failed, errors, \* an exception is under way; cleanup_errors
  leader, child,  \* the workload of each role and its descendant
  cgroup, members, \* the cgroup of each role, and who is in it
  bound, gates,   \* identities known, gates released
  result,
  barred,         \* history: a stop was armed, and no reset came since
  admissionFaults

demoVars == <<place, sub, failed, errors, bound, result>>
workVars == <<leader, child, cgroup, members, gates>>
nativeVars == <<store, marks, writer, checker, demoVars, workVars, barred, admissionFaults>>

Roles == {"canary", "target", "second"}
Own == "own"
Checkers == Others \cup {Own}
Demo == "demo"

Ops(names, r) == [i \in DOMAIN names |-> <<names[i], r>>]
LaunchOps == <<"spawn", "bind", "cell", "attach">>
Locked(op) == <<"lock", op, "unlock">>
Kill == <<"kill", "cellEmpty", "groupEmpty">>

(* Mutant: the gate opens before the workload is in its cgroup.            *)
ReservedOpen ==
  <<"lock", "reserve", "spawn", "bind", "gate", "cell", "attach", "mark", "unlock", "report">>

Reserved == <<"lock", "reserve">> \o LaunchOps \o <<"mark", "gate", "unlock", "report">>
StoppedOps == Locked("stop") \o Kill \o Locked("stopped")

Body1 == Ops(LaunchOps \o <<"gate", "report">>, "canary")
         \o Ops(Reserved \o StoppedOps \o <<"probe", "check", "checked", "reload">> \o Locked("reset"), "target")
Body2 == Ops(Reserved \o StoppedOps, "second")
Inner == Ops(<<"clean", "reap">>, "second")
Body3 == Ops(Locked("stop") \o Kill \o <<"reload", "pass">>, "canary")
Ending == <<<<"recover", "none">>, <<"latch", "none">>>>
        \o Ops(<<"clean">>, "target") \o Ops(<<"clean">>, "canary")
        \o Ops(<<"reap">>, "target") \o Ops(<<"reap">>, "canary") \o <<<<"result", "none">>>>
Script == Body1 \o Body2 \o Inner \o Body3 \o Ending
InnerAt == Len(Body1 \o Body2) + 1
LastAt == Len(Body1 \o Body2 \o Inner \o Body3) + 1

(* Where an exception raised at i is dealt with, and where i goes on to.   *)
Handler(i) == IF i > Len(Body1) /\ i < InnerAt THEN InnerAt ELSE LastAt
Onward(i) == IF failed /\ i = InnerAt + 1 THEN LastAt ELSE i + 1

NativeInit ==
  /\ store = [mode |-> "OPEN", active |-> "none", gen |-> 1] /\ marks = {} /\ writer = "free"
  /\ checker = [c \in Checkers |-> [pc |-> "idle", saw |-> store, code |-> 0]]
  /\ place = 1 /\ sub = "none" /\ failed = FALSE /\ errors = FALSE
  /\ leader = [r \in Roles |-> "none"] /\ child = leader /\ cgroup = leader
  /\ members = {} /\ bound = {} /\ gates = {}
  /\ result = "none" /\ barred = FALSE /\ admissionFaults = 0

-----------------------------------------------------------------------------
(* The workload: it waits for its gate before it has a descendant, which   *)
(* is then where its leader is; it may end by itself.                      *)
Forks(r) ==
  /\ leader[r] = "live" /\ r \in gates /\ child[r] = "none"
  /\ child' = [child EXCEPT ![r] = "live"]
  /\ members' = IF <<r, "leader">> \in members THEN members \cup {<<r, "child">>} ELSE members
  /\ UNCHANGED <<store, marks, writer, checker, demoVars, leader, cgroup, gates, barred,
                 admissionFaults>>

Gone(r) ==
  /\ \/ leader[r] \in {"live", "dying"} /\ leader' = [leader EXCEPT ![r] = "dead"] /\ UNCHANGED child
     \/ child[r] \in {"live", "dying"} /\ child' = [child EXCEPT ![r] = "dead"] /\ UNCHANGED leader
  /\ UNCHANGED <<store, marks, writer, checker, demoVars, cgroup, members, gates, barred,
                 admissionFaults>>

Over(state) == state \in {"none", "dead"}
CellEmpty(r) == /\ <<r, "leader">> \in members => Over(leader[r])
                /\ <<r, "child">> \in members => Over(child[r])
GroupEmpty(r) == Over(leader[r]) /\ Over(child[r])

-----------------------------------------------------------------------------
(* _load refuses a state that a write, a transition or a failure left marked. *)
Loads == marks = {}

(* _atomic_write: `new' is in place, or the write fails before or after the *)
(* replacement; .failed is left if it can be.                               *)
Written(new) == store' = new /\ UNCHANGED <<marks, admissionFaults>>
WriteFails(new) ==
  /\ admissionFaults < AdmissionFaults /\ admissionFaults' = admissionFaults + 1
  /\ \/ store' = new /\ marks' = marks \cup {"failed"}
     \/ store' = store /\ marks' \in {marks, marks \cup {"failed"}, marks \cup {"pending"},
                                      marks \cup {"pending", "failed"}}

Enters(c) == writer = "free" /\ writer' = c

-----------------------------------------------------------------------------
Go == place' = Onward(place) /\ sub' = "none" /\ UNCHANGED failed
Raise == /\ place < LastAt /\ place' = Handler(place) /\ sub' = "none" /\ failed' = TRUE
         /\ writer' = IF writer = Demo THEN "free" ELSE writer
Op(name, r) == place \in DOMAIN Script /\ Script[place] = <<name, r>>

LockStep(r) ==
  /\ Op("lock", r) /\ Enters(Demo) /\ Go
  /\ UNCHANGED <<store, marks, checker, errors, bound, result, workVars, barred, admissionFaults>>

UnlockStep(r) ==
  /\ Op("unlock", r) /\ writer' = "free" /\ Go
  /\ UNCHANGED <<store, marks, checker, errors, bound, result, workVars, barred, admissionFaults>>

(* A write of the run under its lock: done, or an exception.               *)
Writes(new) ==
  \/ Written(new) /\ Go /\ UNCHANGED writer
  \/ WriteFails(new) /\ Raise

Reserve(r) ==
  /\ Op("reserve", r)
  /\ IF Loads /\ store.mode = "OPEN" /\ store.active = "none"
     THEN Writes([store EXCEPT !.active = "pending"])
     ELSE Raise /\ UNCHANGED <<store, marks, admissionFaults>>
  /\ UNCHANGED <<checker, errors, bound, result, workVars, barred>>

MarkActive(r) ==
  /\ Op("mark", r)
  /\ IF Loads /\ store.active = "pending" THEN Writes([store EXCEPT !.active = r])
     ELSE Raise /\ UNCHANGED <<store, marks, admissionFaults>>
  /\ UNCHANGED <<checker, errors, bound, result, workVars, barred>>

MarkStopped(r) ==
  /\ Op("stopped", r)
  /\ IF Loads /\ store.mode = "STOP_LATCHED" THEN Writes([store EXCEPT !.active = "none"])
     ELSE Raise /\ UNCHANGED <<store, marks, admissionFaults>>
  /\ UNCHANGED <<checker, errors, bound, result, workVars, barred>>

(* The observation that a root reset asks for was made at "probe".         *)
ResetStop(r) ==
  /\ Op("reset", r)
  /\ \/ /\ Loads /\ store.mode = "STOP_LATCHED" /\ store.active = "none"
        /\ Writes([mode |-> "OPEN", active |-> "none", gen |-> store.gen + 1])
        /\ barred' = (store'.mode # "OPEN" /\ barred)
     \/ /\ ~(Loads /\ store.mode = "STOP_LATCHED" /\ store.active = "none")
        /\ Raise /\ UNCHANGED <<store, marks, admissionFaults, barred>>
  /\ UNCHANGED <<checker, errors, bound, result, workVars>>

(* request_stop: the intent is armed before the state is replaced and      *)
(* cleared after it.                                                       *)
Stopping(r) == Op("stop", r) \/ (Op("latch", "none") /\ r = "none")

(* What an exception in a stop does: cleanup_errors in the last one.       *)
StopRaises ==
  IF place < LastAt THEN Raise /\ UNCHANGED errors
  ELSE place' = place + 1 /\ sub' = "none" /\ writer' = "free" /\ errors' = TRUE /\ UNCHANGED failed
StopEnds == /\ IF place < LastAt THEN Go /\ UNCHANGED writer
               ELSE place' = place + 1 /\ sub' = "none" /\ writer' = "free" /\ UNCHANGED failed
            /\ UNCHANGED errors

Latched == [store EXCEPT !.mode = "STOP_LATCHED"]

(* Mutant: the stop is written without an intent armed before it.          *)
ArmNothing ==
  /\ sub = "none"
  /\ IF ~Loads THEN StopRaises /\ UNCHANGED <<store, marks, barred, admissionFaults>>
     ELSE IF store.mode = "STOP_LATCHED" THEN StopEnds /\ UNCHANGED <<store, marks, barred,
                                                                      admissionFaults>>
     ELSE /\ barred' = TRUE /\ sub' = "armed"
          /\ UNCHANGED <<store, marks, writer, place, failed, errors, admissionFaults>>

(* _write_transition_marker                                                *)
Arm ==
  /\ sub = "none"
  /\ IF ~Loads THEN StopRaises /\ UNCHANGED <<store, marks, barred, admissionFaults>>
     ELSE IF store.mode = "STOP_LATCHED" THEN StopEnds /\ UNCHANGED <<store, marks, barred,
                                                                      admissionFaults>>
     ELSE \/ /\ marks' = {"transition"} /\ barred' = TRUE /\ sub' = "armed"
             /\ UNCHANGED <<store, writer, place, failed, errors, admissionFaults>>
          \/ /\ admissionFaults < AdmissionFaults /\ admissionFaults' = admissionFaults + 1
             /\ marks' \in {{}, {"transition"}} /\ StopRaises /\ UNCHANGED <<store, barred>>

Latch ==
  /\ sub = "armed"
  /\ \/ Written(Latched) /\ sub' = "latched" /\ UNCHANGED <<writer, place, failed, errors>>
     \/ WriteFails(Latched) /\ StopRaises
  /\ UNCHANGED barred

(* _clear_transition_marker: what fails after the unlink leaves no marker.  *)
Disarm ==
  /\ sub = "latched"
  /\ \/ marks' = marks \ {"transition"} /\ StopEnds /\ UNCHANGED admissionFaults
     \/ /\ admissionFaults < AdmissionFaults /\ admissionFaults' = admissionFaults + 1
        /\ marks' \in {marks, marks \ {"transition"}} /\ StopRaises
  /\ UNCHANGED <<store, barred>>

RequestStop(r) ==
  /\ Stopping(r) /\ (Arm \/ Latch \/ Disarm)
  /\ UNCHANGED <<checker, bound, result, workVars>>

(* The last stop takes the lock like any other.                            *)
Recover ==
  /\ Op("recover", "none") /\ Enters(Demo) /\ place' = place + 1
  /\ UNCHANGED <<store, marks, checker, sub, failed, errors, bound, result, workVars, barred,
                 admissionFaults>>

-----------------------------------------------------------------------------
(* The steps on processes and cgroups: each is done, or raises.            *)
Step(op, r, done) ==
  /\ Op(op, r)
  /\ \/ done /\ Go /\ UNCHANGED writer
     \/ Raise /\ UNCHANGED <<checker, bound, workVars>>
  /\ UNCHANGED <<store, marks, errors, result, barred, admissionFaults>>

Sees(op, r, what) == Step(op, r, what /\ UNCHANGED <<checker, bound, workVars>>)

(* cgroup.kill: those of a process kind who are in the cgroup of r.        *)
Doom(state, kind, r) ==
  IF <<r, kind>> \in members /\ state[r] = "live" THEN [state EXCEPT ![r] = "dying"] ELSE state

Spawned(r) == leader' = [leader EXCEPT ![r] = "live"] /\ UNCHANGED <<checker, bound, child, cgroup, members, gates>>
Known(r) == leader[r] = "live" /\ bound' = bound \cup {r} /\ UNCHANGED <<checker, workVars>>
Made(r) == cgroup' = [cgroup EXCEPT ![r] = "made"] /\ UNCHANGED <<checker, bound, leader, child, members, gates>>
Attached(r) ==
  members' = members \cup {<<r, "leader">>} /\ UNCHANGED <<checker, bound, leader, child, cgroup, gates>>
Opened(r) == gates' = gates \cup {r} /\ UNCHANGED <<checker, bound, leader, child, cgroup, members>>
CellKilled(r) ==
  /\ leader' = Doom(leader, "leader", r) /\ child' = Doom(child, "child", r)
  /\ UNCHANGED <<checker, bound, cgroup, members, gates>>
CheckerStarted == checker' = [checker EXCEPT ![Own].pc = "start"] /\ UNCHANGED <<bound, workVars>>

(* The external observer: a process that reads the cgroup and the group.   *)
ExternallyEmpty(r) == CellEmpty(r) /\ GroupEmpty(r)

Work(r) ==
  \/ Step("spawn", r, Spawned(r)) \/ Step("bind", r, Known(r)) \/ Step("cell", r, Made(r))
  \/ Step("attach", r, Attached(r)) \/ Step("gate", r, Opened(r)) \/ Step("kill", r, CellKilled(r))
  \/ Step("check", r, CheckerStarted)
  \/ Sees("report", r, child[r] # "none")
  \/ Sees("cellEmpty", r, CellEmpty(r)) \/ Sees("groupEmpty", r, GroupEmpty(r))
  \/ Sees("probe", r, ExternallyEmpty(r))
  \/ Sees("reload", r, Loads) \/ Sees("pass", r, TRUE)

(* The run waits for its checker: the exact refusal, or an exception.      *)
Checked(r) ==
  /\ Op("checked", r)
  /\ \/ /\ checker[Own].pc = "end" /\ checker[Own].code = 0 /\ checker[Own].saw.gen = store.gen
        /\ Go /\ UNCHANGED writer
     \/ checker[Own].pc = "end" /\ Raise
  /\ UNCHANGED <<store, marks, checker, errors, bound, result, workVars, barred, admissionFaults>>

-----------------------------------------------------------------------------
Proceed(error) == place' = Onward(place) /\ errors' = (errors \/ error) /\ UNCHANGED <<sub, failed>>

(* _cleanup_cgroup: census, kill, wait, removal.                           *)
Clean(r) ==
  /\ Op("clean", r)
  /\ \/ cgroup[r] = "none" /\ Proceed(FALSE) /\ UNCHANGED <<leader, child, cgroup>>
     \/ /\ cgroup[r] = "made"
        /\ leader' = [leader EXCEPT ![r] = IF <<r, "leader">> \in members THEN "dead" ELSE @]
        /\ child' = [child EXCEPT ![r] = IF <<r, "child">> \in members THEN "dead" ELSE @]
        /\ cgroup' = [cgroup EXCEPT ![r] = "gone"] /\ \E e \in BOOLEAN : Proceed(e)
     \/ /\ cgroup[r] = "made" /\ Proceed(TRUE) /\ UNCHANGED <<leader, child, cgroup>>
  /\ UNCHANGED <<store, marks, writer, checker, bound, result, members, gates, barred, admissionFaults>>

(* What is left of the leader is waited for; only one that a cgroup never  *)
(* owned, or that outlived its cgroup's kill, is signalled by its group.   *)
Reap(r) ==
  /\ Op("reap", r)
  /\ LET terminated == /\ leader' = [leader EXCEPT ![r] = "dead"]
                       /\ child' = [child EXCEPT ![r] = IF @ = "none" THEN @ ELSE "dead"]
         kept == UNCHANGED <<leader, child>> IN
     \/ Over(leader[r]) /\ Proceed(FALSE) /\ kept
     \/ ~Over(leader[r]) /\ cgroup[r] # "none" /\ Proceed(TRUE) /\ (kept \/ (r \in bound /\ terminated))
     \/ ~Over(leader[r]) /\ cgroup[r] = "none" /\ r \in bound
        /\ \/ Proceed(FALSE) /\ terminated
           \/ Proceed(TRUE) /\ kept
     \/ ~Over(leader[r]) /\ cgroup[r] = "none" /\ r \notin bound /\ Proceed(FALSE) /\ kept
  /\ UNCHANGED <<store, marks, writer, checker, bound, result, cgroup, members, gates, barred,
                 admissionFaults>>

(* A pass without errors, and with the canary's evidence, or UNKNOWN.      *)
Report ==
  /\ Op("result", "none") /\ result = "none"
  /\ result' \in IF failed \/ errors THEN {"UNKNOWN"} ELSE {"PASS", "UNKNOWN"}
  /\ UNCHANGED <<store, marks, writer, checker, place, sub, failed, errors, bound, workVars, barred,
                 admissionFaults>>

(* The run is killed: the kernel frees its lock, and nothing else happens. *)
RunKilled ==
  /\ place > 0 /\ place' = 0 /\ writer' = IF writer = Demo THEN "free" ELSE writer
  /\ \/ UNCHANGED marks
     \/ /\ writer = Demo /\ place \in DOMAIN Script /\ marks' = marks \cup {"pending"}
        /\ \/ Script[place][1] \in {"reserve", "mark", "stopped", "reset"} /\ marks = {}
           \/ sub = "armed"
  /\ UNCHANGED <<store, checker, sub, failed, errors, bound, result, workVars, barred, admissionFaults>>

-----------------------------------------------------------------------------
(* A fresh controller: it loads the state, and tries to reserve a launch   *)
(* under the lock, where it loads it again.                                *)
CheckStart(c) ==
  /\ checker[c].pc = IF c = Own THEN "start" ELSE "idle"
  /\ checker' = [checker EXCEPT ![c] = IF Loads THEN [pc |-> "wait", saw |-> store, code |-> 0]
                                       ELSE [pc |-> "end", saw |-> store, code |-> 2]]
  /\ UNCHANGED <<store, marks, writer, demoVars, workVars, barred, admissionFaults>>

CheckLock(c) ==
  /\ checker[c].pc = "wait" /\ Enters(c) /\ checker' = [checker EXCEPT ![c].pc = "in"]
  /\ UNCHANGED <<store, marks, demoVars, workVars, barred, admissionFaults>>

RefusedCode(s) == IF s.mode = "STOP_LATCHED" /\ s.active = "none" THEN 0 ELSE 2

(* Mutant: the state of the construction is used under the lock.           *)
CheckReserveStale(c) ==
  /\ checker[c].pc = "in" /\ writer' = "free"
  /\ LET s == checker[c].saw  new == [store EXCEPT !.mode = s.mode, !.active = "pending"] IN
     IF s.mode = "OPEN" /\ s.active = "none"
     THEN Written(new) /\ checker' = [checker EXCEPT ![c].pc = "end", ![c].code = 1]
     ELSE /\ checker' = [checker EXCEPT ![c].pc = "end", ![c].code = RefusedCode(s)]
          /\ UNCHANGED <<store, marks, admissionFaults>>
  /\ UNCHANGED <<demoVars, workVars, barred>>

CheckReserve(c) ==
  /\ checker[c].pc = "in" /\ writer' = "free"
  /\ LET s == IF Loads THEN store ELSE checker[c].saw
         new == [store EXCEPT !.active = "pending"]
         ends(code) == checker' = [checker EXCEPT ![c] = [pc |-> "end", saw |-> s, code |-> code]] IN
     IF Loads /\ store.mode = "OPEN" /\ store.active = "none"
     THEN (Written(new) /\ ends(1)) \/ (WriteFails(new) /\ ends(2))
     ELSE ends(RefusedCode(s)) /\ UNCHANGED <<store, marks, admissionFaults>>
  /\ UNCHANGED <<demoVars, workVars, barred>>

NativeNext ==
  \/ \E r \in Roles \cup {"none"} :
       \/ LockStep(r) \/ UnlockStep(r) \/ Reserve(r) \/ MarkActive(r) \/ MarkStopped(r) \/ ResetStop(r)
       \/ RequestStop(r) \/ Checked(r)
  \/ \E r \in Roles : Forks(r) \/ Gone(r) \/ Work(r) \/ Clean(r) \/ Reap(r)
  \/ Recover \/ Report \/ RunKilled
  \/ \E c \in Checkers : CheckStart(c) \/ CheckLock(c) \/ CheckReserve(c)

NativeSpec == NativeInit /\ [][NativeNext]_nativeVars

-----------------------------------------------------------------------------
(* Once a stop's intent is armed no controller, fresh or old, reserves a   *)
(* launch before a reset, whichever write of the stop failed or was cut    *)
(* short; a reset finds what was stopped dead; and no second target runs   *)
(* beside a first.                                                         *)
StopIsFinal ==
  /\ [][store.active # "pending" /\ store'.active = "pending" => ~barred]_nativeVars
  /\ [][store.mode # "OPEN" /\ store'.mode = "OPEN" => GroupEmpty("target") /\ GroupEmpty("second")]_nativeVars
  /\ [](GroupEmpty("target") \/ GroupEmpty("second"))

(* What the run reports is so: a pass means that every process and cgroup  *)
(* it made is gone and launches are barred, and a cleanup without errors   *)
(* that nothing it had identified is left.                                 *)
ReportIsTrue ==
  /\ result = "PASS" => /\ \A r \in Roles : GroupEmpty(r) /\ cgroup[r] # "made"
                        /\ store.mode = "STOP_LATCHED" /\ store.active = "none" /\ Loads
  /\ result # "none" /\ ~errors =>
       \A r \in Roles : cgroup[r] # "made" /\ (r \in bound => GroupEmpty(r))

(* Both: what a stop bars, and what the run says of it.                    *)
StopHolds == StopIsFinal /\ []ReportIsTrue
=============================================================================
