------------------------------ MODULE Lockdown ------------------------------
(***************************************************************************)
(* What the supervisor does after a kill                                   *)
(* (src/src/lumi_eggcracker/supervisor.py, incidents.py, approvals.py,     *)
(* launches.py): it records an incident, revokes the approval the workload *)
(* was launched under, refuses the same command until root clears the      *)
(* incident, and sweeps the machine for recurrences.                       *)
(*                                                                         *)
(* The response runs on the thread that made the kill, beside the serving  *)
(* thread (start, kill, approve, revoke, acknowledge, clear), the scan of  *)
(* the detector, and other responses.  It is guarded by four locks: the    *)
(* run's lock, approval_lock, incident_response_lock, incident_sweep_lock. *)
(* How one run is contained is the subject of RunLifecycle; here a run is  *)
(* only alive or not, and indexed as active or not.                        *)
(***************************************************************************)
EXTENDS Naturals, FiniteSets

CONSTANTS
  Runs, Names, Argvs,   \* runs, names of approvals, digests of commands
  Exes, Profiles,       \* digests of executables, profiles of the detector
  Protected,            \* the runs that show the detector evidence of AI
  NoApproval, NoRun, Nobody, NoExe, NoProfile,
  MaxIncidents,         \* MAX_INCIDENTS
  MaxTime,              \* bound on the approvals created
  MaxCrashes,           \* bound on restarts
  Faults                \* the faults that may happen, of FaultKinds

(* A write that fails, a process that outlives a kill, a launch that fails,*)
(* an executable that cannot be read.                                      *)
FaultKinds == {"write", "survivors", "launch", "digest"}

(* The watcher or exec listener of a run, and the enforcement worker.      *)
Responders == Runs \X {"guard", "worker"}

ASSUME LockdownAssumption ==
  /\ Protected \subseteq Runs /\ NoRun \notin Runs /\ Nobody \notin Responders
  /\ Argvs # {} /\ Exes # {} /\ Profiles # {}
  /\ NoExe \notin Exes /\ NoProfile \notin Profiles
  /\ MaxIncidents \in Nat \ {0} /\ MaxTime \in Nat /\ MaxCrashes \in Nat
  /\ Faults \subseteq FaultKinds

Approval == [name : Names, argv : Argvs, exe : Exes, made : Nat \ {0}]

ASSUME ApprovalAssumption == NoApproval \notin Approval

(* An incident file is named for the event that caused it, so for the      *)
(* responder that contained the run.  "none" is the state of no file.      *)
IncidentStates == {"none", "ACTIVE", "ACKNOWLEDGED", "CLEARED"}
InForce == {"ACTIVE", "ACKNOWLEDGED"}

(* What a run shows the detector beside its command, and what an incident  *)
(* holds of that: the executable is unknown when its digest is all zeros,  *)
(* and a guard knows no profile.                                           *)
Shown == [exe : Exes, profile : Profiles]
Identity == [exe : Exes \cup {NoExe}, profile : Profiles \cup {NoProfile}]
Incident == [state : IncidentStates, approval : Approval \cup {NoApproval},
             match : Identity, made : Nat, done : BOOLEAN]

VARIABLES
  \* durable
  approvals,   \* approvals[n]: the approval stored under a name
  incidents,   \* incidents[i]: state, approval, identity, ...
  prov,        \* prov[r]: the approval in the run's launch provenance
  receipts,    \* runs with a published kill or detection receipt
  now,         \* the monotonic clock that stamps approvals and incidents
  \* runs
  run,         \* run[r]: does it live, and is it in the admission index
  argv,        \* argv[r]: its command
  shows,       \* shows[r]: its executable, and the profile it matches
  admitted,    \* admitted[r]: the approval its start was admitted under
  \* supervisor
  healthy,     \* incident_health_healthy
  main, cur,   \* the serving thread
  lock,        \* runs whose lock is held by their guard
  inclock,     \* who holds incident_response_lock
  sweeper,     \* who holds incident_sweep_lock, with incident_sweep_active
  pc, took,    \* the responders, and the approval each captured
  scan, todo, inline,
  crashes

stored == <<approvals, incidents, prov, receipts, now>>
runs   == <<run, argv, shows, admitted>>
locks  == <<lock, inclock, sweeper>>
server == <<main, cur>>
scans  == <<scan, todo, inline>>
vars   == <<stored, runs, healthy, server, locks, pc, took, scans, crashes>>

Guard(r) == <<r, "guard">>
Worker(r) == <<r, "worker">>

(* "survivor": contained without success, so dropped from the index while  *)
(* a process lives; "dead": gone, and its record is still active.          *)
RunStates == {"none", "live", "survivor", "dead", "ended"}
Alive == {r \in Runs : run[r] \in {"live", "survivor"}}
Indexed == {r \in Runs : run[r] \in {"live", "dead"}}

Starting == {"matching", "admitted", "launched", "recorded", "released"}
Steps == {"idle", "kill", "capture", "mark", "receipt", "respond", "load", "unlink",
          "update", "check", "wait", "count", "sweep", "done"}
Scanners == {"loop", "sweep"}
NoView == [run |-> NoRun, ok |-> FALSE]
NoIdentity == [exe |-> NoExe, profile |-> NoProfile]
NoIncident ==
  [state |-> "none", approval |-> NoApproval, match |-> NoIdentity, made |-> 0, done |-> FALSE]

Init ==
  /\ approvals = [n \in Names |-> NoApproval]
  /\ incidents = [i \in Responders |-> NoIncident]
  /\ prov = [r \in Runs |-> NoApproval] /\ receipts = {} /\ now = 0
  /\ run = [r \in Runs |-> "none"] /\ argv \in [Runs -> Argvs]
  /\ shows \in [Runs -> Shown]
  /\ admitted = [r \in Runs |-> NoApproval]
  /\ healthy = TRUE /\ main = "idle" /\ cur = NoRun
  /\ lock = {} /\ inclock = Nobody /\ sweeper = Nobody
  /\ pc = [i \in Responders |-> "idle"] /\ took = [i \in Responders |-> NoApproval]
  /\ scan = [s \in Scanners |-> NoView] /\ todo = {} /\ inline = NoRun
  /\ crashes = 0

-----------------------------------------------------------------------------
(* incidents.py.  What is known of an executable or a profile on both      *)
(* sides must agree, but an unknown executable fits no known one; a start  *)
(* asks for its command alone.  A store above its capacity drops the       *)
(* oldest cleared incidents, and no others.                                *)

Fits(q, m) ==
  m.exe \in {NoExe, q.exe} /\ (q.profile = NoProfile \/ m.profile \in {NoProfile, q.profile})

Matches(a, q, j) ==
  incidents[j].state \in InForce /\ argv[j[1]] = a /\ Fits(q, incidents[j].match)

Locked(a) == \E i \in Responders : incidents[i].state \in InForce /\ argv[i[1]] = a
LockedFor(r) == \E i \in Responders : Matches(argv[r], shows[r], i)

Files(inc) == {i \in Responders : inc[i].state # "none"}
Cleared(inc) == {i \in Responders : inc[i].state = "CLEARED"}
Excess(inc) == Cardinality(Files(inc)) - MaxIncidents
CanCompact(inc) == Cardinality(Cleared(inc)) >= Excess(inc)

Oldest(inc) ==
  {i \in Cleared(inc) :
     Cardinality({j \in Cleared(inc) : inc[j].made < inc[i].made}) < Excess(inc)}

(* Faulty variant: the oldest incidents are dropped, cleared or not.       *)
CompactAny(inc) ==
  [i \in Responders |->
     IF i \in Files(inc) /\ Cardinality({j \in Files(inc) : inc[j].made < inc[i].made}) < Excess(inc)
       THEN NoIncident ELSE inc[i]]

Compact(inc) == [i \in Responders |-> IF i \in Oldest(inc) THEN NoIncident ELSE inc[i]]

-----------------------------------------------------------------------------
(* Requests of the serving thread.  Those that read the incident store     *)
(* wait for incident_response_lock and fail when the store is unhealthy.   *)

Request == main = "idle" /\ healthy /\ inclock = Nobody
NotRequest == UNCHANGED <<healthy, locks, pc, took, scans, crashes>>

(* Faulty variant: the edit does not wait for the incident store.          *)
EditAnytime ==
  /\ main = "idle" /\ healthy /\ main' = "editing"
  /\ UNCHANGED <<stored, runs, cur>> /\ NotRequest

(* The health check of approve and revoke precedes the edit.               *)
Edit ==
  /\ Request /\ main' = "editing"
  /\ UNCHANGED <<stored, runs, cur>> /\ NotRequest

Approve(n, a, e) ==
  /\ main = "editing" /\ approvals[n] = NoApproval /\ now < MaxTime
  /\ now' = now + 1
  /\ approvals' = [approvals EXCEPT ![n] = [name |-> n, argv |-> a, exe |-> e, made |-> now + 1]]
  /\ main' = "idle"
  /\ UNCHANGED <<incidents, prov, receipts, runs, cur>> /\ NotRequest

Revoke(n) ==
  /\ main = "editing" /\ approvals[n] # NoApproval
  /\ approvals' = [approvals EXCEPT ![n] = NoApproval]
  /\ main' = "idle"
  /\ UNCHANGED <<incidents, prov, receipts, now, runs, cur>> /\ NotRequest

(* A name that is taken, or that is not there.                             *)
EditRefused ==
  /\ main = "editing" /\ main' = "idle"
  /\ UNCHANGED <<stored, runs, cur>> /\ NotRequest

Acknowledge(i) ==
  /\ Request /\ incidents[i].state \in InForce
  /\ incidents' = [incidents EXCEPT ![i].state = "ACKNOWLEDGED"]
  /\ UNCHANGED <<approvals, prov, receipts, now, runs, server>> /\ NotRequest

Clear(i) ==
  /\ Request /\ incidents[i].state \in InForce
  /\ incidents' = [incidents EXCEPT ![i].state = "CLEARED"]
  /\ UNCHANGED <<approvals, prov, receipts, now, runs, server>> /\ NotRequest

(* The operator's kill waits for the run's lock; it has no response.       *)
Kill(r) ==
  /\ main = "idle" /\ r \in Indexed
  /\ main' = "killing" /\ cur' = r
  /\ UNCHANGED <<stored, runs>> /\ NotRequest

(* A run leaves the index and its provenance is removed (_store).          *)
EndRun(r, s) ==
  /\ run' = [run EXCEPT ![r] = s]
  /\ prov' = [prov EXCEPT ![r] = NoApproval]
  /\ UNCHANGED <<approvals, incidents, now, argv, shows, admitted>>

KillDone ==
  /\ main = "killing" /\ cur \notin lock
  /\ \/ run[cur] # "ended" /\ EndRun(cur, "ended")
     \/ run[cur] \in {"live", "survivor"} /\ "survivors" \in Faults /\ EndRun(cur, "survivor")
     \/ run[cur] = "ended" /\ UNCHANGED <<approvals, incidents, prov, now, runs>>
  /\ main' = "idle" /\ cur' = NoRun
  /\ UNCHANGED receipts /\ NotRequest

-----------------------------------------------------------------------------
(* _start: admission under approval_lock, held until the start returns.    *)

(* match_launch takes the first approval of the command and of what its    *)
(* executable is now; without one the start is refused, or goes on         *)
(* unapproved when no approval was asked for.                              *)
Matching(r) ==
  {n \in Names : /\ approvals[n] # NoApproval /\ approvals[n].argv = argv[r]
                 /\ approvals[n].exe = shows[r].exe}

Admissible(r) == Indexed = {} /\ run[r] = "none" /\ ~Locked(argv[r])

StartAdmit(r) ==
  /\ Request /\ Admissible(r)
  /\ main' = "matching" /\ cur' = r
  /\ UNCHANGED <<stored, runs>> /\ NotRequest

StartMatch ==
  /\ main = "matching" /\ main' = "admitted"
  /\ admitted' = [admitted EXCEPT ![cur] =
       IF Matching(cur) = {} THEN NoApproval
       ELSE approvals[CHOOSE n \in Matching(cur) : TRUE]]
  /\ UNCHANGED <<stored, run, argv, shows, cur>> /\ NotRequest

StartRefused ==
  /\ main = "matching" /\ Matching(cur) = {}
  /\ main' = "idle" /\ cur' = NoRun
  /\ UNCHANGED <<stored, runs>> /\ NotRequest

StartLaunch ==
  /\ main = "admitted"
  /\ run' = [run EXCEPT ![cur] = "live"] /\ main' = "launched"
  /\ UNCHANGED <<stored, argv, shows, admitted, cur>> /\ NotRequest

StartProvenance ==
  /\ main = "launched"
  /\ prov' = [prov EXCEPT ![cur] = admitted[cur]] /\ main' = "recorded"
  /\ UNCHANGED <<approvals, incidents, receipts, now, runs, cur>> /\ NotRequest

StartRelease ==
  /\ main = "recorded" /\ main' = "released"
  /\ UNCHANGED <<stored, runs, cur>> /\ NotRequest

StartReturn ==
  /\ main = "released" /\ main' = "idle" /\ cur' = NoRun
  /\ UNCHANGED <<stored, runs>> /\ NotRequest

(* The rollback removes the provenance and leaves the record active.       *)
StartFail ==
  /\ main \in {"launched", "recorded"} /\ "launch" \in Faults
  /\ run' = [run EXCEPT ![cur] = "dead"]
  /\ prov' = [prov EXCEPT ![cur] = NoApproval]
  /\ main' = "idle" /\ cur' = NoRun
  /\ UNCHANGED <<approvals, incidents, receipts, now, argv, shows, admitted>> /\ NotRequest

Started(r) == r = cur => main \in {"released", "killing"}

-----------------------------------------------------------------------------
(* The end of a run without a violation.                                   *)

NotEnd == UNCHANGED <<healthy, server, locks, pc, took, scans, crashes>>

Exit(r) ==
  /\ r \in Alive /\ Started(r)
  /\ run' = [run EXCEPT ![r] = IF @ = "live" THEN "dead" ELSE "ended"]
  /\ UNCHANGED <<stored, argv, shows, admitted>> /\ NotEnd

(* _mark_completed, refused while the detector contains the run.           *)
Complete(r) ==
  /\ run[r] = "dead" /\ r \notin lock /\ pc[Worker(r)] = "idle"
  /\ EndRun(r, "ended")
  /\ UNCHANGED receipts /\ NotEnd

-----------------------------------------------------------------------------
(* _contain for a network or execution boundary, on a guard of the run.    *)
(* It holds the run's lock to the end of its response.                     *)

Step(i, s) == pc' = [pc EXCEPT ![i] = s]
NotContain == UNCHANGED <<healthy, server, inclock, sweeper, scans, crashes>>

GuardTrip(r) ==
  /\ pc[Guard(r)] = "idle" /\ run[r] \in {"live", "dead", "survivor"} /\ Started(r)
  /\ r \notin lock
  /\ lock' = lock \cup {r}
  /\ took' = [took EXCEPT ![Guard(r)] = prov[r]]
  /\ Step(Guard(r), "kill")
  /\ UNCHANGED <<stored, runs>> /\ NotContain

GuardContained(r) ==
  /\ pc[Guard(r)] = "kill"
  /\ EndRun(r, "ended") /\ Step(Guard(r), "receipt")
  /\ UNCHANGED <<receipts, lock, took>> /\ NotContain

(* Survivors, or a unit collected before the kill: CONTAINMENT_FAILED.     *)
GuardFailed(r) ==
  /\ pc[Guard(r)] = "kill"
  /\ \/ r \in Alive /\ "survivors" \in Faults /\ EndRun(r, "survivor")
     \/ r \notin Alive /\ EndRun(r, "ended")
  /\ took' = [took EXCEPT ![Guard(r)] = NoApproval]
  /\ lock' = lock \ {r} /\ Step(Guard(r), "idle")
  /\ UNCHANGED receipts /\ NotContain

-----------------------------------------------------------------------------
(* _enforce_discovery on the detector's worker.                            *)

WorkerContained(r) ==
  /\ pc[Worker(r)] = "kill" /\ r \in Alive
  /\ run' = [run EXCEPT ![r] = IF @ = "live" THEN "dead" ELSE "ended"]
  /\ Step(Worker(r), "capture")
  /\ UNCHANGED <<stored, argv, shows, admitted, lock, took>> /\ NotContain

(* A containment of the run already under way is authoritative.            *)
WorkerYield(r) ==
  /\ pc[Worker(r)] = "kill" /\ pc[Guard(r)] = "kill"
  /\ Step(Worker(r), "idle")
  /\ UNCHANGED <<stored, runs, lock, took>> /\ NotContain

(* The roots vanished or survive: the run is marked under its lock.        *)
WorkerFailed(r) ==
  /\ pc[Worker(r)] = "kill" /\ r \notin lock
  /\ \/ r \in Alive /\ "survivors" \in Faults
     \/ r \notin Alive
  /\ IF r \in Indexed
       THEN EndRun(r, IF r \in Alive THEN "survivor" ELSE "ended")
       ELSE UNCHANGED <<approvals, incidents, prov, now, runs>>
  /\ Step(Worker(r), "idle")
  /\ UNCHANGED <<receipts, lock, took>> /\ NotContain

(* Captured before the record is stored, and without the run's lock.       *)
WorkerCapture(r) ==
  /\ pc[Worker(r)] = "capture"
  /\ took' = [took EXCEPT ![Worker(r)] = prov[r]] /\ Step(Worker(r), "mark")
  /\ UNCHANGED <<stored, runs, lock>> /\ NotContain

WorkerMark(r) ==
  /\ pc[Worker(r)] = "mark" /\ r \notin lock
  /\ EndRun(r, "ended") /\ Step(Worker(r), "receipt")
  /\ UNCHANGED <<receipts, lock, took>> /\ NotContain

-----------------------------------------------------------------------------
(* The receipt, then _post_containment_response, on either thread.         *)

NotRespond == UNCHANGED <<prov, runs, server, lock, took, scans, crashes>>

Publish(i) ==
  /\ pc[i] = "receipt"
  /\ \/ receipts' = receipts \cup {i[1]} /\ Step(i, "respond")
     \/ "write" \in Faults /\ Step(i, "done") /\ UNCHANGED receipts
  /\ UNCHANGED <<approvals, incidents, now, healthy, inclock, sweeper>> /\ NotRespond

(* Faulty variant: the lock is not released.                               *)
RespondFailLocked(i) ==
  /\ healthy' = FALSE /\ Step(i, "done")
  /\ UNCHANGED <<receipts, now, inclock, sweeper>> /\ NotRespond

(* An exception of the response fails health, and only that.               *)
RespondFail(i) ==
  /\ healthy' = FALSE /\ Step(i, "done") /\ inclock' = Nobody
  /\ UNCHANGED <<receipts, now, sweeper>> /\ NotRespond

(* The executable is that of the approval, or what the detector has read;  *)
(* a guard of an unapproved run knows none, and no guard knows a profile.  *)
Executables(i) ==
  IF took[i] # NoApproval THEN {took[i].exe}
  ELSE IF i[2] = "guard" THEN {NoExe}
  ELSE {shows[i[1]].exe} \cup {x \in {NoExe} : "digest" \in Faults}

Identities(i) ==
  {[exe |-> x, profile |-> IF i[2] = "guard" THEN NoProfile ELSE shows[i[1]].profile] :
     x \in Executables(i)}

(* A recurrence is linked to the incident it matches.                      *)
RespondLink(i) ==
  /\ pc[i] = "respond" /\ inclock = Nobody /\ healthy
  /\ \E m \in Identities(i), j \in Responders : Matches(argv[i[1]], m, j)
  /\ Step(i, "done")
  /\ UNCHANGED <<approvals, incidents, receipts, now, healthy, inclock, sweeper>>
  /\ NotRespond

Create(i, m) ==
  /\ now' = now + 1
  /\ incidents' = [incidents EXCEPT ![i] =
       [state |-> "ACTIVE", approval |-> took[i], match |-> m, made |-> now + 1, done |-> FALSE]]
  /\ inclock' = i /\ Step(i, "load")
  /\ UNCHANGED <<approvals, receipts, healthy, sweeper>> /\ NotRespond

(* Faulty variant: the incidents in force are not consulted.               *)
RespondCreateAlways(i) ==
  /\ pc[i] = "respond" /\ inclock = Nobody /\ healthy
  /\ \E m \in Identities(i) : Create(i, m)

RespondCreate(i) ==
  /\ pc[i] = "respond" /\ inclock = Nobody /\ healthy
  /\ \E m \in Identities(i) :
       (\A j \in Responders : ~Matches(argv[i[1]], m, j)) /\ Create(i, m)

(* The store is already unhealthy, or the link or the creation fails.      *)
RespondRefused(i) ==
  /\ pc[i] = "respond" /\ inclock = Nobody
  /\ ~healthy \/ "write" \in Faults
  /\ RespondFail(i) /\ UNCHANGED <<approvals, incidents>>

(* _revoke_exact_approval does not hold approval_lock: it loads, compares, *)
Taken(i) == approvals[took[i].name]

RespondLoad(i) ==
  /\ pc[i] = "load"
  /\ IF took[i] = NoApproval THEN Step(i, "update")
     ELSE \/ Taken(i) = NoApproval /\ Step(i, "update")
          \/ Taken(i) = took[i] /\ Step(i, "unlink")
  /\ UNCHANGED <<approvals, incidents, receipts, now, healthy, inclock, sweeper>>
  /\ NotRespond

(* refuses an approval of the same name that is not the affected one,      *)
RespondReplaced(i) ==
  /\ pc[i] = "load" /\ took[i] # NoApproval /\ Taken(i) \notin {NoApproval, took[i]}
  /\ RespondFail(i) /\ UNCHANGED <<approvals, incidents>>

(* Faulty variant: the approval is left in place.                          *)
RespondUnlinkNot(i) ==
  /\ pc[i] = "unlink" /\ Taken(i) # NoApproval
  /\ Step(i, "update")
  /\ UNCHANGED <<approvals, incidents, receipts, now, healthy, inclock, sweeper>>
  /\ NotRespond

(* and removes the file by its name, whatever it holds by then.            *)
RespondUnlink(i) ==
  /\ pc[i] = "unlink" /\ Taken(i) # NoApproval
  /\ approvals' = [approvals EXCEPT ![took[i].name] = NoApproval]
  /\ Step(i, "update")
  /\ UNCHANGED <<incidents, receipts, now, healthy, inclock, sweeper>> /\ NotRespond

RespondMissing(i) ==
  /\ pc[i] = "unlink" /\ Taken(i) = NoApproval
  /\ RespondFail(i) /\ UNCHANGED <<approvals, incidents>>

(* The incident is completed, and the store compacted if it is too full.   *)
Completed(i) == [incidents EXCEPT ![i].done = TRUE]

RespondUpdate(i) ==
  /\ pc[i] = "update" /\ CanCompact(Completed(i))
  /\ incidents' = Compact(Completed(i))
  /\ inclock' = Nobody /\ Step(i, "check")
  /\ UNCHANGED <<approvals, receipts, now, healthy, sweeper>> /\ NotRespond

RespondOverfull(i) ==
  /\ pc[i] = "update"
  /\ \/ ~CanCompact(Completed(i)) /\ incidents' = Completed(i)
     \/ "write" \in Faults /\ UNCHANGED incidents
  /\ RespondFail(i) /\ UNCHANGED approvals

-----------------------------------------------------------------------------
(* _incident_sweep.  The flag is tested before the lock: a containment     *)
(* made by the sweep itself ends in this operator again.                   *)

NotSweep == UNCHANGED <<approvals, receipts, prov, now, runs, server, lock, took, crashes>>

(* Faulty variant: the flag is tested only under the lock.                 *)
SweepCheckNot(i) ==
  /\ pc[i] = "check"
  /\ Step(i, "wait")
  /\ UNCHANGED <<incidents, healthy, inclock, sweeper, scans>> /\ NotSweep

SweepCheck(i) ==
  /\ pc[i] = "check"
  /\ Step(i, IF sweeper = Nobody THEN "wait" ELSE "done")
  /\ UNCHANGED <<incidents, healthy, inclock, sweeper, scans>> /\ NotSweep

SweepEnter(i) ==
  /\ pc[i] = "wait" /\ sweeper = Nobody
  /\ sweeper' = i /\ Step(i, "count")
  /\ UNCHANGED <<incidents, healthy, inclock, scans>> /\ NotSweep

(* The incident is read again and its sweeps counted; then the processes   *)
(* of the machine are listed.                                              *)
SweepCount(i) ==
  /\ pc[i] = "count" /\ inclock = Nobody /\ healthy /\ incidents[i].state # "none"
  /\ Step(i, "sweep") /\ todo' = Alive \cap Protected
  /\ UNCHANGED <<incidents, healthy, inclock, sweeper, scan, inline>> /\ NotSweep

SweepFail(i) ==
  /\ pc[i] = "count" /\ inclock = Nobody
  /\ ~healthy \/ "write" \in Faults
  /\ healthy' = FALSE /\ sweeper' = Nobody /\ Step(i, "done")
  /\ UNCHANGED <<incidents, inclock, scans>> /\ NotSweep

(* The incident was cleared and compacted away in between: StopIteration   *)
(* is caught by no one and ends the response.                              *)
SweepLost(i) ==
  /\ pc[i] = "count" /\ inclock = Nobody /\ healthy /\ incidents[i].state = "none"
  /\ sweeper' = Nobody /\ Step(i, "done")
  /\ UNCHANGED <<incidents, healthy, inclock, scans>> /\ NotSweep

InlineDone == inline # NoRun => pc[Worker(inline)] = "idle"

SweepDone(i) ==
  /\ pc[i] = "sweep" /\ todo = {} /\ scan["sweep"] = NoView
  /\ InlineDone
  /\ sweeper' = Nobody /\ inline' = NoRun /\ Step(i, "done")
  /\ UNCHANGED <<incidents, healthy, inclock, scan, todo>> /\ NotSweep

Done(i) ==
  /\ pc[i] = "done"
  /\ Step(i, "idle")
  /\ took' = [took EXCEPT ![i] = NoApproval]
  /\ lock' = IF i[2] = "guard" THEN lock \ {i[1]} ELSE lock
  /\ UNCHANGED <<stored, runs, healthy, server, inclock, sweeper, scans, crashes>>

Respond(i) ==
  \/ Publish(i) \/ RespondLink(i) \/ RespondCreate(i) \/ RespondRefused(i)
  \/ RespondLoad(i) \/ RespondReplaced(i) \/ RespondUnlink(i) \/ RespondMissing(i)
  \/ RespondUpdate(i) \/ RespondOverfull(i)
  \/ SweepCheck(i) \/ SweepEnter(i) \/ SweepCount(i) \/ SweepFail(i) \/ SweepLost(i)
  \/ SweepDone(i) \/ Done(i)

-----------------------------------------------------------------------------
(* _scan_once on one run: by the discovery thread, or by a sweep, which    *)
(* enforces in line.  Provenance and approvals are read together under     *)
(* approval_lock; the incidents are read, and the run judged, after it.    *)

NotScan == UNCHANGED <<stored, runs, healthy, server, locks, took, crashes>>

(* Faulty variant: any approval of the name will do.                       *)
AuthorizedByName(r) == prov[r] # NoApproval /\ approvals[prov[r].name] # NoApproval

Authorized(r) == prov[r] # NoApproval /\ approvals[prov[r].name] = prov[r]

View(s, r) == scan' = [scan EXCEPT ![s] = [run |-> r, ok |-> Authorized(r)]]

ScanRead(r) ==
  /\ scan["loop"] = NoView /\ main \notin Starting
  /\ r \in Alive \cap Protected /\ pc[Worker(r)] = "idle"
  /\ View("loop", r)
  /\ UNCHANGED <<pc, todo, inline>> /\ NotScan

SweepRead(r) ==
  /\ r \in todo /\ scan["sweep"] = NoView
  /\ InlineDone
  /\ main \notin Starting
  /\ todo' = todo \ {r} /\ inline' = NoRun
  /\ IF r \in Alive THEN View("sweep", r) ELSE UNCHANGED scan
  /\ UNCHANGED pc /\ NotScan

(* Faulty variant: an approval outweighs an incident.                      *)
ScanDecideApproved(s) ==
  /\ scan[s] # NoView /\ (healthy => inclock = Nobody)
  /\ scan' = [scan EXCEPT ![s] = NoView]
  /\ LET r == scan[s].run IN
     IF pc[Worker(r)] = "idle" /\ ~scan[s].ok
       THEN /\ Step(Worker(r), "kill")
            /\ inline' = IF s = "sweep" THEN r ELSE inline
       ELSE UNCHANGED <<pc, inline>>
  /\ UNCHANGED todo /\ NotScan

(* An incident in force that fits what the run shows outweighs an approval;*)
(* without a digest there is no approval.  A target that is already being  *)
(* enforced is left to its worker.                                         *)
ScanDecide(s) ==
  /\ scan[s] # NoView /\ (healthy => inclock = Nobody)
  /\ scan' = [scan EXCEPT ![s] = NoView]
  /\ LET r == scan[s].run IN
     \/ /\ pc[Worker(r)] = "idle"
        /\ ~scan[s].ok \/ (healthy /\ LockedFor(r)) \/ "digest" \in Faults
        /\ Step(Worker(r), "kill")
        /\ inline' = IF s = "sweep" THEN r ELSE inline
     \/ /\ pc[Worker(r)] # "idle" \/ (scan[s].ok /\ ~(healthy /\ LockedFor(r)))
        /\ UNCHANGED <<pc, inline>>
  /\ UNCHANGED todo /\ NotScan

Scan ==
  \/ \E r \in Runs : ScanRead(r) \/ SweepRead(r)
  \/ \E s \in Scanners : ScanDecide(s)

-----------------------------------------------------------------------------
(* A crash, and the recovery that precedes the first request: live runs    *)
(* are contained without a response, and the incident store is compacted.  *)

Restart ==
  /\ crashes < MaxCrashes /\ crashes' = crashes + 1
  /\ run' = [r \in Runs |-> IF run[r] = "none" THEN "none" ELSE "ended"]
  /\ prov' = [r \in Runs |-> NoApproval]
  /\ healthy' = CanCompact(incidents)
  /\ incidents' = IF CanCompact(incidents) THEN Compact(incidents) ELSE incidents
  /\ main' = "idle" /\ cur' = NoRun
  /\ lock' = {} /\ inclock' = Nobody /\ sweeper' = Nobody
  /\ pc' = [i \in Responders |-> "idle"] /\ took' = [i \in Responders |-> NoApproval]
  /\ scan' = [s \in Scanners |-> NoView] /\ todo' = {} /\ inline' = NoRun
  /\ UNCHANGED <<approvals, receipts, now, argv, shows, admitted>>

-----------------------------------------------------------------------------
Requests ==
  \/ Edit
  \/ \E i \in Responders : Acknowledge(i) \/ Clear(i)
  \/ \E r \in Runs : Kill(r) \/ StartAdmit(r)

EditDone ==
  \/ \E n \in Names : Revoke(n) \/ \E a \in Argvs, e \in Exes : Approve(n, a, e)
  \/ EditRefused

Start == StartMatch \/ StartRefused \/ StartLaunch \/ StartProvenance \/ StartRelease \/ StartReturn \/ StartFail

Contain(r) ==
  \/ GuardContained(r) \/ GuardFailed(r)
  \/ WorkerYield(r) \/ WorkerContained(r) \/ WorkerFailed(r) \/ WorkerCapture(r) \/ WorkerMark(r)

Next ==
  \/ Requests \/ Start \/ EditDone \/ KillDone
  \/ \E r \in Runs : Exit(r) \/ Complete(r) \/ GuardTrip(r) \/ Contain(r)
  \/ \E i \in Responders : Respond(i)
  \/ Scan \/ Restart

Spec == Init /\ [][Next]_vars

-----------------------------------------------------------------------------
TypeOK ==
  /\ approvals \in [Names -> Approval \cup {NoApproval}]
  /\ incidents \in [Responders -> Incident]
  /\ prov \in [Runs -> Approval \cup {NoApproval}]
  /\ receipts \subseteq Runs /\ now \in Nat
  /\ run \in [Runs -> RunStates] /\ argv \in [Runs -> Argvs]
  /\ shows \in [Runs -> Shown]
  /\ admitted \in [Runs -> Approval \cup {NoApproval}]
  /\ healthy \in BOOLEAN
  /\ main \in Starting \cup {"idle", "editing", "killing"} /\ cur \in Runs \cup {NoRun}
  /\ lock \subseteq Runs
  /\ inclock \in Responders \cup {Nobody} /\ sweeper \in Responders \cup {Nobody}
  /\ pc \in [Responders -> Steps]
  /\ took \in [Responders -> Approval \cup {NoApproval}]
  /\ scan \in [Scanners -> [run : Runs \cup {NoRun}, ok : BOOLEAN]]
  /\ todo \subseteq Runs /\ inline \in Runs \cup {NoRun}
  /\ crashes \in 0..MaxCrashes

-----------------------------------------------------------------------------
(* Properties.                                                             *)

(* An incident that says its response is complete speaks the truth for     *)
(* ever: the approval it names is not in the store, whoever removed it,    *)
(* whatever was approved under the same name since, and after a restart.   *)
CompletedMeansRevoked ==
  \A i \in Responders :
    incidents[i].done /\ incidents[i].approval # NoApproval =>
      approvals[incidents[i].approval.name] # incidents[i].approval

(* A guard and a worker that kill the same run, or kill a run and its      *)
(* relaunch, agree on one incident, which one clearance by root lifts.     *)
(* There is a second one in force for the command only where the first     *)
(* does not fit it: another executable, another profile, or no known       *)
(* executable beside a known one.                                          *)
OneIncidentPerIdentity ==
  \A i, j \in Responders :
    /\ incidents[i].state \in InForce /\ incidents[j].state \in InForce
    /\ i # j /\ argv[i[1]] = argv[j[1]] /\ incidents[i].made <= incidents[j].made
    => ~Fits(incidents[j].match, incidents[i].match)

(* Only root ends a lockdown: an incident in force is neither compacted    *)
(* away nor lost in a restart, and a cleared one is not revived by the     *)
(* sweep or the response that are still writing to it.                     *)
IncidentsKept ==
  [][\A i \in Responders :
       /\ incidents[i].state \in InForce => incidents'[i].state # "none"
       /\ incidents[i].state = "CLEARED" => incidents'[i].state \in {"CLEARED", "none"}]_vars

(* A response removes the approval its workload was launched under and     *)
(* never one that root created since under the same name, although it      *)
(* loads, compares and unlinks without approval_lock: at most one edit of  *)
(* root can fall in between, because the next waits for the incident lock. *)
ExactRevocation ==
  [][\A i \in Responders, n \in Names :
       pc[i] = "unlink" /\ pc'[i] = "update" /\ approvals'[n] # approvals[n]
         => approvals[n] = took[i]]_vars

(* The four locks, the sweep's flag and the wait of a sweep for what it    *)
(* enforces in line cannot block each other: threads stop only when every  *)
(* one of them is finished and holds nothing.                              *)
Working ==
  \/ Start \/ EditDone \/ KillDone
  \/ \E r \in Runs : Contain(r) \/ SweepRead(r)
  \/ \E i \in Responders : Respond(i)
  \/ \E s \in Scanners : ScanDecide(s)

NeverStuck ==
  ~ENABLED Working =>
    /\ main = "idle" /\ lock = {} /\ inclock = Nobody /\ sweeper = Nobody
    /\ \A i \in Responders : pc[i] = "idle"

-----------------------------------------------------------------------------
(* What the repository says, and the interleavings that break it.          *)

(* "after a successful unapproved-AI, offline-boundary or execution-       *)
(* boundary kill, Eggcracker ... revokes the exact affected approval when  *)
(* one exists" (RELEASE_NOTES.md): so, once no response to a run with a    *)
(* receipt is under way, the approval it was launched under is gone.       *)
Settled(r) == pc[Guard(r)] = "idle" /\ pc[Worker(r)] = "idle"

AffectedIsRevoked ==
  healthy => \A r \in receipts : Settled(r) /\ admitted[r] # NoApproval =>
    approvals[admitted[r].name] # admitted[r]

(* "a missing or concurrently revoked approval rejects the launch before   *)
(* Eggcracker creates any workload boundary or process" (README.md).       *)
ApprovedLaunch ==
  [][main = "admitted" /\ main' = "launched" /\ admitted[cur] # NoApproval =>
       approvals[admitted[cur].name] = admitted[cur]]_vars

(* "A response persistence fault fails health closed"                      *)
(* (_post_containment_response): nothing but such a fault should.          *)
HealthFailsOnFaults == Faults = {} => healthy

-----------------------------------------------------------------------------
(* Threads run, and the scan comes to every process again and again.       *)
Fairness ==
  /\ WF_vars(EditDone)
  /\ WF_vars(StartMatch \/ StartRefused \/ StartLaunch \/ StartProvenance
             \/ StartRelease \/ StartReturn)
  /\ WF_vars(KillDone)
  /\ \A r \in Runs : /\ WF_vars(GuardContained(r) \/ GuardFailed(r))
                     /\ WF_vars(WorkerContained(r) \/ WorkerFailed(r)
                                \/ WorkerCapture(r) \/ WorkerMark(r))
                     /\ SF_vars(ScanRead(r)) /\ WF_vars(SweepRead(r))
  /\ \A i \in Responders : WF_vars(Respond(i))
  /\ \A s \in Scanners : WF_vars(ScanDecide(s))

FairSpec == Spec /\ Fairness

(* A workload that shows its nature and whose launch approval was revoked, *)
(* by root or by a response, is killed, even when root approves the same   *)
(* name again at once.                                                     *)
RevokedIsContained ==
  \A r \in Protected : r \in Alive /\ r # cur /\ ~Authorized(r) ~> r \notin Alive

(* A relaunch that slipped in before the incident was recorded is found    *)
(* and killed while the incident is in force and fits what the relaunch    *)
(* shows, approved or not.                                                 *)
RecurrenceIsContained ==
  \A r \in Protected :
    r \in Alive /\ healthy /\ LockedFor(r) ~>
      r \notin Alive \/ ~healthy \/ ~LockedFor(r)

(* A response ends, and with it the hold on the run's lock.                *)
ResponseEnds == \A i \in Responders : pc[i] = "respond" ~> pc[i] = "idle"

=============================================================================
