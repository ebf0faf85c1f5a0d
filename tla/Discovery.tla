----------------------------- MODULE Discovery -----------------------------
(***************************************************************************)
(* How a match becomes an enforcement (supervisor.py): the discovery loop  *)
(* and, on a worker that has opened an incident, a sweep scan the          *)
(* processes; a scan claims the targets of a match under discovery_lock,   *)
(* binds a pidfd and hands over to a bounded number of workers.  Beside    *)
(* them the watcher completes runs that emptied and the operator kills     *)
(* them.                                                                   *)
(***************************************************************************)
EXTENDS Naturals, FiniteSets

CONSTANTS
  Tasks,       \* processes
  Runs, Host,  \* cgroups: of the runs, and any other
  Home,        \* the cgroup a process is started in
  Launched,    \* the process whose launch the supervisor admitted in a run
  Matches,     \* the sets of processes a detection profile matches
  Workers,     \* MAX_ENFORCEMENT_TASKS threads
  MaxFaults    \* bound: errors of contain_many, of the store, of Thread.start

ASSUME DiscoveryAssumption ==
  /\ Home \in [Tasks -> Runs \cup {Host}] /\ Host \notin Runs
  /\ Launched \in [Runs -> Tasks]
  /\ Matches \subseteq (SUBSET Tasks) \ {{}}
  /\ IsFiniteSet(Workers) /\ Workers \cap {"loop", "sweep"} = {}

Scanners  == {"loop", "sweep"}
Enforcers == Workers \cup Scanners

VARIABLES
  fate,        \* a process: "unborn", "lives", "held" in the quarantine, "dead"
  run,         \* the record of a run
  active, recent, containing, owned,   \* the sets discovery_lock protects
  slots,       \* enforcement_slots
  scanner,     \* a scan: its step, snapshot, the matches left and its targets
  job,         \* an enforcement: its step, targets, runs and result
  sweepBy,     \* the enforcer whose sweep it is, or "none"
  kill,        \* the operator's _contain of a run
  missed,      \* runs whose failed containment could not be recorded
  faults

locked   == <<active, recent, containing, owned>>
discVars == <<fate, run, locked, slots, scanner, job, sweepBy, kill, missed, faults>>

NoScan == [at |-> "idle", snap |-> {}, left |-> {}, targets |-> {}]
NoJob  == [at |-> "idle", targets |-> {}, runs |-> {}, ok |-> TRUE]

DiscInit ==
  /\ fate \in [Tasks -> {"unborn", "lives"}]
  /\ run = [r \in Runs |-> "RUNNING"]
  /\ active = {} /\ recent = {} /\ containing = {} /\ owned = {}
  /\ slots = Cardinality(Workers)
  /\ scanner = [s \in Scanners |-> NoScan] /\ job = [e \in Enforcers |-> NoJob]
  /\ sweepBy = "none" /\ kill = [r \in Runs |-> "idle"] /\ missed = {} /\ faults = 0

Living    == {p \in Tasks : fate[p] \in {"lives", "held"}}
Inside(r) == {p \in Tasks : fate[p] = "lives" /\ Home[p] = r}
RunsOf(m) == {Home[p] : p \in m} \cap Runs

(* What a match stops: its processes and those in the same runs.           *)
Targets(m, snap) == m \cup {p \in snap : Home[p] \in RunsOf(m)}

Faulty == faults < MaxFaults /\ faults' = faults + 1

-----------------------------------------------------------------------------
Spawn(p) ==
  /\ fate[p] = "unborn" /\ fate' = [fate EXCEPT ![p] = "lives"]
  /\ Home[p] \in Runs => run[Home[p]] = "RUNNING" /\ Inside(Home[p]) # {}
  /\ UNCHANGED <<run, locked, slots, scanner, job, sweepBy, kill, missed, faults>>

Leave(p) ==
  /\ fate[p] = "lives" /\ fate' = [fate EXCEPT ![p] = "dead"]
  /\ UNCHANGED <<run, locked, slots, scanner, job, sweepBy, kill, missed, faults>>

(* One pass of the loop begins, unless the thread is in an enforcement.    *)
Scan(s) ==
  /\ scanner[s].at = "idle" /\ job[s].at = "idle"
  /\ s = "sweep" => sweepBy # "none"
  /\ scanner' = [scanner EXCEPT ![s] =
       [at |-> "match", snap |-> Living, left |-> {m \in Matches : m \subseteq Living},
        targets |-> {}]]
  /\ UNCHANGED <<fate, run, locked, slots, job, sweepBy, kill, missed, faults>>

ScanTo(s, l, left, targets) ==
  scanner' = [scanner EXCEPT ![s].at = l, ![s].left = left, ![s].targets = targets]

(* _refresh_group, match and _discovery_containment_targets: a match that  *)
(* has lost a process since the snapshot is passed over.                   *)
Qualify(s, m) ==
  /\ scanner[s].at = "match" /\ m \in scanner[s].left /\ job[s].at = "idle"
  /\ IF m \subseteq Living
     THEN ScanTo(s, "claim", scanner[s].left \ {m}, Targets(m, scanner[s].snap))
     ELSE ScanTo(s, "match", scanner[s].left \ {m}, {})
  /\ UNCHANGED <<fate, run, locked, slots, job, sweepBy, kill, missed, faults>>

(* Mutant: the sets are read, and the claim is not made.                   *)
ClaimUnmarked(s) ==
  /\ scanner[s].at = "claim"
  /\ LET t == scanner[s].targets IN
     IF t \cap (active \cup recent) # {}
     THEN ScanTo(s, "match", scanner[s].left, {})
     ELSE ScanTo(s, "bind", scanner[s].left, t)
  /\ UNCHANGED <<fate, run, locked, slots, job, sweepBy, kill, missed, faults>>

(* Under discovery_lock: nothing that is being enforced or just was.       *)
Claim(s) ==
  /\ scanner[s].at = "claim"
  /\ LET t == scanner[s].targets IN
     IF t \cap (active \cup recent) # {}
     THEN ScanTo(s, "match", scanner[s].left, {}) /\ UNCHANGED active
     ELSE ScanTo(s, "bind", scanner[s].left, t) /\ active' = active \cup t
  /\ UNCHANGED <<fate, run, recent, containing, owned, slots, job, sweepBy, kill, missed, faults>>

Job(t) == [at |-> "enter", targets |-> t, runs |-> RunsOf(t), ok |-> TRUE]

Unclaim(s) == active' = active \ scanner[s].targets /\ ScanTo(s, "match", scanner[s].left, {})

(* open_pidfd of one of the targets fails, or the enforcement begins: of a *)
(* sweep on this thread, of the loop on a worker.  Without a slot it is    *)
(* put off, and if no thread can be started it is done here.               *)
Unbound(s) ==
  /\ scanner[s].at = "bind" /\ \E p \in scanner[s].targets : p \notin Living
  /\ Unclaim(s)
  /\ UNCHANGED <<fate, run, recent, containing, owned, slots, job, sweepBy, kill, missed, faults>>

Bound(s) == /\ scanner[s].at = "bind" /\ scanner[s].targets \cap Living # {}
            /\ UNCHANGED <<fate, run, recent, containing, owned, sweepBy, kill, missed>>

Enforce(s) ==
  /\ s = "sweep" /\ Bound(s)
  /\ job' = [job EXCEPT ![s] = Job(scanner[s].targets)]
  /\ ScanTo(s, "match", scanner[s].left, {}) /\ UNCHANGED <<active, slots, faults>>

(* Mutant: without a slot the match is put off, and its claim stays.       *)
SaturatedHeld(s) ==
  /\ s = "loop" /\ Bound(s) /\ slots = 0
  /\ ScanTo(s, "match", scanner[s].left, {}) /\ UNCHANGED <<active, slots, job, faults>>

Saturated(s) ==
  /\ s = "loop" /\ Bound(s) /\ slots = 0
  /\ Unclaim(s) /\ UNCHANGED <<slots, job, faults>>

HandOver(s, w) ==
  /\ s = "loop" /\ Bound(s) /\ slots > 0 /\ job[w].at = "idle"
  /\ slots' = slots - 1 /\ job' = [job EXCEPT ![w] = Job(scanner[s].targets)]
  /\ ScanTo(s, "match", scanner[s].left, {}) /\ UNCHANGED <<active, faults>>

Inline(s) ==
  /\ s = "loop" /\ Bound(s) /\ slots > 0 /\ Faulty
  /\ job' = [job EXCEPT ![s] = Job(scanner[s].targets)]
  /\ ScanTo(s, "match", scanner[s].left, {}) /\ UNCHANGED <<active, slots>>

ScanEnd(s) ==
  /\ scanner[s].at = "match" /\ scanner[s].left = {} /\ job[s].at = "idle"
  /\ scanner' = [scanner EXCEPT ![s] = NoScan]
  /\ IF s = "sweep"
     THEN sweepBy' = "none" /\ job' = [job EXCEPT ![sweepBy].at = "finish"]
     ELSE UNCHANGED <<sweepBy, job>>
  /\ UNCHANGED <<fate, run, locked, slots, kill, missed, faults>>

-----------------------------------------------------------------------------
Goes(e, l, ok) == job' = [job EXCEPT ![e].at = l, ![e].ok = ok]
Frees(e)       == slots' = IF e \in Workers THEN slots + 1 ELSE slots

(* A run the operator is killing is left to that; of any other the watcher *)
(* is kept off.                                                            *)
Yield(e) ==
  /\ job[e].at = "enter" /\ job[e].runs \cap owned # {}
  /\ active' = active \ job[e].targets
  /\ job' = [job EXCEPT ![e] = NoJob] /\ Frees(e)
  /\ UNCHANGED <<fate, run, recent, containing, owned, scanner, sweepBy, kill, missed, faults>>

(* Mutant: the watcher is not kept off.                                    *)
EnterLate(e) ==
  /\ job[e].at = "enter" /\ job[e].runs \cap owned = {}
  /\ Goes(e, "move", TRUE)
  /\ UNCHANGED <<fate, run, locked, slots, scanner, sweepBy, kill, missed, faults>>

Enter(e) ==
  /\ job[e].at = "enter" /\ job[e].runs \cap owned = {}
  /\ containing' = containing \cup job[e].runs /\ Goes(e, "move", TRUE)
  /\ UNCHANGED <<fate, run, active, recent, owned, slots, scanner, sweepBy, kill, missed, faults>>

(* contain_many (module Capture): it fails when a target is gone, and then *)
(* kills what it has.  What it moved may also outlive it.                  *)
Move(e) ==
  /\ job[e].at = "move"
  /\ IF job[e].targets \subseteq Living
     THEN /\ fate' = [p \in Tasks |-> IF p \in job[e].targets THEN "held" ELSE fate[p]]
          /\ Goes(e, "kill", TRUE)
     ELSE /\ fate' = [p \in Tasks |-> IF p \in job[e].targets \cap Living THEN "dead"
                                      ELSE fate[p]]
          /\ Goes(e, "mark", FALSE)
  /\ UNCHANGED <<run, locked, slots, scanner, sweepBy, kill, missed, faults>>

Slay(e) ==
  /\ job[e].at = "kill"
  /\ \/ /\ fate' = [p \in Tasks |-> IF p \in job[e].targets THEN "dead" ELSE fate[p]]
        /\ Goes(e, "mark", TRUE) /\ UNCHANGED faults
     \/ Faulty /\ Goes(e, "mark", FALSE) /\ UNCHANGED fate
  /\ UNCHANGED <<run, locked, slots, scanner, sweepBy, kill, missed>>

(* The record of each run, before the receipt.                             *)
Mark(e) ==
  /\ job[e].at = "mark"
  /\ \/ /\ run' = [r \in Runs |-> IF r \notin job[e].runs THEN run[r]
                                  ELSE IF job[e].ok THEN "TERMINATED"
                                  ELSE IF run[r] = "RUNNING" THEN "FAILED" ELSE run[r]]
        /\ Goes(e, IF job[e].ok THEN "store" ELSE "finish", job[e].ok)
        /\ UNCHANGED <<missed, faults>>
     \/ /\ Faulty /\ UNCHANGED run
        /\ Goes(e, IF job[e].ok THEN "mark" ELSE "finish", FALSE)
        /\ missed' = IF job[e].ok THEN missed ELSE missed \cup job[e].runs
  /\ UNCHANGED <<fate, locked, slots, scanner, sweepBy, kill>>

(* The receipt, and the response: a new incident sweeps, unless one does.  *)
Receipt(e) ==
  /\ job[e].at = "store"
  /\ \/ Faulty /\ Goes(e, "mark", FALSE) /\ UNCHANGED sweepBy
     \/ Goes(e, "finish", TRUE) /\ UNCHANGED <<sweepBy, faults>>
     \/ /\ sweepBy = "none" /\ sweepBy' = e /\ Goes(e, "sweep", TRUE) /\ UNCHANGED faults
  /\ UNCHANGED <<fate, run, locked, slots, scanner, kill, missed>>

(* The finally block.                                                      *)
Finish(e) ==
  /\ job[e].at = "finish"
  /\ containing' = containing \ job[e].runs /\ active' = active \ job[e].targets
  /\ recent' = recent \cup job[e].targets
  /\ job' = [job EXCEPT ![e] = NoJob] /\ Frees(e)
  /\ UNCHANGED <<fate, run, owned, scanner, sweepBy, kill, missed, faults>>

(* RECENT_DISCOVERY_NS has passed.                                         *)
Forget(p) ==
  /\ p \in recent /\ recent' = recent \ {p}
  /\ UNCHANGED <<fate, run, active, containing, owned, slots, scanner, job, sweepBy, kill, missed,
                 faults>>

-----------------------------------------------------------------------------
(* _mark_completed on an empty cgroup, if its process is not merely moved. *)
Complete(r) ==
  /\ run[r] = "RUNNING" /\ Inside(r) = {} /\ r \notin containing /\ Launched[r] \notin Living
  /\ run' = [run EXCEPT ![r] = "COMPLETED_ALLOWED"]
  /\ UNCHANGED <<fate, locked, slots, scanner, job, sweepBy, kill, missed, faults>>

(* _contain by an operator: it announces itself, kills the cgroup, stops   *)
(* announcing and stores the record.                                       *)
Announce(r) ==
  /\ kill[r] = "idle" /\ run[r] = "RUNNING"
  /\ owned' = owned \cup {r} /\ kill' = [kill EXCEPT ![r] = "kill"]
  /\ UNCHANGED <<fate, run, active, recent, containing, slots, scanner, job, sweepBy, missed,
                 faults>>

CgroupKill(r) ==
  /\ kill[r] = "kill" /\ kill' = [kill EXCEPT ![r] = "store"] /\ owned' = owned \ {r}
  /\ fate' = [p \in Tasks |-> IF p \in Inside(r) THEN "dead" ELSE fate[p]]
  /\ UNCHANGED <<run, active, recent, containing, slots, scanner, job, sweepBy, missed, faults>>

Terminated(r) ==
  /\ kill[r] = "store" /\ kill' = [kill EXCEPT ![r] = "done"]
  /\ run' = [run EXCEPT ![r] = "TERMINATED"]
  /\ UNCHANGED <<fate, locked, slots, scanner, job, sweepBy, missed, faults>>

ScanStep(s) ==
  \/ Scan(s) \/ Claim(s) \/ Unbound(s) \/ Enforce(s) \/ Saturated(s) \/ Inline(s) \/ ScanEnd(s)
  \/ \E m \in Matches : Qualify(s, m)
  \/ \E w \in Workers : HandOver(s, w)

JobStep(e) ==
  Yield(e) \/ Enter(e) \/ Move(e) \/ Slay(e) \/ Mark(e) \/ Receipt(e) \/ Finish(e)

KillStep(r) == Announce(r) \/ CgroupKill(r) \/ Terminated(r)

DiscNext ==
  \/ \E p \in Tasks : Spawn(p) \/ Leave(p) \/ Forget(p)
  \/ \E s \in Scanners : ScanStep(s)
  \/ \E e \in Enforcers : JobStep(e)
  \/ \E r \in Runs : Complete(r) \/ KillStep(r)

(* The threads run; an entry of discovery_done grows old.                  *)
DiscFairness ==
  /\ \A s \in Scanners : WF_discVars(ScanStep(s))
  /\ \A e \in Enforcers : WF_discVars(JobStep(e))
  /\ \A p \in Tasks : WF_discVars(Forget(p))
  /\ \A r \in Runs : WF_discVars(CgroupKill(r) \/ Terminated(r))

DiscSpec == DiscInit /\ [][DiscNext]_discVars /\ DiscFairness

-----------------------------------------------------------------------------
Claimed == {job[e].targets : e \in {d \in Enforcers : job[d].at # "idle"}}
           \cup {scanner[s].targets : s \in {d \in Scanners : scanner[d].at = "bind"}}

(* No two enforcements share a target, no claim is lost or left behind, no *)
(* slot leaks; whatever the interleaving of two scans, the workers and     *)
(* those that gave up.                                                     *)
AdmissionSound ==
  /\ \A d, e \in Enforcers : d # e => job[d].targets \cap job[e].targets = {}
  /\ active = UNION Claimed
  /\ slots + Cardinality({w \in Workers : job[w].at # "idle"}) = Cardinality(Workers)

(* A run that is emptied by a containment is never recorded as having      *)
(* completed by itself before that containment has had its say; only where *)
(* another could not record its failure can it.                            *)
Containing(r) == \E e \in Enforcers : r \in job[e].runs /\ job[e].at \in {"move", "kill", "mark"}

NotRelabelled ==
  [][\A r \in Runs : run'[r] = "COMPLETED_ALLOWED" /\ run[r] # "COMPLETED_ALLOWED"
       => ~Containing(r) \/ r \in missed]_discVars

(* Every match ends, also when it was put off for want of a worker.        *)
MatchesEnforced ==
  \A m \in Matches : [](m \subseteq Living => <>(~(m \subseteq Living)))
=============================================================================
