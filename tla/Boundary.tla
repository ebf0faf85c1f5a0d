------------------------------ MODULE Boundary ------------------------------
(***************************************************************************)
(* The offline boundary of a selected workload (offline_boundary.py and    *)
(* the supervisor's use of it): two namespaces named after the run and a   *)
(* counter of denied packets, made before the run has a record, watched    *)
(* while it runs, and reclaimed by the identity the record keeps, at the   *)
(* end or by a recovery.  Health is refused while that is not done.        *)
(***************************************************************************)
EXTENDS Naturals, FiniteSets

CONSTANTS
  Launches,       \* the runs, numbered in the order of their start
  MaxTerminal,    \* MAX_TERMINAL_RECORDS
  BndFaults,      \* bound: commands that fail, or replacements of a namespace
  MaxPackets,     \* bound: denied packets of a workload
  MaxRestarts     \* bound: crashes of the supervisor

ASSUME BoundaryAssumption ==
  /\ Launches \subseteq Nat \ {0} /\ MaxTerminal \in Nat \ {0}
  /\ BndFaults \in Nat /\ MaxPackets \in Nat /\ MaxRestarts \in Nat

VARIABLES
  mounts,         \* the namespaces of each run that are mounted
  replaced,       \* those that are not the ones recorded
  veth,           \* runs whose link is in the host's namespace
  record,         \* each run's record on disk
  unowned,        \* runs recorded from their cgroup: without a boundary
  work,           \* each run's workload
  launch, phase,  \* the start under way, and how far it is
  healthOk,       \* boundary_cleanup_healthy
  watch, tries,   \* the watcher: where, and how often it failed
  released,       \* the gate was opened
  denied, lastSeen, \* the deny counter, and the observer's last value
  ending,         \* runs that ended and whose boundary is about to be torn down
  toRecover,      \* what a recovery has left; {} and phase "down" before it
  givenUp,        \* history, of one life of the supervisor: runs of whose namespaces it let go,
                  \* by a command that took effect after its failure or by a teardown not reached
  bndFaults, restarts

netVars == <<mounts, replaced, veth>>
watchVars == <<watch, tries, released, denied, lastSeen>>
bndVars == <<netVars, record, unowned, work, launch, phase, healthOk, watchVars, ending, toRecover,
             givenUp, bndFaults, restarts>>

Sides == {"workload", "sink"}
NoLaunch == 0
Terminal == {"ended", "failed"}

BndInit ==
  /\ mounts = [l \in Launches |-> {}] /\ replaced = mounts /\ veth = {}
  /\ record = [l \in Launches |-> "none"] /\ unowned = {} /\ work = record
  /\ launch = NoLaunch /\ phase = "idle" /\ healthOk = TRUE
  /\ watch = "none" /\ tries = 0 /\ released = FALSE /\ denied = 0 /\ lastSeen = 0
  /\ ending = {} /\ toRecover = {} /\ givenUp = {} /\ bndFaults = 0 /\ restarts = 0

Fault == bndFaults < BndFaults /\ bndFaults' = bndFaults + 1

-----------------------------------------------------------------------------
(* _prune_terminal_records: the oldest ended runs beyond the bound, but    *)
(* none whose namespaces are mounted, and not p.                           *)

(* Mutant: a mounted namespace does not keep its record.                   *)
RemovableAll(rec, mnt) == {l \in Launches : rec[l] \in Terminal}

Removable(rec, mnt) == {l \in Launches : rec[l] \in Terminal /\ (mnt[l] = {} \/ l \in unowned)}

Pruned(rec, mnt, p) ==
  LET removable == Removable(rec, mnt)
      old(l) == Cardinality({k \in removable \ {p} : k < l})
      excess == Cardinality(removable) - MaxTerminal IN
  [l \in Launches |-> IF l \in removable \ {p} /\ old(l) < excess THEN "pruned" ELSE rec[l]]

Stores(l, state) == record' = Pruned([record EXCEPT ![l] = state], mounts, l)

(* teardown: a namespace that is not the recorded one is left alone.       *)
Teardown(l, left) ==
  /\ replaced[l] \cap mounts[l] \subseteq left /\ left \subseteq mounts[l]
  /\ IF left = replaced[l] \cap mounts[l] THEN UNCHANGED bndFaults ELSE Fault

(* Mutant: what is left is not held against health.                        *)
TornDownQuietly(l, left) ==
  mounts' = [mounts EXCEPT ![l] = left] /\ UNCHANGED <<replaced, veth, healthOk>>

TornDownTo(l, left) ==
  /\ mounts' = [mounts EXCEPT ![l] = left] /\ UNCHANGED <<replaced, veth>>
  /\ healthOk' = (healthOk /\ left = {})

TornDown(l) == \E left \in SUBSET mounts[l] : Teardown(l, left) /\ TornDownTo(l, left)

(* _teardown_terminal_boundary: and if nothing is left, prune once more.   *)
TornDownTerminal(l) ==
  /\ IF l \in unowned THEN UNCHANGED <<netVars, healthOk, bndFaults>> ELSE TornDown(l)
  /\ record' = IF l \in unowned \/ mounts'[l] = {} THEN Pruned(record, mounts', l) ELSE record

-----------------------------------------------------------------------------
(* _start, one at a time and while no run is active.                       *)
Begin(l) ==
  /\ phase = "idle" /\ record[l] = "none"
  /\ \A k \in Launches : record[k] # "active" /\ (k < l => record[k] # "none")
  /\ launch' = l /\ phase' = "workload"
  /\ watch' = "none" /\ tries' = 0 /\ released' = FALSE /\ denied' = 0 /\ lastSeen' = 0
  /\ record' = [record EXCEPT ![l] = "unwritten"]
  /\ UNCHANGED <<netVars, unowned, work, healthOk, ending, toRecover, givenUp, bndFaults, restarts>>

Proceeds(now, next) == phase = now /\ phase' = next /\ UNCHANGED <<launch, bndFaults>>

(* OfflineBoundary.create.                                                 *)
AddNamespace(side, next) ==
  /\ Proceeds(side, next) /\ mounts' = [mounts EXCEPT ![launch] = @ \cup {side}]
  /\ UNCHANGED <<replaced, veth, record, unowned, work, healthOk, watchVars, ending, toRecover,
                 givenUp, restarts>>

AddLink ==
  /\ \/ Proceeds("veth", "place") /\ veth' = veth \cup {launch}
     \/ Proceeds("place", "settle") /\ veth' = veth \ {launch}
  /\ UNCHANGED <<mounts, replaced, record, unowned, work, healthOk, watchVars, ending, toRecover,
                 givenUp, restarts>>

(* Addresses, routes, rules, the identities read, the counter set to zero. *)
SettleNet ==
  /\ Proceeds("settle", "arrange") /\ denied' = 0
  /\ UNCHANGED <<netVars, record, unowned, work, healthOk, watch, tries, released, lastSeen, ending,
                 toRecover, givenUp, restarts>>

Creating == {"workload", "sink", "veth", "place", "settle"}

(* A command of create fails, possibly after its effect.  What was noted   *)
(* as created, which lacks a namespace whose own command failed, and the   *)
(* host's end of the link are removed, as far as that goes.                *)
CreateFails ==
  /\ phase \in Creating /\ phase' = "idle" /\ launch' = NoLaunch
  /\ \E effect \in BOOLEAN, left \in SUBSET mounts[launch], link \in SUBSET (veth \cap {launch}) :
       /\ effect => phase \in Sides
       /\ bndFaults' = bndFaults + 1 + Cardinality(left) + Cardinality(link) /\ bndFaults' <= BndFaults
       /\ givenUp' = IF effect THEN givenUp \cup {launch} ELSE givenUp
       /\ mounts' = [mounts EXCEPT ![launch] = left \cup (IF effect THEN {phase} ELSE {})]
       /\ veth' = (veth \ {launch}) \cup link
  /\ UNCHANGED <<replaced, record, unowned, work, healthOk, watchVars, ending, toRecover, restarts>>

(* Staging, gate and channel; the unit; its record; its two guards; the    *)
(* gate opened, and RUNNING stored.                                        *)
Arrange ==
  /\ Proceeds("arrange", "unit")
  /\ UNCHANGED <<netVars, record, unowned, work, healthOk, watchVars, ending, toRecover, givenUp,
                 restarts>>

LaunchUnit ==
  /\ Proceeds("unit", "record") /\ work' = [work EXCEPT ![launch] = "gated"]
  /\ UNCHANGED <<netVars, record, unowned, healthOk, watchVars, ending, toRecover, givenUp, restarts>>

StoreRecord ==
  /\ Proceeds("record", "guard") /\ Stores(launch, "active") /\ watch' = "warm"
  /\ UNCHANGED <<netVars, unowned, work, healthOk, tries, released, denied, lastSeen, ending,
                 toRecover, givenUp, restarts>>

ReleaseGate ==
  /\ phase = "ready" /\ phase' = "idle" /\ launch' = NoLaunch /\ released' = TRUE
  /\ work' = [work EXCEPT ![launch] = IF @ = "gated" THEN "running" ELSE @]
  /\ UNCHANGED <<netVars, record, unowned, healthOk, watch, tries, denied, lastSeen, ending,
                 toRecover, givenUp, bndFaults, restarts>>

(* A start that fails with its boundary made tears it down; a record that  *)
(* was written stays as it is, for its watcher to close.  The rollback's   *)
(* kill may fail too, and what its systemctl stop returns is not looked at.*)
LaunchFails ==
  /\ phase \in {"arrange", "unit", "record", "guard", "ready"} /\ phase' = "idle" /\ launch' = NoLaunch
  /\ \/ work' = [work EXCEPT ![launch] = IF @ = "none" THEN @ ELSE "gone"] /\ TornDown(launch)
     \/ work[launch] # "none" /\ Fault /\ TornDownTo(launch, replaced[launch] \cap mounts[launch])
        /\ UNCHANGED work
  /\ UNCHANGED <<record, unowned, watchVars, ending, toRecover, givenUp, restarts>>

(* The account is looked at once more before the unit is made, outside     *)
(* both rollbacks: a start refused there tears nothing down.  (A command   *)
(* of the serving thread that times out, or a missing key in its rollback, *)
(* is caught nowhere up to serve and ends the supervisor: SupervisorCrash.)*)
LaunchAbandoned ==
  /\ phase = "unit" /\ phase' = "idle" /\ launch' = NoLaunch /\ Fault
  /\ givenUp' = givenUp \cup {launch}
  /\ UNCHANGED <<netVars, record, unowned, work, healthOk, watchVars, ending, toRecover, restarts>>

-----------------------------------------------------------------------------
(* The workload, and who may replace a namespace.                          *)
Watched == {l \in Launches : record[l] = "active"}

DeniedPacket(l) ==
  /\ work[l] = "running" /\ l \in Watched /\ denied < MaxPackets /\ denied' = denied + 1
  /\ UNCHANGED <<netVars, record, unowned, work, launch, phase, healthOk, watch, tries, released,
                 lastSeen, ending, toRecover, givenUp, bndFaults, restarts>>

WorkloadExits(l) ==
  /\ work[l] \in {"gated", "running"} /\ work' = [work EXCEPT ![l] = "gone"]
  /\ UNCHANGED <<netVars, record, unowned, launch, phase, healthOk, watchVars, ending, toRecover,
                 givenUp, bndFaults, restarts>>

Replace(l, side) ==
  /\ side \in mounts[l] \ replaced[l] /\ record[l] # "unwritten" /\ Fault
  /\ replaced' = [replaced EXCEPT ![l] = @ \cup {side}]
  /\ UNCHANGED <<mounts, veth, record, unowned, work, launch, phase, healthOk, watchVars, ending,
                 toRecover, givenUp, restarts>>

-----------------------------------------------------------------------------
(* The watcher: warm-up, the counter reset and the observer armed, which   *)
(* makes it ready for the start, then the polls, where an empty cgroup     *)
(* comes before the counter.                                               *)
IdentityHolds(l) == mounts[l] = Sides /\ replaced[l] = {}

WarmUp(l) ==
  /\ watch = "warm" /\ l \in Watched /\ IdentityHolds(l) /\ watch' = "arm"
  /\ UNCHANGED <<netVars, record, unowned, work, launch, phase, healthOk, tries, released, denied,
                 lastSeen, ending, toRecover, givenUp, bndFaults, restarts>>

ResetAndArm(l) ==
  /\ watch = "arm" /\ l \in Watched /\ IdentityHolds(l)
  /\ watch' = "poll" /\ denied' = 0 /\ lastSeen' = 0
  /\ phase' = IF phase = "guard" THEN "ready" ELSE phase
  /\ UNCHANGED <<netVars, record, unowned, work, launch, healthOk, tries, released, ending,
                 toRecover, givenUp, bndFaults, restarts>>

(* The end of a run: its record, then its boundary.                        *)
RunEnded(l) == Stores(l, "ended") /\ ending' = ending \cup {l} /\ work' = [work EXCEPT ![l] = "gone"]

PollEmpty(l) ==
  /\ watch = "poll" /\ l \in Watched /\ work[l] = "gone"
  /\ RunEnded(l) /\ watch' = "done"
  /\ UNCHANGED <<netVars, unowned, launch, phase, healthOk, tries, released, denied, lastSeen,
                 toRecover, givenUp, bndFaults, restarts>>

PollCounter(l) ==
  /\ watch = "poll" /\ l \in Watched /\ work[l] # "gone" /\ denied > lastSeen
  /\ lastSeen' = denied /\ watch' = "contain"
  /\ UNCHANGED <<netVars, record, unowned, work, launch, phase, healthOk, tries, released, denied,
                 ending, toRecover, givenUp, bndFaults, restarts>>

(* Any failure of the watch: once more from the warm-up, then containment; *)
(* a unit that is gone is closed instead.                                  *)
WatchFails(l) ==
  /\ watch \in {"warm", "arm", "poll"} /\ l \in Watched
  /\ IF IdentityHolds(l) THEN Fault ELSE UNCHANGED bndFaults
  /\ tries' = tries + 1 /\ watch' = (IF tries = 0 THEN "warm" ELSE "contain")
  /\ UNCHANGED <<netVars, record, unowned, work, launch, phase, healthOk, released, denied,
                 lastSeen, ending, toRecover, givenUp, restarts>>

WatchFindsGone(l) ==
  /\ watch \in {"warm", "arm"} /\ l \in Watched /\ work[l] = "gone"
  /\ RunEnded(l) /\ watch' = "done"
  /\ UNCHANGED <<netVars, unowned, launch, phase, healthOk, tries, released, denied, lastSeen,
                 toRecover, givenUp, bndFaults, restarts>>

(* _contain, of the watcher or of another guard.  Where systemctl stop     *)
(* times out after the receipt, the guard's thread ends before the         *)
(* teardown.                                                               *)
Contain(l) ==
  /\ l \in Watched /\ phase \notin {"down", "recover"} /\ watch' = "done"
  /\ \/ RunEnded(l) /\ UNCHANGED <<givenUp, bndFaults>>
     \/ Fault /\ Stores(l, "failed") /\ UNCHANGED <<work, ending, givenUp>>
     \/ /\ Fault /\ Stores(l, "ended") /\ work' = [work EXCEPT ![l] = "gone"]
        /\ givenUp' = givenUp \cup {l} /\ UNCHANGED ending
  /\ UNCHANGED <<netVars, unowned, launch, phase, healthOk, tries, released, denied, lastSeen,
                 toRecover, restarts>>

EndTeardown(l) ==
  /\ l \in ending /\ ending' = ending \ {l} /\ TornDownTerminal(l)
  /\ UNCHANGED <<unowned, work, launch, phase, watchVars, toRecover, givenUp, restarts>>

-----------------------------------------------------------------------------
(* A crash loses the memory; a workload still behind its gate ends, or is  *)
(* found by its cgroup.                                                    *)
SupervisorCrash ==
  /\ restarts < MaxRestarts /\ restarts' = restarts + 1 /\ phase' = "down" /\ launch' = NoLaunch
  /\ healthOk' = TRUE /\ watch' = "none" /\ ending' = {} /\ toRecover' = {} /\ givenUp' = {}
  /\ UNCHANGED <<netVars, record, unowned, work, tries, released, denied, lastSeen, bndFaults>>

SupervisorRestart ==
  /\ phase = "down" /\ phase' = "recover" /\ toRecover' = {l \in Launches : record[l] \in Terminal \cup {"active"}}
  /\ UNCHANGED <<netVars, record, unowned, work, launch, healthOk, watchVars, ending, givenUp,
                 bndFaults, restarts>>

(* _recover: an ended run has its boundary torn down; an active or failed  *)
(* one is contained first, by which it ends.                               *)
RecoverEnded(l) ==
  /\ phase = "recover" /\ ending = {} /\ l \in toRecover /\ record[l] = "ended"
  /\ toRecover' = toRecover \ {l} /\ TornDownTerminal(l)
  /\ UNCHANGED <<unowned, work, launch, phase, watchVars, ending, givenUp, restarts>>

RecoverActive(l) ==
  /\ phase = "recover" /\ ending = {} /\ l \in toRecover /\ record[l] \in {"active", "failed"}
  /\ toRecover' = toRecover \ {l}
  /\ \/ RunEnded(l) /\ UNCHANGED <<phase, bndFaults>>
     \/ Fault /\ Stores(l, "failed") /\ phase' = "down" /\ UNCHANGED <<work, ending>>
  /\ UNCHANGED <<netVars, unowned, launch, healthOk, watchVars, givenUp, restarts>>

(* A record pruned meanwhile is not looked at.                             *)
RecoverPruned(l) ==
  /\ phase = "recover" /\ ending = {} /\ l \in toRecover /\ record[l] = "pruned" /\ toRecover' = toRecover \ {l}
  /\ UNCHANGED <<netVars, record, unowned, work, launch, phase, healthOk, watchVars, ending,
                 givenUp, bndFaults, restarts>>

RecoverOrphan(l) ==
  /\ phase = "recover" /\ ending = {} /\ toRecover = {} /\ record[l] = "unwritten" /\ work[l] = "gated"
  /\ unowned' = unowned \cup {l} /\ work' = [work EXCEPT ![l] = "gone"] /\ Stores(l, "ended")
  /\ UNCHANGED <<netVars, launch, phase, healthOk, watchVars, ending, toRecover, givenUp, bndFaults,
                 restarts>>

Recovered ==
  /\ phase = "recover" /\ toRecover = {} /\ ending = {} /\ phase' = "idle"
  /\ \A l \in Launches : ~(record[l] = "unwritten" /\ work[l] = "gated")
  /\ UNCHANGED <<netVars, record, unowned, work, launch, healthOk, watchVars, ending, toRecover,
                 givenUp, bndFaults, restarts>>

BndNext ==
  \/ \E l \in Launches :
       \/ Begin(l) \/ DeniedPacket(l) \/ WorkloadExits(l) \/ \E side \in Sides : Replace(l, side)
       \/ WarmUp(l) \/ ResetAndArm(l) \/ PollEmpty(l) \/ PollCounter(l) \/ WatchFails(l) \/ WatchFindsGone(l)
       \/ Contain(l) \/ EndTeardown(l)
       \/ RecoverEnded(l) \/ RecoverActive(l) \/ RecoverPruned(l) \/ RecoverOrphan(l)
  \/ AddNamespace("workload", "sink") \/ AddNamespace("sink", "veth") \/ AddLink \/ SettleNet \/ CreateFails
  \/ Arrange \/ LaunchUnit \/ StoreRecord \/ ReleaseGate \/ LaunchFails \/ LaunchAbandoned
  \/ SupervisorCrash \/ SupervisorRestart \/ Recovered

BndSpec == BndInit /\ [][BndNext]_bndVars

-----------------------------------------------------------------------------
(* Nothing a run made on the host is forgotten: a record goes from the     *)
(* bounded history only with its namespaces, and the history holds at most *)
(* one more than its bound (a start that failed, until the next write);    *)
(* once a recorded run has ended its namespaces are gone or health is      *)
(* refused, whatever failed, crashed or was replaced; and a start that     *)
(* fails leaves none, unless health is refused or its rollback failed as   *)
(* well.  Excepted are the runs that this life of the supervisor let go    *)
(* of: a command of create that took effect after its failure, an account  *)
(* that drifted before the unit, a systemctl stop that timed out after the *)
(* receipt (there the next recovery tears down).                           *)
AuthorityKept ==
  /\ \A l \in Launches : record[l] = "pruned" => mounts[l] = {} \/ l \in unowned
  /\ Cardinality(Removable(record, mounts)) <= MaxTerminal + 1
  /\ phase \notin {"down", "recover"} /\ healthOk =>
       \A l \in Launches \ (ending \cup unowned \cup givenUp) : record[l] = "ended" => mounts[l] = {}
  /\ \A l \in Launches \ (givenUp \cup {launch}) :
       record[l] = "unwritten" /\ restarts = 0 /\ healthOk /\ bndFaults <= 1 => mounts[l] = {} /\ l \notin veth

(* The counter is only set back while the workload waits behind its gate   *)
(* ("Clear setup-only namespace traffic while the pre-exec gate is         *)
(* closed", reset_counter).                                                *)
ResetBeforeRelease == [][denied' < denied /\ released' => ~released]_bndVars
=============================================================================
