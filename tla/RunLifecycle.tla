---------------------------- MODULE RunLifecycle ----------------------------
(***************************************************************************)
(* The life of a protected run inside the supervisor                       *)
(* (src/src/lumi_eggcracker/supervisor.py): admission, the gated launch,   *)
(* the two threads that guard it (watcher and exec listener), the          *)
(* autonomous detector's enforcement worker, the operator's kill, and the  *)
(* recovery that follows a crash of the supervisor or of the machine.      *)
(*                                                                         *)
(* Every one of these actors may end the run, each through its own path    *)
(* and with its own copy of the run record.  The module keeps the durable  *)
(* record, the in-memory indexes and the kernel's view apart, so that what *)
(* one actor believes can be stale when it acts on it.                     *)
(***************************************************************************)
EXTENDS Naturals, FiniteSets

CONSTANTS
  Runs,        \* run identities; each is used by one launch at most
  NoRun,       \* the main thread is serving no run
  MaxCrashes,  \* bound on crashes and reboots
  Faults       \* the faults that may happen, of FaultKinds

(* A watch that errs, a write that fails, a process that outlives the kill *)
(* or the capture, a launch step that fails, a systemctl stop that does    *)
(* not return in time.                                                     *)
FaultKinds == {"watch", "write", "survivors", "launch", "stop"}

ASSUME RunsAssumption ==
  NoRun \notin Runs /\ MaxCrashes \in Nat /\ Faults \subseteq FaultKinds

ActiveStates == {"STARTING", "RUNNING"}
EmptyTerminal == {"COMPLETED_ALLOWED", "CONTAINED_RECEIPT_FAILED", "TERMINATED"}
TerminalStates == EmptyTerminal \cup {"CONTAINMENT_FAILED"}
RunStates == ActiveStates \cup TerminalStates

(* The threads that call _contain: the serving thread, and two per run.    *)
Callers == {"main", "watcher", "listener"}

VARIABLES
  \* durable
  disk,        \* disk[r]: the state in the run's record, "NONE" if unwritten
  receipts,    \* receipts[r]: success receipts published for the run
  prov,        \* runs with a launch provenance record
  orphan,      \* runs whose record was made from an orphan cgroup
  oldBoot,     \* runs whose record names an earlier boot
  \* kernel and systemd
  cg,          \* cg[r]: the run's own cgroup
  open,        \* runs whose gate was released
  held,        \* runs with processes captured in the quarantine, still alive
  bnd,         \* runs whose offline namespaces are mounted
  \* memory of the supervisor
  active,      \* active_cgroups, the admission index
  completed,   \* runs with a cached containment receipt
  owned,       \* owned_containment_cgroups
  containing,  \* discovery_containing_cgroups
  lock,        \* lock[r]: who holds the run's lock
  rec,         \* rec[r]: state in the record shared by start, watcher, listener
  ready,       \* runs whose watcher has armed
  \* threads
  main, cur, todo, watcher, attempt, listener, enforcer, con,
  crashes

durable == <<disk, receipts, prov, orphan, oldBoot>>
kernel  == <<cg, open, held, bnd>>
memory  == <<active, completed, owned, containing, lock, rec, ready>>
serving == <<main, cur, todo>>
guards  == <<watcher, attempt, listener>>
vars    == <<durable, kernel, memory, serving, guards, enforcer, con, crashes>>

CgStates  == {"none", "populated", "emptied", "collected"}
MainSteps == {"down", "recover", "recovering", "adopting", "completing",
              "idle", "killing",
              "prepared", "launched", "stored", "linked", "listening",
              "watching", "armed", "released", "checked", "writing", "indexing",
              "adding"}
(* _start holds approval_lock from admission to its return or exception.   *)
StartSteps == {"prepared", "launched", "stored", "linked", "listening",
               "watching", "armed", "released", "checked", "writing", "indexing",
               "adding"}
ConSteps  == {"out", "enter", "kill", "verify", "commit", "publish", "finish",
              "returned", "unavailable", "survivors", "unreceipted"}
RecoverySteps == {"down", "recover", "recovering", "adopting", "completing"}
Raised    == {"unavailable", "survivors", "unreceipted"}
ConInside == {"kill", "verify", "commit", "publish", "finish"}

Init ==
  /\ disk = [r \in Runs |-> "NONE"] /\ receipts = [r \in Runs |-> {}]
  /\ prov = {} /\ orphan = {} /\ oldBoot = {}
  /\ cg = [r \in Runs |-> "none"] /\ open = {} /\ held = {} /\ bnd = {}
  /\ active = {} /\ completed = {} /\ owned = {} /\ containing = {}
  /\ lock = [r \in Runs |-> "free"] /\ rec = [r \in Runs |-> "NONE"]
  /\ ready = {}
  /\ main = "recover" /\ cur = NoRun /\ todo = {}
  /\ watcher = [r \in Runs |-> "none"] /\ attempt = [r \in Runs |-> 0]
  /\ listener = [r \in Runs |-> "none"] /\ enforcer = [r \in Runs |-> "none"]
  /\ con = [r \in Runs |-> [k \in Callers |-> "out"]]
  /\ crashes = 0

-----------------------------------------------------------------------------
(* Storing a record.  _store writes the record, keeps the admission index  *)
(* in step with the state, and removes the provenance of an ended run.     *)

(* Faulty variant: an ended run keeps its place in the index.              *)
StoreKeeps(r, s) ==
  /\ disk' = [disk EXCEPT ![r] = s]
  /\ active' = IF s \in ActiveStates THEN active \cup {r} ELSE active
  /\ prov' = IF s \in ActiveStates THEN prov ELSE prov \ {r}

Store(r, s) ==
  /\ disk' = [disk EXCEPT ![r] = s]
  /\ active' = IF s \in ActiveStates THEN active \cup {r} ELSE active \ {r}
  /\ prov' = IF s \in ActiveStates THEN prov ELSE prov \ {r}

Gone(r) == cg[r] # "populated"

-----------------------------------------------------------------------------
(* _contain, one caller k at a time inside the run's lock.  The watcher    *)
(* and the listener pass the shared record, the serving thread its own.    *)

SetRecord(r, k, s) ==
  rec' = IF k = "main" THEN rec ELSE [rec EXCEPT ![r] = s]

Step(r, k, s) == con' = [con EXCEPT ![r][k] = s]

(* The cached receipt answers a second containment of the same run.        *)
ContainCached(r, k) ==
  /\ con[r][k] = "enter" /\ lock[r] = "free" /\ r \in completed
  /\ Step(r, k, "returned")
  /\ UNCHANGED <<durable, kernel, memory, serving, guards, enforcer, crashes>>

ContainEnter(r, k) ==
  /\ con[r][k] = "enter" /\ lock[r] = "free" /\ r \notin completed
  /\ lock' = [lock EXCEPT ![r] = k]
  /\ owned' = owned \cup {r}
  /\ Step(r, k, "kill")
  /\ UNCHANGED <<durable, kernel, active, completed, containing, rec, ready,
                 serving, guards, enforcer, crashes>>

(* validate_identity finds the cgroup; cgroup.kill empties it, or leaves a *)
(* process that cannot die yet.                                            *)
ContainKill(r, k) ==
  /\ con[r][k] = "kill" /\ cg[r] \in {"populated", "emptied"}
  /\ \E left \in {"populated", "emptied"} :
       /\ left = "populated" => cg[r] = "populated" /\ "survivors" \in Faults
       /\ cg' = [cg EXCEPT ![r] = left]
  /\ Step(r, k, "verify")
  /\ UNCHANGED <<durable, open, held, bnd, memory, serving, guards, enforcer, crashes>>

ContainRaise(r, k, s, why) ==
  /\ SetRecord(r, k, s) /\ Store(r, s)
  /\ owned' = owned \ {r}
  /\ lock' = [lock EXCEPT ![r] = "free"]
  /\ Step(r, k, why)
  /\ UNCHANGED <<receipts, orphan, oldBoot, kernel, completed, containing, ready,
                 serving, guards, enforcer, crashes>>

(* The unit is already collected, or survivors outlive the deadline.       *)
ContainUnavailable(r, k) ==
  /\ con[r][k] = "kill" /\ cg[r] = "collected"
  /\ ContainRaise(r, k, "CONTAINMENT_FAILED", "unavailable")

(* Faulty variant: the failure is raised but not stored.                   *)
ContainSurvivorsUnstored(r, k) ==
  /\ con[r][k] = "verify" /\ ~Gone(r)
  /\ ContainRaise(r, k, disk[r], "survivors")

ContainSurvivors(r, k) ==
  /\ con[r][k] = "verify" /\ ~Gone(r)
  /\ ContainRaise(r, k, "CONTAINMENT_FAILED", "survivors")

(* Faulty variant: the kill is taken for its own proof.                    *)
ContainUnproved(r, k) ==
  /\ con[r][k] = "verify"
  /\ owned' = owned \ {r}
  /\ Step(r, k, "commit")
  /\ UNCHANGED <<durable, kernel, active, completed, containing, lock, rec, ready,
                 serving, guards, enforcer, crashes>>

ContainProved(r, k) ==
  /\ con[r][k] = "verify" /\ Gone(r)
  /\ owned' = owned \ {r}
  /\ Step(r, k, "commit")
  /\ UNCHANGED <<durable, kernel, active, completed, containing, lock, rec, ready,
                 serving, guards, enforcer, crashes>>

ContainCommit(r, k) ==
  /\ con[r][k] = "commit"
  /\ SetRecord(r, k, "TERMINATED") /\ Store(r, "TERMINATED")
  /\ Step(r, k, "publish")
  /\ UNCHANGED <<receipts, orphan, oldBoot, kernel, completed, owned, containing,
                 lock, ready, serving, guards, enforcer, crashes>>

ContainPublish(r, k) ==
  /\ con[r][k] = "publish"
  /\ receipts' = [receipts EXCEPT ![r] = @ \cup {"kill"}]
  /\ Step(r, k, "finish")
  /\ UNCHANGED <<disk, prov, orphan, oldBoot, kernel, memory, serving, guards, enforcer, crashes>>

(* The terminal record or the receipt could not be written.                *)
ContainUnreceipted(r, k) ==
  /\ "write" \in Faults
  /\ con[r][k] \in {"commit", "publish"}
  /\ ContainRaise(r, k, "CONTAINED_RECEIPT_FAILED", "unreceipted")

(* Faulty variant: the lock is not released.                               *)
ContainFinishLocked(r, k) ==
  /\ con[r][k] = "finish"
  /\ bnd' = IF r \in orphan THEN bnd ELSE bnd \ {r}
  /\ completed' = completed \cup {r}
  /\ Step(r, k, "returned")
  /\ UNCHANGED <<durable, cg, open, held, active, owned, containing, lock, rec, ready,
                 serving, guards, enforcer, crashes>>

ContainFinish(r, k) ==
  /\ con[r][k] = "finish"
  /\ bnd' = IF r \in orphan THEN bnd ELSE bnd \ {r}
  /\ completed' = completed \cup {r}
  /\ lock' = [lock EXCEPT ![r] = "free"]
  /\ Step(r, k, "returned")
  /\ UNCHANGED <<durable, cg, open, held, active, owned, containing, rec, ready,
                 serving, guards, enforcer, crashes>>

(* systemctl stop runs into the 10 seconds of _run, which nothing catches: *)
(* a guard's thread ends there, with its receipt and without the rest.     *)
(* The serving thread takes the supervisor with it, as in Crash.           *)
ContainStopHangs(r, k) ==
  /\ con[r][k] = "finish" /\ k # "main" /\ "stop" \in Faults
  /\ lock' = [lock EXCEPT ![r] = "free"]
  /\ Step(r, k, "out")
  /\ watcher' = IF k = "watcher" THEN [watcher EXCEPT ![r] = "exited"] ELSE watcher
  /\ listener' = IF k = "listener" THEN [listener EXCEPT ![r] = "exited"] ELSE listener
  /\ UNCHANGED <<durable, kernel, active, completed, owned, containing, rec, ready,
                 serving, attempt, enforcer, crashes>>

Contain(r, k) ==
  \/ ContainCached(r, k) \/ ContainEnter(r, k) \/ ContainKill(r, k)
  \/ ContainUnavailable(r, k) \/ ContainSurvivors(r, k) \/ ContainProved(r, k)
  \/ ContainCommit(r, k) \/ ContainPublish(r, k) \/ ContainUnreceipted(r, k)
  \/ ContainFinish(r, k) \/ ContainStopHangs(r, k)

-----------------------------------------------------------------------------
(* _mark_completed: the benign transition.  Under the run's lock and the   *)
(* discovery lock it reloads the record and refuses when the detector is   *)
(* containing the cgroup, when the record is no longer active, or when the *)
(* approved process still exists (moved to the quarantine, say).           *)

LaunchAlive(r) == r \in prov /\ r \in held

(* Faulty variant: the detector's barrier is not consulted.                *)
MayCompleteNoBarrier(r) == disk[r] \in ActiveStates /\ ~LaunchAlive(r)

MayComplete(r) ==
  /\ r \notin containing
  /\ disk[r] \in ActiveStates
  /\ ~LaunchAlive(r)

(* t keeps the run's lock until it has torn the boundary down.             *)
CompleteStore(r, t) ==
  /\ lock[r] = "free" /\ MayComplete(r)
  /\ Store(r, "COMPLETED_ALLOWED")
  /\ rec' = IF t = "main" THEN rec ELSE [rec EXCEPT ![r] = "COMPLETED_ALLOWED"]
  /\ lock' = [lock EXCEPT ![r] = t]
  /\ UNCHANGED <<receipts, orphan, oldBoot, kernel, completed, owned, containing, ready>>

CompleteTeardown(r, t) ==
  /\ lock[r] = t
  /\ bnd' = IF r \in orphan THEN bnd ELSE bnd \ {r}
  /\ lock' = [lock EXCEPT ![r] = "free"]
  /\ UNCHANGED <<durable, cg, open, held, active, completed, owned, containing,
                 rec, ready>>

-----------------------------------------------------------------------------
(* The watcher thread: _watch and _watch_once.                             *)

SetWatcher(r, s) == watcher' = [watcher EXCEPT ![r] = s]
Quiet == UNCHANGED <<durable, kernel, memory>>
NotWatcher == UNCHANGED <<serving, listener, enforcer, crashes>>

WatcherArm(r) ==
  /\ watcher[r] = "arming" /\ cg[r] # "collected"
  /\ SetWatcher(r, "polling") /\ ready' = ready \cup {r}
  /\ UNCHANGED <<durable, kernel, active, completed, owned, containing, lock, rec,
                 attempt, con>>
  /\ NotWatcher

(* Any error of the watch is retried once and then contains the run.       *)
WatcherRetry(r) ==
  /\ attempt' = [attempt EXCEPT ![r] = @ + 1]
  /\ IF attempt[r] = 0
       THEN SetWatcher(r, "arming") /\ con' = [con EXCEPT ![r]["watcher"] = "out"]
       ELSE SetWatcher(r, "contain") /\ Step(r, "watcher", "enter")

WatcherError(r) ==
  /\ "watch" \in Faults \/ cg[r] = "collected"
  /\ watcher[r] \in {"arming", "polling"}
  /\ WatcherRetry(r)
  /\ Quiet /\ NotWatcher

(* PID_LIMIT and NETWORK_BOUNDARY; the counters outlive the processes that *)
(* moved them, and the namespace outlives the cgroup.                      *)
WatcherTrip(r) ==
  /\ watcher[r] = "polling" /\ r \in open /\ cg[r] # "collected"
  /\ SetWatcher(r, "contain") /\ Step(r, "watcher", "enter")
  /\ Quiet /\ UNCHANGED attempt /\ NotWatcher

WatcherContained(r) ==
  /\ watcher[r] = "contain" /\ con[r]["watcher"] = "returned"
  /\ SetWatcher(r, "exited") /\ Step(r, "watcher", "out")
  /\ Quiet /\ UNCHANGED attempt /\ NotWatcher

(* After the last attempt the exception of _contain is swallowed.          *)
WatcherRaised(r) ==
  /\ watcher[r] = "contain" /\ con[r]["watcher"] \in Raised
  /\ IF attempt[r] = 2
       THEN SetWatcher(r, "exited") /\ Step(r, "watcher", "out") /\ UNCHANGED attempt
       ELSE IF con[r]["watcher"] = "unavailable"
       THEN SetWatcher(r, "mark") /\ Step(r, "watcher", "out") /\ UNCHANGED attempt
       ELSE WatcherRetry(r)
  /\ Quiet /\ NotWatcher

(* A retry finds the unit collected: verify_empty, then _mark_completed.   *)
WatcherCollected(r) ==
  /\ watcher[r] = "arming" /\ cg[r] = "collected"
  /\ SetWatcher(r, "mark")
  /\ Quiet /\ UNCHANGED <<attempt, con>> /\ NotWatcher

WatcherComplete(r) ==
  /\ \/ watcher[r] = "mark"
     \/ watcher[r] = "polling" /\ cg[r] = "emptied"
  /\ CompleteStore(r, "watcher")
  /\ SetWatcher(r, "teardown")
  /\ UNCHANGED <<attempt, con>> /\ NotWatcher

(* A refused completion ends the watch only on the error path.             *)
WatcherRefused(r) ==
  /\ watcher[r] = "mark" /\ lock[r] = "free" /\ ~MayComplete(r)
  /\ SetWatcher(r, "exited")
  /\ Quiet /\ UNCHANGED <<attempt, con>> /\ NotWatcher

WatcherTeardown(r) ==
  /\ watcher[r] = "teardown"
  /\ CompleteTeardown(r, "watcher")
  /\ SetWatcher(r, "exited")
  /\ UNCHANGED <<attempt, con>> /\ NotWatcher

Watcher(r) ==
  \/ WatcherArm(r) \/ WatcherError(r) \/ WatcherTrip(r) \/ WatcherContained(r)
  \/ WatcherRaised(r) \/ WatcherCollected(r) \/ WatcherComplete(r)
  \/ WatcherRefused(r) \/ WatcherTeardown(r)

-----------------------------------------------------------------------------
(* The exec listener thread: _exec_listener_loop.                          *)

SetListener(r, s) == listener' = [listener EXCEPT ![r] = s]
NotListener == UNCHANGED <<serving, watcher, attempt, enforcer, crashes>>

(* A denied exec, an unbound notification or a failed answer: contain the  *)
(* run if the shared record still says it is active.                       *)
ListenerTrip(r) ==
  /\ listener[r] = "polling"
  /\ IF rec[r] \in ActiveStates
       THEN SetListener(r, "contain") /\ Step(r, "listener", "enter")
       ELSE SetListener(r, "exited") /\ UNCHANGED con
  /\ Quiet /\ NotListener

ListenerContained(r) ==
  /\ listener[r] = "contain"
  /\ \/ con[r]["listener"] = "returned"
     \/ con[r]["listener"] \in Raised /\ rec[r] \notin ActiveStates
  /\ SetListener(r, "exited") /\ Step(r, "listener", "out")
  /\ Quiet /\ NotListener

(* The exception handler contains once more if the record became active.   *)
ListenerAgain(r) ==
  /\ listener[r] = "contain"
  /\ con[r]["listener"] \in Raised /\ rec[r] \in ActiveStates
  /\ SetListener(r, "last") /\ Step(r, "listener", "enter")
  /\ Quiet /\ NotListener

ListenerLast(r) ==
  /\ listener[r] = "last" /\ con[r]["listener"] \in Raised \cup {"returned"}
  /\ SetListener(r, "exited") /\ Step(r, "listener", "out")
  /\ Quiet /\ NotListener

(* Hang-up: every task of the filter is dead, and the cgroup is empty.     *)
ListenerHangup(r) ==
  /\ listener[r] = "polling" /\ Gone(r) /\ r \notin held
  /\ SetListener(r, "mark")
  /\ Quiet /\ UNCHANGED con /\ NotListener

ListenerComplete(r) ==
  /\ listener[r] = "mark" /\ CompleteStore(r, "listener")
  /\ SetListener(r, "teardown")
  /\ UNCHANGED con /\ NotListener

ListenerRefused(r) ==
  /\ listener[r] = "mark" /\ lock[r] = "free" /\ ~MayComplete(r)
  /\ SetListener(r, "exited")
  /\ Quiet /\ UNCHANGED con /\ NotListener

ListenerTeardown(r) ==
  /\ listener[r] = "teardown" /\ CompleteTeardown(r, "listener")
  /\ SetListener(r, "exited")
  /\ UNCHANGED con /\ NotListener

ListenerIdle(r) ==
  /\ listener[r] = "polling" /\ rec[r] \notin ActiveStates
  /\ SetListener(r, "exited")
  /\ Quiet /\ UNCHANGED con /\ NotListener

Listener(r) ==
  \/ ListenerTrip(r) \/ ListenerContained(r) \/ ListenerAgain(r) \/ ListenerLast(r)
  \/ ListenerHangup(r) \/ ListenerComplete(r) \/ ListenerRefused(r)
  \/ ListenerTeardown(r) \/ ListenerIdle(r)

-----------------------------------------------------------------------------
(* The detector's enforcement worker: _enforce_discovery on the cgroup of  *)
(* one run.  The scan that hands it the run passes through approval_lock   *)
(* after it saw the workload's own image, so no start is in progress.      *)

SetEnforcer(r, s) == enforcer' = [enforcer EXCEPT ![r] = s]
NotEnforcer == UNCHANGED <<serving, guards, con, crashes>>

Detect(r) ==
  /\ main \in {"idle", "killing"} /\ enforcer[r] = "none"
  /\ r \in open /\ ~Gone(r)
  /\ SetEnforcer(r, "barrier")
  /\ Quiet /\ NotEnforcer

(* A containment already running on the cgroup is authoritative.           *)
EnforcerYield(r) ==
  /\ enforcer[r] = "barrier" /\ r \in owned
  /\ SetEnforcer(r, "none")
  /\ Quiet /\ NotEnforcer

EnforcerBarrier(r) ==
  /\ enforcer[r] = "barrier" /\ r \notin owned
  /\ containing' = containing \cup {r}
  /\ SetEnforcer(r, "capture")
  /\ UNCHANGED <<durable, kernel, active, completed, owned, lock, rec, ready>>
  /\ NotEnforcer

(* contain_many stops the processes it found and moves them away; what was *)
(* re-parented before the stop stays in the run's cgroup.                  *)
EnforcerCapture(r) ==
  /\ enforcer[r] = "capture" /\ ~Gone(r)
  /\ held' = held \cup {r}
  /\ \E left \in {"populated", "emptied"} :
       /\ left = "populated" => "survivors" \in Faults
       /\ cg' = [cg EXCEPT ![r] = left]
  /\ SetEnforcer(r, "captured")
  /\ UNCHANGED <<durable, open, bnd, memory>> /\ NotEnforcer

(* cgroup.kill of the quarantine, and its proof of emptiness.              *)
EnforcerProved(r) ==
  /\ enforcer[r] = "captured"
  /\ held' = held \ {r}
  /\ SetEnforcer(r, "mark")
  /\ UNCHANGED <<durable, cg, open, bnd, memory>> /\ NotEnforcer

(* The roots vanished, or no fixed point or emptiness within the deadline. *)
EnforcerFail(r) ==
  /\ \/ enforcer[r] = "capture" /\ Gone(r)
     \/ enforcer[r] = "captured" /\ "survivors" \in Faults
     \/ enforcer[r] = "publish" /\ "write" \in Faults
  /\ SetEnforcer(r, "failing")
  /\ Quiet /\ NotEnforcer

(* _mark_discovered_runs_terminated reloads the record under the lock.     *)
EnforcerMark(r) ==
  /\ enforcer[r] = "mark" /\ lock[r] = "free"
  /\ Store(r, "TERMINATED")
  /\ SetEnforcer(r, "publish")
  /\ UNCHANGED <<receipts, orphan, oldBoot, kernel, completed, owned, containing,
                 lock, rec, ready>>
  /\ NotEnforcer

EnforcerPublish(r) ==
  /\ enforcer[r] = "publish"
  /\ receipts' = [receipts EXCEPT ![r] = @ \cup {"detection"}]
  /\ SetEnforcer(r, "teardown")
  /\ UNCHANGED <<disk, prov, orphan, oldBoot, kernel, memory>> /\ NotEnforcer

EnforcerTeardown(r) ==
  /\ enforcer[r] = "teardown"
  /\ bnd' = IF r \in orphan THEN bnd ELSE bnd \ {r}
  /\ SetEnforcer(r, "leave")
  /\ UNCHANGED <<durable, cg, open, held, memory>> /\ NotEnforcer

(* Faulty variant: the failure path misses the finally clause.             *)
EnforcerMarkFailedOnly(r) ==
  /\ enforcer[r] = "failing" /\ lock[r] = "free"
  /\ IF disk[r] \in ActiveStates
       THEN Store(r, "CONTAINMENT_FAILED") ELSE UNCHANGED <<disk, active, prov>>
  /\ SetEnforcer(r, "none")
  /\ UNCHANGED <<receipts, orphan, oldBoot, kernel, completed, owned, containing,
                 lock, rec, ready>>
  /\ NotEnforcer

(* _mark_discovered_runs_containment_failed touches active records only.   *)
EnforcerMarkFailed(r) ==
  /\ enforcer[r] = "failing" /\ lock[r] = "free"
  /\ IF disk[r] \in ActiveStates
       THEN Store(r, "CONTAINMENT_FAILED") ELSE UNCHANGED <<disk, active, prov>>
  /\ SetEnforcer(r, "leave")
  /\ UNCHANGED <<receipts, orphan, oldBoot, kernel, completed, owned, containing,
                 lock, rec, ready>>
  /\ NotEnforcer

EnforcerLeave(r) ==
  /\ enforcer[r] = "leave"
  /\ containing' = containing \ {r}
  /\ SetEnforcer(r, "none")
  /\ UNCHANGED <<durable, kernel, active, completed, owned, lock, rec, ready>>
  /\ NotEnforcer

Enforcer(r) ==
  \/ EnforcerYield(r) \/ EnforcerBarrier(r) \/ EnforcerCapture(r) \/ EnforcerProved(r)
  \/ EnforcerFail(r) \/ EnforcerMark(r) \/ EnforcerPublish(r) \/ EnforcerTeardown(r)
  \/ EnforcerMarkFailed(r) \/ EnforcerLeave(r)

-----------------------------------------------------------------------------
(* _start.  The serving thread runs one request at a time.                 *)

NotMain == UNCHANGED <<todo, attempt, enforcer, con, crashes>>
NoGuard == UNCHANGED <<watcher, listener>>

(* Faulty variant: the admission index is not consulted.                   *)
StartAdmitAlways(r) ==
  /\ main = "idle" /\ cg[r] = "none" /\ disk[r] = "NONE"
  /\ main' = "prepared" /\ cur' = r
  /\ bnd' = bnd \cup {r}
  /\ UNCHANGED <<durable, cg, open, held, memory>> /\ NoGuard /\ NotMain

StartAdmit(r) ==
  /\ main = "idle" /\ active = {} /\ cg[r] = "none" /\ disk[r] = "NONE"
  /\ main' = "prepared" /\ cur' = r
  /\ bnd' = bnd \cup {r}
  /\ UNCHANGED <<durable, cg, open, held, memory>> /\ NoGuard /\ NotMain

(* systemd-run; when it fails nothing was launched and the run is spent.   *)
(* The check of the account before it leaves the namespaces behind.        *)
StartLaunch ==
  /\ main = "prepared"
  /\ \/ /\ cg' = [cg EXCEPT ![cur] = "populated"]
        /\ main' = "launched" /\ UNCHANGED <<cur, bnd>>
     \/ /\ "launch" \in Faults
        /\ cg' = [cg EXCEPT ![cur] = "collected"]
        /\ bnd' \in {bnd \ {cur}, bnd} /\ main' = "idle" /\ cur' = NoRun
  /\ UNCHANGED <<durable, open, held, memory>> /\ NoGuard /\ NotMain

StartStore ==
  /\ main = "launched" /\ ~Gone(cur)
  /\ Store(cur, "STARTING") /\ rec' = [rec EXCEPT ![cur] = "STARTING"]
  /\ main' = "stored" /\ UNCHANGED cur
  /\ UNCHANGED <<receipts, orphan, oldBoot, kernel, completed, owned, containing,
                 lock, ready>>
  /\ NoGuard /\ NotMain

(* Only an approved launch records its provenance.                         *)
StartProvenance ==
  /\ main = "stored"
  /\ \E approved \in BOOLEAN : prov' = IF approved THEN prov \cup {cur} ELSE prov
  /\ main' = "linked" /\ UNCHANGED cur
  /\ UNCHANGED <<disk, receipts, orphan, oldBoot, kernel, memory>> /\ NoGuard /\ NotMain

StartListener ==
  /\ main = "linked" /\ ~Gone(cur)
  /\ SetListener(cur, "polling") /\ UNCHANGED watcher
  /\ main' = "listening" /\ UNCHANGED cur
  /\ Quiet /\ NotMain

StartWatcher ==
  /\ main = "listening"
  /\ SetWatcher(cur, "arming") /\ UNCHANGED listener
  /\ main' = "watching" /\ UNCHANGED cur
  /\ Quiet /\ NotMain

StartReady ==
  /\ main = "watching" /\ cur \in ready
  /\ main' = "armed" /\ UNCHANGED cur
  /\ Quiet /\ NoGuard /\ NotMain

StartRelease ==
  /\ main = "armed" /\ ~Gone(cur)
  /\ open' = open \cup {cur}
  /\ main' = "released" /\ UNCHANGED cur
  /\ UNCHANGED <<durable, cg, held, bnd, memory>> /\ NoGuard /\ NotMain

(* No lock is held over the next five steps, and the record is shared with *)
(* the two threads that may be ending the run: test the state, set it,     *)
(* write it, test what it says by then, and index the run.                 *)
StartCheck ==
  /\ main = "released"
  /\ IF rec[cur] \in ActiveStates
       THEN main' = "checked" /\ UNCHANGED cur
       ELSE main' = "idle" /\ cur' = NoRun
  /\ Quiet /\ NoGuard /\ NotMain

StartSetRunning ==
  /\ main = "checked"
  /\ rec' = [rec EXCEPT ![cur] = "RUNNING"]
  /\ main' = "writing" /\ UNCHANGED cur
  /\ UNCHANGED <<durable, kernel, active, completed, owned, containing, lock, ready>>
  /\ NoGuard /\ NotMain

StartWriteRunning ==
  /\ main = "writing"
  /\ disk' = [disk EXCEPT ![cur] = "RUNNING"]
  /\ main' = "indexing" /\ UNCHANGED cur
  /\ UNCHANGED <<receipts, prov, orphan, oldBoot, kernel, memory>> /\ NoGuard /\ NotMain

StartIndex ==
  /\ main = "indexing"
  /\ IF rec[cur] \in ActiveStates
       THEN main' = "adding" /\ UNCHANGED <<active, prov, cur>>
       ELSE /\ active' = active \ {cur} /\ prov' = prov \ {cur}
            /\ main' = "idle" /\ cur' = NoRun
  /\ UNCHANGED <<disk, receipts, orphan, oldBoot, kernel, completed, owned, containing,
                 lock, rec, ready>>
  /\ NoGuard /\ NotMain

(* What was tested may have ended since: the run is indexed all the same,  *)
(* but its provenance is removed by a second look.                         *)
StartAdd ==
  /\ main = "adding"
  /\ active' = active \cup {cur}
  /\ prov' = IF rec[cur] \in ActiveStates THEN prov ELSE prov \ {cur}
  /\ main' = "idle" /\ cur' = NoRun
  /\ UNCHANGED <<disk, receipts, orphan, oldBoot, kernel, completed, owned, containing,
                 lock, rec, ready>>
  /\ NoGuard /\ NotMain

(* The rollback of a failed start: provenance, best-effort kill, boundary. *)
(* The record stays as it was last stored.                                 *)
StartMayFail ==
  \/ /\ main \in {"launched", "stored", "linked", "listening", "watching", "armed"}
     /\ "launch" \in Faults \/ Gone(cur)
  \/ main = "writing" /\ "write" \in Faults

StartFail ==
  /\ StartMayFail
  /\ prov' = prov \ {cur} /\ bnd' = bnd \ {cur}
  /\ \E left \in {"populated", "emptied"} :
       /\ left = "populated" => "survivors" \in Faults
       /\ cg' = IF Gone(cur) THEN cg ELSE [cg EXCEPT ![cur] = left]
  /\ main' = "idle" /\ cur' = NoRun
  /\ UNCHANGED <<disk, receipts, orphan, oldBoot, open, held, memory>>
  /\ NoGuard /\ NotMain

Start ==
  \/ \E r \in Runs : StartAdmit(r)
  \/ StartLaunch \/ StartStore \/ StartProvenance \/ StartListener \/ StartWatcher
  \/ StartReady \/ StartRelease \/ StartCheck \/ StartSetRunning
  \/ StartWriteRunning \/ StartIndex \/ StartAdd \/ StartFail

-----------------------------------------------------------------------------
(* The operator's kill: _load accepts an active record, _contain does the  *)
(* rest, with a copy of the record that can be out of date by then.        *)

Kill(r) ==
  /\ main = "idle" /\ disk[r] \in ActiveStates
  /\ main' = "killing" /\ cur' = r /\ Step(r, "main", "enter")
  /\ Quiet /\ UNCHANGED <<todo, guards, enforcer, crashes>>

(* Faulty variant: an exception out of _contain ends the serving loop.     *)
KillDoneUnraised ==
  /\ main = "killing" /\ con[cur]["main"] = "returned"
  /\ main' = "idle" /\ cur' = NoRun /\ Step(cur, "main", "out")
  /\ Quiet /\ UNCHANGED <<todo, guards, enforcer, crashes>>

KillDone ==
  /\ main = "killing" /\ con[cur]["main"] \in Raised \cup {"returned"}
  /\ main' = "idle" /\ cur' = NoRun /\ Step(cur, "main", "out")
  /\ Quiet /\ UNCHANGED <<todo, guards, enforcer, crashes>>

-----------------------------------------------------------------------------
(* _recover, before any socket is exposed and any other thread runs.       *)

NotRecover == UNCHANGED <<guards, enforcer, crashes>>
ToRecover(s) == todo' = s /\ main' = "recover" /\ cur' = NoRun

(* The supervisor starts; systemd has emptied its old service cgroup, and  *)
(* with it the quarantine.                                                 *)
Boot ==
  /\ main = "down"
  /\ held' = {} /\ ToRecover({r \in Runs : disk[r] # "NONE"})
  /\ UNCHANGED <<durable, cg, open, bnd, memory, con>> /\ NotRecover

(* Faulty variant: a failed containment is taken for an end.               *)
RecoverTerminalAny(r) ==
  /\ main = "recover" /\ r \in todo /\ disk[r] \in TerminalStates
  /\ bnd' = IF r \in orphan THEN bnd ELSE bnd \ {r}
  /\ ToRecover(todo \ {r})
  /\ UNCHANGED <<durable, cg, open, held, memory, con>> /\ NotRecover

RecoverTerminal(r) ==
  /\ main = "recover" /\ r \in todo /\ disk[r] \in EmptyTerminal
  /\ bnd' = IF r \in orphan THEN bnd ELSE bnd \ {r}
  /\ ToRecover(todo \ {r})
  /\ UNCHANGED <<durable, cg, open, held, memory, con>> /\ NotRecover

(* A failed containment is made active again before it is retried.         *)
RecoverContain(r) ==
  /\ main = "recover" /\ r \in todo \ oldBoot
  /\ disk[r] \notin EmptyTerminal
  /\ disk' = IF disk[r] = "CONTAINMENT_FAILED" THEN [disk EXCEPT ![r] = "RUNNING"] ELSE disk
  /\ active' = active \cup {r}
  /\ main' = "recovering" /\ cur' = r /\ todo' = todo \ {r}
  /\ Step(r, "main", "enter")
  /\ UNCHANGED <<receipts, prov, orphan, oldBoot, kernel, completed, owned, containing,
                 lock, rec, ready>>
  /\ NotRecover

RecoverContained ==
  /\ main \in {"recovering", "adopting"} /\ con[cur]["main"] = "returned"
  /\ Step(cur, "main", "out") /\ ToRecover(todo)
  /\ Quiet /\ NotRecover

(* _complete_recovered_empty: an earlier boot, or a failed containment of  *)
(* a cgroup that is exactly empty now.                                     *)
Restore(r) ==
  /\ Store(r, "RUNNING")
  /\ main' = "completing" /\ cur' = r
  /\ UNCHANGED <<receipts, orphan, oldBoot, kernel, completed, owned, containing,
                 lock, rec, ready>>

RecoverOldBoot(r) ==
  /\ main = "recover" /\ r \in todo \cap oldBoot /\ disk[r] \notin EmptyTerminal
  /\ Restore(r) /\ todo' = todo \ {r}
  /\ UNCHANGED con /\ NotRecover

RecoverEmpty ==
  /\ main = "recovering" /\ con[cur]["main"] \in {"unavailable", "survivors"}
  /\ Gone(cur)
  /\ Restore(cur) /\ Step(cur, "main", "out") /\ UNCHANGED todo
  /\ NotRecover

RecoverComplete ==
  /\ main = "completing" /\ disk[cur] \in ActiveStates
  /\ CompleteStore(cur, "main")
  /\ UNCHANGED <<serving, con>> /\ NotRecover

RecoverTeardown ==
  /\ main = "completing" /\ CompleteTeardown(cur, "main")
  /\ ToRecover(todo) /\ UNCHANGED con
  /\ NotRecover

(* An owned cgroup without a record is contained under a record made up    *)
(* for it, which knows no boundary.                                        *)
RecoverOrphan(r) ==
  /\ main = "recover" /\ todo = {}
  /\ disk[r] = "NONE" /\ cg[r] \in {"populated", "emptied"}
  /\ orphan' = orphan \cup {r}
  /\ main' = "adopting" /\ cur' = r /\ UNCHANGED todo
  /\ Step(r, "main", "enter")
  /\ UNCHANGED <<disk, receipts, prov, oldBoot, kernel, memory>> /\ NotRecover

RecoverDone ==
  /\ main = "recover" /\ todo = {}
  /\ \A r \in Runs : disk[r] = "NONE" => cg[r] \in {"none", "collected"}
  /\ main' = "idle" /\ UNCHANGED <<cur, todo, con>>
  /\ Quiet /\ NotRecover

-----------------------------------------------------------------------------
(* The end of a supervisor's life: its memory and its threads are lost.    *)

Forget ==
  /\ active' = {} /\ completed' = {} /\ owned' = {} /\ containing' = {} /\ ready' = {}
  /\ lock' = [r \in Runs |-> "free"] /\ rec' = [r \in Runs |-> "NONE"]
  /\ main' = "down" /\ cur' = NoRun /\ todo' = {}
  /\ watcher' = [r \in Runs |-> "none"] /\ attempt' = [r \in Runs |-> 0]
  /\ listener' = [r \in Runs |-> "none"] /\ enforcer' = [r \in Runs |-> "none"]
  /\ con' = [r \in Runs |-> [k \in Callers |-> "out"]]

(* An exception out of _recover ends the process; systemd starts it again. *)
RecoverAbort ==
  /\ \/ main = "recovering" /\ con[cur]["main"] = "unreceipted"
     \/ main = "recovering" /\ con[cur]["main"] \in Raised /\ ~Gone(cur)
     \/ main = "adopting" /\ con[cur]["main"] \in Raised
  /\ Forget
  /\ UNCHANGED <<durable, kernel, crashes>>

Crash ==
  /\ main # "down" /\ crashes < MaxCrashes
  /\ crashes' = crashes + 1
  /\ Forget
  /\ UNCHANGED <<durable, kernel>>

(* The machine reboots: no process, cgroup or namespace survives.          *)
Reboot ==
  /\ crashes < MaxCrashes
  /\ crashes' = crashes + 1
  /\ Forget
  /\ oldBoot' = {r \in Runs : disk[r] # "NONE"}
  /\ cg' = [r \in Runs |-> IF cg[r] = "none" THEN "none" ELSE "collected"]
  /\ held' = {} /\ bnd' = {}
  /\ UNCHANGED <<disk, receipts, prov, orphan, open>>

Recover ==
  \/ \E r \in Runs : RecoverTerminal(r) \/ RecoverContain(r) \/ RecoverOldBoot(r)
                     \/ RecoverOrphan(r)
  \/ Boot \/ RecoverContained \/ RecoverEmpty \/ RecoverComplete \/ RecoverTeardown
  \/ RecoverDone \/ RecoverAbort

-----------------------------------------------------------------------------
(* The workload and systemd.                                               *)

EnvUnchanged ==
  UNCHANGED <<durable, open, bnd, memory, serving, guards, enforcer, con, crashes>>

Exit(r) ==
  /\ cg[r] = "populated"
  /\ cg' = [cg EXCEPT ![r] = "emptied"] /\ UNCHANGED held /\ EnvUnchanged

(* ExitType=cgroup and --collect: the emptied unit is removed.             *)
Collect(r) ==
  /\ cg[r] = "emptied"
  /\ cg' = [cg EXCEPT ![r] = "collected"] /\ UNCHANGED held /\ EnvUnchanged

(* A captured process dies of the SIGKILL it was sent.                     *)
HeldDies(r) ==
  /\ r \in held
  /\ held' = held \ {r} /\ UNCHANGED cg /\ EnvUnchanged

Environment == \E r \in Runs : Exit(r) \/ Collect(r) \/ HeldDies(r)

Next ==
  \/ Start
  \/ \E r \in Runs : Kill(r)
  \/ KillDone
  \/ \E r \in Runs, k \in Callers : Contain(r, k)
  \/ \E r \in Runs : Watcher(r) \/ Listener(r) \/ Detect(r) \/ Enforcer(r)
  \/ Recover
  \/ Crash \/ Reboot
  \/ Environment

Spec == Init /\ [][Next]_vars

-----------------------------------------------------------------------------
TypeOK ==
  /\ disk \in [Runs -> RunStates \cup {"NONE"}]
  /\ receipts \in [Runs -> SUBSET {"kill", "detection"}]
  /\ prov \subseteq Runs /\ orphan \subseteq Runs /\ oldBoot \subseteq Runs
  /\ cg \in [Runs -> CgStates]
  /\ open \subseteq Runs /\ held \subseteq Runs /\ bnd \subseteq Runs
  /\ active \subseteq Runs /\ completed \subseteq Runs /\ owned \subseteq Runs
  /\ containing \subseteq Runs /\ ready \subseteq Runs
  /\ lock \in [Runs -> Callers \cup {"free"}]
  /\ rec \in [Runs -> RunStates \cup {"NONE"}]
  /\ main \in MainSteps /\ cur \in Runs \cup {NoRun} /\ todo \subseteq Runs
  /\ watcher \in [Runs -> {"none", "arming", "polling", "contain", "mark",
                           "teardown", "exited"}]
  /\ attempt \in [Runs -> 0..2]
  /\ listener \in [Runs -> {"none", "polling", "contain", "last", "mark",
                            "teardown", "exited"}]
  /\ enforcer \in [Runs -> {"none", "barrier", "capture", "captured", "mark",
                            "publish", "teardown", "failing", "leave"}]
  /\ con \in [Runs -> [Callers -> ConSteps]]
  /\ crashes \in 0..MaxCrashes

-----------------------------------------------------------------------------
(* Properties.                                                             *)

(* A kill receipt is published only after the run's cgroup was proved      *)
(* empty, and nothing revives that cgroup: _contain writes the receipt     *)
(* after verify_empty, whichever of the three callers got there first and  *)
(* whatever the detector, a crash or a failed start did meanwhile.         *)
KillReceiptAfterEmptiness ==
  \A r \in Runs : "kill" \in receipts[r] => Gone(r)

(* A run is recorded as an allowed completion only when none of its        *)
(* processes exists, in its own cgroup or in the detector's quarantine:    *)
(* the emptied cgroup of a run whose processes were just captured must not *)
(* pass for a benign exit (_mark_completed against _enforce_discovery).    *)
AllowedOnlyWhenGone ==
  [][\A r \in Runs : disk'[r] = "COMPLETED_ALLOWED" /\ disk[r] # "COMPLETED_ALLOWED"
       => Gone(r) /\ r \notin held]_vars

(* Once _recover let the sockets open, no record of an earlier life is     *)
(* still active or a failed containment: nothing is adopted, whatever      *)
(* crash or reboot interrupted which step before.                          *)
NoAdoption ==
  main \notin RecoverySteps =>
    \A r \in Runs : disk[r] # "NONE" /\ rec[r] = "NONE" => disk[r] \in EmptyTerminal

(* A run that ended while _start was indexing it blocks every later start. *)
(* A restart frees the index: _recover puts failed containments and old    *)
(* runs back into it before it retries or completes them, and whatever     *)
(* crash interrupts it, no name is left when the sockets open.             *)
RestartFreesIndex ==
  [][main = "recover" /\ main' = "idle" => active' = {}]_vars

(* Two workloads are alive at once only if the end of one of them is       *)
(* already on record, durably or in the record its threads share, as a     *)
(* containment that failed or was incomplete; or if a launch failed before *)
(* its record was written.  Otherwise the index refuses the second start,  *)
(* through failed starts, kills, restarts and the detector.  Recovery is   *)
(* apart: it makes failed containments active again, before any request.   *)
EndOnRecord(r) == disk[r] \in TerminalStates \cup {"NONE"} \/ rec[r] \in TerminalStates

OneActiveWorkload ==
  main \notin RecoverySteps =>
    \A r, s \in Runs : ~Gone(r) /\ ~Gone(s) /\ ~EndOnRecord(r) /\ ~EndOnRecord(s) => r = s

(* The locks order the threads without stopping them: when no thread can   *)
(* take a step the serving thread is waiting for a request and every other *)
(* thread has ended or waits for an event, holding nothing.                *)
Working ==
  \/ Start \/ KillDone \/ Recover
  \/ \E r \in Runs : Kill(r) \/ Watcher(r) \/ Listener(r) \/ Enforcer(r)
                     \/ \E k \in Callers : Contain(r, k)

NeverStuck ==
  ~ENABLED Working =>
    /\ main = "idle" /\ containing = {} /\ owned = {}
    /\ \A r \in Runs : lock[r] = "free" /\ enforcer[r] = "none"

(* What supervisor.py says of the two receipts, and what the races break.  *)
(* "External readers must never observe a kill receipt alongside RUNNING   *)
(* or COMPLETED_ALLOWED state for the same owned workload" (_contain).     *)
KillReceiptStands ==
  \A r \in Runs : "kill" \in receipts[r] => disk[r] \notin {"RUNNING", "COMPLETED_ALLOWED"}

(* "once a kill receipt is visible, every affected owned run must already  *)
(* have the unambiguous TERMINATED state" (_enforce_discovery).            *)
DetectionReceiptStands ==
  \A r \in Runs : "detection" \in receipts[r] => disk[r] = "TERMINATED"

-----------------------------------------------------------------------------
(* Every thread keeps running, systemd collects what is empty, and a       *)
(* process that was sent SIGKILL dies.  No request, evidence, error, exit  *)
(* or crash is assumed.                                                    *)
Fairness ==
  /\ WF_vars(StartLaunch \/ StartStore \/ StartProvenance \/ StartListener
             \/ StartWatcher \/ StartReady \/ StartRelease \/ StartCheck
             \/ StartSetRunning \/ StartWriteRunning \/ StartIndex \/ StartAdd
             \/ StartFail)
  /\ WF_vars(KillDone) /\ WF_vars(Recover)
  /\ \A r \in Runs :
       /\ WF_vars(WatcherArm(r) \/ WatcherContained(r) \/ WatcherRaised(r)
                  \/ WatcherCollected(r) \/ WatcherRefused(r) \/ WatcherTeardown(r))
       /\ WF_vars(ListenerContained(r) \/ ListenerAgain(r) \/ ListenerLast(r)
                  \/ ListenerRefused(r) \/ ListenerTeardown(r))
       /\ WF_vars(WatcherComplete(r)) /\ WF_vars(ListenerComplete(r))
       /\ WF_vars(Enforcer(r))
       /\ \A k \in Callers : WF_vars(Contain(r, k))
       /\ WF_vars(Collect(r)) /\ WF_vars(HeldDies(r))

FairSpec == Spec /\ Fairness

(* A start or a kill is answered, whoever else holds the run's lock.       *)
RequestsAnswered ==
  main \in StartSteps \cup {"killing"} ~> main \in {"idle", "down"}

(* The detector's barrier over a run is lifted, so the run can be settled. *)
BarrierLifted == \A r \in Runs : r \in containing ~> r \notin containing

(* A watcher that saw a violation sees it through: the workload is gone,   *)
(* or the failure is on record, or the supervisor died.                    *)
TripSettled ==
  \A r \in Runs : con[r]["watcher"] = "enter" ~>
    Gone(r) \/ disk[r] \in TerminalStates \/ main = "down"

=============================================================================
