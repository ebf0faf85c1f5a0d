------------------------------ MODULE Watchdog ------------------------------
(***************************************************************************)
(* The heartbeat (supervisor.py) and the watchdog (watchdog.py).  The      *)
(* supervisor beats only while its discovery is fresh and its stores are   *)
(* sound; without a beat for the timeout, or with an installation that is  *)
(* not the installed one, the watchdog kills every owned workload and the  *)
(* supervisor, which systemd starts again.  Time passes in Ticks, and only *)
(* when nothing is due: a thread that is ready runs within a Tick.         *)
(***************************************************************************)
EXTENDS Naturals, Sequences

CONSTANTS
  ScanHealth,   \* SCAN_HEALTH_TIMEOUT_NS, like the rest in Ticks
  MaxFailures,  \* MAX_DISCOVERY_FAILURES
  Timeout,      \* HEARTBEAT_TIMEOUT_SECONDS
  Grace,        \* STARTUP_GRACE_SECONDS
  Gap,          \* the gap after which a sequence may start again
  Interval,     \* INTEGRITY_INTERVAL_SECONDS
  KillTime,     \* bound on _fail_closed
  MaxSequence,  \* bound: beats of one supervisor
  MaxAge,       \* bound: times are told apart up to here
  DogFaults     \* bound: kills and receipts that fail, processes that die

ASSUME DogAssumption ==
  /\ ScanHealth \in Nat /\ Timeout \in Nat /\ Grace \in Nat /\ Gap \in Nat
  /\ Interval \in Nat /\ KillTime \in Nat /\ MaxAge \in Nat
  /\ Grace <= Timeout + 1

VARIABLES
  sup,          \* the supervisor: "down", "prepare" or "serve"
  scanAge,      \* since its last completed scan
  failures, sound, saturated, sequence,
  queue,        \* datagrams
  dog,          \* the watchdog: "down", "serve", "kill", "receipt", "signal"
  dogAge, dogSequence, beatAge, checkAge,
  busy,         \* how long it has been killing
  intact,       \* the installed files are those of the manifest
  workload,     \* an owned workload lives
  stale,        \* since any supervisor completed a scan
  sentAge,      \* since any supervisor sent a beat
  escaped,      \* since then, a kill of the watchdog's failed or a workload was
                \* started behind it
  dogFaults

supVars  == <<sup, scanAge, failures, sound, saturated, sequence>>
dogState == <<dog, dogAge, dogSequence, beatAge, checkAge, busy>>
ages     == <<stale, sentAge>>
dogVars  == <<supVars, queue, dogState, intact, workload, ages, escaped, dogFaults>>

DogInit ==
  /\ sup = "prepare" /\ scanAge = MaxAge /\ failures = 0 /\ sound = TRUE /\ saturated = FALSE
  /\ sequence = 0 /\ queue = <<>>
  /\ dog = "serve" /\ dogAge = 0 /\ dogSequence = 0 /\ beatAge = 0 /\ checkAge = Interval /\ busy = 0
  /\ intact = TRUE /\ workload = FALSE /\ stale = 0 /\ sentAge = 0 /\ escaped = FALSE
  /\ dogFaults = 0

Older(n) == IF n < MaxAge THEN n + 1 ELSE MaxAge
DogFault == dogFaults < DogFaults /\ dogFaults' = dogFaults + 1

-----------------------------------------------------------------------------
(* _scan_synchronously before serving, and _discovery_loop while it does.  *)
ScanDone ==
  /\ sup # "down" /\ scanAge' = 0 /\ stale' = 0 /\ failures' = 0 /\ sup' = "serve"
  /\ escaped' = FALSE
  /\ UNCHANGED <<sound, saturated, sequence, queue, dogState, intact, workload, sentAge, dogFaults>>

(* The one at start-up ends the supervisor, any other is counted.          *)
ScanFailed ==
  /\ \/ sup = "serve" /\ failures < MaxFailures /\ failures' = failures + 1 /\ UNCHANGED sup
     \/ sup = "prepare" /\ sup' = "down" /\ UNCHANGED failures
  /\ UNCHANGED <<scanAge, sound, saturated, sequence, queue, dogState, intact, workload, ages,
                 escaped, dogFaults>>

(* A receipt or an incident cannot be stored; no enforcement slot is left. *)
Unsound ==
  /\ sup = "serve" /\ sound /\ sound' = FALSE
  /\ UNCHANGED <<sup, scanAge, failures, saturated, sequence, queue, dogState, intact, workload,
                 ages, escaped, dogFaults>>

Saturate ==
  /\ sup = "serve" /\ ~saturated /\ saturated' = TRUE
  /\ UNCHANGED <<sup, scanAge, failures, sound, sequence, queue, dogState, intact, workload, ages,
                 escaped, dogFaults>>

SupHealthy == scanAge <= ScanHealth /\ failures < MaxFailures /\ sound /\ ~saturated

(* Mutant: a beat says that the process runs, not that it scans.           *)
BeatAlive ==
  /\ sup = "serve" /\ sound /\ ~saturated /\ sequence < MaxSequence /\ queue = <<>>
  /\ sequence' = sequence + 1 /\ sentAge' = 0
  /\ queue' = IF dog = "down" THEN queue ELSE Append(queue, sequence')
  /\ UNCHANGED <<sup, scanAge, failures, sound, saturated, dogState, intact, workload, stale,
                 escaped, dogFaults>>

(* _heartbeat; to no socket it is lost.                                    *)
Beat ==
  /\ sup = "serve" /\ SupHealthy /\ sequence < MaxSequence /\ queue = <<>>
  /\ sequence' = sequence + 1 /\ sentAge' = 0
  /\ queue' = IF dog = "down" THEN queue ELSE Append(queue, sequence')
  /\ UNCHANGED <<sup, scanAge, failures, sound, saturated, dogState, intact, workload, stale,
                 escaped, dogFaults>>

SupDies ==
  /\ sup # "down" /\ DogFault /\ sup' = "down"
  /\ UNCHANGED <<scanAge, failures, sound, saturated, sequence, queue, dogState, intact, workload,
                 ages, escaped>>

SupRestart ==
  /\ sup = "down" /\ sup' = "prepare" /\ scanAge' = MaxAge /\ failures' = 0 /\ sound' = TRUE
  /\ saturated' = FALSE /\ sequence' = 0
  /\ UNCHANGED <<queue, dogState, intact, workload, ages, escaped, dogFaults>>

(* A start that comes between _targets and the signal is not killed.       *)
Workload ==
  /\ \/ /\ ~workload /\ sup = "serve" /\ workload' = TRUE
        /\ escaped' = (escaped \/ dog \in {"receipt", "signal"})
     \/ workload /\ workload' = FALSE /\ UNCHANGED escaped
  /\ UNCHANGED <<supVars, queue, dogState, intact, ages, dogFaults>>

Tamper ==
  /\ intact /\ DogFault /\ intact' = FALSE
  /\ UNCHANGED <<supVars, queue, dogState, workload, ages, escaped>>

-----------------------------------------------------------------------------
(* One round of serve: a beat counts unless it repeats one within the gap. *)
Stray == Head(queue) <= dogSequence /\ beatAge < Gap

Receive ==
  /\ dog = "serve" /\ queue # <<>> /\ queue' = Tail(queue)
  /\ IF Stray THEN UNCHANGED <<dogSequence, beatAge>>
     ELSE dogSequence' = Head(queue) /\ beatAge' = 0
  /\ UNCHANGED <<supVars, dog, dogAge, checkAge, busy, intact, workload, ages, escaped, dogFaults>>

CheckDue == dog = "serve" /\ checkAge >= Interval
LateDue  == dog = "serve" /\ ~CheckDue /\ dogAge >= Grace /\ beatAge > Timeout

(* A mismatch counts as a beat from when it is found.                      *)
Check ==
  /\ CheckDue /\ checkAge' = 0 /\ busy' = 0
  /\ IF intact THEN dog' = "serve" /\ UNCHANGED beatAge ELSE dog' = "kill" /\ beatAge' = 0
  /\ UNCHANGED <<supVars, queue, dogAge, dogSequence, intact, workload, ages, escaped, dogFaults>>

Late ==
  /\ LateDue /\ queue = <<>> /\ dog' = "kill" /\ busy' = 0
  /\ UNCHANGED <<supVars, queue, dogAge, dogSequence, beatAge, checkAge, intact, workload, ages,
                 escaped, dogFaults>>

(* _fail_closed: every owned cgroup, the receipt, then the supervisor.     *)
FailClosed ==
  /\ dog = "kill" /\ dog' = "receipt"
  /\ \/ workload' = FALSE /\ UNCHANGED <<escaped, dogFaults>>
     \/ workload /\ DogFault /\ escaped' = TRUE /\ UNCHANGED workload
  /\ UNCHANGED <<supVars, queue, dogAge, dogSequence, beatAge, checkAge, busy, intact, ages>>

Recorded ==
  /\ dog = "receipt"
  /\ \/ dog' = "signal" /\ UNCHANGED dogFaults
     \/ DogFault /\ dog' = "down"
  /\ UNCHANGED <<supVars, queue, dogAge, dogSequence, beatAge, checkAge, busy, intact, workload,
                 ages, escaped>>

(* A lost heartbeat counts as one from when it has been dealt with.        *)
Signal ==
  /\ dog = "signal" /\ dog' = "serve" /\ beatAge' = (IF beatAge > busy THEN 0 ELSE beatAge)
  /\ \/ sup' = "down" /\ UNCHANGED <<escaped, dogFaults>>
     \/ sup # "down" /\ DogFault /\ escaped' = TRUE /\ UNCHANGED sup
  /\ UNCHANGED <<scanAge, failures, sound, saturated, sequence, queue, dogAge, dogSequence, checkAge,
                 busy, intact, workload, ages>>

DogDies ==
  /\ dog # "down" /\ DogFault /\ dog' = "down"
  /\ UNCHANGED <<supVars, queue, dogAge, dogSequence, beatAge, checkAge, busy, intact, workload,
                 ages, escaped>>

(* A new process, and a new socket: what was queued is gone.               *)
DogRestart ==
  /\ dog = "down" /\ dog' = "serve" /\ queue' = <<>>
  /\ dogAge' = 0 /\ dogSequence' = 0 /\ beatAge' = 0 /\ checkAge' = Interval
  /\ busy' = 0
  /\ UNCHANGED <<supVars, intact, workload, ages, escaped, dogFaults>>

Killing == dog \in {"kill", "receipt", "signal"}

(* Time does not pass over a watchdog that has something to do, nor for    *)
(* long while it kills.                                                    *)
Tick ==
  /\ dog = "serve" => queue = <<>> /\ ~CheckDue /\ ~LateDue
  /\ Killing => busy < KillTime
  /\ stale < MaxAge
  /\ scanAge' = Older(scanAge) /\ stale' = stale + 1 /\ sentAge' = Older(sentAge)
  /\ dogAge' = Older(dogAge) /\ beatAge' = Older(beatAge) /\ checkAge' = Older(checkAge)
  /\ saturated' = FALSE /\ busy' = IF Killing THEN busy + 1 ELSE 0
  /\ UNCHANGED <<sup, failures, sound, sequence, queue, dog, dogSequence, intact, workload, escaped,
                 dogFaults>>

DogNext ==
  \/ ScanDone \/ ScanFailed \/ Unsound \/ Saturate \/ Beat \/ SupDies \/ SupRestart \/ Workload
  \/ Tamper \/ Receive \/ Check \/ Late \/ FailClosed \/ Recorded \/ Signal \/ DogDies \/ DogRestart
  \/ Tick

DogSpec == DogInit /\ [][DogNext]_dogVars

-----------------------------------------------------------------------------
(* How old the last scan may be when the watchdog starts to wait: a beat's *)
(* or one that was made while it killed.                                   *)
Credit == IF ScanHealth > KillTime THEN ScanHealth ELSE KillTime

(* An owned workload never lives on without discovery for longer than that *)
(* plus the timeout and the kill, whatever fails in the supervisor, unless *)
(* a kill of the watchdog's own fails, it is a new process or the workload *)
(* came while it was killing.  And it gives up only on a supervisor that   *)
(* has not beaten: no beat of a restarted one is rejected for longer than  *)
(* the gap.                                                                *)
ProtectionIsRecent ==
  /\ workload /\ ~escaped /\ dogAge > Timeout + 1 + KillTime /\ dog # "down"
       => stale <= Credit + Timeout + 1 + KillTime
  /\ LateDue /\ queue = <<>> => sentAge + Gap > Timeout
=============================================================================
