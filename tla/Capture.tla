------------------------------ MODULE Capture ------------------------------
(***************************************************************************)
(* contain_many (src/src/lumi_eggcracker/adoption.py): the supervisor      *)
(* stops what it found, follows the children of a tree that goes on        *)
(* forking and dying, moves all of it to one quarantine cgroup and kills   *)
(* that.  One step per call that touches a process, between any two of     *)
(* which the processes run on.                                             *)
(***************************************************************************)
EXTENDS Naturals, FiniteSets

CONSTANTS
  Procs,         \* identities (pid and start time) there may ever be
  Reaper,        \* the parent of those whose parent died
  MaxCaptured,   \* MAX_CAPTURED
  CapFaults      \* subset of {"root", "time", "survive"}

ASSUME CaptureAssumption == Reaper \notin Procs

VARIABLES
  born, alive,   \* processes that were ever started, that live
  suspended,     \* living processes that took a SIGSTOP
  dying,         \* living processes that took a SIGKILL
  parent,        \* the parent of a process, Reaper when it has died
  cell,          \* the cgroup of a process: "host" or "quarantine"
  cat,           \* what contain_many is at
  roots,         \* its targets
  captured, stopped, fixed,
  seen, todo,    \* the walk of `descendants', and the loops over the captured
  quarantine,    \* the cgroup of this event exists
  capOut         \* what it returned: "none", "TERMINATED" or "RAISED"

world   == <<born, alive, suspended, dying, parent, cell>>
mine    == <<cat, roots, captured, stopped, fixed, seen, todo, quarantine, capOut>>
capVars == <<world, mine>>

CaptureInit ==
  /\ born \in (SUBSET Procs) \ {{}} /\ alive = born /\ suspended = {} /\ dying = {}
  /\ parent = [p \in Procs |-> Reaper] /\ cell = [p \in Procs |-> "host"]
  /\ cat = "bind" /\ roots = born /\ captured = roots /\ stopped = {} /\ fixed = 0
  /\ seen = {} /\ todo = roots /\ quarantine = FALSE /\ capOut = "none"

Children(p) == IF p \in alive THEN {c \in alive : parent[c] = p} ELSE {}

(* The kernel: those that die leave their children to the reaper; one that *)
(* is killed may be a while in dying.                                      *)
Dead(ps, late) ==
  /\ alive' = alive \ (ps \ late) /\ suspended' = suspended \ ps
  /\ dying' = (dying \ ps) \cup late
  /\ parent' = [p \in Procs |-> IF parent[p] \in ps \ late THEN Reaper ELSE parent[p]]
  /\ UNCHANGED <<born, cell>>

Killed(ps) == \E late \in IF "survive" \in CapFaults THEN SUBSET ps ELSE {{}} : Dead(ps, late)

Fork(p, c) ==
  /\ p \in alive \ (suspended \cup dying) /\ c \notin born
  /\ born' = born \cup {c} /\ alive' = alive \cup {c}
  /\ parent' = [parent EXCEPT ![c] = p] /\ cell' = [cell EXCEPT ![c] = cell[p]]
  /\ UNCHANGED <<suspended, dying, mine>>

Exit(p) == p \in alive /\ Dead({p}, {}) /\ UNCHANGED mine

-----------------------------------------------------------------------------
CatAt(l) == cat' = l
Fail    == cat' = "undo" /\ todo' = captured

(* open_pidfd of every root: one that is gone fails the whole.             *)
Bind(r) ==
  /\ cat = "bind" /\ r \in todo
  /\ IF r \in alive
     THEN /\ todo' = IF todo = {r} THEN roots ELSE todo \ {r}
          /\ CatAt(IF todo = {r} THEN "stop" ELSE "bind")
     ELSE Fail
  /\ UNCHANGED <<world, roots, captured, stopped, fixed, seen, quarantine, capOut>>

Suspend(p) ==
  /\ suspended' = suspended \cup ({p} \cap (alive \ dying))
  /\ stopped' = stopped \cup ({p} \cap alive)

(* stop_pidfd: one that has died since is passed over.                     *)
StopRoot(r) ==
  /\ cat = "stop" /\ r \in todo
  /\ Suspend(r)
  /\ IF todo # {r} THEN todo' = todo \ {r} /\ CatAt("stop")
     ELSE IF stopped' = {} THEN Fail
     ELSE todo' = {} /\ CatAt("make")
  /\ UNCHANGED <<born, alive, dying, parent, cell, roots, captured, fixed, seen, quarantine, capOut>>

Make ==
  /\ cat = "make"
  /\ \/ quarantine' = TRUE /\ CatAt("walk") /\ seen' = captured /\ todo' = captured
     \/ "root" \in CapFaults /\ Fail /\ UNCHANGED <<quarantine, seen>>
  /\ UNCHANGED <<world, roots, captured, stopped, fixed, capOut>>

(* One round of descendants: the children files of one process.            *)
Walk(p) ==
  /\ cat \in {"walk", "again"} /\ p \in todo
  /\ LET new == Children(p) \ seen IN
       IF Cardinality(seen \cup new) > MaxCaptured
       THEN Fail /\ UNCHANGED <<seen, captured>>
       ELSE LET left == (todo \ {p}) \cup new IN
            /\ seen' = seen \cup new
            /\ captured' = IF left = {} /\ cat = "walk" THEN seen' ELSE captured
            /\ IF left # {} THEN todo' = left /\ CatAt(cat)
               ELSE IF cat = "walk" THEN todo' = seen' \ stopped /\ CatAt("halt")
               ELSE todo' = {} /\ CatAt("decide")
  /\ UNCHANGED <<world, roots, stopped, fixed, quarantine, capOut>>

HaltOne(p) ==
  /\ cat = "halt" /\ p \in todo /\ Suspend(p)
  /\ todo' = todo \ {p}
  /\ UNCHANGED <<born, alive, dying, parent, cell, cat, roots, captured, fixed, seen, quarantine,
                 capOut>>

HaltEnd == /\ cat = "halt" /\ todo = {} /\ todo' = captured /\ CatAt("move")
          /\ UNCHANGED <<world, roots, captured, stopped, fixed, seen, quarantine, capOut>>

(* _move: one that is still the same goes to the quarantine.               *)
MoveOne(p) ==
  /\ cat = "move" /\ p \in todo
  /\ cell' = IF p \in alive THEN [cell EXCEPT ![p] = "quarantine"] ELSE cell
  /\ todo' = todo \ {p}
  /\ UNCHANGED <<born, alive, suspended, dying, parent, cat, roots, captured, stopped, fixed, seen,
                 quarantine, capOut>>

Moved == /\ cat = "move" /\ todo = {} /\ todo' = captured /\ seen' = captured /\ CatAt("again")
         /\ UNCHANGED <<world, roots, captured, stopped, fixed, quarantine, capOut>>

(* Mutant: whether all are stopped decides, not whether they are all.      *)
DecideStopped ==
  /\ cat = "decide"
  /\ IF captured \subseteq stopped
     THEN CatAt("kill") /\ UNCHANGED <<captured, fixed, seen, todo>>
     ELSE captured' = seen /\ fixed' = 0 /\ CatAt("walk") /\ todo' = seen /\ UNCHANGED seen
  /\ UNCHANGED <<world, roots, stopped, quarantine, capOut>>

(* The tree has not changed, and nobody in it can fork or it was seen so   *)
(* twice: kill.  Otherwise again, until the deadline.                      *)
Decide ==
  /\ cat = "decide"
  /\ LET same == seen = captured IN
     /\ captured' = seen /\ fixed' = IF same THEN fixed + 1 ELSE 0
     /\ \/ /\ same /\ (fixed' >= 2 \/ captured \subseteq stopped)
           /\ CatAt("kill") /\ todo' = {}
        \/ /\ ~(same /\ (fixed' >= 2 \/ captured \subseteq stopped))
           /\ \/ CatAt("walk") /\ todo' = captured'
              \/ "time" \in CapFaults /\ cat' = "undo" /\ todo' = captured'
  /\ UNCHANGED <<world, roots, stopped, seen, quarantine, capOut>>

Inmates == {p \in alive : cell[p] = "quarantine"}

KillCell ==
  /\ cat = "kill" /\ Killed(Inmates) /\ CatAt("verify")
  /\ UNCHANGED <<roots, captured, stopped, fixed, seen, todo, quarantine, capOut>>

(* verify_empty kills again until it is empty or its time is up; then the  *)
(* cgroup goes.                                                            *)
Verify ==
  /\ cat = "verify"
  /\ IF Inmates = {}
     THEN quarantine' = FALSE /\ capOut' = "TERMINATED" /\ CatAt("done") /\ UNCHANGED todo
     ELSE ((CatAt("kill") /\ UNCHANGED todo) \/ Fail) /\ UNCHANGED <<quarantine, capOut>>
  /\ UNCHANGED <<world, roots, captured, stopped, fixed, seen>>

(* Any error: whoever was captured is killed one by one, and the cgroup    *)
(* after that.                                                             *)
UndoOne(p) ==
  /\ cat = "undo" /\ p \in todo
  /\ Killed({p} \cap alive) /\ todo' = todo \ {p}
  /\ UNCHANGED <<cat, roots, captured, stopped, fixed, seen, quarantine, capOut>>

UndoEnd ==
  /\ cat = "undo" /\ todo = {}
  /\ IF quarantine THEN Killed(Inmates) ELSE UNCHANGED world
  /\ quarantine' = FALSE /\ capOut' = "RAISED" /\ CatAt("done")
  /\ UNCHANGED <<roots, captured, stopped, fixed, seen, todo>>

CaptureNext ==
  \/ \E p, c \in Procs : Fork(p, c)
  \/ \E p \in Procs : Exit(p) \/ Bind(p) \/ StopRoot(p) \/ Walk(p) \/ HaltOne(p) \/ MoveOne(p)
                      \/ UndoOne(p)
  \/ Make \/ HaltEnd \/ Moved \/ Decide \/ KillCell \/ Verify \/ UndoEnd

CaptureSpec == CaptureInit /\ [][CaptureNext]_capVars

-----------------------------------------------------------------------------
(* When the quarantine is killed, nobody who lives and was captured, or    *)
(* has a parent that was, is outside it: what forked while it was being    *)
(* captured is in it too.  A containment that reports success leaves none  *)
(* of them alive, and however it ends nobody is left suspended by it.      *)
CaptureIsClosed ==
  /\ cat = "kill" =>
       \A p \in alive : p \in captured \/ parent[p] \in captured => cell[p] = "quarantine"
  /\ capOut = "TERMINATED" => captured \cap alive = {}
  /\ cat = "done" => suspended = {}
=============================================================================
