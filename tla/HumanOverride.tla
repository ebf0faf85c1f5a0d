---------------------------- MODULE HumanOverride ----------------------------
(***************************************************************************)
(* The human-stop controller (experiments/human_override/model.py): one    *)
(* trusted writer of a record for each allocation, fenced by a generation, *)
(* an epoch and sequence numbers; the executions it admits; observations   *)
(* that age.  Commands are carried by others: late, twice or out of order. *)
(***************************************************************************)
EXTENDS Naturals, FiniteSets

CONSTANTS
  Allocations,
  Budget,        \* bound: commands each principal gives, by principal
  MaxInteger,    \* MAX_INTEGER
  Ttl,           \* OBSERVATION_TTL
  MaxRevision,   \* bound: launches and adapter calls
  StoreFaults    \* bound: writes of the state that fail or are cut short

VARIABLES
  disk, pending,   \* the state file, and the .pending file beside it
  up, storageOk,   \* a controller lives, and its storage_ok
  rows, observed,  \* its allocations and observations
  execution,           \* the executions
  sent,            \* commands given so far
  stops,           \* history: stops, resets and replacements that took effect
  storeFaults

overVars == <<disk, pending, up, storageOk, rows, observed, execution, sent, stops, storeFaults>>

Principals == DOMAIN Budget
NoObservation == [revision |-> 0, age |-> 0, state |-> "none"]
Fresh(g) == [generation |-> g, epoch |-> 0, latched |-> FALSE, approved |-> FALSE, control |-> TRUE,
             sequence |-> [p \in Principals |-> 0]]
Execution(g) == [generation |-> g, running |-> FALSE, remote |-> FALSE, launches |-> 0, revision |-> 1]

OverInit ==
  /\ disk = [a \in Allocations |-> Fresh(1)] /\ rows = disk
  /\ pending = FALSE /\ up = TRUE /\ storageOk = TRUE
  /\ observed = [a \in Allocations |-> NoObservation]
  /\ execution = [a \in Allocations |-> Execution(1)]
  /\ sent = {} /\ stops = [a \in Allocations |-> 0] /\ storeFaults = 0

(* A principal gives a command with the fences of the moment.              *)
Issue(p, op, a) ==
  /\ Cardinality({m \in sent : m.principal = p}) < Budget[p]
  /\ sent' = sent \cup {[principal |-> p, op |-> op, alloc |-> a,
                         generation |-> rows[a].generation, epoch |-> rows[a].epoch,
                         sequence |-> 1 + Cardinality({m \in sent : m.principal = p /\ m.alloc = a}),
                         stops |-> stops[a]]}
  /\ UNCHANGED <<disk, pending, up, storageOk, rows, observed, execution, stops, storeFaults>>

-----------------------------------------------------------------------------
Live == up /\ storageOk

Forget(obs, a) == [obs EXCEPT ![a] = NoObservation]

(* _commit of new rows: written beside the file and moved over it, what    *)
(* `then' says after that; or it fails, or the controller dies before or   *)
(* after the move.                                                         *)
Commit(new, then) ==
  \/ /\ ~pending /\ disk' = new /\ rows' = new /\ then
     /\ UNCHANGED <<pending, up, storageOk, storeFaults>>
  \/ /\ pending \/ storeFaults < StoreFaults
     /\ storeFaults' = IF pending THEN storeFaults ELSE storeFaults + 1
     /\ storageOk' = FALSE /\ observed' = [a \in Allocations |-> NoObservation]
     /\ pending' \in {TRUE, pending} /\ UNCHANGED <<disk, up, rows, execution, stops>>
  \/ /\ ~pending /\ storeFaults < StoreFaults /\ storeFaults' = storeFaults + 1
     /\ up' = FALSE
     /\ \/ disk' = new /\ UNCHANGED pending
        \/ pending' = TRUE /\ UNCHANGED disk
     /\ stops' = [a \in Allocations |->
                    stops[a] + (IF disk'[a].epoch # disk[a].epoch \/ disk'[a].generation # disk[a].generation
                                THEN 1 ELSE 0)]
     /\ UNCHANGED <<storageOk, rows, observed, execution>>

Fenced(m) == LET row == rows[m.alloc] IN
  m.generation = row.generation /\ m.epoch = row.epoch /\ m.sequence > row.sequence[m.principal]

(* status: what was observed, if nothing has happened since.               *)
Status(a) ==
  IF /\ Live /\ rows[a].control /\ observed[a].state # "none" /\ observed[a].age <= Ttl
     /\ observed[a].revision = execution[a].revision
  THEN observed[a].state ELSE "UNKNOWN"

Same(row) == [row |-> row, ok |-> TRUE]
Denied(row) == [row |-> row, ok |-> FALSE]

Stopped(row) == Same([row EXCEPT !.epoch = IF row.latched THEN @ ELSE @ + 1, !.latched = TRUE,
                                 !.approved = FALSE])

(* Mutant: a reset releases the latch of an execution not seen to stop.    *)
ResetUnseen(a, row) ==
  IF ~row.latched \/ Status(a) = "RUNNING" THEN Denied(row)
  ELSE Same([row EXCEPT !.epoch = @ + 1, !.latched = FALSE, !.approved = FALSE])

Reset(a, row) ==
  IF ~row.latched \/ Status(a) # "VERIFIED_STOPPED" THEN Denied(row)
  ELSE Same([row EXCEPT !.epoch = @ + 1, !.latched = FALSE, !.approved = FALSE])

Approved(row) == IF row.latched \/ ~row.control THEN Denied(row)
                 ELSE Same([row EXCEPT !.approved = TRUE])

Started(a, row) ==
  IF /\ ~row.latched /\ row.control /\ row.approved /\ execution[a].generation = row.generation
     /\ ~execution[a].running /\ ~execution[a].remote
  THEN Same(row) ELSE Denied(row)

Outcome(m) ==
  LET row == [rows[m.alloc] EXCEPT !.sequence[m.principal] = m.sequence] IN
  CASE m.op = "stop"    -> Stopped(row)
    [] m.op = "reset"   -> Reset(m.alloc, row)
    [] m.op = "approve" -> Approved(row)
    [] m.op = "start"   -> Started(m.alloc, row)

Bumps(m, o) == o.row.epoch # rows[m.alloc].epoch

(* command, once it is past the fences: refused at the end of the epochs.  *)
Command(m) ==
  /\ Live /\ m \in sent /\ Fenced(m)
  /\ m.principal = "human" \/ (m.principal = "scheduler" /\ m.op = "start")
  /\ LET a == m.alloc  o == Outcome(m) IN
     /\ o.row.epoch <= MaxInteger
     /\ m.op = "start" /\ o.ok => execution[a].revision < MaxRevision
     /\ Commit([rows EXCEPT ![a] = o.row],
               /\ observed' = IF m.op = "approve" THEN observed ELSE Forget(observed, a)
               /\ execution' = IF m.op = "start" /\ o.ok
                           THEN [execution EXCEPT ![a].running = TRUE, ![a].remote = TRUE,
                                              ![a].launches = @ + 1, ![a].revision = @ + 1]
                           ELSE execution
               /\ stops' = IF Bumps(m, o) THEN [stops EXCEPT ![a] = @ + 1] ELSE stops)
  /\ UNCHANGED sent

SetControl(a, available) ==
  /\ Live /\ rows[a].control # available
  /\ Commit([rows EXCEPT ![a].control = available, ![a].approved = FALSE],
            observed' = Forget(observed, a) /\ UNCHANGED <<execution, stops>>)
  /\ UNCHANGED sent

(* The adapter reads the latch; what is disconnected may still run remotely. *)
Adapter(a, cancel) ==
  /\ Live /\ rows[a].latched /\ rows[a].control /\ rows[a].generation = execution[a].generation
  /\ execution[a].revision < MaxRevision
  /\ execution' = [execution EXCEPT ![a].running = FALSE, ![a].remote = @ /\ ~cancel, ![a].revision = @ + 1]
  /\ observed' = Forget(observed, a)
  /\ UNCHANGED <<disk, pending, up, storageOk, rows, sent, stops, storeFaults>>

Observe(a, fail) ==
  /\ up
  /\ observed' = [observed EXCEPT ![a] =
       IF fail \/ ~storageOk \/ ~rows[a].control \/ rows[a].generation # execution[a].generation
       THEN NoObservation
       ELSE [revision |-> execution[a].revision, age |-> 0,
             state |-> IF execution[a].running \/ execution[a].remote THEN "RUNNING" ELSE "VERIFIED_STOPPED"]]
  /\ UNCHANGED <<disk, pending, up, storageOk, rows, execution, sent, stops, storeFaults>>

Advance ==
  /\ \E a \in Allocations : observed[a].state # "none" /\ observed[a].age <= Ttl
  /\ observed' = [a \in Allocations |-> IF observed[a].age <= Ttl THEN [observed[a] EXCEPT !.age = @ + 1]
                                        ELSE observed[a]]
  /\ UNCHANGED <<disk, pending, up, storageOk, rows, execution, sent, stops, storeFaults>>

ReplaceAllocation(a) ==
  /\ Live /\ ~rows[a].latched /\ rows[a].control /\ ~execution[a].running /\ ~execution[a].remote
  /\ rows[a].generation < MaxInteger
  /\ LET g == rows[a].generation + 1 IN
     Commit([rows EXCEPT ![a] = Fresh(g)],
            /\ execution' = [execution EXCEPT ![a] = Execution(g)] /\ observed' = Forget(observed, a)
            /\ stops' = [stops EXCEPT ![a] = @ + 1])
  /\ UNCHANGED sent

(* The process ends, and a Controller is made of the file.                 *)
Reload ==
  /\ up' = TRUE /\ storageOk' = ~pending
  /\ rows' = IF pending THEN [a \in Allocations |-> Fresh(1)] ELSE disk
  /\ observed' = [a \in Allocations |-> NoObservation]
  /\ UNCHANGED <<disk, pending, execution, sent, stops, storeFaults>>

OverNext ==
  \/ \E a \in Allocations :
       \/ \E op \in {"approve", "start", "stop", "reset"} : Issue("human", op, a)
       \/ \E p \in Principals \ {"human"} : Issue(p, "start", a)
  \/ \E m \in sent : Command(m)
  \/ \E a \in Allocations, b \in BOOLEAN : SetControl(a, b) \/ Adapter(a, b) \/ Observe(a, b)
  \/ \E a \in Allocations : ReplaceAllocation(a)
  \/ Advance \/ Reload

OverSpec == OverInit /\ [][OverNext]_overVars

-----------------------------------------------------------------------------
(* An execution starts only by a start and by a human approval that were   *)
(* both given since the last stop or reset took effect, whatever came late *)
(* and whatever died; a stop holds on disk until a reset; a reset happens  *)
(* to an execution that runs nowhere; and what is reported as a verified   *)
(* stop is one.                                                            *)
HumanHasLastWord ==
  /\ [][\A a \in Allocations :
          execution'[a].running /\ ~execution[a].running =>
            /\ ~disk[a].latched /\ ~execution[a].remote
            /\ \E m \in sent : m.op = "start" /\ m.alloc = a /\ m.stops = stops[a]
            /\ \E m \in sent : /\ m.op = "approve" /\ m.principal = "human" /\ m.alloc = a
                               /\ m.stops = stops[a]]_overVars
  /\ [][\A a \in Allocations :
          disk[a].latched /\ ~disk'[a].latched => ~execution[a].running /\ ~execution[a].remote]_overVars
  /\ [](\A a \in Allocations :
          Status(a) = "VERIFIED_STOPPED" => ~execution[a].running /\ ~execution[a].remote)
=============================================================================
