-------------------------- MODULE BrokeredOperator --------------------------
(***************************************************************************)
(* The durable store of the brokered operator                              *)
(* (src/src/lumi_eggcracker/brokered/operator.py): a chained journal, a    *)
(* witness of its last record, and a file lock.  Every operation of every  *)
(* process takes the lock, replays the journal, decides, appends at most   *)
(* one record, rewrites the witness and replays again.                     *)
(*                                                                         *)
(* The journal is represented by what its replay yields.  `base' is the    *)
(* replay of the records the witness covers, `extra' the one record that   *)
(* was appended and is not covered yet.  A journal with a torn line, a     *)
(* torn witness, or a witness one record behind cannot be read again:      *)
(* `whole' is false then, and for good.                                    *)
(***************************************************************************)
EXTENDS Naturals, FiniteSets

CONSTANTS
  Runs, Ops,     \* run identities; operation identifiers, with their queue ids
  Procs,         \* processes and threads that share the store
  NoRun, NoOp, NoProc, NoEvent,
  MaxRuns,       \* MAX_RUNS
  MaxActions,    \* MAX_ACTIONS_PER_RUN
  MaxPending,    \* MAX_PENDING_BYTES, in requests
  MaxCrashes,    \* bound on deaths of a process
  Faults         \* {"write"} if a write to the store may fail, else {}

ASSUME StoreAssumption ==
  /\ NoRun \notin Runs /\ NoOp \notin Ops /\ NoProc \notin Procs
  /\ IsFiniteSet(Runs) /\ MaxRuns \in Nat /\ MaxRuns <= Cardinality(Runs)
  /\ MaxActions \in Nat /\ MaxPending \in Nat /\ MaxCrashes \in Nat

(* MAX_REPLAY_KEYS                                                         *)
MaxReplay == MaxRuns * MaxActions

NoRequest == [kind |-> "snapshot", run |-> NoRun, op |-> NoOp]

(* A dispatch may name the run that must own the item.                     *)
Request ==
  [kind : {"admit", "result"}, run : Runs, op : Ops]
    \cup [kind : {"dispatch"}, run : Runs \cup {NoRun}, op : Ops]
    \cup [kind : {"grant", "register", "revoke"}, run : Runs, op : {NoOp}]
    \cup {NoRequest}

(* The records of the journal but its genesis.                             *)
EventKinds == {"DATASET", "REGISTERED", "ADMITTED", "DISPATCHED", "REJECTED", "REVOKED"}
Reasons == {"STALE_GENERATION", "CAPABILITY_REVOKED", "EXPIRED", "REPLAY", "BUDGET_EXHAUSTED"}
Event == [kind : EventKinds, run : Runs \cup {NoRun}, op : Ops \cup {NoOp},
          why : Reasons \cup {"none"}]

ASSUME EventAssumption == NoEvent \notin Event

(* _State, as far as decisions depend on it.                               *)
ItemStates == {"none", "queued", "applied", "rejected"}
State == [dataset : BOOLEAN, runs : SUBSET Runs, revoked : SUBSET Runs,
          gen : [Runs -> Nat], item : [Ops -> ItemStates],
          owner : [Ops -> Runs \cup {NoRun}]]

Empty == [dataset |-> FALSE, runs |-> {}, revoked |-> {}, gen |-> [r \in Runs |-> 0],
          item |-> [o \in Ops |-> "none"], owner |-> [o \in Ops |-> NoRun]]

Answers == {"NONE", "GRANTED", "ADMITTED", "APPLIED", "AVAILABLE", "REVOKED", "READ",
            "DENIED", "RAISED"}

VARIABLES
  stage,     \* the directory: "absent", "partial" (being created) or "ready"
  base, extra, whole,
  lock,      \* who holds the lock file (and, in a process, the local lock)
  pc,        \* pc[p]: "idle", "creating", "locked" or "sealing"
  req, ans,  \* the request a process works on, the answer to its last one
  told,      \* what was ever answered that a caller may rely on
  crashes

store == <<stage, base, extra, whole, lock, pc, req, ans, told, crashes>>

Used(s)        == {o \in Ops : s.item[o] # "none"}
Pending(s)     == {o \in Ops : s.item[o] = "queued"}
Admitted(s, r) == {o \in Used(s) : s.owner[o] = r}
Applied(s, r)  == {o \in Admitted(s, r) : s.item[o] = "applied"}

StoreInit ==
  /\ stage = "absent" /\ base = Empty /\ extra = NoEvent /\ whole = TRUE
  /\ lock = NoProc /\ pc = [p \in Procs |-> "idle"]
  /\ req = [p \in Procs |-> NoRequest] /\ ans = [p \in Procs |-> "NONE"]
  /\ told = {} /\ crashes = 0

-----------------------------------------------------------------------------
(* Replay: what a record must satisfy to be read back, and what it does.   *)

Accepts(s, e) ==
  \/ e.kind = "DATASET" /\ ~s.dataset /\ s.runs = {} /\ Used(s) = {}
  \/ e.kind = "REGISTERED" /\ e.run \in Runs \ s.runs /\ Cardinality(s.runs) < MaxRuns
  \/ /\ e.kind = "ADMITTED" /\ e.op \in Ops /\ e.run \in s.runs \ s.revoked
     /\ s.gen[e.run] = 0 /\ s.item[e.op] = "none"
     /\ Cardinality(Admitted(s, e.run)) < MaxActions
     /\ Cardinality(Used(s)) < MaxReplay
     /\ Cardinality(Pending(s)) + 1 <= MaxPending
  \/ /\ e.kind = "DISPATCHED" /\ e.op \in Pending(s)
     /\ s.owner[e.op] \in s.runs \ s.revoked /\ s.gen[s.owner[e.op]] = 0
  \/ /\ e.kind = "REJECTED" /\ e.op \in Pending(s)
     /\ e.why \in Reasons \ {"CAPABILITY_REVOKED"}
  \/ e.kind = "REVOKED" /\ e.run \in s.runs \ s.revoked

(* Mutant: a rejected item leaves the queue and its identifier with it.    *)
ReplayForgets(s, e) ==
  CASE e.kind = "DATASET" -> [s EXCEPT !.dataset = TRUE]
    [] e.kind = "REGISTERED" -> [s EXCEPT !.runs = @ \cup {e.run}]
    [] e.kind = "ADMITTED" -> [s EXCEPT !.item[e.op] = "queued",
                                        !.owner[e.op] = e.run]
    [] e.kind = "DISPATCHED" -> [s EXCEPT !.item[e.op] = "applied"]
    [] e.kind = "REJECTED" -> [s EXCEPT !.item[e.op] = "none",
                                        !.owner[e.op] = NoRun]
    [] e.kind = "REVOKED" -> [s EXCEPT !.revoked = @ \cup {e.run},
                                       !.gen[e.run] = @ + 1]

Replay(s, e) ==
  CASE e.kind = "DATASET" -> [s EXCEPT !.dataset = TRUE]
    [] e.kind = "REGISTERED" -> [s EXCEPT !.runs = @ \cup {e.run}]
    [] e.kind = "ADMITTED" -> [s EXCEPT !.item[e.op] = "queued",
                                        !.owner[e.op] = e.run]
    [] e.kind = "DISPATCHED" -> [s EXCEPT !.item[e.op] = "applied"]
    [] e.kind = "REJECTED" -> [s EXCEPT !.item[e.op] = "rejected"]
    [] e.kind = "REVOKED" -> [s EXCEPT !.revoked = @ \cup {e.run},
                                       !.gen[e.run] = @ + 1]

-----------------------------------------------------------------------------
(* Decisions: a record to append with the answer it earns, or an answer    *)
(* alone.  The wall clock has passed the run's expiry or not (`late').     *)

Answer(a) == [event |-> NoEvent, answer |-> a]
Record(k, r, o, w, a) == [event |-> [kind |-> k, run |-> r, op |-> o, why |-> w], answer |-> a]

(* The token of a request names a run that the store registered.          *)
Verified(s, q) == q.run \in s.runs

(* admit: any of the denials.                                              *)
AdmitDenied(s, q, late) ==
  \/ ~Verified(s, q) \/ q.run \in s.revoked \/ s.gen[q.run] # 0 \/ late
  \/ s.item[q.op] # "none" \/ Cardinality(Used(s)) >= MaxReplay
  \/ Cardinality(Admitted(s, q.run)) >= MaxActions
  \/ Cardinality(Pending(s)) + 1 > MaxPending

Admit(s, q, late) ==
  IF AdmitDenied(s, q, late) THEN Answer("DENIED")
  ELSE Record("ADMITTED", q.run, q.op, "none", "ADMITTED")

(* Mutant: the revocation is looked at before the generation.              *)
ReasonSwapped(s, o, late) ==
  LET r == s.owner[o] IN
  CASE r \in s.revoked -> "CAPABILITY_REVOKED"
    [] r \notin s.revoked /\ late -> "EXPIRED"
    [] r \notin s.revoked /\ ~late
         /\ Cardinality(Applied(s, r)) >= MaxActions -> "BUDGET_EXHAUSTED"
    [] OTHER -> "none"

(* The reason to refuse a queued item, in the order the code looks.  (An   *)
(* identifier is admitted once, so a queued item is never a replay.)       *)
DispatchReason(s, o, late) ==
  LET r == s.owner[o] IN
  CASE s.gen[r] # 0 -> "STALE_GENERATION"
    [] s.gen[r] = 0 /\ r \in s.revoked -> "CAPABILITY_REVOKED"
    [] s.gen[r] = 0 /\ r \notin s.revoked /\ late -> "EXPIRED"
    [] s.gen[r] = 0 /\ r \notin s.revoked /\ ~late
         /\ Cardinality(Applied(s, r)) >= MaxActions -> "BUDGET_EXHAUSTED"
    [] OTHER -> "none"

(* dispatch and dispatch_for_run (q.run names the run then).               *)
Dispatch(s, q, late) ==
  IF q.op \notin Pending(s) \/ (q.run # NoRun /\ s.owner[q.op] # q.run)
  THEN Answer("DENIED")
  ELSE IF DispatchReason(s, q.op, late) # "none"
       THEN Record("REJECTED", NoRun, q.op, DispatchReason(s, q.op, late), "DENIED")
       ELSE Record("DISPATCHED", NoRun, q.op, "none", "APPLIED")

(* Mutant: the result of an item that is only queued is available.         *)
ResultEarly(s, q) ==
  Answer(IF s.item[q.op] \in {"queued", "applied"} /\ s.owner[q.op] = q.run /\ s.dataset
         THEN "AVAILABLE" ELSE "DENIED")

Result(s, q) ==
  Answer(IF s.item[q.op] = "applied" /\ s.owner[q.op] = q.run /\ s.dataset
         THEN "AVAILABLE" ELSE "DENIED")

(* Mutant: a run without a pending item is reported fenced and left alone. *)
RevokeIdle(s, q) ==
  IF q.run \notin s.runs THEN Answer("DENIED")
  ELSE IF q.run \in s.revoked \/ Pending(s) = {} THEN Answer("REVOKED")
       ELSE Record("REVOKED", q.run, NoOp, "none", "REVOKED")

Revoke(s, q) ==
  IF q.run \notin s.runs THEN Answer("DENIED")
  ELSE IF q.run \in s.revoked THEN Answer("REVOKED")
       ELSE Record("REVOKED", q.run, NoOp, "none", "REVOKED")

(* register_run: a fresh identity each time.                               *)
Register(s, q) ==
  IF Cardinality(s.runs) >= MaxRuns \/ q.run \in s.runs THEN Answer("RAISED")
  ELSE Record("REGISTERED", q.run, NoOp, "none", "GRANTED")

(* _service_run_grant: the data set and the run are two records under one  *)
(* lock; a store that holds one of them is completed.                      *)
Grant(s, q) ==
  CASE ~s.dataset /\ s.runs # {} -> Answer("RAISED")
    [] ~s.dataset /\ s.runs = {} -> Record("DATASET", NoRun, NoOp, "none", "NONE")
    [] s.dataset /\ Cardinality(s.runs) > 1 -> Answer("RAISED")
    [] s.dataset /\ Cardinality(s.runs) = 1 -> Answer("GRANTED")
    [] s.dataset /\ s.runs = {} -> Register(s, q)

Decision(s, q, late) ==
  CASE q.kind = "admit"    -> Admit(s, q, late)
    [] q.kind = "dispatch" -> Dispatch(s, q, late)
    [] q.kind = "result"   -> Result(s, q)
    [] q.kind = "revoke"   -> Revoke(s, q)
    [] q.kind = "register" -> Register(s, q)
    [] q.kind = "grant"    -> Grant(s, q)
    [] q.kind = "snapshot" -> Answer("READ")

-----------------------------------------------------------------------------
(* Steps of a process.  The directory is created without the lock.         *)

(* Mutant: an operation that raises keeps the lock.                        *)
FinishLeaks(p, a) ==
  /\ pc' = [pc EXCEPT ![p] = "idle"]
  /\ lock' = IF lock = p /\ a # "RAISED" THEN NoProc ELSE lock
  /\ req' = [req EXCEPT ![p] = NoRequest] /\ ans' = [ans EXCEPT ![p] = a]

Finish(p, a) ==
  /\ pc' = [pc EXCEPT ![p] = "idle"]
  /\ lock' = IF lock = p THEN NoProc ELSE lock
  /\ req' = [req EXCEPT ![p] = NoRequest] /\ ans' = [ans EXCEPT ![p] = a]

CreateBegin(p) ==
  /\ pc[p] = "idle" /\ stage = "absent"
  /\ stage' = "partial" /\ pc' = [pc EXCEPT ![p] = "creating"]
  /\ UNCHANGED <<base, extra, whole, lock, req, ans, told, crashes>>

CreateEnd(p) ==
  /\ pc[p] = "creating"
  /\ stage' = "ready" /\ Finish(p, "NONE")
  /\ UNCHANGED <<base, extra, whole, told, crashes>>

CreateFault(p) ==
  /\ pc[p] = "creating" /\ "write" \in Faults
  /\ Finish(p, "RAISED")
  /\ UNCHANGED <<stage, base, extra, whole, told, crashes>>

(* What is missing or incomplete raises before any lock is taken.          *)
Refuse(p, q) ==
  /\ pc[p] = "idle" /\ stage # "ready"
  /\ req' = [req EXCEPT ![p] = q] /\ ans' = [ans EXCEPT ![p] = "RAISED"]
  /\ UNCHANGED <<stage, base, extra, whole, lock, pc, told, crashes>>

Acquire(p, q) ==
  /\ pc[p] = "idle" /\ stage = "ready" /\ lock = NoProc
  /\ lock' = p /\ pc' = [pc EXCEPT ![p] = "locked"] /\ req' = [req EXCEPT ![p] = q]
  /\ UNCHANGED <<stage, base, extra, whole, ans, told, crashes>>

Decisions(p) == {Decision(base, req[p], late) : late \in BOOLEAN}

(* The answers a caller may rely on for good.                              *)
Lasting == {"ADMITTED", "APPLIED", "REVOKED"}
Tell(p, a) ==
  told' = told \cup {[what |-> w, run |-> req[p].run, op |-> req[p].op] : w \in Lasting \cap {a}}

Unreadable(p) ==
  /\ pc[p] = "locked" /\ ~whole /\ Finish(p, "RAISED")
  /\ UNCHANGED <<stage, base, extra, whole, told, crashes>>

Reply(p) ==
  /\ pc[p] = "locked" /\ whole
  /\ \E d \in Decisions(p) :
       d.event = NoEvent /\ Finish(p, d.answer) /\ Tell(p, d.answer)
  /\ UNCHANGED <<stage, base, extra, whole, crashes>>

(* Mutant: the receipt goes out before the witness covers the record.      *)
JournalTells(p) ==
  /\ pc[p] = "locked" /\ whole
  /\ \E d \in Decisions(p) :
       /\ d.event # NoEvent /\ extra' = d.event /\ ans' = [ans EXCEPT ![p] = d.answer]
       /\ Tell(p, d.answer)
  /\ pc' = [pc EXCEPT ![p] = "sealing"]
  /\ UNCHANGED <<stage, base, whole, lock, req, crashes>>

JournalWrite(p) ==
  /\ pc[p] = "locked" /\ whole
  /\ \E d \in Decisions(p) :
       d.event # NoEvent /\ extra' = d.event /\ ans' = [ans EXCEPT ![p] = d.answer]
  /\ pc' = [pc EXCEPT ![p] = "sealing"]
  /\ UNCHANGED <<stage, base, whole, lock, req, told, crashes>>

MayWrite(p) == pc[p] = "locked" /\ whole /\ \E d \in Decisions(p) : d.event # NoEvent

(* The journal or the witness is left torn; the caller sees the error.     *)
WriteFault(p) ==
  /\ MayWrite(p) \/ pc[p] = "sealing"
  /\ "write" \in Faults
  /\ whole' = FALSE /\ extra' = NoEvent /\ Finish(p, "RAISED")
  /\ UNCHANGED <<stage, base, told, crashes>>

(* The witness covers the record, the journal is replayed and the caller   *)
(* gets its receipt.  The grant goes on to its second record.  A record    *)
(* that its own replay refused would make the store unreadable.            *)
Seal(p) ==
  /\ pc[p] = "sealing" /\ extra' = NoEvent
  /\ IF Accepts(base, extra)
     THEN /\ base' = Replay(base, extra) /\ whole' = whole
          /\ IF extra.kind = "DATASET"
             THEN pc' = [pc EXCEPT ![p] = "locked"] /\ UNCHANGED <<lock, req, ans, told>>
             ELSE Finish(p, ans[p]) /\ Tell(p, ans[p])
     ELSE whole' = FALSE /\ Finish(p, "RAISED") /\ UNCHANGED <<base, told>>
  /\ UNCHANGED <<stage, crashes>>

(* A process is killed, or interrupted with Ctrl-C, at any point; the      *)
(* kernel releases its lock.                                               *)
Abandon(p) ==
  /\ whole' \in IF pc[p] = "sealing" THEN {FALSE} ELSE {whole, whole /\ ~MayWrite(p)}
  /\ extra' = IF pc[p] = "sealing" THEN NoEvent ELSE extra
  /\ Finish(p, "RAISED")
  /\ UNCHANGED <<stage, base, told>>

Die(p) == crashes < MaxCrashes /\ crashes' = crashes + 1 /\ Abandon(p)

Work(p) ==
  \/ CreateEnd(p) \/ Unreadable(p) \/ Reply(p) \/ JournalWrite(p) \/ Seal(p)

Mishap(p) == CreateFault(p) \/ WriteFault(p)

StoreNext ==
  \E p \in Procs :
    \/ CreateBegin(p) \/ Work(p) \/ Mishap(p) \/ Die(p)
    \/ \E q \in Request : Refuse(p, q) \/ Acquire(p, q)

StoreSpec == StoreInit /\ [][StoreNext]_store

-----------------------------------------------------------------------------
(* The file lock is held by who decides or writes, and by nobody else:     *)
(* every exit, also by an exception or the death of the process, gives it  *)
(* back; a record that is not covered yet is the holder's.                 *)
StoreTypeOK ==
  /\ stage \in {"absent", "partial", "ready"} /\ base \in State
  /\ extra \in Event \cup {NoEvent} /\ whole \in BOOLEAN
  /\ lock \in Procs \cup {NoProc}
  /\ pc \in [Procs -> {"idle", "creating", "locked", "sealing"}]
  /\ req \in [Procs -> Request] /\ ans \in [Procs -> Answers]
  /\ told \subseteq [what : Lasting, run : Runs \cup {NoRun}, op : Ops \cup {NoOp}]
  /\ crashes \in 0 .. MaxCrashes
  /\ \A p \in Procs : lock = p <=> pc[p] \in {"locked", "sealing"}
  /\ extra # NoEvent <=> \E p \in Procs : pc[p] = "sealing"

(* A record that is appended is always one that the next replay accepts:   *)
(* the checks of admit, dispatch and revoke imply those of _replay_event,  *)
(* whoever else used the store in between, so the store never makes itself *)
(* unreadable (_append replays only after it has written).                 *)
AppendIsReplayable == extra # NoEvent => Accepts(base, extra)

(* What a caller was told stays true for good: through every crash, every  *)
(* failed write and every other process, an admitted operation is on       *)
(* record, an applied one applied, and a revoked run revoked.              *)
ReceiptsAreDurable ==
  \A t \in told :
    /\ t.what = "ADMITTED" => base.item[t.op] # "none" /\ base.owner[t.op] = t.run
    /\ t.what = "APPLIED" => base.item[t.op] = "applied"
    /\ t.what = "REVOKED" => t.run \in base.revoked

(* The store implements the ledger: an operation is applied at most once   *)
(* and never for a fenced run, and damage closes the store as it was.      *)
Ledger == INSTANCE BrokerLedger WITH
  book <- IF stage # "ready" THEN "new" ELSE IF whole THEN "open" ELSE "closed",
  known <- base.runs, fenced <- base.revoked, item <- base.item, owner <- base.owner

ImplementsLedger == Ledger!LedgerSpec
=============================================================================
