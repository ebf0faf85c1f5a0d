---------------------------- MODULE BrokerProofs ----------------------------
(***************************************************************************)
(* Proofs about the store of the brokered operator and its service, for    *)
(* any runs, operations, processes and clients, every capacity, with and   *)
(* without failing writes, and any number of deaths.                       *)
(***************************************************************************)
EXTENDS BrokeredService, FiniteSetTheorems, TLAPS

-----------------------------------------------------------------------------
(* What a replayed state always satisfies: runs are fenced once, by one    *)
(* generation; an identifier that was used belongs to a registered run.    *)
Sound(s) ==
  /\ s.revoked \subseteq s.runs
  /\ \A r \in Runs : s.gen[r] = 0 <=> r \notin s.revoked
  /\ \A o \in Ops : s.item[o] = "none" <=> s.owner[o] = NoRun
  /\ \A o \in Ops : s.item[o] # "none" => s.owner[o] \in s.runs
  /\ IsFiniteSet(Used(s))

(* What the record that is being sealed is to the answer it will earn.     *)
Earns(e, q, a) ==
  /\ a = "ADMITTED" => e.kind = "ADMITTED" /\ e.op = q.op /\ e.run = q.run
  /\ a = "APPLIED" => e.kind = "DISPATCHED" /\ e.op = q.op
  /\ a = "REVOKED" => e.kind = "REVOKED" /\ e.run = q.run
  /\ a # "AVAILABLE"

(* A state that grew out of another.                                       *)
Extends(t, s) ==
  /\ s.runs \subseteq t.runs /\ s.revoked \subseteq t.revoked
  /\ \A o \in Ops : s.item[o] # "none" => t.item[o] # "none" /\ t.owner[o] = s.owner[o]
  /\ \A o \in Ops : s.item[o] = "applied" => t.item[o] = "applied"

(* The lock is held in a directory that is ready; nothing is damaged       *)
(* before, nor while a record is being sealed.                             *)
Held ==
  /\ \A p \in Procs : pc[p] \in {"locked", "sealing"} => stage = "ready"
  /\ stage # "ready" \/ extra # NoEvent => whole

Promised == \A p \in Procs : pc[p] = "sealing" => Earns(extra, req[p], ans[p])

(* What was told of an operation names one.                                *)
Named == \A t \in told : t.what # "REVOKED" => t.op \in Ops

StoreInv ==
  /\ StoreTypeOK /\ Sound(base) /\ Held /\ Promised /\ Named
  /\ AppendIsReplayable /\ ReceiptsAreDurable

-----------------------------------------------------------------------------
(* Counts of identifiers are numbers.                                      *)
LEMMA Counted ==
  ASSUME NEW s, IsFiniteSet(Used(s))
  PROVE  /\ Cardinality(Used(s)) \in Nat /\ Cardinality(Pending(s)) \in Nat
         /\ \A r : Cardinality(Admitted(s, r)) \in Nat
<1>1. Pending(s) \subseteq Used(s) /\ \A r : Admitted(s, r) \subseteq Used(s)
  BY DEF Pending, Admitted, Used
<1> QED
  BY <1>1, FS_Subset, FS_CardinalityType

LEMMA RunsCounted ==
  ASSUME NEW s \in State
  PROVE  /\ IsFiniteSet(s.runs) /\ Cardinality(s.runs) \in Nat
         /\ Cardinality(s.runs) = 0 <=> s.runs = {}
<1>1. s.runs \subseteq Runs
  BY DEF State
<1>2. IsFiniteSet(Runs)
  BY StoreAssumption
<1> QED
  BY <1>1, <1>2, FS_Subset, FS_CardinalityType, FS_EmptySet

LEMMA Capacity == MaxReplay \in Nat /\ MaxRuns \in Nat /\ MaxActions \in Nat /\ MaxPending \in Nat
BY StoreAssumption DEF MaxReplay

(* A decision to append a record is one to append a record that replay     *)
(* accepts and that earns the answer; an answer without a record promises  *)
(* nothing but what is there already.                                      *)
DecisionGood(s, q, d) ==
  /\ d.event \in Event \cup {NoEvent} /\ d.answer \in Answers
  /\ d.event # NoEvent => Accepts(s, d.event) /\ Earns(d.event, q, d.answer)
  /\ d.event = NoEvent =>
       /\ d.answer \notin {"ADMITTED", "APPLIED"}
       /\ d.answer = "REVOKED" => q.run \in s.revoked
LEMMA AdmitGood ==
  ASSUME NEW s \in State, Sound(s), NEW q \in Request, q.kind = "admit", NEW late \in BOOLEAN
  PROVE  DecisionGood(s, q, Admit(s, q, late))
<1> DEFINE e == [kind |-> "ADMITTED", run |-> q.run, op |-> q.op, why |-> "none"]
<1>q. q.run \in Runs /\ q.op \in Ops
  BY DEF Request, NoRequest
<1>1. CASE AdmitDenied(s, q, late)
  BY <1>1, EventAssumption DEF DecisionGood, Admit, Answer, Answers, Earns
<1>2. CASE ~AdmitDenied(s, q, late)
  <2>1. e \in Event
    BY <1>q DEF Event, EventKinds
  <2>2. Accepts(s, e)
    BY <1>2, <1>q, Counted, Capacity DEF Accepts, AdmitDenied, Verified, Sound
  <2>3. Admit(s, q, late) = [event |-> e, answer |-> "ADMITTED"]
    BY <1>2 DEF Admit, Record
  <2>4. Earns(e, q, "ADMITTED")
    BY DEF Earns
  <2> QED
    BY <2>1, <2>2, <2>3, <2>4, EventAssumption DEF DecisionGood, Answers
<1> QED
  BY <1>1, <1>2

LEMMA DispatchGood ==
  ASSUME NEW s \in State, Sound(s), NEW q \in Request, q.kind = "dispatch", NEW late \in BOOLEAN
  PROVE  DecisionGood(s, q, Dispatch(s, q, late))
<1> DEFINE why == DispatchReason(s, q.op, late)
<1> DEFINE no == [kind |-> "REJECTED", run |-> NoRun, op |-> q.op, why |-> why]
<1> DEFINE yes == [kind |-> "DISPATCHED", run |-> NoRun, op |-> q.op, why |-> "none"]
<1>q. q.op \in Ops
  BY DEF Request, NoRequest
<1>1. CASE q.op \notin Pending(s) \/ (q.run # NoRun /\ s.owner[q.op] # q.run)
  BY <1>1, EventAssumption DEF DecisionGood, Dispatch, Answer, Answers, Earns
<1>2. CASE ~(q.op \notin Pending(s) \/ (q.run # NoRun /\ s.owner[q.op] # q.run))
  <2>1. s.owner[q.op] \in s.runs /\ s.owner[q.op] \in Runs
    BY <1>2, <1>q DEF Sound, Pending, State
  <2>2. CASE why # "none"
    <3>1. why \in Reasons \ {"CAPABILITY_REVOKED"}
      BY <2>1, <2>2 DEF DispatchReason, Reasons, Sound
    <3>2. no \in Event
      BY <1>q, <3>1 DEF Event, EventKinds
    <3>3. Accepts(s, no)
      BY <1>2, <3>1 DEF Accepts
    <3>4. Dispatch(s, q, late) = [event |-> no, answer |-> "DENIED"]
      BY <1>2, <2>2 DEF Dispatch, Record
    <3>5. Earns(no, q, "DENIED")
      BY DEF Earns
    <3> QED
      BY <3>2, <3>3, <3>4, <3>5, EventAssumption DEF DecisionGood, Answers
  <2>3. CASE why = "none"
    <3>1. s.gen[s.owner[q.op]] = 0 /\ s.owner[q.op] \notin s.revoked
      BY <2>1, <2>3 DEF DispatchReason, Sound
    <3>2. yes \in Event
      BY <1>q DEF Event, EventKinds
    <3>3. Accepts(s, yes)
      BY <1>2, <2>1, <3>1 DEF Accepts
    <3>4. Dispatch(s, q, late) = [event |-> yes, answer |-> "APPLIED"]
      BY <1>2, <2>3 DEF Dispatch, Record
    <3>5. Earns(yes, q, "APPLIED")
      BY DEF Earns
    <3> QED
      BY <3>2, <3>3, <3>4, <3>5, EventAssumption DEF DecisionGood, Answers
  <2> QED
    BY <2>2, <2>3
<1> QED
  BY <1>1, <1>2

LEMMA RevokeGood ==
  ASSUME NEW s \in State, Sound(s), NEW q \in Request, q.kind = "revoke"
  PROVE  DecisionGood(s, q, Revoke(s, q))
<1> DEFINE e == [kind |-> "REVOKED", run |-> q.run, op |-> NoOp, why |-> "none"]
<1>q. q.run \in Runs
  BY DEF Request, NoRequest
<1>1. CASE q.run \notin s.runs \/ q.run \in s.revoked
  BY <1>1, EventAssumption DEF DecisionGood, Revoke, Answer, Answers, Earns
<1>2. CASE q.run \in s.runs \ s.revoked
  <2>1. e \in Event /\ Accepts(s, e) /\ Earns(e, q, "REVOKED")
    BY <1>q, <1>2 DEF Event, EventKinds, Accepts, Earns
  <2>2. Revoke(s, q) = [event |-> e, answer |-> "REVOKED"]
    BY <1>2 DEF Revoke, Record
  <2> QED
    BY <2>1, <2>2, EventAssumption DEF DecisionGood, Answers
<1> QED
  BY <1>1, <1>2

LEMMA RegisterGood ==
  ASSUME NEW s \in State, NEW q \in Request, q.run \in Runs
  PROVE  DecisionGood(s, q, Register(s, q))
<1> DEFINE e == [kind |-> "REGISTERED", run |-> q.run, op |-> NoOp, why |-> "none"]
<1>1. CASE Cardinality(s.runs) >= MaxRuns \/ q.run \in s.runs
  BY <1>1, EventAssumption DEF DecisionGood, Register, Answer, Answers, Earns
<1>2. CASE ~(Cardinality(s.runs) >= MaxRuns \/ q.run \in s.runs)
  <2>1. e \in Event /\ Earns(e, q, "GRANTED")
    BY DEF Event, EventKinds, Earns
  <2>2. Accepts(s, e)
    BY <1>2, RunsCounted, Capacity DEF Accepts
  <2>3. Register(s, q) = [event |-> e, answer |-> "GRANTED"]
    BY <1>2 DEF Register, Record
  <2> QED
    BY <2>1, <2>2, <2>3, EventAssumption DEF DecisionGood, Answers
<1> QED
  BY <1>1, <1>2

LEMMA GrantGood ==
  ASSUME NEW s \in State, Sound(s), NEW q \in Request, q.kind = "grant"
  PROVE  DecisionGood(s, q, Grant(s, q))
<1> DEFINE e == [kind |-> "DATASET", run |-> NoRun, op |-> NoOp, why |-> "none"]
<1>q. q.run \in Runs
  BY DEF Request, NoRequest
<1>1. CASE ~s.dataset /\ s.runs = {}
  <2>1. Used(s) = {}
    BY <1>1 DEF Sound, Used
  <2>2. e \in Event /\ Accepts(s, e) /\ Earns(e, q, "NONE")
    BY <1>1, <2>1 DEF Event, EventKinds, Accepts, Earns
  <2>3. Grant(s, q) = [event |-> e, answer |-> "NONE"]
    BY <1>1 DEF Grant, Record, State
  <2> QED
    BY <2>2, <2>3, EventAssumption DEF DecisionGood, Answers
<1>2. CASE s.dataset /\ s.runs = {}
  <2>1. Grant(s, q) = Register(s, q)
    BY <1>2, RunsCounted DEF Grant
  <2> QED
    BY <1>q, <2>1, RegisterGood
<1>3. CASE s.runs # {}
  <2>1. Cardinality(s.runs) > 1 \/ Cardinality(s.runs) = 1
    BY <1>3, RunsCounted
  <2>2. Grant(s, q) \in {Answer("RAISED"), Answer("GRANTED")}
    BY <1>3, <2>1, RunsCounted DEF Grant, State
  <2> QED
    BY <2>2, EventAssumption DEF DecisionGood, Answer, Answers, Earns
<1> QED
  BY <1>1, <1>2, <1>3 DEF State

LEMMA DecisionsGood ==
  ASSUME NEW s \in State, Sound(s), NEW q \in Request, NEW late \in BOOLEAN
  PROVE  DecisionGood(s, q, Decision(s, q, late))
<1>1. CASE q.kind = "admit"
  BY <1>1, AdmitGood DEF Decision
<1>2. CASE q.kind = "dispatch"
  BY <1>2, DispatchGood DEF Decision
<1>3. CASE q.kind = "result"
  <2>1. Decision(s, q, late) \in {Answer("AVAILABLE"), Answer("DENIED")}
    BY <1>3 DEF Decision, Result
  <2> QED
    BY <2>1, EventAssumption DEF DecisionGood, Answer, Answers, Earns
<1>4. CASE q.kind = "revoke"
  BY <1>4, RevokeGood DEF Decision
<1>5. CASE q.kind = "register"
  BY <1>5, RegisterGood DEF Decision, Request, NoRequest
<1>6. CASE q.kind = "grant"
  BY <1>6, GrantGood DEF Decision
<1>7. CASE q.kind = "snapshot"
  <2>1. Decision(s, q, late) = Answer("READ")
    BY <1>7 DEF Decision
  <2> QED
    BY <2>1, EventAssumption DEF DecisionGood, Answer, Answers, Earns
<1> QED
  BY <1>1, <1>2, <1>3, <1>4, <1>5, <1>6, <1>7 DEF Request, NoRequest

-----------------------------------------------------------------------------
(* A record that replay accepts leads to a state that is sound again and   *)
(* has forgotten nothing.                                                  *)
ReplayGood(s, e) ==
  /\ Replay(s, e) \in State /\ Sound(Replay(s, e)) /\ Extends(Replay(s, e), s)

LEMMA ReplayRuns ==
  ASSUME NEW s \in State, Sound(s), NEW e \in Event, Accepts(s, e),
         e.kind \in {"DATASET", "REGISTERED", "REVOKED"}
  PROVE  ReplayGood(s, e)
<1> DEFINE t == Replay(s, e)
<1>1. t.item = s.item /\ t.owner = s.owner
  BY DEF Replay, State
<1>2. Used(t) = Used(s)
  BY <1>1 DEF Used
<1>3. t \in State
  <2>1. CASE e.kind = "DATASET"
    BY <2>1 DEF Replay, State
  <2>2. CASE e.kind = "REGISTERED"
    <3>1. t = [s EXCEPT !.runs = @ \cup {e.run}] /\ e.run \in Runs
      BY <2>2 DEF Replay, Accepts
    <3> QED
      BY <3>1 DEF State
  <2>3. CASE e.kind = "REVOKED"
    <3>1. /\ t = [s EXCEPT !.revoked = @ \cup {e.run}, !.gen[e.run] = @ + 1]
          /\ e.run \in s.runs
      BY <2>3 DEF Replay, Accepts
    <3>2. e.run \in Runs /\ s.gen \in [Runs -> Nat]
      BY <3>1 DEF State
    <3>3. [s.gen EXCEPT ![e.run] = @ + 1] \in [Runs -> Nat]
      BY <3>2
    <3>4. s.revoked \cup {e.run} \in SUBSET Runs
      BY <3>2 DEF State
    <3> QED
      BY <3>1, <3>3, <3>4 DEF State
  <2> QED
    BY <2>1, <2>2, <2>3
<1>4. /\ s.runs \subseteq t.runs /\ s.revoked \subseteq t.revoked /\ t.revoked \subseteq t.runs
      /\ \A r \in Runs : t.gen[r] = 0 <=> r \notin t.revoked
  BY DEF Replay, State, Accepts, Sound
<1> QED
  BY <1>1, <1>2, <1>3, <1>4 DEF ReplayGood, Sound, Extends

LEMMA ReplayItems ==
  ASSUME NEW s \in State, Sound(s), NEW e \in Event, Accepts(s, e),
         e.kind \in {"ADMITTED", "DISPATCHED", "REJECTED"}
  PROVE  ReplayGood(s, e)
<1> DEFINE t == Replay(s, e)
<1>o. e.op \in Ops
  BY DEF Accepts, Pending
<1>1. t.runs = s.runs /\ t.revoked = s.revoked /\ t.gen = s.gen
  BY DEF Replay, State
<1>2. t \in State
  BY <1>o DEF Replay, State, Accepts, ItemStates
<1>3. /\ \A o \in Ops \ {e.op} : t.item[o] = s.item[o] /\ t.owner[o] = s.owner[o]
      /\ t.item[e.op] # "none" /\ t.owner[e.op] \in s.runs
      /\ s.item[e.op] # "applied"
      /\ s.item[e.op] # "none" => t.owner[e.op] = s.owner[e.op]
  BY <1>o DEF Replay, State, Accepts, Sound, Pending
<1>4. s.runs \subseteq Runs
  BY DEF State
<1>5. Used(t) = Used(s) \cup {e.op}
  BY <1>o, <1>3 DEF Used
<1>6. IsFiniteSet(Used(t))
  BY <1>5, FS_AddElement DEF Sound
<1>7. Sound(t)
  BY <1>1, <1>3, <1>4, <1>6, StoreAssumption DEF Sound
<1>8. Extends(t, s)
  BY <1>1, <1>3 DEF Extends
<1> QED
  BY <1>2, <1>7, <1>8 DEF ReplayGood

LEMMA Replays ==
  ASSUME NEW s \in State, Sound(s), NEW e \in Event, Accepts(s, e)
  PROVE  ReplayGood(s, e)
BY ReplayRuns, ReplayItems DEF Event, EventKinds

(* The answer that a record earned is true of the state it leads to.       *)
True(s, w, r, o) ==
  /\ w = "ADMITTED" => s.item[o] # "none" /\ s.owner[o] = r
  /\ w = "APPLIED" => s.item[o] = "applied"
  /\ w = "REVOKED" => r \in s.revoked

LEMMA Earned ==
  ASSUME NEW s \in State, NEW e \in Event, Accepts(s, e), NEW q, NEW a, Earns(e, q, a)
  PROVE  True(Replay(s, e), a, q.run, q.op)
BY DEF Earns, True, Replay, Accepts, State, Pending

-----------------------------------------------------------------------------
(* The steps of the store, and those of a process that is interrupted and  *)
(* lives on.                                                               *)
StoreStep == StoreNext \/ \E p \in Procs : Abandon(p) /\ UNCHANGED crashes

LEMMA EmptySound == Empty \in State /\ Sound(Empty)
<1>1. Used(Empty) = {}
  BY DEF Used, Empty
<1> QED
  BY <1>1, FS_EmptySet DEF Empty, State, Sound, ItemStates

LEMMA StoreInvInit == StoreInit => StoreInv
<1> SUFFICES ASSUME StoreInit PROVE StoreInv
  OBVIOUS
<1>1. StoreTypeOK
  BY EmptySound, StoreAssumption
  DEF StoreInit, StoreTypeOK, Request, NoRequest, Answers
<1> QED
  BY <1>1, EmptySound
  DEF StoreInit, StoreInv, Held, Promised, Named, AppendIsReplayable, ReceiptsAreDurable

(* Steps that leave what is recorded and told alone.                       *)
LEMMA StoreKept ==
  ASSUME StoreInv, UNCHANGED <<base, extra, told>>, StoreTypeOK', Held', Promised'
  PROVE  StoreInv'
BY DEF StoreInv, Named, AppendIsReplayable, ReceiptsAreDurable

LEMMA CreateSteps ==
  ASSUME StoreInv, NEW p \in Procs, CreateBegin(p) \/ CreateEnd(p) \/ CreateFault(p)
  PROVE  StoreInv'
<1> USE DEF StoreInv
<1>1. UNCHANGED <<base, extra, told, whole, crashes>>
  BY DEF CreateBegin, CreateEnd, CreateFault, Finish
<1>2. StoreTypeOK'
  BY StoreAssumption DEF StoreTypeOK, CreateBegin, CreateEnd, CreateFault, Finish, Request, NoRequest, Answers
<1>3. Held'
  BY <1>1 DEF Held, CreateBegin, CreateEnd, CreateFault, Finish, StoreTypeOK
<1>4. Promised'
  BY <1>1 DEF Promised, CreateBegin, CreateEnd, CreateFault, Finish, StoreTypeOK
<1> QED
  BY <1>1, <1>2, <1>3, <1>4, StoreKept

LEMMA AcquireSteps ==
  ASSUME StoreInv, NEW p \in Procs, NEW q \in Request, Refuse(p, q) \/ Acquire(p, q)
  PROVE  StoreInv'
<1> USE DEF StoreInv
<1>1. UNCHANGED <<base, extra, told, whole, crashes, stage>>
  BY DEF Refuse, Acquire
<1>2. StoreTypeOK'
  BY StoreAssumption DEF StoreTypeOK, Refuse, Acquire, Answers
<1>3. Held'
  BY <1>1 DEF Held, Refuse, Acquire, StoreTypeOK
<1>4. Promised'
  BY <1>1 DEF Promised, Refuse, Acquire, StoreTypeOK
<1> QED
  BY <1>1, <1>2, <1>3, <1>4, StoreKept

LEMMA UnreadableStep ==
  ASSUME StoreInv, NEW p \in Procs, Unreadable(p)
  PROVE  StoreInv'
<1> USE DEF StoreInv
<1>1. UNCHANGED <<base, extra, told, whole, crashes, stage>>
  BY DEF Unreadable
<1>2. StoreTypeOK'
  BY StoreAssumption DEF StoreTypeOK, Unreadable, Finish, Request, NoRequest, Answers
<1>3. Held'
  BY <1>1 DEF Held, Unreadable, Finish, StoreTypeOK
<1>4. Promised'
  BY <1>1 DEF Promised, Unreadable, Finish, StoreTypeOK
<1> QED
  BY <1>1, <1>2, <1>3, <1>4, StoreKept

(* Who decides holds the lock alone, so nothing is being sealed.           *)
LEMMA Alone ==
  ASSUME StoreInv, NEW p \in Procs, pc[p] \in {"locked", "sealing"}
  PROVE  /\ lock = p /\ stage = "ready"
         /\ \A x \in Procs \ {p} : pc[x] \notin {"locked", "sealing"}
         /\ pc[p] = "locked" => extra = NoEvent
         /\ pc[p] = "sealing" => extra \in Event /\ Accepts(base, extra) /\ whole
BY StoreAssumption, EventAssumption DEF StoreInv, StoreTypeOK, Held, AppendIsReplayable

LEMMA Decided ==
  ASSUME StoreInv, NEW p \in Procs, NEW d \in Decisions(p)
  PROVE  DecisionGood(base, req[p], d)
BY DecisionsGood DEF StoreInv, StoreTypeOK, Decisions

LEMMA ReplyStep ==
  ASSUME StoreInv, NEW p \in Procs, Reply(p)
  PROVE  StoreInv'
<1> USE DEF StoreInv
<1>1. PICK d \in Decisions(p) : d.event = NoEvent /\ Finish(p, d.answer) /\ Tell(p, d.answer)
  BY DEF Reply
<1>2. /\ d.answer \in Answers /\ d.answer \notin {"ADMITTED", "APPLIED"}
      /\ d.answer = "REVOKED" => req[p].run \in base.revoked
  BY <1>1, Decided DEF DecisionGood
<1>3. UNCHANGED <<base, extra, whole, crashes, stage>>
  BY DEF Reply
<1>4. \A t \in told' : t \in told \/ (t.what = "REVOKED" /\ t.run \in base.revoked)
  BY <1>1, <1>2 DEF Tell, Lasting
<1>5. told' \subseteq [what : Lasting, run : Runs \cup {NoRun}, op : Ops \cup {NoOp}]
  BY <1>1 DEF Tell, StoreTypeOK, Request, NoRequest
<1>6. StoreTypeOK'
  BY <1>1, <1>2, <1>3, <1>5, StoreAssumption DEF StoreTypeOK, Reply, Finish, Request, NoRequest
<1>7. Held' /\ Promised'
  BY <1>1, <1>3 DEF Held, Promised, Reply, Finish, StoreTypeOK
<1>8. Named' /\ ReceiptsAreDurable'
  BY <1>3, <1>4 DEF Named, ReceiptsAreDurable
<1> QED
  BY <1>3, <1>6, <1>7, <1>8 DEF AppendIsReplayable

LEMMA JournalStep ==
  ASSUME StoreInv, NEW p \in Procs, JournalWrite(p)
  PROVE  StoreInv'
<1> USE DEF StoreInv
<1>1. PICK d \in Decisions(p) : d.event # NoEvent /\ extra' = d.event /\ ans' = [ans EXCEPT ![p] = d.answer]
  BY DEF JournalWrite
<1>2. d.event \in Event /\ d.answer \in Answers /\ Accepts(base, d.event) /\ Earns(d.event, req[p], d.answer)
  BY <1>1, Decided DEF DecisionGood
<1>3. UNCHANGED <<base, told, whole, crashes, stage, lock, req>> /\ whole
      /\ pc' = [pc EXCEPT ![p] = "sealing"] /\ pc[p] = "locked"
  BY DEF JournalWrite
<1>4. lock = p /\ stage = "ready" /\ \A x \in Procs \ {p} : pc[x] \notin {"locked", "sealing"}
  BY <1>3, Alone
<1>5. StoreTypeOK'
  BY <1>1, <1>2, <1>3, <1>4, EventAssumption DEF StoreTypeOK
<1>6. Held' /\ Promised'
  BY <1>1, <1>2, <1>3, <1>4 DEF Held, Promised, StoreTypeOK
<1>7. AppendIsReplayable' /\ Named' /\ ReceiptsAreDurable'
  BY <1>1, <1>2, <1>3 DEF AppendIsReplayable, Named, ReceiptsAreDurable
<1> QED
  BY <1>3, <1>5, <1>6, <1>7

LEMMA WriteFaultStep ==
  ASSUME StoreInv, NEW p \in Procs, WriteFault(p)
  PROVE  StoreInv'
<1> USE DEF StoreInv
<1>1. UNCHANGED <<base, told, crashes, stage>> /\ extra' = NoEvent /\ whole' = FALSE /\ Finish(p, "RAISED")
      /\ pc[p] \in {"locked", "sealing"}
  BY DEF WriteFault, MayWrite
<1>2. stage = "ready" /\ \A x \in Procs \ {p} : pc[x] \notin {"locked", "sealing"}
  BY <1>1, Alone
<1>3. StoreTypeOK'
  BY <1>1, <1>2, StoreAssumption DEF StoreTypeOK, Finish, Request, NoRequest, Answers
<1>4. Held' /\ Promised'
  BY <1>1, <1>2 DEF Held, Promised, Finish, StoreTypeOK
<1> QED
  BY <1>1, <1>3, <1>4 DEF AppendIsReplayable, Named, ReceiptsAreDurable

LEMMA AbandonStep ==
  ASSUME StoreInv, NEW p \in Procs, Abandon(p), crashes' \in 0 .. MaxCrashes
  PROVE  StoreInv'
<1> USE DEF StoreInv
<1>1. UNCHANGED <<base, told, stage>> /\ Finish(p, "RAISED")
      /\ extra' = (IF pc[p] = "sealing" THEN NoEvent ELSE extra)
      /\ whole' \in {whole, FALSE} /\ (whole' # whole => pc[p] \in {"locked", "sealing"})
  BY DEF Abandon, MayWrite, StoreTypeOK
<1>2. pc[p] \in {"locked", "sealing"} =>
        stage = "ready" /\ \A x \in Procs \ {p} : pc[x] \notin {"locked", "sealing"}
  BY Alone
<1>3. StoreTypeOK'
  BY <1>1, <1>2, StoreAssumption DEF StoreTypeOK, Finish, Request, NoRequest, Answers
<1>4. Held' /\ Promised'
  BY <1>1, <1>2 DEF Held, Promised, Finish, StoreTypeOK
<1> QED
  BY <1>1, <1>3, <1>4 DEF AppendIsReplayable, Named, ReceiptsAreDurable

LEMMA SealStep ==
  ASSUME StoreInv, NEW p \in Procs, Seal(p)
  PROVE  StoreInv'
<1> USE DEF StoreInv
<1>1. /\ extra \in Event /\ Accepts(base, extra) /\ whole /\ stage = "ready" /\ lock = p
      /\ \A x \in Procs \ {p} : pc[x] \notin {"locked", "sealing"}
  BY Alone DEF Seal
<1>2. /\ base' = Replay(base, extra) /\ extra' = NoEvent /\ UNCHANGED <<stage, crashes, whole>>
      /\ \/ pc' = [pc EXCEPT ![p] = "locked"] /\ UNCHANGED <<lock, req, ans, told>>
         \/ Finish(p, ans[p]) /\ Tell(p, ans[p])
  BY <1>1 DEF Seal
<1>3. ReplayGood(base, extra)
  BY <1>1, Replays DEF StoreTypeOK
<1>4. True(base', ans[p], req[p].run, req[p].op)
      /\ (ans[p] \in {"ADMITTED", "APPLIED"} => req[p].op \in Ops)
  <2>1. Earns(extra, req[p], ans[p])
    BY DEF Seal, Promised
  <2>2. extra.kind \in {"ADMITTED", "DISPATCHED"} => extra.op \in Ops
    BY <1>1 DEF Accepts, Pending
  <2> QED
    BY <1>1, <1>2, <2>1, <2>2, Earned DEF StoreTypeOK, Earns
<1>5. \A t \in told' : t \in told \/ t = [what |-> ans[p], run |-> req[p].run, op |-> req[p].op]
  BY <1>2 DEF Tell, Lasting
<1>6. told' \subseteq [what : Lasting, run : Runs \cup {NoRun}, op : Ops \cup {NoOp}]
  BY <1>2 DEF Tell, StoreTypeOK, Request, NoRequest
<1>7. StoreTypeOK'
  <2>1. base' \in State
    BY <1>2, <1>3 DEF ReplayGood
  <2> QED
    BY <1>1, <1>2, <1>6, <2>1, StoreAssumption DEF StoreTypeOK, Finish, Request, NoRequest
<1>8. Held' /\ Promised'
  BY <1>1, <1>2 DEF Held, Promised, Finish, StoreTypeOK
<1>9. Named'
  <2> SUFFICES ASSUME NEW t \in told', t.what # "REVOKED" PROVE t.op \in Ops
    BY DEF Named
  <2>1. t.what \in Lasting
    BY <1>6
  <2> QED
    BY <1>4, <1>5, <2>1 DEF Named, Lasting
<1>10. ReceiptsAreDurable'
  <2> SUFFICES ASSUME NEW t \in told'
               PROVE  True(base', t.what, t.run, t.op)
    BY DEF ReceiptsAreDurable, True
  <2>1. CASE t \in told
    <3>1. True(base, t.what, t.run, t.op) /\ (t.what # "REVOKED" => t.op \in Ops)
      BY <2>1 DEF ReceiptsAreDurable, True, Named
    <3>2. Extends(base', base)
      BY <1>2, <1>3 DEF ReplayGood
    <3> QED
      BY <3>1, <3>2 DEF True, Extends
  <2>2. CASE t \notin told
    BY <1>4, <1>5, <2>2
  <2> QED
    BY <2>1, <2>2
<1>11. Sound(base)'
  BY <1>2, <1>3 DEF ReplayGood, Sound, Used
<1> QED
  BY <1>2, <1>7, <1>8, <1>9, <1>10, <1>11 DEF AppendIsReplayable

(* Every step of the store keeps the invariant.                            *)
LEMMA WorkStep ==
  ASSUME StoreInv, NEW p \in Procs, Work(p)
  PROVE  StoreInv'
<1>1. CASE CreateEnd(p)
  BY <1>1, CreateSteps
<1>2. CASE Unreadable(p)
  BY <1>2, UnreadableStep
<1>3. CASE Reply(p)
  BY <1>3, ReplyStep
<1>4. CASE JournalWrite(p)
  BY <1>4, JournalStep
<1>5. CASE Seal(p)
  BY <1>5, SealStep
<1> QED
  BY <1>1, <1>2, <1>3, <1>4, <1>5 DEF Work

LEMMA StoreInvStep == StoreInv /\ [StoreStep]_store => StoreInv'
<1> SUFFICES ASSUME StoreInv, [StoreStep]_store PROVE StoreInv'
  OBVIOUS
<1>1. ASSUME NEW p \in Procs, CreateBegin(p) PROVE StoreInv'
  BY <1>1, CreateSteps
<1>2. ASSUME NEW p \in Procs, Work(p) PROVE StoreInv'
  BY <1>2, WorkStep
<1>3. ASSUME NEW p \in Procs, Mishap(p) PROVE StoreInv'
  BY <1>3, CreateSteps, WriteFaultStep DEF Mishap
<1>4. ASSUME NEW p \in Procs, Die(p) PROVE StoreInv'
  <2>1. crashes' \in 0 .. MaxCrashes
    BY <1>4, StoreAssumption DEF Die, StoreInv, StoreTypeOK
  <2> QED
    BY <1>4, <2>1, AbandonStep DEF Die
<1>5. ASSUME NEW p \in Procs, NEW q \in Request, Refuse(p, q) \/ Acquire(p, q) PROVE StoreInv'
  BY <1>5, AcquireSteps
<1>6. ASSUME NEW p \in Procs, Abandon(p), UNCHANGED crashes PROVE StoreInv'
  BY <1>6, AbandonStep DEF StoreInv, StoreTypeOK
<1>7. CASE UNCHANGED store
  BY <1>7 DEF store, StoreInv, StoreTypeOK, Held, Promised, Named, AppendIsReplayable,
     ReceiptsAreDurable
<1> QED
  BY <1>1, <1>2, <1>3, <1>4, <1>5, <1>6, <1>7 DEF StoreStep, StoreNext

-----------------------------------------------------------------------------
(* The refinement of the ledger.                                           *)

(* Steps other than the write of the witness and the end of the creation   *)
(* leave what is on record alone; they damage the store or they do not.    *)
LEMMA QuietSteps ==
  ASSUME StoreInv, [StoreStep]_store,
         \A p \in Procs : ~CreateEnd(p) /\ ~Seal(p)
  PROVE  /\ base' = base /\ (stage' = stage \/ (stage # "ready" /\ stage' # "ready"))
         /\ whole' = whole \/ (stage = "ready" /\ whole' = FALSE)
<1>1. ASSUME NEW p \in Procs, CreateBegin(p) \/ CreateFault(p) \/ Unreadable(p) \/ Reply(p) \/ JournalWrite(p)
      PROVE  base' = base /\ whole' = whole /\ (stage' = stage \/ (stage # "ready" /\ stage' # "ready"))
  BY <1>1 DEF CreateBegin, CreateFault, Unreadable, Reply, JournalWrite
<1>2. ASSUME NEW p \in Procs, WriteFault(p)
      PROVE  base' = base /\ whole' = FALSE /\ stage' = stage /\ stage = "ready"
  BY <1>2, Alone DEF WriteFault, MayWrite
<1>3. ASSUME NEW p \in Procs, Abandon(p)
      PROVE  base' = base /\ stage' = stage /\ (whole' = whole \/ (stage = "ready" /\ whole' = FALSE))
  <2>1. CASE pc[p] \in {"locked", "sealing"}
    BY <1>3, <2>1, Alone DEF Abandon, StoreInv, StoreTypeOK
  <2>2. CASE pc[p] \notin {"locked", "sealing"}
    BY <1>3, <2>2 DEF Abandon, MayWrite, StoreInv, StoreTypeOK
  <2> QED
    BY <2>1, <2>2
<1>4. ASSUME NEW p \in Procs, NEW q \in Request, Refuse(p, q) \/ Acquire(p, q)
      PROVE  base' = base /\ whole' = whole /\ stage' = stage
  BY <1>4 DEF Refuse, Acquire
<1>5. CASE UNCHANGED store
  BY <1>5 DEF store
<1> QED
  BY <1>1, <1>2, <1>3, <1>4, <1>5 DEF StoreStep, StoreNext, Work, Mishap, Die

(* A run owns, in the ledger, what was admitted for it.                    *)
LEMMA OwnedIsAdmitted ==
  ASSUME NEW s \in State, Sound(s), NEW r \in Runs
  PROVE  {o \in Ops : s.owner[o] = r} = Admitted(s, r)
BY StoreAssumption DEF Sound, Admitted, Used

(* The record that the witness is about to cover is a step of the ledger.  *)
LEMMA SealRefines ==
  ASSUME StoreInv, NEW p \in Procs, Seal(p)
  PROVE  [Ledger!LedgerNext]_Ledger!ledger
<1> DEFINE e == extra
           book == IF stage # "ready" THEN "new" ELSE IF whole THEN "open" ELSE "closed"
<1>1. /\ e \in Event /\ Accepts(base, e) /\ whole /\ stage = "ready"
      /\ base' = Replay(base, e) /\ UNCHANGED <<stage, whole>>
  BY Alone DEF Seal
<1>2. base \in State /\ Sound(base)
  BY DEF StoreInv, StoreTypeOK
<1>3. book = "open" /\ book' = book
  BY <1>1
<1>4. CASE e.kind = "DATASET"
  <2>1. base' = [base EXCEPT !.dataset = TRUE]
    BY <1>1, <1>4 DEF Replay
  <2>2. base'.runs = base.runs /\ base'.revoked = base.revoked /\ base'.item = base.item /\ base'.owner = base.owner
    BY <1>2, <2>1 DEF State
  <2> QED
    BY <1>3, <2>2 DEF Ledger!ledger
<1>5. CASE e.kind = "REGISTERED"
  <2>1. base' = [base EXCEPT !.runs = @ \cup {e.run}] /\ e.run \in Runs \ base.runs
    BY <1>1, <1>5 DEF Replay, Accepts
  <2>2. base'.runs = base.runs \cup {e.run} /\ base'.revoked = base.revoked /\ base'.item = base.item /\ base'.owner = base.owner
    BY <1>2, <2>1 DEF State
  <2>3. Ledger!Register(e.run)
    BY <1>3, <2>1, <2>2 DEF Ledger!Register
  <2> QED
    BY <2>1, <2>3 DEF Ledger!LedgerNext
<1>6. CASE e.kind = "REVOKED"
  <2>1. base' = [base EXCEPT !.revoked = @ \cup {e.run}, !.gen[e.run] = @ + 1] /\ e.run \in base.runs \ base.revoked
    BY <1>1, <1>6 DEF Replay, Accepts
  <2>2. base'.runs = base.runs /\ base'.revoked = base.revoked \cup {e.run} /\ base'.item = base.item /\ base'.owner = base.owner
    BY <1>2, <2>1 DEF State
  <2>3. Ledger!Fence(e.run)
    BY <1>3, <2>1, <2>2 DEF Ledger!Fence
  <2> QED
    BY <1>2, <2>1, <2>3 DEF Ledger!LedgerNext, State
<1>7. CASE e.kind = "ADMITTED"
  <2>1. /\ base' = [base EXCEPT !.item[e.op] = "queued", !.owner[e.op] = e.run]
        /\ e.op \in Ops /\ e.run \in base.runs \ base.revoked /\ base.item[e.op] = "none"
        /\ Cardinality(Admitted(base, e.run)) < MaxActions
    BY <1>1, <1>7 DEF Replay, Accepts
  <2>2. e.run \in Runs
    BY <1>2, <2>1 DEF State
  <2>3. /\ base'.runs = base.runs /\ base'.revoked = base.revoked
        /\ base'.item = [base.item EXCEPT ![e.op] = "queued"]
        /\ base'.owner = [base.owner EXCEPT ![e.op] = e.run]
    BY <1>2, <2>1 DEF State
  <2>4. Ledger!Cardinality(Ledger!Owned(e.run)) < MaxActions
    <3>1. Cardinality(Ledger!Owned(e.run)) < MaxActions
      BY <1>2, <2>1, <2>2, OwnedIsAdmitted DEF Ledger!Owned
    <3> QED
      BY <3>1 DEF Ledger!Cardinality, Cardinality
  <2>5. Ledger!Admit(e.op, e.run)
    BY <1>3, <2>1, <2>3, <2>4 DEF Ledger!Admit
  <2> QED
    BY <2>1, <2>2, <2>5 DEF Ledger!LedgerNext
<1>8. CASE e.kind \in {"DISPATCHED", "REJECTED"}
  <2> DEFINE how == IF e.kind = "DISPATCHED" THEN "applied" ELSE "rejected"
  <2>1. /\ base' = [base EXCEPT !.item[e.op] = how]
        /\ e.op \in Ops /\ base.item[e.op] = "queued"
        /\ how = "applied" => base.owner[e.op] \in base.runs \ base.revoked
    BY <1>1, <1>8 DEF Replay, Accepts, Pending
  <2>2. /\ base'.runs = base.runs /\ base'.revoked = base.revoked /\ base'.owner = base.owner
        /\ base'.item = [base.item EXCEPT ![e.op] = how]
    BY <1>2, <2>1 DEF State
  <2>3. Ledger!Settle(e.op, how)
    BY <1>3, <2>1, <2>2 DEF Ledger!Settle
  <2> QED
    BY <2>1, <2>3 DEF Ledger!LedgerNext
<1> QED
  BY <1>1, <1>4, <1>5, <1>6, <1>7, <1>8 DEF Event, EventKinds

LEMMA StepRefines == StoreInv /\ [StoreStep]_store => [Ledger!LedgerNext]_Ledger!ledger
<1> SUFFICES ASSUME StoreInv, [StoreStep]_store PROVE [Ledger!LedgerNext]_Ledger!ledger
  OBVIOUS
<1>1. ASSUME NEW p \in Procs, CreateEnd(p) PROVE [Ledger!LedgerNext]_Ledger!ledger
  <2>1. base' = base /\ whole' = whole /\ stage' = "ready"
    BY <1>1 DEF CreateEnd
  <2>2. CASE stage = "ready"
    BY <2>1, <2>2 DEF Ledger!ledger
  <2>3. CASE stage # "ready"
    <3>1. whole
      BY <2>3 DEF StoreInv, Held
    <3>2. Ledger!Open
      BY <2>1, <2>3, <3>1 DEF Ledger!Open
    <3> QED
      BY <3>2 DEF Ledger!LedgerNext
  <2> QED
    BY <2>2, <2>3
<1>2. ASSUME NEW p \in Procs, Seal(p) PROVE [Ledger!LedgerNext]_Ledger!ledger
  BY <1>2, SealRefines
<1>3. CASE \A p \in Procs : ~CreateEnd(p) /\ ~Seal(p)
  <2>1. /\ base' = base /\ (stage' = stage \/ (stage # "ready" /\ stage' # "ready"))
        /\ whole' = whole \/ (stage = "ready" /\ whole' = FALSE)
    BY <1>3, QuietSteps
  <2>2. CASE whole' = whole
    BY <2>1, <2>2 DEF Ledger!ledger
  <2>3. CASE stage = "ready" /\ whole' = FALSE
    <3>1. Ledger!Close
      BY <2>1, <2>3 DEF Ledger!Close
    <3> QED
      BY <3>1 DEF Ledger!LedgerNext
  <2> QED
    BY <2>1, <2>2, <2>3
<1> QED
  BY <1>1, <1>2, <1>3

LEMMA InitRefines == StoreInit => Ledger!LedgerInit
BY DEF StoreInit, Empty, Ledger!LedgerInit

-----------------------------------------------------------------------------
(* The service and its clients.                                            *)
Packet ==
  [from : Clients, n : Nat, kind : {"admit", "dispatch", "result", "bad"}, op : Ops]

Client ==
  [stage : Stages, op : Ops \cup {NoOp}, n : Nat, queued : BOOLEAN,
   effect : {"UNKNOWN", "CONFIRMED"}]

SvcStates == {"down", "creating", "granting", "unbound", "listening", "handling", "closed",
              "stopping"}

ServiceTypeOK ==
  /\ svc \in SvcStates /\ run \in Runs \cup {NoRun} /\ net \subseteq Packet
  /\ cl \in [Clients -> Client]
  /\ wire \in [Clients -> Answers \cup {"idle", "open", "CLOSED", "PROTOCOL"}]
  /\ svc = "handling" => conn \in Packet
  /\ svc \in {"unbound", "listening", "handling", "closed", "stopping"} => run \in base.runs

(* A client that sent anything has chosen its operation.                   *)
Chosen ==
  \A c \in Clients :
    /\ cl[c].stage # "idle" => cl[c].op \in Ops
    /\ wire[c] # "idle" => cl[c].stage # "idle"

(* A packet of the connection a client is on asks for its operation.       *)
OfItsClient(p) == p.n <= cl[p.from].n /\ (p.n = cl[p.from].n => p.op = cl[p.from].op)

Matched ==
  /\ \A p \in net : OfItsClient(p)
  /\ svc = "handling" => OfItsClient(conn)

(* What the service asks the store is what the packet asked of it.         *)
Asked ==
  svc = "handling" =>
    /\ pc[Service] \in {"idle", "locked", "sealing"}
    /\ pc[Service] # "idle" => req[Service].op = conn.op /\ req[Service].kind = conn.kind
    /\ pc[Service] = "idle" /\ ans[Service] \in {"APPLIED", "AVAILABLE"}
         => base.item[conn.op] = "applied"

(* A positive answer that reached a client is true.                        *)
Informed == \A c \in Clients : wire[c] \in {"APPLIED", "AVAILABLE"} => base.item[cl[c].op] = "applied"

Unconfirmed == \A c \in Clients : cl[c].stage = "idle" => cl[c].effect = "UNKNOWN"

(* Who stops either still asks for the fence, or has it, or cannot.        *)
Stopping ==
  svc = "stopping" =>
    /\ pc[Service] \in {"idle", "locked", "sealing"}
    /\ pc[Service] # "idle" => req[Service] = [kind |-> "revoke", run |-> run, op |-> NoOp]
    /\ pc[Service] = "sealing" => ans[Service] = "REVOKED"
    /\ pc[Service] = "idle" => run \in base.revoked \/ ~whole

ServiceInv ==
  /\ StoreInv /\ ServiceTypeOK /\ Chosen /\ Matched /\ Asked /\ Informed /\ Unconfirmed
  /\ Stopping /\ ConfirmedIsApplied

(* Each step of the service is a step of the store.                        *)
LEMMA StoreMoves ==
  ASSUME ServiceTypeOK, StoreInv, [ServiceNext]_all
  PROVE  [StoreStep]_store
<1> USE ServiceAssumption DEF StoreStep, StoreNext
<1>1. CASE SvcCreate
  BY <1>1 DEF SvcCreate
<1>2. CASE SvcGrant
  <2>1. PICK r \in Runs : Acquire(Service, [kind |-> "grant", run |-> r, op |-> NoOp])
    BY <1>2 DEF SvcGrant
  <2>2. [kind |-> "grant", run |-> r, op |-> NoOp] \in Request
    BY DEF Request
  <2> QED
    BY <2>1, <2>2
<1>3. CASE SvcFence
  <2>1. [kind |-> "revoke", run |-> run, op |-> NoOp] \in Request
    BY <1>3 DEF SvcFence, Request, ServiceTypeOK, StoreInv, StoreTypeOK, State
  <2> QED
    BY <1>3, <2>1 DEF SvcFence
<1>4. ASSUME NEW p \in net, SvcTake(p) PROVE StoreStep
  <2>1. [kind |-> p.kind, run |-> run, op |-> p.op] \in Request
    <3>1. p.kind \in {"admit", "dispatch", "result"} /\ p.op \in Ops
      BY <1>4 DEF SvcTake, ServiceTypeOK, Packet
    <3>2. run \in Runs
      BY <1>4 DEF SvcTake, ServiceTypeOK, StoreInv, StoreTypeOK, State
    <3> QED
      BY <3>1, <3>2 DEF Request
  <2> QED
    BY <1>4, <2>1 DEF SvcTake
<1>5. CASE SvcWork
  <2>1. CASE SvcGrant
    BY <2>1, <1>2
  <2>2. CASE SvcFence
    BY <2>2, <1>3
  <2>3. CASE Work(Service)
    BY <2>3
  <2>4. CASE SvcGranted \/ SvcRefused \/ SvcBind \/ SvcAnswer \/ SvcExit \/ SvcStopped
    BY <2>4 DEF SvcGranted, SvcRefused, SvcBind, SvcAnswer, SvcExit, SvcStopped
  <2> QED
    BY <1>5, <2>1, <2>2, <2>3, <2>4 DEF SvcWork
<1>6. CASE SvcInterrupt
  BY <1>6 DEF SvcInterrupt
<1>7. CASE SvcKilled
  BY <1>7 DEF SvcKilled
<1>8. CASE RemoveStale \/ \E p \in net : SvcDeny(p)
  BY <1>8 DEF RemoveStale, SvcDeny
<1>9. ASSUME NEW c \in Clients, ClientNext(c) PROVE UNCHANGED store
  BY <1>9 DEF ClientNext, ClientRun, ClientAdmitted, ClientApplied, ClientDone, ClientFailed, ClientManual
<1>10. ASSUME NEW p \in Procs, Mishap(p) PROVE StoreStep
  BY <1>10
<1>11. ASSUME NEW p \in Controllers, ControllerAsks(p) \/ Work(p) \/ Die(p) PROVE StoreStep
  BY <1>11 DEF Controllers, ControllerAsks
<1>12. CASE UNCHANGED all
  BY <1>12 DEF all
<1> QED
  BY <1>1, <1>2, <1>4, <1>5, <1>6, <1>7, <1>8, <1>9, <1>10, <1>11, <1>12 DEF ServiceNext

(* What is on record stays on record.                                      *)
LEMMA StoreGrows ==
  ASSUME StoreInv, [StoreStep]_store
  PROVE  Extends(base', base) /\ (whole' => whole)
<1>1. ASSUME NEW p \in Procs, CreateEnd(p) PROVE base' = base /\ whole' = whole
  BY <1>1 DEF CreateEnd
<1>2. ASSUME NEW p \in Procs, Seal(p) PROVE Extends(base', base) /\ whole' = whole
  <2>1. extra \in Event /\ Accepts(base, extra)
    BY <1>2, Alone DEF Seal
  <2>2. base' = Replay(base, extra) /\ whole' = whole
    BY <1>2, <2>1 DEF Seal
  <2> QED
    BY <2>1, <2>2, Replays DEF ReplayGood, StoreInv, StoreTypeOK
<1>3. CASE \A p \in Procs : ~CreateEnd(p) /\ ~Seal(p)
  <2>1. base' = base /\ (whole' = whole \/ whole' = FALSE)
    BY <1>3, QuietSteps
  <2> QED
    BY <2>1 DEF Extends
<1>4. base' = base => Extends(base', base)
  BY DEF Extends
<1> QED
  BY <1>1, <1>2, <1>3, <1>4

(* A step of another process leaves the service's own words alone.         *)
LEMMA OthersLeave ==
  ASSUME StoreInv, NEW p \in Procs \ {Service},
         \/ CreateBegin(p) \/ Work(p) \/ Mishap(p) \/ Die(p)
         \/ \E q \in Request : Refuse(p, q) \/ Acquire(p, q)
  PROVE  pc'[Service] = pc[Service] /\ req'[Service] = req[Service] /\ ans'[Service] = ans[Service]
BY ServiceAssumption
DEF StoreInv, StoreTypeOK, CreateBegin, Work, CreateEnd, Unreadable, Reply, JournalWrite, Seal, Mishap,
    CreateFault, WriteFault, Die, Abandon, Refuse, Acquire, Finish

(* Only the request for a result is answered with one.                     *)
LEMMA OnlyResult ==
  ASSUME NEW s \in State, NEW q \in Request, q.kind # "result", NEW late \in BOOLEAN
  PROVE  Decision(s, q, late).answer # "AVAILABLE"
<1>1. CASE q.kind = "admit"
  BY <1>1 DEF Decision, Admit, Answer, Record
<1>2. CASE q.kind = "dispatch"
  BY <1>2 DEF Decision, Dispatch, Answer, Record
<1>3. CASE q.kind = "revoke"
  BY <1>3 DEF Decision, Revoke, Answer, Record
<1>4. Register(s, q).answer # "AVAILABLE"
  BY DEF Register, Answer, Record
<1>5. CASE q.kind = "grant"
  <2>1. Cardinality(s.runs) > 1 \/ Cardinality(s.runs) = 1 \/ s.runs = {}
    BY RunsCounted
  <2> QED
    BY <1>4, <1>5, <2>1, RunsCounted DEF Decision, Grant, Answer, Record, State
<1>6. CASE q.kind = "snapshot"
  BY <1>6 DEF Decision, Answer
<1> QED
  BY <1>1, <1>2, <1>3, <1>4, <1>5, <1>6 DEF Request, NoRequest, Decision

(* What a step of the service does to its own request and answer.          *)
LEMMA OwnStep ==
  ASSUME StoreInv, Work(Service) \/ Mishap(Service), pc[Service] \in {"locked", "sealing"}
  PROVE  /\ pc'[Service] \in {"idle", "locked", "sealing"}
         /\ pc'[Service] # "idle" => req'[Service] = req[Service]
         /\ pc'[Service] = "idle" /\ ans'[Service] \in {"APPLIED", "AVAILABLE"}
              => base'.item[req[Service].op] = "applied"
         /\ req[Service].kind = "revoke" /\ pc'[Service] = "sealing" => ans'[Service] = "REVOKED"
         /\ req[Service].kind = "revoke" /\ req[Service].run \in base.runs
              /\ pc'[Service] = "idle" /\ (pc[Service] = "sealing" => ans[Service] = "REVOKED")
              => req[Service].run \in base'.revoked \/ ~whole'
<1> USE ServiceAssumption
<1>t. pc \in [Procs -> {"idle", "creating", "locked", "sealing"}] /\ req \in [Procs -> Request]
      /\ ans \in [Procs -> Answers] /\ base \in State
  BY DEF StoreInv, StoreTypeOK
<1>1. CASE Unreadable(Service) \/ WriteFault(Service)
  <2>1. Finish(Service, "RAISED") /\ ~whole'
    BY <1>1 DEF Unreadable, WriteFault
  <2> QED
    BY <1>t, <2>1 DEF Finish
<1>2. CASE Reply(Service)
  <2>1. PICK d \in Decisions(Service) : d.event = NoEvent /\ Finish(Service, d.answer)
    BY <1>2 DEF Reply
  <2>2. base' = base /\ pc'[Service] = "idle" /\ ans'[Service] = d.answer
    BY <1>2, <1>t, <2>1 DEF Reply, Finish
  <2>3. d.answer # "APPLIED"
    BY <2>1, Decided DEF DecisionGood
  <2>4. PICK late \in BOOLEAN : d = Decision(base, req[Service], late)
    BY DEF Decisions
  <2>5. ASSUME d.answer = "AVAILABLE" PROVE base.item[req[Service].op] = "applied"
    <3>1. req[Service].kind = "result"
      BY <1>t, <2>4, <2>5, OnlyResult
    <3> QED
      BY <2>4, <2>5, <3>1 DEF Decision, Result, Answer
  <2>6. ASSUME req[Service].kind = "revoke", req[Service].run \in base.runs
        PROVE  req[Service].run \in base.revoked
    <3>1. d = Revoke(base, req[Service])
      BY <2>4, <2>6 DEF Decision
    <3>2. CASE req[Service].run \notin base.revoked
      <4>1. d.event = [kind |-> "REVOKED", run |-> req[Service].run, op |-> NoOp, why |-> "none"]
        BY <2>6, <3>1, <3>2 DEF Revoke, Record
      <4>2. req[Service].run \in Runs
        BY <1>t, <2>6 DEF State
      <4> QED
        BY <2>1, <4>1, <4>2, EventAssumption DEF Event, EventKinds
    <3> QED
      BY <3>2
  <2> QED
    BY <2>2, <2>3, <2>5, <2>6
<1>3. CASE JournalWrite(Service)
  <2>1. PICK d \in Decisions(Service) : d.event # NoEvent /\ ans' = [ans EXCEPT ![Service] = d.answer]
    BY <1>3 DEF JournalWrite
  <2>2. req' = req /\ pc'[Service] = "sealing"
    BY <1>3, <1>t DEF JournalWrite
  <2>3. PICK late \in BOOLEAN : d = Decision(base, req[Service], late)
    BY DEF Decisions
  <2>4. ASSUME req[Service].kind = "revoke" PROVE d.answer = "REVOKED"
    <3>1. d = Revoke(base, req[Service])
      BY <2>3, <2>4 DEF Decision
    <3> QED
      BY <2>1, <3>1 DEF Revoke, Answer, Record
  <2> QED
    BY <1>t, <2>1, <2>2, <2>4
<1>4. CASE Seal(Service)
  <2>1. /\ extra \in Event /\ Accepts(base, extra) /\ pc[Service] = "sealing"
        /\ Earns(extra, req[Service], ans[Service])
    BY <1>4, Alone DEF Seal, StoreInv, Promised
  <2>2. base' = Replay(base, extra)
    BY <1>4, <2>1 DEF Seal
  <2>3. True(base', ans[Service], req[Service].run, req[Service].op)
    BY <1>t, <2>1, <2>2, Earned
  <2>4. ans'[Service] = ans[Service] /\ pc'[Service] \in {"idle", "locked"}
        /\ (pc'[Service] # "idle" => req' = req)
    BY <1>4, <1>t, <2>1 DEF Seal, Finish
  <2>5. ans[Service] # "AVAILABLE"
    BY <2>1 DEF Earns
  <2> QED
    BY <2>1, <2>3, <2>4, <2>5 DEF True
<1>5. CASE CreateEnd(Service) \/ CreateFault(Service)
  BY <1>5 DEF CreateEnd, CreateFault
<1> QED
  BY <1>1, <1>2, <1>3, <1>4, <1>5 DEF Work, Mishap

LEMMA ServiceInvInit == ServiceInit => ServiceInv
<1> SUFFICES ASSUME ServiceInit PROVE ServiceInv
  OBVIOUS
<1>1. StoreInv
  BY StoreInvInit DEF ServiceInit
<1> QED
  BY <1>1 DEF ServiceInit, ServiceInv, ServiceTypeOK, SvcStates, Client, Stages, Chosen, Matched, Asked,
     Informed, Unconfirmed, Stopping, ConfirmedIsApplied

(* Steps of the store beside which the service and its clients rest.       *)
LEMMA StoreSide ==
  ASSUME ServiceInv, [StoreStep]_store, UNCHANGED ipc, Asked', Stopping'
  PROVE  ServiceInv'
<1>1. StoreInv' /\ Extends(base', base)
  BY StoreInvStep, StoreGrows DEF ServiceInv
<1>2. ServiceTypeOK'
  BY <1>1 DEF ServiceInv, ServiceTypeOK, ipc, Extends
<1>3. (Chosen /\ Matched /\ Unconfirmed)'
  BY DEF ServiceInv, Chosen, Matched, OfItsClient, Unconfirmed, ipc
<1>4. Informed'
  <2> SUFFICES ASSUME NEW c \in Clients, wire[c] \in {"APPLIED", "AVAILABLE"}
               PROVE  base'.item[cl[c].op] = "applied"
    BY DEF Informed, ipc
  <2>1. base.item[cl[c].op] = "applied" /\ cl[c].op \in Ops
    BY DEF ServiceInv, Informed, Chosen
  <2> QED
    BY <1>1, <2>1 DEF Extends
<1>5. ConfirmedIsApplied'
  <2> SUFFICES ASSUME NEW c \in Clients, cl[c].effect = "CONFIRMED" \/ cl[c].stage = "done"
               PROVE  base'.item[cl[c].op] = "applied"
    BY DEF ConfirmedIsApplied, ipc
  <2>1. base.item[cl[c].op] = "applied" /\ cl[c].op \in Ops
    BY DEF ServiceInv, ConfirmedIsApplied, Chosen, Unconfirmed
  <2> QED
    BY <1>1, <2>1 DEF Extends
<1> QED
  BY <1>1, <1>2, <1>3, <1>4, <1>5 DEF ServiceInv

LEMMA QuietWork ==
  ASSUME ServiceInv, Work(Service) \/ Mishap(Service), UNCHANGED ipc
  PROVE  ServiceInv'
<1>1. [StoreStep]_store
  BY ServiceAssumption DEF StoreStep, StoreNext
<1>2. StoreInv /\ Extends(base', base) /\ (whole' => whole)
  BY <1>1, StoreGrows DEF ServiceInv
<1>3. CASE pc[Service] \in {"locked", "sealing"}
  <2>1. Asked'
    BY <1>2, <1>3, OwnStep DEF ServiceInv, Asked, ipc
  <2>2. Stopping'
    <3> SUFFICES ASSUME svc = "stopping"
                 PROVE  Stopping'
      BY DEF Stopping, ipc
    <3>1. /\ req[Service] = [kind |-> "revoke", run |-> run, op |-> NoOp]
          /\ pc[Service] = "sealing" => ans[Service] = "REVOKED"
          /\ run \in base.runs
      BY <1>3 DEF ServiceInv, Stopping, ServiceTypeOK
    <3> QED
      BY <1>2, <1>3, <3>1, OwnStep DEF Stopping, ipc
  <2> QED
    BY <1>1, <2>1, <2>2, StoreSide
<1>4. CASE pc[Service] = "creating"
  <2>1. svc \notin {"handling", "stopping"}
    BY <1>4 DEF ServiceInv, Asked, Stopping
  <2> QED
    BY <1>1, <2>1, StoreSide DEF Asked, Stopping, ipc
<1>5. pc[Service] # "idle"
  BY DEF Work, CreateEnd, Unreadable, Reply, JournalWrite, Seal, Mishap, CreateFault, WriteFault, MayWrite
<1> QED
  BY <1>2, <1>3, <1>4, <1>5, ServiceAssumption DEF StoreInv, StoreTypeOK

LEMMA QuietOthers ==
  ASSUME ServiceInv, UNCHANGED ipc, NEW p \in Procs \ {Service},
         \/ CreateBegin(p) \/ Work(p) \/ Mishap(p) \/ Die(p)
         \/ \E q \in Request : Refuse(p, q) \/ Acquire(p, q)
  PROVE  ServiceInv'
<1>1. [StoreStep]_store
  BY DEF StoreStep, StoreNext
<1>2. StoreInv /\ Extends(base', base) /\ (whole' => whole)
  BY <1>1, StoreGrows DEF ServiceInv
<1>3. pc'[Service] = pc[Service] /\ req'[Service] = req[Service] /\ ans'[Service] = ans[Service]
  BY <1>2, OthersLeave
<1>4. Asked'
  BY <1>2, <1>3 DEF ServiceInv, Asked, ServiceTypeOK, Packet, Extends, ipc
<1>5. Stopping'
  BY <1>2, <1>3 DEF ServiceInv, Stopping, Extends, ipc
<1> QED
  BY <1>1, <1>4, <1>5, StoreSide

(* Steps of the service: what the store does beside them is stated once.   *)
LEMMA Kept ==
  ASSUME ServiceInv, [StoreStep]_store, ServiceTypeOK', Matched', Asked', Stopping', cl' = cl,
         \A c \in Clients : wire'[c] = wire[c] \/ (wire[c] = "open"
           /\ (wire'[c] \in {"APPLIED", "AVAILABLE"} => base.item[cl[c].op] = "applied"))
  PROVE  ServiceInv'
<1>1. StoreInv' /\ Extends(base', base)
  BY StoreInvStep, StoreGrows DEF ServiceInv
<1>2. Chosen' /\ Unconfirmed'
  BY DEF ServiceInv, Chosen, Unconfirmed
<1>3. Informed'
  <2> SUFFICES ASSUME NEW c \in Clients, wire'[c] \in {"APPLIED", "AVAILABLE"}
               PROVE  base'.item[cl[c].op] = "applied"
    BY DEF Informed
  <2>1. base.item[cl[c].op] = "applied" /\ cl[c].op \in Ops
    BY DEF ServiceInv, Informed, Chosen
  <2> QED
    BY <1>1, <2>1 DEF Extends
<1>4. ConfirmedIsApplied'
  <2> SUFFICES ASSUME NEW c \in Clients, cl[c].effect = "CONFIRMED" \/ cl[c].stage = "done"
               PROVE  base'.item[cl[c].op] = "applied"
    BY DEF ConfirmedIsApplied
  <2>1. base.item[cl[c].op] = "applied" /\ cl[c].op \in Ops
    BY DEF ServiceInv, ConfirmedIsApplied, Chosen, Unconfirmed
  <2> QED
    BY <1>1, <2>1 DEF Extends
<1> QED
  BY <1>1, <1>2, <1>3, <1>4 DEF ServiceInv

LEMMA OpeningSteps ==
  ASSUME ServiceInv, [StoreStep]_store, SvcCreate \/ SvcGrant \/ SvcGranted \/ SvcRefused \/ SvcBind
  PROVE  ServiceInv'
<1>1. Extends(base', base)
  BY StoreGrows DEF ServiceInv
<1>2. UNCHANGED <<net, cl, wire, conn>> /\ svc' \in {"creating", "granting", "unbound", "down", "listening"}
  BY DEF SvcCreate, SvcGrant, SvcGranted, SvcRefused, SvcBind
<1>3. run' = run \/ run' \in base.runs
  BY DEF SvcCreate, SvcGrant, SvcGranted, SvcRefused, SvcBind
<1>4. svc' \in {"unbound", "listening"} => run' \in base'.runs
  BY <1>1 DEF SvcCreate, SvcGrant, SvcGranted, SvcRefused, SvcBind, ServiceInv, ServiceTypeOK, store, Extends
<1>5. ServiceTypeOK'
  <2>1. run' \in Runs \cup {NoRun}
    BY <1>3 DEF ServiceInv, ServiceTypeOK, StoreInv, StoreTypeOK, State
  <2> QED
    BY <1>2, <1>4, <2>1 DEF ServiceInv, ServiceTypeOK, SvcStates
<1>6. (Matched /\ Asked /\ Stopping)'
  BY <1>2 DEF ServiceInv, Matched, OfItsClient, Asked, Stopping
<1> QED
  BY <1>2, <1>5, <1>6, Kept

LEMMA TakeStep ==
  ASSUME ServiceInv, [StoreStep]_store, NEW p \in net, SvcTake(p)
  PROVE  ServiceInv'
<1>1. p \in Packet /\ OfItsClient(p)
  BY DEF ServiceInv, ServiceTypeOK, Matched
<1>2. /\ svc' = "handling" /\ conn' = p /\ net' = net \ {p} /\ UNCHANGED <<run, cl, wire, base>>
      /\ svc = "listening"
  BY DEF SvcTake, Acquire
<1>3. ServiceTypeOK'
  BY <1>1, <1>2 DEF ServiceInv, ServiceTypeOK, SvcStates
<1>4. (Matched /\ Stopping)'
  BY <1>1, <1>2 DEF ServiceInv, Matched, OfItsClient, Stopping
<1>5. Asked'
  <2>1. pc'[Service] = "locked" /\ req'[Service] = [kind |-> p.kind, run |-> run, op |-> p.op]
    BY ServiceAssumption DEF SvcTake, Acquire, ServiceInv, StoreInv, StoreTypeOK
  <2> QED
    BY <1>2, <2>1 DEF Asked
<1> QED
  BY <1>2, <1>3, <1>4, <1>5, Kept

LEMMA AnswerSteps ==
  ASSUME ServiceInv, [StoreStep]_store, SvcAnswer \/ \E p \in net : SvcDeny(p)
  PROVE  ServiceInv'
<1>1. /\ svc' = "listening" /\ net' \subseteq net /\ UNCHANGED <<run, cl, base>>
      /\ svc \in {"handling", "listening"}
  BY DEF SvcAnswer, SvcDeny, store
<1>2. /\ wire' \in [Clients -> Answers \cup {"idle", "open", "CLOSED", "PROTOCOL"}]
      /\ \A c \in Clients : wire'[c] = wire[c] \/ (wire[c] = "open"
           /\ (wire'[c] \in {"APPLIED", "AVAILABLE"} => base.item[cl[c].op] = "applied"))
  <2>1. CASE SvcAnswer
    <3>1. svc = "handling" /\ pc[Service] = "idle" /\ Deliver(conn, ans[Service])
      BY <2>1 DEF SvcAnswer
    <3>2. OfItsClient(conn) /\ conn \in Packet /\ ans[Service] \in Answers
          /\ (ans[Service] \in {"APPLIED", "AVAILABLE"} => base.item[conn.op] = "applied")
      BY <3>1, ServiceAssumption DEF ServiceInv, Matched, ServiceTypeOK, Asked, StoreInv, StoreTypeOK
    <3>3. \A c \in Clients : Waits(c, conn) => conn.op = cl[c].op /\ wire[c] = "open"
      BY <3>2 DEF Waits, OfItsClient
    <3> QED
      BY <3>1, <3>2, <3>3 DEF Deliver, ServiceInv, ServiceTypeOK
  <2>2. ASSUME NEW p \in net, SvcDeny(p)
        PROVE  /\ wire' \in [Clients -> Answers \cup {"idle", "open", "CLOSED", "PROTOCOL"}]
               /\ \A c \in Clients : wire'[c] = wire[c] \/ (wire[c] = "open" /\ wire'[c] = "PROTOCOL")
    BY <2>2 DEF SvcDeny, Deliver, Waits, ServiceInv, ServiceTypeOK
  <2> QED
    BY <2>1, <2>2
<1>3. ServiceTypeOK'
  BY <1>1, <1>2 DEF ServiceInv, ServiceTypeOK, SvcStates
<1>4. (Matched /\ Asked /\ Stopping)'
  BY <1>1 DEF ServiceInv, Matched, OfItsClient, Asked, Stopping
<1> QED
  BY <1>1, <1>2, <1>3, <1>4, Kept

LEMMA EndingSteps ==
  ASSUME ServiceInv, [StoreStep]_store,
         SvcExit \/ SvcInterrupt \/ SvcStopped \/ SvcKilled \/ RemoveStale
  PROVE  ServiceInv'
<1>1. Extends(base', base)
  BY StoreGrows DEF ServiceInv
<1>2. /\ UNCHANGED <<run, cl>> /\ net' \subseteq net
      /\ \/ svc' \in {"down", "closed"} \/ UNCHANGED <<svc, conn, store>>
      /\ svc' = "closed" => svc \in {"listening", "handling", "closed"}
  <2>1. CASE SvcExit \/ SvcStopped \/ SvcKilled
    BY <2>1 DEF SvcExit, SvcStopped, SvcKilled, Hangup
  <2>2. CASE SvcInterrupt
    BY <2>2 DEF SvcInterrupt, Hangup
  <2>3. CASE RemoveStale
    BY <2>3 DEF RemoveStale
  <2> QED
    BY <2>1, <2>2, <2>3
<1>3. /\ wire' \in [Clients -> Answers \cup {"idle", "open", "CLOSED", "PROTOCOL"}]
      /\ \A c \in Clients : wire'[c] = wire[c] \/ (wire[c] = "open" /\ wire'[c] = "CLOSED")
  BY DEF SvcExit, SvcInterrupt, SvcStopped, SvcKilled, RemoveStale, Hangup, ServiceInv, ServiceTypeOK
<1>4. ServiceTypeOK'
  BY <1>1, <1>2, <1>3 DEF ServiceInv, ServiceTypeOK, SvcStates, Extends
<1>5. (Matched /\ Asked /\ Stopping)'
  BY <1>2 DEF ServiceInv, Matched, OfItsClient, Asked, Stopping, store
<1> QED
  BY <1>2, <1>3, <1>4, <1>5, Kept

LEMMA FenceStep ==
  ASSUME ServiceInv, [StoreStep]_store, SvcFence
  PROVE  ServiceInv'
<1>1. svc = "closed" /\ svc' = "stopping" /\ UNCHANGED <<run, conn, net, cl, wire, base>>
  BY DEF SvcFence, Acquire
<1>2. (ServiceTypeOK /\ Matched /\ Asked)'
  BY <1>1 DEF ServiceInv, ServiceTypeOK, SvcStates, Matched, OfItsClient, Asked
<1>3. Stopping'
  <2>1. pc'[Service] = "locked" /\ req'[Service] = [kind |-> "revoke", run |-> run, op |-> NoOp]
    BY ServiceAssumption DEF SvcFence, Acquire, ServiceInv, StoreInv, StoreTypeOK
  <2> QED
    BY <1>1, <2>1 DEF Stopping
<1> QED
  BY <1>1, <1>2, <1>3, Kept

(* Steps of a client: what was asked of the service stays as it was, and a *)
(* new connection has a number that no packet bears yet.                   *)
LEMMA ClientSteps ==
  ASSUME ServiceInv, NEW c \in Clients, ClientNext(c)
  PROVE  ServiceInv'
<1> DEFINE answered == wire[c] \in {"APPLIED", "AVAILABLE"}
<1>t. /\ cl \in [Clients -> Client] /\ net \subseteq Packet
      /\ wire \in [Clients -> Answers \cup {"idle", "open", "CLOSED", "PROTOCOL"}]
      /\ cl[c] \in Client /\ cl[c].n \in Nat /\ cl[c].n + 1 \in Nat
  BY DEF ServiceInv, ServiceTypeOK, Client
<1>1. UNCHANGED <<store, svc, run, conn, sock>>
  BY DEF ClientNext, ClientRun, ClientAdmitted, ClientApplied, ClientDone, ClientFailed, ClientManual
<1>2. PICK f \in Client :
        /\ cl' = [cl EXCEPT ![c] = f] /\ f.stage # "idle" /\ f.op \in Ops
        /\ \/ /\ f.n = cl[c].n /\ f.op = cl[c].op /\ net' = net /\ wire' = [wire EXCEPT ![c] = "idle"]
           \/ /\ f.n = cl[c].n + 1
              /\ \/ /\ wire' = [wire EXCEPT ![c] = "open"]
                    /\ \E k \in {"admit", "dispatch", "result", "bad"} :
                         net' = net \cup {[from |-> c, n |-> f.n, kind |-> k, op |-> f.op]}
                 \/ wire' = [wire EXCEPT ![c] = "CLOSED"] /\ net' = net
        /\ (f.effect = "CONFIRMED" \/ f.stage = "done") =>
             \/ (cl[c].effect = "CONFIRMED" \/ cl[c].stage = "done" \/ answered) /\ f.op = cl[c].op
  <2> DEFINE P(f) ==
        /\ cl' = [cl EXCEPT ![c] = f] /\ f.stage # "idle" /\ f.op \in Ops
        /\ \/ /\ f.n = cl[c].n /\ f.op = cl[c].op /\ net' = net /\ wire' = [wire EXCEPT ![c] = "idle"]
           \/ /\ f.n = cl[c].n + 1
              /\ \/ /\ wire' = [wire EXCEPT ![c] = "open"]
                    /\ \E k \in {"admit", "dispatch", "result", "bad"} :
                         net' = net \cup {[from |-> c, n |-> f.n, kind |-> k, op |-> f.op]}
                 \/ wire' = [wire EXCEPT ![c] = "CLOSED"] /\ net' = net
        /\ (f.effect = "CONFIRMED" \/ f.stage = "done") =>
             \/ (cl[c].effect = "CONFIRMED" \/ cl[c].stage = "done" \/ answered) /\ f.op = cl[c].op
  <2>c. cl[c].stage # "idle" => cl[c].op \in Ops
    BY DEF ServiceInv, Chosen
  <2>1. ASSUME NEW o \in Ops, ClientRun(c, o) PROVE \E f \in Client : P(f)
    <3> DEFINE f == [cl[c] EXCEPT !.n = @ + 1, !.op = o, !.stage = "admit"]
    <3>1. f \in Client /\ f.n = cl[c].n + 1 /\ f.op = o /\ f.stage = "admit" /\ f.effect = "UNKNOWN"
      BY <1>t, <2>1 DEF Client, Stages, ClientRun, ServiceInv, Unconfirmed
    <3>2. cl' = [cl EXCEPT ![c] = f]
      BY <1>t, <2>1 DEF ClientRun, Move, Next1, Client
    <3>3. P(f)
      BY <2>1, <3>1, <3>2 DEF ClientRun, Send
    <3> QED
      BY <3>1, <3>3
  <2>2. CASE ClientAdmitted(c)
    <3> DEFINE f == [cl[c] EXCEPT !.n = @ + 1, !.queued = TRUE, !.stage = "dispatch"]
    <3>1. f \in Client /\ f.n = cl[c].n + 1 /\ f.op = cl[c].op /\ f.stage = "dispatch" /\ f.effect = cl[c].effect
      BY <1>t DEF Client, Stages
    <3>2. cl' = [cl EXCEPT ![c] = f]
      BY <1>t, <2>2 DEF ClientAdmitted, Move, Next1, Client
    <3>3. P(f)
      BY <2>c, <2>2, <3>1, <3>2 DEF ClientAdmitted, Send
    <3> QED
      BY <3>1, <3>3
  <2>3. CASE ClientApplied(c)
    <3> DEFINE f == [cl[c] EXCEPT !.n = @ + 1, !.effect = "CONFIRMED", !.stage = "result"]
    <3>1. f \in Client /\ f.n = cl[c].n + 1 /\ f.op = cl[c].op /\ f.stage = "result"
      BY <1>t DEF Client, Stages
    <3>2. cl' = [cl EXCEPT ![c] = f]
      BY <1>t, <2>3 DEF ClientApplied, Move, Next1, Client
    <3>3. P(f)
      BY <2>c, <2>3, <3>1, <3>2 DEF ClientApplied, Send
    <3> QED
      BY <3>1, <3>3
  <2>4. CASE ClientDone(c)
    <3> DEFINE f == [cl[c] EXCEPT !.stage = "done"]
    <3>1. f \in Client /\ f.n = cl[c].n /\ f.op = cl[c].op /\ f.stage = "done"
      BY <1>t DEF Client, Stages
    <3>2. cl' = [cl EXCEPT ![c] = f]
      BY <2>4 DEF ClientDone, Move
    <3>3. P(f)
      BY <2>c, <2>4, <3>1, <3>2 DEF ClientDone
    <3> QED
      BY <3>1, <3>3
  <2>5. CASE ClientFailed(c)
    <3> DEFINE f == [cl[c] EXCEPT !.stage = "failed"]
    <3>1. f \in Client /\ f.n = cl[c].n /\ f.op = cl[c].op /\ f.stage = "failed" /\ f.effect = cl[c].effect
      BY <1>t DEF Client, Stages
    <3>2. cl' = [cl EXCEPT ![c] = f] /\ cl[c].stage # "idle"
      BY <2>5 DEF ClientFailed, Move, Expected
    <3>3. P(f)
      BY <2>c, <2>5, <3>1, <3>2 DEF ClientFailed
    <3> QED
      BY <3>1, <3>3
  <2>6. CASE ClientManual(c)
    <3> DEFINE f == [cl[c] EXCEPT !.n = @ + 1, !.stage = "manual"]
    <3>1. f \in Client /\ f.n = cl[c].n + 1 /\ f.op = cl[c].op /\ f.stage = "manual" /\ f.effect = cl[c].effect
      BY <1>t DEF Client, Stages
    <3>2. cl' = [cl EXCEPT ![c] = f]
      BY <1>t, <2>6 DEF ClientManual, Move, Next1, Client
    <3>3. P(f)
      BY <2>c, <2>6, <3>1, <3>2 DEF ClientManual, Send
    <3> QED
      BY <3>1, <3>3
  <2> QED
    BY <2>1, <2>2, <2>3, <2>4, <2>5, <2>6 DEF ClientNext
<1>3. StoreInv' /\ base' = base
  BY <1>1, StoreInvStep DEF ServiceInv, store
<1>4. ServiceTypeOK'
  <2>1. net' \subseteq Packet
    BY <1>t, <1>2 DEF Packet, Client
  <2>2. cl' \in [Clients -> Client] /\ wire' \in [Clients -> Answers \cup {"idle", "open", "CLOSED", "PROTOCOL"}]
    BY <1>t, <1>2
  <2> QED
    BY <1>1, <1>3, <2>1, <2>2 DEF ServiceInv, ServiceTypeOK
<1>5. (Chosen /\ Unconfirmed)'
  BY <1>t, <1>2 DEF ServiceInv, Chosen, Unconfirmed
<1>6. Matched'
  <2>1. ASSUME NEW p \in Packet, OfItsClient(p) PROVE OfItsClient(p)'
    <3>1. p.from \in Clients /\ p.n \in Nat
      BY DEF Packet
    <3> QED
      BY <1>t, <1>2, <2>1, <3>1 DEF OfItsClient
  <2>2. ASSUME NEW k, net' = net \cup {[from |-> c, n |-> f.n, kind |-> k, op |-> f.op]}
        PROVE  \A p \in net' : OfItsClient(p)'
    <3>1. OfItsClient([from |-> c, n |-> f.n, kind |-> k, op |-> f.op])'
      BY <1>t, <1>2 DEF OfItsClient, Client
    <3> QED
      BY <1>t, <2>1, <2>2, <3>1 DEF ServiceInv, Matched
  <2>3. net' = net => \A p \in net' : OfItsClient(p)'
    BY <1>t, <2>1 DEF ServiceInv, Matched
  <2>4. \A p \in net' : OfItsClient(p)'
    BY <1>2, <2>2, <2>3
  <2>5. svc' = "handling" => OfItsClient(conn)'
    BY <1>1, <2>1 DEF ServiceInv, Matched, ServiceTypeOK
  <2> QED
    BY <2>4, <2>5 DEF Matched
<1>7. (Asked /\ Stopping)'
  BY <1>1 DEF ServiceInv, Asked, Stopping, store
<1>8. (Informed /\ ConfirmedIsApplied)'
  BY <1>t, <1>2, <1>3 DEF ServiceInv, Informed, ConfirmedIsApplied
<1> QED
  BY <1>3, <1>4, <1>5, <1>6, <1>7, <1>8 DEF ServiceInv

(* The invariant of the service and of all who share its store.            *)
LEMMA ServiceInvStep == ServiceInv /\ [ServiceNext]_all => ServiceInv'
<1> SUFFICES ASSUME ServiceInv, [ServiceNext]_all PROVE ServiceInv'
  OBVIOUS
<1>s. [StoreStep]_store
  BY StoreMoves DEF ServiceInv
<1>1. CASE SvcCreate \/ SvcGrant
  BY <1>s, <1>1, OpeningSteps
<1>2. CASE SvcWork
  <2>1. CASE SvcGranted \/ SvcRefused \/ SvcBind \/ SvcGrant
    BY <1>s, <2>1, OpeningSteps
  <2>2. CASE SvcAnswer
    BY <1>s, <2>2, AnswerSteps
  <2>3. CASE SvcExit \/ SvcStopped
    BY <1>s, <2>3, EndingSteps
  <2>4. CASE SvcFence
    BY <1>s, <2>4, FenceStep
  <2>5. CASE Work(Service) /\ UNCHANGED ipc
    BY <2>5, QuietWork
  <2> QED
    BY <1>2, <2>1, <2>2, <2>3, <2>4, <2>5 DEF SvcWork
<1>3. CASE SvcInterrupt \/ SvcKilled \/ RemoveStale
  BY <1>s, <1>3, EndingSteps
<1>4. ASSUME NEW p \in net, SvcDeny(p) \/ SvcTake(p) PROVE ServiceInv'
  BY <1>s, <1>4, AnswerSteps, TakeStep
<1>5. ASSUME NEW c \in Clients, ClientNext(c) PROVE ServiceInv'
  BY <1>5, ClientSteps
<1>6. ASSUME NEW p \in Procs, Mishap(p), UNCHANGED ipc PROVE ServiceInv'
  BY <1>6, QuietWork, QuietOthers
<1>7. ASSUME NEW p \in Controllers,
             ControllerAsks(p) \/ ((Work(p) \/ Die(p)) /\ UNCHANGED ipc)
      PROVE  ServiceInv'
  BY <1>7, QuietOthers DEF Controllers, ControllerAsks
<1>8. CASE UNCHANGED all
  <2>1. UNCHANGED ipc /\ UNCHANGED store
    BY <1>8 DEF all
  <2>2. (Asked /\ Stopping)'
    BY <2>1 DEF ServiceInv, Asked, Stopping, ipc, store
  <2> QED
    BY <1>s, <2>1, <2>2, StoreSide
<1> QED
  BY <1>1, <1>2, <1>3, <1>4, <1>5, <1>6, <1>7, <1>8 DEF ServiceNext

-----------------------------------------------------------------------------
(* Results.  BrokerInvariance: whatever the service, its clients, the      *)
(* other processes and their deaths do to the store, ServiceInv holds.     *)
THEOREM BrokerInvariance == ServiceSpec => []ServiceInv
<1>1. ServiceInit => ServiceInv
  BY ServiceInvInit
<1>2. ServiceInv /\ [ServiceNext]_all => ServiceInv'
  BY ServiceInvStep
<1> QED
  BY <1>1, <1>2, PTL DEF ServiceSpec

(* Every variable of the store keeps to its type, the lock is held by      *)
(* exactly who decides or writes, and the record that the witness does not *)
(* cover is there exactly while its writer seals it.                       *)
THEOREM StoreType == ServiceSpec => []StoreTypeOK
<1>1. ServiceInv => StoreTypeOK
  BY DEF ServiceInv, StoreInv
<1> QED
  BY <1>1, BrokerInvariance, PTL

(* The decisions of admit, dispatch, revoke and the grants append only     *)
(* what _replay_event accepts when the journal is read again.              *)
THEOREM AppendsReplay == ServiceSpec => []AppendIsReplayable
<1>1. ServiceInv => AppendIsReplayable
  BY DEF ServiceInv, StoreInv
<1> QED
  BY <1>1, BrokerInvariance, PTL

(* No receipt that anybody was given is ever contradicted by the store.    *)
THEOREM DurableReceipts == ServiceSpec => []ReceiptsAreDurable
<1>1. ServiceInv => ReceiptsAreDurable
  BY DEF ServiceInv, StoreInv
<1> QED
  BY <1>1, BrokerInvariance, PTL

(* A client that reports a confirmed effect, or success, has its operation *)
(* applied in the store.                                                   *)
THEOREM ConfirmedApplied == ServiceSpec => []ConfirmedIsApplied
<1>1. ServiceInv => ConfirmedIsApplied
  BY DEF ServiceInv
<1> QED
  BY <1>1, BrokerInvariance, PTL

(* A service that ends by its own fence leaves a fenced run, or a store    *)
(* that cannot be read.                                                    *)
THEOREM FencedWhenStopped == ServiceSpec => StopFences
<1>1. ServiceInv /\ [ServiceNext]_all =>
        [svc = "stopping" /\ svc' = "down" /\ crashes' = crashes
           => run \in base.revoked \/ ~whole]_all
  <2> SUFFICES ASSUME ServiceInv, ServiceNext, svc = "stopping", svc' = "down", crashes' = crashes
               PROVE  run \in base.revoked \/ ~whole
    OBVIOUS
  <2>1. SvcStopped
    <3>1. ~SvcKilled
      BY DEF SvcKilled, Die, ServiceInv, StoreInv, StoreTypeOK
    <3> QED
      BY <3>1
      DEF ServiceNext, SvcWork, SvcCreate, SvcGrant, SvcGranted, SvcRefused, SvcBind, SvcAnswer, SvcExit,
          SvcFence, SvcInterrupt, RemoveStale, SvcDeny, SvcTake, ClientNext, ClientRun, ClientAdmitted,
          ClientApplied, ClientDone, ClientFailed, ClientManual, ControllerAsks, ipc
  <2> QED
    BY <2>1 DEF SvcStopped, ServiceInv, Stopping
<1> QED
  BY <1>1, BrokerInvariance, PTL DEF ServiceSpec, StopFences

(* The store, under everything the service and the other processes do to   *)
(* it, implements the ledger: each operation is admitted at most once and  *)
(* settled at most once, none is applied for a fenced run, nothing on      *)
(* record is taken back, and damage closes it as it was.                   *)
THEOREM LedgerImplemented == ServiceSpec => ImplementsLedger
<1>1. ServiceInit => Ledger!LedgerInit
  BY InitRefines DEF ServiceInit
<1>2. ServiceInv /\ [ServiceNext]_all => [Ledger!LedgerNext]_Ledger!ledger
  BY StoreMoves, StepRefines DEF ServiceInv
<1> QED
  BY <1>1, <1>2, BrokerInvariance, PTL DEF ServiceSpec, ImplementsLedger, Ledger!LedgerSpec
=============================================================================
