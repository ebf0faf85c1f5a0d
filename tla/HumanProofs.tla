---------------------------- MODULE HumanProofs ----------------------------
(***************************************************************************)
(* Proofs about the experiments in which a human stops a machine:          *)
(* HumanHasLastWord and OneMachine, for any allocations, principals,       *)
(* budgets and serial numbers; VerdictIsObserved, for any deadlines, cases *)
(* and number of failures; and StopHolds of the durable stop latch, for    *)
(* any set of checkers and number of writes that fail.                     *)
(***************************************************************************)
EXTENDS HumanStop, WindowsJob, NativeStop, FiniteSetTheorems, SequenceTheorems, TLAPS

-----------------------------------------------------------------------------
(* The override controller of runs.                                        *)
Rows == [generation : Nat, epoch : Nat, latched : BOOLEAN, approved : BOOLEAN, control : BOOLEAN,
         sequence : [Principals -> Nat]]
Executions == [generation : Nat, running : BOOLEAN, remote : BOOLEAN, launches : Nat, revision : Nat]
Observations == [revision : Nat, age : Nat, state : {"none", "RUNNING", "VERIFIED_STOPPED"}]
Commands == [principal : Principals \cup {"human"}, op : {"approve", "start", "stop", "reset"}, alloc : Allocations,
             generation : Nat, epoch : Nat, sequence : Nat, stops : Nat]

OverTypeOK ==
  /\ disk \in [Allocations -> Rows] /\ rows \in [Allocations -> Rows]
  /\ pending \in BOOLEAN /\ up \in BOOLEAN /\ storageOk \in BOOLEAN
  /\ execution \in [Allocations -> Executions] /\ observed \in [Allocations -> Observations]
  /\ stops \in [Allocations -> Nat] /\ IsFiniteSet(sent) /\ sent \subseteq Commands

(* A command or a row is of the moment of another, or of one before it.    *)
SameFence(c, row) == c.generation = row.generation /\ c.epoch = row.epoch
NotAfter(c, row) == c.generation < row.generation \/ (c.generation = row.generation /\ c.epoch <= row.epoch)

(* A controller that may commit has the rows of the disk; any other has    *)
(* rows of an earlier moment, or, beside a half-written file, new ones.    *)
StorageOK ==
  /\ Live => ~pending /\ rows = disk
  /\ \A a \in Allocations : NotAfter(rows[a], disk[a]) /\ disk[a].generation >= 1

(* Nothing was stopped, reset or replaced since a command that is of the   *)
(* disk's moment was given; and what is approved was approved in it.       *)
FencesOK ==
  \A m \in sent : NotAfter(m, disk[m.alloc]) /\ (SameFence(m, disk[m.alloc]) => m.stops = stops[m.alloc])
ApprovalOf(a, row) ==
  \E m \in sent : m.op = "approve" /\ m.principal = "human" /\ m.alloc = a /\ SameFence(m, row)
ApprovedOK == \A a \in Allocations : disk[a].approved => ApprovalOf(a, disk[a])

ObservedOK ==
  \A a \in Allocations :
    observed[a].state = "VERIFIED_STOPPED" => ~execution[a].running /\ ~execution[a].remote

OverIInv == OverTypeOK /\ StorageOK /\ FencesOK /\ ApprovedOK /\ ObservedOK

LEMMA FreshFacts ==
  ASSUME NEW g \in Nat
  PROVE  /\ Fresh(g) \in Rows /\ Fresh(g).generation = g /\ Fresh(g).epoch = 0 /\ ~Fresh(g).approved
         /\ ~Fresh(g).latched
         /\ Execution(g) \in Executions /\ ~Execution(g).running /\ ~Execution(g).remote
         /\ NoObservation \in Observations /\ NoObservation.state = "none"
BY DEF Fresh, Rows, Execution, Executions, NoObservation, Observations

LEMMA OverStarts == ASSUME OverInit PROVE OverIInv
<1>0. 1 \in Nat
  OBVIOUS
<1>1. /\ disk = [a \in Allocations |-> Fresh(1)] /\ rows = disk /\ ~pending /\ up /\ storageOk /\ sent = {}
      /\ pending \in BOOLEAN /\ up \in BOOLEAN /\ storageOk \in BOOLEAN
      /\ observed = [a \in Allocations |-> NoObservation] /\ execution = [a \in Allocations |-> Execution(1)]
      /\ stops = [a \in Allocations |-> 0]
  BY DEF OverInit
<1>2. OverTypeOK
  BY <1>0, <1>1, FreshFacts, FS_EmptySet DEF OverTypeOK
<1>3. StorageOK
  BY <1>0, <1>1, FreshFacts DEF StorageOK, NotAfter
<1>4. FencesOK /\ ApprovedOK /\ ObservedOK
  BY <1>0, <1>1, FreshFacts DEF FencesOK, ApprovedOK, ObservedOK
<1> QED BY <1>2, <1>3, <1>4 DEF OverIInv

-----------------------------------------------------------------------------
(* A write of the file by a controller that has its rows: fences only go   *)
(* forward, and what is approved was approved at the fence it is at.       *)
Forward(new) ==
  /\ new \in [Allocations -> Rows]
  /\ \A a \in Allocations :
       /\ NotAfter(disk[a], new[a])
       /\ new[a].approved => SameFence(new[a], disk[a]) /\ (disk[a].approved \/ ApprovalOf(a, disk[a]))

LEMMA ForwardKeeps ==
  ASSUME OverIInv, NEW new, Forward(new), disk' = new, UNCHANGED sent,
         \A a \in Allocations : SameFence(new[a], disk[a]) => stops'[a] = stops[a]
  PROVE  /\ FencesOK' /\ ApprovedOK'
         /\ \A a \in Allocations : disk'[a].generation >= 1 /\ NotAfter(rows[a], disk'[a])
<1> USE DEF OverIInv
<1>1. \A a \in Allocations : /\ disk[a].generation \in Nat /\ disk[a].epoch \in Nat
                             /\ new[a].generation \in Nat /\ new[a].epoch \in Nat
                             /\ rows[a].generation \in Nat /\ rows[a].epoch \in Nat
  BY DEF OverTypeOK, Rows, Forward
<1>2. ASSUME NEW m \in sent
      PROVE  NotAfter(m, new[m.alloc]) /\ (SameFence(m, new[m.alloc]) => m.stops = stops'[m.alloc])
  <2>1. m.alloc \in Allocations /\ m.generation \in Nat /\ m.epoch \in Nat
    BY DEF OverTypeOK, Commands
  <2>2. NotAfter(m, disk[m.alloc]) /\ NotAfter(disk[m.alloc], new[m.alloc])
    BY <2>1 DEF FencesOK, Forward
  <2>3. NotAfter(m, new[m.alloc])
    BY <1>1, <2>1, <2>2 DEF NotAfter
  <2>4. SameFence(m, new[m.alloc]) => SameFence(m, disk[m.alloc]) /\ SameFence(new[m.alloc], disk[m.alloc])
    BY <1>1, <2>1, <2>2 DEF NotAfter, SameFence
  <2> QED BY <2>1, <2>3, <2>4 DEF FencesOK
<1>3. FencesOK'
  BY <1>2 DEF FencesOK
<1>4. ASSUME NEW a \in Allocations, new[a].approved
      PROVE  ApprovalOf(a, new[a])
  <2>1. SameFence(new[a], disk[a]) /\ ApprovalOf(a, disk[a])
    BY <1>4 DEF Forward, ApprovedOK
  <2> QED BY <2>1 DEF ApprovalOf, SameFence
<1>5. ApprovedOK'
  BY <1>4 DEF ApprovedOK, ApprovalOf
<1>6. ASSUME NEW a \in Allocations PROVE new[a].generation >= 1 /\ NotAfter(rows[a], new[a])
  BY <1>1 DEF Forward, StorageOK, NotAfter
<1> QED BY <1>3, <1>5, <1>6

(* A commit that did not succeed: the file has the new rows or the old     *)
(* ones, and no controller takes them for its own.                         *)
CommitFails ==
  /\ storageOk' = FALSE /\ observed' = [a \in Allocations |-> NoObservation]
  /\ pending' \in {TRUE, pending} /\ UNCHANGED <<disk, up, rows, execution, stops>>
CommitDies(new) ==
  /\ up' = FALSE
  /\ (disk' = new /\ pending' = pending) \/ (pending' = TRUE /\ disk' = disk)
  /\ stops' = [a \in Allocations |->
                 stops[a] + (IF disk'[a].epoch # disk[a].epoch \/ disk'[a].generation # disk[a].generation
                             THEN 1 ELSE 0)]
  /\ UNCHANGED <<storageOk, rows, observed, execution>>

LEMMA CommitFailsKeeps == ASSUME OverIInv, CommitFails, UNCHANGED sent PROVE OverIInv'
<1> USE DEF OverIInv, CommitFails
<1>0. NoObservation \in Observations /\ NoObservation.state = "none"
  BY FreshFacts
<1>1. pending' \in BOOLEAN /\ storageOk' \in BOOLEAN
  BY DEF OverTypeOK
<1>2. OverTypeOK'
  BY <1>0, <1>1 DEF OverTypeOK
<1>3. StorageOK'
  BY DEF StorageOK, Live
<1>4. FencesOK' /\ ApprovedOK'
  BY DEF FencesOK, ApprovedOK, ApprovalOf
<1>5. ObservedOK'
  BY <1>0 DEF ObservedOK
<1> QED BY <1>2, <1>3, <1>4, <1>5

LEMMA SameForward == ASSUME OverIInv PROVE Forward(disk)
<1>1. \A a \in Allocations : disk[a].generation \in Nat /\ disk[a].epoch \in Nat
  BY DEF OverIInv, OverTypeOK, Rows
<1> QED BY <1>1 DEF OverIInv, OverTypeOK, Forward, NotAfter, SameFence

LEMMA CommitDiesKeeps ==
  ASSUME OverIInv, NEW new, Forward(new), CommitDies(new), UNCHANGED sent PROVE OverIInv'
<1> USE DEF OverIInv
<1>1. PICK d : disk' = d /\ Forward(d)
  BY SameForward DEF CommitDies
<1>2. pending' \in BOOLEAN /\ up' \in BOOLEAN /\ ~up'
  BY DEF CommitDies, OverTypeOK
<1>3. stops' \in [Allocations -> Nat]
  BY DEF CommitDies, OverTypeOK
<1>4. ASSUME NEW a \in Allocations, SameFence(d[a], disk[a]) PROVE stops'[a] = stops[a]
  BY <1>1, <1>4 DEF CommitDies, SameFence, OverTypeOK
<1>5. /\ FencesOK' /\ ApprovedOK'
      /\ \A a \in Allocations : disk'[a].generation >= 1 /\ NotAfter(rows[a], disk'[a])
  BY <1>1, <1>4, ForwardKeeps
<1>6. OverTypeOK'
  BY <1>1, <1>2, <1>3 DEF OverTypeOK, CommitDies, Forward
<1>7. StorageOK'
  BY <1>2, <1>5 DEF StorageOK, Live, CommitDies
<1>8. ObservedOK'
  BY DEF ObservedOK, CommitDies
<1> QED BY <1>5, <1>6, <1>7, <1>8

LEMMA CommitDoneKeeps ==
  ASSUME OverIInv, Live, NEW new, Forward(new), disk' = new, rows' = new, UNCHANGED <<pending, up, storageOk, sent>>,
         execution' \in [Allocations -> Executions], observed' \in [Allocations -> Observations],
         stops' \in [Allocations -> Nat], ObservedOK',
         \A a \in Allocations : SameFence(new[a], disk[a]) => stops'[a] = stops[a]
  PROVE  OverIInv'
<1> USE DEF OverIInv
<1>1. /\ FencesOK' /\ ApprovedOK'
      /\ \A a \in Allocations : disk'[a].generation >= 1 /\ NotAfter(rows[a], disk'[a])
  BY ForwardKeeps
<1>2. OverTypeOK'
  BY DEF OverTypeOK, Forward
<1>3. ASSUME NEW a \in Allocations PROVE NotAfter(new[a], new[a])
  BY DEF Forward, Rows, NotAfter
<1>4. StorageOK'
  BY <1>1, <1>3 DEF StorageOK, Live
<1> QED BY <1>1, <1>2, <1>4

LEMMA CommitWays ==
  ASSUME OverIInv, NEW new, NEW ACTION then, Commit(new, then)
  PROVE  \/ /\ ~pending /\ disk' = new /\ rows' = new /\ then
            /\ UNCHANGED <<pending, up, storageOk, storeFaults>>
         \/ CommitFails
         \/ CommitDies(new)
BY DEF Commit, CommitFails, CommitDies

-----------------------------------------------------------------------------
(* What becomes of a command's row.                                        *)
LatchedRow(r, e) == [r EXCEPT !.epoch = e, !.latched = TRUE, !.approved = FALSE]
ResetRow(r, e) == [r EXCEPT !.epoch = e, !.latched = FALSE, !.approved = FALSE]

LEMMA RowFacts ==
  ASSUME NEW r \in Rows, NEW e \in Nat
  PROVE  /\ LatchedRow(r, e) \in Rows /\ LatchedRow(r, e).generation = r.generation
         /\ LatchedRow(r, e).epoch = e /\ LatchedRow(r, e).latched /\ ~LatchedRow(r, e).approved
         /\ ResetRow(r, e) \in Rows /\ ResetRow(r, e).generation = r.generation
         /\ ResetRow(r, e).epoch = e /\ ~ResetRow(r, e).latched /\ ~ResetRow(r, e).approved
BY DEF Rows, LatchedRow, ResetRow

OutcomeOK(m, o) ==
  /\ o.row \in Rows /\ o.row.generation = disk[m.alloc].generation
  /\ o.row.epoch \in {disk[m.alloc].epoch, disk[m.alloc].epoch + 1}
  /\ o.row.approved => /\ o.row.epoch = disk[m.alloc].epoch
                       /\ disk[m.alloc].approved \/ (m.op = "approve" /\ m.principal = "human")
  /\ disk[m.alloc].latched /\ ~o.row.latched => Status(m.alloc) = "VERIFIED_STOPPED"
  /\ m.op = "start" /\ o.ok => ~disk[m.alloc].latched /\ disk[m.alloc].approved /\ ~execution[m.alloc].remote

LEMMA OutcomeFacts ==
  ASSUME OverIInv, Live, NEW m \in sent, Fenced(m),
         m.principal = "human" \/ (m.principal = "scheduler" /\ m.op = "start")
  PROVE  OutcomeOK(m, Outcome(m))
<1> DEFINE r == [rows[m.alloc] EXCEPT !.sequence[m.principal] = m.sequence]
<1>1. /\ m.op \in {"approve", "start", "stop", "reset"} /\ m.sequence \in Nat
      /\ m.alloc \in Allocations /\ rows = disk /\ rows[m.alloc] \in Rows
  BY DEF OverIInv, OverTypeOK, StorageOK, Commands
<1>2. /\ r \in Rows /\ r.generation = disk[m.alloc].generation /\ r.epoch = disk[m.alloc].epoch
      /\ r.latched = disk[m.alloc].latched /\ r.approved = disk[m.alloc].approved
      /\ r.control = disk[m.alloc].control
  BY <1>1 DEF Rows
<1>3. Outcome(m) = CASE m.op = "stop"    -> Stopped(r)
                     [] m.op = "reset"   -> Reset(m.alloc, r)
                     [] m.op = "approve" -> Approved(r)
                     [] m.op = "start"   -> Started(m.alloc, r)
  BY DEF Outcome
<1> HIDE DEF r
<1>4. r.epoch \in Nat
  BY <1>2 DEF Rows
<1>5. CASE m.op = "stop"
  <2>1. Outcome(m) = Stopped(r)
    BY <1>3, <1>5
  <2>2. PICK e \in {r.epoch, r.epoch + 1} : Outcome(m) = Same(LatchedRow(r, e))
    BY <1>2, <2>1 DEF Stopped, LatchedRow, Rows
  <2>3. r \in Rows /\ e \in Nat
    BY <1>2, <1>4
  <2>4. Outcome(m).row = LatchedRow(r, e)
    BY <2>2 DEF Same
  <2> QED BY <1>2, <1>5, <2>2, <2>3, <2>4, RowFacts DEF OutcomeOK
<1>6. CASE m.op = "reset"
  <2>1. Outcome(m) = Reset(m.alloc, r)
    BY <1>3, <1>6
  <2>2. CASE Outcome(m) = Denied(r)
    BY <1>2, <1>6, <2>2 DEF Denied, OutcomeOK
  <2>3. CASE /\ Status(m.alloc) = "VERIFIED_STOPPED"
             /\ Outcome(m) = Same([r EXCEPT !.epoch = @ + 1, !.latched = FALSE, !.approved = FALSE])
    <3>1. Outcome(m).row = ResetRow(r, r.epoch + 1)
      BY <2>3 DEF Same, ResetRow
    <3>2. PICK e \in Nat : e = r.epoch + 1
      BY <1>4
    <3>3. /\ ResetRow(r, e) \in Rows /\ ResetRow(r, e).generation = r.generation
          /\ ResetRow(r, e).epoch = e /\ ~ResetRow(r, e).approved
      BY <1>2, RowFacts
    <3>4. /\ Outcome(m).row \in Rows /\ Outcome(m).row.generation = r.generation
          /\ Outcome(m).row.epoch = r.epoch + 1 /\ ~Outcome(m).row.approved
      BY <3>1, <3>2, <3>3
    <3> QED BY <1>2, <1>6, <2>3, <3>4 DEF OutcomeOK
  <2> QED BY <2>1, <2>2, <2>3 DEF Reset
<1>7. CASE m.op = "approve"
  <2>1. Outcome(m) = Approved(r) /\ m.principal = "human"
    BY <1>3, <1>7
  <2>2. [r EXCEPT !.approved = TRUE] \in Rows
    BY <1>2 DEF Rows
  <2>3. LET s == [r EXCEPT !.approved = TRUE] IN
          s.generation = r.generation /\ s.epoch = r.epoch /\ s.latched = r.latched
    BY <1>2 DEF Rows
  <2> QED BY <1>2, <1>7, <2>1, <2>2, <2>3 DEF Approved, Same, Denied, OutcomeOK
<1>8. CASE m.op = "start"
  BY <1>1, <1>2, <1>3, <1>8 DEF Started, Same, Denied, OutcomeOK
<1> QED BY <1>1, <1>5, <1>6, <1>7, <1>8

LEMMA ForgetFacts ==
  ASSUME NEW obs \in [Allocations -> Observations], NEW a \in Allocations
  PROVE  /\ Forget(obs, a) \in [Allocations -> Observations] /\ Forget(obs, a)[a].state = "none"
         /\ \A b \in Allocations \ {a} : Forget(obs, a)[b] = obs[b]
<1>1. NoObservation \in Observations /\ NoObservation.state = "none"
  BY FreshFacts
<1> QED BY <1>1 DEF Forget

(* The steps that write the file.                                          *)
LEMMA CommandKeeps == ASSUME OverIInv, NEW m \in sent, Command(m) PROVE OverIInv'
<1> DEFINE a == m.alloc
           o == Outcome(m)
           new == [rows EXCEPT ![a] = o.row]
           starts == m.op = "start" /\ o.ok
           then == /\ observed' = IF m.op = "approve" THEN observed ELSE Forget(observed, a)
                   /\ execution' = IF starts
                                   THEN [execution EXCEPT ![a].running = TRUE, ![a].remote = TRUE,
                                                          ![a].launches = @ + 1, ![a].revision = @ + 1]
                                   ELSE execution
                   /\ stops' = IF Bumps(m, o) THEN [stops EXCEPT ![a] = @ + 1] ELSE stops
<1>1. /\ Live /\ OutcomeOK(m, o) /\ Commit(new, then) /\ UNCHANGED sent /\ Fenced(m)
      /\ m.principal = "human" \/ (m.principal = "scheduler" /\ m.op = "start")
  BY OutcomeFacts DEF Command
<1>2. a \in Allocations /\ rows = disk /\ m.op \in {"approve", "start", "stop", "reset"}
  BY <1>1 DEF OverIInv, OverTypeOK, StorageOK, Commands
<1>3. disk \in [Allocations -> Rows] /\ \A b \in Allocations : disk[b].epoch \in Nat /\ disk[b].generation \in Nat
  BY DEF OverIInv, OverTypeOK, Rows
<1>4. m.op = "approve" /\ m.principal = "human" => ApprovalOf(a, disk[a])
  BY <1>1, <1>2 DEF ApprovalOf, SameFence, Fenced
<1>5. /\ o.row \in Rows /\ o.row.generation = disk[a].generation
      /\ o.row.epoch \in {disk[a].epoch, disk[a].epoch + 1}
      /\ o.row.approved => o.row.epoch = disk[a].epoch /\ (disk[a].approved \/ ApprovalOf(a, disk[a]))
  BY <1>1, <1>4 DEF OutcomeOK
<1>6. new \in [Allocations -> Rows] /\ new[a] = o.row /\ \A b \in Allocations \ {a} : new[b] = disk[b]
  BY <1>2, <1>3, <1>5
<1> HIDE DEF a, o, new
<1>7. ASSUME NEW b \in Allocations
      PROVE  /\ NotAfter(disk[b], new[b])
             /\ new[b].approved => SameFence(new[b], disk[b]) /\ (disk[b].approved \/ ApprovalOf(b, disk[b]))
  <2>1. CASE b = a
    BY <1>3, <1>5, <1>6, <2>1 DEF NotAfter, SameFence
  <2>2. CASE b # a
    BY <1>3, <1>6, <2>2 DEF NotAfter, SameFence
  <2> QED BY <2>1, <2>2
<1>8. Forward(new)
  BY <1>6, <1>7 DEF Forward
<1>9. ASSUME ~pending, disk' = new, rows' = new, then, UNCHANGED <<pending, up, storageOk, storeFaults>>
      PROVE  OverIInv'
  <2>1. /\ observed \in [Allocations -> Observations] /\ execution \in [Allocations -> Executions]
        /\ stops \in [Allocations -> Nat]
    BY DEF OverIInv, OverTypeOK
  <2>2. execution' \in [Allocations -> Executions] /\ stops' \in [Allocations -> Nat]
    BY <1>2, <1>9, <2>1 DEF Executions
  <2>3. observed' \in [Allocations -> Observations]
    BY <1>2, <1>9, <2>1, ForgetFacts
  <2>4. ObservedOK'
    <3> SUFFICES ASSUME NEW b \in Allocations, observed'[b].state = "VERIFIED_STOPPED"
                 PROVE  ~execution'[b].running /\ ~execution'[b].remote
      BY DEF ObservedOK
    <3>1. CASE m.op = "approve"
      <4>1. observed' = observed /\ execution' = execution
        BY <1>9, <3>1
      <4> QED BY <4>1 DEF OverIInv, ObservedOK
    <3>2. CASE m.op # "approve"
      <4>1. b # a /\ observed[b].state = "VERIFIED_STOPPED"
        BY <1>2, <1>9, <2>1, <3>2, ForgetFacts
      <4>2. execution'[b] = execution[b]
        BY <1>9, <2>1, <4>1
      <4> QED BY <4>1, <4>2 DEF OverIInv, ObservedOK
    <3> QED BY <3>1, <3>2
  <2>5. ASSUME NEW b \in Allocations, SameFence(new[b], disk[b]) PROVE stops'[b] = stops[b]
    <3>1. b = a => ~Bumps(m, o)
      BY <1>2, <1>6, <2>5 DEF SameFence, Bumps, a
    <3> QED BY <1>2, <1>9, <2>1, <3>1
  <2> QED BY <1>1, <1>8, <1>9, <2>2, <2>3, <2>4, <2>5, CommitDoneKeeps
<1> QED BY <1>1, <1>8, <1>9, CommitWays, CommitFailsKeeps, CommitDiesKeeps

LEMMA SetControlKeeps ==
  ASSUME OverIInv, NEW a \in Allocations, NEW available \in BOOLEAN, SetControl(a, available) PROVE OverIInv'
<1> DEFINE new == [rows EXCEPT ![a].control = available, ![a].approved = FALSE]
           then == observed' = Forget(observed, a) /\ UNCHANGED <<execution, stops>>
<1>1. Live /\ Commit(new, then) /\ UNCHANGED sent
  BY DEF SetControl
<1>2. rows = disk /\ disk \in [Allocations -> Rows]
  BY <1>1 DEF OverIInv, OverTypeOK, StorageOK
<1>3. /\ new \in [Allocations -> Rows] /\ \A b \in Allocations \ {a} : new[b] = disk[b]
      /\ new[a].generation = disk[a].generation /\ new[a].epoch = disk[a].epoch /\ ~new[a].approved
  BY <1>2 DEF Rows
<1>4. \A b \in Allocations : disk[b].epoch \in Nat /\ disk[b].generation \in Nat
  BY <1>2 DEF Rows
<1> HIDE DEF new
<1>5. Forward(new)
  BY <1>3, <1>4 DEF Forward, NotAfter, SameFence
<1>6. ASSUME ~pending, disk' = new, rows' = new, then, UNCHANGED <<pending, up, storageOk, storeFaults>>
      PROVE  OverIInv'
  <2>1. /\ observed \in [Allocations -> Observations] /\ execution' \in [Allocations -> Executions]
        /\ stops' \in [Allocations -> Nat]
    BY <1>6 DEF OverIInv, OverTypeOK
  <2>2. observed' \in [Allocations -> Observations]
    BY <1>6, <2>1, ForgetFacts
  <2>3. ObservedOK'
    BY <1>6, <2>1, ForgetFacts DEF OverIInv, ObservedOK
  <2> QED BY <1>1, <1>5, <1>6, <2>1, <2>2, <2>3, CommitDoneKeeps
<1> QED BY <1>1, <1>5, <1>6, CommitWays, CommitFailsKeeps, CommitDiesKeeps

LEMMA ReplaceKeeps == ASSUME OverIInv, NEW a \in Allocations, ReplaceAllocation(a) PROVE OverIInv'
<1> DEFINE g == rows[a].generation + 1
           new == [rows EXCEPT ![a] = Fresh(g)]
           then == /\ execution' = [execution EXCEPT ![a] = Execution(g)] /\ observed' = Forget(observed, a)
                   /\ stops' = [stops EXCEPT ![a] = @ + 1]
<1>1. Live /\ Commit(new, then) /\ UNCHANGED sent
  BY DEF ReplaceAllocation
<1>2. rows = disk /\ disk \in [Allocations -> Rows]
  BY <1>1 DEF OverIInv, OverTypeOK, StorageOK
<1>3. \A b \in Allocations : disk[b].epoch \in Nat /\ disk[b].generation \in Nat
  BY <1>2 DEF Rows
<1>4. g \in Nat /\ g > disk[a].generation
  BY <1>2, <1>3
<1>5. /\ new \in [Allocations -> Rows] /\ \A b \in Allocations \ {a} : new[b] = disk[b]
      /\ new[a].generation = g /\ ~new[a].approved
  BY <1>2, <1>4, FreshFacts
<1> HIDE DEF new, g
<1>6. Forward(new)
  BY <1>3, <1>4, <1>5 DEF Forward, NotAfter, SameFence
<1>7. ASSUME ~pending, disk' = new, rows' = new, then, UNCHANGED <<pending, up, storageOk, storeFaults>>
      PROVE  OverIInv'
  <2>1. /\ observed \in [Allocations -> Observations] /\ execution \in [Allocations -> Executions]
        /\ stops \in [Allocations -> Nat]
    BY DEF OverIInv, OverTypeOK
  <2>2. observed' \in [Allocations -> Observations]
    BY <1>7, <2>1, ForgetFacts
  <2>3. execution' \in [Allocations -> Executions] /\ stops' \in [Allocations -> Nat]
    BY <1>4, <1>7, <2>1, FreshFacts
  <2>4. ObservedOK'
    BY <1>7, <2>1, ForgetFacts DEF OverIInv, ObservedOK
  <2>5. \A b \in Allocations : SameFence(new[b], disk[b]) => stops'[b] = stops[b]
    BY <1>3, <1>4, <1>5, <1>7, <2>1 DEF SameFence
  <2> QED BY <1>1, <1>6, <1>7, <2>2, <2>3, <2>4, <2>5, CommitDoneKeeps
<1> QED BY <1>1, <1>6, <1>7, CommitWays, CommitFailsKeeps, CommitDiesKeeps

(* The steps that leave the file alone.                                    *)
LEMMA IssueKeeps ==
  ASSUME OverIInv, NEW a \in Allocations, NEW p \in Principals \cup {"human"},
         NEW op \in {"approve", "start", "stop", "reset"}, Issue(p, op, a)
  PROVE  OverIInv'
<1> USE DEF OverIInv
<1> DEFINE c == [principal |-> p, op |-> op, alloc |-> a,
                 generation |-> rows[a].generation, epoch |-> rows[a].epoch,
                 sequence |-> 1 + Cardinality({m \in sent : m.principal = p /\ m.alloc = a}),
                 stops |-> stops[a]]
<1>1. /\ sent' = sent \cup {c}
      /\ UNCHANGED <<disk, pending, up, storageOk, rows, observed, execution, stops, storeFaults>>
  BY DEF Issue
<1>2. /\ IsFiniteSet({m \in sent : m.principal = p /\ m.alloc = a})
      /\ rows[a].generation \in Nat /\ rows[a].epoch \in Nat /\ stops[a] \in Nat
  BY FS_Subset DEF OverTypeOK, Rows
<1>3. Cardinality({m \in sent : m.principal = p /\ m.alloc = a}) \in Nat
  BY <1>2, FS_CardinalityType
<1>4. c \in Commands
  BY <1>2, <1>3 DEF Commands
<1>5. c.alloc = a /\ c.stops = stops[a] /\ c.generation = rows[a].generation /\ c.epoch = rows[a].epoch
  OBVIOUS
<1> HIDE DEF c
<1>6. OverTypeOK'
  BY <1>1, <1>4, FS_AddElement DEF OverTypeOK
<1>7. StorageOK' /\ ObservedOK'
  BY <1>1 DEF StorageOK, Live, ObservedOK
<1>8. FencesOK'
  BY <1>1, <1>5 DEF FencesOK, StorageOK, NotAfter
<1>9. ApprovedOK'
  BY <1>1 DEF ApprovedOK, ApprovalOf
<1> QED BY <1>6, <1>7, <1>8, <1>9

LEMMA AdapterKeeps ==
  ASSUME OverIInv, NEW a \in Allocations, NEW cancel \in BOOLEAN, Adapter(a, cancel) PROVE OverIInv'
<1> USE DEF OverIInv
<1>1. /\ UNCHANGED <<disk, pending, up, storageOk, rows, sent, stops>> /\ observed' = Forget(observed, a)
      /\ execution' = [execution EXCEPT ![a].running = FALSE, ![a].remote = @ /\ ~cancel, ![a].revision = @ + 1]
  BY DEF Adapter
<1>2. observed \in [Allocations -> Observations] /\ execution \in [Allocations -> Executions]
  BY DEF OverTypeOK
<1>3. execution' \in [Allocations -> Executions] /\ \A b \in Allocations \ {a} : execution'[b] = execution[b]
  BY <1>1, <1>2 DEF Executions
<1>4. OverTypeOK'
  BY <1>1, <1>2, <1>3, ForgetFacts DEF OverTypeOK
<1>5. ObservedOK'
  BY <1>1, <1>2, <1>3, ForgetFacts DEF ObservedOK
<1> QED BY <1>1, <1>4, <1>5 DEF StorageOK, Live, FencesOK, ApprovedOK, ApprovalOf

LEMMA ObserveKeeps ==
  ASSUME OverIInv, NEW a \in Allocations, NEW fail \in BOOLEAN, Observe(a, fail) PROVE OverIInv'
<1> USE DEF OverIInv
<1> DEFINE seen == [revision |-> execution[a].revision, age |-> 0,
                    state |-> IF execution[a].running \/ execution[a].remote THEN "RUNNING" ELSE "VERIFIED_STOPPED"]
<1>1. /\ UNCHANGED <<disk, pending, up, storageOk, rows, execution, sent, stops>>
      /\ observed' = [observed EXCEPT ![a] = NoObservation] \/ observed' = [observed EXCEPT ![a] = seen]
  BY DEF Observe
<1>2. observed \in [Allocations -> Observations] /\ execution[a].revision \in Nat
  BY DEF OverTypeOK, Executions
<1>3. seen \in Observations
      /\ (seen.state = "VERIFIED_STOPPED" => ~execution[a].running /\ ~execution[a].remote)
  BY <1>2 DEF Observations
<1> HIDE DEF seen
<1>4. OverTypeOK'
  BY <1>1, <1>2, <1>3, FreshFacts DEF OverTypeOK
<1>5. ObservedOK'
  BY <1>1, <1>2, <1>3, FreshFacts DEF ObservedOK
<1> QED BY <1>1, <1>4, <1>5 DEF StorageOK, Live, FencesOK, ApprovedOK, ApprovalOf

LEMMA AdvanceKeeps == ASSUME OverIInv, Advance PROVE OverIInv'
<1> USE DEF OverIInv
<1>1. /\ UNCHANGED <<disk, pending, up, storageOk, rows, execution, sent, stops>>
      /\ observed' = [a \in Allocations |-> IF observed[a].age <= Ttl THEN [observed[a] EXCEPT !.age = @ + 1]
                                            ELSE observed[a]]
  BY DEF Advance
<1>2. ASSUME NEW a \in Allocations PROVE observed'[a] \in Observations /\ observed'[a].state = observed[a].state
  <2>1. observed[a] \in Observations
    BY DEF OverTypeOK
  <2>2. [observed[a] EXCEPT !.age = @ + 1] \in Observations
        /\ [observed[a] EXCEPT !.age = @ + 1].state = observed[a].state
    BY <2>1 DEF Observations
  <2> QED BY <1>1, <2>1, <2>2
<1>3. observed' \in [Allocations -> Observations]
  BY <1>1, <1>2
<1>4. OverTypeOK'
  BY <1>1, <1>3 DEF OverTypeOK
<1>5. ObservedOK'
  BY <1>1, <1>2 DEF ObservedOK
<1> QED BY <1>1, <1>4, <1>5 DEF StorageOK, Live, FencesOK, ApprovedOK, ApprovalOf

LEMMA ReloadKeeps == ASSUME OverIInv, Reload PROVE OverIInv'
<1> USE DEF OverIInv
<1>0. 1 \in Nat
  OBVIOUS
<1>1. /\ UNCHANGED <<disk, pending, execution, sent, stops>> /\ up' /\ up' \in BOOLEAN
      /\ storageOk' = ~pending /\ storageOk' \in BOOLEAN
      /\ rows' = IF pending THEN [a \in Allocations |-> Fresh(1)] ELSE disk
      /\ observed' = [a \in Allocations |-> NoObservation]
  BY DEF Reload
<1>2. OverTypeOK'
  BY <1>0, <1>1, FreshFacts DEF OverTypeOK
<1>3. ASSUME NEW a \in Allocations PROVE NotAfter(rows'[a], disk[a])
  <2>1. disk[a].generation \in Nat /\ disk[a].epoch \in Nat /\ disk[a].generation >= 1
    BY DEF OverTypeOK, Rows, StorageOK
  <2> QED BY <1>0, <1>1, <2>1, FreshFacts DEF NotAfter
<1>4. StorageOK'
  BY <1>1, <1>3 DEF StorageOK, Live
<1>5. ObservedOK'
  BY <1>1, FreshFacts DEF ObservedOK
<1> QED BY <1>1, <1>2, <1>4, <1>5 DEF FencesOK, ApprovedOK, ApprovalOf

(* What a controller of human_override/model.py and those who carry its    *)
(* commands keep at every step: who may commit has the rows of the disk;   *)
(* fences on disk only go forward, and a command of the disk's fence was   *)
(* given since the last stop, reset or replacement; what is approved was   *)
(* approved at that fence; and a verified stop is one.                     *)
THEOREM OverInvariance == OverSpec => []OverIInv
<1>1. ASSUME OverIInv, [OverNext]_overVars PROVE OverIInv'
  <2>1. CASE UNCHANGED overVars
    BY <1>1, <2>1 DEF overVars, OverIInv, OverTypeOK, StorageOK, Live, FencesOK, ApprovedOK, ApprovalOf, ObservedOK
  <2>2. CASE \E a \in Allocations :
               \/ \E op \in {"approve", "start", "stop", "reset"} : Issue("human", op, a)
               \/ \E p \in Principals \ {"human"} : Issue(p, "start", a)
    BY <1>1, <2>2, IssueKeeps
  <2>3. CASE \E m \in sent : Command(m)
    BY <1>1, <2>3, CommandKeeps
  <2>4. CASE \E a \in Allocations, b \in BOOLEAN : SetControl(a, b) \/ Adapter(a, b) \/ Observe(a, b)
    BY <1>1, <2>4, SetControlKeeps, AdapterKeeps, ObserveKeeps
  <2>5. CASE (\E a \in Allocations : ReplaceAllocation(a)) \/ Advance \/ Reload
    BY <1>1, <2>5, ReplaceKeeps, AdvanceKeeps, ReloadKeeps
  <2> QED BY <1>1, <2>1, <2>2, <2>3, <2>4, <2>5 DEF OverNext
<1> QED BY <1>1, OverStarts, PTL DEF OverSpec

(* A step that starts an execution is a start command at the disk's fence, *)
(* of an approved allocation.                                              *)
LEMMA StartsByCommand ==
  ASSUME OverIInv, OverNext, NEW a \in Allocations, execution'[a].running, ~execution[a].running
  PROVE  \E m \in sent : Command(m) /\ m.op = "start" /\ m.alloc = a /\ Outcome(m).ok
<1>1. execution \in [Allocations -> Executions] /\ execution' # execution
  BY DEF OverIInv, OverTypeOK
<1>2. \A g \in Nat : ~Execution(g).running
  BY FreshFacts
<1>3. ASSUME NEW b \in Allocations, NEW c \in BOOLEAN, SetControl(b, c) \/ Adapter(b, c) \/ Observe(b, c) PROVE FALSE
  <2>1. CASE SetControl(b, c) \/ Observe(b, c)
    BY <1>1, <2>1 DEF SetControl, Observe, Commit
  <2>2. CASE Adapter(b, c)
    <3>1. execution' = [execution EXCEPT ![b].running = FALSE, ![b].remote = @ /\ ~c, ![b].revision = @ + 1]
      BY <2>2 DEF Adapter
    <3>2. ~execution'[a].running
      BY <1>1, <3>1 DEF Executions
    <3> QED BY <3>2
  <2> QED BY <1>3, <2>1, <2>2
<1>4. ASSUME NEW b \in Allocations, ReplaceAllocation(b) PROVE FALSE
  <2>1. rows[b].generation + 1 \in Nat
    BY DEF OverIInv, OverTypeOK, Rows
  <2>2. execution' = [execution EXCEPT ![b] = Execution(rows[b].generation + 1)]
    BY <1>1, <1>4 DEF ReplaceAllocation, Commit
  <2>3. ~execution'[a].running
    BY <1>1, <1>2, <2>1, <2>2
  <2> QED BY <2>3
<1>5. ASSUME Advance \/ Reload PROVE FALSE
  BY <1>1, <1>5 DEF Advance, Reload
<1>6. ASSUME NEW p, NEW op, NEW b, Issue(p, op, b) PROVE FALSE
  BY <1>1, <1>6 DEF Issue
<1>7. PICK m \in sent : Command(m)
  BY <1>3, <1>4, <1>5, <1>6 DEF OverNext
<1>8. /\ m.op = "start" /\ Outcome(m).ok
      /\ execution' = [execution EXCEPT ![m.alloc].running = TRUE, ![m.alloc].remote = TRUE,
                                        ![m.alloc].launches = @ + 1, ![m.alloc].revision = @ + 1]
  BY <1>1, <1>7 DEF Command, Commit
<1>9. m.alloc = a
  BY <1>1, <1>8
<1> QED BY <1>7, <1>8, <1>9

LEMMA StartIsWilled ==
  ASSUME OverIInv, OverNext, NEW a \in Allocations, execution'[a].running, ~execution[a].running
  PROVE  /\ ~disk[a].latched /\ ~execution[a].remote
         /\ \E m \in sent : m.op = "start" /\ m.alloc = a /\ m.stops = stops[a]
         /\ \E m \in sent : m.op = "approve" /\ m.principal = "human" /\ m.alloc = a /\ m.stops = stops[a]
<1>1. PICK m \in sent : Command(m) /\ m.op = "start" /\ m.alloc = a /\ Outcome(m).ok
  BY StartsByCommand
<1>2. Live /\ Fenced(m) /\ OutcomeOK(m, Outcome(m)) /\ rows = disk
  BY <1>1, OutcomeFacts DEF Command, OverIInv, StorageOK
<1>3. ~disk[a].latched /\ disk[a].approved /\ ~execution[a].remote
  BY <1>1, <1>2 DEF OutcomeOK
<1>4. m.stops = stops[a]
  BY <1>1, <1>2 DEF Fenced, OverIInv, FencesOK, SameFence
<1>5. PICK c \in sent : c.op = "approve" /\ c.principal = "human" /\ c.alloc = a /\ SameFence(c, disk[a])
  BY <1>3 DEF OverIInv, ApprovedOK, ApprovalOf
<1>6. c.stops = stops[a]
  BY <1>5 DEF OverIInv, FencesOK
<1> QED BY <1>1, <1>3, <1>4, <1>5, <1>6

LEMMA StatusIsObserved ==
  ASSUME OverIInv, NEW a \in Allocations, Status(a) = "VERIFIED_STOPPED"
  PROVE  ~execution[a].running /\ ~execution[a].remote
<1>1. observed[a].state = "VERIFIED_STOPPED"
  BY DEF Status
<1> QED BY <1>1 DEF OverIInv, ObservedOK

(* Only a reset by a command takes a latch off the disk.                   *)
LEMMA ResetIsSeen ==
  ASSUME OverIInv, OverNext, NEW a \in Allocations, disk[a].latched, ~disk'[a].latched
  PROVE  ~execution[a].running /\ ~execution[a].remote
<1>1. /\ disk \in [Allocations -> Rows] /\ (Live => rows = disk)
  BY DEF OverIInv, OverTypeOK, StorageOK
<1>2. ASSUME NEW b \in Allocations, NEW c \in BOOLEAN, SetControl(b, c) PROVE FALSE
  <2>1. Live /\ (disk' = disk \/ disk' = [disk EXCEPT ![b].control = c, ![b].approved = FALSE])
    BY <1>1, <1>2 DEF SetControl, Commit
  <2>2. disk'[a].latched = disk[a].latched
    BY <1>1, <2>1 DEF Rows
  <2> QED BY <2>2
<1>3. ASSUME NEW b \in Allocations, ReplaceAllocation(b) PROVE FALSE
  <2>1. /\ ~disk[b].latched
        /\ disk' = disk \/ disk' = [disk EXCEPT ![b] = Fresh(rows[b].generation + 1)]
    BY <1>1, <1>3 DEF ReplaceAllocation, Commit
  <2> QED BY <1>1, <2>1
<1>4. ASSUME NEW b \in Allocations, NEW c \in BOOLEAN, Adapter(b, c) \/ Observe(b, c) PROVE FALSE
  BY <1>4 DEF Adapter, Observe
<1>5. ASSUME Advance \/ Reload PROVE FALSE
  BY <1>5 DEF Advance, Reload
<1>6. ASSUME NEW p, NEW op, NEW b, Issue(p, op, b) PROVE FALSE
  BY <1>6 DEF Issue
<1>7. PICK m \in sent : Command(m)
  BY <1>2, <1>3, <1>4, <1>5, <1>6 DEF OverNext
<1>8. Live /\ Fenced(m) /\ OutcomeOK(m, Outcome(m))
  BY <1>7, OutcomeFacts DEF Command
<1>9. disk' = disk \/ disk' = [disk EXCEPT ![m.alloc] = Outcome(m).row]
  BY <1>1, <1>7, <1>8 DEF Command, Commit
<1>10. m.alloc = a /\ ~Outcome(m).row.latched
  BY <1>1, <1>9
<1>11. Status(a) = "VERIFIED_STOPPED"
  BY <1>8, <1>10 DEF OutcomeOK
<1> QED BY <1>11, StatusIsObserved

(* An execution starts only by a start and a human approval given since    *)
(* the last stop, reset or replacement took effect; a stop holds on disk   *)
(* until a reset, which finds an execution that runs nowhere; and a        *)
(* verified stop is one: for any allocations, principals, budgets and      *)
(* failures of the store.                                                  *)
THEOREM HumanDecides == OverSpec => HumanHasLastWord
<1>1. ASSUME OverIInv, [OverNext]_overVars
      PROVE  [\A a \in Allocations :
                execution'[a].running /\ ~execution[a].running =>
                  /\ ~disk[a].latched /\ ~execution[a].remote
                  /\ \E m \in sent : m.op = "start" /\ m.alloc = a /\ m.stops = stops[a]
                  /\ \E m \in sent : /\ m.op = "approve" /\ m.principal = "human" /\ m.alloc = a
                                     /\ m.stops = stops[a]]_overVars
  BY <1>1, StartIsWilled
<1>2. ASSUME OverIInv, [OverNext]_overVars
      PROVE  [\A a \in Allocations :
                disk[a].latched /\ ~disk'[a].latched => ~execution[a].running /\ ~execution[a].remote]_overVars
  BY <1>2, ResetIsSeen
<1>3. OverIInv => \A a \in Allocations :
                    Status(a) = "VERIFIED_STOPPED" => ~execution[a].running /\ ~execution[a].remote
  BY StatusIsObserved
<1> QED BY <1>1, <1>2, <1>3, OverInvariance, PTL DEF OverSpec, HumanHasLastWord

-----------------------------------------------------------------------------
(* The controller of the virtual machine.                                  *)
Phases == {"IDLE", "START_INTENT", "IDENTIFIED_SUSPENDED", "RUNNING", "STOP_REQUESTED", "UNKNOWN",
           "RECOVERED_INHIBITED"}
VmStates == [generation : Nat, epoch : Nat, latched : BOOLEAN, approved : BOOLEAN, phase : Phases,
             identity : Serials \cup {0}]

VmTypeOK ==
  /\ st \in VmStates /\ file \in VmStates /\ durable \in BOOLEAN /\ here \in BOOLEAN /\ halted \in BOOLEAN
  /\ stage \in {"idle", "create", "resume", "undo", "close"}
  /\ machine \in [Serials -> {"new", "suspended", "running", "ending", "dead"}]
  /\ ~here => stage = "idle"

(* A machine that lives is the one that the state, in the controller and   *)
(* on disk, names if it names any; and neither of them is idle.            *)
Names(s, i) == s.phase # "IDLE" /\ s.identity \in {0, i}
AloneOK ==
  /\ \A i, j \in Serials : Alive(i) /\ Alive(j) => i = j
  /\ \A i \in Serials : Alive(i) => Names(file, i) /\ (here => Names(st, i)) /\ stage # "create"

(* A start goes on from a state that nothing has halted.                   *)
StartingOK ==
  /\ here /\ halted => st.latched
  /\ stage = "create" => ~st.latched /\ st.identity = 0 /\ st.phase = "START_INTENT" /\ file = st
  /\ stage = "resume" => ~st.latched /\ st.identity = handle /\ handle \in Serials /\ file = st
  /\ stage = "resume" => st.phase = "IDENTIFIED_SUSPENDED"

VmIInv == VmTypeOK /\ AloneOK /\ StartingOK

(* A save: what it was told to store, or a latched state in its place.     *)
SavedOK(s, good, bad) ==
  \/ st' = s /\ file' = s /\ stage' = good /\ durable /\ durable'
  \/ st' = s /\ file' = file /\ stage' = bad /\ ~durable /\ ~durable'
  \/ st' = Inhibited(s) /\ file' = file /\ stage' = bad /\ durable /\ ~durable'

LEMMA SaveFacts ==
  ASSUME VmTypeOK, NEW s, NEW good, NEW bad, Save(s, good, bad)
  PROVE  SavedOK(s, good, bad) /\ durable' \in BOOLEAN
<1>1. CASE durable /\ ~spare /\ st' = s /\ file' = s /\ stage' = good /\ UNCHANGED <<spare, durable, vmFaults>>
  BY <1>1 DEF SavedOK, VmTypeOK
<1>2. CASE ~durable /\ st' = s /\ stage' = bad /\ UNCHANGED <<file, spare, durable, vmFaults>>
  BY <1>2 DEF SavedOK, VmTypeOK
<1>3. CASE durable /\ durable' = FALSE /\ st' = Inhibited(s) /\ stage' = bad /\ UNCHANGED file
  BY <1>3 DEF SavedOK
<1> QED BY <1>1, <1>2, <1>3 DEF Save

LEMMA InhibitedFacts ==
  ASSUME NEW s \in VmStates
  PROVE  /\ Inhibited(s) \in VmStates /\ Inhibited(s).phase = "UNKNOWN" /\ Inhibited(s).latched
         /\ Inhibited(s).identity = s.identity
BY DEF Inhibited, VmStates, Phases

(* States that differ in what these steps set.                             *)
LEMMA StateFacts ==
  ASSUME NEW s \in VmStates, NEW g \in Nat, NEW e \in Nat, NEW i \in Serials \cup {0}
  PROVE  /\ [s EXCEPT !.epoch = e, !.latched = TRUE, !.approved = FALSE, !.phase = "STOP_REQUESTED"] \in VmStates
         /\ [s EXCEPT !.epoch = e, !.latched = FALSE, !.approved = FALSE, !.phase = "IDLE"] \in VmStates
         /\ [s EXCEPT !.generation = g, !.approved = FALSE, !.phase = "START_INTENT", !.identity = i] \in VmStates
         /\ [s EXCEPT !.identity = i, !.phase = "IDENTIFIED_SUSPENDED"] \in VmStates
         /\ [s EXCEPT !.phase = "RUNNING"] \in VmStates
         /\ [s EXCEPT !.latched = TRUE, !.approved = FALSE, !.phase = "RECOVERED_INHIBITED", !.epoch = e] \in VmStates
BY DEF VmStates, Phases

LEMMA VmStarts == ASSUME VmInit PROVE VmIInv
<1>1. NewState \in VmStates /\ NewState.identity = 0 /\ NewState.phase = "IDLE"
  BY DEF NewState, VmStates, Phases
<1>2. \A i \in Serials : ~Alive(i)
  BY DEF VmInit, Alive
<1>3. VmTypeOK
  BY <1>1 DEF VmInit, VmTypeOK
<1> QED BY <1>2, <1>3 DEF VmInit, VmIInv, AloneOK, StartingOK

(* A save that changes the state only.                                     *)
LEMMA SaveKeeps ==
  ASSUME VmIInv, here, stage \in {"idle", "undo"}, NEW s \in VmStates, NEW after \in {"idle", "close"},
         SavedOK(s, after, after), durable' \in BOOLEAN, halted' \in BOOLEAN,
         machine' \in [Serials -> {"new", "suspended", "running", "ending", "dead"}],
         \A i \in Serials : Alive(i)' => Alive(i) /\ Names(s, i),
         halted' /\ st' = s => s.latched, UNCHANGED here
  PROVE  VmIInv'
<1> USE DEF VmIInv
<1>1. st' \in VmStates /\ file' \in VmStates /\ stage' = after /\ stage' \in {"idle", "close"}
  BY InhibitedFacts DEF SavedOK, VmTypeOK
<1>2. VmTypeOK'
  BY <1>1 DEF VmTypeOK
<1>3. \A i \in Serials : Alive(i)' => Names(st', i) /\ Names(file', i)
  BY InhibitedFacts DEF SavedOK, AloneOK, Names
<1>4. AloneOK'
  BY <1>1, <1>3 DEF AloneOK, Names
<1>5. StartingOK'
  BY <1>1, InhibitedFacts DEF StartingOK, SavedOK
<1> QED BY <1>2, <1>4, <1>5

(* The steps of the controller.                                            *)
LEMMA ApproveKeeps == ASSUME VmIInv, Approve PROVE VmIInv'
<1> DEFINE s == IF st.latched THEN st ELSE [st EXCEPT !.approved = TRUE]
<1>1. /\ here /\ stage = "idle" /\ Save(s, "idle", "idle") /\ UNCHANGED <<here, machine, halted>>
  BY DEF Approve, Idle
<1>2. /\ s \in VmStates /\ s.latched = st.latched /\ s.phase = st.phase /\ s.identity = st.identity
  BY DEF VmIInv, VmTypeOK, VmStates
<1> HIDE DEF s
<1>3. \A i \in Serials : Alive(i)' => Alive(i) /\ Names(s, i)
  BY <1>1, <1>2 DEF VmIInv, AloneOK, Alive, Names
<1>4. halted' => s.latched
  BY <1>1, <1>2 DEF VmIInv, StartingOK
<1>5. /\ halted' \in BOOLEAN /\ machine' \in [Serials -> {"new", "suspended", "running", "ending", "dead"}]
      /\ SavedOK(s, "idle", "idle") /\ durable' \in BOOLEAN
  BY <1>1, SaveFacts DEF VmIInv, VmTypeOK
<1> QED BY <1>1, <1>2, <1>3, <1>4, <1>5, SaveKeeps

LEMMA StopKeeps == ASSUME VmIInv, Stop PROVE VmIInv'
<1> DEFINE s == [st EXCEPT !.epoch = IF ~st.latched /\ @ < MaxCounter THEN @ + 1 ELSE @, !.latched = TRUE,
                           !.approved = FALSE, !.phase = "STOP_REQUESTED"]
<1>1. /\ here /\ stage = "idle" /\ Save(s, "idle", "idle") /\ UNCHANGED here /\ halted' = TRUE
      /\ machine' = machine \/ (/\ handle # 0 /\ handle = st.identity /\ machine[handle] = "running"
                                /\ machine' = [machine EXCEPT ![handle] = "ending"])
  BY DEF Stop, Idle
<1>0. st \in VmStates /\ st.epoch \in Nat /\ 0 \in Nat /\ st.identity \in Serials \cup {0}
  BY DEF VmIInv, VmTypeOK, VmStates
<1>2. /\ s \in VmStates /\ s.latched /\ s.phase = "STOP_REQUESTED" /\ s.identity = st.identity
      /\ st.identity \in Serials \cup {0}
  <2>1. PICK e \in Nat : s = [st EXCEPT !.epoch = e, !.latched = TRUE, !.approved = FALSE, !.phase = "STOP_REQUESTED"]
    <3>1. CASE ~st.latched /\ st.epoch < MaxCounter
      <4>1. PICK e \in Nat : e = st.epoch + 1
        BY <1>0
      <4>2. s = [st EXCEPT !.epoch = e, !.latched = TRUE, !.approved = FALSE, !.phase = "STOP_REQUESTED"]
        BY <3>1, <4>1
      <4> QED BY <4>2
    <3>2. CASE ~(~st.latched /\ st.epoch < MaxCounter)
      <4>1. s = [st EXCEPT !.epoch = st.epoch, !.latched = TRUE, !.approved = FALSE, !.phase = "STOP_REQUESTED"]
        BY <3>2
      <4> QED BY <1>0, <4>1
    <3> QED BY <3>1, <3>2
  <2>2. s \in VmStates
    BY <1>0, <2>1, StateFacts
  <2>3. s.latched /\ s.phase = "STOP_REQUESTED" /\ s.identity = st.identity
    BY <1>0, <2>1 DEF VmStates
  <2> QED BY <1>0, <2>2, <2>3
<1> HIDE DEF s
<1>3. machine' \in [Serials -> {"new", "suspended", "running", "ending", "dead"}]
      /\ \A i \in Serials : Alive(i)' => Alive(i)
  BY <1>1, <1>2 DEF VmIInv, VmTypeOK, Alive
<1>4. \A i \in Serials : Alive(i)' => Alive(i) /\ Names(s, i)
  BY <1>1, <1>2, <1>3 DEF VmIInv, AloneOK, Names
<1>5. halted' \in BOOLEAN /\ SavedOK(s, "idle", "idle") /\ durable' \in BOOLEAN
  BY <1>1, SaveFacts DEF VmIInv
<1> QED BY <1>1, <1>2, <1>3, <1>4, <1>5, SaveKeeps

LEMMA UndoKeeps == ASSUME VmIInv, UndoStart PROVE VmIInv'
<1> DEFINE s == Inhibited(st)
<1>1. here /\ stage = "undo" /\ Save(s, "close", "close") /\ UNCHANGED <<here, machine>> /\ halted' = TRUE
  BY DEF UndoStart
<1>2. s \in VmStates /\ s.latched /\ s.phase = "UNKNOWN" /\ s.identity = st.identity
  BY InhibitedFacts DEF VmIInv, VmTypeOK
<1> HIDE DEF s
<1>3. \A i \in Serials : Alive(i)' => Alive(i) /\ Names(s, i)
  BY <1>1, <1>2 DEF VmIInv, AloneOK, Alive, Names
<1>4. /\ halted' \in BOOLEAN /\ machine' \in [Serials -> {"new", "suspended", "running", "ending", "dead"}]
      /\ SavedOK(s, "close", "close") /\ durable' \in BOOLEAN
  BY <1>1, SaveFacts DEF VmIInv, VmTypeOK
<1> QED BY <1>1, <1>2, <1>3, <1>4, SaveKeeps

(* A reset whose judge has seen the named machine run, and gone: none      *)
(* lives.                                                                  *)
LEMMA VerifiedNone == ASSUME VmIInv, here, Verified PROVE \A i \in Serials : ~Alive(i)
BY DEF VmIInv, AloneOK, Names, Verified, Alive

LEMMA ResetKeeps == ASSUME VmIInv, ResetVm PROVE VmIInv'
<1>1. here /\ stage = "idle" /\ durable /\ UNCHANGED here
  BY DEF ResetVm, Idle
<1>2. CASE UNCHANGED <<control, job, handle, halted, machine>>
  BY <1>1, <1>2 DEF control, VmIInv, VmTypeOK, AloneOK, StartingOK, Alive, Names
<1>3. CASE Save(st, "idle", "idle") /\ UNCHANGED <<job, handle, halted, machine>>
  <2>1. st \in VmStates /\ (halted' => st.latched)
    BY <1>1, <1>3 DEF VmIInv, VmTypeOK, StartingOK
  <2>2. \A i \in Serials : Alive(i)' => Alive(i) /\ Names(st, i)
    BY <1>1, <1>3 DEF VmIInv, AloneOK, Alive, Names
  <2>3. /\ halted' \in BOOLEAN /\ machine' \in [Serials -> {"new", "suspended", "running", "ending", "dead"}]
        /\ SavedOK(st, "idle", "idle") /\ durable' \in BOOLEAN
    BY <1>3, SaveFacts DEF VmIInv, VmTypeOK
  <2> QED BY <1>1, <2>1, <2>2, <2>3, SaveKeeps
<1>4. CASE /\ Verified /\ Closed(job)
           /\ Save([st EXCEPT !.epoch = @ + 1, !.latched = FALSE, !.approved = FALSE, !.phase = "IDLE"],
                   "idle", "idle")
           /\ IF durable' THEN job' = 0 /\ handle' = 0 /\ halted' = FALSE
              ELSE UNCHANGED <<job, handle, halted>>
  <2> DEFINE s == [st EXCEPT !.epoch = @ + 1, !.latched = FALSE, !.approved = FALSE, !.phase = "IDLE"]
  <2>1. s \in VmStates
    <3>1. st \in VmStates /\ st.epoch + 1 \in Nat /\ 0 \in Nat
      BY DEF VmIInv, VmTypeOK, VmStates
    <3>2. PICK e \in Nat : e = st.epoch + 1
      BY <3>1
    <3>3. s = [st EXCEPT !.epoch = e, !.latched = FALSE, !.approved = FALSE, !.phase = "IDLE"]
      BY <3>2
    <3> QED BY <3>1, <3>3, StateFacts
  <2> HIDE DEF s
  <2>2. SavedOK(s, "idle", "idle") /\ durable' \in BOOLEAN
    BY <1>4, SaveFacts DEF VmIInv, s
  <2>3. machine' \in [Serials -> {"new", "suspended", "running", "ending", "dead"}]
        /\ \A i \in Serials : ~Alive(i)'
    BY <1>1, <1>4, VerifiedNone DEF Closed, Alive, VmIInv, VmTypeOK
  <2>4. halted' \in BOOLEAN
    BY <1>4 DEF VmIInv, VmTypeOK
  <2>5. st' = s => ~halted'
    <3>1. CASE durable'
      BY <1>4, <3>1
    <3>2. CASE ~durable'
      <4>1. st' = Inhibited(s)
        BY <1>1, <2>2, <3>2 DEF SavedOK
      <4>2. st'.phase = "UNKNOWN" /\ s.phase = "IDLE"
        BY <2>1, <4>1, InhibitedFacts DEF s, VmIInv, VmTypeOK, VmStates
      <4> QED BY <4>2
    <3> QED BY <3>1, <3>2
  <2> QED BY <1>1, <2>1, <2>2, <2>3, <2>4, <2>5, SaveKeeps
<1> QED BY <1>2, <1>3, <1>4 DEF ResetVm

LEMMA IntentKeeps == ASSUME VmIInv, StartIntent PROVE VmIInv'
<1> USE DEF VmIInv
<1>1. here /\ stage = "idle" /\ durable /\ UNCHANGED <<here, job, handle, machine, halted>>
  BY DEF StartIntent, Idle
<1>2. CASE Save(st, "idle", "idle")
  <2>1. st \in VmStates /\ (halted' => st.latched)
    BY <1>1 DEF VmTypeOK, StartingOK
  <2>2. \A i \in Serials : Alive(i)' => Alive(i) /\ Names(st, i)
    BY <1>1 DEF AloneOK, Alive, Names
  <2>3. /\ halted' \in BOOLEAN /\ machine' \in [Serials -> {"new", "suspended", "running", "ending", "dead"}]
        /\ SavedOK(st, "idle", "idle") /\ durable' \in BOOLEAN
    BY <1>1, <1>2, SaveFacts DEF VmTypeOK
  <2> QED BY <1>1, <2>1, <2>2, <2>3, SaveKeeps
<1>3. CASE /\ MayStart
           /\ Save([st EXCEPT !.generation = @ + 1, !.approved = FALSE, !.phase = "START_INTENT",
                              !.identity = 0], "create", "idle")
  <2> DEFINE s == [st EXCEPT !.generation = @ + 1, !.approved = FALSE, !.phase = "START_INTENT", !.identity = 0]
  <2>1. s \in VmStates /\ ~s.latched /\ s.phase = "START_INTENT" /\ s.identity = 0 /\ ~st.latched
    <3>1. st \in VmStates /\ st.generation + 1 \in Nat /\ 0 \in Nat /\ 0 \in Serials \cup {0}
      BY DEF VmTypeOK, VmStates
    <3>2. PICK g \in Nat : g = st.generation + 1
      BY <3>1
    <3>3. s = [st EXCEPT !.generation = g, !.approved = FALSE, !.phase = "START_INTENT", !.identity = 0]
      BY <3>2
    <3>4. s \in VmStates
      BY <3>1, <3>3, StateFacts
    <3> QED BY <1>3, <3>1, <3>3, <3>4 DEF VmStates, MayStart
  <2> HIDE DEF s
  <2>2. SavedOK(s, "create", "idle") /\ durable' \in BOOLEAN
    BY <1>3, SaveFacts DEF s
  <2>3. \A i \in Serials : ~Alive(i)'
    BY <1>1, <1>3 DEF AloneOK, Names, MayStart, Alive
  <2>4. ~halted'
    BY <1>1, <2>1 DEF StartingOK, VmTypeOK
  <2>5. st' \in VmStates /\ file' \in VmStates /\ stage' \in {"create", "idle"}
    BY <2>1, <2>2, InhibitedFacts DEF SavedOK, VmTypeOK
  <2>6. VmTypeOK'
    BY <1>1, <2>2, <2>5 DEF VmTypeOK
  <2>7. StartingOK'
    BY <1>1, <2>1, <2>2, <2>4 DEF StartingOK, SavedOK
  <2> QED BY <2>3, <2>6, <2>7 DEF AloneOK
<1> QED BY <1>2, <1>3 DEF StartIntent

(* A machine is created by a start that goes on, when none lives.          *)
LEMMA CreateKeeps == ASSUME VmIInv, Create PROVE VmIInv'
<1> USE DEF VmIInv
<1>1. here /\ stage = "create" /\ UNCHANGED <<here, judge, halted>>
  BY DEF Create
<1>2. /\ \A i \in Serials : ~Alive(i)
      /\ ~st.latched /\ ~halted /\ st \in VmStates
      /\ machine \in [Serials -> {"new", "suspended", "running", "ending", "dead"}]
  BY <1>1 DEF AloneOK, StartingOK, VmTypeOK
<1>3. CASE stage' = "undo" /\ UNCHANGED <<file, spare, st, durable, job, handle, machine>>
  <2>1. VmTypeOK'
    BY <1>1, <1>3 DEF VmTypeOK
  <2>2. AloneOK'
    BY <1>2, <1>3 DEF AloneOK, Alive
  <2>3. StartingOK'
    BY <1>1, <1>2, <1>3 DEF StartingOK
  <2> QED BY <2>1, <2>2, <2>3
<1>4. ASSUME NEW i \in Serials, handle' = i, machine' = [machine EXCEPT ![i] = "suspended"],
             Save([st EXCEPT !.identity = i, !.phase = "IDENTIFIED_SUSPENDED"], "resume", "undo")
      PROVE  VmIInv'
  <2> DEFINE s == [st EXCEPT !.identity = i, !.phase = "IDENTIFIED_SUSPENDED"]
  <2>1. 0 \in Nat /\ i \in Serials \cup {0}
    OBVIOUS
  <2>2. s \in VmStates
    BY <1>2, <2>1, StateFacts
  <2>3. s.identity = i /\ s.phase = "IDENTIFIED_SUSPENDED" /\ ~s.latched
    BY <1>2 DEF VmStates
  <2> HIDE DEF s
  <2>4. SavedOK(s, "resume", "undo") /\ durable' \in BOOLEAN
    BY <1>4, SaveFacts DEF s
  <2>5. file = st /\ st.phase = "START_INTENT" /\ st.identity = 0
    BY <1>1 DEF StartingOK
  <2>6. /\ st' \in VmStates /\ file' \in VmStates /\ stage' \in {"resume", "undo"}
        /\ Names(st', i) /\ Names(file', i)
        /\ stage' = "resume" => st' = s /\ file' = s
    BY <2>2, <2>3, <2>4, <2>5, InhibitedFacts DEF SavedOK, VmTypeOK, Names
  <2>7. VmTypeOK'
    BY <1>1, <1>2, <1>4, <2>4, <2>6 DEF VmTypeOK
  <2>8. \A j \in Serials : Alive(j)' => j = i
    BY <1>2, <1>4 DEF Alive
  <2>9. AloneOK'
    BY <2>6, <2>8 DEF AloneOK
  <2>10. StartingOK'
    BY <1>1, <1>2, <1>4, <2>3, <2>6 DEF StartingOK
  <2> QED BY <2>7, <2>9, <2>10
<1> QED BY <1>3, <1>4 DEF Create

LEMMA ResumeKeeps == ASSUME VmIInv, Resume PROVE VmIInv'
<1> USE DEF VmIInv
<1>1. here /\ stage = "resume" /\ UNCHANGED <<here, job, handle, judge, halted>>
  BY DEF Resume
<1>2. /\ ~st.latched /\ ~halted /\ st \in VmStates /\ st.identity = handle /\ handle \in Serials /\ file = st
      /\ st.phase = "IDENTIFIED_SUSPENDED"
      /\ machine \in [Serials -> {"new", "suspended", "running", "ending", "dead"}]
  BY <1>1 DEF StartingOK, VmTypeOK
<1>3. CASE stage' = "undo" /\ UNCHANGED <<file, spare, st, durable, machine>>
  <2>1. VmTypeOK'
    BY <1>1, <1>3 DEF VmTypeOK
  <2>2. AloneOK'
    BY <1>1, <1>3 DEF AloneOK, Alive, Names
  <2>3. StartingOK'
    BY <1>1, <1>2, <1>3 DEF StartingOK
  <2> QED BY <2>1, <2>2, <2>3
<1>4. CASE /\ machine[handle] = "suspended" /\ machine' = [machine EXCEPT ![handle] = "running"]
           /\ Save([st EXCEPT !.phase = "RUNNING"], "idle", "undo")
  <2> DEFINE s == [st EXCEPT !.phase = "RUNNING"]
  <2>1. s \in VmStates
    BY <1>2, StateFacts DEF VmStates
  <2>2. s.identity = handle /\ s.phase = "RUNNING" /\ ~s.latched
    BY <1>2 DEF VmStates
  <2> HIDE DEF s
  <2>3. SavedOK(s, "idle", "undo") /\ durable' \in BOOLEAN
    BY <1>4, SaveFacts DEF s
  <2>4. /\ st' \in VmStates /\ file' \in VmStates /\ stage' \in {"idle", "undo"}
        /\ Names(st', handle) /\ Names(file', handle)
    BY <1>2, <2>1, <2>2, <2>3, InhibitedFacts DEF SavedOK, VmTypeOK, Names
  <2>5. VmTypeOK'
    BY <1>1, <1>2, <1>4, <2>3, <2>4 DEF VmTypeOK
  <2>6. \A j \in Serials : Alive(j)' => j = handle
    BY <1>2, <1>4 DEF Alive, AloneOK
  <2>7. AloneOK'
    BY <2>4, <2>6 DEF AloneOK
  <2>8. StartingOK'
    BY <1>1, <1>2, <2>4 DEF StartingOK
  <2> QED BY <2>5, <2>7, <2>8
<1> QED BY <1>3, <1>4 DEF Resume

(* The steps by which machines only end, or a controller goes and another  *)
(* comes.                                                                  *)
LEMMA EndsFacts ==
  ASSUME VmTypeOK, NEW j, (machine' = [i \in Serials |-> IF i = j THEN "dead" ELSE machine[i]]) \/ machine' = machine
  PROVE  /\ machine' \in [Serials -> {"new", "suspended", "running", "ending", "dead"}]
         /\ \A i \in Serials : Alive(i)' => Alive(i)
BY DEF VmTypeOK, Alive

LEMMA CloseKeeps == ASSUME VmIInv, CloseStart PROVE VmIInv'
<1> USE DEF VmIInv
<1>1. here /\ stage' = "idle" /\ Close(job) /\ UNCHANGED <<file, spare, st, durable, here, job, handle, judge, halted>>
  BY DEF CloseStart
<1>2. /\ machine' \in [Serials -> {"new", "suspended", "running", "ending", "dead"}]
      /\ \A i \in Serials : Alive(i)' => Alive(i)
  BY <1>1, EndsFacts DEF Close, Closed
<1>3. VmTypeOK'
  BY <1>1, <1>2 DEF VmTypeOK
<1>4. AloneOK' /\ StartingOK'
  BY <1>1, <1>2 DEF AloneOK, StartingOK, Names
<1> QED BY <1>3, <1>4

LEMMA CrashKeeps == ASSUME VmIInv, Crash PROVE VmIInv'
<1> USE DEF VmIInv
<1>1. /\ ~here' /\ here' \in BOOLEAN /\ halted' \in BOOLEAN /\ stage' = "idle" /\ Close(job)
      /\ UNCHANGED <<file, spare, st, durable, judge>>
  BY DEF Crash
<1>2. /\ machine' \in [Serials -> {"new", "suspended", "running", "ending", "dead"}]
      /\ \A i \in Serials : Alive(i)' => Alive(i)
  BY <1>1, EndsFacts DEF Close, Closed
<1>3. VmTypeOK'
  BY <1>1, <1>2 DEF VmTypeOK
<1>4. AloneOK' /\ StartingOK'
  BY <1>1, <1>2 DEF AloneOK, StartingOK, Names
<1> QED BY <1>3, <1>4

LEMMA RestartKeeps == ASSUME VmIInv, Restart PROVE VmIInv'
<1> USE DEF VmIInv
<1> DEFINE s == [file EXCEPT !.latched = TRUE, !.approved = FALSE, !.phase = "RECOVERED_INHIBITED",
                             !.epoch = @ + 1]
<1>1. /\ here' /\ here' \in BOOLEAN /\ UNCHANGED <<stage, job, handle, machine, judge, halted>> /\ stage = "idle"
      /\ durable' \in BOOLEAN
      /\ (st' = s /\ file' = s) \/ (st' = Inhibited(s) /\ file' = file)
  BY DEF Restart, VmTypeOK
<1>2. file \in VmStates /\ file.epoch + 1 \in Nat /\ 0 \in Nat /\ 0 \in Serials \cup {0}
  BY DEF VmTypeOK, VmStates
<1>3. s \in VmStates
  <2>1. PICK e \in Nat : e = file.epoch + 1
    BY <1>2
  <2>2. s = [file EXCEPT !.latched = TRUE, !.approved = FALSE, !.phase = "RECOVERED_INHIBITED", !.epoch = e]
    BY <2>1
  <2> QED BY <1>2, <2>2, StateFacts
<1>4. s.latched /\ s.phase = "RECOVERED_INHIBITED" /\ s.identity = file.identity
  BY <1>2 DEF VmStates
<1> HIDE DEF s
<1>5. st' \in VmStates /\ file' \in VmStates /\ st'.latched
      /\ st'.phase # "IDLE" /\ st'.identity = file.identity
      /\ (file'.phase = "IDLE" => file.phase = "IDLE") /\ file'.identity = file.identity
  BY <1>1, <1>2, <1>3, <1>4, InhibitedFacts
<1>6. VmTypeOK'
  BY <1>1, <1>5 DEF VmTypeOK
<1>7. AloneOK'
  BY <1>1, <1>5 DEF AloneOK, Names, Alive
<1>8. StartingOK'
  BY <1>1, <1>5 DEF StartingOK
<1> QED BY <1>6, <1>7, <1>8

LEMMA OutsideKeeps == ASSUME VmIInv, NEW i \in Serials, Ends(i) \/ Judge(i) PROVE VmIInv'
<1> USE DEF VmIInv
<1>1. /\ UNCHANGED <<file, spare, st, durable, stage, here, job, handle, halted>>
      /\ machine' = [machine EXCEPT ![i] = "dead"] \/ machine' = machine
  BY DEF Ends, Judge, control
<1>2. /\ machine' \in [Serials -> {"new", "suspended", "running", "ending", "dead"}]
      /\ \A j \in Serials : Alive(j)' => Alive(j)
  BY <1>1 DEF VmTypeOK, Alive
<1>3. VmTypeOK'
  BY <1>1, <1>2 DEF VmTypeOK
<1>4. AloneOK' /\ StartingOK'
  BY <1>1, <1>2 DEF AloneOK, StartingOK, Names
<1> QED BY <1>3, <1>4

(* What the virtual machine's controller keeps at every step: the machine  *)
(* that lives, if any, is the one that the state names or none is named;   *)
(* a start goes on only from a state that nothing has halted.              *)
THEOREM VmInvariance == VmSpec => []VmIInv
<1>1. ASSUME VmIInv, [VmNext]_vmVars PROVE VmIInv'
  <2>1. CASE UNCHANGED vmVars
    BY <1>1, <2>1 DEF vmVars, control, VmIInv, VmTypeOK, AloneOK, StartingOK, Alive, Names
  <2>2. CASE Approve \/ StartIntent \/ Create \/ Resume \/ UndoStart \/ CloseStart \/ Stop \/ ResetVm
    BY <1>1, <2>2, ApproveKeeps, IntentKeeps, CreateKeeps, ResumeKeeps, UndoKeeps, CloseKeeps, StopKeeps, ResetKeeps
  <2>3. CASE Crash \/ Restart \/ \E i \in Serials : Ends(i) \/ Judge(i)
    BY <1>1, <2>3, CrashKeeps, RestartKeeps, OutsideKeeps
  <2> QED BY <1>1, <2>1, <2>2, <2>3 DEF VmNext
<1> QED BY <1>1, VmStarts, PTL DEF VmSpec

LEMMA RunsNamed ==
  ASSUME VmIInv, VmNext, NEW i \in Serials, machine[i] # "running", machine'[i] = "running"
  PROVE  ~halted /\ ~file.latched /\ file.identity = i
<1>0. machine \in [Serials -> {"new", "suspended", "running", "ending", "dead"}]
  BY DEF VmIInv, VmTypeOK
<1>1. ~(Approve \/ StartIntent \/ UndoStart \/ Restart)
  BY DEF Approve, StartIntent, UndoStart, Restart
<1>2. ~(Create \/ CloseStart \/ Stop \/ Crash)
  BY <1>0 DEF Create, CloseStart, Stop, Crash, Close, Closed
<1>3. ~ResetVm
  BY <1>0 DEF ResetVm, Closed
<1>4. ~\E j \in Serials : Ends(j) \/ Judge(j)
  BY <1>0 DEF Ends, Judge
<1>5. Resume
  BY <1>1, <1>2, <1>3, <1>4 DEF VmNext
<1>6. here /\ stage = "resume" /\ handle = i
  BY <1>0, <1>5 DEF Resume
<1> QED BY <1>6 DEF VmIInv, StartingOK

LEMMA ResetFindsNone ==
  ASSUME VmIInv, VmNext, halted, ~halted' PROVE \A i \in Serials : ~Alive(i)
<1>1. ~(Approve \/ StartIntent \/ Create \/ Resume \/ UndoStart \/ CloseStart \/ Stop \/ Crash \/ Restart)
  BY DEF Approve, StartIntent, Create, Resume, UndoStart, CloseStart, Stop, Crash, Restart
<1>2. ~\E j \in Serials : Ends(j) \/ Judge(j)
  BY DEF Ends, Judge
<1>3. ResetVm
  BY <1>1, <1>2 DEF VmNext
<1>4. here /\ Verified
  BY <1>3 DEF ResetVm, Idle
<1> QED BY <1>4, VerifiedNone

(* Two machines never live at once; one runs only with its identity on     *)
(* disk and nothing halted since the last reset, which found none alive:   *)
(* for any serial numbers, counters and failures of writes and calls.      *)
THEOREM OneMachineLives == VmSpec => OneMachine
<1>1. ASSUME VmIInv PROVE Cardinality({i \in Serials : Alive(i)}) <= 1
  <2>1. CASE {i \in Serials : Alive(i)} = {}
    BY <2>1, FS_EmptySet
  <2>2. CASE {i \in Serials : Alive(i)} # {}
    <3>1. PICK j \in Serials : Alive(j)
      BY <2>2
    <3>2. {i \in Serials : Alive(i)} = {j}
      BY <1>1, <3>1 DEF VmIInv, AloneOK
    <3> QED BY <3>2, FS_Singleton
  <2> QED BY <2>1, <2>2
<1>2. ASSUME VmIInv, [VmNext]_vmVars
      PROVE  [\A i \in Serials : machine[i] # "running" /\ machine'[i] = "running" =>
                ~halted /\ ~file.latched /\ file.identity = i]_vmVars
  BY <1>2, RunsNamed
<1>3. ASSUME VmIInv, [VmNext]_vmVars
      PROVE  [halted /\ ~halted' => \A i \in Serials : ~Alive(i)]_vmVars
  BY <1>3, ResetFindsNone
<1> QED BY <1>1, <1>2, <1>3, VmInvariance, PTL DEF VmSpec, OneMachine

-----------------------------------------------------------------------------
(* A human decides: what is stopped stays so until a reset that has seen   *)
(* it end, and nothing starts that was not approved and asked for since.   *)
THEOREM HumansHaveTheLastWord == OverSpec /\ VmSpec => HumansDecide
BY HumanDecides, OneMachineLives DEF HumansDecide

-----------------------------------------------------------------------------
(* The prepared qualification of the job backend.                          *)
Statuses == {"none", "suspended", "running", "dying", "dead"}
Frames == [kind : {3, 4, 5, 6, 7, 8, 9}, tick : Nat]
Controllers == [at : {"off", "prepare", "ack", "live", "act", "intent", "over"}, live : Nat, durable : BOOLEAN]
Observers == [at : {"off", "identity", "resume", "watch"}, live : Nat, intent : BOOLEAN, completion : Nat,
              failed : BOOLEAN, exit : BOOLEAN]
Supervisors == [at : {"setup", "launch", "resume", "observe", "outer", "terminate", "result"}, outer : BOOLEAN,
                live : Nat, seen : Nat, intervention : Nat, intent : BOOLEAN, completion : Nat, valid : BOOLEAN,
                outcome : {"UNKNOWN", "EARLY", "CONTROL"}, canary : BOOLEAN, failed : BOOLEAN, outerOk : BOOLEAN,
                retained : SUBSET Processes, verified : SUBSET Processes, todo : SUBSET Processes,
                cleaned : BOOLEAN, aborted : BOOLEAN]

JobTypeOK ==
  /\ clock \in Nat /\ proc \in [Processes -> Statuses]
  /\ query \in Seq(Nat) /\ ack \in Seq(Nat) /\ report \in Seq(Frames)
  /\ controller \in Controllers /\ observer \in Observers /\ supervisor \in Supervisors

(* How far the processes are that nothing was heard of.                    *)
RolesOK ==
  /\ proc["observer"] \in {"none", "suspended"} => observer.at = "off"
  /\ proc["controller"] \in {"none", "suspended"} => controller.at = "off"
  /\ controller.at \in {"off", "prepare"} => proc["target"] = "none"
  /\ observer.at \notin {"resume", "watch"} => ack = <<>> /\ proc["target"] # "running"

(* A frame on its way is true of what it tells; and a stop is told of when *)
(* it has been stored.                                                     *)
Stored == controller.at = "over" /\ controller.durable
Elems(s) == {s[i] : i \in 1..Len(s)}
FrameOK(f) ==
  /\ f.tick <= clock
  /\ f.kind = 3 => observer.at = "watch" /\ f.tick = observer.live
  /\ f.kind = 4 => proc["target"] = "dead"
  /\ f.kind \in {6, 9} => Stored
PipesOK ==
  /\ \A k \in Elems(query) : k \in {6, 9} => Stored
  /\ \A f \in Elems(report) : FrameOK(f)

(* What the supervisor has accepted of them.                               *)
AcceptedOK(s) ==
  /\ s.completion \in {6, 9} => Stored
  /\ s.live # Never => observer.at = "watch" /\ observer.live <= s.live /\ s.seen = observer.live
  /\ s.outcome # "UNKNOWN" => s.at \in {"outer", "terminate", "result"} /\ s.live # Never /\ s.canary
  /\ s.outcome = "EARLY" => s.live < s.intervention /\ proc["target"] = "dead" /\ (Human => Stored)
  /\ s.outcome = "CONTROL" => s.seen + Control <= clock
FinishedOK(s) ==
  /\ s.cleaned => s.at = "result" /\ Empty
  /\ s.at = "result" /\ s.outcome # "UNKNOWN" => s.cleaned

JobIInv == JobTypeOK /\ RolesOK /\ PipesOK /\ AcceptedOK(supervisor) /\ FinishedOK(supervisor)

LEMMA ProcessFacts == Processes = {"observer", "canary", "controller", "target"}
BY DEF Processes, InOuter

LEMMA NeverNat == Never \in Nat
BY JobAssumption DEF Never

LEMMA ElemFacts ==
  ASSUME NEW S, NEW s \in Seq(S)
  PROVE  /\ \A e \in S : Append(s, e) \in Seq(S) /\ Elems(Append(s, e)) = Elems(s) \cup {e}
         /\ Elems(s) \subseteq S /\ Elems(<<>>) = {}
         /\ s # <<>> => Tail(s) \in Seq(S) /\ Elems(Tail(s)) \subseteq Elems(s) /\ Head(s) \in Elems(s)
<1>1. ASSUME NEW e \in S PROVE Append(s, e) \in Seq(S) /\ Elems(Append(s, e)) = Elems(s) \cup {e}
  <2>1. /\ Append(s, e) \in Seq(S) /\ Len(Append(s, e)) = Len(s) + 1 /\ Len(s) \in Nat
        /\ \A i \in 1..Len(s) : Append(s, e)[i] = s[i]
        /\ Append(s, e)[Len(s) + 1] = e
    OBVIOUS
  <2>2. 1..(Len(s) + 1) = (1..Len(s)) \cup {Len(s) + 1}
    BY <2>1
  <2> QED BY <2>1, <2>2 DEF Elems
<1>2. Elems(s) \subseteq S /\ Elems(<<>>) = {}
  BY DEF Elems
<1>3. ASSUME s # <<>>
      PROVE  Tail(s) \in Seq(S) /\ Elems(Tail(s)) \subseteq Elems(s) /\ Head(s) \in Elems(s)
  <2>1. /\ Tail(s) \in Seq(S) /\ Len(Tail(s)) = Len(s) - 1 /\ Len(s) \in Nat /\ Len(s) >= 1 /\ Head(s) = s[1]
        /\ \A i \in 1..Len(Tail(s)) : Tail(s)[i] = s[i + 1]
    BY <1>3
  <2>2. \A i \in 1..Len(Tail(s)) : i + 1 \in 1..Len(s)
    BY <2>1
  <2>3. 1 \in 1..Len(s)
    BY <2>1
  <2> QED BY <2>1, <2>2, <2>3 DEF Elems
<1> QED BY <1>1, <1>2, <1>3

LEMMA AppendElems ==
  ASSUME NEW S, NEW s \in Seq(S), NEW e \in S
  PROVE  Append(s, e) \in Seq(S) /\ Elems(Append(s, e)) = Elems(s) \cup {e}
BY ElemFacts

LEMMA AckGrows == ASSUME JobIInv, NEW n \in Nat PROVE ack \in Seq(Nat) /\ Append(ack, n) \in Seq(Nat)
BY AppendElems DEF JobIInv, JobTypeOK

(* A process that is no more than ended, and what is not undone.           *)
Fades ==
  /\ proc' \in [Processes -> Statuses]
  /\ \A p \in Processes : proc'[p] = proc[p] \/ (proc[p] \notin {"none", "dead"} /\ proc'[p] \in {"dying", "dead"})
Forwards ==
  /\ case' = case /\ clock' \in Nat /\ clock <= clock'
  /\ proc["target"] = "dead" => proc'["target"] = "dead"
  /\ observer.at = "watch" => observer'.at = "watch" /\ observer'.live = observer.live
  /\ Stored => Stored'

LEMMA DoomedFacts ==
  ASSUME proc \in [Processes -> Statuses], NEW ps
  PROVE  /\ Doomed(ps) \in [Processes -> Statuses]
         /\ \A p \in Processes : Doomed(ps)[p] = proc[p]
                                 \/ (proc[p] \notin {"none", "dead"} /\ Doomed(ps)[p] \in {"dying", "dead"})
BY DEF Doomed, Lives, Statuses

LEMMA EndedFacts ==
  ASSUME proc \in [Processes -> Statuses], NEW x \in Processes, proc[x] \notin {"none", "dead"}
  PROVE  /\ Ended(x) \in [Processes -> Statuses]
         /\ \A p \in Processes : Ended(x)[p] = proc[p]
                                 \/ (proc[p] \notin {"none", "dead"} /\ Ended(x)[p] \in {"dying", "dead"})
BY DEF Ended, Lives, Statuses

LEMMA RolesFade ==
  ASSUME JobIInv, Fades, controller' = controller, observer' = observer, ack' = ack \/ ack' = <<>>
  PROVE  RolesOK' /\ (proc["target"] = "dead" => proc'["target"] = "dead")
BY ProcessFacts DEF JobIInv, Fades, RolesOK

LEMMA FramesStay == ASSUME Forwards, JobTypeOK, NEW f \in Frames, FrameOK(f) PROVE FrameOK(f)'
<1>1. f.tick \in Nat /\ clock \in Nat /\ clock' \in Nat /\ clock <= clock' /\ f.tick <= clock
  BY DEF Forwards, JobTypeOK, Frames, FrameOK
<1>2. f.tick <= clock' BY <1>1
<1> QED BY <1>2 DEF Forwards, FrameOK

LEMMA PipesStay ==
  ASSUME JobIInv, Forwards, \A k \in Elems(query') : k \in Elems(query) \/ (k \in {6, 9} => Stored'),
         \A f \in Elems(report') : f \in Elems(report) \/ FrameOK(f)'
  PROVE  PipesOK'
<1>1. Elems(report) \subseteq Frames
  BY ElemFacts DEF JobIInv, JobTypeOK
<1>2. ASSUME NEW f \in Elems(report') PROVE FrameOK(f)'
  BY <1>1, <1>2, FramesStay DEF JobIInv, PipesOK
<1>3. ASSUME NEW k \in Elems(query'), k \in {6, 9} PROVE Stored'
  BY <1>3 DEF JobIInv, PipesOK, Forwards
<1> QED BY <1>2, <1>3 DEF PipesOK

(* What was accepted stays true while nothing is undone.                   *)
LEMMA AcceptedStays ==
  ASSUME JobTypeOK, Forwards, NEW s \in Supervisors, AcceptedOK(s) PROVE AcceptedOK(s)'
<1>1. /\ clock \in Nat /\ clock' \in Nat /\ clock <= clock' /\ s.seen \in Nat /\ Control \in Nat
  BY JobAssumption DEF Forwards, JobTypeOK, Supervisors
<1>2. s.outcome = "CONTROL" => s.seen + Control <= clock'
  BY <1>1 DEF AcceptedOK
<1>3. Human' = Human
  BY DEF Human, Forwards
<1>4. Never' = Never
  BY DEF Never
<1>5. s.live # Never => observer'.at = "watch" /\ observer'.live <= s.live /\ s.seen = observer'.live
  BY DEF AcceptedOK, Forwards
<1>6. s.outcome = "EARLY" => s.live < s.intervention /\ proc'["target"] = "dead" /\ (Human => Stored')
  BY DEF AcceptedOK, Forwards
<1>7. s.completion \in {6, 9} => Stored'
  BY DEF AcceptedOK, Forwards
<1>8. s.outcome # "UNKNOWN" => s.at \in {"outer", "terminate", "result"} /\ s.live # Never /\ s.canary
  BY DEF AcceptedOK
<1> QED BY <1>2, <1>3, <1>4, <1>5, <1>6, <1>7, <1>8 DEF AcceptedOK

(* A step that leaves the supervisor alone.                                *)
LEMMA SupervisorRests ==
  ASSUME JobIInv, Forwards, supervisor' = supervisor, supervisor.at # "result", JobTypeOK', RolesOK', PipesOK'
  PROVE  JobIInv'
<1>1. AcceptedOK(supervisor)'
  BY AcceptedStays DEF JobIInv, JobTypeOK
<1>2. FinishedOK(supervisor)'
  BY DEF JobIInv, FinishedOK
<1> QED BY <1>1, <1>2 DEF JobIInv

LEMMA JobStarts == ASSUME JobInit PROVE JobIInv
<1>1. JobTypeOK
  BY NeverNat DEF JobInit, JobTypeOK, Controllers, Observers, Supervisors, Statuses
<1>2. RolesOK
  BY ProcessFacts DEF JobInit, RolesOK
<1>3. PipesOK
  BY DEF JobInit, PipesOK, Elems
<1>4. AcceptedOK(supervisor) /\ FinishedOK(supervisor)
  BY NeverNat DEF JobInit, AcceptedOK, FinishedOK
<1> QED BY <1>1, <1>2, <1>3, <1>4 DEF JobIInv

(* Processes and the clock.                                                *)
LEMMA WorldFades ==
  ASSUME JobIInv, Fades, UNCHANGED <<case, clock, query, ack, report, roles>>, supervisor.at # "result"
  PROVE  JobIInv'
<1>1. JobTypeOK'
  BY DEF JobIInv, JobTypeOK, Fades, roles
<1>2. RolesOK' /\ (proc["target"] = "dead" => proc'["target"] = "dead")
  BY RolesFade DEF roles
<1>3. Forwards
  BY <1>2 DEF Forwards, JobIInv, JobTypeOK, roles, Stored
<1>4. PipesOK'
  BY <1>3, PipesStay
<1> QED BY <1>1, <1>2, <1>3, <1>4, SupervisorRests DEF roles

LEMMA DiesKeeps == ASSUME JobIInv, supervisor.at # "result", NEW p \in Processes, Dies(p) PROVE JobIInv'
<1>1. Fades
  BY EndedFacts DEF Dies, Fades, JobIInv, JobTypeOK
<1> QED BY <1>1, WorldFades DEF Dies

LEMMA EndsKeeps == ASSUME JobIInv, supervisor.at # "result", NEW p \in Processes, EndsItself(p) PROVE JobIInv'
<1>1. Fades
  BY EndedFacts DEF EndsItself, Fades, JobIInv, JobTypeOK
<1> QED BY <1>1, WorldFades DEF EndsItself

LEMMA RoleFailsKeeps == ASSUME JobIInv, supervisor.at # "result", NEW p \in Processes, RoleFails(p) PROVE JobIInv'
<1>1. Fades
  BY DoomedFacts DEF RoleFails, Fades, JobIInv, JobTypeOK
<1> QED BY <1>1, WorldFades DEF RoleFails

LEMMA PassesKeeps == ASSUME JobIInv, supervisor.at # "result", Passes PROVE JobIInv'
<1>1. clock' \in Nat /\ clock <= clock' /\ UNCHANGED <<case, proc, query, ack, report, roles, winFaults>>
  BY DEF Passes, JobIInv, JobTypeOK
<1>2. JobTypeOK' /\ RolesOK'
  BY <1>1 DEF JobIInv, JobTypeOK, RolesOK, roles
<1>3. Forwards
  BY <1>1 DEF Forwards, roles, Stored
<1>4. PipesOK'
  BY <1>1, <1>3, PipesStay
<1> QED BY <1>1, <1>2, <1>3, <1>4, SupervisorRests DEF roles

(* The controller.                                                         *)
LEMMA ControllerWorks ==
  ASSUME JobIInv, supervisor.at # "result", UNCHANGED <<case, clock, report, supervisor, observer>>,
         proc' \in [Processes -> Statuses], query' \in Seq(Nat), ack' \in Seq(Nat), controller' \in Controllers,
         RolesOK', proc["target"] = "dead" => proc'["target"] = "dead", Stored => Stored',
         \A k \in Elems(query') : k \in Elems(query) \/ (k \in {6, 9} => Stored')
  PROVE  JobIInv'
<1>1. JobTypeOK'
  BY DEF JobIInv, JobTypeOK
<1>2. Forwards
  BY DEF Forwards, JobIInv, JobTypeOK
<1>3. PipesOK'
  BY <1>2, PipesStay
<1> QED BY <1>1, <1>2, <1>3, SupervisorRests

LEMMA QueryFacts ==
  ASSUME JobIInv, NEW n \in Nat, query' = Append(query, n) \/ query' = query
  PROVE  query' \in Seq(Nat) /\ \A k \in Elems(query') : k \in Elems(query) \/ k = n
<1>1. query \in Seq(Nat)
  BY DEF JobIInv, JobTypeOK
<1>2. Append(query, n) \in Seq(Nat) /\ Elems(Append(query, n)) = Elems(query) \cup {n}
  BY <1>1, ElemFacts
<1>3. CASE query' = query
  BY <1>1, <1>3 DEF Elems
<1>4. CASE query' = Append(query, n)
  BY <1>2, <1>4 DEF Elems
<1> QED BY <1>3, <1>4

LEMMA AckFacts ==
  ASSUME JobIInv, ack # <<>>
  PROVE  Tail(ack) \in Seq(Nat) /\ observer.at \in {"resume", "watch"}
BY ElemFacts DEF JobIInv, JobTypeOK, RolesOK

LEMMA PrepareKeeps == ASSUME JobIInv, supervisor.at # "result", Prepare PROVE JobIInv'
<1>1. /\ proc["controller"] = "running" /\ controller.at = "prepare" /\ proc["target"] = "none"
      /\ UNCHANGED <<case, clock, ack, report, supervisor, observer, winFaults>>
      /\ query' = Append(query, 1) \/ query' = query
  BY DEF Prepare, Turn, JobIInv, RolesOK
<1>2. /\ proc' \in [Processes -> Statuses]
      /\ proc'["observer"] = proc["observer"] /\ proc'["target"] \in {"dying", "suspended"}
      /\ proc'["controller"] \in {"running", "dying"}
  BY <1>1, ProcessFacts DEF Prepare, JobIInv, JobTypeOK, Statuses
<1>3. controller' \in Controllers /\ controller'.at \in {"ack", "over"}
  BY DEF Prepare, JobIInv, JobTypeOK, Controllers
<1>4. RolesOK'
  BY <1>1, <1>2, <1>3 DEF JobIInv, RolesOK
<1>5. ~Stored
  BY <1>1 DEF Stored
<1>6. query' \in Seq(Nat) /\ \A k \in Elems(query') : k \in Elems(query) \/ k = 1
  BY <1>1, QueryFacts
<1> QED BY <1>1, <1>2, <1>3, <1>4, <1>5, <1>6, ControllerWorks DEF JobIInv, JobTypeOK

LEMMA ResumeTargetKeeps == ASSUME JobIInv, supervisor.at # "result", ResumeTarget PROVE JobIInv'
<1>1. /\ proc["controller"] = "running" /\ controller.at = "ack" /\ ack # <<>> /\ ack' = Tail(ack)
      /\ UNCHANGED <<case, clock, report, supervisor, observer, winFaults>>
      /\ query' = Append(query, 2) \/ query' = query
  BY DEF ResumeTarget, Turn
<1>2. /\ proc' \in [Processes -> Statuses] /\ (proc["target"] = "dead" => proc'["target"] = "dead")
      /\ proc'["observer"] = proc["observer"] /\ proc'["controller"] \in {"running", "dying", "dead"}
  BY <1>1, ProcessFacts, DoomedFacts DEF ResumeTarget, JobIInv, JobTypeOK, Statuses, Doomed
<1>3. controller' \in Controllers /\ controller'.at \in {"live", "over"}
  BY DEF ResumeTarget, JobIInv, JobTypeOK, Controllers
<1>4. RolesOK'
  BY <1>1, <1>2, <1>3, AckFacts DEF JobIInv, RolesOK
<1>5. ~Stored
  BY <1>1 DEF Stored
<1>6. query' \in Seq(Nat) /\ \A k \in Elems(query') : k \in Elems(query) \/ k = 2
  BY <1>1, QueryFacts
<1> QED BY <1>1, <1>2, <1>3, <1>4, <1>5, <1>6, AckFacts, ControllerWorks

LEMMA SeenLiveKeeps == ASSUME JobIInv, supervisor.at # "result", SeenLive PROVE JobIInv'
<1>1. /\ controller.at = "live" /\ ack # <<>> /\ ack' = Tail(ack)
      /\ UNCHANGED <<case, clock, proc, query, report, supervisor, observer, winFaults>>
  BY DEF SeenLive, Turn
<1>3. controller' \in Controllers /\ controller'.at \in {"act", "over"}
  BY DEF SeenLive, JobIInv, JobTypeOK, Controllers
<1>4. RolesOK'
  BY <1>1, <1>3, AckFacts DEF JobIInv, RolesOK
<1>5. ~Stored
  BY <1>1 DEF Stored
<1> QED BY <1>1, <1>3, <1>4, <1>5, AckFacts, ControllerWorks DEF JobIInv, JobTypeOK

LEMMA IntendKeeps == ASSUME JobIInv, supervisor.at # "result", Intend PROVE JobIInv'
<1>1. /\ controller.at = "act" /\ query' = Append(query, 5)
      /\ UNCHANGED <<case, clock, proc, ack, report, supervisor, observer, winFaults>>
  BY DEF Intend, Turn
<1>3. controller' \in Controllers /\ controller'.at = "intent"
  BY DEF Intend, JobIInv, JobTypeOK, Controllers
<1>4. RolesOK'
  BY <1>1, <1>3 DEF JobIInv, RolesOK
<1>5. ~Stored
  BY <1>1 DEF Stored
<1>6. query' \in Seq(Nat) /\ \A k \in Elems(query') : k \in Elems(query) \/ k = 5
  BY <1>1, QueryFacts
<1> QED BY <1>1, <1>3, <1>4, <1>5, <1>6, ControllerWorks DEF JobIInv, JobTypeOK

LEMMA StopTargetKeeps == ASSUME JobIInv, supervisor.at # "result", StopTarget PROVE JobIInv'
<1>1. /\ proc["controller"] = "running" /\ controller.at = "intent" /\ ack # <<>> /\ ack' = Tail(ack)
      /\ UNCHANGED <<case, clock, report, supervisor, observer, winFaults>> /\ proc' = Doomed({"target"})
  BY DEF StopTarget, Turn
<1>2. /\ controller' \in Controllers /\ controller'.at = "over"
      /\ \E n \in {6, 8, 9} : query' = Append(query, n) /\ (n # 8 => controller'.durable)
  BY DEF StopTarget, JobIInv, JobTypeOK, Controllers
<1>3. Fades
  BY <1>1, DoomedFacts DEF Fades, JobIInv, JobTypeOK
<1>4. /\ proc' \in [Processes -> Statuses] /\ (proc["target"] = "dead" => proc'["target"] = "dead")
      /\ proc'["observer"] = proc["observer"] /\ proc'["controller"] = "running"
  BY <1>1, <1>3, ProcessFacts DEF Fades, Doomed
<1>5. RolesOK'
  BY <1>1, <1>2, <1>4, AckFacts DEF JobIInv, RolesOK
<1>6. ~Stored
  BY <1>1 DEF Stored
<1>7. PICK n \in {6, 8, 9} : query' = Append(query, n) /\ (n # 8 => controller'.durable)
  BY <1>2
<1>8. query' \in Seq(Nat) /\ \A k \in Elems(query') : k \in Elems(query) \/ k = n
  BY <1>7, QueryFacts
<1>9. \A k \in Elems(query') : k \in Elems(query) \/ (k \in {6, 9} => Stored')
  BY <1>2, <1>7, <1>8 DEF Stored
<1> QED BY <1>1, <1>2, <1>4, <1>5, <1>6, <1>8, <1>9, AckFacts, ControllerWorks

LEMMA GarbageKeeps == ASSUME JobIInv, supervisor.at # "result", Garbage PROVE JobIInv'
<1>1. query' = Append(query, 0) /\ UNCHANGED <<case, clock, proc, ack, report, supervisor, controller, observer>>
  BY DEF Garbage, roles
<1>2. query' \in Seq(Nat) /\ \A k \in Elems(query') : k \in Elems(query) \/ k = 0
  BY <1>1, QueryFacts
<1>3. RolesOK' /\ (Stored => Stored')
  BY <1>1 DEF JobIInv, RolesOK, Stored
<1> QED BY <1>1, <1>2, <1>3, ControllerWorks DEF JobIInv, JobTypeOK

(* The observer.                                                           *)
LEMMA ObserverWorks ==
  ASSUME JobIInv, supervisor.at # "result", UNCHANGED <<case, clock, supervisor, controller>>, Fades,
         query' = query \/ (query # <<>> /\ query' = Tail(query)), ack' \in Seq(Nat), report' \in Seq(Frames),
         observer' \in Observers, proc["observer"] = "running", observer.at \in {"identity", "resume", "watch"},
         observer'.at \in {"resume", "watch"} \/ UNCHANGED <<observer, ack>>,
         observer.at = "watch" => observer'.at = "watch" /\ observer'.live = observer.live,
         \A f \in Elems(report') : f \in Elems(report) \/ FrameOK(f)'
  PROVE  JobIInv'
<1>1. query' \in Seq(Nat) /\ Elems(query') \subseteq Elems(query)
  <2>1. query \in Seq(Nat)
    BY DEF JobIInv, JobTypeOK
  <2>2. query # <<>> => Tail(query) \in Seq(Nat) /\ Elems(Tail(query)) \subseteq Elems(query)
    BY <2>1, ElemFacts
  <2>3. CASE query' = query
    BY <2>1, <2>3 DEF Elems
  <2>4. CASE query # <<>> /\ query' = Tail(query)
    BY <2>2, <2>4 DEF Elems
  <2> QED BY <2>3, <2>4
<1>2. JobTypeOK'
  BY <1>1 DEF JobIInv, JobTypeOK, Fades
<1>3. RolesOK' /\ (proc["target"] = "dead" => proc'["target"] = "dead")
  BY ProcessFacts DEF JobIInv, RolesOK, Fades
<1>4. Forwards
  BY <1>3 DEF Forwards, Stored, JobIInv, JobTypeOK
<1>5. PipesOK'
  BY <1>1, <1>4, PipesStay
<1> QED BY <1>2, <1>3, <1>4, <1>5, SupervisorRests

LEMMA FadesAlone == ASSUME JobIInv, proc' = proc \/ \E ps : proc' = Doomed(ps) PROVE Fades
BY DoomedFacts DEF Fades, JobIInv, JobTypeOK

(* The frame of an observation, and a report with it.                      *)
LEMMA FrameFacts ==
  ASSUME JobIInv, NEW k \in {3, 4, 5, 6, 7, 8, 9}
  PROVE  /\ Frame(k) \in Frames /\ Frame(k).kind = k /\ Frame(k).tick <= clock
         /\ k = 3 => Frame(k).tick = clock
BY DEF JobIInv, JobTypeOK, Frame, Frames

LEMMA ReportFacts ==
  ASSUME JobIInv, NEW f \in Frames
  PROVE  /\ report \in Seq(Frames) /\ Append(report, f) \in Seq(Frames)
         /\ \A e \in Elems(Append(report, f)) : e \in Elems(report) \/ e = f
BY ElemFacts DEF JobIInv, JobTypeOK

LEMMA ObserverEnds ==
  ASSUME JobIInv, supervisor.at # "result", UNCHANGED <<case, clock, supervisor, controller>>, ObserverGone,
         query # <<>>, query' = Tail(query), proc["observer"] = "running",
         observer.at \in {"identity", "resume", "watch"}
  PROVE  JobIInv'
<1>1. Fades
  BY FadesAlone DEF ObserverGone
<1>2. observer' = observer /\ ack' = ack /\ report' = report /\ ack' \in Seq(Nat) /\ report' \in Seq(Frames)
      /\ observer' \in Observers
  BY DEF ObserverGone, JobIInv, JobTypeOK
<1>3. Elems(report') = Elems(report)
  BY <1>2 DEF Elems
<1> QED BY <1>1, <1>2, <1>3, ObserverWorks

LEMMA BindKeeps == ASSUME JobIInv, supervisor.at # "result", Bind1 PROVE JobIInv'
<1>1. /\ proc["observer"] = "running" /\ observer.at = "identity" /\ query # <<>> /\ query' = Tail(query)
      /\ UNCHANGED <<case, clock, supervisor, controller, winFaults>>
  BY DEF Bind1, Watching
<1>2. CASE ObserverGone
  BY <1>1, <1>2, ObserverEnds
<1>3. CASE ack' = Append(ack, 2) /\ observer' = [observer EXCEPT !.at = "resume"] /\ UNCHANGED <<proc, report>>
  <2>1. observer' \in Observers /\ observer'.at = "resume" /\ ack' \in Seq(Nat) /\ report' \in Seq(Frames)
    BY <1>3, AckGrows DEF JobIInv, JobTypeOK, Observers
  <2>2. Elems(report') = Elems(report) /\ Fades
    BY <1>3, FadesAlone DEF Elems
  <2> QED BY <1>1, <2>1, <2>2, ObserverWorks
<1> QED BY <1>2, <1>3 DEF Bind1

LEMMA SeeRunningKeeps == ASSUME JobIInv, supervisor.at # "result", SeeRunning PROVE JobIInv'
<1>1. /\ proc["observer"] = "running" /\ observer.at = "resume" /\ query # <<>> /\ query' = Tail(query)
      /\ UNCHANGED <<case, clock, supervisor, controller, winFaults>>
  BY DEF SeeRunning, Watching
<1>2. CASE ObserverGone
  BY <1>1, <1>2, ObserverEnds
<1>3. CASE /\ report' = Append(report, Frame(3)) /\ ack' = Append(ack, 3)
           /\ observer' = [observer EXCEPT !.at = "watch", !.live = clock] /\ UNCHANGED proc
  <2>1. observer' \in Observers /\ observer'.at = "watch" /\ observer'.live = clock /\ ack' \in Seq(Nat)
    BY <1>3, AckGrows DEF JobIInv, JobTypeOK, Observers
  <2>2. report' \in Seq(Frames) /\ \A f \in Elems(report') : f \in Elems(report) \/ f = Frame(3)
    BY <1>3, FrameFacts, ReportFacts
  <2>3. Frame(3).kind = 3 /\ Frame(3).tick = clock /\ clock' = clock /\ Frame(3).tick <= clock
    BY <1>1, FrameFacts
  <2>4. ASSUME NEW f \in Elems(report'), f = Frame(3) PROVE FrameOK(f)'
    BY <2>1, <2>3, <2>4 DEF FrameOK
  <2>5. Fades
    BY <1>3, FadesAlone
  <2> QED BY <1>1, <2>1, <2>2, <2>4, <2>5, ObserverWorks
<1> QED BY <1>2, <1>3 DEF SeeRunning

(* A watching observer that reports.                                       *)
LEMMA WatchWorks ==
  ASSUME JobIInv, supervisor.at # "result", UNCHANGED <<case, clock, supervisor, controller, proc>>,
         query' = query \/ (query # <<>> /\ query' = Tail(query)), ack' = ack \/ ack' = Append(ack, 5),
         observer' \in Observers, proc["observer"] = "running", observer.at = "watch", observer'.at = "watch",
         observer'.live = observer.live, NEW f \in Frames, report' = Append(report, f), FrameOK(f), f.kind # 3
  PROVE  JobIInv'
<1>1. report' \in Seq(Frames) /\ \A e \in Elems(report') : e \in Elems(report) \/ e = f
  BY ReportFacts
<1>2. ack' \in Seq(Nat) /\ Fades
  BY AckGrows, FadesAlone
<1>3. FrameOK(f)'
  BY DEF FrameOK, Stored
<1> QED BY <1>1, <1>2, <1>3, ObserverWorks

LEMMA RelayKeeps == ASSUME JobIInv, supervisor.at # "result", Relay PROVE JobIInv'
<1>1. /\ proc["observer"] = "running" /\ observer.at = "watch" /\ query # <<>> /\ query' = Tail(query)
      /\ UNCHANGED <<case, clock, proc, supervisor, controller, winFaults>>
  BY DEF Relay, Watching
<1>2. Head(query) \in Elems(query) /\ observer \in Observers /\ Head(query) \in Nat
  BY <1>1, ElemFacts DEF JobIInv, JobTypeOK
<1>3. CASE /\ report' = report \o <<Frame(5), Frame(8)>> /\ UNCHANGED ack
           /\ observer' = [observer EXCEPT !.intent = TRUE, !.failed = TRUE]
  <2>1. observer' \in Observers /\ observer'.at = "watch" /\ observer'.live = observer.live
    BY <1>1, <1>2, <1>3 DEF Observers
  <2>2. Frame(5) \in Frames /\ Frame(8) \in Frames /\ report \in Seq(Frames)
    BY FrameFacts DEF JobIInv, JobTypeOK
  <2>3. report' = Append(Append(report, Frame(5)), Frame(8))
    BY <1>3, <2>2
  <2>4. report' \in Seq(Frames) /\ Elems(report') = Elems(report) \cup {Frame(5), Frame(8)}
    <3>1. Append(report, Frame(5)) \in Seq(Frames) /\ Elems(Append(report, Frame(5))) = Elems(report) \cup {Frame(5)}
      BY <2>2, AppendElems
    <3>2. PICK r \in Seq(Frames) : r = Append(report, Frame(5))
      BY <3>1
    <3>3. Append(r, Frame(8)) \in Seq(Frames) /\ Elems(Append(r, Frame(8))) = Elems(r) \cup {Frame(8)}
      BY <2>2, AppendElems
    <3>4. report' = Append(r, Frame(8)) /\ Elems(r) = Elems(Append(report, Frame(5)))
      BY <2>3, <3>2 DEF Elems
    <3>5. Elems(report') = Elems(Append(r, Frame(8)))
      BY <3>4 DEF Elems
    <3> QED BY <3>1, <3>3, <3>4, <3>5
  <2>5. ASSUME NEW f \in {Frame(5), Frame(8)} PROVE FrameOK(f)'
    BY <1>1, FrameFacts DEF FrameOK
  <2>6. ack' \in Seq(Nat) /\ Fades
    BY <1>1, <1>3, FadesAlone DEF JobIInv, JobTypeOK
  <2> QED BY <1>1, <2>1, <2>4, <2>5, <2>6, ObserverWorks
<1>4. CASE /\ report' = Append(report, Frame(5)) /\ ack' = Append(ack, 5)
           /\ observer' = [observer EXCEPT !.intent = TRUE]
  <2>1. observer' \in Observers /\ observer'.at = "watch" /\ observer'.live = observer.live
    BY <1>1, <1>2, <1>4 DEF Observers
  <2>2. Frame(5) \in Frames /\ FrameOK(Frame(5)) /\ Frame(5).kind # 3
    BY FrameFacts DEF FrameOK
  <2> QED BY <1>1, <1>4, <2>1, <2>2, WatchWorks
<1>5. CASE /\ UNCHANGED ack /\ Head(query) \in {6, 8, 9} /\ report' = Append(report, Frame(Head(query)))
           /\ observer' = [observer EXCEPT !.completion = Head(query)]
  <2>1. observer' \in Observers /\ observer'.at = "watch" /\ observer'.live = observer.live
    BY <1>1, <1>2, <1>5 DEF Observers
  <2>2. Frame(Head(query)) \in Frames /\ FrameOK(Frame(Head(query))) /\ Frame(Head(query)).kind # 3
    BY <1>2, <1>5, FrameFacts DEF FrameOK, JobIInv, PipesOK
  <2> QED BY <1>1, <1>5, <2>1, <2>2, WatchWorks
<1>6. CASE UNCHANGED ack /\ report' = Append(report, Frame(8)) /\ observer' = [observer EXCEPT !.failed = TRUE]
  <2>1. observer' \in Observers /\ observer'.at = "watch" /\ observer'.live = observer.live
    BY <1>1, <1>2, <1>6 DEF Observers
  <2>2. Frame(8) \in Frames /\ FrameOK(Frame(8)) /\ Frame(8).kind # 3
    BY FrameFacts DEF FrameOK
  <2> QED BY <1>1, <1>6, <2>1, <2>2, WatchWorks
<1> QED BY <1>3, <1>4, <1>5, <1>6 DEF Relay

LEMMA SeeExitKeeps == ASSUME JobIInv, supervisor.at # "result", SeeExit PROVE JobIInv'
<1>1. /\ proc["observer"] = "running" /\ observer.at = "watch" /\ proc["target"] = "dead"
      /\ report' = Append(report, Frame(4)) /\ observer' = [observer EXCEPT !.exit = TRUE]
      /\ UNCHANGED <<case, clock, proc, query, ack, supervisor, controller, winFaults>>
  BY DEF SeeExit, Watching
<1>2. observer' \in Observers /\ observer'.at = "watch" /\ observer'.live = observer.live
  BY <1>1 DEF JobIInv, JobTypeOK, Observers
<1>3. Frame(4) \in Frames /\ FrameOK(Frame(4)) /\ Frame(4).kind # 3
  BY <1>1, FrameFacts DEF FrameOK
<1> QED BY <1>1, <1>2, <1>3, WatchWorks

LEMMA SeeControlKeeps == ASSUME JobIInv, supervisor.at # "result", SeeControl PROVE JobIInv'
<1>1. /\ proc["observer"] = "running" /\ observer.at = "watch"
      /\ report' = Append(report, Frame(7)) /\ observer' = [observer EXCEPT !.exit = TRUE]
      /\ UNCHANGED <<case, clock, proc, query, ack, supervisor, controller, winFaults>>
  BY DEF SeeControl, Watching
<1>2. observer' \in Observers /\ observer'.at = "watch" /\ observer'.live = observer.live
  BY <1>1 DEF JobIInv, JobTypeOK, Observers
<1>3. Frame(7) \in Frames /\ FrameOK(Frame(7)) /\ Frame(7).kind # 3
  BY <1>1, FrameFacts DEF FrameOK
<1> QED BY <1>1, <1>2, <1>3, WatchWorks

(* The supervisor.                                                         *)
LEMMA SupervisorWorks ==
  ASSUME JobIInv, Forwards, JobTypeOK', RolesOK', PipesOK', NEW s \in Supervisors, supervisor' = s, AcceptedOK(s),
         FinishedOK(s)'
  PROVE  JobIInv'
<1>1. AcceptedOK(s)'
  BY AcceptedStays DEF JobIInv
<1>2. AcceptedOK(supervisor)'
  BY <1>1 DEF AcceptedOK
<1>3. FinishedOK(supervisor)'
  BY DEF FinishedOK
<1> QED BY <1>2, <1>3 DEF JobIInv

(* A supervisor that knows no more, and decides no more, than before.      *)
Knows(s, t) ==
  /\ s.live = t.live /\ s.seen = t.seen /\ s.intervention = t.intervention /\ s.completion = t.completion
  /\ s.canary = t.canary /\ s.outcome \in {"UNKNOWN", t.outcome} /\ s.cleaned = t.cleaned
LEMMA KnowsFacts ==
  ASSUME NEW s, NEW t, Knows(s, t), AcceptedOK(t),
         s.outcome # "UNKNOWN" => s.at \in {"outer", "terminate", "result"}
  PROVE  AcceptedOK(s)
BY DEF Knows, AcceptedOK

LEMMA SupervisorIdles ==
  ASSUME JobIInv, UNCHANGED <<case, clock, query, ack, report, controller, observer>>, Fades,
         NEW s \in Supervisors, supervisor' = s, AcceptedOK(s), FinishedOK(s)'
  PROVE  JobIInv'
<1>1. JobTypeOK'
  BY DEF JobIInv, JobTypeOK, Fades
<1>2. RolesOK' /\ (proc["target"] = "dead" => proc'["target"] = "dead")
  BY RolesFade
<1>3. Forwards
  BY <1>2 DEF Forwards, JobIInv, JobTypeOK, Stored
<1>4. PipesOK'
  BY <1>3, PipesStay DEF Elems
<1> QED BY <1>1, <1>2, <1>3, <1>4, SupervisorWorks

(* Nothing that has begun to end is cleaned yet.                           *)
LEMMA NotCleaned == ASSUME JobIInv, supervisor.at # "result" PROVE ~supervisor.cleaned
BY DEF JobIInv, FinishedOK, JobTypeOK, Supervisors

LEMMA NotDecided ==
  ASSUME JobIInv, supervisor.at \notin {"outer", "terminate", "result"} PROVE supervisor.outcome = "UNKNOWN"
BY DEF JobIInv, AcceptedOK

LEMMA SetupKeeps == ASSUME JobIInv, supervisor.at # "result", Setup PROVE JobIInv'
<1>1. supervisor.at = "setup" /\ UNCHANGED <<case, clock, proc, query, ack, report, controller, observer>>
  BY DEF Setup
<1>2. PICK a \in {"launch", "outer"}, o \in BOOLEAN : supervisor' = [supervisor EXCEPT !.at = a, !.outer = o]
  <2>1. CASE supervisor' = [supervisor EXCEPT !.at = "launch", !.outer = TRUE]
    BY <2>1
  <2>2. CASE supervisor' = [supervisor EXCEPT !.at = "outer"]
    <3>1. [supervisor EXCEPT !.at = "outer"] = [supervisor EXCEPT !.at = "outer", !.outer = supervisor.outer]
      BY DEF JobIInv, JobTypeOK, Supervisors
    <3>2. supervisor.outer \in BOOLEAN
      BY DEF JobIInv, JobTypeOK, Supervisors
    <3> QED BY <2>2, <3>1, <3>2
  <2> QED BY <2>1, <2>2 DEF Setup
<1>3. /\ supervisor' \in Supervisors /\ Knows(supervisor', supervisor)
      /\ supervisor'.at \in {"launch", "outer"}
  BY <1>2 DEF JobIInv, JobTypeOK, Supervisors, Knows
<1>4. PICK s \in Supervisors : s = supervisor'
  BY <1>3
<1>5. AcceptedOK(s) /\ FinishedOK(s)'
  BY <1>1, <1>3, <1>4, KnowsFacts, NotDecided, NotCleaned DEF Knows, FinishedOK, JobIInv
<1>6. Fades
  BY <1>1, FadesAlone
<1> QED BY <1>1, <1>4, <1>5, <1>6, SupervisorIdles

LEMMA NextRoleFacts ==
  ASSUME NEW x, NEW p \in Processes, NextRole(x, p)
  PROVE  p \in {"observer", "canary", "controller"} /\ proc[p] = x
BY DEF NextRole, Created

LEMMA LaunchKeeps == ASSUME JobIInv, supervisor.at # "result", Launch PROVE JobIInv'
<1>1. PICK p \in Processes :
        /\ NextRole("none", p)
        /\ \/ /\ proc' = [proc EXCEPT ![p] = "suspended"]
              /\ supervisor' = [supervisor EXCEPT !.retained = @ \cup {p}, !.verified = @ \cup {p},
                   !.at = IF clock >= Deadline - 1 THEN "outer" ELSE IF p = "controller" THEN "resume" ELSE @]
           \/ supervisor' = [supervisor EXCEPT !.at = "outer"] /\ UNCHANGED proc
           \/ /\ supervisor' = [supervisor EXCEPT !.at = "outer", !.retained = @ \cup {p}]
              /\ proc' = [proc EXCEPT ![p] = "suspended"]
  BY DEF Launch
<1>2. supervisor.at = "launch" /\ UNCHANGED <<case, clock, query, ack, report, controller, observer>>
  BY DEF Launch
<1>3. /\ supervisor' \in Supervisors /\ Knows(supervisor', supervisor)
      /\ supervisor'.at \in {"launch", "resume", "outer"}
  <2>0. supervisor \in Supervisors /\ {p} \subseteq Processes
    BY DEF JobIInv, JobTypeOK
  <2>1. CASE supervisor' = [supervisor EXCEPT !.retained = @ \cup {p}, !.verified = @ \cup {p},
               !.at = IF clock >= Deadline - 1 THEN "outer" ELSE IF p = "controller" THEN "resume" ELSE @]
    <3>1. PICK a \in {"launch", "resume", "outer"} :
            a = IF clock >= Deadline - 1 THEN "outer" ELSE IF p = "controller" THEN "resume" ELSE supervisor.at
      BY <1>2
    <3>2. supervisor' = [supervisor EXCEPT !.retained = @ \cup {p}, !.verified = @ \cup {p}, !.at = a]
      BY <2>1, <3>1
    <3> QED BY <2>0, <3>2 DEF Supervisors, Knows
  <2>2. CASE supervisor' = [supervisor EXCEPT !.at = "outer"]
    BY <2>0, <2>2 DEF Supervisors, Knows
  <2>3. CASE supervisor' = [supervisor EXCEPT !.at = "outer", !.retained = @ \cup {p}]
    BY <2>0, <2>3 DEF Supervisors, Knows
  <2> QED BY <1>1, <2>1, <2>2, <2>3
<1>4. p \in {"observer", "canary", "controller"} /\ proc[p] = "none"
  BY <1>1, NextRoleFacts
<1>5. proc' = proc \/ proc' = [proc EXCEPT ![p] = "suspended"]
  BY <1>1
<1>6. JobTypeOK' /\ RolesOK' /\ proc'["target"] = proc["target"]
  BY <1>2, <1>3, <1>4, <1>5, ProcessFacts DEF JobIInv, JobTypeOK, RolesOK, Statuses
<1>7. Forwards
  BY <1>2, <1>6 DEF Forwards, JobIInv, JobTypeOK, Stored
<1>8. PipesOK'
  BY <1>2, <1>7, PipesStay DEF Elems
<1>9. PICK s \in Supervisors : s = supervisor'
  BY <1>3
<1>10. AcceptedOK(s) /\ FinishedOK(s)'
  BY <1>2, <1>3, <1>9, KnowsFacts, NotDecided, NotCleaned DEF Knows, FinishedOK, JobIInv
<1> QED BY <1>6, <1>7, <1>8, <1>9, <1>10, SupervisorWorks

LEMMA ResumeRoleKeeps == ASSUME JobIInv, supervisor.at # "result", ResumeRole PROVE JobIInv'
<1>1. PICK p \in Processes :
        /\ NextRole("suspended", p)
        /\ \/ /\ proc' = [proc EXCEPT ![p] = "running"]
              /\ supervisor' = [supervisor EXCEPT !.at = IF p = "controller" THEN "observe" ELSE @]
              /\ controller' = IF p = "controller" THEN [controller EXCEPT !.at = "prepare"] ELSE controller
              /\ observer' = IF p = "observer" THEN [observer EXCEPT !.at = "identity"] ELSE observer
           \/ /\ supervisor' = [supervisor EXCEPT !.at = "outer", !.verified = @ \ {p}]
              /\ UNCHANGED <<proc, controller, observer>>
  BY DEF ResumeRole
<1>2. supervisor.at = "resume" /\ UNCHANGED <<case, clock, query, ack, report>>
  BY DEF ResumeRole
<1>3. /\ supervisor' \in Supervisors /\ Knows(supervisor', supervisor)
      /\ supervisor'.at \in {"resume", "observe", "outer"}
  BY <1>1, <1>2 DEF JobIInv, JobTypeOK, Supervisors, Knows
<1>4. p \in {"observer", "canary", "controller"} /\ proc[p] = "suspended"
  BY <1>1, NextRoleFacts
<1>5. /\ p = "controller" => controller.at = "off" /\ proc["target"] = "none"
      /\ p = "observer" => observer.at = "off" /\ ack = <<>> /\ proc["target"] # "running"
  BY <1>4 DEF JobIInv, RolesOK
<1>6. /\ controller' \in Controllers /\ observer' \in Observers
      /\ controller' = controller \/ (p = "controller" /\ controller'.at = "prepare" /\ proc'[p] = "running")
      /\ observer' = observer \/ (p = "observer" /\ observer'.at = "identity" /\ proc'[p] = "running")
  <2>0. controller \in Controllers /\ observer \in Observers /\ proc \in [Processes -> Statuses]
    BY DEF JobIInv, JobTypeOK
  <2>1. /\ [controller EXCEPT !.at = "prepare"] \in Controllers /\ [observer EXCEPT !.at = "identity"] \in Observers
        /\ [controller EXCEPT !.at = "prepare"].at = "prepare" /\ [observer EXCEPT !.at = "identity"].at = "identity"
        /\ [proc EXCEPT ![p] = "running"][p] = "running"
    BY <2>0 DEF Controllers, Observers
  <2> QED BY <1>1, <2>0, <2>1
<1>7. \/ proc' = proc /\ controller' = controller /\ observer' = observer
      \/ proc' = [proc EXCEPT ![p] = "running"]
  BY <1>1
<1>8. JobTypeOK' /\ proc'["target"] = proc["target"]
  BY <1>2, <1>3, <1>4, <1>6, <1>7, ProcessFacts DEF JobIInv, JobTypeOK, Statuses
<1>9. \A x \in Processes : proc'[x] = proc[x] \/ (x = p /\ proc'[x] = "running")
  BY <1>7 DEF JobIInv, JobTypeOK
<1>10. RolesOK'
  BY <1>2, <1>4, <1>5, <1>6, <1>8, <1>9, ProcessFacts DEF JobIInv, RolesOK
<1>11. Forwards
  BY <1>2, <1>5, <1>6, <1>8 DEF Forwards, JobIInv, JobTypeOK, Stored
<1>12. PipesOK'
  BY <1>2, <1>11, PipesStay DEF Elems
<1>13. PICK s \in Supervisors : s = supervisor'
  BY <1>3
<1>14. AcceptedOK(s) /\ FinishedOK(s)'
  BY <1>2, <1>3, <1>13, KnowsFacts, NotDecided, NotCleaned DEF Knows, FinishedOK, JobIInv
<1> QED BY <1>8, <1>10, <1>11, <1>12, <1>13, <1>14, SupervisorWorks

(* accept_frame: what a frame, true of what it tells, makes it accept.     *)
Heard(s) == s \in Supervisors /\ AcceptedOK(s) /\ s.at \in {"observe", "outer"} /\ ~s.cleaned

LEMMA RefusedHeard == ASSUME NEW t, Heard(t) PROVE Heard(Refused(t))
BY DEF Heard, Refused, Supervisors, AcceptedOK

LEMMA SeenHeard ==
  ASSUME JobTypeOK, NEW t, Heard(t), t.outcome = "UNKNOWN", NEW f \in Frames, FrameOK(f), f.kind = 3
  PROVE  Heard([t EXCEPT !.live = clock, !.seen = f.tick])
<1>1. /\ t \in Supervisors /\ clock \in Nat /\ f.tick \in Nat /\ f.tick <= clock
      /\ observer.at = "watch" /\ f.tick = observer.live
  BY DEF Heard, JobTypeOK, Frames, FrameOK
<1>2. PICK c \in Nat, k \in Nat : c = clock /\ k = f.tick
  BY <1>1
<1>3. PICK s \in Supervisors : s = [t EXCEPT !.live = c, !.seen = k]
  BY <1>1 DEF Supervisors
<1>4. /\ s.live = clock /\ s.seen = f.tick /\ s.outcome = "UNKNOWN" /\ s.completion = t.completion /\ s.at = t.at
      /\ s.cleaned = t.cleaned
  BY <1>1, <1>2, <1>3 DEF Supervisors
<1>5. AcceptedOK(s)
  BY <1>1, <1>4 DEF AcceptedOK, Heard
<1>6. Heard(s)
  BY <1>4, <1>5 DEF Heard
<1> QED BY <1>2, <1>3, <1>6

LEMMA FailureHeard == ASSUME NEW t, Heard(t) PROVE Heard([t EXCEPT !.valid = FALSE])
BY DEF Heard, Supervisors, AcceptedOK

LEMMA IntentHeard ==
  ASSUME JobTypeOK, NEW t, Heard(t), t.outcome = "UNKNOWN"
  PROVE  Heard([t EXCEPT !.intent = TRUE, !.intervention = clock])
BY DEF JobTypeOK, Heard, Supervisors, AcceptedOK

LEMMA CompletionHeard ==
  ASSUME NEW t, Heard(t), NEW k \in Nat, Stored PROVE Heard([t EXCEPT !.completion = k])
BY DEF Heard, Supervisors, AcceptedOK

(* The two verdicts.                                                       *)
LEMMA OutcomeHeard ==
  ASSUME JobTypeOK, NEW t, Heard(t), t.live # Never, NEW b \in BOOLEAN, NEW o \in {"UNKNOWN", "EARLY", "CONTROL"},
         o # "UNKNOWN" => b,
         o = "EARLY" => t.live < t.intervention /\ proc["target"] = "dead" /\ (Human => Stored),
         o = "CONTROL" => t.seen + Control <= clock
  PROVE  Heard([t EXCEPT !.at = "outer", !.canary = b, !.outcome = o])
<1>1. PICK s \in Supervisors : s = [t EXCEPT !.at = "outer", !.canary = b, !.outcome = o]
  BY DEF Heard, Supervisors
<1>2. /\ s.at = "outer" /\ s.canary = b /\ s.outcome = o /\ s.live = t.live /\ s.seen = t.seen
      /\ s.intervention = t.intervention /\ s.completion = t.completion /\ s.cleaned = t.cleaned
  BY <1>1 DEF Heard, Supervisors
<1>3. AcceptedOK(s)
  BY <1>2 DEF Heard, AcceptedOK
<1> QED BY <1>1, <1>2, <1>3 DEF Heard

LEMMA LivesOrNot == ASSUME NEW p PROVE \E b \in BOOLEAN : b = Lives(p)
<1>1. CASE Lives(p)
  <2>1. TRUE = Lives(p) BY <1>1
  <2> QED BY <2>1
<1>2. CASE ~Lives(p)
  <2>1. FALSE = Lives(p) BY <1>2 DEF Lives
  <2> QED BY <2>1
<1> QED BY <1>1, <1>2

LEMMA ExitHeard ==
  ASSUME JobTypeOK, NEW t, Heard(t), t.live # Never, t.outcome = "UNKNOWN", NEW f \in Frames, FrameOK(f), f.kind = 4
  PROVE  Heard([t EXCEPT !.at = "outer", !.canary = Lives("canary"),
                         !.outcome = IF Verdict(t, f) THEN "EARLY" ELSE @])
<1>1. PICK b \in BOOLEAN : b = Lives("canary")
  BY LivesOrNot
<1>2. PICK o \in {"UNKNOWN", "EARLY", "CONTROL"} : o = IF Verdict(t, f) THEN "EARLY" ELSE t.outcome
  OBVIOUS
<1>3. o # "UNKNOWN" => Verdict(t, f) /\ b
  BY <1>1, <1>2 DEF Verdict
<1>4. o = "EARLY" => t.live < t.intervention /\ proc["target"] = "dead" /\ (Human => Stored)
  BY <1>2, <1>3 DEF Verdict, FrameOK, Heard, AcceptedOK
<1>5. o # "CONTROL"
  BY <1>2
<1>6. Heard([t EXCEPT !.at = "outer", !.canary = b, !.outcome = o])
  BY <1>3, <1>4, <1>5, OutcomeHeard
<1>7. [t EXCEPT !.at = "outer", !.canary = b, !.outcome = o]
      = [t EXCEPT !.at = "outer", !.canary = Lives("canary"), !.outcome = IF Verdict(t, f) THEN "EARLY" ELSE @]
  BY <1>1, <1>2
<1> QED BY <1>6, <1>7

LEMMA ControlHeard ==
  ASSUME JobTypeOK, NEW t, Heard(t), t.live # Never, t.outcome = "UNKNOWN", NEW f \in Frames, FrameOK(f),
         f.tick >= t.seen + Control
  PROVE  Heard([t EXCEPT !.at = "outer", !.canary = Lives("canary"),
                         !.outcome = IF t.valid /\ Lives("canary") THEN "CONTROL" ELSE @])
<1>1. PICK b \in BOOLEAN : b = Lives("canary")
  BY LivesOrNot
<1>2. PICK o \in {"UNKNOWN", "EARLY", "CONTROL"} : o = IF t.valid /\ Lives("canary") THEN "CONTROL" ELSE t.outcome
  OBVIOUS
<1>3. (o # "UNKNOWN" => b) /\ o # "EARLY"
  BY <1>1, <1>2
<1>4. /\ t.seen \in Nat /\ Control \in Nat /\ clock \in Nat /\ f.tick \in Nat /\ f.tick <= clock
  BY JobAssumption DEF Heard, Supervisors, JobTypeOK, Frames, FrameOK
<1>5. t.seen + Control <= clock
  BY <1>4
<1>6. Heard([t EXCEPT !.at = "outer", !.canary = b, !.outcome = o])
  BY <1>3, <1>5, OutcomeHeard
<1>7. [t EXCEPT !.at = "outer", !.canary = b, !.outcome = o]
      = [t EXCEPT !.at = "outer", !.canary = Lives("canary"), !.outcome = IF t.valid /\ Lives("canary") THEN "CONTROL" ELSE @]
  BY <1>1, <1>2
<1> QED BY <1>6, <1>7

LEMMA AcceptHeard ==
  ASSUME JobTypeOK, NEW t, Heard(t), t.outcome = "UNKNOWN", NEW f \in Frames, FrameOK(f)
  PROVE  Heard(Accept(t, f))
<1>0. f.kind \in {3, 4, 5, 6, 7, 8, 9}
  BY DEF Frames
<1>1. CASE f.kind = 3 /\ t.live = Never /\ clock < Deadline
  <2>1. Accept(t, f) = [t EXCEPT !.live = clock, !.seen = f.tick]
    BY <1>1 DEF Accept
  <2>2. Heard([t EXCEPT !.live = clock, !.seen = f.tick])
    BY <1>1, SeenHeard
  <2> QED BY <2>1, <2>2
<1>2. CASE ~(f.kind = 3 /\ t.live = Never /\ clock < Deadline) /\ (t.live = Never \/ f.kind = 3)
  <2>1. Accept(t, f) = Refused(t)
    BY <1>2 DEF Accept
  <2> QED BY <2>1, RefusedHeard
<1>3. CASE t.live # Never /\ f.kind = 8
  <2>1. Accept(t, f) = [t EXCEPT !.valid = FALSE]
    BY <1>3 DEF Accept
  <2> QED BY <2>1, FailureHeard
<1>4. CASE t.live # Never /\ f.kind = 5
  <2>1. Accept(t, f) \in {Refused(t), [t EXCEPT !.intent = TRUE, !.intervention = clock]}
    BY <1>4 DEF Accept
  <2> QED BY <2>1, RefusedHeard, IntentHeard
<1>5. CASE t.live # Never /\ f.kind \in {6, 9}
  <2>1. Accept(t, f) \in {Refused(t), [t EXCEPT !.completion = f.kind]}
    BY <1>5 DEF Accept
  <2>2. Stored /\ f.kind \in Nat
    BY <1>5 DEF FrameOK
  <2> QED BY <2>1, <2>2, RefusedHeard, CompletionHeard
<1>6. CASE t.live # Never /\ f.kind = 4
  <2>1. Accept(t, f) = [t EXCEPT !.at = "outer", !.canary = Lives("canary"),
                                 !.outcome = IF Verdict(t, f) THEN "EARLY" ELSE @]
    BY <1>6 DEF Accept
  <2> QED BY <1>6, <2>1, ExitHeard
<1>7. CASE t.live # Never /\ f.kind = 7
  <2>1. CASE f.tick >= t.seen + Control /\ t.intervention = Never
    <3>1. Accept(t, f) = [t EXCEPT !.at = "outer", !.canary = Lives("canary"),
                                   !.outcome = IF t.valid /\ Lives("canary") THEN "CONTROL" ELSE @]
      BY <1>7, <2>1 DEF Accept
    <3> QED BY <1>7, <2>1, <3>1, ControlHeard
  <2>2. CASE ~(f.tick >= t.seen + Control /\ t.intervention = Never)
    <3>1. Accept(t, f) = Refused(t)
      BY <1>7, <2>2 DEF Accept
    <3> QED BY <3>1, RefusedHeard
  <2> QED BY <2>1, <2>2
<1> QED BY <1>0, <1>1, <1>2, <1>3, <1>4, <1>5, <1>6, <1>7

(* intervene: what it does is no decision.                                 *)
LEMMA IntervenedHeard ==
  ASSUME JobTypeOK, NEW t, Heard(t), t.at = "observe" PROVE Heard(Intervened(t).s)
<1> DEFINE due == t.live # Never /\ clock >= t.live + 1
           crash == due /\ case = "controller_crash" /\ t.intervention = Never
           b == IF crash THEN [t EXCEPT !.intervention = clock] ELSE t
           late == clock >= Deadline - 1 /\ b.intervention = Never
           u == IF late THEN [b EXCEPT !.intervention = clock,
                                       !.valid = @ /\ clock <= Deadline /\ case # "human_stop"] ELSE b
<1>1. clock \in Nat /\ t.outcome = "UNKNOWN"
  BY DEF JobTypeOK, Heard, AcceptedOK
<1>2. ASSUME NEW x, Heard(x), x.outcome = "UNKNOWN", NEW v \in BOOLEAN
      PROVE  /\ Heard([x EXCEPT !.intervention = clock]) /\ [x EXCEPT !.intervention = clock].outcome = "UNKNOWN"
             /\ Heard([x EXCEPT !.intervention = clock, !.valid = v])
             /\ Heard([x EXCEPT !.at = "outer"])
  BY <1>1, <1>2 DEF Heard, Supervisors, AcceptedOK
<1>3. Heard(b) /\ b.outcome = "UNKNOWN"
  BY <1>1, <1>2
<1>4. Heard(u)
  <2>1. PICK v \in BOOLEAN : v = (b.valid /\ clock <= Deadline /\ case # "human_stop")
    <3>1. CASE b.valid /\ clock <= Deadline /\ case # "human_stop"
      <4>1. TRUE = (b.valid /\ clock <= Deadline /\ case # "human_stop") BY <3>1
      <4> QED BY <4>1
    <3>2. CASE ~(b.valid /\ clock <= Deadline /\ case # "human_stop")
      <4>1. FALSE = (b.valid /\ clock <= Deadline /\ case # "human_stop") BY <3>2
      <4> QED BY <4>1
    <3> QED BY <3>1, <3>2
  <2>2. Heard([b EXCEPT !.intervention = clock, !.valid = v])
    BY <1>2, <1>3
  <2> QED BY <1>3, <2>1, <2>2
<1>5. Heard([t EXCEPT !.at = "outer"])
  BY <1>1, <1>2
<1>6. Heard([u EXCEPT !.at = "outer"])
  BY <1>4 DEF Heard, Supervisors, AcceptedOK
<1>7. Intervened(t).s \in {[t EXCEPT !.at = "outer"], u, [u EXCEPT !.at = "outer"]}
  BY DEF Intervened
<1> HIDE DEF u
<1> QED BY <1>4, <1>5, <1>6, <1>7

LEMMA HeardKeeps ==
  ASSUME JobIInv, UNCHANGED <<case, clock, query, ack, controller, observer>>, Fades,
         report' = report \/ (report # <<>> /\ report' = Tail(report)),
         NEW s, Heard(s), supervisor' = s
  PROVE  JobIInv'
<1>1. report' \in Seq(Frames) /\ Elems(report') \subseteq Elems(report)
  <2>1. report \in Seq(Frames)
    BY DEF JobIInv, JobTypeOK
  <2>2. report # <<>> => Tail(report) \in Seq(Frames) /\ Elems(Tail(report)) \subseteq Elems(report)
    BY <2>1, ElemFacts
  <2>3. CASE report' = report
    BY <2>1, <2>3 DEF Elems
  <2>4. CASE report # <<>> /\ report' = Tail(report)
    BY <2>2, <2>4 DEF Elems
  <2> QED BY <2>3, <2>4
<1>2. s \in Supervisors /\ AcceptedOK(s) /\ s.at \in {"observe", "outer"} /\ ~s.cleaned
  BY DEF Heard
<1>3. JobTypeOK'
  BY <1>1, <1>2 DEF JobIInv, JobTypeOK, Fades
<1>4. RolesOK' /\ (proc["target"] = "dead" => proc'["target"] = "dead")
  BY RolesFade
<1>5. Forwards
  BY <1>4 DEF Forwards, JobIInv, JobTypeOK, Stored
<1>6. PipesOK'
  BY <1>1, <1>5, PipesStay DEF Elems
<1>7. FinishedOK(s)'
  BY <1>2 DEF FinishedOK
<1> QED BY <1>2, <1>3, <1>4, <1>5, <1>6, <1>7, SupervisorWorks

LEMMA PollKeeps == ASSUME JobIInv, supervisor.at # "result", Poll PROVE JobIInv'
<1>1. supervisor.at = "observe" /\ UNCHANGED <<case, clock, query, ack, controller, observer, winFaults>>
  BY DEF Poll
<1>2. Heard(supervisor) /\ supervisor.outcome = "UNKNOWN" /\ JobTypeOK
  BY <1>1, NotCleaned, NotDecided DEF Heard, JobIInv, JobTypeOK
<1>3. CASE supervisor' = [supervisor EXCEPT !.at = "outer"] /\ UNCHANGED <<proc, report>>
  <2>1. Heard([supervisor EXCEPT !.at = "outer"])
    BY <1>2 DEF Heard, Supervisors, AcceptedOK
  <2>2. Fades
    BY <1>3, FadesAlone
  <2> QED BY <1>1, <1>3, <2>1, <2>2, HeardKeeps
<1>4. ASSUME NEW s \in {IF report = <<>> THEN supervisor ELSE Accept(supervisor, Head(report))},
             report' = IF report = <<>> THEN report ELSE Tail(report),
             IF s.at = "outer" THEN supervisor' = s /\ UNCHANGED proc
             ELSE LET i == Intervened(s) IN
                  IF \E p \in i.kills : ~Lives(p)
                  THEN supervisor' = Refused(s) /\ UNCHANGED proc
                  ELSE supervisor' = i.s /\ proc' = Doomed(i.kills)
      PROVE  JobIInv'
  <2>1. Heard(s)
    <3>1. CASE report = <<>>
      BY <1>2, <1>4, <3>1
    <3>2. CASE report # <<>>
      <4>1. Head(report) \in Elems(report) /\ Elems(report) \subseteq Frames
        BY <1>2, <3>2, ElemFacts DEF JobTypeOK
      <4>2. PICK f \in Frames : f = Head(report)
        BY <4>1
      <4>3. FrameOK(f)
        BY <4>1, <4>2 DEF JobIInv, PipesOK
      <4>4. Heard(Accept(supervisor, f))
        BY <1>2, <4>3, AcceptHeard
      <4> QED BY <1>4, <3>2, <4>2, <4>4
    <3> QED BY <3>1, <3>2
  <2>2. report' = report \/ (report # <<>> /\ report' = Tail(report))
    BY <1>4
  <2>3. CASE supervisor' = s /\ UNCHANGED proc
    <3>1. Fades BY <2>3, FadesAlone
    <3> QED BY <1>1, <2>1, <2>2, <2>3, <3>1, HeardKeeps
  <2>4. CASE supervisor' = Refused(s) /\ UNCHANGED proc
    <3>1. Fades BY <2>4, FadesAlone
    <3>2. Heard(Refused(s)) BY <2>1, RefusedHeard
    <3> QED BY <1>1, <2>2, <2>4, <3>1, <3>2, HeardKeeps
  <2>5. CASE s.at # "outer" /\ supervisor' = Intervened(s).s /\ proc' = Doomed(Intervened(s).kills)
    <3>1. Fades BY <2>5, FadesAlone
    <3>2. s.at = "observe" BY <2>1, <2>5 DEF Heard
    <3>3. Heard(Intervened(s).s) BY <1>2, <2>1, <3>2, IntervenedHeard
    <3> QED BY <1>1, <2>2, <2>5, <3>1, <3>3, HeardKeeps
  <2> QED BY <1>4, <2>3, <2>4, <2>5
<1> QED BY <1>1, <1>3, <1>4 DEF Poll

(* The clean-up.                                                           *)
LEMMA TerminateOuterKeeps == ASSUME JobIInv, supervisor.at # "result", TerminateOuter PROVE JobIInv'
<1>1. supervisor.at = "outer" /\ UNCHANGED <<case, clock, controller, observer>>
  BY DEF TerminateOuter
<1>2. PICK k \in BOOLEAN, l \in BOOLEAN : supervisor' = [supervisor EXCEPT !.at = "terminate", !.todo = supervisor.retained,
                                                             !.outerOk = k, !.failed = l]
  <2> DEFINE s == [supervisor EXCEPT !.at = "terminate", !.todo = supervisor.retained]
  <2>0. supervisor \in Supervisors
    BY DEF JobIInv, JobTypeOK
  <2>1. /\ s = [supervisor EXCEPT !.at = "terminate", !.todo = supervisor.retained,
                                  !.outerOk = supervisor.outerOk, !.failed = supervisor.failed]
        /\ [s EXCEPT !.outerOk = TRUE] = [supervisor EXCEPT !.at = "terminate", !.todo = supervisor.retained,
                                  !.outerOk = TRUE, !.failed = supervisor.failed]
        /\ [s EXCEPT !.failed = TRUE] = [supervisor EXCEPT !.at = "terminate", !.todo = supervisor.retained,
                                  !.outerOk = supervisor.outerOk, !.failed = TRUE]
    BY <2>0 DEF Supervisors
  <2>2. supervisor.outerOk \in BOOLEAN /\ supervisor.failed \in BOOLEAN
    BY <2>0 DEF Supervisors
  <2>3. supervisor' \in {s, [s EXCEPT !.outerOk = TRUE], [s EXCEPT !.failed = TRUE]}
    BY DEF TerminateOuter
  <2> HIDE DEF s
  <2> QED BY <2>1, <2>2, <2>3
<1>3. supervisor' \in Supervisors /\ Knows(supervisor', supervisor) /\ supervisor'.at = "terminate"
  BY <1>2 DEF JobIInv, JobTypeOK, Supervisors, Knows
<1>4. /\ proc' = proc \/ \E ps : proc' = Doomed(ps)
      /\ \/ query' = query /\ ack' = ack /\ report' = report
         \/ query' = <<>> /\ ack' = <<>> /\ report' = <<>>
  <2>1. CASE UNCHANGED <<proc, pipes>>
    BY <2>1 DEF pipes
  <2>2. CASE proc' = Doomed(InOuter) /\ query' = <<>> /\ ack' = <<>> /\ report' = <<>>
    BY <2>2
  <2> QED BY <2>1, <2>2 DEF TerminateOuter
<1>5. Fades
  BY <1>4, FadesAlone
<1>6. JobTypeOK'
  <2>1. query' \in Seq(Nat) /\ ack' \in Seq(Nat) /\ report' \in Seq(Frames)
    <3>1. <<>> \in Seq(Nat) /\ <<>> \in Seq(Frames)
      OBVIOUS
    <3>2. query \in Seq(Nat) /\ ack \in Seq(Nat) /\ report \in Seq(Frames)
      BY DEF JobIInv, JobTypeOK
    <3>3. CASE query' = query /\ ack' = ack /\ report' = report
      BY <3>2, <3>3
    <3>4. CASE query' = <<>> /\ ack' = <<>> /\ report' = <<>>
      BY <3>1, <3>4
    <3> QED BY <1>4, <3>3, <3>4
  <2> QED BY <1>1, <1>3, <1>5, <2>1 DEF JobIInv, JobTypeOK, Fades
<1>7. RolesOK' /\ (proc["target"] = "dead" => proc'["target"] = "dead")
  BY <1>1, <1>4, <1>5, RolesFade
<1>8. Forwards
  BY <1>1, <1>7 DEF Forwards, JobIInv, JobTypeOK, Stored
<1>9. PipesOK'
  BY <1>4, <1>8, PipesStay DEF Elems
<1>10. PICK s \in Supervisors : s = supervisor'
  BY <1>3
<1>11. AcceptedOK(s) /\ FinishedOK(s)'
  BY <1>1, <1>3, <1>10, KnowsFacts, NotCleaned DEF Knows, FinishedOK, JobIInv
<1> QED BY <1>6, <1>7, <1>8, <1>9, <1>10, <1>11, SupervisorWorks

LEMMA TerminateRoleKeeps ==
  ASSUME JobIInv, supervisor.at # "result", NEW p \in Processes, TerminateRole(p) PROVE JobIInv'
<1>1. /\ supervisor.at = "terminate" /\ UNCHANGED <<case, clock, query, ack, report, controller, observer>>
      /\ proc' = proc \/ \E ps : proc' = Doomed(ps)
  BY DEF TerminateRole
<1>2. PICK l \in BOOLEAN : supervisor' = [supervisor EXCEPT !.todo = @ \ {p}, !.failed = l]
  <2> DEFINE s == [supervisor EXCEPT !.todo = @ \ {p}]
  <2>0. supervisor \in Supervisors
    BY DEF JobIInv, JobTypeOK
  <2>1. /\ s = [supervisor EXCEPT !.todo = @ \ {p}, !.failed = supervisor.failed]
        /\ [s EXCEPT !.failed = TRUE] = [supervisor EXCEPT !.todo = @ \ {p}, !.failed = TRUE]
    BY <2>0 DEF Supervisors
  <2>2. supervisor.failed \in BOOLEAN
    BY <2>0 DEF Supervisors
  <2>3. supervisor' \in {s, [s EXCEPT !.failed = TRUE]}
    BY DEF TerminateRole
  <2> HIDE DEF s
  <2> QED BY <2>1, <2>2, <2>3
<1>3. supervisor' \in Supervisors /\ Knows(supervisor', supervisor) /\ supervisor'.at = "terminate"
  BY <1>1, <1>2 DEF JobIInv, JobTypeOK, Supervisors, Knows
<1>4. Fades
  BY <1>1, FadesAlone
<1>5. PICK s \in Supervisors : s = supervisor'
  BY <1>3
<1>6. AcceptedOK(s) /\ FinishedOK(s)'
  BY <1>1, <1>3, <1>5, KnowsFacts, NotCleaned DEF Knows, FinishedOK, JobIInv
<1> QED BY <1>1, <1>4, <1>5, <1>6, SupervisorIdles

LEMMA ResultFacts ==
  ASSUME NEW t \in Supervisors
  PROVE  /\ Result(t) \in Supervisors /\ Result(t).at = "result" /\ Knows(Result(t), t)
         /\ Result(t).outcome # "UNKNOWN" => t.cleaned
<1>1. PICK v \in BOOLEAN : v = (t.valid /\ ~t.failed)
  <2>1. CASE t.valid /\ ~t.failed
    <3>1. TRUE = (t.valid /\ ~t.failed) BY <2>1
    <3> QED BY <3>1
  <2>2. CASE ~(t.valid /\ ~t.failed)
    <3>1. FALSE = (t.valid /\ ~t.failed) BY <2>2
    <3> QED BY <3>1
  <2> QED BY <2>1, <2>2
<1>2. PICK o \in {"UNKNOWN", "EARLY", "CONTROL"} :
        o = IF t.cleaned /\ t.valid /\ ~t.failed THEN t.outcome ELSE "UNKNOWN"
  BY DEF Supervisors
<1>3. Result(t) = [t EXCEPT !.at = "result", !.valid = v, !.outcome = o]
  BY <1>1, <1>2 DEF Result
<1>4. /\ o \in {"UNKNOWN", t.outcome} /\ (o # "UNKNOWN" => t.cleaned)
  BY <1>2
<1> QED BY <1>3, <1>4 DEF Supervisors, Knows

LEMMA AwaitAllKeeps == ASSUME JobIInv, supervisor.at # "result", AwaitAll PROVE JobIInv'
<1> DEFINE s == [supervisor EXCEPT !.retained = IF Signaled THEN {} ELSE @]
<1>0. /\ supervisor.at = "terminate" /\ UNCHANGED <<case, clock, proc, query, ack, report, controller, observer>>
      /\ \/ supervisor' = Result([s EXCEPT !.cleaned = TRUE]) /\ Empty
         \/ supervisor' = Result(s)
         \/ supervisor' = s
         \/ supervisor' = Result([supervisor EXCEPT !.failed = TRUE])
  BY DEF AwaitAll
<1>1. supervisor \in Supervisors /\ ~supervisor.cleaned /\ AcceptedOK(supervisor)
  BY NotCleaned DEF JobIInv, JobTypeOK
<1>2. s \in Supervisors /\ s.at = "terminate" /\ Knows(s, supervisor)
  BY <1>0, <1>1 DEF Supervisors, Knows
<1> HIDE DEF s
<1>3. Fades
  BY <1>0, FadesAlone
<1>4. ASSUME NEW t \in Supervisors, supervisor' = t, Knows(t, [supervisor EXCEPT !.cleaned = t.cleaned]),
             \/ t.at = "terminate" /\ ~t.cleaned
             \/ t.at = "result" /\ (t.outcome # "UNKNOWN" => t.cleaned) /\ (t.cleaned => Empty)
      PROVE  JobIInv'
  <2>1. Knows([t EXCEPT !.cleaned = FALSE], supervisor) /\ [t EXCEPT !.cleaned = FALSE].at = t.at
    BY <1>1, <1>4 DEF Knows, Supervisors
  <2>2. AcceptedOK(t)
    BY <1>1, <1>4 DEF Knows, Supervisors, AcceptedOK
  <2>3. Empty' = Empty
    BY <1>0 DEF Empty, Lives
  <2>4. FinishedOK(t)'
    BY <1>4, <2>3 DEF FinishedOK
  <2> QED BY <1>0, <1>3, <1>4, <2>2, <2>4, SupervisorIdles
<1>5. CASE supervisor' = Result([s EXCEPT !.cleaned = TRUE]) /\ Empty
  <2>1. PICK t \in Supervisors : t = [s EXCEPT !.cleaned = TRUE]
    BY <1>2 DEF Supervisors
  <2>2. t.cleaned /\ Knows(t, [supervisor EXCEPT !.cleaned = TRUE])
    BY <1>1, <1>2, <2>1 DEF Supervisors, Knows
  <2>3. PICK r \in Supervisors : r = Result(t)
    BY ResultFacts
  <2>4. r.at = "result" /\ r.cleaned /\ Knows(r, [supervisor EXCEPT !.cleaned = TRUE])
    BY <2>2, <2>3, ResultFacts DEF Knows
  <2>5. Knows(r, [supervisor EXCEPT !.cleaned = r.cleaned])
    BY <1>1, <2>4 DEF Knows, Supervisors
  <2> QED BY <1>4, <1>5, <2>1, <2>3, <2>4, <2>5
<1>6. ASSUME NEW t \in Supervisors, ~t.cleaned, Knows(t, supervisor), supervisor' = Result(t) PROVE JobIInv'
  <2>1. PICK r \in Supervisors : r = Result(t)
    BY ResultFacts
  <2>2. r.at = "result" /\ ~r.cleaned /\ Knows(r, supervisor) /\ r.outcome = "UNKNOWN"
    BY <1>6, <2>1, ResultFacts DEF Knows, Supervisors
  <2>3. Knows(r, [supervisor EXCEPT !.cleaned = r.cleaned])
    BY <1>1, <2>2 DEF Knows, Supervisors
  <2> QED BY <1>4, <1>6, <2>1, <2>2, <2>3
<1>7. CASE supervisor' = Result(s)
  BY <1>1, <1>2, <1>6, <1>7 DEF Knows
<1>8. CASE supervisor' = s
  <2>1. ~s.cleaned /\ Knows(s, [supervisor EXCEPT !.cleaned = s.cleaned])
    BY <1>1, <1>2 DEF Knows, Supervisors
  <2> QED BY <1>2, <1>4, <1>8, <2>1
<1>9. CASE supervisor' = Result([supervisor EXCEPT !.failed = TRUE])
  <2>1. PICK t \in Supervisors : t = [supervisor EXCEPT !.failed = TRUE]
    BY <1>1 DEF Supervisors
  <2>2. ~t.cleaned /\ Knows(t, supervisor)
    BY <1>1, <2>1 DEF Knows, Supervisors
  <2> QED BY <1>6, <1>9, <2>1, <2>2
<1> QED BY <1>0, <1>5, <1>7, <1>8, <1>9

LEMMA InterruptedKeeps == ASSUME JobIInv, supervisor.at # "result", Interrupted PROVE JobIInv'
<1> DEFINE t == [supervisor EXCEPT !.aborted = TRUE, !.outcome = "UNKNOWN", !.valid = FALSE]
<1>0. /\ UNCHANGED <<case, clock, proc, query, ack, report, controller, observer>>
      /\ supervisor' = Result(t) \/ supervisor' = [t EXCEPT !.at = "outer"]
  BY DEF Interrupted
<1>1. supervisor \in Supervisors /\ ~supervisor.cleaned /\ AcceptedOK(supervisor)
  BY NotCleaned DEF JobIInv, JobTypeOK
<1>2. t \in Supervisors /\ Knows(t, supervisor) /\ t.outcome = "UNKNOWN" /\ ~t.cleaned
  BY <1>1 DEF Supervisors, Knows
<1> HIDE DEF t
<1>3. PICK s \in Supervisors : s = supervisor'
  BY <1>0, <1>2, ResultFacts DEF Supervisors
<1>4. Knows(s, supervisor) /\ s.outcome = "UNKNOWN"
  BY <1>0, <1>2, <1>3, ResultFacts DEF Knows, Supervisors
<1>5. AcceptedOK(s) /\ FinishedOK(s)'
  BY <1>1, <1>4, KnowsFacts DEF Knows, FinishedOK
<1>6. Fades
  BY <1>0, FadesAlone
<1> QED BY <1>0, <1>3, <1>5, <1>6, SupervisorIdles

(* What the qualification keeps at every step: a process that has not been *)
(* resumed has done nothing; a frame on its way is true of what it tells,  *)
(* and of what was stored when it tells of a stop; and what the supervisor *)
(* has accepted, decided and cleaned is true.                              *)
THEOREM JobInvariance == JobSpec => []JobIInv
<1>1. ASSUME JobIInv, JobNext PROVE JobIInv'
  <2>1. supervisor.at # "result"
    BY <1>1 DEF JobNext
  <2> QED BY <1>1, <2>1, PrepareKeeps, ResumeTargetKeeps, SeenLiveKeeps, IntendKeeps, StopTargetKeeps, GarbageKeeps,
             BindKeeps, SeeRunningKeeps, RelayKeeps, SeeExitKeeps, SeeControlKeeps, SetupKeeps, LaunchKeeps,
             ResumeRoleKeeps, PollKeeps, TerminateOuterKeeps, AwaitAllKeeps, InterruptedKeeps, DiesKeeps, EndsKeeps,
             RoleFailsKeeps, TerminateRoleKeeps, PassesKeeps DEF JobNext
<1>2. ASSUME JobIInv, UNCHANGED jobVars PROVE JobIInv'
  BY <1>2 DEF jobVars, roles, JobIInv, JobTypeOK, RolesOK, PipesOK, FrameOK, AcceptedOK, FinishedOK, Stored, Human,
              Never, Empty, Lives, Elems
<1> QED BY <1>1, <1>2, JobStarts, PTL DEF JobSpec

(* The target runs only once the observer holds it; what is said of the    *)
(* end of a qualification, of a cleanup and of an early exit is true: for  *)
(* any deadlines, cases and number of failures.                            *)
THEOREM VerdictHolds == JobSpec => []VerdictIsObserved
<1>1. ASSUME JobIInv PROVE VerdictIsObserved
  <2>1. proc["target"] = "running" => observer.at \in {"resume", "watch"}
    BY <1>1 DEF JobIInv, RolesOK
  <2>2. supervisor.cleaned => \A p \in Processes : ~Lives(p)
    BY <1>1 DEF JobIInv, FinishedOK, Empty
  <2>3. /\ observer.live \in Nat /\ clock \in Nat /\ Control \in Nat /\ supervisor.live \in Nat
        /\ supervisor.intervention \in Nat
    BY <1>1, JobAssumption DEF JobIInv, JobTypeOK, Observers, Supervisors
  <2>4. supervisor.outcome = "EARLY" =>
          /\ observer.live < supervisor.intervention /\ proc["target"] = "dead" /\ supervisor.canary
          /\ Human => controller.durable
    BY <1>1, <2>3 DEF JobIInv, AcceptedOK, Stored
  <2>5. supervisor.outcome = "CONTROL" => observer.live + Control <= clock /\ supervisor.canary
    BY <1>1, <2>3 DEF JobIInv, AcceptedOK
  <2>6. supervisor.at = "result" /\ supervisor.outcome # "UNKNOWN" => supervisor.cleaned
    BY <1>1 DEF JobIInv, FinishedOK
  <2> QED BY <2>1, <2>2, <2>4, <2>5, <2>6 DEF VerdictIsObserved
<1> QED BY <1>1, JobInvariance, PTL

-----------------------------------------------------------------------------
(* The durable stop latch and the run that demonstrates it.                *)
(* Where the script makes a role's process and cgroup, and takes them away. *)
SpawnAt == [canary |-> 1, target |-> 9, second |-> 35]
CleanAt == [canary |-> 65, target |-> 64, second |-> 52]
ReapAt == [canary |-> 67, target |-> 66, second |-> 53]
(* Where the run has the writer lock.                                      *)
Locking == (8..15) \cup {18, 19, 24, 25, 31, 32} \cup (34..41) \cup {44, 45, 50, 51, 55, 56, 63}

States == {"none", "live", "dying", "dead"}
Stores == [mode : {"OPEN", "STOP_LATCHED"}, active : {"none", "pending"} \cup Roles, gen : Nat]
StoreTypeOK ==
  /\ store \in Stores /\ barred \in BOOLEAN
  /\ checker \in [Checkers -> [pc : {"idle", "start", "wait", "in", "end"}, saw : Stores, code : 0..2]]
RunTypeOK ==
  /\ place \in 0..68 /\ sub \in {"none", "armed", "latched"} /\ result \in {"none", "PASS", "UNKNOWN"}
  /\ failed \in BOOLEAN /\ errors \in BOOLEAN
WorkTypeOK ==
  /\ leader \in [Roles -> States] /\ child \in [Roles -> States]
  /\ cgroup \in [Roles -> {"none", "made", "gone"}]
  /\ members \subseteq Roles \X {"leader", "child"} /\ bound \subseteq Roles /\ gates \subseteq Roles
NativeTypeOK == StoreTypeOK /\ RunTypeOK /\ WorkTypeOK

(* Who is under the lock; and how far a stop is, if its run still lives.   *)
WriterOK ==
  /\ \A c \in Checkers : checker[c].pc = "in" <=> writer = c
  /\ writer = Demo <=> place \in Locking
  /\ place \in 1..27 => checker[Own].pc = "idle"
  /\ sub # "none" /\ place # 0 => place \in {18, 44, 55, 63} /\ marks = {"transition"}
  /\ sub = "latched" /\ place # 0 => store.mode = "STOP_LATCHED"

(* A stop that was armed is on disk, by its intent or by its state.        *)
BarredOK == barred => marks # {} \/ store.mode = "STOP_LATCHED"

(* A workload behind an open gate is in its cgroup, and its descendant     *)
(* with it; and what was in a cgroup that is gone is dead.                 *)
Held(r) ==
  /\ r \in gates => <<r, "leader">> \in members
  /\ <<r, "leader">> \in members => cgroup[r] # "none" /\ leader[r] # "none"
  /\ <<r, "child">> \in members <=> child[r] # "none"
  /\ child[r] # "none" => <<r, "leader">> \in members
  /\ cgroup[r] = "gone" => CellEmpty(r)
WorkOK == \A r \in Roles : Held(r)

(* Before a role's steps there is nothing of it; its gate opens when it    *)
(* has been put in its cgroup, which is not gone before the cleanup.       *)
NotYet(r) ==
  /\ place <= SpawnAt[r] => leader[r] = "none"
  /\ SpawnAt[r] < place /\ place <= SpawnAt[r] + 3 => leader[r] # "none"
  /\ place <= SpawnAt[r] + 1 => r \notin bound
  /\ place <= SpawnAt[r] + 2 => cgroup[r] = "none"
  /\ place = SpawnAt[r] + 3 => cgroup[r] = "made"
  /\ place = SpawnAt[r] + 4 \/ place = SpawnAt[r] + 5 => <<r, "leader">> \in members
  /\ place <= CleanAt[r] => cgroup[r] # "gone"
NotYetOK == place # 0 => \A r \in Roles : NotYet(r)

(* A part of the cleanup that is behind, without errors, left nothing.     *)
Behind(r) ==
  /\ place > CleanAt[r] => cgroup[r] # "made"
  /\ place > ReapAt[r] /\ r \in bound => GroupEmpty(r)
BehindOK == ~errors => \A r \in Roles : Behind(r)

(* The first target is gone before there is a second.                      *)
FirstOK ==
  /\ place \in 27..51 => GroupEmpty("target")
  /\ leader["second"] # "none" => GroupEmpty("target")

(* What a run without an exception has done.                               *)
BoundOK == ~failed => \A r \in Roles : place > SpawnAt[r] + 1 => r \in bound
StoppedOK ==
  ~failed =>
    /\ place >= 45 => marks = {} /\ store.mode = "STOP_LATCHED" /\ sub = "none"
    /\ place >= 51 => store.active = "none"

NativeIInv ==
  /\ NativeTypeOK /\ WriterOK /\ BarredOK /\ WorkOK /\ NotYetOK /\ BehindOK /\ FirstOK
  /\ BoundOK /\ StoppedOK /\ (result # "none" => place \in {0, 68}) /\ ReportIsTrue

-----------------------------------------------------------------------------
(* The script.                                                             *)
OpNames ==
  {"spawn", "bind", "cell", "attach", "gate", "report", "lock", "reserve", "mark", "unlock", "stop", "kill",
   "cellEmpty", "groupEmpty", "stopped", "probe", "check", "checked", "reload", "reset", "clean", "reap", "pass",
   "recover", "latch", "result"}
OpSteps == OpNames \X (Roles \cup {"none"})
IsList(s, S, n) == s \in Seq(S) /\ Len(s) = n

LEMMA OpsFacts ==
  ASSUME NEW n, NEW r \in Roles \cup {"none"}, NEW k \in Nat, IsList(n, OpNames, k)
  PROVE  /\ IsList(Ops(n, r), OpSteps, k)
         /\ \A i \in 1..k : Ops(n, r)[i] = <<n[i], r>>
<1>1. DOMAIN n = 1..k /\ \A i \in 1..k : n[i] \in OpNames
  BY DEF IsList
<1>2. Ops(n, r) \in [1..k -> OpSteps]
  BY <1>1 DEF Ops, OpSteps
<1>3. Ops(n, r) \in Seq(OpSteps)
  <2>1. Ops(n, r) \in UNION {[1..j -> OpSteps] : j \in Nat}
    BY <1>2
  <2>2. Seq(OpSteps) = UNION {[1..j -> OpSteps] : j \in Nat}
    BY SeqDef
  <2> QED BY <2>1, <2>2, Zenon
<1>4. DOMAIN Ops(n, r) = 1..k
  BY <1>2
<1>5. Len(Ops(n, r)) = k
  BY <1>3, <1>4
<1>6. \A i \in 1..k : Ops(n, r)[i] = <<n[i], r>>
  BY <1>1 DEF Ops
<1> QED BY <1>3, <1>5, <1>6 DEF IsList

LEMMA ReservedFacts ==
  /\ IsList(Reserved, OpNames, 10)
  /\ Reserved[1] = "lock" /\ Reserved[2] = "reserve" /\ Reserved[3] = "spawn"
  /\ Reserved[4] = "bind" /\ Reserved[5] = "cell" /\ Reserved[6] = "attach"
  /\ Reserved[7] = "mark" /\ Reserved[8] = "gate" /\ Reserved[9] = "unlock"
  /\ Reserved[10] = "report"
<1> DEFINE a == <<"lock", "reserve">>
           b == LaunchOps
           c == <<"mark", "gate", "unlock", "report">>
           ab == a \o b
           abc == ab \o c
<1>1. IsList(a, OpNames, 2)
  BY DEF OpNames, IsList
<1>2. IsList(b, OpNames, 4)
  BY DEF OpNames, IsList, LaunchOps
<1>3. IsList(c, OpNames, 4)
  BY DEF OpNames, IsList
<1>11. /\ a[1] = "lock" /\ a[2] = "reserve"
  OBVIOUS
<1>12. /\ b[1] = "spawn" /\ b[2] = "bind" /\ b[3] = "cell" /\ b[4] = "attach"
  BY DEF LaunchOps
<1>13. /\ c[1] = "mark" /\ c[2] = "gate" /\ c[3] = "unlock" /\ c[4] = "report"
  OBVIOUS
<1>20. Reserved = abc
  BY DEF Reserved
<1> HIDE DEF a, b, c, ab, abc
<1>21. /\ IsList(ab, OpNames, 6)
       /\ \A i \in 1..6 : ab[i] = IF i <= 2 THEN a[i] ELSE b[i - 2]
  <2>1. PICK n \in Nat, m \in Nat, k \in Nat : n = 2 /\ m = 4 /\ k = 6
    OBVIOUS
  <2>2. IsList(a, OpNames, n) /\ IsList(b, OpNames, m) /\ n + m = k
    BY <1>1, <1>2, <2>1
  <2>3. IsList(ab, OpNames, k)
    BY <2>2 DEF IsList, ab
  <2>4. \A i \in 1..k : ab[i] = IF i <= n THEN a[i] ELSE b[i - n]
    BY <2>2 DEF IsList, ab
  <2> QED BY <2>1, <2>3, <2>4
<1>22. /\ IsList(abc, OpNames, 10)
       /\ \A i \in 1..10 : abc[i] = IF i <= 6 THEN ab[i] ELSE c[i - 6]
  <2>1. PICK n \in Nat, m \in Nat, k \in Nat : n = 6 /\ m = 4 /\ k = 10
    OBVIOUS
  <2>2. IsList(ab, OpNames, n) /\ IsList(c, OpNames, m) /\ n + m = k
    BY <1>21, <1>3, <2>1
  <2>3. IsList(abc, OpNames, k)
    BY <2>2 DEF IsList, abc
  <2>4. \A i \in 1..k : abc[i] = IF i <= n THEN ab[i] ELSE c[i - n]
    BY <2>2 DEF IsList, abc
  <2> QED BY <2>1, <2>3, <2>4
<1> QED BY <1>11, <1>12, <1>13, <1>20, <1>21, <1>22

LEMMA StoppedFacts ==
  /\ IsList(StoppedOps, OpNames, 9)
  /\ StoppedOps[1] = "lock" /\ StoppedOps[2] = "stop" /\ StoppedOps[3] = "unlock"
  /\ StoppedOps[4] = "kill" /\ StoppedOps[5] = "cellEmpty" /\ StoppedOps[6] = "groupEmpty"
  /\ StoppedOps[7] = "lock" /\ StoppedOps[8] = "stopped" /\ StoppedOps[9] = "unlock"
<1> DEFINE a == Locked("stop")
           b == Kill
           c == Locked("stopped")
           ab == a \o b
           abc == ab \o c
<1>1. IsList(a, OpNames, 3)
  BY DEF OpNames, IsList, Locked
<1>2. IsList(b, OpNames, 3)
  BY DEF OpNames, IsList, Kill
<1>3. IsList(c, OpNames, 3)
  BY DEF OpNames, IsList, Locked
<1>11. /\ a[1] = "lock" /\ a[2] = "stop" /\ a[3] = "unlock"
  BY DEF Locked
<1>12. /\ b[1] = "kill" /\ b[2] = "cellEmpty" /\ b[3] = "groupEmpty"
  BY DEF Kill
<1>13. /\ c[1] = "lock" /\ c[2] = "stopped" /\ c[3] = "unlock"
  BY DEF Locked
<1>20. StoppedOps = abc
  BY DEF StoppedOps
<1> HIDE DEF a, b, c, ab, abc
<1>21. /\ IsList(ab, OpNames, 6)
       /\ \A i \in 1..6 : ab[i] = IF i <= 3 THEN a[i] ELSE b[i - 3]
  <2>1. PICK n \in Nat, m \in Nat, k \in Nat : n = 3 /\ m = 3 /\ k = 6
    OBVIOUS
  <2>2. IsList(a, OpNames, n) /\ IsList(b, OpNames, m) /\ n + m = k
    BY <1>1, <1>2, <2>1
  <2>3. IsList(ab, OpNames, k)
    BY <2>2 DEF IsList, ab
  <2>4. \A i \in 1..k : ab[i] = IF i <= n THEN a[i] ELSE b[i - n]
    BY <2>2 DEF IsList, ab
  <2> QED BY <2>1, <2>3, <2>4
<1>22. /\ IsList(abc, OpNames, 9)
       /\ \A i \in 1..9 : abc[i] = IF i <= 6 THEN ab[i] ELSE c[i - 6]
  <2>1. PICK n \in Nat, m \in Nat, k \in Nat : n = 6 /\ m = 3 /\ k = 9
    OBVIOUS
  <2>2. IsList(ab, OpNames, n) /\ IsList(c, OpNames, m) /\ n + m = k
    BY <1>21, <1>3, <2>1
  <2>3. IsList(abc, OpNames, k)
    BY <2>2 DEF IsList, abc
  <2>4. \A i \in 1..k : abc[i] = IF i <= n THEN ab[i] ELSE c[i - n]
    BY <2>2 DEF IsList, abc
  <2> QED BY <2>1, <2>3, <2>4
<1> QED BY <1>11, <1>12, <1>13, <1>20, <1>21, <1>22

CanaryOps == LaunchOps \o <<"gate", "report">>
TargetOps == Reserved \o StoppedOps \o <<"probe", "check", "checked", "reload">> \o Locked("reset")
SecondOps == Reserved \o StoppedOps
InnerOps == <<"clean", "reap">>
LastOps == Locked("stop") \o Kill \o <<"reload", "pass">>

LEMMA CanaryNames ==
  /\ IsList(CanaryOps, OpNames, 6)
  /\ CanaryOps[1] = "spawn" /\ CanaryOps[2] = "bind" /\ CanaryOps[3] = "cell"
  /\ CanaryOps[4] = "attach" /\ CanaryOps[5] = "gate" /\ CanaryOps[6] = "report"
<1> DEFINE a == LaunchOps
           b == <<"gate", "report">>
           ab == a \o b
<1>1. IsList(a, OpNames, 4)
  BY DEF OpNames, IsList, LaunchOps
<1>2. IsList(b, OpNames, 2)
  BY DEF OpNames, IsList
<1>11. /\ a[1] = "spawn" /\ a[2] = "bind" /\ a[3] = "cell" /\ a[4] = "attach"
  BY DEF LaunchOps
<1>12. /\ b[1] = "gate" /\ b[2] = "report"
  OBVIOUS
<1>20. CanaryOps = ab
  BY DEF CanaryOps
<1> HIDE DEF a, b, ab
<1>21. /\ IsList(ab, OpNames, 6)
       /\ \A i \in 1..6 : ab[i] = IF i <= 4 THEN a[i] ELSE b[i - 4]
  <2>1. PICK n \in Nat, m \in Nat, k \in Nat : n = 4 /\ m = 2 /\ k = 6
    OBVIOUS
  <2>2. IsList(a, OpNames, n) /\ IsList(b, OpNames, m) /\ n + m = k
    BY <1>1, <1>2, <2>1
  <2>3. IsList(ab, OpNames, k)
    BY <2>2 DEF IsList, ab
  <2>4. \A i \in 1..k : ab[i] = IF i <= n THEN a[i] ELSE b[i - n]
    BY <2>2 DEF IsList, ab
  <2> QED BY <2>1, <2>3, <2>4
<1> QED BY <1>11, <1>12, <1>20, <1>21

LEMMA TargetNames ==
  /\ IsList(TargetOps, OpNames, 26)
  /\ TargetOps[1] = "lock" /\ TargetOps[2] = "reserve" /\ TargetOps[3] = "spawn"
  /\ TargetOps[4] = "bind" /\ TargetOps[5] = "cell" /\ TargetOps[6] = "attach"
  /\ TargetOps[7] = "mark" /\ TargetOps[8] = "gate" /\ TargetOps[9] = "unlock"
  /\ TargetOps[10] = "report" /\ TargetOps[11] = "lock" /\ TargetOps[12] = "stop"
  /\ TargetOps[13] = "unlock" /\ TargetOps[14] = "kill" /\ TargetOps[15] = "cellEmpty"
  /\ TargetOps[16] = "groupEmpty" /\ TargetOps[17] = "lock" /\ TargetOps[18] = "stopped"
  /\ TargetOps[19] = "unlock" /\ TargetOps[20] = "probe" /\ TargetOps[21] = "check"
  /\ TargetOps[22] = "checked" /\ TargetOps[23] = "reload" /\ TargetOps[24] = "lock"
  /\ TargetOps[25] = "reset" /\ TargetOps[26] = "unlock"
<1> DEFINE a == Reserved
           b == StoppedOps
           c == <<"probe", "check", "checked", "reload">>
           d == Locked("reset")
           ab == a \o b
           abc == ab \o c
           abcd == abc \o d
<1>1. IsList(a, OpNames, 10)
  BY ReservedFacts
<1>2. IsList(b, OpNames, 9)
  BY StoppedFacts
<1>3. IsList(c, OpNames, 4)
  BY DEF OpNames, IsList
<1>4. IsList(d, OpNames, 3)
  BY DEF OpNames, IsList, Locked
<1>11. /\ a[1] = "lock" /\ a[2] = "reserve" /\ a[3] = "spawn" /\ a[4] = "bind" /\ a[5] = "cell"
       /\ a[6] = "attach" /\ a[7] = "mark" /\ a[8] = "gate" /\ a[9] = "unlock"
       /\ a[10] = "report"
  BY ReservedFacts
<1>12. /\ b[1] = "lock" /\ b[2] = "stop" /\ b[3] = "unlock" /\ b[4] = "kill"
       /\ b[5] = "cellEmpty" /\ b[6] = "groupEmpty" /\ b[7] = "lock" /\ b[8] = "stopped"
       /\ b[9] = "unlock"
  BY StoppedFacts
<1>13. /\ c[1] = "probe" /\ c[2] = "check" /\ c[3] = "checked" /\ c[4] = "reload"
  OBVIOUS
<1>14. /\ d[1] = "lock" /\ d[2] = "reset" /\ d[3] = "unlock"
  BY DEF Locked
<1>20. TargetOps = abcd
  BY DEF TargetOps
<1> HIDE DEF a, b, c, d, ab, abc, abcd
<1>21. /\ IsList(ab, OpNames, 19)
       /\ \A i \in 1..19 : ab[i] = IF i <= 10 THEN a[i] ELSE b[i - 10]
  <2>1. PICK n \in Nat, m \in Nat, k \in Nat : n = 10 /\ m = 9 /\ k = 19
    OBVIOUS
  <2>2. IsList(a, OpNames, n) /\ IsList(b, OpNames, m) /\ n + m = k
    BY <1>1, <1>2, <2>1
  <2>3. IsList(ab, OpNames, k)
    BY <2>2 DEF IsList, ab
  <2>4. \A i \in 1..k : ab[i] = IF i <= n THEN a[i] ELSE b[i - n]
    BY <2>2 DEF IsList, ab
  <2> QED BY <2>1, <2>3, <2>4
<1>22. /\ IsList(abc, OpNames, 23)
       /\ \A i \in 1..23 : abc[i] = IF i <= 19 THEN ab[i] ELSE c[i - 19]
  <2>1. PICK n \in Nat, m \in Nat, k \in Nat : n = 19 /\ m = 4 /\ k = 23
    OBVIOUS
  <2>2. IsList(ab, OpNames, n) /\ IsList(c, OpNames, m) /\ n + m = k
    BY <1>21, <1>3, <2>1
  <2>3. IsList(abc, OpNames, k)
    BY <2>2 DEF IsList, abc
  <2>4. \A i \in 1..k : abc[i] = IF i <= n THEN ab[i] ELSE c[i - n]
    BY <2>2 DEF IsList, abc
  <2> QED BY <2>1, <2>3, <2>4
<1>23. /\ IsList(abcd, OpNames, 26)
       /\ \A i \in 1..26 : abcd[i] = IF i <= 23 THEN abc[i] ELSE d[i - 23]
  <2>1. PICK n \in Nat, m \in Nat, k \in Nat : n = 23 /\ m = 3 /\ k = 26
    OBVIOUS
  <2>2. IsList(abc, OpNames, n) /\ IsList(d, OpNames, m) /\ n + m = k
    BY <1>22, <1>4, <2>1
  <2>3. IsList(abcd, OpNames, k)
    BY <2>2 DEF IsList, abcd
  <2>4. \A i \in 1..k : abcd[i] = IF i <= n THEN abc[i] ELSE d[i - n]
    BY <2>2 DEF IsList, abcd
  <2> QED BY <2>1, <2>3, <2>4
<1> QED BY <1>11, <1>12, <1>13, <1>14, <1>20, <1>21, <1>22, <1>23

LEMMA SecondNames ==
  /\ IsList(SecondOps, OpNames, 19)
  /\ SecondOps[1] = "lock" /\ SecondOps[2] = "reserve" /\ SecondOps[3] = "spawn"
  /\ SecondOps[4] = "bind" /\ SecondOps[5] = "cell" /\ SecondOps[6] = "attach"
  /\ SecondOps[7] = "mark" /\ SecondOps[8] = "gate" /\ SecondOps[9] = "unlock"
  /\ SecondOps[10] = "report" /\ SecondOps[11] = "lock" /\ SecondOps[12] = "stop"
  /\ SecondOps[13] = "unlock" /\ SecondOps[14] = "kill" /\ SecondOps[15] = "cellEmpty"
  /\ SecondOps[16] = "groupEmpty" /\ SecondOps[17] = "lock" /\ SecondOps[18] = "stopped"
  /\ SecondOps[19] = "unlock"
<1> DEFINE a == Reserved
           b == StoppedOps
           ab == a \o b
<1>1. IsList(a, OpNames, 10)
  BY ReservedFacts
<1>2. IsList(b, OpNames, 9)
  BY StoppedFacts
<1>11. /\ a[1] = "lock" /\ a[2] = "reserve" /\ a[3] = "spawn" /\ a[4] = "bind" /\ a[5] = "cell"
       /\ a[6] = "attach" /\ a[7] = "mark" /\ a[8] = "gate" /\ a[9] = "unlock"
       /\ a[10] = "report"
  BY ReservedFacts
<1>12. /\ b[1] = "lock" /\ b[2] = "stop" /\ b[3] = "unlock" /\ b[4] = "kill"
       /\ b[5] = "cellEmpty" /\ b[6] = "groupEmpty" /\ b[7] = "lock" /\ b[8] = "stopped"
       /\ b[9] = "unlock"
  BY StoppedFacts
<1>20. SecondOps = ab
  BY DEF SecondOps
<1> HIDE DEF a, b, ab
<1>21. /\ IsList(ab, OpNames, 19)
       /\ \A i \in 1..19 : ab[i] = IF i <= 10 THEN a[i] ELSE b[i - 10]
  <2>1. PICK n \in Nat, m \in Nat, k \in Nat : n = 10 /\ m = 9 /\ k = 19
    OBVIOUS
  <2>2. IsList(a, OpNames, n) /\ IsList(b, OpNames, m) /\ n + m = k
    BY <1>1, <1>2, <2>1
  <2>3. IsList(ab, OpNames, k)
    BY <2>2 DEF IsList, ab
  <2>4. \A i \in 1..k : ab[i] = IF i <= n THEN a[i] ELSE b[i - n]
    BY <2>2 DEF IsList, ab
  <2> QED BY <2>1, <2>3, <2>4
<1> QED BY <1>11, <1>12, <1>20, <1>21

LEMMA LastNames ==
  /\ IsList(LastOps, OpNames, 8)
  /\ LastOps[1] = "lock" /\ LastOps[2] = "stop" /\ LastOps[3] = "unlock" /\ LastOps[4] = "kill"
  /\ LastOps[5] = "cellEmpty" /\ LastOps[6] = "groupEmpty" /\ LastOps[7] = "reload"
  /\ LastOps[8] = "pass"
<1> DEFINE a == Locked("stop")
           b == Kill
           c == <<"reload", "pass">>
           ab == a \o b
           abc == ab \o c
<1>1. IsList(a, OpNames, 3)
  BY DEF OpNames, IsList, Locked
<1>2. IsList(b, OpNames, 3)
  BY DEF OpNames, IsList, Kill
<1>3. IsList(c, OpNames, 2)
  BY DEF OpNames, IsList
<1>11. /\ a[1] = "lock" /\ a[2] = "stop" /\ a[3] = "unlock"
  BY DEF Locked
<1>12. /\ b[1] = "kill" /\ b[2] = "cellEmpty" /\ b[3] = "groupEmpty"
  BY DEF Kill
<1>13. /\ c[1] = "reload" /\ c[2] = "pass"
  OBVIOUS
<1>20. LastOps = abc
  BY DEF LastOps
<1> HIDE DEF a, b, c, ab, abc
<1>21. /\ IsList(ab, OpNames, 6)
       /\ \A i \in 1..6 : ab[i] = IF i <= 3 THEN a[i] ELSE b[i - 3]
  <2>1. PICK n \in Nat, m \in Nat, k \in Nat : n = 3 /\ m = 3 /\ k = 6
    OBVIOUS
  <2>2. IsList(a, OpNames, n) /\ IsList(b, OpNames, m) /\ n + m = k
    BY <1>1, <1>2, <2>1
  <2>3. IsList(ab, OpNames, k)
    BY <2>2 DEF IsList, ab
  <2>4. \A i \in 1..k : ab[i] = IF i <= n THEN a[i] ELSE b[i - n]
    BY <2>2 DEF IsList, ab
  <2> QED BY <2>1, <2>3, <2>4
<1>22. /\ IsList(abc, OpNames, 8)
       /\ \A i \in 1..8 : abc[i] = IF i <= 6 THEN ab[i] ELSE c[i - 6]
  <2>1. PICK n \in Nat, m \in Nat, k \in Nat : n = 6 /\ m = 2 /\ k = 8
    OBVIOUS
  <2>2. IsList(ab, OpNames, n) /\ IsList(c, OpNames, m) /\ n + m = k
    BY <1>21, <1>3, <2>1
  <2>3. IsList(abc, OpNames, k)
    BY <2>2 DEF IsList, abc
  <2>4. \A i \in 1..k : abc[i] = IF i <= n THEN ab[i] ELSE c[i - n]
    BY <2>2 DEF IsList, abc
  <2> QED BY <2>1, <2>3, <2>4
<1> QED BY <1>11, <1>12, <1>13, <1>20, <1>21, <1>22

LEMMA InnerNames ==
  /\ IsList(InnerOps, OpNames, 2)
  /\ InnerOps[1] = "clean" /\ InnerOps[2] = "reap"
BY DEF InnerOps, OpNames, IsList

LEMMA CanaryPart ==
  /\ IsList(Ops(CanaryOps, "canary"), OpSteps, 6)
  /\ Ops(CanaryOps, "canary")[1] = <<"spawn", "canary">>
  /\ Ops(CanaryOps, "canary")[2] = <<"bind", "canary">>
  /\ Ops(CanaryOps, "canary")[3] = <<"cell", "canary">>
  /\ Ops(CanaryOps, "canary")[4] = <<"attach", "canary">>
  /\ Ops(CanaryOps, "canary")[5] = <<"gate", "canary">>
  /\ Ops(CanaryOps, "canary")[6] = <<"report", "canary">>
<1>1. PICK k \in Nat : k = 6
  OBVIOUS
<1>2. IsList(CanaryOps, OpNames, k) /\ "canary" \in Roles \cup {"none"}
  BY <1>1, CanaryNames DEF Roles
<1>3. IsList(Ops(CanaryOps, "canary"), OpSteps, k) /\ \A i \in 1..k : Ops(CanaryOps, "canary")[i] = <<CanaryOps[i], "canary">>
  BY <1>1, <1>2, OpsFacts
<1> QED BY <1>1, <1>3, CanaryNames

LEMMA TargetPart ==
  /\ IsList(Ops(TargetOps, "target"), OpSteps, 26)
  /\ Ops(TargetOps, "target")[1] = <<"lock", "target">>
  /\ Ops(TargetOps, "target")[2] = <<"reserve", "target">>
  /\ Ops(TargetOps, "target")[3] = <<"spawn", "target">>
  /\ Ops(TargetOps, "target")[4] = <<"bind", "target">>
  /\ Ops(TargetOps, "target")[5] = <<"cell", "target">>
  /\ Ops(TargetOps, "target")[6] = <<"attach", "target">>
  /\ Ops(TargetOps, "target")[7] = <<"mark", "target">>
  /\ Ops(TargetOps, "target")[8] = <<"gate", "target">>
  /\ Ops(TargetOps, "target")[9] = <<"unlock", "target">>
  /\ Ops(TargetOps, "target")[10] = <<"report", "target">>
  /\ Ops(TargetOps, "target")[11] = <<"lock", "target">>
  /\ Ops(TargetOps, "target")[12] = <<"stop", "target">>
  /\ Ops(TargetOps, "target")[13] = <<"unlock", "target">>
  /\ Ops(TargetOps, "target")[14] = <<"kill", "target">>
  /\ Ops(TargetOps, "target")[15] = <<"cellEmpty", "target">>
  /\ Ops(TargetOps, "target")[16] = <<"groupEmpty", "target">>
  /\ Ops(TargetOps, "target")[17] = <<"lock", "target">>
  /\ Ops(TargetOps, "target")[18] = <<"stopped", "target">>
  /\ Ops(TargetOps, "target")[19] = <<"unlock", "target">>
  /\ Ops(TargetOps, "target")[20] = <<"probe", "target">>
  /\ Ops(TargetOps, "target")[21] = <<"check", "target">>
  /\ Ops(TargetOps, "target")[22] = <<"checked", "target">>
  /\ Ops(TargetOps, "target")[23] = <<"reload", "target">>
  /\ Ops(TargetOps, "target")[24] = <<"lock", "target">>
  /\ Ops(TargetOps, "target")[25] = <<"reset", "target">>
  /\ Ops(TargetOps, "target")[26] = <<"unlock", "target">>
<1>1. PICK k \in Nat : k = 26
  OBVIOUS
<1>2. IsList(TargetOps, OpNames, k) /\ "target" \in Roles \cup {"none"}
  BY <1>1, TargetNames DEF Roles
<1>3. IsList(Ops(TargetOps, "target"), OpSteps, k) /\ \A i \in 1..k : Ops(TargetOps, "target")[i] = <<TargetOps[i], "target">>
  BY <1>1, <1>2, OpsFacts
<1> QED BY <1>1, <1>3, TargetNames

LEMMA SecondPart ==
  /\ IsList(Ops(SecondOps, "second"), OpSteps, 19)
  /\ Ops(SecondOps, "second")[1] = <<"lock", "second">>
  /\ Ops(SecondOps, "second")[2] = <<"reserve", "second">>
  /\ Ops(SecondOps, "second")[3] = <<"spawn", "second">>
  /\ Ops(SecondOps, "second")[4] = <<"bind", "second">>
  /\ Ops(SecondOps, "second")[5] = <<"cell", "second">>
  /\ Ops(SecondOps, "second")[6] = <<"attach", "second">>
  /\ Ops(SecondOps, "second")[7] = <<"mark", "second">>
  /\ Ops(SecondOps, "second")[8] = <<"gate", "second">>
  /\ Ops(SecondOps, "second")[9] = <<"unlock", "second">>
  /\ Ops(SecondOps, "second")[10] = <<"report", "second">>
  /\ Ops(SecondOps, "second")[11] = <<"lock", "second">>
  /\ Ops(SecondOps, "second")[12] = <<"stop", "second">>
  /\ Ops(SecondOps, "second")[13] = <<"unlock", "second">>
  /\ Ops(SecondOps, "second")[14] = <<"kill", "second">>
  /\ Ops(SecondOps, "second")[15] = <<"cellEmpty", "second">>
  /\ Ops(SecondOps, "second")[16] = <<"groupEmpty", "second">>
  /\ Ops(SecondOps, "second")[17] = <<"lock", "second">>
  /\ Ops(SecondOps, "second")[18] = <<"stopped", "second">>
  /\ Ops(SecondOps, "second")[19] = <<"unlock", "second">>
<1>1. PICK k \in Nat : k = 19
  OBVIOUS
<1>2. IsList(SecondOps, OpNames, k) /\ "second" \in Roles \cup {"none"}
  BY <1>1, SecondNames DEF Roles
<1>3. IsList(Ops(SecondOps, "second"), OpSteps, k) /\ \A i \in 1..k : Ops(SecondOps, "second")[i] = <<SecondOps[i], "second">>
  BY <1>1, <1>2, OpsFacts
<1> QED BY <1>1, <1>3, SecondNames

LEMMA InnerPart ==
  /\ IsList(Ops(InnerOps, "second"), OpSteps, 2)
  /\ Ops(InnerOps, "second")[1] = <<"clean", "second">>
  /\ Ops(InnerOps, "second")[2] = <<"reap", "second">>
<1>1. PICK k \in Nat : k = 2
  OBVIOUS
<1>2. IsList(InnerOps, OpNames, k) /\ "second" \in Roles \cup {"none"}
  BY <1>1, InnerNames DEF Roles
<1>3. IsList(Ops(InnerOps, "second"), OpSteps, k) /\ \A i \in 1..k : Ops(InnerOps, "second")[i] = <<InnerOps[i], "second">>
  BY <1>1, <1>2, OpsFacts
<1> QED BY <1>1, <1>3, InnerNames

LEMMA LastPart ==
  /\ IsList(Ops(LastOps, "canary"), OpSteps, 8)
  /\ Ops(LastOps, "canary")[1] = <<"lock", "canary">>
  /\ Ops(LastOps, "canary")[2] = <<"stop", "canary">>
  /\ Ops(LastOps, "canary")[3] = <<"unlock", "canary">>
  /\ Ops(LastOps, "canary")[4] = <<"kill", "canary">>
  /\ Ops(LastOps, "canary")[5] = <<"cellEmpty", "canary">>
  /\ Ops(LastOps, "canary")[6] = <<"groupEmpty", "canary">>
  /\ Ops(LastOps, "canary")[7] = <<"reload", "canary">>
  /\ Ops(LastOps, "canary")[8] = <<"pass", "canary">>
<1>1. PICK k \in Nat : k = 8
  OBVIOUS
<1>2. IsList(LastOps, OpNames, k) /\ "canary" \in Roles \cup {"none"}
  BY <1>1, LastNames DEF Roles
<1>3. IsList(Ops(LastOps, "canary"), OpSteps, k) /\ \A i \in 1..k : Ops(LastOps, "canary")[i] = <<LastOps[i], "canary">>
  BY <1>1, <1>2, OpsFacts
<1> QED BY <1>1, <1>3, LastNames

LEMMA Single == ASSUME NEW x \in OpNames, NEW r \in Roles \cup {"none"} PROVE Ops(<<x>>, r) = <<<<x, r>>>>
BY DEF Ops

LEMMA EndingFacts ==
  /\ IsList(Ending, OpSteps, 7)
  /\ Ending[1] = <<"recover", "none">> /\ Ending[2] = <<"latch", "none">>
  /\ Ending[3] = <<"clean", "target">> /\ Ending[4] = <<"clean", "canary">>
  /\ Ending[5] = <<"reap", "target">> /\ Ending[6] = <<"reap", "canary">>
  /\ Ending[7] = <<"result", "none">>
<1> DEFINE a == <<<<"recover", "none">>, <<"latch", "none">>>>
           b == <<<<"clean", "target">>>>
           c == <<<<"clean", "canary">>>>
           d == <<<<"reap", "target">>>>
           e == <<<<"reap", "canary">>>>
           f == <<<<"result", "none">>>>
           ab == a \o b
           abc == ab \o c
           abcd == abc \o d
           abcde == abcd \o e
           abcdef == abcde \o f
<1>1. IsList(a, OpSteps, 2)
  BY DEF OpSteps, OpNames, Roles, IsList
<1>2. IsList(b, OpSteps, 1)
  BY DEF OpSteps, OpNames, Roles, IsList
<1>3. IsList(c, OpSteps, 1)
  BY DEF OpSteps, OpNames, Roles, IsList
<1>4. IsList(d, OpSteps, 1)
  BY DEF OpSteps, OpNames, Roles, IsList
<1>5. IsList(e, OpSteps, 1)
  BY DEF OpSteps, OpNames, Roles, IsList
<1>6. IsList(f, OpSteps, 1)
  BY DEF OpSteps, OpNames, Roles, IsList
<1>11. /\ a[1] = <<"recover", "none">> /\ a[2] = <<"latch", "none">>
  OBVIOUS
<1>12. /\ b[1] = <<"clean", "target">>
  OBVIOUS
<1>13. /\ c[1] = <<"clean", "canary">>
  OBVIOUS
<1>14. /\ d[1] = <<"reap", "target">>
  OBVIOUS
<1>15. /\ e[1] = <<"reap", "canary">>
  OBVIOUS
<1>16. /\ f[1] = <<"result", "none">>
  OBVIOUS
<1>20. Ending = abcdef
  BY Single DEF Ending, OpNames, Roles
<1> HIDE DEF a, b, c, d, e, f, ab, abc, abcd, abcde, abcdef
<1>21. /\ IsList(ab, OpSteps, 3)
       /\ \A i \in 1..3 : ab[i] = IF i <= 2 THEN a[i] ELSE b[i - 2]
  <2>1. PICK n \in Nat, m \in Nat, k \in Nat : n = 2 /\ m = 1 /\ k = 3
    OBVIOUS
  <2>2. IsList(a, OpSteps, n) /\ IsList(b, OpSteps, m) /\ n + m = k
    BY <1>1, <1>2, <2>1
  <2>3. IsList(ab, OpSteps, k)
    BY <2>2 DEF IsList, ab
  <2>4. \A i \in 1..k : ab[i] = IF i <= n THEN a[i] ELSE b[i - n]
    BY <2>2 DEF IsList, ab
  <2> QED BY <2>1, <2>3, <2>4
<1>22. /\ IsList(abc, OpSteps, 4)
       /\ \A i \in 1..4 : abc[i] = IF i <= 3 THEN ab[i] ELSE c[i - 3]
  <2>1. PICK n \in Nat, m \in Nat, k \in Nat : n = 3 /\ m = 1 /\ k = 4
    OBVIOUS
  <2>2. IsList(ab, OpSteps, n) /\ IsList(c, OpSteps, m) /\ n + m = k
    BY <1>21, <1>3, <2>1
  <2>3. IsList(abc, OpSteps, k)
    BY <2>2 DEF IsList, abc
  <2>4. \A i \in 1..k : abc[i] = IF i <= n THEN ab[i] ELSE c[i - n]
    BY <2>2 DEF IsList, abc
  <2> QED BY <2>1, <2>3, <2>4
<1>23. /\ IsList(abcd, OpSteps, 5)
       /\ \A i \in 1..5 : abcd[i] = IF i <= 4 THEN abc[i] ELSE d[i - 4]
  <2>1. PICK n \in Nat, m \in Nat, k \in Nat : n = 4 /\ m = 1 /\ k = 5
    OBVIOUS
  <2>2. IsList(abc, OpSteps, n) /\ IsList(d, OpSteps, m) /\ n + m = k
    BY <1>22, <1>4, <2>1
  <2>3. IsList(abcd, OpSteps, k)
    BY <2>2 DEF IsList, abcd
  <2>4. \A i \in 1..k : abcd[i] = IF i <= n THEN abc[i] ELSE d[i - n]
    BY <2>2 DEF IsList, abcd
  <2> QED BY <2>1, <2>3, <2>4
<1>24. /\ IsList(abcde, OpSteps, 6)
       /\ \A i \in 1..6 : abcde[i] = IF i <= 5 THEN abcd[i] ELSE e[i - 5]
  <2>1. PICK n \in Nat, m \in Nat, k \in Nat : n = 5 /\ m = 1 /\ k = 6
    OBVIOUS
  <2>2. IsList(abcd, OpSteps, n) /\ IsList(e, OpSteps, m) /\ n + m = k
    BY <1>23, <1>5, <2>1
  <2>3. IsList(abcde, OpSteps, k)
    BY <2>2 DEF IsList, abcde
  <2>4. \A i \in 1..k : abcde[i] = IF i <= n THEN abcd[i] ELSE e[i - n]
    BY <2>2 DEF IsList, abcde
  <2> QED BY <2>1, <2>3, <2>4
<1>25. /\ IsList(abcdef, OpSteps, 7)
       /\ \A i \in 1..7 : abcdef[i] = IF i <= 6 THEN abcde[i] ELSE f[i - 6]
  <2>1. PICK n \in Nat, m \in Nat, k \in Nat : n = 6 /\ m = 1 /\ k = 7
    OBVIOUS
  <2>2. IsList(abcde, OpSteps, n) /\ IsList(f, OpSteps, m) /\ n + m = k
    BY <1>24, <1>6, <2>1
  <2>3. IsList(abcdef, OpSteps, k)
    BY <2>2 DEF IsList, abcdef
  <2>4. \A i \in 1..k : abcdef[i] = IF i <= n THEN abcde[i] ELSE f[i - n]
    BY <2>2 DEF IsList, abcdef
  <2> QED BY <2>1, <2>3, <2>4
<1> QED BY <1>11, <1>12, <1>13, <1>14, <1>15, <1>16, <1>20, <1>21, <1>22, <1>23, <1>24, <1>25

LEMMA ScriptFacts ==
  /\ IsList(Script, OpSteps, 68)
  /\ Len(Body1) = 32 /\ InnerAt = 52 /\ LastAt = 62
  /\ Script[1] = <<"spawn", "canary">> /\ Script[2] = <<"bind", "canary">>
  /\ Script[3] = <<"cell", "canary">> /\ Script[4] = <<"attach", "canary">>
  /\ Script[5] = <<"gate", "canary">> /\ Script[6] = <<"report", "canary">>
  /\ Script[7] = <<"lock", "target">> /\ Script[8] = <<"reserve", "target">>
  /\ Script[9] = <<"spawn", "target">> /\ Script[10] = <<"bind", "target">>
  /\ Script[11] = <<"cell", "target">> /\ Script[12] = <<"attach", "target">>
  /\ Script[13] = <<"mark", "target">> /\ Script[14] = <<"gate", "target">>
  /\ Script[15] = <<"unlock", "target">> /\ Script[16] = <<"report", "target">>
  /\ Script[17] = <<"lock", "target">> /\ Script[18] = <<"stop", "target">>
  /\ Script[19] = <<"unlock", "target">> /\ Script[20] = <<"kill", "target">>
  /\ Script[21] = <<"cellEmpty", "target">> /\ Script[22] = <<"groupEmpty", "target">>
  /\ Script[23] = <<"lock", "target">> /\ Script[24] = <<"stopped", "target">>
  /\ Script[25] = <<"unlock", "target">> /\ Script[26] = <<"probe", "target">>
  /\ Script[27] = <<"check", "target">> /\ Script[28] = <<"checked", "target">>
  /\ Script[29] = <<"reload", "target">> /\ Script[30] = <<"lock", "target">>
  /\ Script[31] = <<"reset", "target">> /\ Script[32] = <<"unlock", "target">>
  /\ Script[33] = <<"lock", "second">> /\ Script[34] = <<"reserve", "second">>
  /\ Script[35] = <<"spawn", "second">> /\ Script[36] = <<"bind", "second">>
  /\ Script[37] = <<"cell", "second">> /\ Script[38] = <<"attach", "second">>
  /\ Script[39] = <<"mark", "second">> /\ Script[40] = <<"gate", "second">>
  /\ Script[41] = <<"unlock", "second">> /\ Script[42] = <<"report", "second">>
  /\ Script[43] = <<"lock", "second">> /\ Script[44] = <<"stop", "second">>
  /\ Script[45] = <<"unlock", "second">> /\ Script[46] = <<"kill", "second">>
  /\ Script[47] = <<"cellEmpty", "second">> /\ Script[48] = <<"groupEmpty", "second">>
  /\ Script[49] = <<"lock", "second">> /\ Script[50] = <<"stopped", "second">>
  /\ Script[51] = <<"unlock", "second">> /\ Script[52] = <<"clean", "second">>
  /\ Script[53] = <<"reap", "second">> /\ Script[54] = <<"lock", "canary">>
  /\ Script[55] = <<"stop", "canary">> /\ Script[56] = <<"unlock", "canary">>
  /\ Script[57] = <<"kill", "canary">> /\ Script[58] = <<"cellEmpty", "canary">>
  /\ Script[59] = <<"groupEmpty", "canary">> /\ Script[60] = <<"reload", "canary">>
  /\ Script[61] = <<"pass", "canary">> /\ Script[62] = <<"recover", "none">>
  /\ Script[63] = <<"latch", "none">> /\ Script[64] = <<"clean", "target">>
  /\ Script[65] = <<"clean", "canary">> /\ Script[66] = <<"reap", "target">>
  /\ Script[67] = <<"reap", "canary">> /\ Script[68] = <<"result", "none">>
<1> DEFINE a == Ops(CanaryOps, "canary")
           b == Ops(TargetOps, "target")
           c == Ops(SecondOps, "second")
           d == Ops(InnerOps, "second")
           e == Ops(LastOps, "canary")
           f == Ending
           ab == a \o b
           abc == ab \o c
           abcd == abc \o d
           abcde == abcd \o e
           abcdef == abcde \o f
<1>1. IsList(a, OpSteps, 6)
  BY CanaryPart
<1>2. IsList(b, OpSteps, 26)
  BY TargetPart
<1>3. IsList(c, OpSteps, 19)
  BY SecondPart
<1>4. IsList(d, OpSteps, 2)
  BY InnerPart
<1>5. IsList(e, OpSteps, 8)
  BY LastPart
<1>6. IsList(f, OpSteps, 7)
  BY EndingFacts
<1>11. /\ a[1] = <<"spawn", "canary">> /\ a[2] = <<"bind", "canary">>
       /\ a[3] = <<"cell", "canary">> /\ a[4] = <<"attach", "canary">>
       /\ a[5] = <<"gate", "canary">> /\ a[6] = <<"report", "canary">>
  BY CanaryPart
<1>12. /\ b[1] = <<"lock", "target">> /\ b[2] = <<"reserve", "target">>
       /\ b[3] = <<"spawn", "target">> /\ b[4] = <<"bind", "target">>
       /\ b[5] = <<"cell", "target">> /\ b[6] = <<"attach", "target">>
       /\ b[7] = <<"mark", "target">> /\ b[8] = <<"gate", "target">>
       /\ b[9] = <<"unlock", "target">> /\ b[10] = <<"report", "target">>
       /\ b[11] = <<"lock", "target">> /\ b[12] = <<"stop", "target">>
       /\ b[13] = <<"unlock", "target">> /\ b[14] = <<"kill", "target">>
       /\ b[15] = <<"cellEmpty", "target">> /\ b[16] = <<"groupEmpty", "target">>
       /\ b[17] = <<"lock", "target">> /\ b[18] = <<"stopped", "target">>
       /\ b[19] = <<"unlock", "target">> /\ b[20] = <<"probe", "target">>
       /\ b[21] = <<"check", "target">> /\ b[22] = <<"checked", "target">>
       /\ b[23] = <<"reload", "target">> /\ b[24] = <<"lock", "target">>
       /\ b[25] = <<"reset", "target">> /\ b[26] = <<"unlock", "target">>
  BY TargetPart
<1>13. /\ c[1] = <<"lock", "second">> /\ c[2] = <<"reserve", "second">>
       /\ c[3] = <<"spawn", "second">> /\ c[4] = <<"bind", "second">>
       /\ c[5] = <<"cell", "second">> /\ c[6] = <<"attach", "second">>
       /\ c[7] = <<"mark", "second">> /\ c[8] = <<"gate", "second">>
       /\ c[9] = <<"unlock", "second">> /\ c[10] = <<"report", "second">>
       /\ c[11] = <<"lock", "second">> /\ c[12] = <<"stop", "second">>
       /\ c[13] = <<"unlock", "second">> /\ c[14] = <<"kill", "second">>
       /\ c[15] = <<"cellEmpty", "second">> /\ c[16] = <<"groupEmpty", "second">>
       /\ c[17] = <<"lock", "second">> /\ c[18] = <<"stopped", "second">>
       /\ c[19] = <<"unlock", "second">>
  BY SecondPart
<1>14. /\ d[1] = <<"clean", "second">> /\ d[2] = <<"reap", "second">>
  BY InnerPart
<1>15. /\ e[1] = <<"lock", "canary">> /\ e[2] = <<"stop", "canary">>
       /\ e[3] = <<"unlock", "canary">> /\ e[4] = <<"kill", "canary">>
       /\ e[5] = <<"cellEmpty", "canary">> /\ e[6] = <<"groupEmpty", "canary">>
       /\ e[7] = <<"reload", "canary">> /\ e[8] = <<"pass", "canary">>
  BY LastPart
<1>16. /\ f[1] = <<"recover", "none">> /\ f[2] = <<"latch", "none">>
       /\ f[3] = <<"clean", "target">> /\ f[4] = <<"clean", "canary">>
       /\ f[5] = <<"reap", "target">> /\ f[6] = <<"reap", "canary">>
       /\ f[7] = <<"result", "none">>
  BY EndingFacts
<1>20. Script = abcdef
  BY DEF Script, Body1, Body2, Inner, Body3, CanaryOps, TargetOps, SecondOps, InnerOps, LastOps
<1>9. Body1 = ab /\ Body1 \o Body2 = abc /\ Body1 \o Body2 \o Inner \o Body3 = abcde
  BY DEF Body1, Body2, Inner, Body3, CanaryOps, TargetOps, SecondOps, InnerOps, LastOps
<1> HIDE DEF a, b, c, d, e, f, ab, abc, abcd, abcde, abcdef
<1>21. /\ IsList(ab, OpSteps, 32)
       /\ \A i \in 1..32 : ab[i] = IF i <= 6 THEN a[i] ELSE b[i - 6]
  <2>1. PICK n \in Nat, m \in Nat, k \in Nat : n = 6 /\ m = 26 /\ k = 32
    OBVIOUS
  <2>2. IsList(a, OpSteps, n) /\ IsList(b, OpSteps, m) /\ n + m = k
    BY <1>1, <1>2, <2>1
  <2>3. IsList(ab, OpSteps, k)
    BY <2>2 DEF IsList, ab
  <2>4. \A i \in 1..k : ab[i] = IF i <= n THEN a[i] ELSE b[i - n]
    BY <2>2 DEF IsList, ab
  <2> QED BY <2>1, <2>3, <2>4
<1>22. /\ IsList(abc, OpSteps, 51)
       /\ \A i \in 1..51 : abc[i] = IF i <= 32 THEN ab[i] ELSE c[i - 32]
  <2>1. PICK n \in Nat, m \in Nat, k \in Nat : n = 32 /\ m = 19 /\ k = 51
    OBVIOUS
  <2>2. IsList(ab, OpSteps, n) /\ IsList(c, OpSteps, m) /\ n + m = k
    BY <1>21, <1>3, <2>1
  <2>3. IsList(abc, OpSteps, k)
    BY <2>2 DEF IsList, abc
  <2>4. \A i \in 1..k : abc[i] = IF i <= n THEN ab[i] ELSE c[i - n]
    BY <2>2 DEF IsList, abc
  <2> QED BY <2>1, <2>3, <2>4
<1>23. /\ IsList(abcd, OpSteps, 53)
       /\ \A i \in 1..53 : abcd[i] = IF i <= 51 THEN abc[i] ELSE d[i - 51]
  <2>1. PICK n \in Nat, m \in Nat, k \in Nat : n = 51 /\ m = 2 /\ k = 53
    OBVIOUS
  <2>2. IsList(abc, OpSteps, n) /\ IsList(d, OpSteps, m) /\ n + m = k
    BY <1>22, <1>4, <2>1
  <2>3. IsList(abcd, OpSteps, k)
    BY <2>2 DEF IsList, abcd
  <2>4. \A i \in 1..k : abcd[i] = IF i <= n THEN abc[i] ELSE d[i - n]
    BY <2>2 DEF IsList, abcd
  <2> QED BY <2>1, <2>3, <2>4
<1>24. /\ IsList(abcde, OpSteps, 61)
       /\ \A i \in 1..61 : abcde[i] = IF i <= 53 THEN abcd[i] ELSE e[i - 53]
  <2>1. PICK n \in Nat, m \in Nat, k \in Nat : n = 53 /\ m = 8 /\ k = 61
    OBVIOUS
  <2>2. IsList(abcd, OpSteps, n) /\ IsList(e, OpSteps, m) /\ n + m = k
    BY <1>23, <1>5, <2>1
  <2>3. IsList(abcde, OpSteps, k)
    BY <2>2 DEF IsList, abcde
  <2>4. \A i \in 1..k : abcde[i] = IF i <= n THEN abcd[i] ELSE e[i - n]
    BY <2>2 DEF IsList, abcde
  <2> QED BY <2>1, <2>3, <2>4
<1>25. /\ IsList(abcdef, OpSteps, 68)
       /\ \A i \in 1..68 : abcdef[i] = IF i <= 61 THEN abcde[i] ELSE f[i - 61]
  <2>1. PICK n \in Nat, m \in Nat, k \in Nat : n = 61 /\ m = 7 /\ k = 68
    OBVIOUS
  <2>2. IsList(abcde, OpSteps, n) /\ IsList(f, OpSteps, m) /\ n + m = k
    BY <1>24, <1>6, <2>1
  <2>3. IsList(abcdef, OpSteps, k)
    BY <2>2 DEF IsList, abcdef
  <2>4. \A i \in 1..k : abcdef[i] = IF i <= n THEN abcde[i] ELSE f[i - n]
    BY <2>2 DEF IsList, abcdef
  <2> QED BY <2>1, <2>3, <2>4
<1>26. Len(Body1) = 32 /\ InnerAt = 52 /\ LastAt = 62
  BY <1>9, <1>21, <1>22, <1>24 DEF InnerAt, LastAt, IsList
<1>31. /\ Script[1] = <<"spawn", "canary">> /\ Script[2] = <<"bind", "canary">>
       /\ Script[3] = <<"cell", "canary">> /\ Script[4] = <<"attach", "canary">>
       /\ Script[5] = <<"gate", "canary">> /\ Script[6] = <<"report", "canary">>
  BY <1>20, <1>11, <1>21, <1>22, <1>23, <1>24, <1>25
<1>32. /\ Script[7] = <<"lock", "target">> /\ Script[8] = <<"reserve", "target">>
       /\ Script[9] = <<"spawn", "target">> /\ Script[10] = <<"bind", "target">>
       /\ Script[11] = <<"cell", "target">> /\ Script[12] = <<"attach", "target">>
       /\ Script[13] = <<"mark", "target">> /\ Script[14] = <<"gate", "target">>
       /\ Script[15] = <<"unlock", "target">> /\ Script[16] = <<"report", "target">>
       /\ Script[17] = <<"lock", "target">> /\ Script[18] = <<"stop", "target">>
       /\ Script[19] = <<"unlock", "target">> /\ Script[20] = <<"kill", "target">>
       /\ Script[21] = <<"cellEmpty", "target">> /\ Script[22] = <<"groupEmpty", "target">>
       /\ Script[23] = <<"lock", "target">> /\ Script[24] = <<"stopped", "target">>
       /\ Script[25] = <<"unlock", "target">> /\ Script[26] = <<"probe", "target">>
       /\ Script[27] = <<"check", "target">> /\ Script[28] = <<"checked", "target">>
       /\ Script[29] = <<"reload", "target">> /\ Script[30] = <<"lock", "target">>
       /\ Script[31] = <<"reset", "target">> /\ Script[32] = <<"unlock", "target">>
  BY <1>20, <1>12, <1>21, <1>22, <1>23, <1>24, <1>25
<1>33. /\ Script[33] = <<"lock", "second">> /\ Script[34] = <<"reserve", "second">>
       /\ Script[35] = <<"spawn", "second">> /\ Script[36] = <<"bind", "second">>
       /\ Script[37] = <<"cell", "second">> /\ Script[38] = <<"attach", "second">>
       /\ Script[39] = <<"mark", "second">> /\ Script[40] = <<"gate", "second">>
       /\ Script[41] = <<"unlock", "second">> /\ Script[42] = <<"report", "second">>
       /\ Script[43] = <<"lock", "second">> /\ Script[44] = <<"stop", "second">>
       /\ Script[45] = <<"unlock", "second">> /\ Script[46] = <<"kill", "second">>
       /\ Script[47] = <<"cellEmpty", "second">> /\ Script[48] = <<"groupEmpty", "second">>
       /\ Script[49] = <<"lock", "second">> /\ Script[50] = <<"stopped", "second">>
       /\ Script[51] = <<"unlock", "second">>
  BY <1>20, <1>13, <1>22, <1>23, <1>24, <1>25
<1>34. /\ Script[52] = <<"clean", "second">> /\ Script[53] = <<"reap", "second">>
  BY <1>20, <1>14, <1>23, <1>24, <1>25
<1>35. /\ Script[54] = <<"lock", "canary">> /\ Script[55] = <<"stop", "canary">>
       /\ Script[56] = <<"unlock", "canary">> /\ Script[57] = <<"kill", "canary">>
       /\ Script[58] = <<"cellEmpty", "canary">> /\ Script[59] = <<"groupEmpty", "canary">>
       /\ Script[60] = <<"reload", "canary">> /\ Script[61] = <<"pass", "canary">>
  BY <1>20, <1>15, <1>24, <1>25
<1>36. /\ Script[62] = <<"recover", "none">> /\ Script[63] = <<"latch", "none">>
       /\ Script[64] = <<"clean", "target">> /\ Script[65] = <<"clean", "canary">>
       /\ Script[66] = <<"reap", "target">> /\ Script[67] = <<"reap", "canary">>
       /\ Script[68] = <<"result", "none">>
  BY <1>20, <1>16, <1>25
<1> QED BY <1>20, <1>25, <1>26, <1>31, <1>32, <1>33, <1>34, <1>35, <1>36

(* The operations and the roles of the script.                             *)
OpAt == [i \in 1..68 |-> Script[i][1]]
RoleAt == [i \in 1..68 |-> Script[i][2]]
LEMMA ScriptNames ==
  /\ OpAt[1] = "spawn" /\ OpAt[2] = "bind" /\ OpAt[3] = "cell"
  /\ OpAt[4] = "attach" /\ OpAt[5] = "gate" /\ OpAt[6] = "report"
  /\ OpAt[7] = "lock" /\ OpAt[8] = "reserve" /\ OpAt[9] = "spawn"
  /\ OpAt[10] = "bind" /\ OpAt[11] = "cell" /\ OpAt[12] = "attach"
  /\ OpAt[13] = "mark" /\ OpAt[14] = "gate" /\ OpAt[15] = "unlock"
  /\ OpAt[16] = "report" /\ OpAt[17] = "lock" /\ OpAt[18] = "stop"
  /\ OpAt[19] = "unlock" /\ OpAt[20] = "kill" /\ OpAt[21] = "cellEmpty"
  /\ OpAt[22] = "groupEmpty" /\ OpAt[23] = "lock" /\ OpAt[24] = "stopped"
  /\ OpAt[25] = "unlock" /\ OpAt[26] = "probe" /\ OpAt[27] = "check"
  /\ OpAt[28] = "checked" /\ OpAt[29] = "reload" /\ OpAt[30] = "lock"
  /\ OpAt[31] = "reset" /\ OpAt[32] = "unlock" /\ OpAt[33] = "lock"
  /\ OpAt[34] = "reserve" /\ OpAt[35] = "spawn" /\ OpAt[36] = "bind"
  /\ OpAt[37] = "cell" /\ OpAt[38] = "attach" /\ OpAt[39] = "mark"
  /\ OpAt[40] = "gate" /\ OpAt[41] = "unlock" /\ OpAt[42] = "report"
  /\ OpAt[43] = "lock" /\ OpAt[44] = "stop" /\ OpAt[45] = "unlock"
  /\ OpAt[46] = "kill" /\ OpAt[47] = "cellEmpty" /\ OpAt[48] = "groupEmpty"
  /\ OpAt[49] = "lock" /\ OpAt[50] = "stopped" /\ OpAt[51] = "unlock"
  /\ OpAt[52] = "clean" /\ OpAt[53] = "reap" /\ OpAt[54] = "lock"
  /\ OpAt[55] = "stop" /\ OpAt[56] = "unlock" /\ OpAt[57] = "kill"
  /\ OpAt[58] = "cellEmpty" /\ OpAt[59] = "groupEmpty" /\ OpAt[60] = "reload"
  /\ OpAt[61] = "pass" /\ OpAt[62] = "recover" /\ OpAt[63] = "latch"
  /\ OpAt[64] = "clean" /\ OpAt[65] = "clean" /\ OpAt[66] = "reap"
  /\ OpAt[67] = "reap" /\ OpAt[68] = "result"
<1>1. \A i \in 1..68 : OpAt[i] = Script[i][1]
  BY DEF OpAt
<1> HIDE DEF OpAt
<1>2. /\ OpAt[1] = "spawn" /\ OpAt[2] = "bind" /\ OpAt[3] = "cell"
      /\ OpAt[4] = "attach" /\ OpAt[5] = "gate" /\ OpAt[6] = "report"
      /\ OpAt[7] = "lock" /\ OpAt[8] = "reserve" /\ OpAt[9] = "spawn"
      /\ OpAt[10] = "bind" /\ OpAt[11] = "cell" /\ OpAt[12] = "attach"
      /\ OpAt[13] = "mark" /\ OpAt[14] = "gate" /\ OpAt[15] = "unlock"
      /\ OpAt[16] = "report" /\ OpAt[17] = "lock" /\ OpAt[18] = "stop"
  BY <1>1, ScriptFacts, SMTT(30)
<1>3. /\ OpAt[19] = "unlock" /\ OpAt[20] = "kill" /\ OpAt[21] = "cellEmpty"
      /\ OpAt[22] = "groupEmpty" /\ OpAt[23] = "lock" /\ OpAt[24] = "stopped"
      /\ OpAt[25] = "unlock" /\ OpAt[26] = "probe" /\ OpAt[27] = "check"
      /\ OpAt[28] = "checked" /\ OpAt[29] = "reload" /\ OpAt[30] = "lock"
      /\ OpAt[31] = "reset" /\ OpAt[32] = "unlock" /\ OpAt[33] = "lock"
      /\ OpAt[34] = "reserve" /\ OpAt[35] = "spawn" /\ OpAt[36] = "bind"
  BY <1>1, ScriptFacts, SMTT(30)
<1>4. /\ OpAt[37] = "cell" /\ OpAt[38] = "attach" /\ OpAt[39] = "mark"
      /\ OpAt[40] = "gate" /\ OpAt[41] = "unlock" /\ OpAt[42] = "report"
      /\ OpAt[43] = "lock" /\ OpAt[44] = "stop" /\ OpAt[45] = "unlock"
      /\ OpAt[46] = "kill" /\ OpAt[47] = "cellEmpty" /\ OpAt[48] = "groupEmpty"
      /\ OpAt[49] = "lock" /\ OpAt[50] = "stopped" /\ OpAt[51] = "unlock"
      /\ OpAt[52] = "clean" /\ OpAt[53] = "reap" /\ OpAt[54] = "lock"
  BY <1>1, ScriptFacts, SMTT(30)
<1>5. /\ OpAt[55] = "stop" /\ OpAt[56] = "unlock" /\ OpAt[57] = "kill"
      /\ OpAt[58] = "cellEmpty" /\ OpAt[59] = "groupEmpty" /\ OpAt[60] = "reload"
      /\ OpAt[61] = "pass" /\ OpAt[62] = "recover" /\ OpAt[63] = "latch"
      /\ OpAt[64] = "clean" /\ OpAt[65] = "clean" /\ OpAt[66] = "reap"
      /\ OpAt[67] = "reap" /\ OpAt[68] = "result"
  BY <1>1, ScriptFacts, SMTT(30)
<1> QED BY <1>2, <1>3, <1>4, <1>5

LEMMA ScriptRoles ==
  /\ RoleAt[1] = "canary" /\ RoleAt[2] = "canary" /\ RoleAt[3] = "canary"
  /\ RoleAt[4] = "canary" /\ RoleAt[5] = "canary" /\ RoleAt[6] = "canary"
  /\ RoleAt[7] = "target" /\ RoleAt[8] = "target" /\ RoleAt[9] = "target"
  /\ RoleAt[10] = "target" /\ RoleAt[11] = "target" /\ RoleAt[12] = "target"
  /\ RoleAt[13] = "target" /\ RoleAt[14] = "target" /\ RoleAt[15] = "target"
  /\ RoleAt[16] = "target" /\ RoleAt[17] = "target" /\ RoleAt[18] = "target"
  /\ RoleAt[19] = "target" /\ RoleAt[20] = "target" /\ RoleAt[21] = "target"
  /\ RoleAt[22] = "target" /\ RoleAt[23] = "target" /\ RoleAt[24] = "target"
  /\ RoleAt[25] = "target" /\ RoleAt[26] = "target" /\ RoleAt[27] = "target"
  /\ RoleAt[28] = "target" /\ RoleAt[29] = "target" /\ RoleAt[30] = "target"
  /\ RoleAt[31] = "target" /\ RoleAt[32] = "target" /\ RoleAt[33] = "second"
  /\ RoleAt[34] = "second" /\ RoleAt[35] = "second" /\ RoleAt[36] = "second"
  /\ RoleAt[37] = "second" /\ RoleAt[38] = "second" /\ RoleAt[39] = "second"
  /\ RoleAt[40] = "second" /\ RoleAt[41] = "second" /\ RoleAt[42] = "second"
  /\ RoleAt[43] = "second" /\ RoleAt[44] = "second" /\ RoleAt[45] = "second"
  /\ RoleAt[46] = "second" /\ RoleAt[47] = "second" /\ RoleAt[48] = "second"
  /\ RoleAt[49] = "second" /\ RoleAt[50] = "second" /\ RoleAt[51] = "second"
  /\ RoleAt[52] = "second" /\ RoleAt[53] = "second" /\ RoleAt[54] = "canary"
  /\ RoleAt[55] = "canary" /\ RoleAt[56] = "canary" /\ RoleAt[57] = "canary"
  /\ RoleAt[58] = "canary" /\ RoleAt[59] = "canary" /\ RoleAt[60] = "canary"
  /\ RoleAt[61] = "canary" /\ RoleAt[62] = "none" /\ RoleAt[63] = "none"
  /\ RoleAt[64] = "target" /\ RoleAt[65] = "canary" /\ RoleAt[66] = "target"
  /\ RoleAt[67] = "canary" /\ RoleAt[68] = "none"
<1>1. \A i \in 1..68 : RoleAt[i] = Script[i][2]
  BY DEF RoleAt
<1> HIDE DEF RoleAt
<1>2. /\ RoleAt[1] = "canary" /\ RoleAt[2] = "canary" /\ RoleAt[3] = "canary"
      /\ RoleAt[4] = "canary" /\ RoleAt[5] = "canary" /\ RoleAt[6] = "canary"
      /\ RoleAt[7] = "target" /\ RoleAt[8] = "target" /\ RoleAt[9] = "target"
      /\ RoleAt[10] = "target" /\ RoleAt[11] = "target" /\ RoleAt[12] = "target"
      /\ RoleAt[13] = "target" /\ RoleAt[14] = "target" /\ RoleAt[15] = "target"
      /\ RoleAt[16] = "target" /\ RoleAt[17] = "target" /\ RoleAt[18] = "target"
  BY <1>1, ScriptFacts, SMTT(30)
<1>3. /\ RoleAt[19] = "target" /\ RoleAt[20] = "target" /\ RoleAt[21] = "target"
      /\ RoleAt[22] = "target" /\ RoleAt[23] = "target" /\ RoleAt[24] = "target"
      /\ RoleAt[25] = "target" /\ RoleAt[26] = "target" /\ RoleAt[27] = "target"
      /\ RoleAt[28] = "target" /\ RoleAt[29] = "target" /\ RoleAt[30] = "target"
      /\ RoleAt[31] = "target" /\ RoleAt[32] = "target" /\ RoleAt[33] = "second"
      /\ RoleAt[34] = "second" /\ RoleAt[35] = "second" /\ RoleAt[36] = "second"
  BY <1>1, ScriptFacts, SMTT(30)
<1>4. /\ RoleAt[37] = "second" /\ RoleAt[38] = "second" /\ RoleAt[39] = "second"
      /\ RoleAt[40] = "second" /\ RoleAt[41] = "second" /\ RoleAt[42] = "second"
      /\ RoleAt[43] = "second" /\ RoleAt[44] = "second" /\ RoleAt[45] = "second"
      /\ RoleAt[46] = "second" /\ RoleAt[47] = "second" /\ RoleAt[48] = "second"
      /\ RoleAt[49] = "second" /\ RoleAt[50] = "second" /\ RoleAt[51] = "second"
      /\ RoleAt[52] = "second" /\ RoleAt[53] = "second" /\ RoleAt[54] = "canary"
  BY <1>1, ScriptFacts, SMTT(30)
<1>5. /\ RoleAt[55] = "canary" /\ RoleAt[56] = "canary" /\ RoleAt[57] = "canary"
      /\ RoleAt[58] = "canary" /\ RoleAt[59] = "canary" /\ RoleAt[60] = "canary"
      /\ RoleAt[61] = "canary" /\ RoleAt[62] = "none" /\ RoleAt[63] = "none"
      /\ RoleAt[64] = "target" /\ RoleAt[65] = "canary" /\ RoleAt[66] = "target"
      /\ RoleAt[67] = "canary" /\ RoleAt[68] = "none"
  BY <1>1, ScriptFacts, SMTT(30)
<1> QED BY <1>2, <1>3, <1>4, <1>5

LEMMA AtFacts ==
  /\ SpawnAt["canary"] = 1 /\ SpawnAt["target"] = 9 /\ SpawnAt["second"] = 35
  /\ CleanAt["canary"] = 65 /\ CleanAt["target"] = 64 /\ CleanAt["second"] = 52
  /\ ReapAt["canary"] = 67 /\ ReapAt["target"] = 66 /\ ReapAt["second"] = 53
BY DEF SpawnAt, CleanAt, ReapAt

(* Where each operation on a role stands in the script.                    *)
RolePlaces(name, r) ==
  /\ place \in 1..68
  /\ name \in {"spawn", "bind", "cell", "attach", "clean", "reap"} => r \in Roles
  /\ \A q \in Roles :
       /\ name = "spawn" /\ r = q <=> place = SpawnAt[q]
       /\ name = "bind" /\ r = q <=> place = SpawnAt[q] + 1
       /\ name = "cell" /\ r = q <=> place = SpawnAt[q] + 2
       /\ name = "attach" /\ r = q <=> place = SpawnAt[q] + 3
       /\ name = "clean" /\ r = q <=> place = CleanAt[q]
       /\ name = "reap" /\ r = q <=> place = ReapAt[q]

LEMMA OpFacts == ASSUME NEW name, NEW r, Op(name, r) PROVE RolePlaces(name, r)
<1>1. place \in 1..68 /\ OpAt[place] = name /\ RoleAt[place] = r
  BY ScriptFacts DEF Op, IsList, OpAt, RoleAt
<1>2. /\ name = "spawn" => r \in Roles
      /\ \A q \in Roles : name = "spawn" /\ r = q <=> place = SpawnAt[q]
  <2>1. name = "spawn" => place \in {1, 9, 35}
    BY <1>1, ScriptNames
  <2>2. place = 1 => name = "spawn" /\ r = "canary"
    BY <1>1, ScriptNames, ScriptRoles
  <2>3. place = 9 => name = "spawn" /\ r = "target"
    BY <1>1, ScriptNames, ScriptRoles
  <2>4. place = 35 => name = "spawn" /\ r = "second"
    BY <1>1, ScriptNames, ScriptRoles
  <2> QED BY <2>1, <2>2, <2>3, <2>4, AtFacts DEF Roles
<1>3. /\ name = "bind" => r \in Roles
      /\ \A q \in Roles : name = "bind" /\ r = q <=> place = SpawnAt[q] + 1
  <2>1. name = "bind" => place \in {2, 10, 36}
    BY <1>1, ScriptNames
  <2>2. place = 2 => name = "bind" /\ r = "canary"
    BY <1>1, ScriptNames, ScriptRoles
  <2>3. place = 10 => name = "bind" /\ r = "target"
    BY <1>1, ScriptNames, ScriptRoles
  <2>4. place = 36 => name = "bind" /\ r = "second"
    BY <1>1, ScriptNames, ScriptRoles
  <2> QED BY <2>1, <2>2, <2>3, <2>4, AtFacts DEF Roles
<1>4. /\ name = "cell" => r \in Roles
      /\ \A q \in Roles : name = "cell" /\ r = q <=> place = SpawnAt[q] + 2
  <2>1. name = "cell" => place \in {3, 11, 37}
    BY <1>1, ScriptNames
  <2>2. place = 3 => name = "cell" /\ r = "canary"
    BY <1>1, ScriptNames, ScriptRoles
  <2>3. place = 11 => name = "cell" /\ r = "target"
    BY <1>1, ScriptNames, ScriptRoles
  <2>4. place = 37 => name = "cell" /\ r = "second"
    BY <1>1, ScriptNames, ScriptRoles
  <2> QED BY <2>1, <2>2, <2>3, <2>4, AtFacts DEF Roles
<1>5. /\ name = "attach" => r \in Roles
      /\ \A q \in Roles : name = "attach" /\ r = q <=> place = SpawnAt[q] + 3
  <2>1. name = "attach" => place \in {4, 12, 38}
    BY <1>1, ScriptNames
  <2>2. place = 4 => name = "attach" /\ r = "canary"
    BY <1>1, ScriptNames, ScriptRoles
  <2>3. place = 12 => name = "attach" /\ r = "target"
    BY <1>1, ScriptNames, ScriptRoles
  <2>4. place = 38 => name = "attach" /\ r = "second"
    BY <1>1, ScriptNames, ScriptRoles
  <2> QED BY <2>1, <2>2, <2>3, <2>4, AtFacts DEF Roles
<1>6. /\ name = "clean" => r \in Roles
      /\ \A q \in Roles : name = "clean" /\ r = q <=> place = CleanAt[q]
  <2>1. name = "clean" => place \in {52, 64, 65}
    BY <1>1, ScriptNames
  <2>2. place = 65 => name = "clean" /\ r = "canary"
    BY <1>1, ScriptNames, ScriptRoles
  <2>3. place = 64 => name = "clean" /\ r = "target"
    BY <1>1, ScriptNames, ScriptRoles
  <2>4. place = 52 => name = "clean" /\ r = "second"
    BY <1>1, ScriptNames, ScriptRoles
  <2> QED BY <2>1, <2>2, <2>3, <2>4, AtFacts DEF Roles
<1>7. /\ name = "reap" => r \in Roles
      /\ \A q \in Roles : name = "reap" /\ r = q <=> place = ReapAt[q]
  <2>1. name = "reap" => place \in {53, 66, 67}
    BY <1>1, ScriptNames
  <2>2. place = 67 => name = "reap" /\ r = "canary"
    BY <1>1, ScriptNames, ScriptRoles
  <2>3. place = 66 => name = "reap" /\ r = "target"
    BY <1>1, ScriptNames, ScriptRoles
  <2>4. place = 53 => name = "reap" /\ r = "second"
    BY <1>1, ScriptNames, ScriptRoles
  <2> QED BY <2>1, <2>2, <2>3, <2>4, AtFacts DEF Roles
<1> QED BY <1>1, <1>2, <1>3, <1>4, <1>5, <1>6, <1>7 DEF RolePlaces

(* The writer lock is taken and given back where the script says so.       *)
LockPlaces(name, r) ==
  /\ name = "lock" => place \notin Locking /\ place + 1 \in Locking
  /\ name = "unlock" => place \in Locking /\ place + 1 \notin Locking
  /\ name = "recover" => place = 62
  /\ name = "latch" <=> place = 63
  /\ name = "stop" <=> place \in {18, 44, 55}
  /\ name \in {"reserve", "mark", "stopped", "reset", "stop"} =>
       place \in Locking /\ place + 1 \in Locking /\ place < 56
  /\ name = "reset" => place = 31 /\ r = "target"
  /\ name = "stopped" <=> place \in {24, 50}
  /\ name \in {"reserve", "mark"} => place < 40
  /\ name \notin {"lock", "unlock", "recover", "latch"} => (place \in Locking <=> place + 1 \in Locking)
  /\ name = "probe" <=> place = 26
  /\ name = "probe" => r = "target"
  /\ name = "check" => place = 27
  /\ name = "result" <=> place = 68

LEMMA LockFacts == ASSUME NEW name, NEW r, Op(name, r) PROVE LockPlaces(name, r)
<1>1. place \in 1..68 /\ OpAt[place] = name /\ RoleAt[place] = r
  BY ScriptFacts DEF Op, IsList, OpAt, RoleAt
<1>2. /\ name = "lock" => place \in {7, 17, 23, 30, 33, 43, 49, 54}
      /\ name = "unlock" => place \in {15, 19, 25, 32, 41, 45, 51, 56}
      /\ name \in {"reserve", "mark"} => place \in {8, 34, 13, 39}
  <2>1. name = "lock" => place \in {7, 17, 23, 30, 33, 43, 49, 54}
    BY <1>1, ScriptNames
  <2>2. name = "unlock" => place \in {15, 19, 25, 32, 41, 45, 51, 56}
    BY <1>1, ScriptNames
  <2>3. name = "reserve" => place \in {8, 34}
    BY <1>1, ScriptNames
  <2>4. name = "mark" => place \in {13, 39}
    BY <1>1, ScriptNames
  <2> QED BY <2>1, <2>2, <2>3, <2>4
<1>3. /\ name = "recover" <=> place = 62
      /\ name = "latch" <=> place = 63
      /\ name = "stop" <=> place \in {18, 44, 55}
      /\ name = "stopped" <=> place \in {24, 50}
  <2>1. name = "recover" <=> place = 62
    BY <1>1, ScriptNames
  <2>2. name = "latch" <=> place = 63
    BY <1>1, ScriptNames
  <2>3. name = "stop" => place \in {18, 44, 55}
    BY <1>1, ScriptNames
  <2>4. name = "stopped" => place \in {24, 50}
    BY <1>1, ScriptNames
  <2>5. /\ place = 18 \/ place = 44 \/ place = 55 => name = "stop"
        /\ place = 24 \/ place = 50 => name = "stopped"
    BY <1>1, ScriptNames
  <2> QED BY <2>1, <2>2, <2>3, <2>4, <2>5
<1>4. /\ name = "reset" => place = 31 /\ r = "target"
      /\ name = "probe" <=> place = 26
      /\ name = "probe" => r = "target"
      /\ name = "check" => place = 27
      /\ name = "result" <=> place = 68
  <2>1. name = "reset" => place = 31 /\ r = "target"
    BY <1>1, ScriptNames, ScriptRoles
  <2>2. /\ name = "probe" <=> place = 26
        /\ name = "probe" => r = "target"
    <3>1. name = "probe" <=> place = 26
      BY <1>1, ScriptNames
    <3>2. place = 26 => r = "target"
      BY <1>1, ScriptRoles
    <3> QED BY <3>1, <3>2
  <2>3. name = "check" => place = 27
    BY <1>1, ScriptNames
  <2>4. name = "result" <=> place = 68
    BY <1>1, ScriptNames, ScriptRoles
  <2> QED BY <2>1, <2>2, <2>3, <2>4
<1>5. /\ place \in {7, 17, 23, 30, 33, 43, 49, 54} => name = "lock"
      /\ place \in {15, 19, 25, 32, 41, 45, 51, 56} => name = "unlock"
  <2>1. /\ place = 7 \/ place = 17 \/ place = 23 \/ place = 30 => name = "lock"
        /\ place = 33 \/ place = 43 \/ place = 49 \/ place = 54 => name = "lock"
    BY <1>1, ScriptNames, ScriptRoles
  <2>2. /\ place = 15 \/ place = 19 \/ place = 25 \/ place = 32 => name = "unlock"
        /\ place = 41 \/ place = 45 \/ place = 51 \/ place = 56 => name = "unlock"
    BY <1>1, ScriptNames, ScriptRoles
  <2> QED BY <2>1, <2>2
<1>6. name \notin {"lock", "unlock", "recover", "latch"} => (place \in Locking <=> place + 1 \in Locking)
  BY <1>1, <1>3, <1>5 DEF Locking
<1>7. /\ name = "lock" => place \notin Locking /\ place + 1 \in Locking
      /\ name = "unlock" => place \in Locking /\ place + 1 \notin Locking
      /\ name \in {"reserve", "mark", "stopped", "reset", "stop"} =>
           place \in Locking /\ place + 1 \in Locking
  BY <1>2, <1>3, <1>4 DEF Locking
<1> QED BY <1>2, <1>3, <1>4, <1>6, <1>7 DEF LockPlaces

(* The run goes on to its next operation, or to a handler.                 *)
MovesOn == place < 68 /\ place' = Onward(place) /\ failed' = failed
Raised == place < LastAt /\ place' = Handler(place) /\ failed' = TRUE

LEMMA MoveFacts ==
  ASSUME RunTypeOK, place # 0
  PROVE  /\ place \in 1..68
         /\ MovesOn => /\ place' \in 1..68 /\ place' > place /\ failed' = failed
                       /\ place' = place + 1 \/ (failed /\ place = 53 /\ place' = 62)
         /\ Raised => /\ place < 62 /\ place' \in 1..68 /\ place' > place /\ failed'
                      /\ (place' = 52 /\ place > 32 /\ place < 52) \/ (place' = 62 /\ (place <= 32 \/ place >= 52))
<1>1. Len(Body1) = 32 /\ InnerAt = 52 /\ LastAt = 62
  BY ScriptFacts
<1>2. place \in 1..68
  BY DEF RunTypeOK
<1>3. MovesOn => /\ place' \in 1..68 /\ place' > place /\ failed' = failed
                 /\ place' = place + 1 \/ (failed /\ place = 53 /\ place' = 62)
  BY <1>1, <1>2 DEF MovesOn, Onward, RunTypeOK
<1>4. Raised => /\ place < 62 /\ place' \in 1..68 /\ place' > place /\ failed'
                /\ (place' = 52 /\ place > 32 /\ place < 52) \/ (place' = 62 /\ (place <= 32 \/ place >= 52))
  BY <1>1, <1>2 DEF Raised, Handler
<1> QED BY <1>2, <1>3, <1>4

(* What an operation does to the roles: who is touched in any case, and    *)
(* what has happened when the run goes on.                                 *)
Steady(name, r) ==
  \A q \in Roles :
    /\ leader[q] = "none" /\ leader'[q] # "none" => name = "spawn" /\ r = q
    /\ leader[q] # "none" => leader'[q] # "none"
    /\ q \in bound' /\ q \notin bound => name = "bind" /\ r = q
    /\ cgroup'[q] # cgroup[q] => r = q /\ ((name = "cell" /\ cgroup'[q] = "made") \/ name = "clean")
    /\ GroupEmpty(q) => GroupEmpty(q)' \/ (name = "spawn" /\ r = q)
    /\ <<q, "leader">> \in members => <<q, "leader">> \in members'
    /\ q \in bound => q \in bound'
Done(name, r) ==
  /\ name = "spawn" => leader'[r] # "none"
  /\ name = "bind" => r \in bound'
  /\ name = "cell" => cgroup'[r] = "made"
  /\ name = "attach" => <<r, "leader">> \in members'
  /\ name = "clean" => errors' \/ cgroup'[r] # "made"
  /\ name = "reap" => errors' \/ r \notin bound \/ GroupEmpty(r)'
  /\ name = "probe" => GroupEmpty("target")

Goes(name) ==
  MovesOn /\ writer' = IF name \in {"lock", "recover"} THEN Demo
                       ELSE IF name \in {"unlock", "latch"} THEN "free" ELSE writer
Raises(name) ==
  Raised /\ name \notin {"lock", "recover", "unlock", "latch", "clean", "reap"}
  /\ writer' = IF writer = Demo THEN "free" ELSE writer

RunStep(name, r) ==
  /\ Op(name, r) /\ Steady(name, r) /\ ((Goes(name) /\ Done(name, r)) \/ Raises(name))
  /\ errors' \in BOOLEAN /\ (errors => errors') /\ sub' = "none"
  /\ name \in {"lock", "recover"} => writer = "free"
  /\ checker' = checker \/ (name = "check" /\ checker' = [checker EXCEPT ![Own].pc = "start"])

LEMMA PlacesKeep ==
  ASSUME NativeIInv, NEW name, NEW r, RunStep(name, r)
  PROVE  NotYetOK' /\ BehindOK' /\ FirstOK' /\ BoundOK'
<1>1. RolePlaces(name, r) /\ LockPlaces(name, r)
  BY OpFacts, LockFacts DEF RunStep
<1>2. place # 0 /\ RunTypeOK
  BY <1>1 DEF RolePlaces, NativeIInv, NativeTypeOK
<1>3. /\ place \in 1..68 /\ place' \in 1..68 /\ place' > place
      /\ \/ Done(name, r) /\ failed' = failed /\ (place' = place + 1 \/ (failed /\ place = 53 /\ place' = 62))
         \/ /\ name \notin {"clean", "reap"} /\ failed' /\ place < 62
            /\ (place' = 52 /\ place > 32 /\ place < 52) \/ (place' = 62 /\ (place <= 32 \/ place >= 52))
  BY <1>2, MoveFacts DEF RunStep, Goes, Raises
<1>4. errors => errors'
  BY DEF RunStep
<1>5. ASSUME NEW q \in Roles
      PROVE  /\ SpawnAt[q] \in 1..35 /\ CleanAt[q] \in 52..65 /\ ReapAt[q] \in 53..67
             /\ CleanAt[q] \notin 53..63 /\ ReapAt[q] \notin 54..65
             /\ CleanAt[q] = 52 \/ ReapAt[q] = 53 => SpawnAt[q] = 35 /\ CleanAt[q] = 52
  BY AtFacts DEF Roles
<1>6. ASSUME NEW q \in Roles
      PROVE  /\ name = "spawn" /\ r = q <=> place = SpawnAt[q]
             /\ name = "bind" /\ r = q <=> place = SpawnAt[q] + 1
             /\ name = "cell" /\ r = q <=> place = SpawnAt[q] + 2
             /\ name = "attach" /\ r = q <=> place = SpawnAt[q] + 3
             /\ name = "clean" /\ r = q <=> place = CleanAt[q]
             /\ name = "reap" /\ r = q <=> place = ReapAt[q]
  BY <1>1 DEF RolePlaces
<1>7. ASSUME NEW q \in Roles
      PROVE  /\ leader[q] = "none" /\ leader'[q] # "none" => place = SpawnAt[q]
             /\ leader[q] # "none" => leader'[q] # "none"
             /\ q \in bound' /\ q \notin bound => place = SpawnAt[q] + 1
             /\ cgroup'[q] # cgroup[q] =>
                  (place = SpawnAt[q] + 2 /\ cgroup'[q] = "made") \/ place = CleanAt[q]
             /\ GroupEmpty(q) => GroupEmpty(q)' \/ place = SpawnAt[q]
             /\ <<q, "leader">> \in members => <<q, "leader">> \in members'
             /\ q \in bound => q \in bound'
  BY <1>6 DEF RunStep, Steady
<1>8. ASSUME NEW q \in Roles
      PROVE  /\ place = SpawnAt[q] => leader'[q] # "none" \/ place' > 51
             /\ place = SpawnAt[q] + 1 => q \in bound' \/ place' > 51
             /\ place = SpawnAt[q] + 2 => cgroup'[q] = "made" \/ place' > 51
             /\ place = SpawnAt[q] + 3 => <<q, "leader">> \in members' \/ place' > 51
             /\ place = SpawnAt[q] + 1 => q \in bound' \/ failed'
             /\ place = CleanAt[q] => errors' \/ cgroup'[q] # "made"
             /\ place = ReapAt[q] => errors' \/ q \notin bound \/ GroupEmpty(q)'
  BY <1>3, <1>6 DEF Done
<1>9. NotYetOK'
  <2>1. ASSUME NEW q \in Roles PROVE NotYet(q)'
    <3>1. NotYet(q)
      BY <1>2 DEF NativeIInv, NotYetOK
    <3>2. PICK s \in 1..35, c \in 52..65 : s = SpawnAt[q] /\ c = CleanAt[q]
      BY <1>5
    <3>3. /\ leader[q] = "none" /\ leader'[q] # "none" => place = s
          /\ leader[q] # "none" => leader'[q] # "none"
          /\ q \in bound' /\ q \notin bound => place = s + 1
          /\ cgroup'[q] # cgroup[q] => (place = s + 2 /\ cgroup'[q] = "made") \/ place = c
          /\ <<q, "leader">> \in members => <<q, "leader">> \in members'
      BY <1>7, <3>2
    <3>4. /\ place = s => leader'[q] # "none" \/ place' > 51
          /\ place = s + 2 => cgroup'[q] = "made" \/ place' > 51
          /\ place = s + 3 => <<q, "leader">> \in members' \/ place' > 51
      BY <1>8, <3>2
    <3>5. place' > place /\ place \in 1..68 /\ place' \in 1..68 /\ (place' <= 51 => place' = place + 1)
      BY <1>3
    <3>6. /\ place' <= s => leader'[q] = "none"
          /\ place' <= s + 1 => q \notin bound'
          /\ s < place' /\ place' <= s + 3 => leader'[q] # "none"
      BY <3>1, <3>2, <3>3, <3>4, <3>5 DEF NotYet
    <3>7. /\ place' <= s + 2 => cgroup'[q] = "none"
          /\ place' = s + 3 => cgroup'[q] = "made"
      BY <3>1, <3>2, <3>3, <3>4, <3>5 DEF NotYet
    <3>8. place' = s + 4 \/ place' = s + 5 => <<q, "leader">> \in members'
      BY <3>1, <3>2, <3>3, <3>4, <3>5 DEF NotYet
    <3>9. place' <= c => cgroup'[q] # "gone"
      BY <3>1, <3>2, <3>3, <3>5 DEF NotYet
    <3> QED BY <3>2, <3>6, <3>7, <3>8, <3>9 DEF NotYet
  <2> QED BY <2>1 DEF NotYetOK
<1>10. BehindOK'
  <2>1. ASSUME ~errors', NEW q \in Roles PROVE Behind(q)'
    <3>1. Behind(q) /\ NotYet(q)
      BY <1>2, <1>4, <2>1 DEF NativeIInv, BehindOK, NotYetOK
    <3>2. /\ SpawnAt[q] \in 1..35 /\ CleanAt[q] \in 52..65 /\ ReapAt[q] \in 53..67
          /\ CleanAt[q] \notin 53..63 /\ ReapAt[q] \notin 54..65
          /\ CleanAt[q] = 52 \/ ReapAt[q] = 53 => SpawnAt[q] = 35 /\ CleanAt[q] = 52
      BY <1>5, <2>1
    <3> DEFINE s == SpawnAt[q]  c == CleanAt[q]  p == ReapAt[q]
    <3>3. /\ q \in bound' /\ q \notin bound => place = s + 1
          /\ cgroup'[q] # cgroup[q] => place = s + 2 \/ place = c
          /\ GroupEmpty(q) => GroupEmpty(q)' \/ place = s
      BY <1>7, <3>2
    <3>4. /\ place = c => cgroup'[q] # "made"
          /\ place = p => q \notin bound \/ GroupEmpty(q)'
      BY <1>8, <2>1, <3>2
    <3>5. place \in 1..68 /\ place' \in 1..68
          /\ (place' > c => place >= c \/ place <= s) /\ (place' > p => place >= p \/ place <= s)
      <4>1. s \in 1..35 /\ c \in 52..65 /\ p \in 53..67 /\ c \notin 53..63 /\ p \notin 54..65
        BY <3>2
      <4>2. c = 52 \/ p = 53 => s = 35 /\ c = 52
        BY <3>2
      <4>0. (place = c => name = "clean") /\ (place = p => name = "reap")
        BY <1>6, <2>1
      <4> HIDE DEF s, c, p
      <4>3. /\ place \in 1..68 /\ place' \in 1..68 /\ place' > place
            /\ \/ place' = place + 1
               \/ place = 53 /\ place' = 62
               \/ place < 62 /\ place' = 52 /\ place > 32 /\ place < 52
               \/ place < 62 /\ place' = 62 /\ (place <= 32 \/ place >= 52) /\ name \notin {"clean", "reap"}
        BY <1>3
      <4> QED BY <4>0, <4>1, <4>2, <4>3
    <3>6. place' > c => cgroup'[q] # "made"
      BY <3>1, <3>2, <3>3, <3>4, <3>5 DEF Behind, NotYet
    <3>7. place' > p /\ q \in bound' => GroupEmpty(q)'
      BY <3>1, <3>2, <3>3, <3>4, <3>5 DEF Behind, NotYet
    <3> QED BY <3>2, <3>6, <3>7 DEF Behind
  <2> QED BY <2>1 DEF BehindOK
<1>11. FirstOK'
  <2>1. SpawnAt["target"] = 9 /\ SpawnAt["second"] = 35 /\ {"target", "second"} \subseteq Roles
    BY AtFacts DEF Roles
  <2>2. /\ place \in 27..51 => GroupEmpty("target")
        /\ leader["second"] # "none" => GroupEmpty("target")
        /\ place <= 35 => leader["second"] = "none"
    BY <1>2, <2>1 DEF NativeIInv, FirstOK, NotYetOK, NotYet
  <2>3. place = 26 => GroupEmpty("target") \/ place' > 51
    BY <1>1, <1>3 DEF LockPlaces, Done
  <2>4. /\ GroupEmpty("target") => GroupEmpty("target")' \/ place = 9
        /\ leader["second"] = "none" /\ leader'["second"] # "none" => place = 35
    BY <1>7, <2>1
  <2>5. place' \in 27..51 => GroupEmpty("target")'
    BY <1>3, <2>2, <2>3, <2>4
  <2>6. leader'["second"] # "none" => GroupEmpty("target")'
    BY <1>3, <2>2, <2>4
  <2> QED BY <2>5, <2>6 DEF FirstOK
<1>12. BoundOK'
  <2> SUFFICES ASSUME ~failed', NEW q \in Roles, place' > SpawnAt[q] + 1 PROVE q \in bound'
    BY DEF BoundOK
  <2>1. ~failed /\ place' = place + 1
    BY <1>3
  <2>2. place > SpawnAt[q] + 1 => q \in bound
    BY <2>1 DEF NativeIInv, BoundOK
  <2>3. /\ place = SpawnAt[q] + 1 => q \in bound'
        /\ q \in bound => q \in bound'
    BY <1>7, <1>8
  <2>4. SpawnAt[q] \in 1..35
    BY <1>5
  <2> QED BY <1>3, <2>1, <2>2, <2>3, <2>4
<1> QED BY <1>9, <1>10, <1>11, <1>12

(* A gate is opened when its workload has been put in its cgroup.          *)
LEMMA GateFacts ==
  ASSUME NEW r, Op("gate", r)
  PROVE  r \in Roles /\ (place = SpawnAt[r] + 4 \/ place = SpawnAt[r] + 5)
<1>1. place \in 1..68 /\ OpAt[place] = "gate" /\ RoleAt[place] = r
  BY ScriptFacts DEF Op, IsList, OpAt, RoleAt
<1>2. place \in {5, 14, 40}
  BY <1>1, ScriptNames
<1>3. /\ place = 5 => r = "canary"
      /\ place = 14 => r = "target"
      /\ place = 40 => r = "second"
  BY <1>1, ScriptRoles
<1> QED BY <1>2, <1>3, AtFacts DEF Roles

LEMMA LockNames == "free" \notin Checkers /\ Demo \notin Checkers /\ Demo # "free" /\ Own \in Checkers
BY NativeAssumption DEF Checkers, Own, Demo

(* Who is under the lock after a step of the run.                          *)
LEMMA LockKeeps ==
  ASSUME NativeIInv, NEW name, NEW r, RunStep(name, r)
  PROVE  WriterOK'
<1>1. RolePlaces(name, r) /\ LockPlaces(name, r)
  BY OpFacts, LockFacts DEF RunStep
<1>2. place # 0 /\ RunTypeOK /\ place \in 1..68
  BY <1>1 DEF RolePlaces, NativeIInv, NativeTypeOK
<1>3. /\ \A c \in Checkers : checker[c].pc = "in" <=> writer = c
      /\ writer = Demo <=> place \in Locking
      /\ place \in 1..27 => checker[Own].pc = "idle"
      /\ checker \in [Checkers -> [pc : {"idle", "start", "wait", "in", "end"}, saw : Stores, code : 0..2]]
  BY DEF NativeIInv, WriterOK, NativeTypeOK, StoreTypeOK
<1>4. place' > place /\ place' \in 1..68
  BY <1>2, MoveFacts DEF RunStep, Goes, Raises
<1>5. writer' = Demo <=> place' \in Locking
  <2>1. CASE Goes(name)
    <3>1. place' = place + 1 \/ (place = 53 /\ place' = 62)
      BY <1>2, <2>1, MoveFacts DEF Goes
    <3>2. writer' = IF name \in {"lock", "recover"} THEN Demo
                    ELSE IF name \in {"unlock", "latch"} THEN "free" ELSE writer
      BY <2>1 DEF Goes
    <3>3. 62 \notin Locking /\ 63 \in Locking /\ 64 \notin Locking /\ 53 \notin Locking /\ 54 \notin Locking
      BY DEF Locking
    <3>4. CASE place = 53 /\ place' = 62
      <4>1. name \notin {"lock", "recover", "unlock", "latch"}
        BY <1>1, <3>3, <3>4 DEF LockPlaces
      <4> QED BY <1>3, <3>2, <3>3, <3>4, <4>1
    <3>5. CASE place' = place + 1
      <4>1. name = "lock" \/ name = "recover" => place' \in Locking
        BY <1>1, <3>3, <3>5 DEF LockPlaces
      <4>2. name = "unlock" \/ name = "latch" => place' \notin Locking
        BY <1>1, <3>3, <3>5 DEF LockPlaces
      <4>3. name \notin {"lock", "recover", "unlock", "latch"} => (place \in Locking <=> place' \in Locking)
        BY <1>1, <3>5 DEF LockPlaces
      <4> QED BY <1>3, <3>2, <4>1, <4>2, <4>3, LockNames
    <3> QED BY <3>1, <3>4, <3>5
  <2>2. CASE Raises(name)
    <3>1. place' = 52 \/ place' = 62
      BY <1>2, <2>2, MoveFacts DEF Raises
    <3>2. writer' # Demo
      BY <2>2, LockNames DEF Raises
    <3> QED BY <3>1, <3>2 DEF Locking
  <2> QED BY <2>1, <2>2 DEF RunStep
<1>6. ASSUME NEW c \in Checkers PROVE checker'[c].pc = "in" <=> writer' = c
  <2>1. c # "free" /\ c # Demo
    BY LockNames
  <2>2. checker[c].pc = "in" <=> writer = c
    BY <1>3
  <2>3. checker'[c].pc = "in" <=> checker[c].pc = "in"
    <3>1. CASE checker' = checker
      BY <3>1
    <3>2. CASE name = "check" /\ checker' = [checker EXCEPT ![Own].pc = "start"]
      <4>1. checker[Own].pc = "idle"
        BY <1>1, <1>2, <1>3, <3>2 DEF LockPlaces
      <4> QED BY <1>3, <3>2, <4>1, LockNames
    <3> QED BY <3>1, <3>2 DEF RunStep
  <2>4. name \in {"lock", "recover"} => writer = "free"
    BY DEF RunStep
  <2>5. name \in {"unlock", "latch"} => writer = Demo
    BY <1>1, <1>3 DEF LockPlaces, Locking
  <2> QED BY <2>1, <2>2, <2>3, <2>4, <2>5 DEF RunStep, Goes, Raises
<1>7. place' \in 1..27 => checker'[Own].pc = "idle"
  <2>1. place' \in 1..27 => checker[Own].pc = "idle" /\ place # 27
    BY <1>2, <1>3, <1>4
  <2>2. checker' = checker \/ place = 27
    BY <1>1 DEF RunStep, LockPlaces
  <2> QED BY <2>1, <2>2
<1>8. sub' = "none"
  BY DEF RunStep
<1> QED BY <1>5, <1>6, <1>7, <1>8 DEF WriterOK

(* Only the end of the run has a result.                                   *)
LEMMA ResultKeeps ==
  ASSUME NativeIInv, NEW name, NEW r, RunStep(name, r), UNCHANGED result
  PROVE  RunTypeOK' /\ (result' # "none" => place' \in {0, 68}) /\ ReportIsTrue'
<1>1. place \in 1..68 /\ RunTypeOK
  BY OpFacts DEF RunStep, RolePlaces, NativeIInv, NativeTypeOK
<1>2. place < 68 /\ place' \in 1..68 /\ failed' \in BOOLEAN
  <2>1. CASE Goes(name)
    BY <1>1, <2>1, MoveFacts DEF Goes, MovesOn, RunTypeOK
  <2>2. CASE Raises(name)
    <3>1. place < 68 /\ place' \in 1..68
      BY <1>1, <2>2, MoveFacts DEF Raises
    <3>2. failed' = TRUE
      BY <2>2 DEF Raises, Raised
    <3> QED BY <3>1, <3>2
  <2> QED BY <2>1, <2>2 DEF RunStep
<1>3. result' = "none"
  BY <1>1, <1>2 DEF NativeIInv
<1>4. RunTypeOK'
  BY <1>1, <1>2, <1>3 DEF RunTypeOK, RunStep
<1> QED BY <1>3, <1>4 DEF ReportIsTrue
(* A step of the run, from what it does to the store and to the workloads. *)
LEMMA RunKeeps ==
  ASSUME NativeIInv, NEW name, NEW r, RunStep(name, r), UNCHANGED result,
         store' \in Stores, barred' \in BOOLEAN, WorkTypeOK', BarredOK', WorkOK', StoppedOK'
  PROVE  NativeIInv'
<1>1. NotYetOK' /\ BehindOK' /\ FirstOK' /\ BoundOK'
  BY PlacesKeep
<1>2. WriterOK'
  BY LockKeeps
<1>3. RunTypeOK' /\ (result' # "none" => place' \in {0, 68}) /\ ReportIsTrue'
  BY ResultKeeps
<1>4. StoreTypeOK'
  <2>1. checker \in [Checkers -> [pc : {"idle", "start", "wait", "in", "end"}, saw : Stores, code : 0..2]]
    BY DEF NativeIInv, NativeTypeOK, StoreTypeOK
  <2>2. checker' \in [Checkers -> [pc : {"idle", "start", "wait", "in", "end"}, saw : Stores, code : 0..2]]
    <3>1. CASE checker' = checker
      BY <2>1, <3>1
    <3>2. CASE checker' = [checker EXCEPT ![Own].pc = "start"]
      BY <2>1, <3>2
    <3> QED BY <3>1, <3>2 DEF RunStep
  <2> QED BY <2>2 DEF StoreTypeOK
<1> QED BY <1>1, <1>2, <1>3, <1>4 DEF NativeIInv, NativeTypeOK

LEMMA BarredKeeps ==
  ASSUME BarredOK, store'.mode = store.mode, marks \subseteq marks', barred' = barred
  PROVE  BarredOK'
BY DEF BarredOK

(* Beside a stop and its record, no step makes or undoes what a stopped    *)
(* run has done.                                                           *)
LEMMA StoppedKeeps ==
  ASSUME NativeIInv, NEW name, NEW r, RunStep(name, r), name \notin {"stop", "stopped"},
         UNCHANGED <<store, marks>> \/ place < 44 \/ failed'
  PROVE  StoppedOK'
<1> SUFFICES ASSUME ~failed' PROVE /\ place' >= 45 => marks' = {} /\ store'.mode = "STOP_LATCHED" /\ sub' = "none"
                                   /\ place' >= 51 => store'.active = "none"
  BY DEF StoppedOK
<1>1. LockPlaces(name, r) /\ place \in 1..68 /\ RunTypeOK /\ sub' = "none"
  BY OpFacts, LockFacts DEF RunStep, RolePlaces, NativeIInv, NativeTypeOK
<1>2. Goes(name) /\ ~failed
  BY DEF RunStep, Raises, Raised, Goes, MovesOn
<1>3. place' = place + 1
  BY <1>1, <1>2, MoveFacts DEF Goes
<1>4. place # 44 /\ place # 50
  BY <1>1 DEF LockPlaces
<1>5. CASE place < 44
  BY <1>1, <1>3, <1>5
<1>6. CASE UNCHANGED <<store, marks>>
  <2>1. /\ place >= 45 => marks = {} /\ store.mode = "STOP_LATCHED"
        /\ place >= 51 => store.active = "none"
    BY <1>2 DEF NativeIInv, StoppedOK
  <2> QED BY <1>1, <1>3, <1>4, <1>6, <2>1
<1> QED BY <1>5, <1>6

(* What leaves the workloads alone.                                        *)
WorkNames == {"spawn", "bind", "cell", "attach", "clean", "reap", "probe"}
LEMMA StillSteady ==
  ASSUME NEW name, NEW r, UNCHANGED <<bound, workVars>>
  PROVE  Steady(name, r) /\ (name \notin WorkNames => Done(name, r))
<1>1. leader' = leader /\ child' = child /\ cgroup' = cgroup /\ members' = members /\ bound' = bound
  BY DEF workVars
<1>2. \A q : GroupEmpty(q)' <=> GroupEmpty(q)
  BY <1>1 DEF GroupEmpty
<1> QED BY <1>1, <1>2 DEF Steady, Done, WorkNames

LEMMA StillWork == ASSUME NativeIInv, UNCHANGED workVars, UNCHANGED bound PROVE WorkTypeOK' /\ WorkOK'
<1>1. WorkTypeOK /\ WorkOK
  BY DEF NativeIInv, NativeTypeOK
<1>2. leader' = leader /\ child' = child /\ cgroup' = cgroup /\ members' = members /\ gates' = gates
  BY DEF workVars
<1>3. WorkTypeOK'
  BY <1>1, <1>2 DEF WorkTypeOK
<1>4. WorkOK'
  BY <1>1, <1>2 DEF WorkOK, Held, CellEmpty
<1> QED BY <1>3, <1>4

(* A step that goes on, or raises, as a step of the run.                   *)
LEMMA GoSteps ==
  ASSUME NativeIInv, NEW name, NEW r, Op(name, r), name \notin {"lock", "recover", "unlock", "latch", "result"},
         Steady(name, r), errors' \in BOOLEAN, errors => errors',
         checker' = checker \/ (name = "check" /\ checker' = [checker EXCEPT ![Own].pc = "start"]),
         \/ Go /\ UNCHANGED writer /\ Done(name, r)
         \/ Raise /\ name \notin {"clean", "reap"}
  PROVE  RunStep(name, r)
<1>1. place < 68
  BY OpFacts, LockFacts DEF LockPlaces, RolePlaces
<1>2. CASE Go /\ UNCHANGED writer /\ Done(name, r)
  <2>1. Goes(name) /\ sub' = "none"
    BY <1>1, <1>2 DEF Go, Goes, MovesOn
  <2> QED BY <1>2, <2>1 DEF RunStep
<1>3. CASE Raise /\ name \notin {"clean", "reap"}
  <2>1. Raises(name) /\ sub' = "none"
    BY <1>3 DEF Raise, Raises, Raised
  <2> QED BY <1>3, <2>1 DEF RunStep
<1> QED BY <1>2, <1>3

(* The lock is taken, and given back; the checker's answer is waited for.  *)
LEMMA PlainKeeps ==
  ASSUME NativeIInv, NEW name, NEW r, RunStep(name, r), name \notin {"stop", "stopped"},
         UNCHANGED <<store, marks, barred, bound, result, workVars>>
  PROVE  NativeIInv'
<1>1. store \in Stores /\ barred \in BOOLEAN /\ BarredOK
  BY DEF NativeIInv, NativeTypeOK, StoreTypeOK
<1>2. BarredOK'
  BY <1>1, BarredKeeps
<1>3. StoppedOK'
  BY StoppedKeeps
<1>4. WorkTypeOK' /\ WorkOK'
  BY StillWork
<1> QED BY <1>1, <1>2, <1>3, <1>4, RunKeeps

LEMMA LockStepKeeps == ASSUME NativeIInv, NEW r, LockStep(r) PROVE NativeIInv'
<1>1. place < 68 /\ errors \in BOOLEAN
  BY OpFacts, LockFacts DEF LockPlaces, RolePlaces, LockStep, NativeIInv, NativeTypeOK, RunTypeOK
<1>2. Steady("lock", r) /\ Done("lock", r)
  BY StillSteady DEF LockStep, WorkNames
<1>3. RunStep("lock", r)
  BY <1>1, <1>2 DEF LockStep, Go, Enters, RunStep, Goes, MovesOn
<1> QED BY <1>3, PlainKeeps DEF LockStep

LEMMA UnlockStepKeeps == ASSUME NativeIInv, NEW r, UnlockStep(r) PROVE NativeIInv'
<1>1. place < 68 /\ errors \in BOOLEAN
  BY OpFacts, LockFacts DEF LockPlaces, RolePlaces, UnlockStep, NativeIInv, NativeTypeOK, RunTypeOK
<1>2. Steady("unlock", r) /\ Done("unlock", r)
  BY StillSteady DEF UnlockStep, WorkNames
<1>3. RunStep("unlock", r)
  BY <1>1, <1>2 DEF UnlockStep, Go, RunStep, Goes, MovesOn
<1> QED BY <1>3, PlainKeeps DEF UnlockStep

LEMMA RecoverKeeps == ASSUME NativeIInv, Recover PROVE NativeIInv'
<1>1. place = 62 /\ errors \in BOOLEAN /\ sub = "none"
  <2>1. place = 62
    BY LockFacts DEF LockPlaces, Recover
  <2> QED BY <2>1 DEF NativeIInv, NativeTypeOK, RunTypeOK, WriterOK
<1>2. Steady("recover", "none") /\ Done("recover", "none")
  BY StillSteady DEF Recover, WorkNames
<1>3. Onward(62) = 63
  BY ScriptFacts DEF Onward
<1>4. RunStep("recover", "none")
  BY <1>1, <1>2, <1>3 DEF Recover, Enters, RunStep, Goes, MovesOn
<1> QED BY <1>4, PlainKeeps DEF Recover

LEMMA CheckedKeeps == ASSUME NativeIInv, NEW r, Checked(r) PROVE NativeIInv'
<1>1. errors \in BOOLEAN
  BY DEF NativeIInv, NativeTypeOK, RunTypeOK
<1>2. Steady("checked", r) /\ Done("checked", r)
  BY StillSteady DEF Checked, WorkNames
<1>3. RunStep("checked", r)
  BY <1>1, <1>2, GoSteps DEF Checked
<1> QED BY <1>3, PlainKeeps DEF Checked

(* A write of the run under its lock.                                      *)
StoreNames == {"reserve", "mark", "stopped", "reset"}
LEMMA StoreKeeps ==
  ASSUME NativeIInv, NEW name \in StoreNames, NEW r, Op(name, r),
         (Go /\ UNCHANGED writer) \/ Raise, UNCHANGED <<checker, errors, bound, result, workVars>>,
         store' \in Stores, barred' \in BOOLEAN, BarredOK',
         name = "stopped" /\ ~failed' => UNCHANGED marks /\ store' = [store EXCEPT !.active = "none"]
  PROVE  NativeIInv'
<1>1. errors \in BOOLEAN
  BY DEF NativeIInv, NativeTypeOK, RunTypeOK
<1>2. Steady(name, r) /\ Done(name, r)
  BY StillSteady DEF WorkNames, StoreNames
<1>3. RunStep(name, r)
  BY <1>1, <1>2, GoSteps DEF StoreNames
<1>4. WorkTypeOK' /\ WorkOK'
  BY StillWork
<1>5. LockPlaces(name, r) /\ place \in 1..68 /\ RunTypeOK /\ sub' = "none"
  BY <1>3, OpFacts, LockFacts DEF RunStep, RolePlaces, NativeIInv, NativeTypeOK
<1>6. StoppedOK'
  <2>1. CASE name # "stopped"
    <3>1. place < 44
      BY <1>5, <2>1 DEF LockPlaces, StoreNames
    <3> QED BY <1>3, <2>1, <3>1, StoppedKeeps DEF StoreNames
  <2>2. CASE name = "stopped" /\ failed'
    BY <2>2 DEF StoppedOK
  <2>3. CASE name = "stopped" /\ ~failed'
    <3>1. Goes(name) /\ ~failed
      BY <1>3, <2>3 DEF RunStep, Raises, Raised, Goes, MovesOn
    <3>2. place' = place + 1 /\ (place = 24 \/ place = 50)
      BY <1>5, <2>3, <3>1, MoveFacts DEF Goes, LockPlaces
    <3>3. place >= 45 => marks = {} /\ store.mode = "STOP_LATCHED"
      BY <3>1 DEF NativeIInv, StoppedOK
    <3>4. marks' = marks /\ store'.mode = store.mode /\ store'.active = "none"
      BY <2>3 DEF NativeIInv, NativeTypeOK, StoreTypeOK, Stores
    <3> QED BY <1>5, <3>2, <3>3, <3>4 DEF StoppedOK
  <2> QED BY <2>1, <2>2, <2>3
<1> QED BY <1>3, <1>4, <1>6, RunKeeps

(* A write that is done, or fails: what is then in the file and beside it. *)
LEMMA WriteFacts ==
  ASSUME NEW new, Writes(new)
  PROVE  /\ (Go /\ UNCHANGED writer) \/ Raise
         /\ store' = new \/ store' = store
         /\ marks \subseteq marks'
         /\ ~failed' => store' = new /\ UNCHANGED marks
<1>1. CASE Written(new) /\ Go /\ UNCHANGED writer
  BY <1>1 DEF Written
<1>2. CASE WriteFails(new) /\ Raise
  <2>1. failed' = TRUE
    BY <1>2 DEF Raise
  <2>2. (store' = new \/ store' = store) /\ marks \subseteq marks'
    BY <1>2 DEF WriteFails
  <2> QED BY <1>2, <2>1, <2>2
<1> QED BY <1>1, <1>2 DEF Writes

LEMMA ReserveKeeps == ASSUME NativeIInv, NEW r, Reserve(r) PROVE NativeIInv'
<1>1. store \in Stores /\ barred \in BOOLEAN /\ BarredOK
  BY DEF NativeIInv, NativeTypeOK, StoreTypeOK
<1> DEFINE new == [store EXCEPT !.active = "pending"]
<1>2. new \in Stores /\ new.mode = store.mode
  BY <1>1 DEF Stores
<1>3. /\ (Go /\ UNCHANGED writer) \/ Raise
      /\ store' = new \/ store' = store
      /\ marks \subseteq marks'
  BY WriteFacts DEF Reserve
<1>4. store' \in Stores /\ barred' \in BOOLEAN /\ BarredOK'
  BY <1>1, <1>2, <1>3, BarredKeeps DEF Reserve
<1>5. Op("reserve", r) /\ UNCHANGED <<checker, errors, bound, result, workVars>>
  BY DEF Reserve
<1> QED BY <1>3, <1>4, <1>5, StoreKeeps DEF StoreNames

LEMMA MarkActiveKeeps == ASSUME NativeIInv, NEW r \in Roles \cup {"none"}, MarkActive(r) PROVE NativeIInv'
<1>1. store \in Stores /\ barred \in BOOLEAN /\ BarredOK
  BY DEF NativeIInv, NativeTypeOK, StoreTypeOK
<1> DEFINE new == [store EXCEPT !.active = r]
<1>2. new \in Stores /\ new.mode = store.mode
  BY <1>1 DEF Stores
<1>3. /\ (Go /\ UNCHANGED writer) \/ Raise
      /\ store' = new \/ store' = store
      /\ marks \subseteq marks'
  BY WriteFacts DEF MarkActive
<1>4. store' \in Stores /\ barred' \in BOOLEAN /\ BarredOK'
  BY <1>1, <1>2, <1>3, BarredKeeps DEF MarkActive
<1>5. Op("mark", r) /\ UNCHANGED <<checker, errors, bound, result, workVars>>
  BY DEF MarkActive
<1> QED BY <1>3, <1>4, <1>5, StoreKeeps DEF StoreNames

LEMMA MarkStoppedKeeps == ASSUME NativeIInv, NEW r, MarkStopped(r) PROVE NativeIInv'
<1>1. store \in Stores /\ barred \in BOOLEAN /\ BarredOK
  BY DEF NativeIInv, NativeTypeOK, StoreTypeOK
<1> DEFINE new == [store EXCEPT !.active = "none"]
<1>2. new \in Stores /\ new.mode = store.mode
  BY <1>1 DEF Stores
<1>3. /\ (Go /\ UNCHANGED writer) \/ Raise
      /\ store' = new \/ store' = store
      /\ marks \subseteq marks'
      /\ ~failed' => store' = new /\ UNCHANGED marks
  <2>1. CASE Writes(new)
    BY <2>1, WriteFacts
  <2>2. CASE Raise /\ UNCHANGED <<store, marks, admissionFaults>>
    BY <2>2 DEF Raise
  <2> QED BY <2>1, <2>2 DEF MarkStopped
<1>4. store' \in Stores /\ barred' \in BOOLEAN /\ BarredOK'
  BY <1>1, <1>2, <1>3, BarredKeeps DEF MarkStopped
<1>5. Op("stopped", r) /\ UNCHANGED <<checker, errors, bound, result, workVars>>
  BY DEF MarkStopped
<1> QED BY <1>3, <1>4, <1>5, StoreKeeps DEF StoreNames

LEMMA ResetStopKeeps == ASSUME NativeIInv, NEW r, ResetStop(r) PROVE NativeIInv'
<1>1. store \in Stores /\ barred \in BOOLEAN /\ BarredOK
  BY DEF NativeIInv, NativeTypeOK, StoreTypeOK
<1> DEFINE new == [mode |-> "OPEN", active |-> "none", gen |-> store.gen + 1]
<1>2. new \in Stores /\ new.mode = "OPEN"
  BY <1>1 DEF Stores
<1>3. /\ (Go /\ UNCHANGED writer) \/ Raise
      /\ store' = new \/ store' = store
      /\ marks \subseteq marks'
      /\ barred' = barred \/ (store.mode = "STOP_LATCHED" /\ barred' = (store'.mode # "OPEN" /\ barred))
      /\ store' = new => barred' = (store'.mode # "OPEN" /\ barred) \/ store = new
  <2>1. CASE Writes(new) /\ store.mode = "STOP_LATCHED" /\ barred' = (store'.mode # "OPEN" /\ barred)
    BY <2>1, WriteFacts
  <2>2. CASE Raise /\ UNCHANGED <<store, marks, admissionFaults, barred>>
    BY <2>2
  <2> QED BY <2>1, <2>2 DEF ResetStop
<1>4. barred' \in BOOLEAN /\ store' \in Stores
  BY <1>1, <1>2, <1>3
<1>5. BarredOK'
  <2>1. CASE store' = store
    BY <1>1, <1>3, <2>1 DEF BarredOK
  <2>2. CASE store' = new /\ store # new
    <3>1. barred' = FALSE
      BY <1>2, <1>3, <2>2
    <3> QED BY <3>1 DEF BarredOK
  <2> QED BY <1>3, <2>1, <2>2
<1>6. Op("reset", r) /\ UNCHANGED <<checker, errors, bound, result, workVars>>
  BY DEF ResetStop
<1> QED BY <1>3, <1>4, <1>5, <1>6, StoreKeeps DEF StoreNames

(* A stop that ends or raises is a step of the run.                        *)
LEMMA StopSteps ==
  ASSUME NativeIInv, NEW name \in {"stop", "latch"}, NEW r, Op(name, r), StopEnds \/ StopRaises,
         UNCHANGED <<checker, bound, workVars>>
  PROVE  /\ RunStep(name, r)
         /\ name = "stop" => StopEnds \/ failed'
         /\ ~failed' => ~failed /\ place' = place + 1
<1>1. LockPlaces(name, r) /\ place \in 1..68 /\ RunTypeOK
  BY OpFacts, LockFacts DEF RolePlaces, NativeIInv, NativeTypeOK
<1>2. LastAt = 62 /\ InnerAt = 52
  BY ScriptFacts
<1>3. Steady(name, r) /\ Done(name, r)
  BY StillSteady DEF WorkNames
<1>4. errors \in BOOLEAN /\ failed \in BOOLEAN
  BY <1>1 DEF RunTypeOK
<1>5. CASE name = "stop"
  <2>1. place < 62 /\ place # 53
    BY <1>1, <1>5 DEF LockPlaces
  <2>2. errors' = errors /\ ((Go /\ UNCHANGED writer) \/ Raise)
    BY <1>2, <2>1 DEF StopEnds, StopRaises
  <2>3. RunStep(name, r)
    BY <1>3, <1>4, <1>5, <2>2, GoSteps
  <2>4. ~failed' => StopEnds /\ Go
    BY <1>2, <2>1 DEF StopRaises, StopEnds, Raise
  <2>5. Go => place' = place + 1 /\ failed' = failed
    BY <1>2, <2>1 DEF Go, Onward
  <2> QED BY <2>3, <2>4, <2>5
<1>6. CASE name = "latch"
  <2>1. place = 63
    BY <1>1, <1>6 DEF LockPlaces
  <2>2. place' = 64 /\ sub' = "none" /\ writer' = "free" /\ failed' = failed /\ (errors' = errors \/ errors' = TRUE)
    BY <1>2, <2>1 DEF StopEnds, StopRaises
  <2>3. Onward(63) = 64
    BY <1>2 DEF Onward
  <2>4. Goes(name)
    BY <1>6, <2>1, <2>2, <2>3 DEF Goes, MovesOn
  <2>5. RunStep(name, r)
    BY <1>3, <1>4, <1>6, <2>2, <2>4 DEF RunStep
  <2> QED BY <1>6, <2>1, <2>2, <2>5
<1> QED BY <1>5, <1>6

(* A stop that goes on to its next part.                                   *)
LEMMA MidStop ==
  ASSUME NativeIInv, place \in {18, 44, 55, 63}, store' \in Stores, barred' \in BOOLEAN, BarredOK',
         sub' \in {"armed", "latched"}, marks' = {"transition"}, sub' = "latched" => store'.mode = "STOP_LATCHED",
         sub # "none" \/ store.mode # "STOP_LATCHED",
         UNCHANGED <<checker, writer, place, failed, errors, bound, result, workVars>>
  PROVE  NativeIInv'
<1>1. leader' = leader /\ child' = child /\ cgroup' = cgroup /\ members' = members /\ gates' = gates
  BY DEF workVars
<1>2. \A q : (GroupEmpty(q)' <=> GroupEmpty(q)) /\ (CellEmpty(q)' <=> CellEmpty(q))
  BY <1>1 DEF GroupEmpty, CellEmpty
<1>3. /\ StoreTypeOK /\ RunTypeOK /\ WorkTypeOK /\ WriterOK /\ WorkOK /\ NotYetOK /\ BehindOK /\ FirstOK
      /\ BoundOK /\ StoppedOK /\ (result # "none" => place \in {0, 68})
  BY DEF NativeIInv, NativeTypeOK
<1>4. StoreTypeOK' /\ RunTypeOK' /\ WorkTypeOK'
  <2>1. StoreTypeOK'
    BY <1>3 DEF StoreTypeOK
  <2>2. RunTypeOK'
    BY <1>3 DEF RunTypeOK
  <2>3. WorkTypeOK'
    BY <1>1, <1>3 DEF WorkTypeOK
  <2> QED BY <2>1, <2>2, <2>3
<1>5. WriterOK'
  BY <1>3 DEF WriterOK
<1>6. WorkOK'
  BY <1>1, <1>2, <1>3 DEF WorkOK, Held
<1>7. NotYetOK' /\ BehindOK' /\ FirstOK' /\ BoundOK'
  <2>1. NotYetOK'
    BY <1>1, <1>3 DEF NotYetOK, NotYet
  <2>2. BehindOK'
    BY <1>1, <1>2, <1>3 DEF BehindOK, Behind
  <2>3. FirstOK'
    BY <1>1, <1>2, <1>3 DEF FirstOK
  <2>4. BoundOK'
    BY <1>3 DEF BoundOK
  <2> QED BY <2>1, <2>2, <2>3, <2>4
<1>8. StoppedOK'
  BY <1>3 DEF StoppedOK
<1>9. result' = "none"
  BY <1>3
<1>10. (result' # "none" => place' \in {0, 68}) /\ ReportIsTrue'
  BY <1>9 DEF ReportIsTrue
<1> QED BY <1>4, <1>5, <1>6, <1>7, <1>8, <1>10 DEF NativeIInv, NativeTypeOK

(* A stop that ends or raises, from what is then on disk.                  *)
LEMMA StopStepKeeps ==
  ASSUME NativeIInv, NEW name \in {"stop", "latch"}, NEW r, Op(name, r), StopEnds \/ StopRaises,
         UNCHANGED <<checker, bound, result, workVars>>,
         store' \in Stores, barred' = barred, BarredOK',
         name = "stop" /\ ~failed' => marks' = {} /\ store'.mode = "STOP_LATCHED",
         sub = "none" /\ marks = {} /\ store.mode = "STOP_LATCHED" => UNCHANGED <<store, marks>>
  PROVE  NativeIInv'
<1>1. RunStep(name, r) /\ (~failed' => ~failed /\ place' = place + 1)
  BY StopSteps
<1>2. LockPlaces(name, r) /\ place \in 1..68 /\ sub' = "none"
  BY <1>1, OpFacts, LockFacts DEF RolePlaces, RunStep
<1>3. WorkTypeOK' /\ WorkOK' /\ barred' \in BOOLEAN
  BY StillWork DEF NativeIInv, NativeTypeOK, StoreTypeOK
<1>4. StoppedOK'
  <2> SUFFICES ASSUME ~failed'
               PROVE  /\ place' >= 45 => marks' = {} /\ store'.mode = "STOP_LATCHED" /\ sub' = "none"
                      /\ place' >= 51 => store'.active = "none"
    BY DEF StoppedOK
  <2>1. /\ place >= 45 => marks = {} /\ store.mode = "STOP_LATCHED" /\ sub = "none"
        /\ place >= 51 => store.active = "none"
    BY <1>1 DEF NativeIInv, StoppedOK
  <2>2. place >= 45 => UNCHANGED <<store, marks>>
    BY <2>1
  <2>3. place \in {18, 44, 55, 63} /\ (place = 44 => name = "stop")
    BY <1>2 DEF LockPlaces
  <2>4. place' = place + 1
    BY <1>1
  <2>5. CASE place >= 45
    BY <1>2, <2>1, <2>2, <2>3, <2>4, <2>5
  <2>6. CASE place < 45
    BY <1>1, <1>2, <2>3, <2>4, <2>6
  <2> QED BY <1>2, <2>5, <2>6
<1> QED BY <1>1, <1>3, <1>4, RunKeeps

LEMMA RequestStopKeeps == ASSUME NativeIInv, NEW r, RequestStop(r) PROVE NativeIInv'
<1>1. PICK name \in {"stop", "latch"} : Op(name, r)
  BY DEF RequestStop, Stopping
<1>2. place \in {18, 44, 55, 63} /\ place # 0
  BY <1>1, LockFacts DEF LockPlaces
<1>3. store \in Stores /\ barred \in BOOLEAN /\ BarredOK
  BY DEF NativeIInv, NativeTypeOK, StoreTypeOK
<1>4. /\ sub # "none" => marks = {"transition"}
      /\ sub = "latched" => store.mode = "STOP_LATCHED"
  BY <1>2 DEF NativeIInv, WriterOK
<1>5. UNCHANGED <<checker, bound, result, workVars>>
  BY DEF RequestStop
<1>6. Latched \in Stores /\ Latched.mode = "STOP_LATCHED"
  BY <1>3 DEF Latched, Stores
<1>7. name = "stop" /\ StopRaises => failed'
  <2>1. name = "stop" => place < LastAt
    BY <1>1, LockFacts, ScriptFacts DEF LockPlaces
  <2> QED BY <2>1 DEF StopRaises, Raise
<1>8. CASE Arm
  <2>1. sub = "none"
    BY <1>8 DEF Arm
  <2>2. CASE StopRaises /\ marks # {} /\ UNCHANGED <<store, marks, barred>>
    <3>1. BarredOK'
      BY <1>3, <2>2, BarredKeeps
    <3> QED BY <1>1, <1>3, <1>5, <1>7, <2>2, <3>1, StopStepKeeps
  <2>3. CASE StopEnds /\ marks = {} /\ store.mode = "STOP_LATCHED" /\ UNCHANGED <<store, marks, barred>>
    <3>1. BarredOK'
      BY <1>3, <2>3, BarredKeeps
    <3> QED BY <1>1, <1>3, <1>5, <2>3, <3>1, StopStepKeeps
  <2>4. CASE /\ store.mode # "STOP_LATCHED" /\ marks' = {"transition"} /\ barred' = TRUE /\ sub' = "armed"
             /\ UNCHANGED <<store, writer, place, failed, errors>>
    <3>1. BarredOK'
      BY <2>4 DEF BarredOK
    <3> QED BY <1>2, <1>3, <1>5, <2>4, <3>1, MidStop
  <2>5. CASE StopRaises /\ marks = {} /\ store.mode # "STOP_LATCHED" /\ UNCHANGED <<store, barred>>
    <3>1. BarredOK'
      BY <1>3, <2>5, BarredKeeps
    <3> QED BY <1>1, <1>3, <1>5, <1>7, <2>5, <3>1, StopStepKeeps
  <2> QED BY <1>8, <2>2, <2>3, <2>4, <2>5 DEF Arm, Loads
<1>9. CASE Latch
  <2>1. sub = "armed" /\ barred' = barred
    BY <1>9 DEF Latch
  <2>2. CASE store' = Latched /\ UNCHANGED marks /\ sub' = "latched" /\ UNCHANGED <<writer, place, failed, errors>>
    <3>1. BarredOK' /\ store'.mode = "STOP_LATCHED"
      BY <1>6, <2>2 DEF BarredOK
    <3> QED BY <1>2, <1>3, <1>4, <1>5, <1>6, <2>1, <2>2, <3>1, MidStop
  <2>3. CASE WriteFails(Latched) /\ StopRaises
    <3>1. store' = Latched \/ (store' = store /\ marks \subseteq marks')
      BY <2>3 DEF WriteFails
    <3>2. BarredOK'
      BY <1>3, <1>6, <2>1, <3>1 DEF BarredOK
    <3> QED BY <1>1, <1>3, <1>5, <1>6, <1>7, <2>1, <2>3, <3>1, <3>2, StopStepKeeps
  <2> QED BY <1>9, <2>2, <2>3 DEF Latch, Written
<1>10. CASE Disarm
  <2>1. sub = "latched" /\ store' = store /\ barred' = barred
    BY <1>10 DEF Disarm
  <2>2. BarredOK'
    BY <1>4, <2>1 DEF BarredOK
  <2>3. CASE marks' = marks \ {"transition"} /\ StopEnds
    <3>1. marks' = {}
      BY <1>4, <2>1, <2>3
    <3> QED BY <1>1, <1>3, <1>4, <1>5, <2>1, <2>2, <2>3, <3>1, StopStepKeeps
  <2>4. CASE StopRaises
    BY <1>1, <1>3, <1>5, <1>7, <2>1, <2>2, <2>4, StopStepKeeps
  <2> QED BY <1>10, <2>3, <2>4 DEF Disarm
<1> QED BY <1>8, <1>9, <1>10 DEF RequestStop

(* The steps on processes and cgroups.                                     *)
OtherNames == OpNames \ {"lock", "recover", "unlock", "latch", "result", "stop", "stopped", "clean", "reap"}
LEMMA StepKeeps ==
  ASSUME NativeIInv, NEW name \in OtherNames, NEW r, Op(name, r), UNCHANGED <<store, marks, errors, result, barred>>,
         Steady(name, r), WorkTypeOK', WorkOK',
         checker' = checker \/ (name = "check" /\ checker' = [checker EXCEPT ![Own].pc = "start"]),
         (Go /\ UNCHANGED writer /\ Done(name, r)) \/ Raise
  PROVE  NativeIInv'
<1>1. errors \in BOOLEAN /\ store \in Stores /\ barred \in BOOLEAN /\ BarredOK
  BY DEF NativeIInv, NativeTypeOK, RunTypeOK, StoreTypeOK
<1>2. name \notin {"lock", "recover", "unlock", "latch", "result", "stop", "stopped", "clean", "reap"}
  BY DEF OtherNames
<1>3. RunStep(name, r)
  BY <1>1, <1>2, GoSteps
<1>4. BarredOK'
  BY <1>1, BarredKeeps
<1>5. StoppedOK'
  BY <1>2, <1>3, StoppedKeeps
<1> QED BY <1>1, <1>3, <1>4, <1>5, RunKeeps

LEMMA StepFails ==
  ASSUME NativeIInv, NEW name \in OtherNames, NEW r, Op(name, r), Raise,
         UNCHANGED <<store, marks, errors, result, barred, checker, bound, workVars>>
  PROVE  NativeIInv'
<1>1. Steady(name, r) /\ WorkTypeOK' /\ WorkOK'
  BY StillSteady, StillWork
<1> QED BY <1>1, StepKeeps

(* What the run only looks at.                                             *)
LEMMA SeesKeeps ==
  ASSUME NativeIInv, NEW name \in OtherNames \ {"spawn", "bind", "cell", "attach"}, NEW r, NEW what,
         Sees(name, r, what), name = "probe" /\ what => GroupEmpty(r)
  PROVE  NativeIInv'
<1>1. Op(name, r) /\ UNCHANGED <<store, marks, errors, result, barred, checker, bound, workVars>>
  BY DEF Sees, Step
<1>2. Steady(name, r) /\ WorkTypeOK' /\ WorkOK' /\ (name # "probe" => Done(name, r))
  BY <1>1, StillSteady, StillWork DEF OtherNames, WorkNames
<1>3. CASE what /\ Go /\ UNCHANGED writer
  <2>1. name = "probe" => r = "target" /\ GroupEmpty(r)
    BY <1>1, <1>3, LockFacts DEF LockPlaces
  <2>2. name = "probe" => Done(name, r)
    BY <2>1 DEF Done
  <2>3. Done(name, r)
    BY <1>2, <2>2
  <2> QED BY <1>1, <1>2, <1>3, <2>3, StepKeeps
<1>4. CASE Raise
  BY <1>1, <1>4, StepFails
<1> QED BY <1>3, <1>4 DEF Sees, Step

(* A step on the workload of a role, in the place the script has it.       *)
LEMMA RoleFacts ==
  ASSUME NativeIInv, NEW name, NEW r, Op(name, r)
  PROVE  /\ WorkTypeOK /\ WorkOK /\ place # 0 /\ place \in Nat
         /\ name \in {"spawn", "bind", "cell", "attach", "clean", "reap"} => r \in Roles
         /\ \A q \in Roles : NotYet(q) /\ Held(q) /\ SpawnAt[q] \in Nat /\ CleanAt[q] > SpawnAt[q] + 3
         /\ r \in Roles => /\ name = "spawn" => place = SpawnAt[r]
                           /\ name = "bind" => place = SpawnAt[r] + 1
                           /\ name = "cell" => place = SpawnAt[r] + 2
                           /\ name = "attach" => place = SpawnAt[r] + 3
                           /\ name = "clean" => place = CleanAt[r]
                           /\ name = "reap" => place = ReapAt[r]
<1>1. RolePlaces(name, r)
  BY OpFacts
<1>2. WorkTypeOK /\ WorkOK /\ NotYetOK
  BY DEF NativeIInv, NativeTypeOK
<1>3. place # 0 /\ place \in Nat
  BY <1>1 DEF RolePlaces
<1>4. \A q \in Roles : NotYet(q) /\ Held(q)
  BY <1>2, <1>3 DEF NotYetOK, WorkOK
<1>5. \A q \in Roles : SpawnAt[q] \in Nat /\ CleanAt[q] > SpawnAt[q] + 3
  BY AtFacts DEF Roles
<1>6. name \in {"spawn", "bind", "cell", "attach", "clean", "reap"} => r \in Roles
  BY <1>1 DEF RolePlaces
<1>7. r \in Roles => /\ name = "spawn" => place = SpawnAt[r]
                     /\ name = "bind" => place = SpawnAt[r] + 1
                     /\ name = "cell" => place = SpawnAt[r] + 2
                     /\ name = "attach" => place = SpawnAt[r] + 3
                     /\ name = "clean" => place = CleanAt[r]
                     /\ name = "reap" => place = ReapAt[r]
  BY <1>1 DEF RolePlaces
<1> QED BY <1>2, <1>3, <1>4, <1>5, <1>6, <1>7

LEMMA SpawnedKeeps == ASSUME NativeIInv, NEW r, Step("spawn", r, Spawned(r)) PROVE NativeIInv'
<1>1. Op("spawn", r) /\ UNCHANGED <<store, marks, errors, result, barred>> /\ "spawn" \in OtherNames
  BY DEF Step, OtherNames, OpNames
<1>2. r \in Roles /\ WorkTypeOK /\ \A q \in Roles : Held(q)
  BY <1>1, RoleFacts
<1>3. leader[r] = "none" /\ cgroup[r] = "none"
  <2>1. place = SpawnAt[r] /\ SpawnAt[r] \in Nat /\ NotYet(r)
    BY <1>1, <1>2, RoleFacts
  <2> QED BY <2>1 DEF NotYet
<1>4. CASE Spawned(r) /\ Go /\ UNCHANGED writer
  <2>1. /\ checker' = checker /\ bound' = bound /\ child' = child /\ cgroup' = cgroup /\ members' = members
        /\ gates' = gates /\ leader' = [leader EXCEPT ![r] = "live"]
    BY <1>4 DEF Spawned
  <2>2. leader'[r] = "live" /\ \A q \in Roles \ {r} : leader'[q] = leader[q]
    BY <1>2, <2>1 DEF WorkTypeOK
  <2>3. WorkTypeOK'
    BY <1>2, <2>1 DEF WorkTypeOK, States
  <2>4. ASSUME NEW q \in Roles PROVE Held(q)'
    <3>1. CASE q = r
      BY <1>2, <1>3, <2>1, <2>2, <3>1 DEF Held
    <3>2. CASE q # r
      BY <1>2, <2>1, <2>2, <3>2 DEF Held, CellEmpty
    <3> QED BY <3>1, <3>2
  <2>5. Steady("spawn", r) /\ Done("spawn", r)
    BY <2>1, <2>2 DEF Steady, Done, GroupEmpty
  <2> QED BY <1>1, <1>4, <2>1, <2>3, <2>4, <2>5, StepKeeps DEF WorkOK
<1>5. CASE Raise /\ UNCHANGED <<checker, bound, workVars>>
  BY <1>1, <1>5, StepFails
<1> QED BY <1>4, <1>5 DEF Step

LEMMA BoundKeeps == ASSUME NativeIInv, NEW r, Step("bind", r, Known(r)) PROVE NativeIInv'
<1>1. Op("bind", r) /\ UNCHANGED <<store, marks, errors, result, barred>> /\ "bind" \in OtherNames
  BY DEF Step, OtherNames, OpNames
<1>2. r \in Roles /\ WorkTypeOK /\ WorkOK
  BY <1>1, RoleFacts
<1>3. CASE Known(r) /\ Go /\ UNCHANGED writer
  <2>1. /\ checker' = checker /\ bound' = bound \cup {r} /\ leader' = leader /\ child' = child
        /\ cgroup' = cgroup /\ members' = members /\ gates' = gates
    BY <1>3 DEF Known, workVars
  <2>2. WorkTypeOK'
    BY <1>2, <2>1 DEF WorkTypeOK
  <2>3. WorkOK'
    BY <1>2, <2>1 DEF WorkOK, Held, CellEmpty
  <2>4. Steady("bind", r) /\ Done("bind", r)
    BY <2>1 DEF Steady, Done, GroupEmpty
  <2> QED BY <1>1, <1>3, <2>1, <2>2, <2>3, <2>4, StepKeeps
<1>4. CASE Raise /\ UNCHANGED <<checker, bound, workVars>>
  BY <1>1, <1>4, StepFails
<1> QED BY <1>3, <1>4 DEF Step

LEMMA CellKeeps == ASSUME NativeIInv, NEW r, Step("cell", r, Made(r)) PROVE NativeIInv'
<1>1. Op("cell", r) /\ UNCHANGED <<store, marks, errors, result, barred>> /\ "cell" \in OtherNames
  BY DEF Step, OtherNames, OpNames
<1>2. r \in Roles /\ WorkTypeOK /\ \A q \in Roles : Held(q)
  BY <1>1, RoleFacts
<1>3. CASE Made(r) /\ Go /\ UNCHANGED writer
  <2>1. /\ checker' = checker /\ bound' = bound /\ leader' = leader /\ child' = child /\ members' = members
        /\ gates' = gates /\ cgroup' = [cgroup EXCEPT ![r] = "made"]
    BY <1>3 DEF Made
  <2>2. cgroup'[r] = "made" /\ \A q \in Roles \ {r} : cgroup'[q] = cgroup[q]
    BY <1>2, <2>1 DEF WorkTypeOK
  <2>3. WorkTypeOK'
    BY <1>2, <2>1 DEF WorkTypeOK
  <2>4. ASSUME NEW q \in Roles PROVE Held(q)'
    <3>1. CASE q = r
      BY <1>2, <2>1, <2>2, <3>1 DEF Held
    <3>2. CASE q # r
      BY <1>2, <2>1, <2>2, <3>2 DEF Held, CellEmpty
    <3> QED BY <3>1, <3>2
  <2>5. Steady("cell", r) /\ Done("cell", r)
    BY <2>1, <2>2 DEF Steady, Done, GroupEmpty
  <2> QED BY <1>1, <1>3, <2>1, <2>3, <2>4, <2>5, StepKeeps DEF WorkOK
<1>4. CASE Raise /\ UNCHANGED <<checker, bound, workVars>>
  BY <1>1, <1>4, StepFails
<1> QED BY <1>3, <1>4 DEF Step

LEMMA AttachKeeps == ASSUME NativeIInv, NEW r, Step("attach", r, Attached(r)) PROVE NativeIInv'
<1>1. Op("attach", r) /\ UNCHANGED <<store, marks, errors, result, barred>> /\ "attach" \in OtherNames
  BY DEF Step, OtherNames, OpNames
<1>2. r \in Roles /\ WorkTypeOK /\ \A q \in Roles : Held(q)
  BY <1>1, RoleFacts
<1>3. cgroup[r] = "made" /\ leader[r] # "none"
  <2>1. place = SpawnAt[r] + 3 /\ SpawnAt[r] \in Nat /\ NotYet(r)
    BY <1>1, <1>2, RoleFacts
  <2> QED BY <2>1 DEF NotYet
<1>4. CASE Attached(r) /\ Go /\ UNCHANGED writer
  <2>1. /\ checker' = checker /\ bound' = bound /\ leader' = leader /\ child' = child /\ cgroup' = cgroup
        /\ gates' = gates /\ members' = members \cup {<<r, "leader">>}
    BY <1>4 DEF Attached
  <2>2. WorkTypeOK'
    BY <1>2, <2>1 DEF WorkTypeOK
  <2>3. ASSUME NEW q \in Roles PROVE Held(q)'
    <3>1. <<q, "child">> \in members' <=> <<q, "child">> \in members
      BY <2>1
    <3>2. CASE q = r
      BY <1>2, <1>3, <2>1, <3>1, <3>2 DEF Held
    <3>3. CASE q # r
      <4>1. <<q, "leader">> \in members' <=> <<q, "leader">> \in members
        BY <2>1, <3>3
      <4> QED BY <1>2, <2>1, <3>1, <4>1 DEF Held, CellEmpty
    <3> QED BY <3>2, <3>3
  <2>4. Steady("attach", r) /\ Done("attach", r)
    BY <2>1 DEF Steady, Done, GroupEmpty
  <2> QED BY <1>1, <1>4, <2>1, <2>2, <2>3, <2>4, StepKeeps DEF WorkOK
<1>5. CASE Raise /\ UNCHANGED <<checker, bound, workVars>>
  BY <1>1, <1>5, StepFails
<1> QED BY <1>4, <1>5 DEF Step

LEMMA GateKeeps == ASSUME NativeIInv, NEW r, Step("gate", r, Opened(r)) PROVE NativeIInv'
<1>1. Op("gate", r) /\ UNCHANGED <<store, marks, errors, result, barred>> /\ "gate" \in OtherNames
  BY DEF Step, OtherNames, OpNames
<1>2. r \in Roles /\ WorkTypeOK /\ \A q \in Roles : Held(q)
  BY <1>1, RoleFacts, GateFacts
<1>3. <<r, "leader">> \in members
  BY <1>1, <1>2, RoleFacts, GateFacts DEF NotYet
<1>4. CASE Opened(r) /\ Go /\ UNCHANGED writer
  <2>1. /\ checker' = checker /\ bound' = bound /\ leader' = leader /\ child' = child /\ cgroup' = cgroup
        /\ members' = members /\ gates' = gates \cup {r}
    BY <1>4 DEF Opened
  <2>2. WorkTypeOK'
    BY <1>2, <2>1 DEF WorkTypeOK
  <2>3. ASSUME NEW q \in Roles PROVE Held(q)'
    BY <1>2, <1>3, <2>1 DEF Held, CellEmpty
  <2>4. Steady("gate", r) /\ Done("gate", r)
    BY <2>1 DEF Steady, Done, GroupEmpty
  <2> QED BY <1>1, <1>4, <2>1, <2>2, <2>3, <2>4, StepKeeps DEF WorkOK
<1>5. CASE Raise /\ UNCHANGED <<checker, bound, workVars>>
  BY <1>1, <1>5, StepFails
<1> QED BY <1>4, <1>5 DEF Step

LEMMA CheckingKeeps == ASSUME NativeIInv, NEW r, Step("check", r, CheckerStarted) PROVE NativeIInv'
<1>1. Op("check", r) /\ UNCHANGED <<store, marks, errors, result, barred>> /\ "check" \in OtherNames
  BY DEF Step, OtherNames, OpNames
<1>2. CASE CheckerStarted /\ Go /\ UNCHANGED writer
  <2>1. Steady("check", r) /\ Done("check", r) /\ WorkTypeOK' /\ WorkOK'
    BY <1>2, StillSteady, StillWork DEF CheckerStarted, WorkNames
  <2> QED BY <1>1, <1>2, <2>1, StepKeeps DEF CheckerStarted
<1>3. CASE Raise /\ UNCHANGED <<checker, bound, workVars>>
  BY <1>1, <1>3, StepFails
<1> QED BY <1>2, <1>3 DEF Step

(* A kill of a cgroup makes no one live, and no one of none.               *)
LEMMA KillKeeps == ASSUME NativeIInv, NEW r, Step("kill", r, CellKilled(r)) PROVE NativeIInv'
<1>1. Op("kill", r) /\ UNCHANGED <<store, marks, errors, result, barred>> /\ "kill" \in OtherNames
  BY DEF Step, OtherNames, OpNames
<1>2. WorkTypeOK /\ \A q \in Roles : Held(q)
  BY <1>1, RoleFacts
<1>3. CASE CellKilled(r) /\ Go /\ UNCHANGED writer
  <2>1. /\ checker' = checker /\ bound' = bound /\ cgroup' = cgroup /\ members' = members /\ gates' = gates
        /\ leader' = leader \/ (leader' = [leader EXCEPT ![r] = "dying"] /\ leader[r] = "live")
        /\ child' = child \/ (child' = [child EXCEPT ![r] = "dying"] /\ child[r] = "live")
    BY <1>3 DEF CellKilled, Doom
  <2>2. leader' \in [Roles -> States] /\ child' \in [Roles -> States]
    BY <1>2, <2>1 DEF WorkTypeOK, States
  <2>3. ASSUME NEW q \in Roles
        PROVE  /\ leader'[q] = "none" <=> leader[q] = "none"
               /\ child'[q] = "none" <=> child[q] = "none"
               /\ Over(leader[q]) => Over(leader'[q])
               /\ Over(child[q]) => Over(child'[q])
    <3>1. leader'[q] = leader[q] \/ (leader[q] = "live" /\ leader'[q] = "dying")
      BY <1>2, <2>1 DEF WorkTypeOK
    <3>2. child'[q] = child[q] \/ (child[q] = "live" /\ child'[q] = "dying")
      BY <1>2, <2>1 DEF WorkTypeOK
    <3> QED BY <3>1, <3>2 DEF Over
  <2>4. WorkTypeOK'
    BY <1>2, <2>1, <2>2 DEF WorkTypeOK
  <2>5. ASSUME NEW q \in Roles PROVE Held(q)'
    BY <1>2, <2>1, <2>3 DEF Held, CellEmpty
  <2>6. Steady("kill", r) /\ Done("kill", r)
    BY <2>1, <2>3 DEF Steady, Done, GroupEmpty
  <2> QED BY <1>1, <1>3, <2>1, <2>4, <2>5, <2>6, StepKeeps DEF WorkOK
<1>4. CASE Raise /\ UNCHANGED <<checker, bound, workVars>>
  BY <1>1, <1>4, StepFails
<1> QED BY <1>3, <1>4 DEF Step

LEMMA WorkKeeps == ASSUME NativeIInv, NEW r, Work(r) PROVE NativeIInv'
<1>1. CASE \/ Sees("report", r, child[r] # "none") \/ Sees("cellEmpty", r, CellEmpty(r))
           \/ Sees("groupEmpty", r, GroupEmpty(r)) \/ Sees("probe", r, ExternallyEmpty(r))
           \/ Sees("reload", r, Loads) \/ Sees("pass", r, TRUE)
  <2>1. {"report", "cellEmpty", "groupEmpty", "probe", "reload", "pass"}
          \subseteq OtherNames \ {"spawn", "bind", "cell", "attach"}
    BY DEF OtherNames, OpNames
  <2>2. ExternallyEmpty(r) => GroupEmpty(r)
    BY DEF ExternallyEmpty
  <2> QED BY <1>1, <2>1, <2>2, SeesKeeps
<1> QED BY <1>1, SpawnedKeeps, BoundKeeps, CellKeeps, AttachKeeps, GateKeeps, KillKeeps, CheckingKeeps DEF Work

(* The cleanup goes on, whatever it notes.                                 *)
LEMMA ProceedKeeps ==
  ASSUME NativeIInv, NEW name \in {"clean", "reap"}, NEW r, NEW e \in BOOLEAN, Op(name, r), Proceed(e),
         UNCHANGED <<store, marks, writer, checker, result, barred>>,
         Steady(name, r), Done(name, r), WorkTypeOK', WorkOK'
  PROVE  NativeIInv'
<1>1. LockPlaces(name, r) /\ place \in 1..68
  BY OpFacts, LockFacts DEF RolePlaces
<1>2. errors \in BOOLEAN /\ store \in Stores /\ barred \in BOOLEAN /\ BarredOK
  BY DEF NativeIInv, NativeTypeOK, RunTypeOK, StoreTypeOK
<1>3. sub = "none"
  <2>1. place \notin {18, 44, 55, 63}
    BY <1>1 DEF LockPlaces
  <2> QED BY <1>1, <2>1 DEF NativeIInv, NativeTypeOK, RunTypeOK, WriterOK
<1>4. errors' \in BOOLEAN /\ (errors => errors')
  BY <1>2 DEF Proceed
<1>5. Goes(name)
  BY <1>1 DEF Goes, MovesOn, LockPlaces, Proceed
<1>6. RunStep(name, r)
  BY <1>3, <1>4, <1>5 DEF RunStep, Proceed
<1>7. BarredOK'
  BY <1>2, BarredKeeps
<1>8. StoppedOK'
  BY <1>6, StoppedKeeps
<1> QED BY <1>2, <1>6, <1>7, <1>8, RunKeeps

LEMMA CleanKeeps == ASSUME NativeIInv, NEW r, Clean(r) PROVE NativeIInv'
<1>1. /\ Op("clean", r) /\ UNCHANGED <<store, marks, writer, checker, result, barred>>
      /\ bound' = bound /\ members' = members /\ gates' = gates
  BY DEF Clean
<1>2. r \in Roles /\ WorkTypeOK /\ WorkOK /\ \A q \in Roles : Held(q)
  BY <1>1, RoleFacts
<1>3. CASE cgroup[r] = "none" /\ Proceed(FALSE) /\ UNCHANGED <<leader, child, cgroup>>
  <2>1. UNCHANGED <<bound, workVars>>
    BY <1>1, <1>3 DEF workVars
  <2>2. Steady("clean", r) /\ WorkTypeOK' /\ WorkOK'
    BY <2>1, StillSteady, StillWork
  <2>3. Done("clean", r)
    BY <1>3 DEF Done
  <2> QED BY <1>1, <1>3, <2>2, <2>3, ProceedKeeps
<1>4. CASE cgroup[r] = "made" /\ Proceed(TRUE) /\ UNCHANGED <<leader, child, cgroup>>
  <2>1. UNCHANGED <<bound, workVars>>
    BY <1>1, <1>4 DEF workVars
  <2>2. Steady("clean", r) /\ WorkTypeOK' /\ WorkOK'
    BY <2>1, StillSteady, StillWork
  <2>3. Done("clean", r)
    BY <1>4 DEF Done, Proceed
  <2> QED BY <1>1, <1>4, <2>2, <2>3, ProceedKeeps
<1>5. CASE /\ cgroup[r] = "made"
           /\ leader' = [leader EXCEPT ![r] = IF <<r, "leader">> \in members THEN "dead" ELSE @]
           /\ child' = [child EXCEPT ![r] = IF <<r, "child">> \in members THEN "dead" ELSE @]
           /\ cgroup' = [cgroup EXCEPT ![r] = "gone"] /\ \E e \in BOOLEAN : Proceed(e)
  <2>1. /\ leader'[r] = IF <<r, "leader">> \in members THEN "dead" ELSE leader[r]
        /\ child'[r] = IF <<r, "child">> \in members THEN "dead" ELSE child[r]
        /\ cgroup'[r] = "gone"
        /\ \A q \in Roles \ {r} : leader'[q] = leader[q] /\ child'[q] = child[q] /\ cgroup'[q] = cgroup[q]
    BY <1>2, <1>5 DEF WorkTypeOK
  <2>2. WorkTypeOK'
    <3>1. leader' \in [Roles -> States] /\ child' \in [Roles -> States]
      BY <1>2, <1>5 DEF WorkTypeOK, States
    <3>2. cgroup' \in [Roles -> {"none", "made", "gone"}]
      BY <1>2, <1>5 DEF WorkTypeOK
    <3> QED BY <1>1, <1>2, <3>1, <3>2 DEF WorkTypeOK
  <2>3. ASSUME NEW q \in Roles PROVE Held(q)'
    <3>1. CASE q = r
      BY <1>1, <1>2, <1>5, <2>1, <3>1 DEF Held, CellEmpty, Over
    <3>2. CASE q # r
      BY <1>1, <1>2, <2>1, <3>2 DEF Held, CellEmpty
    <3> QED BY <3>1, <3>2
  <2>4. Steady("clean", r)
    <3>1. ASSUME NEW q \in Roles
          PROVE  /\ leader'[q] = "none" <=> leader[q] = "none"
                 /\ Over(leader[q]) => Over(leader'[q])
                 /\ Over(child[q]) => Over(child'[q])
                 /\ cgroup'[q] # cgroup[q] => q = r
      BY <1>2, <2>1 DEF Held, Over
    <3> QED BY <1>1, <3>1 DEF Steady, GroupEmpty
  <2>5. Done("clean", r)
    BY <2>1 DEF Done
  <2> QED BY <1>1, <1>5, <2>2, <2>3, <2>4, <2>5, ProceedKeeps DEF WorkOK
<1> QED BY <1>3, <1>4, <1>5 DEF Clean

(* What a cleanup without errors has reaped is gone: its descendant was in *)
(* a cgroup that is.                                                       *)
LEMMA ReapKeeps == ASSUME NativeIInv, NEW r, Reap(r) PROVE NativeIInv'
<1>1. /\ Op("reap", r) /\ UNCHANGED <<store, marks, writer, checker, result, barred>>
      /\ bound' = bound /\ members' = members /\ gates' = gates /\ cgroup' = cgroup
  BY DEF Reap
<1>2. r \in Roles /\ WorkTypeOK /\ WorkOK /\ \A q \in Roles : Held(q)
  BY <1>1, RoleFacts
<1> DEFINE terminated == /\ leader' = [leader EXCEPT ![r] = "dead"]
                         /\ child' = [child EXCEPT ![r] = IF @ = "none" THEN @ ELSE "dead"]
           kept == UNCHANGED <<leader, child>>
<1>3. PICK e \in BOOLEAN :
        /\ Proceed(e)
        /\ \/ Over(leader[r]) /\ kept
           \/ ~Over(leader[r]) /\ terminated
           \/ e /\ kept
           \/ r \notin bound /\ kept
  BY DEF Reap
<1>4. Over(leader[r]) => errors \/ GroupEmpty(r)
  <2> SUFFICES ASSUME Over(leader[r]), ~errors PROVE Over(child[r])
    BY DEF GroupEmpty
  <2>1. Behind(r)
    BY <1>2 DEF NativeIInv, BehindOK
  <2>2. place > CleanAt[r]
    <3>1. place = ReapAt[r]
      BY <1>1, <1>2, RoleFacts
    <3>2. ReapAt[r] > CleanAt[r]
      BY <1>2, AtFacts DEF Roles
    <3> QED BY <3>1, <3>2
  <2>3. cgroup[r] # "made"
    BY <2>1, <2>2 DEF Behind
  <2>4. CASE child[r] = "none"
    BY <2>4 DEF Over
  <2>5. CASE child[r] # "none"
    <3>1. <<r, "child">> \in members /\ <<r, "leader">> \in members
      BY <1>2, <2>5 DEF Held
    <3>2. cgroup[r] # "none"
      BY <1>2, <3>1 DEF Held
    <3>3. cgroup[r] = "gone"
      BY <1>2, <2>3, <3>2 DEF WorkTypeOK
    <3> QED BY <1>2, <3>1, <3>3 DEF Held, CellEmpty
  <2> QED BY <2>4, <2>5
<1>5. CASE kept
  <2>1. UNCHANGED <<bound, workVars>>
    BY <1>1, <1>5 DEF workVars
  <2>2. Steady("reap", r) /\ WorkTypeOK' /\ WorkOK'
    BY <2>1, StillSteady, StillWork
  <2>3. GroupEmpty(r)' <=> GroupEmpty(r)
    BY <1>5 DEF GroupEmpty
  <2>4. Over(leader[r]) \/ e \/ r \notin bound \/ terminated
    BY <1>3
  <2>5. errors' = (errors \/ e)
    BY <1>3 DEF Proceed
  <2>6. terminated => GroupEmpty(r)'
    BY <1>2 DEF WorkTypeOK, GroupEmpty, Over
  <2>7. errors' \/ r \notin bound \/ GroupEmpty(r)'
    BY <1>4, <2>3, <2>4, <2>5, <2>6
  <2>8. Done("reap", r)
    BY <2>7 DEF Done
  <2> QED BY <1>1, <1>3, <2>2, <2>8, ProceedKeeps
<1>6. CASE ~Over(leader[r]) /\ terminated
  <2>1. /\ leader'[r] = "dead" /\ leader[r] # "none"
        /\ child'[r] = IF child[r] = "none" THEN "none" ELSE "dead"
        /\ \A q \in Roles \ {r} : leader'[q] = leader[q] /\ child'[q] = child[q]
    BY <1>2, <1>6 DEF WorkTypeOK, Over
  <2>2. WorkTypeOK'
    <3>1. leader' \in [Roles -> States] /\ child' \in [Roles -> States]
      BY <1>2, <1>6 DEF WorkTypeOK, States
    <3> QED BY <1>1, <1>2, <3>1 DEF WorkTypeOK
  <2>3. ASSUME NEW q \in Roles
        PROVE  /\ leader'[q] = "none" <=> leader[q] = "none"
               /\ child'[q] = "none" <=> child[q] = "none"
               /\ Over(leader[q]) => Over(leader'[q])
               /\ Over(child[q]) => Over(child'[q])
    BY <2>1 DEF Over
  <2>4. ASSUME NEW q \in Roles PROVE Held(q)'
    BY <1>1, <1>2, <2>3 DEF Held, CellEmpty
  <2>5. Steady("reap", r) /\ Done("reap", r)
    <3>1. GroupEmpty(r)'
      BY <2>1 DEF GroupEmpty, Over
    <3>2. Steady("reap", r)
      BY <1>1, <2>3 DEF Steady, GroupEmpty
    <3> QED BY <3>1, <3>2 DEF Done
  <2> QED BY <1>1, <1>3, <2>2, <2>4, <2>5, ProceedKeeps DEF WorkOK
<1> QED BY <1>3, <1>5, <1>6

(* The report, and the end of a run that is killed.                        *)
LEMMA ReportKeeps == ASSUME NativeIInv, Report PROVE NativeIInv'
<1>1. place = 68
  BY LockFacts DEF Report, LockPlaces
<1>2. /\ store' = store /\ marks' = marks /\ writer' = writer /\ checker' = checker /\ place' = place /\ sub' = sub
      /\ failed' = failed /\ errors' = errors /\ bound' = bound /\ barred' = barred /\ leader' = leader
      /\ child' = child /\ cgroup' = cgroup /\ members' = members /\ gates' = gates
  BY DEF Report, workVars
<1>3. /\ StoreTypeOK /\ RunTypeOK /\ WorkTypeOK /\ WriterOK /\ BarredOK /\ WorkOK /\ NotYetOK /\ BehindOK
      /\ FirstOK /\ BoundOK /\ StoppedOK
  BY DEF NativeIInv, NativeTypeOK
<1>4. StoreTypeOK' /\ WorkTypeOK'
  BY <1>2, <1>3 DEF StoreTypeOK, WorkTypeOK
<1>5. result' \in {"PASS", "UNKNOWN"} /\ (result' = "PASS" => ~failed /\ ~errors)
  BY DEF Report
<1>6. RunTypeOK' /\ (result' # "none" => place' \in {0, 68})
  BY <1>1, <1>2, <1>3, <1>5 DEF RunTypeOK
<1>7. \A q : (GroupEmpty(q)' <=> GroupEmpty(q)) /\ (CellEmpty(q)' <=> CellEmpty(q))
  BY <1>2 DEF GroupEmpty, CellEmpty
<1>8. WriterOK' /\ BarredOK' /\ StoppedOK' /\ BoundOK'
  <2>1. WriterOK'
    BY <1>2, <1>3 DEF WriterOK
  <2>2. BarredOK'
    BY <1>2, <1>3 DEF BarredOK
  <2>3. StoppedOK'
    BY <1>2, <1>3 DEF StoppedOK
  <2>4. BoundOK'
    BY <1>2, <1>3 DEF BoundOK
  <2> QED BY <2>1, <2>2, <2>3, <2>4
<1>9. WorkOK' /\ NotYetOK' /\ BehindOK' /\ FirstOK'
  <2>1. WorkOK'
    BY <1>2, <1>3, <1>7 DEF WorkOK, Held
  <2>2. NotYetOK'
    BY <1>2, <1>3 DEF NotYetOK, NotYet
  <2>3. BehindOK'
    BY <1>2, <1>3, <1>7 DEF BehindOK, Behind
  <2>4. FirstOK'
    BY <1>2, <1>3, <1>7 DEF FirstOK
  <2> QED BY <2>1, <2>2, <2>3, <2>4
<1>10. ReportIsTrue'
  <2>1. ASSUME ~errors, NEW r \in Roles
        PROVE  cgroup[r] # "made" /\ (r \in bound => GroupEmpty(r)) /\ (~failed => r \in bound)
    <3>1. Behind(r)
      BY <1>3, <2>1 DEF BehindOK
    <3>2. 68 > CleanAt[r] /\ 68 > ReapAt[r] /\ 68 > SpawnAt[r] + 1
      BY AtFacts DEF Roles
    <3>3. cgroup[r] # "made" /\ (r \in bound => GroupEmpty(r))
      BY <1>1, <3>1, <3>2 DEF Behind
    <3>4. ~failed => r \in bound
      BY <1>1, <1>3, <3>2 DEF BoundOK
    <3> QED BY <3>3, <3>4
  <2>2. result' = "PASS" => store'.mode = "STOP_LATCHED" /\ store'.active = "none" /\ marks' = {}
    BY <1>1, <1>2, <1>3, <1>5 DEF StoppedOK
  <2>3. result' = "PASS" => \A r \in Roles : GroupEmpty(r)' /\ cgroup'[r] # "made"
    BY <1>2, <1>5, <1>7, <2>1
  <2>4. result' # "none" /\ ~errors' =>
          \A r \in Roles : cgroup'[r] # "made" /\ (r \in bound' => GroupEmpty(r)')
    BY <1>2, <1>7, <2>1
  <2> QED BY <2>2, <2>3, <2>4 DEF ReportIsTrue, Loads
<1> QED BY <1>3, <1>4, <1>6, <1>8, <1>9, <1>10 DEF NativeIInv, NativeTypeOK

LEMMA RunKilledKeeps == ASSUME NativeIInv, RunKilled PROVE NativeIInv'
<1>1. /\ store' = store /\ checker' = checker /\ place' = 0 /\ sub' = sub /\ result' = result
      /\ failed' = failed /\ errors' = errors /\ bound' = bound /\ barred' = barred /\ leader' = leader
      /\ child' = child /\ cgroup' = cgroup /\ members' = members /\ gates' = gates
      /\ writer' = IF writer = Demo THEN "free" ELSE writer
      /\ marks' = marks \/ (writer = Demo /\ marks' = marks \cup {"pending"})
  BY DEF RunKilled, workVars
<1>2. /\ StoreTypeOK /\ RunTypeOK /\ WorkTypeOK /\ WriterOK /\ BarredOK /\ WorkOK /\ NotYetOK /\ BehindOK
      /\ FirstOK /\ BoundOK /\ StoppedOK /\ ReportIsTrue /\ (result # "none" => place \in {0, 68})
  BY DEF NativeIInv, NativeTypeOK
<1>3. \A q : (GroupEmpty(q)' <=> GroupEmpty(q)) /\ (CellEmpty(q)' <=> CellEmpty(q))
  BY <1>1 DEF GroupEmpty, CellEmpty
<1>4. StoreTypeOK' /\ RunTypeOK' /\ WorkTypeOK'
  <2>1. StoreTypeOK'
    BY <1>1, <1>2 DEF StoreTypeOK
  <2>2. RunTypeOK'
    BY <1>1, <1>2 DEF RunTypeOK
  <2>3. WorkTypeOK'
    BY <1>1, <1>2 DEF WorkTypeOK
  <2> QED BY <2>1, <2>2, <2>3
<1>5. WriterOK'
  <2>1. \A c \in Checkers : checker'[c].pc = "in" <=> writer' = c
    BY <1>1, <1>2, LockNames DEF WriterOK
  <2>2. writer' # Demo /\ 0 \notin Locking
    BY <1>1, LockNames DEF Locking
  <2> QED BY <1>1, <2>1, <2>2 DEF WriterOK
<1>6. BarredOK'
  BY <1>1, <1>2 DEF BarredOK
<1>7. WorkOK' /\ FirstOK'
  <2>1. WorkOK'
    BY <1>1, <1>2, <1>3 DEF WorkOK, Held
  <2>2. FirstOK'
    BY <1>1, <1>2, <1>3 DEF FirstOK
  <2> QED BY <2>1, <2>2
<1>8. NotYetOK' /\ BehindOK' /\ BoundOK' /\ StoppedOK'
  <2>1. \A q \in Roles : ~(0 > CleanAt[q]) /\ ~(0 > ReapAt[q]) /\ ~(0 > SpawnAt[q] + 1)
    BY AtFacts DEF Roles
  <2>2. NotYetOK' /\ StoppedOK'
    BY <1>1 DEF NotYetOK, StoppedOK
  <2>3. BehindOK'
    BY <1>1, <2>1 DEF BehindOK, Behind
  <2>4. BoundOK'
    BY <1>1, <2>1 DEF BoundOK
  <2> QED BY <2>2, <2>3, <2>4
<1>9. ReportIsTrue'
  <2>1. result # "none" => marks' = marks
    <3>1. 68 \notin Locking /\ 0 \notin Locking
      BY DEF Locking
    <3> QED BY <1>1, <1>2, <3>1 DEF WriterOK
  <2> QED BY <1>1, <1>2, <1>3, <2>1 DEF ReportIsTrue, Loads
<1> QED BY <1>1, <1>4, <1>5, <1>6, <1>7, <1>8, <1>9 DEF NativeIInv, NativeTypeOK

(* A process that makes a descendant or ends by itself.                    *)
LEMMA AsideKeeps ==
  ASSUME NativeIInv, UNCHANGED <<store, marks, writer, checker, demoVars, cgroup, gates, barred>>,
         WorkTypeOK', WorkOK', members \subseteq members',
         \A q \in Roles : (leader'[q] = "none" <=> leader[q] = "none") /\ (GroupEmpty(q) => GroupEmpty(q)')
  PROVE  NativeIInv'
<1>1. /\ store' = store /\ marks' = marks /\ writer' = writer /\ checker' = checker /\ place' = place /\ sub' = sub
      /\ failed' = failed /\ errors' = errors /\ bound' = bound /\ result' = result /\ barred' = barred
      /\ cgroup' = cgroup /\ gates' = gates
  BY DEF demoVars
<1>2. /\ StoreTypeOK /\ RunTypeOK /\ WriterOK /\ BarredOK /\ NotYetOK /\ BehindOK
      /\ FirstOK /\ BoundOK /\ StoppedOK /\ ReportIsTrue /\ (result # "none" => place \in {0, 68})
  BY DEF NativeIInv, NativeTypeOK
<1>3. StoreTypeOK' /\ RunTypeOK' /\ WriterOK' /\ BarredOK' /\ BoundOK' /\ StoppedOK'
  <2>1. StoreTypeOK' /\ RunTypeOK'
    BY <1>1, <1>2 DEF StoreTypeOK, RunTypeOK
  <2>2. WriterOK'
    BY <1>1, <1>2 DEF WriterOK
  <2>3. BarredOK' /\ BoundOK' /\ StoppedOK'
    BY <1>1, <1>2 DEF BarredOK, BoundOK, StoppedOK
  <2> QED BY <2>1, <2>2, <2>3
<1>4. NotYetOK' /\ BehindOK' /\ FirstOK' /\ ReportIsTrue'
  <2>1. NotYetOK'
    <3> SUFFICES ASSUME place # 0, NEW q \in Roles PROVE NotYet(q)'
      BY <1>1 DEF NotYetOK
    <3>1. NotYet(q)
      BY <1>2 DEF NotYetOK
    <3> QED BY <1>1, <3>1 DEF NotYet
  <2>2. BehindOK'
    <3> SUFFICES ASSUME ~errors, NEW q \in Roles PROVE Behind(q)'
      BY <1>1 DEF BehindOK
    <3>1. Behind(q)
      BY <1>2 DEF BehindOK
    <3> QED BY <1>1, <3>1 DEF Behind
  <2>3. FirstOK'
    BY <1>1, <1>2 DEF FirstOK, Roles
  <2>4. ReportIsTrue'
    BY <1>1, <1>2 DEF ReportIsTrue, Loads
  <2> QED BY <2>1, <2>2, <2>3, <2>4
<1> QED BY <1>1, <1>2, <1>3, <1>4 DEF NativeIInv, NativeTypeOK

LEMMA ForksKeeps == ASSUME NativeIInv, NEW r \in Roles, Forks(r) PROVE NativeIInv'
<1>1. /\ WorkTypeOK /\ \A q \in Roles : Held(q)
      /\ UNCHANGED <<store, marks, writer, checker, demoVars, cgroup, gates, barred>>
      /\ leader' = leader /\ gates' = gates /\ cgroup' = cgroup /\ bound' = bound
  BY DEF Forks, NativeIInv, NativeTypeOK, WorkOK, demoVars
<1>2. leader[r] = "live" /\ child[r] = "none" /\ <<r, "leader">> \in members
  BY <1>1 DEF Forks, Held
<1>3. members' = members \cup {<<r, "child">>} /\ child' = [child EXCEPT ![r] = "live"]
  BY <1>2 DEF Forks
<1>4. child'[r] = "live" /\ \A q \in Roles \ {r} : child'[q] = child[q]
  BY <1>1, <1>3 DEF WorkTypeOK
<1>5. cgroup[r] # "gone" /\ cgroup[r] # "none"
  BY <1>1, <1>2 DEF Held, CellEmpty, Over
<1>6. WorkTypeOK'
  <2>1. child' \in [Roles -> States]
    BY <1>1, <1>3 DEF WorkTypeOK, States
  <2> QED BY <1>1, <1>3, <2>1 DEF WorkTypeOK
<1>7. ASSUME NEW q \in Roles PROVE Held(q)'
  <2>1. <<q, "leader">> \in members' <=> <<q, "leader">> \in members
    BY <1>3
  <2>2. CASE q = r
    BY <1>1, <1>2, <1>3, <1>4, <1>5, <2>1, <2>2 DEF Held
  <2>3. CASE q # r
    <3>1. <<q, "child">> \in members' <=> <<q, "child">> \in members
      BY <1>3, <2>3
    <3> QED BY <1>1, <1>4, <2>1, <2>3, <3>1 DEF Held, CellEmpty
  <2> QED BY <2>2, <2>3
<1>8. ASSUME NEW q \in Roles PROVE GroupEmpty(q) => GroupEmpty(q)'
  BY <1>1, <1>2, <1>4 DEF GroupEmpty, Over
<1> QED BY <1>1, <1>3, <1>6, <1>7, <1>8, AsideKeeps DEF WorkOK

LEMMA GoneKeeps == ASSUME NativeIInv, NEW r \in Roles, Gone(r) PROVE NativeIInv'
<1>1. /\ WorkTypeOK /\ \A q \in Roles : Held(q)
      /\ UNCHANGED <<store, marks, writer, checker, demoVars, cgroup, gates, barred>>
      /\ members' = members /\ gates' = gates /\ cgroup' = cgroup /\ bound' = bound
  BY DEF Gone, NativeIInv, NativeTypeOK, WorkOK, demoVars
<1>2. \/ leader[r] # "none" /\ leader' = [leader EXCEPT ![r] = "dead"] /\ child' = child
      \/ child[r] # "none" /\ child' = [child EXCEPT ![r] = "dead"] /\ leader' = leader
  BY DEF Gone
<1>3. ASSUME NEW q \in Roles
      PROVE  /\ leader'[q] = "none" <=> leader[q] = "none"
             /\ child'[q] = "none" <=> child[q] = "none"
             /\ Over(leader[q]) => Over(leader'[q])
             /\ Over(child[q]) => Over(child'[q])
  BY <1>1, <1>2 DEF Over, WorkTypeOK
<1>4. WorkTypeOK'
  <2>1. leader' \in [Roles -> States] /\ child' \in [Roles -> States]
    BY <1>1, <1>2 DEF WorkTypeOK, States
  <2> QED BY <1>1, <2>1 DEF WorkTypeOK
<1>5. ASSUME NEW q \in Roles PROVE Held(q)'
  BY <1>1, <1>3 DEF Held, CellEmpty
<1>6. ASSUME NEW q \in Roles PROVE GroupEmpty(q) => GroupEmpty(q)'
  BY <1>3 DEF GroupEmpty
<1> QED BY <1>1, <1>3, <1>4, <1>5, <1>6, AsideKeeps DEF WorkOK

(* A fresh controller, which writes only a state that is open.             *)
LEMMA CheckerKeeps ==
  ASSUME NativeIInv, UNCHANGED <<demoVars, workVars, barred>>, WriterOK', store' \in Stores,
         checker' \in [Checkers -> [pc : {"idle", "start", "wait", "in", "end"}, saw : Stores, code : 0..2]],
         \/ UNCHANGED <<store, marks>>
         \/ marks = {} /\ store.mode = "OPEN" /\ store'.mode = "OPEN"
  PROVE  NativeIInv'
<1>1. /\ place' = place /\ sub' = sub /\ failed' = failed /\ errors' = errors /\ bound' = bound
      /\ result' = result /\ barred' = barred
      /\ leader' = leader /\ child' = child /\ cgroup' = cgroup /\ members' = members /\ gates' = gates
  BY DEF demoVars, workVars
<1>2. /\ StoreTypeOK /\ RunTypeOK /\ BarredOK /\ NotYetOK /\ BehindOK
      /\ FirstOK /\ BoundOK /\ StoppedOK /\ ReportIsTrue /\ (result # "none" => place \in {0, 68})
  BY DEF NativeIInv, NativeTypeOK
<1>3. \A q : GroupEmpty(q)' <=> GroupEmpty(q)
  BY <1>1 DEF GroupEmpty
<1>4. StoreTypeOK' /\ RunTypeOK'
  BY <1>1, <1>2 DEF StoreTypeOK, RunTypeOK
<1>5. WorkTypeOK' /\ WorkOK'
  BY <1>1, StillWork
<1>6. BarredOK'
  BY <1>1, <1>2 DEF BarredOK
<1>7. BoundOK' /\ StoppedOK'
  <2>1. BoundOK'
    BY <1>1, <1>2 DEF BoundOK
  <2>2. StoppedOK'
    <3>1. ~failed /\ place >= 45 => UNCHANGED <<store, marks>>
      BY <1>2 DEF StoppedOK
    <3>2. place \in 0..68
      BY <1>2 DEF RunTypeOK
    <3> QED BY <1>1, <1>2, <3>1, <3>2 DEF StoppedOK
  <2> QED BY <2>1, <2>2
<1>8. NotYetOK' /\ BehindOK' /\ FirstOK' /\ ReportIsTrue'
  <2>1. NotYetOK'
    BY <1>1, <1>2 DEF NotYetOK, NotYet
  <2>2. BehindOK'
    BY <1>1, <1>2, <1>3 DEF BehindOK, Behind
  <2>3. FirstOK'
    BY <1>1, <1>2, <1>3 DEF FirstOK
  <2>4. ReportIsTrue'
    <3>1. result = "PASS" => UNCHANGED <<store, marks>>
      BY <1>2 DEF ReportIsTrue
    <3> QED BY <1>1, <1>2, <1>3, <3>1 DEF ReportIsTrue, Loads
  <2> QED BY <2>1, <2>2, <2>3, <2>4
<1> QED BY <1>1, <1>2, <1>4, <1>5, <1>6, <1>7, <1>8 DEF NativeIInv, NativeTypeOK

LEMMA CheckerFacts ==
  ASSUME NativeIInv
  PROVE  /\ checker \in [Checkers -> [pc : {"idle", "start", "wait", "in", "end"}, saw : Stores, code : 0..2]]
         /\ store \in Stores /\ WriterOK /\ place \in 0..68
BY DEF NativeIInv, NativeTypeOK, StoreTypeOK, RunTypeOK

LEMMA CheckStartKeeps == ASSUME NativeIInv, NEW c \in Checkers, CheckStart(c) PROVE NativeIInv'
<1>1. /\ UNCHANGED <<demoVars, workVars, barred>> /\ UNCHANGED <<store, marks>> /\ writer' = writer
      /\ place' = place /\ sub' = sub /\ store' = store /\ marks' = marks
      /\ checker[c].pc = IF c = Own THEN "start" ELSE "idle"
  BY DEF CheckStart, demoVars
<1> DEFINE T == [pc : {"idle", "start", "wait", "in", "end"}, saw : Stores, code : 0..2]
<1>2. PICK e \in T : checker' = [checker EXCEPT ![c] = e] /\ e.pc \in {"wait", "end"}
  <2> DEFINE e == IF Loads THEN [pc |-> "wait", saw |-> store, code |-> 0]
                  ELSE [pc |-> "end", saw |-> store, code |-> 2]
  <2>1. e \in T /\ e.pc \in {"wait", "end"}
    BY CheckerFacts
  <2>2. checker' = [checker EXCEPT ![c] = e]
    BY DEF CheckStart
  <2> QED BY <2>1, <2>2
<1>3. checker' \in [Checkers -> T]
  BY <1>2, CheckerFacts
<1>4. checker'[c].pc # "in" /\ checker[c].pc # "in" /\ \A d \in Checkers \ {c} : checker'[d] = checker[d]
  BY <1>1, <1>2, CheckerFacts
<1>5. \A d \in Checkers : checker'[d].pc = "in" <=> writer' = d
  BY <1>1, <1>4, CheckerFacts DEF WriterOK
<1>6. place' \in 1..27 => checker'[Own].pc = "idle"
  BY <1>1, <1>4, CheckerFacts, LockNames DEF WriterOK
<1>7. WriterOK'
  BY <1>1, <1>5, <1>6, CheckerFacts DEF WriterOK
<1> QED BY <1>1, <1>3, <1>7, CheckerFacts, CheckerKeeps

LEMMA CheckLockKeeps == ASSUME NativeIInv, NEW c \in Checkers, CheckLock(c) PROVE NativeIInv'
<1>1. /\ UNCHANGED <<demoVars, workVars, barred>> /\ UNCHANGED <<store, marks>>
      /\ writer = "free" /\ writer' = c
      /\ place' = place /\ sub' = sub /\ store' = store /\ marks' = marks
      /\ checker[c].pc = "wait" /\ checker' = [checker EXCEPT ![c].pc = "in"]
  BY DEF CheckLock, demoVars, Enters
<1> DEFINE T == [pc : {"idle", "start", "wait", "in", "end"}, saw : Stores, code : 0..2]
<1>2. checker' \in [Checkers -> T]
  BY <1>1, CheckerFacts
<1>3. checker'[c].pc = "in" /\ \A d \in Checkers \ {c} : checker'[d] = checker[d]
  BY <1>1, CheckerFacts
<1>4. \A d \in Checkers : checker'[d].pc = "in" <=> writer' = d
  BY <1>1, <1>3, CheckerFacts, LockNames DEF WriterOK
<1>5. place' \in 1..27 => checker'[Own].pc = "idle"
  BY <1>1, <1>3, CheckerFacts, LockNames DEF WriterOK
<1>6. writer' = Demo <=> place' \in Locking
  BY <1>1, CheckerFacts, LockNames DEF WriterOK
<1>7. WriterOK'
  BY <1>1, <1>4, <1>5, <1>6, CheckerFacts DEF WriterOK
<1> QED BY <1>1, <1>2, <1>7, CheckerFacts, CheckerKeeps

LEMMA CheckReserveKeeps == ASSUME NativeIInv, NEW c \in Checkers, CheckReserve(c) PROVE NativeIInv'
<1>1. /\ UNCHANGED <<demoVars, workVars, barred>> /\ writer' = "free" /\ checker[c].pc = "in"
      /\ place' = place /\ sub' = sub
  BY DEF CheckReserve, demoVars
<1> DEFINE T == [pc : {"idle", "start", "wait", "in", "end"}, saw : Stores, code : 0..2]
           s == IF Loads THEN store ELSE checker[c].saw
           new == [store EXCEPT !.active = "pending"]
           ends(code) == checker' = [checker EXCEPT ![c] = [pc |-> "end", saw |-> s, code |-> code]]
<1>2. s \in Stores /\ new \in Stores /\ new.mode = store.mode
  BY CheckerFacts DEF Stores
<1>3. /\ \E code \in 0..2 : ends(code)
      /\ \/ UNCHANGED <<store, marks>>
         \/ marks = {} /\ store.mode = "OPEN" /\ (store' = new \/ store' = store)
  <2>1. CASE Loads /\ store.mode = "OPEN" /\ store.active = "none"
    <3>1. (Written(new) /\ ends(1)) \/ (WriteFails(new) /\ ends(2))
      BY <1>1, <2>1 DEF CheckReserve
    <3>2. store' = new \/ store' = store
      BY <3>1 DEF Written, WriteFails
    <3> QED BY <2>1, <3>1, <3>2 DEF Loads
  <2>2. CASE ~(Loads /\ store.mode = "OPEN" /\ store.active = "none")
    <3>1. ends(RefusedCode(s)) /\ UNCHANGED <<store, marks>>
      BY <2>2 DEF CheckReserve
    <3>2. RefusedCode(s) \in 0..2
      BY DEF RefusedCode
    <3> QED BY <3>1, <3>2
  <2> QED BY <2>1, <2>2
<1>4. PICK code \in 0..2 : ends(code)
  BY <1>3
<1> HIDE DEF s
<1>5. /\ checker' \in [Checkers -> T]
      /\ checker'[c].pc = "end" /\ \A d \in Checkers \ {c} : checker'[d] = checker[d]
  BY <1>2, <1>4, CheckerFacts
<1>6. writer = c /\ place \notin Locking
  BY <1>1, CheckerFacts, LockNames DEF WriterOK
<1>7. \A d \in Checkers : checker'[d].pc = "in" <=> writer' = d
  BY <1>1, <1>5, <1>6, CheckerFacts, LockNames DEF WriterOK
<1>8. place' \in 1..27 => checker'[Own].pc = "idle"
  BY <1>1, <1>5, CheckerFacts, LockNames DEF WriterOK
<1>9. sub = "none" \/ place = 0
  BY <1>6, CheckerFacts DEF WriterOK, Locking
<1>10. WriterOK'
  BY <1>1, <1>6, <1>7, <1>8, <1>9, CheckerFacts, LockNames DEF WriterOK
<1>11. store' \in Stores /\ (UNCHANGED <<store, marks>> \/ (marks = {} /\ store.mode = "OPEN" /\ store'.mode = "OPEN"))
  BY <1>2, <1>3, CheckerFacts
<1> QED BY <1>1, <1>5, <1>10, <1>11, CheckerKeeps

-----------------------------------------------------------------------------
LEMMA NativeStarts == ASSUME NativeInit PROVE NativeIInv
<1>1. /\ store = [mode |-> "OPEN", active |-> "none", gen |-> 1] /\ marks = {} /\ writer = "free"
      /\ checker = [c \in Checkers |-> [pc |-> "idle", saw |-> store, code |-> 0]]
      /\ place = 1 /\ sub = "none" /\ failed = FALSE /\ errors = FALSE
      /\ leader = [r \in Roles |-> "none"] /\ child = [r \in Roles |-> "none"] /\ cgroup = [r \in Roles |-> "none"]
      /\ members = {} /\ bound = {} /\ gates = {}
      /\ result = "none" /\ barred = FALSE
  BY DEF NativeInit
<1>2. store \in Stores
  BY <1>1 DEF Stores
<1>3. StoreTypeOK /\ RunTypeOK /\ WorkTypeOK
  <2>1. StoreTypeOK
    <3>1. [pc |-> "idle", saw |-> store, code |-> 0]
            \in [pc : {"idle", "start", "wait", "in", "end"}, saw : Stores, code : 0..2]
      BY <1>2
    <3>2. checker \in [Checkers -> [pc : {"idle", "start", "wait", "in", "end"}, saw : Stores, code : 0..2]]
      <4> DEFINE e == [pc |-> "idle", saw |-> store, code |-> 0]
                 T == [pc : {"idle", "start", "wait", "in", "end"}, saw : Stores, code : 0..2]
      <4>1. e \in T
        BY <3>1
      <4>2. checker = [c \in Checkers |-> e]
        BY <1>1
      <4> HIDE DEF e, T
      <4>3. checker \in [Checkers -> T]
        BY <4>1, <4>2
      <4> QED BY <4>3 DEF T
    <3>3. barred \in BOOLEAN
      BY <1>1
    <3> QED BY <1>2, <3>2, <3>3 DEF StoreTypeOK
  <2>2. RunTypeOK
    <3>1. place \in 0..68 /\ sub = "none" /\ result = "none"
      BY <1>1
    <3>2. failed \in BOOLEAN /\ errors \in BOOLEAN
      BY <1>1
    <3> QED BY <3>1, <3>2 DEF RunTypeOK
  <2>3. WorkTypeOK
    BY <1>1 DEF WorkTypeOK, States
  <2> QED BY <2>1, <2>2, <2>3
<1>4. WriterOK
  <2>1. 1 \notin Locking /\ writer # Demo
    BY <1>1, LockNames DEF Locking
  <2> QED BY <1>1, <2>1, LockNames DEF WriterOK
<1>5. BarredOK /\ StoppedOK /\ (result # "none" => place \in {0, 68}) /\ ReportIsTrue
  BY <1>1 DEF BarredOK, StoppedOK, ReportIsTrue
<1>6. WorkOK
  BY <1>1 DEF WorkOK, Held
<1>7. \A q \in Roles : SpawnAt[q] \in 1..35 /\ CleanAt[q] \in 52..65 /\ ReapAt[q] \in 53..67
  BY AtFacts DEF Roles
<1>8. ASSUME NEW q \in Roles PROVE NotYet(q) /\ Behind(q) /\ ~(place > SpawnAt[q] + 1)
  <2>1. leader[q] = "none" /\ cgroup[q] = "none" /\ q \notin bound
    BY <1>1
  <2>2. PICK a \in 1..35, b \in 52..65, d \in 53..67 : a = SpawnAt[q] /\ b = CleanAt[q] /\ d = ReapAt[q]
    BY <1>7
  <2>3. /\ place = 1 /\ ~(a < place) /\ ~(place > a + 1) /\ ~(place = a + 3) /\ ~(place = a + 4) /\ ~(place = a + 5)
        /\ ~(place > b) /\ ~(place > d)
    BY <1>1
  <2> QED BY <2>1, <2>2, <2>3 DEF NotYet, Behind
<1>9. NotYetOK /\ BehindOK /\ BoundOK
  BY <1>8 DEF NotYetOK, BehindOK, BoundOK
<1>10. FirstOK
  BY <1>1 DEF FirstOK, Roles
<1> QED BY <1>3, <1>4, <1>5, <1>6, <1>9, <1>10 DEF NativeIInv, NativeTypeOK

LEMMA NativeSteps == ASSUME NativeIInv, [NativeNext]_nativeVars PROVE NativeIInv'
<1>1. CASE UNCHANGED nativeVars
  <2>1. UNCHANGED <<demoVars, workVars, barred, store, marks, writer, checker>>
    BY <1>1 DEF nativeVars
  <2>2. WriterOK'
    BY <2>1, CheckerFacts DEF WriterOK, demoVars
  <2> QED BY <2>1, <2>2, CheckerFacts, CheckerKeeps
<1>2. CASE NativeNext
  <2>1. ASSUME NEW r \in Roles \cup {"none"},
               \/ LockStep(r) \/ UnlockStep(r) \/ Reserve(r) \/ MarkActive(r) \/ MarkStopped(r) \/ ResetStop(r)
               \/ RequestStop(r) \/ Checked(r)
        PROVE  NativeIInv'
    BY <2>1, LockStepKeeps, UnlockStepKeeps, ReserveKeeps, MarkActiveKeeps, MarkStoppedKeeps, ResetStopKeeps,
       RequestStopKeeps, CheckedKeeps
  <2>2. ASSUME NEW r \in Roles, Forks(r) \/ Gone(r) \/ Work(r) \/ Clean(r) \/ Reap(r) PROVE NativeIInv'
    BY <2>2, ForksKeeps, GoneKeeps, WorkKeeps, CleanKeeps, ReapKeeps
  <2>3. CASE Recover \/ Report \/ RunKilled
    BY <2>3, RecoverKeeps, ReportKeeps, RunKilledKeeps
  <2>4. ASSUME NEW c \in Checkers, CheckStart(c) \/ CheckLock(c) \/ CheckReserve(c) PROVE NativeIInv'
    BY <2>4, CheckStartKeeps, CheckLockKeeps, CheckReserveKeeps
  <2> QED BY <1>2, <2>1, <2>2, <2>3, <2>4 DEF NativeNext
<1> QED BY <1>1, <1>2

(* The inductive invariant of the run and its checkers holds.              *)
THEOREM NativeInvariance == NativeSpec => []NativeIInv
<1>1. NativeInit => NativeIInv
  BY NativeStarts
<1>2. NativeIInv /\ [NativeNext]_nativeVars => NativeIInv'
  BY NativeSteps
<1> QED BY <1>1, <1>2, PTL DEF NativeSpec

(* Who writes the state, and when.                                         *)
Opens == store.mode # "OPEN" /\ store'.mode = "OPEN"
Reserves == store.active # "pending" /\ store'.active = "pending"
LEMMA StoreMoves ==
  ASSUME NativeIInv, [NativeNext]_nativeVars
  PROVE  (Reserves => ~barred) /\ (Opens => place = 31)
<1>1. store \in Stores /\ BarredOK
  BY DEF NativeIInv, NativeTypeOK, StoreTypeOK
<1>2. CASE UNCHANGED store
  BY <1>2 DEF Opens, Reserves
<1>3. ASSUME NEW r \in Roles \cup {"none"}, Reserve(r) PROVE (Reserves => ~barred) /\ (Opens => place = 31)
  <2>1. CASE Loads /\ store.mode = "OPEN"
    <3>1. ~barred
      BY <1>1, <2>1 DEF BarredOK, Loads
    <3> QED BY <2>1, <3>1 DEF Opens
  <2>2. CASE ~(Loads /\ store.mode = "OPEN")
    BY <1>2, <1>3, <2>2 DEF Reserve
  <2> QED BY <2>1, <2>2
<1>4. ASSUME NEW r \in Roles \cup {"none"}, MarkActive(r) PROVE (Reserves => ~barred) /\ (Opens => place = 31)
  <2>1. CASE store.active = "pending" /\ Writes([store EXCEPT !.active = r])
    <3>1. store' = [store EXCEPT !.active = r] \/ store' = store
      BY <2>1, WriteFacts
    <3> QED BY <1>1, <2>1, <3>1 DEF Opens, Reserves, Stores
  <2> QED BY <1>2, <1>4, <2>1 DEF MarkActive
<1>5. ASSUME NEW r \in Roles \cup {"none"}, MarkStopped(r) PROVE (Reserves => ~barred) /\ (Opens => place = 31)
  <2>1. CASE Writes([store EXCEPT !.active = "none"])
    <3>1. store' = [store EXCEPT !.active = "none"] \/ store' = store
      BY <2>1, WriteFacts
    <3> QED BY <1>1, <3>1 DEF Opens, Reserves, Stores
  <2> QED BY <1>2, <1>5, <2>1 DEF MarkStopped
<1>6. ASSUME NEW r \in Roles \cup {"none"}, ResetStop(r) PROVE (Reserves => ~barred) /\ (Opens => place = 31)
  <2>1. place = 31
    BY <1>6, LockFacts DEF ResetStop, LockPlaces
  <2>2. ~Reserves
    <3>1. CASE Writes([mode |-> "OPEN", active |-> "none", gen |-> store.gen + 1])
      <4>1. store' = [mode |-> "OPEN", active |-> "none", gen |-> store.gen + 1] \/ store' = store
        BY <3>1, WriteFacts
      <4>2. store'.active = "none" \/ store' = store
        BY <4>1
      <4> QED BY <4>2 DEF Reserves
    <3>2. CASE UNCHANGED store
      BY <3>2 DEF Reserves
    <3> QED BY <1>6, <3>1, <3>2 DEF ResetStop
  <2> QED BY <2>1, <2>2
<1>7. ASSUME NEW r \in Roles \cup {"none"}, RequestStop(r) PROVE (Reserves => ~barred) /\ (Opens => place = 31)
  <2>1. store' = store \/ store' = Latched
    <3>1. CASE Arm
      BY <3>1 DEF Arm
    <3>2. CASE Latch
      BY <3>2 DEF Latch, Written, WriteFails
    <3>3. CASE Disarm
      BY <3>3 DEF Disarm
    <3> QED BY <1>7, <3>1, <3>2, <3>3 DEF RequestStop
  <2> QED BY <1>1, <2>1 DEF Opens, Reserves, Latched, Stores
<1>8. ASSUME NEW c \in Checkers, CheckReserve(c) PROVE (Reserves => ~barred) /\ (Opens => place = 31)
  <2>1. CASE Loads /\ store.mode = "OPEN"
    <3>1. ~barred
      BY <1>1, <2>1 DEF BarredOK, Loads
    <3> QED BY <2>1, <3>1 DEF Opens
  <2>2. CASE ~(Loads /\ store.mode = "OPEN")
    BY <1>2, <1>8, <2>2 DEF CheckReserve
  <2> QED BY <2>1, <2>2
<1>9. ASSUME NEW r \in Roles \cup {"none"}, LockStep(r) \/ UnlockStep(r) \/ Checked(r) PROVE UNCHANGED store
  BY <1>9 DEF LockStep, UnlockStep, Checked
<1>10. ASSUME NEW r \in Roles, Forks(r) \/ Gone(r) \/ Work(r) \/ Clean(r) \/ Reap(r) PROVE UNCHANGED store
  BY <1>10 DEF Forks, Gone, Work, Step, Sees, Clean, Reap
<1>11. Recover \/ Report \/ RunKilled => UNCHANGED store
  BY DEF Recover, Report, RunKilled
<1>12. ASSUME NEW c \in Checkers, CheckStart(c) \/ CheckLock(c) PROVE UNCHANGED store
  BY <1>12 DEF CheckStart, CheckLock
<1>13. CASE UNCHANGED nativeVars
  BY <1>2, <1>13 DEF nativeVars
<1>14. CASE NativeNext
  BY <1>2, <1>3, <1>4, <1>5, <1>6, <1>7, <1>8, <1>9, <1>10, <1>11, <1>12, <1>14 DEF NativeNext
<1> QED BY <1>13, <1>14

(* Where a stop is given up, and whenever a second target runs, what was   *)
(* stopped is dead.                                                        *)
LEMMA StoppedAreDead ==
  ASSUME NativeIInv
  PROVE  /\ place = 31 => GroupEmpty("target") /\ GroupEmpty("second")
         /\ GroupEmpty("target") \/ GroupEmpty("second")
<1>1. Held("second") /\ FirstOK /\ (place # 0 => NotYet("second"))
  BY DEF NativeIInv, WorkOK, NotYetOK, Roles
<1>2. leader["second"] = "none" => GroupEmpty("second")
  BY <1>1 DEF Held, GroupEmpty, Over
<1>3. leader["second"] # "none" => GroupEmpty("target")
  BY <1>1 DEF FirstOK
<1>4. place = 31 => GroupEmpty("target") /\ leader["second"] = "none"
  BY <1>1, AtFacts DEF FirstOK, NotYet
<1> QED BY <1>2, <1>3, <1>4

(* Once a stop's intent is armed no controller reserves a launch before a  *)
(* reset, a reset finds what was stopped dead, and what the run reports is *)
(* so: for every set of checkers, and every number of writes that fail.    *)
THEOREM StopIsKept == NativeSpec => StopHolds
<1>1. NativeIInv /\ [NativeNext]_nativeVars =>
        [store.active # "pending" /\ store'.active = "pending" => ~barred]_nativeVars
  BY StoreMoves DEF Reserves
<1>2. NativeIInv /\ [NativeNext]_nativeVars =>
        [store.mode # "OPEN" /\ store'.mode = "OPEN" => GroupEmpty("target") /\ GroupEmpty("second")]_nativeVars
  BY StoreMoves, StoppedAreDead DEF Opens
<1>3. NativeIInv => GroupEmpty("target") \/ GroupEmpty("second")
  BY StoppedAreDead
<1>4. NativeIInv => ReportIsTrue
  BY DEF NativeIInv
<1> QED BY <1>1, <1>2, <1>3, <1>4, NativeInvariance, PTL DEF NativeSpec, StopHolds, StopIsFinal
=============================================================================
