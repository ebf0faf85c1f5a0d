----------------------------- MODULE DemoProofs -----------------------------
(***************************************************************************)
(* Proofs about what a start and the demonstrations make on a machine and  *)
(* leave on it, and about what they say of it: the namespaces of a run     *)
(* (Boundary), the programs that run a capture or a race and clean up      *)
(* (Probe), the readers of a file in motion (Staging), the guided first    *)
(* kill (FirstKill), the helper of the hosted proof (HostedProof) and the  *)
(* receipt of a kill with its handoff (Handoff).  Each has an inductive    *)
(* invariant, a lemma for each group of its steps, and the property that a *)
(* run checks.                                                             *)
(***************************************************************************)
EXTENDS Boundary, Probe, Staging, Results, Integers, FiniteSetTheorems, WellFoundedInduction, TLAPS

-----------------------------------------------------------------------------
(* Boundary: the exec and network boundary of a run.                       *)
-----------------------------------------------------------------------------

Records == {"none", "unwritten", "active", "ended", "failed", "pruned"}
Resting == {"idle", "down", "recover"}
BndPhases == Resting \cup Creating \cup {"arrange", "unit", "record", "guard", "ready"}

BndTypeOK ==
  /\ mounts \in [Launches -> SUBSET Sides] /\ replaced \in [Launches -> SUBSET Sides]
  /\ veth \subseteq Launches /\ record \in [Launches -> Records]
  /\ phase \in BndPhases /\ healthOk \in BOOLEAN /\ bndFaults \in Nat /\ restarts \in Nat

(* A start under way is of one run, which has no record until its unit is  *)
(* there, and whose link has left the host by the time it is arranged.     *)
StartOK ==
  /\ IF phase \in Resting THEN launch = NoLaunch ELSE launch \in Launches
  /\ phase \in Creating \cup {"arrange", "unit", "record"} => record[launch] = "unwritten"
  /\ phase \in {"guard", "ready"} => record[launch] # "unwritten"
  /\ phase \in {"settle", "arrange", "unit", "record"} => launch \notin veth

(* No record is pruned that has a namespace.                               *)
PrunedOK == \A l \in Launches : record[l] = "pruned" => mounts[l] = {} \/ l \in unowned

(* The history is as long as its bound when the start that may fail has    *)
(* written its record, so that its failure makes it at most one longer.    *)
Begun == {l \in Launches : record[l] # "none"}
HistoryOK ==
  /\ IsFiniteSet(Begun)
  /\ Cardinality(Removable(record, mounts)) <= MaxTerminal + 1
  /\ phase \in {"guard", "ready"} => Cardinality(Removable(record, mounts)) <= MaxTerminal

(* An ended run with a namespace is about to be torn down, or is one that  *)
(* the recovery has yet to come to, or whose teardown was not reached.     *)
EndedOK ==
  /\ phase \notin {"down", "recover"} => toRecover = {}
  /\ phase # "down" /\ healthOk =>
       \A l \in Launches \ (ending \cup unowned \cup toRecover \cup givenUp) : record[l] = "ended" => mounts[l] = {}

FailedStartOK ==
  restarts = 0 /\ healthOk /\ bndFaults <= 1 =>
    \A l \in Launches \ (givenUp \cup {launch}) : record[l] = "unwritten" => mounts[l] = {} /\ l \notin veth

BndIInv == BndTypeOK /\ StartOK /\ PrunedOK /\ HistoryOK /\ EndedOK /\ FailedStartOK

LEMMA Least == ASSUME NEW S \in SUBSET Nat, S # {}
               PROVE  \E m \in S : \A k \in S : m <= k
<1>1. \E R : /\ IsWellFoundedOn(R, Nat)
             /\ \A x, y \in Nat : y < x => <<y, x>> \in R
  <2>1. \A x, y \in Nat : y < x => <<y, x>> \in OpToRel(<, Nat)
    BY DEF OpToRel
  <2> QED BY <2>1, NatLessThanWellFounded, Zenon
<1>2. PICK R : /\ IsWellFoundedOn(R, Nat)
               /\ \A x, y \in Nat : y < x => <<y, x>> \in R
  BY <1>1
<1>3. PICK m \in S : \A y \in S : ~(<<y, m>> \in R)
  BY <1>2, WFMin, Zenon
<1>4. \A k \in S : k \in Nat /\ m \in Nat /\ ~(k < m)
  BY <1>2, <1>3
<1> QED BY <1>4

(* What is left when the oldest of a finite set of numbers are taken, but  *)
(* for one that stays: no more than the bound, as long as that is not 0.   *)
LEMMA OldestGo ==
  ASSUME NEW S \in SUBSET Nat, IsFiniteSet(S), NEW max \in Nat \ {0}, NEW p,
         NEW left \in SUBSET S,
         \A l \in left : l = p \/ ~(Cardinality({k \in S \ {p} : k < l}) < Cardinality(S) - max)
  PROVE  Cardinality(left) <= max
<1>1. /\ IsFiniteSet(left) /\ Cardinality(left) \in Nat /\ Cardinality(S) \in Nat
      /\ IsFiniteSet(left \ {p}) /\ Cardinality(left \ {p}) \in Nat
  BY FS_Subset, FS_CardinalityType, FS_Difference
<1>2. CASE left \ {p} = {}
  <2>1. left = {} \/ left = {p}
    BY <1>2
  <2>2. Cardinality(left) = 0 \/ Cardinality(left) = 1
    BY <2>1, FS_EmptySet, FS_Singleton
  <2> QED BY <2>2
<1>3. CASE left \ {p} # {}
  <2>1. PICK m \in left \ {p} : \A k \in left \ {p} : m <= k
    <3>1. left \ {p} \in SUBSET Nat
      OBVIOUS
    <3> QED BY <3>1, <1>3, Least
  <2> DEFINE older == {k \in S \ {p} : k < m}
  <2>2. IsFiniteSet(older) /\ Cardinality(older) \in Nat
    BY FS_Subset, FS_CardinalityType
  <2>3. left \cap older = {}
    <3> SUFFICES ASSUME NEW k \in left \cap older PROVE FALSE
      OBVIOUS
    <3>1. k \in Nat /\ m \in Nat /\ k < m /\ m <= k
      BY <2>1
    <3> QED BY <3>1
  <2>4. Cardinality(left \cup older) = Cardinality(left) + Cardinality(older)
    <3>1. Cardinality(left \cup older) = Cardinality(left) + Cardinality(older) - Cardinality(left \cap older)
      BY <1>1, <2>2, FS_Union
    <3> QED BY <3>1, <2>3, FS_EmptySet, <1>1, <2>2
  <2>5. Cardinality(left \cup older) <= Cardinality(S)
    <3>1. left \cup older \in SUBSET S
      OBVIOUS
    <3> QED BY <3>1, FS_Subset
  <2>6. ~(Cardinality(older) < Cardinality(S) - max)
    BY <2>1
  <2> HIDE DEF older
  <2> QED BY <2>2, <2>4, <2>5, <2>6, <1>1
<1> QED BY <1>2, <1>3

LEMMA PrunedFacts ==
  ASSUME BndTypeOK, NEW rec \in [Launches -> Records], NEW mnt \in [Launches -> SUBSET Sides], NEW p \in Launches
  PROVE  /\ Pruned(rec, mnt, p) \in [Launches -> Records]
         /\ Pruned(rec, mnt, p)[p] = rec[p]
         /\ \A l \in Launches : \/ Pruned(rec, mnt, p)[l] = rec[l]
                                \/ Pruned(rec, mnt, p)[l] = "pruned" /\ l # p /\ rec[l] \in Terminal
                                   /\ (mnt[l] = {} \/ l \in unowned)
BY DEF Pruned, Removable, Records

LEMMA PrunedBound ==
  ASSUME NEW rec \in [Launches -> Records], NEW mnt \in [Launches -> SUBSET Sides], NEW p \in Launches,
         IsFiniteSet({l \in Launches : rec[l] # "none"})
  PROVE  Cardinality(Removable(Pruned(rec, mnt, p), mnt)) <= MaxTerminal
<1> DEFINE S == Removable(rec, mnt)
           left == Removable(Pruned(rec, mnt, p), mnt)
<1>1. S \in SUBSET Nat /\ MaxTerminal \in Nat \ {0}
  BY BoundaryAssumption DEF Removable
<1>2. IsFiniteSet(S)
  <2>1. S \in SUBSET {l \in Launches : rec[l] # "none"}
    BY DEF Removable, Terminal
  <2> QED BY <2>1, FS_Subset
<1>3. left \in SUBSET S
  BY DEF Removable, Pruned, Terminal
<1>4. \A l \in left : l = p \/ ~(Cardinality({k \in S \ {p} : k < l}) < Cardinality(S) - MaxTerminal)
  BY DEF Removable, Pruned, Terminal
<1> HIDE DEF S, left
<1>5. Cardinality(left) <= MaxTerminal
  BY <1>1, <1>2, <1>3, <1>4, OldestGo
<1> QED BY <1>5 DEF left

LEMMA BndStarts == ASSUME BndInit PROVE BndIInv
<1>1. BndTypeOK
  BY DEF BndInit, BndTypeOK, Records, Resting, BndPhases
<1>2. StartOK /\ PrunedOK /\ EndedOK /\ FailedStartOK
  BY DEF BndInit, StartOK, PrunedOK, EndedOK, FailedStartOK, Resting, Creating, Sides
<1>3. HistoryOK
  <2>1. Begun = {} /\ Removable(record, mounts) = {} /\ phase = "idle"
    BY DEF BndInit, Begun, Removable, Terminal
  <2> QED BY <2>1, FS_EmptySet, BoundaryAssumption DEF HistoryOK
<1> QED BY <1>1, <1>2, <1>3 DEF BndIInv

(* A step that leaves the namespaces, the records and the orphans alone    *)
(* leaves the history as it is.                                            *)
LEMMA HistoryRests ==
  ASSUME HistoryOK, UNCHANGED <<record, mounts, unowned>>,
         phase' \in {"guard", "ready"} => phase \in {"guard", "ready"}
  PROVE  HistoryOK'
<1>1. Begun' = Begun /\ Removable(record, mounts)' = Removable(record, mounts)
  BY DEF Begun, Removable
<1> QED BY <1>1 DEF HistoryOK

(* What becomes of the records when one is stored.                         *)
LEMMA StoreFacts ==
  ASSUME BndIInv, NEW l \in Launches, NEW s \in {"active", "ended", "failed"}, Stores(l, s)
  PROVE  /\ record' \in [Launches -> Records] /\ record'[l] = s
         /\ \A k \in Launches \ {l} : \/ record'[k] = record[k]
                                      \/ record'[k] = "pruned" /\ record[k] \in Terminal
                                         /\ (mounts[k] = {} \/ k \in unowned)
         /\ IsFiniteSet({k \in Launches : record'[k] # "none"})
         /\ Cardinality(Removable(record', mounts)) <= MaxTerminal
<1> DEFINE rec == [record EXCEPT ![l] = s]
<1>1. /\ rec \in [Launches -> Records] /\ rec[l] = s /\ \A k \in Launches \ {l} : rec[k] = record[k]
      /\ mounts \in [Launches -> SUBSET Sides] /\ BndTypeOK
  BY DEF BndIInv, BndTypeOK, Records
<1>2. IsFiniteSet({k \in Launches : rec[k] # "none"})
  <2>1. {k \in Launches : rec[k] # "none"} = Begun \cup {l}
    BY <1>1 DEF Begun
  <2>2. IsFiniteSet(Begun)
    BY DEF BndIInv, HistoryOK
  <2> QED BY <2>1, <2>2, FS_AddElement
<1>3. record' = Pruned(rec, mounts, l)
  BY DEF Stores
<1> HIDE DEF rec
<1>4. /\ record' \in [Launches -> Records] /\ record'[l] = rec[l]
      /\ \A k \in Launches : \/ record'[k] = rec[k]
                             \/ record'[k] = "pruned" /\ k # l /\ rec[k] \in Terminal
                                /\ (mounts[k] = {} \/ k \in unowned)
  BY <1>1, <1>3, PrunedFacts
<1>5. Cardinality(Removable(record', mounts)) <= MaxTerminal
  BY <1>1, <1>2, <1>3, PrunedBound
<1>6. IsFiniteSet({k \in Launches : record'[k] # "none"})
  <2>1. {k \in Launches : record'[k] # "none"} \subseteq {k \in Launches : rec[k] # "none"}
    BY <1>1, <1>4 DEF Terminal
  <2> QED BY <1>2, <2>1, FS_Subset
<1> QED BY <1>1, <1>4, <1>5, <1>6

(* What a teardown takes, what it leaves being held against health.        *)
LEMMA TornDownToFacts ==
  ASSUME BndTypeOK, NEW l \in Launches, NEW left \in SUBSET mounts[l], TornDownTo(l, left)
  PROVE  /\ mounts' \in [Launches -> SUBSET Sides] /\ mounts'[l] \subseteq mounts[l]
         /\ \A k \in Launches \ {l} : mounts'[k] = mounts[k]
         /\ UNCHANGED <<replaced, veth>>
         /\ healthOk' \in BOOLEAN /\ (healthOk' => healthOk /\ mounts'[l] = {})
<1>1. /\ mounts' = [mounts EXCEPT ![l] = left] /\ UNCHANGED <<replaced, veth>> /\ left \in SUBSET Sides
      /\ healthOk' = (healthOk /\ left = {})
  BY DEF TornDownTo, BndTypeOK
<1>2. healthOk' \in BOOLEAN /\ (healthOk' => healthOk /\ left = {})
  BY <1>1 DEF BndTypeOK
<1>3. /\ mounts' \in [Launches -> SUBSET Sides] /\ mounts'[l] = left
      /\ \A k \in Launches \ {l} : mounts'[k] = mounts[k]
  BY <1>1 DEF BndTypeOK
<1> QED BY <1>1, <1>2, <1>3

LEMMA TornDownFacts ==
  ASSUME BndTypeOK, NEW l \in Launches, TornDown(l)
  PROVE  /\ mounts' \in [Launches -> SUBSET Sides] /\ mounts'[l] \subseteq mounts[l]
         /\ \A k \in Launches \ {l} : mounts'[k] = mounts[k]
         /\ UNCHANGED <<replaced, veth>>
         /\ healthOk' \in BOOLEAN /\ (healthOk' => healthOk /\ mounts'[l] = {})
         /\ bndFaults' \in Nat /\ bndFaults' >= bndFaults
<1>1. PICK left \in SUBSET mounts[l] : Teardown(l, left) /\ TornDownTo(l, left)
  BY DEF TornDown
<1>2. bndFaults' \in Nat /\ bndFaults' >= bndFaults
  BY <1>1 DEF Teardown, Fault, BndTypeOK
<1> QED BY <1>1, <1>2, TornDownToFacts

LEMMA TornDownTerminalFacts ==
  ASSUME BndIInv, NEW l \in Launches, TornDownTerminal(l), UNCHANGED unowned
  PROVE  /\ mounts' \in [Launches -> SUBSET Sides] /\ mounts'[l] \subseteq mounts[l]
         /\ \A k \in Launches \ {l} : mounts'[k] = mounts[k]
         /\ UNCHANGED <<replaced, veth>>
         /\ healthOk' \in BOOLEAN /\ (healthOk' => healthOk /\ (l \in unowned \/ mounts'[l] = {}))
         /\ bndFaults' \in Nat /\ bndFaults' >= bndFaults
         /\ record' \in [Launches -> Records]
         /\ \A k \in Launches : \/ record'[k] = record[k]
                                \/ record'[k] = "pruned" /\ record[k] \in Terminal
                                   /\ (mounts'[k] = {} \/ k \in unowned)
         /\ IsFiniteSet(Begun')
         /\ Cardinality(Removable(record, mounts)') <= MaxTerminal + 1
         /\ phase \in {"guard", "ready"} => Cardinality(Removable(record, mounts)') <= MaxTerminal
<1>1. /\ mounts' \in [Launches -> SUBSET Sides] /\ mounts'[l] \subseteq mounts[l]
      /\ \A k \in Launches \ {l} : mounts'[k] = mounts[k]
      /\ UNCHANGED <<replaced, veth>>
      /\ healthOk' \in BOOLEAN /\ (healthOk' => healthOk /\ (l \in unowned \/ mounts'[l] = {}))
      /\ bndFaults' \in Nat /\ bndFaults' >= bndFaults
  <2>1. CASE l \in unowned
    BY <2>1 DEF TornDownTerminal, BndIInv, BndTypeOK, netVars
  <2>2. CASE l \notin unowned
    BY <2>2, TornDownFacts DEF TornDownTerminal, BndIInv
  <2> QED BY <2>1, <2>2
<1>2. CASE l \in unowned \/ mounts'[l] = {}
  <2>1. record' = Pruned(record, mounts', l)
    BY <1>2 DEF TornDownTerminal
  <2>2. BndTypeOK /\ record \in [Launches -> Records] /\ IsFiniteSet({k \in Launches : record[k] # "none"})
    BY DEF BndIInv, BndTypeOK, HistoryOK, Begun
  <2>3. /\ record' \in [Launches -> Records]
        /\ \A k \in Launches : \/ record'[k] = record[k]
                               \/ record'[k] = "pruned" /\ record[k] \in Terminal
                                  /\ (mounts'[k] = {} \/ k \in unowned)
    BY <1>1, <2>1, <2>2, PrunedFacts
  <2>4. Cardinality(Removable(record', mounts')) <= MaxTerminal
    BY <1>1, <2>1, <2>2, PrunedBound
  <2>5. Removable(record, mounts)' = Removable(record', mounts')
    BY DEF Removable
  <2>6. Cardinality(Removable(record, mounts)') <= MaxTerminal
    BY <2>4, <2>5
  <2>7. Cardinality(Removable(record, mounts)') <= MaxTerminal + 1
    <3>1. Removable(record, mounts)' \in SUBSET {k \in Launches : record[k] # "none"}
      BY <2>3 DEF Removable, Terminal
    <3>2. Cardinality(Removable(record, mounts)') \in Nat
      BY <3>1, <2>2, FS_Subset, FS_CardinalityType
    <3> QED BY <2>6, <3>2, BoundaryAssumption
  <2>8. IsFiniteSet(Begun')
    <3>1. Begun' \in SUBSET {k \in Launches : record[k] # "none"}
      BY <2>3 DEF Begun, Terminal
    <3> QED BY <3>1, <2>2, FS_Subset
  <2> QED BY <1>1, <2>3, <2>6, <2>7, <2>8
<1>3. CASE l \notin unowned /\ mounts'[l] # {}
  <2>1. record' = record
    BY <1>3 DEF TornDownTerminal
  <2>2. Begun' = Begun /\ Removable(record, mounts)' = Removable(record, mounts)
    BY <1>1, <1>3, <2>1 DEF Begun, Removable
  <2>3. record \in [Launches -> Records] /\ HistoryOK
    BY DEF BndIInv, BndTypeOK
  <2> QED BY <1>1, <2>1, <2>2, <2>3 DEF HistoryOK
<1> QED BY <1>2, <1>3

LEMMA StartStepsKeep ==
  ASSUME BndIInv, AddLink \/ SettleNet \/ Arrange \/ LaunchUnit \/ ReleaseGate
  PROVE  BndIInv'
<1> USE DEF BndIInv
<1>1. /\ UNCHANGED <<mounts, replaced, record, unowned, healthOk, ending, toRecover, givenUp, bndFaults, restarts>>
      /\ phase \notin Resting /\ phase' \in BndPhases
      /\ phase' \in {"guard", "ready"} => phase \in {"guard", "ready"}
      /\ launch' \in {launch, NoLaunch} /\ veth' \in {veth, veth \cup {launch}, veth \ {launch}}
      /\ phase' # "idle" => phase' \notin Resting /\ launch' = launch
      /\ phase' = "idle" => launch' = NoLaunch /\ phase = "ready" /\ veth' = veth
      /\ phase' \notin {"down", "recover"}
      /\ phase' \in {"settle", "arrange", "unit", "record"} =>
           (phase = "place" /\ veth' = veth \ {launch}) \/ (phase \in {"settle", "arrange", "unit", "record"} /\ veth' = veth)
  BY DEF AddLink, SettleNet, Arrange, LaunchUnit, ReleaseGate, Proceeds, netVars, watchVars,
         Resting, BndPhases, Creating
<1>2. launch \in Launches
  BY <1>1 DEF StartOK
<1>3. BndTypeOK'
  BY <1>1, <1>2 DEF BndTypeOK
<1>4. phase' \in Creating \cup {"arrange", "unit", "record"} => phase \in Creating \cup {"arrange", "unit", "record"}
  BY DEF AddLink, SettleNet, Arrange, LaunchUnit, ReleaseGate, Proceeds, Creating
<1>5. StartOK'
  BY <1>1, <1>2, <1>4 DEF StartOK, Resting
<1>6. PrunedOK' /\ EndedOK'
  BY <1>1 DEF PrunedOK, EndedOK, Resting
<1>7. HistoryOK'
  BY <1>1, HistoryRests
<1>8. FailedStartOK'
  BY <1>1, <1>2 DEF FailedStartOK, StartOK
<1> QED BY <1>3, <1>5, <1>6, <1>7, <1>8

LEMMA WatchStepsKeep ==
  ASSUME BndIInv, NEW l \in Launches,
         \/ DeniedPacket(l) \/ WorkloadExits(l) \/ WarmUp(l) \/ ResetAndArm(l) \/ PollCounter(l)
         \/ WatchFails(l) \/ \E side \in Sides : Replace(l, side)
  PROVE  BndIInv'
<1> USE DEF BndIInv
<1>1. /\ UNCHANGED <<mounts, veth, record, unowned, launch, healthOk, ending, toRecover, givenUp, restarts>>
      /\ phase' = phase \/ (phase = "guard" /\ phase' = "ready")
  BY DEF DeniedPacket, WorkloadExits, WarmUp, ResetAndArm, PollCounter, WatchFails, Replace, netVars
<1>2. bndFaults' \in Nat /\ bndFaults' >= bndFaults
  BY DEF DeniedPacket, WorkloadExits, WarmUp, ResetAndArm, PollCounter, WatchFails, Replace,
         BndTypeOK, Fault
<1>3. replaced' \in [Launches -> SUBSET Sides]
  BY DEF DeniedPacket, WorkloadExits, WarmUp, ResetAndArm, PollCounter, WatchFails, Replace,
         BndTypeOK, netVars
<1>4. BndTypeOK'
  BY <1>1, <1>2, <1>3 DEF BndTypeOK, BndPhases
<1>5. StartOK' /\ PrunedOK' /\ EndedOK'
  BY <1>1 DEF StartOK, PrunedOK, EndedOK, Resting, Creating
<1>6. HistoryOK'
  BY <1>1, HistoryRests
<1>7. FailedStartOK'
  BY <1>1, <1>2 DEF FailedStartOK, BndTypeOK
<1> QED BY <1>4, <1>5, <1>6, <1>7

LEMMA RestartStepsKeep ==
  ASSUME BndIInv, \/ SupervisorCrash \/ SupervisorRestart \/ Recovered \/ \E l \in Launches : RecoverPruned(l)
  PROVE  BndIInv'
<1> USE DEF BndIInv
<1>1. UNCHANGED <<mounts, replaced, veth, record, unowned, bndFaults>> /\ phase' \in Resting
  BY DEF SupervisorCrash, SupervisorRestart, Recovered, RecoverPruned, netVars, Resting
<1>2. \/ UNCHANGED <<restarts, healthOk, launch, givenUp>>
      \/ restarts' = restarts + 1
  BY DEF SupervisorCrash, SupervisorRestart, Recovered, RecoverPruned
<1>9. healthOk' \in BOOLEAN
  BY DEF SupervisorCrash, SupervisorRestart, Recovered, RecoverPruned, BndTypeOK
<1>8. BndTypeOK'
  BY <1>1, <1>2, <1>9 DEF BndTypeOK, BndPhases
<1>3. StartOK'
  BY <1>1 DEF SupervisorCrash, SupervisorRestart, Recovered, RecoverPruned, StartOK, Resting,
              Creating
<1>4. PrunedOK'
  BY <1>1 DEF PrunedOK
<1>5. HistoryOK'
  BY <1>1, HistoryRests DEF Resting
<1>6. EndedOK'
  BY <1>1 DEF SupervisorCrash, SupervisorRestart, Recovered, RecoverPruned, EndedOK, Terminal
<1>7. FailedStartOK'
  <2>1. CASE UNCHANGED <<restarts, healthOk, launch, givenUp>>
    BY <1>1, <2>1 DEF FailedStartOK
  <2>2. CASE restarts' = restarts + 1
    <3>1. restarts' # 0
      BY <2>2 DEF BndTypeOK
    <3> QED BY <3>1 DEF FailedStartOK
  <2> QED BY <1>2, <2>1, <2>2
<1> QED BY <1>8, <1>3, <1>4, <1>5, <1>6, <1>7

(* A new run: nothing of it is on the host.                                *)
LEMMA BeginKeeps == ASSUME BndIInv, NEW l \in Launches, Begin(l) PROVE BndIInv'
<1> USE DEF BndIInv
<1>1. /\ UNCHANGED <<mounts, replaced, veth, unowned, healthOk, ending, toRecover, givenUp, bndFaults, restarts>>
      /\ phase = "idle" /\ phase' = "workload" /\ launch' = l /\ record[l] = "none"
      /\ record' = [record EXCEPT ![l] = "unwritten"] /\ launch = NoLaunch
  BY DEF Begin, netVars, StartOK, Resting
<1>2. /\ record' \in [Launches -> Records] /\ record'[l] = "unwritten"
      /\ \A k \in Launches \ {l} : record'[k] = record[k]
  BY <1>1 DEF BndTypeOK, Records
<1>3. BndTypeOK' /\ StartOK' /\ PrunedOK' /\ EndedOK' /\ FailedStartOK'
  BY <1>1, <1>2, BoundaryAssumption DEF BndTypeOK, StartOK, PrunedOK, EndedOK, FailedStartOK,
                                        BndPhases, Resting, Creating,
                    NoLaunch
<1>4. HistoryOK'
  <2>1. Begun' = Begun \cup {l}
    BY <1>2 DEF Begun
  <2>2. Removable(record, mounts)' = Removable(record, mounts)
    BY <1>1, <1>2 DEF Removable, Terminal
  <2> QED BY <1>1, <2>1, <2>2, FS_AddElement DEF HistoryOK
<1> QED BY <1>3, <1>4

(* The namespaces of a run that has no record are not of the history.      *)
LEMMA HistoryOfOthers ==
  ASSUME BndIInv, NEW l \in Launches, record[l] = "unwritten", UNCHANGED <<record, unowned>>,
         \A k \in Launches \ {l} : mounts'[k] = mounts[k], phase' \notin {"guard", "ready"}
  PROVE  HistoryOK'
<1>1. Begun' = Begun /\ Removable(record, mounts)' = Removable(record, mounts)
  BY DEF Begun, Removable, Terminal
<1> QED BY <1>1 DEF HistoryOK, BndIInv

LEMMA AddNamespaceKeeps ==
  ASSUME BndIInv, AddNamespace("workload", "sink") \/ AddNamespace("sink", "veth")
  PROVE  BndIInv'
<1> USE DEF BndIInv
<1>1. /\ UNCHANGED <<replaced, veth, record, unowned, launch, healthOk, ending, toRecover, givenUp, bndFaults, restarts>>
      /\ phase \in Sides /\ phase' \in {"sink", "veth"}
      /\ mounts' = [mounts EXCEPT ![launch] = @ \cup {phase}]
  BY DEF AddNamespace, Proceeds, Sides
<1>2. launch \in Launches /\ record[launch] = "unwritten"
  BY <1>1 DEF StartOK, Sides, Resting, Creating
<1>3. /\ mounts' \in [Launches -> SUBSET Sides]
      /\ \A k \in Launches \ {launch} : mounts'[k] = mounts[k]
  BY <1>1, <1>2 DEF BndTypeOK
<1>4. BndTypeOK' /\ StartOK' /\ PrunedOK' /\ EndedOK' /\ FailedStartOK'
  BY <1>1, <1>2, <1>3 DEF BndTypeOK, StartOK, PrunedOK, EndedOK, FailedStartOK, BndPhases,
                          Resting, Creating, Sides
<1>5. HistoryOK'
  BY <1>1, <1>2, <1>3, HistoryOfOthers
<1> QED BY <1>4, <1>5

LEMMA CreateFailsKeeps == ASSUME BndIInv, CreateFails PROVE BndIInv'
<1> USE DEF BndIInv
<1>1. /\ UNCHANGED <<replaced, record, unowned, healthOk, ending, toRecover, restarts>>
      /\ phase \in Creating /\ phase' = "idle" /\ launch' = NoLaunch
  BY DEF CreateFails
<1>2. launch \in Launches /\ record[launch] = "unwritten"
  BY <1>1 DEF StartOK, Resting, Creating
<1>3. PICK effect \in BOOLEAN, left \in SUBSET mounts[launch], halves \in SUBSET (veth \cap {launch}) :
       /\ effect => phase \in Sides
       /\ bndFaults' = bndFaults + 1 + Cardinality(left) + Cardinality(halves)
       /\ givenUp' = IF effect THEN givenUp \cup {launch} ELSE givenUp
       /\ mounts' = [mounts EXCEPT ![launch] = left \cup (IF effect THEN {phase} ELSE {})]
       /\ veth' = (veth \ {launch}) \cup halves
  BY DEF CreateFails
<1>4. /\ IsFiniteSet(left) /\ Cardinality(left) \in Nat
      /\ IsFiniteSet(halves) /\ Cardinality(halves) \in Nat
  <2>1. IsFiniteSet(Sides) /\ IsFiniteSet({launch})
    <3>1. Sides = {"workload"} \cup {"sink"}
      BY DEF Sides
    <3> QED BY <3>1, FS_Singleton, FS_AddElement
  <2>2. left \in SUBSET Sides /\ halves \in SUBSET {launch}
    BY <1>2 DEF BndTypeOK
  <2> QED BY <2>1, <2>2, FS_Subset, FS_CardinalityType
<1>5. /\ bndFaults' \in Nat /\ bndFaults' >= bndFaults
      /\ bndFaults' <= 1 => left = {} /\ halves = {} /\ bndFaults = 0
  <2>1. (Cardinality(left) = 0 => left = {}) /\ (Cardinality(halves) = 0 => halves = {}) /\ bndFaults \in Nat
    BY <1>4, FS_EmptySet DEF BndTypeOK
  <2> QED BY <1>3, <1>4, <2>1
<1>6. /\ mounts' \in [Launches -> SUBSET Sides]
      /\ mounts'[launch] = left \cup (IF effect THEN {phase} ELSE {})
      /\ \A k \in Launches \ {launch} : mounts'[k] = mounts[k]
  BY <1>2, <1>3 DEF BndTypeOK
<1>7. BndTypeOK'
  BY <1>1, <1>3, <1>5, <1>6 DEF BndTypeOK, BndPhases, Resting
<1>8. StartOK' /\ PrunedOK' /\ EndedOK'
  <2>1. givenUp \subseteq givenUp'
    BY <1>3
  <2> QED BY <1>1, <1>2, <1>6, <2>1 DEF StartOK, PrunedOK, EndedOK, Resting, Creating
<1>9. HistoryOK'
  BY <1>1, <1>2, <1>6, HistoryOfOthers
<1>10. FailedStartOK'
  BY <1>1, <1>2, <1>3, <1>5, <1>6 DEF FailedStartOK, BndTypeOK
<1> QED BY <1>7, <1>8, <1>9, <1>10

(* A record is stored of a run that has one, or of the run that starts.    *)
LEMMA StoreRecordKeeps == ASSUME BndIInv, StoreRecord PROVE BndIInv'
<1> USE DEF BndIInv
<1>1. /\ UNCHANGED <<mounts, replaced, veth, unowned, launch, healthOk, ending, toRecover, givenUp, bndFaults, restarts>>
      /\ phase = "record" /\ phase' = "guard" /\ Stores(launch, "active")
  BY DEF StoreRecord, Proceeds, netVars
<1>2. launch \in Launches /\ record[launch] = "unwritten"
  BY <1>1 DEF StartOK, Resting
<1>3. /\ record' \in [Launches -> Records] /\ record'[launch] = "active"
      /\ \A k \in Launches \ {launch} : \/ record'[k] = record[k]
                                        \/ record'[k] = "pruned" /\ record[k] \in Terminal
                                           /\ (mounts[k] = {} \/ k \in unowned)
      /\ IsFiniteSet({k \in Launches : record'[k] # "none"})
      /\ Cardinality(Removable(record', mounts)) <= MaxTerminal
  BY <1>1, <1>2, StoreFacts
<1>4. BndTypeOK' /\ StartOK' /\ PrunedOK' /\ EndedOK' /\ FailedStartOK'
  BY <1>1, <1>2, <1>3 DEF BndTypeOK, StartOK, PrunedOK, EndedOK, FailedStartOK, BndPhases,
                          Resting, Creating, Terminal
<1>5. HistoryOK'
  <2>1. /\ Begun' = {k \in Launches : record'[k] # "none"}
        /\ Removable(record, mounts)' = Removable(record', mounts)
    BY <1>1 DEF Begun, Removable
  <2>2. Cardinality(Removable(record, mounts)') \in Nat
    <3>1. Removable(record, mounts)' \in SUBSET Begun'
      BY DEF Begun, Removable, Terminal
    <3> QED BY <3>1, <2>1, <1>3, FS_Subset, FS_CardinalityType
  <2> QED BY <1>3, <2>1, <2>2, BoundaryAssumption DEF HistoryOK
<1> QED BY <1>4, <1>5

LEMMA RunEndsKeeps ==
  ASSUME BndIInv, NEW l \in Launches, PollEmpty(l) \/ WatchFindsGone(l) \/ Contain(l) \/ RecoverActive(l)
  PROVE  BndIInv'
<1> USE DEF BndIInv
<1>1. /\ UNCHANGED <<mounts, replaced, veth, unowned, launch, healthOk, restarts>>
      /\ givenUp \subseteq givenUp'
      /\ record[l] \in {"active", "failed"}
      /\ \/ Stores(l, "ended") /\ ending' = ending \cup {l} /\ phase' = phase
         \/ Stores(l, "ended") /\ ending' = ending /\ phase' = phase /\ toRecover' = toRecover /\ l \in givenUp'
         \/ Stores(l, "failed") /\ ending' = ending /\ phase' = phase /\ toRecover' = toRecover
         \/ Stores(l, "failed") /\ ending' = ending /\ phase = "recover" /\ phase' = "down"
      /\ toRecover' = toRecover \/ (phase = "recover" /\ toRecover' = toRecover \ {l})
  BY DEF PollEmpty, WatchFindsGone, Contain, RecoverActive, RunEnded, Watched, netVars
<1>2. bndFaults' \in Nat /\ bndFaults' >= bndFaults
  BY DEF PollEmpty, WatchFindsGone, Contain, RecoverActive, Fault, BndTypeOK
<1>3. /\ record' \in [Launches -> Records] /\ record'[l] \in Terminal
      /\ \A k \in Launches \ {l} : \/ record'[k] = record[k]
                                   \/ record'[k] = "pruned" /\ record[k] \in Terminal
                                      /\ (mounts[k] = {} \/ k \in unowned)
      /\ IsFiniteSet({k \in Launches : record'[k] # "none"})
      /\ Cardinality(Removable(record', mounts)) <= MaxTerminal
      /\ record'[l] = "ended" => l \in ending' \/ l \in givenUp'
      /\ ending \subseteq ending'
  <2>1. CASE Stores(l, "ended") /\ (l \in ending' \/ l \in givenUp') /\ ending \subseteq ending'
    BY <2>1, StoreFacts DEF Terminal
  <2>2. CASE Stores(l, "failed") /\ ending' = ending
    BY <2>2, StoreFacts DEF Terminal
  <2> QED BY <1>1, <2>1, <2>2
<1>4. BndTypeOK'
  BY <1>1, <1>2, <1>3 DEF BndTypeOK, BndPhases, Resting
<1>5. StartOK'
  BY <1>1, <1>3 DEF StartOK, Resting, Creating, Terminal
<1>6. PrunedOK'
  BY <1>1, <1>3 DEF PrunedOK, Terminal
<1>7. EndedOK'
  BY <1>1, <1>3 DEF EndedOK, Terminal
<1>8. FailedStartOK'
  BY <1>1, <1>2, <1>3 DEF FailedStartOK, BndTypeOK, Terminal
<1>9. HistoryOK'
  <2>1. /\ Begun' = {k \in Launches : record'[k] # "none"}
        /\ Removable(record, mounts)' = Removable(record', mounts)
    BY <1>1 DEF Begun, Removable
  <2>2. Cardinality(Removable(record, mounts)') \in Nat
    <3>1. Removable(record, mounts)' \in SUBSET Begun'
      BY DEF Begun, Removable, Terminal
    <3> QED BY <3>1, <2>1, <1>3, FS_Subset, FS_CardinalityType
  <2> QED BY <1>3, <2>1, <2>2, BoundaryAssumption DEF HistoryOK
<1> QED BY <1>4, <1>5, <1>6, <1>7, <1>8, <1>9

(* A run found by its cgroup is recorded without a boundary, and only then *)
(* is of those that may be pruned.                                         *)
LEMMA RecoverOrphanKeeps == ASSUME BndIInv, NEW l \in Launches, RecoverOrphan(l) PROVE BndIInv'
<1> USE DEF BndIInv
<1>1. /\ UNCHANGED <<mounts, replaced, veth, launch, phase, healthOk, ending, toRecover, givenUp, bndFaults, restarts>>
      /\ phase = "recover" /\ record[l] = "unwritten" /\ unowned' = unowned \cup {l} /\ Stores(l, "ended")
  BY DEF RecoverOrphan, netVars
<1>2. /\ record' \in [Launches -> Records] /\ record'[l] = "ended"
      /\ \A k \in Launches \ {l} : \/ record'[k] = record[k]
                                   \/ record'[k] = "pruned" /\ record[k] \in Terminal
                                      /\ (mounts[k] = {} \/ k \in unowned)
      /\ IsFiniteSet({k \in Launches : record'[k] # "none"})
      /\ Cardinality(Removable(record', mounts)) <= MaxTerminal
  BY <1>1, StoreFacts
<1>3. BndTypeOK' /\ StartOK' /\ PrunedOK' /\ EndedOK' /\ FailedStartOK'
  BY <1>1, <1>2 DEF BndTypeOK, StartOK, PrunedOK, EndedOK, FailedStartOK, BndPhases, Resting,
                    Creating, Terminal
<1>4. HistoryOK'
  <2>1. /\ Begun' = {k \in Launches : record'[k] # "none"}
        /\ Removable(record, mounts)' \in SUBSET (Removable(record', mounts) \cup {l})
    BY <1>1 DEF Begun, Removable
  <2>2. IsFiniteSet(Removable(record', mounts))
    <3>1. Removable(record', mounts) \in SUBSET {k \in Launches : record'[k] # "none"}
      BY DEF Removable, Terminal
    <3> QED BY <3>1, <1>2, FS_Subset
  <2>3. /\ IsFiniteSet(Removable(record', mounts) \cup {l})
        /\ Cardinality(Removable(record', mounts) \cup {l}) <= MaxTerminal + 1
    <3>1. Cardinality(Removable(record', mounts)) \in Nat
      BY <2>2, FS_CardinalityType
    <3>2. /\ IsFiniteSet(Removable(record', mounts) \cup {l})
          /\ \/ Cardinality(Removable(record', mounts) \cup {l}) = Cardinality(Removable(record', mounts))
             \/ Cardinality(Removable(record', mounts) \cup {l}) = Cardinality(Removable(record', mounts)) + 1
      BY <2>2, FS_AddElement
    <3> QED BY <1>2, <3>1, <3>2, BoundaryAssumption
  <2>4. Cardinality(Removable(record, mounts)') <= MaxTerminal + 1
    <3>1. /\ Cardinality(Removable(record, mounts)') <= Cardinality(Removable(record', mounts) \cup {l})
          /\ Cardinality(Removable(record, mounts)') \in Nat
          /\ Cardinality(Removable(record', mounts) \cup {l}) \in Nat
      BY <2>1, <2>3, FS_Subset, FS_CardinalityType
    <3> QED BY <3>1, <2>3, BoundaryAssumption
  <2> QED BY <1>1, <1>2, <2>1, <2>4 DEF HistoryOK
<1> QED BY <1>3, <1>4

LEMMA TeardownKeeps ==
  ASSUME BndIInv, NEW l \in Launches, EndTeardown(l) \/ RecoverEnded(l)
  PROVE  BndIInv'
<1> USE DEF BndIInv
<1>1. /\ UNCHANGED <<unowned, launch, phase, givenUp, restarts>> /\ TornDownTerminal(l)
      /\ \/ ending' = ending \ {l} /\ toRecover' = toRecover
         \/ ending' = ending /\ toRecover' = toRecover \ {l}
  BY DEF EndTeardown, RecoverEnded
<1>2. /\ mounts' \in [Launches -> SUBSET Sides] /\ mounts'[l] \subseteq mounts[l]
      /\ \A k \in Launches \ {l} : mounts'[k] = mounts[k]
      /\ UNCHANGED <<replaced, veth>>
      /\ healthOk' \in BOOLEAN /\ (healthOk' => healthOk /\ (l \in unowned \/ mounts'[l] = {}))
      /\ bndFaults' \in Nat /\ bndFaults' >= bndFaults
      /\ record' \in [Launches -> Records]
      /\ \A k \in Launches : \/ record'[k] = record[k]
                             \/ record'[k] = "pruned" /\ record[k] \in Terminal
                                /\ (mounts'[k] = {} \/ k \in unowned)
      /\ IsFiniteSet(Begun')
      /\ Cardinality(Removable(record, mounts)') <= MaxTerminal + 1
      /\ phase \in {"guard", "ready"} => Cardinality(Removable(record, mounts)') <= MaxTerminal
  BY <1>1, TornDownTerminalFacts
<1>3. BndTypeOK'
  BY <1>1, <1>2 DEF BndTypeOK
<1>4. StartOK'
  BY <1>1, <1>2 DEF StartOK, Resting, Creating, Terminal
<1>5. PrunedOK' /\ HistoryOK'
  BY <1>1, <1>2 DEF PrunedOK, HistoryOK, Terminal
<1>6. EndedOK'
  BY <1>1, <1>2 DEF EndedOK, Terminal
<1>7. FailedStartOK'
  BY <1>1, <1>2 DEF FailedStartOK, BndTypeOK, Terminal
<1> QED BY <1>3, <1>4, <1>5, <1>6, <1>7

LEMMA LaunchFailsKeeps == ASSUME BndIInv, LaunchFails PROVE BndIInv'
<1> USE DEF BndIInv
<1>1. /\ UNCHANGED <<record, unowned, ending, toRecover, givenUp, restarts>>
      /\ phase \in {"arrange", "unit", "record", "guard", "ready"} /\ phase' = "idle" /\ launch' = NoLaunch
      /\ \/ TornDown(launch)
         \/ Fault /\ TornDownTo(launch, replaced[launch] \cap mounts[launch])
  BY DEF LaunchFails
<1>2. launch \in Launches
  BY <1>1 DEF StartOK, Resting
<1>3. /\ mounts' \in [Launches -> SUBSET Sides] /\ mounts'[launch] \subseteq mounts[launch]
      /\ \A k \in Launches \ {launch} : mounts'[k] = mounts[k]
      /\ UNCHANGED <<replaced, veth>>
      /\ healthOk' \in BOOLEAN /\ (healthOk' => healthOk /\ mounts'[launch] = {})
      /\ bndFaults' \in Nat /\ bndFaults' >= bndFaults
  <2>1. CASE TornDown(launch)
    BY <1>2, <2>1, TornDownFacts
  <2>2. CASE Fault /\ TornDownTo(launch, replaced[launch] \cap mounts[launch])
    BY <1>2, <2>2, TornDownToFacts DEF Fault, BndTypeOK
  <2> QED BY <1>1, <2>1, <2>2
<1>4. BndTypeOK' /\ StartOK' /\ PrunedOK' /\ EndedOK'
  BY <1>1, <1>2, <1>3 DEF BndTypeOK, StartOK, PrunedOK, EndedOK, BndPhases, Resting, Creating
<1>5. FailedStartOK'
  <2>1. record[launch] = "unwritten" => launch \notin veth
    BY <1>1 DEF StartOK
  <2> QED BY <1>1, <1>2, <1>3, <2>1 DEF FailedStartOK, BndTypeOK
<1>6. HistoryOK'
  <2>1. CASE record[launch] = "unwritten"
    BY <1>1, <1>2, <1>3, <2>1, HistoryOfOthers
  <2>2. CASE record[launch] # "unwritten"
    <3>1. Cardinality(Removable(record, mounts)) <= MaxTerminal
      BY <1>1, <2>2 DEF StartOK, HistoryOK
    <3>2. Removable(record, mounts)' \in SUBSET (Removable(record, mounts) \cup {launch}) /\ Begun' = Begun
      BY <1>1, <1>3 DEF Removable, Begun
    <3>3. IsFiniteSet(Removable(record, mounts)) /\ Cardinality(Removable(record, mounts)) \in Nat
      <4>1. Removable(record, mounts) \in SUBSET Begun /\ IsFiniteSet(Begun)
        BY DEF Removable, Begun, Terminal, HistoryOK
      <4> QED BY <4>1, FS_Subset, FS_CardinalityType
    <3>4. /\ IsFiniteSet(Removable(record, mounts) \cup {launch})
          /\ \/ Cardinality(Removable(record, mounts) \cup {launch}) = Cardinality(Removable(record, mounts))
             \/ Cardinality(Removable(record, mounts) \cup {launch}) = Cardinality(Removable(record, mounts)) + 1
      BY <3>3, FS_AddElement
    <3>5. /\ Cardinality(Removable(record, mounts)') \in Nat
          /\ Cardinality(Removable(record, mounts)') <= Cardinality(Removable(record, mounts) \cup {launch})
      BY <3>2, <3>4, FS_Subset, FS_CardinalityType
    <3>6. Cardinality(Removable(record, mounts)') <= MaxTerminal + 1
      BY <3>1, <3>3, <3>4, <3>5, BoundaryAssumption
    <3> QED BY <1>1, <3>2, <3>6 DEF HistoryOK
  <2> QED BY <2>1, <2>2
<1> QED BY <1>4, <1>5, <1>6

(* A start refused between its boundary and its unit is let go of.         *)
LEMMA LaunchAbandonedKeeps == ASSUME BndIInv, LaunchAbandoned PROVE BndIInv'
<1> USE DEF BndIInv
<1>1. /\ UNCHANGED <<mounts, replaced, veth, record, unowned, healthOk, ending, toRecover, restarts>>
      /\ phase = "unit" /\ phase' = "idle" /\ launch' = NoLaunch
      /\ givenUp' = givenUp \cup {launch} /\ Fault
  BY DEF LaunchAbandoned, netVars
<1>2. BndTypeOK' /\ StartOK' /\ PrunedOK' /\ EndedOK' /\ FailedStartOK'
  BY <1>1 DEF BndTypeOK, StartOK, PrunedOK, EndedOK, FailedStartOK, BndPhases, Resting, Creating, Fault
<1>3. HistoryOK'
  BY <1>1, HistoryRests
<1> QED BY <1>2, <1>3

-----------------------------------------------------------------------------
(* What offline_boundary.py and the supervisor keep at every step: a start *)
(* under way has no record before its unit, no record with a namespace is  *)
(* pruned, the history is within its bound while a start may still fail,   *)
(* and an ended run's namespaces are about to be torn down.                *)
THEOREM BndInvariance == BndSpec => []BndIInv
<1>1. BndInit => BndIInv
  BY BndStarts
<1>2. BndIInv /\ [BndNext]_bndVars => BndIInv'
  <2> SUFFICES ASSUME BndIInv, [BndNext]_bndVars PROVE BndIInv'
    OBVIOUS
  <2>1. CASE UNCHANGED bndVars
    <3>1. BndTypeOK' /\ StartOK' /\ PrunedOK' /\ EndedOK' /\ FailedStartOK'
      BY <2>1 DEF BndIInv, BndTypeOK, StartOK, PrunedOK, EndedOK, FailedStartOK, bndVars, netVars
    <3>2. HistoryOK'
      BY <2>1, HistoryRests DEF BndIInv, bndVars, netVars
    <3> QED BY <3>1, <3>2 DEF BndIInv
  <2>2. ASSUME NEW l \in Launches,
               \/ Begin(l) \/ DeniedPacket(l) \/ WorkloadExits(l) \/ \E side \in Sides : Replace(l, side)
               \/ WarmUp(l) \/ ResetAndArm(l) \/ PollEmpty(l) \/ PollCounter(l) \/ WatchFails(l)
               \/ WatchFindsGone(l) \/ Contain(l) \/ EndTeardown(l)
               \/ RecoverEnded(l) \/ RecoverActive(l) \/ RecoverPruned(l) \/ RecoverOrphan(l)
        PROVE  BndIInv'
    BY <2>2, BeginKeeps, WatchStepsKeep, RunEndsKeeps, TeardownKeeps, RestartStepsKeep,
       RecoverOrphanKeeps
  <2>3. CASE \/ AddNamespace("workload", "sink") \/ AddNamespace("sink", "veth") \/ AddLink \/ SettleNet
             \/ CreateFails \/ Arrange \/ LaunchUnit \/ StoreRecord \/ ReleaseGate \/ LaunchFails
             \/ LaunchAbandoned \/ SupervisorCrash \/ SupervisorRestart \/ Recovered
    BY <2>3, AddNamespaceKeeps, StartStepsKeep, CreateFailsKeeps, StoreRecordKeeps,
       LaunchFailsKeeps, LaunchAbandonedKeeps, RestartStepsKeep
  <2> QED BY <2>1, <2>2, <2>3 DEF BndNext
<1> QED BY <1>1, <1>2, PTL DEF BndSpec

(* Nothing that a run made on the host is forgotten, for any number of     *)
(* runs, bound on the history and set of failures: records go only with    *)
(* their namespaces, an ended run and a start that failed leave none, but  *)
(* for the runs whose teardown this life of the supervisor did not reach.  *)
THEOREM AuthorityIsKept == BndSpec => []AuthorityKept
<1>1. BndIInv => AuthorityKept
  BY DEF BndIInv, PrunedOK, HistoryOK, EndedOK, FailedStartOK, AuthorityKept
<1> QED BY <1>1, BndInvariance, PTL

-----------------------------------------------------------------------------
(* Probe: a cleanup that says it is complete.                              *)
-----------------------------------------------------------------------------

(* The place in the cleanup, and in the body those that are relied upon.   *)
BodyLength == Len(Body(example))
Place == progress - BodyLength
StartPlace == IF example = "probe" THEN 1 ELSE 2
BothPlace == IF example = "probe" THEN 5 ELSE 18
AlonePlace == 11

ProbeTypeOK ==
  /\ example \in {"probe", "race"} /\ progress \in Nat \ {0} /\ Place <= 12
  /\ unit \in {"none", "active", "failed"}
  /\ process \in [ProbeProcesses -> {"none", "new", "in", "live", "dying", "dead"}]
  /\ process["child"] \in {"none", "in", "dying", "dead"}
  /\ process["canary"] \in {"none", "live", "dying", "dead"}
  /\ fds \subseteq Gates \cup {"cancel", "target", "child", "canary", "unowned"}
  /\ raised \in BOOLEAN /\ unclean \in BOOLEAN
  /\ outcome \in {"none", "CLEANUP_INCOMPLETE", "FAILED", "TERMINATED"}

(* Before its owner starts there is nothing.                               *)
FreshOK ==
  progress <= StartPlace =>
    accounted = {} /\ unit = "none" /\ cells = {} /\ \A p \in ProbeProcesses : process[p] = "none"

(* What there is is accounted for, or in a cgroup of the unit, which is.   *)
OwnedOK ==
  /\ cells # {} => unit = "active"
  /\ unit # "none" => "unit" \in accounted
  /\ process["target"] = "in" \/ Inside("child") => "target" \in cells
  /\ process["target"] # "none" => "target" \in accounted
  /\ Running("canary") => "canary" \in accounted

(* A part of the cleanup that is behind, clean, has left nothing.          *)
CleanedOK ==
  /\ Place > 1 => fds \cap (Gates \cup {"cancel"}) = {}
  /\ Place > 5 => "target" \notin fds /\ "child" \notin fds
  /\ Place > 6 => "canary" \notin fds
  /\ "unowned" \in fds => raised /\ example = "race"
  /\ ~unclean =>
       /\ Place > 7 /\ "target" \in accounted => process["target"] = "dead"
       /\ Place > 8 /\ "canary" \in accounted => process["canary"] = "dead"
       /\ Place > 11 => unit = "none"

(* A body that has not raised has seen what it says.                       *)
SeenOK ==
  ~raised =>
    /\ progress > BothPlace => process["target"] # "none" /\ process["child"] # "none"
    /\ progress > AlonePlace /\ example = "race" => before = {"target"}

ReportedOK ==
  /\ outcome \in {"FAILED", "TERMINATED"} => Place = 12 /\ ~unclean
  /\ outcome = "TERMINATED" => ~raised

ProbeIInv == ProbeTypeOK /\ FreshOK /\ OwnedOK /\ CleanedOK /\ SeenOK /\ ReportedOK

-----------------------------------------------------------------------------
(* The two plans.                                                          *)
StepNames ==
  {"uninterrupted", "start", "capture", "canary", "spawn", "attached", "admit", "ready", "cancelfd", "alone",
   "cancel", "cancelling", "fork", "forked", "both", "pidfds", "stopAll", "kill", "empty", "outlives", "succeeds",
   "held", "cellKill", "cellEmpty", "cellRemove", "targetFds", "canaryFd",
   "waitTarget", "waitCanary", "invocation", "stopUnit", "unitGone", "report"}

LEMMA BodyFacts ==
  ASSUME example \in {"probe", "race"}
  PROVE  /\ Body(example) \in Seq(StepNames)
         /\ BodyLength = IF example = "probe" THEN 13 ELSE 24
         /\ \A i \in 1..BodyLength :
              /\ (Body(example)[i] = "start") <=> (i = StartPlace)
              /\ i < StartPlace => Body(example)[i] = "uninterrupted"
              /\ i = BothPlace => Body(example)[i] = "both"
              /\ (example = "race" /\ i = AlonePlace) => Body(example)[i] = "alone"
<1>1. CASE example = "probe"
  <2> DEFINE b == <<"start", "capture", "canary", "spawn", "both", "uninterrupted", "pidfds", "stopAll",
                    "uninterrupted", "kill", "empty", "outlives", "succeeds">>
  <2>1. Body(example) = b
    BY <1>1 DEF Body
  <2>2. b \in Seq(StepNames) /\ Len(b) = 13
    BY DEF StepNames
  <2>4. /\ b[1] = "start" /\ b[2] = "capture" /\ b[3] = "canary" /\ b[4] = "spawn" /\ b[5] = "both"
        /\ b[6] = "uninterrupted" /\ b[7] = "pidfds" /\ b[8] = "stopAll" /\ b[9] = "uninterrupted"
        /\ b[10] = "kill" /\ b[11] = "empty" /\ b[12] = "outlives" /\ b[13] = "succeeds"
    OBVIOUS
  <2> HIDE DEF b
  <2>3. \A i \in 1..13 : (b[i] = "start" <=> i = 1) /\ (i = 5 => b[i] = "both")
    BY <2>4
  <2> QED BY <1>1, <2>1, <2>2, <2>3 DEF BodyLength, StartPlace, BothPlace, AlonePlace
<1>2. CASE example = "race"
  <2> DEFINE b == <<"uninterrupted", "start", "uninterrupted", "capture", "canary", "spawn", "attached", "admit",
         "ready", "cancelfd", "alone", "uninterrupted", "cancel", "cancelling", "uninterrupted",
         "fork", "forked", "both", "uninterrupted", "kill", "empty", "outlives", "uninterrupted", "succeeds">>
  <2>1. Body(example) = b
    BY <1>2 DEF Body
  <2>2. b \in Seq(StepNames) /\ Len(b) = 24
    BY DEF StepNames
  <2>4. /\ b[1] = "uninterrupted" /\ b[2] = "start" /\ b[3] = "uninterrupted" /\ b[4] = "capture"
        /\ b[5] = "canary" /\ b[6] = "spawn" /\ b[7] = "attached" /\ b[8] = "admit" /\ b[9] = "ready"
        /\ b[10] = "cancelfd" /\ b[11] = "alone" /\ b[12] = "uninterrupted" /\ b[13] = "cancel"
        /\ b[14] = "cancelling" /\ b[15] = "uninterrupted" /\ b[16] = "fork" /\ b[17] = "forked"
        /\ b[18] = "both" /\ b[19] = "uninterrupted" /\ b[20] = "kill" /\ b[21] = "empty"
        /\ b[22] = "outlives" /\ b[23] = "uninterrupted" /\ b[24] = "succeeds"
    OBVIOUS
  <2> HIDE DEF b
  <2>3. \A i \in 1..24 : /\ b[i] = "start" <=> i = 2
                         /\ i < 2 => b[i] = "uninterrupted"
                         /\ i = 11 => b[i] = "alone"
                         /\ i = 18 => b[i] = "both"
    BY <2>4
  <2> QED BY <1>2, <2>1, <2>2, <2>3 DEF BodyLength, StartPlace, BothPlace, AlonePlace
<1> QED BY <1>1, <1>2

LEMMA CleanupFacts ==
  /\ CleanupSteps \in Seq(StepNames) /\ Len(CleanupSteps) = 12
  /\ CleanupSteps[1] = "held" /\ CleanupSteps[2] = "cellKill" /\ CleanupSteps[3] = "cellEmpty"
  /\ CleanupSteps[4] = "cellRemove" /\ CleanupSteps[5] = "targetFds" /\ CleanupSteps[6] = "canaryFd"
  /\ CleanupSteps[7] = "waitTarget" /\ CleanupSteps[8] = "waitCanary" /\ CleanupSteps[9] = "invocation"
  /\ CleanupSteps[10] = "stopUnit" /\ CleanupSteps[11] = "unitGone" /\ CleanupSteps[12] = "report"
<1>1. CleanupSteps \in Seq(StepNames)
  BY DEF CleanupSteps, StepNames
<1> QED BY <1>1 DEF CleanupSteps

(* Where a step of the body is, and where one of the cleanup.              *)
LEMMA PlanFacts ==
  ASSUME example \in {"probe", "race"}
  PROVE  /\ BodyLength \in Nat /\ CleanupAt = BodyLength + 1
         /\ DOMAIN Plan(example) = 1..(BodyLength + 12)
         /\ \A i \in 1..BodyLength : Plan(example)[i] = Body(example)[i]
         /\ \A i \in 1..12 : Plan(example)[BodyLength + i] = CleanupSteps[i]
<1>1. PICK b \in Seq(StepNames), n \in Nat : b = Body(example) /\ n = Len(b) /\ n = BodyLength
  BY BodyFacts DEF BodyLength
<1>2. PICK c \in Seq(StepNames), m \in Nat : c = CleanupSteps /\ Len(c) = m /\ m = 12
  BY CleanupFacts
<1>3. /\ DOMAIN (b \o c) = 1..(n + m)
      /\ \A i \in 1..n : (b \o c)[i] = b[i]
      /\ \A i \in 1..m : (b \o c)[n + i] = c[i]
  <2>1. Len(b) = n /\ Len(c) = m
    BY <1>1, <1>2
  <2>2. DOMAIN (b \o c) = 1..(n + m)
    BY <2>1
  <2>3. \A i \in 1..n : (b \o c)[i] = b[i]
    BY <2>1
  <2>4. \A i \in 1..m : (b \o c)[n + i] = c[i]
    BY <2>1
  <2> QED BY <2>2, <2>3, <2>4
<1>4. Plan(example) = b \o c
  BY <1>1, <1>2 DEF Plan
<1>5. CleanupAt = n + 1
  BY <1>1 DEF CleanupAt
<1> QED BY <1>1, <1>2, <1>3, <1>4, <1>5

LEMMA BodyPlace ==
  ASSUME ProbeTypeOK, NEW name, Now(name), progress < CleanupAt
  PROVE  /\ Place <= 0
         /\ name = "start" <=> progress = StartPlace
         /\ progress < StartPlace => name = "uninterrupted"
         /\ progress = BothPlace => name = "both"
         /\ example = "race" /\ progress = AlonePlace => name = "alone"
<1>1. /\ example \in {"probe", "race"} /\ progress \in Nat \ {0} /\ BodyLength \in Nat
      /\ progress \in 1..BodyLength
  BY PlanFacts DEF ProbeTypeOK
<1>2. Body(example)[progress] = name
  BY <1>1, PlanFacts DEF Now
<1>3. Place <= 0
  BY <1>1 DEF Place
<1> QED BY <1>1, <1>2, <1>3, BodyFacts

LEMMA CleanupPlace ==
  ASSUME ProbeTypeOK, NEW name, Now(name), progress >= CleanupAt
  PROVE  Place \in 1..12 /\ CleanupSteps[Place] = name
<1>1. /\ example \in {"probe", "race"} /\ progress \in Nat \ {0} /\ BodyLength \in Nat
      /\ progress <= BodyLength + 12 /\ progress >= BodyLength + 1
  <2>1. example \in {"probe", "race"} /\ progress \in Nat \ {0} /\ progress \in DOMAIN Plan(example)
    BY DEF ProbeTypeOK, Now
  <2>2. BodyLength \in Nat /\ CleanupAt = BodyLength + 1 /\ DOMAIN Plan(example) = 1..(BodyLength + 12)
    BY <2>1, PlanFacts
  <2>3. progress \in 1..(BodyLength + 12) /\ progress >= BodyLength + 1
    BY <2>1, <2>2
  <2> QED BY <2>1, <2>2, <2>3
<1>2. PICK i \in 1..12 : progress = BodyLength + i
  BY <1>1
<1>3. CleanupSteps[i] = name
  BY <1>1, <1>2, PlanFacts DEF Now
<1>4. Place = i
  BY <1>1, <1>2 DEF Place
<1> QED BY <1>3, <1>4

LEMMA IndexFacts ==
  ASSUME example \in {"probe", "race"}, NEW i \in 1..12
  PROVE  CleanupIndex(CleanupSteps[i]) = BodyLength + i
<1>1. DOMAIN CleanupSteps = 1..12
  BY CleanupFacts
<1>2. \A j \in DOMAIN CleanupSteps : CleanupSteps[j] = CleanupSteps[i] => j = i
  BY <1>1, CleanupFacts
<1>3. (CHOOSE j \in DOMAIN CleanupSteps : CleanupSteps[j] = CleanupSteps[i]) = i
  BY <1>1, <1>2
<1>4. CleanupIndex(CleanupSteps[i]) = Len(Body(example)) + i
  BY <1>3 DEF CleanupIndex
<1> QED BY <1>4 DEF BodyLength

LEMMA ProbeStarts == ASSUME ProbeInit PROVE ProbeIInv
<1>1. /\ example \in {"probe", "race"} /\ progress = 1 /\ Place <= 0 /\ Place \in Int
  <2>1. example \in {"probe", "race"} /\ progress = 1
    BY DEF ProbeInit
  <2>2. BodyLength = 13 \/ BodyLength = 24
    BY <2>1, BodyFacts
  <2> QED BY <2>1, <2>2 DEF Place
<1>2. ProbeTypeOK
  <2>1. /\ fds = {} /\ unit = "none" /\ process = [p \in ProbeProcesses |-> "none"]
        /\ raised \in BOOLEAN /\ unclean \in BOOLEAN /\ outcome = "none"
    BY DEF ProbeInit
  <2> QED BY <1>1, <2>1 DEF ProbeTypeOK, ProbeProcesses
<1>3. FreshOK /\ OwnedOK /\ ReportedOK
  BY <1>1 DEF ProbeInit, FreshOK, OwnedOK, ReportedOK, ProbeProcesses, Inside, Running
<1>4. CleanedOK /\ SeenOK
  BY <1>1 DEF ProbeInit, CleanedOK, SeenOK, BothPlace, AlonePlace
<1> QED BY <1>2, <1>3, <1>4 DEF ProbeIInv

-----------------------------------------------------------------------------
(* The host's steps, at any place.                                         *)
LEMMA HostKeeps ==
  ASSUME ProbeIInv, UNCHANGED <<example, progress, accounted, fds, before, raised, unclean,
  outcome>>,
         unit' \in {"none", "active", "failed"},
         process' \in [ProbeProcesses -> {"none", "new", "in", "live", "dying", "dead"}],
         process'["child"] \in {"none", "in", "dying", "dead"},
         process'["canary"] \in {"none", "live", "dying", "dead"},
         \A p \in ProbeProcesses : /\ process'[p] = "none" => process[p] = "none"
                                   /\ process[p] = "dead" => process'[p] = "dead",
         (\A p \in ProbeProcesses : process[p] = "none") => (\A p \in ProbeProcesses : process'[p] = "none"),
         unit = "none" => unit' = "none", cells = {} => cells' = {}, OwnedOK'
  PROVE  ProbeIInv'
<1> USE DEF ProbeIInv
<1>1. /\ Place' = Place /\ BothPlace' = BothPlace /\ StartPlace' = StartPlace /\ AlonePlace' = AlonePlace
      /\ {"target", "child", "canary"} \subseteq ProbeProcesses
  BY DEF Place, BodyLength, BothPlace, StartPlace, AlonePlace, ProbeProcesses
<1>2. ProbeTypeOK'
  BY <1>1 DEF ProbeTypeOK
<1>3. FreshOK'
  BY <1>1 DEF FreshOK
<1>4. CleanedOK'
  BY <1>1 DEF CleanedOK
<1>5. SeenOK'
  BY <1>1 DEF SeenOK
<1>6. ReportedOK'
  BY <1>1 DEF ReportedOK
<1> QED BY <1>2, <1>3, <1>4, <1>5, <1>6

LEMMA HostStepsKeep ==
  ASSUME ProbeIInv,
         \/ \E p \in ProbeProcesses : ProcessEnds(p)
         \/ TargetEnters \/ TargetForks \/ TargetCancels \/ UnitEnds \/ SignalComes
  PROVE  ProbeIInv'
<1> USE DEF ProbeIInv
<1>0. UNCHANGED <<example, progress, accounted, fds, before, raised, unclean, outcome>>
  BY DEF ProcessEnds, TargetEnters, TargetForks, TargetCancels, UnitEnds, SignalComes
<1>1. ASSUME NEW p \in ProbeProcesses, ProcessEnds(p) PROVE ProbeIInv'
  <2>1. UNCHANGED <<unit, cells>> /\ process' = [process EXCEPT ![p] = "dead"] /\ process[p] \notin {"none", "dead"}
    BY <1>1 DEF ProcessEnds, Running
  <2> QED BY <1>0, <2>1, HostKeeps DEF ProbeTypeOK, OwnedOK, Inside, Running, ProbeProcesses
<1>2. CASE TargetEnters
  <2>1. UNCHANGED <<unit, cells>> /\ process["target"] = "new"
        /\ process' = [process EXCEPT !["target"] = IF "target" \in cells THEN "in" ELSE "dead"]
    BY <1>2 DEF TargetEnters
  <2> QED BY <1>0, <2>1, HostKeeps DEF ProbeTypeOK, OwnedOK, Inside, Running, ProbeProcesses
<1>3. CASE TargetForks
  <2>1. /\ UNCHANGED <<unit, cells>> /\ process["target"] = "in" /\ process["child"] = "none"
        /\ process' = [process EXCEPT !["child"] = "in"]
    BY <1>3 DEF TargetForks
  <2>2. OwnedOK'
    BY <1>0, <2>1 DEF ProbeTypeOK, OwnedOK, Inside, Running, ProbeProcesses
  <2> QED BY <1>0, <2>1, <2>2, HostKeeps DEF ProbeTypeOK, ProbeProcesses
<1>4. CASE TargetCancels \/ SignalComes
  <2>1. UNCHANGED <<unit, cells, process>>
    BY <1>4 DEF TargetCancels, SignalComes, hostOf
  <2> QED BY <1>0, <2>1, HostKeeps DEF ProbeTypeOK, OwnedOK, Inside, Running
<1>5. CASE UnitEnds
  <2>1. /\ unit = "active" /\ unit' \in {"none", "failed"} /\ cells' = {}
        /\ process' = [p \in ProbeProcesses |-> IF Inside(p) THEN "dead" ELSE process[p]]
    BY <1>5 DEF UnitEnds
  <2> QED BY <1>0, <2>1, HostKeeps DEF ProbeTypeOK, OwnedOK, Inside, Running, ProbeProcesses
<1> QED BY <1>1, <1>2, <1>3, <1>4, <1>5

-----------------------------------------------------------------------------
(* The body's steps: the next, or the cleanup.                             *)
LEMMA StepFacts ==
  ASSUME ProbeTypeOK, NEW name, Bodily(name), NextStep \/ Fails
  PROVE  /\ UNCHANGED <<example, unclean, outcome>>
         /\ BodyLength' = BodyLength /\ StartPlace' = StartPlace /\ BothPlace' = BothPlace /\ AlonePlace' = AlonePlace
         /\ progress' \in Nat \ {0} /\ raised' \in BOOLEAN /\ Place <= 0 /\ Place' \in Int /\ Place' <= 1
         /\ progress' <= StartPlace => name = "uninterrupted" /\ progress <= StartPlace
         /\ (name = "start") <=> (progress = StartPlace)
         /\ ~raised' => ~raised /\ progress' = progress + 1
         /\ ~raised' /\ progress' > BothPlace => name = "both" \/ progress > BothPlace
         /\ ~raised' /\ progress' > AlonePlace /\ example = "race" => name = "alone" \/ progress > AlonePlace
<1>1. /\ UNCHANGED <<example, unclean, outcome>> /\ Now(name) /\ progress < CleanupAt
      /\ example \in {"probe", "race"} /\ progress \in Nat \ {0}
  BY DEF Bodily, ProbeTypeOK
<1>2. /\ BodyLength' = BodyLength /\ StartPlace' = StartPlace /\ BothPlace' = BothPlace /\ AlonePlace' = AlonePlace
  BY <1>1 DEF BodyLength, StartPlace, BothPlace, AlonePlace
<1>3. /\ CleanupAt = BodyLength + 1 /\ BodyLength = (IF example = "probe" THEN 13 ELSE 24) /\ BodyLength \in Nat
  BY <1>1, PlanFacts, BodyFacts
<1>4. /\ Place <= 0
      /\ name = "start" <=> progress = StartPlace
      /\ progress < StartPlace => name = "uninterrupted"
      /\ progress = BothPlace => name = "both"
      /\ example = "race" /\ progress = AlonePlace => name = "alone"
  BY <1>1, BodyPlace
<1>5. raised' \in BOOLEAN /\ (~raised' => ~raised)
  BY DEF NextStep, Fails, ProbeTypeOK
<1>6. progress' = progress + 1 \/ (progress' = CleanupAt /\ raised' = TRUE)
  BY DEF NextStep, Fails
<1>7. ~raised' => progress' = progress + 1
  BY <1>6
<1>8. progress' \in Nat \ {0} /\ progress' <= BodyLength + 1 /\ (progress' = progress + 1 \/ progress' = CleanupAt)
  BY <1>1, <1>3, <1>6
<1>9. Place' = progress' - BodyLength
  BY <1>2 DEF Place
<1>10. /\ StartPlace \in 1..2 /\ AlonePlace = 11 /\ BothPlace \in 5..18
  BY DEF StartPlace, AlonePlace, BothPlace
<1>11. progress' <= StartPlace => name = "uninterrupted" /\ progress <= StartPlace
  BY <1>1, <1>3, <1>4, <1>8, <1>10
<1>12. ~raised' /\ progress' > BothPlace => name = "both" \/ progress > BothPlace
  BY <1>1, <1>4, <1>7, <1>10
<1>13. ~raised' /\ progress' > AlonePlace /\ example = "race" => name = "alone" \/ progress > AlonePlace
  BY <1>1, <1>4, <1>7, <1>10
<1>14. Place' \in Int /\ Place' <= 1
  <2>1. /\ progress' \in Nat /\ BodyLength \in Nat /\ progress' <= BodyLength + 1
        /\ Place' = progress' - BodyLength
    BY <1>3, <1>8, <1>9
  <2>2. \A p, n \in Nat : p <= n + 1 => p - n \in Int /\ p - n <= 1
    OBVIOUS
  <2> QED BY <2>1, <2>2
<1> QED BY <1>1, <1>2, <1>4, <1>5, <1>7, <1>8, <1>11, <1>12, <1>13, <1>14

LEMMA BodyKeeps ==
  ASSUME ProbeIInv, NEW name, Bodily(name), NextStep \/ Fails,
         unit' \in {"none", "active", "failed"},
         process' \in [ProbeProcesses -> {"none", "new", "in", "live", "dying", "dead"}],
         process'["child"] \in {"none", "in", "dying", "dead"},
         process'["canary"] \in {"none", "live", "dying", "dead"},
         fds' \subseteq Gates \cup {"cancel", "target", "child", "canary", "unowned"},
         "unowned" \in fds' => "unowned" \in fds \/ (raised' /\ example = "race"),
         \A p \in ProbeProcesses : process'[p] = "none" => process[p] = "none",
         OwnedOK',
         name = "uninterrupted" => UNCHANGED <<hostOf, accounted>>,
         name = "both" /\ ~raised' => process["target"] # "none" /\ process["child"] # "none",
         before' = before \/ (name = "alone" /\ before' = {"target"}),
         name = "alone" /\ ~raised' => before' = {"target"}
  PROVE  ProbeIInv'
<1> USE DEF ProbeIInv
<1>1. /\ UNCHANGED <<example, unclean, outcome>>
      /\ BodyLength' = BodyLength /\ StartPlace' = StartPlace /\ BothPlace' = BothPlace /\ AlonePlace' = AlonePlace
      /\ progress' \in Nat \ {0} /\ raised' \in BOOLEAN /\ Place <= 0 /\ Place' \in Int /\ Place' <= 1
      /\ progress' <= StartPlace => name = "uninterrupted" /\ progress <= StartPlace
      /\ ~raised' => ~raised /\ progress' = progress + 1
      /\ ~raised' /\ progress' > BothPlace => name = "both" \/ progress > BothPlace
      /\ ~raised' /\ progress' > AlonePlace /\ example = "race" => name = "alone" \/ progress > AlonePlace
  BY StepFacts
<1>2. ProbeTypeOK'
  BY <1>1 DEF ProbeTypeOK
<1>3. FreshOK'
  BY <1>1 DEF FreshOK, hostOf
<1>4. CleanedOK'
  BY <1>1 DEF CleanedOK
<1>5. SeenOK'
  <2>1. {"target", "child"} \subseteq ProbeProcesses
    BY DEF ProbeProcesses
  <2> QED BY <1>1, <2>1 DEF SeenOK
<1>6. ReportedOK'
  BY <1>1 DEF ReportedOK
<1> QED BY <1>2, <1>3, <1>4, <1>5, <1>6

LEMMA StartOwnerKeeps == ASSUME ProbeIInv, StartOwner PROVE ProbeIInv'
<1> USE DEF ProbeIInv
<1>1. /\ Bodily("start") /\ (NextStep \/ Fails) /\ accounted' = {"unit"} /\ UNCHANGED <<process, fds, before>>
      /\ (unit' = "active" /\ cells' = {"owner"}) \/ UNCHANGED <<unit, cells>>
  BY DEF StartOwner
<1>2. progress = StartPlace /\ progress \in Nat
  BY <1>1, StepFacts DEF ProbeTypeOK
<1>3. cells = {} /\ \A p \in ProbeProcesses : process[p] = "none"
  BY <1>2 DEF FreshOK, StartPlace
<1>4. OwnedOK'
  BY <1>1, <1>3 DEF OwnedOK, Inside, Running, ProbeProcesses
<1> QED BY <1>1, <1>4, BodyKeeps DEF ProbeTypeOK

LEMMA SpawnStepsKeep == ASSUME ProbeIInv, CaptureOwner \/ SpawnCanary \/ SpawnTarget PROVE ProbeIInv'
<1> USE DEF ProbeIInv
<1>1. CASE CaptureOwner
  <2>1. /\ Bodily("capture") /\ (NextStep \/ Fails) /\ UNCHANGED <<unit, process, fds, before>>
        /\ accounted \subseteq accounted' /\ (cells' = cells \/ ("owner" \in cells /\ cells' = cells \cup {"target"}))
    BY <1>1 DEF CaptureOwner
  <2>2. OwnedOK'
    BY <2>1 DEF OwnedOK, Inside, Running
  <2> QED BY <2>1, <2>2, BodyKeeps DEF ProbeTypeOK
<1>2. CASE SpawnCanary
  <2>1. /\ Bodily("canary") /\ (NextStep \/ Fails) /\ UNCHANGED <<unit, cells, before>>
        /\ fds' \subseteq fds \cup {"canary"}
        /\ \/ process' = [process EXCEPT !["canary"] = "live"] /\ accounted' = accounted \cup {"canary"}
           \/ process' \in {process, [process EXCEPT !["canary"] = "dying"]} /\ accounted' = accounted
    BY <1>2 DEF SpawnCanary
  <2>2. OwnedOK'
    BY <2>1 DEF OwnedOK, Inside, Running, ProbeTypeOK, ProbeProcesses
  <2> QED BY <2>1, <2>2, BodyKeeps DEF ProbeTypeOK, ProbeProcesses
<1>3. CASE SpawnTarget
  <2>1. /\ Bodily("spawn") /\ (NextStep \/ Fails) /\ UNCHANGED <<unit, cells, before>>
        /\ fds' \subseteq fds \cup Gates \/ (fds' = fds \cup {"unowned"} /\ example = "race" /\ Fails)
        /\ \/ process' = [process EXCEPT !["target"] = "new"] /\ accounted' = accounted \cup {"target"}
           \/ UNCHANGED <<process, accounted>>
    BY <1>3 DEF SpawnTarget, PipesFail
  <2>2. OwnedOK'
    BY <2>1 DEF OwnedOK, Inside, Running, ProbeTypeOK, ProbeProcesses
  <2>3. /\ fds' \subseteq Gates \cup {"cancel", "target", "child", "canary", "unowned"}
        /\ "unowned" \in fds' => "unowned" \in fds \/ (raised' /\ example = "race")
    BY <2>1 DEF ProbeTypeOK, Gates, Fails
  <2>4. /\ process' \in [ProbeProcesses -> {"none", "new", "in", "live", "dying", "dead"}]
        /\ process'["child"] = process["child"] /\ process'["canary"] = process["canary"]
        /\ \A p \in ProbeProcesses : process'[p] = "none" => process[p] = "none"
    BY <2>1 DEF ProbeTypeOK, ProbeProcesses
  <2> QED BY <2>1, <2>2, <2>3, <2>4, BodyKeeps DEF ProbeTypeOK
<1> QED BY <1>1, <1>2, <1>3

(* The steps that leave the host alone.                                    *)
LEMMA LookStepsKeep ==
  ASSUME ProbeIInv,
         \/ Looks \/ CheckInterrupt \/ OpenGate("admit", "attachGate") \/ OpenGate("fork", "forkGate")
         \/ OpenPidfds \/ OpenCancelFd \/ Snapshot \/ SendCancel \/ Succeeds
  PROVE  ProbeIInv'
<1> USE DEF ProbeIInv
<1>1. ASSUME NEW name, Bodily(name), NextStep \/ Fails, UNCHANGED <<hostOf, accounted>>,
             fds' \subseteq fds \cup {"target", "child", "cancel"},
             name = "both" /\ ~raised' => process["target"] # "none" /\ process["child"] # "none",
             before' = before \/ (name = "alone" /\ before' = {"target"}),
             name = "alone" /\ ~raised' => before' = {"target"}
      PROVE  ProbeIInv'
  <2>1. UNCHANGED <<unit, cells, process, accounted>>
    BY <1>1 DEF hostOf
  <2>2. OwnedOK'
    BY <2>1 DEF OwnedOK, Inside, Running
  <2>3. /\ fds' \subseteq Gates \cup {"cancel", "target", "child", "canary", "unowned"}
        /\ "unowned" \in fds' => "unowned" \in fds
    BY <1>1 DEF ProbeTypeOK
  <2> QED BY <1>1, <2>1, <2>2, <2>3, BodyKeeps DEF ProbeTypeOK
<1>2. ASSUME NEW name \in {"attached", "ready", "stopAll", "cancelling", "forked", "empty", "outlives"},
             NEW holds, Observed(name, holds)
      PROVE  ProbeIInv'
  <2>1. /\ Bodily(name) /\ (NextStep \/ Fails) /\ UNCHANGED <<hostOf, accounted>> /\ fds' = fds /\ before' = before
        /\ name # "both" /\ name # "alone"
    BY <1>2 DEF Observed
  <2> QED BY <2>1, <1>1
<1>3. CASE Observed("both", Within = {"target", "child"} /\ "dying" \notin {process[p] : p \in Within})
  <2>1. /\ Bodily("both") /\ (NextStep \/ Fails) /\ UNCHANGED <<hostOf, accounted>> /\ fds' = fds /\ before' = before
        /\ Within = {"target", "child"} \/ Fails
    BY <1>3 DEF Observed
  <2>2. ~raised' => process["target"] # "none" /\ process["child"] # "none"
    BY <2>1 DEF Fails, Within, Inside
  <2> QED BY <2>1, <2>2, <1>1
<1>4. CASE Snapshot
  <2>1. /\ Bodily("alone") /\ (NextStep \/ Fails) /\ UNCHANGED <<hostOf, accounted>> /\ fds' = fds
        /\ (before' = {"target"}) \/ (Fails /\ before' = before)
    BY <1>4 DEF Snapshot
  <2>2. ~raised' => before' = {"target"}
    BY <2>1 DEF Fails
  <2> QED BY <2>1, <2>2, <1>1
<1>5. CASE \/ CheckInterrupt \/ OpenGate("admit", "attachGate") \/ OpenGate("fork", "forkGate")
           \/ OpenPidfds \/ OpenCancelFd \/ SendCancel \/ Succeeds
  <2>1. PICK name \in {"uninterrupted", "admit", "fork", "pidfds", "cancelfd", "cancel", "succeeds"} : Bodily(name)
    BY <1>5 DEF CheckInterrupt, OpenGate, OpenPidfds, OpenCancelFd, SendCancel, Succeeds
  <2>2. /\ (NextStep \/ Fails) /\ UNCHANGED <<hostOf, accounted>> /\ before' = before
        /\ fds' \subseteq fds \cup {"target", "child", "cancel"}
    BY <1>5 DEF CheckInterrupt, OpenGate, OpenPidfds, OpenCancelFd, SendCancel, Succeeds
  <2>3. name # "both" /\ name # "alone"
    BY <2>1
  <2> QED BY <2>1, <2>2, <2>3, <1>1
<1>6. CASE Looks
  BY <1>2, <1>3, <1>6 DEF Looks
<1> QED BY <1>4, <1>5, <1>6

LEMMA SigKillFacts ==
  ASSUME ProbeTypeOK, OwnedOK, NEW ps, process' = SigKill(ps) \/ process' = process,
         UNCHANGED <<unit, cells, accounted>>
  PROVE  /\ process' \in [ProbeProcesses -> {"none", "new", "in", "live", "dying", "dead"}]
         /\ process'["child"] \in {"none", "in", "dying", "dead"}
         /\ process'["canary"] \in {"none", "live", "dying", "dead"}
         /\ \A p \in ProbeProcesses : /\ process'[p] = "none" <=> process[p] = "none"
                                      /\ process[p] = "dead" => process'[p] = "dead"
         /\ OwnedOK'
<1>1. \A p \in ProbeProcesses : process'[p] = process[p] \/ (process'[p] = "dying" /\ Running(p))
  BY DEF SigKill, ProbeTypeOK
<1>2. process' \in [ProbeProcesses -> {"none", "new", "in", "live", "dying", "dead"}]
  BY DEF SigKill, ProbeTypeOK
<1>3. ProbeProcesses = {"target", "child", "canary"}
  BY DEF ProbeProcesses
<1>4. process'["child"] \in {"none", "in", "dying", "dead"} /\ process'["canary"] \in {"none", "live", "dying", "dead"}
  BY <1>1, <1>3 DEF ProbeTypeOK
<1>5. \A p \in ProbeProcesses : /\ process'[p] = "none" <=> process[p] = "none"
                                /\ process[p] = "dead" => process'[p] = "dead"
  BY <1>1, <1>3 DEF Running
<1>6. OwnedOK'
  BY <1>1, <1>3 DEF OwnedOK, Inside, Running, ProbeTypeOK
<1> QED BY <1>2, <1>4, <1>5, <1>6

LEMMA KillTargetKeeps == ASSUME ProbeIInv, KillTarget PROVE ProbeIInv'
<1> USE DEF ProbeIInv
<1>1. /\ Bodily("kill") /\ (NextStep \/ Fails) /\ UNCHANGED <<unit, cells, accounted, fds, before>>
      /\ process' = SigKill(Within) \/ process' = process
  BY DEF KillTarget
<1> QED BY <1>1, SigKillFacts, BodyKeeps DEF ProbeTypeOK

-----------------------------------------------------------------------------
(* The cleanup's steps: from a place to a later one.                       *)
LEMMA GoesFacts ==
  ASSUME ProbeTypeOK, NEW i \in 1..12, NEW j \in 1..12, NEW bad \in BOOLEAN,
         Cleaning(CleanupSteps[i]), GoesTo(CleanupSteps[j], bad)
  PROVE  /\ UNCHANGED <<example, accounted, before, raised>>
         /\ StartPlace' = StartPlace /\ BothPlace' = BothPlace /\ AlonePlace' = AlonePlace
         /\ Place = i /\ Place' = j /\ progress' \in Nat \ {0}
         /\ progress > BothPlace /\ (example = "race" => progress > AlonePlace)
         /\ progress' > StartPlace
         /\ unclean' = (unclean \/ bad) /\ unclean' \in BOOLEAN
<1>1. /\ UNCHANGED <<example, accounted, before, raised>> /\ Now(CleanupSteps[i]) /\ progress >= CleanupAt
      /\ example \in {"probe", "race"} /\ progress \in Nat
      /\ progress' = CleanupIndex(CleanupSteps[j]) /\ unclean' = (unclean \/ bad)
  BY DEF Cleaning, GoesTo, ProbeTypeOK
<1>2. /\ BodyLength' = BodyLength /\ StartPlace' = StartPlace /\ BothPlace' = BothPlace /\ AlonePlace' = AlonePlace
  BY <1>1 DEF BodyLength, StartPlace, BothPlace, AlonePlace
<1>3. /\ CleanupAt = BodyLength + 1 /\ BodyLength = (IF example = "probe" THEN 13 ELSE 24) /\ BodyLength \in Nat
  BY <1>1, PlanFacts, BodyFacts
<1>4. Place \in 1..12 /\ CleanupSteps[Place] = CleanupSteps[i]
  BY <1>1, CleanupPlace
<1>5. Place = i
  BY <1>4, CleanupFacts
<1>6. progress' = BodyLength + j
  BY <1>1, IndexFacts
<1>7. Place' = j /\ progress' \in Nat \ {0}
  <2>1. BodyLength \in Nat
    BY <1>3
  <2> QED BY <1>2, <1>6, <2>1 DEF Place
<1>8. progress > BothPlace /\ (example = "race" => progress > AlonePlace) /\ progress' > StartPlace
  BY <1>1, <1>3, <1>6 DEF BothPlace, AlonePlace, StartPlace
<1> QED BY <1>1, <1>2, <1>5, <1>7, <1>8 DEF ProbeTypeOK

LEMMA CleanupKeeps ==
  ASSUME ProbeIInv, NEW i \in 1..12, NEW j \in 1..12, j > i, NEW bad \in BOOLEAN,
         Cleaning(CleanupSteps[i]), GoesTo(CleanupSteps[j], bad),
         unit' \in {unit, "none"}, OwnedOK',
         process' \in [ProbeProcesses -> {"none", "new", "in", "live", "dying", "dead"}],
         process'["child"] \in {"none", "in", "dying", "dead"},
         process'["canary"] \in {"none", "live", "dying", "dead"},
         \A p \in ProbeProcesses : /\ process'[p] = "none" <=> process[p] = "none"
                                   /\ process[p] = "dead" => process'[p] = "dead",
         fds' \subseteq fds, UNCHANGED outcome,
         i = 1 => fds' \cap (Gates \cup {"cancel"}) = {},
         j > 5 /\ i <= 5 => "target" \notin fds' /\ "child" \notin fds',
         j > 6 /\ i <= 6 => "canary" \notin fds',
         ~bad /\ j > 7 /\ i <= 7 /\ "target" \in accounted => process'["target"] = "dead",
         ~bad /\ j > 8 /\ i <= 8 /\ "canary" \in accounted => process'["canary"] = "dead",
         ~bad /\ j > 11 => unit' = "none"
  PROVE  ProbeIInv'
<1> USE DEF ProbeIInv
<1>1. /\ UNCHANGED <<example, accounted, before, raised>>
      /\ StartPlace' = StartPlace /\ BothPlace' = BothPlace /\ AlonePlace' = AlonePlace
      /\ Place = i /\ Place' = j /\ progress' \in Nat \ {0}
      /\ progress > BothPlace /\ (example = "race" => progress > AlonePlace)
      /\ progress' > StartPlace
      /\ unclean' = (unclean \/ bad) /\ unclean' \in BOOLEAN
  BY GoesFacts
<1>2. ProbeTypeOK'
  BY <1>1 DEF ProbeTypeOK
<1>3. FreshOK'
  BY <1>1 DEF FreshOK, StartPlace
<1>4. CleanedOK'
  <2>1. ~unclean' => ~unclean /\ ~bad
    BY <1>1
  <2>2. {"target", "canary"} \subseteq ProbeProcesses
    BY DEF ProbeProcesses
  <2> QED BY <1>1, <2>1, <2>2 DEF CleanedOK
<1>5. SeenOK'
  <2>1. {"target", "child"} \subseteq ProbeProcesses
    BY DEF ProbeProcesses
  <2> QED BY <1>1, <2>1 DEF SeenOK
<1>6. ReportedOK'
  <2>1. outcome \notin {"FAILED", "TERMINATED"}
    BY <1>1 DEF ReportedOK
  <2> QED BY <2>1 DEF ReportedOK
<1> QED BY <1>2, <1>3, <1>4, <1>5, <1>6

LEMMA CellStepsKeep == ASSUME ProbeIInv, CloseHeld \/ CellKill \/ CellEmpties \/ CellRemoved PROVE ProbeIInv'
<1> USE DEF ProbeIInv
<1>1. CASE CloseHeld
  <2>1. PICK bad \in BOOLEAN : Cleaning(CleanupSteps[1]) /\ GoesTo(CleanupSteps[2], bad)
    BY <1>1, CleanupFacts DEF CloseHeld
  <2>2. fds' = fds \ (Gates \cup {"cancel"}) /\ UNCHANGED <<unit, cells, process, outcome, accounted>>
    BY <1>1 DEF CloseHeld, hostOf, Cleaning
  <2>3. OwnedOK'
    BY <2>2 DEF OwnedOK, Inside, Running
  <2> QED BY <2>1, <2>2, <2>3, CleanupKeeps DEF ProbeTypeOK
<1>2. CASE CellKill
  <2>1. /\ Cleaning(CleanupSteps[2]) /\ UNCHANGED <<unit, cells, fds, outcome, accounted>>
        /\ process' = SigKill(Within) \/ process' = process
        /\ \E j \in {3, 5}, bad \in BOOLEAN : GoesTo(CleanupSteps[j], bad)
    BY <1>2, CleanupFacts DEF CellKill, Cleaning
  <2> QED BY <2>1, SigKillFacts, CleanupKeeps DEF CleanedOK
<1>3. CASE CellEmpties
  <2>1. /\ Cleaning(CleanupSteps[3]) /\ UNCHANGED <<unit, cells, process, fds, outcome, accounted>>
        /\ \E j \in {4, 5}, bad \in BOOLEAN : GoesTo(CleanupSteps[j], bad)
    BY <1>3, CleanupFacts DEF CellEmpties, Cleaning, hostOf
  <2>2. OwnedOK'
    BY <2>1 DEF OwnedOK, Inside, Running
  <2> QED BY <2>1, <2>2, CleanupKeeps DEF ProbeTypeOK, CleanedOK
<1>4. CASE CellRemoved
  <2>1. /\ Cleaning(CleanupSteps[4]) /\ UNCHANGED <<unit, process, fds, outcome, accounted>>
        /\ (cells' = cells) \/ (Within = {} /\ cells' = cells \ {"target"})
        /\ \E bad \in BOOLEAN : GoesTo(CleanupSteps[5], bad)
    BY <1>4, CleanupFacts DEF CellRemoved, Cleaning
  <2>2. OwnedOK'
    BY <2>1 DEF OwnedOK, Inside, Running, Within
  <2> QED BY <2>1, <2>2, CleanupKeeps DEF ProbeTypeOK, CleanedOK
<1> QED BY <1>1, <1>2, <1>3, <1>4

LEMMA HeldStepsKeep ==
  ASSUME ProbeIInv,
         \/ KillHeld("targetFds", {"target", "child"}, "canaryFd") \/ KillHeld("canaryFd", {"canary"}, "waitTarget")
         \/ WaitFor("waitTarget", "target", "waitCanary") \/ WaitFor("waitCanary", "canary", "invocation")
  PROVE  ProbeIInv'
<1> USE DEF ProbeIInv
<1>1. CASE KillHeld("targetFds", {"target", "child"}, "canaryFd")
  <2>1. /\ Cleaning(CleanupSteps[5]) /\ UNCHANGED <<unit, cells, outcome, accounted>>
        /\ fds' = fds \ {"target", "child"}
        /\ process' = SigKill(fds \cap {"target", "child"}) \/ process' = process
        /\ \E bad \in BOOLEAN : GoesTo(CleanupSteps[6], bad)
    BY <1>1, CleanupFacts DEF KillHeld, Cleaning
  <2> QED BY <2>1, SigKillFacts, CleanupKeeps
<1>2. CASE KillHeld("canaryFd", {"canary"}, "waitTarget")
  <2>1. /\ Cleaning(CleanupSteps[6]) /\ UNCHANGED <<unit, cells, outcome, accounted>>
        /\ fds' = fds \ {"canary"}
        /\ process' = SigKill(fds \cap {"canary"}) \/ process' = process
        /\ \E bad \in BOOLEAN : GoesTo(CleanupSteps[7], bad)
    BY <1>2, CleanupFacts DEF KillHeld, Cleaning
  <2> QED BY <2>1, SigKillFacts, CleanupKeeps
<1>3. CASE WaitFor("waitTarget", "target", "waitCanary")
  <2>1. /\ Cleaning(CleanupSteps[7]) /\ UNCHANGED <<unit, cells, process, fds, outcome, accounted>>
        /\ \E bad \in BOOLEAN : /\ GoesTo(CleanupSteps[8], bad)
                                /\ ~bad => ("target" \in accounted => process["target"] = "dead")
    BY <1>3, CleanupFacts DEF WaitFor, Cleaning, hostOf
  <2>2. OwnedOK'
    BY <2>1 DEF OwnedOK, Inside, Running
  <2> QED BY <2>1, <2>2, CleanupKeeps DEF ProbeTypeOK
<1>4. CASE WaitFor("waitCanary", "canary", "invocation")
  <2>1. /\ Cleaning(CleanupSteps[8]) /\ UNCHANGED <<unit, cells, process, fds, outcome, accounted>>
        /\ \E bad \in BOOLEAN : /\ GoesTo(CleanupSteps[9], bad)
                                /\ ~bad => ("canary" \in accounted => process["canary"] = "dead")
    BY <1>4, CleanupFacts DEF WaitFor, Cleaning, hostOf
  <2>2. OwnedOK'
    BY <2>1 DEF OwnedOK, Inside, Running
  <2> QED BY <2>1, <2>2, CleanupKeeps DEF ProbeTypeOK
<1> QED BY <1>1, <1>2, <1>3, <1>4

LEMMA UnitStepsKeep == ASSUME ProbeIInv, CheckInvocation \/ StopUnit \/ UnitGone PROVE ProbeIInv'
<1> USE DEF ProbeIInv
<1>1. CASE CheckInvocation
  <2>1. /\ Cleaning(CleanupSteps[9]) /\ UNCHANGED <<unit, cells, process, fds, outcome, accounted>>
    BY <1>1, CleanupFacts DEF CheckInvocation, Cleaning, hostOf
  <2>2. OwnedOK'
    BY <2>1 DEF OwnedOK, Inside, Running
  <2>3. \/ \E bad \in BOOLEAN : GoesTo(CleanupSteps[12], bad) /\ (~bad => "unit" \notin accounted)
        \/ \E bad \in BOOLEAN : GoesTo(CleanupSteps[10], bad)
        \/ \E bad \in BOOLEAN : GoesTo(CleanupSteps[11], bad)
    BY <1>1, CleanupFacts DEF CheckInvocation
  <2>4. CASE \E bad \in BOOLEAN : GoesTo(CleanupSteps[12], bad) /\ (~bad => "unit" \notin accounted)
    <3>1. "unit" \notin accounted => unit' = "none"
      BY <2>1 DEF OwnedOK
    <3> QED BY <2>1, <2>2, <2>4, <3>1, CleanupKeeps DEF ProbeTypeOK
  <2>5. CASE \E bad \in BOOLEAN : GoesTo(CleanupSteps[10], bad)
    BY <2>1, <2>2, <2>5, CleanupKeeps DEF ProbeTypeOK
  <2>6. CASE \E bad \in BOOLEAN : GoesTo(CleanupSteps[11], bad)
    BY <2>1, <2>2, <2>6, CleanupKeeps DEF ProbeTypeOK
  <2> QED BY <2>3, <2>4, <2>5, <2>6
<1>2. CASE StopUnit
  <2>1. /\ Cleaning(CleanupSteps[10]) /\ UNCHANGED <<fds, outcome, accounted>>
        /\ \/ /\ unit' = "none" /\ cells' = {}
              /\ process' = [p \in ProbeProcesses |-> IF Inside(p) THEN "dead" ELSE process[p]]
           \/ UNCHANGED <<unit, cells, process>>
        /\ \E bad \in BOOLEAN : GoesTo(CleanupSteps[11], bad)
    BY <1>2, CleanupFacts DEF StopUnit, Cleaning, hostOf
  <2>2. /\ OwnedOK'
        /\ process' \in [ProbeProcesses -> {"none", "new", "in", "live", "dying", "dead"}]
        /\ process'["child"] \in {"none", "in", "dying", "dead"}
        /\ process'["canary"] \in {"none", "live", "dying", "dead"}
        /\ \A p \in ProbeProcesses : /\ process'[p] = "none" <=> process[p] = "none"
                                     /\ process[p] = "dead" => process'[p] = "dead"
    BY <2>1 DEF OwnedOK, Inside, Running, ProbeTypeOK, ProbeProcesses
  <2> QED BY <2>1, <2>2, CleanupKeeps
<1>3. CASE UnitGone
  <2>1. /\ Cleaning(CleanupSteps[11]) /\ UNCHANGED <<unit, cells, process, fds, outcome, accounted>>
        /\ \E bad \in BOOLEAN : GoesTo(CleanupSteps[12], bad) /\ (~bad => unit = "none")
    BY <1>3, CleanupFacts DEF UnitGone, Cleaning, hostOf
  <2>2. OwnedOK'
    BY <2>1 DEF OwnedOK, Inside, Running
  <2> QED BY <2>1, <2>2, CleanupKeeps DEF ProbeTypeOK
<1> QED BY <1>1, <1>2, <1>3

LEMMA ReportKeeps == ASSUME ProbeIInv, ReportOutcome PROVE ProbeIInv'
<1> USE DEF ProbeIInv
<1>1. /\ UNCHANGED <<example, progress, accounted, before, raised, unclean, unit, cells, process, fds>>
      /\ Now(CleanupSteps[12]) /\ progress >= CleanupAt
      /\ outcome' \in {"CLEANUP_INCOMPLETE", "FAILED", "TERMINATED"}
      /\ outcome' \in {"FAILED", "TERMINATED"} => ~unclean
      /\ outcome' = "TERMINATED" => ~raised
  BY CleanupFacts DEF ReportOutcome, Cleaning, hostOf
<1>2. Place \in 1..12 /\ CleanupSteps[Place] = CleanupSteps[12]
  BY <1>1, CleanupPlace
<1>3. Place = 12
  BY <1>2, CleanupFacts
<1>4. /\ Place' = Place /\ BothPlace' = BothPlace /\ StartPlace' = StartPlace /\ AlonePlace' = AlonePlace
  BY <1>1 DEF Place, BodyLength, BothPlace, StartPlace, AlonePlace
<1>5. ProbeTypeOK' /\ FreshOK' /\ CleanedOK' /\ SeenOK'
  BY <1>1, <1>4 DEF ProbeTypeOK, FreshOK, CleanedOK, SeenOK
<1>6. OwnedOK'
  BY <1>1 DEF OwnedOK, Inside, Running
<1>7. ReportedOK'
  BY <1>1, <1>3, <1>4 DEF ReportedOK
<1> QED BY <1>5, <1>6, <1>7

(* What the probe and the race keep at every step of their plans: what     *)
(* there is has been accounted for, and a part of the cleanup that is      *)
(* behind and clean has left nothing.                                      *)
THEOREM ProbeInvariance == ProbeSpec => []ProbeIInv
<1>1. ProbeInit => ProbeIInv
  BY ProbeStarts
<1>2. ProbeIInv /\ [ProbeNext]_probeVars => ProbeIInv'
  <2> SUFFICES ASSUME ProbeIInv, [ProbeNext]_probeVars PROVE ProbeIInv'
    OBVIOUS
  <2>1. CASE UNCHANGED probeVars
    <3>1. UNCHANGED <<example, progress, accounted, before, raised, unclean, unit, cells, process, fds, outcome>>
      BY <2>1 DEF probeVars, hostOf
    <3>2. /\ Place' = Place /\ BothPlace' = BothPlace /\ StartPlace' = StartPlace /\ AlonePlace' = AlonePlace
      BY <3>1 DEF Place, BodyLength, BothPlace, StartPlace, AlonePlace
    <3> QED BY <3>1, <3>2 DEF ProbeIInv, ProbeTypeOK, FreshOK, OwnedOK, CleanedOK, SeenOK,
                              ReportedOK, Inside, Running
  <2>2. CASE \/ \E p \in ProbeProcesses : ProcessEnds(p)
             \/ TargetEnters \/ TargetForks \/ TargetCancels \/ UnitEnds \/ SignalComes
    BY <2>2, HostStepsKeep
  <2>3. CASE StartOwner \/ CaptureOwner \/ SpawnCanary \/ SpawnTarget \/ KillTarget
    BY <2>3, StartOwnerKeeps, SpawnStepsKeep, KillTargetKeeps
  <2>4. CASE \/ Looks \/ CheckInterrupt \/ OpenGate("admit", "attachGate") \/ OpenGate("fork", "forkGate")
             \/ OpenPidfds \/ OpenCancelFd \/ Snapshot \/ SendCancel \/ Succeeds
    BY <2>4, LookStepsKeep
  <2>5. CASE CloseHeld \/ CellKill \/ CellEmpties \/ CellRemoved
    BY <2>5, CellStepsKeep
  <2>6. CASE \/ KillHeld("targetFds", {"target", "child"}, "canaryFd") \/ KillHeld("canaryFd", {"canary"}, "waitTarget")
             \/ WaitFor("waitTarget", "target", "waitCanary") \/ WaitFor("waitCanary", "canary", "invocation")
    BY <2>6, HeldStepsKeep
  <2>7. CASE CheckInvocation \/ StopUnit \/ UnitGone \/ ReportOutcome
    BY <2>7, UnitStepsKeep, ReportKeeps
  <2> QED BY <2>1, <2>2, <2>3, <2>4, <2>5, <2>6, <2>7 DEF ProbeNext
<1> QED BY <1>1, <1>2, PTL DEF ProbeSpec

(* A report that does not say the cleanup is incomplete means that it is   *)
(* complete, but for the pipe ends that a failing race never owned, and a  *)
(* success is about a child that was there.                                *)
THEOREM ProbeLeavesNothing == ProbeSpec => []NothingIsLeft
<1>0. ProbeIInv => ("unowned" \in fds => example = "race" /\ outcome # "TERMINATED")
  BY DEF ProbeIInv, CleanedOK, ReportedOK
<1>1. ProbeIInv => NothingIsLeft
  <2> SUFFICES ASSUME ProbeIInv, outcome \in {"FAILED", "TERMINATED"}
               PROVE  /\ unit = "none" /\ cells = {} /\ fds \subseteq {"unowned"}
                      /\ \A p \in ProbeProcesses : ~Running(p)
                      /\ outcome = "TERMINATED" =>
                           /\ process["target"] = "dead" /\ process["child"] = "dead"
                           /\ example = "race" => before = {"target"}
    BY <1>0 DEF NothingIsLeft
  <2> USE DEF ProbeIInv
  <2>1. Place = 12 /\ ~unclean
    BY DEF ReportedOK
  <2>2. unit = "none" /\ cells = {}
    BY <2>1 DEF CleanedOK, OwnedOK
  <2>3. fds \subseteq {"unowned"}
    BY <2>1 DEF CleanedOK, ProbeTypeOK
  <2>4. process["target"] \in {"none", "dead"} /\ ~Running("canary") /\ process["child"] \in {"none", "dead"}
    <3>1. process["target"] \in {"none", "dead"}
      BY <2>1 DEF CleanedOK, OwnedOK
    <3>2. ~Running("canary")
      BY <2>1 DEF CleanedOK, OwnedOK, Running
    <3>3. process["child"] \in {"none", "dead"}
      BY <2>2 DEF OwnedOK, Inside, ProbeTypeOK
    <3> QED BY <3>1, <3>2, <3>3
  <2>5. \A p \in ProbeProcesses : ~Running(p)
    BY <2>4 DEF Running, ProbeProcesses
  <2>6. progress > BothPlace /\ (example = "race" => progress > AlonePlace)
    <3>1. BodyLength = (IF example = "probe" THEN 13 ELSE 24) /\ progress \in Nat /\ example \in {"probe", "race"}
      BY BodyFacts DEF ProbeTypeOK
    <3>2. progress = 25 \/ (progress = 36 /\ example = "race")
      <4>1. CASE BodyLength = 13
        BY <2>1, <3>1, <4>1 DEF Place
      <4>2. CASE BodyLength = 24 /\ example = "race"
        BY <2>1, <3>1, <4>2 DEF Place
      <4> QED BY <3>1, <4>1, <4>2
    <3>3. example = "race" => progress = 36
      <4>1. example = "race" => BodyLength = 24
        BY <3>1
      <4> QED BY <2>1, <3>1, <4>1 DEF Place
    <3> QED BY <3>2, <3>3, <3>1 DEF BothPlace, AlonePlace
  <2>7. outcome = "TERMINATED" => /\ process["target"] # "none" /\ process["child"] # "none"
                                  /\ example = "race" => before = {"target"}
    BY <2>6 DEF ReportedOK, SeenOK
  <2> QED BY <2>2, <2>3, <2>4, <2>5, <2>7
<1> QED BY <1>1, ProbeInvariance, PTL

-----------------------------------------------------------------------------
(* Staging: readers of a file that its owner changes.                      *)
-----------------------------------------------------------------------------

Stats == [inode : Nat, size : Nat, stamp : Nat]
Copies == [is : {"none", "script"}, blocks : Seq(Blocks), sealed : BOOLEAN]
Approving == {"identity", "hash", "hashing", "hashed"}
Copying == {"drifted", "copying"}
Observing == {"opened", "parsing", "after", "pathAfter", "reported"}

StgTypeOK ==
  /\ content \in [Inodes -> Contents] /\ stamp \in [Inodes -> Nat]
  /\ fd \in Inodes \cup {NoInode} /\ buffer \in Seq(Blocks)
  /\ firstStat \in Stats /\ marked \in Stats
  /\ at \in {"idle", "open"} \cup Approving \cup Copying \cup Observing

(* Which file is open, and how far the start is, while the reader is there. *)
ReaderOK ==
  /\ at \in Approving \cup Copying \cup Observing => fd \in Inodes
  /\ at \in Approving \cup Observing \cup {"open"} => reached = "none"
  /\ at \in Approving => reader # "observer"
  /\ at \in Copying => reached = "staging"
  /\ reader = "observer" => reached = "none"
  /\ at \in Observing \cup {"open"} => reader = "observer"
  /\ at \in {"idle", "open", "identity", "hash", "drifted", "opened"} => buffer = <<>>

(* The copy has what was read so far, of a file of the approved size.      *)
CopyOK ==
  /\ StagedIsApproved
  /\ at = "copying" => copy.blocks = buffer /\ marked.size = binding.size
  /\ copy \in Copies

(* While the times are those of the first stat, what was read is what is   *)
(* there.                                                                  *)
Prefix ==
  /\ marked.stamp <= stamp[fd]
  /\ stamp[fd] = marked.stamp =>
       /\ marked.size = Len(content[fd]) /\ Len(buffer) <= Len(content[fd])
       /\ \A i \in 1..Len(buffer) : buffer[i] = content[fd][i]
ReadOK ==
  /\ fd \in Inodes => content[fd] \in was
  /\ ~coarse /\ at \in {"hashing", "parsing", "after"} => Prefix
  /\ ~coarse /\ at = "after" /\ stamp[fd] = marked.stamp => Len(buffer) = Len(content[fd])
  /\ ~coarse /\ at \in {"hashed", "pathAfter", "reported"} => buffer \in was

StgIInv == StgTypeOK /\ ReaderOK /\ CopyOK /\ ReadOK

LEMMA ContentFacts == \A c \in Contents : c \in Seq(Blocks) /\ Len(c) \in Nat
<1> SUFFICES ASSUME NEW c \in Contents PROVE c \in Seq(Blocks) /\ Len(c) \in Nat
  OBVIOUS
<1>1. CASE \E x, y \in Blocks : c = <<x, y>>
  BY <1>1
<1>2. CASE \E x \in Blocks : c = <<x>>
  BY <1>2
<1> QED BY <1>1, <1>2 DEF Contents

LEMMA NothingIsACopy == Nothing \in Copies
BY DEF Nothing, Copies

LEMMA StgStarts == ASSUME StagingInit PROVE StgIInv
<1>1. StgTypeOK
  BY DEF StagingInit, StgTypeOK, Stats, NoStat, NoInode, Inodes, Contents, Blocks
<1>2. ReaderOK
  BY DEF StagingInit, ReaderOK, Approving, Copying, Observing
<1>3. CopyOK
  BY NothingIsACopy DEF StagingInit, CopyOK, StagedIsApproved
<1>4. ReadOK
  BY DEF StagingInit, ReadOK, NoInode, Inodes
<1> QED BY <1>1, <1>2, <1>3, <1>4 DEF StgIInv

(* The owner's steps: a write of the open file changes its times, or the   *)
(* times are not to be relied upon.                                        *)
LEMMA OwnerKeeps ==
  ASSUME StgIInv,
         \/ \E f \in Inodes, c \in Contents : Write(f, c)
         \/ \E p \in Inodes \cup {NoInode, Symlink} : Rename(p)
         \/ ReplaceMaterial
  PROVE  StgIInv'
<1> USE DEF StgIInv
<1>1. UNCHANGED <<reader, coarse, at, fd, firstStat, marked, buffer, binding, copy, reached>>
  BY DEF Write, Rename, ReplaceMaterial, Owner, readerOf
<1>2. ReaderOK' /\ CopyOK'
  BY <1>1 DEF ReaderOK, CopyOK, StagedIsApproved
<1>3. ASSUME NEW f \in Inodes, NEW c \in Contents, Write(f, c) PROVE StgTypeOK' /\ ReadOK'
  <2>1. /\ content' = [content EXCEPT ![f] = c] /\ was' = (IF f = fd THEN was \cup {c} ELSE was)
        /\ stamp' = [stamp EXCEPT ![f] = @ + 1] \/ (coarse /\ stamp' = stamp)
    BY <1>3 DEF Write
  <2>2. StgTypeOK'
    BY <1>1, <2>1 DEF StgTypeOK
  <2>3. fd \in Inodes => content'[fd] \in was'
    BY <2>1 DEF ReadOK, StgTypeOK
  <2>4. ~coarse /\ fd \in Inodes /\ marked.stamp <= stamp[fd] =>
          /\ marked.stamp <= stamp'[fd]
          /\ stamp'[fd] = marked.stamp => content'[fd] = content[fd] /\ stamp[fd] = marked.stamp
    <3> SUFFICES ASSUME ~coarse, fd \in Inodes, marked.stamp <= stamp[fd]
                 PROVE  /\ marked.stamp <= stamp'[fd]
                        /\ stamp'[fd] = marked.stamp => content'[fd] = content[fd] /\ stamp[fd] = marked.stamp
      OBVIOUS
    <3>1. marked.stamp \in Nat /\ stamp[fd] \in Nat
      BY DEF StgTypeOK, Stats
    <3>2. stamp'[fd] = IF f = fd THEN stamp[fd] + 1 ELSE stamp[fd]
      BY <2>1 DEF StgTypeOK
    <3>3. f # fd => content'[fd] = content[fd]
      BY <2>1 DEF StgTypeOK
    <3> QED BY <3>1, <3>2, <3>3
  <2>5. ReadOK'
    BY <1>1, <2>1, <2>3, <2>4 DEF ReadOK, Prefix, ReaderOK, Approving, Observing
  <2> QED BY <2>2, <2>5
<1>4. CASE ReplaceMaterial \/ \E p \in Inodes \cup {NoInode, Symlink} : Rename(p)
  <2>1. UNCHANGED <<content, stamp, was>>
    BY <1>4 DEF ReplaceMaterial, Rename
  <2>2. StgTypeOK'
    BY <1>1, <2>1 DEF StgTypeOK
  <2>3. Prefix' = Prefix
    BY <1>1, <2>1 DEF Prefix
  <2>4. ReadOK'
    BY <1>1, <2>1, <2>3 DEF ReadOK
  <2> QED BY <1>2, <2>2, <2>4
<1> QED BY <1>2, <1>3, <1>4

(* What was read, with the times unchanged at the end of it, was there.    *)
LEMMA WholeRead ==
  ASSUME StgTypeOK, fd \in Inodes, Prefix, stamp[fd] = marked.stamp, Len(buffer) = Len(content[fd])
  PROVE  buffer = content[fd]
<1>1. buffer \in Seq(Blocks) /\ content[fd] \in Seq(Blocks)
  BY ContentFacts DEF StgTypeOK
<1>2. \A i \in 1..Len(buffer) : buffer[i] = content[fd][i]
  BY DEF Prefix
<1> QED BY <1>1, <1>2, SMTT(30)

LEMMA BlockKeeps ==
  ASSUME StgTypeOK, fd \in Inodes, Reads, UNCHANGED <<content, stamp, fd, marked>>
  PROVE  buffer' \in Seq(Blocks) /\ (Prefix => Prefix')
<1>1. /\ buffer \in Seq(Blocks) /\ content[fd] \in Seq(Blocks) /\ Len(buffer) \in Nat /\ Len(content[fd]) \in Nat
  BY ContentFacts DEF StgTypeOK
<1>2. Len(buffer) + 1 \in 1..Len(content[fd]) /\ buffer' = Append(buffer, content[fd][Len(buffer) + 1])
  BY <1>1 DEF Reads, Short, Block
<1>3. content[fd][Len(buffer) + 1] \in Blocks
  BY <1>1, <1>2
<1>4. /\ buffer' \in Seq(Blocks) /\ Len(buffer') = Len(buffer) + 1
      /\ \A i \in 1..Len(buffer) : buffer'[i] = buffer[i]
      /\ buffer'[Len(buffer) + 1] = content[fd][Len(buffer) + 1]
  BY <1>1, <1>2, <1>3
<1>5. ASSUME Prefix, stamp[fd] = marked.stamp
      PROVE  Len(buffer') <= Len(content[fd]) /\ \A i \in 1..Len(buffer') : buffer'[i] = content[fd][i]
  <2>1. \A i \in 1..Len(buffer) : buffer[i] = content[fd][i]
    BY <1>5 DEF Prefix
  <2>2. \A i \in 1..Len(buffer') : i \in 1..Len(buffer) \/ i = Len(buffer) + 1
    BY <1>1, <1>4
  <2> QED BY <1>1, <1>2, <1>4, <2>1, <2>2
<1> QED BY <1>4, <1>5 DEF Prefix

LEMMA LetGoKeeps ==
  ASSUME StgIInv, LetGo, OwnerRests \/ Mishap, CopyOK', reader = "observer" => reached' = "none"
  PROVE  StgIInv'
<1> USE DEF StgIInv
<1>1. StgTypeOK'
  BY DEF LetGo, OwnerRests, Mishap, StgTypeOK, Stats, NoStat, NoInode
<1>2. ReaderOK'
  BY DEF LetGo, OwnerRests, Mishap, ReaderOK, Approving, Copying, Observing
<1>3. ReadOK'
  BY DEF LetGo, ReadOK, NoInode, Inodes
<1> QED BY <1>1, <1>2, <1>3

LEMMA StatFacts ==
  ASSUME StgTypeOK, NEW f \in Inodes
  PROVE  /\ Stat(f) \in Stats /\ Stat(f).inode = f
         /\ Stat(f).size = Len(content[f]) /\ Stat(f).stamp = stamp[f]
<1>1. Len(content[f]) \in Nat /\ stamp[f] \in Nat /\ f \in Nat
  BY ContentFacts DEF StgTypeOK, Inodes
<1> QED BY <1>1 DEF Stat, Stats

LEMMA StartsWhole ==
  ASSUME StgTypeOK, fd \in Inodes, buffer = <<>>, marked' = Stat(fd), UNCHANGED <<content, stamp, fd, buffer>>
  PROVE  Prefix'
<1>1. marked'.stamp = stamp'[fd'] /\ marked'.size = Len(content'[fd']) /\ stamp[fd] \in Nat /\ Len(content[fd]) \in Nat
  BY StatFacts, ContentFacts DEF StgTypeOK
<1> QED BY <1>1 DEF Prefix

(* The approval: identity, digest between two stats, binding.              *)
LEMMA ApprovalKeeps ==
  ASSUME StgIInv,
         \/ TakeApproval \/ ApproveIdentity \/ HashBegins \/ HashBlock \/ HashEnds \/ ApprovalWritten
  PROVE  StgIInv'
<1> USE DEF StgIInv
<1>1. CASE TakeApproval
  <2>1. /\ at = "idle" /\ reached = "none" /\ reader = "root" /\ path \in Inodes /\ fd' = path
        /\ was' = {content[path]} /\ at' = "identity"
        /\ UNCHANGED <<reader, coarse, content, stamp, firstStat, marked, buffer, binding, copy, reached>>
    BY <1>1 DEF TakeApproval, Opens, OwnerRests, Keeps
  <2>2. StgTypeOK' BY <2>1 DEF StgTypeOK, Approving
  <2>3. ReaderOK' BY <2>1 DEF ReaderOK, Approving, Copying, Observing
  <2>4. CopyOK' BY <2>1 DEF CopyOK, StagedIsApproved
  <2>5. ReadOK' BY <2>1 DEF ReadOK
  <2> QED BY <2>2, <2>3, <2>4, <2>5
<1>2. CASE ApproveIdentity
  <2>1. /\ at = "identity" /\ reached = "none" /\ firstStat' = Stat(fd) /\ at' = "hash"
        /\ UNCHANGED <<reader, coarse, content, stamp, fd, was, marked, buffer, binding, copy, reached>>
    BY <1>2 DEF ApproveIdentity, OwnerRests, Keeps
  <2>2. fd \in Inodes BY <2>1 DEF ReaderOK, Approving
  <2>3. StgTypeOK' BY <2>1, <2>2, StatFacts DEF StgTypeOK, Approving
  <2>4. ReaderOK' BY <2>1 DEF ReaderOK, Approving, Copying, Observing
  <2>5. CopyOK' BY <2>1 DEF CopyOK, StagedIsApproved
  <2>6. ReadOK' BY <2>1 DEF ReadOK
  <2> QED BY <2>3, <2>4, <2>5, <2>6
<1>3. CASE HashBegins
  <2>1. /\ at = "hash" /\ marked' = Stat(fd) /\ at' = "hashing"
        /\ UNCHANGED <<reader, coarse, content, stamp, fd, was, firstStat, buffer, binding, copy, reached>>
    BY <1>3 DEF HashBegins, OwnerRests, Keeps
  <2>2. fd \in Inodes /\ buffer = <<>> BY <2>1 DEF ReaderOK, Approving
  <2>3. StgTypeOK' BY <2>1, <2>2, StatFacts DEF StgTypeOK, Approving
  <2>4. ReaderOK' BY <2>1 DEF ReaderOK, Approving, Copying, Observing
  <2>5. CopyOK' BY <2>1 DEF CopyOK, StagedIsApproved
  <2>6. Prefix' BY <2>1, <2>2, StartsWhole
  <2>7. ReadOK' BY <2>1, <2>6 DEF ReadOK
  <2> QED BY <2>3, <2>4, <2>5, <2>7
<1>4. CASE HashBlock
  <2>1. at = "hashing" /\ OwnerRests BY <1>4 DEF HashBlock
  <2>2. CASE Short /\ ApproveRefused
    <3>1. LetGo /\ Keeps BY <2>2 DEF ApproveRefused
    <3>2. CopyOK' BY <3>1 DEF CopyOK, StagedIsApproved, Keeps, LetGo
    <3> QED BY <2>1, <3>1, <3>2, LetGoKeeps DEF ReaderOK, Keeps
  <2>3. CASE Reads /\ Keeps /\ UNCHANGED <<at, fd, was, firstStat, marked>>
    <3>1. UNCHANGED <<reader, coarse, content, stamp, at, fd, was, firstStat, marked, binding, copy, reached>>
      BY <2>1, <2>3 DEF OwnerRests, Keeps
    <3>2. fd \in Inodes BY <2>1 DEF ReaderOK, Approving
    <3>3. buffer' \in Seq(Blocks) /\ (Prefix => Prefix') BY <2>3, <3>1, <3>2, BlockKeeps
    <3>4. StgTypeOK' BY <3>1, <3>3 DEF StgTypeOK
    <3>5. ReaderOK' BY <2>1, <3>1 DEF ReaderOK
    <3>6. CopyOK' BY <2>1, <3>1 DEF CopyOK, StagedIsApproved
    <3>7. ReadOK' BY <2>1, <3>1, <3>3 DEF ReadOK
    <3> QED BY <3>4, <3>5, <3>6, <3>7
  <2> QED BY <1>4, <2>2, <2>3 DEF HashBlock
<1>5. CASE HashEnds
  <2>1. at = "hashing" /\ Len(buffer) = marked.size /\ OwnerRests BY <1>5 DEF HashEnds
  <2>2. CASE ApproveRefused
    <3>1. LetGo /\ Keeps BY <2>2 DEF ApproveRefused
    <3>2. CopyOK' BY <3>1 DEF CopyOK, StagedIsApproved, Keeps, LetGo
    <3> QED BY <2>1, <3>1, <3>2, LetGoKeeps DEF ReaderOK, Keeps
  <2>3. CASE Unchanged /\ at' = "hashed" /\ Keeps /\ UNCHANGED <<fd, was, firstStat, marked, buffer>>
    <3>1. UNCHANGED <<reader, coarse, content, stamp, fd, was, firstStat, marked, buffer, binding, copy, reached>>
      BY <2>1, <2>3 DEF OwnerRests, Keeps
    <3>2. fd \in Inodes BY <2>1 DEF ReaderOK, Approving
    <3>3. stamp[fd] = marked.stamp /\ Len(content[fd]) = marked.size BY <2>3, <3>2, StatFacts DEF Unchanged
    <3>4. ~coarse => buffer \in was
      BY <2>1, <3>2, <3>3, WholeRead DEF ReadOK
    <3>5. StgTypeOK' BY <2>3, <3>1 DEF StgTypeOK, Approving
    <3>6. ReaderOK' BY <2>1, <2>3, <3>1 DEF ReaderOK, Approving, Copying, Observing
    <3>7. CopyOK' BY <2>3, <3>1 DEF CopyOK, StagedIsApproved
    <3>8. ReadOK' BY <2>3, <3>1, <3>4 DEF ReadOK
    <3> QED BY <3>5, <3>6, <3>7, <3>8
  <2> QED BY <1>5, <2>2, <2>3 DEF HashEnds
<1>6. CASE ApprovalWritten
  <2>1. /\ at = "hashed" /\ OwnerRests /\ LetGo /\ reached' = "approved" /\ UNCHANGED copy
    BY <1>6 DEF ApprovalWritten
  <2>2. reached = "none" /\ reader # "observer" BY <2>1 DEF ReaderOK, Approving, Observing
  <2>3. at' = "idle" BY <2>1 DEF LetGo
  <2>4. CopyOK' BY <2>1, <2>2, <2>3 DEF CopyOK, StagedIsApproved
  <2> QED BY <2>1, <2>2, <2>4, LetGoKeeps
<1> QED BY <1>1, <1>2, <1>3, <1>4, <1>5, <1>6

LEMMA StageFailsKeeps ==
  ASSUME StgIInv, StageFails, OwnerRests \/ Mishap, reader # "observer"
  PROVE  StgIInv'
<1>1. LetGo /\ copy' = Nothing /\ reached' = "refused" /\ at' = "idle" /\ UNCHANGED binding
  BY DEF StageFails, LetGo
<1>2. CopyOK' BY <1>1, NothingIsACopy DEF CopyOK, StagedIsApproved
<1> QED BY <1>1, <1>2, LetGoKeeps

(* The start: the copy is of what was read, and the read of the approved   *)
(* size and digest, or nothing is left of it.                              *)
LEMMA StageKeeps ==
  ASSUME StgIInv, StageMaterials \/ StageOpen \/ StageIdentity \/ StageBlock \/ StageEnds
  PROVE  StgIInv'
<1> USE DEF StgIInv
<1>0. reader # "observer"
  BY DEF ReaderOK, Copying, StageMaterials, StageOpen, StageIdentity, StageBlock, StageEnds
<1>1. CASE StageFails
  BY <1>0, <1>1, StageFailsKeeps DEF StageMaterials, StageOpen, StageIdentity, StageBlock, StageEnds
<1>2. CASE StageMaterials /\ ~StageFails
  <2>1. /\ at = "idle" /\ reached = "approved" /\ reached' = "staging"
        /\ UNCHANGED <<reader, coarse, content, stamp, at, fd, was, firstStat, marked, buffer, binding, copy>>
    BY <1>2 DEF StageMaterials, OwnerRests, readerOf
  <2>2. StgTypeOK' BY <2>1 DEF StgTypeOK
  <2>3. ReaderOK' BY <1>0, <2>1 DEF ReaderOK, Approving, Copying, Observing
  <2>4. CopyOK' BY <2>1 DEF CopyOK, StagedIsApproved
  <2>5. Prefix' = Prefix BY <2>1 DEF Prefix
  <2>6. ReadOK' BY <2>1, <2>5 DEF ReadOK
  <2> QED BY <2>2, <2>3, <2>4, <2>6
<1>3. CASE StageOpen /\ ~StageFails
  <2>1. /\ at = "idle" /\ reached = "staging" /\ path \in Inodes /\ fd' = path
        /\ was' = {content[path]} /\ at' = "drifted"
        /\ UNCHANGED <<reader, coarse, content, stamp, firstStat, marked, buffer, binding, copy, reached>>
    BY <1>3 DEF StageOpen, Opens, OwnerRests, Keeps
  <2>2. StgTypeOK' BY <2>1 DEF StgTypeOK, Copying
  <2>3. ReaderOK' BY <1>0, <2>1 DEF ReaderOK, Approving, Copying, Observing
  <2>4. CopyOK' BY <2>1 DEF CopyOK, StagedIsApproved
  <2>5. ReadOK' BY <2>1 DEF ReadOK
  <2> QED BY <2>2, <2>3, <2>4, <2>5
<1>4. CASE StageIdentity /\ ~StageFails
  <2>1. /\ at = "drifted" /\ SameFile(Stat(fd), binding) /\ marked' = Stat(fd) /\ at' = "copying"
        /\ copy' = [is |-> "script", blocks |-> <<>>, sealed |-> FALSE]
        /\ UNCHANGED <<reader, coarse, content, stamp, fd, was, firstStat, buffer, binding, reached>>
    BY <1>4 DEF StageIdentity, OwnerRests
  <2>2. fd \in Inodes /\ buffer = <<>> /\ reached = "staging" BY <2>1 DEF ReaderOK, Copying
  <2>3. StgTypeOK' BY <2>1, <2>2, StatFacts DEF StgTypeOK, Copying
  <2>4. ReaderOK' BY <2>1, <2>2 DEF ReaderOK, Approving, Copying, Observing
  <2>5. CopyOK' BY <2>1, <2>2 DEF CopyOK, StagedIsApproved, SameFile, Copies
  <2>6. ReadOK' BY <2>1 DEF ReadOK
  <2> QED BY <2>3, <2>4, <2>5, <2>6
<1>5. CASE StageBlock /\ ~StageFails
  <2>1. /\ at = "copying" /\ Reads /\ copy' = [copy EXCEPT !.blocks = Append(@, Block)]
        /\ UNCHANGED <<reader, coarse, content, stamp, at, fd, was, firstStat, marked, binding, reached>>
    BY <1>5 DEF StageBlock, OwnerRests
  <2>2. fd \in Inodes /\ reached = "staging" BY <2>1 DEF ReaderOK, Copying
  <2>3. buffer' \in Seq(Blocks) /\ buffer' = Append(buffer, Block) BY <2>1, <2>2, BlockKeeps DEF Reads
  <2>4. StgTypeOK' BY <2>1, <2>3 DEF StgTypeOK
  <2>5. ReaderOK' BY <2>1 DEF ReaderOK
  <2>6. copy'.blocks = buffer' /\ copy'.is = copy.is /\ copy'.sealed = copy.sealed
        /\ copy' \in Copies
    BY <2>1, <2>3 DEF CopyOK, Copies
  <2>7. CopyOK' BY <2>1, <2>2, <2>6 DEF CopyOK, StagedIsApproved
  <2>8. ReadOK' BY <2>1 DEF ReadOK
  <2> QED BY <2>4, <2>5, <2>7, <2>8
<1>6. CASE StageEnds /\ ~StageFails
  <2>1. /\ at = "copying" /\ Copied /\ copy' = [copy EXCEPT !.sealed = TRUE] /\ reached' = "staged"
        /\ LetGo /\ OwnerRests /\ UNCHANGED binding
    BY <1>6 DEF StageEnds
  <2>2. copy.blocks = binding.digest /\ Len(copy.blocks) = binding.size
    BY <2>1 DEF CopyOK, Copied
  <2>3. copy'.sealed /\ copy'.blocks = copy.blocks
        /\ copy' \in Copies
    BY <2>1 DEF CopyOK, Copies
  <2>4. CopyOK' BY <2>1, <2>2, <2>3 DEF CopyOK, StagedIsApproved, LetGo
  <2> QED BY <1>0, <2>1, <2>4, LetGoKeeps
<1> QED BY <1>1, <1>2, <1>3, <1>4, <1>5, <1>6

(* After the copy: the rest of the start, its end, and a crash of root.    *)
LEMMA StartKeeps ==
  ASSUME StgIInv,
         \/ Recorded \/ Released \/ RunOver \/ StartFails \/ AccountDrifts \/ CopyFails
         \/ RootCrashes \/ RunRecovered
  PROVE  StgIInv'
<1> USE DEF StgIInv
<1>0. reader # "observer"
  BY DEF ReaderOK, Copying, Recorded, Released, RunOver, StartFails, AccountDrifts, CopyFails,
         RootCrashes, RunRecovered
<1>1. CASE Rest /\ (Recorded \/ Released \/ RunOver \/ StartFails \/ AccountDrifts \/ RunRecovered)
  <2>1. UNCHANGED <<reader, coarse, content, stamp, at, fd, was, firstStat, marked, buffer, binding>>
    BY <1>1 DEF Rest, readerOf, OwnerRests, Mishap, Recorded, Released, RunOver, StartFails,
                AccountDrifts, RunRecovered
  <2>2. reached \notin {"none", "staging"} /\ reached' \notin {"none", "staging"}
    BY <1>1 DEF Recorded, Released, RunOver, StartFails, AccountDrifts, RunRecovered
  <2>3. at \notin Approving \cup Copying \cup Observing \cup {"open"}
    BY <2>2 DEF ReaderOK
  <2>4. StgTypeOK' BY <2>1 DEF StgTypeOK
  <2>5. ReaderOK' BY <1>0, <2>1, <2>3 DEF ReaderOK
  <2>6. at' # "copying" BY <2>1, <2>3 DEF Copying
  <2>7. ASSUME copy' = copy, reached \in {"staged", "recorded"}, reached' \in {"recorded", "released", "abandoned"} PROVE CopyOK'
    BY <2>1, <2>6, <2>7 DEF CopyOK, StagedIsApproved
  <2>8. ASSUME copy' = Nothing, reached' \in {"ended", "refused"} PROVE CopyOK'
    BY <2>1, <2>6, <2>8, NothingIsACopy DEF CopyOK, StagedIsApproved
  <2>9. CopyOK'
    BY <1>1, <2>2, <2>7, <2>8 DEF Recorded, Released, RunOver, StartFails, AccountDrifts, RunRecovered, Cleared
  <2>10. Prefix' = Prefix BY <2>1 DEF Prefix
  <2>11. ReadOK' BY <2>1, <2>10 DEF ReadOK
  <2> QED BY <2>4, <2>5, <2>9, <2>11
<1>2. CASE CopyFails
  BY <1>0, <1>2, StageFailsKeeps DEF CopyFails
<1>3. CASE RootCrashes
  <2>1. /\ Mishap /\ LetGo /\ reached' \in {"recovering", "lost"} /\ at' = "idle" /\ UNCHANGED <<binding, copy>>
    BY <1>3 DEF RootCrashes, LetGo
  <2>2. CopyOK' BY <2>1 DEF CopyOK, StagedIsApproved
  <2> QED BY <1>0, <2>1, <2>2, LetGoKeeps
<1> QED BY <1>1, <1>2, <1>3 DEF Recorded, Released, RunOver, StartFails, AccountDrifts, RunRecovered

(* The observer.                                                           *)
LEMMA ObserverKeeps ==
  ASSUME StgIInv,
         \/ ObservePath \/ ObserveOpen \/ ObserveOpened \/ ParseBlock \/ ObserveAfter \/ ObserveEnds
  PROVE  StgIInv'
<1> USE DEF StgIInv
<1>0. reader = "observer" /\ OwnerRests /\ UNCHANGED <<reader, coarse, content, stamp, binding, copy, reached>>
  BY DEF ReaderOK, Observing, ObservePath, ObserveOpen, ObserveOpened, ParseBlock, ObserveAfter,
         ObserveEnds,
     OwnerRests, Keeps, Answers
<1>1. reached = "none" /\ at \notin Approving \cup Copying
  BY <1>0 DEF ReaderOK, Observing, Approving, Copying,
     ObservePath, ObserveOpen, ObserveOpened, ParseBlock, ObserveAfter, ObserveEnds
<1>2. ASSUME NEW a, Answers(a) PROVE StgIInv'
  <2>1. LetGo /\ at' = "idle" BY <1>2 DEF Answers, LetGo
  <2>2. CopyOK' BY <1>0, <2>1 DEF CopyOK, StagedIsApproved
  <2> QED BY <1>0, <1>1, <2>1, <2>2, LetGoKeeps
<1>3. at' # "copying" => CopyOK'
  BY <1>0 DEF CopyOK, StagedIsApproved
<1>4. CASE ObservePath
  <2>1. CASE firstStat' = Stat(path) /\ at' = "open" /\ path \in Inodes /\ UNCHANGED <<fd, was, marked, buffer>>
    <3>1. at = "idle" /\ buffer = <<>> BY <1>4 DEF ObservePath, ReaderOK
    <3>2. StgTypeOK' BY <1>0, <2>1, StatFacts DEF StgTypeOK
    <3>3. ReaderOK' BY <1>0, <1>1, <2>1, <3>1 DEF ReaderOK, Approving, Copying, Observing
    <3>4. ReadOK' BY <1>0, <2>1 DEF ReadOK
    <3> QED BY <1>3, <2>1, <3>2, <3>3, <3>4
  <2> QED BY <1>2, <1>4, <2>1 DEF ObservePath
<1>5. CASE ObserveOpen
  <2>1. CASE Opens("opened") /\ UNCHANGED <<firstStat, marked, buffer>>
    <3>1. at = "open" /\ buffer = <<>> BY <1>5 DEF ObserveOpen, ReaderOK
    <3>2. fd' = path /\ path \in Inodes /\ was' = {content[path]} /\ at' = "opened" BY <2>1 DEF Opens
    <3>3. StgTypeOK' BY <1>0, <2>1, <3>2 DEF StgTypeOK, Observing
    <3>4. ReaderOK' BY <1>0, <1>1, <2>1, <3>1, <3>2 DEF ReaderOK, Approving, Copying, Observing
    <3>5. ReadOK' BY <1>0, <3>2 DEF ReadOK
    <3> QED BY <1>3, <3>2, <3>3, <3>4, <3>5
  <2> QED BY <1>2, <1>5, <2>1 DEF ObserveOpen
<1>6. CASE ObserveOpened
  <2>1. CASE marked' = Stat(fd) /\ at' = "parsing" /\ UNCHANGED <<fd, was, firstStat, buffer>>
    <3>1. fd \in Inodes /\ buffer = <<>> BY <1>6 DEF ObserveOpened, ReaderOK, Observing
    <3>2. StgTypeOK' BY <1>0, <2>1, <3>1, StatFacts DEF StgTypeOK, Observing
    <3>3. ReaderOK' BY <1>0, <1>1, <2>1, <3>1 DEF ReaderOK, Approving, Copying, Observing
    <3>4. Prefix' BY <1>0, <2>1, <3>1, StartsWhole
    <3>5. ReadOK' BY <1>0, <2>1, <3>4 DEF ReadOK
    <3> QED BY <1>3, <2>1, <3>2, <3>3, <3>5
  <2> QED BY <1>2, <1>6, <2>1 DEF ObserveOpened
<1>7. CASE ParseBlock
  <2>0. at = "parsing" /\ fd \in Inodes BY <1>7 DEF ParseBlock, ReaderOK, Observing
  <2>1. CASE Reads /\ UNCHANGED <<at, fd, was, firstStat, marked>>
    <3>1. buffer' \in Seq(Blocks) /\ (Prefix => Prefix') BY <1>0, <2>0, <2>1, BlockKeeps
    <3>2. StgTypeOK' BY <1>0, <2>1, <3>1 DEF StgTypeOK
    <3>3. ReaderOK' BY <1>0, <2>0, <2>1 DEF ReaderOK
    <3>4. ReadOK' BY <1>0, <2>0, <2>1, <3>1 DEF ReadOK
    <3> QED BY <1>3, <2>0, <2>1, <3>2, <3>3, <3>4
  <2>2. CASE (Short \/ Len(buffer) = marked.size) /\ at' = "after" /\ UNCHANGED <<fd, was, firstStat, marked, buffer>>
    <3>1. Prefix' = Prefix BY <1>0, <2>2 DEF Prefix
    <3>2. StgTypeOK' BY <1>0, <2>2 DEF StgTypeOK, Observing
    <3>3. ReaderOK' BY <1>0, <1>1, <2>0, <2>2 DEF ReaderOK, Approving, Copying, Observing
    <3>4. Prefix /\ stamp[fd] = marked.stamp => Len(buffer) = Len(content[fd])
      <4>1. Len(buffer) \in Nat /\ Len(content[fd]) \in Nat BY <2>0, ContentFacts DEF StgTypeOK
      <4> QED BY <2>2, <4>1 DEF Prefix, Short
    <3>5. ReadOK' BY <1>0, <2>0, <2>2, <3>1, <3>4 DEF ReadOK
    <3> QED BY <1>3, <2>2, <3>2, <3>3, <3>5
  <2> QED BY <1>7, <2>1, <2>2 DEF ParseBlock
<1>8. CASE ObserveAfter
  <2>0. at = "after" /\ fd \in Inodes BY <1>8 DEF ObserveAfter, ReaderOK, Observing
  <2>1. CASE Unchanged /\ at' = "pathAfter" /\ UNCHANGED <<fd, was, firstStat, marked, buffer>>
    <3>1. stamp[fd] = marked.stamp BY <2>0, <2>1, StatFacts DEF Unchanged
    <3>2. ~coarse => buffer \in was BY <2>0, <3>1, WholeRead DEF ReadOK
    <3>3. StgTypeOK' BY <1>0, <2>1 DEF StgTypeOK, Observing
    <3>4. ReaderOK' BY <1>0, <1>1, <2>0, <2>1 DEF ReaderOK, Approving, Copying, Observing
    <3>5. ReadOK' BY <1>0, <2>1, <3>2 DEF ReadOK
    <3> QED BY <1>3, <2>1, <3>3, <3>4, <3>5
  <2> QED BY <1>2, <1>8, <2>1 DEF ObserveAfter
<1>9. CASE ObserveEnds
  <2>0. at = "pathAfter" /\ fd \in Inodes BY <1>9 DEF ObserveEnds, ReaderOK, Observing
  <2>1. CASE at' = "reported" /\ UNCHANGED <<fd, was, firstStat, marked, buffer>>
    <3>1. StgTypeOK' BY <1>0, <2>1 DEF StgTypeOK, Observing
    <3>2. ReaderOK' BY <1>0, <1>1, <2>0, <2>1 DEF ReaderOK, Approving, Copying, Observing
    <3>3. ReadOK' BY <1>0, <2>0, <2>1 DEF ReadOK
    <3> QED BY <1>3, <2>1, <3>1, <3>2, <3>3
  <2> QED BY <1>2, <1>9, <2>1 DEF ObserveEnds
<1> QED BY <1>4, <1>5, <1>6, <1>7, <1>8, <1>9

(* The types of a reader's state, which file it has open and how far the   *)
(* start is; the copy is what was read; and what was read is what is there *)
(* as long as the times are those of the first stat: approvals.py and the  *)
(* observer keep all of it at every step, whatever the owner writes.       *)
THEOREM StagingInvariance == StagingSpec => []StgIInv
<1>1. ASSUME StgIInv, [StagingNext]_stagingVars PROVE StgIInv'
  <2>1. CASE UNCHANGED stagingVars
    BY <1>1, <2>1 DEF stagingVars, ownerOf, readerOf, StgIInv, StgTypeOK, ReaderOK, CopyOK,
                      StagedIsApproved, ReadOK, Prefix
  <2>2. CASE StagingNext
    BY <1>1, <2>2, OwnerKeeps, ApprovalKeeps, StageKeeps, StartKeeps, ObserverKeeps DEF StagingNext
  <2> QED BY <1>1, <2>1, <2>2
<1> QED BY <1>1, StgStarts, PTL DEF StagingSpec

(* The script that runs is the approved content and no refused start       *)
(* leaves a copy, unless the account drifted after it; an approved digest, and what the observer reports, is of *)
(* a content that the file once had as a whole where writes change its     *)
(* times; and the report is of the file that the path names.               *)
THEOREM ReadersOfAMovingFile == StagingSpec => FilesHold
<1>1. StgIInv => StagedIsApproved /\ ReadsAreWhole
  BY DEF StgIInv, CopyOK, ReadOK, ReadsAreWhole
<1>2. [StagingNext]_stagingVars => [at' = "reported" /\ at # "reported" => fd = path]_stagingVars
  <2> SUFFICES ASSUME StagingNext, at' = "reported", at # "reported" PROVE fd = path
    BY DEF stagingVars
  <2>1. CASE ObserveEnds
    BY <2>1 DEF ObserveEnds, Answers, LetGo, PathUnchanged
  <2>2. CASE \/ \E f \in Inodes, c \in Contents : Write(f, c)
             \/ \E p \in Inodes \cup {NoInode, Symlink} : Rename(p)
             \/ ReplaceMaterial
    BY <2>2 DEF Write, Rename, ReplaceMaterial, Owner, readerOf
  <2>3. CASE TakeApproval \/ ApproveIdentity \/ HashBegins \/ HashBlock \/ HashEnds \/ ApprovalWritten
    BY <2>3 DEF TakeApproval, ApproveIdentity, HashBegins, HashBlock, HashEnds, ApprovalWritten,
                ApproveRefused,
       LetGo, Opens
  <2>4. CASE StageMaterials \/ StageOpen \/ StageIdentity \/ StageBlock \/ StageEnds
    BY <2>4 DEF StageMaterials, StageOpen, StageIdentity, StageBlock, StageEnds, StageFails,
                LetGo, Opens, readerOf
  <2>5. CASE \/ Recorded \/ Released \/ RunOver \/ StartFails \/ AccountDrifts \/ CopyFails
             \/ RootCrashes \/ RunRecovered
    BY <2>5 DEF Recorded, Released, RunOver, StartFails, AccountDrifts, CopyFails, RootCrashes, RunRecovered,
                StageFails, LetGo,
       Rest, readerOf
  <2>6. CASE ObservePath \/ ObserveOpen \/ ObserveOpened \/ ParseBlock \/ ObserveAfter
    BY <2>6 DEF ObservePath, ObserveOpen, ObserveOpened, ParseBlock, ObserveAfter, Answers, LetGo,
                Opens
  <2> QED BY <2>1, <2>2, <2>3, <2>4, <2>5, <2>6 DEF StagingNext
<1> QED BY <1>1, <1>2, StagingInvariance, PTL DEF StagingSpec, FilesHold, ReportsThePath

-----------------------------------------------------------------------------
(* FirstKill: runs of the guided first kill on one host.                   *)
-----------------------------------------------------------------------------

Unowned == {"check", "prepare", "verify", "install"}
Owning == {"assets", "start", "watch", "uninstall", "sweep"}
Publishing == {"build", "write", "identify", "look", "link", "confirm", "undo"}
InstallClaims == {"NOT_INSTALLED", "UNKNOWN_OR_PARTIAL", "INSTALLED"}
FkRecords ==
  [pc : Unowned \cup Owning \cup Publishing \cup {"verifyGone", "end"},
   stage : {"pre-install", "install", "post-install", "removal", "publication"}, claim : InstallClaims,
   pre : BOOLEAN, commit : {o.tag : o \in Offers} \cup {"none"}, before : SUBSET (Campaigns \cup {"other"}),
   exit : {"none", "reported", "interrupted", "done"}]

FkTypeOK ==
  /\ offer \in Offers /\ run \in [Campaigns -> FkRecords]
  /\ install \in [is : {"none", "full", "partial"}, of : Campaigns \cup {Nobody},
                  bundle : {"none", offer.bundle}]
  /\ receipts \subseteq Campaigns \cup {"other"}
  /\ smoke \in [Campaigns -> {"none", "running", "terminated", "ended"}]
  /\ temp \in [Campaigns -> {"none", "new", "own", "stuck"}]
  /\ dirSame \in BOOLEAN /\ fkFaults \in Nat

(* An installation has an owner and is of what is offered.                 *)
InstalledOK == /\ install.is = "none" => install.of = Nobody
               /\ install.is # "none" => install.of # Nobody /\ install.bundle = offer.bundle

HoldsInstall(r) == install.of = r /\ install.is = "full"

(* What a run claims at each of its places.                                *)
ClaimOK(r) ==
  /\ run[r].pc \in {"check", "prepare", "verify"} => run[r].claim = "NOT_INSTALLED"
  /\ run[r].pc \in {"install", "sweep", "verifyGone"} => run[r].claim = "UNKNOWN_OR_PARTIAL"
  /\ run[r].pc \in {"assets", "start", "watch", "uninstall"} => run[r].claim = "INSTALLED"
  /\ run[r].pc \in {"uninstall", "sweep", "verifyGone"} => r \in Removing
  /\ run[r].pc \in Publishing =>
       run[r].claim = IF r \in Removing THEN "NOT_INSTALLED" ELSE "INSTALLED"
  /\ run[r].pc \notin {"check", "prepare", "verify", "end"} => run[r].commit = offer.bundle
  /\ run[r].pc # "end" => run[r].exit = "none"

(* What is so of the host at each place.                                   *)
PlaceOK(r) ==
  /\ run[r].pc \in Unowned => install.of # r
  /\ run[r].pc \in Owning => HoldsInstall(r)
  /\ run[r].pc \in Publishing =>
       IF r \in Removing THEN install.of # r /\ r \notin workspace /\ (run[r].pre \/ assets # r)
       ELSE HoldsInstall(r)
  /\ run[r].pc \notin {"check", "prepare", "end"} /\ assets = "foreign" => run[r].pre
  /\ run[r].pc # "watch" => smoke[r] # "running"
  /\ run[r].exit = "reported" => /\ run[r].claim = "NOT_INSTALLED" => install.of # r
                                 /\ run[r].claim = "INSTALLED" => HoldsInstall(r)

(* What the document of a run says.                                        *)
DocumentOK(r) ==
  dest.of = r =>
    /\ run[r].pc \in {"confirm", "undo", "end"}
    /\ dest.disposition = "REMOVED" => install.of # r /\ r \notin workspace
    /\ dest.disposition = "RETAINED" => HoldsInstall(r) /\ dest.commit = offer.bundle
    /\ dest.assets = "NEW_REMOVED" => assets # r
    /\ dest.assets # "EXCLUDED" => assets # "foreign"

(* What a run has published.                                               *)
PublishedOK(r) ==
  /\ run[r].pc \in {"confirm", "undo"} \/ run[r].exit = "done" => dest.of = r
  /\ run[r].pc \in {"look", "link", "confirm", "undo"} => temp[r] = "own"
  /\ temp[r] = "own" => run[r].pc \in {"look", "link", "confirm", "undo", "end"}
  /\ run[r].exit = "done" => temp[r] = "none"
  /\ run[r].exit \in {"reported", "interrupted"} /\ dirSame => temp[r] # "own"
  /\ run[r].exit = "reported" /\ dirSame => (dest.of = r => fkFaults > 1)
  /\ run[r].pc = "undo" /\ dirSame => fkFaults > 0

RunOK(r) == ClaimOK(r) /\ PlaceOK(r) /\ DocumentOK(r) /\ PublishedOK(r)
FkIInv == FkTypeOK /\ InstalledOK /\ \A r \in Campaigns : RunOK(r)

LEMMA FkStarts == FkInit => FkIInv
<1> SUFFICES ASSUME FkInit PROVE FkIInv
  OBVIOUS
<1>1. FkTypeOK
  BY DEF FkInit, FkTypeOK, FkRecords, Unowned, InstallClaims, NoInstall
<1>2. InstalledOK /\ install.of = Nobody
  BY DEF FkInit, InstalledOK, NoInstall
<1>3. ASSUME NEW r \in Campaigns PROVE RunOK(r)
  <2>1. /\ run[r].pc = "check" /\ run[r].claim = "NOT_INSTALLED" /\ run[r].exit = "none"
        /\ smoke[r] = "none" /\ temp[r] = "none"
    BY DEF FkInit
  <2>2. dest.of # r /\ install.of # r
    BY <1>2, FkAssumption DEF FkInit, Free, Foreign
  <2> QED BY <2>1, <2>2 DEF RunOK, ClaimOK, PlaceOK, DocumentOK, PublishedOK, Unowned, Owning,
                            Publishing
<1> QED BY <1>1, <1>2, <1>3 DEF FkIInv

(* What another's step may do without touching what is so of run q.        *)
Spares(q) ==
  /\ run'[q] = run[q] /\ offer' = offer
  /\ UNCHANGED install \/ (install.of # q /\ install'.of # q)
  /\ UNCHANGED assets \/ (assets' # "foreign" /\ assets' # q)
  /\ UNCHANGED dest \/ (dest.of # q /\ dest'.of # q)
  /\ (q \in workspace' => q \in workspace) /\ temp'[q] = temp[q]
  /\ dirSame' \in BOOLEAN /\ (dirSame' => dirSame) /\ fkFaults' \in Nat /\ fkFaults' >= fkFaults
  /\ smoke'[q] = smoke[q] \/ smoke'[q] # "running"

LEMMA SparedStays ==
  ASSUME FkTypeOK, NEW q \in Campaigns, RunOK(q), Spares(q) PROVE RunOK(q)'
<1>1. ClaimOK(q)'
  BY DEF Spares, RunOK, ClaimOK
<1>2. PlaceOK(q)'
  BY DEF Spares, RunOK, PlaceOK, HoldsInstall
<1>3. DocumentOK(q)'
  BY DEF Spares, RunOK, DocumentOK, HoldsInstall
<1>4. PublishedOK(q)'
  BY DEF Spares, RunOK, PublishedOK, FkTypeOK
<1> QED BY <1>1, <1>2, <1>3, <1>4 DEF RunOK

(* Two runs do not own one installation.                                   *)
LEMMA OneOwner ==
  ASSUME FkIInv, NEW r \in Campaigns, run[r].pc \in Owning, NEW q \in Campaigns, q # r
  PROVE  install.of # q
BY DEF FkIInv, RunOK, PlaceOK, HoldsInstall

(* A step of one run with new values for its fields.                       *)
RunMoved(r) == run' \in [Campaigns -> FkRecords] /\ \A q \in Campaigns \ {r} : run'[q] = run[q]

LEMMA RunMoves ==
  ASSUME FkTypeOK, NEW r \in Campaigns, NEW l, Moves(r, l), l \in Unowned \cup Owning \cup Publishing \cup {"verifyGone", "end"}
  PROVE  RunMoved(r) /\ run'[r] = [run[r] EXCEPT !.pc = l]
<1>1. run[r] \in FkRecords /\ run' = [run EXCEPT ![r] = [run[r] EXCEPT !.pc = l]]
  BY DEF FkTypeOK, Moves
<1>2. [run[r] EXCEPT !.pc = l] \in FkRecords
  BY <1>1 DEF FkRecords
<1> QED BY <1>1, <1>2 DEF RunMoved, FkTypeOK

LEMMA RunEnding ==
  ASSUME FkTypeOK, NEW r \in Campaigns, RunEnds(r)
  PROVE  /\ RunMoved(r)
         /\ \E how \in {"reported", "interrupted"} :
              run'[r] = [run[r] EXCEPT !.pc = "end", !.exit = how]
<1>1. PICK how \in {"reported", "interrupted"} : run' = [run EXCEPT ![r].pc = "end", ![r].exit = how]
  BY DEF RunEnds
<1>2. run[r] \in FkRecords
  BY DEF FkTypeOK
<1>3. run' = [run EXCEPT ![r] = [run[r] EXCEPT !.pc = "end", !.exit = how]]
  BY <1>1, <1>2 DEF FkTypeOK, FkRecords
<1>4. [run[r] EXCEPT !.pc = "end", !.exit = how] \in FkRecords
  BY <1>2 DEF FkRecords
<1> QED BY <1>3, <1>4 DEF RunMoved, FkTypeOK

(* A run that ends before it has published anything, with a true claim.    *)
LEMMA EndsTrue ==
  ASSUME FkIInv, NEW r \in Campaigns, run[r].pc \notin Publishing \cup {"end"},
         NEW how \in {"reported", "interrupted"}, 
         run'[r] = [run[r] EXCEPT !.pc = "end", !.exit = how],
         UNCHANGED <<offer, dest, temp, dirSame, fkFaults>>,
         smoke'[r] # "running",
         \/ run[r].claim = "UNKNOWN_OR_PARTIAL"
         \/ run[r].claim = "NOT_INSTALLED" /\ install'.of # r
         \/ run[r].claim = "INSTALLED" /\ HoldsInstall(r)'
  PROVE  RunOK(r)'
<1>1. /\ run'[r].pc = "end" /\ run'[r].exit = how /\ run'[r].claim = run[r].claim
      /\ run[r] \in FkRecords
  BY DEF FkIInv, FkTypeOK, FkRecords
<1>2. ClaimOK(r)'
  BY <1>1 DEF ClaimOK, Publishing
<1>3. PlaceOK(r)'
  BY <1>1 DEF PlaceOK, Publishing, Owning, Unowned
<1>4. dest.of # r /\ temp[r] # "own"
  BY <1>1 DEF FkIInv, RunOK, DocumentOK, PublishedOK, Publishing
<1>5. DocumentOK(r)' /\ PublishedOK(r)'
  BY <1>1, <1>4 DEF DocumentOK, PublishedOK
<1> QED BY <1>2, <1>3, <1>5 DEF RunOK

LEMMA OneRunMoves ==
  ASSUME FkIInv, NEW r \in Campaigns, FkTypeOK', InstalledOK', RunOK(r)',
         \A q \in Campaigns \ {r} : Spares(q)
  PROVE  FkIInv'
BY SparedStays DEF FkIInv

LEMMA NoRunMoves ==
  ASSUME FkIInv, FkTypeOK', InstalledOK', \A q \in Campaigns : Spares(q) PROVE FkIInv'
BY SparedStays DEF FkIInv

(* A step that changes what one run has, and nothing of the host.          *)
LEMMA OnlyItsRun ==
  ASSUME FkIInv, NEW r \in Campaigns, RunMoved(r), UNCHANGED <<offer, hostVars, pubVars>>, RunOK(r)'
  PROVE  FkIInv'
<1>1. FkTypeOK' /\ InstalledOK'
  BY DEF FkIInv, FkTypeOK, InstalledOK, RunMoved, hostVars, pubVars
<1>2. \A q \in Campaigns \ {r} : Spares(q)
  BY DEF FkIInv, FkTypeOK, RunMoved, Spares, hostVars, pubVars
<1> QED BY <1>1, <1>2, OneRunMoves

LEMMA RunFails ==
  ASSUME FkIInv, NEW r \in Campaigns,
         FailsAt(r, {"check", "prepare", "verify", "install", "start", "uninstall", "verifyGone"})
  PROVE  FkIInv'
<1>1. RunMoved(r) /\ UNCHANGED <<offer, hostVars, pubVars>>
  BY RunEnding DEF FailsAt, FkIInv
<1>2. PICK how \in {"reported", "interrupted"} :
        run'[r] = [run[r] EXCEPT !.pc = "end", !.exit = how]
  BY RunEnding DEF FailsAt, FkIInv
<1>3. run[r].pc \notin Publishing \cup {"end"} /\ smoke'[r] # "running"
  BY <1>1 DEF FailsAt, Publishing, FkIInv, RunOK, PlaceOK, hostVars
<1>4. \/ run[r].claim = "UNKNOWN_OR_PARTIAL"
      \/ run[r].claim = "NOT_INSTALLED" /\ install.of # r
      \/ run[r].claim = "INSTALLED" /\ HoldsInstall(r)
  BY DEF FailsAt, FkIInv, RunOK, ClaimOK, PlaceOK, Unowned, Owning
<1>5. RunOK(r)'
  BY <1>1, <1>2, <1>3, <1>4, EndsTrue DEF HoldsInstall, hostVars, pubVars
<1> QED BY <1>1, <1>5, OnlyItsRun

(* The first steps of a run.                                               *)
LEMMA FirstSteps ==
  ASSUME FkIInv, NEW r \in Campaigns, CheckHost(r) \/ VerifyRelease(r) \/ PrepareWorkspace(r)
  PROVE  FkIInv'
<1>0. /\ run[r] \in FkRecords /\ RunOK(r) /\ FkTypeOK /\ InstalledOK
  BY DEF FkIInv, FkTypeOK
<1>1. CASE CheckHost(r)
  <2>1. RunMoved(r) /\ run'[r] = [run[r] EXCEPT !.pc = "prepare"]
    BY <1>1, RunMoves DEF CheckHost, FkIInv, Unowned
  <2>2. run'[r].pc = "prepare" /\ run'[r].claim = run[r].claim /\ run'[r].exit = run[r].exit
    BY <2>1, <1>0 DEF FkRecords
  <2>3. RunOK(r)'
    BY <1>1, <1>0, <2>2 DEF CheckHost, Reached, RunOK, ClaimOK, PlaceOK, DocumentOK, PublishedOK,
       Publishing, Owning, Unowned, hostVars, pubVars, HoldsInstall
  <2> QED BY <1>1, <2>1, <2>3, OnlyItsRun DEF CheckHost
<1>2. CASE VerifyRelease(r)
  <2> DEFINE e == [run[r] EXCEPT !.pc = "install", !.stage = "install",
                                 !.claim = "UNKNOWN_OR_PARTIAL", !.commit = offer.tag]
  <2>1. run' = [run EXCEPT ![r] = e]
    BY <1>2 DEF VerifyRelease, CommitOf
  <2>2. e \in FkRecords /\ e.pc = "install" /\ e.claim = "UNKNOWN_OR_PARTIAL"
        /\ e.commit = offer.tag /\ e.exit = run[r].exit /\ e.pre = run[r].pre
    BY <1>0 DEF FkRecords, FkTypeOK, Unowned, InstallClaims
  <2>3. offer.tag = offer.bundle
    BY <1>2 DEF VerifyRelease, ReleaseVerified, CommitOf
  <2> HIDE DEF e
  <2>4. RunMoved(r) /\ run'[r] = e
    BY <2>1, <2>2, <1>0 DEF RunMoved, FkTypeOK
  <2>5. RunOK(r)'
    BY <1>2, <1>0, <2>2, <2>3, <2>4 DEF VerifyRelease, Reached, RunOK, ClaimOK, PlaceOK, DocumentOK,
       PublishedOK, Publishing, Owning, Unowned, hostVars, pubVars, HoldsInstall
  <2> QED BY <1>2, <2>4, <2>5, OnlyItsRun DEF VerifyRelease
<1>3. CASE PrepareWorkspace(r)
  <2> DEFINE b == assets # "none"
  <2> DEFINE e == [run[r] EXCEPT !.pc = "verify", !.pre = b]
  <2>1. run' = [run EXCEPT ![r] = e]
    BY <1>3, <1>0 DEF PrepareWorkspace, FkRecords, FkTypeOK
  <2>0. b \in BOOLEAN
    OBVIOUS
  <2> HIDE DEF b
  <2>2. e \in FkRecords /\ e.pc = "verify" /\ e.claim = run[r].claim
        /\ e.exit = run[r].exit /\ (e.pre <=> b)
    BY <1>0, <2>0 DEF FkRecords, Unowned
  <2> HIDE DEF e
  <2>4. RunMoved(r) /\ run'[r] = e
    BY <2>1, <2>2, <1>0 DEF RunMoved, FkTypeOK
  <2>5. ClaimOK(r)' /\ DocumentOK(r)' /\ PublishedOK(r)'
    BY <1>3, <1>0, <2>2, <2>4 DEF PrepareWorkspace, Reached, RunOK, ClaimOK, DocumentOK,
       PublishedOK, Publishing, pubVars
  <2>6. PlaceOK(r)'
    BY <1>3, <1>0, <2>2, <2>4 DEF PrepareWorkspace, Reached, RunOK, ClaimOK, PlaceOK,
       Publishing, Owning, Unowned, pubVars, b
  <2>7. FkTypeOK' /\ InstalledOK'
    BY <1>3, <1>0, <2>4 DEF PrepareWorkspace, FkTypeOK, InstalledOK, RunMoved, pubVars
  <2>8. \A q \in Campaigns \ {r} : Spares(q)
    BY <1>3, <1>0, <2>4 DEF PrepareWorkspace, Spares, RunMoved, FkTypeOK, pubVars
  <2> QED BY <2>5, <2>6, <2>7, <2>8, OneRunMoves DEF RunOK
<1> QED BY <1>1, <1>2, <1>3

(* The installer installs all of it, or is cut short.                      *)
LEMMA RunInstalls == ASSUME FkIInv, NEW r \in Campaigns, Install(r) PROVE FkIInv'
<1>0. /\ run[r] \in FkRecords /\ RunOK(r) /\ FkTypeOK /\ InstalledOK /\ run[r].pc = "install"
      /\ UNCHANGED <<offer, workspace, assets, smoke, receipts, pubVars>>
  BY DEF FkIInv, FkTypeOK, Install, Reached
<1>1. install.of = Nobody /\ r # Nobody
  BY FkAssumption DEF Install, FkIInv, InstalledOK
<1>2. PICK s \in {"full", "partial"} :
        /\ install' = [is |-> s, of |-> r, bundle |-> offer.bundle]
        /\ s = "full" => run' = [run EXCEPT ![r].pc = "assets", ![r].stage = "post-install",
                                            ![r].claim = "INSTALLED"]
        /\ s = "partial" => RunEnds(r)
  BY DEF Install
<1>3. /\ install'.is = s /\ install'.of = r /\ install'.bundle = offer.bundle
      /\ install' \in [is : {"none", "full", "partial"}, of : Campaigns \cup {Nobody},
                       bundle : {"none", offer.bundle}]
  BY <1>2
<1>4. InstalledOK'
  BY <1>0, <1>1, <1>3 DEF InstalledOK
<1>5. RunMoved(r) /\ RunOK(r)'
  <2>1. CASE s = "partial"
    <3>1. RunMoved(r)
      BY <1>0, <1>2, <2>1, RunEnding
    <3>2. PICK how \in {"reported", "interrupted"} :
            run'[r] = [run[r] EXCEPT !.pc = "end", !.exit = how]
      BY <1>0, <1>2, <2>1, RunEnding
    <3>3. run[r].claim = "UNKNOWN_OR_PARTIAL" /\ smoke'[r] # "running"
      BY <1>0 DEF RunOK, ClaimOK, PlaceOK
    <3>4. run[r].pc \notin Publishing \cup {"end"}
      BY <1>0 DEF Publishing
    <3> QED BY <1>0, <3>1, <3>2, <3>3, <3>4, EndsTrue DEF pubVars
  <2>2. CASE s = "full"
    <3> DEFINE e == [run[r] EXCEPT !.pc = "assets", !.stage = "post-install", !.claim = "INSTALLED"]
    <3>1. run' = [run EXCEPT ![r] = e]
      BY <1>0, <1>2, <2>2 DEF FkTypeOK, FkRecords
    <3>2. e \in FkRecords /\ e.pc = "assets" /\ e.claim = "INSTALLED"
          /\ e.commit = run[r].commit /\ e.exit = run[r].exit /\ e.pre = run[r].pre
      BY <1>0 DEF FkRecords, Owning, InstallClaims
    <3> HIDE DEF e
    <3>3. RunMoved(r) /\ run'[r] = e
      BY <3>1, <3>2, <1>0 DEF RunMoved, FkTypeOK
    <3>4. RunOK(r)'
      BY <1>0, <1>3, <2>2, <3>2, <3>3 DEF RunOK, ClaimOK, PlaceOK, DocumentOK, PublishedOK,
         Publishing, Owning, Unowned, pubVars, HoldsInstall
    <3> QED BY <3>3, <3>4
  <2> QED BY <2>1, <2>2
<1>6. \A q \in Campaigns \ {r} : Spares(q)
  BY <1>0, <1>1, <1>3, <1>5, FkAssumption DEF Spares, RunMoved, FkTypeOK, pubVars
<1>7. FkTypeOK'
  BY <1>0, <1>3, <1>5 DEF FkTypeOK, RunMoved, pubVars
<1> QED BY <1>4, <1>5, <1>6, <1>7, OneRunMoves

(* Workload and assets.                                                    *)
LEMMA SmokeSteps ==
  ASSUME FkIInv, NEW r \in Campaigns, PrepareAssets(r) \/ StartWorkload(r) \/ Watch(r)
  PROVE  FkIInv'
<1>0. /\ run[r] \in FkRecords /\ RunOK(r) /\ FkTypeOK /\ InstalledOK
      /\ UNCHANGED <<offer, install, workspace, receipts, pubVars>>
      /\ run[r].pc \in {"assets", "start", "watch"} /\ HoldsInstall(r)
      /\ run[r].claim = "INSTALLED"
  BY DEF FkIInv, FkTypeOK, PrepareAssets, StartWorkload, Watch, Reached, RunOK, PlaceOK, ClaimOK,
         Owning
<1>1. /\ \A q \in Campaigns \ {r} : smoke'[q] = smoke[q]
      /\ smoke' \in [Campaigns -> {"none", "running", "terminated", "ended"}]
  BY <1>0 DEF PrepareAssets, StartWorkload, Watch, Reaped, FkTypeOK
<1>2. /\ assets' = assets \/ assets' = r
      /\ assets = "foreign" \/ assets' # "foreign"
  BY FkAssumption DEF PrepareAssets, StartWorkload, Watch
<1>3. ASSUME RunMoved(r), RunOK(r)' PROVE FkIInv'
  <2>1. \A q \in Campaigns \ {r} : Spares(q)
    BY <1>0, <1>1, <1>2, <1>3, FkAssumption DEF Spares, RunMoved, FkTypeOK, pubVars
  <2>2. FkTypeOK' /\ InstalledOK'
    BY <1>0, <1>1, <1>3 DEF FkTypeOK, RunMoved, pubVars, InstalledOK
  <2> QED BY <1>3, <2>1, <2>2, OneRunMoves
<1>4. CASE RunEnds(r) /\ (PrepareAssets(r) \/ Watch(r))
  <2>1. RunMoved(r)
    BY <1>0, <1>4, RunEnding
  <2>2. PICK how \in {"reported", "interrupted"} :
          run'[r] = [run[r] EXCEPT !.pc = "end", !.exit = how]
    BY <1>0, <1>4, RunEnding
  <2>3. smoke'[r] # "running" /\ run[r].pc \notin Publishing \cup {"end"}
    BY <1>0, <1>4 DEF PrepareAssets, Watch, Reached, Reaped, RunOK, PlaceOK, FkTypeOK, Publishing
  <2>4. RunOK(r)'
    BY <1>0, <2>2, <2>3, EndsTrue DEF HoldsInstall, pubVars
  <2> QED BY <1>3, <2>1, <2>4
<1>5. ASSUME NEW e \in FkRecords, run' = [run EXCEPT ![r] = e],
             e.pc \in {"start", "watch", "uninstall", "build"}, e.pc # "watch" => smoke'[r] # "running",
             e.claim = run[r].claim, e.exit = run[r].exit, e.commit = run[r].commit,
             e.pre = run[r].pre, e.pc = "uninstall" => r \in Removing,
             e.pc = "build" => r \notin Removing
      PROVE  FkIInv'
  <2>1. RunMoved(r) /\ run'[r] = e
    BY <1>0, <1>5 DEF RunMoved, FkTypeOK
  <2>2. ClaimOK(r)'
    BY <1>0, <1>5, <2>1 DEF RunOK, ClaimOK, Publishing
  <2>3. PlaceOK(r)'
    BY <1>0, <1>2, <1>5, <2>1 DEF RunOK, PlaceOK, ClaimOK, Publishing, Owning, Unowned, HoldsInstall
  <2>4. DocumentOK(r)' /\ PublishedOK(r)'
    BY <1>0, <1>5, <2>1 DEF RunOK, DocumentOK, PublishedOK, ClaimOK, pubVars
  <2> QED BY <1>3, <2>1, <2>2, <2>3, <2>4 DEF RunOK
<1>6. CASE StartWorkload(r)
  <2> DEFINE e == [run[r] EXCEPT !.pc = "watch", !.before = receipts]
  <2>1. run' = [run EXCEPT ![r] = e]
    BY <1>0, <1>6 DEF StartWorkload, FkTypeOK, FkRecords
  <2>2. e \in FkRecords /\ e.pc = "watch" /\ e.claim = run[r].claim /\ e.exit = run[r].exit
        /\ e.commit = run[r].commit /\ e.pre = run[r].pre
    BY <1>0 DEF FkRecords, FkTypeOK, Owning
  <2> HIDE DEF e
  <2> QED BY <2>1, <2>2, <1>5
<1>7. CASE (PrepareAssets(r) \/ Watch(r)) /\ ~RunEnds(r)
  <2>1. PICK l \in {"start", "uninstall", "build"} :
          /\ Moves(r, l) /\ (l = "uninstall" => r \in Removing) /\ (l = "build" => r \notin Removing)
    BY <1>7 DEF PrepareAssets, Watch
  <2>2. smoke'[r] # "running"
    BY <1>0, <1>7 DEF PrepareAssets, Watch, Reached, Reaped, RunOK, PlaceOK, FkTypeOK
  <2> DEFINE e == [run[r] EXCEPT !.pc = l]
  <2>3. run' = [run EXCEPT ![r] = e]
    BY <1>0, <2>1 DEF Moves, FkTypeOK, FkRecords
  <2>4. e \in FkRecords /\ e.pc = l /\ e.claim = run[r].claim /\ e.exit = run[r].exit
        /\ e.commit = run[r].commit /\ e.pre = run[r].pre
    BY <1>0 DEF FkRecords, FkTypeOK, Owning, Publishing
  <2> HIDE DEF e
  <2> QED BY <2>1, <2>2, <2>3, <2>4, <1>5
<1> QED BY <1>4, <1>6, <1>7

(* The removal: begun, swept, looked at.                                   *)
LEMMA RemovalSteps ==
  ASSUME FkIInv, NEW r \in Campaigns, Removal(r) \/ VerifyGone(r) PROVE FkIInv'
<1>0. /\ run[r] \in FkRecords /\ RunOK(r) /\ FkTypeOK /\ InstalledOK
      /\ UNCHANGED <<offer, hostVars, pubVars>>
  BY DEF FkIInv, FkTypeOK, Removal, VerifyGone
<1>1. CASE Removal(r)
  <2> DEFINE e == [run[r] EXCEPT !.pc = "sweep", !.stage = "removal",
                                 !.claim = "UNKNOWN_OR_PARTIAL"]
  <2>1. run' = [run EXCEPT ![r] = e]
    BY <1>0, <1>1 DEF Removal, FkTypeOK, FkRecords
  <2>2. e \in FkRecords /\ e.pc = "sweep" /\ e.claim = "UNKNOWN_OR_PARTIAL"
        /\ e.exit = run[r].exit /\ e.commit = run[r].commit /\ e.pre = run[r].pre
    BY <1>0 DEF FkRecords, Owning, InstallClaims
  <2> HIDE DEF e
  <2>3. RunMoved(r) /\ run'[r] = e
    BY <2>1, <2>2, <1>0 DEF RunMoved, FkTypeOK
  <2>4. RunOK(r)'
    BY <1>1, <1>0, <2>2, <2>3 DEF Removal, Reached, RunOK, ClaimOK, PlaceOK, DocumentOK,
       PublishedOK, Publishing, Owning, Unowned, hostVars, pubVars, HoldsInstall
  <2> QED BY <1>0, <2>3, <2>4, OnlyItsRun
<1>2. CASE VerifyGone(r)
  <2> DEFINE e == [run[r] EXCEPT !.pc = "build", !.claim = "NOT_INSTALLED"]
  <2>1. run' = [run EXCEPT ![r] = e]
    BY <1>0, <1>2 DEF VerifyGone, FkTypeOK, FkRecords
  <2>2. e \in FkRecords /\ e.pc = "build" /\ e.claim = "NOT_INSTALLED"
        /\ e.exit = run[r].exit /\ e.commit = run[r].commit /\ e.pre = run[r].pre
    BY <1>0 DEF FkRecords, Publishing, InstallClaims
  <2> HIDE DEF e
  <2>3. RunMoved(r) /\ run'[r] = e
    BY <2>1, <2>2, <1>0 DEF RunMoved, FkTypeOK
  <2>4. install.of # r /\ r \notin workspace /\ (run[r].pre \/ assets # r)
    BY <1>0, <1>2, FkAssumption DEF VerifyGone, InstalledOK
  <2>5. RunOK(r)'
    BY <1>2, <1>0, <2>2, <2>3, <2>4 DEF VerifyGone, Reached, RunOK, ClaimOK, PlaceOK, DocumentOK,
       PublishedOK, Publishing, Owning, Unowned, hostVars, pubVars, HoldsInstall
  <2> QED BY <1>0, <2>3, <2>5, OnlyItsRun
<1> QED BY <1>1, <1>2

LEMMA RunSweeps == ASSUME FkIInv, NEW r \in Campaigns, Sweep(r) PROVE FkIInv'
<1>0. /\ run[r] \in FkRecords /\ RunOK(r) /\ FkTypeOK /\ InstalledOK /\ run[r].pc = "sweep"
      /\ UNCHANGED <<offer, smoke, pubVars>> /\ HoldsInstall(r) /\ r # Nobody
  BY FkAssumption DEF FkIInv, FkTypeOK, Sweep, Reached, RunOK, PlaceOK, Owning
<1>1. /\ install' \in [is : {"none", "full", "partial"}, of : Campaigns \cup {Nobody},
                       bundle : {"none", offer.bundle}]
      /\ install'.of \in {r, Nobody} /\ InstalledOK'
  <2>1. CASE install' = NoInstall
    BY <2>1 DEF NoInstall, InstalledOK
  <2>2. CASE install' = install
    BY <1>0, <2>2 DEF FkTypeOK, InstalledOK, HoldsInstall
  <2>3. CASE install' = [install EXCEPT !.is = "partial"]
    <3>1. install'.is = "partial" /\ install'.of = install.of /\ install'.bundle = install.bundle
      BY <1>0, <2>3 DEF FkTypeOK
    <3> QED BY <1>0, <2>3, <3>1 DEF FkTypeOK, InstalledOK, HoldsInstall
  <2> QED BY <2>1, <2>2, <2>3 DEF Sweep
<1>2. /\ workspace' \subseteq workspace /\ receipts' \subseteq receipts
      /\ assets' = assets \/ (assets' = "none" /\ ~run[r].pre)
  BY DEF Sweep
<1>3. \/ Moves(r, "verifyGone")
      \/ RunEnds(r)
  BY DEF Sweep
<1>4. RunMoved(r) /\ RunOK(r)'
  <2>1. CASE RunEnds(r)
    <3>1. RunMoved(r)
      BY <1>0, <2>1, RunEnding
    <3>2. PICK how \in {"reported", "interrupted"} :
            run'[r] = [run[r] EXCEPT !.pc = "end", !.exit = how]
      BY <1>0, <2>1, RunEnding
    <3>3. run[r].claim = "UNKNOWN_OR_PARTIAL" /\ smoke'[r] # "running"
      BY <1>0 DEF RunOK, ClaimOK, PlaceOK
    <3>4. run[r].pc \notin Publishing \cup {"end"}
      BY <1>0 DEF Publishing
    <3> QED BY <1>0, <3>1, <3>2, <3>3, <3>4, EndsTrue DEF pubVars
  <2>2. CASE Moves(r, "verifyGone")
    <3>1. RunMoved(r) /\ run'[r] = [run[r] EXCEPT !.pc = "verifyGone"]
      BY <1>0, <2>2, RunMoves
    <3>2. /\ run'[r].pc = "verifyGone" /\ run'[r].claim = run[r].claim
          /\ run'[r].exit = run[r].exit /\ run'[r].commit = run[r].commit /\ run'[r].pre = run[r].pre
      BY <1>0, <3>1 DEF FkRecords
    <3>3. RunOK(r)'
      BY <1>0, <1>2, <3>2 DEF RunOK, ClaimOK, PlaceOK, DocumentOK, PublishedOK,
         Publishing, Owning, Unowned, pubVars, HoldsInstall
    <3> QED BY <3>1, <3>3
  <2> QED BY <1>3, <2>1, <2>2
<1>5. \A q \in Campaigns \ {r} : Spares(q)
  BY <1>0, <1>1, <1>2, <1>4, FkAssumption DEF Spares, RunMoved, FkTypeOK, pubVars, HoldsInstall
<1>6. FkTypeOK'
  BY <1>0, <1>1, <1>2, <1>4 DEF FkTypeOK, RunMoved, pubVars
<1> QED BY <1>1, <1>4, <1>5, <1>6, OneRunMoves

(* The publication, up to the link.                                        *)
LEMMA PublicationSteps ==
  ASSUME FkIInv, NEW r \in Campaigns,
         Build(r) \/ CreateTemporary(r) \/ WriteTemporary(r) \/ LookAgain(r)
  PROVE  FkIInv'
<1>0. /\ run[r] \in FkRecords /\ RunOK(r) /\ FkTypeOK /\ InstalledOK
      /\ UNCHANGED <<offer, hostVars, dest, dirSame, fkFaults>>
      /\ run[r].pc \in {"build", "write", "identify", "look"}
  BY DEF FkIInv, FkTypeOK, Build, CreateTemporary, WriteTemporary, LookAgain, Reached, pubVars
<1>1. PICK e \in FkRecords :
        /\ run' = [run EXCEPT ![r] = e] /\ e.pc \in {"write", "identify", "look", "link"}
        /\ e.claim = run[r].claim /\ e.exit = run[r].exit /\ e.commit = run[r].commit
        /\ e.pre = run[r].pre
        /\ e.pc = "write" => temp' = temp /\ run[r].pc = "build"
        /\ e.pc = "identify" => Temporary(r, "new")
        /\ e.pc = "look" => Temporary(r, "own")
        /\ e.pc = "link" => temp' = temp /\ run[r].pc = "look"
  <2>1. CASE Build(r)
    <3> DEFINE e == [run[r] EXCEPT !.pc = "write", !.stage = "publication"]
    <3>1. run' = [run EXCEPT ![r] = e]
      BY <1>0, <2>1 DEF Build, FkTypeOK, FkRecords
    <3>2. e \in FkRecords /\ e.pc = "write" /\ e.claim = run[r].claim
          /\ e.exit = run[r].exit /\ e.commit = run[r].commit /\ e.pre = run[r].pre
      BY <1>0 DEF FkRecords, Publishing
    <3> HIDE DEF e
    <3> QED BY <2>1, <3>1, <3>2 DEF Build, pubVars, Reached
  <2>2. CASE CreateTemporary(r) \/ WriteTemporary(r) \/ LookAgain(r)
    <3>1. PICK l \in {"identify", "look", "link"} :
            /\ Moves(r, l)
            /\ l = "identify" => Temporary(r, "new")
            /\ l = "look" => Temporary(r, "own")
            /\ l = "link" => temp' = temp /\ run[r].pc = "look"
      BY <2>2 DEF CreateTemporary, WriteTemporary, LookAgain, Reached, pubVars
    <3> DEFINE e == [run[r] EXCEPT !.pc = l]
    <3>2. run' = [run EXCEPT ![r] = e]
      BY <1>0, <3>1 DEF Moves, FkTypeOK, FkRecords
    <3>3. e \in FkRecords /\ e.pc = l /\ e.claim = run[r].claim
          /\ e.exit = run[r].exit /\ e.commit = run[r].commit /\ e.pre = run[r].pre
      BY <1>0 DEF FkRecords, Publishing
    <3> HIDE DEF e
    <3> QED BY <3>1, <3>2, <3>3
  <2> QED BY <2>1, <2>2
<1>2. RunMoved(r) /\ run'[r] = e
  BY <1>0, <1>1 DEF RunMoved, FkTypeOK
<1>3. /\ temp' \in [Campaigns -> {"none", "new", "own", "stuck"}]
      /\ \A q \in Campaigns \ {r} : temp'[q] = temp[q]
      /\ e.pc \in {"write", "identify"} => temp'[r] # "own"
      /\ e.pc \in {"look", "link"} => temp'[r] = "own"
  BY <1>0, <1>1 DEF Temporary, RunOK, PublishedOK, FkTypeOK
<1>4. RunOK(r)'
  <2>1. ClaimOK(r)' /\ PlaceOK(r)'
    BY <1>0, <1>1, <1>2 DEF RunOK, ClaimOK, PlaceOK, Publishing, Owning, Unowned, hostVars,
                            HoldsInstall
  <2>2. DocumentOK(r)'
    BY <1>0, <1>1, <1>2 DEF RunOK, DocumentOK
  <2>3. PublishedOK(r)'
    BY <1>0, <1>1, <1>2, <1>3 DEF RunOK, ClaimOK, DocumentOK, PublishedOK
  <2> QED BY <2>1, <2>2, <2>3 DEF RunOK
<1>5. \A q \in Campaigns \ {r} : Spares(q)
  BY <1>0, <1>1, <1>2, <1>3 DEF Spares, RunMoved, FkTypeOK, hostVars
<1>6. FkTypeOK' /\ InstalledOK'
  BY <1>0, <1>2, <1>3 DEF FkTypeOK, RunMoved, hostVars, InstalledOK
<1> QED BY <1>2, <1>4, <1>5, <1>6, OneRunMoves

LEMMA LinkSteps == ASSUME FkIInv, NEW r \in Campaigns, Link(r) PROVE FkIInv'
<1>0. /\ run[r] \in FkRecords /\ RunOK(r) /\ FkTypeOK /\ InstalledOK
      /\ UNCHANGED <<offer, hostVars, temp, dirSame, fkFaults>>
      /\ run[r].pc = "link" /\ dest = Free /\ dest' = Document(r)
      /\ "none" \notin Campaigns
  BY FkAssumption DEF FkIInv, FkTypeOK, Link, Reached
<1>1. RunMoved(r) /\ run'[r] = [run[r] EXCEPT !.pc = "confirm"]
  BY <1>0, RunMoves DEF Link, Publishing
<1>2. /\ run'[r].pc = "confirm" /\ run'[r].claim = run[r].claim
      /\ run'[r].exit = run[r].exit /\ run'[r].commit = run[r].commit /\ run'[r].pre = run[r].pre
  BY <1>0, <1>1 DEF FkRecords
<1>3. /\ dest'.of = r /\ dest'.commit = run[r].commit
      /\ dest'.disposition = IF r \in Removing THEN "REMOVED" ELSE "RETAINED"
      /\ dest'.assets = "NEW_REMOVED" <=> ~run[r].pre /\ r \in Removing
      /\ dest'.assets = "EXCLUDED" <=> run[r].pre
  BY <1>0 DEF Document, FkRecords
<1>4. run[r].commit = offer.bundle /\ run[r].exit = "none"
  BY <1>0 DEF RunOK, ClaimOK
<1>5. DocumentOK(r)'
  BY <1>0, <1>2, <1>3, <1>4 DEF RunOK, PlaceOK, DocumentOK, Publishing, hostVars, HoldsInstall
<1>6. ClaimOK(r)' /\ PlaceOK(r)' /\ PublishedOK(r)'
  BY <1>0, <1>2, <1>3, <1>4 DEF RunOK, ClaimOK, PlaceOK, PublishedOK, Publishing, Owning, Unowned,
     hostVars, HoldsInstall
<1>7. \A q \in Campaigns \ {r} : Spares(q)
  BY <1>0, <1>1, <1>3 DEF Spares, RunMoved, FkTypeOK, hostVars, Free
<1>8. FkTypeOK' /\ InstalledOK'
  BY <1>0, <1>1 DEF FkTypeOK, RunMoved, hostVars, InstalledOK
<1> QED BY <1>1, <1>5, <1>6, <1>7, <1>8, OneRunMoves DEF RunOK

(* A run that ends after its installation was removed or retained.         *)
LEMMA EndsPublished ==
  ASSUME FkIInv, NEW r \in Campaigns, run[r].pc \in Publishing, run'[r] \in FkRecords,
         run'[r].claim = run[r].claim, run'[r].commit = run[r].commit, run'[r].pre = run[r].pre,
         run'[r].pc \in {"end", "undo"}, run'[r].pc = "undo" => run'[r].exit = "none",
         UNCHANGED <<offer, hostVars>>, dest' = dest \/ dest'.of # r,
         PublishedOK(r)'
  PROVE  RunOK(r)'
<1>0. RunOK(r)
  BY DEF FkIInv
<1>1. ClaimOK(r)'
  BY <1>0 DEF RunOK, ClaimOK, Publishing
<1>2. PlaceOK(r)'
  BY <1>0 DEF RunOK, PlaceOK, ClaimOK, Publishing, Unowned, Owning, hostVars, HoldsInstall
<1>3. DocumentOK(r)'
  BY <1>0 DEF RunOK, DocumentOK, Publishing, hostVars, HoldsInstall
<1> QED BY <1>1, <1>2, <1>3 DEF RunOK

(* Ends of the publication: well, with a failure, with an undo, cut short. *)
LEMMA PublicationEnds ==
  ASSUME FkIInv, NEW r \in Campaigns,
         Confirm(r) \/ PublicationFails(r) \/ ConfirmFails(r) \/ Undo(r) \/ Interrupt(r)
  PROVE  FkIInv'
<1>0. /\ run[r] \in FkRecords /\ RunOK(r) /\ FkTypeOK /\ InstalledOK
      /\ UNCHANGED <<offer, hostVars, dirSame>> /\ run[r].pc \in Publishing
      /\ fkFaults' \in Nat /\ fkFaults' >= fkFaults
  BY DEF FkIInv, FkTypeOK, Confirm, PublicationFails, ConfirmFails, Undo, Interrupt, Publishing,
         Reached, BeforeLink, CallsFail
<1>1. (ConfirmFails(r) /\ temp' = temp) \/ \E n \in {0, 1} : Unlinked(r, n)
  BY DEF Confirm, PublicationFails, ConfirmFails, Undo, Interrupt
<1>2. /\ temp' \in [Campaigns -> {"none", "new", "own", "stuck"}]
      /\ \A q \in Campaigns \ {r} : temp'[q] = temp[q]
  BY <1>0, <1>1 DEF Unlinked, Temporary, FkTypeOK
<1>3. ~ConfirmFails(r) /\ dirSame => temp'[r] # "own"
  BY <1>0, <1>1 DEF Unlinked, Temporary, FkTypeOK
<1>4. dest' = dest \/ (dest.of = r /\ dest'.of = "none")
  BY DEF Confirm, PublicationFails, ConfirmFails, Undo, Interrupt, IsOf, Free
<1>5. temp'[r] = "own" => run[r].pc \in {"look", "link", "confirm", "undo"}
  BY <1>0, <1>1 DEF Unlinked, Temporary, FkTypeOK, RunOK, PublishedOK, Publishing
<1>6. ASSUME NEW e \in FkRecords, run' = [run EXCEPT ![r] = e], e.pc \in {"end", "undo"},
             e.pc = "undo" => e.exit = "none", e.claim = run[r].claim, e.commit = run[r].commit,
             e.pre = run[r].pre, PublishedOK(r)'
      PROVE  FkIInv'
  <2>1. RunMoved(r) /\ run'[r] = e
    BY <1>0, <1>6 DEF RunMoved, FkTypeOK
  <2>2. RunOK(r)'
    BY <1>0, <1>4, <1>6, <2>1, FkAssumption, EndsPublished
  <2>3. \A q \in Campaigns \ {r} : Spares(q)
    BY <1>0, <1>2, <1>4, <2>1, FkAssumption DEF Spares, RunMoved, FkTypeOK, hostVars
  <2>4. FkTypeOK' /\ InstalledOK'
    BY <1>0, <1>2, <2>1 DEF FkTypeOK, RunMoved, hostVars, InstalledOK
  <2> QED BY <2>1, <2>2, <2>3, <2>4, OneRunMoves
<1>7. CASE Confirm(r)
  <2> DEFINE e == [run[r] EXCEPT !.pc = "end", !.exit = "done"]
  <2>1. run' = [run EXCEPT ![r] = e]
    BY <1>0, <1>7 DEF Confirm, FkTypeOK, FkRecords
  <2>2. e \in FkRecords /\ e.pc = "end" /\ e.exit = "done" /\ e.claim = run[r].claim
        /\ e.commit = run[r].commit /\ e.pre = run[r].pre
    BY <1>0 DEF FkRecords
  <2> HIDE DEF e
  <2>3. run'[r] = e
    BY <1>0, <2>1 DEF FkTypeOK
  <2>4. temp'[r] = "none" /\ dest'.of = r
    BY <1>0, <1>7 DEF Confirm, Reached, Unlinked, Temporary, PublishedOK, RunOK, FkTypeOK
  <2>5. PublishedOK(r)'
    BY <2>2, <2>3, <2>4 DEF PublishedOK
  <2> QED BY <1>6, <2>1, <2>2, <2>5
<1>8. CASE Interrupt(r)
  <2> DEFINE e == [run[r] EXCEPT !.pc = "end", !.exit = "interrupted"]
  <2>1. run' = [run EXCEPT ![r] = e]
    BY <1>0, <1>8 DEF Interrupt, FkTypeOK, FkRecords
  <2>2. e \in FkRecords /\ e.pc = "end" /\ e.exit = "interrupted" /\ e.claim = run[r].claim
        /\ e.commit = run[r].commit /\ e.pre = run[r].pre
    BY <1>0 DEF FkRecords
  <2> HIDE DEF e
  <2>3. run'[r] = e /\ (dirSame => temp'[r] # "own")
    BY <1>0, <1>3, <1>8, <2>1 DEF FkTypeOK, Interrupt, ConfirmFails, BeforeLink, Reached, IsOf, FkRecords
  <2>4. PublishedOK(r)'
    BY <1>0, <1>5, <2>2, <2>3 DEF PublishedOK
  <2> QED BY <1>6, <2>1, <2>2, <2>4
<1>9. CASE Undo(r)
  <2> DEFINE e == [run[r] EXCEPT !.pc = "end", !.exit = "reported"]
  <2>1. run' = [run EXCEPT ![r] = e]
    BY <1>0, <1>9 DEF Undo, FkTypeOK, FkRecords
  <2>2. e \in FkRecords /\ e.pc = "end" /\ e.exit = "reported" /\ e.claim = run[r].claim
        /\ e.commit = run[r].commit /\ e.pre = run[r].pre
    BY <1>0 DEF FkRecords
  <2> HIDE DEF e
  <2>3. run'[r] = e
    BY <1>0, <2>1 DEF FkTypeOK
  <2>4. PICK failed \in {0, 1}, again \in {0, 1} :
          /\ dest' = IF dirSame /\ IsOf(dest, r) /\ failed = 0 THEN Free ELSE dest
          /\ fkFaults' = fkFaults + (failed + again)
    BY <1>9 DEF Undo, CallsFail
  <2>5. dirSame => fkFaults > 0 /\ dest.of = r /\ temp'[r] # "own"
    BY <1>0, <1>3, <1>9 DEF Undo, ConfirmFails, Reached, PublishedOK, RunOK
  <2>6. dirSame => (dest'.of = r => fkFaults' > 1)
    BY <1>0, <2>4, <2>5, FkAssumption DEF IsOf, Free, FkTypeOK
  <2>7. PublishedOK(r)'
    BY <1>0, <1>5, <2>2, <2>3, <2>5, <2>6 DEF PublishedOK
  <2> QED BY <1>6, <2>1, <2>2, <2>7
<1>10. CASE PublicationFails(r)
  <2> DEFINE e == [run[r] EXCEPT !.pc = "end", !.stage = "publication", !.exit = "reported"]
  <2>1. run' = [run EXCEPT ![r] = e]
    BY <1>0, <1>10 DEF PublicationFails, FkTypeOK, FkRecords
  <2>2. e \in FkRecords /\ e.pc = "end" /\ e.exit = "reported" /\ e.claim = run[r].claim
        /\ e.commit = run[r].commit /\ e.pre = run[r].pre
    BY <1>0 DEF FkRecords
  <2> HIDE DEF e
  <2>3. run'[r] = e
    BY <1>0, <2>1 DEF FkTypeOK
  <2>4. dest'.of # r /\ (dirSame => temp'[r] # "own")
    BY <1>0, <1>3, <1>10 DEF PublicationFails, ConfirmFails, BeforeLink, Reached, RunOK, DocumentOK
  <2>5. PublishedOK(r)'
    BY <1>0, <1>5, <2>2, <2>3, <2>4 DEF PublishedOK
  <2> QED BY <1>6, <2>1, <2>2, <2>5
<1>11. CASE ConfirmFails(r)
  <2> DEFINE e == [run[r] EXCEPT !.pc = "undo", !.stage = "publication"]
  <2>1. run' = [run EXCEPT ![r] = e]
    BY <1>0, <1>11 DEF ConfirmFails, FkTypeOK, FkRecords
  <2>2. run[r].exit = "none"
    BY <1>0 DEF RunOK, ClaimOK, Publishing
  <2>3. e \in FkRecords /\ e.pc = "undo" /\ e.exit = "none" /\ e.claim = run[r].claim
        /\ e.commit = run[r].commit /\ e.pre = run[r].pre
    BY <1>0, <2>2 DEF FkRecords, Publishing
  <2> HIDE DEF e
  <2>4. run'[r] = e
    BY <1>0, <2>1 DEF FkTypeOK
  <2>5. dest' = dest /\ temp' = temp /\ dest.of = r /\ temp[r] = "own" /\ (dirSame => fkFaults' > 0)
    BY <1>0, <1>11 DEF ConfirmFails, CallsFail, Reached, RunOK, PublishedOK, FkTypeOK
  <2>6. PublishedOK(r)'
    BY <1>0, <2>3, <2>4, <2>5 DEF PublishedOK
  <2> QED BY <1>6, <2>1, <2>3, <2>6
<1> QED BY <1>7, <1>8, <1>9, <1>10, <1>11

(* The host, and others on it.                                             *)
LEMMA HostMoves ==
  ASSUME FkIInv, \/ \E r \in Campaigns : WorkloadKilled(r) \/ SmokeEnds(r)
                 \/ DetectedOther \/ Elsewhere
  PROVE  FkIInv'
<1>1. /\ UNCHANGED <<offer, install, workspace, assets, run, temp, fkFaults>>
      /\ FkTypeOK /\ InstalledOK
  BY DEF FkIInv, WorkloadKilled, SmokeEnds, DetectedOther, Elsewhere, hostVars, pubVars
<1>2. /\ UNCHANGED dest \/ (dest.of = "none" /\ dest'.of = "foreign")
      /\ dirSame' \in BOOLEAN /\ (dirSame' => dirSame)
  <2>1. UNCHANGED <<dest, dirSame>> \/ Elsewhere
    BY DEF WorkloadKilled, SmokeEnds, DetectedOther, pubVars
  <2>2. CASE UNCHANGED <<dest, dirSame>>
    BY <1>1, <2>2 DEF FkTypeOK
  <2>3. CASE Elsewhere /\ dest' = dest
    <3>1. dirSame' = dirSame \/ dirSame' = FALSE
      BY <2>3 DEF Elsewhere
    <3>2. dirSame \in BOOLEAN
      BY <1>1 DEF FkTypeOK
    <3>3. dirSame' \in BOOLEAN /\ (dirSame' => dirSame)
      <4>1. CASE dirSame' = dirSame
        BY <3>2, <4>1
      <4>2. CASE dirSame' = FALSE
        BY <4>2
      <4> QED BY <3>1, <4>1, <4>2
    <3> QED BY <2>3, <3>3
  <2>4. CASE Elsewhere /\ dest' # dest
    BY <1>1, <2>4 DEF Elsewhere, Free, Foreign, FkTypeOK
  <2> QED BY <2>1, <2>2, <2>3, <2>4
<1>3. /\ smoke' \in [Campaigns -> {"none", "running", "terminated", "ended"}]
      /\ receipts' \subseteq Campaigns \cup {"other"}
      /\ \A q \in Campaigns : smoke'[q] = smoke[q] \/ smoke'[q] # "running"
  BY <1>1 DEF WorkloadKilled, SmokeEnds, DetectedOther, Elsewhere, hostVars, FkTypeOK
<1>4. FkTypeOK' /\ InstalledOK'
  BY <1>1, <1>2, <1>3 DEF FkTypeOK, InstalledOK
<1>5. \A q \in Campaigns : Spares(q)
  BY <1>1, <1>2, <1>3, FkAssumption DEF Spares, FkTypeOK
<1> QED BY <1>4, <1>5, NoRunMoves

(* What a run claims, holds and has published is so at each of its steps,  *)
(* although others install, remove and publish beside it: first_kill.py    *)
(* keeps all of it, whichever of its calls fail.                           *)
THEOREM FkInvariance == FkSpec => []FkIInv
<1>1. FkIInv /\ [FkNext]_fkVars => FkIInv'
  <2>1. FkIInv /\ UNCHANGED fkVars => FkIInv'
    <3> SUFFICES ASSUME FkIInv, UNCHANGED fkVars PROVE FkIInv'
      OBVIOUS
    <3>1. FkTypeOK' /\ InstalledOK'
      BY DEF FkIInv, FkTypeOK, InstalledOK, fkVars, hostVars, pubVars
    <3>2. \A q \in Campaigns : Spares(q)
      BY DEF FkIInv, FkTypeOK, Spares, fkVars, hostVars, pubVars
    <3> QED BY <3>1, <3>2, NoRunMoves
  <2> QED BY <2>1, RunFails, FirstSteps, RunInstalls, SmokeSteps, RemovalSteps, RunSweeps,
             PublicationSteps,
             LinkSteps, PublicationEnds, HostMoves DEF FkNext
<1> QED BY FkStarts, <1>1, PTL DEF FkSpec

(* What a run says of the host is so, for any runs that share it.          *)
LEMMA FkClaims == FkIInv => ClaimsAreTrue
<1> SUFFICES ASSUME FkIInv PROVE ClaimsAreTrue
  OBVIOUS
<1>1. ASSUME NEW r \in Campaigns PROVE RunOK(r)
  BY DEF FkIInv
<1>2. ASSUME NEW r \in Campaigns, IsOf(dest, r), dest.disposition = "RETAINED"
      PROVE  install.of = r /\ install.is = "full" /\ install.bundle = dest.commit
  BY <1>1, <1>2 DEF FkIInv, InstalledOK, RunOK, DocumentOK, HoldsInstall, IsOf
<1> QED BY <1>1, <1>2 DEF ClaimsAreTrue, RunOK, PlaceOK, DocumentOK, HoldsInstall, IsOf, Reached

LEMMA FkHolds == FkSpec => []ClaimsAreTrue /\ AssetsUntouched /\ PublishedOnce
<1>1. FkIInv /\ [FkNext]_fkVars => [assets = "foreign" => assets' = "foreign"]_fkVars
  <2> SUFFICES ASSUME FkIInv, FkNext, assets = "foreign", assets' # "foreign" PROVE FALSE
    BY DEF fkVars, hostVars
  <2>1. PICK r \in Campaigns : Sweep(r)
    BY DEF FkNext, CheckHost, PrepareWorkspace, VerifyRelease, Install, PrepareAssets,
           StartWorkload,
           WorkloadKilled, SmokeEnds, Watch, Removal, VerifyGone, Build, CreateTemporary,
           WriteTemporary, LookAgain, Link, Confirm, PublicationFails, ConfirmFails, Undo, Interrupt, FailsAt, DetectedOther,
           Elsewhere, hostVars
  <2> QED BY <2>1 DEF Sweep, FkIInv, RunOK, PlaceOK, Reached
<1>2. FkIInv /\ [FkNext]_fkVars =>
        [dest # Free /\ dest' # dest =>
           dest' = Free /\ \E r \in Campaigns : IsOf(dest, r) /\ Reached(r, "undo")]_fkVars
  BY DEF FkNext, CheckHost, PrepareWorkspace, VerifyRelease, Install, PrepareAssets, StartWorkload,
         WorkloadKilled, SmokeEnds, Watch, Removal, Sweep, VerifyGone, Build, CreateTemporary,
         WriteTemporary, LookAgain, Link, Confirm, PublicationFails, ConfirmFails, Undo, Interrupt, FailsAt, DetectedOther,
         Elsewhere, hostVars, pubVars, fkVars
<1>3. FkIInv => \A r \in Campaigns :
        /\ run[r].exit = "done" => IsOf(dest, r) /\ temp[r] = "none"
        /\ run[r].exit = "reported" /\ dirSame /\ fkFaults <= 1 => ~IsOf(dest, r)
        /\ run[r].exit \in {"reported", "interrupted"} /\ dirSame => temp[r] # "own"
  BY DEF FkIInv, FkTypeOK, RunOK, PublishedOK, IsOf
<1> QED BY FkInvariance, FkClaims, <1>1, <1>2, <1>3, PTL
        DEF FkSpec, AssetsUntouched, PublishedOnce

-----------------------------------------------------------------------------
(* HostedProof: the helper, and a fork that changes meanwhile.             *)
-----------------------------------------------------------------------------

Dispatching == {"find", "create", "await", "identify", "sync", "refresh", "enable", "active", "dispatch"}
Following == {"watch", "status", "log"}
ReadingRun == {"workflow", "source", "receipt", "reread", "save"}
ResumedSteps == {"repository", "run"} \cup ReadingRun
HelperAnswers == {"none", "refused", "dispatched", "unresolved", "unanswered", "failed", "passed", "verified"}
AttemptEnds == {"failed", "receipt", "other"}
GithubRuns == [title : {"manual", "ours"}, commit : Commits, fit : BOOLEAN,
               attempts : Seq({"running"} \cup AttemptEnds), listed : BOOLEAN]

HostedTypeOK ==
  /\ tips \in [Branches -> Commits] /\ upstream \in Commits /\ default \in Branches
  /\ branch \in Branches /\ runs \in Seq(GithubRuns) /\ moved \in BOOLEAN
  /\ helper \in Dispatching \cup {"lookup", "done"} \cup Following \cup ResumedSteps
  /\ link \in Nat /\ resumes \in Nat /\ said \in HelperAnswers

(* A run has an attempt, and a receipt only of a workflow that makes one.  *)
AttemptsOK(r) ==
  /\ Len(r.attempts) > 0
  /\ \A k \in DOMAIN r.attempts :
       r.attempts[k] = "receipt" => r.commit = "altered" \/ (r.commit = "reviewed" /\ r.fit)
RunsOK == \A i \in DOMAIN runs : AttemptsOK(runs[i])

(* Which run the helper is linked to.                                      *)
LinkOK ==
  /\ link = 0 \/ link \in DOMAIN runs
  /\ helper \in Dispatching \cup {"lookup"} => link = 0
  /\ helper \in Following \cup ResumedSteps => link # 0
  /\ helper \in Dispatching \cup {"lookup"} \cup Following => resumes = 0
  /\ helper \in ResumedSteps => resumes > 0
  /\ resumes = 0 /\ link # 0 => runs[link].title = "ours"
  /\ said \in {"passed", "verified"} => link # 0
  /\ helper # "done" => said = "none"

(* What was dispatched.                                                    *)
IsOurs(i) == runs[i].title = "ours"
OursOK ==
  /\ \A i \in DOMAIN runs : IsOurs(i) => ReviewedWorkflow(runs[i].commit) \/ moved
  /\ helper \in Dispatching \/ (resumes = 0 /\ said = "refused" /\ link = 0)
       => \A i \in DOMAIN runs : ~IsOurs(i)
  /\ helper \in {"enable", "active", "dispatch"} => ReviewedWorkflow(tips[branch]) \/ moved

(* What was read of the run.                                               *)
Attempted(r, k, end) == k \in DOMAIN r.attempts /\ r.attempts[k] = end /\ end \in AttemptEnds
SnapshotOK ==
  /\ helper = "log" => \E k \in Nat : Attempted(runs[link], k, snapshot.end)
  /\ said = "passed" => \E k \in Nat : \E e \in {"receipt", "other"} : Attempted(runs[link], k, e)
  /\ helper \in ReadingRun \/ said = "verified" =>
       snapshot.commit = runs[link].commit /\ Attempted(runs[link], snapshot.attempt, snapshot.end)
  /\ helper \in ReadingRun \ {"workflow"} \/ said = "verified" => ReviewedWorkflow(snapshot.commit)
  /\ helper \in {"receipt", "reread", "save"} \/ said = "verified" => snapshot.commit = "reviewed"
  /\ helper \in {"reread", "save"} \/ said = "verified" => snapshot.end = "receipt"

HostedIInv == HostedTypeOK /\ RunsOK /\ LinkOK /\ OursOK /\ SnapshotOK

LEMMA HostedStarts == HostedInit => HostedIInv
<1> SUFFICES ASSUME HostedInit PROVE HostedIInv
  OBVIOUS
<1>1. OwnersRun \in GithubRuns /\ OwnersRun.title = "manual" /\ AttemptsOK(OwnersRun)
  BY DEF OwnersRun, GithubRuns, Commits, AttemptEnds, AttemptsOK
<1>2. runs \in Seq(GithubRuns) /\ RunsOK /\ \A i \in DOMAIN runs : ~IsOurs(i)
  <2>1. CASE runs = <<>>
    BY <2>1 DEF RunsOK
  <2>2. CASE runs = <<OwnersRun>>
    <3>1. DOMAIN runs = {1} /\ runs[1] = OwnersRun
      BY <2>2
    <3> QED BY <1>1, <2>2, <3>1 DEF RunsOK, IsOurs
  <2> QED BY <2>1, <2>2 DEF HostedInit
<1>3. tips \in [Branches -> Commits]
  BY DEF HostedInit, Commits
<1>4. HostedTypeOK
  BY <1>2, <1>3 DEF HostedInit, HostedTypeOK, Commits, Branches, Dispatching, HelperAnswers
<1>5. LinkOK /\ OursOK /\ SnapshotOK
  BY <1>2 DEF HostedInit, LinkOK, OursOK, SnapshotOK, Following, ResumedSteps, ReadingRun
<1> QED BY <1>2, <1>4, <1>5 DEF HostedIInv

-----------------------------------------------------------------------------
(* What is known of the runs is still so after every step.                 *)
RunsGrow ==
  /\ runs' \in Seq(GithubRuns) /\ RunsOK' /\ DOMAIN runs \subseteq DOMAIN runs'
  /\ \A i \in DOMAIN runs :
       /\ runs'[i].title = runs[i].title /\ runs'[i].commit = runs[i].commit
       /\ \A k, e : Attempted(runs[i], k, e) => Attempted(runs'[i], k, e)

LEMMA RunAppended ==
  ASSUME HostedTypeOK, RunsOK, NEW t \in {"manual", "ours"}, NEW b \in Branches,
         runs' = Append(runs, NewRun(t, b))
  PROVE  /\ RunsGrow /\ DOMAIN runs' = DOMAIN runs \cup {Len(runs) + 1}
         /\ runs'[Len(runs) + 1].title = t /\ runs'[Len(runs) + 1].commit = tips[b]
         /\ Len(runs) + 1 # 0 /\ Len(runs) + 1 \in Nat
<1> DEFINE r == NewRun(t, b)
<1>1. tips[b] \in Commits /\ (b = default) \in BOOLEAN
  BY DEF HostedTypeOK
<1>2. r \in GithubRuns /\ AttemptsOK(r) /\ r.title = t /\ r.commit = tips[b]
  BY <1>1 DEF NewRun, GithubRuns, AttemptsOK
<1>3. runs \in Seq(GithubRuns)
  BY DEF HostedTypeOK
<1> HIDE DEF r
<1>4. /\ runs' \in Seq(GithubRuns) /\ DOMAIN runs' = DOMAIN runs \cup {Len(runs) + 1}
      /\ runs'[Len(runs) + 1] = r /\ \A i \in DOMAIN runs : runs'[i] = runs[i]
  BY <1>2, <1>3 DEF r
<1>5. RunsOK'
  BY <1>2, <1>4 DEF RunsOK
<1>6. RunsGrow
  BY <1>4, <1>5 DEF RunsGrow
<1> QED BY <1>2, <1>3, <1>4, <1>6

LEMMA RunEdited ==
  ASSUME HostedTypeOK, RunsOK, NEW i \in DOMAIN runs, NEW r \in GithubRuns,
         runs' = [runs EXCEPT ![i] = r], r.title = runs[i].title, r.commit = runs[i].commit,
         AttemptsOK(r), \A k, e : Attempted(runs[i], k, e) => Attempted(r, k, e)
  PROVE  RunsGrow /\ DOMAIN runs' = DOMAIN runs
<1>1. runs \in Seq(GithubRuns)
  BY DEF HostedTypeOK
<1>2. /\ runs' \in Seq(GithubRuns) /\ DOMAIN runs' = DOMAIN runs /\ runs'[i] = r
      /\ \A j \in DOMAIN runs : j # i => runs'[j] = runs[j]
  BY <1>1
<1>3. RunsOK'
  BY <1>2 DEF RunsOK
<1> QED BY <1>2, <1>3 DEF RunsGrow

(* GitHub's steps, and those of others.                                    *)
LEMMA AttemptChanges ==
  ASSUME HostedTypeOK, RunsOK, NEW i \in DOMAIN runs, WorkflowEnds(i) \/ Rerun(i) \/ RunListed(i)
  PROVE  RunsGrow /\ DOMAIN runs' = DOMAIN runs
<1> DEFINE r == runs[i]
<1> DEFINE a == r.attempts
<1>1. r \in GithubRuns /\ AttemptsOK(r) /\ a \in Seq({"running"} \cup AttemptEnds) /\ Len(a) \in Nat
      /\ Len(a) > 0
  <2>1. r \in GithubRuns /\ AttemptsOK(r)
    BY DEF HostedTypeOK, RunsOK
  <2> HIDE DEF r
  <2>2. a \in Seq({"running"} \cup AttemptEnds)
    BY <2>1 DEF GithubRuns
  <2>3. Len(a) > 0
    BY <2>1 DEF AttemptsOK
  <2> HIDE DEF a
  <2> QED BY <2>1, <2>2, <2>3
<1>2. CASE RunListed(i)
  <2> DEFINE s == [r EXCEPT !.listed = TRUE]
  <2>1. runs' = [runs EXCEPT ![i] = s]
    BY <1>2 DEF RunListed, HostedTypeOK
  <2>2. s \in GithubRuns /\ s.title = r.title /\ s.commit = r.commit /\ s.attempts = a
        /\ s.fit = r.fit
    BY <1>1 DEF GithubRuns
  <2> HIDE DEF s
  <2>3. AttemptsOK(s) /\ \A k, e : Attempted(r, k, e) => Attempted(s, k, e)
    BY <1>1, <2>2 DEF AttemptsOK, Attempted
  <2> QED BY <2>1, <2>2, <2>3, RunEdited
<1>3. CASE Rerun(i)
  <2> DEFINE b == Append(a, "running")
  <2> DEFINE s == [r EXCEPT !.attempts = b]
  <2>1. runs' = [runs EXCEPT ![i] = s]
    BY <1>3 DEF Rerun, HostedTypeOK
  <2>2. b \in Seq({"running"} \cup AttemptEnds) /\ Len(b) = Len(a) + 1 /\ b[Len(a) + 1] = "running"
        /\ \A k \in 1 .. Len(a) : b[k] = a[k]
    BY <1>1
  <2> HIDE DEF b
  <2>3. s \in GithubRuns /\ s.title = r.title /\ s.commit = r.commit /\ s.attempts = b
        /\ s.fit = r.fit
    BY <1>1, <2>2 DEF GithubRuns
  <2> HIDE DEF s
  <2>4. DOMAIN b = 1 .. Len(a) + 1 /\ DOMAIN a = 1 .. Len(a)
    BY <1>1, <2>2
  <2> HIDE DEF a
  <2>5. AttemptsOK(s)
    <3>1. \A k \in DOMAIN b : b[k] = "receipt" => k \in DOMAIN a /\ a[k] = "receipt"
      BY <1>1, <2>2, <2>4
    <3> QED BY <1>1, <2>2, <2>3, <3>1 DEF AttemptsOK, a
  <2>6. \A k, e : Attempted(r, k, e) => Attempted(s, k, e)
    BY <1>1, <2>2, <2>3, <2>4 DEF Attempted, a
  <2> QED BY <2>1, <2>3, <2>5, <2>6, RunEdited
<1>4. CASE WorkflowEnds(i)
  <2>1. PICK e \in Ends(r) : runs' = [runs EXCEPT ![i].attempts[Len(runs[i].attempts)] = e]
    BY <1>4 DEF WorkflowEnds
  <2>2. e \in AttemptEnds /\ (e = "receipt" => r.commit = "altered" \/ (r.commit = "reviewed" /\ r.fit))
    BY <1>1 DEF Ends, AttemptEnds, GithubRuns, Commits
  <2> DEFINE b == [a EXCEPT ![Len(a)] = e]
  <2> DEFINE s == [r EXCEPT !.attempts = b]
  <2>3. runs' = [runs EXCEPT ![i] = s]
    BY <2>1 DEF HostedTypeOK
  <2>4. a[Len(a)] = "running"
    BY <1>4 DEF WorkflowEnds, Finished, LastEnd
  <2>5. b \in Seq({"running"} \cup AttemptEnds) /\ Len(b) = Len(a) /\ b[Len(a)] = e
        /\ \A k \in 1 .. Len(a) : k # Len(a) => b[k] = a[k]
    BY <1>1, <2>2
  <2> HIDE DEF b
  <2>6. s \in GithubRuns /\ s.title = r.title /\ s.commit = r.commit /\ s.attempts = b
        /\ s.fit = r.fit
    BY <1>1, <2>5 DEF GithubRuns
  <2> HIDE DEF s
  <2>7. DOMAIN b = 1 .. Len(a) /\ DOMAIN a = 1 .. Len(a)
    BY <1>1, <2>5
  <2> HIDE DEF a
  <2>8. AttemptsOK(s)
    <3>1. \A k \in DOMAIN b : b[k] = "receipt" => e = "receipt" \/ (k \in DOMAIN a /\ a[k] = "receipt")
      BY <2>5, <2>7
    <3> QED BY <1>1, <2>2, <2>5, <2>6, <3>1 DEF AttemptsOK, a
  <2>9. \A k, x : Attempted(r, k, x) => Attempted(s, k, x)
    BY <2>4, <2>5, <2>6, <2>7 DEF Attempted, a, AttemptEnds
  <2> QED BY <2>3, <2>6, <2>8, <2>9, RunEdited
<1> QED BY <1>2, <1>3, <1>4

(* A step that the helper has no part in.                                  *)
LEMMA HelperRests ==
  ASSUME HostedIInv, UNCHANGED helperOf, RunsGrow, \A i \in DOMAIN runs' \ DOMAIN runs : ~IsOurs(i)',
         tips' \in [Branches -> Commits], upstream' \in Commits, default' \in Branches,
         moved' = TRUE \/ UNCHANGED <<moved, tips>>
  PROVE  HostedIInv'
<1> USE DEF HostedIInv
<1>1. HostedTypeOK' /\ RunsOK'
  BY DEF RunsGrow, HostedTypeOK, helperOf
<1>2. LinkOK'
  BY DEF RunsGrow, LinkOK, helperOf
<1>3. OursOK'
  <2>1. \A i \in DOMAIN runs' : IsOurs(i)' => i \in DOMAIN runs /\ IsOurs(i) /\ runs'[i].commit = runs[i].commit
    BY DEF RunsGrow, IsOurs
  <2> QED BY <2>1 DEF OursOK, helperOf, LinkOK
<1>4. link # 0 => /\ runs'[link].commit = runs[link].commit
                  /\ \A k, e : Attempted(runs[link], k, e) => Attempted(runs'[link], k, e)
  BY DEF RunsGrow, LinkOK
<1>5. SnapshotOK'
  BY <1>4 DEF SnapshotOK, LinkOK, helperOf, Following, ResumedSteps
<1> QED BY <1>1, <1>2, <1>3, <1>5

LEMMA RunsStay ==
  ASSUME HostedTypeOK, RunsOK, runs' = runs PROVE RunsGrow
BY DEF RunsGrow, HostedTypeOK, RunsOK

LEMMA GithubActs ==
  ASSUME HostedIInv,
         \/ ForkReady \/ ChangeDefault \/ DispatchByHand
         \/ \E b \in Branches, c \in {"reviewed", "altered", "patched"} : Push(b, c)
         \/ \E i \in DOMAIN runs : WorkflowEnds(i) \/ RunListed(i) \/ Rerun(i)
  PROVE  HostedIInv'
<1>0. HostedTypeOK /\ RunsOK
  BY DEF HostedIInv
<1>1. UNCHANGED <<helperOf, upstream>>
  BY DEF ForkReady, ChangeDefault, DispatchByHand, Push, WorkflowEnds, RunListed, Rerun, Other
<1>2. CASE ForkReady \/ ChangeDefault
  <2>1. runs' = runs /\ UNCHANGED <<moved, tips>> /\ default' \in Branches
    BY <1>0, <1>2 DEF ForkReady, ChangeDefault, HostedTypeOK
  <2> QED BY <1>0, <1>1, <2>1, RunsStay, HelperRests DEF HostedTypeOK
<1>3. CASE DispatchByHand
  <2>1. RunsGrow /\ DOMAIN runs' = DOMAIN runs \cup {Len(runs) + 1} /\ runs'[Len(runs) + 1].title = "manual"
    BY <1>0, <1>3, RunAppended DEF DispatchByHand, HostedTypeOK
  <2>2. UNCHANGED <<moved, tips, default>>
    BY <1>3 DEF DispatchByHand
  <2> QED BY <1>0, <1>1, <2>1, <2>2, HelperRests DEF HostedTypeOK, IsOurs
<1>4. CASE \E b \in Branches, c \in {"reviewed", "altered", "patched"} : Push(b, c)
  <2>1. runs' = runs /\ moved' = TRUE /\ default' = default /\ tips' \in [Branches -> Commits]
    BY <1>0, <1>4 DEF Push, HostedTypeOK, Commits
  <2> QED BY <1>0, <1>1, <2>1, RunsStay, HelperRests DEF HostedTypeOK
<1>5. CASE \E i \in DOMAIN runs : WorkflowEnds(i) \/ RunListed(i) \/ Rerun(i)
  <2>1. RunsGrow /\ DOMAIN runs' = DOMAIN runs
    BY <1>0, <1>5, AttemptChanges
  <2>2. UNCHANGED <<moved, tips, default>>
    BY <1>5 DEF WorkflowEnds, RunListed, Rerun
  <2> QED BY <1>0, <1>1, <2>1, <2>2, HelperRests DEF HostedTypeOK
<1> QED BY <1>2, <1>3, <1>4, <1>5

-----------------------------------------------------------------------------
(* The helper: it goes on before a dispatch, gives up, or follows a run.   *)
GithubTyped == tips' \in [Branches -> Commits] /\ upstream' \in Commits /\ default' \in Branches

LEMMA HelperGoesOn ==
  ASSUME HostedIInv, helper \in Dispatching, helper' \in Dispatching, runs' = runs, GithubTyped,
         moved' \in BOOLEAN, branch' \in Branches, UNCHANGED <<link, snapshot, said, resumes>>,
         helper' \in {"enable", "active", "dispatch"} => ReviewedWorkflow(tips'[branch']) \/ moved'
  PROVE  HostedIInv'
<1> USE DEF HostedIInv
<1>1. HostedTypeOK' /\ RunsOK'
  BY DEF HostedTypeOK, GithubTyped, RunsOK
<1>2. LinkOK' /\ SnapshotOK'
  BY DEF LinkOK, SnapshotOK, Dispatching, Following, ResumedSteps, ReadingRun
<1>3. OursOK'
  BY DEF OursOK, IsOurs, Dispatching, LinkOK
<1> QED BY <1>1, <1>2, <1>3

LEMMA HelperRefuses ==
  ASSUME HostedIInv, helper \in Dispatching \cup Following \cup ResumedSteps, runs' = runs, GithubTyped,
         moved' = moved \/ (helper \in Dispatching /\ moved' \in BOOLEAN), helper' = "done",
         said' = "refused", UNCHANGED <<branch, link, snapshot, resumes>>
  PROVE  HostedIInv'
<1> USE DEF HostedIInv
<1>1. HostedTypeOK' /\ RunsOK'
  BY DEF HostedTypeOK, GithubTyped, RunsOK, HelperAnswers
<1>2. LinkOK' /\ SnapshotOK'
  BY DEF LinkOK, SnapshotOK, Dispatching, Following, ResumedSteps, ReadingRun
<1>3. OursOK'
  BY DEF OursOK, IsOurs, Dispatching, LinkOK, ResumedSteps, Following
<1> QED BY <1>1, <1>2, <1>3

LEMMA ConcludesRefused ==
  ASSUME HostedIInv, helper \in Dispatching \cup Following \cup ResumedSteps, runs' = runs,
         GithubTyped, moved' = moved \/ (helper \in Dispatching /\ moved' \in BOOLEAN),
         Concludes("refused")
  PROVE  HostedIInv'
BY HelperRefuses DEF Concludes

(* A step after which the helper has read, or said, more of its run.       *)
LEMMA HelperReads ==
  ASSUME HostedIInv, helper \in Following \cup ResumedSteps, UNCHANGED <<githubOf, branch, link, resumes>>,
         \/ helper' \in Following /\ helper \in Following
         \/ helper' \in ResumedSteps /\ helper \in ResumedSteps
         \/ helper' = "done",
         said' \in HelperAnswers \ {"refused"}, helper' # "done" => said' = "none",
         SnapshotOK'
  PROVE  HostedIInv'
<1> USE DEF HostedIInv, githubOf
<1>1. HostedTypeOK' /\ RunsOK'
  BY DEF HostedTypeOK, RunsOK
<1>2. LinkOK'
  BY DEF LinkOK, Dispatching, Following, ResumedSteps, ReadingRun
<1>3. OursOK'
  BY DEF OursOK, IsOurs, Dispatching, Following, ResumedSteps, ReadingRun, LinkOK
<1> QED BY <1>1, <1>2, <1>3

LEMMA GithubStaysTyped == ASSUME HostedIInv, UNCHANGED <<tips, upstream, default>> PROVE GithubTyped
BY DEF HostedIInv, HostedTypeOK, GithubTyped

LEMMA MetadataParsed ==
  ASSUME HostedIInv, helper \in {"find", "await"}, ParseMetadata, GithubStays PROVE HostedIInv'
<1>1. UNCHANGED <<runs, moved>> /\ GithubTyped
  BY GithubStaysTyped DEF GithubStays, githubOf
<1>2. CASE fork = "fork"
  BY <1>1, <1>2, HelperGoesOn DEF ParseMetadata, HostedIInv, HostedTypeOK, Dispatching
<1>3. CASE fork # "fork"
  BY <1>1, <1>3, ConcludesRefused DEF ParseMetadata, Dispatching
<1> QED BY <1>2, <1>3

LEMMA NotReadyYet ==
  ASSUME HostedIInv, helper = "await", NotReady, UNCHANGED githubOf PROVE HostedIInv'
<1>1. UNCHANGED <<runs, moved>> /\ GithubTyped
  BY GithubStaysTyped DEF githubOf
<1>2. CASE Concludes("refused")
  BY <1>1, <1>2, ConcludesRefused DEF Dispatching
<1>3. CASE ~Concludes("refused")
  BY <1>1, <1>3, HelperGoesOn DEF NotReady, HostedIInv, HostedTypeOK, Dispatching
<1> QED BY <1>2, <1>3

(* A fork that is made is of the upstream's commit.                        *)
LEMMA ForkTyped ==
  ASSUME HostedIInv, Forked \/ UNCHANGED <<fork, tips>> PROVE tips' \in [Branches -> Commits]
BY DEF Forked, HostedIInv, HostedTypeOK

LEMMA HelperPrepares ==
  ASSUME HostedIInv, \/ ForkMetadata \/ CreateFork \/ AwaitFork \/ WorkflowIdentity \/ SyncFork
                     \/ RefreshMetadata \/ EnableWorkflow \/ WorkflowActive
  PROVE  HostedIInv'
<1>0. HostedTypeOK /\ RunsOK /\ OursOK
  BY DEF HostedIInv
<1>1. CASE ForkMetadata
  <2>1. CASE Described
    BY <1>1, <2>1, MetadataParsed DEF ForkMetadata, At
  <2>2. CASE ~Described
    <3>1. UNCHANGED <<runs, moved>> /\ GithubTyped
      BY <1>1, GithubStaysTyped DEF ForkMetadata, GithubStays, githubOf
    <3> QED BY <1>0, <1>1, <2>2, <3>1, HelperGoesOn
            DEF ForkMetadata, At, Goes, HostedTypeOK, Dispatching
  <2> QED BY <2>1, <2>2
<1>2. CASE CreateFork
  <2>1. GithubTyped /\ UNCHANGED <<runs, moved>>
    BY <1>0, <1>2, ForkTyped DEF CreateFork, GithubTyped, HostedTypeOK
  <2> QED BY <1>0, <1>2, <2>1, HelperGoesOn DEF CreateFork, At, Goes, HostedTypeOK, Dispatching
<1>3. CASE AwaitFork
  BY <1>3, MetadataParsed, NotReadyYet DEF AwaitFork, At, GithubStays
<1>4. CASE WorkflowIdentity
  <2>1. GithubTyped /\ runs' = runs /\ moved' = FALSE
    BY <1>4, GithubStaysTyped DEF WorkflowIdentity
  <2>2. CASE Concludes("refused")
    BY <1>4, <2>1, <2>2, ConcludesRefused DEF WorkflowIdentity, At, Dispatching
  <2>3. CASE Identified /\ Goes("enable")
    <3>1. ReviewedWorkflow(tips'[branch'])
      BY <1>4, <2>3 DEF WorkflowIdentity, Identified, Goes
    <3> QED BY <1>0, <1>4, <2>1, <2>3, <3>1, HelperGoesOn
            DEF WorkflowIdentity, At, Goes, HostedTypeOK, Dispatching
  <2>4. CASE Goes("sync")
    BY <1>0, <1>4, <2>1, <2>4, HelperGoesOn DEF WorkflowIdentity, At, Goes, HostedTypeOK,
                                                Dispatching
  <2> QED BY <1>4, <2>2, <2>3, <2>4 DEF WorkflowIdentity
<1>5. CASE SyncFork
  <2>1. GithubTyped /\ UNCHANGED <<runs, moved>>
    BY <1>0, <1>5 DEF SyncFork, GithubTyped, HostedTypeOK
  <2>2. CASE Concludes("refused")
    BY <1>5, <2>1, <2>2, ConcludesRefused DEF SyncFork, At, Dispatching
  <2>3. CASE Goes("refresh")
    BY <1>0, <1>5, <2>1, <2>3, HelperGoesOn DEF SyncFork, At, Goes, HostedTypeOK, Dispatching
  <2> QED BY <1>5, <2>2, <2>3 DEF SyncFork
<1>6. CASE RefreshMetadata
  <2>1. UNCHANGED <<runs, moved>> /\ GithubTyped
    BY <1>6, GithubStaysTyped DEF RefreshMetadata, GithubStays, githubOf
  <2>2. CASE fork = "fork" /\ default = branch
    BY <1>0, <1>6, <2>1, <2>2, HelperGoesOn DEF RefreshMetadata, At, HostedTypeOK, Dispatching
  <2>3. CASE ~(fork = "fork" /\ default = branch)
    BY <1>6, <2>1, <2>3, ConcludesRefused DEF RefreshMetadata, At, Dispatching
  <2> QED BY <2>2, <2>3
<1>7. CASE EnableWorkflow \/ WorkflowActive
  <2>1. UNCHANGED <<runs, moved, tips>> /\ GithubTyped /\ helper \in {"enable", "active"}
    BY <1>7, GithubStaysTyped DEF EnableWorkflow, WorkflowActive, Checks, GithubStays, githubOf, At
  <2>2. CASE Goes("dispatch")
    <3>1. ReviewedWorkflow(tips'[branch']) \/ moved'
      BY <1>0, <2>1, <2>2 DEF OursOK, Goes
    <3> QED BY <1>0, <2>1, <2>2, <3>1, HelperGoesOn DEF Goes, HostedTypeOK, Dispatching
  <2>3. CASE Concludes("refused")
    BY <2>1, <2>3, ConcludesRefused DEF Dispatching
  <2> QED BY <1>7, <2>2, <2>3 DEF EnableWorkflow, WorkflowActive, Checks
<1> QED BY <1>1, <1>2, <1>3, <1>4, <1>5, <1>6, <1>7

(* The dispatch, answered or not, and the search for its run.              *)
LEMMA DispatchMade ==
  ASSUME HostedIInv, helper = "dispatch", Accepted,
         UNCHANGED <<branch, snapshot, resumes>>,
         \/ /\ link' = Len(runs) + 1
            /\ (helper' = "watch" /\ said' = said) \/ (helper' = "done" /\ said' = "dispatched")
         \/ link' = link /\ helper' = "lookup" /\ said' = said
         \/ link' = link /\ helper' = "done" /\ said' = "unanswered"
  PROVE  HostedIInv'
<1> USE DEF HostedIInv
<1>0. HostedTypeOK /\ RunsOK /\ LinkOK /\ OursOK /\ branch \in Branches
      /\ UNCHANGED <<tips, moved, upstream, default>>
  BY DEF HostedTypeOK, Accepted
<1>1. /\ RunsGrow /\ DOMAIN runs' = DOMAIN runs \cup {Len(runs) + 1}
      /\ runs'[Len(runs) + 1].title = "ours" /\ runs'[Len(runs) + 1].commit = tips[branch]
      /\ Len(runs) + 1 # 0 /\ Len(runs) + 1 \in Nat
  BY <1>0, RunAppended DEF Accepted
<1>2. link = 0 /\ resumes = 0 /\ said = "none" /\ \A i \in DOMAIN runs : ~IsOurs(i)
  BY <1>0 DEF LinkOK, OursOK, Dispatching
<1>3. HostedTypeOK' /\ RunsOK'
  BY <1>0, <1>1, <1>2 DEF HostedTypeOK, RunsGrow, Following, HelperAnswers
<1>4. LinkOK'
  BY <1>1, <1>2 DEF LinkOK, Dispatching, Following, ResumedSteps, ReadingRun
<1>5. OursOK'
  <2>1. ReviewedWorkflow(tips[branch]) \/ moved
    BY <1>0 DEF OursOK
  <2>2. \A i \in DOMAIN runs' : IsOurs(i)' => i = Len(runs) + 1
    BY <1>1, <1>2 DEF RunsGrow, IsOurs
  <2> QED BY <1>0, <1>1, <1>2, <2>1, <2>2 DEF OursOK, Dispatching
<1>6. SnapshotOK'
  BY <1>2 DEF SnapshotOK, ReadingRun
<1> QED BY <1>3, <1>4, <1>5, <1>6

LEMMA SearchGoesOn ==
  ASSUME HostedIInv, helper = "lookup", UNCHANGED githubOf,
         UNCHANGED <<branch, snapshot, resumes>>,
         \/ /\ link' \in DOMAIN runs /\ runs[link'].title = "ours"
            /\ (helper' = "watch" /\ said' = said) \/ (helper' = "done" /\ said' = "dispatched")
         \/ link' = link /\ helper' = "lookup" /\ said' = said
         \/ link' = link /\ helper' = "done" /\ said' = "unresolved"
  PROVE  HostedIInv'
<1> USE DEF HostedIInv, githubOf
<1>1. link = 0 /\ resumes = 0 /\ said = "none"
  BY DEF LinkOK, Dispatching
<1>2. \A i \in DOMAIN runs : i \in Nat /\ i # 0
  BY DEF HostedTypeOK
<1>3. HostedTypeOK' /\ RunsOK'
  BY <1>1, <1>2 DEF HostedTypeOK, RunsOK, Following, HelperAnswers
<1>4. LinkOK'
  BY <1>1, <1>2 DEF LinkOK, Dispatching, Following, ResumedSteps, ReadingRun
<1>5. OursOK'
  BY <1>1 DEF OursOK, IsOurs, Dispatching
<1>6. SnapshotOK'
  BY <1>1 DEF SnapshotOK, ReadingRun
<1> QED BY <1>3, <1>4, <1>5, <1>6

LEMMA HelperDispatches ==
  ASSUME HostedIInv, Dispatch \/ LookUpRun \/ DispatchUnanswered PROVE HostedIInv'
<1>1. CASE Dispatch
  BY <1>1, DispatchMade DEF Dispatch, At, Linked
<1>2. CASE DispatchUnanswered
  BY <1>2, DispatchMade DEF DispatchUnanswered, At, Concludes
<1>3. CASE LookUpRun
  <2>1. CASE \E i \in Candidates : Linked(i)
    BY <1>3, <2>1, SearchGoesOn DEF LookUpRun, At, Linked, Candidates, GithubStays
  <2>2. CASE ~\E i \in Candidates : Linked(i)
    BY <1>3, <2>2, SearchGoesOn DEF LookUpRun, At, NoLink, Concludes, GithubStays
  <2> QED BY <2>1, <2>2
<1> QED BY <1>1, <1>2, <1>3

(* The helper waits for the run that it dispatched.                        *)
LEMMA LastIsOne ==
  ASSUME HostedIInv, link # 0, Finished(link)
  PROVE  \E k \in Nat : Attempted(runs[link], k, LastEnd(link))
<1> DEFINE a == runs[link].attempts
<1>1. link \in DOMAIN runs
  BY DEF HostedIInv, LinkOK
<1>2. a \in Seq({"running"} \cup AttemptEnds) /\ Len(a) > 0
  <2>1. runs[link] \in GithubRuns /\ AttemptsOK(runs[link])
    BY <1>1 DEF HostedIInv, HostedTypeOK, RunsOK
  <2> QED BY <2>1 DEF GithubRuns, AttemptsOK
<1>3. a[Len(a)] # "running"
  BY DEF Finished, LastEnd
<1> HIDE DEF a
<1>4. Len(a) \in DOMAIN a /\ Len(a) \in Nat /\ a[Len(a)] \in AttemptEnds
  BY <1>2, <1>3
<1> QED BY <1>4 DEF Attempted, LastEnd, a

LEMMA HelperWaits ==
  ASSUME HostedIInv, WatchRun \/ RunStatus \/ RunLog PROVE HostedIInv'
<1>0. HostedTypeOK /\ LinkOK /\ SnapshotOK /\ UNCHANGED githubOf /\ helper \in Following
      /\ link # 0 /\ said = "none" /\ GithubTyped
  BY GithubStaysTyped DEF HostedIInv, WatchRun, RunStatus, RunLog, At, GithubStays, Following,
                          LinkOK, githubOf
<1>1. CASE Concludes("refused")
  BY <1>0, <1>1, ConcludesRefused DEF githubOf
<1>2. CASE WatchRun
  <2>1. helper' = "status" /\ UNCHANGED <<branch, link, resumes, said, snapshot>>
    BY <1>2 DEF WatchRun, Goes
  <2>2. SnapshotOK'
    BY <1>0, <2>1 DEF SnapshotOK, ReadingRun, githubOf
  <2> QED BY <1>0, <2>1, <2>2, HelperReads DEF Following, HelperAnswers
<1>3. CASE RunStatus /\ Finished(link)
  <2>1. /\ helper' = "log" /\ UNCHANGED <<branch, link, resumes, said>>
        /\ snapshot'.end = LastEnd(link)
    BY <1>3 DEF RunStatus, NoSnapshot
  <2>2. \E k \in Nat : Attempted(runs[link], k, snapshot'.end)
    BY <1>0, <1>3, <2>1, LastIsOne
  <2>3. SnapshotOK'
    BY <1>0, <2>1, <2>2 DEF SnapshotOK, ReadingRun, githubOf
  <2> QED BY <1>0, <2>1, <2>3, HelperReads DEF Following, HelperAnswers
<1>4. CASE RunLog /\ ~Concludes("refused")
  <2>1. PICK r \in {"failed", "passed"} :
          Concludes(r) /\ (r = "passed" => snapshot.end # "failed")
    BY <1>4 DEF RunLog
  <2>2. helper = "log" /\ \E k \in Nat : Attempted(runs[link], k, snapshot.end)
    BY <1>0, <1>4 DEF RunLog, At, SnapshotOK
  <2>3. r = "passed" =>
          \E k \in Nat : \E e \in {"receipt", "other"} : Attempted(runs[link], k, e)
    BY <2>1, <2>2 DEF Attempted, AttemptEnds
  <2>4. SnapshotOK'
    BY <1>0, <2>1, <2>3 DEF Concludes, SnapshotOK, ReadingRun, githubOf
  <2> QED BY <1>0, <2>1, <2>4, HelperReads DEF Concludes, HelperAnswers
<1> QED BY <1>1, <1>2, <1>3, <1>4 DEF RunStatus

-----------------------------------------------------------------------------
(* A run is resumed by its address.                                        *)
LEMMA HelperBegins == ASSUME HostedIInv, NEW i \in DOMAIN runs, Resume(i) PROVE HostedIInv'
<1> USE DEF HostedIInv
<1>1. /\ UNCHANGED githubOf /\ helper' = "repository" /\ link' = i /\ said' = "none"
      /\ resumes' = resumes + 1 /\ branch' = branch /\ resumes \in Nat
      /\ i \in Nat /\ i # 0
  BY DEF Resume, GithubStays, HostedTypeOK
<1>2. HostedTypeOK' /\ RunsOK'
  BY <1>1 DEF HostedTypeOK, RunsOK, githubOf, ResumedSteps, HelperAnswers
<1>3. LinkOK'
  BY <1>1 DEF LinkOK, githubOf, Dispatching, Following, ResumedSteps
<1>4. OursOK'
  BY <1>1 DEF OursOK, IsOurs, githubOf, Dispatching
<1>5. SnapshotOK'
  BY <1>1 DEF SnapshotOK, ReadingRun
<1> QED BY <1>2, <1>3, <1>4, <1>5

LEMMA SnapshotIsRead ==
  ASSUME HostedIInv, link # 0, LastEnd(link) \in {"receipt", "other"}
  PROVE  Attempted(runs[link], SnapshotOf(link).attempt, SnapshotOf(link).end)
<1> DEFINE a == runs[link].attempts
<1>1. link \in DOMAIN runs
  BY DEF HostedIInv, LinkOK
<1>2. a \in Seq({"running"} \cup AttemptEnds) /\ Len(a) > 0
  <2>1. runs[link] \in GithubRuns /\ AttemptsOK(runs[link])
    BY <1>1 DEF HostedIInv, HostedTypeOK, RunsOK
  <2> QED BY <2>1 DEF GithubRuns, AttemptsOK
<1>3. a[Len(a)] \in {"receipt", "other"}
  BY DEF LastEnd
<1>4. SnapshotOf(link).attempt = Len(a) /\ SnapshotOf(link).end = a[Len(a)]
  BY DEF SnapshotOf, LastEnd
<1> HIDE DEF a
<1>5. Len(a) \in DOMAIN a
  BY <1>2
<1> QED BY <1>3, <1>4, <1>5 DEF Attempted, a, AttemptEnds

LEMMA HelperResumes ==
  ASSUME HostedIInv, \/ ResumeRepository \/ ResumeRun \/ ResumeWorkflow \/ ResumeSource
                     \/ ReceiptFromLog \/ Reread \/ SaveReceipt
  PROVE  HostedIInv'
<1>0. HostedTypeOK /\ LinkOK /\ SnapshotOK /\ UNCHANGED githubOf /\ helper \in ResumedSteps
      /\ link # 0 /\ said = "none" /\ GithubTyped
  BY GithubStaysTyped DEF HostedIInv, ResumeRepository, ResumeRun, ResumeWorkflow, ResumeSource,
                          ReceiptFromLog,
     Reread, SaveReceipt, At, Checks, GithubStays, ResumedSteps, ReadingRun, LinkOK, githubOf
<1>1. CASE Concludes("refused")
  BY <1>0, <1>1, ConcludesRefused DEF githubOf
<1>2. CASE ResumeRepository /\ ~Concludes("refused")
  <2>1. helper' = "run" /\ UNCHANGED <<branch, link, resumes, said, snapshot>>
    BY <1>2 DEF ResumeRepository, Checks, Goes
  <2>2. SnapshotOK'
    BY <1>0, <2>1 DEF SnapshotOK, ReadingRun
  <2> QED BY <1>0, <2>1, <2>2, HelperReads DEF ResumedSteps, HelperAnswers
<1>3. CASE ResumeRun /\ ~Concludes("refused")
  <2>1. /\ helper' = "workflow" /\ UNCHANGED <<branch, link, resumes, said>>
        /\ snapshot' = SnapshotOf(link) /\ LastEnd(link) \in {"receipt", "other"}
    BY <1>3 DEF ResumeRun
  <2>2. Attempted(runs[link], SnapshotOf(link).attempt, SnapshotOf(link).end)
    BY <1>0, <2>1, SnapshotIsRead
  <2>3. SnapshotOf(link).commit = runs[link].commit
    BY DEF SnapshotOf
  <2>4. SnapshotOK'
    BY <1>0, <2>1, <2>2, <2>3 DEF SnapshotOK, ReadingRun, githubOf
  <2> QED BY <1>0, <2>1, <2>4, HelperReads DEF ResumedSteps, ReadingRun, HelperAnswers
<1>4. CASE (ResumeWorkflow \/ ResumeSource \/ ReceiptFromLog) /\ ~Concludes("refused")
  <2>1. PICK l \in {"source", "receipt", "reread"} : Goes(l) /\ helper \in ReadingRun
    BY <1>4 DEF ResumeWorkflow, ResumeSource, ReceiptFromLog, Checks, At, ReadingRun
  <2>2. /\ helper' = l /\ UNCHANGED <<branch, link, resumes, said, snapshot>>
    BY <2>1 DEF Goes
  <2>3. ReviewedWorkflow(snapshot.commit)
    BY <1>0, <1>4 DEF ResumeWorkflow, ResumeSource, ReceiptFromLog, Checks, At, ReadingRun,
       ResumedWorkflow, SnapshotOK
  <2>4. l \in {"receipt", "reread"} => snapshot.commit = "reviewed"
    BY <1>0, <1>4, <2>2, <2>3 DEF ResumeWorkflow, ResumeSource, ReceiptFromLog, Checks, At, Goes,
       ReviewedWorkflow, ReviewedSource, SnapshotOK
  <2>5. l = "reread" => snapshot.end = "receipt"
    BY <1>0, <1>4, <2>1, <2>2 DEF ResumeWorkflow, ResumeSource, ReceiptFromLog, Checks, At, Goes,
       SnapshotOK, Attempted
  <2>6. SnapshotOK'
    BY <1>0, <2>1, <2>2, <2>3, <2>4, <2>5 DEF SnapshotOK, ReadingRun, githubOf
  <2> QED BY <1>0, <2>2, <2>6, HelperReads DEF ResumedSteps, ReadingRun, HelperAnswers
<1>5. CASE (Reread \/ SaveReceipt) /\ ~Concludes("refused")
  <2>1. /\ \/ helper' = "save" /\ said' = said
           \/ helper' = "done" /\ said' = "verified"
        /\ UNCHANGED <<branch, link, resumes, snapshot>> /\ helper \in {"reread", "save"}
    BY <1>5 DEF Reread, SaveReceipt, Goes, Concludes, Saves, At
  <2>2. SnapshotOK'
    BY <1>0, <2>1 DEF SnapshotOK, ReadingRun, githubOf
  <2> QED BY <1>0, <2>1, <2>2, HelperReads DEF ResumedSteps, ReadingRun, HelperAnswers
<1> QED BY <1>1, <1>2, <1>3, <1>4, <1>5

-----------------------------------------------------------------------------
(* Calls that fail.                                                        *)
LEMMA HelperFails ==
  ASSUME HostedIInv, \/ ReadFails \/ ErrorPasses \/ UnansweredFork \/ UnansweredSync
                     \/ UnansweredEnable \/ DispatchRejected \/ SaveFails
  PROVE  HostedIInv'
<1>0. HostedTypeOK /\ OursOK /\ LinkOK
  BY DEF HostedIInv
<1>1. CASE ReadFails \/ DispatchRejected
  <2>1. UNCHANGED githubOf /\ Concludes("refused") /\ helper \in Dispatching \cup Following \cup ResumedSteps
    BY <1>1 DEF ReadFails, DispatchRejected, ReadOnly, Dispatching, Following, ResumedSteps,
                ReadingRun, At
  <2> QED BY <2>1, GithubStaysTyped, ConcludesRefused DEF githubOf
<1>2. CASE UnansweredFork \/ UnansweredSync \/ UnansweredEnable
  <2>1. /\ UNCHANGED <<runs, moved, upstream, default>> /\ Concludes("refused")
        /\ helper \in Dispatching
    BY <1>2 DEF UnansweredFork, UnansweredSync, UnansweredEnable, At, Dispatching
  <2>2. tips' \in [Branches -> Commits]
    <3>1. CASE UnansweredFork
      BY <3>1, ForkTyped DEF UnansweredFork
    <3>2. CASE UnansweredSync
      BY <1>0, <3>2 DEF UnansweredSync, HostedTypeOK
    <3>3. CASE UnansweredEnable
      BY <1>0, <3>3 DEF UnansweredEnable, HostedTypeOK
    <3> QED BY <1>2, <3>1, <3>2, <3>3
  <2> QED BY <1>0, <2>1, <2>2, ConcludesRefused DEF GithubTyped, HostedTypeOK
<1>3. CASE SaveFails
  <2>1. /\ UNCHANGED githubOf /\ helper = "save" /\ helper' = "done" /\ said' = "refused"
        /\ UNCHANGED <<branch, link, snapshot, resumes>>
    BY <1>3 DEF SaveFails, Saves, At
  <2> QED BY <2>1, GithubStaysTyped, HelperRefuses DEF githubOf, ResumedSteps, ReadingRun
<1>4. CASE ErrorPasses
  <2>0. UNCHANGED githubOf /\ UNCHANGED <<runs, moved, tips>> /\ GithubTyped
    BY <1>4, GithubStaysTyped DEF ErrorPasses, githubOf
  <2>1. CASE At("await") /\ NotReady
    BY <2>0, <2>1, NotReadyYet DEF At
  <2>2. CASE At("lookup") /\ NoLink
    BY <2>0, <2>2, SearchGoesOn DEF At, NoLink, Concludes
  <2>3. CASE \E l \in {"create", "await", "sync", "active"} :
               Goes(l) /\ helper \in Dispatching /\ (l = "active" => helper = "enable")
    <3>1. PICK l \in {"create", "await", "sync", "active"} :
            Goes(l) /\ helper \in Dispatching /\ (l = "active" => helper = "enable")
      BY <2>3
    <3>2. l = "active" => ReviewedWorkflow(tips'[branch']) \/ moved'
      BY <1>0, <2>0, <3>1 DEF OursOK, Goes
    <3> QED BY <1>0, <2>0, <3>1, <3>2, HelperGoesOn DEF Goes, HostedTypeOK, Dispatching
  <2> QED BY <1>4, <2>1, <2>2, <2>3 DEF ErrorPasses, At, Dispatching
<1> QED BY <1>1, <1>2, <1>3, <1>4

LEMMA HostedRests == HostedIInv /\ UNCHANGED hostedVars => HostedIInv'
<1> SUFFICES ASSUME HostedIInv, UNCHANGED hostedVars PROVE HostedIInv'
  OBVIOUS
<1>1. runs' = runs /\ UNCHANGED <<helperOf, tips, upstream, default, moved>>
  BY DEF hostedVars, githubOf
<1>2. RunsGrow /\ DOMAIN runs' = DOMAIN runs
  BY <1>1, RunsStay DEF HostedIInv
<1> QED BY <1>1, <1>2, HelperRests DEF HostedIInv, HostedTypeOK

(* Which run the helper is linked to and what it read of it is still so    *)
(* when it acts on it: the helper keeps it, whatever others do to the      *)
(* fork, its branches and its runs between two calls.                      *)
THEOREM HostedInvariance == HostedSpec => []HostedIInv
<1>1. HostedIInv /\ [HostedNext]_hostedVars => HostedIInv'
  BY HostedRests, GithubActs, HelperPrepares, HelperDispatches, HelperWaits, HelperBegins,
     HelperResumes,
     HelperFails DEF HostedNext
<1> QED BY HostedStarts, <1>1, PTL DEF HostedSpec

(* What the helper says is so, and an export is of what was read last.     *)
LEMMA HostedClaims == HostedIInv => HostedClaimsAreTrue
<1> SUFFICES ASSUME HostedIInv PROVE HostedClaimsAreTrue
  OBVIOUS
<1>1. resumes = 0 /\ link # 0 => link \in Ours
  BY DEF HostedIInv, LinkOK, Ours
<1>2. said = "passed" =>
        \E k \in DOMAIN runs[link].attempts : runs[link].attempts[k] \in {"receipt", "other"}
  BY DEF HostedIInv, SnapshotOK, Attempted
<1>3. \A i \in Ours : ReviewedWorkflow(runs[i].commit) \/ moved
  BY DEF HostedIInv, OursOK, Ours, IsOurs
<1>4. resumes = 0 /\ said = "refused" /\ link = 0 => Ours = {}
  BY DEF HostedIInv, OursOK, Ours, IsOurs
<1>5. ASSUME said = "verified"
      PROVE  /\ runs[link].commit = "reviewed" /\ runs[link].fit
             /\ runs[link].attempts[snapshot.attempt] = "receipt"
  <2>1. link \in DOMAIN runs
    BY <1>5 DEF HostedIInv, LinkOK
  <2>2. AttemptsOK(runs[link])
    BY <2>1 DEF HostedIInv, RunsOK
  <2> QED BY <1>5, <2>2 DEF HostedIInv, SnapshotOK, Attempted, AttemptsOK
<1> QED BY <1>1, <1>2, <1>3, <1>4, <1>5 DEF HostedClaimsAreTrue

LEMMA ExportsLastRead ==
  HostedIInv /\ [HostedNext]_hostedVars =>
    [/\ helper = "reread" /\ (helper' = "save" \/ said' = "verified") =>
          /\ Len(runs[link].attempts) = snapshot.attempt /\ LastEnd(link) = "receipt"
     /\ saved # "none" => saved' = saved]_hostedVars
<1> SUFFICES ASSUME HostedIInv, HostedNext
             PROVE  /\ helper = "reread" /\ (helper' = "save" \/ said' = "verified") =>
                         /\ Len(runs[link].attempts) = snapshot.attempt /\ LastEnd(link) = "receipt"
                    /\ saved # "none" => saved' = saved
  BY DEF hostedVars, helperOf
<1>1. saved # "none" => saved' = saved
  <2>1. saved' = saved \/ SaveReceipt \/ SaveFails
    BY DEF HostedNext, ForkReady, ChangeDefault, DispatchByHand, Push, WorkflowEnds, RunListed,
           Rerun,
       Other, helperOf, Resume, ForkMetadata, CreateFork, AwaitFork, WorkflowIdentity, SyncFork,
       RefreshMetadata, EnableWorkflow, WorkflowActive, Dispatch, LookUpRun, WatchRun, RunStatus,
       RunLog, ResumeRepository, ResumeRun, ResumeWorkflow, ResumeSource, ReceiptFromLog, Reread,
       ReadFails, ErrorPasses, UnansweredFork, UnansweredSync, UnansweredEnable, DispatchRejected,
       DispatchUnanswered, Goes, Concludes, ParseMetadata, NotReady, Linked, NoLink, Checks
  <2> QED BY <2>1 DEF SaveReceipt, SaveFails, Vacant, Concludes
<1>2. ASSUME helper = "reread", helper' = "save" \/ said' = "verified"
      PROVE  Len(runs[link].attempts) = snapshot.attempt /\ LastEnd(link) = "receipt"
  <2>1. said = "none" /\ snapshot.end = "receipt"
    BY <1>2 DEF HostedIInv, LinkOK, SnapshotOK
  <2>2. ~UNCHANGED helperOf
    BY <1>2, <2>1 DEF helperOf
  <2>3. Reread \/ ReadFails
    BY <1>2, <2>2 DEF HostedNext, ForkReady, ChangeDefault, DispatchByHand, Push, WorkflowEnds,
       RunListed, Rerun, Other, Resume, ForkMetadata, CreateFork, AwaitFork, WorkflowIdentity,
       SyncFork, RefreshMetadata, EnableWorkflow, WorkflowActive, Dispatch, LookUpRun, WatchRun,
       RunStatus, RunLog, ResumeRepository, ResumeRun, ResumeWorkflow, ResumeSource, ReceiptFromLog,
       SaveReceipt, ErrorPasses, UnansweredFork, UnansweredSync, UnansweredEnable, DispatchRejected,
       DispatchUnanswered, SaveFails, At
  <2>4. Same
    BY <1>2, <2>1, <2>3 DEF Reread, ReadFails, Concludes
  <2> QED BY <2>1, <2>4 DEF Same, SnapshotOf
<1> QED BY <1>1, <1>2

LEMMA HostedHolds == HostedSpec => []HostedClaimsAreTrue /\ ExportIsOfLastRead
BY HostedInvariance, HostedClaims, ExportsLastRead, PTL DEF HostedSpec, ExportIsOfLastRead

-----------------------------------------------------------------------------
(* Handoff: the receipt of a kill and what is made of it.                  *)
-----------------------------------------------------------------------------

KillSteps == {"contained", "written", "cleaned", "answers", "crashed"}
KillTriggers == {"OPERATOR", "NETWORK_BOUNDARY"}
CleanupResults == Cleanups \cup {NoCleanup}
ReceiptDocuments == [trigger : KillTriggers, cleanup : CleanupResults, path : BOOLEAN, unwritten : BOOLEAN]
PublisherSteps == {"idle", "open", "refused", "validate", "invalid", "vacant", "write", "link", "prepared",
          "crashed"}
CleanupOutcomes == {"NOT_ATTEMPTED", "ATTEMPTED", "ATTEMPTED_WITH_ERRORS"}
JobRecords == [at : PublisherSteps, saw : Nat, doc : ReceiptDocuments \cup {NoDocument}, says : CleanupOutcomes \cup {None}]

(* A receipt tells the cleanup as it was, and that it could not be written *)
(* only if the answer says so too.                                         *)
TruthAs(d, f, r) ==
  /\ d \in ReceiptDocuments
  /\ d.cleanup # NoCleanup => d.cleanup = f
  /\ d.unwritten => d.path /\ r # NoDocument /\ r.unwritten
  /\ d.path => d.cleanup # NoCleanup
Truthful(d) == TruthAs(d, facts, reply)

(* The kill: what it has done, and its two documents.                      *)
KillOK ==
  /\ kill \in KillSteps /\ facts \in CleanupResults
  /\ kill \in {"contained", "written"} => facts = NoCleanup
  /\ kill = "cleaned" => facts # NoCleanup
  /\ kill # "answers" => reply = NoDocument
  /\ kill \in {"written", "cleaned"} => Truthful(disk.doc)
DiskOK ==
  /\ disk \in [version : Nat, doc : ReceiptDocuments \cup {NoDocument}]
  /\ disk.version # 0 => Truthful(disk.doc)
  /\ reply # NoDocument => Truthful(reply)

(* A publisher: the document it has is one of the two, and is judged.      *)
Judged(d, s) == ReceiptValid(d) /\ s = CleanupOutcome(d)
JobsOK ==
  /\ job \in [Publishers -> JobRecords]
  /\ \A p \in Publishers :
       /\ job[p].at = "open" => job[p].saw # 0
       /\ job[p].at \in {"validate", "invalid", "vacant", "write", "link", "prepared"}
            => Truthful(job[p].doc)
       /\ job[p].at = "invalid" => ~ReceiptValid(job[p].doc)
       /\ job[p].at \in {"vacant", "write", "link", "prepared"} => Judged(job[p].doc, job[p].says)
       /\ job[p].at = "prepared" => output = job[p].says /\ p \notin temps

(* What stands at the output path.                                         *)
OutputOK ==
  /\ output = "ATTEMPTED" =>
       facts # NoCleanup /\ facts.stop = 0 /\ facts.boundary # "error" /\ ~facts.unread
  /\ output = "ATTEMPTED_WITH_ERRORS" =>
       /\ facts # NoCleanup
       /\ \/ facts.stop # 0 \/ facts.boundary = "error" \/ facts.unread
          \/ reply # NoDocument /\ reply.unwritten

HandoffIInv == KillOK /\ DiskOK /\ JobsOK /\ OutputOK

LEMMA HandoffStarts == HandoffInit => HandoffIInv
<1> SUFFICES ASSUME HandoffInit PROVE HandoffIInv
  OBVIOUS
<1>1. KillOK
  BY DEF HandoffInit, KillOK, KillSteps, CleanupResults
<1>2. DiskOK
  BY DEF HandoffInit, DiskOK, NoFile
<1>3. JobsOK
  BY DEF HandoffInit, JobsOK, JobRecords, PublisherSteps
<1>4. OutputOK
  BY DEF HandoffInit, OutputOK, None
<1> QED BY <1>1, <1>2, <1>3, <1>4 DEF HandoffIInv

LEMMA NothingIsNone == NoCleanup \notin Cleanups /\ NoDocument \notin ReceiptDocuments
BY DEF NoCleanup, Cleanups, None, NoDocument, ReceiptDocuments, KillTriggers

(* What was true of a receipt stays so: the cleanup and the answer come    *)
(* once, and when they come no receipt tells of them.                      *)
LEMMA TruthStands ==
  ASSUME KillOK, \/ UNCHANGED <<facts, reply>>
                 \/ facts = NoCleanup /\ reply = NoDocument /\ UNCHANGED reply
                 \/ reply = NoDocument /\ UNCHANGED facts
  PROVE  \A d : TruthAs(d, facts, reply) => TruthAs(d, facts', reply')
BY DEF TruthAs, KillOK

LEMMA KillActs ==
  ASSUME HandoffIInv, WriteReceipt \/ Cleanup \/ UpdateReceipt \/ UpdateFails \/ KillCrashes
  PROVE  HandoffIInv'
<1> USE DEF HandoffIInv
<1>1. UNCHANGED <<job, output, temps>>
  BY DEF WriteReceipt, Cleanup, UpdateReceipt, UpdateFails, KillCrashes, Unheld
<1>2. \A d : TruthAs(d, facts, reply) => TruthAs(d, facts', reply')
  BY TruthStands DEF WriteReceipt, Cleanup, UpdateReceipt, UpdateFails, KillCrashes, KillOK
<1>3. JobsOK'
  BY <1>1, <1>2 DEF JobsOK, Truthful
<1>4. OutputOK'
  <2>1. UNCHANGED <<facts, reply>> \/ facts = NoCleanup \/ (reply = NoDocument /\ UNCHANGED facts)
    BY DEF WriteReceipt, Cleanup, UpdateReceipt, UpdateFails, KillCrashes, KillOK
  <2> QED BY <1>1, <2>1 DEF OutputOK
<1>5. KillOK' /\ DiskOK'
  <2>1. CASE WriteReceipt
    <3>1. PICK t \in KillTriggers :
            Replaced([trigger |-> t, cleanup |-> NoCleanup, path |-> FALSE, unwritten |-> FALSE])
      BY <2>1 DEF WriteReceipt, KillTriggers
    <3> DEFINE d == [trigger |-> t, cleanup |-> NoCleanup, path |-> FALSE, unwritten |-> FALSE]
    <3>2. d \in ReceiptDocuments /\ TruthAs(d, facts, reply)
      BY DEF ReceiptDocuments, TruthAs, CleanupResults
    <3>3. disk' = [version |-> disk.version + 1, doc |-> d]
      BY <3>1 DEF Replaced
    <3> HIDE DEF d
    <3> QED BY <2>1, <3>2, <3>3 DEF WriteReceipt, KillOK, DiskOK, Truthful, KillSteps
  <2>2. CASE Cleanup
    <3>1. facts' \in CleanupResults /\ facts' # NoCleanup
      BY <2>2, NothingIsNone DEF Cleanup, CleanupResults
    <3>2. KillOK'
      BY <2>2, <3>1, <1>2 DEF Cleanup, KillOK, KillSteps, Truthful
    <3>3. DiskOK'
      BY <2>2, <1>2 DEF Cleanup, DiskOK, Truthful
    <3> QED BY <3>2, <3>3
  <2>3. CASE UpdateReceipt
    <3> DEFINE d == [disk.doc EXCEPT !.cleanup = facts]
    <3> DEFINE e == [d EXCEPT !.path = TRUE]
    <3>1. TruthAs(disk.doc, facts, reply) /\ disk.doc \in ReceiptDocuments /\ facts \in CleanupResults
          /\ facts # NoCleanup /\ reply = NoDocument
      BY <2>3 DEF UpdateReceipt, KillOK, Truthful, TruthAs
    <3>2. ~disk.doc.unwritten
      BY <3>1 DEF TruthAs, ReceiptDocuments
    <3>3. d \in ReceiptDocuments /\ d.cleanup = facts /\ ~d.unwritten
      BY <3>1, <3>2 DEF ReceiptDocuments
    <3>4. disk' = [version |-> disk.version + 1, doc |-> d] /\ reply' = [d EXCEPT !.path = TRUE]
          /\ UNCHANGED facts /\ kill' = "answers"
      BY <2>3 DEF UpdateReceipt, Replaced
    <3> HIDE DEF d
    <3>5. e \in ReceiptDocuments /\ e.cleanup = facts /\ ~e.unwritten
      BY <3>3 DEF ReceiptDocuments
    <3>6. reply' = e
      BY <3>4
    <3> HIDE DEF e
    <3>7. TruthAs(d, facts', reply') /\ TruthAs(e, facts', reply')
      BY <3>1, <3>3, <3>4, <3>5 DEF TruthAs
    <3>8. disk' \in [version : Nat, doc : ReceiptDocuments \cup {NoDocument}] /\ disk'.doc = d
      BY <3>3, <3>4 DEF DiskOK
    <3>9. KillOK'
      BY <3>1, <3>4 DEF KillOK, KillSteps
    <3> QED BY <3>6, <3>7, <3>8, <3>9 DEF DiskOK, Truthful
  <2>4. CASE UpdateFails
    <3> DEFINE e == [disk.doc EXCEPT !.cleanup = facts, !.path = TRUE, !.unwritten = TRUE]
    <3>1. TruthAs(disk.doc, facts, reply) /\ disk.doc \in ReceiptDocuments /\ facts \in CleanupResults
          /\ facts # NoCleanup /\ reply = NoDocument
      BY <2>4 DEF UpdateFails, KillOK, Truthful, TruthAs
    <3>2. e \in ReceiptDocuments /\ e.cleanup = facts /\ e.unwritten /\ e.path
      BY <3>1 DEF ReceiptDocuments
    <3>3. UNCHANGED <<disk, facts>> /\ reply' = e /\ kill' = "answers"
      BY <2>4 DEF UpdateFails
    <3> HIDE DEF e
    <3>4. TruthAs(e, facts', reply')
      BY <3>1, <3>2, <3>3, NothingIsNone DEF TruthAs
    <3>5. KillOK'
      BY <3>1, <3>3 DEF KillOK, KillSteps
    <3> QED BY <1>2, <3>3, <3>4, <3>5 DEF DiskOK, Truthful
  <2>5. CASE KillCrashes
    BY <2>5 DEF KillCrashes, KillOK, DiskOK, Truthful, KillSteps
  <2> QED BY <2>1, <2>2, <2>3, <2>4, <2>5
<1> QED BY <1>3, <1>4, <1>5

(* A publisher that judges has one of the three outcomes.                  *)
LEMMA OneOutcome ==
  ASSUME NEW d PROVE CleanupOutcome(d) \in CleanupOutcomes
BY DEF CleanupOutcome, CleanupOutcomes

(* A publisher alone takes a step to `at' with the document it has.        *)
PublisherAlone(p) ==
  /\ UNCHANGED <<kill, disk, reply, facts>>
  /\ \A q \in Publishers \ {p} : job'[q] = job[q] /\ (q \in temps' => q \in temps)
  /\ job' \in [Publishers -> JobRecords]

LEMMA PublisherMoves ==
  ASSUME HandoffIInv, NEW p \in Publishers, PublisherAlone(p), output' = output \/ output = None,
         /\ job'[p].at = "open" => job'[p].saw # 0
         /\ job'[p].at \in {"validate", "invalid", "vacant", "write", "link", "prepared"}
              => TruthAs(job'[p].doc, facts, reply)
         /\ job'[p].at = "invalid" => ~ReceiptValid(job'[p].doc)
         /\ job'[p].at \in {"vacant", "write", "link", "prepared"}
              => Judged(job'[p].doc, job'[p].says)
         /\ job'[p].at = "prepared" => output' = job'[p].says /\ p \notin temps',
         OutputOK'
  PROVE  HandoffIInv'
<1> USE DEF HandoffIInv
<1>1. KillOK' /\ DiskOK'
  BY DEF PublisherAlone, KillOK, DiskOK, Truthful
<1>2. \A q \in Publishers : job[q].at = "prepared" => output # None
  BY OneOutcome DEF JobsOK, Judged, CleanupOutcomes, None
<1>3. ASSUME NEW q \in Publishers, q # p
      PROVE  /\ (job[q].at = "open" => job[q].saw # 0)'
             /\ (job[q].at \in {"validate", "invalid", "vacant", "write", "link", "prepared"}
                  => Truthful(job[q].doc))'
             /\ (job[q].at = "invalid" => ~ReceiptValid(job[q].doc))'
             /\ (job[q].at \in {"vacant", "write", "link", "prepared"}
                  => Judged(job[q].doc, job[q].says))'
             /\ (job[q].at = "prepared" => output = job[q].says /\ q \notin temps)'
  BY <1>2, <1>3 DEF PublisherAlone, JobsOK, Truthful
<1>4. JobsOK'
  BY <1>3 DEF PublisherAlone, JobsOK, Truthful
<1> QED BY <1>1, <1>4

(* What is linked is the outcome that the publisher found.                 *)
LEMMA LinkedIsTrue ==
  ASSUME HandoffIInv, NEW p \in Publishers, job[p].at = "link", output' = job[p].says,
         UNCHANGED <<kill, disk, reply, facts>>
  PROVE  OutputOK'
<1> DEFINE d == job[p].doc
<1>1. TruthAs(d, facts, reply) /\ output' = CleanupOutcome(d)
  BY DEF HandoffIInv, JobsOK, Truthful, Judged
<1> HIDE DEF d
<1>2. output' = "ATTEMPTED" => /\ d.cleanup = facts /\ facts # NoCleanup /\ facts.stop = 0
                               /\ facts.boundary # "error" /\ ~facts.unread
  BY <1>1 DEF CleanupOutcome, TruthAs
<1>3. output' = "ATTEMPTED_WITH_ERRORS" =>
        /\ facts # NoCleanup
        /\ \/ facts.stop # 0 \/ facts.boundary = "error" \/ facts.unread
           \/ reply # NoDocument /\ reply.unwritten
  BY <1>1 DEF CleanupOutcome, TruthAs
<1> QED BY <1>2, <1>3 DEF OutputOK

LEMMA PublisherActs ==
  ASSUME HandoffIInv, NEW p \in Publishers,
         \/ SourceStat(p) \/ SourceOpen(p) \/ SourceSaved(p) \/ Validate(p) \/ NewOutput(p)
         \/ WriteProjection(p) \/ LinkNew(p) \/ SyncFails(p) \/ PublisherFails(p)
         \/ PublisherCrashes(p)
  PROVE  HandoffIInv'
<1>0. job \in [Publishers -> JobRecords] /\ job[p] \in JobRecords
  BY DEF HandoffIInv, JobsOK
<1>1. ASSUME NEW l \in PublisherSteps, Onto(p, l)
      PROVE  /\ job' \in [Publishers -> JobRecords] /\ \A q \in Publishers \ {p} : job'[q] = job[q]
             /\ job'[p].at = l /\ job'[p].saw = job[p].saw /\ job'[p].doc = job[p].doc
             /\ job'[p].says = job[p].says
  BY <1>0, <1>1 DEF Onto, JobRecords
<1>2. UNCHANGED <<kill, disk, reply, facts>>
  BY DEF SourceStat, SourceOpen, SourceSaved, Validate, NewOutput, WriteProjection, LinkNew,
         SyncFails, PublisherFails, PublisherCrashes, Still, Refuse
<1>3. output' = output => OutputOK'
  BY <1>2 DEF HandoffIInv, OutputOK
<1>4. ASSUME Refuse(p) PROVE HandoffIInv'
  <2>1. PublisherAlone(p) /\ output' = output /\ job'[p].at = "refused"
    BY <1>1, <1>4, <1>2 DEF Refuse, PublisherAlone, PublisherSteps
  <2> QED BY <2>1, <1>3, PublisherMoves
<1>5. CASE SourceStat(p)
  <2> DEFINE j == [job[p] EXCEPT !.at = "open", !.saw = disk.version]
  <2>1. job' = [job EXCEPT ![p] = j]
    BY <1>5, <1>0 DEF SourceStat, JobRecords
  <2>0. disk.version \in Nat /\ disk.version # 0
    BY <1>5 DEF SourceStat, HandoffIInv, DiskOK
  <2>2. j \in JobRecords /\ j.at = "open" /\ j.saw # 0
    BY <1>0, <2>0 DEF JobRecords, PublisherSteps
  <2> HIDE DEF j
  <2>3. PublisherAlone(p) /\ output' = output /\ job'[p] = j
    BY <1>0, <1>2, <1>5, <2>1, <2>2 DEF SourceStat, PublisherAlone
  <2> QED BY <2>2, <2>3, <1>3, PublisherMoves
<1>6. CASE SourceOpen(p)
  <2>1. CASE disk.version # job[p].saw
    BY <1>4, <1>6, <2>1 DEF SourceOpen
  <2>2. CASE disk.version = job[p].saw
    <3> DEFINE j == [job[p] EXCEPT !.at = "validate", !.doc = disk.doc]
    <3>1. job' = [job EXCEPT ![p] = j]
      BY <1>6, <2>2, <1>0 DEF SourceOpen, JobRecords
    <3>2. disk.version # 0
      BY <1>6, <2>2 DEF SourceOpen, HandoffIInv, JobsOK
    <3>3. TruthAs(disk.doc, facts, reply) /\ disk.doc \in ReceiptDocuments
      BY <3>2 DEF HandoffIInv, DiskOK, Truthful, TruthAs
    <3>4. j \in JobRecords /\ j.at = "validate" /\ j.doc = disk.doc
      BY <1>0, <3>3 DEF JobRecords, PublisherSteps
    <3> HIDE DEF j
    <3>5. PublisherAlone(p) /\ output' = output /\ job'[p] = j
      BY <1>0, <1>2, <1>6, <2>2, <3>1, <3>4 DEF SourceOpen, PublisherAlone
    <3> QED BY <3>3, <3>4, <3>5, <1>3, PublisherMoves
  <2> QED BY <2>1, <2>2
<1>7. CASE SourceSaved(p)
  <2> DEFINE j == [job[p] EXCEPT !.at = "validate", !.doc = reply]
  <2>1. job' = [job EXCEPT ![p] = j]
    BY <1>7, <1>0 DEF SourceSaved, JobRecords
  <2>2. TruthAs(reply, facts, reply) /\ reply \in ReceiptDocuments
    BY <1>7 DEF SourceSaved, HandoffIInv, DiskOK, Truthful, TruthAs
  <2>3. j \in JobRecords /\ j.at = "validate" /\ j.doc = reply
    BY <1>0, <2>2 DEF JobRecords, PublisherSteps
  <2> HIDE DEF j
  <2>4. PublisherAlone(p) /\ output' = output /\ job'[p] = j
    BY <1>0, <1>2, <1>7, <2>1, <2>3 DEF SourceSaved, PublisherAlone
  <2> QED BY <2>2, <2>3, <2>4, <1>3, PublisherMoves
<1>8. CASE Validate(p)
  <2>0. TruthAs(job[p].doc, facts, reply) /\ output' = output /\ temps' = temps
    BY <1>8 DEF Validate, HandoffIInv, JobsOK, Truthful
  <2>1. CASE ~ReceiptValid(job[p].doc)
    <3>1. Onto(p, "invalid") /\ "invalid" \in PublisherSteps
      BY <1>8, <2>1 DEF Validate, PublisherSteps
    <3>2. PublisherAlone(p) /\ job'[p].at = "invalid" /\ job'[p].doc = job[p].doc
      BY <1>1, <1>2, <2>0, <3>1 DEF PublisherAlone
    <3> QED BY <2>0, <2>1, <3>2, <1>3, PublisherMoves
  <2>2. CASE ReceiptValid(job[p].doc)
    <3> DEFINE o == CleanupOutcome(job[p].doc)
    <3> DEFINE j == [job[p] EXCEPT !.at = "vacant", !.says = o]
    <3>0. o \in CleanupOutcomes
      BY OneOutcome
    <3>1. Judged(job[p].doc, o)
      BY <2>2 DEF Judged
    <3>2. job' = [job EXCEPT ![p].at = "vacant", ![p].says = o]
      BY <1>8, <2>2 DEF Validate
    <3> HIDE DEF o
    <3>3. job' = [job EXCEPT ![p] = j]
      BY <3>2, <1>0 DEF JobRecords
    <3>4. j \in JobRecords /\ j.at = "vacant" /\ j.doc = job[p].doc /\ j.says = o
      BY <1>0, <3>0 DEF JobRecords, PublisherSteps
    <3> HIDE DEF j
    <3>5. PublisherAlone(p) /\ job'[p] = j
      BY <1>0, <1>2, <2>0, <3>3, <3>4 DEF PublisherAlone
    <3> QED BY <2>0, <3>1, <3>4, <3>5, <1>3, PublisherMoves
  <2> QED BY <2>1, <2>2
<1>9. CASE NewOutput(p) \/ WriteProjection(p)
  <2>0. /\ TruthAs(job[p].doc, facts, reply) /\ Judged(job[p].doc, job[p].says)
        /\ output' = output
    BY <1>9 DEF NewOutput, WriteProjection, HandoffIInv, JobsOK, Truthful, Refuse
  <2>1. CASE Refuse(p)
    BY <1>4, <2>1
  <2>2. CASE ~Refuse(p)
    <3>1. PICK l \in {"write", "link"} : Onto(p, l)
      BY <1>9, <2>2 DEF NewOutput, WriteProjection
    <3>2. PublisherAlone(p)
      BY <1>1, <1>2, <1>9, <3>1 DEF PublisherAlone, PublisherSteps, NewOutput, WriteProjection,
                                    Refuse
    <3>3. job'[p].at = l /\ job'[p].doc = job[p].doc /\ job'[p].says = job[p].says
      BY <1>1, <3>1 DEF PublisherSteps
    <3> QED BY <2>0, <3>2, <3>3, <1>3, PublisherMoves
  <2> QED BY <2>1, <2>2
<1>10. CASE LinkNew(p) \/ SyncFails(p)
  <2>0. /\ TruthAs(job[p].doc, facts, reply) /\ Judged(job[p].doc, job[p].says)
        /\ job[p].at = "link" /\ temps' = temps \ {p}
    BY <1>10 DEF LinkNew, SyncFails, HandoffIInv, JobsOK, Truthful
  <2>1. PICK l \in {"prepared", "refused"} : Onto(p, l) /\ (l = "prepared" => output' = job[p].says)
    BY <1>10 DEF LinkNew, SyncFails
  <2>2. output' = output \/ (output = None /\ output' = job[p].says)
    BY <1>10 DEF LinkNew, SyncFails
  <2>3. OutputOK'
    BY <2>0, <2>2, <1>2, <1>3, LinkedIsTrue
  <2>4. PublisherAlone(p)
    BY <1>1, <1>2, <2>0, <2>1 DEF PublisherAlone, PublisherSteps
  <2>5. job'[p].at = l /\ job'[p].doc = job[p].doc /\ job'[p].says = job[p].says
    BY <1>1, <2>1 DEF PublisherSteps
  <2> QED BY <2>0, <2>1, <2>2, <2>3, <2>4, <2>5, PublisherMoves
<1>11. CASE PublisherFails(p) \/ PublisherCrashes(p)
  <2>1. PICK l \in {"refused", "crashed"} : Onto(p, l)
    BY <1>11 DEF PublisherFails, PublisherCrashes
  <2>2. output' = output /\ \A q \in Publishers \ {p} : q \in temps' => q \in temps
    BY <1>11 DEF PublisherFails, PublisherCrashes
  <2>3. PublisherAlone(p) /\ job'[p].at = l
    BY <1>1, <1>2, <2>1, <2>2 DEF PublisherAlone, PublisherSteps
  <2> QED BY <2>2, <2>3, <1>3, PublisherMoves
<1> QED BY <1>5, <1>6, <1>7, <1>8, <1>9, <1>10, <1>11

(* A receipt tells the cleanup as it was, and a publisher judges a version *)
(* of it that was there: the kill and the publishers keep it at every step *)
(* and through every failure.                                              *)
THEOREM HandoffInvariance == HandoffSpec => []HandoffIInv
<1>1. HandoffIInv /\ [HandoffNext]_handoffVars => HandoffIInv'
  <2>1. HandoffIInv /\ UNCHANGED handoffVars => HandoffIInv'
    BY DEF HandoffIInv, handoffVars, KillOK, DiskOK, JobsOK, OutputOK, Truthful
  <2> QED BY <2>1, KillActs, PublisherActs DEF HandoffNext
<1> QED BY HandoffStarts, <1>1, PTL DEF HandoffSpec

(* A handoff says what the cleanup did, and stands.                        *)
LEMMA HandoffHolds == HandoffSpec => []HandoffIsTrue /\ OutputStands
<1>1. HandoffIInv => HandoffIsTrue
  <2> SUFFICES ASSUME HandoffIInv PROVE HandoffIsTrue
    OBVIOUS
  <2>1. ASSUME NEW p \in Publishers, job[p].at = "invalid"
        PROVE  job[p].doc.trigger # "OPERATOR" \/ job[p].doc.cleanup.overlong
    <3>1. TruthAs(job[p].doc, facts, reply) /\ ~ReceiptValid(job[p].doc)
      BY <2>1 DEF HandoffIInv, JobsOK, Truthful
    <3> QED BY <3>1 DEF TruthAs, ReceiptValid, CleanupValid, ReceiptDocuments, CleanupResults
  <2>2. \A p \in Publishers : job[p].at = "prepared" => output = job[p].says /\ p \notin temps
    BY DEF HandoffIInv, JobsOK
  <2> QED BY <2>1, <2>2 DEF HandoffIsTrue, HandoffIInv, OutputOK
<1>2. [HandoffNext]_handoffVars => [output # None => output' = output]_handoffVars
  BY DEF HandoffNext, handoffVars, WriteReceipt, Cleanup, UpdateReceipt, UpdateFails, KillCrashes,
         Unheld, SourceStat, SourceOpen, SourceSaved, Validate, NewOutput, WriteProjection, LinkNew,
         SyncFails, PublisherFails, PublisherCrashes, Refuse, Onto
<1> QED BY HandoffInvariance, <1>1, <1>2, PTL DEF HandoffSpec, OutputStands

-----------------------------------------------------------------------------
(* The results that the three programs hand on are as they say, for any    *)
(* runs and offers, any changes of a fork, any publishers and failures.    *)
THEOREM ResultsHold == FkSpec /\ HostedSpec /\ HandoffSpec => ResultsAreTrue
BY FkHolds, HostedHolds, HandoffHolds, PTL DEF ResultsAreTrue
=============================================================================
