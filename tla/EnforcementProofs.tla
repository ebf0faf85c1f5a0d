-------------------------- MODULE EnforcementProofs --------------------------
(***************************************************************************)
(* Proofs about what discovery finds and takes: the admission of its       *)
(* enforcements (AdmissionSound and NotRelabelled for any processes, runs, *)
(* matches and finite set of workers), and the capture of what one of them *)
(* is about (CaptureIsClosed for any processes, bound on the captured and  *)
(* set of failures); and about what the scans before it look at: the       *)
(* windows of a process's descriptors (WindowsCover for tables and probes  *)
(* of any size).                                                           *)
(***************************************************************************)
EXTENDS Discovery, Capture, Windows, Integers, FiniteSetTheorems, TLAPS

-----------------------------------------------------------------------------
(* The admission.  The inductive invariant counts what a scan that is      *)
(* about to hand over holds as claimed (Claims), keeps a scan off the      *)
(* thread that its own enforcement is on (Alone), and says that a run of   *)
(* an enforcement is guarded until it has its record (Guarded).            *)

ScanSteps == [at : {"idle", "match", "claim", "bind"}, snap : SUBSET Tasks, left : SUBSET Matches,
          targets : SUBSET Tasks]
JobSteps == [at : {"idle", "enter", "move", "kill", "mark", "store", "sweep", "finish"},
         targets : SUBSET Tasks, runs : SUBSET Runs, ok : BOOLEAN]

(* The enforcements; an idle thread has none.                              *)
JobOK ==
  /\ job \in [Enforcers -> JobSteps]
  /\ \A e \in Enforcers : job[e].at = "idle" => job[e].targets = {} /\ job[e].runs = {}
ScanOK == scanner \in [Scanners -> ScanSteps]
SetsOK == active \subseteq Tasks /\ slots \in Nat

(* What a scan has claimed and not handed over yet.                        *)
Pending(s) == IF scanner[s].at = "bind" THEN scanner[s].targets ELSE {}

(* Each claim is held once, and what is held is what is active.            *)
Claims ==
  /\ \A d, e \in Enforcers : d # e => job[d].targets \cap job[e].targets = {}
  /\ \A s, u \in Scanners : s # u => Pending(s) \cap Pending(u) = {}
  /\ \A e \in Enforcers, s \in Scanners : job[e].targets \cap Pending(s) = {}
  /\ \A p \in Tasks : p \in active <=>
       \/ \E e \in Enforcers : p \in job[e].targets
       \/ \E s \in Scanners : p \in Pending(s)

(* A scan does not go on while its thread enforces, and a sweep has the    *)
(* enforcement that it is for.                                             *)
Alone ==
  /\ \A s \in Scanners : scanner[s].at \in {"claim", "bind"} => job[s].at = "idle"
  /\ scanner["sweep"].at # "idle" => sweepBy # "none"
  /\ sweepBy # "none" => sweepBy \in Enforcers /\ job[sweepBy].at = "sweep"

Busy == {w \in Workers : job[w].at # "idle"}
Counted == slots + Cardinality(Busy) = Cardinality(Workers)

(* The run of an enforcement that has begun is kept from the watcher, or   *)
(* has a record, or is one whose failure could not be recorded.            *)
Guarded ==
  \A e \in Enforcers : \A r \in job[e].runs :
    /\ job[e].at \in {"move", "kill", "mark"} =>
         r \in containing \/ run[r] # "RUNNING" \/ r \in missed
    /\ job[e].at \in {"store", "sweep", "finish"} => run[r] # "RUNNING" \/ r \in missed

RunOK == run \in [Runs -> {"RUNNING", "TERMINATED", "FAILED", "COMPLETED_ALLOWED"}]

DiscIInv == JobOK /\ ScanOK /\ SetsOK /\ RunOK /\ Claims /\ Alone /\ Counted /\ Guarded

-----------------------------------------------------------------------------
(* Lemmas about the operators that the actions are made of.                *)
(* An enforcement goes on, and keeps what it is of.                        *)
LEMMA GoesFacts ==
  ASSUME JobOK, NEW e \in Enforcers, NEW ok \in BOOLEAN, job[e].at # "idle",
         NEW l \in {"move", "kill", "mark", "store", "sweep", "finish"}, Goes(e, l, ok)
  PROVE  /\ JobOK'
         /\ \A d \in Enforcers : d # e => job'[d] = job[d]
         /\ \A d \in Enforcers : job'[d].targets = job[d].targets /\ job'[d].runs = job[d].runs
         /\ job'[e].at = l /\ job'[e].ok = ok
<1>1. ASSUME NEW d \in Enforcers
      PROVE  /\ job'[d] \in JobSteps /\ (d # e => job'[d] = job[d])
             /\ job'[d].targets = job[d].targets /\ job'[d].runs = job[d].runs
             /\ (d = e => job'[d].at = l /\ job'[d].ok = ok)
  BY DEF JobOK, Goes, JobSteps
<1>2. job' = [d \in Enforcers |-> job'[d]]
  BY DEF JobOK, Goes
<1>3. job' \in [Enforcers -> JobSteps]
  BY <1>1, <1>2
<1> QED BY <1>1, <1>3 DEF JobOK

(* One begins or ends.                                                     *)
LEMMA JobFacts ==
  ASSUME JobOK, NEW e \in Enforcers, NEW j \in JobSteps, j.at = "idle" => j.targets = {} /\ j.runs = {},
         job' = [job EXCEPT ![e] = j]
  PROVE  JobOK' /\ \A d \in Enforcers : job'[d] = (IF d = e THEN j ELSE job[d])
BY DEF JobOK

LEMMA NewJob ==
  ASSUME DiscoveryAssumption, NEW t \in SUBSET Tasks
  PROVE  /\ NoJob \in JobSteps /\ NoJob.at = "idle" /\ NoJob.targets = {} /\ NoJob.runs = {}
         /\ Job(t) \in JobSteps /\ Job(t).at = "enter" /\ Job(t).targets = t /\ Job(t).runs = RunsOf(t)
<1>1. RunsOf(t) \in SUBSET Runs
  BY DEF RunsOf
<1> QED BY <1>1 DEF NoJob, Job, JobSteps

(* A scan is done with a match, or has claimed one.                        *)
LEMMA ScanDrops ==
  ASSUME ScanOK, NEW s \in Scanners, ScanTo(s, "match", scanner[s].left, {})
  PROVE  /\ ScanOK' /\ scanner'[s].at = "match" /\ scanner'[s].targets = {}
         /\ \A u \in Scanners : u # s => scanner'[u] = scanner[u]
<1>1. ASSUME NEW u \in Scanners
      PROVE  /\ scanner'[u] \in ScanSteps /\ (u # s => scanner'[u] = scanner[u])
             /\ (u = s => scanner'[u].at = "match" /\ scanner'[u].targets = {})
  BY DEF ScanOK, ScanTo, ScanSteps
<1>2. scanner' = [u \in Scanners |-> scanner'[u]]
  BY DEF ScanOK, ScanTo
<1>3. ScanOK'
  BY <1>1, <1>2 DEF ScanOK
<1> QED BY <1>1, <1>3

LEMMA ScanClaims ==
  ASSUME ScanOK, NEW s \in Scanners, ScanTo(s, "bind", scanner[s].left, scanner[s].targets)
  PROVE  /\ ScanOK' /\ scanner'[s].at = "bind" /\ scanner'[s].targets = scanner[s].targets
         /\ \A u \in Scanners : u # s => scanner'[u] = scanner[u]
<1>1. ASSUME NEW u \in Scanners
      PROVE  /\ scanner'[u] \in ScanSteps /\ (u # s => scanner'[u] = scanner[u])
             /\ (u = s => scanner'[u].at = "bind" /\ scanner'[u].targets = scanner[s].targets)
  BY DEF ScanOK, ScanTo, ScanSteps
<1>2. scanner' = [u \in Scanners |-> scanner'[u]]
  BY DEF ScanOK, ScanTo
<1>3. ScanOK'
  BY <1>1, <1>2 DEF ScanOK
<1> QED BY <1>1, <1>3

(* What the matches of a scan and its targets are.                         *)
LEMMA ScanFacts ==
  ASSUME ScanOK, NEW s \in Scanners
  PROVE  scanner[s].left \in SUBSET Matches /\ scanner[s].targets \in SUBSET Tasks
         /\ scanner[s].snap \in SUBSET Tasks
BY DEF ScanOK, ScanSteps

LEMMA JobParts ==
  ASSUME JobOK, NEW e \in Enforcers
  PROVE  job[e].targets \in SUBSET Tasks /\ job[e].runs \in SUBSET Runs /\ job[e].ok \in BOOLEAN
BY DEF JobOK, JobSteps

LEMMA TargetsFacts == ASSUME DiscoveryAssumption, NEW m \in Matches, NEW snap \in SUBSET Tasks
                      PROVE  Targets(m, snap) \in SUBSET Tasks
BY DEF Targets, DiscoveryAssumption

(* A thread counts as busy or not.                                         *)
LEMMA BusyFacts ==
  ASSUME DiscoveryAssumption
  PROVE  /\ IsFiniteSet(Busy) /\ Cardinality(Busy) \in Nat /\ Cardinality(Workers) \in Nat
         /\ \A w \in Workers :
              /\ w \notin Busy => Cardinality(Busy \cup {w}) = Cardinality(Busy) + 1
              /\ w \in Busy => Cardinality(Busy \ {w}) = Cardinality(Busy) - 1
<1>1. IsFiniteSet(Workers) /\ Busy \subseteq Workers
  BY DEF DiscoveryAssumption, Busy
<1>2. IsFiniteSet(Busy)
  BY <1>1, FS_Subset
<1> QED BY <1>1, <1>2, FS_CardinalityType, FS_AddElement, FS_RemoveElement

-----------------------------------------------------------------------------
(* How claims may change: not at all, made, taken back, handed over to an  *)
(* enforcement, ended with it.                                             *)
LEMMA ClaimsSame ==
  ASSUME Claims, active' = active,
         \A e \in Enforcers : job'[e].targets = job[e].targets,
         \A s \in Scanners : Pending(s)' = Pending(s)
  PROVE  Claims'
BY DEF Claims

LEMMA ClaimsMade ==
  ASSUME Claims, ScanOK, NEW s \in Scanners, job' = job, scanner[s].at = "claim",
         scanner'[s].at = "bind", scanner'[s].targets = scanner[s].targets,
         \A u \in Scanners : u # s => scanner'[u] = scanner[u],
         scanner[s].targets \cap active = {}, active' = active \cup scanner[s].targets
  PROVE  Claims'
<1>1. Pending(s) = {} /\ Pending(s)' = scanner[s].targets /\ scanner[s].targets \subseteq Tasks
      /\ \A u \in Scanners : u # s => Pending(u)' = Pending(u)
  BY ScanFacts DEF Pending
<1>2. \A u \in Scanners : u # s => Pending(u) \cap scanner[s].targets = {}
  BY <1>1 DEF Claims
<1>3. \A e \in Enforcers : job[e].targets \cap scanner[s].targets = {}
  BY <1>1 DEF Claims
<1> QED BY <1>1, <1>2, <1>3 DEF Claims

LEMMA ClaimsUndone ==
  ASSUME Claims, NEW s \in Scanners, job' = job, scanner[s].at = "bind", scanner'[s].at = "match",
         \A u \in Scanners : u # s => scanner'[u] = scanner[u],
         active' = active \ scanner[s].targets
  PROVE  Claims'
<1>1. Pending(s) = scanner[s].targets /\ Pending(s)' = {}
      /\ \A u \in Scanners : u # s => Pending(u)' = Pending(u)
  BY DEF Pending
<1> QED BY <1>1 DEF Claims

LEMMA ClaimsHanded ==
  ASSUME Claims, NEW s \in Scanners, NEW e \in Enforcers, job[e].targets = {},
         scanner[s].at = "bind", scanner'[s].at = "match",
         \A u \in Scanners : u # s => scanner'[u] = scanner[u],
         job'[e].targets = scanner[s].targets,
         \A d \in Enforcers : d # e => job'[d] = job[d],
         active' = active
  PROVE  Claims'
<1>1. Pending(s) = scanner[s].targets /\ Pending(s)' = {}
      /\ \A u \in Scanners : u # s => Pending(u)' = Pending(u)
  BY DEF Pending
<1> QED BY <1>1 DEF Claims

LEMMA ClaimsEnded ==
  ASSUME Claims, NEW e \in Enforcers, job'[e].targets = {},
         \A d \in Enforcers : d # e => job'[d] = job[d],
         scanner' = scanner, active' = active \ job[e].targets
  PROVE  Claims'
<1>1. \A u \in Scanners : Pending(u)' = Pending(u)
  BY DEF Pending
<1> QED BY <1>1 DEF Claims

-----------------------------------------------------------------------------
LEMMA DiscStarts == ASSUME DiscInit PROVE DiscIInv
<1> USE DiscoveryAssumption DEF DiscInit
<1>1. JobOK /\ ScanOK /\ SetsOK /\ RunOK
  BY BusyFacts DEF JobOK, ScanOK, SetsOK, RunOK, NoJob, NoScan, JobSteps, ScanSteps
<1>2. Claims /\ Alone /\ Guarded
  BY DEF Claims, Pending, Alone, Guarded, NoJob, NoScan, Enforcers, Scanners
<1>3. Counted
  <2>1. Busy = {}
    BY DEF Busy, NoJob, Enforcers
  <2> QED BY <2>1, BusyFacts, FS_EmptySet DEF Counted
<1> QED BY <1>1, <1>2, <1>3 DEF DiscIInv

LEMMA DiscRests == ASSUME DiscIInv, UNCHANGED discVars PROVE DiscIInv'
<1> USE DEF discVars, locked, DiscIInv
<1>1. JobOK' /\ ScanOK' /\ SetsOK' /\ RunOK'
  BY DEF JobOK, ScanOK, SetsOK, RunOK
<1>2. Claims' /\ Alone' /\ Guarded'
  BY DEF Claims, Pending, Alone, Guarded
<1>3. Counted'
  BY DEF Counted, Busy
<1> QED BY <1>1, <1>2, <1>3

(* Processes, the operator and the watcher do not touch what is claimed.   *)
LEMMA OthersKeep ==
  ASSUME DiscIInv, NEW p, NEW r,
         \/ p \in Tasks /\ (Spawn(p) \/ Leave(p) \/ Forget(p))
         \/ r \in Runs /\ (Complete(r) \/ KillStep(r))
  PROVE  DiscIInv'
<1> USE DEF DiscIInv, locked
<1>1. /\ job' = job /\ scanner' = scanner /\ active' = active /\ slots' = slots /\ sweepBy' = sweepBy
      /\ containing' = containing /\ missed' = missed
  BY DEF Spawn, Leave, Forget, Complete, KillStep, Announce, CgroupKill, Terminated
<1>2. RunOK' /\ \A q \in Runs : run'[q] = "RUNNING" => run[q] = "RUNNING"
  BY DEF Spawn, Leave, Forget, Complete, KillStep, Announce, CgroupKill, Terminated, RunOK
<1>3. JobOK' /\ ScanOK' /\ SetsOK'
  BY <1>1 DEF JobOK, ScanOK, SetsOK
<1>4. Claims' /\ Alone'
  BY <1>1 DEF Claims, Pending, Alone
<1>5. Counted'
  BY <1>1 DEF Counted, Busy
<1>6. Guarded'
  BY <1>1, <1>2, JobParts DEF Guarded
<1> QED BY <1>2, <1>3, <1>4, <1>5, <1>6

-----------------------------------------------------------------------------
(* A scan looks and claims.                                                *)
LEMMA ScanKeeps ==
  ASSUME DiscIInv, NEW s \in Scanners, NEW m,
         Scan(s) \/ (m \in Matches /\ Qualify(s, m)) \/ Claim(s)
  PROVE  DiscIInv'
<1> USE DiscoveryAssumption DEF DiscIInv, locked
<1>1. job' = job /\ slots' = slots /\ sweepBy' = sweepBy /\ containing' = containing
      /\ missed' = missed /\ run' = run
  BY DEF Scan, Qualify, Claim
<1>2. JobOK' /\ RunOK' /\ Guarded'
  BY <1>1 DEF JobOK, RunOK, Guarded
<1>3. Counted'
  BY <1>1 DEF Counted, Busy
<1>4. scanner[s].left \in SUBSET Matches /\ scanner[s].targets \in SUBSET Tasks
      /\ scanner[s].snap \in SUBSET Tasks
  BY ScanFacts
<1>5. CASE Scan(s)
  <2> DEFINE new == [at |-> "match", snap |-> Living, left |-> {n \in Matches : n \subseteq Living},
                     targets |-> {}]
  <2>1. new \in ScanSteps /\ new.at = "match"
    BY DEF ScanSteps, Living
  <2>2. scanner[s].at = "idle" /\ scanner' = [scanner EXCEPT ![s] = new] /\ active' = active
        /\ (s = "sweep" => sweepBy # "none")
    BY <1>5 DEF Scan
  <2> HIDE DEF new
  <2>3. ScanOK' /\ scanner'[s].at = "match" /\ \A u \in Scanners : u # s => scanner'[u] = scanner[u]
    BY <2>1, <2>2 DEF ScanOK
  <2>4. \A u \in Scanners : Pending(u)' = Pending(u)
    BY <2>2, <2>3 DEF Pending
  <2>5. Claims'
    BY <1>1, <2>2, <2>4, ClaimsSame
  <2>6. Alone'
    BY <1>1, <2>2, <2>3 DEF Alone, Scanners
  <2> QED BY <1>1, <1>2, <1>3, <2>2, <2>3, <2>5, <2>6 DEF SetsOK
<1>6. CASE m \in Matches /\ Qualify(s, m)
  <2>1. PICK l \in {"match", "claim"}, t \in SUBSET Tasks : ScanTo(s, l, scanner[s].left \ {m}, t)
    BY <1>4, <1>6, TargetsFacts DEF Qualify
  <2>2. active' = active /\ scanner[s].at = "match" /\ job[s].at = "idle"
    BY <1>6 DEF Qualify
  <2>3. ScanOK' /\ scanner'[s].at = l /\ \A u \in Scanners : u # s => scanner'[u] = scanner[u]
    <3>1. ASSUME NEW u \in Scanners
          PROVE  scanner'[u] \in ScanSteps /\ (u # s => scanner'[u] = scanner[u]) /\ (u = s => scanner'[u].at = l)
      <4>1. ScanOK
        OBVIOUS
      <4>2. scanner[s].left \ {m} \in SUBSET Matches
        BY <1>4
      <4> DEFINE left == scanner[s].left \ {m}
      <4> HIDE DEF DiscIInv, left
      <4>3. ScanTo(s, l, left, t) /\ left \in SUBSET Matches
        BY <2>1, <4>2 DEF left
      <4>4. CASE u # s
        BY <4>1, <4>3, <4>4 DEF ScanOK, ScanTo
      <4>5. CASE u = s
        <5>1. scanner[s] \in ScanSteps
          BY <4>1 DEF ScanOK
        <5>2. scanner'[s] = [scanner[s] EXCEPT !.at = l, !.left = left, !.targets = t]
          BY <4>1, <4>3 DEF ScanOK, ScanTo
        <5>3. [scanner[s] EXCEPT !.at = l, !.left = left, !.targets = t] \in ScanSteps
          BY <5>1, <4>3, <2>1 DEF ScanSteps
        <5> QED BY <4>5, <5>1, <5>2, <5>3 DEF ScanSteps
      <4> QED BY <4>4, <4>5
    <3>2. scanner' = [u \in Scanners |-> scanner'[u]]
      BY <2>1 DEF ScanOK, ScanTo
    <3> QED BY <3>1, <3>2 DEF ScanOK
  <2>4. \A u \in Scanners : Pending(u)' = Pending(u)
    BY <2>2, <2>3 DEF Pending
  <2>5. Claims'
    BY <1>1, <2>2, <2>4, ClaimsSame
  <2>6. Alone'
    BY <1>1, <2>2, <2>3 DEF Alone, Scanners
  <2> QED BY <1>1, <1>2, <1>3, <2>2, <2>3, <2>5, <2>6 DEF SetsOK
<1>7. CASE Claim(s)
  <2>1. CASE ScanTo(s, "match", scanner[s].left, {}) /\ active' = active
    <3>1. ScanOK' /\ scanner'[s].at = "match" /\ \A u \in Scanners : u # s => scanner'[u] = scanner[u]
      BY <2>1, ScanDrops
    <3>2. scanner[s].at = "claim"
      BY <1>7 DEF Claim
    <3>3. \A u \in Scanners : Pending(u)' = Pending(u)
      BY <3>1, <3>2 DEF Pending
    <3>4. Claims'
      BY <1>1, <2>1, <3>3, ClaimsSame
    <3>5. Alone'
      BY <1>1, <3>1, <3>2 DEF Alone, Scanners
    <3> QED BY <1>1, <1>2, <1>3, <2>1, <3>1, <3>4, <3>5 DEF SetsOK
  <2>2. CASE /\ scanner[s].targets \cap (active \cup recent) = {}
             /\ ScanTo(s, "bind", scanner[s].left, scanner[s].targets)
             /\ active' = active \cup scanner[s].targets
    <3>1. ScanOK' /\ scanner'[s].at = "bind" /\ scanner'[s].targets = scanner[s].targets
          /\ \A u \in Scanners : u # s => scanner'[u] = scanner[u]
      BY <2>2, ScanClaims
    <3>2. scanner[s].at = "claim"
      BY <1>7 DEF Claim
    <3>3. Claims'
      BY <1>1, <2>2, <3>1, <3>2, ClaimsMade
    <3>4. Alone'
      BY <1>1, <3>1, <3>2 DEF Alone, Scanners
    <3> QED BY <1>1, <1>2, <1>3, <1>4, <2>2, <3>1, <3>3, <3>4 DEF SetsOK
  <2> QED BY <1>7, <2>1, <2>2 DEF Claim
<1> QED BY <1>5, <1>6, <1>7

(* It takes a claim back.                                                  *)
LEMMA UnclaimKeeps ==
  ASSUME DiscIInv, NEW s \in Scanners, Unbound(s) \/ Saturated(s)
  PROVE  DiscIInv'
<1> USE DiscoveryAssumption DEF DiscIInv, locked
<1>1. job' = job /\ slots' = slots /\ sweepBy' = sweepBy /\ containing' = containing
      /\ missed' = missed /\ run' = run
  BY DEF Unbound, Saturated, Bound
<1>2. JobOK' /\ RunOK' /\ Guarded'
  BY <1>1 DEF JobOK, RunOK, Guarded
<1>3. Counted'
  BY <1>1 DEF Counted, Busy
<1>4. active' = active \ scanner[s].targets /\ ScanTo(s, "match", scanner[s].left, {})
      /\ scanner[s].at = "bind"
  BY DEF Unbound, Saturated, Unclaim, Bound
<1>5. ScanOK' /\ scanner'[s].at = "match" /\ \A u \in Scanners : u # s => scanner'[u] = scanner[u]
  BY <1>4, ScanDrops
<1>6. Claims'
  BY <1>1, <1>4, <1>5, ClaimsUndone
<1>7. Alone'
  BY <1>1, <1>4, <1>5 DEF Alone, Scanners
<1> QED BY <1>1, <1>2, <1>3, <1>4, <1>5, <1>6, <1>7 DEF SetsOK

(* It hands a claim over, to its own thread or to a worker with a slot.    *)
LEMMA HandKeeps ==
  ASSUME DiscIInv, NEW s \in Scanners, NEW w,
         Enforce(s) \/ Inline(s) \/ (w \in Workers /\ HandOver(s, w))
  PROVE  DiscIInv'
<1> USE DiscoveryAssumption DEF DiscIInv, locked
<1>1. /\ sweepBy' = sweepBy /\ containing' = containing /\ missed' = missed /\ run' = run
      /\ active' = active /\ scanner[s].at = "bind" /\ ScanTo(s, "match", scanner[s].left, {})
  BY DEF Enforce, Inline, HandOver, Bound
<1>2. ScanOK' /\ scanner'[s].at = "match" /\ \A u \in Scanners : u # s => scanner'[u] = scanner[u]
  BY <1>1, ScanDrops
<1>3. PICK e \in Enforcers :
        /\ job[e].at = "idle" /\ job' = [job EXCEPT ![e] = Job(scanner[s].targets)]
        /\ \/ e = s /\ slots' = slots
           \/ e \in Workers /\ slots > 0 /\ slots' = slots - 1
  <2>1. CASE Enforce(s) \/ Inline(s)
    BY <2>1, <1>1 DEF Enforce, Inline, Alone, Enforcers
  <2>2. CASE w \in Workers /\ HandOver(s, w)
    BY <2>2 DEF HandOver, Enforcers
  <2> QED BY <2>1, <2>2
<1>4. /\ JobOK' /\ job[e].targets = {} /\ job'[e].at = "enter"
      /\ job'[e].targets = scanner[s].targets
      /\ \A d \in Enforcers : d # e => job'[d] = job[d]
  <2>1. Job(scanner[s].targets) \in JobSteps /\ Job(scanner[s].targets).at = "enter"
        /\ Job(scanner[s].targets).targets = scanner[s].targets
    BY ScanFacts, NewJob
  <2>2. JobOK' /\ \A d \in Enforcers : job'[d] = (IF d = e THEN Job(scanner[s].targets) ELSE job[d])
    <3> HIDE DEF DiscIInv
    <3> QED BY <1>3, <2>1, JobFacts DEF DiscIInv
  <2> QED BY <1>3, <2>1, <2>2 DEF JobOK
<1>5. Claims'
  BY <1>1, <1>2, <1>4, ClaimsHanded
<1>6. Alone'
  BY <1>1, <1>2, <1>3, <1>4 DEF Alone, Scanners
<1>7. Guarded'
  BY <1>1, <1>4 DEF Guarded
<1>8. SetsOK' /\ Counted'
  <2>1. CASE e = s /\ slots' = slots
    <3>1. Busy' = Busy
      BY <2>1, <1>4 DEF Busy, Enforcers, Scanners
    <3> QED BY <1>1, <2>1, <3>1 DEF SetsOK, Counted
  <2>2. CASE e \in Workers /\ slots > 0 /\ slots' = slots - 1
    <3>1. Busy' = Busy \cup {e} /\ e \notin Busy
      BY <2>2, <1>3, <1>4 DEF Busy, Enforcers
    <3>2. Cardinality(Busy') = Cardinality(Busy) + 1
      BY <2>2, <3>1, BusyFacts
    <3> QED BY <1>1, <2>2, <3>2, BusyFacts DEF SetsOK, Counted
  <2> QED BY <1>3, <2>1, <2>2
<1> QED BY <1>1, <1>2, <1>4, <1>5, <1>6, <1>7, <1>8 DEF RunOK

-----------------------------------------------------------------------------
(* An enforcement goes on.                                                 *)
LEMMA GoKeeps ==
  ASSUME DiscIInv, NEW e \in Enforcers, Enter(e) \/ Move(e) \/ Slay(e) \/ Mark(e) \/ Receipt(e)
  PROVE  DiscIInv'
<1> USE DiscoveryAssumption DEF DiscIInv, locked
<1>1. scanner' = scanner /\ active' = active /\ slots' = slots /\ containing \subseteq containing'
      /\ missed \subseteq missed'
  BY DEF Enter, Move, Slay, Mark, Receipt
<1>2. job[e].at \in {"enter", "move", "kill", "mark", "store"}
  BY DEF Enter, Move, Slay, Mark, Receipt
<1>3. PICK l \in {"move", "kill", "mark", "store", "sweep", "finish"}, ok \in BOOLEAN : Goes(e, l, ok)
  BY JobParts DEF Enter, Move, Slay, Mark, Receipt
<1>4. /\ JobOK'
      /\ \A d \in Enforcers : d # e => job'[d] = job[d]
      /\ \A d \in Enforcers : job'[d].targets = job[d].targets /\ job'[d].runs = job[d].runs
      /\ job'[e].at = l
  BY <1>2, <1>3, GoesFacts
<1>5. ScanOK' /\ SetsOK' /\ \A s \in Scanners : Pending(s)' = Pending(s)
  BY <1>1 DEF ScanOK, SetsOK, Pending
<1>6. Claims'
  BY <1>1, <1>4, <1>5, ClaimsSame
<1>7. Alone'
  <2>1. sweepBy' = sweepBy \/ (sweepBy = "none" /\ sweepBy' = e /\ job'[e].at = "sweep")
    <3>1. CASE Receipt(e) /\ sweepBy' # sweepBy
      <4>1. sweepBy = "none" /\ sweepBy' = e /\ Goes(e, "sweep", TRUE)
        BY <3>1 DEF Receipt
      <4> QED BY <4>1, <1>2, GoesFacts
    <3> QED BY <3>1 DEF Enter, Move, Slay, Mark, Receipt
  <2>2. \A s \in Scanners : s \in Enforcers
    BY DEF Enforcers
  <2> QED BY <1>1, <1>2, <1>4, <2>1, <2>2 DEF Alone, Scanners
<1>8. Counted'
  <2>1. Busy' = Busy
    BY <1>2, <1>4 DEF Busy, Enforcers
  <2> QED BY <1>1, <2>1 DEF Counted
<1>9. RunOK' /\ \A r \in Runs : run'[r] = "RUNNING" => run[r] = "RUNNING"
  BY DEF Enter, Move, Slay, Mark, Receipt, RunOK
<1>10. \A r \in job[e].runs :
         /\ l \in {"move", "kill", "mark"} => r \in containing' \/ run'[r] # "RUNNING" \/ r \in missed'
         /\ l \in {"store", "sweep", "finish"} => run'[r] # "RUNNING" \/ r \in missed'
  <2>1. job[e].runs \subseteq Runs
    BY JobParts
  <2>2. CASE Enter(e)
    BY <2>2, <1>2, <1>3, <1>4, GoesFacts DEF Enter
  <2>3. CASE Move(e)
    <3>1. l \in {"kill", "mark"}
      <4>1. PICK k \in {"kill", "mark"}, o \in BOOLEAN : Goes(e, k, o)
        BY <2>3 DEF Move
      <4> QED BY <1>2, <1>4, <4>1, GoesFacts
    <3> QED BY <2>1, <2>3, <1>1, <3>1 DEF Move, Guarded
  <2>4. CASE Slay(e)
    <3>1. l = "mark"
      <4>1. PICK o \in BOOLEAN : Goes(e, "mark", o)
        BY <2>4 DEF Slay
      <4> QED BY <1>2, <1>4, <4>1, GoesFacts
    <3> QED BY <2>1, <2>4, <1>1, <3>1 DEF Slay, Guarded
  <2>5. CASE Mark(e)
    <3>1. CASE run' = [r \in Runs |-> IF r \notin job[e].runs THEN run[r]
                                      ELSE IF job[e].ok THEN "TERMINATED"
                                      ELSE IF run[r] = "RUNNING" THEN "FAILED" ELSE run[r]]
      BY <2>1, <3>1 DEF RunOK
    <3>2. CASE run' = run /\ job[e].ok /\ Goes(e, "mark", FALSE)
      <4>1. l = "mark"
        BY <1>2, <1>4, <3>2, GoesFacts
      <4> QED BY <2>1, <2>5, <3>2, <4>1, <1>1 DEF Guarded, Mark
    <3>3. CASE run' = run /\ ~job[e].ok /\ missed' = missed \cup job[e].runs
      BY <3>3
    <3> QED BY <2>5, <3>1, <3>2, <3>3 DEF Mark
  <2>6. CASE Receipt(e)
    BY <2>1, <2>6, <1>1 DEF Receipt, Guarded
  <2> QED BY <2>2, <2>3, <2>4, <2>5, <2>6
<1>11. Guarded'
  BY <1>1, <1>4, <1>9, <1>10, JobParts DEF Guarded
<1> QED BY <1>4, <1>5, <1>6, <1>7, <1>8, <1>9, <1>11

(* It ends, or yields to the operator.                                     *)
LEMMA EndKeeps ==
  ASSUME DiscIInv, NEW e \in Enforcers, Yield(e) \/ Finish(e)
  PROVE  DiscIInv'
<1> USE DiscoveryAssumption DEF DiscIInv, locked
<1>1. /\ scanner' = scanner /\ sweepBy' = sweepBy /\ missed' = missed /\ run' = run
      /\ active' = active \ job[e].targets /\ Frees(e)
      /\ job' = [job EXCEPT ![e] = NoJob] /\ job[e].at \in {"enter", "finish"}
      /\ containing \ job[e].runs \subseteq containing'
      /\ (job[e].at = "enter" => containing' = containing)
  BY DEF Yield, Finish
<1>2. /\ JobOK' /\ job'[e].at = "idle" /\ job'[e].targets = {} /\ job'[e].runs = {}
      /\ \A d \in Enforcers : d # e => job'[d] = job[d]
  <2>1. NoJob \in JobSteps /\ NoJob.at = "idle" /\ NoJob.targets = {} /\ NoJob.runs = {}
    BY NewJob
  <2>2. JobOK' /\ \A d \in Enforcers : job'[d] = (IF d = e THEN NoJob ELSE job[d])
    <3> HIDE DEF DiscIInv
    <3> QED BY <1>1, <2>1, JobFacts DEF DiscIInv
  <2> QED BY <2>1, <2>2
<1>3. ScanOK' /\ RunOK'
  BY <1>1 DEF ScanOK, RunOK
<1>4. Claims'
  BY <1>1, <1>2, ClaimsEnded
<1>5. Alone'
  BY <1>1, <1>2 DEF Alone, Scanners, Enforcers
<1>6. SetsOK' /\ Counted'
  <2>1. CASE e \in Workers
    <3>1. slots' = slots + 1
      BY <1>1, <2>1 DEF Frees
    <3>2. Busy' = Busy \ {e} /\ e \in Busy
      BY <1>1, <1>2, <2>1 DEF Busy, Enforcers
    <3>3. Cardinality(Busy') = Cardinality(Busy) - 1
      BY <2>1, <3>2, BusyFacts
    <3> QED BY <1>1, <3>1, <3>3, BusyFacts DEF SetsOK, Counted
  <2>2. CASE e \notin Workers
    <3>1. slots' = slots
      BY <1>1, <2>2 DEF Frees
    <3>2. Busy' = Busy
      BY <1>2, <2>2 DEF Busy, Enforcers
    <3> QED BY <1>1, <3>1, <3>2 DEF SetsOK, Counted
  <2> QED BY <2>1, <2>2
<1>7. Guarded'
  <2>1. job[e].at = "finish" => \A r \in job[e].runs : run[r] # "RUNNING" \/ r \in missed
    BY DEF Guarded
  <2> QED BY <1>1, <1>2, <2>1 DEF Guarded
<1> QED BY <1>2, <1>3, <1>4, <1>5, <1>6, <1>7

(* A scan ends, and the sweep with it.                                     *)
LEMMA ScanEndKeeps == ASSUME DiscIInv, NEW s \in Scanners, ScanEnd(s) PROVE DiscIInv'
<1> USE DiscoveryAssumption DEF DiscIInv, locked
<1>1. /\ slots' = slots /\ active' = active /\ containing' = containing /\ missed' = missed
      /\ run' = run /\ scanner[s].at = "match" /\ scanner' = [scanner EXCEPT ![s] = NoScan]
  BY DEF ScanEnd
<1>2. ScanOK' /\ scanner'[s].at = "idle" /\ \A u \in Scanners : u # s => scanner'[u] = scanner[u]
  BY <1>1 DEF ScanOK, NoScan, ScanSteps
<1>3. SetsOK' /\ RunOK' /\ \A u \in Scanners : Pending(u)' = Pending(u)
  BY <1>1, <1>2 DEF SetsOK, RunOK, Pending
<1>4. CASE s # "sweep"
  <2>1. sweepBy' = sweepBy /\ job' = job
    BY <1>4 DEF ScanEnd
  <2>2. JobOK' /\ Guarded'
    BY <1>1, <2>1 DEF JobOK, Guarded
  <2>3. Counted'
    BY <1>1, <2>1 DEF Counted, Busy
  <2>4. Claims'
    BY <1>1, <1>3, <2>1, ClaimsSame
  <2>5. Alone'
    BY <1>2, <1>4, <2>1 DEF Alone, Scanners
  <2> QED BY <1>2, <1>3, <2>2, <2>3, <2>4, <2>5
<1>5. CASE s = "sweep"
  <2>1. sweepBy' = "none" /\ job' = [job EXCEPT ![sweepBy].at = "finish"]
        /\ sweepBy \in Enforcers /\ job[sweepBy].at = "sweep"
    BY <1>1, <1>5 DEF ScanEnd, Alone
  <2>2. PICK e \in Enforcers : e = sweepBy
    BY <2>1
  <2>3. ASSUME NEW d \in Enforcers
        PROVE  /\ job'[d] \in JobSteps /\ (d # e => job'[d] = job[d])
               /\ job'[d].targets = job[d].targets /\ job'[d].runs = job[d].runs
               /\ (d = e => job'[d].at = "finish")
    BY <2>1, <2>2 DEF JobOK, JobSteps
  <2>4. JobOK'
    <3>1. job' = [d \in Enforcers |-> job'[d]]
      BY <2>1 DEF JobOK
    <3>2. job' \in [Enforcers -> JobSteps]
      BY <2>3, <3>1
    <3> QED BY <2>3, <3>2 DEF JobOK
  <2>5. Claims'
    BY <1>1, <1>3, <2>3, ClaimsSame
  <2>6. Alone'
    BY <1>1, <1>2, <1>5, <2>1, <2>2, <2>3 DEF Alone, Scanners, Enforcers
  <2>7. Counted'
    <3>1. Busy' = Busy
      BY <2>1, <2>2, <2>3 DEF Busy, Enforcers
    <3> QED BY <1>1, <3>1 DEF Counted
  <2>8. Guarded'
    BY <1>1, <2>1, <2>2, <2>3 DEF Guarded
  <2> QED BY <1>2, <1>3, <2>4, <2>5, <2>6, <2>7, <2>8
<1> QED BY <1>4, <1>5

LEMMA DiscKeeps == ASSUME DiscIInv, DiscNext PROVE DiscIInv'
<1>1. CASE \E p \in Tasks : Spawn(p) \/ Leave(p) \/ Forget(p)
  BY <1>1, OthersKeep
<1>2. CASE \E r \in Runs : Complete(r) \/ KillStep(r)
  <2>1. PICK r \in Runs : Complete(r) \/ KillStep(r)
    BY <1>2
  <2> QED BY <2>1, OthersKeep
<1>3. CASE \E s \in Scanners : ScanStep(s)
  <2>1. PICK s \in Scanners : ScanStep(s)
    BY <1>3
  <2>2. CASE Scan(s) \/ Claim(s) \/ \E m \in Matches : Qualify(s, m)
    BY <2>2, ScanKeeps
  <2>3. CASE Unbound(s) \/ Saturated(s)
    BY <2>3, UnclaimKeeps
  <2>4. CASE Enforce(s) \/ Inline(s) \/ \E w \in Workers : HandOver(s, w)
    BY <2>4, HandKeeps
  <2>5. CASE ScanEnd(s)
    BY <2>5, ScanEndKeeps
  <2> QED BY <2>1, <2>2, <2>3, <2>4, <2>5 DEF ScanStep
<1>4. CASE \E e \in Enforcers : JobStep(e)
  <2>1. PICK e \in Enforcers : JobStep(e)
    BY <1>4
  <2>2. CASE Yield(e) \/ Finish(e)
    BY <2>2, EndKeeps
  <2>3. CASE Enter(e) \/ Move(e) \/ Slay(e) \/ Mark(e) \/ Receipt(e)
    BY <2>3, GoKeeps
  <2> QED BY <2>1, <2>2, <2>3 DEF JobStep
<1> QED BY <1>1, <1>2, <1>3, <1>4 DEF DiscNext

-----------------------------------------------------------------------------
(* What scanners and workers of the supervisor keep at every step of an    *)
(* admission: every claim is held by one of them and counted in the slots, *)
(* and a run of an enforcement is guarded until it has its record.         *)
THEOREM DiscInvariance == DiscSpec => []DiscIInv
<1>1. DiscIInv /\ [DiscNext]_discVars => DiscIInv'
  BY DiscKeeps, DiscRests
<1> QED BY DiscStarts, <1>1, PTL DEF DiscSpec

(* No two enforcements share a target, what is active is what is claimed,  *)
(* and every slot is free or taken by a worker.                            *)
THEOREM AdmissionIsSound == DiscSpec => []AdmissionSound
<1>1. ASSUME DiscIInv PROVE AdmissionSound
  <2> USE <1>1 DEF DiscIInv
  <2>1. \A d, e \in Enforcers : d # e => job[d].targets \cap job[e].targets = {}
    BY DEF Claims
  <2>2. active = UNION Claimed
    <3>1. ASSUME NEW p \in active PROVE p \in UNION Claimed
      <4>1. p \in Tasks
        BY DEF SetsOK
      <4>2. CASE \E e \in Enforcers : p \in job[e].targets
        BY <4>2 DEF JobOK, Claimed
      <4>3. CASE \E s \in Scanners : p \in Pending(s)
        BY <4>3 DEF Pending, Claimed
      <4> QED BY <4>1, <4>2, <4>3 DEF Claims
    <3>2. ASSUME NEW p \in UNION Claimed PROVE p \in active
      <4>1. \/ \E e \in Enforcers : p \in job[e].targets
            \/ \E s \in Scanners : scanner[s].at = "bind" /\ p \in scanner[s].targets
        BY DEF Claimed
      <4>2. p \in Tasks
        BY <4>1, JobParts, ScanFacts
      <4> QED BY <4>1, <4>2 DEF Claims, Pending
    <3> QED BY <3>1, <3>2
  <2> QED BY <2>1, <2>2 DEF AdmissionSound, Counted, Busy
<1> QED BY DiscInvariance, <1>1, PTL

(* The watcher takes a run for complete only when no enforcement of it is  *)
(* under way, or when one could not record its failure.                    *)
THEOREM NeverRelabelled == DiscSpec => NotRelabelled
<1> DEFINE A == \A r \in Runs : run'[r] = "COMPLETED_ALLOWED" /\ run[r] # "COMPLETED_ALLOWED"
                  => ~Containing(r) \/ r \in missed
<1>1. ASSUME DiscIInv, [DiscNext]_discVars PROVE [A]_discVars
  <2> SUFFICES ASSUME DiscNext, NEW r \in Runs,
                      run'[r] = "COMPLETED_ALLOWED", run[r] # "COMPLETED_ALLOWED", r \notin missed
               PROVE  ~Containing(r)
    BY <1>1
  <2> USE <1>1 DEF DiscIInv
  <2>1. PICK q \in Runs : Complete(q) \/ KillStep(q)
    <3>1. CASE \E p \in Tasks : Spawn(p) \/ Leave(p) \/ Forget(p)
      BY <3>1 DEF Spawn, Leave, Forget
    <3>2. CASE \E s \in Scanners : ScanStep(s)
      BY <3>2 DEF ScanStep, Scan, Claim, Unbound, Enforce, Saturated, Inline, ScanEnd, Qualify,
                  HandOver, Bound
    <3>3. CASE \E e \in Enforcers : JobStep(e)
      BY <3>3 DEF JobStep, Yield, Enter, Move, Slay, Mark, Receipt, Finish, RunOK
    <3> QED BY <3>1, <3>2, <3>3 DEF DiscNext
  <2>2. Complete(r)
    BY <2>1 DEF Complete, KillStep, Announce, CgroupKill, Terminated, RunOK
  <2> QED BY <2>2 DEF Complete, Containing, Guarded
<1>2. NotRelabelled <=> [][A]_discVars
  BY DEF NotRelabelled
<1> QED BY DiscInvariance, <1>1, <1>2, PTL DEF DiscSpec

-----------------------------------------------------------------------------
(* The capture.  The point of the inductive invariant is Walked: once the  *)
(* second walk has passed a captured process, a child of its is seen or    *)
(* was born in the quarantine.                                             *)

(* The processes, and their parents: a living one or the reaper.           *)
WorldOK ==
  /\ born \subseteq Procs /\ born # {} /\ alive \subseteq born
  /\ parent \in [Procs -> Procs \cup {Reaper}]
  /\ cell \in [Procs -> {"host", "quarantine"}]
  /\ \A p \in Procs : parent[p] \in alive \cup {Reaper}

(* What contain_many knows: only processes that were once there; and what  *)
(* it has suspended, it has captured.                                      *)
MineOK ==
  /\ cat \in {"bind", "stop", "make", "walk", "halt", "move", "again", "decide", "kill", "verify",
              "undo", "done"}
  /\ capOut \in {"none", "TERMINATED", "RAISED"} /\ (capOut # "none" => cat = "done")
  /\ roots \subseteq captured /\ captured \subseteq born /\ seen \subseteq born
  /\ suspended \subseteq captured \cap alive
  /\ cat \in {"walk", "again", "decide"} => captured \subseteq seen /\ todo \subseteq seen
  /\ cat \in {"bind", "stop", "halt"} => todo \subseteq captured
  /\ cat = "undo" => suspended \subseteq todo
  /\ cat = "done" => suspended = {}

InCell(p) == cell[p] = "quarantine"

(* The move takes all that were captured and live.                         *)
Moving ==
  /\ cat = "move" => \A p \in captured \cap alive : p \in todo \/ InCell(p)
  /\ cat \in {"again", "decide", "kill", "verify"} => \A p \in captured \cap alive : InCell(p)

(* The second walk sees the children that are not inside.                  *)
Walked ==
  /\ cat = "again" =>
       \A q \in captured \ todo, c \in alive : parent[c] = q => c \in seen \/ InCell(c)
  /\ cat = "decide" =>
       \A q \in captured, c \in alive : parent[c] = q => c \in seen \/ InCell(c)
  /\ cat \in {"kill", "verify"} =>
       \A c \in alive : parent[c] \in captured => InCell(c)

Ended == capOut = "TERMINATED" => captured \cap alive = {}

CaptureIInv == WorldOK /\ MineOK /\ Moving /\ Walked /\ Ended

LEMMA CaptureStarts == ASSUME CaptureInit PROVE CaptureIInv
BY CaptureAssumption DEF CaptureInit, CaptureIInv, WorldOK, MineOK, Moving, Walked, Ended

LEMMA CaptureRest == ASSUME CaptureIInv, UNCHANGED capVars PROVE CaptureIInv'
BY DEF CaptureIInv, capVars, world, mine, WorldOK, MineOK, Moving, Walked, Ended, InCell

-----------------------------------------------------------------------------
(* A process forks: its child is new, and in the same cgroup.              *)
LEMMA ForkKeeps == ASSUME CaptureIInv, NEW p \in Procs, NEW c \in Procs, Fork(p, c)
                   PROVE  CaptureIInv'
<1> USE DEF CaptureIInv
<1>1. /\ p \in alive /\ p # c /\ c \notin born /\ c \notin alive /\ c \notin captured /\ c \notin seen
      /\ born' = born \cup {c} /\ alive' = alive \cup {c}
      /\ \A q \in Procs : /\ parent'[q] = (IF q = c THEN p ELSE parent[q])
                          /\ cell'[q] = (IF q = c THEN cell[p] ELSE cell[q])
  BY DEF Fork, WorldOK, MineOK
<1>2. UNCHANGED <<suspended, dying, cat, roots, captured, stopped, fixed, seen, todo, quarantine, capOut>>
  BY DEF Fork, mine
<1>3. WorldOK'
  BY <1>1 DEF WorldOK, Fork
<1>4. MineOK'
  BY <1>1, <1>2 DEF MineOK
<1>5. Moving'
  BY <1>1, <1>2 DEF Moving, InCell, WorldOK
<1>6. Walked'
  BY <1>1, <1>2 DEF Walked, Moving, InCell, WorldOK
<1>7. Ended'
  BY <1>1, <1>2 DEF Ended
<1> QED BY <1>3, <1>4, <1>5, <1>6, <1>7

(* Processes die, at once or late: what is left is as it was, but that the *)
(* children of the dead have another parent.                               *)
LEMMA DeadFacts == ASSUME WorldOK, NEW ps \in SUBSET alive, NEW late \in SUBSET ps, Dead(ps, late),
                          CaptureAssumption
                   PROVE  /\ WorldOK'
                          /\ alive' = alive \ (ps \ late) /\ suspended' = suspended \ ps
                          /\ born' = born /\ cell' = cell
                          /\ \A c \in Procs : parent'[c] = parent[c] \/ parent'[c] = Reaper
<1>1. /\ alive' = alive \ (ps \ late) /\ suspended' = suspended \ ps
      /\ born' = born /\ cell' = cell
      /\ \A c \in Procs : parent'[c] = IF parent[c] \in ps \ late THEN Reaper ELSE parent[c]
  BY DEF Dead, WorldOK
<1>2. parent' \in [Procs -> Procs \cup {Reaper}]
  BY DEF Dead, WorldOK
<1>3. WorldOK'
  BY <1>1, <1>2 DEF WorldOK
<1> QED BY <1>1, <1>3

LEMMA KilledFacts == ASSUME WorldOK, NEW ps \in SUBSET alive, Killed(ps), CaptureAssumption
                     PROVE  /\ WorldOK' /\ alive' \subseteq alive /\ suspended' = suspended \ ps
                            /\ born' = born /\ cell' = cell
                            /\ \A c \in Procs : parent'[c] = parent[c] \/ parent'[c] = Reaper
                            /\ alive \ ps \subseteq alive'
<1>1. PICK late \in SUBSET ps : Dead(ps, late)
  BY DEF Killed
<1> QED BY <1>1, DeadFacts

LEMMA ExitKeeps == ASSUME CaptureIInv, NEW p \in Procs, Exit(p) PROVE CaptureIInv'
<1> USE DEF CaptureIInv
<1>1. /\ WorldOK' /\ alive' = alive \ {p} /\ suspended' = suspended \ {p}
      /\ born' = born /\ cell' = cell
      /\ \A c \in Procs : parent'[c] = parent[c] \/ parent'[c] = Reaper
  <2>1. {p} \in SUBSET alive /\ {} \in SUBSET {p} /\ Dead({p}, {})
    BY DEF Exit
  <2>2. /\ WorldOK' /\ alive' = alive \ ({p} \ {}) /\ suspended' = suspended \ {p}
        /\ born' = born /\ cell' = cell
        /\ \A c \in Procs : parent'[c] = parent[c] \/ parent'[c] = Reaper
    BY <2>1, DeadFacts, CaptureAssumption
  <2> QED BY <2>2
<1>2. UNCHANGED <<cat, roots, captured, stopped, fixed, seen, todo, quarantine, capOut>>
  BY DEF Exit, mine
<1>3. Reaper \notin captured
  BY CaptureAssumption DEF MineOK, WorldOK
<1>4. MineOK'
  BY <1>1, <1>2 DEF MineOK
<1>5. Moving' /\ Ended'
  BY <1>1, <1>2 DEF Moving, InCell, Ended
<1>6. Walked'
  BY <1>1, <1>2, <1>3 DEF Walked, InCell, WorldOK
<1> QED BY <1>1, <1>4, <1>5, <1>6

-----------------------------------------------------------------------------
(* The steps of contain_many that change nothing of the processes but that *)
(* some are suspended or moved.                                            *)
LEMMA GatherKeeps ==
  ASSUME CaptureIInv, NEW p \in Procs,
         Bind(p) \/ StopRoot(p) \/ Make \/ Walk(p) \/ HaltOne(p) \/ HaltEnd \/ MoveOne(p) \/ Moved \/ Decide
  PROVE  CaptureIInv'
<1> USE DEF CaptureIInv, world
<1>1. CASE Bind(p)
  BY <1>1 DEF Bind, CatAt, Fail, WorldOK, MineOK, Moving, Walked, Ended, InCell
<1>2. CASE StopRoot(p)
  BY <1>2 DEF StopRoot, Suspend, CatAt, Fail, WorldOK, MineOK, Moving, Walked, Ended, InCell
<1>3. CASE Make
  BY <1>3 DEF Make, CatAt, Fail, WorldOK, MineOK, Moving, Walked, Ended, InCell
<1>4. CASE Walk(p)
  <2>1. UNCHANGED <<born, alive, suspended, dying, parent, cell, roots, fixed, stopped, quarantine, capOut>>
    BY <1>4 DEF Walk
  <2>2. CASE Fail /\ UNCHANGED <<seen, captured>>
    BY <1>4, <2>1, <2>2 DEF Walk, Fail, WorldOK, MineOK, Moving, Walked, Ended, InCell
  <2>3. CASE ~(Fail /\ UNCHANGED <<seen, captured>>)
    <3> DEFINE new == Children(p) \ seen
               left == (todo \ {p}) \cup new
    <3>1. /\ cat \in {"walk", "again"} /\ p \in todo /\ seen' = seen \cup new
          /\ captured' = IF left = {} /\ cat = "walk" THEN seen' ELSE captured
          /\ \/ left # {} /\ todo' = left /\ cat' = cat
             \/ left = {} /\ cat = "walk" /\ todo' = seen' \ stopped /\ cat' = "halt"
             \/ left = {} /\ cat = "again" /\ todo' = {} /\ cat' = "decide"
      BY <1>4, <2>3 DEF Walk, CatAt
    <3>2. new \subseteq alive /\ new \cap seen = {}
          /\ \A c \in alive : parent[c] = p => c \in seen \cup new
      BY CaptureAssumption DEF Children, WorldOK
    <3> HIDE DEF new, left
    <3>3. WorldOK'
      BY <2>1 DEF WorldOK
    <3>4. MineOK'
      BY <2>1, <3>1, <3>2 DEF MineOK, WorldOK, left
    <3>5. Moving' /\ Ended'
      BY <2>1, <3>1 DEF Moving, Ended, InCell, MineOK
    <3>6. Walked'
      BY <2>1, <3>1, <3>2 DEF Walked, InCell, left
    <3> QED BY <3>3, <3>4, <3>5, <3>6
  <2> QED BY <2>2, <2>3
<1>5. CASE HaltOne(p)
  BY <1>5 DEF HaltOne, Suspend, WorldOK, MineOK, Moving, Walked, Ended, InCell
<1>6. CASE HaltEnd
  BY <1>6 DEF HaltEnd, CatAt, WorldOK, MineOK, Moving, Walked, Ended, InCell
<1>7. CASE MoveOne(p)
  <2>1. \A q \in Procs : cell'[q] = IF q = p /\ p \in alive THEN "quarantine" ELSE cell[q]
    BY <1>7 DEF MoveOne, WorldOK
  <2>2. WorldOK'
    BY <1>7 DEF MoveOne, WorldOK
  <2>3. MineOK' /\ Ended'
    BY <1>7 DEF MoveOne, MineOK, Ended
  <2>4. Moving'
    BY <1>7, <2>1 DEF MoveOne, Moving, InCell, WorldOK
  <2>5. Walked'
    BY <1>7 DEF MoveOne, Walked
  <2> QED BY <2>2, <2>3, <2>4, <2>5
<1>8. CASE Moved
  BY <1>8 DEF Moved, CatAt, WorldOK, MineOK, Moving, Walked, Ended, InCell
<1>9. CASE Decide
  BY <1>9 DEF Decide, CatAt, WorldOK, MineOK, Moving, Walked, Ended, InCell
<1> QED BY <1>1, <1>2, <1>3, <1>4, <1>5, <1>6, <1>7, <1>8, <1>9

(* Those that kill.                                                        *)
LEMMA KillKeeps ==
  ASSUME CaptureIInv, NEW p \in Procs, KillCell \/ Verify \/ UndoOne(p) \/ UndoEnd
  PROVE  CaptureIInv'
<1> USE CaptureAssumption DEF CaptureIInv
<1>0. Inmates \in SUBSET alive /\ {p} \cap alive \in SUBSET alive /\ Reaper \notin captured
  BY DEF Inmates, MineOK, WorldOK
<1>1. CASE KillCell
  <2>1. /\ WorldOK' /\ alive' \subseteq alive /\ suspended' = suspended \ Inmates
        /\ born' = born /\ cell' = cell
        /\ \A c \in Procs : parent'[c] = parent[c] \/ parent'[c] = Reaper
        /\ alive \ Inmates \subseteq alive'
    BY <1>0, <1>1, KilledFacts DEF KillCell
  <2>2. cat = "kill" /\ cat' = "verify"
        /\ UNCHANGED <<roots, captured, stopped, fixed, seen, todo, quarantine, capOut>>
    BY <1>1 DEF KillCell, CatAt
  <2>3. MineOK'
    BY <2>1, <2>2 DEF MineOK, Moving, InCell, Inmates
  <2>4. Moving' /\ Walked' /\ Ended'
    BY <1>0, <2>1, <2>2 DEF Moving, Walked, Ended, InCell, MineOK, WorldOK
  <2> QED BY <2>1, <2>3, <2>4
<1>2. CASE Verify
  <2>1. UNCHANGED <<born, alive, suspended, dying, parent, cell, roots, captured, seen>>
    BY <1>2 DEF Verify, world
  <2>2. WorldOK'
    BY <2>1 DEF WorldOK
  <2>3. Inmates = {} => captured \cap alive = {}
    BY <1>2 DEF Verify, Moving, InCell, Inmates
  <2> QED BY <1>2, <2>1, <2>2, <2>3 DEF Verify, CatAt, Fail, MineOK, Moving, Walked, Ended, InCell
<1>3. CASE UndoOne(p)
  <2>1. /\ WorldOK' /\ alive' \subseteq alive /\ suspended' = suspended \ ({p} \cap alive)
        /\ born' = born /\ cell' = cell /\ alive \ ({p} \cap alive) \subseteq alive'
    BY <1>0, <1>3, KilledFacts DEF UndoOne
  <2>2. cat = "undo" /\ todo' = todo \ {p}
        /\ UNCHANGED <<cat, roots, captured, stopped, fixed, seen, quarantine, capOut>>
    BY <1>3 DEF UndoOne
  <2>3. MineOK'
    BY <2>1, <2>2 DEF MineOK
  <2>4. Moving' /\ Walked' /\ Ended'
    BY <2>1, <2>2 DEF Moving, Walked, Ended
  <2> QED BY <2>1, <2>3, <2>4
<1>4. CASE UndoEnd
  <2>1. WorldOK' /\ alive' \subseteq alive /\ suspended' \subseteq suspended /\ born' = born
    <3>1. CASE quarantine
      BY <1>0, <1>4, <3>1, KilledFacts DEF UndoEnd
    <3>2. CASE ~quarantine
      BY <1>4, <3>2 DEF UndoEnd, world, WorldOK
    <3> QED BY <3>1, <3>2
  <2> QED BY <1>4, <2>1 DEF UndoEnd, CatAt, MineOK, Moving, Walked, Ended
<1> QED BY <1>1, <1>2, <1>3, <1>4

-----------------------------------------------------------------------------
(* What contain_many keeps at every step: who is suspended was captured,   *)
(* the moved are inside, and the children of those that the second walk    *)
(* has passed are seen or were born inside.                                *)
THEOREM CaptureInvariance == CaptureSpec => []CaptureIInv
<1>1. CaptureIInv /\ [CaptureNext]_capVars => CaptureIInv'
  <2> SUFFICES ASSUME CaptureIInv, [CaptureNext]_capVars PROVE CaptureIInv'
    OBVIOUS
  <2>1. CASE \E p, c \in Procs : Fork(p, c)
    BY <2>1, ForkKeeps
  <2>2. CASE \E p \in Procs : Exit(p)
    BY <2>2, ExitKeeps
  <2>3. CASE \E p \in Procs : Bind(p) \/ StopRoot(p) \/ Walk(p) \/ HaltOne(p) \/ MoveOne(p)
    BY <2>3, GatherKeeps
  <2>4. CASE \E p \in Procs : UndoOne(p)
    BY <2>4, KillKeeps
  <2>5. CASE Make \/ HaltEnd \/ Moved \/ Decide \/ KillCell \/ Verify \/ UndoEnd
    <3>1. PICK p \in Procs : TRUE
      BY DEF CaptureIInv, WorldOK
    <3> QED BY <2>5, <3>1, GatherKeeps, KillKeeps
  <2>6. CASE UNCHANGED capVars
    BY <2>6, CaptureRest
  <2> QED BY <2>1, <2>2, <2>3, <2>4, <2>5, <2>6 DEF CaptureNext
<1> QED BY CaptureStarts, <1>1, PTL DEF CaptureSpec

(* Nobody who was captured, or has a parent who was, is left outside of    *)
(* the cgroup that is killed; a success leaves none of them alive; and     *)
(* nobody is left suspended.                                               *)
THEOREM CaptureClosed == CaptureSpec => []CaptureIsClosed
<1>1. CaptureIInv => CaptureIsClosed
  BY DEF CaptureIInv, MineOK, Moving, Walked, Ended, InCell, CaptureIsClosed
<1> QED BY CaptureInvariance, <1>1, PTL

-----------------------------------------------------------------------------
(* The windows of a process's descriptors.  First division, and what       *)
(* follows for every step-th entry of a range.                             *)

LEMMA Division ==
  ASSUME NEW a \in Nat, NEW b \in Nat \ {0}
  PROVE  /\ a \div b \in Nat /\ a % b \in Nat /\ a % b < b
         /\ a = b * (a \div b) + (a % b)
OBVIOUS

LEMMA Remainder ==
  ASSUME NEW b \in Nat \ {0}, NEW k \in Nat, NEW f \in Nat, f < b
  PROVE  (b * k + f) % b = f
<1> DEFINE a == b * k + f
<1>1. a \in Nat
  OBVIOUS
<1>2. PICK q \in Nat, r \in Nat : a % b = r /\ r < b /\ a = b * q + r
  BY <1>1, Division
<1>3. b * (k - q) = r - f
  BY <1>2
<1>4. k = q
  <2>1. CASE k > q
    <3>1. b * (k - q) >= b * 1
      BY <2>1
    <3> QED BY <3>1, <1>3, <1>2
  <2>2. CASE k < q
    <3>1. b * (q - k) >= b * 1
      BY <2>2
    <3>2. b * (q - k) = f - r
      BY <1>3
    <3> QED BY <3>1, <3>2
  <2> QED BY <2>1, <2>2
<1> QED BY <1>2, <1>4

(* As many parts of b as it takes to hold a.                               *)
LEMMA DivUpHolds ==
  ASSUME NEW a \in Nat \ {0}, NEW b \in Nat \ {0}
  PROVE  DivUp(a, b) \in Nat \ {0} /\ a <= b * DivUp(a, b)
<1>1. PICK q \in Nat, r \in Nat : (a + b - 1) \div b = q /\ r < b /\ a + b - 1 = b * q + r
  BY Division
<1>2. q # 0
  BY <1>1
<1> QED BY <1>1, <1>2 DEF DivUp

(* A slice has no more entries than there are steps in its range.          *)
LEMMA SliceCount ==
  ASSUME NEW first \in Nat, NEW last \in Nat, NEW from \in Nat,
         NEW step \in Nat \ {0}, NEW k \in Nat \ {0},
         last < first + step * k
  PROVE  /\ IsFiniteSet(Slice(first, last, from, step))
         /\ Cardinality(Slice(first, last, from, step)) <= k
<1> DEFINE S == Slice(first, last, from, step)
<1> DEFINE d == [i \in S |-> (i - first - from) \div step]
<1>1. ASSUME NEW i \in S PROVE d[i] \in 0..(k - 1) /\ i = first + from + step * d[i]
  <2>1. i \in Nat /\ i <= last /\ i - first - from \in Nat /\ (i - first - from) % step = 0
    BY DEF Slice
  <2>2. PICK q \in Nat : q = (i - first - from) \div step /\ i - first - from = step * q
    BY <2>1, Division
  <2>3. step * q < step * k
    BY <2>1, <2>2
  <2>4. q < k
    <3>1. CASE q >= k
      <4>1. step * q >= step * k
        BY <3>1
      <4> QED BY <4>1, <2>3
    <3> QED BY <3>1
  <2> QED BY <2>1, <2>2, <2>4
<1>2. d \in Injection(S, 0..(k - 1))
  BY <1>1 DEF Injection, IsInjective
<1>3. IsFiniteSet(0..(k - 1)) /\ Cardinality(0..(k - 1)) = k
  BY FS_Interval
<1>4. IsFiniteSet(S) /\ Cardinality(S) <= Cardinality(0..(k - 1))
  BY <1>2, <1>3, FS_Injection DEF ExistsInjection
<1> QED BY <1>3, <1>4

(* As many slices in a row as there are stripes have every entry.          *)
LEMMA SlicesCover ==
  ASSUME NEW first \in Nat, NEW last \in Nat, NEW step \in Nat \ {0}, NEW a \in Nat,
         NEW i \in first..last
  PROVE  \E t \in a..(a + step - 1) : i \in Slice(first, last, t % step, step)
<1>1. PICK k \in Nat, f \in Nat : (i - first) % step = f /\ f < step /\ i - first = step * k + f
  <2>1. i - first \in Nat
    OBVIOUS
  <2> QED BY <2>1, Division
<1>2. PICK q \in Nat, m \in Nat : m < step /\ a = step * q + m
  BY Division
<1>3. (step * k) % step = 0
  <2>1. (step * k + 0) % step = 0
    BY Remainder
  <2> QED BY <2>1
<1>4. ASSUME NEW t \in a..(a + step - 1), t % step = f
      PROVE  \E n \in a..(a + step - 1) : i \in Slice(first, last, n % step, step)
  <2>1. i \in Slice(first, last, t % step, step)
    BY <1>1, <1>3, <1>4 DEF Slice
  <2> QED BY <2>1
<1>5. CASE m <= f
  <2>1. (step * q + f) % step = f
    BY <1>1, Remainder
  <2>2. step * q + f \in a..(a + step - 1)
    BY <1>1, <1>2, <1>5
  <2> QED BY <2>1, <2>2, <1>4
<1>6. CASE m > f
  <2>1. (step * (q + 1) + f) % step = f
    BY <1>1, Remainder
  <2>2. step * (q + 1) = step * q + step
    OBVIOUS
  <2>3. step * (q + 1) + f \in a..(a + step - 1)
    BY <1>1, <1>2, <1>6, <2>2
  <2> QED BY <2>1, <2>3, <1>4
<1> QED BY <1>5, <1>6

(* The table and what is in it; a supervisor starts from its reservation.  *)
WinTypeOK ==
  /\ count \in Nat \ {0} /\ probes \in Nat \ {0} /\ useful \in 1..count
  /\ generation \in Nat \ {0} /\ base = generation - 1 /\ tick \in Nat
  /\ looked \subseteq 1..count /\ chained \subseteq 1..count /\ chain \in Nat /\ idle \in Nat

(* This supervisor looked at the windows from its own generation on; of    *)
(* those before it that managed a scan each looked at one of its own.      *)
LookedOK == \A t \in 0..(tick - 1) : Window(base + t) \subseteq looked
ChainOK == LET newest == IF tick = 0 THEN generation - 2 ELSE generation - 1 IN
  /\ chain <= newest + 1
  /\ \A g \in (newest - chain + 1)..newest : Window(g) \subseteq chained

(* Evidence is as old as the scans since it was last in a window.          *)
IdleOK ==
  \A t \in 0..(tick - 1) : useful \in Window(base + t) => idle <= tick - 1 - t

WinIInv == WinTypeOK /\ LookedOK /\ ChainOK /\ IdleOK

(* Enough stripes for the table.                                           *)
LEMMA StripesHold ==
  ASSUME WinTypeOK
  PROVE  /\ Stripes \in Nat \ {0}
         /\ count > probes /\ probes < 4 => count < 1 + Stripes * probes
         /\ count > probes /\ probes >= 4 => count - 1 < 2 + Stripes * (probes - 2)
<1>1. CASE count <= probes
  BY <1>1 DEF Stripes, WinTypeOK
<1>2. CASE count > probes /\ probes < 4
  BY <1>2, DivUpHolds DEF Stripes, WinTypeOK
<1>3. CASE count > probes /\ probes >= 4
  <2>1. count - 2 \in Nat \ {0} /\ probes - 2 \in Nat \ {0}
    BY <1>3 DEF WinTypeOK
  <2>2. Stripes = DivUp(count - 2, probes - 2)
    BY <1>3 DEF Stripes, WinTypeOK
  <2>3. PICK k \in Nat \ {0} : k = Stripes /\ count - 2 <= (probes - 2) * k
    BY <2>1, <2>2, DivUpHolds
  <2>4. (probes - 2) * k = k * (probes - 2)
    BY <2>1
  <2> QED BY <1>3, <2>1, <2>3, <2>4 DEF WinTypeOK
<1> QED BY <1>1, <1>2, <1>3 DEF WinTypeOK

(* One window stays within its probes.                                     *)
LEMMA WindowFits ==
  ASSUME WinTypeOK, NEW g \in Nat
  PROVE  Cardinality(Window(g)) <= probes
<1> DEFINE from == g % Stripes
<1>1. Stripes \in Nat \ {0} /\ from \in Nat
  BY StripesHold, Division
<1>2. CASE count <= probes
  <2>1. Cardinality(1..count) = count
    BY FS_Interval DEF WinTypeOK
  <2> QED BY <1>2, <2>1 DEF Window
<1>3. CASE count > probes /\ probes < 4
  <2>1. Cardinality(Slice(1, count, from, Stripes)) <= probes
    BY <1>1, <1>3, StripesHold, SliceCount DEF WinTypeOK
  <2> QED BY <1>3, <2>1 DEF Window, WinTypeOK
<1>4. CASE count > probes /\ probes >= 4
  <2> DEFINE middle == Slice(2, count - 1, from, Stripes)
  <2>1. count - 1 \in Nat /\ probes - 2 \in Nat \ {0}
    BY <1>4 DEF WinTypeOK
  <2>2. IsFiniteSet(middle) /\ Cardinality(middle) <= probes - 2
    BY <1>1, <1>4, <2>1, StripesHold, SliceCount
  <2>3. IsFiniteSet({1, count}) /\ Cardinality({1, count}) = 2
    <3>1. {1, count} = {1} \cup {count} /\ count \notin {1}
      BY <1>4 DEF WinTypeOK
    <3>2. IsFiniteSet({1}) /\ Cardinality({1}) = 1
      BY FS_Singleton
    <3> QED BY <3>1, <3>2, FS_AddElement
  <2>4. Cardinality({1, count} \cup middle) <= 2 + Cardinality(middle)
    <3>1. Cardinality({1, count} \cup middle) =
            Cardinality({1, count}) + Cardinality(middle) - Cardinality({1, count} \cap middle)
      BY <2>2, <2>3, FS_Union
    <3>2. Cardinality({1, count} \cap middle) \in Nat /\ Cardinality(middle) \in Nat
      <4>1. IsFiniteSet({1, count} \cap middle)
        BY <2>3, FS_Subset
      <4> QED BY <2>2, <4>1, FS_CardinalityType
    <3> QED BY <2>3, <3>1, <3>2
  <2>5. Cardinality(middle) \in Nat /\ Cardinality({1, count} \cup middle) \in Nat
    BY <2>2, <2>3, FS_Union, FS_CardinalityType
  <2>6. Window(g) = {1, count} \cup middle
    BY <1>4 DEF Window, WinTypeOK
  <2> HIDE DEF middle
  <2> QED BY <2>2, <2>4, <2>5, <2>6 DEF WinTypeOK
<1> QED BY <1>2, <1>3, <1>4 DEF WinTypeOK

(* It is of the table.                                                     *)
LEMMA WindowInTable ==
  ASSUME WinTypeOK, NEW g \in Nat
  PROVE  Window(g) \subseteq 1..count
BY DEF Window, Slice, WinTypeOK

(* Consecutive windows, one for each stripe, have every entry.             *)
LEMMA WindowsInARow ==
  ASSUME WinTypeOK, NEW a \in Nat, NEW i \in 1..count
  PROVE  \E t \in a..(a + Stripes - 1) : i \in Window(t)
<1>1. Stripes \in Nat \ {0}
  BY StripesHold
<1>2. CASE count <= probes
  <2>1. a \in a..(a + Stripes - 1)
    BY <1>1
  <2>2. i \in Window(a)
    BY <1>2 DEF Window
  <2> QED BY <2>1, <2>2
<1>3. CASE count > probes /\ probes < 4
  <2>1. PICK t \in a..(a + Stripes - 1) : i \in Slice(1, count, t % Stripes, Stripes)
    BY <1>1, SlicesCover DEF WinTypeOK
  <2>2. i \in Window(t)
    BY <1>3, <2>1 DEF Window, WinTypeOK
  <2> QED BY <2>1, <2>2
<1>4. CASE count > probes /\ probes >= 4
  <2>1. CASE i \in {1, count}
    <3>1. a \in a..(a + Stripes - 1)
      BY <1>1
    <3>2. i \in Window(a)
      BY <1>4, <2>1 DEF Window, WinTypeOK
    <3> QED BY <3>1, <3>2
  <2>2. CASE i \notin {1, count}
    <3>1. i \in 2..(count - 1) /\ count - 1 \in Nat
      BY <2>2 DEF WinTypeOK
    <3>2. PICK t \in a..(a + Stripes - 1) : i \in Slice(2, count - 1, t % Stripes, Stripes)
      BY <1>1, <3>1, SlicesCover
    <3>3. i \in Window(t)
      BY <1>4, <3>2 DEF Window, WinTypeOK
    <3> QED BY <3>2, <3>3
  <2> QED BY <2>1, <2>2
<1> QED BY <1>2, <1>3, <1>4 DEF WinTypeOK

LEMMA WindowsStay ==
  ASSUME UNCHANGED <<count, probes>>
  PROVE  Stripes' = Stripes /\ \A g : Window(g)' = Window(g)
BY DEF Stripes, Window, Slice, DivUp

(* The scans and the supervisors.                                          *)
LEMMA WinStarts == WinInit => WinIInv
BY WinAssumption DEF WinInit, WinIInv, WinTypeOK, LookedOK, ChainOK, IdleOK

LEMMA WindowScanKeeps ==
  ASSUME WinIInv, WindowScan
  PROVE  WinIInv'
<1> DEFINE w == Window(base + tick)
<1>1. Stripes' = Stripes /\ \A g : Window(g)' = Window(g)
  BY WindowsStay DEF WindowScan
<1>2. base \in Nat /\ tick \in Nat /\ generation \in Nat \ {0} /\ base = generation - 1 /\ chain \in Nat
  BY DEF WinIInv, WinTypeOK
<1>3. base' = base /\ tick' = tick + 1 /\ generation' = generation /\ useful' = useful /\ count' = count
  BY DEF WindowScan
<1>4. w \subseteq 1..count
  BY <1>2, WindowInTable DEF WinIInv
<1>5. looked' = looked \cup w /\ chained' = chained \cup w
  BY DEF WindowScan
<1>6. idle' \in Nat /\ (useful \in w => idle' = 0) /\ idle' <= idle + 1
  BY WinAssumption DEF WindowScan, WinIInv, WinTypeOK
<1>7. chain' = IF tick = 0 THEN chain + 1 ELSE chain
  BY DEF WindowScan
<1> HIDE DEF w
<1>8. WinTypeOK'
  <2>1. UNCHANGED <<count, probes, useful, generation, base>>
    BY DEF WindowScan
  <2>2. count \in Nat \ {0} /\ probes \in Nat \ {0} /\ useful \in 1..count
        /\ looked \subseteq 1..count /\ chained \subseteq 1..count
    BY DEF WinIInv, WinTypeOK
  <2>3. looked' \subseteq 1..count /\ chained' \subseteq 1..count
    BY <1>4, <1>5, <2>2
  <2>4. tick' \in Nat /\ chain' \in Nat
    BY <1>2, <1>3, <1>7
  <2> QED BY <1>2, <1>6, <2>1, <2>2, <2>3, <2>4 DEF WinTypeOK
<1>9. LookedOK'
  <2> SUFFICES ASSUME NEW t \in 0..tick PROVE Window(base + t) \subseteq looked'
    <3>1. \A t \in 0..(tick' - 1) : t \in 0..tick
      BY <1>2, <1>3
    <3> QED BY <1>1, <1>3, <3>1 DEF LookedOK
  <2>1. CASE t = tick
    BY <1>5, <2>1 DEF w
  <2>2. CASE t # tick
    BY <1>2, <1>5, <2>2 DEF WinIInv, LookedOK
  <2> QED BY <2>1, <2>2
<1>10. ChainOK'
  <2>1. CASE tick = 0
    <3>1. /\ chain <= generation - 1
          /\ \A g \in (generation - 1 - chain)..(generation - 2) : Window(g) \subseteq chained
      BY <1>2, <2>1 DEF WinIInv, ChainOK
    <3>2. ASSUME NEW g \in (generation - 1 - chain)..(generation - 1) PROVE Window(g) \subseteq chained'
      <4>1. CASE g = generation - 1
        <5>1. g = base + tick
          BY <1>2, <2>1, <4>1
        <5> QED BY <1>5, <5>1 DEF w
      <4>2. CASE g # generation - 1
        BY <1>2, <1>5, <3>1, <4>2
      <4> QED BY <4>1, <4>2
    <3> QED BY <1>1, <1>2, <1>3, <1>7, <2>1, <3>1, <3>2 DEF ChainOK
  <2>2. CASE tick # 0
    BY <1>1, <1>2, <1>3, <1>5, <1>7, <2>2 DEF WinIInv, ChainOK
  <2> QED BY <2>1, <2>2
<1>11. IdleOK'
  <2> SUFFICES ASSUME NEW t \in 0..tick, useful \in Window(base + t) PROVE idle' <= tick - t
    BY <1>1, <1>2, <1>3 DEF IdleOK
  <2>1. CASE t = tick
    BY <1>2, <1>6, <2>1 DEF w
  <2>2. CASE t # tick
    <3>1. idle <= tick - 1 - t /\ idle \in Nat
      BY <1>2, <2>2 DEF WinIInv, WinTypeOK, IdleOK
    <3> QED BY <1>2, <1>6, <3>1
  <2> QED BY <2>1, <2>2
<1> QED BY <1>8, <1>9, <1>10, <1>11 DEF WinIInv

LEMMA SupervisorKeeps ==
  ASSUME WinIInv, NextSupervisor
  PROVE  WinIInv'
<1>1. \A g : Window(g)' = Window(g)
  BY WindowsStay DEF NextSupervisor
<1>2. generation' = generation + 1 /\ base' = generation /\ tick' = 0 /\ looked' = {} /\ idle' = MaxIdle + 1
  BY DEF NextSupervisor
<1>3. WinTypeOK'
  <2>1. UNCHANGED <<count, probes, useful>> /\ (chain' = 0 \/ chain' = chain)
        /\ (chained' = {} \/ chained' = chained)
    BY DEF NextSupervisor
  <2>2. WinTypeOK
    BY DEF WinIInv
  <2>3. generation' \in Nat \ {0} /\ base' = generation' - 1 /\ idle' \in Nat /\ chain' \in Nat
    BY <1>2, <2>1, <2>2, WinAssumption DEF WinTypeOK
  <2> QED BY <1>2, <2>1, <2>2, <2>3 DEF WinTypeOK
<1>4. LookedOK' /\ IdleOK'
  BY <1>2 DEF LookedOK, IdleOK
<1>5. ChainOK'
  <2>1. CASE tick = 0
    BY <1>1, <1>2, <2>1 DEF WinIInv, WinTypeOK, ChainOK, NextSupervisor
  <2>2. CASE tick # 0
    BY <1>1, <1>2, <2>2 DEF WinIInv, WinTypeOK, ChainOK, NextSupervisor
  <2> QED BY <2>1, <2>2
<1> QED BY <1>3, <1>4, <1>5 DEF WinIInv

(* What a supervisor has looked at, those before it, and how old its       *)
(* evidence is: the generations of _reserve_discovery_window, fair_window  *)
(* and the store keep it for any table, probes and age.                    *)
THEOREM WindowsInvariance == WinSpec => []WinIInv
<1>1. WinIInv /\ UNCHANGED winVars => WinIInv'
  <2> SUFFICES ASSUME WinIInv, UNCHANGED winVars PROVE WinIInv'
    OBVIOUS
  <2>1. \A g : Window(g)' = Window(g)
    BY WindowsStay DEF winVars
  <2> QED BY <2>1 DEF WinIInv, WinTypeOK, LookedOK, ChainOK, IdleOK, winVars
<1>2. WinIInv /\ [WinNext]_winVars => WinIInv'
  BY <1>1, WindowScanKeeps, SupervisorKeeps DEF WinNext
<1> QED BY WinStarts, <1>2, PTL DEF WinSpec

(* A window has no more entries than it may; as many scans, or supervisors *)
(* that managed one, as there are stripes look at every entry; and where   *)
(* these are no more than the store remembers, evidence is not forgotten.  *)
THEOREM WindowsAreCovered == WinSpec => []WindowsCover
<1>1. WinIInv => WindowsCover
  <2> SUFFICES ASSUME WinIInv PROVE WindowsCover
    OBVIOUS
  <2>1. base \in Nat /\ tick \in Nat /\ base = generation - 1 /\ generation \in Nat \ {0} /\ chain \in Nat
    BY DEF WinIInv, WinTypeOK
  <2>2. PICK s \in Nat \ {0} : s = Stripes
    BY StripesHold DEF WinIInv
  <2>3. \A a \in Nat : \A i \in 1..count : \E t \in a..(a + s - 1) : i \in Window(t)
    BY <2>2, WindowsInARow DEF WinIInv
  <2>4. Cardinality(Window(base + tick)) <= probes
    BY <2>1, WindowFits DEF WinIInv
  <2>5. ASSUME tick >= s PROVE looked = 1..count
    <3>1. ASSUME NEW i \in 1..count PROVE i \in looked
      <4>1. PICK t \in base..(base + s - 1) : i \in Window(t)
        BY <2>1, <2>3
      <4>2. t - base \in 0..(tick - 1) /\ base + (t - base) = t
        BY <2>1, <2>5
      <4> QED BY <4>1, <4>2 DEF WinIInv, LookedOK
    <3> QED BY <3>1 DEF WinIInv, WinTypeOK
  <2>6. ASSUME chain >= s PROVE chained = 1..count
    <3> DEFINE newest == IF tick = 0 THEN generation - 2 ELSE generation - 1
    <3>1. newest \in Int /\ chain <= newest + 1
          /\ \A g \in (newest - chain + 1)..newest : Window(g) \subseteq chained
      BY <2>1 DEF WinIInv, ChainOK
    <3> HIDE DEF newest
    <3>2. ASSUME NEW i \in 1..count PROVE i \in chained
      <4>1. newest - s + 1 \in Nat
        BY <2>1, <2>6, <3>1
      <4>2. PICK t \in (newest - s + 1)..newest : i \in Window(t)
        <5>1. (newest - s + 1) + s - 1 = newest
          BY <3>1
        <5> QED BY <2>3, <4>1, <5>1
      <4>3. t \in (newest - chain + 1)..newest
        BY <2>1, <2>6, <3>1
      <4> QED BY <3>1, <4>2, <4>3
    <3> QED BY <3>2 DEF WinIInv, WinTypeOK
  <2>7. ASSUME s <= MaxIdle + 1, tick >= s PROVE idle <= MaxIdle
    <3>1. useful \in 1..count /\ idle \in Nat
      BY DEF WinIInv, WinTypeOK
    <3>2. base + (tick - s) \in Nat
      BY <2>1, <2>7
    <3>3. PICK t \in (base + (tick - s))..(base + (tick - s) + s - 1) : useful \in Window(t)
      BY <2>3, <3>1, <3>2
    <3>4. t - base \in 0..(tick - 1) /\ base + (t - base) = t /\ t - base >= tick - s
      BY <2>1, <2>7, <3>2
    <3>5. idle <= tick - 1 - (t - base)
      BY <3>3, <3>4 DEF WinIInv, IdleOK
    <3> QED BY <2>1, <2>7, <3>1, <3>4, <3>5, WinAssumption
  <2> QED BY <2>2, <2>4, <2>5, <2>6, <2>7 DEF WindowsCover
<1> QED BY WindowsInvariance, <1>1, PTL
=============================================================================
