--------------------------- MODULE LockdownProofs ---------------------------
(***************************************************************************)
(* Proofs about Lockdown for every set of runs, names and commands, every  *)
(* capacity of the incident store, every set of faults and every bound on  *)
(* restarts.                                                               *)
(***************************************************************************)
EXTENDS Lockdown, TLAPS

-----------------------------------------------------------------------------
(* The inductive invariant, in parts, the first of which is TypeOK.        *)

(* Nothing bears a stamp of the future, so what root approves next is      *)
(* different from every approval that anyone holds.                        *)
Past(v) == v = NoApproval \/ v.made <= now

Stamped ==
  /\ \A n \in Names : Past(approvals[n])
  /\ \A r \in Runs : Past(prov[r]) /\ Past(admitted[r])
  /\ \A i \in Responders : /\ Past(took[i]) /\ Past(incidents[i].approval)
                           /\ incidents[i].made <= now

(* One response at a time revokes, for the incident that it created.       *)
Exclusive ==
  \A i \in Responders :
    pc[i] \in {"load", "unlink", "update"} =>
      inclock = i /\ incidents[i].approval = took[i]

(* What is about to be unlinked is what was loaded, or it is gone and root *)
(* cannot put anything in its place; once unlinked it does not come back.  *)
Revoking ==
  \A i \in Responders :
    /\ pc[i] = "unlink" =>
         /\ took[i] # NoApproval
         /\ Taken(i) = took[i] \/ (Taken(i) = NoApproval /\ main # "editing")
    /\ pc[i] = "update" => took[i] = NoApproval \/ Taken(i) # took[i]

(* Nobody acts on a run before it is released.                             *)
Quiet(r) ==
  /\ pc[Guard(r)] = "idle" /\ pc[Worker(r)] = "idle"
  /\ \A s \in Scanners : scan[s].run # r
  /\ incidents[Guard(r)].state = "none" /\ incidents[Worker(r)].state = "none"

Untouched ==
  /\ \A r \in Runs : run[r] = "none" => Quiet(r)
  /\ main \in {"matching", "admitted"} => cur \in Runs /\ run[cur] = "none"
  /\ main \in {"launched", "recorded"} => cur \in Runs /\ run[cur] = "live" /\ Quiet(cur)
  /\ main = "killing" => cur \in Runs /\ run[cur] # "none"

(* A thread that responds, or has responded, has ended its run for good:   *)
(* it creates one incident at most.                                        *)
Once ==
  \A r \in Runs :
    /\ pc[Guard(r)] \notin {"idle", "kill"} => run[r] = "ended"
    /\ pc[Worker(r)] \in {"capture", "mark"} => run[r] \in {"dead", "ended"}
    /\ pc[Worker(r)] \notin {"idle", "kill", "capture", "mark"} => run[r] = "ended"
    /\ incidents[Guard(r)].state # "none" =>
         run[r] = "ended" /\ pc[Guard(r)] \notin {"kill", "receipt", "respond"}
    /\ incidents[Worker(r)].state # "none" =>
         run[r] = "ended" /\ pc[Worker(r)] \notin {"capture", "mark", "receipt", "respond"}

Viewed == \A s \in Scanners : scan[s] # NoView => scan[s].run \in Runs

IInv ==
  /\ TypeOK /\ Stamped /\ Exclusive /\ Revoking /\ Viewed /\ Untouched /\ Once
  /\ CompletedMeansRevoked /\ OneIncidentPerIdentity

-----------------------------------------------------------------------------
(* A responder is the guard or the worker of one run, never both.          *)
LEMMA ResponderFacts ==
  /\ \A r \in Runs :
       /\ Guard(r) \in Responders /\ Worker(r) \in Responders
       /\ Guard(r)[1] = r /\ Worker(r)[1] = r
       /\ Guard(r)[2] = "guard" /\ Worker(r)[2] = "worker"
  /\ \A i \in Responders : i[1] \in Runs /\ (i = Guard(i[1]) \/ i = Worker(i[1]))
  /\ \A r, s \in Runs : Guard(r) # Worker(s) /\ (Guard(r) = Guard(s) => r = s)
                        /\ (Worker(r) = Worker(s) => r = s)
  BY DEF Responders, Guard, Worker

(* Compaction leaves an incident as it is, or drops it if it is cleared.   *)
LEMMA CompactKeeps ==
  ASSUME NEW inc
  PROVE  /\ Compact(inc) = [i \in Responders |-> Compact(inc)[i]]
         /\ \A i \in Responders :
              \/ Compact(inc)[i] = inc[i]
              \/ inc[i].state = "CLEARED" /\ Compact(inc)[i] = NoIncident
  BY DEF Compact, Oldest, Cleared

(* Writing one field of an incident leaves the others alone.               *)
LEMMA IncidentFacts ==
  ASSUME NEW v \in Incident, NEW s \in IncidentStates
  PROVE  LET w == [v EXCEPT !.state = s] IN
         /\ w \in Incident /\ w.state = s
         /\ w.approval = v.approval /\ w.match = v.match /\ w.made = v.made /\ w.done = v.done
  BY DEF Incident

LEMMA DoneFacts ==
  ASSUME NEW v \in Incident
  PROVE  LET w == [v EXCEPT !.done = TRUE] IN
         /\ w \in Incident /\ w.done = TRUE /\ w.state = v.state
         /\ w.approval = v.approval /\ w.match = v.match /\ w.made = v.made
  BY DEF Incident

(* The store before and after the completion of a response.                *)
LEMMA CompletedFacts ==
  ASSUME TypeOK, NEW i \in Responders
  PROVE  /\ Completed(i) \in [Responders -> Incident]
         /\ \A j \in Responders \ {i} : Completed(i)[j] = incidents[j]
         /\ Completed(i)[i] = [incidents[i] EXCEPT !.done = TRUE]
  BY DoneFacts DEF Completed, TypeOK

(* Compaction keeps the type of the store.                                 *)
LEMMA NoIncidentType ==
  /\ NoIncident \in Incident
  /\ NoIncident.state = "none" /\ NoIncident.approval = NoApproval
  /\ NoIncident.made = 0 /\ ~NoIncident.done
  <1>1. NoIdentity \in Identity
    BY DEF NoIdentity, Identity
  <1> QED BY <1>1 DEF Incident, IncidentStates, NoIncident

LEMMA CompactType ==
  ASSUME NEW inc \in [Responders -> Incident]
  PROVE  Compact(inc) \in [Responders -> Incident]
  BY NoIncidentType DEF Compact

(* The end of a response changes nothing but that it is done, and may drop *)
(* cleared incidents; a restart only drops.                                *)
Dropped(j) == incidents[j].state = "CLEARED" /\ incidents'[j] = NoIncident

Kept(j) ==
  /\ incidents'[j].state = incidents[j].state /\ incidents'[j].approval = incidents[j].approval
  /\ incidents'[j].match = incidents[j].match /\ incidents'[j].made = incidents[j].made

LEMMA UpdateKeeps ==
  ASSUME TypeOK, NEW i \in Responders, RespondUpdate(i) \/ RespondOverfull(i),
         NEW j \in Responders
  PROVE  /\ Dropped(j) \/ Kept(j)
         /\ j # i => Dropped(j) \/ incidents'[j] = incidents[j]
  <1>1. /\ Completed(i)[j].state = incidents[j].state
        /\ Completed(i)[j].approval = incidents[j].approval
        /\ Completed(i)[j].match = incidents[j].match
        /\ Completed(i)[j].made = incidents[j].made
    <2>1. CASE j = i
      <3>1. incidents[i] \in Incident
        BY DEF TypeOK
      <3> QED BY <2>1, <3>1, CompletedFacts, DoneFacts
    <2>2. CASE j # i
      BY <2>2, CompletedFacts
    <2> QED BY <2>1, <2>2
  <1>2. j # i => Completed(i)[j] = incidents[j]
    BY CompletedFacts
  <1>3. CASE incidents' = Compact(Completed(i))
    <2>1. \/ incidents'[j] = Completed(i)[j]
          \/ Completed(i)[j].state = "CLEARED" /\ incidents'[j] = NoIncident
      BY <1>3, CompactKeeps
    <2> QED BY <2>1, <1>1, <1>2 DEF Dropped, Kept
  <1>4. CASE incidents' = Completed(i)
    BY <1>4, <1>1, <1>2 DEF Kept
  <1>5. CASE incidents' = incidents
    BY <1>5 DEF Kept
  <1> QED BY <1>3, <1>4, <1>5 DEF RespondUpdate, RespondOverfull

LEMMA RestartKeeps ==
  ASSUME Restart, NEW j \in Responders
  PROVE  Dropped(j) \/ incidents'[j] = incidents[j]
  BY CompactKeeps DEF Restart, Dropped

(* The frame conditions and the helpers of the actions stay expanded.      *)
USE DEF stored, runs, locks, server, scans, NotRequest, NotEnd, NotContain,
        NotRespond, NotSweep, NotScan, Request, Step, EndRun

-----------------------------------------------------------------------------
(* TypeOK is preserved by every step.                                    *)

(* TypeOK survives a request other than a start.                         *)
LEMMA RequestType ==
  ASSUME TypeOK, Requests \/ EditDone \/ KillDone
  PROVE  TypeOK'
  <1> USE LockdownAssumption, ApprovalAssumption, ResponderFacts DEF TypeOK,
        RunStates, Starting, Steps, Scanners, NoView
  <1>1. CASE Edit
    BY <1>1 DEF Edit
  <1>2. ASSUME NEW i \in Responders, Acknowledge(i) PROVE TypeOK'
    <2>1. [incidents[i] EXCEPT !.state = "ACKNOWLEDGED"] \in Incident
      BY IncidentFacts DEF IncidentStates
    <2>2. incidents' \in [Responders -> Incident]
      BY <1>2, <2>1 DEF Acknowledge
    <2> QED BY <1>2, <2>2 DEF Acknowledge
  <1>3. ASSUME NEW i \in Responders, Clear(i) PROVE TypeOK'
    <2>1. [incidents[i] EXCEPT !.state = "CLEARED"] \in Incident
      BY IncidentFacts DEF IncidentStates
    <2>2. incidents' \in [Responders -> Incident]
      BY <1>3, <2>1 DEF Clear
    <2> QED BY <1>3, <2>2 DEF Clear
  <1>4. ASSUME NEW r \in Runs, Kill(r) PROVE TypeOK'
    BY <1>4 DEF Kill, Indexed
  <1>5. ASSUME NEW r \in Runs, StartAdmit(r) PROVE TypeOK'
    BY <1>5 DEF StartAdmit, Admissible, Indexed, Locked, InForce
  <1>6. ASSUME NEW n \in Names, Revoke(n) PROVE TypeOK'
    BY <1>6 DEF Revoke
  <1>7. ASSUME NEW n \in Names, NEW a \in Argvs, NEW e \in Exes, Approve(n, a, e) PROVE TypeOK'
    BY <1>7 DEF Approve, Approval
  <1>8. CASE EditRefused
    BY <1>8 DEF EditRefused
  <1>9. CASE KillDone
    <2>1. run' \in [Runs -> RunStates]
      BY <1>9 DEF KillDone
    <2>2. prov' \in [Runs -> Approval \cup {NoApproval}]
      BY <1>9 DEF KillDone
    <2> QED BY <1>9, <2>1, <2>2 DEF KillDone
  <1> QED
    BY <1>1, <1>2, <1>3, <1>4, <1>5, <1>6, <1>7, <1>8, <1>9 DEF Requests,
      EditDone

(* TypeOK survives a step of _start.                                     *)
LEMMA StartType ==
  ASSUME TypeOK, Start
  PROVE  TypeOK'
  <1> USE LockdownAssumption, ApprovalAssumption, ResponderFacts DEF TypeOK,
        RunStates, Starting, Steps, Scanners, NoView
  <1>1. CASE StartMatch
    <2>1. Matching(cur) # {} => approvals[CHOOSE n \in Matching(cur) : TRUE] \in Approval \cup {NoApproval}
      BY DEF Matching
    <2>2. admitted' \in [Runs -> Approval \cup {NoApproval}]
      BY <1>1, <2>1 DEF StartMatch
    <2> QED BY <1>1, <2>2 DEF StartMatch
  <1>2. CASE StartRefused
    BY <1>2 DEF StartRefused
  <1>3. CASE StartLaunch
    BY <1>3 DEF StartLaunch
  <1>4. CASE StartProvenance
    BY <1>4 DEF StartProvenance
  <1>5. CASE StartRelease
    BY <1>5 DEF StartRelease
  <1>6. CASE StartReturn
    BY <1>6 DEF StartReturn
  <1>7. CASE StartFail
    BY <1>7 DEF StartFail
  <1> QED
    BY <1>1, <1>2, <1>3, <1>4, <1>5, <1>6, <1>7 DEF Start

(* TypeOK survives the end of a run, contained or not.                   *)
LEMMA ContainType ==
  ASSUME TypeOK, NEW r \in Runs, Exit(r) \/ Complete(r) \/ GuardTrip(r) \/
  Contain(r)
  PROVE  TypeOK'
  <1> USE LockdownAssumption, ApprovalAssumption, ResponderFacts DEF TypeOK,
        RunStates, Starting, Steps, Scanners, NoView
  <1>1. CASE Exit(r)
    BY <1>1 DEF Exit, Alive, Started
  <1>2. CASE Complete(r)
    BY <1>2 DEF Complete
  <1>3. CASE GuardTrip(r)
    BY <1>3 DEF GuardTrip, Started
  <1>4. CASE GuardContained(r)
    BY <1>4 DEF GuardContained
  <1>5. CASE GuardFailed(r)
    <2>1. run' \in [Runs -> RunStates]
      BY <1>5 DEF GuardFailed
    <2>2. prov' \in [Runs -> Approval \cup {NoApproval}]
      BY <1>5 DEF GuardFailed
    <2>3. took' \in [Responders -> Approval \cup {NoApproval}]
      BY <1>5 DEF GuardFailed
    <2> QED BY <1>5, <2>1, <2>2, <2>3 DEF GuardFailed
  <1>6. CASE WorkerYield(r)
    BY <1>6 DEF WorkerYield
  <1>7. CASE WorkerContained(r)
    BY <1>7 DEF WorkerContained, Alive
  <1>8. CASE WorkerFailed(r)
    <2>1. run' \in [Runs -> RunStates]
      BY <1>8 DEF WorkerFailed
    <2>2. prov' \in [Runs -> Approval \cup {NoApproval}]
      BY <1>8 DEF WorkerFailed
    <2> QED BY <1>8, <2>1, <2>2 DEF WorkerFailed
  <1>9. CASE WorkerCapture(r)
    BY <1>9 DEF WorkerCapture
  <1>10. CASE WorkerMark(r)
    BY <1>10 DEF WorkerMark
  <1> QED
    BY <1>1, <1>2, <1>3, <1>4, <1>5, <1>6, <1>7, <1>8, <1>9, <1>10 DEF Contain

(* What a responder identifies is a value an incident can hold.            *)
LEMMA IdentityType ==
  ASSUME TypeOK, NEW i \in Responders
  PROVE  Identities(i) \subseteq Identity
  <1>1. took[i] # NoApproval => took[i].exe \in Exes
    BY DEF TypeOK, Approval
  <1>2. i[1] \in Runs
    BY DEF Responders
  <1>3. shows[i[1]].exe \in Exes /\ shows[i[1]].profile \in Profiles
    BY <1>2 DEF TypeOK, Shown
  <1> QED BY <1>1, <1>3 DEF Identities, Executables, Identity

(* TypeOK survives a step of a response.                                 *)
LEMMA RespondType ==
  ASSUME TypeOK, NEW i \in Responders, Respond(i)
  PROVE  TypeOK'
  <1> USE LockdownAssumption, ApprovalAssumption, ResponderFacts DEF TypeOK,
        RunStates, Starting, Steps, Scanners, NoView
  <1>1. CASE Publish(i)
    <2>1. pc' \in [Responders -> Steps]
      BY <1>1 DEF Publish
    <2>2. receipts' \subseteq Runs
      BY <1>1 DEF Publish
    <2> QED BY <1>1, <2>1, <2>2 DEF Publish
  <1>2. CASE RespondLink(i)
    BY <1>2 DEF RespondLink
  <1>3. CASE RespondCreate(i)
    <2>1. PICK m \in Identity : Create(i, m)
      BY <1>3, IdentityType DEF RespondCreate
    <2> QED BY <2>1 DEF Create, Incident, IncidentStates
  <1>4. CASE RespondRefused(i)
    BY <1>4 DEF RespondRefused, RespondFail
  <1>5. CASE RespondLoad(i)
    <2>1. pc' \in [Responders -> Steps]
      BY <1>5 DEF RespondLoad
    <2> QED BY <1>5, <2>1 DEF RespondLoad
  <1>6. CASE RespondReplaced(i)
    BY <1>6 DEF RespondReplaced, Taken, RespondFail
  <1>7. CASE RespondUnlink(i)
    BY <1>7 DEF RespondUnlink, Taken
  <1>8. CASE RespondMissing(i)
    BY <1>8 DEF RespondMissing, Taken, RespondFail
  <1>9. CASE RespondUpdate(i)
    <2>1. incidents' \in [Responders -> Incident]
      BY <1>9, CompletedFacts, CompactType DEF RespondUpdate
    <2> QED BY <1>9, <2>1 DEF RespondUpdate
  <1>10. CASE RespondOverfull(i)
    <2>1. CASE incidents' = Completed(i)
      BY <1>10, <2>1, CompletedFacts DEF RespondOverfull, RespondFail
    <2>2. CASE UNCHANGED incidents
      BY <1>10, <2>2 DEF RespondOverfull, RespondFail
    <2> QED BY <1>10, <2>1, <2>2 DEF RespondOverfull
  <1>11. CASE SweepCheck(i)
    BY <1>11 DEF SweepCheck
  <1>12. CASE SweepEnter(i)
    BY <1>12 DEF SweepEnter
  <1>13. CASE SweepCount(i)
    BY <1>13 DEF SweepCount, Alive
  <1>14. CASE SweepFail(i)
    BY <1>14 DEF SweepFail
  <1>15. CASE SweepLost(i)
    BY <1>15 DEF SweepLost
  <1>16. CASE SweepDone(i)
    BY <1>16 DEF SweepDone, InlineDone
  <1>17. CASE Done(i)
    BY <1>17 DEF Done
  <1> QED
    BY <1>1, <1>2, <1>3, <1>4, <1>5, <1>6, <1>7, <1>8, <1>9, <1>10, <1>11,
      <1>12, <1>13, <1>14, <1>15, <1>16, <1>17 DEF Respond

(* TypeOK survives a step of a scan.                                     *)
LEMMA ScanType ==
  ASSUME TypeOK, Scan
  PROVE  TypeOK'
  <1> USE LockdownAssumption, ApprovalAssumption, ResponderFacts DEF TypeOK,
        RunStates, Starting, Steps, Scanners, NoView
  <1>1. ASSUME NEW r \in Runs, ScanRead(r) PROVE TypeOK'
    BY <1>1 DEF ScanRead, Alive, View, Authorized
  <1>2. ASSUME NEW r \in Runs, SweepRead(r) PROVE TypeOK'
    <2>1. CASE View("sweep", r)
      BY <1>2, <2>1 DEF SweepRead, View, Authorized
    <2>2. CASE UNCHANGED scan
      BY <1>2, <2>2 DEF SweepRead
    <2> QED BY <1>2, <2>1, <2>2 DEF SweepRead
  <1>3. ASSUME NEW s \in Scanners, ScanDecide(s) PROVE TypeOK'
    <2>1. pc' = pc \/ pc' = [pc EXCEPT ![Worker(scan[s].run)] = "kill"]
      BY <1>3 DEF ScanDecide
    <2>2. inline' = inline \/ inline' = scan[s].run
      BY <1>3 DEF ScanDecide
    <2>3. scan' = [scan EXCEPT ![s] = NoView] /\ UNCHANGED todo /\ NotScan
      BY <1>3 DEF ScanDecide
    <2>4. pc' \in [Responders -> Steps] /\ inline' \in Runs \cup {NoRun}
      BY <2>1, <2>2
    <2> QED BY <2>3, <2>4
  <1> QED
    BY <1>1, <1>2, <1>3 DEF Scan

(* TypeOK survives a crash and the recovery from it.                     *)
LEMMA RestartType ==
  ASSUME TypeOK, Restart
  PROVE  TypeOK'
  <1> USE LockdownAssumption, ApprovalAssumption, ResponderFacts DEF TypeOK,
        RunStates, Starting, Steps, Scanners, NoView
  <1>1. CASE Restart
    <2>1. incidents' = incidents \/ incidents' = Compact(incidents)
      BY DEF Restart
    <2>2. incidents' \in [Responders -> Incident]
      BY <2>1, CompactType
    <2>3. healthy' \in BOOLEAN
      BY DEF Restart, CanCompact
    <2> QED BY <2>2, <2>3 DEF Restart
  <1> QED
    BY <1>1

(* TypeOK survives every step, stuttering included.                      *)
LEMMA StepType ==
  ASSUME IInv, [Next]_vars
  PROVE  TypeOK'
  <1> USE DEF IInv
  <1>1. CASE UNCHANGED vars
    BY <1>1 DEF vars, TypeOK, Approval, Incident, RunStates, Starting, Steps,
      Scanners, IncidentStates
  <1>2. CASE Requests \/ EditDone \/ KillDone
    BY <1>2, RequestType
  <1>3. CASE Start
    BY <1>3, StartType
  <1>4. ASSUME NEW r \in Runs, Exit(r) \/ Complete(r) \/ GuardTrip(r) \/ Contain(r) PROVE TypeOK'
    BY <1>4, ContainType
  <1>5. ASSUME NEW i \in Responders, Respond(i) PROVE TypeOK'
    BY <1>5, RespondType
  <1>6. CASE Scan
    BY <1>6, ScanType
  <1>7. CASE Restart
    BY <1>7, RestartType
  <1> QED
    BY <1>1, <1>2, <1>3, <1>4, <1>5, <1>6, <1>7 DEF Next

-----------------------------------------------------------------------------
(* Stamped is preserved by every step.                                   *)

(* Stamped survives a request other than a start.                        *)
LEMMA RequestStamped ==
  ASSUME TypeOK, Stamped, Requests \/ EditDone \/ KillDone
  PROVE  Stamped'
  <1> USE LockdownAssumption, ApprovalAssumption, ResponderFacts DEF TypeOK,
        Stamped, RunStates, Starting, Steps, Scanners, Past
  <1>1. ASSUME NEW i \in Responders, Acknowledge(i) PROVE Stamped'
    BY <1>1 DEF Acknowledge, InForce
  <1>2. ASSUME NEW i \in Responders, Clear(i) PROVE Stamped'
    BY <1>2 DEF Clear, InForce
  <1>3. ASSUME NEW n \in Names, Revoke(n) PROVE Stamped'
    BY <1>3 DEF Revoke
  <1>4. ASSUME NEW n \in Names, NEW a \in Argvs, NEW e \in Exes, Approve(n, a, e) PROVE Stamped'
    <2>1. now \in Nat /\ now' = now + 1
      BY <1>4 DEF Approve
    <2>2. \A v \in Approval \cup {NoApproval} :
            v = NoApproval \/ v.made <= now => v = NoApproval \/ v.made <= now'
      BY <2>1 DEF Approval
    <2>3. \A m \in Names : approvals'[m] = NoApproval \/ approvals'[m].made <= now'
      BY <1>4, <2>1, <2>2 DEF Approve
    <2>4. \A i \in Responders : incidents[i].made <= now'
      BY <2>1 DEF Incident
    <2>5. \A i \in Responders : incidents[i].approval \in Approval \cup {NoApproval}
      BY DEF Incident
    <2> QED BY <1>4, <2>2, <2>3, <2>4, <2>5 DEF Approve
  <1>5. CASE KillDone
    BY <1>5 DEF KillDone
  <1>6. CASE Edit \/ (\E r \in Runs : Kill(r)) \/ (\E r \in Runs :
            StartAdmit(r)) \/ EditRefused
    BY <1>6 DEF Edit, Kill, Indexed, StartAdmit, Admissible, Locked, InForce,
      EditRefused
  <1> QED
    BY <1>1, <1>2, <1>3, <1>4, <1>5, <1>6 DEF Requests, EditDone

(* Stamped survives a step of _start.                                    *)
LEMMA StartStamped ==
  ASSUME TypeOK, Stamped, Start
  PROVE  Stamped'
  <1> USE LockdownAssumption, ApprovalAssumption, ResponderFacts DEF TypeOK,
        Stamped, RunStates, Starting, Steps, Scanners, Past
  <1>1. CASE StartMatch
    <2>1. CASE Matching(cur) = {}
      BY <1>1, <2>1 DEF StartMatch
    <2>2. CASE Matching(cur) # {}
      <3>1. PICK n \in Names : n = CHOOSE m \in Matching(cur) : TRUE
        BY <2>2 DEF Matching
      <3>2. admitted' = [admitted EXCEPT ![cur] = approvals[n]]
        BY <1>1, <2>2, <3>1 DEF StartMatch
      <3>3. \A r \in Runs : admitted'[r] = admitted[r] \/ admitted'[r] = approvals[n]
        BY <3>2
      <3>4. UNCHANGED <<approvals, prov, now, incidents, took>>
        BY <1>1 DEF StartMatch
      <3> QED BY <3>3, <3>4
    <2> QED BY <2>1, <2>2
  <1>2. CASE StartProvenance
    BY <1>2 DEF StartProvenance
  <1>3. CASE StartFail
    BY <1>3 DEF StartFail
  <1>4. CASE StartRefused \/ StartLaunch \/ StartRelease \/ StartReturn
    BY <1>4 DEF StartRefused, StartLaunch, StartRelease, StartReturn
  <1> QED
    BY <1>1, <1>2, <1>3, <1>4 DEF Start

(* Stamped survives the end of a run, contained or not.                  *)
LEMMA ContainStamped ==
  ASSUME TypeOK, Stamped, NEW r \in Runs, Exit(r) \/ Complete(r) \/
  GuardTrip(r) \/ Contain(r)
  PROVE  Stamped'
  <1> USE LockdownAssumption, ApprovalAssumption, ResponderFacts DEF TypeOK,
        Stamped, RunStates, Starting, Steps, Scanners, Past
  <1>1. CASE Complete(r)
    BY <1>1 DEF Complete
  <1>2. CASE GuardTrip(r)
    BY <1>2 DEF GuardTrip, Started
  <1>3. CASE GuardContained(r)
    BY <1>3 DEF GuardContained
  <1>4. CASE GuardFailed(r)
    <2>1. \A s \in Runs : prov'[s] \in {prov[s], NoApproval}
      BY <1>4 DEF GuardFailed, EndRun
    <2>2. \A i \in Responders : took'[i] \in {took[i], NoApproval}
      BY <1>4 DEF GuardFailed
    <2>3. UNCHANGED <<approvals, incidents, now, admitted>>
      BY <1>4 DEF GuardFailed, EndRun
    <2> QED BY <2>1, <2>2, <2>3
  <1>5. CASE WorkerFailed(r)
    <2>1. \A s \in Runs : prov'[s] \in {prov[s], NoApproval}
      BY <1>5 DEF WorkerFailed
    <2> QED BY <1>5, <2>1 DEF WorkerFailed
  <1>6. CASE WorkerCapture(r)
    BY <1>6 DEF WorkerCapture
  <1>7. CASE WorkerMark(r)
    BY <1>7 DEF WorkerMark
  <1>8. CASE Exit(r) \/ WorkerYield(r) \/ WorkerContained(r)
    BY <1>8 DEF Exit, Alive, Started, WorkerYield, WorkerContained
  <1> QED
    BY <1>1, <1>2, <1>3, <1>4, <1>5, <1>6, <1>7, <1>8 DEF Contain

(* Stamped survives a step of a response.                                *)
LEMMA RespondStamped ==
  ASSUME TypeOK, Stamped, NEW i \in Responders, Respond(i)
  PROVE  Stamped'
  <1> USE LockdownAssumption, ApprovalAssumption, ResponderFacts DEF TypeOK,
        Stamped, RunStates, Starting, Steps, Scanners, Past
  <1>1. CASE RespondCreate(i)
    <2>1. now \in Nat /\ now' = now + 1
      BY <1>1 DEF RespondCreate, Create
    <2>2. \A v \in Approval \cup {NoApproval} :
            v = NoApproval \/ v.made <= now => v = NoApproval \/ v.made <= now'
      BY <2>1 DEF Approval
    <2>3. \A j \in Responders : incidents[j].approval \in Approval \cup {NoApproval}
      BY DEF Incident
    <2>4. \A j \in Responders : incidents'[j].made <= now'
      BY <1>1, <2>1 DEF RespondCreate, Create, Incident
    <2>5. \A j \in Responders :
            incidents'[j].approval = NoApproval \/ incidents'[j].approval.made <= now'
      BY <1>1, <2>2, <2>3 DEF RespondCreate, Create
    <2> QED BY <1>1, <2>2, <2>4, <2>5 DEF RespondCreate, Create
  <1>2. CASE RespondUnlink(i)
    BY <1>2 DEF RespondUnlink, Taken
  <1>3. CASE RespondUpdate(i)
    <2>1. \A j \in Responders : Dropped(j) \/ Kept(j)
      BY <1>3, UpdateKeeps
    <2> QED BY <1>3, <2>1 DEF RespondUpdate, RespondFail, Dropped, Kept, NoIncident
  <1>4. CASE RespondOverfull(i)
    <2>1. \A j \in Responders : Dropped(j) \/ Kept(j)
      BY <1>4, UpdateKeeps
    <2>2. UNCHANGED <<approvals, prov, now, admitted, took>>
      BY <1>4 DEF RespondOverfull, RespondFail, NotRespond, runs
    <2> QED BY <2>1, <2>2, NoIncidentType DEF Dropped, Kept
  <1>5. CASE Done(i)
    BY <1>5 DEF Done
  <1>6. CASE Publish(i) \/ RespondLink(i) \/ RespondRefused(i) \/
            RespondLoad(i) \/ RespondReplaced(i) \/ RespondMissing(i) \/ SweepCheck(i)
            \/ SweepEnter(i) \/ SweepCount(i) \/ SweepFail(i) \/ SweepLost(i) \/
            SweepDone(i)
    BY <1>6 DEF Publish, RespondLink, RespondRefused,
      RespondFail, RespondLoad, Taken, RespondReplaced, RespondMissing,
      SweepCheck, SweepEnter, SweepCount, Alive, SweepFail, SweepLost,
      SweepDone, NoView, InlineDone
  <1> QED
    BY <1>1, <1>2, <1>3, <1>4, <1>5, <1>6 DEF Respond

(* Stamped survives a step of a scan.                                    *)
LEMMA ScanStamped ==
  ASSUME TypeOK, Stamped, Scan
  PROVE  Stamped'
  <1> USE LockdownAssumption, ApprovalAssumption, ResponderFacts DEF TypeOK,
        Stamped, RunStates, Starting, Steps, Scanners, Past
  <1>1. CASE (\E r \in Runs : ScanRead(r)) \/ (\E r \in Runs : SweepRead(r))
            \/ (\E s \in Scanners : ScanDecide(s))
    BY <1>1 DEF ScanRead, NoView, Alive, View, Authorized, SweepRead,
      InlineDone, ScanDecide, Locked, InForce
  <1> QED
    BY <1>1 DEF Scan

(* Stamped survives a crash and the recovery from it.                    *)
LEMMA RestartStamped ==
  ASSUME TypeOK, Stamped, Restart
  PROVE  Stamped'
  <1> USE LockdownAssumption, ApprovalAssumption, ResponderFacts DEF TypeOK,
        Stamped, RunStates, Starting, Steps, Scanners, Past
  <1>1. CASE Restart
    <2>1. \A j \in Responders : Dropped(j) \/ incidents'[j] = incidents[j]
      BY <1>1, RestartKeeps
    <2>2. /\ UNCHANGED <<approvals, now, admitted>>
          /\ prov' = [s \in Runs |-> NoApproval] /\ took' = [j \in Responders |-> NoApproval]
      BY <1>1 DEF Restart
    <2>3. \A j \in Responders :
            /\ incidents'[j].approval = NoApproval \/ incidents'[j].approval.made <= now
            /\ incidents'[j].made <= now
      BY <2>1, NoIncidentType DEF Dropped
    <2> QED BY <2>2, <2>3
  <1> QED
    BY <1>1

(* Stamped survives every step, stuttering included.                     *)
LEMMA StepStamped ==
  ASSUME IInv, [Next]_vars
  PROVE  Stamped'
  <1> USE DEF IInv
  <1>1. CASE UNCHANGED vars
    BY <1>1 DEF vars, Stamped, Past
  <1>2. CASE Requests \/ EditDone \/ KillDone
    BY <1>2, RequestStamped
  <1>3. CASE Start
    BY <1>3, StartStamped
  <1>4. ASSUME NEW r \in Runs, Exit(r) \/ Complete(r) \/ GuardTrip(r) \/ Contain(r) PROVE Stamped'
    BY <1>4, ContainStamped
  <1>5. ASSUME NEW i \in Responders, Respond(i) PROVE Stamped'
    BY <1>5, RespondStamped
  <1>6. CASE Scan
    BY <1>6, ScanStamped
  <1>7. CASE Restart
    BY <1>7, RestartStamped
  <1> QED
    BY <1>1, <1>2, <1>3, <1>4, <1>5, <1>6, <1>7 DEF Next

-----------------------------------------------------------------------------
(* Exclusive is preserved by every step.                                 *)

(* Exclusive survives a request other than a start.                      *)
LEMMA RequestExclusive ==
  ASSUME TypeOK, Exclusive, Requests \/ EditDone \/ KillDone
  PROVE  Exclusive'
  <1> USE LockdownAssumption, ApprovalAssumption, ResponderFacts DEF TypeOK,
        Exclusive, RunStates, Starting, Steps, Scanners
  <1>1. ASSUME NEW i \in Responders, Acknowledge(i) PROVE Exclusive'
    BY <1>1 DEF Acknowledge, InForce
  <1>2. ASSUME NEW i \in Responders, Clear(i) PROVE Exclusive'
    BY <1>2 DEF Clear, InForce
  <1>3. CASE Edit \/ (\E r \in Runs : Kill(r)) \/ (\E r \in Runs :
            StartAdmit(r)) \/ (\E n \in Names : Revoke(n)) \/ (\E n \in Names, a \in
            Argvs, e \in Exes : Approve(n, a, e)) \/ EditRefused \/ KillDone
    BY <1>3 DEF Edit, Kill, Indexed, StartAdmit, Admissible, Locked, InForce,
      Revoke, Approve, EditRefused, KillDone
  <1> QED
    BY <1>1, <1>2, <1>3 DEF Requests, EditDone

(* Exclusive survives a step of _start.                                  *)
LEMMA StartExclusive ==
  ASSUME TypeOK, Exclusive, Start
  PROVE  Exclusive'
  <1> USE LockdownAssumption, ApprovalAssumption, ResponderFacts DEF TypeOK,
        Exclusive, RunStates, Starting, Steps, Scanners
  <1>1. CASE StartMatch \/ StartRefused \/ StartLaunch \/ StartProvenance \/
            StartRelease \/ StartReturn \/ StartFail
    BY <1>1 DEF StartMatch, StartRefused, StartLaunch, StartProvenance,
      StartRelease, StartReturn, StartFail
  <1> QED
    BY <1>1 DEF Start

(* Exclusive survives the end of a run, contained or not.                *)
LEMMA ContainExclusive ==
  ASSUME TypeOK, Exclusive, NEW r \in Runs, Exit(r) \/ Complete(r) \/
  GuardTrip(r) \/ Contain(r)
  PROVE  Exclusive'
  <1> USE LockdownAssumption, ApprovalAssumption, ResponderFacts DEF TypeOK,
        Exclusive, RunStates, Starting, Steps, Scanners
  <1>1. CASE GuardTrip(r)
    BY <1>1 DEF GuardTrip, Started
  <1>2. CASE GuardContained(r)
    BY <1>2 DEF GuardContained
  <1>3. CASE GuardFailed(r)
    BY <1>3 DEF GuardFailed, Alive
  <1>4. CASE WorkerYield(r)
    BY <1>4 DEF WorkerYield
  <1>5. CASE WorkerContained(r)
    BY <1>5 DEF WorkerContained, Alive
  <1>6. CASE WorkerFailed(r)
    BY <1>6 DEF WorkerFailed, Alive, Indexed
  <1>7. CASE WorkerCapture(r)
    BY <1>7 DEF WorkerCapture
  <1>8. CASE WorkerMark(r)
    BY <1>8 DEF WorkerMark
  <1>9. CASE Exit(r) \/ Complete(r)
    BY <1>9 DEF Exit, Alive, Started, Complete
  <1> QED
    BY <1>1, <1>2, <1>3, <1>4, <1>5, <1>6, <1>7, <1>8, <1>9 DEF Contain

(* Exclusive survives a step of a response.                              *)
LEMMA RespondExclusive ==
  ASSUME TypeOK, Exclusive, NEW i \in Responders, Respond(i)
  PROVE  Exclusive'
  <1> USE LockdownAssumption, ApprovalAssumption, ResponderFacts DEF TypeOK,
        Exclusive, RunStates, Starting, Steps, Scanners
  <1>1. CASE Publish(i)
    BY <1>1 DEF Publish
  <1>2. CASE RespondLink(i)
    BY <1>2 DEF RespondLink
  <1>3. CASE RespondCreate(i)
    BY <1>3 DEF RespondCreate, Create
  <1>4. CASE RespondRefused(i)
    BY <1>4 DEF RespondRefused, RespondFail
  <1>5. CASE RespondLoad(i)
    BY <1>5 DEF RespondLoad, Taken
  <1>6. CASE RespondReplaced(i)
    BY <1>6 DEF RespondReplaced, Taken, RespondFail
  <1>7. CASE RespondUnlink(i)
    BY <1>7 DEF RespondUnlink, Taken
  <1>8. CASE RespondMissing(i)
    BY <1>8 DEF RespondMissing, Taken, RespondFail
  <1>9. CASE RespondUpdate(i)
    BY <1>9, CompactKeeps DEF RespondUpdate, Completed
  <1>10. CASE RespondOverfull(i)
    BY <1>10 DEF RespondOverfull, Completed, RespondFail
  <1>11. CASE SweepCheck(i)
    BY <1>11 DEF SweepCheck
  <1>12. CASE SweepEnter(i)
    BY <1>12 DEF SweepEnter
  <1>13. CASE SweepCount(i)
    BY <1>13 DEF SweepCount, Alive
  <1>14. CASE SweepFail(i)
    BY <1>14 DEF SweepFail
  <1>15. CASE SweepLost(i)
    BY <1>15 DEF SweepLost
  <1>16. CASE SweepDone(i)
    BY <1>16 DEF SweepDone, NoView, InlineDone
  <1>17. CASE Done(i)
    BY <1>17 DEF Done
  <1> QED
    BY <1>1, <1>2, <1>3, <1>4, <1>5, <1>6, <1>7, <1>8, <1>9, <1>10, <1>11,
      <1>12, <1>13, <1>14, <1>15, <1>16, <1>17 DEF Respond

(* Exclusive survives a step of a scan.                                  *)
LEMMA ScanExclusive ==
  ASSUME TypeOK, Exclusive, Scan
  PROVE  Exclusive'
  <1> USE LockdownAssumption, ApprovalAssumption, ResponderFacts DEF TypeOK,
        Exclusive, RunStates, Starting, Steps, Scanners
  <1>1. ASSUME NEW s \in Scanners, ScanDecide(s) PROVE Exclusive'
    BY <1>1 DEF ScanDecide, NoView, Locked, InForce
  <1>2. CASE (\E r \in Runs : ScanRead(r)) \/ (\E r \in Runs : SweepRead(r))
    BY <1>2 DEF ScanRead, NoView, Alive, View, Authorized, SweepRead,
      InlineDone
  <1> QED
    BY <1>1, <1>2 DEF Scan

(* Exclusive survives a crash and the recovery from it.                  *)
LEMMA RestartExclusive ==
  ASSUME TypeOK, Exclusive, Restart
  PROVE  Exclusive'
  <1> USE LockdownAssumption, ApprovalAssumption, ResponderFacts DEF TypeOK,
        Exclusive, RunStates, Starting, Steps, Scanners
  <1>1. CASE Restart
    BY <1>1, CompactKeeps DEF Restart, NoView
  <1> QED
    BY <1>1

(* Exclusive survives every step, stuttering included.                   *)
LEMMA StepExclusive ==
  ASSUME IInv, [Next]_vars
  PROVE  Exclusive'
  <1> USE DEF IInv
  <1>1. CASE UNCHANGED vars
    BY <1>1 DEF vars, Exclusive
  <1>2. CASE Requests \/ EditDone \/ KillDone
    BY <1>2, RequestExclusive
  <1>3. CASE Start
    BY <1>3, StartExclusive
  <1>4. ASSUME NEW r \in Runs, Exit(r) \/ Complete(r) \/ GuardTrip(r) \/ Contain(r) PROVE Exclusive'
    BY <1>4, ContainExclusive
  <1>5. ASSUME NEW i \in Responders, Respond(i) PROVE Exclusive'
    BY <1>5, RespondExclusive
  <1>6. CASE Scan
    BY <1>6, ScanExclusive
  <1>7. CASE Restart
    BY <1>7, RestartExclusive
  <1> QED
    BY <1>1, <1>2, <1>3, <1>4, <1>5, <1>6, <1>7 DEF Next

-----------------------------------------------------------------------------
(* Revoking is preserved by every step.                                  *)

(* Revoking survives a request other than a start.                       *)
LEMMA RequestRevoking ==
  ASSUME TypeOK, Stamped, Exclusive, Revoking, Requests \/ EditDone \/
  KillDone
  PROVE  Revoking'
  <1> USE LockdownAssumption, ApprovalAssumption, ResponderFacts DEF TypeOK,
        Stamped, Exclusive, Revoking, RunStates, Starting, Steps, Scanners, Past,
        Taken
  <1>1. CASE Edit
    BY <1>1 DEF Edit
  <1>2. ASSUME NEW r \in Runs, Kill(r) PROVE Revoking'
    BY <1>2 DEF Kill, Indexed
  <1>3. ASSUME NEW r \in Runs, StartAdmit(r) PROVE Revoking'
    BY <1>3 DEF StartAdmit, Admissible, Indexed, Locked, InForce
  <1>4. ASSUME NEW n \in Names, Revoke(n) PROVE Revoking'
    BY <1>4 DEF Revoke
  <1>5. ASSUME NEW n \in Names, NEW a \in Argvs, NEW e \in Exes, Approve(n, a, e) PROVE Revoking'
    BY <1>5 DEF Approve
  <1>6. CASE EditRefused
    BY <1>6 DEF EditRefused
  <1>7. CASE KillDone
    BY <1>7 DEF KillDone
  <1>8. CASE (\E i \in Responders : Acknowledge(i)) \/ (\E i \in Responders :
            Clear(i))
    BY <1>8 DEF Acknowledge, InForce, Clear
  <1> QED
    BY <1>1, <1>2, <1>3, <1>4, <1>5, <1>6, <1>7, <1>8 DEF Requests, EditDone

(* Revoking survives a step of _start.                                   *)
LEMMA StartRevoking ==
  ASSUME TypeOK, Stamped, Exclusive, Revoking, Start
  PROVE  Revoking'
  <1> USE LockdownAssumption, ApprovalAssumption, ResponderFacts DEF TypeOK,
        Stamped, Exclusive, Revoking, RunStates, Starting, Steps, Scanners, Past,
        Taken
  <1>1. CASE StartMatch
    BY <1>1 DEF StartMatch
  <1>2. CASE StartRefused
    BY <1>2 DEF StartRefused
  <1>3. CASE StartLaunch
    BY <1>3 DEF StartLaunch
  <1>4. CASE StartProvenance
    BY <1>4 DEF StartProvenance
  <1>5. CASE StartRelease
    BY <1>5 DEF StartRelease
  <1>6. CASE StartReturn
    BY <1>6 DEF StartReturn
  <1>7. CASE StartFail
    BY <1>7 DEF StartFail
  <1> QED
    BY <1>1, <1>2, <1>3, <1>4, <1>5, <1>6, <1>7 DEF Start

(* Revoking survives the end of a run, contained or not.                 *)
LEMMA ContainRevoking ==
  ASSUME TypeOK, Stamped, Exclusive, Revoking, NEW r \in Runs, Exit(r) \/
  Complete(r) \/ GuardTrip(r) \/ Contain(r)
  PROVE  Revoking'
  <1> USE LockdownAssumption, ApprovalAssumption, ResponderFacts DEF TypeOK,
        Stamped, Exclusive, Revoking, RunStates, Starting, Steps, Scanners, Past,
        Taken
  <1>1. CASE GuardTrip(r)
    BY <1>1 DEF GuardTrip, Started
  <1>2. CASE GuardContained(r)
    BY <1>2 DEF GuardContained
  <1>3. CASE GuardFailed(r)
    BY <1>3 DEF GuardFailed, Alive
  <1>4. CASE WorkerYield(r)
    BY <1>4 DEF WorkerYield
  <1>5. CASE WorkerContained(r)
    BY <1>5 DEF WorkerContained, Alive
  <1>6. CASE WorkerFailed(r)
    BY <1>6 DEF WorkerFailed, Alive, Indexed
  <1>7. CASE WorkerCapture(r)
    BY <1>7 DEF WorkerCapture
  <1>8. CASE WorkerMark(r)
    BY <1>8 DEF WorkerMark
  <1>9. CASE Exit(r) \/ Complete(r)
    BY <1>9 DEF Exit, Alive, Started, Complete
  <1> QED
    BY <1>1, <1>2, <1>3, <1>4, <1>5, <1>6, <1>7, <1>8, <1>9 DEF Contain

(* Revoking survives a step of a response.                               *)
LEMMA RespondRevoking ==
  ASSUME TypeOK, Stamped, Exclusive, Revoking, NEW i \in Responders,
  Respond(i)
  PROVE  Revoking'
  <1> USE LockdownAssumption, ApprovalAssumption, ResponderFacts DEF TypeOK,
        Stamped, Exclusive, Revoking, RunStates, Starting, Steps, Scanners, Past,
        Taken
  <1>1. CASE Publish(i)
    BY <1>1 DEF Publish
  <1>2. CASE RespondLink(i)
    BY <1>2 DEF RespondLink
  <1>3. CASE RespondCreate(i)
    BY <1>3 DEF RespondCreate, Create
  <1>4. CASE RespondRefused(i)
    BY <1>4 DEF RespondRefused, RespondFail
  <1>5. CASE RespondLoad(i)
    BY <1>5 DEF RespondLoad
  <1>6. CASE RespondReplaced(i)
    BY <1>6 DEF RespondReplaced, RespondFail
  <1>7. CASE RespondUnlink(i)
    <2>1. \A j \in Responders : pc[j] = "unlink" \/ pc[j] = "update" => j = i
      BY <1>7 DEF RespondUnlink
    <2>2. took[i].name \in Names
      BY <1>7 DEF RespondUnlink, Approval
    <2>3. approvals'[took[i].name] = NoApproval
      BY <1>7, <2>2 DEF RespondUnlink
    <2> QED BY <1>7, <2>1, <2>3 DEF RespondUnlink
  <1>8. CASE RespondMissing(i)
    BY <1>8 DEF RespondMissing, RespondFail
  <1>9. CASE RespondUpdate(i)
    BY <1>9, CompactKeeps DEF RespondUpdate, Completed
  <1>10. CASE RespondOverfull(i)
    BY <1>10 DEF RespondOverfull, Completed, RespondFail
  <1>11. CASE SweepCheck(i)
    BY <1>11 DEF SweepCheck
  <1>12. CASE SweepEnter(i)
    BY <1>12 DEF SweepEnter
  <1>13. CASE SweepCount(i)
    BY <1>13 DEF SweepCount, Alive
  <1>14. CASE SweepFail(i)
    BY <1>14 DEF SweepFail
  <1>15. CASE SweepLost(i)
    BY <1>15 DEF SweepLost
  <1>16. CASE SweepDone(i)
    BY <1>16 DEF SweepDone, NoView, InlineDone
  <1>17. CASE Done(i)
    BY <1>17 DEF Done
  <1> QED
    BY <1>1, <1>2, <1>3, <1>4, <1>5, <1>6, <1>7, <1>8, <1>9, <1>10, <1>11,
      <1>12, <1>13, <1>14, <1>15, <1>16, <1>17 DEF Respond

(* Revoking survives a step of a scan.                                   *)
LEMMA ScanRevoking ==
  ASSUME TypeOK, Stamped, Exclusive, Revoking, Scan
  PROVE  Revoking'
  <1> USE LockdownAssumption, ApprovalAssumption, ResponderFacts DEF TypeOK,
        Stamped, Exclusive, Revoking, RunStates, Starting, Steps, Scanners, Past,
        Taken
  <1>1. ASSUME NEW s \in Scanners, ScanDecide(s) PROVE Revoking'
    BY <1>1 DEF ScanDecide, NoView, Locked, InForce
  <1>2. CASE (\E r \in Runs : ScanRead(r)) \/ (\E r \in Runs : SweepRead(r))
    BY <1>2 DEF ScanRead, NoView, Alive, View, Authorized, SweepRead,
      InlineDone
  <1> QED
    BY <1>1, <1>2 DEF Scan

(* Revoking survives a crash and the recovery from it.                   *)
LEMMA RestartRevoking ==
  ASSUME TypeOK, Stamped, Exclusive, Revoking, Restart
  PROVE  Revoking'
  <1> USE LockdownAssumption, ApprovalAssumption, ResponderFacts DEF TypeOK,
        Stamped, Exclusive, Revoking, RunStates, Starting, Steps, Scanners, Past,
        Taken
  <1>1. CASE Restart
    BY <1>1, CompactKeeps DEF Restart, NoView
  <1> QED
    BY <1>1

(* Revoking survives every step, stuttering included.                    *)
LEMMA StepRevoking ==
  ASSUME IInv, [Next]_vars
  PROVE  Revoking'
  <1> USE DEF IInv
  <1>1. CASE UNCHANGED vars
    BY <1>1 DEF vars, Revoking, Taken
  <1>2. CASE Requests \/ EditDone \/ KillDone
    BY <1>2, RequestRevoking
  <1>3. CASE Start
    BY <1>3, StartRevoking
  <1>4. ASSUME NEW r \in Runs, Exit(r) \/ Complete(r) \/ GuardTrip(r) \/ Contain(r) PROVE Revoking'
    BY <1>4, ContainRevoking
  <1>5. ASSUME NEW i \in Responders, Respond(i) PROVE Revoking'
    BY <1>5, RespondRevoking
  <1>6. CASE Scan
    BY <1>6, ScanRevoking
  <1>7. CASE Restart
    BY <1>7, RestartRevoking
  <1> QED
    BY <1>1, <1>2, <1>3, <1>4, <1>5, <1>6, <1>7 DEF Next

-----------------------------------------------------------------------------
(* Viewed is preserved by every step.                                    *)

(* Viewed survives a request other than a start.                         *)
LEMMA RequestViewed ==
  ASSUME TypeOK, Viewed, Requests \/ EditDone \/ KillDone
  PROVE  Viewed'
  <1> USE LockdownAssumption, ApprovalAssumption, ResponderFacts DEF TypeOK,
        Viewed, RunStates, Starting, Steps, Scanners, NoView
  <1>1. CASE KillDone
    BY <1>1 DEF KillDone
  <1>2. CASE Edit \/ (\E i \in Responders : Acknowledge(i)) \/ (\E i \in
            Responders : Clear(i)) \/ (\E r \in Runs : Kill(r)) \/ (\E r \in Runs :
            StartAdmit(r)) \/ (\E n \in Names : Revoke(n)) \/ (\E n \in Names, a \in
            Argvs, e \in Exes : Approve(n, a, e)) \/ EditRefused
    BY <1>2 DEF Edit, Acknowledge, InForce, Clear, Kill, Indexed, StartAdmit,
      Admissible, Locked, Revoke, Approve, EditRefused
  <1> QED
    BY <1>1, <1>2 DEF Requests, EditDone

(* Viewed survives a step of _start.                                     *)
LEMMA StartViewed ==
  ASSUME TypeOK, Viewed, Start
  PROVE  Viewed'
  <1> USE LockdownAssumption, ApprovalAssumption, ResponderFacts DEF TypeOK,
        Viewed, RunStates, Starting, Steps, Scanners, NoView
  <1>1. CASE StartLaunch
    BY <1>1 DEF StartLaunch
  <1>2. CASE StartFail
    BY <1>2 DEF StartFail
  <1>3. CASE StartMatch \/ StartRefused \/ StartProvenance \/ StartRelease \/
            StartReturn
    BY <1>3 DEF StartMatch, StartRefused, StartProvenance, StartRelease,
      StartReturn
  <1> QED
    BY <1>1, <1>2, <1>3 DEF Start

(* Viewed survives the end of a run, contained or not.                   *)
LEMMA ContainViewed ==
  ASSUME TypeOK, Viewed, NEW r \in Runs, Exit(r) \/ Complete(r) \/
  GuardTrip(r) \/ Contain(r)
  PROVE  Viewed'
  <1> USE LockdownAssumption, ApprovalAssumption, ResponderFacts DEF TypeOK,
        Viewed, RunStates, Starting, Steps, Scanners, NoView
  <1>1. CASE Exit(r)
    BY <1>1 DEF Exit, Alive, Started
  <1>2. CASE Complete(r)
    BY <1>2 DEF Complete
  <1>3. CASE GuardContained(r)
    BY <1>3 DEF GuardContained
  <1>4. CASE GuardFailed(r)
    BY <1>4 DEF GuardFailed, Alive
  <1>5. CASE WorkerContained(r)
    BY <1>5 DEF WorkerContained, Alive
  <1>6. CASE WorkerFailed(r)
    BY <1>6 DEF WorkerFailed, Alive, Indexed
  <1>7. CASE WorkerMark(r)
    BY <1>7 DEF WorkerMark
  <1>8. CASE GuardTrip(r) \/ WorkerYield(r) \/ WorkerCapture(r)
    BY <1>8 DEF GuardTrip, Started, WorkerYield, WorkerCapture
  <1> QED
    BY <1>1, <1>2, <1>3, <1>4, <1>5, <1>6, <1>7, <1>8 DEF Contain

(* Viewed survives a step of a response.                                 *)
LEMMA RespondViewed ==
  ASSUME TypeOK, Viewed, NEW i \in Responders, Respond(i)
  PROVE  Viewed'
  <1> USE LockdownAssumption, ApprovalAssumption, ResponderFacts DEF TypeOK,
        Viewed, RunStates, Starting, Steps, Scanners, NoView
  <1>1. CASE Publish(i) \/ RespondLink(i) \/ RespondCreate(i) \/
            RespondRefused(i) \/ RespondLoad(i) \/ RespondReplaced(i) \/
            RespondUnlink(i) \/ RespondMissing(i) \/ RespondUpdate(i) \/
            RespondOverfull(i) \/ SweepCheck(i) \/ SweepEnter(i) \/ SweepCount(i) \/
            SweepFail(i) \/ SweepLost(i) \/ SweepDone(i) \/ Done(i)
    BY <1>1 DEF Publish, RespondLink, RespondCreate, Create,
      RespondRefused, RespondFail, RespondLoad, Taken, RespondReplaced,
      RespondUnlink, RespondMissing, RespondUpdate, Completed,
      RespondOverfull, SweepCheck, SweepEnter, SweepCount, Alive, SweepFail,
      SweepLost, SweepDone, InlineDone, Done
  <1> QED
    BY <1>1 DEF Respond

(* Viewed survives a step of a scan.                                     *)
LEMMA ScanViewed ==
  ASSUME TypeOK, Viewed, Scan
  PROVE  Viewed'
  <1> USE LockdownAssumption, ApprovalAssumption, ResponderFacts DEF TypeOK,
        Viewed, RunStates, Starting, Steps, Scanners, NoView
  <1>1. ASSUME NEW r \in Runs, ScanRead(r) PROVE Viewed'
    BY <1>1 DEF ScanRead, Alive, View, Authorized
  <1>2. ASSUME NEW r \in Runs, SweepRead(r) PROVE Viewed'
    <2>1. CASE View("sweep", r)
      BY <1>2, <2>1 DEF SweepRead, View
    <2>2. CASE UNCHANGED scan
      BY <1>2, <2>2 DEF SweepRead
    <2> QED BY <1>2, <2>1, <2>2 DEF SweepRead
  <1>3. ASSUME NEW s \in Scanners, ScanDecide(s) PROVE Viewed'
    BY <1>3 DEF ScanDecide, Locked, InForce
  <1> HIDE DEF TypeOK, Viewed, RunStates, Starting, Steps, Scanners, NoView
  <1> QED
    BY <1>1, <1>2, <1>3 DEF Scan

(* Viewed survives a crash and the recovery from it.                     *)
LEMMA RestartViewed ==
  ASSUME TypeOK, Viewed, Restart
  PROVE  Viewed'
  <1> USE LockdownAssumption, ApprovalAssumption, ResponderFacts DEF TypeOK,
        Viewed, RunStates, Starting, Steps, Scanners, NoView
  <1>1. CASE Restart
    BY <1>1, CompactKeeps DEF Restart
  <1> QED
    BY <1>1

(* Viewed survives every step, stuttering included.                      *)
LEMMA StepViewed ==
  ASSUME IInv, [Next]_vars
  PROVE  Viewed'
  <1> USE DEF IInv
  <1>1. CASE UNCHANGED vars
    BY <1>1 DEF vars, Viewed, Scanners, NoView
  <1>2. CASE Requests \/ EditDone \/ KillDone
    BY <1>2, RequestViewed
  <1>3. CASE Start
    BY <1>3, StartViewed
  <1>4. ASSUME NEW r \in Runs, Exit(r) \/ Complete(r) \/ GuardTrip(r) \/ Contain(r) PROVE Viewed'
    BY <1>4, ContainViewed
  <1>5. ASSUME NEW i \in Responders, Respond(i) PROVE Viewed'
    BY <1>5, RespondViewed
  <1>6. CASE Scan
    BY <1>6, ScanViewed
  <1>7. CASE Restart
    BY <1>7, RestartViewed
  <1> QED
    BY <1>1, <1>2, <1>3, <1>4, <1>5, <1>6, <1>7 DEF Next

-----------------------------------------------------------------------------
(* Untouched is preserved by every step.                                 *)

(* Untouched survives a request other than a start.                      *)
LEMMA RequestUntouched ==
  ASSUME TypeOK, Viewed, Untouched, Once, Requests \/ EditDone \/ KillDone
  PROVE  Untouched'
  <1> USE LockdownAssumption, ApprovalAssumption, ResponderFacts DEF TypeOK,
        Viewed, Untouched, Once, RunStates, Starting, Steps, Scanners, NoView, Quiet
  <1>1. CASE Edit
    BY <1>1 DEF Edit
  <1>2. ASSUME NEW i \in Responders, Acknowledge(i) PROVE Untouched'
    BY <1>2 DEF Acknowledge, InForce
  <1>3. ASSUME NEW i \in Responders, Clear(i) PROVE Untouched'
    BY <1>3 DEF Clear, InForce
  <1>4. ASSUME NEW r \in Runs, Kill(r) PROVE Untouched'
    BY <1>4 DEF Kill, Indexed
  <1>5. ASSUME NEW r \in Runs, StartAdmit(r) PROVE Untouched'
    BY <1>5 DEF StartAdmit, Admissible, Indexed, Locked, InForce
  <1>6. ASSUME NEW n \in Names, Revoke(n) PROVE Untouched'
    BY <1>6 DEF Revoke
  <1>7. ASSUME NEW n \in Names, NEW a \in Argvs, NEW e \in Exes, Approve(n, a, e) PROVE Untouched'
    BY <1>7 DEF Approve
  <1>8. CASE EditRefused
    BY <1>8 DEF EditRefused
  <1>9. CASE KillDone
    BY <1>9 DEF KillDone
  <1> QED
    BY <1>1, <1>2, <1>3, <1>4, <1>5, <1>6, <1>7, <1>8, <1>9 DEF Requests,
      EditDone

(* Untouched survives a step of _start.                                  *)
LEMMA StartUntouched ==
  ASSUME TypeOK, Viewed, Untouched, Once, Start
  PROVE  Untouched'
  <1> USE LockdownAssumption, ApprovalAssumption, ResponderFacts DEF TypeOK,
        Viewed, Untouched, Once, RunStates, Starting, Steps, Scanners, NoView, Quiet
  <1>1. CASE StartMatch
    BY <1>1 DEF StartMatch
  <1>2. CASE StartRefused
    BY <1>2 DEF StartRefused
  <1>3. CASE StartLaunch
    BY <1>3 DEF StartLaunch
  <1>4. CASE StartProvenance
    BY <1>4 DEF StartProvenance
  <1>5. CASE StartRelease
    BY <1>5 DEF StartRelease
  <1>6. CASE StartReturn
    BY <1>6 DEF StartReturn
  <1>7. CASE StartFail
    BY <1>7 DEF StartFail
  <1> QED
    BY <1>1, <1>2, <1>3, <1>4, <1>5, <1>6, <1>7 DEF Start

(* Untouched survives the end of a run, contained or not.                *)
LEMMA ContainUntouched ==
  ASSUME TypeOK, Viewed, Untouched, Once, NEW r \in Runs, Exit(r) \/
  Complete(r) \/ GuardTrip(r) \/ Contain(r)
  PROVE  Untouched'
  <1> USE LockdownAssumption, ApprovalAssumption, ResponderFacts DEF TypeOK,
        Viewed, Untouched, Once, RunStates, Starting, Steps, Scanners, NoView, Quiet
  <1>1. CASE Exit(r)
    BY <1>1 DEF Exit, Alive, Started
  <1>2. CASE Complete(r)
    BY <1>2 DEF Complete
  <1>3. CASE GuardTrip(r)
    BY <1>3 DEF GuardTrip, Started
  <1>4. CASE GuardContained(r)
    BY <1>4 DEF GuardContained
  <1>5. CASE GuardFailed(r)
    BY <1>5 DEF GuardFailed, Alive
  <1>6. CASE WorkerYield(r)
    BY <1>6 DEF WorkerYield
  <1>7. CASE WorkerContained(r)
    BY <1>7 DEF WorkerContained, Alive
  <1>8. CASE WorkerFailed(r)
    BY <1>8 DEF WorkerFailed, Alive, Indexed
  <1>9. CASE WorkerCapture(r)
    BY <1>9 DEF WorkerCapture
  <1>10. CASE WorkerMark(r)
    BY <1>10 DEF WorkerMark
  <1> QED
    BY <1>1, <1>2, <1>3, <1>4, <1>5, <1>6, <1>7, <1>8, <1>9, <1>10 DEF Contain

(* Untouched survives a step of a response.                              *)
LEMMA RespondUntouched ==
  ASSUME TypeOK, Viewed, Untouched, Once, NEW i \in Responders, Respond(i)
  PROVE  Untouched'
  <1> USE LockdownAssumption, ApprovalAssumption, ResponderFacts DEF TypeOK,
        Viewed, Untouched, Once, RunStates, Starting, Steps, Scanners, NoView, Quiet
  <1>1. CASE Publish(i)
    BY <1>1 DEF Publish
  <1>2. CASE RespondLink(i)
    BY <1>2 DEF RespondLink
  <1>3. CASE RespondCreate(i)
    BY <1>3 DEF RespondCreate, Create
  <1>4. CASE RespondRefused(i)
    BY <1>4 DEF RespondRefused, RespondFail
  <1>5. CASE RespondLoad(i)
    BY <1>5 DEF RespondLoad, Taken
  <1>6. CASE RespondReplaced(i)
    BY <1>6 DEF RespondReplaced, Taken, RespondFail
  <1>7. CASE RespondUnlink(i)
    BY <1>7 DEF RespondUnlink, Taken
  <1>8. CASE RespondMissing(i)
    BY <1>8 DEF RespondMissing, Taken, RespondFail
  <1>9. CASE RespondUpdate(i)
    <2>1. \A j \in Responders : Dropped(j) \/ Kept(j)
      BY <1>9, UpdateKeeps
    <2>2. \A j \in Responders : incidents[j].state = "none" => incidents'[j].state = "none"
      BY <2>1 DEF Dropped, Kept
    <2> QED BY <1>9, <2>2 DEF RespondUpdate
  <1>10. CASE RespondOverfull(i)
    BY <1>10 DEF RespondOverfull, Completed, RespondFail
  <1>11. CASE SweepCheck(i)
    BY <1>11 DEF SweepCheck
  <1>12. CASE SweepEnter(i)
    BY <1>12 DEF SweepEnter
  <1>13. CASE SweepCount(i)
    BY <1>13 DEF SweepCount, Alive
  <1>14. CASE SweepFail(i)
    BY <1>14 DEF SweepFail
  <1>15. CASE SweepLost(i)
    BY <1>15 DEF SweepLost
  <1>16. CASE SweepDone(i)
    BY <1>16 DEF SweepDone, InlineDone
  <1>17. CASE Done(i)
    BY <1>17 DEF Done
  <1> QED
    BY <1>1, <1>2, <1>3, <1>4, <1>5, <1>6, <1>7, <1>8, <1>9, <1>10, <1>11,
      <1>12, <1>13, <1>14, <1>15, <1>16, <1>17 DEF Respond

(* Untouched survives a step of a scan.                                  *)
LEMMA ScanUntouched ==
  ASSUME TypeOK, Viewed, Untouched, Once, Scan
  PROVE  Untouched'
  <1> USE LockdownAssumption, ApprovalAssumption, ResponderFacts DEF TypeOK,
        Viewed, Untouched, Once, RunStates, Starting, Steps, Scanners, NoView, Quiet
  <1>1. ASSUME NEW r \in Runs, ScanRead(r) PROVE Untouched'
    BY <1>1 DEF ScanRead, Alive, View, Authorized
  <1>2. ASSUME NEW r \in Runs, SweepRead(r) PROVE Untouched'
    BY <1>2 DEF SweepRead, InlineDone, Alive, View, Authorized
  <1>3. ASSUME NEW s \in Scanners, ScanDecide(s) PROVE Untouched'
    <2>1. scan[s].run \in Runs
      BY <1>3 DEF ScanDecide
    <2>2. pc' = pc \/ pc' = [pc EXCEPT ![Worker(scan[s].run)] = "kill"]
      BY <1>3 DEF ScanDecide
    <2>3. scan' = [scan EXCEPT ![s] = NoView]
      BY <1>3 DEF ScanDecide
    <2>4. \A r \in Runs : Quiet(r) => Quiet(r)'
      BY <1>3, <2>1, <2>2, <2>3 DEF ScanDecide
    <2> QED BY <1>3, <2>4 DEF ScanDecide
  <1> QED
    BY <1>1, <1>2, <1>3 DEF Scan

(* Untouched survives a crash and the recovery from it.                  *)
LEMMA RestartUntouched ==
  ASSUME TypeOK, Viewed, Untouched, Once, Restart
  PROVE  Untouched'
  <1> USE LockdownAssumption, ApprovalAssumption, ResponderFacts DEF TypeOK,
        Viewed, Untouched, Once, RunStates, Starting, Steps, Scanners, NoView, Quiet
  <1>1. CASE Restart
    BY <1>1, CompactKeeps DEF Restart
  <1> QED
    BY <1>1

(* Untouched survives every step, stuttering included.                   *)
LEMMA StepUntouched ==
  ASSUME IInv, [Next]_vars
  PROVE  Untouched'
  <1> USE DEF IInv
  <1>1. CASE UNCHANGED vars
    BY <1>1 DEF vars, Untouched, Quiet, Scanners
  <1>2. CASE Requests \/ EditDone \/ KillDone
    BY <1>2, RequestUntouched
  <1>3. CASE Start
    BY <1>3, StartUntouched
  <1>4. ASSUME NEW r \in Runs, Exit(r) \/ Complete(r) \/ GuardTrip(r) \/ Contain(r) PROVE Untouched'
    BY <1>4, ContainUntouched
  <1>5. ASSUME NEW i \in Responders, Respond(i) PROVE Untouched'
    BY <1>5, RespondUntouched
  <1>6. CASE Scan
    BY <1>6, ScanUntouched
  <1>7. CASE Restart
    BY <1>7, RestartUntouched
  <1> QED
    BY <1>1, <1>2, <1>3, <1>4, <1>5, <1>6, <1>7 DEF Next

-----------------------------------------------------------------------------
(* Once is preserved by every step.                                      *)

(* Once survives a request other than a start.                           *)
LEMMA RequestOnce ==
  ASSUME TypeOK, Viewed, Untouched, Once, Requests \/ EditDone \/ KillDone
  PROVE  Once'
  <1> USE LockdownAssumption, ApprovalAssumption, ResponderFacts DEF TypeOK,
        Viewed, Untouched, Once, RunStates, Starting, Steps, Scanners, NoView, Quiet
  <1>1. ASSUME NEW i \in Responders, Acknowledge(i) PROVE Once'
    BY <1>1 DEF Acknowledge, InForce
  <1>2. ASSUME NEW i \in Responders, Clear(i) PROVE Once'
    BY <1>2 DEF Clear, InForce
  <1>3. CASE KillDone
    BY <1>3 DEF KillDone
  <1>4. CASE Edit \/ (\E r \in Runs : Kill(r)) \/ (\E r \in Runs :
            StartAdmit(r)) \/ (\E n \in Names : Revoke(n)) \/ (\E n \in Names, a \in
            Argvs, e \in Exes : Approve(n, a, e)) \/ EditRefused
    BY <1>4 DEF Edit, Kill, Indexed, StartAdmit, Admissible, Locked, InForce,
      Revoke, Approve, EditRefused
  <1> QED
    BY <1>1, <1>2, <1>3, <1>4 DEF Requests, EditDone

(* Once survives a step of _start.                                       *)
LEMMA StartOnce ==
  ASSUME TypeOK, Viewed, Untouched, Once, Start
  PROVE  Once'
  <1> USE LockdownAssumption, ApprovalAssumption, ResponderFacts DEF TypeOK,
        Viewed, Untouched, Once, RunStates, Starting, Steps, Scanners, NoView, Quiet
  <1>1. CASE StartLaunch
    BY <1>1 DEF StartLaunch
  <1>2. CASE StartFail
    BY <1>2 DEF StartFail
  <1>3. CASE StartMatch \/ StartRefused \/ StartProvenance \/ StartRelease \/
            StartReturn
    BY <1>3 DEF StartMatch, StartRefused, StartProvenance, StartRelease,
      StartReturn
  <1> QED
    BY <1>1, <1>2, <1>3 DEF Start

(* Once survives the end of a run, contained or not.                     *)
LEMMA ContainOnce ==
  ASSUME TypeOK, Viewed, Untouched, Once, NEW r \in Runs, Exit(r) \/
  Complete(r) \/ GuardTrip(r) \/ Contain(r)
  PROVE  Once'
  <1> USE LockdownAssumption, ApprovalAssumption, ResponderFacts DEF TypeOK,
        Viewed, Untouched, Once, RunStates, Starting, Steps, Scanners, NoView, Quiet
  <1>1. CASE Exit(r)
    BY <1>1 DEF Exit, Alive, Started
  <1>2. CASE Complete(r)
    BY <1>2 DEF Complete
  <1>3. CASE GuardTrip(r)
    BY <1>3 DEF GuardTrip, Started
  <1>4. CASE GuardContained(r)
    BY <1>4 DEF GuardContained
  <1>5. CASE GuardFailed(r)
    BY <1>5 DEF GuardFailed, Alive
  <1>6. CASE WorkerYield(r)
    BY <1>6 DEF WorkerYield
  <1>7. CASE WorkerContained(r)
    BY <1>7 DEF WorkerContained, Alive
  <1>8. CASE WorkerFailed(r)
    BY <1>8 DEF WorkerFailed, Alive, Indexed
  <1>9. CASE WorkerCapture(r)
    BY <1>9 DEF WorkerCapture
  <1>10. CASE WorkerMark(r)
    BY <1>10 DEF WorkerMark
  <1> QED
    BY <1>1, <1>2, <1>3, <1>4, <1>5, <1>6, <1>7, <1>8, <1>9, <1>10 DEF Contain

(* Once survives a step of a response.                                   *)
LEMMA RespondOnce ==
  ASSUME TypeOK, Viewed, Untouched, Once, NEW i \in Responders, Respond(i)
  PROVE  Once'
  <1> USE LockdownAssumption, ApprovalAssumption, ResponderFacts DEF TypeOK,
        Viewed, Untouched, Once, RunStates, Starting, Steps, Scanners, NoView, Quiet
  <1>1. CASE Publish(i)
    BY <1>1 DEF Publish
  <1>2. CASE RespondLink(i)
    BY <1>2 DEF RespondLink
  <1>3. CASE RespondCreate(i)
    BY <1>3 DEF RespondCreate, Create
  <1>4. CASE RespondRefused(i)
    BY <1>4 DEF RespondRefused, RespondFail
  <1>5. CASE RespondLoad(i)
    BY <1>5 DEF RespondLoad, Taken
  <1>6. CASE RespondReplaced(i)
    BY <1>6 DEF RespondReplaced, Taken, RespondFail
  <1>7. CASE RespondUnlink(i)
    BY <1>7 DEF RespondUnlink, Taken
  <1>8. CASE RespondMissing(i)
    BY <1>8 DEF RespondMissing, Taken, RespondFail
  <1>9. CASE RespondUpdate(i)
    <2>1. \A j \in Responders : Dropped(j) \/ Kept(j)
      BY <1>9, UpdateKeeps
    <2>2. \A j \in Responders : incidents[j].state = "none" => incidents'[j].state = "none"
      BY <2>1 DEF Dropped, Kept
    <2> QED BY <1>9, <2>2 DEF RespondUpdate
  <1>10. CASE RespondOverfull(i)
    BY <1>10 DEF RespondOverfull, Completed, RespondFail
  <1>11. CASE SweepCheck(i)
    BY <1>11 DEF SweepCheck
  <1>12. CASE SweepEnter(i)
    BY <1>12 DEF SweepEnter
  <1>13. CASE SweepCount(i)
    BY <1>13 DEF SweepCount, Alive
  <1>14. CASE SweepFail(i)
    BY <1>14 DEF SweepFail
  <1>15. CASE SweepLost(i)
    BY <1>15 DEF SweepLost
  <1>16. CASE SweepDone(i)
    BY <1>16 DEF SweepDone, InlineDone
  <1>17. CASE Done(i)
    BY <1>17 DEF Done
  <1> QED
    BY <1>1, <1>2, <1>3, <1>4, <1>5, <1>6, <1>7, <1>8, <1>9, <1>10, <1>11,
      <1>12, <1>13, <1>14, <1>15, <1>16, <1>17 DEF Respond

(* Once survives a step of a scan.                                       *)
LEMMA ScanOnce ==
  ASSUME TypeOK, Viewed, Untouched, Once, Scan
  PROVE  Once'
  <1> USE LockdownAssumption, ApprovalAssumption, ResponderFacts DEF TypeOK,
        Viewed, Untouched, Once, RunStates, Starting, Steps, Scanners, NoView, Quiet
  <1>1. ASSUME NEW s \in Scanners, ScanDecide(s) PROVE Once'
    <2>1. \/ pc' = pc
          \/ /\ pc[Worker(scan[s].run)] = "idle"
             /\ pc' = [pc EXCEPT ![Worker(scan[s].run)] = "kill"]
      BY <1>1 DEF ScanDecide
    <2>2. UNCHANGED <<run, incidents>>
      BY <1>1 DEF ScanDecide
    <2>4. scan[s].run \in Runs
      BY <1>1 DEF ScanDecide
    <2>3. \A r \in Runs : /\ pc'[Guard(r)] = pc[Guard(r)]
                         /\ pc'[Worker(r)] \in {pc[Worker(r)], "kill"}
      BY <2>1, <2>4
    <2> QED BY <2>2, <2>3
  <1>2. CASE (\E r \in Runs : ScanRead(r)) \/ (\E r \in Runs : SweepRead(r))
    BY <1>2 DEF ScanRead, Alive, View, Authorized, SweepRead, InlineDone
  <1> QED
    BY <1>1, <1>2 DEF Scan

(* Once survives a crash and the recovery from it.                       *)
LEMMA RestartOnce ==
  ASSUME TypeOK, Viewed, Untouched, Once, Restart
  PROVE  Once'
  <1> USE LockdownAssumption, ApprovalAssumption, ResponderFacts DEF TypeOK,
        Viewed, Untouched, Once, RunStates, Starting, Steps, Scanners, NoView, Quiet
  <1>1. CASE Restart
    <2>1. \A i \in Responders : incidents'[i].state # "none" => incidents[i].state # "none"
      BY <1>1, RestartKeeps, NoIncidentType DEF Dropped
    <2>2. /\ run' = [r \in Runs |-> IF run[r] = "none" THEN "none" ELSE "ended"]
          /\ pc' = [i \in Responders |-> "idle"]
      BY <1>1 DEF Restart
    <2>3. \A r \in Runs : run[r] = "ended" => run'[r] = "ended"
      BY <2>2
    <2> HIDE DEF TypeOK
    <2> QED BY <2>1, <2>2, <2>3
  <1> QED
    BY <1>1

(* Once survives every step, stuttering included.                        *)
LEMMA StepOnce ==
  ASSUME IInv, [Next]_vars
  PROVE  Once'
  <1> USE DEF IInv
  <1>1. CASE UNCHANGED vars
    BY <1>1 DEF vars, Once
  <1>2. CASE Requests \/ EditDone \/ KillDone
    BY <1>2, RequestOnce
  <1>3. CASE Start
    BY <1>3, StartOnce
  <1>4. ASSUME NEW r \in Runs, Exit(r) \/ Complete(r) \/ GuardTrip(r) \/ Contain(r) PROVE Once'
    BY <1>4, ContainOnce
  <1>5. ASSUME NEW i \in Responders, Respond(i) PROVE Once'
    BY <1>5, RespondOnce
  <1>6. CASE Scan
    BY <1>6, ScanOnce
  <1>7. CASE Restart
    BY <1>7, RestartOnce
  <1> QED
    BY <1>1, <1>2, <1>3, <1>4, <1>5, <1>6, <1>7 DEF Next

-----------------------------------------------------------------------------
(* CompletedMeansRevoked is preserved by every step.                     *)

(* CompletedMeansRevoked survives a request other than a start.          *)
LEMMA RequestCompleted ==
  ASSUME TypeOK, Stamped, Exclusive, Revoking, CompletedMeansRevoked, Requests
  \/ EditDone \/ KillDone
  PROVE  CompletedMeansRevoked'
  <1> USE LockdownAssumption, ApprovalAssumption, ResponderFacts DEF TypeOK,
        Stamped, Exclusive, Revoking, CompletedMeansRevoked, RunStates, Starting,
        Steps, Scanners, Past, Taken
  <1>1. ASSUME NEW i \in Responders, Acknowledge(i) PROVE CompletedMeansRevoked'
    BY <1>1 DEF Acknowledge, InForce
  <1>2. ASSUME NEW i \in Responders, Clear(i) PROVE CompletedMeansRevoked'
    BY <1>2 DEF Clear, InForce
  <1>3. ASSUME NEW n \in Names, Revoke(n) PROVE CompletedMeansRevoked'
    BY <1>3 DEF Revoke
  <1>4. ASSUME NEW n \in Names, NEW a \in Argvs, NEW e \in Exes, Approve(n, a, e) PROVE CompletedMeansRevoked'
    BY <1>4 DEF Approve
  <1>5. CASE Edit \/ (\E r \in Runs : Kill(r)) \/ (\E r \in Runs :
            StartAdmit(r)) \/ EditRefused \/ KillDone
    BY <1>5 DEF Edit, Kill, Indexed, StartAdmit, Admissible, Locked, InForce,
      EditRefused, KillDone
  <1> QED
    BY <1>1, <1>2, <1>3, <1>4, <1>5 DEF Requests, EditDone

(* CompletedMeansRevoked survives a step of _start.                      *)
LEMMA StartCompleted ==
  ASSUME TypeOK, Stamped, Exclusive, Revoking, CompletedMeansRevoked, Start
  PROVE  CompletedMeansRevoked'
  <1> USE LockdownAssumption, ApprovalAssumption, ResponderFacts DEF TypeOK,
        Stamped, Exclusive, Revoking, CompletedMeansRevoked, RunStates, Starting,
        Steps, Scanners, Past, Taken
  <1>1. CASE StartMatch \/ StartRefused \/ StartLaunch \/ StartProvenance \/
            StartRelease \/ StartReturn \/ StartFail
    BY <1>1 DEF StartMatch, StartRefused, StartLaunch, StartProvenance,
      StartRelease, StartReturn, StartFail
  <1> QED
    BY <1>1 DEF Start

(* CompletedMeansRevoked survives the end of a run, contained or not.    *)
LEMMA ContainCompleted ==
  ASSUME TypeOK, Stamped, Exclusive, Revoking, CompletedMeansRevoked, NEW r
  \in Runs, Exit(r) \/ Complete(r) \/ GuardTrip(r) \/ Contain(r)
  PROVE  CompletedMeansRevoked'
  <1> USE LockdownAssumption, ApprovalAssumption, ResponderFacts DEF TypeOK,
        Stamped, Exclusive, Revoking, CompletedMeansRevoked, RunStates, Starting,
        Steps, Scanners, Past, Taken
  <1>1. CASE Exit(r) \/ Complete(r) \/ GuardTrip(r) \/ GuardContained(r) \/
            GuardFailed(r) \/ WorkerYield(r) \/ WorkerContained(r) \/ WorkerFailed(r) \/
            WorkerCapture(r) \/ WorkerMark(r)
    BY <1>1 DEF Exit, Alive, Started, Complete, GuardTrip, GuardContained,
      GuardFailed, WorkerYield, WorkerContained, WorkerFailed, Indexed,
      WorkerCapture, WorkerMark
  <1> QED
    BY <1>1 DEF Contain

(* CompletedMeansRevoked survives a step of a response.                  *)
LEMMA RespondCompleted ==
  ASSUME TypeOK, Stamped, Exclusive, Revoking, CompletedMeansRevoked, NEW i
  \in Responders, Respond(i)
  PROVE  CompletedMeansRevoked'
  <1> USE LockdownAssumption, ApprovalAssumption, ResponderFacts DEF TypeOK,
        Stamped, Exclusive, Revoking, CompletedMeansRevoked, RunStates, Starting,
        Steps, Scanners, Past, Taken
  <1>1. CASE RespondCreate(i)
    BY <1>1 DEF RespondCreate, Create
  <1>2. CASE RespondUnlink(i)
    BY <1>2 DEF RespondUnlink
  <1>3. CASE RespondUpdate(i)
    <2>1. \A j \in Responders :
            \/ incidents'[j].approval = NoApproval
            \/ incidents'[j].approval = incidents[j].approval /\ j = i
            \/ incidents'[j] = incidents[j]
      BY <1>3, UpdateKeeps DEF Dropped, Kept, NoIncident
    <2>2. UNCHANGED approvals /\ pc[i] = "update"
      BY <1>3 DEF RespondUpdate
    <2>3. incidents[i].approval = NoApproval
            \/ approvals[incidents[i].approval.name] # incidents[i].approval
      BY <2>2
    <2> SUFFICES ASSUME NEW j \in Responders, incidents'[j].done, incidents'[j].approval # NoApproval
                 PROVE  approvals'[incidents'[j].approval.name] # incidents'[j].approval
      OBVIOUS
    <2> HIDE DEF TypeOK, Stamped, Exclusive, Revoking
    <2> QED BY <2>1, <2>2, <2>3
  <1>4. CASE RespondOverfull(i)
    <2>1. \A j \in Responders :
            \/ incidents'[j].approval = NoApproval
            \/ incidents'[j].approval = incidents[j].approval /\ j = i
            \/ incidents'[j] = incidents[j]
      BY <1>4, UpdateKeeps DEF Dropped, Kept, NoIncident
    <2>2. UNCHANGED approvals /\ pc[i] = "update"
      BY <1>4 DEF RespondOverfull
    <2>3. incidents[i].approval = NoApproval
            \/ approvals[incidents[i].approval.name] # incidents[i].approval
      BY <2>2
    <2> SUFFICES ASSUME NEW j \in Responders, incidents'[j].done, incidents'[j].approval # NoApproval
                 PROVE  approvals'[incidents'[j].approval.name] # incidents'[j].approval
      OBVIOUS
    <2> HIDE DEF TypeOK, Stamped, Exclusive, Revoking
    <2> QED BY <2>1, <2>2, <2>3
  <1>5. CASE Publish(i) \/ RespondLink(i) \/ RespondRefused(i) \/
            RespondLoad(i) \/ RespondReplaced(i) \/ RespondMissing(i) \/ SweepCheck(i)
            \/ SweepEnter(i) \/ SweepCount(i) \/ SweepFail(i) \/ SweepLost(i) \/
            SweepDone(i) \/ Done(i)
    BY <1>5 DEF Publish, RespondLink, RespondRefused,
      RespondFail, RespondLoad, RespondReplaced, RespondMissing, SweepCheck,
      SweepEnter, SweepCount, Alive, SweepFail, SweepLost, SweepDone, NoView,
      InlineDone, Done
  <1> QED
    BY <1>1, <1>2, <1>3, <1>4, <1>5 DEF Respond

(* CompletedMeansRevoked survives a step of a scan.                      *)
LEMMA ScanCompleted ==
  ASSUME TypeOK, Stamped, Exclusive, Revoking, CompletedMeansRevoked, Scan
  PROVE  CompletedMeansRevoked'
  <1> USE LockdownAssumption, ApprovalAssumption, ResponderFacts DEF TypeOK,
        Stamped, Exclusive, Revoking, CompletedMeansRevoked, RunStates, Starting,
        Steps, Scanners, Past, Taken
  <1>1. CASE (\E r \in Runs : ScanRead(r)) \/ (\E r \in Runs : SweepRead(r))
            \/ (\E s \in Scanners : ScanDecide(s))
    BY <1>1 DEF ScanRead, NoView, Alive, View, Authorized, SweepRead,
      InlineDone, ScanDecide, Locked, InForce
  <1> QED
    BY <1>1 DEF Scan

(* CompletedMeansRevoked survives a crash and the recovery from it.      *)
LEMMA RestartCompleted ==
  ASSUME TypeOK, Stamped, Exclusive, Revoking, CompletedMeansRevoked, Restart
  PROVE  CompletedMeansRevoked'
  <1> USE LockdownAssumption, ApprovalAssumption, ResponderFacts DEF TypeOK,
        Stamped, Exclusive, Revoking, CompletedMeansRevoked, RunStates, Starting,
        Steps, Scanners, Past, Taken
  <1>1. CASE Restart
    <2>1. \A j \in Responders : incidents'[j].approval = NoApproval \/ incidents'[j] = incidents[j]
      BY <1>1, RestartKeeps DEF Dropped, NoIncident
    <2>2. UNCHANGED approvals
      BY <1>1 DEF Restart
    <2> QED BY <2>1, <2>2
  <1> QED
    BY <1>1

(* CompletedMeansRevoked survives every step, stuttering included.       *)
LEMMA StepCompleted ==
  ASSUME IInv, [Next]_vars
  PROVE  CompletedMeansRevoked'
  <1> USE DEF IInv
  <1>1. CASE UNCHANGED vars
    BY <1>1 DEF vars, CompletedMeansRevoked
  <1>2. CASE Requests \/ EditDone \/ KillDone
    BY <1>2, RequestCompleted
  <1>3. CASE Start
    BY <1>3, StartCompleted
  <1>4. ASSUME NEW r \in Runs, Exit(r) \/ Complete(r) \/ GuardTrip(r) \/ Contain(r) PROVE CompletedMeansRevoked'
    BY <1>4, ContainCompleted
  <1>5. ASSUME NEW i \in Responders, Respond(i) PROVE CompletedMeansRevoked'
    BY <1>5, RespondCompleted
  <1>6. CASE Scan
    BY <1>6, ScanCompleted
  <1>7. CASE Restart
    BY <1>7, RestartCompleted
  <1> QED
    BY <1>1, <1>2, <1>3, <1>4, <1>5, <1>6, <1>7 DEF Next

-----------------------------------------------------------------------------
(* OneIncidentPerIdentity is preserved by every step.                      *)

(* OneIncidentPerIdentity survives a request other than a start.           *)
LEMMA RequestOne ==
  ASSUME TypeOK, Stamped, OneIncidentPerIdentity, Requests \/ EditDone \/
  KillDone
  PROVE  OneIncidentPerIdentity'
  <1> USE LockdownAssumption, ApprovalAssumption, ResponderFacts DEF TypeOK,
        Stamped, OneIncidentPerIdentity, RunStates, Starting, Steps, Scanners, Past,
        InForce
  <1>1. ASSUME NEW i \in Responders, Acknowledge(i) PROVE OneIncidentPerIdentity'
    BY <1>1 DEF Acknowledge
  <1>2. ASSUME NEW i \in Responders, Clear(i) PROVE OneIncidentPerIdentity'
    BY <1>2 DEF Clear
  <1>3. CASE Edit \/ (\E r \in Runs : Kill(r)) \/ (\E r \in Runs :
            StartAdmit(r)) \/ (\E n \in Names : Revoke(n)) \/ (\E n \in Names, a \in
            Argvs, e \in Exes : Approve(n, a, e)) \/ EditRefused \/ KillDone
    BY <1>3 DEF Edit, Kill, Indexed, StartAdmit, Admissible, Locked, Revoke,
      Approve, EditRefused, KillDone
  <1> QED
    BY <1>1, <1>2, <1>3 DEF Requests, EditDone

(* OneIncidentPerIdentity survives a step of _start.                       *)
LEMMA StartOne ==
  ASSUME TypeOK, Stamped, OneIncidentPerIdentity, Start
  PROVE  OneIncidentPerIdentity'
  <1> USE LockdownAssumption, ApprovalAssumption, ResponderFacts DEF TypeOK,
        Stamped, OneIncidentPerIdentity, RunStates, Starting, Steps, Scanners, Past,
        InForce
  <1>1. CASE StartMatch \/ StartRefused \/ StartLaunch \/ StartProvenance \/
            StartRelease \/ StartReturn \/ StartFail
    BY <1>1 DEF StartMatch, StartRefused, StartLaunch, StartProvenance,
      StartRelease, StartReturn, StartFail
  <1> QED
    BY <1>1 DEF Start

(* OneIncidentPerIdentity survives the end of a run, contained or not.     *)
LEMMA ContainOne ==
  ASSUME TypeOK, Stamped, OneIncidentPerIdentity, NEW r \in Runs, Exit(r) \/
  Complete(r) \/ GuardTrip(r) \/ Contain(r)
  PROVE  OneIncidentPerIdentity'
  <1> USE LockdownAssumption, ApprovalAssumption, ResponderFacts DEF TypeOK,
        Stamped, OneIncidentPerIdentity, RunStates, Starting, Steps, Scanners, Past,
        InForce
  <1>1. CASE Exit(r) \/ Complete(r) \/ GuardTrip(r) \/ GuardContained(r) \/
            GuardFailed(r) \/ WorkerYield(r) \/ WorkerContained(r) \/ WorkerFailed(r) \/
            WorkerCapture(r) \/ WorkerMark(r)
    BY <1>1 DEF Exit, Alive, Started, Complete, GuardTrip, GuardContained,
      GuardFailed, WorkerYield, WorkerContained, WorkerFailed, Indexed,
      WorkerCapture, WorkerMark
  <1> QED
    BY <1>1 DEF Contain

(* OneIncidentPerIdentity survives a step of a response.                   *)
LEMMA RespondOne ==
  ASSUME TypeOK, Stamped, OneIncidentPerIdentity, NEW i \in Responders,
  Respond(i)
  PROVE  OneIncidentPerIdentity'
  <1> USE LockdownAssumption, ApprovalAssumption, ResponderFacts DEF TypeOK,
        Stamped, OneIncidentPerIdentity, RunStates, Starting, Steps, Scanners, Past,
        InForce
  <1>1. CASE RespondCreate(i)
    <2> PICK m \in Identities(i) :
             (\A j \in Responders : ~Matches(argv[i[1]], m, j)) /\ Create(i, m)
      BY <1>1 DEF RespondCreate
    <2>1. now \in Nat /\ \A j \in Responders : incidents[j].made \in Nat /\ incidents[j].made <= now
      BY DEF Incident
    <2>2. /\ \A j \in Responders \ {i} : incidents'[j] = incidents[j]
          /\ incidents'[i].made = now + 1 /\ incidents'[i].match = m
          /\ UNCHANGED argv
      BY DEF Create, NotRespond, runs
    <2>3. \A j \in Responders :
            incidents[j].state \in InForce /\ argv[i[1]] = argv[j[1]] => ~Fits(m, incidents[j].match)
      BY DEF Matches
    <2> HIDE DEF InForce
    <2> SUFFICES ASSUME NEW j \in Responders, NEW k \in Responders, j # k,
                        incidents'[j].state \in InForce, incidents'[k].state \in InForce,
                        argv[j[1]] = argv[k[1]], incidents'[j].made <= incidents'[k].made
                 PROVE  ~Fits(incidents'[k].match, incidents'[j].match)
      BY <2>2
    <2>4. CASE j = i
      BY <2>4, <2>1, <2>2
    <2>5. CASE k = i
      BY <2>5, <2>2, <2>3
    <2>6. CASE j # i /\ k # i
      BY <2>6, <2>2
    <2> QED BY <2>4, <2>5, <2>6
  <1>2. CASE RespondUpdate(i)
    <2>1. \A j \in Responders : Dropped(j) \/ Kept(j)
      BY <1>2, UpdateKeeps
    <2>2. UNCHANGED argv
      BY <1>2 DEF RespondUpdate, RespondFail
    <2> QED BY <2>1, <2>2 DEF Dropped, Kept, NoIncident
  <1>3. CASE RespondOverfull(i)
    <2>1. \A j \in Responders : Dropped(j) \/ Kept(j)
      BY <1>3, UpdateKeeps
    <2>2. UNCHANGED argv
      BY <1>3 DEF RespondOverfull, RespondFail
    <2> QED BY <2>1, <2>2 DEF Dropped, Kept, NoIncident
  <1>4. CASE Publish(i) \/ RespondLink(i) \/ RespondRefused(i) \/
            RespondLoad(i) \/ RespondReplaced(i) \/ RespondUnlink(i) \/
            RespondMissing(i) \/ SweepCheck(i) \/ SweepEnter(i) \/ SweepCount(i) \/
            SweepFail(i) \/ SweepLost(i) \/ SweepDone(i) \/ Done(i)
    BY <1>4 DEF Publish, RespondLink, RespondRefused,
      RespondFail, RespondLoad, Taken, RespondReplaced, RespondUnlink,
      RespondMissing, SweepCheck, SweepEnter, SweepCount, Alive, SweepFail,
      SweepLost, SweepDone, NoView, InlineDone, Done
  <1> QED
    BY <1>1, <1>2, <1>3, <1>4 DEF Respond

(* OneIncidentPerIdentity survives a step of a scan.                       *)
LEMMA ScanOne ==
  ASSUME TypeOK, Stamped, OneIncidentPerIdentity, Scan
  PROVE  OneIncidentPerIdentity'
  <1> USE LockdownAssumption, ApprovalAssumption, ResponderFacts DEF TypeOK,
        Stamped, OneIncidentPerIdentity, RunStates, Starting, Steps, Scanners, Past,
        InForce
  <1>1. CASE (\E r \in Runs : ScanRead(r)) \/ (\E r \in Runs : SweepRead(r))
            \/ (\E s \in Scanners : ScanDecide(s))
    BY <1>1 DEF ScanRead, NoView, Alive, View, Authorized, SweepRead,
      InlineDone, ScanDecide, Locked
  <1> QED
    BY <1>1 DEF Scan

(* OneIncidentPerIdentity survives a crash and the recovery from it.       *)
LEMMA RestartOne ==
  ASSUME TypeOK, Stamped, OneIncidentPerIdentity, Restart
  PROVE  OneIncidentPerIdentity'
  <1> USE LockdownAssumption, ApprovalAssumption, ResponderFacts DEF TypeOK,
        Stamped, OneIncidentPerIdentity, RunStates, Starting, Steps, Scanners, Past,
        InForce
  <1>1. CASE Restart
    <2>1. \A j \in Responders : incidents'[j].state = "none" \/ incidents'[j] = incidents[j]
      BY <1>1, RestartKeeps DEF Dropped, NoIncident
    <2>2. UNCHANGED argv
      BY <1>1 DEF Restart
    <2> HIDE DEF TypeOK, Stamped
    <2> SUFFICES ASSUME NEW j \in Responders, NEW k \in Responders, j # k,
                        incidents'[j].state \in InForce, incidents'[k].state \in InForce,
                        argv[j[1]] = argv[k[1]], incidents'[j].made <= incidents'[k].made
                 PROVE  ~Fits(incidents'[k].match, incidents'[j].match)
      BY <2>2
    <2>3. incidents'[j] = incidents[j] /\ incidents'[k] = incidents[k]
      BY <2>1
    <2> QED BY <2>3
  <1> QED
    BY <1>1

(* OneIncidentPerIdentity survives every step, stuttering included.        *)
LEMMA StepOne ==
  ASSUME IInv, [Next]_vars
  PROVE  OneIncidentPerIdentity'
  <1> USE DEF IInv
  <1>1. CASE UNCHANGED vars
    BY <1>1 DEF vars, OneIncidentPerIdentity, InForce
  <1>2. CASE Requests \/ EditDone \/ KillDone
    BY <1>2, RequestOne
  <1>3. CASE Start
    BY <1>3, StartOne
  <1>4. ASSUME NEW r \in Runs, Exit(r) \/ Complete(r) \/ GuardTrip(r) \/ Contain(r) PROVE OneIncidentPerIdentity'
    BY <1>4, ContainOne
  <1>5. ASSUME NEW i \in Responders, Respond(i) PROVE OneIncidentPerIdentity'
    BY <1>5, RespondOne
  <1>6. CASE Scan
    BY <1>6, ScanOne
  <1>7. CASE Restart
    BY <1>7, RestartOne
  <1> QED
    BY <1>1, <1>2, <1>3, <1>4, <1>5, <1>6, <1>7 DEF Next

-----------------------------------------------------------------------------
(* The initial states.                                                     *)
LEMMA InitIInv == Init => IInv
  <1> SUFFICES ASSUME Init PROVE IInv
    OBVIOUS
  <1> USE LockdownAssumption, ApprovalAssumption, ResponderFacts DEF Init
  <1>1. \A i \in Responders : incidents[i] = NoIncident
    OBVIOUS
  <1>2. TypeOK
    BY NoIncidentType DEF TypeOK, NoView, RunStates, Starting, Steps
  <1>3. Stamped /\ Exclusive /\ Revoking
    BY DEF Stamped, Past, Exclusive, Revoking, NoIncident
  <1>4. Viewed
    BY DEF Viewed, Scanners
  <1>5. Untouched /\ Once
    BY DEF Untouched, Quiet, Once, NoIncident, NoView
  <1>6. CompletedMeansRevoked /\ OneIncidentPerIdentity
    BY <1>1 DEF CompletedMeansRevoked, OneIncidentPerIdentity, NoIncident, InForce
  <1> QED BY <1>2, <1>3, <1>4, <1>5, <1>6 DEF IInv

(* The inductive invariant holds in every reachable state.                 *)
THEOREM LockdownInvariance == Spec => []IInv
  <1>1. IInv /\ [Next]_vars => IInv'
    BY StepType, StepStamped, StepExclusive, StepRevoking, StepViewed,
       StepUntouched, StepOnce, StepCompleted, StepOne DEF IInv
  <1> QED BY InitIInv, <1>1, PTL DEF Spec

(* Every variable keeps its type.                                          *)
THEOREM LockdownType == Spec => []TypeOK
  <1>1. IInv => TypeOK
    BY DEF IInv
  <1> QED BY LockdownInvariance, <1>1, PTL

(* A completed incident speaks the truth: the approval it names is not in  *)
(* the store (_post_containment_response sets completed after the unlink). *)
THEOREM CompletedRevoked == Spec => []CompletedMeansRevoked
  <1>1. IInv => CompletedMeansRevoked
    BY DEF IInv
  <1> QED BY LockdownInvariance, <1>1, PTL

(* The responses of guards and workers share one incident, but where a     *)
(* guard cannot tell the executable (find_match).                          *)
THEOREM OneIncident == Spec => []OneIncidentPerIdentity
  <1>1. IInv => OneIncidentPerIdentity
    BY DEF IInv
  <1> QED BY LockdownInvariance, <1>1, PTL

(* A response removes only the approval that was in force when the run was *)
(* launched (_revoke_exact_approval).                                      *)
THEOREM ExactlyRevoked == Spec => ExactRevocation
  <1> DEFINE Exact == \A i \in Responders, n \in Names :
                        pc[i] = "unlink" /\ pc'[i] = "update" /\ approvals'[n] # approvals[n]
                          => approvals[n] = took[i]
  <1>1. IInv /\ [Next]_vars => [Exact]_vars
    <2> SUFFICES ASSUME IInv, Next, NEW i \in Responders, NEW n \in Names,
                        pc[i] = "unlink", pc'[i] = "update", approvals'[n] # approvals[n]
                 PROVE  approvals[n] = took[i]
      OBVIOUS
    <2> USE ResponderFacts DEF IInv
    <2>1. ASSUME NEW j \in Responders, Respond(j) PROVE approvals[n] = took[i]
      <3>1. CASE RespondUnlink(j)
        <4>1. j = i
          BY <2>1, <3>1 DEF RespondUnlink, TypeOK
        <4>2. Taken(i) = took[i]
          BY <3>1, <4>1 DEF RespondUnlink, Revoking
        <4>3. n = took[i].name
          BY <3>1, <4>1 DEF RespondUnlink, TypeOK
        <4> QED BY <4>2, <4>3 DEF Taken
      <3> QED BY <2>1, <3>1 DEF Respond, Publish, RespondLink, RespondCreate, Create,
            RespondRefused, RespondLoad, RespondReplaced, RespondMissing,
            RespondUpdate, RespondOverfull, RespondFail, SweepCheck, SweepEnter,
            SweepCount, SweepFail, SweepLost, SweepDone, Done
    <2>2. CASE Requests \/ EditDone \/ KillDone
      BY <2>2 DEF Requests, EditDone, KillDone, Edit, Approve, Revoke, EditRefused,
        Acknowledge, Clear, Kill, StartAdmit
    <2>3. CASE Start
      BY <2>3 DEF Start, StartMatch, StartRefused, StartLaunch, StartProvenance,
        StartRelease, StartReturn, StartFail
    <2>4. ASSUME NEW r \in Runs, Exit(r) \/ Complete(r) \/ GuardTrip(r) \/ Contain(r)
          PROVE  approvals[n] = took[i]
      BY <2>4 DEF Exit, Complete, GuardTrip, Contain, GuardContained, GuardFailed,
        WorkerYield, WorkerContained, WorkerFailed, WorkerCapture, WorkerMark
    <2>5. CASE Scan
      BY <2>5 DEF Scan, ScanRead, SweepRead, ScanDecide
    <2>6. CASE Restart
      BY <2>6 DEF Restart
    <2> QED BY <2>1, <2>2, <2>3, <2>4, <2>5, <2>6 DEF Next
  <1> QED BY LockdownInvariance, <1>1, PTL DEF Spec, ExactRevocation

(* Only root ends a lockdown, and a cleared incident is not revived        *)
(* (compact, create, update).                                              *)
THEOREM LockdownsKept == Spec => IncidentsKept
  <1> DEFINE Keeps(i) ==
        /\ incidents[i].state \in InForce => incidents'[i].state # "none"
        /\ incidents[i].state = "CLEARED" => incidents'[i].state \in {"CLEARED", "none"}
  <1>1. IInv /\ [Next]_vars => [\A i \in Responders : Keeps(i)]_vars
    <2> SUFFICES ASSUME IInv, Next, NEW i \in Responders PROVE Keeps(i)
      OBVIOUS
    <2> USE ResponderFacts DEF IInv, InForce
    <2>1. ASSUME NEW j \in Responders, Respond(j) PROVE Keeps(i)
      <3>1. CASE RespondUpdate(j) \/ RespondOverfull(j)
        BY <3>1, UpdateKeeps DEF Dropped, Kept, NoIncident
      <3>2. CASE RespondCreate(j)
        <4>1. incidents[j].state = "none"
          BY <3>2 DEF RespondCreate, Once
        <4> QED BY <3>2, <4>1 DEF RespondCreate, Create, TypeOK
      <3>3. CASE ~(RespondUpdate(j) \/ RespondOverfull(j) \/ RespondCreate(j))
        <4>1. UNCHANGED incidents
          BY <2>1, <3>3 DEF Respond, Publish, RespondLink, RespondRefused, RespondLoad,
            RespondReplaced, RespondUnlink, RespondMissing, RespondFail, SweepCheck,
            SweepEnter, SweepCount, SweepFail, SweepLost, SweepDone, Done
        <4> QED BY <4>1
      <3> QED BY <3>1, <3>2, <3>3
    <2>2. CASE Requests \/ EditDone \/ KillDone
      <3>1. ASSUME NEW j \in Responders, Acknowledge(j) PROVE Keeps(i)
        BY <3>1 DEF Acknowledge, TypeOK, Incident
      <3>2. ASSUME NEW j \in Responders, Clear(j) PROVE Keeps(i)
        BY <3>2 DEF Clear, TypeOK, Incident
      <3>3. CASE UNCHANGED incidents
        BY <3>3
      <3> QED BY <2>2, <3>1, <3>2, <3>3 DEF Requests, EditDone, KillDone, Edit,
            Approve, Revoke, EditRefused, Kill, StartAdmit
    <2>3. CASE Start
      BY <2>3 DEF Start, StartMatch, StartRefused, StartLaunch, StartProvenance,
        StartRelease, StartReturn, StartFail
    <2>4. ASSUME NEW r \in Runs, Exit(r) \/ Complete(r) \/ GuardTrip(r) \/ Contain(r)
          PROVE  Keeps(i)
      BY <2>4 DEF Exit, Complete, GuardTrip, Contain, GuardContained, GuardFailed,
        WorkerYield, WorkerContained, WorkerFailed, WorkerCapture, WorkerMark
    <2>5. CASE Scan
      BY <2>5 DEF Scan, ScanRead, SweepRead, ScanDecide
    <2>6. CASE Restart
      BY <2>6, RestartKeeps DEF Dropped, NoIncident
    <2> QED BY <2>1, <2>2, <2>3, <2>4, <2>5, <2>6 DEF Next
  <1> QED BY LockdownInvariance, <1>1, PTL DEF Spec, IncidentsKept

=============================================================================
