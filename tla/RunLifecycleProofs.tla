------------------------- MODULE RunLifecycleProofs -------------------------
(***************************************************************************)
(* Proofs about RunLifecycle for every set of runs, every set of faults    *)
(* and every bound on crashes.                                             *)
(***************************************************************************)
EXTENDS RunLifecycle, TLAPS

-----------------------------------------------------------------------------
(* The inductive invariant, in parts, the first of which is TypeOK.                                *)

(* The serving thread works for a run exactly when its step needs one, and *)
(* a watch that can still fail has an attempt left.                        *)
ThreadsHold ==
  /\ main \in StartSteps \cup {"killing", "recovering", "adopting", "completing"}
       => cur \in Runs
  /\ main \in {"prepared", "launched", "stored", "linked", "listening"}
       => watcher[cur] = "none"
  /\ main = "prepared" => cg[cur] = "none"
  /\ main \in StartSteps \ {"prepared"} => cg[cur] # "none"
  /\ \A r \in Runs :
       /\ watcher[r] # "none" => cg[r] # "none"
       /\ watcher[r] = "none" => attempt[r] = 0
       /\ watcher[r] \in {"arming", "polling"} => attempt[r] \in {0, 1}

Dead(r) == cg[r] \in {"emptied", "collected"}

(* Whoever acts on a proof of emptiness acts on a cgroup that was there    *)
(* and is dead, and a dead cgroup is never launched again.                 *)
ProofsHold ==
  /\ \A r \in Runs : "kill" \in receipts[r] => Dead(r)
  /\ \A r \in Runs, k \in Callers :
       /\ con[r][k] \in {"verify", "survivors"} => cg[r] # "none"
       /\ con[r][k] \in {"commit", "publish", "finish"} => Dead(r)
       /\ con[r][k] = "unavailable" => cg[r] = "collected"

(* A recorded run was launched, so a reboot leaves its cgroup collected;   *)
(* a benign completion is about to be stored for dead cgroups only.        *)
MarksHold ==
  /\ \A r \in Runs : disk[r] # "NONE" => cg[r] # "none"
  /\ \A r \in todo : disk[r] # "NONE"
  /\ \A r \in Runs : enforcer[r] # "none" \/ listener[r] # "none" \/ r \in held
                      => cg[r] # "none"
  /\ \A r \in oldBoot : cg[r] = "collected"
  /\ \A r \in Runs : watcher[r] = "mark" \/ listener[r] = "mark" => Dead(r)
  /\ main = "completing" => Dead(cur)

(* A captured process is covered by the detector's barrier, or by a record *)
(* that is no longer active, until its supervisor is gone.                 *)
CaptureGuarded ==
  /\ \A r \in held : r \in containing \/ disk[r] \notin ActiveStates \/ main = "down"
  /\ \A r \in Runs :
       /\ enforcer[r] \notin {"none", "barrier"} => r \in containing
       /\ enforcer[r] \in {"publish", "teardown", "leave"} => disk[r] \notin ActiveStates
  /\ main \in StartSteps => enforcer[cur] = "none" /\ cur \notin held
  /\ main \in RecoverySteps =>
       \A r \in Runs : watcher[r] = "none" /\ listener[r] = "none" /\ enforcer[r] = "none"
  /\ main \in RecoverySteps \ {"down"} => held = {}

(* A record of an earlier life is pending in recovery, or ended; a record  *)
(* of this life is known to the threads that may fail to end it.           *)
Pending(r) ==
  main = "down" \/ (main \in RecoverySteps /\ (r \in todo \/ r = cur))

NothingAdopted ==
  /\ \A r \in Runs : disk[r] = "NONE" \/ rec[r] # "NONE" \/ disk[r] \in EmptyTerminal
                      \/ Pending(r)
  /\ main \in StartSteps \ {"prepared", "launched"} => rec[cur] # "NONE"
  /\ main \in RecoverySteps => \A r \in Runs : rec[r] = "NONE"
  /\ main = "recover" => cur = NoRun
  /\ main = "killing" => rec[cur] # "NONE"
  /\ \A r \in Runs : watcher[r] # "none" \/ listener[r] # "none" => rec[r] # "NONE"
  /\ \A r \in Runs :
       /\ con[r]["watcher"] # "out" => watcher[r] # "none"
       /\ con[r]["listener"] # "out" => listener[r] # "none"
       /\ con[r]["main"] # "out" => r = cur /\ main \in {"killing", "recovering", "adopting"}
       /\ lock[r] = "main" => con[r]["main"] \in ConInside
                              \/ (main = "completing" /\ r = cur /\ disk[r] \in EmptyTerminal)

(* During recovery the serving thread is alone, so what it has just ended  *)
(* stays ended until it takes the next record.                             *)
EndedInRecovery ==
  main \in RecoverySteps =>
    /\ main = "down" => completed = {}
    /\ cur \notin todo
    /\ \A r \in completed : disk[r] \in EmptyTerminal /\ r \notin todo
    /\ cur \in completed => con[cur]["main"] = "returned"
    /\ main \in {"recovering", "adopting"}
         /\ con[cur]["main"] \in {"publish", "finish", "returned"} => disk[cur] \in EmptyTerminal

(* The admission index names at most one run, and every live workload      *)
(* whose end is not on record; recovery indexes only what it works on.     *)
Live(r) == ~Gone(r) /\ ~EndOnRecord(r)

IndexHolds ==
  /\ main \in {"stored", "linked", "listening", "watching", "armed", "released", "checked"}
       => disk[cur] = rec[cur]
  /\ main \in {"down", "recover"} => active = {}
  /\ main \in RecoverySteps => \A r \in active : r = cur /\ disk[r] \in ActiveStates
  /\ main \notin RecoverySteps =>
       /\ \A r, s \in active : r = s
       /\ \A r \in active : main \in StartSteps => r = cur
       /\ \A r \in Runs : Live(r) => r \in active
                                    \/ (main \in {"indexing", "adding"} /\ r = cur)

IInv ==
  /\ TypeOK /\ ThreadsHold /\ ProofsHold /\ MarksHold /\ CaptureGuarded
  /\ NothingAdopted /\ EndedInRecovery /\ IndexHolds

-----------------------------------------------------------------------------
(* The frame conditions and the helpers of the actions stay expanded.      *)
USE DEF durable, kernel, memory, serving, guards, Quiet, Step, SetRecord,
        Store, SetWatcher, SetListener, SetEnforcer, NotWatcher, NotListener,
        NotEnforcer, NotMain, NoGuard, NotRecover, ToRecover, EnvUnchanged

-----------------------------------------------------------------------------
(* TypeOK is preserved by every step.                                    *)

(* TypeOK survives a step of _contain, for whichever caller.             *)
LEMMA ContainType ==
  ASSUME TypeOK, ThreadsHold, NEW r \in Runs, NEW k \in Callers, Contain(r, k)
  PROVE  TypeOK'
  <1> USE DEF TypeOK, ThreadsHold, ActiveStates, TerminalStates,
        EmptyTerminal, RunStates, MainSteps, StartSteps, ConSteps, CgStates, Callers
  <1>1. CASE ContainCached(r, k)
    BY <1>1 DEF ContainCached
  <1>2. CASE ContainEnter(r, k)
    BY <1>2 DEF ContainEnter
  <1>3. CASE ContainKill(r, k)
    BY <1>3 DEF ContainKill
  <1>4. CASE ContainUnavailable(r, k)
    BY <1>4 DEF ContainUnavailable, ContainRaise
  <1>5. CASE ContainSurvivors(r, k)
    BY <1>5 DEF ContainSurvivors, Gone, ContainRaise
  <1>6. CASE ContainProved(r, k)
    BY <1>6 DEF ContainProved, Gone
  <1>7. CASE ContainCommit(r, k)
    BY <1>7, SMTT(30) DEF ContainCommit
  <1>8. CASE ContainPublish(r, k)
    BY <1>8 DEF ContainPublish
  <1>9. CASE ContainUnreceipted(r, k)
    BY <1>9 DEF ContainUnreceipted, ContainRaise
  <1>10. CASE ContainFinish(r, k)
    BY <1>10 DEF ContainFinish
  <1>11. CASE ContainStopHangs(r, k)
    BY <1>11 DEF ContainStopHangs
  <1> QED
    BY <1>1, <1>2, <1>3, <1>4, <1>5, <1>6, <1>7, <1>8, <1>9, <1>10, <1>11
       DEF Contain

(* TypeOK survives a step of a run's watcher thread.                     *)
LEMMA WatcherType ==
  ASSUME TypeOK, ThreadsHold, NEW r \in Runs, Watcher(r)
  PROVE  TypeOK'
  <1> USE DEF TypeOK, ThreadsHold, ActiveStates, TerminalStates,
        EmptyTerminal, RunStates, MainSteps, StartSteps, ConSteps, CgStates, Callers
  <1>1. CASE WatcherArm(r)
    BY <1>1 DEF WatcherArm
  <1>2. CASE WatcherError(r)
    <2>1. attempt[r] \in {0, 1}
      BY <1>2 DEF WatcherError, ThreadsHold
    <2>2. PICK s \in {"arming", "contain"}, c \in {"out", "enter"} :
            /\ attempt' = [attempt EXCEPT ![r] = @ + 1]
            /\ SetWatcher(r, s) /\ Step(r, "watcher", c)
      BY <1>2 DEF WatcherError, WatcherRetry
    <2>3. UNCHANGED <<durable, kernel, memory, serving, listener, enforcer, crashes>>
      BY <1>2 DEF WatcherError
    <2> QED BY <2>1, <2>2, <2>3 DEF TypeOK, Callers, ConSteps
  <1>3. CASE WatcherTrip(r)
    BY <1>3 DEF WatcherTrip
  <1>4. CASE WatcherContained(r)
    BY <1>4 DEF WatcherContained
  <1>5. CASE WatcherRaised(r)
    <2>1. PICK s \in {"arming", "contain", "mark", "exited"}, c \in {"out", "enter"} :
            SetWatcher(r, s) /\ Step(r, "watcher", c)
      BY <1>5 DEF WatcherRaised, WatcherRetry
    <2>2. attempt' \in [Runs -> 0..2]
      BY <1>5 DEF WatcherRaised, WatcherRetry, TypeOK
    <2>3. UNCHANGED <<durable, kernel, memory, serving, listener, enforcer, crashes>>
      BY <1>5 DEF WatcherRaised
    <2> QED BY <2>1, <2>2, <2>3 DEF TypeOK, Callers, ConSteps
  <1>6. CASE WatcherCollected(r)
    BY <1>6 DEF WatcherCollected
  <1>7. CASE WatcherComplete(r)
    BY <1>7 DEF WatcherComplete, CompleteStore, MayComplete, LaunchAlive
  <1>8. CASE WatcherRefused(r)
    BY <1>8 DEF WatcherRefused, MayComplete, LaunchAlive
  <1>9. CASE WatcherTeardown(r)
    BY <1>9 DEF WatcherTeardown, CompleteTeardown
  <1> QED
    BY <1>1, <1>2, <1>3, <1>4, <1>5, <1>6, <1>7, <1>8, <1>9 DEF Watcher

(* TypeOK survives a step of a run's exec listener thread.               *)
LEMMA ListenerType ==
  ASSUME TypeOK, ThreadsHold, NEW r \in Runs, Listener(r)
  PROVE  TypeOK'
  <1> USE DEF TypeOK, ThreadsHold, ActiveStates, TerminalStates,
        EmptyTerminal, RunStates, MainSteps, StartSteps, ConSteps, CgStates, Callers
  <1>1. CASE ListenerTrip(r)
    <2> HIDE DEF TypeOK, ThreadsHold, RunStates, ActiveStates, TerminalStates
    <2>1. PICK s \in {"contain", "exited"} : SetListener(r, s)
      BY <1>1 DEF ListenerTrip
    <2>2. con' = con \/ Step(r, "listener", "enter")
      BY <1>1 DEF ListenerTrip
    <2>3. con' \in [Runs -> [Callers -> ConSteps]]
      <3>1. CASE con' = con
        BY <3>1 DEF TypeOK
      <3>2. CASE Step(r, "listener", "enter")
        BY <3>2 DEF TypeOK
      <3> QED BY <2>2, <3>1, <3>2
    <2>4. UNCHANGED <<durable, kernel, memory, serving, watcher, attempt, enforcer, crashes>>
      BY <1>1 DEF ListenerTrip
    <2> QED BY <2>1, <2>3, <2>4 DEF TypeOK
  <1>2. CASE ListenerContained(r)
    BY <1>2 DEF ListenerContained, Raised
  <1>3. CASE ListenerAgain(r)
    BY <1>3 DEF ListenerAgain, Raised
  <1>4. CASE ListenerLast(r)
    BY <1>4 DEF ListenerLast, Raised
  <1>5. CASE ListenerHangup(r)
    BY <1>5 DEF ListenerHangup, Gone
  <1>6. CASE ListenerComplete(r)
    BY <1>6 DEF ListenerComplete, CompleteStore, MayComplete, LaunchAlive
  <1>7. CASE ListenerRefused(r)
    BY <1>7 DEF ListenerRefused, MayComplete, LaunchAlive
  <1>8. CASE ListenerTeardown(r)
    BY <1>8 DEF ListenerTeardown, CompleteTeardown
  <1>9. CASE ListenerIdle(r)
    BY <1>9 DEF ListenerIdle
  <1> QED
    BY <1>1, <1>2, <1>3, <1>4, <1>5, <1>6, <1>7, <1>8, <1>9 DEF Listener

(* TypeOK survives a step of the detector's enforcement worker.          *)
LEMMA EnforcerType ==
  ASSUME TypeOK, ThreadsHold, NEW r \in Runs, Detect(r) \/ Enforcer(r)
  PROVE  TypeOK'
  <1> USE DEF TypeOK, ThreadsHold, ActiveStates, TerminalStates,
        EmptyTerminal, RunStates, MainSteps, StartSteps, ConSteps, CgStates, Callers
  <1>1. CASE Detect(r)
    BY <1>1 DEF Detect, Gone
  <1>2. CASE EnforcerYield(r)
    BY <1>2 DEF EnforcerYield
  <1>3. CASE EnforcerBarrier(r)
    BY <1>3 DEF EnforcerBarrier
  <1>4. CASE EnforcerCapture(r)
    BY <1>4 DEF EnforcerCapture, Gone
  <1>5. CASE EnforcerProved(r)
    BY <1>5 DEF EnforcerProved
  <1>6. CASE EnforcerFail(r)
    BY <1>6 DEF EnforcerFail, Gone
  <1>7. CASE EnforcerMark(r)
    BY <1>7 DEF EnforcerMark
  <1>8. CASE EnforcerPublish(r)
    BY <1>8 DEF EnforcerPublish
  <1>9. CASE EnforcerTeardown(r)
    BY <1>9 DEF EnforcerTeardown
  <1>10. CASE EnforcerMarkFailed(r)
    BY <1>10, SMTT(40) DEF EnforcerMarkFailed
  <1>11. CASE EnforcerLeave(r)
    BY <1>11 DEF EnforcerLeave
  <1> QED
    BY <1>1, <1>2, <1>3, <1>4, <1>5, <1>6, <1>7, <1>8, <1>9, <1>10, <1>11 DEF
      Enforcer

(* TypeOK survives a step of _start.                                     *)
LEMMA StartType ==
  ASSUME TypeOK, ThreadsHold, Start
  PROVE  TypeOK'
  <1> USE DEF TypeOK, ThreadsHold, ActiveStates, TerminalStates,
        EmptyTerminal, RunStates, MainSteps, StartSteps, ConSteps, CgStates, Callers
  <1>1. ASSUME NEW r \in Runs, StartAdmit(r) PROVE TypeOK'
    BY <1>1 DEF StartAdmit
  <1>2. CASE StartLaunch
    <2>1. cur \in Runs
      BY <1>2 DEF StartLaunch
    <2>2. PICK s \in {"populated", "collected"} : cg' = [cg EXCEPT ![cur] = s]
      BY <1>2 DEF StartLaunch
    <2>3. bnd' \subseteq bnd /\ main' \in {"launched", "idle"} /\ cur' \in {cur, NoRun}
      BY <1>2 DEF StartLaunch
    <2>4. UNCHANGED <<durable, open, held, memory, guards, todo, enforcer, con, crashes>>
      BY <1>2 DEF StartLaunch
    <2> QED BY <2>1, <2>2, <2>3, <2>4
  <1>3. CASE StartStore
    BY <1>3 DEF StartStore, Gone
  <1>4. CASE StartProvenance
    BY <1>4 DEF StartProvenance
  <1>5. CASE StartListener
    BY <1>5 DEF StartListener, Gone
  <1>6. CASE StartWatcher
    BY <1>6 DEF StartWatcher
  <1>7. CASE StartReady
    BY <1>7 DEF StartReady
  <1>8. CASE StartRelease
    BY <1>8 DEF StartRelease, Gone
  <1>9. CASE StartCheck
    BY <1>9 DEF StartCheck
  <1>10. CASE StartSetRunning
    BY <1>10, SMTT(40) DEF StartSetRunning
  <1>11. CASE StartWriteRunning
    BY <1>11 DEF StartWriteRunning
  <1>12. CASE StartIndex
    BY <1>12 DEF StartIndex
  <1>13. CASE StartAdd
    BY <1>13 DEF StartAdd
  <1>14. CASE StartFail
    BY <1>14 DEF StartFail, StartMayFail, Gone
  <1> QED
    BY <1>1, <1>2, <1>3, <1>4, <1>5, <1>6, <1>7, <1>8, <1>9, <1>10, <1>11,
      <1>12, <1>13, <1>14 DEF Start

(* TypeOK survives the operator's kill.                                  *)
LEMMA KillType ==
  ASSUME TypeOK, ThreadsHold, (\E r \in Runs : Kill(r)) \/ KillDone
  PROVE  TypeOK'
  <1> USE DEF TypeOK, ThreadsHold, ActiveStates, TerminalStates,
        EmptyTerminal, RunStates, MainSteps, StartSteps, ConSteps, CgStates, Callers
  <1>1. ASSUME NEW r \in Runs, Kill(r) PROVE TypeOK'
    BY <1>1, SMTT(40) DEF Kill
  <1>2. CASE KillDone
    BY <1>2 DEF KillDone, Raised
  <1> QED
    BY <1>1, <1>2

(* TypeOK survives a step of _recover.                                   *)
LEMMA RecoverType ==
  ASSUME TypeOK, ThreadsHold, Recover
  PROVE  TypeOK'
  <1> USE DEF TypeOK, ThreadsHold, ActiveStates, TerminalStates,
        EmptyTerminal, RunStates, MainSteps, StartSteps, ConSteps, CgStates, Callers
  <1>1. ASSUME NEW r \in Runs, RecoverTerminal(r) PROVE TypeOK'
    BY <1>1 DEF RecoverTerminal
  <1>2. ASSUME NEW r \in Runs, RecoverContain(r) PROVE TypeOK'
    BY <1>2 DEF RecoverContain
  <1>3. ASSUME NEW r \in Runs, RecoverOldBoot(r) PROVE TypeOK'
    BY <1>3 DEF RecoverOldBoot, Restore
  <1>4. ASSUME NEW r \in Runs, RecoverOrphan(r) PROVE TypeOK'
    BY <1>4 DEF RecoverOrphan
  <1>5. CASE Boot
    BY <1>5 DEF Boot
  <1>6. CASE RecoverContained
    BY <1>6 DEF RecoverContained
  <1>7. CASE RecoverEmpty
    BY <1>7 DEF RecoverEmpty, Gone, Restore, Raised
  <1>8. CASE RecoverComplete
    BY <1>8 DEF RecoverComplete, CompleteStore, MayComplete, LaunchAlive
  <1>9. CASE RecoverTeardown
    BY <1>9, SMTT(40) DEF RecoverTeardown, CompleteTeardown
  <1>10. CASE RecoverDone
    BY <1>10 DEF RecoverDone
  <1>11. CASE RecoverAbort
    BY <1>11 DEF RecoverAbort, Raised, Gone, Forget
  <1> QED
    BY <1>1, <1>2, <1>3, <1>4, <1>5, <1>6, <1>7, <1>8, <1>9, <1>10, <1>11 DEF
      Recover

(* TypeOK survives a crash or a reboot.                                  *)
LEMMA CrashType ==
  ASSUME TypeOK, ThreadsHold, Crash \/ Reboot
  PROVE  TypeOK'
  <1> USE DEF TypeOK, ThreadsHold, ActiveStates, TerminalStates,
        EmptyTerminal, RunStates, MainSteps, StartSteps, ConSteps, CgStates, Callers
  <1>1. CASE Crash
    BY <1>1, RunsAssumption DEF Crash, Forget
  <1>2. CASE Reboot
    BY <1>2, RunsAssumption DEF Reboot, Forget
  <1> QED
    BY <1>1, <1>2

(* TypeOK survives a step of the workload or of systemd.                 *)
LEMMA EnvironmentType ==
  ASSUME TypeOK, ThreadsHold, Environment
  PROVE  TypeOK'
  <1> USE DEF TypeOK, ThreadsHold, ActiveStates, TerminalStates,
        EmptyTerminal, RunStates, MainSteps, StartSteps, ConSteps, CgStates, Callers
  <1>1. ASSUME NEW r \in Runs, Exit(r) PROVE TypeOK'
    BY <1>1 DEF Exit
  <1>2. ASSUME NEW r \in Runs, Collect(r) PROVE TypeOK'
    BY <1>2 DEF Collect
  <1>3. ASSUME NEW r \in Runs, HeldDies(r) PROVE TypeOK'
    BY <1>3 DEF HeldDies
  <1> QED
    BY <1>1, <1>2, <1>3 DEF Environment

(* TypeOK survives every step, stuttering included.                      *)
LEMMA StepType ==
  ASSUME IInv, [Next]_vars
  PROVE  TypeOK'
  <1> USE DEF IInv
  <1>1. CASE UNCHANGED vars
    BY <1>1 DEF vars, TypeOK, ThreadsHold, ActiveStates, TerminalStates,
      EmptyTerminal, RunStates, MainSteps, StartSteps, ConSteps, CgStates,
      Callers
  <1>2. ASSUME NEW r \in Runs, NEW k \in Callers, Contain(r, k) PROVE TypeOK'
    BY <1>2, ContainType
  <1>3. ASSUME NEW r \in Runs, Watcher(r) PROVE TypeOK'
    BY <1>3, WatcherType
  <1>4. ASSUME NEW r \in Runs, Listener(r) PROVE TypeOK'
    BY <1>4, ListenerType
  <1>5. ASSUME NEW r \in Runs, Detect(r) \/ Enforcer(r) PROVE TypeOK'
    BY <1>5, EnforcerType
  <1>6. CASE Start
    BY <1>6, StartType
  <1>7. CASE (\E r \in Runs : Kill(r)) \/ KillDone
    BY <1>7, KillType
  <1>8. CASE Recover
    BY <1>8, RecoverType
  <1>9. CASE Crash \/ Reboot
    BY <1>9, CrashType
  <1>10. CASE Environment
    BY <1>10, EnvironmentType
  <1> QED
    BY <1>1, <1>2, <1>3, <1>4, <1>5, <1>6, <1>7, <1>8, <1>9, <1>10 DEF Next

-----------------------------------------------------------------------------
(* ThreadsHold is preserved by every step.                               *)

(* ThreadsHold survives a step of _contain, for whichever caller.        *)
LEMMA ContainThreads ==
  ASSUME TypeOK, ThreadsHold, NothingAdopted, NEW r \in Runs, NEW k \in Callers, Contain(r, k)
  PROVE  ThreadsHold'
  <1> USE DEF TypeOK, ThreadsHold, MainSteps, StartSteps, CgStates, Callers
  <1>1. CASE ContainKill(r, k)
    BY <1>1 DEF ContainKill
  <1>2. CASE ContainCached(r, k) \/ ContainEnter(r, k) \/
            ContainUnavailable(r, k) \/ ContainSurvivors(r, k) \/ ContainProved(r, k) \/
            ContainCommit(r, k) \/ ContainPublish(r, k) \/ ContainUnreceipted(r, k) \/
            ContainFinish(r, k)
    BY <1>2 DEF ContainCached, ContainEnter, ContainUnavailable, ContainRaise,
      ContainSurvivors, Gone, ContainProved, ContainCommit, ContainPublish,
      ContainUnreceipted, ContainFinish
  <1>3. CASE ContainStopHangs(r, k)
    BY <1>3 DEF ContainStopHangs, NothingAdopted
  <1> QED
    BY <1>1, <1>2, <1>3 DEF Contain

(* ThreadsHold survives a step of a run's watcher thread.                *)
LEMMA WatcherThreads ==
  ASSUME TypeOK, ThreadsHold, NEW r \in Runs, Watcher(r)
  PROVE  ThreadsHold'
  <1> USE DEF TypeOK, ThreadsHold, MainSteps, StartSteps, CgStates, Callers
  <1>1. CASE WatcherArm(r)
    BY <1>1 DEF WatcherArm
  <1>2. CASE WatcherError(r)
    BY <1>2, SMTT(90) DEF WatcherError, WatcherRetry
  <1>3. CASE WatcherTrip(r)
    BY <1>3 DEF WatcherTrip
  <1>4. CASE WatcherContained(r)
    BY <1>4 DEF WatcherContained
  <1>5. CASE WatcherRaised(r)
    BY <1>5, SMTT(60) DEF WatcherRaised, Raised, WatcherRetry
  <1>6. CASE WatcherCollected(r)
    BY <1>6 DEF WatcherCollected
  <1>7. CASE WatcherComplete(r)
    BY <1>7 DEF WatcherComplete, CompleteStore, MayComplete, ActiveStates,
      LaunchAlive
  <1>8. CASE WatcherRefused(r)
    BY <1>8 DEF WatcherRefused, MayComplete, ActiveStates, LaunchAlive
  <1>9. CASE WatcherTeardown(r)
    BY <1>9 DEF WatcherTeardown, CompleteTeardown
  <1> QED
    BY <1>1, <1>2, <1>3, <1>4, <1>5, <1>6, <1>7, <1>8, <1>9 DEF Watcher

(* ThreadsHold survives a step of a run's exec listener thread.          *)
LEMMA ListenerThreads ==
  ASSUME TypeOK, ThreadsHold, NEW r \in Runs, Listener(r)
  PROVE  ThreadsHold'
  <1> USE DEF TypeOK, ThreadsHold, MainSteps, StartSteps, CgStates, Callers
  <1>1. CASE ListenerTrip(r) \/ ListenerContained(r) \/ ListenerAgain(r) \/
            ListenerLast(r) \/ ListenerHangup(r) \/ ListenerComplete(r) \/
            ListenerRefused(r) \/ ListenerTeardown(r) \/ ListenerIdle(r)
    BY <1>1 DEF ListenerTrip, ActiveStates, ListenerContained, Raised,
      ListenerAgain, ListenerLast, ListenerHangup, Gone, ListenerComplete,
      CompleteStore, MayComplete, LaunchAlive, ListenerRefused,
      ListenerTeardown, CompleteTeardown, ListenerIdle
  <1> QED
    BY <1>1 DEF Listener

(* ThreadsHold survives a step of the detector's enforcement worker.     *)
LEMMA EnforcerThreads ==
  ASSUME TypeOK, ThreadsHold, NEW r \in Runs, Detect(r) \/ Enforcer(r)
  PROVE  ThreadsHold'
  <1> USE DEF TypeOK, ThreadsHold, MainSteps, StartSteps, CgStates, Callers
  <1>1. CASE EnforcerCapture(r)
    BY <1>1 DEF EnforcerCapture, Gone
  <1>2. CASE Detect(r) \/ EnforcerYield(r) \/ EnforcerBarrier(r) \/
            EnforcerProved(r) \/ EnforcerFail(r) \/ EnforcerMark(r) \/
            EnforcerPublish(r) \/ EnforcerTeardown(r) \/ EnforcerMarkFailed(r) \/
            EnforcerLeave(r)
    BY <1>2 DEF Detect, Gone, EnforcerYield, EnforcerBarrier, EnforcerProved,
      EnforcerFail, EnforcerMark, EnforcerPublish, EnforcerTeardown,
      EnforcerMarkFailed, ActiveStates, EnforcerLeave
  <1> QED
    BY <1>1, <1>2 DEF Enforcer

(* ThreadsHold survives a step of _start.                                *)
LEMMA StartThreads ==
  ASSUME TypeOK, ThreadsHold, Start
  PROVE  ThreadsHold'
  <1> USE DEF TypeOK, ThreadsHold, MainSteps, StartSteps, CgStates, Callers
  <1>1. ASSUME NEW r \in Runs, StartAdmit(r) PROVE ThreadsHold'
    BY <1>1 DEF StartAdmit
  <1>2. CASE StartLaunch
    BY <1>2, SMTT(40) DEF StartLaunch
  <1>3. CASE StartStore
    BY <1>3 DEF StartStore, Gone
  <1>4. CASE StartProvenance
    BY <1>4 DEF StartProvenance
  <1>5. CASE StartListener
    BY <1>5 DEF StartListener, Gone
  <1>6. CASE StartWatcher
    BY <1>6 DEF StartWatcher
  <1>7. CASE StartReady
    BY <1>7 DEF StartReady
  <1>8. CASE StartRelease
    BY <1>8 DEF StartRelease, Gone
  <1>9. CASE StartCheck
    BY <1>9 DEF StartCheck, ActiveStates
  <1>10. CASE StartSetRunning
    BY <1>10, SMTT(40) DEF StartSetRunning
  <1>11. CASE StartWriteRunning
    BY <1>11 DEF StartWriteRunning
  <1>12. CASE StartIndex
    BY <1>12 DEF StartIndex, ActiveStates
  <1>13. CASE StartAdd
    BY <1>13 DEF StartAdd, ActiveStates
  <1>14. CASE StartFail
    BY <1>14 DEF StartFail, StartMayFail, Gone
  <1> QED
    BY <1>1, <1>2, <1>3, <1>4, <1>5, <1>6, <1>7, <1>8, <1>9, <1>10, <1>11,
      <1>12, <1>13, <1>14 DEF Start

(* ThreadsHold survives the operator's kill.                             *)
LEMMA KillThreads ==
  ASSUME TypeOK, ThreadsHold, (\E r \in Runs : Kill(r)) \/ KillDone
  PROVE  ThreadsHold'
  <1> USE DEF TypeOK, ThreadsHold, MainSteps, StartSteps, CgStates, Callers
  <1>1. ASSUME NEW r \in Runs, Kill(r) PROVE ThreadsHold'
    BY <1>1, SMTT(40) DEF Kill, ActiveStates
  <1>2. CASE KillDone
    BY <1>2 DEF KillDone, Raised
  <1> QED
    BY <1>1, <1>2

(* ThreadsHold survives a step of _recover.                              *)
LEMMA RecoverThreads ==
  ASSUME TypeOK, ThreadsHold, Recover
  PROVE  ThreadsHold'
  <1> USE DEF TypeOK, ThreadsHold, MainSteps, StartSteps, CgStates, Callers
  <1>1. ASSUME NEW r \in Runs, RecoverTerminal(r) PROVE ThreadsHold'
    BY <1>1 DEF RecoverTerminal, EmptyTerminal
  <1>2. ASSUME NEW r \in Runs, RecoverContain(r) PROVE ThreadsHold'
    BY <1>2 DEF RecoverContain, EmptyTerminal
  <1>3. ASSUME NEW r \in Runs, RecoverOldBoot(r) PROVE ThreadsHold'
    BY <1>3 DEF RecoverOldBoot, EmptyTerminal, Restore
  <1>4. ASSUME NEW r \in Runs, RecoverOrphan(r) PROVE ThreadsHold'
    BY <1>4 DEF RecoverOrphan
  <1>5. CASE Boot
    BY <1>5 DEF Boot
  <1>6. CASE RecoverContained
    BY <1>6 DEF RecoverContained
  <1>7. CASE RecoverEmpty
    BY <1>7 DEF RecoverEmpty, Gone, Restore, Raised
  <1>8. CASE RecoverComplete
    BY <1>8 DEF RecoverComplete, ActiveStates, CompleteStore, MayComplete,
      LaunchAlive
  <1>9. CASE RecoverTeardown
    BY <1>9, SMTT(40) DEF RecoverTeardown, CompleteTeardown
  <1>10. CASE RecoverDone
    BY <1>10 DEF RecoverDone
  <1>11. CASE RecoverAbort
    BY <1>11 DEF RecoverAbort, Raised, Gone, Forget
  <1> QED
    BY <1>1, <1>2, <1>3, <1>4, <1>5, <1>6, <1>7, <1>8, <1>9, <1>10, <1>11 DEF
      Recover

(* ThreadsHold survives a crash or a reboot.                             *)
LEMMA CrashThreads ==
  ASSUME TypeOK, ThreadsHold, Crash \/ Reboot
  PROVE  ThreadsHold'
  <1> USE DEF TypeOK, ThreadsHold, MainSteps, StartSteps, CgStates, Callers
  <1>1. CASE Crash
    BY <1>1, RunsAssumption DEF Crash, Forget
  <1>2. CASE Reboot
    BY <1>2, RunsAssumption DEF Reboot, Forget
  <1> QED
    BY <1>1, <1>2

(* ThreadsHold survives a step of the workload or of systemd.            *)
LEMMA EnvironmentThreads ==
  ASSUME TypeOK, ThreadsHold, Environment
  PROVE  ThreadsHold'
  <1> USE DEF TypeOK, ThreadsHold, MainSteps, StartSteps, CgStates, Callers
  <1>1. ASSUME NEW r \in Runs, Exit(r) PROVE ThreadsHold'
    BY <1>1 DEF Exit
  <1>2. ASSUME NEW r \in Runs, Collect(r) PROVE ThreadsHold'
    BY <1>2 DEF Collect
  <1>3. ASSUME NEW r \in Runs, HeldDies(r) PROVE ThreadsHold'
    BY <1>3 DEF HeldDies
  <1> QED
    BY <1>1, <1>2, <1>3 DEF Environment

(* ThreadsHold survives every step, stuttering included.                 *)
LEMMA StepThreads ==
  ASSUME IInv, [Next]_vars
  PROVE  ThreadsHold'
  <1> USE DEF IInv
  <1>1. CASE UNCHANGED vars
    BY <1>1 DEF vars, TypeOK, ThreadsHold, MainSteps, StartSteps, CgStates,
      Callers
  <1>2. ASSUME NEW r \in Runs, NEW k \in Callers, Contain(r, k) PROVE ThreadsHold'
    BY <1>2, ContainThreads
  <1>3. ASSUME NEW r \in Runs, Watcher(r) PROVE ThreadsHold'
    BY <1>3, WatcherThreads
  <1>4. ASSUME NEW r \in Runs, Listener(r) PROVE ThreadsHold'
    BY <1>4, ListenerThreads
  <1>5. ASSUME NEW r \in Runs, Detect(r) \/ Enforcer(r) PROVE ThreadsHold'
    BY <1>5, EnforcerThreads
  <1>6. CASE Start
    BY <1>6, StartThreads
  <1>7. CASE (\E r \in Runs : Kill(r)) \/ KillDone
    BY <1>7, KillThreads
  <1>8. CASE Recover
    BY <1>8, RecoverThreads
  <1>9. CASE Crash \/ Reboot
    BY <1>9, CrashThreads
  <1>10. CASE Environment
    BY <1>10, EnvironmentThreads
  <1> QED
    BY <1>1, <1>2, <1>3, <1>4, <1>5, <1>6, <1>7, <1>8, <1>9, <1>10 DEF Next

-----------------------------------------------------------------------------
(* ProofsHold is preserved by every step.                                *)

(* ProofsHold survives a step of _contain, for whichever caller.         *)
LEMMA ContainProofs ==
  ASSUME TypeOK, ThreadsHold, ProofsHold, MarksHold, NEW r \in Runs, NEW k \in
  Callers, Contain(r, k)
  PROVE  ProofsHold'
  <1> USE DEF TypeOK, ThreadsHold, ProofsHold, MarksHold, Dead, StartSteps,
        Callers, CgStates, Gone
  <1>1. CASE ContainCached(r, k)
    BY <1>1 DEF ContainCached
  <1>2. CASE ContainEnter(r, k)
    BY <1>2 DEF ContainEnter
  <1>3. CASE ContainKill(r, k)
    BY <1>3 DEF ContainKill
  <1>4. CASE ContainUnavailable(r, k)
    BY <1>4 DEF ContainUnavailable, ContainRaise
  <1>5. CASE ContainSurvivors(r, k)
    BY <1>5 DEF ContainSurvivors, ContainRaise
  <1>6. CASE ContainProved(r, k)
    BY <1>6 DEF ContainProved
  <1>7. CASE ContainCommit(r, k)
    BY <1>7, SMTT(30) DEF ContainCommit
  <1>8. CASE ContainPublish(r, k)
    BY <1>8 DEF ContainPublish
  <1>9. CASE ContainUnreceipted(r, k)
    BY <1>9 DEF ContainUnreceipted, ContainRaise
  <1>10. CASE ContainFinish(r, k)
    BY <1>10 DEF ContainFinish
  <1>11. CASE ContainStopHangs(r, k)
    BY <1>11 DEF ContainStopHangs
  <1> QED
    BY <1>1, <1>2, <1>3, <1>4, <1>5, <1>6, <1>7, <1>8, <1>9, <1>10, <1>11
       DEF Contain

(* ProofsHold survives a step of a run's watcher thread.                 *)
LEMMA WatcherProofs ==
  ASSUME TypeOK, ThreadsHold, ProofsHold, MarksHold, NEW r \in Runs,
  Watcher(r)
  PROVE  ProofsHold'
  <1> USE DEF TypeOK, ThreadsHold, ProofsHold, MarksHold, Dead, StartSteps,
        Callers, CgStates, Gone
  <1>1. CASE WatcherError(r)
    <2> HIDE DEF TypeOK, ThreadsHold, ProofsHold, MarksHold, Dead
    <2>1. \A s \in Runs, k \in Callers :
            con'[s][k] = con[s][k] \/ con'[s][k] \in {"out", "enter"}
      BY <1>1, SMTT(60) DEF WatcherError, WatcherRetry, TypeOK, ThreadsHold, Callers
    <2>2. receipts' = receipts /\ cg' = cg
      BY <1>1 DEF WatcherError
    <2> QED BY <2>1, <2>2 DEF ProofsHold, Dead
  <1>2. CASE WatcherTrip(r)
    BY <1>2 DEF WatcherTrip
  <1>3. CASE WatcherContained(r)
    BY <1>3 DEF WatcherContained
  <1>4. CASE WatcherRaised(r)
    <2> HIDE DEF TypeOK, ThreadsHold, ProofsHold, MarksHold, Dead
    <2>1. \A s \in Runs, k \in Callers :
            con'[s][k] = con[s][k] \/ con'[s][k] \in {"out", "enter"}
      BY <1>4, SMTT(60) DEF WatcherRaised, WatcherRetry, TypeOK, ThreadsHold, Callers
    <2>2. receipts' = receipts /\ cg' = cg
      BY <1>4 DEF WatcherRaised
    <2> QED BY <2>1, <2>2 DEF ProofsHold, Dead
  <1>5. CASE WatcherArm(r) \/ WatcherCollected(r) \/ WatcherComplete(r) \/
            WatcherRefused(r) \/ WatcherTeardown(r)
    BY <1>5 DEF WatcherArm, WatcherCollected, WatcherComplete, CompleteStore,
      MayComplete, ActiveStates, LaunchAlive, WatcherRefused, WatcherTeardown,
      CompleteTeardown
  <1> QED
    BY <1>1, <1>2, <1>3, <1>4, <1>5 DEF Watcher

(* ProofsHold survives a step of a run's exec listener thread.           *)
LEMMA ListenerProofs ==
  ASSUME TypeOK, ThreadsHold, ProofsHold, MarksHold, NEW r \in Runs,
  Listener(r)
  PROVE  ProofsHold'
  <1> USE DEF TypeOK, ThreadsHold, ProofsHold, MarksHold, Dead, StartSteps,
        Callers, CgStates, Gone
  <1>1. CASE ListenerTrip(r)
    <2> HIDE DEF TypeOK, ThreadsHold, ProofsHold, MarksHold, Dead
    <2>1. \A s \in Runs, k \in Callers :
            con'[s][k] = con[s][k] \/ con'[s][k] \in {"out", "enter"}
      BY <1>1, SMTT(60) DEF ListenerTrip, TypeOK, ThreadsHold, Callers
    <2>2. receipts' = receipts /\ cg' = cg
      BY <1>1 DEF ListenerTrip
    <2> QED BY <2>1, <2>2 DEF ProofsHold, Dead
  <1>2. CASE ListenerContained(r)
    BY <1>2 DEF ListenerContained, Raised, ActiveStates
  <1>3. CASE ListenerAgain(r)
    BY <1>3 DEF ListenerAgain, Raised, ActiveStates
  <1>4. CASE ListenerLast(r)
    BY <1>4 DEF ListenerLast, Raised
  <1>5. CASE ListenerHangup(r) \/ ListenerComplete(r) \/ ListenerRefused(r) \/
            ListenerTeardown(r) \/ ListenerIdle(r)
    BY <1>5 DEF ListenerHangup, ListenerComplete, CompleteStore, MayComplete,
      ActiveStates, LaunchAlive, ListenerRefused, ListenerTeardown,
      CompleteTeardown, ListenerIdle
  <1> QED
    BY <1>1, <1>2, <1>3, <1>4, <1>5 DEF Listener

(* ProofsHold survives a step of the detector's enforcement worker.      *)
LEMMA EnforcerProofs ==
  ASSUME TypeOK, ThreadsHold, ProofsHold, MarksHold, NEW r \in Runs, Detect(r)
  \/ Enforcer(r)
  PROVE  ProofsHold'
  <1> USE DEF TypeOK, ThreadsHold, ProofsHold, MarksHold, Dead, StartSteps,
        Callers, CgStates, Gone
  <1>1. CASE EnforcerCapture(r)
    BY <1>1 DEF EnforcerCapture
  <1>2. CASE EnforcerPublish(r)
    BY <1>2 DEF EnforcerPublish
  <1>3. CASE Detect(r) \/ EnforcerYield(r) \/ EnforcerBarrier(r) \/
            EnforcerProved(r) \/ EnforcerFail(r) \/ EnforcerMark(r) \/
            EnforcerTeardown(r) \/ EnforcerMarkFailed(r) \/ EnforcerLeave(r)
    BY <1>3 DEF Detect, EnforcerYield, EnforcerBarrier, EnforcerProved,
      EnforcerFail, EnforcerMark, EnforcerTeardown, EnforcerMarkFailed,
      ActiveStates, EnforcerLeave
  <1> QED
    BY <1>1, <1>2, <1>3 DEF Enforcer

(* ProofsHold survives a step of _start.                                 *)
LEMMA StartProofs ==
  ASSUME TypeOK, ThreadsHold, ProofsHold, MarksHold, Start
  PROVE  ProofsHold'
  <1> USE DEF TypeOK, ThreadsHold, ProofsHold, MarksHold, Dead, StartSteps,
        Callers, CgStates, Gone
  <1>1. CASE StartLaunch
    <2> HIDE DEF TypeOK, ThreadsHold, ProofsHold, MarksHold, Dead
    <2>1. cur \in Runs /\ cg[cur] = "none"
      BY <1>1 DEF StartLaunch, ThreadsHold, StartSteps
    <2>2. cg' \in [Runs -> CgStates] /\ cg'[cur] # "none"
      BY <1>1, <2>1 DEF StartLaunch, TypeOK, CgStates
    <2>3. \A r \in Runs : r # cur => cg'[r] = cg[r]
      BY <1>1, <2>1 DEF StartLaunch, TypeOK
    <2>4. \A r \in Runs : Dead(r) => r # cur
      BY <2>1 DEF Dead
    <2>5. receipts' = receipts /\ con' = con /\ \A r \in Runs : Dead(r) => Dead(r)'
      BY <1>1, <2>1, <2>3, <2>4 DEF StartLaunch, Dead
    <2> QED BY <2>1, <2>2, <2>3, <2>5 DEF ProofsHold, Dead
  <1>2. CASE StartFail
    BY <1>2 DEF StartFail, StartMayFail
  <1>3. CASE (\E r \in Runs : StartAdmit(r)) \/ StartStore \/ StartProvenance
            \/ StartListener \/ StartWatcher \/ StartReady \/ StartRelease \/ StartCheck
            \/ StartSetRunning \/ StartWriteRunning \/ StartIndex \/ StartAdd
    BY <1>3 DEF StartAdmit, StartStore, StartProvenance, StartListener,
      StartWatcher, StartReady, StartRelease, StartCheck, ActiveStates,
      StartSetRunning, StartWriteRunning, StartIndex, StartAdd
  <1> QED
    BY <1>1, <1>2, <1>3 DEF Start

(* ProofsHold survives the operator's kill.                              *)
LEMMA KillProofs ==
  ASSUME TypeOK, ThreadsHold, ProofsHold, MarksHold, (\E r \in Runs : Kill(r))
  \/ KillDone
  PROVE  ProofsHold'
  <1> USE DEF TypeOK, ThreadsHold, ProofsHold, MarksHold, Dead, StartSteps,
        Callers, CgStates, Gone
  <1>1. ASSUME NEW r \in Runs, Kill(r) PROVE ProofsHold'
    BY <1>1, SMTT(40) DEF Kill, ActiveStates
  <1>2. CASE KillDone
    BY <1>2 DEF KillDone, Raised
  <1> QED
    BY <1>1, <1>2

(* ProofsHold survives a step of _recover.                               *)
LEMMA RecoverProofs ==
  ASSUME TypeOK, ThreadsHold, ProofsHold, MarksHold, Recover
  PROVE  ProofsHold'
  <1> USE DEF TypeOK, ThreadsHold, ProofsHold, MarksHold, Dead, StartSteps,
        Callers, CgStates, Gone
  <1>1. ASSUME NEW r \in Runs, RecoverContain(r) PROVE ProofsHold'
    BY <1>1 DEF RecoverContain, EmptyTerminal
  <1>2. ASSUME NEW r \in Runs, RecoverOrphan(r) PROVE ProofsHold'
    BY <1>2 DEF RecoverOrphan
  <1>3. CASE RecoverContained
    BY <1>3 DEF RecoverContained
  <1>4. CASE RecoverEmpty
    BY <1>4 DEF RecoverEmpty, Restore, Raised
  <1>5. CASE RecoverAbort
    BY <1>5 DEF RecoverAbort, Raised, Forget
  <1>6. CASE (\E r \in Runs : RecoverTerminal(r) \/ RecoverOldBoot(r)) \/ Boot
            \/ RecoverComplete \/ RecoverTeardown \/ RecoverDone
    BY <1>6 DEF RecoverTerminal, EmptyTerminal, RecoverOldBoot, Restore, Boot,
      RecoverComplete, ActiveStates, CompleteStore, MayComplete, LaunchAlive,
      RecoverTeardown, CompleteTeardown, RecoverDone
  <1> QED
    BY <1>1, <1>2, <1>3, <1>4, <1>5, <1>6 DEF Recover

(* ProofsHold survives a crash or a reboot.                              *)
LEMMA CrashProofs ==
  ASSUME TypeOK, ThreadsHold, ProofsHold, MarksHold, Crash \/ Reboot
  PROVE  ProofsHold'
  <1> USE DEF TypeOK, ThreadsHold, ProofsHold, MarksHold, Dead, StartSteps,
        Callers, CgStates, Gone
  <1>1. CASE Crash
    BY <1>1, RunsAssumption DEF Crash, Forget
  <1>2. CASE Reboot
    BY <1>2, RunsAssumption DEF Reboot, Forget
  <1> QED
    BY <1>1, <1>2

(* ProofsHold survives a step of the workload or of systemd.             *)
LEMMA EnvironmentProofs ==
  ASSUME TypeOK, ThreadsHold, ProofsHold, MarksHold, Environment
  PROVE  ProofsHold'
  <1> USE DEF TypeOK, ThreadsHold, ProofsHold, MarksHold, Dead, StartSteps,
        Callers, CgStates, Gone
  <1>1. ASSUME NEW r \in Runs, Exit(r) PROVE ProofsHold'
    BY <1>1 DEF Exit
  <1>2. ASSUME NEW r \in Runs, Collect(r) PROVE ProofsHold'
    BY <1>2 DEF Collect
  <1>3. ASSUME NEW r \in Runs, HeldDies(r) PROVE ProofsHold'
    BY <1>3 DEF HeldDies
  <1> QED
    BY <1>1, <1>2, <1>3 DEF Environment

(* ProofsHold survives every step, stuttering included.                  *)
LEMMA StepProofs ==
  ASSUME IInv, [Next]_vars
  PROVE  ProofsHold'
  <1> USE DEF IInv
  <1>1. CASE UNCHANGED vars
    BY <1>1 DEF vars, TypeOK, ThreadsHold, ProofsHold, MarksHold, Dead,
      StartSteps, Callers, CgStates, Gone
  <1>2. ASSUME NEW r \in Runs, NEW k \in Callers, Contain(r, k) PROVE ProofsHold'
    BY <1>2, ContainProofs
  <1>3. ASSUME NEW r \in Runs, Watcher(r) PROVE ProofsHold'
    BY <1>3, WatcherProofs
  <1>4. ASSUME NEW r \in Runs, Listener(r) PROVE ProofsHold'
    BY <1>4, ListenerProofs
  <1>5. ASSUME NEW r \in Runs, Detect(r) \/ Enforcer(r) PROVE ProofsHold'
    BY <1>5, EnforcerProofs
  <1>6. CASE Start
    BY <1>6, StartProofs
  <1>7. CASE (\E r \in Runs : Kill(r)) \/ KillDone
    BY <1>7, KillProofs
  <1>8. CASE Recover
    BY <1>8, RecoverProofs
  <1>9. CASE Crash \/ Reboot
    BY <1>9, CrashProofs
  <1>10. CASE Environment
    BY <1>10, EnvironmentProofs
  <1> QED
    BY <1>1, <1>2, <1>3, <1>4, <1>5, <1>6, <1>7, <1>8, <1>9, <1>10 DEF Next

-----------------------------------------------------------------------------
(* MarksHold is preserved by every step.                                 *)

(* MarksHold survives a step of _contain, for whichever caller.          *)
LEMMA ContainMarks ==
  ASSUME TypeOK, ThreadsHold, ProofsHold, MarksHold, NEW r \in Runs, NEW k \in
  Callers, Contain(r, k)
  PROVE  MarksHold'
  <1> USE DEF TypeOK, ThreadsHold, ProofsHold, MarksHold, Dead, StartSteps,
        Callers, CgStates, Gone
  <1>1. CASE ContainKill(r, k)
    BY <1>1 DEF ContainKill
  <1>2. CASE ContainUnavailable(r, k)
    BY <1>2 DEF ContainUnavailable, ContainRaise
  <1>3. CASE ContainSurvivors(r, k)
    BY <1>3 DEF ContainSurvivors, ContainRaise
  <1>4. CASE ContainCommit(r, k)
    BY <1>4, SMTT(30) DEF ContainCommit
  <1>5. CASE ContainUnreceipted(r, k)
    BY <1>5 DEF ContainUnreceipted, ContainRaise
  <1>6. CASE ContainCached(r, k) \/ ContainEnter(r, k) \/ ContainProved(r, k)
            \/ ContainPublish(r, k) \/ ContainFinish(r, k)
    BY <1>6 DEF ContainCached, ContainEnter, ContainProved, ContainPublish,
      ContainFinish
  <1>7. CASE ContainStopHangs(r, k)
    BY <1>7 DEF ContainStopHangs
  <1> QED
    BY <1>1, <1>2, <1>3, <1>4, <1>5, <1>6, <1>7 DEF Contain

(* MarksHold survives a step of a run's watcher thread.                  *)
LEMMA WatcherMarks ==
  ASSUME TypeOK, ThreadsHold, ProofsHold, MarksHold, NEW r \in Runs,
  Watcher(r)
  PROVE  MarksHold'
  <1> USE DEF TypeOK, ThreadsHold, ProofsHold, MarksHold, Dead, StartSteps,
        Callers, CgStates, Gone
  <1>1. CASE WatcherArm(r)
    BY <1>1 DEF WatcherArm
  <1>2. CASE WatcherError(r)
    BY <1>2, SMTT(90) DEF WatcherError, WatcherRetry
  <1>3. CASE WatcherTrip(r)
    BY <1>3 DEF WatcherTrip
  <1>4. CASE WatcherContained(r)
    BY <1>4 DEF WatcherContained
  <1>5. CASE WatcherRaised(r)
    BY <1>5, SMTT(60) DEF WatcherRaised, Raised, WatcherRetry
  <1>6. CASE WatcherCollected(r)
    BY <1>6 DEF WatcherCollected
  <1>7. CASE WatcherComplete(r)
    BY <1>7 DEF WatcherComplete, CompleteStore, MayComplete, ActiveStates,
      LaunchAlive
  <1>8. CASE WatcherRefused(r)
    BY <1>8 DEF WatcherRefused, MayComplete, ActiveStates, LaunchAlive
  <1>9. CASE WatcherTeardown(r)
    BY <1>9 DEF WatcherTeardown, CompleteTeardown
  <1> QED
    BY <1>1, <1>2, <1>3, <1>4, <1>5, <1>6, <1>7, <1>8, <1>9 DEF Watcher

(* MarksHold survives a step of a run's exec listener thread.            *)
LEMMA ListenerMarks ==
  ASSUME TypeOK, ThreadsHold, ProofsHold, MarksHold, NEW r \in Runs,
  Listener(r)
  PROVE  MarksHold'
  <1> USE DEF TypeOK, ThreadsHold, ProofsHold, MarksHold, Dead, StartSteps,
        Callers, CgStates, Gone
  <1>1. CASE ListenerTrip(r)
    BY <1>1, SMTT(40) DEF ListenerTrip, ActiveStates
  <1>2. CASE ListenerContained(r)
    BY <1>2 DEF ListenerContained, Raised, ActiveStates
  <1>3. CASE ListenerAgain(r)
    BY <1>3 DEF ListenerAgain, Raised, ActiveStates
  <1>4. CASE ListenerLast(r)
    BY <1>4 DEF ListenerLast, Raised
  <1>5. CASE ListenerHangup(r)
    BY <1>5 DEF ListenerHangup
  <1>6. CASE ListenerComplete(r)
    BY <1>6 DEF ListenerComplete, CompleteStore, MayComplete, ActiveStates,
      LaunchAlive
  <1>7. CASE ListenerRefused(r)
    BY <1>7 DEF ListenerRefused, MayComplete, ActiveStates, LaunchAlive
  <1>8. CASE ListenerTeardown(r)
    BY <1>8 DEF ListenerTeardown, CompleteTeardown
  <1>9. CASE ListenerIdle(r)
    BY <1>9 DEF ListenerIdle, ActiveStates
  <1> QED
    BY <1>1, <1>2, <1>3, <1>4, <1>5, <1>6, <1>7, <1>8, <1>9 DEF Listener

(* MarksHold survives a step of the detector's enforcement worker.       *)
LEMMA EnforcerMarks ==
  ASSUME TypeOK, ThreadsHold, ProofsHold, MarksHold, NEW r \in Runs, Detect(r)
  \/ Enforcer(r)
  PROVE  MarksHold'
  <1> USE DEF TypeOK, ThreadsHold, ProofsHold, MarksHold, Dead, StartSteps,
        Callers, CgStates, Gone
  <1>1. CASE Detect(r)
    BY <1>1 DEF Detect
  <1>2. CASE EnforcerYield(r)
    BY <1>2 DEF EnforcerYield
  <1>3. CASE EnforcerBarrier(r)
    BY <1>3 DEF EnforcerBarrier
  <1>4. CASE EnforcerCapture(r)
    BY <1>4 DEF EnforcerCapture
  <1>5. CASE EnforcerProved(r)
    BY <1>5 DEF EnforcerProved
  <1>6. CASE EnforcerFail(r)
    BY <1>6 DEF EnforcerFail
  <1>7. CASE EnforcerMark(r)
    BY <1>7 DEF EnforcerMark
  <1>8. CASE EnforcerPublish(r)
    BY <1>8 DEF EnforcerPublish
  <1>9. CASE EnforcerTeardown(r)
    BY <1>9 DEF EnforcerTeardown
  <1>10. CASE EnforcerMarkFailed(r)
    BY <1>10, SMTT(40) DEF EnforcerMarkFailed, ActiveStates
  <1>11. CASE EnforcerLeave(r)
    BY <1>11 DEF EnforcerLeave
  <1> QED
    BY <1>1, <1>2, <1>3, <1>4, <1>5, <1>6, <1>7, <1>8, <1>9, <1>10, <1>11 DEF
      Enforcer

(* MarksHold survives a step of _start.                                  *)
LEMMA StartMarks ==
  ASSUME TypeOK, ThreadsHold, ProofsHold, MarksHold, Start
  PROVE  MarksHold'
  <1> USE DEF TypeOK, ThreadsHold, ProofsHold, MarksHold, Dead, StartSteps,
        Callers, CgStates, Gone
  <1>1. ASSUME NEW r \in Runs, StartAdmit(r) PROVE MarksHold'
    BY <1>1 DEF StartAdmit
  <1>2. CASE StartLaunch
    BY <1>2, SMTT(40) DEF StartLaunch
  <1>3. CASE StartStore
    BY <1>3 DEF StartStore
  <1>4. CASE StartProvenance
    BY <1>4 DEF StartProvenance
  <1>5. CASE StartListener
    BY <1>5 DEF StartListener
  <1>6. CASE StartWatcher
    BY <1>6 DEF StartWatcher
  <1>7. CASE StartReady
    BY <1>7 DEF StartReady
  <1>8. CASE StartRelease
    BY <1>8 DEF StartRelease
  <1>9. CASE StartCheck
    BY <1>9 DEF StartCheck, ActiveStates
  <1>10. CASE StartSetRunning
    BY <1>10, SMTT(40) DEF StartSetRunning
  <1>11. CASE StartWriteRunning
    BY <1>11 DEF StartWriteRunning
  <1>12. CASE StartIndex
    BY <1>12 DEF StartIndex, ActiveStates
  <1>13. CASE StartAdd
    BY <1>13 DEF StartAdd, ActiveStates
  <1>14. CASE StartFail
    BY <1>14 DEF StartFail, StartMayFail
  <1> QED
    BY <1>1, <1>2, <1>3, <1>4, <1>5, <1>6, <1>7, <1>8, <1>9, <1>10, <1>11,
      <1>12, <1>13, <1>14 DEF Start

(* MarksHold survives the operator's kill.                               *)
LEMMA KillMarks ==
  ASSUME TypeOK, ThreadsHold, ProofsHold, MarksHold, (\E r \in Runs : Kill(r))
  \/ KillDone
  PROVE  MarksHold'
  <1> USE DEF TypeOK, ThreadsHold, ProofsHold, MarksHold, Dead, StartSteps,
        Callers, CgStates, Gone
  <1>1. ASSUME NEW r \in Runs, Kill(r) PROVE MarksHold'
    BY <1>1, SMTT(40) DEF Kill, ActiveStates
  <1>2. CASE KillDone
    BY <1>2 DEF KillDone, Raised
  <1> QED
    BY <1>1, <1>2

(* MarksHold survives a step of _recover.                                *)
LEMMA RecoverMarks ==
  ASSUME TypeOK, ThreadsHold, ProofsHold, MarksHold, Recover
  PROVE  MarksHold'
  <1> USE DEF TypeOK, ThreadsHold, ProofsHold, MarksHold, Dead, StartSteps,
        Callers, CgStates, Gone
  <1>1. ASSUME NEW r \in Runs, RecoverTerminal(r) PROVE MarksHold'
    BY <1>1 DEF RecoverTerminal, EmptyTerminal
  <1>2. ASSUME NEW r \in Runs, RecoverContain(r) PROVE MarksHold'
    BY <1>2 DEF RecoverContain, EmptyTerminal
  <1>3. ASSUME NEW r \in Runs, RecoverOldBoot(r) PROVE MarksHold'
    BY <1>3 DEF RecoverOldBoot, EmptyTerminal, Restore
  <1>4. ASSUME NEW r \in Runs, RecoverOrphan(r) PROVE MarksHold'
    BY <1>4 DEF RecoverOrphan
  <1>5. CASE Boot
    BY <1>5 DEF Boot
  <1>6. CASE RecoverContained
    BY <1>6 DEF RecoverContained
  <1>7. CASE RecoverEmpty
    BY <1>7 DEF RecoverEmpty, Restore, Raised
  <1>8. CASE RecoverComplete
    BY <1>8 DEF RecoverComplete, ActiveStates, CompleteStore, MayComplete,
      LaunchAlive
  <1>9. CASE RecoverTeardown
    BY <1>9, SMTT(40) DEF RecoverTeardown, CompleteTeardown
  <1>10. CASE RecoverDone
    BY <1>10 DEF RecoverDone
  <1>11. CASE RecoverAbort
    BY <1>11 DEF RecoverAbort, Raised, Forget
  <1> QED
    BY <1>1, <1>2, <1>3, <1>4, <1>5, <1>6, <1>7, <1>8, <1>9, <1>10, <1>11 DEF
      Recover

(* MarksHold survives a crash or a reboot.                               *)
LEMMA CrashMarks ==
  ASSUME TypeOK, ThreadsHold, ProofsHold, MarksHold, Crash \/ Reboot
  PROVE  MarksHold'
  <1> USE DEF TypeOK, ThreadsHold, ProofsHold, MarksHold, Dead, StartSteps,
        Callers, CgStates, Gone
  <1>1. CASE Crash
    BY <1>1, RunsAssumption DEF Crash, Forget
  <1>2. CASE Reboot
    BY <1>2, RunsAssumption DEF Reboot, Forget
  <1> QED
    BY <1>1, <1>2

(* MarksHold survives a step of the workload or of systemd.              *)
LEMMA EnvironmentMarks ==
  ASSUME TypeOK, ThreadsHold, ProofsHold, MarksHold, Environment
  PROVE  MarksHold'
  <1> USE DEF TypeOK, ThreadsHold, ProofsHold, MarksHold, Dead, StartSteps,
        Callers, CgStates, Gone
  <1>1. ASSUME NEW r \in Runs, Exit(r) PROVE MarksHold'
    BY <1>1 DEF Exit
  <1>2. ASSUME NEW r \in Runs, Collect(r) PROVE MarksHold'
    BY <1>2 DEF Collect
  <1>3. ASSUME NEW r \in Runs, HeldDies(r) PROVE MarksHold'
    BY <1>3 DEF HeldDies
  <1> QED
    BY <1>1, <1>2, <1>3 DEF Environment

(* MarksHold survives every step, stuttering included.                   *)
LEMMA StepMarks ==
  ASSUME IInv, [Next]_vars
  PROVE  MarksHold'
  <1> USE DEF IInv
  <1>1. CASE UNCHANGED vars
    BY <1>1 DEF vars, TypeOK, ThreadsHold, ProofsHold, MarksHold, Dead,
      StartSteps, Callers, CgStates, Gone
  <1>2. ASSUME NEW r \in Runs, NEW k \in Callers, Contain(r, k) PROVE MarksHold'
    BY <1>2, ContainMarks
  <1>3. ASSUME NEW r \in Runs, Watcher(r) PROVE MarksHold'
    BY <1>3, WatcherMarks
  <1>4. ASSUME NEW r \in Runs, Listener(r) PROVE MarksHold'
    BY <1>4, ListenerMarks
  <1>5. ASSUME NEW r \in Runs, Detect(r) \/ Enforcer(r) PROVE MarksHold'
    BY <1>5, EnforcerMarks
  <1>6. CASE Start
    BY <1>6, StartMarks
  <1>7. CASE (\E r \in Runs : Kill(r)) \/ KillDone
    BY <1>7, KillMarks
  <1>8. CASE Recover
    BY <1>8, RecoverMarks
  <1>9. CASE Crash \/ Reboot
    BY <1>9, CrashMarks
  <1>10. CASE Environment
    BY <1>10, EnvironmentMarks
  <1> QED
    BY <1>1, <1>2, <1>3, <1>4, <1>5, <1>6, <1>7, <1>8, <1>9, <1>10 DEF Next

-----------------------------------------------------------------------------
(* CaptureGuarded is preserved by every step.                            *)

(* CaptureGuarded survives a step of _contain, for whichever caller.     *)
LEMMA ContainCaptures ==
  ASSUME TypeOK, ThreadsHold, MarksHold, CaptureGuarded, NothingAdopted,
  NEW r \in Runs, NEW k \in Callers, Contain(r, k)
  PROVE  CaptureGuarded'
  <1> USE DEF TypeOK, ThreadsHold, MarksHold, CaptureGuarded, ActiveStates,
        TerminalStates, EmptyTerminal, StartSteps, RecoverySteps, Callers
  <1>1. CASE ContainUnavailable(r, k)
    BY <1>1 DEF ContainUnavailable, ContainRaise
  <1>2. CASE ContainSurvivors(r, k)
    BY <1>2 DEF ContainSurvivors, Gone, ContainRaise
  <1>3. CASE ContainCommit(r, k)
    BY <1>3, SMTT(30) DEF ContainCommit
  <1>4. CASE ContainUnreceipted(r, k)
    BY <1>4 DEF ContainUnreceipted, ContainRaise
  <1>5. CASE ContainCached(r, k) \/ ContainEnter(r, k) \/ ContainKill(r, k) \/
            ContainProved(r, k) \/ ContainPublish(r, k) \/ ContainFinish(r, k)
    BY <1>5 DEF ContainCached, ContainEnter, ContainKill, ContainProved, Gone,
      ContainPublish, ContainFinish
  <1>6. CASE ContainStopHangs(r, k)
    BY <1>6 DEF ContainStopHangs, NothingAdopted
  <1> QED
    BY <1>1, <1>2, <1>3, <1>4, <1>5, <1>6 DEF Contain

(* CaptureGuarded survives a step of a run's watcher thread.             *)
LEMMA WatcherCaptures ==
  ASSUME TypeOK, ThreadsHold, MarksHold, CaptureGuarded, NEW r \in Runs,
  Watcher(r)
  PROVE  CaptureGuarded'
  <1> USE DEF TypeOK, ThreadsHold, MarksHold, CaptureGuarded, ActiveStates,
        TerminalStates, EmptyTerminal, StartSteps, RecoverySteps, Callers
  <1>1. CASE WatcherArm(r)
    BY <1>1 DEF WatcherArm
  <1>2. CASE WatcherError(r)
    BY <1>2, SMTT(90) DEF WatcherError, WatcherRetry
  <1>3. CASE WatcherTrip(r)
    BY <1>3 DEF WatcherTrip
  <1>4. CASE WatcherContained(r)
    BY <1>4 DEF WatcherContained
  <1>5. CASE WatcherRaised(r)
    BY <1>5, SMTT(60) DEF WatcherRaised, Raised, WatcherRetry
  <1>6. CASE WatcherCollected(r)
    BY <1>6 DEF WatcherCollected
  <1>7. CASE WatcherComplete(r)
    BY <1>7 DEF WatcherComplete, CompleteStore, MayComplete, LaunchAlive
  <1>8. CASE WatcherRefused(r)
    BY <1>8 DEF WatcherRefused, MayComplete, LaunchAlive
  <1>9. CASE WatcherTeardown(r)
    BY <1>9 DEF WatcherTeardown, CompleteTeardown
  <1> QED
    BY <1>1, <1>2, <1>3, <1>4, <1>5, <1>6, <1>7, <1>8, <1>9 DEF Watcher

(* CaptureGuarded survives a step of a run's exec listener thread.       *)
LEMMA ListenerCaptures ==
  ASSUME TypeOK, ThreadsHold, MarksHold, CaptureGuarded, NEW r \in Runs,
  Listener(r)
  PROVE  CaptureGuarded'
  <1> USE DEF TypeOK, ThreadsHold, MarksHold, CaptureGuarded, ActiveStates,
        TerminalStates, EmptyTerminal, StartSteps, RecoverySteps, Callers
  <1>1. CASE ListenerTrip(r)
    BY <1>1, SMTT(40) DEF ListenerTrip
  <1>2. CASE ListenerContained(r)
    BY <1>2 DEF ListenerContained, Raised
  <1>3. CASE ListenerAgain(r)
    BY <1>3 DEF ListenerAgain, Raised
  <1>4. CASE ListenerLast(r)
    BY <1>4 DEF ListenerLast, Raised
  <1>5. CASE ListenerHangup(r)
    BY <1>5 DEF ListenerHangup, Gone
  <1>6. CASE ListenerComplete(r)
    BY <1>6 DEF ListenerComplete, CompleteStore, MayComplete, LaunchAlive
  <1>7. CASE ListenerRefused(r)
    BY <1>7 DEF ListenerRefused, MayComplete, LaunchAlive
  <1>8. CASE ListenerTeardown(r)
    BY <1>8 DEF ListenerTeardown, CompleteTeardown
  <1>9. CASE ListenerIdle(r)
    BY <1>9 DEF ListenerIdle
  <1> QED
    BY <1>1, <1>2, <1>3, <1>4, <1>5, <1>6, <1>7, <1>8, <1>9 DEF Listener

(* CaptureGuarded survives a step of the detector's enforcement worker.  *)
LEMMA EnforcerCaptures ==
  ASSUME TypeOK, ThreadsHold, MarksHold, CaptureGuarded, NEW r \in Runs,
  Detect(r) \/ Enforcer(r)
  PROVE  CaptureGuarded'
  <1> USE DEF TypeOK, ThreadsHold, MarksHold, CaptureGuarded, ActiveStates,
        TerminalStates, EmptyTerminal, StartSteps, RecoverySteps, Callers
  <1>1. CASE Detect(r)
    BY <1>1 DEF Detect, Gone
  <1>2. CASE EnforcerYield(r)
    BY <1>2 DEF EnforcerYield
  <1>3. CASE EnforcerBarrier(r)
    BY <1>3 DEF EnforcerBarrier
  <1>4. CASE EnforcerCapture(r)
    BY <1>4 DEF EnforcerCapture, Gone
  <1>5. CASE EnforcerProved(r)
    BY <1>5 DEF EnforcerProved
  <1>6. CASE EnforcerFail(r)
    BY <1>6 DEF EnforcerFail, Gone
  <1>7. CASE EnforcerMark(r)
    BY <1>7 DEF EnforcerMark
  <1>8. CASE EnforcerPublish(r)
    BY <1>8 DEF EnforcerPublish
  <1>9. CASE EnforcerTeardown(r)
    BY <1>9 DEF EnforcerTeardown
  <1>10. CASE EnforcerMarkFailed(r)
    BY <1>10, SMTT(40) DEF EnforcerMarkFailed
  <1>11. CASE EnforcerLeave(r)
    BY <1>11 DEF EnforcerLeave
  <1> QED
    BY <1>1, <1>2, <1>3, <1>4, <1>5, <1>6, <1>7, <1>8, <1>9, <1>10, <1>11 DEF
      Enforcer

(* CaptureGuarded survives a step of _start.                             *)
LEMMA StartCaptures ==
  ASSUME TypeOK, ThreadsHold, MarksHold, CaptureGuarded, Start
  PROVE  CaptureGuarded'
  <1> USE DEF TypeOK, ThreadsHold, MarksHold, CaptureGuarded, ActiveStates,
        TerminalStates, EmptyTerminal, StartSteps, RecoverySteps, Callers
  <1>1. ASSUME NEW r \in Runs, StartAdmit(r) PROVE CaptureGuarded'
    BY <1>1 DEF StartAdmit
  <1>2. CASE StartLaunch
    BY <1>2, SMTT(40) DEF StartLaunch
  <1>3. CASE StartStore
    BY <1>3 DEF StartStore, Gone
  <1>4. CASE StartProvenance
    BY <1>4 DEF StartProvenance
  <1>5. CASE StartListener
    BY <1>5 DEF StartListener, Gone
  <1>6. CASE StartWatcher
    BY <1>6 DEF StartWatcher
  <1>7. CASE StartReady
    BY <1>7 DEF StartReady
  <1>8. CASE StartRelease
    BY <1>8 DEF StartRelease, Gone
  <1>9. CASE StartCheck
    BY <1>9 DEF StartCheck
  <1>10. CASE StartSetRunning
    BY <1>10, SMTT(40) DEF StartSetRunning
  <1>11. CASE StartWriteRunning
    BY <1>11 DEF StartWriteRunning
  <1>12. CASE StartIndex
    BY <1>12 DEF StartIndex
  <1>13. CASE StartAdd
    BY <1>13 DEF StartAdd
  <1>14. CASE StartFail
    BY <1>14 DEF StartFail, StartMayFail, Gone
  <1> QED
    BY <1>1, <1>2, <1>3, <1>4, <1>5, <1>6, <1>7, <1>8, <1>9, <1>10, <1>11,
      <1>12, <1>13, <1>14 DEF Start

(* CaptureGuarded survives the operator's kill.                          *)
LEMMA KillCaptures ==
  ASSUME TypeOK, ThreadsHold, MarksHold, CaptureGuarded, (\E r \in Runs :
  Kill(r)) \/ KillDone
  PROVE  CaptureGuarded'
  <1> USE DEF TypeOK, ThreadsHold, MarksHold, CaptureGuarded, ActiveStates,
        TerminalStates, EmptyTerminal, StartSteps, RecoverySteps, Callers
  <1>1. ASSUME NEW r \in Runs, Kill(r) PROVE CaptureGuarded'
    BY <1>1, SMTT(40) DEF Kill
  <1>2. CASE KillDone
    BY <1>2 DEF KillDone, Raised
  <1> QED
    BY <1>1, <1>2

(* CaptureGuarded survives a step of _recover.                           *)
LEMMA RecoverCaptures ==
  ASSUME TypeOK, ThreadsHold, MarksHold, CaptureGuarded, Recover
  PROVE  CaptureGuarded'
  <1> USE DEF TypeOK, ThreadsHold, MarksHold, CaptureGuarded, ActiveStates,
        TerminalStates, EmptyTerminal, StartSteps, RecoverySteps, Callers
  <1>1. ASSUME NEW r \in Runs, RecoverTerminal(r) PROVE CaptureGuarded'
    BY <1>1 DEF RecoverTerminal
  <1>2. ASSUME NEW r \in Runs, RecoverContain(r) PROVE CaptureGuarded'
    BY <1>2 DEF RecoverContain
  <1>3. ASSUME NEW r \in Runs, RecoverOldBoot(r) PROVE CaptureGuarded'
    BY <1>3 DEF RecoverOldBoot, Restore
  <1>4. ASSUME NEW r \in Runs, RecoverOrphan(r) PROVE CaptureGuarded'
    BY <1>4 DEF RecoverOrphan
  <1>5. CASE Boot
    BY <1>5 DEF Boot
  <1>6. CASE RecoverContained
    BY <1>6 DEF RecoverContained
  <1>7. CASE RecoverEmpty
    BY <1>7 DEF RecoverEmpty, Gone, Restore, Raised
  <1>8. CASE RecoverComplete
    BY <1>8 DEF RecoverComplete, CompleteStore, MayComplete, LaunchAlive
  <1>9. CASE RecoverTeardown
    BY <1>9, SMTT(40) DEF RecoverTeardown, CompleteTeardown
  <1>10. CASE RecoverDone
    BY <1>10 DEF RecoverDone
  <1>11. CASE RecoverAbort
    BY <1>11 DEF RecoverAbort, Raised, Gone, Forget
  <1> QED
    BY <1>1, <1>2, <1>3, <1>4, <1>5, <1>6, <1>7, <1>8, <1>9, <1>10, <1>11 DEF
      Recover

(* CaptureGuarded survives a crash or a reboot.                          *)
LEMMA CrashCaptures ==
  ASSUME TypeOK, ThreadsHold, MarksHold, CaptureGuarded, Crash \/ Reboot
  PROVE  CaptureGuarded'
  <1> USE DEF TypeOK, ThreadsHold, MarksHold, CaptureGuarded, ActiveStates,
        TerminalStates, EmptyTerminal, StartSteps, RecoverySteps, Callers
  <1>1. CASE Crash
    BY <1>1, RunsAssumption DEF Crash, Forget
  <1>2. CASE Reboot
    BY <1>2, RunsAssumption DEF Reboot, Forget
  <1> QED
    BY <1>1, <1>2

(* CaptureGuarded survives a step of the workload or of systemd.         *)
LEMMA EnvironmentCaptures ==
  ASSUME TypeOK, ThreadsHold, MarksHold, CaptureGuarded, Environment
  PROVE  CaptureGuarded'
  <1> USE DEF TypeOK, ThreadsHold, MarksHold, CaptureGuarded, ActiveStates,
        TerminalStates, EmptyTerminal, StartSteps, RecoverySteps, Callers
  <1>1. ASSUME NEW r \in Runs, HeldDies(r) PROVE CaptureGuarded'
    BY <1>1 DEF HeldDies
  <1>2. CASE (\E r \in Runs : Exit(r) \/ Collect(r))
    BY <1>2 DEF Exit, Collect
  <1> QED
    BY <1>1, <1>2 DEF Environment

(* CaptureGuarded survives every step, stuttering included.              *)
LEMMA StepCaptures ==
  ASSUME IInv, [Next]_vars
  PROVE  CaptureGuarded'
  <1> USE DEF IInv
  <1>1. CASE UNCHANGED vars
    BY <1>1 DEF vars, TypeOK, ThreadsHold, MarksHold, CaptureGuarded,
      ActiveStates, TerminalStates, EmptyTerminal, StartSteps, RecoverySteps,
      Callers
  <1>2. ASSUME NEW r \in Runs, NEW k \in Callers, Contain(r, k) PROVE CaptureGuarded'
    BY <1>2, ContainCaptures
  <1>3. ASSUME NEW r \in Runs, Watcher(r) PROVE CaptureGuarded'
    BY <1>3, WatcherCaptures
  <1>4. ASSUME NEW r \in Runs, Listener(r) PROVE CaptureGuarded'
    BY <1>4, ListenerCaptures
  <1>5. ASSUME NEW r \in Runs, Detect(r) \/ Enforcer(r) PROVE CaptureGuarded'
    BY <1>5, EnforcerCaptures
  <1>6. CASE Start
    BY <1>6, StartCaptures
  <1>7. CASE (\E r \in Runs : Kill(r)) \/ KillDone
    BY <1>7, KillCaptures
  <1>8. CASE Recover
    BY <1>8, RecoverCaptures
  <1>9. CASE Crash \/ Reboot
    BY <1>9, CrashCaptures
  <1>10. CASE Environment
    BY <1>10, EnvironmentCaptures
  <1> QED
    BY <1>1, <1>2, <1>3, <1>4, <1>5, <1>6, <1>7, <1>8, <1>9, <1>10 DEF Next

-----------------------------------------------------------------------------
(* NothingAdopted is preserved by every step.                            *)

(* NothingAdopted survives a step of _contain, for whichever caller.     *)
LEMMA ContainAdoption ==
  ASSUME TypeOK, ThreadsHold, MarksHold, CaptureGuarded, NothingAdopted,
  EndedInRecovery, NEW r \in Runs, NEW k \in Callers, Contain(r, k)
  PROVE  NothingAdopted'
  <1> USE RunsAssumption DEF TypeOK, ThreadsHold, MarksHold, CaptureGuarded,
        NothingAdopted, EndedInRecovery, Pending, ActiveStates, TerminalStates,
        EmptyTerminal, StartSteps, RecoverySteps, ConInside, Raised, Callers
  <1>1. CASE ContainCached(r, k)
    BY <1>1 DEF ContainCached
  <1>2. CASE ContainEnter(r, k)
    BY <1>2 DEF ContainEnter
  <1>3. CASE ContainKill(r, k)
    BY <1>3 DEF ContainKill
  <1>4. CASE ContainUnavailable(r, k)
    BY <1>4 DEF ContainUnavailable, ContainRaise
  <1>5. CASE ContainSurvivors(r, k)
    BY <1>5 DEF ContainSurvivors, Gone, ContainRaise
  <1>6. CASE ContainProved(r, k)
    BY <1>6 DEF ContainProved, Gone
  <1>7. CASE ContainCommit(r, k)
    BY <1>7, SMTT(30) DEF ContainCommit
  <1>8. CASE ContainPublish(r, k)
    BY <1>8 DEF ContainPublish
  <1>9. CASE ContainUnreceipted(r, k)
    BY <1>9 DEF ContainUnreceipted, ContainRaise
  <1>10. CASE ContainFinish(r, k)
    BY <1>10 DEF ContainFinish
  <1>11. CASE ContainStopHangs(r, k)
    BY <1>11 DEF ContainStopHangs
  <1> QED
    BY <1>1, <1>2, <1>3, <1>4, <1>5, <1>6, <1>7, <1>8, <1>9, <1>10, <1>11
       DEF Contain

(* NothingAdopted survives a step of a run's watcher thread.             *)
LEMMA WatcherAdoption ==
  ASSUME TypeOK, ThreadsHold, MarksHold, CaptureGuarded, NothingAdopted,
  EndedInRecovery, NEW r \in Runs, Watcher(r)
  PROVE  NothingAdopted'
  <1> USE RunsAssumption DEF TypeOK, ThreadsHold, MarksHold, CaptureGuarded,
        NothingAdopted, EndedInRecovery, Pending, ActiveStates, TerminalStates,
        EmptyTerminal, StartSteps, RecoverySteps, ConInside, Raised, Callers
  <1>1. CASE WatcherArm(r)
    BY <1>1 DEF WatcherArm
  <1>2. CASE WatcherError(r)
    <2>1. PICK n \in {"arming", "contain"}, c \in {"out", "enter"} :
            /\ watcher' = [watcher EXCEPT ![r] = n]
            /\ con' = [con EXCEPT ![r]["watcher"] = c]
      BY <1>2 DEF WatcherError, WatcherRetry
    <2>2. /\ watcher[r] # "none"
          /\ UNCHANGED <<durable, kernel, memory, serving, listener, enforcer, crashes>>
      BY <1>2 DEF WatcherError
    <2> QED BY <2>1, <2>2, SMTT(30)
  <1>3. CASE WatcherTrip(r)
    BY <1>3 DEF WatcherTrip
  <1>4. CASE WatcherContained(r)
    BY <1>4 DEF WatcherContained
  <1>5. CASE WatcherRaised(r)
    BY <1>5, SMTT(60) DEF WatcherRaised, WatcherRetry
  <1>6. CASE WatcherCollected(r)
    BY <1>6 DEF WatcherCollected
  <1>7. CASE WatcherComplete(r)
    BY <1>7 DEF WatcherComplete, CompleteStore, MayComplete, LaunchAlive
  <1>8. CASE WatcherRefused(r)
    BY <1>8 DEF WatcherRefused, MayComplete, LaunchAlive
  <1>9. CASE WatcherTeardown(r)
    BY <1>9 DEF WatcherTeardown, CompleteTeardown
  <1> QED
    BY <1>1, <1>2, <1>3, <1>4, <1>5, <1>6, <1>7, <1>8, <1>9 DEF Watcher

(* NothingAdopted survives a step of a run's exec listener thread.       *)
LEMMA ListenerAdoption ==
  ASSUME TypeOK, ThreadsHold, MarksHold, CaptureGuarded, NothingAdopted,
  EndedInRecovery, NEW r \in Runs, Listener(r)
  PROVE  NothingAdopted'
  <1> USE RunsAssumption DEF TypeOK, ThreadsHold, MarksHold, CaptureGuarded,
        NothingAdopted, EndedInRecovery, Pending, ActiveStates, TerminalStates,
        EmptyTerminal, StartSteps, RecoverySteps, ConInside, Raised, Callers
  <1>1. CASE ListenerTrip(r)
    BY <1>1, SMTT(40) DEF ListenerTrip
  <1>2. CASE ListenerContained(r)
    BY <1>2 DEF ListenerContained
  <1>3. CASE ListenerAgain(r)
    BY <1>3 DEF ListenerAgain
  <1>4. CASE ListenerLast(r)
    BY <1>4 DEF ListenerLast
  <1>5. CASE ListenerHangup(r)
    BY <1>5 DEF ListenerHangup, Gone
  <1>6. CASE ListenerComplete(r)
    BY <1>6 DEF ListenerComplete, CompleteStore, MayComplete, LaunchAlive
  <1>7. CASE ListenerRefused(r)
    BY <1>7 DEF ListenerRefused, MayComplete, LaunchAlive
  <1>8. CASE ListenerTeardown(r)
    BY <1>8 DEF ListenerTeardown, CompleteTeardown
  <1>9. CASE ListenerIdle(r)
    BY <1>9 DEF ListenerIdle
  <1> QED
    BY <1>1, <1>2, <1>3, <1>4, <1>5, <1>6, <1>7, <1>8, <1>9 DEF Listener

(* NothingAdopted survives a step of the detector's enforcement worker.  *)
LEMMA EnforcerAdoption ==
  ASSUME TypeOK, ThreadsHold, MarksHold, CaptureGuarded, NothingAdopted,
  EndedInRecovery, NEW r \in Runs, Detect(r) \/ Enforcer(r)
  PROVE  NothingAdopted'
  <1> USE RunsAssumption DEF TypeOK, ThreadsHold, MarksHold, CaptureGuarded,
        NothingAdopted, EndedInRecovery, Pending, ActiveStates, TerminalStates,
        EmptyTerminal, StartSteps, RecoverySteps, ConInside, Raised, Callers
  <1>1. CASE EnforcerMark(r)
    BY <1>1 DEF EnforcerMark
  <1>2. CASE EnforcerMarkFailed(r)
    BY <1>2, SMTT(40) DEF EnforcerMarkFailed
  <1>3. CASE Detect(r) \/ EnforcerYield(r) \/ EnforcerBarrier(r) \/
            EnforcerCapture(r) \/ EnforcerProved(r) \/ EnforcerFail(r) \/
            EnforcerPublish(r) \/ EnforcerTeardown(r) \/ EnforcerLeave(r)
    BY <1>3 DEF Detect, Gone, EnforcerYield, EnforcerBarrier, EnforcerCapture,
      EnforcerProved, EnforcerFail, EnforcerPublish, EnforcerTeardown,
      EnforcerLeave
  <1> QED
    BY <1>1, <1>2, <1>3 DEF Enforcer

(* NothingAdopted survives a step of _start.                             *)
LEMMA StartAdoption ==
  ASSUME TypeOK, ThreadsHold, MarksHold, CaptureGuarded, NothingAdopted,
  EndedInRecovery, Start
  PROVE  NothingAdopted'
  <1> USE RunsAssumption DEF TypeOK, ThreadsHold, MarksHold, CaptureGuarded,
        NothingAdopted, EndedInRecovery, Pending, ActiveStates, TerminalStates,
        EmptyTerminal, StartSteps, RecoverySteps, ConInside, Raised, Callers
  <1>1. ASSUME NEW r \in Runs, StartAdmit(r) PROVE NothingAdopted'
    BY <1>1 DEF StartAdmit
  <1>2. CASE StartLaunch
    BY <1>2, SMTT(40) DEF StartLaunch
  <1>3. CASE StartStore
    BY <1>3 DEF StartStore, Gone
  <1>4. CASE StartProvenance
    BY <1>4 DEF StartProvenance
  <1>5. CASE StartListener
    BY <1>5 DEF StartListener, Gone
  <1>6. CASE StartWatcher
    BY <1>6 DEF StartWatcher
  <1>7. CASE StartReady
    BY <1>7 DEF StartReady
  <1>8. CASE StartRelease
    BY <1>8 DEF StartRelease, Gone
  <1>9. CASE StartCheck
    BY <1>9 DEF StartCheck
  <1>10. CASE StartSetRunning
    BY <1>10, SMTT(40) DEF StartSetRunning
  <1>11. CASE StartWriteRunning
    BY <1>11 DEF StartWriteRunning
  <1>12. CASE StartIndex
    BY <1>12 DEF StartIndex
  <1>13. CASE StartAdd
    BY <1>13 DEF StartAdd
  <1>14. CASE StartFail
    BY <1>14 DEF StartFail, StartMayFail, Gone
  <1> QED
    BY <1>1, <1>2, <1>3, <1>4, <1>5, <1>6, <1>7, <1>8, <1>9, <1>10, <1>11,
      <1>12, <1>13, <1>14 DEF Start

(* NothingAdopted survives the operator's kill.                          *)
LEMMA KillAdoption ==
  ASSUME TypeOK, ThreadsHold, MarksHold, CaptureGuarded, NothingAdopted,
  EndedInRecovery, (\E r \in Runs : Kill(r)) \/ KillDone
  PROVE  NothingAdopted'
  <1> USE RunsAssumption DEF TypeOK, ThreadsHold, MarksHold, CaptureGuarded,
        NothingAdopted, EndedInRecovery, Pending, ActiveStates, TerminalStates,
        EmptyTerminal, StartSteps, RecoverySteps, ConInside, Raised, Callers
  <1>1. ASSUME NEW r \in Runs, Kill(r) PROVE NothingAdopted'
    BY <1>1, SMTT(40) DEF Kill
  <1>2. CASE KillDone
    BY <1>2 DEF KillDone
  <1> QED
    BY <1>1, <1>2

(* NothingAdopted survives a step of _recover.                           *)
LEMMA RecoverAdoption ==
  ASSUME TypeOK, ThreadsHold, MarksHold, CaptureGuarded, NothingAdopted,
  EndedInRecovery, Recover
  PROVE  NothingAdopted'
  <1> USE RunsAssumption DEF TypeOK, ThreadsHold, MarksHold, CaptureGuarded,
        NothingAdopted, EndedInRecovery, Pending, ActiveStates, TerminalStates,
        EmptyTerminal, StartSteps, RecoverySteps, ConInside, Raised, Callers
  <1>1. ASSUME NEW r \in Runs, RecoverTerminal(r) PROVE NothingAdopted'
    BY <1>1 DEF RecoverTerminal
  <1>2. ASSUME NEW r \in Runs, RecoverContain(r) PROVE NothingAdopted'
    BY <1>2 DEF RecoverContain
  <1>3. ASSUME NEW r \in Runs, RecoverOldBoot(r) PROVE NothingAdopted'
    BY <1>3 DEF RecoverOldBoot, Restore
  <1>4. ASSUME NEW r \in Runs, RecoverOrphan(r) PROVE NothingAdopted'
    BY <1>4 DEF RecoverOrphan
  <1>5. CASE Boot
    BY <1>5 DEF Boot
  <1>6. CASE RecoverContained
    BY <1>6 DEF RecoverContained
  <1>7. CASE RecoverEmpty
    BY <1>7 DEF RecoverEmpty, Gone, Restore
  <1>8. CASE RecoverComplete
    BY <1>8 DEF RecoverComplete, CompleteStore, MayComplete, LaunchAlive
  <1>9. CASE RecoverTeardown
    BY <1>9, SMTT(40) DEF RecoverTeardown, CompleteTeardown
  <1>10. CASE RecoverDone
    BY <1>10 DEF RecoverDone
  <1>11. CASE RecoverAbort
    BY <1>11 DEF RecoverAbort, Gone, Forget
  <1> QED
    BY <1>1, <1>2, <1>3, <1>4, <1>5, <1>6, <1>7, <1>8, <1>9, <1>10, <1>11 DEF
      Recover

(* NothingAdopted survives a crash or a reboot.                          *)
LEMMA CrashAdoption ==
  ASSUME TypeOK, ThreadsHold, MarksHold, CaptureGuarded, NothingAdopted,
  EndedInRecovery, Crash \/ Reboot
  PROVE  NothingAdopted'
  <1> USE RunsAssumption DEF TypeOK, ThreadsHold, MarksHold, CaptureGuarded,
        NothingAdopted, EndedInRecovery, Pending, ActiveStates, TerminalStates,
        EmptyTerminal, StartSteps, RecoverySteps, ConInside, Raised, Callers
  <1>1. CASE Crash
    BY <1>1, RunsAssumption DEF Crash, Forget
  <1>2. CASE Reboot
    BY <1>2, RunsAssumption DEF Reboot, Forget
  <1> QED
    BY <1>1, <1>2

(* NothingAdopted survives a step of the workload or of systemd.         *)
LEMMA EnvironmentAdoption ==
  ASSUME TypeOK, ThreadsHold, MarksHold, CaptureGuarded, NothingAdopted,
  EndedInRecovery, Environment
  PROVE  NothingAdopted'
  <1> USE RunsAssumption DEF TypeOK, ThreadsHold, MarksHold, CaptureGuarded,
        NothingAdopted, EndedInRecovery, Pending, ActiveStates, TerminalStates,
        EmptyTerminal, StartSteps, RecoverySteps, ConInside, Raised, Callers
  <1>1. CASE (\E r \in Runs : Exit(r) \/ Collect(r) \/ HeldDies(r))
    BY <1>1 DEF Exit, Collect, HeldDies
  <1> QED
    BY <1>1 DEF Environment

(* NothingAdopted survives every step, stuttering included.              *)
LEMMA StepAdoption ==
  ASSUME IInv, [Next]_vars
  PROVE  NothingAdopted'
  <1> USE DEF IInv
  <1>1. CASE UNCHANGED vars
    BY <1>1 DEF vars, TypeOK, ThreadsHold, MarksHold, CaptureGuarded,
      NothingAdopted, EndedInRecovery, Pending, ActiveStates, TerminalStates,
      EmptyTerminal, StartSteps, RecoverySteps, ConInside, Raised, Callers
  <1>2. ASSUME NEW r \in Runs, NEW k \in Callers, Contain(r, k) PROVE NothingAdopted'
    BY <1>2, ContainAdoption
  <1>3. ASSUME NEW r \in Runs, Watcher(r) PROVE NothingAdopted'
    BY <1>3, WatcherAdoption
  <1>4. ASSUME NEW r \in Runs, Listener(r) PROVE NothingAdopted'
    BY <1>4, ListenerAdoption
  <1>5. ASSUME NEW r \in Runs, Detect(r) \/ Enforcer(r) PROVE NothingAdopted'
    BY <1>5, EnforcerAdoption
  <1>6. CASE Start
    BY <1>6, StartAdoption
  <1>7. CASE (\E r \in Runs : Kill(r)) \/ KillDone
    BY <1>7, KillAdoption
  <1>8. CASE Recover
    BY <1>8, RecoverAdoption
  <1>9. CASE Crash \/ Reboot
    BY <1>9, CrashAdoption
  <1>10. CASE Environment
    BY <1>10, EnvironmentAdoption
  <1> QED
    BY <1>1, <1>2, <1>3, <1>4, <1>5, <1>6, <1>7, <1>8, <1>9, <1>10 DEF Next

-----------------------------------------------------------------------------
(* EndedInRecovery is preserved by every step.                           *)

(* EndedInRecovery survives a step of _contain, for whichever caller.    *)
LEMMA ContainEnded ==
  ASSUME TypeOK, ThreadsHold, MarksHold, CaptureGuarded, NothingAdopted,
  EndedInRecovery, NEW r \in Runs, NEW k \in Callers, Contain(r, k)
  PROVE  EndedInRecovery'
  <1> USE RunsAssumption DEF TypeOK, ThreadsHold, MarksHold, CaptureGuarded,
        NothingAdopted, EndedInRecovery, ActiveStates, TerminalStates,
        EmptyTerminal, StartSteps, RecoverySteps, ConInside, Raised, Callers
  <1>1. CASE ContainCached(r, k)
    BY <1>1 DEF ContainCached
  <1>2. CASE ContainEnter(r, k)
    BY <1>2 DEF ContainEnter
  <1>3. CASE ContainKill(r, k)
    BY <1>3 DEF ContainKill
  <1>4. CASE ContainUnavailable(r, k)
    BY <1>4 DEF ContainUnavailable, ContainRaise
  <1>5. CASE ContainSurvivors(r, k)
    BY <1>5 DEF ContainSurvivors, Gone, ContainRaise
  <1>6. CASE ContainProved(r, k)
    BY <1>6 DEF ContainProved, Gone
  <1>7. CASE ContainCommit(r, k)
    BY <1>7, SMTT(30) DEF ContainCommit
  <1>8. CASE ContainPublish(r, k)
    BY <1>8 DEF ContainPublish
  <1>9. CASE ContainUnreceipted(r, k)
    BY <1>9 DEF ContainUnreceipted, ContainRaise
  <1>10. CASE ContainFinish(r, k)
    BY <1>10 DEF ContainFinish
  <1>11. CASE ContainStopHangs(r, k)
    BY <1>11 DEF ContainStopHangs
  <1> QED
    BY <1>1, <1>2, <1>3, <1>4, <1>5, <1>6, <1>7, <1>8, <1>9, <1>10, <1>11
       DEF Contain

(* EndedInRecovery survives a step of a run's watcher thread.            *)
LEMMA WatcherEnded ==
  ASSUME TypeOK, ThreadsHold, MarksHold, CaptureGuarded, NothingAdopted,
  EndedInRecovery, NEW r \in Runs, Watcher(r)
  PROVE  EndedInRecovery'
  <1> USE RunsAssumption DEF TypeOK, ThreadsHold, MarksHold, CaptureGuarded,
        NothingAdopted, EndedInRecovery, ActiveStates, TerminalStates,
        EmptyTerminal, StartSteps, RecoverySteps, ConInside, Raised, Callers
  <1>1. CASE WatcherError(r)
    BY <1>1, SMTT(90) DEF WatcherError, WatcherRetry
  <1>2. CASE WatcherTrip(r)
    BY <1>2 DEF WatcherTrip
  <1>3. CASE WatcherContained(r)
    BY <1>3 DEF WatcherContained
  <1>4. CASE WatcherRaised(r)
    BY <1>4, SMTT(60) DEF WatcherRaised, WatcherRetry
  <1>5. CASE WatcherComplete(r)
    BY <1>5 DEF WatcherComplete, CompleteStore, MayComplete, LaunchAlive
  <1>6. CASE WatcherArm(r) \/ WatcherCollected(r) \/ WatcherRefused(r) \/
            WatcherTeardown(r)
    BY <1>6 DEF WatcherArm, WatcherCollected, WatcherRefused, MayComplete,
      LaunchAlive, WatcherTeardown, CompleteTeardown
  <1> QED
    BY <1>1, <1>2, <1>3, <1>4, <1>5, <1>6 DEF Watcher

(* EndedInRecovery survives a step of a run's exec listener thread.      *)
LEMMA ListenerEnded ==
  ASSUME TypeOK, ThreadsHold, MarksHold, CaptureGuarded, NothingAdopted,
  EndedInRecovery, NEW r \in Runs, Listener(r)
  PROVE  EndedInRecovery'
  <1> USE RunsAssumption DEF TypeOK, ThreadsHold, MarksHold, CaptureGuarded,
        NothingAdopted, EndedInRecovery, ActiveStates, TerminalStates,
        EmptyTerminal, StartSteps, RecoverySteps, ConInside, Raised, Callers
  <1>1. CASE ListenerTrip(r)
    BY <1>1, SMTT(40) DEF ListenerTrip
  <1>2. CASE ListenerContained(r)
    BY <1>2 DEF ListenerContained
  <1>3. CASE ListenerAgain(r)
    BY <1>3 DEF ListenerAgain
  <1>4. CASE ListenerLast(r)
    BY <1>4 DEF ListenerLast
  <1>5. CASE ListenerComplete(r)
    BY <1>5 DEF ListenerComplete, CompleteStore, MayComplete, LaunchAlive
  <1>6. CASE ListenerHangup(r) \/ ListenerRefused(r) \/ ListenerTeardown(r) \/
            ListenerIdle(r)
    BY <1>6 DEF ListenerHangup, Gone, ListenerRefused, MayComplete,
      LaunchAlive, ListenerTeardown, CompleteTeardown, ListenerIdle
  <1> QED
    BY <1>1, <1>2, <1>3, <1>4, <1>5, <1>6 DEF Listener

(* EndedInRecovery survives a step of the detector's enforcement worker. *)
LEMMA EnforcerEnded ==
  ASSUME TypeOK, ThreadsHold, MarksHold, CaptureGuarded, NothingAdopted,
  EndedInRecovery, NEW r \in Runs, Detect(r) \/ Enforcer(r)
  PROVE  EndedInRecovery'
  <1> USE RunsAssumption DEF TypeOK, ThreadsHold, MarksHold, CaptureGuarded,
        NothingAdopted, EndedInRecovery, ActiveStates, TerminalStates,
        EmptyTerminal, StartSteps, RecoverySteps, ConInside, Raised, Callers
  <1>1. CASE EnforcerMark(r)
    BY <1>1 DEF EnforcerMark
  <1>2. CASE EnforcerMarkFailed(r)
    BY <1>2, SMTT(40) DEF EnforcerMarkFailed
  <1>3. CASE Detect(r) \/ EnforcerYield(r) \/ EnforcerBarrier(r) \/
            EnforcerCapture(r) \/ EnforcerProved(r) \/ EnforcerFail(r) \/
            EnforcerPublish(r) \/ EnforcerTeardown(r) \/ EnforcerLeave(r)
    BY <1>3 DEF Detect, Gone, EnforcerYield, EnforcerBarrier, EnforcerCapture,
      EnforcerProved, EnforcerFail, EnforcerPublish, EnforcerTeardown,
      EnforcerLeave
  <1> QED
    BY <1>1, <1>2, <1>3 DEF Enforcer

(* EndedInRecovery survives a step of _start.                            *)
LEMMA StartEnded ==
  ASSUME TypeOK, ThreadsHold, MarksHold, CaptureGuarded, NothingAdopted,
  EndedInRecovery, Start
  PROVE  EndedInRecovery'
  <1> USE RunsAssumption DEF TypeOK, ThreadsHold, MarksHold, CaptureGuarded,
        NothingAdopted, EndedInRecovery, ActiveStates, TerminalStates,
        EmptyTerminal, StartSteps, RecoverySteps, ConInside, Raised, Callers
  <1>1. ASSUME NEW r \in Runs, StartAdmit(r) PROVE EndedInRecovery'
    BY <1>1 DEF StartAdmit
  <1>2. CASE StartLaunch
    BY <1>2, SMTT(40) DEF StartLaunch
  <1>3. CASE StartStore
    BY <1>3 DEF StartStore, Gone
  <1>4. CASE StartProvenance
    BY <1>4 DEF StartProvenance
  <1>5. CASE StartListener
    BY <1>5 DEF StartListener, Gone
  <1>6. CASE StartWatcher
    BY <1>6 DEF StartWatcher
  <1>7. CASE StartReady
    BY <1>7 DEF StartReady
  <1>8. CASE StartRelease
    BY <1>8 DEF StartRelease, Gone
  <1>9. CASE StartCheck
    BY <1>9 DEF StartCheck
  <1>10. CASE StartSetRunning
    BY <1>10, SMTT(40) DEF StartSetRunning
  <1>11. CASE StartWriteRunning
    BY <1>11 DEF StartWriteRunning
  <1>12. CASE StartIndex
    BY <1>12 DEF StartIndex
  <1>13. CASE StartAdd
    BY <1>13 DEF StartAdd
  <1>14. CASE StartFail
    BY <1>14 DEF StartFail, StartMayFail, Gone
  <1> QED
    BY <1>1, <1>2, <1>3, <1>4, <1>5, <1>6, <1>7, <1>8, <1>9, <1>10, <1>11,
      <1>12, <1>13, <1>14 DEF Start

(* EndedInRecovery survives the operator's kill.                         *)
LEMMA KillEnded ==
  ASSUME TypeOK, ThreadsHold, MarksHold, CaptureGuarded, NothingAdopted,
  EndedInRecovery, (\E r \in Runs : Kill(r)) \/ KillDone
  PROVE  EndedInRecovery'
  <1> USE RunsAssumption DEF TypeOK, ThreadsHold, MarksHold, CaptureGuarded,
        NothingAdopted, EndedInRecovery, ActiveStates, TerminalStates,
        EmptyTerminal, StartSteps, RecoverySteps, ConInside, Raised, Callers
  <1>1. ASSUME NEW r \in Runs, Kill(r) PROVE EndedInRecovery'
    BY <1>1, SMTT(40) DEF Kill
  <1>2. CASE KillDone
    BY <1>2 DEF KillDone
  <1> QED
    BY <1>1, <1>2

(* EndedInRecovery survives a step of _recover.                          *)
LEMMA RecoverEnded ==
  ASSUME TypeOK, ThreadsHold, MarksHold, CaptureGuarded, NothingAdopted,
  EndedInRecovery, Recover
  PROVE  EndedInRecovery'
  <1> USE RunsAssumption DEF TypeOK, ThreadsHold, MarksHold, CaptureGuarded,
        NothingAdopted, EndedInRecovery, ActiveStates, TerminalStates,
        EmptyTerminal, StartSteps, RecoverySteps, ConInside, Raised, Callers
  <1>1. ASSUME NEW r \in Runs, RecoverTerminal(r) PROVE EndedInRecovery'
    BY <1>1 DEF RecoverTerminal
  <1>2. ASSUME NEW r \in Runs, RecoverContain(r) PROVE EndedInRecovery'
    BY <1>2 DEF RecoverContain
  <1>3. ASSUME NEW r \in Runs, RecoverOldBoot(r) PROVE EndedInRecovery'
    BY <1>3 DEF RecoverOldBoot, Restore
  <1>4. ASSUME NEW r \in Runs, RecoverOrphan(r) PROVE EndedInRecovery'
    BY <1>4 DEF RecoverOrphan
  <1>5. CASE Boot
    BY <1>5 DEF Boot
  <1>6. CASE RecoverContained
    BY <1>6 DEF RecoverContained
  <1>7. CASE RecoverEmpty
    BY <1>7 DEF RecoverEmpty, Gone, Restore
  <1>8. CASE RecoverComplete
    BY <1>8 DEF RecoverComplete, CompleteStore, MayComplete, LaunchAlive
  <1>9. CASE RecoverTeardown
    BY <1>9, SMTT(40) DEF RecoverTeardown, CompleteTeardown
  <1>10. CASE RecoverDone
    BY <1>10 DEF RecoverDone
  <1>11. CASE RecoverAbort
    BY <1>11 DEF RecoverAbort, Gone, Forget
  <1> QED
    BY <1>1, <1>2, <1>3, <1>4, <1>5, <1>6, <1>7, <1>8, <1>9, <1>10, <1>11 DEF
      Recover

(* EndedInRecovery survives a crash or a reboot.                         *)
LEMMA CrashEnded ==
  ASSUME TypeOK, ThreadsHold, MarksHold, CaptureGuarded, NothingAdopted,
  EndedInRecovery, Crash \/ Reboot
  PROVE  EndedInRecovery'
  <1> USE RunsAssumption DEF TypeOK, ThreadsHold, MarksHold, CaptureGuarded,
        NothingAdopted, EndedInRecovery, ActiveStates, TerminalStates,
        EmptyTerminal, StartSteps, RecoverySteps, ConInside, Raised, Callers
  <1>1. CASE Crash
    BY <1>1, RunsAssumption DEF Crash, Forget
  <1>2. CASE Reboot
    BY <1>2, RunsAssumption DEF Reboot, Forget
  <1> QED
    BY <1>1, <1>2

(* EndedInRecovery survives a step of the workload or of systemd.        *)
LEMMA EnvironmentEnded ==
  ASSUME TypeOK, ThreadsHold, MarksHold, CaptureGuarded, NothingAdopted,
  EndedInRecovery, Environment
  PROVE  EndedInRecovery'
  <1> USE RunsAssumption DEF TypeOK, ThreadsHold, MarksHold, CaptureGuarded,
        NothingAdopted, EndedInRecovery, ActiveStates, TerminalStates,
        EmptyTerminal, StartSteps, RecoverySteps, ConInside, Raised, Callers
  <1>1. CASE (\E r \in Runs : Exit(r) \/ Collect(r) \/ HeldDies(r))
    BY <1>1 DEF Exit, Collect, HeldDies
  <1> QED
    BY <1>1 DEF Environment

(* EndedInRecovery survives every step, stuttering included.             *)
LEMMA StepEnded ==
  ASSUME IInv, [Next]_vars
  PROVE  EndedInRecovery'
  <1> USE DEF IInv
  <1>1. CASE UNCHANGED vars
    BY <1>1 DEF vars, TypeOK, ThreadsHold, MarksHold, CaptureGuarded,
      NothingAdopted, EndedInRecovery, ActiveStates, TerminalStates,
      EmptyTerminal, StartSteps, RecoverySteps, ConInside, Raised, Callers
  <1>2. ASSUME NEW r \in Runs, NEW k \in Callers, Contain(r, k) PROVE EndedInRecovery'
    BY <1>2, ContainEnded
  <1>3. ASSUME NEW r \in Runs, Watcher(r) PROVE EndedInRecovery'
    BY <1>3, WatcherEnded
  <1>4. ASSUME NEW r \in Runs, Listener(r) PROVE EndedInRecovery'
    BY <1>4, ListenerEnded
  <1>5. ASSUME NEW r \in Runs, Detect(r) \/ Enforcer(r) PROVE EndedInRecovery'
    BY <1>5, EnforcerEnded
  <1>6. CASE Start
    BY <1>6, StartEnded
  <1>7. CASE (\E r \in Runs : Kill(r)) \/ KillDone
    BY <1>7, KillEnded
  <1>8. CASE Recover
    BY <1>8, RecoverEnded
  <1>9. CASE Crash \/ Reboot
    BY <1>9, CrashEnded
  <1>10. CASE Environment
    BY <1>10, EnvironmentEnded
  <1> QED
    BY <1>1, <1>2, <1>3, <1>4, <1>5, <1>6, <1>7, <1>8, <1>9, <1>10 DEF Next

-----------------------------------------------------------------------------
(* IndexHolds is preserved by every step.                                *)

(* IndexHolds survives a step of _contain, for whichever caller.         *)
LEMMA ContainIndexed ==
  ASSUME TypeOK, ThreadsHold, ProofsHold, MarksHold, CaptureGuarded,
  NothingAdopted, IndexHolds, NEW r \in Runs, NEW k \in Callers, Contain(r, k)
  PROVE  IndexHolds'
  <1> USE RunsAssumption DEF TypeOK, ThreadsHold, ProofsHold, MarksHold,
        CaptureGuarded, NothingAdopted, IndexHolds, Pending, Live, EndOnRecord,
        Gone, Dead, RunStates, CgStates, ActiveStates, TerminalStates,
        EmptyTerminal, StartSteps, RecoverySteps, ConInside, Raised, Callers
  <1>1. CASE ContainKill(r, k)
    BY <1>1 DEF ContainKill
  <1>2. CASE ContainUnavailable(r, k)
    BY <1>2 DEF ContainUnavailable, ContainRaise
  <1>3. CASE ContainSurvivors(r, k)
    BY <1>3 DEF ContainSurvivors, ContainRaise
  <1>4. CASE ContainCommit(r, k)
    BY <1>4, SMTT(30) DEF ContainCommit
  <1>5. CASE ContainUnreceipted(r, k)
    BY <1>5 DEF ContainUnreceipted, ContainRaise
  <1>6. CASE ContainCached(r, k) \/ ContainEnter(r, k) \/ ContainProved(r, k)
            \/ ContainPublish(r, k) \/ ContainFinish(r, k)
    BY <1>6 DEF ContainCached, ContainEnter, ContainProved, ContainPublish,
      ContainFinish
  <1>7. CASE ContainStopHangs(r, k)
    BY <1>7 DEF ContainStopHangs
  <1> QED
    BY <1>1, <1>2, <1>3, <1>4, <1>5, <1>6, <1>7 DEF Contain

(* IndexHolds survives a step of a run's watcher thread.                 *)
LEMMA WatcherIndexed ==
  ASSUME TypeOK, ThreadsHold, ProofsHold, MarksHold, CaptureGuarded,
  NothingAdopted, IndexHolds, NEW r \in Runs, Watcher(r)
  PROVE  IndexHolds'
  <1> USE RunsAssumption DEF TypeOK, ThreadsHold, ProofsHold, MarksHold,
        CaptureGuarded, NothingAdopted, IndexHolds, Pending, Live, EndOnRecord,
        Gone, Dead, RunStates, CgStates, ActiveStates, TerminalStates,
        EmptyTerminal, StartSteps, RecoverySteps, ConInside, Raised, Callers
  <1>1. CASE WatcherComplete(r)
    BY <1>1 DEF WatcherComplete, CompleteStore, MayComplete, LaunchAlive
  <1>2. CASE WatcherArm(r) \/ WatcherError(r) \/ WatcherTrip(r) \/
            WatcherContained(r) \/ WatcherRaised(r) \/ WatcherCollected(r) \/
            WatcherRefused(r) \/ WatcherTeardown(r)
    BY <1>2 DEF WatcherArm, WatcherError, WatcherRetry, WatcherTrip,
      WatcherContained, WatcherRaised, WatcherCollected, WatcherRefused,
      MayComplete, LaunchAlive, WatcherTeardown, CompleteTeardown
  <1> QED
    BY <1>1, <1>2 DEF Watcher

(* IndexHolds survives a step of a run's exec listener thread.           *)
LEMMA ListenerIndexed ==
  ASSUME TypeOK, ThreadsHold, ProofsHold, MarksHold, CaptureGuarded,
  NothingAdopted, IndexHolds, NEW r \in Runs, Listener(r)
  PROVE  IndexHolds'
  <1> USE RunsAssumption DEF TypeOK, ThreadsHold, ProofsHold, MarksHold,
        CaptureGuarded, NothingAdopted, IndexHolds, Pending, Live, EndOnRecord,
        Gone, Dead, RunStates, CgStates, ActiveStates, TerminalStates,
        EmptyTerminal, StartSteps, RecoverySteps, ConInside, Raised, Callers
  <1>1. CASE ListenerComplete(r)
    BY <1>1 DEF ListenerComplete, CompleteStore, MayComplete, LaunchAlive
  <1>2. CASE ListenerTrip(r) \/ ListenerContained(r) \/ ListenerAgain(r) \/
            ListenerLast(r) \/ ListenerHangup(r) \/ ListenerRefused(r) \/
            ListenerTeardown(r) \/ ListenerIdle(r)
    BY <1>2 DEF ListenerTrip, ListenerContained, ListenerAgain, ListenerLast,
      ListenerHangup, ListenerRefused, MayComplete, LaunchAlive,
      ListenerTeardown, CompleteTeardown, ListenerIdle
  <1> QED
    BY <1>1, <1>2 DEF Listener

(* IndexHolds survives a step of the detector's enforcement worker.      *)
LEMMA EnforcerIndexed ==
  ASSUME TypeOK, ThreadsHold, ProofsHold, MarksHold, CaptureGuarded,
  NothingAdopted, IndexHolds, NEW r \in Runs, Detect(r) \/ Enforcer(r)
  PROVE  IndexHolds'
  <1> USE RunsAssumption DEF TypeOK, ThreadsHold, ProofsHold, MarksHold,
        CaptureGuarded, NothingAdopted, IndexHolds, Pending, Live, EndOnRecord,
        Gone, Dead, RunStates, CgStates, ActiveStates, TerminalStates,
        EmptyTerminal, StartSteps, RecoverySteps, ConInside, Raised, Callers
  <1>1. CASE EnforcerCapture(r)
    BY <1>1 DEF EnforcerCapture
  <1>2. CASE EnforcerMark(r)
    BY <1>2 DEF EnforcerMark
  <1>3. CASE EnforcerMarkFailed(r)
    <2>1. CASE disk[r] \in ActiveStates
      <3>1. main \in StartSteps => r # cur
        BY <1>3 DEF EnforcerMarkFailed
      <3>2. /\ disk' = [disk EXCEPT ![r] = "CONTAINMENT_FAILED"]
            /\ active' = active \ {r}
            /\ UNCHANGED <<cg, rec, main, cur>>
        BY <1>3, <2>1 DEF EnforcerMarkFailed
      <3> QED BY <3>1, <3>2, SMTT(30)
    <2>2. CASE disk[r] \notin ActiveStates
      BY <1>3, <2>2 DEF EnforcerMarkFailed
    <2> QED BY <2>1, <2>2
  <1>4. CASE Detect(r) \/ EnforcerYield(r) \/ EnforcerBarrier(r) \/
            EnforcerProved(r) \/ EnforcerFail(r) \/ EnforcerPublish(r) \/
            EnforcerTeardown(r) \/ EnforcerLeave(r)
    BY <1>4 DEF Detect, EnforcerYield, EnforcerBarrier, EnforcerProved,
      EnforcerFail, EnforcerPublish, EnforcerTeardown, EnforcerLeave
  <1> QED
    BY <1>1, <1>2, <1>3, <1>4 DEF Enforcer

(* IndexHolds survives a step of _start.                                 *)
LEMMA StartIndexed ==
  ASSUME TypeOK, ThreadsHold, ProofsHold, MarksHold, CaptureGuarded,
  NothingAdopted, IndexHolds, Start
  PROVE  IndexHolds'
  <1> USE RunsAssumption DEF TypeOK, ThreadsHold, ProofsHold, MarksHold,
        CaptureGuarded, NothingAdopted, IndexHolds, Pending, Live, EndOnRecord,
        Gone, Dead, RunStates, CgStates, ActiveStates, TerminalStates,
        EmptyTerminal, StartSteps, RecoverySteps, ConInside, Raised, Callers
  <1>1. ASSUME NEW r \in Runs, StartAdmit(r) PROVE IndexHolds'
    BY <1>1 DEF StartAdmit
  <1>2. CASE StartLaunch
    BY <1>2, SMTT(40) DEF StartLaunch
  <1>3. CASE StartStore
    BY <1>3 DEF StartStore
  <1>4. CASE StartProvenance
    BY <1>4 DEF StartProvenance
  <1>5. CASE StartListener
    BY <1>5 DEF StartListener
  <1>6. CASE StartWatcher
    BY <1>6 DEF StartWatcher
  <1>7. CASE StartReady
    BY <1>7 DEF StartReady
  <1>8. CASE StartRelease
    BY <1>8 DEF StartRelease
  <1>9. CASE StartCheck
    BY <1>9 DEF StartCheck
  <1>10. CASE StartSetRunning
    BY <1>10, SMTT(40) DEF StartSetRunning
  <1>11. CASE StartWriteRunning
    BY <1>11 DEF StartWriteRunning
  <1>12. CASE StartIndex
    <2>1. CASE rec[cur] \in ActiveStates
      BY <1>12, <2>1 DEF StartIndex
    <2>2. CASE rec[cur] \notin ActiveStates
      <3>1. ~Live(cur)
        BY <1>12, <2>2 DEF StartIndex
      <3>2. /\ active' = active \ {cur} /\ main' = "idle" /\ main = "indexing"
            /\ UNCHANGED <<disk, cg, rec>>
        BY <1>12, <2>2 DEF StartIndex
      <3> QED BY <3>1, <3>2
    <2> QED BY <2>1, <2>2
  <1>13. CASE StartAdd
    BY <1>13 DEF StartAdd
  <1>14. CASE StartFail
    BY <1>14 DEF StartFail, StartMayFail
  <1> QED
    BY <1>1, <1>2, <1>3, <1>4, <1>5, <1>6, <1>7, <1>8, <1>9, <1>10, <1>11,
      <1>12, <1>13, <1>14 DEF Start

(* IndexHolds survives the operator's kill.                              *)
LEMMA KillIndexed ==
  ASSUME TypeOK, ThreadsHold, ProofsHold, MarksHold, CaptureGuarded,
  NothingAdopted, IndexHolds, (\E r \in Runs : Kill(r)) \/ KillDone
  PROVE  IndexHolds'
  <1> USE RunsAssumption DEF TypeOK, ThreadsHold, ProofsHold, MarksHold,
        CaptureGuarded, NothingAdopted, IndexHolds, Pending, Live, EndOnRecord,
        Gone, Dead, RunStates, CgStates, ActiveStates, TerminalStates,
        EmptyTerminal, StartSteps, RecoverySteps, ConInside, Raised, Callers
  <1>1. ASSUME NEW r \in Runs, Kill(r) PROVE IndexHolds'
    BY <1>1, SMTT(40) DEF Kill
  <1>2. CASE KillDone
    BY <1>2 DEF KillDone
  <1> QED
    BY <1>1, <1>2

(* IndexHolds survives a step of _recover.                               *)
LEMMA RecoverIndexed ==
  ASSUME TypeOK, ThreadsHold, ProofsHold, MarksHold, CaptureGuarded,
  NothingAdopted, EndedInRecovery, IndexHolds, Recover
  PROVE  IndexHolds'
  <1> USE RunsAssumption DEF TypeOK, ThreadsHold, ProofsHold, MarksHold,
        CaptureGuarded, NothingAdopted, EndedInRecovery, IndexHolds, Pending, Live, EndOnRecord,
        Gone, Dead, RunStates, CgStates, ActiveStates, TerminalStates,
        EmptyTerminal, StartSteps, RecoverySteps, ConInside, Raised, Callers
  <1>1. ASSUME NEW r \in Runs, RecoverTerminal(r) PROVE IndexHolds'
    BY <1>1 DEF RecoverTerminal
  <1>2. ASSUME NEW r \in Runs, RecoverContain(r) PROVE IndexHolds'
    BY <1>2 DEF RecoverContain
  <1>3. ASSUME NEW r \in Runs, RecoverOldBoot(r) PROVE IndexHolds'
    BY <1>3 DEF RecoverOldBoot, Restore
  <1>4. ASSUME NEW r \in Runs, RecoverOrphan(r) PROVE IndexHolds'
    BY <1>4 DEF RecoverOrphan
  <1>5. CASE Boot
    BY <1>5 DEF Boot
  <1>6. CASE RecoverContained
    BY <1>6 DEF RecoverContained
  <1>7. CASE RecoverEmpty
    BY <1>7 DEF RecoverEmpty, Restore
  <1>8. CASE RecoverComplete
    BY <1>8 DEF RecoverComplete, CompleteStore, MayComplete, LaunchAlive
  <1>9. CASE RecoverTeardown
    BY <1>9, SMTT(40) DEF RecoverTeardown, CompleteTeardown
  <1>10. CASE RecoverDone
    BY <1>10 DEF RecoverDone
  <1>11. CASE RecoverAbort
    BY <1>11 DEF RecoverAbort, Forget
  <1> QED
    BY <1>1, <1>2, <1>3, <1>4, <1>5, <1>6, <1>7, <1>8, <1>9, <1>10, <1>11 DEF
      Recover

(* IndexHolds survives a crash or a reboot.                              *)
LEMMA CrashIndexed ==
  ASSUME TypeOK, ThreadsHold, ProofsHold, MarksHold, CaptureGuarded,
  NothingAdopted, IndexHolds, Crash \/ Reboot
  PROVE  IndexHolds'
  <1> USE RunsAssumption DEF TypeOK, ThreadsHold, ProofsHold, MarksHold,
        CaptureGuarded, NothingAdopted, IndexHolds, Pending, Live, EndOnRecord,
        Gone, Dead, RunStates, CgStates, ActiveStates, TerminalStates,
        EmptyTerminal, StartSteps, RecoverySteps, ConInside, Raised, Callers
  <1>1. CASE Crash
    BY <1>1, RunsAssumption DEF Crash, Forget
  <1>2. CASE Reboot
    BY <1>2, RunsAssumption DEF Reboot, Forget
  <1> QED
    BY <1>1, <1>2

(* IndexHolds survives a step of the workload or of systemd.             *)
LEMMA EnvironmentIndexed ==
  ASSUME TypeOK, ThreadsHold, ProofsHold, MarksHold, CaptureGuarded,
  NothingAdopted, IndexHolds, Environment
  PROVE  IndexHolds'
  <1> USE RunsAssumption DEF TypeOK, ThreadsHold, ProofsHold, MarksHold,
        CaptureGuarded, NothingAdopted, IndexHolds, Pending, Live, EndOnRecord,
        Gone, Dead, RunStates, CgStates, ActiveStates, TerminalStates,
        EmptyTerminal, StartSteps, RecoverySteps, ConInside, Raised, Callers
  <1>1. ASSUME NEW r \in Runs, Exit(r) PROVE IndexHolds'
    BY <1>1 DEF Exit
  <1>2. ASSUME NEW r \in Runs, Collect(r) PROVE IndexHolds'
    BY <1>2 DEF Collect
  <1>3. ASSUME NEW r \in Runs, HeldDies(r) PROVE IndexHolds'
    BY <1>3 DEF HeldDies
  <1> QED
    BY <1>1, <1>2, <1>3 DEF Environment

(* IndexHolds survives every step, stuttering included.                  *)
LEMMA StepIndexed ==
  ASSUME IInv, [Next]_vars
  PROVE  IndexHolds'
  <1> USE DEF IInv
  <1>1. CASE UNCHANGED vars
    BY <1>1 DEF vars, TypeOK, ThreadsHold, ProofsHold, MarksHold,
      CaptureGuarded, NothingAdopted, IndexHolds, Pending, Live, EndOnRecord,
      Gone, Dead, RunStates, CgStates, ActiveStates, TerminalStates,
      EmptyTerminal, StartSteps, RecoverySteps, ConInside, Raised, Callers
  <1>2. ASSUME NEW r \in Runs, NEW k \in Callers, Contain(r, k) PROVE IndexHolds'
    BY <1>2, ContainIndexed
  <1>3. ASSUME NEW r \in Runs, Watcher(r) PROVE IndexHolds'
    BY <1>3, WatcherIndexed
  <1>4. ASSUME NEW r \in Runs, Listener(r) PROVE IndexHolds'
    BY <1>4, ListenerIndexed
  <1>5. ASSUME NEW r \in Runs, Detect(r) \/ Enforcer(r) PROVE IndexHolds'
    BY <1>5, EnforcerIndexed
  <1>6. CASE Start
    BY <1>6, StartIndexed
  <1>7. CASE (\E r \in Runs : Kill(r)) \/ KillDone
    BY <1>7, KillIndexed
  <1>8. CASE Recover
    BY <1>8, RecoverIndexed
  <1>9. CASE Crash \/ Reboot
    BY <1>9, CrashIndexed
  <1>10. CASE Environment
    BY <1>10, EnvironmentIndexed
  <1> QED
    BY <1>1, <1>2, <1>3, <1>4, <1>5, <1>6, <1>7, <1>8, <1>9, <1>10 DEF Next

-----------------------------------------------------------------------------
(* The theorems.                                                           *)

(* The supervisor starts in its recovery, with nothing recorded.           *)
LEMMA InitIInv == Init => IInv
  <1> SUFFICES ASSUME Init PROVE IInv
    OBVIOUS
  <1> USE RunsAssumption DEF Init
  <1>1. TypeOK
    BY DEF TypeOK, MainSteps, CgStates, ConSteps, Callers
  <1>2. ThreadsHold /\ ProofsHold /\ MarksHold
    BY DEF ThreadsHold, ProofsHold, MarksHold, StartSteps, Callers
  <1>3. CaptureGuarded
    BY DEF CaptureGuarded, StartSteps, RecoverySteps
  <1>4. NothingAdopted /\ EndedInRecovery
    BY DEF NothingAdopted, EndedInRecovery, StartSteps, Callers
  <1>5. IndexHolds
    BY DEF IndexHolds, RecoverySteps
  <1> QED BY <1>1, <1>2, <1>3, <1>4, <1>5 DEF IInv

(* The inductive invariant holds in every reachable state.                 *)
THEOREM Invariance == Spec => []IInv
  <1>1. IInv /\ [Next]_vars => IInv'
    BY StepType, StepThreads, StepProofs, StepMarks, StepCaptures, StepAdoption,
       StepEnded, StepIndexed DEF IInv
  <1> QED BY InitIInv, <1>1, PTL DEF Spec

(* Every variable keeps its type; in particular a watch is retried at most *)
(* twice before the run is contained for the last time (_watch).           *)
THEOREM TypeCorrect == Spec => []TypeOK
  <1>1. IInv => TypeOK
    BY DEF IInv
  <1> QED BY Invariance, <1>1, PTL

(* A kill receipt is visible only for a cgroup that was proved empty and   *)
(* stays empty (_contain writes it after verify_empty).                    *)
THEOREM KillReceiptsProved == Spec => []KillReceiptAfterEmptiness
  <1>1. IInv => KillReceiptAfterEmptiness
    BY DEF IInv, ProofsHold, KillReceiptAfterEmptiness, Dead, Gone
  <1> QED BY Invariance, <1>1, PTL

(* Recovery leaves no record of an earlier life active or failed when the  *)
(* sockets open (_recover).                                                *)
THEOREM RecoveryAdoptsNothing == Spec => []NoAdoption
  <1>1. IInv => NoAdoption
    BY DEF IInv, NothingAdopted, NoAdoption, Pending, RecoverySteps
  <1> QED BY Invariance, <1>1, PTL

(* Whatever was left in the admission index, none of it outlives a        *)
(* restart: recovery indexes the run it works on, settles it, and the      *)
(* index is empty when the first request is served (_recover, _store).     *)
THEOREM RestartFrees == Spec => RestartFreesIndex
  <1> DEFINE Freed == main = "recover" /\ main' = "idle" => active' = {}
  <1>1. IInv /\ [Next]_vars => [Freed]_vars
    <2> SUFFICES ASSUME IInv, Next, main = "recover", main' = "idle"
                 PROVE  active' = {}
      OBVIOUS
    <2>1. active = {}
      BY DEF IInv, IndexHolds
    <2>2. ASSUME NEW r \in Runs, NEW k \in Callers, Contain(r, k) PROVE FALSE
      BY <2>2 DEF Contain, ContainCached, ContainEnter, ContainKill,
        ContainUnavailable, ContainSurvivors, ContainProved, ContainCommit,
        ContainPublish, ContainUnreceipted, ContainFinish, ContainStopHangs, ContainRaise
    <2>3. ASSUME NEW r \in Runs, Watcher(r) PROVE FALSE
      BY <2>3 DEF Watcher, WatcherArm, WatcherError, WatcherTrip, WatcherContained,
        WatcherRaised, WatcherCollected, WatcherComplete, WatcherRefused,
        WatcherTeardown
    <2>4. ASSUME NEW r \in Runs, Listener(r) PROVE FALSE
      BY <2>4 DEF Listener, ListenerTrip, ListenerContained, ListenerAgain,
        ListenerLast, ListenerHangup, ListenerComplete, ListenerRefused,
        ListenerTeardown, ListenerIdle
    <2>5. ASSUME NEW r \in Runs, Detect(r) \/ Enforcer(r) PROVE FALSE
      BY <2>5 DEF Detect, Enforcer, EnforcerYield, EnforcerBarrier, EnforcerCapture,
        EnforcerProved, EnforcerFail, EnforcerMark, EnforcerPublish,
        EnforcerTeardown, EnforcerMarkFailed, EnforcerLeave
    <2>6. ~Start
      BY DEF Start, StartAdmit, StartLaunch, StartStore, StartProvenance,
        StartListener, StartWatcher, StartReady, StartRelease, StartCheck,
        StartSetRunning, StartWriteRunning, StartIndex, StartAdd, StartFail,
        StartMayFail
    <2>7. ~((\E r \in Runs : Kill(r)) \/ KillDone)
      BY DEF Kill, KillDone
    <2>8. CASE Recover
      BY <2>1, <2>8 DEF Recover, RecoverTerminal, RecoverContain, RecoverOldBoot,
        Restore, RecoverOrphan, Boot, RecoverContained, RecoverEmpty,
        RecoverComplete, RecoverTeardown, RecoverDone, RecoverAbort
    <2>9. ~(Crash \/ Reboot)
      BY DEF Crash, Reboot, Forget
    <2>10. ~Environment
      BY DEF Environment, Exit, Collect, HeldDies
    <2> QED BY <2>2, <2>3, <2>4, <2>5, <2>6, <2>7, <2>8, <2>9, <2>10 DEF Next
  <1> QED BY Invariance, <1>1, PTL DEF Spec, RestartFreesIndex

(* However many runs compete, at most one workload whose end is not on     *)
(* record is alive (_start consults active_cgroups).                       *)
THEOREM OneWorkload == Spec => []OneActiveWorkload
  <1>1. IInv => OneActiveWorkload
    <2> SUFFICES ASSUME IInv, main \notin RecoverySteps,
                        NEW r \in Runs, NEW s \in Runs, Live(r), Live(s)
                 PROVE  r = s
      BY DEF OneActiveWorkload, Live
    <2> QED BY DEF IInv, IndexHolds, StartSteps
  <1> QED BY Invariance, <1>1, PTL

(* Only _mark_completed records an allowed completion, and it does so for  *)
(* a run none of whose processes exists, captured ones included.           *)
THEOREM AllowedCompletions == Spec => AllowedOnlyWhenGone
  <1> DEFINE Safe == \A r \in Runs : disk'[r] = "COMPLETED_ALLOWED"
                                      /\ disk[r] # "COMPLETED_ALLOWED"
                                        => Gone(r) /\ r \notin held
  <1>1. IInv /\ [Next]_vars => [Safe]_vars
    <2> SUFFICES ASSUME IInv, Next PROVE Safe
      OBVIOUS
    <2> USE DEF Safe
    <2>1. ASSUME NEW r \in Runs, NEW t \in Callers, CompleteStore(r, t),
                 Dead(r), main # "down"
          PROVE  Safe
      BY <2>1 DEF CompleteStore, MayComplete, IInv, TypeOK, CaptureGuarded, Dead, Gone
    <2>2. ASSUME NEW r \in Runs, NEW k \in Callers, Contain(r, k) PROVE Safe
      BY <2>2 DEF Contain, ContainCached, ContainEnter, ContainKill,
        ContainUnavailable, ContainSurvivors, ContainProved, ContainCommit,
        ContainPublish, ContainUnreceipted, ContainFinish, ContainStopHangs,
        ContainRaise, IInv, TypeOK
    <2>3. ASSUME NEW r \in Runs, Watcher(r) PROVE Safe
      <3>1. CASE WatcherComplete(r)
        BY <3>1, <2>1 DEF WatcherComplete, IInv, MarksHold, CaptureGuarded,
          RecoverySteps, Dead, Callers
      <3> QED BY <2>3, <3>1 DEF Watcher, WatcherArm, WatcherError, WatcherTrip,
            WatcherContained, WatcherRaised, WatcherCollected, WatcherRefused,
            WatcherTeardown, CompleteTeardown
    <2>4. ASSUME NEW r \in Runs, Listener(r) PROVE Safe
      <3>1. CASE ListenerComplete(r)
        BY <3>1, <2>1 DEF ListenerComplete, IInv, MarksHold, CaptureGuarded,
          RecoverySteps, Dead, Callers
      <3> QED BY <2>4, <3>1 DEF Listener, ListenerTrip, ListenerContained,
            ListenerAgain, ListenerLast, ListenerHangup, ListenerRefused,
            ListenerTeardown, ListenerIdle, CompleteTeardown
    <2>5. ASSUME NEW r \in Runs, Detect(r) \/ Enforcer(r) PROVE Safe
      BY <2>5 DEF Detect, Enforcer, EnforcerYield, EnforcerBarrier, EnforcerCapture,
        EnforcerProved, EnforcerFail, EnforcerMark, EnforcerPublish,
        EnforcerTeardown, EnforcerMarkFailed, EnforcerLeave, IInv, TypeOK
    <2>6. CASE Start
      BY <2>6 DEF Start, StartAdmit, StartLaunch, StartStore, StartProvenance,
        StartListener, StartWatcher, StartReady, StartRelease, StartCheck,
        StartSetRunning, StartWriteRunning, StartIndex, StartAdd, StartFail, StartMayFail,
        IInv, TypeOK
    <2>7. CASE (\E r \in Runs : Kill(r)) \/ KillDone
      BY <2>7 DEF Kill, KillDone
    <2>8. CASE Recover
      <3>1. CASE RecoverComplete
        BY <3>1, <2>1 DEF RecoverComplete, IInv, MarksHold, ThreadsHold, Callers
      <3>2. ASSUME NEW r \in Runs,
                   RecoverTerminal(r) \/ RecoverContain(r) \/ RecoverOldBoot(r)
                     \/ RecoverOrphan(r)
            PROVE  Safe
        BY <3>2 DEF RecoverTerminal, RecoverContain, RecoverOldBoot, Restore,
          RecoverOrphan, IInv, TypeOK
      <3> QED BY <2>8, <3>1, <3>2 DEF Recover, Boot, RecoverContained, RecoverEmpty,
            Restore, RecoverTeardown, CompleteTeardown, RecoverDone, RecoverAbort,
            IInv, TypeOK
    <2>9. CASE Crash \/ Reboot
      BY <2>9 DEF Crash, Reboot
    <2>10. CASE Environment
      BY <2>10 DEF Environment, Exit, Collect, HeldDies
    <2> QED BY <2>2, <2>3, <2>4, <2>5, <2>6, <2>7, <2>8, <2>9, <2>10 DEF Next
  <1> QED BY Invariance, <1>1, PTL DEF Spec, AllowedOnlyWhenGone


=============================================================================
