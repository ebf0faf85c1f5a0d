---------------------------- MODULE Installation ----------------------------
(***************************************************************************)
(* Installation, upgrade, its recovery and removal (src/scripts/install.py,*)
(* upgrade.py, uninstall.py): four commands of the administrator, each     *)
(* under the lifecycle lock, each of which may be killed at any point or   *)
(* meet a command that fails.  A first installation and a removal write a  *)
(* journal beside the installation, an upgrade one inside it.              *)
(***************************************************************************)
EXTENDS Naturals, Sequences, FiniteSets

CONSTANTS
  Admins,        \* processes that run a command
  Releases,      \* the releases that can be installed or upgraded to
  NoRelease, NoAdmin, NoInode,
  Inodes,        \* identities of the lock file
  MaxKills,      \* bound on killed commands
  InstFaults     \* subset of {"write", "start", "stop"}: what may fail

(* A release is not what the model says of a file that has none.           *)
ASSUME InstAssumption == /\ Releases \cap {"none", "dir", "torn", NoRelease} = {}
                         /\ NoRelease # "torn"

VARIABLES
  disk,          \* disk[i]: "none", "dir", "torn" or the release it is of
  account,       \* the workload account: "none", "ours" or "foreign"
  made,          \* what the manifest says of the account
  ji, ju, jx,    \* the journals of install, uninstall and upgrade
  up, enabled,   \* the two services
  live,          \* a workload's cgroup is populated
  lockfile,      \* the inode the lock's path names
  held,          \* held[i]: who has the flock of an inode
  w,             \* w[p]: what a process is at
  kills

instVars == <<disk, account, made, ji, ju, jx, up, enabled, live, lockfile, held, w, kills>>
host == <<account, made, ji, ju, jx, up, enabled, live, lockfile, held, kills>>

(* TARGETS, and the files inside three of them, in the order of install.   *)
Placed == <<"lib", "etc", "state", "pyz", "bin", "catalogue", "policy", "unit", "watchdog",
            "tmpfiles", "manifest">>
Dirs == {"lib", "etc", "state"}
Inside(d) == CASE d = "lib" -> {"pyz"} [] d = "etc" -> {"catalogue", "policy"}
               [] d = "state" -> {"manifest", "records"} [] OTHER -> {}
Items == {Placed[k] : k \in 1 .. Len(Placed)} \cup {"records"}
Files == Items \ (Dirs \cup {"records"})

(* The order of replace_install (after the migration of the records), of   *)
(* restore_snapshot, of uninstall, of the recovery of an install, and of   *)
(* cleanup.  (Mutant: uninstall forgets the tmpfiles rule.)                *)
Replaced == <<"records", "pyz", "bin", "catalogue", "policy", "tmpfiles", "unit", "watchdog",
              "manifest">>
Restored == <<"catalogue", "policy", "watchdog", "unit", "tmpfiles", "bin", "pyz", "manifest",
              "records">>
RemovedShort == <<"unit", "watchdog", "bin", "lib", "etc", "state">>
Removed == <<"unit", "watchdog", "tmpfiles", "bin", "lib", "etc", "state">>
Undone == <<"state", "tmpfiles", "watchdog", "unit", "etc", "bin", "lib">>
Created == <<"tmpfiles", "watchdog", "unit", "bin", "state", "etc", "lib">>

Absent == \A i \in Items : disk[i] = "none"
Complete(v) == \A i \in Files : disk[i] = v
Whole == \E v \in Releases : Complete(v)
Services == {"supervisor", "guard"}
Healthy(v) == Complete(v) /\ jx = NoRelease /\ up["supervisor"] = v /\ up["guard"] # NoRelease
Transitional == jx # NoRelease /\ \A s \in Services : up[s] # NoRelease

NoJournal == [of |-> NoRelease, made |-> FALSE]
Torn == [of |-> "torn", made |-> FALSE]
Journal == {NoJournal, Torn} \cup [of : Releases, made : BOOLEAN]

Idle == [at |-> "idle", cmd |-> "none", rel |-> NoRelease, n |-> 1, old |-> NoRelease,
         mine |-> FALSE, fd |-> NoInode, out |-> "none"]

InstInit ==
  /\ disk = [i \in Items |-> "none"] /\ account \in {"none", "foreign"} /\ made = FALSE
  /\ ji = NoJournal /\ ju = NoJournal /\ jx = NoRelease
  /\ up = [s \in Services |-> NoRelease] /\ enabled = [s \in Services |-> FALSE]
  /\ live = FALSE /\ lockfile = NoInode /\ held = [i \in Inodes |-> NoAdmin]
  /\ w = [p \in Admins |-> Idle] /\ kills = 0

-----------------------------------------------------------------------------
(* Moves of a process through its command                                  *)

At(p, l) == w[p].at = l
To(p, l) == w' = [w EXCEPT ![p].at = l, ![p].n = 1]
Raise(p) == w' = [w EXCEPT ![p].at = "unlink", ![p].out = "RAISED"]
Succeed(p, how) == w' = [w EXCEPT ![p].at = "unlink", ![p].out = how]
Item(p, s) == s[w[p].n]
Onward(p, s, l) ==
  w' = IF w[p].n < Len(s) THEN [w EXCEPT ![p].n = @ + 1]
                          ELSE [w EXCEPT ![p].n = 1, ![p].at = l]

Erase(i) == [j \in Items |-> IF j \in {i} \cup Inside(i) THEN "none" ELSE disk[j]]
Put(i, v) == [disk EXCEPT ![i] = IF i \in Dirs THEN "dir" ELSE v]

(* enable --now starts what the unit file and the artifact on disk are; a  *)
(* supervisor that starts contains what an earlier one left behind.        *)
Unit(s) == IF s = "supervisor" THEN "unit" ELSE "watchdog"
Enable ==
  /\ enabled' = [s \in Services |-> enabled[s] \/ disk[Unit(s)] # "none"]
  /\ up' = [s \in Services |->
              IF up[s] = NoRelease /\ disk[Unit(s)] # "none" /\ disk["pyz"] \in Releases
              THEN disk["pyz"] ELSE up[s]]
  /\ live' = (live /\ up["supervisor"] = up'["supervisor"])

Disable == /\ enabled' = [s \in Services |-> FALSE] /\ up' = [s \in Services |-> NoRelease]

(* stop, or stop and disable, the supervisor and then the guard.           *)
Halted == <<"supervisor", "guard">>
Halt(p, off, l) ==
  /\ up' = [up EXCEPT ![Item(p, Halted)] = NoRelease]
  /\ enabled' = [enabled EXCEPT ![Item(p, Halted)] = @ /\ ~off]
  /\ Onward(p, Halted, l)

-----------------------------------------------------------------------------
(* acquire_lifecycle_lock and release_lifecycle_lock                       *)

Unused == CHOOSE i \in Inodes :
            i # lockfile /\ held[i] = NoAdmin /\ \A p \in Admins : w[p].fd # i

OpenLock(p) ==
  /\ At(p, "idle")
  /\ lockfile' = IF lockfile = NoInode THEN Unused ELSE lockfile
  /\ \E c \in {"install", "upgrade", "recover", "uninstall"}, v \in Releases :
       w' = [w EXCEPT ![p] = [Idle EXCEPT !.at = "flock", !.cmd = c, !.fd = lockfile',
                                          !.rel = IF c \in {"install", "upgrade"} THEN v
                                                  ELSE NoRelease]]
  /\ UNCHANGED <<disk, account, made, ji, ju, jx, up, enabled, live, held, kills>>

(* The flock of the inode that was opened, whatever the path names now.    *)
TakeLock(p) ==
  /\ At(p, "flock")
  /\ IF held[w[p].fd] = NoAdmin
     THEN held' = [held EXCEPT ![w[p].fd] = p] /\ To(p, "begin")
     ELSE held' = held /\ w' = [w EXCEPT ![p] = [Idle EXCEPT !.out = "RAISED"]]
  /\ UNCHANGED <<disk, account, made, ji, ju, jx, up, enabled, live, lockfile, kills>>

UnlinkLock(p) ==
  /\ At(p, "unlink")
  /\ lockfile' = IF lockfile = w[p].fd THEN NoInode ELSE lockfile
  /\ To(p, "unlock")
  /\ UNCHANGED <<disk, account, made, ji, ju, jx, up, enabled, live, held, kills>>

Unlock(p) ==
  /\ At(p, "unlock")
  /\ held' = [held EXCEPT ![w[p].fd] = NoAdmin] /\ w' = [w EXCEPT ![p] = Idle]
  /\ UNCHANGED <<disk, account, made, ji, ju, jx, up, enabled, live, lockfile, kills>>

-----------------------------------------------------------------------------
(* install                                                                 *)

(* A journal of another release, or one that cannot be read, is refused;   *)
(* without one, nothing of the product may be there.                       *)
InstallBegin(p) ==
  /\ At(p, "begin") /\ w[p].cmd = "install"
  /\ IF ji # NoJournal
     THEN IF ji.of = w[p].rel THEN To(p, "undo") ELSE Raise(p)
     ELSE IF Absent /\ \A s \in Services : up[s] = NoRelease THEN To(p, "journal") ELSE Raise(p)
  /\ UNCHANGED <<disk, host>>

(* A release that is not the one its manifest, its digest and its own      *)
(* version name is refused before anything is looked at.                   *)
ReleaseRefused(p) ==
  /\ At(p, "begin") /\ w[p].cmd \in {"install", "upgrade"} /\ Raise(p)
  /\ UNCHANGED <<disk, host>>

(* A host without the kernel's primitives is refused after an interrupted  *)
(* installation was undone and before the journal of a new one.            *)
HostRefused(p) ==
  /\ At(p, "journal") /\ Raise(p)
  /\ UNCHANGED <<disk, host>>

(* recover_interrupted_install                                             *)
InstallUndo(p) ==
  /\ At(p, "undo") /\ Disable
  /\ disk' = Erase(Item(p, Undone)) /\ Onward(p, Undone, "undone")
  /\ jx' = IF Item(p, Undone) = "state" THEN NoRelease ELSE jx
  /\ UNCHANGED <<account, made, ji, ju, live, lockfile, held, kills>>

(* Mutant: an interrupted account is removed whoever created it.           *)
InstallUndoneAny(p) ==
  /\ At(p, "undone")
  /\ account' = "none"
  /\ ji' = NoJournal /\ To(p, "journal")
  /\ UNCHANGED <<disk, made, ju, jx, up, enabled, live, lockfile, held, kills>>

InstallUndone(p) ==
  /\ At(p, "undone")
  /\ account' = IF ji.made THEN "none" ELSE account
  /\ ji' = NoJournal /\ To(p, "journal")
  /\ UNCHANGED <<disk, made, ju, jx, up, enabled, live, lockfile, held, kills>>

(* write_install_journal, in two steps that a kill may separate.           *)
InstallJournalOpen(p) ==
  /\ At(p, "journal") /\ ji = NoJournal
  /\ ji' = Torn /\ To(p, "fill")
  /\ UNCHANGED <<disk, account, made, ju, jx, up, enabled, live, lockfile, held, kills>>

(* `mine' is the caller's created_user: the journal knows it beforehand.   *)
InstallJournalFill(p) ==
  /\ At(p, "fill")
  /\ ji' = [of |-> w[p].rel, made |-> account = "none"]
  /\ To(p, "useradd")
  /\ UNCHANGED <<disk, account, made, ju, jx, up, enabled, live, lockfile, held, kills>>

InstallAccount(p) ==
  /\ At(p, "useradd")
  /\ account' = IF account = "none" THEN "ours" ELSE account
  /\ w' = [w EXCEPT ![p].at = "place", ![p].n = 1, ![p].mine = account = "none"]
  /\ UNCHANGED <<disk, made, ji, ju, jx, up, enabled, live, lockfile, held, kills>>

InstallPlace(p) ==
  /\ At(p, "place")
  /\ disk' = Put(Item(p, Placed), w[p].rel)
  /\ made' = IF Item(p, Placed) = "manifest" THEN w[p].mine ELSE made
  /\ Onward(p, Placed, "enable")
  /\ UNCHANGED <<account, ji, ju, jx, up, enabled, live, lockfile, held, kills>>

InstallEnable(p) ==
  /\ At(p, "enable") /\ Enable /\ To(p, "ready")
  /\ UNCHANGED <<disk, account, made, ji, ju, jx, lockfile, held, kills>>

InstallReady(p) ==
  /\ At(p, "ready") /\ ji' = NoJournal /\ Succeed(p, "INSTALLED")
  /\ UNCHANGED <<disk, account, made, ju, jx, up, enabled, live, lockfile, held, kills>>

(* Any failure: cleanup removes what `created' names, in reverse.  A file  *)
(* that was being written is not in it yet.                                *)
InstallCleanup(p) ==
  /\ At(p, "cleanup") /\ Disable
  /\ LET i == Item(p, Created) IN
       disk' = IF i \in {Placed[k] : k \in 1 .. w[p].old} THEN Erase(i) ELSE disk
  /\ Onward(p, Created, "cleaned")
  /\ UNCHANGED <<account, made, ji, ju, jx, live, lockfile, held, kills>>

(* Mutant: the journal goes although the cleanup left something.           *)
InstallCleanedAnyway(p) ==
  /\ At(p, "cleaned")
  /\ account' = IF w[p].mine THEN "none" ELSE account
  /\ ji' = NoJournal /\ Raise(p)
  /\ UNCHANGED <<disk, made, ju, jx, up, enabled, live, lockfile, held, kills>>

InstallCleaned(p) ==
  /\ At(p, "cleaned")
  /\ account' = IF w[p].mine THEN "none" ELSE account
  /\ ji' = IF Absent THEN NoJournal ELSE ji
  /\ Raise(p)
  /\ UNCHANGED <<disk, made, ju, jx, up, enabled, live, lockfile, held, kills>>

-----------------------------------------------------------------------------
(* upgrade and recover                                                     *)

(* validate_existing, then start_services: the installation is complete    *)
(* and healthy.                                                            *)
UpgradeBegin(p) ==
  /\ At(p, "begin") /\ w[p].cmd = "upgrade"
  /\ IF jx = NoRelease /\ Whole THEN Enable /\ To(p, "snapshot")
                                ELSE Raise(p) /\ UNCHANGED <<up, enabled, live>>
  /\ UNCHANGED <<disk, account, made, ji, ju, jx, lockfile, held, kills>>

(* The backup is complete when the journal names it.                       *)
UpgradeSnapshot(p) ==
  /\ At(p, "snapshot")
  /\ IF Healthy(disk["manifest"])
     THEN /\ jx' = disk["manifest"]
          /\ w' = [w EXCEPT ![p].at = "drain", ![p].old = disk["manifest"]]
     ELSE jx' = jx /\ Raise(p)
  /\ UNCHANGED <<disk, account, made, ji, ju, up, enabled, live, lockfile, held, kills>>

UpgradeDrain(p) ==
  /\ At(p, "drain") /\ live' = FALSE /\ To(p, "halt")
  /\ UNCHANGED <<disk, account, made, ji, ju, jx, up, enabled, lockfile, held, kills>>

UpgradeHalt(p) ==
  /\ At(p, "halt") /\ Halt(p, FALSE, "replace")
  /\ UNCHANGED <<disk, account, made, ji, ju, jx, live, lockfile, held, kills>>

UpgradeReplace(p) ==
  /\ At(p, "replace")
  /\ disk' = Put(Item(p, Replaced), w[p].rel) /\ Onward(p, Replaced, "activate")
  /\ UNCHANGED host

UpgradeActivate(p) ==
  /\ At(p, "activate") /\ Enable /\ To(p, "transitional")
  /\ UNCHANGED <<disk, account, made, ji, ju, jx, lockfile, held, kills>>

(* The doctor accepts the journal as the only blocker; then the journal    *)
(* goes, and the doctor must be satisfied without it.                      *)
UpgradeCommit(p) ==
  /\ At(p, "transitional")
  /\ IF Transitional THEN jx' = NoRelease /\ To(p, "final") ELSE jx' = jx /\ To(p, "rollback")
  /\ UNCHANGED <<disk, account, made, ji, ju, up, enabled, live, lockfile, held, kills>>

UpgradeFinal(p) ==
  /\ At(p, "final")
  /\ IF Healthy(w[p].rel) THEN Succeed(p, "UPGRADED") ELSE To(p, "rollback")
  /\ UNCHANGED <<disk, host>>

RecoverBegin(p) ==
  /\ At(p, "begin") /\ w[p].cmd = "recover"
  /\ IF jx = NoRelease THEN Raise(p)
     ELSE w' = [w EXCEPT ![p].at = "rollback", ![p].n = 1, ![p].old = jx]
  /\ UNCHANGED <<disk, host>>

(* Both an upgrade that failed and the explicit recovery.                  *)
Rollback(p) ==
  /\ At(p, "rollback") /\ Halt(p, FALSE, "restore")
  /\ UNCHANGED <<disk, account, made, ji, ju, jx, live, lockfile, held, kills>>

RollbackRestore(p) ==
  /\ At(p, "restore")
  /\ disk' = Put(Item(p, Restored), w[p].old) /\ Onward(p, Restored, "restart")
  /\ UNCHANGED host

RollbackRestart(p) ==
  /\ At(p, "restart") /\ Enable
  /\ jx' = NoRelease /\ To(p, "restarted")
  /\ UNCHANGED <<disk, account, made, ji, ju, lockfile, held, kills>>

RollbackDone(p) ==
  /\ At(p, "restarted")
  /\ IF w[p].cmd = "recover" /\ Healthy(w[p].old) THEN Succeed(p, "RECOVERED") ELSE Raise(p)
  /\ UNCHANGED <<disk, host>>

-----------------------------------------------------------------------------
(* uninstall                                                               *)

(* `mine' marks a removal that resumes an earlier one (recover_uninstall). *)
Resumed(p) == w[p].mine
Fits(v) == \A i \in Files : disk[i] \in {"none", v}

UninstallBegin(p) ==
  /\ At(p, "begin") /\ w[p].cmd = "uninstall"
  /\ \/ /\ ju # NoJournal
        /\ IF ju # Torn /\ Fits(ju.of)
           THEN w' = [w EXCEPT ![p].at = "rehalt", ![p].mine = TRUE]
           ELSE Raise(p)
     \/ /\ ju = NoJournal
        /\ IF Whole /\ ~live THEN To(p, "ujournal") ELSE Raise(p)
  /\ UNCHANGED <<disk, host>>

UninstallJournalOpen(p) ==
  /\ At(p, "ujournal") /\ ju' = Torn /\ To(p, "ufill")
  /\ UNCHANGED <<disk, account, made, ji, jx, up, enabled, live, lockfile, held, kills>>

UninstallJournalFill(p) ==
  /\ At(p, "ufill") /\ ju' = [of |-> disk["manifest"], made |-> made] /\ To(p, "uhalt")
  /\ UNCHANGED <<disk, account, made, ji, jx, up, enabled, live, lockfile, held, kills>>

UninstallHalt(p) ==
  /\ At(p, "uhalt") /\ Halt(p, TRUE, "ucheck")
  /\ UNCHANGED <<disk, account, made, ji, ju, jx, live, lockfile, held, kills>>

(* A workload that started after the first look: refuse and restore.       *)
UninstallCheck(p) ==
  /\ At(p, "ucheck") /\ To(p, IF live THEN "uback" ELSE "remove")
  /\ UNCHANGED <<disk, host>>

UninstallBack(p) ==
  /\ At(p, "uback") /\ Enable /\ Raise(p)
  /\ UNCHANGED <<disk, account, made, ji, ju, jx, lockfile, held, kills>>

(* recover_uninstall stops both services and refuses without restoring     *)
(* them.                                                                   *)
UninstallRehalt(p) ==
  /\ At(p, "rehalt") /\ Halt(p, TRUE, "recheck")
  /\ UNCHANGED <<disk, account, made, ji, ju, jx, live, lockfile, held, kills>>

UninstallRecheck(p) ==
  /\ At(p, "recheck")
  /\ IF live THEN Raise(p) ELSE To(p, "remove")
  /\ UNCHANGED <<disk, host>>

UninstallRemove(p) ==
  /\ At(p, "remove")
  /\ disk' = Erase(Item(p, Removed)) /\ Onward(p, Removed, "userdel")
  /\ jx' = IF Item(p, Removed) = "state" THEN NoRelease ELSE jx
  /\ UNCHANGED <<account, made, ji, ju, up, enabled, live, lockfile, held, kills>>

UninstallAccount(p) ==
  /\ At(p, "userdel")
  /\ account' = IF ju.made THEN "none" ELSE account
  /\ To(p, "forget")
  /\ UNCHANGED <<disk, made, ji, ju, jx, up, enabled, live, lockfile, held, kills>>

UninstallDone(p) ==
  /\ At(p, "forget") /\ ju' = NoJournal /\ Succeed(p, "UNINSTALLED")
  /\ UNCHANGED <<disk, account, made, ji, jx, up, enabled, live, lockfile, held, kills>>

-----------------------------------------------------------------------------
(* What a step that was cut short may have left of the disk.               *)
Sequence(p) == CASE At(p, "undo") -> Undone [] At(p, "cleanup") -> Created
                 [] At(p, "remove") -> Removed [] At(p, "place") -> Placed
                 [] At(p, "replace") -> Replaced [] At(p, "restore") -> Restored
                 [] OTHER -> <<>>

CutShort(p) ==
  LET i == IF Sequence(p) = <<>> THEN "none" ELSE Item(p, Sequence(p)) IN
  {disk} \cup
  CASE At(p, "place") /\ i \notin Dirs -> {[disk EXCEPT ![i] = "torn"]}
    [] i = "records" -> {[disk EXCEPT ![i] = "torn"]}
    [] i \in Dirs /\ ~At(p, "place") -> {[j \in Items |-> IF j \in Inside(i) THEN "none" ELSE disk[j]]}
    [] OTHER -> {}

(* A write fails. When it is the first journal of an upgrade, the rollback *)
(* goes by the snapshot alone.                                             *)
WriteFails(p) ==
  /\ "write" \in InstFaults
  /\ \/ /\ At(p, "fill") /\ ji' = NoJournal /\ Raise(p) /\ UNCHANGED <<disk, ju>>
     \/ /\ At(p, "ufill") /\ ju' = NoJournal /\ Raise(p) /\ UNCHANGED <<disk, ji>>
     \/ /\ At(p, "place") /\ disk' \in CutShort(p) /\ UNCHANGED <<ji, ju>>
        /\ w' = [w EXCEPT ![p].at = "cleanup", ![p].n = 1, ![p].old = w[p].n - 1]
     \/ At(p, "replace") /\ disk' \in CutShort(p) /\ To(p, "rollback") /\ UNCHANGED <<ji, ju>>
     \/ At(p, "snapshot") /\ Healthy(disk["manifest"]) /\ UNCHANGED <<disk, ji, ju>>
        /\ w' = [w EXCEPT ![p].at = "rollback", ![p].n = 1, ![p].old = disk["manifest"]]
     \/ At(p, "restore") /\ disk' \in CutShort(p) /\ Raise(p) /\ UNCHANGED <<ji, ju>>
     \/ At(p, "remove") /\ disk' \in CutShort(p) /\ UNCHANGED <<ji, ju>>
        /\ IF Resumed(p) THEN Raise(p) ELSE To(p, "uback")
  /\ UNCHANGED <<account, made, jx, up, enabled, live, lockfile, held, kills>>

(* A service does not come up, or its doctor is not satisfied in time; a   *)
(* workload cannot be drained.                                             *)
StartFails(p) ==
  /\ "start" \in InstFaults
  /\ \/ At(p, "snapshot") /\ Raise(p)
     \/ At(p, "drain") /\ To(p, "rollback")
     \/ (At(p, "transitional") \/ At(p, "final")) /\ To(p, "rollback")
     \/ At(p, "restart") /\ Raise(p)
     \/ At(p, "restarted") /\ Raise(p)
     \/ At(p, "ready")
        /\ w' = [w EXCEPT ![p].at = "cleanup", ![p].n = 1, ![p].old = Len(Placed)]
  /\ UNCHANGED <<disk, host>>

(* systemctl stop or disable of either service fails; the removal restores *)
(* both once the supervisor is stopped, its recovery does not.             *)
StopFails(p) ==
  /\ "stop" \in InstFaults
  /\ \/ At(p, "uhalt") /\ w[p].n = 1 /\ Raise(p) /\ UNCHANGED up
     \/ At(p, "uhalt") /\ To(p, "uback") /\ up' = [up EXCEPT ![Item(p, Halted)] = NoRelease]
     \/ At(p, "uhalt") /\ w[p].n = 2 /\ To(p, "uback") /\ UNCHANGED up
     \/ At(p, "rehalt") /\ Raise(p) /\ UNCHANGED up
     \/ At(p, "rehalt") /\ Raise(p) /\ up' = [up EXCEPT ![Item(p, Halted)] = NoRelease]
  /\ UNCHANGED <<disk, account, made, ji, ju, jx, enabled, live, lockfile, held, kills>>

Kill(p) ==
  /\ kills < MaxKills /\ ~At(p, "idle") /\ kills' = kills + 1
  /\ disk' \in CutShort(p) /\ w' = [w EXCEPT ![p] = Idle]
  /\ held' = [i \in Inodes |-> IF held[i] = p THEN NoAdmin ELSE held[i]]
  /\ UNCHANGED <<account, made, ji, ju, jx, up, enabled, live, lockfile>>

(* The operator's workloads: started while the supervisor serves; ended by *)
(* themselves, by the supervisor, or by the guard when it is alone.        *)
WorkloadStarts == /\ up["supervisor"] # NoRelease /\ live' = TRUE
                  /\ UNCHANGED <<disk, account, made, ji, ju, jx, up, enabled, lockfile, held, w, kills>>
WorkloadEnds == /\ live /\ live' = FALSE
                /\ UNCHANGED <<disk, account, made, ji, ju, jx, up, enabled, lockfile, held, w, kills>>

Command(p) ==
  \/ OpenLock(p) \/ TakeLock(p) \/ UnlinkLock(p) \/ Unlock(p)
  \/ ReleaseRefused(p) \/ HostRefused(p)
  \/ InstallBegin(p) \/ InstallUndo(p) \/ InstallUndone(p) \/ InstallJournalOpen(p)
  \/ InstallJournalFill(p) \/ InstallAccount(p) \/ InstallPlace(p) \/ InstallEnable(p)
  \/ InstallReady(p) \/ InstallCleanup(p) \/ InstallCleaned(p)
  \/ UpgradeBegin(p) \/ UpgradeSnapshot(p) \/ UpgradeDrain(p) \/ UpgradeHalt(p)
  \/ UpgradeReplace(p) \/ UpgradeActivate(p) \/ UpgradeCommit(p) \/ UpgradeFinal(p)
  \/ RecoverBegin(p) \/ Rollback(p) \/ RollbackRestore(p) \/ RollbackRestart(p) \/ RollbackDone(p)
  \/ UninstallBegin(p) \/ UninstallJournalOpen(p) \/ UninstallJournalFill(p)
  \/ UninstallHalt(p) \/ UninstallCheck(p) \/ UninstallBack(p) \/ UninstallRehalt(p)
  \/ UninstallRecheck(p) \/ UninstallRemove(p) \/ UninstallAccount(p) \/ UninstallDone(p)
  \/ WriteFails(p) \/ StartFails(p) \/ StopFails(p) \/ Kill(p)

InstNext == WorkloadStarts \/ WorkloadEnds \/ \E p \in Admins : Command(p)

InstSpec == InstInit /\ [][InstNext]_instVars

-----------------------------------------------------------------------------
InstTypeOK ==
  /\ \A i \in Items : disk[i] \in {"none", "dir", "torn"} \cup Releases
  /\ account \in {"none", "ours", "foreign"} /\ made \in BOOLEAN
  /\ ji \in Journal /\ ju \in Journal /\ jx \in Releases \cup {NoRelease}
  /\ \A s \in Services : up[s] \in Releases \cup {NoRelease} /\ enabled[s] \in BOOLEAN
  /\ live \in BOOLEAN /\ lockfile \in Inodes \cup {NoInode}
  /\ held \in [Inodes -> Admins \cup {NoAdmin}] /\ kills \in 0 .. MaxKills
  /\ \A p \in Admins : w[p].at \in {"idle", "flock"} \/ held[w[p].fd] = p

Covered == Absent \/ Whole \/ ji # NoJournal \/ ju # NoJournal \/ jx # NoRelease

(* However a command ends or dies, an installation that is neither absent  *)
(* nor of one release has a journal to recover by.  One step alone can     *)
(* break this: the rollback of an upgrade whose journal is already gone,   *)
(* or was never written.                                                   *)
OnlyRollbackUncovers ==
  [][Covered /\ ~Covered' => \E p \in Admins : At(p, "restore") /\ jx = NoRelease]_instVars

(* A workload account that existed before the product is never removed,    *)
(* and the product's own is on record for removal as long as it exists:    *)
(* through killed installs, cleanups, upgrades and half-done removals.     *)
AccountsKept ==
  /\ [][account = "foreign" => account' = "foreign"]_instVars
  /\ [](account = "ours" => ji.made \/ ju.made \/ (made /\ disk["manifest"] # "none")
                            \/ ji = Torn \/ ju = Torn)

(* What a command reports is so: a release is whole and served after       *)
(* install, upgrade and recover, with its journal gone; and nothing is     *)
(* left after uninstall.                                                   *)
OutcomesAreTrue ==
  \A p \in Admins : At(p, "unlink") =>
    /\ w[p].out = "INSTALLED" => Complete(w[p].rel) /\ ji = NoJournal
                                 /\ \A s \in Services : enabled[s] /\ up[s] = w[p].rel
    /\ w[p].out \in {"UPGRADED", "RECOVERED"} =>
         jx = NoRelease /\ Whole /\ \A s \in Services : up[s] = disk["manifest"]
    /\ w[p].out = "UNINSTALLED" => Absent /\ ju = NoJournal
                                   /\ \A s \in Services : ~enabled[s] /\ up[s] = NoRelease

(* Documented: lifecycle operations are serialized.                        *)
Serialized ==
  \A p, q \in Admins : p # q =>
    w[p].at \in {"idle", "flock", "unlock"} \/ w[q].at \in {"idle", "flock", "unlock"}

(* Documented: the journal stays if a rollback cannot complete.            *)
RollbackIsCovered ==
  \A p \in Admins : At(p, "unlink") /\ w[p].cmd = "upgrade" => Covered

(* Documented: a refused removal does not leave protection disabled.       *)
RefusalKeepsProtection ==
  \A p \in Admins :
    At(p, "unlink") /\ w[p].cmd = "uninstall" /\ w[p].out = "RAISED" /\ Whole /\ live
      => up["supervisor"] # NoRelease
=============================================================================
