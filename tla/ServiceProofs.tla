---------------------------- MODULE ServiceProofs ---------------------------
(***************************************************************************)
(* Proofs about the services as systemd and the administrator have them.   *)
(*                                                                         *)
(* The watchdog: ProtectionIsRecent for every timeout, grace, gap and      *)
(* bound.  The inductive invariant relates the age of the last scan to the *)
(* watchdog's own clocks, separately while it waits, while it kills and    *)
(* while it records the kill; a restarted watchdog owes one timeout before *)
(* it can say anything.                                                    *)
(*                                                                         *)
(* Installation: what install, upgrade, recover and uninstall report, whom *)
(* the workload account belongs to, and that the journals cover every      *)
(* half-done step but one, for all releases, kills and failing commands.   *)
(* The inductive invariant says of each stage of a command what it has     *)
(* done so far, and of the host that the account is on record.  Commands   *)
(* of several processes must not overlap: that is documented, but with two *)
(* administrators it may fail (Serialized), so it is a hypothesis here.    *)
(***************************************************************************)
EXTENDS Watchdog, Installation, TLAPS

-----------------------------------------------------------------------------
(* The watchdog: the age of what it has seen.                              *)
-----------------------------------------------------------------------------

(* The clocks, and the watchdog's step.                                    *)
AgesOK ==
  /\ scanAge \in 0..MaxAge /\ dogAge \in 0..MaxAge /\ beatAge \in 0..MaxAge
  /\ stale \in 0..MaxAge /\ sentAge \in 0..MaxAge /\ busy \in 0..KillTime
  /\ dog \in {"down", "serve", "kill", "receipt", "signal"}

(* No scan is younger than the last one of any supervisor, and no beat of  *)
(* a watchdog than its start.                                              *)
Ordered == stale <= scanAge /\ beatAge <= dogAge

(* A workload that discovery should watch, or a supervisor that can start  *)
(* one: either way a scan was made since the last escape.                  *)
Owned == (workload \/ sup = "serve") /\ ~escaped

(* The watchdog has just started, has heard a beat or has killed.          *)
Waiting ==
  dog = "serve" /\ Owned =>
    \/ dogAge <= beatAge /\ beatAge <= Timeout + 1
    \/ stale <= Credit
    \/ stale <= Credit + beatAge /\ beatAge <= Timeout + 1

(* A beat that it has not read yet is as good as one that it has.          *)
Unread == dog = "serve" /\ Owned /\ queue # <<>> => stale <= Credit

(* Before the kill of the workloads, and after it.                         *)
Working ==
  /\ dog = "kill" /\ Owned =>
       dogAge <= Timeout + 1 + busy \/ stale <= Credit + Timeout + 1 + busy
  /\ dog \in {"receipt", "signal"} /\ workload /\ ~escaped => stale <= busy

(* What it counts from is not older than the last beat, but for the gap.   *)
Rejected == dog # "down" /\ queue = <<>> => beatAge <= sentAge + Gap

DogIInv == AgesOK /\ Ordered /\ Waiting /\ Unread /\ Working /\ Rejected

(* What the watchdog allows without a beat.                                *)
LEMMA CreditFacts == ASSUME DogAssumption
                     PROVE  Credit \in Nat /\ ScanHealth <= Credit /\ KillTime <= Credit
BY DEF Credit, DogAssumption

(* A Tick ages everything alike.                                           *)
LEMMA OlderFacts == ASSUME DogAssumption, NEW n \in 0..MaxAge
                    PROVE  /\ Older(n) \in 0..MaxAge /\ n <= Older(n) /\ Older(n) <= n + 1
                           /\ n < MaxAge => Older(n) = n + 1
                           /\ n = MaxAge => Older(n) = MaxAge
BY DEF Older, DogAssumption

LEMMA DogStarts == ASSUME DogInit PROVE DogIInv
BY DogAssumption, CreditFacts DEF DogInit, DogIInv, DogAssumption, AgesOK, Ordered, Waiting, Unread, Working, Rejected, Owned

LEMMA DogRests == ASSUME DogIInv, UNCHANGED dogVars PROVE DogIInv'
BY DEF DogIInv, dogVars, supVars, dogState, ages, AgesOK, Ordered, Waiting, Unread, Working, Rejected, Owned

-----------------------------------------------------------------------------
(* Steps that are not a Tick.                                              *)
LEMMA DogActs == ASSUME DogIInv, DogNext, ~Tick PROVE DogIInv'
<1> USE DogAssumption, CreditFacts DEF DogAssumption, DogIInv, supVars, dogState, ages,
        AgesOK, Ordered, Owned, Waiting, Unread, Working, Rejected
<1>1. CASE ScanDone BY <1>1 DEF ScanDone
<1>2. CASE ScanFailed BY <1>2 DEF ScanFailed
<1>3. CASE Unsound BY <1>3 DEF Unsound
<1>4. CASE Saturate BY <1>4 DEF Saturate
<1>5. CASE Beat BY <1>5 DEF Beat, SupHealthy
<1>6. CASE SupDies BY <1>6 DEF SupDies
<1>7. CASE SupRestart BY <1>7 DEF SupRestart
<1>8. CASE Workload BY <1>8 DEF Workload
<1>9. CASE Tamper BY <1>9 DEF Tamper
<1>10. CASE Receive BY <1>10 DEF Receive, Stray
<1>11. CASE Check BY <1>11 DEF Check, CheckDue
<1>12. CASE Late BY <1>12 DEF Late, LateDue
<1>13. CASE FailClosed BY <1>13 DEF FailClosed
<1>14. CASE Recorded BY <1>14 DEF Recorded
<1>15. CASE Signal BY <1>15 DEF Signal
<1>16. CASE DogDies BY <1>16 DEF DogDies
<1>17. CASE DogRestart BY <1>17 DEF DogRestart
<1> QED BY <1>1, <1>2, <1>3, <1>4, <1>5, <1>6, <1>7, <1>8, <1>9, <1>10, <1>11, <1>12, <1>13, <1>14,
           <1>15, <1>16, <1>17 DEF DogNext

(* A Tick, which the watchdog lets pass only when it has nothing to do or  *)
(* is killing.                                                             *)
LEMMA DogTicks == ASSUME DogIInv, Tick PROVE DogIInv'
<1> USE DogAssumption, CreditFacts DEF DogAssumption
<1>1. AgesOK /\ stale < MaxAge
  BY DEF DogIInv, Tick
<1>2. /\ scanAge' = Older(scanAge) /\ stale' = stale + 1 /\ sentAge' = Older(sentAge)
      /\ dogAge' = Older(dogAge) /\ beatAge' = Older(beatAge)
      /\ busy' = IF Killing THEN busy + 1 ELSE 0
      /\ (Killing => busy < KillTime)
      /\ dog' = dog /\ queue' = queue /\ workload' = workload /\ sup' = sup /\ escaped' = escaped
      /\ (dog = "serve" => queue = <<>> /\ ~CheckDue /\ ~LateDue)
  BY DEF Tick
<1>0. /\ stale \in Nat /\ scanAge \in Nat /\ beatAge \in Nat /\ dogAge \in Nat /\ sentAge \in Nat /\ busy \in Nat
      /\ scanAge' = IF scanAge < MaxAge THEN scanAge + 1 ELSE MaxAge
      /\ beatAge' = IF beatAge < MaxAge THEN beatAge + 1 ELSE MaxAge
      /\ dogAge' = IF dogAge < MaxAge THEN dogAge + 1 ELSE MaxAge
      /\ sentAge' = IF sentAge < MaxAge THEN sentAge + 1 ELSE MaxAge
      /\ beatAge <= MaxAge /\ dogAge <= MaxAge /\ scanAge <= MaxAge /\ sentAge <= MaxAge /\ stale < MaxAge
  BY <1>1, <1>2 DEF AgesOK, Older
<1>3. AgesOK'
  BY <1>1, <1>2, OlderFacts DEF AgesOK
<1>4. Ordered'
  BY <1>1, <1>2, <1>0 DEF DogIInv, Ordered
<1>5. Waiting'
  <2>1. dog = "serve" => beatAge <= Timeout
    BY <1>1, <1>2 DEF DogIInv, AgesOK, Ordered, CheckDue, LateDue
  <2> QED BY <1>1, <1>2, <2>1, <1>0 DEF DogIInv, Waiting, Owned
<1>6. Unread'
  BY <1>2 DEF Unread
<1>7. Working'
  BY <1>1, <1>2, <1>0 DEF DogIInv, Working, Owned, Killing
<1>8. Rejected'
  BY <1>1, <1>2, <1>0 DEF DogIInv, Rejected
<1> QED BY <1>3, <1>4, <1>5, <1>6, <1>7, <1>8 DEF DogIInv

THEOREM DogInvariance == DogSpec => []DogIInv
<1>1. DogIInv /\ [DogNext]_dogVars => DogIInv'
  BY DogActs, DogTicks, DogRests
<1> QED BY DogStarts, <1>1, PTL DEF DogSpec

(* The promise: a workload that nothing scans is killed in time, and only  *)
(* a supervisor that has not beaten is given up.                           *)
THEOREM ProtectionRecent == DogSpec => []ProtectionIsRecent
<1>1. ASSUME DogIInv PROVE ProtectionIsRecent
  <2> USE DogAssumption, CreditFacts DEF DogAssumption, DogIInv, AgesOK
  <2>1. ASSUME workload, ~escaped, dogAge > Timeout + 1 + KillTime, dog # "down"
        PROVE  stale <= Credit + Timeout + 1 + KillTime
    <3>1. dog \in {"serve", "kill", "receipt", "signal"}
      BY <1>1, <2>1
    <3> QED BY <1>1, <2>1, <3>1 DEF Waiting, Working, Owned
  <2>2. ASSUME LateDue, queue = <<>> PROVE sentAge + Gap > Timeout
    BY <1>1, <2>2 DEF LateDue, Rejected
  <2> QED BY <2>1, <2>2 DEF ProtectionIsRecent
<1> QED BY DogInvariance, <1>1, PTL

-----------------------------------------------------------------------------
(* Installation: the commands of the administrator, one at a time.         *)
-----------------------------------------------------------------------------

(* Where a process is in an upgrade, in a rollback, and in no one's way.   *)
UpgradePlaces == {"snapshot", "drain", "halt", "replace", "activate", "transitional", "final"}
RollbackPlaces == {"rollback", "restore", "restart", "restarted"}
Overlapping == {"idle", "flock", "unlock"}
Busy(p) == w[p].at \notin Overlapping

Contents == {"none", "dir", "torn"} \cup Releases
MaybeRelease == Releases \cup {NoRelease}
IsProcess(r) == r = [at |-> r.at, cmd |-> r.cmd, rel |-> r.rel, n |-> r.n, old |-> r.old,
                     mine |-> r.mine, fd |-> r.fd, out |-> r.out]

ProcsOK ==
  /\ DOMAIN w = Admins
  /\ \A p \in Admins : IsProcess(w[p]) /\ w[p].n \in Nat \ {0} /\ w[p].mine \in BOOLEAN

HostTypeOK ==
  /\ disk \in [Items -> Contents] /\ account \in {"none", "ours", "foreign"} /\ made \in BOOLEAN
  /\ ji \in Journal /\ ju \in Journal /\ jx \in MaybeRelease
  /\ up \in [Services -> MaybeRelease] /\ enabled \in [Services -> BOOLEAN] /\ live \in BOOLEAN
  /\ ProcsOK

Filled(j) == j.of \in Releases
Ours == account = "ours"
Theirs == account = "foreign"
Stopped == \A s \in Services : up[s] = NoRelease
Off == Stopped /\ \A s \in Services : ~enabled[s]
Serves(v) == \A s \in Services : up[s] \in {NoRelease, v}

(* What the first n - 1 steps of a loop have done.                         *)
ErasedTo(s, n) == \A k \in 1 .. (n - 1) : \A j \in {s[k]} \cup Inside(s[k]) : disk[j] = "none"
WrittenTo(s, n, v) == \A k \in 1 .. (n - 1) : s[k] \in Files => disk[s[k]] = v
StoppedTo(n) == n \in 1 .. 2 /\ (n = 2 => up["supervisor"] = NoRelease)
DisabledTo(n) == StoppedTo(n) /\ (n = 2 => ~enabled["supervisor"])

(* The product's account is on record, and nobody else's is.               *)
TheirsOK == Theirs => ~ji.made /\ ~ju.made /\ ~made
OursOK == Ours => ji # NoJournal \/ ju # NoJournal \/ (made /\ disk["manifest"] # "none")
InstallOwns == Filled(ji) /\ Ours => ji.made \/ ju # NoJournal
RemovalOwns == Filled(ju) => ju.made \/ Theirs
ManifestOwns == disk["manifest"] \in Releases => made \/ Theirs \/ ju # NoJournal
(* An upgrade's journal is in the state, and of an installation.           *)
UpgradeOwns == jx # NoRelease => disk["state"] = "dir" /\ (made \/ Theirs \/ ju # NoJournal)

StateHolds == disk["manifest"] # "none" => disk["state"] = "dir"

HostOK == /\ TheirsOK /\ OursOK /\ InstallOwns /\ RemovalOwns /\ ManifestOwns /\ UpgradeOwns
          /\ StateHolds

(* The flag of an install, from when it has looked for the account.        *)
MineOK(p) == IF w[p].mine THEN ~Theirs ELSE Theirs \/ ju # NoJournal

Chosen(p) == w[p].cmd \in {"install", "upgrade"} => w[p].rel \in Releases

Installing(p) ==
  /\ At(p, "undo") => /\ Filled(ji) /\ ji.of = w[p].rel /\ w[p].n \in 1 .. Len(Undone)
                      /\ ErasedTo(Undone, w[p].n) /\ (w[p].n > 1 => Stopped)
  /\ At(p, "undone") => Filled(ji) /\ ji.of = w[p].rel /\ Absent /\ Stopped
  /\ At(p, "journal") => ji = NoJournal /\ w[p].rel \in Releases /\ Absent /\ Stopped
  /\ At(p, "fill") => /\ ji = Torn /\ w[p].rel \in Releases /\ Absent /\ Stopped
                      /\ (Ours => ju # NoJournal)
  /\ At(p, "useradd") => /\ Filled(ji) /\ ji.of = w[p].rel /\ Absent /\ Stopped
                         /\ ji.made = (account = "none")
  /\ w[p].at \in {"place", "enable", "ready", "cleanup", "cleaned"} =>
       Filled(ji) /\ ji.of = w[p].rel /\ MineOK(p)
  /\ At(p, "place") => /\ w[p].n \in 1 .. Len(Placed) /\ WrittenTo(Placed, w[p].n, w[p].rel)
                       /\ Stopped /\ (w[p].n > 3 => disk["state"] = "dir")
  /\ w[p].at \in {"place", "enable", "ready", "cleanup"} => jx = NoRelease
  /\ At(p, "enable") => Complete(w[p].rel) /\ Stopped
  /\ w[p].at \in {"enable", "ready"} => made = w[p].mine
  /\ At(p, "ready") => Complete(w[p].rel) /\ \A s \in Services : enabled[s] /\ up[s] = w[p].rel
  /\ At(p, "cleanup") => w[p].n \in 1 .. Len(Created)

Upgrading(p) ==
  /\ w[p].at \in UpgradePlaces => w[p].rel \in Releases
  /\ At(p, "snapshot") => Whole
  /\ w[p].at \in {"drain", "halt", "replace", "activate", "transitional"} => jx # NoRelease
  /\ w[p].at \in (UpgradePlaces \ {"snapshot"}) \cup RollbackPlaces
       => w[p].old \in Releases
  /\ At(p, "halt") => StoppedTo(w[p].n)
  /\ At(p, "replace") => /\ w[p].n \in 1 .. Len(Replaced) /\ WrittenTo(Replaced, w[p].n, w[p].rel)
                         /\ Stopped
  /\ w[p].at \in {"activate", "transitional", "final"} => Complete(w[p].rel)
  /\ At(p, "activate") => Stopped
  /\ w[p].at \in {"transitional", "final"} => Serves(w[p].rel)
  /\ At(p, "final") => jx = NoRelease

Recovering(p) ==
  /\ w[p].at \in {"rollback", "restore"} => jx # NoRelease \/ disk["manifest"] \in Releases
  /\ At(p, "rollback") => StoppedTo(w[p].n)
  /\ At(p, "restore") => /\ w[p].n \in 1 .. Len(Restored) /\ WrittenTo(Restored, w[p].n, w[p].old)
                         /\ Stopped
  /\ w[p].at \in {"restart", "restarted"} => Complete(w[p].old)
  /\ At(p, "restart") => Stopped
  /\ At(p, "restarted") => jx = NoRelease /\ Serves(w[p].old)

Uninstalling(p) ==
  /\ At(p, "ujournal") => ju = NoJournal
  /\ At(p, "ufill") => ju = Torn /\ (made \/ Theirs) /\ (Filled(ji) /\ Ours => ji.made)
  /\ w[p].at \in {"ujournal", "ufill"} => Whole
  /\ w[p].at \in {"uhalt", "ucheck", "uback", "rehalt", "recheck", "remove", "userdel", "forget"}
       => Filled(ju)
  /\ w[p].at \in {"uhalt", "rehalt"} => DisabledTo(w[p].n)
  /\ w[p].at \in {"ucheck", "recheck", "remove", "userdel", "forget"} => Off
  /\ At(p, "remove") => w[p].n \in 1 .. Len(Removed) /\ ErasedTo(Removed, w[p].n)
  /\ w[p].at \in {"userdel", "forget"} => Absent
  /\ At(p, "forget") => ~Ours

Outcome(p) ==
  At(p, "unlink") =>
    /\ w[p].out = "INSTALLED" => Complete(w[p].rel) /\ ji = NoJournal
                                 /\ \A s \in Services : enabled[s] /\ up[s] = w[p].rel
    /\ w[p].out \in {"UPGRADED", "RECOVERED"} =>
         jx = NoRelease /\ Whole /\ \A s \in Services : up[s] = disk["manifest"]
    /\ w[p].out = "UNINSTALLED" => Absent /\ ju = NoJournal
                                   /\ \A s \in Services : ~enabled[s] /\ up[s] = NoRelease

StageOK(p) ==
  /\ w[p].at \in {"flock", "begin"} => Chosen(p)
  /\ At(p, "begin") => w[p].n = 1
  /\ Installing(p) /\ Upgrading(p) /\ Recovering(p) /\ Uninstalling(p) /\ Outcome(p)

InstIInv == HostTypeOK /\ HostOK /\ \A p \in Admins : StageOK(p)

-----------------------------------------------------------------------------
(* The sequences of the loops, and what they go through.                   *)
LEMMA ItemFacts ==
  /\ Items = {"lib", "etc", "state", "pyz", "bin", "catalogue", "policy", "unit", "watchdog",
              "tmpfiles", "manifest", "records"}
  /\ Files = {"pyz", "bin", "catalogue", "policy", "unit", "watchdog", "tmpfiles", "manifest"}
  /\ \A d : Inside(d) \subseteq Items
  /\ Len(Placed) = 11 /\ Len(Undone) = 7 /\ Len(Removed) = 7 /\ Len(Created) = 7
  /\ Len(Replaced) = 9 /\ Len(Restored) = 9 /\ Len(Halted) = 2
<1>1. Items = {Placed[1], Placed[2], Placed[3], Placed[4], Placed[5], Placed[6], Placed[7],
               Placed[8], Placed[9], Placed[10], Placed[11], "records"}
  <2>1. 1 .. Len(Placed) = {1, 2, 3, 4, 5, 6, 7, 8, 9, 10, 11}
    BY DEF Placed
  <2> QED BY <2>1 DEF Items
<1>2. Items = {"lib", "etc", "state", "pyz", "bin", "catalogue", "policy", "unit", "watchdog",
               "tmpfiles", "manifest", "records"}
  BY <1>1 DEF Placed
<1>3. Files = {"pyz", "bin", "catalogue", "policy", "unit", "watchdog", "tmpfiles", "manifest"}
  BY <1>2 DEF Files, Dirs
<1>4. \A d : Inside(d) \subseteq Items
  BY <1>2 DEF Inside
<1> QED BY <1>2, <1>3, <1>4 DEF Placed, Undone, Removed, Created, Replaced, Restored, Halted

(* What the loops go through is part of the installation.                  *)
LEMMA LoopItems ==
  /\ \A k \in 1 .. 11 : Placed[k] \in Items
  /\ \A k \in 1 .. 7 : Undone[k] \in Items /\ Removed[k] \in Items /\ Created[k] \in Items
  /\ \A k \in 1 .. 9 : Replaced[k] \in Files \cup {"records"}
                       /\ Restored[k] \in Files \cup {"records"}
<1>1. \A k \in 1 .. 11 : Placed[k] \in Items
  BY ItemFacts DEF Items
<1>2. \A k \in 1 .. 7 : k = 1 \/ k = 2 \/ k = 3 \/ k = 4 \/ k = 5 \/ k = 6 \/ k = 7
  OBVIOUS
<1>3. \A k \in 1 .. 9 : k = 1 \/ k = 2 \/ k = 3 \/ k = 4 \/ k = 5 \/ k = 6 \/ k = 7 \/ k = 8
                        \/ k = 9
  OBVIOUS
<1>4. \A k \in 1 .. 7 : Undone[k] \in Items /\ Removed[k] \in Items /\ Created[k] \in Items
  BY <1>2, ItemFacts DEF Undone, Removed, Created
<1>5. \A k \in 1 .. 9 : Replaced[k] \in Files \cup {"records"}
                        /\ Restored[k] \in Files \cup {"records"}
  BY <1>3, ItemFacts DEF Replaced, Restored
<1> QED BY <1>1, <1>4, <1>5

(* A loop that has gone through all of its sequence.                       *)
LEMMA AllErased == ErasedTo(Undone, 8) \/ ErasedTo(Removed, 8) => Absent
<1>1. ASSUME ErasedTo(Undone, 8) PROVE Absent
  <2>1. /\ \A j \in {"state"} \cup Inside("state") : disk[j] = "none"
        /\ \A j \in {"etc"} \cup Inside("etc") : disk[j] = "none"
        /\ \A j \in {"lib"} \cup Inside("lib") : disk[j] = "none"
        /\ disk["tmpfiles"] = "none" /\ disk["watchdog"] = "none" /\ disk["unit"] = "none"
        /\ disk["bin"] = "none"
    <3>1. \A k \in {1, 2, 3, 4, 5, 6, 7} :
            \A j \in {Undone[k]} \cup Inside(Undone[k]) : disk[j] = "none"
      BY <1>1 DEF ErasedTo
    <3> QED BY <3>1 DEF Undone
  <2> QED BY <2>1, ItemFacts DEF Absent, Inside
<1>2. ASSUME ErasedTo(Removed, 8) PROVE Absent
  <2>1. /\ \A j \in {"state"} \cup Inside("state") : disk[j] = "none"
        /\ \A j \in {"etc"} \cup Inside("etc") : disk[j] = "none"
        /\ \A j \in {"lib"} \cup Inside("lib") : disk[j] = "none"
        /\ disk["tmpfiles"] = "none" /\ disk["watchdog"] = "none" /\ disk["unit"] = "none"
        /\ disk["bin"] = "none"
    <3>1. \A k \in {1, 2, 3, 4, 5, 6, 7} :
            \A j \in {Removed[k]} \cup Inside(Removed[k]) : disk[j] = "none"
      BY <1>2 DEF ErasedTo
    <3> QED BY <3>1 DEF Removed
  <2> QED BY <2>1, ItemFacts DEF Absent, Inside
<1> QED BY <1>1, <1>2

(* All files of a release are there when its loop is through.              *)
LEMMA AllWritten ==
  ASSUME NEW v
  PROVE  /\ WrittenTo(Placed, 12, v) => Complete(v)
         /\ WrittenTo(Replaced, 10, v) => Complete(v)
         /\ WrittenTo(Restored, 10, v) => Complete(v)
<1>1. ASSUME WrittenTo(Placed, 12, v) PROVE Complete(v)
  <2>1. \A k \in {1, 2, 3, 4, 5, 6, 7, 8, 9, 10, 11} : Placed[k] \in Files => disk[Placed[k]] = v
    BY <1>1 DEF WrittenTo
  <2> QED BY <2>1, ItemFacts DEF Complete, Placed
<1>2. ASSUME WrittenTo(Replaced, 10, v) PROVE Complete(v)
  <2>1. \A k \in {1, 2, 3, 4, 5, 6, 7, 8, 9} : Replaced[k] \in Files => disk[Replaced[k]] = v
    BY <1>2 DEF WrittenTo
  <2> QED BY <2>1, ItemFacts DEF Complete, Replaced
<1>3. ASSUME WrittenTo(Restored, 10, v) PROVE Complete(v)
  <2>1. \A k \in {1, 2, 3, 4, 5, 6, 7, 8, 9} : Restored[k] \in Files => disk[Restored[k]] = v
    BY <1>3 DEF WrittenTo
  <2> QED BY <2>1, ItemFacts DEF Complete, Restored
<1> QED BY <1>1, <1>2, <1>3

(* One step of a loop.                                                     *)
LEMMA Erasing ==
  ASSUME disk \in [Items -> Contents], NEW i \in Items, disk' = Erase(i)
  PROVE  /\ disk' \in [Items -> Contents]
         /\ \A j \in {i} \cup Inside(i) : disk'[j] = "none"
         /\ \A j \in Items : disk'[j] \in {disk[j], "none"}
         /\ \A j \in Items : j \notin {i} \cup Inside(i) => disk'[j] = disk[j]
         /\ \A j : disk[j] = "none" /\ j \in Items => disk'[j] = "none"
BY ItemFacts DEF Erase, Contents

(* One more item is gone, and none has come back.                          *)
LEMMA EraseStep ==
  ASSUME disk \in [Items -> Contents], NEW s, NEW n \in Nat \ {0}, s[n] \in Items,
         \A k \in 1 .. n : s[k] \in Items, disk' = Erase(s[n]), ErasedTo(s, n)
  PROVE  ErasedTo(s, n + 1)'
<1> SUFFICES ASSUME NEW k \in 1 .. n, NEW j \in {s[k]} \cup Inside(s[k]) PROVE disk'[j] = "none"
  BY DEF ErasedTo
<1>1. j \in Items
  BY ItemFacts
<1>2. CASE k = n
  BY <1>2, Erasing
<1>3. CASE k # n
  <2>1. k \in 1 .. (n - 1)
    BY <1>3
  <2>2. disk[j] = "none"
    BY <2>1 DEF ErasedTo
  <2> QED BY <1>1, <2>2, Erasing
<1> QED BY <1>2, <1>3

(* One more file is of the release, and none has ceased to be.             *)
LEMMA WriteStep ==
  ASSUME disk \in [Items -> Contents], NEW s, NEW n \in Nat \ {0}, NEW v \in Releases,
         s[n] \in Items, disk' = Put(s[n], v), WrittenTo(s, n, v)
  PROVE  WrittenTo(s, n + 1, v)' /\ disk' \in [Items -> Contents]
<1>1. disk' \in [Items -> Contents]
  BY DEF Put, Contents
<1>2. WrittenTo(s, n + 1, v)'
  <2> SUFFICES ASSUME NEW k \in 1 .. n, s[k] \in Files PROVE disk'[s[k]] = v
    BY DEF WrittenTo
  <2>1. CASE s[k] = s[n]
    BY <2>1 DEF Put, Files
  <2>2. CASE s[k] # s[n]
    <3>1. k \in 1 .. (n - 1)
      BY <2>2
    <3>2. disk[s[k]] = v /\ s[k] \in Items
      BY <3>1 DEF WrittenTo, Files
    <3> QED BY <2>2, <3>2 DEF Put
  <2> QED BY <2>1, <2>2
<1> QED BY <1>1, <1>2

(* The same of the state after the step.                                   *)
LEMMA AllErasedNext == ErasedTo(Undone, 8)' \/ ErasedTo(Removed, 8)' => Absent'
BY AllErased, PTL

(* The same of the state after the step.                                   *)
LEMMA AllWrittenNext ==
  ASSUME NEW v
  PROVE  /\ WrittenTo(Placed, 12, v)' => Complete(v)'
         /\ WrittenTo(Replaced, 10, v)' => Complete(v)'
         /\ WrittenTo(Restored, 10, v)' => Complete(v)'
BY AllWritten, PTL

-----------------------------------------------------------------------------
(* The moves of a process.                                                 *)
Alone(p) == \A q \in Admins \ {p} : w'[q] = w[q]
Holds(p) == /\ w'[p].cmd = w[p].cmd /\ w'[p].rel = w[p].rel
            /\ w'[p].mine = w[p].mine

(* A process whose record is replaced; the others keep theirs.             *)
LEMMA MoveFacts ==
  ASSUME ProcsOK, NEW p \in Admins, NEW r, w' = [w EXCEPT ![p] = r],
         IsProcess(r), r.n \in Nat \ {0}, r.mine \in BOOLEAN
  PROVE  ProcsOK' /\ Alone(p) /\ w'[p] = r
BY DEF ProcsOK, Alone

(* A process that goes on to the next stage.                               *)
LEMMA ToFacts ==
  ASSUME ProcsOK, NEW p \in Admins, NEW l, To(p, l)
  PROVE  /\ ProcsOK' /\ Alone(p) /\ Holds(p)
         /\ w'[p].at = l /\ w'[p].n = 1 /\ w'[p].old = w[p].old
<1> DEFINE r == w[p]
<1>1. w'[p] = [at |-> l, cmd |-> r.cmd, rel |-> r.rel, n |-> 1, old |-> r.old, mine |-> r.mine,
               fd |-> r.fd, out |-> r.out]
  <2>1. w'[p] = [r EXCEPT !.at = l, !.n = 1]
    BY DEF ProcsOK, To
  <2>2. IsProcess(r)
    BY DEF ProcsOK
  <2> HIDE DEF r
  <2> QED BY <2>1, <2>2 DEF IsProcess
<1>2. DOMAIN w' = Admins /\ Alone(p)
  BY DEF ProcsOK, Alone, To
<1>3. IsProcess(w'[p])
  BY <1>1 DEF IsProcess
<1>4. ProcsOK'
  BY <1>1, <1>2, <1>3 DEF ProcsOK, Alone
<1> QED BY <1>1, <1>2, <1>4 DEF Holds

(* A process that has its outcome and is about to give up the lock.        *)
LEMMA EndFacts ==
  ASSUME ProcsOK, NEW p \in Admins, NEW how,
         (Raise(p) /\ how = "RAISED") \/ Succeed(p, how)
  PROVE  /\ ProcsOK' /\ Alone(p) /\ Holds(p)
         /\ w'[p].at = "unlink" /\ w'[p].out = how /\ w'[p].old = w[p].old
<1> DEFINE r == w[p]
<1>1. w'[p] = [at |-> "unlink", cmd |-> r.cmd, rel |-> r.rel, n |-> r.n, old |-> r.old,
               mine |-> r.mine, fd |-> r.fd, out |-> how]
  BY DEF ProcsOK, IsProcess, Raise, Succeed
<1>2. DOMAIN w' = Admins /\ Alone(p)
  BY DEF ProcsOK, Alone, Raise, Succeed
<1>3. IsProcess(w'[p])
  BY <1>1 DEF IsProcess
<1>4. ProcsOK'
  BY <1>1, <1>2, <1>3 DEF ProcsOK, Alone
<1> QED BY <1>1, <1>2, <1>4 DEF Holds

(* A process that has done one round of a loop.                            *)
LEMMA OnwardFacts ==
  ASSUME ProcsOK, NEW p \in Admins, NEW s, NEW l, Len(s) \in Nat, Onward(p, s, l)
  PROVE  /\ ProcsOK' /\ Alone(p) /\ Holds(p) /\ w'[p].old = w[p].old
         /\ w[p].n < Len(s) => w'[p].at = w[p].at /\ w'[p].n = w[p].n + 1
         /\ w[p].n >= Len(s) => w'[p].at = l /\ w'[p].n = 1
<1> DEFINE r == w[p]
           a == IF r.n < Len(s) THEN r.at ELSE l
           m == IF r.n < Len(s) THEN r.n + 1 ELSE 1
<1>0. r.n \in Nat \ {0} /\ m \in Nat \ {0}
  BY DEF ProcsOK
<1>1. w'[p] = [at |-> a, cmd |-> r.cmd, rel |-> r.rel, n |-> m, old |-> r.old, mine |-> r.mine,
               fd |-> r.fd, out |-> r.out]
  <2>2. IsProcess(r)
    BY DEF ProcsOK
  <2>3. CASE r.n < Len(s)
    <3>3. w'[p] = [r EXCEPT !.n = r.n + 1]
      BY <2>3 DEF ProcsOK, Onward
    <3> HIDE DEF r
    <3> QED BY <3>3, <2>2, <2>3 DEF IsProcess
  <2>4. CASE ~(r.n < Len(s))
    <3>1. w'[p] = [r EXCEPT !.n = 1, !.at = l]
      BY <2>4 DEF ProcsOK, Onward
    <3> HIDE DEF r
    <3> QED BY <3>1, <2>2, <2>4 DEF IsProcess
  <2> QED BY <2>3, <2>4
<1>2. DOMAIN w' = Admins /\ Alone(p)
  BY DEF ProcsOK, Alone, Onward
<1> HIDE DEF a, m
<1>3. IsProcess(w'[p]) /\ w'[p].n \in Nat \ {0} /\ w'[p].mine \in BOOLEAN
  BY <1>0, <1>1 DEF IsProcess, ProcsOK
<1>4. ProcsOK'
  BY <1>2, <1>3 DEF ProcsOK, Alone
<1>5. w'[p].at = a /\ w'[p].n = m /\ Holds(p) /\ w'[p].old = w[p].old
  BY <1>1 DEF Holds
<1> QED BY <1>0, <1>2, <1>4, <1>5 DEF a, m

(* A process in a loop of m steps, which it leaves for l.                  *)
Goes(p, m, l) ==
  /\ ProcsOK' /\ Alone(p) /\ Holds(p) /\ w'[p].old = w[p].old
  /\ w[p].n < m => w'[p].at = w[p].at /\ w'[p].n = w[p].n + 1
  /\ w[p].n >= m => w'[p].at = l /\ w'[p].n = 1

(* The loops over the installation and how they are left.                  *)
LEMMA LoopFacts ==
  ASSUME ProcsOK, NEW p \in Admins, NEW l
  PROVE  /\ Onward(p, Placed, l) => Goes(p, 11, l)
         /\ Onward(p, Undone, l) \/ Onward(p, Removed, l) \/ Onward(p, Created, l) => Goes(p, 7, l)
         /\ Onward(p, Replaced, l) \/ Onward(p, Restored, l) => Goes(p, 9, l)
<1>1. ASSUME NEW s, NEW m \in Nat, Len(s) = m, Onward(p, s, l) PROVE Goes(p, m, l)
  BY <1>1, OnwardFacts DEF Goes
<1>2. 11 \in Nat /\ 7 \in Nat /\ 9 \in Nat
  OBVIOUS
<1> QED BY <1>1, <1>2, ItemFacts

(* The processes are records when the one that moved is.                   *)
LEMMA OthersStay ==
  ASSUME ProcsOK, NEW p \in Admins, DOMAIN w' = Admins, Alone(p),
         IsProcess(w'[p]), w'[p].n \in Nat \ {0}, w'[p].mine \in BOOLEAN
  PROVE  ProcsOK'
BY DEF ProcsOK, Alone

(* A process that begins anew.                                             *)
LEMMA FreshFacts ==
  ASSUME ProcsOK, NEW p \in Admins, NEW l, NEW c, NEW v, NEW f, NEW o, DOMAIN w' = Admins, Alone(p),
         w'[p] = [at |-> l, cmd |-> c, rel |-> v, n |-> 1, old |-> NoRelease, mine |-> FALSE,
                  fd |-> f, out |-> o]
  PROVE  ProcsOK' /\ w'[p].at = l /\ w'[p].cmd = c /\ w'[p].rel = v
<1>1. IsProcess(w'[p])
  BY DEF IsProcess
<1>2. w'[p].at = l /\ w'[p].cmd = c /\ w'[p].rel = v
  OBVIOUS
<1>3. w'[p].n = 1
  OBVIOUS
<1>4. w'[p].mine \in BOOLEAN
  OBVIOUS
<1>5. w'[p].n \in Nat \ {0}
  BY <1>3
<1>6. ProcsOK'
  BY <1>1, <1>4, <1>5, OthersStay
<1> QED BY <1>2, <1>6

(* The services.                                                           *)
LEMMA EnableFacts ==
  ASSUME HostTypeOK, Enable
  PROVE  /\ up' \in [Services -> MaybeRelease] /\ enabled' \in [Services -> BOOLEAN]
         /\ live' \in BOOLEAN
         /\ \A v \in Releases : Complete(v) => \A s \in Services : enabled'[s]
         /\ \A v \in Releases : Complete(v) /\ Stopped => \A s \in Services : up'[s] = v
         /\ \A v : Complete(v) /\ Serves(v) => \A s \in Services : up'[s] \in {NoRelease, v}
<1> USE InstAssumption, ItemFacts DEF HostTypeOK, Enable, MaybeRelease, Services, Contents
<1>1. up' \in [Services -> MaybeRelease] /\ enabled' \in [Services -> BOOLEAN] /\ live' \in BOOLEAN
  OBVIOUS
<1>2. ASSUME NEW v, Complete(v)
      PROVE  disk["unit"] = v /\ disk["watchdog"] = v /\ disk["pyz"] = v
  BY <1>2 DEF Complete
<1>3. ASSUME NEW v \in Releases, Complete(v) PROVE \A s \in Services : enabled'[s]
  BY <1>2, <1>3 DEF Unit
<1>4. ASSUME NEW v \in Releases, Complete(v), Stopped PROVE \A s \in Services : up'[s] = v
  BY <1>2, <1>4 DEF Unit, Stopped
<1>5. ASSUME NEW v, Complete(v), Serves(v) PROVE \A s \in Services : up'[s] \in {NoRelease, v}
  BY <1>2, <1>5 DEF Unit, Serves
<1> QED BY <1>1, <1>3, <1>4, <1>5

(* Both services stopped and disabled.                                     *)
LEMMA DisableFacts ==
  ASSUME Disable
  PROVE  up' \in [Services -> MaybeRelease] /\ enabled' \in [Services -> BOOLEAN] /\ Off'
BY DEF Disable, Off, Stopped, MaybeRelease

(* One service stopped, in the order of Halted, and disabled if off.       *)
LEMMA HaltFacts ==
  ASSUME HostTypeOK, NEW p \in Admins, NEW off \in BOOLEAN, NEW l, Halt(p, off, l),
         StoppedTo(w[p].n)
  PROVE  /\ up' \in [Services -> MaybeRelease] /\ enabled' \in [Services -> BOOLEAN]
         /\ ProcsOK' /\ Alone(p) /\ Holds(p) /\ w'[p].old = w[p].old
         /\ \/ /\ w'[p].at = w[p].at /\ StoppedTo(w[p].n)'
               /\ off /\ DisabledTo(w[p].n) => DisabledTo(w[p].n)'
            \/ /\ w'[p].at = l /\ w'[p].n = 1 /\ Stopped'
               /\ off /\ DisabledTo(w[p].n) => Off'
<1>1. ProcsOK
  BY DEF HostTypeOK, ProcsOK
<1>2. /\ ProcsOK' /\ Alone(p) /\ Holds(p) /\ w'[p].old = w[p].old
      /\ w[p].n < 2 => w'[p].at = w[p].at /\ w'[p].n = w[p].n + 1
      /\ w[p].n >= 2 => w'[p].at = l /\ w'[p].n = 1
  <2>1. Len(Halted) = 2 /\ Onward(p, Halted, l)
    BY ItemFacts DEF Halt
  <2>2. Len(Halted) \in Nat
    BY ItemFacts
  <2>3. w[p].n < Len(Halted) \/ w[p].n >= Len(Halted)
    BY <2>1 DEF StoppedTo
  <2> QED BY <1>1, <2>1, <2>2, OnwardFacts
<1>3. Item(p, Halted) = IF w[p].n = 1 THEN "supervisor" ELSE "guard"
  BY DEF Item, Halted, StoppedTo
<1>4. up' \in [Services -> MaybeRelease] /\ enabled' \in [Services -> BOOLEAN]
  BY <1>3 DEF Halt, HostTypeOK, Services, MaybeRelease
<1>5. w[p].n = 1 \/ w[p].n = 2
  BY DEF StoppedTo
<1>6. CASE w[p].n = 1
  <2>1. up'["supervisor"] = NoRelease /\ (off => ~enabled'["supervisor"])
    BY <1>3, <1>6 DEF Halt, HostTypeOK, Services
  <2>2. w'[p].at = w[p].at /\ w'[p].n = 2
    BY <1>2, <1>6
  <2>3. StoppedTo(w[p].n)'
    BY <2>1, <2>2 DEF StoppedTo
  <2>4. off => DisabledTo(w[p].n)'
    BY <2>1, <2>3 DEF DisabledTo
  <2>5. ProcsOK' /\ Alone(p) /\ Holds(p) /\ w'[p].old = w[p].old
    BY <1>2
  <2>6. w'[p].at = w[p].at
    BY <2>2
  <2>7. off /\ DisabledTo(w[p].n) => DisabledTo(w[p].n)'
    BY <2>4
  <2> QED BY <1>4, <2>3, <2>5, <2>6, <2>7
<1>7. CASE w[p].n = 2
  <2>1. up'["supervisor"] = NoRelease /\ up'["guard"] = NoRelease
    BY <1>3, <1>7 DEF Halt, HostTypeOK, Services, StoppedTo
  <2>2. off /\ DisabledTo(w[p].n) => ~enabled'["supervisor"] /\ ~enabled'["guard"]
    BY <1>3, <1>7 DEF Halt, HostTypeOK, Services, DisabledTo
  <2>3. w'[p].at = l /\ w'[p].n = 1
    BY <1>2, <1>7
  <2>4. Stopped' /\ (off /\ DisabledTo(w[p].n) => Off')
    BY <2>1, <2>2 DEF Stopped, Off, Services
  <2> QED BY <1>2, <1>4, <2>3, <2>4
<1> QED BY <1>5, <1>6, <1>7

-----------------------------------------------------------------------------
(* What a step of p has to keep.                                           *)
Kept(p) == HostTypeOK' /\ HostOK' /\ StageOK(p)' /\ Alone(p)

(* Nothing that is said of the account is disturbed.                       *)
LEMMA HostKept ==
  ASSUME HostOK, UNCHANGED <<account, made, ji, ju, jx>>, disk'["manifest"] = disk["manifest"],
         disk'["state"] = disk["state"]
  PROVE  HostOK'
BY DEF HostOK, StateHolds, TheirsOK, OursOK, InstallOwns, RemovalOwns, ManifestOwns, UpgradeOwns,
     Filled, Ours, Theirs

(* A process with an outcome owes nothing but the truth of it.             *)
LEMMA EndsOK ==
  ASSUME NEW p, w'[p].at = "unlink", Outcome(p)'
  PROVE  StageOK(p)'
BY DEF StageOK, Installing, Upgrading, Recovering, Uninstalling, At, UpgradePlaces, RollbackPlaces

(* A process that has no lock owes nothing.                                *)
LEMMA RestsOK ==
  ASSUME NEW p, w'[p].at \in {"idle", "unlock"}
  PROVE  StageOK(p)'
BY DEF StageOK, Installing, Upgrading, Recovering, Uninstalling, Outcome, At, UpgradePlaces,
       RollbackPlaces

(* A process that gives up, whatever it did to the host before.            *)
LEMMA Refused ==
  ASSUME HostTypeOK', HostOK', HostTypeOK, NEW p \in Admins, Raise(p)
  PROVE  Kept(p)
<1>1. Alone(p) /\ w'[p].at = "unlink" /\ w'[p].out = "RAISED"
  BY EndFacts DEF HostTypeOK
<1>2. Outcome(p)'
  BY <1>1 DEF Outcome
<1> QED BY <1>1, <1>2, EndsOK DEF Kept

(* A process that is gone.                                                 *)
LEMMA IdleFacts ==
  ASSUME ProcsOK, NEW p \in Admins, w' = [w EXCEPT ![p] = Idle]
  PROVE  ProcsOK' /\ Alone(p) /\ w'[p].at = "idle"
<1>1. w'[p] = [at |-> "idle", cmd |-> "none", rel |-> NoRelease, n |-> 1, old |-> NoRelease,
               mine |-> FALSE, fd |-> NoInode, out |-> "none"]
  BY DEF ProcsOK, Idle
<1>2. DOMAIN w' = Admins /\ Alone(p)
  BY DEF ProcsOK, Alone
<1> QED BY <1>1, <1>2, FreshFacts

(* Where nothing but the processes and the lock changes.                   *)
LEMMA HostStays ==
  ASSUME InstIInv, ProcsOK', UNCHANGED <<disk, account, made, ji, ju, jx, up, enabled, live>>
  PROVE  HostTypeOK' /\ HostOK'
<1>1. HostOK'
  BY HostKept DEF InstIInv
<1> QED BY <1>1 DEF InstIInv, HostTypeOK, Contents, MaybeRelease

-----------------------------------------------------------------------------
(* The lock.                                                               *)
LEMMA Locks ==
  ASSUME InstIInv, NEW p \in Admins, OpenLock(p) \/ TakeLock(p) \/ UnlinkLock(p) \/ Unlock(p)
  PROVE  Kept(p)
<1> USE DEF InstIInv
<1>1. CASE OpenLock(p)
  <2>1. PICK c \in {"install", "upgrade", "recover", "uninstall"}, v \in Releases :
          w' = [w EXCEPT ![p] = [Idle EXCEPT !.at = "flock", !.cmd = c, !.fd = lockfile',
                                             !.rel = IF c \in {"install", "upgrade"}
                                                        THEN v ELSE NoRelease]]
    BY <1>1 DEF OpenLock
  <2> DEFINE x == IF c \in {"install", "upgrade"} THEN v ELSE NoRelease
             r == [Idle EXCEPT !.at = "flock", !.cmd = c, !.fd = lockfile', !.rel = x]
  <2>2. w' = [w EXCEPT ![p] = r]
    BY <2>1
  <2>5. w'[p] = [at |-> "flock", cmd |-> c, rel |-> x, n |-> 1, old |-> NoRelease, mine |-> FALSE,
                 fd |-> lockfile', out |-> "none"]
    BY <2>2 DEF HostTypeOK, ProcsOK, Idle
  <2>3. ProcsOK' /\ Alone(p) /\ w'[p].at = "flock" /\ w'[p].cmd = c /\ w'[p].rel = x
    <3> HIDE DEF x, r
    <3>1. DOMAIN w' = Admins /\ Alone(p)
      BY <2>2 DEF HostTypeOK, ProcsOK, Alone
    <3> QED BY <2>5, <3>1, FreshFacts DEF HostTypeOK
  <2>4. HostTypeOK' /\ HostOK'
    BY <1>1, <2>3, HostStays DEF OpenLock
  <2>6. StageOK(p)'
    BY <2>3 DEF StageOK, Chosen, Installing, Upgrading, Recovering, Uninstalling, Outcome, At,
                UpgradePlaces, RollbackPlaces
  <2> QED BY <2>3, <2>4, <2>6 DEF Kept
<1>2. CASE TakeLock(p)
  <2>1. CASE To(p, "begin")
    <3>1. ProcsOK' /\ Alone(p) /\ Holds(p) /\ w'[p].at = "begin"
      BY <2>1, ToFacts DEF HostTypeOK
    <3>2. HostTypeOK' /\ HostOK'
      BY <1>2, <3>1, HostStays DEF TakeLock
    <3>3. Chosen(p)' /\ w'[p].n = 1
      BY <1>2, <2>1, <3>1, ToFacts DEF TakeLock, StageOK, Chosen, Holds, At, HostTypeOK
    <3>4. StageOK(p)'
      BY <3>1, <3>3 DEF StageOK, Installing, Upgrading, Recovering, Uninstalling, Outcome, At,
                  UpgradePlaces, RollbackPlaces
    <3> QED BY <3>1, <3>2, <3>4 DEF Kept
  <2>2. CASE w' = [w EXCEPT ![p] = [Idle EXCEPT !.out = "RAISED"]]
    <3>1. w'[p] = [at |-> "idle", cmd |-> "none", rel |-> NoRelease, n |-> 1, old |-> NoRelease,
                   mine |-> FALSE, fd |-> NoInode, out |-> "RAISED"]
      BY <2>2 DEF HostTypeOK, ProcsOK, Idle
    <3>2. ProcsOK' /\ Alone(p) /\ w'[p].at = "idle"
      <4>1. DOMAIN w' = Admins /\ Alone(p)
        BY <2>2 DEF HostTypeOK, ProcsOK, Alone
      <4> QED BY <3>1, <4>1, FreshFacts DEF HostTypeOK
    <3>3. HostTypeOK' /\ HostOK'
      BY <1>2, <3>2, HostStays DEF TakeLock
    <3> QED BY <3>2, <3>3, RestsOK DEF Kept
  <2> QED BY <1>2, <2>1, <2>2 DEF TakeLock
<1>3. CASE UnlinkLock(p)
  <2>1. ProcsOK' /\ Alone(p) /\ w'[p].at = "unlock"
    BY <1>3, ToFacts DEF UnlinkLock, HostTypeOK
  <2>2. HostTypeOK' /\ HostOK'
    BY <1>3, <2>1, HostStays DEF UnlinkLock
  <2> QED BY <2>1, <2>2, RestsOK DEF Kept
<1>4. CASE Unlock(p)
  <2>1. ProcsOK' /\ Alone(p) /\ w'[p].at = "idle"
    <3>1. w' = [w EXCEPT ![p] = Idle]
      BY <1>4 DEF Unlock
    <3> QED BY <3>1, IdleFacts DEF HostTypeOK
  <2>2. HostTypeOK' /\ HostOK'
    BY <1>4, <2>1, HostStays DEF Unlock
  <2> QED BY <2>1, <2>2, RestsOK DEF Kept
<1> QED BY <1>1, <1>2, <1>3, <1>4

(* A step of a process that leaves the host as it is.                      *)
LEMMA Stands ==
  ASSUME InstIInv, NEW p \in Admins, NEW l, To(p, l), UNCHANGED <<disk, host>>
  PROVE  /\ HostTypeOK' /\ HostOK' /\ Alone(p) /\ Holds(p)
         /\ w'[p].at = l /\ w'[p].n = 1 /\ w'[p].old = w[p].old
<1>1. ProcsOK' /\ Alone(p) /\ Holds(p) /\ w'[p].at = l /\ w'[p].n = 1 /\ w'[p].old = w[p].old
  BY ToFacts DEF InstIInv, HostTypeOK
<1> QED BY <1>1, HostStays DEF host

(* A process that gives up and leaves the host as it is.                   *)
LEMMA Stops ==
  ASSUME InstIInv, NEW p \in Admins, Raise(p), UNCHANGED <<disk, host>>
  PROVE  Kept(p)
<1>1. ProcsOK'
  BY EndFacts DEF InstIInv, HostTypeOK
<1>2. HostTypeOK' /\ HostOK'
  BY <1>1, HostStays DEF host
<1> QED BY <1>2, Refused DEF InstIInv

-----------------------------------------------------------------------------
(* An installation.                                                        *)
LEMMA InstallBegins ==
  ASSUME InstIInv, NEW p \in Admins,
         InstallBegin(p) \/ ReleaseRefused(p) \/ HostRefused(p)
  PROVE  Kept(p)
<1>1. CASE Raise(p) /\ UNCHANGED <<disk, host>>
  BY <1>1, Stops
<1>2. CASE InstallBegin(p) /\ ji # NoJournal /\ ji.of = w[p].rel /\ To(p, "undo")
  <2>1. /\ HostTypeOK' /\ HostOK' /\ Alone(p) /\ Holds(p) /\ w'[p].at = "undo" /\ w'[p].n = 1
        /\ ji' = ji
    BY <1>2, Stands DEF InstallBegin, host
  <2>2. w[p].rel \in Releases
    BY <1>2 DEF InstallBegin, InstIInv, StageOK, Chosen, At
  <2>3. w'[p].n \in 1 .. Len(Undone) /\ ErasedTo(Undone, w[p].n)'
    BY <2>1, ItemFacts DEF ErasedTo
  <2>4. StageOK(p)'
    BY <1>2, <2>1, <2>2, <2>3 DEF StageOK, Installing, Upgrading, Recovering, Uninstalling,
       Outcome, Chosen, At,
         UpgradePlaces, RollbackPlaces, Holds, Filled
  <2> QED BY <2>1, <2>4 DEF Kept
<1>3. CASE /\ InstallBegin(p) /\ ji = NoJournal /\ Absent /\ Stopped /\ To(p, "journal")
  <2>1. /\ HostTypeOK' /\ HostOK' /\ Alone(p) /\ Holds(p) /\ w'[p].at = "journal"
        /\ ji' = ji /\ Absent' /\ Stopped'
    BY <1>3, Stands DEF InstallBegin, host, Absent, Stopped
  <2>2. w[p].rel \in Releases
    BY <1>3 DEF InstallBegin, InstIInv, StageOK, Chosen, At
  <2>4. StageOK(p)'
    BY <1>3, <2>1, <2>2 DEF StageOK, Installing, Upgrading, Recovering, Uninstalling, Outcome,
       Chosen, At,
         UpgradePlaces, RollbackPlaces, Holds
  <2> QED BY <2>1, <2>4 DEF Kept
<1> QED BY <1>1, <1>2, <1>3 DEF InstallBegin, ReleaseRefused, HostRefused, Stopped

(* The leftovers of an interrupted installation go, the state first.       *)
LEMMA InstallUndoes ==
  ASSUME InstIInv, NEW p \in Admins, InstallUndo(p) PROVE Kept(p)
<1> USE DEF InstIInv
<1>0. PICK n \in Nat \ {0} : n = w[p].n
  BY DEF HostTypeOK, ProcsOK
<1>1. /\ Filled(ji) /\ ji.of = w[p].rel /\ n \in 1 .. 7 /\ ErasedTo(Undone, n) /\ At(p, "undo")
      /\ HostTypeOK /\ ProcsOK
  BY <1>0, ItemFacts DEF InstallUndo, StageOK, Installing, HostTypeOK
<1>2. Undone[n] \in Items /\ disk' = Erase(Undone[n])
  BY <1>0, <1>1, LoopItems DEF InstallUndo, Item
<1>3. /\ disk' \in [Items -> Contents] /\ ErasedTo(Undone, n + 1)'
      /\ disk'["manifest"] \in {disk["manifest"], "none"}
      /\ disk'["state"] = disk["state"] \/ Undone[n] = "state"
  <2>1. disk \in [Items -> Contents] /\ n \in Nat \ {0} /\ \A k \in 1 .. n : Undone[k] \in Items
    BY <1>1, LoopItems DEF HostTypeOK
  <2>2. ErasedTo(Undone, n + 1)'
    BY <1>1, <1>2, <2>1, EraseStep
  <2>3. "state" \notin Inside(Undone[n])
    BY DEF Inside
  <2>4. "state" \in Items /\ "manifest" \in Items
    BY ItemFacts
  <2> QED BY <1>2, <2>1, <2>2, <2>3, <2>4, Erasing
<1>4. /\ ProcsOK' /\ Alone(p) /\ Holds(p)
      /\ n < 7 => w'[p].at = "undo" /\ w'[p].n = n + 1
      /\ n >= 7 => w'[p].at = "undone" /\ w'[p].n = 1
  <2>1. Goes(p, 7, "undone") /\ w[p].at = "undo"
    BY <1>1, LoopFacts DEF InstallUndo, At
  <2> QED BY <1>0, <2>1 DEF Goes
<1>5. up' \in [Services -> MaybeRelease] /\ enabled' \in [Services -> BOOLEAN] /\ Stopped'
  BY DisableFacts DEF InstallUndo, Off
<1>6. HostTypeOK'
  BY <1>1, <1>3, <1>4, <1>5 DEF InstallUndo, HostTypeOK, MaybeRelease
<1>7. HostOK'
  <2>1. UNCHANGED <<account, made, ji, ju>> /\ jx' \in {jx, NoRelease}
        /\ (Undone[n] = "state" => jx' = NoRelease)
    BY <1>0 DEF InstallUndo, Item
  <2>2. Undone[n] = "state" => disk'["manifest"] = "none"
    BY <1>1, <1>2, Erasing DEF Inside, HostTypeOK
  <2> QED BY <1>1, <1>3, <2>1, <2>2, InstAssumption DEF HostOK, StateHolds, TheirsOK, OursOK,
       InstallOwns, RemovalOwns, ManifestOwns, UpgradeOwns, Filled, Ours, Theirs, NoJournal
<1>8. CASE n < 7
  <2>1. w'[p].n \in 1 .. 7 /\ ErasedTo(Undone, w[p].n)'
    BY <1>1, <1>3, <1>4, <1>8
  <2>2. ji' = ji
    BY DEF InstallUndo
  <2>3. StageOK(p)'
    BY <1>1, <1>4, <1>5, <1>8, <2>1, <2>2, ItemFacts DEF StageOK, Installing, Upgrading,
       Recovering, Uninstalling, Outcome,
         Chosen, At, UpgradePlaces, RollbackPlaces, Holds, Filled
  <2> QED BY <1>4, <1>6, <1>7, <2>3 DEF Kept
<1>9. CASE n >= 7
  <2>1. Absent'
    <3>1. ErasedTo(Undone, 8)'
      BY <1>1, <1>3, <1>9
    <3> QED BY <3>1, AllErasedNext
  <2>2. ji' = ji
    BY DEF InstallUndo
  <2>3. StageOK(p)'
    BY <1>1, <1>4, <1>5, <1>9, <2>1, <2>2 DEF StageOK, Installing, Upgrading, Recovering,
       Uninstalling, Outcome,
         Chosen, At, UpgradePlaces, RollbackPlaces, Holds, Filled
  <2> QED BY <1>4, <1>6, <1>7, <2>3 DEF Kept
<1> QED BY <1>1, <1>8, <1>9

(* The journal and the account.                                            *)
LEMMA InstallRecords ==
  ASSUME InstIInv, NEW p \in Admins,
         InstallUndone(p) \/ InstallJournalOpen(p) \/ InstallJournalFill(p) \/ InstallAccount(p)
  PROVE  Kept(p)
<1> USE InstAssumption DEF InstIInv
<1>0. ProcsOK /\ HostTypeOK /\ HostOK
  BY DEF HostTypeOK
<1>1. CASE InstallUndone(p)
  <2>1. ProcsOK' /\ Alone(p) /\ Holds(p) /\ w'[p].at = "journal"
    BY <1>0, <1>1, ToFacts DEF InstallUndone
  <2>2. Filled(ji) /\ ji.of = w[p].rel /\ Absent /\ Stopped
    BY <1>1 DEF InstallUndone, StageOK, Installing
  <2>3. /\ UNCHANGED <<disk, made, ju, jx, up, enabled, live>> /\ ji' = NoJournal
        /\ account' = IF ji.made THEN "none" ELSE account
    BY <1>1 DEF InstallUndone
  <2>4. HostTypeOK'
    BY <1>0, <2>1, <2>3 DEF HostTypeOK, Journal, NoJournal, Contents, MaybeRelease
  <2>5. disk["manifest"] = "none"
    BY <2>2, ItemFacts DEF Absent
  <2>6. HostOK'
    BY <1>0, <2>2, <2>3, <2>5 DEF HostOK, StateHolds, TheirsOK, OursOK, InstallOwns, RemovalOwns,
         ManifestOwns, UpgradeOwns, Filled, Ours, Theirs, NoJournal
  <2>7. StageOK(p)'
    BY <2>1, <2>2, <2>3 DEF StageOK, Installing, Upgrading, Recovering, Uninstalling, Outcome,
         Chosen, At, UpgradePlaces, RollbackPlaces, Holds, Filled, Absent, Stopped
  <2> QED BY <2>1, <2>4, <2>6, <2>7 DEF Kept
<1>2. CASE InstallJournalOpen(p)
  <2>1. ProcsOK' /\ Alone(p) /\ Holds(p) /\ w'[p].at = "fill"
    BY <1>0, <1>2, ToFacts DEF InstallJournalOpen
  <2>2. ji = NoJournal /\ w[p].rel \in Releases /\ Absent /\ Stopped
    BY <1>2 DEF InstallJournalOpen, StageOK, Installing
  <2>3. /\ UNCHANGED <<disk, account, made, ju, jx, up, enabled, live>> /\ ji' = Torn
    BY <1>2 DEF InstallJournalOpen
  <2>4. HostTypeOK'
    BY <1>0, <2>1, <2>3 DEF HostTypeOK, Journal, Torn, Contents, MaybeRelease
  <2>5. disk["manifest"] = "none"
    BY <2>2, ItemFacts DEF Absent
  <2>6. HostOK'
    BY <1>0, <2>2, <2>3, <2>5 DEF HostOK, StateHolds, TheirsOK, OursOK, InstallOwns, RemovalOwns,
         ManifestOwns, UpgradeOwns, Filled, Ours, Theirs, NoJournal, Torn
  <2>7. Ours => ju # NoJournal
    BY <1>0, <2>2, <2>5 DEF HostOK, OursOK
  <2>8. StageOK(p)'
    BY <2>1, <2>2, <2>3, <2>7 DEF StageOK, Installing, Upgrading, Recovering, Uninstalling,
         Outcome, Chosen, At, UpgradePlaces, RollbackPlaces, Holds, Ours, Absent, Stopped
  <2> QED BY <2>1, <2>4, <2>6, <2>8 DEF Kept
<1>3. CASE InstallJournalFill(p)
  <2>1. ProcsOK' /\ Alone(p) /\ Holds(p) /\ w'[p].at = "useradd"
    BY <1>0, <1>3, ToFacts DEF InstallJournalFill
  <2>2. ji = Torn /\ w[p].rel \in Releases /\ Absent /\ Stopped /\ (Ours => ju # NoJournal)
    BY <1>3 DEF InstallJournalFill, StageOK, Installing
  <2>3. /\ UNCHANGED <<disk, account, made, ju, jx, up, enabled, live>>
        /\ ji' = [of |-> w[p].rel, made |-> account = "none"]
    BY <1>3 DEF InstallJournalFill
  <2>9. ji' \in [of : Releases, made : BOOLEAN] /\ ji'.of = w[p].rel
        /\ ji'.made = (account = "none")
    BY <2>2, <2>3
  <2>4. HostTypeOK'
    BY <1>0, <2>1, <2>3, <2>9 DEF HostTypeOK, Journal, Contents, MaybeRelease
  <2>5. disk["manifest"] = "none"
    BY <2>2, ItemFacts DEF Absent
  <2>6. HostOK'
    <3>1. ji' # NoJournal
      BY <2>2, <2>9 DEF NoJournal
    <3>2. UNCHANGED <<disk, account, made, ju, jx>>
      BY <2>3
    <3> QED BY <1>0, <2>2, <2>9, <2>5, <3>1, <3>2 DEF HostOK, StateHolds, TheirsOK, OursOK,
         InstallOwns, RemovalOwns, ManifestOwns, UpgradeOwns, Filled, Ours, Theirs
  <2>8. StageOK(p)'
    BY <2>1, <2>2, <2>3, <2>9 DEF StageOK, Installing, Upgrading, Recovering, Uninstalling,
         Outcome, Chosen, At, UpgradePlaces, RollbackPlaces, Holds, Filled, Absent, Stopped
  <2> QED BY <2>1, <2>4, <2>6, <2>8 DEF Kept
<1>4. CASE InstallAccount(p)
  <2>2. /\ Filled(ji) /\ ji.of = w[p].rel /\ Absent /\ Stopped /\ ji.made = (account = "none")
        /\ At(p, "useradd")
    BY <1>4 DEF InstallAccount, StageOK, Installing
  <2> DEFINE r == [w[p] EXCEPT !.at = "place", !.n = 1, !.mine = (account = "none")]
  <2>3. /\ UNCHANGED <<disk, made, ji, ju, jx, up, enabled, live>>
        /\ account' = IF account = "none" THEN "ours" ELSE account
        /\ w' = [w EXCEPT ![p] = r]
    BY <1>4 DEF InstallAccount
  <2>1. /\ ProcsOK' /\ Alone(p) /\ w'[p].at = "place" /\ w'[p].n = 1 /\ w'[p].rel = w[p].rel
        /\ w'[p].mine = (account = "none") /\ w'[p].cmd = w[p].cmd
    <3> DEFINE q == w[p]
               b == account = "none"
    <3>1. IsProcess(q) /\ b \in BOOLEAN
      BY <1>0 DEF ProcsOK
    <3>2. w'[p] = r
      BY <1>0, <2>3 DEF ProcsOK
    <3>6. r = [q EXCEPT !.at = "place", !.n = 1, !.mine = b]
      OBVIOUS
    <3> HIDE DEF r, q, b
    <3>7. r = [at |-> "place", cmd |-> q.cmd, rel |-> q.rel, n |-> 1, old |-> q.old,
               mine |-> b, fd |-> q.fd, out |-> q.out]
      BY <3>1, <3>6 DEF IsProcess
    <3>3. r = [at |-> "place", cmd |-> w[p].cmd, rel |-> w[p].rel, n |-> 1, old |-> w[p].old,
               mine |-> (account = "none"), fd |-> w[p].fd, out |-> w[p].out]
      BY <3>7 DEF q, b
    <3>4. IsProcess(r) /\ r.n \in Nat \ {0} /\ r.mine \in BOOLEAN
      BY <3>3 DEF IsProcess
    <3>5. ProcsOK' /\ Alone(p)
      BY <1>0, <2>3, <3>4, MoveFacts
    <3> QED BY <3>2, <3>3, <3>5
  <2>4. HostTypeOK'
    BY <1>0, <2>1, <2>3 DEF HostTypeOK, Contents, MaybeRelease
  <2>5. disk["manifest"] = "none"
    BY <2>2, ItemFacts DEF Absent
  <2>6. HostOK'
    <3>1. Theirs' = Theirs /\ ji # NoJournal /\ disk["manifest"] # "dir" /\ "none" \notin Releases
      BY <2>2, <2>3, <2>5 DEF Theirs, Filled, NoJournal
    <3>2. UNCHANGED <<disk, made, ji, ju, jx>>
      BY <2>3
    <3>3. InstallOwns'
      BY <1>0, <2>2, <2>3, <3>2 DEF HostOK, InstallOwns, Ours, Filled
    <3> QED BY <1>0, <2>5, <3>1, <3>2, <3>3 DEF HostOK, TheirsOK, OursOK, RemovalOwns,
               ManifestOwns, UpgradeOwns, StateHolds, Filled
  <2>7. /\ Stopped' /\ MineOK(p)' /\ WrittenTo(Placed, w[p].n, w[p].rel)' /\ jx' = NoRelease
        /\ w'[p].n \in 1 .. Len(Placed)
    <3>1. jx = NoRelease
      BY <1>0, <2>2, ItemFacts DEF HostOK, UpgradeOwns, Absent
    <3>2. MineOK(p)'
      BY <1>0, <2>1, <2>2, <2>3 DEF MineOK, HostOK, InstallOwns, Ours, Theirs, HostTypeOK
    <3> QED BY <2>1, <2>2, <2>3, <3>1, <3>2, ItemFacts DEF Stopped, WrittenTo
  <2>8. StageOK(p)'
    BY <2>1, <2>2, <2>3, <2>7 DEF StageOK, Installing, Upgrading, Recovering, Uninstalling,
         Outcome, Chosen, At, UpgradePlaces, RollbackPlaces, Filled
  <2> QED BY <2>1, <2>4, <2>6, <2>8 DEF Kept
<1> QED BY <1>1, <1>2, <1>3, <1>4

(* The files of the release come, the manifest last.                       *)
LEMMA InstallPlaces ==
  ASSUME InstIInv, NEW p \in Admins, InstallPlace(p) PROVE Kept(p)
<1> USE InstAssumption DEF InstIInv
<1>0. PICK n \in Nat \ {0} : n = w[p].n
  BY DEF HostTypeOK, ProcsOK
<1> DEFINE i == Placed[n]
           v == w[p].rel
<1>1. /\ Filled(ji) /\ ji.of = v /\ n \in 1 .. 11 /\ WrittenTo(Placed, n, v) /\ At(p, "place")
      /\ MineOK(p) /\ Stopped /\ jx = NoRelease /\ (n > 3 => disk["state"] = "dir")
      /\ HostTypeOK /\ ProcsOK /\ HostOK
  <2>1. HostTypeOK /\ ProcsOK /\ HostOK /\ StageOK(p) /\ At(p, "place")
    BY DEF InstallPlace, HostTypeOK
  <2>2. Installing(p) /\ w[p].at = "place"
    BY <2>1 DEF StageOK, At
  <2> QED BY <1>0, <2>1, <2>2, ItemFacts DEF Installing, At
<1>2. i \in Items /\ disk' = Put(i, v) /\ v \in Releases
  BY <1>0, <1>1, LoopItems DEF InstallPlace, Item, Filled
<1>3. disk' \in [Items -> Contents] /\ WrittenTo(Placed, n + 1, v)'
  <2>1. disk \in [Items -> Contents]
    BY <1>1 DEF HostTypeOK
  <2>2. PICK x \in Releases : x = v
    BY <1>2
  <2>3. disk' \in [Items -> Contents] /\ WrittenTo(Placed, n + 1, x)'
    BY <1>1, <1>2, <2>1, <2>2, WriteStep
  <2>4. w'[p].rel = v
    BY <1>1, OnwardFacts, ItemFacts DEF InstallPlace, Holds
  <2> QED BY <2>2, <2>3, <2>4
<1>4. /\ ProcsOK' /\ Alone(p) /\ Holds(p)
      /\ n < 11 => w'[p].at = "place" /\ w'[p].n = n + 1
      /\ n >= 11 => w'[p].at = "enable" /\ w'[p].n = 1
  <2>1. Goes(p, 11, "enable") /\ w[p].at = "place"
    BY <1>1, LoopFacts DEF InstallPlace, At
  <2> QED BY <1>0, <2>1 DEF Goes
<1>5. /\ UNCHANGED <<account, ji, ju, jx, up, enabled, live>>
      /\ made' = IF i = "manifest" THEN w[p].mine ELSE made
  BY <1>0 DEF InstallPlace, Item
<1>6. HostTypeOK'
  BY <1>0, <1>1, <1>3, <1>4, <1>5 DEF HostTypeOK, MaybeRelease, ProcsOK
<1>7. HostOK'
  <2>1. i # "manifest" => disk'["manifest"] = disk["manifest"]
    BY <1>1, <1>2, ItemFacts DEF Put, HostTypeOK
  <2>2. i = "manifest" => w[p].mine \in BOOLEAN
    BY <1>1 DEF ProcsOK
  <2>4. (i = "manifest" => n = 11) /\ (disk["state"] = "dir" => disk'["state"] = "dir")
    BY <1>1, <1>2, ItemFacts DEF Put, HostTypeOK, Placed, Dirs
  <2>3. ji # NoJournal
    BY <1>1 DEF Filled, NoJournal
  <2> QED BY <1>1, <1>5, <2>1, <2>2, <2>3, <2>4 DEF HostOK, StateHolds, TheirsOK, OursOK,
       InstallOwns, RemovalOwns, ManifestOwns, UpgradeOwns, Filled, Ours, Theirs, MineOK
<1>8. MineOK(p)'
  BY <1>1, <1>4, <1>5 DEF MineOK, Holds, Theirs
<1>11. n + 1 > 3 => disk'["state"] = "dir"
  BY <1>1, <1>2, ItemFacts DEF Put, HostTypeOK, Placed, Dirs
<1>9. CASE n < 11
  <2>1. w'[p].n \in 1 .. 11 /\ WrittenTo(Placed, w[p].n, w[p].rel)'
    BY <1>1, <1>3, <1>4, <1>9 DEF Holds
  <2>3. StageOK(p)'
    BY <1>1, <1>4, <1>5, <1>8, <1>9, <1>11, <2>1, ItemFacts DEF StageOK, Installing, Upgrading,
         Recovering, Uninstalling, Outcome, Chosen, At, UpgradePlaces, RollbackPlaces, Holds,
         Filled, Stopped
  <2> QED BY <1>4, <1>6, <1>7, <2>3 DEF Kept
<1>10. CASE n >= 11
  <2>0. n = 11 /\ i = "manifest"
    BY <1>1, <1>10 DEF Placed
  <2>1. Complete(w[p].rel)'
    <3>1. WrittenTo(Placed, 12, v)'
      BY <1>3, <2>0
    <3>2. PICK x : x = v
      OBVIOUS
    <3>3. w'[p].rel = x
      BY <1>4, <3>2 DEF Holds
    <3>4. WrittenTo(Placed, 12, x)'
      BY <3>1, <3>2, <3>3
    <3>5. Complete(x)'
      BY <3>4, AllWrittenNext
    <3> QED BY <3>3, <3>5
  <2>2. made' = w'[p].mine
    BY <1>4, <1>5, <2>0 DEF Holds
  <2>3. StageOK(p)'
    BY <1>1, <1>4, <1>5, <1>8, <1>10, <2>1, <2>2 DEF StageOK, Installing, Upgrading, Recovering,
         Uninstalling, Outcome, Chosen, At, UpgradePlaces, RollbackPlaces, Holds, Filled, Stopped
  <2> QED BY <1>4, <1>6, <1>7, <2>3 DEF Kept
<1> QED BY <1>1, <1>9, <1>10

(* Enabling serves the release that was placed; then the journal goes.     *)
LEMMA InstallServes ==
  ASSUME InstIInv, NEW p \in Admins, InstallEnable(p) \/ InstallReady(p)
  PROVE  Kept(p)
<1> USE InstAssumption DEF InstIInv
<1>0. ProcsOK /\ HostTypeOK /\ HostOK
  BY DEF HostTypeOK
<1>1. CASE InstallEnable(p)
  <2>1. ProcsOK' /\ Alone(p) /\ Holds(p) /\ w'[p].at = "ready"
    BY <1>0, <1>1, ToFacts DEF InstallEnable
  <2>2. /\ Filled(ji) /\ ji.of = w[p].rel /\ Complete(w[p].rel) /\ Stopped /\ made = w[p].mine
        /\ MineOK(p) /\ jx = NoRelease
    BY <1>1 DEF InstallEnable, StageOK, Installing, At
  <2>3. UNCHANGED <<disk, account, made, ji, ju, jx>> /\ Enable
    BY <1>1 DEF InstallEnable
  <2>4. /\ up' \in [Services -> MaybeRelease] /\ enabled' \in [Services -> BOOLEAN]
        /\ live' \in BOOLEAN
        /\ \A s \in Services : enabled'[s] /\ up'[s] = w[p].rel
    BY <1>0, <2>2, <2>3, EnableFacts DEF Filled
  <2>5. HostTypeOK'
    BY <1>0, <2>1, <2>3, <2>4 DEF HostTypeOK, Contents, MaybeRelease
  <2>6. HostOK'
    BY <1>0, <2>3, HostKept
  <2>7. MineOK(p)' /\ Complete(w[p].rel)'
    BY <2>1, <2>2, <2>3 DEF MineOK, Holds, Theirs, Complete
  <2>8. StageOK(p)'
    BY <2>1, <2>2, <2>3, <2>4, <2>7 DEF StageOK, Installing, Upgrading, Recovering, Uninstalling,
         Outcome, Chosen, At, UpgradePlaces, RollbackPlaces, Holds, Filled
  <2> QED BY <2>1, <2>5, <2>6, <2>8 DEF Kept
<1>2. CASE InstallReady(p)
  <2>1. ProcsOK' /\ Alone(p) /\ Holds(p) /\ w'[p].at = "unlink" /\ w'[p].out = "INSTALLED"
    BY <1>0, <1>2, EndFacts DEF InstallReady
  <2>2. /\ Filled(ji) /\ ji.of = w[p].rel /\ Complete(w[p].rel) /\ made = w[p].mine /\ MineOK(p)
        /\ \A s \in Services : enabled[s] /\ up[s] = w[p].rel
    BY <1>2 DEF InstallReady, StageOK, Installing, At
  <2>3. UNCHANGED <<disk, account, made, ju, jx, up, enabled, live>> /\ ji' = NoJournal
    BY <1>2 DEF InstallReady
  <2>5. HostTypeOK'
    BY <1>0, <2>1, <2>3 DEF HostTypeOK, Contents, MaybeRelease, Journal
  <2>6. HostOK'
    <3>1. disk["manifest"] # "none" /\ w[p].mine \in BOOLEAN
      BY <1>0, <2>2, ItemFacts DEF Complete, Filled, ProcsOK
    <3>2. Ours => ju # NoJournal \/ made
      BY <1>0, <2>2, <3>1 DEF MineOK, Theirs, Ours
    <3> QED BY <1>0, <2>2, <2>3, <3>1, <3>2 DEF HostOK, StateHolds, TheirsOK, OursOK, InstallOwns,
         RemovalOwns, ManifestOwns, UpgradeOwns, Filled, Ours, Theirs, NoJournal
  <2>7. Outcome(p)'
    BY <2>1, <2>2, <2>3 DEF Outcome, Holds, Complete
  <2> QED BY <2>1, <2>5, <2>6, <2>7, EndsOK DEF Kept
<1> QED BY <1>1, <1>2

(* A failed installation is taken back as far as it got.                   *)
LEMMA InstallCleans ==
  ASSUME InstIInv, NEW p \in Admins, InstallCleanup(p) \/ InstallCleaned(p)
  PROVE  Kept(p)
<1> USE InstAssumption DEF InstIInv
<1>0. ProcsOK /\ HostTypeOK /\ HostOK
  BY DEF HostTypeOK
<1>1. CASE InstallCleanup(p)
  <2>0. PICK n \in Nat \ {0} : n = w[p].n
    BY <1>0 DEF ProcsOK
  <2>1. /\ Filled(ji) /\ ji.of = w[p].rel /\ n \in 1 .. 7 /\ At(p, "cleanup") /\ MineOK(p)
        /\ jx = NoRelease
    BY <2>0, <1>1, ItemFacts DEF InstallCleanup, StageOK, Installing, At
  <2>2. Created[n] \in Items /\ (disk' = Erase(Created[n]) \/ disk' = disk)
    BY <1>1, <2>0, <2>1, LoopItems DEF InstallCleanup, Item
  <2>3. /\ disk' \in [Items -> Contents] /\ disk'["manifest"] \in {disk["manifest"], "none"}
        /\ disk'["state"] = disk["state"] \/ disk'["manifest"] = "none"
    <3>1. "state" \notin Inside(Created[n]) /\ "manifest" \in Inside("state")
      BY DEF Inside
    <3> QED BY <1>0, <2>2, <3>1, Erasing, ItemFacts DEF HostTypeOK
  <2>4. /\ ProcsOK' /\ Alone(p) /\ Holds(p)
        /\ n < 7 => w'[p].at = "cleanup" /\ w'[p].n = n + 1
        /\ n >= 7 => w'[p].at = "cleaned" /\ w'[p].n = 1
    <3>1. Goes(p, 7, "cleaned") /\ w[p].at = "cleanup"
      BY <1>0, <1>1, LoopFacts DEF InstallCleanup, At
    <3> QED BY <2>0, <3>1 DEF Goes
  <2>5. /\ UNCHANGED <<account, made, ji, ju, jx, live>>
        /\ up' \in [Services -> MaybeRelease] /\ enabled' \in [Services -> BOOLEAN]
    BY <1>1, DisableFacts DEF InstallCleanup
  <2>6. HostTypeOK'
    BY <1>0, <2>3, <2>4, <2>5 DEF HostTypeOK, MaybeRelease
  <2>7. HostOK'
    <3>1. ji # NoJournal /\ "none" \notin Releases
      BY <2>1 DEF Filled, NoJournal
    <3> QED BY <1>0, <2>1, <2>3, <2>5, <3>1 DEF HostOK, StateHolds, TheirsOK, OursOK, InstallOwns,
         RemovalOwns, ManifestOwns, UpgradeOwns, Filled, Ours, Theirs
  <2>8. MineOK(p)'
    BY <2>1, <2>4, <2>5 DEF MineOK, Holds, Theirs
  <2>9. (w'[p].at = "cleanup" /\ w'[p].n \in 1 .. 7) \/ w'[p].at = "cleaned"
    BY <2>1, <2>4
  <2>10. StageOK(p)'
    BY <2>1, <2>4, <2>5, <2>8, <2>9, ItemFacts DEF StageOK, Installing, Upgrading, Recovering,
         Uninstalling, Outcome, Chosen, At, UpgradePlaces, RollbackPlaces, Holds, Filled
  <2> QED BY <2>4, <2>6, <2>7, <2>10 DEF Kept
<1>2. CASE InstallCleaned(p)
  <2>1. ProcsOK' /\ Alone(p) /\ Raise(p) /\ w'[p].at = "unlink" /\ w'[p].out = "RAISED"
    BY <1>0, <1>2, EndFacts DEF InstallCleaned
  <2>2. Filled(ji) /\ MineOK(p) /\ w[p].mine \in BOOLEAN
    BY <1>0, <1>2 DEF InstallCleaned, StageOK, Installing, At, ProcsOK
  <2>3. /\ UNCHANGED <<disk, made, ju, jx, up, enabled, live>>
        /\ account' = (IF w[p].mine THEN "none" ELSE account)
        /\ ji' = IF Absent THEN NoJournal ELSE ji
    BY <1>2 DEF InstallCleaned
  <2>4. HostTypeOK'
    BY <1>0, <2>1, <2>3 DEF HostTypeOK, Contents, MaybeRelease, Journal
  <2>5. Theirs' = Theirs /\ (Ours' => Ours /\ ju # NoJournal)
    BY <2>2, <2>3 DEF MineOK, Theirs, Ours
  <2>6. HostOK'
    <3>1. ji # NoJournal /\ "none" \notin Releases /\ ~NoJournal.made
          /\ NoJournal.of \notin Releases
      BY <2>2 DEF Filled, NoJournal
    <3>2. UNCHANGED <<disk, made, ju, jx>> /\ ji' \in {NoJournal, ji}
      BY <2>3
    <3>3. UNCHANGED <<disk["manifest"], disk["state"]>>
      BY <3>2
    <3> QED BY <1>0, <2>2, <2>5, <3>1, <3>2, <3>3 DEF HostOK, TheirsOK, OursOK, InstallOwns,
               RemovalOwns, ManifestOwns, UpgradeOwns, StateHolds, Filled
  <2>7. Outcome(p)'
    BY <2>1 DEF Outcome
  <2> QED BY <2>1, <2>4, <2>6, <2>7, EndsOK DEF Kept
<1> QED BY <1>1, <1>2

-----------------------------------------------------------------------------
(* An upgrade.                                                             *)
LEMMA UpgradeBegins ==
  ASSUME InstIInv, NEW p \in Admins, UpgradeBegin(p) \/ UpgradeSnapshot(p)
  PROVE  Kept(p)
<1> USE InstAssumption DEF InstIInv
<1>0. ProcsOK /\ HostTypeOK /\ HostOK
  BY DEF HostTypeOK
<1>1. CASE UpgradeBegin(p) /\ ~(jx = NoRelease /\ Whole)
  BY <1>1, Stops DEF UpgradeBegin, host
<1>2. CASE UpgradeBegin(p) /\ jx = NoRelease /\ Whole
  <2>1. ProcsOK' /\ Alone(p) /\ Holds(p) /\ w'[p].at = "snapshot"
    BY <1>0, <1>2, ToFacts DEF UpgradeBegin
  <2>2. w[p].rel \in Releases
    BY <1>2 DEF UpgradeBegin, StageOK, Chosen, At
  <2>3. UNCHANGED <<disk, account, made, ji, ju, jx>> /\ Enable
    BY <1>2 DEF UpgradeBegin
  <2>4. up' \in [Services -> MaybeRelease] /\ enabled' \in [Services -> BOOLEAN]
        /\ live' \in BOOLEAN
    BY <1>0, <2>3, EnableFacts
  <2>5. HostTypeOK'
    BY <1>0, <2>1, <2>3, <2>4 DEF HostTypeOK, Contents, MaybeRelease
  <2>6. HostOK'
    BY <1>0, <2>3, HostKept
  <2>7. Whole'
    BY <1>2, <2>3 DEF Whole, Complete
  <2>8. StageOK(p)'
    BY <2>1, <2>2, <2>7 DEF StageOK, Installing, Upgrading, Recovering, Uninstalling, Outcome,
         Chosen, At, UpgradePlaces, RollbackPlaces, Holds
  <2> QED BY <2>1, <2>5, <2>6, <2>8 DEF Kept
<1>3. CASE UpgradeSnapshot(p) /\ ~Healthy(disk["manifest"])
  BY <1>3, Stops DEF UpgradeSnapshot, host
<1>4. CASE UpgradeSnapshot(p) /\ Healthy(disk["manifest"])
  <2> DEFINE m == disk["manifest"]
  <2>1. At(p, "snapshot") /\ w[p].rel \in Releases /\ m \in Releases
    BY <1>4, ItemFacts DEF UpgradeSnapshot, StageOK, Upgrading, UpgradePlaces, At, Whole, Complete
  <2>2. /\ UNCHANGED <<disk, account, made, ji, ju, up, enabled, live>> /\ jx' = m
        /\ w' = [w EXCEPT ![p].at = "drain", ![p].old = m]
    BY <1>4 DEF UpgradeSnapshot
  <2>3. w'[p] = [at |-> "drain", cmd |-> w[p].cmd, rel |-> w[p].rel, n |-> w[p].n, old |-> m,
                 mine |-> w[p].mine, fd |-> w[p].fd, out |-> w[p].out]
    <3> DEFINE q == w[p]
    <3>1. IsProcess(q) /\ w'[p] = [q EXCEPT !.at = "drain", !.old = m]
      BY <1>0, <2>2 DEF ProcsOK
    <3> HIDE DEF q
    <3>2. w'[p] = [at |-> "drain", cmd |-> q.cmd, rel |-> q.rel, n |-> q.n, old |-> m,
                   mine |-> q.mine, fd |-> q.fd, out |-> q.out]
      BY <3>1 DEF IsProcess
    <3> QED BY <3>2 DEF q
  <2>4. ProcsOK' /\ Alone(p)
    <3>1. DOMAIN w' = Admins /\ Alone(p)
      BY <1>0, <2>2 DEF ProcsOK, Alone
    <3>2. IsProcess(w'[p]) /\ w'[p].n \in Nat \ {0} /\ w'[p].mine \in BOOLEAN
      BY <1>0, <2>3 DEF ProcsOK, IsProcess
    <3> QED BY <1>0, <3>1, <3>2, OthersStay
  <2>5. w'[p].at = "drain" /\ w'[p].rel = w[p].rel /\ w'[p].old = m /\ w'[p].cmd = w[p].cmd
    BY <2>3
  <2>6. HostTypeOK'
    BY <1>0, <2>1, <2>2, <2>4 DEF HostTypeOK, MaybeRelease, Contents
  <2>7. HostOK'
    BY <1>0, <2>1, <2>2 DEF HostOK, StateHolds, TheirsOK, OursOK, InstallOwns, RemovalOwns,
         ManifestOwns, UpgradeOwns, Filled, Ours, Theirs
  <2>8. StageOK(p)'
    BY <2>1, <2>2, <2>5 DEF StageOK, Installing, Upgrading, Recovering, Uninstalling, Outcome,
         Chosen, At, UpgradePlaces, RollbackPlaces
  <2> QED BY <2>4, <2>6, <2>7, <2>8 DEF Kept
<1> QED BY <1>1, <1>2, <1>3, <1>4

(* The services are stopped, one after the other.                          *)
LEMMA UpgradeStops ==
  ASSUME InstIInv, NEW p \in Admins, UpgradeDrain(p) \/ UpgradeHalt(p) \/ Rollback(p)
  PROVE  Kept(p)
<1> USE InstAssumption DEF InstIInv
<1>0. ProcsOK /\ HostTypeOK /\ HostOK
  BY DEF HostTypeOK
<1>1. CASE UpgradeDrain(p)
  <2>1. /\ ProcsOK' /\ Alone(p) /\ Holds(p) /\ w'[p].at = "halt" /\ w'[p].n = 1
        /\ w'[p].old = w[p].old
    BY <1>0, <1>1, ToFacts DEF UpgradeDrain
  <2>2. w[p].rel \in Releases /\ w[p].old \in Releases /\ jx # NoRelease
    BY <1>1 DEF UpgradeDrain, StageOK, Upgrading, UpgradePlaces, RollbackPlaces, At
  <2>3. UNCHANGED <<disk, account, made, ji, ju, jx, up, enabled>> /\ live' \in BOOLEAN
    BY <1>1 DEF UpgradeDrain
  <2>4. HostTypeOK'
    BY <1>0, <2>1, <2>3 DEF HostTypeOK, Contents, MaybeRelease
  <2>5. HostOK'
    BY <1>0, <2>3, HostKept
  <2>6. StoppedTo(w[p].n)'
    BY <2>1 DEF StoppedTo
  <2>7. StageOK(p)'
    BY <2>1, <2>2, <2>3, <2>6 DEF StageOK, Installing, Upgrading, Recovering, Uninstalling,
         Outcome, Chosen, At, UpgradePlaces, RollbackPlaces, Holds
  <2> QED BY <2>1, <2>4, <2>5, <2>7 DEF Kept
<1>2. ASSUME NEW l \in {"replace", "restore"}, Halt(p, FALSE, l), StoppedTo(w[p].n),
             UNCHANGED <<disk, account, made, ji, ju, jx, live>>
      PROVE  /\ HostTypeOK' /\ HostOK' /\ Alone(p) /\ Holds(p) /\ w'[p].old = w[p].old
             /\ \/ w'[p].at = w[p].at /\ StoppedTo(w[p].n)'
                \/ w'[p].at = l /\ w'[p].n = 1 /\ Stopped'
  <2>0. FALSE \in BOOLEAN
    OBVIOUS
  <2>1. /\ up' \in [Services -> MaybeRelease] /\ enabled' \in [Services -> BOOLEAN]
        /\ ProcsOK' /\ Alone(p) /\ Holds(p) /\ w'[p].old = w[p].old
        /\ \/ w'[p].at = w[p].at /\ StoppedTo(w[p].n)'
           \/ w'[p].at = l /\ w'[p].n = 1 /\ Stopped'
    BY <1>0, <1>2, <2>0, HaltFacts
  <2>2. HostTypeOK'
    BY <1>0, <1>2, <2>1 DEF HostTypeOK, Contents, MaybeRelease
  <2>3. HostOK'
    BY <1>0, <1>2, HostKept
  <2> QED BY <2>1, <2>2, <2>3
<1>3. CASE UpgradeHalt(p)
  <2>1. /\ w[p].rel \in Releases /\ w[p].old \in Releases /\ jx # NoRelease /\ StoppedTo(w[p].n)
        /\ w[p].at = "halt"
    BY <1>3 DEF UpgradeHalt, StageOK, Upgrading, UpgradePlaces, RollbackPlaces, At
  <2>2. Halt(p, FALSE, "replace") /\ UNCHANGED <<disk, account, made, ji, ju, jx, live>>
    BY <1>3 DEF UpgradeHalt
  <2>3. /\ HostTypeOK' /\ HostOK' /\ Alone(p) /\ Holds(p) /\ w'[p].old = w[p].old
        /\ \/ w'[p].at = w[p].at /\ StoppedTo(w[p].n)'
           \/ w'[p].at = "replace" /\ w'[p].n = 1 /\ Stopped'
    BY <1>2, <2>1, <2>2
  <2>4. CASE w'[p].at = "halt" /\ StoppedTo(w[p].n)'
    <3>1. StageOK(p)'
      BY <2>1, <2>2, <2>3, <2>4 DEF StageOK, Installing, Upgrading, Recovering, Uninstalling,
           Outcome, Chosen, At, UpgradePlaces, RollbackPlaces, Holds
    <3> QED BY <2>3, <3>1 DEF Kept
  <2>5. CASE w'[p].at = "replace" /\ w'[p].n = 1 /\ Stopped'
    <3>1. w'[p].n \in 1 .. Len(Replaced) /\ WrittenTo(Replaced, w[p].n, w[p].rel)'
      BY <2>5, ItemFacts DEF WrittenTo
    <3>2. StageOK(p)'
      BY <2>1, <2>2, <2>3, <2>5, <3>1 DEF StageOK, Installing, Upgrading, Recovering,
           Uninstalling, Outcome, Chosen, At, UpgradePlaces, RollbackPlaces, Holds
    <3> QED BY <2>3, <3>2 DEF Kept
  <2> QED BY <2>1, <2>3, <2>4, <2>5
<1>4. CASE Rollback(p)
  <2>1. /\ w[p].old \in Releases /\ (jx # NoRelease \/ disk["manifest"] \in Releases)
        /\ StoppedTo(w[p].n) /\ w[p].at = "rollback"
    BY <1>4 DEF Rollback, StageOK, Upgrading, Recovering, UpgradePlaces, RollbackPlaces, At
  <2>2. Halt(p, FALSE, "restore") /\ UNCHANGED <<disk, account, made, ji, ju, jx, live>>
    BY <1>4 DEF Rollback
  <2>3. /\ HostTypeOK' /\ HostOK' /\ Alone(p) /\ Holds(p) /\ w'[p].old = w[p].old
        /\ \/ w'[p].at = w[p].at /\ StoppedTo(w[p].n)'
           \/ w'[p].at = "restore" /\ w'[p].n = 1 /\ Stopped'
    BY <1>2, <2>1, <2>2
  <2>4. CASE w'[p].at = "rollback" /\ StoppedTo(w[p].n)'
    <3>1. StageOK(p)'
      BY <2>1, <2>2, <2>3, <2>4 DEF StageOK, Installing, Upgrading, Recovering, Uninstalling,
           Outcome, Chosen, At, UpgradePlaces, RollbackPlaces, Holds
    <3> QED BY <2>3, <3>1 DEF Kept
  <2>5. CASE w'[p].at = "restore" /\ w'[p].n = 1 /\ Stopped'
    <3>1. w'[p].n \in 1 .. Len(Restored) /\ WrittenTo(Restored, w[p].n, w[p].old)'
      BY <2>5, ItemFacts DEF WrittenTo
    <3>2. StageOK(p)'
      BY <2>1, <2>2, <2>3, <2>5, <3>1 DEF StageOK, Installing, Upgrading, Recovering,
           Uninstalling, Outcome, Chosen, At, UpgradePlaces, RollbackPlaces, Holds
    <3> QED BY <2>3, <3>2 DEF Kept
  <2> QED BY <2>1, <2>3, <2>4, <2>5
<1> QED BY <1>1, <1>3, <1>4

(* The files of the release, or of the one before it, are written.         *)
LEMMA PutFacts ==
  ASSUME HostTypeOK, HostOK, NEW v \in Releases, NEW i \in Files \cup {"records"},
         disk' = Put(i, v),
         jx # NoRelease \/ disk["manifest"] \in Releases,
         UNCHANGED <<account, made, ji, ju, jx, up, enabled, live>>, ProcsOK'
  PROVE  HostTypeOK' /\ HostOK' /\ (jx # NoRelease \/ disk'["manifest"] \in Releases)
<1> USE InstAssumption
<1>1. disk' \in [Items -> Contents] /\ i \in Items /\ i \notin Dirs
  BY ItemFacts DEF Put, HostTypeOK, Contents, Dirs
<1>2. disk'["manifest"] \in {disk["manifest"], v} /\ disk'["state"] = disk["state"]
  BY <1>1, ItemFacts DEF Put, HostTypeOK, Dirs
<1>3. HostTypeOK'
  BY <1>1 DEF HostTypeOK, MaybeRelease
<1>4. HostOK'
  BY <1>2 DEF HostOK, StateHolds, TheirsOK, OursOK, InstallOwns, RemovalOwns, ManifestOwns,
       UpgradeOwns, Filled, Ours, Theirs
<1> QED BY <1>2, <1>3, <1>4

(* The files of the new release come, under the journal.                   *)
LEMMA UpgradeReplaces ==
  ASSUME InstIInv, NEW p \in Admins, UpgradeReplace(p) PROVE Kept(p)
<1> USE InstAssumption DEF InstIInv
<1>0. PICK n \in Nat \ {0} : n = w[p].n
  BY DEF HostTypeOK, ProcsOK
<1>1. /\ HostTypeOK /\ ProcsOK /\ HostOK /\ At(p, "replace") /\ w[p].rel \in Releases
      /\ n \in 1 .. 9 /\ WrittenTo(Replaced, n, w[p].rel) /\ Stopped
      /\ jx # NoRelease /\ w[p].old \in Releases
  BY <1>0, ItemFacts DEF UpgradeReplace, HostTypeOK, StageOK, Upgrading, UpgradePlaces,
     RollbackPlaces, At
<1>2. PICK v \in Releases : v = w[p].rel
  BY <1>1
<1>3. /\ Replaced[n] \in Files \cup {"records"} /\ disk' = Put(Replaced[n], v)
      /\ UNCHANGED <<account, made, ji, ju, jx, up, enabled, live>>
  BY <1>0, <1>1, <1>2, LoopItems DEF UpgradeReplace, Item, host
<1>4. /\ ProcsOK' /\ Alone(p) /\ Holds(p) /\ w'[p].old = w[p].old
      /\ n < 9 => w'[p].at = "replace" /\ w'[p].n = n + 1
      /\ n >= 9 => w'[p].at = "activate" /\ w'[p].n = 1
  <2>1. Goes(p, 9, "activate") /\ w[p].at = "replace"
    BY <1>1, LoopFacts DEF UpgradeReplace, At
  <2> QED BY <1>0, <2>1 DEF Goes
<1>5. HostTypeOK' /\ HostOK'
  BY <1>1, <1>3, <1>4, PutFacts
<1>6. WrittenTo(Replaced, n + 1, v)'
  <2>1. disk \in [Items -> Contents] /\ WrittenTo(Replaced, n, v) /\ Replaced[n] \in Items
    BY <1>1, <1>2, <1>3, ItemFacts DEF HostTypeOK
  <2> QED BY <1>3, <2>1, WriteStep
<1>7. w'[p].rel = v
  BY <1>2, <1>4 DEF Holds
<1>8. CASE n < 9
  <2>1. w'[p].n \in 1 .. Len(Replaced) /\ WrittenTo(Replaced, w[p].n, w[p].rel)'
    BY <1>1, <1>4, <1>6, <1>7, <1>8, ItemFacts
  <2>2. StageOK(p)'
    BY <1>1, <1>3, <1>4, <1>7, <1>8, <2>1 DEF StageOK, Installing, Upgrading, Recovering,
         Uninstalling, Outcome, Chosen, At, UpgradePlaces, RollbackPlaces, Stopped
  <2> QED BY <1>4, <1>5, <2>2 DEF Kept
<1>9. CASE n >= 9
  <2>1. Complete(w[p].rel)'
    <3>1. WrittenTo(Replaced, 10, v)'
      BY <1>1, <1>6, <1>9
    <3>2. Complete(v)'
      BY <3>1, AllWrittenNext
    <3> QED BY <1>7, <3>2
  <2>2. StageOK(p)'
    BY <1>1, <1>3, <1>4, <1>7, <1>9, <2>1 DEF StageOK, Installing, Upgrading, Recovering,
         Uninstalling, Outcome, Chosen, At, UpgradePlaces, RollbackPlaces, Stopped
  <2> QED BY <1>4, <1>5, <2>2 DEF Kept
<1> QED BY <1>1, <1>8, <1>9

(* The files of the old release come back.                                 *)
LEMMA RollbackRestores ==
  ASSUME InstIInv, NEW p \in Admins, RollbackRestore(p) PROVE Kept(p)
<1> USE InstAssumption DEF InstIInv
<1>0. PICK n \in Nat \ {0} : n = w[p].n
  BY DEF HostTypeOK, ProcsOK
<1>1. /\ HostTypeOK /\ ProcsOK /\ HostOK /\ At(p, "restore") /\ w[p].old \in Releases
      /\ n \in 1 .. 9 /\ WrittenTo(Restored, n, w[p].old) /\ Stopped
      /\ jx # NoRelease \/ disk["manifest"] \in Releases
  BY <1>0, ItemFacts DEF RollbackRestore, HostTypeOK, StageOK, Upgrading, Recovering, UpgradePlaces,
                         RollbackPlaces, At
<1>2. PICK v \in Releases : v = w[p].old
  BY <1>1
<1>3. /\ Restored[n] \in Files \cup {"records"} /\ disk' = Put(Restored[n], v)
      /\ UNCHANGED <<account, made, ji, ju, jx, up, enabled, live>>
  BY <1>0, <1>1, <1>2, LoopItems DEF RollbackRestore, Item, host
<1>4. /\ ProcsOK' /\ Alone(p) /\ Holds(p) /\ w'[p].old = w[p].old
      /\ n < 9 => w'[p].at = "restore" /\ w'[p].n = n + 1
      /\ n >= 9 => w'[p].at = "restart" /\ w'[p].n = 1
  <2>1. Goes(p, 9, "restart") /\ w[p].at = "restore"
    BY <1>1, LoopFacts DEF RollbackRestore, At
  <2> QED BY <1>0, <2>1 DEF Goes
<1>5. HostTypeOK' /\ HostOK' /\ (jx # NoRelease \/ disk'["manifest"] \in Releases)
  BY <1>1, <1>3, <1>4, PutFacts
<1>6. WrittenTo(Restored, n + 1, v)'
  <2>1. disk \in [Items -> Contents] /\ WrittenTo(Restored, n, v) /\ Restored[n] \in Items
    BY <1>1, <1>2, <1>3, ItemFacts DEF HostTypeOK
  <2> QED BY <1>3, <2>1, WriteStep
<1>7. w'[p].old = v
  BY <1>2, <1>4
<1>8. CASE n < 9
  <2>1. w'[p].n \in 1 .. Len(Restored) /\ WrittenTo(Restored, w[p].n, w[p].old)'
    BY <1>1, <1>4, <1>6, <1>7, <1>8, ItemFacts
  <2>2. StageOK(p)'
    BY <1>1, <1>3, <1>4, <1>5, <1>7, <1>8, <2>1 DEF StageOK, Installing, Upgrading, Recovering,
         Uninstalling, Outcome, Chosen, At, UpgradePlaces, RollbackPlaces, Stopped
  <2> QED BY <1>4, <1>5, <2>2 DEF Kept
<1>9. CASE n >= 9
  <2>1. Complete(w[p].old)'
    <3>1. WrittenTo(Restored, 10, v)'
      BY <1>1, <1>6, <1>9
    <3>2. Complete(v)'
      BY <3>1, AllWrittenNext
    <3> QED BY <1>7, <3>2
  <2>2. StageOK(p)'
    BY <1>1, <1>3, <1>4, <1>5, <1>7, <1>9, <2>1 DEF StageOK, Installing, Upgrading, Recovering,
         Uninstalling, Outcome, Chosen, At, UpgradePlaces, RollbackPlaces, Stopped
  <2> QED BY <1>4, <1>5, <2>2 DEF Kept
<1> QED BY <1>1, <1>8, <1>9

(* The new release is served, and the journal goes.                        *)
LEMMA UpgradeEnds ==
  ASSUME InstIInv, NEW p \in Admins, UpgradeActivate(p) \/ UpgradeCommit(p) \/ UpgradeFinal(p)
  PROVE  Kept(p)
<1> USE InstAssumption DEF InstIInv
<1>0. ProcsOK /\ HostTypeOK /\ HostOK
  BY DEF HostTypeOK
<1>1. CASE UpgradeActivate(p)
  <2>1. /\ ProcsOK' /\ Alone(p) /\ Holds(p) /\ w'[p].at = "transitional"
        /\ w'[p].old = w[p].old
    BY <1>0, <1>1, ToFacts DEF UpgradeActivate
  <2>2. /\ w[p].rel \in Releases /\ w[p].old \in Releases /\ jx # NoRelease
        /\ Complete(w[p].rel) /\ Stopped
    BY <1>1 DEF UpgradeActivate, StageOK, Upgrading, UpgradePlaces, RollbackPlaces, At
  <2>3. UNCHANGED <<disk, account, made, ji, ju, jx>> /\ Enable
    BY <1>1 DEF UpgradeActivate
  <2>4. /\ up' \in [Services -> MaybeRelease] /\ enabled' \in [Services -> BOOLEAN]
        /\ live' \in BOOLEAN
        /\ \A s \in Services : up'[s] = w[p].rel
    BY <1>0, <2>2, <2>3, EnableFacts
  <2>5. HostTypeOK'
    BY <1>0, <2>1, <2>3, <2>4 DEF HostTypeOK, Contents, MaybeRelease
  <2>6. HostOK'
    BY <1>0, <2>3, HostKept
  <2>7. Complete(w[p].rel)' /\ Serves(w[p].rel)'
    BY <2>1, <2>2, <2>3, <2>4 DEF Complete, Serves, Holds
  <2>8. StageOK(p)'
    BY <2>1, <2>2, <2>3, <2>7 DEF StageOK, Installing, Upgrading, Recovering, Uninstalling,
         Outcome, Chosen, At, UpgradePlaces, RollbackPlaces, Holds
  <2> QED BY <2>1, <2>5, <2>6, <2>8 DEF Kept
<1>2. CASE UpgradeCommit(p)
  <2>1. /\ w[p].rel \in Releases /\ w[p].old \in Releases /\ jx # NoRelease
        /\ Complete(w[p].rel) /\ Serves(w[p].rel)
    BY <1>2 DEF UpgradeCommit, StageOK, Upgrading, UpgradePlaces, RollbackPlaces, At
  <2>2. UNCHANGED <<disk, account, made, ji, ju, up, enabled, live>> /\ jx' \in {jx, NoRelease}
    BY <1>2 DEF UpgradeCommit
  <2>3. HostOK'
    BY <1>0, <2>2 DEF HostOK, StateHolds, TheirsOK, OursOK, InstallOwns, RemovalOwns,
         ManifestOwns, UpgradeOwns, Filled, Ours, Theirs
  <2>4. CASE jx' = NoRelease /\ To(p, "final")
    <3>1. /\ ProcsOK' /\ Alone(p) /\ Holds(p) /\ w'[p].at = "final" /\ w'[p].old = w[p].old
      BY <1>0, <2>4, ToFacts
    <3>2. HostTypeOK'
      BY <1>0, <2>2, <3>1 DEF HostTypeOK, Contents, MaybeRelease
    <3>3. Complete(w[p].rel)' /\ Serves(w[p].rel)'
      BY <2>1, <2>2, <3>1 DEF Complete, Serves, Holds
    <3>4. StageOK(p)'
      BY <2>1, <2>4, <3>1, <3>3 DEF StageOK, Installing, Upgrading, Recovering, Uninstalling,
           Outcome, Chosen, At, UpgradePlaces, RollbackPlaces, Holds
    <3> QED BY <2>3, <3>1, <3>2, <3>4 DEF Kept
  <2>5. CASE jx' = jx /\ To(p, "rollback")
    <3>1. /\ ProcsOK' /\ Alone(p) /\ Holds(p) /\ w'[p].at = "rollback" /\ w'[p].n = 1
          /\ w'[p].old = w[p].old
      BY <1>0, <2>5, ToFacts
    <3>2. HostTypeOK'
      BY <1>0, <2>2, <3>1 DEF HostTypeOK, Contents, MaybeRelease
    <3>3. StoppedTo(w[p].n)'
      BY <3>1 DEF StoppedTo
    <3>4. StageOK(p)'
      BY <2>1, <2>5, <3>1, <3>3 DEF StageOK, Installing, Upgrading, Recovering, Uninstalling,
           Outcome, Chosen, At, UpgradePlaces, RollbackPlaces, Holds
    <3> QED BY <2>3, <3>1, <3>2, <3>4 DEF Kept
  <2> QED BY <1>2, <2>4, <2>5 DEF UpgradeCommit
<1>3. CASE UpgradeFinal(p)
  <2>1. /\ w[p].rel \in Releases /\ w[p].old \in Releases /\ jx = NoRelease
        /\ Complete(w[p].rel) /\ Serves(w[p].rel)
    BY <1>3 DEF UpgradeFinal, StageOK, Upgrading, UpgradePlaces, RollbackPlaces, At
  <2>2. disk["manifest"] = w[p].rel
    BY <2>1, ItemFacts DEF Complete
  <2>3. UNCHANGED <<disk, host>>
    BY <1>3 DEF UpgradeFinal
  <2>4. CASE Healthy(w[p].rel) /\ Succeed(p, "UPGRADED")
    <3>1. ProcsOK' /\ Alone(p) /\ w'[p].at = "unlink" /\ w'[p].out = "UPGRADED"
      BY <1>0, <2>4, EndFacts
    <3>2. HostTypeOK' /\ HostOK'
      BY <2>3, <3>1, HostStays DEF host
    <3>3. \A s \in Services : up[s] = disk["manifest"]
      BY <2>1, <2>2, <2>4 DEF Healthy, Serves, Services
    <3>4. Whole
      BY <2>1 DEF Whole
    <3>5. Outcome(p)'
      BY <2>1, <2>3, <3>1, <3>3, <3>4 DEF Outcome, host, Whole, Complete
    <3> QED BY <3>1, <3>2, <3>5, EndsOK DEF Kept
  <2>5. CASE To(p, "rollback")
    <3>1. /\ HostTypeOK' /\ HostOK' /\ Alone(p) /\ Holds(p)
          /\ w'[p].at = "rollback" /\ w'[p].n = 1 /\ w'[p].old = w[p].old
      BY <2>3, <2>5, Stands
    <3>2. StoppedTo(w[p].n)'
      BY <3>1 DEF StoppedTo
    <3>3. disk'["manifest"] \in Releases
      BY <2>1, <2>2, <2>3
    <3>4. StageOK(p)'
      BY <2>1, <3>1, <3>2, <3>3 DEF StageOK, Installing, Upgrading, Recovering, Uninstalling,
           Outcome, Chosen, At, UpgradePlaces, RollbackPlaces, Holds
    <3> QED BY <3>1, <3>4 DEF Kept
  <2> QED BY <1>3, <2>4, <2>5 DEF UpgradeFinal
<1> QED BY <1>1, <1>2, <1>3

-----------------------------------------------------------------------------
(* The recovery of an upgrade.                                             *)
LEMMA RecoverBegins ==
  ASSUME InstIInv, NEW p \in Admins, RecoverBegin(p) PROVE Kept(p)
<1> USE InstAssumption DEF InstIInv
<1>0. ProcsOK /\ HostTypeOK /\ HostOK
  BY DEF HostTypeOK
<1>1. CASE jx = NoRelease
  BY <1>1, Stops DEF RecoverBegin
<1>2. CASE jx # NoRelease
  <2>1. w' = [w EXCEPT ![p].at = "rollback", ![p].n = 1, ![p].old = jx] /\ UNCHANGED <<disk, host>>
    BY <1>2 DEF RecoverBegin
  <2>2. jx \in Releases
    BY <1>0, <1>2 DEF HostTypeOK, MaybeRelease
  <2>3. w'[p] = [at |-> "rollback", cmd |-> w[p].cmd, rel |-> w[p].rel, n |-> 1, old |-> jx,
                 mine |-> w[p].mine, fd |-> w[p].fd, out |-> w[p].out]
    <3> DEFINE q == w[p]
    <3>1. IsProcess(q) /\ w'[p] = [q EXCEPT !.at = "rollback", !.n = 1, !.old = jx]
      BY <1>0, <2>1 DEF ProcsOK
    <3> HIDE DEF q
    <3>2. w'[p] = [at |-> "rollback", cmd |-> q.cmd, rel |-> q.rel, n |-> 1, old |-> jx,
                   mine |-> q.mine, fd |-> q.fd, out |-> q.out]
      BY <3>1 DEF IsProcess
    <3> QED BY <3>2 DEF q
  <2>4. ProcsOK' /\ Alone(p)
    <3>1. DOMAIN w' = Admins /\ Alone(p)
      BY <1>0, <2>1 DEF ProcsOK, Alone
    <3>2. IsProcess(w'[p]) /\ w'[p].n \in Nat \ {0} /\ w'[p].mine \in BOOLEAN
      BY <1>0, <2>3 DEF ProcsOK, IsProcess
    <3> QED BY <1>0, <3>1, <3>2, OthersStay
  <2>5. w'[p].at = "rollback" /\ w'[p].n = 1 /\ w'[p].old = jx
    BY <2>3
  <2>6. HostTypeOK' /\ HostOK'
    BY <2>1, <2>4, HostStays DEF host
  <2>7. StoppedTo(w[p].n)' /\ jx' = jx
    BY <2>1, <2>5 DEF StoppedTo, host
  <2>8. StageOK(p)'
    BY <1>2, <2>2, <2>5, <2>7 DEF StageOK, Installing, Upgrading, Recovering, Uninstalling,
         Outcome, Chosen, At, UpgradePlaces, RollbackPlaces
  <2> QED BY <2>4, <2>6, <2>8 DEF Kept
<1> QED BY <1>1, <1>2

(* The old release is served; then the journal goes.                       *)
LEMMA RollbackEnds ==
  ASSUME InstIInv, NEW p \in Admins, RollbackRestart(p) \/ RollbackDone(p)
  PROVE  Kept(p)
<1> USE InstAssumption DEF InstIInv
<1>0. ProcsOK /\ HostTypeOK /\ HostOK
  BY DEF HostTypeOK
<1>1. CASE RollbackRestart(p)
  <2>1. /\ ProcsOK' /\ Alone(p) /\ Holds(p) /\ w'[p].at = "restarted" /\ w'[p].old = w[p].old
    BY <1>0, <1>1, ToFacts DEF RollbackRestart
  <2>2. w[p].old \in Releases /\ Complete(w[p].old) /\ Stopped
    BY <1>1 DEF RollbackRestart, StageOK, Upgrading, Recovering, UpgradePlaces, RollbackPlaces, At
  <2>3. UNCHANGED <<disk, account, made, ji, ju>> /\ Enable /\ jx' = NoRelease
    BY <1>1 DEF RollbackRestart
  <2>4. /\ up' \in [Services -> MaybeRelease] /\ enabled' \in [Services -> BOOLEAN]
        /\ live' \in BOOLEAN
        /\ \A s \in Services : up'[s] = w[p].old
    BY <1>0, <2>2, <2>3, EnableFacts
  <2>5. HostTypeOK'
    BY <1>0, <2>1, <2>3, <2>4 DEF HostTypeOK, Contents, MaybeRelease
  <2>6. HostOK'
    BY <1>0, <2>3 DEF HostOK, StateHolds, TheirsOK, OursOK, InstallOwns, RemovalOwns,
         ManifestOwns, UpgradeOwns, Filled, Ours, Theirs
  <2>7. Complete(w[p].old)' /\ Serves(w[p].old)'
    BY <2>1, <2>2, <2>3, <2>4 DEF Complete, Serves
  <2>8. StageOK(p)'
    BY <2>1, <2>2, <2>3, <2>7 DEF StageOK, Installing, Upgrading, Recovering, Uninstalling,
         Outcome, Chosen, At, UpgradePlaces, RollbackPlaces
  <2> QED BY <2>1, <2>5, <2>6, <2>8 DEF Kept
<1>2. CASE RollbackDone(p) /\ Raise(p)
  BY <1>2, Stops DEF RollbackDone
<1>3. CASE RollbackDone(p) /\ Healthy(w[p].old) /\ Succeed(p, "RECOVERED")
  <2>1. w[p].old \in Releases /\ jx = NoRelease /\ Complete(w[p].old) /\ Serves(w[p].old)
    BY <1>3 DEF RollbackDone, StageOK, Upgrading, Recovering, UpgradePlaces, RollbackPlaces, At
  <2>2. disk["manifest"] = w[p].old
    BY <2>1, ItemFacts DEF Complete
  <2>3. UNCHANGED <<disk, host>>
    BY <1>3 DEF RollbackDone
  <2>4. ProcsOK' /\ Alone(p) /\ w'[p].at = "unlink" /\ w'[p].out = "RECOVERED"
    BY <1>0, <1>3, EndFacts
  <2>5. HostTypeOK' /\ HostOK'
    BY <2>3, <2>4, HostStays DEF host
  <2>6. \A s \in Services : up[s] = disk["manifest"]
    BY <1>3, <2>1, <2>2 DEF Healthy, Serves, Services
  <2>7. Whole
    BY <2>1 DEF Whole
  <2>8. Outcome(p)'
    BY <2>1, <2>3, <2>4, <2>6, <2>7 DEF Outcome, host, Whole, Complete
  <2> QED BY <2>4, <2>5, <2>8, EndsOK DEF Kept
<1> QED BY <1>1, <1>2, <1>3 DEF RollbackDone

-----------------------------------------------------------------------------
(* A removal.                                                              *)
LEMMA UninstallBegins ==
  ASSUME InstIInv, NEW p \in Admins, UninstallBegin(p) PROVE Kept(p)
<1> USE InstAssumption DEF InstIInv
<1>0. ProcsOK /\ HostTypeOK /\ HostOK /\ UNCHANGED <<disk, host>>
  BY DEF HostTypeOK, UninstallBegin
<1>1. CASE Raise(p)
  BY <1>0, <1>1, Stops
<1>2. CASE ju # NoJournal /\ ju # Torn /\ w' = [w EXCEPT ![p].at = "rehalt", ![p].mine = TRUE]
  <2>1. Filled(ju) /\ w[p].n = 1
    BY <1>0, <1>2 DEF HostTypeOK, Journal, Filled, UninstallBegin, StageOK, At
  <2>3. w'[p] = [at |-> "rehalt", cmd |-> w[p].cmd, rel |-> w[p].rel, n |-> 1, old |-> w[p].old,
                 mine |-> TRUE, fd |-> w[p].fd, out |-> w[p].out]
    <3> DEFINE q == w[p]
    <3>1. IsProcess(q) /\ w'[p] = [q EXCEPT !.at = "rehalt", !.mine = TRUE] /\ q.n = 1
      BY <1>0, <1>2, <2>1 DEF ProcsOK
    <3> HIDE DEF q
    <3>2. w'[p] = [at |-> "rehalt", cmd |-> q.cmd, rel |-> q.rel, n |-> 1, old |-> q.old,
                   mine |-> TRUE, fd |-> q.fd, out |-> q.out]
      BY <3>1 DEF IsProcess
    <3> QED BY <3>2 DEF q
  <2>4. ProcsOK' /\ Alone(p)
    <3>1. DOMAIN w' = Admins /\ Alone(p)
      BY <1>0, <1>2 DEF ProcsOK, Alone
    <3>2. IsProcess(w'[p]) /\ w'[p].n \in Nat \ {0} /\ w'[p].mine \in BOOLEAN
      BY <2>3 DEF IsProcess
    <3> QED BY <1>0, <3>1, <3>2, OthersStay
  <2>5. w'[p].at = "rehalt" /\ w'[p].n = 1
    BY <2>3
  <2>6. HostTypeOK' /\ HostOK'
    BY <1>0, <2>4, HostStays DEF host
  <2>7. DisabledTo(w[p].n)' /\ Filled(ju)'
    BY <1>0, <2>1, <2>5 DEF DisabledTo, StoppedTo, host, Filled
  <2>8. StageOK(p)'
    BY <2>5, <2>7 DEF StageOK, Installing, Upgrading, Recovering, Uninstalling, Outcome, Chosen,
         At, UpgradePlaces, RollbackPlaces
  <2> QED BY <2>4, <2>6, <2>8 DEF Kept
<1>3. CASE ju = NoJournal /\ Whole /\ To(p, "ujournal")
  <2>1. HostTypeOK' /\ HostOK' /\ Alone(p) /\ Holds(p) /\ w'[p].at = "ujournal"
    BY <1>0, <1>3, Stands
  <2>2. ju' = NoJournal /\ Whole'
    BY <1>0, <1>3 DEF host, Whole, Complete
  <2>3. StageOK(p)'
    BY <2>1, <2>2 DEF StageOK, Installing, Upgrading, Recovering, Uninstalling, Outcome, Chosen,
         At, UpgradePlaces, RollbackPlaces
  <2> QED BY <2>1, <2>3 DEF Kept
<1> QED BY <1>1, <1>2, <1>3 DEF UninstallBegin

(* The journal of the removal takes over what the manifest said.           *)
LEMMA UninstallRecords ==
  ASSUME InstIInv, NEW p \in Admins, UninstallJournalOpen(p) \/ UninstallJournalFill(p)
  PROVE  Kept(p)
<1> USE InstAssumption DEF InstIInv
<1>0. ProcsOK /\ HostTypeOK /\ HostOK
  BY DEF HostTypeOK
<1>1. CASE UninstallJournalOpen(p)
  <2>1. ProcsOK' /\ Alone(p) /\ Holds(p) /\ w'[p].at = "ufill"
    BY <1>0, <1>1, ToFacts DEF UninstallJournalOpen
  <2>2. ju = NoJournal /\ Whole
    BY <1>1 DEF UninstallJournalOpen, StageOK, Uninstalling, At
  <2>3. UNCHANGED <<disk, account, made, ji, jx, up, enabled, live>> /\ ju' = Torn
    BY <1>1 DEF UninstallJournalOpen
  <2>4. HostTypeOK'
    BY <1>0, <2>1, <2>3 DEF HostTypeOK, Journal, Torn, Contents, MaybeRelease
  <2>5. disk["manifest"] \in Releases
    BY <2>2, ItemFacts DEF Whole, Complete
  <2>6. (made \/ Theirs) /\ (Filled(ji) /\ Ours => ji.made)
    BY <1>0, <2>2, <2>5 DEF HostOK, ManifestOwns, InstallOwns
  <2>7. HostOK'
    BY <1>0, <2>2, <2>3, <2>6 DEF HostOK, StateHolds, TheirsOK, OursOK, InstallOwns, RemovalOwns,
         ManifestOwns, UpgradeOwns, Filled, Ours, Theirs, NoJournal, Torn
  <2>8. Whole' /\ (made \/ Theirs)' /\ (Filled(ji) /\ Ours => ji.made)'
    BY <2>2, <2>3, <2>6 DEF Whole, Complete, Theirs, Filled, Ours
  <2>9. StageOK(p)'
    BY <2>1, <2>3, <2>8 DEF StageOK, Installing, Upgrading, Recovering, Uninstalling, Outcome,
         Chosen, At, UpgradePlaces, RollbackPlaces
  <2> QED BY <2>1, <2>4, <2>7, <2>9 DEF Kept
<1>2. CASE UninstallJournalFill(p)
  <2>1. ProcsOK' /\ Alone(p) /\ Holds(p) /\ w'[p].at = "uhalt" /\ w'[p].n = 1
    BY <1>0, <1>2, ToFacts DEF UninstallJournalFill
  <2>2. Whole /\ (made \/ Theirs)
    BY <1>2 DEF UninstallJournalFill, StageOK, Uninstalling, At
  <2>3. /\ UNCHANGED <<disk, account, made, ji, jx, up, enabled, live>>
        /\ ju' = [of |-> disk["manifest"], made |-> made]
    BY <1>2 DEF UninstallJournalFill
  <2>5. disk["manifest"] \in Releases
    BY <2>2, ItemFacts DEF Whole, Complete
  <2>6. ju' \in [of : Releases, made : BOOLEAN] /\ Filled(ju') /\ ju'.made = made /\ ju' # NoJournal
    BY <1>0, <2>3, <2>5 DEF Filled, HostTypeOK, NoJournal
  <2>4. HostTypeOK'
    BY <1>0, <2>1, <2>3, <2>6 DEF HostTypeOK, Journal, Contents, MaybeRelease
  <2>7. HostOK'
    <3>1. UNCHANGED <<disk, account, made, ji, jx>>
      BY <2>3
    <3> QED BY <1>0, <2>2, <2>6, <3>1 DEF HostOK, StateHolds, TheirsOK, OursOK, InstallOwns,
         RemovalOwns, ManifestOwns, UpgradeOwns, Filled, Ours, Theirs
  <2>8. DisabledTo(w[p].n)' /\ Filled(ju)'
    BY <2>1, <2>6 DEF DisabledTo, StoppedTo
  <2>9. StageOK(p)'
    BY <2>1, <2>8 DEF StageOK, Installing, Upgrading, Recovering, Uninstalling, Outcome, Chosen,
         At, UpgradePlaces, RollbackPlaces
  <2> QED BY <2>1, <2>4, <2>7, <2>9 DEF Kept
<1> QED BY <1>1, <1>2

(* The services are stopped and disabled, one after the other.             *)
LEMMA UninstallStops ==
  ASSUME InstIInv, NEW p \in Admins, UninstallHalt(p) \/ UninstallRehalt(p)
  PROVE  Kept(p)
<1> USE InstAssumption DEF InstIInv
<1>0. ProcsOK /\ HostTypeOK /\ HostOK
  BY DEF HostTypeOK
<1>1. PICK l \in {"ucheck", "recheck"} :
         Halt(p, TRUE, l) /\ w[p].at = IF l = "ucheck" THEN "uhalt" ELSE "rehalt"
  BY DEF UninstallHalt, UninstallRehalt, At
<1>2. UNCHANGED <<disk, account, made, ji, ju, jx, live>>
  BY DEF UninstallHalt, UninstallRehalt
<1>3. Filled(ju) /\ DisabledTo(w[p].n) /\ StoppedTo(w[p].n)
  BY <1>1 DEF StageOK, Uninstalling, DisabledTo
<1>4. /\ up' \in [Services -> MaybeRelease] /\ enabled' \in [Services -> BOOLEAN]
      /\ ProcsOK' /\ Alone(p) /\ Holds(p)
      /\ \/ w'[p].at = w[p].at /\ DisabledTo(w[p].n)'
         \/ w'[p].at = l /\ w'[p].n = 1 /\ Off'
  <2>1. TRUE \in BOOLEAN
    OBVIOUS
  <2> QED BY <1>0, <1>1, <1>3, <2>1, HaltFacts
<1>5. HostTypeOK'
  BY <1>0, <1>2, <1>4 DEF HostTypeOK, Contents, MaybeRelease
<1>6. HostOK'
  BY <1>0, <1>2, HostKept
<1>7. Filled(ju)'
  BY <1>2, <1>3 DEF Filled
<1>8. CASE w'[p].at = w[p].at /\ DisabledTo(w[p].n)'
  <2>1. StageOK(p)'
    BY <1>1, <1>7, <1>8 DEF StageOK, Installing, Upgrading, Recovering, Uninstalling, Outcome,
         Chosen, At, UpgradePlaces, RollbackPlaces
  <2> QED BY <1>4, <1>5, <1>6, <2>1 DEF Kept
<1>9. CASE w'[p].at = l /\ Off'
  <2>1. StageOK(p)'
    BY <1>1, <1>7, <1>9 DEF StageOK, Installing, Upgrading, Recovering, Uninstalling, Outcome,
         Chosen, At, UpgradePlaces, RollbackPlaces
  <2> QED BY <1>4, <1>5, <1>6, <2>1 DEF Kept
<1> QED BY <1>4, <1>8, <1>9

(* A workload that is still there, and a removal that gives up.            *)
LEMMA UninstallLooks ==
  ASSUME InstIInv, NEW p \in Admins, UninstallCheck(p) \/ UninstallBack(p) \/ UninstallRecheck(p)
  PROVE  Kept(p)
<1> USE InstAssumption DEF InstIInv
<1>0. ProcsOK /\ HostTypeOK /\ HostOK
  BY DEF HostTypeOK
<1>1. CASE UninstallBack(p)
  <2>1. ProcsOK' /\ Raise(p)
    BY <1>0, <1>1, EndFacts DEF UninstallBack
  <2>2. UNCHANGED <<disk, account, made, ji, ju, jx>> /\ Enable
    BY <1>1 DEF UninstallBack
  <2>3. up' \in [Services -> MaybeRelease] /\ enabled' \in [Services -> BOOLEAN]
        /\ live' \in BOOLEAN
    BY <1>0, <2>2, EnableFacts
  <2>4. HostTypeOK'
    BY <1>0, <2>1, <2>2, <2>3 DEF HostTypeOK, Contents, MaybeRelease
  <2>5. HostOK'
    BY <1>0, <2>2, HostKept
  <2> QED BY <1>0, <2>1, <2>4, <2>5, Refused
<1>2. CASE UninstallRecheck(p) /\ Raise(p)
  BY <1>2, Stops DEF UninstallRecheck
<1>3. CASE (UninstallCheck(p) \/ UninstallRecheck(p)) /\ ~Raise(p)
  <2>1. PICK l \in {"uback", "remove"} : To(p, l)
    BY <1>3 DEF UninstallCheck, UninstallRecheck
  <2>2. Filled(ju) /\ Off /\ UNCHANGED <<disk, host>>
    BY <1>3 DEF UninstallCheck, UninstallRecheck, StageOK, Uninstalling, At
  <2>3. HostTypeOK' /\ HostOK' /\ Alone(p) /\ Holds(p) /\ w'[p].at = l /\ w'[p].n = 1
    BY <2>1, <2>2, Stands
  <2>4. /\ Filled(ju)' /\ Off' /\ w'[p].n \in 1 .. Len(Removed) /\ ErasedTo(Removed, w[p].n)'
    BY <2>2, <2>3, ItemFacts DEF Filled, Off, Stopped, ErasedTo, host
  <2>5. StageOK(p)'
    BY <2>3, <2>4 DEF StageOK, Installing, Upgrading, Recovering, Uninstalling, Outcome, Chosen,
         At, UpgradePlaces, RollbackPlaces
  <2> QED BY <2>3, <2>5 DEF Kept
<1>4. CASE UninstallCheck(p) /\ Raise(p)
  BY <1>4, Stops DEF UninstallCheck
<1> QED BY <1>1, <1>2, <1>3, <1>4

(* The installation goes, the state last.                                  *)
LEMMA UninstallRemoves ==
  ASSUME InstIInv, NEW p \in Admins, UninstallRemove(p) PROVE Kept(p)
<1> USE DEF InstIInv
<1>0. PICK n \in Nat \ {0} : n = w[p].n
  BY DEF HostTypeOK, ProcsOK
<1>1. /\ Filled(ju) /\ Off /\ n \in 1 .. 7 /\ ErasedTo(Removed, n) /\ At(p, "remove")
      /\ HostTypeOK /\ ProcsOK /\ HostOK
  BY <1>0, ItemFacts DEF UninstallRemove, StageOK, Uninstalling, HostTypeOK, At
<1>2. Removed[n] \in Items /\ disk' = Erase(Removed[n])
  BY <1>0, <1>1, LoopItems DEF UninstallRemove, Item
<1>3. /\ disk' \in [Items -> Contents] /\ ErasedTo(Removed, n + 1)'
      /\ disk'["manifest"] \in {disk["manifest"], "none"}
      /\ disk'["state"] = disk["state"] \/ Removed[n] = "state"
      /\ Removed[n] = "state" => disk'["manifest"] = "none"
  <2>1. disk \in [Items -> Contents] /\ n \in Nat \ {0} /\ \A k \in 1 .. n : Removed[k] \in Items
    BY <1>1, LoopItems DEF HostTypeOK
  <2>2. ErasedTo(Removed, n + 1)'
    BY <1>1, <1>2, <2>1, EraseStep
  <2>3. "state" \notin Inside(Removed[n]) /\ "manifest" \in Inside("state")
    BY DEF Inside
  <2>4. "state" \in Items /\ "manifest" \in Items
    BY ItemFacts
  <2> QED BY <1>2, <2>1, <2>2, <2>3, <2>4, Erasing
<1>4. /\ ProcsOK' /\ Alone(p) /\ Holds(p)
      /\ n < 7 => w'[p].at = "remove" /\ w'[p].n = n + 1
      /\ n >= 7 => w'[p].at = "userdel" /\ w'[p].n = 1
  <2>1. Goes(p, 7, "userdel") /\ w[p].at = "remove"
    BY <1>1, LoopFacts DEF UninstallRemove, At
  <2> QED BY <1>0, <2>1 DEF Goes
<1>5. /\ UNCHANGED <<account, made, ji, ju, up, enabled, live>> /\ jx' \in {jx, NoRelease}
      /\ (Removed[n] = "state" => jx' = NoRelease)
  BY <1>0 DEF UninstallRemove, Item
<1>6. HostTypeOK'
  BY <1>1, <1>3, <1>4, <1>5 DEF HostTypeOK, MaybeRelease
<1>7. HostOK'
  BY <1>1, <1>3, <1>5, InstAssumption DEF HostOK, StateHolds, TheirsOK, OursOK, InstallOwns,
       RemovalOwns, ManifestOwns, UpgradeOwns, Filled, Ours, Theirs, NoJournal
<1>8. Off' /\ Filled(ju)'
  BY <1>1, <1>5 DEF Off, Stopped, Filled
<1>9. CASE n < 7
  <2>1. w'[p].n \in 1 .. Len(Removed) /\ ErasedTo(Removed, w[p].n)'
    BY <1>1, <1>3, <1>4, <1>9, ItemFacts
  <2>2. StageOK(p)'
    BY <1>1, <1>4, <1>8, <1>9, <2>1 DEF StageOK, Installing, Upgrading, Recovering, Uninstalling,
         Outcome, Chosen, At, UpgradePlaces, RollbackPlaces
  <2> QED BY <1>4, <1>6, <1>7, <2>2 DEF Kept
<1>10. CASE n >= 7
  <2>1. Absent'
    <3>1. ErasedTo(Removed, 8)'
      BY <1>1, <1>3, <1>10
    <3> QED BY <3>1, AllErasedNext
  <2>2. StageOK(p)'
    BY <1>1, <1>4, <1>8, <1>10, <2>1 DEF StageOK, Installing, Upgrading, Recovering, Uninstalling,
         Outcome, Chosen, At, UpgradePlaces, RollbackPlaces
  <2> QED BY <1>4, <1>6, <1>7, <2>2 DEF Kept
<1> QED BY <1>1, <1>9, <1>10

(* The account goes if it is the product's; then the journal.              *)
LEMMA UninstallEnds ==
  ASSUME InstIInv, NEW p \in Admins, UninstallAccount(p) \/ UninstallDone(p)
  PROVE  Kept(p)
<1> USE InstAssumption DEF InstIInv
<1>0. ProcsOK /\ HostTypeOK /\ HostOK
  BY DEF HostTypeOK
<1>1. Filled(ju) /\ Off /\ Absent /\ (At(p, "forget") => ~Ours)
  BY DEF UninstallAccount, UninstallDone, StageOK, Uninstalling, At
<1>2. disk["manifest"] = "none" /\ disk["state"] = "none"
  BY <1>1, ItemFacts DEF Absent
<1>3. CASE UninstallAccount(p)
  <2>1. ProcsOK' /\ Alone(p) /\ Holds(p) /\ w'[p].at = "forget"
    BY <1>0, <1>3, ToFacts DEF UninstallAccount
  <2>2. /\ UNCHANGED <<disk, made, ji, ju, jx, up, enabled, live>>
        /\ account' = IF ju.made THEN "none" ELSE account
    BY <1>3 DEF UninstallAccount
  <2>3. HostTypeOK'
    BY <1>0, <2>1, <2>2 DEF HostTypeOK, Contents, MaybeRelease
  <2>4. Theirs' = Theirs /\ ~Ours'
    BY <1>0, <1>1, <2>2 DEF HostOK, TheirsOK, RemovalOwns, Theirs, Ours
  <2>5. HostOK'
    <3>1. UNCHANGED <<disk, made, ji, ju, jx>>
      BY <2>2
    <3> QED BY <1>0, <1>1, <1>2, <2>4, <3>1 DEF HostOK, StateHolds, TheirsOK, OursOK, InstallOwns,
               RemovalOwns,
               ManifestOwns, UpgradeOwns, Filled
  <2>6. Filled(ju)' /\ Off' /\ Absent'
    BY <1>1, <2>2 DEF Filled, Off, Stopped, Absent
  <2>7. StageOK(p)'
    BY <2>1, <2>4, <2>6 DEF StageOK, Installing, Upgrading, Recovering, Uninstalling, Outcome,
         Chosen, At, UpgradePlaces, RollbackPlaces
  <2> QED BY <2>1, <2>3, <2>5, <2>7 DEF Kept
<1>4. CASE UninstallDone(p)
  <2>1. ProcsOK' /\ Alone(p) /\ w'[p].at = "unlink" /\ w'[p].out = "UNINSTALLED"
    BY <1>0, <1>4, EndFacts DEF UninstallDone
  <2>2. UNCHANGED <<disk, account, made, ji, jx, up, enabled, live>> /\ ju' = NoJournal
    BY <1>4 DEF UninstallDone
  <2>3. HostTypeOK'
    BY <1>0, <2>1, <2>2 DEF HostTypeOK, Contents, MaybeRelease, Journal
  <2>4. ~Ours
    BY <1>1, <1>4 DEF UninstallDone
  <2>5. HostOK'
    BY <1>0, <1>2, <2>2, <2>4 DEF HostOK, StateHolds, TheirsOK, OursOK, InstallOwns, RemovalOwns,
         ManifestOwns, UpgradeOwns, Filled, Ours, Theirs, NoJournal
  <2>6. Outcome(p)'
    BY <1>1, <2>1, <2>2 DEF Outcome, Absent, Off, Stopped
  <2> QED BY <2>1, <2>3, <2>5, <2>6, EndsOK DEF Kept
<1> QED BY <1>3, <1>4

-----------------------------------------------------------------------------
(* A command that is cut short, or meets one that fails.                   *)

(* What is left of the disk when the step that was at it did not finish.   *)
Left(p) ==
  /\ disk' \in [Items -> Contents] /\ disk'["state"] = disk["state"]
  /\ \/ disk'["manifest"] = disk["manifest"]
     \/ disk'["manifest"] = "none" /\ w[p].at \in {"undo", "cleanup", "remove"}
     \/ disk'["manifest"] = "torn" /\ At(p, "place") /\ disk["state"] = "dir"

(* A step cut short leaves the state directory, and tears no manifest that *)
(* was not being placed.                                                   *)
LEMMA CutFacts ==
  ASSUME InstIInv, NEW p \in Admins, disk' \in CutShort(p) PROVE Left(p)
<1> USE DEF InstIInv
<1>0. PICK n \in Nat \ {0} : n = w[p].n
  BY DEF HostTypeOK, ProcsOK
<1>1. disk \in [Items -> Contents] /\ "state" \in Items /\ "manifest" \in Items
      /\ "records" \in Items
  BY ItemFacts DEF HostTypeOK
<1> DEFINE i == IF Sequence(p) = <<>> THEN "none" ELSE Item(p, Sequence(p))
<1>2. \/ disk' = disk
      \/ At(p, "place") /\ i \notin Dirs /\ disk' = [disk EXCEPT ![i] = "torn"]
      \/ i = "records" /\ disk' = [disk EXCEPT ![i] = "torn"]
      \/ /\ i \in Dirs /\ ~At(p, "place")
         /\ disk' = [j \in Items |-> IF j \in Inside(i) THEN "none" ELSE disk[j]]
  <2> HIDE DEF i
  <2> QED BY DEF CutShort, i
<1>3. CASE At(p, "place") /\ i \notin Dirs /\ disk' = [disk EXCEPT ![i] = "torn"]
  <2>1. Sequence(p) = Placed
    BY <1>3 DEF Sequence, At
  <2>2. i = Placed[n] /\ n \in 1 .. 11 /\ (n > 3 => disk["state"] = "dir")
    <3>1. Sequence(p) # <<>>
      BY <2>1 DEF Placed
    <3> QED BY <1>0, <1>3, <2>1, <3>1, ItemFacts DEF Item, StageOK, Installing
  <2>3. i = "manifest" => n = 11
    BY <2>2 DEF Placed
  <2>4. i # "state"
    BY <1>3 DEF Dirs
  <2>5. n = 11 => disk["state"] = "dir"
    BY <2>2
  <2> HIDE DEF i
  <2>6. disk' = [disk EXCEPT ![i] = "torn"] /\ disk' \in [Items -> Contents]
    BY <1>1, <1>3 DEF Contents
  <2>7. disk'["state"] = disk["state"]
    BY <1>1, <2>4, <2>6
  <2>8. i # "manifest" => disk'["manifest"] = disk["manifest"]
    BY <1>1, <2>6
  <2>9. i = "manifest" => disk'["manifest"] = "torn"
    BY <1>1, <2>6
  <2> QED BY <1>3, <2>3, <2>5, <2>6, <2>7, <2>8, <2>9 DEF Left
<1>4. CASE i = "records" /\ disk' = [disk EXCEPT ![i] = "torn"]
  <2> HIDE DEF i
  <2> QED BY <1>1, <1>4 DEF Left, Contents
<1>5. CASE /\ i \in Dirs /\ ~At(p, "place")
           /\ disk' = [j \in Items |-> IF j \in Inside(i) THEN "none" ELSE disk[j]]
  <2>1. CASE At(p, "replace")
    <3>1. Sequence(p) = Replaced /\ n \in 1 .. 9
      BY <1>0, <2>1, ItemFacts DEF Sequence, At, StageOK, Upgrading
    <3>2. i = Replaced[n]
      BY <1>0, <3>1 DEF Item, Replaced
    <3> QED BY <1>5, <3>1, <3>2, LoopItems, ItemFacts DEF Dirs
  <2>2. CASE At(p, "restore")
    <3>1. Sequence(p) = Restored /\ n \in 1 .. 9
      BY <1>0, <2>2, ItemFacts DEF Sequence, At, StageOK, Recovering
    <3>2. i = Restored[n]
      BY <1>0, <3>1 DEF Item, Restored
    <3> QED BY <1>5, <3>1, <3>2, LoopItems, ItemFacts DEF Dirs
  <2>3. CASE w[p].at \in {"undo", "cleanup", "remove"}
    <3>1. "state" \notin Inside(i)
      BY DEF Inside
    <3> HIDE DEF i
    <3> QED BY <1>1, <1>5, <2>3, <3>1 DEF Left, Contents
  <2>4. CASE w[p].at \notin {"undo", "cleanup", "remove", "replace", "restore"}
    <3>1. Sequence(p) = <<>>
      BY <1>5, <2>4 DEF Sequence, At
    <3> QED BY <1>5, <3>1 DEF Dirs
  <2> QED BY <2>1, <2>2, <2>3, <2>4 DEF At
<1>6. CASE disk' = disk
  BY <1>1, <1>6 DEF Left
<1> QED BY <1>2, <1>3, <1>4, <1>5, <1>6

(* Whatever is left, the account is still on record.                       *)
LEMMA LeftKeepsHost ==
  ASSUME InstIInv, NEW p \in Admins, Left(p), ProcsOK',
         UNCHANGED <<account, made, ji, ju, jx, up, enabled, live>>
  PROVE  HostTypeOK' /\ HostOK'
<1> USE InstAssumption
<1>1. HostTypeOK /\ HostOK /\ StageOK(p)
  BY DEF InstIInv
<1>2. HostTypeOK'
  BY <1>1 DEF HostTypeOK, Left, MaybeRelease
<1>3. w[p].at \in {"undo", "cleanup"} => ji # NoJournal
  BY <1>1 DEF StageOK, Installing, At, Filled, NoJournal
<1>4. w[p].at = "remove" => ju # NoJournal
  BY <1>1 DEF StageOK, Uninstalling, At, Filled, NoJournal
<1>5. HostOK'
  BY <1>1, <1>3, <1>4 DEF HostOK, StateHolds, TheirsOK, OursOK, InstallOwns, RemovalOwns,
       ManifestOwns, UpgradeOwns, Filled, Ours, Theirs, Left
<1> QED BY <1>2, <1>5

(* A write that fails.                                                     *)
LEMMA WritesFail ==
  ASSUME InstIInv, NEW p \in Admins, WriteFails(p) PROVE Kept(p)
<1> USE InstAssumption DEF InstIInv
<1>0. ProcsOK /\ HostTypeOK /\ HostOK /\ UNCHANGED <<account, made, jx, up, enabled, live>>
  BY DEF HostTypeOK, WriteFails
<1>1. CASE At(p, "fill") /\ ji' = NoJournal /\ Raise(p) /\ UNCHANGED <<disk, ju>>
  <2>1. ProcsOK'
    BY <1>0, <1>1, EndFacts
  <2>2. Absent /\ (Ours => ju # NoJournal)
    BY <1>1 DEF StageOK, Installing
  <2>3. disk["manifest"] = "none"
    BY <2>2, ItemFacts DEF Absent
  <2>4. HostTypeOK'
    BY <1>0, <1>1, <2>1 DEF HostTypeOK, Contents, MaybeRelease, Journal
  <2>5. HostOK'
    BY <1>0, <1>1, <2>2, <2>3 DEF HostOK, StateHolds, TheirsOK, OursOK, InstallOwns, RemovalOwns,
         ManifestOwns, UpgradeOwns, Filled, Ours, Theirs, NoJournal
  <2> QED BY <1>0, <1>1, <2>4, <2>5, Refused
<1>2. CASE At(p, "ufill") /\ ju' = NoJournal /\ Raise(p) /\ UNCHANGED <<disk, ji>>
  <2>1. ProcsOK'
    BY <1>0, <1>2, EndFacts
  <2>2. Whole /\ (made \/ Theirs) /\ (Filled(ji) /\ Ours => ji.made)
    BY <1>2 DEF StageOK, Uninstalling, At
  <2>3. disk["manifest"] \in Releases
    BY <2>2, ItemFacts DEF Whole, Complete
  <2>4. HostTypeOK'
    BY <1>0, <1>2, <2>1 DEF HostTypeOK, Contents, MaybeRelease, Journal
  <2>5. HostOK'
    BY <1>0, <1>2, <2>2, <2>3 DEF HostOK, StateHolds, TheirsOK, OursOK, InstallOwns, RemovalOwns,
         ManifestOwns, UpgradeOwns, Filled, Ours, Theirs, NoJournal
  <2> QED BY <1>0, <1>2, <2>4, <2>5, Refused
<1>3. CASE /\ At(p, "place") /\ disk' \in CutShort(p) /\ UNCHANGED <<ji, ju>>
           /\ w' = [w EXCEPT ![p].at = "cleanup", ![p].n = 1, ![p].old = w[p].n - 1]
  <2> DEFINE k == w[p].n - 1
  <2>1. w'[p] = [at |-> "cleanup", cmd |-> w[p].cmd, rel |-> w[p].rel, n |-> 1, old |-> k,
                 mine |-> w[p].mine, fd |-> w[p].fd, out |-> w[p].out]
    <3> DEFINE q == w[p]
    <3>1. IsProcess(q) /\ w'[p] = [q EXCEPT !.at = "cleanup", !.n = 1, !.old = k]
      BY <1>0, <1>3 DEF ProcsOK
    <3> HIDE DEF q, k
    <3>2. w'[p] = [at |-> "cleanup", cmd |-> q.cmd, rel |-> q.rel, n |-> 1, old |-> k,
                   mine |-> q.mine, fd |-> q.fd, out |-> q.out]
      BY <3>1 DEF IsProcess
    <3> QED BY <3>2 DEF q
  <2> HIDE DEF k
  <2>2. ProcsOK' /\ Alone(p)
    <3>1. DOMAIN w' = Admins /\ Alone(p)
      BY <1>0, <1>3 DEF ProcsOK, Alone
    <3>2. IsProcess(w'[p]) /\ w'[p].n \in Nat \ {0} /\ w'[p].mine \in BOOLEAN
      BY <1>0, <2>1 DEF ProcsOK, IsProcess
    <3> QED BY <1>0, <3>1, <3>2, OthersStay
  <2>3. w'[p].at = "cleanup" /\ w'[p].n = 1 /\ w'[p].mine = w[p].mine /\ w'[p].rel = w[p].rel
    BY <2>1
  <2>4. HostTypeOK' /\ HostOK'
    BY <1>0, <1>3, <2>2, CutFacts, LeftKeepsHost
  <2>5. Filled(ji) /\ ji.of = w[p].rel /\ MineOK(p) /\ jx = NoRelease
    BY <1>3 DEF StageOK, Installing, At
  <2>6. /\ Filled(ji)' /\ ji'.of = w'[p].rel /\ MineOK(p)' /\ jx' = NoRelease
        /\ w'[p].n \in 1 .. Len(Created)
    BY <1>0, <1>3, <2>3, <2>5, ItemFacts DEF Filled, MineOK, Theirs
  <2>7. StageOK(p)'
    BY <2>3, <2>6 DEF StageOK, Installing, Upgrading, Recovering, Uninstalling, Outcome, Chosen,
         At, UpgradePlaces, RollbackPlaces
  <2> QED BY <2>2, <2>4, <2>7 DEF Kept
<1>4. CASE At(p, "replace") /\ disk' \in CutShort(p) /\ To(p, "rollback") /\ UNCHANGED <<ji, ju>>
  <2>1. /\ ProcsOK' /\ Alone(p) /\ Holds(p) /\ w'[p].at = "rollback" /\ w'[p].n = 1
        /\ w'[p].old = w[p].old
    BY <1>0, <1>4, ToFacts
  <2>2. HostTypeOK' /\ HostOK'
    BY <1>0, <1>4, <2>1, CutFacts, LeftKeepsHost
  <2>3. jx # NoRelease /\ w[p].old \in Releases
    BY <1>4 DEF StageOK, Upgrading, UpgradePlaces, At
  <2>4. StoppedTo(w[p].n)' /\ jx' # NoRelease
    BY <1>0, <2>1, <2>3 DEF StoppedTo
  <2>5. StageOK(p)'
    BY <2>1, <2>3, <2>4 DEF StageOK, Installing, Upgrading, Recovering, Uninstalling, Outcome,
         Chosen, At, UpgradePlaces, RollbackPlaces
  <2> QED BY <2>1, <2>2, <2>5 DEF Kept
<1>5. CASE /\ w[p].at \in {"restore", "remove"} /\ disk' \in CutShort(p) /\ UNCHANGED <<ji, ju>>
           /\ Raise(p)
  <2>1. ProcsOK'
    BY <1>0, <1>5, EndFacts
  <2>2. HostTypeOK' /\ HostOK'
    BY <1>0, <1>5, <2>1, CutFacts, LeftKeepsHost
  <2> QED BY <1>0, <1>5, <2>2, Refused
<1>6. CASE At(p, "remove") /\ disk' \in CutShort(p) /\ UNCHANGED <<ji, ju>> /\ To(p, "uback")
  <2>1. ProcsOK' /\ Alone(p) /\ Holds(p) /\ w'[p].at = "uback"
    BY <1>0, <1>6, ToFacts
  <2>2. HostTypeOK' /\ HostOK'
    BY <1>0, <1>6, <2>1, CutFacts, LeftKeepsHost
  <2>3. Filled(ju)'
    BY <1>6 DEF StageOK, Uninstalling, Filled, At
  <2>4. StageOK(p)'
    BY <2>1, <2>3 DEF StageOK, Installing, Upgrading, Recovering, Uninstalling, Outcome, Chosen,
         At, UpgradePlaces, RollbackPlaces
  <2> QED BY <2>1, <2>2, <2>4 DEF Kept
<1>7. CASE /\ At(p, "snapshot") /\ Healthy(disk["manifest"]) /\ UNCHANGED <<disk, ji, ju>>
           /\ w' = [w EXCEPT ![p].at = "rollback", ![p].n = 1, ![p].old = disk["manifest"]]
  <2> DEFINE m == disk["manifest"]
  <2>1. w[p].rel \in Releases /\ m \in Releases
    BY <1>7, ItemFacts DEF StageOK, Upgrading, UpgradePlaces, At, Whole, Complete
  <2>2. w'[p] = [at |-> "rollback", cmd |-> w[p].cmd, rel |-> w[p].rel, n |-> 1, old |-> m,
                 mine |-> w[p].mine, fd |-> w[p].fd, out |-> w[p].out]
    <3> DEFINE q == w[p]
    <3>1. IsProcess(q) /\ w'[p] = [q EXCEPT !.at = "rollback", !.n = 1, !.old = m]
      BY <1>0, <1>7 DEF ProcsOK
    <3> HIDE DEF q
    <3>2. w'[p] = [at |-> "rollback", cmd |-> q.cmd, rel |-> q.rel, n |-> 1, old |-> m,
                   mine |-> q.mine, fd |-> q.fd, out |-> q.out]
      BY <3>1 DEF IsProcess
    <3> QED BY <3>2 DEF q
  <2>3. ProcsOK' /\ Alone(p)
    <3>1. DOMAIN w' = Admins /\ Alone(p)
      BY <1>0, <1>7 DEF ProcsOK, Alone
    <3>2. IsProcess(w'[p]) /\ w'[p].n \in Nat \ {0} /\ w'[p].mine \in BOOLEAN
      BY <1>0, <2>2 DEF ProcsOK, IsProcess
    <3> QED BY <1>0, <3>1, <3>2, OthersStay
  <2>4. w'[p].at = "rollback" /\ w'[p].n = 1 /\ w'[p].rel = w[p].rel /\ w'[p].old = m
        /\ w'[p].cmd = w[p].cmd
    BY <2>2
  <2>5. HostTypeOK' /\ HostOK'
    BY <1>0, <1>7, <2>3, HostStays
  <2>6. StoppedTo(w[p].n)' /\ disk'["manifest"] \in Releases
    BY <1>7, <2>1, <2>4 DEF StoppedTo
  <2>7. StageOK(p)'
    BY <2>1, <2>4, <2>6 DEF StageOK, Installing, Upgrading, Recovering, Uninstalling, Outcome,
         Chosen, At, UpgradePlaces, RollbackPlaces
  <2> QED BY <2>3, <2>5, <2>7 DEF Kept
<1> QED BY <1>1, <1>2, <1>3, <1>4, <1>5, <1>6, <1>7 DEF WriteFails, At

(* A service that does not start.                                          *)
LEMMA StartsFail ==
  ASSUME InstIInv, NEW p \in Admins, StartFails(p) PROVE Kept(p)
<1> USE InstAssumption DEF InstIInv
<1>0. ProcsOK /\ HostTypeOK /\ HostOK /\ UNCHANGED <<disk, host>>
  BY DEF HostTypeOK, StartFails
<1>1. CASE Raise(p)
  BY <1>0, <1>1, Stops
<1>2. CASE w[p].at \in {"drain", "transitional", "final"} /\ To(p, "rollback")
  <2>1. /\ HostTypeOK' /\ HostOK' /\ Alone(p) /\ Holds(p)
        /\ w'[p].at = "rollback" /\ w'[p].n = 1 /\ w'[p].old = w[p].old
    BY <1>0, <1>2, Stands
  <2>2. /\ w[p].old \in Releases /\ w[p].rel \in Releases
        /\ jx # NoRelease \/ Complete(w[p].rel)
    BY <1>2 DEF StageOK, Upgrading, UpgradePlaces, At
  <2>3. jx' # NoRelease \/ disk'["manifest"] \in Releases
    BY <1>0, <2>2, ItemFacts DEF host, Complete
  <2>4. StoppedTo(w[p].n)'
    BY <2>1 DEF StoppedTo
  <2>5. StageOK(p)'
    BY <2>1, <2>2, <2>3, <2>4 DEF StageOK, Installing, Upgrading, Recovering, Uninstalling,
         Outcome, Chosen, At, UpgradePlaces, RollbackPlaces
  <2> QED BY <2>1, <2>5 DEF Kept
<1>3. CASE /\ At(p, "ready")
           /\ w' = [w EXCEPT ![p].at = "cleanup", ![p].n = 1, ![p].old = Len(Placed)]
  <2> DEFINE k == Len(Placed)
  <2>1. w'[p] = [at |-> "cleanup", cmd |-> w[p].cmd, rel |-> w[p].rel, n |-> 1, old |-> k,
                 mine |-> w[p].mine, fd |-> w[p].fd, out |-> w[p].out]
    <3> DEFINE q == w[p]
    <3>1. IsProcess(q) /\ w'[p] = [q EXCEPT !.at = "cleanup", !.n = 1, !.old = k]
      BY <1>0, <1>3 DEF ProcsOK
    <3> HIDE DEF q, k
    <3>2. w'[p] = [at |-> "cleanup", cmd |-> q.cmd, rel |-> q.rel, n |-> 1, old |-> k,
                   mine |-> q.mine, fd |-> q.fd, out |-> q.out]
      BY <3>1 DEF IsProcess
    <3> QED BY <3>2 DEF q
  <2> HIDE DEF k
  <2>2. ProcsOK' /\ Alone(p)
    <3>1. DOMAIN w' = Admins /\ Alone(p)
      BY <1>0, <1>3 DEF ProcsOK, Alone
    <3>2. IsProcess(w'[p]) /\ w'[p].n \in Nat \ {0} /\ w'[p].mine \in BOOLEAN
      BY <1>0, <2>1 DEF ProcsOK, IsProcess
    <3> QED BY <1>0, <3>1, <3>2, OthersStay
  <2>3. w'[p].at = "cleanup" /\ w'[p].n = 1 /\ w'[p].mine = w[p].mine /\ w'[p].rel = w[p].rel
    BY <2>1
  <2>4. HostTypeOK' /\ HostOK'
    BY <1>0, <2>2, HostStays DEF host
  <2>5. Filled(ji) /\ ji.of = w[p].rel /\ MineOK(p) /\ jx = NoRelease
    BY <1>3 DEF StageOK, Installing, At
  <2>6. /\ Filled(ji)' /\ ji'.of = w'[p].rel /\ MineOK(p)' /\ jx' = NoRelease
        /\ w'[p].n \in 1 .. Len(Created)
    BY <1>0, <2>3, <2>5, ItemFacts DEF Filled, MineOK, Theirs, host
  <2>7. StageOK(p)'
    BY <2>3, <2>6 DEF StageOK, Installing, Upgrading, Recovering, Uninstalling, Outcome, Chosen,
         At, UpgradePlaces, RollbackPlaces
  <2> QED BY <2>2, <2>4, <2>7 DEF Kept
<1> QED BY <1>1, <1>2, <1>3 DEF StartFails, At

(* A service that does not stop.                                           *)
LEMMA StopsFail ==
  ASSUME InstIInv, NEW p \in Admins, StopFails(p) PROVE Kept(p)
<1> USE InstAssumption DEF InstIInv
<1>0. ProcsOK /\ HostTypeOK /\ HostOK
      /\ UNCHANGED <<disk, account, made, ji, ju, jx, enabled, live>>
  BY DEF HostTypeOK, StopFails
<1>1. up' \in [Services -> MaybeRelease]
  BY <1>0 DEF StopFails, HostTypeOK, MaybeRelease
<1>2. HostOK'
  BY <1>0, HostKept
<1>3. ASSUME ProcsOK' PROVE HostTypeOK'
  BY <1>0, <1>1, <1>3 DEF HostTypeOK, Contents, MaybeRelease
<1>4. CASE Raise(p)
  <2>1. ProcsOK'
    BY <1>0, <1>4, EndFacts
  <2> QED BY <1>0, <1>2, <1>3, <1>4, <2>1, Refused
<1>5. CASE At(p, "uhalt") /\ To(p, "uback")
  <2>1. ProcsOK' /\ Alone(p) /\ Holds(p) /\ w'[p].at = "uback"
    BY <1>0, <1>5, ToFacts
  <2>2. Filled(ju)'
    BY <1>0, <1>5 DEF StageOK, Uninstalling, Filled, At
  <2>3. StageOK(p)'
    BY <2>1, <2>2 DEF StageOK, Installing, Upgrading, Recovering, Uninstalling, Outcome, Chosen,
         At, UpgradePlaces, RollbackPlaces
  <2> QED BY <1>2, <1>3, <2>1, <2>3 DEF Kept
<1> QED BY <1>4, <1>5 DEF StopFails

(* A command that is killed.                                               *)
LEMMA Killed ==
  ASSUME InstIInv, NEW p \in Admins, Kill(p) PROVE Kept(p)
<1>1. ProcsOK' /\ Alone(p) /\ w'[p].at = "idle"
  BY IdleFacts DEF Kill, InstIInv, HostTypeOK
<1>2. HostTypeOK' /\ HostOK'
  BY <1>1, CutFacts, LeftKeepsHost DEF Kill
<1> QED BY <1>1, <1>2, RestsOK DEF Kept

-----------------------------------------------------------------------------
(* The commands are serialized: a process that only waits for the lock, or *)
(* gives it up, leaves the host to the one that holds it.                  *)
LEMMA CutNothing ==
  ASSUME NEW p \in Admins, disk' \in CutShort(p),
         w[p].at \notin {"undo", "cleanup", "remove", "place", "replace", "restore"}
  PROVE  disk' = disk
<1>1. Sequence(p) = <<>>
  BY DEF Sequence, At
<1> QED BY <1>1 DEF CutShort, At, Dirs

(* A process that does not hold the lock changes nothing of the host.      *)
LEMMA WaitersLookOn ==
  ASSUME NEW p \in Admins, Command(p), ~Busy(p)
  PROVE  UNCHANGED <<disk, account, made, ji, ju, jx, up, enabled, live>>
<1> USE DEF Busy, Overlapping, At
<1>1. CASE OpenLock(p) \/ TakeLock(p) \/ UnlinkLock(p) \/ Unlock(p)
  BY <1>1 DEF OpenLock, TakeLock, UnlinkLock, Unlock
<1>2. CASE Kill(p)
  BY <1>2, CutNothing DEF Kill
<1>3. ~(InstallBegin(p) \/ ReleaseRefused(p) \/ HostRefused(p) \/ InstallUndo(p)
        \/ InstallUndone(p))
  BY DEF InstallBegin, ReleaseRefused, HostRefused, InstallUndo, InstallUndone
<1>4. ~(InstallJournalOpen(p) \/ InstallJournalFill(p) \/ InstallAccount(p) \/ InstallPlace(p))
  BY DEF InstallJournalOpen, InstallJournalFill, InstallAccount, InstallPlace
<1>5. ~(InstallEnable(p) \/ InstallReady(p) \/ InstallCleanup(p) \/ InstallCleaned(p))
  BY DEF InstallEnable, InstallReady, InstallCleanup, InstallCleaned
<1>6. ~(UpgradeBegin(p) \/ UpgradeSnapshot(p) \/ UpgradeDrain(p) \/ UpgradeHalt(p)
        \/ UpgradeReplace(p))
  BY DEF UpgradeBegin, UpgradeSnapshot, UpgradeDrain, UpgradeHalt, UpgradeReplace
<1>7. ~(UpgradeActivate(p) \/ UpgradeCommit(p) \/ UpgradeFinal(p) \/ RecoverBegin(p) \/ Rollback(p))
  BY DEF UpgradeActivate, UpgradeCommit, UpgradeFinal, RecoverBegin, Rollback
<1>8. ~(RollbackRestore(p) \/ RollbackRestart(p) \/ RollbackDone(p) \/ UninstallBegin(p))
  BY DEF RollbackRestore, RollbackRestart, RollbackDone, UninstallBegin
<1>9. ~(UninstallJournalOpen(p) \/ UninstallJournalFill(p) \/ UninstallHalt(p) \/ UninstallCheck(p))
  BY DEF UninstallJournalOpen, UninstallJournalFill, UninstallHalt, UninstallCheck
<1>10. ~(UninstallBack(p) \/ UninstallRehalt(p) \/ UninstallRecheck(p) \/ UninstallRemove(p))
  BY DEF UninstallBack, UninstallRehalt, UninstallRecheck, UninstallRemove
<1>11. ~(UninstallAccount(p) \/ UninstallDone(p) \/ WriteFails(p) \/ StartFails(p) \/ StopFails(p))
  BY DEF UninstallAccount, UninstallDone, WriteFails, StartFails, StopFails
<1> QED BY <1>1, <1>2, <1>3, <1>4, <1>5, <1>6, <1>7, <1>8, <1>9, <1>10, <1>11 DEF Command

(* What is said of a process stands while it and the host do.              *)
LEMMA StageStays ==
  ASSUME NEW q, StageOK(q), w'[q] = w[q], UNCHANGED <<disk, account, made, ji, ju, jx, up, enabled>>
  PROVE  StageOK(q)'
<1>1. /\ UNCHANGED <<disk, account, made, ji, ju, jx, up, enabled>> /\ w'[q] = w[q]
  OBVIOUS
<1>2. Installing(q)'
  BY DEF StageOK, Installing, At, MineOK, Theirs, Ours, Filled, Absent, Stopped, Complete,
     ErasedTo, WrittenTo
<1>3. Upgrading(q)'
  BY DEF StageOK, Upgrading, At, Stopped, StoppedTo, Serves, Complete, Whole, WrittenTo,
     UpgradePlaces,
         RollbackPlaces
<1>4. Recovering(q)'
  BY DEF StageOK, Recovering, At, Stopped, StoppedTo, Serves, Complete, WrittenTo, RollbackPlaces
<1>5. Uninstalling(q)'
  BY DEF StageOK, Uninstalling, At, Whole, Complete, Filled, Ours, Theirs, DisabledTo, StoppedTo,
     Off,
         Stopped, ErasedTo, Absent
<1>6. Outcome(q)'
  BY DEF StageOK, Outcome, At, Whole, Complete, Absent
<1> QED BY <1>2, <1>3, <1>4, <1>5, <1>6 DEF StageOK, Chosen, At

(* What is said of the other processes stands: theirs is not the lock.     *)
LEMMA OthersKeep ==
  ASSUME InstIInv, Serialized, NEW p \in Admins, Command(p), Alone(p), NEW q \in Admins, q # p
  PROVE  StageOK(q)'
<1>1. w'[q] = w[q] /\ StageOK(q)
  BY DEF Alone, InstIInv
<1>2. CASE Busy(p)
  <2>1. w[q].at \in {"idle", "flock", "unlock"}
    BY <1>2 DEF Serialized, Busy, Overlapping
  <2>2. CASE w[q].at = "flock"
    BY <1>1, <2>2 DEF StageOK, Chosen, Installing, Upgrading, Recovering, Uninstalling, Outcome, At,
                      UpgradePlaces, RollbackPlaces
  <2>3. CASE w[q].at \in {"idle", "unlock"}
    BY <1>1, <2>3, RestsOK
  <2> QED BY <2>1, <2>2, <2>3
<1>3. CASE ~Busy(p)
  <2>1. UNCHANGED <<disk, account, made, ji, ju, jx, up, enabled, live>>
    BY <1>3, WaitersLookOn
  <2> QED BY <1>1, <2>1, StageStays
<1> QED BY <1>2, <1>3

-----------------------------------------------------------------------------
(* The invariant.                                                          *)
LEMMA CommandKeeps ==
  ASSUME InstIInv, NEW p \in Admins, Command(p) PROVE Kept(p)
<1>1. CASE \/ OpenLock(p) \/ TakeLock(p) \/ UnlinkLock(p) \/ Unlock(p)
           \/ ReleaseRefused(p) \/ HostRefused(p) \/ InstallBegin(p)
  BY <1>1, Locks, InstallBegins
<1>2. CASE \/ InstallUndo(p) \/ InstallUndone(p) \/ InstallJournalOpen(p) \/ InstallJournalFill(p)
           \/ InstallAccount(p) \/ InstallPlace(p) \/ InstallEnable(p) \/ InstallReady(p)
           \/ InstallCleanup(p) \/ InstallCleaned(p)
  BY <1>2, InstallUndoes, InstallRecords, InstallPlaces, InstallServes, InstallCleans
<1>3. CASE \/ UpgradeBegin(p) \/ UpgradeSnapshot(p) \/ UpgradeDrain(p) \/ UpgradeHalt(p)
           \/ UpgradeReplace(p) \/ UpgradeActivate(p) \/ UpgradeCommit(p) \/ UpgradeFinal(p)
  BY <1>3, UpgradeBegins, UpgradeStops, UpgradeReplaces, UpgradeEnds
<1>4. CASE \/ RecoverBegin(p) \/ Rollback(p) \/ RollbackRestore(p) \/ RollbackRestart(p)
           \/ RollbackDone(p)
  BY <1>4, RecoverBegins, UpgradeStops, RollbackRestores, RollbackEnds
<1>5. CASE \/ UninstallBegin(p) \/ UninstallJournalOpen(p) \/ UninstallJournalFill(p)
           \/ UninstallHalt(p) \/ UninstallCheck(p) \/ UninstallBack(p) \/ UninstallRehalt(p)
           \/ UninstallRecheck(p) \/ UninstallRemove(p) \/ UninstallAccount(p) \/ UninstallDone(p)
  BY <1>5, UninstallBegins, UninstallRecords, UninstallStops, UninstallLooks, UninstallRemoves,
     UninstallEnds
<1>6. CASE WriteFails(p) \/ StartFails(p) \/ StopFails(p) \/ Kill(p)
  BY <1>6, WritesFail, StartsFail, StopsFail, Killed
<1> QED BY <1>1, <1>2, <1>3, <1>4, <1>5, <1>6 DEF Command

(* Initially.                                                              *)
LEMMA InstStarts == InstInit => InstIInv
<1> SUFFICES ASSUME InstInit PROVE InstIInv
  OBVIOUS
<1> USE InstAssumption
<1>1. ASSUME NEW p \in Admins
      PROVE  IsProcess(w[p]) /\ w[p].n \in Nat \ {0} /\ w[p].mine \in BOOLEAN /\ w[p].at = "idle"
  <2>1. w[p] = Idle
    BY DEF InstInit
  <2>2. Idle.n = 1 /\ Idle.mine = FALSE /\ Idle.at = "idle"
    BY DEF Idle
  <2>3. IsProcess(Idle)
    BY DEF IsProcess, Idle
  <2>4. IsProcess(w[p])
    BY <2>1, <2>3
  <2>5. w[p].mine \in BOOLEAN
    BY <2>1, <2>2
  <2>6. w[p].n \in Nat \ {0} /\ w[p].at = "idle"
    BY <2>1, <2>2
  <2> QED BY <2>4, <2>5, <2>6
<1>2. ProcsOK
  BY <1>1 DEF InstInit, ProcsOK
<1>3. HostTypeOK
  BY <1>2 DEF InstInit, HostTypeOK, Contents, MaybeRelease, Journal, NoJournal
<1>4. HostOK
  BY ItemFacts DEF InstInit, HostOK, StateHolds, TheirsOK, OursOK, InstallOwns, RemovalOwns,
       ManifestOwns, UpgradeOwns, Filled, Ours, Theirs, NoJournal
<1>5. \A p \in Admins : StageOK(p)
  BY <1>1 DEF StageOK, Installing, Upgrading, Recovering, Uninstalling, Outcome, Chosen, At,
       UpgradePlaces, RollbackPlaces
<1> QED BY <1>3, <1>4, <1>5 DEF InstIInv

(* Every step keeps the invariant.                                         *)
LEMMA InstStep == InstIInv /\ Serialized /\ [InstNext]_instVars => InstIInv'
<1> SUFFICES ASSUME InstIInv, Serialized, [InstNext]_instVars PROVE InstIInv'
  OBVIOUS
<1>1. ASSUME NEW p \in Admins, Command(p) PROVE InstIInv'
  <2>1. Kept(p)
    BY <1>1, CommandKeeps
  <2>2. ASSUME NEW q \in Admins PROVE StageOK(q)'
    BY <1>1, <2>1, <2>2, OthersKeep DEF Kept
  <2> QED BY <2>1, <2>2 DEF Kept, InstIInv
<1>2. CASE WorkloadStarts \/ WorkloadEnds \/ UNCHANGED instVars
  <2>1. UNCHANGED <<disk, account, made, ji, ju, jx, up, enabled, w>> /\ live' \in BOOLEAN
    BY <1>2 DEF WorkloadStarts, WorkloadEnds, instVars, InstIInv, HostTypeOK
  <2>2. HostOK'
    BY <2>1, HostKept DEF InstIInv
  <2>3. HostTypeOK'
    BY <2>1 DEF InstIInv, HostTypeOK, ProcsOK, Contents, MaybeRelease
  <2>4. ASSUME NEW q \in Admins PROVE StageOK(q)'
    BY <2>1, StageStays DEF InstIInv
  <2> QED BY <2>2, <2>3, <2>4 DEF InstIInv
<1> QED BY <1>1, <1>2 DEF InstNext

(* As long as no two commands overlap, the installation is as its journals *)
(* and the processes say (the inductive invariant).                        *)
THEOREM InstInvariance == InstSpec /\ []Serialized => []InstIInv
<1>1. InstIInv /\ Serialized /\ [InstNext]_instVars => InstIInv'
  BY InstStep
<1> QED BY InstStarts, <1>1, PTL DEF InstSpec

-----------------------------------------------------------------------------
(* What is promised of the commands.                                       *)
LEMMA SoReported == InstIInv => OutcomesAreTrue
BY DEF InstIInv, StageOK, Outcome, OutcomesAreTrue

(* What a command reports is so.                                           *)
THEOREM OutcomesHold == InstSpec /\ []Serialized => []OutcomesAreTrue
BY InstInvariance, SoReported, PTL

(* An account that was there before is never removed.                      *)
LEMMA ForeignStays ==
  InstIInv /\ [InstNext]_instVars => (account = "foreign" => account' = "foreign")
<1> SUFFICES ASSUME InstIInv, [InstNext]_instVars, account = "foreign", account' # account
             PROVE  FALSE
  OBVIOUS
<1>1. Theirs /\ ~ji.made /\ ~ju.made
  BY DEF InstIInv, HostOK, TheirsOK, Theirs
<1>2. PICK p \in Admins : Command(p)
  BY DEF InstNext, WorkloadStarts, WorkloadEnds, instVars
<1>3. StageOK(p)
  BY DEF InstIInv
<1>4. ~(InstallUndone(p) \/ InstallAccount(p) \/ InstallCleaned(p) \/ UninstallAccount(p))
  <2>1. ~(InstallUndone(p) \/ InstallAccount(p) \/ UninstallAccount(p))
    BY <1>1 DEF InstallUndone, InstallAccount, UninstallAccount
  <2>2. ~InstallCleaned(p)
    BY <1>1, <1>3 DEF InstallCleaned, StageOK, Installing, MineOK, At
  <2> QED BY <2>1, <2>2
<1>5. ~(OpenLock(p) \/ TakeLock(p) \/ UnlinkLock(p) \/ Unlock(p) \/ Kill(p))
  BY DEF OpenLock, TakeLock, UnlinkLock, Unlock, Kill
<1>6. ~(InstallBegin(p) \/ ReleaseRefused(p) \/ HostRefused(p) \/ InstallUndo(p)
        \/ InstallJournalOpen(p))
  BY DEF InstallBegin, ReleaseRefused, HostRefused, InstallUndo, InstallJournalOpen, host
<1>7. ~(InstallJournalFill(p) \/ InstallPlace(p) \/ InstallEnable(p) \/ InstallReady(p)
        \/ InstallCleanup(p))
  BY DEF InstallJournalFill, InstallPlace, InstallEnable, InstallReady, InstallCleanup
<1>8. ~(UpgradeBegin(p) \/ UpgradeSnapshot(p) \/ UpgradeDrain(p) \/ UpgradeHalt(p)
        \/ UpgradeReplace(p))
  BY DEF UpgradeBegin, UpgradeSnapshot, UpgradeDrain, UpgradeHalt, UpgradeReplace, host
<1>9. ~(UpgradeActivate(p) \/ UpgradeCommit(p) \/ UpgradeFinal(p) \/ RecoverBegin(p) \/ Rollback(p))
  BY DEF UpgradeActivate, UpgradeCommit, UpgradeFinal, RecoverBegin, Rollback, host
<1>10. ~(RollbackRestore(p) \/ RollbackRestart(p) \/ RollbackDone(p) \/ UninstallBegin(p))
  BY DEF RollbackRestore, RollbackRestart, RollbackDone, UninstallBegin, host
<1>11. ~(UninstallJournalOpen(p) \/ UninstallJournalFill(p) \/ UninstallHalt(p)
         \/ UninstallCheck(p))
  BY DEF UninstallJournalOpen, UninstallJournalFill, UninstallHalt, UninstallCheck, host
<1>12. ~(UninstallBack(p) \/ UninstallRehalt(p) \/ UninstallRecheck(p) \/ UninstallRemove(p))
  BY DEF UninstallBack, UninstallRehalt, UninstallRecheck, UninstallRemove, host
<1>13. ~(UninstallDone(p) \/ WriteFails(p) \/ StartFails(p) \/ StopFails(p))
  BY DEF UninstallDone, WriteFails, StartFails, StopFails, host
<1> QED BY <1>2, <1>4, <1>5, <1>6, <1>7, <1>8, <1>9, <1>10, <1>11, <1>12, <1>13 DEF Command

(* The product's account is on record as long as it exists.                *)
LEMMA OursOnRecord ==
  InstIInv => (account = "ours" => ji.made \/ ju.made \/ (made /\ disk["manifest"] # "none")
                                   \/ ji = Torn \/ ju = Torn)
BY InstAssumption DEF InstIInv, HostTypeOK, HostOK, OursOK, InstallOwns, RemovalOwns, Journal,
   Filled,
   Ours, Theirs

(* The workload account of the host is kept, the product's is on record.   *)
THEOREM AccountsAreKept == InstSpec /\ []Serialized => AccountsKept
<1>1. InstSpec /\ []Serialized => [][account = "foreign" => account' = "foreign"]_instVars
  <2>1. InstIInv /\ [InstNext]_instVars => [account = "foreign" => account' = "foreign"]_instVars
    BY ForeignStays
  <2> QED BY InstInvariance, <2>1, PTL DEF InstSpec
<1>2. InstSpec /\ []Serialized =>
        [](account = "ours" => ji.made \/ ju.made \/ (made /\ disk["manifest"] # "none")
                               \/ ji = Torn \/ ju = Torn)
  BY InstInvariance, OursOnRecord, PTL
<1> QED BY <1>1, <1>2 DEF AccountsKept

-----------------------------------------------------------------------------
(* What can leave an installation without a journal to recover it by.      *)
LEMMA CoveredStays == Covered /\ UNCHANGED <<disk, ji, ju, jx>> => Covered'
BY DEF Covered, Absent, Whole, Complete

(* Any of these covers the installation after a step.                      *)
LEMMA CoveredBy ==
  ji' # NoJournal \/ ju' # NoJournal \/ jx' # NoRelease \/ Absent' \/ Whole' => Covered'
BY DEF Covered

(* No step of an installation uncovers it.                                 *)
LEMMA InstallCovers ==
  ASSUME InstIInv, Covered, NEW p \in Admins,
         \/ InstallUndo(p) \/ InstallUndone(p) \/ InstallJournalOpen(p) \/ InstallJournalFill(p)
         \/ InstallPlace(p) \/ InstallReady(p) \/ InstallCleanup(p) \/ InstallCleaned(p)
  PROVE  Covered'
<1> USE InstAssumption
<1>0. StageOK(p) /\ NoJournal.of \notin Releases /\ Torn # NoJournal
  BY DEF InstIInv, NoJournal, Torn
<1>1. CASE InstallUndo(p) \/ InstallPlace(p) \/ InstallCleanup(p)
  <2>1. Filled(ji) /\ ji' = ji
    BY <1>0, <1>1 DEF InstallUndo, InstallPlace, InstallCleanup, StageOK, Installing, At
  <2> QED BY <1>0, <2>1, CoveredBy DEF Filled
<1>2. CASE InstallUndone(p)
  BY <1>0, <1>2, CoveredBy DEF InstallUndone, StageOK, Installing, Absent
<1>3. CASE InstallJournalOpen(p)
  BY <1>0, <1>3, CoveredBy DEF InstallJournalOpen
<1>4. CASE InstallJournalFill(p)
  <2>1. ji'.of \in Releases
    BY <1>0, <1>4 DEF InstallJournalFill, StageOK, Installing
  <2> QED BY <1>0, <2>1, CoveredBy
<1>5. CASE InstallReady(p)
  <2>1. Complete(w[p].rel) /\ w[p].rel \in Releases /\ disk' = disk
    BY <1>0, <1>5 DEF InstallReady, StageOK, Installing, At, Filled
  <2> QED BY <2>1, CoveredBy DEF Whole, Complete
<1>6. CASE InstallCleaned(p)
  <2>1. Filled(ji) /\ disk' = disk /\ ji' = IF Absent THEN NoJournal ELSE ji
    BY <1>0, <1>6 DEF InstallCleaned, StageOK, Installing, At
  <2> QED BY <1>0, <2>1, CoveredBy DEF Filled, Absent
<1> QED BY <1>1, <1>2, <1>3, <1>4, <1>5, <1>6

(* No step of an upgrade or its recovery, but for that one.                *)
LEMMA UpgradeCovers ==
  ASSUME InstIInv, Covered, NEW p \in Admins, ~(At(p, "restore") /\ jx = NoRelease),
         \/ UpgradeSnapshot(p) \/ UpgradeReplace(p) \/ UpgradeCommit(p) \/ RollbackRestore(p)
         \/ RollbackRestart(p)
  PROVE  Covered'
<1> USE InstAssumption
<1>0. StageOK(p)
  BY DEF InstIInv
<1>1. CASE UpgradeSnapshot(p)
  <2>1. Whole /\ disk' = disk
    BY <1>0, <1>1 DEF UpgradeSnapshot, StageOK, Upgrading
  <2> QED BY <2>1, CoveredBy DEF Whole, Complete
<1>2. CASE UpgradeReplace(p) \/ RollbackRestore(p)
  <2>1. jx # NoRelease /\ jx' = jx
    BY <1>0, <1>2 DEF UpgradeReplace, RollbackRestore, StageOK, Upgrading, At, host
  <2> QED BY <2>1, CoveredBy
<1>3. CASE UpgradeCommit(p)
  <2>1. Complete(w[p].rel) /\ w[p].rel \in Releases /\ disk' = disk
    BY <1>0, <1>3 DEF UpgradeCommit, StageOK, Upgrading, UpgradePlaces, At
  <2> QED BY <2>1, CoveredBy DEF Whole, Complete
<1>4. CASE RollbackRestart(p)
  <2>1. Complete(w[p].old) /\ w[p].old \in Releases /\ disk' = disk
    BY <1>0, <1>4 DEF RollbackRestart, StageOK, Upgrading, Recovering, RollbackPlaces, At
  <2> QED BY <2>1, CoveredBy DEF Whole, Complete
<1> QED BY <1>1, <1>2, <1>3, <1>4

(* No step of a removal.                                                   *)
LEMMA UninstallCovers ==
  ASSUME InstIInv, Covered, NEW p \in Admins,
         UninstallJournalOpen(p) \/ UninstallJournalFill(p) \/ UninstallRemove(p)
         \/ UninstallDone(p)
  PROVE  Covered'
<1> USE InstAssumption
<1>0. StageOK(p) /\ NoJournal.of \notin Releases /\ Torn # NoJournal
  BY DEF InstIInv, NoJournal, Torn
<1>1. CASE UninstallJournalOpen(p)
  BY <1>0, <1>1, CoveredBy DEF UninstallJournalOpen
<1>2. CASE UninstallJournalFill(p)
  <2>1. Whole /\ disk' = disk
    BY <1>0, <1>2 DEF UninstallJournalFill, StageOK, Uninstalling, At
  <2> QED BY <2>1, CoveredBy DEF Whole, Complete
<1>3. CASE UninstallRemove(p)
  <2>1. Filled(ju) /\ ju' = ju
    BY <1>0, <1>3 DEF UninstallRemove, StageOK, Uninstalling, At
  <2> QED BY <1>0, <2>1, CoveredBy DEF Filled
<1>4. CASE UninstallDone(p)
  BY <1>0, <1>4, CoveredBy DEF UninstallDone, StageOK, Uninstalling, At, Absent
<1> QED BY <1>1, <1>2, <1>3, <1>4

(* No write that fails and no kill, but in that one.                       *)
LEMMA FaultsCover ==
  ASSUME InstIInv, Covered, NEW p \in Admins, ~(At(p, "restore") /\ jx = NoRelease),
         WriteFails(p) \/ Kill(p)
  PROVE  Covered'
<1> USE InstAssumption
<1>0. StageOK(p) /\ NoJournal.of \notin Releases /\ UNCHANGED jx
  BY DEF InstIInv, NoJournal, WriteFails, Kill
<1>1. CASE At(p, "fill") /\ disk' = disk
  BY <1>0, <1>1, CoveredBy DEF StageOK, Installing, Absent
<1>2. CASE At(p, "ufill") /\ disk' = disk
  BY <1>0, <1>2, CoveredBy DEF StageOK, Uninstalling, At, Whole, Complete
<1>3. CASE UNCHANGED <<ji, ju>> /\ disk' \in CutShort(p)
  <2>1. CASE w[p].at \in {"undo", "cleanup", "place"}
    <3>1. Filled(ji)
      BY <1>0, <2>1 DEF StageOK, Installing, At
    <3> QED BY <1>0, <1>3, <3>1, CoveredBy DEF Filled
  <2>2. CASE w[p].at = "remove"
    <3>1. Filled(ju)
      BY <1>0, <2>2 DEF StageOK, Uninstalling
    <3> QED BY <1>0, <1>3, <3>1, CoveredBy DEF Filled
  <2>3. CASE w[p].at \in {"replace", "restore"}
    <3>1. jx # NoRelease
      BY <1>0, <2>3 DEF StageOK, Upgrading, At
    <3> QED BY <1>0, <3>1, CoveredBy
  <2>4. CASE w[p].at \notin {"undo", "cleanup", "remove", "place", "replace", "restore"}
    <3>1. disk' = disk
      BY <1>3, <2>4, CutNothing
    <3> QED BY <1>0, <1>3, <3>1, CoveredStays
  <2> QED BY <2>1, <2>2, <2>3, <2>4
<1>4. CASE UNCHANGED <<disk, ji, ju>>
  BY <1>0, <1>4, CoveredStays
<1> QED BY <1>1, <1>2, <1>3, <1>4 DEF WriteFails, Kill, At

(* The one step that can.                                                  *)
LEMMA Uncovers ==
  InstIInv /\ [InstNext]_instVars =>
    (Covered /\ ~Covered' => \E p \in Admins : At(p, "restore") /\ jx = NoRelease)
<1> SUFFICES ASSUME InstIInv, [InstNext]_instVars, Covered, ~Covered'
             PROVE  \E p \in Admins : At(p, "restore") /\ jx = NoRelease
  OBVIOUS
<1>1. ~UNCHANGED <<disk, ji, ju, jx>>
  BY CoveredStays
<1>2. PICK p \in Admins : Command(p)
  BY <1>1 DEF InstNext, WorkloadStarts, WorkloadEnds, instVars
<1>3. ~(OpenLock(p) \/ TakeLock(p) \/ UnlinkLock(p) \/ Unlock(p))
  BY <1>1 DEF OpenLock, TakeLock, UnlinkLock, Unlock
<1>4. ~(\/ InstallBegin(p) \/ ReleaseRefused(p) \/ HostRefused(p) \/ InstallAccount(p)
        \/ InstallEnable(p))
  BY <1>1 DEF InstallBegin, ReleaseRefused, HostRefused, InstallAccount, InstallEnable, host
<1>5. ~(\/ UpgradeBegin(p) \/ UpgradeDrain(p) \/ UpgradeHalt(p) \/ UpgradeActivate(p)
        \/ UpgradeFinal(p))
  BY <1>1 DEF UpgradeBegin, UpgradeDrain, UpgradeHalt, UpgradeActivate, UpgradeFinal, host
<1>6. ~(\/ RecoverBegin(p) \/ Rollback(p) \/ RollbackDone(p) \/ UninstallBegin(p)
        \/ UninstallHalt(p))
  BY <1>1 DEF RecoverBegin, Rollback, RollbackDone, UninstallBegin, UninstallHalt, host
<1>7. ~(\/ UninstallCheck(p) \/ UninstallBack(p) \/ UninstallRehalt(p) \/ UninstallRecheck(p))
  BY <1>1 DEF UninstallCheck, UninstallBack, UninstallRehalt, UninstallRecheck, host
<1>8. ~(\/ UninstallAccount(p) \/ StartFails(p) \/ StopFails(p))
  BY <1>1 DEF UninstallAccount, StartFails, StopFails, host
<1>9. ~(\/ InstallUndo(p) \/ InstallUndone(p) \/ InstallJournalOpen(p) \/ InstallJournalFill(p)
        \/ InstallPlace(p) \/ InstallReady(p) \/ InstallCleanup(p) \/ InstallCleaned(p))
  BY InstallCovers
<1>10. ~(UninstallJournalOpen(p) \/ UninstallJournalFill(p) \/ UninstallRemove(p)
         \/ UninstallDone(p))
  BY UninstallCovers
<1>11. At(p, "restore") /\ jx = NoRelease
  <2>1. \/ UpgradeSnapshot(p) \/ UpgradeReplace(p) \/ UpgradeCommit(p) \/ RollbackRestore(p)
        \/ RollbackRestart(p) \/ WriteFails(p) \/ Kill(p)
    BY <1>2, <1>3, <1>4, <1>5, <1>6, <1>7, <1>8, <1>9, <1>10 DEF Command
  <2> QED BY <2>1, UpgradeCovers, FaultsCover
<1> QED BY <1>11

(* One step alone can leave an installation that is neither absent nor of  *)
(* one release without a journal: a rollback that has none, as its upgrade *)
(* had dropped it or could not write it.                                   *)
THEOREM UncoveredByRollbackOnly == InstSpec /\ []Serialized => OnlyRollbackUncovers
<1>1. InstIInv /\ [InstNext]_instVars =>
        [Covered /\ ~Covered' => \E p \in Admins : At(p, "restore") /\ jx = NoRelease]_instVars
  BY Uncovers
<1> QED BY InstInvariance, <1>1, PTL DEF InstSpec, OnlyRollbackUncovers

(* A single administrator's commands are serialized as they are.           *)
THEOREM OneAdministrator ==
  ASSUME \A p, q \in Admins : p = q
  PROVE  InstSpec => []OutcomesAreTrue /\ OnlyRollbackUncovers /\ AccountsKept
<1>1. Serialized
  BY DEF Serialized
<1>2. []Serialized
  BY <1>1, PTL
<1> QED BY <1>2, OutcomesHold, UncoveredByRollbackOnly, AccountsAreKept, PTL
=============================================================================
