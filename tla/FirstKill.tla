----------------------------- MODULE FirstKill -----------------------------
(***************************************************************************)
(* The guided first kill (scripts/first_kill.py): check the host, verify a *)
(* release, install it, have a real workload killed, remove it if asked,   *)
(* and publish a result; every failure reports how far the installation    *)
(* got.  Several runs may share the host and the destination.              *)
(***************************************************************************)
EXTENDS Naturals, FiniteSets

CONSTANTS
  Campaigns,      \* the runs of the script
  Removing,       \* those with --remove; the others have --keep
  Offers,         \* what the mirror and the checkout may offer
  FkFaults,       \* bound: calls of a publication that fail
  Nobody          \* owner of an installation that is not there

(* A run has a name of its own.                                            *)
ASSUME FkAssumption == Campaigns \cap {"none", "foreign", Nobody} = {}

VARIABLES
  offer,          \* the origin of each asset and of the tag
  install,        \* the installation on the host: how complete, whose, from what
  workspace,      \* the runs whose workspace is there
  assets,         \* who made the AI assets
  run,            \* the runs
  smoke, receipts, \* the workload of a run, and the detection receipts on the host
  dest,           \* the destination
  temp,           \* the temporary file of a run: "none", "new", the run's "own" by its identity,
                  \* or "stuck" where its removal failed
  dirSame,        \* the directory of the destination is the one that was opened
  fkFaults

hostVars == <<install, workspace, assets, smoke, receipts>>
pubVars == <<dest, temp, dirSame, fkFaults>>
fkVars == <<offer, hostVars, run, pubVars>>

Genuine == [key |-> "this", tag |-> "this", sums |-> "this", bundle |-> "this"]
Free == [of |-> "none"]
Foreign == [of |-> "foreign"]
IsOf(d, r) == d.of = r
NoInstall == [is |-> "none", of |-> Nobody, bundle |-> "none"]

FkInit ==
  /\ offer \in Offers /\ install = NoInstall /\ workspace = {} /\ assets \in {"none", "foreign"}
  /\ run = [r \in Campaigns |-> [pc |-> "check", stage |-> "pre-install", claim |-> "NOT_INSTALLED",
                                 pre |-> FALSE, commit |-> "none", before |-> {}, exit |-> "none"]]
  /\ smoke = [r \in Campaigns |-> "none"] /\ receipts = {}
  /\ dest \in {Free, Foreign} /\ temp = [r \in Campaigns |-> "none"] /\ dirSame = TRUE /\ fkFaults = 0

-----------------------------------------------------------------------------
Moves(r, pc) == run' = [run EXCEPT ![r].pc = pc]

(* A FirstKillError is reported with the stage and the claim of the moment; *)
(* an interrupt or any other exception ends the run without a report.      *)
RunEnds(r) == \E how \in {"reported", "interrupted"} : run' = [run EXCEPT ![r].pc = "end", ![r].exit = how]
Reached(r, pc) == run[r].pc = pc

FailsAt(r, pcs) ==
  /\ run[r].pc \in pcs /\ RunEnds(r)
  /\ UNCHANGED <<offer, hostVars, pubVars>>

(* operator, compatibility, and the first look at the destination.         *)
CheckHost(r) ==
  /\ Reached(r, "check") /\ dest = Free /\ install.is = "none"
  /\ Moves(r, "prepare") /\ UNCHANGED <<offer, hostVars, pubVars>>

PrepareWorkspace(r) ==
  /\ Reached(r, "prepare") /\ dest = Free /\ workspace' = workspace \cup {r}
  /\ run' = [run EXCEPT ![r].pc = "verify", ![r].pre = assets # "none"]
  /\ UNCHANGED <<offer, install, assets, smoke, receipts, pubVars>>

(* The key is the pinned one; the tag and the sums are signed with it; the *)
(* sums list the bundle under this release's name; the bundle's manifest   *)
(* names the commit of the tag.                                            *)
Signed(o, part) == o.key = "this" /\ o[part] # "forged"
Listed(o) == o.sums = "this" /\ o.bundle \in {"this", "misbuilt"}
CommitOf(o, part) == o[part]

(* Mutant: the commit of the manifest is not compared with the tag's.      *)
ReleaseVerifiedApart(o) == Signed(o, "tag") /\ Signed(o, "sums") /\ Listed(o)

ReleaseVerified(o) == Signed(o, "tag") /\ Signed(o, "sums") /\ Listed(o) /\ CommitOf(o, "bundle") = CommitOf(o, "tag")

(* Mutant: the claim changes when the installer has returned.              *)
VerifyReleaseEarly(r) ==
  /\ Reached(r, "verify") /\ ReleaseVerified(offer)
  /\ run' = [run EXCEPT ![r] = [@ EXCEPT !.pc = "install", !.stage = "install",
                                         !.commit = CommitOf(offer, "tag")]]
  /\ UNCHANGED <<offer, hostVars, pubVars>>

VerifyRelease(r) ==
  /\ Reached(r, "verify") /\ ReleaseVerified(offer)
  /\ run' = [run EXCEPT ![r] = [@ EXCEPT !.pc = "install", !.stage = "install",
                                         !.claim = "UNKNOWN_OR_PARTIAL", !.commit = CommitOf(offer, "tag")]]
  /\ UNCHANGED <<offer, hostVars, pubVars>>

(* The installer refuses a host that has an installation, and may be cut   *)
(* short with some of it there.                                            *)
Install(r) ==
  /\ Reached(r, "install") /\ install.is = "none"
  /\ \/ /\ install' = [is |-> "full", of |-> r, bundle |-> offer.bundle]
        /\ run' = [run EXCEPT ![r].pc = "assets", ![r].stage = "post-install", ![r].claim = "INSTALLED"]
     \/ /\ install' = [is |-> "partial", of |-> r, bundle |-> offer.bundle] /\ RunEnds(r)
  /\ UNCHANGED <<offer, workspace, assets, smoke, receipts, pubVars>>

-----------------------------------------------------------------------------
(* run_real_smoke: assets, canary and workload, the wait for a receipt that *)
(* was not there before, and the clean-up whatever happened.               *)
PrepareAssets(r) ==
  /\ Reached(r, "assets") /\ assets' = IF assets = "none" THEN r ELSE assets
  /\ \/ Moves(r, "start")
     \/ RunEnds(r)
  /\ UNCHANGED <<offer, install, workspace, smoke, receipts, pubVars>>

StartWorkload(r) ==
  /\ Reached(r, "start") /\ smoke' = [smoke EXCEPT ![r] = "running"]
  /\ run' = [run EXCEPT ![r].pc = "watch", ![r].before = receipts]
  /\ UNCHANGED <<offer, install, workspace, assets, receipts, pubVars>>

(* Eggcracker kills the workload, or another of its kind on the host.      *)
WorkloadKilled(r) ==
  /\ install.is = "full" /\ smoke[r] = "running"
  /\ smoke' = [smoke EXCEPT ![r] = "terminated"] /\ receipts' = receipts \cup {r}
  /\ UNCHANGED <<offer, install, workspace, assets, run, pubVars>>

DetectedOther ==
  /\ install.is = "full" /\ "other" \notin receipts /\ receipts' = receipts \cup {"other"}
  /\ UNCHANGED <<offer, install, workspace, assets, smoke, run, pubVars>>

SmokeEnds(r) ==
  /\ smoke[r] = "running" /\ smoke' = [smoke EXCEPT ![r] = "ended"]
  /\ UNCHANGED <<offer, install, workspace, assets, receipts, run, pubVars>>

Reaped(r) == smoke' = [smoke EXCEPT ![r] = IF @ = "running" THEN "ended" ELSE @]

Watch(r) ==
  /\ Reached(r, "watch") /\ Reaped(r)
  /\ \/ receipts \ run[r].before # {} /\ Moves(r, IF r \in Removing THEN "uninstall" ELSE "build")
     \/ RunEnds(r)
  /\ UNCHANGED <<offer, install, workspace, assets, receipts, pubVars>>

-----------------------------------------------------------------------------
(* remove_installation: the uninstaller, its verifier, and trees removed   *)
(* as far as they can be; verify_removed_targets looks at all of it.       *)
Removal(r) ==
  /\ Reached(r, "uninstall")
  /\ run' = [run EXCEPT ![r].pc = "sweep", ![r].stage = "removal", ![r].claim = "UNKNOWN_OR_PARTIAL"]
  /\ UNCHANGED <<offer, hostVars, pubVars>>

Sweep(r) ==
  /\ Reached(r, "sweep")
  /\ \/ /\ install' = NoInstall /\ receipts' = {} /\ Moves(r, "verifyGone")
        /\ workspace' \in {workspace, workspace \ {r}}
        /\ assets' \in IF run[r].pre THEN {assets} ELSE {assets, "none"}
     \/ /\ install' \in {install, [install EXCEPT !.is = "partial"], NoInstall} /\ RunEnds(r)
        /\ UNCHANGED <<workspace, assets, receipts>>
  /\ UNCHANGED <<offer, smoke, pubVars>>

(* Mutant: what could not be removed is not looked for.                    *)
VerifyGoneUnseen(r) ==
  /\ Reached(r, "verifyGone")
  /\ run' = [run EXCEPT ![r].pc = "build", ![r].claim = "NOT_INSTALLED"]
  /\ UNCHANGED <<offer, hostVars, pubVars>>

VerifyGone(r) ==
  /\ Reached(r, "verifyGone") /\ install.is = "none" /\ r \notin workspace /\ (run[r].pre \/ assets = "none")
  /\ run' = [run EXCEPT ![r].pc = "build", ![r].claim = "NOT_INSTALLED"]
  /\ UNCHANGED <<offer, hostVars, pubVars>>

-----------------------------------------------------------------------------
(* publish_success_result: a private temporary file, looked at again and   *)
(* linked, never renamed, to a name that is free.                          *)
Document(r) == [of |-> r, commit |-> run[r].commit,
                disposition |-> IF r \in Removing THEN "REMOVED" ELSE "RETAINED",
                assets |-> IF run[r].pre THEN "EXCLUDED"
                           ELSE IF r \in Removing THEN "NEW_REMOVED" ELSE "NEW_RETAINED"]

Build(r) ==
  /\ Reached(r, "build") /\ dest = Free /\ dirSame
  /\ run' = [run EXCEPT ![r].pc = "write", ![r].stage = "publication"]
  /\ UNCHANGED <<offer, hostVars, pubVars>>

(* The file is there before the run knows its identity: fchmod, fstat and  *)
(* the look at its mode come in between.                                   *)
Temporary(r, is) == temp' = [temp EXCEPT ![r] = is]

CreateTemporary(r) ==
  /\ Reached(r, "write") /\ Temporary(r, "new") /\ Moves(r, "identify")
  /\ UNCHANGED <<offer, hostVars, dest, dirSame, fkFaults>>

WriteTemporary(r) ==
  /\ Reached(r, "identify") /\ Temporary(r, "own") /\ Moves(r, "look")
  /\ UNCHANGED <<offer, hostVars, dest, dirSame, fkFaults>>

LookAgain(r) ==
  /\ Reached(r, "look") /\ dirSame /\ dest = Free /\ Moves(r, "link")
  /\ UNCHANGED <<offer, hostVars, pubVars>>

(* Mutant: the temporary file is renamed over the destination.             *)
LinkOver(r) ==
  /\ Reached(r, "link") /\ dest' = Document(r) /\ Moves(r, "confirm")
  /\ UNCHANGED <<offer, hostVars, temp, dirSame, fkFaults>>

Link(r) ==
  /\ Reached(r, "link") /\ dest = Free /\ dest' = Document(r) /\ Moves(r, "confirm")
  /\ UNCHANGED <<offer, hostVars, temp, dirSame, fkFaults>>

(* The temporary file goes by its identity, from the directory that was    *)
(* opened, if the calls for it do not fail.                                *)
Unlinked(r, failed) ==
  IF dirSame /\ temp[r] = "own" THEN Temporary(r, IF failed = 0 THEN "none" ELSE "stuck")
                                ELSE UNCHANGED temp

CallsFail(n) == fkFaults' = fkFaults + n /\ fkFaults' <= FkFaults

Confirm(r) ==
  /\ Reached(r, "confirm") /\ dirSame /\ Unlinked(r, 0)
  /\ run' = [run EXCEPT ![r].pc = "end", ![r].exit = "done"]
  /\ UNCHANGED <<offer, hostVars, dest, dirSame, fkFaults>>

BeforeLink == {"build", "write", "identify", "look", "link"}

(* A call fails, or the destination is not free, or the directory another. *)
PublicationFails(r) ==
  /\ run[r].pc \in BeforeLink
  /\ \E failed, again \in {0, 1} :
       /\ failed = 1 \/ dest # Free \/ ~dirSame
       /\ CallsFail(failed + again) /\ Unlinked(r, again)
  /\ run' = [run EXCEPT ![r].pc = "end", ![r].stage = "publication", ![r].exit = "reported"]
  /\ UNCHANGED <<offer, hostVars, dest, dirSame>>

(* What was linked is taken back if the directory is the same.             *)
ConfirmFails(r) ==
  /\ Reached(r, "confirm")
  /\ \E failed \in {0, 1} : (failed = 1 \/ ~dirSame) /\ CallsFail(failed)
  /\ run' = [run EXCEPT ![r].pc = "undo", ![r].stage = "publication"]
  /\ UNCHANGED <<offer, hostVars, dest, temp, dirSame>>

Undo(r) ==
  /\ Reached(r, "undo")
  /\ \E failed, again \in {0, 1} :
       /\ dest' = IF dirSame /\ IsOf(dest, r) /\ failed = 0 THEN Free ELSE dest
       /\ CallsFail(failed + again) /\ Unlinked(r, again)
  /\ run' = [run EXCEPT ![r].pc = "end", ![r].exit = "reported"]
  /\ UNCHANGED <<offer, hostVars, dirSame>>

(* An interrupt leaves what is linked, and takes the temporary file away.  *)
Interrupt(r) ==
  /\ run[r].pc \in BeforeLink \cup {"confirm"}
  /\ \E failed \in {0, 1} : CallsFail(failed) /\ Unlinked(r, failed)
  /\ run' = [run EXCEPT ![r].pc = "end", ![r].exit = "interrupted"]
  /\ UNCHANGED <<offer, hostVars, dest, dirSame>>

-----------------------------------------------------------------------------
Elsewhere ==
  /\ \/ dest = Free /\ dest' = Foreign /\ UNCHANGED dirSame
     \/ dirSame /\ dirSame' = FALSE /\ UNCHANGED dest
  /\ UNCHANGED <<offer, hostVars, run, temp, fkFaults>>

FkNext ==
  \/ \E r \in Campaigns :
       \/ CheckHost(r) \/ PrepareWorkspace(r) \/ VerifyRelease(r) \/ Install(r) \/ PrepareAssets(r) \/ StartWorkload(r)
       \/ WorkloadKilled(r) \/ SmokeEnds(r) \/ Watch(r) \/ Removal(r) \/ Sweep(r) \/ VerifyGone(r)
       \/ Build(r) \/ CreateTemporary(r) \/ WriteTemporary(r) \/ LookAgain(r) \/ Link(r) \/ Confirm(r)
       \/ PublicationFails(r) \/ ConfirmFails(r) \/ Undo(r) \/ Interrupt(r)
       \/ FailsAt(r, {"check", "prepare", "verify", "install", "start", "uninstall", "verifyGone"})
  \/ DetectedOther \/ Elsewhere

FkSpec == FkInit /\ [][FkNext]_fkVars

-----------------------------------------------------------------------------
(* What a run says of the host is so, whatever failed and whichever run    *)
(* shares the host: a failure that claims nothing is installed left        *)
(* nothing of its own, one that claims an installation left all of it, and *)
(* a document tells the commit of what was installed, a removal only when  *)
(* the installation, the workspace and the new assets are gone, and that   *)
(* assets are new only when they are not the operator's; its workload does *)
(* not outlive it.                                                         *)
ClaimsAreTrue ==
  /\ \A r \in Campaigns :
       run[r].exit = "reported" =>
         /\ run[r].claim = "NOT_INSTALLED" => install.of # r
         /\ run[r].claim = "INSTALLED" => install.of = r /\ install.is = "full"
  /\ \A r \in Campaigns : Reached(r, "end") => smoke[r] # "running"
  /\ \A r \in Campaigns :
       IsOf(dest, r) =>
         /\ dest.disposition = "REMOVED" => install.of # r /\ r \notin workspace
         /\ dest.disposition = "RETAINED" => install.of = r /\ install.is = "full" /\ install.bundle = dest.commit
         /\ dest.assets = "NEW_REMOVED" => assets # r
         /\ dest.assets # "EXCLUDED" => assets # "foreign"

(* The operator's own assets stay as they are, whichever runs end first.   *)
AssetsUntouched == [][assets = "foreign" => assets' = "foreign"]_fkVars

(* Documented: assets that were there before are excluded and untouched.   *)
ExcludedStand ==
  \A r \in Campaigns : IsOf(dest, r) /\ dest.assets = "EXCLUDED" => assets # "none"

(* A result is published once: nothing that stands at the destination is   *)
(* ever replaced or removed except by the run that published it and then   *)
(* failed; a run that ends well published and left no temporary file; one  *)
(* that reports a failure (of at most one call) in a directory that stayed *)
(* did not publish; and however it failed or was interrupted there, it     *)
(* took away the temporary file that it knew as its own, if that did not   *)
(* fail as well (one created but not yet identified stays).                *)
PublishedOnce ==
  /\ [][dest # Free /\ dest' # dest => dest' = Free /\ \E r \in Campaigns : IsOf(dest, r) /\ Reached(r, "undo")]_fkVars
  /\ [](\A r \in Campaigns :
          /\ run[r].exit = "done" => IsOf(dest, r) /\ temp[r] = "none"
          /\ run[r].exit = "reported" /\ dirSame /\ fkFaults <= 1 => ~IsOf(dest, r)
          /\ run[r].exit \in {"reported", "interrupted"} /\ dirSame => temp[r] # "own")
=============================================================================
