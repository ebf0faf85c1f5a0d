------------------------------ MODULE Handoff ------------------------------
(***************************************************************************)
(* The receipt of an operator's kill and the handoff made from it.  The    *)
(* supervisor writes the receipt before the cleanup and again after it     *)
(* (supervisor.py: _contain; records.py: make_receipt) and answers with    *)
(* it; prepare-kill-receipt-handoff reads the file, or the answer that was *)
(* saved, validates it and publishes a projection as a new file            *)
(* (kill_receipt.py; jsonio.py: write_new_json).                           *)
(***************************************************************************)
EXTENDS Naturals

CONSTANTS
  Publishers,    \* handoffs being prepared for one output path
  HandoffFaults  \* steps that fail, and crashes

VARIABLES
  kill,     \* the supervisor's step
  disk,     \* the receipt file, replaced whole by each write; its version
  reply,    \* the answer to the operator
  facts,    \* what the cleanup did
  job,      \* for each publisher its step, the version it saw and the document it has
  output,   \* the file at the output path
  temps,    \* publishers whose temporary file is there
  haps
handoffVars == <<kill, disk, reply, facts, job, output, temps, haps>>

None == "none"
(* systemctl's return code; what became of the boundary; whether the       *)
(* boundary of the record could be read; and whether a text of it is       *)
(* longer than the reader allows: systemctl's own is stored uncut, and the *)
(* others are cut by characters, where the reader counts bytes.            *)
Cleanups == {c \in [stop : {0, 1}, boundary : {"absent", "removed", "error"}, unread : BOOLEAN,
                    overlong : BOOLEAN] : c.unread => c.boundary = "absent"}
(* A receipt: its trigger, the cleanup, and the two fields that only an     *)
(* answer has.  The moments of the kill, read one after the other from one *)
(* clock, are in order.                                                    *)
NoCleanup == [stop |-> 0, boundary |-> None, unread |-> FALSE, overlong |-> FALSE]
NoDocument == [trigger |-> None]
NoFile == [version |-> 0, doc |-> NoDocument]

HandoffInit ==
  /\ kill = "contained" /\ disk = NoFile /\ reply = NoDocument /\ facts = NoCleanup
  /\ job = [p \in Publishers |-> [at |-> "idle", saw |-> 0, doc |-> NoDocument, says |-> None]]
  /\ output \in {None, "users"} /\ temps = {} /\ haps = 0

-----------------------------------------------------------------------------
(* The supervisor, after the cgroup was found empty.                       *)
Unheld == UNCHANGED <<job, output, temps>>
Replaced(d) == disk' = [version |-> disk.version + 1, doc |-> d]
WriteReceipt ==
  /\ kill = "contained" /\ kill' = "written"
  /\ \E t \in {"OPERATOR", "NETWORK_BOUNDARY"} :
       Replaced([trigger |-> t, cleanup |-> NoCleanup, path |-> FALSE, unwritten |-> FALSE])
  /\ UNCHANGED <<reply, facts, haps>> /\ Unheld
Cleanup ==
  /\ kill = "written" /\ kill' = "cleaned" /\ facts' \in Cleanups
  /\ UNCHANGED <<disk, reply, haps>> /\ Unheld
UpdateReceipt ==
  /\ kill = "cleaned" /\ kill' = "answers"
  /\ LET updated == [disk.doc EXCEPT !.cleanup = facts]
     IN Replaced(updated) /\ reply' = [updated EXCEPT !.path = TRUE]
  /\ UNCHANGED <<facts, haps>> /\ Unheld
Hap == haps < HandoffFaults /\ haps' = haps + 1
UpdateFails ==
  /\ Hap /\ kill = "cleaned" /\ kill' = "answers"
  /\ reply' = [disk.doc EXCEPT !.cleanup = facts, !.path = TRUE, !.unwritten = TRUE]
  /\ UNCHANGED <<disk, facts>> /\ Unheld
(* A crash, or a systemctl stop that does not return in time: no answer.   *)
KillCrashes ==
  /\ Hap /\ kill \in {"contained", "written", "cleaned"} /\ kill' = "crashed"
  /\ UNCHANGED <<disk, reply, facts>> /\ Unheld

-----------------------------------------------------------------------------
(* _validate_receipt, on the fields that vary.                             *)
(* Faulty variant: a cleanup with an error is no cleanup.                  *)
CleanupValidOnly(c) == c = NoCleanup \/ (c \in Cleanups /\ ~c.overlong /\ ~c.unread)
CleanupValid(c) == c = NoCleanup \/ (c \in Cleanups /\ ~c.overlong)
ReceiptValid(d) ==
  /\ d.trigger = "OPERATOR" /\ CleanupValid(d.cleanup)
  /\ d.unwritten => d.path
  /\ d.path => d.cleanup # NoCleanup

(* Faulty variant: the boundary is not looked at.                          *)
CleanupOutcomeOfStop(d) ==
  IF d.cleanup = NoCleanup THEN "NOT_ATTEMPTED"
  ELSE IF d.cleanup.stop # 0 \/ d.unwritten THEN "ATTEMPTED_WITH_ERRORS" ELSE "ATTEMPTED"
CleanupOutcome(d) ==
  IF d.cleanup = NoCleanup THEN "NOT_ATTEMPTED"
  ELSE IF d.cleanup.unread \/ d.cleanup.boundary = "error" \/ d.cleanup.stop # 0 \/ d.unwritten
       THEN "ATTEMPTED_WITH_ERRORS" ELSE "ATTEMPTED"

-----------------------------------------------------------------------------
Still == UNCHANGED <<kill, disk, reply, facts>>
Onto(p, step) == job' = [job EXCEPT ![p].at = step]
Refuse(p) == Onto(p, "refused") /\ Still /\ UNCHANGED <<output, temps, haps>>

(* _read_source: the file that is opened is the one the path named, and    *)
(* what is read is of that file.                                           *)
SourceStat(p) ==
  /\ job[p].at = "idle" /\ disk.version > 0
  /\ job' = [job EXCEPT ![p].at = "open", ![p].saw = disk.version]
  /\ Still /\ UNCHANGED <<output, temps, haps>>
SourceOpen(p) ==
  /\ job[p].at = "open"
  /\ IF disk.version = job[p].saw
     THEN /\ job' = [job EXCEPT ![p].at = "validate", ![p].doc = disk.doc]
          /\ Still /\ UNCHANGED <<output, temps, haps>>
     ELSE Refuse(p)
SourceSaved(p) ==
  /\ job[p].at = "idle" /\ reply # NoDocument
  /\ job' = [job EXCEPT ![p].at = "validate", ![p].doc = reply]
  /\ Still /\ UNCHANGED <<output, temps, haps>>
Validate(p) ==
  /\ job[p].at = "validate"
  /\ IF ReceiptValid(job[p].doc)
     THEN /\ job' = [job EXCEPT ![p].at = "vacant", ![p].says = CleanupOutcome(job[p].doc)]
          /\ Still /\ UNCHANGED <<output, temps, haps>>
     ELSE Onto(p, "invalid") /\ Still /\ UNCHANGED <<output, temps, haps>>

(* _new_output_path and write_new_json: a temporary file, then a link that *)
(* fails where a file has appeared.                                        *)
NewOutput(p) ==
  /\ job[p].at = "vacant"
  /\ IF output = None
     THEN Onto(p, "write") /\ Still /\ UNCHANGED <<output, temps, haps>> ELSE Refuse(p)
WriteProjection(p) ==
  /\ job[p].at = "write" /\ Onto(p, "link") /\ temps' = temps \cup {p}
  /\ Still /\ UNCHANGED <<output, haps>>
(* Faulty variant: the temporary file is renamed over the output.          *)
LinkReplaces(p) ==
  /\ job[p].at = "link" /\ temps' = temps \ {p} /\ output' = job[p].says
  /\ Onto(p, "prepared") /\ Still /\ UNCHANGED haps
LinkNew(p) ==
  /\ job[p].at = "link" /\ temps' = temps \ {p}
  /\ IF output = None
     THEN output' = job[p].says /\ Onto(p, "prepared") ELSE Onto(p, "refused") /\ UNCHANGED output
  /\ Still /\ UNCHANGED haps
(* The sync of the directory fails after the link: an error, and the file. *)
SyncFails(p) ==
  /\ Hap /\ job[p].at = "link" /\ output = None /\ temps' = temps \ {p}
  /\ output' = job[p].says /\ Onto(p, "refused") /\ Still
PublisherFails(p) ==
  /\ Hap /\ job[p].at \in {"open", "link"} /\ Onto(p, "refused") /\ temps' = temps \ {p}
  /\ Still /\ UNCHANGED output
(* A write that fails leaves the temporary file, and so does a crash.      *)
PublisherCrashes(p) ==
  /\ Hap /\ job[p].at \in {"open", "validate", "vacant", "write", "link"} /\ Onto(p, "crashed")
  /\ temps' \in {temps, temps \cup IF job[p].at = "write" THEN {p} ELSE {}}
  /\ Still /\ UNCHANGED output

HandoffNext ==
  \/ WriteReceipt \/ Cleanup \/ UpdateReceipt \/ UpdateFails \/ KillCrashes
  \/ \E p \in Publishers :
       \/ SourceStat(p) \/ SourceOpen(p) \/ SourceSaved(p) \/ Validate(p) \/ NewOutput(p)
       \/ WriteProjection(p) \/ LinkNew(p) \/ SyncFails(p) \/ PublisherFails(p) \/ PublisherCrashes(p)

HandoffSpec == HandoffInit /\ [][HandoffNext]_handoffVars

-----------------------------------------------------------------------------
(* Every receipt of an operator's kill that the supervisor writes or       *)
(* answers is a valid one, whatever failed in the cleanup, unless a text   *)
(* of the cleanup is too long for the reader; a handoff says that the      *)
(* cleanup succeeded only if all of it did, and that there were errors     *)
(* only if there were; and who prepared it leaves no temporary.            *)
HandoffIsTrue ==
  /\ \A p \in Publishers : job[p].at = "invalid" => job[p].doc.trigger # "OPERATOR" \/ job[p].doc.cleanup.overlong
  /\ output = "ATTEMPTED" => facts # NoCleanup /\ facts.stop = 0 /\ facts.boundary # "error" /\ ~facts.unread
  /\ output = "ATTEMPTED_WITH_ERRORS" =>
       facts.stop # 0 \/ facts.boundary = "error" \/ facts.unread \/ reply.unwritten
  /\ \A p \in Publishers : job[p].at = "prepared" => output = job[p].says /\ p \notin temps

(* A file at the output path stays as it is.                               *)
OutputStands == [][output # None => output' = output]_handoffVars
=============================================================================
