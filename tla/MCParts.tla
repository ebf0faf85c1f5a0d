----------------------------- MODULE MCParts -----------------------------
(***************************************************************************)
(* What shares no state with the rest, side by side: each initial state    *)
(* starts one part, and the others rest.                                   *)
(***************************************************************************)
EXTENDS Capture, Correlation, Windows, HumanStop, WindowsJob, ExecGate

VARIABLE part
vars == <<part, capVars, corrVars, winVars, overVars, vmVars, jobVars, execVars>>

MCOrder == <<"a", "b", "c">>
MCEvidence == {{}, {"gguf"}, {"runner"}, {"gguf", "launcher"}, {"safetensors"}, {"bridge"},
               {"aten", "safetensors"}, {"bridge", "aten", "python"}, {"safetensors", "extension"}}
None == [p \in Range(MCOrder) |-> NoOne]
MCKinships == {[parent |-> None, cgroup |-> [p \in Range(MCOrder) |-> "c"]],
               [parent |-> [None EXCEPT !["b"] = "a", !["c"] = "a"], cgroup |-> None],
               [parent |-> [None EXCEPT !["a"] = Parent, !["c"] = Parent], cgroup |-> None]}
MCBudget == [p \in {"human", "scheduler"} |-> IF p = "human" THEN 3 ELSE 1]

CaptureRests == CaptureInit /\ born = Procs
CorrRests == CorrInit /\ evidence = [p \in Members |-> {}] /\ kin = CHOOSE k \in Kinships : TRUE
WinRests == WinInit /\ count = 1 /\ probes = 1
JobRests == JobInit /\ case = CHOOSE c \in Cases : TRUE

Init ==
  /\ part \in {"capture", "correlation", "windows", "override", "vm", "job", "exec"}
  /\ IF part = "capture" THEN CaptureInit ELSE CaptureRests
  /\ IF part = "correlation" THEN CorrInit ELSE CorrRests
  /\ IF part = "windows" THEN WinInit ELSE WinRests
  /\ OverInit
  /\ VmInit
  /\ IF part = "job" THEN JobInit ELSE JobRests
  /\ ExecInit

Next ==
  \/ part = "capture" /\ CaptureNext
     /\ UNCHANGED <<part, corrVars, winVars, overVars, vmVars, jobVars, execVars>>
  \/ part = "correlation" /\ CorrNext
     /\ UNCHANGED <<part, capVars, winVars, overVars, vmVars, jobVars, execVars>>
  \/ part = "windows" /\ WinNext
     /\ UNCHANGED <<part, capVars, corrVars, overVars, vmVars, jobVars, execVars>>
  \/ part = "override" /\ OverNext
     /\ UNCHANGED <<part, capVars, corrVars, winVars, vmVars, jobVars, execVars>>
  \/ part = "vm" /\ VmNext
     /\ UNCHANGED <<part, capVars, corrVars, winVars, overVars, jobVars, execVars>>
  \/ part = "job" /\ JobNext
     /\ UNCHANGED <<part, capVars, corrVars, winVars, overVars, vmVars, execVars>>
  \/ part = "exec" /\ ExecNext
     /\ UNCHANGED <<part, capVars, corrVars, winVars, overVars, vmVars, jobVars>>

Spec == Init /\ [][Next]_vars

-----------------------------------------------------------------------------
(* What bounded looks at changing processes add up to: the groups that are *)
(* decided on (GroupsAreSound), and the descriptors that are looked at     *)
(* (WindowsCover).                                                         *)
LooksAddUp ==
  /\ part = "correlation" => GroupsAreSound
  /\ part = "windows" => WindowsCover
=============================================================================
