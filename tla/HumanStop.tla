----------------------------- MODULE HumanStop -----------------------------
(***************************************************************************)
(* The two controllers that a human decides through, side by side: of runs *)
(* (HumanOverride) and of one virtual machine (VmControl).                 *)
(***************************************************************************)
EXTENDS HumanOverride, VmControl

(* What a human decides of a run (HumanHasLastWord) or of a virtual        *)
(* machine (OneMachine) is what becomes of it.                             *)
HumansDecide == HumanHasLastWord /\ OneMachine
=============================================================================
