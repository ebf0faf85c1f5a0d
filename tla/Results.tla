------------------------------ MODULE Results ------------------------------
(***************************************************************************)
(* What the programs around the supervisor hand on, side by side: the      *)
(* guided first kill (FirstKill), the hosted proof (HostedProof) and the   *)
(* handoff of a receipt (Handoff).                                         *)
(***************************************************************************)
EXTENDS FirstKill, HostedProof, Handoff

(* What is said of a result is so, and what is published is never written  *)
(* over: of the first kill's (ClaimsAreTrue, AssetsUntouched,              *)
(* PublishedOnce), of the hosted proof's (HostedClaimsAreTrue,             *)
(* ExportIsOfLastRead) and of a handoff's (HandoffIsTrue, OutputStands).   *)
ResultsAreTrue ==
  /\ []ClaimsAreTrue /\ AssetsUntouched /\ PublishedOnce
  /\ []HostedClaimsAreTrue /\ ExportIsOfLastRead
  /\ []HandoffIsTrue /\ OutputStands
=============================================================================
