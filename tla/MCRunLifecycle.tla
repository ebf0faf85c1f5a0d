---------------------------- MODULE MCRunLifecycle ----------------------------
(* RunLifecycle for TLC: one run through crashes and every fault, or two   *)
(* runs up to the moment the second one's record is written.               *)
EXTENDS RunLifecycle, TLC

RunSymmetry == Permutations(Runs)

(* States with a second recorded run are checked and not explored further. *)
OneRecorded == Cardinality({r \in Runs : disk[r] # "NONE"}) < 2
=============================================================================
