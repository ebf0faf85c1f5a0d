----------------------------- MODULE MCLockdown -----------------------------
(***************************************************************************)
(* Lockdown for TLC: in each run two instances side by side, one with a    *)
(* single run whose approval comes and goes, and one with all the runs.    *)
(***************************************************************************)
EXTENDS Lockdown, TLC

RunSymmetry == Permutations(Runs)

VARIABLE single
pair == <<vars, single>>

(* Of the single run's command there are approvals, of the others none:    *)
(* two runs that are the same, or differ in one thing the code compares.   *)
OneDiffers ==
  \A r, s \in Runs :
    \/ argv[r] = argv[s] /\ shows[r].exe = shows[s].exe
    \/ argv[r] = argv[s] /\ shows[r].profile = shows[s].profile
    \/ shows[r] = shows[s]
First(r) ==
  /\ argv[r] = CHOOSE a \in Argvs : TRUE
  /\ shows[r] = [exe |-> CHOOSE e \in Exes : TRUE, profile |-> CHOOSE p \in Profiles : TRUE]
(* A restart is left to runs that are alike, and a sweep to those of one   *)
(* command and executable.                                                 *)
Alike == \A r, s \in Runs : argv[r] = argv[s] /\ shows[r] = shows[s]
FaultsInit ==
  /\ Init /\ single \in BOOLEAN /\ (\E r \in Runs : First(r))
  /\ IF single THEN Alike ELSE OneDiffers
FaultsNext ==
  /\ Next /\ UNCHANGED single
  /\ IF single
     THEN /\ Cardinality({r \in Runs : run'[r] # "none"}) <= 1
          /\ \A n \in Names : approvals'[n] # NoApproval =>
               \E r \in Runs : approvals'[n].argv = argv[r] /\ approvals'[n].exe = shows[r].exe
     ELSE /\ UNCHANGED approvals /\ (Alike \/ crashes' = 0)
          /\ sweeper' = Nobody \/ \A r, s \in Runs : argv[r] = argv[s] /\ shows[r].exe = shows[s].exe
FaultsSpec == FaultsInit /\ [][FaultsNext]_pair

(* Only steps that nothing is bound to take are left out: an approval when *)
(* one has been made, and the start of another run.                        *)
ApprovedAtOnce == \A n \in Names : approvals'[n] \in {approvals[n], NoApproval} \/ now = 0
(* The relaunch shows another profile than the first run, whose incidents  *)
(* are of its guard and name none.                                         *)
LiveInit ==
  /\ Init /\ single \in BOOLEAN /\ \A r \in Runs \ Protected : First(r)
  /\ IF single THEN Alike
     ELSE \A r \in Protected, s \in Runs \ Protected :
            argv[r] = argv[s] /\ shows[r].exe = shows[s].exe /\ shows[r].profile # shows[s].profile
LiveNext ==
  /\ Next /\ UNCHANGED single
  /\ IF single THEN \A r \in Runs \ Protected : run'[r] = "none" ELSE ApprovedAtOnce
LiveSpec == LiveInit /\ [][LiveNext]_pair /\ Fairness
=============================================================================
