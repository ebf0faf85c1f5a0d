----------------------------- MODULE MCServices -----------------------------
(***************************************************************************)
(* The services as systemd and the administrator have them, side by side:  *)
(* each initial state starts one part, and the other rests.                *)
(***************************************************************************)
EXTENDS Watchdog, Installation

VARIABLE part
vars == <<part, dogVars, instVars>>

InstRests == InstInit /\ account = "none"

Init ==
  /\ part \in {"watchdog", "install"}
  /\ DogInit
  /\ IF part = "install" THEN InstInit ELSE InstRests

Next ==
  \/ part = "watchdog" /\ DogNext
     /\ UNCHANGED <<part, instVars>>
  \/ part = "install" /\ InstNext
     /\ UNCHANGED <<part, dogVars>>

Spec == Init /\ [][Next]_vars
=============================================================================
