------------------------------ MODULE MCDemos ------------------------------
(***************************************************************************)
(* The programs that show what the system does and hand its results on,    *)
(* the namespaces that a run makes on the host, and the reading of files   *)
(* that their owner changes, side by side: each initial state starts one   *)
(* of them, and the others rest.                                           *)
(***************************************************************************)
EXTENDS NativeStop, Results, Probe, Boundary, Staging

VARIABLE part
vars == <<part, nativeVars, fkVars, probeVars, bndVars, hostedVars, handoffVars, stagingVars>>

(* One part of the release is another's, forged, or does not fit; or the   *)
(* tag and the bundle are both of an older release.                        *)
MCOffers == {Genuine} \cup {[Genuine EXCEPT !.tag = "old", !.bundle = "old"]}
            \cup {[Genuine EXCEPT ![p] = v] : p \in DOMAIN Genuine, v \in {"old", "forged", "misbuilt"}}

FkRests == FkInit /\ offer = Genuine /\ assets = "none" /\ dest = Free
ProbeRests == ProbeInit /\ example = "probe"
HostedRests == HostedInit /\ fork = "none" /\ upstream = "reviewed" /\ saved = "none"
HandoffRests == HandoffInit /\ output = "none"
StagingRests == StagingInit /\ reader = "root" /\ ~coarse

Init ==
  /\ part \in {"native", "first kill", "probe", "boundary", "hosted", "handoff", "staging"}
  /\ NativeInit
  /\ IF part = "first kill" THEN FkInit ELSE FkRests
  /\ IF part = "probe" THEN ProbeInit ELSE ProbeRests
  /\ BndInit
  /\ IF part = "hosted" THEN HostedInit ELSE HostedRests
  /\ IF part = "handoff" THEN HandoffInit ELSE HandoffRests
  /\ IF part = "staging" THEN StagingInit ELSE StagingRests

Next ==
  \/ part = "native" /\ NativeNext
     /\ UNCHANGED <<part, fkVars, probeVars, bndVars, hostedVars, handoffVars, stagingVars>>
  \/ part = "first kill" /\ FkNext
     /\ UNCHANGED <<part, nativeVars, probeVars, bndVars, hostedVars, handoffVars, stagingVars>>
  \/ part = "probe" /\ ProbeNext
     /\ UNCHANGED <<part, nativeVars, fkVars, bndVars, hostedVars, handoffVars, stagingVars>>
  \/ part = "boundary" /\ BndNext
     /\ UNCHANGED <<part, nativeVars, fkVars, probeVars, hostedVars, handoffVars, stagingVars>>
  \/ part = "hosted" /\ HostedNext
     /\ UNCHANGED <<part, nativeVars, fkVars, probeVars, bndVars, handoffVars, stagingVars>>
  \/ part = "handoff" /\ HandoffNext
     /\ UNCHANGED <<part, nativeVars, fkVars, probeVars, bndVars, hostedVars, stagingVars>>
  \/ part = "staging" /\ StagingNext
     /\ UNCHANGED <<part, nativeVars, fkVars, probeVars, bndVars, hostedVars, handoffVars>>

Spec == Init /\ [][Next]_vars

=============================================================================
