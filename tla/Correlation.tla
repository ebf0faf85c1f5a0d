---------------------------- MODULE Correlation ----------------------------
(***************************************************************************)
(* What a content scan makes of the evidence it has (supervisor.py,        *)
(* detectors.py): related processes form components; a component yields    *)
(* the processes that match a profile alone and, for those that do not,    *)
(* minimal witnesses; a generic match is put off once while a stronger one *)
(* is still being authenticated.                                           *)
(***************************************************************************)
EXTENDS Naturals, FiniteSets, Sequences, SequencesExt

CONSTANTS
  Order,        \* the processes, in the order of their identities
  Evidence,     \* what a process may be seen to hold: sets of evidence
  Kinships,     \* records of a parent and an owned cgroup for each process
  NoOne, Parent, \* no parent or cgroup, a live parent without evidence
  MaxCorrelated \* MAX_CORRELATED_PROCESSES

Members == Range(Order)

VARIABLES
  evidence,     \* what the observation store holds of each process
  kin,          \* how they are related
  spent,        \* runtime_pytorch_delay_spent
  delays        \* scans that put a match of the process off since it was last
                \* handed over or a new process appeared
corrVars == <<evidence, kin, spent, delays>>

CorrInit ==
  /\ evidence \in [Members -> Evidence] /\ kin \in Kinships
  /\ spent = {} /\ delays = [p \in Members |-> 0]

-----------------------------------------------------------------------------
Bridge == {"bridge", "aten"}
Vllm   == {"python", "extension"}

(* with_pytorch_pair and with_vllm_pair.                                   *)
Paired(ids) == ids \cup (IF Bridge \subseteq ids THEN {"pytorch"} ELSE {})
                   \cup (IF Vllm \subseteq ids THEN {"vllm"} ELSE {})

(* The catalogue: all of a profile's groups, the first profile that fits.  *)
Profiles == <<{"gguf", "llama"}, {"gguf", "runner", "launcher"},
              {"safetensors", "pytorch", "vllm"}, {"safetensors", "pytorch"}>>

Together(ps) == Paired(UNION {evidence[p] : p \in ps})

FitsTo(ps, i)    == Profiles[i] \subseteq Together(ps)
Matching(ps)   == {i \in DOMAIN Profiles : FitsTo(ps, i)}
MatchOf(ps)    == CHOOSE i \in Matching(ps) : \A j \in Matching(ps) : i <= j

Candidates == {p \in Members : evidence[p] # {}}

Related(p, q) ==
  \/ kin.cgroup[p] # NoOne /\ kin.cgroup[p] = kin.cgroup[q]
  \/ kin.parent[p] = q \/ kin.parent[q] = p
  \/ kin.parent[p] # NoOne /\ kin.parent[p] = kin.parent[q]

(* All pairs of two sequences, the first varying slowest.                  *)
Cross(s, u) == [n \in 1..(Len(s) * Len(u)) |->
                  <<s[((n - 1) \div Len(u)) + 1], u[((n - 1) % Len(u)) + 1]>>]

Sorted(ps) == SelectSeq(Order, LAMBDA p : p \in ps)

First(ps) == Order[CHOOSE n \in DOMAIN Order :
                     Order[n] \in ps /\ \A k \in 1..(n - 1) : Order[k] \notin ps]

(* _correlate: each pair that is related joins the sets of the two.        *)
Join(sets, pq) ==
  IF Related(pq[1], pq[2])
  THEN LET both == {s \in sets : pq[1] \in s \/ pq[2] \in s} IN (sets \ both) \cup {UNION both}
  ELSE sets

Components ==
  LET all == Sorted(Candidates) IN FoldLeft(Join, {{p} : p \in Candidates}, Cross(all, all))

(* The greedy search from an anchor: whoever completes the profile, else   *)
(* whoever adds most, the earlier first.                                   *)
Added(sel, p)      == Cardinality(evidence[p] \ UNION {evidence[q] : q \in sel})
Better(sel, i, p, q) ==
  LET done(x) == FitsTo(sel \cup {x}, i) IN
  \/ done(p) /\ ~done(q)
  \/ done(p) = done(q) /\ Added(sel, p) > Added(sel, q)

Grow(ordered, i, sel) ==
  LET left == SelectSeq(ordered, LAMBDA p : p \notin sel /\ Added(sel, p) > 0)
      best == FoldLeft(LAMBDA b, p : IF Better(sel, i, p, b) THEN p ELSE b, Head(left), left)
  IN IF FitsTo(sel, i) \/ left = <<>> \/ Cardinality(sel) >= MaxCorrelated THEN sel
     ELSE sel \cup {best}

Witness(ordered, anchor, i) ==
  FoldLeft(LAMBDA sel, p : Grow(ordered, i, sel), {anchor}, ordered)

(* _minimal_content_groups keeps what it needs its anchor for.             *)
Kept(sel, anchor, i) ==
  FitsTo(sel, i) /\ (sel # {anchor} => ~FitsTo(sel \ {anchor}, i))

Minimal(partial) ==
  LET ordered == Sorted(partial)
      Next(found, s) == LET w == Witness(ordered, s[1], s[2]) IN
        IF Kept(w, s[1], s[2]) /\ ~Contains(found, w) THEN Append(found, w) ELSE found
  IN FoldLeft(Next, <<>>, Cross(ordered, [i \in DOMAIN Profiles |-> i]))

(* _content_groups: [witness, scope] for every component.                  *)
Alone(c) == {p \in c : Matching({p}) # {}}

GroupsOf(c) ==
  LET all == (IF Alone(c) = {} THEN <<>> ELSE <<Alone(c)>>) \o Minimal(c \ Alone(c))
  IN [n \in DOMAIN all |-> [witness |-> all[n], scope |-> c]]

(* In the order of the first process of a component.                       *)
Groups ==
  LET cs     == Components
      Head1(p) == {c \in cs : p \in c /\ First(c) = p}
  IN FoldLeft(LAMBDA gs, p : FoldLeft(LAMBDA x, c : x \o GroupsOf(c), gs, SetToSeq(Head1(p))),
              <<>>, Order)

(* What is decided of a group: its first process alone if that is enough.  *)
Detected(g) ==
  IF Matching({First(g.witness)}) # {} THEN MatchOf({First(g.witness)}) ELSE MatchOf(g.witness)

-----------------------------------------------------------------------------
(* _vllm_topology_pending, given those an inspection of was deferred.      *)
Pending(deferred) ==
  {p \in Members : ~(Vllm \subseteq evidence[p])
                   /\ (Vllm \cap evidence[p] # {} \/ p \in deferred)}

Contributors(g) == {p \in g.witness : ({"safetensors"} \cup Bridge) \cap evidence[p] # {}}

(* Mutant: that a match was put off before is forgotten.                   *)
WaitsAgain(g, acc, pending) ==
  Detected(g) = 4 /\ Contributors(g) # {} /\ g.scope \cap pending # {}

(* _delay_incomplete_vllm_decision; acc is what the scan has so far.       *)
Waits(g, acc, pending) ==
  /\ Detected(g) = 4 /\ Contributors(g) # {} /\ g.scope \cap pending # {}
  /\ Contributors(g) \cap acc.delayed # {} \/ Contributors(g) \cap acc.spent = {}

Settle(acc, g, pending, admitted) ==
  LET by == Contributors(g) IN
  IF Waits(g, acc, pending)
  THEN [acc EXCEPT !.spent = @ \cup by, !.delayed = @ \cup by]
  ELSE [acc EXCEPT !.spent = IF Detected(g) = 3 \/ admitted THEN @ \ by
                             ELSE IF Detected(g) = 4 /\ g.scope \cap pending # {} THEN @ \cup by
                             ELSE @,
                   !.over = IF admitted THEN @ \cup by ELSE @]

(* A content scan: some process's inspection may be deferred; its matches *)
(* are admitted or put off (module Discovery).                             *)
Scanned(gs, deferred, admitted) ==
  FoldLeft(LAMBDA acc, g : Settle(acc, g, Pending(deferred), admitted),
           [spent |-> spent, delayed |-> {}, over |-> {}], gs)

CorrelatedScan ==
  \E gs \in {Groups}, deferred \in {{}} \cup {{p} : p \in Members}, admitted \in BOOLEAN :
    \E acc \in {Scanned(gs, deferred, admitted)} :
      /\ spent' = acc.spent
      /\ delays' = [p \in Members |-> (IF p \in acc.over THEN 0 ELSE delays[p])
                                      + (IF p \in acc.delayed THEN 1 ELSE 0)]
      /\ UNCHANGED <<evidence, kin>>

(* A process ends and another is in its place; spent loses those that are  *)
(* not alive.                                                              *)
Churn(p, ev) ==
  /\ evidence' = [evidence EXCEPT ![p] = ev] /\ spent' = spent \ {p}
  /\ delays' = [q \in Members |-> 0] /\ UNCHANGED kin

CorrNext ==
  \/ CorrelatedScan
  \/ \E p \in Members, ev \in Evidence : Churn(p, ev)

CorrSpec == CorrInit /\ [][CorrNext]_corrVars

-----------------------------------------------------------------------------
(* By definition: what any chain of relations connects.                    *)
Reaches(p, q) ==
  \E path \in SeqOf(Candidates, Cardinality(Candidates)) :
     /\ path # <<>> /\ path[1] = p /\ path[Len(path)] = q
     /\ \A n \in 1..(Len(path) - 1) : Related(path[n], path[n + 1])

(* The components are those of the relation, in whatever order the code   *)
(* meets the pairs.  Every group really is a match of processes of its     *)
(* component; a component whose evidence amounts to a match always yields  *)
(* one; and a match is put off for a stronger one at most once until it is *)
(* handed over or another process appears.                                 *)
GroupsAreSound ==
  LET cs == Components IN
  /\ \A c \in cs : \A p \in c : c = {q \in Candidates : Reaches(p, q)}
  /\ UNION cs = Candidates
  /\ \A c \in cs : LET gs == Range(GroupsOf(c)) IN
       /\ \A g \in gs : Matching(g.witness) # {} /\ g.witness \subseteq g.scope
       /\ (Matching(c) # {} /\ Cardinality(c) <= MaxCorrelated) => gs # {}
  /\ \A p \in Members : delays[p] <= 1
=============================================================================
