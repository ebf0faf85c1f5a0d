------------------------------ MODULE Windows ------------------------------
(***************************************************************************)
(* Which of a process's descriptors and mappings one content scan looks    *)
(* at: fair_window (procfd.py) with the generations the supervisor keeps   *)
(* across its restarts (_reserve_discovery_window, _window_start), and the *)
(* store that adds up what was seen (observation.py).                      *)
(***************************************************************************)
EXTENDS Naturals, FiniteSets

CONSTANTS
  MaxCount,   \* bound: entries in the table
  MaxProbes,  \* bound: the probes of one scan
  MaxRuns,    \* bound: generations reserved
  MaxScans,   \* bound: content scans of one supervisor
  MaxIdle     \* MAX_AGE_NS, in content scans

ASSUME WinAssumption == MaxIdle \in Nat

VARIABLES
  count, probes,  \* the table, and what a scan may look at
  generation,     \* the durable generation
  base, tick,     \* that of this supervisor, and its content scans
  looked,         \* entries looked at by this supervisor
  chain, chained, \* supervisors in a row that scanned, what they looked at
  useful,         \* the entry that is evidence
  idle            \* content scans since it was last observed, MaxIdle + 1 when
                  \* it is not in the store

winVars == <<count, probes, generation, base, tick, looked, chain, chained, useful, idle>>

WinInit ==
  /\ count \in 1..MaxCount /\ probes \in 1..MaxProbes /\ useful \in 1..count
  /\ generation = 1 /\ base = 0 /\ tick = 0 /\ looked = {} /\ chain = 0 /\ chained = {}
  /\ idle = MaxIdle + 1

DivUp(a, b) == (a + b - 1) \div b

(* Every step-th of first..last, from the given place.                     *)
Slice(first, last, from, step) == {i \in first..last : i - first >= from /\ (i - first - from) % step = 0}

Stripes == IF count <= probes THEN 1
           ELSE IF probes < 4 THEN DivUp(count, probes) ELSE DivUp(count - 2, probes - 2)

(* Mutant: the ends are looked at beside a stripe of full width.           *)
WindowWide(g) ==
  IF count <= probes THEN 1..count
  ELSE IF probes < 4 THEN Slice(1, count, g % Stripes, Stripes)
  ELSE {1, count} \cup Slice(2, count - 1, g % DivUp(count - 2, probes), DivUp(count - 2, probes))

(* fair_window of a table numbered from 1: both ends and a stripe between. *)
Window(g) ==
  IF count <= probes THEN 1..count
  ELSE IF probes < 4 THEN Slice(1, count, g % Stripes, Stripes)
  ELSE {1, count} \cup Slice(2, count - 1, g % Stripes, Stripes)

WindowScan ==
  /\ tick < MaxScans /\ tick' = tick + 1
  /\ LET w == Window(base + tick) IN
     /\ looked' = looked \cup w /\ chained' = chained \cup w
     /\ idle' = IF useful \in w THEN 0 ELSE IF idle <= MaxIdle THEN idle + 1 ELSE idle
  /\ chain' = IF tick = 0 THEN chain + 1 ELSE chain
  /\ UNCHANGED <<count, probes, generation, base, useful>>

(* The supervisor ends; the next one reserves the generation after its.    *)
NextSupervisor ==
  /\ generation < MaxRuns /\ generation' = generation + 1 /\ base' = generation
  /\ tick' = 0 /\ looked' = {} /\ idle' = MaxIdle + 1
  /\ IF tick = 0 THEN chain' = 0 /\ chained' = {} ELSE UNCHANGED <<chain, chained>>
  /\ UNCHANGED <<count, probes, useful>>

WinNext == WindowScan \/ NextSupervisor

WinSpec == WinInit /\ [][WinNext]_winVars

-----------------------------------------------------------------------------
(* A scan keeps to its probes; as many scans as there are stripes look at  *)
(* every entry, and so do as many supervisors that managed one scan each   *)
(* before they died.  Where there are no more stripes than the store       *)
(* remembers scans, evidence once seen is never forgotten while it lasts.  *)
WindowsCover ==
  /\ Cardinality(Window(base + tick)) <= probes
  /\ tick >= Stripes => looked = 1..count
  /\ chain >= Stripes => chained = 1..count
  /\ Stripes <= MaxIdle + 1 /\ tick >= Stripes => idle <= MaxIdle
=============================================================================
