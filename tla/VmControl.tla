------------------------------ MODULE VmControl ------------------------------
(***************************************************************************)
(* The emergency stop of a virtual machine                                 *)
(* (experiments/human_override/windows_vm_controller.py and                *)
(* windows_vm_lab.py): a durable state written before each step, a process *)
(* started suspended in a job that kills it when it is closed, and a judge *)
(* that keeps a query handle of its own.  Only commands that are past the  *)
(* fences of generation, epoch and sequence appear.                        *)
(***************************************************************************)
EXTENDS Naturals, FiniteSets

CONSTANTS
  MaxCounter,  \* MAX_COUNTER: generations and epochs
  Serials,     \* bound: the serial numbers of processes, 1..n
  VmFaults     \* bound: writes and kernel calls that fail

VARIABLES
  file, spare,   \* the state on disk; the .pending file is there
  st, durable,   \* the state and storage_ok of the controller
  here,          \* it has not crashed
  stage,         \* what _start is at
  job, handle,   \* its job and its process, 0 for none; a job holds the
                 \* process of the same serial
  machine,       \* what became of each process
  judge,         \* the judge of each: "none", "held", or "seen" to run
  halted,        \* history: stopped, failed or restarted, and not reset since
  vmFaults

control == <<file, spare, st, durable, stage>>
vmVars  == <<control, here, job, handle, machine, judge, halted, vmFaults>>

NewState == [generation |-> 0, epoch |-> 0, latched |-> FALSE, approved |-> FALSE, phase |-> "IDLE",
             identity |-> 0]

VmInit ==
  /\ st = NewState /\ file = st /\ spare = FALSE /\ durable = TRUE /\ here = TRUE
  /\ stage = "idle" /\ job = 0 /\ handle = 0
  /\ machine = [i \in Serials |-> "new"] /\ judge = [i \in Serials |-> "none"]
  /\ halted = FALSE /\ vmFaults = 0

VmFault == vmFaults < VmFaults /\ vmFaults' = vmFaults + 1

Inhibited(s) == [s EXCEPT !.latched = TRUE, !.approved = FALSE, !.phase = "UNKNOWN"]

(* _save of s, and what the controller is at if it succeeds or not.  One   *)
(* that fails is sticky, and inhibits.                                     *)
Save(s, good, bad) ==
  \/ durable /\ ~spare /\ st' = s /\ file' = s /\ stage' = good /\ UNCHANGED <<spare, durable, vmFaults>>
  \/ ~durable /\ st' = s /\ stage' = bad /\ UNCHANGED <<file, spare, durable, vmFaults>>
  \/ /\ durable /\ IF spare THEN UNCHANGED vmFaults ELSE VmFault
     /\ durable' = FALSE /\ st' = Inhibited(s) /\ stage' = bad
     /\ spare' \in {spare, TRUE} /\ UNCHANGED file

Idle == here /\ stage = "idle"
Alive(i) == machine[i] \in {"suspended", "running", "ending"}

Approve ==
  /\ Idle /\ durable
  /\ Save(IF st.latched THEN st ELSE [st EXCEPT !.approved = TRUE], "idle", "idle")
  /\ UNCHANGED <<here, job, handle, machine, judge, halted>>

(* _start: its intent is on disk before anything is created.               *)
MayStart == ~st.latched /\ st.approved /\ st.phase = "IDLE" /\ st.generation < MaxCounter

StartIntent ==
  /\ Idle /\ durable
  /\ IF MayStart
     THEN Save([st EXCEPT !.generation = @ + 1, !.approved = FALSE, !.phase = "START_INTENT",
                          !.identity = 0], "create", "idle")
     ELSE Save(st, "idle", "idle")
  /\ UNCHANGED <<here, job, handle, machine, judge, halted>>

(* verify_artifacts, create_job, spawn_suspended, the identity on disk.    *)
Create ==
  /\ here /\ stage = "create"
  /\ \/ /\ VmFault /\ stage' = "undo"
        /\ UNCHANGED <<file, spare, st, durable, job, handle, machine>>
     \/ \E i \in Serials :
          /\ machine[i] = "new" /\ \A k \in 1..(i - 1) : machine[k] # "new"
          /\ job' = i /\ handle' = i /\ machine' = [machine EXCEPT ![i] = "suspended"]
          /\ Save([st EXCEPT !.identity = i, !.phase = "IDENTIFIED_SUSPENDED"], "resume", "undo")
  /\ UNCHANGED <<here, judge, halted>>

(* validate, resume, and RUNNING on disk.                                  *)
Resume ==
  /\ here /\ stage = "resume"
  /\ \/ /\ IF machine[handle] = "suspended" THEN VmFault ELSE UNCHANGED vmFaults
        /\ stage' = "undo" /\ UNCHANGED <<file, spare, st, durable, machine>>
     \/ /\ machine[handle] = "suspended" /\ machine' = [machine EXCEPT ![handle] = "running"]
        /\ Save([st EXCEPT !.phase = "RUNNING"], "idle", "undo")
  /\ UNCHANGED <<here, job, handle, judge, halted>>

(* Its except clause: inhibited, and the job is closed if it can be.       *)
UndoStart ==
  /\ here /\ stage = "undo" /\ Save(Inhibited(st), "close", "close") /\ halted' = TRUE
  /\ UNCHANGED <<here, job, handle, machine, judge>>

(* close_job: the kernel ends what is in it.                               *)
Closed(j) == machine' = [i \in Serials |-> IF i = j THEN "dead" ELSE machine[i]]
Close(j)  == \/ Closed(j) /\ UNCHANGED vmFaults
             \/ VmFault /\ UNCHANGED machine

CloseStart ==
  /\ here /\ stage = "close" /\ Close(job) /\ stage' = "idle"
  /\ UNCHANGED <<file, spare, st, durable, here, job, handle, judge, halted>>

(* _stop is taken whether or not it can be stored, and sent to the process *)
(* that is retained; it has not ended by that.                             *)
Stop ==
  /\ Idle
  /\ Save([st EXCEPT !.epoch = IF ~st.latched /\ @ < MaxCounter THEN @ + 1 ELSE @, !.latched = TRUE,
                     !.approved = FALSE, !.phase = "STOP_REQUESTED"], "idle", "idle")
  /\ machine' = IF handle # 0 /\ handle = st.identity /\ machine[handle] = "running"
                THEN [machine EXCEPT ![handle] = "ending"] ELSE machine
  /\ halted' = TRUE /\ UNCHANGED <<here, job, handle, judge>>

Verified == st.identity # 0 /\ judge[st.identity] = "seen" /\ machine[st.identity] = "dead"

(* Mutant: that the process is gone is taken from the stop that was sent.  *)
ResetSent ==
  /\ Idle /\ durable /\ st.latched /\ st.epoch < MaxCounter /\ st.phase = "STOP_REQUESTED"
  /\ Save([st EXCEPT !.epoch = @ + 1, !.latched = FALSE, !.approved = FALSE, !.phase = "IDLE"],
          "idle", "idle")
  /\ IF durable' THEN job' = 0 /\ handle' = 0 /\ halted' = FALSE
     ELSE UNCHANGED <<job, handle, halted>>
  /\ UNCHANGED <<here, judge, machine>>

(* _reset with a judge; a job that cannot be closed leaves all as it was.  *)
ResetVm ==
  /\ Idle /\ durable
  /\ IF st.latched /\ st.epoch < MaxCounter /\ Verified
     THEN \/ /\ Save([st EXCEPT !.epoch = @ + 1, !.latched = FALSE, !.approved = FALSE, !.phase = "IDLE"],
                     "idle", "idle")
             /\ Closed(job)
             /\ IF durable' THEN job' = 0 /\ handle' = 0 /\ halted' = FALSE
                ELSE UNCHANGED <<job, handle, halted>>
          \/ VmFault /\ UNCHANGED <<control, job, handle, halted, machine>>
     ELSE Save(st, "idle", "idle") /\ UNCHANGED <<job, handle, halted, machine>>
  /\ UNCHANGED <<here, judge>>

(* The controller dies: its last handle of the job closes.                 *)
Crash ==
  /\ here /\ here' = FALSE /\ stage' = "idle" /\ Close(job) /\ job' = 0 /\ handle' = 0
  /\ halted' = TRUE /\ UNCHANGED <<file, spare, st, durable, judge>>

(* The next one never takes up a process, and inhibits.                    *)
Restart ==
  /\ ~here /\ here' = TRUE
  /\ LET s == [file EXCEPT !.latched = TRUE, !.approved = FALSE, !.phase = "RECOVERED_INHIBITED",
                           !.epoch = @ + 1] IN
     \/ /\ ~spare /\ file.epoch < MaxCounter /\ durable' = TRUE /\ st' = s /\ file' = s
        /\ UNCHANGED <<spare, vmFaults>>
     \/ /\ IF spare \/ file.epoch = MaxCounter THEN UNCHANGED vmFaults ELSE VmFault
        /\ durable' = FALSE /\ st' = Inhibited(s) /\ spare' \in {spare, TRUE} /\ UNCHANGED file
  /\ UNCHANGED <<stage, job, handle, machine, judge, halted>>

(* The outside: processes end, a judge gets its handle and observes.       *)
Ends(i) ==
  /\ Alive(i) /\ machine' = [machine EXCEPT ![i] = "dead"]
  /\ UNCHANGED <<control, here, job, handle, judge, halted, vmFaults>>

Judge(i) ==
  /\ \/ handle = i /\ judge[i] = "none" /\ judge' = [judge EXCEPT ![i] = "held"]
     \/ judge[i] = "held" /\ machine[i] \in {"running", "ending"} /\ judge' = [judge EXCEPT ![i] = "seen"]
  /\ UNCHANGED <<control, here, job, handle, machine, halted, vmFaults>>

VmNext ==
  \/ Approve \/ StartIntent \/ Create \/ Resume \/ UndoStart \/ CloseStart \/ Stop \/ ResetVm
  \/ Crash \/ Restart
  \/ \E i \in Serials : Ends(i) \/ Judge(i)

VmSpec == VmInit /\ [][VmNext]_vmVars

-----------------------------------------------------------------------------
(* Two processes never live at once, whatever fails or dies, also when a   *)
(* job could not be closed and its handle is lost.  A process runs only    *)
(* with its identity on disk and when nothing has been stopped, failed or  *)
(* restarted since the last reset, and a reset finds none alive.           *)
OneMachine ==
  /\ [](Cardinality({i \in Serials : Alive(i)}) <= 1)
  /\ [][\A i \in Serials : machine[i] # "running" /\ machine'[i] = "running" =>
          ~halted /\ ~file.latched /\ file.identity = i]_vmVars
  /\ [][halted /\ ~halted' => \A i \in Serials : ~Alive(i)]_vmVars
=============================================================================
