--------------------------- MODULE BrokeredService ---------------------------
(***************************************************************************)
(* The broker as a service (src/src/lumi_eggcracker/brokered/linux_ipc.py, *)
(* src/scripts/brokered_operator_demo.py): one process holds the grant of  *)
(* the one run, binds a socket and answers one packet at a time; clients   *)
(* submit, dispatch and fetch over connections of one packet each, and     *)
(* give up after a timeout; controllers share the store with the service.  *)
(***************************************************************************)
EXTENDS BrokeredOperator

CONSTANTS
  Service,        \* the process that serves, a member of Procs
  Clients,        \* processes of the workload
  MaxConns,       \* bound on the connections of a client
  CtlKinds        \* what the other processes of the store ask of it

ASSUME ServiceAssumption == Service \in Procs

VARIABLES
  svc,      \* "down", "creating", "granting", "unbound", "listening",
            \* "handling", "closed", "stopping"
  run,      \* the run of its grant
  conn,     \* the packet it handles
  sock,     \* the path of the socket: "none", "bound" or left "stale"
  net,      \* packets sent and not taken
  cl,       \* cl[c]: stage, operation, what the client knows of it
  wire      \* wire[c]: "idle", "open", or the answer that arrived

ipc == <<svc, run, conn, sock, net, cl, wire>>
all == <<store, ipc>>

Stages == {"idle", "admit", "dispatch", "result", "manual", "done", "failed"}

NoPacket == [from |-> "none"]

ServiceInit ==
  /\ StoreInit
  /\ svc = "down" /\ run = NoRun /\ conn = NoPacket /\ sock = "none" /\ net = {}
  /\ cl = [c \in Clients |-> [stage |-> "idle", op |-> NoOp, n |-> 0,
                              queued |-> FALSE, effect |-> "UNKNOWN"]]
  /\ wire = [c \in Clients |-> "idle"]

-----------------------------------------------------------------------------
(* The service process                                                     *)

(* _open_or_bootstrap_service                                              *)
SvcCreate ==
  /\ svc = "down" /\ CreateBegin(Service) /\ svc' = "creating"
  /\ UNCHANGED <<run, conn, sock, net, cl, wire>>

SvcGrant ==
  /\ svc = "down" \/ (svc = "creating" /\ pc[Service] = "idle" /\ ans[Service] # "RAISED")
  /\ \E r \in Runs : Acquire(Service, [kind |-> "grant", run |-> r, op |-> NoOp])
  /\ svc' = "granting"
  /\ UNCHANGED <<run, conn, sock, net, cl, wire>>

SvcGranted ==
  /\ svc = "granting" /\ pc[Service] = "idle" /\ ans[Service] = "GRANTED"
  /\ svc' = "unbound" /\ run' \in base.runs
  /\ UNCHANGED <<store, conn, sock, net, cl, wire>>

(* Whatever the opening raises ends the process.                           *)
SvcRefused ==
  /\ svc \in {"creating", "granting"} /\ pc[Service] = "idle" /\ ans[Service] = "RAISED"
  /\ svc' = "down"
  /\ UNCHANGED <<store, run, conn, sock, net, cl, wire>>

(* start: an existing path is never replaced.                              *)
SvcBind ==
  /\ svc = "unbound"
  /\ IF sock = "none" THEN svc' = "listening" /\ sock' = "bound"
                      ELSE svc' = "down" /\ sock' = sock
  /\ UNCHANGED <<store, run, conn, net, cl, wire>>

(* Connections end with the listener; who waits sees the end of its own.   *)
Hangup ==
  /\ net' = {} /\ conn' = NoPacket
  /\ wire' = [c \in Clients |-> IF wire[c] = "open" THEN "CLOSED" ELSE wire[c]]

Waits(c, p) == p.from = c /\ wire[c] = "open" /\ cl[c].n = p.n

Deliver(p, a) == wire' = [c \in Clients |-> IF Waits(c, p) THEN a ELSE wire[c]]

(* A packet of a peer with another uid (denied before it is read) or of a  *)
(* form that the protocol does not have.                                   *)
SvcDeny(p) ==
  /\ svc = "listening" /\ p \in net /\ p.kind = "bad"
  /\ net' = net \ {p} /\ Deliver(p, "PROTOCOL")
  /\ UNCHANGED <<store, svc, run, conn, sock, cl>>

SvcTake(p) ==
  /\ svc = "listening" /\ p \in net /\ p.kind # "bad"
  /\ Acquire(Service, [kind |-> p.kind, run |-> run, op |-> p.op])
  /\ svc' = "handling" /\ conn' = p /\ net' = net \ {p}
  /\ UNCHANGED <<run, sock, cl, wire>>

SvcAnswer ==
  /\ svc = "handling" /\ pc[Service] = "idle" /\ ans[Service] # "RAISED"
  /\ svc' = "listening" /\ conn' = NoPacket /\ Deliver(conn, ans[Service])
  /\ UNCHANGED <<store, run, sock, net, cl>>

(* A fault of the store leaves serve_forever; the socket is unlinked.      *)
SvcExit ==
  /\ svc = "handling" /\ pc[Service] = "idle" /\ ans[Service] = "RAISED"
  /\ svc' = "down" /\ sock' = "none" /\ Hangup
  /\ UNCHANGED <<store, run, cl>>

(* Ctrl-C: whatever is under way is abandoned, the socket is closed, and   *)
(* then the run is fenced (linux_ipc_demo).                                *)
SvcInterrupt ==
  /\ svc \in {"listening", "handling"}
  /\ IF pc[Service] = "idle" THEN UNCHANGED store
     ELSE Abandon(Service) /\ UNCHANGED crashes
  /\ svc' = "closed" /\ sock' = "none" /\ Hangup
  /\ UNCHANGED <<run, cl>>

SvcFence ==
  /\ svc = "closed" /\ Acquire(Service, [kind |-> "revoke", run |-> run, op |-> NoOp])
  /\ svc' = "stopping"
  /\ UNCHANGED <<run, conn, sock, net, cl, wire>>

SvcStopped ==
  /\ svc = "stopping" /\ pc[Service] = "idle" /\ svc' = "down"
  /\ UNCHANGED <<store, run, conn, sock, net, cl, wire>>

SvcKilled ==
  /\ svc # "down" /\ Die(Service) /\ svc' = "down"
  /\ sock' = IF sock = "bound" THEN "stale" ELSE sock
  /\ Hangup /\ UNCHANGED <<run, cl>>

(* The administrator removes what a killed service left behind.            *)
RemoveStale ==
  /\ sock = "stale" /\ sock' = "none"
  /\ UNCHANGED <<store, svc, run, conn, net, cl, wire>>

SvcWork ==
  \/ SvcGranted \/ SvcRefused \/ SvcBind \/ SvcAnswer \/ SvcExit \/ SvcFence \/ SvcStopped
  \/ SvcGrant /\ svc = "creating"
  \/ Work(Service) /\ UNCHANGED ipc

-----------------------------------------------------------------------------
(* Clients                                                                 *)

Send(c, k, o) ==
  /\ cl[c].n < MaxConns
  /\ IF svc \in {"listening", "handling"}
     THEN /\ net' = net \cup {[from |-> c, n |-> cl[c].n + 1, kind |-> k, op |-> o]}
          /\ wire' = [wire EXCEPT ![c] = "open"]
     ELSE net' = net /\ wire' = [wire EXCEPT ![c] = "CLOSED"]

Move(c, stage_, f) == cl' = [cl EXCEPT ![c] = [f EXCEPT !.stage = stage_]]

Next1(c) == [cl[c] EXCEPT !.n = @ + 1]

(* _run_one_shot: submit, dispatch, get_result, each once.                 *)
ClientRun(c, o) ==
  /\ cl[c].stage = "idle"
  /\ \E k \in {"admit", "bad"} : Send(c, k, o)
  /\ Move(c, "admit", [Next1(c) EXCEPT !.op = o])
  /\ UNCHANGED <<store, svc, run, conn, sock>>

ClientAdmitted(c) ==
  /\ cl[c].stage = "admit" /\ wire[c] = "ADMITTED"
  /\ Send(c, "dispatch", cl[c].op)
  /\ Move(c, "dispatch", [Next1(c) EXCEPT !.queued = TRUE])
  /\ UNCHANGED <<store, svc, run, conn, sock>>

ClientApplied(c) ==
  /\ cl[c].stage = "dispatch" /\ wire[c] = "APPLIED"
  /\ Send(c, "result", cl[c].op)
  /\ Move(c, "result", [Next1(c) EXCEPT !.effect = "CONFIRMED"])
  /\ UNCHANGED <<store, svc, run, conn, sock>>

ClientDone(c) ==
  /\ cl[c].stage \in {"result", "manual"} /\ wire[c] = "AVAILABLE"
  /\ Move(c, "done", cl[c]) /\ wire' = [wire EXCEPT ![c] = "idle"]
  /\ UNCHANGED <<store, svc, run, conn, sock, net>>

Expected == [admit |-> "ADMITTED", dispatch |-> "APPLIED", result |-> "AVAILABLE",
             manual |-> "AVAILABLE"]

(* Any other answer, none in time, or a closed connection fails the run.   *)
ClientFailed(c) ==
  /\ cl[c].stage \in DOMAIN Expected /\ wire[c] \notin {"idle", Expected[cl[c].stage]}
  /\ Move(c, "failed", cl[c]) /\ wire' = [wire EXCEPT ![c] = "idle"]
  /\ UNCHANGED <<store, svc, run, conn, sock, net>>

(* Manual recovery with the queue id: look for the result, or dispatch.    *)
ClientManual(c) ==
  /\ cl[c].stage = "failed" /\ cl[c].queued
  /\ \E k \in {"result", "dispatch"} : Send(c, k, cl[c].op)
  /\ Move(c, "manual", Next1(c))
  /\ UNCHANGED <<store, svc, run, conn, sock>>

ClientNext(c) ==
  \/ \E o \in Ops : ClientRun(c, o)
  \/ ClientAdmitted(c) \/ ClientApplied(c) \/ ClientDone(c) \/ ClientFailed(c) \/ ClientManual(c)

-----------------------------------------------------------------------------
Controllers == Procs \ {Service}

(* stop and snapshot of the demo, and the in-process API.                  *)
ControllerAsks(p) ==
  /\ \E q \in Request : q.kind \in CtlKinds /\ (Acquire(p, q) \/ Refuse(p, q))
  /\ UNCHANGED ipc

ServiceNext ==
  \/ SvcCreate \/ SvcGrant \/ SvcWork \/ SvcInterrupt \/ SvcKilled \/ RemoveStale
  \/ \E p \in net : SvcDeny(p) \/ SvcTake(p)
  \/ \E c \in Clients : ClientNext(c)
  \/ \E p \in Procs : Mishap(p) /\ UNCHANGED ipc
  \/ \E p \in Controllers :
       ControllerAsks(p) \/ ((Work(p) \/ Die(p)) /\ UNCHANGED ipc)

ServiceSpec == ServiceInit /\ [][ServiceNext]_all

(* Every process that holds or waits goes on; blocked lock requests are    *)
(* served in turn, and the backlog of a listener is a queue.               *)
ServiceFairness ==
  /\ WF_all(SvcWork)
  /\ \A p \in Controllers : WF_all(Work(p) /\ UNCHANGED ipc)
  /\ \A c \in Clients : SF_all(\E p \in net : p.from = c /\ (SvcDeny(p) \/ SvcTake(p)))
  /\ SF_all(SvcFence)

FairServiceSpec == ServiceSpec /\ ServiceFairness

-----------------------------------------------------------------------------
(* A client that reports a confirmed effect, or succeeds, has its          *)
(* operation applied in the store, for good: _run_one_shot trusts receipts *)
(* that crossed a crash, another client's retry or a manual dispatch.      *)
ConfirmedIsApplied ==
  \A c \in Clients :
    cl[c].effect = "CONFIRMED" \/ cl[c].stage = "done" => base.item[cl[c].op] = "applied"

(* A service that was stopped and was not killed meanwhile leaves a fenced *)
(* run, or a store that nobody can use any more.                           *)
StopFences ==
  [][svc = "stopping" /\ svc' = "down" /\ crashes' = crashes
       => run \in base.revoked \/ ~whole]_all

Unserved(c) == \E p \in net : p.from = c

(* Every packet is taken, or the service goes down: no request of another  *)
(* client, no controller and no fault of the store blocks it.              *)
PacketsTaken == \A c \in Clients : Unserved(c) ~> ~Unserved(c)
=============================================================================
