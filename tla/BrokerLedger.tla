---------------------------- MODULE BrokerLedger ----------------------------
(***************************************************************************)
(* What the store of the brokered operator promises to its callers,        *)
(* whatever crashes, whoever shares it                                     *)
(* (src/docs/BROKERED_OPERATOR.md states it; BrokeredOperator implements   *)
(* it).  An operation is admitted at most once, is settled at most once,   *)
(* is never applied for a run that has been fenced, and nothing that the   *)
(* ledger says is ever unsaid.  A ledger that is damaged closes for good   *)
(* and stays as it was.                                                    *)
(***************************************************************************)
EXTENDS Naturals, FiniteSets

CONSTANTS Runs, Ops, NoRun, MaxActions

VARIABLES
  book,     \* "new", "open" or "closed"
  known,    \* the runs registered
  fenced,   \* those among them whose authority was withdrawn
  item,     \* item[o]: "none", "queued", "applied" or "rejected"
  owner     \* owner[o]: the run an operation was admitted for

ledger == <<book, known, fenced, item, owner>>

Owned(r) == {o \in Ops : owner[o] = r}

LedgerInit ==
  /\ book = "new" /\ known = {} /\ fenced = {}
  /\ item = [o \in Ops |-> "none"] /\ owner = [o \in Ops |-> NoRun]

Open == /\ book = "new" /\ book' = "open" /\ UNCHANGED <<known, fenced, item, owner>>

Close == /\ book' = "closed" /\ UNCHANGED <<known, fenced, item, owner>>

Register(r) ==
  /\ book = "open" /\ r \notin known
  /\ known' = known \cup {r}
  /\ UNCHANGED <<book, fenced, item, owner>>

Fence(r) ==
  /\ book = "open" /\ r \in known \ fenced
  /\ fenced' = fenced \cup {r}
  /\ UNCHANGED <<book, known, item, owner>>

Admit(o, r) ==
  /\ book = "open" /\ r \in known \ fenced
  /\ item[o] = "none" /\ Cardinality(Owned(r)) < MaxActions
  /\ item' = [item EXCEPT ![o] = "queued"]
  /\ owner' = [owner EXCEPT ![o] = r]
  /\ UNCHANGED <<book, known, fenced>>

Settle(o, how) ==
  /\ book = "open" /\ item[o] = "queued"
  /\ how = "applied" => owner[o] \in known \ fenced
  /\ item' = [item EXCEPT ![o] = how]
  /\ UNCHANGED <<book, known, fenced, owner>>

LedgerNext ==
  \/ Open \/ Close
  \/ \E r \in Runs : Register(r) \/ Fence(r)
  \/ \E o \in Ops, r \in Runs : Admit(o, r)
  \/ \E o \in Ops, how \in {"applied", "rejected"} : Settle(o, how)

LedgerSpec == LedgerInit /\ [][LedgerNext]_ledger
=============================================================================
