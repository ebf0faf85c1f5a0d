---------------------------- MODULE HostedProof ----------------------------
(***************************************************************************)
(* The hosted proof (src/lumi_eggcracker/hosted_proof.py): start forks the *)
(* repository if need be, checks the workflow of the fork, dispatches it   *)
(* once, looks for the run and may wait for it; resume reads a finished    *)
(* run again and exports its receipt.  Every step is one call of the       *)
(* GitHub CLI: between two of them the fork, its branches and its runs go  *)
(* on changing.                                                            *)
(***************************************************************************)
EXTENDS Naturals, Sequences

CONSTANTS
  MaxEvents,   \* changes by others than the helper
  MaxFailing,  \* calls of the CLI that fail
  MaxResumes   \* resumes after the first end

VARIABLES
  fork,      \* "none", "making", "fork", or "other": a repository of that name that is no fork
  default,   \* the fork's default branch
  tips,      \* the commit at the end of each branch
  upstream,  \* the commit a sync brings
  enabled,   \* the workflow may be dispatched
  runs,      \* the fork's runs of the workflow
  helper,    \* the step the helper is at
  branch, synced, lookups, link, snapshot,  \* its local state
  said,    \* what it has said
  saved,     \* the file at the receipt path
  moved,     \* a branch has moved since the helper checked the workflow
  events, failing, resumes

githubOf == <<fork, default, tips, upstream, enabled, runs, moved>>
helperOf == <<helper, branch, synced, lookups, link, snapshot, said, saved, resumes>>
hostedVars == <<githubOf, helperOf, events, failing>>

Branches == {"main", "dev"}
(* stale and newer are upstream's, with another workflow; altered has its  *)
(* owner's workflow; patched has the reviewed one and its owner's sources. *)
Commits == {"stale", "reviewed", "newer", "altered", "patched"}
ReviewedWorkflow(c) == c \in {"reviewed", "patched"}
ReviewedSource(c) == c \in {"reviewed", "altered"}
ReadyAttempts == 3
LookupAttempts == 2
(* A run that the owner dispatched by hand on a commit of its own.         *)
OwnersRun == [title |-> "manual", commit |-> "altered", fit |-> TRUE, attempts |-> <<"receipt">>, listed |-> TRUE]
NoSnapshot == [commit |-> "stale", attempt |-> 0, end |-> "none"]

HostedInit ==
  /\ fork \in {"none", "fork", "other"} /\ default = "main" /\ upstream \in {"reviewed", "newer"}
  /\ enabled \in BOOLEAN /\ (fork # "fork" => ~enabled)
  /\ tips \in {[b \in Branches |-> IF b = "main" THEN c ELSE "stale"] :
                c \in IF fork = "fork" THEN Commits \ {"newer"} ELSE {"stale"}}
  /\ runs \in {<<>>, <<OwnersRun>>} /\ (runs # <<>> => fork = "fork" /\ enabled)
  /\ helper = "find"
  /\ branch = "main" /\ synced = FALSE /\ lookups = 0 /\ link = 0 /\ snapshot = NoSnapshot
  /\ said = "none" /\ saved \in {"none", "users"} /\ moved = FALSE
  /\ events = 0 /\ failing = 0 /\ resumes = 0

-----------------------------------------------------------------------------
(* GitHub.  A run is fit when its branch was the default one: the workflow *)
(* refuses any other, and it refuses sources that do not have its digest.  *)
(* A workflow of the owner's may print any log.                            *)
NewRun(title, b) == [title |-> title, commit |-> tips[b], fit |-> b = default, attempts |-> <<"running">>,
                     listed |-> FALSE]
Ends(r) == {"failed"} \cup
  CASE r.commit = "altered" -> {"receipt", "other"}
    [] r.commit \in {"stale", "newer"} -> {"other"}
    [] r.commit = "reviewed" /\ r.fit -> {"receipt"}
    [] OTHER -> {}
LastEnd(i) == runs[i].attempts[Len(runs[i].attempts)]
Finished(i) == LastEnd(i) # "running"

WorkflowEnds(i) ==
  /\ ~Finished(i)
  /\ \E e \in Ends(runs[i]) : runs' = [runs EXCEPT ![i].attempts[Len(runs[i].attempts)] = e]
  /\ UNCHANGED <<fork, default, tips, upstream, enabled, moved, helperOf, events, failing>>
RunListed(i) ==
  /\ ~runs[i].listed /\ runs' = [runs EXCEPT ![i].listed = TRUE]
  /\ UNCHANGED <<fork, default, tips, upstream, enabled, moved, helperOf, events, failing>>
ForkReady ==
  /\ fork = "making" /\ fork' = "fork"
  /\ UNCHANGED <<default, tips, upstream, enabled, runs, moved, helperOf, events, failing>>

Other == events < MaxEvents /\ events' = events + 1 /\ UNCHANGED <<helperOf, failing>>
Push(b, c) ==
  /\ Other /\ fork = "fork" /\ tips[b] # c
  /\ tips' = [tips EXCEPT ![b] = c] /\ moved' = TRUE
  /\ UNCHANGED <<fork, default, upstream, enabled, runs>>
ChangeDefault ==
  /\ Other /\ fork = "fork" /\ \E b \in Branches \ {default} : default' = b
  /\ UNCHANGED <<fork, tips, upstream, enabled, runs, moved>>
DispatchByHand ==
  /\ Other /\ fork = "fork" /\ enabled
  /\ runs' = Append(runs, NewRun("manual", default))
  /\ UNCHANGED <<fork, default, tips, upstream, enabled, moved>>
Rerun(i) ==
  /\ Other /\ Finished(i) /\ Len(runs[i].attempts) < 2
  /\ runs' = [runs EXCEPT ![i].attempts = Append(@, "running")]
  /\ UNCHANGED <<fork, default, tips, upstream, enabled, moved>>

-----------------------------------------------------------------------------
(* The helper, with any of its options (--sync-fork, --wait, --receipt).   *)
At(step) == helper = step
Goes(step) == helper' = step /\ UNCHANGED <<branch, synced, lookups, link, snapshot, said, saved, resumes>>
Concludes(r) == helper' = "done" /\ said' = r
           /\ UNCHANGED <<branch, synced, lookups, link, snapshot, saved, resumes>>
GithubStays == UNCHANGED <<githubOf, events, failing>>
Checks(holds, step) == GithubStays /\ IF holds THEN Goes(step) ELSE Concludes("refused")
Failing == failing < MaxFailing /\ failing' = failing + 1 /\ UNCHANGED events

Described == fork \in {"fork", "other"}
ParseMetadata ==
  IF fork = "fork"
  THEN /\ helper' = "identify" /\ branch' = default
       /\ UNCHANGED <<synced, lookups, link, snapshot, said, saved, resumes>>
  ELSE Concludes("refused")

ForkMetadata == At("find") /\ GithubStays /\ IF Described THEN ParseMetadata ELSE Goes("create")
Forked ==
  IF fork = "none"
  THEN fork' = "making" /\ tips' = [tips EXCEPT !["main"] = upstream]
  ELSE UNCHANGED <<fork, tips>>
CreateFork ==
  /\ At("create") /\ Goes("await")
  /\ Forked /\ UNCHANGED <<default, upstream, enabled, runs, moved, events, failing>>
NotReady ==
  IF lookups + 1 < ReadyAttempts
  THEN lookups' = lookups + 1 /\ UNCHANGED <<helper, branch, synced, link, snapshot, said, saved, resumes>>
  ELSE Concludes("refused")
AwaitFork == At("await") /\ GithubStays /\ IF Described THEN ParseMetadata ELSE NotReady

(* Faulty variant: not checked again after a sync.                         *)
IdentifiedOnce == synced \/ ReviewedWorkflow(tips[branch])
Identified == ReviewedWorkflow(tips[branch])
WorkflowIdentity ==
  /\ At("identify") /\ UNCHANGED <<fork, default, tips, upstream, enabled, runs, events, failing>>
  /\ moved' = FALSE
  /\ IF Identified THEN Goes("enable")
     ELSE (~synced /\ Goes("sync")) \/ Concludes("refused")
(* Only a fast forward: the owner's own commits stay.                      *)
SyncFork ==
  /\ At("sync") /\ UNCHANGED <<fork, default, upstream, enabled, runs, moved, events, failing>>
  /\ IF tips[branch] \in {"stale", "reviewed", upstream}
     THEN tips' = [tips EXCEPT ![branch] = upstream] /\ Goes("refresh")
     ELSE UNCHANGED tips /\ Concludes("refused")
RefreshMetadata ==
  /\ At("refresh") /\ GithubStays
  /\ IF fork = "fork" /\ default = branch
     THEN /\ helper' = "identify" /\ synced' = TRUE
          /\ UNCHANGED <<branch, lookups, link, snapshot, said, saved, resumes>>
     ELSE Concludes("refused")

EnableWorkflow ==
  /\ At("enable") /\ enabled' = TRUE /\ Goes("dispatch")
  /\ UNCHANGED <<fork, default, tips, upstream, runs, moved, events, failing>>
WorkflowActive == At("active") /\ Checks(enabled, "dispatch")

Accepted == runs' = Append(runs, NewRun("ours", branch)) /\ UNCHANGED <<fork, default, tips, upstream, enabled, moved>>
(* An accepted dispatch may answer with the address of its run.            *)
Linked(i) ==
  /\ link' = i /\ UNCHANGED <<branch, synced, lookups, snapshot, saved, resumes>>
  /\ \/ helper' = "watch" /\ UNCHANGED said
     \/ helper' = "done" /\ said' = "dispatched"
NoLink == Concludes("unresolved")
Dispatch ==
  /\ At("dispatch") /\ Accepted /\ UNCHANGED <<events, failing>>
  /\ \/ Linked(Len(runs) + 1)
     \/ /\ helper' = "lookup" /\ lookups' = 0
        /\ UNCHANGED <<branch, synced, link, snapshot, said, saved, resumes>>

(* Faulty variant: any recent run of the caller's.                         *)
CandidatesByActor == {i \in DOMAIN runs : runs[i].listed}
Candidates == {i \in DOMAIN runs : runs[i].listed /\ runs[i].title = "ours"}
LookUpRun ==
  /\ At("lookup") /\ GithubStays
  /\ IF Candidates = {}
     THEN IF lookups + 1 < LookupAttempts
          THEN lookups' = lookups + 1
               /\ UNCHANGED <<helper, branch, synced, link, snapshot, said, saved, resumes>>
          ELSE NoLink
     ELSE IF \E i \in Candidates : Candidates = {i}
          THEN \E i \in Candidates : Linked(i)
          ELSE NoLink

(* --wait: the exit code of the watch is not looked at, the state is.      *)
WatchRun == At("watch") /\ Finished(link) /\ GithubStays /\ Goes("status")
(* Faulty variant: the conclusion is taken for a success.                  *)
RunStatusUnread ==
  /\ At("status") /\ GithubStays
  /\ helper' = "log" /\ snapshot' = [NoSnapshot EXCEPT !.end = "receipt"]
  /\ UNCHANGED <<branch, synced, lookups, link, said, saved, resumes>>
RunStatus ==
  /\ At("status") /\ GithubStays
  /\ IF Finished(link)
     THEN /\ helper' = "log" /\ snapshot' = [NoSnapshot EXCEPT !.end = LastEnd(link)]
          /\ UNCHANGED <<branch, synced, lookups, link, said, saved, resumes>>
     ELSE Concludes("refused")
RunLog ==
  /\ At("log") /\ GithubStays
  /\ Concludes(IF ~Finished(link) THEN "refused" ELSE IF snapshot.end = "failed" THEN "failed" ELSE "passed")

-----------------------------------------------------------------------------
(* --resume URL: any run of the fork's, without dispatching.               *)
Resume(i) ==
  /\ At("done") /\ resumes < MaxResumes /\ resumes' = resumes + 1
  /\ helper' = "repository" /\ link' = i /\ said' = "none" /\ snapshot' = NoSnapshot
  /\ GithubStays /\ UNCHANGED <<branch, synced, lookups, saved>>
SnapshotOf(i) == [commit |-> runs[i].commit, attempt |-> Len(runs[i].attempts), end |-> LastEnd(i)]
ResumeRepository == At("repository") /\ Checks(fork = "fork", "run")
ResumeRun ==
  /\ At("run") /\ GithubStays
  /\ IF LastEnd(link) \in {"receipt", "other"}
     THEN /\ snapshot' = SnapshotOf(link) /\ helper' = "workflow"
          /\ UNCHANGED <<branch, synced, lookups, link, said, saved, resumes>>
     ELSE Concludes("refused")
(* Faulty variant: the workflow at the branch as it is now.                *)
ResumedWorkflowAtBranch == ReviewedWorkflow(tips[default])
(* Both identities are read at the run's own commit.                       *)
ResumedWorkflow == ReviewedWorkflow(snapshot.commit)
ResumeWorkflow == At("workflow") /\ Checks(ResumedWorkflow, "source")
ResumeSource == At("source") /\ Checks(ReviewedSource(snapshot.commit), "receipt")
(* The receipt of the attempt that was read, bound to the head and digest. *)
ReceiptFromLog == At("receipt") /\ Checks(runs[link].attempts[snapshot.attempt] = "receipt", "reread")
(* Faulty variant: only the commit is compared.                            *)
SameCommit == runs[link].commit = snapshot.commit
Same == SnapshotOf(link) = snapshot
Reread ==
  /\ At("reread") /\ GithubStays
  /\ IF Same THEN Goes("save") \/ Concludes("verified") ELSE Concludes("refused")
(* Faulty variant: an existing file is written over.                       *)
AnyFile == TRUE
Vacant == saved = "none"
Saves(s, r) == saved' = s /\ helper' = "done" /\ said' = r
                /\ UNCHANGED <<branch, synced, lookups, link, snapshot, resumes>>
SaveReceipt == At("save") /\ GithubStays /\ IF Vacant THEN Saves("receipt", "verified") ELSE Concludes("refused")

-----------------------------------------------------------------------------
(* Calls that fail.  No answer ends the helper, whatever the call has      *)
(* done; an error of some calls has a way on.                              *)
ReadOnly == {"find", "await", "identify", "refresh", "active", "watch", "status", "log",
             "repository", "run", "workflow", "source", "receipt", "reread"}
ReadFails == helper \in ReadOnly /\ Failing /\ Concludes("refused") /\ UNCHANGED githubOf
ErrorPasses ==
  /\ Failing /\ UNCHANGED githubOf
  /\ \/ At("find") /\ Goes("create")
     \/ At("create") /\ Goes("await")
     \/ At("await") /\ NotReady
     \/ At("identify") /\ ~synced /\ Goes("sync")
     \/ At("enable") /\ Goes("active")
     \/ At("lookup") /\ NoLink
UnansweredFork ==
  /\ At("create") /\ Failing /\ Concludes("refused") /\ (Forked \/ UNCHANGED <<fork, tips>>)
  /\ UNCHANGED <<default, upstream, enabled, runs, moved>>
UnansweredSync ==
  /\ At("sync") /\ Failing /\ Concludes("refused")
  /\ tips' \in {tips, [tips EXCEPT ![branch] = IF @ \in {"stale", "reviewed"} THEN upstream ELSE @]}
  /\ UNCHANGED <<fork, default, upstream, enabled, runs, moved>>
UnansweredEnable ==
  /\ At("enable") /\ Failing /\ Concludes("refused") /\ enabled' \in {enabled, TRUE}
  /\ UNCHANGED <<fork, default, tips, upstream, runs, moved>>
DispatchRejected == At("dispatch") /\ Failing /\ Concludes("refused") /\ UNCHANGED githubOf
DispatchUnanswered == At("dispatch") /\ Failing /\ Concludes("unanswered") /\ Accepted
SaveFails == At("save") /\ Vacant /\ Failing /\ UNCHANGED githubOf /\ Saves("partial", "refused")

HostedNext ==
  \/ ForkReady \/ ChangeDefault \/ DispatchByHand
  \/ \E b \in Branches, c \in {"reviewed", "altered", "patched"} : Push(b, c)
  \/ \E i \in DOMAIN runs : WorkflowEnds(i) \/ RunListed(i) \/ Rerun(i) \/ Resume(i)
  \/ ForkMetadata \/ CreateFork \/ AwaitFork \/ WorkflowIdentity \/ SyncFork \/ RefreshMetadata
  \/ EnableWorkflow \/ WorkflowActive \/ Dispatch \/ LookUpRun \/ WatchRun \/ RunStatus \/ RunLog
  \/ ResumeRepository \/ ResumeRun \/ ResumeWorkflow \/ ResumeSource \/ ReceiptFromLog \/ Reread \/ SaveReceipt
  \/ ReadFails \/ ErrorPasses \/ UnansweredFork \/ UnansweredSync \/ UnansweredEnable
  \/ DispatchRejected \/ DispatchUnanswered \/ SaveFails

HostedSpec == HostedInit /\ [][HostedNext]_hostedVars

-----------------------------------------------------------------------------
Ours == {i \in DOMAIN runs : runs[i].title = "ours"}

(* What the helper says is so: a run it links to after a dispatch is its   *)
(* own; PASS of a waited run means that this run has had a successful      *)
(* attempt; what it dispatched is the reviewed workflow unless a branch    *)
(* moved after the check; when it refused, it dispatched nothing; and a    *)
(* resumed PASS is of the reviewed workflow and sources at the run's own   *)
(* commit, with the receipt of an attempt of that run.                     *)
HostedClaimsAreTrue ==
  /\ resumes = 0 /\ link # 0 => link \in Ours
  /\ said = "passed" => \E k \in DOMAIN runs[link].attempts : runs[link].attempts[k] \in {"receipt", "other"}
  /\ \A i \in Ours : ReviewedWorkflow(runs[i].commit) \/ moved
  /\ resumes = 0 /\ said = "refused" /\ link = 0 => Ours = {}
  /\ said = "verified" =>
       /\ runs[link].commit = "reviewed" /\ runs[link].fit
       /\ runs[link].attempts[snapshot.attempt] = "receipt"

(* When the receipt is exported, its attempt was still the last one when   *)
(* the run was last read; and a file that is there is never written again. *)
ExportIsOfLastRead ==
  [][/\ helper = "reread" /\ (helper' = "save" \/ said' = "verified") =>
          /\ Len(runs[link].attempts) = snapshot.attempt /\ LastEnd(link) = "receipt"
     /\ saved # "none" => saved' = saved]_hostedVars
=============================================================================
