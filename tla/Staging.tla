------------------------------ MODULE Staging ------------------------------
(***************************************************************************)
(* Readers of a file that its owner goes on changing.  An approval takes   *)
(* the digest of a script, a start copies the approved script to a place   *)
(* of root's before its gate opens (approvals.py: _hash_descriptor,        *)
(* _classify, stage_launch; supervisor.py: _start, _clear_stage), and the  *)
(* file observer reports on a file (gguf_file_observe.py).  Every stat,    *)
(* open and read of a block is a step.  A digest is the content it is of.  *)
(***************************************************************************)
EXTENDS Naturals, Sequences

CONSTANTS
  MaxWrites,     \* writes of the owner's
  StagingFaults  \* writes and starts that fail, and crashes

VARIABLES
  reader,                       \* "root" (approves, then starts) or "observer"
  coarse,                       \* a write may leave the times of the file as they are, or its owner sets them back
  path, content, stamp, writes, \* the path's file, and for each file its content and times
  was,                          \* the contents that the open file has had since it was opened
  material,                     \* a material of root's: its version
  at, fd, buffer,               \* the reader's step, its open file, what it has read
  firstStat, marked,            \* its first stat, and the one of the open file it compares with
  binding,                      \* the approval's inode, size, digest and material
  copy,                         \* the copy: none, or its blocks and whether its mode is set
  reached, answer, mishaps      \* how far the start is; the observer's answer

ownerOf == <<path, content, stamp, writes, material, was>>
readerOf == <<at, fd, firstStat, marked, buffer>>
stagingVars == <<reader, coarse, ownerOf, readerOf, binding, copy, reached, answer, mishaps>>

Inodes == {1, 2}
NoInode == 0   \* nothing there
Symlink == 3   \* a symbolic link to the first file
Blocks == {"a", "b"}
Contents == {<<x, y>> : x, y \in Blocks} \cup {<<x>> : x \in Blocks}
NoStat == [inode |-> NoInode, size |-> 0, stamp |-> 0]
NoBinding == [inode |-> NoInode, size |-> 0, digest |-> <<>>, material |-> 0]
Nothing == [is |-> "none", blocks |-> <<>>, sealed |-> FALSE]

StagingInit ==
  /\ reader \in {"root", "observer"} /\ coarse \in BOOLEAN
  /\ path = 1 /\ content = [f \in Inodes |-> IF f = 1 THEN <<"a", "a">> ELSE <<"b", "b">>]
  /\ stamp = [f \in Inodes |-> 0] /\ writes = 0 /\ material = 0 /\ was = {}
  /\ at = "idle" /\ fd = NoInode /\ firstStat = NoStat /\ marked = NoStat /\ buffer = <<>>
  /\ binding = NoBinding /\ copy = Nothing /\ reached = "none" /\ answer = "none" /\ mishaps = 0

-----------------------------------------------------------------------------
(* The owner writes in place, or makes the path name something else; root  *)
(* replaces the material.                                                  *)
Owner == writes < MaxWrites /\ writes' = writes + 1
         /\ UNCHANGED <<reader, coarse, readerOf, binding, copy, reached, answer, mishaps>>
Write(f, c) ==
  /\ Owner /\ content[f] # c /\ content' = [content EXCEPT ![f] = c]
  /\ \/ stamp' = [stamp EXCEPT ![f] = @ + 1]
     \/ coarse /\ UNCHANGED stamp
  /\ was' = (IF f = fd THEN was \cup {c} ELSE was)
  /\ UNCHANGED <<path, material>>
Rename(p) == Owner /\ path # p /\ path' = p /\ UNCHANGED <<content, stamp, material, was>>
ReplaceMaterial == Owner /\ reader = "root" /\ material' = material + 1 /\ UNCHANGED <<path, content, stamp, was>>

-----------------------------------------------------------------------------
Stat(f) == [inode |-> f, size |-> Len(content[f]), stamp |-> stamp[f]]
SameFile(s, t) == s.inode = t.inode /\ s.size = t.size
OwnerRests == UNCHANGED <<reader, coarse, path, content, stamp, writes, material, mishaps>>
Keeps == UNCHANGED <<binding, copy, reached, answer>>
LetGo == fd' = NoInode /\ was' = {} /\ firstStat' = NoStat /\ marked' = NoStat /\ buffer' = <<>> /\ at' = "idle"

(* O_NOFOLLOW: the file is what the path names, and no link.               *)
Opens(next) ==
  /\ path \in Inodes /\ fd' = path /\ was' = {content[path]} /\ at' = next
(* A block is read, or the end of the file is found.                       *)
Block == content[fd][Len(buffer) + 1]
Short == Len(buffer) + 1 > Len(content[fd])
Reads == ~Short /\ buffer' = Append(buffer, Block)

-----------------------------------------------------------------------------
(* create: the script is opened and its identity taken, then its digest    *)
(* from the same descriptor, between two stats of its own.                 *)
ApproveRefused == LetGo /\ Keeps
TakeApproval ==
  /\ reader = "root" /\ reached = "none" /\ at = "idle" /\ Opens("identity")
  /\ OwnerRests /\ Keeps /\ UNCHANGED <<firstStat, marked, buffer>>
ApproveIdentity ==
  /\ at = "identity" /\ reached = "none" /\ firstStat' = Stat(fd) /\ at' = "hash"
  /\ OwnerRests /\ Keeps /\ UNCHANGED <<fd, was, marked, buffer>>
HashBegins ==
  /\ at = "hash" /\ marked' = Stat(fd) /\ at' = "hashing"
  /\ OwnerRests /\ Keeps /\ UNCHANGED <<fd, was, firstStat, buffer>>
HashBlock ==
  /\ at = "hashing" /\ Len(buffer) < marked.size /\ OwnerRests
  /\ \/ Reads /\ Keeps /\ UNCHANGED <<at, fd, was, firstStat, marked>>
     \/ Short /\ ApproveRefused
(* Faulty variant: no second stat.                                         *)
AnyStat == TRUE
Unchanged == Stat(fd) = marked
HashEnds ==
  /\ at = "hashing" /\ Len(buffer) = marked.size /\ OwnerRests
  /\ IF Unchanged
     THEN /\ at' = "hashed" /\ Keeps /\ UNCHANGED <<fd, was, firstStat, marked, buffer>>
     ELSE ApproveRefused
ApprovalWritten ==
  /\ at = "hashed" /\ OwnerRests /\ LetGo
  /\ binding' = [inode |-> firstStat.inode, size |-> firstStat.size, digest |-> buffer, material |-> material]
  /\ reached' = "approved" /\ UNCHANGED <<copy, answer>>

-----------------------------------------------------------------------------
(* stage_launch: materials first, then the script, copied and hashed in    *)
(* one pass.                                                               *)
StageFails == LetGo /\ copy' = Nothing /\ reached' = "refused" /\ UNCHANGED <<binding, answer>>
(* Only root can write it, and it is as it was.                            *)
MaterialHolds == material = binding.material
StageMaterials ==
  /\ reached = "approved" /\ at = "idle" /\ OwnerRests
  /\ IF MaterialHolds
     THEN reached' = "staging" /\ UNCHANGED <<readerOf, was, binding, copy, answer>>
     ELSE StageFails
StageOpen ==
  /\ reached = "staging" /\ at = "idle" /\ OwnerRests
  /\ \/ Opens("drifted") /\ Keeps /\ UNCHANGED <<firstStat, marked, buffer>>
     \/ path \notin Inodes /\ StageFails
StageIdentity ==
  /\ at = "drifted" /\ OwnerRests
  /\ IF SameFile(Stat(fd), binding)
     THEN /\ marked' = Stat(fd) /\ at' = "copying"
          /\ copy' = [is |-> "script", blocks |-> <<>>, sealed |-> FALSE]
          /\ UNCHANGED <<fd, was, firstStat, buffer, binding, reached, answer>>
     ELSE StageFails
StageBlock ==
  /\ at = "copying" /\ Len(buffer) < marked.size /\ OwnerRests
  /\ \/ /\ Reads /\ copy' = [copy EXCEPT !.blocks = Append(@, Block)]
        /\ UNCHANGED <<at, fd, was, firstStat, marked, binding, reached, answer>>
     \/ Short /\ StageFails
(* Faulty variant: the digest of the copy is not compared.                 *)
CopiedUnread == Len(buffer) = marked.size /\ Stat(fd) = marked
Copied == Len(buffer) = marked.size /\ buffer = binding.digest /\ Stat(fd) = marked
StageEnds ==
  /\ at = "copying" /\ Len(buffer) = marked.size /\ OwnerRests
  /\ IF Copied
     THEN copy' = [copy EXCEPT !.sealed = TRUE] /\ reached' = "staged" /\ LetGo /\ UNCHANGED <<binding, answer>>
     ELSE StageFails

(* The rest of the start: its failures clear the copy, and so does the     *)
(* end of the run.  The account that has drifted when it is looked at once *)
(* more before the unit is made is a failure outside both rollbacks: the   *)
(* copy stays.  A run whose record is stored is recovered after a crash    *)
(* and ends then; a copy without a record is not.                          *)
Rest == UNCHANGED <<readerOf, was, binding, answer>>
Recorded == reached = "staged" /\ reached' = "recorded" /\ UNCHANGED copy /\ OwnerRests /\ Rest
Released == reached = "recorded" /\ reached' = "released" /\ UNCHANGED copy /\ OwnerRests /\ Rest
Cleared == copy' = Nothing
RunOver == reached \in {"released", "recorded"} /\ reached' = "ended" /\ Cleared /\ OwnerRests /\ Rest
Mishap == mishaps < StagingFaults /\ mishaps' = mishaps + 1
          /\ UNCHANGED <<reader, coarse, path, content, stamp, writes, material>>
StartFails == Mishap /\ reached \in {"staged", "recorded"} /\ reached' = "refused" /\ Cleared /\ Rest
AccountDrifts == Mishap /\ reached = "staged" /\ reached' = "abandoned" /\ UNCHANGED copy /\ Rest
CopyFails == Mishap /\ at = "copying" /\ StageFails
RootCrashes ==
  /\ Mishap /\ reached \in {"staging", "staged", "recorded", "released"} /\ LetGo
  /\ reached' = (IF reached \in {"recorded", "released"} THEN "recovering" ELSE "lost")
  /\ UNCHANGED <<binding, copy, answer>>
RunRecovered == reached = "recovering" /\ reached' = "ended" /\ Cleared /\ OwnerRests /\ Rest

-----------------------------------------------------------------------------
(* observe_file: the path before, the open file before and after, and the  *)
(* path after; a failure of the parser waits for these checks.             *)
Answers(a) == LetGo /\ answer' = a /\ UNCHANGED <<binding, copy, reached>>
ObservePath ==
  /\ reader = "observer" /\ answer = "none" /\ at = "idle" /\ OwnerRests
  /\ IF path \in Inodes
     THEN firstStat' = Stat(path) /\ at' = "open" /\ Keeps /\ UNCHANGED <<fd, was, marked, buffer>>
     ELSE Answers("unavailable")
ObserveOpen ==
  /\ at = "open" /\ OwnerRests
  /\ \/ Opens("opened") /\ Keeps /\ UNCHANGED <<firstStat, marked, buffer>>
     \/ path \notin Inodes /\ Answers("unavailable")
ObserveOpened ==
  /\ at = "opened" /\ OwnerRests
  /\ IF SameFile(Stat(fd), firstStat)
     THEN marked' = Stat(fd) /\ at' = "parsing" /\ Keeps /\ UNCHANGED <<fd, was, firstStat, buffer>>
     ELSE Answers("changed")
ParseBlock ==
  /\ at = "parsing" /\ OwnerRests /\ Keeps
  /\ \/ Len(buffer) < marked.size /\ Reads /\ UNCHANGED <<at, fd, was, firstStat, marked>>
     \/ (Short \/ Len(buffer) = marked.size) /\ at' = "after" /\ UNCHANGED <<fd, was, firstStat, marked, buffer>>
ObserveAfter ==
  /\ at = "after" /\ OwnerRests
  /\ IF Unchanged THEN at' = "pathAfter" /\ Keeps /\ UNCHANGED <<fd, was, firstStat, marked, buffer>>
     ELSE Answers("changed")
(* Faulty variant: the path is not looked at again.                        *)
AnyPath == TRUE
PathUnchanged == path \in Inodes /\ Stat(path) = firstStat /\ fd = path
Usable(b) == b[1] = "a" /\ Len(b) = 2
ObserveEnds ==
  /\ at = "pathAfter" /\ OwnerRests
  /\ IF ~PathUnchanged
     THEN Answers("changed")
     ELSE IF Usable(buffer)
          THEN /\ at' = "reported" /\ answer' = "evidence" /\ UNCHANGED <<fd, was, firstStat, marked, buffer>>
               /\ UNCHANGED <<binding, copy, reached>>
          ELSE Answers("unusable")

StagingNext ==
  \/ \E f \in Inodes, c \in Contents : Write(f, c)
  \/ \E p \in Inodes \cup {NoInode, Symlink} : Rename(p)
  \/ ReplaceMaterial
  \/ TakeApproval \/ ApproveIdentity \/ HashBegins \/ HashBlock \/ HashEnds \/ ApprovalWritten
  \/ StageMaterials \/ StageOpen \/ StageIdentity \/ StageBlock \/ StageEnds
  \/ Recorded \/ Released \/ RunOver \/ StartFails \/ AccountDrifts \/ CopyFails \/ RootCrashes \/ RunRecovered
  \/ ObservePath \/ ObserveOpen \/ ObserveOpened \/ ParseBlock \/ ObserveAfter \/ ObserveEnds

StagingSpec == StagingInit /\ [][StagingNext]_stagingVars

-----------------------------------------------------------------------------
(* Whatever the owner writes and when, times or no times: the script that  *)
(* runs when the gate is open is the approved content, of an approved      *)
(* size; and a start that is refused, rolled back or over leaves no copy,  *)
(* other than one refused because the account drifted after the staging.   *)
StagedIsApproved ==
  /\ reached \in {"staged", "recorded", "released"} =>
       copy.sealed /\ copy.blocks = binding.digest /\ Len(copy.blocks) = binding.size
  /\ reached \in {"none", "approved", "refused", "ended"} => copy = Nothing

(* Where every write changes the times of a file: an approved digest is of *)
(* a content that the file once had as a whole, and so is what the         *)
(* observer reports, of the file that the path still names.                *)
ReadsAreWhole ==
  ~coarse =>
    /\ at = "hashed" => buffer \in was
    /\ at = "reported" => buffer \in was
(* What is reported is of the file that the path named at the last look.   *)
ReportsThePath == [][at' = "reported" /\ at # "reported" => fd = path]_stagingVars

(* All three: what a start and the observer make of a file in motion.      *)
FilesHold == []StagedIsApproved /\ []ReadsAreWhole /\ ReportsThePath
=============================================================================
