------------------------------ MODULE CodingJob ------------------------------
(***************************************************************************)
(* One coding job, from its empty workspace to the candidate that is built *)
(* from it (lab_coding_job.py, lab_worker_job.py, lab_worker_change_policy *)
(* .py, lab_coding_candidate.py).                                          *)
(*                                                                         *)
(* The worker may do anything to the workspace and report anything.  What  *)
(* it started may outlive it and keep writing, so every capture of the     *)
(* workspace is a scan, one path per step, of something that may change.   *)
(* A path holds the number of its last write, 0 for the committed content; *)
(* contents do not return to what they were.                               *)
(***************************************************************************)
EXTENDS Integers

CONSTANTS
  Paths,       \* the paths of the workspace that anyone touches
  Committed,   \* those that the commit seeds
  Targets,     \* the change policy: the operation allowed at each target
  MaxWrites,   \* bound: writes by the worker
  MaxLate      \* bound: writes after the worker has returned

Operations == {"ADDED", "MODIFIED"}

PathsAssumption == Committed \subseteq Paths
BoundsAssumption == MaxWrites \in Nat /\ MaxLate \in Nat
TargetsAssumption ==
  /\ DOMAIN Targets \subseteq Paths /\ DOMAIN Targets # {}
  /\ \A p \in DOMAIN Targets : Targets[p] \in Operations

VARIABLES
  pc,         \* where the job is
  workspace,  \* what each path holds
  before,     \* the snapshot before the worker
  after,      \* the snapshot after it
  again,      \* the snapshot of the candidate builder
  reread,     \* the contents the candidate builder has read, by path
  status,     \* what the worker reported
  candidate,  \* the candidate's files, {} or a singleton
  writes,     \* number of the last write
  moments     \* history: the states of the workspace since the worker returned

vars == <<pc, workspace, before, after, again, reread, status, candidate, writes, moments>>

Statuses == {"COMPLETED", "FAILED", "TIMED_OUT"}

\* A node is absent, a regular file that the policy can accept, or something
\* else: a directory, a link, an executable, a file that is too large.
Absent == [kind |-> "absent", write |-> 0]
File(n) == [kind |-> "file", write |-> n]
Other(n) == [kind |-> "other", write |-> n]

Unseen == [kind |-> "unseen", write |-> 0]
Empty == [p \in Paths |-> Absent]
NotScanned == [p \in Paths |-> Unseen]

Init ==
  /\ pc = "create"
  /\ workspace = Empty
  /\ before = NotScanned /\ after = NotScanned /\ again = NotScanned
  /\ reread = NotScanned
  /\ status = "none"
  /\ candidate = {}
  /\ writes = 0
  /\ moments = {}

-----------------------------------------------------------------------------
(***************************************************************************)
(* The physical difference of two snapshots and the policy's verdict on it. *)
(***************************************************************************)
Changed(old, new) == {p \in Paths : old[p] # new[p]}

ChangeAt(old, new, p) ==
  IF old[p] = Absent THEN "ADDED"
  ELSE IF new[p] = Absent THEN "DELETED" ELSE "MODIFIED"

\* validate_lab_worker_change_policy_before.
PolicyBefore(old) ==
  \A p \in DOMAIN Targets :
    old[p] = (IF Targets[p] = "ADDED" THEN Absent ELSE File(0))

\* Mutation of PolicyDiff: a failed job may do anything.
PolicyDiffOfSuccess(old, new, complete) ==
  complete =>
    /\ PolicyBefore(old)
    /\ \A p \in Changed(old, new) : p \in DOMAIN Targets /\ new[p].kind = "file"
    /\ Changed(old, new) = DOMAIN Targets

\* validate_lab_worker_change_policy_diff: every physical change is a target's
\* own operation and ends in an acceptable file; a success changes them all.
PolicyDiff(old, new, complete) ==
  /\ PolicyBefore(old)
  /\ \A p \in Changed(old, new) :
       /\ p \in DOMAIN Targets
       /\ ChangeAt(old, new, p) = Targets[p]
       /\ new[p].kind = "file"
  /\ complete => Changed(old, new) = DOMAIN Targets

-----------------------------------------------------------------------------
Goto(next) == pc' = next

\* create_lab_workspace, then seed_lab_workspace_from_commit: the committed
\* content of the chosen paths, the targets to be added among the absent.
Seed ==
  /\ pc = "create"
  /\ \E paths \in SUBSET Committed :
       workspace' = [p \in Paths |-> IF p \in paths THEN File(0) ELSE Absent]
  /\ Goto("before")
  /\ UNCHANGED <<before, after, again, reread, status, candidate, writes, moments>>

\* The worker has not started: nothing moves while this snapshot is taken.
CaptureBefore ==
  /\ pc = "before"
  /\ before' = workspace
  /\ Goto(IF PolicyBefore(workspace) THEN "worker" ELSE "raised")
  /\ UNCHANGED <<workspace, after, again, reread, status, candidate, writes, moments>>

Put(p, node) ==
  /\ workspace' = [workspace EXCEPT ![p] = node]
  /\ writes' = writes + 1

WorkerWrites(p) ==
  /\ pc = "worker" /\ writes < MaxWrites
  /\ \E node \in {Absent, File(writes + 1), Other(writes + 1)} : Put(p, node)
  /\ UNCHANGED <<pc, before, after, again, reread, status, candidate, moments>>

WorkerReturns ==
  /\ pc = "worker"
  /\ status' \in Statuses \cup {"malformed"}
  /\ Goto("after")
  /\ moments' = {workspace}
  /\ UNCHANGED <<workspace, before, after, again, reread, candidate, writes>>

\* What the worker left behind writes until the workspace is forgotten.
LateWrite(p) ==
  /\ pc \notin {"create", "before", "worker", "raised", "built"}
  /\ writes < MaxWrites + MaxLate
  /\ \E node \in {File(writes + 1), Other(writes + 1)} :
       /\ Put(p, node)
       /\ moments' = moments \cup {[workspace EXCEPT ![p] = node]}
  /\ UNCHANGED <<pc, before, after, again, reread, status, candidate>>

\* One path of the snapshot after the worker; files come in any order.
ScanAfter(p) ==
  /\ pc = "after" /\ after[p] = Unseen
  /\ after' = [after EXCEPT ![p] = workspace[p]]
  /\ UNCHANGED <<pc, workspace, before, again, reread, status, candidate, writes, moments>>

Complete(snapshot) == \A p \in Paths : snapshot[p] # Unseen

\* Mutation of Judge: the worker is believed before the workspace is judged.
JudgeByStatus ==
  /\ pc = "after" /\ Complete(after)
  /\ Goto(CASE status = "malformed" -> "raised"
            [] status = "COMPLETED" -> "reread"
            [] OTHER -> "unsuccessful")
  /\ UNCHANGED <<workspace, before, after, again, reread, status, candidate, writes, moments>>

\* run_lab_worker_job after the worker: physical truth first, then the report.
Judge ==
  /\ pc = "after" /\ Complete(after)
  /\ Goto(IF ~PolicyDiff(before, after, FALSE) \/ status = "malformed" THEN "raised"
          ELSE IF status # "COMPLETED" THEN "unsuccessful"
          ELSE IF PolicyDiff(before, after, TRUE) THEN "reread" ELSE "raised")
  /\ UNCHANGED <<workspace, before, after, again, reread, status, candidate, writes, moments>>

\* build_lab_coding_candidate reads each changed file and must find the bytes
\* of the snapshot.
Reread(p) ==
  /\ pc = "reread" /\ p \in Changed(before, after) /\ reread[p] = Unseen
  /\ reread' = [reread EXCEPT ![p] = workspace[p]]
  /\ Goto(IF workspace[p] = after[p] THEN "reread" ELSE "raised")
  /\ UNCHANGED <<workspace, before, after, again, status, candidate, writes, moments>>

StartRecapture ==
  /\ pc = "reread" /\ \A p \in Changed(before, after) : reread[p] # Unseen
  /\ Goto("recapture")
  /\ UNCHANGED <<workspace, before, after, again, reread, status, candidate, writes, moments>>

ScanAgain(p) ==
  /\ pc = "recapture" /\ again[p] = Unseen
  /\ again' = [again EXCEPT ![p] = workspace[p]]
  /\ UNCHANGED <<pc, workspace, before, after, reread, status, candidate, writes, moments>>

\* The candidate carries what was read back, if the whole workspace is still
\* what the snapshot says.
Build ==
  /\ pc = "recapture" /\ Complete(again)
  /\ IF again = after
     THEN /\ candidate' = {[p \in Changed(before, after) |-> reread[p]]}
          /\ Goto("built")
     ELSE Goto("raised") /\ UNCHANGED candidate
  /\ UNCHANGED <<workspace, before, after, again, reread, status, writes, moments>>

\* Any look at the workspace may fail, and so may the worker.
Raise ==
  /\ pc \in {"create", "before", "worker", "after", "reread", "recapture"}
  /\ Goto("raised")
  /\ UNCHANGED <<workspace, before, after, again, reread, status, candidate, writes, moments>>

Next ==
  \/ Seed \/ CaptureBefore \/ WorkerReturns
  \/ Judge \/ StartRecapture \/ Build \/ Raise
  \/ \E p \in Paths :
       WorkerWrites(p) \/ LateWrite(p) \/ ScanAfter(p) \/ Reread(p) \/ ScanAgain(p)

Spec == Init /\ [][Next]_vars

-----------------------------------------------------------------------------
Nodes ==
  {Unseen, Absent} \cup {File(n) : n \in 0 .. MaxWrites + MaxLate}
                   \cup {Other(n) : n \in 1 .. MaxWrites + MaxLate}

TypeOK ==
  /\ pc \in {"create", "before", "worker", "after", "unsuccessful", "reread",
             "recapture", "built", "raised"}
  /\ {workspace, before, after, again, reread} \subseteq [Paths -> Nodes]
  /\ status \in Statuses \cup {"none", "malformed"}
  /\ \A x, y \in candidate : x = y
  /\ writes \in 0 .. MaxWrites + MaxLate
  /\ moments \subseteq [Paths -> Nodes]

\* A candidate shows the workspace as it was at one moment after the worker
\* had returned, although neither scan is atomic and processes it left behind
\* write between any two reads: the second snapshot must equal the first.
CandidateIsAMoment ==
  \A files \in candidate :
    \E w \in moments : \A p \in Paths :
      w[p] = IF p \in DOMAIN files THEN files[p] ELSE before[p]

\* Whatever the worker did and reported, a candidate changes every target of
\* the policy, by its own operation and from its own preimage, and nothing
\* else.
CandidateIsThePolicy ==
  \A files \in candidate :
    /\ DOMAIN files = DOMAIN Targets
    /\ \A p \in DOMAIN files :
         /\ files[p].kind = "file"
         /\ before[p] = IF Targets[p] = "ADDED" THEN Absent ELSE File(0)

\* A job that returns, even as FAILED or TIMED_OUT, has left nothing outside
\* its policy in the snapshot that its record carries: an unsafe change raises
\* whatever the worker reports.
NoUnsafeJobReturns ==
  pc \in {"unsuccessful", "reread", "recapture", "built"} =>
    \A p \in Changed(before, after) :
      p \in DOMAIN Targets /\ after[p].kind = "file"

\* A path that was seen as x and is y now: untouched, or written later.  No
\* content comes back, so a path never is what it was before a write.
Later(x, y) == x = y \/ x.write < y.write

\* Why a candidate is a moment and follows its policy: each scan leaves what it
\* saw behind the workspace, never ahead; at the end of the first scan there was
\* a moment, between what that scan saw and whatever the second one sees; and
\* what is read back of the changed files is what the first scan saw.
ScanInv ==
  /\ \A p \in Paths : workspace[p].write <= writes
  /\ pc \in {"after", "reread", "recapture"} => workspace \in moments
  /\ pc = "after" => \A p \in Paths : after[p] # Unseen => Later(after[p], workspace[p])
  /\ pc \in {"create", "before", "worker", "after", "reread"} => again = NotScanned
  /\ pc \in {"create", "before", "worker", "after"} => reread = NotScanned
  /\ pc \in {"create", "before", "worker"} => after = NotScanned
  /\ pc \in {"reread", "recapture"} => \E w \in moments : \A p \in Paths :
       /\ Later(after[p], w[p]) /\ Later(w[p], workspace[p])
       /\ again[p] # Unseen => Later(w[p], again[p])
  /\ pc = "reread" => \A p \in Changed(before, after) : reread[p] \in {Unseen, after[p]}
  /\ pc = "recapture" => \A p \in Changed(before, after) : reread[p] = after[p]

CandidateInv ==
  /\ pc \in {"unsuccessful", "reread", "recapture", "built"} => PolicyDiff(before, after, FALSE)
  /\ pc \in {"reread", "recapture", "built"} => PolicyDiff(before, after, TRUE)
  /\ pc # "built" => candidate = {}
  /\ pc = "built" =>
       after \in moments /\ candidate = {[p \in Changed(before, after) |-> after[p]]}
=============================================================================
