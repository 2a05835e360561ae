---------------------------- MODULE WorkspaceSeed ----------------------------
(***************************************************************************)
(* How a disposable workspace comes to hold the files a worker starts from: *)
(* `create_lab_workspace` (lab_workspace.py), and then either              *)
(* `seed_lab_workspace` (lab_workspace_seed.py), which copies reviewed     *)
(* files out of a source tree, or `seed_lab_workspace_from_commit`         *)
(* (lab_committed_workspace_seed.py), which writes the blobs of one commit. *)
(*                                                                         *)
(* Several jobs run at once, possibly with the same session identifier;    *)
(* each can die between two steps.  The user of the source tree edits,     *)
(* commits and checks out other commits all the while, and HEAD may come   *)
(* back to where it was.  An edit is known by its number: a file that has  *)
(* been written has not the stat it had before.                            *)
(***************************************************************************)
EXTENDS Integers, Sequences

CONSTANTS
    Callers,   \* the jobs
    Sessions,  \* session identifiers: names of workspaces
    Names,     \* the paths that jobs name
    Scenarios, \* what the jobs of a behaviour are given
    MaxEdits   \* bound: edits of the user

Absent == 0
Nobody == "nobody"

\* A scenario: `order`, the relative_paths in their canonical order, of which
\* there is one at least and none twice; `absent`, those that the policy is to
\* add; the session of each job; the commit_oid of each job that seeds from a
\* commit; and the bound on commits.
SeedAssumption ==
    /\ \A s \in Scenarios :
          /\ s.order \in Seq(Names) \ {<<>>} /\ s.commits \in Nat
          /\ \A i, j \in DOMAIN s.order : s.order[i] = s.order[j] => i = j
          /\ s.session \in [Callers -> Sessions] /\ DOMAIN s.commitOf \subseteq Callers
          /\ s.commitOf \in [DOMAIN s.commitOf -> 1 .. s.commits]
    /\ Nobody \notin Callers /\ MaxEdits \in Nat \ {0}

VARIABLES
    scene,      \* the scenario
    pc,         \* where each job is
    at,         \* the position of the path it handles
    inspected,  \* what its preflight saw of each path, or its plan
    workspaces, \* per session: who made the workspace, and its files
    work,       \* the source tree: the number of the edit each path holds
    trees,      \* the commits
    head,       \* HEAD
    edits,      \* the number of the last edit
    moments     \* history, per job: the source trees since it began to look

source == <<work, trees, head, edits>>
vars   == <<scene, pc, at, inspected, workspaces, source, moments>>

Order          == scene.order
Paths          == {Order[i] : i \in DOMAIN Order}
ExpectedAbsent == scene.absent
Session        == scene.session
CommitOf       == scene.commitOf
FromCommit     == DOMAIN CommitOf

NoFiles     == [p \in Paths |-> Absent]
NoWorkspace == [by |-> Nobody, files |-> NoFiles]

\* The first commit holds every path but those to be added.
FirstTree == [p \in Paths |-> IF p \in ExpectedAbsent THEN Absent ELSE 1]

Init ==
    /\ scene \in Scenarios
    /\ pc = [c \in Callers |-> "create"] /\ at = [c \in Callers |-> 1]
    /\ inspected = [c \in Callers |-> NoFiles]
    /\ workspaces = [s \in Sessions |-> NoWorkspace]
    /\ work = FirstTree /\ trees = <<FirstTree>> /\ head = 1 /\ edits = 1
    /\ moments = [c \in Callers |-> {}]

Path(c)     == Order[at[c]]
Goto(c, to) == pc' = [pc EXCEPT ![c] = to]

\* On to the next path, or to `after` when this was the last.
Advance(c, again, after) ==
    IF at[c] = Len(Order) THEN Goto(c, after) /\ at' = [at EXCEPT ![c] = 1]
                          ELSE Goto(c, again) /\ at' = [at EXCEPT ![c] = @ + 1]

(***************************************************************************)
(* create_lab_workspace, and the look at the new workspace.                *)
(***************************************************************************)

\* Mutant: a workspace that is there and empty is taken over.
CreateOrAdopt(c) ==
    /\ pc[c] = "create"
    /\ IF workspaces[Session[c]].files = NoFiles
       THEN /\ workspaces' = [workspaces EXCEPT ![Session[c]] = [by |-> c, files |-> NoFiles]]
            /\ Goto(c, "empty")
       ELSE Goto(c, "raised") /\ UNCHANGED workspaces
    /\ UNCHANGED <<at, inspected, source, moments>>

Create(c) ==
    /\ pc[c] = "create"
    /\ IF workspaces[Session[c]] = NoWorkspace
       THEN /\ workspaces' = [workspaces EXCEPT ![Session[c]] = [by |-> c, files |-> NoFiles]]
            /\ Goto(c, "empty")
       ELSE Goto(c, "raised") /\ UNCHANGED workspaces
    /\ UNCHANGED <<at, inspected, source, moments>>

\* The workspace is validated and must be empty.
RequireEmpty(c) ==
    /\ pc[c] = "empty"
    /\ Goto(c, IF workspaces[Session[c]].files # NoFiles THEN "raised"
               ELSE IF c \in FromCommit THEN "head1" ELSE "inspect")
    /\ moments' = [moments EXCEPT ![c] = {work}]
    /\ UNCHANGED <<at, inspected, workspaces, source>>

\* O_CREAT | O_EXCL, the bytes and an fsync.
WriteTarget(c, content) ==
    workspaces' = [workspaces EXCEPT ![Session[c]].files[Path(c)] = content]

TargetIsFree(c) == workspaces[Session[c]].files[Path(c)] = Absent

(***************************************************************************)
(* seed_lab_workspace: every input is inspected before the first is copied. *)
(***************************************************************************)
Inspect(c) ==
    /\ pc[c] = "inspect"
    /\ IF work[Path(c)] # Absent
       THEN inspected' = [inspected EXCEPT ![c][Path(c)] = work[Path(c)]]
            /\ Advance(c, "inspect", "open")
       ELSE Goto(c, "raised") /\ UNCHANGED <<at, inspected>>
    /\ UNCHANGED <<workspaces, source, moments>>

\* Mutant: what the preflight saw is not compared with the opened file.
OpenAgain(c) ==
    /\ pc[c] = "open"
    /\ Goto(c, IF work[Path(c)] # Absent THEN "copy" ELSE "raised")
    /\ inspected' = [inspected EXCEPT ![c][Path(c)] = work[Path(c)]]
    /\ UNCHANGED <<at, workspaces, source, moments>>

\* The opened file must be the one the preflight saw.
Open(c) ==
    /\ pc[c] = "open"
    /\ Goto(c, IF work[Path(c)] = inspected[c][Path(c)] THEN "copy" ELSE "raised")
    /\ UNCHANGED <<at, inspected, workspaces, source, moments>>

\* The copy, and the stat after it: a file changed in place is noticed, one
\* replaced by another is not, and its old content is copied.
Copy(c) ==
    /\ pc[c] = "copy" /\ TargetIsFree(c)
    /\ WriteTarget(c, inspected[c][Path(c)]) /\ Advance(c, "open", "returned")
    /\ UNCHANGED <<inspected, source, moments>>

CopyRefused(c) ==
    /\ pc[c] = "copy"
    /\ ~TargetIsFree(c) \/ work[Path(c)] # inspected[c][Path(c)]
    /\ Goto(c, "raised")
    /\ UNCHANGED <<at, inspected, workspaces, source, moments>>

(***************************************************************************)
(* seed_lab_workspace_from_commit.                                         *)
(***************************************************************************)

\* `_snapshot`: HEAD is the commit; then the status is clean.
CheckHead(c, step, next) ==
    /\ pc[c] = step /\ Goto(c, IF head = CommitOf[c] THEN next ELSE "raised")
    /\ UNCHANGED <<at, inspected, workspaces, source, moments>>

CheckStatus(c, step, next) ==
    /\ pc[c] = step /\ Goto(c, IF work = trees[head] THEN next ELSE "raised")
    /\ UNCHANGED <<at, inspected, workspaces, source, moments>>

\* Mutant: the tree is HEAD's.
TreeOfHead(c) == trees[head]

\* The tree that ls-tree and cat-file read.
TreeOf(c) == trees[CommitOf[c]]

\* `_plan` and `_verify_expected_absent`.
Plan(c) ==
    /\ pc[c] = "plan"
    /\ IF (TreeOf(c)[Path(c)] = Absent) = (Path(c) \in ExpectedAbsent)
       THEN inspected' = [inspected EXCEPT ![c][Path(c)] = TreeOf(c)[Path(c)]]
            /\ Advance(c, "plan", "write")
       ELSE Goto(c, "raised") /\ UNCHANGED <<at, inspected>>
    /\ UNCHANGED <<workspaces, source, moments>>

\* `_verified_object` and `_write_private`: the blob is named by its content.
Write(c) ==
    /\ pc[c] = "write"
    /\ IF TargetIsFree(c)
       THEN WriteTarget(c, inspected[c][Path(c)]) /\ Advance(c, "write", "head2")
       ELSE Goto(c, "raised") /\ UNCHANGED <<at, workspaces>>
    /\ UNCHANGED <<inspected, source, moments>>

Die(c) ==
    /\ pc[c] \notin {"returned", "raised", "dead"} /\ Goto(c, "dead")
    /\ UNCHANGED <<at, inspected, workspaces, source, moments>>

Job(c) ==
    \/ Create(c) \/ RequireEmpty(c)
    \/ Inspect(c) \/ Open(c) \/ Copy(c) \/ CopyRefused(c)
    \/ CheckHead(c, "head1", "status1") \/ CheckStatus(c, "status1", "plan")
    \/ Plan(c) \/ Write(c)
    \/ CheckHead(c, "head2", "status2") \/ CheckStatus(c, "status2", "returned")
    \/ Die(c)

(***************************************************************************)
(* The user of the source tree (external).                                 *)
(***************************************************************************)
Seen == moments' = [c \in Callers |->
                       IF pc[c] \in {"inspect", "open", "copy"} THEN moments[c] \cup {work'}
                                                                ELSE moments[c]]

Edit(p) ==
    /\ edits < MaxEdits /\ edits' = edits + 1
    /\ \E content \in {edits', Absent} \ {work[p]} : work' = [work EXCEPT ![p] = content]
    /\ Seen /\ UNCHANGED <<pc, at, inspected, workspaces, trees, head>>

CommitAll ==
    /\ Len(trees) < scene.commits /\ work # trees[head]
    /\ trees' = Append(trees, work) /\ head' = Len(trees) + 1
    /\ UNCHANGED <<pc, at, inspected, workspaces, work, edits, moments>>

\* A clean tree is given the content of another commit: its files are written
\* anew, but a content is known by its commit.
Checkout(k) ==
    /\ k # head /\ work = trees[head] /\ head' = k /\ work' = trees[k]
    /\ UNCHANGED <<pc, at, inspected, workspaces, trees, edits, moments>>

\* A checkout gives a file back an earlier number, so it is left out while a
\* job copies from the tree itself.
User ==
    \/ \E p \in Paths : Edit(p)
    \/ CommitAll
    \/ /\ FromCommit = Callers
       /\ \E k \in DOMAIN trees : Checkout(k)

Next == ((\E c \in Callers : Job(c)) \/ User) /\ UNCHANGED scene

Spec == Init /\ [][Next]_vars

(***************************************************************************)
(* Properties.                                                             *)
(***************************************************************************)
TypeOK ==
    /\ pc \in [Callers -> {"create", "empty", "inspect", "open", "copy", "head1", "status1",
                           "plan", "write", "head2", "status2", "returned", "raised", "dead"}]
    /\ at \in [Callers -> DOMAIN Order]
    /\ inspected \in [Callers -> [Paths -> 0 .. MaxEdits]]
    /\ workspaces \in [Sessions -> [by : Callers \cup {Nobody}, files : [Paths -> 0 .. MaxEdits]]]
    /\ \A s \in Sessions : workspaces[s].by = Nobody => workspaces[s] = NoWorkspace
    /\ head \in DOMAIN trees /\ edits \in 1 .. MaxEdits

Files(c) == workspaces[Session[c]].files

\* A job that is given a workspace is the only one that ever was: no two jobs
\* return the same workspace, and one that a dead job left half seeded is
\* never returned by another.
WorkspaceIsItsOwn ==
    \A c \in Callers : pc[c] = "returned" => workspaces[Session[c]].by = c

\* The files copied out of a source tree were all in it at one moment, however
\* its user edited while they were inspected and copied one after the other.
SeedIsAMoment ==
    \A c \in Callers \ FromCommit :
        pc[c] = "returned" => \E tree \in moments[c] : \A p \in Paths : Files(c)[p] = tree[p]

\* A workspace seeded from a commit holds that commit's files and none of the
\* files that are to be added, wherever HEAD went in the meantime.
SeedIsTheCommit ==
    \A c \in FromCommit :
        pc[c] = "returned" =>
            /\ Files(c) = trees[CommitOf[c]]
            /\ \A p \in Paths : (Files(c)[p] = Absent) = (p \in ExpectedAbsent)

(***************************************************************************)
(* The inductive invariant.                                                *)
(***************************************************************************)
FromTree == {"inspect", "open", "copy"}
Verified == {"status1", "plan", "write", "head2", "status2"}
Behind(c) == {Order[i] : i \in 1 .. at[c] - 1}

\* An edit has a number that nothing has had; a job past its mkdir owns its
\* workspace, and seeds it in one of the two ways.
OwnInv ==
    /\ scene \in Scenarios
    /\ work \in [Paths -> 0 .. edits] /\ trees \in Seq([Paths -> 0 .. edits])
    /\ inspected \in [Callers -> [Paths -> 0 .. edits]]
    /\ moments \in [Callers -> SUBSET [Paths -> 0 .. MaxEdits]]
    /\ \A c \in Callers :
          /\ pc[c] \in {"create", "empty", "head1", "status1"} => at[c] = 1
          /\ pc[c] \in FromTree => c \notin FromCommit
          /\ pc[c] \in Verified \cup {"head1"} => c \in FromCommit
          /\ pc[c] \notin {"create", "raised", "dead"} => workspaces[Session[c]].by = c

\* The paths whose preflight has been confirmed by a later look.
Confirmed(c) == Behind(c) \cup (IF pc[c] = "copy" THEN {Path(c)} ELSE {})

\* One of the source trees had every file that is copied and every file that is
\* still as the preflight saw it: the tree at the end of the preflight, since
\* an edit never brings back what was seen.
TreeInv ==
    \A c \in Callers : pc[c] \in FromTree =>
        /\ work \in moments[c]
        /\ pc[c] = "inspect" => \A p \in Behind(c) : inspected[c][p] # Absent
        /\ pc[c] # "inspect" =>
              /\ \A p \in Paths : inspected[c][p] # Absent
              /\ \A p \in Behind(c) : Files(c)[p] = inspected[c][p]
              /\ \E tree \in moments[c] : \A p \in Paths :
                    p \in Confirmed(c) \/ work[p] = inspected[c][p] => tree[p] = inspected[c][p]

\* What the plan of a job says of a path is what its commit does.
Planned(c, p) ==
    /\ inspected[c][p] = TreeOf(c)[p]
    /\ (TreeOf(c)[p] = Absent) = (p \in ExpectedAbsent)

\* The commit of a job was once HEAD, so that its tree stays as it is; plan and
\* files follow it path by path.
CommitInv ==
    \A c \in FromCommit :
        /\ pc[c] \in Verified \cup {"returned"} => CommitOf[c] \in DOMAIN trees
        /\ pc[c] = "plan" => \A p \in Behind(c) : Planned(c, p)
        /\ pc[c] \in {"write", "head2", "status2"} => \A p \in Paths : Planned(c, p)
        /\ pc[c] = "write" => \A p \in Behind(c) : Files(c)[p] = inspected[c][p]
        /\ pc[c] \in {"head2", "status2"} => \A p \in Paths : Files(c)[p] = inspected[c][p]

SeedInv == OwnInv /\ TreeInv /\ CommitInv

=============================================================================
