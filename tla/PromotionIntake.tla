--------------------------- MODULE PromotionIntake ---------------------------
(***************************************************************************)
(* How a candidate meets the real repository, before anything is written:  *)
(* `inspect_lab_promotion_repository` (lab_promotion_inspector.py) records *)
(* HEAD and the state of every destination, the proposal and the           *)
(* transaction carry that record past the human, and                       *)
(* `collect_promotion_preimages` (lab_promotion_preimage_collector.py)     *)
(* reads the destinations a second time and keeps their bytes.             *)
(*                                                                         *)
(* Neither call can lock the repository: each brackets its reading of the  *)
(* files between two Git snapshots (branch, HEAD, status), which are three *)
(* Git commands one after the other, while the repository's user edits,    *)
(* stages, commits and switches branches.                                  *)
(*                                                                         *)
(* The user is free: a content, a branch or a commit that was left can     *)
(* come back between any two of these looks, and a checkout, a reset, a    *)
(* stash or a pull is the edits, the staging and the movement of HEAD that *)
(* it is made of.  The repository's own identity (device, inode, .git,     *)
(* path) is taken to be constant.                                          *)
(*                                                                         *)
(* What the code compares are values, so it cannot notice a branch or a    *)
(* path that was changed and put back between two looks at it, nor a HEAD  *)
(* that moves between its last reading and the status after it.  `missed`  *)
(* remembers these cases call by call, and the properties claim the rest.  *)
(***************************************************************************)
EXTENDS Integers, Sequences

CONSTANTS
    Destinations, \* the paths that candidates name
    Branches,     \* the branches HEAD can be attached to
    Contents,     \* the file contents told apart
    Scenarios     \* the candidates and the bounds under which a call is looked at

Absent == "absent"
Unread == "unread"
States == Contents \cup {Absent}

\* A scenario: the candidate's paths in their canonical order, of which there is
\* one at least and none twice, and the bounds on the repository's commits and on
\* what its user does.
IntakeAssumption ==
    /\ Scenarios \subseteq [order : Seq(Destinations), commits : Nat \ {0}, moves : Nat]
    /\ \A s \in Scenarios :
          /\ s.order # <<>>
          /\ \A i, j \in DOMAIN s.order : s.order[i] = s.order[j] => i = j
    /\ Absent \notin Contents /\ Unread \notin Contents
    /\ {"branch", "commit"} \cap Destinations = {}

\* What the candidate says of a destination: a legacy session wrote it, or a
\* coding job added it, or modified it from a known content.
Legacy      == [operation |-> "WRITE_FILE", before |-> Unread]
Added       == [operation |-> "ADDED", before |-> Absent]
Modified(c) == [operation |-> "MODIFIED", before |-> c]
Sources     == {Legacy, Added} \cup {Modified(c) : c \in Contents}

VARIABLES
    scene,     \* the scenario
    source,    \* per path, the candidate's source file
    trees,     \* the commits: each the content of every path
    commit,    \* HEAD
    branch,    \* the branch HEAD is attached to
    index,     \* the staged content of every path
    work,      \* the content of every path in the working tree
    moves,     \* how often the user has done something
    heads,     \* history: every (branch, HEAD) since the call began to look
    away,      \* history: what has changed since the call looked at it
    missed,    \* history: per call, what its looks could not tell from unchanged
    pc,        \* where the call is
    phase,     \* "inspect" or "collect"
    first,     \* branch and HEAD of the first snapshot
    second,    \* branch and HEAD of the second snapshot
    at,        \* the position of the path being read
    tracked,   \* git ls-files knows the path
    content,   \* what was read of the open file
    changed,   \* the open file, or its name, has changed since
    states,    \* the states recorded so far
    proposal   \* what the inspection returned, as the proposal carries it

repository == <<trees, commit, branch, index, work>>
history    == <<heads, away, missed>>
reading    == <<at, tracked, content, changed, states>>
vars       == <<scene, source, repository, moves, history, pc, phase, first, second, reading, proposal>>

Order == scene.order
Paths == {Order[i] : i \in DOMAIN Order}

NoHead     == [branch |-> "none", head |-> 0]
NoProposal == [branch |-> "none", head |-> 0, before |-> [p \in Paths |-> Unread]]

Init ==
    /\ scene \in Scenarios
    /\ source \in [Paths -> Sources]
    /\ \E tree \in [Paths -> States] : trees = <<tree>> /\ index = tree /\ work = tree
    /\ commit = 1 /\ branch \in Branches /\ moves = 0
    /\ heads = {} /\ away = {} /\ missed = [inspect |-> {}, collect |-> {}]
    /\ pc = "branch1" /\ phase = "inspect" /\ first = NoHead /\ second = NoHead
    /\ at = 1 /\ tracked = FALSE /\ content = Unread /\ changed = FALSE
    /\ states = [p \in Paths |-> Unread] /\ proposal = NoProposal

Path == Order[at]

(***************************************************************************)
(* `_git_snapshot`: branch, HEAD, status.                                  *)
(***************************************************************************)
Clean == work = index /\ index = trees[commit]
Here  == [branch |-> branch, head |-> commit]

\* What the call has looked at and will look at again: the branch, and the paths
\* that the loop over them has come to.
Loop == {"stat", "tracked", "open", "close"}
Watched ==
    (IF pc \in {"head1", "status1", "branch2"} \cup Loop THEN {"branch"} ELSE {}) \cup
    (IF pc \in Loop
     THEN {Order[i] : i \in {j \in DOMAIN Order : j < at \/ (j = at /\ pc # "stat")}}
     ELSE IF pc \in {"branch2", "head2", "status2"} THEN Paths ELSE {})

\* The call has been deceived about these things: they have changed, and its last
\* look at them finds nothing.
Miss(things) == missed' = [missed EXCEPT ![phase] = @ \cup things]

ReadBranch(step, next) ==
    /\ pc = step /\ pc' = next
    /\ IF step = "branch1"
       THEN /\ first' = [first EXCEPT !.branch = branch] /\ heads' = {Here}
            /\ UNCHANGED <<second, missed>>
       ELSE /\ second' = [second EXCEPT !.branch = branch] /\ UNCHANGED <<first, heads>>
            /\ Miss(IF branch = first.branch THEN away \cap {"branch"} ELSE {})
    /\ UNCHANGED <<source, repository, away, phase, reading, proposal>>

ReadHead(step, next) ==
    /\ pc = step /\ pc' = next
    /\ IF step = "head1"
       THEN first' = [first EXCEPT !.head = commit] /\ UNCHANGED second
       ELSE second' = [second EXCEPT !.head = commit] /\ UNCHANGED first
    /\ UNCHANGED <<source, repository, history, phase, reading, proposal>>

\* Mutant: only the branch is compared with the transaction's.
AsInspected(snapshot) == phase = "collect" => snapshot.branch = proposal.branch

\* The collector also compares each snapshot with the transaction.
AsProposed(snapshot) ==
    phase = "collect" => snapshot = [branch |-> proposal.branch, head |-> proposal.head]

FirstStatus ==
    /\ pc = "status1"
    /\ pc' = IF Clean /\ AsProposed(first) THEN "stat" ELSE "raised"
    /\ at' = 1 /\ states' = [p \in Paths |-> Unread]
    /\ UNCHANGED <<source, repository, history, phase, first, second, tracked, content, changed,
                   proposal>>

\* The paths that have changed since the loop looked at them and are what HEAD's
\* commit holds; and "commit", if HEAD has moved since it was read, for the status
\* compares with the new one.
Overtaken ==
    {p \in Paths \cap away : work[p] = trees[second.head][p]} \cup
    (IF commit = second.head THEN {} ELSE {"commit"})

\* Mutant: only the status is taken again.
SecondStatusOnly ==
    /\ pc = "status2" /\ pc' = IF Clean THEN "return" ELSE "raised"
    /\ Miss(Overtaken) /\ away' = {}
    /\ UNCHANGED <<source, repository, heads, phase, first, second, reading, proposal>>

\* Mutant: the second time, HEAD and branch are compared and the status is not.
SecondStatusUnread ==
    /\ pc = "status2"
    /\ pc' = IF AsProposed(second) /\ second = first THEN "return" ELSE "raised"
    /\ Miss(Overtaken) /\ away' = {}
    /\ UNCHANGED <<source, repository, heads, phase, first, second, reading, proposal>>

SecondStatus ==
    /\ pc = "status2"
    /\ pc' = IF Clean /\ AsProposed(second) /\ second = first THEN "return" ELSE "raised"
    /\ Miss(Overtaken) /\ away' = {}
    /\ UNCHANGED <<source, repository, heads, phase, first, second, reading, proposal>>

(***************************************************************************)
(* `_inspect_file_state`, `_collect_modify_preimage`, `_require_add_absent`. *)
(***************************************************************************)

\* The path has state s: on to the next path, or to the second snapshot.
Record(s) ==
    /\ states' = [states EXCEPT ![Path] = s]
    /\ IF at = Len(Order) THEN pc' = "branch2" /\ UNCHANGED at
                          ELSE pc' = "stat" /\ at' = at + 1

Stop == pc' = "raised" /\ UNCHANGED <<at, states>>

\* What a destination that is not there may mean.
MayBeAbsent(known) ==
    IF phase = "inspect" THEN source[Path].operation # "MODIFIED" /\ ~known
                         ELSE proposal.before[Path] = Absent

\* What a destination that is there may mean, before it is read.
MayBePresent ==
    IF phase = "inspect" THEN source[Path].operation # "ADDED"
                         ELSE proposal.before[Path] # Absent

\* The first lstat; the inspector then asks Git about the path.
Stat ==
    /\ pc = "stat"
    /\ content' = IF work[Path] = Absent THEN Absent ELSE Unread
    /\ pc' = "tracked"
    /\ UNCHANGED <<source, repository, history, phase, first, second, at, tracked, changed, states,
                   proposal>>

\* ls-files, and the decision on a path that was not there.
AskTracked ==
    /\ pc = "tracked" /\ tracked' = (index[Path] # Absent)
    /\ IF content = Absent
       THEN IF MayBeAbsent(tracked') THEN Record(Absent) ELSE Stop
       ELSE /\ pc' = IF MayBePresent THEN "open" ELSE "raised"
            /\ UNCHANGED <<at, states>>
    /\ UNCHANGED <<source, repository, history, phase, first, second, content, changed, proposal>>

\* The file is opened and read; it may have gone since the lstat.
Open ==
    /\ pc = "open" /\ content' = work[Path] /\ changed' = FALSE
    /\ pc' = IF work[Path] = Absent THEN "raised" ELSE "close"
    /\ UNCHANGED <<source, repository, history, phase, first, second, at, tracked, states,
                   proposal>>

\* The recorded state must be the candidate's, or the transaction's, before.
Expected ==
    IF phase = "inspect"
    THEN tracked /\ (source[Path].operation = "MODIFIED" => content = source[Path].before)
    ELSE content = proposal.before[Path]

\* fstat and lstat again: neither the file nor its name has changed.
Close ==
    /\ pc = "close"
    /\ IF ~changed /\ Expected THEN Record(content) ELSE Stop
    /\ UNCHANGED <<source, repository, history, phase, first, second, tracked, content, changed,
                   proposal>>

(***************************************************************************)
(* The inspection becomes a proposal, the human approves it, and the       *)
(* preimages of the transaction are collected.                             *)
(***************************************************************************)
Return ==
    /\ pc = "return"
    /\ IF phase = "inspect"
       THEN /\ proposal' = [branch |-> second.branch, head |-> second.head, before |-> states]
            /\ pc' = "proposed"
       ELSE UNCHANGED proposal /\ pc' = "collected"
    /\ UNCHANGED <<source, repository, history, phase, first, second, reading>>

Approve ==
    /\ pc = "proposed" /\ pc' = "branch1" /\ phase' = "collect"
    /\ first' = NoHead /\ second' = NoHead
    /\ UNCHANGED <<source, repository, history, reading, proposal>>

Intake ==
    \/ ReadBranch("branch1", "head1") \/ ReadHead("head1", "status1") \/ FirstStatus
    \/ Stat \/ AskTracked \/ Open \/ Close
    \/ ReadBranch("branch2", "head2") \/ ReadHead("head2", "status2") \/ SecondStatus
    \/ Return \/ Approve

(***************************************************************************)
(* The user of the repository (external).                                  *)
(***************************************************************************)
intake == <<source, missed, pc, phase, first, second, at, tracked, content, states, proposal>>

Change(things) == away' = away \cup (things \cap Watched)

Edit(p, s) ==
    /\ s # work[p] /\ work' = [work EXCEPT ![p] = s] /\ Change({p})
    /\ changed' = (changed \/ (pc = "close" /\ p = Path))
    /\ UNCHANGED <<intake, trees, commit, branch, index, heads>>

\* git add, git restore --staged, git update-index: any content.
Stage(p, s) ==
    /\ s # index[p] /\ index' = [index EXCEPT ![p] = s]
    /\ UNCHANGED <<intake, changed, trees, commit, branch, work, heads, away>>

\* HEAD is somewhere else, possibly where it was before.
MoveHead(b, k) ==
    /\ branch' = b /\ commit' = k
    /\ Change(IF b = branch THEN {} ELSE {"branch"})
    /\ heads' = IF "branch" \in Watched THEN heads \cup {Here'} ELSE heads

\* What is staged, with other paths than these or without.
Commit ==
    /\ Len(trees) < scene.commits
    /\ trees' = Append(trees, index) /\ MoveHead(branch, Len(trees) + 1)
    /\ UNCHANGED <<intake, changed, index, work>>

\* HEAD is attached to a branch, which is at any commit: the last part of a
\* switch or a checkout, and a reset where the branch stays.
Switch(b, k) ==
    /\ [branch |-> b, head |-> k] # Here /\ MoveHead(b, k)
    /\ UNCHANGED <<intake, changed, trees, index, work>>

User ==
    /\ pc \notin {"collected", "raised"} \* nobody looks any more
    /\ moves < scene.moves /\ moves' = moves + 1
    /\ \/ \E p \in Paths, s \in States : Edit(p, s) \/ Stage(p, s)
       \/ Commit
       \/ \E b \in Branches, k \in DOMAIN trees : Switch(b, k)

Next == ((Intake /\ UNCHANGED moves) \/ User) /\ UNCHANGED scene

Spec == Init /\ [][Next]_vars

(***************************************************************************)
(* Properties.                                                             *)
(***************************************************************************)
TypeOK ==
    /\ pc \in {"branch1", "head1", "status1", "stat", "tracked", "open", "close",
               "branch2", "head2", "status2", "return", "proposed", "collected", "raised"}
    /\ phase \in {"inspect", "collect"} /\ at \in DOMAIN Order
    /\ commit \in DOMAIN trees /\ branch \in Branches
    /\ index \in [Paths -> States] /\ work \in [Paths -> States]
    /\ states \in [Paths -> States \cup {Unread}]
    /\ missed \in [{"inspect", "collect"} -> SUBSET ({"branch", "commit"} \cup Paths)]
    /\ proposal.before \in [Paths -> States \cup {Unread}]

Proposed == proposal.head # 0
Before   == trees[proposal.head]

\* The branch and the HEAD that a call accepts were the repository's at one and
\* the same moment of that call, though they are read by two commands: a branch
\* has been left and joined again between them, or it is so.
HeadIsAMoment ==
    pc \in {"proposed", "collected"} /\ "branch" \notin missed[phase] =>
        [branch |-> proposal.branch, head |-> proposal.head] \in heads

\* What the looks of a call cannot tell of the content of a path: HEAD moved
\* between the last two of them, or the path was changed after it was read and
\* was, at the last one, what HEAD's commit holds.
Deceived(call, p) == missed[call] \cap {"commit", p} # {}

\* A proposal says of every path what the commit of its HEAD holds, whatever was
\* edited, staged, committed or switched to during the inspection, unless its looks
\* were deceived about that very path.
ProposalIsCommitted ==
    Proposed => \A p \in Paths :
        proposal.before[p] = Before[p] \/ Deceived("inspect", p)

\* Preimages that were collected are the proposal's before-states, and what the
\* commit of the proposal holds, however long the human took and whatever happened
\* meanwhile, unless the looks of both calls were deceived about the same path.
CollectedIsCommitted ==
    pc = "collected" =>
        /\ states = proposal.before
        /\ \A p \in Paths :
              states[p] = Before[p] \/ (Deceived("inspect", p) /\ Deceived("collect", p))

\* The inspection is of one exact clean repository: the before-states of a
\* proposal are those of its HEAD, at least where nothing was put back.
ProposalIsClean ==
    Proposed => \A p \in Paths :
        proposal.before[p] = Before[p] \/ p \in missed["inspect"]

(***************************************************************************)
(* The inductive invariant.                                                *)
(***************************************************************************)
Recorded(p) == states[p] # Unread
Bracketed   == pc \in {"branch2", "head2", "status2"} \cup Loop
Accepted    == pc \in {"return", "proposed", "collected"}

\* Of a snapshot, a commit that was read; a call that goes on has read the same
\* branch and HEAD twice.
HistoryInv ==
    /\ scene \in Scenarios /\ trees \in Seq([Paths -> States])
    /\ first \in [branch : Branches \cup {"none"}, head : {0} \cup DOMAIN trees]
    /\ second \in [branch : Branches \cup {"none"}, head : {0} \cup DOMAIN trees]
    /\ pc \notin {"branch1", "head1"} => first.head # 0
    /\ Accepted => second = first

\* A branch that has not changed since it was read is that of the HEAD which was
\* read after it.
BranchInv ==
    /\ pc \in {"head1", "status1", "branch2"} \cup Loop =>
          Here \in heads /\ ("branch" \notin away => branch = first.branch)
    /\ pc \in {"status1", "branch2"} \cup Loop /\ "branch" \notin away => first \in heads
    /\ pc \in {"head2", "status2"} \/ Accepted =>
          (second.branch = first.branch /\ "branch" \notin missed[phase] => first \in heads)

\* What was recorded of a path is what it still holds, if it has not changed
\* since; so it is committed if the second status is clean, and HEAD the one read.
AsRead(p) ==
    /\ Recorded(p) => states[p] = work[p]
    /\ pc = "tracked" /\ content = Absent /\ p = Path => work[p] = Absent

PathInv ==
    /\ changed \in BOOLEAN /\ tracked \in BOOLEAN
    /\ pc = "close" => content \in Contents /\ (~changed => content = work[Path])
    /\ Bracketed => \A p \in Paths \ away : AsRead(p)
    /\ Accepted => \A p \in Paths :
          states[p] = trees[first.head][p] \/ Deceived(phase, p)

\* The loop over the paths leaves none out.
LoopInv ==
    /\ pc \in Loop => \A i \in DOMAIN Order : i < at <=> Recorded(Order[i])
    /\ pc \in {"branch2", "head2", "status2"} \/ Accepted => \A p \in Paths : Recorded(p)

\* A collector that goes on has found the HEAD of its proposal, and records what
\* the proposal says.
CollectInv ==
    /\ DOMAIN proposal = {"branch", "head", "before"} /\ proposal.head \in {0} \cup DOMAIN trees
    /\ pc \in {"proposed", "collected"} \/ phase = "collect" => Proposed
    /\ pc \in {"proposed", "collected"} =>
          first = [branch |-> proposal.branch, head |-> proposal.head]
    /\ pc = "proposed" => phase = "inspect"
    /\ pc = "collected" => phase = "collect"
    /\ phase = "collect" /\ (Bracketed \/ Accepted) =>
          /\ first = [branch |-> proposal.branch, head |-> proposal.head]
          /\ \A p \in Paths : Recorded(p) => states[p] = proposal.before[p]

IntakeInv == HistoryInv /\ BranchInv /\ PathInv /\ LoopInv /\ CollectInv

=============================================================================
