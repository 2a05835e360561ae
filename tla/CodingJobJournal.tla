-------------------------- MODULE CodingJobJournal --------------------------
(***************************************************************************)
(* The durable journal of all coding jobs of one root                      *)
(* (lab_coding_job_lifecycle_journal.py), one system call per step.        *)
(*                                                                         *)
(* Unlike the promotion journal, which has one lock for one transaction,   *)
(* one root and one lock serve every job: each call first validates the    *)
(* layout of the whole root, once before it waits for the lock and once    *)
(* with it.  A scan without the lock sees what some instant of it showed,  *)
(* since creations are alone under the lock; it is one step here.          *)
(***************************************************************************)
EXTENDS CodingJobLifecycle, Sequences

CONSTANTS
  Callers,          \* the processes that use the root
  Jobs,             \* job identities
  MaxSnapshots,     \* MAX_SNAPSHOTS: records one job may hold
  MaxCalls,         \* bound: calls made in one behaviour
  MaxFailures,      \* bound: failing system calls and process deaths
  MaxPowerLosses    \* bound: power losses

ASSUME BoundsAssumption ==
  /\ MaxSnapshots \in Nat \ {0} /\ MaxCalls \in Nat
  /\ MaxFailures \in Nat /\ MaxPowerLosses \in Nat

VARIABLES
  home,      \* the job directory and the snapshots directory of each job
  entries,   \* the snapshot records of each job by sequence number
  held,      \* the flock mode each caller holds
  pc,        \* the system call each caller is at
  call,      \* the call each caller is making
  seen,      \* what each caller last got back for each job, {} or a singleton
  acks,      \* history: the appends and creations that returned normally
  spent      \* how much of each bound is used

vars == <<home, entries, held, pc, call, seen, acks, spent>>
disk == <<home, entries>>

DirNames == {"job", "snapshots"}

NoDir == [there |-> FALSE, linked |-> FALSE]
Made  == [there |-> TRUE, linked |-> FALSE]

Entry(snap, after) ==
  [snap |-> snap, after |-> after, good |-> FALSE, synced |-> FALSE, linked |-> FALSE]

EntryStates ==
  [snap : Lifecycles, after : SUBSET Lifecycles, good : BOOLEAN,
   synced : BOOLEAN, linked : BOOLEAN]

Calls ==
  [op : {"create", "load", "append"}, job : Jobs, expected : SUBSET Lifecycles,
   successor : Lifecycles]

CreateCall(j) ==
  [op |-> "create", job |-> j, expected |-> {}, successor |-> RequestedLifecycle]
LoadCall(j) ==
  [op |-> "load", job |-> j, expected |-> {}, successor |-> RequestedLifecycle]
AppendCall(j, expected, u) ==
  [op |-> "append", job |-> j, expected |-> expected, successor |-> u]

NoCall == [op |-> "none"]

CreatePCs == {"mkdir", "syncSnapshotsName", "syncJobName"}
OpenedPCs == {"entryWrite", "entrySync", "syncSnapshots", "syncAbove", "reload"}
WritePCs == CreatePCs \cup {"entryOpen"} \cup OpenedPCs
PCs == {"idle", "look", "lock", "locked"} \cup WritePCs

-----------------------------------------------------------------------------
Records == {x \in Jobs \X (0 .. MaxSnapshots - 1) : x[2] \in DOMAIN entries[x[1]]}

Count(j) == Cardinality(DOMAIN entries[j])
Tip(j) == entries[j][Count(j) - 1].snap

HalfMade(j) == home[j]["job"].there /\ ~home[j]["snapshots"].there

\* Every job directory holds its snapshots directory.  Records are looked at
\* by name only, so an empty or a torn job does not show here.
LayoutOk == \A j \in Jobs : ~HalfMade(j)

\* The record is read in full and decodes to exactly what was written.
Intact(j, i) == entries[j][i].good

\* The first record is REQUESTED and has no predecessor; every other one names
\* the one before and is a reconstructible transition from it.
Follows(j, i) ==
  IF i = 0
  THEN entries[j][i].snap = RequestedLifecycle /\ entries[j][i].after = {}
  ELSE /\ entries[j][i].after = {entries[j][i - 1].snap}
       /\ Reconstructs(entries[j][i - 1].snap, entries[j][i].snap)

\* The chain of one job can be loaded.
Readable(j) ==
  /\ home[j]["snapshots"].there
  /\ Count(j) > 0 /\ DOMAIN entries[j] = 0 .. Count(j) - 1
  /\ \A i \in DOMAIN entries[j] : Intact(j, i) /\ Follows(j, i)

Init ==
  /\ home = [j \in Jobs |-> [d \in DirNames |-> NoDir]]
  /\ entries = [j \in Jobs |-> <<>>]
  /\ held = [c \in Callers |-> "none"]
  /\ pc = [c \in Callers |-> "idle"]
  /\ call = [c \in Callers |-> NoCall]
  /\ seen = [c \in Callers |-> [j \in Jobs |-> {}]]
  /\ acks = {}
  /\ spent = [calls |-> 0, failures |-> 0, losses |-> 0]

\* Mutation of Release: the lock outlives its call.
ReleaseNothing(c) ==
  /\ pc' = [pc EXCEPT ![c] = "idle"]
  /\ UNCHANGED <<held, call>>

\* The end of a call, normal or not: the context manager drops the lock, and
\* the locals of the call are gone.
Release(c) ==
  /\ held' = [held EXCEPT ![c] = "none"]
  /\ call' = [call EXCEPT ![c] = NoCall]
  /\ pc' = [pc EXCEPT ![c] = "idle"]

Goto(c, next) ==
  /\ pc' = [pc EXCEPT ![c] = next]
  /\ UNCHANGED held

Begin(c) ==
  /\ pc[c] = "idle" /\ spent.calls < MaxCalls
  /\ \E j \in Jobs :
       \E what \in {CreateCall(j), LoadCall(j)} \cup
                   (IF seen[c][j] = {} THEN {}
                    ELSE {AppendCall(j, seen[c][j], u) : u \in ValidLifecycles}) :
         call' = [call EXCEPT ![c] = what]
  /\ spent' = [spent EXCEPT !.calls = @ + 1]
  /\ Goto(c, "look")
  /\ UNCHANGED <<disk, seen, acks>>

\* The first validation of the root, without the lock.
Look(c) ==
  /\ pc[c] = "look" /\ LayoutOk
  /\ Goto(c, "lock")
  /\ UNCHANGED <<disk, call, seen, acks, spent>>

\* Mutation of LockMode: a creation takes the lock shared.
LockModeShared(c) == IF call[c].op = "append" THEN "EX" ELSE "SH"

LockMode(c) == IF call[c].op = "load" THEN "SH" ELSE "EX"

Acquire(c) ==
  /\ pc[c] = "lock"
  /\ \A d \in Callers : held[d] # "EX" /\ (LockMode(c) = "EX" => held[d] = "none")
  /\ held' = [held EXCEPT ![c] = LockMode(c)]
  /\ pc' = [pc EXCEPT ![c] = "locked"]
  /\ UNCHANGED <<disk, call, seen, acks, spent>>

\* load_lab_coding_job_lifecycle_journal, after the second validation.
ReturnLoaded(c) ==
  LET j == call[c].job
  IN  /\ pc[c] = "locked" /\ LayoutOk
      /\ call[c].op = "load" /\ Readable(j)
      /\ seen' = [seen EXCEPT ![c][j] = {Tip(j)}]
      /\ Release(c)
      /\ UNCHANGED <<disk, acks, spent>>

\* Creation: two directories, each made durable, before the first record.
DirectoryStep(c, from, next, d, node) ==
  /\ pc[c] = from
  /\ home' = [home EXCEPT ![call[c].job][d] = node]
  /\ Goto(c, next)
  /\ UNCHANGED <<entries, call, seen, acks, spent>>

\* Mutation of StartCreate: an existing directory is taken over.
StartCreateAgain(c) ==
  /\ LayoutOk /\ call[c].op = "create"
  /\ DirectoryStep(c, "locked", "mkdir", "job", Made)

StartCreate(c) ==
  /\ LayoutOk /\ call[c].op = "create" /\ ~home[call[c].job]["job"].there
  /\ DirectoryStep(c, "locked", "mkdir", "job", Made)

MakeSnapshots(c) == DirectoryStep(c, "mkdir", "syncSnapshotsName", "snapshots", Made)

SyncSnapshotsName(c) ==
  DirectoryStep(c, "syncSnapshotsName", "syncJobName", "snapshots",
                [there |-> TRUE, linked |-> TRUE])

\* Mutation of SyncJobName: the job's own name is not fsynced.
SyncJobNameNot(c) == DirectoryStep(c, "syncJobName", "entryOpen", "job", Made)

SyncJobName(c) ==
  DirectoryStep(c, "syncJobName", "entryOpen", "job", [there |-> TRUE, linked |-> TRUE])

\* Mutation of AppendAllowed: the expected predecessor is not compared.
AppendAllowedWhenStale(c) ==
  LET j == call[c].job
  IN  /\ Readable(j)
      /\ call[c].successor # Tip(j)
      /\ Reconstructs(Tip(j), call[c].successor)
      /\ Count(j) < MaxSnapshots

AppendAllowed(c) ==
  LET j == call[c].job
  IN  /\ Readable(j)
      /\ call[c].expected = {Tip(j)}
      /\ call[c].successor # Tip(j)
      /\ Reconstructs(Tip(j), call[c].successor)
      /\ Count(j) < MaxSnapshots

StartAppend(c) ==
  /\ pc[c] = "locked" /\ LayoutOk
  /\ call[c].op = "append" /\ AppendAllowed(c)
  /\ Goto(c, "entryOpen")
  /\ UNCHANGED <<disk, call, seen, acks, spent>>

\* A call ends in an error when the root has a half-made job, whichever job
\* the call is about, or when its own job does not allow it.
Refuse(c) ==
  /\ pc[c] \in {"look", "locked"}
  /\ \/ ~LayoutOk
     \/ /\ pc[c] = "locked"
        /\ \/ call[c].op = "load" /\ ~Readable(call[c].job)
           \/ call[c].op = "create" /\ home[call[c].job]["job"].there
           \/ call[c].op = "append" /\ ~AppendAllowed(c)
  /\ Release(c)
  /\ UNCHANGED <<disk, seen, acks, spent>>

\* O_EXCL creation of the next record.
OpenEntry(c) ==
  LET j == call[c].job
      n == Count(j)
      after == IF n = 0 THEN {} ELSE {Tip(j)}
  IN  /\ pc[c] = "entryOpen"
      /\ entries' = [entries EXCEPT ![j] =
           [i \in 0 .. n |-> IF i < n THEN @[i] ELSE Entry(call[c].successor, after)]]
      /\ Goto(c, "entryWrite")
      /\ UNCHANGED <<home, call, seen, acks, spent>>

WriteEntry(c) ==
  /\ pc[c] = "entryWrite"
  /\ entries' = [entries EXCEPT ![call[c].job][Count(call[c].job) - 1].good = TRUE]
  /\ Goto(c, "entrySync")
  /\ UNCHANGED <<home, call, seen, acks, spent>>

SyncEntry(c) ==
  /\ pc[c] = "entrySync"
  /\ entries' = [entries EXCEPT ![call[c].job][Count(call[c].job) - 1].synced = TRUE]
  /\ Goto(c, "syncSnapshots")
  /\ UNCHANGED <<home, call, seen, acks, spent>>

\* Mutation of SyncSnapshots: the record's name is not fsynced.
SyncSnapshotsNot(c) ==
  /\ pc[c] = "syncSnapshots"
  /\ Goto(c, "syncAbove")
  /\ UNCHANGED <<disk, call, seen, acks, spent>>

SyncSnapshots(c) ==
  /\ pc[c] = "syncSnapshots"
  /\ entries' = [entries EXCEPT ![call[c].job] =
                   [i \in DOMAIN @ |-> [@[i] EXCEPT !.linked = TRUE]]]
  /\ Goto(c, "syncAbove")
  /\ UNCHANGED <<home, call, seen, acks, spent>>

\* The fsyncs of the job directory, of jobs and of the root.
SyncAbove(c) ==
  /\ pc[c] = "syncAbove"
  /\ home' = [home EXCEPT ![call[c].job] = [d \in DOMAIN @ |-> [@[d] EXCEPT !.linked = TRUE]]]
  /\ Goto(c, "reload")
  /\ UNCHANGED <<entries, call, seen, acks, spent>>

\* The chain is read back and must end in exactly the successor.
Acknowledge(c) ==
  LET j == call[c].job
  IN  /\ pc[c] = "reload" /\ Readable(j) /\ Tip(j) = call[c].successor
      /\ seen' = [seen EXCEPT ![c][j] = {Tip(j)}]
      /\ acks' = acks \cup {[by |-> c, job |-> j, at |-> Count(j) - 1, snap |-> Tip(j),
                             over |-> call[c].expected]}
      /\ Release(c)
      /\ UNCHANGED <<disk, spent>>

\* Any system call may fail: the call raises and leaves what it has written.
Raise(c) ==
  /\ pc[c] # "idle" /\ spent.failures < MaxFailures
  /\ spent' = [spent EXCEPT !.failures = @ + 1]
  /\ Release(c)
  /\ UNCHANGED <<disk, seen, acks>>

Crash(c) ==
  /\ pc[c] # "idle" /\ spent.failures < MaxFailures
  /\ spent' = [spent EXCEPT !.failures = @ + 1]
  /\ Release(c)
  /\ seen' = [seen EXCEPT ![c] = [j \in Jobs |-> {}]]
  /\ UNCHANGED <<disk, acks>>

\* Power is lost: names and bytes that were never fsynced may be gone, with
\* everything below them, and every process is dead.
PowerLoss ==
  /\ spent.losses < MaxPowerLosses
  /\ spent' = [spent EXCEPT !.losses = @ + 1]
  /\ \E gone \in SUBSET {x \in Jobs \X DirNames :
                           home[x[1]][x[2]].there /\ ~home[x[1]][x[2]].linked},
        lost \in SUBSET {x \in Records : ~entries[x[1]][x[2]].linked},
        ripped \in SUBSET {x \in Records : ~entries[x[1]][x[2]].synced} :
       LET left(j) == {d \in DirNames : home[j][d].there /\
                         {<<j, d>>, <<j, "job">>} \cap gone = {}}
           kept(j) == {i \in DOMAIN entries[j] : "snapshots" \in left(j) /\ <<j, i>> \notin lost}
       IN  /\ home' = [j \in Jobs |-> [d \in DirNames |->
                         IF d \in left(j) THEN [there |-> TRUE, linked |-> TRUE] ELSE NoDir]]
           /\ entries' = [j \in Jobs |-> [i \in kept(j) |->
                [entries[j][i] EXCEPT !.good = @ /\ <<j, i>> \notin ripped,
                                      !.synced = TRUE, !.linked = TRUE]]]
  /\ held' = [c \in Callers |-> "none"]
  /\ pc' = [c \in Callers |-> "idle"]
  /\ call' = [c \in Callers |-> NoCall]
  /\ seen' = [c \in Callers |-> [j \in Jobs |-> {}]]
  /\ UNCHANGED acks

Step(c) ==
  \/ Look(c) \/ Acquire(c) \/ ReturnLoaded(c) \/ Refuse(c)
  \/ StartCreate(c) \/ MakeSnapshots(c) \/ SyncSnapshotsName(c) \/ SyncJobName(c)
  \/ StartAppend(c)
  \/ OpenEntry(c) \/ WriteEntry(c) \/ SyncEntry(c)
  \/ SyncSnapshots(c) \/ SyncAbove(c) \/ Acknowledge(c)

Next ==
  \/ \E c \in Callers : Begin(c) \/ Step(c) \/ Raise(c) \/ Crash(c)
  \/ PowerLoss

Spec == Init /\ [][Next]_vars

\* A process that is scheduled keeps executing the call it is in.
FairSpec == Spec /\ \A c \in Callers : WF_vars(Step(c))

-----------------------------------------------------------------------------
TypeOK ==
  /\ home \in [Jobs -> [DirNames -> [there : BOOLEAN, linked : BOOLEAN]]]
  /\ entries = [j \in Jobs |-> entries[j]]
  /\ \A j \in Jobs :
       /\ DOMAIN entries[j] \subseteq 0 .. MaxSnapshots - 1
       /\ entries[j] \in [DOMAIN entries[j] -> EntryStates]
  /\ held \in [Callers -> {"none", "SH", "EX"}]
  /\ pc \in [Callers -> PCs]
  /\ call \in [Callers -> Calls \cup {NoCall}]
  /\ seen \in [Callers -> [Jobs -> SUBSET Lifecycles]]
  /\ acks \subseteq [by : Callers, job : Jobs, at : Nat, snap : Lifecycles,
                     over : SUBSET Lifecycles]
  /\ spent \in [calls : Nat, failures : Nat, losses : Nat]

\* What a creation or an append returned is on disk for good, the record, its
\* name and both directories above it (the fsync order of create and append).
AckedIsDurable ==
  \A a \in acks :
    /\ a.at \in DOMAIN entries[a.job]
    /\ LET e == entries[a.job][a.at]
       IN  e.snap = a.snap /\ e.good /\ e.synced /\ e.linked
    /\ \A d \in DirNames : home[a.job][d].linked

\* No job has two outcomes: of all processes that report one, whatever has
\* failed in between, one append is acknowledged (the transition table has no
\* successor of a terminal state, and every append is judged by it).
OneOutcome ==
  \A a, b \in acks :
    a.job = b.job /\ {a.snap.state, b.snap.state} \subseteq TerminalStates => a = b

\* Two appends are never both told that they extended the same snapshot of a
\* job, nor two creations that they made it.
NoForkAcknowledged ==
  \A a, b \in acks : a.job = b.job /\ (a.at = b.at \/ a.over = b.over) => a = b

\* An identity once recorded for a job, its session, its worker result, its
\* candidate, is the same in every later snapshot, whichever processes wrote
\* them (transition_lab_coding_job_lifecycle rerun on every reload).
EvidenceIsKept ==
  \A j \in Jobs : Readable(j) =>
    \A i, k \in DOMAIN entries[j] :
      i < k => \A f \in Recorded(entries[j][i].snap.evidence) :
                 entries[j][k].snap.evidence[f] = entries[j][i].snap.evidence[f]

\* Without a failure, a death or a power loss no holder of the lock finds a
\* half-made job: the second validation never refuses then, only the first
\* one does, when it looks while another process is between two mkdirs.
LockedRootIsWhole ==
  spent.failures + spent.losses = 0 =>
    \A c \in Callers : pc[c] = "locked" => LayoutOk

\* A job that has a record can never close the root for the others, whatever
\* a power loss takes: its directories are durable before its first record is
\* created.  Only a creation that has not come that far can.
RecordsStandOnDurableNames ==
  \A j \in Jobs : DOMAIN entries[j] # {} => \A d \in DirNames : home[j][d].linked

\* A call that has begun returns or raises, also when others fail in it.
EveryCallReturns == \A c \in Callers : pc[c] # "idle" ~> pc[c] = "idle"

-----------------------------------------------------------------------------
(***************************************************************************)
(* Why the invariants above hold: the inductive invariant, by parts.       *)
(***************************************************************************)
\* Whoever is past its checks holds the lock alone, and whoever is at them
\* holds it.
LockInv ==
  /\ \A c \in Callers :
       /\ pc[c] \in WritePCs => held[c] = "EX"
       /\ pc[c] = "locked" => held[c] = LockMode(c)
  /\ \A c, d \in Callers : c # d /\ held[c] = "EX" => held[d] = "none"

CallInv ==
  \A c \in Callers :
    /\ pc[c] # "idle" => call[c] \in Calls
    /\ call[c].op = "create" =>
         call[c].expected = {} /\ call[c].successor = RequestedLifecycle
    /\ pc[c] \in WritePCs => call[c].op # "load"
    /\ pc[c] \in CreatePCs => call[c].op = "create"

\* No directory is there without the one above it, and no record without both,
\* durably.
HomeInv ==
  /\ \A j \in Jobs :
       /\ \A d \in DirNames : home[j][d].linked => home[j][d].there
       /\ home[j]["snapshots"].there => home[j]["job"].there
  /\ RecordsStandOnDurableNames

\* How far a creation has come before its first record.
CreateAt(c) ==
  LET j == call[c].job
  IN  /\ DOMAIN entries[j] = {} /\ home[j]["job"].there
      /\ pc[c] # "mkdir" => home[j]["snapshots"].there
      /\ pc[c] = "syncJobName" => home[j]["snapshots"].linked

CreateInv == \A c \in Callers : pc[c] \in CreatePCs => CreateAt(c)

\* How far a write has come when it is at work on its record.
EntryAt(c) ==
  LET j == call[c].job
      n == Count(j)
  IN  /\ DOMAIN entries[j] = 0 .. n - 1
      /\ \A d \in DirNames : home[j][d].linked
      /\ pc[c] = "entryOpen" =>
           IF call[c].op = "append"
           THEN /\ n > 0 /\ n < MaxSnapshots
                /\ call[c].expected = {Tip(j)} /\ Reconstructs(Tip(j), call[c].successor)
           ELSE n = 0
      /\ pc[c] \in OpenedPCs =>
           /\ n > 0 /\ entries[j][n - 1].after = call[c].expected
           /\ \A a \in acks : a.job = j => a.at < n - 1
      /\ pc[c] \in {"syncSnapshots", "syncAbove", "reload"} => entries[j][n - 1].synced
      /\ pc[c] \in {"syncAbove", "reload"} => \A i \in DOMAIN entries[j] : entries[j][i].linked

EntryInv == \A c \in Callers : pc[c] \in {"entryOpen"} \cup OpenedPCs => EntryAt(c)

\* A record comes after the snapshot it was written over, and that one is not
\* before any earlier record; what those have recorded it has recorded too.
Keeps(t, u) == \A f \in Recorded(t.evidence) : u.evidence[f] = t.evidence[f]

ChainInv ==
  \A j \in Jobs : \A k \in DOMAIN entries[j] :
    /\ \A s \in entries[j][k].after : Rank[s.state] < Rank[entries[j][k].snap.state]
    /\ \A i \in DOMAIN entries[j] : i < k =>
         /\ \E s \in entries[j][k].after : Rank[entries[j][i].snap.state] <= Rank[s.state]
         /\ Keeps(entries[j][i].snap, entries[j][k].snap)

AckInv ==
  /\ \A a \in acks : a.at \in DOMAIN entries[a.job] => a.over = entries[a.job][a.at].after
  /\ \A a, b \in acks : a.job = b.job /\ a.at = b.at => a = b

\* Without failures a half-made job is one that is being made.
WholeInv ==
  spent.failures + spent.losses = 0 =>
    \A j \in Jobs : HalfMade(j) => \E c \in Callers : pc[c] = "mkdir" /\ call[c].job = j

\* All records of the job but the last could be read: that one is being written.
Unfinished(j) ==
  /\ home[j]["snapshots"].there
  /\ Count(j) > 0 /\ DOMAIN entries[j] = 0 .. Count(j) - 1
  /\ \A i \in DOMAIN entries[j] : (Intact(j, i) <=> i # Count(j) - 1) /\ Follows(j, i)

\* What was checked before a record is opened still holds then, and makes the
\* job readable when the record is whole.
RecordInv ==
  \A c \in Callers, j \in Jobs :
    /\ pc[c] = "entryOpen" /\ call[c].op = "append" /\ call[c].job = j => Readable(j)
    /\ pc[c] = "entryWrite" /\ call[c].job = j => Unfinished(j)

\* No record before an acknowledged one can be lost either.
KeptInv ==
  \A a \in acks : \A i \in 0 .. a.at :
    i \in DOMAIN entries[a.job] /\ entries[a.job][i].linked

\* The acknowledged places of a job have a last one.
LastInv ==
  \A a \in acks : \E b \in acks :
    b.job = a.job /\ \A o \in acks : o.job = a.job => o.at <= b.at

JournalInv ==
  /\ TypeOK /\ LockInv /\ CallInv /\ HomeInv /\ CreateInv /\ EntryInv
  /\ ChainInv /\ AckedIsDurable /\ AckInv /\ WholeInv
  /\ RecordInv /\ KeptInv /\ LastInv

\* The records of every job are one history, and what was acknowledged of it is
\* there for good.
HistoryIsSafe == JournalInv /\ OneOutcome /\ NoForkAcknowledged /\ EvidenceIsKept

-----------------------------------------------------------------------------
(***************************************************************************)
(* The journal implements CodingJobLedger.  A record that a live call has  *)
(* not finished does not count; when its call ends with the record torn,   *)
(* or before the first record, the job is closed.                          *)
(***************************************************************************)
AtWork(j, pcs) == \E c \in Callers : pc[c] \in pcs /\ call[c].op # "load" /\ call[c].job = j

Whole(j, n) == [i \in 1 .. n |-> entries[j][i - 1].snap]

ShownChain ==
  [j \in Jobs |->
     IF Readable(j) THEN Whole(j, Count(j))
     ELSE IF AtWork(j, {"entryWrite"}) /\ Count(j) > 1 THEN Whole(j, Count(j) - 1)
     ELSE <<>>]

ShownOpen ==
  {j \in Jobs : \/ Readable(j)
                \/ ~home[j]["job"].there
                \/ AtWork(j, CreatePCs \cup {"entryOpen", "entryWrite"})}

\* What was acknowledged of a job, up to the last place that was.
Acknowledged ==
  [j \in Jobs |->
     LET places == {a.at : a \in {b \in acks : b.job = j}}
     IN  Whole(j, IF places = {} THEN 0
                  ELSE 1 + CHOOSE i \in places : \A k \in places : k <= i)]

Ledger == INSTANCE CodingJobLedger WITH
  chain <- ShownChain, open <- ShownOpen, settled <- Acknowledged, losses <- spent.losses

\* Every behaviour of the journal is one of the abstract ledger: steps of one
\* job leave every other alone, and a power loss takes nothing acknowledged.
ImplementsLedger == Ledger!LSpec
=============================================================================
