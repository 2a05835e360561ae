-------------------------- MODULE PromotionJournal --------------------------
(***************************************************************************)
(* The durable journal of one promotion transaction                        *)
(* (lab_promotion_transaction_journal.py), one system call per step.       *)
(*                                                                         *)
(* Callers are processes that share a journal root through flock.  A file  *)
(* is torn from its O_EXCL creation until its last byte is written; its    *)
(* bytes survive a power loss only after fsync, its name only after the    *)
(* fsync of the directory above it.  A call may raise at any system call,  *)
(* a process may die between any two, and the machine may lose power: the  *)
(* kernel drops the lock in each case and nothing on disk is repaired.     *)
(***************************************************************************)
EXTENDS PromotionTransaction, Sequences

CONSTANTS
  Callers,          \* the processes that use the journal
  MaxSnapshots,     \* MAX_SNAPSHOTS: records one journal may hold
  MaxCalls,         \* bound: calls made in one behaviour
  MaxCrashes,       \* bound: process deaths
  MaxPowerLosses    \* bound: power losses

ASSUME CallersAssumption == Callers # {}
ASSUME BoundsAssumption ==
  /\ MaxSnapshots \in Nat \ {0}
  /\ MaxCalls \in Nat /\ MaxCrashes \in Nat /\ MaxPowerLosses \in Nat

VARIABLES
  home,     \* the transaction directory, its snapshots directory, its plan
  entries,  \* the snapshot records by sequence number
  held,     \* the flock mode each caller holds
  pc,       \* the system call each caller is at
  call,     \* the call each caller is making
  seen,     \* the snapshot each caller last got back, {} or a singleton
  acks,     \* history: the appends and the creation that returned normally
  told,     \* history: what loads and acks returned since the last power loss
  settled,  \* history: the chain at the last normal return of a write
  spent     \* how much of each bound is used

vars == <<home, entries, held, pc, call, seen, acks, told, settled, spent>>

disk == <<home, entries>>
history == <<acks, told, settled>>

HomeNames == {"transaction", "snapshots", "plan"}

NoFile   == [there |-> FALSE, good |-> FALSE, synced |-> FALSE, linked |-> FALSE]
Made     == [there |-> TRUE, good |-> TRUE, synced |-> TRUE, linked |-> FALSE]
TornFile == [there |-> TRUE, good |-> FALSE, synced |-> FALSE, linked |-> FALSE]

Entry(snap, after, good) ==
  [snap |-> snap, after |-> after, good |-> good,
   synced |-> FALSE, linked |-> FALSE]

EntryStates ==
  [snap : Snapshots, after : SUBSET Snapshots, good : BOOLEAN,
   synced : BOOLEAN, linked : BOOLEAN]

Calls ==
  [op : {"create", "load", "append"}, expected : SUBSET Snapshots,
   successor : Snapshots]

CreateCall == [op |-> "create", expected |-> {}, successor |-> PreparedTransaction]
LoadCall   == [op |-> "load", expected |-> {}, successor |-> PreparedTransaction]
AppendCall(expected, u) == [op |-> "append", expected |-> expected, successor |-> u]

\* Steps of a call while it holds the lock, in the order a creation makes them.
WritePCs ==
  {"mkdir", "planOpen", "planWrite", "planSync", "entryOpen", "entryWrite",
   "entrySync", "syncSnapshots", "syncTransaction", "syncRoot", "reload"}

PCs == {"idle", "lock", "locked"} \cup WritePCs

-----------------------------------------------------------------------------
(***************************************************************************)
(* Reading the whole journal: every entry is there, whole, in sequence, and *)
(* a legal transition from the one before it.                              *)
(***************************************************************************)
Count == Cardinality(DOMAIN entries)

\* Mutation of Readable: a torn record is taken for a whole one.
ReadableWithTornRecords ==
  /\ \A n \in HomeNames : home[n].there /\ home[n].good
  /\ Count > 0
  /\ DOMAIN entries = 0 .. Count - 1
  /\ \A i \in DOMAIN entries :
       i > 0 => Transition(entries[i - 1].snap, entries[i].snap)

Readable ==
  /\ \A n \in HomeNames : home[n].there /\ home[n].good
  /\ Count > 0
  /\ DOMAIN entries = 0 .. Count - 1
  /\ \A i \in DOMAIN entries :
       /\ entries[i].good
       /\ IF i = 0
          THEN entries[i].snap = PreparedTransaction /\ entries[i].after = {}
          ELSE /\ Transition(entries[i - 1].snap, entries[i].snap)
               /\ entries[i].after = {entries[i - 1].snap}

Tip == entries[Count - 1].snap

Init ==
  /\ home = [n \in HomeNames |-> NoFile]
  /\ entries = <<>>
  /\ held = [c \in Callers |-> "none"]
  /\ pc = [c \in Callers |-> "idle"]
  /\ call = [c \in Callers |-> LoadCall]
  /\ seen = [c \in Callers |-> {}]
  /\ acks = {} /\ told = {} /\ settled = <<>>
  /\ spent = [calls |-> 0, crashes |-> 0, losses |-> 0]

\* Mutations of Release: the lock outlives its call; the mode left behind is
\* the flock operation.
ReleaseNothing(c) ==
  /\ pc' = [pc EXCEPT ![c] = "idle"]
  /\ UNCHANGED held

ReleaseToOperation(c) ==
  /\ held' = [held EXCEPT ![c] = "UN"]
  /\ pc' = [pc EXCEPT ![c] = "idle"]

\* The end of a call, normal or not: the context manager drops the lock.
Release(c) ==
  /\ held' = [held EXCEPT ![c] = "none"]
  /\ pc' = [pc EXCEPT ![c] = "idle"]

Goto(c, next) ==
  /\ pc' = [pc EXCEPT ![c] = next]
  /\ UNCHANGED held

\* A caller appends to a snapshot it was given, and may offer any snapshot
\* that passes validation: the journal judges staleness and legality itself.
Begin(c) ==
  /\ pc[c] = "idle" /\ spent.calls < MaxCalls
  /\ \E what \in {CreateCall, LoadCall} \cup
                 {AppendCall(seen[c], u) : u \in {t \in Snapshots :
                                    seen[c] # {} /\ ValidTransaction(t)}} :
        call' = [call EXCEPT ![c] = what]
  /\ spent' = [spent EXCEPT !.calls = @ + 1]
  /\ Goto(c, "lock")
  /\ UNCHANGED <<disk, seen, history>>

\* Mutation of LockFree: writers do not wait for readers.
LockFreeOfWriters(c) == \A d \in Callers : held[d] # "EX"

LockFree(c) ==
  IF call[c].op = "load" THEN \A d \in Callers : held[d] # "EX"
                         ELSE \A d \in Callers : held[d] = "none"

Acquire(c) ==
  /\ pc[c] = "lock" /\ LockFree(c)
  /\ held' = [held EXCEPT ![c] = IF call[c].op = "load" THEN "SH" ELSE "EX"]
  /\ pc' = [pc EXCEPT ![c] = "locked"]
  /\ UNCHANGED <<disk, call, seen, history, spent>>

\* load_promotion_transaction_journal.
ReturnLoaded(c) ==
  /\ pc[c] = "locked" /\ call[c].op = "load" /\ Readable
  /\ seen' = [seen EXCEPT ![c] = {Tip}]
  /\ told' = told \cup {<<Count - 1, Tip>>}
  /\ Release(c)
  /\ UNCHANGED <<disk, call, acks, settled, spent>>

\* create_promotion_transaction_journal refuses an existing directory.
StartCreate(c) ==
  /\ pc[c] = "locked" /\ call[c].op = "create" /\ ~home["transaction"].there
  /\ home' = [home EXCEPT !["transaction"] = Made]
  /\ Goto(c, "mkdir")
  /\ UNCHANGED <<entries, call, seen, history, spent>>

MakeSnapshots(c) ==
  /\ pc[c] = "mkdir"
  /\ home' = [home EXCEPT !["snapshots"] = Made]
  /\ Goto(c, "planOpen")
  /\ UNCHANGED <<entries, call, seen, history, spent>>

PlanStep(c, from, next, node) ==
  /\ pc[c] = from
  /\ home' = [home EXCEPT !["plan"] = node]
  /\ Goto(c, next)
  /\ UNCHANGED <<entries, call, seen, history, spent>>

OpenPlan(c)  == PlanStep(c, "planOpen", "planWrite", TornFile)
WritePlan(c) == PlanStep(c, "planWrite", "planSync", [home["plan"] EXCEPT !.good = TRUE])
SyncPlan(c)  == PlanStep(c, "planSync", "entryOpen", [home["plan"] EXCEPT !.synced = TRUE])

\* Mutations of AppendAllowed: no staleness check; no no-op check.
AppendAllowedWhenStale(c) ==
  /\ Readable
  /\ call[c].successor # Tip
  /\ Transition(Tip, call[c].successor)
  /\ Count < MaxSnapshots

AppendAllowedAgain(c) ==
  /\ Readable
  /\ call[c].expected = {Tip}
  /\ Transition(Tip, call[c].successor)
  /\ Count < MaxSnapshots

\* append_promotion_transaction_snapshot: what it checks before it writes.
AppendAllowed(c) ==
  /\ Readable
  /\ call[c].expected = {Tip}
  /\ call[c].successor # Tip
  /\ Transition(Tip, call[c].successor)
  /\ Count < MaxSnapshots

StartAppend(c) ==
  /\ pc[c] = "locked" /\ call[c].op = "append" /\ AppendAllowed(c)
  /\ Goto(c, "entryOpen")
  /\ UNCHANGED <<disk, call, seen, history, spent>>

\* A load of an unreadable journal, a creation of an existing one and an
\* append that is stale, a no-op or illegal end in an error.
Refuse(c) ==
  /\ pc[c] = "locked"
  /\ \/ call[c].op = "load" /\ ~Readable
     \/ call[c].op = "create" /\ home["transaction"].there
     \/ call[c].op = "append" /\ ~AppendAllowed(c)
  /\ Release(c)
  /\ UNCHANGED <<disk, call, seen, history, spent>>

\* O_EXCL creation at the next sequence number.
OpenEntry(c) ==
  /\ pc[c] = "entryOpen"
  /\ entries' = [i \in 0 .. Count |->
       IF i < Count THEN entries[i]
       ELSE Entry(call[c].successor,
                  IF Count = 0 THEN {} ELSE {entries[Count - 1].snap}, FALSE)]
  /\ Goto(c, "entryWrite")
  /\ UNCHANGED <<home, call, seen, history, spent>>

WriteEntry(c) ==
  /\ pc[c] = "entryWrite"
  /\ entries' = [entries EXCEPT ![Count - 1].good = TRUE]
  /\ Goto(c, "entrySync")
  /\ UNCHANGED <<home, call, seen, history, spent>>

\* Mutation of SyncEntry: the record's bytes are not fsynced.
SyncEntryNot(c) ==
  /\ pc[c] = "entrySync"
  /\ Goto(c, "syncSnapshots")
  /\ UNCHANGED <<disk, call, seen, history, spent>>

SyncEntry(c) ==
  /\ pc[c] = "entrySync"
  /\ entries' = [entries EXCEPT ![Count - 1].synced = TRUE]
  /\ Goto(c, "syncSnapshots")
  /\ UNCHANGED <<home, call, seen, history, spent>>

\* Mutation of SyncSnapshots: the record's name is not fsynced.
SyncSnapshotsNot(c) ==
  /\ pc[c] = "syncSnapshots"
  /\ Goto(c, "syncTransaction")
  /\ UNCHANGED <<disk, call, seen, history, spent>>

\* The fsync of a directory makes every name in it durable.
SyncSnapshots(c) ==
  /\ pc[c] = "syncSnapshots"
  /\ entries' = [i \in DOMAIN entries |-> [entries[i] EXCEPT !.linked = TRUE]]
  /\ Goto(c, "syncTransaction")
  /\ UNCHANGED <<home, call, seen, history, spent>>

LinkHome(c, from, next, names) ==
  /\ pc[c] = from
  /\ home' = [n \in HomeNames |->
                IF n \in names THEN [home[n] EXCEPT !.linked = TRUE] ELSE home[n]]
  /\ Goto(c, next)
  /\ UNCHANGED <<entries, call, seen, history, spent>>

SyncTransaction(c) == LinkHome(c, "syncTransaction", "syncRoot", {"plan", "snapshots"})
SyncRoot(c)        == LinkHome(c, "syncRoot", "reload", {"transaction"})

\* The last step of a write: read the journal back, find exactly the
\* successor at its tip, and tell the caller.
Acknowledge(c) ==
  /\ pc[c] = "reload" /\ Readable /\ Tip = call[c].successor
  /\ seen' = [seen EXCEPT ![c] = {Tip}]
  /\ acks' = acks \cup {[by |-> c, at |-> Count - 1, snap |-> Tip,
                         over |-> call[c].expected]}
  /\ told' = told \cup {<<Count - 1, Tip>>}
  /\ settled' = [i \in 1 .. Count |-> entries[i - 1].snap]
  /\ Release(c)
  /\ UNCHANGED <<disk, call, spent>>

\* Any system call may fail: the call raises and leaves what it has written.
Raise(c) ==
  /\ pc[c] \in {"lock", "locked"} \cup WritePCs
  /\ Release(c)
  /\ UNCHANGED <<disk, call, seen, history, spent>>

\* The process dies: its locks go with it, its memory too.
Crash(c) ==
  /\ spent.crashes < MaxCrashes
  /\ spent' = [spent EXCEPT !.crashes = @ + 1]
  /\ Release(c)
  /\ seen' = [seen EXCEPT ![c] = {}]
  /\ UNCHANGED <<disk, call, history>>

\* What is left of a file whose name survived.
AfterLoss(file, torn) == [file EXCEPT !.good = @ /\ ~torn,
                                      !.synced = TRUE, !.linked = TRUE]

\* Power is lost: a name that was never fsynced may be gone, bytes that were
\* never fsynced may be torn, and every process is dead.
PowerLoss ==
  /\ spent.losses < MaxPowerLosses
  /\ spent' = [spent EXCEPT !.losses = @ + 1]
  /\ \E gone \in SUBSET {n \in HomeNames : home[n].there /\ ~home[n].linked},
        torn \in SUBSET {n \in {"plan"} : ~home[n].synced},
        lost \in SUBSET {i \in DOMAIN entries : ~entries[i].linked},
        ripped \in SUBSET {i \in DOMAIN entries : ~entries[i].synced} :
       LET left == IF "transaction" \in gone THEN {}
                   ELSE {n \in HomeNames : home[n].there} \ gone
           kept == IF "snapshots" \in left THEN DOMAIN entries \ lost ELSE {}
       IN  /\ home' = [n \in HomeNames |->
                         IF n \in left THEN AfterLoss(home[n], n \in torn) ELSE NoFile]
           /\ entries' = [i \in kept |-> AfterLoss(entries[i], i \in ripped)]
  /\ held' = [c \in Callers |-> "none"]
  /\ pc' = [c \in Callers |-> "idle"]
  /\ seen' = [c \in Callers |-> {}]
  /\ told' = {}
  /\ UNCHANGED <<call, acks, settled>>

\* The steps a call takes by itself.
Step(c) ==
  \/ Acquire(c) \/ ReturnLoaded(c) \/ Refuse(c)
  \/ StartCreate(c) \/ MakeSnapshots(c)
  \/ OpenPlan(c) \/ WritePlan(c) \/ SyncPlan(c)
  \/ StartAppend(c)
  \/ OpenEntry(c) \/ WriteEntry(c) \/ SyncEntry(c)
  \/ SyncSnapshots(c) \/ SyncTransaction(c) \/ SyncRoot(c)
  \/ Acknowledge(c)

Next ==
  \/ \E c \in Callers : Begin(c) \/ Step(c) \/ Raise(c) \/ Crash(c)
  \/ PowerLoss

Spec == Init /\ [][Next]_vars

\* A process that is scheduled keeps executing the call it is in.  A caller
\* waiting for the lock needs no more than that: calls are bounded, so the
\* lock is in the end free for good.
FairSpec == Spec /\ \A c \in Callers : WF_vars(Step(c))

-----------------------------------------------------------------------------
Files == [there : BOOLEAN, good : BOOLEAN, synced : BOOLEAN, linked : BOOLEAN]

TypeOK ==
  /\ home \in [HomeNames -> Files]
  /\ DOMAIN entries \subseteq Nat /\ IsFiniteSet(DOMAIN entries)
  /\ entries \in [DOMAIN entries -> EntryStates]
  /\ held \in [Callers -> {"none", "SH", "EX"}]
  /\ pc \in [Callers -> PCs]
  /\ call \in [Callers -> Calls]
  /\ seen \in [Callers -> SUBSET Snapshots]
  /\ acks \subseteq [by : Callers, at : Nat, snap : Snapshots, over : SUBSET Snapshots]
  /\ told \subseteq Nat \X Snapshots
  /\ settled \in Seq(Snapshots)
  /\ spent \in [calls : Nat, crashes : Nat, losses : Nat]

\* Everything that was acknowledged is on disk for good, the record, its name
\* and every directory above it, whatever other calls have left half done
\* around it (the fsync order of create and append).
AckedIsDurable ==
  \A a \in acks :
    /\ a.at \in DOMAIN entries
    /\ entries[a.at].snap = a.snap /\ entries[a.at].good
    /\ entries[a.at].synced /\ entries[a.at].linked
    /\ \A n \in HomeNames : home[n].good /\ home[n].synced /\ home[n].linked

\* Two calls are never both told that they extended the same snapshot (the
\* compare-and-append on expected_previous_snapshot_id), also when they offer
\* the same successor.
NoForkAcknowledged ==
  \A a, b \in acks : (a.at = b.at \/ a.over = b.over) => a = b

\* Whatever a caller was given, by a load or by a write, is still at its place
\* as long as the journal can be read at all: no caller holds a snapshot that
\* the journal has silently taken back.  A power loss may take back what was
\* only loaded, never what was acknowledged; without one only the very last
\* record can be torn, as a later one is only appended to what was read whole.
NothingToldIsForgotten ==
  /\ Readable =>
       /\ \A x \in told : x[1] \in DOMAIN entries /\ entries[x[1]].snap = x[2]
       /\ \A i \in DOMAIN settled : i <= Count /\ entries[i - 1].snap = settled[i]
  /\ spent.losses = 0 =>
       \A i \in DOMAIN entries : entries[i].good \/ i = Count - 1

\* The record chain advances strictly, so a stale caller can never find its
\* expected snapshot identity at the tip again.
NoSnapshotReturns ==
  \A i, j \in DOMAIN entries :
    i < j => Earlier(entries[i].snap, entries[j].snap)

\* A call that has begun returns or raises: no call waits for the lock forever.
EveryCallReturns == \A c \in Callers : pc[c] # "idle" ~> pc[c] = "idle"

-----------------------------------------------------------------------------
(***************************************************************************)
(* Why the invariants above hold: the inductive invariant, by parts.       *)
(***************************************************************************)
CreatePCs == {"mkdir", "planOpen", "planWrite", "planSync"}

OpenedPCs ==
  {"entryWrite", "entrySync", "syncSnapshots", "syncTransaction", "syncRoot",
   "reload"}

EntryPCs == {"entryOpen"} \cup OpenedPCs

\* Whoever is past its checks holds the lock alone.
LockInv ==
  /\ \A c \in Callers :
       pc[c] \in WritePCs \/ (pc[c] = "locked" /\ call[c].op # "load") =>
         held[c] = "EX"
  /\ \A c, d \in Callers : c # d /\ held[c] = "EX" => held[d] = "none"

CallInv ==
  \A c \in Callers :
    /\ call[c].op # "append" =>
         call[c].expected = {} /\ call[c].successor = PreparedTransaction
    /\ pc[c] \in CreatePCs => call[c].op = "create"

\* Directories are born whole, and nothing is kept without what is above it.
HomeInv ==
  /\ \A n \in HomeNames : home[n].good => home[n].there
  /\ \A n \in {"transaction", "snapshots"} :
       home[n].there => home[n].good /\ home[n].synced
  /\ home["snapshots"].there => home["transaction"].there
  /\ DOMAIN entries # {} =>
       home["snapshots"].there /\ (home["plan"].there => home["plan"].synced)

\* How far a creation has come when it is at work on the plan.
CreateInv ==
  \A c \in Callers : pc[c] \in CreatePCs =>
    /\ acks = {} /\ DOMAIN entries = {}
    /\ home["transaction"].there
    /\ pc[c] # "mkdir" => home["snapshots"].there
    /\ pc[c] \in {"planWrite", "planSync"} => home["plan"].there
    /\ pc[c] = "planSync" => home["plan"].good

Contiguous == Count \in Nat /\ DOMAIN entries = 0 .. Count - 1

\* How far a write has come when it is at work on its record.
EntryAt(c) ==
  /\ Contiguous
  /\ \A n \in HomeNames : home[n].there /\ home[n].good /\ home[n].synced
  /\ pc[c] = "entryOpen" =>
       IF call[c].op = "append"
       THEN /\ Count > 0 /\ call[c].expected = {Tip}
            /\ Earlier(Tip, call[c].successor)
       ELSE Count = 0
  /\ pc[c] \in OpenedPCs =>
       /\ Count > 0
       /\ Tip = call[c].successor
       /\ entries[Count - 1].after = call[c].expected
       /\ \A a \in acks : a.at < Count - 1
  /\ pc[c] \in {"syncSnapshots", "syncTransaction", "syncRoot", "reload"} =>
       entries[Count - 1].synced
  /\ pc[c] \in {"syncTransaction", "syncRoot", "reload"} =>
       \A i \in DOMAIN entries : entries[i].linked
  /\ pc[c] \in {"syncRoot", "reload"} =>
       home["plan"].linked /\ home["snapshots"].linked
  /\ pc[c] = "reload" => home["transaction"].linked

EntryInv == \A c \in Callers : pc[c] \in EntryPCs => EntryAt(c)

\* A record comes strictly after the snapshot it was written over, and that
\* one is the snapshot of every record before it or comes after that.
OrderInv ==
  /\ \A j \in DOMAIN entries : \A s \in entries[j].after : Earlier(s, entries[j].snap)
  /\ \A i, j \in DOMAIN entries : i < j =>
       \E s \in entries[j].after :
         s = entries[i].snap \/ Earlier(entries[i].snap, s)

AckInv ==
  /\ \A a \in acks : a.at \in DOMAIN entries => a.over = entries[a.at].after
  /\ \A a, b \in acks : a.at = b.at => a = b

\* All but the last record could be read: that one is being written.
Unfinished ==
  /\ \A n \in HomeNames : home[n].there /\ home[n].good
  /\ Contiguous /\ Count > 0
  /\ \A i \in DOMAIN entries :
       /\ entries[i].good <=> i # Count - 1
       /\ IF i = 0
          THEN entries[i].snap = PreparedTransaction /\ entries[i].after = {}
          ELSE /\ Transition(entries[i - 1].snap, entries[i].snap)
               /\ entries[i].after = {entries[i - 1].snap}

\* What was checked before a record is opened still holds then, and makes the
\* journal readable when the record is whole.
RecordInv ==
  \A c \in Callers :
    /\ pc[c] = "entryOpen" /\ call[c].op = "append" => AppendAllowed(c)
    /\ pc[c] = "entryWrite" => Unfinished

\* What callers were told is on the disk, and what a write has returned is
\* there under durable names.
HistoryInv ==
  /\ \A x \in told : x[1] \in DOMAIN entries /\ entries[x[1]].snap = x[2]
  /\ \A i \in DOMAIN settled :
       /\ i - 1 \in DOMAIN entries
       /\ entries[i - 1].snap = settled[i] /\ entries[i - 1].linked
  /\ settled # <<>> => \A n \in HomeNames : home[n].there /\ home[n].linked
  /\ spent.losses = 0 =>
       \A i \in DOMAIN entries : entries[i].good \/ i = Count - 1

JournalInv ==
  /\ TypeOK /\ LockInv /\ CallInv /\ HomeInv /\ CreateInv /\ EntryInv
  /\ OrderInv /\ AckInv /\ RecordInv /\ HistoryInv

-----------------------------------------------------------------------------
(***************************************************************************)
(* The journal implements PromotionLedger.  While a live call is at work   *)
(* on a record no reader can get at it, so the record does not count yet;  *)
(* when the call ends with the record torn, the journal is closed.         *)
(***************************************************************************)
AtWork(pcs) == \E c \in Callers : pc[c] \in pcs

Whole(n) == [i \in 1 .. n |-> entries[i - 1].snap]

ShownChain ==
  IF Readable THEN Whole(Count)
  ELSE IF AtWork({"entryWrite"}) /\ Count > 0 THEN Whole(Count - 1) ELSE <<>>

ShownOpen ==
  \/ Readable
  \/ ~home["transaction"].there
  \/ AtWork({"mkdir", "planOpen", "planWrite", "planSync", "entryOpen", "entryWrite"})

Ledger == INSTANCE PromotionLedger WITH
            view <- ShownChain, open <- ShownOpen

\* Every behaviour of the journal, with its crashes and power losses, is one
\* the abstract ledger allows.
ImplementsLedger == Ledger!LSpec
=============================================================================
