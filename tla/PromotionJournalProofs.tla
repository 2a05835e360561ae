----------------------- MODULE PromotionJournalProofs -----------------------
(***************************************************************************)
(* The journal's durability, its compare-and-append and that it implements *)
(* the ledger, for any number of callers, paths, calls, process deaths and *)
(* power losses.                                                           *)
(***************************************************************************)
EXTENDS PromotionJournal, TLAPS, FiniteSetTheorems

-----------------------------------------------------------------------------
(***************************************************************************)
(* The order behind the compare-and-append: legal successors strictly      *)
(* advance, so no snapshot can come back.                                  *)
(***************************************************************************)

LEMMA StateRankInjective ==
  ASSUME NEW s \in TransactionStates, NEW r \in TransactionStates
  PROVE  /\ StateRank(s) \in Nat
         /\ StateRank(s) = StateRank(r) => s = r
BY DEF TransactionStates, StateRank

LEMMA ProgressRankInjective ==
  ASSUME NEW x \in FileProgressStates, NEW y \in FileProgressStates
  PROVE  /\ ProgressRank(x) \in Nat
         /\ ProgressRank(x) = ProgressRank(y) => x = y
BY DEF FileProgressStates, ProgressRank

\* Every pair of states the table of legal state transitions holds goes up.
LEMMA AllowedStatesAdvance ==
  ASSUME NEW s \in TransactionStates, NEW r \in AllowedStates(s)
  PROVE  r \in TransactionStates /\ StateRank(s) <= StateRank(r)
BY DEF TransactionStates, AllowedStates, StateRank

LEMMA AllowedProgressAdvances ==
  ASSUME NEW x \in FileProgressStates, NEW y \in FileProgressStates,
         x = y \/ <<x, y>> \in AllowedProgress
  PROVE  ProgressRank(x) <= ProgressRank(y)
BY DEF FileProgressStates, AllowedProgress, ProgressRank

\* A legal successor that is not a no-op is strictly later than the snapshot
\* it follows (transition_lab_promotion_transaction and the two tables).
THEOREM TransitionAdvances ==
  ASSUME NEW t \in Snapshots, NEW u \in Snapshots, Transition(t, u), u # t
  PROVE  Earlier(t, u)
<1>1. StateRank(t.state) <= StateRank(u.state)
  BY AllowedStatesAdvance DEF Transition, Snapshots
<1>2. ASSUME NEW p \in Paths
      PROVE  ProgressRank(t.progress[p]) <= ProgressRank(u.progress[p])
  <2>1. t.progress[p] \in FileProgressStates /\ u.progress[p] \in FileProgressStates
    BY DEF Snapshots
  <2>2. t.progress[p] = u.progress[p] \/ <<t.progress[p], u.progress[p]>> \in AllowedProgress
    BY DEF Transition
  <2> QED BY <2>1, <2>2, AllowedProgressAdvances
<1> QED BY <1>1, <1>2 DEF Earlier

\* Two snapshots of the same rank everywhere are the same snapshot.
LEMMA SameRanksSame ==
  ASSUME NEW t \in Snapshots, NEW u \in Snapshots,
         StateRank(t.state) = StateRank(u.state),
         \A p \in Paths : ProgressRank(t.progress[p]) = ProgressRank(u.progress[p])
  PROVE  t = u
<1>1. t.state = u.state
  BY StateRankInjective DEF Snapshots
<1>2. \A p \in Paths : t.progress[p] = u.progress[p]
  BY ProgressRankInjective DEF Snapshots
<1>3. t.progress = u.progress
  BY <1>2 DEF Snapshots
<1> QED BY <1>1, <1>3 DEF Snapshots

\* "Earlier" is transitive; that it is irreflexive is its first conjunct.
THEOREM EarlierTransitive ==
  ASSUME NEW t \in Snapshots, NEW u \in Snapshots, NEW v \in Snapshots,
         Earlier(t, u), Earlier(u, v)
  PROVE  Earlier(t, v)
<1>0. /\ StateRank(t.state) \in Nat /\ StateRank(u.state) \in Nat
      /\ StateRank(v.state) \in Nat
  BY StateRankInjective DEF Snapshots
<1>1. \A p \in Paths : /\ ProgressRank(t.progress[p]) \in Nat
                       /\ ProgressRank(u.progress[p]) \in Nat
                       /\ ProgressRank(v.progress[p]) \in Nat
  BY ProgressRankInjective DEF Snapshots
<1>2. StateRank(t.state) <= StateRank(v.state)
  BY <1>0 DEF Earlier
<1>3. \A p \in Paths : ProgressRank(t.progress[p]) <= ProgressRank(v.progress[p])
  BY <1>1 DEF Earlier
<1>4. t # v
  <2> SUFFICES ASSUME t = v PROVE FALSE
    OBVIOUS
  <2>1. StateRank(t.state) = StateRank(u.state)
    BY <1>0 DEF Earlier
  <2>2. \A p \in Paths : ProgressRank(t.progress[p]) = ProgressRank(u.progress[p])
    BY <1>1 DEF Earlier
  <2>3. t = u
    BY <2>1, <2>2, SameRanksSame
  <2> QED BY <2>3 DEF Earlier
<1> QED BY <1>2, <1>3, <1>4 DEF Earlier

LEMMA EarlierAsymmetric ==
  ASSUME NEW t \in Snapshots, NEW u \in Snapshots, Earlier(t, u)
  PROVE  ~Earlier(u, t)
BY EarlierTransitive DEF Earlier
-----------------------------------------------------------------------------

IInv == TypeOK /\ JournalInv /\ AckedIsDurable

USE DEF disk, history

-----------------------------------------------------------------------------
(***************************************************************************)
(* The steps by what they do to the lock and the program counter.          *)
(***************************************************************************)
Returns(c) ==
  ReturnLoaded(c) \/ Refuse(c) \/ Raise(c) \/ Crash(c) \/ Acknowledge(c)

Starts(c) == StartCreate(c) \/ StartAppend(c)

PlanWrites(c) == MakeSnapshots(c) \/ OpenPlan(c) \/ WritePlan(c) \/ SyncPlan(c)

EntryWrites(c) ==
  \/ OpenEntry(c) \/ WriteEntry(c) \/ SyncEntry(c)
  \/ SyncSnapshots(c) \/ SyncTransaction(c) \/ SyncRoot(c)

LEMMA NextCases ==
  ASSUME [Next]_vars
  PROVE  \/ UNCHANGED vars
         \/ PowerLoss
         \/ \E c \in Callers : \/ Begin(c) \/ Acquire(c) \/ Returns(c)
                               \/ Starts(c) \/ PlanWrites(c) \/ EntryWrites(c)
BY DEF Next, Step, Returns, Starts, PlanWrites, EntryWrites

LEMMA ReturnsRelease ==
  ASSUME NEW c \in Callers, Returns(c)
  PROVE  Release(c) /\ call' = call /\ home' = home /\ entries' = entries
BY DEF Returns, ReturnLoaded, Refuse, Raise, Crash, Acknowledge

LEMMA StartsMove ==
  ASSUME NEW c \in Callers, Starts(c)
  PROVE  /\ pc[c] = "locked" /\ call[c].op # "load"
         /\ pc' = [pc EXCEPT ![c] = IF call[c].op = "create" THEN "mkdir" ELSE "entryOpen"]
         /\ held' = held /\ call' = call
BY DEF Starts, StartCreate, StartAppend, Goto

LEMMA PlanWritesMove ==
  ASSUME NEW c \in Callers, PlanWrites(c)
  PROVE  /\ pc[c] \in CreatePCs
         /\ \E next \in {"planOpen", "planWrite", "planSync", "entryOpen"} :
              pc' = [pc EXCEPT ![c] = next]
         /\ held' = held /\ call' = call
BY DEF PlanWrites, MakeSnapshots, OpenPlan, WritePlan, SyncPlan, PlanStep, Goto,
       CreatePCs

LEMMA EntryWritesMove ==
  ASSUME NEW c \in Callers, EntryWrites(c)
  PROVE  /\ pc[c] \in EntryPCs \ {"reload"}
         /\ \E next \in OpenedPCs : pc' = [pc EXCEPT ![c] = next]
         /\ held' = held /\ call' = call
<1> USE DEF EntryPCs, OpenedPCs
<1>1. CASE OpenEntry(c) \/ WriteEntry(c) \/ SyncEntry(c) \/ SyncSnapshots(c)
  BY <1>1 DEF OpenEntry, WriteEntry, SyncEntry, SyncSnapshots, Goto
<1>2. CASE SyncTransaction(c) \/ SyncRoot(c)
  BY <1>2 DEF SyncTransaction, SyncRoot, LinkHome, Goto
<1> QED BY <1>1, <1>2 DEF EntryWrites

-----------------------------------------------------------------------------
\* Whoever writes holds the lock, alone.
LEMMA LockStep ==
  ASSUME TypeOK, LockInv, [Next]_vars
  PROVE  LockInv'
<1> USE DEF TypeOK, LockInv, WritePCs, PCs
<1>1. CASE UNCHANGED vars
  BY <1>1 DEF vars
<1>2. CASE PowerLoss
  BY <1>2 DEF PowerLoss
<1>3. ASSUME NEW c \in Callers, Begin(c)
      PROVE  LockInv'
  BY <1>3 DEF Begin, Goto
<1>4. ASSUME NEW c \in Callers, Acquire(c)
      PROVE  LockInv'
  BY <1>4 DEF Acquire, LockFree
<1>5. ASSUME NEW c \in Callers, Returns(c)
      PROVE  LockInv'
  <2>1. /\ held' = [held EXCEPT ![c] = "none"]
        /\ pc' = [pc EXCEPT ![c] = "idle"]
        /\ call' = call
    BY <1>5, ReturnsRelease DEF Release
  <2>2. \A x \in Callers : x # c => held'[x] = held[x] /\ pc'[x] = pc[x]
    BY <2>1
  <2>3. held'[c] = "none" /\ pc'[c] = "idle"
    BY <2>1
  <2> QED BY <2>1, <2>2, <2>3
<1>6. ASSUME NEW c \in Callers, Starts(c)
      PROVE  LockInv'
  BY <1>6, StartsMove
<1>7. ASSUME NEW c \in Callers, PlanWrites(c)
      PROVE  LockInv'
  BY <1>7, PlanWritesMove DEF CreatePCs
<1>8. ASSUME NEW c \in Callers, EntryWrites(c)
      PROVE  LockInv'
  <2>1. pc[c] \in WritePCs /\ held' = held /\ call' = call
    BY <1>8, EntryWritesMove DEF EntryPCs, OpenedPCs
  <2>2. \A x \in Callers : x # c => pc'[x] = pc[x]
    BY <1>8, EntryWritesMove
  <2> QED BY <2>1, <2>2
<1> QED BY <1>1, <1>2, <1>3, <1>4, <1>5, <1>6, <1>7, <1>8, NextCases

LEMMA OneWriter ==
  ASSUME TypeOK, LockInv, NEW c \in Callers, NEW d \in Callers, c # d,
         \/ pc[c] \in WritePCs
         \/ pc[c] = "locked" /\ call[c].op # "load"
  PROVE  pc[d] \notin WritePCs
BY DEF TypeOK, LockInv

LEMMA CallStep ==
  ASSUME TypeOK, CallInv, [Next]_vars
  PROVE  CallInv'
<1> USE DEF TypeOK, CallInv, CreatePCs, PCs, WritePCs
<1>1. CASE UNCHANGED vars
  BY <1>1 DEF vars
<1>2. CASE PowerLoss
  BY <1>2 DEF PowerLoss
<1>3. ASSUME NEW c \in Callers, Begin(c)
      PROVE  CallInv'
  BY <1>3 DEF Begin, Goto, CreateCall, LoadCall, AppendCall
<1>4. ASSUME NEW c \in Callers, Acquire(c)
      PROVE  CallInv'
  BY <1>4 DEF Acquire
<1>5. ASSUME NEW c \in Callers, Returns(c)
      PROVE  CallInv'
  BY <1>5, ReturnsRelease DEF Release
<1>6. ASSUME NEW c \in Callers, Starts(c)
      PROVE  CallInv'
  BY <1>6, StartsMove
<1>7. ASSUME NEW c \in Callers, PlanWrites(c)
      PROVE  CallInv'
  BY <1>7, PlanWritesMove
<1>8. ASSUME NEW c \in Callers, EntryWrites(c)
      PROVE  CallInv'
  BY <1>8, EntryWritesMove DEF EntryPCs, OpenedPCs
<1> QED BY <1>1, <1>2, <1>3, <1>4, <1>5, <1>6, <1>7, <1>8, NextCases

-----------------------------------------------------------------------------
(***************************************************************************)
(* Frames: a step either leaves the disk and the acknowledgements alone,   *)
(* or is made by the one caller that may write.                            *)
(***************************************************************************)
Quiet(c) ==
  Begin(c) \/ Acquire(c) \/ ReturnLoaded(c) \/ Refuse(c) \/ Raise(c) \/ Crash(c)

Writes(c) == Starts(c) \/ PlanWrites(c) \/ EntryWrites(c) \/ Acknowledge(c)

LEMMA QuietOrWrites ==
  ASSUME [Next]_vars
  PROVE  \/ UNCHANGED vars
         \/ PowerLoss
         \/ \E c \in Callers : Quiet(c) \/ Writes(c)
BY DEF Next, Step, Quiet, Writes, Starts, PlanWrites, EntryWrites

LEMMA QuietFrame ==
  ASSUME TypeOK, NEW c \in Callers, Quiet(c)
  PROVE  /\ home' = home /\ entries' = entries /\ acks' = acks
         /\ \A d \in Callers : pc'[d] \in WritePCs =>
              pc'[d] = pc[d] /\ call'[d] = call[d]
<1> USE DEF TypeOK, WritePCs
<1>1. CASE Begin(c)
  BY <1>1 DEF Begin, Goto
<1>2. CASE Acquire(c)
  BY <1>2 DEF Acquire
<1>3. CASE ReturnLoaded(c) \/ Refuse(c) \/ Raise(c) \/ Crash(c)
  BY <1>3 DEF ReturnLoaded, Refuse, Raise, Crash, Release
<1> QED BY <1>1, <1>2, <1>3 DEF Quiet

LEMMA WritesFrame ==
  ASSUME TypeOK, LockInv, NEW c \in Callers, Writes(c)
  PROVE  /\ call' = call
         /\ \A d \in Callers : d # c => pc'[d] \notin WritePCs
<1>1. pc[c] \in WritePCs \/ (pc[c] = "locked" /\ call[c].op # "load")
  <2>1. CASE Starts(c)
    BY <2>1, StartsMove
  <2>2. CASE PlanWrites(c)
    BY <2>2, PlanWritesMove DEF CreatePCs, WritePCs
  <2>3. CASE EntryWrites(c)
    BY <2>3, EntryWritesMove DEF EntryPCs, OpenedPCs, WritePCs
  <2>4. CASE Acknowledge(c)
    BY <2>4 DEF Acknowledge, WritePCs
  <2> QED BY <2>1, <2>2, <2>3, <2>4 DEF Writes
<1>2. call' = call /\ \A d \in Callers : d # c => pc'[d] = pc[d]
  <2>1. CASE Starts(c)
    BY <2>1, StartsMove DEF TypeOK
  <2>2. CASE PlanWrites(c)
    BY <2>2, PlanWritesMove DEF TypeOK
  <2>3. CASE EntryWrites(c)
    BY <2>3, EntryWritesMove DEF TypeOK
  <2>4. CASE Acknowledge(c)
    BY <2>4 DEF Acknowledge, Release, TypeOK
  <2> QED BY <2>1, <2>2, <2>3, <2>4 DEF Writes
<1> QED BY <1>1, <1>2, OneWriter

-----------------------------------------------------------------------------
(***************************************************************************)
(* Directories are born whole and nothing is kept without what is above.   *)
(***************************************************************************)
\* A power loss, by what it takes.
Left(gone) ==
  IF "transaction" \in gone THEN {} ELSE {n \in HomeNames : home[n].there} \ gone

LossOf(gone, torn, lost, ripped) ==
  /\ \A n \in gone : ~home[n].linked
  /\ \A n \in torn : ~home[n].synced
  /\ \A i \in lost : ~entries[i].linked
  /\ \A i \in ripped : ~entries[i].synced
  /\ home' = [n \in HomeNames |->
                IF n \in Left(gone) THEN AfterLoss(home[n], n \in torn) ELSE NoFile]
  /\ entries' = [i \in IF "snapshots" \in Left(gone) THEN DOMAIN entries \ lost ELSE {} |->
                   AfterLoss(entries[i], i \in ripped)]

LEMMA LossShape ==
  ASSUME PowerLoss
  PROVE  \E gone \in SUBSET HomeNames, torn \in SUBSET {"plan"},
            lost \in SUBSET DOMAIN entries, ripped \in SUBSET DOMAIN entries :
           LossOf(gone, torn, lost, ripped)
<1>1. PICK gone \in SUBSET {n \in HomeNames : home[n].there /\ ~home[n].linked},
           torn \in SUBSET {n \in {"plan"} : ~home[n].synced},
           lost \in SUBSET {i \in DOMAIN entries : ~entries[i].linked},
           ripped \in SUBSET {i \in DOMAIN entries : ~entries[i].synced} :
        /\ home' = [n \in HomeNames |->
                      IF n \in Left(gone) THEN AfterLoss(home[n], n \in torn) ELSE NoFile]
        /\ entries' = [i \in IF "snapshots" \in Left(gone) THEN DOMAIN entries \ lost ELSE {} |->
                         AfterLoss(entries[i], i \in ripped)]
  BY DEF PowerLoss, Left
<1>2. LossOf(gone, torn, lost, ripped)
  BY <1>1 DEF LossOf
<1> QED BY <1>1, <1>2

LEMMA LossOfFile ==
  ASSUME NEW file \in Files, NEW n, NEW torn
  PROVE  /\ AfterLoss(file, n \in torn) \in Files
         /\ AfterLoss(file, n \in torn).there = file.there
         /\ AfterLoss(file, n \in torn).synced
         /\ AfterLoss(file, n \in torn).linked
         /\ file.good /\ n \notin torn => AfterLoss(file, n \in torn).good
BY DEF Files, AfterLoss

LEMMA LossOfEntry ==
  ASSUME NEW entry \in EntryStates, NEW n, NEW torn
  PROVE  /\ AfterLoss(entry, n \in torn) \in EntryStates
         /\ AfterLoss(entry, n \in torn).snap = entry.snap
         /\ AfterLoss(entry, n \in torn).after = entry.after
         /\ AfterLoss(entry, n \in torn).synced
         /\ AfterLoss(entry, n \in torn).linked
         /\ entry.good /\ n \notin torn => AfterLoss(entry, n \in torn).good
BY DEF EntryStates, AfterLoss

\* Syncing a directory changes nothing but how durable the names in it are.
LEMMA LinkFrame ==
  ASSUME TypeOK, NEW c \in Callers, SyncTransaction(c) \/ SyncRoot(c)
  PROVE  /\ entries' = entries /\ acks' = acks
         /\ \A n \in HomeNames :
              /\ home'[n].there = home[n].there /\ home'[n].good = home[n].good
              /\ home'[n].synced = home[n].synced
              /\ home[n].linked => home'[n].linked
<1>1. PICK names \in SUBSET HomeNames :
        home' = [n \in HomeNames |->
                   IF n \in names THEN [home[n] EXCEPT !.linked = TRUE] ELSE home[n]]
  BY DEF SyncTransaction, SyncRoot, LinkHome, HomeNames
<1>2. entries' = entries /\ acks' = acks
  BY DEF SyncTransaction, SyncRoot, LinkHome
<1>3. \A n \in HomeNames :
        home[n] \in Files /\ (home'[n] = home[n] \/ home'[n] = [home[n] EXCEPT !.linked = TRUE])
  BY <1>1 DEF TypeOK
<1> QED BY <1>2, <1>3 DEF Files

LEMMA HomeStep ==
  ASSUME TypeOK, HomeInv, CreateInv, EntryInv, [Next]_vars
  PROVE  HomeInv'
<1> USE DEF TypeOK, HomeInv, HomeNames, Files
<1>1. CASE UNCHANGED vars
  BY <1>1 DEF vars
<1>2. CASE PowerLoss
  <2>1. PICK gone \in SUBSET HomeNames, torn \in SUBSET {"plan"},
             lost \in SUBSET DOMAIN entries, ripped \in SUBSET DOMAIN entries :
          LossOf(gone, torn, lost, ripped)
    BY <1>2, LossShape
  <2> DEFINE left == Left(gone)
  <2>2. /\ left \subseteq HomeNames
        /\ "snapshots" \in left => "transaction" \in left
        /\ \A n \in left : home[n].there
    BY DEF Left
  <2>3. \A n \in HomeNames :
          home'[n] = IF n \in left THEN AfterLoss(home[n], n \in torn) ELSE NoFile
    BY <2>1 DEF LossOf
  <2>4. \A n \in left : /\ home'[n].there /\ home'[n].synced
                        /\ home[n].good /\ n # "plan" => home'[n].good
    <3> SUFFICES ASSUME NEW n \in left
                 PROVE  /\ home'[n].there /\ home'[n].synced
                        /\ home[n].good /\ n # "plan" => home'[n].good
      OBVIOUS
    <3>1. home'[n] = AfterLoss(home[n], n \in torn) /\ home[n] \in Files
      BY <2>2, <2>3
    <3>2. /\ AfterLoss(home[n], n \in torn).there = home[n].there
          /\ AfterLoss(home[n], n \in torn).synced
          /\ home[n].good /\ n \notin torn => AfterLoss(home[n], n \in torn).good
      BY ONLY <3>1, LossOfFile
    <3> QED BY <2>1, <2>2, <3>1, <3>2
  <2>5. \A n \in HomeNames \ left : ~home'[n].there /\ ~home'[n].good
    BY <2>3 DEF NoFile
  <2>6. DOMAIN entries' # {} => "snapshots" \in left
    BY <2>1 DEF LossOf
  <2> HIDE DEF left
  <2> QED BY <2>2, <2>4, <2>5, <2>6
<1>3. ASSUME NEW c \in Callers, Quiet(c)
      PROVE  HomeInv'
  BY <1>3, QuietFrame
<1>4. ASSUME NEW c \in Callers, Writes(c)
      PROVE  HomeInv'
  <2>1. CASE StartCreate(c)
    BY <2>1 DEF StartCreate, Made
  <2>2. CASE StartAppend(c) \/ Acknowledge(c)
    BY <2>2 DEF StartAppend, Acknowledge
  <2>3. CASE MakeSnapshots(c)
    BY <2>3 DEF MakeSnapshots, Made, CreateInv, CreatePCs
  <2>4. CASE OpenPlan(c)
    BY <2>4 DEF OpenPlan, PlanStep, TornFile, CreateInv, CreatePCs
  <2>5. CASE WritePlan(c) \/ SyncPlan(c)
    <3>1. /\ home["plan"].there /\ DOMAIN entries = {} /\ entries' = entries
          /\ home'["plan"].there
          /\ \A n \in HomeNames : n # "plan" => home'[n] = home[n]
      BY <2>5 DEF WritePlan, SyncPlan, PlanStep, CreateInv, CreatePCs
    <3> QED BY <3>1
  <2>6. CASE OpenEntry(c)
    BY <2>6 DEF OpenEntry, EntryInv, EntryAt, EntryPCs
  <2>7. CASE WriteEntry(c) \/ SyncEntry(c) \/ SyncSnapshots(c)
    BY <2>7 DEF WriteEntry, SyncEntry, SyncSnapshots
  <2>8. CASE SyncTransaction(c) \/ SyncRoot(c)
    BY <2>8, LinkFrame
  <2> QED BY <1>4, <2>1, <2>2, <2>3, <2>4, <2>5, <2>6, <2>7, <2>8
          DEF Writes, Starts, PlanWrites, EntryWrites
<1> QED BY <1>1, <1>2, <1>3, <1>4, QuietOrWrites

LEMMA CreateStep ==
  ASSUME TypeOK, LockInv, HomeInv, CreateInv, AckedIsDurable, [Next]_vars
  PROVE  CreateInv'
<1> USE DEF TypeOK, CreateInv, HomeInv, CreatePCs, WritePCs, HomeNames, Files
<1>1. CASE UNCHANGED vars
  BY <1>1 DEF vars
<1>2. CASE PowerLoss
  BY <1>2 DEF PowerLoss
<1>3. ASSUME NEW c \in Callers, Quiet(c)
      PROVE  CreateInv'
  BY <1>3, QuietFrame
<1>4. ASSUME NEW c \in Callers, Writes(c)
      PROVE  CreateInv'
  <2> SUFFICES ASSUME pc'[c] \in CreatePCs
               PROVE  /\ acks' = {} /\ DOMAIN entries' = {}
                      /\ home'["transaction"].there
                      /\ pc'[c] # "mkdir" => home'["snapshots"].there
                      /\ pc'[c] \in {"planWrite", "planSync"} => home'["plan"].there
                      /\ pc'[c] = "planSync" => home'["plan"].good
    BY <1>4, WritesFrame
  <2>1. CASE StartCreate(c)
    BY <2>1 DEF StartCreate, Made, Goto, AckedIsDurable
  <2>2. CASE StartAppend(c) \/ Acknowledge(c)
    BY <2>2 DEF StartAppend, Acknowledge, Goto, Release
  <2>3. CASE MakeSnapshots(c)
    BY <2>3 DEF MakeSnapshots, Made, Goto
  <2>4. CASE OpenPlan(c)
    BY <2>4 DEF OpenPlan, PlanStep, TornFile, Goto
  <2>5. CASE WritePlan(c)
    BY <2>5 DEF WritePlan, PlanStep, Goto
  <2>6. CASE SyncPlan(c)
    BY <2>6 DEF SyncPlan, PlanStep, Goto
  <2>7. CASE EntryWrites(c)
    BY <2>7, EntryWritesMove DEF OpenedPCs
  <2> QED BY <1>4, <2>1, <2>2, <2>3, <2>4, <2>5, <2>6, <2>7
          DEF Writes, Starts, PlanWrites
<1> QED BY <1>1, <1>2, <1>3, <1>4, QuietOrWrites

-----------------------------------------------------------------------------
(***************************************************************************)
(* The record at work is the last one, and how far it has come.            *)
(***************************************************************************)
LEMMA OpenEntryShape ==
  ASSUME TypeOK, CallInv, EntryInv, NEW c \in Callers, OpenEntry(c)
  PROVE  /\ Count \in Nat /\ DOMAIN entries = 0 .. Count - 1
         /\ DOMAIN entries' = 0 .. Count /\ Count' = Count + 1
         /\ \A i \in DOMAIN entries : entries'[i] = entries[i]
         /\ entries'[Count] = Entry(call[c].successor, call[c].expected, FALSE)
         /\ Count = 0 => call[c].expected = {}
         /\ Count > 0 => /\ call[c].expected = {Tip}
                         /\ Earlier(Tip, call[c].successor)
<1>1. pc[c] = "entryOpen" /\ EntryAt(c)
  BY DEF OpenEntry, EntryInv, EntryPCs
<1>2. Count \in Nat /\ DOMAIN entries = 0 .. Count - 1
  BY <1>1 DEF EntryAt, Contiguous
<1>3. /\ DOMAIN entries' = 0 .. Count
      /\ \A i \in DOMAIN entries : entries'[i] = entries[i]
      /\ entries'[Count] =
           Entry(call[c].successor,
                 IF Count = 0 THEN {} ELSE {entries[Count - 1].snap}, FALSE)
  <2>1. entries' = [i \in 0 .. Count |->
          IF i < Count THEN entries[i]
          ELSE Entry(call[c].successor,
                     IF Count = 0 THEN {} ELSE {entries[Count - 1].snap}, FALSE)]
    BY DEF OpenEntry
  <2>2. Count \in 0 .. Count /\ ~(Count < Count)
    BY <1>2
  <2>3. \A i \in DOMAIN entries : i \in 0 .. Count /\ i < Count
    BY <1>2
  <2> QED BY <2>1, <2>2, <2>3
<1>4. Count' = Count + 1
  BY <1>2, <1>3, FS_Interval DEF Count
<1>5. /\ Count = 0 => call[c].expected = {}
      /\ Count > 0 => /\ call[c].expected = {Tip}
                      /\ Earlier(Tip, call[c].successor)
  BY <1>1, <1>2 DEF EntryAt, CallInv
<1>6. call[c].expected = IF Count = 0 THEN {} ELSE {entries[Count - 1].snap}
  <2>1. CASE Count = 0
    BY <1>5, <2>1
  <2>2. CASE Count > 0
    <3>1. Count # 0
      BY <1>2, <2>2
    <3> QED BY <1>5, <2>2, <3>1 DEF Tip
  <2> QED BY <1>2, <2>1, <2>2
<1> QED BY <1>2, <1>3, <1>4, <1>5, <1>6

\* A step on the last record changes nothing but its bits.
LEMMA RecordStep ==
  ASSUME TypeOK, EntryInv, NEW c \in Callers,
         WriteEntry(c) \/ SyncEntry(c) \/ SyncSnapshots(c)
  PROVE  /\ EntryAt(c) /\ pc[c] \in OpenedPCs
         /\ home' = home /\ acks' = acks
         /\ DOMAIN entries' = DOMAIN entries /\ Count' = Count
         /\ \A i \in DOMAIN entries :
              /\ entries'[i].snap = entries[i].snap
              /\ entries'[i].after = entries[i].after
              /\ entries[i].good => entries'[i].good
              /\ entries[i].synced => entries'[i].synced
              /\ entries[i].linked => entries'[i].linked
<1>1. EntryAt(c) /\ pc[c] \in OpenedPCs
  BY DEF WriteEntry, SyncEntry, SyncSnapshots, EntryInv, EntryPCs, OpenedPCs
<1>2. \A i \in DOMAIN entries : entries[i] \in EntryStates
  BY DEF TypeOK
<1>3. Count - 1 \in DOMAIN entries
  BY <1>1 DEF EntryAt, Contiguous
<1>4. CASE WriteEntry(c)
  BY <1>1, <1>2, <1>3, <1>4 DEF WriteEntry, Count, EntryStates
<1>5. CASE SyncEntry(c)
  BY <1>1, <1>2, <1>3, <1>5 DEF SyncEntry, Count, EntryStates
<1>6. CASE SyncSnapshots(c)
  BY <1>1, <1>2, <1>6 DEF SyncSnapshots, Count, EntryStates
<1> QED BY <1>4, <1>5, <1>6

LEMMA TipTyped ==
  ASSUME TypeOK, Readable
  PROVE  /\ Count - 1 \in DOMAIN entries /\ Tip \in Snapshots
         /\ Count \in Nat /\ Count > 0
<1>1. Count \in Nat
  BY FS_CardinalityType DEF TypeOK, Count
<1>2. Count - 1 \in DOMAIN entries /\ Count > 0
  BY <1>1 DEF Readable
<1>3. entries[Count - 1] \in EntryStates
  BY <1>2 DEF TypeOK
<1> QED BY <1>1, <1>2, <1>3 DEF Tip, EntryStates

LEMMA EntryStep ==
  ASSUME TypeOK, LockInv, CallInv, HomeInv, CreateInv, EntryInv,
         AckedIsDurable, [Next]_vars
  PROVE  EntryInv'
<1>1. CASE UNCHANGED vars
  BY <1>1 DEF vars, EntryInv, EntryAt, Contiguous, Count, Tip
<1>2. CASE PowerLoss
  BY <1>2 DEF PowerLoss, EntryInv, EntryPCs, OpenedPCs
<1>3. ASSUME NEW c \in Callers, Quiet(c)
      PROVE  EntryInv'
  <2> SUFFICES ASSUME NEW d \in Callers, pc'[d] \in EntryPCs
               PROVE  EntryAt(d)'
    BY DEF EntryInv
  <2>1. /\ home' = home /\ entries' = entries /\ acks' = acks
        /\ pc'[d] = pc[d] /\ call'[d] = call[d]
    BY <1>3, QuietFrame DEF EntryPCs, OpenedPCs, WritePCs
  <2> QED BY <2>1 DEF EntryInv, EntryAt, Contiguous, Count, Tip
<1>4. ASSUME NEW c \in Callers, Writes(c)
      PROVE  EntryInv'
  <2> SUFFICES ASSUME pc'[c] \in EntryPCs
               PROVE  EntryAt(c)'
    BY <1>4, WritesFrame DEF EntryInv, EntryPCs, OpenedPCs, WritePCs
  <2>0. call' = call
    BY <1>4, WritesFrame
  <2>1. CASE StartCreate(c) \/ MakeSnapshots(c) \/ OpenPlan(c) \/ WritePlan(c) \/ Acknowledge(c)
    BY <2>1 DEF StartCreate, MakeSnapshots, OpenPlan, WritePlan, PlanStep,
       Acknowledge, Release, Goto, EntryPCs, OpenedPCs, TypeOK
  <2>2. CASE SyncPlan(c)
    <3>1. /\ pc[c] = "planSync" /\ pc'[c] = "entryOpen"
          /\ entries' = entries
          /\ home' = [home EXCEPT !["plan"] = [home["plan"] EXCEPT !.synced = TRUE]]
      BY <2>2 DEF SyncPlan, PlanStep, Goto, TypeOK
    <3>2. DOMAIN entries = {} /\ call[c].op = "create"
      BY <3>1 DEF CreateInv, CallInv, CreatePCs
    <3>3. \A n \in HomeNames : home'[n].there /\ home'[n].good /\ home'[n].synced
      BY <3>1 DEF CreateInv, CreatePCs, HomeInv, HomeNames, TypeOK, Files
    <3>4. Count' = 0 /\ Contiguous'
      BY <3>1, <3>2, FS_EmptySet DEF Count, Contiguous
    <3> QED BY <2>0, <3>1, <3>2, <3>3, <3>4 DEF EntryAt, OpenedPCs
  <2>3. CASE StartAppend(c)
    <3>1. /\ Readable /\ pc'[c] = "entryOpen" /\ call[c].op = "append"
          /\ call[c].expected = {Tip} /\ call[c].successor # Tip
          /\ Transition(Tip, call[c].successor)
          /\ home' = home /\ entries' = entries /\ acks' = acks
      BY <2>3 DEF StartAppend, AppendAllowed, Goto, TypeOK
    <3>2. Contiguous /\ Count > 0 /\ Tip \in Snapshots
      BY <3>1, TipTyped DEF Readable, Contiguous
    <3>3. Earlier(Tip, call[c].successor)
      BY <3>1, <3>2, TransitionAdvances DEF TypeOK, Calls
    <3>4. \A n \in HomeNames : home[n].there /\ home[n].good /\ home[n].synced
      BY <3>1, <3>2, TipTyped DEF Readable, HomeInv, HomeNames
    <3> QED BY <2>0, <3>1, <3>2, <3>3, <3>4
            DEF EntryAt, Contiguous, Count, Tip, OpenedPCs
  <2>4. CASE OpenEntry(c)
    <3>1. pc'[c] = "entryWrite" /\ EntryAt(c) /\ home' = home /\ acks' = acks
      BY <2>4 DEF OpenEntry, Goto, EntryInv, EntryPCs, TypeOK
    <3>2. /\ Count \in Nat /\ DOMAIN entries = 0 .. Count - 1
          /\ DOMAIN entries' = 0 .. Count /\ Count' = Count + 1
          /\ entries'[Count] = Entry(call[c].successor, call[c].expected, FALSE)
      BY <2>4, OpenEntryShape
    <3>3. \A a \in acks' : a.at < Count
      BY <3>1, <3>2 DEF AckedIsDurable
    <3>4. Count' - 1 = Count /\ Count' > 0 /\ Contiguous'
      BY <3>2 DEF Contiguous
    <3>5. Tip' = call[c].successor /\ entries'[Count' - 1].after = call[c].expected
      BY <3>2, <3>4 DEF Tip, Entry
    <3> QED BY <2>0, <3>1, <3>3, <3>4, <3>5 DEF EntryAt, OpenedPCs
  <2>5. CASE WriteEntry(c) \/ SyncEntry(c) \/ SyncSnapshots(c)
    <3>1. /\ Count' = Count /\ Contiguous' /\ Count > 0 /\ Count - 1 \in DOMAIN entries
          /\ home' = home /\ acks' = acks /\ EntryAt(c)
          /\ pc[c] \in OpenedPCs
      BY <2>5, RecordStep DEF EntryAt, Contiguous
    <3>2. Tip' = Tip /\ entries'[Count - 1].after = entries[Count - 1].after
      BY <2>5, <3>1, RecordStep DEF Tip
    <3>3. pc'[c] # "entryOpen" /\ pc'[c] \notin {"syncRoot", "reload"}
      BY <2>5 DEF WriteEntry, SyncEntry, SyncSnapshots, Goto, TypeOK
    <3>4. pc'[c] \in {"syncSnapshots", "syncTransaction"} => entries'[Count - 1].synced
      <4>1. CASE WriteEntry(c)
        BY <4>1 DEF WriteEntry, Goto, TypeOK
      <4>2. CASE SyncEntry(c)
        BY <3>1, <4>2 DEF SyncEntry, TypeOK, EntryStates
      <4>3. CASE SyncSnapshots(c)
        BY <3>1, <4>3, RecordStep DEF SyncSnapshots, EntryAt
      <4> QED BY <2>5, <4>1, <4>2, <4>3
    <3>5. pc'[c] = "syncTransaction" => \A i \in DOMAIN entries' : entries'[i].linked
      <4>1. CASE WriteEntry(c) \/ SyncEntry(c)
        BY <4>1 DEF WriteEntry, SyncEntry, Goto, TypeOK
      <4>2. CASE SyncSnapshots(c)
        BY <4>2 DEF SyncSnapshots, TypeOK, EntryStates
      <4> QED BY <2>5, <4>1, <4>2
    <3> QED BY <2>0, <3>1, <3>2, <3>3, <3>4, <3>5 DEF EntryAt
  <2>6. CASE SyncTransaction(c) \/ SyncRoot(c)
    <3>1. /\ EntryAt(c) /\ pc[c] \in {"syncTransaction", "syncRoot"}
          /\ pc'[c] = IF pc[c] = "syncTransaction" THEN "syncRoot" ELSE "reload"
      BY <2>6 DEF SyncTransaction, SyncRoot, LinkHome, Goto, EntryInv, EntryPCs,
         OpenedPCs, TypeOK
    <3>2. /\ pc[c] = "syncTransaction" => home'["plan"].linked /\ home'["snapshots"].linked
          /\ pc[c] = "syncRoot" => home'["transaction"].linked
      BY <2>6 DEF SyncTransaction, SyncRoot, LinkHome, HomeNames, TypeOK, Files
    <3>3. /\ entries' = entries /\ acks' = acks
          /\ \A n \in HomeNames : /\ home'[n].there /\ home'[n].good /\ home'[n].synced
                                  /\ home[n].linked => home'[n].linked
      BY <2>6, <3>1, LinkFrame DEF EntryAt
    <3> QED BY <2>0, <3>1, <3>2, <3>3
            DEF EntryAt, Contiguous, Count, Tip, OpenedPCs, HomeNames
  <2> QED BY <1>4, <2>1, <2>2, <2>3, <2>4, <2>5, <2>6
          DEF Writes, Starts, PlanWrites, EntryWrites
<1> QED BY <1>1, <1>2, <1>3, <1>4, QuietOrWrites

-----------------------------------------------------------------------------
(***************************************************************************)
(* The chain of records only ever advances.                                *)
(***************************************************************************)
\* A power loss keeps the content of every record it keeps.
LEMMA LossKeepsRecords ==
  ASSUME TypeOK, PowerLoss
  PROVE  /\ acks' = acks /\ DOMAIN entries' \subseteq DOMAIN entries
         /\ \A i \in DOMAIN entries' : /\ entries'[i].snap = entries[i].snap
                                       /\ entries'[i].after = entries[i].after
<1>1. PICK gone \in SUBSET HomeNames, torn \in SUBSET {"plan"},
           lost \in SUBSET DOMAIN entries, ripped \in SUBSET DOMAIN entries :
        LossOf(gone, torn, lost, ripped)
  BY LossShape
<1>2. /\ DOMAIN entries' \subseteq DOMAIN entries
      /\ \A i \in DOMAIN entries' : entries'[i] = AfterLoss(entries[i], i \in ripped)
  BY <1>1 DEF LossOf
<1>3. \A i \in DOMAIN entries' : entries[i] \in EntryStates
  BY <1>2 DEF TypeOK
<1>4. \A i \in DOMAIN entries' : /\ entries'[i].snap = entries[i].snap
                                 /\ entries'[i].after = entries[i].after
  <2> TAKE i \in DOMAIN entries'
  <2>1. entries[i] \in EntryStates
    BY <1>3
  <2>2. /\ AfterLoss(entries[i], i \in ripped).snap = entries[i].snap
        /\ AfterLoss(entries[i], i \in ripped).after = entries[i].after
    BY ONLY <2>1 DEF AfterLoss, EntryStates
  <2> QED BY <1>2, <2>2
<1> QED BY <1>2, <1>4 DEF PowerLoss

LEMMA OrderMeansEarlier ==
  ASSUME TypeOK, OrderInv,
         NEW i \in DOMAIN entries, NEW j \in DOMAIN entries, i < j
  PROVE  Earlier(entries[i].snap, entries[j].snap)
<1>1. entries[i].snap \in Snapshots /\ entries[j].snap \in Snapshots
  BY DEF TypeOK, EntryStates
<1>2. PICK s \in Snapshots :
        /\ Earlier(s, entries[j].snap)
        /\ s = entries[i].snap \/ Earlier(entries[i].snap, s)
  BY DEF OrderInv, TypeOK, EntryStates
<1> QED BY <1>1, <1>2, EarlierTransitive

LEMMA OrderStep ==
  ASSUME TypeOK, CallInv, EntryInv, OrderInv, [Next]_vars
  PROVE  OrderInv'
<1>1. CASE UNCHANGED vars
  BY <1>1 DEF vars, OrderInv
<1>2. CASE PowerLoss
  BY <1>2, LossKeepsRecords DEF OrderInv
<1>3. ASSUME NEW c \in Callers, Quiet(c)
      PROVE  OrderInv'
  BY <1>3, QuietFrame DEF OrderInv
<1>4. ASSUME NEW c \in Callers, Writes(c)
      PROVE  OrderInv'
  <2>1. CASE Starts(c) \/ PlanWrites(c) \/ Acknowledge(c)
    BY <2>1 DEF OrderInv, Starts, StartCreate, StartAppend, PlanWrites, MakeSnapshots,
       OpenPlan, WritePlan, SyncPlan, PlanStep, Acknowledge
  <2>2. CASE OpenEntry(c)
    <3>1. /\ Count \in Nat /\ DOMAIN entries = 0 .. Count - 1
          /\ DOMAIN entries' = 0 .. Count
          /\ \A i \in DOMAIN entries : entries'[i] = entries[i]
          /\ entries'[Count] = Entry(call[c].successor, call[c].expected, FALSE)
          /\ Count > 0 => /\ call[c].expected = {Tip}
                          /\ Earlier(Tip, call[c].successor)
      BY <2>2, OpenEntryShape
    <3>2. /\ entries'[Count].snap = call[c].successor
          /\ entries'[Count].after = call[c].expected
          /\ \A s \in call[c].expected : Earlier(s, call[c].successor)
      <4>1. Count = 0 \/ Count > 0
        BY <3>1
      <4> QED BY <2>2, <3>1, <4>1, OpenEntryShape DEF Entry
    <3>3. \A j \in DOMAIN entries' : j \in DOMAIN entries \/ j = Count
      BY <3>1
    <3>4. \A j \in DOMAIN entries' : \A s \in entries'[j].after :
            Earlier(s, entries'[j].snap)
      BY <3>1, <3>2, <3>3 DEF OrderInv
    <3>5. ASSUME NEW i \in DOMAIN entries', NEW j \in DOMAIN entries', i < j
          PROVE  \E s \in entries'[j].after :
                   s = entries'[i].snap \/ Earlier(entries'[i].snap, s)
      <4>1. i \in DOMAIN entries /\ Count > 0 /\ Count - 1 \in DOMAIN entries
        BY <3>1, <3>5
      <4>2. CASE j \in DOMAIN entries
        BY <3>1, <3>5, <4>1, <4>2 DEF OrderInv
      <4>3. CASE j = Count
        <5>1. i = Count - 1 \/ i < Count - 1
          BY <3>1, <3>5, <4>1, <4>3
        <5>2. Tip = entries[i].snap \/ Earlier(entries[i].snap, Tip)
          BY <4>1, <5>1, OrderMeansEarlier DEF Tip
        <5>3. Tip \in entries'[j].after /\ entries'[i] = entries[i]
          BY <3>1, <3>2, <4>1, <4>3
        <5> QED BY <4>3, <5>2, <5>3
      <4> QED BY <3>3, <4>2, <4>3
    <3> QED BY <3>4, <3>5 DEF OrderInv
  <2>3. CASE WriteEntry(c) \/ SyncEntry(c) \/ SyncSnapshots(c)
    BY <2>3, RecordStep DEF OrderInv
  <2>4. CASE SyncTransaction(c) \/ SyncRoot(c)
    BY <2>4, LinkFrame DEF OrderInv
  <2> QED BY <1>4, <2>1, <2>2, <2>3, <2>4 DEF Writes, EntryWrites
<1> QED BY <1>1, <1>2, <1>3, <1>4, QuietOrWrites

-----------------------------------------------------------------------------
(***************************************************************************)
(* What is acknowledged is on disk, and says what it was written over.     *)
(***************************************************************************)
Ack(c) == [by |-> c, at |-> Count - 1, snap |-> Tip, over |-> call[c].expected]

LEMMA AcknowledgeShape ==
  ASSUME TypeOK, EntryInv, NEW c \in Callers, Acknowledge(c)
  PROVE  /\ home' = home /\ entries' = entries /\ acks' = acks \cup {Ack(c)}
         /\ Count - 1 \in DOMAIN entries
         /\ entries[Count - 1].after = call[c].expected
         /\ entries[Count - 1].good /\ entries[Count - 1].synced
         /\ entries[Count - 1].linked
         /\ \A n \in HomeNames : home[n].good /\ home[n].synced /\ home[n].linked
         /\ \A a \in acks : a.at < Count - 1
<1>1. pc[c] = "reload" /\ EntryAt(c) /\ Readable
  BY DEF Acknowledge, EntryInv, EntryPCs, OpenedPCs
<1>2. Count - 1 \in DOMAIN entries
  BY <1>1, TipTyped
<1>3. home' = home /\ entries' = entries /\ acks' = acks \cup {Ack(c)}
  BY DEF Acknowledge, Ack
<1>4. entries[Count - 1].good
  BY <1>1, <1>2 DEF Readable
<1>5. /\ entries[Count - 1].after = call[c].expected
      /\ entries[Count - 1].synced /\ entries[Count - 1].linked
      /\ \A a \in acks : a.at < Count - 1
      /\ \A n \in HomeNames : home[n].good /\ home[n].synced /\ home[n].linked
  BY <1>1, <1>2 DEF EntryAt, OpenedPCs, HomeNames
<1> QED BY <1>2, <1>3, <1>4, <1>5

LEMMA AckStep ==
  ASSUME TypeOK, CallInv, EntryInv, AckInv, AckedIsDurable, [Next]_vars
  PROVE  AckInv'
<1>1. CASE UNCHANGED vars
  BY <1>1 DEF vars, AckInv
<1>2. CASE PowerLoss
  BY <1>2, LossKeepsRecords DEF AckInv
<1>3. ASSUME NEW c \in Callers, Quiet(c)
      PROVE  AckInv'
  BY <1>3, QuietFrame DEF AckInv
<1>4. ASSUME NEW c \in Callers, Writes(c)
      PROVE  AckInv'
  <2>1. CASE Starts(c) \/ PlanWrites(c)
    BY <2>1 DEF AckInv, Starts, StartCreate, StartAppend, PlanWrites, MakeSnapshots,
       OpenPlan, WritePlan, SyncPlan, PlanStep
  <2>2. CASE OpenEntry(c)
    <3>1. /\ acks' = acks
          /\ \A i \in DOMAIN entries : entries'[i] = entries[i]
      BY <2>2, OpenEntryShape DEF OpenEntry
    <3> QED BY <3>1 DEF AckInv, AckedIsDurable
  <2>3. CASE WriteEntry(c) \/ SyncEntry(c) \/ SyncSnapshots(c)
    BY <2>3, RecordStep DEF AckInv
  <2>4. CASE SyncTransaction(c) \/ SyncRoot(c)
    BY <2>4, LinkFrame DEF AckInv
  <2>5. CASE Acknowledge(c)
    <3>1. /\ entries' = entries /\ acks' = acks \cup {Ack(c)}
          /\ entries[Count - 1].after = call[c].expected
          /\ \A a \in acks : a.at < Count - 1
      BY <2>5, AcknowledgeShape
    <3>2. /\ Ack(c).at = Count - 1 /\ Ack(c).over = call[c].expected
          /\ \A a \in acks : a.at # Count - 1
      BY <3>1 DEF Ack, TypeOK
    <3> QED BY <3>1, <3>2 DEF AckInv
  <2> QED BY <1>4, <2>1, <2>2, <2>3, <2>4, <2>5 DEF Writes, EntryWrites
<1> QED BY <1>1, <1>2, <1>3, <1>4, QuietOrWrites

LEMMA DurableStep ==
  ASSUME TypeOK, HomeInv, CreateInv, CallInv, EntryInv, AckedIsDurable, [Next]_vars
  PROVE  AckedIsDurable'
<1>1. CASE UNCHANGED vars
  BY <1>1 DEF vars, AckedIsDurable
<1>2. CASE PowerLoss
  <2>1. PICK gone \in SUBSET HomeNames, torn \in SUBSET {"plan"},
             lost \in SUBSET DOMAIN entries, ripped \in SUBSET DOMAIN entries :
          LossOf(gone, torn, lost, ripped)
    BY <1>2, LossShape
  <2> SUFFICES ASSUME NEW a \in acks
               PROVE  /\ a.at \in DOMAIN entries'
                      /\ entries'[a.at].snap = a.snap /\ entries'[a.at].good
                      /\ entries'[a.at].synced /\ entries'[a.at].linked
                      /\ \A n \in HomeNames :
                           home'[n].good /\ home'[n].synced /\ home'[n].linked
    BY <1>2, LossKeepsRecords DEF AckedIsDurable
  <2>2. /\ a.at \in DOMAIN entries /\ entries[a.at] \in EntryStates
        /\ entries[a.at].snap = a.snap /\ entries[a.at].good
        /\ a.at \notin lost /\ a.at \notin ripped
        /\ gone = {} /\ torn = {}
        /\ \A n \in HomeNames : home[n].good /\ home[n].there /\ home[n] \in Files
    BY <2>1 DEF AckedIsDurable, LossOf, HomeInv, TypeOK, HomeNames
  <2>3. Left(gone) = HomeNames
    BY <2>2 DEF Left
  <2>4. \A n \in HomeNames : home'[n] = AfterLoss(home[n], n \in torn)
    BY <2>1, <2>3 DEF LossOf
  <2>5. \A n \in HomeNames : home'[n].good /\ home'[n].synced /\ home'[n].linked
    <3> TAKE n \in HomeNames
    <3>1. home[n] \in Files /\ home[n].good /\ n \notin torn
      BY <2>2
    <3>2. /\ AfterLoss(home[n], n \in torn).good
          /\ AfterLoss(home[n], n \in torn).synced
          /\ AfterLoss(home[n], n \in torn).linked
      BY ONLY <3>1, LossOfFile
    <3> QED BY <2>4, <3>2
  <2>6. /\ a.at \in DOMAIN entries'
        /\ entries'[a.at] = AfterLoss(entries[a.at], a.at \in ripped)
    BY <2>1, <2>2, <2>3 DEF LossOf, HomeNames
  <2>7. /\ AfterLoss(entries[a.at], a.at \in ripped).snap = entries[a.at].snap
        /\ AfterLoss(entries[a.at], a.at \in ripped).good
        /\ AfterLoss(entries[a.at], a.at \in ripped).synced
        /\ AfterLoss(entries[a.at], a.at \in ripped).linked
    BY ONLY <2>2, LossOfEntry
  <2> QED BY <2>2, <2>5, <2>6, <2>7
<1>3. ASSUME NEW c \in Callers, Quiet(c)
      PROVE  AckedIsDurable'
  BY <1>3, QuietFrame DEF AckedIsDurable
<1>4. ASSUME NEW c \in Callers, Writes(c)
      PROVE  AckedIsDurable'
  <2>1. CASE StartCreate(c)
    BY <2>1 DEF StartCreate, AckedIsDurable, HomeInv, HomeNames
  <2>2. CASE StartAppend(c)
    BY <2>2 DEF StartAppend, AckedIsDurable
  <2>3. CASE PlanWrites(c)
    <3>1. acks = {} /\ acks' = acks
      BY <2>3 DEF PlanWrites, MakeSnapshots, OpenPlan, WritePlan, SyncPlan, PlanStep,
         CreateInv, CreatePCs
    <3> QED BY <3>1 DEF AckedIsDurable
  <2>4. CASE OpenEntry(c)
    <3>1. /\ acks' = acks /\ home' = home
          /\ \A i \in DOMAIN entries : i \in DOMAIN entries' /\ entries'[i] = entries[i]
      <4>1. /\ Count \in Nat /\ DOMAIN entries = 0 .. Count - 1
            /\ DOMAIN entries' = 0 .. Count
            /\ \A i \in DOMAIN entries : entries'[i] = entries[i]
        BY <2>4, OpenEntryShape
      <4>2. acks' = acks /\ home' = home
        BY <2>4 DEF OpenEntry
      <4> QED BY <4>1, <4>2
    <3> QED BY <3>1 DEF AckedIsDurable
  <2>5. CASE WriteEntry(c) \/ SyncEntry(c) \/ SyncSnapshots(c)
    BY <2>5, RecordStep DEF AckedIsDurable
  <2>6. CASE SyncTransaction(c) \/ SyncRoot(c)
    BY <2>6, LinkFrame DEF AckedIsDurable
  <2>7. CASE Acknowledge(c)
    <3>1. Ack(c).at = Count - 1 /\ Ack(c).snap = entries[Count - 1].snap
      BY DEF Ack, Tip
    <3> QED BY <2>7, <3>1, AcknowledgeShape DEF AckedIsDurable
  <2> QED BY <1>4, <2>1, <2>2, <2>3, <2>4, <2>5, <2>6, <2>7
          DEF Writes, Starts, EntryWrites
<1> QED BY <1>1, <1>2, <1>3, <1>4, QuietOrWrites

-----------------------------------------------------------------------------
(***************************************************************************)
(* Types.                                                                  *)
(***************************************************************************)
LEMMA PreparedTyped == PreparedTransaction \in Snapshots
BY DEF PreparedTransaction, Snapshots, TransactionStates, FileProgressStates

\* The part of TypeOK that talks about the callers, and the part about disk.
CallersTyped ==
  /\ held \in [Callers -> {"none", "SH", "EX"}]
  /\ pc \in [Callers -> PCs]
  /\ call \in [Callers -> Calls]
  /\ seen \in [Callers -> SUBSET Snapshots]
  /\ spent \in [calls : Nat, crashes : Nat, losses : Nat]

EntriesTyped ==
  /\ DOMAIN entries \subseteq Nat /\ IsFiniteSet(DOMAIN entries)
  /\ entries \in [DOMAIN entries -> EntryStates]

HistoryTyped ==
  /\ acks \subseteq [by : Callers, at : Nat, snap : Snapshots, over : SUBSET Snapshots]
  /\ told \subseteq Nat \X Snapshots
  /\ settled \in Seq(Snapshots)

LEMMA CallersTypedStep ==
  ASSUME TypeOK, [Next]_vars
  PROVE  CallersTyped'
<1> USE DEF TypeOK, CallersTyped, PCs, WritePCs
<1>1. CASE UNCHANGED vars
  BY <1>1 DEF vars
<1>2. CASE PowerLoss
  <2>1. spent' \in [calls : Nat, crashes : Nat, losses : Nat]
    <3>1. spent' = [spent EXCEPT !.losses = @ + 1]
      BY <1>2 DEF PowerLoss
    <3>2. /\ spent \in [calls : Nat, crashes : Nat, losses : Nat]
          /\ spent.losses + 1 \in Nat
      OBVIOUS
    <3> QED BY <3>1, <3>2
  <2>2. /\ held' = [c \in Callers |-> "none"] /\ pc' = [c \in Callers |-> "idle"]
        /\ seen' = [c \in Callers |-> {}] /\ call' = call
    BY <1>2 DEF PowerLoss
  <2> QED BY <2>1, <2>2
<1>3. ASSUME NEW c \in Callers, Begin(c)
      PROVE  CallersTyped'
  <2>1. /\ call' \in [Callers -> Calls]
    <3>1. PICK what \in {CreateCall, LoadCall} \cup
                  {AppendCall(seen[c], u) : u \in {t \in Snapshots :
                                     seen[c] # {} /\ ValidTransaction(t)}} :
            call' = [call EXCEPT ![c] = what]
      BY <1>3 DEF Begin
    <3>2. what \in Calls
      BY <3>1, PreparedTyped DEF CreateCall, LoadCall, AppendCall, Calls
    <3> QED BY <3>1, <3>2
  <2> QED BY <1>3, <2>1 DEF Begin, Goto
<1>4. ASSUME NEW c \in Callers, Acquire(c) \/ Refuse(c) \/ Raise(c) \/ Crash(c)
      PROVE  CallersTyped'
  <2>1. CASE Acquire(c)
    BY <2>1 DEF Acquire
  <2>2. CASE Refuse(c) \/ Raise(c)
    BY <2>2 DEF Refuse, Raise, Release
  <2>3. CASE Crash(c)
    <3>1. spent' \in [calls : Nat, crashes : Nat, losses : Nat]
      BY <2>3 DEF Crash
    <3> QED BY <2>3, <3>1 DEF Crash, Release
  <2> QED BY <1>4, <2>1, <2>2, <2>3
<1>5. ASSUME NEW c \in Callers, ReturnLoaded(c) \/ Acknowledge(c)
      PROVE  CallersTyped'
  <2>1. Tip \in Snapshots
    BY <1>5, TipTyped DEF ReturnLoaded, Acknowledge
  <2>2. /\ seen' = [seen EXCEPT ![c] = {Tip}]
        /\ Release(c) /\ call' = call /\ spent' = spent
    BY <1>5 DEF ReturnLoaded, Acknowledge
  <2>3. seen' \in [Callers -> SUBSET Snapshots]
    BY <2>1, <2>2
  <2> QED BY <2>2, <2>3 DEF Release
<1>6. ASSUME NEW c \in Callers, Starts(c)
      PROVE  CallersTyped'
  BY <1>6 DEF Starts, StartCreate, StartAppend, Goto
<1>7. ASSUME NEW c \in Callers, PlanWrites(c)
      PROVE  CallersTyped'
  BY <1>7 DEF PlanWrites, MakeSnapshots, OpenPlan, WritePlan, SyncPlan, PlanStep, Goto
<1>8. ASSUME NEW c \in Callers, EntryWrites(c)
      PROVE  CallersTyped'
  BY <1>8 DEF EntryWrites, OpenEntry, WriteEntry, SyncEntry, SyncSnapshots,
     SyncTransaction, SyncRoot, LinkHome, Goto
<1> QED BY <1>1, <1>2, <1>3, <1>4, <1>5, <1>6, <1>7, <1>8
        DEF Next, Step, Starts, PlanWrites, EntryWrites

LEMMA HomeTypedStep ==
  ASSUME TypeOK, [Next]_vars
  PROVE  (home \in [HomeNames -> Files])'
<1> USE DEF TypeOK, HomeNames
<1>1. CASE UNCHANGED vars
  BY <1>1 DEF vars
<1>2. CASE PowerLoss
  <2>1. PICK gone \in SUBSET HomeNames, torn \in SUBSET {"plan"},
             lost \in SUBSET DOMAIN entries, ripped \in SUBSET DOMAIN entries :
          LossOf(gone, torn, lost, ripped)
    BY <1>2, LossShape
  <2>2. \A n \in HomeNames : AfterLoss(home[n], n \in torn) \in Files /\ NoFile \in Files
    BY LossOfFile DEF NoFile, Files
  <2> QED BY <2>1, <2>2 DEF LossOf
<1>3. ASSUME NEW c \in Callers, Quiet(c)
      PROVE  (home \in [HomeNames -> Files])'
  BY <1>3, QuietFrame
<1>4. ASSUME NEW c \in Callers, Starts(c) \/ PlanWrites(c)
      PROVE  (home \in [HomeNames -> Files])'
  <2>1. Made \in Files /\ TornFile \in Files
    BY DEF Made, TornFile, Files
  <2>2. /\ [home["plan"] EXCEPT !.good = TRUE] \in Files
        /\ [home["plan"] EXCEPT !.synced = TRUE] \in Files
    BY DEF Files
  <2> QED BY <1>4, <2>1, <2>2 DEF Starts, StartCreate, StartAppend, PlanWrites,
          MakeSnapshots, OpenPlan, WritePlan, SyncPlan, PlanStep
<1>5. ASSUME NEW c \in Callers, EntryWrites(c) \/ Acknowledge(c)
      PROVE  (home \in [HomeNames -> Files])'
  <2>1. \A n \in HomeNames : [home[n] EXCEPT !.linked = TRUE] \in Files
    BY DEF Files
  <2>2. CASE SyncTransaction(c) \/ SyncRoot(c)
    <3>1. PICK names \in SUBSET HomeNames :
            home' = [n \in HomeNames |->
                       IF n \in names THEN [home[n] EXCEPT !.linked = TRUE] ELSE home[n]]
      BY <2>2 DEF SyncTransaction, SyncRoot, LinkHome
    <3> QED BY <2>1, <3>1
  <2>3. CASE OpenEntry(c) \/ WriteEntry(c) \/ SyncEntry(c) \/ SyncSnapshots(c) \/ Acknowledge(c)
    BY <2>3 DEF OpenEntry, WriteEntry, SyncEntry, SyncSnapshots, Acknowledge
  <2> QED BY <1>5, <2>2, <2>3 DEF EntryWrites
<1> QED BY <1>1, <1>2, <1>3, <1>4, <1>5, QuietOrWrites DEF Writes

LEMMA EntriesTypedStep ==
  ASSUME TypeOK, CallInv, EntryInv, [Next]_vars
  PROVE  EntriesTyped'
<1>1. CASE UNCHANGED vars
  BY <1>1 DEF vars, TypeOK, EntriesTyped
<1>2. CASE PowerLoss
  <2>1. PICK gone \in SUBSET HomeNames, torn \in SUBSET {"plan"},
             lost \in SUBSET DOMAIN entries, ripped \in SUBSET DOMAIN entries :
          LossOf(gone, torn, lost, ripped)
    BY <1>2, LossShape
  <2>2. /\ DOMAIN entries' \subseteq DOMAIN entries
        /\ entries' = [i \in DOMAIN entries' |-> AfterLoss(entries[i], i \in ripped)]
    BY <2>1 DEF LossOf
  <2>3. \A i \in DOMAIN entries : AfterLoss(entries[i], i \in ripped) \in EntryStates
    BY LossOfEntry DEF TypeOK
  <2>4. IsFiniteSet(DOMAIN entries')
    BY <2>2, FS_Subset DEF TypeOK
  <2>5. DOMAIN entries' \subseteq Nat
    BY <2>2 DEF TypeOK
  <2>6. entries' \in [DOMAIN entries' -> EntryStates]
    BY <2>2, <2>3
  <2> QED BY <2>4, <2>5, <2>6 DEF EntriesTyped
<1>3. ASSUME NEW c \in Callers, Quiet(c)
      PROVE  EntriesTyped'
  BY <1>3, QuietFrame DEF TypeOK, EntriesTyped
<1>4. ASSUME NEW c \in Callers, Starts(c) \/ PlanWrites(c) \/ Acknowledge(c)
      PROVE  EntriesTyped'
  BY <1>4 DEF TypeOK, EntriesTyped, Starts, StartCreate, StartAppend, PlanWrites,
     MakeSnapshots, OpenPlan, WritePlan, SyncPlan, PlanStep, Acknowledge
<1>5. ASSUME NEW c \in Callers, OpenEntry(c)
      PROVE  EntriesTyped'
  <2>1. /\ Count \in Nat /\ DOMAIN entries = 0 .. Count - 1
        /\ DOMAIN entries' = 0 .. Count
        /\ \A i \in DOMAIN entries : entries'[i] = entries[i]
        /\ entries'[Count] = Entry(call[c].successor, call[c].expected, FALSE)
    BY <1>5, OpenEntryShape
  <2>2. Entry(call[c].successor, call[c].expected, FALSE) \in EntryStates
    BY DEF TypeOK, Calls, Entry, EntryStates
  <2>3. \A i \in 0 .. Count : entries'[i] \in EntryStates
    <3>1. \A i \in 0 .. Count : i \in DOMAIN entries \/ i = Count
      BY <2>1
    <3> QED BY <2>1, <2>2, <3>1 DEF TypeOK
  <2>4. entries' = [i \in DOMAIN entries' |-> entries'[i]]
    BY <1>5 DEF OpenEntry
  <2>5. IsFiniteSet(DOMAIN entries') /\ DOMAIN entries' \subseteq Nat
    BY <2>1, FS_Interval
  <2> QED BY <2>1, <2>3, <2>4, <2>5 DEF EntriesTyped
<1>6. ASSUME NEW c \in Callers, WriteEntry(c) \/ SyncEntry(c) \/ SyncSnapshots(c)
      PROVE  EntriesTyped'
  <2>1. entries' \in [DOMAIN entries -> EntryStates]
    <3>1. \A i \in DOMAIN entries : /\ [entries[i] EXCEPT !.good = TRUE] \in EntryStates
                                    /\ [entries[i] EXCEPT !.synced = TRUE] \in EntryStates
                                    /\ [entries[i] EXCEPT !.linked = TRUE] \in EntryStates
      BY DEF TypeOK, EntryStates
    <3>2. entries \in [DOMAIN entries -> EntryStates]
      BY DEF TypeOK
    <3>3. CASE WriteEntry(c)
      BY <3>1, <3>2, <3>3 DEF WriteEntry
    <3>4. CASE SyncEntry(c)
      BY <3>1, <3>2, <3>4 DEF SyncEntry
    <3>5. CASE SyncSnapshots(c)
      BY <3>1, <3>5 DEF SyncSnapshots
    <3> QED BY <1>6, <3>3, <3>4, <3>5
  <2> QED BY <1>6, <2>1, RecordStep DEF TypeOK, EntriesTyped
<1>7. ASSUME NEW c \in Callers, SyncTransaction(c) \/ SyncRoot(c)
      PROVE  EntriesTyped'
  BY <1>7, LinkFrame DEF TypeOK, EntriesTyped
<1> QED BY <1>1, <1>2, <1>3, <1>4, <1>5, <1>6, <1>7, QuietOrWrites DEF Writes, EntryWrites

LEMMA HistoryTypedStep ==
  ASSUME TypeOK, [Next]_vars
  PROVE  HistoryTyped'
<1> USE DEF HistoryTyped
<1>1. CASE UNCHANGED vars
  BY <1>1 DEF vars, TypeOK
<1>2. CASE PowerLoss
  BY <1>2 DEF PowerLoss, TypeOK
<1>3. ASSUME NEW c \in Callers, ReturnLoaded(c)
      PROVE  HistoryTyped'
  <2>1. Count - 1 \in Nat /\ Tip \in Snapshots
    BY <1>3, TipTyped DEF ReturnLoaded
  <2> QED BY <1>3, <2>1 DEF ReturnLoaded, TypeOK
<1>4. ASSUME NEW c \in Callers, Acknowledge(c)
      PROVE  HistoryTyped'
  <2>1. Readable /\ Count \in Nat /\ Count - 1 \in Nat /\ Tip \in Snapshots
    BY <1>4, TipTyped DEF Acknowledge
  <2>2. \A i \in 1 .. Count : i - 1 \in DOMAIN entries
    BY <2>1 DEF Readable
  <2>3. \A i \in 1 .. Count : entries[i - 1].snap \in Snapshots
    BY <2>2 DEF TypeOK, EntryStates
  <2>4. settled' \in [1 .. Count -> Snapshots]
    BY <1>4, <2>3 DEF Acknowledge
  <2>5. settled' \in Seq(Snapshots)
    BY <2>1, <2>4
  <2>6. Ack(c) \in [by : Callers, at : Nat, snap : Snapshots, over : SUBSET Snapshots]
    BY <2>1 DEF Ack, TypeOK, Calls
  <2>7. acks' = acks \cup {Ack(c)} /\ told' = told \cup {<<Count - 1, Tip>>}
    BY <1>4 DEF Acknowledge, Ack
  <2> QED BY <2>1, <2>5, <2>6, <2>7 DEF TypeOK
<1>5. ASSUME NEW c \in Callers, Begin(c) \/ Acquire(c) \/ Refuse(c) \/ Raise(c) \/ Crash(c)
      PROVE  HistoryTyped'
  BY <1>5 DEF Begin, Acquire, Refuse, Raise, Crash, TypeOK
<1>6. ASSUME NEW c \in Callers, Starts(c) \/ PlanWrites(c)
      PROVE  HistoryTyped'
  BY <1>6 DEF Starts, StartCreate, StartAppend, PlanWrites, MakeSnapshots, OpenPlan,
     WritePlan, SyncPlan, PlanStep, TypeOK
<1>7. ASSUME NEW c \in Callers, EntryWrites(c)
      PROVE  HistoryTyped'
  BY <1>7 DEF EntryWrites, OpenEntry, WriteEntry, SyncEntry, SyncSnapshots,
     SyncTransaction, SyncRoot, LinkHome, TypeOK
<1> QED BY <1>1, <1>2, <1>3, <1>4, <1>5, <1>6, <1>7, QuietOrWrites DEF Quiet, Writes

LEMMA TypeStep ==
  ASSUME TypeOK, CallInv, EntryInv, [Next]_vars
  PROVE  TypeOK'
BY CallersTypedStep, HomeTypedStep, EntriesTypedStep, HistoryTypedStep
   DEF TypeOK, CallersTyped, EntriesTyped, HistoryTyped

-----------------------------------------------------------------------------
(***************************************************************************)
(* What callers were told, and what is on the disk of it.                  *)
(***************************************************************************)
LEMMA QuietMore ==
  ASSUME TypeOK, NEW c \in Callers, Quiet(c)
  PROVE  /\ settled' = settled /\ spent'.losses = spent.losses
         /\ pc'[c] \notin WritePCs /\ \A d \in Callers : d # c => pc'[d] = pc[d]
         /\ told' = told \/ (Readable /\ told' = told \cup {<<Count - 1, Tip>>})
<1> USE DEF TypeOK, Goto, Release, WritePCs
<1>1. CASE Begin(c)
  BY <1>1 DEF Begin
<1>2. CASE Acquire(c)
  BY <1>2 DEF Acquire
<1>3. CASE ReturnLoaded(c)
  BY <1>3 DEF ReturnLoaded
<1>4. CASE Refuse(c)
  BY <1>4 DEF Refuse
<1>5. CASE Raise(c)
  BY <1>5 DEF Raise
<1>6. CASE Crash(c)
  BY <1>6 DEF Crash
<1> QED BY <1>1, <1>2, <1>3, <1>4, <1>5, <1>6 DEF Quiet

LEMMA OneMore ==
  ASSUME TypeOK, CallInv, EntryInv, RecordInv, NEW c \in Callers, OpenEntry(c)
  PROVE  Unfinished'
<1>1. /\ Count \in Nat /\ DOMAIN entries = 0 .. Count - 1
      /\ DOMAIN entries' = 0 .. Count /\ Count' = Count + 1
      /\ \A i \in DOMAIN entries : entries'[i] = entries[i]
      /\ entries'[Count] = Entry(call[c].successor, call[c].expected, FALSE)
  BY OpenEntryShape
<1>2. pc[c] = "entryOpen" /\ home' = home
  BY DEF OpenEntry
<1>3. EntryAt(c)
  BY <1>2 DEF EntryInv, EntryPCs
<1>4. \A n \in HomeNames : home[n].there /\ home[n].good
  BY <1>3 DEF EntryAt
<1>5. /\ entries'[Count].snap = call[c].successor /\ entries'[Count].after = call[c].expected
      /\ entries'[Count].good = FALSE
  BY <1>1 DEF Entry
<1>6. CASE call[c].op = "append"
  <2>1. AppendAllowed(c)
    BY <1>2, <1>6 DEF RecordInv
  <2>2. Readable /\ call[c].expected = {entries[Count - 1].snap} /\ Count > 0
        /\ Transition(entries[Count - 1].snap, call[c].successor)
    BY <2>1 DEF AppendAllowed, Tip, Readable
  <2>3. \A i \in DOMAIN entries :
          /\ entries[i].good
          /\ IF i = 0
             THEN entries[i].snap = PreparedTransaction /\ entries[i].after = {}
             ELSE /\ Transition(entries[i - 1].snap, entries[i].snap)
                  /\ entries[i].after = {entries[i - 1].snap}
    BY <2>2 DEF Readable
  <2>4. ASSUME NEW i \in DOMAIN entries'
        PROVE  /\ entries'[i].good <=> i # Count' - 1
               /\ IF i = 0
                  THEN entries'[i].snap = PreparedTransaction /\ entries'[i].after = {}
                  ELSE /\ Transition(entries'[i - 1].snap, entries'[i].snap)
                       /\ entries'[i].after = {entries'[i - 1].snap}
    <3>1. CASE i = Count
      <4>1. i # 0 /\ i - 1 = Count - 1 /\ Count - 1 \in DOMAIN entries /\ i = Count' - 1
        BY <1>1, <2>2, <3>1
      <4>2. entries'[i - 1] = entries[Count - 1]
        BY <1>1, <4>1
      <4>3. /\ entries'[i].snap = call[c].successor /\ entries'[i].good = FALSE
            /\ entries'[i].after = {entries[Count - 1].snap}
        BY <1>5, <2>2, <3>1
      <4>4. Transition(entries'[i - 1].snap, entries'[i].snap)
        BY <2>2, <4>2, <4>3
      <4> QED BY <4>1, <4>2, <4>3, <4>4
    <3>2. CASE i < Count
      <4>1. i \in DOMAIN entries /\ entries'[i] = entries[i]
        BY <1>1, <2>4, <3>2
      <4>2. i # 0 => entries'[i - 1] = entries[i - 1]
        BY <1>1, <2>4, <3>2
      <4> QED BY <1>1, <2>3, <3>2, <4>1, <4>2
    <3> QED BY <1>1, <2>4, <3>1, <3>2
  <2> QED BY <1>1, <1>2, <1>4, <2>4 DEF Unfinished, Contiguous
<1>7. CASE call[c].op # "append"
  <2>1. Count = 0 /\ call[c].expected = {} /\ call[c].successor = PreparedTransaction
    BY <1>2, <1>3, <1>7 DEF EntryAt, CallInv
  <2>2. DOMAIN entries' = {0} /\ Count' = 1 /\ Count' - 1 = 0
    BY <1>1, <2>1
  <2>3. /\ entries'[0].snap = PreparedTransaction /\ entries'[0].after = {}
        /\ entries'[0].good = FALSE
    BY <1>5, <2>1
  <2>4. Contiguous' /\ Count' > 0
    BY <1>1, <2>1 DEF Contiguous
  <2> QED BY <1>2, <1>4, <2>2, <2>3, <2>4 DEF Unfinished
<1> QED BY <1>6, <1>7

LEMMA OfferStep ==
  ASSUME TypeOK, LockInv, CallInv, EntryInv, RecordInv, [Next]_vars
  PROVE  RecordInv'
<1>1. CASE UNCHANGED vars
  BY <1>1 DEF vars, RecordInv, AppendAllowed, Readable, Tip, Count, Unfinished, Contiguous
<1>2. CASE PowerLoss
  BY <1>2 DEF PowerLoss, RecordInv
<1>3. ASSUME NEW c \in Callers, Quiet(c) PROVE RecordInv'
  <2>1. /\ home' = home /\ entries' = entries
        /\ \A d \in Callers : pc'[d] \in WritePCs => pc'[d] = pc[d] /\ call'[d] = call[d]
    BY <1>3, QuietFrame
  <2>2. Unfinished' <=> Unfinished
    BY <2>1 DEF Unfinished, Contiguous, Count
  <2>3. ASSUME NEW d \in Callers, call'[d] = call[d]
        PROVE  AppendAllowed(d)' <=> AppendAllowed(d)
    BY <2>1, <2>3 DEF AppendAllowed, Readable, Tip, Count
  <2> QED BY <2>1, <2>2, <2>3 DEF RecordInv, WritePCs
<1>4. ASSUME NEW c \in Callers, Writes(c) PROVE RecordInv'
  <2>1. call' = call /\ \A d \in Callers : d # c => pc'[d] \notin WritePCs
    BY <1>4, WritesFrame
  <2> SUFFICES /\ pc'[c] = "entryOpen" /\ call[c].op = "append" => AppendAllowed(c)'
               /\ pc'[c] = "entryWrite" => Unfinished'
    BY <2>1 DEF RecordInv, WritePCs
  <2>2. CASE StartCreate(c)
    BY <2>2 DEF StartCreate, Goto, TypeOK
  <2>3. CASE StartAppend(c)
    <3>1. AppendAllowed(c) /\ pc'[c] = "entryOpen" /\ home' = home /\ entries' = entries
      BY <2>3 DEF StartAppend, Goto, TypeOK
    <3> QED BY <2>1, <3>1 DEF AppendAllowed, Readable, Tip, Count
  <2>4. CASE PlanWrites(c)
    <3>1. pc[c] \in CreatePCs /\ pc'[c] # "entryWrite"
      BY <2>4, PlanWritesMove DEF TypeOK
    <3> QED BY <3>1 DEF CallInv
  <2>5. CASE OpenEntry(c)
    <3>1. pc'[c] = "entryWrite"
      BY <2>5 DEF OpenEntry, Goto, TypeOK
    <3> QED BY <2>5, <3>1, OneMore
  <2>6. CASE WriteEntry(c) \/ SyncEntry(c) \/ SyncSnapshots(c)
    BY <2>6 DEF WriteEntry, SyncEntry, SyncSnapshots, Goto, TypeOK
  <2>7. CASE SyncTransaction(c) \/ SyncRoot(c)
    BY <2>7 DEF SyncTransaction, SyncRoot, LinkHome, Goto, TypeOK
  <2>8. CASE Acknowledge(c)
    BY <2>8 DEF Acknowledge, Release, TypeOK
  <2> QED BY <1>4, <2>2, <2>3, <2>4, <2>5, <2>6, <2>7, <2>8 DEF Writes, Starts, EntryWrites
<1> QED BY <1>1, <1>2, <1>3, <1>4, QuietOrWrites

\* What a write adds to the told and the settled.
LEMMA WritesHistory ==
  ASSUME TypeOK, NEW c \in Callers, Writes(c)
  PROVE  /\ spent' = spent
         /\ (told' = told /\ settled' = settled) \/ Acknowledge(c)
<1>1. CASE Starts(c)
  BY <1>1 DEF Starts, StartCreate, StartAppend
<1>2. CASE PlanWrites(c)
  BY <1>2 DEF PlanWrites, MakeSnapshots, OpenPlan, WritePlan, SyncPlan, PlanStep
<1>3. CASE EntryWrites(c)
  BY <1>3 DEF EntryWrites, OpenEntry, WriteEntry, SyncEntry, SyncSnapshots, SyncTransaction,
              SyncRoot, LinkHome
<1>4. CASE Acknowledge(c)
  BY <1>4 DEF Acknowledge
<1> QED BY <1>1, <1>2, <1>3, <1>4 DEF Writes

\* Writes keep the records there are, and the names that are durable.
LEMMA WritesKeep ==
  ASSUME TypeOK, HomeInv, CallInv, CreateInv, EntryInv, NEW c \in Callers, Writes(c)
  PROVE  /\ \A i \in DOMAIN entries :
              /\ i \in DOMAIN entries' /\ entries'[i].snap = entries[i].snap
              /\ entries[i].linked => entries'[i].linked
              /\ entries[i].good => entries'[i].good
         /\ \A n \in HomeNames : home[n].there /\ home[n].linked =>
              \/ home'[n].there /\ home'[n].linked
              \/ DOMAIN entries = {}
         /\ DOMAIN entries' = DOMAIN entries \/ OpenEntry(c)
<1>1. CASE Starts(c)
  <2>1. CASE StartAppend(c)
    BY <2>1 DEF StartAppend
  <2>2. CASE StartCreate(c)
    <3>1. entries' = entries /\ ~home["transaction"].there
      BY <2>2 DEF StartCreate
    <3>2. DOMAIN entries = {}
      BY <3>1 DEF HomeInv
    <3> QED BY <3>1, <3>2
  <2> QED BY <1>1, <2>1, <2>2 DEF Starts
<1>2. CASE PlanWrites(c)
  <2>1. pc[c] \in CreatePCs
    BY <1>2, PlanWritesMove
  <2>2. DOMAIN entries = {} /\ entries' = entries
    BY <1>2, <2>1 DEF CreateInv, PlanWrites, MakeSnapshots, OpenPlan, WritePlan, SyncPlan, PlanStep
  <2> QED BY <2>2
<1>3. CASE OpenEntry(c)
  <2>1. home' = home
    BY <1>3 DEF OpenEntry
  <2>2. /\ Count \in Nat /\ DOMAIN entries = 0 .. Count - 1 /\ DOMAIN entries' = 0 .. Count
        /\ \A i \in DOMAIN entries : entries'[i] = entries[i]
    BY <1>3, OpenEntryShape
  <2>3. \A i \in DOMAIN entries : i \in DOMAIN entries'
    BY <2>2
  <2> QED BY <1>3, <2>1, <2>2, <2>3
<1>4. CASE WriteEntry(c) \/ SyncEntry(c) \/ SyncSnapshots(c)
  BY <1>4, RecordStep
<1>5. CASE SyncTransaction(c) \/ SyncRoot(c)
  BY <1>5, LinkFrame
<1>6. CASE Acknowledge(c)
  BY <1>6 DEF Acknowledge
<1> QED BY <1>1, <1>2, <1>3, <1>4, <1>5, <1>6 DEF Writes, EntryWrites

\* What is durable under a directory that is durable survives a power loss.
LEMMA LossKeepsLinked ==
  ASSUME TypeOK, PowerLoss, \A n \in HomeNames : home[n].there /\ home[n].linked
  PROVE  /\ \A n \in HomeNames : home'[n].there /\ home'[n].linked
         /\ \A i \in DOMAIN entries : entries[i].linked =>
              /\ i \in DOMAIN entries' /\ entries'[i].linked
              /\ entries'[i].snap = entries[i].snap
<1>1. PICK gone \in SUBSET HomeNames, torn \in SUBSET {"plan"},
           lost \in SUBSET DOMAIN entries, ripped \in SUBSET DOMAIN entries :
        LossOf(gone, torn, lost, ripped)
  BY LossShape
<1>2. gone = {} /\ Left(gone) = HomeNames
  BY <1>1 DEF LossOf, Left
<1>3. \A n \in HomeNames : home'[n] = AfterLoss(home[n], n \in torn)
  BY <1>1, <1>2 DEF LossOf
<1>4. \A n \in HomeNames : home'[n].there /\ home'[n].linked
  <2> SUFFICES ASSUME NEW n \in HomeNames PROVE home'[n].there /\ home'[n].linked
    OBVIOUS
  <2>1. home[n] \in Files /\ home[n].there
    BY DEF TypeOK
  <2>2. home'[n] = AfterLoss(home[n], n \in torn)
    BY <1>3
  <2>3. /\ AfterLoss(home[n], n \in torn).there = home[n].there
        /\ AfterLoss(home[n], n \in torn).linked
    BY <2>1, LossOfFile
  <2> QED BY <2>1, <2>2, <2>3
<1>5. entries' = [i \in DOMAIN entries \ lost |-> AfterLoss(entries[i], i \in ripped)]
  BY <1>1, <1>2 DEF LossOf, HomeNames
<1>6. ASSUME NEW i \in DOMAIN entries, entries[i].linked
      PROVE  /\ i \in DOMAIN entries' /\ entries'[i].linked
             /\ entries'[i].snap = entries[i].snap
  <2>1. i \notin lost
    BY <1>1, <1>6 DEF LossOf
  <2>2. i \in DOMAIN entries' /\ entries'[i] = AfterLoss(entries[i], i \in ripped)
    BY <1>5, <2>1
  <2>3. entries[i] \in EntryStates
    BY DEF TypeOK
  <2>4. /\ AfterLoss(entries[i], i \in ripped).snap = entries[i].snap
        /\ AfterLoss(entries[i], i \in ripped).linked
    BY ONLY <2>3 DEF AfterLoss, EntryStates
  <2> QED BY <2>2, <2>4
<1> QED BY <1>4, <1>6

LEMMA AcknowledgeHistory ==
  ASSUME TypeOK, EntryInv, NEW c \in Callers, Acknowledge(c)
  PROVE  /\ Readable /\ Count \in Nat /\ DOMAIN entries = 0 .. Count - 1
         /\ Count - 1 \in DOMAIN entries
         /\ home' = home /\ entries' = entries /\ spent' = spent
         /\ \A n \in HomeNames : home[n].there /\ home[n].linked
         /\ \A i \in DOMAIN entries : entries[i].linked
         /\ told' = told \cup {<<Count - 1, Tip>>}
         /\ settled' = Whole(Count)
<1>1. pc[c] = "reload" /\ Readable
  BY DEF Acknowledge
<1>2. EntryAt(c)
  BY <1>1 DEF EntryInv, EntryPCs, OpenedPCs
<1>3. /\ \A n \in HomeNames : home[n].there /\ home[n].linked
      /\ \A i \in DOMAIN entries : entries[i].linked
  BY <1>1, <1>2 DEF EntryAt, HomeNames
<1>4. Count \in Nat /\ DOMAIN entries = 0 .. Count - 1 /\ Count - 1 \in DOMAIN entries
  BY <1>1, TipTyped DEF Readable
<1> QED BY <1>1, <1>3, <1>4 DEF Acknowledge, Whole

LEMMA HistoryStep ==
  ASSUME TypeOK, HomeInv, CallInv, CreateInv, EntryInv, RecordInv, HistoryInv, [Next]_vars
  PROVE  HistoryInv'
<1>1. CASE UNCHANGED vars
  BY <1>1 DEF vars, HistoryInv, Count
<1>2. CASE PowerLoss
  <2>1. told' = {} /\ settled' = settled /\ spent'.losses # 0
    BY <1>2 DEF PowerLoss, TypeOK
  <2>2. CASE settled = <<>>
    BY <2>1, <2>2 DEF HistoryInv
  <2>3. CASE settled # <<>>
    <3>1. \A n \in HomeNames : home[n].there /\ home[n].linked
      BY <2>3 DEF HistoryInv
    <3> QED BY <1>2, <2>1, <3>1, LossKeepsLinked DEF HistoryInv
  <2> QED BY <2>2, <2>3
<1>3. ASSUME NEW c \in Callers, Quiet(c) PROVE HistoryInv'
  <2>1. home' = home /\ entries' = entries /\ settled' = settled /\ spent'.losses = spent.losses
    BY <1>3, QuietFrame, QuietMore
  <2>2. \A x \in told' : x[1] \in DOMAIN entries /\ entries[x[1]].snap = x[2]
    <3>1. CASE told' = told
      BY <3>1 DEF HistoryInv
    <3>2. CASE Readable /\ told' = told \cup {<<Count - 1, Tip>>}
      BY <3>2, TipTyped DEF HistoryInv, Tip
    <3> QED BY <1>3, <3>1, <3>2, QuietMore
  <2> QED BY <2>1, <2>2 DEF HistoryInv, Count
<1>4. ASSUME NEW c \in Callers, Acknowledge(c) PROVE HistoryInv'
  <2> USE <1>4, AcknowledgeHistory
  <2>1. \A x \in told' : x[1] \in DOMAIN entries /\ entries[x[1]].snap = x[2]
    BY DEF HistoryInv, Tip
  <2>2. \A i \in DOMAIN settled' :
          i - 1 \in DOMAIN entries /\ settled'[i] = entries[i - 1].snap /\ entries[i - 1].linked
    <3>1. DOMAIN settled' = 1 .. Count /\ \A i \in 1 .. Count : settled'[i] = entries[i - 1].snap
      BY DEF Whole
    <3>2. \A i \in 1 .. Count : i - 1 \in DOMAIN entries
      OBVIOUS
    <3> QED BY <3>1, <3>2
  <2> QED BY <2>1, <2>2 DEF HistoryInv, Count
<1>5. ASSUME NEW c \in Callers, Writes(c), ~Acknowledge(c) PROVE HistoryInv'
  <2>1. spent' = spent /\ told' = told /\ settled' = settled
    BY <1>5, WritesHistory
  <2>2. \A i \in DOMAIN entries :
          /\ i \in DOMAIN entries' /\ entries'[i].snap = entries[i].snap
          /\ entries[i].linked => entries'[i].linked
          /\ entries[i].good => entries'[i].good
    BY <1>5, WritesKeep
  <2>3. settled # <<>> => \A n \in HomeNames : home'[n].there /\ home'[n].linked
    <3>1. ASSUME settled # <<>> PROVE DOMAIN entries # {}
      <4>1. 1 \in DOMAIN settled
        BY <3>1 DEF TypeOK
      <4> QED BY <4>1 DEF HistoryInv
    <3> QED BY <1>5, <3>1, WritesKeep DEF HistoryInv
  <2>4. spent.losses = 0 => \A i \in DOMAIN entries' : entries'[i].good \/ i = Count' - 1
    <3>1. CASE OpenEntry(c)
      <4>1. Unfinished'
        BY <3>1, OneMore
      <4> QED BY <4>1 DEF Unfinished
    <3>2. CASE DOMAIN entries' = DOMAIN entries
      <4>1. Count' = Count
        BY <3>2 DEF Count
      <4> QED BY <2>2, <3>2, <4>1 DEF HistoryInv
    <3> QED BY <1>5, <3>1, <3>2, WritesKeep
  <2> QED BY <2>1, <2>2, <2>3, <2>4 DEF HistoryInv
<1> QED BY <1>1, <1>2, <1>3, <1>4, <1>5, QuietOrWrites

LEMMA NothingForgotten ==
  ASSUME TypeOK, HistoryInv
  PROVE  NothingToldIsForgotten
<1>1. ASSUME Readable, NEW i \in DOMAIN settled
      PROVE  i <= Count /\ entries[i - 1].snap = settled[i]
  <2>1. i - 1 \in DOMAIN entries /\ entries[i - 1].snap = settled[i]
    BY DEF HistoryInv
  <2>2. DOMAIN entries = 0 .. Count - 1 /\ Count \in Nat /\ i \in Nat
    BY <1>1, TipTyped DEF Readable, TypeOK
  <2> QED BY <2>1, <2>2
<1> QED BY <1>1 DEF NothingToldIsForgotten, HistoryInv

-----------------------------------------------------------------------------
(***************************************************************************)
(* The inductive invariant and what follows from it.                       *)
(***************************************************************************)
LEMMA NoForkFollows ==
  ASSUME TypeOK, OrderInv, AckInv, AckedIsDurable
  PROVE  NoForkAcknowledged
<1>1. ASSUME NEW i \in DOMAIN entries, NEW j \in DOMAIN entries, i < j
      PROVE  entries[i].after # entries[j].after
  <2> SUFFICES ASSUME entries[i].after = entries[j].after
               PROVE  FALSE
    OBVIOUS
  <2>1. PICK s \in entries[j].after :
          s = entries[i].snap \/ Earlier(entries[i].snap, s)
    BY <1>1 DEF OrderInv
  <2>2. Earlier(s, entries[i].snap)
    BY <2>1 DEF OrderInv
  <2>3. s \in Snapshots /\ entries[i].snap \in Snapshots
    BY <2>1 DEF TypeOK, EntryStates
  <2> QED BY <2>1, <2>2, <2>3, EarlierAsymmetric
<1>2. \A a \in acks : /\ a.at \in DOMAIN entries /\ a.at \in Nat
                      /\ a.over = entries[a.at].after
  BY DEF AckInv, AckedIsDurable, TypeOK
<1>3. \A a, b \in acks : a.at # b.at => a.over # b.over
  <2> SUFFICES ASSUME NEW a \in acks, NEW b \in acks, a.at # b.at
               PROVE  a.over # b.over
    OBVIOUS
  <2>1. a.at < b.at \/ b.at < a.at
    BY <1>2
  <2> QED BY <1>1, <1>2, <2>1
<1>4. \A a, b \in acks : a.at = b.at => a = b
  BY DEF AckInv
<1> QED BY <1>3, <1>4 DEF NoForkAcknowledged

LEMMA InitInv == ASSUME Init PROVE IInv
<1> USE DEF Init
<1>1. DOMAIN entries = {}
  OBVIOUS
<1>2. TypeOK
  BY <1>1, PreparedTyped, FS_EmptySet
     DEF TypeOK, NoFile, Files, LoadCall, Calls, PCs, WritePCs, HomeNames
<1>3. LockInv /\ CallInv /\ CreateInv /\ EntryInv
  BY DEF LockInv, CallInv, CreateInv, EntryInv, WritePCs, CreatePCs, EntryPCs,
     OpenedPCs, LoadCall
<1>4. HomeInv /\ OrderInv /\ AckInv /\ AckedIsDurable
  BY <1>1 DEF HomeInv, OrderInv, AckInv, AckedIsDurable, NoFile, HomeNames
<1>5. RecordInv /\ HistoryInv
  BY <1>1 DEF RecordInv, HistoryInv
<1> QED BY <1>2, <1>3, <1>4, <1>5 DEF IInv, JournalInv

LEMMA NextInv == ASSUME IInv, [Next]_vars PROVE IInv'
BY TypeStep, LockStep, CallStep, HomeStep, CreateStep, EntryStep, OrderStep,
   AckStep, DurableStep, OfferStep, HistoryStep
   DEF IInv, JournalInv

\* Every variable of the journal keeps its type, for any number of callers,
\* paths, calls, process deaths and power losses.
THEOREM TypeCorrect == Spec => []TypeOK
<1>1. Init => IInv
  BY InitInv
<1>2. IInv /\ [Next]_vars => IInv'
  BY NextInv
<1>3. IInv => TypeOK
  BY DEF IInv
<1> QED BY <1>1, <1>2, <1>3, PTL DEF Spec

\* The parts of the inductive invariant: who holds the lock, how far each call
\* has come, and what the records say of each other.
THEOREM JournalIsInductive == Spec => []JournalInv
<1>1. Init => IInv
  BY InitInv
<1>2. IInv /\ [Next]_vars => IInv'
  BY NextInv
<1>3. IInv => JournalInv
  BY DEF IInv
<1> QED BY <1>1, <1>2, <1>3, PTL DEF Spec

\* A record that create or append has acknowledged survives every power loss:
\* its bytes, its name, and every directory above it were fsynced first.
THEOREM AcknowledgedIsDurable == Spec => []AckedIsDurable
<1>1. Init => IInv
  BY InitInv
<1>2. IInv /\ [Next]_vars => IInv'
  BY NextInv
<1>3. IInv => AckedIsDurable
  BY DEF IInv
<1> QED BY <1>1, <1>2, <1>3, PTL DEF Spec

\* No snapshot is ever recorded twice, and the records strictly advance, even
\* over a torn record or a hole that a power loss has left.
THEOREM SnapshotsNeverReturn == Spec => []NoSnapshotReturns
<1>1. Init => IInv
  BY InitInv
<1>2. IInv /\ [Next]_vars => IInv'
  BY NextInv
<1>3. IInv => NoSnapshotReturns
  BY OrderMeansEarlier DEF IInv, JournalInv, NoSnapshotReturns
<1> QED BY <1>1, <1>2, <1>3, PTL DEF Spec

\* The compare-and-append never tells two callers that they extended the same
\* snapshot: its identity is a digest without a sequence number, so this rests
\* on the fact that no snapshot comes back.
THEOREM NoForkIsAcknowledged == Spec => []NoForkAcknowledged
<1>1. Init => IInv
  BY InitInv
<1>2. IInv /\ [Next]_vars => IInv'
  BY NextInv
<1>3. IInv => NoForkAcknowledged
  BY NoForkFollows DEF IInv, JournalInv
<1> QED BY <1>1, <1>2, <1>3, PTL DEF Spec

\* Whatever a load or a write returned is still at its place in every journal
\* that can be read, whichever calls were interrupted since; and as long as no
\* power was lost only the last record can be torn.
THEOREM NothingIsForgotten == Spec => []NothingToldIsForgotten
<1>1. Init => IInv
  BY InitInv
<1>2. IInv /\ [Next]_vars => IInv'
  BY NextInv
<1>3. IInv => NothingToldIsForgotten
  BY NothingForgotten DEF IInv, JournalInv
<1> QED BY <1>1, <1>2, <1>3, PTL DEF Spec

-----------------------------------------------------------------------------
(***************************************************************************)
(* The journal implements the ledger, step by step.                        *)
(***************************************************************************)
\* The pcs at which an unreadable journal still counts as open.
BusyPCs == {"mkdir", "planOpen", "planWrite", "planSync", "entryOpen", "entryWrite"}

\* The two copies of the rules of a transaction are one.
LEMMA LedgerRules ==
  /\ Ledger!PreparedTransaction = PreparedTransaction
  /\ Ledger!Snapshots = Snapshots
  /\ \A t, u : Transition(t, u) => Ledger!Transition(t, u)
<1>1. Ledger!PreparedTransaction = PreparedTransaction
  BY DEF Ledger!PreparedTransaction, PreparedTransaction
<1>2. Ledger!Snapshots = Snapshots
  BY DEF Ledger!Snapshots, Snapshots, Ledger!TransactionStates, TransactionStates,
     Ledger!FileProgressStates, FileProgressStates
<1>3. ASSUME NEW t, NEW u, Transition(t, u) PROVE Ledger!Transition(t, u)
  <2>1. u.state \in Ledger!AllowedStates(t.state)
    BY <1>3 DEF Transition, AllowedStates, Ledger!AllowedStates
  <2>2. \A p \in Paths :
          \/ u.progress[p] = t.progress[p]
          \/ <<t.progress[p], u.progress[p]>> \in Ledger!AllowedProgress
    BY <1>3 DEF Transition, AllowedProgress, Ledger!AllowedProgress
  <2>3. Ledger!StateInvariants(u.state, u.progress)
    BY <1>3 DEF Transition, StateInvariants, ProgressPermitted, FileProgressStates,
       Ledger!StateInvariants, Ledger!ProgressPermitted, Ledger!FileProgressStates
  <2> QED BY <2>1, <2>2, <2>3 DEF Ledger!Transition
<1> QED BY <1>1, <1>2, <1>3

\* The chain of the first n records of e.
Chain(e, n) == [i \in 1 .. n |-> e[i - 1].snap]

LEMMA EmptyChain ==
  ASSUME NEW e
  PROVE  Chain(e, 0) = <<>>
BY DEF Chain

LEMMA LegalRecords ==
  ASSUME NEW n \in Nat, NEW e,
         \A i \in 0 .. n - 1 :
           /\ e[i].snap \in Snapshots
           /\ i = 0 => e[i].snap = PreparedTransaction
           /\ i > 0 => /\ Transition(e[i - 1].snap, e[i].snap)
                       /\ e[i - 1].snap # e[i].snap
  PROVE  Ledger!LegalChain(Chain(e, n)) /\ Chain(e, n) \in Seq(Ledger!Snapshots)
<1>1. DOMAIN Chain(e, n) = 1 .. n /\ \A i \in 1 .. n : Chain(e, n)[i] = e[i - 1].snap
  BY DEF Chain
<1>2. \A i \in 1 .. n : i - 1 \in 0 .. n - 1
  OBVIOUS
<1>3. Chain(e, n) \in [1 .. n -> Snapshots]
  BY <1>2 DEF Chain
<1>4. Chain(e, n) \in Seq(Ledger!Snapshots)
  BY <1>3, LedgerRules
<1>5. ASSUME NEW i \in 1 .. n
      PROVE  IF i = 1 THEN Chain(e, n)[i] = Ledger!PreparedTransaction
             ELSE /\ Ledger!Transition(Chain(e, n)[i - 1], Chain(e, n)[i])
                  /\ Chain(e, n)[i] # Chain(e, n)[i - 1]
  <2>1. CASE i = 1
    BY <1>1, <2>1, LedgerRules
  <2>2. CASE i # 1
    <3>1. i - 1 \in 1 .. n /\ i - 1 > 0 /\ i - 1 \in 0 .. n - 1
      BY <2>2
    <3>2. Transition(e[(i - 1) - 1].snap, e[i - 1].snap) /\ e[(i - 1) - 1].snap # e[i - 1].snap
      BY <3>1
    <3>3. Chain(e, n)[i] = e[i - 1].snap /\ Chain(e, n)[i - 1] = e[(i - 1) - 1].snap
      BY <1>1, <3>1
    <3> QED BY <2>2, <3>2, <3>3, LedgerRules
  <2> QED BY <2>1, <2>2
<1> QED BY <1>1, <1>4, <1>5 DEF Ledger!LegalChain

LEMMA ReadableLegal ==
  ASSUME NEW n \in Nat, NEW e, n > 0, DOMAIN e = 0 .. n - 1, e \in [DOMAIN e -> EntryStates],
         \A i, j \in DOMAIN e : i < j => Earlier(e[i].snap, e[j].snap),
         \A i \in DOMAIN e :
           IF i = 0
           THEN e[i].snap = PreparedTransaction /\ e[i].after = {}
           ELSE /\ Transition(e[i - 1].snap, e[i].snap)
                /\ e[i].after = {e[i - 1].snap}
  PROVE  Ledger!LegalChain(Chain(e, n)) /\ Chain(e, n) \in Seq(Ledger!Snapshots)
<1>1. \A i \in 0 .. n - 1 : e[i].snap \in Snapshots
  BY DEF EntryStates
<1>2. ASSUME NEW i \in 0 .. n - 1, i > 0 PROVE e[i - 1].snap # e[i].snap
  <2>1. i - 1 \in DOMAIN e /\ i \in DOMAIN e /\ i - 1 < i
    BY <1>2
  <2> QED BY <2>1 DEF Earlier
<1>3. \A i \in 0 .. n - 1 :
        /\ e[i].snap \in Snapshots
        /\ i = 0 => e[i].snap = PreparedTransaction
        /\ i > 0 => /\ Transition(e[i - 1].snap, e[i].snap)
                    /\ e[i - 1].snap # e[i].snap
  BY <1>1, <1>2
<1> QED BY <1>3, LegalRecords

LEMMA ReadableChain ==
  ASSUME TypeOK, OrderInv, Readable
  PROVE  /\ Count \in Nat /\ Count > 0
         /\ Ledger!LegalChain(Whole(Count)) /\ Whole(Count) \in Seq(Ledger!Snapshots)
<1>1. Count \in Nat /\ Count > 0
  BY TipTyped
<1>2. \A i, j \in DOMAIN entries : i < j => Earlier(entries[i].snap, entries[j].snap)
  BY OrderMeansEarlier
<1>3. Whole(Count) = Chain(entries, Count)
  BY DEF Whole, Chain
<1>4. /\ DOMAIN entries = 0 .. Count - 1 /\ entries \in [DOMAIN entries -> EntryStates]
      /\ \A i \in DOMAIN entries :
           IF i = 0
           THEN entries[i].snap = PreparedTransaction /\ entries[i].after = {}
           ELSE /\ Transition(entries[i - 1].snap, entries[i].snap)
                /\ entries[i].after = {entries[i - 1].snap}
  BY DEF Readable, TypeOK
<1> QED BY <1>1, <1>2, <1>3, <1>4, ReadableLegal

\* What a readable journal shows satisfies the ledger's rule; it extends what
\* was settled.
ChainGood ==
  Readable =>
    /\ Count \in Nat /\ Count > 0
    /\ Ledger!LegalChain(Whole(Count)) /\ Whole(Count) \in Seq(Ledger!Snapshots)
    /\ Ledger!Extends(Whole(Count), settled)

LEMMA ChainIsGood ==
  ASSUME TypeOK, OrderInv, HistoryInv
  PROVE  ChainGood
<1> SUFFICES ASSUME Readable
             PROVE  /\ Count \in Nat /\ Count > 0
                    /\ Ledger!LegalChain(Whole(Count)) /\ Whole(Count) \in Seq(Ledger!Snapshots)
                    /\ Ledger!Extends(Whole(Count), settled)
  BY DEF ChainGood
<1>1. Count \in Nat /\ Count > 0 /\ DOMAIN entries = 0 .. Count - 1
  BY TipTyped DEF Readable
<1>2. settled \in Seq(Snapshots) /\ Whole(Count) \in Seq(Ledger!Snapshots)
  BY ReadableChain DEF TypeOK
<1>3. DOMAIN Whole(Count) = 1 .. Count /\ Len(Whole(Count)) = Count
  BY <1>1, <1>2 DEF Whole
<1>4. \A i \in DOMAIN settled : i \in 1 .. Count /\ Whole(Count)[i] = settled[i]
  <2> SUFFICES ASSUME NEW i \in DOMAIN settled
               PROVE  i \in 1 .. Count /\ Whole(Count)[i] = settled[i]
    OBVIOUS
  <2>1. i - 1 \in DOMAIN entries /\ entries[i - 1].snap = settled[i] /\ i \in Nat /\ i > 0
    BY <1>2 DEF HistoryInv
  <2>2. i \in 1 .. Count
    BY <1>1, <2>1
  <2> QED BY <2>1, <2>2 DEF Whole
<1>5. Len(settled) <= Count
  <2>1. CASE settled = <<>>
    BY <1>1, <2>1
  <2>2. CASE settled # <<>>
    <3>1. Len(settled) \in DOMAIN settled
      BY <1>2, <2>2
    <3> QED BY <1>4, <3>1
  <2> QED BY <2>1, <2>2
<1>6. Ledger!Extends(Whole(Count), settled)
  BY <1>3, <1>4, <1>5 DEF Ledger!Extends
<1> QED BY <1>6, ReadableChain

\* What is shown depends on what a reader would find, and on who is at work.
LEMMA SameRecords ==
  ASSUME TypeOK,
         \A n \in HomeNames : home'[n].there = home[n].there /\ home'[n].good = home[n].good,
         DOMAIN entries' = DOMAIN entries,
         \A i \in DOMAIN entries :
           /\ entries'[i].snap = entries[i].snap /\ entries'[i].after = entries[i].after
           /\ entries'[i].good = entries[i].good
  PROVE  /\ Count' = Count /\ (Readable' <=> Readable)
         /\ Readable => Whole(Count)' = Whole(Count)
<1>0. Count \in Nat
  BY FS_CardinalityType DEF TypeOK, Count
<1>1. Count' = Count
  BY DEF Count
<1>2. CASE DOMAIN entries # 0 .. Count - 1
  BY <1>1, <1>2 DEF Readable
<1>3. CASE DOMAIN entries = 0 .. Count - 1 /\ Count > 0
  <2>1. \A i \in DOMAIN entries : i # 0 => i - 1 \in DOMAIN entries
    BY <1>0, <1>3
  <2>2. Readable' <=> Readable
    BY <1>1, <1>3, <2>1 DEF Readable
  <2>3. \A i \in 1 .. Count : i - 1 \in DOMAIN entries
    BY <1>0, <1>3
  <2>4. Whole(Count)' = [i \in 1 .. Count |-> entries'[i - 1].snap]
    BY <1>1 DEF Whole
  <2>5. Whole(Count)' = Whole(Count)
    BY <2>3, <2>4 DEF Whole
  <2> QED BY <1>1, <2>2, <2>5
<1>4. CASE ~(Count > 0)
  BY <1>1, <1>4 DEF Readable
<1> QED BY <1>1, <1>2, <1>3, <1>4

LEMMA ShownBusy ==
  /\ ShownOpen <=> Readable \/ ~home["transaction"].there \/ AtWork(BusyPCs)
  /\ ShownOpen \in BOOLEAN
BY DEF ShownOpen, BusyPCs

LEMMA BusyPlace ==
  ASSUME CreateInv, EntryInv, NEW c \in Callers, pc[c] \in BusyPCs
  PROVE  home["transaction"].there
<1>1. CASE pc[c] \in CreatePCs
  BY <1>1 DEF CreateInv
<1>2. CASE pc[c] \in EntryPCs
  BY <1>2 DEF EntryInv, EntryAt, HomeNames
<1> QED BY <1>1, <1>2 DEF BusyPCs, CreatePCs, EntryPCs, OpenedPCs

LEMMA OnlyWriter ==
  ASSUME TypeOK, LockInv, NEW c \in Callers, NEW pcs \in SUBSET WritePCs,
         \/ pc[c] \in WritePCs
         \/ pc[c] = "locked" /\ call[c].op # "load"
  PROVE  AtWork(pcs) <=> pc[c] \in pcs
<1>1. \A d \in Callers : d # c => pc[d] \notin WritePCs
  BY OneWriter
<1> QED BY <1>1 DEF AtWork

LEMMA WriterPC ==
  ASSUME TypeOK, NEW c \in Callers, Writes(c)
  PROVE  pc[c] \in WritePCs \/ (pc[c] = "locked" /\ call[c].op # "load")
<1>1. CASE Starts(c)
  BY <1>1, StartsMove
<1>2. CASE PlanWrites(c)
  BY <1>2, PlanWritesMove DEF CreatePCs, WritePCs
<1>3. CASE EntryWrites(c)
  BY <1>3, EntryWritesMove DEF EntryPCs, OpenedPCs, WritePCs
<1>4. CASE Acknowledge(c)
  BY <1>4 DEF Acknowledge, WritePCs
<1> QED BY <1>1, <1>2, <1>3, <1>4 DEF Writes

\* While one caller writes, what is shown is a matter of its pc alone.
LEMMA WriterShows ==
  ASSUME TypeOK, LockInv, NEW c \in Callers, Writes(c)
  PROVE  /\ AtWork(BusyPCs) <=> pc[c] \in BusyPCs
         /\ AtWork({"entryWrite"}) <=> pc[c] = "entryWrite"
         /\ AtWork(BusyPCs)' <=> pc'[c] \in BusyPCs
         /\ AtWork({"entryWrite"})' <=> pc'[c] = "entryWrite"
<1>1. BusyPCs \in SUBSET WritePCs /\ {"entryWrite"} \in SUBSET WritePCs
  BY DEF BusyPCs, WritePCs
<1>2. /\ AtWork(BusyPCs) <=> pc[c] \in BusyPCs
      /\ AtWork({"entryWrite"}) <=> pc[c] \in {"entryWrite"}
  BY <1>1, WriterPC, OnlyWriter
<1>3. \A d \in Callers : d # c => pc'[d] \notin WritePCs
  BY WritesFrame
<1>4. AtWork(BusyPCs)' <=> pc'[c] \in BusyPCs
  BY <1>1, <1>3 DEF AtWork, BusyPCs
<1>5. AtWork({"entryWrite"})' <=> pc'[c] = "entryWrite"
  BY <1>1, <1>3 DEF AtWork
<1> QED BY <1>2, <1>4, <1>5

\* A call that returns, raises or dies: the journal shows what it showed, or is
\* closed by the record that was being written.
LEMMA QuietLedger ==
  ASSUME TypeOK, LockInv, CreateInv, EntryInv, NEW c \in Callers, Quiet(c)
  PROVE  Ledger!Seal \/ UNCHANGED Ledger!lvars
<1>1. /\ home' = home /\ entries' = entries /\ settled' = settled
      /\ pc'[c] \notin WritePCs /\ \A d \in Callers : d # c => pc'[d] = pc[d]
  BY QuietFrame, QuietMore
<1>2. Count' = Count /\ (Readable' <=> Readable) /\ Whole(Count)' = Whole(Count)
      /\ Whole(Count - 1)' = Whole(Count - 1)
  BY <1>1 DEF Count, Readable, Whole
<1>3. CASE Readable
  <2>1. ShownChain = Whole(Count) /\ ShownChain' = Whole(Count)
    BY <1>2, <1>3 DEF ShownChain
  <2>2. ShownOpen /\ ShownOpen'
    BY <1>2, <1>3 DEF ShownOpen
  <2> QED BY <1>1, <2>1, <2>2 DEF Ledger!lvars
<1>4. CASE ~Readable /\ pc[c] \in BusyPCs
  <2>1. home["transaction"].there
    BY <1>4, BusyPlace
  <2>2. \A d \in Callers : pc'[d] \notin WritePCs
    <3>1. pc[c] \in WritePCs
      BY <1>4 DEF BusyPCs, WritePCs
    <3> QED BY <1>1, <3>1, OneWriter
  <2>3. ~AtWork(BusyPCs)' /\ ~AtWork({"entryWrite"})'
    BY <2>2 DEF AtWork, BusyPCs, WritePCs
  <2>4. ShownChain' = <<>>
    BY <1>2, <1>4, <2>3 DEF ShownChain
  <2>5. ShownOpen' = FALSE
    BY <1>1, <1>2, <1>4, <2>1, <2>3 DEF ShownOpen, BusyPCs
  <2> QED BY <1>1, <2>4, <2>5 DEF Ledger!Seal
<1>5. CASE ~Readable /\ pc[c] \notin BusyPCs
  <2>1. /\ AtWork(BusyPCs)' <=> AtWork(BusyPCs)
        /\ AtWork({"entryWrite"})' <=> AtWork({"entryWrite"})
    <3>1. pc'[c] \notin BusyPCs
      BY <1>1 DEF BusyPCs, WritePCs
    <3>2. \A d \in Callers : pc'[d] \in BusyPCs <=> pc[d] \in BusyPCs
      BY <1>1, <1>5, <3>1
    <3>3. \A d \in Callers : pc'[d] \in {"entryWrite"} <=> pc[d] \in {"entryWrite"}
      BY <1>1, <1>5, <3>1 DEF BusyPCs
    <3> QED BY <3>2, <3>3 DEF AtWork
  <2>2. ShownChain' = ShownChain
    BY <1>2, <1>5, <2>1 DEF ShownChain
  <2>3. ShownOpen' = ShownOpen
    BY <1>1, <1>2, <2>1 DEF ShownOpen, BusyPCs
  <2> QED BY <1>1, <2>2, <2>3 DEF Ledger!lvars
<1> QED BY <1>3, <1>4, <1>5

\* A power loss takes back what was never settled, or leaves what cannot be read.
LEMMA LossLedger ==
  ASSUME TypeOK, HistoryInv', ChainGood', PowerLoss
  PROVE  Ledger!Relapse \/ Ledger!Seal
<1>1. settled' = settled /\ \A c \in Callers : pc'[c] = "idle"
  BY DEF PowerLoss
<1>2. ~AtWork(BusyPCs)' /\ ~AtWork({"entryWrite"})'
  BY <1>1 DEF AtWork, BusyPCs
<1>3. CASE Readable'
  <2>1. ShownChain' = Whole(Count)' /\ ShownOpen' = TRUE
    BY <1>3 DEF ShownChain, ShownOpen
  <2>2. /\ Ledger!LegalChain(Whole(Count)') /\ Whole(Count)' \in Seq(Ledger!Snapshots)
        /\ Ledger!Extends(Whole(Count)', settled)
    BY <1>1, <1>3 DEF ChainGood, Ledger!LegalChain, Ledger!Extends
  <2> QED BY <1>1, <2>1, <2>2 DEF Ledger!Relapse
<1>4. CASE ~Readable' /\ ~home'["transaction"].there
  <2>1. ShownChain' = <<>> /\ ShownOpen' = TRUE
    BY <1>2, <1>4 DEF ShownChain, ShownOpen
  <2>2. settled = <<>>
    BY <1>1, <1>4 DEF HistoryInv, HomeNames
  <2>3. /\ Ledger!LegalChain(<<>>) /\ <<>> \in Seq(Ledger!Snapshots)
        /\ Ledger!Extends(<<>>, settled)
    BY <2>2 DEF Ledger!LegalChain, Ledger!Extends
  <2> QED BY <1>1, <2>1, <2>3 DEF Ledger!Relapse
<1>5. CASE ~Readable' /\ home'["transaction"].there
  <2>1. ShownChain' = <<>> /\ ShownOpen' = FALSE
    BY <1>2, <1>5 DEF ShownChain, ShownOpen, BusyPCs
  <2> QED BY <1>1, <2>1 DEF Ledger!Seal
<1> QED BY <1>3, <1>4, <1>5

LEMMA StartLedger ==
  ASSUME TypeOK, LockInv, HomeInv, NEW c \in Callers, Starts(c)
  PROVE  UNCHANGED Ledger!lvars
<1>0. settled' = settled /\ Writes(c)
  BY DEF Starts, StartCreate, StartAppend, Writes
<1>1. CASE StartAppend(c)
  <2>1. Readable /\ home' = home /\ entries' = entries
    BY <1>1 DEF StartAppend, AppendAllowed
  <2>2. Readable' /\ Count' = Count /\ Whole(Count)' = Whole(Count)
    BY <2>1 DEF Readable, Count, Whole
  <2>3. ShownChain' = ShownChain /\ ShownOpen /\ ShownOpen'
    BY <2>1, <2>2 DEF ShownChain, ShownOpen
  <2> QED BY <1>0, <2>3 DEF Ledger!lvars
<1>2. CASE StartCreate(c)
  <2>1. /\ pc[c] = "locked" /\ pc'[c] = "mkdir" /\ entries' = entries
        /\ ~home["transaction"].there
    BY <1>2 DEF StartCreate, Goto, TypeOK
  <2>2. DOMAIN entries = {} /\ DOMAIN entries' = {}
    BY <2>1 DEF HomeInv
  <2>3. Count = 0 /\ Count' = 0
    BY <2>2, FS_EmptySet DEF Count
  <2>4. ~Readable /\ ~Readable'
    BY <2>3 DEF Readable
  <2>5. /\ ~AtWork({"entryWrite"}) /\ ~AtWork({"entryWrite"})' /\ AtWork(BusyPCs)'
    BY <1>0, <2>1, WriterShows DEF BusyPCs
  <2>6. ShownChain = <<>> /\ ShownChain' = <<>>
    BY <2>4, <2>5 DEF ShownChain
  <2>7. ShownOpen /\ ShownOpen'
    BY <2>1, <2>5 DEF ShownOpen, BusyPCs
  <2> QED BY <1>0, <2>6, <2>7 DEF Ledger!lvars
<1> QED BY <1>1, <1>2 DEF Starts

LEMMA PlanLedger ==
  ASSUME TypeOK, LockInv, CreateInv, NEW c \in Callers, PlanWrites(c)
  PROVE  UNCHANGED Ledger!lvars
<1>1. /\ pc[c] \in CreatePCs /\ Writes(c)
      /\ pc'[c] \in {"planOpen", "planWrite", "planSync", "entryOpen"}
  BY PlanWritesMove DEF Writes, TypeOK
<1>2. settled' = settled /\ entries' = entries
  BY DEF PlanWrites, MakeSnapshots, OpenPlan, WritePlan, SyncPlan, PlanStep
<1>3. DOMAIN entries = {} /\ DOMAIN entries' = {}
  BY <1>1, <1>2 DEF CreateInv
<1>4. Count = 0 /\ Count' = 0
  BY <1>3, FS_EmptySet DEF Count
<1>5. ~Readable /\ ~Readable'
  BY <1>4 DEF Readable
<1>6. AtWork(BusyPCs) /\ AtWork(BusyPCs)'
  BY <1>1, WriterShows DEF BusyPCs, CreatePCs
<1>7. ~AtWork({"entryWrite"}) /\ ~AtWork({"entryWrite"})'
  BY <1>1, WriterShows DEF CreatePCs
<1>8. ShownChain = <<>> /\ ShownChain' = <<>>
  BY <1>5, <1>7 DEF ShownChain
<1>9. ShownOpen /\ ShownOpen'
  BY <1>6 DEF ShownOpen, BusyPCs
<1> QED BY <1>2, <1>8, <1>9 DEF Ledger!lvars

LEMMA UnfinishedUnread ==
  ASSUME Unfinished
  PROVE  ~Readable
<1>1. Count - 1 \in DOMAIN entries
  BY DEF Unfinished, Contiguous
<1> QED BY <1>1 DEF Unfinished, Readable

\* A record that is opened is not shown before it is whole.
LEMMA OpenLedger ==
  ASSUME TypeOK, LockInv, CallInv, EntryInv, RecordInv, NEW c \in Callers, OpenEntry(c)
  PROVE  UNCHANGED Ledger!lvars
<1>1. /\ settled' = settled /\ pc[c] = "entryOpen" /\ pc'[c] = "entryWrite" /\ Writes(c)
  BY DEF OpenEntry, Goto, TypeOK, Writes, EntryWrites
<1>2. /\ AtWork(BusyPCs) /\ AtWork(BusyPCs)' /\ ~AtWork({"entryWrite"}) /\ AtWork({"entryWrite"})'
  BY <1>1, WriterShows DEF BusyPCs
<1>3. /\ Count \in Nat /\ DOMAIN entries = 0 .. Count - 1 /\ Count' = Count + 1
      /\ DOMAIN entries' = 0 .. Count
      /\ \A i \in DOMAIN entries : entries'[i] = entries[i]
  BY OpenEntryShape
<1>4. ~Readable'
  <2>1. Unfinished'
    BY OneMore
  <2>2. Count' - 1 \in DOMAIN entries'
    BY <1>3
  <2>3. \A i \in DOMAIN entries' : entries'[i].good <=> i # Count' - 1
    BY <2>1 DEF Unfinished
  <2> QED BY <2>2, <2>3 DEF Readable
<1>5. ShownChain' = Whole(Count - 1)'
  BY <1>2, <1>3, <1>4 DEF ShownChain
<1>6. Whole(Count - 1)' = [i \in 1 .. Count |-> entries'[i - 1].snap]
  BY <1>3 DEF Whole
<1>7. \A i \in 1 .. Count : entries'[i - 1].snap = entries[i - 1].snap
  BY <1>3
<1>8. ShownChain' = Whole(Count)
  BY <1>5, <1>6, <1>7 DEF Whole
<1>9. ShownChain = Whole(Count)
  <2>1. CASE call[c].op = "append"
    <3>1. Readable
      BY <1>1, <2>1 DEF RecordInv, AppendAllowed
    <3> QED BY <3>1 DEF ShownChain
  <2>2. CASE call[c].op # "append"
    <3>1. Count = 0
      BY <1>1, <2>2 DEF EntryInv, EntryAt, EntryPCs
    <3>2. ShownChain = <<>>
      BY <1>2, <3>1 DEF ShownChain, Readable
    <3>3. Whole(0) = <<>>
      BY DEF Whole
    <3> QED BY <3>1, <3>2, <3>3
  <2> QED BY <2>1, <2>2
<1>10. ShownOpen /\ ShownOpen'
  BY <1>2 DEF ShownOpen, BusyPCs
<1> QED BY <1>1, <1>8, <1>9, <1>10 DEF Ledger!lvars

\* The last byte of the record publishes it.
LEMMA WriteLedger ==
  ASSUME TypeOK, LockInv, EntryInv, RecordInv, ChainGood', NEW c \in Callers, WriteEntry(c)
  PROVE  Ledger!Publish
<1>1. /\ settled' = settled /\ pc[c] = "entryWrite" /\ pc'[c] = "entrySync" /\ Writes(c)
  BY DEF WriteEntry, Goto, TypeOK, Writes, EntryWrites
<1>2. AtWork(BusyPCs) /\ AtWork({"entryWrite"})
  BY <1>1, WriterShows DEF BusyPCs
<1>3. Unfinished /\ ~Readable
  BY <1>1, UnfinishedUnread DEF RecordInv
<1>4. /\ Count \in Nat /\ Count > 0 /\ DOMAIN entries = 0 .. Count - 1
      /\ Count - 1 \in DOMAIN entries
  BY <1>3 DEF Unfinished, Contiguous
<1>5. /\ home' = home /\ DOMAIN entries' = DOMAIN entries /\ Count' = Count
      /\ \A i \in DOMAIN entries : /\ entries'[i].snap = entries[i].snap
                                   /\ entries'[i].after = entries[i].after
                                   /\ entries[i].good => entries'[i].good
  BY RecordStep
<1>6. entries'[Count - 1].good
  <2>1. entries' = [entries EXCEPT ![Count - 1].good = TRUE]
    BY DEF WriteEntry
  <2>2. entries[Count - 1] \in EntryStates
    BY <1>4 DEF TypeOK
  <2> QED BY <1>4, <2>1, <2>2 DEF EntryStates
<1>7. \A i \in DOMAIN entries : entries'[i].good
  BY <1>3, <1>5, <1>6 DEF Unfinished
<1>8. Readable'
  <2>1. \A n \in HomeNames : home'[n].there /\ home'[n].good
    BY <1>3, <1>5 DEF Unfinished
  <2>2. \A i \in DOMAIN entries : i # 0 => i - 1 \in DOMAIN entries
    BY <1>4
  <2>3. \A i \in DOMAIN entries' :
          IF i = 0
          THEN entries'[i].snap = PreparedTransaction /\ entries'[i].after = {}
          ELSE /\ Transition(entries'[i - 1].snap, entries'[i].snap)
               /\ entries'[i].after = {entries'[i - 1].snap}
    BY <1>3, <1>5, <2>2 DEF Unfinished
  <2> QED BY <1>4, <1>5, <1>7, <2>1, <2>3 DEF Readable
<1>9. ShownChain = Whole(Count - 1) /\ ShownChain' = Whole(Count)'
  BY <1>2, <1>3, <1>4, <1>8 DEF ShownChain
<1>10. Whole(Count)' = [i \in 1 .. Count |-> entries'[i - 1].snap]
  BY <1>5 DEF Whole
<1>11. \A i \in 1 .. Count : entries'[i - 1].snap = entries[i - 1].snap
                             /\ entries[i - 1].snap \in Ledger!Snapshots
  <2>1. \A i \in 1 .. Count : i - 1 \in DOMAIN entries
    BY <1>4
  <2>2. \A i \in DOMAIN entries : entries[i].snap \in Snapshots
    BY DEF TypeOK, EntryStates
  <2> QED BY <1>5, <2>1, <2>2, LedgerRules
<1>12. /\ ShownChain' = Append(ShownChain, entries[Count - 1].snap)
       /\ Len(ShownChain') = Len(ShownChain) + 1
  <2>1. ShownChain = [i \in 1 .. Count - 1 |-> entries[i - 1].snap]
    BY <1>9 DEF Whole
  <2>2. ShownChain' = [i \in 1 .. Count |-> entries[i - 1].snap]
    BY <1>9, <1>10, <1>11
  <2>3. /\ \A i \in 1 .. Count : entries[i - 1].snap \in Ledger!Snapshots
        /\ \A i \in 1 .. Count - 1 : i \in 1 .. Count
        /\ Count - 1 \in Nat
    BY <1>4, <1>11
  <2>4. ShownChain \in [1 .. Count - 1 -> Ledger!Snapshots]
    BY <2>1, <2>3
  <2>5. ShownChain' \in [1 .. Count -> Ledger!Snapshots]
    BY <2>2, <2>3
  <2>6. ShownChain \in Seq(Ledger!Snapshots) /\ Len(ShownChain) = Count - 1
    BY <2>3, <2>4
  <2>7. ShownChain' \in Seq(Ledger!Snapshots) /\ Len(ShownChain') = Count
    BY <1>4, <2>5
  <2> QED BY <1>4, <1>11, <2>1, <2>2, <2>6, <2>7
<1>13. Ledger!LegalChain(ShownChain')
  BY <1>8, <1>9 DEF ChainGood
<1>14. ShownOpen = TRUE /\ ShownOpen' = TRUE
  BY <1>2, <1>8 DEF ShownOpen, BusyPCs
<1>15. entries[Count - 1].snap \in Ledger!Snapshots
  BY <1>4, <1>11
<1> QED BY <1>1, <1>12, <1>13, <1>14, <1>15 DEF Ledger!Publish

LEMMA SyncLedger ==
  ASSUME TypeOK, LockInv, EntryInv, NEW c \in Callers,
         SyncEntry(c) \/ SyncSnapshots(c) \/ SyncTransaction(c) \/ SyncRoot(c)
  PROVE  UNCHANGED Ledger!lvars
<1>1. /\ settled' = settled /\ Writes(c)
      /\ pc[c] \notin BusyPCs /\ pc'[c] \notin BusyPCs
  BY DEF SyncEntry, SyncSnapshots, SyncTransaction, SyncRoot, LinkHome, Goto, TypeOK, Writes,
     EntryWrites, BusyPCs
<1>2. /\ DOMAIN entries' = DOMAIN entries
      /\ \A i \in DOMAIN entries :
           /\ entries'[i].snap = entries[i].snap /\ entries'[i].after = entries[i].after
           /\ entries'[i].good = entries[i].good
  <2>1. CASE SyncEntry(c)
    <3>1. entries' = [entries EXCEPT ![Count - 1].synced = TRUE]
      BY <2>1 DEF SyncEntry
    <3>2. \A i \in DOMAIN entries : entries[i] \in EntryStates
      BY DEF TypeOK
    <3> QED BY <3>1, <3>2 DEF EntryStates
  <2>2. CASE SyncSnapshots(c)
    <3>1. entries' = [i \in DOMAIN entries |-> [entries[i] EXCEPT !.linked = TRUE]]
      BY <2>2 DEF SyncSnapshots
    <3>2. \A i \in DOMAIN entries : entries[i] \in EntryStates
      BY DEF TypeOK
    <3> QED BY <3>1, <3>2 DEF EntryStates
  <2>3. CASE SyncTransaction(c) \/ SyncRoot(c)
    BY <2>3, LinkFrame
  <2> QED BY <2>1, <2>2, <2>3
<1>3. \A n \in HomeNames : home'[n].there = home[n].there /\ home'[n].good = home[n].good
  <2>1. CASE SyncEntry(c) \/ SyncSnapshots(c)
    BY <2>1 DEF SyncEntry, SyncSnapshots
  <2>2. CASE SyncTransaction(c) \/ SyncRoot(c)
    BY <2>2, LinkFrame
  <2> QED BY <2>1, <2>2
<1>4. /\ Count' = Count /\ (Readable' <=> Readable)
      /\ Readable => Whole(Count)' = Whole(Count)
  BY <1>2, <1>3, SameRecords
<1>5. /\ ~AtWork(BusyPCs) /\ ~AtWork(BusyPCs)'
      /\ ~AtWork({"entryWrite"}) /\ ~AtWork({"entryWrite"})'
  BY <1>1, WriterShows DEF BusyPCs
<1>6. ShownChain' = ShownChain
  BY <1>4, <1>5 DEF ShownChain
<1>7. ShownOpen' = ShownOpen
  BY <1>3, <1>4, <1>5 DEF ShownOpen, BusyPCs, HomeNames
<1> QED BY <1>1, <1>6, <1>7 DEF Ledger!lvars

LEMMA AcknowledgeLedger ==
  ASSUME TypeOK, EntryInv, NEW c \in Callers, Acknowledge(c)
  PROVE  Ledger!Settle
<1>1. Readable /\ home' = home /\ entries' = entries /\ settled' = Whole(Count)
  BY AcknowledgeHistory
<1>2. Readable' /\ Count' = Count /\ Whole(Count)' = Whole(Count)
  BY <1>1 DEF Readable, Count, Whole
<1>3. ShownChain = Whole(Count) /\ ShownChain' = Whole(Count)
  BY <1>1, <1>2 DEF ShownChain
<1>4. ShownOpen = TRUE /\ ShownOpen' = TRUE
  BY <1>1, <1>2 DEF ShownOpen
<1> QED BY <1>1, <1>3, <1>4 DEF Ledger!Settle

LEMMA LedgerInit == ASSUME Init PROVE Ledger!LInit
<1>1. ~home["transaction"].there /\ settled = <<>> /\ \A c \in Callers : pc[c] = "idle"
  BY DEF Init, NoFile, HomeNames
<1>2. ~Readable /\ ~AtWork({"entryWrite"})
  BY <1>1 DEF Readable, HomeNames, AtWork
<1>3. ShownChain = <<>> /\ ShownOpen = TRUE
  BY <1>1, <1>2 DEF ShownChain, ShownOpen
<1> QED BY <1>1, <1>3 DEF Ledger!LInit

LEMMA LedgerStep ==
  ASSUME IInv, HistoryInv', ChainGood', [Next]_vars
  PROVE  Ledger!LNext \/ UNCHANGED Ledger!lvars
<1> USE DEF IInv, JournalInv
<1>1. CASE UNCHANGED vars
  BY <1>1 DEF vars, Ledger!lvars, ShownChain, ShownOpen, Readable, Count, Whole, AtWork
<1>2. CASE PowerLoss
  BY <1>2, LossLedger DEF Ledger!LNext
<1>3. ASSUME NEW c \in Callers, Quiet(c) PROVE Ledger!Seal \/ UNCHANGED Ledger!lvars
  BY <1>3, QuietLedger
<1>4. ASSUME NEW c \in Callers, Writes(c)
      PROVE  Ledger!Publish \/ Ledger!Settle \/ UNCHANGED Ledger!lvars
  <2>1. CASE Starts(c)
    BY <2>1, StartLedger
  <2>2. CASE PlanWrites(c)
    BY <2>2, PlanLedger
  <2>3. CASE OpenEntry(c)
    BY <2>3, OpenLedger
  <2>4. CASE WriteEntry(c)
    BY <2>4, WriteLedger
  <2>5. CASE SyncEntry(c) \/ SyncSnapshots(c) \/ SyncTransaction(c) \/ SyncRoot(c)
    BY <2>5, SyncLedger
  <2>6. CASE Acknowledge(c)
    BY <2>6, AcknowledgeLedger
  <2> QED BY <1>4, <2>1, <2>2, <2>3, <2>4, <2>5, <2>6 DEF Writes, EntryWrites
<1> QED BY <1>1, <1>2, <1>3, <1>4, QuietOrWrites DEF Ledger!LNext

\* The journal with its files, locks, deaths and power losses implements the
\* ledger: a legal chain that grows by one record when that record is whole,
\* keeps what was settled, and is shown in full or not at all.
THEOREM JournalImplementsLedger == Spec => ImplementsLedger
<1>1. Init => IInv /\ Ledger!LInit
  BY InitInv, LedgerInit
<1>2. IInv /\ [Next]_vars => IInv'
  BY NextInv
<1>3. IInv => HistoryInv /\ ChainGood
  BY ChainIsGood DEF IInv, JournalInv
<1>4. IInv /\ HistoryInv' /\ ChainGood' /\ [Next]_vars => [Ledger!LNext]_(Ledger!lvars)
  BY LedgerStep
<1> QED BY <1>1, <1>2, <1>3, <1>4, PTL DEF Spec, ImplementsLedger, Ledger!LSpec
=============================================================================
