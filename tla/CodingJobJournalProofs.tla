----------------------- MODULE CodingJobJournalProofs -----------------------
(***************************************************************************)
(* The journal of all coding jobs, for any number of processes, jobs,      *)
(* identities, calls, process deaths and power losses: JournalInv is       *)
(* inductive, and every promise about the history of a job follows from    *)
(* it.  The parts are proved one after the other, each by what the groups  *)
(* of steps do: a quiet step leaves the disk and the acknowledgements      *)
(* alone, and a writing one is made by the only caller that may write, and *)
(* touches the one job that its call is about.                             *)
(*                                                                         *)
(* The last part proves that the journal implements CodingJobLedger.  What *)
(* is shown is taken apart by job: a writing step shows in its own job     *)
(* only, and each case looks at that one.                                  *)
(***************************************************************************)
EXTENDS CodingJobJournal, TLAPS, FiniteSetTheorems

USE DEF disk

-----------------------------------------------------------------------------

(* The lifecycle: a transition goes forward and forgets nothing. *)

LEMMA TransitionAdvances ==
  ASSUME NEW t \in Lifecycles, NEW u \in Lifecycles, Reconstructs(t, u)
  PROVE  Rank[t.state] < Rank[u.state]
<1>1. t.state \in States /\ u.state \in AllowedStates[t.state]
  BY DEF Reconstructs, MayAdvance, Lifecycles
<1>2. \A s \in States : \A r \in AllowedStates[s] : Rank[s] < Rank[r]
  BY DEF States, AllowedStates, TerminalStates, Rank
<1> QED
  BY <1>1, <1>2

LEMMA TransitionKeeps ==
  ASSUME NEW t \in Lifecycles, NEW u \in Lifecycles, Reconstructs(t, u)
  PROVE  Keeps(t, u)
<1> SUFFICES ASSUME NEW f \in Fields, t.evidence[f] # NoId
             PROVE  u.evidence[f] = t.evidence[f]
  BY DEF Keeps, Recorded
<1>1. ~Contradicts(t.evidence, u.evidence)
  BY DEF Reconstructs, MayAdvance
<1>2. u.evidence[f] = Advance(t.evidence, u.evidence)[f]
  BY DEF Reconstructs, Successor
<1>3. u.evidence[f] # NoId
  BY <1>2 DEF Advance
<1> QED
  BY <1>1, <1>3 DEF Contradicts

LEMMA KeepsTransitive ==
  ASSUME NEW t, NEW u, NEW v, Keeps(t, u), Keeps(u, v)
  PROVE  Keeps(t, v)
BY DEF Keeps, Recorded

LEMMA RanksOfStates ==
  /\ \A s \in States : Rank[s] \in 0 .. 2
  /\ \A s \in TerminalStates : Rank[s] = 2
BY DEF States, TerminalStates, Rank

LEMMA RequestedTyped == RequestedLifecycle \in Lifecycles
BY DEF RequestedLifecycle, Lifecycles, States, NoEvidence, Evidence

-----------------------------------------------------------------------------

(* What the types say of the records of a job. *)

LEMMA EntriesTyped ==
  ASSUME TypeOK
  PROVE  /\ DOMAIN entries = Jobs
         /\ \A j \in Jobs :
              /\ DOMAIN entries[j] \subseteq 0 .. MaxSnapshots - 1
              /\ \A i \in DOMAIN entries[j] : i \in Nat /\ entries[j][i] \in EntryStates
              /\ Count(j) \in Nat
<1>1. \A j \in Jobs : DOMAIN entries[j] \subseteq 0 .. MaxSnapshots - 1
  BY DEF TypeOK
<1>2. MaxSnapshots - 1 \in Int
  BY BoundsAssumption
<1>3. \A j \in Jobs : Count(j) \in Nat
  <2> TAKE j \in Jobs
  <2>1. IsFiniteSet(0 .. MaxSnapshots - 1)
    BY <1>2, FS_Interval
  <2>2. DOMAIN entries[j] \in SUBSET (0 .. MaxSnapshots - 1)
    BY <1>1
  <2>3. IsFiniteSet(DOMAIN entries[j])
    BY ONLY <2>1, <2>2, FS_Subset
  <2> QED
    BY ONLY <2>3, FS_CardinalityType DEF Count
<1>4. \A j \in Jobs : \A i \in DOMAIN entries[j] : entries[j][i] \in EntryStates
  BY DEF TypeOK
<1> QED
  BY <1>1, <1>3, <1>4 DEF TypeOK

LEMMA TipTyped ==
  ASSUME TypeOK, NEW j \in Jobs, Readable(j)
  PROVE  /\ Count(j) \in Nat /\ Count(j) > 0 /\ Count(j) - 1 \in DOMAIN entries[j]
         /\ Tip(j) \in Lifecycles
<1>1. /\ Count(j) \in Nat /\ Count(j) > 0 /\ DOMAIN entries[j] = 0 .. Count(j) - 1
  BY EntriesTyped DEF Readable
<1>2. Count(j) - 1 \in DOMAIN entries[j]
  BY <1>1
<1>3. entries[j][Count(j) - 1] \in EntryStates
  BY <1>2, EntriesTyped
<1> QED
  BY <1>1, <1>2, <1>3 DEF Tip, EntryStates

\* A job whose directory of records and records stay is counted and read as before.
LEMMA SameJob ==
  ASSUME NEW j \in Jobs, entries'[j] = entries[j], home'[j] = home[j]
  PROVE  /\ Count(j)' = Count(j) /\ Tip(j)' = Tip(j)
         /\ Readable(j)' = Readable(j)
BY DEF Count, Tip, Readable, Intact, Follows

-----------------------------------------------------------------------------

(* The groups of steps. *)

DirectorySteps(c) == StartCreate(c) \/ MakeSnapshots(c) \/ SyncSnapshotsName(c) \/ SyncJobName(c)

RecordSteps(c) == WriteEntry(c) \/ SyncEntry(c) \/ SyncSnapshots(c)

Ends(c) == ReturnLoaded(c) \/ Refuse(c) \/ Raise(c) \/ Crash(c)

Quiet(c) == Begin(c) \/ Look(c) \/ Acquire(c) \/ Ends(c)

Writes(c) ==
  \/ DirectorySteps(c) \/ StartAppend(c) \/ OpenEntry(c) \/ RecordSteps(c)
  \/ SyncAbove(c) \/ Acknowledge(c)

LEMMA NextCases ==
  ASSUME [Next]_vars
  PROVE  \/ UNCHANGED vars
         \/ PowerLoss
         \/ \E c \in Callers : Quiet(c) \/ Writes(c)
BY DEF Next, Step, Quiet, Ends, Writes, DirectorySteps, RecordSteps

LEMMA EndsMove ==
  ASSUME NEW c \in Callers, Ends(c)
  PROVE  Release(c) /\ home' = home /\ entries' = entries /\ acks' = acks
BY DEF Ends, ReturnLoaded, Refuse, Raise, Crash

LEMMA QuietFrame ==
  ASSUME TypeOK, NEW c \in Callers, Quiet(c)
  PROVE  /\ home' = home /\ entries' = entries /\ acks' = acks
         /\ \A d \in Callers : pc'[d] \in WritePCs =>
              pc'[d] = pc[d] /\ call'[d] = call[d]
<1> USE DEF TypeOK, WritePCs, CreatePCs, OpenedPCs
<1>1. CASE Begin(c)
  <2>1. pc' = [pc EXCEPT ![c] = "look"] /\ home' = home /\ entries' = entries /\ acks' = acks
    BY <1>1 DEF Begin, Goto
  <2>2. \A d \in Callers : d # c => call'[d] = call[d]
    BY <1>1 DEF Begin
  <2> QED
    BY <2>1, <2>2
<1>2. CASE Look(c)
  BY <1>2 DEF Look, Goto
<1>3. CASE Acquire(c)
  BY <1>3 DEF Acquire
<1>4. CASE Ends(c)
  BY <1>4, EndsMove DEF Release
<1> QED
  BY <1>1, <1>2, <1>3, <1>4 DEF Quiet

\* Where a writing step comes from, and where it goes.
LEMMA WritesMove ==
  ASSUME TypeOK, NEW c \in Callers, Writes(c)
  PROVE  /\ pc[c] \in WritePCs \/ (pc[c] = "locked" /\ call[c].op \in {"create", "append"})
         /\ \A d \in Callers : d # c =>
              pc'[d] = pc[d] /\ call'[d] = call[d] /\ held'[d] = held[d]
         /\ \/ pc'[c] \in WritePCs /\ call' = call /\ held' = held
            \/ pc'[c] = "idle" /\ Acknowledge(c)
<1> DEFINE Goes == /\ pc'[c] \in WritePCs /\ call' = call /\ held' = held
                   /\ \A d \in Callers : d # c => pc'[d] = pc[d]
           Comes == pc[c] \in WritePCs \/ (pc[c] = "locked" /\ call[c].op \in {"create", "append"})
<1>0. pc \in [Callers -> PCs]
  BY DEF TypeOK
<1>1. ASSUME StartCreate(c) \/ StartAppend(c) PROVE Comes /\ Goes
  <2>1. Comes /\ call' = call /\ held' = held
    BY <1>1 DEF StartCreate, StartAppend, DirectoryStep, Goto
  <2>2. pc' = [pc EXCEPT ![c] = "mkdir"] \/ pc' = [pc EXCEPT ![c] = "entryOpen"]
    BY <1>1 DEF StartCreate, StartAppend, DirectoryStep, Goto
  <2> QED
    BY <1>0, <2>1, <2>2 DEF WritePCs, CreatePCs
<1>2. ASSUME MakeSnapshots(c) PROVE Comes /\ Goes
  BY <1>0, <1>2 DEF MakeSnapshots, DirectoryStep, Goto, WritePCs, CreatePCs
<1>3. ASSUME SyncSnapshotsName(c) PROVE Comes /\ Goes
  BY <1>0, <1>3 DEF SyncSnapshotsName, DirectoryStep, Goto, WritePCs, CreatePCs
<1>4. ASSUME SyncJobName(c) PROVE Comes /\ Goes
  BY <1>0, <1>4 DEF SyncJobName, DirectoryStep, Goto, WritePCs, CreatePCs
<1>5. ASSUME OpenEntry(c) PROVE Comes /\ Goes
  BY <1>0, <1>5 DEF OpenEntry, Goto, WritePCs, OpenedPCs
<1>6. ASSUME WriteEntry(c) PROVE Comes /\ Goes
  BY <1>0, <1>6 DEF WriteEntry, Goto, WritePCs, OpenedPCs
<1>7. ASSUME SyncEntry(c) PROVE Comes /\ Goes
  BY <1>0, <1>7 DEF SyncEntry, Goto, WritePCs, OpenedPCs
<1>8. ASSUME SyncSnapshots(c) PROVE Comes /\ Goes
  BY <1>0, <1>8 DEF SyncSnapshots, Goto, WritePCs, OpenedPCs
<1>9. ASSUME SyncAbove(c) PROVE Comes /\ Goes
  BY <1>0, <1>9 DEF SyncAbove, Goto, WritePCs, OpenedPCs
<1>10. CASE Acknowledge(c)
  <2>1. pc[c] = "reload" /\ Release(c)
    BY <1>10 DEF Acknowledge
  <2>2. held' = [held EXCEPT ![c] = "none"] /\ call' = [call EXCEPT ![c] = NoCall]
        /\ pc' = [pc EXCEPT ![c] = "idle"]
    BY <2>1 DEF Release
  <2>3. DOMAIN pc = Callers /\ DOMAIN held = Callers /\ DOMAIN call = Callers
    BY DEF TypeOK
  <2>4. /\ pc'[c] = "idle"
        /\ \A d \in Callers : d # c => pc'[d] = pc[d] /\ call'[d] = call[d] /\ held'[d] = held[d]
    BY ONLY <2>2, <2>3
  <2>5. pc[c] \in WritePCs
    BY <2>1 DEF WritePCs, OpenedPCs
  <2> QED
    BY <1>10, <2>4, <2>5
<1>11. CASE Comes /\ Goes
  BY <1>11
<1> HIDE DEF Goes, Comes
<1> QED
  BY <1>1, <1>2, <1>3, <1>4, <1>5, <1>6, <1>7, <1>8, <1>9, <1>10, <1>11
     DEF Writes, DirectorySteps, RecordSteps

-----------------------------------------------------------------------------

(* The lock and the calls. *)

LEMMA LockStep ==
  ASSUME TypeOK, LockInv, [Next]_vars
  PROVE  LockInv'
<1> USE DEF TypeOK, LockInv, WritePCs, CreatePCs, OpenedPCs
<1>1. CASE UNCHANGED vars
  BY <1>1 DEF vars, LockMode
<1>2. CASE PowerLoss
  BY <1>2 DEF PowerLoss
<1>3. ASSUME NEW c \in Callers, Begin(c)
      PROVE  LockInv'
  <2>1. /\ pc[c] = "idle" /\ pc' = [pc EXCEPT ![c] = "look"] /\ held' = held
        /\ \A d \in Callers : d # c => call'[d] = call[d]
    BY <1>3 DEF Begin, Goto
  <2> QED
    BY <2>1 DEF LockMode
<1>4. ASSUME NEW c \in Callers, Look(c)
      PROVE  LockInv'
  BY <1>4 DEF Look, Goto, LockMode
<1>5. ASSUME NEW c \in Callers, Acquire(c)
      PROVE  LockInv'
  BY <1>5 DEF Acquire, LockMode
<1>6. ASSUME NEW c \in Callers, Ends(c)
      PROVE  LockInv'
  <2>1. /\ held' = [held EXCEPT ![c] = "none"] /\ pc' = [pc EXCEPT ![c] = "idle"]
        /\ call' = [call EXCEPT ![c] = NoCall]
    BY <1>6, EndsMove DEF Release
  <2> QED
    BY <2>1 DEF LockMode
<1>7. ASSUME NEW c \in Callers, Writes(c)
      PROVE  LockInv'
  <2>1. /\ \A d \in Callers : d # c =>
             pc'[d] = pc[d] /\ call'[d] = call[d] /\ held'[d] = held[d]
        /\ held[c] = "EX"
    BY <1>7, WritesMove DEF LockMode
  <2>2. CASE pc'[c] \in WritePCs /\ call' = call /\ held' = held
    BY <2>1, <2>2 DEF LockMode
  <2>3. CASE Acknowledge(c)
    <3>1. held' = [held EXCEPT ![c] = "none"] /\ pc' = [pc EXCEPT ![c] = "idle"]
      BY <2>3 DEF Acknowledge, Release
    <3> QED
      BY <2>1, <3>1 DEF LockMode
  <2> QED
    BY <1>7, <2>2, <2>3, WritesMove
<1> QED
  BY <1>1, <1>2, <1>3, <1>4, <1>5, <1>6, <1>7, NextCases DEF Quiet

\* Whoever writes does so alone.
LEMMA OneWriter ==
  ASSUME TypeOK, LockInv, NEW c \in Callers, Writes(c), NEW d \in Callers, d # c
  PROVE  pc'[d] = pc[d] /\ pc[d] \notin WritePCs /\ pc[d] # "locked"
<1>1. held[c] = "EX"
  BY WritesMove DEF LockInv, LockMode
<1>2. held[d] = "none"
  BY <1>1 DEF LockInv
<1>3. pc[d] \notin WritePCs /\ pc[d] # "locked"
  BY <1>2 DEF LockInv, LockMode
<1> QED
  BY <1>3, WritesMove

LEMMA BeginShape ==
  ASSUME TypeOK, NEW c \in Callers, Begin(c)
  PROVE  /\ \E what \in Calls :
              /\ call' = [call EXCEPT ![c] = what]
              /\ what.op = "create" => what.expected = {} /\ what.successor = RequestedLifecycle
         /\ pc[c] = "idle" /\ pc' = [pc EXCEPT ![c] = "look"] /\ held' = held
         /\ home' = home /\ entries' = entries /\ seen' = seen /\ acks' = acks
         /\ spent' = [spent EXCEPT !.calls = @ + 1]
<1>1. PICK j \in Jobs :
        \E what \in {CreateCall(j), LoadCall(j)} \cup
                    (IF seen[c][j] = {} THEN {}
                     ELSE {AppendCall(j, seen[c][j], u) : u \in ValidLifecycles}) :
          call' = [call EXCEPT ![c] = what]
  BY DEF Begin
<1>2. PICK what \in {CreateCall(j), LoadCall(j)} \cup
                    {AppendCall(j, seen[c][j], u) : u \in ValidLifecycles} :
        call' = [call EXCEPT ![c] = what]
  BY <1>1
<1>3. seen[c][j] \subseteq Lifecycles
  BY DEF TypeOK
<1>4. /\ what \in Calls
      /\ what.op = "create" => what.expected = {} /\ what.successor = RequestedLifecycle
  BY <1>2, <1>3, RequestedTyped DEF CreateCall, LoadCall, AppendCall, Calls, ValidLifecycles
<1> QED
  BY <1>2, <1>4 DEF Begin, Goto

LEMMA CallStep ==
  ASSUME TypeOK, CallInv, [Next]_vars
  PROVE  CallInv'
<1> USE DEF TypeOK, CallInv, WritePCs, CreatePCs, OpenedPCs
<1>1. CASE UNCHANGED vars
  BY <1>1 DEF vars
<1>2. CASE PowerLoss
  BY <1>2 DEF PowerLoss, NoCall
<1>3. ASSUME NEW c \in Callers, Begin(c)
      PROVE  CallInv'
  BY <1>3, BeginShape
<1>4. ASSUME NEW c \in Callers, Look(c)
      PROVE  CallInv'
  BY <1>4 DEF Look, Goto
<1>5. ASSUME NEW c \in Callers, Acquire(c)
      PROVE  CallInv'
  BY <1>5 DEF Acquire
<1>6. ASSUME NEW c \in Callers, Ends(c) \/ Acknowledge(c)
      PROVE  CallInv'
  <2>1. pc' = [pc EXCEPT ![c] = "idle"] /\ call' = [call EXCEPT ![c] = NoCall]
    BY <1>6, EndsMove DEF Release, Acknowledge
  <2> QED
    BY <2>1 DEF NoCall
<1>7. ASSUME NEW c \in Callers, Writes(c), call' = call, pc'[c] \in WritePCs
      PROVE  CallInv'
  <2>1. pc[c] # "idle" /\ call[c].op # "load"
    BY <1>7, WritesMove
  <2>2. pc'[c] \in CreatePCs => call[c].op = "create"
    <3>1. CASE StartCreate(c)
      BY <3>1 DEF StartCreate
    <3>2. CASE MakeSnapshots(c) \/ SyncSnapshotsName(c) \/ SyncJobName(c)
      BY <3>2 DEF MakeSnapshots, SyncSnapshotsName, SyncJobName, DirectoryStep
    <3>3. CASE StartAppend(c) \/ OpenEntry(c)
      BY <3>3 DEF StartAppend, OpenEntry, Goto
    <3>4. CASE RecordSteps(c) \/ SyncAbove(c)
      BY <3>4 DEF RecordSteps, WriteEntry, SyncEntry, SyncSnapshots, SyncAbove, Goto
    <3>5. CASE Acknowledge(c)
      BY <1>7, <3>5 DEF Acknowledge, Release
    <3> QED
      BY <1>7, <3>1, <3>2, <3>3, <3>4, <3>5 DEF Writes, DirectorySteps
  <2>3. \A d \in Callers : d # c => pc'[d] = pc[d]
    BY <1>7, WritesMove
  <2> QED
    BY <1>7, <2>1, <2>2, <2>3
<1> QED
  BY <1>1, <1>2, <1>3, <1>4, <1>5, <1>6, <1>7, NextCases, WritesMove DEF Quiet

\* The call of a writing step is about one job.
LEMMA WriterCall ==
  ASSUME TypeOK, CallInv, NEW c \in Callers, Writes(c)
  PROVE  /\ call[c] \in Calls /\ call[c].job \in Jobs
         /\ call[c].expected \subseteq Lifecycles /\ call[c].successor \in Lifecycles
<1>1. pc[c] # "idle"
  BY WritesMove DEF WritePCs, CreatePCs, OpenedPCs
<1> QED
  BY <1>1 DEF CallInv, Calls

-----------------------------------------------------------------------------

(* What each writing step does to the job of its call, and to no other. *)

Linked == [there |-> TRUE, linked |-> TRUE]

\* One directory of the job is made, or its name made durable.
LEMMA DirectoryShape ==
  ASSUME TypeOK, CallInv, NEW c \in Callers, DirectorySteps(c)
  PROVE  \E d \in DirNames, node \in {Made, Linked} :
           /\ home' = [home EXCEPT ![call[c].job][d] = node]
           /\ entries' = entries /\ acks' = acks /\ call' = call
           /\ \/ /\ pc[c] = "locked" /\ pc'[c] = "mkdir" /\ d = "job" /\ node = Made
                 /\ ~home[call[c].job]["job"].there
              \/ pc[c] = "mkdir" /\ pc'[c] = "syncSnapshotsName" /\ d = "snapshots" /\ node = Made
              \/ pc[c] = "syncSnapshotsName" /\ pc'[c] = "syncJobName" /\ d = "snapshots" /\ node = Linked
              \/ pc[c] = "syncJobName" /\ pc'[c] = "entryOpen" /\ d = "job" /\ node = Linked
<1> USE DEF TypeOK, DirectoryStep, Goto, Linked, DirNames
<1>1. CASE StartCreate(c)
  BY <1>1 DEF StartCreate
<1>2. CASE MakeSnapshots(c)
  BY <1>2 DEF MakeSnapshots
<1>3. CASE SyncSnapshotsName(c)
  BY <1>3 DEF SyncSnapshotsName
<1>4. CASE SyncJobName(c)
  BY <1>4 DEF SyncJobName
<1> QED
  BY <1>1, <1>2, <1>3, <1>4 DEF DirectorySteps

\* A record is appended that names its predecessor.
LEMMA OpenEntryShape ==
  ASSUME TypeOK, CallInv, EntryInv, NEW c \in Callers, OpenEntry(c), NEW j, j = call[c].job
  PROVE  /\ j \in Jobs /\ Count(j) \in Nat /\ DOMAIN entries[j] = 0 .. Count(j) - 1
         /\ home' = home /\ acks' = acks /\ call' = call /\ pc'[c] = "entryWrite"
         /\ DOMAIN entries' = Jobs /\ \A k \in Jobs : k # j => entries'[k] = entries[k]
         /\ entries' = [entries EXCEPT ![j] = entries'[j]]
         /\ DOMAIN entries'[j] = 0 .. Count(j) /\ Count(j)' = Count(j) + 1
         /\ \A i \in DOMAIN entries[j] : entries'[j][i] = entries[j][i]
         /\ entries'[j][Count(j)] = Entry(call[c].successor, call[c].expected)
         /\ Count(j) < MaxSnapshots
         /\ Count(j) = 0 => call[c].expected = {}
         /\ Count(j) > 0 => /\ call[c].expected = {Tip(j)} /\ Tip(j) \in Lifecycles
                            /\ Reconstructs(Tip(j), call[c].successor)
<1> DEFINE n == Count(j)
<1>1. /\ pc[c] = "entryOpen" /\ EntryAt(c) /\ j \in Jobs /\ n \in Nat
      /\ call[c].op \in {"create", "append"} /\ call[c] \in Calls
  <2>1. pc[c] = "entryOpen"
    BY DEF OpenEntry
  <2>2. call[c] \in Calls /\ call[c].op # "load"
    BY <2>1 DEF CallInv, WritePCs
  <2>3. call[c].job \in Jobs /\ call[c].op \in {"create", "append"}
    BY <2>2 DEF Calls
  <2>4. EntryAt(c)
    BY <2>1 DEF EntryInv
  <2> QED
    BY <2>1, <2>2, <2>3, <2>4, EntriesTyped
<1>2. DOMAIN entries[j] = 0 .. n - 1 /\ DOMAIN entries = Jobs
  BY <1>1, EntriesTyped DEF EntryAt
<1>3. /\ n < MaxSnapshots
      /\ n = 0 => call[c].expected = {}
      /\ n > 0 => call[c].expected = {Tip(j)} /\ Reconstructs(Tip(j), call[c].successor)
  <2>1. CASE call[c].op = "append"
    BY <1>1, <2>1 DEF EntryAt
  <2>2. CASE call[c].op = "create"
    <3>1. n = 0
      BY <1>1, <2>2 DEF EntryAt
    <3>2. call[c].expected = {}
      BY <2>2 DEF CallInv
    <3> QED
      BY <3>1, <3>2, BoundsAssumption
  <2> QED
    BY <1>1, <2>1, <2>2
<1>4. n > 0 => Tip(j) \in Lifecycles
  <2> SUFFICES ASSUME n > 0 PROVE Tip(j) \in Lifecycles
    OBVIOUS
  <2>1. n - 1 \in DOMAIN entries[j]
    BY <1>1, <1>2
  <2>2. entries[j][n - 1] \in EntryStates
    BY <1>1, <2>1, EntriesTyped
  <2> QED
    BY <2>2 DEF Tip, EntryStates
<1> DEFINE new == [i \in 0 .. n |-> IF i < n THEN entries[j][i]
                                    ELSE Entry(call[c].successor, IF n = 0 THEN {} ELSE {Tip(j)})]
<1>5. /\ entries' = [entries EXCEPT ![j] = new]
      /\ home' = home /\ acks' = acks /\ call' = call /\ pc' = [pc EXCEPT ![c] = "entryWrite"]
  BY DEF OpenEntry, Goto
<1>6. pc'[c] = "entryWrite"
  BY <1>5 DEF TypeOK
<1>7. /\ DOMAIN new = 0 .. n /\ \A i \in DOMAIN entries[j] : new[i] = entries[j][i]
      /\ new[n] = Entry(call[c].successor, call[c].expected)
  <2>1. n \in 0 .. n /\ ~(n < n) /\ \A i \in DOMAIN entries[j] : i \in 0 .. n /\ i < n
    BY <1>1, <1>2
  <2>2. call[c].expected = IF n = 0 THEN {} ELSE {Tip(j)}
    BY <1>1, <1>3
  <2> QED
    BY <2>1, <2>2
<1> HIDE DEF new
<1>8. entries'[j] = new /\ DOMAIN entries' = Jobs /\ \A k \in Jobs : k # j => entries'[k] = entries[k]
  BY <1>1, <1>2, <1>5
<1>9. Count(j)' = n + 1
  BY <1>1, <1>7, <1>8, FS_Interval DEF Count
<1> QED
  BY <1>1, <1>2, <1>3, <1>4, <1>5, <1>6, <1>7, <1>8, <1>9

\* A step on the records of a job changes nothing but their bits.
LEMMA RecordShape ==
  ASSUME TypeOK, CallInv, EntryInv, NEW c \in Callers, RecordSteps(c), NEW j, j = call[c].job
  PROVE  /\ j \in Jobs /\ EntryAt(c) /\ pc[c] \in OpenedPCs
         /\ home' = home /\ acks' = acks /\ call' = call
         /\ DOMAIN entries' = Jobs /\ \A k \in Jobs : k # j => entries'[k] = entries[k]
         /\ entries' = [entries EXCEPT ![j] = entries'[j]]
         /\ DOMAIN entries'[j] = DOMAIN entries[j] /\ Count(j)' = Count(j)
         /\ \A i \in DOMAIN entries[j] :
              /\ entries'[j][i] \in EntryStates
              /\ entries'[j][i].snap = entries[j][i].snap
              /\ entries'[j][i].after = entries[j][i].after
              /\ entries[j][i].good => entries'[j][i].good
              /\ entries[j][i].synced => entries'[j][i].synced
              /\ entries[j][i].linked => entries'[j][i].linked
<1>1. pc[c] \in OpenedPCs
  BY DEF RecordSteps, WriteEntry, SyncEntry, SyncSnapshots, OpenedPCs
<1>2. EntryAt(c) /\ j \in Jobs
  <2>1. call[c] \in Calls
    BY <1>1 DEF CallInv, OpenedPCs
  <2> QED
    BY <1>1, <2>1 DEF EntryInv, Calls
<1>3. /\ DOMAIN entries = Jobs /\ Count(j) \in Nat
      /\ \A i \in DOMAIN entries[j] : entries[j][i] \in EntryStates
  BY <1>2, EntriesTyped
<1>4. Count(j) - 1 \in DOMAIN entries[j]
  BY <1>1, <1>2, <1>3 DEF EntryAt
<1>5. /\ home' = home /\ acks' = acks /\ call' = call
      /\ entries' = [entries EXCEPT ![j] = entries'[j]]
      /\ DOMAIN entries'[j] = DOMAIN entries[j]
      /\ \A i \in DOMAIN entries[j] :
           \/ entries'[j][i] = entries[j][i]
           \/ entries'[j][i] = [entries[j][i] EXCEPT !.good = TRUE]
           \/ entries'[j][i] = [entries[j][i] EXCEPT !.synced = TRUE]
           \/ entries'[j][i] = [entries[j][i] EXCEPT !.linked = TRUE]
  <2>1. CASE WriteEntry(c)
    BY <1>2, <1>3, <1>4, <2>1 DEF WriteEntry
  <2>2. CASE SyncEntry(c)
    BY <1>2, <1>3, <1>4, <2>2 DEF SyncEntry
  <2>3. CASE SyncSnapshots(c)
    BY <1>2, <1>3, <2>3 DEF SyncSnapshots
  <2> QED
    BY <2>1, <2>2, <2>3 DEF RecordSteps
<1>6. \A i \in DOMAIN entries[j] :
         /\ entries'[j][i] \in EntryStates
         /\ entries'[j][i].snap = entries[j][i].snap
         /\ entries'[j][i].after = entries[j][i].after
         /\ entries[j][i].good => entries'[j][i].good
         /\ entries[j][i].synced => entries'[j][i].synced
         /\ entries[j][i].linked => entries'[j][i].linked
  <2> TAKE i \in DOMAIN entries[j]
  <2> DEFINE e == entries[j][i]
             f == entries'[j][i]
  <2>1. /\ e \in EntryStates
        /\ \/ f = e \/ f = [e EXCEPT !.good = TRUE] \/ f = [e EXCEPT !.synced = TRUE]
           \/ f = [e EXCEPT !.linked = TRUE]
    BY <1>3, <1>5
  <2> HIDE DEF e, f
  <2>2. /\ f \in EntryStates /\ f.snap = e.snap /\ f.after = e.after
        /\ (e.good => f.good) /\ (e.synced => f.synced) /\ (e.linked => f.linked)
    BY ONLY <2>1 DEF EntryStates
  <2> QED
    BY <2>2 DEF e, f
<1> QED
  BY <1>1, <1>2, <1>3, <1>5, <1>6 DEF Count

LEMMA SyncAboveShape ==
  ASSUME TypeOK, CallInv, EntryInv, NEW c \in Callers, SyncAbove(c), NEW j, j = call[c].job
  PROVE  /\ j \in Jobs /\ EntryAt(c) /\ pc[c] = "syncAbove" /\ pc'[c] = "reload"
         /\ entries' = entries /\ acks' = acks /\ call' = call
         /\ home' \in [Jobs -> [DirNames -> [there : BOOLEAN, linked : BOOLEAN]]]
         /\ \A k \in Jobs : k # j => home'[k] = home[k]
         /\ \A d \in DirNames : home'[j][d].there = home[j][d].there /\ home'[j][d].linked
<1>1. pc[c] = "syncAbove" /\ pc' = [pc EXCEPT ![c] = "reload"] /\ entries' = entries
      /\ acks' = acks /\ call' = call
      /\ home' = [home EXCEPT ![j] = [d \in DOMAIN home[j] |-> [home[j][d] EXCEPT !.linked = TRUE]]]
  BY DEF SyncAbove, Goto
<1>2. EntryAt(c) /\ j \in Jobs
  <2>1. call[c] \in Calls
    BY <1>1 DEF CallInv
  <2> QED
    BY <1>1, <2>1 DEF EntryInv, OpenedPCs, Calls
<1>3. home'[j] = [d \in DirNames |-> [home[j][d] EXCEPT !.linked = TRUE]]
  BY <1>1, <1>2 DEF TypeOK
<1>4. \A d \in DirNames : /\ home'[j][d].there = home[j][d].there /\ home'[j][d].linked
                          /\ home'[j][d] \in [there : BOOLEAN, linked : BOOLEAN]
  <2> TAKE d \in DirNames
  <2>1. home[j][d] \in [there : BOOLEAN, linked : BOOLEAN] /\ home'[j][d] = [home[j][d] EXCEPT !.linked = TRUE]
    BY <1>2, <1>3 DEF TypeOK
  <2> QED
    BY ONLY <2>1
<1>5. /\ home' \in [Jobs -> [DirNames -> [there : BOOLEAN, linked : BOOLEAN]]]
      /\ \A k \in Jobs : k # j => home'[k] = home[k]
  BY <1>1, <1>2, <1>3, <1>4 DEF TypeOK
<1> QED
  BY <1>1, <1>2, <1>4, <1>5 DEF TypeOK

\* A power loss takes no name and no byte that was made durable, and nothing
\* without what is below it.
Survives(j) ==
  /\ DOMAIN entries'[j] \subseteq DOMAIN entries[j]
  /\ \A i \in DOMAIN entries'[j] :
       /\ entries'[j][i] \in EntryStates
       /\ entries'[j][i].snap = entries[j][i].snap
       /\ entries'[j][i].after = entries[j][i].after
       /\ entries'[j][i].synced /\ entries'[j][i].linked
       /\ entries[j][i].good /\ entries[j][i].synced => entries'[j][i].good
       /\ entries'[j][i].good => entries[j][i].good
  /\ (\A d \in DirNames : home[j][d].there /\ home[j][d].linked) =>
       \A i \in DOMAIN entries[j] : entries[j][i].linked => i \in DOMAIN entries'[j]
  /\ \A d \in DirNames :
       /\ home'[j][d] = Linked \/ home'[j][d] = NoDir
       /\ home'[j][d].there /\ home[j]["job"].there => home'[j]["job"].there
       /\ home'[j][d].there => home[j][d].there
  /\ (\A d \in DirNames : home[j][d].there /\ home[j][d].linked) =>
       \A d \in DirNames : home'[j][d] = Linked

LEMMA LossShape ==
  ASSUME TypeOK, PowerLoss
  PROVE  /\ acks' = acks /\ spent'.losses = spent.losses + 1
         /\ \A c \in Callers : pc'[c] = "idle"
         /\ DOMAIN home' = Jobs /\ DOMAIN entries' = Jobs
         /\ entries' = [j \in Jobs |-> entries'[j]]
         /\ \A j \in Jobs : home'[j] \in [DirNames -> {Linked, NoDir}] /\ Survives(j)
<1>1. PICK gone \in SUBSET {x \in Jobs \X DirNames :
                               home[x[1]][x[2]].there /\ ~home[x[1]][x[2]].linked},
           lost \in SUBSET {x \in Records : ~entries[x[1]][x[2]].linked},
           ripped \in SUBSET {x \in Records : ~entries[x[1]][x[2]].synced} :
        LET left(j) == {d \in DirNames : home[j][d].there /\
                         {<<j, d>>, <<j, "job">>} \cap gone = {}}
            kept(j) == {i \in DOMAIN entries[j] : "snapshots" \in left(j) /\ <<j, i>> \notin lost}
        IN  /\ home' = [j \in Jobs |-> [d \in DirNames |->
                          IF d \in left(j) THEN [there |-> TRUE, linked |-> TRUE] ELSE NoDir]]
            /\ entries' = [j \in Jobs |-> [i \in kept(j) |->
                 [entries[j][i] EXCEPT !.good = @ /\ <<j, i>> \notin ripped,
                                       !.synced = TRUE, !.linked = TRUE]]]
  BY DEF PowerLoss
<1> DEFINE left(j) == {d \in DirNames : home[j][d].there /\
                         {<<j, d>>, <<j, "job">>} \cap gone = {}}
           kept(j) == {i \in DOMAIN entries[j] : "snapshots" \in left(j) /\ <<j, i>> \notin lost}
<1>2. \A j \in Jobs : home'[j] = [d \in DirNames |-> IF d \in left(j) THEN Linked ELSE NoDir]
  BY <1>1 DEF Linked
<1>3. \A j \in Jobs : /\ DOMAIN entries'[j] = kept(j)
                      /\ \A i \in kept(j) :
                           entries'[j][i] = [entries[j][i] EXCEPT !.good = @ /\ <<j, i>> \notin ripped,
                                                                  !.synced = TRUE, !.linked = TRUE]
  BY <1>1
<1>4. \A j, i : /\ <<j, i>> \in gone => ~home[j][i].linked
                /\ <<j, i>> \in lost => ~entries[j][i].linked
                /\ <<j, i>> \in ripped => ~entries[j][i].synced
  <2>1. /\ \A x \in gone : ~home[x[1]][x[2]].linked
        /\ \A x \in lost : ~entries[x[1]][x[2]].linked
        /\ \A x \in ripped : ~entries[x[1]][x[2]].synced
    OBVIOUS
  <2> QED
    BY ONLY <2>1
<1>5. /\ DOMAIN home' = Jobs /\ DOMAIN entries' = Jobs
      /\ entries' = [j \in Jobs |-> entries'[j]]
  BY <1>1
<1>6. \A j \in Jobs : \A d \in DirNames :
        d \in left(j) <=> home[j][d].there /\ <<j, d>> \notin gone /\ <<j, "job">> \notin gone
  OBVIOUS
<1>7. \A j \in Jobs : \A i \in DOMAIN entries[j] :
        i \in kept(j) <=> "snapshots" \in left(j) /\ <<j, i>> \notin lost
  OBVIOUS
<1>8. \A j \in Jobs : kept(j) \subseteq DOMAIN entries[j]
  OBVIOUS
<1> HIDE DEF left, kept
<1>9. ASSUME NEW j \in Jobs
      PROVE  home'[j] \in [DirNames -> {Linked, NoDir}] /\ Survives(j)
  <2>1. \A d \in DirNames : home'[j][d] = IF d \in left(j) THEN Linked ELSE NoDir
    BY <1>2
  <2>2. ASSUME NEW i \in DOMAIN entries'[j]
        PROVE  /\ entries'[j][i] \in EntryStates
               /\ entries'[j][i].snap = entries[j][i].snap
               /\ entries'[j][i].after = entries[j][i].after
               /\ entries'[j][i].synced /\ entries'[j][i].linked
               /\ entries[j][i].good /\ entries[j][i].synced => entries'[j][i].good
               /\ entries'[j][i].good => entries[j][i].good
    <3> DEFINE e == entries[j][i]
               f == entries'[j][i]
               intact == <<j, i>> \notin ripped
    <3>1. /\ e \in EntryStates /\ intact \in BOOLEAN
          /\ f = [e EXCEPT !.good = @ /\ intact, !.synced = TRUE, !.linked = TRUE]
      BY <1>3, <1>8, EntriesTyped
    <3>2. e.synced => intact
      BY <1>4
    <3> HIDE DEF e, f, intact
    <3>3. /\ f \in EntryStates /\ f.snap = e.snap /\ f.after = e.after /\ f.synced /\ f.linked
          /\ (e.good /\ e.synced => f.good) /\ (f.good => e.good)
      BY ONLY <3>1, <3>2 DEF EntryStates
    <3> QED
      BY <3>3 DEF e, f
  <2>3. ASSUME \A d \in DirNames : home[j][d].there /\ home[j][d].linked
        PROVE  \A d \in DirNames : d \in left(j)
    BY <1>4, <1>6, <2>3 DEF DirNames
  <2>4. ASSUME \A d \in DirNames : home[j][d].there /\ home[j][d].linked,
               NEW i \in DOMAIN entries[j], entries[j][i].linked
        PROVE  i \in DOMAIN entries'[j]
    <3>1. "snapshots" \in left(j)
      BY <2>3, <2>4 DEF DirNames
    <3>2. <<j, i>> \notin lost
      BY <1>4, <2>4
    <3> QED
      BY <1>3, <1>7, <3>1, <3>2
  <2>5. ASSUME NEW d \in DirNames
        PROVE  /\ home'[j][d] = Linked \/ home'[j][d] = NoDir
               /\ home'[j][d].there /\ home[j]["job"].there => home'[j]["job"].there
               /\ home'[j][d].there => home[j][d].there
    <3>1. /\ home'[j][d] = Linked \/ home'[j][d] = NoDir
          /\ home'[j][d].there => d \in left(j)
      BY <2>1 DEF Linked, NoDir
    <3>2. d \in left(j) /\ home[j]["job"].there => "job" \in left(j)
      BY <1>6 DEF DirNames
    <3>3. "job" \in left(j) => home'[j]["job"].there
      BY <2>1 DEF DirNames, Linked
    <3>4. d \in left(j) => home[j][d].there
      BY <1>6
    <3> QED
      BY <3>1, <3>2, <3>3, <3>4
  <2> QED
    BY <1>2, <1>3, <1>8, <2>1, <2>2, <2>3, <2>4, <2>5 DEF Survives
<1> QED
  BY <1>5, <1>9 DEF PowerLoss, TypeOK

-----------------------------------------------------------------------------

(* The type invariant. *)

LEMMA ControlTyped ==
  ASSUME TypeOK, [Next]_vars
  PROVE  /\ held' \in [Callers -> {"none", "SH", "EX"}]
         /\ pc' \in [Callers -> PCs]
         /\ call' \in [Callers -> Calls \cup {NoCall}]
<1> USE DEF TypeOK, PCs, WritePCs, CreatePCs, OpenedPCs
<1>1. CASE UNCHANGED vars
  BY <1>1 DEF vars
<1>2. CASE PowerLoss
  BY <1>2 DEF PowerLoss
<1>3. ASSUME NEW c \in Callers, Begin(c)
      PROVE  /\ held' \in [Callers -> {"none", "SH", "EX"}] /\ pc' \in [Callers -> PCs]
             /\ call' \in [Callers -> Calls \cup {NoCall}]
  <2>1. PICK what \in Calls : call' = [call EXCEPT ![c] = what]
    BY <1>3, BeginShape
  <2>2. pc' = [pc EXCEPT ![c] = "look"] /\ held' = held
    BY <1>3, BeginShape
  <2> QED
    BY <2>1, <2>2
<1>4. ASSUME NEW c \in Callers, Look(c) \/ Acquire(c)
      PROVE  /\ held' \in [Callers -> {"none", "SH", "EX"}] /\ pc' \in [Callers -> PCs]
             /\ call' \in [Callers -> Calls \cup {NoCall}]
  BY <1>4 DEF Look, Acquire, Goto, LockMode
<1>5. ASSUME NEW c \in Callers, Ends(c) \/ Acknowledge(c)
      PROVE  /\ held' \in [Callers -> {"none", "SH", "EX"}] /\ pc' \in [Callers -> PCs]
             /\ call' \in [Callers -> Calls \cup {NoCall}]
  <2>1. Release(c)
    BY <1>5, EndsMove DEF Acknowledge
  <2> QED
    BY <2>1 DEF Release
<1>6. ASSUME NEW c \in Callers, StartCreate(c) \/ StartAppend(c) \/ OpenEntry(c)
      PROVE  /\ held' \in [Callers -> {"none", "SH", "EX"}] /\ pc' \in [Callers -> PCs]
             /\ call' \in [Callers -> Calls \cup {NoCall}]
  BY <1>6 DEF StartCreate, DirectoryStep, StartAppend, OpenEntry, Goto
<1>7. ASSUME NEW c \in Callers, MakeSnapshots(c) \/ SyncSnapshotsName(c) \/ SyncJobName(c)
      PROVE  /\ held' \in [Callers -> {"none", "SH", "EX"}] /\ pc' \in [Callers -> PCs]
             /\ call' \in [Callers -> Calls \cup {NoCall}]
  BY <1>7 DEF MakeSnapshots, SyncSnapshotsName, SyncJobName, DirectoryStep, Goto
<1>8. ASSUME NEW c \in Callers, RecordSteps(c) \/ SyncAbove(c)
      PROVE  /\ held' \in [Callers -> {"none", "SH", "EX"}] /\ pc' \in [Callers -> PCs]
             /\ call' \in [Callers -> Calls \cup {NoCall}]
  BY <1>8 DEF RecordSteps, WriteEntry, SyncEntry, SyncSnapshots, SyncAbove, Goto
<1> QED
  BY <1>1, <1>2, <1>3, <1>4, <1>5, <1>6, <1>7, <1>8, NextCases DEF Quiet, Writes, DirectorySteps

LEMMA DiskTyped ==
  ASSUME TypeOK, CallInv, EntryInv, [Next]_vars
  PROVE  /\ home' \in [Jobs -> [DirNames -> [there : BOOLEAN, linked : BOOLEAN]]]
         /\ entries' = [j \in Jobs |-> entries'[j]]
         /\ \A j \in Jobs :
              /\ DOMAIN entries'[j] \subseteq 0 .. MaxSnapshots - 1
              /\ entries'[j] \in [DOMAIN entries'[j] -> EntryStates]
<1> DEFINE HomeTyped == home' \in [Jobs -> [DirNames -> [there : BOOLEAN, linked : BOOLEAN]]]
           RecordsTyped == /\ entries' = [j \in Jobs |-> entries'[j]]
                           /\ \A j \in Jobs :
                                /\ DOMAIN entries'[j] \subseteq 0 .. MaxSnapshots - 1
                                /\ entries'[j] \in [DOMAIN entries'[j] -> EntryStates]
<1>1. ASSUME home' = home PROVE HomeTyped
  BY <1>1 DEF TypeOK
<1>2. ASSUME entries' = entries PROVE RecordsTyped
  BY <1>2 DEF TypeOK
<1>3. ASSUME PowerLoss PROVE HomeTyped /\ RecordsTyped
  <2>1. DOMAIN home' = Jobs /\ home' = [j \in Jobs |-> home'[j]]
    BY <1>3 DEF PowerLoss
  <2>2. \A j \in Jobs : home'[j] \in [DirNames -> [there : BOOLEAN, linked : BOOLEAN]]
    <3>1. {Linked, NoDir} \subseteq [there : BOOLEAN, linked : BOOLEAN]
      BY DEF Linked, NoDir
    <3>2. \A j \in Jobs : home'[j] \in [DirNames -> {Linked, NoDir}]
      BY <1>3, LossShape
    <3> HIDE DEF Linked, NoDir
    <3> QED
      BY <3>1, <3>2
  <2>3. HomeTyped
    BY <2>1, <2>2
  <2>4. ASSUME NEW j \in Jobs
        PROVE  /\ DOMAIN entries'[j] \subseteq 0 .. MaxSnapshots - 1
               /\ entries'[j] \in [DOMAIN entries'[j] -> EntryStates]
    <3>1. Survives(j)
      BY <1>3, LossShape
    <3>2. entries'[j] = [i \in DOMAIN entries'[j] |-> entries'[j][i]]
      BY <1>3 DEF PowerLoss
    <3> QED
      BY <3>1, <3>2, EntriesTyped DEF Survives
  <2> QED
    BY <1>3, <2>3, <2>4, LossShape
<1>4. ASSUME NEW c \in Callers, DirectorySteps(c) PROVE HomeTyped
  <2>1. DirectorySteps(c) /\ call[c].job \in Jobs
    BY <1>4, WriterCall DEF Writes
  <2>2. PICK d \in DirNames, node \in {Made, Linked} :
          home' = [home EXCEPT ![call[c].job][d] = node]
    BY <1>4, DirectoryShape
  <2>3. {Made, Linked} \subseteq [there : BOOLEAN, linked : BOOLEAN]
    BY DEF Made, Linked
  <2>4. home \in [Jobs -> [DirNames -> [there : BOOLEAN, linked : BOOLEAN]]]
    BY DEF TypeOK
  <2>5. node \in [there : BOOLEAN, linked : BOOLEAN]
    BY <2>3
  <2> DEFINE j == call[c].job
             Nodes == [there : BOOLEAN, linked : BOOLEAN]
  <2> HIDE DEF Nodes, j
  <2>6. home \in [Jobs -> [DirNames -> Nodes]] /\ node \in Nodes /\ j \in Jobs
        /\ home' = [home EXCEPT ![j][d] = node]
    BY <2>1, <2>2, <2>4, <2>5 DEF Nodes, j
  <2>7. home' \in [Jobs -> [DirNames -> Nodes]]
    BY ONLY <2>6, d \in DirNames
  <2> QED
    BY <2>7 DEF Nodes
<1>5. ASSUME NEW j \in Jobs,
             entries' = [entries EXCEPT ![j] = entries'[j]],
             DOMAIN entries'[j] \subseteq 0 .. MaxSnapshots - 1,
             entries'[j] \in [DOMAIN entries'[j] -> EntryStates],
             \A k \in Jobs : k # j => entries'[k] = entries[k]
      PROVE  RecordsTyped
  <2>1. entries' = [k \in Jobs |-> entries'[k]]
    BY <1>5, EntriesTyped
  <2> QED
    BY <1>5, <2>1 DEF TypeOK
<1>6. ASSUME NEW c \in Callers, OpenEntry(c) PROVE RecordsTyped
  <2> DEFINE j == call[c].job
             n == Count(j)
  <2>1. /\ j \in Jobs /\ n \in Nat /\ DOMAIN entries[j] = 0 .. n - 1 /\ n < MaxSnapshots
        /\ entries' = [entries EXCEPT ![j] = entries'[j]]
        /\ \A k \in Jobs : k # j => entries'[k] = entries[k]
        /\ DOMAIN entries'[j] = 0 .. n
        /\ \A i \in DOMAIN entries[j] : entries'[j][i] = entries[j][i]
        /\ entries'[j][n] = Entry(call[c].successor, call[c].expected)
    BY <1>6, OpenEntryShape
  <2>2. Entry(call[c].successor, call[c].expected) \in EntryStates
    BY <1>6, WriterCall DEF Writes, Entry, EntryStates
  <2>3. \A i \in DOMAIN entries'[j] : entries'[j][i] \in EntryStates
    BY <2>1, <2>2, EntriesTyped
  <2>4. entries'[j] = [i \in DOMAIN entries'[j] |-> entries'[j][i]]
    <3>1. entries' = [entries EXCEPT ![j] =
           [i \in 0 .. n |-> IF i < n THEN entries[j][i]
                             ELSE Entry(call[c].successor, IF n = 0 THEN {} ELSE {Tip(j)})]]
      BY <1>6 DEF OpenEntry
    <3> QED
      BY <2>1, <3>1, EntriesTyped
  <2>5. entries'[j] \in [DOMAIN entries'[j] -> EntryStates] /\ DOMAIN entries'[j] \subseteq 0 .. MaxSnapshots - 1
    BY <2>1, <2>3, <2>4, BoundsAssumption
  <2> QED
    BY <1>5, <2>1, <2>5
<1>7. ASSUME NEW c \in Callers, RecordSteps(c) PROVE RecordsTyped
  <2> DEFINE j == call[c].job
             n == Count(j)
  <2>1. /\ j \in Jobs /\ n \in Nat
        /\ entries' = [entries EXCEPT ![j] = entries'[j]]
        /\ \A k \in Jobs : k # j => entries'[k] = entries[k]
        /\ DOMAIN entries'[j] = DOMAIN entries[j]
        /\ \A i \in DOMAIN entries[j] : entries'[j][i] \in EntryStates
    BY <1>7, RecordShape, EntriesTyped
  <2>2. entries'[j] = [i \in DOMAIN entries'[j] |-> entries'[j][i]]
    <3>1. entries[j] = [i \in DOMAIN entries[j] |-> entries[j][i]]
      BY <2>1 DEF TypeOK
    <3>2. \/ entries' = [entries EXCEPT ![j][n - 1].good = TRUE]
          \/ entries' = [entries EXCEPT ![j][n - 1].synced = TRUE]
          \/ entries' = [entries EXCEPT ![j] = [i \in DOMAIN entries[j] |->
                                               [entries[j][i] EXCEPT !.linked = TRUE]]]
      BY <1>7 DEF RecordSteps, WriteEntry, SyncEntry, SyncSnapshots
    <3> QED
      BY <2>1, <3>1, <3>2, EntriesTyped
  <2>3. entries'[j] \in [DOMAIN entries'[j] -> EntryStates] /\ DOMAIN entries'[j] \subseteq 0 .. MaxSnapshots - 1
    BY <2>1, <2>2, EntriesTyped
  <2> QED
    BY <1>5, <2>1, <2>3
<1>8. ASSUME NEW c \in Callers, SyncAbove(c) PROVE HomeTyped
  BY <1>8, SyncAboveShape
<1>9. ASSUME NEW c \in Callers, StartAppend(c) \/ Acknowledge(c)
      PROVE  home' = home /\ entries' = entries
  BY <1>9 DEF StartAppend, Acknowledge
<1> HIDE DEF HomeTyped, RecordsTyped
<1>10. HomeTyped /\ RecordsTyped
  <2>1. CASE UNCHANGED vars
    BY <1>1, <1>2, <2>1 DEF vars
  <2>2. ASSUME NEW c \in Callers, Quiet(c) PROVE home' = home /\ entries' = entries
    BY <2>2, QuietFrame
  <2>3. ASSUME NEW c \in Callers, DirectorySteps(c) PROVE entries' = entries
    BY <2>3, DirectoryShape
  <2>4. ASSUME NEW c \in Callers, OpenEntry(c) \/ RecordSteps(c) PROVE home' = home
    BY <2>4, OpenEntryShape, RecordShape
  <2>5. ASSUME NEW c \in Callers, SyncAbove(c) PROVE entries' = entries
    BY <2>5, SyncAboveShape
  <2> QED
    BY <1>1, <1>2, <1>3, <1>4, <1>6, <1>7, <1>8, <1>9, <2>1, <2>2, <2>3, <2>4, <2>5, NextCases
       DEF Writes
<1> QED
  BY <1>10 DEF HomeTyped, RecordsTyped

\* The bounds are used up one at a time.
LEMMA SpentTyped ==
  ASSUME TypeOK,
         \/ spent' = [spent EXCEPT !.calls = @ + 1]
         \/ spent' = [spent EXCEPT !.failures = @ + 1]
         \/ spent' = [spent EXCEPT !.losses = @ + 1]
  PROVE  spent' \in [calls : Nat, failures : Nat, losses : Nat]
<1>1. spent \in [calls : Nat, failures : Nat, losses : Nat]
  BY DEF TypeOK
<1>2. spent.calls + 1 \in Nat /\ spent.failures + 1 \in Nat /\ spent.losses + 1 \in Nat
  BY <1>1
<1> QED
  BY <1>1, <1>2

LEMMA HistoryTyped ==
  ASSUME TypeOK, CallInv, [Next]_vars
  PROVE  /\ seen' \in [Callers -> [Jobs -> SUBSET Lifecycles]]
         /\ acks' \subseteq [by : Callers, job : Jobs, at : Nat, snap : Lifecycles,
                             over : SUBSET Lifecycles]
         /\ spent' \in [calls : Nat, failures : Nat, losses : Nat]
<1> DEFINE Typed == /\ seen' \in [Callers -> [Jobs -> SUBSET Lifecycles]]
                    /\ acks' \subseteq [by : Callers, job : Jobs, at : Nat, snap : Lifecycles,
                                        over : SUBSET Lifecycles]
                    /\ spent' \in [calls : Nat, failures : Nat, losses : Nat]
<1>1. ASSUME UNCHANGED <<seen, acks, spent>> PROVE Typed
  BY <1>1 DEF TypeOK
<1>2. ASSUME PowerLoss PROVE Typed
  <2>1. /\ spent' = [spent EXCEPT !.losses = @ + 1] /\ acks' = acks
        /\ seen' = [c \in Callers |-> [j \in Jobs |-> {}]]
    BY <1>2 DEF PowerLoss
  <2>2. spent' \in [calls : Nat, failures : Nat, losses : Nat]
    BY <2>1, SpentTyped
  <2>3. seen' \in [Callers -> [Jobs -> SUBSET Lifecycles]]
    BY <2>1
  <2> QED
    BY <2>1, <2>2, <2>3 DEF TypeOK
<1>3. ASSUME NEW c \in Callers, Begin(c) PROVE Typed
  <2>1. spent' = [spent EXCEPT !.calls = @ + 1] /\ acks' = acks /\ seen' = seen
    BY <1>3, BeginShape
  <2>2. spent' \in [calls : Nat, failures : Nat, losses : Nat]
    BY <2>1, SpentTyped
  <2> QED
    BY <2>1, <2>2 DEF TypeOK
<1>4. ASSUME NEW c \in Callers, pc[c] # "idle", Readable(call[c].job),
             seen' = [seen EXCEPT ![c][call[c].job] = {Tip(call[c].job)}]
      PROVE  /\ seen' \in [Callers -> [Jobs -> SUBSET Lifecycles]]
             /\ call[c].job \in Jobs /\ Tip(call[c].job) \in Lifecycles
             /\ Count(call[c].job) - 1 \in Nat /\ call[c].expected \subseteq Lifecycles
  <2>1. call[c].job \in Jobs /\ call[c].expected \subseteq Lifecycles
    BY <1>4 DEF CallInv, Calls
  <2>2. Tip(call[c].job) \in Lifecycles /\ Count(call[c].job) \in Nat /\ Count(call[c].job) > 0
    BY <1>4, <2>1, TipTyped
  <2> QED
    BY <1>4, <2>1, <2>2 DEF TypeOK
<1>5. ASSUME NEW c \in Callers, ReturnLoaded(c) PROVE Typed
  BY <1>4, <1>5 DEF ReturnLoaded, TypeOK
<1>6. ASSUME NEW c \in Callers, Acknowledge(c) PROVE Typed
  <2>1. /\ pc[c] = "reload" /\ Readable(call[c].job)
        /\ seen' = [seen EXCEPT ![c][call[c].job] = {Tip(call[c].job)}]
        /\ acks' = acks \cup {[by |-> c, job |-> call[c].job, at |-> Count(call[c].job) - 1,
                               snap |-> Tip(call[c].job), over |-> call[c].expected]}
        /\ spent' = spent
    BY <1>6 DEF Acknowledge
  <2>2. /\ seen' \in [Callers -> [Jobs -> SUBSET Lifecycles]]
        /\ call[c].job \in Jobs /\ Tip(call[c].job) \in Lifecycles
        /\ Count(call[c].job) - 1 \in Nat /\ call[c].expected \subseteq Lifecycles
    BY <1>4, <2>1
  <2> QED
    BY <2>1, <2>2 DEF TypeOK
<1>7. ASSUME NEW c \in Callers, Raise(c) \/ Crash(c) PROVE Typed
  <2>1. /\ spent' = [spent EXCEPT !.failures = @ + 1] /\ acks' = acks
        /\ seen' = seen \/ seen' = [seen EXCEPT ![c] = [j \in Jobs |-> {}]]
    BY <1>7 DEF Raise, Crash
  <2>2. spent' \in [calls : Nat, failures : Nat, losses : Nat]
    BY <2>1, SpentTyped
  <2>3. seen' \in [Callers -> [Jobs -> SUBSET Lifecycles]]
    BY <2>1 DEF TypeOK
  <2> QED
    BY <2>1, <2>2, <2>3 DEF TypeOK
<1>8. ASSUME NEW c \in Callers, Look(c) \/ Acquire(c) \/ Refuse(c)
      PROVE  UNCHANGED <<seen, acks, spent>>
  BY <1>8 DEF Look, Acquire, Refuse
<1>9. ASSUME NEW c \in Callers, DirectorySteps(c) \/ StartAppend(c) \/ OpenEntry(c)
      PROVE  UNCHANGED <<seen, acks, spent>>
  BY <1>9 DEF DirectorySteps, StartCreate, MakeSnapshots, SyncSnapshotsName, SyncJobName,
              DirectoryStep, StartAppend, OpenEntry
<1>10. ASSUME NEW c \in Callers, RecordSteps(c) \/ SyncAbove(c)
       PROVE  UNCHANGED <<seen, acks, spent>>
  BY <1>10 DEF RecordSteps, WriteEntry, SyncEntry, SyncSnapshots, SyncAbove
<1> HIDE DEF Typed
<1>11. Typed
  BY <1>1, <1>2, <1>3, <1>5, <1>6, <1>7, <1>8, <1>9, <1>10, NextCases DEF vars, Quiet, Ends, Writes
<1> QED
  BY <1>11 DEF Typed

LEMMA TypeStep ==
  ASSUME TypeOK, CallInv, EntryInv, [Next]_vars
  PROVE  TypeOK'
BY ControlTyped, DiskTyped, HistoryTyped DEF TypeOK

\* A writing step changes no other job.
LEMMA OtherJobs ==
  ASSUME TypeOK, CallInv, EntryInv, NEW c \in Callers, Writes(c),
         NEW k \in Jobs, k # call[c].job
  PROVE  home'[k] = home[k] /\ entries'[k] = entries[k]
<1>1. CASE DirectorySteps(c)
  <2>1. PICK d \in DirNames, node \in {Made, Linked} :
          home' = [home EXCEPT ![call[c].job][d] = node] /\ entries' = entries
    BY <1>1, DirectoryShape
  <2> QED
    BY <2>1 DEF TypeOK
<1>2. CASE OpenEntry(c)
  BY <1>2, OpenEntryShape
<1>3. CASE RecordSteps(c)
  BY <1>3, RecordShape
<1>4. CASE SyncAbove(c)
  BY <1>4, SyncAboveShape
<1>5. CASE StartAppend(c) \/ Acknowledge(c)
  BY <1>5 DEF StartAppend, Acknowledge
<1> QED
  BY <1>1, <1>2, <1>3, <1>4, <1>5 DEF Writes

-----------------------------------------------------------------------------

(* The directories. *)

LEMMA HomeStep ==
  ASSUME TypeOK, CallInv, EntryInv, CreateInv, HomeInv, [Next]_vars
  PROVE  HomeInv'
<1> DEFINE Sound(j) == /\ \A d \in DirNames : home[j][d].linked => home[j][d].there
                       /\ home[j]["snapshots"].there => home[j]["job"].there
                       /\ DOMAIN entries[j] # {} => \A d \in DirNames : home[j][d].linked
<1>1. \A j \in Jobs : Sound(j)
  BY DEF HomeInv, RecordsStandOnDurableNames
<1>2. ASSUME NEW j \in Jobs, home'[j] = home[j], entries'[j] = entries[j]
      PROVE  Sound(j)'
  BY <1>1, <1>2
<1>3. ASSUME PowerLoss, NEW j \in Jobs
      PROVE  Sound(j)'
  <2>1. Survives(j) /\ Sound(j)
    BY <1>1, <1>3, LossShape
  <2>2. \A d \in DirNames : home'[j][d].linked <=> home'[j][d].there
    BY <2>1 DEF Survives, Linked, NoDir
  <2>3. home'[j]["snapshots"].there => home'[j]["job"].there
    BY <2>1 DEF Survives, DirNames
  <2>4. DOMAIN entries'[j] # {} => \A d \in DirNames : home'[j][d].linked
    <3>1. DOMAIN entries'[j] # {} => \A d \in DirNames : home[j][d].there /\ home[j][d].linked
      BY <2>1 DEF Survives
    <3>2. Linked.linked
      BY DEF Linked
    <3> QED
      BY <2>1, <3>1, <3>2 DEF Survives
  <2> QED
    BY <2>2, <2>3, <2>4
<1>4. ASSUME NEW c \in Callers, DirectorySteps(c), NEW j, j = call[c].job
      PROVE  Sound(j)'
  <2>1. j \in Jobs
    BY <1>4, WriterCall DEF Writes
  <2>2. PICK d \in DirNames, node \in {Made, Linked} :
          /\ home' = [home EXCEPT ![j][d] = node]
          /\ entries' = entries
          /\ \/ pc[c] = "locked" /\ d = "job" /\ node = Made /\ ~home[j]["job"].there
             \/ pc[c] = "mkdir" /\ d = "snapshots" /\ node = Made
             \/ pc[c] = "syncSnapshotsName" /\ d = "snapshots" /\ node = Linked
             \/ pc[c] = "syncJobName" /\ d = "job" /\ node = Linked
    BY <1>4, DirectoryShape
  <2>3. /\ home'[j][d] = node /\ \A b \in DirNames : b # d => home'[j][b] = home[j][b]
        /\ entries'[j] = entries[j]
    BY <2>1, <2>2 DEF TypeOK
  <2>4. /\ DOMAIN entries[j] = {}
        /\ d = "snapshots" => home[j]["job"].there
    <3>1. CASE pc[c] \in CreatePCs
      BY <1>4, <2>2, <3>1 DEF CreateInv, CreateAt, CreatePCs
    <3>2. CASE ~home[j]["job"].there /\ d = "job"
      BY <1>1, <2>1, <3>2 DEF DirNames
    <3> QED
      BY <2>2, <3>1, <3>2 DEF CreatePCs
  <2> QED
    BY <1>1, <2>1, <2>2, <2>3, <2>4 DEF DirNames, Made, Linked
<1>5. ASSUME NEW c \in Callers, OpenEntry(c) \/ RecordSteps(c), NEW j, j = call[c].job
      PROVE  Sound(j)'
  <2>1. /\ pc[c] \in {"entryOpen"} \cup OpenedPCs /\ j \in Jobs /\ home' = home
    BY <1>5, OpenEntryShape, RecordShape DEF OpenEntry
  <2>2. \A d \in DirNames : home[j][d].linked
    BY <1>5, <2>1 DEF EntryInv, EntryAt
  <2> QED
    BY <1>1, <2>1, <2>2
<1>6. ASSUME NEW c \in Callers, SyncAbove(c), NEW j, j = call[c].job
      PROVE  Sound(j)'
  <2>1. /\ j \in Jobs /\ entries' = entries
        /\ \A d \in DirNames : /\ home'[j][d].there = home[j][d].there /\ home'[j][d].linked
                               /\ home[j][d].linked
    BY <1>6, SyncAboveShape DEF EntryAt
  <2> QED
    BY <1>1, <2>1 DEF DirNames
<1>7. ASSUME NEW j \in Jobs
      PROVE  Sound(j)'
  <2>1. CASE UNCHANGED vars
    BY <1>2, <2>1 DEF vars
  <2>2. ASSUME NEW c \in Callers, Quiet(c) PROVE Sound(j)'
    BY <1>2, <2>2, QuietFrame
  <2>3. ASSUME NEW c \in Callers, Writes(c), j # call[c].job PROVE Sound(j)'
    BY <1>2, <2>3, OtherJobs
  <2>4. ASSUME NEW c \in Callers, StartAppend(c) \/ Acknowledge(c) PROVE Sound(j)'
    BY <1>2, <2>4 DEF StartAppend, Acknowledge
  <2> HIDE DEF Sound
  <2> QED
    BY <1>3, <1>4, <1>5, <1>6, <2>1, <2>2, <2>3, <2>4, NextCases DEF Writes
<1> QED
  BY <1>7 DEF HomeInv, RecordsStandOnDurableNames

-----------------------------------------------------------------------------

(* How far the writer has come. *)

LEMMA CreateStep ==
  ASSUME TypeOK, LockInv, CallInv, EntryInv, HomeInv, CreateInv, [Next]_vars
  PROVE  CreateInv'
<1> SUFFICES ASSUME NEW c \in Callers, pc'[c] \in CreatePCs
             PROVE  CreateAt(c)'
  BY DEF CreateInv
<1>1. ASSUME pc'[c] = pc[c], call'[c] = call[c], home' = home, entries' = entries
      PROVE  CreateAt(c)'
  BY <1>1 DEF CreateInv, CreateAt
<1>2. CASE UNCHANGED vars
  BY <1>1, <1>2 DEF vars
<1>3. CASE PowerLoss
  BY <1>3, LossShape DEF CreatePCs
<1>4. ASSUME NEW d \in Callers, Quiet(d)
      PROVE  CreateAt(c)'
  BY <1>1, <1>4, QuietFrame DEF WritePCs
<1>5. ASSUME NEW d \in Callers, Writes(d), d # c
      PROVE  FALSE
  BY <1>5, OneWriter DEF WritePCs
<1>6. ASSUME NEW j, j = call[c].job, DirectorySteps(c)
      PROVE  CreateAt(c)'
  <2>1. j \in Jobs
    BY <1>6, WriterCall DEF Writes
  <2>2. PICK d \in DirNames, node \in {Made, Linked} :
          /\ home' = [home EXCEPT ![j][d] = node]
          /\ entries' = entries /\ call' = call
          /\ \/ /\ pc[c] = "locked" /\ pc'[c] = "mkdir" /\ d = "job" /\ node = Made
                /\ ~home[j]["job"].there
             \/ pc[c] = "mkdir" /\ pc'[c] = "syncSnapshotsName" /\ d = "snapshots" /\ node = Made
             \/ pc[c] = "syncSnapshotsName" /\ pc'[c] = "syncJobName" /\ d = "snapshots" /\ node = Linked
             \/ pc[c] = "syncJobName" /\ pc'[c] = "entryOpen" /\ d = "job" /\ node = Linked
    BY <1>6, DirectoryShape
  <2>3. /\ home'[j][d] = node /\ \A b \in DirNames : b # d => home'[j][b] = home[j][b]
    BY <2>1, <2>2 DEF TypeOK
  <2>4. CASE pc[c] = "locked"
    <3>1. DOMAIN entries[j] = {}
      BY <2>1, <2>2, <2>4 DEF HomeInv, RecordsStandOnDurableNames, DirNames
    <3> QED
      BY <1>6, <2>2, <2>3, <2>4, <3>1 DEF CreateAt, Made
  <2>5. CASE pc[c] \in {"mkdir", "syncSnapshotsName"}
    <3>1. DOMAIN entries[j] = {} /\ home[j]["job"].there
      BY <1>6, <2>5 DEF CreateInv, CreateAt, CreatePCs
    <3> QED
      BY <1>6, <2>2, <2>3, <2>5, <3>1 DEF CreateAt, DirNames, Made, Linked
  <2> QED
    BY <2>2, <2>4, <2>5 DEF CreatePCs
<1>7. ASSUME StartAppend(c) \/ OpenEntry(c) \/ RecordSteps(c) \/ SyncAbove(c) \/ Acknowledge(c)
      PROVE  FALSE
  <2>1. CASE StartAppend(c) \/ OpenEntry(c)
    BY <2>1 DEF StartAppend, OpenEntry, Goto, CreatePCs, TypeOK
  <2>2. CASE RecordSteps(c) \/ SyncAbove(c)
    BY <2>2 DEF RecordSteps, WriteEntry, SyncEntry, SyncSnapshots, SyncAbove, Goto, CreatePCs, TypeOK
  <2>3. CASE Acknowledge(c)
    BY <2>3 DEF Acknowledge, Release, CreatePCs, TypeOK
  <2> QED
    BY <1>7, <2>1, <2>2, <2>3
<1> QED
  BY <1>2, <1>3, <1>4, <1>5, <1>6, <1>7, NextCases DEF Writes

LEMMA EntryStep ==
  ASSUME TypeOK, LockInv, CallInv, EntryInv, HomeInv, CreateInv, AckedIsDurable, [Next]_vars
  PROVE  EntryInv'
<1> SUFFICES ASSUME NEW c \in Callers, pc'[c] \in {"entryOpen"} \cup OpenedPCs
             PROVE  EntryAt(c)'
  BY DEF EntryInv
<1>1. ASSUME pc'[c] = pc[c], call'[c] = call[c], home' = home, entries' = entries, acks' = acks
      PROVE  EntryAt(c)'
  BY <1>1 DEF EntryInv, EntryAt, Count, Tip
<1>2. CASE UNCHANGED vars
  BY <1>1, <1>2 DEF vars
<1>3. CASE PowerLoss
  BY <1>3, LossShape DEF OpenedPCs
<1>4. ASSUME NEW d \in Callers, Quiet(d)
      PROVE  EntryAt(c)'
  BY <1>1, <1>4, QuietFrame DEF WritePCs
<1>5. ASSUME NEW d \in Callers, Writes(d), d # c
      PROVE  FALSE
  BY <1>5, OneWriter DEF WritePCs
<1> DEFINE j == call[c].job
           n == Count(j)
<1>6. CASE DirectorySteps(c)
  <2>1. j \in Jobs
    BY <1>6, WriterCall DEF Writes
  <2>2. PICK d \in DirNames, node \in {Made, Linked} :
          /\ home' = [home EXCEPT ![j][d] = node]
          /\ entries' = entries /\ call' = call
          /\ pc[c] = "syncJobName" /\ pc'[c] = "entryOpen" /\ d = "job" /\ node = Linked
    BY <1>6, DirectoryShape DEF OpenedPCs
  <2>3. DOMAIN entries[j] = {} /\ home[j]["snapshots"].linked /\ call[c].op = "create"
    BY <2>2 DEF CreateInv, CreateAt, CreatePCs, CallInv
  <2>4. home'[j]["job"].linked /\ home'[j]["snapshots"].linked
    BY <2>1, <2>2, <2>3 DEF TypeOK, DirNames, Linked
  <2>5. n' = 0 /\ j' = j
    BY <2>2, <2>3, FS_EmptySet DEF Count
  <2>6. DOMAIN entries'[j] = 0 .. n' - 1
    BY <2>2, <2>3, <2>5
  <2> QED
    BY <2>2, <2>3, <2>4, <2>5, <2>6 DEF EntryAt, DirNames, OpenedPCs
<1>7. CASE StartAppend(c)
  <2>1. /\ AppendAllowed(c) /\ pc'[c] = "entryOpen" /\ call[c].op = "append"
        /\ home' = home /\ entries' = entries /\ call' = call /\ j \in Jobs
    BY <1>7, WriterCall DEF StartAppend, Goto, TypeOK, Writes
  <2>2. Readable(j) /\ n > 0 /\ n < MaxSnapshots /\ call[c].expected = {Tip(j)}
        /\ Reconstructs(Tip(j), call[c].successor) /\ DOMAIN entries[j] = 0 .. n - 1
    BY <2>1 DEF AppendAllowed, Readable
  <2>3. n - 1 \in DOMAIN entries[j]
    BY <2>1, <2>2, TipTyped
  <2>4. \A d \in DirNames : home[j][d].linked
    BY <2>1, <2>3 DEF HomeInv, RecordsStandOnDurableNames
  <2>5. n' = n /\ Tip(j)' = Tip(j) /\ j' = j
    BY <2>1 DEF Count, Tip
  <2> HIDE DEF n
  <2> QED
    BY <2>1, <2>2, <2>4, <2>5 DEF EntryAt, OpenedPCs, n
<1>8. CASE OpenEntry(c)
  <2>1. /\ j \in Jobs /\ n \in Nat /\ DOMAIN entries[j] = 0 .. n - 1 /\ home' = home /\ acks' = acks
        /\ call' = call /\ pc'[c] = "entryWrite" /\ n' = n + 1 /\ DOMAIN entries'[j] = 0 .. n
        /\ entries'[j][n] = Entry(call[c].successor, call[c].expected) /\ j' = j
    BY <1>8, OpenEntryShape
  <2>2. \A d \in DirNames : home[j][d].linked
    BY <1>8 DEF OpenEntry, EntryInv, EntryAt
  <2>3. \A a \in acks : a.job = j => a.at < n
    BY <2>1 DEF AckedIsDurable
  <2>4. n' - 1 = n /\ n' > 0
    BY <2>1
  <2>5. entries'[j][n].after = call[c].expected
    BY <2>1 DEF Entry
  <2> HIDE DEF n
  <2> QED
    BY <2>1, <2>2, <2>3, <2>4, <2>5 DEF EntryAt, n
<1>9. CASE RecordSteps(c)
  <2>1. /\ j \in Jobs /\ EntryAt(c) /\ pc[c] \in OpenedPCs /\ home' = home /\ acks' = acks
        /\ call' = call /\ n' = n /\ DOMAIN entries'[j] = DOMAIN entries[j] /\ j' = j
        /\ \A i \in DOMAIN entries[j] :
              /\ entries'[j][i].after = entries[j][i].after
              /\ entries[j][i].synced => entries'[j][i].synced
    BY <1>9, RecordShape
  <2>2. n \in Nat /\ n > 0 /\ n - 1 \in DOMAIN entries[j] /\ DOMAIN entries[j] = 0 .. n - 1
    BY <2>1, EntriesTyped DEF EntryAt
  <2>3. /\ \A d \in DirNames : home[j][d].linked
        /\ entries[j][n - 1].after = call[c].expected
        /\ \A a \in acks : a.job = j => a.at < n - 1
        /\ pc[c] = "syncSnapshots" => entries[j][n - 1].synced
    BY <2>1 DEF EntryAt
  <2>4. /\ pc'[c] \in {"entrySync", "syncSnapshots", "syncAbove"}
        /\ pc'[c] \in {"syncSnapshots", "syncAbove"} => entries'[j][n - 1].synced
        /\ pc'[c] = "syncAbove" => \A i \in DOMAIN entries'[j] : entries'[j][i].linked
    <3>1. CASE WriteEntry(c)
      BY <3>1 DEF WriteEntry, Goto, TypeOK
    <3>2. CASE SyncEntry(c)
      <4>1. pc'[c] = "syncSnapshots" /\ entries' = [entries EXCEPT ![j][n - 1].synced = TRUE]
        BY <3>2 DEF SyncEntry, Goto, TypeOK
      <4>2. entries[j][n - 1] \in EntryStates /\ DOMAIN entries = Jobs
        BY <2>1, <2>2, EntriesTyped
      <4> QED
        BY <2>1, <2>2, <4>1, <4>2 DEF EntryStates
    <3>3. CASE SyncSnapshots(c)
      <4>1. /\ pc'[c] = "syncAbove" /\ pc[c] = "syncSnapshots"
            /\ entries' = [entries EXCEPT ![j] =
                             [i \in DOMAIN entries[j] |-> [entries[j][i] EXCEPT !.linked = TRUE]]]
        BY <3>3 DEF SyncSnapshots, Goto, TypeOK
      <4>2. \A i \in DOMAIN entries[j] :
              entries[j][i] \in EntryStates /\ entries'[j][i] = [entries[j][i] EXCEPT !.linked = TRUE]
        BY <2>1, <4>1, EntriesTyped
      <4>3. \A i \in DOMAIN entries[j] : entries'[j][i].linked
        BY <4>2 DEF EntryStates
      <4>4. entries'[j][n - 1].synced
        BY <2>1, <2>2, <2>3, <4>1
      <4> QED
        BY <2>1, <4>1, <4>3, <4>4
    <3> QED
      BY <1>9, <3>1, <3>2, <3>3 DEF RecordSteps
  <2>5. entries'[j][n - 1].after = call[c].expected
    BY <2>1, <2>2, <2>3
  <2> HIDE DEF n
  <2> QED
    BY <2>1, <2>2, <2>3, <2>4, <2>5 DEF EntryAt, n
<1>10. CASE SyncAbove(c)
  <2>1. /\ EntryAt(c) /\ pc[c] = "syncAbove" /\ pc'[c] = "reload"
        /\ entries' = entries /\ acks' = acks /\ call' = call /\ j' = j /\ n' = n
        /\ \A d \in DirNames : home'[j][d].linked
    BY <1>10, SyncAboveShape DEF Count
  <2> HIDE DEF n
  <2> QED
    BY <2>1 DEF EntryAt, OpenedPCs, n
<1>11. CASE Acknowledge(c)
  BY <1>11 DEF Acknowledge, Release, OpenedPCs, TypeOK
<1> HIDE DEF j, n
<1> QED
  BY <1>2, <1>3, <1>4, <1>5, <1>6, <1>7, <1>8, <1>9, <1>10, <1>11, NextCases DEF Writes

-----------------------------------------------------------------------------

(* The records of a job are one history. *)

\* ChainInv for one record of one job.
Chained(j, k) ==
  /\ \A s \in entries[j][k].after : Rank[s.state] < Rank[entries[j][k].snap.state]
  /\ \A i \in DOMAIN entries[j] : i < k =>
       /\ \E s \in entries[j][k].after : Rank[entries[j][i].snap.state] <= Rank[s.state]
       /\ Keeps(entries[j][i].snap, entries[j][k].snap)

\* Records that are the same to the chain, and no others, keep it.
LEMMA SameChain ==
  ASSUME NEW j \in Jobs, DOMAIN entries'[j] \subseteq DOMAIN entries[j],
         \A i \in DOMAIN entries'[j] :
           /\ entries'[j][i].snap = entries[j][i].snap
           /\ entries'[j][i].after = entries[j][i].after,
         NEW k \in DOMAIN entries'[j], Chained(j, k)
  PROVE  Chained(j, k)'
BY DEF Chained

LEMMA ChainStep ==
  ASSUME TypeOK, LockInv, CallInv, EntryInv, ChainInv, [Next]_vars
  PROVE  ChainInv'
<1>1. \A j \in Jobs : \A k \in DOMAIN entries[j] : Chained(j, k)
  BY DEF ChainInv, Chained
<1> SUFFICES ASSUME NEW j \in Jobs, NEW k \in DOMAIN entries'[j]
             PROVE  Chained(j, k)'
  BY DEF ChainInv, Chained
<1>2. ASSUME entries'[j] = entries[j]
      PROVE  Chained(j, k)'
  BY <1>1, <1>2, SameChain
<1>3. CASE PowerLoss
  BY <1>1, <1>3, LossShape, SameChain DEF Survives
<1>4. ASSUME NEW c \in Callers, j = call[c].job, RecordSteps(c)
      PROVE  Chained(j, k)'
  BY <1>1, <1>4, RecordShape, SameChain
<1>5. ASSUME NEW c \in Callers, j = call[c].job, OpenEntry(c)
      PROVE  Chained(j, k)'
  <2> DEFINE n == Count(j)
             t == Tip(j)
             u == call[c].successor
  <2>1. /\ n \in Nat /\ DOMAIN entries[j] = 0 .. n - 1 /\ DOMAIN entries'[j] = 0 .. n
        /\ \A i \in DOMAIN entries[j] : entries'[j][i] = entries[j][i]
        /\ entries'[j][n] = Entry(u, call[c].expected)
        /\ n = 0 => call[c].expected = {}
        /\ n > 0 => call[c].expected = {t} /\ t \in Lifecycles /\ Reconstructs(t, u)
    <3>1. OpenEntry(c) /\ j = call[c].job
      BY <1>5
    <3>2. entries' = [entries EXCEPT ![j] = entries'[j]] /\ n \in Nat /\ DOMAIN entries[j] = 0 .. n - 1
          /\ DOMAIN entries'[j] = 0 .. n
      BY <3>1, OpenEntryShape
    <3>3. /\ n = 0 => call[c].expected = {}
          /\ n > 0 => call[c].expected = {t} /\ t \in Lifecycles /\ Reconstructs(t, u)
          /\ entries'[j][n] = Entry(u, call[c].expected)
      BY <3>1, OpenEntryShape
    <3>4. /\ entries' = [entries EXCEPT ![j] = entries'[j]]
          /\ \A i \in DOMAIN entries[j] : entries'[j][i] = entries[j][i]
      BY <3>1, OpenEntryShape
    <3> HIDE DEF n, t, u
    <3> QED
      BY <3>2, <3>3, <3>4
  <2>2. CASE k < n
    <3>1. k \in DOMAIN entries[j] /\ \A i \in DOMAIN entries'[j] : i < k => i \in DOMAIN entries[j]
      BY <2>1, <2>2
    <3>2. Chained(j, k)
      BY <1>1, <3>1
    <3> QED
      BY <2>1, <3>1, <3>2 DEF Chained
  <2>3. CASE k = n
    <3>1. entries'[j][k].snap = u /\ entries'[j][k].after = call[c].expected
      BY <2>1, <2>3 DEF Entry
    <3>2. CASE n = 0
      BY <2>1, <2>3, <3>1, <3>2 DEF Chained
    <3>3. CASE n > 0
      <4>1. u \in Lifecycles
        BY <1>5, WriterCall DEF Writes
      <4>2. Rank[t.state] < Rank[u.state] /\ Keeps(t, u)
        BY <2>1, <3>3, <4>1, TransitionAdvances, TransitionKeeps
      <4>3. ASSUME NEW i \in DOMAIN entries'[j], i < k
            PROVE  /\ Rank[entries'[j][i].snap.state] <= Rank[t.state]
                   /\ Keeps(entries'[j][i].snap, u)
        <5>1. i \in DOMAIN entries[j] /\ entries'[j][i] = entries[j][i] /\ n - 1 \in DOMAIN entries[j]
          BY <2>1, <2>3, <3>3, <4>3
        <5>2. t = entries[j][n - 1].snap
          BY DEF Tip
        <5>3. CASE i = n - 1
          <6>1. Rank[t.state] \in Nat
            BY <2>1, <3>3, RanksOfStates DEF Lifecycles
          <6> QED
            BY <4>2, <5>1, <5>2, <5>3, <6>1
        <5>4. CASE i < n - 1
          <6>1. Chained(j, n - 1)
            BY <1>1, <5>1
          <6>2. PICK s \in entries[j][n - 1].after :
                  /\ Rank[entries[j][i].snap.state] <= Rank[s.state]
                  /\ Rank[s.state] < Rank[t.state]
            BY <5>1, <5>2, <5>4, <6>1 DEF Chained
          <6>3. entries[j][n - 1] \in EntryStates /\ entries[j][i] \in EntryStates
            BY <5>1, EntriesTyped
          <6>4. /\ Rank[s.state] \in Nat /\ Rank[t.state] \in Nat
                /\ Rank[entries[j][i].snap.state] \in Nat
            BY <5>2, <6>2, <6>3, RanksOfStates DEF EntryStates, Lifecycles
          <6>5. Keeps(entries[j][i].snap, t)
            BY <5>1, <5>2, <5>4, <6>1 DEF Chained
          <6> QED
            BY <4>2, <5>1, <6>2, <6>4, <6>5, KeepsTransitive
        <5> QED
          BY <2>1, <2>3, <4>3, <5>1, <5>3, <5>4
      <4> HIDE DEF n, t, u
      <4> QED
        BY <2>1, <3>1, <3>3, <4>2, <4>3 DEF Chained
    <3> QED
      BY <2>1, <3>2, <3>3
  <2> QED
    BY <2>1, <2>2, <2>3
<1>6. CASE UNCHANGED vars
  BY <1>2, <1>6 DEF vars
<1>7. ASSUME NEW c \in Callers, Quiet(c)
      PROVE  Chained(j, k)'
  BY <1>2, <1>7, QuietFrame
<1>8. ASSUME NEW c \in Callers, Writes(c), j # call[c].job
      PROVE  Chained(j, k)'
  BY <1>2, <1>8, OtherJobs
<1>9. ASSUME NEW c \in Callers,
             DirectorySteps(c) \/ StartAppend(c) \/ SyncAbove(c) \/ Acknowledge(c)
      PROVE  Chained(j, k)'
  <2>1. entries' = entries
    BY <1>9, DirectoryShape, SyncAboveShape DEF StartAppend, Acknowledge
  <2> QED
    BY <1>2, <2>1
<1> QED
  BY <1>3, <1>4, <1>5, <1>6, <1>7, <1>8, <1>9, NextCases DEF Writes

-----------------------------------------------------------------------------

(* What was acknowledged is there for good. *)

\* AckedIsDurable for one acknowledgement.
Durable(a) ==
  /\ a.at \in DOMAIN entries[a.job]
  /\ entries[a.job][a.at].snap = a.snap
  /\ entries[a.job][a.at].good /\ entries[a.job][a.at].synced /\ entries[a.job][a.at].linked
  /\ \A d \in DirNames : home[a.job][d].linked

LEMMA DurableAcks == AckedIsDurable <=> \A a \in acks : Durable(a)
BY DEF AckedIsDurable, Durable

\* The last writer knows its record durable when it acknowledges it.
LEMMA AcknowledgeShape ==
  ASSUME TypeOK, CallInv, EntryInv, NEW c \in Callers, Acknowledge(c), NEW j, j = call[c].job,
         NEW n, n = Count(j) - 1
  PROVE  /\ j \in Jobs /\ home' = home /\ entries' = entries /\ n \in DOMAIN entries[j]
         /\ acks' = acks \cup {[by |-> c, job |-> j, at |-> n, snap |-> Tip(j),
                                over |-> call[c].expected]}
         /\ entries[j][n].good /\ entries[j][n].synced /\ entries[j][n].linked
         /\ entries[j][n].snap = Tip(j) /\ entries[j][n].after = call[c].expected
         /\ \A d \in DirNames : home[j][d].linked
         /\ \A a \in acks : a.job = j => a.at < n
<1>1. /\ pc[c] = "reload" /\ Readable(j) /\ home' = home /\ entries' = entries
      /\ acks' = acks \cup {[by |-> c, job |-> j, at |-> n, snap |-> Tip(j),
                             over |-> call[c].expected]}
  BY DEF Acknowledge
<1>2. j \in Jobs /\ EntryAt(c)
  BY <1>1, WriterCall DEF Writes, EntryInv, OpenedPCs
<1>3. n \in DOMAIN entries[j]
  BY <1>1, <1>2, TipTyped
<1>4. entries[j][n].good
  BY <1>1, <1>3 DEF Readable, Intact
<1> QED
  BY <1>1, <1>2, <1>3, <1>4 DEF EntryAt, OpenedPCs, Tip

LEMMA AcksGrow ==
  ASSUME TypeOK, CallInv, EntryInv, [Next]_vars
  PROVE  acks' = acks \/ \E c \in Callers : Acknowledge(c)
<1>1. ASSUME NEW c \in Callers, Writes(c), ~Acknowledge(c) PROVE acks' = acks
  BY <1>1, DirectoryShape, OpenEntryShape, RecordShape, SyncAboveShape DEF Writes, StartAppend
<1> QED
  BY <1>1, NextCases, QuietFrame, LossShape DEF vars

LEMMA DurableStep ==
  ASSUME TypeOK, LockInv, CallInv, HomeInv, EntryInv, CreateInv, AckedIsDurable, [Next]_vars
  PROVE  AckedIsDurable'
<1>1. \A a \in acks : Durable(a) /\ a.job \in Jobs
  BY DurableAcks DEF TypeOK
<1>2. ASSUME NEW a \in acks, entries'[a.job] = entries[a.job], home'[a.job] = home[a.job]
      PROVE  Durable(a)'
  BY <1>1, <1>2 DEF Durable
<1>3. ASSUME PowerLoss, NEW a \in acks
      PROVE  Durable(a)'
  <2>1. Survives(a.job) /\ Durable(a) /\ a.job \in Jobs
    BY <1>1, <1>3, LossShape
  <2>2. \A d \in DirNames : home[a.job][d].there /\ home[a.job][d].linked
    BY <2>1 DEF Durable, HomeInv
  <2>3. a.at \in DOMAIN entries'[a.job] /\ \A d \in DirNames : home'[a.job][d] = Linked
    BY <2>1, <2>2 DEF Survives, Durable
  <2> QED
    BY <2>1, <2>3 DEF Survives, Durable, Linked
<1>4. ASSUME NEW c \in Callers, DirectorySteps(c), NEW a \in acks, a.job = call[c].job
      PROVE  FALSE
  <2>1. PICK d \in DirNames :
          \/ pc[c] \in CreatePCs
          \/ d = "job" /\ ~home[a.job]["job"].there
    BY <1>4, DirectoryShape DEF CreatePCs
  <2>2. a.at \in DOMAIN entries[a.job] /\ \A b \in DirNames : home[a.job][b].there
    BY <1>1 DEF Durable, HomeInv
  <2>3. pc[c] \in CreatePCs => DOMAIN entries[a.job] = {}
    BY <1>4 DEF CreateInv, CreateAt
  <2> QED
    BY <2>1, <2>2, <2>3
<1>5. ASSUME NEW c \in Callers, OpenEntry(c), NEW a \in acks, a.job = call[c].job
      PROVE  Durable(a)'
  <2> DEFINE j == a.job
             n == Count(j)
  <2>0. OpenEntry(c) /\ j = call[c].job
    BY <1>5
  <2>1. /\ home' = home /\ n \in Nat /\ DOMAIN entries[j] = 0 .. n - 1
        /\ \A i \in DOMAIN entries[j] : entries'[j][i] = entries[j][i]
        /\ DOMAIN entries'[j] = 0 .. n
    <3>1. entries' = [entries EXCEPT ![j] = entries'[j]] /\ home' = home
      BY <2>0, OpenEntryShape
    <3> QED
      BY <2>0, OpenEntryShape
  <2>2. DOMAIN entries[j] \subseteq DOMAIN entries'[j]
    BY <2>1
  <2> QED
    BY <1>1, <2>1, <2>2 DEF Durable
<1>6. ASSUME NEW c \in Callers, RecordSteps(c), NEW a \in acks, a.job = call[c].job
      PROVE  Durable(a)'
  BY <1>1, <1>6, RecordShape DEF Durable
<1>7. ASSUME NEW c \in Callers, SyncAbove(c), NEW a \in acks, a.job = call[c].job
      PROVE  Durable(a)'
  BY <1>1, <1>7, SyncAboveShape DEF Durable
<1>8. ASSUME NEW c \in Callers, Acknowledge(c)
      PROVE  \A a \in acks' : Durable(a)'
  <2> DEFINE j == call[c].job
             n == Count(j) - 1
             new == [by |-> c, job |-> j, at |-> n, snap |-> Tip(j), over |-> call[c].expected]
  <2>1. /\ home' = home /\ entries' = entries /\ acks' = acks \cup {new}
        /\ n \in DOMAIN entries[j]
        /\ entries[j][n].good /\ entries[j][n].synced /\ entries[j][n].linked
        /\ entries[j][n].snap = Tip(j)
        /\ \A d \in DirNames : home[j][d].linked
    BY <1>8, AcknowledgeShape
  <2>2. new.job = j /\ new.at = n /\ new.snap = Tip(j)
    OBVIOUS
  <2> HIDE DEF new, n, j
  <2>3. ASSUME NEW a \in acks' PROVE Durable(a)'
    <3>1. a \in acks \/ a = new
      BY <2>1
    <3> QED
      BY <1>2, <2>1, <2>2, <3>1 DEF Durable
  <2> QED
    BY <2>3
<1>9. ASSUME acks' = acks, NEW a \in acks
      PROVE  Durable(a)'
  <2>1. a.job \in Jobs
    BY <1>1
  <2>2. CASE UNCHANGED vars
    BY <1>2, <2>2 DEF vars
  <2>3. ASSUME NEW c \in Callers, Quiet(c) PROVE Durable(a)'
    BY <1>2, <2>3, QuietFrame
  <2>4. ASSUME NEW c \in Callers, Writes(c), a.job # call[c].job PROVE Durable(a)'
    BY <1>2, <2>1, <2>4, OtherJobs
  <2>5. ASSUME NEW c \in Callers, StartAppend(c) PROVE Durable(a)'
    BY <1>2, <2>5 DEF StartAppend
  <2>6. ASSUME NEW c \in Callers, Acknowledge(c) PROVE Durable(a)'
    BY <1>8, <1>9, <2>6
  <2> QED
    BY <1>3, <1>4, <1>5, <1>6, <1>7, <2>2, <2>3, <2>4, <2>5, <2>6, NextCases DEF Writes
<1>10. acks' = acks \/ \E c \in Callers : Acknowledge(c)
  BY AcksGrow
<1> QED
  <2>1. \A a \in acks' : Durable(a)'
    BY <1>8, <1>9, <1>10
  <2> QED
    BY <2>1 DEF AckedIsDurable, Durable

LEMMA AckStep ==
  ASSUME TypeOK, CallInv, EntryInv, AckedIsDurable, AckInv, [Next]_vars
  PROVE  AckInv'
<1> DEFINE Over(a) == a.at \in DOMAIN entries[a.job] => a.over = entries[a.job][a.at].after
<1>1. \A a \in acks : a.job \in Jobs /\ a.at \in DOMAIN entries[a.job] /\ Over(a)
  BY DEF AckInv, AckedIsDurable, TypeOK
<1>2. ASSUME NEW a \in acks
      PROVE  Over(a)'
  <2>1. ASSUME entries'[a.job] = entries[a.job] PROVE Over(a)'
    BY <1>1, <2>1
  <2>2. CASE PowerLoss
    <3>1. Survives(a.job)
      BY <1>1, <2>2, LossShape
    <3> QED
      BY <1>1, <3>1 DEF Survives
  <2>3. ASSUME NEW c \in Callers, RecordSteps(c), a.job = call[c].job
        PROVE  Over(a)'
    BY <1>1, <2>3, RecordShape
  <2>4. ASSUME NEW c \in Callers, OpenEntry(c), a.job = call[c].job
        PROVE  Over(a)'
    <3> DEFINE j == call[c].job
    <3>1. /\ entries' = [entries EXCEPT ![j] = entries'[j]]
          /\ \A i \in DOMAIN entries[j] : entries'[j][i] = entries[j][i]
      BY <2>4, OpenEntryShape
    <3> QED
      BY <1>1, <2>4, <3>1
  <2>5. CASE UNCHANGED vars
    BY <2>1, <2>5 DEF vars
  <2>6. ASSUME NEW c \in Callers, Quiet(c) PROVE Over(a)'
    BY <2>1, <2>6, QuietFrame
  <2>7. ASSUME NEW c \in Callers, Writes(c), a.job # call[c].job PROVE Over(a)'
    BY <1>1, <2>1, <2>7, OtherJobs
  <2>8. ASSUME NEW c \in Callers,
               DirectorySteps(c) \/ StartAppend(c) \/ SyncAbove(c) \/ Acknowledge(c)
        PROVE  Over(a)'
    <3>1. entries' = entries
      BY <2>8, DirectoryShape, SyncAboveShape DEF StartAppend, Acknowledge
    <3> QED
      BY <2>1, <3>1
  <2> HIDE DEF Over
  <2> QED
    BY <2>2, <2>3, <2>4, <2>5, <2>6, <2>7, <2>8, NextCases DEF Writes
<1>3. CASE acks' = acks
  BY <1>2, <1>3 DEF AckInv
<1>4. ASSUME NEW c \in Callers, Acknowledge(c)
      PROVE  AckInv'
  <2> DEFINE j == call[c].job
             n == Count(j) - 1
             new == [by |-> c, job |-> j, at |-> n, snap |-> Tip(j), over |-> call[c].expected]
  <2>1. /\ entries' = entries /\ acks' = acks \cup {new} /\ n \in DOMAIN entries[j]
        /\ entries[j][n].after = call[c].expected
        /\ \A a \in acks : a.job = j => a.at < n
    BY <1>4, AcknowledgeShape
  <2>2. new.job = j /\ new.at = n /\ new.over = call[c].expected
    OBVIOUS
  <2>3. n \in Int /\ \A a \in acks : a.at \in Int
    BY <1>4, AcknowledgeShape, EntriesTyped DEF TypeOK
  <2> HIDE DEF new, n, j
  <2>4. ASSUME NEW a \in acks' PROVE Over(a)'
    <3>1. a \in acks \/ a = new
      BY <2>1
    <3> QED
      BY <1>2, <2>1, <2>2, <3>1
  <2>5. ASSUME NEW a \in acks', NEW b \in acks', a.job = b.job, a.at = b.at
        PROVE  a = b
    <3>1. (a \in acks \/ a = new) /\ (b \in acks \/ b = new)
      BY <2>1
    <3>2. CASE a \in acks /\ b \in acks
      BY <2>5, <3>2 DEF AckInv
    <3>3. CASE (a \in acks /\ b = new) \/ (a = new /\ b \in acks)
      BY <2>1, <2>2, <2>3, <2>5, <3>3
    <3> QED
      BY <3>1, <3>2, <3>3
  <2> QED
    BY <2>4, <2>5 DEF AckInv
<1> QED
  BY <1>3, <1>4, AcksGrow

-----------------------------------------------------------------------------

(* A half-made job is one that is being made, when nothing fails. *)

LEMMA SpentGrows ==
  ASSUME TypeOK, [Next]_vars
  PROVE  /\ spent'.failures + spent'.losses = 0 => spent.failures + spent.losses = 0
         /\ PowerLoss => spent'.failures + spent'.losses # 0
         /\ \A c \in Callers : Raise(c) \/ Crash(c) => spent'.failures + spent'.losses # 0
<1>1. spent \in [calls : Nat, failures : Nat, losses : Nat]
  BY DEF TypeOK
<1>2. spent.failures \in Nat /\ spent.losses \in Nat
  BY <1>1
<1>3. ASSUME spent' = [spent EXCEPT !.losses = @ + 1] \/ spent' = [spent EXCEPT !.failures = @ + 1]
      PROVE  spent'.failures + spent'.losses # 0
  BY <1>1, <1>2, <1>3
<1>4. PowerLoss => spent' = [spent EXCEPT !.losses = @ + 1]
  BY DEF PowerLoss
<1>5. \A c \in Callers : Raise(c) \/ Crash(c) => spent' = [spent EXCEPT !.failures = @ + 1]
  BY DEF Raise, Crash
<1>6. ASSUME spent' = [spent EXCEPT !.calls = @ + 1] \/ spent' = spent
      PROVE  spent'.failures = spent.failures /\ spent'.losses = spent.losses
  BY <1>1, <1>6
<1>7. ASSUME ~PowerLoss, \A c \in Callers : ~Raise(c) /\ ~Crash(c)
      PROVE  spent' = [spent EXCEPT !.calls = @ + 1] \/ spent' = spent
  <2>1. ASSUME NEW c \in Callers, Quiet(c)
        PROVE  spent' = [spent EXCEPT !.calls = @ + 1] \/ spent' = spent
    BY <1>7, <2>1 DEF Quiet, Begin, Look, Acquire, Ends, ReturnLoaded, Refuse
  <2>2. ASSUME NEW c \in Callers, Writes(c)
        PROVE  spent' = spent
    <3>1. CASE DirectorySteps(c) \/ StartAppend(c)
      BY <3>1 DEF DirectorySteps, StartCreate, MakeSnapshots, SyncSnapshotsName, SyncJobName,
                  DirectoryStep, StartAppend
    <3>2. CASE OpenEntry(c) \/ RecordSteps(c)
      BY <3>2 DEF OpenEntry, RecordSteps, WriteEntry, SyncEntry, SyncSnapshots
    <3>3. CASE SyncAbove(c) \/ Acknowledge(c)
      BY <3>3 DEF SyncAbove, Acknowledge
    <3> QED
      BY <2>2, <3>1, <3>2, <3>3 DEF Writes
  <2> QED
    BY <1>7, <2>1, <2>2, NextCases DEF vars
<1> QED
  BY <1>3, <1>4, <1>5, <1>6, <1>7

LEMMA WholeStep ==
  ASSUME TypeOK, LockInv, CallInv, EntryInv, CreateInv, WholeInv, [Next]_vars
  PROVE  WholeInv'
<1> SUFFICES ASSUME spent'.failures + spent'.losses = 0, NEW k \in Jobs, HalfMade(k)'
             PROVE  \E c \in Callers : pc'[c] = "mkdir" /\ call'[c].job = k
  BY DEF WholeInv
<1>1. /\ ~PowerLoss /\ \A c \in Callers : ~Raise(c) /\ ~Crash(c)
      /\ HalfMade(k) => \E c \in Callers : pc[c] = "mkdir" /\ call[c].job = k
  BY SpentGrows DEF WholeInv
<1>2. CASE UNCHANGED vars
  BY <1>1, <1>2 DEF vars, HalfMade
<1>3. ASSUME NEW c \in Callers, Quiet(c)
      PROVE  \E d \in Callers : pc'[d] = "mkdir" /\ call'[d].job = k
  <2>1. HalfMade(k)
    BY <1>3, QuietFrame DEF HalfMade
  <2>2. PICK d \in Callers : pc[d] = "mkdir" /\ call[d].job = k
    BY <1>1, <2>1
  <2>3. pc[c] # "mkdir"
    BY <1>1, <1>3 DEF Quiet, Begin, Look, Acquire, Ends, ReturnLoaded, Refuse
  <2>4. pc'[d] = pc[d] /\ call'[d] = call[d]
    <3>1. d # c
      BY <2>2, <2>3
    <3>2. CASE Begin(c)
      BY <3>1, <3>2 DEF Begin, Goto, TypeOK
    <3>3. CASE Look(c) \/ Acquire(c)
      BY <3>1, <3>3 DEF Look, Acquire, Goto, TypeOK
    <3>4. CASE Ends(c)
      BY <3>1, <3>4, EndsMove DEF Release, TypeOK
    <3> QED
      BY <1>3, <3>2, <3>3, <3>4 DEF Quiet
  <2> QED
    BY <2>2, <2>4
<1>4. ASSUME NEW c \in Callers, Writes(c)
      PROVE  \E d \in Callers : pc'[d] = "mkdir" /\ call'[d].job = k
  <2>1. HalfMade(k) => pc[c] = "mkdir" /\ call[c].job = k
    BY <1>1, <1>4, OneWriter DEF WritePCs, CreatePCs
  <2>2. call[c].job = k
    <3>1. CASE call[c].job # k
      BY <1>4, <2>1, <3>1, OtherJobs DEF HalfMade
    <3> QED
      BY <3>1
  <2>3. CASE DirectorySteps(c)
    <3>1. PICK d \in DirNames, node \in {Made, Linked} :
          /\ home' = [home EXCEPT ![k][d] = node] /\ call' = call
          /\ \/ pc[c] = "locked" /\ pc'[c] = "mkdir"
             \/ pc[c] = "mkdir" /\ d = "snapshots"
             \/ pc[c] = "syncSnapshotsName" /\ d = "snapshots"
             \/ pc[c] = "syncJobName" /\ d = "job"
      BY <2>2, <2>3, DirectoryShape
    <3>2. /\ home'[k][d] = node /\ \A b \in DirNames : b # d => home'[k][b] = home[k][b]
          /\ node.there
      BY <3>1 DEF TypeOK, Made, Linked
    <3>3. CASE d = "snapshots"
      BY <3>2, <3>3 DEF HalfMade
    <3>4. CASE pc[c] = "syncJobName" /\ d = "job"
      <4>1. home[k]["snapshots"].there
        BY <2>2, <3>4 DEF CreateInv, CreateAt, CreatePCs
      <4> QED
        BY <3>2, <3>4, <4>1 DEF HalfMade, DirNames
    <3> QED
      BY <2>2, <3>1, <3>3, <3>4
  <2>4. CASE StartAppend(c) \/ OpenEntry(c) \/ RecordSteps(c) \/ SyncAbove(c) \/ Acknowledge(c)
    <3>1. pc[c] # "mkdir"
      BY <2>4 DEF StartAppend, OpenEntry, RecordSteps, WriteEntry, SyncEntry, SyncSnapshots,
                  SyncAbove, Acknowledge
    <3>2. \A d \in DirNames : home'[k][d].there = home[k][d].there
      <4>1. CASE SyncAbove(c)
        BY <2>2, <4>1, SyncAboveShape
      <4>2. CASE OpenEntry(c) \/ RecordSteps(c)
        BY <4>2, OpenEntryShape, RecordShape
      <4>3. CASE StartAppend(c) \/ Acknowledge(c)
        BY <4>3 DEF StartAppend, Acknowledge
      <4> QED
        BY <2>4, <4>1, <4>2, <4>3
    <3> QED
      BY <2>1, <3>1, <3>2 DEF HalfMade, DirNames
  <2> QED
    BY <1>4, <2>3, <2>4 DEF Writes
<1> QED
  BY <1>1, <1>2, <1>3, <1>4, NextCases

-----------------------------------------------------------------------------

(* What was checked before a record is opened, and what cannot be lost. *)

\* The job of a call that is past its checks.
LEMMA CallerJob ==
  ASSUME TypeOK, CallInv, NEW c \in Callers, pc[c] # "idle"
  PROVE  call[c] \in Calls /\ call[c].job \in Jobs
BY DEF CallInv, Calls

LEMMA SameOffer ==
  ASSUME NEW j \in Jobs, entries'[j] = entries[j], home'[j] = home[j]
  PROVE  /\ Readable(j)' <=> Readable(j)
         /\ Unfinished(j)' <=> Unfinished(j)
BY DEF Count, Readable, Unfinished, Intact, Follows

\* The record that is opened is the only one of its job that is not whole.
LEMMA OneMore ==
  ASSUME TypeOK, CallInv, HomeInv, EntryInv, RecordInv, NEW c \in Callers, OpenEntry(c),
         NEW j, j = call[c].job
  PROVE  Unfinished(j)'
<1>0. PICK n \in Nat : n = Count(j)
  BY OpenEntryShape
<1>1. /\ j \in Jobs /\ DOMAIN entries[j] = 0 .. n - 1
      /\ DOMAIN entries'[j] = 0 .. n /\ Count(j)' = n + 1
      /\ \A i \in DOMAIN entries[j] : entries'[j][i] = entries[j][i]
      /\ entries'[j][n] = Entry(call[c].successor, call[c].expected)
      /\ home' = home
  <2>1. j \in Jobs /\ DOMAIN entries[j] = 0 .. Count(j) - 1
    BY OpenEntryShape
  <2>2. DOMAIN entries'[j] = 0 .. Count(j)
    BY OpenEntryShape
  <2>3. \A i \in DOMAIN entries[j] : entries'[j][i] = entries[j][i]
    BY OpenEntryShape
  <2>4. entries'[j][Count(j)] = Entry(call[c].successor, call[c].expected)
    BY OpenEntryShape
  <2>5. home' = home
    BY OpenEntryShape
  <2>6. Count(j)' = n + 1
    BY <1>0, <2>2, FS_Interval DEF Count
  <2> QED
    BY <1>0, <2>1, <2>2, <2>3, <2>4, <2>5, <2>6
<1>2. /\ n = 0 => call[c].expected = {}
      /\ n > 0 => /\ call[c].expected = {entries[j][n - 1].snap}
                  /\ Reconstructs(entries[j][n - 1].snap, call[c].successor)
  BY <1>0, OpenEntryShape DEF Tip
<1>3. pc[c] = "entryOpen" /\ EntryAt(c)
  BY DEF OpenEntry, EntryInv
<1>4. home'[j]["snapshots"].there
  BY <1>1, <1>3 DEF EntryAt, HomeInv, DirNames
<1>5. /\ entries'[j][n].snap = call[c].successor /\ entries'[j][n].after = call[c].expected
      /\ entries'[j][n].good = FALSE
  BY <1>1 DEF Entry
<1>6. CASE call[c].op = "append"
  <2>1. Readable(j) /\ n > 0
    BY <1>0, <1>1, <1>3, <1>6 DEF RecordInv, EntryAt
  <2>2. \A i \in DOMAIN entries[j] : Intact(j, i) /\ Follows(j, i)
    BY <2>1 DEF Readable
  <2>3. ASSUME NEW i \in DOMAIN entries'[j]
        PROVE  (Intact(j, i)' <=> i # Count(j)' - 1) /\ Follows(j, i)'
    <3>1. CASE i = n
      <4>1. i # 0 /\ i - 1 = n - 1 /\ n - 1 \in DOMAIN entries[j] /\ i = Count(j)' - 1
        BY <1>1, <2>1, <3>1
      <4>2. entries'[j][i - 1] = entries[j][n - 1]
        BY <1>1, <4>1
      <4>3. entries'[j][i].good = FALSE
        BY <1>5, <3>1
      <4>4. /\ entries'[j][i].after = {entries'[j][i - 1].snap}
            /\ Reconstructs(entries'[j][i - 1].snap, entries'[j][i].snap)
        BY <1>2, <1>5, <2>1, <3>1, <4>2
      <4> QED
        BY <4>1, <4>3, <4>4 DEF Intact, Follows
    <3>2. CASE i < n
      <4>1. i \in DOMAIN entries[j] /\ entries'[j][i] = entries[j][i] /\ i # Count(j)' - 1
        BY <1>1, <2>3, <3>2
      <4>2. i # 0 => entries'[j][i - 1] = entries[j][i - 1]
        BY <1>1, <2>3, <3>2
      <4> QED
        BY <2>2, <4>1, <4>2 DEF Intact, Follows
    <3> QED
      BY <1>1, <2>3, <3>1, <3>2
  <2>4. Count(j)' > 0 /\ DOMAIN entries'[j] = 0 .. Count(j)' - 1
    BY <1>1
  <2> QED
    BY <1>4, <2>3, <2>4 DEF Unfinished
<1>7. CASE call[c].op # "append"
  <2>1. n = 0
    BY <1>0, <1>3, <1>7 DEF EntryAt
  <2>2. call[c].expected = {} /\ call[c].successor = RequestedLifecycle
    <3>1. call[c].op = "create"
      BY <1>3, <1>7, CallerJob DEF CallInv, WritePCs, Calls
    <3> QED
      BY <3>1 DEF CallInv
  <2>3. DOMAIN entries'[j] = {0} /\ Count(j)' = 1 /\ Count(j)' - 1 = 0
    BY <1>1, <2>1
  <2>4. /\ entries'[j][0].snap = RequestedLifecycle /\ entries'[j][0].after = {}
        /\ entries'[j][0].good = FALSE
    BY <1>5, <2>1, <2>2
  <2>5. DOMAIN entries'[j] = 0 .. Count(j)' - 1 /\ Count(j)' > 0
    BY <1>1, <2>3
  <2> QED
    BY <1>4, <2>3, <2>4, <2>5 DEF Unfinished, Intact, Follows
<1> QED
  BY <1>6, <1>7

LEMMA OfferStep ==
  ASSUME TypeOK, LockInv, CallInv, HomeInv, EntryInv, RecordInv, [Next]_vars
  PROVE  RecordInv'
<1>1. CASE UNCHANGED vars
  BY <1>1 DEF vars, RecordInv, Readable, Count, Unfinished, Intact, Follows
<1>2. CASE PowerLoss
  BY <1>2 DEF PowerLoss, RecordInv
<1>3. ASSUME NEW c \in Callers, Quiet(c) PROVE RecordInv'
  <2> SUFFICES ASSUME NEW d \in Callers, NEW j \in Jobs, pc'[d] \in {"entryOpen", "entryWrite"},
                      call'[d].job = j
               PROVE  /\ pc'[d] = "entryOpen" /\ call'[d].op = "append" => Readable(j)'
                      /\ pc'[d] = "entryWrite" => Unfinished(j)'
    BY DEF RecordInv
  <2>1. home' = home /\ entries' = entries /\ pc'[d] = pc[d] /\ call'[d] = call[d]
    BY <1>3, QuietFrame DEF WritePCs, OpenedPCs
  <2> QED
    BY <2>1, SameOffer DEF RecordInv
<1>4. ASSUME NEW c \in Callers, Writes(c) PROVE RecordInv'
  <2>1. \A d \in Callers : d # c => pc'[d] \notin WritePCs
    BY <1>4, OneWriter
  <2>2. CASE Acknowledge(c)
    <3>1. pc'[c] = "idle"
      BY <2>2 DEF Acknowledge, Release, TypeOK
    <3> QED
      BY <2>1, <3>1 DEF RecordInv, WritePCs, OpenedPCs
  <2>3. CASE ~Acknowledge(c)
    <3>0. call' = call
      BY <1>4, <2>3, WritesMove DEF WritePCs, CreatePCs, OpenedPCs
    <3> SUFFICES ASSUME NEW j \in Jobs, j = call[c].job
                 PROVE  /\ pc'[c] = "entryOpen" /\ call[c].op = "append" => Readable(j)'
                        /\ pc'[c] = "entryWrite" => Unfinished(j)'
      BY <2>1, <3>0 DEF RecordInv, WritePCs, OpenedPCs
    <3>1. CASE DirectorySteps(c)
      <4>1. pc'[c] # "entryWrite" /\ (pc'[c] = "entryOpen" => pc[c] = "syncJobName")
        BY <3>1, DirectoryShape
      <4> QED
        BY <4>1 DEF CallInv, CreatePCs
    <3>2. CASE StartAppend(c)
      <4>1. pc'[c] = "entryOpen" /\ Readable(j) /\ home' = home /\ entries' = entries
        BY <3>2 DEF StartAppend, Goto, AppendAllowed, TypeOK
      <4> QED
        BY <3>0, <4>1, SameOffer
    <3>3. CASE OpenEntry(c)
      <4>1. pc'[c] = "entryWrite"
        BY <3>3, OpenEntryShape
      <4> QED
        BY <3>3, <4>1, OneMore
    <3>4. CASE RecordSteps(c) \/ SyncAbove(c)
      BY <3>4 DEF RecordSteps, WriteEntry, SyncEntry, SyncSnapshots, SyncAbove, Goto, TypeOK
    <3> QED
      BY <1>4, <2>3, <3>1, <3>2, <3>3, <3>4 DEF Writes
  <2> QED
    BY <2>2, <2>3
<1> QED
  BY <1>1, <1>2, <1>3, <1>4, NextCases

\* The records below an acknowledged one.
Below(a) ==
  \A i \in 0 .. a.at : i \in DOMAIN entries[a.job] /\ entries[a.job][i].linked

LEMMA KeptStep ==
  ASSUME TypeOK, CallInv, HomeInv, EntryInv, AckedIsDurable, KeptInv, [Next]_vars
  PROVE  KeptInv'
<1>1. \A a \in acks : Below(a) /\ a.job \in Jobs
  BY DEF KeptInv, Below, TypeOK
<1>2. ASSUME NEW a \in acks, entries'[a.job] = entries[a.job] PROVE Below(a)'
  BY <1>1, <1>2 DEF Below
<1>3. ASSUME NEW c \in Callers, Acknowledge(c), NEW a \in acks' PROVE Below(a)'
  <2> DEFINE j == call[c].job
             n == Count(j) - 1
  <2>1. /\ j \in Jobs /\ entries' = entries
        /\ acks' = acks \cup {[by |-> c, job |-> j, at |-> n, snap |-> Tip(j),
                               over |-> call[c].expected]}
    BY <1>3, AcknowledgeShape
  <2>2. CASE a \in acks
    BY <1>2, <2>1, <2>2
  <2>3. CASE a \notin acks
    <3>1. a.job = j /\ a.at = n
      BY <1>3, <2>1, <2>3
    <3>2. EntryAt(c) /\ pc[c] = "reload"
      BY <1>3 DEF Acknowledge, EntryInv, OpenedPCs
    <3>3. DOMAIN entries[j] = 0 .. n /\ \A i \in DOMAIN entries[j] : entries[j][i].linked
      BY <3>2 DEF EntryAt
    <3> QED
      BY <2>1, <3>1, <3>3 DEF Below
  <2> QED
    BY <2>2, <2>3
<1>4. ASSUME acks' = acks, NEW a \in acks PROVE Below(a)'
  <2> DEFINE j == a.job
  <2>1. j \in Jobs /\ Below(a)
    BY <1>1
  <2>2. CASE entries'[j] = entries[j]
    BY <1>2, <2>2
  <2>3. CASE PowerLoss
    <3>1. \A d \in DirNames : home[j][d].there /\ home[j][d].linked
      BY <2>1 DEF AckedIsDurable, HomeInv
    <3>2. Survives(j)
      BY <2>1, <2>3, LossShape
    <3>3. \A i \in DOMAIN entries[j] : entries[j][i].linked =>
            i \in DOMAIN entries'[j] /\ entries'[j][i].linked
      BY <3>1, <3>2 DEF Survives
    <3> QED
      BY <2>1, <3>3 DEF Below
  <2>4. ASSUME NEW c \in Callers, RecordSteps(c), j = call[c].job PROVE Below(a)'
    BY <2>1, <2>4, RecordShape DEF Below
  <2>5. ASSUME NEW c \in Callers, OpenEntry(c), j = call[c].job PROVE Below(a)'
    <3>1. /\ Count(j) \in Nat /\ DOMAIN entries[j] = 0 .. Count(j) - 1
          /\ DOMAIN entries'[j] = 0 .. Count(j)
          /\ \A i \in DOMAIN entries[j] : entries'[j][i] = entries[j][i]
      BY <2>5, OpenEntryShape
    <3>2. \A i \in DOMAIN entries[j] : i \in DOMAIN entries'[j]
      BY <3>1
    <3> QED
      BY <2>1, <3>1, <3>2 DEF Below
  <2>6. ASSUME NEW c \in Callers, Writes(c), ~RecordSteps(c), ~OpenEntry(c)
        PROVE  entries' = entries
    BY <2>6, DirectoryShape, SyncAboveShape DEF Writes, StartAppend, Acknowledge
  <2>7. ASSUME NEW c \in Callers, Writes(c), j # call[c].job PROVE entries'[j] = entries[j]
    BY <2>1, <2>7, OtherJobs
  <2> QED
    BY <2>2, <2>3, <2>4, <2>5, <2>6, <2>7, NextCases, QuietFrame DEF vars
<1> QED
  BY <1>3, <1>4, AcksGrow DEF KeptInv, Below

\* What is acknowledged of a job comes after all that was.
LEMMA LastStep ==
  ASSUME TypeOK, CallInv, EntryInv, LastInv, [Next]_vars
  PROVE  LastInv'
<1>1. CASE acks' = acks
  BY <1>1 DEF LastInv
<1>2. ASSUME NEW c \in Callers, Acknowledge(c) PROVE LastInv'
  <2>1. PICK j : j = call[c].job
    OBVIOUS
  <2>2. PICK n : n = Count(j) - 1
    OBVIOUS
  <2> DEFINE new == [by |-> c, job |-> j, at |-> n, snap |-> Tip(j), over |-> call[c].expected]
  <2>3. /\ j \in Jobs /\ n \in DOMAIN entries[j] /\ acks' = acks \cup {new}
        /\ \A a \in acks : a.job = j => a.at < n
    BY <1>2, <2>1, <2>2, AcknowledgeShape
  <2>4. n \in Nat /\ new.job = j /\ new.at = n /\ \A a \in acks : a.at \in Nat
    <3>1. n \in Nat
      BY <2>3, EntriesTyped
    <3>2. \A a \in acks : a.at \in Nat
      BY DEF TypeOK
    <3> QED
      BY <3>1, <3>2
  <2> HIDE DEF new
  <2>5. ASSUME NEW a \in acks'
        PROVE  \E b \in acks' : b.job = a.job /\ \A o \in acks' : o.job = a.job => o.at <= b.at
    <3>1. CASE a.job = j
      BY <2>3, <2>4, <3>1
    <3>2. CASE a.job # j
      <4>1. PICK b \in acks : b.job = a.job /\ \A o \in acks : o.job = a.job => o.at <= b.at
        BY <2>3, <2>4, <2>5, <3>2 DEF LastInv
      <4> QED
        BY <2>3, <2>4, <3>2, <4>1
    <3> QED
      BY <3>1, <3>2
  <2> QED
    BY <2>5 DEF LastInv
<1> QED
  BY <1>1, <1>2, AcksGrow

-----------------------------------------------------------------------------

(* The inductive invariant, and what follows from it. *)

LEMMA InitInv ==
  ASSUME Init
  PROVE  JournalInv
<1> USE DEF Init
<1>1. TypeOK
  <2>1. home \in [Jobs -> [DirNames -> [there : BOOLEAN, linked : BOOLEAN]]]
    BY DEF NoDir
  <2>2. /\ entries = [j \in Jobs |-> entries[j]]
        /\ \A j \in Jobs : /\ DOMAIN entries[j] \subseteq 0 .. MaxSnapshots - 1
                           /\ entries[j] \in [DOMAIN entries[j] -> EntryStates]
    <3>1. entries = [j \in Jobs |-> <<>>]
      OBVIOUS
    <3>2. DOMAIN <<>> = {} /\ <<>> \in [{} -> EntryStates]
      OBVIOUS
    <3> QED
      BY <3>1, <3>2
  <2>3. /\ held \in [Callers -> {"none", "SH", "EX"}] /\ pc \in [Callers -> PCs]
        /\ call \in [Callers -> Calls \cup {NoCall}]
        /\ seen \in [Callers -> [Jobs -> SUBSET Lifecycles]]
    BY DEF PCs
  <2> QED
    BY <2>1, <2>2, <2>3 DEF TypeOK
<1>2. LockInv /\ CallInv /\ CreateInv /\ EntryInv
  BY DEF LockInv, CallInv, CreateInv, EntryInv, WritePCs, CreatePCs, OpenedPCs, NoCall
<1>3. HomeInv /\ ChainInv
  <2>1. \A j \in Jobs : DOMAIN entries[j] = {}
    OBVIOUS
  <2>2. \A j \in Jobs : \A d \in DirNames : ~home[j][d].linked /\ ~home[j][d].there
    BY DEF NoDir
  <2> QED
    BY ONLY <2>1, <2>2 DEF HomeInv, RecordsStandOnDurableNames, ChainInv, DirNames
<1>4. AckedIsDurable /\ AckInv
  BY DEF AckedIsDurable, AckInv
<1>5. WholeInv
  BY DEF WholeInv, HalfMade, NoDir, DirNames
<1>6. RecordInv /\ KeptInv /\ LastInv
  BY DEF RecordInv, KeptInv, LastInv
<1> QED
  BY <1>1, <1>2, <1>3, <1>4, <1>5, <1>6 DEF JournalInv

LEMMA NextInv ==
  ASSUME JournalInv, [Next]_vars
  PROVE  JournalInv'
<1> USE DEF JournalInv
<1>1. TypeOK'
  BY TypeStep
<1>2. LockInv' /\ CallInv'
  BY LockStep, CallStep
<1>3. HomeInv'
  BY HomeStep
<1>4. CreateInv'
  BY CreateStep
<1>5. EntryInv'
  BY EntryStep
<1>6. ChainInv'
  BY ChainStep
<1>7. AckedIsDurable' /\ AckInv'
  BY DurableStep, AckStep
<1>8. WholeInv'
  BY WholeStep
<1>9. RecordInv' /\ KeptInv' /\ LastInv'
  BY OfferStep, KeptStep, LastStep
<1> QED
  BY <1>1, <1>2, <1>3, <1>4, <1>5, <1>6, <1>7, <1>8, <1>9

LEMMA JournalAlways == Spec => []JournalInv
BY InitInv, NextInv, PTL DEF Spec

\* Later records are further on, by the ranks of what they were written over.
LEMMA LaterIsFurther ==
  ASSUME JournalInv, NEW a \in acks, NEW b \in acks, a.job = b.job, a.at < b.at
  PROVE  /\ Rank[a.snap.state] < Rank[b.snap.state]
         /\ \A s \in a.over : Rank[s.state] < Rank[a.snap.state]
         /\ \E s \in b.over : Rank[a.snap.state] <= Rank[s.state]
         /\ a.snap.state \in States /\ b.snap.state \in States
         /\ \A s \in a.over \cup b.over : s.state \in States
<1> DEFINE j == a.job
<1>1. /\ j \in Jobs /\ a.at \in DOMAIN entries[j] /\ b.at \in DOMAIN entries[j]
      /\ a.snap = entries[j][a.at].snap /\ b.snap = entries[j][b.at].snap
      /\ a.over = entries[j][a.at].after /\ b.over = entries[j][b.at].after
  BY DEF JournalInv, AckedIsDurable, AckInv, TypeOK
<1>2. a.snap \in Lifecycles /\ b.snap \in Lifecycles /\ a.over \cup b.over \subseteq Lifecycles
  BY DEF JournalInv, TypeOK
<1>3. /\ a.snap.state \in States /\ b.snap.state \in States
      /\ \A s \in a.over \cup b.over : s.state \in States
  BY <1>2 DEF Lifecycles
<1>4. Chained(j, a.at) /\ Chained(j, b.at)
  BY <1>1 DEF JournalInv, ChainInv, Chained
<1>5. PICK s \in b.over : Rank[a.snap.state] <= Rank[s.state]
  BY <1>1, <1>4 DEF Chained
<1>6. \A r \in b.over : Rank[r.state] < Rank[b.snap.state]
  BY <1>1, <1>4 DEF Chained
<1>7. \A r \in a.over : Rank[r.state] < Rank[a.snap.state]
  BY <1>1, <1>4 DEF Chained
<1>8. Rank[a.snap.state] \in Nat /\ Rank[b.snap.state] \in Nat /\ Rank[s.state] \in Nat
  BY <1>3, RanksOfStates
<1> QED
  BY <1>3, <1>5, <1>6, <1>7, <1>8

LEMMA HistoryFollows ==
  ASSUME JournalInv
  PROVE  HistoryIsSafe
<1>1. \A a \in acks : a.at \in Int
  BY DEF JournalInv, TypeOK
<1>2. \A a, b \in acks : a.job = b.job /\ a.at = b.at => a = b
  BY DEF JournalInv, AckInv
<1>3. ASSUME NEW a \in acks, NEW b \in acks, a.job = b.job, a.at < b.at
      PROVE  /\ ~({a.snap.state, b.snap.state} \subseteq TerminalStates)
             /\ a.over # b.over
  <2>1. /\ Rank[a.snap.state] < Rank[b.snap.state]
        /\ \A s \in a.over : Rank[s.state] < Rank[a.snap.state]
        /\ \E s \in b.over : Rank[a.snap.state] <= Rank[s.state]
        /\ a.snap.state \in States /\ b.snap.state \in States
        /\ \A s \in a.over \cup b.over : s.state \in States
    BY <1>3, LaterIsFurther
  <2>2. ~({a.snap.state, b.snap.state} \subseteq TerminalStates)
    BY <2>1, RanksOfStates
  <2>3. ASSUME a.over = b.over PROVE FALSE
    <3>1. PICK s \in a.over : Rank[a.snap.state] <= Rank[s.state]
      BY <2>1, <2>3
    <3>2. Rank[s.state] < Rank[a.snap.state] /\ Rank[s.state] \in Nat /\ Rank[a.snap.state] \in Nat
      BY <2>1, <3>1, RanksOfStates
    <3> QED
      BY <3>1, <3>2
  <2> QED
    BY <2>2, <2>3
<1>4. OneOutcome
  <2> SUFFICES ASSUME NEW a \in acks, NEW b \in acks, a.job = b.job,
                      {a.snap.state, b.snap.state} \subseteq TerminalStates
               PROVE  a = b
    BY DEF OneOutcome
  <2>1. ~(a.at < b.at) /\ ~(b.at < a.at)
    BY <1>3
  <2> QED
    BY <1>1, <1>2, <2>1
<1>5. NoForkAcknowledged
  <2> SUFFICES ASSUME NEW a \in acks, NEW b \in acks, a.job = b.job,
                      a.at = b.at \/ a.over = b.over
               PROVE  a = b
    BY DEF NoForkAcknowledged
  <2>1. ~(a.at < b.at) /\ ~(b.at < a.at)
    BY <1>1, <1>3
  <2> QED
    BY <1>1, <1>2, <2>1
<1>6. EvidenceIsKept
  BY DEF EvidenceIsKept, JournalInv, ChainInv, Keeps
<1> QED
  BY <1>4, <1>5, <1>6 DEF HistoryIsSafe

LEMMA WholeFollows ==
  ASSUME JournalInv
  PROVE  LockedRootIsWhole
<1> SUFFICES ASSUME spent.failures + spent.losses = 0, NEW c \in Callers, pc[c] = "locked",
                    NEW j \in Jobs, HalfMade(j)
             PROVE  FALSE
  BY DEF LockedRootIsWhole, LayoutOk
<1>1. PICK d \in Callers : pc[d] = "mkdir"
  BY DEF JournalInv, WholeInv
<1>2. held[d] = "EX" /\ d # c
  BY <1>1 DEF JournalInv, LockInv, WritePCs, CreatePCs
<1>3. held[c] = "none"
  BY <1>2 DEF JournalInv, LockInv
<1> QED
  BY <1>3 DEF JournalInv, LockInv, LockMode

\* The records of every job are one history, whoever wrote them and whatever
\* failed: an acknowledged record is on disk for good, at most one outcome of a
\* job is acknowledged, no snapshot is extended twice, and no recorded identity
\* is ever replaced (create_, append_ and load_lab_coding_job_lifecycle_journal).
THEOREM CodingJobHistory == Spec => []HistoryIsSafe
BY JournalAlways, HistoryFollows, PTL

\* While nothing fails, whoever has the lock finds every job of the root whole,
\* so the second layout validation never refuses a call then.
THEOREM CodingJobRootIsWhole == Spec => []LockedRootIsWhole
BY JournalAlways, WholeFollows, PTL

-----------------------------------------------------------------------------
(***************************************************************************)
(* The journal implements the ledger, step by step.                        *)
(***************************************************************************)
\* The two copies of the rules of a lifecycle are one.
LEMMA LedgerRules ==
  /\ Ledger!RequestedLifecycle = RequestedLifecycle
  /\ \A t, u : Reconstructs(t, u) => Ledger!Reconstructs(t, u)
<1>1. Ledger!RequestedLifecycle = RequestedLifecycle
  BY DEF Ledger!RequestedLifecycle, RequestedLifecycle, Ledger!NoEvidence, NoEvidence,
     Ledger!Fields, Fields
<1>2. ASSUME NEW t, NEW u, Reconstructs(t, u) PROVE Ledger!Reconstructs(t, u)
  <2>1. u.state \in Ledger!AllowedStates[t.state]
    BY <1>2 DEF Reconstructs, MayAdvance, AllowedStates, Ledger!AllowedStates, States,
       Ledger!States, TerminalStates, Ledger!TerminalStates
  <2>2. ~Ledger!Contradicts(t.evidence, u.evidence)
    BY <1>2 DEF Reconstructs, MayAdvance, Contradicts, Ledger!Contradicts, Fields, Ledger!Fields
  <2>3. Ledger!Advance(t.evidence, u.evidence) = Advance(t.evidence, u.evidence)
    BY DEF Ledger!Advance, Advance, Ledger!Fields, Fields
  <2>4. \A s, e : StateInvariants(s, e) => Ledger!StateInvariants(s, e)
    BY DEF StateInvariants, Ledger!StateInvariants, Recorded, Ledger!Recorded, Fields,
       Ledger!Fields, RequiredEvidence, Ledger!RequiredEvidence, PermittedEvidence,
       Ledger!PermittedEvidence, States, Ledger!States, Success, Ledger!Success
  <2>5. Ledger!StateInvariants(u.state, Ledger!Advance(t.evidence, u.evidence))
    BY <1>2, <2>3, <2>4 DEF Reconstructs, MayAdvance
  <2>6. Ledger!Successor(t, u.state, u.evidence) = u
    BY <1>2, <2>3 DEF Reconstructs, Successor, Ledger!Successor
  <2> QED
    BY <2>1, <2>2, <2>5, <2>6 DEF Ledger!Reconstructs, Ledger!MayAdvance
<1> QED
  BY <1>1, <1>2

\* The chain of the first n records of e.
Chain(e, n) == [i \in 1 .. n |-> e[i - 1].snap]

LEMMA ChainTyped ==
  ASSUME NEW n \in Nat, NEW e, \A i \in 0 .. n - 1 : e[i].snap \in Lifecycles
  PROVE  /\ Chain(e, n) \in Seq(Lifecycles) /\ Len(Chain(e, n)) = n
         /\ DOMAIN Chain(e, n) = 1 .. n
         /\ \A i \in 1 .. n : Chain(e, n)[i] = e[i - 1].snap
<1>1. \A i \in 1 .. n : i - 1 \in 0 .. n - 1
  OBVIOUS
<1>2. Chain(e, n) \in [1 .. n -> Lifecycles]
  BY <1>1 DEF Chain
<1> QED
  BY <1>2 DEF Chain

LEMMA ChainLegal ==
  ASSUME NEW n \in Nat, NEW e,
         \A i \in 0 .. n - 1 :
           /\ e[i].snap \in Lifecycles
           /\ i = 0 => e[i].snap = RequestedLifecycle
           /\ i > 0 => Reconstructs(e[i - 1].snap, e[i].snap)
  PROVE  Ledger!LegalChain(Chain(e, n))
<1>1. DOMAIN Chain(e, n) = 1 .. n /\ \A i \in 1 .. n : Chain(e, n)[i] = e[i - 1].snap
  BY DEF Chain
<1>2. ASSUME NEW i \in 1 .. n
      PROVE  IF i = 1 THEN Chain(e, n)[i] = Ledger!RequestedLifecycle
             ELSE Ledger!Reconstructs(Chain(e, n)[i - 1], Chain(e, n)[i])
  <2>1. CASE i = 1
    BY <1>1, <2>1, LedgerRules
  <2>2. CASE i # 1
    <3>1. i - 1 \in 1 .. n /\ i - 1 > 0 /\ i - 1 \in 0 .. n - 1
      BY <2>2
    <3>2. Reconstructs(e[(i - 1) - 1].snap, e[i - 1].snap)
      BY <3>1
    <3>3. Chain(e, n)[i] = e[i - 1].snap /\ Chain(e, n)[i - 1] = e[(i - 1) - 1].snap
      BY <1>1, <3>1
    <3> QED
      BY <2>2, <3>2, <3>3, LedgerRules
  <2> QED
    BY <2>1, <2>2
<1> QED
  BY <1>1, <1>2 DEF Ledger!LegalChain

\* A chain extends every chain of its first records.
LEMMA ChainExtends ==
  ASSUME NEW n \in Nat, NEW m \in Nat, m <= n, NEW e, NEW f,
         \A i \in 0 .. n - 1 : e[i].snap \in Lifecycles,
         \A i \in 0 .. m - 1 : f[i].snap = e[i].snap
  PROVE  Ledger!Extends(Chain(e, n), Chain(f, m))
<1>1. \A i \in 0 .. m - 1 : f[i].snap \in Lifecycles /\ i \in 0 .. n - 1
  OBVIOUS
<1>2. /\ Chain(e, n) \in Seq(Lifecycles) /\ Len(Chain(e, n)) = n
      /\ \A i \in 1 .. n : Chain(e, n)[i] = e[i - 1].snap
  BY ChainTyped
<1>3. /\ Chain(f, m) \in Seq(Lifecycles) /\ Len(Chain(f, m)) = m
      /\ \A i \in 1 .. m : Chain(f, m)[i] = f[i - 1].snap
  BY <1>1, ChainTyped
<1>4. \A i \in 1 .. m : i \in 1 .. n /\ i - 1 \in 0 .. m - 1
  OBVIOUS
<1>5. \A i \in 1 .. m : Chain(f, m)[i] = Chain(e, n)[i]
  BY <1>2, <1>3, <1>4
<1>6. SubSeq(Chain(e, n), 1, m) = Chain(f, m)
  BY <1>2, <1>3, <1>4, <1>5
<1> QED
  BY <1>2, <1>3, <1>6 DEF Ledger!Extends

LEMMA ChainGrows ==
  ASSUME NEW n \in Nat, n > 0, NEW e, NEW f,
         \A i \in 0 .. n - 1 : e[i].snap \in Lifecycles /\ f[i].snap = e[i].snap
  PROVE  /\ Chain(f, n) = Append(Chain(e, n - 1), Chain(f, n)[n])
         /\ Len(Chain(f, n)) = Len(Chain(e, n - 1)) + 1 /\ Len(Chain(e, n - 1)) = n - 1
<1>1. n - 1 \in Nat /\ \A i \in 0 .. (n - 1) - 1 : i \in 0 .. n - 1
  OBVIOUS
<1>2. /\ Chain(e, n - 1) \in Seq(Lifecycles) /\ Len(Chain(e, n - 1)) = n - 1
      /\ \A i \in 1 .. n - 1 : Chain(e, n - 1)[i] = e[i - 1].snap
  <2>1. \A i \in 0 .. (n - 1) - 1 : e[i].snap \in Lifecycles
    BY <1>1
  <2> QED
    BY <1>1, <2>1, ChainTyped
<1>3. /\ Chain(f, n) \in Seq(Lifecycles) /\ Len(Chain(f, n)) = n
      /\ \A i \in 1 .. n : Chain(f, n)[i] = f[i - 1].snap
  BY ChainTyped
<1>4. \A i \in 1 .. n - 1 : i \in 1 .. n /\ i - 1 \in 0 .. n - 1
  BY <1>1
<1>5. \A i \in 1 .. n - 1 : Chain(f, n)[i] = Chain(e, n - 1)[i]
  BY <1>2, <1>3, <1>4
<1>6. n \in 1 .. n /\ Chain(f, n)[n] \in Lifecycles
  BY <1>3
<1> QED
  BY <1>1, <1>2, <1>3, <1>5, <1>6

LEMMA NoChain == ASSUME NEW e PROVE Chain(e, 0) = <<>>
BY DEF Chain

-----------------------------------------------------------------------------

(* What is shown of one job. *)

\* The pcs at which a job that cannot be read still counts as open.
BusyPCs == CreatePCs \cup {"entryOpen", "entryWrite"}

JobBusy(j) == AtWork(j, BusyPCs)
JobWrites(j) == AtWork(j, {"entryWrite"})

JobChain(j) ==
  IF Readable(j) THEN Chain(entries[j], Count(j))
  ELSE IF JobWrites(j) /\ Count(j) > 1 THEN Chain(entries[j], Count(j) - 1)
  ELSE <<>>

JobOpen(j) == Readable(j) \/ ~home[j]["job"].there \/ JobBusy(j)

Places(j) == {a.at : a \in {b \in acks : b.job = j}}

\* How many records of the job were acknowledged.
Told(j) ==
  IF Places(j) = {} THEN 0 ELSE 1 + CHOOSE i \in Places(j) : \A k \in Places(j) : k <= i

JobTold(j) == Chain(entries[j], Told(j))

LEMMA ShownByJob ==
  /\ ShownChain = [j \in Jobs |-> JobChain(j)]
  /\ ShownOpen = {j \in Jobs : JobOpen(j)}
  /\ Acknowledged = [j \in Jobs |-> JobTold(j)]
<1>1. ShownChain = [j \in Jobs |-> JobChain(j)]
  BY DEF ShownChain, JobChain, JobWrites, Whole, Chain
<1>2. ShownOpen = {j \in Jobs : JobOpen(j)}
  BY DEF ShownOpen, JobOpen, JobBusy, BusyPCs
<1>3. Acknowledged = [j \in Jobs |-> JobTold(j)]
  BY DEF Acknowledged, JobTold, Told, Places, Whole, Chain
<1> QED
  BY <1>1, <1>2, <1>3

LEMMA ShownByJobNext ==
  /\ ShownChain' = [j \in Jobs |-> JobChain(j)']
  /\ ShownOpen' = {j \in Jobs : JobOpen(j)'}
  /\ Acknowledged' = [j \in Jobs |-> JobTold(j)']
<1>1. ShownChain' = [j \in Jobs |-> JobChain(j)']
  BY DEF ShownChain, JobChain, JobWrites, Whole, Chain
<1>2. ShownOpen' = {j \in Jobs : JobOpen(j)'}
  BY DEF ShownOpen, JobOpen, JobBusy, BusyPCs
<1>3. Acknowledged' = [j \in Jobs |-> JobTold(j)']
  BY DEF Acknowledged, JobTold, Told, Places, Whole, Chain
<1> QED
  BY <1>1, <1>2, <1>3

\* What does not show is a stutter.
LEMMA NothingShows ==
  ASSUME \A j \in Jobs : /\ JobChain(j)' = JobChain(j) /\ (JobOpen(j)' <=> JobOpen(j))
                         /\ JobTold(j)' = JobTold(j),
         spent'.losses = spent.losses
  PROVE  UNCHANGED Ledger!lvars
<1>1. ShownChain' = ShownChain
  BY ShownByJob, ShownByJobNext
<1>2. ShownOpen' = ShownOpen
  BY ShownByJob, ShownByJobNext
<1>3. Acknowledged' = Acknowledged
  BY ShownByJob, ShownByJobNext
<1> QED
  BY <1>1, <1>2, <1>3 DEF Ledger!lvars

\* Of the records of a job, those that are told are a first part.
LEMMA ToldIsKept ==
  ASSUME TypeOK, AckedIsDurable, KeptInv, LastInv, NEW j \in Jobs
  PROVE  /\ Told(j) \in Nat /\ (Places(j) = {} => Told(j) = 0)
         /\ \A i \in 0 .. Told(j) - 1 :
              i \in DOMAIN entries[j] /\ entries[j][i].linked
         /\ Told(j) > 0 => \A d \in DirNames : home[j][d].linked
<1>1. CASE Places(j) = {}
  <2>1. Told(j) = 0
    BY <1>1 DEF Told
  <2> QED
    BY <2>1
<1>2. CASE Places(j) # {}
  <2>1. PICK a \in acks : a.job = j
    BY <1>2 DEF Places
  <2>2. PICK b \in acks : b.job = j /\ \A o \in acks : o.job = j => o.at <= b.at
    BY <2>1 DEF LastInv
  <2>3. b.at \in Places(j) /\ \A k \in Places(j) : k <= b.at
    BY <2>2 DEF Places
  <2>4. \A k \in Places(j) : k \in Nat
    BY DEF Places, TypeOK
  <2> DEFINE last == CHOOSE i \in Places(j) : \A k \in Places(j) : k <= i
  <2>5. last \in Places(j) /\ \A k \in Places(j) : k <= last
    BY <2>3
  <2> HIDE DEF last
  <2>6. last = b.at
    BY <2>3, <2>4, <2>5
  <2>7. Told(j) = 1 + b.at
    BY <1>2, <2>6 DEF Told, last
  <2>8. b.at \in Nat
    BY <2>3, <2>4
  <2>9. \A i \in 0 .. b.at : i \in DOMAIN entries[j] /\ entries[j][i].linked
    BY <2>2 DEF KeptInv
  <2>10. \A d \in DirNames : home[j][d].linked
    BY <2>2 DEF AckedIsDurable
  <2>11. Told(j) - 1 = b.at /\ Told(j) \in Nat
    BY <2>7, <2>8
  <2> QED
    BY <1>2, <2>9, <2>10, <2>11
<1> QED
  BY <1>1, <1>2

\* What was told stays while the records it names stay.
LEMMA ToldStays ==
  ASSUME TypeOK, AckedIsDurable, KeptInv, LastInv, NEW j \in Jobs, acks' = acks,
         \A i \in DOMAIN entries[j] : i \in 0 .. Told(j) - 1 => entries'[j][i].snap = entries[j][i].snap
  PROVE  JobTold(j)' = JobTold(j) /\ Told(j)' = Told(j)
<1>1. Told(j)' = Told(j)
  BY DEF Told, Places
<1>2. /\ Told(j) \in Nat
      /\ \A i \in 0 .. Told(j) - 1 : i \in DOMAIN entries[j]
  BY ToldIsKept
<1>3. \A i \in 1 .. Told(j) : i - 1 \in 0 .. Told(j) - 1
  BY <1>2
<1>4. \A i \in 1 .. Told(j) : entries'[j][i - 1].snap = entries[j][i - 1].snap
  BY <1>2, <1>3
<1>5. JobTold(j)' = [i \in 1 .. Told(j) |-> entries'[j][i - 1].snap]
  BY <1>1 DEF JobTold, Chain
<1> QED
  BY <1>1, <1>4, <1>5 DEF JobTold, Chain

\* What of a job a reader can find decides what is shown, with who is at work.
LEMMA SameShown ==
  ASSUME TypeOK, NEW j \in Jobs,
         \A d \in DirNames : home'[j][d].there = home[j][d].there,
         DOMAIN entries'[j] = DOMAIN entries[j],
         \A i \in DOMAIN entries[j] :
           /\ entries'[j][i].snap = entries[j][i].snap /\ entries'[j][i].after = entries[j][i].after
           /\ entries'[j][i].good = entries[j][i].good,
         JobBusy(j)' <=> JobBusy(j), JobWrites(j)' <=> JobWrites(j),
         JobWrites(j) => DOMAIN entries[j] = 0 .. Count(j) - 1
  PROVE  JobChain(j)' = JobChain(j) /\ (JobOpen(j)' <=> JobOpen(j))
<1>1. Count(j) \in Nat /\ \A i \in DOMAIN entries[j] : i \in Nat
  BY EntriesTyped
<1>2. Count(j)' = Count(j)
  BY DEF Count
<1>3. /\ home'[j]["snapshots"].there = home[j]["snapshots"].there
      /\ home'[j]["job"].there = home[j]["job"].there
  BY DEF DirNames
<1>4. ASSUME DOMAIN entries[j] = 0 .. Count(j) - 1
      PROVE  /\ Readable(j)' <=> Readable(j)
             /\ \A n \in 0 .. Count(j) : Chain(entries'[j], n) = Chain(entries[j], n)
  <2>1. \A i \in DOMAIN entries[j] : i # 0 => i - 1 \in DOMAIN entries[j]
    BY <1>1, <1>4
  <2>2. ASSUME NEW i \in DOMAIN entries[j] PROVE (Intact(j, i) /\ Follows(j, i))' <=> (Intact(j, i) /\ Follows(j, i))
    BY <2>1, <2>2 DEF Intact, Follows
  <2>3. Readable(j)' <=> Readable(j)
    BY <1>2, <1>3, <2>2 DEF Readable
  <2>4. ASSUME NEW n \in 0 .. Count(j) PROVE Chain(entries'[j], n) = Chain(entries[j], n)
    <3>1. \A i \in 1 .. n : i - 1 \in DOMAIN entries[j]
      BY <1>1, <1>4
    <3>2. \A i \in 1 .. n : entries'[j][i - 1].snap = entries[j][i - 1].snap
      BY <3>1
    <3> QED
      BY <3>2 DEF Chain
  <2> QED
    BY <2>3, <2>4
<1>5. Readable(j)' <=> Readable(j)
  <2>1. CASE DOMAIN entries[j] = 0 .. Count(j) - 1
    BY <1>4, <2>1
  <2>2. CASE DOMAIN entries[j] # 0 .. Count(j) - 1
    BY <1>2, <2>2 DEF Readable
  <2> QED
    BY <2>1, <2>2
<1>6. Readable(j) => Chain(entries'[j], Count(j)) = Chain(entries[j], Count(j))
  BY <1>1, <1>4 DEF Readable
<1>7. JobWrites(j) /\ Count(j) > 1 => Chain(entries'[j], Count(j) - 1) = Chain(entries[j], Count(j) - 1)
  <2> HAVE JobWrites(j) /\ Count(j) > 1
  <2>1. Count(j) - 1 \in 0 .. Count(j)
    BY <1>1
  <2> QED
    BY <1>4, <2>1
<1>8. JobChain(j)' = IF Readable(j)' THEN Chain(entries'[j], Count(j)')
                     ELSE IF JobWrites(j)' /\ Count(j)' > 1 THEN Chain(entries'[j], Count(j)' - 1)
                     ELSE <<>>
  BY DEF JobChain
<1> QED
  BY <1>2, <1>3, <1>5, <1>6, <1>7, <1>8 DEF JobChain, JobOpen

\* While one caller writes, who is at work is a matter of its pc alone.
LEMMA WriterShows ==
  ASSUME TypeOK, LockInv, CallInv, NEW c \in Callers, Writes(c), NEW j \in Jobs
  PROVE  /\ JobBusy(j) <=> pc[c] \in BusyPCs /\ call[c].job = j
         /\ JobWrites(j) <=> pc[c] = "entryWrite" /\ call[c].job = j
         /\ JobBusy(j)' <=> pc'[c] \in BusyPCs /\ call[c].job = j
         /\ JobWrites(j)' <=> pc'[c] = "entryWrite" /\ call[c].job = j
<1>1. \A d \in Callers : d # c => pc[d] \notin WritePCs /\ pc'[d] \notin WritePCs
  BY OneWriter
<1>2. BusyPCs \subseteq WritePCs /\ "entryWrite" \in BusyPCs /\ "idle" \notin BusyPCs
  BY DEF BusyPCs, WritePCs, CreatePCs, OpenedPCs
<1>3. call[c].op # "load"
  BY WritesMove DEF CallInv
<1>4. pc'[c] \in WritePCs => call' = call
  BY WritesMove DEF WritePCs, CreatePCs, OpenedPCs
<1>5. /\ JobBusy(j) <=> pc[c] \in BusyPCs /\ call[c].job = j
      /\ JobWrites(j) <=> pc[c] = "entryWrite" /\ call[c].job = j
  BY <1>1, <1>2, <1>3 DEF JobBusy, JobWrites, AtWork
<1>6. JobBusy(j)' <=> pc'[c] \in BusyPCs /\ call[c].job = j
  BY <1>1, <1>2, <1>3, <1>4 DEF JobBusy, AtWork
<1>7. JobWrites(j)' <=> pc'[c] = "entryWrite" /\ call[c].job = j
  BY <1>1, <1>2, <1>3, <1>4 DEF JobWrites, AtWork
<1> QED
  BY <1>5, <1>6, <1>7

\* A job that is being written has its records in a row.
LEMMA WrittenRow ==
  ASSUME TypeOK, CallInv, EntryInv, NEW j \in Jobs, JobWrites(j)
  PROVE  DOMAIN entries[j] = 0 .. Count(j) - 1
<1>1. PICK c \in Callers : pc[c] = "entryWrite" /\ call[c].job = j
  BY DEF JobWrites, AtWork
<1>2. EntryAt(c)
  BY <1>1 DEF EntryInv, OpenedPCs
<1> QED
  BY <1>1, <1>2 DEF EntryAt

\* A writing step shows in no other job.
LEMMA OtherShown ==
  ASSUME TypeOK, LockInv, CallInv, EntryInv, NEW c \in Callers, Writes(c),
         NEW k \in Jobs, k # call[c].job
  PROVE  JobChain(k)' = JobChain(k) /\ (JobOpen(k)' <=> JobOpen(k))
<1>1. home'[k] = home[k] /\ entries'[k] = entries[k]
  BY OtherJobs
<1>2. /\ ~JobBusy(k) /\ ~JobBusy(k)'
      /\ ~JobWrites(k) /\ ~JobWrites(k)'
  BY WriterShows
<1> QED
  BY <1>1, <1>2, SameShown

\* Only an acknowledgement changes what is told.
LEMMA StepTold ==
  ASSUME TypeOK, CallInv, EntryInv, AckedIsDurable, KeptInv, LastInv,
         NEW c \in Callers, Quiet(c) \/ (Writes(c) /\ ~Acknowledge(c)), NEW k \in Jobs
  PROVE  JobTold(k)' = JobTold(k)
<1>1. CASE Quiet(c)
  <2>1. acks' = acks /\ entries' = entries
    BY <1>1, QuietFrame
  <2> QED
    BY <2>1, ToldStays
<1>2. CASE Writes(c) /\ ~Acknowledge(c)
  <2>1. acks' = acks
    BY <1>2, DirectoryShape, OpenEntryShape, RecordShape, SyncAboveShape DEF Writes, StartAppend
  <2>2. \A i \in DOMAIN entries[k] : entries'[k][i].snap = entries[k][i].snap
    <3>1. CASE k # call[c].job
      BY <1>2, <3>1, OtherJobs
    <3>2. CASE RecordSteps(c) /\ k = call[c].job
      BY <3>2, RecordShape
    <3>3. CASE OpenEntry(c) /\ k = call[c].job
      <4>1. \A i \in DOMAIN entries[k] : entries'[k][i] = entries[k][i]
        BY <3>3, OpenEntryShape
      <4> QED
        BY <4>1
    <3>4. CASE ~RecordSteps(c) /\ ~OpenEntry(c)
      <4>1. entries' = entries
        BY <1>2, <3>4, DirectoryShape, SyncAboveShape DEF Writes, StartAppend
      <4> QED
        BY <4>1
    <3> QED
      BY <3>1, <3>2, <3>3, <3>4
  <2> QED
    BY <2>1, <2>2, ToldStays
<1> QED
  BY <1>1, <1>2

\* Only a power loss is counted as one.
LEMMA StepLosses ==
  ASSUME TypeOK, NEW c \in Callers, Quiet(c) \/ Writes(c)
  PROVE  spent'.losses = spent.losses
BY DEF Quiet, Ends, Writes, DirectorySteps, RecordSteps, DirectoryStep, Begin, Look, Acquire,
   ReturnLoaded, Refuse, Raise, Crash, StartCreate, MakeSnapshots, SyncSnapshotsName, SyncJobName,
   StartAppend, OpenEntry, WriteEntry, SyncEntry, SyncSnapshots, SyncAbove, Acknowledge, TypeOK

\* A writing step that changes nothing of its own job changes nothing.
LEMMA WriterStutters ==
  ASSUME TypeOK, LockInv, CallInv, EntryInv, AckedIsDurable, KeptInv, LastInv,
         NEW c \in Callers, Writes(c), ~Acknowledge(c), NEW j, j = call[c].job,
         JobChain(j)' = JobChain(j), JobOpen(j)' <=> JobOpen(j)
  PROVE  UNCHANGED Ledger!lvars
<1>1. ASSUME NEW k \in Jobs
      PROVE  JobChain(k)' = JobChain(k) /\ (JobOpen(k)' <=> JobOpen(k))
  <2>1. CASE k = j
    BY <2>1
  <2>2. CASE k # j
    BY <2>2, OtherShown
  <2> QED
    BY <2>1, <2>2
<1>2. \A k \in Jobs : JobTold(k)' = JobTold(k)
  BY StepTold
<1>3. spent'.losses = spent.losses
  BY StepLosses
<1> QED
  BY <1>1, <1>2, <1>3, NothingShows

LEMMA QuietMore ==
  ASSUME TypeOK, NEW c \in Callers, Quiet(c)
  PROVE  /\ pc'[c] \notin WritePCs
         /\ \A d \in Callers : d # c => pc'[d] = pc[d] /\ call'[d] = call[d]
<1> USE DEF TypeOK, WritePCs, CreatePCs, OpenedPCs
<1>1. CASE Begin(c)
  <2>1. pc' = [pc EXCEPT ![c] = "look"]
    BY <1>1 DEF Begin, Goto
  <2>2. \A d \in Callers : d # c => call'[d] = call[d]
    BY <1>1 DEF Begin
  <2> QED
    BY <2>1, <2>2
<1>2. CASE Look(c)
  BY <1>2 DEF Look, Goto
<1>3. CASE Acquire(c)
  BY <1>3 DEF Acquire
<1>4. CASE Ends(c)
  BY <1>4, EndsMove DEF Release
<1> QED
  BY <1>1, <1>2, <1>3, <1>4 DEF Quiet

\* A caller at work has its job's directory under it.
LEMMA BusyPlace ==
  ASSUME TypeOK, CallInv, HomeInv, CreateInv, EntryInv, NEW c \in Callers, pc[c] \in BusyPCs
  PROVE  call[c].job \in Jobs /\ home[call[c].job]["job"].there /\ call[c].op # "load"
<1>1. call[c].job \in Jobs /\ call[c].op # "load"
  <2>1. pc[c] # "idle" /\ pc[c] \in WritePCs
    BY DEF BusyPCs, CreatePCs, WritePCs, OpenedPCs
  <2> QED
    BY <2>1, CallerJob DEF CallInv
<1>2. CASE pc[c] \in CreatePCs
  BY <1>1, <1>2 DEF CreateInv, CreateAt
<1>3. CASE pc[c] \in {"entryOpen", "entryWrite"}
  <2>1. EntryAt(c)
    BY <1>3 DEF EntryInv, OpenedPCs
  <2>2. home[call[c].job]["job"].linked
    BY <2>1 DEF EntryAt, DirNames
  <2> QED
    BY <1>1, <2>2 DEF HomeInv, DirNames
<1> QED
  BY <1>1, <1>2, <1>3 DEF BusyPCs

LEMMA LoneWriter ==
  ASSUME TypeOK, LockInv, NEW c \in Callers, pc[c] \in WritePCs, NEW d \in Callers, d # c
  PROVE  pc[d] \notin WritePCs
BY DEF LockInv

\* A call that returns, raises or dies changes what is shown of no job, or
\* closes the one whose first records it was making or whose last it had torn.
LEMMA QuietLedger ==
  ASSUME JournalInv, NEW c \in Callers, Quiet(c)
  PROVE  (\E j \in Jobs : Ledger!Close(j)) \/ UNCHANGED Ledger!lvars
<1> USE DEF JournalInv
<1>1. /\ home' = home /\ entries' = entries /\ pc'[c] \notin WritePCs
      /\ \A d \in Callers : d # c => pc'[d] = pc[d] /\ call'[d] = call[d]
  BY QuietFrame, QuietMore
<1>2. spent'.losses = spent.losses /\ \A k \in Jobs : JobTold(k)' = JobTold(k)
  BY StepLosses, StepTold
<1>3. BusyPCs \subseteq WritePCs /\ "entryWrite" \in BusyPCs
  BY DEF BusyPCs, WritePCs, OpenedPCs
<1>4. ASSUME NEW k \in Jobs, ~(pc[c] \in BusyPCs /\ call[c].job = k)
      PROVE  JobChain(k)' = JobChain(k) /\ (JobOpen(k)' <=> JobOpen(k))
  <2>1. JobBusy(k)' <=> JobBusy(k)
    BY <1>1, <1>3, <1>4 DEF JobBusy, AtWork
  <2>2. JobWrites(k)' <=> JobWrites(k)
    BY <1>1, <1>3, <1>4 DEF JobWrites, AtWork
  <2> QED
    BY <1>1, <2>1, <2>2, SameShown, WrittenRow
<1>5. CASE pc[c] \notin BusyPCs
  BY <1>2, <1>4, <1>5, NothingShows
<1>6. CASE pc[c] \in BusyPCs
  <2>0. PICK j \in Jobs : j = call[c].job
    BY <1>6, BusyPlace
  <2>1. home[j]["job"].there /\ call[c].op # "load" /\ \A d \in Callers : d # c => pc[d] \notin WritePCs
    BY <1>3, <1>6, <2>0, BusyPlace, LoneWriter
  <2>2. /\ Count(j)' = Count(j) /\ (Readable(j)' <=> Readable(j))
        /\ \A n : Chain(entries'[j], n) = Chain(entries[j], n)
    BY <1>1, SameJob
  <2>3. JobBusy(j) /\ ~JobBusy(j)' /\ ~JobWrites(j)'
    <3>1. JobBusy(j)
      BY <1>6, <2>0, <2>1 DEF JobBusy, AtWork
    <3>2. \A d \in Callers : pc'[d] \notin WritePCs
      BY <1>1, <2>1
    <3>3. ~JobBusy(j)' /\ ~JobWrites(j)'
      BY <1>3, <3>2 DEF JobBusy, JobWrites, AtWork
    <3> QED
      BY <3>1, <3>3
  <2>4. CASE Readable(j)
    <3>1. JobChain(j)' = JobChain(j) /\ JobOpen(j) /\ JobOpen(j)'
      <4>1. JobChain(j) = Chain(entries[j], Count(j))
        BY <2>4 DEF JobChain
      <4>2. JobChain(j)' = Chain(entries'[j], Count(j)')
        BY <2>2, <2>4 DEF JobChain
      <4>3. JobOpen(j) /\ JobOpen(j)'
        BY <2>2, <2>4 DEF JobOpen
      <4> QED
        BY <2>2, <4>1, <4>2, <4>3
    <3>2. ASSUME NEW k \in Jobs
          PROVE  JobChain(k)' = JobChain(k) /\ (JobOpen(k)' <=> JobOpen(k))
      <4>1. CASE k = j
        BY <3>1, <4>1
      <4>2. CASE k # j
        BY <1>4, <2>0, <4>2
      <4> QED
        BY <4>1, <4>2
    <3> QED
      BY <1>2, <3>2, NothingShows
  <2>5. CASE ~Readable(j)
    <3>1. JobChain(j)' = <<>>
      BY <2>2, <2>3, <2>5 DEF JobChain
    <3>2. JobOpen(j) /\ ~JobOpen(j)'
      BY <1>1, <2>1, <2>2, <2>3, <2>5 DEF JobOpen
    <3>3. \A k \in Jobs : k # j => JobChain(k)' = JobChain(k) /\ (JobOpen(k)' <=> JobOpen(k))
      BY <1>4, <2>0
    <3>4. j \in ShownOpen /\ ShownOpen' = ShownOpen \ {j}
      BY <3>2, <3>3, ShownByJob, ShownByJobNext
    <3>5. ShownChain' = [ShownChain EXCEPT ![j] = <<>>]
      BY <3>1, <3>3, ShownByJob, ShownByJobNext
    <3>6. Acknowledged' = Acknowledged
      BY <1>2, ShownByJob, ShownByJobNext
    <3> QED
      BY <1>2, <3>4, <3>5, <3>6 DEF Ledger!Close
  <2> QED
    BY <2>4, <2>5
<1> QED
  BY <1>5, <1>6

\* A job whose records are none shows none.
LEMMA EmptyShown ==
  ASSUME NEW j \in Jobs, DOMAIN entries[j] = {}
  PROVE  Count(j) = 0 /\ ~Readable(j) /\ JobChain(j) = <<>>
<1>1. Count(j) = 0
  BY FS_EmptySet DEF Count
<1> QED
  BY <1>1 DEF Readable, JobChain

LEMMA EmptyShownNext ==
  ASSUME NEW j \in Jobs, DOMAIN entries'[j] = {}
  PROVE  JobChain(j)' = <<>>
<1>1. Count(j)' = 0
  BY FS_EmptySet DEF Count
<1>2. ~Readable(j)'
  BY <1>1 DEF Readable
<1> QED
  BY <1>1, <1>2 DEF JobChain

LEMMA DirectoryLedger ==
  ASSUME JournalInv, NEW c \in Callers, DirectorySteps(c)
  PROVE  UNCHANGED Ledger!lvars
<1> USE DEF JournalInv
<1>1. Writes(c) /\ ~Acknowledge(c)
  <2>1. pc[c] # "reload"
    BY DirectoryShape
  <2> QED
    BY <2>1 DEF Writes, Acknowledge
<1>2. PICK j \in Jobs : j = call[c].job
  BY <1>1, WriterCall
<1>3. entries' = entries /\ pc'[c] \in BusyPCs
      /\ \/ pc[c] \in CreatePCs
         \/ pc[c] = "locked" /\ ~home[j]["job"].there
  BY <1>2, DirectoryShape DEF BusyPCs, CreatePCs
<1>4. DOMAIN entries[j] = {}
  <2>1. CASE pc[c] \in CreatePCs
    BY <1>2, <2>1 DEF CreateInv, CreateAt
  <2>2. CASE ~home[j]["job"].there
    BY <2>2 DEF HomeInv, RecordsStandOnDurableNames, DirNames
  <2> QED
    BY <1>3, <2>1, <2>2
<1>5. JobChain(j) = <<>> /\ JobChain(j)' = <<>>
  BY <1>3, <1>4, EmptyShown, EmptyShownNext
<1>6. JobOpen(j)'
  BY <1>1, <1>2, <1>3, WriterShows DEF JobOpen
<1>7. JobOpen(j)
  BY <1>1, <1>2, <1>3, WriterShows DEF JobOpen, BusyPCs
<1> QED
  BY <1>1, <1>2, <1>5, <1>6, <1>7, WriterStutters

LEMMA StartLedger ==
  ASSUME JournalInv, NEW c \in Callers, StartAppend(c)
  PROVE  UNCHANGED Ledger!lvars
<1> USE DEF JournalInv
<1>1. Writes(c) /\ ~Acknowledge(c)
  BY DEF Writes, StartAppend, Acknowledge
<1>2. PICK j \in Jobs : j = call[c].job
  BY <1>1, WriterCall
<1>3. Readable(j) /\ home' = home /\ entries' = entries
  BY <1>2 DEF StartAppend, AppendAllowed
<1>4. Readable(j)' /\ Count(j)' = Count(j)
  BY <1>3, SameJob
<1>5. JobChain(j) = Chain(entries[j], Count(j))
  BY <1>3 DEF JobChain
<1>6. JobChain(j)' = Chain(entries'[j], Count(j)')
  BY <1>4 DEF JobChain
<1>7. JobChain(j)' = JobChain(j) /\ JobOpen(j) /\ JobOpen(j)'
  BY <1>3, <1>4, <1>5, <1>6 DEF JobOpen
<1> QED
  BY <1>1, <1>2, <1>7, WriterStutters

\* A record that is opened is not shown before it is whole.
LEMMA OpenLedger ==
  ASSUME JournalInv, NEW c \in Callers, OpenEntry(c)
  PROVE  UNCHANGED Ledger!lvars
<1> USE DEF JournalInv
<1>1. Writes(c) /\ ~Acknowledge(c) /\ pc[c] = "entryOpen" /\ pc'[c] = "entryWrite"
  BY DEF Writes, OpenEntry, Acknowledge, Goto, TypeOK
<1>2. PICK j \in Jobs : j = call[c].job
  BY <1>1, WriterCall
<1>3. /\ JobBusy(j) /\ JobBusy(j)' /\ JobWrites(j)' /\ ~JobWrites(j)
  BY <1>1, <1>2, WriterShows DEF BusyPCs
<1>4. Count(j) \in Nat /\ DOMAIN entries[j] = 0 .. Count(j) - 1
  BY <1>2, OpenEntryShape
<1>5. DOMAIN entries'[j] = 0 .. Count(j)
  BY <1>2, OpenEntryShape
<1>6. \A i \in DOMAIN entries[j] : entries'[j][i] = entries[j][i]
  BY <1>2, OpenEntryShape
<1>7. Count(j)' = Count(j) + 1
  <2>1. PICK n \in Nat : n = Count(j)
    BY <1>4
  <2>2. DOMAIN entries'[j] = 0 .. n
    BY <1>5, <2>1
  <2>3. Count(j)' = n + 1
    BY <2>2, FS_Interval DEF Count
  <2> QED
    BY <2>1, <2>3
<1>8. ~Readable(j)'
  <2>1. Unfinished(j)'
    BY <1>2, OneMore
  <2>2. \A i \in DOMAIN entries'[j] : entries'[j][i].good <=> i # Count(j)' - 1
    BY <2>1 DEF Unfinished, Intact
  <2>3. Readable(j)' => \A i \in DOMAIN entries'[j] : entries'[j][i].good
    BY DEF Readable, Intact
  <2>4. Count(j)' - 1 = Count(j) /\ Count(j) \in DOMAIN entries'[j]
    BY <1>4, <1>5, <1>7
  <2> QED
    BY <2>2, <2>3, <2>4
<1>9. Chain(entries'[j], Count(j)) = Chain(entries[j], Count(j))
  <2>1. \A i \in 1 .. Count(j) : i - 1 \in DOMAIN entries[j]
    BY <1>4
  <2>2. \A i \in 1 .. Count(j) : entries'[j][i - 1].snap = entries[j][i - 1].snap
    BY <1>6, <2>1
  <2> QED
    BY <2>2 DEF Chain
<1>10. JobChain(j)' = Chain(entries[j], Count(j))
  <2>1. CASE Count(j) > 0
    <3>1. Count(j)' > 1 /\ Count(j)' - 1 = Count(j)
      BY <1>4, <1>7, <2>1
    <3>2. JobChain(j)' = Chain(entries'[j], Count(j)' - 1)
      BY <1>3, <1>8, <3>1 DEF JobChain
    <3> QED
      BY <1>9, <3>1, <3>2
  <2>2. CASE Count(j) = 0
    <3>1. ~(Count(j)' > 1)
      BY <1>7, <2>2
    <3>2. JobChain(j)' = <<>>
      BY <1>8, <3>1 DEF JobChain
    <3> QED
      BY <2>2, <3>2, NoChain
  <2> QED
    BY <1>4, <2>1, <2>2
<1>11. JobChain(j) = Chain(entries[j], Count(j))
  <2>1. CASE call[c].op = "append"
    <3>1. Readable(j)
      BY <1>1, <1>2, <2>1 DEF RecordInv
    <3> QED
      BY <3>1 DEF JobChain
  <2>2. CASE call[c].op # "append"
    <3>1. EntryAt(c)
      BY <1>1 DEF EntryInv
    <3>2. Count(j) = 0
      BY <1>1, <1>2, <2>2, <3>1 DEF EntryAt
    <3>3. JobChain(j) = <<>>
      BY <1>3, <3>2 DEF JobChain, Readable
    <3> QED
      BY <3>2, <3>3, NoChain
  <2> QED
    BY <2>1, <2>2
<1>12. JobOpen(j) /\ JobOpen(j)'
  BY <1>3 DEF JobOpen
<1> QED
  BY <1>1, <1>2, <1>10, <1>11, <1>12, WriterStutters

\* What a job that can be read shows is legal.
LEMMA ReadableLegal ==
  ASSUME TypeOK, NEW j \in Jobs, Readable(j)
  PROVE  /\ Count(j) \in Nat /\ Count(j) > 0 /\ DOMAIN entries[j] = 0 .. Count(j) - 1
         /\ \A i \in 0 .. Count(j) - 1 : entries[j][i].snap \in Lifecycles
         /\ Ledger!LegalChain(Chain(entries[j], Count(j)))
<1>1. Count(j) \in Nat /\ Count(j) > 0 /\ DOMAIN entries[j] = 0 .. Count(j) - 1
  BY TipTyped DEF Readable
<1>2. \A i \in 0 .. Count(j) - 1 : entries[j][i].snap \in Lifecycles
  BY <1>1, EntriesTyped DEF EntryStates
<1>3. ASSUME NEW i \in 0 .. Count(j) - 1
      PROVE  /\ entries[j][i].snap \in Lifecycles
             /\ i = 0 => entries[j][i].snap = RequestedLifecycle
             /\ i > 0 => Reconstructs(entries[j][i - 1].snap, entries[j][i].snap)
  <2>1. Follows(j, i)
    BY <1>1 DEF Readable
  <2> QED
    BY <1>2, <2>1 DEF Follows
<1>4. PICK n \in Nat : n = Count(j)
  BY <1>1
<1>5. PICK e : e = entries[j]
  OBVIOUS
<1>6. \A i \in 0 .. n - 1 : /\ e[i].snap \in Lifecycles
                            /\ i = 0 => e[i].snap = RequestedLifecycle
                            /\ i > 0 => Reconstructs(e[i - 1].snap, e[i].snap)
  BY <1>3, <1>4, <1>5
<1>7. Ledger!LegalChain(Chain(e, n))
  BY <1>6, ChainLegal
<1> QED
  BY <1>1, <1>2, <1>4, <1>5, <1>7

LEMMA JobChainTyped ==
  ASSUME JournalInv, NEW j \in Jobs
  PROVE  JobChain(j) \in Seq(Lifecycles)
<1> USE DEF JournalInv
<1>1. PICK n \in Nat : n = Count(j)
  BY EntriesTyped
<1>2. ASSUME NEW k \in Nat, k <= n, DOMAIN entries[j] = 0 .. n - 1
      PROVE  Chain(entries[j], k) \in Seq(Lifecycles)
  <2>1. \A i \in 0 .. k - 1 : i \in DOMAIN entries[j]
    BY <1>2
  <2>2. \A i \in 0 .. k - 1 : entries[j][i].snap \in Lifecycles
    BY <2>1, EntriesTyped DEF EntryStates
  <2> QED
    BY <2>2, ChainTyped
<1>3. CASE Readable(j)
  BY <1>1, <1>2, <1>3 DEF JobChain, Readable
<1>4. CASE ~Readable(j) /\ JobWrites(j) /\ n > 1
  <2>1. n - 1 \in Nat /\ n - 1 <= n /\ DOMAIN entries[j] = 0 .. n - 1
    BY <1>1, <1>4, WrittenRow
  <2> QED
    BY <1>1, <1>2, <1>4, <2>1 DEF JobChain
<1>5. CASE ~Readable(j) /\ ~(JobWrites(j) /\ n > 1)
  BY <1>1, <1>5 DEF JobChain
<1> QED
  BY <1>3, <1>4, <1>5

\* The last byte of the record publishes it.
LEMMA WriteLedger ==
  ASSUME JournalInv, JournalInv', NEW c \in Callers, WriteEntry(c)
  PROVE  \E j \in Jobs : Ledger!Publish(j)
<1> USE DEF JournalInv
<1>1. /\ RecordSteps(c) /\ Writes(c) /\ ~Acknowledge(c)
      /\ pc[c] = "entryWrite" /\ pc'[c] = "entrySync"
  BY DEF RecordSteps, Writes, WriteEntry, Acknowledge, Goto, TypeOK
<1>2. PICK j \in Jobs : j = call[c].job
  BY <1>1, WriterCall
<1>3. JobBusy(j) /\ JobWrites(j)
  BY <1>1, <1>2, WriterShows DEF BusyPCs
<1>4. Unfinished(j)
  BY <1>1, <1>2 DEF RecordInv
<1>5. PICK n \in Nat : n = Count(j)
  BY <1>2, EntriesTyped
<1>6. /\ n > 0 /\ DOMAIN entries[j] = 0 .. n - 1 /\ n - 1 \in DOMAIN entries[j]
  BY <1>4, <1>5 DEF Unfinished
<1>7. home' = home /\ DOMAIN entries'[j] = DOMAIN entries[j] /\ Count(j)' = n
  BY <1>1, <1>2, <1>5, RecordShape
<1>8. \A i \in DOMAIN entries[j] : /\ entries'[j][i].snap = entries[j][i].snap
                                   /\ entries'[j][i].after = entries[j][i].after
                                   /\ entries[j][i].good => entries'[j][i].good
  BY <1>1, <1>2, RecordShape
<1>9. entries'[j][n - 1].good
  <2>1. entries' = [entries EXCEPT ![j][n - 1].good = TRUE]
    BY <1>2, <1>5 DEF WriteEntry
  <2>2. entries[j][n - 1] \in EntryStates /\ j \in DOMAIN entries
    BY <1>2, <1>6, EntriesTyped
  <2>3. entries'[j][n - 1] = [entries[j][n - 1] EXCEPT !.good = TRUE]
    BY <1>6, <2>1, <2>2
  <2> QED
    BY <2>2, <2>3 DEF EntryStates
<1>10. ~Readable(j)
  BY <1>4, <1>5, <1>6 DEF Unfinished, Readable
<1>11. Readable(j)'
  <2>1. \A i \in DOMAIN entries[j] : i # 0 => i - 1 \in DOMAIN entries[j]
    BY <1>6
  <2>2. ASSUME NEW i \in DOMAIN entries'[j] PROVE Intact(j, i)' /\ Follows(j, i)'
    <3>1. i \in DOMAIN entries[j] /\ (Intact(j, i) <=> i # n - 1) /\ Follows(j, i)
      BY <1>4, <1>5, <1>7, <2>2 DEF Unfinished
    <3>2. Intact(j, i)'
      BY <1>8, <1>9, <3>1 DEF Intact
    <3>3. Follows(j, i)'
      BY <1>8, <2>1, <3>1 DEF Follows
    <3> QED
      BY <3>2, <3>3
  <2>3. home'[j]["snapshots"].there
    BY <1>4, <1>7 DEF Unfinished
  <2> QED
    BY <1>6, <1>7, <2>2, <2>3 DEF Readable
<1>12. JobChain(j) = Chain(entries[j], n - 1)
  <2>1. CASE n > 1
    BY <1>3, <1>5, <1>10, <2>1 DEF JobChain
  <2>2. CASE n = 1
    <3>1. JobChain(j) = <<>>
      BY <1>5, <1>10, <2>2 DEF JobChain
    <3> QED
      BY <2>2, <3>1, NoChain
  <2> QED
    BY <1>6, <2>1, <2>2
<1>13. JobChain(j)' = Chain(entries'[j], n)
  BY <1>7, <1>11 DEF JobChain
<1>14. /\ JobChain(j)' = Append(JobChain(j), JobChain(j)'[n])
       /\ Len(JobChain(j)') = Len(JobChain(j)) + 1 /\ Len(JobChain(j)) + 1 = n
  <2>1. \A i \in 0 .. n - 1 : entries[j][i].snap \in Lifecycles /\ entries'[j][i].snap = entries[j][i].snap
    BY <1>6, <1>8, EntriesTyped DEF EntryStates
  <2>2. PICK e : e = entries[j]
    OBVIOUS
  <2>3. PICK f : f = entries'[j]
    OBVIOUS
  <2>4. /\ Chain(f, n) = Append(Chain(e, n - 1), Chain(f, n)[n])
        /\ Len(Chain(f, n)) = Len(Chain(e, n - 1)) + 1 /\ Len(Chain(e, n - 1)) = n - 1
    BY <1>6, <2>1, <2>2, <2>3, ChainGrows
  <2> QED
    BY <1>6, <1>12, <1>13, <2>2, <2>3, <2>4
<1>15. Ledger!LegalChain(JobChain(j)')
  <2>1. (TypeOK /\ Readable(j) => Ledger!LegalChain(Chain(entries[j], Count(j))))'
    BY ReadableLegal, PTL
  <2> QED
    BY <1>7, <1>11, <1>13, <2>1
<1>16. JobOpen(j) /\ JobOpen(j)'
  BY <1>3, <1>11 DEF JobOpen
<1>17. \A k \in Jobs : k # j => JobChain(k)' = JobChain(k) /\ (JobOpen(k)' <=> JobOpen(k))
  BY <1>1, <1>2, OtherShown
<1>18. j \in ShownOpen /\ ShownOpen' = ShownOpen
  BY <1>16, <1>17, ShownByJob, ShownByJobNext
<1>19. ShownChain[j] = JobChain(j) /\ ShownChain'[j] = JobChain(j)'
  BY ShownByJob, ShownByJobNext
<1>20. ShownChain' = [ShownChain EXCEPT ![j] = JobChain(j)']
  BY <1>17, ShownByJob, ShownByJobNext
<1>21. Acknowledged' = Acknowledged /\ spent'.losses = spent.losses
  <2>1. \A k \in Jobs : JobTold(k)' = JobTold(k)
    BY <1>1, StepTold
  <2> QED
    BY <1>1, <2>1, StepLosses, ShownByJob, ShownByJobNext
<1> QED
  BY <1>14, <1>15, <1>18, <1>19, <1>20, <1>21 DEF Ledger!Publish

\* What is made durable after that shows in nothing.
LEMMA SyncLedger ==
  ASSUME JournalInv, NEW c \in Callers, SyncEntry(c) \/ SyncSnapshots(c) \/ SyncAbove(c)
  PROVE  UNCHANGED Ledger!lvars
<1> USE DEF JournalInv
<1>1. /\ Writes(c) /\ ~Acknowledge(c) /\ pc[c] \notin BusyPCs /\ pc'[c] \notin BusyPCs
  BY DEF SyncEntry, SyncSnapshots, SyncAbove, Goto, TypeOK, Writes, RecordSteps, Acknowledge,
     BusyPCs, CreatePCs
<1>2. PICK j \in Jobs : j = call[c].job
  BY <1>1, WriterCall
<1>3. /\ ~JobBusy(j) /\ ~JobBusy(j)' /\ ~JobWrites(j) /\ ~JobWrites(j)'
  BY <1>1, <1>2, WriterShows DEF BusyPCs
<1>4. /\ DOMAIN entries'[j] = DOMAIN entries[j]
      /\ \A i \in DOMAIN entries[j] :
           /\ entries'[j][i].snap = entries[j][i].snap /\ entries'[j][i].after = entries[j][i].after
           /\ entries'[j][i].good = entries[j][i].good
  <2>0. j \in DOMAIN entries /\ \A i \in DOMAIN entries[j] : entries[j][i] \in EntryStates
    BY <1>2, EntriesTyped
  <2>1. CASE SyncEntry(c)
    <3>1. entries' = [entries EXCEPT ![j][Count(j) - 1].synced = TRUE]
      BY <1>2, <2>1 DEF SyncEntry
    <3> QED
      BY <2>0, <3>1 DEF EntryStates
  <2>2. CASE SyncSnapshots(c)
    <3>1. entries' = [entries EXCEPT ![j] =
                        [i \in DOMAIN entries[j] |-> [entries[j][i] EXCEPT !.linked = TRUE]]]
      BY <1>2, <2>2 DEF SyncSnapshots
    <3> QED
      BY <2>0, <3>1 DEF EntryStates
  <2>3. CASE SyncAbove(c)
    BY <2>3 DEF SyncAbove
  <2> QED
    BY <2>1, <2>2, <2>3
<1>5. \A d \in DirNames : home'[j][d].there = home[j][d].there
  <2>1. CASE SyncAbove(c)
    BY <1>2, <2>1, SyncAboveShape
  <2>2. CASE SyncEntry(c) \/ SyncSnapshots(c)
    BY <2>2 DEF SyncEntry, SyncSnapshots
  <2> QED
    BY <2>1, <2>2
<1>6. JobChain(j)' = JobChain(j) /\ (JobOpen(j)' <=> JobOpen(j))
  BY <1>3, <1>4, <1>5, SameShown
<1> QED
  BY <1>1, <1>2, <1>6, WriterStutters

\* An acknowledgement settles the chain of its job.
LEMMA AcknowledgeLedger ==
  ASSUME JournalInv, NEW c \in Callers, Acknowledge(c)
  PROVE  \E j \in Jobs : Ledger!Settle(j)
<1> USE DEF JournalInv
<1>1. /\ Writes(c) /\ pc[c] = "reload" /\ pc'[c] = "idle"
  BY DEF Writes, Acknowledge, Release, TypeOK
<1>2. PICK j \in Jobs : j = call[c].job
  BY <1>1, WriterCall
<1>3. PICK n : n = Count(j) - 1
  OBVIOUS
<1>4. /\ home' = home /\ entries' = entries /\ n \in DOMAIN entries[j]
      /\ acks' = acks \cup {[by |-> c, job |-> j, at |-> n, snap |-> Tip(j),
                             over |-> call[c].expected]}
      /\ \A a \in acks : a.job = j => a.at < n
  BY <1>2, <1>3, AcknowledgeShape
<1>5. Readable(j)
  BY <1>2 DEF Acknowledge
<1>6. ASSUME NEW k \in Jobs PROVE JobChain(k)' = JobChain(k) /\ (JobOpen(k)' <=> JobOpen(k))
  <2>1. /\ ~JobBusy(k) /\ ~JobBusy(k)' /\ ~JobWrites(k) /\ ~JobWrites(k)'
    BY <1>1, WriterShows DEF BusyPCs, CreatePCs
  <2> QED
    BY <1>4, <2>1, SameShown
<1>7. Told(j)' = Count(j)
  <2>1. n \in Int /\ n + 1 = Count(j) /\ \A a \in acks : a.at \in Int
    <3>1. Count(j) \in Nat
      BY <1>2, EntriesTyped
    <3>2. \A a \in acks : a.at \in Int
      BY DEF TypeOK
    <3> QED
      BY <1>3, <3>1, <3>2
  <2>2. Places(j)' = Places(j) \cup {n}
    <3> DEFINE new == [by |-> c, job |-> j, at |-> n, snap |-> Tip(j), over |-> call[c].expected]
    <3>1. acks' = acks \cup {new} /\ new.job = j /\ new.at = n
      BY <1>4
    <3> HIDE DEF new
    <3>2. Places(j)' = {a.at : a \in {b \in acks \cup {new} : b.job = j}}
      BY <3>1 DEF Places
    <3>3. {b \in acks \cup {new} : b.job = j} = {b \in acks : b.job = j} \cup {new}
      BY <3>1
    <3> QED
      BY <3>1, <3>2, <3>3 DEF Places
  <2>3. \A i \in Places(j) : i < n /\ i \in Int
    BY <1>4, <2>1 DEF Places
  <2>4. n \in Places(j)' /\ \A i \in Places(j)' : i <= n /\ i \in Int
    BY <2>1, <2>2, <2>3
  <2> DEFINE last == CHOOSE i \in Places(j)' : \A k \in Places(j)' : k <= i
  <2>5. last \in Places(j)' /\ \A k \in Places(j)' : k <= last
    BY <2>4
  <2> HIDE DEF last
  <2>6. last = n
    BY <2>1, <2>4, <2>5
  <2>7. Told(j)' = 1 + last
    BY <2>4 DEF Told, last
  <2> QED
    BY <2>1, <2>6, <2>7
<1>8. JobTold(j)' = JobChain(j)
  <2>1. JobChain(j) = Chain(entries[j], Count(j))
    BY <1>5 DEF JobChain
  <2>2. JobTold(j)' = Chain(entries'[j], Told(j)')
    BY DEF JobTold
  <2> QED
    BY <1>4, <1>7, <2>1, <2>2
<1>9. ASSUME NEW k \in Jobs, k # j PROVE JobTold(k)' = JobTold(k)
  <2>1. Places(k)' = Places(k)
    <3> DEFINE new == [by |-> c, job |-> j, at |-> n, snap |-> Tip(j), over |-> call[c].expected]
    <3>1. acks' = acks \cup {new} /\ new.job = j /\ new.at = n
      BY <1>4
    <3> HIDE DEF new
    <3>2. {b \in acks \cup {new} : b.job = k} = {b \in acks : b.job = k}
      BY <1>9, <3>1
    <3> QED
      BY <3>1, <3>2 DEF Places
  <2>2. Told(k)' = Told(k)
    BY <2>1 DEF Told
  <2> QED
    BY <1>4, <2>2 DEF JobTold
<1>10. Acknowledged' = [Acknowledged EXCEPT ![j] = ShownChain[j]]
  BY <1>8, <1>9, ShownByJob, ShownByJobNext
<1>11. ShownChain' = ShownChain /\ ShownOpen' = ShownOpen /\ j \in ShownOpen
  <2>1. JobOpen(j)
    BY <1>5 DEF JobOpen
  <2> QED
    BY <1>6, <2>1, ShownByJob, ShownByJobNext
<1>12. spent'.losses = spent.losses
  BY <1>1, StepLosses
<1> QED
  BY <1>10, <1>11, <1>12 DEF Ledger!Settle

\* A job that comes back readable after a power loss had its chain already,
\* if it was open at all.
LEMMA LossChain ==
  ASSUME JournalInv, JournalInv', PowerLoss, NEW j \in Jobs, Readable(j)', JobOpen(j)
  PROVE  Ledger!Extends(JobChain(j), Chain(entries'[j], Count(j)'))
<1> USE DEF JournalInv
<1>1. Survives(j)
  BY LossShape
<1>2. PICK m : m = Count(j)'
  OBVIOUS
<1>3. m \in Nat /\ m > 0 /\ DOMAIN entries'[j] = 0 .. m - 1
  <2>1. (TypeOK /\ Readable(j) => Count(j) \in Nat /\ Count(j) > 0 /\ DOMAIN entries[j] = 0 .. Count(j) - 1)'
    BY TipTyped, PTL DEF Readable
  <2> QED
    BY <1>2, <2>1
<1>4. /\ \A i \in 0 .. m - 1 : i \in DOMAIN entries[j] /\ entries'[j][i].snap = entries[j][i].snap
      /\ \A i \in 0 .. m - 1 : entries'[j][i].good /\ entries[j][i].good
  <2>1. \A i \in 0 .. m - 1 : i \in DOMAIN entries[j] /\ entries'[j][i].snap = entries[j][i].snap
    BY <1>1, <1>3 DEF Survives
  <2>2. \A i \in 0 .. m - 1 : entries'[j][i].good
    BY <1>3 DEF Readable, Intact
  <2> QED
    BY <1>1, <1>3, <2>1, <2>2 DEF Survives
<1>5. 0 \in DOMAIN entries[j]
  BY <1>3, <1>4
<1>6. home[j]["job"].there
  BY <1>5 DEF HomeInv, RecordsStandOnDurableNames, DirNames
<1>7. PICK n \in Nat : n = Count(j)
  BY EntriesTyped
<1>8. \A i \in DOMAIN entries[j] : entries[j][i].snap \in Lifecycles
  BY EntriesTyped DEF EntryStates
<1>9. ASSUME NEW k \in Nat, m <= k, k <= n, DOMAIN entries[j] = 0 .. n - 1
      PROVE  Ledger!Extends(Chain(entries[j], k), Chain(entries'[j], m))
  <2>1. PICK e : e = entries[j]
    OBVIOUS
  <2>2. PICK f : f = entries'[j]
    OBVIOUS
  <2>3. \A i \in 0 .. k - 1 : i \in 0 .. n - 1
    BY <1>9
  <2>4. \A i \in 0 .. k - 1 : e[i].snap \in Lifecycles
    BY <1>8, <1>9, <2>1, <2>3
  <2>5. \A i \in 0 .. m - 1 : f[i].snap = e[i].snap
    BY <1>4, <2>1, <2>2
  <2>6. Ledger!Extends(Chain(e, k), Chain(f, m))
    BY <1>3, <1>9, <2>4, <2>5, ChainExtends
  <2> QED
    BY <2>1, <2>2, <2>6
<1>10. CASE Readable(j)
  <2>1. DOMAIN entries[j] = 0 .. n - 1
    BY <1>7, <1>10 DEF Readable
  <2>2. m <= n
    <3>1. m - 1 \in 0 .. n - 1
      BY <1>3, <1>4, <2>1
    <3> QED
      BY <1>3, <3>1
  <2>3. JobChain(j) = Chain(entries[j], n)
    BY <1>7, <1>10 DEF JobChain
  <2> QED
    BY <1>2, <1>9, <2>1, <2>2, <2>3
<1>11. CASE ~Readable(j)
  <2>1. PICK c \in Callers : pc[c] \in BusyPCs /\ call[c].job = j
    BY <1>6, <1>11 DEF JobOpen, JobBusy, AtWork
  <2>2. pc[c] \notin CreatePCs
    BY <1>5, <2>1 DEF CreateInv, CreateAt
  <2>3. pc[c] # "entryOpen"
    <3> SUFFICES ASSUME pc[c] = "entryOpen" PROVE FALSE
      OBVIOUS
    <3>1. call[c].op # "append"
      BY <1>11, <2>1 DEF RecordInv
    <3>2. EntryAt(c)
      BY DEF EntryInv
    <3>3. Count(j) = 0 /\ DOMAIN entries[j] = 0 .. Count(j) - 1
      BY <2>1, <3>1, <3>2 DEF EntryAt
    <3>4. DOMAIN entries[j] = {}
      BY <3>3
    <3> QED
      BY <1>5, <3>4
  <2>4. pc[c] = "entryWrite"
    BY <2>1, <2>2, <2>3 DEF BusyPCs
  <2>5. Unfinished(j)
    BY <2>1, <2>4 DEF RecordInv
  <2>6. n > 0 /\ DOMAIN entries[j] = 0 .. n - 1 /\ ~entries[j][n - 1].good
    BY <1>7, <2>5 DEF Unfinished, Intact
  <2>7. m <= n - 1
    <3>1. m - 1 \in 0 .. n - 1
      BY <1>3, <1>4, <2>6
    <3>2. m - 1 # n - 1
      BY <1>3, <1>4, <2>6
    <3> QED
      BY <1>3, <3>1, <3>2
  <2>8. JobWrites(j)
    <3>1. call[c].op # "load"
      BY <2>1, BusyPlace
    <3> QED
      BY <2>1, <2>4, <3>1 DEF JobWrites, AtWork
  <2>9. n > 1
    BY <1>3, <2>7
  <2>10. JobChain(j) = Chain(entries[j], n - 1)
    BY <1>7, <1>11, <2>8, <2>9 DEF JobChain
  <2>11. n - 1 \in Nat /\ n - 1 <= n
    BY <2>9
  <2> QED
    BY <1>2, <1>9, <2>6, <2>7, <2>10, <2>11
<1> QED
  BY <1>10, <1>11

\* What was told of a job is the first part of what it shows when it is open
\* after a power loss.
LEMMA LossTold ==
  ASSUME JournalInv, JournalInv', PowerLoss, NEW j \in Jobs
  PROVE  /\ JobTold(j)' = JobTold(j)
         /\ Readable(j)' => Ledger!Extends(Chain(entries'[j], Count(j)'), JobTold(j))
         /\ ~home'[j]["job"].there => JobTold(j) = <<>>
<1> USE DEF JournalInv
<1>1. Survives(j) /\ acks' = acks
  BY LossShape
<1>2. PICK t : t = Told(j)
  OBVIOUS
<1>3. /\ t \in Nat
      /\ t > 0 => \A d \in DirNames : home[j][d].linked
      /\ \A i \in 0 .. t - 1 : i \in DOMAIN entries[j] /\ entries[j][i].linked
  BY <1>2, ToldIsKept
<1>4. t > 0 => \A d \in DirNames : home[j][d].there /\ home[j][d].linked
  BY <1>3 DEF HomeInv
<1>5. \A i \in 0 .. t - 1 : i \in DOMAIN entries'[j] /\ entries'[j][i].snap = entries[j][i].snap
  <2> TAKE i \in 0 .. t - 1
  <2>1. t > 0
    BY <1>3
  <2>2. i \in DOMAIN entries'[j]
    BY <1>1, <1>3, <1>4, <2>1 DEF Survives
  <2> QED
    BY <1>1, <2>2 DEF Survives
<1>6. JobTold(j)' = JobTold(j)
  BY <1>1, <1>2, <1>5, ToldStays
<1>7. Readable(j)' => Ledger!Extends(Chain(entries'[j], Count(j)'), JobTold(j))
  <2> HAVE Readable(j)'
  <2>1. (TypeOK /\ Readable(j) =>
           /\ Count(j) \in Nat /\ Count(j) > 0 /\ DOMAIN entries[j] = 0 .. Count(j) - 1
           /\ \A i \in 0 .. Count(j) - 1 : entries[j][i].snap \in Lifecycles)'
    BY ReadableLegal, PTL
  <2>2. PICK m : m = Count(j)'
    OBVIOUS
  <2>3. /\ m \in Nat /\ DOMAIN entries'[j] = 0 .. m - 1
        /\ \A i \in 0 .. m - 1 : entries'[j][i].snap \in Lifecycles
    BY <2>1, <2>2
  <2>4. t <= m
    <3>1. CASE t = 0
      BY <2>3, <3>1
    <3>2. CASE t > 0
      <4>1. t - 1 \in 0 .. t - 1
        BY <1>3, <3>2
      <4>2. t - 1 \in 0 .. m - 1
        BY <1>5, <2>3, <4>1
      <4> QED
        BY <1>3, <2>3, <4>2
    <3> QED
      BY <1>3, <3>1, <3>2
  <2>5. PICK e : e = entries[j]
    OBVIOUS
  <2>6. PICK f : f = entries'[j]
    OBVIOUS
  <2>7. Ledger!Extends(Chain(f, m), Chain(e, t))
    <3>1. \A i \in 0 .. m - 1 : f[i].snap \in Lifecycles
      BY <2>3, <2>6
    <3>2. \A i \in 0 .. t - 1 : e[i].snap = f[i].snap
      BY <1>5, <2>5, <2>6
    <3> QED
      BY <1>3, <2>3, <2>4, <3>1, <3>2, ChainExtends
  <2> QED
    BY <1>2, <2>2, <2>5, <2>6, <2>7 DEF JobTold
<1>8. ~home'[j]["job"].there => JobTold(j) = <<>>
  <2> HAVE ~home'[j]["job"].there
  <2>1. ~(t > 0)
    BY <1>1, <1>4 DEF Survives, Linked, DirNames
  <2>2. t = 0
    BY <1>3, <2>1
  <2> QED
    BY <1>2, <2>2, NoChain DEF JobTold
<1> QED
  BY <1>6, <1>7, <1>8

\* A power loss takes back what was never told, closes jobs or opens them again.
LEMMA LossLedger ==
  ASSUME JournalInv, JournalInv', PowerLoss
  PROVE  Ledger!PowerLoss
<1>1. /\ \A c \in Callers : pc'[c] = "idle"
      /\ spent'.losses = spent.losses + 1
  BY LossShape DEF JournalInv
<1>2. \A j \in Jobs : ~JobBusy(j)' /\ ~JobWrites(j)'
  BY <1>1 DEF JobBusy, JobWrites, AtWork, BusyPCs, CreatePCs
<1>3. \A j \in Jobs : JobOpen(j)' <=> Readable(j)' \/ ~home'[j]["job"].there
  BY <1>2 DEF JobOpen
<1>4. \A j \in Jobs : JobChain(j)' = IF Readable(j)' THEN Chain(entries'[j], Count(j)') ELSE <<>>
  BY <1>2 DEF JobChain
<1>5. Acknowledged' = Acknowledged
  BY LossTold, ShownByJob, ShownByJobNext
<1>6. ASSUME NEW j \in Jobs, JobOpen(j)'
      PROVE  /\ Ledger!LegalChain(JobChain(j)')
             /\ Ledger!Extends(JobChain(j)', JobTold(j))
             /\ JobOpen(j) => Ledger!Extends(JobChain(j), JobChain(j)')
  <2>1. CASE Readable(j)'
    <3>1. JobChain(j)' = Chain(entries'[j], Count(j)')
      BY <1>4, <2>1
    <3>2. (TypeOK /\ Readable(j) => Ledger!LegalChain(Chain(entries[j], Count(j))))'
      BY ReadableLegal, PTL
    <3>3. Ledger!LegalChain(Chain(entries'[j], Count(j)'))
      BY <2>1, <3>2 DEF JournalInv
    <3> QED
      BY <2>1, <3>1, <3>3, LossChain, LossTold
  <2>2. CASE ~Readable(j)'
    <3>1. JobChain(j)' = <<>> /\ JobTold(j) = <<>>
      BY <1>3, <1>4, <1>6, <2>2, LossTold
    <3>2. Ledger!LegalChain(<<>>)
      BY DEF Ledger!LegalChain
    <3>3. Ledger!Extends(<<>>, <<>>)
      BY DEF Ledger!Extends
    <3>4. Ledger!Extends(JobChain(j), <<>>)
      <4>1. PICK ch \in Seq(Lifecycles) : ch = JobChain(j)
        BY JobChainTyped
      <4>2. Len(ch) \in Nat /\ SubSeq(ch, 1, 0) = <<>>
        BY <4>1
      <4> QED
        BY <4>1, <4>2 DEF Ledger!Extends
    <3> QED
      BY <3>1, <3>2, <3>3, <3>4
  <2> QED
    BY <2>1, <2>2
<1>7. /\ ShownOpen' \subseteq Jobs /\ DOMAIN ShownChain' = Jobs
      /\ \A j \in Jobs : j \in ShownOpen' <=> JobOpen(j)'
      /\ \A j \in Jobs : j \in ShownOpen <=> JobOpen(j)
      /\ \A j \in Jobs : ShownChain'[j] = JobChain(j)' /\ ShownChain[j] = JobChain(j)
      /\ \A j \in Jobs : Acknowledged[j] = JobTold(j)
  BY ShownByJob, ShownByJobNext
<1>8. \A j \in Jobs : ~JobOpen(j)' => JobChain(j)' = <<>>
  BY <1>3, <1>4
<1>9. \A j \in ShownOpen' :
        /\ Ledger!LegalChain(ShownChain'[j]) /\ Ledger!Extends(ShownChain'[j], Acknowledged[j])
        /\ j \in ShownOpen => Ledger!Extends(ShownChain[j], ShownChain'[j])
  <2> TAKE j \in ShownOpen'
  <2>1. j \in Jobs /\ JobOpen(j)'
    BY <1>7
  <2>2. ShownChain'[j] = JobChain(j)' /\ ShownChain[j] = JobChain(j) /\ Acknowledged[j] = JobTold(j)
        /\ (j \in ShownOpen <=> JobOpen(j))
    BY <1>7, <2>1
  <2> QED
    BY <1>6, <2>1, <2>2
<1> QED
  BY <1>1, <1>5, <1>7, <1>8, <1>9 DEF Ledger!PowerLoss

LEMMA LedgerInit == ASSUME Init PROVE Ledger!LInit
<1>1. ASSUME NEW j \in Jobs PROVE JobChain(j) = <<>> /\ JobOpen(j) /\ JobTold(j) = <<>>
  <2>1. DOMAIN entries[j] = {}
    BY DEF Init
  <2>2. ~home[j]["job"].there
    BY DEF Init, NoDir, DirNames
  <2>3. Told(j) = 0
    BY DEF Init, Told, Places
  <2> QED
    BY <2>1, <2>2, <2>3, EmptyShown, NoChain DEF JobOpen, JobTold
<1>2. spent.losses = 0
  BY DEF Init
<1> QED
  BY <1>1, <1>2, ShownByJob DEF Ledger!LInit

LEMMA LedgerStep ==
  ASSUME JournalInv, JournalInv', [Next]_vars
  PROVE  Ledger!LNext \/ UNCHANGED Ledger!lvars
<1>1. CASE UNCHANGED vars
  BY <1>1 DEF vars, Ledger!lvars, ShownChain, ShownOpen, Acknowledged, Readable, Intact, Follows,
     Count, Whole, AtWork
<1>2. CASE PowerLoss
  BY <1>2, LossLedger DEF Ledger!LNext
<1>3. ASSUME NEW c \in Callers, Quiet(c)
      PROVE  Ledger!LNext \/ UNCHANGED Ledger!lvars
  BY <1>3, QuietLedger DEF Ledger!LNext
<1>4. ASSUME NEW c \in Callers, Writes(c)
      PROVE  Ledger!LNext \/ UNCHANGED Ledger!lvars
  <2>1. CASE DirectorySteps(c)
    BY <2>1, DirectoryLedger
  <2>2. CASE StartAppend(c)
    BY <2>2, StartLedger
  <2>3. CASE OpenEntry(c)
    BY <2>3, OpenLedger
  <2>4. CASE WriteEntry(c)
    BY <2>4, WriteLedger DEF Ledger!LNext
  <2>5. CASE SyncEntry(c) \/ SyncSnapshots(c) \/ SyncAbove(c)
    BY <2>5, SyncLedger
  <2>6. CASE Acknowledge(c)
    BY <2>6, AcknowledgeLedger DEF Ledger!LNext
  <2> QED
    BY <1>4, <2>1, <2>2, <2>3, <2>4, <2>5, <2>6 DEF Writes, RecordSteps
<1> QED
  BY <1>1, <1>2, <1>3, <1>4, NextCases

\* The journal of all jobs, with its files, its lock, deaths and power losses,
\* implements the ledger: each job has a legal chain that grows by one snapshot
\* when its record is whole, keeps what was told through every power loss, and
\* can be closed by its own writers only.
THEOREM JobJournalImplementsLedger == Spec => ImplementsLedger
<1>1. Init => JournalInv /\ Ledger!LInit
  BY InitInv, LedgerInit
<1>2. JournalInv /\ [Next]_vars => JournalInv'
  BY NextInv
<1>3. JournalInv /\ JournalInv' /\ [Next]_vars => [Ledger!LNext]_(Ledger!lvars)
  BY LedgerStep
<1> QED
  BY <1>1, <1>2, <1>3, PTL DEF Spec, ImplementsLedger, Ledger!LSpec
=============================================================================
