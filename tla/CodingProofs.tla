---------------------------- MODULE CodingProofs ----------------------------
(***************************************************************************)
(* A request in its roots, a coding job in its workspace and dispatchers   *)
(* over their queues: what is on record of them is true, for any numbers   *)
(* of processes, paths, jobs and failures.                                 *)
(***************************************************************************)
EXTENDS MCCoding, SequenceTheorems, TLAPS

-----------------------------------------------------------------------------
(***************************************************************************)
(* A request in roots it may have to initialise (RuntimeRequest).          *)
(***************************************************************************)
RequestIInv ==
  /\ Request!TypeOK /\ Request!RequestInv
  /\ Request!CandidateHasItsJob /\ Request!AnsweredIsRecorded

LEMMA RequestBound == MaxPowerLoss \in Nat
BY CodingAssumption DEF Request!RequestsAssumption

LEMMA RequestInit ==
  ASSUME Request!Init
  PROVE  RequestIInv
<1> USE DEF Request!Init, Request!Roots
<1>1. Request!TypeOK
  BY RequestBound DEF Request!TypeOK, Request!InitPCs
<1>2. Request!RequestInv
  BY DEF Request!RequestInv, Request!JobPCs, Request!AppendPCs
<1>3. Request!CandidateHasItsJob /\ Request!AnsweredIsRecorded
  BY DEF Request!CandidateHasItsJob, Request!AnsweredIsRecorded
<1> QED BY <1>1, <1>2, <1>3 DEF RequestIInv

\* The steps that leave the roots alone.
LEMMA RequestGoesOn ==
  ASSUME RequestIInv, NEW p \in Requests, NEW r \in Request!Roots,
         \/ Request!Reject(p) \/ Request!Receive(p) \/ Request!Die(p)
         \/ Request!List(p, r) \/ Request!LockExists(p, r)
         \/ Request!Validate(p, r) \/ Request!Invalid(p, r)
         \/ Request!WorkCompleted(p) \/ Request!WorkFailed(p) \/ Request!Answer(p)
         \/ \E step \in Request!AppendPCs \cup {"create"} : Request!Refuse(p, "journal", step)
  PROVE  RequestIInv'
<1> USE DEF RequestIInv, Request!roots, Request!told, Request!Goto, Request!Raise, Request!At,
            Request!Reject, Request!Receive, Request!Die, Request!List, Request!LockExists,
            Request!Validate, Request!AfterRoot, Request!Invalid, Request!WorkCompleted,
            Request!WorkFailed, Request!Answer, Request!Refuse, Request!AppendPCs,
            Request!Roots, Request!InitPCs, Request!JobPCs, Request!Whole
<1>1. UNCHANGED <<names, durable, half, records, losses, stored>>
  OBVIOUS
<1>2. Request!TypeOK'
  BY <1>1 DEF Request!TypeOK
<1>3. Request!RequestInv'
  BY <1>1 DEF Request!TypeOK, Request!RequestInv
<1>4. answered' \subseteq answered \cup {q \in Requests : q = p /\ pc[q] = "answer"}
  OBVIOUS
<1>5. Request!CandidateHasItsJob' /\ Request!AnsweredIsRecorded'
  BY <1>1, <1>4 DEF Request!RequestInv, Request!CandidateHasItsJob, Request!AnsweredIsRecorded
<1> QED BY <1>2, <1>3, <1>5

LEMMA RootIsMade ==
  ASSUME RequestIInv, NEW p \in Requests, NEW r \in Request!Roots,
         Request!MakeLock(p, r) \/ Request!MakeDirectory(p, r) \/ Request!SyncRoot(p, r)
  PROVE  RequestIInv'
<1> USE DEF RequestIInv, Request!Goto, Request!At, Request!told, Request!MakeLock,
            Request!MakeDirectory, Request!MakeName, Request!SyncRoot, Request!Sync,
            Request!Roots, Request!InitPCs, Request!JobPCs, Request!AppendPCs, Request!Names
<1>1. /\ UNCHANGED <<root, half, records, stored, answered, losses>>
      /\ pc[p] \in {"lock", "directory", "sync"}
      /\ \E next \in {"directory", "sync", "validate"} : pc' = [pc EXCEPT ![p] = next]
      /\ \/ UNCHANGED durable /\ \E n \in Request!Names : names' = [names EXCEPT ![r] = @ \cup {n}]
         \/ UNCHANGED names /\ durable' = [durable EXCEPT ![r] = names[r]]
  OBVIOUS
<1>2. Request!TypeOK'
  BY <1>1 DEF Request!TypeOK
<1>3. Request!RequestInv'
  BY <1>1 DEF Request!TypeOK, Request!RequestInv
<1>4. Request!CandidateHasItsJob' /\ Request!AnsweredIsRecorded'
  BY <1>1 DEF Request!CandidateHasItsJob, Request!AnsweredIsRecorded
<1> QED BY <1>2, <1>3, <1>4

LEMMA RecordIsMade ==
  ASSUME RequestIInv, NEW p \in Requests,
         \/ Request!BeginJob(p) \/ Request!FinishJob(p) \/ Request!AppendRunning(p)
         \/ Request!AppendFailed(p) \/ Request!AppendCompleted(p)
         \/ Request!BeginCandidate(p) \/ Request!FinishCandidate(p)
  PROVE  RequestIInv'
<1> USE DEF RequestIInv, Request!Goto, Request!told, Request!Roots, Request!InitPCs,
            Request!JobPCs, Request!AppendPCs, Request!Names, Request!Whole, Request!Sync
<1>1. CASE Request!BeginJob(p) \/ Request!BeginCandidate(p)
  <2> USE <1>1 DEF Request!BeginJob, Request!BeginCandidate, Request!Begin
  <2>1. Request!TypeOK'
    BY DEF Request!TypeOK
  <2>2. Request!RequestInv'
    BY DEF Request!TypeOK, Request!RequestInv
  <2>3. Request!CandidateHasItsJob' /\ Request!AnsweredIsRecorded'
    BY DEF Request!CandidateHasItsJob, Request!AnsweredIsRecorded
  <2> QED BY <2>1, <2>2, <2>3
<1>2. CASE Request!FinishJob(p) \/ Request!FinishCandidate(p)
  <2> USE <1>2 DEF Request!FinishJob, Request!FinishCandidate, Request!Finish
  <2>1. Request!TypeOK'
    BY DEF Request!TypeOK, Request!RequestInv
  <2>2. Request!RequestInv'
    BY DEF Request!TypeOK, Request!RequestInv
  <2>3. Request!CandidateHasItsJob' /\ Request!AnsweredIsRecorded'
    BY DEF Request!TypeOK, Request!RequestInv, Request!CandidateHasItsJob,
           Request!AnsweredIsRecorded
  <2> QED BY <2>1, <2>2, <2>3
<1>3. CASE \/ Request!AppendRunning(p) \/ Request!AppendFailed(p) \/ Request!AppendCompleted(p)
  <2> USE <1>3 DEF Request!AppendRunning, Request!AppendFailed, Request!AppendCompleted,
                   Request!Append
  <2>1. Request!TypeOK'
    BY DEF Request!TypeOK
  <2>2. Request!RequestInv'
    BY DEF Request!TypeOK, Request!RequestInv
  <2>3. Request!CandidateHasItsJob' /\ Request!AnsweredIsRecorded'
    BY DEF Request!CandidateHasItsJob, Request!AnsweredIsRecorded
  <2> QED BY <2>1, <2>2, <2>3
<1> QED BY <1>1, <1>2, <1>3

LEMMA RequestPowerLoss ==
  ASSUME RequestIInv, Request!PowerLoss
  PROVE  RequestIInv'
<1> USE RequestBound DEF RequestIInv, Request!told, Request!Roots, Request!InitPCs,
            Request!JobPCs, Request!AppendPCs, Request!Names
<1>1. PICK left \in [Request!Roots -> SUBSET Request!Names],
           torn \in [Request!Roots -> SUBSET Requests] :
         /\ \A r \in Request!Roots : durable[r] \subseteq left[r] /\ left[r] \subseteq names[r]
         /\ \A r \in Request!Roots : torn[r] \subseteq half[r]
         /\ names' = left /\ durable' = left
         /\ half' = [r \in Request!Roots |-> IF "directory" \in left[r] THEN torn[r] ELSE {}]
         /\ records' = [r \in Request!Roots |->
                          IF "directory" \in left[r] THEN records[r] ELSE {}]
  BY DEF Request!PowerLoss
<1>2. /\ losses < MaxPowerLoss /\ losses' = losses + 1
      /\ pc' = [p \in Requests |-> IF pc[p] \in {"request", "answered"} THEN pc[p] ELSE "raised"]
      /\ UNCHANGED <<root, stored, answered>>
  BY DEF Request!PowerLoss
<1>3. Request!TypeOK'
  BY <1>1, <1>2 DEF Request!TypeOK
<1>4. records'["journal"] = records["journal"] /\ records'["store"] \subseteq records["store"]
  BY <1>1 DEF Request!TypeOK, Request!RequestInv
<1>5. records["journal"] # {} => durable'["journal"] = Request!Names
  BY <1>1 DEF Request!TypeOK, Request!RequestInv
<1>6. Request!RequestInv'
  BY <1>2, <1>4, <1>5 DEF Request!TypeOK, Request!RequestInv
<1>7. Request!CandidateHasItsJob' /\ Request!AnsweredIsRecorded'
  BY <1>2, <1>4 DEF Request!CandidateHasItsJob, Request!AnsweredIsRecorded
<1> QED BY <1>3, <1>6, <1>7

LEMMA RequestStep ==
  ASSUME RequestIInv, [Request!Next]_(Request!vars)
  PROVE  RequestIInv'
<1>1. CASE UNCHANGED Request!vars
  BY <1>1 DEF RequestIInv, Request!TypeOK, Request!RequestInv, Request!CandidateHasItsJob,
              Request!AnsweredIsRecorded, Request!vars, Request!roots, Request!told
<1>2. CASE Request!Next
  <2>1. "store" \in Request!Roots
    BY DEF Request!Roots
  <2> QED BY <1>2, <2>1, RequestGoesOn, RootIsMade, RecordIsMade, RequestPowerLoss
             DEF Request!Next, Request!Process
<1> QED BY <1>1, <1>2

LEMMA RequestResult ==
  ASSUME RequestIInv
  PROVE  Request!JobsRunOnWholeRoots
BY DEF RequestIInv, Request!TypeOK, Request!RequestInv, Request!JobsRunOnWholeRoots,
       Request!Roots, Request!InitPCs, Request!JobPCs

-----------------------------------------------------------------------------
(***************************************************************************)
(* One coding job and its workspace (CodingJob).                           *)
(***************************************************************************)
JobIInv == CodingJob!TypeOK /\ CodingJob!ScanInv /\ CodingJob!CandidateInv

LEMMA JobConstants ==
  /\ MaxWrites \in Nat /\ MaxLate \in Nat /\ Committed \subseteq Paths
  /\ DOMAIN Targets \subseteq Paths /\ DOMAIN Targets # {}
BY CodingAssumption DEF CodingJob!BoundsAssumption, CodingJob!PathsAssumption,
   CodingJob!TargetsAssumption

LEMMA NodesAre ==
  /\ CodingJob!Unseen \in CodingJob!Nodes /\ CodingJob!Absent \in CodingJob!Nodes
  /\ \A n \in 0 .. MaxWrites + MaxLate : CodingJob!File(n) \in CodingJob!Nodes
  /\ \A n \in 1 .. MaxWrites + MaxLate : CodingJob!Other(n) \in CodingJob!Nodes
  /\ \A x \in CodingJob!Nodes : x.write \in Nat
<1>1. CodingJob!Unseen \in CodingJob!Nodes /\ CodingJob!Absent \in CodingJob!Nodes
  BY DEF CodingJob!Nodes
<1>2. /\ \A n \in 0 .. MaxWrites + MaxLate : CodingJob!File(n) \in CodingJob!Nodes
      /\ \A n \in 1 .. MaxWrites + MaxLate : CodingJob!Other(n) \in CodingJob!Nodes
  BY DEF CodingJob!Nodes
<1>3. ASSUME NEW x \in CodingJob!Nodes
      PROVE  x.write \in Nat
  <2>1. CASE x = CodingJob!Unseen \/ x = CodingJob!Absent
    BY <2>1 DEF CodingJob!Unseen, CodingJob!Absent
  <2>2. CASE \E n \in 0 .. MaxWrites + MaxLate : x = CodingJob!File(n)
    BY <2>2, JobConstants DEF CodingJob!File
  <2>3. CASE \E n \in 1 .. MaxWrites + MaxLate : x = CodingJob!Other(n)
    BY <2>3, JobConstants DEF CodingJob!Other
  <2> QED BY <2>1, <2>2, <2>3 DEF CodingJob!Nodes
<1> QED BY <1>1, <1>2, <1>3

LEMMA LaterIsTransitive ==
  ASSUME NEW x \in CodingJob!Nodes, NEW y \in CodingJob!Nodes, NEW z \in CodingJob!Nodes,
         CodingJob!Later(x, y), CodingJob!Later(y, z)
  PROVE  CodingJob!Later(x, z)
BY NodesAre DEF CodingJob!Later

LEMMA LaterIsAntisymmetric ==
  ASSUME NEW x \in CodingJob!Nodes, NEW y \in CodingJob!Nodes,
         CodingJob!Later(x, y), CodingJob!Later(y, x)
  PROVE  x = y
BY NodesAre DEF CodingJob!Later

LEMMA JobInit ==
  ASSUME CodingJob!Init
  PROVE  JobIInv
<1> USE NodesAre, JobConstants DEF CodingJob!Init, CodingJob!Empty, CodingJob!NotScanned
<1>1. CodingJob!TypeOK
  <2>1. \A x, y \in candidate : x = y
    OBVIOUS
  <2>2. {workspace, before, after, again, reread} \subseteq [Paths -> CodingJob!Nodes]
    <3>1. [p \in Paths |-> CodingJob!Absent] \in [Paths -> CodingJob!Nodes]
      BY NodesAre
    <3>2. [p \in Paths |-> CodingJob!Unseen] \in [Paths -> CodingJob!Nodes]
      BY NodesAre
    <3> QED BY <3>1, <3>2
  <2>3. moments \subseteq [Paths -> CodingJob!Nodes] /\ writes \in 0 .. MaxWrites + MaxLate
    OBVIOUS
  <2>4. /\ pc = "create" /\ status = "none"
    OBVIOUS
  <2> HIDE DEF CodingJob!Init
  <2> QED BY <2>1, <2>2, <2>3, <2>4 DEF CodingJob!TypeOK
<1>2. CodingJob!ScanInv
  BY DEF CodingJob!ScanInv, CodingJob!Absent
<1>3. CodingJob!CandidateInv
  BY DEF CodingJob!CandidateInv
<1> QED BY <1>1, <1>2, <1>3 DEF JobIInv

LEMMA JobStarts ==
  ASSUME JobIInv, CodingJob!Seed \/ CodingJob!CaptureBefore
  PROVE  JobIInv'
<1> USE NodesAre, JobConstants DEF JobIInv, CodingJob!Goto
<1>1. CASE CodingJob!Seed
  <2>1. PICK paths \in SUBSET Committed :
          workspace' = [p \in Paths |-> IF p \in paths THEN CodingJob!File(0)
                                                       ELSE CodingJob!Absent]
    BY <1>1 DEF CodingJob!Seed
  <2>2. /\ pc = "create" /\ pc' = "before"
        /\ UNCHANGED <<before, after, again, reread, status, candidate, writes, moments>>
    BY <1>1 DEF CodingJob!Seed
  <2>3. workspace' \in [Paths -> CodingJob!Nodes] /\ \A p \in Paths : workspace'[p].write = 0
    BY <2>1 DEF CodingJob!File, CodingJob!Absent
  <2>4. CodingJob!TypeOK'
    BY <2>2, <2>3 DEF CodingJob!TypeOK
  <2>5. CodingJob!ScanInv'
    BY <2>2, <2>3 DEF CodingJob!TypeOK, CodingJob!ScanInv
  <2>6. CodingJob!CandidateInv'
    BY <2>2 DEF CodingJob!CandidateInv
  <2> QED BY <2>4, <2>5, <2>6
<1>2. CASE CodingJob!CaptureBefore
  <2>1. /\ pc = "before" /\ pc' \in {"worker", "raised"} /\ before' = workspace
        /\ UNCHANGED <<workspace, after, again, reread, status, candidate, writes, moments>>
    BY <1>2 DEF CodingJob!CaptureBefore
  <2>2. CodingJob!TypeOK'
    BY <2>1 DEF CodingJob!TypeOK
  <2>3. CodingJob!ScanInv'
    BY <2>1 DEF CodingJob!ScanInv
  <2>4. CodingJob!CandidateInv'
    BY <2>1 DEF CodingJob!CandidateInv
  <2> QED BY <2>2, <2>3, <2>4
<1> QED BY <1>1, <1>2

LEMMA WorkerMoves ==
  ASSUME JobIInv, CodingJob!WorkerReturns \/ \E p \in Paths : CodingJob!WorkerWrites(p)
  PROVE  JobIInv'
<1> USE NodesAre, JobConstants DEF JobIInv, CodingJob!Goto
<1>1. ASSUME NEW p \in Paths, CodingJob!WorkerWrites(p)
      PROVE  JobIInv'
  <2>1. PICK node \in {CodingJob!Absent, CodingJob!File(writes + 1), CodingJob!Other(writes + 1)} :
          workspace' = [workspace EXCEPT ![p] = node]
    BY <1>1 DEF CodingJob!WorkerWrites, CodingJob!Put
  <2>2. /\ pc = "worker" /\ writes < MaxWrites /\ writes' = writes + 1
        /\ UNCHANGED <<pc, before, after, again, reread, status, candidate, moments>>
    BY <1>1 DEF CodingJob!WorkerWrites, CodingJob!Put
  <2>3. writes \in Nat /\ writes + 1 \in 1 .. MaxWrites + MaxLate
    BY <2>2 DEF CodingJob!TypeOK
  <2>4. node \in CodingJob!Nodes /\ node.write <= writes + 1
    BY <2>3 DEF CodingJob!Absent, CodingJob!File, CodingJob!Other
  <2>5. CodingJob!TypeOK'
    BY <2>1, <2>2, <2>3, <2>4 DEF CodingJob!TypeOK
  <2>6. \A q \in Paths : workspace'[q].write <= writes'
    BY <2>1, <2>2, <2>3, <2>4 DEF CodingJob!TypeOK, CodingJob!ScanInv
  <2>7. CodingJob!ScanInv'
    BY <2>2, <2>6 DEF CodingJob!ScanInv
  <2>8. CodingJob!CandidateInv'
    BY <2>2 DEF CodingJob!CandidateInv
  <2> QED BY <2>5, <2>7, <2>8
<1>2. CASE CodingJob!WorkerReturns
  <2>1. /\ pc = "worker" /\ pc' = "after" /\ moments' = {workspace}
        /\ status' \in CodingJob!Statuses \cup {"malformed"}
        /\ UNCHANGED <<workspace, before, after, again, reread, candidate, writes>>
    BY <1>2 DEF CodingJob!WorkerReturns
  <2>2. CodingJob!TypeOK'
    BY <2>1 DEF CodingJob!TypeOK
  <2>3. CodingJob!ScanInv'
    BY <2>1 DEF CodingJob!ScanInv, CodingJob!NotScanned
  <2>4. CodingJob!CandidateInv'
    BY <2>1 DEF CodingJob!CandidateInv
  <2> QED BY <2>2, <2>3, <2>4
<1> QED BY <1>1, <1>2

\* What the leftovers write is later than whatever a scan has seen.
LEMMA LeftoversWrite ==
  ASSUME JobIInv, NEW p \in Paths, CodingJob!LateWrite(p)
  PROVE  JobIInv'
<1> USE NodesAre, JobConstants DEF JobIInv
<1>1. PICK node \in {CodingJob!File(writes + 1), CodingJob!Other(writes + 1)} :
        /\ workspace' = [workspace EXCEPT ![p] = node]
        /\ moments' = moments \cup {[workspace EXCEPT ![p] = node]}
  BY DEF CodingJob!LateWrite, CodingJob!Put
<1>2. /\ pc \in {"after", "unsuccessful", "reread", "recapture"}
      /\ writes < MaxWrites + MaxLate /\ writes' = writes + 1
      /\ UNCHANGED <<pc, before, after, again, reread, status, candidate>>
  BY DEF CodingJob!LateWrite, CodingJob!Put, CodingJob!TypeOK
<1>3. writes \in Nat /\ writes + 1 \in 1 .. MaxWrites + MaxLate
  BY <1>2 DEF CodingJob!TypeOK
<1>4. node \in CodingJob!Nodes /\ node.write = writes + 1
  BY <1>3 DEF CodingJob!File, CodingJob!Other
<1>5. CodingJob!TypeOK'
  <2>1. workspace' \in [Paths -> CodingJob!Nodes]
    BY <1>1, <1>4 DEF CodingJob!TypeOK
  <2>2. moments' \subseteq [Paths -> CodingJob!Nodes]
    BY <1>1, <2>1 DEF CodingJob!TypeOK
  <2> QED BY <1>2, <1>3, <2>1, <2>2 DEF CodingJob!TypeOK
<1>6. \A q \in Paths :
        /\ workspace[q] \in CodingJob!Nodes /\ workspace'[q].write <= writes'
        /\ CodingJob!Later(workspace[q], workspace'[q])
        /\ workspace'[q] \in CodingJob!Nodes
  BY <1>1, <1>2, <1>3, <1>4 DEF CodingJob!TypeOK, CodingJob!ScanInv, CodingJob!Later
<1>7. \A q \in Paths : \A x \in CodingJob!Nodes :
        CodingJob!Later(x, workspace[q]) => CodingJob!Later(x, workspace'[q])
  BY <1>6, LaterIsTransitive
<1>8. workspace' \in moments' /\ moments \subseteq moments'
  BY <1>1
<1>9. CodingJob!ScanInv'
  <2>1. pc = "after" => \A q \in Paths :
          after[q] # CodingJob!Unseen => CodingJob!Later(after[q], workspace'[q])
    BY <1>2, <1>7 DEF CodingJob!ScanInv, CodingJob!TypeOK
  <2>2. pc \in {"reread", "recapture"} => \E w \in moments' : \A q \in Paths :
          /\ CodingJob!Later(after[q], w[q]) /\ CodingJob!Later(w[q], workspace'[q])
          /\ again[q] # CodingJob!Unseen => CodingJob!Later(w[q], again[q])
    <3> SUFFICES ASSUME pc \in {"reread", "recapture"}
                 PROVE  \E w \in moments' : \A q \in Paths :
          /\ CodingJob!Later(after[q], w[q]) /\ CodingJob!Later(w[q], workspace'[q])
          /\ again[q] # CodingJob!Unseen => CodingJob!Later(w[q], again[q])
      OBVIOUS
    <3>1. PICK w \in moments : \A q \in Paths :
            /\ CodingJob!Later(after[q], w[q]) /\ CodingJob!Later(w[q], workspace[q])
            /\ again[q] # CodingJob!Unseen => CodingJob!Later(w[q], again[q])
      BY DEF CodingJob!ScanInv
    <3>2. \A q \in Paths : w[q] \in CodingJob!Nodes
      BY DEF CodingJob!TypeOK
    <3> QED BY <1>7, <1>8, <3>1, <3>2
  <2> QED BY <1>2, <1>6, <1>8, <2>1, <2>2 DEF CodingJob!ScanInv
<1>10. CodingJob!CandidateInv'
  BY <1>2 DEF CodingJob!CandidateInv
<1> QED BY <1>5, <1>9, <1>10

LEMMA FirstScan ==
  ASSUME JobIInv, CodingJob!Judge \/ \E p \in Paths : CodingJob!ScanAfter(p)
  PROVE  JobIInv'
<1> USE NodesAre DEF JobIInv, CodingJob!Goto
<1>1. ASSUME NEW p \in Paths, CodingJob!ScanAfter(p)
      PROVE  JobIInv'
  <2>1. /\ pc = "after" /\ after' = [after EXCEPT ![p] = workspace[p]]
        /\ UNCHANGED <<pc, workspace, before, again, reread, status, candidate, writes, moments>>
    BY <1>1 DEF CodingJob!ScanAfter
  <2>2. CodingJob!TypeOK'
    BY <2>1 DEF CodingJob!TypeOK
  <2>3. CodingJob!ScanInv'
    BY <2>1 DEF CodingJob!ScanInv, CodingJob!TypeOK, CodingJob!Later
  <2>4. CodingJob!CandidateInv'
    BY <2>1 DEF CodingJob!CandidateInv
  <2> QED BY <2>2, <2>3, <2>4
<1>2. CASE CodingJob!Judge
  <2>1. /\ pc = "after" /\ pc' \in {"raised", "unsuccessful", "reread"}
        /\ UNCHANGED <<workspace, before, after, again, reread, status, candidate, writes, moments>>
        /\ \A p \in Paths : after[p] # CodingJob!Unseen
        /\ pc' # "raised" => CodingJob!PolicyDiff(before, after, FALSE)
        /\ pc' = "reread" => CodingJob!PolicyDiff(before, after, TRUE)
    BY <1>2 DEF CodingJob!Judge, CodingJob!Complete
  <2>2. CodingJob!TypeOK'
    BY <2>1 DEF CodingJob!TypeOK
  <2>3. pc' = "reread" => \A p \in Paths :
          /\ CodingJob!Later(after[p], workspace[p]) /\ CodingJob!Later(workspace[p], workspace[p])
          /\ again[p] = CodingJob!Unseen /\ reread[p] = CodingJob!Unseen
    BY <2>1 DEF CodingJob!ScanInv, CodingJob!NotScanned, CodingJob!Later
  <2>4. CodingJob!ScanInv'
    BY <2>1, <2>3 DEF CodingJob!ScanInv, CodingJob!Changed
  <2>5. CodingJob!CandidateInv'
    BY <2>1 DEF CodingJob!CandidateInv, CodingJob!PolicyDiff, CodingJob!PolicyBefore,
                CodingJob!Changed, CodingJob!ChangeAt
  <2> QED BY <2>2, <2>4, <2>5
<1> QED BY <1>1, <1>2

LEMMA SecondScan ==
  ASSUME JobIInv,
         \/ CodingJob!StartRecapture
         \/ \E p \in Paths : CodingJob!Reread(p) \/ CodingJob!ScanAgain(p)
  PROVE  JobIInv'
<1> USE NodesAre DEF JobIInv, CodingJob!Goto
<1>1. ASSUME NEW p \in Paths, CodingJob!Reread(p)
      PROVE  JobIInv'
  <2>1. /\ pc = "reread" /\ reread' = [reread EXCEPT ![p] = workspace[p]]
        /\ pc' = (IF workspace[p] = after[p] THEN "reread" ELSE "raised")
        /\ UNCHANGED <<workspace, before, after, again, status, candidate, writes, moments>>
    BY <1>1 DEF CodingJob!Reread
  <2>2. CodingJob!TypeOK'
    BY <2>1 DEF CodingJob!TypeOK
  <2>3. CodingJob!ScanInv'
    BY <2>1 DEF CodingJob!ScanInv, CodingJob!TypeOK, CodingJob!Changed
  <2>4. CodingJob!CandidateInv'
    BY <2>1 DEF CodingJob!CandidateInv
  <2> QED BY <2>2, <2>3, <2>4
<1>2. CASE CodingJob!StartRecapture
  <2>1. /\ pc = "reread" /\ pc' = "recapture"
        /\ \A p \in CodingJob!Changed(before, after) : reread[p] # CodingJob!Unseen
        /\ UNCHANGED <<workspace, before, after, again, reread, status, candidate, writes, moments>>
    BY <1>2 DEF CodingJob!StartRecapture
  <2>2. CodingJob!TypeOK'
    BY <2>1 DEF CodingJob!TypeOK
  <2>3. CodingJob!ScanInv'
    BY <2>1 DEF CodingJob!ScanInv, CodingJob!Changed
  <2>4. CodingJob!CandidateInv'
    BY <2>1 DEF CodingJob!CandidateInv
  <2> QED BY <2>2, <2>3, <2>4
<1>3. ASSUME NEW p \in Paths, CodingJob!ScanAgain(p)
      PROVE  JobIInv'
  <2>1. /\ pc = "recapture" /\ again[p] = CodingJob!Unseen
        /\ again' = [again EXCEPT ![p] = workspace[p]]
        /\ UNCHANGED <<pc, workspace, before, after, reread, status, candidate, writes, moments>>
    BY <1>3 DEF CodingJob!ScanAgain
  <2>2. CodingJob!TypeOK'
    BY <2>1 DEF CodingJob!TypeOK
  <2>3. PICK w \in moments : \A q \in Paths :
            /\ CodingJob!Later(after[q], w[q]) /\ CodingJob!Later(w[q], workspace[q])
            /\ again[q] # CodingJob!Unseen => CodingJob!Later(w[q], again[q])
    BY <2>1 DEF CodingJob!ScanInv
  <2>4. \A q \in Paths : again'[q] = again[q] \/ (q = p /\ again'[q] = workspace[q])
    BY <2>1 DEF CodingJob!TypeOK
  <2>5. CodingJob!ScanInv'
    BY <2>1, <2>3, <2>4 DEF CodingJob!ScanInv, CodingJob!Changed
  <2>6. CodingJob!CandidateInv'
    BY <2>1 DEF CodingJob!CandidateInv
  <2> QED BY <2>2, <2>5, <2>6
<1> QED BY <1>1, <1>2, <1>3

LEMMA CandidateIsBuilt ==
  ASSUME JobIInv, CodingJob!Build
  PROVE  JobIInv'
<1> USE NodesAre DEF JobIInv, CodingJob!Goto
<1>1. /\ UNCHANGED <<workspace, before, after, again, reread, status, writes, moments>>
      /\ pc = "recapture" /\ pc' \in {"built", "raised"}
      /\ (pc' = "raised" => candidate' = candidate)
  BY DEF CodingJob!Build
<1>2. CASE pc' = "raised"
  <2>1. CodingJob!TypeOK'
    BY <1>1, <1>2 DEF CodingJob!TypeOK
  <2>2. CodingJob!ScanInv'
    BY <1>1, <1>2 DEF CodingJob!ScanInv
  <2>3. CodingJob!CandidateInv'
    BY <1>1, <1>2 DEF CodingJob!CandidateInv
  <2> QED BY <2>1, <2>2, <2>3
<1>3. CASE pc' = "built"
  <2>1. /\ candidate' = {[p \in CodingJob!Changed(before, after) |-> reread[p]]}
        /\ again = after /\ \A p \in Paths : again[p] # CodingJob!Unseen
    BY <1>3 DEF CodingJob!Build, CodingJob!Complete
  <2>2. PICK w \in moments : \A q \in Paths :
            /\ CodingJob!Later(after[q], w[q]) /\ CodingJob!Later(w[q], workspace[q])
            /\ again[q] # CodingJob!Unseen => CodingJob!Later(w[q], again[q])
    BY <1>1 DEF CodingJob!ScanInv
  <2>3. w \in [Paths -> CodingJob!Nodes] /\ after \in [Paths -> CodingJob!Nodes]
    BY DEF CodingJob!TypeOK
  <2>4. \A q \in Paths : w[q] = after[q]
    BY <2>1, <2>2, <2>3, LaterIsAntisymmetric
  <2>5. after \in moments
    BY <2>3, <2>4
  <2>6. candidate' = {[p \in CodingJob!Changed(before, after) |-> after[p]]}
    BY <1>1, <2>1 DEF CodingJob!ScanInv
  <2>7. CodingJob!TypeOK'
    <3>2. \A x, y \in candidate' : x = y
      BY <2>1
    <3> QED BY <1>1, <1>3, <3>2 DEF CodingJob!TypeOK
  <2>8. CodingJob!ScanInv'
    BY <1>1, <1>3 DEF CodingJob!ScanInv
  <2>9. CodingJob!CandidateInv'
    BY <1>1, <1>3, <2>5, <2>6 DEF CodingJob!CandidateInv, CodingJob!Changed
  <2> QED BY <2>7, <2>8, <2>9
<1> QED BY <1>1, <1>2, <1>3

LEMMA JobRaises ==
  ASSUME JobIInv, CodingJob!Raise \/ UNCHANGED CodingJob!vars
  PROVE  JobIInv'
<1>1. /\ UNCHANGED <<workspace, before, after, again, reread, status, candidate, writes, moments>>
      /\ pc' = pc \/ (pc' = "raised" /\ pc # "built")
  BY DEF CodingJob!Raise, CodingJob!vars, CodingJob!Goto
<1>2. CodingJob!TypeOK'
  BY <1>1 DEF JobIInv, CodingJob!TypeOK
<1>3. CodingJob!ScanInv'
  BY <1>1 DEF JobIInv, CodingJob!ScanInv
<1>4. CodingJob!CandidateInv'
  BY <1>1 DEF JobIInv, CodingJob!CandidateInv
<1> QED BY <1>2, <1>3, <1>4 DEF JobIInv

LEMMA JobStep ==
  ASSUME JobIInv, [CodingJob!Next]_(CodingJob!vars)
  PROVE  JobIInv'
BY JobStarts, WorkerMoves, LeftoversWrite, FirstScan, SecondScan, CandidateIsBuilt, JobRaises
   DEF CodingJob!Next

LEMMA JobResult ==
  ASSUME JobIInv
  PROVE  /\ CodingJob!CandidateIsAMoment /\ CodingJob!CandidateIsThePolicy
         /\ CodingJob!NoUnsafeJobReturns
<1> USE JobConstants DEF JobIInv
<1>1. ASSUME NEW files \in candidate
      PROVE  /\ files = [p \in CodingJob!Changed(before, after) |-> after[p]]
             /\ after \in moments /\ CodingJob!PolicyDiff(before, after, TRUE)
  BY <1>1 DEF CodingJob!CandidateInv
<1>2. CodingJob!CandidateIsAMoment
  <2> SUFFICES ASSUME NEW files \in candidate
               PROVE  \A p \in Paths :
                        after[p] = IF p \in DOMAIN files THEN files[p] ELSE before[p]
    BY <1>1 DEF CodingJob!CandidateIsAMoment
  <2> QED BY <1>1 DEF CodingJob!Changed
<1>3. CodingJob!CandidateIsThePolicy
  BY <1>1 DEF CodingJob!CandidateIsThePolicy, CodingJob!PolicyDiff, CodingJob!PolicyBefore
<1>4. CodingJob!NoUnsafeJobReturns
  BY DEF CodingJob!CandidateInv, CodingJob!NoUnsafeJobReturns, CodingJob!PolicyDiff
<1> QED BY <1>2, <1>3, <1>4

-----------------------------------------------------------------------------
(***************************************************************************)
(* Dispatchers over their queues (CodingDispatch).  A step is first summed *)
(* up: what it leaves of the other dispatchers, what it does to lifecycles,*)
(* and how it moves its own dispatcher.  The invariant follows from that.  *)
(***************************************************************************)
DispatchIInv ==
  /\ TypeOK /\ DispatchInv
  /\ OneExecution /\ WorkedMeansRunning /\ CompletedHasCandidate
  /\ EndedMeansRecorded /\ FirstFailureStops

DispatchStep(d) ==
  Step(d) \/ JournalFails(d) \/ CreateFails(d) \/ InstallFails(d) \/ Die(d)

LEMMA QueueFacts ==
  ASSUME NEW d \in Dispatchers
  PROVE  /\ Len(Queues[d]) \in Nat /\ DOMAIN Queues[d] = 1 .. Len(Queues[d])
         /\ 1 \in DOMAIN Queues[d]
         /\ \A i \in DOMAIN Queues[d] :
              Queues[d][i].job \in Jobs /\ Queues[d][i].session \in Sessions
         /\ \A i, k \in DOMAIN Queues[d] : i # k => Queues[d][i].job # Queues[d][k].job
<1>1. Queues[d] \in Seq([job : Jobs, session : Sessions]) /\ ValidQueue(Queues[d])
  BY QueuesAssumption
<1>2. Queues[d] # <<>>
  BY <1>1 DEF ValidQueue
<1>3. Len(Queues[d]) \in Nat /\ DOMAIN Queues[d] = 1 .. Len(Queues[d])
  BY <1>1, LenProperties
<1>4. Len(Queues[d]) # 0
  BY <1>1, <1>2, EmptySeq
<1>5. \A i \in DOMAIN Queues[d] : Queues[d][i] \in [job : Jobs, session : Sessions]
  BY <1>1, <1>3, ElementOfSeq
<1> QED BY <1>1, <1>3, <1>4, <1>5 DEF ValidQueue

LEMMA ItemFacts ==
  ASSUME NEW d \in Dispatchers, item[d] \in DOMAIN Queues[d]
  PROVE  Job(d) \in Jobs /\ Session(d) \in Ids /\ Job(d) \in Ids /\ Job(d) # NoId
BY QueueFacts, JobsAssumption, IdsAssumption DEF Job, Session

\* What an append that is due does to the lifecycle of its job.
LEMMA AppendedLifecycle ==
  ASSUME TypeOK, NEW d \in Dispatchers, AtItem(d), Appending(d), AppendDue(d)
  PROVE  \E s \in Lifecycles :
           /\ chain' = [chain EXCEPT ![Job(d)] = Append(@, s)]
           /\ s.state = Due(d)[1]
           /\ s.state \in AllowedStates[Last(Job(d)).state]
           /\ pc[d] = "installed" =>
                \A f \in Success \cup WorkerEvidence : s.evidence[f] = Job(d)
<1> DEFINE j == Job(d)
           supplied == SuppliedEvidence(d, Due(d)[2])
           s == Successor(Last(j), Due(d)[1], supplied)
<1>1. j \in Jobs /\ Session(d) \in Ids /\ j \in Ids /\ j # NoId
  BY ItemFacts DEF AtItem
<1>2. /\ chain[j] # <<>> /\ MayAdvance(Last(j), Due(d)[1], supplied)
      /\ chain' = [chain EXCEPT ![j] = Append(@, s)]
  BY DEF AppendDue
<1>3. chain[j] \in Seq(Lifecycles)
  BY <1>1 DEF TypeOK
<1>4. Last(j) \in Lifecycles
  BY <1>2, <1>3 DEF Last
<1>5. Due(d)[1] \in States
  BY DEF Due, States
<1>6. supplied \in Evidence
  BY <1>1 DEF SuppliedEvidence, Evidence
<1>7. Advance(Last(j).evidence, supplied) \in Evidence
  BY <1>4, <1>6 DEF Advance, Evidence, Lifecycles
<1>8. s \in Lifecycles /\ s.state = Due(d)[1]
  BY <1>5, <1>7 DEF Successor, Lifecycles
<1>9. ASSUME pc[d] = "installed", NEW f \in Success \cup WorkerEvidence
      PROVE  s.evidence[f] = j
  <2>1. Due(d)[2] = WorkerEvidence \cup Success
    BY <1>9 DEF Due
  <2>2. f \in Fields /\ f # "session_id"
    BY DEF Fields, Success, WorkerEvidence
  <2>3. supplied[f] = j
    BY <1>9, <2>1, <2>2 DEF SuppliedEvidence
  <2>4. Advance(Last(j).evidence, supplied)[f] = j
    BY <1>1, <2>2, <2>3 DEF Advance
  <2> QED BY <2>4 DEF Successor
<1> HIDE DEF s, supplied
<1>10. Due(d)[1] \in AllowedStates[Last(j).state]
  BY <1>2 DEF MayAdvance
<1> QED BY <1>2, <1>8, <1>9, <1>10

-----------------------------------------------------------------------------
\* The other dispatchers are where they were, what is in a store stays, and
\* only this item's job can be closed, executed or recorded.
Frame(d) ==
  /\ \A e \in Dispatchers \ {d} :
       item'[e] = item[e] /\ pc'[e] = pc[e] /\ results'[e] = results[e]
  /\ store \subseteq store' /\ hindered \subseteq hindered'
  /\ closed' \subseteq closed \cup {Job(d)}
  /\ \A j \in Jobs \ {Job(d)} : chain'[j] = chain[j] /\ worked'[j] = worked[j]

ChainKept(d) == chain' = chain
ChainCreated(d) ==
  /\ pc[d] = "made" /\ chain' = [chain EXCEPT ![Job(d)] = <<RequestedLifecycle>>]
ChainGrown(d) == Appending(d) /\ AppendDue(d)

\* What happens to the directory another dispatcher has half made: nothing.
MakingKept(d) ==
  \A j \in Jobs : \A e \in Dispatchers \ {d} : making[j] = {e} => making'[j] = {e}

WorkedMoves(d) ==
  \/ worked' = worked
  \/ pc[d] = "work" /\ chain' = chain /\ worked' = [worked EXCEPT ![Job(d)] = @ + 1]

\* How the item and its results move.
ItemKept(d) == item'[d] = item[d] /\ results'[d] = results[d] /\ pc'[d] \notin {"create", "done"}
ItemReturned(d) ==
  /\ pc[d] = "return" /\ chain' = chain /\ worked' = worked /\ closed' = closed
  /\ results'[d] = Append(results[d], Job(d))
  /\ \/ item[d] < Len(Queues[d]) /\ item'[d] = item[d] + 1 /\ pc'[d] = "create"
     \/ item'[d] = item[d] /\ pc'[d] = "done"

\* Where the dispatcher is afterwards, and what took it there.
PcMoves(d) ==
  /\ pc[d] \notin {"done", "stopped", "dead"}
  /\ pc'[d] = "made" =>
       /\ pc[d] = "create" /\ ~RootBlocked(d) /\ chain[Job(d)] = <<>> /\ chain' = chain
       /\ making'[Job(d)] = {d}
  /\ pc'[d] = "start" => ChainCreated(d)
  /\ pc'[d] = "work" => pc[d] = "start" /\ ChainGrown(d)
  /\ pc'[d] = "judge" => pc[d] = "work" /\ chain' = chain
  /\ pc'[d] \in {"install", "installed", "unfinished"} =>
       pc[d] \in {"judge", "install"} /\ chain' = chain
  /\ pc'[d] = "installed" => Job(d) \in store'
  /\ pc'[d] = "return" => pc[d] = "installed" /\ ChainGrown(d)
  /\ pc'[d] = "stopped" =>
       \/ Job(d) \in hindered'
       \/ pc[d] = "create" /\ (chain[Job(d)] # <<>> \/ Job(d) \in closed)
       \/ /\ ChainGrown(d) /\ pc[d] \in {"judge", "unfinished"}
          /\ pc[d] = "judge" => report[d] # "COMPLETED"

Summary(d) ==
  /\ Frame(d)
  /\ ChainKept(d) \/ ChainCreated(d) \/ ChainGrown(d)
  /\ MakingKept(d) /\ WorkedMoves(d)
  /\ ItemKept(d) \/ ItemReturned(d)
  /\ PcMoves(d)

LEMMA AppendFrame ==
  ASSUME TypeOK, NEW d \in Dispatchers, AtItem(d), Appending(d), AppendDue(d)
  PROVE  \A j \in Jobs \ {Job(d)} : chain'[j] = chain[j]
BY AppendedLifecycle, ItemFacts DEF AtItem, TypeOK

LEMMA CreationSummary ==
  ASSUME TypeOK, NEW d \in Dispatchers, AtItem(d),
         StartCreate(d) \/ RefuseCreate(d) \/ FinishCreate(d) \/ CreateFails(d)
  PROVE  Summary(d)
<1> USE DEF TypeOK, Goto, Stop, StopHindered, stores
<1>0. Job(d) \in Jobs
  BY ItemFacts DEF AtItem
<1>1. CASE StartCreate(d)
  <2>1. \A j \in Jobs : \A e \in Dispatchers \ {d} : making[j] = {e} => j # Job(d)
    BY <1>1 DEF StartCreate, RootBlocked
  <2>2. MakingKept(d)
    BY <1>0, <1>1, <2>1 DEF StartCreate, MakingKept
  <2>3. PcMoves(d)
    BY <1>0, <1>1 DEF StartCreate, PcMoves
  <2> QED BY <1>0, <1>1, <2>2, <2>3
         DEF StartCreate, Summary, Frame, ChainKept, WorkedMoves, ItemKept
<1>2. CASE RefuseCreate(d)
  <2>1. PcMoves(d)
    BY <1>0, <1>2 DEF RefuseCreate, PcMoves
  <2> QED BY <1>0, <1>2, <2>1
         DEF RefuseCreate, Summary, Frame, ChainKept, WorkedMoves, ItemKept, MakingKept
<1>3. CASE FinishCreate(d)
  <2>1. making[Job(d)] = {d}
    BY <1>3 DEF FinishCreate, AtItem
  <2>2. MakingKept(d)
    BY <1>0, <1>3, <2>1 DEF FinishCreate, MakingKept
  <2>3. PcMoves(d)
    BY <1>0, <1>3 DEF FinishCreate, PcMoves, ChainCreated
  <2>4. ChainCreated(d)
    BY <1>3 DEF FinishCreate, ChainCreated
  <2> QED BY <1>0, <1>3, <2>2, <2>3, <2>4
         DEF FinishCreate, Summary, Frame, WorkedMoves, ItemKept
<1>4. CASE CreateFails(d)
  <2>1. making[Job(d)] = {d}
    BY <1>4 DEF CreateFails, AtItem
  <2>2. MakingKept(d)
    BY <1>0, <1>4, <2>1 DEF CreateFails, MakingKept
  <2>3. PcMoves(d)
    BY <1>0, <1>4 DEF CreateFails, PcMoves
  <2>4. closed' \subseteq closed \cup {Job(d)}
    BY <1>4 DEF CreateFails
  <2> QED BY <1>0, <1>4, <2>2, <2>3, <2>4
         DEF CreateFails, Summary, Frame, ChainKept, WorkedMoves, ItemKept
<1> QED BY <1>1, <1>2, <1>3, <1>4

LEMMA AppendSummary ==
  ASSUME TypeOK, NEW d \in Dispatchers, AtItem(d),
         \/ AppendRunning(d) \/ AppendUnsuccessful(d) \/ AppendUnfinished(d)
         \/ AppendCompleted(d)
  PROVE  Summary(d)
<1> USE DEF TypeOK, Goto, Stop
<1>0. Job(d) \in Jobs
  BY ItemFacts DEF AtItem
<1>1. ChainGrown(d)
  BY DEF AppendRunning, AppendUnsuccessful, AppendUnfinished, AppendCompleted, ChainGrown,
         Appending
<1>2. \A j \in Jobs \ {Job(d)} : chain'[j] = chain[j]
  BY <1>1, AppendFrame DEF ChainGrown
<1>3. UNCHANGED <<closed, making, store, installing>>
  BY <1>1 DEF ChainGrown, AppendDue
<1>4. /\ UNCHANGED <<item, report, results, worked, hindered, faults>>
      /\ \/ pc[d] = "start" /\ pc' = [pc EXCEPT ![d] = "work"]
         \/ pc[d] = "judge" /\ report[d] # "COMPLETED" /\ pc' = [pc EXCEPT ![d] = "stopped"]
         \/ pc[d] = "unfinished" /\ pc' = [pc EXCEPT ![d] = "stopped"]
         \/ pc[d] = "installed" /\ pc' = [pc EXCEPT ![d] = "return"]
  BY DEF AppendRunning, AppendUnsuccessful, AppendUnfinished, AppendCompleted
<1>5. PcMoves(d)
  BY <1>1, <1>4 DEF PcMoves
<1> QED BY <1>1, <1>2, <1>3, <1>4, <1>5
       DEF Summary, Frame, WorkedMoves, ItemKept, MakingKept

LEMMA WorkSummary ==
  ASSUME TypeOK, NEW d \in Dispatchers, AtItem(d),
         \/ RunCodingJob(d) \/ StartInstall(d) \/ FinishInstall(d) \/ RefuseCandidate(d)
         \/ InstallFails(d)
  PROVE  Summary(d)
<1> USE DEF TypeOK, Goto, stores
<1>0. Job(d) \in Jobs
  BY ItemFacts DEF AtItem
<1>1. /\ UNCHANGED <<item, chain, closed, making, results, hindered>>
      /\ store \subseteq store'
  BY DEF RunCodingJob, StartInstall, FinishInstall, RefuseCandidate, InstallFails
<1>2. \/ pc[d] = "work" /\ pc' = [pc EXCEPT ![d] = "judge"]
      \/ pc[d] = "judge" /\ pc' = [pc EXCEPT ![d] = "install"]
      \/ pc[d] = "install" /\ pc' = [pc EXCEPT ![d] = "installed"] /\ Job(d) \in store'
      \/ pc[d] = "judge" /\ pc' = [pc EXCEPT ![d] = "unfinished"]
      \/ pc[d] = "install" /\ pc' = [pc EXCEPT ![d] = "unfinished"]
  BY DEF RunCodingJob, StartInstall, FinishInstall, RefuseCandidate, InstallFails
<1>3. WorkedMoves(d)
  BY <1>1 DEF RunCodingJob, StartInstall, FinishInstall, RefuseCandidate, InstallFails,
              WorkedMoves
<1>4. \A j \in Jobs \ {Job(d)} : worked'[j] = worked[j]
  BY <1>0, <1>3 DEF WorkedMoves
<1>5. PcMoves(d)
  BY <1>1, <1>2 DEF PcMoves
<1>6. Frame(d)
  BY <1>1, <1>2, <1>4 DEF Frame
<1> QED BY <1>1, <1>2, <1>3, <1>5, <1>6 DEF Summary, ChainKept, ItemKept, MakingKept

LEMMA ReturnSummary ==
  ASSUME TypeOK, NEW d \in Dispatchers, AtItem(d), Return(d)
  PROVE  Summary(d)
<1> USE DEF TypeOK, Goto, stores
<1>1. /\ UNCHANGED <<chain, closed, making, store, worked, hindered>> /\ pc[d] = "return"
      /\ results' = [results EXCEPT ![d] = Append(@, Job(d))]
  BY DEF Return
<1>2. \/ /\ item[d] < Len(Queues[d]) /\ item' = [item EXCEPT ![d] = @ + 1]
         /\ pc' = [pc EXCEPT ![d] = "create"]
      \/ item' = item /\ pc' = [pc EXCEPT ![d] = "done"]
  BY DEF Return
<1>3. ItemReturned(d)
  BY <1>1, <1>2 DEF ItemReturned
<1>4. PcMoves(d)
  BY <1>1, <1>2 DEF PcMoves
<1>5. Frame(d)
  BY <1>1, <1>2 DEF Frame
<1> QED BY <1>1, <1>3, <1>4, <1>5 DEF Summary, ChainKept, WorkedMoves, MakingKept

LEMMA FailureSummary ==
  ASSUME TypeOK, NEW d \in Dispatchers, AtItem(d),
         RefusedByNeighbour(d) \/ JournalFails(d) \/ Die(d)
  PROVE  Summary(d)
<1> USE DEF TypeOK
<1>0. Job(d) \in Jobs
  BY ItemFacts DEF AtItem
<1>1. CASE RefusedByNeighbour(d)
  <2>1. /\ UNCHANGED <<item, chain, closed, making, store, results, worked>>
        /\ hindered' = hindered \cup {Job(d)} /\ pc' = [pc EXCEPT ![d] = "stopped"]
        /\ pc[d] \in {"create", "start", "unfinished", "installed", "judge"}
    BY <1>1 DEF RefusedByNeighbour, StopHindered, Stop, Goto, stores, Appending
  <2>2. PcMoves(d)
    BY <2>1 DEF PcMoves
  <2> QED BY <2>1, <2>2 DEF Summary, Frame, ChainKept, WorkedMoves, ItemKept, MakingKept
<1>2. CASE JournalFails(d)
  <2>1. /\ UNCHANGED <<item, making, store, results, worked>> /\ Appending(d)
        /\ hindered' = hindered \cup {Job(d)} /\ pc' = [pc EXCEPT ![d] = "stopped"]
        /\ pc[d] \in {"start", "unfinished", "installed", "judge"}
    BY <1>2 DEF JournalFails, StopHindered, Stop, Goto, stores, Appending, AppendDue
  <2>2. PcMoves(d)
    BY <2>1 DEF PcMoves
  <2>3. \/ chain' = chain /\ closed' \subseteq closed \cup {Job(d)}
        \/ AppendDue(d) /\ closed' = closed
    BY <1>2 DEF JournalFails, stores, AppendDue
  <2>4. \A j \in Jobs \ {Job(d)} : chain'[j] = chain[j]
    BY <2>1, <2>3, AppendFrame
  <2>5. ChainKept(d) \/ ChainGrown(d)
    BY <2>1, <2>3 DEF ChainKept, ChainGrown
  <2> QED BY <2>1, <2>2, <2>3, <2>4, <2>5
         DEF Summary, Frame, WorkedMoves, ItemKept, MakingKept
<1>3. CASE Die(d)
  <2>1. /\ UNCHANGED <<item, chain, closed, store, results, worked>>
        /\ hindered' = hindered \cup {Job(d)} /\ pc' = [pc EXCEPT ![d] = "dead"]
        /\ making' = [j \in Jobs |-> IF d \in making[j] THEN {"dead"} ELSE making[j]]
        /\ pc[d] \notin {"done", "stopped", "dead"}
    BY <1>3 DEF Die, Goto
  <2>2. PcMoves(d)
    BY <2>1 DEF PcMoves
  <2>3. MakingKept(d)
    BY <2>1 DEF MakingKept
  <2> QED BY <2>1, <2>2, <2>3 DEF Summary, Frame, ChainKept, WorkedMoves, ItemKept
<1> QED BY <1>1, <1>2, <1>3

LEMMA StepSummary ==
  ASSUME TypeOK, NEW d \in Dispatchers, AtItem(d), DispatchStep(d)
  PROVE  Summary(d)
BY CreationSummary, AppendSummary, WorkSummary, ReturnSummary, FailureSummary
   DEF DispatchStep, Step
-----------------------------------------------------------------------------
\* A lifecycle that is grown is one record longer and otherwise what it was.
LEMMA GrownLifecycle ==
  ASSUME TypeOK, NEW d \in Dispatchers, AtItem(d), ChainGrown(d), NEW j \in Jobs, j = Job(d)
  PROVE  /\ chain'[j] \in Seq(Lifecycles)
         /\ Len(chain[j]) \in 1 .. 2 /\ Len(chain'[j]) = Len(chain[j]) + 1
         /\ \A i \in 1 .. Len(chain[j]) : chain'[j][i] = chain[j][i]
         /\ Last(j).state \in {"REQUESTED", "RUNNING"}
         /\ (Last(j).state = "REQUESTED" => pc[d] = "start" /\ Len(chain[j]) = 1)
         /\ (Last(j).state = "RUNNING" => pc[d] # "start" /\ Len(chain[j]) = 2)
         /\ chain'[j][Len(chain'[j])].state = Due(d)[1]
         /\ (pc[d] = "installed" => \A f \in Success \cup WorkerEvidence :
               chain'[j][Len(chain'[j])].evidence[f] = j)
<1>1. PICK s \in Lifecycles :
        /\ chain' = [chain EXCEPT ![j] = Append(@, s)]
        /\ s.state = Due(d)[1]
        /\ pc[d] = "installed" => \A f \in Success \cup WorkerEvidence : s.evidence[f] = j
  BY AppendedLifecycle DEF ChainGrown
<1>2. chain[j] \in Seq(Lifecycles) /\ chain'[j] = Append(chain[j], s)
  BY <1>1 DEF TypeOK
<1>3. /\ chain'[j] \in Seq(Lifecycles) /\ Len(chain'[j]) = Len(chain[j]) + 1
      /\ \A i \in 1 .. Len(chain[j]) : chain'[j][i] = chain[j][i]
      /\ chain'[j][Len(chain[j]) + 1] = s
  BY <1>2
<1>4. chain'[j][Len(chain'[j])] = s
  BY <1>3
<1>5. CASE pc[d] = "start"
  <2>1. chain[j] = <<RequestedLifecycle>>
    BY <1>5 DEF AtItem
  <2>2. Len(chain[j]) = 1 /\ Last(j).state = "REQUESTED"
    BY <2>1 DEF Last, RequestedLifecycle
  <2> QED BY <1>1, <1>3, <1>4, <1>5, <2>2
<1>6. CASE pc[d] # "start"
  <2>1. Len(chain[j]) = 2 /\ Last(j).state = "RUNNING"
    BY <1>6 DEF AtItem, RunningPCs, ChainGrown, Appending
  <2> QED BY <1>1, <1>3, <1>4, <1>6, <2>1
<1> QED BY <1>5, <1>6

ChainMoves(d) == ChainKept(d) \/ ChainCreated(d) \/ ChainGrown(d)

\* What is recorded stays recorded, and a terminal state is for good.
LEMMA RecordedStays ==
  ASSUME TypeOK, NEW d \in Dispatchers, AtItem(d), Frame(d), ChainMoves(d),
         NEW j \in Jobs, chain[j] # <<>>
  PROVE  /\ chain'[j] # <<>> /\ Len(chain'[j]) >= Len(chain[j])
         /\ \A i \in 1 .. Len(chain[j]) : chain'[j][i] = chain[j][i]
         /\ Last(j).state \in TerminalStates => chain'[j] = chain[j]
<1>0. chain[j] \in Seq(Lifecycles) /\ Len(chain[j]) \in Nat
  BY DEF TypeOK
<1>1. CASE chain'[j] = chain[j]
  BY <1>0, <1>1
<1>2. CASE chain'[j] # chain[j]
  <2>1. j = Job(d)
    BY <1>2 DEF Frame
  <2>2. ~ChainCreated(d)
    BY <2>1 DEF ChainCreated, AtItem
  <2>3. ChainGrown(d)
    BY <1>2, <2>2 DEF ChainMoves, ChainKept
  <2>4. chain'[j] \in Seq(Lifecycles) /\ Len(chain'[j]) = Len(chain[j]) + 1
    BY <2>1, <2>3, GrownLifecycle
  <2>5. chain'[j] # <<>>
    BY <1>0, <2>4, EmptySeq
  <2>6. Last(j).state \notin TerminalStates
    BY <2>1, <2>3, GrownLifecycle DEF TerminalStates
  <2> QED BY <1>0, <2>1, <2>3, <2>4, <2>5, <2>6, GrownLifecycle
<1> QED BY <1>1, <1>2

LEMMA ChainTyped ==
  ASSUME TypeOK, NEW d \in Dispatchers, AtItem(d), Frame(d), ChainMoves(d)
  PROVE  chain' \in [Jobs -> Seq(Lifecycles)]
<1>1. CASE ChainKept(d)
  BY <1>1 DEF ChainKept, TypeOK
<1>2. CASE ChainCreated(d)
  <2>1. RequestedLifecycle \in Lifecycles
    BY DEF RequestedLifecycle, Lifecycles, States, Evidence, NoEvidence
  <2>2. <<RequestedLifecycle>> \in Seq(Lifecycles)
    BY <2>1
  <2> QED BY <1>2, <2>2 DEF ChainCreated, TypeOK
<1>3. CASE ChainGrown(d)
  <2>1. PICK s \in Lifecycles : chain' = [chain EXCEPT ![Job(d)] = Append(@, s)]
    BY <1>3, AppendedLifecycle DEF ChainGrown
  <2>2. \A j \in Jobs : Append(chain[j], s) \in Seq(Lifecycles)
    BY DEF TypeOK
  <2> QED BY <2>1, <2>2 DEF TypeOK
<1> QED BY <1>1, <1>2, <1>3 DEF ChainMoves

PCs ==
  {"create", "made", "start", "work", "judge", "install", "installed",
   "unfinished", "return", "done", "stopped", "dead"}

LEMMA TypeKept ==
  ASSUME TypeOK, NEW d \in Dispatchers, AtItem(d), DispatchStep(d)
  PROVE  TypeOK'
<1> USE DEF stores
<1>0. Job(d) \in Jobs
  BY ItemFacts DEF AtItem
<1>1. chain' \in [Jobs -> Seq(Lifecycles)]
  BY StepSummary, ChainTyped DEF Summary, ChainMoves
<1>2. pc' \in [Dispatchers -> PCs]
  <2>1. \E p \in PCs : pc' = [pc EXCEPT ![d] = p]
    BY DEF DispatchStep, Step, StartCreate, RefuseCreate, FinishCreate, AppendRunning,
           RunCodingJob, AppendUnsuccessful, StartInstall, FinishInstall, RefuseCandidate,
           AppendUnfinished, AppendCompleted, Return, RefusedByNeighbour, JournalFails,
           CreateFails, InstallFails, Die, StopHindered, Stop, Goto, PCs
  <2> QED BY <2>1 DEF TypeOK, PCs
<1>3. item' \in [Dispatchers -> Nat]
  <2>1. item' = item \/ item' = [item EXCEPT ![d] = @ + 1]
    BY DEF DispatchStep, Step, StartCreate, RefuseCreate, FinishCreate, AppendRunning,
           RunCodingJob, AppendUnsuccessful, StartInstall, FinishInstall, RefuseCandidate,
           AppendUnfinished, AppendCompleted, Return, RefusedByNeighbour, JournalFails,
           CreateFails, InstallFails, Die, StopHindered
  <2>2. item \in [Dispatchers -> Nat] /\ item[d] + 1 \in Nat
    BY DEF TypeOK
  <2> QED BY <2>1, <2>2
<1>4. closed' \subseteq Jobs
  BY <1>0, StepSummary DEF Summary, Frame, TypeOK
<1>5. store' \subseteq Jobs
  <2>1. store' \subseteq store \cup {Job(d)}
    BY DEF DispatchStep, Step, StartCreate, RefuseCreate, FinishCreate, AppendRunning,
           RunCodingJob, AppendUnsuccessful, StartInstall, FinishInstall, RefuseCandidate,
           AppendUnfinished, AppendCompleted, Return, RefusedByNeighbour, JournalFails,
           CreateFails, InstallFails, Die, AppendDue
  <2> QED BY <1>0, <2>1 DEF TypeOK
<1>6. hindered' \subseteq Jobs
  <2>1. hindered' \subseteq hindered \cup {Job(d)}
    BY DEF DispatchStep, Step, StartCreate, RefuseCreate, FinishCreate, AppendRunning,
           RunCodingJob, AppendUnsuccessful, StartInstall, FinishInstall, RefuseCandidate,
           AppendUnfinished, AppendCompleted, Return, RefusedByNeighbour, JournalFails,
           CreateFails, InstallFails, Die, StopHindered
  <2> QED BY <1>0, <2>1 DEF TypeOK
<1>7. making' \in [Jobs -> SUBSET (Dispatchers \cup {"dead"})]
  <2>1. \/ making' = making
        \/ \E by \in {{}, {d}, {"dead"}} : making' = [making EXCEPT ![Job(d)] = by]
        \/ making' = [j \in Jobs |-> IF d \in making[j] THEN {"dead"} ELSE making[j]]
    BY DEF DispatchStep, Step, StartCreate, RefuseCreate, FinishCreate, AppendRunning,
           RunCodingJob, AppendUnsuccessful, StartInstall, FinishInstall, RefuseCandidate,
           AppendUnfinished, AppendCompleted, Return, RefusedByNeighbour, JournalFails,
           CreateFails, InstallFails, Die, AppendDue
  <2>2. making \in [Jobs -> SUBSET (Dispatchers \cup {"dead"})]
    BY DEF TypeOK
  <2>3. ASSUME NEW by \in {{}, {d}, {"dead"}}
        PROVE  [making EXCEPT ![Job(d)] = by] \in [Jobs -> SUBSET (Dispatchers \cup {"dead"})]
    BY <2>2
  <2>4. [j \in Jobs |-> IF d \in making[j] THEN {"dead"} ELSE making[j]]
          \in [Jobs -> SUBSET (Dispatchers \cup {"dead"})]
    BY <2>2
  <2> QED BY <2>1, <2>2, <2>3, <2>4
<1>8. installing' \in [Jobs -> SUBSET (Dispatchers \cup {"dead"})]
  <2>1. \/ installing' = installing
        \/ \E by \in {{}, {d}, {"dead"}} : installing' = [installing EXCEPT ![Job(d)] = by]
        \/ installing' =
             [j \in Jobs |-> IF d \in installing[j] THEN {"dead"} ELSE installing[j]]
    BY DEF DispatchStep, Step, StartCreate, RefuseCreate, FinishCreate, AppendRunning,
           RunCodingJob, AppendUnsuccessful, StartInstall, FinishInstall, RefuseCandidate,
           AppendUnfinished, AppendCompleted, Return, RefusedByNeighbour, JournalFails,
           CreateFails, InstallFails, Die, AppendDue
  <2>2. installing \in [Jobs -> SUBSET (Dispatchers \cup {"dead"})]
    BY DEF TypeOK
  <2>3. ASSUME NEW by \in {{}, {d}, {"dead"}}
        PROVE  [installing EXCEPT ![Job(d)] = by] \in [Jobs -> SUBSET (Dispatchers \cup {"dead"})]
    BY <2>2
  <2>4. [j \in Jobs |-> IF d \in installing[j] THEN {"dead"} ELSE installing[j]]
          \in [Jobs -> SUBSET (Dispatchers \cup {"dead"})]
    BY <2>2
  <2> QED BY <2>1, <2>2, <2>3, <2>4
<1>9. report' \in [Dispatchers -> Reports \cup {"none", "raised"}]
  <2>1. report' = report \/ \E r \in Reports \cup {"raised"} : report' = [report EXCEPT ![d] = r]
    BY DEF DispatchStep, Step, StartCreate, RefuseCreate, FinishCreate, AppendRunning,
           RunCodingJob, AppendUnsuccessful, StartInstall, FinishInstall, RefuseCandidate,
           AppendUnfinished, AppendCompleted, Return, RefusedByNeighbour, JournalFails,
           CreateFails, InstallFails, Die
  <2>2. report \in [Dispatchers -> Reports \cup {"none", "raised"}]
    BY DEF TypeOK
  <2>3. ASSUME NEW r \in Reports \cup {"raised"}
        PROVE  [report EXCEPT ![d] = r] \in [Dispatchers -> Reports \cup {"none", "raised"}]
    BY <2>2
  <2> QED BY <2>1, <2>2, <2>3
<1>10. results' \in [Dispatchers -> Seq(Jobs)]
  <2>1. results' = results \/ results' = [results EXCEPT ![d] = Append(@, Job(d))]
    BY DEF DispatchStep, Step, StartCreate, RefuseCreate, FinishCreate, AppendRunning,
           RunCodingJob, AppendUnsuccessful, StartInstall, FinishInstall, RefuseCandidate,
           AppendUnfinished, AppendCompleted, Return, RefusedByNeighbour, JournalFails,
           CreateFails, InstallFails, Die
  <2>2. Append(results[d], Job(d)) \in Seq(Jobs)
    BY <1>0 DEF TypeOK
  <2> QED BY <2>1, <2>2 DEF TypeOK
<1>11. worked' \in [Jobs -> Nat]
  <2>1. worked' = worked \/ worked' = [worked EXCEPT ![Job(d)] = @ + 1]
    BY StepSummary DEF Summary, WorkedMoves
  <2>2. worked \in [Jobs -> Nat] /\ worked[Job(d)] + 1 \in Nat
    BY <1>0 DEF TypeOK
  <2> QED BY <2>1, <2>2
<1>12. faults' \in 0 .. MaxFaults
  <2>1. faults' = faults \/ (faults < MaxFaults /\ faults' = faults + 1)
    BY DEF DispatchStep, Step, StartCreate, RefuseCreate, FinishCreate, AppendRunning,
           RunCodingJob, AppendUnsuccessful, StartInstall, FinishInstall, RefuseCandidate,
           AppendUnfinished, AppendCompleted, Return, RefusedByNeighbour, JournalFails,
           CreateFails, InstallFails, Die
  <2> QED BY <2>1, FaultsAssumption DEF TypeOK
<1> QED BY <1>1, <1>2, <1>3, <1>4, <1>5, <1>6, <1>7, <1>8, <1>9, <1>10, <1>11, <1>12
       DEF TypeOK, PCs

-----------------------------------------------------------------------------
\* Where this dispatcher is tells how far its lifecycle is.
LEMMA OwnItemKept ==
  ASSUME TypeOK, WorkedMeansRunning, CompletedHasCandidate, NEW d \in Dispatchers,
         AtItem(d), Summary(d), TypeOK'
  PROVE  AtItem(d)'
<1>0. Job(d) \in Jobs /\ item[d] \in 1 .. Len(Queues[d]) /\ Len(Queues[d]) \in Nat
  BY ItemFacts, QueueFacts DEF AtItem
<1>1. CASE ItemReturned(d)
  <2>1. CASE item'[d] = item[d] + 1 /\ item[d] < Len(Queues[d]) /\ pc'[d] = "create"
    <3>1. item'[d] \in DOMAIN Queues[d]
      BY <1>0, <2>1, QueueFacts
    <3> QED BY <2>1, <3>1 DEF AtItem, RunningPCs
  <2>2. CASE item'[d] = item[d] /\ pc'[d] = "done"
    <3>1. chain[Job(d)] # <<>> /\ Last(Job(d)).state = "COMPLETED"
      BY <1>1 DEF AtItem, ItemReturned
    <3> QED BY <1>1, <2>2, <3>1 DEF AtItem, RunningPCs, ItemReturned, Job, Last
  <2> QED BY <1>1, <2>1, <2>2 DEF ItemReturned
<1>2. CASE ItemKept(d)
  <2> DEFINE j == Job(d)
  <2>0. item'[d] = item[d] /\ item'[d] \in DOMAIN Queues[d] /\ Job(d)' = j /\ j \in Jobs
    BY <1>0, <1>2 DEF ItemKept, AtItem, Job
  <2>1. pc'[d] = "made" => making'[j] = {d} /\ chain'[j] = <<>>
    BY DEF Summary, PcMoves
  <2>2. pc'[d] = "start" => chain'[j] = <<RequestedLifecycle>>
    BY <2>0 DEF Summary, PcMoves, ChainCreated, TypeOK
  <2>3. pc'[d] = "work" =>
          Len(chain'[j]) = 2 /\ chain'[j][2].state = "RUNNING" /\ worked'[j] = 0
    <3> SUFFICES ASSUME pc'[d] = "work"
                 PROVE  Len(chain'[j]) = 2 /\ chain'[j][2].state = "RUNNING" /\ worked'[j] = 0
      OBVIOUS
    <3>1. pc[d] = "start" /\ ChainGrown(d)
      BY DEF Summary, PcMoves
    <3>2. chain[j] = <<RequestedLifecycle>>
      BY <3>1 DEF AtItem
    <3>3. Len(chain[j]) = 1
      BY <3>2
    <3>4. worked[j] = 0
      <4>1. worked[j] \in Nat
        BY <2>0 DEF TypeOK
      <4>2. ~(worked[j] > 0)
        BY <2>0, <3>3 DEF WorkedMeansRunning
      <4> QED BY <4>1, <4>2
    <3>5. worked' = worked
      BY <3>1 DEF Summary, WorkedMoves
    <3>6. Len(chain'[j]) = 2 /\ chain'[j][2].state = Due(d)[1]
      <4>1. /\ Len(chain'[j]) = Len(chain[j]) + 1
            /\ chain'[j][Len(chain'[j])].state = Due(d)[1]
        BY <2>0, <3>1, GrownLifecycle
      <4> QED BY <3>3, <4>1
    <3> QED BY <3>1, <3>4, <3>5, <3>6 DEF Due
  <2>4. pc'[d] \in RunningPCs \ {"work"} =>
          Len(chain'[j]) = 2 /\ chain'[j][Len(chain'[j])].state = "RUNNING"
    <3> SUFFICES ASSUME pc'[d] \in RunningPCs \ {"work"}
                 PROVE  Len(chain'[j]) = 2 /\ chain'[j][Len(chain'[j])].state = "RUNNING"
      OBVIOUS
    <3>1. pc[d] \in RunningPCs /\ chain' = chain
      BY DEF Summary, PcMoves, RunningPCs
    <3> QED BY <3>1 DEF AtItem, Last
  <2>5. pc'[d] = "installed" => j \in store'
    BY DEF Summary, PcMoves
  <2>6. pc'[d] = "return" => chain'[j] # <<>> /\ chain'[j][Len(chain'[j])].state = "COMPLETED"
    <3> SUFFICES ASSUME pc'[d] = "return"
                 PROVE  chain'[j] # <<>> /\ chain'[j][Len(chain'[j])].state = "COMPLETED"
      OBVIOUS
    <3>1. pc[d] = "installed" /\ ChainGrown(d)
      BY DEF Summary, PcMoves
    <3>2. chain'[j][Len(chain'[j])].state = Due(d)[1] /\ Len(chain'[j]) # 0
      BY <2>0, <3>1, GrownLifecycle
    <3>3. Len(<<>>) = 0
      BY EmptySeq
    <3> QED BY <3>1, <3>2, <3>3 DEF Due
  <2>7. pc'[d] # "done"
    BY <1>2 DEF ItemKept
  <2> HIDE DEF j
  <2> QED BY <2>0, <2>1, <2>2, <2>3, <2>4, <2>5, <2>6, <2>7 DEF AtItem, Last
<1> QED BY <1>1, <1>2 DEF Summary

\* No step of another dispatcher reaches the lifecycle of this item.
LEMMA OtherItemKept ==
  ASSUME TypeOK, DispatchInv, NEW d \in Dispatchers, Summary(d),
         NEW e \in Dispatchers, e # d
  PROVE  AtItem(e)'
<1>0. AtItem(d) /\ AtItem(e) /\ Job(d) \in Jobs /\ Job(e) \in Jobs
  BY ItemFacts DEF DispatchInv, AtItem
<1>1. item'[e] = item[e] /\ pc'[e] = pc[e] /\ Job(e)' = Job(e) /\ store \subseteq store'
  BY DEF Summary, Frame, Job
<1>2. CASE pc[e] \in {"return", "done"}
  <2>1. chain[Job(e)] # <<>> /\ Last(Job(e)).state = "COMPLETED"
    BY <1>0, <1>2 DEF AtItem
  <2>2. chain'[Job(e)] = chain[Job(e)]
    BY <1>0, <2>1, RecordedStays DEF Summary, ChainMoves, TerminalStates
  <2> QED BY <1>0, <1>1, <1>2, <2>1, <2>2 DEF AtItem, Last, RunningPCs
<1>3. CASE pc[e] \in {"made", "start"} \cup RunningPCs
  <2>1. making[Job(e)] = {e} => making'[Job(e)] = {e}
    BY <1>0 DEF Summary, MakingKept
  <2>2. chain'[Job(e)] = chain[Job(e)] /\ worked'[Job(e)] = worked[Job(e)]
    <3>1. CASE pc[d] \in OwnerPCs
      <4>1. Job(d) # Job(e)
        BY <1>3, <3>1 DEF DispatchInv, OwnerPCs
      <4> QED BY <1>0, <4>1 DEF Summary, Frame
    <3>2. CASE pc[d] \notin OwnerPCs
      <4>1. chain' = chain /\ worked' = worked
        BY <3>2 DEF Summary, ChainKept, ChainCreated, ChainGrown, Appending, WorkedMoves,
                    OwnerPCs, RunningPCs
      <4> QED BY <4>1
    <3> QED BY <3>1, <3>2
  <2>3. pc[e] \notin {"return", "done"}
    BY <1>3 DEF RunningPCs
  <2> QED BY <1>0, <1>1, <2>1, <2>2, <2>3 DEF AtItem, Last
<1>4. CASE pc[e] \in {"create", "stopped", "dead"}
  BY <1>0, <1>1, <1>4 DEF AtItem, RunningPCs
<1>5. pc[e] \in {"return", "done"} \cup {"made", "start"} \cup RunningPCs
               \cup {"create", "stopped", "dead"}
  BY DEF TypeOK, RunningPCs
<1> QED BY <1>2, <1>3, <1>4, <1>5
-----------------------------------------------------------------------------
\* Two dispatchers at work have different jobs: a creation meets the directory
\* that another one has half made, or the lifecycle it has begun.
LEMMA OwnersKept ==
  ASSUME TypeOK, DispatchInv, NEW d \in Dispatchers, Summary(d),
         NEW e \in Dispatchers, NEW g \in Dispatchers,
         e # g, pc'[e] \in OwnerPCs, pc'[g] \in OwnerPCs
  PROVE  Job(e)' # Job(g)'
<1>0. AtItem(d) /\ AtItem(e) /\ AtItem(g)
  BY DEF DispatchInv
<1>1. ASSUME NEW h \in Dispatchers, h # d, pc'[h] \in OwnerPCs, pc'[d] \in OwnerPCs
      PROVE  Job(d)' # Job(h)'
  <2>1. pc[h] \in OwnerPCs /\ Job(h)' = Job(h)
    BY <1>1 DEF Summary, Frame, Job
  <2>2. Job(d)' = Job(d)
    BY <1>1 DEF Summary, ItemKept, ItemReturned, OwnerPCs, RunningPCs, Job
  <2>3. CASE pc[d] \in OwnerPCs
    BY <1>1, <2>1, <2>2, <2>3 DEF DispatchInv
  <2>4. CASE pc[d] \notin OwnerPCs
    <3>1. pc'[d] = "made"
      BY <1>1, <2>4 DEF Summary, PcMoves, ChainCreated, OwnerPCs, RunningPCs
    <3>2. ~RootBlocked(d) /\ chain[Job(d)] = <<>>
      BY <3>1 DEF Summary, PcMoves
    <3>3. AtItem(h) /\ Job(h) \in Jobs /\ chain[Job(h)] \in Seq(Lifecycles)
      BY ItemFacts DEF DispatchInv, AtItem, TypeOK
    <3>4. CASE pc[h] = "made"
      <4>1. making[Job(h)] = {h}
        BY <3>3, <3>4 DEF AtItem
      <4>2. making[Job(d)] # {h}
        BY <1>0, <1>1, <3>2, ItemFacts DEF RootBlocked, AtItem
      <4> QED BY <2>1, <2>2, <4>1, <4>2
    <3>5. CASE pc[h] # "made"
      <4>1. chain[Job(h)] # <<>>
        <5>0. Len(<<>>) = 0
          BY EmptySeq
        <5>1. CASE pc[h] = "start"
          <6>1. chain[Job(h)] = <<RequestedLifecycle>>
            BY <3>3, <5>1 DEF AtItem
          <6>2. Len(chain[Job(h)]) = 1
            BY <6>1
          <6> QED BY <5>0, <6>2
        <5>2. CASE pc[h] \in RunningPCs
          <6>1. Len(chain[Job(h)]) = 2
            BY <3>3, <5>2 DEF AtItem
          <6>2. Len(chain[Job(h)]) # Len(<<>>)
            BY <5>0, <6>1
          <6> QED BY <6>2
        <5>3. CASE pc[h] = "return"
          BY <3>3, <5>3 DEF AtItem
        <5> QED BY <2>1, <3>5, <5>1, <5>2, <5>3 DEF OwnerPCs
      <4> QED BY <2>1, <2>2, <3>2, <4>1
    <3> QED BY <3>4, <3>5
  <2> QED BY <2>3, <2>4
<1>2. CASE e # d /\ g # d
  <2>1. /\ pc'[e] = pc[e] /\ Job(e)' = Job(e)
        /\ pc'[g] = pc[g] /\ Job(g)' = Job(g)
    BY <1>2 DEF Summary, Frame, Job
  <2> QED BY <2>1 DEF DispatchInv
<1> QED BY <1>1, <1>2

\* Where an item of a queue can be touched at all: at the item of the step, or
\* in the queue of another dispatcher that has the same job.
LEMMA UntouchedItem ==
  ASSUME TypeOK, DispatchInv, NEW d \in Dispatchers, Summary(d),
         NEW e \in Dispatchers, NEW i \in DOMAIN Queues[e], Alone(e, i),
         e = d => i # item[d]
  PROVE  /\ Queues[e][i].job \in Jobs
         /\ chain'[Queues[e][i].job] = chain[Queues[e][i].job]
         /\ worked'[Queues[e][i].job] = worked[Queues[e][i].job]
         /\ (Queues[e][i].job \in closed' => Queues[e][i].job \in closed)
<1>1. item[d] \in DOMAIN Queues[d] /\ Job(d) = Queues[d][item[d]].job
  BY DEF DispatchInv, AtItem, Job
<1>2. Queues[e][i].job # Job(d)
  <2>1. CASE e = d
    BY <1>1, <2>1, QueueFacts
  <2>2. CASE e # d
    BY <1>1, <2>2 DEF Alone
  <2> QED BY <2>1, <2>2
<1>3. Queues[e][i].job \in Jobs
  BY QueueFacts
<1> QED BY <1>2, <1>3 DEF Summary, Frame

\* An item does not go backwards, and is given up for the next one only when
\* its result is returned.
LEMMA ItemsAdvance ==
  ASSUME TypeOK, NEW d \in Dispatchers, Summary(d), NEW e \in Dispatchers,
         NEW i \in Nat
  PROVE  /\ item[e] \in Nat /\ item'[e] \in Nat /\ item'[e] >= item[e]
         /\ (i > item'[e] => i > item[e])
         /\ (i = item'[e] /\ pc'[e] = "create" => i > item[e] \/ (e # d /\ i = item[e]))
         /\ (e # d => item'[e] = item[e] /\ pc'[e] = pc[e])
<1>1. item[e] \in Nat
  BY DEF TypeOK
<1>2. CASE e # d
  <2>1. item'[e] = item[e] /\ pc'[e] = pc[e]
    BY <1>2 DEF Summary, Frame
  <2> QED BY <1>1, <1>2, <2>1
<1>3. CASE e = d /\ ItemKept(d)
  <2>1. item'[e] = item[e] /\ pc'[e] # "create"
    BY <1>3 DEF ItemKept
  <2> QED BY <1>1, <1>3, <2>1
<1>4. CASE e = d /\ ItemReturned(d)
  <2>1. \/ item'[e] = item[e] + 1
        \/ item'[e] = item[e] /\ pc'[e] = "done"
    BY <1>4 DEF ItemReturned
  <2> QED BY <1>1, <1>4, <2>1
<1> QED BY <1>2, <1>3, <1>4 DEF Summary

LEMMA UntouchedKept ==
  ASSUME TypeOK, DispatchInv, NEW d \in Dispatchers, Summary(d),
         NEW e \in Dispatchers, NEW i \in DOMAIN Queues[e], Alone(e, i),
         i > item'[e] \/ (i = item'[e] /\ pc'[e] = "create")
  PROVE  chain'[Queues[e][i].job] = <<>> /\ Queues[e][i].job \notin closed'
<1>0. i \in Nat
  BY QueueFacts
<1>1. i > item[e] \/ (e # d /\ i = item[e] /\ pc[e] = "create")
  BY <1>0, ItemsAdvance
<1>2. chain[Queues[e][i].job] = <<>> /\ Queues[e][i].job \notin closed
  BY <1>1 DEF DispatchInv
<1>3. e = d => i # item[d]
  BY <1>0, <1>1, ItemsAdvance
<1> QED BY <1>2, <1>3, UntouchedItem

LEMMA ResultsAdvance ==
  ASSUME TypeOK, DispatchInv, NEW d \in Dispatchers, Summary(d), NEW e \in Dispatchers
  PROVE  \/ results'[e] = results[e]
         \/ e = d /\ ItemReturned(d)
BY DEF Summary, Frame, ItemKept

LEMMA DispatchKept ==
  ASSUME TypeOK, DispatchInv, WorkedMeansRunning, CompletedHasCandidate,
         NEW d \in Dispatchers, Summary(d), TypeOK'
  PROVE  DispatchInv'
<1>1. \A e \in Dispatchers : AtItem(e)'
  BY OwnItemKept, OtherItemKept DEF DispatchInv
<1>2. \A e, g \in Dispatchers :
        e # g /\ pc'[e] \in OwnerPCs /\ pc'[g] \in OwnerPCs => Job(e)' # Job(g)'
  BY OwnersKept
<1>3. ASSUME NEW e \in Dispatchers, NEW i \in DOMAIN results'[e]
      PROVE  chain'[results'[e][i]] # <<>>
  <2>0. AtItem(d) /\ Job(d) \in Jobs
    BY ItemFacts DEF DispatchInv, AtItem
  <2>1. results'[e][i] \in Jobs /\ chain[results'[e][i]] # <<>>
    <3>1. results[e] \in Seq(Jobs) /\ results'[e] \in Seq(Jobs)
      BY DEF TypeOK
    <3>2. CASE results'[e] = results[e]
      BY <1>3, <3>1, <3>2, ElementOfSeq, LenProperties DEF DispatchInv
    <3>3. CASE e = d /\ ItemReturned(d)
      <4>1. results'[e] = Append(results[e], Job(d)) /\ chain[Job(d)] # <<>>
        BY <2>0, <3>3 DEF ItemReturned, AtItem
      <4>2. i \in 1 .. Len(results[e]) + 1 /\ Len(results[e]) \in Nat
        BY <1>3, <2>0, <3>1, <4>1
      <4>3. CASE i \in 1 .. Len(results[e])
        <5>1. results'[e][i] = results[e][i] /\ i \in DOMAIN results[e]
          BY <2>0, <3>1, <4>1, <4>3
        <5> QED BY <3>1, <4>3, <5>1, ElementOfSeq DEF DispatchInv
      <4>4. CASE i = Len(results[e]) + 1
        <5>1. results'[e][i] = Job(d)
          BY <2>0, <3>1, <4>1, <4>4
        <5> QED BY <2>0, <4>1, <5>1
      <4> QED BY <4>2, <4>3, <4>4
    <3> QED BY <3>2, <3>3, ResultsAdvance
  <2> QED BY <2>0, <2>1, RecordedStays DEF Summary, ChainMoves
<1>4. ASSUME NEW e \in Dispatchers, NEW i \in DOMAIN Queues[e], Alone(e, i),
             i > item'[e] \/ (i = item'[e] /\ pc'[e] = "create")
      PROVE  chain'[Queues[e][i].job] = <<>> /\ Queues[e][i].job \notin closed'
  BY <1>4, UntouchedKept
<1> QED BY <1>1, <1>2, <1>3, <1>4 DEF DispatchInv, Alone

-----------------------------------------------------------------------------
\* The three properties of an execution.
LEMMA ExecutionKept ==
  ASSUME TypeOK, DispatchInv, OneExecution, WorkedMeansRunning, CompletedHasCandidate,
         NEW d \in Dispatchers, Summary(d), TypeOK'
  PROVE  OneExecution' /\ WorkedMeansRunning' /\ CompletedHasCandidate'
<1>0. AtItem(d) /\ Job(d) \in Jobs
  BY ItemFacts DEF DispatchInv, AtItem
<1>1. ASSUME NEW j \in Jobs
      PROVE  worked'[j] <= 1
  <2>1. CASE worked'[j] = worked[j]
    BY <2>1 DEF OneExecution
  <2>2. CASE worked'[j] # worked[j]
    <3>1. j = Job(d) /\ pc[d] = "work" /\ worked' = [worked EXCEPT ![Job(d)] = @ + 1]
      BY <2>2 DEF Summary, Frame, WorkedMoves
    <3>2. worked[j] = 0
      BY <1>0, <3>1 DEF AtItem
    <3> QED BY <3>1, <3>2 DEF TypeOK
  <2> QED BY <2>1, <2>2
<1>2. ASSUME NEW j \in Jobs, worked'[j] > 0
      PROVE  Len(chain'[j]) >= 2 /\ chain'[j][2].state = "RUNNING"
  <2>0. chain[j] \in Seq(Lifecycles) /\ Len(chain[j]) \in Nat /\ Len(chain'[j]) \in Nat
    BY DEF TypeOK
  <2>1. CASE worked[j] > 0
    <3>1. Len(chain[j]) >= 2 /\ chain[j][2].state = "RUNNING"
      BY <2>1 DEF WorkedMeansRunning
    <3>2. chain[j] # <<>> /\ 2 \in 1 .. Len(chain[j])
      BY <2>0, <3>1, EmptySeq
    <3>3. Len(chain'[j]) >= Len(chain[j]) /\ chain'[j][2] = chain[j][2]
      BY <1>0, <3>2, RecordedStays DEF Summary, ChainMoves
    <3> QED BY <2>0, <3>1, <3>3
  <2>2. CASE ~(worked[j] > 0)
    <3>1. worked' # worked
      BY <1>2, <2>2
    <3>2. pc[d] = "work" /\ chain' = chain /\ j = Job(d)
      BY <1>2, <2>2, <3>1 DEF Summary, WorkedMoves, Frame
    <3>3. Len(chain[j]) = 2 /\ chain[j][2].state = "RUNNING"
      BY <1>0, <3>2 DEF AtItem, RunningPCs, Last
    <3> QED BY <3>2, <3>3
  <2> QED BY <2>1, <2>2
<1>3. ASSUME NEW j \in Jobs, chain'[j] # <<>>, chain'[j][Len(chain'[j])].state = "COMPLETED"
      PROVE  /\ j \in store'
             /\ \A f \in Success \cup WorkerEvidence :
                  chain'[j][Len(chain'[j])].evidence[f] = j
  <2>1. CASE chain'[j] = chain[j]
    BY <1>3, <2>1 DEF CompletedHasCandidate, Last, Summary, Frame
  <2>2. CASE chain'[j] # chain[j]
    <3>1. j = Job(d)
      BY <2>2 DEF Summary, Frame
    <3>2. ~ChainCreated(d)
      <4> SUFFICES ASSUME ChainCreated(d) PROVE FALSE
        OBVIOUS
      <4>1. chain'[j] = <<RequestedLifecycle>>
        BY <3>1 DEF ChainCreated, TypeOK
      <4>2. chain'[j][Len(chain'[j])] = RequestedLifecycle
        BY <4>1
      <4> QED BY <1>3, <4>2 DEF RequestedLifecycle
    <3>3. ChainGrown(d)
      BY <2>2, <3>2 DEF Summary, ChainKept
    <3>4. Due(d)[1] = "COMPLETED"
      BY <1>0, <1>3, <3>1, <3>3, GrownLifecycle
    <3>5. pc[d] = "installed"
      BY <3>3, <3>4 DEF Due, ChainGrown, Appending
    <3>6. j \in store
      BY <1>0, <3>1, <3>5 DEF AtItem
    <3>7. \A f \in Success \cup WorkerEvidence : chain'[j][Len(chain'[j])].evidence[f] = j
      BY <1>0, <3>1, <3>3, <3>5, GrownLifecycle
    <3> QED BY <3>6, <3>7 DEF Summary, Frame
  <2> QED BY <2>1, <2>2
<1> QED BY <1>1, <1>2, <1>3 DEF OneExecution, WorkedMeansRunning, CompletedHasCandidate, Last

\* What a dispatcher has left behind is recorded.
LEMMA EndedKept ==
  ASSUME TypeOK, DispatchInv, EndedMeansRecorded, NEW d \in Dispatchers, Summary(d), TypeOK'
  PROVE  EndedMeansRecorded'
<1> SUFFICES ASSUME NEW e \in Dispatchers, NEW i \in DOMAIN Queues[e],
                    i < item'[e] \/ (i = item'[e] /\ pc'[e] \in {"done", "stopped"}),
                    Alone(e, i), Queues[e][i].job \notin hindered'
             PROVE  /\ chain'[Queues[e][i].job] # <<>>
                    /\ chain'[Queues[e][i].job][Len(chain'[Queues[e][i].job])].state
                         \in TerminalStates
  BY DEF EndedMeansRecorded, Alone, Last
<1> DEFINE j == Queues[e][i].job
<1>0. /\ AtItem(d) /\ i \in Nat /\ item[e] \in Nat /\ j \in Jobs /\ Job(d) \in Jobs
      /\ j \notin hindered
  <2>1. i \in Nat /\ j \in Jobs
    BY QueueFacts
  <2>2. AtItem(d) /\ Job(d) \in Jobs
    BY ItemFacts DEF DispatchInv, AtItem
  <2>3. item[e] \in Nat /\ j \notin hindered
    BY DEF TypeOK, Summary, Frame
  <2> QED BY <2>1, <2>2, <2>3
<1>1. CASE i < item[e] \/ (i = item[e] /\ pc[e] \in {"done", "stopped"})
  <2>1. chain[j] # <<>> /\ Last(j).state \in TerminalStates
    BY <1>0, <1>1 DEF EndedMeansRecorded
  <2>2. chain'[j] = chain[j]
    BY <1>0, <2>1, RecordedStays DEF Summary, ChainMoves
  <2> QED BY <2>1, <2>2 DEF Last
<1>2. CASE ~(i < item[e] \/ (i = item[e] /\ pc[e] \in {"done", "stopped"}))
  <2>1. e = d
    BY <1>2 DEF Summary, Frame
  <2>2. i = item[d] /\ j = Job(d)
    <3>1. i = item[d]
      BY <1>0, <1>2, <2>1 DEF Summary, ItemKept, ItemReturned
    <3> QED BY <2>1, <3>1 DEF Job
  <2>3. CASE ItemReturned(d)
    <3>1. chain[j] # <<>> /\ Last(j).state = "COMPLETED" /\ chain' = chain
      BY <1>0, <2>2, <2>3 DEF ItemReturned, AtItem
    <3> QED BY <3>1 DEF Last, TerminalStates
  <2>4. CASE ItemKept(d)
    <3>1. pc'[d] = "stopped"
      BY <1>0, <2>1, <2>2, <2>4 DEF ItemKept
    <3>2. \/ pc[d] = "create" /\ (chain[j] # <<>> \/ j \in closed)
          \/ /\ ChainGrown(d) /\ pc[d] \in {"judge", "unfinished"}
             /\ pc[d] = "judge" => report[d] # "COMPLETED"
      BY <2>2, <3>1 DEF Summary, PcMoves
    <3>3. pc[d] # "create"
      BY <1>0, <2>1, <2>2, <3>2 DEF DispatchInv
    <3>4. /\ ChainGrown(d) /\ pc[d] \in {"judge", "unfinished"}
          /\ pc[d] = "judge" => report[d] # "COMPLETED"
      BY <3>2, <3>3
    <3>5. Due(d)[1] \in TerminalStates
      BY <3>4 DEF Due, TerminalStates
    <3>6. chain'[j][Len(chain'[j])].state = Due(d)[1] /\ Len(chain'[j]) # 0
      BY <1>0, <2>2, <3>4, GrownLifecycle
    <3>7. Len(<<>>) = 0
      BY EmptySeq
    <3> QED BY <3>5, <3>6, <3>7
  <2> QED BY <2>3, <2>4 DEF Summary
<1> QED BY <1>1, <1>2

\* The first failure stops the queue.
LEMMA StopsKept ==
  ASSUME TypeOK, DispatchInv, CompletedHasCandidate, FirstFailureStops,
         NEW d \in Dispatchers, Summary(d), TypeOK'
  PROVE  FirstFailureStops'
<1>0. AtItem(d) /\ Job(d) \in Jobs
  BY ItemFacts DEF DispatchInv, AtItem
<1>1. ASSUME NEW e \in Dispatchers
      PROVE  results'[e] = [i \in 1 .. IF pc'[e] = "done" THEN item'[e] ELSE item'[e] - 1 |->
                              Queues[e][i].job]
  <2>1. CASE e # d
    <3>1. item'[e] = item[e] /\ pc'[e] = pc[e] /\ results'[e] = results[e]
      BY <2>1 DEF Summary, Frame
    <3> QED BY <3>1 DEF FirstFailureStops
  <2>2. CASE e = d /\ ItemKept(d)
    <3>1. item'[e] = item[e] /\ pc'[e] # "done" /\ results'[e] = results[e] /\ pc[e] # "done"
      BY <2>2 DEF ItemKept, Summary, PcMoves
    <3> QED BY <3>1 DEF FirstFailureStops
  <2>3. CASE e = d /\ ItemReturned(d)
    <3>1. item[e] \in Nat /\ item[e] \in 1 .. Len(Queues[e])
      BY <1>0, <2>3, QueueFacts DEF AtItem, TypeOK
    <3>2. results[e] = [i \in 1 .. item[e] - 1 |-> Queues[e][i].job]
      BY <2>3 DEF FirstFailureStops, ItemReturned
    <3>3. results'[e] = Append(results[e], Queues[e][item[e]].job)
      BY <2>3 DEF ItemReturned, Job
    <3>4. results'[e] = [i \in 1 .. item[e] |-> Queues[e][i].job]
      <4>1. results[e] \in Seq(Jobs) /\ results'[e] \in Seq(Jobs) /\ Job(d) = Queues[e][item[e]].job
        BY <2>3 DEF TypeOK, Job
      <4>2. DOMAIN results[e] = 1 .. Len(results[e]) /\ Len(results[e]) \in Nat
        BY <4>1, LenProperties
      <4>3. DOMAIN results[e] = 1 .. item[e] - 1
        BY <3>2
      <4>4. Len(results[e]) = item[e] - 1
        BY <3>1, <4>2, <4>3
      <4>5. /\ Len(results'[e]) = item[e]
            /\ \A i \in 1 .. item[e] - 1 : results'[e][i] = results[e][i]
            /\ results'[e][item[e]] = Queues[e][item[e]].job
        BY <1>0, <3>1, <3>3, <4>1, <4>4
      <4>6. DOMAIN results'[e] = 1 .. item[e] /\ results'[e] = [i \in 1 .. item[e] |-> results'[e][i]]
        BY <4>1, <4>5, LenProperties
      <4>7. ASSUME NEW i \in 1 .. item[e]
            PROVE  results'[e][i] = Queues[e][i].job
        <5>1. CASE i = item[e]
          BY <4>5, <5>1
        <5>2. CASE i # item[e]
          <6>1. i \in 1 .. item[e] - 1
            BY <3>1, <5>2
          <6>2. results[e][i] = Queues[e][i].job
            BY <3>2, <6>1
          <6> QED BY <4>5, <6>1, <6>2
        <5> QED BY <5>1, <5>2
      <4> QED BY <4>6, <4>7
    <3>5. \/ item'[e] = item[e] + 1 /\ pc'[e] = "create"
          \/ item'[e] = item[e] /\ pc'[e] = "done"
      BY <2>3 DEF ItemReturned
    <3>6. item[e] + 1 - 1 = item[e]
      BY <3>1
    <3>7. (IF pc'[e] = "done" THEN item'[e] ELSE item'[e] - 1) = item[e]
      <4>1. CASE item'[e] = item[e] + 1 /\ pc'[e] = "create"
        <5>1. pc'[e] # "done" /\ item'[e] - 1 = item[e]
          BY <3>1, <3>6, <4>1
        <5> QED BY <5>1
      <4>2. CASE item'[e] = item[e] /\ pc'[e] = "done"
        BY <4>2
      <4> QED BY <3>5, <4>1, <4>2
    <3> QED BY <3>4, <3>7
  <2> QED BY <2>1, <2>2, <2>3 DEF Summary
<1>2. ASSUME NEW e \in Dispatchers, NEW i \in DOMAIN results'[e]
      PROVE  /\ chain'[results'[e][i]][Len(chain'[results'[e][i]])].state = "COMPLETED"
             /\ results'[e][i] \in store'
  <2>1. /\ results'[e][i] \in Jobs /\ chain[results'[e][i]] # <<>>
        /\ Last(results'[e][i]).state = "COMPLETED" /\ results'[e][i] \in store
    <3>1. results[e] \in Seq(Jobs) /\ results'[e] \in Seq(Jobs)
      BY DEF TypeOK
    <3>2. ASSUME NEW k \in DOMAIN results[e]
          PROVE  /\ results[e][k] \in Jobs /\ chain[results[e][k]] # <<>>
                 /\ Last(results[e][k]).state = "COMPLETED" /\ results[e][k] \in store
      <4>1. results[e][k] \in Jobs
        BY <3>1, ElementOfSeq, LenProperties
      <4> QED BY <4>1 DEF DispatchInv, FirstFailureStops
    <3>3. CASE results'[e] = results[e]
      BY <1>2, <3>2, <3>3
    <3>4. CASE e = d /\ ItemReturned(d)
      <4>1. results'[e] = Append(results[e], Job(d)) /\ chain[Job(d)] # <<>>
            /\ Last(Job(d)).state = "COMPLETED"
        BY <1>0, <3>4 DEF ItemReturned, AtItem
      <4>2. i \in 1 .. Len(results[e]) + 1 /\ Len(results[e]) \in Nat
        BY <1>0, <1>2, <3>1, <4>1
      <4>3. CASE i \in 1 .. Len(results[e])
        <5>1. results'[e][i] = results[e][i] /\ i \in DOMAIN results[e]
          BY <1>0, <3>1, <4>1, <4>3
        <5> QED BY <3>2, <5>1
      <4>4. CASE i = Len(results[e]) + 1
        <5>1. results'[e][i] = Job(d)
          BY <1>0, <3>1, <4>1, <4>4
        <5> QED BY <1>0, <4>1, <5>1 DEF CompletedHasCandidate
      <4> QED BY <4>2, <4>3, <4>4
    <3> QED BY <3>3, <3>4, ResultsAdvance
  <2>2. chain'[results'[e][i]] = chain[results'[e][i]]
    BY <1>0, <2>1, RecordedStays DEF Summary, ChainMoves, TerminalStates
  <2> QED BY <2>1, <2>2 DEF Last, Summary, Frame
<1>3. ASSUME NEW e \in Dispatchers, NEW i \in DOMAIN Queues[e], i > item'[e], Alone(e, i)
      PROVE  chain'[Queues[e][i].job] = <<>> /\ worked'[Queues[e][i].job] = 0
  <2>1. i \in Nat /\ i > item[e]
    BY <1>3, QueueFacts, ItemsAdvance
  <2>2. e = d => i # item[d]
    BY <2>1, ItemsAdvance
  <2>3. chain[Queues[e][i].job] = <<>> /\ worked[Queues[e][i].job] = 0
    BY <1>3, <2>1 DEF FirstFailureStops
  <2> QED BY <1>3, <2>2, <2>3, UntouchedItem
<1> QED BY <1>1, <1>2, <1>3 DEF FirstFailureStops, Last, Alone

LEMMA DispatchInit ==
  ASSUME Init
  PROVE  DispatchIInv
<1> USE DEF Init
<1>1. TypeOK
  <2>1. /\ item \in [Dispatchers -> Nat] /\ worked \in [Jobs -> Nat] /\ faults \in 0 .. MaxFaults
        /\ closed \subseteq Jobs /\ store \subseteq Jobs /\ hindered \subseteq Jobs
    BY FaultsAssumption
  <2>2. pc \in [Dispatchers -> PCs]
    BY DEF PCs
  <2>3. chain \in [Jobs -> Seq(Lifecycles)] /\ results \in [Dispatchers -> Seq(Jobs)]
    BY EmptySeq
  <2>4. making \in [Jobs -> SUBSET (Dispatchers \cup {"dead"})]
    OBVIOUS
  <2>5. installing \in [Jobs -> SUBSET (Dispatchers \cup {"dead"})]
    OBVIOUS
  <2>6. report \in [Dispatchers -> Reports \cup {"none", "raised"}]
    OBVIOUS
  <2> HIDE DEF Init
  <2> QED BY <2>1, <2>2, <2>3, <2>4, <2>5, <2>6 DEF TypeOK, PCs
<1>2. \A d \in Dispatchers : AtItem(d)
  BY QueueFacts DEF AtItem, RunningPCs
<1>3. \A d \in Dispatchers : \A i \in DOMAIN Queues[d] :
        Queues[d][i].job \in Jobs /\ i \in Nat /\ i >= 1
  BY QueueFacts
<1>4. \A d \in Dispatchers : DOMAIN results[d] = {}
  BY EmptySeq
<1>5. DispatchInv
  BY <1>2, <1>3, <1>4 DEF DispatchInv, OwnerPCs, RunningPCs
<1>6. OneExecution /\ WorkedMeansRunning /\ CompletedHasCandidate
  BY DEF OneExecution, WorkedMeansRunning, CompletedHasCandidate
<1>7. EndedMeansRecorded
  BY <1>3 DEF EndedMeansRecorded
<1>8. FirstFailureStops
  <2>1. \A d \in Dispatchers :
          results[d] = [i \in 1 .. IF pc[d] = "done" THEN item[d] ELSE item[d] - 1 |->
                          Queues[d][i].job]
    <3> SUFFICES ASSUME NEW d \in Dispatchers
                 PROVE  <<>> = [i \in 1 .. 0 |-> Queues[d][i].job]
      OBVIOUS
    <3> QED OBVIOUS
  <2> QED BY <1>3, <1>4, <2>1 DEF FirstFailureStops
<1> QED BY <1>1, <1>5, <1>6, <1>7, <1>8 DEF DispatchIInv

LEMMA DispatchersStep ==
  ASSUME DispatchIInv, [Next]_vars
  PROVE  DispatchIInv'
<1>1. CASE Next
  <2>1. PICK d \in Dispatchers : DispatchStep(d)
    BY <1>1 DEF Next, DispatchStep
  <2>2. TypeOK' /\ Summary(d)
    BY <2>1, TypeKept, StepSummary DEF DispatchIInv, DispatchInv
  <2> QED BY <2>2, DispatchKept, ExecutionKept, EndedKept, StopsKept DEF DispatchIInv
<1>2. CASE UNCHANGED vars
  <2> USE <1>2 DEF vars
  <2>1. TypeOK'
    BY DEF DispatchIInv, TypeOK
  <2>2. \A d \in Dispatchers : Job(d)' = Job(d) /\ AtItem(d)'
    BY DEF DispatchIInv, DispatchInv, AtItem, Job, Last
  <2>3. DispatchInv'
    BY <2>2 DEF DispatchIInv, DispatchInv, Alone
  <2>4. OneExecution' /\ WorkedMeansRunning' /\ CompletedHasCandidate'
    BY DEF DispatchIInv, OneExecution, WorkedMeansRunning, CompletedHasCandidate, Last
  <2>5. EndedMeansRecorded'
    BY DEF DispatchIInv, EndedMeansRecorded, Alone, Last
  <2>6. FirstFailureStops'
    BY DEF DispatchIInv, FirstFailureStops, Alone, Last
  <2> QED BY <2>1, <2>3, <2>4, <2>5, <2>6 DEF DispatchIInv
<1> QED BY <1>1, <1>2

-----------------------------------------------------------------------------
(***************************************************************************)
(* The three parts together: a behaviour is about one of them throughout.  *)
(***************************************************************************)
CodingIInv ==
  /\ part = "dispatch" => DispatchIInv
  /\ part = "job" => JobIInv
  /\ part = "request" => RequestIInv

LEMMA CodingStarts ==
  ASSUME CodingInit
  PROVE  CodingIInv
BY DispatchInit, JobInit, RequestInit DEF CodingInit, CodingIInv

LEMMA CodingSteps ==
  ASSUME CodingIInv, [CodingNext]_allVars
  PROVE  CodingIInv'
<1>1. CASE part = "dispatch" /\ Next /\ UNCHANGED part
  BY <1>1, DispatchersStep DEF CodingIInv
<1>2. CASE part = "job" /\ CodingJob!Next /\ UNCHANGED part
  BY <1>2, JobStep DEF CodingIInv
<1>3. CASE part = "request" /\ Request!Next /\ UNCHANGED part
  BY <1>3, RequestStep DEF CodingIInv
<1>4. CASE UNCHANGED allVars
  <2>1. UNCHANGED part /\ UNCHANGED vars /\ UNCHANGED CodingJob!vars /\ UNCHANGED Request!vars
    BY <1>4 DEF allVars, vars, jobOnly, requestOnly, CodingJob!vars, Request!vars,
       Request!roots, Request!told
  <2> QED BY <2>1, DispatchersStep, JobStep, RequestStep DEF CodingIInv
<1> QED BY <1>1, <1>2, <1>3, <1>4 DEF CodingNext

\* The inductive invariant of every behaviour: CodingSpec => []CodingIInv.
LEMMA CodingInvariant == CodingSpec => []CodingIInv
BY CodingStarts, CodingSteps, PTL DEF CodingSpec

\* However many dispatchers are given a job, however they fail and die: its
\* worker runs at most once and only after a durable RUNNING, and COMPLETED
\* stands on a candidate in the store (lab_coding_job_dispatcher.py,
\* lab_coding_integration.py).
THEOREM CodingExecutions ==
  CodingSpec => []ExecutionIsOnRecord
<1>1. CodingIInv => ExecutionIsOnRecord
  BY DEF CodingIInv, DispatchIInv, ExecutionIsOnRecord
<1> QED BY <1>1, CodingInvariant, PTL

\* Every item that a dispatcher has left is in a terminal state unless one of
\* its own calls failed or was hindered, its results are of completed jobs, and
\* nothing behind the first failure was touched (lab_coding_job_dispatcher.py).
THEOREM CodingLeavesARecord ==
  CodingSpec => []LeftMeansRecorded
<1>1. CodingIInv => LeftMeansRecorded
  BY DEF CodingIInv, DispatchIInv, LeftMeansRecorded
<1> QED BY <1>1, CodingInvariant, PTL

\* A candidate is the workspace at one moment after the worker returned, and
\* the changes of its policy and nothing else, whatever leftovers write
\* meanwhile (lab_coding_job.py, lab_coding_candidate.py).
THEOREM CandidatesAreSound ==
  CodingSpec => []CandidateIsSound
<1>1. CodingIInv => CandidateIsSound
  BY JobResult DEF CodingIInv, JobIInv, CandidateIsSound
<1> QED BY <1>1, CodingInvariant, PTL

\* A candidate has its job and an answered request its record, in roots that
\* the first requests make together, through deaths and power losses
\* (lab_coding_runtime_intake.py).
THEOREM RequestsAreOnRecord ==
  CodingSpec => []RequestIsOnRecord
<1>1. CodingIInv => RequestIsOnRecord
  BY RequestResult DEF CodingIInv, RequestIInv, RequestIsOnRecord
<1> QED BY <1>1, CodingInvariant, PTL
=============================================================================
