---------------------------- MODULE CodingDispatch ----------------------------
(***************************************************************************)
(* Dispatchers that work through queues of coding jobs                      *)
(* (lab_coding_job_dispatcher.py, lab_coding_integration.py,                *)
(* lab_coding_workflow.py, lab_coding_job_queue.py) over one lifecycle      *)
(* journal and one candidate store.                                         *)
(*                                                                         *)
(* The two stores appear as what CodingJobLedger and CandidateRegister say  *)
(* of them, with the ways a call may fail: before it has written, after,   *)
(* half way (the job or the store is closed from then on), and refused      *)
(* because another process is half way.  A coding job appears as its        *)
(* outcome (CodingJob).  A job's evidence is named after the job it belongs *)
(* to, so mixed-up evidence would show.                                     *)
(***************************************************************************)
EXTENDS CodingJobLifecycle, Sequences

CONSTANTS
  Dispatchers,
  Jobs,          \* (request_id, run_id) pairs
  Sessions,      \* the session of each job's deployment
  Queues,        \* the queue each dispatcher is given
  MaxFaults      \* bound: failing calls and deaths

ASSUME JobsAssumption == Jobs \cup Sessions \subseteq Ids
ASSUME FaultsAssumption == MaxFaults \in Nat

\* What validate_lab_coding_job_queue and _validate_dispatch_deployments let
\* pass: at least one item, no job twice, no session twice.
ValidQueue(q) ==
  /\ q # <<>>
  /\ \A i, k \in DOMAIN q :
       i # k => q[i].job # q[k].job /\ q[i].session # q[k].session

ASSUME QueuesAssumption ==
  /\ Queues \in [Dispatchers -> Seq([job : Jobs, session : Sessions])]
  /\ \A d \in Dispatchers : ValidQueue(Queues[d])

VARIABLES
  item,        \* the item each dispatcher is at
  pc,          \* the step of that item
  chain,       \* the lifecycle of each job
  closed,      \* jobs whose chain can no longer be read
  making,      \* the half-made directory of a job: its dispatcher or "dead"
  store,       \* the candidates that are durable
  installing,  \* the half-installed candidate, likewise
  report,      \* what each dispatcher's coding job returned
  results,     \* the results each dispatcher has collected
  worked,      \* history: how often a worker was started for each job
  hindered,    \* history: jobs whose call failed or met a half-made neighbour
  faults       \* bound

vars == <<item, pc, chain, closed, making, store, installing, report,
          results, worked, hindered, faults>>

stores == <<chain, closed, making, store, installing>>

Reports == {"COMPLETED", "FAILED", "TIMED_OUT"}

Init ==
  /\ item = [d \in Dispatchers |-> 1]
  /\ pc = [d \in Dispatchers |-> "create"]
  /\ chain = [j \in Jobs |-> <<>>]
  /\ closed = {}
  /\ making = [j \in Jobs |-> {}]
  /\ store = {}
  /\ installing = [j \in Jobs |-> {}]
  /\ report = [d \in Dispatchers |-> "none"]
  /\ results = [d \in Dispatchers |-> <<>>]
  /\ worked = [j \in Jobs |-> 0]
  /\ hindered = {}
  /\ faults = 0

Job(d) == Queues[d][item[d]].job
Session(d) == Queues[d][item[d]].session
Last(j) == chain[j][Len(chain[j])]

Goto(d, next) == pc' = [pc EXCEPT ![d] = next]

\* Any exception leaves the dispatcher: later items are never begun.
Stop(d) == Goto(d, "stopped")

\* Mutation of StopHindered: the dispatcher goes on with its next item.
StopHinderedNot(d) ==
  /\ hindered' = hindered \cup {Job(d)}
  /\ IF item[d] < Len(Queues[d])
     THEN item' = [item EXCEPT ![d] = @ + 1] /\ Goto(d, "create")
     ELSE Goto(d, "done") /\ UNCHANGED item

StopHindered(d) ==
  /\ hindered' = hindered \cup {Job(d)}
  /\ Stop(d)
  /\ UNCHANGED item

\* A directory or a candidate that another process has half made, or that a
\* dead one has left half made, makes the call raise before it does anything.
RootBlocked(d) == \E j \in Jobs : making[j] \ {d} # {}
StoreBlocked(d) == \E j \in Jobs : installing[j] \ {d} # {}

SuppliedEvidence(d, fields) ==
  [f \in Fields |-> IF f \notin fields THEN NoId
                    ELSE IF f = "session_id" THEN Session(d) ELSE Job(d)]

-----------------------------------------------------------------------------
(***************************************************************************)
(* create_lab_coding_job_lifecycle_journal.                                *)
(***************************************************************************)
\* Mutation of StartCreate: an existing lifecycle is taken over.
StartCreateAgain(d) ==
  /\ pc[d] = "create" /\ ~RootBlocked(d)
  /\ making' = [making EXCEPT ![Job(d)] = {d}]
  /\ Goto(d, "made")
  /\ UNCHANGED <<item, chain, closed, store, installing, report, results, worked, hindered, faults>>

StartCreate(d) ==
  /\ pc[d] = "create" /\ ~RootBlocked(d)
  /\ chain[Job(d)] = <<>> /\ Job(d) \notin closed
  /\ making' = [making EXCEPT ![Job(d)] = {d}]
  /\ Goto(d, "made")
  /\ UNCHANGED <<item, chain, closed, store, installing, report, results, worked, hindered, faults>>

\* The lifecycle exists already: an earlier or a concurrent run has it.
RefuseCreate(d) ==
  /\ pc[d] = "create" /\ ~RootBlocked(d)
  /\ chain[Job(d)] # <<>> \/ Job(d) \in closed
  /\ Stop(d)
  /\ UNCHANGED <<item, stores, report, results, worked, hindered, faults>>

FinishCreate(d) ==
  /\ pc[d] = "made"
  /\ making' = [making EXCEPT ![Job(d)] = {}]
  /\ chain' = [chain EXCEPT ![Job(d)] = <<RequestedLifecycle>>]
  /\ Goto(d, "start")
  /\ UNCHANGED <<item, closed, store, installing, report, results, worked, hindered, faults>>

-----------------------------------------------------------------------------
(***************************************************************************)
(* append_lab_coding_job_lifecycle_snapshot, for each use of it: from one  *)
(* state of the job to another, with the evidence it then has.             *)
(***************************************************************************)
WorkerEvidence == {"worker_request_id", "worker_result_id"}

\* The successor that is due at each step of an item that appends.
Due(d) ==
  CASE pc[d] = "start"      -> <<"RUNNING", {"session_id"}>>
    [] pc[d] = "judge"      ->
         CASE report[d] = "TIMED_OUT" -> <<"TIMED_OUT", WorkerEvidence>>
           [] report[d] = "FAILED"    -> <<"FAILED", WorkerEvidence>>
           [] OTHER                   -> <<"FAILED", {}>>
    [] pc[d] = "unfinished" -> <<"FAILED", WorkerEvidence>>
    [] OTHER                -> <<"COMPLETED", WorkerEvidence \cup Success>>

Appending(d) ==
  \/ pc[d] \in {"start", "unfinished", "installed"}
  \/ pc[d] = "judge" /\ report[d] # "COMPLETED"

AppendDue(d) ==
  LET j == Job(d)
      supplied == SuppliedEvidence(d, Due(d)[2])
  IN  /\ ~RootBlocked(d)
      /\ j \notin closed /\ chain[j] # <<>>
      /\ MayAdvance(Last(j), Due(d)[1], supplied)
      /\ chain' = [chain EXCEPT ![j] = Append(@, Successor(Last(j), Due(d)[1], supplied))]
      /\ UNCHANGED <<closed, making, store, installing>>

\* Mutation of AppendRunning: the worker does not wait for RUNNING.
AppendRunningNot(d) ==
  /\ pc[d] = "start"
  /\ Goto(d, "work")
  /\ UNCHANGED <<item, stores, report, results, worked, hindered, faults>>

AppendRunning(d) ==
  /\ pc[d] = "start"
  /\ AppendDue(d)
  /\ Goto(d, "work")
  /\ UNCHANGED <<item, report, results, worked, hindered, faults>>

\* run_codex_coding_job_from_commit: it raises before or after its worker has
\* run, or returns a record with one of the three statuses.
RunCodingJob(d) ==
  /\ pc[d] = "work"
  /\ \/ /\ report' = [report EXCEPT ![d] = "raised"]
        /\ UNCHANGED worked
     \/ /\ \E r \in Reports \cup {"raised"} : report' = [report EXCEPT ![d] = r]
        /\ worked' = [worked EXCEPT ![Job(d)] = @ + 1]
  /\ Goto(d, "judge")
  /\ UNCHANGED <<item, stores, results, hindered, faults>>

\* A status other than COMPLETED, or an exception, ends the item, with evidence
\* of the worker when there is a record of it.
AppendUnsuccessful(d) ==
  /\ pc[d] = "judge" /\ report[d] # "COMPLETED"
  /\ AppendDue(d)
  /\ Stop(d)
  /\ UNCHANGED <<item, report, results, worked, hindered, faults>>

-----------------------------------------------------------------------------
(***************************************************************************)
(* finalize_lab_coding_workflow: the candidate is validated, then persisted *)
(* in two steps that other users of the store can fall between.            *)
(***************************************************************************)
StartInstall(d) ==
  /\ pc[d] = "judge" /\ report[d] = "COMPLETED"
  /\ ~StoreBlocked(d) /\ Job(d) \notin store
  /\ installing' = [installing EXCEPT ![Job(d)] = {d}]
  /\ Goto(d, "install")
  /\ UNCHANGED <<item, chain, closed, making, store, report, results, worked, hindered, faults>>

FinishInstall(d) ==
  /\ pc[d] = "install"
  /\ installing' = [installing EXCEPT ![Job(d)] = {}]
  /\ store' = store \cup {Job(d)}
  /\ Goto(d, "installed")
  /\ UNCHANGED <<item, chain, closed, making, report, results, worked, hindered, faults>>

\* The validation of the candidate refuses it, or the store is blocked.
RefuseCandidate(d) ==
  /\ pc[d] = "judge" /\ report[d] = "COMPLETED"
  /\ Goto(d, "unfinished")
  /\ UNCHANGED <<item, stores, report, results, worked, hindered, faults>>

\* Mutation of AppendUnfinished: the exception leaves without a trace.
AppendUnfinishedNot(d) ==
  /\ pc[d] = "unfinished"
  /\ Stop(d)
  /\ UNCHANGED <<item, stores, report, results, worked, hindered, faults>>

\* Whatever fails in the finalization ends the item as FAILED.
AppendUnfinished(d) ==
  /\ pc[d] = "unfinished"
  /\ AppendDue(d)
  /\ Stop(d)
  /\ UNCHANGED <<item, report, results, worked, hindered, faults>>

\* Mutation of AppendCompleted: COMPLETED is recorded before the candidate.
AppendCompletedFirst(d) ==
  /\ pc[d] = "judge" /\ report[d] = "COMPLETED"
  /\ chain' = [chain EXCEPT ![Job(d)] = Append(@, Successor(Last(Job(d)), "COMPLETED",
                  SuppliedEvidence(d, WorkerEvidence \cup Success)))]
  /\ Goto(d, "return")
  /\ UNCHANGED <<item, closed, making, store, installing, report, results, worked,
                 hindered, faults>>

AppendCompleted(d) ==
  /\ pc[d] = "installed"
  /\ AppendDue(d)
  /\ Goto(d, "return")
  /\ UNCHANGED <<item, report, results, worked, hindered, faults>>

\* The result joins those of the earlier items; the next item begins.
Return(d) ==
  /\ pc[d] = "return"
  /\ results' = [results EXCEPT ![d] = Append(@, Job(d))]
  /\ IF item[d] < Len(Queues[d])
     THEN item' = [item EXCEPT ![d] = @ + 1] /\ Goto(d, "create")
     ELSE Goto(d, "done") /\ UNCHANGED item
  /\ UNCHANGED <<stores, report, worked, hindered, faults>>

-----------------------------------------------------------------------------
\* A call of the journal meets the half-made directory of another process.
RefusedByNeighbour(d) ==
  /\ pc[d] = "create" \/ Appending(d)
  /\ RootBlocked(d)
  /\ StopHindered(d)
  /\ UNCHANGED <<stores, report, results, worked, faults>>

\* A call of the journal fails: nothing is written, the record is whole and
\* the call raises all the same, or the record is torn and the job closed.
JournalFails(d) ==
  /\ Appending(d)
  /\ faults < MaxFaults /\ faults' = faults + 1
  /\ \/ UNCHANGED stores
     \/ AppendDue(d)
     \/ closed' = closed \cup {Job(d)} /\ UNCHANGED <<chain, making, store, installing>>
  /\ StopHindered(d)
  /\ UNCHANGED <<report, results, worked>>

\* The creation fails after its first directory: the root is blocked for good,
\* or the job is closed.
CreateFails(d) ==
  /\ pc[d] = "made"
  /\ faults < MaxFaults /\ faults' = faults + 1
  /\ \/ making' = [making EXCEPT ![Job(d)] = {"dead"}] /\ UNCHANGED closed
     \/ making' = [making EXCEPT ![Job(d)] = {}] /\ closed' = closed \cup {Job(d)}
  /\ StopHindered(d)
  /\ UNCHANGED <<chain, store, installing, report, results, worked>>

\* The installation fails: half way, which blocks the store for good, or after
\* the candidate is in place.  The job is recorded as FAILED in each case.
InstallFails(d) ==
  /\ pc[d] = "install"
  /\ faults < MaxFaults /\ faults' = faults + 1
  /\ \/ installing' = [installing EXCEPT ![Job(d)] = {"dead"}] /\ UNCHANGED store
     \/ installing' = [installing EXCEPT ![Job(d)] = {}] /\ store' = store \cup {Job(d)}
  /\ Goto(d, "unfinished")
  /\ UNCHANGED <<item, chain, closed, making, report, results, worked, hindered>>

\* The process dies, and what it has half made stays.
Die(d) ==
  /\ pc[d] \notin {"done", "stopped", "dead"}
  /\ faults < MaxFaults /\ faults' = faults + 1
  /\ Goto(d, "dead")
  /\ making' = [j \in Jobs |-> IF d \in making[j] THEN {"dead"} ELSE making[j]]
  /\ installing' = [j \in Jobs |-> IF d \in installing[j] THEN {"dead"} ELSE installing[j]]
  /\ hindered' = hindered \cup {Job(d)}
  /\ UNCHANGED <<item, chain, closed, store, report, results, worked>>

Step(d) ==
  \/ StartCreate(d) \/ RefuseCreate(d) \/ FinishCreate(d)
  \/ AppendRunning(d) \/ RunCodingJob(d)
  \/ AppendUnsuccessful(d)
  \/ StartInstall(d) \/ FinishInstall(d) \/ RefuseCandidate(d)
  \/ AppendUnfinished(d) \/ AppendCompleted(d) \/ Return(d)
  \/ RefusedByNeighbour(d)

Next ==
  \E d \in Dispatchers :
    Step(d) \/ JournalFails(d) \/ CreateFails(d) \/ InstallFails(d) \/ Die(d)

Spec == Init /\ [][Next]_vars

-----------------------------------------------------------------------------
TypeOK ==
  /\ item \in [Dispatchers -> Nat]
  /\ pc \in [Dispatchers ->
       {"create", "made", "start", "work", "judge", "install", "installed",
        "unfinished", "return", "done", "stopped", "dead"}]
  /\ chain \in [Jobs -> Seq(Lifecycles)]
  /\ closed \subseteq Jobs /\ store \subseteq Jobs /\ hindered \subseteq Jobs
  /\ {making, installing} \subseteq [Jobs -> SUBSET (Dispatchers \cup {"dead"})]
  /\ report \in [Dispatchers -> Reports \cup {"none", "raised"}]
  /\ results \in [Dispatchers -> Seq(Jobs)]
  /\ worked \in [Jobs -> Nat]
  /\ faults \in 0 .. MaxFaults

\* However many dispatchers are given the same job, and whatever fails, its
\* worker runs at most once ("Execute one request exactly once": the creation
\* of its lifecycle refuses every other).
OneExecution == \A j \in Jobs : worked[j] <= 1

\* No worker runs for a job whose lifecycle was not durably RUNNING first ("A
\* failure to durably create REQUESTED or RUNNING state prevents worker
\* execution").
WorkedMeansRunning ==
  \A j \in Jobs : worked[j] > 0 =>
    Len(chain[j]) >= 2 /\ chain[j][2].state = "RUNNING"

\* COMPLETED is never recorded for a job whose candidate is not in the store,
\* and its evidence is its own.
CompletedHasCandidate ==
  \A j \in Jobs : chain[j] # <<>> /\ Last(j).state = "COMPLETED" =>
    /\ j \in store
    /\ \A f \in Success \cup WorkerEvidence : Last(j).evidence[f] = j

\* No other dispatcher is given the job of this item.
Alone(d, i) ==
  \A e \in Dispatchers \ {d} : \A k \in DOMAIN Queues[e] : Queues[e][k].job # Queues[d][i].job

\* A job that no dispatcher is at work on is in a terminal state, unless one of
\* its own calls failed or met the half-made directory of another job: every
\* path out of an item records its outcome, and one that could not is RUNNING
\* or REQUESTED for good.
EndedMeansRecorded ==
  \A d \in Dispatchers : \A i \in DOMAIN Queues[d] :
    LET j == Queues[d][i].job
    IN  /\ i < item[d] \/ (i = item[d] /\ pc[d] \in {"done", "stopped"})
        /\ Alone(d, i)
        => \/ j \in hindered
           \/ chain[j] # <<>> /\ Last(j).state \in TerminalStates

\* A dispatcher that has stopped has touched nothing after the item that
\* raised, and has results of exactly the items before it: those jobs are
\* COMPLETED with their candidates, although the caller never sees them.
FirstFailureStops ==
  \A d \in Dispatchers :
    /\ results[d] = [i \in 1 .. IF pc[d] = "done" THEN item[d] ELSE item[d] - 1 |->
                       Queues[d][i].job]
    /\ \A i \in DOMAIN results[d] :
         Last(results[d][i]).state = "COMPLETED" /\ results[d][i] \in store
    /\ \A i \in DOMAIN Queues[d] :
         i > item[d] /\ Alone(d, i) =>
           chain[Queues[d][i].job] = <<>> /\ worked[Queues[d][i].job] = 0

-----------------------------------------------------------------------------
(***************************************************************************)
(* Why those hold: the creation of a lifecycle makes its dispatcher the    *)
(* only one at work on the job, so where that dispatcher is tells how far  *)
(* the lifecycle is.                                                       *)
(***************************************************************************)
RunningPCs == {"work", "judge", "install", "installed", "unfinished"}
OwnerPCs == {"made", "start", "return"} \cup RunningPCs

AtItem(d) ==
  /\ item[d] \in DOMAIN Queues[d]
  /\ pc[d] = "made" => making[Job(d)] = {d} /\ chain[Job(d)] = <<>>
  /\ pc[d] = "start" => chain[Job(d)] = <<RequestedLifecycle>>
  /\ pc[d] \in RunningPCs => Len(chain[Job(d)]) = 2 /\ Last(Job(d)).state = "RUNNING"
  /\ pc[d] = "work" => worked[Job(d)] = 0
  /\ pc[d] = "installed" => Job(d) \in store
  /\ pc[d] \in {"return", "done"} =>
       chain[Job(d)] # <<>> /\ Last(Job(d)).state = "COMPLETED"

DispatchInv ==
  /\ \A d \in Dispatchers : AtItem(d)
  /\ \A d, e \in Dispatchers :
       d # e /\ pc[d] \in OwnerPCs /\ pc[e] \in OwnerPCs => Job(d) # Job(e)
  /\ \A d \in Dispatchers : \A i \in DOMAIN results[d] : chain[results[d][i]] # <<>>
  /\ \A d \in Dispatchers : \A i \in DOMAIN Queues[d] :
       Alone(d, i) /\ (i > item[d] \/ (i = item[d] /\ pc[d] = "create")) =>
         chain[Queues[d][i].job] = <<>> /\ Queues[d][i].job \notin closed
=============================================================================
