------------------------------ MODULE MCCoding ------------------------------
(***************************************************************************)
(* An instance for TLC of the three modules of a coding job: dispatchers   *)
(* over their queues, one job from its workspace to its candidate, and     *)
(* requests in empty roots.  `part` says which of them a behaviour is      *)
(* about.                                                                  *)
(*                                                                         *)
(* The two dispatchers share two jobs, which they reach in opposite order, *)
(* and one of them has a job of its own in between.  The job has a target  *)
(* to modify, one to add and a path outside its policy.                    *)
(***************************************************************************)
EXTENDS CodingDispatch, TLC

CONSTANTS
  d1, d2, j1, j2, j3, s1, s2, s3, modified, added, outside, q1, q2, q3,
  Paths, Committed, Targets, Requests, MaxWrites, MaxLate, MaxPowerLoss

Item(j, s) == [job |-> j, session |-> s]

MCDispatchers == {d1, d2}
MCJobs == {j1, j2, j3}
MCSessions == {s1, s2, s3}
MCIds == MCJobs \cup MCSessions
MCQueues == [d \in MCDispatchers |->
  IF d = d1 THEN <<Item(j1, s1), Item(j2, s2)>>
            ELSE <<Item(j2, s2), Item(j3, s3), Item(j1, s1)>>]

MCPaths == {modified, added, outside}
MCCommitted == {modified, outside}
MCTargets == [p \in {modified, added} |-> IF p = added THEN "ADDED" ELSE "MODIFIED"]

MCRequests == {q1, q2, q3}
CodingSymmetry == Permutations(MCRequests)

VARIABLES
  part, workspace, before, after, again, reread, status, candidate, writes,
  moments, root, names, durable, half, records, stored, answered, losses

jobOnly == <<workspace, before, after, again, reread, status, candidate,
             writes, moments>>
requestOnly == <<root, names, durable, half, records, stored, answered, losses>>
dispatchOnly == <<item, stores, report, results, worked, hindered, faults>>
allVars == <<vars, part, jobOnly, requestOnly>>

CodingJob == INSTANCE CodingJob
Request == INSTANCE RuntimeRequest

ASSUME CodingAssumption ==
  /\ CodingJob!PathsAssumption /\ CodingJob!TargetsAssumption
  /\ CodingJob!BoundsAssumption
  /\ Request!RequestsAssumption

NoDispatch ==
  /\ item = {} /\ chain = {} /\ closed = {} /\ making = {} /\ store = {}
  /\ installing = {} /\ report = {} /\ results = {} /\ worked = {}
  /\ hindered = {} /\ faults = {}

NoJob ==
  /\ workspace = {} /\ before = {} /\ after = {} /\ again = {} /\ reread = {}
  /\ status = {} /\ candidate = {} /\ writes = {} /\ moments = {}

NoRequest ==
  /\ root = {} /\ names = {} /\ durable = {} /\ half = {} /\ records = {}
  /\ stored = {} /\ answered = {} /\ losses = {}

CodingInit ==
  \/ part = "dispatch" /\ Init /\ NoJob /\ NoRequest
  \/ part = "job" /\ CodingJob!Init /\ NoDispatch /\ NoRequest
  \/ part = "request" /\ Request!Init /\ NoDispatch /\ NoJob

CodingNext ==
  /\ UNCHANGED part
  /\ \/ part = "dispatch" /\ Next /\ UNCHANGED <<jobOnly, requestOnly>>
     \/ part = "job" /\ CodingJob!Next /\ UNCHANGED <<dispatchOnly, requestOnly>>
     \/ part = "request" /\ Request!Next /\ UNCHANGED <<dispatchOnly, jobOnly>>

CodingSpec == CodingInit /\ [][CodingNext]_allVars

-----------------------------------------------------------------------------
\* However many dispatchers have a job in their queues, and whatever fails, its
\* worker runs at most once, and only after a durable RUNNING; and COMPLETED
\* stands on a candidate in the store, with the evidence of that very job.
ExecutionIsOnRecord ==
  part = "dispatch" =>
    /\ TypeOK /\ DispatchInv
    /\ OneExecution /\ WorkedMeansRunning /\ CompletedHasCandidate

\* What a dispatcher has left behind is recorded: its jobs are in a terminal
\* state, and nothing behind the first failure was touched.
LeftMeansRecorded == part = "dispatch" => EndedMeansRecorded /\ FirstFailureStops

\* A candidate shows one moment of the workspace and the changes of its policy,
\* nothing else, although leftovers of the worker write while it is built; and
\* an unsafe change fails the job whatever its worker reports.
CandidateIsSound ==
  part = "job" =>
    /\ CodingJob!TypeOK /\ CodingJob!ScanInv /\ CodingJob!CandidateInv
    /\ CodingJob!CandidateIsAMoment
    /\ CodingJob!CandidateIsThePolicy
    /\ CodingJob!NoUnsafeJobReturns

\* A candidate has its job, and an answered request its record, in roots that
\* the first requests initialise together, through deaths and power losses.
RequestIsOnRecord ==
  part = "request" =>
    /\ Request!TypeOK /\ Request!RequestInv /\ Request!JobsRunOnWholeRoots
    /\ Request!CandidateHasItsJob
    /\ Request!AnsweredIsRecorded
=============================================================================
