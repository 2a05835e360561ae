----------------------------- MODULE MCChildren -----------------------------
(***************************************************************************)
(* An instance for TLC of the three modules about processes that are not   *)
(* to be trusted: a run of the sandbox, a run of an external worker, and   *)
(* the calls of one Aider request against the Docker daemon.  `part` says  *)
(* which of them a behaviour is about, and they share the variables that   *)
(* they have in common.  The limit, the reads and the outputs are so small *)
(* that an output ends below, at and beyond the limit, inside and across   *)
(* reads.                                                                  *)
(***************************************************************************)
EXTENDS SandboxRun

CONSTANTS c1, c2, Callers, MayDie, MayFail

MCCallers == {c1, c2}

VARIABLES
  part, expired, closed, reader, captured, grouped,
  outcome, evicting, force, client, request, container, ended

Worker == INSTANCE WorkerProcess
Aider == INSTANCE AiderContainer

ASSUME ChildrenAssumption ==
  Worker!WorkerProcessAssumption /\ Aider!AiderAssumption

workerOnly == <<expired, closed, reader, captured, grouped>>
aiderOnly == <<outcome, evicting, force, client, request, container, ended>>
sandboxOnly == <<events, registered, kept, terminating, late, drained>>
pipes == <<timedOut, truncated, leader, helper, holders, written, unread>>
allVars == <<vars, part, workerOnly, aiderOnly>>

NoPipes ==
  /\ timedOut = {} /\ truncated = {} /\ leader = {} /\ helper = {}
  /\ holders = {} /\ written = {} /\ unread = {}
NoSandbox ==
  /\ events = {} /\ registered = {} /\ kept = {} /\ terminating = {}
  /\ late = {} /\ drained = {}
NoWorker ==
  expired = {} /\ closed = {} /\ reader = {} /\ captured = {} /\ grouped = {}
NoAider ==
  /\ outcome = {} /\ evicting = {} /\ force = {} /\ client = {} /\ request = {}
  /\ container = {} /\ ended = {}

ChildrenInit ==
  \/ part = "sandbox" /\ Init /\ NoWorker /\ NoAider
  \/ part = "worker" /\ Worker!Init /\ NoSandbox /\ NoAider
  \/ part = "aider" /\ Aider!Init /\ NoPipes /\ NoSandbox /\ NoWorker

InSandbox(A) == part = "sandbox" /\ A /\ UNCHANGED <<part, workerOnly, aiderOnly>>
InWorker(A)  == part = "worker" /\ A /\ UNCHANGED <<part, sandboxOnly, aiderOnly>>
InAider(A)   == part = "aider" /\ A /\ UNCHANGED <<part, sandboxOnly, workerOnly, pipes>>

ChildrenNext == InSandbox(Next) \/ InWorker(Worker!Next) \/ InAider(Aider!Next)

\* The fairness of the three modules: the program's own code runs on, its
\* timeouts come, and the kernel ends the namespace of a dead leader.  Nothing
\* is asked of what it started: a program may hang or write for ever, the
\* reader of the worker's log may be blocked on a pipe that no one closes, a
\* container may never exit, and the daemon may never create or start it.
Progress(c) ==
  \/ InSandbox(Loop) \/ InWorker(Worker!Caller) \/ InAider(Aider!Run(c))
Deadlines(c) ==
  \/ InSandbox(Tick) \/ InWorker(Worker!Tick) \/ InAider(Aider!TimeOut(c))

ChildrenSpec ==
  /\ ChildrenInit /\ [][ChildrenNext]_allVars
  /\ \A c \in Callers : WF_allVars(Progress(c)) /\ WF_allVars(Deadlines(c))
  /\ WF_allVars(InSandbox(Reap))

-----------------------------------------------------------------------------
\* A result is the truth about processes that have ended: its output is all of
\* the output up to the limit, whoever wrote it, or is marked; its status is
\* their own, or is marked; and no container of a call that returned runs, then
\* or later.
ResultIsTrue ==
  /\ part = "sandbox" =>
       /\ TypeOK /\ SandboxInv
       /\ OutputIsAccounted /\ UnmarkedIsOwn /\ ResultMeansEnded
  /\ part = "worker" =>
       /\ Worker!TypeOK /\ Worker!WorkerInv
       /\ Worker!LogIsAccounted /\ Worker!StatusIsItsOwn
  /\ part = "aider" =>
       /\ Aider!TypeOK /\ Aider!AiderInv
       /\ Aider!ResultMeansNothingRuns /\ Aider!CompletedRanToTheEnd

\* Every run comes back, whatever its processes, the worker and the daemon do.
EveryRunReturns ==
  <>(CASE part = "sandbox" -> IsBack
       [] part = "worker"  -> Worker!IsBack
       [] OTHER            -> Aider!IsBack)

\* Only the call that made a container removes it.
NeverDeletesAnother == part = "aider" => Aider!NeverDeletesAnother
=============================================================================
