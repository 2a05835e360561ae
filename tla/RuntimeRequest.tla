--------------------------- MODULE RuntimeRequest ---------------------------
(***************************************************************************)
(* The front door: each request is a process of its own (lab_coding_cli.py *)
(* and lab_coding_local_front_door.py), which takes it through             *)
(* LabCodingRuntime.run_request_bytes (lab_coding_runtime_intake.py): the  *)
(* candidate store's root is initialised or validated, then the lifecycle  *)
(* journal's, and one job is run over the two.                             *)
(*                                                                         *)
(* The initialisation takes no lock: the first processes meet in it, and   *)
(* each can die in it.  What a job does inside a store is CodingDispatch,  *)
(* CodingJobJournal and CandidateStore; here a job's record is begun and   *)
(* finished, and what is followed is the root above it: its two names, and *)
(* whether they would survive a power loss.                                *)
(***************************************************************************)
EXTENDS Naturals, FiniteSets

CONSTANTS
    Requests,     \* the processes
    MaxPowerLoss  \* bound

RequestsAssumption == MaxPowerLoss \in Nat

Roots == {"store", "journal"}
Names == {"lock", "directory"}   \* the lock, and `candidates` or `jobs`

VARIABLES
    pc,        \* where each process is
    root,      \* the root it initialises
    names,     \* per root, the names in it
    durable,   \* per root, those that a power loss leaves
    half,      \* per root, the jobs whose record is begun and not finished
    records,   \* per root, the jobs whose record is there, durable in itself
    stored,    \* history: the requests whose candidate was persisted
    answered,  \* history: the requests whose result was written to stdout
    losses     \* bound

roots == <<names, durable, half, records>>
told  == <<stored, answered>>
vars  == <<pc, root, roots, told, losses>>

Init ==
    /\ pc = [p \in Requests |-> "request"] /\ root = [p \in Requests |-> "store"]
    /\ names = [r \in Roots |-> {}] /\ durable = [r \in Roots |-> {}]
    /\ half = [r \in Roots |-> {}] /\ records = [r \in Roots |-> {}]
    /\ stored = {} /\ answered = {} /\ losses = 0

Goto(p, step) == pc' = [pc EXCEPT ![p] = step]
Raise(p)      == Goto(p, "raised") /\ UNCHANGED <<root, roots, told, losses>>

\* A malformed request, or directories that are not private: nothing is touched.
Reject(p) == pc[p] = "request" /\ Raise(p)

Receive(p) ==
    /\ pc[p] = "request" /\ Goto(p, "list")
    /\ UNCHANGED <<root, roots, told, losses>>

(***************************************************************************)
(* initialize_lab_coding_candidate_store and                               *)
(* initialize_lab_coding_job_lifecycle_journal_root.                       *)
(***************************************************************************)
At(p, r, step) == pc[p] = step /\ root[p] = r

\* Only an empty root is initialised.
List(p, r) ==
    /\ At(p, r, "list") /\ Goto(p, IF names[r] = {} THEN "lock" ELSE "validate")
    /\ UNCHANGED <<root, roots, told, losses>>

\* O_EXCL and mkdir: who made the lock also makes the directory.
MakeName(p, r, step, name, next) ==
    /\ At(p, r, step) /\ name \notin names[r]
    /\ names' = [names EXCEPT ![r] = @ \cup {name}] /\ Goto(p, next)
    /\ UNCHANGED <<root, durable, half, records, told, losses>>

MakeLock(p, r)      == MakeName(p, r, "lock", "lock", "directory")
MakeDirectory(p, r) == MakeName(p, r, "directory", "directory", "sync")
LockExists(p, r)    == At(p, r, "lock") /\ "lock" \in names[r] /\ Raise(p)

\* Mutant: the root is not synced.
SyncNothing(r) == UNCHANGED durable

\* os.fsync(root_fd).
Sync(r) == durable' = [durable EXCEPT ![r] = names[r]]

SyncRoot(p, r) ==
    /\ At(p, r, "sync") /\ Sync(r) /\ Goto(p, "validate")
    /\ UNCHANGED <<root, names, half, records, told, losses>>

\* Mutant: a root with its lock is taken for whole.
WholeLock(r) == "lock" \in names[r] /\ half[r] = {}

\* _validate_layout, _validate_initialized_root_fd: both names, and no record
\* that is half made, by a process at work or by a dead one.
Whole(r) == names[r] = Names /\ half[r] = {}

\* On to the journal's root, and then to the job.
AfterRoot(p, r) ==
    IF r = "store" THEN root' = [root EXCEPT ![p] = "journal"] /\ Goto(p, "list")
                   ELSE Goto(p, "create") /\ UNCHANGED root

Validate(p, r) ==
    /\ At(p, r, "validate") /\ Whole(r) /\ AfterRoot(p, r)
    /\ UNCHANGED <<roots, told, losses>>

Invalid(p, r) == At(p, r, "validate") /\ ~Whole(r) /\ Raise(p)

(***************************************************************************)
(* run_lab_coding_integration_request_with_lifecycle.  Every job has its   *)
(* own fresh session and run.                                              *)
(***************************************************************************)

AppendPCs == {"append_running", "append_failed", "append_completed"}

\* A record is begun only in a whole root, under its lock.
Begin(p, r, step, next) ==
    /\ pc[p] = step /\ Whole(r)
    /\ half' = [half EXCEPT ![r] = @ \cup {p}] /\ Goto(p, next)
    /\ UNCHANGED <<root, names, durable, records, told, losses>>

Refuse(p, r, step) == pc[p] = step /\ ~Whole(r) /\ Raise(p)

Finish(p, r) ==
    /\ half' = [half EXCEPT ![r] = @ \ {p}]
    /\ records' = [records EXCEPT ![r] = @ \cup {p}]
    /\ UNCHANGED <<root, names, answered, losses>>

BeginJob(p) == Begin(p, "journal", "create", "creating")

\* The lifecycle's create and append sync every directory, the root included.
FinishJob(p) ==
    /\ pc[p] = "creating" /\ Finish(p, "journal") /\ UNCHANGED stored /\ Sync("journal")
    /\ Goto(p, "append_running")

\* Its entry is one more file of a job that is there.
Append(p, step, next) ==
    /\ pc[p] = step /\ Whole("journal") /\ Sync("journal") /\ Goto(p, next)
    /\ UNCHANGED <<root, names, half, records, told, losses>>

AppendRunning(p)   == Append(p, "append_running", "work")
AppendFailed(p)    == Append(p, "append_failed", "raised")
AppendCompleted(p) == Append(p, "append_completed", "answer")

\* The worker, and the candidate built of what it did.
WorkCompleted(p) ==
    /\ pc[p] = "work" /\ Goto(p, "persist")
    /\ UNCHANGED <<root, roots, told, losses>>

BeginCandidate(p) == Begin(p, "store", "persist", "persisting")

\* Without a result of the worker, or without a candidate in the store, the
\* job is recorded as failed.
WorkFailed(p) ==
    /\ pc[p] \in {"work", "persist", "persisting"} /\ Goto(p, "append_failed")
    /\ UNCHANGED <<root, roots, told, losses>>

\* persist_lab_coding_candidate syncs `candidates` and not the root.
FinishCandidate(p) ==
    /\ pc[p] = "persisting" /\ Finish(p, "store") /\ stored' = stored \cup {p}
    /\ UNCHANGED durable /\ Goto(p, "append_completed")

Answer(p) ==
    /\ pc[p] = "answer" /\ Goto(p, "answered") /\ answered' = answered \cup {p}
    /\ UNCHANGED <<root, roots, stored, losses>>

\* A system call fails, or the process dies: nothing is cleaned up.
Die(p) ==
    /\ pc[p] \notin {"request", "answered", "raised"}
    /\ Goto(p, "raised") /\ UNCHANGED <<root, roots, told, losses>>

Process(p) ==
    \/ Reject(p) \/ Receive(p) \/ Die(p)
    \/ \E r \in Roots :
         \/ List(p, r) \/ MakeLock(p, r) \/ MakeDirectory(p, r) \/ SyncRoot(p, r)
         \/ LockExists(p, r) \/ Validate(p, r) \/ Invalid(p, r)
    \/ BeginJob(p) \/ FinishJob(p)
    \/ AppendRunning(p) \/ WorkCompleted(p) \/ BeginCandidate(p) \/ FinishCandidate(p)
    \/ WorkFailed(p) \/ AppendFailed(p) \/ AppendCompleted(p) \/ Answer(p)
    \/ \E step \in AppendPCs \cup {"create"} : Refuse(p, "journal", step)

\* Every process at work is gone, and so is any name that was not synced, with
\* what is below it.  A half-made record may be there or not.
PowerLoss ==
    /\ losses < MaxPowerLoss /\ losses' = losses + 1
    /\ \E left \in [Roots -> SUBSET Names] : \E torn \in [Roots -> SUBSET Requests] :
         /\ \A r \in Roots : durable[r] \subseteq left[r] /\ left[r] \subseteq names[r]
         /\ \A r \in Roots : torn[r] \subseteq half[r]
         /\ names' = left /\ durable' = left
         /\ half' = [r \in Roots |-> IF "directory" \in left[r] THEN torn[r] ELSE {}]
         /\ records' = [r \in Roots |-> IF "directory" \in left[r] THEN records[r] ELSE {}]
    /\ pc' = [p \in Requests |-> IF pc[p] \in {"request", "answered"} THEN pc[p] ELSE "raised"]
    /\ UNCHANGED <<root, told>>

Next == (\E p \in Requests : Process(p)) \/ PowerLoss

Spec == Init /\ [][Next]_vars

(***************************************************************************)
(* Properties.                                                             *)
(***************************************************************************)
InitPCs == {"list", "lock", "directory", "sync", "validate"}
JobPCs  == AppendPCs \cup {"create", "creating", "work", "persist", "persisting", "answer"}

TypeOK ==
    /\ pc \in [Requests -> InitPCs \cup JobPCs \cup {"request", "answered", "raised"}]
    /\ root \in [Requests -> Roots]
    /\ {names, durable} \subseteq [Roots -> SUBSET Names]
    /\ \A r \in Roots : durable[r] \subseteq names[r]
    /\ \A r \in Roots : half[r] \cup records[r] # {} => "directory" \in names[r]
    /\ {half, records} \subseteq [Roots -> SUBSET Requests]
    /\ stored \subseteq Requests /\ answered \subseteq Requests /\ losses \in 0 .. MaxPowerLoss

\* A job is only run between two whole roots, whoever else is initialising
\* them or died doing it: a process that meets a half-made root is refused.
JobsRunOnWholeRoots ==
    \A p \in Requests : pc[p] \in JobPCs => \A r \in Roots : names[r] = Names

\* A candidate in the store always belongs to a job that the journal knows,
\* after any race of initialisations, any death and any power loss.
CandidateHasItsJob == records["store"] \subseteq records["journal"]

\* A request that was answered stays on record: no power loss takes its job
\* back, whoever made the journal's root and whether or not it was synced then.
AnsweredIsRecorded == answered \subseteq records["journal"]

\* Why those hold: a process has seen the store's root whole before it looks at
\* the journal's, and the journal's before it begins a job; no root loses a name
\* while a process is at work; and the first job in the journal has made the
\* names above it durable, for itself and for the jobs and candidates that follow.
RequestInv ==
    /\ \A p \in Requests :
          /\ pc[p] = "request" => root[p] = "store"
          /\ pc[p] \in JobPCs => root[p] = "journal" /\ names["journal"] = Names
          /\ (root[p] = "journal" /\ pc[p] \in InitPCs \cup JobPCs) => names["store"] = Names
          /\ pc[p] \in JobPCs \ {"create", "creating"} => p \in records["journal"]
    /\ records["journal"] # {} => durable["journal"] = Names
=============================================================================
