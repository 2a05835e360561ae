# A formal model of Hands-Free Auto Lab

Hands-Free Auto Lab lets a model or an external worker change files in a
disposable workspace, stores what came out as a candidate, and lets a human
promote it into a real Git repository. This directory holds TLA+ modules of
both halves: the making of candidates (sessions, workers, workspaces, job
lifecycles, stores) and the promotion (intake, approvals, recovery materials,
journal, and the three processes that write to a repository). TLC checks the
modules on small instances; TLAPS proves every safety property that the runs
check, and all five refinements, for every value of the constants. Sources are
named by file, all under `src/src/hands_free_auto_lab/`.

## 1. Inventory

### Components, their state and their operations

| component | state it keeps | operations | modelled by |
|---|---|---|---|
| transaction state (`lab_promotion_transaction_state`) | none; immutable snapshots | build, validate, transition | `PromotionTransaction` |
| transaction journal (`..._transaction_journal`) | directory per transaction: `plan.json`, `snapshots/NNN.json`, one `flock` file per root | create, load, append | `PromotionJournal`, `PromotionLedger` |
| target preparer (`..._target_preparer`) | temporaries next to the destinations | `prepare_promotion_target` | `Promotion` |
| promotion executor (`..._executor`) | the destinations | `execute_lab_promotion_transaction` | `Promotion` |
| rollback planner (`..._rollback_plan`) | none | `build_lab_promotion_rollback_plan` | `Promotion` |
| rollback executor (`..._rollback_executor`) | the destinations, rollback temporaries | `execute_lab_promotion_rollback` | `Promotion` |
| inspections (`..._applied_target`, `..._prepared_target`) | none; they read | inspect | `Promotion` |
| approval store and state (`..._approval_store`, `..._approval_state`) | challenges, decisions, approvals, terminals; one lock | create, decide, query, consume | `ApprovalStore`; what the preparer sees of it, in `Promotion` |
| recovery materials (`lab_promotion_recovery_materials`) | preimages and manifest per transaction; one lock | initialise, create, load | `RecoveryMaterials`, `MaterialsVault` |
| inspector, proposal, preimage collector | none; they read the repository | inspect, build, collect | `PromotionIntake` |
| session candidate builder (`lab_promotion_candidate`) | none; it rereads a workspace | build | `SessionCandidate` |
| coding-job lifecycle (`lab_coding_job_lifecycle`) | none; immutable snapshots | build, validate, transition | `CodingJobLifecycle` |
| lifecycle journal (`..._lifecycle_journal`) | one chain per job, one lock for all jobs | initialise, create, append, load | `CodingJobJournal`, `CodingJobLedger`; the root, in `RuntimeRequest` |
| queue, dispatcher, integration, workflow | none beyond the lifecycle and the candidate | run one request, run a queue | `CodingDispatch` |
| coding job, worker job, change policy, candidate, snapshot | a workspace; two captures of it | seed, run, judge, build | `CodingJob` |
| candidate store | one file per candidate, one lock | initialise, persist, load | `CandidateStore`, `CandidateRegister`; the root, in `RuntimeRequest` |
| session audit | one file per session | write | `SessionAudit` |
| session controller, acceptance, policy, file actions | workspace generation, evidence, known contents | one model turn after another | `AutoLab` |
| sandbox executor | a child process, two pipes | run with deadline and output limit | `SandboxRun` |
| workers (Codex, Aider) | a child process, one pipe; a container | run with deadline and output limit | `WorkerProcess`, `AiderContainer` |
| workspaces, seeding | private directories | create, seed from a tree, seed from a commit | `WorkspaceSeed` |
| front doors, runtime intake | none; a process per request | run one request | `RuntimeRequest` |
| review packet, model adapter, wire records | none | parsing, serialisation | out of scope |

### How they interact

A coding request goes through the front door to the integration, which records
its lifecycle, runs a worker in a seeded workspace, derives a candidate from
the physical difference and stores it. A human looks at a proposal built from a
candidate, is challenged and approves it. The approval names a proposal. A
transaction is created in the journal as PREPARED, with recovery materials. The
preparer consumes the approval and writes one temporary per file; the executor
appends APPLYING, renames each temporary over its destination, journals
INSTALLED and VERIFIED per file and finally COMPLETED; after a failure a human
starts the rollback executor with a plan made from an inspection.

The three writers never call each other. They share the journal (a
compare-and-append under `flock`), the repository (no lock at all), the
approval store and the recovery materials. Each of them is a command a human
starts, possibly twice, possibly while another one still runs.

A session takes the other way to a candidate: the controller asks a model for
one action after another, runs programs in a sandbox, and the builder rereads
what was written. Requests are processes; they meet in the roots of the stores,
and each may be started again or twice.

### Hard behaviours

- two processes at a journal, a store, a container or the repository at once;
- a process that dies, or a system call that fails, between any two system
  calls: torn records, half-made directories, renames without a record,
  records without a renamed file, leftovers that block every later inspection;
- a power loss: names and bytes that were never fsynced;
- checks made before the change they justify, by the same process (hash then
  rename) or by another (plan then execution);
- a fail-closed handler that ends a transaction another process is working on;
- something read piece by piece (a workspace, a source tree, a repository
  through three Git commands) while it changes;
- child processes that fork, ignore signals, keep pipes open or outlive their
  deadline, and a daemon that acts on requests whose client is gone.

`PROJECT.json` lists each of these hazards with the line where it bites.

### What makes each component correct

- journal: what was acknowledged is durable, is never forked and never lost;
  a torn record is never read; a stale caller is always refused;
- approval store: one decision per challenge, one consumption per approval,
  an approval only from an approving decision in time, all across crashes;
- preparer, executor, rollback: nothing is installed without a consumed
  approval and a durable APPLYING; one installer; the journal never claims more
  than the disk; COMPLETED and ROLLED_BACK are true and durable; every crash
  can be planned for; somebody else's edit is not overwritten;
- recovery materials: made once, complete when shown, never lost once promised;
- intake: a proposal names a HEAD and the contents of that HEAD, as far as two
  looks can tell;
- lifecycle, dispatch: one execution and one outcome per job, the worker only
  after a durable RUNNING, COMPLETED only with its candidate;
- coding job, candidate builder: a candidate is one moment of the workspace,
  within the policy, and exactly what was tested;
- candidate store, audit: a record is there as a whole or not at all, under one
  name, for good;
- controller: DONE only on evidence about the current generation;
- executor, workers: a call returns; a result accounts for the output and the
  processes;
- seeding: a workspace belongs to one job and is one moment of its source.

## 2. Modules

| module | contents |
|---|---|
| `PromotionTransaction` | the pure rules: tables, invariants, successor rule; `Earlier`, the strict order behind the proofs |
| `PromotionLedger` | the abstract promise of the journal: four actions, no files |
| `PromotionJournal` | the journal, one system call per action; callers, deaths, power losses; refinement to the ledger; the inductive invariant |
| `Promotion` | preparer, executors and rollbackers over the journal's promise, a repository and an approval |
| `OneUseApproval` | the abstract promise of the approval store |
| `ApprovalStore` | the approval store, one system call per action: records, lock, clock, deaths, power losses; refinement to the promise |
| `RecoveryMaterials`, `MaterialsVault` | the materials, one system call per action; their promise |
| `PromotionIntake` | inspector, proposal and collector against the repository's user |
| `CodingJobLifecycle` | the pure rules of a job's lifecycle and evidence |
| `CodingJobJournal`, `CodingJobLedger` | the journal of all jobs, one system call per action; its promise |
| `CodingJob` | one job from the empty workspace to the candidate |
| `CodingDispatch` | dispatchers over the promises of the two stores and the outcomes of `CodingJob` |
| `CandidateStore`, `CandidateRegister` | the store, one system call per action; its promise |
| `SessionAudit` | the audit record, one system call per action |
| `AutoLab` | one session of the controller |
| `SessionCandidate` | extends `AutoLab` by the candidate builder and a process that changes files |
| `SandboxRun` | the capture loop of one sandboxed run |
| `WorkerProcess` | the command runner of the workers |
| `AiderContainer` | the container protocol of the Aider worker |
| `WorkspaceSeed` | creation and seeding of workspaces |
| `RuntimeRequest` | requests as processes that meet in the roots of the two stores |
| `MC...` | instances for TLC |
| `PromotionJournalProofs` | the tables only lead forward; theorems about the promotion journal, its refinement |
| `PromotionProofs` | what a rollback plan looks like, for any number of files; the parts of `PromotionInv`; the theorems about `Promotion` |
| `ApprovalStoreProofs`, `CodingJobJournalProofs`, `SessionCandidateProofs` | theorems about these components, two refinements |
| `StoresProofs` | theorems about the three parts of `MCStores`, two refinements |
| `CodingProofs` | theorems about the three parts of `MCCoding` |
| `OutsideProofs` | theorems about the children of `MCChildren`, and about intake and seeding |

The proofs of components that share a union (see section 3) extend the union, so
that their theorems are about the very formula that TLC checks; the constants are
those of the components and stay free. A union's `MC...` operators give values
only in a `.cfg`, and no proof mentions them.

### PromotionTransaction

A snapshot is `[state, progress]`, progress a function from the paths of the
transaction. The code identifies a snapshot by a digest over plan, state and
progress; within one transaction the record is that identity. `AllowedStates`
and `AllowedProgress` are the two tables, `ProgressPermitted` the invariants of
`_validate_state_invariants`, `Transition` what
`transition_lab_promotion_transaction` accepts. A successor equal to its
predecessor is legal here, as in the code; the journal refuses it.

### PromotionJournal

`home` is the transaction directory, its `snapshots` directory and its plan;
`entries` the records by sequence number. A file is *torn* from its O_EXCL
creation to its last byte (`good`), its bytes are durable after its fsync
(`synced`), its name after the fsync of the directory (`linked`). `pc` is the
system call a caller is at: every write, fsync and directory fsync of
`create_...` and `append_...` is an action of its own, in the code's order.
`Readable` is the whole-journal validation of
`_load_current_from_transaction_fd`; `AppendAllowed` is everything
`append_promotion_transaction_snapshot` checks before it writes. `Raise` lets
any system call fail; `Crash` kills a process; `PowerLoss` drops any set of
unlinked names and tears any set of unsynced files. `acks`, `told` and
`settled` are histories of what callers were told.

`ImplementsLedger` maps the journal to `PromotionLedger`: the chain a reader
would get, whether the journal is open, and the chain acknowledged. A record
that is being written does not count yet; a record left torn closes the ledger.

### Promotion

The journal appears through what the ledger promises: `tip`, `readable`, and
`fallback`, the tips that a power loss could bring back because an append ended
without an acknowledgement. A path has a destination (BEFORE, AFTER, OTHER), a
promotion temporary and a rollback temporary (`residue`); `safe` is what a power
loss would leave of it. Each worker has a program counter, the snapshot it
holds and the step it is at. Every look-up is an action apart from the change it
justifies; an inspection is two, since it reads the journal first and the files
later (`looked`). `Fault` makes the next system call fail and sends the worker
to the fail-closed handler where the code has one (`OnFailure`); `Crash` sends
it nowhere; `AppendBroken` is an append that dies or raises after touching the
journal. The rollback plan is the function `RollbackPlan`, defined by cases per
file as `_plan_file` is. `scene` is the scenario of a behaviour: who takes part,
whether one at a time, and how many faults of each kind may come.

Not in the module: ADD files, which the preparer refuses; the bytes of files,
which are one of three values; repository identity, branch, HEAD and the Git
index, which are one condition (`stray`) together with the rollback temporaries
that Git's status would report.

### ApprovalStore

Every challenge and approval is a directory (`dirs`: absent, made, or linked,
that is durable by an fsync of the directory above) with two write-once files
each (`files`, with the same four stages as in the journal). The writing of a
file is shared by all calls: `OpenFile`, `WriteFile`, `SyncFile`,
`SyncDirectory`, `SyncParent`; `Scan`, `StartDecide` and `ClaimTerminal` are the
checks in front of it, the `After...` actions what the call does or returns
next. `Begin` reads the clock for create and decide, before the lock, as the
code does; `StampTerminal` reads it for consume, after the claim. Identifiers
are drawn from a finite set and never twice, as 32 random bytes are not. `Raise`
is a failed system call or a death: files stay as they are and the kernel
releases the lock, so the two are one action. `asked`, `told` and `uses` are
histories of what humans asked and callers were told.

`OneUseApproval` is the promise to the preparer: withheld, offered, claimed for
one run, then used by that run or burnt; `ImplementsOneUse` maps the files and
the callers to it. Only a power loss may put a claim back on offer, and never
one whose use was reported.

Two weaknesses the module shows, both failing closed, are hazards in
`PROJECT.json`: records count for later calls before they are durable if the
call that wrote them failed before its fsync; and a challenge left half-made
stops every later creation.

### RecoveryMaterials

The content of every file is fixed by the transaction (a load compares
digests), so a file is a name and whether its bytes are whole (`entries`,
`bytes`); `safe` and `rootSafe` are the names that a power loss leaves.
`initialize_...` runs without the lock: `List`, then one action per name and one
for the fsync. A creation makes the directory, `preimages`, each preimage and at
last `manifest.json`, which is what a load looks for; `verify` is the reload at
the end of a creation. `RootReady` says whether the root was initialised and
synced before the behaviour starts. `MaterialsImplementVault` maps the files to
`MaterialsVault`: absent, being made, broken off for good, or shown.

### PromotionIntake

The repository is `trees` (the contents of each commit), `commit` and `branch`
(where HEAD is), the `index` and the working files. `Edit`, `Stage`, `Commit`
and `Switch` are its user, who is free to put back any content, branch or commit
at any time: a checkout, a reset or a stash is made of these steps. The
inspector takes `first` (three actions: branch, HEAD, status), records each destination with the rules of its source
(`MayBeAbsent`, `MayBePresent`), takes `second` and returns a proposal; the
collector repeats the bracket and keeps the bytes. `scene` is the scenario: the
candidate's paths in their order, and the bounds on commits and on the user's
moves.

The code compares values (branch, HEAD, a clean status), so it cannot notice
everything, and three history variables say what it cannot: `heads` are the
pairs of branch and HEAD since the call began, `away` is what has changed since
the call looked at it, and `missed` is, for each of the two calls, what had
changed when its last look at it found nothing. A branch is missed if it was left
and joined again between its two readings; a path, if it was changed after it was
read and holds what HEAD's commit holds at the second status; and "commit", if
HEAD moves between its second reading and that status. `HeadIsAMoment` leaves out
a missed branch; `Deceived(call, p)` is what `ProposalIsCommitted` leaves out of
one path, and `CollectedIsCommitted` only where both calls were deceived about it.
HEAD left and back between its two readings needs no exemption: what was read
under the other HEAD has to change again before the second status is clean.

### CodingJobLifecycle, CodingJobJournal

A lifecycle is a state and the identities of its evidence; `RequiredEvidence`
and `PermittedEvidence` are the tables of `_validate_state_invariants`,
`Successor` what `transition_...` builds and refuses, `Reconstructs` the check
by which the journal accepts only the builder's own results.

The journal has the shape of the promotion journal and differs where it matters:
one root and one lock serve all jobs, and each call validates the whole root,
first without and then with the lock (`Look`, `Acquire`), so that one job's
half-made directory (`HalfMade`) refuses the calls of every other. The unlocked
look is one action although it reads directory by directory: only a creation
changes the layout, and creations are alone under the lock. `ImplementsLedger`
maps it to one chain per job.

### CodingJob, CodingDispatch

In `CodingJob` a path holds the number of its last write, so contents never come
back to what they were; this is the module's one assumption, for the code
compares contents. The worker writes anything (`MaxWrites`) and leaves processes
that go on (`MaxLate`). Each capture is one action per path. `Judge` is the end
of `run_lab_worker_job`: the physical difference first, the report second.
`StartRecapture` and what follows it is the candidate builder's second look.

In `CodingDispatch` the lifecycle journal and the candidate store appear as what
their abstract modules promise, with every way a call can fail: before its
effect, after it, half way (the job or the store is closed from then on), or
refused since another process is half way. Jobs, sessions and their evidence
have distinct names, so that mixed-up evidence would show.

### CandidateStore, SessionAudit

A record is one file with two names in turn: created as temporary, written,
synced, linked to its final name, unlinked from the first, with directory
syncs between. The store has a lock and validates the whole directory with it;
a second link that a death leaves refuses every later call. The audit has no
lock: `O_EXCL` on the temporary name and `link` decide between writers.

### AutoLab, SessionCandidate

`files` is the workspace, `generation` counts its changes, `evidence` is what
the controller keeps (`tested`, `accepted` and the action that passed), `known`
the contents it wrote. `acceptanceTest` is chosen at the start. `ran` is the
history of runs with the contents they saw. The answers of the model and the
result of each run are free. The acceptance test writes a reserved path, which
the model may not (`Writable`). Runs write nothing, as the sandbox binds the
workspace read-only.

`SessionCandidate` extends it: after the session the builder checks the record,
then rereads every written path, one action each, while `Tamper` changes files.

### SandboxRun, WorkerProcess

Each has the parent's loop, a leader and a helper that the leader may leave
behind, pipes as counters of unread bytes and sets of holders, and a clock that
is one action (`Tick`: the deadline of the current wait passes). In the sandbox
bubblewrap's process namespace ends every process with the first (`Reap`); the
worker's processes are confined by nothing but their process group, and the
helper may be in it or not. In `WorkerProcess` a thread reads the pipe; the
caller may close the pipe under it.

### AiderContainer

`docker run` is a client with two requests, create and start; the daemon answers
them when it likes, also when their client is gone, or drops them. Each call
checks, starts the client, waits with a deadline, inspects and removes. The
container is named by the request, so two calls of a request mean the same name.

### WorkspaceSeed

Jobs make a workspace (`mkdir` decides between two of one session) and seed it
either from a source tree, all files inspected first and then copied one by one
with a comparison of their stat, or from the blobs of a commit, with HEAD and
status checked around. `scene` says which paths, sessions and commits the jobs are
given. An edit has a number: a file that was written never has the stat it had
before.

### RuntimeRequest

Each request is a process: it initialises or validates the candidate store's
root, then the journal's, then runs a job. Inside the stores only the beginning
and the end of a record are seen (`half`, `records`), since `CandidateStore`
and `CodingJobJournal` follow the steps; followed here is the root above them,
its two names and which of them are durable.

## 3. Runs

Every run is exhaustive within its bounds and takes one to three minutes.
Deadlock is not checked: calls, faults and iterations are bounded, so that every
instance comes to rest by design; that nothing waits for good is what the
liveness properties are for.

| run | instance | what it shows |
|---|---|---|
| `journal` | 2 callers, 1 path; 3 calls with 2 deaths and 2 power losses, or 4 calls without | acknowledged snapshots are durable and never forked, what was told is never forgotten, no snapshot returns, only the tail is torn; the inductive invariant; the refinement of `PromotionLedger`; every call returns |
| `promotion_crash` | 2 files; a preparer, an executor, a rollbacker; 1 failing call, 2 deaths | write-ahead, journal backed by the disk, plannable crashes, and that an active transaction ends |
| `promotion_races` | 2 files, four scenarios: 2 executors, 1 failing call, 1 death; 2 executors, 1 death, 1 edit; 2 rollbackers; one process at a time with 2 failing calls, 1 death and 2 power losses | one installer, true and durable outcomes, at most one late file, edits survive, and the three properties of `promotion_crash` again |
| `approval` | 2 callers, three scenarios: 1 challenge, 2 approvals, 4 calls, 1 power loss; 2 challenges, 2 proposals, 3 calls, a clock up to 2 that is set back once; 2 runs, 3 calls, 1 power loss | one use per decision and per approval, authorised and in time, decision before approval; what was told is durable; one open question; the refinement of `OneUseApproval` |
| `job_journal` | 2 callers, 2 jobs; 3 calls with 1 failing call or death and 1 power loss, or a fourth call that is a late append | durable and unforked histories with one outcome and constant evidence; a whole root under the lock; the refinement of `CodingJobLedger`; every call returns |
| `stores` | candidate store: 2 callers, 2 candidates, 4 calls, 1 failure, 1 death, 1 power loss; audit: 3 writers with the same faults; materials: 2 callers, 2 transactions, 3 calls, from a ready root with the same faults, and from an empty one without power losses | acknowledged evidence is durable, whole and unique; under the lock it is whole; the refinements of `CandidateRegister` and `MaterialsVault` |
| `coding` | 2 dispatchers with 2 shared jobs in opposite order and 1 of its own, 3 faults; 1 job with 3 paths, 2 writes of the worker and 2 of its leftovers; 3 requests in empty roots, deaths, 2 power losses | one execution per job and each on record; what is left behind is recorded; a candidate is a moment within the policy; jobs run between whole roots, and an answer stays recorded |
| `session` | 2 files, 2 contents, 2 actions, 6 answers of the model, with or without an acceptance test, then the builder and 2 changes by someone else | DONE means tested; what is refused is known; the candidate is what passed |
| `children` | `MCChildren`: sandbox and worker: a leader, a helper, 4 units of output, a limit of 2; Aider: 2 calls of one request, deaths and failing commands | a result is true of processes that have ended; every run comes back |
| `outside` | `MCOutside`: intake: 2 contents, 2 branches, 2 commits, 1 destination with 5 moves of the user or 2 with 2; seeding: 2 jobs of one session and 3 files, 2 jobs and 2 commits; 4 edits | what is proposed and collected was committed, unless the looks of the calls were deceived; a workspace is one moment of its source and belongs to one job |
| `aider_evicts` | 2 calls, nothing fails | **violated**: a call removes the container of another |
| `intake_clean` | as `outside` | **violated**: a proposal whose before-states are not its HEAD's |

Several instances are unions: `MCStores`, `MCCoding`, `MCChildren` and
`MCOutside` put modules that share no state behind a variable `part`, and an
initial state chooses one of them; their properties are conjunctions over the
parts, each conjunct named and commented in its module. `MCOutside` extends
`MCChildren` by the parts "intake" and "seed" and has its own initial states and
steps: in `outside` no child runs. In the same way `Promotion`, `ApprovalStore`,
`PromotionIntake` and `WorkspaceSeed` take a set of scenarios, each a cast with
its own bounds, of which `Init` chooses one, and `AutoLab` chooses whether its
session has an acceptance test. The type invariants are the first conjuncts of
`JournalInv`, `RecoveryHolds`, `ApprovalIsSound`, `HistoryIsSafe`, `DoneMeansTested`
and of the properties of the unions.

The inductive invariants behind the theorems are checked in the same runs, as
conjuncts of those properties, each before it was proved:

| property | inductive invariants in it |
|---|---|
| `JournalInv` (`journal`) | itself |
| `RecoveryHolds` | `PromotionInv` |
| `ApprovalIsSound` | `StoreInv`, `ChallengeFirst` |
| `HistoryIsSafe` | the lifecycle journal's `JournalInv` |
| `DoneMeansTested` | `CandidateInv` |
| `EvidenceIsSound` | `StoreInv` of the candidate store, `MaterialsInv`, and `ReadyInv` where the root is ready |
| `AuditIsForever` | `NamesInv`, `ProgressInv` |
| `ExecutionIsOnRecord` | `DispatchInv` |
| `CandidateIsSound` | `ScanInv`, `CandidateInv` of the coding job |
| `RequestIsOnRecord` | `RequestInv` |
| `ResultIsTrue` | `SandboxInv`, `WorkerInv`, `AiderInv` |
| `IntakeIsCommitted`, `SeedIsWhole` | `IntakeInv`, `SeedInv` |

### What the two violations say

- `NeverDeletesAnother`: `AiderWorker.run` looks for a container of its name,
  finds none and starts one; when `docker run` is refused since another call of
  the same request was faster, the inspection after it
  (`lab_aider_worker.py:1622`) finds that call's container, whose label is that
  of the request, and removes it, running or not. The code's own message at
  line 1607 promises the contrary.
- `ProposalMeansClean`: `_git_snapshot` reads HEAD before it reads the status
  (`lab_promotion_inspector.py:428`, `441`). An edit that is made after the first
  status and committed between the second HEAD and the second status is never
  dirty when someone looks, and the proposal pairs the old HEAD with the new
  contents. Nothing is put back in it: the property leaves out paths that were
  changed after they were read and hold, at the last look, what HEAD's commit
  holds. That is a second way to the same result, which no comparison of two
  looks can close; of the first, reading HEAD once more after the status would leave
  only a HEAD that is put back.

### Known gaps that no run claims

Found with these modules; the properties are stated so as not to assume them.

- `create_promotion_recovery_materials` may raise between the manifest and the
  last fsync above it (`lab_promotion_recovery_materials.py:1816`); a load then
  returns material that a power loss takes back.
- The initialisers of the materials and of the candidate store take no lock
  (`lab_promotion_recovery_materials.py:1410`,
  `lab_coding_candidate_store.py:240`): a second process finds both names before
  the first has synced the root, works below and is answered; a power loss may
  take everything. Hence `MCStores` checks power losses of the materials from a
  ready root, and `RequestIsOnRecord` claims of an answered request its journal
  record and not its candidate. The same shape is in the initialisers of the
  transaction journal (line 868) and of the approval store (line 721), whose
  roots the models take as initialised. The lifecycle journal is safe: every
  creation and append there syncs the root again.
- `_terminate_process_group` (`lab_codex_worker.py:494`) ends with the leader: a
  process of the group that ignores SIGTERM and does not hold the pipe runs on
  under a TIMED_OUT result.

### Bounds

Two callers meet in every way a lock allows; a third adds no new pair, except
where nothing is locked: the audit and the roots have three. Of the journals'
calls, a creation, a load by the other caller and two appends are what a fork
takes, so the fourth call belongs to behaviours without faults, and three calls
leave room for a failed write, its power loss and a reader of what remains. One
path gives the journal every state; two paths give `Promotion` a first file, a
last file and a crash between them, which is all the loops distinguish. Two
deaths let a rollback die that repairs a death of the executor; a third only
repeats the second. For safety a dead worker is one that never steps again,
which every behaviour's prefixes contain, so the scenario of two rollbackers has
no deaths: only restarts are missing, and `promotion_crash` has them. Two power
losses let the second hit what the first left. In the approval store failures
and deaths need no bound, for each ends a call and calls are bounded; a
challenge lives two clock units and an approval one, so that both ends of both
lives are met. Three jobs in two queues give a first, a middle and a last item,
and a pair reached in opposite order. A job with one modified, one added and one
foreign path has every kind of change a policy judges. Six answers are a write,
a run, DONE, the write that makes it stale, a run and DONE. An output of four
with a limit of two and a pipe of two is below, at and beyond each of them.
Three files let the middle one change between the inspection of the first and
the copy of the last.

The intake's user has two commits, two branches and five moves with one
destination: an edit, its staging and its commit while nobody looks, or an edit
put back in each of the two calls, and a move to spare. Every exemption of its
properties is met within these bounds: without any one of them the run fails.
Two destinations with two moves are the loop that goes on to another path.

One assumption restricts what others do, since the code can notice no more: in
`CodingJob` leftovers of a worker do not write a content that was there before,
for two equal looks would hide what happened between them.

### Fairness

`PromotionJournal!FairSpec`, `CodingJobJournal!FairSpec`: a process that can take
the next step of its call takes it, as the operating system schedules it. No
fairness is assumed for the start of calls, failures, deaths or power losses.
`Promotion!FairSpec` adds that a human restarts a rollback that can be planned;
the code has no retry of its own, and without the human an active transaction
stays as it is, by design. `ChildrenSpec`: the program's own loop goes on, its
deadlines come, since they are measured by a monotonic clock, and the kernel
ends the processes of a namespace whose first has died. Nothing is assumed of
the child, the thread that reads a pipe or the Docker daemon.

### Exemptions

The history exemptions of `Promotion` (`NothingLoose`, `Residue`, `race`) are
the places where the code gives no guarantee, each a hazard in `PROJECT.json`:
a worker that ends between a change and its fsync, a rollback temporary left
behind by a death, an edit between a check and a rename. `PromotionIntake` has
`missed` in the same role: what changed and shows in none of the two snapshots.
Everywhere else the properties hold without them. In the scenario with power losses one process
works at a time (`alone`), an assumption on the operator: a rollback started
while an executor is between a rename and its fsync records INSTALLED for a file
that a power loss can still take back.

`NothingLoose` says so too: after a power loss it takes one process at a time
(`scene.alone`) besides no worker that ended early. Without that,
`JournalBacked` is false, as the attempt to prove it showed: of two rollbackers
the faster may find the rename of the slower, which has not fsynced it yet, take
the step as done and record it; the power loss then takes the rename and keeps
the record.

## 4. Proofs

### The promotion journal (`PromotionJournalProofs`)

The tables only lead forward: `TransitionAdvances` says that a legal successor is
the same snapshot or a strictly later one, where later is `Earlier` over two
injective ranks, and `EarlierTransitive` and `EarlierAsymmetric` make that a
strict order.

The module proves for any finite non-empty set of paths, any
callers and any bounds:

- `TypeCorrect`: `Spec => []TypeOK`;
- `JournalIsInductive`: `Spec => []JournalInv`;
- `AcknowledgedIsDurable`: `Spec => []AckedIsDurable`;
- `SnapshotsNeverReturn`: `Spec => []NoSnapshotReturns`;
- `NoForkIsAcknowledged`: `Spec => []NoForkAcknowledged`;
- `NothingIsForgotten`: `Spec => []NothingToldIsForgotten`;
- `JournalImplementsLedger`: `Spec => ImplementsLedger`, the refinement.

The argument: `AckedIsDurable` is not inductive, since it says nothing of the
call that is about to acknowledge. `JournalInv` supplies it: whoever is past its
checks holds the lock alone (`LockInv`), so no other call changes the files
under it; how far a creation or a write has come determines what is already
durable (`CreateInv`, `EntryInv`), so that at the last step everything is; no
part is kept without what is above it (`HomeInv`); records advance strictly
(`OrderInv`), so a caller whose snapshot equals the tip has not missed anything;
an acknowledgement carries the predecessor of its record (`AckInv`), which turns
a fork into two records with the same predecessor and contradicts the order. A
power loss keeps all of it because it touches only what is not yet synced or
linked, and at the same time ends every call.

`NothingToldIsForgotten` takes two parts more. What an append checked still holds
when its record is opened, and while the record is written all records but that
one could be read (`RecordInv`); so a record is torn only at the end, as long as
no power was lost. What was told is on the disk, and what a write has settled is
there under durable names, with every directory above it (`HistoryInv`); so a
power cut takes nothing that a write returned.

The refinement follows step by step. A step that leaves the disk alone shows what
it showed, unless it ends the call at work on a torn record or a half-made
journal: that is `Seal`. Of the steps that write, only the last byte of a record
publishes: before it `Unfinished` holds, and with it `Readable`; that the new
chain is legal and has no snapshot twice is `OrderInv`. `Acknowledge` is `Settle`.
After a power loss the journal can be read, and extends what was settled
(`HistoryInv`), or its transaction is gone, and nothing was settled: `Relapse`;
or it is closed: `Seal`.

### The promotion (`PromotionProofs`)

For any files in any order, any preparers, executors and rollbackers, and any
scenarios, that is any bounds on failing calls, deaths, edits and power losses,
the theorems `PromotionWriteAhead`, `PromotionOneInstaller`,
`PromotionJournalBacked`, `PromotionOutcomeHolds`, `PromotionOutcomeIsDurable`,
`PromotionCrashIsPlannable`, `PromotionAtMostOneFileLate` and
`PromotionEditsSurvive` state every safety property of the two promotion runs;
`PromotionRecoveryHolds` adds the inductive invariant `PromotionInv` itself.

None of the properties is inductive, since each speaks of the journal and the
disk and says nothing of a worker between a look and the change that the look
justified. `PromotionInv` supplies that in layers, each proved from those before:

- *places* (`Placed`, `Held`): where a worker of each kind can be, that its index
  is within the order or its plan, that the step it performs is the one its plan
  names, and how far on the snapshot is that it holds. A plan ends with
  FINISH_ROLLBACK and has it nowhere else, for any number of files
  (`OnlyFinishMeansRestored` and the lemmas around it). The plan is a recursive
  function over the order, and these lemmas are inductions over a *set* of
  numbers, since the library's induction theorems take a predicate as a
  parameter.
- *one claim* (`ClaimInv`): one preparation spends the approval; evidence follows
  from it; APPLYING is appended to PREPARED once, since an append needs the tip
  its caller holds; so of all executors one at most ever gets past `apply`, and
  every installation is its own. `OneInstaller` and `WriteAhead` follow.
- *edits* (`Guarded`): at the moment of a rename the destination is what the
  worker saw, or it was edited after that look, which `race` remembers.
- *preparation* (`PreparedInv`): the temporaries behind the one at hand are whole
  and durable, so that evidence means they all are.
- *the disk* (`DiskInv`): once prepared, a file only goes from ready to installed
  to restored or straight to restored (`Backed`), never back, whoever moves it.
  What a worker is about to record is therefore still so when it appends, even
  if others moved on meanwhile (`Witnessed`). With one process at a time the same
  holds of what a power loss would leave, but for the file at hand (`Settled`).
- *installations* (`InstallsInv`): `DiskInv` speaks only while no power was lost
  under an undurable change, but COMPLETED promises more: whatever happened
  before, what its owner has installed, fsynced and recorded, stays.
- *late files* (`LateOnce`) and *one process at a time* (`Alone`), each under the
  scenarios that need it.

Assumed: the paths are finite and not empty, `FileOrder` lists each once, the
three kinds of workers are disjoint, a scenario's bounds are natural numbers.

### The approval store (`ApprovalStoreProofs`)

For any processes, challenges, approvals, proposals and runs, any lifetimes, any
course of the clock within its bound and any bounds on calls and power losses:
`ApprovalAlwaysSound` (one use, by an authorised run, resting on a durable
decision; with the inductive invariant `StoreInv`), `AnswersAreDurable`,
`NeverTwoQuestions`, and `StoreImplementsOneUse`, the refinement of
`OneUseApproval`.

The argument rests on two facts about files. A file that can be read is never
written again, since every writer creates it with O_EXCL; and a file that is
durable, with every directory above it, outlives whatever fails. All that a
human or a run is told is read off files of the second kind at the last step of
the call (`WorkInv`: how far a call is in writing determines what is durable
already). Uses are one since the terminal record is one (`UsesInv`). The
question is one since a creation, under the lock, has seen each earlier challenge
decided, lapsed or its own (`QuestionInv`). The lock admits one worker past its claim
(`LockInv`); a death releases it and leaves files as they are.

For the refinement, a step either leaves the phase of every approval as it is or
moves one approval along the promise. An approval goes on offer exactly when its
own record is written: the decision it rests on is durable before the approval
exists, and the challenge was written before it was decided (`ChallengeFirst`, the
only part that `StoreInv` lacks). A claim, a use and the end of a claiming call
are the other moves. A power loss keeps what was used, since a use is durable
when it is answered, and may take any other approval back or burn it.

Assumed: challenges and approvals have different names, lifetimes are positive,
the bounds of a scenario are natural numbers.

### The lifecycle journal (`CodingJobJournalProofs`)

For any processes, jobs, identities of evidence, and bounds: `CodingJobHistory`
(every job has one history; what was acknowledged is there for good, with one
outcome, no fork, and evidence that is never replaced) and `CodingJobRootIsWhole`
(while nothing has failed, a half-made job directory belongs to a creation that
is under way, so no call is refused under the lock for it), and
`JobJournalImplementsLedger`, the refinement of `CodingJobLedger`.

The argument is that of the promotion journal with one job more: a call past its
checks holds the one lock and touches the one job it is about, so a step leaves
the other jobs' files alone. A transition goes strictly forward in rank and keeps
recorded evidence (`TransitionAdvances`, `TransitionKeeps`); along a chain both
hold from every record to every later one (`ChainInv`), which gives one outcome
and, with the predecessor that an acknowledgement remembers, no fork.

For the refinement, what is shown is taken apart by job (`ShownByJob`): a step
shows in the job of its call or nowhere. Three parts of `JournalInv` are there
for it. `RecordInv` carries what was checked before a record is opened to the
moment it is whole, so that the last byte publishes a legal successor. `KeptInv`
says that no record below an acknowledged one can be lost either, and `LastInv`
that a job's acknowledged places have a last one, which makes the settled chain
of the mapping well defined. A call that ends with its record torn, or before the
first record, closes its own job. After a power loss a job that can be read shows
a first part of what it showed before, with all that was settled.

Assumed: `NoId` is not an identity, bounds are natural.

### Session and candidate builder (`SessionCandidateProofs`)

For any files, contents, actions, iterations and later changes:
`DoneIsWhatWasTested`, `RefusalsRestOnKnowledge` and `OfferedIsWhatPassed`. The
invariant ties `tested`, `accepted` and `evidence` to a run of the current
generation that saw the files as the controller remembers them; a write opens a
generation and takes the evidence away; the builder's reread accepts a file only
with the remembered content, so what others change after the session cannot get
into a candidate.

### Candidate store, audit and materials (`StoresProofs`)

For any callers, candidates, transactions with any preimages, audit writers, and
any bounds on calls, failures, deaths and power losses:

- `EvidencesAreSound`: what a persist, a creation or a load returned is durable;
  a manifest stands on whole, durable preimages; the lock shows whole evidence
  while nothing fails;
- `AuditsAreForever`: the record a writer was told of is the session's for good,
  and writers that hinder each other do not all fail;
- `StoresImplementRegister`, `StoresImplementVault`: the two refinements.

The candidate store has the argument of the journals: the one writer past its
checks holds the lock (`LockInv`), a candidate's two names and which of them are
durable follow from the writer's position (`WriterInv`), and what has its final
name is whole, and durable or with its first name still there (`DiskInv`). In
the materials nothing is there without the directories above it (`TreeInv`), how
far a creation has come says which preimages are synced and linked, all of them
before the manifest is opened (`CreatorInv`), and what was acknowledged stays
that way (`KeptInv`). In a root that is being initialised the same invariant
holds without `ReadyInv`; what is lost is that the root's own names are durable,
which is the known gap above, and there the proof claims no more than the run.
The audit needs no lock: whoever is past a look holds the name that `O_EXCL` or
`link` gave it (`NamesInv`), and as long as nothing failed each name belongs to
a writer that is still at work or was told (`ProgressInv`); for that there must
be a writer, `Writers # {}`.

A candidate counts in the register from the unlink of its first name on, and a call
that ends before that closes it. A power loss may bring that name back, which
closes the store too, and takes nothing that a persist returned. In the vault a
transaction is being made from its `mkdir` to its manifest's last byte, a call that
ends in between breaks it off, and a power loss takes nothing that was
acknowledged.

### Dispatch, job and request (`CodingProofs`)

- `CodingExecutions`, `CodingLeavesARecord`: for any dispatchers, queues that
  overlap in any way, and bounds on faults. A step changes the lifecycle of one job
  and lengthens it (`StepSummary`); a job belongs to one dispatcher from its creation
  to its outcome, since the journal refuses a second creation (`DispatchInv`), so
  nobody else moves it between its RUNNING and its end.
- `CandidatesAreSound`: for any paths, any targets and any writes of the worker and
  its leftovers. A scan sees of each path a version that is not ahead of the
  workspace; if a second scan sees what the first one saw, versions between them did
  not change, so the end of the first scan is the moment (`ScanInv`). That a content
  never returns is the module's assumption.
- `RequestsAreOnRecord`: for any requests, started any number of times. A root that
  a process has found whole keeps its names as long as that process runs, because a
  power loss ends it; the first job in the journal makes the names above durable.

### Children, intake and seeding (`OutsideProofs`)

- `ChildrenResultsAreTrue`: for any limits and outputs, whatever a program, its
  helper, a worker and a daemon do. What was kept and the mark tell of exactly the
  bytes that left the pipe; an unwatched stream has no writer; nothing is signalled
  before a mark is set (`SandboxInv`, `WorkerInv`). An Aider call asks for a
  container once, and when it has returned, at most a creation is left with the
  daemon, which nobody starts (`AiderInv`).
- `IntakesAreCommitted`: for any candidates, contents, branches, commits and moves
  of a user who may put back whatever was there before; it has no hypothesis on
  him. A branch that has not changed since it was read is that of the HEAD which
  was read after it (`BranchInv`). What was recorded of a path is what it still
  holds, unless it has changed since the loop came to it; a clean second status
  then makes that the content of HEAD's commit, which is the HEAD that was read
  unless it moved just before (`PathInv`). The loop leaves no path out
  (`LoopInv`), and a collector that goes on has met the HEAD and the contents of
  its proposal (`CollectInv`), so each call vouches for the paths about which the
  other was deceived. What the theorem leaves out is `missed` and nothing else,
  and the violation `intake_clean` is one part of it.
- `SeedsAreWhole`: for any jobs, sessions, paths and commits. `mkdir` gives a
  workspace to one job (`OwnInv`); an edit never brings back a number, so of all
  trees since a job began to look, the one at the end of its preflight had each
  file it has copied since, and each that is still as the preflight saw it
  (`TreeInv`); a commit that was HEAD once has its tree for good (`CommitInv`).

### Assumptions and what is left to TLC

The assumptions are the named ASSUMEs of the modules that declare the constants,
those of the unions being the assumptions of their components; TLC evaluates
each on a run. The proofs are of the modules as they are checked: no run
replaces a definition.

Checked with TLC only is the liveness, `EveryCallReturns` of the two journals,
`ActiveEnds` of the promotion and `EveryRunReturns` of the children: fairness and
`ENABLED` are out of reach of the prover's backends here.

What stays an abstraction in the theorems as in the runs: the bounds on calls,
failures and edits are arbitrary but finite numbers; a content is a value and never
a digest; and `CodingDispatch` and `RuntimeRequest` speak of the stores as their
promises, which the refinements prove of the stores, each store by itself.

## 5. Not modelled

Parsing and serialisation of requests, queues, results, review packets and
model output; configuration; hashing and canonical encodings; command lines of
sandboxes, containers and workers; checks of owners, modes, types and link
counts, except where a second link is left by a death; limits on the sizes of
walks, files and texts; the status report and the query of the approval store,
which only read. They are functions of one input without state or interaction,
and unit tests reach them. The liveness of dispatchers, sessions and of the
candidate and materials stores is not checked: a dispatcher and a session are
loops over a bounded range of calls, each of which ends by a timeout or by the
release of a lock as in the journals.
