------------------------------ MODULE Promotion ------------------------------
(***************************************************************************)
(* One MODIFY promotion carried through its three mutation boundaries: the *)
(* target preparer, the promotion executor and the rollback executor, over *)
(* a shared journal, a one-use approval and a repository.                  *)
(*                                                                         *)
(* Every worker is a process that may be started at any time, also twice,  *)
(* that fails at any system call and that may die between any two.  The    *)
(* journal is seen through the promise of PromotionLedger: an append is a  *)
(* compare-and-append on the snapshot the worker holds, which may also     *)
(* raise or die having left nothing, a torn record, or a whole record that *)
(* is not yet durable.  Look-ups are apart from the mutations they justify *)
(* and an inspection reads the journal before it reads the files, so every *)
(* gap between a check and its use is there.                               *)
(***************************************************************************)
EXTENDS PromotionTransaction, Sequences

CONSTANTS
  FileOrder,        \* the paths in canonical order
  Preparers, Executors, Rollbackers,   \* the processes of each boundary
  Scenarios         \* the casts and bounds under which a run is looked at

ASSUME FileOrderAssumption ==
  /\ FileOrder \in Seq(Paths)
  /\ \A p \in Paths : \E i \in DOMAIN FileOrder : FileOrder[i] = p
  /\ \A i, j \in DOMAIN FileOrder : FileOrder[i] = FileOrder[j] => i = j

ASSUME WorkersAssumption ==
  /\ Preparers \cap Executors = {}
  /\ Preparers \cap Rollbackers = {}
  /\ Executors \cap Rollbackers = {}

Workers == Preparers \cup Executors \cup Rollbackers

\* A scenario: the processes that an operator starts, whether it starts one
\* only when none runs (nothing in the code enforces it), and the bounds on
\* the system calls that fail, the processes that die in a call, the things
\* that other programs do to the repository, and the power losses.
ASSUME ScenariosAssumption ==
  Scenarios \subseteq [cast : SUBSET Workers, alone : BOOLEAN,
                       faults : Nat, crashes : Nat, edits : Nat, losses : Nat]

VARIABLES
  tip,        \* the snapshot at the tip of the journal
  readable,   \* FALSE while a torn record makes the journal fail closed
  fallback,   \* older tips a power loss could bring back
  fs,         \* each path's destination, promotion temp and rollback temp
  safe,       \* what a power loss would leave of each path
  stray,      \* an unrelated change makes Git's status unacceptable
  approval,   \* the one-use approval of this run
  evidence,   \* a preparation result was returned
  pc,         \* where each worker is
  looked,     \* the worker's current inspection has read the journal
  cur,        \* the snapshot each worker holds
  idx,        \* the file or the plan step each worker is at
  plan,       \* each rollback worker's plan
  scene,      \* the scenario
  spent,      \* how much of each of its bounds is used
  loose,      \* history: a worker ended with a change made and not yet durable
  race,       \* history: edits made while a worker was past its last check
  lost,       \* history: paths whose edited content a rename destroyed
  late,       \* history: paths each worker changed after a terminal snapshot
  installers  \* history: executors that renamed a promotion temp

journal == <<tip, readable, fallback>>
files   == <<fs, safe>>
rights  == <<approval, evidence>>
local   == <<cur, idx, plan>>
history == <<loose, race, lost, late, installers>>
bounds == <<scene, spent>>
vars == <<journal, files, stray, rights, pc, looked, local, bounds, history>>

Destinations == {"BEFORE", "AFTER", "OTHER"}
Temporaries  == {"ABSENT", "EXACT_TEMP", "UNEXPECTED_TEMP"}

FileStates == [dest : Destinations, temp : Temporaries, residue : BOOLEAN]

ActiveStates   == {"APPLYING", "VERIFYING", "ROLLING_BACK"}
TerminalStates == {"COMPLETED", "ROLLED_BACK", "RECOVERY_REQUIRED"}

Init ==
  /\ tip = PreparedTransaction /\ readable = TRUE /\ fallback = {}
  /\ fs = [p \in Paths |-> [dest |-> "BEFORE", temp |-> "ABSENT", residue |-> FALSE]]
  /\ safe = fs
  /\ stray = FALSE
  /\ approval = "approved" /\ evidence = FALSE
  /\ pc = [w \in Workers |-> "idle"]
  /\ looked = [w \in Workers |-> FALSE]
  /\ cur = [w \in Workers |-> PreparedTransaction]
  /\ idx = [w \in Workers |-> 0]
  /\ plan = [w \in Workers |-> <<>>]
  /\ scene \in Scenarios
  /\ spent = [faults |-> 0, crashes |-> 0, edits |-> 0, losses |-> 0]
  /\ loose = FALSE
  /\ race = {} /\ lost = {} /\ late = [w \in Workers |-> {}] /\ installers = {}

-----------------------------------------------------------------------------
(***************************************************************************)
(* Inspections.  Git's status refuses every untracked path but the         *)
(* promotion temporaries, so a rollback temporary left behind refuses them *)
(* all.                                                                    *)
(***************************************************************************)
GitAcceptable == ~stray /\ \A p \in Paths : ~fs[p].residue

At(p, dest, temp) == fs[p].dest = dest /\ fs[p].temp = temp

\* What inspect_promotion_prepared_target accepts, with every temp as given.
PreparedTarget(temp) == GitAcceptable /\ \A p \in Paths : At(p, "BEFORE", temp)

\* _require_applied_shape: what an executor expects of a path from its progress.
AppliedShape(t, p) ==
  CASE t.progress[p] = "PENDING"                 -> At(p, "BEFORE", "EXACT_TEMP")
    [] t.progress[p] \in {"INSTALLED", "VERIFIED"} -> At(p, "AFTER", "ABSENT")
    [] OTHER                                     -> FALSE

AllAfter == \A p \in Paths : At(p, "AFTER", "ABSENT")

-----------------------------------------------------------------------------
(***************************************************************************)
(* The rollback plan (lab_promotion_rollback_plan.py): a pure function of  *)
(* a snapshot and of what an inspection shows.                             *)
(***************************************************************************)
PlanStep(kind, p, progress, dest, temp) ==
  [kind |-> kind, path |-> p, progress |-> progress, dest |-> dest, temp |-> temp]

RestoreStep(p, progress) ==
  PlanStep("RESTORE_PREIMAGE", p, progress, "AFTER", "ABSENT")

MarkStep(p, progress) ==
  PlanStep("MARK_RESTORED", p, progress, "BEFORE", "ABSENT")

\* Mutations of FilePlans: a rename that was never recorded cannot be
\* planned for; is taken for done; a promotion temporary is left behind; a
\* restore that was never recorded cannot be planned for.
FilePlansNoReconcile(t, p) ==
  LET x == t.progress[p] IN
  CASE x = "PENDING" /\ At(p, "BEFORE", "EXACT_TEMP") ->
         {<<PlanStep("REMOVE_EXACT_TEMP", p, x, "BEFORE", "EXACT_TEMP")>>}
    [] x \in {"PENDING", "RESTORED"} /\ At(p, "BEFORE", "ABSENT") -> {<<>>}
    [] x \in {"INSTALLED", "VERIFIED"} /\ At(p, "AFTER", "ABSENT") ->
         {<<RestoreStep(p, x), MarkStep(p, x)>>}
    [] x \in {"INSTALLED", "VERIFIED"} /\ At(p, "BEFORE", "ABSENT") -> {<<MarkStep(p, x)>>}
    [] OTHER -> {}

FilePlansLeaveRename(t, p) ==
  IF t.progress[p] = "PENDING" /\ At(p, "AFTER", "ABSENT") THEN {<<>>}
  ELSE FilePlansNoReconcile(t, p)

FilePlansLeaveTemp(t, p) ==
  IF t.progress[p] = "PENDING" THEN {<<>>} ELSE FilePlansNoReconcile(t, p)

FilePlansNoMark(t, p) ==
  IF t.progress[p] \in {"INSTALLED", "VERIFIED"} /\ At(p, "BEFORE", "ABSENT") THEN {}
  ELSE FilePlansNoReconcile(t, p)

\* The steps for one path as a set of at most one sequence: empty when the
\* evidence is ambiguous and the planner refuses.
FilePlans(t, p) ==
  LET x == t.progress[p] IN
  CASE x = "PENDING" /\ At(p, "BEFORE", "EXACT_TEMP") ->
         {<<PlanStep("REMOVE_EXACT_TEMP", p, x, "BEFORE", "EXACT_TEMP")>>}
    [] x = "PENDING" /\ At(p, "BEFORE", "ABSENT") -> {<<>>}
    [] x = "PENDING" /\ At(p, "AFTER", "ABSENT") ->
         {<<PlanStep("RECONCILE_INSTALLED", p, x, "AFTER", "ABSENT"),
            RestoreStep(p, "INSTALLED"), MarkStep(p, "INSTALLED")>>}
    [] x \in {"INSTALLED", "VERIFIED"} /\ At(p, "AFTER", "ABSENT") ->
         {<<RestoreStep(p, x), MarkStep(p, x)>>}
    [] /\ x \in {"INSTALLED", "VERIFIED"} /\ At(p, "BEFORE", "ABSENT")
       /\ t.state = "ROLLING_BACK" -> {<<MarkStep(p, x)>>}
    [] /\ x = "RESTORED" /\ At(p, "BEFORE", "ABSENT")
       /\ t.state = "ROLLING_BACK" -> {<<>>}
    [] OTHER -> {}

BareStep(kind) == [kind |-> kind]

\* The steps of the files from the i-th on.
FileSteps(t) ==
  LET from[i \in 1 .. Len(FileOrder) + 1] ==
        IF i > Len(FileOrder) THEN <<>>
        ELSE (CHOOSE s \in FilePlans(t, FileOrder[i]) : TRUE) \o from[i + 1]
  IN  from[1]

Plannable(t) ==
  /\ t.state \in ActiveStates
  /\ GitAcceptable
  /\ \A p \in Paths : FilePlans(t, p) # {}

RollbackPlan(t) ==
  (IF t.state \in {"APPLYING", "VERIFYING"} THEN <<BareStep("ENTER_ROLLBACK")>>
                                            ELSE <<>>)
  \o FileSteps(t) \o <<BareStep("FINISH_ROLLBACK")>>

-----------------------------------------------------------------------------
(***************************************************************************)
(* What the steps of all workers are made of.                              *)
(***************************************************************************)
File(w) == IF w \in Rollbackers THEN plan[w][idx[w]].path ELSE FileOrder[idx[w]]

LastFile(w) == idx[w] = Len(FileOrder)

Go(w, next) == pc' = [pc EXCEPT ![w] = next]

\* One more of a kind of misfortune, within the scenario's bound.
Spend(kind) ==
  /\ spent[kind] < scene[kind] /\ spent' = [spent EXCEPT ![kind] = @ + 1]
  /\ UNCHANGED scene

\* Where an exception leads: inside the executors' try blocks to the
\* fail-closed handler, elsewhere straight out of the call.
OnFailure(w) ==
  IF w \in Preparers \/ pc[w] \in {"replan", "failing", "terminalize"}
  THEN "idle" ELSE "failing"

GiveUp(w) ==
  /\ Go(w, OnFailure(w))
  /\ UNCHANGED <<journal, files, stray, rights, local, bounds, history>>

\* An inspection: the journal must still hold the worker's snapshot, then the
\* files are looked at, and the caller compares.
InspectAt(w, at, sees, next, i) ==
  /\ pc[w] = at
  /\ \/ /\ ~looked[w] /\ readable /\ tip = cur[w]
        /\ looked' = [looked EXCEPT ![w] = TRUE]
        /\ UNCHANGED <<journal, files, stray, rights, pc, local, bounds, history>>
     \/ /\ ~looked[w] /\ ~(readable /\ tip = cur[w])
        /\ GiveUp(w) /\ UNCHANGED looked
     \/ /\ looked[w] /\ sees
        /\ looked' = [looked EXCEPT ![w] = FALSE]
        /\ Go(w, next) /\ idx' = [idx EXCEPT ![w] = i]
        /\ UNCHANGED <<journal, files, stray, rights, cur, plan, bounds, history>>
     \/ /\ looked[w] /\ ~sees
        /\ looked' = [looked EXCEPT ![w] = FALSE]
        /\ GiveUp(w)

\* The compare-and-append of append_promotion_transaction_snapshot.
Appendable(w, u) == readable /\ tip = cur[w] /\ Transition(tip, u) /\ u # tip

Appended(w, u, next, i) ==
  /\ Appendable(w, u)
  /\ tip' = u /\ fallback' = {}
  /\ cur' = [cur EXCEPT ![w] = u]
  /\ Go(w, next) /\ idx' = [idx EXCEPT ![w] = i]
  /\ UNCHANGED <<readable, files, stray, rights, looked, plan, bounds, history>>

\* The append raises, or its process dies, after it has touched the journal:
\* the record is torn, or it is whole without the caller knowing.
AppendBroken(w, u) ==
  /\ Appendable(w, u)
  /\ \/ readable' = FALSE /\ UNCHANGED <<tip, fallback, loose>>
     \/ /\ tip' = u /\ fallback' = fallback \cup {tip} /\ UNCHANGED readable
        /\ loose' = TRUE
  /\ \/ /\ Spend("faults")
        /\ Go(w, OnFailure(w))
     \/ /\ Spend("crashes")
        /\ Go(w, "idle")
  /\ UNCHANGED <<files, stray, rights, looked, local, race, lost, late, installers>>

AppendAt(w, at, u, next, i) ==
  /\ pc[w] = at
  /\ \/ Appended(w, u, next, i)
     \/ ~Appendable(w, u) /\ GiveUp(w) /\ UNCHANGED looked
     \/ AppendBroken(w, u)

\* A change to the files of path p by worker w, not durable yet.
Change(w, p, new) ==
  /\ fs' = [fs EXCEPT ![p] = new]
  /\ late' = IF tip.state \in TerminalStates
             THEN [late EXCEPT ![w] = @ \cup {p}] ELSE late

\* A rename over the destination: what is there now is gone.
Overwrite(w, p, new) ==
  /\ Change(w, p, new)
  /\ lost' = IF fs[p].dest = "OTHER" /\ <<w, p>> \notin race
             THEN lost \cup {p} ELSE lost
  /\ race' = {x \in race : x[1] # w}

\* The rename finds nothing to rename: its window closes.
Leave(w) == Go(w, "failing") /\ race' = {x \in race : x[1] # w}

MakeDurable(p) == safe' = [safe EXCEPT ![p] = fs[p]]

-----------------------------------------------------------------------------
(***************************************************************************)
(* prepare_promotion_target.                                               *)
(***************************************************************************)
StartPreparing(w) ==
  /\ w \in Preparers /\ pc[w] = "idle"
  /\ readable /\ tip = PreparedTransaction
  /\ PreparedTarget("ABSENT")
  /\ cur' = [cur EXCEPT ![w] = tip]
  /\ Go(w, "consume")
  /\ UNCHANGED <<journal, files, stray, rights, looked, idx, plan, bounds, history>>

\* The approval store claims the terminal record before it writes it: a
\* failure between the two leaves the approval unusable.
ConsumeApproval(w) ==
  /\ pc[w] = "consume"
  /\ \/ approval = "approved" /\ approval' = "consumed" /\ Go(w, "recheck")
        /\ UNCHANGED bounds
     \/ /\ approval = "approved" /\ approval' = "burnt" /\ Go(w, "idle")
        /\ Spend("faults")
     \/ /\ approval # "approved" /\ Go(w, "idle") /\ UNCHANGED <<approval, bounds>>
  /\ UNCHANGED <<journal, files, stray, evidence, looked, local, history>>

RecheckTarget(w) == InspectAt(w, "recheck", PreparedTarget("ABSENT"), "open", 1)

\* _prepare_one_temp: O_EXCL creation, then the bytes, then the fsyncs.
OpenTemp(w) ==
  /\ pc[w] = "open"
  /\ IF fs[File(w)].temp = "ABSENT"
     THEN /\ Change(w, File(w), [fs[File(w)] EXCEPT !.temp = "UNEXPECTED_TEMP"])
          /\ Go(w, "write")
     ELSE Go(w, "idle") /\ UNCHANGED <<fs, late>>
  /\ UNCHANGED <<journal, safe, stray, rights, looked, local, bounds, loose, race, lost, installers>>

WriteTemp(w) ==
  /\ pc[w] = "write"
  /\ Change(w, File(w), [fs[File(w)] EXCEPT !.temp = "EXACT_TEMP"])
  /\ Go(w, "syncTemp")
  /\ UNCHANGED <<journal, safe, stray, rights, looked, local, bounds, loose, race, lost, installers>>

\* Mutation of SyncTemp: the promotion temporary is not fsynced.
SyncTempNot(w) ==
  /\ pc[w] = "syncTemp"
  /\ IF LastFile(w) THEN Go(w, "survey") /\ UNCHANGED idx
                    ELSE Go(w, "open") /\ idx' = [idx EXCEPT ![w] = @ + 1]
  /\ UNCHANGED <<journal, files, stray, rights, looked, cur, plan, bounds, history>>

SyncTemp(w) ==
  /\ pc[w] = "syncTemp"
  /\ MakeDurable(File(w))
  /\ IF LastFile(w) THEN Go(w, "survey") /\ UNCHANGED idx
                    ELSE Go(w, "open") /\ idx' = [idx EXCEPT ![w] = @ + 1]
  /\ UNCHANGED <<journal, fs, stray, rights, looked, cur, plan, bounds, history>>

SurveyTarget(w) ==
  /\ pc[w] = "survey"
  /\ Go(w, IF PreparedTarget("EXACT_TEMP") THEN "certify" ELSE "idle")
  /\ UNCHANGED <<journal, files, stray, rights, looked, local, bounds, history>>

CertifyPreparation(w) ==
  /\ pc[w] = "certify"
  /\ evidence' = (evidence \/ (readable /\ tip = cur[w]))
  /\ Go(w, "idle")
  /\ UNCHANGED <<journal, files, stray, approval, looked, local, bounds, history>>

Prepare(w) ==
  \/ ConsumeApproval(w) \/ RecheckTarget(w)
  \/ OpenTemp(w) \/ WriteTemp(w) \/ SyncTemp(w)
  \/ SurveyTarget(w) \/ CertifyPreparation(w)

-----------------------------------------------------------------------------
\* Mutations of StartExecuting: without the evidence of a preparation; and
\* resuming an execution that another process began.
StartExecutingUnprepared(w) ==
  /\ w \in Executors /\ pc[w] = "idle"
  /\ readable /\ tip = PreparedTransaction
  /\ PreparedTarget("EXACT_TEMP")
  /\ cur' = [cur EXCEPT ![w] = tip]
  /\ Go(w, "apply")
  /\ UNCHANGED <<journal, files, stray, rights, looked, idx, plan, bounds, history>>

StartExecutingResumed(w) ==
  /\ w \in Executors /\ pc[w] = "idle"
  /\ readable /\ tip.state \in {"PREPARED", "APPLYING"}
  /\ evidence /\ approval = "consumed"
  /\ cur' = [cur EXCEPT ![w] = tip]
  /\ \E i \in DOMAIN FileOrder :
       /\ tip.progress[FileOrder[i]] = "PENDING" /\ idx' = [idx EXCEPT ![w] = i]
       /\ Go(w, IF tip.state = "PREPARED" THEN "apply" ELSE "examine")
  /\ UNCHANGED <<journal, files, stray, rights, looked, plan, bounds, history>>

(***************************************************************************)
(* execute_lab_promotion_transaction.  Its preconditions only read, and    *)
(* all but the consumed approval, which stays consumed, are read again     *)
(* before a file is touched.                                               *)
(***************************************************************************)
StartExecuting(w) ==
  /\ w \in Executors /\ pc[w] = "idle"
  /\ readable /\ tip = PreparedTransaction
  /\ evidence /\ approval = "consumed"
  /\ PreparedTarget("EXACT_TEMP")
  /\ cur' = [cur EXCEPT ![w] = tip]
  /\ Go(w, "apply")
  /\ UNCHANGED <<journal, files, stray, rights, looked, idx, plan, bounds, history>>

AppendApplying(w) ==
  AppendAt(w, "apply", WithState(cur[w], "APPLYING"), "examine", 1)

ExamineBefore(w) ==
  InspectAt(w, "examine", GitAcceptable /\ \A p \in Paths : AppliedShape(cur[w], p),
            "check", idx[w])

\* Mutation of CheckInstall: the files are not read again before the rename.
CheckInstallNot(w) ==
  /\ pc[w] = "check"
  /\ Go(w, "replace")
  /\ UNCHANGED <<journal, files, stray, rights, looked, local, bounds, history>>

\* _install_modify reads both files once more, then renames.
CheckInstall(w) ==
  /\ pc[w] = "check"
  /\ Go(w, IF At(File(w), "BEFORE", "EXACT_TEMP") THEN "replace" ELSE "failing")
  /\ UNCHANGED <<journal, files, stray, rights, looked, local, bounds, history>>

\* Mutation of ReplaceDestination: a copy, which leaves the temporary.
ReplaceDestinationByCopy(w) ==
  /\ pc[w] = "replace"
  /\ IF fs[File(w)].temp = "ABSENT"
     THEN Leave(w) /\ UNCHANGED <<fs, loose, lost, late, installers>>
     ELSE /\ Overwrite(w, File(w), [fs[File(w)] EXCEPT !.dest = "AFTER"])
          /\ installers' = installers \cup {w}
          /\ Go(w, "sync") /\ UNCHANGED loose
  /\ UNCHANGED <<journal, safe, stray, rights, looked, local, bounds>>

ReplaceDestination(w) ==
  /\ pc[w] = "replace"
  /\ IF fs[File(w)].temp = "ABSENT"
     THEN Leave(w) /\ UNCHANGED <<fs, loose, lost, late, installers>>
     ELSE /\ Overwrite(w, File(w),
               [fs[File(w)] EXCEPT
                  !.dest = IF fs[File(w)].temp = "EXACT_TEMP" THEN "AFTER" ELSE "OTHER",
                  !.temp = "ABSENT"])
          /\ installers' = installers \cup {w}
          /\ Go(w, "sync") /\ UNCHANGED loose
  /\ UNCHANGED <<journal, safe, stray, rights, looked, local, bounds>>

\* Mutations of SyncInstall: no fsync; and all files renamed before the first
\* is recorded.
SyncInstallNot(w) ==
  /\ pc[w] = "sync" /\ w \in Executors
  /\ Go(w, "reexamine")
  /\ UNCHANGED <<journal, files, stray, rights, looked, local, bounds, history>>

SyncInstallBatched(w) ==
  /\ pc[w] = "sync" /\ w \in Executors
  /\ MakeDurable(File(w))
  /\ IF LastFile(w) THEN Go(w, "reexamine") /\ UNCHANGED idx
                    ELSE Go(w, "check") /\ idx' = [idx EXCEPT ![w] = @ + 1]
  /\ UNCHANGED <<journal, fs, stray, rights, looked, cur, plan, bounds, history>>

SyncInstall(w) ==
  /\ pc[w] = "sync" /\ w \in Executors
  /\ MakeDurable(File(w))
  /\ Go(w, "reexamine")
  /\ UNCHANGED <<journal, fs, stray, rights, looked, local, bounds, history>>

ExamineAfter(w) ==
  InspectAt(w, "reexamine",
    /\ GitAcceptable
    /\ At(File(w), "AFTER", "ABSENT") /\ cur[w].progress[File(w)] = "PENDING"
    /\ \A p \in Paths \ {File(w)} : AppliedShape(cur[w], p),
    "record", idx[w])

AppendInstalled(w) ==
  AppendAt(w, "record", WithProgress(cur[w], File(w), "INSTALLED"),
           IF LastFile(w) THEN "turn" ELSE "examine", idx[w] + 1)

AppendVerifying(w) ==
  AppendAt(w, "turn", WithState(cur[w], "VERIFYING"), "verify", 1)

VerifyInstalled(w) ==
  InspectAt(w, "verify", GitAcceptable /\ AllAfter, "mark", idx[w])

AppendVerified(w) ==
  AppendAt(w, "mark", WithProgress(cur[w], File(w), "VERIFIED"),
           IF LastFile(w) THEN "final" ELSE "verify", idx[w] + 1)

FinalInspection(w) ==
  InspectAt(w, "final", GitAcceptable /\ AllAfter, "complete", idx[w])

AppendCompleted(w) ==
  AppendAt(w, "complete", WithState(cur[w], "COMPLETED"), "idle", 0)

Execute(w) ==
  \/ AppendApplying(w) \/ ExamineBefore(w) \/ CheckInstall(w)
  \/ ReplaceDestination(w) \/ SyncInstall(w) \/ ExamineAfter(w)
  \/ AppendInstalled(w) \/ AppendVerifying(w) \/ VerifyInstalled(w)
  \/ AppendVerified(w) \/ FinalInspection(w) \/ AppendCompleted(w)

-----------------------------------------------------------------------------
(***************************************************************************)
(* execute_lab_promotion_rollback on a plan its caller has just built from *)
(* the journal and an inspection.                                          *)
(***************************************************************************)
StepPC(step) ==
  CASE step.kind = "ENTER_ROLLBACK"      -> "enter"
    [] step.kind = "RECONCILE_INSTALLED" -> "reconcile"
    [] step.kind = "REMOVE_EXACT_TEMP"   -> "unplug"
    [] step.kind = "RESTORE_PREIMAGE"    -> "restore"
    [] step.kind = "MARK_RESTORED"       -> "unmark"
    [] step.kind = "FINISH_ROLLBACK"     -> "finish"

ThisStep(w) == plan[w][idx[w]]

\* Where the loop over the plan goes when a step is done.
NextStep(w) == StepPC(plan[w][idx[w] + 1])

StartRollback(w) ==
  /\ w \in Rollbackers /\ pc[w] = "idle"
  /\ readable /\ Plannable(tip)
  /\ cur' = [cur EXCEPT ![w] = tip]
  /\ plan' = [plan EXCEPT ![w] = RollbackPlan(tip)]
  /\ idx' = [idx EXCEPT ![w] = 0]
  /\ Go(w, "replan")
  /\ UNCHANGED <<journal, files, stray, rights, looked, bounds, history>>

\* _require_exact_plan: outside the try block, so a refusal changes nothing.
RequireExactPlan(w) ==
  InspectAt(w, "replan", Plannable(cur[w]) /\ plan[w] = RollbackPlan(cur[w]),
            NextStep(w), 1)

AppendRollingBack(w) ==
  AppendAt(w, "enter", WithState(cur[w], "ROLLING_BACK"), NextStep(w), idx[w] + 1)

\* _require_step_observation.
StepObserved(w) ==
  LET step == ThisStep(w) IN
  /\ cur[w].progress[step.path] = step.progress
  /\ GitAcceptable
  /\ At(step.path, step.dest, step.temp)

ObserveReconcile(w) == InspectAt(w, "reconcile", StepObserved(w), "reconciled", idx[w])

AppendReconciled(w) ==
  AppendAt(w, "reconciled", WithProgress(cur[w], File(w), "INSTALLED"),
           NextStep(w), idx[w] + 1)

\* Mutation of ObserveTemp: the journal is not read between two removals.
ObserveTempNot(w) ==
  /\ pc[w] = "unplug"
  /\ Go(w, "unplugCheck")
  /\ UNCHANGED <<journal, files, stray, rights, looked, local, bounds, history>>

ObserveTemp(w) == InspectAt(w, "unplug", StepObserved(w), "unplugCheck", idx[w])

CheckRemove(w) ==
  /\ pc[w] = "unplugCheck"
  /\ Go(w, IF At(File(w), "BEFORE", "EXACT_TEMP") THEN "unlink" ELSE "failing")
  /\ UNCHANGED <<journal, files, stray, rights, looked, local, bounds, history>>

UnlinkTemp(w) ==
  /\ pc[w] = "unlink"
  /\ IF fs[File(w)].temp = "ABSENT"
     THEN Go(w, "failing") /\ UNCHANGED <<fs, late>>
     ELSE /\ Change(w, File(w), [fs[File(w)] EXCEPT !.temp = "ABSENT"])
          /\ Go(w, "sync")
  /\ UNCHANGED <<journal, safe, stray, rights, looked, local, bounds, loose, race, lost, installers>>

\* Mutation of SyncStep: a restored destination is not fsynced.
SyncStepNot(w) ==
  /\ pc[w] = "sync" /\ w \in Rollbackers
  /\ Go(w, NextStep(w)) /\ idx' = [idx EXCEPT ![w] = @ + 1]
  /\ UNCHANGED <<journal, files, stray, rights, looked, cur, plan, bounds, history>>

SyncStep(w) ==
  /\ pc[w] = "sync" /\ w \in Rollbackers
  /\ MakeDurable(File(w))
  /\ Go(w, NextStep(w)) /\ idx' = [idx EXCEPT ![w] = @ + 1]
  /\ UNCHANGED <<journal, fs, stray, rights, looked, cur, plan, bounds, history>>

\* _restore_preimage: observe, stage the preimage in an O_EXCL temporary,
\* make it durable, check again, rename.  The temporary is never unlinked.
ObserveInstalled(w) == InspectAt(w, "restore", StepObserved(w), "stage", idx[w])

StagePreimage(w) ==
  /\ pc[w] = "stage"
  /\ IF fs[File(w)].residue
     THEN Go(w, "failing") /\ UNCHANGED <<fs, late>>
     ELSE /\ Change(w, File(w), [fs[File(w)] EXCEPT !.residue = TRUE])
          /\ Go(w, "syncStage")
  /\ UNCHANGED <<journal, safe, stray, rights, looked, local, bounds, loose, race, lost, installers>>

SyncStage(w) ==
  /\ pc[w] = "syncStage"
  /\ MakeDurable(File(w))
  /\ Go(w, "restoreCheck")
  /\ UNCHANGED <<journal, fs, stray, rights, looked, local, bounds, history>>

CheckRestore(w) ==
  /\ pc[w] = "restoreCheck"
  /\ Go(w, IF fs[File(w)].dest = "AFTER" /\ fs[File(w)].residue
           THEN "restoreReplace" ELSE "failing")
  /\ UNCHANGED <<journal, files, stray, rights, looked, local, bounds, history>>

RestorePreimage(w) ==
  /\ pc[w] = "restoreReplace"
  /\ IF fs[File(w)].residue
     THEN /\ Overwrite(w, File(w),
               [fs[File(w)] EXCEPT !.dest = "BEFORE", !.residue = FALSE])
          /\ Go(w, "sync")
     ELSE Leave(w) /\ UNCHANGED <<fs, lost, late>>
  /\ UNCHANGED <<journal, safe, stray, rights, looked, local, bounds, loose, installers>>

ObserveRestored(w) == InspectAt(w, "unmark", StepObserved(w), "restored", idx[w])

AppendRestored(w) ==
  AppendAt(w, "restored", WithProgress(cur[w], File(w), "RESTORED"),
           NextStep(w), idx[w] + 1)

\* _require_finish_ready: a new plan must have nothing left but its last step.
RequireFinishReady(w) ==
  InspectAt(w, "finish",
            Plannable(cur[w]) /\ RollbackPlan(cur[w]) = <<BareStep("FINISH_ROLLBACK")>>,
            "finished", idx[w])

AppendRolledBack(w) ==
  AppendAt(w, "finished", WithState(cur[w], "ROLLED_BACK"), "confirm", idx[w])

ConfirmRolledBack(w) ==
  /\ pc[w] = "confirm"
  /\ Go(w, IF readable /\ tip = cur[w] THEN "idle" ELSE "failing")
  /\ UNCHANGED <<journal, files, stray, rights, looked, local, bounds, history>>

Rollback(w) ==
  \/ RequireExactPlan(w) \/ AppendRollingBack(w)
  \/ ObserveReconcile(w) \/ AppendReconciled(w)
  \/ ObserveTemp(w) \/ CheckRemove(w) \/ UnlinkTemp(w) \/ SyncStep(w)
  \/ ObserveInstalled(w) \/ StagePreimage(w) \/ SyncStage(w)
  \/ CheckRestore(w) \/ RestorePreimage(w)
  \/ ObserveRestored(w) \/ AppendRestored(w)
  \/ RequireFinishReady(w) \/ AppendRolledBack(w) \/ ConfirmRolledBack(w)

-----------------------------------------------------------------------------
(***************************************************************************)
(* _fail_closed_state and _fail_closed: read the journal again, whatever   *)
(* it holds by now, and terminalize it while that is legal.                *)
(***************************************************************************)
Terminalizes(w) ==
  IF w \in Executors THEN {"APPLYING", "VERIFYING"} ELSE ActiveStates

FailClosed(w) ==
  /\ pc[w] = "failing"
  /\ IF readable /\ tip.state \in Terminalizes(w)
     THEN Go(w, "terminalize") /\ cur' = [cur EXCEPT ![w] = tip]
     ELSE Go(w, "idle") /\ UNCHANGED cur
  /\ UNCHANGED <<journal, files, stray, rights, looked, idx, plan, bounds, history>>

AppendRecoveryRequired(w) ==
  AppendAt(w, "terminalize", WithState(cur[w], "RECOVERY_REQUIRED"), "idle", 0)

Terminalize(w) == FailClosed(w) \/ AppendRecoveryRequired(w)

\* Any system call may fail, and the exception goes where OnFailure says.
Fault(w) ==
  /\ pc[w] # "idle" /\ Spend("faults")
  /\ Go(w, OnFailure(w)) /\ looked' = [looked EXCEPT ![w] = FALSE]
  /\ loose' = (loose \/ pc[w] = "sync")
  /\ race' = {x \in race : x[1] # w}
  /\ UNCHANGED <<journal, files, stray, rights, local, lost, late, installers>>

\* The process dies: no handler runs.
Crash(w) ==
  /\ pc[w] # "idle" /\ Spend("crashes")
  /\ Go(w, "idle") /\ looked' = [looked EXCEPT ![w] = FALSE]
  /\ loose' = (loose \/ pc[w] = "sync")
  /\ race' = {x \in race : x[1] # w}
  /\ UNCHANGED <<journal, files, stray, rights, local, lost, late, installers>>

\* Another program rewrites a destination, or drops or removes a file that
\* Git reports.
Edit(p) ==
  /\ Spend("edits")
  /\ fs' = [fs EXCEPT ![p].dest = "OTHER"]
  /\ safe' = [safe EXCEPT ![p].dest = "OTHER"]
  /\ race' = race \cup {<<w, p>> : w \in {v \in Workers :
                  pc[v] \in {"replace", "restoreReplace"} /\ File(v) = p}}
  /\ UNCHANGED <<journal, stray, rights, pc, looked, local, loose, lost, late, installers>>

Disturb ==
  /\ Spend("edits")
  /\ stray' = ~stray
  /\ UNCHANGED <<journal, files, rights, pc, looked, local, history>>

AppendPCs ==
  {"apply", "record", "turn", "mark", "complete", "enter", "reconciled",
   "restored", "finished", "terminalize"}

\* What a power loss may leave of a path: its state, its durable state, or a
\* temporary whose bytes were not durable.
AfterLoss(p) ==
  {fs[p], safe[p]} \cup
  (IF fs[p].temp = "EXACT_TEMP" /\ safe[p].temp # "EXACT_TEMP"
   THEN {[fs[p] EXCEPT !.temp = "UNEXPECTED_TEMP"]} ELSE {})

PowerLoss ==
  /\ Spend("losses")
  /\ fs' \in {f \in [Paths -> UNION {AfterLoss(p) : p \in Paths}] :
               \A p \in Paths : f[p] \in AfterLoss(p)}
  /\ safe' = fs'
  /\ tip' \in {tip} \cup fallback /\ fallback' = {}
  /\ readable' \in
       IF readable /\ fallback = {} /\ \A w \in Workers : pc[w] \notin AppendPCs
       THEN {TRUE} ELSE BOOLEAN
  /\ pc' = [w \in Workers |-> "idle"] /\ looked' = [w \in Workers |-> FALSE]
  /\ race' = {}
  /\ UNCHANGED <<stray, rights, local, loose, lost, late, installers>>

Step(w) == Prepare(w) \/ Execute(w) \/ Rollback(w) \/ Terminalize(w)

Quiet == \A w \in Workers : pc[w] = "idle"

Start(w) ==
  /\ w \in scene.cast /\ (scene.alone => Quiet)
  /\ StartPreparing(w) \/ StartExecuting(w) \/ StartRollback(w)

Next ==
  \/ \E w \in Workers : Start(w) \/ Step(w) \/ Fault(w) \/ Crash(w)
  \/ \E p \in Paths : Edit(p)
  \/ Disturb
  \/ PowerLoss

Spec == Init /\ [][Next]_vars

\* A running worker keeps running, and an operator whose plan can be built
\* starts the rollback again.
FairSpec ==
  /\ Spec
  /\ \A w \in Workers : WF_vars(Step(w))
  /\ \A w \in Rollbackers : WF_vars(Start(w))

-----------------------------------------------------------------------------
PCs ==
  {"idle", "failing", "consume", "recheck", "open", "write", "syncTemp",
   "survey", "certify", "examine", "check", "replace", "sync", "reexamine",
   "verify", "final", "replan", "reconcile", "unplug", "unplugCheck", "unlink",
   "restore", "stage", "syncStage", "restoreCheck", "restoreReplace", "unmark",
   "finish", "confirm"} \cup AppendPCs

\* What the planner may ask for a path, and the steps that open and close a plan.
FileMoves ==
  {PlanStep("RECONCILE_INSTALLED", p, "PENDING", "AFTER", "ABSENT") : p \in Paths}
  \cup {PlanStep("REMOVE_EXACT_TEMP", p, "PENDING", "BEFORE", "EXACT_TEMP") : p \in Paths}
  \cup {RestoreStep(p, x) : p \in Paths, x \in {"INSTALLED", "VERIFIED"}}
  \cup {MarkStep(p, x) : p \in Paths, x \in {"INSTALLED", "VERIFIED"}}

PlanSteps == FileMoves \cup {BareStep(k) : k \in {"ENTER_ROLLBACK", "FINISH_ROLLBACK"}}

TypeOK ==
  /\ readable \in BOOLEAN /\ \A t \in {tip} \cup fallback : ValidTransaction(t)
  /\ fs \in [Paths -> FileStates] /\ safe \in [Paths -> FileStates]
  /\ stray \in BOOLEAN /\ evidence \in BOOLEAN
  /\ approval \in {"approved", "consumed", "burnt"}
  /\ pc \in [Workers -> PCs] /\ looked \in [Workers -> BOOLEAN]
  /\ cur \in [Workers -> Snapshots] /\ idx \in [Workers -> Nat]
  /\ plan \in [Workers -> Seq(PlanSteps)]
  /\ scene \in Scenarios
  /\ spent \in [faults : Nat, crashes : Nat, edits : Nat, losses : Nat]
  /\ loose \in BOOLEAN
  /\ race \subseteq Workers \X Paths /\ lost \subseteq Paths
  /\ late \in [Workers -> SUBSET Paths] /\ installers \subseteq Workers

Untouched == spent.edits = 0

\* No destination changes before APPLYING is durable and the human approval of
\* this very run is spent, whatever the order in which workers are started.
WriteAhead ==
  Untouched =>
    \A p \in Paths :
      fs[p].dest = "AFTER" =>
        approval = "consumed" /\ evidence /\ tip.state # "PREPARED"

\* A promotion is installed by one execution: of all that were started on the
\* same PREPARED snapshot only the one that appended APPLYING ever renames.
OneInstaller == Cardinality(installers) <= 1

\* Every change had been made durable by the worker that made it before the
\* power went.  It takes one process at a time: of two rollbackers the faster
\* may go on from what it sees of a rename that the slower has not yet fsynced.
NothingLoose == spent.losses = 0 \/ (scene.alone /\ ~loose)

\* The journal never claims more than the disk shows: installed files are
\* installed, restored files are restored, and a file still PENDING is in one
\* of the three states a rollback can plan for.
JournalBacked ==
  Untouched /\ NothingLoose =>
    \A p \in Paths :
      LET x == tip.progress[p] IN
      /\ x = "RESTORED" => At(p, "BEFORE", "ABSENT")
      /\ x \in {"INSTALLED", "VERIFIED"} /\ tip.state \in {"APPLYING", "VERIFYING"} =>
           At(p, "AFTER", "ABSENT")
      /\ x \in {"INSTALLED", "VERIFIED"} => fs[p].temp = "ABSENT"
      /\ x = "PENDING" /\ tip.state \in ActiveStates =>
           \/ At(p, "BEFORE", "EXACT_TEMP")
           \/ At(p, "AFTER", "ABSENT")
           \/ At(p, "BEFORE", "ABSENT") /\ tip.state = "ROLLING_BACK"

\* COMPLETED means every file is installed, ROLLED_BACK that every file is as
\* it was and no promotion temporary is left, and both stay true while slower
\* workers of the same transaction still run.
OutcomeHolds ==
  Untouched =>
    /\ tip.state = "COMPLETED" => AllAfter
    /\ tip.state = "ROLLED_BACK" /\ NothingLoose =>
         \A p \in Paths : At(p, "BEFORE", "ABSENT")

\* An outcome is durable as well: unless a worker ended between a change and
\* its fsync, a power loss cannot undo what COMPLETED or ROLLED_BACK says.
OutcomeIsDurable ==
  scene.alone /\ Untouched /\ ~loose /\ tip.state \in {"COMPLETED", "ROLLED_BACK"} =>
    \A p \in Paths : safe[p].dest = fs[p].dest /\ safe[p].temp = fs[p].temp

Residue == \E p \in Paths : fs[p].residue

\* Wherever the workers died or gave up, an active transaction whose journal
\* can be read has a rollback plan, unless a rollback temporary was left
\* behind: Git's status then refuses every inspection.
CrashIsPlannable ==
  Quiet /\ readable /\ tip.state \in ActiveStates
    /\ Untouched /\ NothingLoose /\ ~Residue => Plannable(tip)

\* After a terminal snapshot a worker that was past its last look at the
\* journal finishes the one file it was at, and no worker goes on to another.
AtMostOneFileLate ==
  spent.losses = 0 => \A w \in Workers : Cardinality(late[w]) <= 1

\* An edit by another program is only ever overwritten when it fell between a
\* worker's last check of that file and its rename.
EditsSurvive == lost = {}

\* An active transaction comes to an end: it is completed, rolled back or left
\* to a human, or its journal is torn, or a rollback temporary blocks it.
ActiveEnds ==
  tip.state \in ActiveStates ~>
    tip.state \in TerminalStates \/ ~readable \/ Residue

-----------------------------------------------------------------------------
(***************************************************************************)
(* Why these hold: what is true of every worker wherever it is, of the     *)
(* claim an execution has on the transaction, and of the disk.             *)
(***************************************************************************)
\* The one approved preparation, the one execution, and the steps of a rollback.
PreparingPCs == {"recheck", "open", "write", "syncTemp", "survey", "certify"}

ExecutingPCs ==
  {"examine", "check", "replace", "sync", "reexamine", "record", "turn",
   "verify", "mark", "final", "complete"}

StepPCs(kind) ==
  CASE kind = "ENTER_ROLLBACK"      -> {"enter"}
    [] kind = "RECONCILE_INSTALLED" -> {"reconcile", "reconciled"}
    [] kind = "REMOVE_EXACT_TEMP"   -> {"unplug", "unplugCheck", "unlink", "sync"}
    [] kind = "RESTORE_PREIMAGE"    -> {"restore", "stage", "syncStage",
                                        "restoreCheck", "restoreReplace", "sync"}
    [] kind = "MARK_RESTORED"       -> {"unmark", "restored"}
    [] kind = "FINISH_ROLLBACK"     -> {"finish", "finished"}

RestoringPCs ==
  {"reconcile", "reconciled", "unplug", "unplugCheck", "unlink", "sync",
   "restore", "stage", "syncStage", "restoreCheck", "restoreReplace", "unmark",
   "restored", "finish", "finished"}

\* Where an inspection is made, and where a file of the order is worked on.
InspectPCs ==
  {"recheck", "examine", "reexamine", "verify", "final", "replan", "reconcile",
   "unplug", "restore", "unmark", "finish"}

OrderedPCs ==
  {"open", "write", "syncTemp", "examine", "check", "replace", "sync",
   "reexamine", "record", "verify", "mark"}

WholePlan(s) ==
  /\ s \in Seq(PlanSteps) /\ s # <<>>
  /\ \A i \in DOMAIN s : s[i].kind = "FINISH_ROLLBACK" <=> i = Len(s)

\* Where worker w can be, and what its index and its plan are there.
Placed(w) ==
  /\ w \in Preparers => pc[w] \in {"idle", "consume"} \cup PreparingPCs
  /\ w \in Executors =>
       pc[w] \in {"idle", "failing", "terminalize", "apply"} \cup ExecutingPCs
  /\ w \in Rollbackers =>
       pc[w] \in {"idle", "failing", "terminalize", "replan", "enter",
                  "confirm"} \cup RestoringPCs
  /\ looked[w] => pc[w] \in InspectPCs
  /\ w \notin Rollbackers /\ pc[w] \in OrderedPCs => idx[w] \in DOMAIN FileOrder
  /\ w \in Rollbackers /\ pc[w] \notin {"idle", "failing", "terminalize"} =>
       WholePlan(plan[w])
  /\ pc[w] = "replan" => idx[w] = 0
  /\ w \in Rollbackers /\ pc[w] \in {"enter"} \cup RestoringPCs =>
       /\ idx[w] \in DOMAIN plan[w]
       /\ pc[w] \in StepPCs(plan[w][idx[w]].kind)

RolledStates == {"ROLLING_BACK", "ROLLED_BACK", "RECOVERY_REQUIRED"}

\* The snapshot that w holds is as far on as the place it has reached.
Held(w) ==
  /\ pc[w] = "apply" => cur[w] = PreparedTransaction
  /\ w \in Executors /\ pc[w] \in ExecutingPCs => cur[w].state \in {"APPLYING", "VERIFYING"}
  /\ pc[w] \in {"replan", "enter", "terminalize"} => cur[w].state \in ActiveStates
  /\ w \in Rollbackers /\ pc[w] \in RestoringPCs => cur[w].state = "ROLLING_BACK"
  /\ w \in Rollbackers /\ pc[w] \notin {"idle", "failing"}
       /\ cur[w].state = "ROLLING_BACK" => tip.state \in RolledStates

\* The executors that hold the transaction or have held it.
Holders == installers \cup {w \in Executors : pc[w] \in ExecutingPCs}

\* Approval, preparation, APPLYING and the first rename follow one another,
\* and of each there is one.
ClaimInv ==
  /\ evidence => approval = "consumed"
  /\ tip.state # "PREPARED" => evidence
  /\ fallback # {} => loose /\ tip.state # "PREPARED"
  /\ \A t \in fallback : t.state \notin TerminalStates
  /\ \A w \in Preparers :
       pc[w] \in PreparingPCs =>
         /\ approval = "consumed" /\ ~evidence
         /\ \A v \in Preparers : pc[v] \in PreparingPCs => v = w
  /\ \A w \in Workers : pc[w] = "apply" => evidence
  /\ \A w \in Holders :
       /\ \A t \in {tip} \cup fallback : t.state # "PREPARED"
       /\ \A v \in Holders : v = w
  /\ \A p \in Paths : "AFTER" \in {fs[p].dest, safe[p].dest} => installers # {}

\* What w is about to rename over is what it has seen, or was edited since.
Guarded(w) ==
  /\ pc[w] = "replace" => fs[File(w)].temp # "UNEXPECTED_TEMP"
  /\ pc[w] \in {"replace", "restoreReplace"} /\ fs[File(w)].dest = "OTHER" =>
       <<w, File(w)>> \in race

\* A worker that has made a change after a terminal snapshot is still at that
\* file, or at its next look at the journal.
LateOnce(w) ==
  late[w] # {} =>
    /\ tip.state \in TerminalStates
    /\ \/ /\ pc[w] \in {"sync", "syncStage", "restoreCheck", "restoreReplace"}
          /\ late[w] = {File(w)}
       \/ /\ pc[w] \in InspectPCs \cup AppendPCs \cup {"idle", "failing"}
          /\ ~looked[w] /\ \E p \in Paths : late[w] = {p}

\* The only process there is holds the tip.
Alone(w) ==
  pc[w] # "idle" =>
    /\ \A v \in Workers : pc[v] # "idle" => v = w
    /\ pc[w] # "failing" => cur[w] = tip

Ready(f)     == f.dest = "BEFORE" /\ f.temp = "EXACT_TEMP"
Installed(f) == f.dest = "AFTER" /\ f.temp = "ABSENT"
Restored(f)  == f.dest = "BEFORE" /\ f.temp = "ABSENT"

\* A preparation makes one temporary after the other whole and durable.
PreparedInv ==
  Untouched =>
    /\ ~stray
    /\ ~evidence => \A p \in Paths : fs[p].dest = "BEFORE" /\ safe[p].dest = "BEFORE"
    /\ \A w \in Preparers :
         /\ pc[w] = "syncTemp" => fs[File(w)].temp = "EXACT_TEMP"
         /\ pc[w] \in {"open", "write", "syncTemp"} =>
              \A j \in DOMAIN FileOrder : j < idx[w] => Ready(safe[FileOrder[j]])
         /\ pc[w] \in {"survey", "certify"} => \A p \in Paths : Ready(safe[p])
         /\ pc[w] = "certify" => \A p \in Paths : Ready(fs[p])

\* A file of a prepared transaction only ever goes from ready to installed to
\* restored, or straight to restored, and snapshot t says no more of path p
\* than f shows.
Backed(t, p, f) ==
  /\ Ready(f) \/ Installed(f) \/ Restored(f)
  /\ t.progress[p] \in {"INSTALLED", "VERIFIED"} => ~Ready(f)
  /\ t.progress[p] = "RESTORED" \/ t.state = "ROLLED_BACK" => Restored(f)
  /\ t.state = "PREPARED" => Ready(f)
  /\ t.state \in {"APPLYING", "VERIFYING", "COMPLETED"} => ~Restored(f)

\* What a worker that is about to report has done or seen is still so.
Witnessed(w) ==
  /\ pc[w] \in {"sync", "reexamine", "record", "reconciled", "restoreReplace"} =>
       ~Ready(fs[File(w)])
  /\ pc[w] = "restored" => Restored(fs[File(w)])
  /\ pc[w] = "finished" => \A p \in Paths : Restored(fs[p])

\* Only the file that its one worker has changed and not yet fsynced differs
\* from what is durable.
Settled(p) ==
  \/ safe[p].dest = fs[p].dest /\ safe[p].temp = fs[p].temp
  \/ \E w \in Workers : pc[w] = "sync" /\ File(w) = p

DiskInv ==
  Untouched /\ NothingLoose /\ evidence =>
    /\ \A p \in Paths : Backed(tip, p, fs[p])
    /\ \A w \in Workers : Witnessed(w)
    /\ scene.alone /\ ~loose =>
         \A p \in Paths : Backed(tip, p, safe[p]) /\ Settled(p)

\* An execution that no one else has ended.
Owner(w) == pc[w] \in ExecutingPCs /\ cur[w] = tip

\* What it has installed and recorded stays installed, also on the disk, and so
\* does what COMPLETED says, whatever the workers before it left undurable.
InstallsInv ==
  Untouched =>
    /\ \A p \in Paths :
         /\ tip.state = "COMPLETED" \/ \E w \in Executors : Owner(w)
         /\ tip.progress[p] \in {"INSTALLED", "VERIFIED"}
         => Installed(fs[p]) /\ Installed(safe[p])
    /\ \A w \in Executors :
         Owner(w) =>
           /\ pc[w] \in {"sync", "reexamine", "record"} => Installed(fs[File(w)])
           /\ pc[w] \in {"reexamine", "record"} => Installed(safe[File(w)])

PromotionInv ==
  /\ TypeOK /\ ClaimInv /\ PreparedInv /\ DiskInv /\ InstallsInv
  /\ \A w \in Workers : Placed(w) /\ Held(w) /\ Guarded(w)
  /\ EditsSurvive
  /\ spent.losses = 0 => \A w \in Workers : LateOnce(w)
  /\ scene.alone => \A w \in Workers : Alone(w)

\* The inductive invariant, and what follows from it of a recovery: files change
\* under their claim only, the journal claims no more than the disk shows, and
\* every crash leaves a transaction that can be planned for.
RecoveryHolds == PromotionInv /\ WriteAhead /\ JournalBacked /\ CrashIsPlannable
=============================================================================
