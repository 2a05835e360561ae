------------------------------ MODULE AutoLab ------------------------------
(***************************************************************************)
(* One session of the controller (run_auto_lab of lab_controller.py, with  *)
(* the acceptance test of lab_acceptance.py): a model is asked at most     *)
(* MaxIterations times for the next action on a workspace of files. The    *)
(* controller counts generations of the workspace, remembers which of them *)
(* was tested and accepted and what it wrote, and refuses what its         *)
(* evidence makes useless.                                                 *)
(*                                                                         *)
(* Runs read the workspace and write nothing (the sandbox binds it         *)
(* read-only); whether one succeeds is free, as it depends on the program  *)
(* and on timeouts. The answers of the model are free.                     *)
(***************************************************************************)
EXTENDS Integers, Sequences

CONSTANTS
  Paths,           \* the paths that the model writes
  Reserved,        \* the path of the acceptance test
  Contents,        \* the contents that it writes
  Seed,            \* what a path holds before the session
  Absent,          \* nothing known
  Actions,         \* the RUN actions, by their identity
  MaxIterations

ASSUME AutoLabAssumption ==
  /\ Reserved \in Paths
  /\ Absent \notin Contents \cup Actions
  /\ MaxIterations \in Nat \ {0}

VARIABLES
  acceptanceTest, \* whether the session has an acceptance test
  status,        \* how the session stands, and at last its result
  phase,         \* what the controller is doing within the iteration
  iteration,
  generation,    \* workspace_generation
  tested,        \* tested_generation
  testedAction,  \* tested_action_id
  failed,        \* failed_run_action_ids
  accepted,      \* acceptance_generation
  evidence,      \* acceptance_evidence_generation and the result's outcome
  known,         \* known_write_hashes
  files,         \* the workspace
  ran            \* history: what was executed on which workspace, and its outcome

vars == <<acceptanceTest, status, phase, iteration, generation, tested, testedAction,
          failed, accepted, evidence, known, files, ran>>
progress == <<tested, testedAction, failed, accepted>>

None == -1
NoEvidence == [generation |-> None, ok |-> FALSE]
Generations == {None} \cup (0 .. MaxIterations)

\* The acceptance test is seeded before the first iteration; a failure there
\* ends the session at once.
Init ==
  /\ acceptanceTest \in BOOLEAN
  /\ status = IF acceptanceTest THEN "seeding" ELSE "running"
  /\ phase = "deciding" /\ iteration = 0
  /\ generation = 0 /\ tested = None /\ testedAction = Absent
  /\ failed = {} /\ accepted = None /\ evidence = NoEvidence
  /\ known = [p \in Paths |-> Absent]
  /\ files = [p \in Paths |-> Seed]
  /\ ran = <<>>

End(result) == status' = result

\* The reserved path is created exclusively: never over a file that is there.
SeedAcceptance ==
  /\ status = "seeding"
  /\ status' \in {"running", "error"}
  /\ UNCHANGED <<acceptanceTest, phase, iteration, generation, progress, evidence, known, files, ran>>

-----------------------------------------------------------------------------
\* The model is asked once in every iteration.
Ask(next) ==
  /\ status = "running" /\ phase = "deciding" /\ iteration < MaxIterations
  /\ iteration' = iteration + 1
  /\ phase' = next

Record(kind, action, ok) ==
  ran' = Append(ran, [kind |-> kind, action |-> action, ok |-> ok,
                      generation |-> generation, files |-> files])

\* An answer that is only recorded: a refused completion or action, or a read.
Refuse ==
  /\ Ask("deciding")
  /\ UNCHANGED <<acceptanceTest, status, generation, progress, evidence, known, files, ran>>

\* The model gives no usable answer in time, or the action raises before it has
\* changed anything: the session fails closed.
FailClosed ==
  /\ Ask("deciding") /\ End("error")
  /\ UNCHANGED <<acceptanceTest, generation, progress, evidence, known, files, ran>>

IterationLimit ==
  /\ status = "running" /\ phase = "deciding" /\ iteration = MaxIterations
  /\ End("iteration_limit")
  /\ UNCHANGED <<acceptanceTest, phase, iteration, generation, progress, evidence, known, files, ran>>

IsTested == tested = generation
IsAccepted == acceptanceTest => accepted = generation

Done ==
  /\ IsTested /\ IsAccepted
  /\ Ask("deciding") /\ End("done")
  /\ UNCHANGED <<acceptanceTest, generation, progress, evidence, known, files, ran>>

RefuseDone == ~(IsTested /\ IsAccepted) /\ Refuse

-----------------------------------------------------------------------------

\* The policy of WRITE_FILE refuses the reserved acceptance path.
Writable(p) == p # Reserved

IsCurrent(p, content) == known[p] = content

\* A write of what the controller knows to be there is refused; a session with
\* an acceptance test that has not passed runs it instead, unless it has its
\* outcome for this generation already.
RefuseNoOp(p, content) ==
  /\ IsCurrent(p, content)
  /\ IF acceptanceTest /\ accepted # generation /\ evidence.generation # generation
       THEN Ask("diagnosing") ELSE Ask("deciding")
  /\ UNCHANGED <<acceptanceTest, status, generation, progress, evidence, known, files, ran>>

\* Mutations of Installed: the written hash of a path is remembered once only;
\* the generation is not advanced; the last acceptance outcome is kept.
InstalledOnce(p, content) ==
  /\ files' = [files EXCEPT ![p] = content]
  /\ known' = [known EXCEPT ![p] = IF @ = Absent THEN content ELSE @]
  /\ generation' = generation + 1
  /\ failed' = {} /\ testedAction' = Absent /\ evidence' = NoEvidence

InstalledSilently(p, content) ==
  /\ files' = [files EXCEPT ![p] = content]
  /\ known' = [known EXCEPT ![p] = content]
  /\ generation' = generation
  /\ failed' = {} /\ testedAction' = Absent /\ evidence' = NoEvidence

InstalledOnly(p, content) ==
  /\ files' = [files EXCEPT ![p] = content]
  /\ known' = [known EXCEPT ![p] = content]
  /\ generation' = generation + 1
  /\ failed' = {} /\ testedAction' = Absent /\ evidence' = evidence

\* The effects of a write that was installed and verified.
Installed(p, content) ==
  /\ files' = [files EXCEPT ![p] = content]
  /\ known' = [known EXCEPT ![p] = content]
  /\ generation' = generation + 1
  /\ failed' = {} /\ testedAction' = Absent /\ evidence' = NoEvidence

WriteFile(p, content) ==
  /\ Writable(p) /\ ~IsCurrent(p, content)
  /\ Ask("deciding")
  /\ Installed(p, content)
  /\ UNCHANGED <<acceptanceTest, status, tested, accepted, ran>>

\* A write that raises after the replacement of the file: the session ends.
WriteRaises(p, content) ==
  /\ Writable(p) /\ ~IsCurrent(p, content)
  /\ Ask("deciding") /\ End("error")
  /\ files' = [files EXCEPT ![p] = content]
  /\ UNCHANGED <<acceptanceTest, generation, progress, evidence, known, ran>>

-----------------------------------------------------------------------------
IsRedundant(a) == IsTested /\ testedAction = a
Runnable(a) == ~IsRedundant(a) /\ a \notin failed

RefuseRun(a) == ~Runnable(a) /\ Refuse

\* Mutation of RunFails: a failed RUN is forgotten.
RunFailsUnnoticed(a) ==
  /\ Runnable(a) /\ Ask("deciding")
  /\ Record("run", a, FALSE)
  /\ UNCHANGED <<acceptanceTest, status, generation, progress, evidence, known, files>>

\* It exits with another status than 0, is killed, or is cut off at the timeout
\* or at the output limit.
RunFails(a) ==
  /\ Runnable(a) /\ Ask("deciding")
  /\ failed' = failed \cup {a}
  /\ Record("run", a, FALSE)
  /\ UNCHANGED <<acceptanceTest, status, generation, tested, testedAction, accepted, evidence, known, files>>

\* Without an acceptance test the iteration ends here.
RunSucceeds(a) ==
  /\ Runnable(a)
  /\ Ask(IF IsAccepted THEN "deciding" ELSE "accepting")
  /\ tested' = generation /\ testedAction' = a
  /\ Record("run", a, TRUE)
  /\ UNCHANGED <<acceptanceTest, status, generation, failed, accepted, evidence, known, files>>

\* execute_lab_acceptance: the test is the one that was seeded, and has run.
AcceptanceRan(ok) ==
  /\ files[Reserved] = Seed
  /\ evidence' = [generation |-> generation, ok |-> ok]
  /\ Record("acceptance", Absent, ok)
  /\ phase' = "deciding"

\* Mutation of Accept: the accepted session goes on.
AcceptAndGoOn(ok) ==
  /\ phase = "accepting" /\ AcceptanceRan(ok)
  /\ accepted' = IF ok THEN generation ELSE accepted
  /\ UNCHANGED <<acceptanceTest, status, iteration, generation, tested, testedAction, failed, known, files>>

\* The acceptance of a successful RUN: when it passes the session is done.
Accept(ok) ==
  /\ phase = "accepting" /\ AcceptanceRan(ok)
  /\ IF ok THEN accepted' = generation /\ End("done") ELSE UNCHANGED <<accepted, status>>
  /\ UNCHANGED <<acceptanceTest, iteration, generation, tested, testedAction, failed, known, files>>

\* Mutation of Diagnose: a test that passes outside of a RUN ends the session.
DiagnoseAccepts(ok) ==
  /\ phase = "diagnosing" /\ AcceptanceRan(ok)
  /\ IF ok THEN accepted' = generation /\ End("done") ELSE UNCHANGED <<accepted, status>>
  /\ UNCHANGED <<acceptanceTest, iteration, generation, tested, testedAction, failed, known, files>>

\* The acceptance of a refused write only informs the model.
Diagnose(ok) ==
  /\ phase = "diagnosing" /\ AcceptanceRan(ok)
  /\ UNCHANGED <<acceptanceTest, status, iteration, generation, progress, known, files>>

\* The acceptance test is not the seeded one, or the sandbox raises.
AcceptanceRaises ==
  /\ phase \in {"accepting", "diagnosing"}
  /\ phase' = "deciding" /\ End("error")
  /\ UNCHANGED <<acceptanceTest, iteration, generation, progress, evidence, known, files, ran>>

Next ==
  \/ SeedAcceptance \/ Refuse \/ FailClosed \/ IterationLimit \/ Done \/ RefuseDone
  \/ \E p \in Paths, content \in Contents :
       RefuseNoOp(p, content) \/ WriteFile(p, content) \/ WriteRaises(p, content)
  \/ \E a \in Actions : RefuseRun(a) \/ RunFails(a) \/ RunSucceeds(a)
  \/ \E ok \in BOOLEAN : Accept(ok) \/ Diagnose(ok)
  \/ AcceptanceRaises

Spec == Init /\ [][Next]_vars

-----------------------------------------------------------------------------
Executions == [kind : {"run", "acceptance"}, action : Actions \cup {Absent}, ok : BOOLEAN,
               generation : 0 .. MaxIterations, files : [Paths -> Contents \cup {Seed}]]

TypeOK ==
  /\ acceptanceTest \in BOOLEAN
  /\ status \in {"seeding", "running", "done", "error", "iteration_limit"}
  /\ phase \in {"deciding", "accepting", "diagnosing"}
  /\ iteration \in 0 .. MaxIterations
  /\ generation \in 0 .. MaxIterations
  /\ tested \in Generations /\ accepted \in Generations
  /\ testedAction \in Actions \cup {Absent} /\ failed \subseteq Actions
  /\ evidence \in [generation : Generations, ok : BOOLEAN]
  /\ known \in [Paths -> Contents \cup {Absent}]
  /\ files \in [Paths -> Contents \cup {Seed}]
  /\ ran \in Seq(Executions)

Ran(kind, ok) == {i \in DOMAIN ran : ran[i].kind = kind /\ ran[i].ok = ok}

\* A session that is done has run successfully on the very files it leaves, and
\* the test it was given, unchanged, has passed on them: no later write, and no
\* result of an earlier generation, can stand for that.  With an acceptance test
\* it is done in the moment the test passes after a RUN: the model cannot
\* declare it done, and cannot write on.
DoneIsTested ==
  /\ status = "done" =>
       /\ \E i \in Ran("run", TRUE) : ran[i].files = files
       /\ acceptanceTest => /\ \E i \in Ran("acceptance", TRUE) : ran[i].files = files
                            /\ files[Reserved] = Seed
  /\ acceptanceTest => (status = "done" <=> accepted = generation)

\* The acceptance outcome that is shown to the model, and used in place of
\* another execution, is the last one, and of the files as they are.
EvidenceIsCurrent ==
  status = "running" /\ evidence # NoEvidence =>
    \E i \in Ran("acceptance", evidence.ok) :
      /\ evidence.generation = generation /\ ran[i].files = files
      /\ \A j \in DOMAIN ran : ran[j].kind = "acceptance" => j <= i

\* A write is refused as a no-op only when it would be one.
KnownIsThere ==
  status # "error" => \A p \in Paths : known[p] \in {Absent, files[p]}

\* A RUN is not executed again on an unchanged workspace once it has failed
\* there, and not twice in a row once it has succeeded.
RunsAreNotRepeated ==
  \A i, j \in DOMAIN ran :
    /\ i < j /\ ran[i].kind = "run" /\ ran[j].kind = "run"
    /\ ran[i].action = ran[j].action /\ ran[i].generation = ran[j].generation
    => ran[i].ok /\ \E k \in i + 1 .. j - 1 : ran[k].kind = "run" /\ ran[k].ok

\* What the controller refuses or skips on the strength of what it remembers
\* would have changed nothing and told the model nothing new.
RefusalsAreJustified == EvidenceIsCurrent /\ KnownIsThere /\ RunsAreNotRepeated

-----------------------------------------------------------------------------

(***************************************************************************)
(* The inductive invariant behind these properties.  It speaks of the      *)
(* workspace that the controller remembers, so that it also stands when    *)
(* someone else changes the files after the session.                       *)
(***************************************************************************)
Remembered == [p \in Paths |-> IF known[p] = Absent THEN Seed ELSE known[p]]

Ended == status \in {"done", "error", "iteration_limit"}

FilesAreRemembered == status # "error" => files = Remembered

\* The controller is within an iteration only while the session runs, and runs
\* the acceptance test only where its outcome is open.
PhasesAreOrderly ==
  /\ phase # "deciding" =>
       status = "running" /\ acceptanceTest /\ accepted # generation
  /\ phase = "accepting" => tested = generation
  /\ status = "seeding" => acceptanceTest

\* No number is ahead of the generation, and that not of the iterations.
GenerationsAreCounted ==
  /\ generation <= iteration /\ tested <= generation /\ accepted <= generation
  /\ \A i \in DOMAIN ran : ran[i].generation <= generation
  /\ evidence.generation \in {None, generation}
  /\ evidence.generation = None => ~evidence.ok

\* What is remembered of a generation was executed in it, on its workspace.
HistoryIsRemembered ==
  /\ known[Reserved] = Absent
  /\ \A i \in DOMAIN ran : ran[i].generation = generation => ran[i].files = Remembered
  /\ tested # None => \E i \in Ran("run", TRUE) : ran[i].generation = tested
  /\ accepted # None => \E i \in Ran("acceptance", TRUE) : ran[i].generation = accepted
  /\ evidence.generation # None =>
       \E i \in Ran("acceptance", evidence.ok) :
         /\ ran[i].generation = generation
         /\ \A j \in DOMAIN ran : ran[j].kind = "acceptance" => j <= i

\* Every failure of this generation is remembered, and its last success.
RunsAreRemembered ==
  \A i \in DOMAIN ran :
    ran[i].kind = "run" /\ ran[i].generation = generation =>
      IF ran[i].ok
        THEN \/ tested = generation /\ testedAction = ran[i].action
             \/ \E k \in i + 1 .. Len(ran) : ran[k].kind = "run" /\ ran[k].ok
        ELSE ran[i].action \in failed

OutcomeIsEarned ==
  /\ status = "done" => tested = generation
  /\ acceptanceTest => (status = "done" <=> accepted = generation)

SessionInv ==
  /\ TypeOK /\ PhasesAreOrderly /\ GenerationsAreCounted /\ HistoryIsRemembered
  /\ RunsAreRemembered /\ RunsAreNotRepeated /\ OutcomeIsEarned
=============================================================================
