----------------------- MODULE SessionCandidateProofs -----------------------
(***************************************************************************)
(* What a session promises, and the candidate that is built from it, for   *)
(* any number of files, contents, RUN actions, iterations and later        *)
(* changes.                                                                *)
(*                                                                         *)
(* CandidateInv is inductive.  Its parts are proved one after the other,   *)
(* each with one step per group of actions: the quiet ones change nothing  *)
(* that is remembered; a write opens a generation; a RUN and an acceptance *)
(* append to the history.                                                  *)
(***************************************************************************)
EXTENDS SessionCandidate, TLAPS

USE DEF progress

-----------------------------------------------------------------------------

(* Two facts about sequences. *)

LEMMA Appended ==
  ASSUME NEW S, NEW s \in Seq(S), NEW e \in S
  PROVE  /\ Append(s, e) \in Seq(S)
         /\ Len(Append(s, e)) = Len(s) + 1 /\ Len(s) \in Nat
         /\ DOMAIN s = 1 .. Len(s) /\ DOMAIN Append(s, e) = 1 .. Len(s) + 1
         /\ \A i \in 1 .. Len(s) : Append(s, e)[i] = s[i] /\ s[i] \in S
         /\ Append(s, e)[Len(s) + 1] = e
OBVIOUS

-----------------------------------------------------------------------------

(* The groups of actions. *)

Quiet ==
  UNCHANGED <<acceptanceTest, generation, progress, evidence, known, files, ran>>

RunMove(a, ok) ==
  /\ status = "running" /\ Runnable(a) /\ Record("run", a, ok)
  /\ IF ok THEN tested' = generation /\ testedAction' = a /\ failed' = failed
           ELSE tested' = tested /\ testedAction' = testedAction /\ failed' = failed \cup {a}
  /\ UNCHANGED <<acceptanceTest, generation, accepted, evidence, known, files>>

AcceptanceMove(ok) ==
  /\ phase # "deciding" /\ Record("acceptance", Absent, ok)
  /\ evidence' = [generation |-> generation, ok |-> ok]
  /\ accepted' \in {accepted, generation} /\ (~ok => accepted' = accepted)
  /\ UNCHANGED <<acceptanceTest, generation, tested, testedAction, failed, known, files>>

LEMMA QuietActions ==
  ASSUME \/ SeedAcceptance \/ Refuse \/ FailClosed \/ IterationLimit \/ Done \/ RefuseDone
         \/ \E p \in Paths, content \in Contents : RefuseNoOp(p, content)
         \/ \E a \in Actions : RefuseRun(a)
         \/ AcceptanceRaises
  PROVE  Quiet
BY DEF Quiet, SeedAcceptance, Refuse, FailClosed, IterationLimit, Done, RefuseDone, RefuseNoOp,
       RefuseRun, AcceptanceRaises

LEMMA NextCases ==
  ASSUME Next
  PROVE  \/ Quiet
         \/ \E p \in Paths, content \in Contents : WriteFile(p, content) \/ WriteRaises(p, content)
         \/ \E a \in Actions, ok \in BOOLEAN : RunMove(a, ok)
         \/ \E ok \in BOOLEAN : AcceptanceMove(ok)
<1>1. ASSUME NEW a \in Actions, RunFails(a)
      PROVE  RunMove(a, FALSE)
  BY <1>1 DEF RunFails, RunMove, Ask
<1>2. ASSUME NEW a \in Actions, RunSucceeds(a)
      PROVE  RunMove(a, TRUE)
  BY <1>2 DEF RunSucceeds, RunMove, Ask
<1>3. ASSUME NEW ok \in BOOLEAN, Accept(ok) \/ Diagnose(ok)
      PROVE  AcceptanceMove(ok)
  <2>1. /\ phase # "deciding" /\ Record("acceptance", Absent, ok)
        /\ evidence' = [generation |-> generation, ok |-> ok]
    BY <1>3 DEF Accept, Diagnose, AcceptanceRan
  <2>2. UNCHANGED <<acceptanceTest, generation, tested, testedAction, failed, known, files>>
    BY <1>3 DEF Accept, Diagnose
  <2>3. accepted' \in {accepted, generation}
    BY <1>3 DEF Accept, Diagnose
  <2>4. ASSUME ~ok PROVE accepted' = accepted
    BY <1>3, <2>4 DEF Accept, Diagnose
  <2> QED
    BY <2>1, <2>2, <2>3, <2>4 DEF AcceptanceMove
<1> QED
  BY <1>1, <1>2, <1>3, QuietActions DEF Next

-----------------------------------------------------------------------------

(* The type invariant. *)

LEMMA HistoryIsTyped ==
  ASSUME TypeOK
  PROVE  /\ Len(ran) \in Nat /\ DOMAIN ran = 1 .. Len(ran)
         /\ \A i \in DOMAIN ran : ran[i] \in Executions /\ ran[i].generation \in Nat
<1>1. ran \in Seq(Executions)
  BY DEF TypeOK
<1>2. /\ Len(ran) \in Nat /\ DOMAIN ran = 1 .. Len(ran)
      /\ \A i \in DOMAIN ran : ran[i] \in Executions
  BY <1>1
<1>3. \A e \in Executions : e.generation \in Nat
  BY AutoLabAssumption DEF Executions
<1> QED
  BY <1>2, <1>3

LEMMA RecordedIsTyped ==
  ASSUME TypeOK, NEW kind \in {"run", "acceptance"}, NEW a \in Actions \cup {Absent},
         NEW ok \in BOOLEAN, Record(kind, a, ok)
  PROVE  /\ ran' \in Seq(Executions)
         /\ Len(ran') = Len(ran) + 1 /\ Len(ran) \in Nat
         /\ DOMAIN ran = 1 .. Len(ran) /\ DOMAIN ran' = 1 .. Len(ran) + 1
         /\ \A i \in 1 .. Len(ran) : ran'[i] = ran[i] /\ ran[i] \in Executions
         /\ ran'[Len(ran) + 1] = [kind |-> kind, action |-> a, ok |-> ok,
                                  generation |-> generation, files |-> files]
<1> DEFINE e == [kind |-> kind, action |-> a, ok |-> ok, generation |-> generation, files |-> files]
<1>1. e \in Executions
  BY DEF TypeOK, Executions
<1>2. ran \in Seq(Executions) /\ ran' = Append(ran, e)
  BY DEF TypeOK, Record
<1> QED
  BY <1>1, <1>2, Appended

LEMMA RecordedCases ==
  ASSUME TypeOK, NEW kind \in {"run", "acceptance"}, NEW a \in Actions \cup {Absent},
         NEW ok \in BOOLEAN, Record(kind, a, ok), NEW i \in DOMAIN ran'
  PROVE  \/ i \in DOMAIN ran /\ i <= Len(ran) /\ ran'[i] = ran[i]
         \/ /\ i = Len(ran) + 1
            /\ ran'[i] = [kind |-> kind, action |-> a, ok |-> ok,
                          generation |-> generation, files |-> files]
<1>1. /\ DOMAIN ran = 1 .. Len(ran) /\ DOMAIN ran' = 1 .. Len(ran) + 1 /\ Len(ran) \in Nat
      /\ \A j \in 1 .. Len(ran) : ran'[j] = ran[j]
      /\ ran'[Len(ran) + 1] = [kind |-> kind, action |-> a, ok |-> ok,
                               generation |-> generation, files |-> files]
  BY RecordedIsTyped
<1>2. i \in 1 .. Len(ran) \/ i = Len(ran) + 1
  BY <1>1
<1> QED
  BY <1>1, <1>2

LEMMA TypeStep ==
  ASSUME TypeOK, PhasesAreOrderly, GenerationsAreCounted, Next
  PROVE  TypeOK'
<1> USE AutoLabAssumption DEF TypeOK, Ask, End, Generations, None, NoEvidence
<1>1. CASE \/ SeedAcceptance \/ Refuse \/ FailClosed \/ IterationLimit \/ Done \/ RefuseDone
           \/ \E a \in Actions : RefuseRun(a)
           \/ AcceptanceRaises
  BY <1>1 DEF SeedAcceptance, Refuse, FailClosed, IterationLimit, Done, RefuseDone, RefuseRun,
              AcceptanceRaises
<1>2. CASE \E p \in Paths, content \in Contents : RefuseNoOp(p, content)
  BY <1>2 DEF RefuseNoOp
<1>3. ASSUME NEW p \in Paths, NEW content \in Contents, WriteFile(p, content)
      PROVE  TypeOK'
  BY <1>3 DEF WriteFile, Installed, GenerationsAreCounted
<1>4. ASSUME NEW p \in Paths, NEW content \in Contents, WriteRaises(p, content)
      PROVE  TypeOK'
  BY <1>4 DEF WriteRaises
<1>5. ASSUME NEW a \in Actions, RunFails(a) \/ RunSucceeds(a)
      PROVE  TypeOK'
  <2>1. ran' \in Seq(Executions)
    BY <1>5, RecordedIsTyped DEF RunFails, RunSucceeds
  <2>2. CASE RunFails(a)
    BY <2>1, <2>2 DEF RunFails
  <2>3. CASE RunSucceeds(a)
    BY <2>1, <2>3 DEF RunSucceeds
  <2> QED
    BY <1>5, <2>2, <2>3
<1>6. ASSUME NEW ok \in BOOLEAN, Accept(ok) \/ Diagnose(ok)
      PROVE  TypeOK'
  <2>1. ran' \in Seq(Executions)
    <3>1. Record("acceptance", Absent, ok)
      BY <1>6 DEF Accept, Diagnose, AcceptanceRan
    <3>2. "acceptance" \in {"run", "acceptance"} /\ Absent \in Actions \cup {Absent} /\ ok \in BOOLEAN
      OBVIOUS
    <3> QED
      BY <3>1, <3>2, RecordedIsTyped
  <2>2. evidence' \in [generation : Generations, ok : BOOLEAN]
    BY <1>6 DEF Accept, Diagnose, AcceptanceRan
  <2>3. /\ phase' = "deciding" /\ status' \in {status, "done"} /\ accepted' \in {accepted, generation}
        /\ UNCHANGED <<acceptanceTest, iteration, generation, tested, testedAction, failed, known, files>>
    BY <1>6 DEF Accept, Diagnose, AcceptanceRan
  <2> QED
    BY <2>1, <2>2, <2>3
<1> QED
  BY <1>1, <1>2, <1>3, <1>4, <1>5, <1>6 DEF Next

-----------------------------------------------------------------------------

(* The control of the session. *)

LEMMA SessionRuns ==
  ASSUME PhasesAreOrderly, Next
  PROVE  /\ status \in {"seeding", "running"}
         /\ status = "seeding" => Quiet
BY DEF PhasesAreOrderly, Next, SeedAcceptance, Refuse, FailClosed, IterationLimit, Done, RefuseDone,
       RefuseNoOp, WriteFile, WriteRaises, RefuseRun, RunFails, RunSucceeds, Accept, Diagnose,
       AcceptanceRaises, AcceptanceRan, Ask, Quiet

LEMMA FilesStep ==
  ASSUME TypeOK, PhasesAreOrderly, FilesAreRemembered, Next
  PROVE  FilesAreRemembered'
<1>1. files = Remembered
  BY SessionRuns DEF FilesAreRemembered
<1>2. ASSUME NEW p \in Paths, NEW content \in Contents, WriteFile(p, content)
      PROVE  FilesAreRemembered'
  BY <1>1, <1>2, AutoLabAssumption DEF WriteFile, Installed, FilesAreRemembered, Remembered, TypeOK
<1>3. ASSUME NEW p \in Paths, NEW content \in Contents, WriteRaises(p, content)
      PROVE  FilesAreRemembered'
  BY <1>3 DEF WriteRaises, End, FilesAreRemembered
<1>4. CASE UNCHANGED <<known, files>>
  BY <1>1, <1>4 DEF FilesAreRemembered, Remembered
<1> QED
  BY <1>2, <1>3, <1>4, NextCases DEF Quiet, RunMove, AcceptanceMove

LEMMA PhaseStep ==
  ASSUME TypeOK, PhasesAreOrderly, GenerationsAreCounted, Next
  PROVE  PhasesAreOrderly'
<1> USE DEF PhasesAreOrderly, Ask, End, TypeOK
<1>1. CASE \/ SeedAcceptance \/ Refuse \/ FailClosed \/ IterationLimit \/ Done \/ RefuseDone
           \/ \E a \in Actions : RefuseRun(a)
           \/ AcceptanceRaises
  BY <1>1 DEF SeedAcceptance, Refuse, FailClosed, IterationLimit, Done, RefuseDone, RefuseRun,
              AcceptanceRaises
<1>2. ASSUME NEW p \in Paths, NEW content \in Contents, RefuseNoOp(p, content)
      PROVE  PhasesAreOrderly'
  BY <1>2 DEF RefuseNoOp
<1>3. ASSUME NEW p \in Paths, NEW content \in Contents,
             WriteFile(p, content) \/ WriteRaises(p, content)
      PROVE  PhasesAreOrderly'
  BY <1>3 DEF WriteFile, WriteRaises
<1>4. ASSUME NEW a \in Actions, RunFails(a) \/ RunSucceeds(a)
      PROVE  PhasesAreOrderly'
  BY <1>4 DEF RunFails, RunSucceeds, IsAccepted
<1>5. ASSUME NEW ok \in BOOLEAN, Accept(ok) \/ Diagnose(ok)
      PROVE  PhasesAreOrderly'
  BY <1>5 DEF Accept, Diagnose, AcceptanceRan
<1> QED
  BY <1>1, <1>2, <1>3, <1>4, <1>5 DEF Next

LEMMA OutcomeStep ==
  ASSUME TypeOK, PhasesAreOrderly, GenerationsAreCounted, OutcomeIsEarned, Next
  PROVE  OutcomeIsEarned'
<1> USE DEF OutcomeIsEarned, PhasesAreOrderly, Ask, End, TypeOK
<1>1. CASE \/ SeedAcceptance \/ Refuse \/ FailClosed \/ IterationLimit \/ RefuseDone
           \/ \E a \in Actions : RefuseRun(a)
           \/ \E p \in Paths, content \in Contents : RefuseNoOp(p, content)
           \/ AcceptanceRaises
  BY <1>1 DEF SeedAcceptance, Refuse, FailClosed, IterationLimit, RefuseDone, RefuseRun, RefuseNoOp,
              AcceptanceRaises
<1>2. CASE Done
  BY <1>2 DEF Done, IsTested, IsAccepted
<1>3. ASSUME NEW p \in Paths, NEW content \in Contents,
             WriteFile(p, content) \/ WriteRaises(p, content)
      PROVE  OutcomeIsEarned'
  BY <1>3 DEF WriteFile, WriteRaises, Installed, GenerationsAreCounted, Generations, None
<1>4. ASSUME NEW a \in Actions, RunFails(a) \/ RunSucceeds(a)
      PROVE  OutcomeIsEarned'
  <2>1. status = "running" /\ status' = "running"
    BY <1>4 DEF RunFails, RunSucceeds
  <2>2. UNCHANGED <<acceptanceTest, accepted, generation>>
    BY <1>4 DEF RunFails, RunSucceeds
  <2> QED
    BY <2>1, <2>2
<1>5. ASSUME NEW ok \in BOOLEAN, Accept(ok)
      PROVE  OutcomeIsEarned'
  <2>1. status = "running" /\ tested = generation /\ acceptanceTest /\ accepted # generation
    BY <1>5 DEF Accept
  <2>2. CASE ok
    BY <1>5, <2>1, <2>2 DEF Accept
  <2>3. CASE ~ok
    BY <1>5, <2>1, <2>3 DEF Accept
  <2> QED
    BY <2>2, <2>3
<1>6. ASSUME NEW ok \in BOOLEAN, Diagnose(ok)
      PROVE  OutcomeIsEarned'
  BY <1>6 DEF Diagnose
<1> QED
  BY <1>1, <1>2, <1>3, <1>4, <1>5, <1>6 DEF Next

-----------------------------------------------------------------------------

(* The history and what is remembered of it. *)

LEMMA IterationMoves ==
  ASSUME Next
  PROVE  iteration' \in {iteration, iteration + 1}
BY DEF Next, SeedAcceptance, Refuse, FailClosed, IterationLimit, Done, RefuseDone,
       RefuseNoOp, WriteFile, WriteRaises, RefuseRun, RunFails, RunSucceeds, Accept, Diagnose,
       AcceptanceRaises, AcceptanceRan, Ask

LEMMA GenerationStep ==
  ASSUME TypeOK, GenerationsAreCounted, Next
  PROVE  GenerationsAreCounted'
<1> USE AutoLabAssumption DEF GenerationsAreCounted, Generations, None
<1>1. iteration' \in {iteration, iteration + 1} /\ iteration \in Nat /\ generation \in Nat
  BY IterationMoves DEF TypeOK
<1>2. CASE UNCHANGED <<generation, tested, accepted, evidence, ran>>
  BY <1>1, <1>2
<1>3. ASSUME NEW p \in Paths, NEW content \in Contents, WriteFile(p, content)
      PROVE  GenerationsAreCounted'
  <2>1. iteration' = iteration + 1 /\ generation' = generation + 1
    BY <1>3 DEF WriteFile, Ask, Installed
  <2>2. evidence' = NoEvidence /\ UNCHANGED <<tested, accepted, ran>>
    BY <1>3 DEF WriteFile, Installed
  <2>3. \A i \in DOMAIN ran : ran[i].generation \in Nat
    BY HistoryIsTyped
  <2> QED
    BY <1>1, <2>1, <2>2, <2>3 DEF NoEvidence, TypeOK
<1>4. ASSUME NEW a \in Actions, NEW ok \in BOOLEAN, RunMove(a, ok)
      PROVE  GenerationsAreCounted'
  <2>1. \A i \in DOMAIN ran' : ran'[i].generation <= generation'
    BY <1>1, <1>4, RecordedCases DEF RunMove
  <2>2. tested' <= generation' /\ UNCHANGED <<generation, accepted, evidence>>
    BY <1>1, <1>4 DEF RunMove, TypeOK
  <2> QED
    BY <1>1, <2>1, <2>2 DEF TypeOK
<1>5. ASSUME NEW ok \in BOOLEAN, AcceptanceMove(ok)
      PROVE  GenerationsAreCounted'
  <2>1. \A i \in DOMAIN ran' : ran'[i].generation <= generation'
    <3>1. Record("acceptance", Absent, ok) /\ generation' = generation
      BY <1>5 DEF AcceptanceMove
    <3> QED
      BY <1>1, <3>1, RecordedCases
  <2>2. accepted' <= generation' /\ UNCHANGED <<generation, tested>>
    BY <1>1, <1>5 DEF AcceptanceMove, TypeOK
  <2>3. evidence'.generation = generation' /\ evidence'.generation # -1
    BY <1>1, <1>5 DEF AcceptanceMove
  <2> QED
    BY <1>1, <2>1, <2>2, <2>3 DEF TypeOK
<1> QED
  BY <1>2, <1>3, <1>4, <1>5, NextCases DEF Quiet, WriteRaises

\* What is in the history stays in it.
LEMMA RanGrows ==
  ASSUME TypeOK, NEW kind \in {"run", "acceptance"}, NEW a \in Actions \cup {Absent},
         NEW ok \in BOOLEAN, Record(kind, a, ok)
  PROVE  /\ \A k, o : \A i \in Ran(k, o) : i \in Ran(k, o)' /\ ran'[i] = ran[i]
         /\ Len(ran) + 1 \in Ran(kind, ok)'
         /\ ran'[Len(ran) + 1].generation = generation
         /\ ran'[Len(ran) + 1].files = files
<1>1. /\ DOMAIN ran = 1 .. Len(ran) /\ DOMAIN ran' = 1 .. Len(ran) + 1 /\ Len(ran) \in Nat
      /\ \A i \in 1 .. Len(ran) : ran'[i] = ran[i]
      /\ ran'[Len(ran) + 1] = [kind |-> kind, action |-> a, ok |-> ok,
                               generation |-> generation, files |-> files]
  BY RecordedIsTyped
<1>2. ASSUME NEW k, NEW o, NEW i \in Ran(k, o)
      PROVE  i \in Ran(k, o)' /\ ran'[i] = ran[i]
  BY <1>1, <1>2 DEF Ran
<1>3. Len(ran) + 1 \in Ran(kind, ok)'
  BY <1>1 DEF Ran
<1> QED
  BY <1>1, <1>2, <1>3

LEMMA HistoryStep ==
  ASSUME TypeOK, PhasesAreOrderly, GenerationsAreCounted, FilesAreRemembered,
         HistoryIsRemembered, Next
  PROVE  HistoryIsRemembered'
<1> USE DEF HistoryIsRemembered
<1>1. files = Remembered
  BY SessionRuns DEF FilesAreRemembered
<1>2. CASE UNCHANGED <<generation, tested, accepted, evidence, known, ran>>
  BY <1>2 DEF Remembered, Ran
<1>3. ASSUME NEW p \in Paths, NEW content \in Contents, WriteFile(p, content)
      PROVE  HistoryIsRemembered'
  <2>1. /\ known' = [known EXCEPT ![p] = content] /\ p # Reserved
        /\ generation' = generation + 1 /\ evidence' = NoEvidence
        /\ UNCHANGED <<tested, accepted, ran>>
    BY <1>3 DEF WriteFile, Installed, Writable
  <2>2. known'[Reserved] = Absent
    BY <2>1, AutoLabAssumption DEF TypeOK
  <2>3. \A i \in DOMAIN ran : ran[i].generation # generation'
    BY <2>1 DEF GenerationsAreCounted, TypeOK, Executions
  <2> QED
    BY <2>1, <2>2, <2>3 DEF NoEvidence, Ran
<1>4. ASSUME NEW a \in Actions, NEW ok \in BOOLEAN, RunMove(a, ok)
      PROVE  HistoryIsRemembered'
  <2>1. /\ Record("run", a, ok) /\ UNCHANGED <<generation, accepted, evidence, known, files>>
        /\ Remembered' = Remembered
    BY <1>4 DEF RunMove, Remembered
  <2>2. \A i \in DOMAIN ran' : ran'[i].generation = generation' => ran'[i].files = Remembered'
    BY <1>1, <2>1, RecordedCases
  <2>3. tested' # None => \E i \in Ran("run", TRUE)' : ran'[i].generation = tested'
    <3>1. CASE ok
      BY <1>4, <2>1, <3>1, RanGrows DEF RunMove
    <3>2. CASE ~ok
      BY <1>4, <2>1, <3>2, RanGrows DEF RunMove
    <3> QED
      BY <3>1, <3>2
  <2>4. accepted' # None => \E i \in Ran("acceptance", TRUE)' : ran'[i].generation = accepted'
    BY <2>1, RanGrows
  <2>5. evidence'.generation # None =>
          \E i \in Ran("acceptance", evidence.ok)' :
            /\ ran'[i].generation = generation'
            /\ \A j \in DOMAIN ran' : ran'[j].kind = "acceptance" => j <= i
    <3>1. \A j \in DOMAIN ran' : ran'[j].kind = "acceptance" => j \in DOMAIN ran /\ ran'[j] = ran[j]
      BY <2>1, RecordedCases
    <3> QED
      BY <2>1, <3>1, RanGrows
  <2> QED
    BY <2>1, <2>2, <2>3, <2>4, <2>5 DEF Ran
<1>5. ASSUME NEW ok \in BOOLEAN, AcceptanceMove(ok)
      PROVE  HistoryIsRemembered'
  <2>1. /\ Record("acceptance", Absent, ok) /\ UNCHANGED <<generation, tested, known, files>>
        /\ evidence' = [generation |-> generation, ok |-> ok]
        /\ Remembered' = Remembered /\ Absent \in Actions \cup {Absent}
        /\ "acceptance" \in {"run", "acceptance"}
    BY <1>5 DEF AcceptanceMove, Remembered
  <2>2. \A i \in DOMAIN ran' : ran'[i].generation = generation' => ran'[i].files = Remembered'
    <3>1. ASSUME NEW i \in DOMAIN ran', ran'[i].generation = generation'
          PROVE  ran'[i].files = Remembered'
      BY <1>1, <2>1, <3>1, RecordedCases
    <3> QED
      BY <3>1
  <2>3. tested' # None => \E i \in Ran("run", TRUE)' : ran'[i].generation = tested'
    BY <2>1, RanGrows
  <2>4. accepted' # None => \E i \in Ran("acceptance", TRUE)' : ran'[i].generation = accepted'
    <3>1. CASE ok
      BY <1>5, <2>1, <3>1, RanGrows DEF AcceptanceMove
    <3>2. CASE ~ok
      BY <1>5, <2>1, <3>2, RanGrows DEF AcceptanceMove
    <3> QED
      BY <3>1, <3>2
  <2>5. \E i \in Ran("acceptance", ok)' :
            /\ ran'[i].generation = generation'
            /\ \A j \in DOMAIN ran' : ran'[j].kind = "acceptance" => j <= i
    <3>1. /\ Len(ran) + 1 \in Ran("acceptance", ok)'
          /\ ran'[Len(ran) + 1].generation = generation
      BY <2>1, RanGrows
    <3>2. DOMAIN ran' = 1 .. Len(ran) + 1 /\ Len(ran) \in Nat
      BY <2>1, RecordedIsTyped
    <3> QED
      BY <2>1, <3>1, <3>2
  <2> QED
    BY <2>1, <2>2, <2>3, <2>4, <2>5 DEF Ran
<1> QED
  BY <1>2, <1>3, <1>4, <1>5, NextCases DEF Quiet, WriteRaises

LEMMA RunsStep ==
  ASSUME TypeOK, GenerationsAreCounted, RunsAreRemembered, Next
  PROVE  RunsAreRemembered'
<1> USE DEF RunsAreRemembered
<1>1. CASE UNCHANGED <<generation, tested, testedAction, failed, ran>>
  BY <1>1
<1>2. ASSUME NEW p \in Paths, NEW content \in Contents, WriteFile(p, content)
      PROVE  RunsAreRemembered'
  <2>1. generation' = generation + 1 /\ ran' = ran
    BY <1>2 DEF WriteFile, Installed
  <2>2. \A i \in DOMAIN ran : ran[i].generation # generation'
    BY <2>1, HistoryIsTyped DEF GenerationsAreCounted, TypeOK
  <2> QED
    BY <2>1, <2>2
<1>3. ASSUME NEW a \in Actions, NEW ok \in BOOLEAN, RunMove(a, ok)
      PROVE  RunsAreRemembered'
  <2>1. /\ Record("run", a, ok) /\ generation' = generation
        /\ IF ok THEN tested' = generation /\ testedAction' = a /\ failed' = failed
                 ELSE tested' = tested /\ testedAction' = testedAction /\ failed' = failed \cup {a}
    BY <1>3 DEF RunMove
  <2>2. /\ Len(ran') = Len(ran) + 1 /\ Len(ran) \in Nat /\ DOMAIN ran = 1 .. Len(ran)
        /\ \A i \in 1 .. Len(ran) : ran'[i] = ran[i]
        /\ ran'[Len(ran) + 1] = [kind |-> "run", action |-> a, ok |-> ok,
                                 generation |-> generation, files |-> files]
    BY <2>1, RecordedIsTyped
  <2> SUFFICES ASSUME NEW i \in DOMAIN ran', ran'[i].kind = "run", ran'[i].generation = generation
               PROVE  IF ran'[i].ok
                        THEN \/ tested' = generation /\ testedAction' = ran'[i].action
                             \/ \E k \in i + 1 .. Len(ran') : ran'[k].kind = "run" /\ ran'[k].ok
                        ELSE ran'[i].action \in failed'
    BY <2>1
  <2>3. CASE i = Len(ran) + 1
    BY <2>1, <2>2, <2>3
  <2>4. CASE i \in DOMAIN ran /\ ok
    BY <2>1, <2>2, <2>4
  <2>5. CASE i \in DOMAIN ran /\ ~ok
    BY <2>1, <2>2, <2>5
  <2> QED
    BY <2>1, <2>3, <2>4, <2>5, RecordedCases
<1>4. ASSUME NEW ok \in BOOLEAN, AcceptanceMove(ok)
      PROVE  RunsAreRemembered'
  <2>1. /\ Record("acceptance", Absent, ok)
        /\ UNCHANGED <<generation, tested, testedAction, failed>>
    BY <1>4 DEF AcceptanceMove
  <2>2. /\ Len(ran') = Len(ran) + 1 /\ Len(ran) \in Nat /\ DOMAIN ran = 1 .. Len(ran)
        /\ \A i \in 1 .. Len(ran) : ran'[i] = ran[i]
    BY <2>1, RecordedIsTyped
  <2>3. ASSUME NEW i \in DOMAIN ran', ran'[i].kind = "run"
        PROVE  i \in DOMAIN ran /\ ran'[i] = ran[i]
    BY <2>1, <2>3, RecordedCases
  <2> QED
    BY <2>1, <2>2, <2>3
<1> QED
  BY <1>1, <1>2, <1>3, <1>4, NextCases DEF Quiet, WriteRaises

LEMMA RepetitionStep ==
  ASSUME TypeOK, RunsAreRemembered, RunsAreNotRepeated, Next
  PROVE  RunsAreNotRepeated'
<1>1. CASE UNCHANGED ran
  BY <1>1 DEF RunsAreNotRepeated
<1>2. ASSUME NEW kind \in {"run", "acceptance"}, NEW a \in Actions \cup {Absent}, NEW ok \in BOOLEAN,
             Record(kind, a, ok), kind = "run" => Runnable(a)
      PROVE  RunsAreNotRepeated'
  <2>1. /\ Len(ran) \in Nat /\ DOMAIN ran = 1 .. Len(ran) /\ DOMAIN ran' = 1 .. Len(ran) + 1
        /\ \A k \in 1 .. Len(ran) : ran'[k] = ran[k]
        /\ ran'[Len(ran) + 1] = [kind |-> kind, action |-> a, ok |-> ok,
                                 generation |-> generation, files |-> files]
    BY <1>2, RecordedIsTyped
  <2> SUFFICES ASSUME NEW i \in DOMAIN ran', NEW j \in DOMAIN ran',
                      i < j, ran'[i].kind = "run", ran'[j].kind = "run",
                      ran'[i].action = ran'[j].action, ran'[i].generation = ran'[j].generation
               PROVE  ran'[i].ok /\ \E k \in i + 1 .. j - 1 : ran'[k].kind = "run" /\ ran'[k].ok
    BY DEF RunsAreNotRepeated
  <2>2. i \in 1 .. Len(ran) /\ ran'[i] = ran[i]
    BY <2>1
  <2>3. CASE j \in 1 .. Len(ran)
    BY <2>1, <2>2, <2>3 DEF RunsAreNotRepeated
  <2>4. CASE j = Len(ran) + 1
    <3>1. kind = "run" /\ ran[i].action = a /\ ran[i].generation = generation
      BY <2>1, <2>2, <2>4
    <3>2. a \notin failed /\ ~(tested = generation /\ testedAction = a)
      BY <1>2, <3>1 DEF Runnable, IsRedundant, IsTested
    <3>3. ran[i].ok /\ \E k \in i + 1 .. Len(ran) : ran[k].kind = "run" /\ ran[k].ok
      BY <2>1, <2>2, <3>1, <3>2 DEF RunsAreRemembered
    <3> QED
      BY <2>1, <2>2, <2>4, <3>3
  <2> QED
    BY <2>1, <2>3, <2>4
<1>3. ASSUME NEW a \in Actions, NEW ok \in BOOLEAN, RunMove(a, ok)
      PROVE  RunsAreNotRepeated'
  BY <1>2, <1>3 DEF RunMove
<1>4. ASSUME NEW ok \in BOOLEAN, AcceptanceMove(ok)
      PROVE  RunsAreNotRepeated'
  <2>1. Record("acceptance", Absent, ok) /\ Absent \in Actions \cup {Absent}
    BY <1>4 DEF AcceptanceMove
  <2> QED
    BY <1>2, <2>1
<1> QED
  BY <1>1, <1>3, <1>4, NextCases DEF Quiet, WriteFile, WriteRaises

-----------------------------------------------------------------------------

(* The session alone. *)

LEMMA SessionInit ==
  ASSUME Init
  PROVE  SessionInv /\ FilesAreRemembered
<1> USE AutoLabAssumption DEF Init, None, NoEvidence, Generations
<1>1. TypeOK
  BY DEF TypeOK
<1>2. PhasesAreOrderly /\ GenerationsAreCounted /\ OutcomeIsEarned
  BY DEF PhasesAreOrderly, GenerationsAreCounted, OutcomeIsEarned
<1>3. HistoryIsRemembered /\ RunsAreRemembered /\ RunsAreNotRepeated
  BY DEF HistoryIsRemembered, RunsAreRemembered, RunsAreNotRepeated
<1>4. FilesAreRemembered
  BY DEF FilesAreRemembered, Remembered
<1> QED
  BY <1>1, <1>2, <1>3, <1>4 DEF SessionInv

LEMMA SessionStep ==
  ASSUME SessionInv, FilesAreRemembered, Next
  PROVE  SessionInv' /\ FilesAreRemembered'
BY TypeStep, PhaseStep, GenerationStep, HistoryStep, RunsStep, RepetitionStep, OutcomeStep, FilesStep
   DEF SessionInv

LEMMA SessionFrame ==
  ASSUME SessionInv, UNCHANGED vars
  PROVE  SessionInv' /\ (FilesAreRemembered => FilesAreRemembered')
BY DEF SessionInv, vars, TypeOK, PhasesAreOrderly, GenerationsAreCounted, HistoryIsRemembered,
       RunsAreRemembered, RunsAreNotRepeated, OutcomeIsEarned, Remembered, FilesAreRemembered, Ran

-----------------------------------------------------------------------------

(* With the builder, and the changes made after the session. *)

LEMMA TamperStep ==
  ASSUME SessionInv, NEW p \in Paths, NEW content \in Contents \cup {Seed}, Tamper(p, content)
  PROVE  SessionInv'
<1>1. UNCHANGED <<acceptanceTest, status, phase, iteration, generation, progress, evidence, known, ran>>
  BY DEF Tamper
<1>2. files' \in [Paths -> Contents \cup {Seed}]
  BY DEF Tamper, SessionInv, TypeOK
<1>3. TypeOK'
  BY <1>1, <1>2 DEF SessionInv, TypeOK
<1> QED
  BY <1>1, <1>3 DEF SessionInv, PhasesAreOrderly, GenerationsAreCounted, HistoryIsRemembered,
       RunsAreRemembered, RunsAreNotRepeated, OutcomeIsEarned, Remembered, Ran

LEMMA BuilderInit ==
  ASSUME CandidateInit
  PROVE  CandidateInv
<1>1. SessionInv /\ FilesAreRemembered
  BY SessionInit DEF CandidateInit
<1>2. BuilderInv
  BY <1>1, SessionCandidateAssumption DEF CandidateInit, BuilderInv, NothingRead
<1> QED
  BY <1>1, <1>2 DEF CandidateInv

LEMMA BuilderStep ==
  ASSUME CandidateInv, CandidateNext
  PROVE  CandidateInv'
<1> USE DEF BuilderInv
<1>0. SessionInv /\ BuilderInv /\ TypeOK /\ PhasesAreOrderly
  BY DEF CandidateInv, SessionInv
<1>1. CASE Session
  <2>1. status \in {"seeding", "running"}
    BY <1>0, <1>1, SessionRuns DEF Session
  <2>2. FilesAreRemembered /\ tampers = 0 /\ candidate = {} /\ building \notin {"rereading", "built"}
    BY <1>0, <2>1 DEF Ended
  <2>3. SessionInv' /\ FilesAreRemembered'
    BY <1>0, <1>1, <2>2, SessionStep DEF Session
  <2>4. UNCHANGED <<building, reread, candidate, tampers>>
    BY <1>1 DEF Session, building_vars
  <2> QED
    BY <1>0, <2>2, <2>3, <2>4 DEF CandidateInv, NothingRead
<1>2. CASE StartBuilding
  <2>1. SessionInv' /\ (FilesAreRemembered => FilesAreRemembered')
    BY <1>0, <1>2, SessionFrame DEF StartBuilding
  <2>2. UNCHANGED <<status, phase, known, files, reread, candidate, tampers>> /\ building = "no"
    BY <1>2 DEF StartBuilding, vars
  <2>3. /\ building' \in {"refused", "rereading"}
        /\ building' = "rereading" => status = "done" /\ phase = "deciding"
    <3>1. Ended /\ building' \in {"refused", "rereading"}
      BY <1>2 DEF StartBuilding
    <3>2. phase = "deciding"
      BY <1>0, <3>1 DEF PhasesAreOrderly, Ended
    <3>3. building' = "rereading" => status = "done"
      BY <1>2 DEF StartBuilding
    <3> QED
      BY <3>1, <3>2, <3>3
  <2> QED
    BY <1>0, <2>1, <2>2, <2>3 DEF CandidateInv, NothingRead, Ended, Written, Latest
<1>3. ASSUME NEW p \in Paths, Reread(p)
      PROVE  CandidateInv'
  <2>1. SessionInv' /\ (FilesAreRemembered => FilesAreRemembered')
    BY <1>0, <1>3, SessionFrame DEF Reread
  <2>2. UNCHANGED <<status, phase, known, files, candidate, tampers>> /\ building = "rereading"
    BY <1>3 DEF Reread, vars
  <2>3. reread' \in [Paths -> Contents \cup {Seed, Absent}]
    BY <1>0, <1>3 DEF Reread, TypeOK
  <2>4. \/ building' = "refused"
        \/ building' = "rereading" /\ \A r \in Paths : reread'[r] \in {Absent, known[r]}
    BY <1>0, <1>3 DEF Reread, Latest
  <2> QED
    BY <1>0, <2>1, <2>2, <2>3, <2>4 DEF CandidateInv, Ended, Written, Latest
<1>4. CASE Build
  <2>1. SessionInv' /\ (FilesAreRemembered => FilesAreRemembered')
    BY <1>0, <1>4, SessionFrame DEF Build
  <2>2. /\ UNCHANGED <<status, phase, known, files, reread, tampers>>
        /\ building = "rereading" /\ building' = "built"
    BY <1>4 DEF Build, vars
  <2>3. \A p \in Written : reread[p] = known[p]
    BY <1>0, <1>4 DEF Build, Written
  <2>4. candidate' = {[p \in Written |-> known[p]]}
    BY <1>4, <2>3 DEF Build
  <2>5. Written' = Written
    BY <2>2 DEF Written, Latest
  <2> QED
    BY <1>0, <2>1, <2>2, <2>4, <2>5 DEF CandidateInv, Ended
<1>5. ASSUME NEW p \in Paths, NEW content \in Contents \cup {Seed}, Tamper(p, content)
      PROVE  CandidateInv'
  <2>1. SessionInv'
    BY <1>0, <1>5, TamperStep
  <2>2. /\ UNCHANGED <<status, phase, known, building, reread, candidate>> /\ Ended
        /\ tampers' = tampers + 1 /\ tampers < MaxTampers
    BY <1>5 DEF Tamper
  <2>3. Written' = Written /\ tampers' \in 1 .. MaxTampers
    BY <1>0, <2>2, SessionCandidateAssumption DEF Written, Latest
  <2> QED
    BY <1>0, <2>1, <2>2, <2>3 DEF CandidateInv, Ended, NothingRead
<1> QED
  BY <1>1, <1>2, <1>3, <1>4, <1>5 DEF CandidateNext

LEMMA BuilderFrame ==
  ASSUME CandidateInv, UNCHANGED candidate_vars
  PROVE  CandidateInv'
<1>1. UNCHANGED <<vars, building, reread, candidate, tampers>>
  BY DEF candidate_vars, building_vars
<1>2. SessionInv' /\ (FilesAreRemembered => FilesAreRemembered')
  BY <1>1, SessionFrame DEF CandidateInv
<1>3. BuilderInv'
  BY <1>1, <1>2 DEF CandidateInv, BuilderInv, vars, Ended, NothingRead, Written, Latest
<1> QED
  BY <1>2, <1>3 DEF CandidateInv

-----------------------------------------------------------------------------

(* The theorems. *)

\* A session that is done has run successfully, and has passed the acceptance
\* test that it was given, on the very files that it leaves.
THEOREM DoneIsWhatWasTested == CandidateSpec => []DoneMeansTested
<1>1. ASSUME CandidateInv PROVE DoneMeansTested
  <2>1. ASSUME tampers = 0 PROVE DoneIsTested
    <3>0. /\ FilesAreRemembered /\ TypeOK /\ HistoryIsRemembered /\ OutcomeIsEarned
          /\ generation \in Nat
      BY <1>1, <2>1 DEF CandidateInv, SessionInv, BuilderInv, TypeOK
    <3>1. ASSUME status = "done"
          PROVE  \E i \in Ran("run", TRUE) : ran[i].files = files
      BY <3>0, <3>1 DEF FilesAreRemembered, HistoryIsRemembered, OutcomeIsEarned, None, Ran
    <3>2. ASSUME status = "done", acceptanceTest
          PROVE  /\ \E i \in Ran("acceptance", TRUE) : ran[i].files = files
                 /\ files[Reserved] = Seed
      <4>1. files = Remembered /\ files[Reserved] = Seed
        BY <3>0, <3>2, AutoLabAssumption DEF FilesAreRemembered, Remembered, HistoryIsRemembered
      <4> QED
        BY <3>0, <3>2, <4>1 DEF HistoryIsRemembered, OutcomeIsEarned, None, Ran
    <3> QED
      BY <3>0, <3>1, <3>2 DEF DoneIsTested, OutcomeIsEarned
  <2> QED
    BY <1>1, <2>1 DEF DoneMeansTested
<1> QED
  BY <1>1, BuilderInit, BuilderStep, BuilderFrame, PTL DEF CandidateSpec

\* A write that is refused as a no-op would be one; the outcome of the acceptance
\* test that is shown again is that of the files as they are; and no RUN is
\* executed again whose outcome on these files is known.
THEOREM RefusalsRestOnKnowledge == CandidateSpec => []RefusedMeansKnown
<1>1. ASSUME CandidateInv PROVE RefusedMeansKnown
  <2>1. ASSUME tampers = 0 PROVE RefusalsAreJustified
    <3>0. /\ FilesAreRemembered /\ TypeOK /\ HistoryIsRemembered /\ GenerationsAreCounted
          /\ RunsAreNotRepeated
      BY <1>1, <2>1 DEF CandidateInv, SessionInv, BuilderInv
    <3>1. EvidenceIsCurrent
      <4> SUFFICES ASSUME status = "running", evidence # NoEvidence
                   PROVE  \E i \in Ran("acceptance", evidence.ok) :
                            /\ evidence.generation = generation /\ ran[i].files = files
                            /\ \A j \in DOMAIN ran : ran[j].kind = "acceptance" => j <= i
        BY DEF EvidenceIsCurrent
      <4>1. evidence.generation = generation /\ generation # None
        <5>1. evidence \in [generation : Generations, ok : BOOLEAN] /\ generation \in Nat
          BY <3>0 DEF TypeOK
        <5>2. evidence.generation # None
          BY <3>0, <5>1 DEF GenerationsAreCounted, NoEvidence
        <5> QED
          BY <3>0, <5>2 DEF GenerationsAreCounted
      <4>2. files = Remembered
        BY <3>0 DEF FilesAreRemembered
      <4> QED
        BY <3>0, <4>1, <4>2 DEF HistoryIsRemembered, Ran
    <3>2. KnownIsThere
      BY <3>0 DEF KnownIsThere, FilesAreRemembered, Remembered
    <3> QED
      BY <3>0, <3>1, <3>2 DEF RefusalsAreJustified
  <2> QED
    BY <2>1 DEF RefusedMeansKnown
<1> QED
  BY <1>1, BuilderInit, BuilderStep, BuilderFrame, PTL DEF CandidateSpec

\* A candidate for promotion holds exactly what a passing run, and a passing
\* acceptance, of its session has seen, whatever is changed afterwards.
THEOREM OfferedIsWhatPassed == CandidateSpec => []CandidateIsWhatPassed
<1>1. ASSUME CandidateInv PROVE CandidateIsWhatPassed
  <2>0. /\ TypeOK /\ HistoryIsRemembered /\ OutcomeIsEarned /\ BuilderInv /\ generation \in Nat
    BY <1>1 DEF CandidateInv, SessionInv, TypeOK
  <2>1. SUFFICES ASSUME NEW offered \in candidate
                 PROVE  LET Passed(kind) == \E i \in Ran(kind, TRUE) : \A p \in Paths :
                              ran[i].files[p] = IF p \in DOMAIN offered THEN offered[p] ELSE Seed
                        IN  Passed("run") /\ (acceptanceTest => Passed("acceptance"))
    BY DEF CandidateIsWhatPassed
  <2>2. status = "done" /\ offered = [p \in Written |-> known[p]]
    BY <2>0 DEF BuilderInv
  <2>3. \A p \in Paths : Remembered[p] = IF p \in DOMAIN offered THEN offered[p] ELSE Seed
    BY <2>2 DEF Remembered, Written, Latest
  <2>4. \E i \in Ran("run", TRUE) : ran[i].files = Remembered
    BY <2>0, <2>2 DEF HistoryIsRemembered, OutcomeIsEarned, None, Ran
  <2>5. acceptanceTest => \E i \in Ran("acceptance", TRUE) : ran[i].files = Remembered
    BY <2>0, <2>2 DEF HistoryIsRemembered, OutcomeIsEarned, None, Ran
  <2> QED
    BY <2>3, <2>4, <2>5
<1> QED
  BY <1>1, BuilderInit, BuilderStep, BuilderFrame, PTL DEF CandidateSpec
=============================================================================
