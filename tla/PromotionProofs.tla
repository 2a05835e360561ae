-------------------------- MODULE PromotionProofs --------------------------
(***************************************************************************)
(* What a promotion promises, for any files, any workers and any scenario: *)
(* one claim, one execution, a journal that the disk backs, and a recovery *)
(* from wherever the workers stopped.  First the planner, then the parts   *)
(* of the inductive invariant of Promotion (places, claims, preparation,   *)
(* edits, late files, one process at a time, the disk, the recorded        *)
(* installations), and last what follows from it.                          *)
(***************************************************************************)
EXTENDS Promotion, WellFoundedInduction, FiniteSetTheorems, TLAPS

-----------------------------------------------------------------------------
(***************************************************************************)
(* The rollback planner (lab_promotion_rollback_plan.py): what a plan that *)
(* it returns looks like, for every number of files, and that its workers  *)
(* and the others stay within their types.  A plan is computed by a        *)
(* recursive function over the order of the files, so the facts about it   *)
(* rest on an induction, stated here once for sets of numbers.             *)
(***************************************************************************)

\* Every set of natural numbers but the empty one has a least member.
LEMMA LeastNumber ==
  ASSUME NEW T, T \subseteq Nat, T # {}
  PROVE  \E m \in T : \A n \in T : m <= n
<1> DEFINE R == {ss \in Nat \X Nat : ss[1] < ss[2]}
<1>1. IsWellFoundedOn(R, Nat)
  BY NatLessThanWellFounded, Zenon DEF OpToRel
<1>2. \E x \in T : \A y \in T : <<y, x>> \notin R
  <2> HIDE DEF R
  <2> QED BY <1>1, WFMin
<1>3. PICK x \in T : \A y \in T : <<y, x>> \notin R
  BY <1>2
<1>4. \A y \in T : ~(y < x)
  BY <1>3
<1> QED BY <1>4

\* Induction, for a set of numbers.
LEMMA ClimbsToAll ==
  ASSUME NEW S, 0 \in S, \A n \in Nat : n \in S => n + 1 \in S
  PROVE  \A n \in Nat : n \in S
<1> SUFFICES ASSUME Nat \ S # {} PROVE FALSE
  OBVIOUS
<1>1. PICK m \in Nat \ S : \A n \in Nat \ S : m <= n
  <2> DEFINE T == Nat \ S
  <2>1. T \subseteq Nat /\ T # {}
    OBVIOUS
  <2> HIDE DEF T
  <2>2. \E m \in T : \A n \in T : m <= n
    BY <2>1, LeastNumber
  <2> QED BY <2>2 DEF T
<1>2. m # 0 /\ m - 1 \in Nat /\ m - 1 < m
  BY <1>1
<1>3. m - 1 \in S
  BY <1>1, <1>2
<1> QED BY <1>1, <1>2, <1>3

-----------------------------------------------------------------------------
LEMMA OrderFacts ==
  /\ Len(FileOrder) \in Nat /\ Len(FileOrder) >= 1
  /\ DOMAIN FileOrder = 1 .. Len(FileOrder)
  /\ \A i \in 1 .. Len(FileOrder) : FileOrder[i] \in Paths
<1>1. PICK p \in Paths : TRUE
  BY PathsAssumption
<1>2. PICK i \in DOMAIN FileOrder : FileOrder[i] = p
  BY FileOrderAssumption
<1>3. FileOrder \in Seq(Paths)
  BY FileOrderAssumption
<1> QED BY <1>2, <1>3

\* The steps that the planner picks for the i-th file.
Moves(t, i) == CHOOSE s \in FilePlans(t, FileOrder[i]) : TRUE

Suffix(t, from, i) ==
  IF i > Len(FileOrder) THEN <<>> ELSE Moves(t, i) \o from[i + 1]

Suffixes(t) ==
  CHOOSE from : from = [i \in 1 .. Len(FileOrder) + 1 |-> Suffix(t, from, i)]

LEMMA FileStepsAreSuffixes ==
  ASSUME NEW t
  PROVE  FileSteps(t) = Suffixes(t)[1]
BY DEF FileSteps, Suffixes, Suffix, Moves

\* The planner's recursion is well-founded: it has a solution.
LEMMA SuffixesExist ==
  ASSUME NEW t
  PROVE  Suffixes(t) = [i \in 1 .. Len(FileOrder) + 1 |-> Suffix(t, Suffixes(t), i)]
<1> DEFINE N == Len(FileOrder)
           D == 1 .. N + 1
           Solves(f, k) == \A i \in D : i >= N + 1 - k => f[i] = Suffix(t, f, i)
           Solved == {k \in Nat : \E f : f = [i \in D |-> f[i]] /\ Solves(f, k)}
<1>1. N \in Nat
  BY OrderFacts
<1>2. 0 \in Solved
  <2> DEFINE f == [i \in D |-> <<>>]
  <2>1. Solves(f, 0)
    BY <1>1 DEF Suffix
  <2>2. f = [i \in D |-> f[i]]
    OBVIOUS
  <2> QED BY <2>1, <2>2
<1>3. ASSUME NEW k \in Nat, k \in Solved
      PROVE  k + 1 \in Solved
  <2>1. PICK f : f = [i \in D |-> f[i]] /\ Solves(f, k)
    BY <1>3
  <2> DEFINE g == [i \in D |-> IF i = N - k THEN Suffix(t, f, i) ELSE f[i]]
  <2>2. ASSUME NEW i \in D, i >= N + 1 - (k + 1)
        PROVE  g[i] = Suffix(t, g, i)
    <3>1. i > N \/ (i + 1 \in D /\ g[i + 1] = f[i + 1])
      BY <1>1, <2>2
    <3>2. Suffix(t, g, i) = Suffix(t, f, i)
      BY <3>1 DEF Suffix
    <3>3. CASE i = N - k
      BY <3>2, <3>3
    <3>4. CASE i # N - k
      <4>1. i >= N + 1 - k
        BY <2>2, <3>4, <1>1
      <4>2. f[i] = Suffix(t, f, i)
        BY <2>1, <4>1
      <4> QED BY <4>2, <3>2, <3>4
    <3> QED BY <3>3, <3>4
  <2>3. g = [i \in D |-> g[i]]
    OBVIOUS
  <2>4. Solves(g, k + 1)
    BY <2>2
  <2> HIDE DEF g
  <2> QED BY <2>3, <2>4
<1>4. N \in Solved
  <2> HIDE DEF Solved
  <2> QED BY <1>1, <1>2, <1>3, ClimbsToAll
<1>5. PICK f : f = [i \in D |-> f[i]] /\ Solves(f, N)
  BY <1>4
<1>6. f = [i \in D |-> Suffix(t, f, i)]
  <2>1. \A i \in D : f[i] = Suffix(t, f, i)
    BY <1>5, <1>1
  <2> QED BY <1>5, <2>1
<1>7. \E h : h = [i \in D |-> Suffix(t, h, i)]
  BY <1>6
<1> QED BY <1>7 DEF Suffixes

LEMMA SuffixAt ==
  ASSUME NEW t, NEW i \in 1 .. Len(FileOrder) + 1
  PROVE  Suffixes(t)[i] = Suffix(t, Suffixes(t), i)
BY SuffixesExist

LEMMA SuffixStep ==
  ASSUME NEW t, NEW i \in 1 .. Len(FileOrder)
  PROVE  Suffixes(t)[i] = Moves(t, i) \o Suffixes(t)[i + 1]
<1>1. i \in 1 .. Len(FileOrder) + 1 /\ ~(i > Len(FileOrder))
  BY OrderFacts
<1>2. Suffixes(t)[i] = Suffix(t, Suffixes(t), i)
  BY <1>1, SuffixAt
<1> QED BY <1>1, <1>2 DEF Suffix

\* What the planner finds for one path are moves of the kinds it knows.
LEMMA FilePlansAreMoves ==
  ASSUME NEW t, NEW p \in Paths, NEW s \in FilePlans(t, p)
  PROVE  s \in Seq(FileMoves)
<1> DEFINE x == t.progress[p]
<1>1. PlanStep("RECONCILE_INSTALLED", p, "PENDING", "AFTER", "ABSENT") \in FileMoves
  BY DEF FileMoves
<1>2. PlanStep("REMOVE_EXACT_TEMP", p, "PENDING", "BEFORE", "EXACT_TEMP") \in FileMoves
  BY DEF FileMoves
<1>3. \A y \in {"INSTALLED", "VERIFIED"} :
        RestoreStep(p, y) \in FileMoves /\ MarkStep(p, y) \in FileMoves
  BY DEF FileMoves
<1>4. \/ s = <<>>
      \/ x = "PENDING" /\ s = <<PlanStep("REMOVE_EXACT_TEMP", p, x, "BEFORE", "EXACT_TEMP")>>
      \/ /\ x = "PENDING"
         /\ s = <<PlanStep("RECONCILE_INSTALLED", p, x, "AFTER", "ABSENT"),
                  RestoreStep(p, "INSTALLED"), MarkStep(p, "INSTALLED")>>
      \/ x \in {"INSTALLED", "VERIFIED"} /\ s = <<RestoreStep(p, x), MarkStep(p, x)>>
      \/ x \in {"INSTALLED", "VERIFIED"} /\ s = <<MarkStep(p, x)>>
  BY Zenon DEF FilePlans
<1> HIDE DEF x
<1>5. CASE s = <<>>
  BY <1>5
<1>6. CASE x = "PENDING" /\ s = <<PlanStep("REMOVE_EXACT_TEMP", p, x, "BEFORE", "EXACT_TEMP")>>
  BY <1>2, <1>6
<1>7. CASE /\ x = "PENDING"
           /\ s = <<PlanStep("RECONCILE_INSTALLED", p, x, "AFTER", "ABSENT"),
                    RestoreStep(p, "INSTALLED"), MarkStep(p, "INSTALLED")>>
  BY <1>1, <1>3, <1>7
<1>8. CASE x \in {"INSTALLED", "VERIFIED"} /\ s = <<RestoreStep(p, x), MarkStep(p, x)>>
  BY <1>3, <1>8
<1>9. CASE x \in {"INSTALLED", "VERIFIED"} /\ s = <<MarkStep(p, x)>>
  BY <1>3, <1>9
<1> QED BY <1>4, <1>5, <1>6, <1>7, <1>8, <1>9

LEMMA MovesAreMoves ==
  ASSUME NEW t, \A p \in Paths : FilePlans(t, p) # {},
         NEW i \in 1 .. Len(FileOrder)
  PROVE  Moves(t, i) \in Seq(FileMoves) /\ Moves(t, i) \in FilePlans(t, FileOrder[i])
<1>1. FileOrder[i] \in Paths
  BY OrderFacts
<1>2. FilePlans(t, FileOrder[i]) # {}
  BY <1>1
<1>3. Moves(t, i) \in FilePlans(t, FileOrder[i])
  BY <1>2 DEF Moves
<1> QED BY <1>1, <1>3, FilePlansAreMoves

LEMMA SuffixesAreMoves ==
  ASSUME NEW t, \A p \in Paths : FilePlans(t, p) # {}
  PROVE  \A i \in 1 .. Len(FileOrder) + 1 : Suffixes(t)[i] \in Seq(FileMoves)
<1> DEFINE N == Len(FileOrder)
           Good == {k \in Nat : \A i \in 1 .. N + 1 :
                                  i >= N + 1 - k => Suffixes(t)[i] \in Seq(FileMoves)}
<1>1. N \in Nat
  BY OrderFacts
<1>2. 0 \in Good
  <2> SUFFICES ASSUME NEW i \in 1 .. N + 1, i >= N + 1 - 0
               PROVE  Suffixes(t)[i] \in Seq(FileMoves)
    OBVIOUS
  <2>1. i > N
    BY <1>1
  <2>2. Suffixes(t)[i] = <<>>
    BY <2>1, SuffixAt DEF Suffix
  <2> QED BY <2>2
<1>3. ASSUME NEW k \in Nat, k \in Good
      PROVE  k + 1 \in Good
  <2> SUFFICES ASSUME NEW i \in 1 .. N + 1, i >= N + 1 - (k + 1), ~(i >= N + 1 - k)
               PROVE  Suffixes(t)[i] \in Seq(FileMoves)
    BY <1>3
  <2>1. i \in 1 .. N /\ i + 1 \in 1 .. N + 1 /\ i + 1 >= N + 1 - k
    BY <1>1
  <2>2. Suffixes(t)[i + 1] \in Seq(FileMoves)
    BY <1>3, <2>1
  <2>3. Moves(t, i) \in Seq(FileMoves)
    BY <2>1, MovesAreMoves
  <2>4. Suffixes(t)[i] = Moves(t, i) \o Suffixes(t)[i + 1]
    BY <2>1, SuffixStep
  <2> QED BY <2>2, <2>3, <2>4
<1>4. N \in Good
  <2> HIDE DEF Good
  <2> QED BY <1>1, <1>2, <1>3, ClimbsToAll
<1> QED BY <1>1, <1>4

\* The steps of the files are moves, and there are none only when there is
\* nothing to do for any file.
LEMMA FileStepsAreMoves ==
  ASSUME NEW t, \A p \in Paths : FilePlans(t, p) # {}
  PROVE  FileSteps(t) \in Seq(FileMoves)
<1>1. 1 \in 1 .. Len(FileOrder) + 1
  BY OrderFacts
<1>2. Suffixes(t)[1] \in Seq(FileMoves)
  BY <1>1, SuffixesAreMoves
<1> QED BY <1>2, FileStepsAreSuffixes

LEMMA NoStepsNothingToDo ==
  ASSUME NEW t, \A p \in Paths : FilePlans(t, p) # {}, FileSteps(t) = <<>>
  PROVE  \A p \in Paths : <<>> \in FilePlans(t, p)
<1> DEFINE N == Len(FileOrder)
           Bare == {k \in Nat : k + 1 \in 1 .. N + 1 => Suffixes(t)[k + 1] = <<>>}
<1>1. N \in Nat
  BY OrderFacts
<1>2. ASSUME NEW i \in 1 .. N, Suffixes(t)[i] = <<>>
      PROVE  Moves(t, i) = <<>> /\ Suffixes(t)[i + 1] = <<>>
  <2>1. Moves(t, i) \in Seq(FileMoves) /\ Suffixes(t)[i + 1] \in Seq(FileMoves)
    <3>1. i + 1 \in 1 .. Len(FileOrder) + 1
      BY <1>1
    <3> QED BY <3>1, MovesAreMoves, SuffixesAreMoves
  <2>2. Moves(t, i) \o Suffixes(t)[i + 1] = <<>>
    BY <1>2, SuffixStep
  <2>3. Len(Moves(t, i)) + Len(Suffixes(t)[i + 1]) = 0
    BY <2>1, <2>2
  <2> QED BY <2>1, <2>3
<1>3. 0 \in Bare
  BY FileStepsAreSuffixes
<1>4. ASSUME NEW k \in Nat, k \in Bare
      PROVE  k + 1 \in Bare
  BY <1>1, <1>2, <1>4
<1>5. \A k \in Nat : k \in Bare
  <2> HIDE DEF Bare
  <2> QED BY <1>3, <1>4, ClimbsToAll
<1>6. ASSUME NEW i \in 1 .. N
      PROVE  Suffixes(t)[i] = <<>>
  <2>1. i - 1 \in Nat /\ (i - 1) + 1 = i
    BY <1>1
  <2>2. i - 1 \in Bare
    BY <2>1, <1>5
  <2> QED BY <2>1, <2>2
<1> SUFFICES ASSUME NEW p \in Paths PROVE <<>> \in FilePlans(t, p)
  OBVIOUS
<1>7. PICK i \in 1 .. N : FileOrder[i] = p
  BY FileOrderAssumption, OrderFacts
<1> QED BY <1>2, <1>6, <1>7, MovesAreMoves

-----------------------------------------------------------------------------
\* What a move looks like, by its kind.
LEMMA MoveShape ==
  ASSUME NEW m \in FileMoves
  PROVE  /\ m.path \in Paths
         /\ m.kind \in {"RECONCILE_INSTALLED", "REMOVE_EXACT_TEMP",
                        "RESTORE_PREIMAGE", "MARK_RESTORED"}
         /\ m.kind = "RECONCILE_INSTALLED" => m.dest = "AFTER" /\ m.temp = "ABSENT"
         /\ m.kind = "REMOVE_EXACT_TEMP" => m.dest = "BEFORE" /\ m.temp = "EXACT_TEMP"
         /\ m.kind = "RESTORE_PREIMAGE" => m.dest = "AFTER" /\ m.temp = "ABSENT"
         /\ m.kind = "MARK_RESTORED" => m.dest = "BEFORE" /\ m.temp = "ABSENT"
BY DEF FileMoves, RestoreStep, MarkStep, PlanStep

LEMMA BareStepShape ==
  /\ BareStep("ENTER_ROLLBACK") \in PlanSteps
  /\ BareStep("ENTER_ROLLBACK").kind = "ENTER_ROLLBACK"
  /\ BareStep("FINISH_ROLLBACK") \in PlanSteps
  /\ BareStep("FINISH_ROLLBACK").kind = "FINISH_ROLLBACK"
BY DEF PlanSteps, BareStep

LEMMA StepIsMove ==
  ASSUME NEW m \in PlanSteps, m.kind \notin {"ENTER_ROLLBACK", "FINISH_ROLLBACK"}
  PROVE  m \in FileMoves
BY DEF PlanSteps, BareStep

\* Moves followed by the last step, with or without a step before them.
LEMMA MovesThenFinish ==
  ASSUME NEW f \in Seq(FileMoves)
  PROVE  LET s == f \o <<BareStep("FINISH_ROLLBACK")>>
             u == <<BareStep("ENTER_ROLLBACK")>> \o s
         IN  /\ WholePlan(s) /\ s[1].kind # "ENTER_ROLLBACK"
             /\ Len(s) = 1 => f = <<>>
             /\ WholePlan(u) /\ Len(u) > 1
<1> DEFINE l == BareStep("FINISH_ROLLBACK")
           h == BareStep("ENTER_ROLLBACK")
           s == f \o <<l>>
           u == <<h>> \o s
<1>0. /\ l \in PlanSteps /\ l.kind = "FINISH_ROLLBACK"
      /\ h \in PlanSteps /\ h.kind = "ENTER_ROLLBACK"
  BY BareStepShape
<1>1. f \in Seq(PlanSteps)
  BY DEF PlanSteps
<1>2. \A i \in 1 .. Len(f) : f[i].kind # "FINISH_ROLLBACK" /\ f[i].kind # "ENTER_ROLLBACK"
  BY MoveShape
<1> HIDE DEF l, h
<1>3. /\ s \in Seq(PlanSteps) /\ Len(s) = Len(f) + 1 /\ Len(f) \in Nat
      /\ \A i \in 1 .. Len(f) : s[i] = f[i]
      /\ s[Len(f) + 1] = l
  BY <1>0, <1>1
<1>4. /\ s # <<>>
      /\ \A i \in DOMAIN s : s[i].kind = "FINISH_ROLLBACK" <=> i = Len(s)
  <2>1. \A i \in DOMAIN s : i \in 1 .. Len(f) \/ i = Len(f) + 1
    BY <1>3
  <2> QED BY <2>1, <1>0, <1>2, <1>3
<1>5. s[1].kind # "ENTER_ROLLBACK"
  <2>1. 1 \in 1 .. Len(f) \/ (Len(f) = 0 /\ s[1] = l)
    BY <1>3
  <2> QED BY <2>1, <1>0, <1>2, <1>3
<1>6. Len(s) = 1 => f = <<>>
  BY <1>1, <1>3
<1> HIDE DEF s
<1>7. /\ u \in Seq(PlanSteps) /\ Len(u) = Len(s) + 1
      /\ \A i \in 1 .. Len(s) : u[i + 1] = s[i]
      /\ u[1] = h
  BY <1>0, <1>3
<1>8. /\ u # <<>> /\ Len(u) > 1
      /\ \A i \in DOMAIN u : u[i].kind = "FINISH_ROLLBACK" <=> i = Len(u)
  <2> SUFFICES ASSUME NEW i \in DOMAIN u
               PROVE  u[i].kind = "FINISH_ROLLBACK" <=> i = Len(u)
    BY <1>3, <1>7
  <2>1. CASE i = 1
    BY <2>1, <1>0, <1>3, <1>4, <1>7
  <2>2. CASE i # 1
    <3>1. i - 1 \in 1 .. Len(s) /\ (i - 1) + 1 = i
      BY <2>2, <1>3, <1>7
    <3>2. u[i] = s[i - 1]
      BY <3>1, <1>7
    <3>3. i - 1 \in DOMAIN s
      BY <3>1, <1>3
    <3> QED BY <3>1, <3>2, <3>3, <1>3, <1>4, <1>7
  <2> QED BY <2>1, <2>2
<1>9. WholePlan(s) /\ WholePlan(u)
  BY <1>3, <1>4, <1>7, <1>8 DEF WholePlan
<1> QED BY <1>5, <1>6, <1>8, <1>9 DEF s, l, h

\* A plan that the planner returns ends with its one FINISH_ROLLBACK, and it
\* opens with ENTER_ROLLBACK unless the transaction is rolling back already.
LEMMA PlanIsWhole ==
  ASSUME NEW t, Plannable(t)
  PROVE  /\ WholePlan(RollbackPlan(t))
         /\ RollbackPlan(t)[1].kind # "ENTER_ROLLBACK" => t.state = "ROLLING_BACK"
<1> DEFINE f == FileSteps(t)
           s == f \o <<BareStep("FINISH_ROLLBACK")>>
           u == <<BareStep("ENTER_ROLLBACK")>> \o s
<1>1. f \in Seq(FileMoves)
  BY FileStepsAreMoves DEF Plannable
<1>2. WholePlan(s) /\ WholePlan(u)
  BY <1>1, MovesThenFinish
<1>3. CASE t.state \in {"APPLYING", "VERIFYING"}
  <2>1. RollbackPlan(t) = (<<BareStep("ENTER_ROLLBACK")>> \o f) \o <<BareStep("FINISH_ROLLBACK")>>
    BY <1>3 DEF RollbackPlan
  <2> HIDE DEF f
  <2>2. f \in Seq(PlanSteps) /\ BareStep("ENTER_ROLLBACK") \in PlanSteps
          /\ BareStep("FINISH_ROLLBACK") \in PlanSteps
    BY <1>1, BareStepShape DEF PlanSteps
  <2>3. RollbackPlan(t) = u
    BY <2>1, <2>2
  <2>4. u[1].kind = "ENTER_ROLLBACK"
    BY <2>2, BareStepShape
  <2> QED BY <1>2, <2>3, <2>4
<1>4. CASE t.state \notin {"APPLYING", "VERIFYING"}
  <2>1. t.state = "ROLLING_BACK"
    BY <1>4 DEF Plannable, ActiveStates
  <2>2. RollbackPlan(t) = <<>> \o f \o <<BareStep("FINISH_ROLLBACK")>>
    BY <1>4 DEF RollbackPlan
  <2> HIDE DEF f
  <2>3. <<>> \o f = f
    BY <1>1
  <2>4. RollbackPlan(t) = s
    BY <2>2, <2>3
  <2> QED BY <1>2, <2>1, <2>4
<1> QED BY <1>3, <1>4

\* A plan that is only its last step is one of a transaction that is rolling
\* back and has nothing left to do for any file.
LEMMA OnlyFinishMeansRestored ==
  ASSUME NEW t, Plannable(t), RollbackPlan(t) = <<BareStep("FINISH_ROLLBACK")>>
  PROVE  t.state = "ROLLING_BACK" /\ \A p \in Paths : At(p, "BEFORE", "ABSENT")
<1> DEFINE f == FileSteps(t)
           s == f \o <<BareStep("FINISH_ROLLBACK")>>
<1>1. f \in Seq(FileMoves)
  BY FileStepsAreMoves DEF Plannable
<1>2. t.state = "ROLLING_BACK"
  <2>1. RollbackPlan(t)[1].kind = "FINISH_ROLLBACK"
    BY BareStepShape
  <2> QED BY <2>1, PlanIsWhole
<1>3. f = <<>>
  <2>1. RollbackPlan(t) = <<>> \o f \o <<BareStep("FINISH_ROLLBACK")>>
    BY <1>2 DEF RollbackPlan
  <2>2. Len(s) = 1
    <3> HIDE DEF f
    <3>1. <<>> \o f = f
      BY <1>1
    <3> QED BY <2>1, <3>1
  <2> QED BY <1>1, <2>2, MovesThenFinish
<1>4. \A p \in Paths : <<>> \in FilePlans(t, p)
  BY <1>3, NoStepsNothingToDo DEF Plannable
<1>5. ASSUME NEW p \in Paths
      PROVE  At(p, "BEFORE", "ABSENT")
  BY <1>4 DEF FilePlans
<1> QED BY <1>2, <1>5
-----------------------------------------------------------------------------

LEMMA KindsOfWorkers ==
  ASSUME NEW w \in Workers
  PROVE  \/ w \in Preparers /\ w \notin Executors /\ w \notin Rollbackers
         \/ w \in Executors /\ w \notin Preparers /\ w \notin Rollbackers
         \/ w \in Rollbackers /\ w \notin Preparers /\ w \notin Executors
BY WorkersAssumption DEF Workers

LEMMA WithStateType ==
  ASSUME NEW t \in Snapshots, NEW s \in TransactionStates
  PROVE  /\ WithState(t, s) \in Snapshots
         /\ WithState(t, s).state = s /\ WithState(t, s).progress = t.progress
BY DEF Snapshots, WithState

LEMMA WithProgressType ==
  ASSUME NEW t \in Snapshots, NEW p, NEW x \in FileProgressStates
  PROVE  /\ WithProgress(t, p, x) \in Snapshots
         /\ WithProgress(t, p, x).state = t.state
         /\ WithProgress(t, p, x).progress = [t.progress EXCEPT ![p] = x]
BY DEF Snapshots, WithProgress

LEMMA PreparedType ==
  /\ PreparedTransaction \in Snapshots /\ ValidTransaction(PreparedTransaction)
  /\ PreparedTransaction.state = "PREPARED"
BY DEF PreparedTransaction, Snapshots, TransactionStates, FileProgressStates,
       ValidTransaction, StateInvariants, ProgressPermitted

\* What an append that is legal leaves at the tip is a valid snapshot.
LEMMA AppendableIsValid ==
  ASSUME NEW w, NEW u \in Snapshots, Appendable(w, u)
  PROVE  ValidTransaction(u)
BY DEF Appendable, Transition, ValidTransaction

\* No successor is PREPARED, and terminal snapshots have none.
LEMMA SuccessorStates ==
  ASSUME NEW t \in Snapshots, NEW u, Transition(t, u)
  PROVE  /\ u.state \in TransactionStates /\ u.state # "PREPARED"
         /\ t.state \notin TerminalStates
         /\ t.state = "ROLLING_BACK" => u.state \in RolledStates
BY DEF Transition, AllowedStates, Snapshots, TransactionStates, TerminalStates, RolledStates

-----------------------------------------------------------------------------
(***************************************************************************)
(* Where a rollback worker is in its plan.                                 *)
(***************************************************************************)
RollPCs == {"enter"} \cup RestoringPCs

\* The places where a rollback worker is at a file.
MovePCs == RestoringPCs \ {"finish", "finished"}

LEMMA StepAt ==
  ASSUME NEW w \in Rollbackers, Placed(w), pc[w] \in RollPCs
  PROVE  /\ ThisStep(w) \in PlanSteps
         /\ pc[w] \in StepPCs(ThisStep(w).kind)
         /\ pc[w] \in MovePCs => ThisStep(w) \in FileMoves /\ File(w) = ThisStep(w).path
         /\ pc[w] \notin {"finish", "finished"} => idx[w] + 1 \in DOMAIN plan[w]
         /\ idx[w] \in Nat
<1> DEFINE s == plan[w]
           i == idx[w]
<1>1. WholePlan(s) /\ i \in DOMAIN s /\ pc[w] \in StepPCs(s[i].kind)
  BY DEF Placed, RollPCs, RestoringPCs
<1>2. s[i] \in PlanSteps /\ i \in 1 .. Len(s) /\ Len(s) \in Nat
  BY <1>1 DEF WholePlan
<1>3. s[i].kind \in {"ENTER_ROLLBACK", "RECONCILE_INSTALLED", "REMOVE_EXACT_TEMP",
                     "RESTORE_PREIMAGE", "MARK_RESTORED", "FINISH_ROLLBACK"}
  BY <1>2, MoveShape DEF PlanSteps, BareStep
<1>4. pc[w] \in MovePCs => s[i].kind \notin {"ENTER_ROLLBACK", "FINISH_ROLLBACK"}
  BY <1>1, <1>3 DEF StepPCs, MovePCs, RestoringPCs
<1>5. pc[w] \notin {"finish", "finished"} => s[i].kind # "FINISH_ROLLBACK"
  BY <1>1, <1>3 DEF StepPCs
<1>6. pc[w] \notin {"finish", "finished"} => i + 1 \in DOMAIN s
  BY <1>1, <1>2, <1>5 DEF WholePlan
<1>7. pc[w] \in MovePCs => s[i] \in FileMoves
  BY <1>2, <1>4, StepIsMove
<1> QED BY <1>1, <1>2, <1>6, <1>7 DEF ThisStep, File

\* Where a step of a whole plan begins.
LEMMA StepBegins ==
  ASSUME NEW m \in PlanSteps
  PROVE  /\ StepPC(m) \in {"enter", "reconcile", "unplug", "restore", "unmark", "finish"}
         /\ StepPC(m) \in StepPCs(m.kind)
         /\ StepPC(m) = "enter" => m.kind = "ENTER_ROLLBACK"
<1>1. m.kind \in {"ENTER_ROLLBACK", "RECONCILE_INSTALLED", "REMOVE_EXACT_TEMP",
                  "RESTORE_PREIMAGE", "MARK_RESTORED", "FINISH_ROLLBACK"}
  BY MoveShape DEF PlanSteps, BareStep
<1> QED BY <1>1 DEF StepPC, StepPCs

LEMMA NextStepBegins ==
  ASSUME NEW w, WholePlan(plan[w]), idx[w] + 1 \in DOMAIN plan[w]
  PROVE  /\ plan[w][idx[w] + 1] \in PlanSteps
         /\ NextStep(w) \in {"enter", "reconcile", "unplug", "restore", "unmark", "finish"}
         /\ NextStep(w) \in StepPCs(plan[w][idx[w] + 1].kind)
<1>1. plan[w][idx[w] + 1] \in PlanSteps
  BY DEF WholePlan
<1> QED BY <1>1, StepBegins DEF NextStep

\* Whoever works on a file works on one of the transaction's.
FilePCs == OrderedPCs \cup MovePCs

LEMMA FileIsPath ==
  ASSUME NEW w \in Workers, Placed(w), pc[w] \in FilePCs
  PROVE  File(w) \in Paths
<1>1. CASE w \in Rollbackers
  <2>1. pc[w] \in MovePCs
    BY <1>1 DEF Placed, FilePCs, MovePCs, OrderedPCs, RestoringPCs
  <2>2. pc[w] \in RollPCs
    BY <2>1 DEF MovePCs, RollPCs
  <2> QED BY <1>1, <2>1, <2>2, StepAt, MoveShape
<1>2. CASE w \notin Rollbackers
  <2>1. pc[w] \in OrderedPCs
    BY <1>2, KindsOfWorkers
       DEF Placed, FilePCs, MovePCs, OrderedPCs, RestoringPCs, PreparingPCs, ExecutingPCs
  <2>2. idx[w] \in DOMAIN FileOrder
    BY <1>2, <2>1 DEF Placed
  <2> QED BY <1>2, <2>2, OrderFacts DEF File
<1> QED BY <1>1, <1>2

-----------------------------------------------------------------------------
(***************************************************************************)
(* A step of one worker leaves the others where they are.                  *)
(***************************************************************************)
SameWorker(v) ==
  /\ pc'[v] = pc[v] /\ looked'[v] = looked[v]
  /\ cur'[v] = cur[v] /\ idx'[v] = idx[v] /\ plan'[v] = plan[v]

LEMMA OthersStay ==
  ASSUME TypeOK, NEW w \in Workers, NEW v \in Workers, v # w,
         Start(w) \/ Step(w) \/ Fault(w) \/ Crash(w)
  PROVE  SameWorker(v)
<1> USE DEF SameWorker
<1>0. /\ pc \in [Workers -> PCs] /\ looked \in [Workers -> BOOLEAN]
      /\ cur \in [Workers -> Snapshots] /\ idx \in [Workers -> Nat]
      /\ plan \in [Workers -> Seq(PlanSteps)]
  BY DEF TypeOK
<1>1. CASE StartPreparing(w)
  BY <1>0, <1>1 DEF StartPreparing, Go, journal, files, rights, local, history,
      bounds
<1>2. CASE StartExecuting(w)
  BY <1>0, <1>2 DEF StartExecuting, Go, journal, files, rights, local, history,
      bounds
<1>3. CASE StartRollback(w)
  BY <1>0, <1>3 DEF StartRollback, Go, journal, files, rights, local, history,
      bounds
<1>4. CASE ConsumeApproval(w)
  BY <1>0, <1>4 DEF ConsumeApproval, Go, journal, files, rights, local, history,
      bounds, Spend
<1>5. CASE RecheckTarget(w)
  BY <1>0, <1>5 DEF RecheckTarget, Go, journal, files, rights, local, history,
      bounds, InspectAt, GiveUp
<1>6. CASE OpenTemp(w)
  BY <1>0, <1>6 DEF OpenTemp, Go, journal, files, rights, local, history, bounds,
      Change
<1>7. CASE WriteTemp(w)
  BY <1>0, <1>7 DEF WriteTemp, Go, journal, files, rights, local, history, bounds,
      Change
<1>8. CASE SyncTemp(w)
  BY <1>0, <1>8 DEF SyncTemp, Go, journal, files, rights, local, history, bounds,
      MakeDurable
<1>9. CASE SurveyTarget(w)
  BY <1>0, <1>9 DEF SurveyTarget, Go, journal, files, rights, local, history, bounds
<1>10. CASE CertifyPreparation(w)
  BY <1>0, <1>10 DEF CertifyPreparation, Go, journal, files, rights, local, history,
      bounds
<1>11. CASE AppendApplying(w)
  BY <1>0, <1>11 DEF AppendApplying, Go, journal, files, rights, local, history,
      bounds, AppendAt, Appended, AppendBroken, GiveUp, Spend
<1>12. CASE ExamineBefore(w)
  BY <1>0, <1>12 DEF ExamineBefore, Go, journal, files, rights, local, history,
      bounds, InspectAt, GiveUp
<1>13. CASE CheckInstall(w)
  BY <1>0, <1>13 DEF CheckInstall, Go, journal, files, rights, local, history,
      bounds
<1>14. CASE ReplaceDestination(w)
  BY <1>0, <1>14 DEF ReplaceDestination, Go, journal, files, rights, local, history,
      bounds, Change, Overwrite, Leave
<1>15. CASE SyncInstall(w)
  BY <1>0, <1>15 DEF SyncInstall, Go, journal, files, rights, local, history,
      bounds, MakeDurable
<1>16. CASE ExamineAfter(w)
  BY <1>0, <1>16 DEF ExamineAfter, Go, journal, files, rights, local, history,
      bounds, InspectAt, GiveUp
<1>17. CASE AppendInstalled(w)
  BY <1>0, <1>17 DEF AppendInstalled, Go, journal, files, rights, local, history,
      bounds, AppendAt, Appended, AppendBroken, GiveUp, Spend
<1>18. CASE AppendVerifying(w)
  BY <1>0, <1>18 DEF AppendVerifying, Go, journal, files, rights, local, history,
      bounds, AppendAt, Appended, AppendBroken, GiveUp, Spend
<1>19. CASE VerifyInstalled(w)
  BY <1>0, <1>19 DEF VerifyInstalled, Go, journal, files, rights, local, history,
      bounds, InspectAt, GiveUp
<1>20. CASE AppendVerified(w)
  BY <1>0, <1>20 DEF AppendVerified, Go, journal, files, rights, local, history,
      bounds, AppendAt, Appended, AppendBroken, GiveUp, Spend
<1>21. CASE FinalInspection(w)
  BY <1>0, <1>21 DEF FinalInspection, Go, journal, files, rights, local, history,
      bounds, InspectAt, GiveUp
<1>22. CASE AppendCompleted(w)
  BY <1>0, <1>22 DEF AppendCompleted, Go, journal, files, rights, local, history,
      bounds, AppendAt, Appended, AppendBroken, GiveUp, Spend
<1>23. CASE RequireExactPlan(w)
  BY <1>0, <1>23 DEF RequireExactPlan, Go, journal, files, rights, local, history,
      bounds, InspectAt, GiveUp
<1>24. CASE AppendRollingBack(w)
  BY <1>0, <1>24 DEF AppendRollingBack, Go, journal, files, rights, local, history,
      bounds, AppendAt, Appended, AppendBroken, GiveUp, Spend
<1>25. CASE ObserveReconcile(w)
  BY <1>0, <1>25 DEF ObserveReconcile, Go, journal, files, rights, local, history,
      bounds, InspectAt, GiveUp
<1>26. CASE AppendReconciled(w)
  BY <1>0, <1>26 DEF AppendReconciled, Go, journal, files, rights, local, history,
      bounds, AppendAt, Appended, AppendBroken, GiveUp, Spend
<1>27. CASE ObserveTemp(w)
  BY <1>0, <1>27 DEF ObserveTemp, Go, journal, files, rights, local, history,
      bounds, InspectAt, GiveUp
<1>28. CASE CheckRemove(w)
  BY <1>0, <1>28 DEF CheckRemove, Go, journal, files, rights, local, history, bounds
<1>29. CASE UnlinkTemp(w)
  BY <1>0, <1>29 DEF UnlinkTemp, Go, journal, files, rights, local, history, bounds,
      Change
<1>30. CASE SyncStep(w)
  BY <1>0, <1>30 DEF SyncStep, Go, journal, files, rights, local, history, bounds,
      MakeDurable
<1>31. CASE ObserveInstalled(w)
  BY <1>0, <1>31 DEF ObserveInstalled, Go, journal, files, rights, local, history,
      bounds, InspectAt, GiveUp
<1>32. CASE StagePreimage(w)
  BY <1>0, <1>32 DEF StagePreimage, Go, journal, files, rights, local, history,
      bounds, Change
<1>33. CASE SyncStage(w)
  BY <1>0, <1>33 DEF SyncStage, Go, journal, files, rights, local, history, bounds,
      MakeDurable
<1>34. CASE CheckRestore(w)
  BY <1>0, <1>34 DEF CheckRestore, Go, journal, files, rights, local, history,
      bounds
<1>35. CASE RestorePreimage(w)
  BY <1>0, <1>35 DEF RestorePreimage, Go, journal, files, rights, local, history,
      bounds, Change, Overwrite, Leave
<1>36. CASE ObserveRestored(w)
  BY <1>0, <1>36 DEF ObserveRestored, Go, journal, files, rights, local, history,
      bounds, InspectAt, GiveUp
<1>37. CASE AppendRestored(w)
  BY <1>0, <1>37 DEF AppendRestored, Go, journal, files, rights, local, history,
      bounds, AppendAt, Appended, AppendBroken, GiveUp, Spend
<1>38. CASE RequireFinishReady(w)
  BY <1>0, <1>38 DEF RequireFinishReady, Go, journal, files, rights, local, history,
      bounds, InspectAt, GiveUp
<1>39. CASE AppendRolledBack(w)
  BY <1>0, <1>39 DEF AppendRolledBack, Go, journal, files, rights, local, history,
      bounds, AppendAt, Appended, AppendBroken, GiveUp, Spend
<1>40. CASE ConfirmRolledBack(w)
  BY <1>0, <1>40 DEF ConfirmRolledBack, Go, journal, files, rights, local, history,
      bounds
<1>41. CASE FailClosed(w)
  BY <1>0, <1>41 DEF FailClosed, Go, journal, files, rights, local, history, bounds
<1>42. CASE AppendRecoveryRequired(w)
  BY <1>0, <1>42 DEF AppendRecoveryRequired, Go, journal, files, rights, local,
      history, bounds, AppendAt, Appended, AppendBroken, GiveUp, Spend
<1>43. CASE Fault(w)
  BY <1>0, <1>43 DEF Fault, Go, journal, files, rights, local, history, bounds,
      Spend
<1>44. CASE Crash(w)
  BY <1>0, <1>44 DEF Crash, Go, journal, files, rights, local, history, bounds,
      Spend
<1> QED BY <1>1, <1>2, <1>3, <1>4, <1>5, <1>6, <1>7, <1>8, <1>9, <1>10, <1>11,
    <1>12, <1>13, <1>14, <1>15, <1>16, <1>17, <1>18, <1>19, <1>20, <1>21, <1>22,
    <1>23, <1>24, <1>25, <1>26, <1>27, <1>28, <1>29, <1>30, <1>31, <1>32, <1>33,
    <1>34, <1>35, <1>36, <1>37, <1>38, <1>39, <1>40, <1>41, <1>42, <1>43, <1>44
  DEF Start, Step, Prepare, Execute, Rollback, Terminalize

-----------------------------------------------------------------------------
(***************************************************************************)
(* The forms a step of a worker takes.  Most only move the worker: it      *)
(* reads the journal, drops out, or goes on because of what it saw.        *)
(***************************************************************************)
Turned(w, n, i) ==
  /\ pc' = [pc EXCEPT ![w] = n] /\ idx' = [idx EXCEPT ![w] = i]
  /\ looked' = [looked EXCEPT ![w] = FALSE]
  /\ UNCHANGED <<journal, files, stray, rights, cur, plan, bounds, history>>

Looks(w) ==
  /\ pc[w] \in InspectPCs /\ ~looked[w] /\ readable /\ tip = cur[w]
  /\ looked' = [looked EXCEPT ![w] = TRUE]
  /\ UNCHANGED <<journal, files, stray, rights, pc, local, bounds, history>>

Drops(w) ==
  /\ pc[w] \notin {"idle", "sync"}
  /\ \/ Turned(w, "idle", idx[w])
     \/ w \notin Preparers /\ Turned(w, "failing", idx[w])

GoesOn(w) ==
  \/ /\ pc[w] = "recheck" /\ looked[w] /\ PreparedTarget("ABSENT")
     /\ Turned(w, "open", 1)
  \/ /\ pc[w] = "survey" /\ PreparedTarget("EXACT_TEMP")
     /\ Turned(w, "certify", idx[w])
  \/ pc[w] = "examine" /\ looked[w] /\ Turned(w, "check", idx[w])
  \/ /\ pc[w] = "check" /\ At(File(w), "BEFORE", "EXACT_TEMP")
     /\ Turned(w, "replace", idx[w])
  \/ pc[w] = "reexamine" /\ looked[w] /\ Turned(w, "record", idx[w])
  \/ pc[w] = "verify" /\ looked[w] /\ Turned(w, "mark", idx[w])
  \/ pc[w] = "final" /\ looked[w] /\ Turned(w, "complete", idx[w])
  \/ /\ pc[w] = "replan" /\ looked[w]
     /\ Plannable(cur[w]) /\ plan[w] = RollbackPlan(cur[w])
     /\ Turned(w, NextStep(w), 1)
  \/ /\ pc[w] = "reconcile" /\ looked[w] /\ StepObserved(w)
     /\ Turned(w, "reconciled", idx[w])
  \/ pc[w] = "unplug" /\ looked[w] /\ Turned(w, "unplugCheck", idx[w])
  \/ pc[w] = "unplugCheck" /\ Turned(w, "unlink", idx[w])
  \/ pc[w] = "restore" /\ looked[w] /\ Turned(w, "stage", idx[w])
  \/ /\ pc[w] = "restoreCheck" /\ fs[File(w)].dest = "AFTER"
     /\ Turned(w, "restoreReplace", idx[w])
  \/ /\ pc[w] = "unmark" /\ looked[w] /\ StepObserved(w)
     /\ Turned(w, "restored", idx[w])
  \/ /\ pc[w] = "finish" /\ looked[w] /\ Plannable(cur[w])
     /\ RollbackPlan(cur[w]) = <<BareStep("FINISH_ROLLBACK")>>
     /\ Turned(w, "finished", idx[w])

\* The snapshot that a worker at an append would have follow its own.
Wanted(w) ==
  CASE pc[w] = "apply"       -> WithState(cur[w], "APPLYING")
    [] pc[w] = "record"      -> WithProgress(cur[w], File(w), "INSTALLED")
    [] pc[w] = "turn"        -> WithState(cur[w], "VERIFYING")
    [] pc[w] = "mark"        -> WithProgress(cur[w], File(w), "VERIFIED")
    [] pc[w] = "complete"    -> WithState(cur[w], "COMPLETED")
    [] pc[w] = "enter"       -> WithState(cur[w], "ROLLING_BACK")
    [] pc[w] = "reconciled"  -> WithProgress(cur[w], File(w), "INSTALLED")
    [] pc[w] = "restored"    -> WithProgress(cur[w], File(w), "RESTORED")
    [] pc[w] = "finished"    -> WithState(cur[w], "ROLLED_BACK")
    [] pc[w] = "terminalize" -> WithState(cur[w], "RECOVERY_REQUIRED")

Posts(w, n, i) == pc[w] \in AppendPCs /\ Appended(w, Wanted(w), n, i)

Appends(w) ==
  \/ pc[w] = "apply" /\ Posts(w, "examine", 1)
  \/ pc[w] = "record" /\ Posts(w, IF LastFile(w) THEN "turn" ELSE "examine", idx[w] + 1)
  \/ pc[w] = "turn" /\ Posts(w, "verify", 1)
  \/ pc[w] = "mark" /\ Posts(w, IF LastFile(w) THEN "final" ELSE "verify", idx[w] + 1)
  \/ pc[w] \in {"complete", "terminalize"} /\ Posts(w, "idle", 0)
  \/ pc[w] \in {"enter", "reconciled", "restored"} /\ Posts(w, NextStep(w), idx[w] + 1)
  \/ pc[w] = "finished" /\ Posts(w, "confirm", idx[w])

Breaks(w) == pc[w] \in AppendPCs /\ AppendBroken(w, Wanted(w))

LEMMA DropsOut ==
  ASSUME TypeOK, NEW w \in Workers, Placed(w), GiveUp(w), pc[w] \notin {"idle", "sync"},
         ~looked'[w], looked' = [looked EXCEPT ![w] = FALSE] \/ looked' = looked
  PROVE  Drops(w)
<1>1. looked' = [looked EXCEPT ![w] = FALSE] /\ idx' = [idx EXCEPT ![w] = idx[w]]
  BY DEF TypeOK, GiveUp, local
<1>2. OnFailure(w) \in {"idle", "failing"} /\ (w \in Preparers => OnFailure(w) = "idle")
  BY DEF OnFailure
<1> QED BY <1>1, <1>2 DEF GiveUp, Go, Drops, Turned, local

LEMMA InspectionForms ==
  ASSUME TypeOK, NEW w \in Workers, Placed(w)
  PROVE  (\/ RecheckTarget(w) \/ ExamineBefore(w) \/ ExamineAfter(w)
          \/ VerifyInstalled(w) \/ FinalInspection(w) \/ RequireExactPlan(w)
          \/ ObserveReconcile(w) \/ ObserveTemp(w)
          \/ ObserveInstalled(w) \/ ObserveRestored(w) \/ RequireFinishReady(w))
         => Looks(w) \/ Drops(w) \/ GoesOn(w)
<1>0. looked \in [Workers -> BOOLEAN] /\ idx \in [Workers -> Nat]
  BY DEF TypeOK
<1>1. CASE RecheckTarget(w)
  <2>1. \/ Looks(w)
        \/ /\ GiveUp(w) /\ pc[w] \notin {"idle", "sync"} /\ ~looked'[w]
           /\ looked' = [looked EXCEPT ![w] = FALSE] \/ looked' = looked
        \/ /\ pc[w] = "recheck" /\ looked[w] /\ PreparedTarget("ABSENT")
           /\ Turned(w, "open", 1)
    BY <1>0, <1>1 DEF RecheckTarget, InspectAt, Looks, InspectPCs, Turned, Go
  <2> QED BY <2>1, DropsOut, Zenon DEF GoesOn
<1>2. CASE ExamineBefore(w)
  <2>1. \/ Looks(w)
        \/ /\ GiveUp(w) /\ pc[w] \notin {"idle", "sync"} /\ ~looked'[w]
           /\ looked' = [looked EXCEPT ![w] = FALSE] \/ looked' = looked
        \/ /\ pc[w] = "examine" /\ looked[w]
           /\ Turned(w, "check", idx[w])
    BY <1>0, <1>2 DEF ExamineBefore, InspectAt, Looks, InspectPCs, Turned, Go
  <2> QED BY <2>1, DropsOut, Zenon DEF GoesOn
<1>3. CASE ExamineAfter(w)
  <2>1. \/ Looks(w)
        \/ /\ GiveUp(w) /\ pc[w] \notin {"idle", "sync"} /\ ~looked'[w]
           /\ looked' = [looked EXCEPT ![w] = FALSE] \/ looked' = looked
        \/ /\ pc[w] = "reexamine" /\ looked[w]
           /\ Turned(w, "record", idx[w])
    BY <1>0, <1>3 DEF ExamineAfter, InspectAt, Looks, InspectPCs, Turned, Go
  <2> QED BY <2>1, DropsOut, Zenon DEF GoesOn
<1>4. CASE VerifyInstalled(w)
  <2>1. \/ Looks(w)
        \/ /\ GiveUp(w) /\ pc[w] \notin {"idle", "sync"} /\ ~looked'[w]
           /\ looked' = [looked EXCEPT ![w] = FALSE] \/ looked' = looked
        \/ /\ pc[w] = "verify" /\ looked[w]
           /\ Turned(w, "mark", idx[w])
    BY <1>0, <1>4 DEF VerifyInstalled, InspectAt, Looks, InspectPCs, Turned, Go
  <2> QED BY <2>1, DropsOut, Zenon DEF GoesOn
<1>5. CASE FinalInspection(w)
  <2>1. \/ Looks(w)
        \/ /\ GiveUp(w) /\ pc[w] \notin {"idle", "sync"} /\ ~looked'[w]
           /\ looked' = [looked EXCEPT ![w] = FALSE] \/ looked' = looked
        \/ /\ pc[w] = "final" /\ looked[w]
           /\ Turned(w, "complete", idx[w])
    BY <1>0, <1>5 DEF FinalInspection, InspectAt, Looks, InspectPCs, Turned, Go
  <2> QED BY <2>1, DropsOut, Zenon DEF GoesOn
<1>6. CASE RequireExactPlan(w)
  <2>1. \/ Looks(w)
        \/ /\ GiveUp(w) /\ pc[w] \notin {"idle", "sync"} /\ ~looked'[w]
           /\ looked' = [looked EXCEPT ![w] = FALSE] \/ looked' = looked
        \/ /\ pc[w] = "replan" /\ looked[w] /\ Plannable(cur[w]) /\ plan[w] = RollbackPlan(cur[w])
           /\ Turned(w, NextStep(w), 1)
    BY <1>0, <1>6 DEF RequireExactPlan, InspectAt, Looks, InspectPCs, Turned, Go
  <2> QED BY <2>1, DropsOut, Zenon DEF GoesOn
<1>7. CASE ObserveReconcile(w)
  <2>1. \/ Looks(w)
        \/ /\ GiveUp(w) /\ pc[w] \notin {"idle", "sync"} /\ ~looked'[w]
           /\ looked' = [looked EXCEPT ![w] = FALSE] \/ looked' = looked
        \/ /\ pc[w] = "reconcile" /\ looked[w] /\ StepObserved(w)
           /\ Turned(w, "reconciled", idx[w])
    BY <1>0, <1>7 DEF ObserveReconcile, InspectAt, Looks, InspectPCs, Turned, Go
  <2> QED BY <2>1, DropsOut, Zenon DEF GoesOn
<1>8. CASE ObserveTemp(w)
  <2>1. \/ Looks(w)
        \/ /\ GiveUp(w) /\ pc[w] \notin {"idle", "sync"} /\ ~looked'[w]
           /\ looked' = [looked EXCEPT ![w] = FALSE] \/ looked' = looked
        \/ /\ pc[w] = "unplug" /\ looked[w]
           /\ Turned(w, "unplugCheck", idx[w])
    BY <1>0, <1>8 DEF ObserveTemp, InspectAt, Looks, InspectPCs, Turned, Go
  <2> QED BY <2>1, DropsOut, Zenon DEF GoesOn
<1>9. CASE ObserveInstalled(w)
  <2>1. \/ Looks(w)
        \/ /\ GiveUp(w) /\ pc[w] \notin {"idle", "sync"} /\ ~looked'[w]
           /\ looked' = [looked EXCEPT ![w] = FALSE] \/ looked' = looked
        \/ /\ pc[w] = "restore" /\ looked[w]
           /\ Turned(w, "stage", idx[w])
    BY <1>0, <1>9 DEF ObserveInstalled, InspectAt, Looks, InspectPCs, Turned, Go
  <2> QED BY <2>1, DropsOut, Zenon DEF GoesOn
<1>10. CASE ObserveRestored(w)
  <2>1. \/ Looks(w)
        \/ /\ GiveUp(w) /\ pc[w] \notin {"idle", "sync"} /\ ~looked'[w]
           /\ looked' = [looked EXCEPT ![w] = FALSE] \/ looked' = looked
        \/ /\ pc[w] = "unmark" /\ looked[w] /\ StepObserved(w)
           /\ Turned(w, "restored", idx[w])
    BY <1>0, <1>10 DEF ObserveRestored, InspectAt, Looks, InspectPCs, Turned, Go
  <2> QED BY <2>1, DropsOut, Zenon DEF GoesOn
<1>11. CASE RequireFinishReady(w)
  <2>1. \/ Looks(w)
        \/ /\ GiveUp(w) /\ pc[w] \notin {"idle", "sync"} /\ ~looked'[w]
           /\ looked' = [looked EXCEPT ![w] = FALSE] \/ looked' = looked
        \/ /\ pc[w] = "finish" /\ looked[w] /\ Plannable(cur[w]) /\ RollbackPlan(cur[w]) = <<BareStep("FINISH_ROLLBACK")>>
           /\ Turned(w, "finished", idx[w])
    BY <1>0, <1>11 DEF RequireFinishReady, InspectAt, Looks, InspectPCs, Turned, Go
  <2> QED BY <2>1, DropsOut, Zenon DEF GoesOn
<1> QED BY <1>1, <1>2, <1>3, <1>4, <1>5, <1>6, <1>7, <1>8, <1>9, <1>10, <1>11

LEMMA CheckForms ==
  ASSUME TypeOK, NEW w \in Workers, Placed(w)
  PROVE  (\/ SurveyTarget(w) \/ CheckInstall(w) \/ CheckRemove(w)
          \/ CheckRestore(w) \/ ConfirmRolledBack(w))
         => Drops(w) \/ GoesOn(w)
<1>0. looked \in [Workers -> BOOLEAN] /\ idx \in [Workers -> Nat]
  BY DEF TypeOK
<1>1. idx = [idx EXCEPT ![w] = idx[w]]
  BY <1>0
<1>2. CASE SurveyTarget(w)
  <2>1. pc[w] = "survey" /\ looked = [looked EXCEPT ![w] = FALSE]
    BY <1>0, <1>2 DEF SurveyTarget, Placed, InspectPCs
  <2>2. \/ PreparedTarget("EXACT_TEMP") /\ pc' = [pc EXCEPT ![w] = "certify"]
        \/ ~PreparedTarget("EXACT_TEMP") /\ pc' = [pc EXCEPT ![w] = "idle"]
    BY <1>2 DEF SurveyTarget, Go
  <2>3. UNCHANGED <<journal, files, stray, rights, looked, local, bounds, history>>
    BY <1>2 DEF SurveyTarget
  <2>4. \/ PreparedTarget("EXACT_TEMP") /\ Turned(w, "certify", idx[w])
        \/ Turned(w, "idle", idx[w])
    BY <1>1, <2>1, <2>2, <2>3 DEF Turned, local
  <2> QED BY <2>1, <2>4, KindsOfWorkers DEF Drops, GoesOn, Placed, PreparingPCs, ExecutingPCs
<1>3. CASE CheckInstall(w)
  <2>1. pc[w] = "check" /\ looked = [looked EXCEPT ![w] = FALSE]
    BY <1>0, <1>3 DEF CheckInstall, Placed, InspectPCs
  <2>2. \/ At(File(w), "BEFORE", "EXACT_TEMP") /\ pc' = [pc EXCEPT ![w] = "replace"]
        \/ ~At(File(w), "BEFORE", "EXACT_TEMP") /\ pc' = [pc EXCEPT ![w] = "failing"]
    BY <1>3 DEF CheckInstall, Go
  <2>3. UNCHANGED <<journal, files, stray, rights, looked, local, bounds, history>>
    BY <1>3 DEF CheckInstall
  <2>4. \/ At(File(w), "BEFORE", "EXACT_TEMP") /\ Turned(w, "replace", idx[w])
        \/ Turned(w, "failing", idx[w])
    BY <1>1, <2>1, <2>2, <2>3 DEF Turned, local
  <2> QED BY <2>1, <2>4, KindsOfWorkers DEF Drops, GoesOn, Placed, PreparingPCs, ExecutingPCs
<1>4. CASE CheckRemove(w)
  <2>1. pc[w] = "unplugCheck" /\ looked = [looked EXCEPT ![w] = FALSE]
    BY <1>0, <1>4 DEF CheckRemove, Placed, InspectPCs
  <2>2. \/ At(File(w), "BEFORE", "EXACT_TEMP") /\ pc' = [pc EXCEPT ![w] = "unlink"]
        \/ ~At(File(w), "BEFORE", "EXACT_TEMP") /\ pc' = [pc EXCEPT ![w] = "failing"]
    BY <1>4 DEF CheckRemove, Go
  <2>3. UNCHANGED <<journal, files, stray, rights, looked, local, bounds, history>>
    BY <1>4 DEF CheckRemove
  <2>4. \/ At(File(w), "BEFORE", "EXACT_TEMP") /\ Turned(w, "unlink", idx[w])
        \/ Turned(w, "failing", idx[w])
    BY <1>1, <2>1, <2>2, <2>3 DEF Turned, local
  <2> QED BY <2>1, <2>4, KindsOfWorkers DEF Drops, GoesOn, Placed, PreparingPCs, ExecutingPCs
<1>5. CASE CheckRestore(w)
  <2>1. pc[w] = "restoreCheck" /\ looked = [looked EXCEPT ![w] = FALSE]
    BY <1>0, <1>5 DEF CheckRestore, Placed, InspectPCs
  <2>2. \/ (fs[File(w)].dest = "AFTER" /\ fs[File(w)].residue) /\ pc' = [pc EXCEPT ![w] = "restoreReplace"]
        \/ ~(fs[File(w)].dest = "AFTER" /\ fs[File(w)].residue) /\ pc' = [pc EXCEPT ![w] = "failing"]
    BY <1>5 DEF CheckRestore, Go
  <2>3. UNCHANGED <<journal, files, stray, rights, looked, local, bounds, history>>
    BY <1>5 DEF CheckRestore
  <2>4. \/ (fs[File(w)].dest = "AFTER" /\ fs[File(w)].residue) /\ Turned(w, "restoreReplace", idx[w])
        \/ Turned(w, "failing", idx[w])
    BY <1>1, <2>1, <2>2, <2>3 DEF Turned, local
  <2> QED BY <2>1, <2>4, KindsOfWorkers DEF Drops, GoesOn, Placed, PreparingPCs, ExecutingPCs
<1>6. CASE ConfirmRolledBack(w)
  <2>1. pc[w] = "confirm" /\ looked = [looked EXCEPT ![w] = FALSE]
    BY <1>0, <1>6 DEF ConfirmRolledBack, Placed, InspectPCs
  <2>2. \/ (readable /\ tip = cur[w]) /\ pc' = [pc EXCEPT ![w] = "idle"]
        \/ ~(readable /\ tip = cur[w]) /\ pc' = [pc EXCEPT ![w] = "failing"]
    BY <1>6 DEF ConfirmRolledBack, Go
  <2>3. UNCHANGED <<journal, files, stray, rights, looked, local, bounds, history>>
    BY <1>6 DEF ConfirmRolledBack
  <2>4. \/ (readable /\ tip = cur[w]) /\ Turned(w, "idle", idx[w])
        \/ Turned(w, "failing", idx[w])
    BY <1>1, <2>1, <2>2, <2>3 DEF Turned, local
  <2> QED BY <2>1, <2>4, KindsOfWorkers DEF Drops, GoesOn, Placed, PreparingPCs, ExecutingPCs
<1> QED BY <1>2, <1>3, <1>4, <1>5, <1>6

LEMMA AppendForms ==
  ASSUME TypeOK, NEW w \in Workers, Placed(w)
  PROVE  (\/ AppendApplying(w) \/ AppendInstalled(w) \/ AppendVerifying(w)
          \/ AppendVerified(w) \/ AppendCompleted(w) \/ AppendRollingBack(w)
          \/ AppendReconciled(w) \/ AppendRestored(w) \/ AppendRolledBack(w)
          \/ AppendRecoveryRequired(w))
         => Drops(w) \/ Appends(w) \/ Breaks(w)
<1>0. looked \in [Workers -> BOOLEAN] /\ idx \in [Workers -> Nat]
  BY DEF TypeOK
<1>1. CASE AppendApplying(w)
  <2>1. pc[w] = "apply" /\ pc[w] \in AppendPCs /\ ~looked[w]
    BY <1>1 DEF AppendApplying, AppendAt, AppendPCs, Placed, InspectPCs
  <2>2. Wanted(w) = WithState(cur[w], "APPLYING")
    BY <2>1 DEF Wanted
  <2>3. \/ Appended(w, WithState(cur[w], "APPLYING"), "examine", 1)
        \/ GiveUp(w) /\ UNCHANGED looked
        \/ AppendBroken(w, WithState(cur[w], "APPLYING"))
    BY <1>1 DEF AppendApplying, AppendAt
  <2>4. CASE Appended(w, WithState(cur[w], "APPLYING"), "examine", 1)
    BY <2>1, <2>2, <2>4 DEF Appends, Posts
  <2>5. CASE GiveUp(w) /\ UNCHANGED looked
    BY <2>1, <2>5, DropsOut
  <2>6. CASE AppendBroken(w, WithState(cur[w], "APPLYING"))
    BY <2>1, <2>2, <2>6 DEF Breaks
  <2> QED BY <2>3, <2>4, <2>5, <2>6
<1>2. CASE AppendInstalled(w)
  <2>1. pc[w] = "record" /\ pc[w] \in AppendPCs /\ ~looked[w]
    BY <1>2 DEF AppendInstalled, AppendAt, AppendPCs, Placed, InspectPCs
  <2>2. Wanted(w) = WithProgress(cur[w], File(w), "INSTALLED")
    BY <2>1 DEF Wanted
  <2>3. \/ Appended(w, WithProgress(cur[w], File(w), "INSTALLED"), IF LastFile(w) THEN "turn" ELSE "examine", idx[w] + 1)
        \/ GiveUp(w) /\ UNCHANGED looked
        \/ AppendBroken(w, WithProgress(cur[w], File(w), "INSTALLED"))
    BY <1>2 DEF AppendInstalled, AppendAt
  <2>4. CASE Appended(w, WithProgress(cur[w], File(w), "INSTALLED"), IF LastFile(w) THEN "turn" ELSE "examine", idx[w] + 1)
    BY <2>1, <2>2, <2>4 DEF Appends, Posts
  <2>5. CASE GiveUp(w) /\ UNCHANGED looked
    BY <2>1, <2>5, DropsOut
  <2>6. CASE AppendBroken(w, WithProgress(cur[w], File(w), "INSTALLED"))
    BY <2>1, <2>2, <2>6 DEF Breaks
  <2> QED BY <2>3, <2>4, <2>5, <2>6
<1>3. CASE AppendVerifying(w)
  <2>1. pc[w] = "turn" /\ pc[w] \in AppendPCs /\ ~looked[w]
    BY <1>3 DEF AppendVerifying, AppendAt, AppendPCs, Placed, InspectPCs
  <2>2. Wanted(w) = WithState(cur[w], "VERIFYING")
    BY <2>1 DEF Wanted
  <2>3. \/ Appended(w, WithState(cur[w], "VERIFYING"), "verify", 1)
        \/ GiveUp(w) /\ UNCHANGED looked
        \/ AppendBroken(w, WithState(cur[w], "VERIFYING"))
    BY <1>3 DEF AppendVerifying, AppendAt
  <2>4. CASE Appended(w, WithState(cur[w], "VERIFYING"), "verify", 1)
    BY <2>1, <2>2, <2>4 DEF Appends, Posts
  <2>5. CASE GiveUp(w) /\ UNCHANGED looked
    BY <2>1, <2>5, DropsOut
  <2>6. CASE AppendBroken(w, WithState(cur[w], "VERIFYING"))
    BY <2>1, <2>2, <2>6 DEF Breaks
  <2> QED BY <2>3, <2>4, <2>5, <2>6
<1>4. CASE AppendVerified(w)
  <2>1. pc[w] = "mark" /\ pc[w] \in AppendPCs /\ ~looked[w]
    BY <1>4 DEF AppendVerified, AppendAt, AppendPCs, Placed, InspectPCs
  <2>2. Wanted(w) = WithProgress(cur[w], File(w), "VERIFIED")
    BY <2>1 DEF Wanted
  <2>3. \/ Appended(w, WithProgress(cur[w], File(w), "VERIFIED"), IF LastFile(w) THEN "final" ELSE "verify", idx[w] + 1)
        \/ GiveUp(w) /\ UNCHANGED looked
        \/ AppendBroken(w, WithProgress(cur[w], File(w), "VERIFIED"))
    BY <1>4 DEF AppendVerified, AppendAt
  <2>4. CASE Appended(w, WithProgress(cur[w], File(w), "VERIFIED"), IF LastFile(w) THEN "final" ELSE "verify", idx[w] + 1)
    BY <2>1, <2>2, <2>4 DEF Appends, Posts
  <2>5. CASE GiveUp(w) /\ UNCHANGED looked
    BY <2>1, <2>5, DropsOut
  <2>6. CASE AppendBroken(w, WithProgress(cur[w], File(w), "VERIFIED"))
    BY <2>1, <2>2, <2>6 DEF Breaks
  <2> QED BY <2>3, <2>4, <2>5, <2>6
<1>5. CASE AppendCompleted(w)
  <2>1. pc[w] = "complete" /\ pc[w] \in AppendPCs /\ ~looked[w]
    BY <1>5 DEF AppendCompleted, AppendAt, AppendPCs, Placed, InspectPCs
  <2>2. Wanted(w) = WithState(cur[w], "COMPLETED")
    BY <2>1 DEF Wanted
  <2>3. \/ Appended(w, WithState(cur[w], "COMPLETED"), "idle", 0)
        \/ GiveUp(w) /\ UNCHANGED looked
        \/ AppendBroken(w, WithState(cur[w], "COMPLETED"))
    BY <1>5 DEF AppendCompleted, AppendAt
  <2>4. CASE Appended(w, WithState(cur[w], "COMPLETED"), "idle", 0)
    BY <2>1, <2>2, <2>4 DEF Appends, Posts
  <2>5. CASE GiveUp(w) /\ UNCHANGED looked
    BY <2>1, <2>5, DropsOut
  <2>6. CASE AppendBroken(w, WithState(cur[w], "COMPLETED"))
    BY <2>1, <2>2, <2>6 DEF Breaks
  <2> QED BY <2>3, <2>4, <2>5, <2>6
<1>6. CASE AppendRollingBack(w)
  <2>1. pc[w] = "enter" /\ pc[w] \in AppendPCs /\ ~looked[w]
    BY <1>6 DEF AppendRollingBack, AppendAt, AppendPCs, Placed, InspectPCs
  <2>2. Wanted(w) = WithState(cur[w], "ROLLING_BACK")
    BY <2>1 DEF Wanted
  <2>3. \/ Appended(w, WithState(cur[w], "ROLLING_BACK"), NextStep(w), idx[w] + 1)
        \/ GiveUp(w) /\ UNCHANGED looked
        \/ AppendBroken(w, WithState(cur[w], "ROLLING_BACK"))
    BY <1>6 DEF AppendRollingBack, AppendAt
  <2>4. CASE Appended(w, WithState(cur[w], "ROLLING_BACK"), NextStep(w), idx[w] + 1)
    BY <2>1, <2>2, <2>4 DEF Appends, Posts
  <2>5. CASE GiveUp(w) /\ UNCHANGED looked
    BY <2>1, <2>5, DropsOut
  <2>6. CASE AppendBroken(w, WithState(cur[w], "ROLLING_BACK"))
    BY <2>1, <2>2, <2>6 DEF Breaks
  <2> QED BY <2>3, <2>4, <2>5, <2>6
<1>7. CASE AppendReconciled(w)
  <2>1. pc[w] = "reconciled" /\ pc[w] \in AppendPCs /\ ~looked[w]
    BY <1>7 DEF AppendReconciled, AppendAt, AppendPCs, Placed, InspectPCs
  <2>2. Wanted(w) = WithProgress(cur[w], File(w), "INSTALLED")
    BY <2>1 DEF Wanted
  <2>3. \/ Appended(w, WithProgress(cur[w], File(w), "INSTALLED"), NextStep(w), idx[w] + 1)
        \/ GiveUp(w) /\ UNCHANGED looked
        \/ AppendBroken(w, WithProgress(cur[w], File(w), "INSTALLED"))
    BY <1>7 DEF AppendReconciled, AppendAt
  <2>4. CASE Appended(w, WithProgress(cur[w], File(w), "INSTALLED"), NextStep(w), idx[w] + 1)
    BY <2>1, <2>2, <2>4 DEF Appends, Posts
  <2>5. CASE GiveUp(w) /\ UNCHANGED looked
    BY <2>1, <2>5, DropsOut
  <2>6. CASE AppendBroken(w, WithProgress(cur[w], File(w), "INSTALLED"))
    BY <2>1, <2>2, <2>6 DEF Breaks
  <2> QED BY <2>3, <2>4, <2>5, <2>6
<1>8. CASE AppendRestored(w)
  <2>1. pc[w] = "restored" /\ pc[w] \in AppendPCs /\ ~looked[w]
    BY <1>8 DEF AppendRestored, AppendAt, AppendPCs, Placed, InspectPCs
  <2>2. Wanted(w) = WithProgress(cur[w], File(w), "RESTORED")
    BY <2>1 DEF Wanted
  <2>3. \/ Appended(w, WithProgress(cur[w], File(w), "RESTORED"), NextStep(w), idx[w] + 1)
        \/ GiveUp(w) /\ UNCHANGED looked
        \/ AppendBroken(w, WithProgress(cur[w], File(w), "RESTORED"))
    BY <1>8 DEF AppendRestored, AppendAt
  <2>4. CASE Appended(w, WithProgress(cur[w], File(w), "RESTORED"), NextStep(w), idx[w] + 1)
    BY <2>1, <2>2, <2>4 DEF Appends, Posts
  <2>5. CASE GiveUp(w) /\ UNCHANGED looked
    BY <2>1, <2>5, DropsOut
  <2>6. CASE AppendBroken(w, WithProgress(cur[w], File(w), "RESTORED"))
    BY <2>1, <2>2, <2>6 DEF Breaks
  <2> QED BY <2>3, <2>4, <2>5, <2>6
<1>9. CASE AppendRolledBack(w)
  <2>1. pc[w] = "finished" /\ pc[w] \in AppendPCs /\ ~looked[w]
    BY <1>9 DEF AppendRolledBack, AppendAt, AppendPCs, Placed, InspectPCs
  <2>2. Wanted(w) = WithState(cur[w], "ROLLED_BACK")
    BY <2>1 DEF Wanted
  <2>3. \/ Appended(w, WithState(cur[w], "ROLLED_BACK"), "confirm", idx[w])
        \/ GiveUp(w) /\ UNCHANGED looked
        \/ AppendBroken(w, WithState(cur[w], "ROLLED_BACK"))
    BY <1>9 DEF AppendRolledBack, AppendAt
  <2>4. CASE Appended(w, WithState(cur[w], "ROLLED_BACK"), "confirm", idx[w])
    BY <2>1, <2>2, <2>4 DEF Appends, Posts
  <2>5. CASE GiveUp(w) /\ UNCHANGED looked
    BY <2>1, <2>5, DropsOut
  <2>6. CASE AppendBroken(w, WithState(cur[w], "ROLLED_BACK"))
    BY <2>1, <2>2, <2>6 DEF Breaks
  <2> QED BY <2>3, <2>4, <2>5, <2>6
<1>10. CASE AppendRecoveryRequired(w)
  <2>1. pc[w] = "terminalize" /\ pc[w] \in AppendPCs /\ ~looked[w]
    BY <1>10 DEF AppendRecoveryRequired, AppendAt, AppendPCs, Placed, InspectPCs
  <2>2. Wanted(w) = WithState(cur[w], "RECOVERY_REQUIRED")
    BY <2>1 DEF Wanted
  <2>3. \/ Appended(w, WithState(cur[w], "RECOVERY_REQUIRED"), "idle", 0)
        \/ GiveUp(w) /\ UNCHANGED looked
        \/ AppendBroken(w, WithState(cur[w], "RECOVERY_REQUIRED"))
    BY <1>10 DEF AppendRecoveryRequired, AppendAt
  <2>4. CASE Appended(w, WithState(cur[w], "RECOVERY_REQUIRED"), "idle", 0)
    BY <2>1, <2>2, <2>4 DEF Appends, Posts
  <2>5. CASE GiveUp(w) /\ UNCHANGED looked
    BY <2>1, <2>5, DropsOut
  <2>6. CASE AppendBroken(w, WithState(cur[w], "RECOVERY_REQUIRED"))
    BY <2>1, <2>2, <2>6 DEF Breaks
  <2> QED BY <2>3, <2>4, <2>5, <2>6
<1> QED BY <1>1, <1>2, <1>3, <1>4, <1>5, <1>6, <1>7, <1>8, <1>9, <1>10

LEMMA StepForms ==
  ASSUME TypeOK, NEW w \in Workers, Placed(w), Step(w)
  PROVE  \/ Looks(w) \/ Drops(w) \/ GoesOn(w) \/ Appends(w)
         \/ Breaks(w) \/ FailClosed(w) \/ ConsumeApproval(w) \/ CertifyPreparation(w)
         \/ OpenTemp(w) \/ WriteTemp(w) \/ UnlinkTemp(w) \/ StagePreimage(w)
         \/ ReplaceDestination(w) \/ RestorePreimage(w) \/ SyncTemp(w) \/ SyncInstall(w)
         \/ SyncStep(w) \/ SyncStage(w)
<1>1. CASE Prepare(w)
  BY <1>1, InspectionForms, CheckForms DEF Prepare
<1>2. CASE Execute(w)
  BY <1>2, InspectionForms, CheckForms, AppendForms DEF Execute
<1>3. CASE Rollback(w)
  BY <1>3, InspectionForms, CheckForms, AppendForms DEF Rollback
<1>4. CASE Terminalize(w)
  BY <1>4, AppendForms DEF Terminalize
<1> QED BY <1>1, <1>2, <1>3, <1>4 DEF Step

\* A fault and a death alike: the worker stops where it is.
Stops(w) ==
  /\ pc[w] # "idle"
  /\ \E n \in {"idle", "failing"} :
       pc' = [pc EXCEPT ![w] = n] /\ (w \in Preparers => n = "idle")
  /\ \E kind \in {"faults", "crashes"} : Spend(kind)
  /\ looked' = [looked EXCEPT ![w] = FALSE]
  /\ loose' = (loose \/ pc[w] = "sync")
  /\ race' = {x \in race : x[1] # w}
  /\ UNCHANGED <<journal, files, stray, rights, local, lost, late, installers>>

LEMMA FaultOrCrashStops ==
  ASSUME NEW w, Fault(w) \/ Crash(w)
  PROVE  Stops(w)
<1>1. OnFailure(w) \in {"idle", "failing"} /\ (w \in Preparers => OnFailure(w) = "idle")
  BY DEF OnFailure
<1>2. CASE Fault(w)
  BY <1>1, <1>2 DEF Fault, Stops, Go
<1>3. CASE Crash(w)
  BY <1>3 DEF Crash, Stops, Go
<1> QED BY <1>2, <1>3

-----------------------------------------------------------------------------
(***************************************************************************)
(* Types.                                                                  *)
(***************************************************************************)
LEMMA WantedType ==
  ASSUME TypeOK, NEW w \in Workers, pc[w] \in AppendPCs
  PROVE  Wanted(w) \in Snapshots
<1>1. cur[w] \in Snapshots
  BY DEF TypeOK
<1> QED BY <1>1, WithStateType, WithProgressType
       DEF Wanted, AppendPCs, TransactionStates, FileProgressStates

LEMMA PCTypes ==
  /\ AppendPCs \subseteq PCs /\ InspectPCs \subseteq PCs /\ {"idle", "failing"} \subseteq PCs
  /\ {"consume", "replan", "check", "replace", "unplugCheck", "unlink", "stage",
      "syncStage", "restoreCheck", "restoreReplace", "sync", "open", "write",
      "syncTemp", "survey", "certify", "confirm"} \subseteq PCs
BY DEF AppendPCs, InspectPCs, PCs

LEMMA GoesOnType ==
  ASSUME TypeOK, NEW w \in Workers, Placed(w), GoesOn(w)
  PROVE  \E n \in PCs, i \in Nat : Turned(w, n, i)
<1>1. idx[w] \in Nat
  BY DEF TypeOK
<1>2. CASE pc[w] = "replan" /\ Turned(w, NextStep(w), 1)
  <2>1. w \in Rollbackers
    BY <1>2, KindsOfWorkers DEF Placed, PreparingPCs, ExecutingPCs
  <2>2. WholePlan(plan[w]) /\ idx[w] + 1 \in DOMAIN plan[w]
    <3>1. WholePlan(plan[w]) /\ idx[w] = 0
      BY <1>2, <2>1 DEF Placed
    <3> QED BY <3>1 DEF WholePlan
  <2>3. NextStep(w) \in PCs
    BY <2>2, NextStepBegins, PCTypes DEF InspectPCs, AppendPCs
  <2> QED BY <1>2, <2>3
<1>3. CASE ~(pc[w] = "replan" /\ Turned(w, NextStep(w), 1))
  BY <1>1, <1>3, PCTypes DEF GoesOn, AppendPCs
<1> QED BY <1>2, <1>3

LEMMA NextStepPC ==
  ASSUME NEW w \in Rollbackers, Placed(w), pc[w] \in RollPCs,
         pc[w] \notin {"finish", "finished"}
  PROVE  /\ NextStep(w) \in {"enter", "reconcile", "unplug", "restore", "unmark", "finish"}
         /\ NextStep(w) \in PCs /\ WholePlan(plan[w])
         /\ idx[w] + 1 \in DOMAIN plan[w]
         /\ NextStep(w) \in StepPCs(plan[w][idx[w] + 1].kind)
<1>1. WholePlan(plan[w])
  BY DEF Placed, RollPCs, RestoringPCs
<1>2. idx[w] + 1 \in DOMAIN plan[w]
  BY StepAt
<1> QED BY <1>1, <1>2, NextStepBegins, PCTypes DEF InspectPCs, AppendPCs

\* The appends that rollback workers make, and no one else.
LEMMA WhoAppends ==
  ASSUME NEW w \in Workers, Placed(w)
  PROVE  /\ pc[w] \in {"enter", "reconciled", "restored", "finished"} =>
              w \in Rollbackers /\ pc[w] \in RollPCs
         /\ pc[w] \in {"apply", "record", "turn", "mark", "complete"} => w \in Executors
         /\ pc[w] \in AppendPCs => w \notin Preparers
BY KindsOfWorkers
   DEF Placed, RollPCs, RestoringPCs, PreparingPCs, ExecutingPCs, AppendPCs

LEMMA AppendsType ==
  ASSUME TypeOK, NEW w \in Workers, Placed(w), Appends(w)
  PROVE  /\ pc[w] \in AppendPCs
         /\ \E n \in PCs, i \in Nat : Appended(w, Wanted(w), n, i)
<1>1. idx[w] \in Nat
  BY DEF TypeOK
<1>2. CASE pc[w] \in {"enter", "reconciled", "restored"} /\ Posts(w, NextStep(w), idx[w] + 1)
  <2>1. NextStep(w) \in PCs
    BY <1>2, WhoAppends, NextStepPC
  <2> QED BY <1>1, <1>2, <2>1 DEF Posts
<1>3. CASE ~(pc[w] \in {"enter", "reconciled", "restored"} /\ Posts(w, NextStep(w), idx[w] + 1))
  BY <1>1, <1>3, PCTypes DEF Appends, Posts, InspectPCs, AppendPCs
<1> QED BY <1>2, <1>3

LEMMA TurnedType ==
  ASSUME TypeOK, NEW w \in Workers, NEW n \in PCs, NEW i \in Nat, Turned(w, n, i)
  PROVE  TypeOK'
BY DEF TypeOK, Turned, journal, files, rights, bounds, history

LEMMA SpendType ==
  ASSUME TypeOK, NEW kind \in {"faults", "crashes", "edits", "losses"}, Spend(kind)
  PROVE  /\ spent' \in [faults : Nat, crashes : Nat, edits : Nat, losses : Nat]
         /\ scene' = scene
         /\ \A k \in {"faults", "crashes", "edits", "losses"} :
              spent'[k] = IF k = kind THEN spent[k] + 1 ELSE spent[k]
<1>1. spent \in [faults : Nat, crashes : Nat, edits : Nat, losses : Nat]
  BY DEF TypeOK
<1>2. spent' = [spent EXCEPT ![kind] = @ + 1] /\ scene' = scene
  BY DEF Spend
<1>3. CASE kind = "faults"
  BY <1>1, <1>2, <1>3
<1>4. CASE kind = "crashes"
  BY <1>1, <1>2, <1>4
<1>5. CASE kind = "edits"
  BY <1>1, <1>2, <1>5
<1>6. CASE kind = "losses"
  BY <1>1, <1>2, <1>6
<1> QED BY <1>3, <1>4, <1>5, <1>6

LEMMA AppendedType ==
  ASSUME TypeOK, NEW w \in Workers, NEW u \in Snapshots, NEW n \in PCs, NEW i \in Nat,
         Appended(w, u, n, i)
  PROVE  TypeOK'
<1>1. ValidTransaction(u)
  BY AppendableIsValid DEF Appended
<1> QED BY <1>1 DEF TypeOK, Appended, Go, files, rights, bounds, history

LEMMA BrokenType ==
  ASSUME TypeOK, NEW w \in Workers, NEW u \in Snapshots, AppendBroken(w, u)
  PROVE  TypeOK'
<1>1. ValidTransaction(u)
  BY AppendableIsValid DEF AppendBroken
<1>2. PICK kind \in {"faults", "crashes"}, n \in {"idle", "failing"} :
        Spend(kind) /\ pc' = [pc EXCEPT ![w] = n]
  BY DEF AppendBroken, Go, OnFailure
<1>3. /\ spent' \in [faults : Nat, crashes : Nat, edits : Nat, losses : Nat]
      /\ scene' = scene
  BY <1>2, SpendType
<1>4. /\ readable' \in BOOLEAN /\ loose' \in BOOLEAN
      /\ \A t \in {tip'} \cup fallback' : t \in {tip, u} \cup fallback
  BY DEF AppendBroken, TypeOK
<1>5. UNCHANGED <<files, stray, rights, looked, local, race, lost, late, installers>>
  BY DEF AppendBroken
<1>6. pc' \in [Workers -> PCs]
  BY <1>2, PCTypes DEF TypeOK
<1>7. \A t \in {tip'} \cup fallback' : ValidTransaction(t)
  BY <1>1, <1>4 DEF TypeOK
<1> QED BY <1>3, <1>4, <1>5, <1>6, <1>7 DEF TypeOK, files, rights, local

\* A change to the files of one path, into a state that files can be in.
LEMMA ChangeType ==
  ASSUME TypeOK, NEW w \in Workers, NEW p \in Paths, NEW new \in FileStates,
         Change(w, p, new)
  PROVE  fs' \in [Paths -> FileStates] /\ late' \in [Workers -> SUBSET Paths]
BY DEF TypeOK, Change

LEMMA FileStateType ==
  ASSUME NEW f \in FileStates
  PROVE  /\ \A x \in Temporaries : [f EXCEPT !.temp = x] \in FileStates
         /\ \A x \in Destinations : [f EXCEPT !.dest = x] \in FileStates
         /\ \A x \in Destinations, y \in Temporaries :
              [f EXCEPT !.dest = x, !.temp = y] \in FileStates
         /\ \A x \in Destinations, y \in BOOLEAN :
              [f EXCEPT !.dest = x, !.residue = y] \in FileStates
         /\ \A y \in BOOLEAN : [f EXCEPT !.residue = y] \in FileStates
BY DEF FileStates

LEMMA LossType ==
  ASSUME TypeOK, PowerLoss
  PROVE  /\ fs' \in [Paths -> FileStates] /\ safe' = fs'
         /\ \A p \in Paths : fs'[p] \in AfterLoss(p)
         /\ tip' \in {tip} \cup fallback /\ fallback' = {} /\ readable' \in BOOLEAN
         /\ spent'.losses # 0 /\ spent'.edits = spent.edits
         /\ TypeOK'
<1>1. ASSUME NEW p \in Paths PROVE AfterLoss(p) \subseteq FileStates
  <2>1. fs[p] \in FileStates /\ safe[p] \in FileStates
    BY DEF TypeOK
  <2>2. [fs[p] EXCEPT !.temp = "UNEXPECTED_TEMP"] \in FileStates
    BY <2>1, FileStateType DEF Temporaries
  <2> QED BY <2>1, <2>2 DEF AfterLoss
<1>2. /\ fs' \in [Paths -> UNION {AfterLoss(p) : p \in Paths}]
      /\ \A p \in Paths : fs'[p] \in AfterLoss(p)
  BY DEF PowerLoss
<1>3. fs' \in [Paths -> FileStates]
  BY <1>1, <1>2
<1>4. readable' \in BOOLEAN
  <2> DEFINE C == readable /\ fallback = {} /\ \A w \in Workers : pc[w] \notin AppendPCs
  <2>1. readable' \in IF C THEN {TRUE} ELSE BOOLEAN
    BY DEF PowerLoss
  <2>2. (IF C THEN {TRUE} ELSE BOOLEAN) \subseteq BOOLEAN
    OBVIOUS
  <2> QED BY <2>1, <2>2, Zenon
<1>5. Spend("losses")
  BY DEF PowerLoss
<1>6. /\ spent' \in [faults : Nat, crashes : Nat, edits : Nat, losses : Nat]
      /\ scene' = scene
      /\ spent'.losses = spent.losses + 1 /\ spent'.edits = spent.edits
      /\ spent.losses \in Nat
  BY <1>5, SpendType DEF TypeOK
<1>7. tip' \in {tip} \cup fallback /\ fallback' = {} /\ safe' = fs'
  BY DEF PowerLoss
<1>8. pc' \in [Workers -> PCs] /\ looked' \in [Workers -> BOOLEAN] /\ race' = {}
  BY PCTypes DEF PowerLoss
<1>9. UNCHANGED <<stray, rights, local, loose, lost, late, installers>>
  BY DEF PowerLoss
<1>10. \A t \in {tip'} \cup fallback' : ValidTransaction(t)
  BY <1>7 DEF TypeOK
<1>11. TypeOK'
  BY <1>3, <1>4, <1>6, <1>7, <1>8, <1>9, <1>10 DEF TypeOK, rights, local
<1> QED BY <1>2, <1>3, <1>4, <1>6, <1>7, <1>11

LEMMA TypeStep ==
  ASSUME TypeOK, \A w \in Workers : Placed(w), Next
  PROVE  TypeOK'
<1>1. ASSUME NEW w \in Workers, Start(w) PROVE TypeOK'
  <2>1. tip \in Snapshots
    BY DEF TypeOK, ValidTransaction
  <2>2. CASE StartPreparing(w)
    BY <2>1, <2>2, PCTypes DEF TypeOK, StartPreparing, Go, journal, files, rights, bounds, history
  <2>3. CASE StartExecuting(w)
    BY <2>1, <2>3, PCTypes DEF TypeOK, StartExecuting, Go, AppendPCs, journal, files, rights, bounds, history
  <2>4. CASE StartRollback(w)
    <3>1. RollbackPlan(tip) \in Seq(PlanSteps)
      BY <2>4, PlanIsWhole DEF StartRollback, WholePlan
    <3> QED BY <2>1, <2>4, <3>1, PCTypes
            DEF TypeOK, StartRollback, Go, InspectPCs, journal, files, rights, bounds, history
  <2> QED BY <1>1, <2>2, <2>3, <2>4 DEF Start
<1>2. ASSUME NEW w \in Workers, Step(w) PROVE TypeOK'
  <2>0. /\ idx[w] \in Nat /\ tip \in Snapshots
        /\ \A p \in Paths : fs[p] \in FileStates /\ safe[p] \in FileStates
    BY DEF TypeOK, ValidTransaction
  <2>1. pc[w] \in FilePCs => File(w) \in Paths
    BY FileIsPath
  <2>2. CASE Looks(w)
    BY <2>2 DEF TypeOK, Looks, local, journal, files, rights, bounds, history
  <2>3. CASE Drops(w)
    <3>1. PICK n \in {"idle", "failing"} : Turned(w, n, idx[w])
      BY <2>3 DEF Drops
    <3> QED BY <2>0, <3>1, TurnedType, PCTypes
  <2>4. CASE GoesOn(w)
    BY <2>4, GoesOnType, TurnedType
  <2>5. CASE Appends(w)
    BY <2>5, AppendsType, WantedType, AppendedType
  <2>6. CASE Breaks(w)
    BY <2>6, WantedType, BrokenType DEF Breaks
  <2>7. CASE FailClosed(w)
    BY <2>0, <2>7, PCTypes DEF TypeOK, FailClosed, Go, AppendPCs, journal, files, rights, bounds, history
  <2>8. CASE ConsumeApproval(w)
    <3>1. /\ spent' \in [faults : Nat, crashes : Nat, edits : Nat, losses : Nat]
          /\ scene' = scene
      BY <2>8, SpendType DEF ConsumeApproval, bounds, TypeOK
    <3>2. /\ pc' \in [Workers -> PCs] /\ approval' \in {"approved", "consumed", "burnt"}
          /\ UNCHANGED <<journal, files, stray, evidence, looked, local, history>>
      BY <2>8, PCTypes DEF ConsumeApproval, TypeOK, Go, InspectPCs
    <3> QED BY <3>1, <3>2 DEF TypeOK, local, journal, files, history
  <2>9. CASE CertifyPreparation(w)
    BY <2>9, PCTypes DEF TypeOK, CertifyPreparation, Go, local, journal, files, rights, bounds, history
  <2>10. CASE OpenTemp(w)
    <3>1. File(w) \in Paths
      BY <2>1, <2>10 DEF OpenTemp, FilePCs, OrderedPCs, MovePCs, RestoringPCs
    <3>2. fs' \in [Paths -> FileStates] /\ late' \in [Workers -> SUBSET Paths]
      BY <2>0, <2>10, <3>1, ChangeType, FileStateType
         DEF OpenTemp, Temporaries, TypeOK
    <3>3. pc' \in [Workers -> PCs]
      BY <2>10, PCTypes DEF OpenTemp, Go, TypeOK
    <3> QED BY <2>10, <3>2, <3>3 DEF OpenTemp, TypeOK, journal, rights, local, bounds
  <2>11. CASE WriteTemp(w)
    <3>1. File(w) \in Paths
      BY <2>1, <2>11 DEF WriteTemp, FilePCs, OrderedPCs, MovePCs, RestoringPCs
    <3>2. fs' \in [Paths -> FileStates] /\ late' \in [Workers -> SUBSET Paths]
      BY <2>0, <2>11, <3>1, ChangeType, FileStateType
         DEF WriteTemp, Temporaries, TypeOK
    <3>3. pc' \in [Workers -> PCs]
      BY <2>11, PCTypes DEF WriteTemp, Go, TypeOK
    <3> QED BY <2>11, <3>2, <3>3 DEF WriteTemp, TypeOK, journal, rights, local, bounds
  <2>12. CASE UnlinkTemp(w)
    <3>1. File(w) \in Paths
      BY <2>1, <2>12 DEF UnlinkTemp, FilePCs, OrderedPCs, MovePCs, RestoringPCs
    <3>2. fs' \in [Paths -> FileStates] /\ late' \in [Workers -> SUBSET Paths]
      BY <2>0, <2>12, <3>1, ChangeType, FileStateType
         DEF UnlinkTemp, Temporaries, TypeOK
    <3>3. pc' \in [Workers -> PCs]
      BY <2>12, PCTypes DEF UnlinkTemp, Go, TypeOK
    <3> QED BY <2>12, <3>2, <3>3 DEF UnlinkTemp, TypeOK, journal, rights, local, bounds
  <2>13. CASE StagePreimage(w)
    <3>1. File(w) \in Paths
      BY <2>1, <2>13 DEF StagePreimage, FilePCs, OrderedPCs, MovePCs, RestoringPCs
    <3>2. fs' \in [Paths -> FileStates] /\ late' \in [Workers -> SUBSET Paths]
      BY <2>0, <2>13, <3>1, ChangeType, FileStateType
         DEF StagePreimage, Temporaries, TypeOK
    <3>3. pc' \in [Workers -> PCs]
      BY <2>13, PCTypes DEF StagePreimage, Go, TypeOK
    <3> QED BY <2>13, <3>2, <3>3 DEF StagePreimage, TypeOK, journal, rights, local, bounds
  <2>14. CASE ReplaceDestination(w)
    <3>1. File(w) \in Paths
      BY <2>1, <2>14 DEF ReplaceDestination, FilePCs, OrderedPCs, MovePCs, RestoringPCs
    <3>2. fs' \in [Paths -> FileStates] /\ late' \in [Workers -> SUBSET Paths]
      BY <2>0, <2>14, <3>1, ChangeType, FileStateType
         DEF ReplaceDestination, Overwrite, Destinations, Temporaries, TypeOK
    <3>3. pc' \in [Workers -> PCs]
      BY <2>14, PCTypes DEF ReplaceDestination, Go, Leave, TypeOK
    <3>4. /\ race' \subseteq Workers \X Paths /\ lost' \subseteq Paths
          /\ installers' \subseteq Workers /\ loose' = loose
      BY <2>14, <3>1 DEF ReplaceDestination, Overwrite, Leave, TypeOK
    <3> QED BY <2>14, <3>2, <3>3, <3>4 DEF ReplaceDestination, TypeOK, journal, rights, local, bounds
  <2>15. CASE RestorePreimage(w)
    <3>1. File(w) \in Paths
      BY <2>1, <2>15 DEF RestorePreimage, FilePCs, OrderedPCs, MovePCs, RestoringPCs
    <3>2. fs' \in [Paths -> FileStates] /\ late' \in [Workers -> SUBSET Paths]
      BY <2>0, <2>15, <3>1, ChangeType, FileStateType
         DEF RestorePreimage, Overwrite, Destinations, Temporaries, TypeOK
    <3>3. pc' \in [Workers -> PCs]
      BY <2>15, PCTypes DEF RestorePreimage, Go, Leave, TypeOK
    <3>4. /\ race' \subseteq Workers \X Paths /\ lost' \subseteq Paths
          /\ installers' \subseteq Workers /\ loose' = loose
      BY <2>15, <3>1 DEF RestorePreimage, Overwrite, Leave, TypeOK
    <3> QED BY <2>15, <3>2, <3>3, <3>4 DEF RestorePreimage, TypeOK, journal, rights, local, bounds
  <2>16. CASE SyncTemp(w)
    <3>1. File(w) \in Paths
      BY <2>1, <2>16 DEF SyncTemp, FilePCs, OrderedPCs
    <3>2. idx' \in [Workers -> Nat]
      <4>1. idx' = idx \/ idx' = [idx EXCEPT ![w] = @ + 1]
        BY <2>16 DEF SyncTemp
      <4>2. idx \in [Workers -> Nat]
        BY DEF TypeOK
      <4> QED BY <4>1, <4>2
    <3>3. pc' \in [Workers -> PCs]
      BY <2>16, PCTypes DEF SyncTemp, Go, TypeOK
    <3>4. safe' \in [Paths -> FileStates]
      BY <2>0, <2>16, <3>1 DEF SyncTemp, MakeDurable, TypeOK
    <3> QED BY <2>16, <3>2, <3>3, <3>4
            DEF SyncTemp, TypeOK, journal, rights, bounds, history
  <2>17. CASE SyncInstall(w)
    BY <2>0, <2>1, <2>17, PCTypes
       DEF SyncInstall, MakeDurable, Go, TypeOK, FilePCs, OrderedPCs, MovePCs, RestoringPCs,
           InspectPCs, journal, rights, local, bounds, history
  <2>18. CASE SyncStep(w)
    <3>1. NextStep(w) \in PCs
      BY <2>18, NextStepPC DEF SyncStep, RollPCs, RestoringPCs
    <3> QED BY <2>0, <2>1, <2>18, <3>1, PCTypes
            DEF SyncStep, MakeDurable, Go, TypeOK, FilePCs, OrderedPCs, journal, rights,
                bounds, history
  <2>19. CASE SyncStage(w)
    BY <2>0, <2>1, <2>19, PCTypes
       DEF SyncStage, MakeDurable, Go, TypeOK, FilePCs, OrderedPCs, MovePCs, RestoringPCs,
           InspectPCs, journal, rights, local, bounds, history
  <2> QED BY <1>2, StepForms, <2>2, <2>3, <2>4, <2>5, <2>6, <2>7, <2>8, <2>9, <2>10,
      <2>11, <2>12, <2>13, <2>14, <2>15, <2>16, <2>17, <2>18, <2>19
<1>3. ASSUME NEW w \in Workers, Stops(w) PROVE TypeOK'
  <2>1. PICK n \in {"idle", "failing"}, kind \in {"faults", "crashes"} :
          pc' = [pc EXCEPT ![w] = n] /\ Spend(kind)
    BY <1>3 DEF Stops
  <2>2. /\ spent' \in [faults : Nat, crashes : Nat, edits : Nat, losses : Nat]
        /\ scene' = scene
    BY <2>1, SpendType
  <2>3. /\ looked' = [looked EXCEPT ![w] = FALSE]
        /\ loose' = (loose \/ pc[w] = "sync")
        /\ race' = {x \in race : x[1] # w}
        /\ UNCHANGED <<journal, files, stray, rights, local, lost, late, installers>>
    BY <1>3 DEF Stops
  <2>4. pc' \in [Workers -> PCs] /\ loose' \in BOOLEAN /\ race' \subseteq Workers \X Paths
    BY <2>1, <2>3, PCTypes DEF TypeOK
  <2> QED BY <2>2, <2>3, <2>4 DEF TypeOK, journal, files, rights, local
<1>4. ASSUME NEW p \in Paths, Edit(p) PROVE TypeOK'
  <2>1. /\ spent' \in [faults : Nat, crashes : Nat, edits : Nat, losses : Nat]
        /\ scene' = scene
    BY <1>4, SpendType DEF Edit
  <2>2. fs' \in [Paths -> FileStates] /\ safe' \in [Paths -> FileStates]
    BY <1>4, FileStateType DEF Edit, TypeOK, Destinations
  <2>3. race' \subseteq Workers \X Paths
    BY <1>4 DEF Edit, TypeOK
  <2> QED BY <1>4, <2>1, <2>2, <2>3 DEF Edit, TypeOK, journal, rights, local
<1>5. CASE Disturb
  <2>1. /\ spent' \in [faults : Nat, crashes : Nat, edits : Nat, losses : Nat]
        /\ scene' = scene
    BY <1>5, SpendType DEF Disturb
  <2> QED BY <1>5, <2>1 DEF Disturb, TypeOK, journal, files, rights, local, history
<1> QED BY <1>1, <1>2, <1>3, <1>4, <1>5, LossType, FaultOrCrashStops DEF Next

-----------------------------------------------------------------------------
(***************************************************************************)
(* Places.                                                                 *)
(***************************************************************************)
LEMMA TurnedOwn ==
  ASSUME TypeOK, NEW w \in Workers, NEW n, NEW i, Turned(w, n, i)
  PROVE  /\ pc'[w] = n /\ idx'[w] = i /\ ~looked'[w]
         /\ cur' = cur /\ plan' = plan /\ UNCHANGED <<tip, readable, fallback>>
BY DEF TypeOK, Turned, journal

LEMMA PostsOwn ==
  ASSUME TypeOK, NEW w \in Workers, NEW u, NEW n, NEW i, Appended(w, u, n, i)
  PROVE  /\ pc'[w] = n /\ idx'[w] = i /\ cur'[w] = u /\ tip' = u
         /\ fallback' = {} /\ looked' = looked /\ plan' = plan
         /\ Transition(tip, u) /\ tip = cur[w]
BY DEF TypeOK, Appended, Appendable, Go

\* Two places of one and the same step of a plan.
LEMMA SameStep ==
  ASSUME NEW m \in PlanSteps
  PROVE  /\ "reconcile" \in StepPCs(m.kind) => "reconciled" \in StepPCs(m.kind)
         /\ "unplug" \in StepPCs(m.kind) => "unplugCheck" \in StepPCs(m.kind)
         /\ "unplugCheck" \in StepPCs(m.kind) => "unlink" \in StepPCs(m.kind)
         /\ "unlink" \in StepPCs(m.kind) => "sync" \in StepPCs(m.kind)
         /\ "restore" \in StepPCs(m.kind) => "stage" \in StepPCs(m.kind)
         /\ "stage" \in StepPCs(m.kind) => "syncStage" \in StepPCs(m.kind)
         /\ "syncStage" \in StepPCs(m.kind) => "restoreCheck" \in StepPCs(m.kind)
         /\ "restoreCheck" \in StepPCs(m.kind) => "restoreReplace" \in StepPCs(m.kind)
         /\ "restoreReplace" \in StepPCs(m.kind) => "sync" \in StepPCs(m.kind)
         /\ "unmark" \in StepPCs(m.kind) => "restored" \in StepPCs(m.kind)
         /\ "finish" \in StepPCs(m.kind) => "finished" \in StepPCs(m.kind)
<1>1. m.kind \in {"ENTER_ROLLBACK", "RECONCILE_INSTALLED", "REMOVE_EXACT_TEMP",
                  "RESTORE_PREIMAGE", "MARK_RESTORED", "FINISH_ROLLBACK"}
  BY MoveShape DEF PlanSteps, BareStep
<1> QED BY <1>1 DEF StepPCs

LEMMA NextStepPlaced ==
  ASSUME TypeOK, NEW w \in Rollbackers, WholePlan(plan[w]), idx[w] + 1 \in DOMAIN plan[w],
         pc'[w] = NextStep(w), idx'[w] = idx[w] + 1, plan'[w] = plan[w], ~looked'[w]
  PROVE  Placed(w)'
<1>1. /\ NextStep(w) \in {"enter", "reconcile", "unplug", "restore", "unmark", "finish"}
      /\ NextStep(w) \in StepPCs(plan[w][idx[w] + 1].kind)
  BY NextStepBegins
<1>2. w \notin Preparers /\ w \notin Executors
  BY WorkersAssumption
<1> QED BY <1>1, <1>2 DEF Placed, RestoringPCs

\* A rollback worker goes on within a step, or an executor or a preparer goes
\* on with the file it is at.
LEMMA StaysPlaced ==
  ASSUME TypeOK, NEW w \in Workers, Placed(w), NEW n,
         pc'[w] = n, idx'[w] = idx[w], plan'[w] = plan[w], ~looked'[w],
         \/ pc[w] = "reconcile" /\ n = "reconciled"
         \/ pc[w] = "unplug" /\ n = "unplugCheck"
         \/ pc[w] = "unplugCheck" /\ n = "unlink"
         \/ pc[w] = "unlink" /\ n = "sync"
         \/ pc[w] = "restore" /\ n = "stage"
         \/ pc[w] = "stage" /\ n = "syncStage"
         \/ pc[w] = "syncStage" /\ n = "restoreCheck"
         \/ pc[w] = "restoreCheck" /\ n = "restoreReplace"
         \/ pc[w] = "restoreReplace" /\ n = "sync"
         \/ pc[w] = "unmark" /\ n = "restored"
         \/ pc[w] = "finish" /\ n = "finished"
         \/ pc[w] = "open" /\ n = "write"
         \/ pc[w] = "write" /\ n = "syncTemp"
         \/ pc[w] = "examine" /\ n = "check"
         \/ pc[w] = "check" /\ n = "replace"
         \/ pc[w] = "replace" /\ n = "sync"
         \/ pc[w] = "sync" /\ n = "reexamine" /\ w \in Executors
         \/ pc[w] = "reexamine" /\ n = "record"
         \/ pc[w] = "verify" /\ n = "mark"
  PROVE  Placed(w)'
<1>1. CASE w \in Rollbackers
  <2>1. /\ pc[w] \in RollPCs /\ n \in RestoringPCs
        /\ w \notin Preparers /\ w \notin Executors
    BY <1>1, WorkersAssumption DEF Placed, RollPCs, RestoringPCs
  <2>2. /\ plan[w][idx[w]] \in PlanSteps /\ pc[w] \in StepPCs(plan[w][idx[w]].kind)
        /\ idx[w] \in DOMAIN plan[w] /\ WholePlan(plan[w])
    BY <1>1, <2>1, StepAt DEF ThisStep, Placed, RollPCs, RestoringPCs
  <2>3. n \in StepPCs(plan[w][idx[w]].kind)
    BY <1>1, <2>1, <2>2, SameStep DEF RollPCs, RestoringPCs
  <2> QED BY <1>1, <2>1, <2>2, <2>3 DEF Placed, RestoringPCs
<1>2. CASE w \in Executors
  BY <1>2, WorkersAssumption DEF Placed, ExecutingPCs, OrderedPCs, RestoringPCs
<1>3. CASE w \in Preparers
  BY <1>3, WorkersAssumption DEF Placed, PreparingPCs, OrderedPCs, RestoringPCs
<1> QED BY <1>1, <1>2, <1>3 DEF Workers

LEMMA PlacedAfterStep ==
  ASSUME TypeOK, NEW w \in Workers, Placed(w), Step(w)
  PROVE  Placed(w)'
<1>0. /\ idx[w] \in Nat /\ (pc[w] \notin InspectPCs => ~looked[w])
      /\ pc \in [Workers -> PCs] /\ looked \in [Workers -> BOOLEAN]
      /\ idx \in [Workers -> Nat] /\ plan \in [Workers -> Seq(PlanSteps)]
      /\ cur \in [Workers -> Snapshots]
  BY DEF TypeOK, Placed
<1>k. \/ w \in Preparers /\ w \notin Executors /\ w \notin Rollbackers
      \/ w \in Executors /\ w \notin Preparers /\ w \notin Rollbackers
      \/ w \in Rollbackers /\ w \notin Preparers /\ w \notin Executors
  BY KindsOfWorkers
<1>1. CASE Looks(w)
  BY <1>0, <1>1 DEF Placed, Looks, local
<1>d. ASSUME pc'[w] = "idle" \/ (pc'[w] \in {"failing", "terminalize"} /\ w \notin Preparers), ~looked'[w]
      PROVE  Placed(w)'
  BY <1>d, <1>k DEF Placed, OrderedPCs, RestoringPCs
<1>2. CASE Drops(w)
  BY <1>d, <1>2, TurnedOwn DEF Drops
<1>3. CASE GoesOn(w)
  <2>1. CASE pc[w] = "recheck" /\ Turned(w, "open", 1)
    <3>1. w \in Preparers
      BY <1>k, <2>1 DEF Placed, ExecutingPCs, RestoringPCs
    <3>2. 1 \in DOMAIN FileOrder
      BY OrderFacts
    <3> QED BY <1>k, <2>1, <3>1, <3>2, TurnedOwn DEF Placed, PreparingPCs, RestoringPCs
  <2>2. CASE pc[w] = "survey" /\ Turned(w, "certify", idx[w])
    BY <1>k, <2>2, TurnedOwn
       DEF Placed, PreparingPCs, ExecutingPCs, RestoringPCs, OrderedPCs
  <2>3. CASE pc[w] = "final" /\ Turned(w, "complete", idx[w])
    BY <1>k, <2>3, TurnedOwn
       DEF Placed, PreparingPCs, ExecutingPCs, RestoringPCs, OrderedPCs
  <2>4. CASE pc[w] = "replan" /\ Turned(w, NextStep(w), 1)
    <3>1. w \in Rollbackers /\ idx[w] = 0 /\ WholePlan(plan[w])
      BY <1>k, <2>4 DEF Placed, PreparingPCs, ExecutingPCs
    <3>2. idx[w] + 1 = 1 /\ 1 \in DOMAIN plan[w]
      BY <3>1 DEF WholePlan
    <3> QED BY <2>4, <3>1, <3>2, TurnedOwn, NextStepPlaced
  <2>5. CASE ~\/ pc[w] \in {"recheck", "survey", "final"}
              \/ pc[w] = "replan" /\ Turned(w, NextStep(w), 1)
    <3>1. \E n : /\ Turned(w, n, idx[w])
                 /\ \/ pc[w] = "reconcile" /\ n = "reconciled"
                    \/ pc[w] = "unplug" /\ n = "unplugCheck"
                    \/ pc[w] = "unplugCheck" /\ n = "unlink"
                    \/ pc[w] = "restore" /\ n = "stage"
                    \/ pc[w] = "restoreCheck" /\ n = "restoreReplace"
                    \/ pc[w] = "unmark" /\ n = "restored"
                    \/ pc[w] = "finish" /\ n = "finished"
                    \/ pc[w] = "examine" /\ n = "check"
                    \/ pc[w] = "check" /\ n = "replace"
                    \/ pc[w] = "reexamine" /\ n = "record"
                    \/ pc[w] = "verify" /\ n = "mark"
      BY <1>3, <2>5 DEF GoesOn
    <3> QED BY <3>1, TurnedOwn, StaysPlaced
  <2> QED BY <1>3, <2>1, <2>2, <2>3, <2>4, <2>5 DEF GoesOn
<1>4. CASE Appends(w)
  <2>0. ~looked[w]
    BY <1>0, <1>4, AppendsType DEF AppendPCs, InspectPCs
  <2>1. CASE pc[w] = "apply" /\ Posts(w, "examine", 1)
    <3>1. 1 \in DOMAIN FileOrder /\ w \in Executors
      BY <2>1, OrderFacts, WhoAppends
    <3> QED BY <1>k, <2>0, <2>1, <3>1, PostsOwn
            DEF Posts, Placed, ExecutingPCs, RestoringPCs
  <2>2. CASE pc[w] = "record" /\ Posts(w, IF LastFile(w) THEN "turn" ELSE "examine", idx[w] + 1)
    <3>1. w \in Executors
      BY <2>2, WhoAppends
    <3>2. idx[w] \in DOMAIN FileOrder
      BY <1>k, <2>2, <3>1 DEF Placed, OrderedPCs
    <3>3. pc'[w] = "turn" \/ (pc'[w] = "examine" /\ idx'[w] \in DOMAIN FileOrder)
      BY <2>2, <3>2, PostsOwn, OrderFacts DEF Posts, LastFile
    <3>4. looked'[w] = looked[w]
      BY <2>2, PostsOwn DEF Posts
    <3> QED BY <1>k, <2>0, <3>1, <3>3, <3>4 DEF Placed, ExecutingPCs, OrderedPCs
  <2>3. CASE pc[w] = "turn" /\ Posts(w, "verify", 1)
    <3>1. 1 \in DOMAIN FileOrder /\ w \in Executors
      BY <2>3, OrderFacts, WhoAppends
    <3> QED BY <1>k, <2>0, <2>3, <3>1, PostsOwn
            DEF Posts, Placed, ExecutingPCs, RestoringPCs
  <2>4. CASE pc[w] = "mark" /\ Posts(w, IF LastFile(w) THEN "final" ELSE "verify", idx[w] + 1)
    <3>1. w \in Executors
      BY <2>4, WhoAppends
    <3>2. idx[w] \in DOMAIN FileOrder
      BY <1>k, <2>4, <3>1 DEF Placed, OrderedPCs
    <3>3. pc'[w] = "final" \/ (pc'[w] = "verify" /\ idx'[w] \in DOMAIN FileOrder)
      BY <2>4, <3>2, PostsOwn, OrderFacts DEF Posts, LastFile
    <3>4. looked'[w] = looked[w]
      BY <2>4, PostsOwn DEF Posts
    <3> QED BY <1>k, <2>0, <3>1, <3>3, <3>4 DEF Placed, ExecutingPCs, OrderedPCs
  <2>5. CASE Posts(w, "idle", 0)
    BY <1>d, <2>0, <2>5, PostsOwn DEF Posts
  <2>6. CASE pc[w] \in {"enter", "reconciled", "restored"} /\ Posts(w, NextStep(w), idx[w] + 1)
    <3>1. w \in Rollbackers /\ WholePlan(plan[w]) /\ idx[w] + 1 \in DOMAIN plan[w]
      BY <2>6, WhoAppends, NextStepPC
    <3> QED BY <2>0, <2>6, <3>1, PostsOwn, NextStepPlaced DEF Posts
  <2>7. CASE pc[w] = "finished" /\ Posts(w, "confirm", idx[w])
    <3>1. w \in Rollbackers
      BY <2>7, WhoAppends
    <3>2. WholePlan(plan[w])
      BY <2>7, <3>1 DEF Placed
    <3> QED BY <1>k, <2>0, <2>7, <3>1, <3>2, PostsOwn DEF Posts, Placed, RestoringPCs
  <2> QED BY <1>4, <2>1, <2>2, <2>3, <2>4, <2>5, <2>6, <2>7 DEF Appends
<1>5. CASE Breaks(w)
  <2>1. w \notin Preparers /\ ~looked[w]
    BY <1>0, <1>5, WhoAppends DEF Breaks, AppendPCs, InspectPCs
  <2>2. pc'[w] \in {"idle", "failing"} /\ looked' = looked
    BY <1>0, <1>5 DEF Breaks, AppendBroken, Go, OnFailure
  <2> QED BY <1>d, <2>1, <2>2
<1>6. CASE FailClosed(w)
  <2>1. w \notin Preparers
    BY <1>6, <1>k DEF FailClosed, Placed, PreparingPCs
  <2>2. pc'[w] \in {"idle", "terminalize"} /\ looked'[w] = looked[w] /\ ~looked[w]
    BY <1>0, <1>6 DEF FailClosed, Go, InspectPCs
  <2> QED BY <1>d, <2>1, <2>2
<1>7. CASE ConsumeApproval(w)
  <2>1. w \in Preparers
    BY <1>7, <1>k DEF ConsumeApproval, Placed, ExecutingPCs, RestoringPCs
  <2>2. pc'[w] \in {"idle", "recheck"} /\ looked'[w] = looked[w] /\ ~looked[w]
    BY <1>0, <1>7 DEF ConsumeApproval, Go, InspectPCs
  <2> QED BY <1>k, <2>1, <2>2 DEF Placed, PreparingPCs, OrderedPCs
<1>8. CASE CertifyPreparation(w)
  <2>1. pc'[w] = "idle" /\ looked'[w] = looked[w] /\ ~looked[w]
    BY <1>0, <1>8 DEF CertifyPreparation, Go, InspectPCs
  <2> QED BY <1>d, <2>1
<1>9. CASE OpenTemp(w)
  <2>1. /\ pc[w] = "open" /\ idx'[w] = idx[w] /\ plan'[w] = plan[w] /\ ~looked[w]
        /\ looked' = looked
    BY <1>0, <1>9 DEF OpenTemp, InspectPCs, local
  <2>2. pc'[w] = "write" \/ pc'[w] = "idle"
    BY <1>0, <1>9 DEF OpenTemp, Go
  <2>3. pc'[w] \in {"idle", "failing"} /\ (w \in Preparers => pc'[w] = "idle") => Placed(w)'
    BY <1>d, <2>1
  <2> QED BY <1>k, <2>1, <2>2, <2>3, StaysPlaced DEF Placed, PreparingPCs
<1>10. CASE WriteTemp(w)
  <2>1. /\ pc[w] = "write" /\ idx'[w] = idx[w] /\ plan'[w] = plan[w] /\ ~looked[w]
        /\ looked' = looked
    BY <1>0, <1>10 DEF WriteTemp, InspectPCs, local
  <2>2. pc'[w] = "syncTemp"
    BY <1>0, <1>10 DEF WriteTemp, Go
  <2>3. pc'[w] \in {"idle", "failing"} /\ (w \in Preparers => pc'[w] = "idle") => Placed(w)'
    BY <1>d, <2>1
  <2> QED BY <1>k, <2>1, <2>2, <2>3, StaysPlaced DEF Placed, PreparingPCs
<1>11. CASE UnlinkTemp(w)
  <2>1. /\ pc[w] = "unlink" /\ idx'[w] = idx[w] /\ plan'[w] = plan[w] /\ ~looked[w]
        /\ looked' = looked
    BY <1>0, <1>11 DEF UnlinkTemp, InspectPCs, local
  <2>2. pc'[w] = "sync" \/ pc'[w] = "failing"
    BY <1>0, <1>11 DEF UnlinkTemp, Go
  <2>3. pc'[w] \in {"idle", "failing"} /\ (w \in Preparers => pc'[w] = "idle") => Placed(w)'
    BY <1>d, <2>1
  <2> QED BY <1>k, <2>1, <2>2, <2>3, StaysPlaced DEF Placed, PreparingPCs
<1>12. CASE StagePreimage(w)
  <2>1. /\ pc[w] = "stage" /\ idx'[w] = idx[w] /\ plan'[w] = plan[w] /\ ~looked[w]
        /\ looked' = looked
    BY <1>0, <1>12 DEF StagePreimage, InspectPCs, local
  <2>2. pc'[w] = "syncStage" \/ pc'[w] = "failing"
    BY <1>0, <1>12 DEF StagePreimage, Go
  <2>3. pc'[w] \in {"idle", "failing"} /\ (w \in Preparers => pc'[w] = "idle") => Placed(w)'
    BY <1>d, <2>1
  <2> QED BY <1>k, <2>1, <2>2, <2>3, StaysPlaced DEF Placed, PreparingPCs
<1>13. CASE ReplaceDestination(w)
  <2>1. /\ pc[w] = "replace" /\ idx'[w] = idx[w] /\ plan'[w] = plan[w] /\ ~looked[w]
        /\ looked' = looked
    BY <1>0, <1>13 DEF ReplaceDestination, InspectPCs, local
  <2>2. pc'[w] = "sync" \/ pc'[w] = "failing"
    BY <1>0, <1>13 DEF ReplaceDestination, Go, Leave
  <2>3. pc'[w] \in {"idle", "failing"} /\ (w \in Preparers => pc'[w] = "idle") => Placed(w)'
    BY <1>d, <2>1
  <2> QED BY <1>k, <2>1, <2>2, <2>3, StaysPlaced DEF Placed, PreparingPCs
<1>14. CASE RestorePreimage(w)
  <2>1. /\ pc[w] = "restoreReplace" /\ idx'[w] = idx[w] /\ plan'[w] = plan[w] /\ ~looked[w]
        /\ looked' = looked
    BY <1>0, <1>14 DEF RestorePreimage, InspectPCs, local
  <2>2. pc'[w] = "sync" \/ pc'[w] = "failing"
    BY <1>0, <1>14 DEF RestorePreimage, Go, Leave
  <2>3. pc'[w] \in {"idle", "failing"} /\ (w \in Preparers => pc'[w] = "idle") => Placed(w)'
    BY <1>d, <2>1
  <2> QED BY <1>k, <2>1, <2>2, <2>3, StaysPlaced DEF Placed, PreparingPCs
<1>15. CASE SyncInstall(w)
  <2>1. /\ pc[w] = "sync" /\ idx'[w] = idx[w] /\ plan'[w] = plan[w] /\ ~looked[w]
        /\ looked' = looked
    BY <1>0, <1>15 DEF SyncInstall, InspectPCs, local
  <2>2. pc'[w] = "reexamine"
    BY <1>0, <1>15 DEF SyncInstall, Go
  <2>3. pc'[w] \in {"idle", "failing"} /\ (w \in Preparers => pc'[w] = "idle") => Placed(w)'
    BY <1>d, <2>1
  <2>4. w \in Executors /\ pc'[w] = "reexamine"
    BY <2>2, <1>15 DEF SyncInstall
  <2> QED BY <2>1, <2>4, StaysPlaced
<1>16. CASE SyncStage(w)
  <2>1. /\ pc[w] = "syncStage" /\ idx'[w] = idx[w] /\ plan'[w] = plan[w] /\ ~looked[w]
        /\ looked' = looked
    BY <1>0, <1>16 DEF SyncStage, InspectPCs, local
  <2>2. pc'[w] = "restoreCheck"
    BY <1>0, <1>16 DEF SyncStage, Go
  <2>3. pc'[w] \in {"idle", "failing"} /\ (w \in Preparers => pc'[w] = "idle") => Placed(w)'
    BY <1>d, <2>1
  <2> QED BY <1>k, <2>1, <2>2, <2>3, StaysPlaced DEF Placed, PreparingPCs
<1>17. CASE SyncTemp(w)
  <2>1. /\ pc[w] = "syncTemp" /\ ~looked[w] /\ looked' = looked /\ plan' = plan
    BY <1>0, <1>17 DEF SyncTemp, InspectPCs
  <2>2. w \in Preparers /\ idx[w] \in DOMAIN FileOrder
    BY <1>k, <2>1 DEF Placed, ExecutingPCs, RestoringPCs, OrderedPCs
  <2>3. pc'[w] = "survey" \/ (pc'[w] = "open" /\ idx'[w] \in DOMAIN FileOrder)
    <3>1. \/ pc' = [pc EXCEPT ![w] = "survey"]
          \/ /\ ~LastFile(w) /\ pc' = [pc EXCEPT ![w] = "open"]
             /\ idx' = [idx EXCEPT ![w] = @ + 1]
      BY <1>17 DEF SyncTemp, Go
    <3> QED BY <1>0, <2>2, <3>1, OrderFacts DEF LastFile
  <2> QED BY <1>k, <2>1, <2>2, <2>3 DEF Placed, PreparingPCs, OrderedPCs
<1>18. CASE SyncStep(w)
  <2>1. /\ pc[w] = "sync" /\ ~looked[w] /\ looked' = looked /\ plan' = plan
        /\ w \in Rollbackers /\ pc'[w] = NextStep(w) /\ idx'[w] = idx[w] + 1
    BY <1>0, <1>18 DEF SyncStep, InspectPCs, Go
  <2>2. WholePlan(plan[w]) /\ idx[w] + 1 \in DOMAIN plan[w]
    BY <2>1, NextStepPC DEF RollPCs, RestoringPCs
  <2> QED BY <2>1, <2>2, NextStepPlaced
<1> QED BY StepForms, <1>1, <1>2, <1>3, <1>4, <1>5, <1>6, <1>7, <1>8, <1>9, <1>10,
    <1>11, <1>12, <1>13, <1>14, <1>15, <1>16, <1>17, <1>18

LEMMA PlacedStep ==
  ASSUME TypeOK, \A w \in Workers : Placed(w), Next
  PROVE  \A w \in Workers : Placed(w)'
<1>0. /\ pc \in [Workers -> PCs] /\ looked \in [Workers -> BOOLEAN]
      /\ idx \in [Workers -> Nat] /\ plan \in [Workers -> Seq(PlanSteps)]
      /\ cur \in [Workers -> Snapshots]
  BY DEF TypeOK
<1>1. ASSUME NEW w \in Workers, NEW v \in Workers, SameWorker(v) PROVE Placed(v)'
  BY <1>1 DEF SameWorker, Placed
<1>2. ASSUME NEW w \in Workers, Start(w) PROVE Placed(w)'
  <2>1. pc[w] = "idle" /\ ~looked[w]
    BY <1>2 DEF Start, StartPreparing, StartExecuting, StartRollback, Placed, InspectPCs
  <2>2. CASE StartPreparing(w)
    BY <1>0, <2>1, <2>2, WorkersAssumption DEF StartPreparing, Go, Placed, OrderedPCs
  <2>3. CASE StartExecuting(w)
    BY <1>0, <2>1, <2>3, WorkersAssumption DEF StartExecuting, Go, Placed, OrderedPCs
  <2>4. CASE StartRollback(w)
    <3>1. WholePlan(RollbackPlan(tip))
      BY <2>4, PlanIsWhole DEF StartRollback
    <3> QED BY <1>0, <2>1, <2>4, <3>1, WorkersAssumption
            DEF StartRollback, Go, Placed, RestoringPCs
  <2> QED BY <1>2, <2>2, <2>3, <2>4 DEF Start
<1>3. ASSUME NEW w \in Workers, Stops(w) PROVE Placed(w)'
  <2>1. pc'[w] = "idle" \/ (pc'[w] = "failing" /\ w \notin Preparers)
    BY <1>0, <1>3 DEF Stops
  <2>2. ~looked'[w]
    BY <1>0, <1>3 DEF Stops
  <2> QED BY <2>1, <2>2, KindsOfWorkers DEF Placed, OrderedPCs, RestoringPCs
<1>4. ASSUME NEW w \in Workers, Start(w) \/ Step(w) \/ Fault(w) \/ Crash(w)
      PROVE  \A v \in Workers : Placed(v)'
  BY <1>1, <1>2, <1>3, <1>4, OthersStay, PlacedAfterStep, FaultOrCrashStops
<1>5. ASSUME NEW p \in Paths, Edit(p) PROVE \A v \in Workers : Placed(v)'
  BY <1>1, <1>5 DEF Edit, SameWorker, local
<1>6. CASE Disturb
  BY <1>1, <1>6 DEF Disturb, SameWorker, local
<1>7. CASE PowerLoss
  BY <1>7, KindsOfWorkers DEF PowerLoss, Placed, OrderedPCs, RestoringPCs
<1> QED BY <1>4, <1>5, <1>6, <1>7 DEF Next

-----------------------------------------------------------------------------
(***************************************************************************)
(* What each worker holds.                                                 *)
(***************************************************************************)
\* Only an append moves the tip, and only to a legal successor.
LEMMA TipStep ==
  ASSUME TypeOK, \A w \in Workers : Placed(w), Next, ~PowerLoss
  PROVE  \/ tip' = tip /\ fallback' \in {{}, fallback}
         \/ /\ Transition(tip, tip')
            /\ \E w \in Workers :
                 /\ pc[w] \in AppendPCs /\ tip = cur[w] /\ tip' = Wanted(w)
                 /\ \/ fallback' = {}
                    \/ fallback' = fallback \cup {tip} /\ loose'
<1>1. ASSUME NEW w \in Workers, Start(w) PROVE tip' = tip /\ fallback' = fallback
  BY <1>1 DEF Start, StartPreparing, StartExecuting, StartRollback, journal
<1>2. ASSUME NEW w \in Workers, Stops(w) PROVE tip' = tip /\ fallback' = fallback
  BY <1>2 DEF Stops, journal
<1>3. ASSUME NEW w \in Workers, Step(w), Placed(w)
      PROVE  \/ tip' = tip /\ fallback' = fallback
             \/ /\ Transition(tip, tip')
                /\ pc[w] \in AppendPCs /\ tip = cur[w] /\ tip' = Wanted(w)
                /\ \/ fallback' = {}
                   \/ fallback' = fallback \cup {tip} /\ loose'
  <2>1. CASE Appends(w)
    <3>1. \E n, i : Posts(w, n, i)
      BY <2>1 DEF Appends
    <3> QED BY <3>1, PostsOwn DEF Posts
  <2>2. CASE Breaks(w)
    <3>1. /\ Transition(tip, Wanted(w)) /\ tip = cur[w] /\ pc[w] \in AppendPCs
          /\ \/ tip' = tip /\ fallback' = fallback
             \/ tip' = Wanted(w) /\ fallback' = fallback \cup {tip} /\ loose'
      BY <2>2 DEF Breaks, AppendBroken, Appendable
    <3> QED BY <3>1
  <2>3. CASE Drops(w)
    BY <2>3, TurnedOwn DEF Drops
  <2>4. CASE GoesOn(w)
    BY <2>4, TurnedOwn DEF GoesOn
  <2>5. CASE \/ Looks(w) \/ FailClosed(w) \/ ConsumeApproval(w) \/ CertifyPreparation(w)
             \/ OpenTemp(w) \/ WriteTemp(w) \/ UnlinkTemp(w) \/ StagePreimage(w)
             \/ ReplaceDestination(w) \/ RestorePreimage(w)
             \/ SyncTemp(w) \/ SyncInstall(w) \/ SyncStep(w) \/ SyncStage(w)
    BY <2>5 DEF Looks, FailClosed, ConsumeApproval, CertifyPreparation, OpenTemp,
                WriteTemp, UnlinkTemp, StagePreimage, ReplaceDestination,
                RestorePreimage, SyncTemp, SyncInstall, SyncStep, SyncStage, journal
  <2> QED BY <1>3, <2>1, <2>2, <2>3, <2>4, <2>5, StepForms
<1>4. ASSUME NEW p \in Paths, Edit(p) PROVE tip' = tip /\ fallback' = fallback
  BY <1>4 DEF Edit, journal
<1>5. CASE Disturb
  BY <1>5 DEF Disturb, journal
<1> QED BY <1>1, <1>2, <1>3, <1>4, <1>5, FaultOrCrashStops DEF Next

LEMMA RolledStays ==
  ASSUME TypeOK, tip' = tip \/ Transition(tip, tip'), tip.state \in RolledStates
  PROVE  tip'.state \in RolledStates
BY DEF Transition, AllowedStates, RolledStates

LEMMA HeldKeeps ==
  ASSUME NEW w \in Workers, Placed(w), Placed(w)', Held(w),
         cur'[w] = cur[w], tip' = tip,
         pc'[w] \in {"apply", "replan", "terminalize", "confirm"} => pc'[w] = pc[w],
         pc'[w] \in ExecutingPCs /\ w \in Executors => pc[w] \in ExecutingPCs,
         pc'[w] \in RollPCs /\ w \in Rollbackers => pc[w] \in RestoringPCs \/ pc'[w] = pc[w]
  PROVE  Held(w)'
<1>1. CASE w \in Preparers
  BY <1>1, WorkersAssumption DEF Held, Placed, PreparingPCs
<1>2. CASE w \in Executors
  BY <1>2, WorkersAssumption DEF Held, Placed, ExecutingPCs
<1>3. CASE w \in Rollbackers
  BY <1>3, WorkersAssumption DEF Held, Placed, RollPCs, RestoringPCs, ActiveStates
<1> QED BY <1>1, <1>2, <1>3 DEF Workers

LEMMA WantedState ==
  ASSUME TypeOK, NEW w \in Workers, Held(w), Placed(w), pc[w] \in AppendPCs
  PROVE  /\ Wanted(w) \in Snapshots
         /\ pc[w] = "apply" => Wanted(w).state = "APPLYING"
         /\ pc[w] = "turn" => Wanted(w).state = "VERIFYING"
         /\ pc[w] = "complete" => Wanted(w).state = "COMPLETED"
         /\ pc[w] = "enter" => Wanted(w).state = "ROLLING_BACK"
         /\ pc[w] = "finished" => Wanted(w).state = "ROLLED_BACK"
         /\ pc[w] = "terminalize" => Wanted(w).state = "RECOVERY_REQUIRED"
         /\ pc[w] \in {"record", "mark", "reconciled", "restored"} =>
              Wanted(w).state = cur[w].state
<1>1. cur[w] \in Snapshots
  BY DEF TypeOK
<1>2. /\ pc[w] = "apply" => Wanted(w) = WithState(cur[w], "APPLYING")
      /\ pc[w] = "turn" => Wanted(w) = WithState(cur[w], "VERIFYING")
      /\ pc[w] = "complete" => Wanted(w) = WithState(cur[w], "COMPLETED")
      /\ pc[w] = "enter" => Wanted(w) = WithState(cur[w], "ROLLING_BACK")
      /\ pc[w] = "finished" => Wanted(w) = WithState(cur[w], "ROLLED_BACK")
      /\ pc[w] = "terminalize" => Wanted(w) = WithState(cur[w], "RECOVERY_REQUIRED")
  BY DEF Wanted
<1>3. /\ pc[w] \in {"record", "reconciled"} =>
            Wanted(w) = WithProgress(cur[w], File(w), "INSTALLED")
      /\ pc[w] = "mark" => Wanted(w) = WithProgress(cur[w], File(w), "VERIFIED")
      /\ pc[w] = "restored" => Wanted(w) = WithProgress(cur[w], File(w), "RESTORED")
  BY DEF Wanted
<1>4. \A s \in TransactionStates : WithState(cur[w], s).state = s
  BY <1>1, WithStateType
<1>5. \A x \in FileProgressStates :
        WithProgress(cur[w], File(w), x).state = cur[w].state
  BY <1>1 DEF WithProgress, Snapshots
<1> QED BY <1>2, <1>3, <1>4, <1>5, WantedType DEF TransactionStates, FileProgressStates

LEMMA HeldAfterStep ==
  ASSUME TypeOK, NEW w \in Workers, Placed(w), Placed(w)', Held(w), Step(w)
  PROVE  Held(w)'
<1>0. /\ pc \in [Workers -> PCs] /\ looked \in [Workers -> BOOLEAN]
      /\ idx \in [Workers -> Nat] /\ plan \in [Workers -> Seq(PlanSteps)]
      /\ cur \in [Workers -> Snapshots]
  BY DEF TypeOK
<1>k. \/ w \in Preparers /\ w \notin Executors /\ w \notin Rollbackers
      \/ w \in Executors /\ w \notin Preparers /\ w \notin Rollbackers
      \/ w \in Rollbackers /\ w \notin Preparers /\ w \notin Executors
  BY KindsOfWorkers
<1>d. ASSUME pc'[w] \in {"idle", "failing"} PROVE Held(w)'
  BY <1>d DEF Held, ExecutingPCs, RestoringPCs
<1>1. CASE Looks(w)
  BY <1>0, <1>1, HeldKeeps DEF Looks, local, journal, RollPCs
<1>2. CASE Drops(w)
  BY <1>d, <1>2, TurnedOwn DEF Drops
<1>3. CASE GoesOn(w)
  <2>1. CASE pc[w] = "replan" /\ Plannable(cur[w]) /\ plan[w] = RollbackPlan(cur[w])
             /\ Turned(w, NextStep(w), 1)
    <3>1. /\ w \in Rollbackers /\ idx[w] = 0 /\ WholePlan(plan[w])
          /\ cur[w].state \in ActiveStates
      BY <1>k, <2>1 DEF Placed, PreparingPCs, ExecutingPCs, Held
    <3>2. idx[w] + 1 = 1 /\ 1 \in DOMAIN plan[w] /\ plan[w][1] \in PlanSteps
      BY <3>1 DEF WholePlan
    <3>3. NextStep(w) = StepPC(plan[w][1])
      BY <3>2 DEF NextStep
    <3>4. NextStep(w) # "enter" => cur[w].state = "ROLLING_BACK"
      <4>1. plan[w][1].kind = "ENTER_ROLLBACK" => NextStep(w) = "enter"
        BY <3>3 DEF StepPC
      <4> QED BY <2>1, <4>1, PlanIsWhole
    <3>5. NextStep(w) \notin ExecutingPCs \cup {"apply", "replan", "terminalize"}
            \/ w \notin Executors
      BY <1>k, <3>1
    <3>6. NextStep(w) \in {"enter", "reconcile", "unplug", "restore", "unmark", "finish"}
      BY <3>2, <3>3, StepBegins
    <3>7. cur[w].state = "ROLLING_BACK" => tip.state \in RolledStates
      BY <2>1, <3>1 DEF Held
    <3>8. pc'[w] = NextStep(w) /\ cur' = cur /\ tip' = tip
      BY <2>1, TurnedOwn
    <3> QED BY <1>k, <3>1, <3>4, <3>6, <3>7, <3>8 DEF Held, RestoringPCs
  <2>2. CASE pc[w] # "replan"
    <3>1. \E n, i : /\ Turned(w, n, i)
                    /\ \/ pc[w] \in PreparingPCs /\ n \in PreparingPCs
                       \/ pc[w] \in ExecutingPCs /\ n \in ExecutingPCs
                       \/ pc[w] \in RestoringPCs /\ n \in RestoringPCs
      BY <1>3, <2>2 DEF GoesOn, PreparingPCs, ExecutingPCs, RestoringPCs
    <3>2. PICK n, i : /\ Turned(w, n, i)
                      /\ \/ pc[w] \in PreparingPCs /\ n \in PreparingPCs
                         \/ pc[w] \in ExecutingPCs /\ n \in ExecutingPCs
                         \/ pc[w] \in RestoringPCs /\ n \in RestoringPCs
      BY <3>1
    <3>3. pc'[w] = n /\ cur' = cur /\ tip' = tip
      BY <3>2, TurnedOwn
    <3>4. /\ n \notin {"apply", "replan", "terminalize", "confirm"}
          /\ n \in ExecutingPCs /\ w \in Executors => pc[w] \in ExecutingPCs
          /\ n \in RollPCs /\ w \in Rollbackers => pc[w] \in RestoringPCs
      BY <1>k, <3>2 DEF PreparingPCs, ExecutingPCs, RestoringPCs, Placed, RollPCs
    <3> QED BY <3>3, <3>4, HeldKeeps
  <2> QED BY <1>3, <2>1, <2>2 DEF GoesOn
<1>4. CASE Appends(w)
  <2>0. pc[w] \in AppendPCs /\ w \notin Preparers
    BY <1>4, AppendsType, WhoAppends
  <2>1. PICK n, i : Posts(w, n, i)
    BY <1>4 DEF Appends
  <2>2. /\ pc'[w] = n /\ cur'[w] = Wanted(w) /\ tip' = Wanted(w)
    BY <2>1, PostsOwn DEF Posts
  <2>3. CASE w \in Executors
    <3>1. /\ \/ pc[w] \in {"apply", "record"} /\ n \in {"examine", "turn"}
             \/ pc[w] \in {"turn", "mark"} /\ n \in {"verify", "final"}
             \/ n = "idle"
    <4>1. pc[w] \notin {"enter", "reconciled", "restored", "finished"}
      BY <1>k, <2>3, WhoAppends
    <4> QED BY <1>0, <1>4, <2>2, <4>1, PostsOwn DEF Appends, Posts
    <3>2. Wanted(w).state \in {"APPLYING", "VERIFYING"} \/ n = "idle"
      BY <1>k, <2>0, <2>3, <3>1, WantedState DEF Held, ExecutingPCs
    <3> QED BY <1>k, <2>2, <2>3, <3>1, <3>2 DEF Held, RestoringPCs, ExecutingPCs
  <2>4. CASE w \in Rollbackers
    <3>1. pc[w] \in {"enter", "reconciled", "restored", "finished", "terminalize"}
      BY <1>k, <2>0, <2>4, WhoAppends DEF AppendPCs
    <3>2. CASE pc[w] \in {"enter", "reconciled", "restored"}
      <4>1. Wanted(w).state = "ROLLING_BACK"
        BY <2>0, <2>4, <3>2, WantedState DEF Held, RestoringPCs
      <4>2. pc'[w] = NextStep(w)
        BY <1>4, <3>2, PostsOwn DEF Appends, Posts
      <4>3. NextStep(w) \in {"enter", "reconcile", "unplug", "restore", "unmark", "finish"}
        BY <2>4, <3>2, WhoAppends, NextStepPC
      <4> QED BY <1>k, <2>2, <2>4, <4>1, <4>2, <4>3 DEF Held, RolledStates, ActiveStates
    <3>3. CASE pc[w] \in {"finished", "terminalize"}
      <4>1. pc'[w] \in {"confirm", "idle"}
        BY <1>4, <3>3, PostsOwn DEF Appends, Posts
      <4>2. Wanted(w).state # "ROLLING_BACK"
        BY <2>0, <3>3, WantedState
      <4> QED BY <1>k, <2>2, <2>4, <4>1, <4>2 DEF Held, RestoringPCs
    <3> QED BY <3>1, <3>2, <3>3
  <2> QED BY <1>k, <2>0, <2>3, <2>4
<1>5. CASE Breaks(w)
  BY <1>0, <1>d, <1>5 DEF Breaks, AppendBroken, Go, OnFailure
<1>6. CASE FailClosed(w)
  <2>1. CASE pc'[w] = "idle"
    BY <1>d, <2>1
  <2>2. CASE pc'[w] # "idle"
    <3>1. /\ pc'[w] = "terminalize" /\ cur'[w] = tip /\ tip' = tip
          /\ tip.state \in Terminalizes(w)
      BY <1>0, <1>6, <2>2 DEF FailClosed, Go, journal
    <3>2. tip.state \in ActiveStates
      BY <3>1 DEF Terminalizes, ActiveStates
    <3> QED BY <3>1, <3>2 DEF Held, ExecutingPCs, RestoringPCs, RolledStates
  <2> QED BY <2>1, <2>2
<1>7. CASE w \in Preparers
  BY <1>k, <1>7 DEF Held, Placed, PreparingPCs
<1>8. CASE SyncStep(w)
  <2>1. /\ w \in Rollbackers /\ pc[w] = "sync" /\ pc'[w] = NextStep(w)
        /\ cur' = cur /\ tip' = tip
    BY <1>0, <1>8 DEF SyncStep, Go, journal
  <2>2. NextStep(w) \in {"enter", "reconcile", "unplug", "restore", "unmark", "finish"}
    BY <2>1, NextStepPC DEF RollPCs, RestoringPCs
  <2> QED BY <1>k, <2>1, <2>2, HeldKeeps DEF RestoringPCs
<1>9. CASE \/ UnlinkTemp(w) \/ StagePreimage(w) \/ ReplaceDestination(w)
           \/ RestorePreimage(w) \/ SyncInstall(w) \/ SyncStage(w)
  <2>1. cur' = cur /\ tip' = tip
    BY <1>9 DEF UnlinkTemp, StagePreimage, ReplaceDestination, RestorePreimage,
                SyncInstall, SyncStage, journal, local
  <2>2. \/ pc'[w] = "failing"
        \/ pc[w] \in {"unlink", "replace", "restoreReplace"} /\ pc'[w] = "sync"
        \/ pc[w] \in {"stage", "syncStage"} /\ pc'[w] \in {"syncStage", "restoreCheck"}
        \/ pc[w] = "sync" /\ pc'[w] = "reexamine"
    BY <1>0, <1>9 DEF UnlinkTemp, StagePreimage, ReplaceDestination, RestorePreimage,
                      SyncInstall, SyncStage, Go, Leave
  <2>3. CASE pc'[w] = "failing"
    BY <1>d, <2>3
  <2>4. CASE pc'[w] # "failing"
    <3>1. /\ pc'[w] \notin {"apply", "replan", "terminalize", "confirm"}
          /\ pc'[w] \in ExecutingPCs /\ w \in Executors => pc[w] \in ExecutingPCs
          /\ pc'[w] \in RollPCs /\ w \in Rollbackers => pc[w] \in RestoringPCs
      BY <1>k, <2>2, <2>4 DEF ExecutingPCs, RestoringPCs, RollPCs, Placed
    <3> QED BY <2>1, <3>1, HeldKeeps
  <2> QED BY <2>3, <2>4
<1>10. CASE \/ ConsumeApproval(w) \/ CertifyPreparation(w) \/ OpenTemp(w)
            \/ WriteTemp(w) \/ SyncTemp(w)
  <2>1. w \in Preparers
    BY <1>10, <1>k DEF ConsumeApproval, CertifyPreparation, OpenTemp, WriteTemp,
                       SyncTemp, Placed, ExecutingPCs, RestoringPCs
  <2> QED BY <1>7, <2>1
<1> QED BY <1>1, <1>2, <1>3, <1>4, <1>5, <1>6, <1>8, <1>9, <1>10, StepForms

LEMMA HeldStep ==
  ASSUME TypeOK, \A w \in Workers : Placed(w) /\ Placed(w)' /\ Held(w), Next
  PROVE  \A w \in Workers : Held(w)'
<1>0. /\ pc \in [Workers -> PCs] /\ cur \in [Workers -> Snapshots]
  BY DEF TypeOK
<1>1. ASSUME ~PowerLoss, NEW v \in Workers, SameWorker(v) PROVE Held(v)'
  <2>1. tip.state \in RolledStates => tip'.state \in RolledStates
    BY <1>1, TipStep, RolledStays
  <2> QED BY <1>1, <2>1 DEF SameWorker, Held
<1>2. ASSUME NEW w \in Workers, Start(w) PROVE Held(w)'
  <2>1. tip' = tip
    BY <1>2 DEF Start, StartPreparing, StartExecuting, StartRollback, journal
  <2>2. CASE StartPreparing(w)
    BY <1>0, <2>2, WorkersAssumption DEF StartPreparing, Go, Held, ExecutingPCs
  <2>3. CASE StartExecuting(w)
    BY <1>0, <2>3, WorkersAssumption DEF StartExecuting, Go, Held, ExecutingPCs, RestoringPCs
  <2>4. CASE StartRollback(w)
    <3>1. /\ tip.state \in ActiveStates /\ w \in Rollbackers /\ w \notin Executors
          /\ pc'[w] = "replan" /\ cur'[w] = tip
      BY <1>0, <2>4, WorkersAssumption DEF StartRollback, Plannable, Go
    <3> QED BY <2>1, <3>1 DEF Held, RestoringPCs, RolledStates
  <2> QED BY <1>2, <2>2, <2>3, <2>4 DEF Start
<1>3. ASSUME NEW w \in Workers, Stops(w) PROVE Held(w)'
  <2>1. pc'[w] \in {"idle", "failing"}
    BY <1>0, <1>3 DEF Stops
  <2> QED BY <2>1 DEF Held, ExecutingPCs, RestoringPCs
<1>4. ASSUME NEW w \in Workers, Start(w) \/ Step(w) \/ Fault(w) \/ Crash(w), ~PowerLoss
      PROVE  \A v \in Workers : Held(v)'
  BY <1>1, <1>2, <1>3, <1>4, OthersStay, HeldAfterStep, FaultOrCrashStops
<1>5. ASSUME NEW p \in Paths, Edit(p), ~PowerLoss PROVE \A v \in Workers : Held(v)'
  BY <1>1, <1>5 DEF Edit, SameWorker, local
<1>6. ASSUME Disturb, ~PowerLoss PROVE \A v \in Workers : Held(v)'
  BY <1>1, <1>6 DEF Disturb, SameWorker, local
<1>7. CASE PowerLoss
  BY <1>7 DEF PowerLoss, Held, ExecutingPCs, RestoringPCs
<1> QED BY <1>4, <1>5, <1>6, <1>7 DEF Next
-----------------------------------------------------------------------------

LEMMA InitHolds ==
  ASSUME Init
  PROVE  PromotionInv
<1>1. /\ tip = PreparedTransaction /\ fallback = {} /\ ~evidence /\ stray = FALSE
      /\ \A p \in Paths : fs[p].dest = "BEFORE" /\ safe[p].dest = "BEFORE"
      /\ \A w \in Workers :
           /\ pc[w] = "idle" /\ ~looked[w] /\ idx[w] = 0 /\ late[w] = {}
      /\ installers = {} /\ lost = {} /\ spent.losses = 0
  BY DEF Init
<1>2. TypeOK
  <2>1. [p \in Paths |-> [dest |-> "BEFORE", temp |-> "ABSENT", residue |-> FALSE]]
          \in [Paths -> FileStates]
    BY DEF FileStates, Destinations, Temporaries
  <2>2. fs \in [Paths -> FileStates] /\ safe \in [Paths -> FileStates]
    BY <2>1 DEF Init
  <2>3. pc \in [Workers -> PCs] /\ plan \in [Workers -> Seq(PlanSteps)]
    BY PCTypes DEF Init
  <2>4. /\ cur \in [Workers -> Snapshots] /\ ValidTransaction(tip)
        /\ looked \in [Workers -> BOOLEAN] /\ idx \in [Workers -> Nat]
    BY PreparedType DEF Init
  <2> QED BY <2>2, <2>3, <2>4 DEF Init, TypeOK
<1>3. ClaimInv
  <2>1. \A w \in Workers : pc[w] \notin ExecutingPCs \cup PreparingPCs \cup {"apply"}
    BY <1>1 DEF ExecutingPCs, PreparingPCs
  <2>2. Holders = {}
    BY <1>1, <2>1 DEF Holders, Workers
  <2> QED BY <1>1, <2>1, <2>2, PreparedType DEF ClaimInv, Workers
<1>4. PreparedInv
  BY <1>1 DEF PreparedInv, Workers
<1>5. DiskInv
  BY <1>1 DEF DiskInv
<1>6. InstallsInv
  <2>1. \A w \in Executors : ~Owner(w)
    BY <1>1 DEF Owner, ExecutingPCs, Workers
  <2>2. tip.state # "COMPLETED"
    BY <1>1, PreparedType
  <2> QED BY <2>1, <2>2 DEF InstallsInv
<1>7. \A w \in Workers : Placed(w) /\ Held(w)
  BY <1>1 DEF Placed, Held, OrderedPCs, RestoringPCs, ExecutingPCs
<1>8. \A w \in Workers : Guarded(w) /\ LateOnce(w) /\ Alone(w)
  BY <1>1 DEF Guarded, LateOnce, Alone
<1> QED BY <1>1, <1>2, <1>3, <1>4, <1>5, <1>6, <1>7, <1>8 DEF PromotionInv, EditsSurvive

-----------------------------------------------------------------------------
(***************************************************************************)
(* What a step leaves alone.                                               *)
(***************************************************************************)
\* What a step does that only moves its worker.
Quietly == UNCHANGED <<tip, fallback, files, stray, rights, history, bounds>>

\* The steps that change a file or make a change durable.
TouchesFiles(w) ==
  \/ OpenTemp(w) \/ WriteTemp(w) \/ UnlinkTemp(w) \/ StagePreimage(w)
  \/ ReplaceDestination(w) \/ RestorePreimage(w)
  \/ SyncTemp(w) \/ SyncInstall(w) \/ SyncStep(w) \/ SyncStage(w)

LEMMA QuietSteps ==
  ASSUME NEW w, Start(w) \/ Looks(w) \/ Drops(w) \/ GoesOn(w) \/ FailClosed(w)
  PROVE  Quietly
<1>1. CASE Start(w)
  BY <1>1 DEF Start, StartPreparing, StartExecuting, StartRollback, Quietly, journal
<1>2. CASE Looks(w)
  BY <1>2 DEF Looks, Quietly, journal
<1>3. CASE Drops(w) \/ GoesOn(w)
  <2>1. \E n, i : Turned(w, n, i)
    BY <1>3 DEF Drops, GoesOn
  <2> QED BY <2>1 DEF Turned, Quietly, journal
<1>4. CASE FailClosed(w)
  BY <1>4 DEF FailClosed, Quietly, journal
<1> QED BY <1>1, <1>2, <1>3, <1>4

\* The way into a preparation is the approval, the way into an execution is the
\* append of APPLYING.
LEMMA WaysIn ==
  ASSUME TypeOK, NEW w \in Workers, Placed(w), Start(w) \/ Step(w)
  PROVE  /\ pc'[w] = "apply" => evidence /\ approval = "consumed"
         /\ w \in Executors /\ pc'[w] \in ExecutingPCs =>
              \/ pc[w] \in ExecutingPCs
              \/ pc[w] = "apply" /\ Appends(w)
         /\ w \in Preparers /\ pc'[w] \in PreparingPCs =>
              \/ pc[w] \in PreparingPCs
              \/ approval = "approved" /\ ConsumeApproval(w) /\ approval' = "consumed"
<1> DEFINE Goal ==
      /\ pc'[w] = "apply" => evidence /\ approval = "consumed"
      /\ w \in Executors /\ pc'[w] \in ExecutingPCs =>
           \/ pc[w] \in ExecutingPCs
           \/ pc[w] = "apply" /\ Appends(w)
      /\ w \in Preparers /\ pc'[w] \in PreparingPCs =>
           \/ pc[w] \in PreparingPCs
           \/ approval = "approved" /\ ConsumeApproval(w) /\ approval' = "consumed"
<1>0. /\ pc \in [Workers -> PCs] /\ idx \in [Workers -> Nat]
      /\ looked \in [Workers -> BOOLEAN]
  BY DEF TypeOK
<1>k. \/ w \in Preparers /\ w \notin Executors /\ w \notin Rollbackers
      \/ w \in Executors /\ w \notin Preparers /\ w \notin Rollbackers
      \/ w \in Rollbackers /\ w \notin Preparers /\ w \notin Executors
  BY KindsOfWorkers
<1>d. pc'[w] \in {"idle", "failing", "terminalize", "consume", "replan", "confirm"} => Goal
  BY DEF ExecutingPCs, PreparingPCs
<1>1. ASSUME Start(w) PROVE Goal
  BY <1>0, <1>1, <1>k DEF Start, StartPreparing, StartExecuting, StartRollback, Go,
                          ExecutingPCs, PreparingPCs
<1>2. ASSUME Looks(w) \/ FailClosed(w) PROVE Goal
  BY <1>0, <1>2, <1>d DEF Looks, FailClosed, InspectPCs, Go
<1>3. ASSUME Drops(w) PROVE Goal
  BY <1>3, <1>d, TurnedOwn DEF Drops
<1>4. ASSUME GoesOn(w) PROVE Goal
  <2>1. CASE pc[w] = "replan" /\ Turned(w, NextStep(w), 1)
    <3>1. w \in Rollbackers /\ idx[w] = 0 /\ WholePlan(plan[w])
      BY <1>k, <2>1 DEF Placed, PreparingPCs, ExecutingPCs
    <3>2. NextStep(w) # "apply"
      <4>1. idx[w] + 1 \in DOMAIN plan[w]
        BY <3>1 DEF WholePlan
      <4> QED BY <3>1, <4>1, NextStepBegins
    <3> QED BY <1>k, <2>1, <3>1, <3>2, TurnedOwn
  <2>2. CASE ~(pc[w] = "replan" /\ Turned(w, NextStep(w), 1))
    <3>1. \E n, i : /\ Turned(w, n, i) /\ n # "apply"
                    /\ \/ pc[w] \in PreparingPCs /\ n \in PreparingPCs
                       \/ pc[w] \in ExecutingPCs /\ n \in ExecutingPCs
                       \/ pc[w] \in RestoringPCs /\ n \in RestoringPCs
      BY <1>4, <2>2 DEF GoesOn, PreparingPCs, ExecutingPCs, RestoringPCs
    <3>2. PICK n, i : /\ Turned(w, n, i) /\ n # "apply"
                      /\ \/ pc[w] \in PreparingPCs /\ n \in PreparingPCs
                         \/ pc[w] \in ExecutingPCs /\ n \in ExecutingPCs
                         \/ pc[w] \in RestoringPCs /\ n \in RestoringPCs
      BY <3>1
    <3>3. pc'[w] = n
      BY <3>2, TurnedOwn
    <3> QED BY <1>k, <3>2, <3>3 DEF Placed, PreparingPCs, ExecutingPCs, RestoringPCs
  <2> QED BY <2>1, <2>2
<1>5. ASSUME Appends(w) PROVE Goal
  <2>0. pc[w] \in AppendPCs /\ w \notin Preparers
    BY <1>5, AppendsType, WhoAppends
  <2>1. CASE pc[w] \in {"enter", "reconciled", "restored"}
    <3>1. w \in Rollbackers /\ pc'[w] = NextStep(w)
      BY <1>5, <2>1, PostsOwn, WhoAppends DEF Appends, Posts
    <3>2. NextStep(w) # "apply"
      BY <2>1, <3>1, WhoAppends, NextStepPC
    <3> QED BY <1>k, <3>1, <3>2
  <2>2. CASE pc[w] \notin {"enter", "reconciled", "restored"}
    <3>1. pc'[w] \in {"examine", "turn", "verify", "final", "idle", "confirm"}
      BY <1>5, <2>2, PostsOwn DEF Appends, Posts
    <3>2. \/ pc[w] \in ExecutingPCs \/ pc[w] = "apply"
          \/ pc[w] \in {"finished", "terminalize"} /\ pc'[w] \in {"idle", "confirm"}
      BY <1>5, <2>0, <2>2, PostsOwn DEF AppendPCs, ExecutingPCs, Appends, Posts
    <3> QED BY <1>5, <1>d, <2>0, <3>1, <3>2
  <2> QED BY <2>1, <2>2
<1>6. ASSUME Breaks(w) PROVE Goal
  BY <1>0, <1>6, <1>d DEF Breaks, AppendBroken, Go, OnFailure
<1>7. ASSUME ConsumeApproval(w) \/ CertifyPreparation(w) PROVE Goal
  <2>1. w \in Preparers
    BY <1>7, <1>k DEF ConsumeApproval, CertifyPreparation, Placed, ExecutingPCs, RestoringPCs
  <2> QED BY <1>0, <1>7, <1>k, <2>1 DEF ConsumeApproval, CertifyPreparation, Go, PreparingPCs
<1>8. ASSUME TouchesFiles(w) PROVE Goal
  <2>1. CASE SyncStep(w)
    <3>1. w \in Rollbackers /\ pc'[w] = NextStep(w) /\ pc[w] = "sync"
      BY <1>0, <2>1 DEF SyncStep, Go
    <3>2. NextStep(w) # "apply"
      BY <3>1, NextStepPC DEF RollPCs, RestoringPCs
    <3> QED BY <1>k, <3>1, <3>2
  <2>2. CASE ~SyncStep(w)
    <3>1. \/ pc'[w] \in {"idle", "failing"}
          \/ pc[w] \in PreparingPCs /\ pc'[w] \in PreparingPCs
          \/ pc[w] \in {"unlink", "replace", "restoreReplace"} /\ pc'[w] = "sync"
          \/ pc[w] \in {"stage", "syncStage"} /\ pc'[w] \in {"syncStage", "restoreCheck"}
          \/ pc[w] = "sync" /\ pc'[w] = "reexamine"
      BY <1>0, <1>8, <2>2
         DEF TouchesFiles, OpenTemp, WriteTemp, SyncTemp, UnlinkTemp, StagePreimage,
             ReplaceDestination, RestorePreimage, SyncInstall, SyncStage, Go, Leave,
             PreparingPCs
    <3> QED BY <1>k, <1>d, <3>1 DEF Placed, PreparingPCs, ExecutingPCs, RestoringPCs
  <2> QED BY <2>1, <2>2
<1> QED BY <1>1, <1>2, <1>3, <1>4, <1>5, <1>6, <1>7, <1>8, StepForms DEF TouchesFiles

-----------------------------------------------------------------------------
(***************************************************************************)
(* What only ever grows.                                                   *)
(***************************************************************************)
LEMMA BoundsGrow ==
  ASSUME TypeOK, UNCHANGED bounds \/ \E k \in {"faults", "crashes", "edits", "losses"} : Spend(k)
  PROVE  /\ scene' = scene
         /\ spent'.edits = 0 => spent.edits = 0
         /\ spent'.losses = 0 => spent.losses = 0
<1>1. CASE UNCHANGED bounds
  BY <1>1 DEF bounds
<1>2. CASE \E k \in {"faults", "crashes", "edits", "losses"} : Spend(k)
  <2>1. PICK k \in {"faults", "crashes", "edits", "losses"} : Spend(k)
    BY <1>2
  <2>2. /\ scene' = scene
        /\ \A j \in {"faults", "crashes", "edits", "losses"} :
             spent'[j] = IF j = k THEN spent[j] + 1 ELSE spent[j]
    BY <2>1, SpendType
  <2>3. spent.edits \in Nat /\ spent.losses \in Nat
    BY DEF TypeOK
  <2> QED BY <2>2, <2>3
<1> QED BY <1>1, <1>2

Grows ==
  /\ scene' = scene
  /\ Untouched' => Untouched
  /\ spent'.losses = 0 => spent.losses = 0
  /\ evidence => evidence'
  /\ loose => loose'
  /\ installers \subseteq installers'

LEMMA StepGrows ==
  ASSUME TypeOK, NEW w \in Workers, Placed(w), Start(w) \/ Step(w)
  PROVE  Grows
<1>1. ASSUME Start(w) \/ Looks(w) \/ Drops(w) \/ GoesOn(w) \/ FailClosed(w) PROVE Grows
  BY <1>1, QuietSteps DEF Quietly, Grows, Untouched, bounds, rights, history
<1>2. ASSUME Appends(w) PROVE Grows
  <2>1. \E n, i : Appended(w, Wanted(w), n, i)
    BY <1>2, AppendsType
  <2> QED BY <2>1 DEF Appended, Grows, Untouched, bounds, rights, history
<1>3. ASSUME Breaks(w) PROVE Grows
  <2>1. Spend("faults") \/ Spend("crashes")
    BY <1>3 DEF Breaks, AppendBroken
  <2> QED BY <1>3, <2>1, BoundsGrow DEF Breaks, AppendBroken, Grows, Untouched, rights
<1>4. ASSUME ConsumeApproval(w) \/ CertifyPreparation(w) PROVE Grows
  <2>1. UNCHANGED bounds \/ Spend("faults")
    BY <1>4 DEF ConsumeApproval, CertifyPreparation
  <2>2. /\ scene' = scene
        /\ spent'.edits = 0 => spent.edits = 0
        /\ spent'.losses = 0 => spent.losses = 0
    BY <2>1, BoundsGrow
  <2>3. CASE ConsumeApproval(w)
    BY <2>2, <2>3 DEF ConsumeApproval, Grows, Untouched, history
  <2>4. CASE CertifyPreparation(w)
    BY <2>2, <2>4 DEF CertifyPreparation, Grows, Untouched, history, TypeOK
  <2> QED BY <1>4, <2>3, <2>4
<1>5. ASSUME TouchesFiles(w) PROVE Grows
  BY <1>5 DEF TouchesFiles, OpenTemp, WriteTemp, UnlinkTemp, StagePreimage,
              ReplaceDestination, RestorePreimage, SyncTemp, SyncInstall, SyncStep,
              SyncStage, Grows, Untouched, rights, bounds, history
<1> QED BY <1>1, <1>2, <1>3, <1>4, <1>5, StepForms DEF TouchesFiles

LEMMA NextGrows ==
  ASSUME TypeOK, \A w \in Workers : Placed(w), Next
  PROVE  Grows /\ (NothingLoose' => NothingLoose)
<1>1. ASSUME NEW w \in Workers, Stops(w) PROVE Grows
  <2>1. Spend("faults") \/ Spend("crashes")
    BY <1>1 DEF Stops
  <2> QED BY <1>1, <2>1, BoundsGrow DEF Stops, Grows, Untouched, rights
<1>2. ASSUME NEW p \in Paths, Edit(p) PROVE Grows
  <2>1. Spend("edits")
    BY <1>2 DEF Edit
  <2> QED BY <1>2, <2>1, BoundsGrow DEF Edit, Grows, Untouched, rights
<1>3. ASSUME Disturb PROVE Grows
  <2>1. Spend("edits")
    BY <1>3 DEF Disturb
  <2>2. /\ scene' = scene
        /\ spent'.edits = 0 => spent.edits = 0
        /\ spent'.losses = 0 => spent.losses = 0
    BY <2>1, BoundsGrow
  <2>3. /\ evidence' = evidence /\ loose' = loose /\ installers' = installers
    BY <1>3 DEF Disturb, rights, history
  <2> QED BY <2>2, <2>3 DEF Grows, Untouched
<1>4. ASSUME PowerLoss PROVE Grows
  <2>1. Spend("losses")
    BY <1>4 DEF PowerLoss
  <2>2. /\ scene' = scene
        /\ spent'.edits = 0 => spent.edits = 0
        /\ spent'.losses = 0 => spent.losses = 0
    BY <2>1, BoundsGrow
  <2>3. /\ evidence' = evidence /\ loose' = loose /\ installers' = installers
    BY <1>4 DEF PowerLoss, rights
  <2> QED BY <2>2, <2>3 DEF Grows, Untouched
<1>5. Grows
  BY <1>1, <1>2, <1>3, <1>4, StepGrows, FaultOrCrashStops DEF Next
<1> QED BY <1>5 DEF Grows, NothingLoose

\* A claim, an evidence and an installation have one maker each.
LEMMA RightsStep ==
  ASSUME TypeOK, NEW w \in Workers, Placed(w), Start(w) \/ Step(w)
  PROVE  /\ ConsumeApproval(w) \/ approval' = approval
         /\ CertifyPreparation(w) \/ evidence' = evidence
         /\ installers' = installers \/ (ReplaceDestination(w) /\ installers' = installers \cup {w})
<1> DEFINE Goal ==
      /\ ConsumeApproval(w) \/ approval' = approval
      /\ CertifyPreparation(w) \/ evidence' = evidence
      /\ installers' = installers \/ (ReplaceDestination(w) /\ installers' = installers \cup {w})
<1>1. ASSUME Start(w) \/ Looks(w) \/ Drops(w) \/ GoesOn(w) \/ FailClosed(w) PROVE Goal
  BY <1>1, QuietSteps DEF Quietly, rights, history
<1>2. ASSUME Appends(w) PROVE Goal
  <2>1. \E n, i : Appended(w, Wanted(w), n, i)
    BY <1>2, AppendsType
  <2> QED BY <2>1 DEF Appended, rights, history
<1>3. ASSUME Breaks(w) PROVE Goal
  BY <1>3 DEF Breaks, AppendBroken, rights
<1>4. ASSUME ConsumeApproval(w) \/ CertifyPreparation(w) PROVE Goal
  BY <1>4 DEF ConsumeApproval, CertifyPreparation, history
<1>5. ASSUME TouchesFiles(w) PROVE Goal
  BY <1>5 DEF TouchesFiles, OpenTemp, WriteTemp, UnlinkTemp, StagePreimage,
              ReplaceDestination, RestorePreimage, SyncTemp, SyncInstall, SyncStep,
              SyncStage, rights, history
<1> QED BY <1>1, <1>2, <1>3, <1>4, <1>5, StepForms DEF TouchesFiles

-----------------------------------------------------------------------------
(***************************************************************************)
(* What the steps that touch files do to them.                             *)
(***************************************************************************)
\* w leaves its file with this destination and this temporary, not yet durable.
Leaves(w, d, t) ==
  /\ fs'[File(w)].dest = d /\ fs'[File(w)].temp = t
  /\ safe' = safe /\ idx' = idx /\ plan' = plan

Wrote(w) ==
  LET f == fs[File(w)] IN
  \/ pc[w] = "open" /\ pc'[w] = "write" /\ Leaves(w, f.dest, "UNEXPECTED_TEMP")
  \/ pc[w] = "write" /\ pc'[w] = "syncTemp" /\ Leaves(w, f.dest, "EXACT_TEMP")
  \/ pc[w] = "unlink" /\ pc'[w] = "sync" /\ Leaves(w, f.dest, "ABSENT")
  \/ pc[w] = "stage" /\ pc'[w] = "syncStage" /\ Leaves(w, f.dest, f.temp)
  \/ /\ pc[w] = "replace" /\ pc'[w] = "sync" /\ f.temp # "ABSENT" /\ w \in installers'
     /\ Leaves(w, IF f.temp = "EXACT_TEMP" THEN "AFTER" ELSE "OTHER", "ABSENT")
  \/ pc[w] = "restoreReplace" /\ pc'[w] = "sync" /\ Leaves(w, "BEFORE", f.temp)

Synced(w) ==
  /\ pc[w] \in {"syncTemp", "sync", "syncStage"}
  /\ fs' = fs /\ safe'[File(w)] = fs[File(w)]

LEMMA TouchForms ==
  ASSUME TypeOK, NEW w \in Workers, Placed(w), TouchesFiles(w)
  PROVE  /\ File(w) \in Paths /\ pc[w] \in FilePCs
         /\ \A q \in Paths \ {File(w)} : fs'[q] = fs[q] /\ safe'[q] = safe[q]
         /\ UNCHANGED <<tip, readable, fallback, stray, rights, bounds, loose>>
         /\ cur' = cur
         /\ \/ /\ fs' = fs /\ safe' = safe
               /\ pc'[w] \in {"idle", "failing"} /\ pc[w] # "sync"
            \/ Wrote(w)
            \/ Synced(w)
<1>0. /\ fs \in [Paths -> FileStates] /\ safe \in [Paths -> FileStates]
      /\ pc \in [Workers -> PCs]
  BY DEF TypeOK
<1>1. pc[w] \in FilePCs
  BY DEF TouchesFiles, OpenTemp, WriteTemp, UnlinkTemp, StagePreimage,
         ReplaceDestination, RestorePreimage, SyncTemp, SyncInstall, SyncStep,
         SyncStage, FilePCs, OrderedPCs, MovePCs, RestoringPCs
<1>2. File(w) \in Paths
  BY <1>1, FileIsPath
<1> DEFINE p == File(w)
<1>3. fs[p] \in FileStates
  BY <1>0, <1>2
<1>4. UNCHANGED <<tip, readable, fallback, stray, rights, bounds, loose>> /\ cur' = cur
  BY DEF TouchesFiles, OpenTemp, WriteTemp, UnlinkTemp, StagePreimage,
         ReplaceDestination, RestorePreimage, SyncTemp, SyncInstall, SyncStep,
         SyncStage, journal, history, local
<1> DEFINE Goal ==
      /\ \A q \in Paths \ {p} : fs'[q] = fs[q] /\ safe'[q] = safe[q]
      /\ \/ /\ fs' = fs /\ safe' = safe
            /\ pc'[w] \in {"idle", "failing"} /\ pc[w] # "sync"
         \/ Wrote(w)
         \/ Synced(w)
<1>5. ASSUME OpenTemp(w) PROVE Goal
  BY <1>0, <1>2, <1>3, <1>5 DEF OpenTemp, Change, Go, FileStates, Wrote, Leaves, local
<1>6. ASSUME WriteTemp(w) PROVE Goal
  BY <1>0, <1>2, <1>3, <1>6 DEF WriteTemp, Change, Go, FileStates, Wrote, Leaves, local
<1>7. ASSUME UnlinkTemp(w) PROVE Goal
  BY <1>0, <1>2, <1>3, <1>7 DEF UnlinkTemp, Change, Go, FileStates, Wrote, Leaves, local
<1>8. ASSUME StagePreimage(w) PROVE Goal
  BY <1>0, <1>2, <1>3, <1>8 DEF StagePreimage, Change, Go, FileStates, Wrote, Leaves, local
<1>9. ASSUME ReplaceDestination(w) PROVE Goal
  <2>1. CASE fs[p].temp = "ABSENT"
    BY <1>0, <1>9, <2>1 DEF ReplaceDestination, Leave, Go
  <2>2. CASE fs[p].temp # "ABSENT"
    <3> DEFINE d == IF fs[p].temp = "EXACT_TEMP" THEN "AFTER" ELSE "OTHER"
               new == [fs[p] EXCEPT !.dest = d, !.temp = "ABSENT"]
    <3>1. /\ pc[w] = "replace" /\ pc'[w] = "sync" /\ w \in installers'
          /\ safe' = safe /\ idx' = idx /\ plan' = plan
          /\ fs' = [fs EXCEPT ![p] = new]
      BY <1>0, <1>9, <2>2 DEF ReplaceDestination, Overwrite, Change, Go, local
    <3>2. new.dest = d /\ new.temp = "ABSENT"
      BY <1>3 DEF FileStates
    <3>3. fs'[p] = new /\ \A q \in Paths \ {p} : fs'[q] = fs[q]
      BY <1>0, <1>2, <3>1
    <3> QED BY <2>2, <3>1, <3>2, <3>3 DEF Wrote, Leaves
  <2> QED BY <2>1, <2>2
<1>10. ASSUME RestorePreimage(w) PROVE Goal
  <2>1. CASE ~fs[p].residue
    BY <1>0, <1>10, <2>1 DEF RestorePreimage, Leave, Go
  <2>2. CASE fs[p].residue
    <3> DEFINE new == [fs[p] EXCEPT !.dest = "BEFORE", !.residue = FALSE]
    <3>1. /\ pc[w] = "restoreReplace" /\ pc'[w] = "sync"
          /\ safe' = safe /\ idx' = idx /\ plan' = plan
          /\ fs' = [fs EXCEPT ![p] = new]
      BY <1>0, <1>10, <2>2 DEF RestorePreimage, Overwrite, Change, Go, local
    <3>2. new.dest = "BEFORE" /\ new.temp = fs[p].temp
      BY <1>3 DEF FileStates
    <3>3. fs'[p] = new /\ \A q \in Paths \ {p} : fs'[q] = fs[q]
      BY <1>0, <1>2, <3>1
    <3> QED BY <3>1, <3>2, <3>3 DEF Wrote, Leaves
  <2> QED BY <2>1, <2>2
<1>11. ASSUME SyncTemp(w) \/ SyncInstall(w) \/ SyncStep(w) \/ SyncStage(w) PROVE Goal
  BY <1>0, <1>2, <1>11
     DEF SyncTemp, SyncInstall, SyncStep, SyncStage, MakeDurable, Synced
<1> QED BY <1>1, <1>2, <1>4, <1>5, <1>6, <1>7, <1>8, <1>9, <1>10, <1>11 DEF TouchesFiles

-----------------------------------------------------------------------------
(***************************************************************************)
(* One claim: the approval, the preparation, the execution.                *)
(***************************************************************************)
\* From a PREPARED tip nothing but APPLYING is appended, and no step makes the
\* journal PREPARED again.
LEMMA FromPrepared ==
  ASSUME TypeOK, NEW w \in Workers, Placed(w), Held(w), pc[w] \in AppendPCs,
         tip = cur[w], tip.state = "PREPARED"
  PROVE  pc[w] = "apply"
BY KindsOfWorkers
   DEF Held, Placed, AppendPCs, ExecutingPCs, RestoringPCs, PreparingPCs, ActiveStates

LEMMA NotPreparedAgain ==
  ASSUME TypeOK, \A w \in Workers : Placed(w) /\ Held(w), Next, ~PowerLoss
  PROVE  \/ tip' = tip /\ fallback' \in {{}, fallback}
         \/ /\ tip'.state # "PREPARED" /\ tip.state \notin TerminalStates
            /\ \E w \in Workers :
                 /\ pc[w] \in AppendPCs /\ tip = cur[w]
                 /\ tip.state = "PREPARED" => pc[w] = "apply"
            /\ fallback' = {} \/ (fallback' = fallback \cup {tip} /\ loose')
<1>1. CASE tip' = tip /\ fallback' \in {{}, fallback}
  BY <1>1
<1>2. CASE /\ Transition(tip, tip')
           /\ \E w \in Workers :
                /\ pc[w] \in AppendPCs /\ tip = cur[w]
                /\ fallback' = {} \/ (fallback' = fallback \cup {tip} /\ loose')
  <2>1. tip'.state # "PREPARED" /\ tip.state \notin TerminalStates
    <3>1. tip \in Snapshots
      BY DEF TypeOK, ValidTransaction
    <3> QED BY <1>2, <3>1, SuccessorStates
  <2> QED BY <1>2, <2>1, FromPrepared
<1> QED BY <1>1, <1>2, TipStep

\* Whoever holds the transaction held it, or has appended APPLYING just now.
LEMMA HoldersStep ==
  ASSUME TypeOK, \A w \in Workers : Placed(w), Next, NEW v \in Workers, v \in Holders'
  PROVE  v \in Holders \/ (v \in Executors /\ pc[v] = "apply" /\ Appends(v))
<1>1. ASSUME NEW w \in Workers, Start(w) \/ Step(w)
      PROVE  v \in Holders \/ (v \in Executors /\ pc[v] = "apply" /\ Appends(v))
  <2>1. /\ v \in installers' => v \in installers \/ (v = w /\ ReplaceDestination(w))
    BY <1>1, RightsStep
  <2>2. ReplaceDestination(w) => pc[w] \in ExecutingPCs /\ w \in Executors
    BY KindsOfWorkers DEF ReplaceDestination, Placed, ExecutingPCs, PreparingPCs, RestoringPCs
  <2>3. v # w => pc'[v] = pc[v]
    BY <1>1, OthersStay DEF SameWorker
  <2>4. v \in Executors /\ pc'[w] \in ExecutingPCs /\ v = w =>
          pc[w] \in ExecutingPCs \/ (pc[w] = "apply" /\ Appends(w))
    BY <1>1, WaysIn
  <2> QED BY <2>1, <2>2, <2>3, <2>4 DEF Holders
<1>2. ASSUME NEW w \in Workers, Stops(w) PROVE v \in Holders
  <2>1. pc'[v] = pc[v] \/ pc'[v] \in {"idle", "failing"}
    BY <1>2 DEF Stops, TypeOK
  <2>2. installers' = installers
    BY <1>2 DEF Stops
  <2> QED BY <2>1, <2>2 DEF Holders, ExecutingPCs
<1>3. CASE (\E p \in Paths : Edit(p)) \/ Disturb
  BY <1>3 DEF Edit, Disturb, Holders, history
<1>4. CASE PowerLoss
  BY <1>4 DEF PowerLoss, Holders, ExecutingPCs
<1> QED BY <1>1, <1>2, <1>3, <1>4, FaultOrCrashStops DEF Next

\* What no step that touches files has done to files, tip and approval.
LEMMA ElsewhereKept ==
  ASSUME TypeOK, NEW w \in Workers, Placed(w), Start(w) \/ Step(w), ~TouchesFiles(w)
  PROVE  fs' = fs /\ safe' = safe
<1>1. CASE Start(w) \/ Looks(w) \/ Drops(w) \/ GoesOn(w) \/ FailClosed(w)
  BY <1>1, QuietSteps DEF Quietly, files
<1>2. CASE Appends(w)
  BY <1>2, AppendsType DEF Appended, files
<1>3. CASE Breaks(w)
  BY <1>3 DEF Breaks, AppendBroken, files
<1>4. CASE ConsumeApproval(w) \/ CertifyPreparation(w)
  BY <1>4 DEF ConsumeApproval, CertifyPreparation, files
<1> QED BY <1>1, <1>2, <1>3, <1>4, StepForms DEF TouchesFiles

\* A destination that shows the new content was renamed by an installer.
LEMMA AfterStep ==
  ASSUME TypeOK, \A w \in Workers : Placed(w), Next, NEW p \in Paths,
         "AFTER" \in {fs'[p].dest, safe'[p].dest}
  PROVE  "AFTER" \in {fs[p].dest, safe[p].dest} \/ installers' # {}
<1>0. /\ fs \in [Paths -> FileStates] /\ safe \in [Paths -> FileStates]
      /\ \A q \in Paths : fs[q] \in FileStates /\ safe[q] \in FileStates
  BY DEF TypeOK
<1>1. ASSUME NEW w \in Workers, TouchesFiles(w)
      PROVE  "AFTER" \in {fs[p].dest, safe[p].dest} \/ installers' # {}
  <2>1. CASE p # File(w)
    BY <1>1, <2>1, TouchForms
  <2>2. CASE p = File(w)
    BY <1>1, <2>2, TouchForms DEF Wrote, Leaves, Synced
  <2> QED BY <2>1, <2>2
<1>2. ASSUME NEW w \in Workers, Start(w) \/ Step(w), ~TouchesFiles(w)
      PROVE  fs' = fs /\ safe' = safe
  BY <1>2, ElsewhereKept
<1>3. ASSUME NEW w \in Workers, Stops(w) PROVE fs' = fs /\ safe' = safe
  BY <1>3 DEF Stops, files
<1>4. ASSUME NEW q \in Paths, Edit(q)
      PROVE  "AFTER" \in {fs[p].dest, safe[p].dest}
  <2>1. /\ fs' = [fs EXCEPT ![q].dest = "OTHER"] /\ safe' = [safe EXCEPT ![q].dest = "OTHER"]
    BY <1>4 DEF Edit
  <2>2. p # q
    BY <1>0, <2>1 DEF FileStates
  <2> QED BY <1>0, <2>1, <2>2
<1>5. CASE Disturb
  BY <1>5 DEF Disturb, files
<1>6. CASE PowerLoss
  <2>1. fs'[p] \in AfterLoss(p) /\ safe' = fs'
    BY <1>6, LossType
  <2> QED BY <1>0, <2>1 DEF AfterLoss, FileStates
<1> QED BY <1>1, <1>2, <1>3, <1>4, <1>5, <1>6, FaultOrCrashStops DEF Next

LEMMA ApplyAppends ==
  ASSUME TypeOK, NEW w \in Workers, Placed(w), Held(w), pc[w] = "apply", Appends(w)
  PROVE  /\ tip.state = "PREPARED" /\ tip'.state = "APPLYING" /\ fallback' = {}
         /\ pc'[w] = "examine" /\ \A v \in Workers \ {w} : pc'[v] = pc[v]
<1>1. Posts(w, "examine", 1)
  BY DEF Appends
<1>2. /\ pc'[w] = "examine" /\ tip' = Wanted(w) /\ fallback' = {} /\ tip = cur[w]
      /\ pc[w] \in AppendPCs
  BY <1>1, PostsOwn DEF Posts
<1>3. \A v \in Workers \ {w} : pc'[v] = pc[v]
  BY <1>1 DEF Posts, Appended, Go, TypeOK
<1>4. tip.state = "PREPARED"
  BY <1>2, PreparedType DEF Held
<1> QED BY <1>2, <1>3, <1>4, WantedState

LEMMA ApprovalStep ==
  ASSUME TypeOK, \A w \in Workers : Placed(w), ClaimInv,
         NEW w \in Workers, Start(w) \/ Step(w)
  PROVE  /\ approval = "consumed" => approval' = "consumed"
         /\ evidence' => approval' = "consumed"
         /\ evidence' # evidence => w \in Preparers /\ pc[w] \in PreparingPCs
                                      /\ pc'[w] = "idle"
<1>1. approval' = approval \/ ConsumeApproval(w)
  BY RightsStep
<1>2. ConsumeApproval(w) => approval = "approved" \/ approval' = approval
  BY DEF ConsumeApproval
<1>3. evidence' = evidence \/ CertifyPreparation(w)
  BY RightsStep
<1>4. CertifyPreparation(w) =>
        /\ w \in Preparers /\ pc[w] \in PreparingPCs /\ pc'[w] = "idle"
        /\ approval' = approval
  <2>1. CertifyPreparation(w) => pc[w] = "certify" /\ pc'[w] = "idle" /\ approval' = approval
    BY DEF CertifyPreparation, Go, TypeOK
  <2> QED BY <2>1, KindsOfWorkers DEF Placed, PreparingPCs, ExecutingPCs, RestoringPCs
<1> QED BY <1>1, <1>2, <1>3, <1>4 DEF ClaimInv

LEMMA ClaimStep ==
  ASSUME TypeOK, \A w \in Workers : Placed(w) /\ Held(w), ClaimInv, Next
  PROVE  ClaimInv'
<1>0. \A w \in Workers : Placed(w)
  OBVIOUS
<1>1. /\ evidence => approval = "consumed"
      /\ tip.state # "PREPARED" => evidence
      /\ fallback # {} => loose /\ tip.state # "PREPARED"
      /\ \A t \in fallback : t.state \notin TerminalStates
      /\ \A w \in Preparers :
           pc[w] \in PreparingPCs =>
             /\ approval = "consumed" /\ ~evidence
             /\ \A v \in Preparers : pc[v] \in PreparingPCs => v = w
      /\ \A w \in Workers : pc[w] = "apply" => evidence
      /\ \A w \in Holders :
           /\ \A t \in {tip} \cup fallback : t.state # "PREPARED"
           /\ \A v \in Holders : v = w
  BY DEF ClaimInv
<1>2. Grows
  BY <1>0, NextGrows
<1>3. \A v \in Workers : v \in Holders' =>
        v \in Holders \/ (v \in Executors /\ pc[v] = "apply" /\ Appends(v))
  BY <1>0, HoldersStep
<1>4. Holders' \subseteq Workers
  <2>1. TypeOK'
    BY <1>0, TypeStep
  <2> QED BY <2>1 DEF Holders, TypeOK, Workers
<1>5. \A p \in Paths : "AFTER" \in {fs'[p].dest, safe'[p].dest} => installers' # {}
  BY <1>0, <1>2, AfterStep DEF ClaimInv, Grows
\* The approval, the evidence and the preparer.
<1>6. /\ evidence' => approval' = "consumed"
      /\ \A w \in Preparers :
           pc'[w] \in PreparingPCs =>
             /\ approval' = "consumed" /\ ~evidence'
             /\ \A v \in Preparers : pc'[v] \in PreparingPCs => v = w
      /\ \A w \in Workers : pc'[w] = "apply" => evidence'
  <2> DEFINE Goal ==
        /\ evidence' => approval' = "consumed"
        /\ \A w \in Preparers :
             pc'[w] \in PreparingPCs =>
               /\ approval' = "consumed" /\ ~evidence'
               /\ \A v \in Preparers : pc'[v] \in PreparingPCs => v = w
        /\ \A w \in Workers : pc'[w] = "apply" => evidence'
  <2>1. ASSUME NEW w \in Workers, Start(w) \/ Step(w) PROVE Goal
    <3>1. \A v \in Workers \ {w} : pc'[v] = pc[v]
      BY <2>1, OthersStay DEF SameWorker
    <3>2. /\ pc'[w] = "apply" => evidence
          /\ w \in Preparers /\ pc'[w] \in PreparingPCs =>
               \/ pc[w] \in PreparingPCs
               \/ approval = "approved" /\ approval' = "consumed"
      BY <1>0, <2>1, WaysIn
    <3>3. /\ approval = "consumed" => approval' = "consumed"
          /\ evidence' => approval' = "consumed"
          /\ evidence' # evidence => w \in Preparers /\ pc[w] \in PreparingPCs
                                       /\ pc'[w] = "idle"
      BY <1>0, <2>1, ApprovalStep
    <3>4. ASSUME NEW v \in Preparers, pc'[v] \in PreparingPCs
          PROVE  /\ approval' = "consumed" /\ ~evidence'
                 /\ pc[v] \in PreparingPCs \/ (v = w /\ approval = "approved")
      <4>1. v \in Workers
        BY DEF Workers
      <4>2. pc[v] \in PreparingPCs \/ (v = w /\ approval = "approved" /\ approval' = "consumed")
        BY <3>1, <3>2, <3>4, <4>1
      <4>3. ~evidence /\ approval' = "consumed"
        BY <1>1, <3>3, <4>2
      <4>4. evidence' = evidence
        <5>1. SUFFICES ASSUME evidence' # evidence PROVE FALSE
          OBVIOUS
        <5>2. w \in Preparers /\ pc[w] \in PreparingPCs /\ pc'[w] = "idle"
          BY <3>3, <5>1
        <5>3. v = w
          BY <1>1, <4>2, <5>2
        <5> QED BY <3>4, <5>2, <5>3 DEF PreparingPCs
      <4> QED BY <4>2, <4>3, <4>4
    <3>5. \A u, v \in Preparers :
            pc'[u] \in PreparingPCs /\ pc'[v] \in PreparingPCs => u = v
      BY <1>1, <3>4
    <3> QED BY <1>1, <1>2, <3>1, <3>2, <3>3, <3>4, <3>5 DEF Grows
  <2>2. ASSUME NEW w \in Workers, Stops(w) PROVE Goal
    <3>1. /\ approval' = approval /\ evidence' = evidence
          /\ \A v \in Workers : pc'[v] = pc[v] \/ pc'[v] \in {"idle", "failing"}
      BY <2>2 DEF Stops, TypeOK, rights
    <3> QED BY <1>1, <3>1 DEF PreparingPCs, Workers
  <2>3. ASSUME (\E p \in Paths : Edit(p)) \/ Disturb PROVE Goal
    BY <1>1, <2>3 DEF Edit, Disturb, rights
  <2>4. ASSUME PowerLoss PROVE Goal
    <3>1. \A v \in Workers : pc'[v] = "idle"
      BY <2>4 DEF PowerLoss
    <3>2. approval' = approval /\ evidence' = evidence
      BY <2>4 DEF PowerLoss, rights
    <3> QED BY <1>1, <3>1, <3>2 DEF PreparingPCs, Workers
  <2> QED BY <2>1, <2>2, <2>3, <2>4, FaultOrCrashStops DEF Next
\* The tip, what a power loss could bring back, and the holder.
<1>7. /\ tip'.state # "PREPARED" => evidence'
      /\ fallback' # {} => loose' /\ tip'.state # "PREPARED"
      /\ \A t \in fallback' : t.state \notin TerminalStates
      /\ \A w \in Holders' :
           /\ \A t \in {tip'} \cup fallback' : t.state # "PREPARED"
           /\ \A v \in Holders' : v = w
  <2>1. CASE PowerLoss
    <3>1. /\ tip' \in {tip} \cup fallback /\ fallback' = {}
          /\ \A v \in Workers : pc'[v] = "idle"
      BY <2>1 DEF PowerLoss
    <3>2. Holders' \subseteq Holders
      BY <1>3, <1>4, <2>1, <3>1 DEF Holders, ExecutingPCs, Workers, PowerLoss
    <3> QED BY <1>1, <1>2, <3>1, <3>2 DEF Grows
  <2>2. CASE tip' = tip /\ fallback' \in {{}, fallback}
    <3>1. Holders' \subseteq Holders
      BY <1>3, <1>4, <2>2, ApplyAppends
    <3> QED BY <1>1, <1>2, <2>2, <3>1 DEF Grows
  <2>3. CASE /\ tip'.state # "PREPARED" /\ tip.state \notin TerminalStates
             /\ \E w \in Workers :
                  /\ pc[w] \in AppendPCs /\ tip = cur[w]
                  /\ tip.state = "PREPARED" => pc[w] = "apply"
             /\ fallback' = {} \/ (fallback' = fallback \cup {tip} /\ loose')
    <3>1. evidence'
      BY <1>1, <1>2, <2>3 DEF Grows
    <3>2. CASE Holders' \subseteq Holders
      BY <1>1, <2>3, <3>1, <3>2
    <3>3. CASE ~(Holders' \subseteq Holders)
      <4>1. PICK v \in Workers : v \in Executors /\ pc[v] = "apply" /\ Appends(v)
        BY <1>3, <1>4, <3>3
      <4>2. /\ tip.state = "PREPARED" /\ tip'.state = "APPLYING" /\ fallback' = {}
            /\ \A u \in Workers \ {v} : pc'[u] = pc[u]
        BY <4>1, ApplyAppends
      <4>3. Holders = {}
        BY <1>1, <4>2
      <4>4. \A u \in Holders' : u = v
        <5>1. SUFFICES ASSUME NEW u \in Holders', u # v PROVE FALSE
          OBVIOUS
        <5>2. u \in Workers /\ pc[u] = "apply" /\ Appends(u) /\ pc'[u] = pc[u]
          BY <1>3, <1>4, <4>2, <4>3, <5>1
        <5> QED BY <5>2, ApplyAppends
      <4> QED BY <3>1, <4>2, <4>4
    <3> QED BY <3>2, <3>3
  <2> QED BY <2>1, <2>2, <2>3, NotPreparedAgain
<1> QED BY <1>5, <1>6, <1>7 DEF ClaimInv

-----------------------------------------------------------------------------
(***************************************************************************)
(* What each worker may not meet: the preparation, the execution and the   *)
(* steps of a rollback have their times.                                   *)
(***************************************************************************)
LEMMA RollingTip ==
  ASSUME NEW w \in Rollbackers, Held(w), pc[w] \in RestoringPCs
  PROVE  cur[w].state = "ROLLING_BACK" /\ tip.state \in RolledStates
BY DEF Held, RestoringPCs

LEMMA ExecutingTip ==
  ASSUME ClaimInv, NEW w \in Executors, pc[w] \in ExecutingPCs
  PROVE  /\ tip.state # "PREPARED" /\ evidence
         /\ \A v \in Executors : pc[v] \in ExecutingPCs => v = w
BY DEF ClaimInv, Holders

LEMMA PreparingAlone ==
  ASSUME TypeOK, \A v \in Workers : Placed(v) /\ Held(v), ClaimInv,
         NEW w \in Workers, pc[w] \in PreparingPCs
  PROVE  /\ w \in Preparers /\ ~evidence /\ tip.state = "PREPARED"
         /\ \A v \in Workers :
              pc[v] \in PreparingPCs \cup ExecutingPCs \cup RestoringPCs => v = w
<1>1. w \in Preparers
  BY KindsOfWorkers DEF Placed, PreparingPCs, ExecutingPCs, RestoringPCs
<1>2. ~evidence /\ tip.state = "PREPARED"
  BY <1>1 DEF ClaimInv
<1>3. ASSUME NEW v \in Workers, pc[v] \in PreparingPCs \cup ExecutingPCs \cup RestoringPCs
      PROVE  v = w
  <2>1. CASE v \in Preparers
    <3>1. pc[v] \in PreparingPCs
      BY <1>3, <2>1, KindsOfWorkers DEF Placed, PreparingPCs, ExecutingPCs, RestoringPCs
    <3> QED BY <1>1, <2>1, <3>1 DEF ClaimInv
  <2>2. CASE v \in Executors
    <3>1. pc[v] \in ExecutingPCs
      BY <1>3, <2>2, KindsOfWorkers DEF Placed, PreparingPCs, ExecutingPCs, RestoringPCs
    <3> QED BY <1>2, <2>2, <3>1, ExecutingTip
  <2>3. CASE v \in Rollbackers
    <3>1. pc[v] \in RestoringPCs
      BY <1>3, <2>3, KindsOfWorkers DEF Placed, PreparingPCs, ExecutingPCs, RestoringPCs
    <3> QED BY <1>2, <1>3, <2>3, <3>1, RollingTip DEF RolledStates
  <2> QED BY <2>1, <2>2, <2>3, KindsOfWorkers
<1> QED BY <1>1, <1>2, <1>3

\* Who renames and who unlinks.
LEMMA WhoWrites ==
  ASSUME NEW w \in Workers, Placed(w)
  PROVE  /\ pc[w] \in {"open", "write", "syncTemp"} => w \in Preparers /\ pc[w] \in PreparingPCs
         /\ pc[w] = "replace" => w \in Executors /\ pc[w] \in ExecutingPCs
         /\ pc[w] \in {"unlink", "stage", "syncStage", "restoreCheck", "restoreReplace"} =>
              w \in Rollbackers /\ pc[w] \in RestoringPCs
         /\ pc[w] = "sync" =>
              \/ w \in Rollbackers /\ pc[w] \in RestoringPCs
              \/ w \in Executors /\ pc[w] \in ExecutingPCs
BY KindsOfWorkers DEF Placed, PreparingPCs, ExecutingPCs, RestoringPCs

-----------------------------------------------------------------------------
(***************************************************************************)
(* Edits by other programs.                                                *)
(***************************************************************************)
\* The edits that others raced with are not forgotten, and none is overwritten
\* outside its race.
LEMMA RaceStep ==
  ASSUME TypeOK, NEW w \in Workers, Placed(w), Guarded(w), lost = {},
         Start(w) \/ Step(w)
  PROVE  /\ \A v \in Workers \ {w}, p \in Paths : <<v, p>> \in race => <<v, p>> \in race'
         /\ lost' = {}
<1> DEFINE Goal ==
      /\ \A v \in Workers \ {w}, p \in Paths : <<v, p>> \in race => <<v, p>> \in race'
      /\ lost' = {}
<1>1. ASSUME Start(w) \/ Looks(w) \/ Drops(w) \/ GoesOn(w) \/ FailClosed(w) PROVE Goal
  BY <1>1, QuietSteps DEF Quietly, history
<1>2. ASSUME Appends(w) PROVE Goal
  BY <1>2, AppendsType DEF Appended, history
<1>3. ASSUME Breaks(w) PROVE Goal
  BY <1>3 DEF Breaks, AppendBroken
<1>4. ASSUME ConsumeApproval(w) \/ CertifyPreparation(w) PROVE Goal
  BY <1>4 DEF ConsumeApproval, CertifyPreparation, history
<1>5. ASSUME \/ OpenTemp(w) \/ WriteTemp(w) \/ UnlinkTemp(w) \/ StagePreimage(w)
             \/ SyncTemp(w) \/ SyncInstall(w) \/ SyncStep(w) \/ SyncStage(w)
      PROVE  Goal
  BY <1>5 DEF OpenTemp, WriteTemp, UnlinkTemp, StagePreimage, SyncTemp, SyncInstall,
              SyncStep, SyncStage, history
<1>6. ASSUME ReplaceDestination(w) \/ RestorePreimage(w) PROVE Goal
  <2>1. race' = {x \in race : x[1] # w}
    BY <1>6 DEF ReplaceDestination, RestorePreimage, Overwrite, Leave
  <2>2. /\ pc[w] \in {"replace", "restoreReplace"}
        /\ \/ lost' = lost
           \/ lost' = IF fs[File(w)].dest = "OTHER" /\ <<w, File(w)>> \notin race
                      THEN lost \cup {File(w)} ELSE lost
    BY <1>6 DEF ReplaceDestination, RestorePreimage, Overwrite
  <2>3. lost' = {}
    BY <2>2 DEF Guarded
  <2> QED BY <2>1, <2>3
<1> QED BY <1>1, <1>2, <1>3, <1>4, <1>5, <1>6, StepForms

\* A rename is reached from its last check only.
LEMMA WaysToRename ==
  ASSUME TypeOK, NEW w \in Workers, Placed(w), Start(w) \/ Step(w),
         pc'[w] \in {"replace", "restoreReplace"}
  PROVE  \/ /\ pc[w] = "check" /\ At(File(w), "BEFORE", "EXACT_TEMP")
            /\ Turned(w, "replace", idx[w])
         \/ /\ pc[w] = "restoreCheck" /\ fs[File(w)].dest = "AFTER"
            /\ Turned(w, "restoreReplace", idx[w])
<1>0. pc \in [Workers -> PCs]
  BY DEF TypeOK
<1>1. ~Start(w)
  BY <1>0 DEF Start, StartPreparing, StartExecuting, StartRollback, Go
<1>2. ~Looks(w) /\ ~FailClosed(w)
  BY <1>0 DEF Looks, FailClosed, InspectPCs, Go
<1>3. ~Drops(w)
  BY TurnedOwn DEF Drops
<1>4. ~Appends(w)
  <2>1. SUFFICES ASSUME Appends(w) PROVE FALSE
    OBVIOUS
  <2>2. pc'[w] \in {"examine", "turn", "verify", "final", "idle", "confirm"}
          \/ (pc[w] \in {"enter", "reconciled", "restored"} /\ pc'[w] = NextStep(w))
    BY <2>1, PostsOwn DEF Appends, Posts
  <2> QED BY <2>2, WhoAppends, NextStepPC
<1>5. ~Breaks(w)
  BY <1>0 DEF Breaks, AppendBroken, Go, OnFailure
<1>6. ~ConsumeApproval(w) /\ ~CertifyPreparation(w)
  BY <1>0 DEF ConsumeApproval, CertifyPreparation, Go
<1>7. ~TouchesFiles(w)
  <2>1. ~SyncStep(w)
    <3>1. SyncStep(w) => w \in Rollbackers /\ pc'[w] = NextStep(w) /\ pc[w] = "sync"
      BY <1>0 DEF SyncStep, Go
    <3> QED BY <3>1, NextStepPC DEF RollPCs, RestoringPCs
  <2> QED BY <1>0, <2>1
      DEF TouchesFiles, OpenTemp, WriteTemp, SyncTemp, UnlinkTemp, StagePreimage,
          ReplaceDestination, RestorePreimage, SyncInstall, SyncStage, Go, Leave
<1>8. GoesOn(w)
  BY <1>1, <1>2, <1>3, <1>4, <1>5, <1>6, <1>7, StepForms DEF TouchesFiles
<1>9. ~(pc[w] = "replan" /\ Turned(w, NextStep(w), 1))
  <2>1. SUFFICES ASSUME pc[w] = "replan", Turned(w, NextStep(w), 1) PROVE FALSE
    OBVIOUS
  <2>2. /\ w \in Rollbackers /\ idx[w] = 0 /\ WholePlan(plan[w]) /\ pc'[w] = NextStep(w)
    BY <2>1, KindsOfWorkers, TurnedOwn DEF Placed, PreparingPCs, ExecutingPCs
  <2>3. idx[w] + 1 \in DOMAIN plan[w]
    BY <2>2 DEF WholePlan
  <2> QED BY <2>2, <2>3, NextStepBegins
<1>10. \A n, i : Turned(w, n, i) => pc'[w] = n
  BY TurnedOwn
<1> QED BY <1>8, <1>9, <1>10 DEF GoesOn

LEMMA GuardedStep ==
  ASSUME TypeOK, \A w \in Workers : Placed(w) /\ Held(w) /\ Guarded(w), ClaimInv,
         EditsSurvive, Next
  PROVE  (\A w \in Workers : Guarded(w)') /\ EditsSurvive'
<1>0. \A w \in Workers : Placed(w) /\ Guarded(w)
  OBVIOUS
<1>1. lost = {}
  BY DEF EditsSurvive
<1>2. ASSUME NEW w \in Workers, Start(w) \/ Step(w), NEW v \in Workers PROVE Guarded(v)'
  <2>1. CASE v # w
    <3>1. SameWorker(v) /\ File(v)' = File(v)
      BY <1>2, <2>1, OthersStay DEF SameWorker, File
    <3>2. \A p \in Paths : <<v, p>> \in race => <<v, p>> \in race'
      BY <1>0, <1>1, <1>2, <2>1, RaceStep
    <3>3. CASE pc[v] \notin {"replace", "restoreReplace"}
      BY <3>1, <3>3 DEF Guarded, SameWorker
    <3>4. CASE pc[v] \in {"replace", "restoreReplace"}
      <4>1. File(v) \in Paths
        BY <3>4, FileIsPath DEF FilePCs, OrderedPCs, MovePCs, RestoringPCs
      <4>2. CASE ~TouchesFiles(w)
        <5>1. fs' = fs
          BY <1>2, <4>2, ElsewhereKept
        <5> QED BY <3>1, <3>2, <4>1, <5>1 DEF Guarded, SameWorker
      <4>3. CASE TouchesFiles(w)
        <5>1. pc[w] \notin {"open", "write"}
          <6>1. pc[v] \in ExecutingPCs \cup RestoringPCs
            BY <3>4 DEF ExecutingPCs, RestoringPCs
          <6> QED BY <2>1, <6>1, PreparingAlone DEF PreparingPCs
        <5>2. fs[File(w)].temp # "UNEXPECTED_TEMP" \/ pc[w] # "replace"
          BY DEF Guarded
        <5>3. /\ fs'[File(v)].temp \in {fs[File(v)].temp, "ABSENT"}
              /\ fs'[File(v)].dest \in {fs[File(v)].dest, "AFTER", "BEFORE"}
          <6>1. CASE File(v) # File(w)
            BY <4>1, <4>3, <6>1, TouchForms
          <6>2. CASE File(v) = File(w)
            <7>1. fs[File(w)].temp \in Temporaries
              BY <4>1, <6>2 DEF TypeOK, FileStates
            <7> QED BY <4>3, <5>1, <5>2, <6>2, <7>1, TouchForms
                    DEF Wrote, Leaves, Synced, Temporaries
          <6> QED BY <6>1, <6>2
        <5> QED BY <3>1, <3>2, <4>1, <5>3 DEF Guarded, SameWorker
      <4> QED BY <4>2, <4>3
    <3> QED BY <3>3, <3>4
  <2>2. CASE v = w
    <3>1. CASE pc'[w] \notin {"replace", "restoreReplace"}
      BY <2>2, <3>1 DEF Guarded
    <3>2. CASE pc'[w] \in {"replace", "restoreReplace"}
      <4>1. \/ pc[w] = "check" /\ At(File(w), "BEFORE", "EXACT_TEMP") /\ Turned(w, "replace", idx[w])
            \/ /\ pc[w] = "restoreCheck" /\ fs[File(w)].dest = "AFTER"
               /\ Turned(w, "restoreReplace", idx[w])
        BY <1>2, <3>2, WaysToRename
      <4>2. fs' = fs /\ File(w)' = File(w)
        <5>1. idx' = idx /\ plan' = plan
          BY <4>1 DEF Turned, TypeOK
        <5> QED BY <4>1, <5>1 DEF Turned, File, files
      <4> QED BY <2>2, <4>1, <4>2 DEF Guarded, At, Turned, TypeOK
    <3> QED BY <3>1, <3>2
  <2> QED BY <2>1, <2>2
<1>3. ASSUME NEW w \in Workers, Stops(w), NEW v \in Workers PROVE Guarded(v)'
  <2>1. /\ fs' = fs /\ File(v)' = File(v) /\ race' = {x \in race : x[1] # w}
    BY <1>3 DEF Stops, files, local, File
  <2>2. /\ v # w => pc'[v] = pc[v]
        /\ v = w => pc'[v] \in {"idle", "failing"}
    BY <1>3 DEF Stops, TypeOK
  <2> QED BY <2>1, <2>2 DEF Guarded
<1>4. ASSUME NEW p \in Paths, Edit(p), NEW v \in Workers PROVE Guarded(v)'
  <2>1. /\ fs' = [fs EXCEPT ![p].dest = "OTHER"]
        /\ pc' = pc /\ File(v)' = File(v)
    BY <1>4 DEF Edit, local, File
  <2>2. race' = race \cup {<<w, p>> : w \in {u \in Workers :
                  pc[u] \in {"replace", "restoreReplace"} /\ File(u) = p}}
    BY <1>4 DEF Edit
  <2>3. CASE pc[v] \in {"replace", "restoreReplace"}
    <3>1. File(v) \in Paths
      BY <2>3, FileIsPath DEF FilePCs, OrderedPCs, MovePCs, RestoringPCs
    <3>2. fs[File(v)] \in FileStates
      BY <3>1 DEF TypeOK
    <3>3. fs'[File(v)].temp = fs[File(v)].temp
      BY <2>1, <3>1, <3>2 DEF TypeOK, FileStates
    <3>4. File(v) # p => fs'[File(v)] = fs[File(v)]
      BY <2>1, <3>1 DEF TypeOK
    <3>5. File(v) = p => <<v, p>> \in race'
      BY <2>2, <2>3
    <3>6. File(v) # p /\ <<v, File(v)>> \in race => <<v, File(v)>> \in race'
      BY <2>2
    <3> QED BY <2>1, <3>3, <3>4, <3>5, <3>6 DEF Guarded
  <2>4. CASE pc[v] \notin {"replace", "restoreReplace"}
    BY <2>1, <2>4 DEF Guarded
  <2> QED BY <2>3, <2>4
<1>5. ASSUME Disturb, NEW v \in Workers PROVE Guarded(v)'
  BY <1>5 DEF Disturb, Guarded, File, files, local, history
<1>6. ASSUME PowerLoss, NEW v \in Workers PROVE Guarded(v)'
  BY <1>6 DEF PowerLoss, Guarded
<1>7. lost' = {}
  <2>1. ASSUME NEW w \in Workers, Start(w) \/ Step(w) PROVE lost' = {}
    BY <1>0, <1>1, <2>1, RaceStep
  <2>2. ASSUME NEW w \in Workers, Stops(w) PROVE lost' = {}
    BY <1>1, <2>2 DEF Stops
  <2>3. ASSUME (\E p \in Paths : Edit(p)) \/ Disturb \/ PowerLoss PROVE lost' = {}
    BY <1>1, <2>3 DEF Edit, Disturb, PowerLoss, history
  <2> QED BY <2>1, <2>2, <2>3, FaultOrCrashStops DEF Next
<1> QED BY <1>2, <1>3, <1>4, <1>5, <1>6, <1>7, FaultOrCrashStops DEF Next, EditsSurvive

-----------------------------------------------------------------------------
(***************************************************************************)
(* Changes after a terminal snapshot.                                      *)
(***************************************************************************)
\* Whoever looks at the journal does so for a snapshot that is not terminal.
LEMMA InspectsActive ==
  ASSUME TypeOK, \A v \in Workers : Placed(v) /\ Held(v), ClaimInv,
         NEW w \in Workers, pc[w] \in InspectPCs, tip.state \in TerminalStates
  PROVE  cur[w].state \notin TerminalStates
<1>1. pc[w] \notin PreparingPCs
  BY PreparingAlone DEF TerminalStates
<1>2. CASE w \in Executors
  <2>1. pc[w] \in ExecutingPCs
    BY <1>2, KindsOfWorkers DEF Placed, InspectPCs, ExecutingPCs, PreparingPCs, RestoringPCs
  <2> QED BY <1>2, <2>1 DEF Held, TerminalStates
<1>3. CASE w \in Rollbackers
  <2>1. pc[w] \in RestoringPCs \/ pc[w] = "replan"
    BY <1>3, KindsOfWorkers DEF Placed, InspectPCs, ExecutingPCs, PreparingPCs, RestoringPCs
  <2> QED BY <1>3, <2>1 DEF Held, TerminalStates, ActiveStates
<1>4. w \notin Preparers
  BY <1>1, KindsOfWorkers DEF Placed, InspectPCs, PreparingPCs
<1> QED BY <1>2, <1>3, <1>4, KindsOfWorkers

LEMMA LateChange ==
  ASSUME TypeOK, NEW w \in Workers, Placed(w), Start(w) \/ Step(w)
  PROVE  \/ late' = late
         \/ /\ TouchesFiles(w) /\ Wrote(w) /\ tip.state \in TerminalStates
            /\ late' = [late EXCEPT ![w] = @ \cup {File(w)}]
<1>1. CASE Start(w) \/ Looks(w) \/ Drops(w) \/ GoesOn(w) \/ FailClosed(w)
  BY <1>1, QuietSteps DEF Quietly, history
<1>2. CASE Appends(w)
  BY <1>2, AppendsType DEF Appended, history
<1>3. CASE Breaks(w)
  BY <1>3 DEF Breaks, AppendBroken
<1>4. CASE ConsumeApproval(w) \/ CertifyPreparation(w)
  BY <1>4 DEF ConsumeApproval, CertifyPreparation, history
<1>5. CASE SyncTemp(w) \/ SyncInstall(w) \/ SyncStep(w) \/ SyncStage(w)
  BY <1>5 DEF SyncTemp, SyncInstall, SyncStep, SyncStage, history
<1>6. CASE \/ OpenTemp(w) \/ WriteTemp(w) \/ UnlinkTemp(w) \/ StagePreimage(w)
           \/ ReplaceDestination(w) \/ RestorePreimage(w)
  <2>1. \/ late' = late
        \/ /\ tip.state \in TerminalStates
           /\ late' = [late EXCEPT ![w] = @ \cup {File(w)}]
           /\ pc'[w] \notin {"idle", "failing"} /\ pc[w] \notin {"syncTemp", "sync", "syncStage"}
    BY <1>6 DEF OpenTemp, WriteTemp, UnlinkTemp, StagePreimage, ReplaceDestination,
                RestorePreimage, Overwrite, Change, Go, TypeOK
  <2>2. TouchesFiles(w)
    BY <1>6 DEF TouchesFiles
  <2>3. \/ pc'[w] \in {"idle", "failing"}
        \/ Wrote(w)
        \/ pc[w] \in {"syncTemp", "sync", "syncStage"}
    BY <2>2, TouchForms DEF Synced
  <2> QED BY <2>1, <2>2, <2>3
<1> QED BY <1>1, <1>2, <1>3, <1>4, <1>5, <1>6, StepForms

LEMMA LateAfterStep ==
  ASSUME TypeOK, \A v \in Workers : Placed(v) /\ Held(v) /\ LateOnce(v), ClaimInv,
         NEW w \in Workers, Start(w) \/ Step(w),
         tip.state \in TerminalStates, tip' = tip
  PROVE  LateOnce(w)'
<1>0. /\ pc \in [Workers -> PCs] /\ looked \in [Workers -> BOOLEAN]
      /\ idx \in [Workers -> Nat] /\ late \in [Workers -> SUBSET Paths]
      /\ Placed(w) /\ LateOnce(w) /\ tip \in Snapshots
  BY DEF TypeOK, ValidTransaction
<1>1. pc[w] \notin PreparingPCs
  BY PreparingAlone DEF TerminalStates
<1>2. CASE Wrote(w) /\ TouchesFiles(w)
  <2>1. /\ pc[w] \in {"unlink", "stage", "replace", "restoreReplace"}
        /\ pc'[w] \in {"sync", "syncStage"} /\ idx' = idx /\ plan' = plan
    BY <1>1, <1>2 DEF Wrote, Leaves, PreparingPCs
  <2>2. late[w] \subseteq {File(w)}
    BY <1>0, <2>1 DEF LateOnce, InspectPCs, AppendPCs
  <2>3. late'[w] \in {late[w], late[w] \cup {File(w)}}
    BY <1>0, LateChange
  <2>4. File(w)' = File(w)
    BY <2>1 DEF File
  <2> QED BY <2>1, <2>2, <2>3, <2>4 DEF LateOnce
<1>3. CASE ~(Wrote(w) /\ TouchesFiles(w))
  <2>0. late' = late
    BY <1>0, <1>3, LateChange
  <2>1. CASE late[w] = {}
    BY <2>0, <2>1 DEF LateOnce
  <2>2. CASE late[w] # {}
    <3>1. \/ /\ pc[w] \in {"sync", "syncStage", "restoreCheck", "restoreReplace"}
             /\ late[w] = {File(w)}
          \/ pc[w] \in InspectPCs \cup AppendPCs \cup {"idle", "failing"} /\ ~looked[w]
      BY <1>0, <2>2 DEF LateOnce
    <3>2. \E p \in Paths : late[w] = {p}
      <4>1. pc[w] \in {"sync", "syncStage", "restoreCheck", "restoreReplace"} => File(w) \in Paths
        BY <1>0, FileIsPath DEF FilePCs, MovePCs, RestoringPCs
      <4> QED BY <1>0, <2>2, <4>1 DEF LateOnce
    <3>3. ~looked[w]
      BY <1>0, <3>1 DEF Placed, InspectPCs
    <3>d. ASSUME pc'[w] \in InspectPCs \cup AppendPCs \cup {"idle", "failing"}, ~looked'[w]
          PROVE  LateOnce(w)'
      BY <2>0, <3>2, <3>d DEF LateOnce
    <3>4. CASE Start(w)
      <4>1. tip.state = "PREPARED" \/ tip.state \in ActiveStates
        BY <3>4, PreparedType DEF Start, StartPreparing, StartExecuting, StartRollback, Plannable
      <4> QED BY <4>1 DEF TerminalStates, ActiveStates
    <3>5. CASE Looks(w)
      BY <3>5, InspectsActive DEF Looks
    <3>6. CASE Drops(w)
      <4>1. pc'[w] \in {"idle", "failing"} /\ ~looked'[w]
        BY <3>6, TurnedOwn DEF Drops
      <4> QED BY <3>d, <4>1
    <3>7. CASE GoesOn(w)
      <4>1. pc[w] = "restoreCheck" /\ Turned(w, "restoreReplace", idx[w])
        BY <3>1, <3>3, <3>7 DEF GoesOn, InspectPCs, AppendPCs
      <4>2. pc'[w] = "restoreReplace" /\ idx'[w] = idx[w] /\ plan' = plan
        BY <4>1, TurnedOwn
      <4>3. late[w] = {File(w)} /\ File(w)' = File(w)
        BY <3>1, <4>1, <4>2 DEF File, InspectPCs, AppendPCs
      <4> QED BY <2>0, <4>2, <4>3 DEF LateOnce
    <3>8. CASE Appends(w)
      <4>1. \E n, i : Posts(w, n, i)
        BY <3>8 DEF Appends
      <4>2. Transition(tip, Wanted(w))
        BY <4>1, PostsOwn DEF Posts
      <4> QED BY <1>0, <4>2, SuccessorStates
    <3>9. CASE Breaks(w)
      <4>1. Transition(tip, Wanted(w))
        BY <3>9 DEF Breaks, AppendBroken, Appendable
      <4> QED BY <1>0, <4>1, SuccessorStates
    <3>10. CASE FailClosed(w)
      <4>1. tip.state \notin Terminalizes(w)
        BY DEF Terminalizes, TerminalStates, ActiveStates
      <4>2. pc'[w] = "idle" /\ looked' = looked
        BY <1>0, <3>10, <4>1 DEF FailClosed, Go
      <4> QED BY <3>3, <3>d, <4>2
    <3>11. CASE ConsumeApproval(w) \/ CertifyPreparation(w)
      BY <1>1, <3>1, <3>11
         DEF ConsumeApproval, CertifyPreparation, PreparingPCs, InspectPCs, AppendPCs
    <3>12. CASE TouchesFiles(w)
      <4>1. looked' = looked
        BY <3>12 DEF TouchesFiles, OpenTemp, WriteTemp, UnlinkTemp, StagePreimage,
              ReplaceDestination, RestorePreimage, SyncTemp, SyncInstall, SyncStep, SyncStage
      <4>2. CASE pc'[w] \in {"idle", "failing"}
        BY <3>3, <3>d, <4>1, <4>2
      <4>3. CASE Synced(w)
        <5>1. pc[w] \in {"sync", "syncStage"} /\ late[w] = {File(w)}
          BY <1>1, <3>1, <4>3 DEF Synced, PreparingPCs, InspectPCs, AppendPCs
        <5>2. \/ SyncInstall(w) \/ SyncStep(w) \/ SyncStage(w)
          BY <3>12, <5>1 DEF TouchesFiles, OpenTemp, WriteTemp, UnlinkTemp, StagePreimage,
                ReplaceDestination, RestorePreimage, SyncTemp
        <5>3. CASE SyncInstall(w)
          <6>1. pc'[w] = "reexamine"
            BY <1>0, <5>3 DEF SyncInstall, Go
          <6> QED BY <3>3, <3>d, <4>1, <6>1 DEF InspectPCs
        <5>4. CASE SyncStep(w)
          <6>1. w \in Rollbackers /\ pc[w] = "sync" /\ pc'[w] = NextStep(w)
            BY <1>0, <5>4 DEF SyncStep, Go
          <6>2. NextStep(w) \in InspectPCs \cup AppendPCs
            BY <1>0, <6>1, NextStepPC DEF RollPCs, RestoringPCs, InspectPCs, AppendPCs
          <6> QED BY <3>3, <3>d, <4>1, <6>1, <6>2
        <5>5. CASE SyncStage(w)
          <6>1. pc'[w] = "restoreCheck" /\ File(w)' = File(w)
            BY <1>0, <5>5 DEF SyncStage, Go, local, File
          <6> QED BY <2>0, <5>1, <6>1 DEF LateOnce
        <5> QED BY <5>2, <5>3, <5>4, <5>5
      <4> QED BY <1>0, <1>3, <3>12, <4>2, <4>3, TouchForms
    <3> QED BY <1>0, <3>4, <3>5, <3>6, <3>7, <3>8, <3>9, <3>10, <3>11, <3>12, StepForms
            DEF TouchesFiles
  <2> QED BY <2>1, <2>2
<1> QED BY <1>2, <1>3

LEMMA LateStep ==
  ASSUME TypeOK, \A v \in Workers : Placed(v) /\ Held(v) /\ LateOnce(v), ClaimInv,
         Next, ~PowerLoss
  PROVE  \A v \in Workers : LateOnce(v)'
<1>0. late \in [Workers -> SUBSET Paths] /\ \A v \in Workers : Placed(v)
  BY DEF TypeOK
<1>1. tip.state \in TerminalStates => tip' = tip
  BY NotPreparedAgain
<1>2. ASSUME NEW w \in Workers, Start(w) \/ Step(w), NEW v \in Workers PROVE LateOnce(v)'
  <2>1. CASE tip.state \notin TerminalStates
    <3>1. late'[v] = {}
      BY <1>0, <1>2, <2>1, LateChange DEF LateOnce
    <3> QED BY <3>1 DEF LateOnce
  <2>2. CASE tip.state \in TerminalStates /\ v # w
    <3>1. SameWorker(v) /\ File(v)' = File(v)
      BY <1>2, <2>2, OthersStay DEF SameWorker, File
    <3>2. late'[v] = late[v]
      BY <1>0, <1>2, <2>2, LateChange
    <3>3. LateOnce(v) /\ tip' = tip
      BY <1>1, <2>2
    <3> QED BY <3>1, <3>2, <3>3 DEF LateOnce, SameWorker
  <2>3. CASE tip.state \in TerminalStates /\ v = w
    BY <1>1, <1>2, <2>3, LateAfterStep
  <2> QED BY <2>1, <2>2, <2>3
<1>3. ASSUME NEW w \in Workers, Stops(w), NEW v \in Workers PROVE LateOnce(v)'
  <2>1. /\ late' = late /\ tip' = tip /\ File(v)' = File(v)
    BY <1>3 DEF Stops, journal, local, File
  <2>2. /\ v # w => pc'[v] = pc[v] /\ looked'[v] = looked[v]
        /\ v = w => pc'[v] \in {"idle", "failing"} /\ ~looked'[v]
    BY <1>3 DEF Stops, TypeOK
  <2>3. late[v] # {} => \E p \in Paths : late[v] = {p}
    <3>1. pc[v] \in {"sync", "syncStage", "restoreCheck", "restoreReplace"} => File(v) \in Paths
      BY <1>0, FileIsPath DEF FilePCs, MovePCs, RestoringPCs
    <3> QED BY <3>1 DEF LateOnce
  <2> QED BY <2>1, <2>2, <2>3 DEF LateOnce
<1>4. ASSUME (\E p \in Paths : Edit(p)) \/ Disturb, NEW v \in Workers PROVE LateOnce(v)'
  <2>1. /\ late' = late /\ tip' = tip /\ File(v)' = File(v) /\ pc' = pc /\ looked' = looked
    BY <1>4 DEF Edit, Disturb, journal, local, File, history
  <2> QED BY <2>1 DEF LateOnce
<1> QED BY <1>2, <1>3, <1>4, FaultOrCrashStops DEF Next

-----------------------------------------------------------------------------
(***************************************************************************)
(* One process at a time.                                                  *)
(***************************************************************************)
LEMMA AloneStep ==
  ASSUME TypeOK, \A v \in Workers : Placed(v), scene.alone,
         \A v \in Workers : Alone(v), Next
  PROVE  \A v \in Workers : Alone(v)'
<1>0. /\ pc \in [Workers -> PCs] /\ cur \in [Workers -> Snapshots]
  BY DEF TypeOK
<1>1. ASSUME NEW w \in Workers, \A v \in Workers \ {w} : pc[v] = "idle" /\ pc'[v] = "idle",
             pc'[w] \in {"idle", "failing"} \/ cur'[w] = tip', NEW v \in Workers
      PROVE  Alone(v)'
  BY <1>1 DEF Alone
<1>2. ASSUME NEW w \in Workers, Start(w) \/ Step(w) PROVE \A v \in Workers : Alone(v)'
  <2>1. \A v \in Workers \ {w} : pc[v] = "idle"
    <3>1. CASE Start(w)
      BY <3>1 DEF Start, Quiet
    <3>2. CASE pc[w] # "idle"
      BY <3>2 DEF Alone
    <3>3. Step(w) => pc[w] # "idle"
      BY DEF Step, Prepare, Execute, Rollback, Terminalize, ConsumeApproval, RecheckTarget,
             OpenTemp, WriteTemp, SyncTemp, SurveyTarget, CertifyPreparation, InspectAt,
             AppendAt, AppendApplying, ExamineBefore, CheckInstall, ReplaceDestination,
             SyncInstall, ExamineAfter, AppendInstalled, AppendVerifying, VerifyInstalled,
             AppendVerified, FinalInspection, AppendCompleted, RequireExactPlan,
             AppendRollingBack, ObserveReconcile, AppendReconciled, ObserveTemp,
             CheckRemove, UnlinkTemp, SyncStep, ObserveInstalled, StagePreimage,
             SyncStage, CheckRestore, RestorePreimage, ObserveRestored, AppendRestored,
             RequireFinishReady, AppendRolledBack, ConfirmRolledBack, FailClosed,
             AppendRecoveryRequired
    <3> QED BY <1>2, <3>1, <3>2, <3>3
  <2>2. \A v \in Workers \ {w} : pc'[v] = "idle"
    BY <1>2, <2>1, OthersStay DEF SameWorker
  <2>3. pc'[w] \in {"idle", "failing"} \/ cur'[w] = tip'
    <3>1. CASE Start(w)
      BY <1>0, <3>1 DEF Start, StartPreparing, StartExecuting, StartRollback, journal
    <3>2. CASE Looks(w)
      BY <3>2 DEF Looks, local, journal
    <3>3. CASE Drops(w)
      BY <3>3, TurnedOwn DEF Drops
    <3>4. CASE GoesOn(w)
      <4>1. /\ pc[w] \notin {"idle", "failing"} /\ \E n, i : Turned(w, n, i)
        BY <3>4 DEF GoesOn
      <4> QED BY <4>1, TurnedOwn DEF Alone
    <3>5. CASE Appends(w)
      BY <3>5, AppendsType, PostsOwn
    <3>6. CASE Breaks(w)
      BY <1>0, <3>6 DEF Breaks, AppendBroken, Go, OnFailure
    <3>7. CASE FailClosed(w)
      BY <1>0, <3>7 DEF FailClosed, Go, journal
    <3>8. CASE ConsumeApproval(w) \/ CertifyPreparation(w)
      <4>1. pc[w] \notin {"idle", "failing"} /\ cur' = cur /\ tip' = tip
        BY <3>8 DEF ConsumeApproval, CertifyPreparation, journal, local
      <4> QED BY <4>1 DEF Alone
    <3>9. CASE TouchesFiles(w)
      <4>1. pc[w] \notin {"idle", "failing"} /\ cur' = cur /\ tip' = tip
        BY <3>9, TouchForms DEF FilePCs, OrderedPCs, MovePCs, RestoringPCs
      <4> QED BY <4>1 DEF Alone
    <3> QED BY <1>2, <3>1, <3>2, <3>3, <3>4, <3>5, <3>6, <3>7, <3>8, <3>9, StepForms
            DEF TouchesFiles
  <2> QED BY <1>1, <2>1, <2>2, <2>3
<1>3. ASSUME NEW w \in Workers, Stops(w) PROVE \A v \in Workers : Alone(v)'
  <2>1. \A v \in Workers \ {w} : pc[v] = "idle" /\ pc'[v] = pc[v]
    BY <1>3 DEF Stops, TypeOK, Alone
  <2>2. pc'[w] \in {"idle", "failing"}
    BY <1>0, <1>3 DEF Stops
  <2> QED BY <1>1, <2>1, <2>2
<1>4. ASSUME (\E p \in Paths : Edit(p)) \/ Disturb PROVE \A v \in Workers : Alone(v)'
  BY <1>4 DEF Edit, Disturb, Alone, journal, local
<1>5. ASSUME PowerLoss PROVE \A v \in Workers : Alone(v)'
  BY <1>5 DEF PowerLoss, Alone
<1> QED BY <1>2, <1>3, <1>4, <1>5, FaultOrCrashStops DEF Next

-----------------------------------------------------------------------------
(***************************************************************************)
(* A repository that no other program touches.                             *)
(***************************************************************************)
LEMMA CalmSteps ==
  ASSUME TypeOK, Next, Untouched'
  PROVE  \/ \E w \in Workers : Start(w) \/ Step(w) \/ Stops(w)
         \/ PowerLoss
<1>1. ASSUME Spend("edits") PROVE FALSE
  <2>1. spent'.edits = spent.edits + 1
    BY <1>1, SpendType
  <2>2. spent.edits \in Nat
    BY DEF TypeOK
  <2> QED BY <2>1, <2>2 DEF Untouched
<1> QED BY <1>1, FaultOrCrashStops DEF Next, Edit, Disturb

\* The journal moves by appends, which leave the files alone.
LEMMA TipMoves ==
  ASSUME TypeOK, NEW w \in Workers, Placed(w), Start(w) \/ Step(w), tip' # tip
  PROVE  /\ pc[w] \in AppendPCs /\ tip = cur[w] /\ tip' = Wanted(w)
         /\ Transition(tip, tip') /\ fs' = fs /\ safe' = safe
         /\ Appends(w) \/ pc'[w] \in {"idle", "failing"}
         /\ Appends(w) \/ (Breaks(w) /\ loose')
<1>1. ~(Start(w) \/ Looks(w) \/ Drops(w) \/ GoesOn(w) \/ FailClosed(w))
  BY QuietSteps DEF Quietly
<1>2. ~ConsumeApproval(w) /\ ~CertifyPreparation(w)
  BY DEF ConsumeApproval, CertifyPreparation, journal
<1>3. ~TouchesFiles(w)
  BY TouchForms
<1>4. Appends(w) \/ Breaks(w)
  BY <1>1, <1>2, <1>3, StepForms DEF TouchesFiles
<1>5. fs' = fs /\ safe' = safe
  BY <1>3, ElsewhereKept
<1>6. CASE Appends(w)
  BY <1>5, <1>6, AppendsType, PostsOwn
<1>7. CASE Breaks(w)
  <2>1. pc[w] \in AppendPCs /\ AppendBroken(w, Wanted(w))
    BY <1>7 DEF Breaks
  <2>2. tip = cur[w] /\ tip' = Wanted(w) /\ Transition(tip, tip') /\ loose'
    BY <2>1 DEF AppendBroken, Appendable
  <2>3. pc'[w] \in {"idle", "failing"}
    BY <2>1 DEF AppendBroken, Go, OnFailure, TypeOK
  <2> QED BY <1>5, <1>7, <2>1, <2>2, <2>3
<1> QED BY <1>4, <1>6, <1>7

\* Before a rollback only the execution touches files.
LEMMA WhoTouches ==
  ASSUME TypeOK, \A v \in Workers : Placed(v) /\ Held(v), ClaimInv,
         NEW w \in Workers, TouchesFiles(w), tip.state \notin RolledStates, evidence
  PROVE  w \in Executors /\ pc[w] \in {"replace", "sync"}
<1>1. pc[w] \in {"open", "write", "syncTemp", "unlink", "stage", "replace",
                 "restoreReplace", "sync", "syncStage"}
  BY DEF TouchesFiles, OpenTemp, WriteTemp, UnlinkTemp, StagePreimage,
         ReplaceDestination, RestorePreimage, SyncTemp, SyncInstall, SyncStep, SyncStage
<1>2. pc[w] \notin PreparingPCs
  BY PreparingAlone
<1>3. ~(w \in Rollbackers /\ pc[w] \in RestoringPCs)
  BY RollingTip
<1> QED BY <1>1, <1>2, <1>3, WhoWrites DEF PreparingPCs

\* What is installed stays so until a rollback.
LEMMA StaysInstalled ==
  ASSUME TypeOK, \A v \in Workers : Placed(v) /\ Held(v), ClaimInv,
         NEW w \in Workers, Start(w) \/ Step(w),
         tip.state \notin RolledStates, evidence,
         NEW p \in Paths, Installed(fs[p])
  PROVE  Installed(fs'[p]) /\ (Installed(safe[p]) => Installed(safe'[p]))
<1>1. CASE ~TouchesFiles(w)
  BY <1>1, ElsewhereKept
<1>2. CASE TouchesFiles(w)
  <2>1. pc[w] \in {"replace", "sync"}
    BY <1>2, WhoTouches
  <2>2. CASE p # File(w)
    BY <1>2, <2>2, TouchForms
  <2>3. CASE p = File(w)
    BY <1>2, <2>1, <2>3, TouchForms DEF Wrote, Leaves, Synced, Installed
  <2> QED BY <2>2, <2>3
<1> QED BY <1>1, <1>2

\* An execution that goes on holds what it held, unless it appends.
LEMMA HoldsOn ==
  ASSUME TypeOK, NEW w \in Workers, Placed(w), Start(w) \/ Step(w),
         w \in Executors, pc'[w] \in ExecutingPCs, ~Appends(w)
  PROVE  pc[w] \in ExecutingPCs /\ cur'[w] = cur[w]
<1>1. pc[w] \in ExecutingPCs
  BY WaysIn
<1>2. ~Start(w)
  BY <1>1 DEF Start, StartPreparing, StartExecuting, StartRollback, ExecutingPCs
<1>3. CASE Looks(w)
  BY <1>1, <1>3 DEF Looks, local
<1>4. CASE Drops(w) \/ GoesOn(w)
  BY <1>1, <1>4, TurnedOwn DEF Drops, GoesOn
<1>5. CASE Breaks(w)
  BY <1>1, <1>5 DEF Breaks, AppendBroken, local
<1>6. CASE FailClosed(w)
  BY <1>1, <1>6 DEF FailClosed, ExecutingPCs
<1>7. CASE ConsumeApproval(w) \/ CertifyPreparation(w)
  BY <1>1, <1>7 DEF ConsumeApproval, CertifyPreparation, local
<1>8. CASE TouchesFiles(w)
  BY <1>1, <1>8, TouchForms
<1> QED BY <1>1, <1>2, <1>3, <1>4, <1>5, <1>6, <1>7, <1>8, StepForms DEF TouchesFiles

\* From the rename to its record the steps of an execution are in order.
LEMMA WaysToRecord ==
  ASSUME TypeOK, NEW w \in Workers, Placed(w), Start(w) \/ Step(w),
         w \in Executors, pc'[w] \in {"sync", "reexamine", "record"}
  PROVE  /\ File(w)' = File(w) /\ File(w) \in Paths /\ ~Appends(w)
         /\ \/ pc[w] = "replace" /\ pc'[w] = "sync" /\ TouchesFiles(w) /\ Wrote(w)
            \/ pc[w] = "sync" /\ pc'[w] = "reexamine" /\ TouchesFiles(w) /\ Synced(w)
            \/ /\ pc[w] = "reexamine" /\ pc'[w] \in {"reexamine", "record"}
               /\ fs' = fs /\ safe' = safe
<1>0. /\ pc \in [Workers -> PCs] /\ w \notin Rollbackers /\ w \notin Preparers
      /\ idx \in [Workers -> Nat]
  BY KindsOfWorkers DEF TypeOK
<1>1. ~Appends(w)
  <2>1. Appends(w) => pc'[w] \in {"examine", "turn", "verify", "final", "idle", "confirm"}
          \/ pc[w] \in {"enter", "reconciled", "restored"}
    BY PostsOwn DEF Appends, Posts
  <2> QED BY <1>0, <2>1, WhoAppends
<1>2. pc[w] \in ExecutingPCs
  BY <1>1, WaysIn DEF ExecutingPCs
<1> DEFINE Goal ==
      /\ File(w)' = File(w)
      /\ \/ pc[w] = "replace" /\ pc'[w] = "sync" /\ TouchesFiles(w) /\ Wrote(w)
         \/ pc[w] = "sync" /\ pc'[w] = "reexamine" /\ TouchesFiles(w) /\ Synced(w)
         \/ /\ pc[w] = "reexamine" /\ pc'[w] \in {"reexamine", "record"}
            /\ fs' = fs /\ safe' = safe
<1>3. ~Start(w)
  BY <1>0 DEF Start, StartPreparing, StartExecuting, StartRollback, Go
<1>4. ASSUME Looks(w) PROVE Goal
  BY <1>4 DEF Looks, local, files, File, InspectPCs
<1>5. ~Drops(w) /\ ~Breaks(w) /\ ~FailClosed(w) /\ ~ConsumeApproval(w) /\ ~CertifyPreparation(w)
  <2>1. ~Drops(w)
    BY TurnedOwn DEF Drops
  <2> QED BY <1>0, <2>1 DEF Breaks, AppendBroken, OnFailure, FailClosed, ConsumeApproval,
                            CertifyPreparation, Go
<1>6. ASSUME GoesOn(w) PROVE Goal
  <2>1. ~(pc[w] = "replan" /\ Turned(w, NextStep(w), 1))
    BY <1>2 DEF ExecutingPCs
  <2>2. \A n, i : Turned(w, n, i) => pc'[w] = n /\ idx'[w] = i /\ plan' = plan
    BY TurnedOwn
  <2>3. pc[w] = "reexamine" /\ Turned(w, "record", idx[w])
    BY <1>6, <2>1, <2>2 DEF GoesOn
  <2>4. pc'[w] = "record" /\ idx'[w] = idx[w] /\ fs' = fs /\ safe' = safe
    BY <2>2, <2>3 DEF Turned, files
  <2> QED BY <1>0, <2>3, <2>4 DEF File
<1>7. ASSUME TouchesFiles(w) PROVE Goal
  <2>1. pc[w] \in {"replace", "sync"}
    BY <1>0, <1>2, <1>7
       DEF TouchesFiles, OpenTemp, WriteTemp, UnlinkTemp, StagePreimage,
           ReplaceDestination, RestorePreimage, SyncTemp, SyncInstall, SyncStep,
           SyncStage, ExecutingPCs
  <2>2. ReplaceDestination(w) \/ SyncInstall(w)
    BY <1>0, <1>7, <2>1
       DEF TouchesFiles, OpenTemp, WriteTemp, UnlinkTemp, StagePreimage,
           ReplaceDestination, RestorePreimage, SyncTemp, SyncInstall, SyncStep, SyncStage
  <2>3. Wrote(w) \/ Synced(w)
    BY <1>7, TouchForms
  <2>4. CASE ReplaceDestination(w)
    <3>1. pc[w] = "replace" /\ File(w)' = File(w) /\ pc'[w] = "sync"
      BY <1>0, <2>4 DEF ReplaceDestination, local, File, Go, Leave
    <3> QED BY <1>7, <2>3, <3>1 DEF Synced
  <2>5. CASE SyncInstall(w)
    <3>1. pc[w] = "sync" /\ File(w)' = File(w) /\ pc'[w] = "reexamine"
      BY <1>0, <2>5 DEF SyncInstall, local, File, Go
    <3> QED BY <1>7, <2>3, <3>1 DEF Wrote
  <2> QED BY <2>2, <2>4, <2>5
<1>8. Goal
  BY <1>1, <1>3, <1>4, <1>5, <1>6, <1>7, StepForms DEF TouchesFiles
<1>9. File(w) \in Paths
  BY <1>8, FileIsPath DEF FilePCs, OrderedPCs
<1> QED BY <1>1, <1>8, <1>9

\* Only the owner's own appends keep a transaction in execution.
LEMMA OwnerMoves ==
  ASSUME TypeOK, \A v \in Workers : Placed(v) /\ Held(v), ClaimInv,
         NEW w \in Workers, Start(w) \/ Step(w), tip' # tip,
         tip'.state \in {"APPLYING", "VERIFYING", "COMPLETED"}
  PROVE  /\ pc[w] \in {"apply", "record", "turn", "mark", "complete"}
         /\ w \in Executors /\ (pc[w] = "apply" \/ Owner(w))
         /\ \A v \in Executors : pc'[v] \in ExecutingPCs => v = w /\ Appends(w)
<1>0. Placed(w) /\ Held(w)
  OBVIOUS
<1>1. /\ pc[w] \in AppendPCs /\ tip = cur[w] /\ tip' = Wanted(w)
      /\ Appends(w) \/ pc'[w] \in {"idle", "failing"}
  BY <1>0, TipMoves
<1>2. pc[w] \in {"apply", "record", "turn", "mark", "complete"}
  <2>1. pc[w] \in {"reconciled", "restored"} => cur[w].state = "ROLLING_BACK"
    BY <1>0, WhoAppends DEF Held, RestoringPCs
  <2> QED BY <1>0, <1>1, <2>1, WantedState DEF AppendPCs
<1>3. w \in Executors
  BY <1>0, <1>2, WhoAppends
<1>4. pc[w] = "apply" => tip.state = "PREPARED"
  BY <1>0, <1>1, PreparedType DEF Held
<1>5. pc[w] = "apply" \/ Owner(w)
  BY <1>1, <1>2 DEF Owner, ExecutingPCs
<1>6. ASSUME NEW v \in Executors, pc'[v] \in ExecutingPCs PROVE v = w /\ Appends(w)
  <2>1. v \in Workers
    BY DEF Workers
  <2>2. CASE v = w
    BY <1>1, <1>6, <2>2 DEF ExecutingPCs
  <2>3. CASE v # w
    <3>1. pc[v] \in ExecutingPCs
      BY <1>6, <2>1, <2>3, OthersStay DEF SameWorker
    <3> QED BY <1>3, <1>4, <1>5, <2>3, <3>1, ExecutingTip DEF Owner
  <2> QED BY <2>2, <2>3
<1> QED BY <1>2, <1>3, <1>5, <1>6

LEMMA OwnerProgress ==
  ASSUME TypeOK, NEW w \in Workers, Placed(w), Held(w), tip = cur[w], tip' = Wanted(w),
         Transition(tip, tip'),
         pc[w] \in {"apply", "record", "turn", "mark", "complete"},
         NEW p \in Paths, tip'.progress[p] \in {"INSTALLED", "VERIFIED"}
  PROVE  /\ pc[w] # "apply"
         /\ \/ tip.progress[p] \in {"INSTALLED", "VERIFIED"}
            \/ pc[w] = "record" /\ p = File(w)
<1>0. cur[w] \in Snapshots /\ tip \in Snapshots /\ tip.progress \in [Paths -> FileProgressStates]
  BY DEF TypeOK, ValidTransaction, Snapshots
<1>1. CASE pc[w] \in {"apply", "turn", "complete"}
  <2>1. tip'.progress = tip.progress
    BY <1>0, <1>1, WithStateType DEF Wanted, TransactionStates
  <2>2. pc[w] = "apply" => tip.progress[p] = "PENDING"
    BY DEF Held, PreparedTransaction
  <2> QED BY <1>1, <2>1, <2>2
<1>2. CASE pc[w] = "record"
  <2>1. tip' = WithProgress(tip, File(w), "INSTALLED")
    BY <1>2 DEF Wanted
  <2>2. tip'.progress = [tip.progress EXCEPT ![File(w)] = "INSTALLED"]
    BY <1>0, <2>1 DEF WithProgress, Snapshots
  <2> QED BY <1>0, <1>2, <2>2
<1>3. CASE pc[w] = "mark"
  <2>1. tip' = WithProgress(tip, File(w), "VERIFIED")
    BY <1>3 DEF Wanted
  <2>2. tip'.progress = [tip.progress EXCEPT ![File(w)] = "VERIFIED"]
    BY <1>0, <2>1 DEF WithProgress, Snapshots
  <2>3. tip'.progress[p] = "VERIFIED" \/ tip'.progress[p] = tip.progress[p]
    BY <1>0, <2>2
  <2> QED BY <1>3, <2>3 DEF Transition, AllowedProgress
<1> QED BY <1>1, <1>2, <1>3

LEMMA InstallsStep ==
  ASSUME TypeOK, \A v \in Workers : Placed(v) /\ Held(v) /\ Held(v)' /\ Guarded(v),
         ClaimInv, InstallsInv, Next
  PROVE  InstallsInv'
<1>0. \A v \in Workers : Placed(v) /\ Held(v) /\ Guarded(v)
  OBVIOUS
<1>1. SUFFICES ASSUME Untouched' PROVE InstallsInv'
  BY DEF InstallsInv
<1>2. Untouched
  BY <1>0, <1>1, NextGrows DEF Grows
\* While an execution is owned, or completed, its claim stands and no rollback runs.
<1>3. ASSUME tip.state = "COMPLETED" \/ \E v \in Executors : Owner(v)
      PROVE  tip.state \notin RolledStates /\ evidence
  <2>1. ASSUME NEW v \in Executors, Owner(v) PROVE tip.state \in {"APPLYING", "VERIFYING"}
    BY <2>1 DEF Owner, Held, Workers
  <2> QED BY <1>3, <2>1 DEF RolledStates, ClaimInv
<1>4. ASSUME NEW w \in Workers, Start(w) \/ Step(w) PROVE InstallsInv'
  <2>1. \A v \in Workers \ {w} : SameWorker(v) /\ File(v)' = File(v)
    BY <1>4, OthersStay DEF SameWorker, File
  <2>2. CASE tip' = tip
    <3>1. ASSUME NEW v \in Executors, Owner(v)'
          PROVE  Owner(v) /\ (v = w => ~Appends(w))
      <4>1. v \in Workers
        BY DEF Workers
      <4>2. CASE v # w
        BY <2>1, <2>2, <3>1, <4>1, <4>2 DEF Owner, SameWorker
      <4>3. CASE v = w
        <5>1. ~Appends(w)
          <6>1. Appends(w) => \E n, i : Appended(w, Wanted(w), n, i)
            BY <1>0, AppendsType
          <6> QED BY <2>2, <6>1 DEF Appended, Appendable
        <5> QED BY <1>0, <1>4, <2>2, <3>1, <4>3, <5>1, HoldsOn DEF Owner
      <4> QED BY <4>2, <4>3
    <3>2. ASSUME NEW p \in Paths, tip'.progress[p] \in {"INSTALLED", "VERIFIED"},
                 tip'.state = "COMPLETED" \/ \E v \in Executors : Owner(v)'
          PROVE  Installed(fs'[p]) /\ Installed(safe'[p])
      <4>1. tip.state = "COMPLETED" \/ \E v \in Executors : Owner(v)
        BY <2>2, <3>1, <3>2
      <4>2. Installed(fs[p]) /\ Installed(safe[p])
        BY <1>2, <2>2, <3>2, <4>1 DEF InstallsInv
      <4> QED BY <1>0, <1>3, <1>4, <4>1, <4>2, StaysInstalled
    <3>3. ASSUME NEW v \in Executors, Owner(v)', pc'[v] \in {"sync", "reexamine", "record"}
          PROVE  /\ Installed(fs'[File(v)'])
                 /\ pc'[v] \in {"reexamine", "record"} => Installed(safe'[File(v)'])
      <4>0. v \in Workers /\ Owner(v) /\ tip.state \notin RolledStates /\ evidence
        BY <1>3, <3>1, <3>3 DEF Workers
      <4>1. CASE v # w
        <5>1. /\ pc'[v] = pc[v] /\ File(v)' = File(v) /\ File(v) \in Paths
          BY <2>1, <3>3, <4>0, <4>1, FileIsPath DEF SameWorker, FilePCs, OrderedPCs
        <5>2. /\ Installed(fs[File(v)])
              /\ pc[v] \in {"reexamine", "record"} => Installed(safe[File(v)])
          BY <1>2, <3>3, <4>0, <5>1 DEF InstallsInv
        <5> QED BY <1>0, <1>4, <4>0, <5>1, <5>2, StaysInstalled
      <4>2. CASE v = w
        <5>1. /\ File(w)' = File(w) /\ File(w) \in Paths
              /\ \/ pc[w] = "replace" /\ pc'[w] = "sync" /\ TouchesFiles(w) /\ Wrote(w)
                 \/ pc[w] = "sync" /\ pc'[w] = "reexamine" /\ TouchesFiles(w) /\ Synced(w)
                 \/ /\ pc[w] = "reexamine" /\ pc'[w] \in {"reexamine", "record"}
                    /\ fs' = fs /\ safe' = safe
          BY <1>0, <1>4, <3>3, <4>2, WaysToRecord
        <5>2. CASE pc[w] = "replace"
          <6>1. fs[File(w)].temp = "EXACT_TEMP"
            <7>1. fs[File(w)].temp \in Temporaries
              BY <5>1 DEF TypeOK, FileStates
            <7> QED BY <1>0, <5>1, <5>2, <7>1 DEF Wrote, Guarded, Temporaries
          <6> QED BY <4>2, <5>1, <5>2, <6>1 DEF Wrote, Leaves, Installed
        <5>3. CASE pc[w] = "sync"
          <6>1. Installed(fs[File(w)])
            BY <1>2, <3>3, <4>0, <4>2, <5>3 DEF InstallsInv
          <6> QED BY <4>2, <5>1, <5>3, <6>1 DEF Synced
        <5>4. CASE pc[w] = "reexamine"
          <6>1. Installed(fs[File(w)]) /\ Installed(safe[File(w)])
            BY <1>2, <3>3, <4>0, <4>2, <5>4 DEF InstallsInv
          <6> QED BY <4>2, <5>1, <5>4, <6>1
        <5> QED BY <5>1, <5>2, <5>3, <5>4
      <4> QED BY <4>1, <4>2
    <3> QED BY <3>2, <3>3 DEF InstallsInv
  <2>3. CASE tip' # tip
    <3>1. /\ tip = cur[w] /\ tip' = Wanted(w) /\ Transition(tip, tip')
          /\ fs' = fs /\ safe' = safe
      BY <1>0, <1>4, <2>3, TipMoves
    <3>2. CASE tip'.state \notin {"APPLYING", "VERIFYING", "COMPLETED"}
      <4>1. \A v \in Executors : ~Owner(v)'
        BY <3>2 DEF Held, Owner, Workers
      <4> QED BY <3>2, <4>1 DEF InstallsInv
    <3>3. CASE tip'.state \in {"APPLYING", "VERIFYING", "COMPLETED"}
      <4>1. /\ pc[w] \in {"apply", "record", "turn", "mark", "complete"}
            /\ w \in Executors /\ (pc[w] = "apply" \/ Owner(w))
            /\ \A v \in Executors : pc'[v] \in ExecutingPCs => v = w /\ Appends(w)
        BY <1>0, <1>4, <2>3, <3>3, OwnerMoves
      <4>2. ASSUME NEW p \in Paths, tip'.progress[p] \in {"INSTALLED", "VERIFIED"}
            PROVE  Installed(fs'[p]) /\ Installed(safe'[p])
        <5>1. /\ pc[w] # "apply"
              /\ \/ tip.progress[p] \in {"INSTALLED", "VERIFIED"}
                 \/ pc[w] = "record" /\ p = File(w)
          BY <1>0, <3>1, <4>1, <4>2, OwnerProgress
        <5>2. Owner(w)
          BY <4>1, <5>1
        <5> QED BY <1>2, <3>1, <4>1, <5>1, <5>2 DEF InstallsInv
      <4>3. ASSUME NEW v \in Executors, Owner(v)' PROVE pc'[v] \notin {"sync", "reexamine", "record"}
        <5>1. v = w /\ Appends(w)
          BY <4>1, <4>3 DEF Owner
        <5>2. pc'[w] \in {"examine", "turn", "verify", "final", "idle"}
          BY <4>1, <5>1, PostsOwn DEF Appends, Posts
        <5> QED BY <5>1, <5>2
      <4> QED BY <4>2, <4>3 DEF InstallsInv
    <3> QED BY <3>2, <3>3
  <2> QED BY <2>2, <2>3
<1>5. ASSUME NEW w \in Workers, Stops(w) PROVE InstallsInv'
  <2>1. /\ tip' = tip /\ fs' = fs /\ safe' = safe
        /\ \A v \in Workers : File(v)' = File(v) /\ cur'[v] = cur[v]
        /\ \A v \in Workers : pc'[v] = pc[v] \/ pc'[v] \in {"idle", "failing"}
    BY <1>5 DEF Stops, TypeOK, journal, files, local, File
  <2>2. \A v \in Executors : Owner(v)' => Owner(v) /\ pc'[v] = pc[v]
    BY <2>1 DEF Owner, ExecutingPCs, Workers
  <2>3. \A v \in Executors : File(v)' = File(v)
    BY <2>1 DEF Workers
  <2> QED BY <1>2, <2>1, <2>2, <2>3 DEF InstallsInv
<1>6. CASE PowerLoss
  <2>1. /\ fs' \in [Paths -> FileStates] /\ safe' = fs'
        /\ \A p \in Paths : fs'[p] \in AfterLoss(p)
        /\ tip' \in {tip} \cup fallback
    BY <1>6, LossType
  <2>2. \A v \in Executors : ~Owner(v)'
    BY <1>6 DEF PowerLoss, Owner, ExecutingPCs, Workers
  <2>3. tip'.state = "COMPLETED" => tip' = tip
    BY <2>1 DEF ClaimInv, TerminalStates
  <2>4. ASSUME NEW p \in Paths, tip'.state = "COMPLETED",
               tip'.progress[p] \in {"INSTALLED", "VERIFIED"}
        PROVE  Installed(fs'[p]) /\ Installed(safe'[p])
    <3>1. Installed(fs[p]) /\ Installed(safe[p])
      BY <1>2, <2>3, <2>4 DEF InstallsInv
    <3> QED BY <2>1, <3>1 DEF AfterLoss, Installed
  <2> QED BY <2>2, <2>4 DEF InstallsInv
<1> QED BY <1>1, <1>4, <1>5, <1>6, CalmSteps

-----------------------------------------------------------------------------
(***************************************************************************)
(* A preparation, alone before the first APPLYING.                         *)
(***************************************************************************)
LEMMA StrayKept ==
  ASSUME TypeOK, NEW w \in Workers, Placed(w), Start(w) \/ Step(w)
  PROVE  stray' = stray
<1>1. CASE Start(w) \/ Looks(w) \/ Drops(w) \/ GoesOn(w) \/ FailClosed(w)
  BY <1>1, QuietSteps DEF Quietly
<1>2. CASE Appends(w)
  BY <1>2, AppendsType DEF Appended
<1>3. CASE Breaks(w)
  BY <1>3 DEF Breaks, AppendBroken
<1>4. CASE ConsumeApproval(w) \/ CertifyPreparation(w)
  BY <1>4 DEF ConsumeApproval, CertifyPreparation
<1>5. CASE TouchesFiles(w)
  BY <1>5, TouchForms
<1> QED BY <1>1, <1>2, <1>3, <1>4, <1>5, StepForms DEF TouchesFiles

LEMMA TouchPCs ==
  ASSUME NEW w \in Workers, Placed(w), TouchesFiles(w)
  PROVE  /\ pc[w] \in {"open", "write", "unlink", "stage", "replace", "restoreReplace",
                       "syncTemp", "sync", "syncStage"}
         /\ pc[w] \in PreparingPCs \cup ExecutingPCs \cup RestoringPCs
<1>1. pc[w] \in {"open", "write", "unlink", "stage", "replace", "restoreReplace",
                 "syncTemp", "sync", "syncStage"}
  BY DEF TouchesFiles, OpenTemp, WriteTemp, UnlinkTemp, StagePreimage,
         ReplaceDestination, RestorePreimage, SyncTemp, SyncInstall, SyncStep, SyncStage
<1> QED BY <1>1 DEF PreparingPCs, ExecutingPCs, RestoringPCs

\* Without an evidence only the preparation touches files.
LEMMA OnlyPreparation ==
  ASSUME TypeOK, \A v \in Workers : Placed(v) /\ Held(v), ClaimInv,
         NEW w \in Workers, TouchesFiles(w), ~evidence
  PROVE  w \in Preparers /\ pc[w] \in {"open", "write", "syncTemp"}
<1>1. tip.state = "PREPARED"
  BY DEF ClaimInv
<1>2. ~(w \in Executors /\ pc[w] \in ExecutingPCs)
  BY ExecutingTip
<1>3. ~(w \in Rollbackers /\ pc[w] \in RestoringPCs)
  BY <1>1, RollingTip DEF RolledStates
<1> QED BY <1>2, <1>3, TouchPCs, WhoWrites

\* The steps of a preparation are in order.
LEMMA WaysToPrepare ==
  ASSUME TypeOK, NEW w \in Workers, Placed(w), w \in Preparers, Start(w) \/ Step(w),
         pc'[w] \in {"open", "write", "syncTemp", "survey", "certify"}
  PROVE  \/ /\ pc[w] = "recheck" /\ pc'[w] = "open" /\ idx'[w] = 1
            /\ fs' = fs /\ safe' = safe
         \/ /\ pc[w] = "survey" /\ pc'[w] = "certify" /\ PreparedTarget("EXACT_TEMP")
            /\ fs' = fs /\ safe' = safe
         \/ /\ pc[w] = "open" /\ pc'[w] = "write" /\ TouchesFiles(w) /\ Wrote(w)
         \/ /\ pc[w] = "write" /\ pc'[w] = "syncTemp" /\ TouchesFiles(w) /\ Wrote(w)
         \/ /\ pc[w] = "syncTemp" /\ TouchesFiles(w) /\ Synced(w)
            /\ IF LastFile(w) THEN pc'[w] = "survey"
                              ELSE pc'[w] = "open" /\ idx'[w] = idx[w] + 1
<1>0. /\ pc \in [Workers -> PCs] /\ w \notin Rollbackers /\ w \notin Executors
      /\ idx \in [Workers -> Nat]
  BY KindsOfWorkers DEF TypeOK
<1>1. pc[w] \in {"idle", "consume"} \cup PreparingPCs
  BY DEF Placed
<1>2. ~Start(w) /\ ~Looks(w) /\ ~Drops(w) /\ ~Appends(w) /\ ~Breaks(w)
  <2>1. ~Start(w)
    BY <1>0 DEF Start, StartPreparing, StartExecuting, StartRollback, Go
  <2>2. ~Looks(w)
    BY DEF Looks, InspectPCs
  <2>3. ~Drops(w)
    BY TurnedOwn DEF Drops
  <2>4. ~Appends(w) /\ ~Breaks(w)
    BY WhoAppends, AppendsType DEF Breaks
  <2> QED BY <2>1, <2>2, <2>3, <2>4
<1>3. ~FailClosed(w) /\ ~ConsumeApproval(w) /\ ~CertifyPreparation(w)
  BY <1>0 DEF FailClosed, ConsumeApproval, CertifyPreparation, Go
<1>4. CASE GoesOn(w)
  <2>1. \A n, i : Turned(w, n, i) => pc'[w] = n /\ idx'[w] = i /\ fs' = fs /\ safe' = safe
    BY TurnedOwn DEF Turned, files
  <2>2. \/ pc[w] = "recheck" /\ Turned(w, "open", 1)
        \/ pc[w] = "survey" /\ PreparedTarget("EXACT_TEMP") /\ Turned(w, "certify", idx[w])
    BY <1>1, <1>4 DEF GoesOn, PreparingPCs
  <2> QED BY <2>1, <2>2
<1>5. CASE TouchesFiles(w)
  <2>1. OpenTemp(w) \/ WriteTemp(w) \/ SyncTemp(w)
    BY <1>1, <1>5
       DEF TouchesFiles, OpenTemp, WriteTemp, UnlinkTemp, StagePreimage,
           ReplaceDestination, RestorePreimage, SyncTemp, SyncInstall, SyncStep,
           SyncStage, PreparingPCs
  <2>2. Wrote(w) \/ Synced(w)
    BY <1>5, TouchForms
  <2>3. CASE OpenTemp(w)
    BY <1>0, <1>5, <2>2, <2>3 DEF OpenTemp, Go, Synced
  <2>4. CASE WriteTemp(w)
    BY <1>0, <1>5, <2>2, <2>4 DEF WriteTemp, Go, Synced
  <2>5. CASE SyncTemp(w)
    BY <1>0, <1>5, <2>2, <2>5 DEF SyncTemp, Go, Wrote
  <2> QED BY <2>1, <2>3, <2>4, <2>5
<1> QED BY <1>2, <1>3, <1>4, <1>5, StepForms DEF TouchesFiles

LEMMA PreparedStep ==
  ASSUME TypeOK, \A v \in Workers : Placed(v) /\ Held(v), ClaimInv, PreparedInv, Next
  PROVE  PreparedInv'
<1>0. /\ \A v \in Workers : Placed(v) /\ Held(v)
      /\ idx \in [Workers -> Nat]
      /\ \A p \in Paths : fs[p] \in FileStates /\ safe[p] \in FileStates
  BY DEF TypeOK
<1>1. SUFFICES ASSUME Untouched' PROVE PreparedInv'
  BY DEF PreparedInv
<1>2. Untouched /\ (evidence => evidence')
  BY <1>0, <1>1, NextGrows DEF Grows
<1>3. /\ ~stray
      /\ ~evidence => \A p \in Paths : fs[p].dest = "BEFORE" /\ safe[p].dest = "BEFORE"
      /\ \A w \in Preparers :
         /\ pc[w] = "syncTemp" => fs[File(w)].temp = "EXACT_TEMP"
         /\ pc[w] \in {"open", "write", "syncTemp"} =>
              \A j \in DOMAIN FileOrder : j < idx[w] => Ready(safe[FileOrder[j]])
         /\ pc[w] \in {"survey", "certify"} => \A p \in Paths : Ready(safe[p])
         /\ pc[w] = "certify" => \A p \in Paths : Ready(fs[p])
  BY <1>2 DEF PreparedInv
<1>4. ASSUME NEW w \in Workers, Start(w) \/ Step(w) PROVE PreparedInv'
  <2>1. ~stray'
    BY <1>0, <1>3, <1>4, StrayKept
  <2>2. ASSUME ~evidence', NEW p \in Paths PROVE fs'[p].dest = "BEFORE" /\ safe'[p].dest = "BEFORE"
    <3>1. fs[p].dest = "BEFORE" /\ safe[p].dest = "BEFORE" /\ ~evidence
      BY <1>2, <1>3, <2>2
    <3>2. CASE ~TouchesFiles(w)
      BY <1>0, <1>4, <3>1, <3>2, ElsewhereKept
    <3>3. CASE TouchesFiles(w)
      <4>1. pc[w] \in {"open", "write", "syncTemp"}
        BY <1>0, <3>1, <3>3, OnlyPreparation
      <4>2. CASE p # File(w)
        BY <1>0, <3>1, <3>3, <4>2, TouchForms
      <4>3. CASE p = File(w)
        BY <1>0, <3>1, <3>3, <4>1, <4>3, TouchForms DEF Wrote, Leaves, Synced
      <4> QED BY <4>2, <4>3
    <3> QED BY <3>2, <3>3
  <2> DEFINE Progress(v) ==
        /\ pc'[v] = "syncTemp" => fs'[File(v)'].temp = "EXACT_TEMP"
        /\ pc'[v] \in {"open", "write", "syncTemp"} =>
             \A j \in DOMAIN FileOrder : j < idx'[v] => Ready(safe'[FileOrder[j]])
        /\ pc'[v] \in {"survey", "certify"} => \A p \in Paths : Ready(safe'[p])
        /\ pc'[v] = "certify" => \A p \in Paths : Ready(fs'[p])
  <2>3. ASSUME NEW v \in Preparers PROVE Progress(v)
    <3>1. v \in Workers
      BY DEF Workers
    <3>2. CASE pc'[v] \notin {"open", "write", "syncTemp", "survey", "certify"}
      BY <3>2
    <3>3. CASE v # w /\ pc'[v] \in {"open", "write", "syncTemp", "survey", "certify"}
      <4>1. SameWorker(v) /\ File(v)' = File(v)
        BY <1>4, <3>1, <3>3, OthersStay DEF SameWorker, File
      <4>2. ~TouchesFiles(w)
        <5>1. pc[v] \in PreparingPCs
          BY <3>3, <4>1 DEF SameWorker, PreparingPCs
        <5> QED BY <1>0, <3>1, <3>3, <5>1, PreparingAlone, TouchPCs
      <4>3. fs' = fs /\ safe' = safe
        BY <1>0, <1>4, <4>2, ElsewhereKept
      <4> QED BY <1>3, <4>1, <4>3 DEF SameWorker
    <3>4. CASE v = w /\ pc'[v] \in {"open", "write", "syncTemp", "survey", "certify"}
      <4>1. \/ /\ pc[w] = "recheck" /\ pc'[w] = "open" /\ idx'[w] = 1
               /\ fs' = fs /\ safe' = safe
            \/ /\ pc[w] = "survey" /\ pc'[w] = "certify" /\ PreparedTarget("EXACT_TEMP")
               /\ fs' = fs /\ safe' = safe
            \/ /\ pc[w] = "open" /\ pc'[w] = "write" /\ TouchesFiles(w) /\ Wrote(w)
            \/ /\ pc[w] = "write" /\ pc'[w] = "syncTemp" /\ TouchesFiles(w) /\ Wrote(w)
            \/ /\ pc[w] = "syncTemp" /\ TouchesFiles(w) /\ Synced(w)
               /\ IF LastFile(w) THEN pc'[w] = "survey"
                                 ELSE pc'[w] = "open" /\ idx'[w] = idx[w] + 1
        BY <1>0, <1>4, <3>1, <3>4, WaysToPrepare
      <4>2. CASE pc[w] = "recheck"
        BY <3>4, <4>1, <4>2, OrderFacts
      <4>3. CASE pc[w] = "survey"
        BY <1>3, <3>4, <4>1, <4>3 DEF PreparedTarget, At, Ready
      <4>4. CASE pc[w] \in {"open", "write"}
        <5>1. /\ safe' = safe /\ idx' = idx /\ plan' = plan
              /\ pc[w] = "write" => fs'[File(w)].temp = "EXACT_TEMP"
          BY <4>1, <4>4 DEF Wrote, Leaves
        <5>2. File(w)' = File(w)
          BY <5>1 DEF File
        <5> QED BY <1>3, <3>4, <4>1, <4>4, <5>1, <5>2
      <4>5. CASE pc[w] = "syncTemp"
        <5>1. ~evidence
          BY <1>0, <3>1, <3>4, <4>5, PreparingAlone DEF PreparingPCs
        <5>2. /\ idx[w] \in DOMAIN FileOrder /\ File(w) = FileOrder[idx[w]]
              /\ w \notin Rollbackers
          BY <1>0, <3>1, <3>4, <4>5, KindsOfWorkers DEF Placed, OrderedPCs, File
        <5>3. File(w) \in Paths /\ Ready(fs[File(w)])
          BY <1>3, <3>4, <4>5, <5>1, <5>2, OrderFacts DEF Ready
        <5>4. /\ safe'[File(w)] = fs[File(w)]
              /\ \A q \in Paths \ {File(w)} : safe'[q] = safe[q]
          BY <1>0, <4>1, <4>5, TouchForms DEF Synced
        <5>5. \A j \in DOMAIN FileOrder : j <= idx[w] => Ready(safe'[FileOrder[j]])
          <6>1. SUFFICES ASSUME NEW j \in DOMAIN FileOrder, j <= idx[w]
                         PROVE  Ready(safe'[FileOrder[j]])
            OBVIOUS
          <6>2. CASE FileOrder[j] = File(w)
            BY <5>3, <5>4, <6>2
          <6>3. CASE FileOrder[j] # File(w)
            <7>1. j < idx[w] /\ FileOrder[j] \in Paths
              BY <5>2, <6>1, <6>3, OrderFacts
            <7>2. Ready(safe[FileOrder[j]])
              BY <1>3, <3>4, <4>5, <7>1
            <7> QED BY <5>4, <6>3, <7>1, <7>2
          <6> QED BY <6>2, <6>3
        <5>6. CASE LastFile(w)
          <6>1. \A p \in Paths : \E j \in DOMAIN FileOrder : FileOrder[j] = p /\ j <= idx[w]
            BY <5>6, OrderFacts, FileOrderAssumption DEF LastFile
          <6>2. \A p \in Paths : Ready(safe'[p])
            BY <5>5, <6>1
          <6> QED BY <3>4, <4>1, <4>5, <5>6, <6>2
        <5>7. CASE ~LastFile(w)
          <6>1. \A j \in DOMAIN FileOrder : j < idx'[w] => j <= idx[w]
            BY <4>1, <4>5, <5>2, <5>7, OrderFacts
          <6> QED BY <3>4, <4>1, <4>5, <5>5, <5>7, <6>1
        <5> QED BY <5>6, <5>7
      <4> QED BY <4>1, <4>2, <4>3, <4>4, <4>5
    <3> QED BY <3>2, <3>3, <3>4
  <2> QED BY <2>1, <2>2, <2>3 DEF PreparedInv
<1>5. ASSUME NEW w \in Workers, Stops(w) PROVE PreparedInv'
  <2>1. /\ fs' = fs /\ safe' = safe /\ stray' = stray /\ evidence' = evidence
        /\ \A v \in Workers : File(v)' = File(v) /\ idx'[v] = idx[v]
        /\ \A v \in Workers : pc'[v] = pc[v] \/ pc'[v] \in {"idle", "failing"}
    BY <1>5 DEF Stops, TypeOK, files, rights, local, File
  <2>2. \A v \in Preparers : v \in Workers
    BY DEF Workers
  <2> QED BY <1>3, <2>1, <2>2 DEF PreparedInv
<1>6. CASE PowerLoss
  <2>1. /\ stray' = stray /\ evidence' = evidence
        /\ \A v \in Preparers : pc'[v] = "idle"
    BY <1>6 DEF PowerLoss, rights, Workers
  <2>2. safe' = fs' /\ \A p \in Paths : fs'[p] \in AfterLoss(p)
    BY <1>6, LossType
  <2>3. ASSUME ~evidence, NEW p \in Paths PROVE fs'[p].dest = "BEFORE"
    <3>1. fs[p].dest = "BEFORE" /\ safe[p].dest = "BEFORE"
      BY <1>3, <2>3
    <3> QED BY <1>0, <2>2, <3>1 DEF AfterLoss, FileStates
  <2> QED BY <1>3, <2>1, <2>2, <2>3 DEF PreparedInv
<1> QED BY <1>1, <1>4, <1>5, <1>6, CalmSteps

-----------------------------------------------------------------------------
(***************************************************************************)
(* The journal and the disk.                                               *)
(***************************************************************************)
LEMMA BackedSame ==
  ASSUME NEW t, NEW p, NEW f, NEW g, f.dest = g.dest, f.temp = g.temp, Backed(t, p, f)
  PROVE  Backed(t, p, g)
BY DEF Backed, Ready, Installed, Restored

\* A snapshot is only appended when the file shows what it says.
LEMMA WantedBacked ==
  ASSUME TypeOK, NEW w \in Workers, Placed(w), Held(w), pc[w] \in AppendPCs,
         tip = cur[w], Transition(tip, Wanted(w)),
         NEW p \in Paths, NEW f, Backed(tip, p, f),
         pc[w] \in {"record", "reconciled"} /\ p = File(w) => ~Ready(f),
         pc[w] = "restored" /\ p = File(w) => Restored(f),
         pc[w] = "finished" => Restored(f)
  PROVE  Backed(Wanted(w), p, f)
<1> DEFINE u == Wanted(w)
<1>0. /\ cur[w] \in Snapshots /\ tip \in Snapshots
      /\ tip.progress \in [Paths -> FileProgressStates]
  BY DEF TypeOK, ValidTransaction, Snapshots
<1>1. CASE pc[w] \in {"apply", "turn", "complete", "enter", "finished", "terminalize"}
  <2>1. u.progress = tip.progress
    BY <1>0, <1>1, WithStateType DEF Wanted, TransactionStates
  <2>2. /\ pc[w] = "apply" => u.state = "APPLYING" /\ tip.state = "PREPARED"
        /\ pc[w] = "turn" => u.state = "VERIFYING"
        /\ pc[w] = "complete" => u.state = "COMPLETED"
        /\ pc[w] \in {"turn", "complete"} => tip.state \in {"APPLYING", "VERIFYING"}
        /\ pc[w] = "enter" => u.state = "ROLLING_BACK"
        /\ pc[w] = "finished" => u.state = "ROLLED_BACK"
        /\ pc[w] = "terminalize" => u.state = "RECOVERY_REQUIRED"
    BY WantedState, PreparedType, WhoAppends DEF Held, ExecutingPCs
  <2> QED BY <1>1, <2>1, <2>2 DEF Backed, Ready, Restored, Installed
<1>2. CASE pc[w] \in {"record", "mark", "reconciled", "restored"}
  <2>1. u.state = tip.state
    BY <1>2, WantedState
  <2>2. tip.state \in {"APPLYING", "VERIFYING", "ROLLING_BACK"}
    BY <1>2, WhoAppends DEF Held, ExecutingPCs, RestoringPCs
  <2> DEFINE x == IF pc[w] = "mark" THEN "VERIFIED"
                  ELSE IF pc[w] = "restored" THEN "RESTORED" ELSE "INSTALLED"
  <2>3. u = WithProgress(tip, File(w), x)
    BY <1>2 DEF Wanted
  <2>4. u.progress = [tip.progress EXCEPT ![File(w)] = x]
    BY <1>0, <2>3 DEF WithProgress, Snapshots
  <2>5. CASE p # File(w)
    BY <1>0, <2>1, <2>4, <2>5 DEF Backed
  <2>6. CASE p = File(w)
    <3>1. u.progress[p] = x
      BY <1>0, <2>4, <2>6
    <3>2. pc[w] = "mark" => tip.progress[p] \in {"INSTALLED", "VERIFIED"}
      BY <3>1 DEF Transition, AllowedProgress
    <3>3. x \in {"INSTALLED", "VERIFIED"} => ~Ready(f)
      BY <1>2, <2>6, <3>2 DEF Backed
    <3>4. x = "RESTORED" => Restored(f)
      BY <2>6
    <3> QED BY <2>1, <2>2, <3>1, <3>3, <3>4 DEF Backed
  <2> QED BY <2>5, <2>6
<1> QED BY <1>1, <1>2 DEF AppendPCs

WitnessPCs ==
  {"sync", "reexamine", "record", "reconciled", "restoreReplace", "restored", "finished"}

\* What w is about to report it has seen, unless it has just done it.
LEMMA SeesWhatItReports ==
  ASSUME TypeOK, NEW w \in Workers, Placed(w), Witnessed(w), Start(w) \/ Step(w),
         ~TouchesFiles(w)
  PROVE  Witnessed(w)'
<1>0. /\ pc \in [Workers -> PCs] /\ idx \in [Workers -> Nat]
  BY DEF TypeOK
<1>1. fs' = fs
  BY ElsewhereKept
<1>d. pc'[w] \notin WitnessPCs => Witnessed(w)'
  BY DEF Witnessed, WitnessPCs
<1>2. CASE Start(w)
  <2>1. pc'[w] \in {"consume", "apply", "replan"}
    BY <1>0, <1>2 DEF Start, StartPreparing, StartExecuting, StartRollback, Go
  <2> QED BY <1>d, <2>1 DEF WitnessPCs
<1>3. CASE Looks(w)
  <2>1. pc' = pc /\ File(w)' = File(w)
    BY <1>3 DEF Looks, local, File
  <2> QED BY <1>1, <2>1 DEF Witnessed
<1>4. CASE Drops(w)
  <2>1. pc'[w] \in {"idle", "failing"}
    BY <1>4, TurnedOwn DEF Drops
  <2> QED BY <1>d, <2>1 DEF WitnessPCs
<1>5. CASE GoesOn(w)
  <2>1. ASSUME NEW n, Turned(w, n, idx[w]) PROVE pc'[w] = n /\ File(w)' = File(w)
    BY <1>0, <2>1, TurnedOwn DEF File
  <2>2. CASE pc[w] = "reexamine" /\ Turned(w, "record", idx[w])
    BY <1>1, <2>1, <2>2 DEF Witnessed
  <2>3. CASE pc[w] \in {"reconcile", "unmark"} /\ StepObserved(w)
    <3>1. w \in Rollbackers
      BY <2>3, KindsOfWorkers DEF Placed, PreparingPCs, ExecutingPCs
    <3>2. /\ ThisStep(w) \in FileMoves /\ File(w) = ThisStep(w).path
          /\ pc[w] \in StepPCs(ThisStep(w).kind)
      BY <2>3, <3>1, StepAt DEF RollPCs, MovePCs, RestoringPCs
    <3>3. ThisStep(w).kind = IF pc[w] = "reconcile" THEN "RECONCILE_INSTALLED"
                                                    ELSE "MARK_RESTORED"
      BY <2>3, <3>2, MoveShape DEF StepPCs
    <3>4. At(File(w), IF pc[w] = "reconcile" THEN "AFTER" ELSE "BEFORE", "ABSENT")
      BY <2>3, <3>2, <3>3, MoveShape DEF StepObserved
    <3>5. Turned(w, IF pc[w] = "reconcile" THEN "reconciled" ELSE "restored", idx[w])
      BY <1>5, <2>3 DEF GoesOn
    <3>6. /\ pc'[w] = IF pc[w] = "reconcile" THEN "reconciled" ELSE "restored"
          /\ File(w)' = File(w)
      BY <2>1, <3>5
    <3> QED BY <1>1, <2>3, <3>4, <3>6 DEF Witnessed, At, Ready, Restored
  <2>4. CASE /\ pc[w] = "restoreCheck" /\ fs[File(w)].dest = "AFTER"
             /\ Turned(w, "restoreReplace", idx[w])
    BY <1>1, <2>1, <2>4 DEF Witnessed, Ready
  <2>5. CASE /\ pc[w] = "finish" /\ Plannable(cur[w])
             /\ RollbackPlan(cur[w]) = <<BareStep("FINISH_ROLLBACK")>>
             /\ Turned(w, "finished", idx[w])
    <3>1. \A p \in Paths : At(p, "BEFORE", "ABSENT")
      BY <2>5, OnlyFinishMeansRestored
    <3> QED BY <1>1, <2>1, <2>5, <3>1 DEF Witnessed, At, Restored
  <2>6. CASE pc[w] = "replan" /\ Turned(w, NextStep(w), 1)
    <3>1. /\ w \in Rollbackers /\ idx[w] = 0 /\ WholePlan(plan[w])
      BY <2>6, KindsOfWorkers DEF Placed, PreparingPCs, ExecutingPCs
    <3>2. idx[w] + 1 \in DOMAIN plan[w]
      BY <3>1 DEF WholePlan
    <3>3. NextStep(w) \notin WitnessPCs
      BY <3>1, <3>2, NextStepBegins DEF WitnessPCs
    <3> QED BY <1>d, <2>6, <3>3, TurnedOwn
  <2>7. CASE pc[w] \notin {"reexamine", "reconcile", "unmark", "restoreCheck", "finish", "replan"}
    <3>1. pc'[w] \in {"open", "certify", "check", "replace", "mark", "complete",
                      "unplugCheck", "unlink", "stage"}
      BY <1>5, <2>7, TurnedOwn DEF GoesOn
    <3> QED BY <1>d, <3>1 DEF WitnessPCs
  <2> QED BY <1>5, <2>2, <2>3, <2>4, <2>5, <2>6, <2>7 DEF GoesOn
<1>6. CASE Appends(w)
  <2>1. CASE pc[w] \in {"enter", "reconciled", "restored"}
    <3>1. w \in Rollbackers /\ pc[w] \in RollPCs /\ pc'[w] = NextStep(w)
      BY <1>6, <2>1, PostsOwn, WhoAppends DEF Appends, Posts
    <3>2. NextStep(w) \notin WitnessPCs
      BY <2>1, <3>1, NextStepPC DEF WitnessPCs
    <3> QED BY <1>d, <3>1, <3>2
  <2>2. CASE pc[w] \notin {"enter", "reconciled", "restored"}
    <3>1. pc'[w] \in {"examine", "turn", "verify", "final", "idle", "confirm"}
      BY <1>6, <2>2, PostsOwn DEF Appends, Posts
    <3> QED BY <1>d, <3>1 DEF WitnessPCs
  <2> QED BY <2>1, <2>2
<1>7. CASE Breaks(w) \/ FailClosed(w) \/ ConsumeApproval(w) \/ CertifyPreparation(w)
  <2>1. pc'[w] \in {"idle", "failing", "terminalize", "recheck"}
    BY <1>0, <1>7 DEF Breaks, AppendBroken, OnFailure, FailClosed, ConsumeApproval,
                      CertifyPreparation, Go
  <2> QED BY <1>d, <2>1 DEF WitnessPCs
<1> QED BY <1>2, <1>3, <1>4, <1>5, <1>6, <1>7, StepForms DEF TouchesFiles

\* A file goes from ready to installed to restored, or straight to restored.
LEMMA FilesMoveOn ==
  ASSUME TypeOK, \A v \in Workers : Placed(v) /\ Held(v), ClaimInv, evidence,
         NEW w \in Workers, TouchesFiles(w), Witnessed(w),
         \A q \in Paths : Backed(tip, q, fs[q])
  PROVE  /\ \A q \in Paths :
              /\ Backed(tip, q, fs'[q])
              /\ ~Ready(fs[q]) => ~Ready(fs'[q])
              /\ Restored(fs[q]) => Restored(fs'[q])
         /\ Witnessed(w)'
<1>0. /\ pc \in [Workers -> PCs] /\ Placed(w) /\ tip \in Snapshots
  BY DEF TypeOK, ValidTransaction
<1> DEFINE p == File(w)
<1>1. /\ p \in Paths /\ \A q \in Paths \ {p} : fs'[q] = fs[q]
      /\ \/ /\ fs' = fs /\ safe' = safe
            /\ pc'[w] \in {"idle", "failing"} /\ pc[w] # "sync"
         \/ Wrote(w)
         \/ Synced(w)
  BY <1>0, TouchForms
<1>2. pc[w] \notin PreparingPCs
  BY PreparingAlone
<1>3. pc[w] \in {"unlink", "stage", "replace", "restoreReplace", "sync", "syncStage"}
  BY <1>0, <1>2, TouchPCs DEF PreparingPCs
<1>4. Backed(tip, p, fs[p])
  BY <1>1
<1>5. pc[w] \in {"unlink", "restoreReplace"} => tip.state \in RolledStates
  BY <1>0, RollingTip, WhoWrites
<1>6. pc[w] = "replace" => tip.state # "PREPARED"
  BY <1>0, ExecutingTip, WhoWrites
<1>d. pc'[w] \notin WitnessPCs => Witnessed(w)'
  BY DEF Witnessed, WitnessPCs
<1>7. CASE fs' = fs /\ pc'[w] \in {"idle", "failing"}
  BY <1>7, <1>d DEF WitnessPCs
<1>8. CASE Wrote(w)
  <2>1. /\ \/ Backed(tip, p, fs'[p]) /\ ~Ready(fs'[p]) /\ pc'[w] = "sync"
           \/ /\ fs'[p].dest = fs[p].dest /\ fs'[p].temp = fs[p].temp
              /\ pc'[w] = "syncStage"
        /\ Restored(fs[p]) => Restored(fs'[p])
    <3>1. CASE pc[w] = "unlink"
      <4>1. fs'[p].dest = fs[p].dest /\ fs'[p].temp = "ABSENT" /\ pc'[w] = "sync"
        BY <1>8, <3>1 DEF Wrote, Leaves
      <4> QED BY <1>4, <1>5, <3>1, <4>1 DEF Backed, Ready, Installed, Restored, RolledStates
    <3>2. CASE pc[w] = "stage"
      <4>1. fs'[p].dest = fs[p].dest /\ fs'[p].temp = fs[p].temp /\ pc'[w] = "syncStage"
        BY <1>8, <3>2 DEF Wrote, Leaves
      <4> QED BY <4>1 DEF Restored
    <3>3. CASE pc[w] = "replace"
      <4>1. Ready(fs[p])
        BY <1>4, <1>8, <3>3 DEF Wrote, Backed, Installed, Restored
      <4>2. fs'[p].dest = "AFTER" /\ fs'[p].temp = "ABSENT" /\ pc'[w] = "sync"
        BY <1>8, <3>3, <4>1 DEF Wrote, Leaves, Ready
      <4> QED BY <1>4, <1>6, <3>3, <4>1, <4>2 DEF Backed, Ready, Installed, Restored
    <3>4. CASE pc[w] = "restoreReplace"
      <4>1. ~Ready(fs[p])
        BY <3>4 DEF Witnessed
      <4>2. fs'[p].dest = "BEFORE" /\ fs'[p].temp = fs[p].temp /\ pc'[w] = "sync"
        BY <1>8, <3>4 DEF Wrote, Leaves
      <4> QED BY <1>4, <1>5, <3>4, <4>1, <4>2 DEF Backed, Ready, Installed, Restored, RolledStates
    <3> QED BY <1>3, <1>8, <3>1, <3>2, <3>3, <3>4 DEF Wrote
  <2>2. /\ Backed(tip, p, fs'[p])
        /\ ~Ready(fs[p]) => ~Ready(fs'[p])
        /\ Restored(fs[p]) => Restored(fs'[p])
    <3>1. CASE fs'[p].dest = fs[p].dest /\ fs'[p].temp = fs[p].temp
      BY <1>4, <3>1, BackedSame DEF Ready, Restored
    <3>2. CASE Backed(tip, p, fs'[p]) /\ ~Ready(fs'[p])
      BY <2>1, <3>2
    <3> QED BY <2>1, <3>1, <3>2
  <2>3. Witnessed(w)'
    <3>1. CASE pc'[w] = "sync"
      <4>1. File(w)' = File(w)
        <5>1. idx' = idx /\ plan' = plan
          BY <1>8 DEF Wrote, Leaves
        <5> QED BY <5>1 DEF File
      <4> QED BY <2>1, <3>1, <4>1 DEF Witnessed
    <3>2. CASE pc'[w] = "syncStage"
      BY <1>d, <3>2 DEF WitnessPCs
    <3> QED BY <2>1, <3>1, <3>2
  <2> QED BY <1>1, <2>2, <2>3
<1>9. CASE Synced(w)
  <2>1. fs' = fs /\ pc[w] \in {"sync", "syncStage"}
    BY <1>3, <1>9 DEF Synced
  <2>2. SyncInstall(w) \/ SyncStep(w) \/ SyncStage(w)
    BY <2>1 DEF TouchesFiles, OpenTemp, WriteTemp, UnlinkTemp, StagePreimage,
                ReplaceDestination, RestorePreimage, SyncTemp
  <2>3. CASE SyncInstall(w)
    <3>1. pc[w] = "sync" /\ pc'[w] = "reexamine" /\ File(w)' = File(w)
      BY <1>0, <2>3 DEF SyncInstall, Go, local, File
    <3> QED BY <2>1, <3>1 DEF Witnessed
  <2>4. CASE SyncStep(w)
    <3>1. w \in Rollbackers /\ pc[w] = "sync" /\ pc'[w] = NextStep(w)
      BY <1>0, <2>4 DEF SyncStep, Go
    <3>2. NextStep(w) \notin WitnessPCs
      BY <1>0, <3>1, NextStepPC DEF RollPCs, RestoringPCs, WitnessPCs
    <3> QED BY <1>d, <2>1, <3>1, <3>2
  <2>5. CASE SyncStage(w)
    <3>1. pc'[w] = "restoreCheck"
      BY <1>0, <2>5 DEF SyncStage, Go
    <3> QED BY <1>d, <2>1, <3>1 DEF WitnessPCs
  <2> QED BY <2>2, <2>3, <2>4, <2>5
<1> QED BY <1>1, <1>7, <1>8, <1>9

\* A preparation ends with every file ready and durable.
LEMMA PreparationEnds ==
  ASSUME TypeOK, \A v \in Workers : Placed(v) /\ Held(v), ClaimInv, PreparedInv, Untouched,
         ~evidence, evidence', NEW w \in Workers, Start(w) \/ Step(w)
  PROVE  /\ \A p \in Paths :
              /\ Ready(fs'[p]) /\ Ready(safe'[p])
              /\ Backed(tip', p, fs'[p]) /\ Backed(tip', p, safe'[p]) /\ Settled(p)'
         /\ \A v \in Workers : Witnessed(v)'
<1>1. CertifyPreparation(w)
  BY RightsStep
<1>2. /\ pc[w] = "certify" /\ tip' = tip /\ fs' = fs /\ safe' = safe /\ pc'[w] = "idle"
  BY <1>1 DEF CertifyPreparation, journal, files, Go, TypeOK
<1>3. /\ w \in Preparers /\ tip.state = "PREPARED"
      /\ \A v \in Workers : pc[v] \in PreparingPCs \cup ExecutingPCs \cup RestoringPCs => v = w
  BY <1>2, PreparingAlone DEF PreparingPCs
<1>4. \A p \in Paths : Ready(fs[p]) /\ Ready(safe[p])
  BY <1>2, <1>3 DEF PreparedInv
<1>5. \A p \in Paths : tip.progress[p] = "PENDING"
  BY <1>3 DEF TypeOK, ValidTransaction, StateInvariants, ProgressPermitted
<1>6. \A p \in Paths : Backed(tip, p, fs[p]) /\ Backed(tip, p, safe[p])
  BY <1>3, <1>4, <1>5 DEF Backed, Ready, Restored
<1>7. \A p \in Paths : Settled(p)'
  BY <1>2, <1>4 DEF Settled, Ready
<1>8. ASSUME NEW v \in Workers PROVE Witnessed(v)'
  <2>1. pc'[v] \notin WitnessPCs
    <3>1. v # w => pc'[v] = pc[v]
      BY <1>3, OthersStay DEF SameWorker
    <3> QED BY <1>2, <1>3, <3>1 DEF WitnessPCs, ExecutingPCs, RestoringPCs
  <2> QED BY <2>1 DEF Witnessed, WitnessPCs
<1> QED BY <1>2, <1>4, <1>6, <1>7, <1>8

\* With one process at a time, whatever differs from the disk is the file that
\* this process is about to fsync.
Same(q) == safe[q].dest = fs[q].dest /\ safe[q].temp = fs[q].temp

LEMMA OneUnsynced ==
  ASSUME \A v \in Workers : Alone(v), NEW w \in Workers, pc[w] # "idle",
         NEW q \in Paths, Settled(q)
  PROVE  Same(q) \/ (pc[w] = "sync" /\ File(w) = q)
BY DEF Settled, Same, Alone

\* Only a sync is done from there.
LEMMA SyncsOrStops ==
  ASSUME TypeOK, NEW w \in Workers, Placed(w), Start(w) \/ Step(w), pc[w] = "sync"
  PROVE  TouchesFiles(w) /\ Synced(w)
<1>1. ~Start(w) /\ ~Looks(w) /\ ~Drops(w) /\ ~GoesOn(w)
  BY DEF Start, StartPreparing, StartExecuting, StartRollback, Looks, InspectPCs, Drops,
         GoesOn
<1>2. ~Appends(w) /\ ~Breaks(w) /\ ~FailClosed(w)
  BY DEF Appends, Breaks, FailClosed, AppendPCs
<1>3. ~ConsumeApproval(w) /\ ~CertifyPreparation(w)
  BY DEF ConsumeApproval, CertifyPreparation
<1>4. TouchesFiles(w)
  BY <1>1, <1>2, <1>3, StepForms DEF TouchesFiles
<1> QED BY <1>4, TouchForms DEF Wrote

\* What is durable changes with its fsync only.
LEMMA DiskFollows ==
  ASSUME TypeOK, \A v \in Workers : Placed(v) /\ Alone(v), NEW w \in Workers, pc[w] # "idle",
         pc[w] \notin PreparingPCs, TouchesFiles(w),
         \A q \in Paths : Settled(q) /\ Backed(tip, q, fs'[q]) /\ Backed(tip, q, fs[q])
                          /\ Backed(tip, q, safe[q])
  PROVE  \A q \in Paths : Backed(tip, q, safe'[q]) /\ Settled(q)'
<1> DEFINE p == File(w)
<1>1. /\ p \in Paths /\ \A q \in Paths \ {p} : fs'[q] = fs[q] /\ safe'[q] = safe[q]
      /\ \/ fs' = fs /\ safe' = safe /\ pc[w] # "sync"
         \/ Wrote(w)
         \/ Synced(w)
  BY TouchForms
<1>2. \A q \in Paths \ {p} : Same(q) /\ Backed(tip, q, safe'[q]) /\ Settled(q)'
  <2>1. \A q \in Paths \ {p} : Same(q)
    BY OneUnsynced
  <2> QED BY <1>1, <2>1 DEF Same, Settled
<1>3. CASE fs' = fs /\ safe' = safe /\ pc[w] # "sync"
  <2>1. Same(p)
    BY <1>1, <1>3, OneUnsynced
  <2> QED BY <1>2, <1>3, <2>1 DEF Same, Settled
<1>4. CASE Wrote(w)
  <2>1. safe' = safe /\ idx' = idx /\ plan' = plan /\ pc[w] # "sync"
    BY <1>4 DEF Wrote, Leaves
  <2>2. Same(p)
    BY <1>1, <2>1, OneUnsynced
  <2>3. CASE pc'[w] = "sync"
    <3>1. File(w)' = p
      BY <2>1 DEF File
    <3> QED BY <1>1, <1>2, <2>1, <2>3, <3>1 DEF Settled
  <2>4. CASE fs'[p].dest = fs[p].dest /\ fs'[p].temp = fs[p].temp
    BY <1>1, <1>2, <2>1, <2>2, <2>4 DEF Same, Settled
  <2> QED BY <1>4, <2>3, <2>4 DEF Wrote, Leaves, PreparingPCs
<1>5. CASE Synced(w)
  <2>1. fs' = fs /\ safe'[p] = fs[p]
    BY <1>5 DEF Synced
  <2>2. \A q \in Paths : q = p => Backed(tip, q, safe'[q]) /\ Settled(q)'
    BY <1>1, <2>1 DEF Settled
  <2> QED BY <1>2, <2>2
<1> QED BY <1>1, <1>3, <1>4, <1>5

LEMMA DiskStep ==
  ASSUME TypeOK, \A v \in Workers : Placed(v) /\ Held(v), ClaimInv, PreparedInv, DiskInv,
         scene.alone => \A v \in Workers : Alone(v), Next
  PROVE  DiskInv'
<1>0. /\ \A v \in Workers : Placed(v) /\ Held(v)
      /\ \A v \in Workers : Placed(v)
      /\ pc \in [Workers -> PCs]
  BY DEF TypeOK
<1>1. SUFFICES ASSUME Untouched', NothingLoose', evidence' PROVE DiskInv'
  BY DEF DiskInv
<1>2. /\ Untouched /\ NothingLoose /\ scene' = scene /\ (loose => loose')
  BY <1>0, <1>1, NextGrows DEF Grows
<1>3. ASSUME evidence
      PROVE  /\ \A p \in Paths : Backed(tip, p, fs[p])
             /\ \A v \in Workers : Witnessed(v)
             /\ scene.alone /\ ~loose => \A p \in Paths : Backed(tip, p, safe[p]) /\ Settled(p)
  BY <1>2, <1>3 DEF DiskInv
<1>4. ASSUME NEW w \in Workers, Start(w) \/ Step(w) PROVE DiskInv'
  <2>1. CASE ~evidence
    <3>1. /\ \A p \in Paths :
              /\ Ready(fs'[p]) /\ Ready(safe'[p])
              /\ Backed(tip', p, fs'[p]) /\ Backed(tip', p, safe'[p]) /\ Settled(p)'
          /\ \A v \in Workers : Witnessed(v)'
      BY <1>0, <1>1, <1>2, <1>4, <2>1, PreparationEnds
    <3> QED BY <3>1 DEF DiskInv
  <2>2. CASE evidence /\ TouchesFiles(w)
    <3>1. tip' = tip
      BY <1>0, <2>2, TouchForms
    <3>2. /\ \A q \in Paths :
              /\ Backed(tip, q, fs'[q])
              /\ ~Ready(fs[q]) => ~Ready(fs'[q])
              /\ Restored(fs[q]) => Restored(fs'[q])
          /\ Witnessed(w)'
      BY <1>0, <1>3, <2>2, FilesMoveOn
    <3>3. ASSUME NEW v \in Workers, v # w PROVE Witnessed(v)'
      <4>1. pc'[v] = pc[v] /\ File(v)' = File(v)
        BY <1>4, <3>3, OthersStay DEF SameWorker, File
      <4>2. pc[v] \in WitnessPCs \ {"finished"} => File(v) \in Paths
        BY <1>0, FileIsPath DEF WitnessPCs, FilePCs, OrderedPCs, MovePCs, RestoringPCs
      <4>3. Witnessed(v)
        BY <1>3, <2>2
      <4> QED BY <3>2, <4>1, <4>2, <4>3 DEF Witnessed, WitnessPCs
    <3>4. ASSUME scene'.alone, ~loose', NEW p \in Paths
          PROVE  Backed(tip', p, safe'[p]) /\ Settled(p)'
      <4>1. /\ \A q \in Paths : Backed(tip, q, safe[q]) /\ Settled(q) /\ Backed(tip, q, fs[q])
            /\ \A v \in Workers : Placed(v) /\ Alone(v)
        BY <1>0, <1>2, <1>3, <2>2, <3>4
      <4>2. pc[w] \notin PreparingPCs /\ pc[w] # "idle"
        BY <1>0, <2>2, PreparingAlone, TouchPCs
      <4>3. \A q \in Paths : Backed(tip, q, safe'[q]) /\ Settled(q)'
        BY <2>2, <3>2, <4>1, <4>2, DiskFollows
      <4> QED BY <3>1, <4>3
    <3> QED BY <3>1, <3>2, <3>3, <3>4 DEF DiskInv
  <2>3. CASE evidence /\ ~TouchesFiles(w)
    <3>1. fs' = fs /\ safe' = safe
      BY <1>0, <1>4, <2>3, ElsewhereKept
    <3>2. ASSUME NEW v \in Workers PROVE Witnessed(v)'
      <4>1. Witnessed(v) /\ Witnessed(w)
        BY <1>3, <2>3
      <4>2. CASE v # w
        <5>1. pc'[v] = pc[v] /\ File(v)' = File(v)
          BY <1>4, <4>2, OthersStay DEF SameWorker, File
        <5> QED BY <3>1, <4>1, <5>1 DEF Witnessed
      <4>3. CASE v = w
        BY <1>0, <1>4, <2>3, <4>1, <4>3, SeesWhatItReports
      <4> QED BY <4>2, <4>3
    <3>3. pc[w] # "sync"
      BY <1>0, <1>4, <2>3, SyncsOrStops DEF Start, StartPreparing, StartExecuting, StartRollback
    <3>4. ASSUME scene'.alone, ~loose', NEW p \in Paths PROVE Settled(p)'
      <4>1. Settled(p)
        BY <1>2, <1>3, <2>3, <3>4
      <4>2. \A v \in Workers : pc[v] = "sync" => pc'[v] = "sync" /\ File(v)' = File(v)
        BY <1>4, <3>3, OthersStay DEF SameWorker, File
      <4> QED BY <3>1, <4>1, <4>2 DEF Settled
    <3>5. CASE tip' = tip
      BY <1>2, <1>3, <2>3, <3>1, <3>2, <3>4, <3>5 DEF DiskInv
    <3>6. CASE tip' # tip
      <4>1. /\ pc[w] \in AppendPCs /\ tip = cur[w] /\ tip' = Wanted(w)
            /\ Transition(tip, Wanted(w))
        BY <1>0, <1>4, <3>6, TipMoves
      <4>2. ASSUME NEW p \in Paths PROVE Backed(tip', p, fs'[p])
        <5>1. Backed(tip, p, fs[p]) /\ Witnessed(w)
          BY <1>3, <2>3
        <5>2. /\ pc[w] \in {"record", "reconciled"} /\ p = File(w) => ~Ready(fs[p])
              /\ pc[w] = "restored" /\ p = File(w) => Restored(fs[p])
              /\ pc[w] = "finished" => Restored(fs[p])
          BY <5>1 DEF Witnessed
        <5>3. Backed(Wanted(w), p, fs[p])
          BY <1>0, <4>1, <5>1, <5>2, WantedBacked
        <5> QED BY <3>1, <4>1, <5>3
      <4>3. ASSUME scene'.alone, ~loose', NEW p \in Paths PROVE Backed(tip', p, safe'[p])
        <5>1. Settled(p) /\ \A v \in Workers : Alone(v)
          BY <1>2, <1>3, <2>3, <4>3
        <5>2. Same(p)
          BY <3>3, <4>1, <5>1, OneUnsynced DEF AppendPCs
        <5>3. fs'[p].dest = safe'[p].dest /\ fs'[p].temp = safe'[p].temp
          BY <3>1, <5>2 DEF Same
        <5> QED BY <4>2, <5>3, BackedSame
      <4> QED BY <3>2, <3>4, <4>2, <4>3 DEF DiskInv
    <3> QED BY <3>5, <3>6
  <2> QED BY <2>1, <2>2, <2>3
<1>5. ASSUME NEW w \in Workers, Stops(w) PROVE DiskInv'
  <2>1. /\ fs' = fs /\ safe' = safe /\ tip' = tip /\ evidence' = evidence
        /\ loose' = (loose \/ pc[w] = "sync")
        /\ \A v \in Workers : File(v)' = File(v)
        /\ \A v \in Workers : pc'[v] = pc[v] \/ (v = w /\ pc'[v] \in {"idle", "failing"})
    BY <1>0, <1>5 DEF Stops, files, rights, journal, local, File
  <2>2. \A v \in Workers : Witnessed(v)'
    BY <1>1, <1>3, <2>1 DEF Witnessed
  <2>3. ASSUME scene'.alone, ~loose', NEW p \in Paths
        PROVE  Backed(tip', p, safe'[p]) /\ Settled(p)'
    <3>1. Backed(tip, p, safe[p]) /\ Settled(p)
      BY <1>1, <1>2, <1>3, <2>1, <2>3
    <3>2. pc[w] # "sync"
      BY <2>1, <2>3
    <3> QED BY <2>1, <3>1, <3>2 DEF Settled
  <2> QED BY <1>1, <1>3, <2>1, <2>2, <2>3 DEF DiskInv
<1>6. CASE PowerLoss
  <2>1. /\ safe' = fs' /\ \A p \in Paths : fs'[p] \in AfterLoss(p)
        /\ tip' \in {tip} \cup fallback /\ spent'.losses # 0
    BY <1>6, LossType
  <2>2. evidence /\ loose' = loose /\ \A v \in Workers : pc'[v] = "idle"
    BY <1>1, <1>6 DEF PowerLoss, rights
  <2>3. scene.alone /\ ~loose
    BY <1>1, <1>2, <2>1, <2>2 DEF NothingLoose
  <2>4. tip' = tip
    BY <2>1, <2>3 DEF ClaimInv
  <2>5. ASSUME NEW p \in Paths PROVE Backed(tip, p, fs'[p])
    <3>1. /\ Backed(tip, p, fs[p]) /\ Backed(tip, p, safe[p]) /\ Settled(p)
          /\ \A v \in Workers : Witnessed(v)
      BY <1>3, <2>2, <2>3
    <3>2. ~(fs[p].temp = "EXACT_TEMP" /\ safe[p].temp # "EXACT_TEMP")
      <4>1. SUFFICES ASSUME fs[p].temp = "EXACT_TEMP", safe[p].temp # "EXACT_TEMP" PROVE FALSE
        OBVIOUS
      <4>2. Ready(fs[p])
        BY <3>1, <4>1 DEF Backed, Installed, Restored
      <4> QED BY <3>1, <4>1, <4>2 DEF Settled, Witnessed
    <3> QED BY <2>1, <3>1, <3>2 DEF AfterLoss
  <2>6. \A v \in Workers : Witnessed(v)'
    BY <2>2 DEF Witnessed
  <2>7. \A p \in Paths : Settled(p)'
    BY <2>1 DEF Settled
  <2> QED BY <2>1, <2>4, <2>5, <2>6, <2>7 DEF DiskInv
<1> QED BY <1>1, <1>4, <1>5, <1>6, CalmSteps

-----------------------------------------------------------------------------
LEMMA StutterKeeps ==
  ASSUME PromotionInv, UNCHANGED vars
  PROVE  PromotionInv'
<1>1. /\ UNCHANGED <<tip, readable, fallback, fs, safe, stray, approval, evidence, pc, looked,
                    cur, idx, plan, scene, spent, loose, race, lost, late, installers>>
  BY DEF vars, journal, files, rights, local, bounds, history
<1>2. TypeOK'
  BY <1>1 DEF PromotionInv, TypeOK
<1>3. ClaimInv'
  BY <1>1 DEF PromotionInv, ClaimInv, Holders
<1>4. PreparedInv'
  BY <1>1 DEF PromotionInv, PreparedInv, Untouched, File
<1>5. DiskInv'
  BY <1>1 DEF PromotionInv, DiskInv, Untouched, NothingLoose, Witnessed, Settled, File
<1>6. InstallsInv'
  BY <1>1 DEF PromotionInv, InstallsInv, Untouched, Owner, File
<1>7. \A w \in Workers : Placed(w)' /\ Held(w)' /\ Guarded(w)'
  BY <1>1 DEF PromotionInv, Placed, Held, Guarded, File
<1>8. EditsSurvive'
  BY <1>1 DEF PromotionInv, EditsSurvive
<1>9. spent'.losses = 0 => \A w \in Workers : LateOnce(w)'
  BY <1>1 DEF PromotionInv, LateOnce, File
<1>10. scene'.alone => \A w \in Workers : Alone(w)'
  BY <1>1 DEF PromotionInv, Alone
<1> QED BY <1>2, <1>3, <1>4, <1>5, <1>6, <1>7, <1>8, <1>9, <1>10 DEF PromotionInv

LEMMA NextKeeps ==
  ASSUME PromotionInv, Next
  PROVE  PromotionInv'
<1>0. /\ TypeOK /\ ClaimInv /\ PreparedInv /\ DiskInv /\ InstallsInv /\ EditsSurvive
      /\ \A w \in Workers : Placed(w) /\ Held(w) /\ Guarded(w)
      /\ \A w \in Workers : Placed(w) /\ Held(w)
      /\ \A w \in Workers : Placed(w)
      /\ spent.losses = 0 => \A w \in Workers : LateOnce(w)
      /\ scene.alone => \A w \in Workers : Alone(w)
  BY DEF PromotionInv
<1>1. TypeOK'
  BY <1>0, TypeStep
<1>2. \A w \in Workers : Placed(w)'
  BY <1>0, PlacedStep
<1>3. \A w \in Workers : Held(w)'
  BY <1>0, <1>2, HeldStep
<1>4. ClaimInv'
  BY <1>0, ClaimStep
<1>5. (\A w \in Workers : Guarded(w)') /\ EditsSurvive'
  BY <1>0, GuardedStep
<1>6. PreparedInv'
  BY <1>0, PreparedStep
<1>7. DiskInv'
  BY <1>0, DiskStep
<1>8. InstallsInv'
  BY <1>0, <1>3, InstallsStep
<1>9. Grows
  BY <1>0, NextGrows
<1>10. ASSUME spent'.losses = 0 PROVE \A w \in Workers : LateOnce(w)'
  <2>1. ~PowerLoss
    BY <1>0, <1>10, LossType
  <2>2. \A w \in Workers : Placed(w) /\ Held(w) /\ LateOnce(w)
    BY <1>0, <1>9, <1>10 DEF Grows
  <2> QED BY <1>0, <2>1, <2>2, LateStep
<1>11. ASSUME scene'.alone PROVE \A w \in Workers : Alone(w)'
  <2>1. scene.alone /\ \A w \in Workers : Alone(w)
    BY <1>0, <1>9, <1>11 DEF Grows
  <2> QED BY <1>0, <2>1, AloneStep
<1> QED BY <1>1, <1>2, <1>3, <1>4, <1>5, <1>6, <1>7, <1>8, <1>10, <1>11 DEF PromotionInv

\* The inductive invariant: every worker is somewhere in its call, holds a
\* snapshot that fits and shows what it is about to report; there is one claim;
\* and the files of the transaction only move on.
THEOREM PromotionAlways == Spec => []PromotionInv
<1>1. Init => PromotionInv
  BY InitHolds
<1>2. PromotionInv /\ [Next]_vars => PromotionInv'
  BY NextKeeps, StutterKeeps
<1> QED BY <1>1, <1>2, PTL DEF Spec

-----------------------------------------------------------------------------
(***************************************************************************)
(* What follows.                                                           *)
(***************************************************************************)
LEMMA ClaimedFirst ==
  ASSUME PromotionInv
  PROVE  WriteAhead
<1>1. SUFFICES ASSUME NEW p \in Paths, fs[p].dest = "AFTER"
               PROVE  approval = "consumed" /\ evidence /\ tip.state # "PREPARED"
  BY DEF WriteAhead
<1>2. installers # {} /\ installers \subseteq Holders
  BY <1>1 DEF PromotionInv, ClaimInv, Holders
<1>3. tip.state # "PREPARED"
  BY <1>2 DEF PromotionInv, ClaimInv
<1> QED BY <1>3 DEF PromotionInv, ClaimInv

LEMMA OneHolder ==
  ASSUME PromotionInv
  PROVE  OneInstaller
<1>1. \A v, w \in installers : v = w
  BY DEF PromotionInv, ClaimInv, Holders
<1>2. CASE installers = {}
  BY <1>2, FS_EmptySet DEF OneInstaller
<1>3. CASE installers # {}
  <2>1. PICK w : installers = {w}
    BY <1>1, <1>3
  <2>2. Cardinality(installers) = 1
    BY <2>1, FS_Singleton
  <2> QED BY <2>2 DEF OneInstaller
<1> QED BY <1>2, <1>3

LEMMA LateAtMostOnce ==
  ASSUME PromotionInv
  PROVE  AtMostOneFileLate
<1>1. SUFFICES ASSUME spent.losses = 0, NEW w \in Workers PROVE Cardinality(late[w]) <= 1
  BY DEF AtMostOneFileLate
<1>2. LateOnce(w)
  BY <1>1 DEF PromotionInv
<1>3. CASE late[w] = {}
  BY <1>3, FS_EmptySet
<1>4. CASE late[w] # {}
  <2>1. PICK p : late[w] = {p}
    BY <1>2, <1>4 DEF LateOnce
  <2> QED BY <2>1, FS_Singleton
<1> QED BY <1>3, <1>4

\* A transaction that has left PREPARED has files that the journal speaks of.
LEMMA DiskBacks ==
  ASSUME PromotionInv, Untouched, NothingLoose, tip.state # "PREPARED"
  PROVE  \A p \in Paths :
           /\ Backed(tip, p, fs[p])
           /\ tip.progress[p] \in FileProgressStates
BY DEF PromotionInv, ClaimInv, DiskInv, TypeOK, ValidTransaction, Snapshots

LEMMA JournalSaysNoMore ==
  ASSUME PromotionInv
  PROVE  JournalBacked
<1>1. SUFFICES ASSUME Untouched, NothingLoose, NEW p \in Paths
               PROVE  LET x == tip.progress[p] IN
      /\ x = "RESTORED" => At(p, "BEFORE", "ABSENT")
      /\ x \in {"INSTALLED", "VERIFIED"} /\ tip.state \in {"APPLYING", "VERIFYING"} =>
           At(p, "AFTER", "ABSENT")
      /\ x \in {"INSTALLED", "VERIFIED"} => fs[p].temp = "ABSENT"
      /\ x = "PENDING" /\ tip.state \in ActiveStates =>
           \/ At(p, "BEFORE", "EXACT_TEMP")
           \/ At(p, "AFTER", "ABSENT")
           \/ At(p, "BEFORE", "ABSENT") /\ tip.state = "ROLLING_BACK"
  BY DEF JournalBacked
<1>2. CASE tip.state = "PREPARED"
  <2>1. tip.progress[p] = "PENDING"
    BY <1>2 DEF PromotionInv, TypeOK, ValidTransaction, StateInvariants, ProgressPermitted
  <2> QED BY <1>2, <2>1 DEF ActiveStates
<1>3. CASE tip.state # "PREPARED"
  <2>1. Backed(tip, p, fs[p])
    BY <1>1, <1>3, DiskBacks
  <2> QED BY <2>1 DEF Backed, Ready, Installed, Restored, At, ActiveStates
<1> QED BY <1>2, <1>3

LEMMA OutcomesHold ==
  ASSUME PromotionInv
  PROVE  OutcomeHolds
<1>1. SUFFICES ASSUME Untouched
               PROVE  /\ tip.state = "COMPLETED" => AllAfter
                      /\ tip.state = "ROLLED_BACK" /\ NothingLoose =>
                           \A p \in Paths : At(p, "BEFORE", "ABSENT")
  BY DEF OutcomeHolds
<1>2. ASSUME tip.state = "COMPLETED" PROVE AllAfter
  <2>1. \A p \in Paths : tip.progress[p] = "VERIFIED"
    BY <1>2 DEF PromotionInv, TypeOK, ValidTransaction, StateInvariants, ProgressPermitted
  <2>2. \A p \in Paths : Installed(fs[p])
    BY <1>1, <1>2, <2>1 DEF PromotionInv, InstallsInv
  <2> QED BY <2>2 DEF AllAfter, At, Installed
<1>3. ASSUME tip.state = "ROLLED_BACK", NothingLoose, NEW p \in Paths
      PROVE  At(p, "BEFORE", "ABSENT")
  <2>1. Backed(tip, p, fs[p])
    BY <1>1, <1>3, DiskBacks
  <2> QED BY <1>3, <2>1 DEF Backed, Restored, At
<1> QED BY <1>2, <1>3

LEMMA OutcomesLast ==
  ASSUME PromotionInv
  PROVE  OutcomeIsDurable
<1>1. SUFFICES ASSUME scene.alone, Untouched, ~loose,
                      tip.state \in {"COMPLETED", "ROLLED_BACK"}, NEW p \in Paths
               PROVE  safe[p].dest = fs[p].dest /\ safe[p].temp = fs[p].temp
  BY DEF OutcomeIsDurable
<1>2. Settled(p)
  BY <1>1 DEF PromotionInv, DiskInv, ClaimInv, NothingLoose
<1>3. ASSUME NEW w \in Workers, pc[w] = "sync" PROVE FALSE
  <2>1. cur[w] = tip
    BY <1>1, <1>3 DEF PromotionInv, Alone
  <2>2. Placed(w) /\ Held(w)
    BY DEF PromotionInv
  <2>3. cur[w].state \in {"APPLYING", "VERIFYING", "ROLLING_BACK"}
    BY <1>3, <2>2, WhoWrites DEF Held
  <2> QED BY <1>1, <2>1, <2>3
<1> QED BY <1>2, <1>3 DEF Settled

LEMMA CrashesArePlannable ==
  ASSUME PromotionInv
  PROVE  CrashIsPlannable
<1>1. SUFFICES ASSUME tip.state \in ActiveStates, Untouched, NothingLoose, ~Residue
               PROVE  Plannable(tip)
  BY DEF CrashIsPlannable
<1>2. GitAcceptable
  BY <1>1 DEF GitAcceptable, Residue, PromotionInv, PreparedInv
<1>3. ASSUME NEW p \in Paths PROVE FilePlans(tip, p) # {}
  <2>1. Backed(tip, p, fs[p]) /\ tip.progress[p] \in FileProgressStates
    BY <1>1, DiskBacks DEF ActiveStates
  <2> DEFINE x == tip.progress[p]
  <2>2. CASE Ready(fs[p])
    <3>1. x = "PENDING" /\ At(p, "BEFORE", "EXACT_TEMP")
      BY <2>1, <2>2 DEF Backed, Ready, Restored, At, FileProgressStates
    <3> QED BY <3>1 DEF FilePlans
  <2>3. CASE Installed(fs[p])
    <3>1. At(p, "AFTER", "ABSENT") /\ x \in {"PENDING", "INSTALLED", "VERIFIED"}
      BY <2>1, <2>3 DEF Backed, Installed, Restored, At, FileProgressStates
    <3> QED BY <3>1 DEF FilePlans, At
  <2>4. CASE Restored(fs[p])
    <3>1. At(p, "BEFORE", "ABSENT") /\ tip.state = "ROLLING_BACK"
      BY <1>1, <2>1, <2>4 DEF Backed, Restored, At, ActiveStates
    <3> QED BY <2>1, <3>1 DEF FilePlans, At, FileProgressStates
  <2> QED BY <2>1, <2>2, <2>3, <2>4 DEF Backed
<1> QED BY <1>1, <1>2, <1>3 DEF Plannable

-----------------------------------------------------------------------------
\* No file is renamed before its approval is spent, its preparation certified
\* and its APPLYING durable, in whatever order workers are started, fail and die
\* (prepare_promotion_target and execute_lab_promotion_transaction).
THEOREM PromotionWriteAhead == Spec => []WriteAhead
BY PromotionAlways, ClaimedFirst, PTL

\* Of all executors that are started on one PREPARED snapshot, however many, one
\* at most ever renames a file (the compare-and-append of the journal).
THEOREM PromotionOneInstaller == Spec => []OneInstaller
BY PromotionAlways, OneHolder, PTL

\* Whatever dies or fails, and while no power was lost under an undurable change,
\* every file is in a state that the journal's progress of it allows for
\* (append_promotion_transaction_snapshot after the rename and its fsync).
THEOREM PromotionJournalBacked == Spec => []JournalBacked
BY PromotionAlways, JournalSaysNoMore, PTL

\* COMPLETED and ROLLED_BACK are true of all files when they are appended and
\* stay true while slower workers go on.
THEOREM PromotionOutcomeHolds == Spec => []OutcomeHolds
BY PromotionAlways, OutcomesHold, PTL

\* With one process at a time, all of whose changes were fsynced, no power loss
\* can undo what COMPLETED or ROLLED_BACK says.
THEOREM PromotionOutcomeIsDurable == Spec => []OutcomeIsDurable
BY PromotionAlways, OutcomesLast, PTL

\* A transaction that was left active has a rollback plan, for any number of
\* files, unless a rollback temporary was left behind (build_lab_promotion_rollback_plan).
THEOREM PromotionCrashIsPlannable == Spec => []CrashIsPlannable
BY PromotionAlways, CrashesArePlannable, PTL

\* After a terminal snapshot no worker goes on to a second file: it meets the
\* journal first (_require_step_observation and _require_applied_shape).
THEOREM PromotionAtMostOneFileLate == Spec => []AtMostOneFileLate
BY PromotionAlways, LateAtMostOnce, PTL

\* What another program wrote is only ever renamed over when it was written
\* between a worker's last check of that file and its rename.
THEOREM PromotionEditsSurvive == Spec => []EditsSurvive
<1>1. PromotionInv => EditsSurvive
  BY DEF PromotionInv
<1> QED BY <1>1, PromotionAlways, PTL

\* The inductive invariant with what it says of a recovery, for any scenario.
THEOREM PromotionRecoveryHolds == Spec => []RecoveryHolds
<1>1. PromotionInv => RecoveryHolds
  BY ClaimedFirst, JournalSaysNoMore, CrashesArePlannable DEF RecoveryHolds
<1> QED BY <1>1, PromotionAlways, PTL
=============================================================================
