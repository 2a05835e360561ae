------------------------------ MODULE MCOutside ------------------------------
(***************************************************************************)
(* An instance for TLC of the two modules that read a tree of files which  *)
(* its user changes meanwhile: the intake of a promotion (with one         *)
(* destination and five moves of the user, or with two of each), and the   *)
(* seeding of workspaces (two jobs of one session out of a source tree, or *)
(* two jobs out of a commit each).  They are two parts more of what        *)
(* MCChildren begins, the parts of the world that the program does not     *)
(* control; the variables of the children stay empty here.                 *)
(***************************************************************************)
EXTENDS MCChildren, Sequences, TLC

CONSTANTS
  a, b, m1, m2, p1, p2, p3, s1, s2,
  Destinations, Branches, Contents, IntakeScenarios, Sessions, MaxEdits, SeedScenarios

MCPaths == {p1, p2, p3}
MCContents == {a, b}
MCBranches == {m1, m2}
MCSessions == {s1, s2}
OutsideSymmetry == Permutations(MCContents) \cup Permutations(MCBranches)

MCIntakeScenarios ==
  {[order |-> <<p1>>, commits |-> 2, moves |-> 5],
   [order |-> <<p1, p2>>, commits |-> 2, moves |-> 2]}

MCSeedScenarios ==
  {[order |-> <<p1, p2, p3>>, absent |-> {}, session |-> c1 :> s1 @@ c2 :> s1,
    commitOf |-> <<>>, commits |-> 1],
   [order |-> <<p1, p2>>, absent |-> {p2}, session |-> c1 :> s1 @@ c2 :> s2,
    commitOf |-> c1 :> 1 @@ c2 :> 2, commits |-> 3]}

VARIABLES
  scene, source, trees, commit, branch, index, work, moves, heads, away, missed, phase, first,
  second, at, tracked, content, changed, states, proposal,
  inspected, workspaces, head, edits, moments

Intake == INSTANCE PromotionIntake WITH Scenarios <- IntakeScenarios
Seed   == INSTANCE WorkspaceSeed WITH Scenarios <- SeedScenarios, Names <- Destinations

ASSUME OutsideAssumption == Intake!IntakeAssumption /\ Seed!SeedAssumption

seedOnly == <<inspected, workspaces, head, edits, moments>>
intakeOnly == <<source, commit, branch, index, moves, heads, away, missed, phase, first, second,
                tracked, content, changed, states, proposal>>
children == <<pipes, sandboxOnly, workerOnly, aiderOnly>>
outsideVars == <<part, children, Intake!vars, seedOnly>>

NoChildren == NoPipes /\ NoSandbox /\ NoWorker /\ NoAider
NoSeed ==
  inspected = {} /\ workspaces = {} /\ head = {} /\ edits = {} /\ moments = {}
NoIntake ==
  /\ source = {} /\ commit = {} /\ branch = {} /\ index = {} /\ moves = {} /\ heads = {}
  /\ away = {} /\ missed = {} /\ phase = {} /\ first = {} /\ second = {} /\ tracked = {}
  /\ content = {} /\ changed = {} /\ states = {} /\ proposal = {}

OutsideInit ==
  /\ NoChildren
  /\ \/ part = "intake" /\ Intake!Init /\ NoSeed
     \/ part = "seed" /\ Seed!Init /\ NoIntake

OutsideNext ==
  /\ UNCHANGED <<part, children>>
  /\ \/ part = "intake" /\ Intake!Next /\ UNCHANGED seedOnly
     \/ part = "seed" /\ Seed!Next /\ UNCHANGED intakeOnly

OutsideSpec == OutsideInit /\ [][OutsideNext]_outsideVars

-----------------------------------------------------------------------------
\* What the intake hands to a promotion was the repository's: branch and HEAD of
\* one moment, before-states that the commit of that HEAD holds, and preimages that
\* are these before-states.  Left out is what the looks of a call cannot tell: a
\* branch or a path that was put back, and a HEAD that moved before the last look.
IntakeIsCommitted ==
  part = "intake" =>
    /\ Intake!TypeOK /\ Intake!IntakeInv /\ Intake!HeadIsAMoment
    /\ Intake!ProposalIsCommitted /\ Intake!CollectedIsCommitted

\* A job that is given a workspace has it to itself, with files that its source
\* held at one moment, or with those of its commit.
SeedIsWhole ==
  part = "seed" =>
    /\ Seed!TypeOK /\ Seed!SeedInv /\ Seed!WorkspaceIsItsOwn
    /\ Seed!SeedIsAMoment /\ Seed!SeedIsTheCommit

\* The before-states of a proposal are those of its HEAD, at least where no path
\* was put back.
ProposalMeansClean == part = "intake" => Intake!ProposalIsClean
=============================================================================
