---------------------------- MODULE MCPromotion ----------------------------
(***************************************************************************)
(* Instances of Promotion for TLC: two files, and the casts of workers     *)
(* that the runs put on stage.                                             *)
(***************************************************************************)
EXTENDS Promotion, TLC

CONSTANTS p1, p2, prep, e1, e2, r1, r2

MCPaths == {p1, p2}
MCFileOrder == <<p1, p2>>

OnePreparer == {prep}
TwoExecutors == {e1, e2}
TwoRollbackers == {r1, r2}

OneEach == {prep, e1, r1}

Scenario(cast, alone, faults, crashes, edits, losses) ==
  [cast |-> cast, alone |-> alone, faults |-> faults, crashes |-> crashes,
   edits |-> edits, losses |-> losses]

\* One process for each boundary, one failing call and two deaths.
CrashScenario == {Scenario(OneEach, FALSE, 1, 2, 0, 0)}

\* Two executors with a failing call and a death; two executors and an edit by
\* another program; two rollbackers; and, one process at a time, two failing
\* calls, a death and two power losses.
RaceScenarios ==
  {Scenario(OneEach \cup {e2}, FALSE, 1, 1, 0, 0),
   Scenario(OneEach \cup {e2}, FALSE, 0, 1, 1, 0),
   Scenario(OneEach \cup {r2}, FALSE, 0, 0, 0, 0),
   Scenario(OneEach, TRUE, 2, 1, 0, 2)}

WorkerSymmetry == Permutations({e1, e2}) \cup Permutations({r1, r2})

\* The locals of a worker that is in no call are never read again.
RunningView ==
  <<journal, files, stray, rights, pc, looked, bounds, history,
    [w \in Workers |-> IF pc[w] = "idle" THEN <<>> ELSE <<cur[w], idx[w], plan[w]>>]>>
=============================================================================
