--------------------------- MODULE MCApprovalStore ---------------------------
(***************************************************************************)
(* Instances of ApprovalStore for TLC.                                     *)
(***************************************************************************)
EXTENDS ApprovalStore, TLC

CONSTANTS c1, c2, x1, x2, a1, a2, q1, q2, r1, r2

MCCallers == {c1, c2}
MCChallenges == {x1, x2}
MCApprovals == {a1, a2}
MCProposals == {q1, q2}
MCRuns == {r1, r2}

\* One challenge with two approvals to draw, four calls and a power loss; two
\* challenges for two proposals while the clock goes on and is set back; two
\* runs that want one approval.
MCScenarios ==
  {[ids |-> {x1, a1, a2}, proposals |-> {q1}, runs |-> {r1},
    clock |-> 1, calls |-> 4, setbacks |-> 0, losses |-> 1],
   [ids |-> {x1, x2, a1}, proposals |-> {q1, q2}, runs |-> {r1},
    clock |-> 2, calls |-> 3, setbacks |-> 1, losses |-> 0],
   [ids |-> {x1, a1}, proposals |-> {q1}, runs |-> {r1, r2},
    clock |-> 1, calls |-> 3, setbacks |-> 0, losses |-> 1]}

ApprovalSymmetry ==
  Permutations(MCCallers) \cup Permutations(MCChallenges) \cup
  Permutations(MCApprovals) \cup Permutations(MCProposals)
=============================================================================
