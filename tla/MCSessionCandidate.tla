------------------------- MODULE MCSessionCandidate -------------------------
(***************************************************************************)
(* Two files that the model writes, two RUN actions, and the acceptance    *)
(* test of the sessions that have one.                                     *)
(***************************************************************************)
EXTENDS SessionCandidate, TLC

CONSTANTS p, q, acceptance, v1, v2, a1, a2

MCPaths == {p, q, acceptance}
MCContents == {v1, v2}
MCActions == {a1, a2}

CandidateSymmetry == Permutations({p, q}) \cup Permutations(MCContents)
                       \cup Permutations(MCActions)
=============================================================================
