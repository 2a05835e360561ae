------------------------- MODULE CodingJobLifecycle -------------------------
(***************************************************************************)
(* The lifecycle of one coding job (lab_coding_job_lifecycle.py): a state   *)
(* and the identities of the evidence recorded for it.  Both are carried in *)
(* one immutable snapshot, whose identity is a digest of its content and is *)
(* therefore the snapshot itself.                                           *)
(***************************************************************************)
EXTENDS Integers, FiniteSets

CONSTANTS
  Ids,    \* identities that evidence may have
  NoId    \* evidence that is not recorded

ASSUME IdsAssumption == NoId \notin Ids

States == {"REQUESTED", "RUNNING", "COMPLETED", "FAILED", "TIMED_OUT"}
TerminalStates == {"COMPLETED", "FAILED", "TIMED_OUT"}

Fields ==
  {"session_id", "worker_request_id", "worker_result_id", "candidate_id",
   "integration_result_id"}

Success == {"candidate_id", "integration_result_id"}

Evidence == [Fields -> Ids \cup {NoId}]
Lifecycles == [state : States, evidence : Evidence]

AllowedStates ==
  [s \in States |->
     CASE s = "REQUESTED" -> {"RUNNING", "FAILED"}
       [] s = "RUNNING"   -> TerminalStates
       [] OTHER           -> {}]

\* How far a state is along the transitions.
Rank ==
  [s \in States |-> CASE s = "REQUESTED" -> 0 [] s = "RUNNING" -> 1 [] OTHER -> 2]

Recorded(evidence) == {f \in Fields : evidence[f] # NoId}

\* What each state must have recorded, and what it may have.
RequiredEvidence ==
  [s \in States |->
     CASE s = "COMPLETED" -> Fields
       [] s \in {"RUNNING", "TIMED_OUT"} -> {"session_id"}
       [] OTHER -> {}]

PermittedEvidence ==
  [s \in States |->
     CASE s = "REQUESTED" -> {}
       [] s = "RUNNING" -> {"session_id", "worker_request_id"}
       [] s = "COMPLETED" -> Fields
       [] OTHER -> Fields \ Success]

StateInvariants(state, evidence) ==
  LET has == Recorded(evidence)
  IN  /\ "worker_request_id" \in has => "session_id" \in has
      /\ "worker_result_id" \in has => "worker_request_id" \in has
      /\ RequiredEvidence[state] \subseteq has
      /\ has \subseteq PermittedEvidence[state]

ValidLifecycle(t) == t \in Lifecycles /\ StateInvariants(t.state, t.evidence)

ValidLifecycles == {t \in Lifecycles : ValidLifecycle(t)}

NoEvidence == [f \in Fields |-> NoId]

RequestedLifecycle == [state |-> "REQUESTED", evidence |-> NoEvidence]

\* What is supplied replaces nothing that is recorded, and what is left out
\* stays as it is.
Advance(current, supplied) ==
  [f \in Fields |-> IF supplied[f] = NoId THEN current[f] ELSE supplied[f]]

Contradicts(current, supplied) ==
  \E f \in Fields : NoId \notin {current[f], supplied[f]} /\ current[f] # supplied[f]

\* The value and the condition of transition_lab_coding_job_lifecycle.
Successor(t, state, supplied) ==
  [state |-> state, evidence |-> Advance(t.evidence, supplied)]

\* Mutation of MayAdvance: the transition table is not consulted.
MayAdvanceAnywhere(t, state, supplied) ==
  /\ ~Contradicts(t.evidence, supplied)
  /\ StateInvariants(state, Advance(t.evidence, supplied))

MayAdvance(t, state, supplied) ==
  /\ state \in AllowedStates[t.state]
  /\ ~Contradicts(t.evidence, supplied)
  /\ StateInvariants(state, Advance(t.evidence, supplied))

\* Mutation of Reconstructs: the successor is not compared with what the
\* transition makes of it.
ReconstructsLoosely(t, u) == MayAdvance(t, u.state, u.evidence)

\* The journal's own check of a successor: the transition, given what the
\* successor has recorded, must yield exactly that successor.
Reconstructs(t, u) ==
  MayAdvance(t, u.state, u.evidence) /\ Successor(t, u.state, u.evidence) = u
=============================================================================
