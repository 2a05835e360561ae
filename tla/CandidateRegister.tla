-------------------------- MODULE CandidateRegister --------------------------
(***************************************************************************)
(* What the candidate store promises to those who use it: a candidate is   *)
(* there as a whole or not at all, and stays once it is there; a writer    *)
(* that ends half way may close the store for every candidate.  A power    *)
(* loss spares what someone was told of, and hides what someone was given  *)
(* only by closing the store.  Detail: CandidateStore.                     *)
(***************************************************************************)
EXTENDS Naturals

CONSTANT Candidates

VARIABLES
  shown,   \* the candidates that can be loaded
  open,    \* whether the store can be used at all
  settled, \* the candidates that someone was told to be persisted
  given,   \* the candidates that someone has loaded
  losses   \* the power losses so far

rvars == <<shown, open, settled, given, losses>>

RInit == shown = {} /\ open = TRUE /\ settled = {} /\ given = {} /\ losses = 0

Persist(k) ==
  /\ open /\ k \notin shown
  /\ shown' = shown \cup {k}
  /\ UNCHANGED <<open, settled, given, losses>>

Show(k) ==
  /\ open /\ k \in shown
  /\ \/ settled' = settled \cup {k} /\ UNCHANGED given
     \/ given' = given \cup {k} /\ UNCHANGED settled
  /\ UNCHANGED <<shown, open, losses>>

Close == open /\ open' = FALSE /\ UNCHANGED <<shown, settled, given, losses>>

PowerLoss ==
  /\ losses' = losses + 1
  /\ settled \subseteq shown' /\ shown' \subseteq Candidates
  /\ open' \in BOOLEAN /\ (open' => given \subseteq shown')
  /\ UNCHANGED <<settled, given>>

RNext == (\E k \in Candidates : Persist(k) \/ Show(k)) \/ Close \/ PowerLoss

RSpec == RInit /\ [][RNext]_rvars
=============================================================================
