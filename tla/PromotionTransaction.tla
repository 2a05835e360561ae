------------------------ MODULE PromotionTransaction ------------------------
(***************************************************************************)
(* The pure rules of a promotion transaction                               *)
(* (lab_promotion_transaction_state.py): which states a transaction has,   *)
(* how far each file of it may be, and which immutable snapshot may follow *)
(* which.  A snapshot is the record of its state and of the progress of    *)
(* every path.  The code identifies a snapshot by a SHA-256 digest of the  *)
(* plan, the state and the progress, with no sequence number: within one   *)
(* transaction the record below is that identity.                          *)
(***************************************************************************)
EXTENDS Naturals, FiniteSets

CONSTANT Paths          \* the canonical paths of the transaction's files

ASSUME PathsAssumption == IsFiniteSet(Paths) /\ Paths # {}

TransactionStates ==
  {"PREPARED", "APPLYING", "VERIFYING", "COMPLETED",
   "ROLLING_BACK", "ROLLED_BACK", "RECOVERY_REQUIRED"}

FileProgressStates == {"PENDING", "INSTALLED", "VERIFIED", "RESTORED"}

AllowedStates(s) ==
  CASE s = "PREPARED"     -> {"APPLYING", "RECOVERY_REQUIRED"}
    [] s = "APPLYING"     -> {"APPLYING", "VERIFYING", "ROLLING_BACK",
                              "RECOVERY_REQUIRED"}
    [] s = "VERIFYING"    -> {"VERIFYING", "COMPLETED", "ROLLING_BACK",
                              "RECOVERY_REQUIRED"}
    [] s = "ROLLING_BACK" -> {"ROLLING_BACK", "ROLLED_BACK",
                              "RECOVERY_REQUIRED"}
    [] OTHER              -> {}

\* Mutation of AllowedProgress: an installation may be taken back.
AllowedProgressWithReset ==
  {<<"PENDING", "INSTALLED">>, <<"INSTALLED", "PENDING">>,
   <<"INSTALLED", "VERIFIED">>, <<"INSTALLED", "RESTORED">>,
   <<"VERIFIED", "RESTORED">>}

AllowedProgress ==
  {<<"PENDING", "INSTALLED">>, <<"INSTALLED", "VERIFIED">>,
   <<"INSTALLED", "RESTORED">>, <<"VERIFIED", "RESTORED">>}

\* What the state says of the progress of every single file.
ProgressPermitted(s) ==
  CASE s = "PREPARED"    -> {"PENDING"}
    [] s = "APPLYING"    -> {"PENDING", "INSTALLED"}
    [] s = "VERIFYING"   -> {"INSTALLED", "VERIFIED"}
    [] s = "COMPLETED"   -> {"VERIFIED"}
    [] s = "ROLLED_BACK" -> {"PENDING", "RESTORED"}
    [] OTHER             -> FileProgressStates

StateInvariants(s, progress) ==
  \A p \in Paths : progress[p] \in ProgressPermitted(s)

Snapshots ==
  [state : TransactionStates, progress : [Paths -> FileProgressStates]]

\* The snapshots that validation accepts.
ValidTransaction(t) ==
  t \in Snapshots /\ StateInvariants(t.state, t.progress)

PreparedTransaction ==
  [state |-> "PREPARED", progress |-> [p \in Paths |-> "PENDING"]]

\* u is a snapshot the code lets follow t.  A successor equal to t is legal
\* here for the states that allow themselves; only the journal refuses it.
Transition(t, u) ==
  /\ u.state \in AllowedStates(t.state)
  /\ \A p \in Paths :
        \/ u.progress[p] = t.progress[p]
        \/ <<t.progress[p], u.progress[p]>> \in AllowedProgress
  /\ StateInvariants(u.state, u.progress)

WithState(t, s) == [t EXCEPT !.state = s]

WithProgress(t, p, x) == [t EXCEPT !.progress[p] = x]

-----------------------------------------------------------------------------
(***************************************************************************)
(* A measure that the rules never name: how far along its life a snapshot  *)
(* is.  The ranks are injective, so "earlier" is a strict order, and that  *)
(* is what makes a digest without a sequence number a safe compare-and-    *)
(* append token: no snapshot can come back.                                *)
(***************************************************************************)
StateRank(s) ==
  CASE s = "PREPARED"     -> 0
    [] s = "APPLYING"     -> 1
    [] s = "VERIFYING"    -> 2
    [] s = "ROLLING_BACK" -> 3
    [] s = "COMPLETED"    -> 4
    [] s = "ROLLED_BACK"  -> 5
    [] OTHER              -> 6

ProgressRank(x) ==
  CASE x = "PENDING"   -> 0
    [] x = "INSTALLED" -> 1
    [] x = "VERIFIED"  -> 2
    [] OTHER           -> 3

Earlier(t, u) ==
  /\ t # u
  /\ StateRank(t.state) <= StateRank(u.state)
  /\ \A p \in Paths : ProgressRank(t.progress[p]) <= ProgressRank(u.progress[p])
=============================================================================
