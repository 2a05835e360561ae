--------------------------- MODULE MaterialsVault ---------------------------
(***************************************************************************)
(* What the recovery materials promise, without files, locks or calls: the *)
(* material of a transaction is made at most once, what was broken off is  *)
(* never shown and never made again, and what is shown was finished.  A    *)
(* power loss spares what a creation has acknowledged.                     *)
(***************************************************************************)
EXTENDS Naturals

CONSTANT Transactions

VARIABLES
  status,  \* how far the material of each transaction is
  shown,   \* the transactions whose material someone was given
  kept,    \* the transactions whose creation was acknowledged
  losses   \* the power losses so far

vvars == <<status, shown, kept, losses>>

VInit ==
  /\ status = [t \in Transactions |-> "absent"]
  /\ shown = {} /\ kept = {} /\ losses = 0

Advance(t, from, to) ==
  /\ status[t] = from
  /\ status' = [status EXCEPT ![t] = to]
  /\ UNCHANGED <<shown, kept, losses>>

Show(t) ==
  /\ status[t] = "ready"
  /\ shown' = shown \cup {t}
  /\ kept' \in {kept, kept \cup {t}}
  /\ UNCHANGED <<status, losses>>

PowerLoss ==
  /\ losses' = losses + 1
  /\ status' \in [Transactions -> {"absent", "ready", "broken"}]
  /\ \A t \in Transactions :
       /\ status[t] = "absent" => status'[t] = "absent"
       /\ status'[t] = "ready" => status[t] = "ready"
       /\ t \in kept => status'[t] = "ready"
  /\ UNCHANGED <<shown, kept>>

VNext ==
  \/ PowerLoss
  \/ \E t \in Transactions :
       \/ Advance(t, "absent", "making") \/ Advance(t, "making", "ready")
       \/ Advance(t, "making", "broken") \/ Show(t)

VSpec == VInit /\ [][VNext]_vvars
=============================================================================
