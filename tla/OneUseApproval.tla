--------------------------- MODULE OneUseApproval ---------------------------
(***************************************************************************)
(* What the approval store promises a promotion, with no files, clock or   *)
(* lock: an approval on offer can be claimed for one run; only the run     *)
(* that claimed it can be told that it may use it, and then nobody is told *)
(* so again, ever; a claim that is given up is never on offer again,       *)
(* unless power was lost before it was durable.  Detail: ApprovalStore.    *)
(***************************************************************************)
EXTENDS Naturals

CONSTANTS Approvals, UseRuns

VARIABLES
  phase,    \* phase[a] = <<name, the run that claims or uses a>>
  losses    \* power losses so far

ovars == <<phase, losses>>

Withheld   == <<"withheld", {}>>
Offered    == <<"offered", {}>>
Claimed(r) == <<"claimed", {r}>>
Used(r)    == <<"used", {r}>>
Burnt      == <<"burnt", {}>>

OInit == phase = [a \in Approvals |-> Withheld] /\ losses = 0

Move(a, from, to) ==
  /\ phase[a] = from
  /\ phase' = [phase EXCEPT ![a] = to]
  /\ UNCHANGED losses

\* A power loss takes back offers and claims that were not durable yet.
Loss ==
  /\ losses' = losses + 1
  /\ \E left \in [Approvals -> {Withheld, Offered, Burnt}] :
       phase' = [a \in Approvals |->
                   IF \E r \in UseRuns : phase[a] = Used(r) THEN phase[a] ELSE left[a]]

ONext ==
  \/ \E a \in Approvals : Move(a, Withheld, Offered)
  \/ \E a \in Approvals, r \in UseRuns :
       \/ Move(a, Offered, Claimed(r))
       \/ Move(a, Claimed(r), Used(r))
       \/ Move(a, Claimed(r), Burnt)
  \/ Loss

OSpec == OInit /\ [][ONext]_ovars
=============================================================================
