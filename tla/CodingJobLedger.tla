--------------------------- MODULE CodingJobLedger ---------------------------
(***************************************************************************)
(* What the lifecycle journal promises to those who use it: for each job a *)
(* chain of snapshots that grows one legal transition at a time, and that  *)
(* a writer that ends half way may close.  Whatever happens to one job     *)
(* changes no other.  A power loss takes back what no caller was told of,  *)
(* and may close a job or open it again.  Detail: CodingJobJournal.        *)
(***************************************************************************)
EXTENDS CodingJobLifecycle, Sequences

CONSTANT Jobs

VARIABLES
  chain,    \* the snapshots a reader of each job would be given
  open,     \* the jobs that can be created, read or extended
  settled,  \* the longest chain of each job acknowledged to a caller
  losses    \* the power losses so far

lvars == <<chain, open, settled, losses>>

LegalChain(ch) ==
  \A i \in DOMAIN ch :
    IF i = 1 THEN ch[i] = RequestedLifecycle ELSE Reconstructs(ch[i - 1], ch[i])

Extends(ch, base) == Len(base) <= Len(ch) /\ SubSeq(ch, 1, Len(base)) = base

LInit ==
  /\ chain = [j \in Jobs |-> <<>>] /\ settled = [j \in Jobs |-> <<>>]
  /\ open = Jobs /\ losses = 0

\* A job gets its first snapshot, or one legal successor of its last.
Publish(j) ==
  /\ j \in open
  /\ Len(chain'[j]) = Len(chain[j]) + 1 /\ LegalChain(chain'[j])
  /\ chain' = [chain EXCEPT ![j] = Append(@, chain'[j][Len(chain[j]) + 1])]
  /\ UNCHANGED <<open, settled, losses>>

\* A caller is told that the chain of a job is durable.
Settle(j) ==
  /\ j \in open /\ settled' = [settled EXCEPT ![j] = chain[j]]
  /\ UNCHANGED <<chain, open, losses>>

Close(j) ==
  /\ j \in open /\ open' = open \ {j}
  /\ chain' = [chain EXCEPT ![j] = <<>>]
  /\ UNCHANGED <<settled, losses>>

PowerLoss ==
  /\ losses' = losses + 1 /\ open' \subseteq Jobs
  /\ DOMAIN chain' = Jobs
  /\ \A j \in open' :
       /\ LegalChain(chain'[j]) /\ Extends(chain'[j], settled[j])
       /\ j \in open => Extends(chain[j], chain'[j])
  /\ \A j \in Jobs \ open' : chain'[j] = <<>>
  /\ UNCHANGED settled

LNext == PowerLoss \/ \E j \in Jobs : Publish(j) \/ Settle(j) \/ Close(j)

LSpec == LInit /\ [][LNext]_lvars
=============================================================================
