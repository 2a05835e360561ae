--------------------------- MODULE PromotionLedger ---------------------------
(***************************************************************************)
(* What the promotion transaction journal promises its callers, with no    *)
(* files, locks or system calls: at any moment it shows either a legal     *)
(* chain of snapshots or nothing at all, it grows only by a legal          *)
(* successor of its tip, and a snapshot it has acknowledged stays at its   *)
(* place in every chain it ever shows again.  Detail: PromotionJournal.    *)
(***************************************************************************)
EXTENDS PromotionTransaction, Sequences

VARIABLES
  view,      \* the chain a reader would be given; <<>> before creation
  open,      \* FALSE while the journal fails closed
  settled    \* the longest chain acknowledged to a caller

lvars == <<view, open, settled>>

LegalChain(ch) ==
  \A i \in DOMAIN ch :
    IF i = 1 THEN ch[i] = PreparedTransaction
             ELSE Transition(ch[i - 1], ch[i]) /\ ch[i] # ch[i - 1]

Extends(ch, base) ==
  /\ Len(base) <= Len(ch)
  /\ \A i \in DOMAIN base : ch[i] = base[i]

LInit == view = <<>> /\ open = TRUE /\ settled = <<>>

\* A new journal holds the PREPARED snapshot; an existing one grows by one
\* legal successor that differs from its tip.
Publish ==
  /\ open
  /\ Len(view') = Len(view) + 1
  /\ \E u \in Snapshots : view' = Append(view, u)
  /\ LegalChain(view')
  /\ UNCHANGED <<open, settled>>

\* A caller is told that the chain up to the tip is durable.
Settle ==
  /\ open
  /\ settled' = view
  /\ UNCHANGED <<view, open>>

\* A partial or malformed record: the journal fails closed.
Seal ==
  /\ open' = FALSE
  /\ view' = <<>>
  /\ UNCHANGED settled

\* A power loss drops what no caller was told of; a journal closed by a
\* record that was never durable may come back open.
Relapse ==
  /\ view' \in Seq(Snapshots)
  /\ LegalChain(view')
  /\ Extends(view', settled)
  /\ open' = TRUE
  /\ UNCHANGED settled

LNext ==
  \/ Publish
  \/ Settle
  \/ Seal
  \/ Relapse

LSpec == LInit /\ [][LNext]_lvars
=============================================================================
