------------------------- MODULE MCPromotionJournal -------------------------
(***************************************************************************)
(* An instance of PromotionJournal for TLC.  Deaths and power losses come  *)
(* in behaviours with fewer than MaxCalls calls; the last call, which a    *)
(* fork needs, is added to behaviours without them.                        *)
(***************************************************************************)
EXTENDS PromotionJournal

CONSTANTS c1, c2, p1

MCCallers == {c1, c2}
MCPaths == {p1}

JournalNext ==
  Next /\ (spent'.calls = MaxCalls => spent'.crashes + spent'.losses = 0)

\* As in FairSpec, a process that is scheduled keeps executing its call.
JournalSpec ==
  Init /\ [][JournalNext]_vars /\ \A c \in Callers : WF_vars(Step(c))
=============================================================================
