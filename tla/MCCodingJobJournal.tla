------------------------- MODULE MCCodingJobJournal -------------------------
(***************************************************************************)
(* An instance of CodingJobJournal for TLC.  Failures and power losses     *)
(* come in behaviours with fewer than MaxCalls calls; the last call is     *)
(* added to behaviours without them, and is an append by a caller whose    *)
(* snapshot is no longer the last one.                                     *)
(***************************************************************************)
EXTENDS CodingJobJournal

CONSTANTS c1, c2, j1, j2, x

MCCallers == {c1, c2}
TwoJobs == {j1, j2}
OneId == {x}

BeginsLate(c) ==
  /\ pc[c] = "idle" /\ pc'[c] = "look" /\ call'[c].op = "append"
  /\ ~Readable(call'[c].job) \/ call'[c].expected # {Tip(call'[c].job)}

JournalNext ==
  /\ Next
  /\ spent'.calls = MaxCalls =>
       /\ spent'.failures + spent'.losses = 0
       /\ spent.calls < MaxCalls => \E c \in Callers : BeginsLate(c)

\* As in FairSpec, a process that is scheduled keeps executing its call.
JournalSpec ==
  Init /\ [][JournalNext]_vars /\ \A c \in Callers : WF_vars(Step(c))
=============================================================================
