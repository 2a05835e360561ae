-------------------------- MODULE SessionCandidate --------------------------
(***************************************************************************)
(* From a finished session to a promotion candidate:                       *)
(* build_lab_promotion_candidate (lab_promotion_candidate.py) over the     *)
(* record that run_lab_session (lab_session.py) makes of the controller.   *)
(* AutoLab is the session; what is added is the builder, which rereads the *)
(* files that the session wrote one after the other, and a process that    *)
(* changes the workspace once the session has ended.                       *)
(***************************************************************************)
EXTENDS AutoLab

CONSTANT MaxTampers   \* bound: changes after the session

ASSUME SessionCandidateAssumption == MaxTampers \in Nat

VARIABLES
  building,   \* "no", "rereading", "built", "refused"
  reread,     \* the contents read back, by path; Absent when not read yet
  candidate,  \* the candidate's files, {} or a singleton
  tampers     \* number of changes after the session

building_vars == <<building, reread, candidate, tampers>>
candidate_vars == <<vars, building_vars>>

NothingRead == [p \in Paths |-> Absent]

CandidateInit ==
  /\ Init
  /\ building = "no" /\ reread = NothingRead /\ candidate = {} /\ tampers = 0

Session == Next /\ UNCHANGED building_vars

\* _latest_successful_writes: the last WRITE_FILE result of each path in the
\* steps, which is what known_write_hashes holds as well.
Latest(p) == known[p]
Written == {p \in Paths : Latest(p) # Absent}

\* Mutation of StartBuilding: a session that ended is taken for one that is done.
StartBuildingEnded ==
  /\ building = "no" /\ Ended
  /\ building' = IF Written # {} THEN "rereading" ELSE "refused"
  /\ UNCHANGED <<vars, reread, candidate, tampers>>

\* The session must be done, tested in its last generation, accepted in it or
\* not at all, and must have written something.
StartBuilding ==
  /\ building = "no" /\ Ended
  /\ building' = IF /\ status = "done" /\ IsTested
                    /\ accepted \in {None, generation} /\ Written # {}
                 THEN "rereading" ELSE "refused"
  /\ UNCHANGED <<vars, reread, candidate, tampers>>

\* Mutation of Reread: what is read is not compared with what was written.
RereadUnchecked(p) ==
  /\ building = "rereading" /\ p \in Written /\ reread[p] = Absent
  /\ reread' = [reread EXCEPT ![p] = files[p]]
  /\ UNCHANGED <<vars, building, candidate, tampers>>

\* Size and SHA-256 of the reread file must be those of the last write.
Reread(p) ==
  /\ building = "rereading" /\ p \in Written /\ reread[p] = Absent
  /\ reread' = [reread EXCEPT ![p] = files[p]]
  /\ building' = IF files[p] = Latest(p) THEN "rereading" ELSE "refused"
  /\ UNCHANGED <<vars, candidate, tampers>>

Build ==
  /\ building = "rereading" /\ \A p \in Written : reread[p] # Absent
  /\ candidate' = {[p \in Written |-> reread[p]]}
  /\ building' = "built"
  /\ UNCHANGED <<vars, reread, tampers>>

Tamper(p, content) ==
  /\ Ended /\ tampers < MaxTampers
  /\ content # files[p]
  /\ files' = [files EXCEPT ![p] = content] /\ tampers' = tampers + 1
  /\ UNCHANGED <<acceptanceTest, status, phase, iteration, generation, progress, evidence, known, ran,
                 building, reread, candidate>>

CandidateNext ==
  \/ Session \/ StartBuilding \/ Build
  \/ \E p \in Paths : Reread(p)
  \/ \E p \in Paths, content \in Contents \cup {Seed} : Tamper(p, content)

CandidateSpec == CandidateInit /\ [][CandidateNext]_candidate_vars

-----------------------------------------------------------------------------

\* What is offered for promotion is exactly what was tested: the candidate
\* holds every file in which the workspace of some passing run differed from
\* the seeded one, with its content in that run, and no other file; with an
\* acceptance test the same holds of a passing acceptance.  No earlier or later
\* content of a file is taken, and none of the changes made after the session,
\* although the files are reread one by one while they are made.
CandidateIsWhatPassed ==
  \A offered \in candidate :
    LET Passed(kind) == \E i \in Ran(kind, TRUE) : \A p \in Paths :
          ran[i].files[p] = IF p \in DOMAIN offered THEN offered[p] ELSE Seed
    IN  Passed("run") /\ (acceptanceTest => Passed("acceptance"))

\* The inductive invariant of the builder: files are changed by others only
\* after the session, and what was reread is what had been written.
BuilderInv ==
  /\ building \in {"no", "rereading", "built", "refused"}
  /\ tampers \in 0 .. MaxTampers /\ reread \in [Paths -> Contents \cup {Seed, Absent}]
  /\ tampers > 0 => Ended
  /\ tampers = 0 => FilesAreRemembered
  /\ building \in {"rereading", "built"} => status = "done" /\ phase = "deciding"
  /\ building = "no" => reread = NothingRead
  /\ building \in {"rereading", "built"} =>
       \A p \in Paths : reread[p] \in {Absent, known[p]}
  /\ candidate \subseteq {[p \in Written |-> known[p]]}
  /\ candidate # {} => building = "built"

CandidateInv == SessionInv /\ BuilderInv

\* What a session that is done ends with is what has passed, until someone else
\* changes it; behind it stands the invariant of the session and of the builder.
DoneMeansTested == CandidateInv /\ (tampers = 0 => DoneIsTested)

\* What the controller refuses or skips rests on what it rightly remembers, as
\* long as nobody else changes the files.
RefusedMeansKnown == tampers = 0 => RefusalsAreJustified
=============================================================================
