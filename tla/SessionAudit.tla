---------------------------- MODULE SessionAudit ----------------------------
(***************************************************************************)
(* The audit record of one session (lab_audit.py), one system call per     *)
(* step. There is no lock: any number of processes may write a record for  *)
(* the same session into the same directory, each with its own content.    *)
(* Every writer brings one new file; the two names of the session are      *)
(* shared.                                                                 *)
(***************************************************************************)
EXTENDS Integers

CONSTANTS
  Writers,        \* the calls of write_lab_session_audit for the session
  NoFile,         \* a name that leads nowhere
  MaxRaises,      \* bound: failing system calls
  MaxCrashes,     \* bound: process deaths
  MaxPowerLosses  \* bound: power losses

AuditAssumption ==
  /\ NoFile \notin Writers /\ Writers # {}
  /\ MaxRaises \in Nat /\ MaxCrashes \in Nat /\ MaxPowerLosses \in Nat

VARIABLES
  path,    \* the writer of the file each name leads to
  safe,    \* all that each name has led to since the directory's last fsync
  file,    \* the bytes of each writer's file
  pc,      \* the system call each writer is at
  acked,   \* history: the writers that were told of success
  spent    \* how much of each bound is used

vars == <<path, safe, file, pc, acked, spent>>

Names == {"temporary", "final"}
PCs == {"start", "open", "write", "sync", "verify", "link", "syncLink",
        "verifyLink", "unlink", "syncUnlink", "read", "end"}

Init ==
  /\ path = [n \in Names |-> NoFile]
  /\ safe = [n \in Names |-> {NoFile}]
  /\ file = [w \in Writers |-> "torn"]
  /\ pc = [w \in Writers |-> "start"]
  /\ acked = {}
  /\ spent = [raises |-> 0, crashes |-> 0, losses |-> 0]

\* The name leads to the writer's file, whose hard-link count is 1.
OnlyName(w, name) == \A n \in Names : path[n] = w <=> n = name

Goto(w, from, next) ==
  /\ pc[w] = from
  /\ pc' = [pc EXCEPT ![w] = next]

SetName(n, target) ==
  /\ path' = [path EXCEPT ![n] = target]
  /\ safe' = [safe EXCEPT ![n] = @ \cup {target}]

-----------------------------------------------------------------------------
\* A stat of the final name: the only look at it before the link.
DestinationMustNotExist(w) ==
  /\ Goto(w, "start", IF path["final"] = NoFile THEN "open" ELSE "end")
  /\ UNCHANGED <<path, safe, file, acked, spent>>

\* Mutation of OpenTemporary: a temporary name left by another call is reused.
OpenTemporaryAnew(w) ==
  /\ Goto(w, "open", "write") /\ SetName("temporary", w)
  /\ UNCHANGED <<file, acked, spent>>

\* O_EXCL: a temporary name that exists is refused.
OpenTemporary(w) ==
  /\ IF path["temporary"] = NoFile
       THEN Goto(w, "open", "write") /\ SetName("temporary", w)
       ELSE Goto(w, "open", "end") /\ UNCHANGED <<path, safe>>
  /\ UNCHANGED <<file, acked, spent>>

FileStep(w, from, next, bytes) ==
  /\ Goto(w, from, next)
  /\ file' = [file EXCEPT ![w] = bytes]
  /\ UNCHANGED <<path, safe, acked, spent>>

WriteAll(w) == FileStep(w, "write", "sync", "written")

\* Mutation of SyncFile: the record's bytes are not fsynced.
SyncFileNot(w) == FileStep(w, "sync", "verify", "written")

SyncFile(w) == FileStep(w, "sync", "verify", "durable")

\* The temporary name still leads to this writer's file, and only it does.
VerifyTemporaryIdentity(w) ==
  /\ Goto(w, "verify",
       IF OnlyName(w, "temporary") THEN "link" ELSE "end")
  /\ UNCHANGED <<path, safe, file, acked, spent>>

\* Mutation of Link: the final name is replaced, as a rename would do.
LinkOver(w) ==
  /\ IF path["temporary"] # NoFile
       THEN Goto(w, "link", "syncLink") /\ SetName("final", path["temporary"])
       ELSE Goto(w, "link", "end") /\ UNCHANGED <<path, safe>>
  /\ UNCHANGED <<file, acked, spent>>

\* The link is of whatever the temporary name leads to, and refused when the
\* final name is taken.
Link(w) ==
  /\ IF path["temporary"] # NoFile /\ path["final"] = NoFile
       THEN Goto(w, "link", "syncLink") /\ SetName("final", path["temporary"])
       ELSE Goto(w, "link", "end") /\ UNCHANGED <<path, safe>>
  /\ UNCHANGED <<file, acked, spent>>

SyncDirectory(w, from, next) ==
  /\ Goto(w, from, next)
  /\ safe' = [n \in Names |-> {path[n]}]
  /\ UNCHANGED <<path, file, acked, spent>>

SyncLink(w) == SyncDirectory(w, "syncLink", "verifyLink")

VerifyLinkTransition(w) ==
  /\ Goto(w, "verifyLink", IF \A n \in Names : path[n] = w THEN "unlink" ELSE "end")
  /\ UNCHANGED <<path, safe, file, acked, spent>>

Unlink(w) ==
  /\ IF path["temporary"] # NoFile
       THEN Goto(w, "unlink", "syncUnlink") /\ SetName("temporary", NoFile)
       ELSE Goto(w, "unlink", "end") /\ UNCHANGED <<path, safe>>
  /\ UNCHANGED <<file, acked, spent>>

\* Mutation of SyncUnlink: the directory is not fsynced after the cleanup.
SyncUnlinkNot(w) ==
  /\ Goto(w, "syncUnlink", "read")
  /\ UNCHANGED <<path, safe, file, acked, spent>>

SyncUnlink(w) == SyncDirectory(w, "syncUnlink", "read")

\* The final name is opened and its content compared with the writer's own.
VerifyFinalFile(w) ==
  /\ Goto(w, "read", "end")
  /\ acked' = IF OnlyName(w, "final") /\ file[w] # "torn"
                THEN acked \cup {w} ELSE acked
  /\ UNCHANGED <<path, safe, file, spent>>

\* A system call fails: the call raises and removes nothing.
Raise(w) ==
  /\ pc[w] \notin {"start", "end"} /\ spent.raises < MaxRaises
  /\ Goto(w, pc[w], "end")
  /\ spent' = [spent EXCEPT !.raises = @ + 1]
  /\ UNCHANGED <<path, safe, file, acked>>

Crash(w) ==
  /\ pc[w] \notin {"start", "end"} /\ spent.crashes < MaxCrashes
  /\ Goto(w, pc[w], "end")
  /\ spent' = [spent EXCEPT !.crashes = @ + 1]
  /\ UNCHANGED <<path, safe, file, acked>>

\* Power is lost: each name leads to something it led to since the last fsync
\* of the directory, and bytes never fsynced may be torn.
PowerLoss ==
  /\ spent.losses < MaxPowerLosses
  /\ spent' = [spent EXCEPT !.losses = @ + 1]
  /\ \E after \in [Names -> Writers \cup {NoFile}],
        torn \in SUBSET {w \in Writers : file[w] = "written"} :
       /\ \A n \in Names : after[n] \in safe[n]
       /\ path' = after
       /\ safe' = [n \in Names |-> {after[n]}]
       /\ file' = [w \in Writers |->
            IF w \in torn THEN "torn"
            ELSE IF file[w] = "written" THEN "durable" ELSE file[w]]
  /\ pc' = [w \in Writers |-> IF pc[w] = "start" THEN "start" ELSE "end"]
  /\ UNCHANGED acked

Step(w) ==
  \/ DestinationMustNotExist(w) \/ OpenTemporary(w) \/ WriteAll(w) \/ SyncFile(w)
  \/ VerifyTemporaryIdentity(w) \/ Link(w) \/ SyncLink(w) \/ VerifyLinkTransition(w)
  \/ Unlink(w) \/ SyncUnlink(w) \/ VerifyFinalFile(w)

Next ==
  \/ \E w \in Writers : Step(w) \/ Raise(w) \/ Crash(w)
  \/ PowerLoss

Spec == Init /\ [][Next]_vars

-----------------------------------------------------------------------------
TypeOK ==
  /\ path \in [Names -> Writers \cup {NoFile}]
  /\ safe \in [Names -> SUBSET (Writers \cup {NoFile})]
  /\ file \in [Writers -> {"torn", "written", "durable"}]
  /\ pc \in [Writers -> PCs]
  /\ acked \subseteq Writers
  /\ spent \in [raises : Nat, crashes : Nat, losses : Nat]

\* The record a writer was told of is the session's record for good, whatever
\* other writers of the session, failures and power losses come after it.
AckedIsForever ==
  \A w \in acked :
    path["final"] = w /\ safe["final"] = {w} /\ file[w] = "durable"

\* The told record has no second name, and none can come back: the evidence
\* cannot be written through a leftover temporary link.
AckedHasOneName == \A w \in acked : w \notin safe["temporary"]

\* Whatever is found under the final name, at any moment, of a writer that was
\* told or of one that raised or died, is a whole record.
FinalIsWhole ==
  \A w \in Writers : w \in safe["final"] \cup {path["final"]} => file[w] = "durable"

\* Writers that hinder each other do not all fail: when no system call failed
\* and nobody died, one of them has written the record.
OneWriterSucceeds ==
  /\ spent.raises + spent.crashes + spent.losses = 0
  /\ \A w \in Writers : pc[w] = "end"
  => acked # {}

-----------------------------------------------------------------------------
(***************************************************************************)
(* Why those hold, without a lock: O_EXCL makes the temporary name belong  *)
(* to one writer from its creation to its unlink, and the final name,      *)
(* which is never replaced, to the one that has linked it.                 *)
(***************************************************************************)
TemporaryPCs == {"write", "sync", "verify", "link", "syncLink", "verifyLink", "unlink"}
FinalPCs == {"syncLink", "verifyLink", "unlink", "syncUnlink", "read"}

NamesInv ==
  /\ \A n \in Names : path[n] \in safe[n]
  /\ \A w \in Writers :
       /\ pc[w] \in TemporaryPCs => path["temporary"] = w
       /\ pc[w] \in FinalPCs => path["final"] = w
       /\ pc[w] \in FinalPCs \ {"syncLink"} => safe["final"] = {w}
       /\ pc[w] = "syncUnlink" => path["temporary"] # w
       /\ pc[w] = "read" => w \notin safe["temporary"]
       /\ pc[w] \in {"start", "open"} => \A n \in Names : w \notin safe[n]
       /\ pc[w] \in {"write", "sync", "verify", "link"} => w \notin safe["final"]
       /\ pc[w] \in {"verify", "link"} \cup FinalPCs => file[w] = "durable"
       /\ w \in acked => pc[w] = "end"

\* What keeps the writers from failing one another while no call fails and
\* nobody dies: each name is with a writer that is still at work on it, or the
\* final one with a writer that was told.
ProgressInv ==
  spent.raises + spent.crashes + spent.losses = 0 =>
    IF path["final"] # NoFile
      THEN path["final"] \in acked \/ pc[path["final"]] \in FinalPCs
      ELSE IF path["temporary"] # NoFile
             THEN pc[path["temporary"]] \in {"write", "sync", "verify", "link"}
             ELSE \A w \in Writers : pc[w] \in {"start", "open"}
=============================================================================
