--------------------------- MODULE CandidateStore ---------------------------
(***************************************************************************)
(* The store of coding candidates (lab_coding_candidate_store.py), one      *)
(* system call per step: a record is written under a temporary name, hard- *)
(* linked to its final name and unlinked from the temporary one, with the  *)
(* directory fsynced after each, under one lock for all candidates.        *)
(*                                                                         *)
(* A candidate's name is the digest of its content, so a record is known   *)
(* by its candidate; both its names lead to the same file.                 *)
(***************************************************************************)
EXTENDS Integers, FiniteSets

CONSTANTS
  Callers,          \* the processes that use the store
  Candidates,
  MaxCalls,         \* bound: calls made in one behaviour
  MaxRaises,        \* bound: failing system calls
  MaxCrashes,       \* bound: process deaths
  MaxPowerLosses    \* bound: power losses

ASSUME BoundsAssumption ==
  /\ MaxCalls \in Nat /\ MaxRaises \in Nat
  /\ MaxCrashes \in Nat /\ MaxPowerLosses \in Nat

VARIABLES
  names,   \* the names in the candidates directory
  safe,    \* the names that were there at its last fsync
  file,    \* whether each record's bytes are whole, and whether they are durable
  held,    \* the flock mode each caller holds
  pc,      \* the system call each caller is at
  call,    \* the call each caller is making
  acked,   \* history: the callers told that they persisted a candidate
  loaded,  \* history: the candidates a load has returned
  spent    \* how much of each bound is used

vars == <<names, safe, file, held, pc, call, acked, loaded, spent>>
disk == <<names, safe, file>>
history == <<acked, loaded>>

Temporary(k) == <<"temporary", k>>
Final(k) == <<"final", k>>
Names == {"temporary", "final"} \X Candidates

Calls == [op : {"persist", "load"}, candidate : Candidates]

WritePCs == {"write", "sync", "link", "syncLink", "unlink", "syncUnlink", "verify"}
PCs == {"idle", "look", "lock", "locked"} \cup WritePCs

Init ==
  /\ names = {} /\ safe = {}
  /\ file = [k \in Candidates |-> [good |-> FALSE, synced |-> FALSE]]
  /\ held = [c \in Callers |-> "none"]
  /\ pc = [c \in Callers |-> "idle"]
  /\ call \in [Callers -> {what \in Calls : what.op = "load"}]
  /\ acked = {} /\ loaded = {}
  /\ spent = [calls |-> 0, raises |-> 0, crashes |-> 0, losses |-> 0]

K(c) == call[c].candidate

-----------------------------------------------------------------------------
\* No temporary name remains, of any candidate; a final name then is the only
\* link of its file.
LayoutOk == \A k \in Candidates : Temporary(k) \notin names

Links(k) == Cardinality({Temporary(k), Final(k)} \cap names)

Loadable(k) == Final(k) \in names /\ file[k].good

Release(c) ==
  /\ held' = [held EXCEPT ![c] = "none"]
  /\ pc' = [pc EXCEPT ![c] = "idle"]

Goto(c, next) ==
  /\ pc' = [pc EXCEPT ![c] = next]
  /\ UNCHANGED held

Begin(c) ==
  /\ pc[c] = "idle" /\ spent.calls < MaxCalls
  /\ \E what \in Calls : call' = [call EXCEPT ![c] = what]
  /\ spent' = [spent EXCEPT !.calls = @ + 1]
  /\ Goto(c, "look")
  /\ UNCHANGED <<disk, history>>

\* The first validation of the layout, without the lock.
Look(c) ==
  /\ pc[c] = "look" /\ LayoutOk
  /\ Goto(c, "lock")
  /\ UNCHANGED <<disk, call, history, spent>>

\* Mutation of LockMode: a persist takes the lock shared.
LockModeShared(c) == "SH"

LockMode(c) == IF call[c].op = "load" THEN "SH" ELSE "EX"

Acquire(c) ==
  /\ pc[c] = "lock"
  /\ \A d \in Callers : held[d] # "EX" /\ (LockMode(c) = "EX" => held[d] = "none")
  /\ held' = [held EXCEPT ![c] = LockMode(c)]
  /\ pc' = [pc EXCEPT ![c] = "locked"]
  /\ UNCHANGED <<disk, call, history, spent>>

\* load_lab_coding_candidate, after the second validation.
ReturnLoaded(c) ==
  /\ pc[c] = "locked" /\ LayoutOk
  /\ call[c].op = "load" /\ Loadable(K(c))
  /\ loaded' = loaded \cup {K(c)}
  /\ Release(c)
  /\ UNCHANGED <<disk, call, acked, spent>>

Refuse(c) ==
  /\ pc[c] \in {"look", "locked"}
  /\ \/ ~LayoutOk
     \/ pc[c] = "locked" /\ call[c].op = "load" /\ ~Loadable(K(c))
     \/ pc[c] = "locked" /\ call[c].op = "persist" /\ Final(K(c)) \in names
  /\ Release(c)
  /\ UNCHANGED <<disk, call, history, spent>>

\* Mutations of OpenTemporary: an installed candidate is installed once more;
\* the layout is not validated under the lock.
OpenTemporaryAgain(c) ==
  /\ pc[c] = "locked" /\ LayoutOk /\ call[c].op = "persist"
  /\ names' = names \cup {Temporary(K(c))}
  /\ file' = [file EXCEPT ![K(c)] = [good |-> FALSE, synced |-> FALSE]]
  /\ Goto(c, "write")
  /\ UNCHANGED <<safe, call, history, spent>>

OpenTemporaryAnyhow(c) ==
  /\ pc[c] = "locked"
  /\ call[c].op = "persist" /\ Final(K(c)) \notin names
  /\ names' = names \cup {Temporary(K(c))}
  /\ file' = [file EXCEPT ![K(c)] = [good |-> FALSE, synced |-> FALSE]]
  /\ Goto(c, "write")
  /\ UNCHANGED <<safe, call, history, spent>>

\* O_EXCL creation of the temporary name, with a new empty file.
OpenTemporary(c) ==
  /\ pc[c] = "locked" /\ LayoutOk
  /\ call[c].op = "persist" /\ Final(K(c)) \notin names
  /\ names' = names \cup {Temporary(K(c))}
  /\ file' = [file EXCEPT ![K(c)] = [good |-> FALSE, synced |-> FALSE]]
  /\ Goto(c, "write")
  /\ UNCHANGED <<safe, call, history, spent>>

FileStep(c, from, next, state) ==
  /\ pc[c] = from
  /\ file' = [file EXCEPT ![K(c)] = state]
  /\ Goto(c, next)
  /\ UNCHANGED <<names, safe, call, history, spent>>

Write(c) == FileStep(c, "write", "sync", [good |-> TRUE, synced |-> FALSE])

Sync(c) == FileStep(c, "sync", "link", [good |-> TRUE, synced |-> TRUE])

NameStep(c, from, next, after) ==
  /\ pc[c] = from
  /\ names' = after
  /\ Goto(c, next)
  /\ UNCHANGED <<safe, file, call, history, spent>>

Link(c) == NameStep(c, "link", "syncLink", names \cup {Final(K(c))})

\* The link count and the identity of both names are checked first.
Unlink(c) ==
  /\ Links(K(c)) = 2
  /\ NameStep(c, "unlink", "syncUnlink", names \ {Temporary(K(c))})

\* The fsync of the directory makes every name and every absence durable.
SyncDirectory(c, from, next) ==
  /\ pc[c] = from
  /\ safe' = names
  /\ Goto(c, next)
  /\ UNCHANGED <<names, file, call, history, spent>>

\* Mutations: the directory is fsynced once, after the unlink; or only before.
SyncLinkNot(c) ==
  /\ pc[c] = "syncLink" /\ Goto(c, "unlink")
  /\ UNCHANGED <<disk, call, history, spent>>

SyncUnlinkNot(c) ==
  /\ pc[c] = "syncUnlink" /\ Goto(c, "verify")
  /\ UNCHANGED <<disk, call, history, spent>>

SyncLink(c)   == SyncDirectory(c, "syncLink", "unlink")
SyncUnlink(c) == SyncDirectory(c, "syncUnlink", "verify")

\* One link is left, the record is read back and decodes to the candidate.
Acknowledge(c) ==
  /\ pc[c] = "verify" /\ Links(K(c)) = 1 /\ Loadable(K(c))
  /\ acked' = acked \cup {<<c, spent.calls, K(c)>>}
  /\ Release(c)
  /\ UNCHANGED <<disk, call, loaded, spent>>

Raise(c) ==
  /\ pc[c] # "idle" /\ spent.raises < MaxRaises
  /\ spent' = [spent EXCEPT !.raises = @ + 1]
  /\ Release(c)
  /\ UNCHANGED <<disk, call, history>>

Crash(c) ==
  /\ pc[c] # "idle" /\ spent.crashes < MaxCrashes
  /\ spent' = [spent EXCEPT !.crashes = @ + 1]
  /\ Release(c)
  /\ UNCHANGED <<disk, call, history>>

\* Power is lost: a name added or removed since the last fsync of the
\* directory may or may not be there, and bytes never fsynced may be torn.
PowerLoss ==
  /\ spent.losses < MaxPowerLosses
  /\ spent' = [spent EXCEPT !.losses = @ + 1]
  /\ \E kept \in SUBSET ((names \cup safe) \ (names \cap safe)),
        torn \in SUBSET {k \in Candidates : ~file[k].synced} :
       /\ names' = (names \cap safe) \cup kept
       /\ safe' = (names \cap safe) \cup kept
       /\ file' = [k \in Candidates |->
            [good |-> file[k].good /\ k \notin torn, synced |-> TRUE]]
  /\ held' = [c \in Callers |-> "none"]
  /\ pc' = [c \in Callers |-> "idle"]
  /\ UNCHANGED <<call, history>>

Step(c) ==
  \/ Look(c) \/ Acquire(c) \/ ReturnLoaded(c) \/ Refuse(c)
  \/ OpenTemporary(c) \/ Write(c) \/ Sync(c) \/ Link(c) \/ SyncLink(c)
  \/ Unlink(c) \/ SyncUnlink(c) \/ Acknowledge(c)

Next ==
  \/ \E c \in Callers : Begin(c) \/ Step(c) \/ Raise(c) \/ Crash(c)
  \/ PowerLoss

Spec == Init /\ [][Next]_vars

-----------------------------------------------------------------------------
TypeOK ==
  /\ names \subseteq Names /\ safe \subseteq Names
  /\ file \in [Candidates -> [good : BOOLEAN, synced : BOOLEAN]]
  /\ held \in [Callers -> {"none", "SH", "EX"}]
  /\ pc \in [Callers -> PCs]
  /\ call \in [Callers -> Calls]
  /\ acked \subseteq Callers \X Nat \X Candidates
  /\ loaded \subseteq Candidates
  /\ spent \in [calls : Nat, raises : Nat, crashes : Nat, losses : Nat]

\* A candidate that a persist returned is durable under its final name and
\* its temporary name is durably gone: it can neither be lost by a power loss
\* nor come back half installed and close the store.
AckedIsSettled ==
  \A a \in acked :
    /\ Final(a[3]) \in names \cap safe /\ file[a[3]].good /\ file[a[3]].synced
    /\ Temporary(a[3]) \notin names \cup safe

\* A candidate is durable before anyone can load it, also when the call that
\* persists it has raised or died since: nobody acts on a candidate that a
\* power loss takes back.
LoadedIsDurable ==
  \A k \in loaded : Final(k) \in names \cap safe /\ file[k].good /\ file[k].synced

\* Without a failure, a death or a power loss no holder of the lock meets a
\* half-installed candidate; only the look without the lock does.
LockedStoreIsWhole ==
  spent.raises + spent.crashes + spent.losses = 0 =>
    \A c \in Callers : pc[c] = "locked" => LayoutOk

\* One persist of a candidate is acknowledged; the others are refused.
PersistedOnce == \A a, b \in acked : a[3] = b[3] => a = b

-----------------------------------------------------------------------------
(***************************************************************************)
(* Why those hold: the lock makes the caller that writes the only one that *)
(* is past its look, and a final name is one of a record that is whole and *)
(* durable, with a temporary name beside it until it is durable itself.    *)
(***************************************************************************)
LockInv ==
  \A c \in Callers :
    /\ pc[c] \in {"idle", "look", "lock"} => held[c] = "none"
    /\ pc[c] = "locked" => held[c] = LockMode(c)
    /\ pc[c] \in WritePCs => held[c] = "EX" /\ call[c].op = "persist"
    /\ held[c] = "EX" => \A d \in Callers \ {c} : held[d] = "none"

DiskInv ==
  \A k \in Candidates :
    /\ Final(k) \in safe => Final(k) \in names
    /\ Final(k) \in names =>
         /\ file[k].good /\ file[k].synced
         /\ Final(k) \in safe \/ Temporary(k) \in names

WriterInv ==
  \A c \in Callers : pc[c] \in WritePCs =>
    /\ \A k \in Candidates : Temporary(k) \in names => k = K(c)
    /\ pc[c] \in {"syncUnlink", "verify"} <=> Temporary(K(c)) \notin names
    /\ pc[c] \in {"write", "sync", "link"} <=> Final(K(c)) \notin names
    /\ pc[c] # "write" => file[K(c)].good
    /\ pc[c] = "link" => file[K(c)].synced
    /\ pc[c] \in {"unlink", "syncUnlink", "verify"} => Final(K(c)) \in safe
    /\ pc[c] = "verify" => Temporary(K(c)) \notin safe
    /\ \A a \in acked : a[3] # K(c)

\* Where nothing fails, a temporary name is one that a writer is about to unlink.
CleanInv ==
  spent.raises + spent.crashes + spent.losses = 0 =>
    \A k \in Candidates : Temporary(k) \in names =>
      \E c \in Callers : pc[c] \in WritePCs /\ K(c) = k

StoreInv == LockInv /\ DiskInv /\ WriterInv /\ CleanInv

-----------------------------------------------------------------------------
(***************************************************************************)
(* The store implements CandidateRegister: a candidate counts from the     *)
(* unlink of its temporary name on, and the store is closed from the end   *)
(* of a call that leaves one behind.                                       *)
(***************************************************************************)
Installing(k) == \E c \in Callers : pc[c] \in WritePCs /\ K(c) = k

Register == INSTANCE CandidateRegister WITH
  shown <- {k \in Candidates : Loadable(k) /\ Temporary(k) \notin names},
  open <- \A k \in Candidates : Temporary(k) \in names => Installing(k),
  settled <- {a[3] : a \in acked}, given <- loaded, losses <- spent.losses
=============================================================================
