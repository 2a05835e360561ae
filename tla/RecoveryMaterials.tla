------------------------- MODULE RecoveryMaterials -------------------------
(***************************************************************************)
(* The private recovery materials of promotions                            *)
(* (lab_promotion_recovery_materials.py), one system call per step: the    *)
(* initialisation of the root, the creation of the material of a           *)
(* transaction (a directory with one preimage per MODIFY file, then the    *)
(* manifest) and the loads.                                                *)
(*                                                                         *)
(* The content of every file is fixed by the transaction: build refuses    *)
(* other preimages and a load compares the digests. What is modelled of a  *)
(* file is therefore whether its name is there and its bytes are whole.    *)
(***************************************************************************)
EXTENDS Integers, Sequences

CONSTANTS
  Callers,          \* the processes that use the materials
  Transactions,
  Modified,         \* the preimage names of a transaction's MODIFY files, in order
  RootReady,        \* whether the root was initialised, durably, beforehand
  MaxCalls,         \* bound: calls made in one behaviour
  MaxRaises,        \* bound: failing system calls
  MaxCrashes,       \* bound: process deaths
  MaxPowerLosses    \* bound: power losses

Preimages == {Modified[i] : i \in 1 .. Len(Modified)}

MaterialsAssumption ==
  /\ RootReady \in BOOLEAN
  /\ Modified \in Seq(Preimages)
  /\ \A i, k \in 1 .. Len(Modified) : i # k => Modified[i] # Modified[k]
  /\ Preimages \cap {"directory", "preimages", "manifest"} = {}
  /\ MaxCalls \in Nat /\ MaxRaises \in Nat
  /\ MaxCrashes \in Nat /\ MaxPowerLosses \in Nat

VARIABLES
  root,      \* the names in the root
  rootSafe,  \* those of them that a power loss leaves
  entries,   \* the names of each transaction's material
  safe,      \* those of them that were there at their directory's last fsync
  bytes,     \* the bytes of each file
  held,      \* the flock mode each caller holds
  pc,        \* the system call each caller is at
  call,      \* the call each caller is making, and the file it writes
  acked,     \* history: the transactions whose creation was acknowledged
  loaded,    \* history: the transactions whose material a load has returned
  spent      \* how much of each bound is used

vars == <<root, rootSafe, entries, safe, bytes, held, pc, call, acked, loaded, spent>>
disk == <<root, rootSafe, entries, safe, bytes>>
history == <<acked, loaded>>

RootEntries == {"lock", "transactions"}
Files == Append(Modified, "manifest")
Names == Preimages \cup {"directory", "preimages", "manifest"}

Calls == [op : {"initialize", "create", "load"}, transaction : Transactions,
          file : 1 .. Len(Files)]

CreatePCs == {"mkPreimages", "open", "write", "sync", "syncPreimages",
              "syncTransaction", "syncTransactions", "verify"}
InitPCs == {"makeLock", "makeTransactions", "syncRoot", "validate"}
PCs == {"idle", "list", "look", "lock", "locked"} \cup InitPCs \cup CreatePCs

T(c) == call[c].transaction
TheFile(c) == Files[call[c].file]

Init ==
  /\ root = IF RootReady THEN RootEntries ELSE {}
  /\ rootSafe = root
  /\ entries = {} /\ safe = {}
  /\ bytes = [t \in Transactions |-> [i \in 1 .. Len(Files) |-> "torn"]]
  /\ held = [c \in Callers |-> "none"]
  /\ pc = [c \in Callers |-> "idle"]
  /\ call \in [Callers -> {what \in Calls : what.op = "load" /\ what.file = 1}]
  /\ acked = {} /\ loaded = {}
  /\ spent = [calls |-> 0, raises |-> 0, crashes |-> 0, losses |-> 0]

-----------------------------------------------------------------------------
RootOk == root = RootEntries

\* A load accepts the material: every name is there and every file decodes to
\* what the transaction says.
Complete(t) ==
  /\ \A n \in Names : <<t, n>> \in entries
  /\ \A i \in 1 .. Len(Files) : bytes[t][i] # "torn"

Release(c) ==
  /\ held' = [held EXCEPT ![c] = "none"]
  /\ pc' = [pc EXCEPT ![c] = "idle"]

Goto(c, from, next) ==
  /\ pc[c] = from
  /\ pc' = [pc EXCEPT ![c] = next]
  /\ UNCHANGED held

\* A creation has built the material first, from the transaction and the
\* preimages it was given: without exactly the MODIFY files' bytes it raises.
Begin(c) ==
  /\ spent.calls < MaxCalls
  /\ \E op \in {"create", "load"} \cup (IF RootReady THEN {} ELSE {"initialize"}),
        t \in Transactions :
       /\ call' = [call EXCEPT ![c] = [op |-> op, transaction |-> t, file |-> 1]]
       /\ Goto(c, "idle", IF op = "initialize" THEN "list" ELSE "look")
  /\ spent' = [spent EXCEPT !.calls = @ + 1]
  /\ UNCHANGED <<disk, history>>

-----------------------------------------------------------------------------
\* initialize: an empty root is filled; another is only validated.
ListRoot(c) ==
  /\ Goto(c, "list", IF root = {} THEN "makeLock" ELSE "validate")
  /\ UNCHANGED <<disk, call, history, spent>>

\* O_EXCL creation of the lock file, and mkdir: each raises on an existing name.
MakeRootEntry(c, from, name, next) ==
  /\ name \notin root
  /\ Goto(c, from, next)
  /\ root' = root \cup {name}
  /\ UNCHANGED <<rootSafe, entries, safe, bytes, call, history, spent>>

MakeLock(c) == MakeRootEntry(c, "makeLock", "lock", "makeTransactions")
MakeTransactions(c) == MakeRootEntry(c, "makeTransactions", "transactions", "syncRoot")

SyncRoot(c) ==
  /\ Goto(c, "syncRoot", "validate")
  /\ rootSafe' = root
  /\ UNCHANGED <<root, entries, safe, bytes, call, history, spent>>

Initialized(c) ==
  /\ pc[c] = "validate" /\ RootOk
  /\ Release(c)
  /\ UNCHANGED <<disk, call, history, spent>>

-----------------------------------------------------------------------------
\* The first validation of the root, without the lock.
Look(c) ==
  /\ RootOk /\ Goto(c, "look", "lock")
  /\ UNCHANGED <<disk, call, history, spent>>

\* Mutation of LockMode: a creation takes the lock shared.
LockModeShared(c) == "SH"

LockMode(c) == IF call[c].op = "load" THEN "SH" ELSE "EX"

Acquire(c) ==
  /\ pc[c] = "lock"
  /\ \A d \in Callers : held[d] # "EX" /\ (LockMode(c) = "EX" => held[d] = "none")
  /\ held' = [held EXCEPT ![c] = LockMode(c)]
  /\ pc' = [pc EXCEPT ![c] = "locked"]
  /\ UNCHANGED <<disk, call, history, spent>>

Refuse(c) ==
  /\ \/ pc[c] \in {"look", "locked", "validate"} /\ ~RootOk
     \/ pc[c] = "makeLock" /\ "lock" \in root
     \/ pc[c] = "makeTransactions" /\ "transactions" \in root
     \/ pc[c] = "locked" /\ call[c].op = "load" /\ ~Complete(T(c))
     \/ pc[c] = "locked" /\ call[c].op = "create" /\ <<T(c), "directory">> \in entries
  /\ Release(c)
  /\ UNCHANGED <<disk, call, history, spent>>

\* Mutation of ReturnLoaded: the manifest alone is read.
ReturnLoadedByManifest(c) ==
  /\ pc[c] = "locked" /\ RootOk /\ call[c].op = "load"
  /\ <<T(c), "directory">> \in entries
  /\ loaded' = loaded \cup {T(c)}
  /\ Release(c)
  /\ UNCHANGED <<disk, call, acked, spent>>

\* load_promotion_recovery_materials and load_promotion_recovery_preimages.
ReturnLoaded(c) ==
  /\ pc[c] = "locked" /\ RootOk /\ call[c].op = "load" /\ Complete(T(c))
  /\ loaded' = loaded \cup {T(c)}
  /\ Release(c)
  /\ UNCHANGED <<disk, call, acked, spent>>

-----------------------------------------------------------------------------
MakeName(c, from, name, next) ==
  /\ Goto(c, from, next)
  /\ entries' = entries \cup {<<T(c), name>>}
  /\ UNCHANGED <<root, rootSafe, safe, history, spent>>

MakeDirectory(c) ==
  /\ RootOk /\ call[c].op = "create" /\ <<T(c), "directory">> \notin entries
  /\ MakeName(c, "locked", "directory", "mkPreimages")
  /\ UNCHANGED <<bytes, call>>

MakePreimages(c) ==
  /\ MakeName(c, "mkPreimages", "preimages",
       IF Modified = <<>> THEN "syncPreimages" ELSE "open")
  /\ UNCHANGED <<bytes, call>>

SetBytes(c, state) == bytes' = [bytes EXCEPT ![T(c)][call[c].file] = state]

OpenFile(c) ==
  /\ MakeName(c, "open", TheFile(c), "write")
  /\ SetBytes(c, "torn")
  /\ UNCHANGED call

WriteFile(c) ==
  /\ Goto(c, "write", "sync")
  /\ SetBytes(c, "whole")
  /\ UNCHANGED <<root, rootSafe, entries, safe, call, history, spent>>

AfterFile(i) ==
  IF i < Len(Modified) THEN "open"
  ELSE IF i = Len(Modified) THEN "syncPreimages" ELSE "syncTransaction"

\* Mutation of SyncFile: the bytes of a file are not fsynced.
SyncFileNot(c) ==
  /\ Goto(c, "sync", AfterFile(call[c].file))
  /\ call' = [call EXCEPT ![c].file = IF @ < Len(Modified) THEN @ + 1 ELSE @]
  /\ UNCHANGED <<disk, history, spent>>

SyncFile(c) ==
  /\ Goto(c, "sync", AfterFile(call[c].file))
  /\ SetBytes(c, "durable")
  /\ call' = [call EXCEPT ![c].file = IF @ < Len(Modified) THEN @ + 1 ELSE @]
  /\ UNCHANGED <<root, rootSafe, entries, safe, history, spent>>

\* An fsync of a directory makes the names in it durable.
SyncDirectory(c, from, names, next) ==
  /\ Goto(c, from, next)
  /\ safe' = safe \cup (entries \cap names)
  /\ UNCHANGED <<root, rootSafe, entries, bytes, history, spent>>

\* The manifest is written after the preimages are durable.
SyncPreimages(c) ==
  /\ SyncDirectory(c, "syncPreimages", {T(c)} \X Preimages, "open")
  /\ call' = [call EXCEPT ![c].file = Len(Files)]

SyncTransaction(c) ==
  /\ SyncDirectory(c, "syncTransaction", {T(c)} \X {"preimages", "manifest"},
       "syncTransactions")
  /\ UNCHANGED call

\* Mutation of SyncTransactions: the name of the new directory is not fsynced.
SyncTransactionsNot(c) ==
  /\ Goto(c, "syncTransactions", "verify")
  /\ UNCHANGED <<disk, call, history, spent>>

SyncTransactions(c) ==
  /\ SyncDirectory(c, "syncTransactions", Transactions \X {"directory"}, "verify")
  /\ UNCHANGED call

\* The material is loaded again and compared before the creation returns.
Acknowledge(c) ==
  /\ pc[c] = "verify" /\ Complete(T(c))
  /\ acked' = acked \cup {T(c)}
  /\ Release(c)
  /\ UNCHANGED <<disk, call, loaded, spent>>

-----------------------------------------------------------------------------

\* A system call fails: the call raises, and what it made so far remains.
Raise(c) ==
  /\ pc[c] # "idle" /\ spent.raises < MaxRaises
  /\ spent' = [spent EXCEPT !.raises = @ + 1]
  /\ Release(c)
  /\ UNCHANGED <<disk, call, history>>

Crash(c) ==
  /\ pc[c] # "idle" /\ spent.crashes < MaxCrashes
  /\ spent' = [spent EXCEPT !.crashes = @ + 1]
  /\ Release(c)
  /\ UNCHANGED <<disk, call, history>>

\* A name is found again when the names of all directories above it are.
Above(n) ==
  IF n = "directory" THEN {}
  ELSE IF n \in Preimages THEN {"directory", "preimages"} ELSE {"directory"}

\* Power is lost: a name never fsynced may be gone, with all that is below it,
\* and bytes never fsynced may be torn.
PowerLoss ==
  /\ spent.losses < MaxPowerLosses
  /\ spent' = [spent EXCEPT !.losses = @ + 1]
  /\ \E rootKept \in SUBSET (root \ rootSafe), kept \in SUBSET (entries \ safe),
        torn \in SUBSET {x \in Transactions \X (1 .. Len(Files)) :
                           bytes[x[1]][x[2]] = "whole"} :
       /\ root' = rootSafe \cup rootKept
       /\ entries' = IF "transactions" \notin root' THEN {}
            ELSE {e \in safe \cup kept :
                    \A a \in Above(e[2]) : <<e[1], a>> \in safe \cup kept}
       /\ rootSafe' = root' /\ safe' = entries'
       /\ bytes' = [t \in Transactions |-> [i \in 1 .. Len(Files) |->
            IF <<t, i>> \in torn THEN "torn"
            ELSE IF bytes[t][i] = "whole" THEN "durable" ELSE bytes[t][i]]]
  /\ held' = [c \in Callers |-> "none"]
  /\ pc' = [c \in Callers |-> "idle"]
  /\ UNCHANGED <<call, history>>

Step(c) ==
  \/ ListRoot(c) \/ MakeLock(c) \/ MakeTransactions(c) \/ SyncRoot(c) \/ Initialized(c)
  \/ Look(c) \/ Acquire(c) \/ Refuse(c) \/ ReturnLoaded(c)
  \/ MakeDirectory(c) \/ MakePreimages(c) \/ OpenFile(c) \/ WriteFile(c) \/ SyncFile(c)
  \/ SyncPreimages(c) \/ SyncTransaction(c) \/ SyncTransactions(c) \/ Acknowledge(c)

Next ==
  \/ \E c \in Callers : Begin(c) \/ Step(c) \/ Raise(c) \/ Crash(c)
  \/ PowerLoss

Spec == Init /\ [][Next]_vars

-----------------------------------------------------------------------------
TypeOK ==
  /\ root \subseteq RootEntries /\ rootSafe \subseteq root
  /\ entries \subseteq Transactions \X Names /\ safe \subseteq entries
  /\ bytes \in [Transactions -> [1 .. Len(Files) -> {"torn", "whole", "durable"}]]
  /\ held \in [Callers -> {"none", "SH", "EX"}]
  /\ pc \in [Callers -> PCs]
  /\ call \in [Callers -> Calls]
  /\ acked \subseteq Transactions /\ loaded \subseteq Transactions
  /\ spent \in [calls : Nat, raises : Nat, crashes : Nat, losses : Nat]

\* Every name and every byte of the material has been fsynced; it survives a
\* power loss when the entries of the root do.
AllSynced(t) ==
  /\ \A n \in Names : <<t, n>> \in safe
  /\ \A i \in 1 .. Len(Files) : bytes[t][i] = "durable"

Durable(t) == rootSafe = RootEntries /\ AllSynced(t)

\* Material whose creation returned can be loaded for good: the preimages that
\* a rollback needs are on disk before the promotion that needs them begins.
AckedIsDurable == \A t \in acked : Durable(t)

\* A manifest next to its directory of preimages stands on preimages that are
\* whole and durable: however a creation ends, at whatever moment power is lost,
\* nobody finds a manifest that promises bytes a power loss takes back.
ManifestIsLast ==
  \A t \in Transactions : {<<t, "manifest">>, <<t, "preimages">>} \subseteq entries =>
    \A i \in 1 .. Len(Modified) :
      <<t, Modified[i]>> \in safe /\ bytes[t][i] = "durable"

\* Without a failure, a death or a power loss the holder of the lock meets no
\* half-made material: a load raises only for material nobody has made.
LockedIsWhole ==
  spent.raises + spent.crashes + spent.losses = 0 =>
    \A c \in Callers : pc[c] = "locked" =>
      (<<T(c), "directory">> \in entries => Complete(T(c)))

-----------------------------------------------------------------------------
(***************************************************************************)
(* Why those hold: the lock makes the caller that creates the only one     *)
(* that is past its look, nobody creates in a directory that exists, and   *)
(* the file that a creation is at tells which names and bytes of its       *)
(* material are there, and which are durable.                              *)
(***************************************************************************)
ReadyInv ==
  /\ root = RootEntries /\ rootSafe = RootEntries
  /\ \A c \in Callers : pc[c] \notin InitPCs \cup {"list"} /\ call[c].op # "initialize"

\* A creation starts with the first file.
StartInv ==
  \A c \in Callers : pc[c] \in {"look", "lock", "locked"} => call[c].file = 1

LockInv ==
  \A c \in Callers :
    /\ pc[c] \in {"idle", "look", "lock"} => held[c] = "none"
    /\ pc[c] = "locked" => held[c] = LockMode(c)
    /\ pc[c] \in CreatePCs => held[c] = "EX" /\ call[c].op = "create"
    /\ held[c] = "EX" => \A d \in Callers \ {c} : held[d] = "none"

\* Nothing is there without the directories above it.
TreeInv == \A e \in entries : \A a \in Above(e[2]) : <<e[1], a>> \in entries

\* How many files a creation has opened, and how many it has fsynced.
Opened(c) ==
  CASE pc[c] = "mkPreimages"        -> 0
    [] pc[c] = "open"               -> call[c].file - 1
    [] pc[c] \in {"write", "sync"}  -> call[c].file
    [] pc[c] = "syncPreimages"      -> Len(Modified)
    [] OTHER                        -> Len(Files)

Synced(c) == IF pc[c] \in {"write", "sync"} THEN call[c].file - 1 ELSE Opened(c)

CreatorInv ==
  \A c \in Callers : pc[c] \in CreatePCs =>
    LET t == T(c)
        last == call[c].file = Len(Files) /\ pc[c] \notin {"mkPreimages", "syncPreimages"}
    IN  /\ t \notin acked
        /\ <<t, "directory">> \in entries
        /\ pc[c] = "mkPreimages" => call[c].file = 1
        /\ pc[c] # "mkPreimages" => <<t, "preimages">> \in entries
        /\ \A k \in 1 .. Opened(c) : <<t, Files[k]>> \in entries
        /\ <<t, "manifest">> \in entries => last /\ pc[c] # "open"
        /\ \A k \in 1 .. Synced(c) : bytes[t][k] = "durable"
        /\ last => \A k \in 1 .. Len(Modified) : <<t, Modified[k]>> \in safe
        /\ pc[c] \in {"syncTransaction", "syncTransactions", "verify"} => last
        /\ pc[c] \in {"syncTransactions", "verify"} =>
             {<<t, "preimages">>, <<t, "manifest">>} \subseteq safe
        /\ pc[c] = "verify" => <<t, "directory">> \in safe

\* Where nothing fails, material that is not complete is being made.
CleanInv ==
  spent.raises + spent.crashes + spent.losses = 0 =>
    \A t \in Transactions : <<t, "directory">> \in entries =>
      Complete(t) \/ \E c \in Callers : pc[c] \in CreatePCs /\ T(c) = t

KeptInv == \A t \in acked : AllSynced(t)

\* All but ReadyInv holds in a root that is being initialised as well.
MaterialsInv ==
  StartInv /\ LockInv /\ TreeInv /\ CreatorInv /\ CleanInv /\ KeptInv

-----------------------------------------------------------------------------
Making(t) == \E c \in Callers : pc[c] \in CreatePCs /\ T(c) = t

Status(t) ==
  IF <<t, "directory">> \notin entries THEN "absent"
  ELSE IF Complete(t) THEN "ready"
  ELSE IF Making(t) THEN "making" ELSE "broken"

Vault == INSTANCE MaterialsVault WITH
  status <- [t \in Transactions |-> Status(t)],
  shown <- acked \cup loaded, kept <- acked, losses <- spent.losses
=============================================================================
