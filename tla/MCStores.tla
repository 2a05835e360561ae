------------------------------ MODULE MCStores ------------------------------
(***************************************************************************)
(* An instance for TLC of the three modules that put evidence on disk: the *)
(* store of candidates, the audit of one session, and the recovery         *)
(* materials, once in a root that is ready and once from an empty root on. *)
(* They share no state in the program; `part` says which of them a         *)
(* behaviour is about, and they share the variables here.                  *)
(***************************************************************************)
EXTENDS CandidateStore, Sequences, TLC

CONSTANTS
  c1, c2, k1, k2, w1, w2, w3, NoFile, Transactions, Modified, Writers

MCCallers == {c1, c2}
MCCandidates == {k1, k2}
MCTransactions == {k1, k2}
MCWriters == {w1, w2, w3}
MCModified == <<"a.preimage">>

StoresSymmetry == Permutations(MCCallers) \cup Permutations(MCCandidates)

VARIABLES part, path, root, rootSafe, entries, bytes

Audit == INSTANCE SessionAudit
Materials == INSTANCE RecoveryMaterials WITH RootReady <- TRUE, MaxCalls <- 3
Initialised == INSTANCE RecoveryMaterials WITH
                 RootReady <- FALSE, MaxCalls <- 3, MaxPowerLosses <- 0

ASSUME StoresAssumption ==
  Audit!AuditAssumption /\ Materials!MaterialsAssumption

allVars == <<vars, part, path, root, rootSafe, entries, bytes>>

StoresInit ==
  \/ /\ part = "candidates" /\ Init
     /\ path = {} /\ root = {} /\ rootSafe = {} /\ entries = {} /\ bytes = {}
  \/ /\ part = "audit" /\ Audit!Init
     /\ names = {} /\ held = {} /\ call = {} /\ loaded = {}
     /\ root = {} /\ rootSafe = {} /\ entries = {} /\ bytes = {}
  \/ /\ \/ part = "materials" /\ Materials!Init
        \/ part = "root" /\ Initialised!Init
     /\ names = {} /\ file = {} /\ path = {}

StoresNext ==
  /\ UNCHANGED part
  /\ \/ /\ part = "candidates" /\ Next
        /\ UNCHANGED <<path, root, rootSafe, entries, bytes>>
     \/ /\ part = "audit" /\ Audit!Next
        /\ UNCHANGED <<names, held, call, loaded, root, rootSafe, entries, bytes>>
     \/ /\ \/ part = "materials" /\ Materials!Next
           \/ part = "root" /\ Initialised!Next
        /\ UNCHANGED <<names, file, path>>

StoresSpec == StoresInit /\ [][StoresNext]_allVars

-----------------------------------------------------------------------------
\* Every behaviour of the candidate store is one of the abstract register: a
\* candidate is there as a whole or not at all, a power loss takes none that a
\* persist returned, and hides one that a load returned only by closing the
\* store.
StoreImplementsRegister ==
  /\ part = "candidates" => Register!RInit
  /\ [][part = "candidates" => Register!RNext \/ UNCHANGED Register!rvars]_allVars

\* Every behaviour of the recovery materials is one of the abstract vault:
\* material is made at most once, what was broken off is never given to anyone,
\* and what a creation acknowledged survives every power loss.
MaterialsImplementVault ==
  /\ part \in {"materials", "root"} => Materials!Vault!VInit
  /\ [][(part \in {"materials", "root"}) =>
          Materials!Vault!VNext \/ UNCHANGED Materials!Vault!vvars]_allVars

\* What a persist, a creation or a load of a candidate returned is durable, and
\* a manifest next to its preimages stands on preimages that are whole and
\* durable, at whatever moment a call ends or power is lost; and where nothing
\* fails, no holder of the lock meets evidence that is half made.
EvidenceIsSound ==
  /\ part = "candidates" =>
       /\ TypeOK /\ StoreInv /\ AckedIsSettled /\ LoadedIsDurable /\ PersistedOnce
       /\ LockedStoreIsWhole
  /\ part \in {"materials", "root"} =>
       /\ Materials!TypeOK /\ Materials!MaterialsInv
       /\ Materials!ManifestIsLast /\ Materials!LockedIsWhole
  /\ part = "materials" => Materials!ReadyInv /\ Materials!AckedIsDurable

\* The audit record that a writer was told of is the session's record for good,
\* whole and under one name, whatever other writers, failures and power losses
\* follow; and writers that hinder each other do not all fail.
AuditIsForever ==
  part = "audit" =>
    /\ Audit!TypeOK /\ Audit!NamesInv /\ Audit!ProgressInv
    /\ Audit!AckedIsForever /\ Audit!AckedHasOneName /\ Audit!FinalIsWhole /\ Audit!OneWriterSucceeds
=============================================================================
