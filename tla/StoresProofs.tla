---------------------------- MODULE StoresProofs ----------------------------
(***************************************************************************)
(* What is on disk is what somebody was told of: the audit of a session,   *)
(* the candidate store and the recovery materials, for any numbers of      *)
(* writers, callers, candidates, failures and power losses.                *)
(***************************************************************************)
EXTENDS MCStores, SequenceTheorems, TLAPS

-----------------------------------------------------------------------------
(***************************************************************************)
(* The audit of one session (SessionAudit).                                *)
(***************************************************************************)
AuditIInv ==
  /\ Audit!TypeOK /\ Audit!NamesInv /\ Audit!ProgressInv
  /\ Audit!AckedIsForever /\ Audit!AckedHasOneName /\ Audit!FinalIsWhole

LEMMA AuditConstants ==
  NoFile \notin Writers /\ Writers # {}
BY StoresAssumption DEF Audit!AuditAssumption

LEMMA AuditInit ==
  ASSUME Audit!Init
  PROVE  AuditIInv
<1> USE AuditConstants DEF Audit!Init, Audit!Names
<1>1. Audit!TypeOK
  BY DEF Audit!TypeOK, Audit!PCs
<1>2. Audit!NamesInv /\ Audit!ProgressInv
  BY DEF Audit!NamesInv, Audit!ProgressInv, Audit!TemporaryPCs, Audit!FinalPCs
<1>3. Audit!AckedIsForever /\ Audit!AckedHasOneName /\ Audit!FinalIsWhole
  BY DEF Audit!AckedIsForever, Audit!AckedHasOneName, Audit!FinalIsWhole
<1> QED BY <1>1, <1>2, <1>3 DEF AuditIInv

\* The steps that leave the names alone, and the file unless it is w's own.
LEMMA AuditLooks ==
  ASSUME AuditIInv, NEW w \in Writers,
         \/ Audit!DestinationMustNotExist(w) \/ Audit!WriteAll(w) \/ Audit!SyncFile(w)
         \/ Audit!VerifyTemporaryIdentity(w) \/ Audit!VerifyLinkTransition(w)
  PROVE  AuditIInv'
<1> USE AuditConstants DEF AuditIInv
<1>1. /\ UNCHANGED <<path, safe, acked, spent>>
      /\ \/ /\ pc[w] = "start" /\ file' = file
            /\ \/ path["final"] = NoFile /\ pc' = [pc EXCEPT ![w] = "open"]
               \/ path["final"] # NoFile /\ pc' = [pc EXCEPT ![w] = "end"]
         \/ /\ pc[w] = "write" /\ pc' = [pc EXCEPT ![w] = "sync"]
            /\ file' = [file EXCEPT ![w] = "written"]
         \/ /\ pc[w] = "sync" /\ pc' = [pc EXCEPT ![w] = "verify"]
            /\ file' = [file EXCEPT ![w] = "durable"]
         \/ /\ pc[w] = "verify" /\ file' = file
            /\ pc' = [pc EXCEPT ![w] = "link"]
         \/ /\ pc[w] = "verifyLink" /\ file' = file
            /\ pc' = [pc EXCEPT ![w] = "unlink"]
  <2>1. CASE Audit!DestinationMustNotExist(w)
    BY <2>1 DEF Audit!DestinationMustNotExist, Audit!Goto
  <2>2. CASE Audit!WriteAll(w)
    BY <2>2 DEF Audit!WriteAll, Audit!FileStep, Audit!Goto
  <2>3. CASE Audit!SyncFile(w)
    BY <2>3 DEF Audit!SyncFile, Audit!FileStep, Audit!Goto
  <2>4. CASE Audit!VerifyTemporaryIdentity(w)
    <3>1. pc[w] = "verify"
      BY <2>4 DEF Audit!VerifyTemporaryIdentity, Audit!Goto
    <3>2. path["temporary"] = w /\ path["final"] # w
      BY <3>1 DEF Audit!NamesInv, Audit!TemporaryPCs, Audit!Names
    <3>3. Audit!OnlyName(w, "temporary")
      BY <3>2 DEF Audit!OnlyName, Audit!Names
    <3> QED BY <2>4, <3>3 DEF Audit!VerifyTemporaryIdentity, Audit!Goto
  <2>5. CASE Audit!VerifyLinkTransition(w)
    <3>1. pc[w] = "verifyLink"
      BY <2>5 DEF Audit!VerifyLinkTransition, Audit!Goto
    <3>2. path["temporary"] = w /\ path["final"] = w
      BY <3>1 DEF Audit!NamesInv, Audit!TemporaryPCs, Audit!FinalPCs
    <3> QED BY <2>5, <3>2 DEF Audit!VerifyLinkTransition, Audit!Goto, Audit!Names
  <2> QED BY <2>1, <2>2, <2>3, <2>4, <2>5
<1>2. Audit!TypeOK'
  BY <1>1 DEF Audit!TypeOK, Audit!PCs
<1>3. Audit!NamesInv'
  BY <1>1 DEF Audit!TypeOK, Audit!NamesInv, Audit!TemporaryPCs, Audit!FinalPCs
<1>4. Audit!ProgressInv'
  BY <1>1 DEF Audit!TypeOK, Audit!NamesInv, Audit!ProgressInv, Audit!TemporaryPCs,
              Audit!FinalPCs, Audit!Names
<1>5. w \notin acked /\ (file' # file => w \notin safe["final"] \cup {path["final"]})
  BY <1>1 DEF Audit!TypeOK, Audit!NamesInv, Audit!Names
<1>6. Audit!AckedIsForever' /\ Audit!AckedHasOneName' /\ Audit!FinalIsWhole'
  BY <1>1, <1>5 DEF Audit!TypeOK, Audit!AckedIsForever, Audit!AckedHasOneName, Audit!FinalIsWhole
<1> QED BY <1>2, <1>3, <1>4, <1>6

\* The temporary name is taken while nobody has it.
LEMMA AuditOpens ==
  ASSUME AuditIInv, NEW w \in Writers, Audit!OpenTemporary(w)
  PROVE  AuditIInv'
<1> USE AuditConstants DEF AuditIInv
<1>0. UNCHANGED <<file, acked, spent>> /\ pc[w] = "open"
  BY DEF Audit!OpenTemporary, Audit!Goto
<1>1. CASE path["temporary"] = NoFile
  <2>1. /\ path' = [path EXCEPT !["temporary"] = w]
        /\ safe' = [safe EXCEPT !["temporary"] = @ \cup {w}]
        /\ pc' = [pc EXCEPT ![w] = "write"]
    BY <1>1 DEF Audit!OpenTemporary, Audit!SetName, Audit!Goto
  <2>2. Audit!TypeOK'
    BY <1>0, <2>1 DEF Audit!TypeOK, Audit!PCs, Audit!Names
  <2>3. /\ path'["final"] = path["final"] /\ safe'["final"] = safe["final"]
        /\ path'["temporary"] = w /\ safe'["temporary"] = safe["temporary"] \cup {w}
    BY <2>1 DEF Audit!TypeOK, Audit!Names
  <2>4. \A v \in Writers : pc[v] \notin Audit!TemporaryPCs
    BY <1>1 DEF Audit!NamesInv
  <2>5. Audit!NamesInv'
    BY <1>0, <2>1, <2>3, <2>4
       DEF Audit!TypeOK, Audit!NamesInv, Audit!TemporaryPCs, Audit!FinalPCs, Audit!Names
  <2>6. Audit!ProgressInv'
    BY <1>0, <2>1, <2>3 DEF Audit!TypeOK, Audit!NamesInv, Audit!ProgressInv,
       Audit!FinalPCs, Audit!Names
  <2>7. w \notin acked
    BY <1>0 DEF Audit!NamesInv
  <2>8. Audit!AckedIsForever' /\ Audit!AckedHasOneName' /\ Audit!FinalIsWhole'
    BY <1>0, <2>3, <2>7
       DEF Audit!AckedIsForever, Audit!AckedHasOneName, Audit!FinalIsWhole
  <2> QED BY <2>2, <2>5, <2>6, <2>8
<1>2. CASE path["temporary"] # NoFile
  <2>1. UNCHANGED <<path, safe>> /\ pc' = [pc EXCEPT ![w] = "end"]
    BY <1>2 DEF Audit!OpenTemporary, Audit!Goto
  <2>2. Audit!TypeOK'
    BY <1>0, <2>1 DEF Audit!TypeOK, Audit!PCs
  <2>3. Audit!NamesInv'
    BY <1>0, <2>1 DEF Audit!TypeOK, Audit!NamesInv, Audit!TemporaryPCs, Audit!FinalPCs
  <2>4. Audit!ProgressInv'
    BY <1>0, <1>2, <2>1 DEF Audit!TypeOK, Audit!ProgressInv, Audit!FinalPCs
  <2>5. Audit!AckedIsForever' /\ Audit!AckedHasOneName' /\ Audit!FinalIsWhole'
    BY <1>0, <2>1 DEF Audit!AckedIsForever, Audit!AckedHasOneName, Audit!FinalIsWhole
  <2> QED BY <2>2, <2>3, <2>4, <2>5
<1> QED BY <1>1, <1>2

\* The final name is given to the writer's own file, or was taken before.
LEMMA AuditLinks ==
  ASSUME AuditIInv, NEW w \in Writers, Audit!Link(w)
  PROVE  AuditIInv'
<1> USE AuditConstants DEF AuditIInv
<1>0. /\ UNCHANGED <<file, acked, spent>> /\ pc[w] = "link" /\ path["temporary"] = w
      /\ file[w] = "durable" /\ w \notin safe["final"]
  BY DEF Audit!Link, Audit!Goto, Audit!NamesInv, Audit!TemporaryPCs
<1>1. CASE path["final"] = NoFile
  <2>1. /\ path' = [path EXCEPT !["final"] = w]
        /\ safe' = [safe EXCEPT !["final"] = @ \cup {w}]
        /\ pc' = [pc EXCEPT ![w] = "syncLink"]
    BY <1>0, <1>1 DEF Audit!Link, Audit!SetName, Audit!Goto
  <2>2. Audit!TypeOK'
    BY <1>0, <2>1 DEF Audit!TypeOK, Audit!PCs, Audit!Names
  <2>3. /\ path'["temporary"] = w /\ safe'["temporary"] = safe["temporary"]
        /\ path'["final"] = w /\ safe'["final"] = safe["final"] \cup {w}
    BY <1>0, <2>1 DEF Audit!TypeOK, Audit!Names
  <2>4. \A v \in Writers : pc[v] \notin Audit!FinalPCs /\ v \notin acked
    BY <1>1 DEF Audit!NamesInv, Audit!AckedIsForever
  <2>5. Audit!NamesInv'
    BY <1>0, <2>1, <2>3, <2>4
       DEF Audit!TypeOK, Audit!NamesInv, Audit!TemporaryPCs, Audit!FinalPCs, Audit!Names
  <2>6. Audit!ProgressInv'
    BY <1>0, <2>1, <2>3 DEF Audit!TypeOK, Audit!ProgressInv, Audit!FinalPCs
  <2>7. Audit!AckedIsForever' /\ Audit!AckedHasOneName' /\ Audit!FinalIsWhole'
    BY <1>0, <2>3, <2>4
       DEF Audit!TypeOK, Audit!AckedIsForever, Audit!AckedHasOneName, Audit!FinalIsWhole
  <2> QED BY <2>2, <2>5, <2>6, <2>7
<1>2. CASE path["final"] # NoFile
  <2>1. UNCHANGED <<path, safe>> /\ pc' = [pc EXCEPT ![w] = "end"]
    BY <1>2 DEF Audit!Link, Audit!Goto
  <2>2. Audit!TypeOK'
    BY <1>0, <2>1 DEF Audit!TypeOK, Audit!PCs
  <2>3. Audit!NamesInv'
    BY <1>0, <2>1 DEF Audit!TypeOK, Audit!NamesInv, Audit!TemporaryPCs, Audit!FinalPCs
  <2>4. path["final"] # w
    BY <1>0 DEF Audit!NamesInv, Audit!Names
  <2>5. Audit!ProgressInv'
    BY <1>0, <1>2, <2>1, <2>4 DEF Audit!TypeOK, Audit!ProgressInv, Audit!FinalPCs, Audit!Names
  <2>6. Audit!AckedIsForever' /\ Audit!AckedHasOneName' /\ Audit!FinalIsWhole'
    BY <1>0, <2>1 DEF Audit!AckedIsForever, Audit!AckedHasOneName, Audit!FinalIsWhole
  <2> QED BY <2>2, <2>3, <2>5, <2>6
<1> QED BY <1>1, <1>2

LEMMA AuditSyncs ==
  ASSUME AuditIInv, NEW w \in Writers, Audit!SyncLink(w) \/ Audit!SyncUnlink(w)
  PROVE  AuditIInv'
<1> USE AuditConstants DEF AuditIInv
<1>1. /\ UNCHANGED <<path, file, acked, spent>> /\ safe' = [n \in Audit!Names |-> {path[n]}]
      /\ \/ pc[w] = "syncLink" /\ pc' = [pc EXCEPT ![w] = "verifyLink"]
         \/ pc[w] = "syncUnlink" /\ pc' = [pc EXCEPT ![w] = "read"]
  BY DEF Audit!SyncLink, Audit!SyncUnlink, Audit!SyncDirectory, Audit!Goto
<1>2. \A n \in Audit!Names :
        path[n] \in safe[n] /\ safe'[n] = {path[n]} /\ safe'[n] \subseteq safe[n]
  BY <1>1 DEF Audit!NamesInv
<1>3. Audit!TypeOK'
  BY <1>1 DEF Audit!TypeOK, Audit!PCs
<1>4. Audit!NamesInv'
  BY <1>1, <1>2
     DEF Audit!TypeOK, Audit!NamesInv, Audit!TemporaryPCs, Audit!FinalPCs, Audit!Names
<1>5. Audit!ProgressInv'
  BY <1>1 DEF Audit!TypeOK, Audit!ProgressInv, Audit!FinalPCs, Audit!Names
<1>6. Audit!AckedIsForever' /\ Audit!AckedHasOneName' /\ Audit!FinalIsWhole'
  BY <1>1, <1>2
     DEF Audit!Names, Audit!AckedIsForever, Audit!AckedHasOneName, Audit!FinalIsWhole
<1> QED BY <1>3, <1>4, <1>5, <1>6

LEMMA AuditUnlinks ==
  ASSUME AuditIInv, NEW w \in Writers, Audit!Unlink(w)
  PROVE  AuditIInv'
<1> USE AuditConstants DEF AuditIInv
<1>0. pc[w] = "unlink" /\ path["temporary"] = w /\ path["final"] = w
  BY DEF Audit!Unlink, Audit!Goto, Audit!NamesInv, Audit!TemporaryPCs, Audit!FinalPCs
<1>1. /\ UNCHANGED <<file, acked, spent>>
      /\ path' = [path EXCEPT !["temporary"] = NoFile]
      /\ safe' = [safe EXCEPT !["temporary"] = @ \cup {NoFile}]
      /\ pc' = [pc EXCEPT ![w] = "syncUnlink"]
  BY <1>0 DEF Audit!Unlink, Audit!SetName, Audit!Goto
<1>2. Audit!TypeOK'
  BY <1>1 DEF Audit!TypeOK, Audit!PCs, Audit!Names
<1>3. /\ path'["final"] = path["final"] /\ safe'["final"] = safe["final"]
      /\ path'["temporary"] = NoFile /\ safe'["temporary"] = safe["temporary"] \cup {NoFile}
  BY <1>1 DEF Audit!TypeOK, Audit!Names
<1>4. \A v \in Writers \ {w} : pc[v] \notin Audit!TemporaryPCs /\ pc[v] \notin Audit!FinalPCs
  BY <1>0 DEF Audit!NamesInv
<1>5. Audit!NamesInv'
  BY <1>0, <1>1, <1>3, <1>4
     DEF Audit!TypeOK, Audit!NamesInv, Audit!TemporaryPCs, Audit!FinalPCs, Audit!Names
<1>6. Audit!ProgressInv'
  BY <1>0, <1>1, <1>3 DEF Audit!TypeOK, Audit!ProgressInv, Audit!FinalPCs
<1>7. Audit!AckedIsForever' /\ Audit!AckedHasOneName' /\ Audit!FinalIsWhole'
  BY <1>1, <1>3 DEF Audit!TypeOK, Audit!AckedIsForever, Audit!AckedHasOneName,
                   Audit!FinalIsWhole
<1> QED BY <1>2, <1>5, <1>6, <1>7

\* A writer that reads its record back is told.
LEMMA AuditTells ==
  ASSUME AuditIInv, NEW w \in Writers, Audit!VerifyFinalFile(w)
  PROVE  AuditIInv'
<1> USE AuditConstants DEF AuditIInv
<1>0. /\ UNCHANGED <<path, safe, file, spent>> /\ pc[w] = "read"
      /\ pc' = [pc EXCEPT ![w] = "end"]
  BY DEF Audit!VerifyFinalFile, Audit!Goto
<1>1. /\ path["final"] = w /\ path["temporary"] # w /\ safe["final"] = {w}
      /\ w \notin safe["temporary"] /\ file[w] = "durable"
  BY <1>0 DEF Audit!NamesInv, Audit!FinalPCs, Audit!Names
<1>2. Audit!OnlyName(w, "final")
  BY <1>1 DEF Audit!OnlyName, Audit!Names
<1>3. acked' = acked \cup {w}
  BY <1>1, <1>2 DEF Audit!VerifyFinalFile
<1>4. Audit!TypeOK'
  BY <1>0, <1>3 DEF Audit!TypeOK, Audit!PCs
<1>5. Audit!NamesInv'
  BY <1>0, <1>3 DEF Audit!TypeOK, Audit!NamesInv, Audit!TemporaryPCs, Audit!FinalPCs
<1>6. Audit!ProgressInv'
  BY <1>0, <1>1, <1>3 DEF Audit!ProgressInv
<1>7. Audit!AckedIsForever' /\ Audit!AckedHasOneName' /\ Audit!FinalIsWhole'
  BY <1>0, <1>1, <1>3 DEF Audit!AckedIsForever, Audit!AckedHasOneName, Audit!FinalIsWhole
<1> QED BY <1>4, <1>5, <1>6, <1>7

LEMMA AuditFails ==
  ASSUME AuditIInv, NEW w \in Writers, Audit!Raise(w) \/ Audit!Crash(w)
  PROVE  AuditIInv'
<1> USE AuditConstants DEF AuditIInv
<1>1. /\ UNCHANGED <<path, safe, file, acked>> /\ pc' = [pc EXCEPT ![w] = "end"]
      /\ \/ spent' = [spent EXCEPT !.raises = @ + 1]
         \/ spent' = [spent EXCEPT !.crashes = @ + 1]
  BY DEF Audit!Raise, Audit!Crash, Audit!Goto
<1>2. Audit!TypeOK'
  BY <1>1 DEF Audit!TypeOK, Audit!PCs
<1>3. Audit!NamesInv'
  BY <1>1 DEF Audit!TypeOK, Audit!NamesInv, Audit!TemporaryPCs, Audit!FinalPCs
<1>4. spent'.raises + spent'.crashes + spent'.losses # 0
  BY <1>1 DEF Audit!TypeOK
<1>5. Audit!ProgressInv'
  BY <1>4 DEF Audit!ProgressInv
<1>6. Audit!AckedIsForever' /\ Audit!AckedHasOneName' /\ Audit!FinalIsWhole'
  BY <1>1 DEF Audit!AckedIsForever, Audit!AckedHasOneName, Audit!FinalIsWhole
<1> QED BY <1>2, <1>3, <1>5, <1>6

LEMMA AuditPowerLoss ==
  ASSUME AuditIInv, Audit!PowerLoss
  PROVE  AuditIInv'
<1> USE AuditConstants DEF AuditIInv
<1>1. PICK after \in [Audit!Names -> Writers \cup {NoFile}],
           torn \in SUBSET {w \in Writers : file[w] = "written"} :
        /\ \A n \in Audit!Names : after[n] \in safe[n]
        /\ path' = after
        /\ safe' = [n \in Audit!Names |-> {after[n]}]
        /\ file' = [w \in Writers |->
             IF w \in torn THEN "torn"
             ELSE IF file[w] = "written" THEN "durable" ELSE file[w]]
  BY DEF Audit!PowerLoss
<1>2. /\ spent' = [spent EXCEPT !.losses = @ + 1] /\ UNCHANGED acked
      /\ pc' = [w \in Writers |-> IF pc[w] = "start" THEN "start" ELSE "end"]
  BY DEF Audit!PowerLoss
<1>3. \A n \in Audit!Names : path'[n] = after[n] /\ safe'[n] = {after[n]}
                             /\ safe'[n] \subseteq safe[n]
  BY <1>1
<1>4. \A w \in Writers : file[w] = "durable" => file'[w] = "durable"
  BY <1>1
<1>5. Audit!TypeOK'
  <2>1. file' \in [Writers -> {"torn", "written", "durable"}]
    BY <1>1 DEF Audit!TypeOK
  <2>2. path' \in [Audit!Names -> Writers \cup {NoFile}]
        /\ safe' \in [Audit!Names -> SUBSET (Writers \cup {NoFile})]
    BY <1>1
  <2>3. pc' \in [Writers -> Audit!PCs] /\ acked' \subseteq Writers
    BY <1>2 DEF Audit!TypeOK, Audit!PCs
  <2>4. spent' \in [raises : Nat, crashes : Nat, losses : Nat]
    BY <1>2 DEF Audit!TypeOK
  <2> QED BY <2>1, <2>2, <2>3, <2>4 DEF Audit!TypeOK
<1>6. Audit!NamesInv'
  BY <1>2, <1>3 DEF Audit!TypeOK, Audit!NamesInv, Audit!TemporaryPCs, Audit!FinalPCs
<1>7. spent'.raises + spent'.crashes + spent'.losses # 0
  BY <1>2 DEF Audit!TypeOK
<1>8. Audit!ProgressInv'
  BY <1>7 DEF Audit!ProgressInv
<1>9. Audit!AckedIsForever' /\ Audit!AckedHasOneName' /\ Audit!FinalIsWhole'
  <2>1. "final" \in Audit!Names /\ "temporary" \in Audit!Names
    BY DEF Audit!Names
  <2>2. Audit!AckedIsForever'
    BY <1>2, <1>3, <1>4, <2>1 DEF Audit!TypeOK, Audit!AckedIsForever
  <2>3. Audit!AckedHasOneName'
    BY <1>2, <1>3, <2>1 DEF Audit!AckedHasOneName
  <2>4. Audit!FinalIsWhole'
    BY <1>2, <1>3, <1>4, <2>1 DEF Audit!FinalIsWhole
  <2> QED BY <2>2, <2>3, <2>4
<1> QED BY <1>5, <1>6, <1>8, <1>9

LEMMA AuditStep ==
  ASSUME AuditIInv, [Audit!Next]_(Audit!vars)
  PROVE  AuditIInv'
<1>1. CASE UNCHANGED Audit!vars
  BY <1>1 DEF AuditIInv, Audit!TypeOK, Audit!NamesInv, Audit!ProgressInv,
     Audit!AckedIsForever, Audit!AckedHasOneName, Audit!FinalIsWhole, Audit!vars
<1>2. CASE Audit!Next
  BY <1>2, AuditLooks, AuditOpens, AuditLinks, AuditSyncs, AuditUnlinks, AuditTells,
     AuditFails, AuditPowerLoss DEF Audit!Next, Audit!Step
<1> QED BY <1>1, <1>2

\* Where nobody fails and all have ended, the final name is a told writer's.
LEMMA AuditResult ==
  ASSUME AuditIInv
  PROVE  Audit!OneWriterSucceeds
<1> SUFFICES ASSUME spent.raises + spent.crashes + spent.losses = 0,
                    \A w \in Writers : pc[w] = "end"
             PROVE  acked # {}
  BY DEF Audit!OneWriterSucceeds
<1>1. path["final"] \in Writers \cup {NoFile} /\ path["temporary"] \in Writers \cup {NoFile}
  BY DEF AuditIInv, Audit!TypeOK, Audit!Names
<1>2. PICK w \in Writers : TRUE
  BY AuditConstants
<1>3. CASE path["final"] # NoFile
  BY <1>1, <1>3 DEF AuditIInv, Audit!ProgressInv, Audit!FinalPCs
<1>4. CASE path["final"] = NoFile
  BY <1>1, <1>2, <1>4 DEF AuditIInv, Audit!ProgressInv
<1> QED BY <1>3, <1>4

-----------------------------------------------------------------------------
(***************************************************************************)
(* The candidate store (CandidateStore).                                   *)
(***************************************************************************)
StoreIInv ==
  TypeOK /\ StoreInv /\ AckedIsSettled /\ LoadedIsDurable /\ PersistedOnce

NoFailures == spent.raises + spent.crashes + spent.losses = 0

LEMMA NamesDiffer ==
  ASSUME NEW k \in Candidates, NEW l \in Candidates
  PROVE  /\ Temporary(k) \in Names /\ Final(k) \in Names /\ Temporary(k) # Final(l)
         /\ (Temporary(k) = Temporary(l) => k = l) /\ (Final(k) = Final(l) => k = l)
BY DEF Temporary, Final, Names

LEMMA StoreInit ==
  ASSUME Init
  PROVE  StoreIInv
<1> USE DEF Init
<1>1. TypeOK
  BY DEF TypeOK, PCs, Calls
<1>2. StoreInv
  BY DEF StoreInv, LockInv, DiskInv, WriterInv, CleanInv, WritePCs
<1>3. AckedIsSettled /\ LoadedIsDurable /\ PersistedOnce
  BY DEF AckedIsSettled, LoadedIsDurable, PersistedOnce
<1> QED BY <1>1, <1>2, <1>3 DEF StoreIInv

\* The properties of the disk and of what was told follow from few things.
LEMMA DiskUnchanged ==
  ASSUME StoreIInv, UNCHANGED <<names, safe, file, acked, loaded>>
  PROVE  DiskInv' /\ AckedIsSettled' /\ LoadedIsDurable' /\ PersistedOnce'
BY DEF StoreIInv, StoreInv, DiskInv, AckedIsSettled, LoadedIsDurable, PersistedOnce

\* One caller moves where it neither begins nor ends to write.
LEMMA StoreLooks ==
  ASSUME StoreIInv, NEW c \in Callers, Begin(c) \/ Look(c) \/ Acquire(c) \/ Refuse(c)
  PROVE  StoreIInv'
<1> USE DEF StoreIInv, StoreInv
<1>1. UNCHANGED <<names, safe, file, acked, loaded>>
  BY DEF Begin, Look, Acquire, Refuse, disk, history
<1>2. /\ pc[c] \in {"idle", "look", "lock", "locked"}
      /\ pc' = [pc EXCEPT ![c] = pc'[c]] /\ pc'[c] \in {"idle", "look", "lock", "locked"}
      /\ held' = [held EXCEPT ![c] = held'[c]] /\ call' = [call EXCEPT ![c] = call'[c]]
      /\ spent' = spent \/ spent' = [spent EXCEPT !.calls = @ + 1]
      /\ call'[c] \in Calls /\ held'[c] \in {"none", "SH", "EX"}
  <2>1. CASE Begin(c)
    BY <2>1 DEF Begin, Goto, TypeOK
  <2>2. CASE Look(c)
    BY <2>2 DEF Look, Goto, TypeOK
  <2>3. CASE Acquire(c)
    BY <2>3 DEF Acquire, LockMode, TypeOK
  <2>4. CASE Refuse(c)
    BY <2>4 DEF Refuse, Release, TypeOK
  <2> QED BY <2>1, <2>2, <2>3, <2>4
<1>3. TypeOK'
  <2>1. spent' \in [calls : Nat, raises : Nat, crashes : Nat, losses : Nat]
    BY <1>2 DEF TypeOK
  <2>2. pc' \in [Callers -> PCs]
    BY <1>2 DEF TypeOK, PCs
  <2>3. held' \in [Callers -> {"none", "SH", "EX"}] /\ call' \in [Callers -> Calls]
    BY <1>2 DEF TypeOK
  <2> QED BY <1>1, <2>1, <2>2, <2>3 DEF TypeOK
<1>4. LockInv'
  <2>1. CASE Begin(c)
    BY <2>1 DEF Begin, Goto, LockInv, LockMode, TypeOK, WritePCs
  <2>2. CASE Look(c)
    BY <2>2 DEF Look, Goto, LockInv, LockMode, TypeOK, WritePCs
  <2>3. CASE Acquire(c)
    BY <2>3 DEF Acquire, LockInv, LockMode, TypeOK, WritePCs
  <2>4. CASE Refuse(c)
    BY <2>4 DEF Refuse, Release, LockInv, LockMode, TypeOK, WritePCs
  <2> QED BY <2>1, <2>2, <2>3, <2>4
<1>5. \A d \in Callers : pc'[d] \in WritePCs => d # c /\ pc'[d] = pc[d] /\ call'[d] = call[d]
  BY <1>2 DEF TypeOK, WritePCs
<1>6. \A d \in Callers : pc[d] \in WritePCs => d # c /\ pc'[d] = pc[d] /\ call'[d] = call[d]
  BY <1>2 DEF TypeOK, WritePCs
<1>7. WriterInv'
  BY <1>1, <1>5 DEF WriterInv, K
<1>8. NoFailures' <=> NoFailures
  BY <1>2 DEF TypeOK, NoFailures
<1>9. CleanInv'
  BY <1>1, <1>6, <1>8 DEF CleanInv, K, NoFailures
<1> QED BY <1>1, <1>3, <1>4, <1>7, <1>9, DiskUnchanged

LEMMA OnlyOneWrites ==
  ASSUME StoreIInv, NEW c \in Callers, pc[c] \in WritePCs \/ held[c] = "EX",
         NEW d \in Callers, pc[d] \in WritePCs \cup {"locked"}
  PROVE  d = c
BY DEF StoreIInv, StoreInv, LockInv, LockMode, TypeOK, WritePCs

\* The caller holds the lock: nothing temporary is there, and what is there is
\* durable.
LEMMA StoreLoads ==
  ASSUME StoreIInv, NEW c \in Callers, ReturnLoaded(c)
  PROVE  StoreIInv'
<1> USE DEF StoreIInv, StoreInv
<1>1. /\ UNCHANGED <<names, safe, file, call, acked, spent>> /\ pc[c] = "locked" /\ LayoutOk
      /\ Loadable(K(c)) /\ loaded' = loaded \cup {K(c)} /\ K(c) \in Candidates
      /\ held' = [held EXCEPT ![c] = "none"] /\ pc' = [pc EXCEPT ![c] = "idle"]
  BY DEF ReturnLoaded, disk, Release, K, TypeOK, Calls
<1>2. TypeOK'
  BY <1>1 DEF TypeOK, PCs
<1>3. LockInv'
  BY <1>1 DEF LockInv, LockMode, TypeOK, WritePCs
<1>4. DiskInv' /\ AckedIsSettled' /\ PersistedOnce'
  BY <1>1 DEF DiskInv, AckedIsSettled, PersistedOnce
<1>5. WriterInv'
  BY <1>1 DEF WriterInv, K, TypeOK, WritePCs
<1>6. CleanInv'
  BY <1>1 DEF CleanInv, K, TypeOK, WritePCs
<1>7. LoadedIsDurable'
  BY <1>1 DEF LoadedIsDurable, DiskInv, LayoutOk, Loadable
<1> QED BY <1>2, <1>3, <1>4, <1>5, <1>6, <1>7

\* The writer begins with a temporary name where there was no name at all.
LEMMA StoreOpens ==
  ASSUME StoreIInv, NEW c \in Callers, OpenTemporary(c)
  PROVE  StoreIInv'
<1> USE DEF StoreIInv, StoreInv
<1> DEFINE k == K(c)
<1>1. /\ UNCHANGED <<safe, held, call, acked, loaded, spent>> /\ pc[c] = "locked" /\ LayoutOk
      /\ call[c].op = "persist" /\ Final(k) \notin names
      /\ names' = names \cup {Temporary(k)} /\ pc' = [pc EXCEPT ![c] = "write"]
      /\ file' = [file EXCEPT ![k] = [good |-> FALSE, synced |-> FALSE]]
  BY DEF OpenTemporary, Goto, history
<1>2. k \in Candidates /\ Temporary(k) \notin names
  BY <1>1 DEF TypeOK, Calls, K, LayoutOk
<1>3. TypeOK'
  BY <1>1, <1>2, NamesDiffer DEF TypeOK, PCs, WritePCs
<1>4. LockInv'
  BY <1>1 DEF LockInv, LockMode, TypeOK, WritePCs
<1>5. DiskInv'
  BY <1>1, <1>2, NamesDiffer DEF DiskInv, TypeOK
<1>6. held[c] = "EX"
  BY <1>1 DEF LockInv, LockMode
<1>7. WriterInv'
  <2>1. \A d \in Callers : pc'[d] \in WritePCs => d = c
    BY <1>1, <1>6, OnlyOneWrites DEF TypeOK
  <2>2. \A a \in acked : a[3] # k
    BY <1>1 DEF AckedIsSettled
  <2>3. \A l \in Candidates : Temporary(l) \in names' => l = k
    BY <1>1, <1>2, NamesDiffer DEF LayoutOk
  <2>4. Temporary(k) \in names' /\ Final(k) \notin names'
    BY <1>1, <1>2, NamesDiffer
  <2>5. pc'[c] = "write" /\ K(c)' = k
    BY <1>1 DEF TypeOK, K
  <2> HIDE DEF k
  <2> QED BY <1>1, <2>1, <2>2, <2>3, <2>4, <2>5 DEF WriterInv
<1>8. CleanInv'
  BY <1>1, <1>2, NamesDiffer DEF CleanInv, K, LayoutOk, TypeOK, WritePCs
<1>9. \A a \in acked : a[3] # k /\ a[3] \in Candidates
  BY <1>1 DEF AckedIsSettled, TypeOK
<1>10. AckedIsSettled' /\ PersistedOnce'
  BY <1>1, <1>2, <1>9, NamesDiffer DEF AckedIsSettled, PersistedOnce, TypeOK
<1>11. LoadedIsDurable'
  BY <1>1, <1>2, NamesDiffer DEF LoadedIsDurable, TypeOK
<1> QED BY <1>3, <1>4, <1>5, <1>7, <1>8, <1>10, <1>11

\* What every step of the writer has in common.
LEMMA WriterGoesOn ==
  ASSUME StoreIInv, NEW c \in Callers, pc[c] \in WritePCs,
         NEW next \in WritePCs, pc' = [pc EXCEPT ![c] = next],
         UNCHANGED <<held, call, acked, loaded, spent>>
  PROVE  /\ LockInv' /\ PersistedOnce'
         /\ \A d \in Callers : pc'[d] \in WritePCs => d = c
         /\ pc'[c] = next /\ K(c)' = K(c) /\ K(c) \in Candidates
         /\ \A a \in acked : a[3] # K(c) /\ a[3] \in Candidates
<1>1. LockInv'
  BY DEF StoreIInv, StoreInv, LockInv, LockMode, TypeOK, WritePCs
<1>2. \A d \in Callers : pc'[d] \in WritePCs => d = c
  BY OnlyOneWrites DEF StoreIInv, TypeOK
<1> QED BY <1>1, <1>2
        DEF StoreIInv, StoreInv, WriterInv, TypeOK, K, Calls, PersistedOnce

LEMMA StoreWrites ==
  ASSUME StoreIInv, NEW c \in Callers, Write(c) \/ Sync(c)
  PROVE  StoreIInv'
<1> USE DEF StoreIInv, StoreInv
<1> DEFINE k == K(c)
<1>1. /\ UNCHANGED <<names, safe, held, call, acked, loaded, spent>>
      /\ \/ pc[c] = "write" /\ pc' = [pc EXCEPT ![c] = "sync"]
            /\ file' = [file EXCEPT ![k] = [good |-> TRUE, synced |-> FALSE]]
         \/ pc[c] = "sync" /\ pc' = [pc EXCEPT ![c] = "link"]
            /\ file' = [file EXCEPT ![k] = [good |-> TRUE, synced |-> TRUE]]
  BY DEF Write, Sync, FileStep, Goto, history
<1>2. /\ LockInv' /\ PersistedOnce' /\ (\A d \in Callers : pc'[d] \in WritePCs => d = c)
      /\ pc'[c] \in {"sync", "link"} /\ K(c)' = k /\ k \in Candidates
      /\ \A a \in acked : a[3] # k /\ a[3] \in Candidates
  BY <1>1, WriterGoesOn DEF WritePCs
<1>3. TypeOK'
  <2>1. pc' \in [Callers -> PCs]
    BY <1>1 DEF TypeOK, PCs, WritePCs
  <2>2. PICK state \in [good : BOOLEAN, synced : BOOLEAN] : file' = [file EXCEPT ![k] = state]
    BY <1>1
  <2>3. file' \in [Candidates -> [good : BOOLEAN, synced : BOOLEAN]]
    BY <2>2 DEF TypeOK
  <2> QED BY <1>1, <2>1, <2>3 DEF TypeOK
<1>4. /\ Final(k) \notin names /\ Temporary(k) \in names
      /\ \A l \in Candidates : Temporary(l) \in names => l = k
  BY <1>1, <1>2 DEF WriterInv, WritePCs
<1>5. DiskInv'
  BY <1>1, <1>2, <1>4 DEF DiskInv, TypeOK
<1>6. WriterInv'
  <2>1. file'[k].good /\ (pc'[c] = "link" => file'[k].synced)
    BY <1>1, <1>2 DEF TypeOK
  <2> HIDE DEF k
  <2> QED BY <1>1, <1>2, <1>4, <2>1 DEF WriterInv
<1>7. CleanInv'
  BY <1>1, <1>2, <1>4 DEF CleanInv, WritePCs
<1>8. AckedIsSettled'
  BY <1>1, <1>2 DEF AckedIsSettled, TypeOK
<1>9. LoadedIsDurable'
  BY <1>1, <1>2, <1>4 DEF LoadedIsDurable, TypeOK
<1> QED BY <1>2, <1>3, <1>5, <1>6, <1>7, <1>8, <1>9

LEMMA StoreNames ==
  ASSUME StoreIInv, NEW c \in Callers, Link(c) \/ Unlink(c)
  PROVE  StoreIInv'
<1> USE DEF StoreIInv, StoreInv
<1> DEFINE k == K(c)
<1>1. /\ UNCHANGED <<safe, file, held, call, acked, loaded, spent>>
      /\ \/ pc[c] = "link" /\ pc' = [pc EXCEPT ![c] = "syncLink"]
            /\ names' = names \cup {Final(k)}
         \/ pc[c] = "unlink" /\ pc' = [pc EXCEPT ![c] = "syncUnlink"]
            /\ names' = names \ {Temporary(k)}
  BY DEF Link, Unlink, NameStep, Goto, history
<1>2. /\ LockInv' /\ PersistedOnce' /\ (\A d \in Callers : pc'[d] \in WritePCs => d = c)
      /\ pc'[c] \in {"syncLink", "syncUnlink"} /\ K(c)' = k /\ k \in Candidates
      /\ \A a \in acked : a[3] # k /\ a[3] \in Candidates
  BY <1>1, WriterGoesOn DEF WritePCs
<1>3. TypeOK'
  BY <1>1, <1>2, NamesDiffer DEF TypeOK, PCs, WritePCs
<1>4. /\ file[k].good /\ file[k].synced /\ Temporary(k) \in names
      /\ \A l \in Candidates : Temporary(l) \in names => l = k
      /\ (pc[c] = "unlink" => Final(k) \in safe /\ Final(k) \in names)
  BY <1>1, <1>2 DEF WriterInv, DiskInv, WritePCs
<1>5. DiskInv'
  BY <1>1, <1>2, <1>4, NamesDiffer DEF DiskInv
<1>6. WriterInv'
  <2>1. \A l \in Candidates : Temporary(l) \in names' => l = k
    BY <1>1, <1>2, <1>4, NamesDiffer
  <2>2. /\ pc'[c] = "syncUnlink" <=> Temporary(k) \notin names'
        /\ Final(k) \in names'
    BY <1>1, <1>2, <1>4, NamesDiffer DEF TypeOK
  <2>3. pc'[c] = "syncUnlink" => Final(k) \in safe
    BY <1>1, <1>4 DEF TypeOK
  <2> HIDE DEF k
  <2> QED BY <1>1, <1>2, <1>4, <2>1, <2>2, <2>3 DEF WriterInv
<1>7. CleanInv'
  BY <1>1, <1>2, <1>4, NamesDiffer DEF CleanInv, WritePCs
<1>8. AckedIsSettled'
  BY <1>1, <1>2, NamesDiffer DEF AckedIsSettled
<1>9. LoadedIsDurable'
  BY <1>1, <1>2, NamesDiffer DEF LoadedIsDurable, TypeOK
<1> QED BY <1>2, <1>3, <1>5, <1>6, <1>7, <1>8, <1>9

LEMMA StoreSyncs ==
  ASSUME StoreIInv, NEW c \in Callers, SyncLink(c) \/ SyncUnlink(c)
  PROVE  StoreIInv'
<1> USE DEF StoreIInv, StoreInv
<1> DEFINE k == K(c)
<1>1. /\ UNCHANGED <<names, file, held, call, acked, loaded, spent>> /\ safe' = names
      /\ \/ pc[c] = "syncLink" /\ pc' = [pc EXCEPT ![c] = "unlink"]
         \/ pc[c] = "syncUnlink" /\ pc' = [pc EXCEPT ![c] = "verify"]
  BY DEF SyncLink, SyncUnlink, SyncDirectory, Goto, history
<1>2. /\ LockInv' /\ PersistedOnce' /\ (\A d \in Callers : pc'[d] \in WritePCs => d = c)
      /\ pc'[c] \in {"unlink", "verify"} /\ K(c)' = k /\ k \in Candidates
      /\ \A a \in acked : a[3] # k /\ a[3] \in Candidates
  BY <1>1, WriterGoesOn DEF WritePCs
<1>3. TypeOK'
  BY <1>1, <1>2 DEF TypeOK, PCs, WritePCs
<1>4. /\ Final(k) \in names /\ file[k].good
      /\ \A l \in Candidates : Temporary(l) \in names => l = k
      /\ pc[c] = "syncUnlink" <=> Temporary(k) \notin names
  BY <1>1, <1>2 DEF WriterInv, WritePCs
<1>5. DiskInv'
  BY <1>1 DEF DiskInv
<1>6. WriterInv'
  <2>1. pc'[c] = "verify" <=> pc[c] = "syncUnlink"
    BY <1>1 DEF TypeOK
  <2> HIDE DEF k
  <2> QED BY <1>1, <1>2, <1>4, <2>1 DEF WriterInv
<1>7. CleanInv'
  BY <1>1, <1>2, <1>4 DEF CleanInv, WritePCs
<1>8. AckedIsSettled' /\ LoadedIsDurable'
  BY <1>1 DEF AckedIsSettled, LoadedIsDurable
<1> QED BY <1>2, <1>3, <1>5, <1>6, <1>7, <1>8

LEMMA StoreTells ==
  ASSUME StoreIInv, NEW c \in Callers, Acknowledge(c)
  PROVE  StoreIInv'
<1> USE DEF StoreIInv, StoreInv
<1> DEFINE k == K(c)
<1>1. /\ UNCHANGED <<names, safe, file, call, loaded, spent>> /\ pc[c] = "verify"
      /\ acked' = acked \cup {<<c, spent.calls, k>>}
      /\ held' = [held EXCEPT ![c] = "none"] /\ pc' = [pc EXCEPT ![c] = "idle"]
  BY DEF Acknowledge, Release, disk
<1>2. /\ k \in Candidates /\ spent.calls \in Nat /\ Temporary(k) \notin names \cup safe
      /\ Final(k) \in names \cap safe /\ file[k].good /\ file[k].synced
      /\ \A l \in Candidates : Temporary(l) \in names => l = k
      /\ \A a \in acked : a[3] # k
  BY <1>1 DEF WriterInv, DiskInv, WritePCs, TypeOK, K, Calls
<1>3. TypeOK'
  BY <1>1, <1>2 DEF TypeOK, PCs
<1>4. LockInv'
  BY <1>1 DEF LockInv, LockMode, TypeOK, WritePCs
<1>5. DiskInv' /\ LoadedIsDurable'
  BY <1>1 DEF DiskInv, LoadedIsDurable
<1>6. WriterInv'
  <2>1. \A d \in Callers : pc'[d] \notin WritePCs
    BY <1>1, OnlyOneWrites DEF TypeOK, WritePCs
  <2> QED BY <2>1 DEF WriterInv
<1>7. CleanInv'
  BY <1>1, <1>2 DEF CleanInv
<1>8. AckedIsSettled'
  BY <1>1, <1>2 DEF AckedIsSettled
<1>9. PersistedOnce'
  BY <1>1, <1>2 DEF PersistedOnce
<1> QED BY <1>3, <1>4, <1>5, <1>6, <1>7, <1>8, <1>9

LEMMA StoreFails ==
  ASSUME StoreIInv, NEW c \in Callers, Raise(c) \/ Crash(c)
  PROVE  StoreIInv'
<1> USE DEF StoreIInv, StoreInv
<1>1. /\ UNCHANGED <<names, safe, file, call, acked, loaded>>
      /\ held' = [held EXCEPT ![c] = "none"] /\ pc' = [pc EXCEPT ![c] = "idle"]
      /\ \/ spent' = [spent EXCEPT !.raises = @ + 1]
         \/ spent' = [spent EXCEPT !.crashes = @ + 1]
  BY DEF Raise, Crash, Release, disk, history
<1>2. TypeOK'
  BY <1>1 DEF TypeOK, PCs
<1>3. LockInv'
  BY <1>1 DEF LockInv, LockMode, TypeOK, WritePCs
<1>4. WriterInv'
  BY <1>1 DEF WriterInv, K, TypeOK, WritePCs
<1>5. ~NoFailures'
  BY <1>1 DEF TypeOK, NoFailures
<1>6. CleanInv'
  BY <1>5 DEF CleanInv, NoFailures
<1> QED BY <1>1, <1>2, <1>3, <1>4, <1>6, DiskUnchanged

LEMMA StorePowerLoss ==
  ASSUME StoreIInv, PowerLoss
  PROVE  StoreIInv'
<1> USE DEF StoreIInv, StoreInv
<1>1. PICK kept \in SUBSET ((names \cup safe) \ (names \cap safe)),
           torn \in SUBSET {k \in Candidates : ~file[k].synced} :
        /\ names' = (names \cap safe) \cup kept
        /\ safe' = (names \cap safe) \cup kept
        /\ file' = [k \in Candidates |->
             [good |-> file[k].good /\ k \notin torn, synced |-> TRUE]]
  BY DEF PowerLoss
<1>2. /\ UNCHANGED <<call, acked, loaded>> /\ spent' = [spent EXCEPT !.losses = @ + 1]
      /\ held' = [c \in Callers |-> "none"] /\ pc' = [c \in Callers |-> "idle"]
  BY DEF PowerLoss, history
<1>3. /\ names' = safe' /\ names \cap safe \subseteq names' /\ names' \subseteq names \cup safe
      /\ names' \subseteq Names
  BY <1>1 DEF TypeOK
<1>4. \A k \in Candidates : file'[k].synced /\ (file[k].synced => (file'[k].good <=> file[k].good))
  BY <1>1
<1>5. TypeOK'
  <2>1. file' \in [Candidates -> [good : BOOLEAN, synced : BOOLEAN]]
    BY <1>1
  <2>2. spent' \in [calls : Nat, raises : Nat, crashes : Nat, losses : Nat]
    BY <1>2 DEF TypeOK
  <2> QED BY <1>2, <1>3, <2>1, <2>2 DEF TypeOK, PCs
<1>6. LockInv'
  BY <1>2 DEF LockInv, LockMode, WritePCs
<1>7. DiskInv'
  BY <1>3, <1>4 DEF DiskInv
<1>8. WriterInv'
  BY <1>2 DEF WriterInv, WritePCs
<1>9. ~NoFailures'
  BY <1>2 DEF TypeOK, NoFailures
<1>10. CleanInv'
  BY <1>9 DEF CleanInv, NoFailures
<1>11. AckedIsSettled' /\ PersistedOnce'
  BY <1>2, <1>3, <1>4 DEF AckedIsSettled, PersistedOnce, TypeOK
<1>12. LoadedIsDurable'
  BY <1>2, <1>3, <1>4 DEF LoadedIsDurable, TypeOK
<1> QED BY <1>5, <1>6, <1>7, <1>8, <1>10, <1>11, <1>12

LEMMA StoreStep ==
  ASSUME StoreIInv, [Next]_vars
  PROVE  StoreIInv'
<1>1. CASE UNCHANGED vars
  BY <1>1 DEF StoreIInv, StoreInv, TypeOK, LockInv, LockMode, DiskInv, WriterInv, CleanInv, K,
     AckedIsSettled, LoadedIsDurable, PersistedOnce, vars
<1>2. CASE Next
  BY <1>2, StoreLooks, StoreLoads, StoreOpens, StoreWrites, StoreNames, StoreSyncs,
     StoreTells, StoreFails, StorePowerLoss DEF Next, Step
<1> QED BY <1>1, <1>2

\* Where nothing fails, a temporary name is with its writer, which then has the
\* lock to itself.
LEMMA StoreResult ==
  ASSUME StoreIInv
  PROVE  LockedStoreIsWhole
<1> SUFFICES ASSUME NoFailures, NEW c \in Callers, pc[c] = "locked",
                    NEW k \in Candidates, Temporary(k) \in names
             PROVE  FALSE
  BY DEF LockedStoreIsWhole, LayoutOk, NoFailures
<1>1. PICK d \in Callers : pc[d] \in WritePCs
  BY DEF StoreIInv, StoreInv, CleanInv, NoFailures
<1>2. c = d
  BY <1>1, OnlyOneWrites
<1> QED BY <1>1, <1>2 DEF WritePCs

-----------------------------------------------------------------------------
(***************************************************************************)
(* The recovery materials (RecoveryMaterials).  Both instances take the     *)
(* same steps: one begins with an empty root and knows no power loss, the   *)
(* other has a root that is ready and makes no call to initialise it.       *)
(***************************************************************************)
CoreIInv == Materials!TypeOK /\ Materials!MaterialsInv /\ Materials!ManifestIsLast

MaterialsIInv == CoreIInv /\ Materials!ReadyInv

N == Len(Modified)

\* The preimages of a transaction are its first files, and the manifest is the
\* last one.
LEMMA FilesAreNamed ==
  /\ N \in Nat /\ Len(Materials!Files) = N + 1
  /\ Materials!Files[N + 1] = "manifest"
  /\ \A i \in 1 .. N : /\ Materials!Files[i] = Modified[i]
                       /\ Modified[i] \in Materials!Preimages
  /\ \A i \in 1 .. N + 1 : Materials!Files[i] \in Materials!Names
  /\ \A n \in {"directory", "preimages", "manifest"} :
       n \in Materials!Names /\ n \notin Materials!Preimages
<1>1. Modified \in Seq(Materials!Preimages)
  BY StoresAssumption DEF Materials!MaterialsAssumption
<1>2. N \in Nat
  BY <1>1 DEF N
<1>3. Len(Materials!Files) = N + 1 /\ Materials!Files[N + 1] = "manifest"
  BY <1>1 DEF N, Materials!Files
<1>4. \A i \in 1 .. N : /\ Materials!Files[i] = Modified[i]
                        /\ Modified[i] \in Materials!Preimages
  BY <1>1 DEF N, Materials!Files, Materials!Preimages
<1>5. \A n \in {"directory", "preimages", "manifest"} :
        n \in Materials!Names /\ n \notin Materials!Preimages
  BY StoresAssumption DEF Materials!MaterialsAssumption, Materials!Names
<1>6. \A i \in 1 .. N + 1 : i \in 1 .. N \/ i = N + 1
  BY <1>2
<1>7. \A i \in 1 .. N + 1 : Materials!Files[i] \in Materials!Names
  BY <1>3, <1>4, <1>6 DEF Materials!Names
<1> QED BY <1>2, <1>3, <1>4, <1>5, <1>7

LEMMA MaterialsInit ==
  ASSUME Materials!Init \/ Initialised!Init
  PROVE  CoreIInv /\ (Materials!Init => Materials!ReadyInv)
<1>1. /\ root \subseteq Materials!RootEntries /\ rootSafe = root
      /\ entries = {} /\ safe = {} /\ acked = {} /\ loaded = {}
      /\ bytes = [t \in Transactions |-> [i \in 1 .. Len(Materials!Files) |-> "torn"]]
      /\ held = [c \in Callers |-> "none"] /\ pc = [c \in Callers |-> "idle"]
      /\ call \in [Callers -> Materials!Calls]
      /\ \A c \in Callers : call[c].op = "load"
      /\ spent = [calls |-> 0, raises |-> 0, crashes |-> 0, losses |-> 0]
      /\ Materials!Init => root = Materials!RootEntries
  <2>1. CASE Materials!Init
    BY <2>1 DEF Materials!Init
  <2>2. CASE Initialised!Init
    BY <2>2, <2>1 DEF Initialised!Init, Initialised!Calls, Initialised!Files,
       Materials!Calls, Materials!Files
  <2> QED BY <2>1, <2>2
<1>2. Materials!TypeOK
  <2>1. bytes \in [Transactions -> [1 .. Len(Materials!Files) -> {"torn", "whole", "durable"}]]
    BY <1>1
  <2>2. pc \in [Callers -> Materials!PCs] /\ held \in [Callers -> {"none", "SH", "EX"}]
    BY <1>1 DEF Materials!PCs
  <2> QED BY <1>1, <2>1, <2>2 DEF Materials!TypeOK
<1>3. Materials!MaterialsInv
  BY <1>1 DEF Materials!MaterialsInv, Materials!StartInv, Materials!LockInv,
     Materials!TreeInv, Materials!CreatorInv, Materials!CleanInv, Materials!KeptInv,
     Materials!CreatePCs
<1>4. Materials!ManifestIsLast
  BY <1>1 DEF Materials!ManifestIsLast
<1>5. Materials!Init => Materials!ReadyInv
  BY <1>1 DEF Materials!ReadyInv, Materials!InitPCs
<1> QED BY <1>2, <1>3, <1>4, <1>5 DEF CoreIInv

\* What the invariant says of one creation.
CreationOk(c) ==
  LET t == Materials!T(c)
      f == call[c].file
      last == f = N + 1 /\ pc[c] \notin {"mkPreimages", "syncPreimages"}
  IN  /\ t \notin acked
      /\ <<t, "directory">> \in entries
      /\ pc[c] = "mkPreimages" => f = 1
      /\ pc[c] # "mkPreimages" => <<t, "preimages">> \in entries
      /\ \A k \in 1 .. Materials!Opened(c) : <<t, Materials!Files[k]>> \in entries
      /\ <<t, "manifest">> \in entries => last /\ pc[c] # "open"
      /\ \A k \in 1 .. Materials!Synced(c) : bytes[t][k] = "durable"
      /\ last => \A k \in 1 .. N : <<t, Modified[k]>> \in safe
      /\ pc[c] \in {"syncTransaction", "syncTransactions", "verify"} => last
      /\ pc[c] \in {"syncTransactions", "verify"} =>
           {<<t, "preimages">>, <<t, "manifest">>} \subseteq safe
      /\ pc[c] = "verify" => <<t, "directory">> \in safe

LEMMA CreatorsAreOk ==
  /\ Materials!CreatorInv =>
       \A c \in Callers : pc[c] \in Materials!CreatePCs => CreationOk(c)
  /\ (\A c \in Callers : pc[c] \in Materials!CreatePCs => CreationOk(c))' =>
       Materials!CreatorInv'
BY FilesAreNamed DEF Materials!CreatorInv, CreationOk, N

\* The caller that creates is the only one past the lock, and so is the one that
\* is about to create.
LEMMA OnlyOneCreates ==
  ASSUME CoreIInv, NEW c \in Callers, pc[c] \in Materials!CreatePCs \/ held[c] = "EX",
         NEW d \in Callers, pc[d] \in Materials!CreatePCs \cup {"locked"}
  PROVE  d = c
BY DEF CoreIInv, Materials!MaterialsInv, Materials!LockInv, Materials!LockMode,
       Materials!TypeOK, Materials!CreatePCs

\* The facts about the disk and those told of it follow from few things.
LEMMA CoreUnchanged ==
  ASSUME CoreIInv, UNCHANGED <<entries, safe, bytes, acked>>
  PROVE  /\ Materials!TreeInv' /\ Materials!KeptInv' /\ Materials!ManifestIsLast'
         /\ \A t \in Transactions : Materials!Complete(t)' <=> Materials!Complete(t)
BY DEF CoreIInv, Materials!MaterialsInv, Materials!TreeInv, Materials!KeptInv,
       Materials!AllSynced, Materials!ManifestIsLast, Materials!Complete

RootSteps(c) ==
  \/ Materials!ListRoot(c) \/ Materials!MakeLock(c) \/ Materials!MakeTransactions(c)
  \/ Materials!SyncRoot(c) \/ Materials!Initialized(c)

RootPCs == {"list"} \cup Materials!InitPCs
LookPCs == {"idle", "look", "lock", "locked"}

LEMMA CoreGoesOn ==
  ASSUME CoreIInv, NEW c \in Callers,
         Initialised!Begin(c) \/ RootSteps(c) \/ Materials!Look(c) \/ Materials!Refuse(c)
           \/ Materials!ReturnLoaded(c)
  PROVE  /\ pc[c] \in RootPCs \cup LookPCs /\ UNCHANGED <<entries, safe, bytes, acked>>
         /\ rootSafe' \subseteq root' /\ root' \subseteq Materials!RootEntries
         /\ loaded' \in {loaded, loaded \cup {Materials!T(c)}}
         /\ \E next \in RootPCs \cup LookPCs, what \in Materials!Calls :
              /\ pc' = [pc EXCEPT ![c] = next] /\ call' = [call EXCEPT ![c] = what]
              /\ next \in {"look", "lock", "locked"} => what.file = 1
              /\ \/ /\ held' = held /\ next \in RootPCs \cup {"look", "lock"}
                    /\ next \in {"look", "lock"} => held[c] = "none"
                 \/ held' = [held EXCEPT ![c] = "none"] /\ next = "idle"
         /\ spent' = spent \/ spent' = [spent EXCEPT !.calls = @ + 1]
<1> USE DEF RootPCs, LookPCs
<1>1. /\ call \in [Callers -> Materials!Calls] /\ rootSafe \subseteq root
      /\ root \subseteq Materials!RootEntries
      /\ call = [call EXCEPT ![c] = call[c]] /\ call[c] \in Materials!Calls
  BY DEF CoreIInv, Materials!TypeOK
<1>2. /\ pc[c] = "look" => call[c].file = 1
      /\ pc[c] \in {"idle", "look"} => held[c] = "none"
  BY DEF CoreIInv, Materials!MaterialsInv, Materials!StartInv, Materials!LockInv
<1>3. CASE Initialised!Begin(c)
  <2>1. 1 \in 1 .. Len(Materials!Files)
    BY FilesAreNamed
  <2>2. PICK op \in {"create", "load", "initialize"}, t \in Transactions :
          /\ call' = [call EXCEPT ![c] = [op |-> op, transaction |-> t, file |-> 1]]
          /\ pc' = [pc EXCEPT ![c] = IF op = "initialize" THEN "list" ELSE "look"]
          /\ pc[c] = "idle" /\ held' = held
    BY <1>3 DEF Initialised!Begin, Initialised!Goto
  <2>3. [op |-> op, transaction |-> t, file |-> 1] \in Materials!Calls
    BY <2>1 DEF Materials!Calls
  <2>4. /\ UNCHANGED <<root, rootSafe, entries, safe, bytes, acked, loaded>>
        /\ spent' = [spent EXCEPT !.calls = @ + 1]
    BY <1>3 DEF Initialised!Begin, Initialised!disk, Initialised!history
  <2>5. [op |-> op, transaction |-> t, file |-> 1].file = 1
    OBVIOUS
  <2> HIDE DEF RootPCs, LookPCs
  <2>6. {"list", "look"} \subseteq RootPCs \cup LookPCs /\ "list" \in RootPCs
        /\ pc[c] \in RootPCs \cup LookPCs
    BY <2>2 DEF RootPCs, LookPCs
  <2>7. CASE op = "initialize"
    BY <1>1, <2>2, <2>3, <2>4, <2>5, <2>6, <2>7
  <2>8. CASE op # "initialize"
    BY <1>1, <1>2, <2>2, <2>3, <2>4, <2>5, <2>6, <2>8
  <2> QED BY <2>7, <2>8
<1>4. CASE RootSteps(c)
  <2>1. /\ pc[c] \in RootPCs /\ call' = call
        /\ UNCHANGED <<entries, safe, bytes, acked, loaded, spent>>
    BY <1>4 DEF RootSteps, Materials!ListRoot, Materials!MakeLock, Materials!MakeTransactions,
       Materials!MakeRootEntry, Materials!SyncRoot, Materials!Initialized, Materials!Goto,
       Materials!Release, Materials!disk, Materials!history, Materials!InitPCs
  <2>2. rootSafe' \subseteq root' /\ root' \subseteq Materials!RootEntries
    BY <1>1, <1>4 DEF RootSteps, Materials!ListRoot, Materials!MakeLock,
       Materials!MakeTransactions, Materials!MakeRootEntry, Materials!SyncRoot,
       Materials!Initialized, Materials!disk, Materials!RootEntries
  <2>3. \E next \in RootPCs \cup {"idle"} :
          /\ pc' = [pc EXCEPT ![c] = next]
          /\ \/ held' = held /\ next \in RootPCs
             \/ held' = [held EXCEPT ![c] = "none"] /\ next = "idle"
    BY <1>4 DEF RootSteps, Materials!ListRoot, Materials!MakeLock, Materials!MakeTransactions,
       Materials!MakeRootEntry, Materials!SyncRoot, Materials!Initialized, Materials!Goto,
       Materials!Release, Materials!InitPCs
  <2>4. \A next \in RootPCs \cup {"idle"} : next \notin {"look", "lock", "locked"}
    BY DEF Materials!InitPCs
  <2> QED BY <1>1, <2>1, <2>2, <2>3, <2>4
<1>5. CASE Materials!Look(c)
  BY <1>1, <1>2, <1>5 DEF Materials!Look, Materials!Goto, Materials!disk, Materials!history
<1>6. CASE Materials!Refuse(c) \/ Materials!ReturnLoaded(c)
  <2>1. /\ held' = [held EXCEPT ![c] = "none"] /\ pc' = [pc EXCEPT ![c] = "idle"]
        /\ UNCHANGED <<root, rootSafe, entries, safe, bytes, call, acked, spent>>
        /\ loaded' \in {loaded, loaded \cup {Materials!T(c)}}
        /\ pc[c] \in RootPCs \cup LookPCs
    BY <1>6 DEF Materials!Refuse, Materials!ReturnLoaded, Materials!Release, Materials!disk,
       Materials!history, Materials!InitPCs
  <2> QED BY <1>1, <2>1
<1> QED BY <1>3, <1>4, <1>5, <1>6

\* What a step of one caller that does not create leaves alone.
LEMMA CoreSteps ==
  ASSUME CoreIInv, NEW c \in Callers, UNCHANGED <<entries, safe, bytes, acked>>,
         pc[c] \in RootPCs \cup LookPCs, NEW next \in RootPCs \cup LookPCs,
         pc' = [pc EXCEPT ![c] = next],
         NEW what \in Materials!Calls, call' = [call EXCEPT ![c] = what],
         next \in {"look", "lock", "locked"} => what.file = 1,
         NEW mode \in {"none", "SH", "EX"}, held' = [held EXCEPT ![c] = mode],
         rootSafe' \subseteq root', root' \subseteq Materials!RootEntries,
         loaded' \in {loaded, loaded \cup {Materials!T(c)}},
         spent' = spent \/ spent' = [spent EXCEPT !.calls = @ + 1],
         Materials!LockInv'
  PROVE  CoreIInv'
<1> USE DEF CoreIInv, Materials!MaterialsInv
<1>1. /\ \A d \in Callers : d # c => pc'[d] = pc[d] /\ call'[d] = call[d]
      /\ pc'[c] = next /\ call'[c] = what
  BY DEF Materials!TypeOK
<1>2. pc[c] \notin Materials!CreatePCs /\ next \notin Materials!CreatePCs
  BY DEF Materials!CreatePCs, Materials!InitPCs, RootPCs, LookPCs
<1>3. Materials!TypeOK'
  <2>1. spent' \in [calls : Nat, raises : Nat, crashes : Nat, losses : Nat]
    BY DEF Materials!TypeOK
  <2>2. pc' \in [Callers -> Materials!PCs]
    BY DEF Materials!TypeOK, Materials!PCs, RootPCs, LookPCs
  <2>3. held' \in [Callers -> {"none", "SH", "EX"}] /\ call' \in [Callers -> Materials!Calls]
    BY DEF Materials!TypeOK
  <2>4. loaded' \subseteq Transactions
    BY DEF Materials!TypeOK, Materials!T, Materials!Calls
  <2> QED BY <2>1, <2>2, <2>3, <2>4 DEF Materials!TypeOK
<1>4. Materials!StartInv'
  BY <1>1 DEF Materials!StartInv
<1>5. Materials!CreatorInv'
  <2>1. SUFFICES ASSUME NEW d \in Callers, pc'[d] \in Materials!CreatePCs
                 PROVE  CreationOk(d)'
    BY CreatorsAreOk
  <2>2. CreationOk(d) /\ pc'[d] = pc[d] /\ call'[d] = call[d]
    BY <1>1, <1>2, <2>1, CreatorsAreOk
  <2> QED BY <2>2 DEF CreationOk, Materials!T, Materials!Opened, Materials!Synced
<1>6. NoFailures' <=> NoFailures
  BY DEF Materials!TypeOK, NoFailures
<1>7. Materials!CleanInv'
  BY <1>1, <1>2, <1>6, CoreUnchanged DEF Materials!CleanInv, NoFailures, Materials!T
<1> QED BY <1>3, <1>4, <1>5, <1>7, CoreUnchanged

LEMMA CoreLooks ==
  ASSUME CoreIInv, NEW c \in Callers,
         Initialised!Begin(c) \/ RootSteps(c) \/ Materials!Look(c) \/ Materials!Refuse(c)
           \/ Materials!ReturnLoaded(c)
  PROVE  CoreIInv'
<1>1. PICK next \in RootPCs \cup LookPCs, what \in Materials!Calls :
        /\ pc' = [pc EXCEPT ![c] = next] /\ call' = [call EXCEPT ![c] = what]
        /\ next \in {"look", "lock", "locked"} => what.file = 1
        /\ \/ /\ held' = held /\ next \in RootPCs \cup {"look", "lock"}
              /\ next \in {"look", "lock"} => held[c] = "none"
           \/ held' = [held EXCEPT ![c] = "none"] /\ next = "idle"
  BY CoreGoesOn
<1>2. /\ held \in [Callers -> {"none", "SH", "EX"}] /\ Materials!LockInv
      /\ pc \in [Callers -> Materials!PCs] /\ call \in [Callers -> Materials!Calls]
  BY DEF CoreIInv, Materials!MaterialsInv, Materials!TypeOK
<1>3. Materials!LockInv'
  <2>1. next \in RootPCs => next \notin LookPCs
    BY DEF RootPCs, LookPCs, Materials!InitPCs
  <2>2. next \notin Materials!CreatePCs
    BY DEF RootPCs, LookPCs, Materials!InitPCs, Materials!CreatePCs
  <2> QED BY <1>1, <1>2, <2>1, <2>2
          DEF Materials!LockInv, Materials!LockMode, LookPCs
<1>4. PICK mode \in {"none", "SH", "EX"} : held' = [held EXCEPT ![c] = mode]
  <2>1. held = [held EXCEPT ![c] = held[c]] /\ held[c] \in {"none", "SH", "EX"}
    BY <1>2
  <2> QED BY <1>1, <2>1
<1> QED BY <1>1, <1>3, <1>4, CoreGoesOn, CoreSteps

LEMMA CoreLocks ==
  ASSUME CoreIInv, NEW c \in Callers, Materials!Acquire(c)
  PROVE  CoreIInv'
<1>1. /\ pc[c] = "lock" /\ pc' = [pc EXCEPT ![c] = "locked"]
      /\ held' = [held EXCEPT ![c] = Materials!LockMode(c)]
      /\ \A d \in Callers : /\ held[d] # "EX"
                            /\ Materials!LockMode(c) = "EX" => held[d] = "none"
      /\ UNCHANGED <<root, rootSafe, entries, safe, bytes, call, acked, loaded, spent>>
  BY DEF Materials!Acquire, Materials!disk, Materials!history
<1>2. /\ held \in [Callers -> {"none", "SH", "EX"}] /\ Materials!LockInv
      /\ pc \in [Callers -> Materials!PCs] /\ call \in [Callers -> Materials!Calls]
      /\ rootSafe \subseteq root /\ root \subseteq Materials!RootEntries
      /\ call[c].file = 1
  BY <1>1 DEF CoreIInv, Materials!MaterialsInv, Materials!TypeOK, Materials!StartInv
<1>3. Materials!LockInv'
  BY <1>1, <1>2 DEF Materials!LockInv, Materials!LockMode, Materials!CreatePCs
<1>4. call' = [call EXCEPT ![c] = call[c]] /\ call[c] \in Materials!Calls
  BY <1>1, <1>2
<1>5. "lock" \in LookPCs /\ "locked" \in LookPCs
      /\ Materials!LockMode(c) \in {"none", "SH", "EX"}
  BY DEF LookPCs, Materials!LockMode
<1> QED BY <1>1, <1>2, <1>3, <1>4, <1>5, CoreSteps

\* What every step of a creation has in common: it adds names to its own
\* material, and goes on to another step with the lock in hand.
LEMMA CreationGoesOn ==
  ASSUME CoreIInv, NEW c \in Callers, pc[c] \in Materials!CreatePCs \cup {"locked"},
         held[c] = "EX", call[c].op = "create", Materials!T(c) \notin acked,
         NEW next \in Materials!CreatePCs, pc' = [pc EXCEPT ![c] = next],
         NEW f \in 1 .. N + 1, call' = [call EXCEPT ![c].file = f],
         UNCHANGED <<root, rootSafe, held, acked, loaded, spent>>,
         entries \subseteq entries', safe \subseteq safe',
         <<Materials!T(c), "directory">> \in entries',
         \A e \in entries' : e \in entries \/ e[1] = Materials!T(c),
         entries' \subseteq Transactions \X Materials!Names, safe' \subseteq entries',
         NEW state \in {"torn", "whole", "durable"},
         bytes' = bytes \/ bytes' = [bytes EXCEPT ![Materials!T(c)][call[c].file] = state],
         CreationOk(c)', Materials!TreeInv',
         <<Materials!T(c), "manifest">> \in entries' =>
           \A k \in 1 .. N : /\ <<Materials!T(c), Modified[k]>> \in safe'
                             /\ bytes'[Materials!T(c)][k] = "durable"
  PROVE  CoreIInv'
<1> USE DEF CoreIInv, Materials!MaterialsInv
<1> DEFINE t == Materials!T(c)
<1>1. call[c] \in Materials!Calls /\ t \in Transactions /\ call[c].file \in 1 .. Len(Materials!Files)
  BY DEF Materials!TypeOK, Materials!Calls, Materials!T
<1>2. bytes' \in [Transactions -> [1 .. Len(Materials!Files) -> {"torn", "whole", "durable"}]]
  <2>1. [bytes[t] EXCEPT ![call[c].file] = state]
          \in [1 .. Len(Materials!Files) -> {"torn", "whole", "durable"}]
    BY <1>1 DEF Materials!TypeOK
  <2>2. bytes' = bytes \/ bytes' = [bytes EXCEPT ![t] = [bytes[t] EXCEPT ![call[c].file] = state]]
    BY <1>1 DEF Materials!TypeOK
  <2> HIDE DEF t
  <2> QED BY <2>1, <2>2 DEF Materials!TypeOK
<1>3. \A u \in Transactions : u # t => bytes'[u] = bytes[u]
  BY <1>1 DEF Materials!TypeOK
<1>4. call' \in [Callers -> Materials!Calls]
  <2>1. f \in 1 .. Len(Materials!Files)
    BY FilesAreNamed
  <2>2. [call[c] EXCEPT !.file = f] \in Materials!Calls
    BY <1>1, <2>1 DEF Materials!Calls
  <2> QED BY <2>2 DEF Materials!TypeOK
<1>5. Materials!TypeOK'
  <2>1. pc' \in [Callers -> Materials!PCs]
    BY DEF Materials!TypeOK, Materials!PCs
  <2> QED BY <1>2, <1>4, <2>1 DEF Materials!TypeOK
<1>6. \A d \in Callers : d # c => pc'[d] = pc[d] /\ call'[d] = call[d]
  BY DEF Materials!TypeOK
<1>7. pc'[c] = next /\ call'[c].op = "create" /\ Materials!T(c)' = t
  BY <1>1 DEF Materials!TypeOK, Materials!Calls, Materials!T
<1>8. Materials!StartInv'
  BY <1>6, <1>7 DEF Materials!StartInv, Materials!CreatePCs
<1>9. Materials!LockInv'
  BY <1>6, <1>7 DEF Materials!LockInv, Materials!LockMode, Materials!CreatePCs
<1>10. \A d \in Callers : pc'[d] \in Materials!CreatePCs \/ pc[d] \in Materials!CreatePCs => d = c
  BY <1>6, OnlyOneCreates
<1>11. Materials!CreatorInv'
  BY <1>10, CreatorsAreOk
<1>12. \A u \in Transactions : u # t =>
         /\ (\A n : <<u, n>> \in entries' <=> <<u, n>> \in entries)
         /\ (\A n : <<u, n>> \in safe => <<u, n>> \in safe')
  OBVIOUS
<1> HIDE DEF t
<1>13. Materials!CleanInv'
  <2> SUFFICES ASSUME NoFailures, NEW u \in Transactions, u # t,
                      <<u, "directory">> \in entries'
               PROVE  Materials!Complete(u)'
    BY <1>7 DEF Materials!CleanInv, NoFailures
  <2>1. \A d \in Callers : pc[d] \in Materials!CreatePCs => Materials!T(d) = t
    BY <1>10 DEF t
  <2>2. Materials!Complete(u)
    BY <1>12, <2>1 DEF Materials!CleanInv, NoFailures
  <2> QED BY <1>3, <1>12, <2>2 DEF Materials!Complete
<1>14. Materials!KeptInv'
  BY <1>3, <1>12 DEF Materials!KeptInv, Materials!AllSynced, Materials!TypeOK, t
<1>15. Materials!ManifestIsLast'
  <2>1. \A u \in Transactions : u # t /\ {<<u, "manifest">>, <<u, "preimages">>} \subseteq entries' =>
          \A i \in 1 .. N : <<u, Modified[i]>> \in safe' /\ bytes'[u][i] = "durable"
    BY <1>3, <1>12 DEF Materials!ManifestIsLast, N
  <2>2. \A u \in Transactions : {<<u, "manifest">>, <<u, "preimages">>} \subseteq entries' =>
          \A i \in 1 .. N : <<u, Modified[i]>> \in safe' /\ bytes'[u][i] = "durable"
    BY <2>1 DEF t
  <2> QED BY <2>2 DEF Materials!ManifestIsLast, N
<1> QED BY <1>5, <1>8, <1>9, <1>11, <1>13, <1>14, <1>15

LEMMA CreationFacts ==
  ASSUME CoreIInv, NEW c \in Callers, pc[c] \in Materials!CreatePCs
  PROVE  /\ held[c] = "EX" /\ call[c].op = "create" /\ call[c].file \in 1 .. N + 1
         /\ Materials!T(c) \in Transactions /\ Materials!T(c) \notin acked
         /\ call = [call EXCEPT ![c].file = call[c].file] /\ CreationOk(c)
<1>1. call[c] \in Materials!Calls /\ call \in [Callers -> Materials!Calls]
  BY DEF CoreIInv, Materials!TypeOK
<1>2. call = [call EXCEPT ![c].file = call[c].file]
  BY <1>1 DEF Materials!Calls
<1>3. CreationOk(c)
  BY CreatorsAreOk DEF CoreIInv, Materials!MaterialsInv
<1> QED BY <1>1, <1>2, <1>3, FilesAreNamed
        DEF CoreIInv, Materials!MaterialsInv, Materials!LockInv, Materials!Calls,
            Materials!T, CreationOk

\* The directory of a transaction nobody has made material of: nothing is below it.
LEMMA CreationStarts ==
  ASSUME CoreIInv, NEW c \in Callers, Materials!MakeDirectory(c)
  PROVE  CoreIInv'
<1> USE DEF CoreIInv, Materials!MaterialsInv
<1> DEFINE t == Materials!T(c)
<1>1. /\ pc[c] = "locked" /\ call[c].op = "create" /\ <<t, "directory">> \notin entries
      /\ entries' = entries \cup {<<t, "directory">>} /\ pc' = [pc EXCEPT ![c] = "mkPreimages"]
      /\ UNCHANGED <<root, rootSafe, safe, bytes, held, call, acked, loaded, spent>>
  BY DEF Materials!MakeDirectory, Materials!MakeName, Materials!Goto, Materials!history
<1>2. /\ held[c] = "EX" /\ call[c].file = 1 /\ t \in Transactions
      /\ call[c] \in Materials!Calls /\ call \in [Callers -> Materials!Calls]
  BY <1>1 DEF Materials!LockInv, Materials!LockMode, Materials!StartInv, Materials!TypeOK,
     Materials!Calls, Materials!T
<1>3. call' = [call EXCEPT ![c].file = 1]
  BY <1>1, <1>2 DEF Materials!Calls
<1>4. t \notin acked
  BY <1>1, FilesAreNamed DEF Materials!KeptInv, Materials!AllSynced, Materials!TypeOK
<1>5. \A n \in Materials!Names : <<t, n>> \notin entries
  BY <1>1, FilesAreNamed DEF Materials!TreeInv, Materials!Above
<1>6. \A n : <<t, n>> \in entries' => n = "directory"
  BY <1>1, <1>5 DEF Materials!TypeOK
<1>7. pc'[c] = "mkPreimages" /\ Materials!T(c)' = t
  BY <1>1 DEF Materials!TypeOK, Materials!T
<1>8. Materials!Opened(c)' = 0 /\ Materials!Synced(c)' = 0
  BY <1>7 DEF Materials!Opened, Materials!Synced
<1> HIDE DEF t
<1>9. CreationOk(c)'
  BY <1>1, <1>2, <1>4, <1>6, <1>7, <1>8 DEF CreationOk
<1>10. Materials!TreeInv'
  <2>1. \A e \in entries' : e \in entries \/ e = <<t, "directory">>
    BY <1>1
  <2>2. Materials!Above("directory") = {}
    BY DEF Materials!Above
  <2>3. SUFFICES ASSUME NEW e \in entries', NEW a \in Materials!Above(e[2])
                 PROVE  <<e[1], a>> \in entries'
    BY DEF Materials!TreeInv, Materials!Above
  <2>4. e \in entries
    BY <2>1, <2>2
  <2> QED BY <1>1, <2>4 DEF Materials!TreeInv
<1>11. "mkPreimages" \in Materials!CreatePCs /\ 1 \in 1 .. N + 1
  BY FilesAreNamed DEF Materials!CreatePCs
<1>12. /\ entries' \subseteq Transactions \X Materials!Names /\ safe' \subseteq entries'
       /\ safe \subseteq safe' /\ entries \subseteq entries'
       /\ \A e \in entries' : e \in entries \/ e[1] = t
       /\ <<t, "directory">> \in entries'
  BY <1>1, <1>2, FilesAreNamed DEF Materials!TypeOK
<1>13. <<t, "manifest">> \notin entries'
  BY <1>6
<1> QED BY <1>1, <1>2, <1>3, <1>4, <1>9, <1>10, <1>11, <1>12, <1>13, CreationGoesOn DEF t

\* A name is added whose directories are there.
LEMMA TreeGrows ==
  ASSUME CoreIInv, NEW t, NEW n, entries' = entries \cup {<<t, n>>},
         \A a \in Materials!Above(n) : <<t, a>> \in entries
  PROVE  Materials!TreeInv'
<1> SUFFICES ASSUME NEW e \in entries', NEW a \in Materials!Above(e[2])
             PROVE  <<e[1], a>> \in entries'
  BY DEF Materials!TreeInv, Materials!Above
<1>1. CASE e \in entries
  BY <1>1 DEF CoreIInv, Materials!MaterialsInv, Materials!TreeInv
<1>2. CASE e = <<t, n>>
  BY <1>2
<1> QED BY <1>1, <1>2

LEMMA CreationMakesPreimages ==
  ASSUME CoreIInv, NEW c \in Callers, Materials!MakePreimages(c)
  PROVE  CoreIInv'
<1> DEFINE t == Materials!T(c)
<1> DEFINE next == IF Modified = <<>> THEN "syncPreimages" ELSE "open"
<1>1. /\ pc[c] = "mkPreimages" /\ pc' = [pc EXCEPT ![c] = next]
      /\ entries' = entries \cup {<<t, "preimages">>}
      /\ UNCHANGED <<root, rootSafe, safe, bytes, held, call, acked, loaded, spent>>
  BY DEF Materials!MakePreimages, Materials!MakeName, Materials!Goto, Materials!history
<1>2. pc[c] \in Materials!CreatePCs /\ next \in Materials!CreatePCs
  BY <1>1 DEF Materials!CreatePCs
<1>3. /\ held[c] = "EX" /\ call[c].op = "create" /\ call[c].file \in 1 .. N + 1
      /\ t \in Transactions /\ t \notin acked
      /\ call = [call EXCEPT ![c].file = call[c].file] /\ CreationOk(c)
  BY <1>2, CreationFacts
<1>4. call[c].file = 1 /\ <<t, "directory">> \in entries /\ <<t, "manifest">> \notin entries
  BY <1>1, <1>3 DEF CreationOk
<1>5. /\ pc'[c] = next /\ Materials!T(c)' = t /\ call'[c].file = 1
  BY <1>1, <1>4 DEF CoreIInv, Materials!TypeOK, Materials!T
<1>6. next = "syncPreimages" => N = 0
  <2>1. Modified = <<>> => Len(Modified) = 0
    OBVIOUS
  <2> QED BY <2>1 DEF N
<1>7. next = "open" => N # 0
  <2>1. Modified \in Seq(Materials!Preimages)
    BY StoresAssumption DEF Materials!MaterialsAssumption
  <2>2. Modified # <<>> => Len(Modified) # 0
    BY <2>1, EmptySeq
  <2> QED BY <2>2 DEF N
<1>8. next \in {"open", "syncPreimages"}
  OBVIOUS
<1> HIDE DEF t, next
<1>9. Materials!Opened(c)' = 0 /\ Materials!Synced(c)' = 0
  BY <1>5, <1>6, <1>8 DEF Materials!Opened, Materials!Synced, N
<1>10. CreationOk(c)'
  BY <1>1, <1>3, <1>4, <1>5, <1>7, <1>8, <1>9, FilesAreNamed DEF CreationOk
<1>11. Materials!TreeInv'
  <2>1. Materials!Above("preimages") = {"directory"}
    BY FilesAreNamed DEF Materials!Above
  <2> QED BY <1>1, <1>4, <2>1, TreeGrows
<1>12. /\ entries' \subseteq Transactions \X Materials!Names /\ safe' \subseteq entries'
       /\ safe \subseteq safe' /\ entries \subseteq entries'
       /\ \A e \in entries' : e \in entries \/ e[1] = t
       /\ <<t, "directory">> \in entries' /\ <<t, "manifest">> \notin entries'
  BY <1>1, <1>3, <1>4, FilesAreNamed DEF CoreIInv, Materials!TypeOK
<1> QED BY <1>1, <1>2, <1>3, <1>10, <1>11, <1>12, CreationGoesOn DEF t

LEMMA CreationOpens ==
  ASSUME CoreIInv, NEW c \in Callers, Materials!OpenFile(c)
  PROVE  CoreIInv'
<1> DEFINE t == Materials!T(c)
<1> DEFINE f == call[c].file
<1>1. /\ pc[c] = "open" /\ pc' = [pc EXCEPT ![c] = "write"]
      /\ entries' = entries \cup {<<t, Materials!Files[f]>>}
      /\ bytes' = [bytes EXCEPT ![t][f] = "torn"]
      /\ UNCHANGED <<root, rootSafe, safe, held, call, acked, loaded, spent>>
  BY DEF Materials!OpenFile, Materials!MakeName, Materials!Goto, Materials!history,
         Materials!SetBytes, Materials!TheFile
<1>2. pc[c] \in Materials!CreatePCs /\ "write" \in Materials!CreatePCs
  BY <1>1 DEF Materials!CreatePCs
<1>3. /\ held[c] = "EX" /\ call[c].op = "create" /\ f \in 1 .. N + 1
      /\ t \in Transactions /\ t \notin acked
      /\ call = [call EXCEPT ![c].file = f] /\ CreationOk(c)
  BY <1>2, CreationFacts
<1>4. /\ pc'[c] = "write" /\ Materials!T(c)' = t /\ call'[c].file = f
  BY <1>1 DEF CoreIInv, Materials!TypeOK, Materials!T
<1>5. /\ Materials!Opened(c) = f - 1 /\ Materials!Synced(c) = f - 1
      /\ Materials!Opened(c)' = f /\ Materials!Synced(c)' = f - 1
  BY <1>1, <1>4 DEF Materials!Opened, Materials!Synced
<1>6. \A k \in 1 .. N + 1 : k # f => bytes'[t][k] = bytes[t][k]
  BY <1>1, <1>3, FilesAreNamed DEF CoreIInv, Materials!TypeOK
<1> HIDE DEF t, f
<1>7. /\ <<t, "directory">> \in entries /\ <<t, "preimages">> \in entries
      /\ <<t, "manifest">> \notin entries
      /\ \A k \in 1 .. f - 1 : <<t, Materials!Files[k]>> \in entries /\ bytes[t][k] = "durable"
      /\ f = N + 1 => \A k \in 1 .. N : <<t, Modified[k]>> \in safe
  BY <1>1, <1>3, <1>5 DEF CreationOk, t, f
<1>8. f # N + 1 => Materials!Files[f] # "manifest"
  <2>1. f # N + 1 => f \in 1 .. N
    BY <1>3, FilesAreNamed
  <2> QED BY <2>1, FilesAreNamed
<1>9. <<t, "manifest">> \in entries' => f = N + 1
  BY <1>1, <1>7, <1>8
<1>10. \A k \in 1 .. f - 1 : k \in 1 .. N + 1 /\ k # f
  BY <1>3, FilesAreNamed
<1>11. \A k \in 1 .. f - 1 : bytes'[t][k] = "durable"
  BY <1>6, <1>7, <1>10
<1>12. \A k \in 1 .. f : <<t, Materials!Files[k]>> \in entries'
  <2>1. \A k \in 1 .. f : k = f \/ k \in 1 .. f - 1
    BY <1>3, FilesAreNamed
  <2> QED BY <1>1, <1>7, <2>1
<1>13. CreationOk(c)'
  BY <1>1, <1>3, <1>4, <1>5, <1>7, <1>9, <1>11, <1>12 DEF CreationOk
<1>14. Materials!TreeInv'
  <2>1. \A n : Materials!Above(n) \subseteq {"directory", "preimages"}
    BY DEF Materials!Above
  <2> QED BY <1>1, <1>7, <2>1, TreeGrows
<1>15. /\ entries' \subseteq Transactions \X Materials!Names /\ safe' \subseteq entries'
       /\ safe \subseteq safe' /\ entries \subseteq entries'
       /\ \A e \in entries' : e \in entries \/ e[1] = t
       /\ <<t, "directory">> \in entries'
  BY <1>1, <1>3, <1>7, FilesAreNamed DEF CoreIInv, Materials!TypeOK
<1>16. <<t, "manifest">> \in entries' =>
         \A k \in 1 .. N : <<t, Modified[k]>> \in safe' /\ bytes'[t][k] = "durable"
  <2>1. f = N + 1 => \A k \in 1 .. N : k \in 1 .. f - 1
    BY FilesAreNamed
  <2> QED BY <1>1, <1>7, <1>9, <1>11, <2>1
<1> QED BY <1>1, <1>2, <1>3, <1>13, <1>14, <1>15, <1>16, CreationGoesOn DEF t, f

\* The bytes of the file the creation is at are written, or fsynced.
LEMMA CreationWrites ==
  ASSUME CoreIInv, NEW c \in Callers, Materials!WriteFile(c)
  PROVE  CoreIInv'
<1> DEFINE t == Materials!T(c)
<1> DEFINE f == call[c].file
<1>1. /\ pc[c] = "write" /\ pc' = [pc EXCEPT ![c] = "sync"]
      /\ bytes' = [bytes EXCEPT ![t][f] = "whole"]
      /\ UNCHANGED <<root, rootSafe, entries, safe, held, call, acked, loaded, spent>>
  BY DEF Materials!WriteFile, Materials!Goto, Materials!history, Materials!SetBytes
<1>2. pc[c] \in Materials!CreatePCs /\ "sync" \in Materials!CreatePCs
  BY <1>1 DEF Materials!CreatePCs
<1>3. /\ held[c] = "EX" /\ call[c].op = "create" /\ f \in 1 .. N + 1
      /\ t \in Transactions /\ t \notin acked
      /\ call = [call EXCEPT ![c].file = f] /\ CreationOk(c)
  BY <1>2, CreationFacts
<1>4. /\ pc'[c] = "sync" /\ Materials!T(c)' = t /\ call'[c].file = f
  BY <1>1 DEF CoreIInv, Materials!TypeOK, Materials!T
<1>5. /\ Materials!Opened(c) = f /\ Materials!Synced(c) = f - 1
      /\ Materials!Opened(c)' = f /\ Materials!Synced(c)' = f - 1
  BY <1>1, <1>4 DEF Materials!Opened, Materials!Synced
<1>6. \A k \in 1 .. N + 1 : k # f => bytes'[t][k] = bytes[t][k]
  BY <1>1, <1>3, FilesAreNamed DEF CoreIInv, Materials!TypeOK
<1>7. \A k \in 1 .. f - 1 : k \in 1 .. N + 1 /\ k # f
  BY <1>3, FilesAreNamed
<1> HIDE DEF t, f
<1>8. /\ <<t, "directory">> \in entries
      /\ <<t, "manifest">> \in entries => f = N + 1
      /\ f = N + 1 => \A k \in 1 .. N : <<t, Modified[k]>> \in safe
      /\ \A k \in 1 .. f - 1 : bytes[t][k] = "durable"
  BY <1>1, <1>3, <1>5 DEF CreationOk, t, f
<1>9. \A k \in 1 .. f - 1 : bytes'[t][k] = "durable"
  BY <1>6, <1>7, <1>8
<1>10. CreationOk(c)'
  BY <1>1, <1>3, <1>4, <1>5, <1>9 DEF CreationOk, t, f
<1>11. Materials!TreeInv'
  BY <1>1 DEF CoreIInv, Materials!MaterialsInv, Materials!TreeInv
<1>12. <<t, "manifest">> \in entries' =>
         \A k \in 1 .. N : <<t, Modified[k]>> \in safe' /\ bytes'[t][k] = "durable"
  <2>1. f = N + 1 => \A k \in 1 .. N : k \in 1 .. f - 1
    BY FilesAreNamed
  <2> QED BY <1>1, <1>8, <1>9, <2>1
<1>13. entries' \subseteq Transactions \X Materials!Names /\ safe' \subseteq entries'
  BY <1>1 DEF CoreIInv, Materials!TypeOK
<1> QED BY <1>1, <1>2, <1>3, <1>8, <1>10, <1>11, <1>12, <1>13, CreationGoesOn DEF t, f

LEMMA CreationSyncsFile ==
  ASSUME CoreIInv, NEW c \in Callers, Materials!SyncFile(c)
  PROVE  CoreIInv'
<1> DEFINE t == Materials!T(c)
<1> DEFINE f == call[c].file
<1> DEFINE g == IF f < N THEN f + 1 ELSE f
<1> DEFINE next == Materials!AfterFile(f)
<1>1. /\ pc[c] = "sync" /\ pc' = [pc EXCEPT ![c] = next]
      /\ bytes' = [bytes EXCEPT ![t][f] = "durable"]
      /\ UNCHANGED <<root, rootSafe, entries, safe, held, acked, loaded, spent>>
  BY DEF Materials!SyncFile, Materials!Goto, Materials!history, Materials!SetBytes
<1>2. pc[c] \in Materials!CreatePCs /\ next \in Materials!CreatePCs
  BY <1>1 DEF Materials!CreatePCs, Materials!AfterFile
<1>3. /\ held[c] = "EX" /\ call[c].op = "create" /\ f \in 1 .. N + 1
      /\ t \in Transactions /\ t \notin acked /\ CreationOk(c)
  BY <1>2, CreationFacts
<1>4. call' = [call EXCEPT ![c].file = g]
  BY DEF Materials!SyncFile, N
<1>5. /\ pc'[c] = next /\ Materials!T(c)' = t /\ call'[c].file = g
  <2>1. call[c] \in Materials!Calls /\ call \in [Callers -> Materials!Calls]
    BY DEF CoreIInv, Materials!TypeOK
  <2>2. pc'[c] = next
    BY <1>1 DEF CoreIInv, Materials!TypeOK
  <2> HIDE DEF g, next
  <2> QED BY <1>4, <2>1, <2>2 DEF Materials!T, Materials!Calls
<1>6. \/ f < N /\ next = "open" /\ g = f + 1
      \/ f = N /\ next = "syncPreimages" /\ g = f
      \/ f = N + 1 /\ next = "syncTransaction" /\ g = f
  BY <1>3, FilesAreNamed DEF Materials!AfterFile, N
<1>7. g \in 1 .. N + 1 /\ N \in Nat
  BY <1>3, <1>6, FilesAreNamed
<1>8. bytes'[t][f] = "durable" /\ \A k \in 1 .. N + 1 : k # f => bytes'[t][k] = bytes[t][k]
  BY <1>1, <1>3, FilesAreNamed DEF CoreIInv, Materials!TypeOK
<1>9. Materials!Opened(c) = f /\ Materials!Synced(c) = f - 1
  BY <1>1 DEF Materials!Opened, Materials!Synced
<1>10. Materials!Opened(c)' = f /\ Materials!Synced(c)' = f
  <2> HIDE DEF f, g, next
  <2>1. CASE f < N /\ next = "open" /\ g = f + 1
    BY <1>3, <1>5, <2>1, FilesAreNamed DEF Materials!Opened, Materials!Synced
  <2>2. CASE f = N /\ next = "syncPreimages" /\ g = f
    BY <1>5, <2>2 DEF Materials!Opened, Materials!Synced, N
  <2>3. CASE f = N + 1 /\ next = "syncTransaction" /\ g = f
    BY <1>5, <2>3, FilesAreNamed DEF Materials!Opened, Materials!Synced
  <2> QED BY <1>6, <2>1, <2>2, <2>3
<1> HIDE DEF t, f, g, next
<1>11. /\ <<t, "directory">> \in entries /\ <<t, "preimages">> \in entries
       /\ <<t, "manifest">> \in entries => f = N + 1
       /\ f = N + 1 => \A k \in 1 .. N : <<t, Modified[k]>> \in safe
       /\ \A k \in 1 .. f : <<t, Materials!Files[k]>> \in entries
       /\ \A k \in 1 .. f - 1 : bytes[t][k] = "durable"
  BY <1>1, <1>3, <1>9 DEF CreationOk, t, f
<1>12. \A k \in 1 .. f : k \in 1 .. N + 1 /\ (k = f \/ k \in 1 .. f - 1)
  BY <1>3, FilesAreNamed
<1>13. \A k \in 1 .. f : bytes'[t][k] = "durable"
  BY <1>8, <1>11, <1>12
<1>14. (pc'[c] = "syncTransaction" <=> f = N + 1) /\ (g = N + 1 <=> f = N + 1)
       /\ pc'[c] \in {"open", "syncPreimages", "syncTransaction"}
  BY <1>3, <1>5, <1>6, <1>7
<1>15. CreationOk(c)'
  BY <1>1, <1>3, <1>5, <1>10, <1>11, <1>13, <1>14 DEF CreationOk
<1>16. Materials!TreeInv'
  BY <1>1 DEF CoreIInv, Materials!MaterialsInv, Materials!TreeInv
<1>17. <<t, "manifest">> \in entries' =>
         \A k \in 1 .. N : <<t, Modified[k]>> \in safe' /\ bytes'[t][k] = "durable"
  <2>1. f = N + 1 => \A k \in 1 .. N : k \in 1 .. f
    BY <1>7
  <2> QED BY <1>1, <1>11, <1>13, <2>1
<1>18. entries' \subseteq Transactions \X Materials!Names /\ safe' \subseteq entries'
  BY <1>1 DEF CoreIInv, Materials!TypeOK
<1> QED BY <1>1, <1>2, <1>3, <1>4, <1>7, <1>11, <1>15, <1>16, <1>17, <1>18, CreationGoesOn
        DEF t, f

\* The names of a directory become durable; after those of the preimages the
\* creation goes on with the manifest.
LEMMA CreationSyncsNames ==
  ASSUME CoreIInv, NEW c \in Callers,
         \/ Materials!SyncPreimages(c) \/ Materials!SyncTransaction(c)
         \/ Materials!SyncTransactions(c)
  PROVE  CoreIInv'
<1> DEFINE t == Materials!T(c)
<1> DEFINE f == call[c].file
<1>1. /\ pc[c] \in {"syncPreimages", "syncTransaction", "syncTransactions"}
      /\ UNCHANGED <<root, rootSafe, entries, bytes, held, acked, loaded, spent>>
      /\ \E from : safe' = safe \cup (entries \cap from)
  BY DEF Materials!SyncPreimages, Materials!SyncTransaction, Materials!SyncTransactions,
         Materials!SyncDirectory, Materials!Goto, Materials!history
<1>2. pc[c] \in Materials!CreatePCs
      /\ {"open", "syncTransactions", "verify"} \subseteq Materials!CreatePCs
  BY <1>1 DEF Materials!CreatePCs
<1>3. /\ held[c] = "EX" /\ call[c].op = "create" /\ f \in 1 .. N + 1
      /\ t \in Transactions /\ t \notin acked /\ CreationOk(c)
      /\ call = [call EXCEPT ![c].file = f]
  BY <1>2, CreationFacts
<1>4. /\ safe \subseteq safe' /\ safe' \subseteq entries'
      /\ entries' \subseteq Transactions \X Materials!Names
  BY <1>1 DEF CoreIInv, Materials!TypeOK
<1>5. N \in Nat /\ N + 1 \in 1 .. N + 1
  BY FilesAreNamed
<1>6. Materials!TreeInv'
  BY <1>1 DEF CoreIInv, Materials!MaterialsInv, Materials!TreeInv
<1>7. \E next \in Materials!CreatePCs, g \in 1 .. N + 1 :
        /\ pc' = [pc EXCEPT ![c] = next] /\ call' = [call EXCEPT ![c].file = g]
        /\ CreationOk(c)'
        /\ <<t, "manifest">> \in entries' =>
             \A k \in 1 .. N : <<t, Modified[k]>> \in safe' /\ bytes'[t][k] = "durable"
  <2>1. CASE Materials!SyncPreimages(c)
    <3>1. /\ pc[c] = "syncPreimages" /\ pc' = [pc EXCEPT ![c] = "open"]
          /\ safe' = safe \cup (entries \cap ({t} \X Materials!Preimages))
      BY <2>1 DEF Materials!SyncPreimages, Materials!SyncDirectory, Materials!Goto
    <3>2. call' = [call EXCEPT ![c].file = N + 1]
      BY <2>1, FilesAreNamed DEF Materials!SyncPreimages
    <3>3. /\ pc'[c] = "open" /\ Materials!T(c)' = t /\ call'[c].file = N + 1
      BY <3>1, <3>2 DEF CoreIInv, Materials!TypeOK, Materials!T, Materials!Calls
    <3>4. /\ Materials!Opened(c) = N /\ Materials!Synced(c) = N
          /\ Materials!Opened(c)' = N /\ Materials!Synced(c)' = N
      BY <1>5, <3>1, <3>3 DEF Materials!Opened, Materials!Synced, N
    <3> HIDE DEF t, f
    <3>5. /\ <<t, "directory">> \in entries /\ <<t, "preimages">> \in entries
          /\ <<t, "manifest">> \notin entries
          /\ \A k \in 1 .. N : <<t, Materials!Files[k]>> \in entries /\ bytes[t][k] = "durable"
      BY <1>3, <3>1, <3>4 DEF CreationOk, t, f
    <3>6. \A k \in 1 .. N : <<t, Modified[k]>> \in safe'
      BY <3>1, <3>5, FilesAreNamed
    <3>7. CreationOk(c)'
      BY <1>1, <1>3, <3>3, <3>4, <3>5, <3>6 DEF CreationOk
    <3> QED BY <1>1, <1>2, <1>5, <3>1, <3>2, <3>5, <3>7 DEF t
  <2>2. CASE Materials!SyncTransaction(c) \/ Materials!SyncTransactions(c)
    <3> DEFINE next == IF pc[c] = "syncTransaction" THEN "syncTransactions" ELSE "verify"
    <3>1. /\ pc[c] \in {"syncTransaction", "syncTransactions"} /\ call' = call
          /\ pc' = [pc EXCEPT ![c] = next]
          /\ pc[c] = "syncTransaction" =>
               safe' = safe \cup (entries \cap ({t} \X {"preimages", "manifest"}))
          /\ pc[c] = "syncTransactions" =>
               safe' = safe \cup (entries \cap (Transactions \X {"directory"}))
      BY <2>2 DEF Materials!SyncTransaction, Materials!SyncTransactions,
         Materials!SyncDirectory, Materials!Goto
    <3>2. /\ pc'[c] = next /\ Materials!T(c)' = t
      BY <3>1 DEF CoreIInv, Materials!TypeOK, Materials!T
    <3>3. /\ Materials!Opened(c) = N + 1 /\ Materials!Synced(c) = N + 1
          /\ Materials!Opened(c)' = N + 1 /\ Materials!Synced(c)' = N + 1
      BY <3>1, <3>2, FilesAreNamed DEF Materials!Opened, Materials!Synced
    <3>4. next \in Materials!CreatePCs /\ next \in {"syncTransactions", "verify"}
          /\ (next = "verify" => pc[c] = "syncTransactions")
      BY <1>2, <3>1
    <3> HIDE DEF t, f, next
    <3>5. /\ <<t, "directory">> \in entries /\ <<t, "preimages">> \in entries /\ f = N + 1
          /\ \A k \in 1 .. N + 1 : <<t, Materials!Files[k]>> \in entries
          /\ \A k \in 1 .. N + 1 : bytes[t][k] = "durable"
          /\ \A k \in 1 .. N : <<t, Modified[k]>> \in safe
          /\ pc[c] = "syncTransactions" =>
               {<<t, "preimages">>, <<t, "manifest">>} \subseteq safe
      BY <1>3, <3>1, <3>3 DEF CreationOk, t, f
    <3>6. <<t, "manifest">> \in entries
      BY <1>5, <3>5, FilesAreNamed
    <3>7. {<<t, "preimages">>, <<t, "manifest">>} \subseteq safe'
      BY <3>1, <3>5, <3>6
    <3>8. pc'[c] = "verify" => <<t, "directory">> \in safe'
      BY <1>3, <3>1, <3>2, <3>4, <3>5
    <3>9. \A k \in 1 .. N : k \in 1 .. N + 1
      BY <1>5
    <3>10. CreationOk(c)'
      BY <1>1, <1>3, <1>4, <3>1, <3>2, <3>3, <3>4, <3>5, <3>7, <3>8 DEF CreationOk, f
    <3> QED BY <1>1, <1>3, <1>4, <3>1, <3>4, <3>5, <3>9, <3>10
  <2> QED BY <2>1, <2>2
<1>8. \A e \in entries' : e \in entries
  BY <1>1
<1>9. <<t, "directory">> \in entries'
  BY <1>1, <1>3 DEF CreationOk
<1> QED BY <1>1, <1>2, <1>3, <1>4, <1>6, <1>7, <1>8, <1>9, CreationGoesOn

\* The creation returns when every name and every byte is durable.
LEMMA CreationReturns ==
  ASSUME CoreIInv, NEW c \in Callers, Materials!Acknowledge(c)
  PROVE  CoreIInv'
<1> USE DEF CoreIInv, Materials!MaterialsInv
<1> DEFINE t == Materials!T(c)
<1>1. /\ pc[c] = "verify" /\ Materials!Complete(t) /\ acked' = acked \cup {t}
      /\ held' = [held EXCEPT ![c] = "none"] /\ pc' = [pc EXCEPT ![c] = "idle"]
      /\ UNCHANGED <<root, rootSafe, entries, safe, bytes, call, loaded, spent>>
  BY DEF Materials!Acknowledge, Materials!Release, Materials!disk
<1>2. pc[c] \in Materials!CreatePCs
  BY <1>1 DEF Materials!CreatePCs
<1>3. t \in Transactions /\ call[c].file \in 1 .. N + 1 /\ CreationOk(c)
  BY <1>2, CreationFacts
<1>4. Materials!Opened(c) = N + 1 /\ Materials!Synced(c) = N + 1 /\ N \in Nat
  BY <1>1, FilesAreNamed DEF Materials!Opened, Materials!Synced
<1>5. /\ {<<t, "directory">>, <<t, "preimages">>, <<t, "manifest">>} \subseteq safe
      /\ \A k \in 1 .. N : <<t, Modified[k]>> \in safe
      /\ \A k \in 1 .. N + 1 : bytes[t][k] = "durable"
  BY <1>1, <1>3, <1>4 DEF CreationOk
<1>6. \A n \in Materials!Names : <<t, n>> \in safe
  BY <1>5 DEF Materials!Names, Materials!Preimages, N
<1>7. Materials!AllSynced(t)
  BY <1>5, <1>6, FilesAreNamed DEF Materials!AllSynced
<1> HIDE DEF t
<1>8. Materials!TypeOK'
  BY <1>1, <1>3 DEF Materials!TypeOK, Materials!PCs
<1>9. Materials!LockInv'
  BY <1>1 DEF Materials!LockInv, Materials!LockMode, Materials!TypeOK, Materials!CreatePCs
<1>10. \A d \in Callers : pc'[d] \notin Materials!CreatePCs
  BY <1>1, <1>2, OnlyOneCreates DEF Materials!TypeOK, Materials!CreatePCs
<1>11. Materials!CreatorInv'
  BY <1>10 DEF Materials!CreatorInv
<1>12. Materials!StartInv'
  BY <1>1 DEF Materials!StartInv, Materials!TypeOK
<1>13. Materials!CleanInv'
  <2>1. \A d \in Callers : pc[d] \in Materials!CreatePCs => Materials!T(d) = t
    BY <1>2, OnlyOneCreates DEF t
  <2> QED BY <1>1, <2>1 DEF Materials!CleanInv, Materials!Complete
<1>14. Materials!KeptInv'
  BY <1>1, <1>7 DEF Materials!KeptInv, Materials!AllSynced
<1>15. Materials!TreeInv' /\ Materials!ManifestIsLast'
  BY <1>1 DEF Materials!TreeInv, Materials!ManifestIsLast
<1> QED BY <1>8, <1>9, <1>11, <1>12, <1>13, <1>14, <1>15

LEMMA CoreFails ==
  ASSUME CoreIInv, NEW c \in Callers, Materials!Raise(c) \/ Materials!Crash(c)
  PROVE  CoreIInv'
<1> USE DEF CoreIInv, Materials!MaterialsInv
<1>1. /\ UNCHANGED <<root, rootSafe, entries, safe, bytes, call, acked, loaded>>
      /\ held' = [held EXCEPT ![c] = "none"] /\ pc' = [pc EXCEPT ![c] = "idle"]
      /\ \/ spent' = [spent EXCEPT !.raises = @ + 1]
         \/ spent' = [spent EXCEPT !.crashes = @ + 1]
  BY DEF Materials!Raise, Materials!Crash, Materials!Release, Materials!disk,
         Materials!history
<1>2. Materials!TypeOK'
  <2>1. spent' \in [calls : Nat, raises : Nat, crashes : Nat, losses : Nat]
    <3>1. spent \in [calls : Nat, raises : Nat, crashes : Nat, losses : Nat]
      BY DEF Materials!TypeOK
    <3>2. CASE spent' = [spent EXCEPT !.raises = @ + 1]
      BY <3>1, <3>2
    <3>3. CASE spent' = [spent EXCEPT !.crashes = @ + 1]
      BY <3>1, <3>3
    <3> QED BY <1>1, <3>2, <3>3
  <2>2. pc' \in [Callers -> Materials!PCs] /\ held' \in [Callers -> {"none", "SH", "EX"}]
    BY <1>1 DEF Materials!TypeOK, Materials!PCs
  <2> QED BY <1>1, <2>1, <2>2 DEF Materials!TypeOK
<1>3. Materials!LockInv'
  BY <1>1 DEF Materials!LockInv, Materials!LockMode, Materials!TypeOK, Materials!CreatePCs
<1>4. Materials!CreatorInv'
  <2>1. SUFFICES ASSUME NEW d \in Callers, pc'[d] \in Materials!CreatePCs
                 PROVE  CreationOk(d)'
    BY CreatorsAreOk
  <2>2. pc'[d] = pc[d]
    BY <1>1, <2>1 DEF Materials!TypeOK, Materials!CreatePCs
  <2>3. CreationOk(d)
    BY <2>1, <2>2, CreatorsAreOk
  <2> QED BY <1>1, <2>2, <2>3
          DEF CreationOk, Materials!T, Materials!Opened, Materials!Synced
<1>5. ~NoFailures'
  BY <1>1 DEF Materials!TypeOK, NoFailures
<1>6. Materials!CleanInv'
  BY <1>5 DEF Materials!CleanInv, NoFailures
<1>7. Materials!StartInv'
  BY <1>1 DEF Materials!StartInv, Materials!TypeOK
<1> QED BY <1>1, <1>2, <1>3, <1>4, <1>6, <1>7, CoreUnchanged

\* A power loss takes a name with everything below it, and none that is durable
\* with the directories above it.
LEMMA MaterialsPowerLoss ==
  ASSUME MaterialsIInv, Materials!PowerLoss
  PROVE  MaterialsIInv'
<1> USE DEF MaterialsIInv, CoreIInv, Materials!MaterialsInv
<1>1. root = Materials!RootEntries /\ rootSafe = root
  BY DEF Materials!ReadyInv
<1>2. PICK rootKept \in SUBSET (root \ rootSafe), kept \in SUBSET (entries \ safe),
           torn \in SUBSET {x \in Transactions \X (1 .. Len(Materials!Files)) :
                              bytes[x[1]][x[2]] = "whole"} :
        /\ root' = rootSafe \cup rootKept
        /\ entries' = IF "transactions" \notin root' THEN {}
             ELSE {e \in safe \cup kept :
                     \A a \in Materials!Above(e[2]) : <<e[1], a>> \in safe \cup kept}
        /\ rootSafe' = root' /\ safe' = entries'
        /\ bytes' = [t \in Transactions |-> [i \in 1 .. Len(Materials!Files) |->
             IF <<t, i>> \in torn THEN "torn"
             ELSE IF bytes[t][i] = "whole" THEN "durable" ELSE bytes[t][i]]]
  BY DEF Materials!PowerLoss
<1>3. /\ UNCHANGED <<call, acked, loaded>> /\ spent' = [spent EXCEPT !.losses = @ + 1]
      /\ held' = [c \in Callers |-> "none"] /\ pc' = [c \in Callers |-> "idle"]
  BY DEF Materials!PowerLoss, Materials!history
<1>4. UNCHANGED <<root, rootSafe>>
  BY <1>1, <1>2
<1>5. entries' = {e \in safe \cup kept :
                    \A a \in Materials!Above(e[2]) : <<e[1], a>> \in safe \cup kept}
  BY <1>1, <1>2, <1>4 DEF Materials!RootEntries
<1>6. /\ entries' \subseteq entries /\ safe' = entries'
      /\ \A t, n : <<t, n>> \in entries' <=>
           /\ <<t, n>> \in safe \cup kept
           /\ \A a \in Materials!Above(n) : <<t, a>> \in safe \cup kept
  BY <1>2, <1>5 DEF Materials!TypeOK
<1>7. \A t \in Transactions, i \in 1 .. Len(Materials!Files) :
        /\ bytes'[t][i] \in {"torn", "whole", "durable"}
        /\ bytes[t][i] = "durable" => bytes'[t][i] = "durable"
  <2> SUFFICES ASSUME NEW t \in Transactions, NEW i \in 1 .. Len(Materials!Files)
               PROVE  /\ bytes'[t][i] \in {"torn", "whole", "durable"}
                      /\ bytes[t][i] = "durable" => bytes'[t][i] = "durable"
    OBVIOUS
  <2>1. bytes'[t][i] = IF <<t, i>> \in torn THEN "torn"
                       ELSE IF bytes[t][i] = "whole" THEN "durable" ELSE bytes[t][i]
    BY <1>2
  <2>2. <<t, i>> \in torn => bytes[t][i] = "whole"
    BY <1>2
  <2>3. bytes[t][i] \in {"torn", "whole", "durable"}
    BY DEF Materials!TypeOK
  <2> QED BY <2>1, <2>2, <2>3
<1>8. Materials!TypeOK'
  <2>1. bytes' \in [Transactions -> [1 .. Len(Materials!Files) -> {"torn", "whole", "durable"}]]
    BY <1>2, <1>7
  <2>2. spent' \in [calls : Nat, raises : Nat, crashes : Nat, losses : Nat]
    BY <1>3 DEF Materials!TypeOK
  <2> QED BY <1>3, <1>4, <1>6, <2>1, <2>2 DEF Materials!TypeOK, Materials!PCs
<1>9. Materials!LockInv' /\ Materials!CreatorInv' /\ Materials!StartInv'
  BY <1>3 DEF Materials!LockInv, Materials!LockMode, Materials!CreatorInv,
     Materials!StartInv, Materials!CreatePCs
<1>10. Materials!ReadyInv'
  BY <1>3, <1>4 DEF Materials!ReadyInv, Materials!InitPCs
<1>11. Materials!TreeInv'
  <2>1. SUFFICES ASSUME NEW e \in entries', NEW a \in Materials!Above(e[2])
                 PROVE  <<e[1], a>> \in entries'
    BY DEF Materials!TreeInv, Materials!Above
  <2>2. /\ <<e[1], a>> \in safe \cup kept
        /\ \A b \in Materials!Above(e[2]) : <<e[1], b>> \in safe \cup kept
    BY <1>5, <2>1
  <2>3. \A b \in Materials!Above(a) : b \in Materials!Above(e[2])
    BY <2>1, FilesAreNamed DEF Materials!Above
  <2> QED BY <1>6, <2>2, <2>3
<1>12. ~NoFailures'
  BY <1>3 DEF Materials!TypeOK, NoFailures
<1>13. Materials!CleanInv'
  BY <1>12 DEF Materials!CleanInv, NoFailures
<1>14. Materials!KeptInv'
  <2>1. SUFFICES ASSUME NEW t \in acked
                 PROVE  Materials!AllSynced(t)'
    BY <1>3 DEF Materials!KeptInv
  <2>2. t \in Transactions /\ Materials!AllSynced(t)
    BY DEF Materials!KeptInv, Materials!TypeOK
  <2>3. \A n \in Materials!Names : Materials!Above(n) \subseteq Materials!Names
    BY FilesAreNamed DEF Materials!Above
  <2>4. \A n \in Materials!Names : <<t, n>> \in safe'
    BY <1>6, <2>2, <2>3 DEF Materials!AllSynced
  <2> QED BY <1>4, <1>7, <2>2, <2>4 DEF Materials!AllSynced
<1>15. Materials!ManifestIsLast'
  <2>1. SUFFICES ASSUME NEW t \in Transactions,
                        <<t, "manifest">> \in entries', <<t, "preimages">> \in entries',
                        NEW i \in 1 .. Len(Modified)
                 PROVE  <<t, Modified[i]>> \in safe' /\ bytes'[t][i] = "durable"
    BY DEF Materials!ManifestIsLast
  <2>2. <<t, Modified[i]>> \in safe /\ bytes[t][i] = "durable"
    BY <1>6, <2>1 DEF Materials!ManifestIsLast
  <2>3. <<t, "directory">> \in safe \cup kept /\ <<t, "preimages">> \in safe \cup kept
    BY <1>6, <2>1, FilesAreNamed DEF Materials!Above
  <2>4. Materials!Above(Modified[i]) = {"directory", "preimages"}
    BY FilesAreNamed DEF Materials!Above, N
  <2>5. i \in 1 .. Len(Materials!Files)
    BY FilesAreNamed DEF N
  <2> QED BY <1>6, <1>7, <2>2, <2>3, <2>4, <2>5
<1> QED BY <1>8, <1>9, <1>10, <1>11, <1>13, <1>14, <1>15

CreationSteps(c) ==
  \/ Materials!MakeDirectory(c) \/ Materials!MakePreimages(c) \/ Materials!OpenFile(c)
  \/ Materials!WriteFile(c) \/ Materials!SyncFile(c) \/ Materials!SyncPreimages(c)
  \/ Materials!SyncTransaction(c) \/ Materials!SyncTransactions(c)
  \/ Materials!Acknowledge(c)

Moves(c) ==
  \/ Initialised!Begin(c) \/ RootSteps(c) \/ Materials!Look(c) \/ Materials!Acquire(c)
  \/ Materials!Refuse(c) \/ Materials!ReturnLoaded(c) \/ CreationSteps(c)
  \/ Materials!Raise(c) \/ Materials!Crash(c)

LEMMA CoreMoves ==
  ASSUME CoreIInv, NEW c \in Callers, Moves(c)
  PROVE  CoreIInv'
BY CoreLooks, CoreLocks, CreationStarts, CreationMakesPreimages, CreationOpens,
   CreationWrites, CreationSyncsFile, CreationSyncsNames, CreationReturns, CoreFails
   DEF Moves, CreationSteps

LEMMA CoreStutters ==
  ASSUME CoreIInv,
         UNCHANGED <<root, rootSafe, entries, safe, bytes, held, pc, call, acked, loaded, spent>>
  PROVE  CoreIInv'
<1>1. Materials!CreatorInv'
  <2>1. SUFFICES ASSUME NEW d \in Callers, pc'[d] \in Materials!CreatePCs
                 PROVE  CreationOk(d)'
    BY CreatorsAreOk
  <2>2. CreationOk(d)
    BY <2>1, CreatorsAreOk DEF CoreIInv, Materials!MaterialsInv
  <2> QED BY <2>2 DEF CreationOk, Materials!T, Materials!Opened, Materials!Synced
<1>2. Materials!TypeOK'
  BY DEF CoreIInv, Materials!TypeOK
<1>3. Materials!StartInv' /\ Materials!LockInv' /\ Materials!CleanInv'
  BY CoreUnchanged DEF CoreIInv, Materials!MaterialsInv, Materials!StartInv,
     Materials!LockInv, Materials!LockMode, Materials!CleanInv, Materials!T
<1> QED BY <1>1, <1>2, <1>3, CoreUnchanged DEF CoreIInv, Materials!MaterialsInv

\* The two instances differ in the calls that begin, and in the power losses.
LEMMA SameSteps ==
  ASSUME NEW c \in Callers, Initialised!Step(c)
  PROVE  Materials!Step(c)
<1> USE DEF Initialised!Goto, Materials!Goto, Initialised!Release, Materials!Release,
      Initialised!disk, Materials!disk, Initialised!history, Materials!history,
      Initialised!T, Materials!T, Initialised!RootOk, Materials!RootOk,
      Initialised!RootEntries, Materials!RootEntries
<1>1. CASE Initialised!ListRoot(c) \/ Initialised!MakeLock(c) \/ Initialised!MakeTransactions(c)
           \/ Initialised!SyncRoot(c) \/ Initialised!Initialized(c)
  BY <1>1 DEF Initialised!ListRoot, Materials!ListRoot, Initialised!MakeLock,
     Materials!MakeLock, Initialised!MakeTransactions, Materials!MakeTransactions,
     Initialised!MakeRootEntry, Materials!MakeRootEntry, Initialised!SyncRoot,
     Materials!SyncRoot, Initialised!Initialized, Materials!Initialized, Materials!Step
<1>2. CASE Initialised!Look(c) \/ Initialised!Acquire(c)
  BY <1>2 DEF Initialised!Look, Materials!Look, Initialised!Acquire, Materials!Acquire,
     Initialised!LockMode, Materials!LockMode, Materials!Step
<1>3. \A t \in Transactions : Initialised!Complete(t) <=> Materials!Complete(t)
  BY DEF Initialised!Complete, Materials!Complete, Initialised!Names, Materials!Names,
     Initialised!Preimages, Materials!Preimages, Initialised!Files, Materials!Files
<1>4. CASE Initialised!Refuse(c)
  BY <1>4 DEF Initialised!Refuse, Materials!Refuse, Materials!Step, Initialised!Complete,
     Materials!Complete, Initialised!Names, Materials!Names, Initialised!Preimages,
     Materials!Preimages, Initialised!Files, Materials!Files
<1>5. CASE Initialised!ReturnLoaded(c) \/ Initialised!Acknowledge(c)
  BY <1>5 DEF Initialised!ReturnLoaded, Materials!ReturnLoaded, Initialised!Acknowledge,
     Materials!Acknowledge, Materials!Step, Initialised!Complete, Materials!Complete,
     Initialised!Names, Materials!Names, Initialised!Preimages, Materials!Preimages,
     Initialised!Files, Materials!Files
<1>6. CASE Initialised!MakeDirectory(c) \/ Initialised!MakePreimages(c) \/ Initialised!OpenFile(c)
  BY <1>6 DEF Initialised!MakeDirectory, Materials!MakeDirectory, Initialised!MakePreimages,
     Materials!MakePreimages, Initialised!MakeName, Materials!MakeName, Initialised!OpenFile,
     Materials!OpenFile, Initialised!SetBytes, Materials!SetBytes, Initialised!TheFile,
     Materials!TheFile, Initialised!Files, Materials!Files, Materials!Step
<1>7. CASE Initialised!WriteFile(c) \/ Initialised!SyncFile(c)
  BY <1>7 DEF Initialised!WriteFile, Materials!WriteFile, Initialised!SyncFile,
     Materials!SyncFile, Initialised!SetBytes, Materials!SetBytes, Initialised!AfterFile,
     Materials!AfterFile, Materials!Step
<1>8. CASE Initialised!SyncPreimages(c) \/ Initialised!SyncTransaction(c)
           \/ Initialised!SyncTransactions(c)
  BY <1>8 DEF Initialised!SyncPreimages, Materials!SyncPreimages, Initialised!SyncTransaction,
     Materials!SyncTransaction, Initialised!SyncTransactions, Materials!SyncTransactions,
     Initialised!SyncDirectory, Materials!SyncDirectory, Initialised!Preimages,
     Materials!Preimages, Initialised!Files, Materials!Files, Materials!Step
<1> QED BY <1>1, <1>2, <1>4, <1>5, <1>6, <1>7, <1>8 DEF Initialised!Step

LEMMA StepsAreMoves ==
  ASSUME NEW c \in Callers, Materials!Step(c)
  PROVE  Moves(c)
BY DEF Materials!Step, Moves, RootSteps, CreationSteps

LEMMA InitialisedMoves ==
  ASSUME CoreIInv, Initialised!Next
  PROVE  \E c \in Callers : Moves(c)
<1>1. ~Initialised!PowerLoss
  BY DEF CoreIInv, Materials!TypeOK, Initialised!PowerLoss
<1>2. PICK c \in Callers : Initialised!Begin(c) \/ Initialised!Step(c) \/ Initialised!Raise(c)
                             \/ Initialised!Crash(c)
  BY <1>1 DEF Initialised!Next
<1>3. CASE Initialised!Step(c)
  BY <1>3, SameSteps, StepsAreMoves
<1>4. CASE Initialised!Raise(c) \/ Initialised!Crash(c)
  BY <1>4 DEF Initialised!Raise, Materials!Raise, Initialised!Crash, Materials!Crash,
     Initialised!Release, Materials!Release, Initialised!disk, Materials!disk,
     Initialised!history, Materials!history, Moves
<1>5. CASE Initialised!Begin(c)
  BY <1>5 DEF Moves
<1> QED BY <1>2, <1>3, <1>4, <1>5

LEMMA MaterialsMoves ==
  ASSUME Materials!Next
  PROVE  Materials!PowerLoss \/ \E c \in Callers : Moves(c)
<1>1. SUFFICES ASSUME ~Materials!PowerLoss
               PROVE  \E c \in Callers : Moves(c)
  OBVIOUS
<1>2. PICK c \in Callers : Materials!Begin(c) \/ Materials!Step(c) \/ Materials!Raise(c)
                             \/ Materials!Crash(c)
  BY <1>1 DEF Materials!Next
<1>3. CASE Materials!Begin(c)
  BY <1>3 DEF Materials!Begin, Initialised!Begin, Materials!Goto, Initialised!Goto,
     Materials!disk, Initialised!disk, Materials!history, Initialised!history, Moves
<1>4. CASE Materials!Step(c) \/ Materials!Raise(c) \/ Materials!Crash(c)
  BY <1>4, StepsAreMoves DEF Moves
<1> QED BY <1>2, <1>3, <1>4

LEMMA InitialisedStep ==
  ASSUME CoreIInv, [Initialised!Next]_(Initialised!vars)
  PROVE  CoreIInv'
BY InitialisedMoves, CoreMoves, CoreStutters DEF Initialised!vars

\* Nobody initialises a root that is ready.
LEMMA NobodyInitialises ==
  ASSUME MaterialsIInv, NEW c \in Callers
  PROVE  ~RootSteps(c)
BY DEF MaterialsIInv, Materials!ReadyInv, Materials!InitPCs, RootSteps,
       Materials!ListRoot, Materials!MakeLock, Materials!MakeTransactions,
       Materials!MakeRootEntry, Materials!SyncRoot, Materials!Initialized, Materials!Goto

\* A root that is ready remains so: nobody is asked to initialise it.
LEMMA StaysReady ==
  ASSUME MaterialsIInv, Materials!Next
  PROVE  Materials!ReadyInv'
<1> USE DEF MaterialsIInv, Materials!ReadyInv, Materials!InitPCs, CoreIInv, Materials!TypeOK
<1>1. CASE Materials!PowerLoss
  BY <1>1, MaterialsPowerLoss
<1>2. SUFFICES ASSUME NEW c \in Callers,
                      Materials!Begin(c) \/ Materials!Step(c) \/ Materials!Raise(c)
                        \/ Materials!Crash(c)
               PROVE  Materials!ReadyInv'
  BY <1>1 DEF Materials!Next
<1> USE DEF Materials!Goto, Materials!Release, Materials!disk, Materials!history
<1>3. CASE Materials!Begin(c)
  <2>1. PICK op \in {"create", "load"}, t \in Transactions :
          /\ call' = [call EXCEPT ![c] = [op |-> op, transaction |-> t, file |-> 1]]
          /\ pc' = [pc EXCEPT ![c] = "look"]
          /\ UNCHANGED <<root, rootSafe>>
    BY <1>3 DEF Materials!Begin
  <2> QED BY <2>1
<1>4. CASE Materials!Look(c) \/ Materials!Acquire(c) \/ Materials!Refuse(c)
           \/ Materials!ReturnLoaded(c) \/ Materials!Acknowledge(c) \/ Materials!Raise(c)
           \/ Materials!Crash(c)
  <2>1. /\ UNCHANGED <<root, rootSafe, call>>
        /\ \E next \in LookPCs : pc' = [pc EXCEPT ![c] = next]
    BY <1>4 DEF Materials!Look, Materials!Acquire, Materials!Refuse, Materials!ReturnLoaded,
       Materials!Acknowledge, Materials!Raise, Materials!Crash, LookPCs
  <2> QED BY <2>1 DEF LookPCs
<1>5. CASE \/ Materials!MakeDirectory(c) \/ Materials!MakePreimages(c) \/ Materials!OpenFile(c)
           \/ Materials!WriteFile(c) \/ Materials!SyncTransaction(c)
           \/ Materials!SyncTransactions(c)
  <2>1. /\ UNCHANGED <<root, rootSafe, call>>
        /\ \E next \in Materials!CreatePCs : pc' = [pc EXCEPT ![c] = next]
    BY <1>5 DEF Materials!MakeDirectory, Materials!MakePreimages, Materials!OpenFile,
       Materials!MakeName, Materials!WriteFile, Materials!SyncTransaction,
       Materials!SyncTransactions, Materials!SyncDirectory, Materials!CreatePCs
  <2> QED BY <2>1 DEF Materials!CreatePCs
<1>6. CASE Materials!SyncFile(c) \/ Materials!SyncPreimages(c)
  <2>1. /\ UNCHANGED <<root, rootSafe>>
        /\ \E next \in Materials!CreatePCs : pc' = [pc EXCEPT ![c] = next]
    BY <1>6 DEF Materials!SyncFile, Materials!SyncPreimages, Materials!SyncDirectory,
       Materials!AfterFile, Materials!CreatePCs
  <2>2. \E f : call' = [call EXCEPT ![c].file = f]
    BY <1>6 DEF Materials!SyncFile, Materials!SyncPreimages
  <2>3. \A d \in Callers : call'[d].op = call[d].op
    BY <2>2 DEF Materials!Calls
  <2> QED BY <2>1, <2>3 DEF Materials!CreatePCs
<1> QED BY <1>2, <1>3, <1>4, <1>5, <1>6, NobodyInitialises DEF Materials!Step, RootSteps

LEMMA MaterialsStep ==
  ASSUME MaterialsIInv, [Materials!Next]_(Materials!vars)
  PROVE  MaterialsIInv'
<1>1. CASE Materials!Next
  BY <1>1, MaterialsMoves, CoreMoves, MaterialsPowerLoss, StaysReady DEF MaterialsIInv
<1>2. CASE UNCHANGED Materials!vars
  BY <1>2, CoreStutters DEF MaterialsIInv, Materials!vars, Materials!ReadyInv
<1> QED BY <1>1, <1>2

\* Where nothing fails, incomplete material is with its creator, which then has
\* the lock to itself.
LEMMA MaterialsResult ==
  ASSUME CoreIInv
  PROVE  Materials!LockedIsWhole
<1> SUFFICES ASSUME NoFailures, NEW c \in Callers, pc[c] = "locked",
                    <<Materials!T(c), "directory">> \in entries,
                    ~Materials!Complete(Materials!T(c))
             PROVE  FALSE
  BY DEF Materials!LockedIsWhole, NoFailures
<1>1. Materials!T(c) \in Transactions
  BY DEF CoreIInv, Materials!TypeOK, Materials!T, Materials!Calls
<1>2. PICK d \in Callers : pc[d] \in Materials!CreatePCs
  BY <1>1 DEF CoreIInv, Materials!MaterialsInv, Materials!CleanInv, NoFailures
<1>3. c = d
  BY <1>2, OnlyOneCreates
<1> QED BY <1>2, <1>3 DEF Materials!CreatePCs

LEMMA DurableInReadyRoot ==
  ASSUME MaterialsIInv
  PROVE  Materials!AckedIsDurable
BY DEF MaterialsIInv, CoreIInv, Materials!MaterialsInv, Materials!KeptInv, Materials!ReadyInv,
       Materials!AckedIsDurable, Materials!Durable

-----------------------------------------------------------------------------
(***************************************************************************)
(* The candidate store implements CandidateRegister.                       *)
(***************************************************************************)
Shown == {k \in Candidates : Loadable(k) /\ Temporary(k) \notin names}
Open == \A k \in Candidates : Temporary(k) \in names => Installing(k)
Settled == {a[3] : a \in acked}

RegisterStutters ==
  /\ Shown' = Shown /\ (Open' <=> Open) /\ Settled' = Settled
  /\ loaded' = loaded /\ spent'.losses = spent.losses

RegisterSteps == Register!RNext \/ UNCHANGED Register!rvars

LEMMA RegisterStuttering ==
  ASSUME RegisterStutters
  PROVE  RegisterSteps
<1>1. Open' = Open
  BY DEF RegisterStutters, Open
<1> QED BY <1>1 DEF RegisterStutters, RegisterSteps, Register!rvars, Shown, Open, Settled

\* While a caller writes, the store is open: the only temporary name is its own.
LEMMA WriterKeepsOpen ==
  ASSUME StoreIInv, NEW c \in Callers, pc[c] \in WritePCs
  PROVE  Open
BY DEF StoreIInv, StoreInv, WriterInv, Open, Installing

LEMMA WholeIsOpen ==
  ASSUME LayoutOk
  PROVE  Open
BY DEF LayoutOk, Open

LEMMA RegisterLooks ==
  ASSUME StoreIInv, NEW c \in Callers, Begin(c) \/ Look(c) \/ Acquire(c) \/ Refuse(c)
  PROVE  RegisterStutters
<1>1. /\ UNCHANGED <<names, file, acked, loaded>>
      /\ pc[c] \notin WritePCs /\ pc' = [pc EXCEPT ![c] = pc'[c]] /\ pc'[c] \notin WritePCs
      /\ \A d \in Callers : d # c => call'[d] = call[d]
      /\ spent' = spent \/ spent' = [spent EXCEPT !.calls = @ + 1]
  <2> USE DEF StoreIInv, TypeOK, WritePCs
  <2>1. CASE Begin(c)
    BY <2>1 DEF Begin, Goto, disk, history
  <2>2. CASE Look(c)
    BY <2>2 DEF Look, Goto, disk, history
  <2>3. CASE Acquire(c)
    BY <2>3 DEF Acquire, disk, history
  <2>4. CASE Refuse(c)
    BY <2>4 DEF Refuse, Release, disk, history
  <2> QED BY <2>1, <2>2, <2>3, <2>4
<1>2. \A k \in Candidates : Installing(k)' <=> Installing(k)
  BY <1>1 DEF Installing, K, StoreIInv, TypeOK
<1>3. Shown' = Shown /\ Settled' = Settled
  BY <1>1 DEF Shown, Loadable, Settled
<1>4. Open' <=> Open
  BY <1>1, <1>2 DEF Open
<1>5. spent'.losses = spent.losses
  BY <1>1 DEF StoreIInv, TypeOK
<1> QED BY <1>1, <1>3, <1>4, <1>5 DEF RegisterStutters

LEMMA RegisterShowsLoaded ==
  ASSUME StoreIInv, NEW c \in Callers, ReturnLoaded(c)
  PROVE  RegisterSteps
<1>1. /\ UNCHANGED <<names, safe, file, acked, spent>> /\ LayoutOk /\ K(c) \in Candidates
      /\ Loadable(K(c)) /\ loaded' = loaded \cup {K(c)}
  BY DEF ReturnLoaded, disk, K, StoreIInv, TypeOK, Calls
<1>2. K(c) \in Shown /\ Shown' = Shown /\ Settled' = Settled
  BY <1>1 DEF Shown, Loadable, LayoutOk, Settled
<1>3. Open /\ Open'
  BY <1>1 DEF LayoutOk, Open
<1>4. PICK k \in Candidates : k = K(c)
  BY <1>1
<1>5. Register!Show(k)
  BY <1>1, <1>2, <1>3, <1>4 DEF Register!Show, Shown, Open, Settled
<1> QED BY <1>5 DEF RegisterSteps, Register!RNext

LEMMA RegisterShowsPersisted ==
  ASSUME StoreIInv, NEW c \in Callers, Acknowledge(c)
  PROVE  RegisterSteps
<1>1. /\ UNCHANGED <<names, safe, file, loaded, spent>> /\ pc[c] = "verify"
      /\ acked' = acked \cup {<<c, spent.calls, K(c)>>} /\ K(c) \in Candidates
      /\ Loadable(K(c))
  BY DEF Acknowledge, disk, K, StoreIInv, TypeOK, Calls
<1>2. /\ Temporary(K(c)) \notin names
      /\ \A l \in Candidates : Temporary(l) \in names => l = K(c)
  BY <1>1 DEF StoreIInv, StoreInv, WriterInv, WritePCs
<1>3. K(c) \in Shown /\ Shown' = Shown
  BY <1>1, <1>2 DEF Shown, Loadable
<1>4. Settled' = Settled \cup {K(c)}
  <2>1. \A a : a \in acked' <=> a \in acked \/ a = <<c, spent.calls, K(c)>>
    BY <1>1
  <2>2. <<c, spent.calls, K(c)>>[3] = K(c)
    OBVIOUS
  <2>3. \A k : k \in Settled' <=> k \in Settled \/ k = K(c)
    BY <2>1, <2>2 DEF Settled
  <2> QED BY <2>3
<1>5. Open /\ Open'
  BY <1>1, <1>2 DEF Open
<1>6. PICK k \in Candidates : k = K(c)
  BY <1>1
<1>7. Register!Show(k)
  BY <1>1, <1>3, <1>4, <1>5, <1>6 DEF Register!Show, Shown, Open, Settled
<1> QED BY <1>7 DEF RegisterSteps, Register!RNext

LEMMA RegisterPersists ==
  ASSUME StoreIInv, NEW c \in Callers, Unlink(c)
  PROVE  RegisterSteps
<1>1. /\ UNCHANGED <<safe, file, acked, loaded, spent>> /\ pc[c] = "unlink"
      /\ names' = names \ {Temporary(K(c))} /\ K(c) \in Candidates
  BY DEF Unlink, NameStep, history, K, StoreIInv, TypeOK, Calls
<1>2. /\ Temporary(K(c)) \in names /\ Final(K(c)) \in names /\ file[K(c)].good
      /\ \A l \in Candidates : Temporary(l) \in names => l = K(c)
  BY <1>1 DEF StoreIInv, StoreInv, WriterInv, WritePCs
<1>3. K(c) \notin Shown /\ Shown' = Shown \cup {K(c)} /\ Settled' = Settled
  BY <1>1, <1>2, NamesDiffer DEF Shown, Loadable, Settled
<1>4. Open
  BY <1>1, WriterKeepsOpen DEF WritePCs
<1>5. Open'
  BY <1>1, <1>2, NamesDiffer DEF Open
<1>6. PICK k \in Candidates : k = K(c)
  BY <1>1
<1>7. Register!Persist(k)
  BY <1>1, <1>3, <1>4, <1>5, <1>6 DEF Register!Persist, Shown, Open, Settled
<1> QED BY <1>7 DEF RegisterSteps, Register!RNext

\* All other steps of a writer are invisible: its candidate has a temporary name.
LEMMA RegisterWrites ==
  ASSUME StoreIInv, NEW c \in Callers,
         \/ OpenTemporary(c) \/ Write(c) \/ Sync(c) \/ Link(c) \/ SyncLink(c) \/ SyncUnlink(c)
  PROVE  RegisterStutters
<1>1. UNCHANGED <<call, acked, loaded, spent>> /\ K(c) \in Candidates
  BY DEF OpenTemporary, Write, Sync, FileStep, Link, NameStep, SyncLink, SyncUnlink,
         SyncDirectory, history, K, StoreIInv, TypeOK, Calls
<1>2. StoreIInv'
  BY StoreOpens, StoreWrites, StoreNames, StoreSyncs
<1>3. pc'[c] \in WritePCs
  BY DEF OpenTemporary, Write, Sync, FileStep, Link, NameStep, SyncLink, SyncUnlink,
         SyncDirectory, Goto, WritePCs, StoreIInv, TypeOK
<1>4. Open
  BY WriterKeepsOpen, WholeIsOpen
     DEF OpenTemporary, Write, Sync, FileStep, Link, NameStep, SyncLink, SyncUnlink,
         SyncDirectory, WritePCs
<1>5. Open'
  BY <1>2, <1>3 DEF StoreIInv, StoreInv, WriterInv, Open, Installing
<1>6. Shown' = Shown
  <2>1. CASE OpenTemporary(c)
    <3>1. /\ names' = names \cup {Temporary(K(c))} /\ Final(K(c)) \notin names
          /\ \A l \in Candidates : l # K(c) => file'[l] = file[l]
      BY <2>1 DEF OpenTemporary, StoreIInv, TypeOK
    <3> QED BY <1>1, <3>1, NamesDiffer DEF Shown, Loadable
  <2>2. CASE Write(c) \/ Sync(c)
    <3>1. /\ names' = names /\ Temporary(K(c)) \in names
          /\ \A l \in Candidates : l # K(c) => file'[l] = file[l]
      BY <2>2 DEF Write, Sync, FileStep, StoreIInv, StoreInv, WriterInv, TypeOK, WritePCs
    <3> QED BY <1>1, <3>1 DEF Shown, Loadable
  <2>3. CASE Link(c)
    <3>1. names' = names \cup {Final(K(c))} /\ file' = file /\ Temporary(K(c)) \in names
      BY <2>3 DEF Link, NameStep, StoreIInv, StoreInv, WriterInv, WritePCs
    <3> QED BY <1>1, <3>1, NamesDiffer DEF Shown, Loadable
  <2>4. CASE SyncLink(c) \/ SyncUnlink(c)
    BY <2>4 DEF SyncLink, SyncUnlink, SyncDirectory, Shown, Loadable
  <2> QED BY <2>1, <2>2, <2>3, <2>4
<1> QED BY <1>1, <1>4, <1>5, <1>6 DEF RegisterStutters, Settled

\* A writer that ends with its temporary name in place closes the store.
LEMMA RegisterCloses ==
  ASSUME StoreIInv, NEW c \in Callers, Raise(c) \/ Crash(c)
  PROVE  RegisterSteps
<1>1. /\ UNCHANGED <<names, safe, file, call, acked, loaded>> /\ spent'.losses = spent.losses
      /\ pc' = [pc EXCEPT ![c] = "idle"]
  BY DEF Raise, Crash, Release, disk, history, StoreIInv, TypeOK
<1>2. Shown' = Shown /\ Settled' = Settled
  BY <1>1 DEF Shown, Loadable, Settled
<1>3. CASE pc[c] \notin WritePCs
  <2>1. \A k \in Candidates : Installing(k)' <=> Installing(k)
    BY <1>1, <1>3 DEF Installing, K, StoreIInv, TypeOK, WritePCs
  <2>2. Open' <=> Open
    BY <1>1, <2>1 DEF Open
  <2> QED BY <1>1, <1>2, <2>2, RegisterStuttering DEF RegisterStutters
<1>4. CASE pc[c] \in WritePCs /\ Temporary(K(c)) \notin names
  <2>1. \A l \in Candidates : Temporary(l) \notin names
    BY <1>4 DEF StoreIInv, StoreInv, WriterInv
  <2>2. Open /\ Open'
    BY <1>1, <2>1 DEF Open
  <2> QED BY <1>1, <1>2, <2>2, RegisterStuttering DEF RegisterStutters
<1>5. CASE pc[c] \in WritePCs /\ Temporary(K(c)) \in names
  <2>1. Open
    BY <1>5, WriterKeepsOpen
  <2>2. \A d \in Callers : pc'[d] \notin WritePCs
    BY <1>1, <1>5, OnlyOneWrites DEF StoreIInv, TypeOK, WritePCs
  <2>3. K(c) \in Candidates
    BY DEF K, StoreIInv, TypeOK, Calls
  <2>4. ~Open'
    BY <1>1, <1>5, <2>2, <2>3 DEF Open, Installing
  <2>5. Register!Close
    BY <1>1, <1>2, <2>1, <2>4 DEF Register!Close, Shown, Open, Settled
  <2> QED BY <2>5 DEF RegisterSteps, Register!RNext
<1> QED BY <1>3, <1>4, <1>5

LEMMA RegisterLosesPower ==
  ASSUME StoreIInv, PowerLoss
  PROVE  RegisterSteps
<1>1. StoreIInv'
  BY StorePowerLoss
<1>2. /\ UNCHANGED <<acked, loaded>> /\ spent'.losses = spent.losses + 1
      /\ pc' = [c \in Callers |-> "idle"]
  BY DEF PowerLoss, history, StoreIInv, TypeOK
<1>3. Settled \subseteq Shown' /\ Shown' \subseteq Candidates /\ Settled' = Settled
  BY <1>1, <1>2 DEF Settled, Shown, StoreIInv, AckedIsSettled, TypeOK, Loadable
<1>4. Open' => \A k \in Candidates : Temporary(k) \notin names'
  BY <1>2 DEF Open, Installing, WritePCs
<1>5. Open' => loaded \subseteq Shown'
  BY <1>1, <1>2, <1>4 DEF Shown, StoreIInv, LoadedIsDurable, TypeOK, Loadable
<1>6. Register!PowerLoss
  BY <1>2, <1>3, <1>5 DEF Register!PowerLoss, Shown, Open, Settled
<1> QED BY <1>6 DEF RegisterSteps, Register!RNext

LEMMA RegisterStep ==
  ASSUME StoreIInv, [Next]_vars
  PROVE  RegisterSteps
<1>1. CASE UNCHANGED vars
  <2>1. RegisterStutters
    BY <1>1 DEF vars, RegisterStutters, Shown, Loadable, Open, Installing, K, Settled
  <2> QED BY <2>1, RegisterStuttering
<1>2. CASE Next
  BY <1>2, RegisterLooks, RegisterShowsLoaded, RegisterShowsPersisted, RegisterPersists,
     RegisterWrites, RegisterCloses, RegisterLosesPower, RegisterStuttering DEF Next, Step
<1> QED BY <1>1, <1>2

LEMMA RegisterStart ==
  ASSUME Init
  PROVE  Register!RInit
<1>1. Shown = {} /\ Settled = {} /\ Open /\ loaded = {} /\ spent.losses = 0
  <2>1. names = {} /\ acked = {} /\ loaded = {} /\ spent.losses = 0
    BY DEF Init
  <2>2. Settled = {}
    BY <2>1 DEF Settled
  <2>3. Shown = {} /\ Open
    BY <2>1 DEF Shown, Loadable, Open
  <2> QED BY <2>1, <2>2, <2>3
<1> QED BY <1>1 DEF Register!RInit, Shown, Settled, Open

-----------------------------------------------------------------------------
(***************************************************************************)
(* The recovery materials implement MaterialsVault, in a root that is      *)
(* ready and in one that is being initialised.                             *)
(***************************************************************************)
Statuses == [t \in Transactions |-> Materials!Status(t)]

VaultSteps == Materials!Vault!VNext \/ UNCHANGED Materials!Vault!vvars

LEMMA VaultStutters ==
  ASSUME \A t \in Transactions : Materials!Status(t)' = Materials!Status(t),
         UNCHANGED <<acked, loaded>>, spent'.losses = spent.losses
  PROVE  VaultSteps
<1>1. Statuses' = Statuses
  BY DEF Statuses
<1> QED BY <1>1 DEF VaultSteps, Materials!Vault!vvars, Statuses

LEMMA VaultAdvances ==
  ASSUME NEW t \in Transactions,
         \A u \in Transactions : u # t => Materials!Status(u)' = Materials!Status(u),
         UNCHANGED <<acked, loaded>>, spent'.losses = spent.losses,
         \/ Materials!Status(t) = "absent" /\ Materials!Status(t)' = "making"
         \/ Materials!Status(t) = "making" /\ Materials!Status(t)' = "ready"
         \/ Materials!Status(t) = "making" /\ Materials!Status(t)' = "broken"
  PROVE  VaultSteps
<1>1. Statuses' = [Statuses EXCEPT ![t] = Materials!Status(t)'] /\ Statuses[t] = Materials!Status(t)
  BY DEF Statuses
<1>2. \/ Materials!Vault!Advance(t, "absent", "making")
      \/ Materials!Vault!Advance(t, "making", "ready")
      \/ Materials!Vault!Advance(t, "making", "broken")
  BY <1>1 DEF Materials!Vault!Advance, Statuses
<1> QED BY <1>2 DEF VaultSteps, Materials!Vault!VNext

LEMMA VaultShows ==
  ASSUME NEW t \in Transactions, Materials!Complete(t), <<t, "directory">> \in entries,
         \A u \in Transactions : Materials!Status(u)' = Materials!Status(u),
         spent'.losses = spent.losses,
         \/ acked' = acked /\ loaded' = loaded \cup {t}
         \/ acked' = acked \cup {t} /\ loaded' = loaded
  PROVE  VaultSteps
<1>1. Statuses' = Statuses /\ Statuses[t] = "ready"
  BY DEF Statuses, Materials!Status
<1>2. (acked \cup loaded)' = (acked \cup loaded) \cup {t}
  OBVIOUS
<1>3. Materials!Vault!Show(t)
  BY <1>1, <1>2 DEF Materials!Vault!Show, Statuses
<1> QED BY <1>3 DEF VaultSteps, Materials!Vault!VNext

\* Nobody begins or ends to create, and the disk stays.
LEMMA StatusSame ==
  ASSUME UNCHANGED <<entries, bytes>>,
         \A d \in Callers : /\ pc'[d] \in Materials!CreatePCs <=> pc[d] \in Materials!CreatePCs
                            /\ pc[d] \in Materials!CreatePCs =>
                                 Materials!T(d)' = Materials!T(d)
  PROVE  \A t \in Transactions : Materials!Status(t)' = Materials!Status(t)
BY DEF Materials!Status, Materials!Complete, Materials!Making

\* Who is not being created keeps its status while another is.
LEMMA OthersKeepStatus ==
  ASSUME NEW t \in Transactions, NEW u \in Transactions, u # t,
         \A d \in Callers : pc[d] \in Materials!CreatePCs => Materials!T(d) = t,
         \A d \in Callers : pc'[d] \in Materials!CreatePCs => Materials!T(d)' = t,
         \A n : <<u, n>> \in entries' <=> <<u, n>> \in entries,
         bytes'[u] = bytes[u]
  PROVE  Materials!Status(u)' = Materials!Status(u)
<1>1. ~Materials!Making(u) /\ ~Materials!Making(u)'
  BY DEF Materials!Making
<1>2. Materials!Complete(u)' <=> Materials!Complete(u)
  BY DEF Materials!Complete
<1> QED BY <1>1, <1>2 DEF Materials!Status

LEMMA VaultLooks ==
  ASSUME CoreIInv, NEW c \in Callers,
         Initialised!Begin(c) \/ RootSteps(c) \/ Materials!Look(c) \/ Materials!Refuse(c)
           \/ Materials!ReturnLoaded(c) \/ Materials!Acquire(c)
  PROVE  VaultSteps
<1>1. /\ UNCHANGED <<entries, bytes, acked>> /\ spent'.losses = spent.losses
      /\ \E next \in RootPCs \cup LookPCs, what \in Materials!Calls :
           pc' = [pc EXCEPT ![c] = next] /\ call' = [call EXCEPT ![c] = what]
      /\ pc[c] \in RootPCs \cup LookPCs
  <2>1. CASE Materials!Acquire(c)
    <3>1. /\ pc[c] = "lock" /\ pc' = [pc EXCEPT ![c] = "locked"]
          /\ UNCHANGED <<entries, bytes, call, acked, spent>>
      BY <2>1 DEF Materials!Acquire, Materials!disk, Materials!history
    <3>2. call' = [call EXCEPT ![c] = call[c]] /\ call[c] \in Materials!Calls
      BY <3>1 DEF CoreIInv, Materials!TypeOK
    <3> QED BY <3>1, <3>2 DEF LookPCs
  <2>2. CASE ~Materials!Acquire(c)
    <3>1. spent' = spent \/ spent' = [spent EXCEPT !.calls = @ + 1]
      BY <2>2, CoreGoesOn
    <3>2. spent'.losses = spent.losses
      BY <3>1 DEF CoreIInv, Materials!TypeOK
    <3> QED BY <2>2, <3>2, CoreGoesOn
  <2> QED BY <2>1, <2>2
<1>2. \A t \in Transactions : Materials!Status(t)' = Materials!Status(t)
  <2>1. \A next \in RootPCs \cup LookPCs : next \notin Materials!CreatePCs
    BY DEF RootPCs, LookPCs, Materials!InitPCs, Materials!CreatePCs
  <2>2. \A d \in Callers : d # c => pc'[d] = pc[d] /\ call'[d] = call[d]
    BY <1>1 DEF CoreIInv, Materials!TypeOK
  <2>3. pc[c] \notin Materials!CreatePCs /\ pc'[c] \notin Materials!CreatePCs
    BY <1>1, <2>1 DEF CoreIInv, Materials!TypeOK
  <2> QED BY <1>1, <2>2, <2>3, StatusSame DEF Materials!T
<1>3. CASE Materials!ReturnLoaded(c)
  <2>1. /\ Materials!Complete(Materials!T(c)) /\ loaded' = loaded \cup {Materials!T(c)}
        /\ Materials!T(c) \in Transactions
    BY <1>3 DEF Materials!ReturnLoaded, CoreIInv, Materials!TypeOK, Materials!T,
       Materials!Calls
  <2>2. PICK t \in Transactions : t = Materials!T(c)
    BY <2>1
  <2>3. Materials!Complete(t)
    BY <2>1, <2>2 DEF Materials!Complete
  <2>4. <<t, "directory">> \in entries
    BY <2>3, FilesAreNamed DEF Materials!Complete
  <2> QED BY <1>1, <1>2, <2>1, <2>2, <2>3, <2>4, VaultShows
<1>4. CASE ~Materials!ReturnLoaded(c)
  <2>1. loaded' = loaded
    BY <1>4 DEF Initialised!Begin, Initialised!history, RootSteps, Materials!ListRoot,
       Materials!MakeLock, Materials!MakeTransactions, Materials!MakeRootEntry,
       Materials!SyncRoot, Materials!Initialized, Materials!Look, Materials!Refuse,
       Materials!Acquire, Materials!history
  <2> QED BY <1>1, <1>2, <2>1, VaultStutters
<1> QED BY <1>3, <1>4

LEMMA VaultBegins ==
  ASSUME CoreIInv, NEW c \in Callers, Materials!MakeDirectory(c)
  PROVE  VaultSteps
<1>1. PICK t \in Transactions : t = Materials!T(c)
  BY DEF CoreIInv, Materials!TypeOK, Materials!T, Materials!Calls
<1>2. /\ pc[c] = "locked" /\ call[c].op = "create" /\ <<t, "directory">> \notin entries
      /\ entries' = entries \cup {<<t, "directory">>} /\ pc' = [pc EXCEPT ![c] = "mkPreimages"]
      /\ UNCHANGED <<bytes, call, acked, loaded, spent>>
  BY <1>1 DEF Materials!MakeDirectory, Materials!MakeName, Materials!Goto, Materials!history
<1>3. held[c] = "EX"
  BY <1>2 DEF CoreIInv, Materials!MaterialsInv, Materials!LockInv, Materials!LockMode
<1>4. \A d \in Callers : pc[d] \notin Materials!CreatePCs
  BY <1>2, <1>3, OnlyOneCreates DEF Materials!CreatePCs
<1>5. pc'[c] \in Materials!CreatePCs /\ \A d \in Callers : pc'[d] \in Materials!CreatePCs => d = c
  BY <1>2, <1>4 DEF CoreIInv, Materials!TypeOK, Materials!CreatePCs
<1>6. \A u \in Transactions : u # t => Materials!Status(u)' = Materials!Status(u)
  BY <1>1, <1>2, <1>4, <1>5, OthersKeepStatus DEF Materials!T
<1>7. Materials!Status(t) = "absent"
  BY <1>2 DEF Materials!Status
<1>8. <<t, "manifest">> \notin entries'
  BY <1>2, FilesAreNamed
     DEF CoreIInv, Materials!MaterialsInv, Materials!TreeInv, Materials!Above
<1>9. Materials!Status(t)' = "making"
  <2>1. ~Materials!Complete(t)'
    BY <1>8, FilesAreNamed DEF Materials!Complete
  <2>2. Materials!Making(t)'
    BY <1>1, <1>2, <1>5 DEF Materials!Making, Materials!T
  <2> QED BY <1>2, <2>1, <2>2 DEF Materials!Status
<1> QED BY <1>2, <1>6, <1>7, <1>9, VaultAdvances

LEMMA CreationAdds ==
  ASSUME CoreIInv, NEW c \in Callers, NEW t \in Transactions, t = Materials!T(c),
         \/ Materials!MakePreimages(c) \/ Materials!OpenFile(c) \/ Materials!WriteFile(c)
         \/ Materials!SyncFile(c) \/ Materials!SyncPreimages(c)
         \/ Materials!SyncTransaction(c) \/ Materials!SyncTransactions(c)
  PROVE  /\ pc[c] \in Materials!CreatePCs /\ UNCHANGED <<acked, loaded, spent>>
         /\ \E next \in Materials!CreatePCs : pc' = [pc EXCEPT ![c] = next]
         /\ \E f : call' = [call EXCEPT ![c].file = f]
         /\ entries' = entries \/ \E n : entries' = entries \cup {<<t, n>>}
         /\ \/ bytes' = bytes
            \/ bytes' = [bytes EXCEPT ![t][call[c].file] = "torn"] /\ pc[c] = "open"
            \/ bytes' = [bytes EXCEPT ![t][call[c].file] = "whole"]
            \/ bytes' = [bytes EXCEPT ![t][call[c].file] = "durable"]
<1>1. call = [call EXCEPT ![c].file = call[c].file]
  BY DEF CoreIInv, Materials!TypeOK, Materials!Calls
<1> USE DEF Materials!Goto, Materials!history, Materials!CreatePCs
<1>2. CASE Materials!MakePreimages(c)
  BY <1>1, <1>2 DEF Materials!MakePreimages, Materials!MakeName
<1>3. CASE Materials!OpenFile(c)
  BY <1>1, <1>3 DEF Materials!OpenFile, Materials!MakeName, Materials!SetBytes
<1>4. CASE Materials!WriteFile(c)
  BY <1>1, <1>4 DEF Materials!WriteFile, Materials!SetBytes
<1>5. CASE Materials!SyncFile(c)
  <2>1. Materials!AfterFile(call[c].file) \in {"open", "syncPreimages", "syncTransaction"}
    BY DEF Materials!AfterFile
  <2> QED BY <1>5, <2>1 DEF Materials!SyncFile, Materials!SetBytes
<1>6. CASE Materials!SyncPreimages(c)
  BY <1>6 DEF Materials!SyncPreimages, Materials!SyncDirectory
<1>7. CASE Materials!SyncTransaction(c) \/ Materials!SyncTransactions(c)
  BY <1>1, <1>7 DEF Materials!SyncTransaction, Materials!SyncTransactions,
     Materials!SyncDirectory
<1> QED BY <1>2, <1>3, <1>4, <1>5, <1>6, <1>7

LEMMA VaultBuilds ==
  ASSUME CoreIInv, NEW c \in Callers,
         \/ Materials!MakePreimages(c) \/ Materials!OpenFile(c) \/ Materials!WriteFile(c)
         \/ Materials!SyncFile(c) \/ Materials!SyncPreimages(c)
         \/ Materials!SyncTransaction(c) \/ Materials!SyncTransactions(c)
  PROVE  VaultSteps
<1>1. PICK t \in Transactions : t = Materials!T(c)
  BY DEF CoreIInv, Materials!TypeOK, Materials!T, Materials!Calls
<1>2. /\ pc[c] \in Materials!CreatePCs /\ UNCHANGED <<acked, loaded, spent>>
      /\ \E next \in Materials!CreatePCs : pc' = [pc EXCEPT ![c] = next]
      /\ \E f : call' = [call EXCEPT ![c].file = f]
      /\ entries' = entries \/ \E n : entries' = entries \cup {<<t, n>>}
      /\ \/ bytes' = bytes
         \/ bytes' = [bytes EXCEPT ![t][call[c].file] = "torn"] /\ pc[c] = "open"
         \/ bytes' = [bytes EXCEPT ![t][call[c].file] = "whole"]
         \/ bytes' = [bytes EXCEPT ![t][call[c].file] = "durable"]
  BY <1>1, CreationAdds
<1>3. CreationOk(c) /\ call[c].file \in 1 .. Len(Materials!Files)
  BY <1>2, CreationFacts, FilesAreNamed
<1>4. pc'[c] \in Materials!CreatePCs /\ Materials!T(c)' = t
  BY <1>1, <1>2 DEF CoreIInv, Materials!TypeOK, Materials!T, Materials!Calls
<1>5. /\ \A d \in Callers : pc[d] \in Materials!CreatePCs => d = c
      /\ \A d \in Callers : pc'[d] \in Materials!CreatePCs => d = c
  BY <1>2, OnlyOneCreates DEF CoreIInv, Materials!TypeOK
<1>6. \A u \in Transactions : u # t =>
        (\A n : <<u, n>> \in entries' <=> <<u, n>> \in entries) /\ bytes'[u] = bytes[u]
  BY <1>2 DEF CoreIInv, Materials!TypeOK
<1>7. \A u \in Transactions : u # t => Materials!Status(u)' = Materials!Status(u)
  BY <1>1, <1>4, <1>5, <1>6, OthersKeepStatus
<1>8. <<t, "directory">> \in entries /\ <<t, "directory">> \in entries'
  BY <1>1, <1>2, <1>3 DEF CreationOk
<1>9. Materials!Making(t) /\ Materials!Making(t)'
  BY <1>1, <1>2, <1>4 DEF Materials!Making
<1>10. Materials!Complete(t) => Materials!Complete(t)'
  <2>1. SUFFICES ASSUME Materials!Complete(t)
                 PROVE  Materials!Complete(t)'
    OBVIOUS
  <2>2. pc[c] # "open"
    BY <1>1, <1>3, <2>1, FilesAreNamed DEF CreationOk, Materials!Complete
  <2>3. \A i \in 1 .. Len(Materials!Files) :
          bytes'[t][i] \in {bytes[t][i], "whole", "durable"}
    BY <1>2, <2>2 DEF CoreIInv, Materials!TypeOK
  <2>4. \A n \in Materials!Names : <<t, n>> \in entries'
    BY <1>2, <2>1 DEF Materials!Complete
  <2> QED BY <2>1, <2>3, <2>4 DEF Materials!Complete
<1>11. CASE Materials!Complete(t)' <=> Materials!Complete(t)
  <2>1. Materials!Status(t)' = Materials!Status(t)
    BY <1>8, <1>9, <1>11 DEF Materials!Status
  <2> QED BY <1>2, <1>7, <2>1, VaultStutters
<1>12. CASE ~Materials!Complete(t) /\ Materials!Complete(t)'
  <2>1. Materials!Status(t) = "making" /\ Materials!Status(t)' = "ready"
    BY <1>8, <1>9, <1>12 DEF Materials!Status
  <2> QED BY <1>2, <1>7, <2>1, VaultAdvances
<1> QED BY <1>10, <1>11, <1>12

\* The caller that creates ends: what it leaves is ready, or broken off for good.
LEMMA CreatorEnds ==
  ASSUME CoreIInv, NEW c \in Callers, pc[c] \in Materials!CreatePCs,
         NEW t \in Transactions, t = Materials!T(c), UNCHANGED <<entries, bytes, call>>,
         pc' = [pc EXCEPT ![c] = "idle"]
  PROVE  /\ \A u \in Transactions : u # t => Materials!Status(u)' = Materials!Status(u)
         /\ <<t, "directory">> \in entries
         /\ Materials!Complete(t) =>
              Materials!Status(t) = "ready" /\ Materials!Status(t)' = "ready"
         /\ ~Materials!Complete(t) =>
              Materials!Status(t) = "making" /\ Materials!Status(t)' = "broken"
<1>1. <<t, "directory">> \in entries
  BY CreationFacts DEF CreationOk
<1>2. \A d \in Callers : pc[d] \in Materials!CreatePCs => d = c
  BY OnlyOneCreates
<1>3. \A d \in Callers : pc'[d] \notin Materials!CreatePCs
  BY <1>2 DEF CoreIInv, Materials!TypeOK, Materials!CreatePCs
<1>4. \A u \in Transactions : u # t => Materials!Status(u)' = Materials!Status(u)
  BY <1>2, <1>3, OthersKeepStatus
<1>5. Materials!Making(t) /\ ~Materials!Making(t)'
  BY <1>3 DEF Materials!Making
<1>6. Materials!Complete(t)' <=> Materials!Complete(t)
  BY DEF Materials!Complete
<1> QED BY <1>1, <1>4, <1>5, <1>6 DEF Materials!Status

LEMMA VaultKeeps ==
  ASSUME CoreIInv, NEW c \in Callers, Materials!Acknowledge(c)
  PROVE  VaultSteps
<1>1. PICK t \in Transactions : t = Materials!T(c)
  BY DEF CoreIInv, Materials!TypeOK, Materials!T, Materials!Calls
<1>2. /\ pc[c] \in Materials!CreatePCs /\ acked' = acked \cup {t} /\ loaded' = loaded
      /\ UNCHANGED <<entries, bytes, call>> /\ spent' = spent
      /\ pc' = [pc EXCEPT ![c] = "idle"]
  BY <1>1 DEF Materials!Acknowledge, Materials!Release, Materials!disk, Materials!CreatePCs
<1>3. Materials!Complete(t)
  BY <1>1 DEF Materials!Acknowledge, Materials!Complete
<1>4. \A u \in Transactions : Materials!Status(u)' = Materials!Status(u)
  BY <1>1, <1>2, <1>3, CreatorEnds
<1>5. <<t, "directory">> \in entries
  BY <1>3, FilesAreNamed DEF Materials!Complete
<1> QED BY <1>2, <1>3, <1>4, <1>5, VaultShows

LEMMA VaultBreaks ==
  ASSUME CoreIInv, NEW c \in Callers, Materials!Raise(c) \/ Materials!Crash(c)
  PROVE  VaultSteps
<1>1. /\ UNCHANGED <<entries, bytes, call, acked, loaded>> /\ spent'.losses = spent.losses
      /\ pc' = [pc EXCEPT ![c] = "idle"]
  BY DEF Materials!Raise, Materials!Crash, Materials!Release, Materials!disk,
         Materials!history, CoreIInv, Materials!TypeOK
<1>2. CASE pc[c] \notin Materials!CreatePCs
  <2>1. \A t \in Transactions : Materials!Status(t)' = Materials!Status(t)
    BY <1>1, <1>2, StatusSame DEF CoreIInv, Materials!TypeOK, Materials!T,
       Materials!CreatePCs
  <2> QED BY <1>1, <2>1, VaultStutters
<1>3. CASE pc[c] \in Materials!CreatePCs
  <2>1. PICK t \in Transactions : t = Materials!T(c)
    BY DEF CoreIInv, Materials!TypeOK, Materials!T, Materials!Calls
  <2>2. CASE Materials!Complete(t)
    <3>1. \A u \in Transactions : Materials!Status(u)' = Materials!Status(u)
      BY <1>1, <1>3, <2>1, <2>2, CreatorEnds
    <3> QED BY <1>1, <3>1, VaultStutters
  <2>3. CASE ~Materials!Complete(t)
    BY <1>1, <1>3, <2>1, <2>3, CreatorEnds, VaultAdvances
  <2> QED BY <2>2, <2>3
<1> QED BY <1>2, <1>3

LEMMA VaultLosesPower ==
  ASSUME MaterialsIInv, Materials!PowerLoss
  PROVE  VaultSteps
<1>1. MaterialsIInv'
  BY MaterialsPowerLoss
<1>2. /\ UNCHANGED <<acked, loaded>> /\ spent'.losses = spent.losses + 1
      /\ \A d \in Callers : pc'[d] = "idle"
  BY DEF Materials!PowerLoss, Materials!history, MaterialsIInv, CoreIInv, Materials!TypeOK
<1>3. entries' \subseteq entries
  BY DEF Materials!PowerLoss, MaterialsIInv, CoreIInv, Materials!TypeOK
<1>4. \A t \in Transactions, i \in 1 .. Len(Materials!Files) :
        bytes[t][i] = "torn" => bytes'[t][i] = "torn"
  <2> SUFFICES ASSUME NEW t \in Transactions, NEW i \in 1 .. Len(Materials!Files),
                      bytes[t][i] = "torn"
               PROVE  bytes'[t][i] = "torn"
    OBVIOUS
  <2>1. PICK rootKept \in SUBSET (root \ rootSafe), kept \in SUBSET (entries \ safe),
             torn \in SUBSET {x \in Transactions \X (1 .. Len(Materials!Files)) :
                                bytes[x[1]][x[2]] = "whole"} :
          bytes' = [u \in Transactions |-> [k \in 1 .. Len(Materials!Files) |->
             IF <<u, k>> \in torn THEN "torn"
             ELSE IF bytes[u][k] = "whole" THEN "durable" ELSE bytes[u][k]]]
    BY DEF Materials!PowerLoss
  <2>2. bytes'[t][i] = IF <<t, i>> \in torn THEN "torn"
                       ELSE IF bytes[t][i] = "whole" THEN "durable" ELSE bytes[t][i]
    BY <2>1
  <2> QED BY <2>2
<1>5. \A t \in Transactions : Materials!Complete(t)' => Materials!Complete(t)
  BY <1>3, <1>4 DEF Materials!Complete
<1>6. \A t \in Transactions : ~Materials!Making(t)'
  BY <1>2 DEF Materials!Making, Materials!CreatePCs
<1>7. \A t \in Transactions :
        /\ Materials!Status(t)' \in {"absent", "ready", "broken"}
        /\ Materials!Status(t) = "absent" => Materials!Status(t)' = "absent"
        /\ Materials!Status(t)' = "ready" => Materials!Status(t) = "ready"
  BY <1>3, <1>5, <1>6 DEF Materials!Status
<1>8. \A t \in acked : t \in Transactions /\ Materials!Status(t)' = "ready"
  <2> SUFFICES ASSUME NEW t \in acked
               PROVE  t \in Transactions /\ Materials!Status(t)' = "ready"
    OBVIOUS
  <2>1. t \in Transactions
    BY DEF MaterialsIInv, CoreIInv, Materials!TypeOK
  <2>2. (\A n \in Materials!Names : <<t, n>> \in safe') /\ safe' \subseteq entries'
        /\ \A i \in 1 .. Len(Materials!Files) : bytes'[t][i] = "durable"
    BY <1>1, <1>2 DEF MaterialsIInv, CoreIInv, Materials!MaterialsInv, Materials!KeptInv,
       Materials!AllSynced, Materials!TypeOK
  <2>3. Materials!Complete(t)'
    BY <2>2 DEF Materials!Complete
  <2>4. <<t, "directory">> \in entries'
    BY <2>2, FilesAreNamed
  <2> QED BY <2>1, <2>3, <2>4 DEF Materials!Status
<1>9. /\ Statuses' \in [Transactions -> {"absent", "ready", "broken"}]
      /\ \A t \in Transactions :
           /\ Statuses[t] = "absent" => Statuses'[t] = "absent"
           /\ Statuses'[t] = "ready" => Statuses[t] = "ready"
           /\ t \in acked => Statuses'[t] = "ready"
  BY <1>7, <1>8 DEF Statuses
<1>10. Materials!Vault!PowerLoss
  BY <1>2, <1>9 DEF Materials!Vault!PowerLoss, Statuses
<1> QED BY <1>10 DEF VaultSteps, Materials!Vault!VNext

LEMMA VaultMoves ==
  ASSUME CoreIInv, NEW c \in Callers, Moves(c)
  PROVE  VaultSteps
BY VaultLooks, VaultBegins, VaultBuilds, VaultKeeps, VaultBreaks DEF Moves, CreationSteps

LEMMA VaultUnchanged ==
  ASSUME UNCHANGED <<root, rootSafe, entries, safe, bytes, held, pc, call, acked, loaded, spent>>
  PROVE  VaultSteps
<1>1. \A t \in Transactions : Materials!Status(t)' = Materials!Status(t)
  BY StatusSame DEF Materials!T
<1> QED BY <1>1, VaultStutters

LEMMA VaultStart ==
  ASSUME Materials!Init \/ Initialised!Init
  PROVE  Materials!Vault!VInit
<1>1. entries = {} /\ acked = {} /\ loaded = {} /\ spent.losses = 0
  BY DEF Materials!Init, Initialised!Init
<1>2. Statuses = [t \in Transactions |-> "absent"]
  BY <1>1 DEF Statuses, Materials!Status
<1> QED BY <1>1, <1>2 DEF Materials!Vault!VInit, Statuses

-----------------------------------------------------------------------------
(***************************************************************************)
(* What the behaviours of the three stores promise.                        *)
(***************************************************************************)
StoresIInv ==
  /\ part = "candidates" => StoreIInv
  /\ part = "audit" => AuditIInv
  /\ part = "materials" => MaterialsIInv
  /\ part = "root" => CoreIInv

LEMMA StoresStart ==
  ASSUME StoresInit
  PROVE  StoresIInv
BY StoreInit, AuditInit, MaterialsInit DEF StoresInit, StoresIInv, MaterialsIInv

LEMMA StoresStep ==
  ASSUME StoresIInv, [StoresNext]_allVars
  PROVE  StoresIInv'
<1>1. part' = part
  BY DEF StoresNext, allVars
<1>2. part = "candidates" => [Next]_vars
  BY DEF StoresNext, allVars
<1>3. part = "audit" => [Audit!Next]_(Audit!vars)
  BY DEF StoresNext, allVars, vars, Audit!vars
<1>4. part = "materials" => [Materials!Next]_(Materials!vars)
  BY DEF StoresNext, allVars, vars, Materials!vars
<1>5. part = "root" => [Initialised!Next]_(Initialised!vars)
  BY DEF StoresNext, allVars, vars, Initialised!vars
<1>6. part = "candidates" => StoreIInv'
  BY <1>2, StoreStep DEF StoresIInv
<1>7. part = "audit" => AuditIInv'
  BY <1>3, AuditStep DEF StoresIInv
<1>8. part = "materials" => MaterialsIInv'
  BY <1>4, MaterialsStep DEF StoresIInv
<1>9. part = "root" => CoreIInv'
  BY <1>5, InitialisedStep DEF StoresIInv
<1> QED BY <1>1, <1>6, <1>7, <1>8, <1>9 DEF StoresIInv

LEMMA StoresInvariant == StoresSpec => []StoresIInv
BY StoresStart, StoresStep, PTL DEF StoresSpec

\* What a persist, a creation or a load of a candidate returned is durable, and a
\* manifest next to its preimages stands on preimages that are whole and durable;
\* where nothing fails, no holder of the lock meets half-made evidence
\* (lab_coding_candidate_store.py, lab_promotion_recovery_materials.py).
THEOREM EvidencesAreSound == StoresSpec => []EvidenceIsSound
<1>1. StoresIInv => EvidenceIsSound
  BY StoreResult, MaterialsResult, DurableInReadyRoot
     DEF StoresIInv, EvidenceIsSound, StoreIInv, MaterialsIInv, CoreIInv
<1> QED BY <1>1, StoresInvariant, PTL

\* The audit record that a writer was told of is the session's record for good,
\* whole and under one name; and writers that hinder each other do not all fail
\* (lab_session_audit.py).
THEOREM AuditsAreForever == StoresSpec => []AuditIsForever
<1>1. StoresIInv => AuditIsForever
  BY AuditResult DEF StoresIInv, AuditIsForever, AuditIInv
<1> QED BY <1>1, StoresInvariant, PTL

\* Every behaviour of the candidate store is one of the abstract register: a
\* candidate is there as a whole or not at all, a power loss takes none that a
\* persist returned, and hides one that a load returned only by closing the store
\* (lab_coding_candidate_store.py).
THEOREM StoresImplementRegister == StoresSpec => StoreImplementsRegister
<1>1. StoresInit => (part = "candidates" => Register!RInit)
  BY RegisterStart DEF StoresInit
<1>2. StoresIInv /\ [StoresNext]_allVars =>
        [part = "candidates" => Register!RNext \/ UNCHANGED Register!rvars]_allVars
  <2> SUFFICES ASSUME StoresIInv, StoresNext, part = "candidates"
               PROVE  RegisterSteps
    BY DEF RegisterSteps
  <2>1. StoreIInv /\ [Next]_vars
    BY DEF StoresIInv, StoresNext
  <2> QED BY <2>1, RegisterStep
<1> QED BY <1>1, <1>2, StoresInvariant, PTL DEF StoresSpec, StoreImplementsRegister

\* Every behaviour of the recovery materials is one of the abstract vault: material
\* is made at most once, what was broken off is never given to anyone, and what a
\* creation acknowledged survives every power loss
\* (lab_promotion_recovery_materials.py).
THEOREM StoresImplementVault == StoresSpec => MaterialsImplementVault
<1>1. StoresInit => (part \in {"materials", "root"} => Materials!Vault!VInit)
  BY VaultStart DEF StoresInit
<1>2. StoresIInv /\ [StoresNext]_allVars =>
        [(part \in {"materials", "root"}) =>
          Materials!Vault!VNext \/ UNCHANGED Materials!Vault!vvars]_allVars
  <2> SUFFICES ASSUME StoresIInv, StoresNext, part \in {"materials", "root"}
               PROVE  VaultSteps
    BY DEF VaultSteps
  <2>1. CASE part = "materials"
    <3>1. MaterialsIInv /\ Materials!Next
      BY <2>1 DEF StoresIInv, StoresNext
    <3> QED BY <3>1, MaterialsMoves, VaultMoves, VaultLosesPower DEF MaterialsIInv
  <2>2. CASE part = "root"
    <3>1. CoreIInv /\ Initialised!Next
      BY <2>2 DEF StoresIInv, StoresNext
    <3> QED BY <3>1, InitialisedMoves, VaultMoves
  <2> QED BY <2>1, <2>2
<1> QED BY <1>1, <1>2, StoresInvariant, PTL DEF StoresSpec, MaterialsImplementVault
=============================================================================
